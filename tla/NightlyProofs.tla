--------------------------- MODULE NightlyProofs ---------------------------
(* Theorems about Nightly, for any cases, repeats and rungs, and any       *)
(* number of nights cut short and of edits: no case is tried over its      *)
(* budget, and no row is retried twice on one rung.                        *)
(*                                                                         *)
(* Both need that a run is told from every earlier one (NumbersRise), and  *)
(* what the plan saw still to hold when the row is written: the jobs of a  *)
(* round have no row of it yet (FreshJobs), those of a retry still have    *)
(* the board row that made them due as their newest (DueJobs), and those   *)
(* of a board round still have an attempt left (JobsLeft).                 *)
EXTENDS Nightly, FiniteSetTheorems, TLAPS

NumbersRise == \A r \in rows : r.rev <= revision[r.job[1]] /\ r.run <= run

FreshJobs == pc \in {"board", "rung"} =>
               \A r \in rows : r.run = run => r.job \notin todo

IsNewest(b) == \A r \in rows : r.job = b.job /\ RowCurrent(r) => r.run <= b.run

DueJobs == pc = "rung" =>
             \A j \in todo : \E b \in rows : /\ b.job = j /\ b.rung = 0
                                             /\ RowCurrent(b) /\ IsNewest(b)

JobsLeft ==
  \A j \in todo :
    /\ pc = "load"  => Cardinality(ErrorRuns(j[1])) < MaxCaseAttempts
    /\ pc = "board" => Cardinality(ErrorRuns(j[1]) \ {run}) < MaxCaseAttempts

RetryInv == TypeOK /\ NumbersRise /\ FreshJobs /\ DueJobs /\ RetriedOnce
IInv     == RetryInv /\ JobsLeft /\ AttemptsBounded

-----------------------------------------------------------------------------
(* Types.                                                                  *)

LEMMA JobIs == ASSUME NEW j \in Jobs PROVE j[1] \in Cases
BY NightlyAssumption DEF Jobs, NightlyAssumption

LEMMA RungsAre == FirstRung \in Rungs /\ FirstRung # 0 /\ 0 \notin Rungs
BY NightlyAssumption DEF FirstRung, Rungs, NightlyAssumption

LEMMA TodoIsJobs ==
  ASSUME TypeOK, NEW rungs PROVE EscalationTodo(rungs) \subseteq Jobs
BY DEF TypeOK, EscalationTodo, EscalationJobs, Room, BoardRows, Row

LEMMA PendingIsRows == Pending \subseteq rows
BY DEF Pending

LEMMA GeneratedType ==
  ASSUME TypeOK, NEW j \in Jobs, NEW g \in {0} \cup Rungs, NEW e \in EndsOf[j[1]]
  PROVE  Generated(j, g, e) \in Row
<1>1. e \in Endings /\ revision[j[1]] \in Nat
  BY JobIs, NightlyAssumption DEF NightlyAssumption, TypeOK
<1>2. QED
  BY <1>1 DEF Generated, Row, TypeOK

LEMMA NewRunIsNew ==
  ASSUME TypeOK, NumbersRise
  PROVE  NewRun \in Nat /\ NewRun >= run /\ \A r \in rows : r.run < NewRun
BY DEF TypeOK, NumbersRise, NewRun, Row

(* What a verdict leaves of a row.                                         *)
SameRow(x, y) == /\ x.job = y.job /\ x.run = y.run /\ x.rung = y.rung
                 /\ x.rev = y.rev /\ x.ended = y.ended

LEMMA VerdictKeeps ==
  ASSUME TypeOK, NEW r \in rows, Verdict(r)
  PROVE  /\ rows' \subseteq Row /\ IsFiniteSet(rows') /\ waiting' \subseteq rows'
         /\ \A x \in rows' : \E y \in rows : SameRow(x, y)
         /\ \A y \in rows : \E x \in rows' : SameRow(x, y)
<1>1. PICK v \in {"good", "failed"} :
        rows' = (rows \ {r}) \cup
         IF v = "failed" /\ r.job[1] \in Reference THEN {r}
         ELSE {[r EXCEPT !.verdict = v,
                         !.attempts = IF v = "failed" THEN Attempts(r) ELSE 0]}
  BY DEF Verdict
<1>2. PICK x : rows' = (rows \ {r}) \cup {x} /\ x \in Row /\ SameRow(x, r)
  <2>1. CASE v = "failed" /\ r.job[1] \in Reference
    BY <1>1, <2>1 DEF SameRow, TypeOK
  <2>2. CASE ~(v = "failed" /\ r.job[1] \in Reference)
    <3> DEFINE a == IF v = "failed" THEN Attempts(r) ELSE 0
               x == [r EXCEPT !.verdict = v, !.attempts = a]
    <3>1. r \in Row /\ a \in Nat
      BY DEF TypeOK, Attempts, Row
    <3>2. x \in Row /\ SameRow(x, r)
      BY <3>1 DEF Row, SameRow
    <3>3. QED
      BY <1>1, <2>2, <3>2
  <2>3. QED
    BY <2>1, <2>2
<1>3. IsFiniteSet(rows \ {r}) /\ IsFiniteSet((rows \ {r}) \cup {x})
  BY FS_RemoveElement, FS_AddElement DEF TypeOK
<1>4. rows' \subseteq Row /\ waiting' \subseteq rows'
  BY <1>2 DEF TypeOK, Verdict
<1>5. QED
  BY <1>2, <1>3, <1>4 DEF SameRow

LEMMA TypeStep == ASSUME TypeOK, NumbersRise, [Next]_vars PROVE TypeOK'
<1> USE DEF TypeOK
<1>1. CASE Plan
  BY <1>1 DEF Plan
<1>2. CASE Load
  BY <1>2, NewRunIsNew DEF Load
<1>3. CASE BoardDone
  BY <1>3 DEF BoardDone
<1>4. CASE Escalate
  <2>1. todo' \subseteq Jobs /\ run' \in Nat /\ waiting' \subseteq rows
    BY <1>4, TodoIsJobs, NewRunIsNew, PendingIsRows DEF Escalate
  <2>2. failures' \in [Rungs -> Nat]
    BY <1>4, RungsAre, NightlyAssumption DEF Escalate, NightlyAssumption
  <2>3. QED
    BY <1>4, <2>1, <2>2 DEF Escalate
<1>5. CASE NothingToEscalate
  BY <1>5, PendingIsRows DEF NothingToEscalate
<1>6. CASE RungEnds
  BY <1>6, PendingIsRows, RungsAre DEF RungEnds
<1>7. CASE NightEnds
  BY <1>7 DEF NightEnds
<1>8. CASE \E j \in Jobs : BoardRow(j)
  <2>0. PICK j \in Jobs : BoardRow(j)
    BY <1>8
  <2>1. PICK e \in EndsOf[j[1]] : rows' = rows \cup {Generated(j, 0, e)}
    BY <2>0 DEF BoardRow
  <2>2. rows' \subseteq Row /\ IsFiniteSet(rows')
    BY <2>1, GeneratedType, FS_AddElement
  <2>3. QED
    BY <2>0, <2>2 DEF BoardRow
<1>9. CASE \E j \in Jobs : RungRow(j)
  <2>0. PICK j \in Jobs : RungRow(j)
    BY <1>9
  <2>1. PICK e \in EndsOf[j[1]] : rows' = rows \cup {Generated(j, FirstRung, e)}
    BY <2>0 DEF RungRow
  <2>2. rows' \subseteq Row /\ IsFiniteSet(rows')
    BY <2>1, GeneratedType, FS_AddElement, RungsAre
  <2>3. QED
    BY <2>0, <2>2 DEF RungRow
<1>10. CASE \E r \in rows : Verdict(r)
  <2>1. PICK r \in rows : Verdict(r)
    BY <1>10
  <2>2. QED
    BY <2>1, VerdictKeeps DEF Verdict
<1>11. CASE PhaseCut
  BY <1>11, PendingIsRows, NightlyAssumption DEF PhaseCut, Upset, NightlyAssumption
<1>12. CASE Sigterm
  BY <1>12, RungsAre, NightlyAssumption DEF Sigterm, Upset, NightlyAssumption
<1>13. CASE Crash
  BY <1>13, NightlyAssumption DEF Crash, Upset, NightlyAssumption
<1>14. CASE \E c \in Cases : Edit(c)
  BY <1>14, NightlyAssumption DEF Edit, Upset, NightlyAssumption
<1>15. CASE UNCHANGED vars
  BY <1>15 DEF vars
<1>16. QED
  BY <1>1, <1>2, <1>3, <1>4, <1>5, <1>6, <1>7, <1>8, <1>9, <1>10, <1>11, <1>12,
     <1>13, <1>14, <1>15 DEF Next, Night

-----------------------------------------------------------------------------
(* Retried once.                                                           *)

(* A step that leaves the rows, and the contents of the cases.             *)
LEMMA SameRows ==
  ASSUME RetryInv, UNCHANGED <<rows, revision>>
  PROVE  /\ RetriedOnce'
         /\ \A b \in rows : (RowCurrent(b) <=> RowCurrent(b)') /\
                            (IsNewest(b) <=> IsNewest(b)')
         /\ run' \in Nat /\ run' >= run => NumbersRise'
<1>1. \A b \in rows : RowCurrent(b) <=> RowCurrent(b)'
  BY DEF RowCurrent
<1>2. RetriedOnce'
  BY <1>1 DEF RetryInv, RetriedOnce
<1>3. \A b \in rows : IsNewest(b) <=> IsNewest(b)'
  BY <1>1 DEF IsNewest
<1>4. run' \in Nat /\ run' >= run => NumbersRise'
  BY DEF RetryInv, TypeOK, NumbersRise, Row
<1>5. QED
  BY <1>1, <1>2, <1>3, <1>4

(* The jobs the first rung is tried for have their newest row on the       *)
(* board's budget.                                                         *)
LEMMA DueIsBoard ==
  ASSUME TypeOK, NEW j \in EscalationTodo({FirstRung})
  PROVE  \E b \in rows : b.job = j /\ b.rung = 0 /\ RowCurrent(b) /\ IsNewest(b)
<1> DEFINE open == {FirstRung} \ BlockedRungs
<1>1. open = {FirstRung} /\ j \in EscalationJobs(Max(open))
  BY DEF EscalationTodo
<1>2. Max(open) = 1
  BY <1>1 DEF Max, FirstRung
<1>3. PICK b \in Room : b.job = j /\ b.rung < 1
  BY <1>1, <1>2 DEF EscalationJobs
<1>4. b \in rows /\ RowCurrent(b)
  BY <1>3 DEF Room, BoardRows
<1>5. b.rung = 0
  BY <1>3, <1>4, NightlyAssumption DEF TypeOK, Row, Rungs, NightlyAssumption
<1>6. \A r \in rows : r.job = b.job /\ RowCurrent(r) => r.run <= b.run
  BY <1>3, <1>4 DEF Room, BoardRows
<1>7. QED
  BY <1>3, <1>4, <1>5, <1>6 DEF IsNewest

(* A row of job j, of the newest run, as a round adds it.                  *)
LEMMA RowAdded ==
  ASSUME RetryInv, NEW j \in todo, NEW g \in {0} \cup Rungs, NEW e \in EndsOf[j[1]],
         g = 0 \/ pc = "rung", pc \in {"board", "rung"}, pc' = pc,
         rows' = rows \cup {Generated(j, g, e)}, todo' = todo \ {j},
         UNCHANGED <<revision, run>>
  PROVE  NumbersRise' /\ FreshJobs' /\ DueJobs' /\ RetriedOnce'
<1> DEFINE new == Generated(j, g, e)
<1>1. /\ new.job = j /\ new.run = run /\ new.rung = g
      /\ new.rev = revision[j[1]]
  BY DEF Generated
<1>2. j \in Jobs /\ revision[j[1]] \in Nat /\ run \in Nat
  BY JobIs DEF RetryInv, TypeOK
<1>3. NumbersRise'
  BY <1>1, <1>2 DEF RetryInv, NumbersRise
<1>4. FreshJobs'
  BY <1>1 DEF RetryInv, FreshJobs
<1>5. \A b \in rows : RowCurrent(b) <=> RowCurrent(b)'
  BY DEF RowCurrent
<1>6. DueJobs'
  <2> SUFFICES ASSUME pc' = "rung", NEW i \in todo'
               PROVE  \E b \in rows' : /\ b.job = i /\ b.rung = 0
                                       /\ RowCurrent(b)' /\ IsNewest(b)'
    BY DEF DueJobs
  <2>1. PICK b \in rows : b.job = i /\ b.rung = 0 /\ RowCurrent(b) /\ IsNewest(b)
    BY DEF RetryInv, DueJobs
  <2>2. IsNewest(b)'
    BY <2>1, <1>1, <1>5 DEF IsNewest
  <2>3. QED
    BY <2>1, <2>2, <1>5
<1>7. RetriedOnce'
  <2> SUFFICES ASSUME NEW r \in rows', NEW s \in rows',
                      r.rung > 0, r.rung = s.rung, r.job = s.job, r.run < s.run,
                      RowCurrent(r)', RowCurrent(s)'
               PROVE  \E b \in rows' : /\ b.job = r.job /\ b.rung = 0
                                       /\ b.run \in r.run..s.run
    BY DEF RetriedOnce
  <2>1. r \in rows
    BY <1>1, <1>2, <1>3 DEF NumbersRise, RetryInv, TypeOK, Row
  <2>2. CASE s \in rows
    BY <2>1, <2>2, <1>5 DEF RetryInv, RetriedOnce
  <2>3. CASE s = new
    <3>1. pc = "rung" /\ r.job = j
      BY <2>3, <1>1
    <3>2. PICK b \in rows : b.job = j /\ b.rung = 0 /\ RowCurrent(b) /\ IsNewest(b)
      BY <3>1 DEF RetryInv, DueJobs
    <3>3. r.run <= b.run /\ b.run <= run /\ b.run \in Nat
      BY <3>1, <3>2, <2>1, <1>5 DEF IsNewest, RetryInv, NumbersRise, TypeOK, Row
    <3>4. b.run \in r.run..s.run
      BY <3>3, <2>1, <2>3, <1>1, <1>2 DEF RetryInv, TypeOK, Row
    <3>5. QED
      BY <3>1, <3>2, <3>4
  <2>4. QED
    BY <2>2, <2>3
<1>8. QED
  BY <1>3, <1>4, <1>6, <1>7

LEMMA RetryVerdict ==
  ASSUME RetryInv, NEW q \in rows, Verdict(q)
  PROVE  NumbersRise' /\ FreshJobs' /\ DueJobs' /\ RetriedOnce'
<1>1. /\ \A x \in rows' : \E y \in rows : SameRow(x, y)
      /\ \A y \in rows : \E x \in rows' : SameRow(x, y)
  BY VerdictKeeps DEF RetryInv
<1>2. UNCHANGED <<revision, pc, todo, run>> /\ pc = "judge"
  BY DEF Verdict
<1>3. NumbersRise'
  BY <1>1, <1>2 DEF RetryInv, NumbersRise, SameRow
<1>4. FreshJobs' /\ DueJobs'
  BY <1>2 DEF FreshJobs, DueJobs
<1>5. RetriedOnce'
  <2> SUFFICES ASSUME NEW r \in rows', NEW s \in rows',
                      r.rung > 0, r.rung = s.rung, r.job = s.job, r.run < s.run,
                      RowCurrent(r)', RowCurrent(s)'
               PROVE  \E b \in rows' : /\ b.job = r.job /\ b.rung = 0
                                       /\ b.run \in r.run..s.run
    BY DEF RetriedOnce
  <2>1. PICK r0 \in rows, s0 \in rows : SameRow(r, r0) /\ SameRow(s, s0)
    BY <1>1
  <2>2. RowCurrent(r0) /\ RowCurrent(s0)
    BY <2>1, <1>2 DEF RowCurrent, SameRow
  <2>3. PICK b0 \in rows : b0.job = r0.job /\ b0.rung = 0 /\ b0.run \in r0.run..s0.run
    BY <2>1, <2>2 DEF RetryInv, RetriedOnce, SameRow
  <2>4. PICK b \in rows' : SameRow(b, b0)
    BY <1>1
  <2>5. QED
    BY <2>1, <2>3, <2>4 DEF SameRow
<1>6. QED
  BY <1>3, <1>4, <1>5

LEMMA RetryEdit ==
  ASSUME RetryInv, NEW c \in Cases, Edit(c)
  PROVE  NumbersRise' /\ FreshJobs' /\ DueJobs' /\ RetriedOnce'
<1>1. /\ revision' = [revision EXCEPT ![c] = @ + 1] /\ pc' = "idle"
      /\ UNCHANGED <<rows, run>> /\ revision \in [Cases -> Nat]
  BY DEF Edit, RetryInv, TypeOK
<1>2. \A r \in rows : r.job[1] \in Cases /\ r.rev \in Nat /\ r.rev <= revision[r.job[1]]
  BY JobIs DEF RetryInv, TypeOK, Row, NumbersRise
<1>3. NumbersRise'
  BY <1>1, <1>2 DEF RetryInv, NumbersRise
<1>4. \A r \in rows : RowCurrent(r)' => RowCurrent(r)
  BY <1>1, <1>2 DEF RowCurrent
<1>5. RetriedOnce'
  BY <1>1, <1>4 DEF RetryInv, RetriedOnce
<1>6. QED
  BY <1>1, <1>3, <1>5 DEF FreshJobs, DueJobs

LEMMA RetryStep == ASSUME RetryInv, [Next]_vars PROVE RetryInv'
<1> SUFFICES NumbersRise' /\ FreshJobs' /\ DueJobs' /\ RetriedOnce'
  BY TypeStep DEF RetryInv
<1> DEFINE Frame == UNCHANGED <<rows, revision, run>>
<1>0. ASSUME Frame, pc' \notin {"board", "rung"}
      PROVE  NumbersRise' /\ FreshJobs' /\ DueJobs' /\ RetriedOnce'
  BY <1>0, SameRows DEF FreshJobs, DueJobs, RetryInv, TypeOK
<1>1. CASE Plan
  BY <1>0, <1>1 DEF Plan
<1>2. CASE Load
  <2>1. /\ run' = NewRun /\ UNCHANGED <<rows, revision, todo>> /\ pc' = "board"
        /\ run' \in Nat /\ run' >= run /\ \A r \in rows : r.run < run'
    BY <1>2, NewRunIsNew DEF Load, RetryInv
  <2>2. FreshJobs'
    BY <2>1 DEF FreshJobs, RetryInv, TypeOK, Row
  <2>3. QED
    BY <2>1, <2>2, SameRows DEF DueJobs
<1>3. CASE BoardDone
  BY <1>0, <1>3 DEF BoardDone
<1>4. CASE Escalate
  <2>1. CASE pc' = "judge" /\ run' = run
    BY <1>0, <1>4, <2>1 DEF Escalate
  <2>2. CASE todo' = EscalationTodo({FirstRung}) /\ run' = NewRun /\ pc' = "rung"
    <3>1. /\ UNCHANGED <<rows, revision>>
          /\ run' \in Nat /\ run' >= run /\ \A r \in rows : r.run < run'
      BY <1>4, <2>2, NewRunIsNew DEF Escalate, RetryInv
    <3>2. FreshJobs'
      BY <3>1 DEF FreshJobs, RetryInv, TypeOK, Row
    <3>3. DueJobs'
      BY <3>1, <2>2, DueIsBoard, SameRows DEF DueJobs, RetryInv
    <3>4. QED
      BY <3>1, <3>2, <3>3, SameRows
  <2>3. QED
    BY <1>4, <2>1, <2>2 DEF Escalate
<1>5. CASE NothingToEscalate
  BY <1>0, <1>5 DEF NothingToEscalate
<1>6. CASE RungEnds
  BY <1>0, <1>6 DEF RungEnds
<1>7. CASE NightEnds
  BY <1>0, <1>7 DEF NightEnds
<1>8. CASE \E j \in Jobs : BoardRow(j)
  <2>1. PICK j \in Jobs : BoardRow(j)
    BY <1>8
  <2>2. PICK e \in EndsOf[j[1]] : rows' = rows \cup {Generated(j, 0, e)}
    BY <2>1 DEF BoardRow
  <2>3. QED
    BY <2>1, <2>2, RowAdded DEF BoardRow
<1>9. CASE \E j \in Jobs : RungRow(j)
  <2>1. PICK j \in Jobs : RungRow(j)
    BY <1>9
  <2>2. PICK e \in EndsOf[j[1]] : rows' = rows \cup {Generated(j, FirstRung, e)}
    BY <2>1 DEF RungRow
  <2>3. QED
    BY <2>1, <2>2, RowAdded, RungsAre DEF RungRow
<1>10. CASE \E r \in rows : Verdict(r)
  BY <1>10, RetryVerdict
<1>11. CASE PhaseCut
  BY <1>0, <1>11 DEF PhaseCut
<1>12. CASE Sigterm
  BY <1>0, <1>12 DEF Sigterm
<1>13. CASE Crash
  BY <1>0, <1>13 DEF Crash
<1>14. CASE \E c \in Cases : Edit(c)
  BY <1>14, RetryEdit
<1>15. CASE UNCHANGED vars
  <2>1. FreshJobs' /\ DueJobs'
    BY <1>15, SameRows DEF vars, FreshJobs, DueJobs, RetryInv
  <2>2. QED
    BY <1>15, <2>1, SameRows DEF vars, RetryInv, TypeOK
<1>16. QED
  BY <1>1, <1>2, <1>3, <1>4, <1>5, <1>6, <1>7, <1>8, <1>9, <1>10, <1>11, <1>12,
     <1>13, <1>14, <1>15 DEF Next, Night

-----------------------------------------------------------------------------
(* Attempts.                                                               *)

LEMMA ErrorRunsFinite ==
  ASSUME TypeOK, NEW c \in Cases
  PROVE  /\ IsFiniteSet(ErrorRuns(c))
         /\ Cardinality(ErrorRuns(c)) <= ErrorAttempts(c)
         /\ Cardinality(ErrorRuns(c)) \in Nat /\ ErrorAttempts(c) \in Nat
<1> DEFINE S == {e \in rows : /\ e.job[1] = c /\ RowCurrent(e)
                              /\ e.rung = 0 /\ e.ended = "error"}
           A == {r \in rows : /\ RowCurrent(r) /\ r.job[1] = c
                              /\ r.ended \in {"error", "permanent"}}
           f == [r \in S |-> r.run]
<1>1. IsFiniteSet(A) /\ IsFiniteSet(S) /\ Cardinality(S) <= Cardinality(A)
  <2>1. IsFiniteSet(A)
    BY FS_Subset DEF TypeOK
  <2>2. S \in SUBSET A
    OBVIOUS
  <2>3. QED
    BY <2>1, <2>2, FS_Subset
<1>2. f \in Surjection(S, ErrorRuns(c))
  BY DEF Surjection, ErrorRuns
<1>3. IsFiniteSet(ErrorRuns(c)) /\ Cardinality(ErrorRuns(c)) <= Cardinality(S)
  BY <1>1, <1>2, FS_Surjection
<1>4. /\ Cardinality(S) \in Nat /\ Cardinality(A) \in Nat
      /\ Cardinality(ErrorRuns(c)) \in Nat
  BY <1>1, <1>3, FS_CardinalityType
<1>5. QED
  BY <1>1, <1>3, <1>4 DEF ErrorAttempts

(* What is left of a case's errored runs is within its budget.             *)
LEMMA FewerRuns ==
  ASSUME NEW S, IsFiniteSet(S), NEW T \in SUBSET S, NEW n \in Nat,
         Cardinality(S) <= n
  PROVE  Cardinality(T) <= n
BY FS_Subset, FS_CardinalityType

LEMMA SameErrors ==
  ASSUME IInv, UNCHANGED <<rows, revision>>
  PROVE  (\A c \in Cases : ErrorRuns(c)' = ErrorRuns(c)) /\ AttemptsBounded'
<1>1. \A c \in Cases : ErrorRuns(c)' = ErrorRuns(c)
  BY DEF ErrorRuns, RowCurrent
<1>2. QED
  BY <1>1 DEF IInv, AttemptsBounded

LEMMA BoardErrors ==
  ASSUME IInv, NEW j \in todo, BoardRow(j)
  PROVE  JobsLeft' /\ AttemptsBounded'
<1>0. PICK e \in EndsOf[j[1]] : rows' = rows \cup {Generated(j, 0, e)}
  BY DEF BoardRow
<1> DEFINE new == Generated(j, 0, e)
<1>1. /\ UNCHANGED <<revision, pc, run>> /\ pc = "board" /\ todo' \subseteq todo
      /\ j[1] \in Cases /\ TypeOK /\ new.run = run /\ new.job = j
  BY JobIs DEF BoardRow, IInv, RetryInv, TypeOK, Generated
<1>2. ASSUME NEW c \in Cases
      PROVE  /\ ErrorRuns(c)' \subseteq ErrorRuns(c) \cup {run}
             /\ c # j[1] => ErrorRuns(c)' = ErrorRuns(c)
  BY <1>0, <1>1 DEF ErrorRuns, RowCurrent
<1>3. JobsLeft'
  <2> SUFFICES ASSUME NEW i \in todo
               PROVE  Cardinality(ErrorRuns(i[1])' \ {run}) < MaxCaseAttempts
    BY <1>1 DEF JobsLeft
  <2>1. i[1] \in Cases
    BY <1>1, JobIs DEF TypeOK
  <2>2. ErrorRuns(i[1])' \ {run} \in SUBSET (ErrorRuns(i[1]) \ {run})
    BY <1>2, <2>1
  <2>3. IsFiniteSet(ErrorRuns(i[1]) \ {run})
    BY <1>1, <2>1, ErrorRunsFinite, FS_RemoveElement
  <2>4. Cardinality(ErrorRuns(i[1]) \ {run}) < MaxCaseAttempts
    BY <1>1 DEF IInv, JobsLeft
  <2>5. QED
    BY <2>2, <2>3, <2>4, FS_Subset, FS_CardinalityType, NightlyAssumption
    DEF NightlyAssumption
<1>4. AttemptsBounded'
  <2> SUFFICES ASSUME NEW c \in Cases
               PROVE  Cardinality(ErrorRuns(c)') <= MaxCaseAttempts
    BY DEF AttemptsBounded
  <2>1. CASE c # j[1]
    BY <1>2, <2>1 DEF IInv, AttemptsBounded
  <2>2. CASE c = j[1]
    <3> DEFINE S == ErrorRuns(c) \ {run}
    <3>1. IsFiniteSet(S) /\ Cardinality(S) < MaxCaseAttempts
      BY <1>1, <2>2, ErrorRunsFinite, FS_RemoveElement DEF IInv, JobsLeft
    <3> HIDE DEF S
    <3>2. IsFiniteSet(S \cup {run}) /\ Cardinality(S \cup {run}) <= MaxCaseAttempts
      <4>1. Cardinality(S) \in Nat
        BY <3>1, FS_CardinalityType
      <4>2. /\ IsFiniteSet(S \cup {run})
            /\ Cardinality(S \cup {run}) = IF run \in S THEN Cardinality(S)
                                           ELSE Cardinality(S) + 1
        BY <3>1, FS_AddElement
      <4>3. QED
        BY <3>1, <4>1, <4>2, NightlyAssumption DEF NightlyAssumption
    <3>3. ErrorRuns(c)' \in SUBSET (S \cup {run})
      BY <1>2 DEF S
    <3>4. QED
      BY <3>2, <3>3, FewerRuns, NightlyAssumption DEF NightlyAssumption
  <2>3. QED
    BY <2>1, <2>2
<1>5. QED
  BY <1>3, <1>4

LEMMA AttemptStep == ASSUME IInv, [Next]_vars PROVE JobsLeft' /\ AttemptsBounded'
<1>0. ASSUME UNCHANGED <<rows, revision>>, pc' \notin {"load", "board"}
      PROVE  JobsLeft' /\ AttemptsBounded'
  BY <1>0, SameErrors DEF JobsLeft
<1>1. CASE Plan
  <2>1. UNCHANGED <<rows, revision, run>> /\ pc' # "board"
        /\ \A j \in todo' : j \in Jobs /\ j[1] \in MissingCases
    BY <1>1 DEF Plan
  <2>2. \A j \in todo' : Cardinality(ErrorRuns(j[1])') < MaxCaseAttempts
    <3> TAKE j \in todo'
    <3>1. j[1] \in Cases /\ ErrorAttempts(j[1]) < MaxCaseAttempts
      BY <2>1 DEF MissingCases
    <3>2. QED
      BY <3>1, <2>1, SameErrors, ErrorRunsFinite, NightlyAssumption
      DEF IInv, RetryInv, NightlyAssumption
  <2>3. QED
    BY <2>1, <2>2, SameErrors DEF JobsLeft
<1>2. CASE Load
  <2>1. /\ run' = NewRun /\ UNCHANGED <<rows, revision, todo>> /\ pc' = "board"
        /\ pc = "load" /\ TypeOK /\ \A r \in rows : r.run < run'
    BY <1>2, NewRunIsNew DEF Load, IInv, RetryInv
  <2>2. ASSUME NEW j \in todo
        PROVE  Cardinality(ErrorRuns(j[1])' \ {run'}) < MaxCaseAttempts
    <3>1. j[1] \in Cases
      BY <2>1, JobIs DEF TypeOK
    <3>2. run' \notin ErrorRuns(j[1])
      BY <2>1 DEF ErrorRuns, TypeOK, Row
    <3>3. ErrorRuns(j[1])' \ {run'} = ErrorRuns(j[1])
      BY <2>1, <3>1, <3>2, SameErrors
    <3>4. QED
      BY <2>1, <3>3 DEF IInv, JobsLeft
  <2>3. QED
    BY <2>1, <2>2, SameErrors DEF JobsLeft
<1>3. CASE BoardDone
  BY <1>0, <1>3 DEF BoardDone
<1>4. CASE Escalate
  BY <1>0, <1>4 DEF Escalate
<1>5. CASE NothingToEscalate
  BY <1>0, <1>5 DEF NothingToEscalate
<1>6. CASE RungEnds
  BY <1>0, <1>6 DEF RungEnds
<1>7. CASE NightEnds
  BY <1>0, <1>7 DEF NightEnds
<1>8. CASE \E j \in Jobs : BoardRow(j)
  BY <1>8, BoardErrors DEF BoardRow
<1>9. CASE \E j \in Jobs : RungRow(j)
  <2>1. PICK j \in Jobs : RungRow(j)
    BY <1>9
  <2>2. PICK e \in EndsOf[j[1]] : rows' = rows \cup {Generated(j, FirstRung, e)}
    BY <2>1 DEF RungRow
  <2>3. pc' = "rung" /\ UNCHANGED revision /\ Generated(j, FirstRung, e).rung # 0
    BY <2>1, RungsAre DEF RungRow, Generated
  <2>4. \A c \in Cases : ErrorRuns(c)' = ErrorRuns(c)
    BY <2>2, <2>3 DEF ErrorRuns, RowCurrent
  <2>5. QED
    BY <2>3, <2>4 DEF JobsLeft, IInv, AttemptsBounded
<1>10. CASE \E r \in rows : Verdict(r)
  <2>1. PICK r \in rows : Verdict(r)
    BY <1>10
  <2>2. /\ \A x \in rows' : \E y \in rows : SameRow(x, y)
        /\ \A y \in rows : \E x \in rows' : SameRow(x, y)
    BY <2>1, VerdictKeeps DEF IInv, RetryInv
  <2>3. UNCHANGED revision /\ pc' = "judge"
    BY <2>1 DEF Verdict
  <2>4. \A c \in Cases : ErrorRuns(c)' = ErrorRuns(c)
    BY <2>2, <2>3 DEF ErrorRuns, RowCurrent, SameRow
  <2>5. QED
    BY <2>3, <2>4 DEF JobsLeft, IInv, AttemptsBounded
<1>11. CASE PhaseCut
  BY <1>0, <1>11 DEF PhaseCut
<1>12. CASE Sigterm
  BY <1>0, <1>12 DEF Sigterm
<1>13. CASE Crash
  BY <1>0, <1>13 DEF Crash
<1>14. CASE \E c \in Cases : Edit(c)
  <2>1. PICK c \in Cases : Edit(c)
    BY <1>14
  <2>2. UNCHANGED rows /\ pc' = "idle"
        /\ \A r \in rows : RowCurrent(r)' => RowCurrent(r)
    <3>1. /\ revision' = [revision EXCEPT ![c] = @ + 1] /\ pc' = "idle"
          /\ UNCHANGED rows /\ revision \in [Cases -> Nat]
      BY <2>1 DEF Edit, IInv, RetryInv, TypeOK
    <3>2. \A r \in rows : /\ r.job[1] \in Cases /\ r.rev \in Nat
                          /\ r.rev <= revision[r.job[1]]
      BY JobIs DEF IInv, RetryInv, TypeOK, Row, NumbersRise
    <3>3. QED
      BY <3>1, <3>2 DEF RowCurrent
  <2>3. ASSUME NEW d \in Cases PROVE Cardinality(ErrorRuns(d)') <= MaxCaseAttempts
    <3>1. ErrorRuns(d)' \in SUBSET ErrorRuns(d)
      BY <2>2 DEF ErrorRuns
    <3>2. QED
      BY <3>1, ErrorRunsFinite, FewerRuns, NightlyAssumption
      DEF IInv, RetryInv, AttemptsBounded, NightlyAssumption
  <2>4. QED
    BY <2>2, <2>3 DEF JobsLeft, AttemptsBounded
<1>15. CASE UNCHANGED vars
  <2>1. /\ UNCHANGED <<rows, revision, pc, todo, run>>
        /\ \A j \in todo : j[1] \in Cases
    BY <1>15, JobIs DEF vars, IInv, RetryInv, TypeOK
  <2>2. \A j \in todo : ErrorRuns(j[1])' = ErrorRuns(j[1])
    BY <2>1, SameErrors
  <2>3. JobsLeft'
    BY <2>1, <2>2 DEF JobsLeft, IInv
  <2>4. QED
    BY <2>1, <2>3, SameErrors
<1>16. QED
  BY <1>1, <1>2, <1>3, <1>4, <1>5, <1>6, <1>7, <1>8, <1>9, <1>10, <1>11, <1>12,
     <1>13, <1>14, <1>15 DEF Next, Night

-----------------------------------------------------------------------------
LEMMA InvInit == Init => IInv
<1> SUFFICES ASSUME Init PROVE IInv
  OBVIOUS
<1>1. TypeOK
  BY FS_EmptySet, NightlyAssumption DEF Init, TypeOK, NightlyAssumption
<1>2. RetryInv
  BY <1>1 DEF Init, RetryInv, NumbersRise, FreshJobs, DueJobs, RetriedOnce
<1>3. \A c \in Cases : ErrorRuns(c) = {}
  BY DEF Init, ErrorRuns
<1>4. AttemptsBounded
  <2>1. Cardinality({}) = 0
    BY FS_EmptySet
  <2>2. \A c \in Cases : Cardinality(ErrorRuns(c)) = 0
    BY <1>3, <2>1
  <2>3. QED
    BY <2>2, NightlyAssumption DEF AttemptsBounded, NightlyAssumption
<1>5. JobsLeft
  BY DEF Init, JobsLeft
<1>6. QED
  BY <1>2, <1>4, <1>5 DEF IInv

LEMMA Invariant == Spec => []IInv
<1>1. IInv /\ [Next]_vars => IInv'
  BY RetryStep, AttemptStep DEF IInv
<1>2. QED
  BY InvInit, <1>1, PTL DEF Spec

(* Every reachable state of the nights is well typed.                      *)
THEOREM TypeCorrect == Spec => []TypeOK
<1>1. IInv => TypeOK
  BY DEF IInv, RetryInv
<1>2. QED
  BY Invariant, <1>1, PTL

(* MAX_CASE_ATTEMPTS bounds the board runs a case errors in, whatever      *)
(* cuts the nights short in between.                                       *)
THEOREM AttemptsBoundedHolds == Spec => []AttemptsBounded
<1>1. IInv => AttemptsBounded
  BY DEF IInv
<1>2. QED
  BY Invariant, <1>1, PTL

(* No row is retried twice on a rung without a new board row in between.   *)
THEOREM RetriedOnceHolds == Spec => []RetriedOnce
<1>1. IInv => RetriedOnce
  BY DEF IInv, RetryInv
<1>2. QED
  BY Invariant, <1>1, PTL
=============================================================================

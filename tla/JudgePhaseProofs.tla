-------------------------- MODULE JudgePhaseProofs --------------------------
(* Theorems about JudgePhase, for any rows, workers and number of phases:  *)
(* what a stop cuts short stays pending, failed verdicts stay within their *)
(* budget, judge loads do not stack up, and under the rig lock a verdict   *)
(* is written onto the answer it judged.                                   *)
EXTENDS JudgePhase, TLAPS

(* No row has a worker outside a phase.                                    *)
Idle == pc = "off" => \A k \in Keys : job[k] = "off"

(* The reload lock and the worker that loads the judge go together; what   *)
(* NoStackedReload says of the judge is inductive with that.               *)
Locked == /\ \A k \in Keys : job[k] = "load" => reload_lock = k
          /\ reload_lock # Nobody => job[reload_lock] = "load"
          /\ NoStackedReload

(* A row that was cut short has its failed verdict at most up to Decide.   *)
Cut == \A k \in cut :
         /\ halted /\ job[k] \in {"decide", "left", "off"}
         /\ job[k] = "decide" => verdict[k] = "failed"

(* The attempts on a row count its failures since the last other verdict:  *)
(* on the stored row, and on the copy a worker holds, which has one left.  *)
Counted(k, r) == /\ r.verdict = "failed" => failures[k] <= r.attempts
                 /\ r.verdict # "failed" => failures[k] = 0
Budget == \A k \in Keys :
            /\ Counted(k, store[k])
            /\ job[k] \in Busy \cup {"queued"} =>
                 failures[k] < MaxAttempts /\ Counted(k, row[k])

(* With one writer the copies are of the answers in the transcript.        *)
Fresh == Exclusive /\ pc # "off" => \A k \in Keys : row[k].gen = store[k].gen

IInv == TypeOK /\ Idle /\ Locked /\ Cut /\ Budget /\ FailureBudget /\ Fresh

LEMMA JudgedType ==
  ASSUME TypeOK, NEW k \in Keys
  PROVE  /\ Judged(k) \in Rows /\ Judged(k).gen = row[k].gen
         /\ Judged(k).verdict = "failed" =>
               /\ row[k].verdict = "failed" =>
                    Judged(k).attempts = row[k].attempts + 1
               /\ Judged(k).attempts >= 1
<1>1. /\ row[k] \in Rows /\ verdict[k] \in Verdicts
      /\ row[k].attempts \in Nat /\ row[k].gen \in 0..MaxGen
      /\ grading \in Gradings /\ 0 \in Gradings
  BY JudgePhaseAssumption
  DEF JudgePhaseAssumption, TypeOK, Rows, Verdicts, Gradings
<1>2. /\ Attempts(k) \in Nat /\ Attempts(k) >= 1
      /\ row[k].verdict = "failed" => Attempts(k) = row[k].attempts + 1
  BY <1>1 DEF Attempts
<1> USE DEF Generated
<1>3. CASE verdict[k] = "good"
  BY <1>1, <1>3 DEF Judged, Rows, Verdicts
<1>4. CASE verdict[k] = "failed" /\ k \in Reference
  BY <1>1, <1>4 DEF Judged, Rows, Verdicts
<1>5. CASE verdict[k] # "good" /\ ~(verdict[k] = "failed" /\ k \in Reference)
  BY <1>1, <1>2, <1>5 DEF Judged, Rows, Verdicts
<1>6. QED
  BY <1>3, <1>4, <1>5

LEMMA GeneratedType ==
  ASSUME NEW g \in 0..MaxGen
  PROVE  Generated(g) \in Rows /\ Generated(g).gen = g
         /\ Generated(g).verdict = "none" /\ Generated(g).attempts = 0
BY JudgePhaseAssumption
DEF JudgePhaseAssumption, Generated, Rows, Verdicts, Gradings

LEMMA TypeStep == ASSUME IInv, [Next]_vars PROVE TypeOK'
<1> USE DEF IInv, TypeOK, Asking, Busy, Settled,
       phase, lock, cases, hist, Become
<1>1. CASE Begin
  <2>1. job' \in [Keys -> {"queued", "off"}] \/ job' = job
    BY <1>1 DEF Begin
  <2>2. phases' \in 0..MaxPhases /\ row' \in [Keys -> Rows]
    BY <1>1, JudgePhaseAssumption DEF Begin, ReadNow, JudgePhaseAssumption
  <2>3. /\ failures' \in [Keys -> Nat] /\ cut' \subseteq Keys
        /\ verdict' \in [Keys -> Verdicts]
        /\ pc' \in {"off", "rows"} /\ judge' \in {"ready", "gone"}
        /\ halted' = FALSE /\ elements' \in Gradings \cup {Unread}
        /\ UNCHANGED <<store, lock, grading, against>>
    BY <1>1 DEF Begin, Verdicts
  <2>4. QED
    BY <2>1, <2>2, <2>3
<1>2. CASE Cancel
  BY <1>2 DEF Cancel
<1>3. CASE Return
  BY <1>3 DEF Return
<1>4. CASE \E k \in Keys : Start(k)
  BY <1>4 DEF Start
<1>5. CASE \E k \in Keys : Answer(k)
  BY <1>5 DEF Answer, Verdicts
<1>6. CASE \E k \in Keys : Lose(k)
  BY <1>6 DEF Lose
<1>7. CASE \E k \in Keys : Check(k)
  BY <1>7 DEF Check
<1>8. CASE \E k \in Keys : Load(k)
  BY <1>8 DEF Load, Unlocked
<1>9. CASE \E k \in Keys : Decide(k)
  BY <1>9 DEF Decide
<1>10. CASE \E k \in Keys : Append(k)
  BY <1>10, JudgedType DEF Append
<1>11. CASE Halt
  BY <1>11 DEF Halt
<1>12. CASE Evict
  BY <1>12 DEF Evict
<1>13. CASE Crash
  BY <1>13 DEF Crash
<1>14. CASE \E k \in Keys : Generate(k)
  <2>1. PICK k \in Keys : Generate(k)
    BY <1>14
  <2>2. Generated(store[k].gen + 1) \in Rows
    BY <2>1, GeneratedType, JudgePhaseAssumption
    DEF Generate, Rows, JudgePhaseAssumption
  <2>3. QED
    BY <2>1, <2>2 DEF Generate
<1>15. CASE Edit
  <2>1. grading' \in Gradings
    BY <1>15, JudgePhaseAssumption DEF Edit, Gradings, JudgePhaseAssumption
  <2>2. QED
    BY <1>15, <2>1 DEF Edit
<1>16. CASE Exit
  BY <1>16 DEF Exit
<1>17. CASE UNCHANGED vars
  BY <1>17 DEF vars
<1>18. QED
  BY <1>1, <1>2, <1>3, <1>4, <1>5, <1>6, <1>7, <1>8, <1>9, <1>10, <1>11,
     <1>12, <1>13, <1>14, <1>15, <1>16, <1>17 DEF Next, One, Environment

LEMMA IdleStep == ASSUME IInv, [Next]_vars PROVE Idle'
<1> USE DEF IInv, Idle, TypeOK, Asking, Busy, phase, lock,
       cases, hist, Become
<1>1. CASE Begin
  BY <1>1 DEF Begin
<1>2. CASE Cancel
  BY <1>2 DEF Cancel
<1>3. CASE Return
  BY <1>3 DEF Return
<1>4. CASE \E k \in Keys : Start(k)
  BY <1>4 DEF Start
<1>5. CASE \E k \in Keys : Answer(k)
  BY <1>5 DEF Answer
<1>6. CASE \E k \in Keys : Lose(k)
  BY <1>6 DEF Lose
<1>7. CASE \E k \in Keys : Check(k)
  BY <1>7 DEF Check
<1>8. CASE \E k \in Keys : Load(k)
  BY <1>8 DEF Load
<1>9. CASE \E k \in Keys : Decide(k)
  BY <1>9 DEF Decide
<1>10. CASE \E k \in Keys : Append(k)
  BY <1>10 DEF Append
<1>11. CASE Halt
  BY <1>11 DEF Halt
<1>12. CASE Evict
  BY <1>12 DEF Evict
<1>13. CASE Crash
  BY <1>13 DEF Crash
<1>14. CASE \E k \in Keys : Generate(k)
  BY <1>14 DEF Generate
<1>15. CASE Edit
  BY <1>15 DEF Edit
<1>16. CASE Exit
  BY <1>16 DEF Exit
<1>17. CASE UNCHANGED vars
  BY <1>17 DEF vars
<1>18. QED
  BY <1>1, <1>2, <1>3, <1>4, <1>5, <1>6, <1>7, <1>8, <1>9, <1>10, <1>11,
     <1>12, <1>13, <1>14, <1>15, <1>16, <1>17 DEF Next, One, Environment

LEMMA LockedStep == ASSUME IInv, [Next]_vars PROVE Locked'
<1> USE DEF IInv, Idle, Locked, NoStackedReload, TypeOK, Asking, Busy, Settled,
       phase, lock, cases, hist, Become
<1>1. CASE Begin
  BY <1>1 DEF Begin
<1>2. CASE Cancel
  BY <1>2 DEF Cancel
<1>3. CASE Return
  BY <1>3 DEF Return
<1>4. CASE \E k \in Keys : Start(k)
  BY <1>4 DEF Start
<1>5. CASE \E k \in Keys : Answer(k)
  BY <1>5 DEF Answer
<1>6. CASE \E k \in Keys : Lose(k)
  BY <1>6 DEF Lose
<1>7. CASE \E k \in Keys : Check(k)
  BY <1>7, JudgePhaseAssumption DEF Check, LockFree, JudgePhaseAssumption
<1>8. CASE \E k \in Keys : Load(k)
  BY <1>8 DEF Load, Unlocked
<1>9. CASE \E k \in Keys : Decide(k)
  BY <1>9 DEF Decide
<1>10. CASE \E k \in Keys : Append(k)
  BY <1>10 DEF Append
<1>11. CASE Halt
  BY <1>11 DEF Halt
<1>12. CASE Evict
  BY <1>12 DEF Evict
<1>13. CASE Crash
  BY <1>13 DEF Crash
<1>14. CASE \E k \in Keys : Generate(k)
  BY <1>14 DEF Generate
<1>15. CASE Edit
  BY <1>15 DEF Edit
<1>16. CASE Exit
  BY <1>16 DEF Exit
<1>17. CASE UNCHANGED vars
  BY <1>17 DEF vars
<1>18. QED
  BY <1>1, <1>2, <1>3, <1>4, <1>5, <1>6, <1>7, <1>8, <1>9, <1>10, <1>11,
     <1>12, <1>13, <1>14, <1>15, <1>16, <1>17 DEF Next, One, Environment

LEMMA CutStep == ASSUME IInv, [Next]_vars PROVE Cut'
<1> USE DEF IInv, Idle, Cut, TypeOK, Asking, Busy, Settled,
       phase, lock, cases, hist, Become
<1>1. CASE Begin
  BY <1>1 DEF Begin
<1>2. CASE Cancel
  BY <1>2 DEF Cancel
<1>3. CASE Return
  BY <1>3 DEF Return
<1>4. CASE \E k \in Keys : Start(k)
  BY <1>4 DEF Start
<1>5. CASE \E k \in Keys : Answer(k)
  BY <1>5 DEF Answer
<1>6. CASE \E k \in Keys : Lose(k)
  BY <1>6 DEF Lose
<1>7. CASE \E k \in Keys : Check(k)
  BY <1>7 DEF Check
<1>8. CASE \E k \in Keys : Load(k)
  BY <1>8 DEF Load
<1>9. CASE \E k \in Keys : Decide(k)
  BY <1>9 DEF Decide, Writes
<1>10. CASE \E k \in Keys : Append(k)
  BY <1>10 DEF Append
<1>11. CASE Halt
  BY <1>11 DEF Halt
<1>12. CASE Evict
  BY <1>12 DEF Evict
<1>13. CASE Crash
  BY <1>13 DEF Crash
<1>14. CASE \E k \in Keys : Generate(k)
  BY <1>14 DEF Generate
<1>15. CASE Edit
  BY <1>15 DEF Edit
<1>16. CASE Exit
  BY <1>16 DEF Exit
<1>17. CASE UNCHANGED vars
  BY <1>17 DEF vars
<1>18. QED
  BY <1>1, <1>2, <1>3, <1>4, <1>5, <1>6, <1>7, <1>8, <1>9, <1>10, <1>11,
     <1>12, <1>13, <1>14, <1>15, <1>16, <1>17 DEF Next, One, Environment

LEMMA BudgetStep == ASSUME IInv, [Next]_vars PROVE Budget'
<1> USE DEF IInv, Idle, Budget, Counted, TypeOK, Asking, Busy, Settled,
       phase, lock, cases, hist, Become
<1>1. CASE Begin
  <2> SUFFICES ASSUME NEW k \in Keys
               PROVE  /\ Counted(k, store[k])'
                      /\ job'[k] \in Busy \cup {"queued"} =>
                           failures'[k] < MaxAttempts /\ Counted(k, row[k])'
    OBVIOUS
  <2>1. PICK force, retry_failed \in BOOLEAN :
          /\ failures' = IF force THEN [i \in Keys |-> 0] ELSE failures
          /\ job'[k] = "queued" => NeedsVerdict(store[k], force, retry_failed)
          /\ job'[k] \in {"queued", "off"}
    BY <1>1 DEF Begin
  <2>2. /\ store[k].attempts \in Nat /\ failures[k] \in Nat
        /\ row'[k] = store[k] /\ store' = store
        /\ MaxAttempts \in Nat \ {0}
    BY <1>1, JudgePhaseAssumption DEF Begin, ReadNow, Rows, JudgePhaseAssumption
  <2>3. Counted(k, store[k])' /\ Counted(k, row[k])'
    BY <2>1, <2>2
  <2>4. ASSUME job'[k] = "queued" PROVE failures'[k] < MaxAttempts
    BY <2>1, <2>2, <2>4 DEF NeedsVerdict
  <2>5. QED
    BY <2>1, <2>3, <2>4
<1>2. CASE Cancel
  BY <1>2 DEF Cancel
<1>3. CASE Return
  BY <1>3 DEF Return
<1>4. CASE \E k \in Keys : Start(k)
  BY <1>4 DEF Start
<1>5. CASE \E k \in Keys : Answer(k)
  BY <1>5 DEF Answer
<1>6. CASE \E k \in Keys : Lose(k)
  BY <1>6 DEF Lose
<1>7. CASE \E k \in Keys : Check(k)
  BY <1>7 DEF Check
<1>8. CASE \E k \in Keys : Load(k)
  BY <1>8 DEF Load
<1>9. CASE \E k \in Keys : Decide(k)
  BY <1>9 DEF Decide
<1>10. CASE \E k \in Keys : Append(k)
  BY <1>10, JudgedType DEF Append, Rows
<1>11. CASE Halt
  BY <1>11 DEF Halt
<1>12. CASE Evict
  BY <1>12 DEF Evict
<1>13. CASE Crash
  BY <1>13 DEF Crash
<1>14. CASE \E k \in Keys : Generate(k)
  <2>1. PICK k \in Keys : Generate(k)
    BY <1>14
  <2>2. Counted(k, store[k])'
    BY <2>1 DEF Generate, Generated
  <2>3. row[k].attempts \in Nat /\ 0 < MaxAttempts
    BY JudgePhaseAssumption DEF Rows, JudgePhaseAssumption
  <2>4. failures'[k] < MaxAttempts /\ Counted(k, row[k])'
    BY <2>1, <2>3 DEF Generate
  <2>5. QED
    BY <2>1, <2>2, <2>4 DEF Generate
<1>15. CASE Edit
  BY <1>15 DEF Edit
<1>16. CASE Exit
  BY <1>16 DEF Exit
<1>17. CASE UNCHANGED vars
  BY <1>17 DEF vars
<1>18. QED
  BY <1>1, <1>2, <1>3, <1>4, <1>5, <1>6, <1>7, <1>8, <1>9, <1>10, <1>11,
     <1>12, <1>13, <1>14, <1>15, <1>16, <1>17 DEF Next, One, Environment

LEMMA FailureStep == ASSUME IInv, [Next]_vars PROVE FailureBudget'
<1> USE DEF IInv, Idle, Budget, FailureBudget, TypeOK, Asking, Busy, Settled,
       phase, lock, cases, hist, Become
<1>1. CASE Begin
  BY <1>1, JudgePhaseAssumption DEF Begin, JudgePhaseAssumption
<1>2. CASE Cancel
  BY <1>2 DEF Cancel
<1>3. CASE Return
  BY <1>3 DEF Return
<1>4. CASE \E k \in Keys : Start(k)
  BY <1>4 DEF Start
<1>5. CASE \E k \in Keys : Answer(k)
  BY <1>5 DEF Answer
<1>6. CASE \E k \in Keys : Lose(k)
  BY <1>6 DEF Lose
<1>7. CASE \E k \in Keys : Check(k)
  BY <1>7 DEF Check
<1>8. CASE \E k \in Keys : Load(k)
  BY <1>8 DEF Load
<1>9. CASE \E k \in Keys : Decide(k)
  BY <1>9 DEF Decide
<1>10. CASE \E k \in Keys : Append(k)
  <2>1. PICK k \in Keys : Append(k)
    BY <1>10
  <2>2. failures[k] < MaxAttempts
    BY <2>1 DEF Append
  <2>3. failures'[k] <= MaxAttempts
    BY <2>1, <2>2, JudgePhaseAssumption DEF Append, JudgePhaseAssumption
  <2>4. QED
    BY <2>1, <2>3 DEF Append
<1>11. CASE Halt
  BY <1>11 DEF Halt
<1>12. CASE Evict
  BY <1>12 DEF Evict
<1>13. CASE Crash
  BY <1>13 DEF Crash
<1>14. CASE \E k \in Keys : Generate(k)
  BY <1>14, JudgePhaseAssumption DEF Generate, JudgePhaseAssumption
<1>15. CASE Edit
  BY <1>15 DEF Edit
<1>16. CASE Exit
  BY <1>16 DEF Exit
<1>17. CASE UNCHANGED vars
  BY <1>17 DEF vars
<1>18. QED
  BY <1>1, <1>2, <1>3, <1>4, <1>5, <1>6, <1>7, <1>8, <1>9, <1>10, <1>11,
     <1>12, <1>13, <1>14, <1>15, <1>16, <1>17 DEF Next, One, Environment

LEMMA FreshStep == ASSUME IInv, [Next]_vars PROVE Fresh'
<1> USE DEF IInv, Idle, Fresh, TypeOK, phase, lock, cases, hist, Become
<1>1. CASE Begin
  BY <1>1 DEF Begin, ReadNow
<1>2. CASE Cancel
  BY <1>2 DEF Cancel
<1>3. CASE Return
  BY <1>3 DEF Return
<1>4. CASE \E k \in Keys : Start(k)
  BY <1>4 DEF Start
<1>5. CASE \E k \in Keys : Answer(k)
  BY <1>5 DEF Answer
<1>6. CASE \E k \in Keys : Lose(k)
  BY <1>6 DEF Lose
<1>7. CASE \E k \in Keys : Check(k)
  BY <1>7 DEF Check
<1>8. CASE \E k \in Keys : Load(k)
  BY <1>8 DEF Load
<1>9. CASE \E k \in Keys : Decide(k)
  BY <1>9 DEF Decide
<1>10. CASE \E k \in Keys : Append(k)
  BY <1>10, JudgedType DEF Append
<1>11. CASE Halt
  BY <1>11 DEF Halt
<1>12. CASE Evict
  BY <1>12 DEF Evict
<1>13. CASE Crash
  BY <1>13 DEF Crash
<1>14. CASE \E k \in Keys : Generate(k)
  BY <1>14 DEF Generate
<1>15. CASE Edit
  BY <1>15 DEF Edit
<1>16. CASE Exit
  BY <1>16 DEF Exit
<1>17. CASE UNCHANGED vars
  BY <1>17 DEF vars
<1>18. QED
  BY <1>1, <1>2, <1>3, <1>4, <1>5, <1>6, <1>7, <1>8, <1>9, <1>10, <1>11,
     <1>12, <1>13, <1>14, <1>15, <1>16, <1>17 DEF Next, One, Environment

LEMMA Inductive == Spec => []IInv
<1>1. Init => IInv
  <2> SUFFICES ASSUME Init PROVE IInv
    OBVIOUS
  <2>1. store \in [Keys -> Rows] /\ row = store
    <3>1. 0 \in 0..MaxGen
      BY JudgePhaseAssumption DEF JudgePhaseAssumption
    <3>2. QED
      BY <3>1, GeneratedType DEF Init
  <2>2. TypeOK
    <3>1. phases \in 0..MaxPhases
      BY JudgePhaseAssumption DEF JudgePhaseAssumption, Init
    <3>2. /\ job \in [Keys -> Busy \cup Settled \cup {"queued"}]
          /\ verdict \in [Keys -> Verdicts]
      BY DEF Init, Settled, Verdicts
    <3>3. failures \in [Keys -> Nat] /\ cut \subseteq Keys
      BY DEF Init
    <3>4. /\ pc = "off" /\ halted = FALSE /\ judge = "gone"
          /\ reload_lock = Nobody /\ blind = FALSE
      BY DEF Init
    <3>5. /\ grading \in Gradings /\ elements = Unread
          /\ against \in [Keys -> Gradings \cup {Unread}]
      BY JudgePhaseAssumption DEF JudgePhaseAssumption, Init, Gradings
    <3>6. QED
      BY <2>1, <3>1, <3>2, <3>3, <3>4, <3>5 DEF TypeOK
  <2>3. Idle /\ Locked /\ Cut
    BY DEF Init, Idle, Locked, NoStackedReload, Cut
  <2>4. Budget /\ FailureBudget /\ Fresh
    BY JudgePhaseAssumption DEF JudgePhaseAssumption, Init, Generated, Budget,
       Counted, FailureBudget, Fresh, Busy, Asking
  <2>5. QED
    BY <2>2, <2>3, <2>4 DEF IInv
<1>2. IInv /\ [Next]_vars => IInv'
  BY TypeStep, IdleStep, LockedStep, CutStep, BudgetStep, FailureStep, FreshStep
  DEF IInv
<1>3. QED
  BY <1>1, <1>2, PTL DEF Spec

(* Every reachable state is well typed (all of run_judge and _one).        *)
THEOREM TypeCorrect == Spec => []TypeOK
BY Inductive, PTL DEF IInv

(* A failed verdict that came after the stop is not written, whichever of  *)
(* the two the worker sees first (judge.py, _one and _halted).             *)
THEOREM CutStaysPendingHolds == Spec => []CutStaysPending
<1>1. IInv => CutStaysPending
  BY DEF IInv, Cut, CutStaysPending
<1>2. QED
  BY <1>1, Inductive, PTL

(* Workers that lost the judge together do not load it one after another   *)
(* once the first has brought it back (reload_lock, _judge_still_ready).   *)
THEOREM NoStackedReloadHolds == Spec => []NoStackedReload
<1>1. IInv => NoStackedReload
  BY DEF IInv, Locked
<1>2. QED
  BY <1>1, Inductive, PTL

(* needs_verdict stops at MAX_VERDICT_ATTEMPTS whatever was stopped, lost  *)
(* or killed in between, and also with a second writer of the transcript.  *)
THEOREM FailureBudgetHolds == Spec => []FailureBudget
BY Inductive, PTL DEF IInv

(* With one writer no append of a verdict brings back an older answer.     *)
THEOREM NothingOverwrittenHolds == Spec => NothingOverwritten
<1>1. IInv /\ [Next]_vars =>
        [Exclusive => \A k \in Keys : store'[k].gen >= store[k].gen]_vars
  <2> SUFFICES ASSUME IInv, [Next]_vars, Exclusive, NEW k \in Keys
               PROVE  store'[k].gen >= store[k].gen
    OBVIOUS
  <2>1. store[k].gen \in Nat /\ store \in [Keys -> Rows]
    BY DEF IInv, TypeOK, Rows
  <2>2. CASE \E i \in Keys : Append(i)
    BY <2>1, <2>2, JudgedType DEF Append, IInv, Idle, Fresh
  <2>3. CASE \E i \in Keys : Generate(i)
    BY <2>1, <2>3 DEF Generate, Generated, Rows
  <2>4. CASE UNCHANGED store
    BY <2>1, <2>4
  <2>5. QED
    BY <2>2, <2>3, <2>4 DEF Next, One, Environment, vars, Begin, Cancel,
       Return, Start, Answer, Lose, Check, Load, Decide, Halt, Evict, Crash,
       Exit, Edit
<1>2. QED
  BY <1>1, Inductive, PTL DEF Spec, NothingOverwritten
=============================================================================

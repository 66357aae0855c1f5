---------------------------- MODULE ClimbProofs ----------------------------
(* Theorems about Climb, for any models, sets, levels and questions.  A    *)
(* set is climbed only over the ones below it: ClimbedInOrder is inductive *)
(* with the types, for a set that is high is not due, and has no row that  *)
(* waits for the judge, so that none of its rows changes in the climb.  A  *)
(* climb ends, one round after its highest level at the latest, and leaves *)
(* nothing due: the sets that are due are of one level, and a level that   *)
(* was tried is not tried again.                                           *)
EXTENDS Climb, FiniteSetTheorems, TLAPS

IInv == TypeOK /\ ClimbedInOrder

LEMMA JobsOfSets == \A s \in Sets : JobsOf[s] \subseteq Jobs
BY DEF Jobs

LEMMA TodoIsJobs == ASSUME NEW l \in Labels PROVE LadderTodo(l) \subseteq Jobs
BY JobsOfSets DEF LadderTodo, Due

(* What a step leaves of a set's rows, it leaves of its share.             *)
LEMMA ShareFrame ==
  ASSUME NEW l \in Labels, NEW t \in Sets,
         \A j \in JobsOf[t] : rows'[l][j] = rows[l][j]
  PROVE  SetShare(l, t)' = SetShare(l, t)
<1>1. {rows[l][j] : j \in JobsOf[t]}' = {rows[l][j] : j \in JobsOf[t]}
  OBVIOUS
<1>2. QED
  BY <1>1 DEF SetShare, ScoredOn

(* A set that is high is not run.                                          *)
LEMMA HighIsNotDue ==
  ASSUME NEW l \in Labels, NEW t \in Sets, SetShare(l, t) = "high"
  PROVE  JobsOf[t] \cap LadderTodo(l) = {}
<1>1. t \notin Due(l)
  BY DEF Due
<1>2. \A s \in Due(l) : JobsOf[s] \cap JobsOf[t] = {}
  BY <1>1, ClimbAssumption DEF Due, ClimbAssumption
<1>3. QED
  BY <1>2 DEF LadderTodo

LEMMA HighIsJudged ==
  ASSUME NEW l \in Labels, NEW t \in Sets, SetShare(l, t) = "high",
         NEW j \in JobsOf[t]
  PROVE  rows[l][j] # "unjudged"
BY DEF SetShare

(* What a judge phase does to the rows: it writes only those of its models *)
(* that wait for it, and a verdict is usable.                              *)
LEMMA PhaseWrites ==
  ASSUME TypeOK, NEW models \in SUBSET Labels, NEW complete \in BOOLEAN,
         JudgePhase(models, complete)
  PROVE  /\ rows' \in [Labels -> [Jobs -> Row]]
         /\ \A k \in Labels, j \in Jobs :
              /\ rows[k][j] # "unjudged" => rows'[k][j] = rows[k][j]
              /\ rows[k][j] = "unjudged" => rows'[k][j] \in Usable
              /\ k \notin models => rows'[k][j] = rows[k][j]
<1> DEFINE pending == {p \in models \X Jobs : rows[p[1]][p[2]] = "unjudged"}
<1>1. PICK judged \in SUBSET pending :
        \E verdict \in [judged -> Verdicts] :
          rows' = [l \in Labels |-> [j \in Jobs |->
                     IF <<l, j>> \in judged THEN verdict[<<l, j>>] ELSE rows[l][j]]]
  BY DEF JudgePhase
<1>2. PICK verdict \in [judged -> Verdicts] :
        rows' = [l \in Labels |-> [j \in Jobs |->
                   IF <<l, j>> \in judged THEN verdict[<<l, j>>] ELSE rows[l][j]]]
  BY <1>1
<1>3. Verdicts \subseteq Usable /\ Usable \subseteq Row /\ "unjudged" \in Usable
  BY DEF Verdicts, Row, Usable, Scores
<1>4. rows' \in [Labels -> [Jobs -> Row]]
  BY <1>2, <1>3 DEF TypeOK
<1>5. ASSUME NEW k \in Labels, NEW j \in Jobs
      PROVE  /\ rows'[k][j] = IF <<k, j>> \in judged THEN verdict[<<k, j>>]
                                                     ELSE rows[k][j]
             /\ <<k, j>> \in judged => /\ k \in models
                                       /\ rows[k][j] = "unjudged"
                                       /\ verdict[<<k, j>>] \in Verdicts
  BY <1>1, <1>2
<1>6. QED
  BY <1>3, <1>4, <1>5

LEMMA JudgeWrites ==
  ASSUME TypeOK, Judge
  PROVE  /\ rows' \in [Labels -> [Jobs -> Row]]
         /\ \A k \in Labels, j \in Jobs :
              /\ rows[k][j] # "unjudged" => rows'[k][j] = rows[k][j]
              /\ rows[k][j] = "unjudged" => rows'[k][j] \in Usable
              /\ k \notin ran => rows'[k][j] = rows[k][j]
         /\ rc' \in BOOLEAN /\ judge_rc' \in BOOLEAN
         /\ rc => rc'
<1>1. CASE JudgeRuns
  <2>1. PICK complete \in BOOLEAN :
          /\ JudgePhase(ran, complete) /\ rc' = ~complete
          /\ judge_rc' = (judge_rc \/ ~complete)
    BY <1>1 DEF Judge
  <2>2. ran \in SUBSET Labels
    BY DEF TypeOK
  <2>3. ~rc
    BY <1>1 DEF JudgeRuns
  <2>4. /\ rows' \in [Labels -> [Jobs -> Row]]
        /\ \A k \in Labels, j \in Jobs :
             /\ rows[k][j] # "unjudged" => rows'[k][j] = rows[k][j]
             /\ rows[k][j] = "unjudged" => rows'[k][j] \in Usable
             /\ k \notin ran => rows'[k][j] = rows[k][j]
    BY <2>1, <2>2, PhaseWrites
  <2>5. rc' \in BOOLEAN /\ judge_rc' \in BOOLEAN
    BY <2>1 DEF TypeOK
  <2>6. QED
    BY <2>3, <2>4, <2>5
<1>2. CASE ~JudgeRuns
  BY <1>2 DEF Judge, TypeOK, Usable
<1>3. QED
  BY <1>1, <1>2

(* What Run does to the rows.                                              *)
LEMMA RunWrites ==
  ASSUME TypeOK, NEW l \in Labels, Run(l)
  PROVE  /\ rows' \in [Labels -> [Jobs -> Row]]
         /\ \A k \in Labels, j \in Jobs :
              k # l \/ j \notin LadderTodo(l) => rows'[k][j] = rows[k][j]
         /\ rc' \in BOOLEAN
<1>1. PICK written \in SUBSET LadderTodo(l) :
        /\ rc' = (rc \/ written # LadderTodo(l))
        /\ \E new \in [written -> Row \ {"none", "unparsable"}] :
             rows' = [rows EXCEPT ![l] =
                        [j \in Jobs |-> IF j \in written THEN new[j] ELSE @[j]]]
  BY DEF Run
<1>2. PICK new \in [written -> Row \ {"none", "unparsable"}] :
        rows' = [rows EXCEPT ![l] =
                   [j \in Jobs |-> IF j \in written THEN new[j] ELSE @[j]]]
  BY <1>1
<1>3. [j \in Jobs |-> IF j \in written THEN new[j] ELSE rows[l][j]]
        \in [Jobs -> Row]
  BY <1>2 DEF TypeOK
<1>4. rows' \in [Labels -> [Jobs -> Row]]
  BY <1>2, <1>3 DEF TypeOK
<1>5. \A k \in Labels, j \in Jobs :
        k # l \/ j \notin written => rows'[k][j] = rows[k][j]
  BY <1>2 DEF TypeOK
<1>6. QED
  BY <1>1, <1>4, <1>5 DEF TypeOK

LEMMA TypeStep == ASSUME TypeOK, [Next]_vars PROVE TypeOK'
<1> USE DEF TypeOK, round_vars
<1>1. CASE All
  <2>1. rows' \in [Labels -> [Jobs -> Row]] /\ judge_rc' \in BOOLEAN
    BY <1>1, PhaseWrites DEF All
  <2>2. tried' \in [Labels -> SUBSET Jobs]
    BY <1>1 DEF All
  <2>3. round' \in 1..MaxRounds /\ climbs' \in 0..MaxClimbs
    BY <1>1, ClimbAssumption DEF All, ClimbAssumption
  <2>4. QED
    BY <1>1, <2>1, <2>2, <2>3 DEF All
<1>2. ASSUME NEW l \in Labels, Skip(l) PROVE TypeOK'
  BY <1>2 DEF Skip
<1>3. ASSUME NEW l \in Labels, Run(l) PROVE TypeOK'
  <2>1. tried' \in [Labels -> SUBSET Jobs]
    BY <1>3, TodoIsJobs DEF Run
  <2>2. rows' \in [Labels -> [Jobs -> Row]] /\ rc' \in BOOLEAN
    BY <1>3, RunWrites
  <2>3. QED
    BY <1>3, <2>1, <2>2 DEF Run
<1>4. CASE RoundDone
  BY <1>4 DEF RoundDone, Ended
<1>5. CASE Judge
  <2>1. rows' \in [Labels -> [Jobs -> Row]] /\ rc' \in BOOLEAN
        /\ judge_rc' \in BOOLEAN
    BY <1>5, JudgeWrites
  <2>2. /\ pc' \in {"run", "finished"} /\ round' \in 1..MaxRounds
        /\ left' \subseteq Labels /\ ran' \subseteq Labels
    BY <1>5, ClimbAssumption DEF Judge, ClimbAssumption
  <2>3. QED
    BY <1>5, <2>1, <2>2 DEF Judge, Ended
<1>6. CASE Stop
  BY <1>6 DEF Stop, Ended
<1>7. ASSUME NEW l \in Labels, ProviderGone(l) PROVE TypeOK'
  BY <1>7 DEF ProviderGone, Ended
<1>8. CASE UNCHANGED vars
  BY <1>8 DEF vars
<1>9. QED
  BY <1>1, <1>2, <1>3, <1>4, <1>5, <1>6, <1>7, <1>8 DEF Next, Climbing

(* A step that leaves the high sets alone, and tries only unlocked sets,   *)
(* keeps the order.                                                        *)
LEMMA OrderKept ==
  ASSUME IInv, standard' = standard,
         \A k \in Labels, t \in Sets : SetShare(k, t) = "high" =>
           \A j \in JobsOf[t] : rows'[k][j] = rows[k][j],
         \A k \in Labels, s \in Sets : \A j \in JobsOf[s] :
           j \in tried'[k] => j \in tried[k] \/ Unlocked(k, s)
  PROVE  ClimbedInOrder'
<1> SUFFICES ASSUME NEW k \in Labels, NEW s \in Sets, NEW j \in JobsOf[s],
                    j \in tried'[k]
             PROVE  /\ standard'[k] = "high"
                    /\ \A t \in Sets : Level[t] < Level[s] =>
                         SetShare(k, t)' = "high"
  BY DEF ClimbedInOrder
<1>1. /\ standard[k] = "high"
      /\ \A t \in Sets : Level[t] < Level[s] => SetShare(k, t) = "high"
  BY DEF IInv, ClimbedInOrder, Unlocked, AllBelow
<1>2. \A t \in Sets : SetShare(k, t) = "high" => SetShare(k, t)' = "high"
  BY ShareFrame
<1>3. QED
  BY <1>1, <1>2

LEMMA OrderStep == ASSUME IInv, [Next]_vars PROVE ClimbedInOrder'
<1> USE DEF IInv
<1>1. CASE All
  BY <1>1 DEF All, ClimbedInOrder
<1>2. ASSUME NEW l \in Labels, Run(l) PROVE ClimbedInOrder'
  <2>1. \A k \in Labels, j \in Jobs :
          k # l \/ j \notin LadderTodo(l) => rows'[k][j] = rows[k][j]
    BY <1>2, RunWrites
  <2>2. \A k \in Labels, t \in Sets : SetShare(k, t) = "high" =>
          \A j \in JobsOf[t] : rows'[k][j] = rows[k][j]
    BY <2>1, HighIsNotDue, JobsOfSets
  <2>3. \A s \in Sets : \A j \in JobsOf[s] :
          j \in LadderTodo(l) => Unlocked(l, s)
    <3> SUFFICES ASSUME NEW s \in Sets, NEW j \in JobsOf[s],
                        j \in LadderTodo(l)
                 PROVE  Unlocked(l, s)
      OBVIOUS
    <3>1. PICK d \in Due(l) : j \in JobsOf[d]
      BY DEF LadderTodo
    <3>2. d = s
      BY <3>1, ClimbAssumption DEF ClimbAssumption, Due
    <3>3. QED
      BY <3>1, <3>2 DEF Due
  <2>4. /\ tried'[l] = tried[l] \cup LadderTodo(l)
        /\ \A k \in Labels \ {l} : tried'[k] = tried[k]
        /\ standard' = standard
    BY <1>2 DEF Run, TypeOK
  <2>5. \A k \in Labels, s \in Sets : \A j \in JobsOf[s] :
          j \in tried'[k] => j \in tried[k] \/ Unlocked(k, s)
    BY <2>3, <2>4
  <2>6. QED
    BY <2>2, <2>4, <2>5, OrderKept
<1>3. CASE Judge
  <2>1. \A k \in Labels, j \in Jobs :
          rows[k][j] # "unjudged" => rows'[k][j] = rows[k][j]
    BY <1>3, JudgeWrites
  <2>2. \A k \in Labels, t \in Sets : SetShare(k, t) = "high" =>
          \A j \in JobsOf[t] : rows'[k][j] = rows[k][j]
    BY <2>1, HighIsJudged, JobsOfSets
  <2>3. standard' = standard /\ tried' = tried
    BY <1>3 DEF Judge
  <2>4. QED
    BY <2>2, <2>3, OrderKept
<1>4. CASE UNCHANGED <<rows, standard, tried>>
  <2>1. \A k \in Labels, t \in Sets : SetShare(k, t)' = SetShare(k, t)
    BY <1>4, ShareFrame
  <2>2. QED
    BY <1>4, <2>1 DEF ClimbedInOrder
<1>5. QED
  BY <1>1, <1>2, <1>3, <1>4
  DEF Next, Climbing, Skip, RoundDone, Stop, ProviderGone, vars, round_vars

LEMMA InitType == Init => TypeOK
<1> SUFFICES ASSUME Init PROVE TypeOK
  OBVIOUS
<1>1. rows \in [Labels -> [Jobs -> Row]]
  BY DEF Init, Row
<1>2. round \in 1..MaxRounds /\ climbs \in 0..MaxClimbs
  BY ClimbAssumption DEF Init, ClimbAssumption
<1>3. QED
  BY <1>1, <1>2 DEF Init, TypeOK, Ended

(* Every reachable state is well typed.                                    *)
THEOREM TypeCorrect == Spec => []TypeOK
<1>1. Init => TypeOK
  BY InitType
<1>2. TypeOK /\ [Next]_vars => TypeOK'
  BY TypeStep
<1>3. QED
  BY <1>1, <1>2, PTL DEF Spec

(* Whatever a climb has run a set for, the standard set and every set of a *)
(* lower level have the unlock share, to the end of that climb, for any    *)
(* ladder and whatever rows the climb began with.                          *)
THEOREM ClimbedInOrderHolds == Spec => []ClimbedInOrder
<1>1. Init => IInv
  <2>1. Init => TypeOK
    BY InitType
  <2>2. Init => ClimbedInOrder
    BY DEF Init, ClimbedInOrder
  <2>3. QED
    BY <2>1, <2>2 DEF IInv
<1>2. IInv /\ [Next]_vars => IInv'
  BY TypeStep, OrderStep DEF IInv
<1>3. IInv => ClimbedInOrder
  BY DEF IInv
<1>4. QED
  BY <1>1, <1>2, <1>3, PTL DEF Spec
-----------------------------------------------------------------------------
(* How many rounds a climb takes, and what it has done when it ends.       *)

TriedLevels(l) == {Level[s] : s \in {t \in Sets : JobsOf[t] \cap tried[l] # {}}}

(* A level the climb has tried is not tried again.                         *)
Passed ==
  \A l \in Labels, s \in Sets :
    Level[s] \in TriedLevels(l) =>
      SetShare(l, s) # "none" \/ JobsOf[s] \subseteq DoneJobs(l) \cup tried[l]

(* A model that is run in a round was run in every round before it, for a  *)
(* new level each time; one that is skipped has nothing to do any more.    *)
Progress ==
  /\ pc = "judge" => left = {} /\ ran # {}
  /\ \A l \in Labels :
       /\ l \in ran => round <= Cardinality(TriedLevels(l))
       /\ pc = "run" /\ l \in left => \/ l \in unreadable
                                      \/ LadderTodo(l) = {}
                                      \/ round <= Cardinality(TriedLevels(l)) + 1
       /\ pc \in {"run", "judge"} /\ l \notin left \cup ran =>
            \/ LadderTodo(l) = {}
            \/ l \in unreadable /\ rc

TriedHasRow == ~rc => \A l \in Labels : \A j \in tried[l] : rows[l][j] # "none"

Rising == TypeOK /\ Passed /\ Progress /\ TriedHasRow /\ RoundsSuffice

LEMMA LevelsFinite == IsFiniteSet(Levels) /\ Cardinality(Levels) \in Nat
<1>1. Level \in Surjection(Sets, Levels)
  BY ClimbAssumption DEF ClimbAssumption, Levels, Surjection
<1>2. QED
  BY <1>1, FS_Surjection, FS_CardinalityType, ClimbAssumption DEF ClimbAssumption

LEMMA TriedLevelsFinite ==
  ASSUME NEW l \in Labels
  PROVE  /\ IsFiniteSet(TriedLevels(l)) /\ Cardinality(TriedLevels(l)) \in Nat
         /\ Cardinality(TriedLevels(l)) <= Cardinality(Levels)
<1>1. TriedLevels(l) \in SUBSET Levels
  BY DEF TriedLevels, Levels
<1>2. QED
  BY <1>1, LevelsFinite, FS_Subset, FS_CardinalityType

(* The sets that are due are of one level.                                 *)
LEMMA DueLevel ==
  ASSUME NEW l \in Labels, NEW s \in Due(l), NEW t \in Due(l)
  PROVE  Level[s] = Level[t]
<1>1. ASSUME NEW a \in Due(l), NEW b \in Due(l)
      PROVE  ~(Level[a] < Level[b])
  BY DEF Due, Unlocked, AllBelow
<1>2. Level[s] \in Nat /\ Level[t] \in Nat
  BY ClimbAssumption DEF ClimbAssumption, Due
<1>3. QED
  BY <1>1, <1>2

LEMMA LadderFrame ==
  ASSUME NEW l \in Labels, rows'[l] = rows[l], standard'[l] = standard[l],
         tried'[l] = tried[l]
  PROVE  /\ LadderTodo(l)' = LadderTodo(l) /\ Due(l)' = Due(l)
         /\ DoneJobs(l)' = DoneJobs(l) /\ TriedLevels(l)' = TriedLevels(l)
         /\ \A s \in Sets : SetShare(l, s)' = SetShare(l, s)
<1>1. \A s \in Sets : SetShare(l, s)' = SetShare(l, s)
  BY ShareFrame
<1>2. Due(l)' = Due(l)
  BY <1>1 DEF Due, Unlocked, AllBelow
<1>3. DoneJobs(l)' = DoneJobs(l)
  BY DEF DoneJobs
<1>4. QED
  BY <1>1, <1>2, <1>3 DEF LadderTodo, TriedLevels

(* A set that is scored is not run.                                        *)
LEMMA ScoredIsNotRun ==
  ASSUME NEW l \in Labels, NEW t \in Sets, t \notin Due(l)
  PROVE  JobsOf[t] \cap LadderTodo(l) = {}
<1>1. \A s \in Due(l) : JobsOf[s] \cap JobsOf[t] = {}
  BY ClimbAssumption DEF Due, ClimbAssumption
<1>2. QED
  BY <1>1 DEF LadderTodo

LEMMA TodoIsOpen ==
  ASSUME NEW l \in Labels
  PROVE  /\ LadderTodo(l) \cap (DoneJobs(l) \cup tried[l]) = {}
         /\ \A s \in Due(l) : JobsOf[s] \subseteq LadderTodo(l) \cup DoneJobs(l) \cup tried[l]
<1>1. PICK all : all = UNION {JobsOf[s] : s \in Due(l)}
  OBVIOUS
<1>2. LadderTodo(l) = all \ (DoneJobs(l) \cup tried[l])
  BY <1>1 DEF LadderTodo
<1>3. \A s \in Due(l) : JobsOf[s] \subseteq all
  BY <1>1
<1>4. QED
  BY <1>2, <1>3

LEMMA ScoredIsJudged ==
  ASSUME NEW l \in Labels, NEW t \in Sets, SetShare(l, t) # "none",
         NEW j \in JobsOf[t]
  PROVE  rows[l][j] # "unjudged"
BY DEF SetShare

(* The level a run is for was not tried before, and is then.               *)
LEMMA RunNewLevel ==
  ASSUME TypeOK, Passed, NEW l \in Labels, Run(l)
  PROVE  \E s \in Due(l) : /\ Level[s] \notin TriedLevels(l)
                           /\ TriedLevels(l)' = TriedLevels(l) \cup {Level[s]}
<1>1. PICK s \in Due(l) : JobsOf[s] \cap LadderTodo(l) # {}
  BY DEF Run, LadderTodo
<1>2. s \in Sets /\ SetShare(l, s) = "none"
  BY DEF Due
<1>3. Level[s] \notin TriedLevels(l)
  BY <1>1, <1>2, TodoIsOpen DEF Passed
<1>4. tried'[l] = tried[l] \cup LadderTodo(l)
  BY DEF Run, TypeOK
<1>5. Level[s] \in TriedLevels(l)'
  BY <1>1, <1>2, <1>4 DEF TriedLevels
<1>6. TriedLevels(l) \subseteq TriedLevels(l)'
  BY <1>4 DEF TriedLevels
<1>7. ASSUME NEW v \in TriedLevels(l)', v \notin TriedLevels(l)
      PROVE  v = Level[s]
  <2>1. PICK t \in Sets : v = Level[t] /\ JobsOf[t] \cap tried'[l] # {}
    BY DEF TriedLevels
  <2>2. JobsOf[t] \cap LadderTodo(l) # {}
    BY <1>4, <1>7, <2>1 DEF TriedLevels
  <2>3. t \in Due(l)
    BY <2>2, ScoredIsNotRun
  <2>4. QED
    BY <2>1, <2>3, DueLevel
<1>8. QED
  BY <1>3, <1>5, <1>6, <1>7

LEMMA RunCounts ==
  ASSUME TypeOK, Passed, NEW l \in Labels, Run(l)
  PROVE  Cardinality(TriedLevels(l)') = Cardinality(TriedLevels(l)) + 1
<1>1. PICK s \in Due(l) : /\ Level[s] \notin TriedLevels(l)
                          /\ TriedLevels(l)' = TriedLevels(l) \cup {Level[s]}
  BY RunNewLevel
<1>2. QED
  BY <1>1, TriedLevelsFinite, FS_AddElement

(* What leaves the scored sets and the usable rows alone passes no level.  *)
LEMMA PassedKept ==
  ASSUME TypeOK, NEW k \in Labels, NEW s \in Sets,
         tried[k] \subseteq tried'[k],
         \A j \in Jobs : rows[k][j] \in Usable => rows'[k][j] \in Usable,
         SetShare(k, s) # "none" => \A j \in JobsOf[s] : rows'[k][j] = rows[k][j],
         SetShare(k, s) # "none" \/ JobsOf[s] \subseteq DoneJobs(k) \cup tried[k]
  PROVE  SetShare(k, s)' # "none" \/ JobsOf[s] \subseteq DoneJobs(k)' \cup tried'[k]
<1>1. CASE SetShare(k, s) # "none"
  BY <1>1, ShareFrame
<1>2. CASE JobsOf[s] \subseteq DoneJobs(k) \cup tried[k]
  BY <1>2 DEF DoneJobs
<1>3. QED
  BY <1>1, <1>2

LEMMA PassedRun ==
  ASSUME TypeOK, Passed, NEW l \in Labels, Run(l)
  PROVE  Passed'
<1> SUFFICES ASSUME NEW k \in Labels, NEW s \in Sets, Level[s] \in TriedLevels(k)'
             PROVE  SetShare(k, s)' # "none"
                    \/ JobsOf[s] \subseteq DoneJobs(k)' \cup tried'[k]
  BY DEF Passed
<1>1. \A i \in Labels, j \in Jobs :
        i # l \/ j \notin LadderTodo(l) => rows'[i][j] = rows[i][j]
  BY RunWrites
<1>2. /\ tried'[l] = tried[l] \cup LadderTodo(l)
      /\ \A i \in Labels \ {l} : tried'[i] = tried[i]
  BY DEF Run, TypeOK
<1>3. tried[k] \subseteq tried'[k]
  BY <1>2
<1>4. \A j \in Jobs : rows[k][j] \in Usable => rows'[k][j] \in Usable
  <2> SUFFICES ASSUME NEW j \in Jobs, rows[k][j] \in Usable
               PROVE  rows'[k][j] \in Usable
    OBVIOUS
  <2>1. j \in DoneJobs(k)
    BY DEF DoneJobs
  <2>2. k # l \/ j \notin LadderTodo(l)
    BY <2>1, TodoIsOpen
  <2>3. QED
    BY <1>1, <2>2
<1>5. SetShare(k, s) # "none" => \A j \in JobsOf[s] : rows'[k][j] = rows[k][j]
  <2>1. CASE k = l
    BY <1>1, <2>1, ScoredIsNotRun, JobsOfSets DEF Due
  <2>2. CASE k # l
    BY <1>1, <2>2, JobsOfSets
  <2>3. QED
    BY <2>1, <2>2
<1>6. CASE Level[s] \in TriedLevels(k)
  BY <1>3, <1>4, <1>5, <1>6, PassedKept DEF Passed
<1>7. CASE Level[s] \notin TriedLevels(k)
  <2>1. k = l
    BY <1>2, <1>7 DEF TriedLevels
  <2>2. PICK d \in Due(l) : TriedLevels(l)' = TriedLevels(l) \cup {Level[d]}
    BY RunNewLevel
  <2>3. Level[s] = Level[d]
    BY <1>7, <2>1, <2>2
  <2>4. Unlocked(l, s)
    BY <2>3 DEF Due, Unlocked, AllBelow
  <2>5. CASE SetShare(l, s) # "none"
    BY <1>3, <1>4, <1>5, <2>1, <2>5, PassedKept
  <2>6. CASE SetShare(l, s) = "none"
    <3>1. JobsOf[s] \subseteq DoneJobs(l) \cup tried'[l]
      <4>1. s \in Due(l)
        BY <2>4, <2>6 DEF Due
      <4>2. QED
        BY <1>2, <4>1, TodoIsOpen
    <3>2. QED
      BY <1>4, <2>1, <3>1 DEF DoneJobs
  <2>7. QED
    BY <2>5, <2>6
<1>8. QED
  BY <1>6, <1>7

LEMMA PassedJudge ==
  ASSUME TypeOK, Passed, Judge
  PROVE  Passed'
<1> SUFFICES ASSUME NEW k \in Labels, NEW s \in Sets, Level[s] \in TriedLevels(k)'
             PROVE  SetShare(k, s)' # "none"
                    \/ JobsOf[s] \subseteq DoneJobs(k)' \cup tried'[k]
  BY DEF Passed
<1>1. /\ \A j \in Jobs : rows[k][j] # "unjudged" => rows'[k][j] = rows[k][j]
      /\ \A j \in Jobs : rows[k][j] = "unjudged" => rows'[k][j] \in Usable
  BY JudgeWrites
<1>2. tried' = tried
  BY DEF Judge
<1>3. \A j \in Jobs : rows[k][j] \in Usable => rows'[k][j] \in Usable
  BY <1>1
<1>4. SetShare(k, s) # "none" => \A j \in JobsOf[s] : rows'[k][j] = rows[k][j]
  BY <1>1, ScoredIsJudged, JobsOfSets
<1>5. Level[s] \in TriedLevels(k)
  BY <1>2 DEF TriedLevels
<1>6. QED
  BY <1>2, <1>3, <1>4, <1>5, PassedKept DEF Passed

(* What leaves a model and its place in the round, keeps its progress.     *)
LEMMA ProgressKept ==
  ASSUME Progress, NEW k \in Labels, rows'[k] = rows[k], standard' = standard,
         tried'[k] = tried[k], unreadable' = unreadable, pc' = pc, round' = round,
         rc => rc', k \in left' <=> k \in left, k \in ran' <=> k \in ran
  PROVE  /\ k \in ran' => round' <= Cardinality(TriedLevels(k)')
         /\ pc' = "run" /\ k \in left' => \/ k \in unreadable'
                                          \/ LadderTodo(k)' = {}
                                          \/ round' <= Cardinality(TriedLevels(k)') + 1
         /\ pc' \in {"run", "judge"} /\ k \notin left' \cup ran' =>
              \/ LadderTodo(k)' = {}
              \/ k \in unreadable' /\ rc'
BY LadderFrame DEF Progress

LEMMA RisingRun ==
  ASSUME Rising, NEW l \in Labels, Run(l)
  PROVE  Progress' /\ TriedHasRow'
<1> USE DEF Rising
<1>1. /\ tried'[l] = tried[l] \cup LadderTodo(l)
      /\ \A k \in Labels \ {l} : tried'[k] = tried[k]
      /\ \A k \in Labels \ {l} : rows'[k] = rows[k]
  BY DEF Run, TypeOK
<1>2. /\ pc = "run" /\ pc' = "run" /\ l \in left /\ l \notin unreadable
      /\ left' = left \ {l} /\ ran' = ran \cup {l} /\ LadderTodo(l) # {}
      /\ UNCHANGED <<standard, round, unreadable>> /\ round \in Nat
  BY DEF Run, TypeOK
<1>3. /\ rc => rc'
      /\ ~rc' => \A j \in LadderTodo(l) : rows'[l][j] # "none"
      /\ \A j \in Jobs : j \notin LadderTodo(l) => rows'[l][j] = rows[l][j]
  <2>1. PICK written \in SUBSET LadderTodo(l) :
          /\ rc' = (rc \/ written # LadderTodo(l))
          /\ \E new \in [written -> Row \ {"none", "unparsable"}] :
               rows' = [rows EXCEPT ![l] =
                          [j \in Jobs |-> IF j \in written THEN new[j] ELSE @[j]]]
    BY DEF Run
  <2>2. PICK new \in [written -> Row \ {"none", "unparsable"}] :
          rows' = [rows EXCEPT ![l] =
                     [j \in Jobs |-> IF j \in written THEN new[j] ELSE @[j]]]
    BY <2>1
  <2>3. \A j \in Jobs : rows'[l][j] = IF j \in written THEN new[j] ELSE rows[l][j]
    BY <2>2 DEF TypeOK
  <2>4. \A j \in written : j \in Jobs /\ new[j] # "none"
    BY <2>1, <2>2, TodoIsJobs
  <2>5. QED
    BY <2>1, <2>3, <2>4
<1>4. round <= Cardinality(TriedLevels(l)')
  BY <1>2, RunCounts, TriedLevelsFinite DEF Progress
<1>5. Progress'
  <2>1. ASSUME NEW k \in Labels
        PROVE
         /\ k \in ran' => round' <= Cardinality(TriedLevels(k)')
         /\ pc' = "run" /\ k \in left' => \/ k \in unreadable'
                                          \/ LadderTodo(k)' = {}
                                          \/ round' <= Cardinality(TriedLevels(k)') + 1
         /\ pc' \in {"run", "judge"} /\ k \notin left' \cup ran' =>
              \/ LadderTodo(k)' = {}
              \/ k \in unreadable' /\ rc'
    <3>1. CASE k = l
      BY <1>2, <1>4, <3>1
    <3>2. CASE k # l
      BY <1>1, <1>2, <1>3, <3>2, ProgressKept
    <3>3. QED
      BY <3>1, <3>2
  <2>2. QED
    BY <1>2, <2>1 DEF Progress
<1>6. TriedHasRow'
  <2> SUFFICES ASSUME ~rc', NEW k \in Labels, NEW j \in tried'[k]
               PROVE  rows'[k][j] # "none"
    BY DEF TriedHasRow
  <2>1. CASE k # l
    BY <1>1, <1>3, <2>1 DEF TriedHasRow
  <2>2. CASE k = l /\ j \in LadderTodo(l)
    BY <1>3, <2>2
  <2>3. CASE k = l /\ j \notin LadderTodo(l)
    BY <1>1, <1>3, <2>3 DEF TriedHasRow, TypeOK
  <2>4. QED
    BY <2>1, <2>2, <2>3
<1>7. QED
  BY <1>5, <1>6

LEMMA RisingSkip ==
  ASSUME Rising, NEW l \in Labels, Skip(l)
  PROVE  Progress' /\ TriedHasRow'
<1> USE DEF Rising
<1>1. /\ pc = "run" /\ pc' = "run" /\ l \in left /\ left' = left \ {l}
      /\ l \in unreadable \/ LadderTodo(l) = {}
      /\ rc' = (rc \/ l \in unreadable)
      /\ UNCHANGED <<rows, standard, round, ran, tried, unreadable>>
  BY DEF Skip
<1>2. \A k \in Labels : /\ LadderTodo(k)' = LadderTodo(k)
                        /\ TriedLevels(k)' = TriedLevels(k)
  BY <1>1, LadderFrame
<1>3. Progress'
  BY <1>1, <1>2 DEF Progress
<1>4. TriedHasRow'
  BY <1>1 DEF TriedHasRow
<1>5. QED
  BY <1>3, <1>4

LEMMA RisingJudge ==
  ASSUME Rising, Judge
  PROVE  Progress' /\ TriedHasRow' /\ RoundsSuffice'
<1> USE DEF Rising
<1>1. /\ pc = "judge" /\ UNCHANGED <<standard, tried, unreadable>>
      /\ \/ /\ pc' = "run" /\ round' = round + 1 /\ left' = Labels /\ ran' = {}
         \/ pc' = "finished" /\ UNCHANGED <<round, left, ran>>
  BY DEF Judge
<1>2. /\ rc => rc'
      /\ \A k \in Labels, j \in Jobs :
           /\ k \notin ran => rows'[k][j] = rows[k][j]
           /\ rows[k][j] # "none" => rows'[k][j] # "none"
  <2>1. "none" \notin Usable
    BY DEF Usable, Scores
  <2>2. QED
    BY <2>1, JudgeWrites
<1>3. TriedHasRow'
  BY <1>1, <1>2 DEF TriedHasRow, TypeOK
<1>4. round <= Cardinality(Levels) /\ round \in Nat /\ left = {} /\ ran \subseteq Labels
  <2>1. PICK l \in Labels : l \in ran
    BY <1>1 DEF Progress, TypeOK
  <2>2. round <= Cardinality(TriedLevels(l)) /\ round \in Nat
    BY <2>1 DEF Progress, TypeOK
  <2>3. QED
    BY <1>1, <2>2, TriedLevelsFinite, LevelsFinite DEF Progress, TypeOK
<1>5. RoundsSuffice'
  BY <1>1, <1>4, LevelsFinite DEF RoundsSuffice
<1>6. \A k \in Labels : TriedLevels(k)' = TriedLevels(k)
  BY <1>1 DEF TriedLevels
<1>7. ASSUME NEW k \in Labels, k \notin ran
      PROVE  k \in unreadable' \/ LadderTodo(k)' = {}
  <2>1. k \in unreadable \/ LadderTodo(k) = {}
    BY <1>1, <1>4, <1>7 DEF Progress
  <2>2. rows'[k] = rows[k]
    BY <1>2, <1>7, JudgeWrites DEF TypeOK
  <2>3. QED
    BY <1>1, <2>1, <2>2, LadderFrame
<1>8. Progress'
  <2>1. CASE pc' = "run" /\ round' = round + 1 /\ left' = Labels /\ ran' = {}
    <3>1. ASSUME NEW k \in Labels, k \in ran
          PROVE  round' <= Cardinality(TriedLevels(k)') + 1
      BY <1>4, <1>6, <2>1, <3>1, TriedLevelsFinite DEF Progress
    <3>2. QED
      BY <1>7, <2>1, <3>1 DEF Progress
  <2>2. CASE pc' = "finished" /\ UNCHANGED <<round, left, ran>>
    BY <1>6, <2>2 DEF Progress
  <2>3. QED
    BY <1>1, <2>1, <2>2
<1>9. QED
  BY <1>3, <1>5, <1>8

LEMMA RisingAll ==
  ASSUME Rising, All, TypeOK'
  PROVE  Rising'
<1> USE DEF Rising
<1>1. /\ pc' = "run" /\ round' = 1 /\ left' = Labels /\ ran' = {}
      /\ tried' = [l \in Labels |-> {}]
  BY DEF All
<1>2. \A k \in Labels : TriedLevels(k)' = {} /\ tried'[k] = {}
  BY <1>1 DEF TriedLevels
<1>3. Passed' /\ TriedHasRow'
  BY <1>2 DEF Passed, TriedHasRow
<1>4. Progress' /\ RoundsSuffice'
  <2>1. Cardinality({}) = 0
    BY FS_EmptySet
  <2>2. \A k \in Labels : round' <= Cardinality(TriedLevels(k)') + 1
    BY <1>1, <1>2, <2>1
  <2>3. Progress'
    BY <1>1, <2>2 DEF Progress
  <2>4. RoundsSuffice'
    BY <1>1, LevelsFinite DEF RoundsSuffice
  <2>5. QED
    BY <2>3, <2>4
<1>5. QED
  BY <1>3, <1>4

LEMMA RisingStep == ASSUME Rising, [Next]_vars PROVE Rising'
<1>1. TypeOK'
  BY TypeStep DEF Rising
<1>2. CASE All
  BY <1>1, <1>2, RisingAll
<1>3. ASSUME NEW l \in Labels, Run(l) PROVE Rising'
  BY <1>1, <1>3, PassedRun, RisingRun DEF Rising, Run, RoundsSuffice
<1>4. ASSUME UNCHANGED <<rows, standard, tried, round>>
      PROVE  Passed' /\ RoundsSuffice'
             /\ \A k \in Labels : /\ LadderTodo(k)' = LadderTodo(k)
                                  /\ TriedLevels(k)' = TriedLevels(k)
  <2>1. \A k \in Labels :
          /\ LadderTodo(k)' = LadderTodo(k) /\ DoneJobs(k)' = DoneJobs(k)
          /\ TriedLevels(k)' = TriedLevels(k)
          /\ \A s \in Sets : SetShare(k, s)' = SetShare(k, s)
    BY <1>4, LadderFrame
  <2>2. QED
    BY <1>4, <2>1 DEF Rising, Passed, RoundsSuffice
<1>5. ASSUME NEW l \in Labels, Skip(l) PROVE Rising'
  BY <1>1, <1>4, <1>5, RisingSkip DEF Rising, Skip
<1>6. CASE Judge
  BY <1>1, <1>6, PassedJudge, RisingJudge DEF Rising
<1>7. CASE RoundDone
  <2>1. Progress'
    BY <1>4, <1>7 DEF Rising, RoundDone, NoneRan, round_vars, Progress
  <2>2. QED
    BY <1>1, <1>4, <1>7, <2>1 DEF Rising, RoundDone, round_vars, TriedHasRow
<1>8. ASSUME pc' \in Ended,
             UNCHANGED <<rows, standard, round, climbs, round_vars, unreadable, judge_rc>>
      PROVE  Rising'
  <2>1. Progress'
    BY <1>4, <1>8 DEF Rising, round_vars, Progress, Ended
  <2>2. QED
    BY <1>1, <1>4, <1>8, <2>1 DEF Rising, round_vars, TriedHasRow
<1>9. CASE Stop \/ \E l \in Labels : ProviderGone(l)
  BY <1>8, <1>9 DEF Stop, ProviderGone, Ended
<1>10. CASE UNCHANGED vars
  <2>1. Progress'
    BY <1>4, <1>10 DEF Rising, vars, round_vars, Progress
  <2>2. QED
    BY <1>1, <1>4, <1>10, <2>1 DEF Rising, vars, round_vars, TriedHasRow
<1>11. QED
  BY <1>2, <1>3, <1>5, <1>6, <1>7, <1>9, <1>10 DEF Next, Climbing

LEMMA RisingInit == Init => Rising
<1> SUFFICES ASSUME Init PROVE Rising
  OBVIOUS
<1>1. \A k \in Labels : TriedLevels(k) = {} /\ tried[k] = {}
  BY DEF Init, TriedLevels
<1>2. Passed /\ TriedHasRow
  BY <1>1 DEF Passed, TriedHasRow
<1>3. Progress
  BY DEF Init, Progress
<1>4. RoundsSuffice
  BY LevelsFinite DEF Init, RoundsSuffice
<1>5. QED
  BY <1>2, <1>3, <1>4, InitType DEF Rising

(* A climb ends one round after its highest level at the latest, whatever  *)
(* runs and judge phases fail: no model is run twice for a level.          *)
THEOREM RoundsAlwaysSuffice == Spec => []RoundsSuffice
<1>1. Spec => []Rising
  BY RisingInit, RisingStep, PTL DEF Spec
<1>2. QED
  BY <1>1, PTL DEF Rising

-----------------------------------------------------------------------------
(* A climb that reports success has left nothing due.                      *)

Climbed == Rising /\ ClimbComplete

LEMMA NothingLeft ==
  ASSUME Rising, ~rc, NEW l \in Labels, LadderTodo(l) = {}
  PROVE  \A s \in Due(l) : \A j \in JobsOf[s] : rows[l][j] # "none"
<1> SUFFICES ASSUME NEW s \in Due(l), NEW j \in JobsOf[s]
             PROVE  rows[l][j] # "none"
  OBVIOUS
<1>1. j \in DoneJobs(l) \cup tried[l]
  BY TodoIsOpen
<1>2. CASE j \in DoneJobs(l)
  BY <1>2 DEF DoneJobs, Usable, Scores
<1>3. CASE j \in tried[l]
  BY <1>3 DEF Rising, TriedHasRow
<1>4. QED
  BY <1>1, <1>2, <1>3

LEMMA ClimbedStep ==
  ASSUME EnoughRounds, Climbed, [Next]_vars
  PROVE  Climbed'
<1> USE DEF Climbed
<1>1. Rising'
  BY RisingStep
<1>2. CASE RoundDone /\ pc' = "finished" /\ ~rc'
  <2>1. /\ left = {} /\ ran = {} /\ pc = "run" /\ ~rc
        /\ UNCHANGED <<rows, standard, tried>>
    BY <1>2 DEF RoundDone, NoneRan, round_vars
  <2>2. \A l \in Labels : LadderTodo(l) = {}
    BY <2>1 DEF Rising, Progress
  <2>3. \A l \in Labels : LadderTodo(l)' = {}
    BY <2>1, <2>2, LadderFrame
  <2>4. \A l \in Labels : \A s \in Due(l) : \A j \in JobsOf[s] : rows[l][j] # "none"
    BY <2>1, <2>2, NothingLeft
  <2>5. \A l \in Labels : Due(l)' = Due(l)
    BY <2>1, LadderFrame
  <2>6. ClimbComplete'
    BY <2>1, <2>4, <2>5 DEF ClimbComplete
  <2>7. QED
    BY <1>1, <2>6
<1>3. ASSUME pc' # "finished" \/ rc' PROVE Climbed'
  BY <1>1, <1>3 DEF ClimbComplete
<1>4. CASE Judge
  <2>1. PICK l \in Labels : l \in ran
    BY <1>4 DEF Judge, Rising, Progress, TypeOK
  <2>2. round <= Cardinality(TriedLevels(l)) /\ round \in Nat
    BY <2>1 DEF Rising, Progress, TypeOK
  <2>3. round < MaxRounds
    BY <2>2, TriedLevelsFinite, LevelsFinite, ClimbAssumption
       DEF EnoughRounds, ClimbAssumption
  <2>4. pc' = "run"
    BY <1>4, <2>3 DEF Judge
  <2>5. QED
    BY <1>3, <2>4
<1>5. CASE All \/ (\E l \in Labels : Skip(l) \/ Run(l) \/ ProviderGone(l)) \/ Stop
  BY <1>3, <1>5 DEF All, Skip, Run, ProviderGone, Stop
<1>6. CASE UNCHANGED vars
  <2>1. \A l \in Labels : Due(l)' = Due(l)
    BY <1>6, LadderFrame DEF vars, round_vars
  <2>2. ClimbComplete'
    BY <1>6, <2>1 DEF vars, round_vars, ClimbComplete
  <2>3. QED
    BY <1>1, <2>2
<1>7. QED
  BY <1>2, <1>3, <1>4, <1>5, <1>6 DEF Next, Climbing

(* A climb that ends with exit code zero has a row of every job of every   *)
(* set that is due then, when the limit of rounds is above the levels.     *)
THEOREM ClimbIsComplete == ASSUME EnoughRounds PROVE Spec => []ClimbComplete
<1>1. Init => Climbed
  BY RisingInit DEF Climbed, Init, ClimbComplete
<1>2. Climbed /\ [Next]_vars => Climbed'
  BY ClimbedStep
<1>3. Spec => []Climbed
  BY <1>1, <1>2, PTL DEF Spec
<1>4. QED
  BY <1>3, PTL DEF Climbed
=============================================================================

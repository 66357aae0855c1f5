------------------------------- MODULE Climb -------------------------------
(***************************************************************************)
(* The ladder climb of `crucibleforge all` (cli._ladder_phases, ladder.py, *)
(* the shares of report.py): after the standard set is judged, every model *)
(* runs its due ladder sets, they are judged, and the next level opens     *)
(* when the standard set and every set below scored the unlock share.      *)
(*                                                                         *)
(* One sub-score; its sets are sets of jobs.  What counts of a model's     *)
(* board is the newest row of each job:                                    *)
(*   none        no row            unjudged    waits for the judge         *)
(*   error       errored           unparsable  its verdict failed          *)
(*   low, high   scored under, or at the unlock share                      *)
(* The share of a set is high when all the rows it is scored on are: sets  *)
(* have about three questions, and the unlock share is 0.9.  A run of one  *)
(* model is one step here (module ModelRun has the run), so is a judge     *)
(* phase (module JudgePhase).  Without --escalate, --force and --fresh,    *)
(* and outside bench-all.                                                  *)
(***************************************************************************)
EXTENDS Naturals, FiniteSets

CONSTANTS Labels,        \* the models
          Sets,          \* the ladder sets of the sub-score
          Level, JobsOf, \* of each set
          JudgedJobs,    \* the jobs whose rows need the judge
          ErrorsFail,    \* errored_rows: fail (else exclude)
          MaxRounds,     \* MAX_LADDER_ROUNDS
          MaxClimbs      \* bound: invocations of `all`

Jobs   == UNION {JobsOf[s] : s \in Sets}
Scores == {"low", "high"}
Usable == Scores \cup {"unjudged", "unparsable"}
Row    == Usable \cup {"none", "error"}
Share  == Scores \cup {"none"}

ASSUME ClimbAssumption ==
  /\ IsFiniteSet(Sets)
  /\ Level \in [Sets -> Nat] /\ JobsOf \in [Sets -> (SUBSET Jobs) \ {{}}]
  /\ \A s, t \in Sets : s # t => JobsOf[s] \cap JobsOf[t] = {}
  /\ JudgedJobs \subseteq Jobs /\ ErrorsFail \in BOOLEAN
  /\ MaxRounds \in Nat \ {0} /\ MaxClimbs \in Nat

(* MAX_LADDER_ROUNDS is "never hit by a working profile".                 *)
Levels       == {Level[s] : s \in Sets}
EnoughRounds == Cardinality(Levels) < MaxRounds

VARIABLES
  rows,      \* of each model and job
  standard,  \* of each model: the standard share, none while not complete
  pc,        \* where the climb is, or how the last one ended
  round, climbs,
  left,      \* the models this round has not come to
  ran,       \* the models it ran
  tried,     \* of each model: the jobs this climb ran
  rc,        \* of the climb: zero or not
  unreadable, \* models whose board cannot be scored, in this climb
  judge_rc   \* history: a judge phase of the invocation left a row

round_vars == <<left, ran, tried, rc>>
vars == <<rows, standard, pc, round, climbs, round_vars, unreadable, judge_rc>>

Ended == {"idle", "finished", "stopped", "aborted"}

TypeOK ==
  /\ rows \in [Labels -> [Jobs -> Row]] /\ standard \in [Labels -> Share]
  /\ pc \in Ended \cup {"run", "judge"}
  /\ round \in 1..MaxRounds /\ climbs \in 0..MaxClimbs
  /\ left \subseteq Labels /\ ran \subseteq Labels
  /\ tried \in [Labels -> SUBSET Jobs]
  /\ rc \in BOOLEAN /\ judge_rc \in BOOLEAN /\ unreadable \subseteq Labels

Init ==
  /\ rows = [l \in Labels |-> [j \in Jobs |-> "none"]]
  /\ standard \in [Labels -> Share]
  /\ pc = "idle" /\ round = 1 /\ climbs = 0
  /\ left = {} /\ ran = {} /\ tried = [l \in Labels |-> {}]
  /\ rc = FALSE /\ judge_rc = FALSE /\ unreadable = {}

-----------------------------------------------------------------------------
(* The shares, and what they open.                                         *)

(* A set is scored on the rows it has: errored ones fail or are left out,  *)
(* unparsable verdicts are left out, and nothing is scored while one waits *)
(* for the judge.                                                          *)
ScoredOn == Scores \cup IF ErrorsFail THEN {"error"} ELSE {}

SetShare(l, s) ==
  LET of == {rows[l][j] : j \in JobsOf[s]} IN
  IF "unjudged" \in of \/ of \cap ScoredOn = {} THEN "none"
  ELSE IF of \cap ScoredOn = {"high"} THEN "high" ELSE "low"

OneBelow(l, s) ==                                                     \* mutant
  LET below == {t \in Sets : Level[t] < Level[s]}
  IN  below = {} \/ \E t \in below : SetShare(l, t) = "high"
AllBelow(l, s) == \A t \in Sets : Level[t] < Level[s] => SetShare(l, t) = "high"

(* ladder.states: the levels open in order.                                *)
Unlocked(l, s) == standard[l] = "high" /\ AllBelow(l, s)

(* ladder.due: every unlocked set without a result.                        *)
Due(l) == {s \in Sets : Unlocked(l, s) /\ SetShare(l, s) = "none"}

DoneJobs(l) == {j \in Jobs : rows[l][j] \in Usable}

UntriedToo(l) == (UNION {JobsOf[s] : s \in Due(l)}) \ DoneJobs(l)       \* mutant
LadderTodo(l) == (UNION {JobsOf[s] : s \in Due(l)}) \ (DoneJobs(l) \cup tried[l])

-----------------------------------------------------------------------------
(* all: the standard run and its judge, then the climb.                    *)

Verdicts == Scores \cup {"unparsable"}

(* cmd_judge over the models: every row that waits gets its verdict, or,   *)
(* when the phase fails or is stopped, some of them.                       *)
JudgePhase(models, complete) ==
  LET pending == {p \in models \X Jobs : rows[p[1]][p[2]] = "unjudged"} IN
  \E judged \in SUBSET pending :
    /\ complete = (judged = pending)
    /\ \E verdict \in [judged -> Verdicts] :
         rows' = [l \in Labels |-> [j \in Jobs |->
                    IF <<l, j>> \in judged THEN verdict[<<l, j>>] ELSE rows[l][j]]]

(* Every invocation runs the whole standard set again, and the newest rows *)
(* count: whatever the share was, it may be low or incomplete now.  Its    *)
(* judge phase also judges what an earlier climb left.                     *)
All ==
  /\ pc \in Ended /\ climbs < MaxClimbs /\ climbs' = climbs + 1
  /\ standard' \in [Labels -> Share]
  /\ \E complete \in BOOLEAN :
       JudgePhase(Labels, complete) /\ judge_rc' = ~complete
  /\ unreadable' \in SUBSET Labels
  /\ pc' = "run" /\ round' = 1 /\ left' = Labels /\ ran' = {}
  /\ tried' = [l \in Labels |-> {}]
  /\ rc' = FALSE

(* The model has nothing to run, or its board cannot be scored.            *)
Skip(l) ==
  /\ pc = "run" /\ l \in left /\ left' = left \ {l}
  /\ l \in unreadable \/ LadderTodo(l) = {}
  /\ rc' = (rc \/ l \in unreadable)
  /\ UNCHANGED <<rows, standard, pc, round, climbs, ran, tried, unreadable,
                 judge_rc>>

Written(j) == IF j \in JudgedJobs THEN {"unjudged"} ELSE Scores

(* run_models on its jobs.  A run that fails leaves jobs without a row.    *)
Run(l) ==
  /\ pc = "run" /\ l \in left \ unreadable /\ left' = left \ {l}
  /\ LadderTodo(l) # {}
  /\ tried' = [tried EXCEPT ![l] = @ \cup LadderTodo(l)]
  /\ \E written \in SUBSET LadderTodo(l) :
       /\ rc' = (rc \/ written # LadderTodo(l))
       /\ \E new \in [written -> Row \ {"none", "unparsable"}] :
            /\ \A j \in written : new[j] \in Written(j) \cup {"error"}
            /\ rows' = [rows EXCEPT ![l] =
                          [j \in Jobs |-> IF j \in written THEN new[j] ELSE @[j]]]
  /\ ran' = ran \cup {l}
  /\ UNCHANGED <<standard, pc, round, climbs, unreadable, judge_rc>>

SomeIdle == ran # Labels                                              \* mutant
NoneRan  == ran = {}

RoundDone ==
  /\ pc = "run" /\ left = {}
  /\ pc' = IF NoneRan THEN "finished" ELSE "judge"
  /\ UNCHANGED <<rows, standard, round, climbs, round_vars, unreadable, judge_rc>>

(* `rc = rc or cmd_judge(..)` over the models that ran: the judge is asked *)
(* only while rc is zero.  Then the next round, at most MaxRounds.         *)
JudgeRuns == ~rc

Judge ==
  /\ pc = "judge"
  /\ IF JudgeRuns
     THEN \E complete \in BOOLEAN :
            /\ JudgePhase(ran, complete) /\ rc' = ~complete
            /\ judge_rc' = (judge_rc \/ ~complete)
     ELSE UNCHANGED <<rows, rc, judge_rc>>
  /\ IF round < MaxRounds
     THEN pc' = "run" /\ round' = round + 1 /\ left' = Labels /\ ran' = {}
     ELSE pc' = "finished" /\ UNCHANGED <<round, left, ran>>
  /\ UNCHANGED <<standard, climbs, tried, unreadable>>

(* SIGTERM between two steps.                                              *)
Stop ==
  /\ pc \in {"run", "judge"} /\ pc' = "stopped"
  /\ UNCHANGED <<rows, standard, round, climbs, round_vars, unreadable, judge_rc>>

(* run_models raises SystemExit when the provider is not reachable; the    *)
(* climb lets it pass, and there is no report.                             *)
ProviderGone(l) ==
  /\ pc = "run" /\ l \in left \ unreadable /\ LadderTodo(l) # {}
  /\ pc' = "aborted"
  /\ UNCHANGED <<rows, standard, round, climbs, round_vars, unreadable, judge_rc>>

Climbing == (\E l \in Labels : Skip(l) \/ Run(l)) \/ RoundDone \/ Judge

Next == All \/ Climbing \/ Stop \/ \E l \in Labels : ProviderGone(l)

Spec == Init /\ [][Next]_vars

-----------------------------------------------------------------------------
(* Properties.                                                             *)

(* "the next level is due only when every level below scored >= the unlock *)
(* share": of a set that a climb has run for a model, the standard set and *)
(* every lower set are high, and stay so to the end of the climb, whatever *)
(* runs and judge phases of later rounds fail and whatever rows of earlier *)
(* climbs were on the board.  (The next `all` runs the standard set again  *)
(* and may find it low: then the sets are locked, neither run nor scored.) *)
ClimbedInOrder ==
  \A l \in Labels, s \in Sets :
    JobsOf[s] \cap tried[l] # {} =>
      /\ standard[l] = "high"
      /\ \A t \in Sets : Level[t] < Level[s] => SetShare(l, t) = "high"

(* "until nothing is due": a climb that reports success has left no due    *)
(* set with a job that has no row.                                         *)
ClimbComplete ==
  pc = "finished" /\ ~rc =>
    \A l \in Labels : \A s \in Due(l) : \A j \in JobsOf[s] : rows[l][j] # "none"

(* MAX_LADDER_ROUNDS "is never hit by a working profile": a climb ends one *)
(* round after its highest level.                                          *)
RoundsSuffice == round <= Cardinality(Levels) + 1

(* "one model's board must not stop the rest": when no judge phase failed, *)
(* a climb leaves no row of a model unjudged.                              *)
OthersAreJudged ==
  pc = "finished" /\ ~judge_rc =>
    \A l \in Labels, j \in Jobs : rows[l][j] # "unjudged"

(* ladder_todo: "a job with a usable current row is not re-run, an errored *)
(* one is": a climb without failures has tried, or has a usable row of,    *)
(* every job of the sets that are unlocked.                                *)
ErroredIsRerun ==
  pc = "finished" /\ ~rc =>
    \A l \in Labels, s \in Sets : Unlocked(l, s) =>
      JobsOf[s] \subseteq DoneJobs(l) \cup tried[l]
=============================================================================

------------------------------ MODULE Nightly ------------------------------
(***************************************************************************)
(* What a model still needs, night after night (bench_all.py, and the      *)
(* views of report.py, runner.py and judge.py it is computed from).  A     *)
(* night plans from the transcript, generates the missing cases, retries   *)
(* what ran out of budget on the first escalation rung (--escalate), and   *)
(* judges; "nothing to do" must be where this arrives.                     *)
(*                                                                         *)
(* One label.  Its transcript is a set of rows, the newest of each key (as *)
(* load_transcripts gives them); bench_run_ids are numbered in the order   *)
(* of their timestamps.  Of a row its budget_rung (0: the board's budget), *)
(* the revision of its case, how it ended and its verdict are kept:        *)
(*   done       an answer that fitted (passed or failed), or skipped       *)
(*   out        ran out of its budget                                      *)
(*   error      errored, may be retried                                    *)
(*   permanent  errored, can never run                                     *)
(* Of the meta the failed `escalated` records since `started` are kept.    *)
(* Cases are edited between nights only.                                   *)
(***************************************************************************)
EXTENDS Naturals, FiniteSets, FiniteSetsExt

CONSTANTS Cases, Repeats,   \* the profile's cases, their numbers of repeats
          Judged,           \* of the cases, those whose rows need a judge
          Reference,        \* of these, those of the reference rubric
          EndsOf,           \* of each case: how its rows may end
          NumRungs,         \* how many escalation_rungs there are
          MaxCaseAttempts,  \* MAX_CASE_ATTEMPTS
          MaxRungFailures,  \* ESCALATION_MAX_FAILURES
          MaxVerdicts,      \* MAX_VERDICT_ATTEMPTS
          MaxUpsets         \* bound: nights cut short and edits of cases

Jobs    == UNION {{<<c, i>> : i \in 1..Repeats[c]} : c \in Cases}
Rungs   == 1..NumRungs    \* from the smallest budget up
Endings == {"done", "out", "error", "permanent"}
Row == [job : Jobs, run : Nat, rung : {0} \cup Rungs, rev : Nat,
        ended : Endings, verdict : {"none", "good", "failed"}, attempts : Nat]

ASSUME NightlyAssumption ==
  /\ IsFiniteSet(Cases) /\ Repeats \in [Cases -> Nat \ {0}]
  /\ EndsOf \in [Cases -> (SUBSET Endings) \ {{}}]
  /\ Judged \subseteq Cases /\ Reference \subseteq Judged
  /\ NumRungs \in Nat \ {0}
  /\ MaxCaseAttempts \in Nat \ {0} /\ MaxRungFailures \in Nat \ {0}
  /\ MaxVerdicts \in Nat \ {0} /\ MaxUpsets \in Nat

VARIABLES
  rows,      \* transcripts_<label>.jsonl
  failures,  \* of each rung: its failed records in the meta, by weight
  revision,  \* of each case: its current content
  pc,        \* where the night is
  todo,      \* the jobs of its round that are not run yet
  waiting,   \* the rows its judge phase read and has not judged yet
  run,       \* the newest bench_run_id
  upsets     \* how often a night was cut short or a case edited

vars == <<rows, failures, revision, pc, todo, waiting, run, upsets>>

TypeOK ==
  /\ rows \subseteq Row /\ IsFiniteSet(rows)
  /\ failures \in [Rungs -> Nat]
  /\ revision \in [Cases -> Nat]
  /\ pc \in {"idle", "load", "board", "escalate", "rung", "judge"}
  /\ todo \subseteq Jobs /\ waiting \subseteq rows
  /\ run \in Nat /\ upsets \in 0..MaxUpsets

Init ==
  /\ rows = {} /\ failures = [g \in Rungs |-> 0]
  /\ revision = [c \in Cases |-> 0]
  /\ pc = "idle" /\ todo = {} /\ waiting = {} /\ run = 0 /\ upsets = 0

-----------------------------------------------------------------------------
(* The views of the transcript.                                            *)

RowCurrent(r) == r.rev = revision[r.job[1]]

(* Only the rows of the newest run of a job count.                         *)
BoardRows(keep) == {r \in keep : \A s \in keep : s.job = r.job => s.run <= r.run}

Board == BoardRows({r \in rows : RowCurrent(r) /\ r.rung = 0})
Room  == BoardRows({r \in rows : RowCurrent(r)})

(* Errored rows count over the whole history of the case as it now is.     *)
RowsOnly(c)      == Cardinality({r \in Board : r.job[1] = c /\ r.ended = "error"})
                                                                      \* mutant
ErrorAttempts(c) == Cardinality({r \in rows : /\ RowCurrent(r) /\ r.job[1] = c
                                              /\ r.ended \in {"error", "permanent"}})

(* A case short of a repeat is missing as a whole, until it has errored    *)
(* too often.                                                              *)
MissingCases ==
  {c \in Cases :
     /\ \E i \in 1..Repeats[c] :
          ~\E r \in Board : r.job = <<c, i>> /\ r.ended # "error"
     /\ ErrorAttempts(c) < MaxCaseAttempts}

BlockedRungs == {g \in Rungs : failures[g] >= MaxRungFailures}

(* The jobs whose newest run, on any rung, ran out of less than the rung.  *)
OfTheBoard(rung)     == {r.job : r \in {b \in Board : b.ended = "out"}}
                                                                      \* mutant
EscalationJobs(rung) == {r.job : r \in {b \in Room : /\ b.ended = "out"
                                                     /\ b.rung < rung}}

EscalationTodo(rungs) ==
  LET open == rungs \ BlockedRungs
  IN  IF open = {} THEN {} ELSE EscalationJobs(Max(open))

NeedsVerdict(r) == \/ r.verdict = "none"
                   \/ r.verdict = "failed" /\ r.attempts < MaxVerdicts

(* Every row of the transcript that waits for the judge, also rows that do *)
(* not count on any board.                                                 *)
Pending == {r \in rows : /\ r.job[1] \in Judged /\ r.ended \in {"done", "out"}
                         /\ NeedsVerdict(r)}

NothingToDo == /\ MissingCases = {} /\ Pending = {}
               /\ EscalationTodo(Rungs) = {}

-----------------------------------------------------------------------------
(* The night.                                                              *)

(* plan, and the first phase it finds work for.                            *)
Plan ==
  /\ pc = "idle" /\ ~NothingToDo
  /\ todo' = {j \in Jobs : j[1] \in MissingCases}
  /\ pc' = IF MissingCases # {} THEN "load" ELSE "escalate"
  /\ UNCHANGED <<rows, failures, revision, waiting, run, upsets>>

(* The number of a new run: that of a run without rows is used again.      *)
NewRun == IF \E r \in rows : r.run = run THEN run + 1 ELSE run

(* A board run starts with a new meta, without the old records.            *)
Load ==
  /\ pc = "load" /\ pc' = "board"
  /\ failures' = [g \in Rungs |-> 0]
  /\ run' = NewRun
  /\ UNCHANGED <<rows, revision, todo, waiting, upsets>>

(* run_case_repeat of a job, on the board's budget or on a rung.           *)
Generated(j, rung, ended) ==
  [job |-> j, run |-> run, rung |-> rung, rev |-> revision[j[1]],
   ended |-> ended, verdict |-> "none", attempts |-> 0]

BoardRow(j) ==
  /\ pc = "board" /\ j \in todo /\ todo' = todo \ {j}
  /\ \E ended \in EndsOf[j[1]] : rows' = rows \cup {Generated(j, 0, ended)}
  /\ UNCHANGED <<failures, revision, pc, waiting, run, upsets>>

BoardDone ==
  /\ pc = "board" /\ todo = {} /\ pc' = "escalate"
  /\ UNCHANGED <<rows, failures, revision, todo, waiting, run, upsets>>

(* The retry pass: only the first rung, only the jobs that are due.  A rig *)
(* that cannot serve its context blocks it at once; a model that does not  *)
(* load, or a round that fails under way, counts one failure.              *)
FirstRung == 1

Escalate ==
  /\ pc = "escalate"
  /\ EscalationTodo({FirstRung}) # {}
  /\ \/ /\ todo' = EscalationTodo({FirstRung}) /\ run' = NewRun /\ pc' = "rung"
        /\ UNCHANGED <<failures, waiting>>
     \/ /\ \E weight \in {1, MaxRungFailures} :
             failures' = [failures EXCEPT ![FirstRung] = @ + weight]
        /\ pc' = "judge" /\ waiting' = Pending
        /\ UNCHANGED <<todo, run>>
  /\ UNCHANGED <<rows, revision, upsets>>

NothingToEscalate ==
  /\ pc = "escalate" /\ EscalationTodo({FirstRung}) = {}
  /\ pc' = "judge" /\ waiting' = Pending
  /\ UNCHANGED <<rows, failures, revision, todo, run, upsets>>

RungRow(j) ==
  /\ pc = "rung" /\ j \in todo /\ todo' = todo \ {j}
  /\ \E ended \in EndsOf[j[1]] : rows' = rows \cup {Generated(j, FirstRung, ended)}
  /\ UNCHANGED <<failures, revision, pc, waiting, run, upsets>>

RungEnds ==
  /\ pc = "rung"
  /\ \/ todo = {} /\ UNCHANGED failures
     \/ failures' = [failures EXCEPT ![FirstRung] = @ + 1]
  /\ todo' = {} /\ pc' = "judge" /\ waiting' = Pending
  /\ UNCHANGED <<rows, revision, run, upsets>>

Uncounted(r) == 1                                                     \* mutant
Attempts(r)  == r.attempts + 1

(* The judge's verdict on a row.  A failed one leaves a reference row as   *)
(* it was, without its attempts.                                           *)
Verdict(r) ==
  /\ pc = "judge" /\ r \in waiting /\ waiting' = waiting \ {r}
  /\ \E v \in {"good", "failed"} :
       rows' = (rows \ {r}) \cup
         IF v = "failed" /\ r.job[1] \in Reference THEN {r}
         ELSE {[r EXCEPT !.verdict = v,
                         !.attempts = IF v = "failed" THEN Attempts(r) ELSE 0]}
  /\ UNCHANGED <<failures, revision, pc, todo, run, upsets>>

NightEnds ==
  /\ pc = "judge" /\ waiting = {} /\ pc' = "idle"
  /\ UNCHANGED <<rows, failures, revision, todo, waiting, run, upsets>>

-----------------------------------------------------------------------------
(* What cuts a night short.                                                *)

Upset == upsets < MaxUpsets /\ upsets' = upsets + 1

(* The model does not load, its run is given up (errors, quality or speed  *)
(* gate) or reaches the edge of the window: the next phase comes; the last *)
(* edge may leave no time for the retry pass, or for the judge.            *)
PhaseCut ==
  /\ Upset /\ todo' = {}
  /\ \/ pc \in {"load", "board"} /\ pc' = "escalate" /\ UNCHANGED waiting
     \/ pc \in {"escalate", "rung"} /\ pc' = "judge" /\ waiting' = Pending
     \/ pc = "judge" /\ pc' = "idle" /\ waiting' = {}
  /\ UNCHANGED <<rows, failures, revision, run>>

(* SIGTERM ends the night; in a retry pass it counts as a failure.         *)
Sigterm ==
  /\ Upset /\ todo' = {} /\ pc # "idle" /\ pc' = "idle" /\ waiting' = {}
  /\ failures' = IF pc = "rung" THEN [failures EXCEPT ![FirstRung] = @ + 1]
                 ELSE failures
  /\ UNCHANGED <<rows, revision, run>>

(* A kill ends it too, and may tear the meta while it is written.          *)
Crash ==
  /\ Upset /\ todo' = {} /\ pc # "idle" /\ pc' = "idle" /\ waiting' = {}
  /\ \/ UNCHANGED failures
     \/ pc \in {"load", "board", "rung"} /\ failures' = [g \in Rungs |-> 0]
  /\ UNCHANGED <<rows, revision, run>>

(* The content of a case is edited: its rows no longer count.              *)
Edit(c) ==
  /\ Upset /\ pc = "idle"
  /\ revision' = [revision EXCEPT ![c] = @ + 1]
  /\ UNCHANGED <<rows, failures, pc, todo, waiting, run>>

Night == \/ Plan \/ Load \/ BoardDone \/ Escalate \/ NothingToEscalate
         \/ RungEnds \/ NightEnds
         \/ \E j \in Jobs : BoardRow(j) \/ RungRow(j)
         \/ \E r \in rows : Verdict(r)

Next == \/ Night \/ PhaseCut \/ Sigterm \/ Crash
        \/ \E c \in Cases : Edit(c)

Spec == Init /\ [][Next]_vars

(* A night comes whenever there is work, and goes on unless it is cut.     *)
FairSpec == Spec /\ WF_vars(Night)

-----------------------------------------------------------------------------
(* Properties.                                                             *)

(* The board runs that left an errored row of the case as it now is.       *)
ErrorRuns(c) == {r.run : r \in {e \in rows : /\ e.job[1] = c /\ RowCurrent(e)
                                            /\ e.rung = 0 /\ e.ended = "error"}}

(* MAX_CASE_ATTEMPTS "(across runs)": a case is left errored, whatever     *)
(* nights were cut short: no more board runs than that have errored on it. *)
AttemptsBounded == \A c \in Cases : Cardinality(ErrorRuns(c)) <= MaxCaseAttempts

(* Rows that ran out are retried once: after its newest run on the board's *)
(* budget a job has at most one row per rung, over any number of nights.   *)
RetriedOnce ==
  \A r, s \in rows :
    (/\ r.rung > 0 /\ r.rung = s.rung /\ r.job = s.job /\ r.run < s.run
     /\ RowCurrent(r) /\ RowCurrent(s))
    => \E b \in rows : b.job = r.job /\ b.rung = 0 /\ b.run \in r.run..s.run

(* "the nightly's done-check must converge": once nights are no longer cut *)
(* short and cases no longer edited there is nothing left to do, however   *)
(* often jobs error, rungs are refused and verdicts fail.                  *)
Converges == <>[](pc = "idle" /\ NothingToDo)
=============================================================================

----------------------------- MODULE JudgePhase -----------------------------
(***************************************************************************)
(* The judge phase (judge.py): run_judge reads the rows that need a        *)
(* verdict once, loads the judge and hands the rows to the workers of      *)
(* run_rows.  Each worker (_one) asks the judge, reloads it when it was    *)
(* lost, and appends its row with the verdict.  Phases follow one another; *)
(* a phase can be stopped (stop event, SIGTERM, the window's deadline: one *)
(* flag here, all that _halted asks), or killed.                           *)
(*                                                                         *)
(* The transcript is the map ResultStore promises, one row per key; a row  *)
(* is the generation of its answer, its verdict, the failed attempts and,  *)
(* for a good verdict, the grading_revision it is stamped with.  The case  *)
(* files are a counter of their edits: the judge reads its elements from   *)
(* them once per process, the stamp is taken from the live files.          *)
(* The samples of one row are one call.  The judge server is external.     *)
(***************************************************************************)
EXTENDS Naturals, FiniteSets

CONSTANTS Keys,         \* rows with needs_judge
          Reference,    \* of these, rows of the reference rubric
          EmptyRows,    \* rows whose first answer has no content
          Workers,      \* row_workers
          MaxAttempts,  \* MAX_VERDICT_ATTEMPTS
          Exclusive,    \* no row is generated beside a judge phase (rig lock)
          Nobody, Unread,
          MaxPhases, MaxGen, MaxEdits \* bounds: judge phases, times a row is
                        \* generated, edits of the cases' judge grading

Verdicts == {"none", "good", "failed", "empty"}
Gradings == 0..MaxEdits
Rows == [gen : 0..MaxGen, verdict : Verdicts, attempts : Nat, stamp : Gradings]
Generated(g) == [gen |-> g, verdict |-> "none", attempts |-> 0, stamp |-> 0]

ASSUME JudgePhaseAssumption ==
  /\ Reference \subseteq Keys /\ EmptyRows \subseteq Keys
  /\ Workers \in Nat \ {0} /\ MaxAttempts \in Nat \ {0}
  /\ Exclusive \in BOOLEAN /\ Nobody \notin Keys
  /\ MaxPhases \in Nat /\ MaxGen \in Nat /\ MaxEdits \in Nat
  /\ Unread \notin Nat

Asking  == {"judging", "again"}
Busy    == Asking \cup {"reload", "load", "decide", "append"}
Settled == {"off", "written", "left", "errored"}

VARIABLES
  store,       \* the transcript
  pc,          \* run_judge: off, rows (the pool runs), join (its shutdown)
  phases,      \* how many phases were begun
  row,         \* the rows as this phase read them
  job,         \* each row's future and worker
  verdict,     \* what its judge answered
  halted,      \* _halted()
  judge,       \* the judge server: ready, gone
  reload_lock, \* the row whose worker holds it
  blind,       \* its holder could not read the judge's status
  grading,     \* the judge grading in the case files
  elements,    \* what of it this process has read (_CASE_ELEMENTS)
  against,     \* history: the grading each good verdict was judged against
  cut,         \* history: rows whose call failed after the stop
  failures     \* history: failed verdicts written one after the other

phase == <<pc, phases, row>>
lock  == <<reload_lock, blind>>
cases == <<grading, elements, against>>
hist  == <<cut, failures>>
vars  == <<store, phase, job, verdict, halted, judge, lock, cases, hist>>

TypeOK ==
  /\ store \in [Keys -> Rows] /\ row \in [Keys -> Rows]
  /\ pc \in {"off", "rows", "join"} /\ phases \in 0..MaxPhases
  /\ job \in [Keys -> Busy \cup Settled \cup {"queued"}]
  /\ verdict \in [Keys -> Verdicts]
  /\ halted \in BOOLEAN /\ judge \in {"ready", "gone"}
  /\ reload_lock \in Keys \cup {Nobody} /\ blind \in BOOLEAN
  /\ grading \in Gradings /\ elements \in Gradings \cup {Unread}
  /\ against \in [Keys -> Gradings \cup {Unread}]
  /\ cut \subseteq Keys /\ failures \in [Keys -> Nat]

Init ==
  /\ store = [k \in Keys |-> Generated(0)]
  /\ row = store
  /\ pc = "off" /\ phases = 0
  /\ job = [k \in Keys |-> "off"]
  /\ verdict = [k \in Keys |-> "none"]
  /\ halted = FALSE /\ judge = "gone"
  /\ reload_lock = Nobody /\ blind = FALSE
  /\ grading = 0 /\ elements = Unread
  /\ against = [k \in Keys |-> Unread]
  /\ cut = {} /\ failures = [k \in Keys |-> 0]

Become(k, s) == job' = [job EXCEPT ![k] = s]

-----------------------------------------------------------------------------
(* run_judge and run_rows: the main thread.                                *)

NeedsVerdict(r, force, retry_failed) ==
  \/ force \/ r.verdict = "none"
  \/ r.verdict = "good" /\ r.stamp # grading
  \/ retry_failed /\ r.verdict = "failed" /\ r.attempts < MaxAttempts

ReadEarlier == row                                                    \* mutant
ReadNow == store

(* pending and the elements are read, the judge loaded; if it will not     *)
(* load, or its canary fails, the phase ends before it began.  An NSFW-    *)
(* only canary holds some of the rows back.  --force starts the count of   *)
(* failures anew.                                                          *)
Begin ==
  /\ pc = "off" /\ phases < MaxPhases
  /\ phases' = phases + 1
  /\ row' = ReadNow
  /\ elements' = IF elements = Unread THEN grading ELSE elements
  /\ \E force, retry_failed \in BOOLEAN :
       LET pending == {k \in Keys : NeedsVerdict(store[k], force, retry_failed)} IN
       /\ pending # {}
       /\ \/ /\ \E asked \in (SUBSET pending) \ {{}} :
                  job' = [k \in Keys |-> IF k \in asked THEN "queued" ELSE "off"]
             /\ pc' = "rows" /\ judge' = "ready"
          \/ judge' \in {"ready", "gone"} /\ UNCHANGED <<pc, job>>
       /\ failures' = IF force THEN [k \in Keys |-> 0] ELSE failures
  /\ halted' = FALSE /\ cut' = {}
  /\ verdict' = [k \in Keys |-> "none"]
  /\ UNCHANGED <<store, lock, grading, against>>

(* run_rows sees the stop: queued rows are cancelled, the others joined.   *)
Cancel ==
  /\ pc = "rows" /\ halted
  /\ job' = [k \in Keys |-> IF job[k] = "queued" THEN "left" ELSE job[k]]
  /\ pc' = "join"
  /\ UNCHANGED <<store, phases, row, verdict, halted, judge, lock, cases, hist>>

Return ==
  /\ pc # "off" /\ \A k \in Keys : job[k] \in Settled
  /\ pc' = "off"
  /\ job' = [k \in Keys |-> "off"]
  /\ UNCHANGED <<store, phases, row, verdict, halted, judge, lock, cases, hist>>

-----------------------------------------------------------------------------
(* _one: the worker of row k.                                              *)

Start(k) ==
  /\ job[k] = "queued"
  /\ Cardinality({i \in Keys : job[i] \in Busy}) < Workers
  /\ Become(k, IF halted THEN "left" ELSE "judging")
  /\ UNCHANGED <<store, phase, verdict, halted, judge, lock, cases, hist>>

NoContent(k) == k \in EmptyRows /\ row[k].gen = 0

(* judge_row returns; a failed verdict is an unparsable or rejected reply, *)
(* a row past its time, or one of these that the stop brought about.       *)
Answer(k) ==
  /\ job[k] \in Asking
  /\ \E v \in IF NoContent(k) THEN {"empty"} ELSE {"good", "failed"} :
       /\ v = "good" => judge = "ready"
       /\ verdict' = [verdict EXCEPT ![k] = v]
       /\ cut' = IF v = "failed" /\ halted THEN cut \cup {k} ELSE cut
  /\ Become(k, "decide")
  /\ UNCHANGED <<store, phase, halted, judge, lock, cases, failures>>

(* judge_row raises: the judge was lost (the first time it is reloaded,    *)
(* the second time the row is given up), the stop dropped the request, or  *)
(* something else, which ends this row only.                               *)
Lose(k) ==
  /\ job[k] \in Asking /\ ~NoContent(k)
  /\ \/ halted /\ Become(k, "left")
     \/ ~halted /\ job[k] = "judging" /\ Become(k, "reload")
     \/ ~halted /\ Become(k, "errored")
  /\ UNCHANGED <<store, phase, verdict, halted, judge, lock, cases, hist>>

(* _judge_still_ready under reload_lock: another worker may have reloaded  *)
(* the judge already.  A status that cannot be read counts as not ready.   *)
AnyTime == TRUE                                                       \* mutant
LockFree == reload_lock = Nobody

Check(k) ==
  /\ job[k] = "reload" /\ LockFree
  /\ \E unread \in BOOLEAN :
       IF judge = "ready" /\ ~unread
       THEN Become(k, "again") /\ UNCHANGED lock
       ELSE Become(k, "load") /\ reload_lock' = k /\ blind' = unread
  /\ UNCHANGED <<store, phase, verdict, halted, judge, cases, hist>>

(* jc.load() under the lock, which is left whether it works or not.        *)
StillHeld(k) == IF judge' = "ready" THEN Nobody ELSE k                \* mutant
Unlocked(k)  == Nobody

Load(k) ==
  /\ job[k] = "load"
  /\ \/ judge' = "ready" /\ Become(k, "again")
     \/ judge' = "gone" /\ Become(k, IF halted THEN "left" ELSE "errored")
  /\ reload_lock' = Unlocked(k)
  /\ UNCHANGED <<store, phase, verdict, halted, blind, cases, hist>>

(* A failed verdict is not written once the phase is halted.               *)
Keeps(k)   == TRUE                                                    \* mutant
Writes(k)  == ~(verdict[k] \in {"failed", "empty"} /\ halted)

Decide(k) ==
  /\ job[k] = "decide"
  /\ Become(k, IF Writes(k) THEN "append" ELSE "left")
  /\ UNCHANGED <<store, phase, verdict, halted, judge, lock, cases, hist>>

(* The answer as it was read, with its verdict: a good one is stamped with *)
(* the grading of now, a failed one counts the attempts on the row, and    *)
(* leaves a reference row pending.                                         *)
OneMore(k)  == 1                                                      \* mutant
Unset(k)    == Nobody                                                 \* mutant
Attempts(k) == IF row[k].verdict \in {"failed", "empty"}
               THEN row[k].attempts + 1 ELSE 1

Judged(k) ==
  IF verdict[k] = "good"
  THEN [Generated(row[k].gen) EXCEPT !.verdict = "good", !.stamp = grading]
  ELSE IF verdict[k] = "failed" /\ k \in Reference
  THEN Generated(row[k].gen)
  ELSE [Generated(row[k].gen) EXCEPT !.verdict = verdict[k],
                                     !.attempts = Attempts(k)]

Append(k) ==
  /\ job[k] = "append"
  /\ store' = [store EXCEPT ![k] = Judged(k)]
  /\ failures' = [failures EXCEPT ![k] =
                    IF Judged(k).verdict = "failed" THEN @ + 1 ELSE 0]
  /\ against' = [against EXCEPT ![k] =
                   IF verdict[k] = "good" THEN elements ELSE Unread]
  /\ Become(k, "written")
  /\ UNCHANGED <<phase, verdict, halted, judge, lock, grading, elements, cut>>

One(k) == \/ Start(k) \/ Answer(k) \/ Lose(k) \/ Check(k) \/ Load(k)
          \/ Decide(k) \/ Append(k)

-----------------------------------------------------------------------------
(* The environment.                                                        *)

Halt ==
  /\ pc # "off" /\ ~halted /\ halted' = TRUE
  /\ UNCHANGED <<store, phase, job, verdict, judge, lock, cases, hist>>

(* Somebody unloads the judge; a load that is under way is not disturbed.  *)
Evict ==
  /\ judge = "ready" /\ judge' = "gone"
  /\ UNCHANGED <<store, phase, job, verdict, halted, lock, cases, hist>>

(* The process is killed.                                                  *)
Crash ==
  /\ pc # "off" /\ pc' = "off"
  /\ job' = [k \in Keys |-> "off"]
  /\ reload_lock' = Nobody /\ elements' = Unread
  /\ UNCHANGED <<store, phases, row, verdict, halted, judge, blind, grading,
                 against, hist>>

(* The next phase is another process' (cli judge, not bench-all or GUI).   *)
Exit ==
  /\ pc = "off" /\ elements # Unread /\ elements' = Unread
  /\ UNCHANGED <<store, phase, job, verdict, halted, judge, lock, grading,
                 against, hist>>

(* recover or escalate generates the row again, under the same key.        *)
Generate(k) ==
  /\ Exclusive => pc = "off"
  /\ store[k].gen < MaxGen
  /\ store' = [store EXCEPT ![k] = Generated(@.gen + 1)]
  /\ failures' = [failures EXCEPT ![k] = 0]
  /\ UNCHANGED <<phase, job, verdict, halted, judge, lock, cases, cut>>

(* Somebody edits the judge grading in the case files, at any time.        *)
Edit ==
  /\ grading < MaxEdits /\ grading' = grading + 1
  /\ UNCHANGED <<store, phase, job, verdict, halted, judge, lock, elements,
                 against, hist>>

Environment == \/ Halt \/ Evict \/ Crash \/ Exit \/ Edit
               \/ \E k \in Keys : Generate(k)

Next == Begin \/ Cancel \/ Return \/ (\E k \in Keys : One(k)) \/ Environment

Spec == Init /\ [][Next]_vars

(* Calls to the judge end within row_timeout_s and loads within the        *)
(* provider's limits, so workers and the main thread go on.                *)
FairSpec == /\ Spec /\ WF_vars(Cancel) /\ WF_vars(Return)
            /\ \A k \in Keys : WF_vars(One(k))

-----------------------------------------------------------------------------
(* Properties.                                                             *)

(* run_judge: nothing is overwritten -- with one writer of rows at a time  *)
(* a judged row never brings back an answer that was generated anew.       *)
NothingOverwritten ==
  [][Exclusive => \A k \in Keys : store'[k].gen >= store[k].gen]_vars

(* A verdict cut short by the stop is not the judge's failure: the row     *)
(* stays pending, whichever of stop, failure and write comes first.        *)
CutStaysPending == \A k \in cut : job[k] \notin {"append", "written"}

(* "do not stack a second unload/load on top": while a worker loads the    *)
(* judge no other worker has loaded it, unless its status was not read.    *)
NoStackedReload == (\E k \in Keys : job[k] = "load") /\ ~blind => judge = "gone"

(* MAX_VERDICT_ATTEMPTS: phase after phase, with stops and kills between,  *)
(* no row gets more failed verdicts in a row than its attempts allow,      *)
(* unless --force asks for them (a reference row keeps no failed verdict,  *)
(* see _apply_reference_grade).                                            *)
FailureBudget == \A k \in Keys : failures[k] <= MaxAttempts

(* The phase ends, stopped or not: no worker waits for ever for another.   *)
PhaseEnds == pc # "off" ~> pc = "off"

(* run_judge on grading_revision: "what this verdict was judged against".  *)
(* Otherwise an edit of the case does not bring the verdict up again.      *)
StampIsTrue ==
  \A k \in Keys : store[k].verdict = "good" => store[k].stamp = against[k]
=============================================================================

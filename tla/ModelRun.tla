------------------------------ MODULE ModelRun ------------------------------
(***************************************************************************)
(* One board run of a batch of models (runner.py): run_models walks the    *)
(* batch, _run_one_model runs one load round of one model on a thread      *)
(* pool, and three kinds of stop reach it from outside: the cooperative    *)
(* STOP (GUI, window edge), the hard ABORT (SIGTERM) and the generation    *)
(* deadline that drops requests in flight.  The watchdog of cli.py ends    *)
(* the process when a hard stop does not get through in time.              *)
(*                                                                         *)
(* Processes: the main thread (pc), one worker step per job (job), the     *)
(* watchdog thread, and the environment that stops the run.                *)
(***************************************************************************)
EXTENDS Integers, Sequences, FiniteSets

CONSTANTS NModels,    \* the batch is the models 1 .. NModels, in order
          Jobs,       \* (case, repeat) jobs of the profile
          Perf,       \* the perf probes among them: run first, one at a time
          Wide,       \* jobs that need the wide context: load round B
          Workers,    \* parallel slots the provider reports
          MaxErrs,    \* MAX_CONSECUTIVE_TRANSPORT_ERRORS
          SanityAfter, \* SANITY_CHECK_AFTER
          NoJob       \* nobody holds ctx.lock

ASSUME ModelRunAssumption ==
  /\ NModels \in Nat \ {0}
  /\ IsFiniteSet(Jobs)
  /\ Perf \subseteq Jobs
  /\ Wide \subseteq Jobs \ Perf
  /\ Wide # {} => Jobs \ (Wide \cup Perf) # {}
  /\ Workers \in Nat \ {0}
  /\ MaxErrs \in Nat \ {0}
  /\ SanityAfter \in Nat \ {0}
  /\ NoJob \notin Jobs

Models == 1 .. NModels

(* Rounds of plan_rounds: the narrow rows, then the wide ones reloaded.    *)
Rounds == IF Wide = {} THEN 1 ELSE 2
JobsOf(r) == IF r = 1 THEN Jobs \ Wide ELSE Wide
MainJobs(r) == JobsOf(r) \ Perf

(* A completion: "fast" and "slow" have a tok/s above or below the floor   *)
(* min_tok_per_s, "empty" has no content, reasoning or tool call.          *)
Completions == {"fast", "slow", "empty"}
(* A row: a completion, a case-local failure (rejected request or          *)
(* generation, context too small, a rung's wall cap), a transport failure. *)
RowKinds == Completions \cup {"local", "err"}
(* A result on its way to the transcript; "storm" is the transport failure *)
(* that saw the error counter at its limit.                                *)
Results == RowKinds \cup {"storm"}

Waiting  == {"none", "queued"}
Working  == {"gen", "persist", "write"}
(* "ok" returned, "stopped" RunStopped, "model" ModelRunError, "other" an  *)
(* exception _run_pool does not catch (a failed reload).                   *)
Settled  == {"ok", "stopped", "model", "other"}

VARIABLES
  STOP,        \* runner.STOP
  ABORT,       \* stopflag.ABORT
  WINDOW_STOP, \* runner.WINDOW_STOP
  deadline,    \* time.time() is past GEN_DEADLINE
  pc,          \* the main thread
  cur,         \* the model run_models is at
  round,       \* its load round
  phase,       \* which of the round's two pools runs
  active,      \* ACTIVE: the labels the watchdog would mark
  job,         \* each job's future and the worker that runs it
  result,      \* what a working job is about to write
  taken,       \* futures the main thread has looked at
  first_err,   \* of _run_pool
  raised,      \* the exception on its way to run_models' handlers
  abort,       \* the model-local abort event of this round
  consecutive, \* state["consecutive_errors"]
  sanity,      \* state["sanity_total"], state["sanity_empty"]
  samples,     \* speed samples up to the gate
  ctx_lock,    \* the job whose worker holds ctx.lock in persist
  rows,        \* the transcript: rows written per model and job
  meta,        \* meta_<label>.json
  summary,     \* run_models' summary
  watchdog,    \* cli._stop_watchdog
  asked,       \* history: someone asked for a cooperative stop
  discarded    \* history: models whose perf pool ended in an error

flags == <<STOP, ABORT, WINDOW_STOP, deadline>>
pool  == <<job, result, taken, first_err>>
local == <<abort, consecutive, sanity, samples>>
files == <<rows, meta>>
where == <<cur, round, phase, active>>
hist  == <<asked, discarded>>
vars  == <<flags, pc, where, pool, raised, local, ctx_lock, files, summary,
           watchdog, hist>>

NewMeta == [round |-> 0, finished |-> FALSE, failed |-> FALSE,
            stopped |-> FALSE, window |-> FALSE, error |-> "none"]

FlagsOK ==
  /\ STOP \in BOOLEAN /\ ABORT \in BOOLEAN
  /\ WINDOW_STOP \in BOOLEAN /\ deadline \in BOOLEAN
  /\ watchdog \in {"off", "armed", "marked"}
  /\ asked \in BOOLEAN
  /\ abort \in BOOLEAN

MainOK ==
  /\ pc \in {"start", "next", "load", "warmup", "pool", "drain", "return",
             "finish", "except", "pop", "done", "refused", "exited"}
  /\ cur \in 0 .. NModels
  /\ round \in 1 .. 2
  /\ phase \in {"perf", "main"}
  /\ active \subseteq Models
  /\ raised \in {"none", "stopped", "model", "load", "closed"}
  /\ summary \in [Models -> {"none", "ok", "failed", "stopped", "window"}]
  /\ discarded \subseteq Models

PoolOK ==
  /\ job \in [Jobs -> Waiting \cup Working \cup Settled \cup {"cancelled"}]
  /\ result \in [Jobs -> Results \cup {"none"}]
  /\ taken \subseteq Jobs
  /\ first_err \in {"none", "stopped", "model"}

LocalOK ==
  /\ consecutive \in Nat
  /\ sanity \in [total : Nat, empty : Nat]
  /\ samples \in [n : 0 .. 2, slow : 0 .. 2]
  /\ ctx_lock \in Jobs \cup {NoJob}

Metas == [round : 0 .. 2, finished : BOOLEAN, failed : BOOLEAN, stopped : BOOLEAN,
          window : BOOLEAN, error : {"none", "stopped", "model", "load", "closed"}]

FilesOK ==
  /\ rows \in [Models -> [Jobs -> Seq(RowKinds)]]
  /\ meta \in [Models -> Metas]

TypeOK == FlagsOK /\ MainOK /\ PoolOK /\ LocalOK /\ FilesOK

Init ==
  /\ STOP = FALSE /\ ABORT = FALSE /\ WINDOW_STOP = FALSE /\ deadline = FALSE
  /\ pc = "start" /\ cur = 0 /\ round = 1 /\ phase = "main" /\ active = {}
  /\ job = [j \in Jobs |-> "none"]
  /\ result = [j \in Jobs |-> "none"]
  /\ taken = {} /\ first_err = "none" /\ raised = "none"
  /\ abort = FALSE /\ consecutive = 0
  /\ sanity = [total |-> 0, empty |-> 0]
  /\ samples = [n |-> 0, slow |-> 0]
  /\ ctx_lock = NoJob
  /\ rows = [m \in Models |-> [j \in Jobs |-> <<>>]]
  /\ meta = [m \in Models |-> NewMeta]
  /\ summary = [m \in Models |-> "none"]
  /\ watchdog = "off" /\ asked = FALSE /\ discarded = {}

-----------------------------------------------------------------------------
(* The environment.                                                        *)

Running == pc \notin {"refused", "exited"}

(* The GUI's Stop button.                                                  *)
UserStop ==
  /\ Running /\ ~asked
  /\ STOP' = TRUE /\ asked' = TRUE
  /\ UNCHANGED <<ABORT, WINDOW_STOP, deadline, pc, where, pool, raised, local,
                 ctx_lock, files, summary, watchdog, discarded>>

(* The timer of bench_all's _arm: the generation window closes.            *)
CloseWindow ==
  /\ Running /\ ~WINDOW_STOP
  /\ WINDOW_STOP' = TRUE /\ STOP' = TRUE /\ asked' = TRUE
  /\ UNCHANGED <<ABORT, deadline, pc, where, pool, raised, local, ctx_lock,
                 files, summary, watchdog, discarded>>

(* The grace after the window's edge is over as well.                      *)
PassDeadline ==
  /\ Running /\ WINDOW_STOP /\ ~deadline
  /\ deadline' = TRUE
  /\ UNCHANGED <<STOP, ABORT, WINDOW_STOP, pc, where, pool, raised, local,
                 ctx_lock, files, summary, watchdog, hist>>

(* Mutant: the watchdog thread is never started.                           *)
SigtermAlone ==
  /\ Running /\ ~ABORT
  /\ STOP' = TRUE /\ ABORT' = TRUE
  /\ UNCHANGED <<WINDOW_STOP, deadline, pc, where, pool, raised, local,
                 ctx_lock, files, summary, watchdog, hist>>

(* SIGTERM: request_stop sets both flags and starts the watchdog.          *)
Sigterm ==
  /\ Running /\ ~ABORT
  /\ STOP' = TRUE /\ ABORT' = TRUE /\ watchdog' = "armed"
  /\ UNCHANGED <<WINDOW_STOP, deadline, pc, where, pool, raised, local,
                 ctx_lock, files, summary, hist>>

-----------------------------------------------------------------------------
(* A worker thread: run_case_repeat for one job.                           *)

PoolJobs == IF phase = "perf" THEN Perf ELSE MainJobs(round)
Busy     == {j \in PoolJobs : job[j] \in Working}
Slots    == IF phase = "perf" THEN 1 ELSE Workers

(* What a picked-up job does first: a stop raises RunStopped, the          *)
(* model-local abort returns without a row.                                *)
FirstStepQuiet == IF STOP \/ ABORT \/ abort THEN "ok" ELSE "gen"     \* mutant
FirstStep == IF STOP \/ ABORT THEN "stopped" ELSE IF abort THEN "ok" ELSE "gen"

Start(j) ==
  /\ Running
  /\ job[j] = "queued" /\ Cardinality(Busy) < Slots
  /\ job' = [job EXCEPT ![j] = FirstStep]
  /\ UNCHANGED <<flags, pc, where, result, taken, first_err, raised, local,
                 ctx_lock, files, summary, watchdog, hist>>

(* The request ends in a completion: the error counter starts again.       *)
Complete(j) ==
  /\ Running /\ job[j] = "gen" /\ ctx_lock = NoJob
  /\ \E k \in Completions : result' = [result EXCEPT ![j] = k]
  /\ consecutive' = 0
  /\ job' = [job EXCEPT ![j] = "persist"]
  /\ UNCHANGED <<flags, pc, where, taken, first_err, raised, abort, sanity,
                 samples, ctx_lock, files, summary, watchdog, hist>>

(* The case itself fails: its row is an error, the counter is left alone.  *)
RejectCase(j) ==
  /\ Running /\ job[j] = "gen"
  /\ result' = [result EXCEPT ![j] = "local"]
  /\ job' = [job EXCEPT ![j] = "persist"]
  /\ UNCHANGED <<flags, pc, where, taken, first_err, raised, local, ctx_lock,
                 files, summary, watchdog, hist>>

(* The server fails.  While a hard stop is pending that is the stop's own  *)
(* doing (the look at ABORT may come just before it is set); otherwise it  *)
(* is counted, and the counter read under ctx.lock decides later whether   *)
(* this worker gives the model up.                                         *)
FailTransport(j) ==
  /\ Running /\ job[j] = "gen"
  /\ \/ /\ ABORT
        /\ job' = [job EXCEPT ![j] = "stopped"]
        /\ UNCHANGED <<result, consecutive>>
     \/ /\ ctx_lock = NoJob
        /\ consecutive' = consecutive + 1
        /\ result' = [result EXCEPT ![j] =
                        IF consecutive + 1 >= MaxErrs THEN "storm" ELSE "err"]
        /\ job' = [job EXCEPT ![j] = "persist"]
  /\ UNCHANGED <<flags, pc, where, taken, first_err, raised, abort, sanity,
                 samples, ctx_lock, files, summary, watchdog, hist>>

(* The request is dropped at the generation deadline: no row.              *)
DropAtDeadline(j) ==
  /\ Running /\ job[j] = "gen" /\ deadline
  /\ job' = [job EXCEPT ![j] = "stopped"]
  /\ UNCHANGED <<flags, pc, where, result, taken, first_err, raised, local,
                 ctx_lock, files, summary, watchdog, hist>>

(* The model was evicted and cannot be loaded again.                       *)
FailReload(j) ==
  /\ Running /\ job[j] = "gen"
  /\ job' = [job EXCEPT ![j] = "other"]
  /\ UNCHANGED <<flags, pc, where, result, taken, first_err, raised, local,
                 ctx_lock, files, summary, watchdog, hist>>

(* How run_case_repeat ends once persist is through; a fatal persist has   *)
(* raised before the worker gets to set the abort event.                   *)
AfterPersist(j, fatal) == IF fatal \/ result[j] = "storm" THEN "model" ELSE "ok"

NeverAborts(j, fatal) == FALSE                                        \* mutant
SetsAbort(j, fatal) == result[j] = "storm" /\ ~fatal

(* persist takes ctx.lock and looks at ABORT once: a late row is dropped.  *)
EnterPersist(j) ==
  /\ Running /\ job[j] = "persist" /\ ctx_lock = NoJob
  /\ IF ABORT
     THEN /\ job' = [job EXCEPT ![j] = AfterPersist(j, FALSE)]
          /\ abort' = (abort \/ SetsAbort(j, FALSE))
          /\ result' = [result EXCEPT ![j] = "none"]
          /\ UNCHANGED ctx_lock
     ELSE /\ job' = [job EXCEPT ![j] = "write"]
          /\ ctx_lock' = j
          /\ UNCHANGED <<abort, result>>
  /\ UNCHANGED <<flags, pc, where, taken, first_err, raised,
                 consecutive, sanity, samples, files, summary, watchdog, hist>>

RowOf(j) == IF result[j] = "storm" THEN "err" ELSE result[j]

(* The sanity rule counts completions only.                                *)
CountCompletion(row) ==
  IF row \in Completions
  THEN [total |-> sanity.total + 1,
        empty |-> sanity.empty + (IF row = "empty" THEN 1 ELSE 0)]
  ELSE sanity
AllEmpty(s) == s.total >= SanityAfter /\ s.empty = s.total

(* The speed gate takes samples until it has looked once, at the second;   *)
(* the median of two is the larger, so too slow means both are.            *)
SampleOn(row) ==                                                      \* mutant
  IF row \in {"fast", "slow"}
  THEN [n |-> samples.n + 1, slow |-> samples.slow + (IF row = "slow" THEN 1 ELSE 0)]
  ELSE samples
Sample(row) ==
  IF row \in {"fast", "slow"} /\ samples.n < 2
  THEN [n |-> samples.n + 1, slow |-> samples.slow + (IF row = "slow" THEN 1 ELSE 0)]
  ELSE samples
TooSlow(s) == samples.n < 2 /\ s.n = 2 /\ s.slow = 2

KeepLock(fatal) == IF fatal THEN ctx_lock ELSE NoJob                  \* mutant
Unlock(fatal) == NoJob

(* The rest of persist, under the lock: the row, then the two rules that   *)
(* give the model up.                                                      *)
WritePersist(j) ==
  LET row   == RowOf(j)
      san   == CountCompletion(row)
      sam   == IF AllEmpty(san) THEN samples ELSE Sample(row)
      fatal == AllEmpty(san) \/ TooSlow(sam)
  IN /\ Running /\ job[j] = "write"
     /\ rows' = [rows EXCEPT ![cur][j] = Append(@, row)]
     /\ sanity' = san /\ samples' = sam
     /\ ctx_lock' = Unlock(fatal)
     /\ job' = [job EXCEPT ![j] = AfterPersist(j, fatal)]
     /\ abort' = (abort \/ SetsAbort(j, fatal))
     /\ result' = [result EXCEPT ![j] = "none"]
     /\ UNCHANGED <<flags, pc, where, taken, first_err, raised,
                    consecutive, meta, summary, watchdog, hist>>

Worker(j) ==
  \/ Start(j) \/ Complete(j) \/ RejectCase(j) \/ FailTransport(j)
  \/ DropAtDeadline(j) \/ FailReload(j) \/ EnterPersist(j) \/ WritePersist(j)

-----------------------------------------------------------------------------
(* The main thread: _run_pool.                                             *)

(* Futures of the jobs S, on a pool of their own; none for no jobs.        *)
Submit(S, ph) ==
  /\ job' = [j \in Jobs |-> IF j \in S THEN "queued" ELSE job[j]]
  /\ taken' = {} /\ first_err' = "none" /\ phase' = ph
  /\ UNCHANGED result

Cancel(f) == [j \in Jobs |-> IF f[j] = "queued" THEN "cancelled" ELSE f[j]]

(* _run_pool's finally: shutdown joins the workers unless ABORT is set.    *)
NeverJoins == "return"                                                \* mutant
AfterPool == IF ABORT THEN "return" ELSE "drain"

(* One finished future.  A ModelRunError drains this model's queue; an     *)
(* exception _run_pool does not know leaves it through finally.            *)
TakeFuture(j) ==
  /\ pc = "pool" /\ j \in PoolJobs \ taken /\ job[j] \in Settled
  /\ taken' = taken \cup {j}
  /\ first_err' = IF first_err = "none" /\ job[j] \in {"stopped", "model"}
                  THEN job[j] ELSE first_err
  /\ abort' = (abort \/ job[j] = "model")
  /\ IF job[j] = "other"
     THEN /\ raised' = "load"
          /\ job' = Cancel(job)
          /\ pc' = AfterPool
     ELSE UNCHANGED <<raised, job, pc>>
  /\ UNCHANGED <<flags, where, result, consecutive, sanity, samples, ctx_lock,
                 files, summary, watchdog, hist>>

(* The poll sees ABORT: cancel what is queued, leave without joining.      *)
LeavePool ==
  /\ pc = "pool" /\ ABORT
  /\ first_err' = "stopped" /\ job' = Cancel(job) /\ pc' = "return"
  /\ UNCHANGED <<flags, where, result, taken, raised, local, ctx_lock, files,
                 summary, watchdog, hist>>

EndPool ==
  /\ pc = "pool" /\ taken = PoolJobs
  /\ pc' = "return"
  /\ UNCHANGED <<flags, where, pool, raised, local, ctx_lock, files, summary,
                 watchdog, hist>>

(* pool.shutdown(wait=True): the workers in flight finish first.           *)
JoinWorkers ==
  /\ pc = "drain" /\ Busy = {}
  /\ pc' = "return"
  /\ UNCHANGED <<flags, where, pool, raised, local, ctx_lock, files, summary,
                 watchdog, hist>>

(* What _run_pool returns, and what _run_one_model does with it: the perf  *)
(* pool's error is dropped, the main pool's is raised.                     *)
PoolError == IF ABORT THEN "stopped" ELSE first_err

PerfReturns ==
  /\ phase = "perf" /\ raised = "none"
  /\ discarded' = IF PoolError = "none" THEN discarded
                  ELSE discarded \cup {cur}
  /\ Submit(MainJobs(round), "main")
  /\ pc' = IF MainJobs(round) = {} THEN "finish" ELSE "pool"
  /\ UNCHANGED raised

MainReturns ==
  /\ phase = "main" /\ raised = "none"
  /\ raised' = PoolError
  /\ pc' = IF PoolError = "none" THEN "finish" ELSE "except"
  /\ UNCHANGED <<pool, phase, discarded>>

PoolRaises ==
  /\ raised # "none"
  /\ pc' = "except"
  /\ UNCHANGED <<pool, phase, raised, discarded>>

ReturnPool ==
  /\ pc = "return"
  /\ PerfReturns \/ MainReturns \/ PoolRaises
  /\ UNCHANGED <<flags, cur, round, active, local, ctx_lock, files, summary,
                 watchdog, asked>>

-----------------------------------------------------------------------------
(* The main thread: run_models and _run_one_model.                         *)

(* STOP.clear() and the reachability check of the providers.               *)
Begin ==
  /\ pc = "start"
  /\ STOP' = FALSE
  /\ pc' \in {"next", "refused"}
  /\ UNCHANGED <<ABORT, WINDOW_STOP, deadline, where, pool, raised, local,
                 ctx_lock, files, summary, watchdog, hist>>

NextModel ==
  /\ pc = "next"
  /\ IF STOP \/ ABORT \/ cur = NModels
     THEN pc' = "done" /\ UNCHANGED <<cur, round, active>>
     ELSE /\ pc' = "load" /\ cur' = cur + 1 /\ round' = 1
          /\ active' = active \cup {cur + 1}
  /\ UNCHANGED <<flags, phase, pool, raised, local, ctx_lock, files,
                 summary, watchdog, hist>>

(* switch_model succeeds: fresh round state, and a fresh meta in the first *)
(* round.                                                                  *)
Load ==
  /\ pc = "load"
  /\ meta' = IF round = 1 THEN [meta EXCEPT ![cur] = NewMeta] ELSE meta
  /\ abort' = FALSE /\ consecutive' = 0
  /\ sanity' = [total |-> 0, empty |-> 0]
  /\ samples' = [n |-> 0, slow |-> 0]
  /\ IF round = 1 /\ Perf # {}
     THEN pc' = "warmup" /\ UNCHANGED <<pool, phase>>
     ELSE /\ Submit(MainJobs(round), "main")
          /\ pc' = IF MainJobs(round) = {} THEN "finish" ELSE "pool"
  /\ UNCHANGED <<flags, cur, round, active, raised, ctx_lock, rows, summary,
                 watchdog, hist>>

(* The load, or the perf warm-up, raises: a load error, a transport error, *)
(* or WindowClosed once the deadline has passed.                           *)
FailModel ==
  /\ \/ pc \in {"load", "warmup"} /\ raised' = "load"
     \/ pc = "warmup" /\ deadline /\ raised' = "closed"
  /\ pc' = "except"
  /\ UNCHANGED <<flags, where, pool, local, ctx_lock, files, summary, watchdog,
                 hist>>

(* The warm-up completion; then the perf pool.                             *)
Warmup ==
  /\ pc = "warmup" /\ ~deadline
  /\ Submit(Perf, "perf") /\ pc' = "pool"
  /\ UNCHANGED <<flags, cur, round, active, raised, local, ctx_lock, files,
                 summary, watchdog, hist>>

(* The last lines of _run_one_model, and run_models' next round.           *)
FinishRound ==
  /\ pc = "finish"
  /\ IF round < Rounds
     THEN /\ meta' = [meta EXCEPT ![cur] =
                        [@ EXCEPT !.round = round, !.failed = FALSE]]
          /\ round' = round + 1 /\ pc' = "load"
          /\ UNCHANGED summary
     ELSE /\ meta' = [meta EXCEPT ![cur] =
                        [@ EXCEPT !.round = round, !.failed = FALSE,
                                  !.finished = TRUE, !.stopped = FALSE]]
          /\ summary' = [summary EXCEPT ![cur] = "ok"]
          /\ pc' = "pop" /\ UNCHANGED round
  /\ UNCHANGED <<flags, cur, phase, active, pool, raised, local, ctx_lock, rows,
                 watchdog, hist>>

(* _record_stop: the window's edge is no failure, any other stop is one,   *)
(* and a hard stop is marked.                                              *)
RecordStop ==
  \/ /\ WINDOW_STOP /\ ~ABORT
     /\ summary' = [summary EXCEPT ![cur] = "window"]
     /\ meta' = [meta EXCEPT ![cur] = [@ EXCEPT !.failed = FALSE, !.window = TRUE]]
  \/ /\ ~WINDOW_STOP /\ ~ABORT
     /\ summary' = [summary EXCEPT ![cur] = "stopped"]
     /\ meta' = [meta EXCEPT ![cur] =
                   [@ EXCEPT !.failed = TRUE, !.error = "stopped", !.finished = FALSE]]
  \/ /\ ABORT
     /\ summary' = [summary EXCEPT ![cur] = "stopped"]
     /\ meta' = [meta EXCEPT ![cur] =
                   [@ EXCEPT !.failed = TRUE, !.error = "stopped", !.finished = TRUE,
                             !.stopped = TRUE]]

RecordFailure ==
  /\ summary' = [summary EXCEPT ![cur] = "failed"]
  /\ meta' = [meta EXCEPT ![cur] =
                [@ EXCEPT !.failed = TRUE, !.finished = FALSE, !.error = raised]]

HandleError ==
  /\ pc = "except"
  /\ IF raised = "stopped" \/ ABORT THEN RecordStop ELSE RecordFailure
  /\ pc' = "pop"
  /\ UNCHANGED <<flags, where, pool, raised, local, ctx_lock, rows, watchdog,
                 hist>>

BreaksOnError(m) == summary[m] # "ok"                                 \* mutant
Breaks(m) == summary[m] \in {"stopped", "window"}

(* finally: ACTIVE.pop; a stop breaks the loop, anything else goes on.     *)
PopModel ==
  /\ pc = "pop"
  /\ active' = active \ {cur}
  /\ raised' = "none"
  /\ pc' = IF Breaks(cur) THEN "done" ELSE "next"
  /\ UNCHANGED <<flags, cur, round, phase, pool, local, ctx_lock, files, summary,
                 watchdog, hist>>

Main ==
  \/ Begin \/ NextModel \/ Load \/ FailModel \/ Warmup
  \/ (\E j \in Jobs : TakeFuture(j)) \/ LeavePool \/ EndPool \/ JoinWorkers
  \/ ReturnPool \/ FinishRound \/ HandleError \/ PopModel

-----------------------------------------------------------------------------
(* The end of a stopped process.                                           *)

(* The grace is over: mark_active_stopped.  The grace is long against the  *)
(* main thread's own steps, so it runs out only where that thread waits on *)
(* a server, on workers it joins, or on the rig being restored.            *)
Blocking == {"start", "load", "warmup", "drain", "done"}

MarkStopped ==
  /\ Running /\ watchdog = "armed" /\ pc \in Blocking
  /\ watchdog' = "marked"
  /\ meta' = [m \in Models |->
                IF m \in active
                THEN [meta[m] EXCEPT !.failed = TRUE, !.stopped = TRUE,
                                     !.finished = TRUE, !.error = "stopped"]
                ELSE meta[m]]
  /\ UNCHANGED <<flags, pc, where, pool, raised, local, ctx_lock, rows, summary,
                 hist>>

(* os._exit, by the watchdog or by _exit_after_stop.                       *)
Exit ==
  /\ Running
  /\ watchdog = "marked" \/ (pc = "done" /\ ABORT)
  /\ pc' = "exited"
  /\ UNCHANGED <<flags, where, pool, raised, local, ctx_lock, files, summary,
                 watchdog, hist>>

Environment == UserStop \/ CloseWindow \/ PassDeadline \/ Sigterm

Next ==
  \/ Environment
  \/ \E j \in Jobs : Worker(j)
  \/ Main
  \/ MarkStopped \/ Exit

Spec == Init /\ [][Next]_vars

(* The main thread's own waits are bounded in the code (load and lease     *)
(* waits have time limits, the pool is polled) and so is the grace; a      *)
(* worker may hang in a socket for good, so it is given no fairness.       *)
FairSpec == Spec /\ WF_vars(Main) /\ WF_vars(MarkStopped) /\ WF_vars(Exit)

-----------------------------------------------------------------------------
(* Properties.                                                             *)

Returned == pc \in {"done", "refused", "exited"}

(* A meta that says finished and not failed means every job of the run is  *)
(* on disk, however workers, stops and errors interleave -- unless the     *)
(* perf pool ended in an error, which _run_one_model throws away.          *)
FinishedIsComplete ==
  \A m \in Models :
    meta[m].finished /\ ~meta[m].failed /\ m \notin discarded
      => \A j \in Jobs : rows[m][j] # <<>>

(* A dead server costs a model at most the limit's failures and one more   *)
(* request per other slot: every worker that sees the counter at its limit *)
(* sets the abort event before its slot is free again.  (A model that the  *)
(* sanity rule has given up is left out: there persist raises before the   *)
(* worker comes to that, and the main thread sets the event a poll later.) *)
StormIsBounded ==
  sanity.empty < SanityAfter => consecutive <= MaxErrs - 1 + Workers

(* One model's failure is its own: when the batch returns and nobody asked *)
(* for a stop, every model was tried (the abort event is model-local       *)
(* because the global STOP would skip every later model).                  *)
NoModelSkipped ==
  pc = "done" /\ ~asked /\ ~ABORT => \A m \in Models : summary[m] # "none"

(* No worker of an earlier model or round is still at work when the main   *)
(* thread swaps the loaded model.                                          *)
NoStragglers ==
  pc = "load" => \A j \in Jobs : job[j] \notin Working

(* After SIGTERM the process ends, even with every worker hung for good.   *)
HardStopReturns == ABORT ~> pc \in {"refused", "exited"}

(* When requests end too, the batch returns by itself.                     *)
BatchReturns == (\A j \in Jobs : WF_vars(Worker(j))) => <>Returned

-----------------------------------------------------------------------------
(* What the documentation says of the program, and the code does not do.   *)

(* README: a model below the viability floor is aborted and recorded as    *)
(* FAILED.  The same without the exception for a discarded perf error.     *)
AbortedIsNotFinished ==
  \A m \in Models :
    meta[m].finished /\ ~meta[m].failed
      => \A j \in Jobs : rows[m][j] # <<>>

(* persist: a job that still returns after run_models gave up on it must   *)
(* not write a row behind the stopped meta.                                *)
NoRowBehindStoppedMeta ==
  [][\A m \in Models : meta[m].stopped => rows'[m] = rows[m]]_vars
=============================================================================

# CrucibleForge in TLA+

This directory is a verification project for CrucibleForge, a benchmark for
language models behind OpenAI-compatible servers, LM Studio and StudioForge
(the rig: one host whose GPU cards several clients share). Every module is
translated from the Python source under `src/crucibleforge/`; `PROJECT.json`
maps each definition to the lines it stands for, lists the runs, the mutants
that show each property can fail, the hazards, the findings and the theorems.

1. [The system](#1-the-system) - the inventory
2. [Plan](#2-plan)
3. [The modules](#3-the-modules) - state and actions against the code
4. [The runs](#4-the-runs) - what each shows, with which bounds
5. [Fairness](#5-fairness)
6. [The proofs](#6-the-proofs)
7. [Findings](#7-findings)
8. [What is not modelled](#8-what-is-not-modelled)

## 1. The system

A *run* takes a batch of models. For each model it asks the provider to make
the model resident, sends the profile's cases to it on a pool of threads,
grades the answers and appends one JSON row per (run, case, repeat, turn) to
`results/transcripts_<label>.jsonl`. A *judge phase* later reads the rows that
need a verdict, asks a judge model and appends the judged rows again. The
report is computed from the rows and from `results/meta_<label>.json`.

| Component (source) | State it keeps | Operations | Talks to |
|---|---|---|---|
| Board run (`runner.py`, `stopflag.py`) | `STOP`, `ABORT`, `WINDOW_STOP`, `GEN_DEADLINE`, `ACTIVE`; per round: the pool's futures, `abort` event, error counter, sanity and speed counters under `ctx.lock` | `run_models`, `_run_one_model`, `_run_pool`, `run_case_repeat`, `persist`, `_write_meta`, `_record_stop`, `mark_active_stopped` | provider (load), API client (requests), transcript store, meta file |
| Stop and exit (`cli.py`) | signal handlers, watchdog thread, `results/.rig.lock` | `request_stop`, `_stop_watchdog`, `_hard_exit`, `_exit_after_stop`, `acquire_rig_lock`, `release_all_leases` | board run through the flags, provider through its lease |
| Transcript store (`config.py`) | an append-only file per label | `append_transcript`, `load_transcripts` | every writer and reader of rows |
| Providers (`providers.py`, `studioforge.py`, `lms.py`) | `Provider._lease`, `lease`, `_vacated_render`, the keepalive thread, status caches, a cache of Provider objects | `switch_model`, `claim_devices`, `release_lease`, `restore`, `acquire_lease`, `release_stale_leases`, `vacate_render_leases` | the rig and the render tenant, both shared with other clients |
| Judge phase (`judge.py`) | pending rows read at the start, counts, the loaded judge | `run_judge`, `judge_row`, `run_rows`, `acquire_judge_lease` | transcript store, providers, API client |
| Recovery and escalation (`runner.py`) | records in the meta (`recovered`, `escalated`) | `recover_models`, `escalate_models`, `open_rungs`, `blocked_rungs`; per row the recovery of an empty answer | board run, meta file |
| bench-all (`bench_all.py`) | the nightly plan, window timers, notes | `plan`, `execute`, `_arm`, `_disarm`, `missing_cases` | every phase above, in one process |
| API client (`api.py`) | per call: attempts, held time | `stream_chat`, `stream_chat_retried` | the servers, the stop flag |
| Round planning (`runner.py`) | none | `plan_rounds`, `load_context`, `row_budget` | board run |
| Tiers and ladder (`cli.py`, `ladder.py`, `tiers.py`) | per climb: the jobs tried, the exit code | `_ladder_phases`, `ladder_todo`, `states`, `due` | board run, judge phase, shares of the report |
| GUI (`gui/server.py`) | one `JOB`, the loaded configuration | start, stop, save, reload | runs in its own process, without the rig lock |
| Accounts (`accounts.py`) | token file, reset sentinel | `rotate_token`, `consume_reset_sentinel` | GUI |
| Graders, code execution, reports, versions, profiles, pairwise | none that outlives a call | functions of rows and responses | the rows |

How they interact: threads of one process share the flags and `ctx.lock`;
processes share the results directory and the rig; the rig and the render
tenant answer over HTTP, so that every call can fail, be refused, be cut off or
succeed without its answer arriving. Three threads can end or record the same
run: the main thread, the watchdog of a hard stop, and a pool worker that sees
a fatal error.

What is hard, and what makes each component correct:

* **Board run.** Pool workers, a main thread that leaves the pool early, a
  watchdog and three kinds of stop race for the same meta and rows. Correct
  means: a meta that says *finished* stands for a complete set of rows; one
  model's failure is its own; no worker of an earlier round sends to the next
  model; a dead server costs a bounded number of failures; a stopped process
  ends even if every worker hangs.
* **Transcript store.** Writers are killed in the middle of a write. Correct
  means: to a reader the file is a map that every returned append updates and
  that nothing else changes.
* **GPU lease.** A lease outlives its process; grants, answers and deletes get
  lost; the render tenant must get its cards back. Correct means: a live run
  keeps its lease, a process that ends leaves none, leases are not stacked, and
  somebody alive owes the tenant its call.
* **Judge phase.** Rows read at the start are written hours later; one lost
  judge is noticed by several workers; failed verdicts are counted over phases
  that are stopped and killed; the cases are edited meanwhile. Correct means: no
  newer answer is overwritten, a stop leaves its rows pending, the judge is
  loaded once, a failing row is given up in the end, and a verdict's stamp says
  what it was judged against.
* **Escalation and bench-all.** Progress is rebuilt every night from files, and
  a timer's thread races the main thread at the end of each unit's window.
  Correct means: the nightly loop arrives at *nothing to do*, a case and a rung
  are tried a bounded number of times, a window's edge is not a failure, the
  judge keeps its time, and a stop ends the night.
* **API client and recovery.** Two retry budgets, a reload and up to two
  recovery requests nest in one row while a stop and the window arrive. Correct
  means: a failure is charged when the server earned it, one call meets a time
  ceiling once, a stop sends nothing new and writes nothing, and the row ends.
* **Round planning and ladder.** Correct means: every job is run in one round
  whose context fits it; the levels of the ladder open in order, and a climb
  that ends well has left nothing out.
* **GUI, accounts.** Commands as threads of one server, without the rig lock; a
  token that can be reset once.

`PROJECT.json` lists the hazards one by one with their lines; each names the
properties that watch it, or says why none does.

## 2. Plan

The modules in the order of their importance to the system's results; all are
written.

1. **ModelRun** (+ Proofs): the board run with its pool and its stops.
2. **ResultStore, Transcript** (+ Proofs): the abstract map of rows and the file
   that implements it.
3. **GpuLease** (+ Proofs): processes, rig and render tenant.
4. **JudgePhase** (+ Proofs): `run_judge` and its row workers over several
   phases and processes.
5. **Nightly** (+ Proofs): what a model still needs, over many nights of
   `bench-all` with escalation, judging, kills and edits between.
6. **BenchAll** (+ Proofs): one such night in its time window, minute by minute.
7. **Completion** (proofs in RowProofs): one row through retries, holds, reload
   and recovery.
8. **Climb** (+ Proofs): the ladder of `all`.
9. **Rounds** (proofs in RowProofs): the load rounds and their contexts.

How they fit together: each takes what the one below promises as one step.
Completion ends in the outcomes that ModelRun's jobs have; Rounds makes the
partition that ModelRun takes as its constant; a run of a model is one phase of
Nightly, BenchAll and Climb; JudgePhase's verdicts are Nightly's `Verdict`; and
JudgePhase and Nightly read the transcript as the map that ResultStore
specifies and Transcript implements.

Every safety property of these modules that a run checks is also proved; the
liveness properties stay with TLC (section 6). Left for later work: the parts
that section 8 lists as not modelled.

The modules avoid RECURSIVE operators throughout, so each can carry proofs.

## 3. The modules

### ModelRun: one board run

`ModelRun.tla` models `runner.run_models`, `_run_one_model`, `_run_pool`,
`run_case_repeat`, `persist`, `_record_stop` and `mark_active_stopped`, with
`cli.request_stop` and the watchdog. Variables are named after the code's
(`STOP`, `ABORT`, `WINDOW_STOP`, `abort`, `first_err`, `ctx_lock`, ...).

* The main thread is `pc`: `start` (before `STOP.clear()`), `next`, `load`,
  `warmup`, `pool` (the poll of `_run_pool`), `drain` (the join in its
  `finally`), `return`, `finish`, `except` (the handlers of `run_models`),
  `pop` (the `finally` that leaves `ACTIVE`), `done`.
* Each job of the profile is its future and its worker in one: `queued`, `gen`
  (a request under way), `persist` (waiting for `ctx.lock`), `write` (inside it,
  past the look at ABORT), then how it ended. `Workers` slots run at a time, one
  in the perf pool.
* Answers are what the rules of `persist` tell apart: fast, slow or empty
  completions, failures of the case, transport failures, and the transport
  failure that saw the counter at its limit (`storm`).
* `consecutive` is the code's counter, `sanity` and `samples` the two rules that
  give a model up, both kept while the lock is held.
* `asked` and `discarded` are history variables, read by properties only.

Two load rounds are modelled (narrow, wide), as `plan_rounds` makes them; which
job is in which round is a constant. The meta is written in one step.

### ResultStore and Transcript: the rows

`ResultStore.tla` is what users of the results directory rely on: a map, whose
puts take effect at one moment between call and return. `Transcript.tla` is the
file: complete `lines` and the `tail` behind the last newline. `append_transcript`
looks at the last byte (`Look`) and then writes (`Write`); a kill in the write
(`Tear`) leaves any of the pieces that matter: nothing, a part that does not
parse, a part that ends inside a character, or all but the newline.
`load_transcripts` is the operator `Content`, and it is also the refinement
mapping: `Implements == Store!Spec`.

### GpuLease: cards shared with others

`GpuLease.tla` has any number of CrucibleForge processes, each of which runs
once: it switches models, takes judge leases, and finishes, is stopped hard
(`HardExit`) or is killed (`Crash`). Each call to the rig is split where
another actor can come in between: the stale leases are released, the cards
claimed, the POST sent, granted by the rig, answered; a lease is forgotten,
deleted, the render tenant called back. The rig (`Grant`, `GrantLate`,
`Expire`) and the tenant (`Tenant`) are external: they do what the calls in
`studioforge.py` must expect of them. `Exclusive` is `results/.rig.lock`.
`leaked` and `forgotten` are history: they remember which calls were lost, so
that the properties can say *unless*.

`leases` with one set of cards: two leases stand side by side at the rig, as
they do for one holder in the code's own comments; the placement of models on
cards changes no lease and is left out.

### JudgePhase: verdicts for stored rows

`JudgePhase.tla` runs judge phases one after the other. `Begin` is `run_judge`
up to the first row: the pending rows are read (`NeedsVerdict`), the judge is
loaded, its canary passes for all or some of the rows, or the phase ends there.
`Cancel` and `Return` are `run_rows`, the other actions of a row its worker
`_one`: `Start`, `Answer` or `Lose` (how `judge_row` ends), `Check` and `Load`
under `reload_lock`, `Decide` (the look at `_halted` after a failed verdict),
`Append`. `job` is the future and the worker of a row in one, as in ModelRun.

* A row of the transcript is the generation of its answer, its verdict, the
  `attempts` and, for a good verdict, the `grading_revision` stamp.
* `halted` is what `_halted` asks: the stop event, ABORT and the deadline.
* `blind` is true while a load is under way because the judge's status could not
  be read; only then may a ready judge be loaded again.
* `grading` counts the edits of the case files; `elements` is the process-wide
  cache `_CASE_ELEMENTS`; `Exit` ends the process between two phases (each
  `judge` command is a process of its own, bench-all and the GUI are not).
* `Generate` is `recover`, `escalate` or a run writing the row anew. `Exclusive`
  says that this happens between phases only, which the rig lock gives.
* `against`, `cut` and `failures` are history, read by properties only.

### Nightly: from night to night

`Nightly.tla` follows one label. Its state is what survives a night: the newest
`rows` of each key with their run, rung, revision, ending and verdict, the
failed `escalated` records of the meta by rung, and the `revision` of each case.
The views are operators with the names of the code: `Board` and `Room`
(`report.board_filter`), `MissingCases`, `ErrorAttempts`, `BlockedRungs`,
`EscalationJobs`, `EscalationTodo`, `Pending`, `NothingToDo`. The night is
`Plan`, then the phases of `execute`: `Load` and `BoardRow`, `Escalate` (the
retry pass on the first rung, refused with either weight) and `RungRow`,
`Verdict`, `NightEnds`. `PhaseCut` is everything that ends a phase early,
`Sigterm` and `Crash` end the night, `Edit` changes a case between two nights.
Nights are with `--escalate`; the runs have one rung, as `profiles/bench.yaml`
has.

### BenchAll: one night in its window

`BenchAll.tla` is `execute` with `--until`: the units in their order (models,
the retry pass, ladder runs), each admitted by the arithmetic of class `Window`
(`Reserve`, `GenEnd`, `Fits`, `GenCut`), armed, run, disarmed. The timer's
thread (`Fire`) has three steps, past its cancel, `WINDOW_STOP`, `STOP`; so has
the main thread around it (`DisarmReads`, `DisarmClears`, `ClearStop` in
`run_models`). `GEN_DEADLINE` is `deadline`; `busy` is a row or a verdict in
flight, and it may hang until something cuts it. `pending` counts the rows that
wait for the judge, `ranOut` what the board's models ran out of tonight: the
retry pass runs those jobs and the plan's (`RowsOf`), while its admission, like
any other, counts the rows of its estimate only (`Planned`). The rows of a unit
may be more or fewer than planned, and an estimate that fails counts as none.
`Tick` is the clock in minutes: it goes on only while the
main thread is in something that takes time, a due timer fires and a request
past its deadline is dropped within the minute, and a timer that has begun is
through before `run_models` is entered (the link check in between takes far
longer than two assignments).

### Completion: one row

`Completion.tla` has the four layers a row's request goes through; the state is
one record, `job`, whose fields are the locals of those functions (`attempt`,
`held`, `reloaded`, `first`, ...) and a stage that says which request of `call`
it is. `Ask` to `Wake` are `stream_chat_retried` and the stream under it;
`Lose`, `Reload`, `Loaded` are `_chat`; `Take`, `Refused`, `Absorb` are `call`
and its recovery; `Fail` is the handlers of `run_case_repeat` in their order.
The other rows of the pool hold `reload_lock` for a while and may find that the
provider refuses the no-think field. `failed`, `waited`, `ceilings`, `late` and
`cut` are history, read by properties only.

### Climb: the ladder

`Climb.tla` has the newest row of each ladder job of each model, the shares
that follow from them (`SetShare`), what they unlock (`Unlocked`, `Due`) and
what a round runs (`LadderTodo`). `All` begins an invocation: the standard set is
run again as a whole, so its share may be any afterwards while the ladder rows of
earlier climbs stay on the board, and its judge phase also judges what those
left. `Run`, `Skip` and `Judge` are a round of `_ladder_phases`, `Stop` and `ProviderGone` end it. A run
writes rows for any part of its jobs, a judge phase verdicts for any part of
what waits.

### Rounds: contexts and budgets

`Rounds.tla` chooses what a run was asked for (`Run`: cases, registry context,
floor, tier, rung, kind of provider) in `Init`; `PlanRounds`, `Serve` and
`RunRows` are `plan_rounds`, the load and the budgets of the rows. The rig may
serve less than it was asked for. Sizes are in units of 256 tokens; the budgets
are those of `profiles/bench.yaml`. On a rung, the rung is the budget of each row
that has no fixed one, as `one_budget` makes it.

## 4. The runs

Each passing run's properties have a mutant of the code in `PROJECT.json`, an
edit such as a dropped guard under which TLC finds the property violated.

| Run | Instance | Shows |
|---|---|---|
| ModelRunRounds | one model; a perf probe, two narrow jobs, a wide one; two slots; limits 2 | types; FinishedIsComplete; HardStopReturns and BatchReturns (liveness) |
| ModelRunBatch | two models, two jobs, two slots | NoModelSkipped, NoStragglers across a model switch |
| ModelRunStorm | four interchangeable jobs on two slots, limit 2 (symmetry) | StormIsBounded |
| Transcript | two writers, keys and values, one writer at a time | types; the file implements ResultStore |
| GpuLease | two processes, two models, two leases, rig lock (symmetry) | types; HeldLeaseStands, NoStackedLease, ExitReleases, RenderHandedBack |
| JudgePhase | an ordinary row, a reference row that is empty at first; two workers, two attempts, three phases | types; CutStaysPending, NoStackedReload, FailureBudget, NothingOverwritten, PhaseEnds (liveness) |
| Nightly | a judged case, a case of two repeats; one rung, limits 2, one upset | AttemptsBounded, RetriedOnce; Converges (liveness) |
| NightlyReference | one of them reference-graded, no upset | violation of Converges |
| BenchAll | two models (one without an estimate), retry pass of tonight's jobs, ladder run; fifteen minutes | types; ReserveKept, CutIsNoFailure; StopHolds (of steps); Ends (liveness) |
| Completion | three attempts, a hold budget of three, two calls, two foreign reloads | FailureEarned, OneCeiling, CutLeavesNoRow, StopIsHeeded, RecoveryIsFree; RowEnds (liveness) |
| Climb | two models (symmetry), three sets on two levels, four questions, two climbs | ClimbedInOrder, ClimbComplete, RoundsSuffice |
| Rounds | any choice of nine kinds of cases, contexts, floor, tier, rung | EveryJobOnce, BudgetsHold, NarrowStaysNarrow |

Eleven more configurations are kept to reproduce findings; each names the one
property that its finding shows violated, and is run by hand:

| Configuration | Module | Violates |
|---|---|---|
| ModelRunPerfAbort, ModelRunLateRow | MCModelRun | AbortedIsNotFinished, NoRowBehindStoppedMeta |
| TranscriptTorn, TranscriptSplit | MCTranscript | TornLineIsSkipped, LastRowWins |
| GpuLeaseUnlocked | MCGpuLease | HeldLeaseStands, without the rig lock |
| JudgePhaseStamp | MCJudgePhase | StampIsTrue |
| BenchAllCut, BenchAllRetry | MCBenchAll | NeverFailed, ReserveForAll |
| CompletionReload | MCCompletion | HonestFirstKept |
| ClimbErrored, ClimbUnjudged | MCClimb | ErroredIsRerun, OthersAreJudged |

**Bounds.** ModelRun: the limits are 2 so that each rule is reached *and*
passed by rows of two workers; two slots are the least with a race, four jobs
the least that let a full pool fail twice. Liveness is checked without
symmetry. The counters of ModelRun need no cap: they are bounded by the
jobs. Transcript: `MaxLines` 3 bounds the lines a new append may find, so that
a torn part, its healing line, a row and a later row for the same key all fit.
GpuLease: `MaxLeases` 2 bounds the grants; two are a live lease and a leftover,
a stacked pair, or a lease and its successor. Each process runs once, so that
crash followed by a new run takes the two processes. JudgePhase: `MaxPhases` 3
is one more than the attempts, so that a row could be retried once too often;
`MaxGen` 1 lets a row be generated once between, `MaxEdits` 1 lets its case be
edited once; two rows and two workers race for the stop and the reload.

Nightly: `MaxUpsets` 1 bounds the nights that are cut short and the edits
together; the limits of 2 (attempts, rung failures, verdicts) are the code's
own. The number of nights has no bound: it is the limits that make
the states finite, which is what Converges is about. BenchAll: the clock stops
at `MaxNow`, one minute past the end of the window; the first model is longer
than the window and the constants are scaled so that each clause of the
arithmetic decides something (the oversize start, the reserve above and at its
floor, the deadline before and at the judge's cut). Completion: `MaxHint` 2 and
the hold budget 3 make holds that use the budget up exactly and in part;
`Turns` 2 is one call after another; `MaxOthers` 2 reloads by other rows.
Climb: `MaxRounds` 4 leaves room for one round more than RoundsSuffice allows;
two climbs let one take up what another left, also when the standard set is low
by then. Rounds: the sets are the values of
`bench.yaml` and values on either side of the comparisons.

CHECK_DEADLOCK is FALSE in every configuration: a batch ends, a file reaches
`MaxLines`, processes end, and so do phases, rows, rounds, climbs and a night;
Nightly stands still when there is nothing to do.

## 5. Fairness

Five modules state liveness.

* ModelRun's `FairSpec` asks weak fairness of the main thread's steps, of the
  watchdog and of the exit, since each of them is either computation, a polled
  wait (`_run_pool` polls) or a wait with a time limit (loads, leases, the
  grace). A worker may hang in a socket for good, so it has none:
  `HardStopReturns` holds even when no worker ever takes another step.
  `BatchReturns` adds fairness of the workers as its hypothesis, because a batch
  without a stop does wait for its requests. The user, the window and signals
  have no fairness: nobody has to stop a run.
* JudgePhase's `FairSpec` asks weak fairness of the main thread and of each
  row's worker: judge calls end within `row_timeout_s`, loads within the
  provider's limits, and a worker that waits for `reload_lock` waits for another
  worker only. The environment has none.
* Nightly: `WF(Night)`. A night comes while there is work, as a scheduled
  `bench-all` does, and each of its phases goes on; edits and cuts have no
  fairness and are bounded.
* BenchAll: `WF(Steady)`, the main thread, the timer and the clock. An answer, a
  verdict and every failure are left out of it: `Ends` holds even when each row
  and each verdict hangs until it is cut.
* Completion: `WF(Work)`, since each request has the read and wall limits and
  each wait a length, and `WF(OthersReloaded)`, the load of another row that
  holds the lock. Nobody has to stop the row.
* Transcript, GpuLease, Climb and Rounds state none. A climb and
  the rounds are loops over finite lists, bounded by RoundsSuffice and by the
  shape of the plan.

## 6. The proofs

TLAPS proves the following for all values of the constants that satisfy the
modules' assumptions (`ModelRunAssumption`, `TranscriptAssumption`,
`GpuLeaseAssumption`, `JudgePhaseAssumption`, `NightlyAssumption`,
`BenchAllAssumption`, `CompletionAssumption`, `ClimbAssumption`,
`RoundsAssumption`), which TLC evaluates in every run. One theorem has a
hypothesis more, `EnoughRounds` of Climb; MCClimb assumes it of its instance, so
that TLC evaluates it too.

* **ModelRunProofs**
  * `TypeCorrect`: TypeOK is strengthened by three facts to TypeInv: a job on
    its way to the transcript carries a row, the main thread is at some model
    wherever it uses `cur`, and there are no more slow samples than samples.
  * `NoStragglersHolds`: IdleInv says in which states of the main thread jobs
    may be queued or working. Once ABORT is set workers may be left behind,
    and then the main thread never gets to `start`, `load` or `warmup` again.
  * `NoModelSkippedHolds`: AskedInv ties every stop in the state (flag,
    future, exception, summary) to somebody having asked for one; TriedInv
    says that every model before `cur` has a summary.
  * `FinishedIsCompleteHolds`: PoolInv (what futures the main thread has
    taken), AbortInv (in the pool an `abort` event implies ABORT, a discarded
    perf error, or a job whose future carries the error), RowInv (a job that
    returned `ok` without an abort has a row) and MetaInv.
  * `StormIsBoundedHolds`: StormInv. `consecutive` alone is not inductive, since a
    job counts its failure (under the lock) before it raises the abort. So the
    invariant counts jobs: at most `Workers` are at work; while no abort has been
    raised, `consecutive` is at most MaxErrs - 1 and one for each job between its
    count and its abort; and from then on, as no job begins a request after
    ABORT, the count and the requests in flight together stay under the bound.
    A model that the sanity rule has given up is left out, as in the property.
* **TranscriptProofs**
  * `TypeCorrect`, without further assumption.
  * `FileImplementsStore`: `Sheltered => (Spec => Implements)` where Sheltered
    is one writer at a time and text in ASCII. The invariant says that only
    one writer is inside an append, that what it saw at the end of the file
    still holds, and that no line was cut inside a character. The lemmas
    LatestOfRow and LatestOfOther say what appending a line does to the
    reader's map.
* **GpuLeaseProofs**
  * `TypeCorrect`; `ExitReleasesHolds` from Holding (which lease a process has
    at each point) and Owned (each standing lease is held, in a call under
    way, leaked, or its process was killed); `RenderHandedBackHolds`, which is
    inductive over the types. These need no rig lock.
  * `HeldLeaseStandsHolds` and `NoStackedLeaseHolds` assume the rig lock
    (`Exclusive`): OneAlive says one process is alive; AnswerStands that a
    granted answer is still a lease; Fresh that after the release of stale
    leases none for this holder and model is left outside `leaked`.

* **JudgePhaseProofs**: one inductive invariant, a conjunct per property, and
  one lemma per conjunct.
  * `TypeCorrect`; `CutStaysPendingHolds` from Cut (a row cut short is at most
    on its way to Decide, with the phase halted).
  * `NoStackedReloadHolds` from Locked: a worker that loads holds
    `reload_lock`, and whoever holds it loads, so that one that finds it free
    sees the judge as the last one left it.
  * `FailureBudgetHolds` from Budget: the attempts on the stored row, and on the
    copy a worker holds, are at least its failures, and a row at work has one
    left. It needs no rig lock.
  * `NothingOverwrittenHolds` from Fresh: under the rig lock the copies of a
    phase are of the answers in the transcript.

* **NightlyProofs**
  * `TypeCorrect`; NumbersRise says that no row is newer than the newest run or
    the current revision.
  * `RetriedOnceHolds` from FreshJobs (a job still to be run has no row of this
    run) and DueJobs (in the retry pass the newest run of a job to do ran out
    below the rung): a second retry without a board run between would have to be
    of a job that was no longer due.
  * `AttemptsBoundedHolds` from JobsLeft: while a board run is under way, a case
    with jobs left has errored in fewer runs than the limit, or in this one
    too. The runs are counted, so the lemmas are about the cardinality of the
    set of runs (FewerRuns, SameErrors, BoardErrors). No bound on nights, upsets
    or edits is needed.
* **BenchAllProofs**: three invariants, each the one before and a part more.
  * `TypeCorrect` from Typed: the types, and where in the order of units the
    main thread can be at each point (Place).
  * `CutIsNeverAFailure` from InWindow and Excused. InWindow says what the timer
    has done: in an armed window it is due at the unit's end or has gone off, and
    past that minute `WINDOW_STOP` is set, so that a request dropped at
    `GEN_DEADLINE` (which is later by the grace, hence `Grace > 0`, as
    GEN_GRACE_MIN is 10) finds it set. Excused follows a run's exit code to
    where `disarm` and the main thread read it.
  * `ReserveIsKept` from Roomy: the unit's end was set for a number of rows,
    which what waits now and what the unit can still add exceed only by the
    unit's rows beyond its plan. The property therefore speaks of what the
    admission counts: the plan's judge list and the unit, less the rows of the
    unit that were handed out beyond the planned ones (`Uncounted`). It needs no
    hypothesis about plans; that the documents promise more (ReserveForAll) is in
    section 7. The rows that wait are a sum
    over units (`MapThenSumSet`); the laws of the sum come from the cardinality
    of a set of pairs (Cells), by an induction over finite sets written out with
    FS_StrictSubsetOrderingWellFounded and WFMin, because the library's induction
    theorems take an operator as parameter.
  * `StopHoldsAlways`, the action property, from one lemma for the main thread's
    steps (MainBegins) and one for the night's (NightBegins).
* **RowProofs**, first part: Rounds. Its steps are named `RoundsInit`,
  `RoundsNext`, `RoundsSpec` so that the two modules can be read together.
  * The largest number of a finite set is the folds' `Max`, known by its defining
    property once a largest one exists (MaxExists, the same induction);
    LoadUnion says that the context of two rounds together is the larger of the
    two, from which `NarrowStaysNarrowHolds` follows.
  * SharesInv: the rounds are the whole run, or its narrow and its wide part
    (Planned), and every round that is over has exactly one row of each job it
    selects, asked with the round's context (Filed). It gives
    `EveryJobOnceHolds`, `NarrowStaysNarrowHolds` and `SplitIsAsAssumed`: the
    two rounds partition the run in the way ModelRun's constants `Wide` and
    `Perf` are assumed to, which discharges that part of ModelRunAssumption.
  * `BudgetsAreKept`, a row at a time (NewRowIsWhole, NewRowFits). No budget is
    below `Minimum`, the 256 tokens the code never goes under: a fixed budget
    under it is sent as the minimum.
* **RowProofs**, second part: Completion. The five safety properties and
  `TypeCorrect` from one invariant, `TypeOK /\ Sound(job)`. Sound has a conjunct
  per counter: the history of failures and waits is what `attempt` and `held`
  say, a ceiling is the error in hand and the only one, a cut row is on its way
  out, and after the stop the one late request was already looked for. The lemmas
  follow the layers of the code: RequestSound, ReloadSound, CallSound.
* **ClimbProofs**
  * `TypeCorrect` and `ClimbedInOrderHolds`. The property is inductive over the
    types, within each climb and whatever rows it began with: a set whose share
    is high is not due (HighIsNotDue) and none of its rows waits for the judge
    (HighIsJudged), so that neither a run nor a judge phase of the climb changes
    it, and what is above it stays unlocked. The next invocation begins with no
    set tried: it may find the standard set low, and then nothing is run.
  * `RoundsAlwaysSuffice` from Rising: a round that goes on to the next has
    tried, for some model, a level nothing of which was tried before, and the
    levels are finitely many.
  * `ClimbIsComplete` from Climbed: a round in which nothing ran ends the climb,
    and then what is due has rows. It assumes `EnoughRounds`: fewer levels than
    MAX_LADDER_ROUNDS, which the code says a working profile never reaches.

`(SUBSET X) \ Y` and the like carry their parentheses in every module: tlapm and
SANY give the prefix operators another precedence.

Only model-checked: HardStopReturns, BatchReturns, PhaseEnds, Converges, Ends and
RowEnds (liveness under fairness is outside the prover's reach), and the
violations, which are counterexamples.

## 7. Findings

`PROJECT.json` quotes the sentence of the repository each disagrees with.

Shown by a run or by one of the configurations of section 4:

* a judge that fails on a reference-graded row is asked again every night, for
  ever, because the attempts are not kept (NightlyReference);
* a model aborted in its perf pool is recorded finished (ModelRunPerfAbort), and
  a row lands behind the stopped meta (ModelRunLateRow);
* a write cut inside a character hides the whole file (TranscriptTorn), a row
  with U+2028 is never read back (TranscriptSplit);
* without the rig lock, as in a run of the GUI, a live run's lease is released as
  stale (GpuLeaseUnlocked);
* a verdict judged against the elements a process has cached is stamped with the
  hash of the edited case, and so is never redone (JudgePhaseStamp);
* the window's edge in the perf warm-up makes a model FAILED (BenchAllCut);
* what runs out of budget tonight is retried the same night without judge time
  reserved for it (BenchAllRetry): the pass counts the plan's jobs alone;
* a reload that fails inside a recovery request costs the first answer and the
  whole model (CompletionReload);
* one model's failure keeps the judge from the other models' ladder rows
  (ClimbUnjudged), and an errored ladder row whose set has a share is never run
  again (ClimbErrored).

Met while modelling:

* the keepalive thread is never started again, and a judge lease has none; a
  render tenant whose vacate timed out is not resumed; a configuration saved
  during a GUI job hides the job's lease from `release_all_leases`;
* a stop before `STOP.clear()` is lost, the user's and the window's; a worker that
  waits for `reload_lock` still loads the judge after a stop; waits, loads and
  the canary of the judge do not look at the window's deadline;
* a SIGTERM counts as a failure of an escalation rung; with two rungs the plan
  is never done, nor is it without `--escalate`; a retry that errored is not due
  again; errored repeats count as attempts, and a re-run can replace a repeat
  that had passed;
* the reserve before a ladder run does not count all rows that wait; an
  unreachable provider ends `all` in the climb without a report;
* for a hosted provider the context that rows are checked against is one that
  was never loaded.

The passing properties state what does hold next to these: FinishedIsComplete
excepts the discarded perf error, HeldLeaseStands speaks of a lease with a live
keepalive, RenderHandedBack excepts a wait given up, Converges is stated without
reference rows and for one rung, CutIsNoFailure is about the exit code and not
the meta, RecoveryIsFree excepts the failed reload, ReserveKept is about
the rows an admission counts.

## 8. What is not modelled

* **GUI.** Its server runs the commands modelled here as threads of one process.
  What it changes is that it takes no rig lock (GpuLeaseUnlocked) and that a
  saved configuration drops the provider cache; the second makes two providers
  of one process, against which no document promises anything. The handlers
  themselves are HTTP and HTML.
* **Accounts.** A token file and a sentinel, used one after the other at start.
* **In ModelRun**: the grading of a row, the requests inside a job (Completion
  has them), the entry points for recovery and tiers, and the write of the meta
  file as more than one step (Nightly has a torn meta).
* **In GpuLease**: which cards a model fits, loads and evictions, LM Studio, and
  a process' second run. The rig may grant a second lease to the same holder, as
  the code's comments report, and does not itself end a lease in use.
* **In JudgePhase**: the choice of the judge and its back-off, the samples of one
  row (one call here) and re-judging for more of them, the panel of judges,
  and the order of the rows. The judge server is either ready or gone.
* **In Nightly**: several labels (they share nothing but the night), the
  stand-alone `recover`, the rungs above the first, edits during a night.
* **In BenchAll**: why a unit takes its time; `estimate.py` is arithmetic, its
  numbers are constants here and may be wrong. That the waiting rows themselves
  cannot be read, which the code counts as none, is left out.
* **In Completion**: how a stream is read, and the clocks of its watchdog; a row
  that is skipped or finds its model evicted before it starts.
* **In Climb**: several sub-scores (they climb independently), escalation, the
  tiers: one pass over the models without a loop.
* **Graders, code execution, reports, headline, revision hashes, profiles,
  the LM Studio command line, the OpenClaw import, pairwise comparison and the
  repository's scripts**: sequential functions of text, files or one subprocess,
  without a protocol; the repository's unit tests reach them. They are also most
  of the repository's lines, together with the GUI, the cases and the tests,
  so the map covers a small part of the whole and the larger part of the code
  that runs concurrently, over time or across processes.

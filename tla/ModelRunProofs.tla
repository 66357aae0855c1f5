--------------------------- MODULE ModelRunProofs ---------------------------
(* Proofs about ModelRun, for every batch, profile, number of slots and    *)
(* every limit: type correctness, no stragglers at a model switch, no      *)
(* model skipped, a finished meta means a complete transcript, and a dead  *)
(* server costs a bounded number of failures.                              *)
EXTENDS ModelRun, FiniteSetTheorems, TLAPS

-----------------------------------------------------------------------------
(* Type correctness.                                                       *)

(* A result that is on its way to the transcript is a row of some kind.    *)
Carried == \A j \in Jobs : job[j] \in {"persist", "write"} => result[j] # "none"

(* Away from the ends of the batch the main thread is at some model.       *)
AtModel ==
  cur = 0 => pc \in {"start", "next", "done", "refused", "exited"}

(* The gate has never seen more slow samples than samples.                 *)
TypeInv ==
  /\ TypeOK
  /\ samples.slow <= samples.n
  /\ Carried
  /\ AtModel

(* TypeInv holds at first, and (below) each group of variables keeps its   *)
(* type in every step.                                                     *)
LEMMA TypeInit == Init => TypeInv
<1> SUFFICES ASSUME Init PROVE TypeInv
  OBVIOUS
<1> USE ModelRunAssumption DEF Init, ModelRunAssumption
<1>1. FlagsOK
  BY DEF FlagsOK
<1>2. MainOK
  BY DEF MainOK
<1>3. PoolOK
  BY DEF PoolOK, Waiting
<1>4. LocalOK
  BY DEF LocalOK
<1>5. FilesOK
  BY DEF FilesOK, Metas, NewMeta
<1>6. samples.slow <= samples.n /\ Carried /\ AtModel
  BY DEF Carried, AtModel
<1> QED
  BY <1>1, <1>3, <1>5, <1>6, <1>4, <1>2 DEF TypeInv, TypeOK

LEMMA FlagsStep == FlagsOK /\ [Next]_vars => FlagsOK'
<1> SUFFICES ASSUME FlagsOK, [Next]_vars PROVE FlagsOK'
  OBVIOUS
<1>1. \/ Environment \/ Begin \/ MarkStopped
      \/ \E j \in Jobs : EnterPersist(j) \/ WritePersist(j) \/ TakeFuture(j)
      \/ Load
      \/ UNCHANGED <<flags, watchdog, asked, abort>>
  BY DEF Next, Main, Worker, vars, flags, hist, local, Start, Complete, RejectCase,
     FailTransport, DropAtDeadline, FailReload, NextModel, FailModel, Warmup,
     LeavePool, EndPool, JoinWorkers, ReturnPool, FinishRound, HandleError, PopModel,
     Exit
<1>2. ASSUME NEW j \in Jobs, EnterPersist(j) \/ WritePersist(j) \/ TakeFuture(j)
      PROVE  FlagsOK'
  <2>1. UNCHANGED <<flags, watchdog, asked>> /\ abort' \in BOOLEAN
    BY <1>2 DEF FlagsOK, flags, hist, EnterPersist, WritePersist, TakeFuture
  <2> QED
    BY <2>1 DEF FlagsOK, flags
<1>3. CASE Load
  BY <1>3 DEF FlagsOK, flags, hist, Load
<1>4. CASE Environment \/ Begin \/ MarkStopped
  BY <1>4 DEF FlagsOK, flags, hist, local, Environment, UserStop, CloseWindow,
     PassDeadline, Sigterm, Begin, MarkStopped
<1>5. CASE UNCHANGED <<flags, watchdog, asked, abort>>
  BY <1>5 DEF FlagsOK, flags
<1> QED
  BY <1>1, <1>2, <1>3, <1>4, <1>5

LEMMA MainStep ==
  MainOK /\ AtModel /\ PoolOK /\ [Next]_vars => MainOK' /\ AtModel'
<1> SUFFICES ASSUME MainOK, AtModel, PoolOK, [Next]_vars PROVE MainOK' /\ AtModel'
  OBVIOUS
<1> USE ModelRunAssumption
    DEF ModelRunAssumption, MainOK, AtModel, PoolOK, where, hist
<1>1. CASE Main
  <2>1. CASE Begin \/ LeavePool \/ EndPool \/ JoinWorkers
    BY <2>1 DEF Begin, LeavePool, EndPool, JoinWorkers
  <2>2. CASE NextModel
    <3>1. UNCHANGED <<phase, raised, summary, discarded>>
      BY <2>2 DEF NextModel
    <3>2. \/ pc' = "done" /\ UNCHANGED <<cur, round, active>>
          \/ /\ cur # NModels /\ pc' = "load" /\ cur' = cur + 1 /\ round' = 1
             /\ active' = active \cup {cur + 1}
      BY <2>2 DEF NextModel
    <3>3. cur' \in 0 .. NModels
      BY <3>2
    <3>4. active' \subseteq Models
      <4>1. cur # NModels => cur + 1 \in Models
        BY DEF Models
      <4> QED
        BY <3>2, <4>1
    <3>5. AtModel'
      BY <3>2
    <3> QED
      BY <3>1, <3>2, <3>3, <3>4, <3>5
  <2>3. CASE Load \/ Warmup
    BY <2>3 DEF Load, Warmup, Submit
  <2>4. CASE FailModel \/ \E j \in Jobs : TakeFuture(j)
    BY <2>4 DEF FailModel, TakeFuture, AfterPool
  <2>5. CASE ReturnPool
    <3>1. /\ UNCHANGED <<cur, round, active, summary>>
          /\ pc = "return" /\ pc' \in {"finish", "pool", "except"}
          /\ phase' \in {phase, "main"}
          /\ discarded' \subseteq discarded \cup {cur}
      BY <2>5 DEF ReturnPool, PerfReturns, MainReturns, PoolRaises, Submit
    <3>2. raised' \in {raised, "stopped", first_err}
      BY <2>5 DEF ReturnPool, PerfReturns, MainReturns, PoolRaises, PoolError
    <3> QED
      BY <3>1, <3>2 DEF Models
  <2>6. CASE FinishRound
    BY <2>6 DEF FinishRound, Rounds
  <2>7. CASE HandleError
    BY <2>7 DEF HandleError, RecordStop, RecordFailure
  <2>8. CASE PopModel
    BY <2>8 DEF PopModel
  <2> QED
    BY <1>1, <2>1, <2>2, <2>3, <2>4, <2>5, <2>6, <2>7, <2>8 DEF Main
<1>2. CASE Exit
  BY <1>2 DEF Exit
<1>3. CASE UNCHANGED <<pc, where, raised, summary, discarded>>
  BY <1>3
<1> QED
  BY <1>1, <1>2, <1>3 DEF Next, Worker, vars, Environment, UserStop,
     CloseWindow, PassDeadline, Sigterm, Start, Complete, RejectCase, FailTransport,
     DropAtDeadline, FailReload, EnterPersist, WritePersist, MarkStopped

LEMMA PoolStep == PoolOK /\ [Next]_vars => PoolOK'
<1> SUFFICES ASSUME PoolOK, [Next]_vars PROVE PoolOK'
  OBVIOUS
<1> USE DEF PoolOK, pool, Waiting, Working, Settled, Results, RowKinds, Completions
<1>1. ASSUME NEW j \in Jobs, Start(j) \/ Complete(j) \/ RejectCase(j)
      PROVE  PoolOK'
  BY <1>1 DEF Start, Complete, RejectCase, FirstStep
<1>2. ASSUME NEW j \in Jobs, FailTransport(j) \/ DropAtDeadline(j) \/ FailReload(j)
      PROVE  PoolOK'
  BY <1>2 DEF FailTransport, DropAtDeadline, FailReload
<1>3. ASSUME NEW j \in Jobs, EnterPersist(j) \/ WritePersist(j)
      PROVE  PoolOK'
  BY <1>3 DEF EnterPersist, WritePersist, AfterPersist
<1>4. ASSUME NEW j \in Jobs, TakeFuture(j)
      PROVE  PoolOK'
  BY <1>4 DEF TakeFuture, Cancel
<1>5. CASE LeavePool
  BY <1>5 DEF LeavePool, Cancel
<1>6. CASE Load \/ Warmup
  BY <1>6 DEF Load, Warmup, Submit
<1>7. CASE ReturnPool
  BY <1>7 DEF ReturnPool, PerfReturns, MainReturns, PoolRaises, Submit
<1>8. CASE UNCHANGED pool
  BY <1>8
<1> QED
  BY <1>1, <1>2, <1>3, <1>4, <1>5, <1>6, <1>7, <1>8
  DEF Next, Main, Worker, vars, Environment, UserStop, CloseWindow, PassDeadline,
      Sigterm, Begin, NextModel, FailModel, EndPool, JoinWorkers, FinishRound,
      HandleError, PopModel, MarkStopped, Exit

LEMMA LocalStep ==
  LocalOK /\ samples.slow <= samples.n /\ PoolOK /\ [Next]_vars
    => LocalOK' /\ samples'.slow <= samples'.n
<1> SUFFICES ASSUME LocalOK, samples.slow <= samples.n, PoolOK, [Next]_vars
             PROVE  LocalOK' /\ samples'.slow <= samples'.n
  OBVIOUS
<1> USE DEF LocalOK, local
<1>1. ASSUME NEW j \in Jobs,
             Complete(j) \/ FailTransport(j) \/ EnterPersist(j)
      PROVE  LocalOK' /\ samples'.slow <= samples'.n
  <2>1. /\ consecutive' \in {0, consecutive, consecutive + 1}
        /\ ctx_lock' \in {j, ctx_lock}
        /\ UNCHANGED <<sanity, samples>>
    BY <1>1 DEF Complete, FailTransport, EnterPersist
  <2> QED
    BY <2>1
<1>2. ASSUME NEW j \in Jobs, WritePersist(j)
      PROVE  LocalOK' /\ samples'.slow <= samples'.n
  <2>1. /\ sanity' = CountCompletion(RowOf(j))
        /\ samples' \in {samples, Sample(RowOf(j))}
        /\ ctx_lock' = NoJob /\ consecutive' = consecutive
    BY <1>2 DEF WritePersist, Unlock
  <2>2. CountCompletion(RowOf(j)) \in [total : Nat, empty : Nat]
    BY DEF CountCompletion
  <2>3. /\ Sample(RowOf(j)) \in [n : 0 .. 2, slow : 0 .. 2]
        /\ Sample(RowOf(j)).slow <= Sample(RowOf(j)).n
    BY DEF Sample
  <2> QED
    BY <2>1, <2>2, <2>3
<1>3. ASSUME NEW j \in Jobs, TakeFuture(j)
      PROVE  LocalOK' /\ samples'.slow <= samples'.n
  BY <1>3 DEF TakeFuture
<1>4. CASE Load
  BY <1>4 DEF Load
<1>5. CASE UNCHANGED <<local, ctx_lock>>
  BY <1>5
<1> QED
  BY <1>1, <1>2, <1>3, <1>4, <1>5
  DEF Next, Main, Worker, vars, Environment, UserStop, CloseWindow, PassDeadline,
      Sigterm, Begin, NextModel, FailModel, EndPool, JoinWorkers, FinishRound,
      HandleError, PopModel, MarkStopped, Exit, Start, RejectCase, DropAtDeadline,
      FailReload, Warmup, LeavePool, ReturnPool

LEMMA CarriedStep == PoolOK /\ Carried /\ [Next]_vars => Carried'
<1> SUFFICES ASSUME PoolOK, Carried, [Next]_vars PROVE Carried'
  OBVIOUS
<1> USE DEF PoolOK, Carried, pool
<1>1. ASSUME NEW j \in Jobs, Worker(j)
      PROVE  Carried'
  BY <1>1 DEF Worker, Start, Complete, RejectCase, FailTransport, DropAtDeadline,
     FailReload, EnterPersist, WritePersist, FirstStep, AfterPersist, Completions
<1>2. ASSUME NEW j \in Jobs, TakeFuture(j)
      PROVE  Carried'
  BY <1>2 DEF TakeFuture, Cancel
<1>3. CASE LeavePool \/ Load \/ Warmup
  BY <1>3 DEF LeavePool, Cancel, Load, Warmup, Submit
<1>4. CASE ReturnPool
  BY <1>4 DEF ReturnPool, PerfReturns, MainReturns, PoolRaises, Submit
<1>5. CASE UNCHANGED pool
  BY <1>5
<1> QED
  BY <1>1, <1>2, <1>3, <1>4, <1>5
  DEF Next, Main, vars, Environment, UserStop, CloseWindow, PassDeadline,
      Sigterm, Begin, NextModel, FailModel, EndPool, JoinWorkers, FinishRound,
      HandleError, PopModel, MarkStopped, Exit

LEMMA FilesStep == TypeInv /\ [Next]_vars => FilesOK'
<1> SUFFICES ASSUME TypeInv, [Next]_vars PROVE FilesOK'
  OBVIOUS
<1>0. FilesOK /\ MainOK /\ PoolOK /\ FlagsOK
  BY DEF TypeInv, TypeOK
<1> USE DEF files
<1>1. ASSUME NEW j \in Jobs, WritePersist(j)
      PROVE  FilesOK'
  <2>1. RowOf(j) \in RowKinds
    BY <1>0, <1>1 DEF TypeInv, Carried, PoolOK, WritePersist, RowOf, Results,
       RowKinds
  <2>2. rows' = [rows EXCEPT ![cur][j] = Append(rows[cur][j], RowOf(j))]
    BY <1>1 DEF WritePersist
  <2>3. cur \in Models => rows[cur] \in [Jobs -> Seq(RowKinds)]
    BY <1>0 DEF FilesOK
  <2>4. cur \in Models => Append(rows[cur][j], RowOf(j)) \in Seq(RowKinds)
    BY <2>1, <2>3
  <2>5. rows' \in [Models -> [Jobs -> Seq(RowKinds)]]
    BY <1>0, <2>2, <2>3, <2>4 DEF FilesOK
  <2> QED
    BY <1>0, <1>1, <2>5 DEF FilesOK, WritePersist
<1>2. CASE Load
  <2>1. rows' = rows /\ (meta' = meta \/ meta' = [meta EXCEPT ![cur] = NewMeta])
    BY <1>2 DEF Load
  <2>2. NewMeta \in Metas
    BY DEF NewMeta, Metas
  <2> QED
    BY <1>0, <2>1, <2>2 DEF FilesOK
<1>3. CASE FinishRound
  <2>0. round \in 0 .. 2
    BY <1>0 DEF MainOK
  <2>1. meta[cur] \in Metas
    BY <1>0, <1>3 DEF FilesOK, MainOK, TypeInv, AtModel, FinishRound, Models
  <2>2. PICK r \in Metas : r = meta[cur]
    BY <2>1
  <2>3. [r EXCEPT !.round = round, !.failed = FALSE] \in Metas
    BY <2>0 DEF Metas
  <2>4. [r EXCEPT !.round = round, !.failed = FALSE, !.finished = TRUE,
                  !.stopped = FALSE] \in Metas
    BY <2>0 DEF Metas
  <2>5. \E s \in Metas : meta' = [meta EXCEPT ![cur] = s] /\ rows' = rows
    BY <1>3, <2>2, <2>3, <2>4 DEF FinishRound
  <2> QED
    BY <1>0, <2>5 DEF FilesOK
<1>4. CASE HandleError
  <2>0. raised \in {"none", "stopped", "model", "load", "closed"}
    BY <1>0 DEF MainOK
  <2>1. meta[cur] \in Metas
    BY <1>0, <1>4 DEF FilesOK, MainOK, TypeInv, AtModel, HandleError, Models
  <2>2. PICK r \in Metas : r = meta[cur]
    BY <2>1
  <2>3. [r EXCEPT !.failed = FALSE, !.window = TRUE] \in Metas
    BY DEF Metas
  <2>4. [r EXCEPT !.failed = TRUE, !.error = "stopped", !.finished = FALSE] \in Metas
    BY DEF Metas
  <2>5. [r EXCEPT !.failed = TRUE, !.error = "stopped", !.finished = TRUE,
                  !.stopped = TRUE] \in Metas
    BY DEF Metas
  <2>6. [r EXCEPT !.failed = TRUE, !.finished = FALSE, !.error = raised] \in Metas
    BY <2>0 DEF Metas
  <2>7. \E s \in Metas : meta' = [meta EXCEPT ![cur] = s] /\ rows' = rows
    BY <1>4, <2>2, <2>3, <2>4, <2>5, <2>6 DEF HandleError, RecordStop, RecordFailure
  <2> QED
    BY <1>0, <2>7 DEF FilesOK
<1>5. CASE MarkStopped
  BY <1>0, <1>5 DEF FilesOK, MarkStopped, Metas
<1>6. CASE UNCHANGED files
  BY <1>0, <1>6 DEF FilesOK
<1> QED
  BY <1>1, <1>2, <1>3, <1>4, <1>5, <1>6
  DEF Next, Main, Worker, vars, Environment, UserStop, CloseWindow, PassDeadline,
      Sigterm, Begin, NextModel, FailModel, EndPool, JoinWorkers, TakeFuture,
      PopModel, Exit, Start, Complete, RejectCase, DropAtDeadline, FailTransport,
      FailReload, EnterPersist, Warmup, LeavePool, ReturnPool

LEMMA TypeStep == TypeInv /\ [Next]_vars => TypeInv'
BY FlagsStep, MainStep, PoolStep, LocalStep, CarriedStep, FilesStep
DEF TypeInv, TypeOK

(* Every variable keeps its type: the state of a model run is well formed  *)
(* in every reachable state.                                               *)
THEOREM TypeCorrect == Spec => []TypeOK
<1>1. TypeInv => TypeOK
  BY DEF TypeInv
<1> QED
  BY TypeInit, TypeStep, <1>1, PTL DEF Spec

-----------------------------------------------------------------------------
(* No stragglers.  Away from the pool the workers are idle, unless a hard  *)
(* stop made the main thread leave them behind; then it never loads again. *)

Unfinished == Working \cup {"queued"}
Idle == \A j \in Jobs : job[j] \notin Unfinished
PoolStates == {"pool", "drain", "return"}

IdleInv ==
  /\ watchdog # "off" => ABORT
  /\ pc \in {"start", "load", "warmup"} => Idle
  /\ pc \notin {"pool", "drain"} => Idle \/ ABORT
  /\ pc \in {"pool", "drain"} =>
       ABORT \/ \A j \in Jobs \ PoolJobs : job[j] \notin Unfinished
  /\ pc = "drain" => \A j \in Jobs : job[j] # "queued"
  /\ pc \in PoolStates => \A j \in taken : job[j] \in Settled
  /\ pc = "finish" /\ round < Rounds => Idle
  /\ pc \in PoolStates /\ phase = "perf" => round = 1
  /\ pc = "warmup" => round = 1

(* A worker moves its own job towards its end, and nothing of the main     *)
(* thread's.                                                               *)
LEMMA WorkerStep ==
  ASSUME PoolOK, NEW j \in Jobs, Worker(j)
  PROVE  /\ UNCHANGED <<flags, pc, where, taken, first_err, raised, meta, summary,
                        watchdog, hist>>
         /\ job[j] \in Unfinished
         /\ job'[j] \in Working \cup Settled
         /\ \A k \in Jobs \ {j} : job'[k] = job[k]
<1>1. UNCHANGED <<flags, pc, where, taken, first_err, raised, meta, summary,
                  watchdog, hist>>
  BY DEF Worker, files, Start, Complete, RejectCase, FailTransport, DropAtDeadline,
     FailReload, EnterPersist, WritePersist
<1>2. job[j] \in Unfinished
  BY DEF Worker, Unfinished, Working, Start, Complete, RejectCase, FailTransport,
     DropAtDeadline, FailReload, EnterPersist, WritePersist
<1>3. \E v \in Working \cup Settled : job' = [job EXCEPT ![j] = v]
  BY DEF Worker, Working, Settled, Start, Complete, RejectCase, FailTransport,
     DropAtDeadline, FailReload, EnterPersist, WritePersist, FirstStep, AfterPersist
<1> QED
  BY <1>1, <1>2, <1>3 DEF PoolOK

(* The environment only asks for a stop.                                   *)
LEMMA EnvironmentStep ==
  ASSUME FlagsOK, Environment
  PROVE  /\ UNCHANGED <<pc, where, pool, raised, local, ctx_lock, files, summary,
                        discarded>>
         /\ ABORT => ABORT'
         /\ watchdog' # watchdog => ABORT'
BY DEF FlagsOK, Environment, UserStop, CloseWindow, PassDeadline, Sigterm, hist

LEMMA IdleStep == TypeInv /\ IdleInv /\ [Next]_vars => IdleInv'
<1> SUFFICES ASSUME TypeInv, IdleInv, [Next]_vars PROVE IdleInv'
  OBVIOUS
<1>0. FlagsOK /\ MainOK /\ PoolOK
  BY DEF TypeInv, TypeOK
<1> USE DEF IdleInv, Idle, PoolStates, PoolJobs
<1>1. CASE Environment
  BY <1>0, <1>1, EnvironmentStep DEF where, pool
<1>2. ASSUME NEW j \in Jobs, Worker(j)
      PROVE  IdleInv'
  BY <1>0, <1>2, WorkerStep
  DEF flags, where, Unfinished, Working, Settled, MainOK, PoolOK
<1>3. CASE Main
  <2> USE DEF where, flags
  <2>1. CASE Begin \/ NextModel
    BY <1>0, <2>1 DEF Begin, NextModel, pool, MainOK
  <2>2. CASE Load \/ Warmup
    BY <2>2 DEF Load, Warmup, Submit, Unfinished, Working, pool
  <2>3. CASE FailModel
    BY <2>3 DEF FailModel, pool
  <2>4. ASSUME NEW j \in Jobs, TakeFuture(j)
        PROVE  IdleInv'
    BY <1>0, <2>4 DEF TakeFuture, Cancel, AfterPool, Unfinished, Working, Settled, MainOK,
       PoolOK
  <2>5. CASE LeavePool
    BY <1>0, <2>5 DEF LeavePool, Cancel, Settled, MainOK, PoolOK
  <2>6. CASE EndPool
    BY <2>6 DEF EndPool, pool, Unfinished, Working, Settled
  <2>7. CASE JoinWorkers
    BY <2>7 DEF JoinWorkers, pool, Busy, Unfinished
  <2>8. CASE ReturnPool
    <3>1. CASE PerfReturns
      BY <2>8, <3>1, ModelRunAssumption DEF ModelRunAssumption, ReturnPool,
         PerfReturns, Submit, Unfinished, Working, MainJobs, JobsOf, Rounds
    <3>2. CASE MainReturns
      BY <2>8, <3>2 DEF ReturnPool, MainReturns, PoolError, pool
    <3>3. CASE PoolRaises
      BY <2>8, <3>3 DEF ReturnPool, PoolRaises, pool
    <3> QED
      BY <2>8, <3>1, <3>2, <3>3 DEF ReturnPool
  <2>9. CASE FinishRound
    BY <2>9 DEF FinishRound, pool
  <2>10. CASE HandleError \/ PopModel
    BY <2>10 DEF HandleError, PopModel, pool
  <2> QED
    BY <1>3, <2>1, <2>2, <2>3, <2>4, <2>5, <2>6, <2>7, <2>8, <2>9, <2>10 DEF Main
<1>4. CASE MarkStopped \/ Exit
  BY <1>4 DEF MarkStopped, Exit, pool, where, flags
<1>5. CASE UNCHANGED vars
  BY <1>5 DEF vars, pool, where, flags
<1> QED
  BY <1>1, <1>2, <1>3, <1>4, <1>5 DEF Next

(* Whenever the main thread is about to swap the loaded model -- for the   *)
(* next round or the next model -- no worker is still asking the old one.  *)
THEOREM NoStragglersHolds == Spec => []NoStragglers
<1>1. Init => IdleInv
  BY DEF Init, IdleInv, Idle, Unfinished, Working, PoolStates
<1>2. IdleInv => NoStragglers
  BY DEF IdleInv, Idle, NoStragglers, Unfinished
<1> QED
  BY TypeInit, TypeStep, IdleStep, <1>1, <1>2, PTL DEF Spec

-----------------------------------------------------------------------------
(* No model skipped.  Whatever says "stopped" was asked to.                *)

AskedInv ==
  \/ asked \/ ABORT
  \/ /\ ~STOP /\ ~WINDOW_STOP /\ ~deadline
     /\ \A j \in Jobs : job[j] # "stopped"
     /\ first_err # "stopped" /\ raised \notin {"stopped", "closed"}
     /\ \A m \in Models : summary[m] \notin {"stopped", "window"}

TriedInv ==
  /\ \A m \in Models :
       m < cur \/ (m = cur /\ pc \in {"next", "pop", "done"}) => summary[m] # "none"
  /\ pc = "done" => asked \/ ABORT \/ cur = NModels
  /\ pc = "start" => cur = 0

(* A stop that was asked for stays asked for.                              *)
LEMMA AskedStays ==
  FlagsOK /\ PoolOK /\ [Next]_vars => (asked \/ ABORT => asked' \/ ABORT')
<1> SUFFICES ASSUME FlagsOK, PoolOK, [Next]_vars, asked \/ ABORT
             PROVE  asked' \/ ABORT'
  OBVIOUS
<1>1. CASE Environment
  BY <1>1 DEF Environment, UserStop, CloseWindow, PassDeadline, Sigterm, hist
<1>2. ASSUME NEW j \in Jobs, Worker(j)
      PROVE  asked' \/ ABORT'
  BY <1>2, WorkerStep DEF flags, hist
<1>3. CASE Main \/ MarkStopped \/ Exit \/ UNCHANGED vars
  <2>1. asked' = asked /\ ABORT' = ABORT
    BY <1>3 DEF Main, vars, flags, hist, Begin, NextModel, Load, FailModel, Warmup,
       TakeFuture, LeavePool, EndPool, JoinWorkers, ReturnPool, FinishRound,
       HandleError, PopModel, MarkStopped, Exit
  <2> QED
    BY <2>1
<1> QED
  BY <1>1, <1>2, <1>3 DEF Next

LEMMA AskedStep == TypeInv /\ AskedInv /\ [Next]_vars => AskedInv'
<1> SUFFICES ASSUME TypeInv, AskedInv, [Next]_vars, ~asked, ~ABORT,
                    ~asked', ~ABORT'
             PROVE  AskedInv'
  BY AskedStays DEF TypeInv, TypeOK, AskedInv
<1>0. FlagsOK /\ MainOK /\ PoolOK
  BY DEF TypeInv, TypeOK
<1> USE DEF AskedInv
<1>1. CASE Environment
  BY <1>1 DEF Environment, UserStop, CloseWindow, PassDeadline, Sigterm
<1>2. ASSUME NEW j \in Jobs, Worker(j)
      PROVE  AskedInv'
  <2>1. UNCHANGED <<STOP, WINDOW_STOP, deadline, first_err, raised, summary>>
        /\ \A k \in Jobs \ {j} : job'[k] = job[k]
    BY <1>0, <1>2, WorkerStep DEF flags
  <2>2. job'[j] # "stopped"
    BY <1>0, <1>2 DEF PoolOK, Worker, Start, Complete, RejectCase, FailTransport,
       DropAtDeadline, FailReload, EnterPersist, WritePersist, FirstStep, AfterPersist
  <2> QED
    BY <2>1, <2>2
<1>3. CASE Main
  <2> USE DEF where, flags, pool, hist
  <2>1. CASE Begin \/ NextModel \/ EndPool \/ JoinWorkers
    BY <2>1 DEF Begin, NextModel, EndPool, JoinWorkers
  <2>2. CASE Load \/ Warmup \/ FailModel
    BY <2>2 DEF Load, Warmup, FailModel, Submit
  <2>3. ASSUME NEW j \in Jobs, TakeFuture(j)
        PROVE  AskedInv'
    BY <2>3 DEF TakeFuture, Cancel
  <2>4. CASE LeavePool
    BY <2>4 DEF LeavePool
  <2>5. CASE ReturnPool
    <3>1. UNCHANGED <<flags, summary>>
      BY <2>5 DEF ReturnPool
    <3>2. raised' \in {raised, first_err} /\ first_err' \in {"none", first_err}
      BY <2>5 DEF ReturnPool, PerfReturns, MainReturns, PoolRaises, PoolError, Submit
    <3>3. \A j \in Jobs : job'[j] \in {"queued", job[j]}
      BY <2>5 DEF ReturnPool, PerfReturns, MainReturns, PoolRaises, Submit
    <3> QED
      BY <1>0, <3>1, <3>2, <3>3 DEF MainOK, PoolOK
  <2>6. CASE FinishRound
    BY <1>0, <2>6 DEF FinishRound, MainOK
  <2>7. CASE HandleError
    BY <1>0, <2>7 DEF HandleError, RecordStop, RecordFailure, MainOK
  <2>8. CASE PopModel
    BY <2>8 DEF PopModel
  <2> QED
    BY <1>3, <2>1, <2>2, <2>3, <2>4, <2>5, <2>6, <2>7, <2>8 DEF Main
<1>4. CASE MarkStopped \/ Exit
  BY <1>4 DEF MarkStopped, Exit, flags, pool
<1>5. CASE UNCHANGED vars
  BY <1>5 DEF vars, flags, pool
<1> QED
  BY <1>1, <1>2, <1>3, <1>4, <1>5 DEF Next

LEMMA TriedStep == TypeInv /\ AskedInv /\ TriedInv /\ [Next]_vars => TriedInv'
<1> SUFFICES ASSUME TypeInv, AskedInv, TriedInv, [Next]_vars PROVE TriedInv'
  OBVIOUS
<1>0. FlagsOK /\ MainOK /\ PoolOK /\ AtModel
  BY DEF TypeInv, TypeOK
<1>1. asked \/ ABORT => asked' \/ ABORT'
  BY <1>0, AskedStays
<1> USE DEF TriedInv
<1>2. CASE Environment
  BY <1>0, <1>2, <1>1, EnvironmentStep DEF where
<1>3. ASSUME NEW j \in Jobs, Worker(j)
      PROVE  TriedInv'
  BY <1>0, <1>3, <1>1, WorkerStep DEF where
<1>4. CASE Main
  <2>1. CASE NextModel
    <3>1. CASE STOP \/ ABORT \/ cur = NModels
      <4>1. pc = "next" /\ pc' = "done" /\ UNCHANGED <<cur, summary>>
        BY <2>1, <3>1 DEF NextModel
      <4>2. cur = NModels \/ asked \/ ABORT
        BY <3>1 DEF AskedInv
      <4> QED
        BY <1>1, <4>1, <4>2
    <3>2. CASE ~(STOP \/ ABORT \/ cur = NModels)
      <4>1. pc = "next" /\ pc' = "load" /\ cur' = cur + 1 /\ UNCHANGED summary
        BY <2>1, <3>2 DEF NextModel
      <4>2. \A m \in Models : m < cur + 1 => m < cur \/ m = cur
        BY <1>0 DEF MainOK, Models
      <4> QED
        BY <4>1, <4>2 DEF MainOK, Models
    <3> QED
      BY <3>1, <3>2
  <2>2. CASE FinishRound
    <3>1. pc = "finish" /\ cur' = cur /\ pc' # "done"
          /\ (pc' # "pop" => summary' = summary /\ pc' = "load")
          /\ (pc' = "pop" => summary' = [summary EXCEPT ![cur] = "ok"])
      BY <2>2 DEF FinishRound
    <3> QED
      BY <1>0, <3>1 DEF MainOK, Models
  <2>3. CASE HandleError
    <3>1. /\ pc = "except" /\ cur' = cur /\ pc' = "pop"
          /\ \E v \in {"stopped", "window", "failed"} :
               summary' = [summary EXCEPT ![cur] = v]
      BY <2>3 DEF HandleError, RecordStop, RecordFailure, where
    <3> QED
      BY <1>0, <3>1 DEF MainOK, Models
  <2>4. CASE PopModel
    <3>1. pc = "pop" /\ UNCHANGED <<cur, summary>> /\ pc' \in {"next", "done"}
      BY <2>4 DEF PopModel
    <3>2. pc' = "done" => asked \/ ABORT
      <4>1. pc = "pop" => cur \in Models
        BY <1>0 DEF MainOK, AtModel, Models
      <4> QED
        BY <2>4, <4>1 DEF PopModel, Breaks, AskedInv
    <3> QED
      BY <1>1, <3>1, <3>2
  <2>5. CASE ~(NextModel \/ FinishRound \/ HandleError \/ PopModel)
    <3>1. UNCHANGED <<cur, summary>> /\ pc' \notin {"done", "start"}
          /\ (pc' \in {"next", "pop"} => pc = "start")
      BY <1>4, <2>5 DEF Main, where, Begin, Load, FailModel, Warmup, TakeFuture,
         LeavePool, EndPool, JoinWorkers, ReturnPool, PerfReturns, MainReturns,
         PoolRaises, AfterPool
    <3>2. pc = "start" => cur = 0
      BY DEF TriedInv
    <3> QED
      BY <1>0, <3>1, <3>2 DEF MainOK, Models
  <2> QED
    BY <2>1, <2>2, <2>3, <2>4, <2>5
<1>5. CASE MarkStopped \/ Exit
  BY <1>5, <1>1 DEF MarkStopped, Exit, where
<1>6. CASE UNCHANGED vars
  BY <1>6, <1>1 DEF vars, where
<1> QED
  BY <1>2, <1>3, <1>4, <1>5, <1>6 DEF Next

(* A batch that returns without anybody having asked for a stop has tried  *)
(* every model: one model's errors are its own.                            *)
THEOREM NoModelSkippedHolds == Spec => []NoModelSkipped
<1>1. Init => AskedInv /\ TriedInv
  BY ModelRunAssumption DEF ModelRunAssumption, Init, AskedInv, TriedInv, Models
<1>2. TypeInv /\ TriedInv => NoModelSkipped
  BY DEF TypeInv, TypeOK, MainOK, TriedInv, NoModelSkipped, Models
<1> QED
  BY TypeInit, TypeStep, AskedStep, TriedStep, <1>1, <1>2, PTL DEF Spec

-----------------------------------------------------------------------------
(* A finished meta is complete.                                            *)

Written(j) == rows[cur][j] # <<>>

(* The pool: a future the main thread took is settled, one it took without *)
(* noticing an error returned, and the pool ends with every future taken.  *)
PoolInv ==
  /\ pc \in {"start", "next", "load", "warmup", "pool", "finish"} => raised = "none"
  /\ pc = "drain" => raised # "none"
  /\ pc \in PoolStates /\ raised = "none" /\ first_err = "none"
       => \A j \in taken : job[j] = "ok"
  /\ pc = "return" /\ raised = "none" /\ ~ABORT => taken = PoolJobs

(* Who drains the queue answers for it: the abort event is only ever set   *)
(* by a job that ends in a ModelRunError.                                  *)
AbortInv ==
  /\ pc = "warmup" => ~abort
  /\ pc \in PoolStates /\ abort
       => ABORT \/ cur \in discarded \/ \E k \in PoolJobs : job[k] = "model"

RowInv ==
  /\ pc \in PoolStates /\ ~ABORT /\ cur \notin discarded
       => \A j \in PoolJobs : job[j] = "ok" => abort \/ Written(j)
  /\ pc \in PoolStates \cup {"finish"} /\ phase = "main" /\ round = 1
     /\ cur \notin discarded => \A j \in Perf : Written(j)
  /\ pc = "finish" /\ cur \notin discarded => \A j \in JobsOf(round) : Written(j)
  /\ round = 2 /\ cur # 0 /\ cur \notin discarded => \A j \in JobsOf(1) : Written(j)

MetaInv ==
  /\ \A m \in Models : meta[m].finished /\ ~ABORT =>
       \/ m < cur
       \/ m = cur /\ pc \in {"pop", "next", "done", "refused", "exited"}
  /\ pc = "finish" /\ round < Rounds => ~meta[cur].finished

LEMMA PoolInvStep == TypeInv /\ IdleInv /\ PoolInv /\ [Next]_vars => PoolInv'
<1> SUFFICES ASSUME TypeInv, IdleInv, PoolInv, [Next]_vars PROVE PoolInv'
  OBVIOUS
<1>0. FlagsOK /\ MainOK /\ PoolOK
  BY DEF TypeInv, TypeOK
<1> USE DEF PoolInv, PoolStates, PoolJobs
<1>1. CASE Environment
  BY <1>0, <1>1, EnvironmentStep DEF where, pool
<1>2. ASSUME NEW j \in Jobs, Worker(j)
      PROVE  PoolInv'
  <2>1. j \in taken => pc \notin PoolStates
    BY <1>0, <1>2, WorkerStep DEF IdleInv, Unfinished, Working, Settled
  <2> QED
    BY <1>0, <1>2, <2>1, WorkerStep DEF PoolOK, flags, where
<1>3. CASE Main
  <2> USE DEF where, flags
  <2>1. CASE Begin \/ NextModel \/ FailModel \/ JoinWorkers
    BY <2>1 DEF Begin, NextModel, FailModel, JoinWorkers, pool
  <2>2. CASE Load \/ Warmup
    BY <2>2 DEF Load, Warmup, Submit, pool
  <2>3. ASSUME NEW j \in Jobs, TakeFuture(j)
        PROVE  PoolInv'
    BY <1>0, <2>3 DEF TakeFuture, Cancel, AfterPool, Settled, MainOK, PoolOK
  <2>4. CASE LeavePool
    BY <1>0, <2>4 DEF LeavePool
  <2>5. CASE EndPool
    BY <2>5 DEF EndPool, pool
  <2>6. CASE ReturnPool
    BY <2>6 DEF ReturnPool, PerfReturns, MainReturns, PoolRaises, PoolError, Submit, pool
  <2>7. CASE FinishRound \/ HandleError \/ PopModel
    BY <2>7 DEF FinishRound, HandleError, PopModel, pool
  <2> QED
    BY <1>3, <2>1, <2>2, <2>3, <2>4, <2>5, <2>6, <2>7 DEF Main
<1>4. CASE MarkStopped \/ Exit
  BY <1>4 DEF MarkStopped, Exit, pool, where, flags
<1>5. CASE UNCHANGED vars
  BY <1>5 DEF vars, pool, where, flags
<1> QED
  BY <1>1, <1>2, <1>3, <1>4, <1>5 DEF Next

LEMMA PoolSubset == PoolJobs \subseteq Jobs
BY ModelRunAssumption DEF ModelRunAssumption, PoolJobs, MainJobs, JobsOf

(* What the main thread relies on when a pool returns without an error.    *)
LEMMA PoolIsOk ==
  ASSUME PoolInv, pc = "return", raised = "none", PoolError = "none"
  PROVE  ~ABORT /\ \A j \in PoolJobs : job[j] = "ok"
BY DEF PoolInv, PoolError, PoolStates

LEMMA AbortStep ==
  TypeInv /\ IdleInv /\ PoolInv /\ AbortInv /\ [Next]_vars => AbortInv'
<1> SUFFICES ASSUME TypeInv, IdleInv, PoolInv, AbortInv, [Next]_vars PROVE AbortInv'
  OBVIOUS
<1>0. FlagsOK /\ MainOK /\ PoolOK
  BY DEF TypeInv, TypeOK
<1> USE DEF AbortInv, PoolStates, PoolJobs, MainJobs, JobsOf
<1>1. CASE Environment
  BY <1>0, <1>1, EnvironmentStep DEF where, pool, local
<1>2. ASSUME NEW j \in Jobs, Worker(j)
      PROVE  AbortInv'
  <2>1. UNCHANGED <<ABORT, pc, cur, round, phase, discarded>>
        /\ \A k \in Jobs \ {j} : job'[k] = job[k]
    BY <1>0, <1>2, WorkerStep DEF flags, where, hist
  <2>2. job[j] \in Unfinished
    BY <1>0, <1>2, WorkerStep
  <2>3. abort' => abort \/ job'[j] = "model"
    BY <1>0, <1>2 DEF PoolOK, FlagsOK, Worker, local, Start, Complete, RejectCase,
       FailTransport, DropAtDeadline, FailReload, EnterPersist, WritePersist, SetsAbort,
       AfterPersist
  <2>4. pc # "warmup"
    BY <2>2 DEF IdleInv, Idle
  <2>5. pc \in PoolStates => ABORT \/ j \in PoolJobs
    BY <2>2 DEF IdleInv, Idle
  <2>6. job[j] # "model"
    BY <2>2 DEF Unfinished, Working
  <2>7. \A k \in PoolJobs : job[k] = "model" => job'[k] = "model"
    BY <2>1, <2>6, PoolSubset
  <2> QED
    BY <2>1, <2>3, <2>4, <2>5, <2>7
<1>3. CASE Main
  <2> USE DEF where, flags
  <2>1. CASE Begin \/ NextModel \/ FailModel \/ EndPool \/ JoinWorkers
    <3>1. pc' \notin {"warmup", "pool", "drain"}
      BY <2>1 DEF Begin, NextModel, FailModel, EndPool, JoinWorkers
    <3>2. pc' = "return" => /\ pc \in PoolStates
                           /\ UNCHANGED <<ABORT, abort, cur, round, phase, job, discarded>>
      BY <2>1 DEF Begin, NextModel, FailModel, EndPool, JoinWorkers, pool, local, hist
    <3> QED
      BY <3>1, <3>2
  <2>2. CASE Load
    BY <2>2 DEF Load
  <2>3. CASE Warmup
    BY <2>3 DEF Warmup, local
  <2>4. ASSUME NEW j \in Jobs, TakeFuture(j)
        PROVE  AbortInv'
    <3>1. \A k \in Jobs : job[k] = "model" => job'[k] = "model"
      BY <1>0, <2>4 DEF TakeFuture, Cancel, PoolOK
    <3>2. /\ UNCHANGED <<ABORT, cur, round, phase, discarded>>
          /\ pc = "pool" /\ pc' # "warmup" /\ j \in PoolJobs
          /\ abort' => abort \/ job[j] = "model"
      BY <2>4 DEF TakeFuture, hist, AfterPool
    <3> QED
      BY <3>1, <3>2, PoolSubset
  <2>5. CASE LeavePool
    <3>1. pc' = "return" /\ ABORT'
      BY <2>5 DEF LeavePool
    <3> QED
      BY <3>1
  <2>6. CASE ReturnPool
    <3>1. UNCHANGED <<ABORT, cur, round, abort>> /\ pc = "return"
      BY <2>6 DEF ReturnPool, local
    <3>2. CASE PerfReturns /\ PoolError = "none"
      <4>1. \A k \in PoolJobs : job[k] # "model"
        BY <3>1, <3>2, PoolIsOk DEF PerfReturns
      <4>2. abort => ABORT \/ cur \in discarded
        BY <3>1, <4>1
      <4>3. pc' # "warmup" /\ discarded' = discarded
        BY <3>2 DEF PerfReturns
      <4> QED
        BY <3>1, <4>2, <4>3
    <3>3. CASE PerfReturns /\ PoolError # "none"
      BY <2>6, <3>1, <3>3 DEF ReturnPool, PerfReturns
    <3>4. CASE MainReturns \/ PoolRaises
      BY <2>6, <3>1, <3>4 DEF ReturnPool, MainReturns, PoolRaises
    <3> QED
      BY <2>6, <3>2, <3>3, <3>4 DEF ReturnPool
  <2>7. CASE FinishRound \/ HandleError \/ PopModel
    BY <2>7 DEF FinishRound, HandleError, PopModel
  <2> QED
    BY <1>3, <2>1, <2>2, <2>3, <2>4, <2>5, <2>6, <2>7 DEF Main
<1>4. CASE MarkStopped \/ Exit
  <2>1. pc' \in {pc, "exited"}
        /\ UNCHANGED <<ABORT, abort, cur, round, phase, job, discarded>>
    BY <1>4 DEF MarkStopped, Exit, pool, where, flags, local, hist
  <2> QED
    BY <2>1
<1>5. CASE UNCHANGED vars
  BY <1>5 DEF vars, pool, where, flags, local, hist
<1> QED
  BY <1>1, <1>2, <1>3, <1>4, <1>5 DEF Next

(* The transcript only grows.                                              *)
LEMMA RowsGrow ==
  ASSUME TypeInv, [Next]_vars, NEW m \in Models, NEW j \in Jobs, rows[m][j] # <<>>
  PROVE  rows'[m][j] # <<>>
<1>0. FilesOK
  BY DEF TypeInv, TypeOK
<1>1. ASSUME NEW k \in Jobs, WritePersist(k)
      PROVE  rows'[m][j] # <<>>
  <2>1. rows' = [rows EXCEPT ![cur][k] = Append(rows[cur][k], RowOf(k))]
    BY <1>1 DEF WritePersist
  <2>2. rows[m][j] \in Seq(RowKinds)
    BY <1>0 DEF FilesOK
  <2>3. Append(rows[m][j], RowOf(k)) # <<>>
    BY <2>2
  <2> QED
    BY <1>0, <2>1, <2>3 DEF FilesOK
<1>2. CASE UNCHANGED rows
  BY <1>2
<1> QED
  BY <1>1, <1>2
  DEF Next, Main, Worker, vars, files, Environment, UserStop, CloseWindow, PassDeadline,
      Sigterm, Begin, NextModel, Load, FailModel, EndPool, JoinWorkers, TakeFuture,
      FinishRound, HandleError, PopModel, MarkStopped, Exit, Start, Complete, RejectCase,
      DropAtDeadline, FailTransport, FailReload, EnterPersist, Warmup, LeavePool,
      ReturnPool

(* A job that a worker brings to "ok" has its row, unless the queue was    *)
(* being drained or a hard stop dropped it.                                *)
LEMMA OkHasRow ==
  ASSUME TypeInv, cur # 0, NEW j \in Jobs, Worker(j), ~ABORT, job'[j] = "ok"
  PROVE  abort' \/ rows'[cur][j] # <<>>
<1>0. FilesOK /\ PoolOK /\ MainOK
  BY DEF TypeInv, TypeOK
<1>1. CASE Start(j)
  BY <1>0, <1>1 DEF Start, FirstStep, PoolOK, local
<1>2. CASE EnterPersist(j)
  BY <1>0, <1>2 DEF EnterPersist, PoolOK
<1>3. CASE WritePersist(j)
  <2>1. rows' = [rows EXCEPT ![cur][j] = Append(rows[cur][j], RowOf(j))]
    BY <1>3 DEF WritePersist
  <2>2. cur \in Models
    BY <1>0 DEF MainOK, Models
  <2>3. rows[cur][j] \in Seq(RowKinds)
    BY <1>0, <2>2 DEF FilesOK
  <2>4. Append(rows[cur][j], RowOf(j)) # <<>>
    BY <2>3
  <2> QED
    BY <1>0, <2>1, <2>2, <2>4 DEF FilesOK
<1> QED
  BY <1>0, <1>1, <1>2, <1>3 DEF Worker, PoolOK, Complete, RejectCase, FailTransport,
     DropAtDeadline, FailReload

LEMMA RowStep ==
  TypeInv /\ IdleInv /\ PoolInv /\ AbortInv /\ RowInv /\ [Next]_vars => RowInv'
<1> SUFFICES ASSUME TypeInv, IdleInv, PoolInv, AbortInv, RowInv, [Next]_vars
             PROVE  RowInv'
  OBVIOUS
<1>0. FlagsOK /\ MainOK /\ PoolOK /\ AtModel
  BY DEF TypeInv, TypeOK
<1>a. cur # 0 => cur \in Models
  BY <1>0 DEF MainOK, Models
<1>b. pc \in PoolStates \cup {"finish"} => cur # 0
  BY <1>0 DEF AtModel, PoolStates
<1>c. \A j \in Jobs : cur # 0 /\ cur' = cur /\ Written(j) => Written(j)'
  BY <1>a, RowsGrow DEF Written
<1>d. Perf \subseteq Jobs /\ JobsOf(1) \subseteq Jobs /\ JobsOf(round) \subseteq Jobs
  BY ModelRunAssumption DEF ModelRunAssumption, JobsOf
<1>e. /\ JobsOf(1) = Perf \cup MainJobs(1)
      /\ JobsOf(2) = MainJobs(2)
  BY ModelRunAssumption DEF ModelRunAssumption, JobsOf, MainJobs
<1> USE DEF RowInv, PoolStates
<1>1. CASE UNCHANGED <<pc, cur, round, phase, job, abort, rows, discarded>>
           /\ (ABORT => ABORT')
  BY <1>1 DEF PoolJobs, MainJobs, JobsOf, Written
<1>2. ASSUME NEW j \in Jobs, Worker(j)
      PROVE  RowInv'
  <2>1. UNCHANGED <<ABORT, pc, cur, round, phase, discarded>>
        /\ \A k \in Jobs \ {j} : job'[k] = job[k]
    BY <1>0, <1>2, WorkerStep DEF flags, where, hist
  <2>2. abort => abort'
    BY <1>0, <1>2 DEF FlagsOK, Worker, local, Start, Complete, RejectCase, FailTransport,
       DropAtDeadline, FailReload, EnterPersist, WritePersist
  <2>3. cur # 0 /\ ~ABORT /\ job'[j] = "ok" => abort' \/ Written(j)'
    BY <1>2, <2>1, OkHasRow DEF Written
  <2>4. PoolJobs' = PoolJobs /\ JobsOf(round)' = JobsOf(round) /\ JobsOf(1)' = JobsOf(1)
    BY <2>1 DEF PoolJobs, MainJobs, JobsOf
  <2>5. pc' \in PoolStates /\ ~ABORT' /\ cur' \notin discarded'
          => \A k \in PoolJobs : job'[k] = "ok" => abort' \/ Written(k)'
    BY <1>b, <1>c, <2>1, <2>2, <2>3, PoolSubset
  <2>6. /\ pc' \in PoolStates \cup {"finish"} /\ phase' = "main" /\ round' = 1
           /\ cur' \notin discarded' => \A k \in Perf : Written(k)'
        /\ pc' = "finish" /\ cur' \notin discarded' => \A k \in JobsOf(round) : Written(k)'
        /\ round' = 2 /\ cur' # 0 /\ cur' \notin discarded'
             => \A k \in JobsOf(1) : Written(k)'
    BY <1>b, <1>c, <1>d, <2>1
  <2> QED
    BY <2>4, <2>5, <2>6
<1>3. CASE Main
  <2> USE DEF where, flags
  <2>0. UNCHANGED rows
    BY <1>3 DEF Main, Begin, NextModel, Load, FailModel, Warmup, TakeFuture, LeavePool,
       EndPool, JoinWorkers, ReturnPool, FinishRound, HandleError, PopModel, files
  <2>1. CASE Begin \/ NextModel \/ FailModel \/ HandleError \/ PopModel
    <3>1. /\ pc' \notin PoolStates \cup {"finish"}
          /\ (round' = 2 => UNCHANGED <<cur, round, discarded>>)
      BY <2>1 DEF Begin, NextModel, FailModel, HandleError, PopModel, hist
    <3> QED
      BY <2>0, <3>1 DEF Written, JobsOf
  <2>2. CASE Load
    <3>1. /\ UNCHANGED <<cur, round, discarded>>
          /\ pc' \in {"warmup", "finish", "pool"}
          /\ pc' \in {"pool", "finish"} =>
               /\ phase' = "main" /\ (round = 1 => Perf = {})
               /\ \A k \in MainJobs(round) : job'[k] = "queued"
          /\ pc' = "finish" => MainJobs(round) = {}
      BY <1>d, <2>2, PoolSubset DEF Load, Submit, hist, MainJobs
    <3>2. pc' = "finish" => JobsOf(round) = {}
      BY <1>0, <1>e, <3>1 DEF MainOK
    <3> QED
      BY <2>0, <3>1, <3>2 DEF Written, JobsOf, PoolJobs, MainJobs
  <2>3. CASE Warmup
    <3>1. /\ UNCHANGED <<cur, round, discarded>>
          /\ pc' = "pool" /\ phase' = "perf"
          /\ \A k \in Perf : job'[k] = "queued"
      BY <1>d, <2>3 DEF Warmup, Submit, hist
    <3> QED
      BY <2>0, <3>1 DEF Written, JobsOf, PoolJobs
  <2>4. ASSUME NEW j \in Jobs, TakeFuture(j)
        PROVE  RowInv'
    <3>1. /\ UNCHANGED <<ABORT, cur, round, phase, discarded>>
          /\ pc = "pool" /\ pc' \in PoolStates
          /\ \A k \in Jobs : job'[k] = "ok" => job[k] = "ok"
      BY <1>0, <2>4 DEF TakeFuture, Cancel, AfterPool, hist, PoolOK
    <3>2. abort => abort'
      BY <1>0, <2>4 DEF TakeFuture
    <3> QED
      BY <2>0, <3>1, <3>2, PoolSubset DEF Written, JobsOf, PoolJobs, MainJobs
  <2>5. CASE LeavePool
    <3>1. ABORT' /\ UNCHANGED <<cur, round, phase, discarded>>
          /\ pc = "pool" /\ pc' = "return"
      BY <2>5 DEF LeavePool, hist
    <3> QED
      BY <2>0, <3>1 DEF Written, JobsOf
  <2>6. CASE EndPool \/ JoinWorkers
    <3>1. UNCHANGED <<ABORT, abort, cur, round, phase, job, discarded>>
          /\ pc \in PoolStates /\ pc' = "return"
      BY <2>6 DEF EndPool, JoinWorkers, hist, local, pool
    <3> QED
      BY <2>0, <3>1 DEF Written, JobsOf, PoolJobs, MainJobs
  <2>7. CASE ReturnPool
    <3>1. UNCHANGED <<ABORT, cur, round>> /\ pc = "return" /\ discarded \subseteq discarded'
      BY <2>7 DEF ReturnPool, PerfReturns, MainReturns, PoolRaises
    <3>2. CASE PerfReturns /\ PoolError # "none"
      <4>1. cur' \in discarded'
        BY <3>1, <3>2 DEF PerfReturns
      <4> QED
        BY <4>1
    <3>3. CASE PerfReturns /\ PoolError = "none"
      <4>1. PoolJobs = Perf /\ round = 1
        BY <3>1, <3>3 DEF PerfReturns, PoolJobs, IdleInv
      <4>2. ~ABORT /\ \A k \in Perf : job[k] = "ok"
        BY <3>1, <3>3, <4>1, PoolIsOk DEF PerfReturns
      <4>3. cur \notin discarded => ~abort
        BY <3>1, <4>1, <4>2 DEF AbortInv
      <4>4. cur \notin discarded => \A k \in Perf : Written(k)
        BY <3>1, <4>1, <4>2, <4>3
      <4>5. /\ phase' = "main" /\ UNCHANGED discarded
            /\ \A k \in MainJobs(round) : job'[k] = "queued"
            /\ pc' = "finish" => MainJobs(round) = {}
            /\ pc' \in {"pool", "finish"}
        BY <1>d, <3>3 DEF PerfReturns, Submit, MainJobs
      <4>6. pc' = "finish" => JobsOf(round) = Perf
        BY <1>e, <4>1, <4>5
      <4> QED
        BY <2>0, <3>1, <4>1, <4>4, <4>5, <4>6 DEF Written, JobsOf, PoolJobs, MainJobs
    <3>4. CASE MainReturns /\ PoolError = "none"
      <4>1. PoolJobs = MainJobs(round) /\ phase = "main"
            /\ pc' = "finish" /\ UNCHANGED <<phase, discarded>>
        BY <3>4 DEF MainReturns, PoolJobs
      <4>2. ~ABORT /\ \A k \in MainJobs(round) : job[k] = "ok"
        BY <3>1, <3>4, <4>1, PoolIsOk DEF MainReturns
      <4>3. cur \notin discarded => ~abort
        BY <3>1, <4>1, <4>2 DEF AbortInv
      <4>4. cur \notin discarded => \A k \in MainJobs(round) : Written(k)
        BY <3>1, <4>1, <4>2, <4>3
      <4>5. cur \notin discarded => \A k \in JobsOf(round) : Written(k)
        BY <1>0, <1>e, <3>1, <4>1, <4>4 DEF MainOK
      <4> QED
        BY <2>0, <3>1, <4>1, <4>5 DEF Written, JobsOf
    <3>5. CASE (MainReturns /\ PoolError # "none") \/ PoolRaises
      <4>1. pc' = "except" /\ UNCHANGED <<phase, discarded>>
        BY <3>5 DEF MainReturns, PoolRaises
      <4> QED
        BY <2>0, <3>1, <4>1 DEF Written, JobsOf
    <3> QED
      BY <2>7, <3>2, <3>3, <3>4, <3>5 DEF ReturnPool
  <2>8. CASE FinishRound
    <3>1. /\ UNCHANGED <<cur, discarded>> /\ pc = "finish"
          /\ pc' \in {"load", "pop"} /\ round' \in {round, round + 1}
      BY <2>8 DEF FinishRound, hist
    <3>2. round' = 2 => round = 1 \/ round = 2
      BY <1>0 DEF MainOK
    <3>3. round' = 2 /\ cur' \notin discarded' => \A k \in JobsOf(1) : Written(k)
      BY <1>b, <1>0, <3>1, <3>2
    <3> QED
      BY <2>0, <3>1, <3>3 DEF Written, JobsOf
  <2> QED
    BY <1>3, <2>1, <2>2, <2>3, <2>4, <2>5, <2>6, <2>7, <2>8 DEF Main
<1>4. CASE MarkStopped \/ Exit
  <2>1. /\ UNCHANGED <<ABORT, abort, cur, round, phase, job, rows, discarded>>
        /\ pc' \in {pc, "exited"}
    BY <1>4 DEF MarkStopped, Exit, flags, where, pool, local, files, hist
  <2> QED
    BY <2>1 DEF Written, JobsOf, PoolJobs, MainJobs
<1>5. CASE Environment
  BY <1>0, <1>1, <1>5, EnvironmentStep DEF where, pool, local, files
<1>6. CASE UNCHANGED vars
  BY <1>1, <1>6 DEF vars, flags, where, pool, local, files, hist
<1> QED
  BY <1>2, <1>3, <1>4, <1>5, <1>6 DEF Next

(* Load round B exists only for profiles with narrow rows in round A.      *)
LEMMA MoreRounds == round \in 1 .. 2 /\ round < Rounds => MainJobs(round) # {}
BY ModelRunAssumption DEF ModelRunAssumption, Rounds, MainJobs, JobsOf

LEMMA MetaStep ==
  TypeInv /\ IdleInv /\ PoolInv /\ MetaInv /\ [Next]_vars => MetaInv'
<1> SUFFICES ASSUME TypeInv, IdleInv, PoolInv, MetaInv, [Next]_vars PROVE MetaInv'
  OBVIOUS
<1>0. FlagsOK /\ MainOK /\ PoolOK /\ FilesOK /\ AtModel
  BY DEF TypeInv, TypeOK
<1>a. \A m \in Models : m \in Nat /\ cur \in Nat
  BY <1>0 DEF MainOK, Models
<1> USE DEF MetaInv
<1>1. CASE UNCHANGED <<meta, pc, cur, round>> /\ (ABORT => ABORT')
  BY <1>1 DEF Rounds
<1>2. ASSUME NEW j \in Jobs, Worker(j)
      PROVE  MetaInv'
  BY <1>0, <1>1, <1>2, WorkerStep DEF flags, where
<1>3. CASE Main
  <2>1. CASE NextModel
    <3>1. /\ UNCHANGED <<ABORT, meta>> /\ pc = "next" /\ pc' \in {"load", "done"}
          /\ \/ cur' = cur /\ pc' = "done"
             \/ cur' = cur + 1
      BY <2>1 DEF NextModel, flags, files
    <3> QED
      BY <1>a, <3>1
  <2>2. CASE Load
    <3>1. /\ UNCHANGED <<ABORT, cur, round>> /\ pc = "load"
          /\ pc' \in {"warmup", "pool", "finish"}
          /\ pc' = "finish" => MainJobs(round) = {}
          /\ meta' = meta \/ meta' = [meta EXCEPT ![cur] = NewMeta]
      BY <2>2 DEF Load, flags
    <3>2. ~NewMeta.finished
      BY DEF NewMeta
    <3>3. pc' = "finish" => ~(round < Rounds)
      BY <1>0, <3>1, MoreRounds DEF MainOK
    <3>4. \A m \in Models : meta'[m].finished => meta[m].finished
      BY <1>0, <3>1, <3>2 DEF FilesOK
    <3> QED
      BY <3>1, <3>3, <3>4 DEF Rounds
  <2>3. CASE ReturnPool
    <3>1. /\ UNCHANGED <<ABORT, cur, round, meta>> /\ pc = "return"
          /\ pc' \in {"finish", "pool", "except"}
      BY <2>3 DEF ReturnPool, PerfReturns, MainReturns, PoolRaises, flags, files
    <3>2. pc' = "finish" => MainJobs(round) = {} \/ ~ABORT
      BY <2>3 DEF ReturnPool, PerfReturns, MainReturns, PoolRaises, PoolError
    <3>3. cur \in Models
      BY <1>0, <3>1 DEF AtModel, MainOK, Models
    <3>4. pc' = "finish" /\ round < Rounds => ~meta[cur].finished
      BY <1>0, <1>a, <3>1, <3>2, <3>3, MoreRounds DEF MainOK
    <3> QED
      BY <3>1, <3>4 DEF Rounds
  <2>4. CASE FinishRound
    <3>1. UNCHANGED <<ABORT, cur>> /\ pc = "finish" /\ pc' \in {"load", "pop"}
      BY <2>4 DEF FinishRound, flags
    <3>2. \A m \in Models \ {cur} : meta'[m] = meta[m]
      BY <1>0, <2>4 DEF FinishRound, FilesOK
    <3>3. ASSUME pc' = "load"
          PROVE  ~meta'[cur].finished
      <4>1. round < Rounds /\ cur \in Models
        BY <1>0, <2>4, <3>1, <3>3 DEF FinishRound, AtModel, MainOK, Models
      <4>2. PICK r \in Metas : r = meta[cur]
        BY <1>0, <4>1 DEF FilesOK
      <4>3. meta'[cur] = [r EXCEPT !.round = round, !.failed = FALSE]
        BY <1>0, <2>4, <4>1, <4>2 DEF FinishRound, FilesOK
      <4> QED
        BY <3>1, <4>1, <4>2, <4>3 DEF Metas
    <3> QED
      BY <1>a, <3>1, <3>2, <3>3
  <2>5. CASE HandleError
    <3>1. /\ UNCHANGED <<ABORT, cur>> /\ pc = "except" /\ pc' = "pop"
          /\ \A m \in Models \ {cur} : meta'[m] = meta[m]
      BY <1>0, <2>5 DEF HandleError, RecordStop, RecordFailure, flags, where, FilesOK
    <3> QED
      BY <3>1
  <2>6. CASE PopModel
    <3>1. UNCHANGED <<ABORT, cur, meta>> /\ pc = "pop" /\ pc' \in {"done", "next"}
      BY <2>6 DEF PopModel, flags, files
    <3> QED
      BY <3>1
  <2>7. CASE ~(NextModel \/ Load \/ ReturnPool \/ FinishRound \/ HandleError \/ PopModel)
    <3>1. /\ UNCHANGED <<ABORT, cur, meta>>
          /\ pc' \in {"next", "refused", "except", "pool", "drain", "return"}
          /\ pc \notin {"pop", "next", "done", "refused", "exited"}
      BY <1>3, <2>7 DEF Main, Begin, FailModel, Warmup, TakeFuture, LeavePool, EndPool,
         JoinWorkers, AfterPool, flags, where, files
    <3> QED
      BY <3>1
  <2> QED
    BY <2>1, <2>2, <2>3, <2>4, <2>5, <2>6, <2>7
<1>4. CASE MarkStopped
  <2>1. ABORT' /\ pc' # "finish"
    BY <1>4 DEF MarkStopped, IdleInv, flags, Blocking
  <2> QED
    BY <2>1
<1>5. CASE Exit
  <2>1. UNCHANGED <<ABORT, cur, meta>> /\ pc' = "exited"
    BY <1>5 DEF Exit, flags, where, files
  <2> QED
    BY <2>1
<1>6. CASE Environment
  BY <1>0, <1>1, <1>6, EnvironmentStep DEF where, files
<1>7. CASE UNCHANGED vars
  BY <1>1, <1>7 DEF vars, flags, where, files
<1> QED
  BY <1>2, <1>3, <1>4, <1>5, <1>6, <1>7 DEF Next

LEMMA DiscardedGrows == PoolOK /\ FlagsOK /\ [Next]_vars => discarded \subseteq discarded'
<1> SUFFICES ASSUME PoolOK, FlagsOK, [Next]_vars PROVE discarded \subseteq discarded'
  OBVIOUS
<1>1. ASSUME NEW j \in Jobs, Worker(j)
      PROVE  discarded' = discarded
  BY <1>1, WorkerStep DEF hist
<1>2. CASE Environment
  BY <1>2, EnvironmentStep
<1>3. CASE Main \/ MarkStopped \/ Exit \/ UNCHANGED vars
  BY <1>3 DEF Main, vars, hist, Begin, NextModel, Load, FailModel, Warmup, TakeFuture,
     LeavePool, EndPool, JoinWorkers, ReturnPool, PerfReturns, MainReturns, PoolRaises,
     FinishRound, HandleError, PopModel, MarkStopped, Exit
<1> QED
  BY <1>1, <1>2, <1>3 DEF Next

LEMMA FinishedStep ==
  TypeInv /\ IdleInv /\ PoolInv /\ RowInv /\ MetaInv /\ FinishedIsComplete /\ [Next]_vars
    => FinishedIsComplete'
<1> SUFFICES ASSUME TypeInv, IdleInv, PoolInv, RowInv, MetaInv, FinishedIsComplete,
                    [Next]_vars,
                    NEW m \in Models, meta'[m].finished, ~meta'[m].failed,
                    m \notin discarded', NEW j \in Jobs
             PROVE  rows'[m][j] # <<>>
  BY DEF FinishedIsComplete
<1>0. FlagsOK /\ MainOK /\ PoolOK /\ FilesOK /\ AtModel
  BY DEF TypeInv, TypeOK
<1>a. m \notin discarded
  BY <1>0, DiscardedGrows
<1>b. rows[m][j] # <<>> => rows'[m][j] # <<>>
  BY RowsGrow
<1>1. CASE meta'[m] = meta[m]
  BY <1>1, <1>a, <1>b DEF FinishedIsComplete
<1>2. CASE Load
  <2>1. meta'[m] = meta[m] \/ meta'[m] = NewMeta
    BY <1>0, <1>2 DEF Load, FilesOK
  <2> QED
    BY <1>1, <2>1 DEF NewMeta
<1>3. CASE FinishRound
  <2>1. m # cur => meta'[m] = meta[m]
    BY <1>0, <1>3 DEF FinishRound, FilesOK
  <2>2. CASE m = cur /\ round < Rounds
    <3>1. PICK r \in Metas : r = meta[m]
      BY <1>0 DEF FilesOK
    <3>2. meta'[m] = [r EXCEPT !.round = round, !.failed = FALSE]
      BY <1>0, <1>3, <2>2, <3>1 DEF FinishRound, FilesOK
    <3>3. ~r.finished
      BY <1>3, <2>2, <3>1 DEF FinishRound, MetaInv
    <3> QED
      BY <3>2, <3>3 DEF Metas
  <2>3. CASE m = cur /\ ~(round < Rounds)
    <3>1. pc = "finish" /\ cur # 0 /\ cur \notin discarded
      BY <1>0, <1>3, <1>a, <2>3 DEF FinishRound, AtModel
    <3>2. \A k \in JobsOf(round) : Written(k)
      BY <3>1 DEF RowInv
    <3>3. round = 2 => \A k \in JobsOf(1) : Written(k)
      BY <3>1 DEF RowInv
    <3>4. \/ round = 1 /\ j \in JobsOf(1)
          \/ round = 2 /\ (j \in JobsOf(1) \/ j \in JobsOf(2))
      BY <1>0, <2>3 DEF MainOK, Rounds, JobsOf
    <3> QED
      BY <1>b, <2>3, <3>2, <3>3, <3>4 DEF Written
  <2> QED
    BY <1>1, <2>1, <2>2, <2>3
<1>4. CASE HandleError
  <2>1. m # cur => meta'[m] = meta[m]
    BY <1>0, <1>4 DEF HandleError, RecordStop, RecordFailure, FilesOK
  <2>2. CASE m = cur
    <3>1. PICK r \in Metas : r = meta[m]
      BY <1>0 DEF FilesOK
    <3>2. \/ ~ABORT /\ meta'[m] = [r EXCEPT !.failed = FALSE, !.window = TRUE]
          \/ meta'[m].failed
      <4>1. CASE RecordStop
        <5>1. \/ ~ABORT /\ meta'[m] = [r EXCEPT !.failed = FALSE, !.window = TRUE]
              \/ meta'[m] = [r EXCEPT !.failed = TRUE, !.error = "stopped",
                                      !.finished = FALSE]
              \/ meta'[m] = [r EXCEPT !.failed = TRUE, !.error = "stopped",
                                      !.finished = TRUE, !.stopped = TRUE]
          BY <1>0, <2>2, <3>1, <4>1 DEF RecordStop, FilesOK
        <5> QED
          BY <5>1 DEF Metas
      <4>2. CASE RecordFailure
        <5>1. meta'[m] = [r EXCEPT !.failed = TRUE, !.finished = FALSE,
                                   !.error = raised]
          BY <1>0, <2>2, <3>1, <4>2 DEF RecordFailure, FilesOK
        <5> QED
          BY <5>1 DEF Metas
      <4> QED
        BY <1>4, <4>1, <4>2 DEF HandleError
    <3>3. ~ABORT => ~r.finished
      BY <1>0, <1>4, <2>2, <3>1 DEF HandleError, MetaInv, MainOK
    <3> QED
      BY <3>1, <3>2, <3>3 DEF Metas
  <2> QED
    BY <1>1, <2>1, <2>2
<1>5. CASE MarkStopped
  <2>1. PICK r \in Metas : r = meta[m]
    BY <1>0 DEF FilesOK
  <2>2. \/ meta'[m] = r
        \/ meta'[m] = [r EXCEPT !.failed = TRUE, !.stopped = TRUE,
                                !.finished = TRUE, !.error = "stopped"]
    BY <1>5, <2>1 DEF MarkStopped
  <2> QED
    BY <1>1, <2>1, <2>2 DEF Metas
<1>6. CASE UNCHANGED meta
  BY <1>1, <1>6
<1>7. ASSUME NEW k \in Jobs, Worker(k)
      PROVE  meta' = meta
  BY <1>0, <1>7, WorkerStep
<1>8. CASE Environment
  BY <1>0, <1>6, <1>8, EnvironmentStep DEF files
<1> QED
  BY <1>2, <1>3, <1>4, <1>5, <1>6, <1>7, <1>8
  DEF Next, Main, vars, files, Begin, NextModel, FailModel, Warmup, TakeFuture,
      LeavePool, EndPool, JoinWorkers, ReturnPool, PopModel, Exit

(* A meta that says finished and not failed means that every job of the    *)
(* run is in the transcript, except where _run_one_model threw the perf    *)
(* pool's error away.                                                      *)
THEOREM FinishedIsCompleteHolds == Spec => []FinishedIsComplete
<1>1. Init => PoolInv /\ AbortInv /\ RowInv
  BY DEF Init, PoolInv, AbortInv, RowInv, PoolStates
<1>2. Init => IdleInv
  BY DEF Init, IdleInv, Idle, Unfinished, Working, PoolStates
<1>3. Init => MetaInv /\ FinishedIsComplete
  BY DEF Init, NewMeta, MetaInv, FinishedIsComplete, Models
<1> QED
  BY TypeInit, TypeStep, IdleStep, PoolInvStep, AbortStep, RowStep, MetaStep,
     FinishedStep, <1>1, <1>2, <1>3, PTL DEF Spec

-----------------------------------------------------------------------------
(* A dead server is given up in bounded time.  A worker that counts the    *)
(* failure at the limit carries a "storm" until it sets the abort event,   *)
(* so up to that moment the failures past the limit are workers in         *)
(* persist; from then on no request is begun, and every further failure    *)
(* uses up one that was in flight.                                         *)

AtWork(f)      == {j \in Jobs : f[j] \in Working}
Generating(f)  == {j \in Jobs : f[j] = "gen"}
Storming(f, r) == {j \in Jobs : f[j] \in {"persist", "write"} /\ r[j] = "storm"}

StormInv ==
  /\ Cardinality(AtWork(job)) <= Workers
  /\ sanity.empty < SanityAfter =>
       /\ consecutive + Cardinality(Generating(job)) <= MaxErrs - 1 + Workers
       /\ ~abort /\ ~ABORT =>
            consecutive <= MaxErrs - 1 + Cardinality(Storming(job, result))

(* The workers are finitely many; one that generates carries no storm.     *)
LEMMA HeadCounts ==
  ASSUME NEW f, NEW r
  PROVE  /\ Cardinality(AtWork(f)) \in Nat
         /\ Cardinality(Generating(f)) \in Nat
         /\ Cardinality(Storming(f, r)) \in Nat
         /\ Cardinality(Generating(f)) + Cardinality(Storming(f, r))
              <= Cardinality(AtWork(f))
<1> DEFINE G == Generating(f)
           S == Storming(f, r)
           W == AtWork(f)
<1>1. G \subseteq Jobs /\ S \subseteq Jobs /\ W \subseteq Jobs /\ G \cup S \subseteq W
      /\ G \cap S = {}
  BY DEF Generating, Storming, AtWork, Working
<1>2. IsFiniteSet(Jobs)
  BY ModelRunAssumption DEF ModelRunAssumption
<1> HIDE DEF G, S, W
<1>3. IsFiniteSet(G) /\ IsFiniteSet(S) /\ IsFiniteSet(W)
  BY <1>1, <1>2, FS_Subset
<1>4. Cardinality(G) \in Nat /\ Cardinality(S) \in Nat /\ Cardinality(W) \in Nat
  BY <1>3, FS_CardinalityType
<1>5. Cardinality(G \cup S) = Cardinality(G) + Cardinality(S)
  <2>1. Cardinality(G \cup S) = Cardinality(G) + Cardinality(S) - Cardinality(G \cap S)
    BY <1>3, FS_Union
  <2> QED
    BY <1>1, <1>4, <2>1, FS_EmptySet
<1>6. Cardinality(G \cup S) <= Cardinality(W)
  BY <1>1, <1>3, FS_Subset
<1> QED
  BY <1>4, <1>5, <1>6 DEF G, S, W

(* No more workers, or requests, than there were.                          *)
LEMMA CountsShrink ==
  ASSUME NEW f, NEW g, NEW r, NEW q,
         AtWork(g) \subseteq AtWork(f), Generating(g) \subseteq Generating(f)
  PROVE  /\ Cardinality(AtWork(g)) <= Cardinality(AtWork(f))
         /\ Cardinality(Generating(g)) <= Cardinality(Generating(f))
         /\ Storming(f, r) \subseteq Storming(g, q)
              => Cardinality(Storming(f, r)) <= Cardinality(Storming(g, q))
<1>1. IsFiniteSet(Jobs)
  BY ModelRunAssumption DEF ModelRunAssumption
<1>2. AtWork(f) \subseteq Jobs /\ Generating(f) \subseteq Jobs
      /\ Storming(g, q) \subseteq Jobs
  BY DEF AtWork, Generating, Storming
<1>3. IsFiniteSet(AtWork(f)) /\ IsFiniteSet(Generating(f)) /\ IsFiniteSet(Storming(g, q))
  BY <1>1, <1>2, FS_Subset
<1> QED
  BY <1>3, FS_Subset

(* A worker that leaves its request, and one that begins one.              *)
LEMMA RequestEnds ==
  ASSUME NEW f, NEW g, NEW j \in Jobs, f[j] = "gen", g[j] # "gen",
         \A k \in Jobs \ {j} : g[k] = f[k]
  PROVE  Cardinality(Generating(g)) = Cardinality(Generating(f)) - 1
<1>1. Generating(g) = Generating(f) \ {j} /\ j \in Generating(f)
      /\ Generating(f) \subseteq Jobs
  BY DEF Generating
<1>2. IsFiniteSet(Generating(f))
  BY <1>1, FS_Subset, ModelRunAssumption DEF ModelRunAssumption
<1> QED
  BY <1>1, <1>2, FS_RemoveElement

LEMMA StormAdds ==
  ASSUME NEW f, NEW g, NEW r, NEW q, NEW j \in Jobs,
         Storming(g, q) = Storming(f, r) \cup {j}, f[j] = "gen"
  PROVE  Cardinality(Storming(g, q)) = Cardinality(Storming(f, r)) + 1
<1>1. j \notin Storming(f, r) /\ Storming(f, r) \subseteq Jobs
  BY DEF Storming
<1>2. IsFiniteSet(Storming(f, r))
  BY <1>1, FS_Subset, ModelRunAssumption DEF ModelRunAssumption
<1> QED
  BY <1>1, <1>2, FS_AddElement

(* A step that counts no failure and begins no request, and that loses a   *)
(* storm only where the abort event or a hard stop answers for it.         *)
LEMMA CalmStep ==
  ASSUME TypeInv, TypeInv', StormInv,
         consecutive' = consecutive,
         sanity'.empty < SanityAfter => sanity.empty < SanityAfter,
         AtWork(job') \subseteq AtWork(job),
         Generating(job') \subseteq Generating(job),
         abort => abort', ABORT => ABORT',
         sanity'.empty < SanityAfter =>
           abort' \/ ABORT' \/ Storming(job, result) \subseteq Storming(job', result')
  PROVE  StormInv'
<1>1. /\ consecutive \in Nat /\ MaxErrs \in Nat /\ Workers \in Nat
  BY ModelRunAssumption DEF ModelRunAssumption, TypeInv, TypeOK, LocalOK
<1>2. /\ Cardinality(AtWork(job)) \in Nat /\ Cardinality(AtWork(job')) \in Nat
      /\ Cardinality(Generating(job)) \in Nat /\ Cardinality(Generating(job')) \in Nat
      /\ Cardinality(Storming(job, result)) \in Nat
      /\ Cardinality(Storming(job', result')) \in Nat
  BY HeadCounts
<1>3. /\ Cardinality(AtWork(job')) <= Cardinality(AtWork(job))
      /\ Cardinality(Generating(job')) <= Cardinality(Generating(job))
      /\ Storming(job, result) \subseteq Storming(job', result')
           => Cardinality(Storming(job, result))
                <= Cardinality(Storming(job', result'))
  BY CountsShrink
<1>4. Cardinality(AtWork(job')) <= Workers
  BY <1>1, <1>2, <1>3 DEF StormInv
<1>5. ASSUME sanity'.empty < SanityAfter
      PROVE  consecutive' + Cardinality(Generating(job')) <= MaxErrs - 1 + Workers
  BY <1>1, <1>2, <1>3, <1>5 DEF StormInv
<1>6. ASSUME sanity'.empty < SanityAfter, ~abort', ~ABORT'
      PROVE  consecutive' <= MaxErrs - 1 + Cardinality(Storming(job', result'))
  <2>1. /\ consecutive <= MaxErrs - 1 + Cardinality(Storming(job, result))
        /\ Cardinality(Storming(job, result)) <= Cardinality(Storming(job', result'))
    BY <1>3, <1>6 DEF StormInv
  <2> QED
    BY <1>1, <1>2, <2>1
<1> QED
  BY <1>4, <1>5, <1>6 DEF StormInv

(* A worker's request begins only while no stop and no abort is seen, and  *)
(* in a slot of its own pool: the workers stay within the slots.           *)
LEMMA RequestBegins ==
  ASSUME TypeInv, TypeInv', IdleInv, StormInv, NEW j \in Jobs, Start(j),
         ~STOP, ~ABORT, ~abort
  PROVE  StormInv'
<1> DEFINE C(S) == Cardinality(S)
<1>0. job \in [Jobs -> Waiting \cup Working \cup Settled \cup {"cancelled"}]
  BY DEF TypeInv, TypeOK, PoolOK
<1>1. /\ job[j] = "queued" /\ job' = [job EXCEPT ![j] = "gen"]
      /\ UNCHANGED <<result, consecutive, sanity, abort, ABORT>>
      /\ Cardinality(Busy) < Slots
  BY DEF Start, FirstStep, local, flags
<1>2. AtWork(job) = Busy
  <2>1. pc = "pool" /\ \A k \in Jobs \ PoolJobs : job[k] \notin Unfinished
    <3>1. j \in Jobs /\ job[j] \in Unfinished
      BY <1>1 DEF Unfinished
    <3>2. ~Idle
      BY <3>1 DEF Idle
    <3>3. pc \in {"pool", "drain"} /\ pc # "drain"
      BY <1>1, <3>2 DEF IdleInv
    <3> QED
      BY <3>3 DEF IdleInv
  <2> QED
    BY <2>1, PoolSubset DEF AtWork, Busy, Unfinished
<1>3. Slots <= Workers /\ Slots \in Nat /\ Workers \in Nat /\ MaxErrs \in Nat
  BY ModelRunAssumption DEF ModelRunAssumption, Slots
<1>4. /\ AtWork(job') = AtWork(job) \cup {j} /\ j \notin AtWork(job)
      /\ Storming(job', result') = Storming(job, result)
  BY <1>0, <1>1 DEF AtWork, Storming, Working
<1>5. C(AtWork(job')) = C(AtWork(job)) + 1
  <2>1. IsFiniteSet(AtWork(job))
    <3>1. AtWork(job) \subseteq Jobs
      BY DEF AtWork
    <3> QED
      BY <3>1, FS_Subset, ModelRunAssumption DEF ModelRunAssumption
  <2> QED
    BY <1>4, <2>1, FS_AddElement
<1>6. /\ C(AtWork(job)) \in Nat
      /\ C(Generating(job')) \in Nat /\ C(Storming(job', result')) \in Nat
      /\ C(Generating(job')) + C(Storming(job', result')) <= C(AtWork(job'))
  BY HeadCounts
<1>7. C(AtWork(job')) <= Workers
  <2>1. C(AtWork(job)) < Slots
    BY <1>1, <1>2
  <2> QED
    BY <1>3, <1>5, <1>6, <2>1
<1>8. sanity.empty < SanityAfter => consecutive <= MaxErrs - 1 + C(Storming(job, result))
  BY DEF StormInv
<1>9. consecutive \in Nat
  BY DEF TypeInv, TypeOK, LocalOK
<1>10. ASSUME sanity'.empty < SanityAfter
       PROVE  /\ consecutive' + C(Generating(job')) <= MaxErrs - 1 + Workers
              /\ consecutive' <= MaxErrs - 1 + C(Storming(job', result'))
  <2>1. consecutive' <= MaxErrs - 1 + C(Storming(job', result'))
    BY <1>1, <1>4, <1>8, <1>10
  <2>2. C(Generating(job')) + C(Storming(job', result')) <= Workers
    BY <1>3, <1>5, <1>6, <1>7
  <2>3. consecutive' \in Nat
    BY <1>1, <1>9
  <2> QED
    BY <1>3, <1>6, <2>1, <2>2, <2>3
<1> QED
  BY <1>7, <1>10 DEF StormInv

(* A request that ends with the counter set: back to zero, or one more.    *)
LEMMA RequestCounts ==
  ASSUME TypeInv, TypeInv', StormInv, NEW j \in Jobs, job[j] = "gen",
         job'[j] = "persist", \A k \in Jobs \ {j} : job'[k] = job[k],
         \A k \in Jobs \ {j} : result'[k] = result[k],
         UNCHANGED <<sanity, abort, ABORT>>,
         \/ consecutive' = 0
         \/ /\ consecutive' = consecutive + 1
            /\ consecutive + 1 >= MaxErrs => result'[j] = "storm"
  PROVE  StormInv'
<1> DEFINE C(S) == Cardinality(S)
<1>1. /\ consecutive \in Nat /\ MaxErrs \in Nat \ {0} /\ Workers \in Nat
  BY ModelRunAssumption DEF ModelRunAssumption, TypeInv, TypeOK, LocalOK
<1>2. AtWork(job') = AtWork(job)
  BY DEF AtWork, Working
<1>3. C(Generating(job')) = C(Generating(job)) - 1
  BY RequestEnds
<1>4. /\ C(AtWork(job)) \in Nat /\ C(Storming(job, result)) \in Nat
      /\ C(Generating(job)) \in Nat /\ C(Generating(job')) \in Nat
      /\ C(Generating(job)) + C(Storming(job, result)) <= C(AtWork(job))
      /\ C(Storming(job', result')) \in Nat
  BY HeadCounts
<1>5. C(AtWork(job)) <= Workers
  BY DEF StormInv
<1>6. ASSUME sanity'.empty < SanityAfter
      PROVE  consecutive' + C(Generating(job')) <= MaxErrs - 1 + Workers
  <2>1. consecutive + C(Generating(job)) <= MaxErrs - 1 + Workers
    BY <1>6 DEF StormInv
  <2>2. consecutive' = 0 \/ consecutive' = consecutive + 1
    OBVIOUS
  <2> QED
    BY <1>1, <1>3, <1>4, <1>5, <2>1, <2>2
<1>7. ASSUME sanity'.empty < SanityAfter, ~abort', ~ABORT'
      PROVE  consecutive' <= MaxErrs - 1 + C(Storming(job', result'))
  <2>1. consecutive <= MaxErrs - 1 + C(Storming(job, result))
    BY <1>7 DEF StormInv
  <2>2. CASE result'[j] = "storm"
    <3>1. Storming(job', result') = Storming(job, result) \cup {j}
      BY <2>2 DEF Storming
    <3>2. C(Storming(job', result')) = C(Storming(job, result)) + 1
      BY <3>1, StormAdds
    <3>3. consecutive' = 0 \/ consecutive' = consecutive + 1
      OBVIOUS
    <3> QED
      BY <1>1, <1>4, <2>1, <3>2, <3>3
  <2>3. CASE result'[j] # "storm"
    <3>1. consecutive' = 0 \/ (consecutive' = consecutive + 1 /\ consecutive + 1 < MaxErrs)
      BY <1>1, <2>3
    <3> QED
      BY <1>1, <1>4, <3>1
  <2> QED
    BY <2>2, <2>3
<1> QED
  BY <1>2, <1>5, <1>6, <1>7 DEF StormInv

(* The worker that saw the counter at its limit leaves persist behind the  *)
(* abort event, or the sanity rule has given the model up already.         *)
LEMMA StormAborts ==
  ASSUME TypeInv, NEW j \in Jobs, WritePersist(j), result[j] = "storm"
  PROVE  abort' \/ ~(sanity'.empty < SanityAfter)
<1> DEFINE row   == RowOf(j)
           san   == CountCompletion(row)
           sam   == IF AllEmpty(san) THEN samples ELSE Sample(row)
           fatal == AllEmpty(san) \/ TooSlow(sam)
<1>1. sanity' = san /\ abort' = (abort \/ SetsAbort(j, fatal))
  BY DEF WritePersist
<1>2. row = "err" /\ san = sanity /\ sam = samples
  BY DEF RowOf, CountCompletion, Sample, Completions
<1>3. ~TooSlow(samples)
  BY DEF TooSlow
<1>4. sanity.total \in Nat /\ sanity.empty \in Nat /\ SanityAfter \in Nat
      /\ abort \in BOOLEAN
  BY ModelRunAssumption
  DEF ModelRunAssumption, TypeInv, TypeOK, LocalOK, FlagsOK
<1>5. fatal => AllEmpty(sanity)
  BY <1>2, <1>3
<1>6. CASE ~fatal
  BY <1>1, <1>4, <1>6 DEF SetsAbort
<1>7. CASE fatal
  <2>1. sanity.total >= SanityAfter /\ sanity.empty = sanity.total
    BY <1>7, <1>5 DEF AllEmpty
  <2>2. sanity' = sanity
    BY <1>1, <1>2
  <2> QED
    BY <1>4, <2>1, <2>2
<1> QED
  BY <1>6, <1>7

LEMMA WorkerStorm ==
  ASSUME TypeInv, TypeInv', IdleInv, StormInv, NEW j \in Jobs, Worker(j)
  PROVE  StormInv'
<1>0. PoolOK /\ LocalOK /\ FlagsOK /\ LocalOK'
  BY DEF TypeInv, TypeOK
<1>a. UNCHANGED flags /\ \A k \in Jobs \ {j} : job'[k] = job[k]
  BY <1>0, WorkerStep
<1>b. ABORT' = ABORT
  BY <1>a DEF flags
<1> USE DEF local
<1>1. CASE Start(j)
  <2>1. CASE STOP \/ ABORT \/ abort
    <3>1. /\ job[j] = "queued" /\ job'[j] \in {"stopped", "ok"}
          /\ UNCHANGED <<result, consecutive, sanity, abort>>
      BY <1>0, <1>1, <2>1 DEF Start, FirstStep, PoolOK
    <3>2. /\ AtWork(job') = AtWork(job) /\ Generating(job') = Generating(job)
          /\ Storming(job', result') = Storming(job, result)
      BY <1>a, <3>1 DEF AtWork, Generating, Storming, Working
    <3> QED
      BY <1>b, <3>1, <3>2, CalmStep
  <2>2. CASE ~(STOP \/ ABORT \/ abort)
    BY <1>1, <2>2, RequestBegins
  <2> QED
    BY <2>1, <2>2
<1>2. CASE Complete(j)
  <2>1. /\ job[j] = "gen" /\ job'[j] = "persist" /\ consecutive' = 0
        /\ UNCHANGED <<sanity, abort>>
        /\ \A k \in Jobs \ {j} : result'[k] = result[k]
    BY <1>0, <1>2 DEF Complete, PoolOK
  <2> QED
    BY <1>a, <1>b, <2>1, RequestCounts
<1>3. CASE FailTransport(j) /\ job'[j] = "persist"
  <2>1. /\ job[j] = "gen" /\ consecutive' = consecutive + 1
        /\ consecutive + 1 >= MaxErrs => result'[j] = "storm"
        /\ UNCHANGED <<sanity, abort>>
        /\ \A k \in Jobs \ {j} : result'[k] = result[k]
    BY <1>0, <1>3 DEF FailTransport, PoolOK
  <2> QED
    BY <1>a, <1>b, <1>3, <2>1, RequestCounts
<1>4. CASE \/ FailTransport(j) /\ job'[j] # "persist"
           \/ RejectCase(j) \/ DropAtDeadline(j) \/ FailReload(j)
  <2>1. /\ job[j] = "gen" /\ job'[j] # "gen"
        /\ UNCHANGED <<consecutive, sanity, abort>>
        /\ \A k \in Jobs \ {j} : result'[k] = result[k]
    BY <1>0, <1>4 DEF FailTransport, RejectCase, DropAtDeadline, FailReload, PoolOK
  <2>2. /\ AtWork(job') \subseteq AtWork(job)
        /\ Generating(job') \subseteq Generating(job)
        /\ Storming(job, result) \subseteq Storming(job', result')
    BY <1>a, <2>1 DEF AtWork, Generating, Storming, Working
  <2> QED
    BY <1>b, <2>1, <2>2, CalmStep
<1>5. CASE EnterPersist(j)
  <2>1. /\ job[j] = "persist" /\ job'[j] # "gen"
        /\ UNCHANGED <<consecutive, sanity>>
        /\ abort => abort'
    BY <1>0, <1>5 DEF EnterPersist, AfterPersist, PoolOK
  <2>2. ABORT \/ (job'[j] = "write" /\ result' = result)
    BY <1>0, <1>5 DEF EnterPersist, PoolOK
  <2>3. /\ AtWork(job') \subseteq AtWork(job)
        /\ Generating(job') \subseteq Generating(job)
    BY <1>a, <2>1 DEF AtWork, Generating, Working
  <2>4. ABORT \/ Storming(job, result) \subseteq Storming(job', result')
    BY <1>a, <2>2 DEF Storming
  <2> QED
    BY <1>b, <2>1, <2>3, <2>4, CalmStep
<1>6. CASE WritePersist(j)
  <2>1. /\ job[j] = "write" /\ job'[j] # "gen" /\ consecutive' = consecutive
        /\ abort => abort'
        /\ \A k \in Jobs \ {j} : result'[k] = result[k]
    BY <1>0, <1>6 DEF WritePersist, AfterPersist, PoolOK
  <2>2. sanity'.empty < SanityAfter => sanity.empty < SanityAfter
    <3>1. sanity' = CountCompletion(RowOf(j))
      BY <1>6 DEF WritePersist
    <3>2. sanity.empty \in Nat /\ sanity'.empty \in Nat /\ SanityAfter \in Nat
      BY <1>0, ModelRunAssumption DEF ModelRunAssumption, LocalOK
    <3>3. sanity.empty <= sanity'.empty
      BY <3>1, <3>2 DEF CountCompletion
    <3> QED
      BY <3>2, <3>3
  <2>3. /\ AtWork(job') \subseteq AtWork(job)
        /\ Generating(job') \subseteq Generating(job)
    BY <1>a, <2>1 DEF AtWork, Generating, Working
  <2>4. CASE result[j] = "storm"
    BY <1>b, <1>6, <2>1, <2>2, <2>3, <2>4, StormAborts, CalmStep
  <2>5. CASE result[j] # "storm"
    <3>1. Storming(job, result) \subseteq Storming(job', result')
      BY <1>a, <2>1, <2>5 DEF Storming
    <3> QED
      BY <1>b, <2>1, <2>2, <2>3, <3>1, CalmStep
  <2> QED
    BY <2>4, <2>5
<1> QED
  BY <1>1, <1>2, <1>3, <1>4, <1>5, <1>6 DEF Worker

(* A load starts the counter again, with no worker left of the round       *)
(* before.                                                                 *)
LEMMA LoadStorm == TypeInv /\ TypeInv' /\ IdleInv /\ Load => StormInv'
<1> SUFFICES ASSUME TypeInv, TypeInv', IdleInv, Load PROVE StormInv'
  OBVIOUS
<1>1. consecutive' = 0 /\ \A j \in Jobs : job'[j] \notin Working
  <2>1. \A j \in Jobs : job[j] \notin Working
    BY DEF Load, IdleInv, Idle, Unfinished
  <2>2. consecutive' = 0
    BY DEF Load
  <2>3. \A j \in Jobs : job'[j] = job[j] \/ job'[j] = "queued"
    BY DEF Load, Submit, pool
  <2> QED
    BY <2>1, <2>2, <2>3 DEF Working
<1>2. AtWork(job') = {} /\ Generating(job') = {}
  BY <1>1 DEF AtWork, Generating, Working
<1>3. /\ MaxErrs \in Nat \ {0} /\ Workers \in Nat
      /\ Cardinality(Storming(job', result')) \in Nat
  BY ModelRunAssumption, HeadCounts DEF ModelRunAssumption
<1>4. Cardinality(AtWork(job')) = 0 /\ Cardinality(Generating(job')) = 0
  BY <1>2, FS_EmptySet
<1> QED
  BY <1>1, <1>3, <1>4 DEF StormInv

LEMMA QueueStep ==
  ASSUME TypeInv, TypeInv', StormInv,
         consecutive' = consecutive, sanity' = sanity, result' = result,
         abort => abort', ABORT => ABORT',
         \A k \in Jobs : \/ job'[k] = job[k]
                        \/ /\ job[k] \notin Working
                           /\ job'[k] \in {"queued", "cancelled"}
  PROVE  StormInv'
<1>1. /\ AtWork(job') \subseteq AtWork(job)
      /\ Generating(job') \subseteq Generating(job)
  BY DEF AtWork, Generating, Working
<1>2. Storming(job, result) \subseteq Storming(job', result')
  BY DEF Storming, Working
<1>3. sanity'.empty < SanityAfter => sanity.empty < SanityAfter
  OBVIOUS
<1> QED
  BY <1>1, <1>2, <1>3, CalmStep

(* The main thread otherwise only cancels what is queued, queues the next  *)
(* pool, or drains the queue with the abort event.                         *)
LEMMA MainStorm ==
  TypeInv /\ TypeInv' /\ IdleInv /\ StormInv /\ Main => StormInv'
<1> SUFFICES ASSUME TypeInv, TypeInv', IdleInv, StormInv, Main PROVE StormInv'
  OBVIOUS
<1>0. PoolOK /\ FlagsOK /\ MainOK
  BY DEF TypeInv, TypeOK
<1>1. CASE Load
  BY <1>1, LoadStorm
<1>2. CASE Begin \/ NextModel \/ FailModel \/ EndPool \/ JoinWorkers \/ FinishRound
           \/ HandleError \/ PopModel
  <2>1. UNCHANGED <<ABORT, local, pool>>
    BY <1>2 DEF Begin, NextModel, FailModel, EndPool, JoinWorkers, FinishRound,
       HandleError, PopModel, flags
  <2>2. /\ consecutive' = consecutive /\ sanity' = sanity /\ result' = result
        /\ job' = job
    BY <2>1 DEF local, pool
  <2>3. (abort => abort') /\ (ABORT => ABORT')
    BY <2>1 DEF local
  <2> QED
    BY <2>2, <2>3, QueueStep
<1>3. CASE LeavePool \/ \E j \in Jobs : TakeFuture(j)
  <2>1. /\ consecutive' = consecutive /\ sanity' = sanity /\ result' = result
        /\ job' = job \/ job' = Cancel(job)
    BY <1>3 DEF LeavePool, TakeFuture, local
  <2>2. (abort => abort') /\ (ABORT => ABORT')
    BY <1>0, <1>3 DEF LeavePool, TakeFuture, flags, local, FlagsOK
  <2>3. \A k \in Jobs : \/ job'[k] = job[k]
                       \/ /\ job[k] \notin Working
                          /\ job'[k] \in {"queued", "cancelled"}
    BY <2>1 DEF Cancel, Working
  <2> QED
    BY <2>1, <2>2, <2>3, QueueStep
<1>4. CASE Warmup
  <2>1. /\ UNCHANGED <<ABORT, local>> /\ result' = result
        /\ \A k \in Jobs : job'[k] = job[k] \/ job'[k] = "queued"
    BY <1>4 DEF Warmup, Submit, flags
  <2>2. \A k \in Jobs : job[k] \notin Working
    BY <1>4 DEF Warmup, IdleInv, Idle, Unfinished
  <2>3. consecutive' = consecutive /\ sanity' = sanity
    BY <2>1 DEF local
  <2>4. (abort => abort') /\ (ABORT => ABORT')
    BY <2>1 DEF local
  <2> QED
    BY <2>1, <2>2, <2>3, <2>4, QueueStep
<1>5. CASE ReturnPool
  <2>1. /\ UNCHANGED <<ABORT, local, result>>
        /\ \A k \in Jobs : job'[k] = job[k] \/ job'[k] = "queued"
    BY <1>5 DEF ReturnPool, PerfReturns, MainReturns, PoolRaises, Submit, flags, pool
  <2>2. Idle \/ ABORT
    BY <1>5 DEF ReturnPool, IdleInv
  <2>3. CASE Idle
    <3>1. \A k \in Jobs : job[k] \notin Working
      BY <2>3 DEF Idle, Unfinished
    <3>2. consecutive' = consecutive /\ sanity' = sanity /\ result' = result
      BY <2>1 DEF local
    <3>3. (abort => abort') /\ (ABORT => ABORT')
      BY <2>1 DEF local
    <3> QED
      BY <2>1, <3>1, <3>2, <3>3, QueueStep
  <2>4. CASE ABORT
    <3>1. /\ AtWork(job') \subseteq AtWork(job)
          /\ Generating(job') \subseteq Generating(job)
      BY <2>1 DEF AtWork, Generating, Working
    <3>2. ABORT' /\ UNCHANGED <<consecutive, sanity, abort>>
      BY <2>1, <2>4 DEF local
    <3> QED
      BY <3>1, <3>2, CalmStep
  <2> QED
    BY <2>2, <2>3, <2>4
<1> QED
  BY <1>1, <1>2, <1>3, <1>4, <1>5 DEF Main

LEMMA StormStep ==
  TypeInv /\ TypeInv' /\ IdleInv /\ StormInv /\ [Next]_vars => StormInv'
<1> SUFFICES ASSUME TypeInv, TypeInv', IdleInv, StormInv, [Next]_vars PROVE StormInv'
  OBVIOUS
<1>1. ASSUME UNCHANGED <<local, pool>>, ABORT => ABORT'
      PROVE  StormInv'
  BY <1>1, CalmStep DEF local, pool
<1>2. CASE Environment
  BY <1>1, <1>2, EnvironmentStep DEF TypeInv, TypeOK
<1>3. CASE MarkStopped \/ Exit \/ UNCHANGED vars
  <2>1. UNCHANGED <<flags, local, pool>>
    BY <1>3 DEF MarkStopped, Exit, vars
  <2>2. ABORT' = ABORT
    BY <2>1 DEF flags
  <2> QED
    BY <1>1, <2>1, <2>2
<1> QED
  BY <1>2, <1>3, WorkerStorm, MainStorm DEF Next

(* A dead server costs a model at most the limit's failures and one more   *)
(* request for each other slot: whoever counts a failure at the limit has  *)
(* set the abort event before its slot is free again.                      *)
THEOREM StormIsBoundedHolds == Spec => []StormIsBounded
<1>1. Init => IdleInv
  BY DEF Init, IdleInv, Idle, Unfinished, Working, PoolStates
<1>2. Init => StormInv
  <2> SUFFICES ASSUME Init PROVE StormInv
    OBVIOUS
  <2>1. consecutive = 0 /\ \A j \in Jobs : job[j] = "none"
    BY DEF Init
  <2>2. AtWork(job) = {} /\ Generating(job) = {}
    BY <2>1 DEF AtWork, Generating, Working
  <2>3. /\ MaxErrs \in Nat \ {0} /\ Workers \in Nat
        /\ Cardinality(Storming(job, result)) \in Nat
    BY ModelRunAssumption, HeadCounts DEF ModelRunAssumption
  <2>4. Cardinality(AtWork(job)) = 0 /\ Cardinality(Generating(job)) = 0
    BY <2>2, FS_EmptySet
  <2> QED
    BY <2>1, <2>3, <2>4 DEF StormInv
<1>3. TypeInv /\ StormInv => StormIsBounded
  <2> SUFFICES ASSUME TypeInv, StormInv, sanity.empty < SanityAfter
               PROVE  consecutive <= MaxErrs - 1 + Workers
    BY DEF StormIsBounded
  <2>1. /\ consecutive \in Nat /\ MaxErrs \in Nat /\ Workers \in Nat
        /\ Cardinality(Generating(job)) \in Nat
    BY ModelRunAssumption, HeadCounts DEF ModelRunAssumption, TypeInv, TypeOK, LocalOK
  <2>2. consecutive + Cardinality(Generating(job)) <= MaxErrs - 1 + Workers
    BY DEF StormInv
  <2> QED
    BY <2>1, <2>2
<1> QED
  BY TypeInit, TypeStep, IdleStep, StormStep, <1>1, <1>2, <1>3, PTL DEF Spec

=============================================================================

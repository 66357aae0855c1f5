------------------------------ MODULE BenchAll ------------------------------
(***************************************************************************)
(* One night of `bench-all --until` (bench_all.execute): the units of the  *)
(* plan are generated one by one in a time window, what ran out of budget  *)
(* is retried, the rows are judged, then the ladder sets are run and       *)
(* judged.  The window is kept by a timer, whose thread raises STOP at the *)
(* end of a unit's generation, by the deadline its requests are given, and *)
(* by the stop and the deadline of the judge.                              *)
(*                                                                         *)
(* Units are numbered in their order: the models of the board, the retry   *)
(* pass, then the ladder runs.  A clock counts minutes; planning and       *)
(* bookkeeping take none, a timer that is due fires and a request past its *)
(* deadline is dropped within the minute.  What takes time, and how long,  *)
(* is open: a model may load past its window, a request may hang.          *)
(***************************************************************************)
EXTENDS Integers, FiniteSetsExt

CONSTANTS
  NumBoard, NumLadder, \* how many models and ladder runs
  Estimate,            \* of each unit: its estimated minutes (15: a retry)
  Planned,             \* of each unit: the rows to judge its estimate counts
  Rows,                \* of each unit: the rows it has to generate, as planned
  Waits,               \* of each unit: the rows of its model that wait already
  ToJudge,             \* units whose models the plan lists for the judge
  HardEnd,             \* --until
  Tail, Lead, Grace, MinJudge, Oversize, \* the constants before class Window
  Fixed, PerRow,       \* minutes of the judge: to load, and for a row
  Floor,               \* --judge-reserve-min
  MaxNow               \* bound: the clock stands still

Units  == 1..(NumBoard + 1 + NumLadder)
Board  == 1..NumBoard
Retry  == NumBoard + 1
Ladder == Units \ 1..Retry
Never  == MaxNow + 1

JudgeCut    == HardEnd - Tail
JudgeStopAt == JudgeCut - Lead

ASSUME BenchAllAssumption ==
  /\ NumBoard \in Nat /\ NumLadder \in Nat
  /\ \A f \in {Estimate, Planned, Rows, Waits} : f \in [Units -> Nat]
  /\ ToJudge \subseteq Units /\ Board \cup {Retry} \subseteq ToJudge
  /\ {HardEnd, Tail, Lead, Grace, MinJudge, Oversize, Fixed, PerRow, Floor, MaxNow}
       \subseteq Nat
  /\ Grace > 0 /\ HardEnd < MaxNow

VARIABLES
  now,        \* the clock
  pc,         \* where the main thread is
  unit,       \* its unit
  end,        \* when the unit's generation is to stop
  timer,      \* when the window's timer is due, Never without one
  firing,     \* the timer's thread in _close_window
  deadline,   \* GEN_DEADLINE
  windowStop, stop, stopping, \* the events WINDOW_STOP, STOP and ABORT
  closed,     \* what _disarm has read
  busy,       \* a row, or a verdict, is in flight
  todo,       \* rows of the unit that are not handed out
  pending,    \* of each unit: the rows of its model that wait for the judge
  ranOut,     \* rows the board made tonight that ran out of budget
  failed,     \* the unit's run ended with an exit code
  rc,         \* a unit of the board made the exit code EXIT_MODEL_FAILED
  marked,     \* units whose models' meta says failed
  broke,      \* units that failed by themselves
  started,    \* units that were admitted
  judges      \* judge phases so far

clockVars == <<now, timer, firing, deadline, windowStop, stop, stopping, closed>>
runVars   == <<busy, todo, pending, ranOut, failed, rc, marked, broke>>
workVars  == <<unit, end, runVars, started, judges>>
vars      == <<pc, clockVars, workVars>>

Sites == {"head", "arm", "preamble", "run", "load", "warm", "rows", "ran", "disarm",
          "close", "judge", "judgeload", "verdicts", "judged", "report", "over",
          "stopped"}

TypeOK ==
  /\ now \in 0..MaxNow /\ pc \in Sites /\ unit \in Units \cup {Retry + NumLadder + 1}
  /\ end \in Int /\ timer \in Int /\ deadline \in Int
  /\ firing \in {"no", "begun", "half"}
  /\ windowStop \in BOOLEAN /\ stop \in BOOLEAN /\ stopping \in BOOLEAN
  /\ closed \in BOOLEAN /\ busy \in BOOLEAN /\ failed \in BOOLEAN /\ rc \in BOOLEAN
  /\ todo \in Nat /\ pending \in [Units -> Nat] /\ ranOut \in Nat
  /\ marked \subseteq Units /\ broke \subseteq Units /\ started \subseteq Units
  /\ judges \in 0..2

Init ==
  /\ now = 0 /\ pc = IF NumBoard = 0 THEN "close" ELSE "head"
  /\ unit = 1 /\ end = 0
  /\ timer = Never /\ firing = "no" /\ deadline = Never
  /\ windowStop = FALSE /\ stop = FALSE /\ stopping = FALSE /\ closed = FALSE
  /\ busy = FALSE /\ todo = 0 /\ pending = Waits /\ ranOut = 0
  /\ failed = FALSE /\ rc = FALSE /\ judges = 0
  /\ marked = {} /\ broke = {} /\ started = {}

-----------------------------------------------------------------------------
(* The arithmetic of the window (class Window).                            *)

Larger(a, b)  == IF a > b THEN a ELSE b
Smaller(a, b) == IF a < b THEN a ELSE b

Reserve(n) == Larger(Floor, IF n > 0 THEN Fixed + PerRow * n ELSE 0)

GenEnd(n)    == JudgeCut - (Reserve(n) + Grace)
Fits(min, n) == now + min <= GenEnd(n)
GenCut(e)    == Smaller(e + Grace, JudgeCut)

Waiting(models) == MapThenSumSet(LAMBDA u : pending[u], models)

(* The rows that will wait for the judge when the unit is through: those   *)
(* of the models on the plan's judge list, and of the unit.                *)
OnlyOwn(u)  == pending[u] + Planned[u]                                 \* mutant
ToBeJudged(u) == Waiting(ToJudge \cup {u}) + Planned[u]

(* A model that is longer than the window starts when it is the first.     *)
StartsOversize(u) == /\ u \in Board /\ started = {}
                     /\ GenEnd(ToBeJudged(u)) > now + Oversize

-----------------------------------------------------------------------------
(* Arming and disarming the window.                                        *)

DisarmReads == timer' = Never /\ closed' = windowStop

DisarmClears == /\ windowStop' = FALSE
                /\ stop' = IF closed THEN FALSE ELSE stop

Disarmed == /\ timer' = Never /\ deadline' = Never /\ windowStop' = FALSE
            /\ stop' = IF windowStop THEN FALSE ELSE stop

Deadline(e) == GenCut(e)

(* The timer's thread: past the cancel, then WINDOW_STOP, then STOP.       *)
Fire ==
  /\ \/ /\ timer <= now /\ firing = "no" /\ firing' = "begun" /\ timer' = Never
        /\ UNCHANGED <<windowStop, stop>>
     \/ /\ firing = "begun" /\ firing' = "half" /\ windowStop' = TRUE
        /\ UNCHANGED <<timer, stop>>
     \/ /\ firing = "half" /\ firing' = "no" /\ stop' = TRUE
        /\ UNCHANGED <<timer, windowStop>>
  /\ UNCHANGED <<now, pc, deadline, stopping, closed, workVars>>

-----------------------------------------------------------------------------
(* A unit: admitted, run, and its window closed.                           *)

(* The retry pass is for the jobs the plan lists and for what the board's  *)
(* models ran out of tonight; its admission counts the plan's jobs alone.  *)
RowsOf(u) == Rows[u] + (IF u = Retry THEN ranOut ELSE 0)

(* Whether there is work, and time for it: for a ladder run also the time  *)
(* to judge anything.                                                      *)
Enters(u) == /\ RowsOf(u) > 0
             /\ Fits(Estimate[u], ToBeJudged(u)) \/ StartsOversize(u)
             /\ u \in Ladder => now < JudgeStopAt

(* The board's loop is left by its `finally`, the retry pass leads to the  *)
(* judge, and so does the ladder's loop.                                   *)
Site(u) == CASE u = Retry -> "close"
             [] u = Retry + 1 \/ u = Retry + NumLadder + 1 -> "judge"
             [] OTHER -> "head"

Admit ==
  /\ pc = "head" /\ ~stopping /\ Enters(unit)
  /\ end' = GenEnd(ToBeJudged(unit)) /\ started' = started \cup {unit}
  /\ DisarmReads /\ pc' = "arm"
  /\ UNCHANGED <<now, firing, deadline, windowStop, stop, stopping,
                 unit, busy, todo, pending, ranOut, failed, rc, marked, broke, judges>>

Skip ==
  /\ pc = "head" /\ ~stopping /\ ~Enters(unit)
  /\ unit' = unit + 1 /\ pc' = Site(unit + 1)
  /\ UNCHANGED <<clockVars, end, runVars, started, judges>>

HeadStops ==
  /\ pc = "head" /\ stopping /\ pc' = "stopped"
  /\ UNCHANGED <<clockVars, workVars>>

Arm ==
  /\ pc = "arm" /\ DisarmClears /\ pc' = "preamble"
  /\ timer' = end /\ deadline' = Deadline(end)
  /\ UNCHANGED <<now, firing, stopping, closed, workVars>>

(* Before run_models: the link check, the GPU guard; it may be refused.    *)
Refused ==
  /\ pc = "preamble" /\ pc' = "ran" /\ failed' = TRUE /\ broke' = broke \cup {unit}
  /\ UNCHANGED <<clockVars, unit, end, busy, todo, pending, ranOut, rc, marked, started,
                 judges>>

(* run_models clears STOP, which may be the window's; escalate_models has  *)
(* looked at it before.  A timer that fires meanwhile is through.          *)
ClearStop ==
  /\ pc = "preamble" /\ firing = "no"
  /\ \/ unit = Retry /\ stop /\ pc' = "ran" /\ failed' = FALSE /\ UNCHANGED stop
     \/ ~(unit = Retry /\ stop) /\ pc' = "run" /\ stop' = FALSE /\ UNCHANGED failed
  /\ UNCHANGED <<now, timer, firing, deadline, windowStop, stopping, closed,
                 unit, end, busy, todo, pending, ranOut, rc, marked, broke, started,
                 judges>>

StopOnly  == stop                                                      \* mutant
StopAsked == stop \/ stopping

(* The run ends: it left its models' meta failed, or not.                  *)
Gives(fails, marks) ==
  /\ pc' = "ran" /\ failed' = fails /\ busy' = FALSE
  /\ marked' = IF marks THEN marked \cup {unit} ELSE marked
  /\ UNCHANGED <<clockVars, unit, end, todo, pending, ranOut, rc, started, judges>>

Goes(site) ==
  /\ pc' = site
  /\ UNCHANGED <<clockVars, unit, end, runVars, started, judges>>

NotRun == pc = "run" /\ StopAsked /\ Gives(TRUE, FALSE) /\ UNCHANGED broke
Run    == pc = "run" /\ ~StopAsked /\ Goes("load")

(* Before the rows of the board comes the perf warm-up, a request of its   *)
(* own that does not look at STOP.                                         *)
Load ==
  /\ pc = "load" /\ ~stopping
  /\ pc' = IF unit \in Board THEN "warm" ELSE "rows"
  /\ todo' = RowsOf(unit)
  /\ UNCHANGED <<clockVars, unit, end, busy, pending, ranOut, failed, rc, marked, broke,
                 started, judges>>

WarmUp == pc = "warm" /\ ~stopping /\ now < deadline /\ Goes("rows")

WarmUpDropped ==
  pc = "warm" /\ ~stopping /\ now >= deadline /\ Gives(TRUE, TRUE) /\ UNCHANGED broke

(* An error of the model; a SIGTERM leaves its meta failed, and stopped.   *)
ModelFails ==
  /\ pc \in {"load", "warm", "rows"} /\ Gives(TRUE, TRUE)
  /\ broke' = broke \cup {unit}

Aborted ==
  pc \in {"load", "warm", "rows"} /\ stopping /\ Gives(TRUE, TRUE)
  /\ broke' = broke \cup {unit}

OneMore  == todo >= 0                                                  \* mutant
RowsLeft == todo > 0

RowStarts ==
  /\ pc = "rows" /\ ~busy /\ RowsLeft /\ ~StopAsked /\ now < deadline
  /\ busy' = TRUE /\ todo' = todo - 1
  /\ UNCHANGED <<pc, clockVars, unit, end, pending, ranOut, failed, rc, marked, broke,
                 started, judges>>

(* A row of the board may have run out of its budget.                      *)
RowDone ==
  /\ pc = "rows" /\ busy /\ busy' = FALSE
  /\ pending' = [pending EXCEPT ![unit] = @ + 1]
  /\ ranOut' = ranOut \/ (unit \in Board /\ ranOut' = ranOut + 1)
  /\ UNCHANGED <<pc, clockVars, unit, end, todo, failed, rc, marked, broke, started,
                 judges>>

(* No row is handed out after STOP, and none goes on past the deadline.    *)
(* Stopped by the window, as WINDOW_STOP tells, the model has not failed.  *)
RunStopped ==
  /\ pc = "rows" /\ ~stopping
  /\ \/ ~busy /\ todo > 0 /\ (stop \/ now >= deadline)
     \/ busy /\ now >= deadline
  /\ Gives(TRUE, ~windowStop) /\ UNCHANGED broke

RunEnds ==
  /\ pc = "rows" /\ ~busy /\ todo = 0 /\ Gives(FALSE, FALSE) /\ UNCHANGED broke

Ran ==
  /\ pc = "ran" /\ DisarmReads /\ pc' = "disarm"
  /\ UNCHANGED <<now, firing, deadline, windowStop, stop, stopping, workVars>>

(* A unit of the board cut by the window is no failure, and the last one.  *)
AnyFailure == failed                                                   \* mutant
Failure    == failed /\ ~closed

Disarm ==
  /\ pc = "disarm" /\ DisarmClears /\ deadline' = Never
  /\ rc' = (rc \/ (unit \in Board /\ Failure))
  /\ unit' = IF unit \in Board /\ closed THEN Retry ELSE unit + 1
  /\ pc' = Site(unit')
  /\ UNCHANGED <<now, timer, firing, stopping, closed,
                 end, busy, todo, pending, ranOut, failed, marked, broke, started,
                 judges>>

Close ==
  /\ pc = "close" /\ Disarmed /\ pc' = "head"
  /\ UNCHANGED <<now, firing, stopping, closed, workVars>>

-----------------------------------------------------------------------------
(* The judge, and the end of the night.                                    *)

JudgeRoom == JudgeStopAt - now >= MinJudge
Halted    == now >= JudgeStopAt \/ now >= JudgeCut \/ stopping

(* The models the phase is for: those of the plan, then those the ladder   *)
(* ran; that one does not ask for room.                                    *)
Judged(phase) == IF phase = 1 THEN ToJudge ELSE started \cap Ladder

Judge ==
  /\ pc = "judge" /\ judges' = judges + 1
  /\ pc' = CASE stopping -> "stopped"
             [] ~stopping /\ Waiting(Judged(judges + 1)) > 0
                  /\ (judges = 1 \/ JudgeRoom)
                  -> "judgeload"
             [] OTHER -> "judged"
  /\ UNCHANGED <<clockVars, unit, end, runVars, started>>

(* The judge loads, however long it takes, and passes its canary.          *)
JudgeLoads == pc = "judgeload" /\ Goes("verdicts")
JudgeFails == pc = "judgeload" /\ Goes("judged")

VerdictStarts ==
  /\ pc = "verdicts" /\ ~busy /\ Waiting(Judged(judges)) > 0 /\ ~Halted /\ busy' = TRUE
  /\ UNCHANGED <<pc, clockVars, unit, end, todo, pending, ranOut, failed, rc, marked,
                 broke, started, judges>>

VerdictDone ==
  /\ pc = "verdicts" /\ busy /\ busy' = FALSE
  /\ \E u \in Judged(judges) : /\ pending[u] > 0
                       /\ pending' = [pending EXCEPT ![u] = @ - 1]
  /\ UNCHANGED <<pc, clockVars, unit, end, todo, ranOut, failed, rc, marked, broke,
                 started, judges>>

(* What is not judged stays pending; a verdict in flight is dropped at the *)
(* judge's deadline.                                                       *)
NoCut      == Never                                                    \* mutant
VerdictCut == JudgeCut

JudgeEnds ==
  /\ pc = "verdicts" /\ pc' = "judged" /\ busy' = FALSE
  /\ \/ ~busy /\ (Waiting(Judged(judges)) = 0 \/ Halted)
     \/ busy /\ (now >= VerdictCut \/ stopping)
  /\ UNCHANGED <<clockVars, unit, end, todo, pending, ranOut, failed, rc, marked, broke,
                 started, judges>>

ToLadder == judges = 1 /\ NumLadder > 0 /\ ~Halted /\ JudgeRoom

NightGoesOn == pc = "judged" /\ ToLadder /\ Goes("head")

NightCloses ==
  /\ pc = "judged" /\ ~ToLadder /\ Disarmed
  /\ pc' = IF stopping THEN "stopped" ELSE "report"
  /\ UNCHANGED <<now, firing, stopping, closed, workVars>>

Report == pc = "report" /\ Goes("over")

-----------------------------------------------------------------------------
(* Time, and a SIGTERM.                                                    *)

Takes == \/ pc \in {"preamble", "load", "judgeload", "report"}
         \/ pc = "warm" /\ now < deadline
         \/ pc = "rows" /\ busy /\ now < deadline
         \/ pc = "verdicts" /\ busy /\ now < VerdictCut

Tick ==
  /\ now < MaxNow /\ now' = now + 1
  /\ Takes /\ timer > now /\ firing = "no"
  /\ UNCHANGED <<pc, timer, firing, deadline, windowStop, stop, stopping, closed,
                 workVars>>

Sigterm ==
  /\ ~stopping /\ pc \notin {"over", "stopped"}
  /\ stopping' = TRUE /\ stop' = TRUE
  /\ UNCHANGED <<now, pc, timer, firing, deadline, windowStop, closed, workVars>>

(* What goes on by itself: not what may hang until it is cut.              *)
Steady == \/ Admit \/ Skip \/ HeadStops \/ Arm \/ ClearStop \/ NotRun \/ Run \/ Load
          \/ WarmUp \/ WarmUpDropped \/ Aborted \/ RowStarts \/ RunStopped
          \/ RunEnds \/ Ran \/ Disarm \/ Close \/ Judge \/ JudgeLoads
          \/ VerdictStarts \/ JudgeEnds \/ NightGoesOn \/ NightCloses \/ Report
          \/ Fire \/ Tick

Next == Steady \/ Refused \/ ModelFails \/ RowDone \/ VerdictDone \/ JudgeFails
        \/ Sigterm

Spec     == Init /\ [][Next]_vars
FairSpec == Spec /\ WF_vars(Steady)

-----------------------------------------------------------------------------
(* Properties.                                                             *)

(* The rows of the unit that its admission did not count, as far as they   *)
(* were handed out: an estimate that failed counts none, that of the retry *)
(* pass not what ran out tonight.                                          *)
Uncounted == Larger(0, (RowsOf(unit) - todo) - Planned[unit])

(* Generation "stops at judge_cut - reserve - GEN_GRACE_MIN" and its grace *)
(* ends with the reserve: while a row is in flight there is time left for  *)
(* the judge of every waiting row that the admission counts, of the plan's *)
(* judge list and of the unit, also when STOP was lost.                    *)
ReserveKept ==
  pc = "rows" /\ busy
    => now + Reserve(Waiting(ToJudge \cup {unit}) + 1 - Uncounted) <= JudgeCut

(* bench-all reports no failure for a night that was only cut by its       *)
(* window, wherever the timer's thread was when its units ended.           *)
CutIsNoFailure == rc => broke # {} \/ stopping

(* After a SIGTERM no model, judge or report is begun and no row handed    *)
(* out, although the next run clears STOP.                                 *)
StopHolds ==
  [][stopping => /\ busy' => busy
                 /\ pc' \in {"load", "judgeload", "report"} => pc' = pc]_vars

(* A night ends, however long a row or a verdict hangs.                    *)
Ends == <>(pc \in {"over", "stopped"})

(* A model that was only cut by the window is never marked failed:         *)
(* "the board shows the model as partial meanwhile, never FAILED".         *)
NeverFailed == marked \subseteq broke

(* The reserve is for "every row then waiting for a verdict", then being   *)
(* when the generation stops: the retried rows too, and the ladder's.      *)
ReserveForAll ==
  pc = "rows" /\ busy => now + Reserve(Waiting(Units) + 1) <= JudgeCut
=============================================================================

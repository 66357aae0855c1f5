----------------------------- MODULE Completion -----------------------------
(***************************************************************************)
(* How one row gets its completions, layer by layer:                       *)
(*   stream_chat         (api.py)     one request, one stream              *)
(*   stream_chat_retried (api.py)     transport retries, priority holds    *)
(*   _Ctx._chat          (runner.py)  one reload for a wrong model         *)
(*   _Ctx.call           (runner.py)  the recovery of an answer that never *)
(*                                    reached the content channel          *)
(*   run_case_repeat     (runner.py)  what the row comes to                *)
(* One row worker is modelled; the other rows of the pool are seen in what *)
(* they share with it: the reload lock and no_think_supported.  Waits are  *)
(* counted in units of the hold budget.  The rules of the whole model      *)
(* (errors in a row) and the stops before a row starts are in ModelRun; a  *)
(* row that is skipped, or finds its model evicted before it starts, is    *)
(* not here.                                                               *)
(***************************************************************************)
EXTENDS Naturals

CONSTANTS MaxRetries,  \* MAX_TRANSPORT_RETRIES
          HoldBudget,  \* PRIORITY_HOLD_WAIT_S
          MaxHint,     \* bound: the longest wait the server asks for at once
          Turns,       \* bound: the calls of a session or an agent row
          MaxOthers    \* bound: the reloads other rows make meanwhile

Kinds    == {"single", "session", "agent"}
(* An answer has content or a tool call.  The other replies have none:     *)
(* overflow ran out of budget in its reasoning, cut without any; mute      *)
(* stopped in its reasoning, blank without any.                            *)
Replies  == {"answer", "overflow", "cut", "mute", "blank"}
Reasoned == {"overflow", "mute"}
Stopped  == {"mute", "blank"}
Cuts     == {"aborted", "closed"}
Ceilings == {"stalled", "wall"}
Rejects  == {"rejected", "denied"}  \* HTTP 400, 413, 422; any other 4xx
Terminal == Ceilings \cup Rejects \cup {"generation", "exhausted", "wrong"}
Errors   == Terminal \cup Cuts \cup {"transport", "hold", "load"}
Recovery == {"nothink", "continue"}

ASSUME CompletionAssumption ==
  /\ MaxRetries \in Nat \ {0} /\ HoldBudget \in Nat \ {0}
  /\ MaxHint \in Nat \ {0} /\ Turns \in Nat \ {0}
  /\ MaxOthers \in Nat

VARIABLES
  job,      \* the row's work, a record of Job
  noThink,  \* no_think_supported
  locked,   \* another row holds reload_lock
  others,   \* how often that happened
  kind,     \* of the row
  mode,     \* none: the case is not recovered; retry, full: it is, the
            \* profile has reasoning_overflow_recovery off, on
  ABORT,    \* the hard stop
  closed    \* the deadline of the window has passed

shared == <<noThink, locked, others>>
given  == <<kind, mode, ABORT, closed>>
vars   == <<job, shared, given>>

Job ==
  [pc       : {"ask", "go", "flight", "backoff", "held", "raised", "lost",
               "reload", "replied", "end"},
   stage    : {"first", "again"} \cup Recovery,
   attempt  : 0..MaxRetries,
   held     : 0..HoldBudget,            \* held_s
   wait     : 0..HoldBudget,
   reloaded : BOOLEAN,
   error    : Errors \cup {"none"},
   reply    : Replies \cup {"none"},
   first    : Replies \cup {"none"},
   calls    : 1..Turns,
   outcome  : {"none", "row", "dropped", "stopped", "case", "wall",
               "transport", "model"},
   failed   : 0..MaxRetries,   \* history: failures in this _chat,
   waited   : 0..HoldBudget,   \* and units waited,
   ceilings : Nat,             \* requests of the call that hung,
   late     : Nat,             \* requests of the row sent after the stop,
   cut      : BOOLEAN]         \* whether one of them was cut by a stop

NewJob == [pc |-> "ask", stage |-> "first", attempt |-> 0, held |-> 0,
           wait |-> 0, reloaded |-> FALSE, error |-> "none", reply |-> "none",
           first |-> "none", calls |-> 1, outcome |-> "none", failed |-> 0,
           waited |-> 0, ceilings |-> 0, late |-> 0, cut |-> FALSE]

TypeOK ==
  /\ job \in Job
  /\ noThink \in BOOLEAN /\ locked \in BOOLEAN /\ others \in 0..MaxOthers
  /\ kind \in Kinds /\ mode \in {"none", "retry", "full"}
  /\ ABORT \in BOOLEAN /\ closed \in BOOLEAN

Init ==
  /\ job = NewJob
  /\ noThink = TRUE /\ locked = FALSE /\ others = 0
  /\ kind \in Kinds /\ mode \in {"none", "retry", "full"}
  /\ ABORT = FALSE /\ closed = FALSE

At(l) == job.pc = l

-----------------------------------------------------------------------------
(* stream_chat_retried and the request under it.                           *)

(* An exception out of stream_chat_retried.                                *)
Raise(j, e) ==
  [j EXCEPT !.pc = "raised", !.error = e, !.wait = 0, !.cut = @ \/ e \in Cuts]

(* The head of the loop: an attempt is counted, unless it is aborted.      *)
Blind == FALSE                                                     \* mutant
Heeds == ABORT

Ask ==
  /\ At("ask")
  /\ LET j == [job EXCEPT !.attempt = @ + 1]
     IN  job' = IF Heeds THEN Raise(j, "aborted") ELSE [j EXCEPT !.pc = "go"]
  /\ UNCHANGED <<shared, given>>

Send ==
  /\ At("go")
  /\ job' = IF closed THEN Raise(job, "closed")
            ELSE [job EXCEPT !.pc = "flight",
                             !.late = IF ABORT THEN @ + 1 ELSE @]
  /\ UNCHANGED <<shared, given>>

(* The stream ends with a finish_reason, usage, or [DONE] after content.   *)
Complete ==
  /\ At("flight")
  /\ \E r \in Replies : job' = [job EXCEPT !.pc = "replied", !.reply = r]
  /\ UNCHANGED <<shared, given>>

(* Between two chunks the stop and the window's end drop the stream.       *)
Drop ==
  /\ At("flight")
  /\ \/ ABORT /\ job' = Raise(job, "aborted")
     \/ closed /\ job' = Raise(job, "closed")
  /\ UNCHANGED <<shared, given>>

(* What is not retried.  A read timeout past the deadline is the window's. *)
Refuse ==
  /\ At("flight")
  /\ \E e \in Terminal :
       /\ e = "stalled" => ~closed
       /\ job' = [Raise(job, e) EXCEPT
                    !.ceilings = IF e \in Ceilings THEN @ + 1 ELSE @]
  /\ UNCHANGED <<shared, given>>

(* Unreachable, 5xx, contended VRAM, or a stream that broke off.           *)
Retries(j) == j.attempt < MaxRetries

Break ==
  /\ At("flight")
  /\ LET j == [job EXCEPT !.failed = @ + 1]
     IN  job' = IF Retries(j) THEN [j EXCEPT !.pc = "backoff"]
                              ELSE Raise(j, "transport")
  /\ UNCHANGED <<shared, given>>

(* A priority hold is waited out on its own budget.                        *)
Least(a, b) == IF a < b THEN a ELSE b

Hold ==
  /\ At("flight")
  /\ \E hint \in 1..MaxHint :
       job' = IF job.held >= HoldBudget THEN Raise(job, "hold")
              ELSE [job EXCEPT !.pc = "held",
                               !.wait = Least(hint, HoldBudget - job.held)]
  /\ UNCHANGED <<shared, given>>

(* Both waits end early on the stop.  A hold has not spent its attempt.    *)
Charged(j) ==                                                     \* mutant
  [j EXCEPT !.pc = "ask", !.held = @ + j.wait, !.wait = 0]
HeldOut(j) ==
  [j EXCEPT !.pc = "ask", !.held = @ + j.wait, !.attempt = @ - 1, !.wait = 0]

Wake ==
  /\ At("backoff") \/ At("held")
  /\ job' = IF ABORT THEN Raise(job, "aborted")
            ELSE IF At("backoff") THEN [job EXCEPT !.pc = "ask"]
            ELSE [HeldOut(job) EXCEPT !.waited = @ + job.wait]
  /\ UNCHANGED <<shared, given>>

Request == Ask \/ Send \/ Complete \/ Drop \/ Refuse \/ Break \/ Hold \/ Wake

-----------------------------------------------------------------------------
(* _chat: another model answered, which one reload may mend.               *)

Fresh(j) == [j EXCEPT !.pc = "ask", !.attempt = 0, !.held = 0,
                      !.error = "none", !.reply = "none",
                      !.failed = 0, !.waited = 0]

Always(j)   == j.error = "wrong"                                  \* mutant
Mendable(j) == j.error = "wrong" /\ ~j.reloaded

Lose ==
  /\ At("raised") /\ Mendable(job)
  /\ job' = IF ABORT THEN Raise(job, "aborted")  \* check_abort
                     ELSE [job EXCEPT !.pc = "lost"]
  /\ UNCHANGED <<shared, given>>

Reload ==
  /\ At("lost") /\ ~locked
  /\ job' = [job EXCEPT !.pc = "reload"]
  /\ UNCHANGED <<shared, given>>

(* switch_model raises an error of its provider, not a TransportError.     *)
Loaded ==
  /\ At("reload")
  /\ \/ job' = [Fresh(job) EXCEPT !.reloaded = TRUE]
     \/ job' = Raise(job, "load")
  /\ UNCHANGED <<shared, given>>

-----------------------------------------------------------------------------
(* call: the reply that is handed on, and the row it makes.                *)

Chat(j, s) == [Fresh(j) EXCEPT !.stage = s, !.reloaded = FALSE]
End(j, o)  ==
  [j EXCEPT !.pc = "end", !.outcome = o, !.attempt = 0, !.held = 0,
            !.reloaded = FALSE, !.first = "none", !.reply = "none"]

(* A session and an agent row make several calls, with a look at the stop  *)
(* between them; persist drops the rows that come after a stop.            *)
Handed(j) ==
  {End(j, IF ABORT THEN "dropped" ELSE "row")}
  \cup IF kind = "single" \/ j.calls = Turns THEN {}
       ELSE IF ABORT THEN {End(j, "stopped")}
       ELSE {[Chat(j, "first") EXCEPT !.calls = @ + 1, !.first = "none",
                                      !.ceilings = 0]}

(* The second rung goes on from the reasoning of the first reply, if any.  *)
Continue(j) ==
  IF j.first \in Reasoned THEN {Chat(j, "continue")} ELSE Handed(j)

Recover(j) == IF noThink THEN {Chat(j, "nothink")} ELSE Continue(j)

First(j) ==
  IF mode = "retry" /\ j.first \in Stopped THEN {Chat(j, "again")}
  ELSE IF mode = "full" /\ j.first \in Reasoned \cup Stopped THEN Recover(j)
  ELSE Handed(j)

Take ==
  /\ At("replied")
  /\ LET new == [job EXCEPT !.first = job.reply]
     IN  job' \in CASE job.stage = "first"    -> First(new)
                    [] job.stage = "again"    -> Handed(new)
                    [] job.stage = "continue" -> Handed(job)
                    [] job.stage = "nothink"  -> IF job.reply = "answer"
                                                 THEN Handed(job)
                                                 ELSE Continue(job)
  /\ UNCHANGED <<shared, given>>

(* A recovery request that fails leaves the first reply as it is; one the  *)
(* provider refuses is the last with that field.  Stops pass, and so does  *)
(* a reload that failed, which neither handler catches.                    *)
Everything == {"load"}                                            \* mutant
RejectOnly == Errors \ Rejects                                    \* mutant
Passing    == Cuts \cup {"load"}

Absorbed(j) == j.stage \in Recovery /\ j.error \notin Passing

Refused ==
  /\ At("raised") /\ Absorbed(job) /\ ~Mendable(job)
  /\ job.stage = "nothink" /\ job.error \in Rejects
  /\ noThink' = FALSE
  /\ job' \in Continue(job)
  /\ UNCHANGED <<locked, others, given>>

Persevere(j) == Continue(j)                                       \* mutant
GiveUp(j)    == Handed(j)

Absorb ==
  /\ At("raised") /\ Absorbed(job) /\ ~Mendable(job)
  /\ job.stage = "nothink" => job.error \notin Rejects
  /\ job' \in GiveUp(job)
  /\ UNCHANGED <<shared, given>>

(* The handlers of run_case_repeat, in their order, after that of          *)
(* _run_env_loop: the work of an agent is graded as it stands.             *)
Outcome(e) ==
  IF e = "rejected" /\ kind = "agent" THEN IF ABORT THEN "dropped" ELSE "row"
  ELSE IF e = "generation" THEN IF ABORT THEN "dropped" ELSE "case"
  ELSE IF e \in Cuts \/ ABORT THEN "stopped"
  ELSE CASE e = "load"     -> "model"
         [] e = "wall"     -> "wall"
         [] e = "rejected" -> "case"
         [] OTHER          -> "transport"

Fail ==
  /\ At("raised") /\ ~Absorbed(job) /\ ~Mendable(job)
  /\ job' = End(job, Outcome(job.error))
  /\ UNCHANGED <<shared, given>>

Work == Request \/ Lose \/ Reload \/ Loaded \/ Take \/ Refused \/ Absorb \/ Fail

-----------------------------------------------------------------------------
(* The other rows of the pool, and the stops.                              *)

OthersReload ==
  /\ ~locked /\ ~At("reload") /\ others < MaxOthers
  /\ locked' = TRUE /\ others' = others + 1
  /\ UNCHANGED <<job, noThink, given>>

OthersReloaded ==
  /\ locked /\ locked' = FALSE
  /\ UNCHANGED <<job, noThink, others, given>>

OthersRefused ==
  /\ mode = "full" /\ noThink /\ noThink' = FALSE
  /\ UNCHANGED <<job, locked, others, given>>

Stop ==
  /\ ~ABORT /\ ABORT' = TRUE
  /\ UNCHANGED <<job, shared, kind, mode, closed>>

WindowCloses ==
  /\ ~closed /\ closed' = TRUE
  /\ UNCHANGED <<job, shared, kind, mode, ABORT>>

Environment ==
  OthersReload \/ OthersReloaded \/ OthersRefused \/ Stop \/ WindowCloses

Next     == Work \/ Environment
Spec     == Init /\ [][Next]_vars
FairSpec == Spec /\ WF_vars(Work) /\ WF_vars(OthersReloaded)

-----------------------------------------------------------------------------
(* A row counts as a transport failure, three of which in a row abort the  *)
(* model, only when the server really failed it: as often as the retries   *)
(* allow, or for longer than a hold may last, or in a way that is not      *)
(* retried.  A hold by itself never brings it nearer (api.py:664-667).     *)
FailureEarned ==
  job.outcome = "transport" =>
    CASE job.error = "transport" -> job.failed = MaxRetries
      [] job.error = "hold"      -> job.waited = HoldBudget
      [] OTHER -> job.error \in {"stalled", "denied", "exhausted", "wrong"}

(* A call meets a ceiling (a stalled stream, the wall) once at most,       *)
(* through all retries, reloads and recovery requests (api.py:684-686).    *)
OneCeiling == job.ceilings <= 1

(* A row a stop cut short leaves nothing behind: neither the error that    *)
(* the stop caused nor the reply from before it, and not through the       *)
(* handlers that forgive a failed recovery request (runner.py:597-598).    *)
CutLeavesNoRow ==
  job.cut =>
    job.outcome \in {"none", "stopped", "dropped"}

(* After a hard stop the row sends one more request at most, the one for   *)
(* which it had already looked (stopflag.py: nothing new starts).          *)
StopIsHeeded == job.late <= 1

(* The recovery of an answer costs the row nothing: no failure on the way  *)
(* makes it an errored or a timed-out row (runner.py:599-600).             *)
RecoveryIsFree ==
  job.stage \in Recovery =>
    job.outcome \notin {"case", "wall", "transport"}

(* As the comment has it, also a reload on the way: a failed recovery      *)
(* request must not throw away the honest first result.                    *)
HonestFirstKept ==
  job.stage \in Recovery =>
    job.outcome \notin {"case", "wall", "transport", "model"}

(* The row ends, however the server answers: retries, holds, reloads and   *)
(* recovery requests are all bounded.                                      *)
RowEnds == <>At("end")

=============================================================================

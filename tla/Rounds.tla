------------------------------- MODULE Rounds -------------------------------
(* How the run of one model is split into load rounds, what context each   *)
(* round is loaded at, and what output budget a row is then sent           *)
(* (runner.py: plan_rounds, load_context, row_budget).  A row that needs a *)
(* wide window, for a code-bank or a ladder budget, costs the model half   *)
(* of its slots, so the wide rows have a round of their own.               *)
(* Tokens are counted in units of 256; 0 stands for None.  The rows of a   *)
(* round and its workers are in ModelRun, the requests in Completion; the  *)
(* repeats of a case are alike, so a case stands for its jobs.             *)
EXTENDS Integers, FiniteSets, Sequences, FiniteSetsExt

CONSTANTS Cases,
          Kind,      \* perf, board, bank or ladder
          Own,       \* the case's own or its set's output budget, or 0
          Needs,     \* its min_context, or 0
          Prompt,    \* tokens of its messages
          Contexts,  \* bound: the registry contexts, 0 for none
          Floors,    \* bound: the profile's context_floor, 0 for none
          Tiers,     \* bound: a tier round's context, 0 for none
          Rungs,     \* bound: escalation rungs, 0 for a run without
          Bank,      \* bank_budget
          Pad,       \* ESCALATION_CTX_PAD
          Slack,     \* BANK_WINDOW_SLACK
          Minimum,   \* the least budget a clamped row is sent
          Board      \* a board row's budget

ASSUME RoundsAssumption ==
  /\ IsFiniteSet(Cases)
  /\ Kind \in [Cases -> {"perf", "board", "bank", "ladder"}]
  /\ Own \in [Cases -> Nat] /\ Needs \in [Cases -> Nat]
  /\ Prompt \in [Cases -> Nat]
  /\ \A S \in {Contexts, Floors, Tiers, Rungs} : IsFiniteSet(S) /\ S \subseteq Nat
  /\ {Bank, Pad, Slack, Board} \subseteq Nat /\ Minimum \in Nat \ {0}
  /\ \A c \in Cases : Kind[c] = "perf" => Own[c] = 0 /\ Needs[c] = 0
  /\ \A c \in Cases : Kind[c] = "bank" => Own[c] = 0

VARIABLES
  run,     \* what the run was asked to do, a record of Run
  rounds,  \* a sequence of sets of cases
  at,      \* the round under way, from 1
  asked,   \* the context its load asked for
  ctx,     \* the context it is served at
  rows,    \* a set of records: case, round, asked, ctx, sent, skipped
  pc       \* plan, load, rows, done, failed

roundsVars == <<run, rounds, at, asked, ctx, rows, pc>>

(* A board run passes cases; recover, escalation, tier and ladder rounds   *)
(* pass jobs, and a perf job is then not selectable.                       *)
Run ==
  [board    : BOOLEAN, chosen : (SUBSET Cases) \ {{}},
   registry : Contexts, floor : Floors, least : Tiers, rung : Rungs,
   bank     : {0, Bank},
   loads    : BOOLEAN,   \* the provider loads models: type in _LOADING_TYPES
   split    : BOOLEAN]   \* run_plan.split_rig_rounds

RoundsInit ==
  /\ run \in Run
  /\ run.rung > 0 => ~run.board
  /\ rounds = <<>> /\ at = 0 /\ asked = 0 /\ ctx = 0 /\ rows = {}
  /\ pc = "plan"

-----------------------------------------------------------------------------
(* The contexts.                                                           *)

Largest(S) == Max(S \cup {0})
Larger(a, b) == Max({a, b})

FixedBudget(c) == IF Kind[c] = "bank" THEN run.bank ELSE Own[c]

(* The room that the wide rows among S need, 0 without one.                *)
WithoutPad(S) == Largest({FixedBudget(c) : c \in S})              \* mutant
WideContext(S) ==
  Largest({FixedBudget(c) + Pad : c \in {d \in S : FixedBudget(d) > 0}}
          \cup {Needs[c] : c \in {d \in S : Kind[d] = "ladder"}})

BankContext(S) ==
  IF run.bank > 0 /\ \E c \in S : Kind[c] = "bank" THEN run.bank + Pad ELSE 0

(* The registry's context, never lowered; without one no floor applies.    *)
LoadContext(S) ==
  LET base == IF run.registry = 0 THEN 0
              ELSE Max({run.registry, run.floor, run.least,
                        BankContext(S), WideContext(S)})
  IN  IF run.rung > 0 THEN Larger(base, run.rung + Pad) ELSE base

-----------------------------------------------------------------------------
(* The rounds.                                                             *)

Wide(S)     == {c \in S : WideContext({c}) > 0}
FitFloor(S) == {c \in S : WideContext({c}) <= run.floor}          \* mutant
Narrow(S)   == S \ Wide(S)

AnyPerf(S) ==                                                     \* mutant
  \/ ~run.loads \/ run.rung > 0 \/ ~run.split
  \/ Wide(S) = {} \/ \E c \in Narrow(S) : Kind[c] = "perf"
  \/ LoadContext(Narrow(S)) = LoadContext(Wide(S))
OneRound(S) ==
  \/ ~run.loads \/ run.rung > 0 \/ ~run.split
  \/ Wide(S) = {} \/ \A c \in Narrow(S) : Kind[c] = "perf"
  \/ LoadContext(Narrow(S)) = LoadContext(Wide(S))

PlanRounds ==
  /\ pc = "plan"
  /\ rounds' = LET S == run.chosen
               IN  IF OneRound(S) THEN <<S>> ELSE <<Narrow(S), Wide(S)>>
  /\ at' = 1 /\ pc' = "load"
  /\ UNCHANGED <<run, asked, ctx, rows>>

(* The rig may serve less than it was asked for.  A rung it cannot hold    *)
(* fails the model.                                                        *)
Serve ==
  /\ pc = "load"
  /\ asked' = LoadContext(rounds[at])
  /\ ctx' \in IF run.loads THEN {c \in Contexts \ {0} : c < asked'} \cup {asked'}
                           ELSE {asked'}
  /\ pc' = IF ctx' < asked' /\ ctx' < run.rung THEN "failed" ELSE "rows"
  /\ UNCHANGED <<run, rounds, at, rows>>

-----------------------------------------------------------------------------
(* The rows of a round.                                                    *)

(* Perf rows are probed in the first round of a board run.                 *)
Jobs(S) == {c \in S : Kind[c] # "perf" \/ (run.board /\ at = 1)}

Skipped(c) == ctx > 0 /\ Needs[c] > ctx

Clamped(b, c) ==
  Larger(Minimum, IF ctx > 0 THEN Min({b, ctx - Prompt[c] - Slack}) ELSE b)

RowBudget(c) ==
  IF Kind[c] = "bank" THEN IF run.bank = 0 THEN 0 ELSE Clamped(run.bank, c)
  ELSE IF Own[c] = 0 \/ run.rung > 0 THEN 0 ELSE Clamped(Own[c], c)

(* A rung is the budget of every row that has no fixed one.                *)
Sent(c) == IF RowBudget(c) > 0 THEN RowBudget(c)
           ELSE IF run.rung > 0 THEN run.rung ELSE Board

RowOf(c) ==
  [case |-> c, round |-> at, asked |-> asked, ctx |-> ctx,
   sent |-> IF Skipped(c) THEN 0 ELSE Sent(c), skipped |-> Skipped(c)]

RunRows ==
  /\ pc = "rows"
  /\ rows' = rows \cup {RowOf(c) : c \in Jobs(rounds[at])}
  /\ IF at < Len(rounds) THEN at' = at + 1 /\ pc' = "load"
                         ELSE at' = at /\ pc' = "done"
  /\ UNCHANGED <<run, rounds, asked, ctx>>

RoundsNext == PlanRounds \/ Serve \/ RunRows

RoundsSpec == RoundsInit /\ [][RoundsNext]_roundsVars

-----------------------------------------------------------------------------
(* The rounds share the jobs out: a run that ends has one row of every job *)
(* it could select, whatever kinds of rows it mixed, and of no other case. *)
EveryJobOnce ==
  pc = "done" =>
    \A c \in Cases :
      Cardinality({r \in rows : r.case = c}) =
        IF c \in run.chosen /\ (run.board \/ Kind[c] # "perf") THEN 1 ELSE 0

(* What a row may count on from the round it was put in.  Where the rig    *)
(* serves what it was asked for, a row with a fixed budget is sent the     *)
(* whole of it (and never less than the least budget), a ladder row is not *)
(* skipped for its context, and an answer as long as the rung fits behind  *)
(* a prompt of the usual length.                                           *)
BudgetIsWhole(r) ==
  (r.ctx = r.asked /\ Prompt[r.case] + Slack <= Pad /\ run.registry > 0) =>
    /\ (FixedBudget(r.case) > 0 /\ (run.rung = 0 \/ Kind[r.case] = "bank")) =>
         (r.sent = Larger(Minimum, FixedBudget(r.case)) \/ r.skipped)
    /\ Kind[r.case] = "ladder" => ~r.skipped
    /\ (run.rung >= Minimum /\ ~r.skipped) => Prompt[r.case] + r.sent + Slack <= r.ctx

(* Whatever it serves, a fixed budget never asks for more than the window  *)
(* holds, down to the least budget.                                        *)
BudgetFits(r) ==
  (FixedBudget(r.case) > 0 /\ run.rung = 0 /\ r.ctx > 0 /\ r.sent > Minimum) =>
    Prompt[r.case] + r.sent + Slack <= r.ctx

(* Both, for every row of every run.                                       *)
BudgetsHold == \A r \in rows : BudgetIsWhole(r) /\ BudgetFits(r)

(* The narrow rows never pay for the wide ones: on a rig that splits, a    *)
(* row without a wide need is loaded at the context of the narrow rows     *)
(* alone.                                                                  *)
NarrowStaysNarrow ==
  (run.loads /\ run.split /\ run.rung = 0) =>
    \A r \in rows :
      (Kind[r.case] # "perf" /\ WideContext({r.case}) = 0) =>
        r.asked = LoadContext(Narrow(run.chosen))

=============================================================================

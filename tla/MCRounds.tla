------------------------------ MODULE MCRounds ------------------------------
(* Rounds with the budgets of profiles/bench.yaml, in units of 256 tokens. *)
(* The cases: perf; board, one with a context of its own; bank, one with a *)
(* prompt longer than the pad; ladder, with a small budget, with a context *)
(* only, with both, and with neither.                                      *)
EXTENDS Rounds

CONSTANTS P1, B1, B2, C1, C2, L1, L2, L3, L4

AllCases == {P1, B1, B2, C1, C2, L1, L2, L3, L4}
KindOf   == [c \in AllCases |->
               CASE c = P1 -> "perf"
                 [] c \in {B1, B2} -> "board"
                 [] c \in {C1, C2} -> "bank"
                 [] OTHER -> "ladder"]
OwnOf    == [c \in AllCases |-> CASE c = B2 -> 256 [] c = L1 -> 64
                                  [] c = L3 -> 128 [] OTHER -> 0]
NeedsOf  == [c \in AllCases |-> CASE c = B1 -> 192 [] c = L2 -> 256
                                  [] c = L3 -> 256 [] OTHER -> 0]
PromptOf == [c \in AllCases |-> CASE c = C2 -> 40 [] OTHER -> 24]
=============================================================================

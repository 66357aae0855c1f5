----------------------------- MODULE MCNightly -----------------------------
(* Nightly for a judged case with one repeat, which may run out of budget, *)
(* and a deterministic case with two repeats.                              *)
EXTENDS Nightly

CONSTANTS c1, c2

TwoCases  == {c1, c2}
FirstCase == {c1}
OneOrTwo  == [c \in TwoCases |-> IF c = c1 THEN 1 ELSE 2]
Ends      == [c \in TwoCases |-> IF c = c1 THEN {"done", "out", "error"}
                                 ELSE {"done", "error", "permanent"}]
=============================================================================

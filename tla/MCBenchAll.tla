----------------------------- MODULE MCBenchAll -----------------------------
(* BenchAll for two models, the retry pass and a ladder run in a window of *)
(* fifteen minutes: the first model is longer than the window, the second  *)
(* has no estimate, and only what ran out tonight is retried.              *)
EXTENDS BenchAll

Estimates == <<20, 0, 2, 1>>
Counts    == <<2, 0, 0, 1>>
Answers   == <<2, 1, 0, 1>>
Old       == <<0, 0, 1, 0>>
Listed    == 1..3
=============================================================================

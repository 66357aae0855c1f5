----------------------------- MODULE MCModelRun -----------------------------
(* ModelRun on small batches: sets of model values for the jobs.           *)
EXTENDS ModelRun, TLC

CONSTANTS p1, p2, n1, n2, n3, n4, w1

OnePerf == {p1}
TwoPerf == {p1, p2}
NoWide  == {}
OneWide == {w1}
SmallRun  == {p1, n1, n2}
MixedRun  == {p1, n1, n2, w1}
NarrowRun == {n1, n2}
StormRun  == {n1, n2, n3, n4}
PerfRun   == {p1, p2, n1}

(* Narrow jobs are interchangeable.                                        *)
SlotSymmetry == Permutations(StormRun)

=============================================================================

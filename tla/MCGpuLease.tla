----------------------------- MODULE MCGpuLease -----------------------------
(* GpuLease for two processes.                                             *)
EXTENDS GpuLease, TLC

CONSTANTS p1, p2, m1, m2

TwoProcesses == {p1, p2}
OneModel     == {m1}
TwoModels    == {m1, m2}
Symmetric    == Permutations(TwoProcesses) \cup Permutations(TwoModels)
=============================================================================

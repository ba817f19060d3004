---------------------------- MODULE MCSearchJobs ----------------------------
(* Small instances of SearchJobs.                                          *)
EXTENDS SearchJobs, TLC

CONSTANTS g1, g2, j1, j2, j3

TwoGpus == {g1, g2}
OneGpu == {g1}
ThreeJobs == {j1, j2, j3}
OneRefused == {j3}
NoneRefused == {}
GpuSymmetry == Permutations(TwoGpus)
=============================================================================

--------------------------- MODULE MCGPUScheduler ---------------------------
(* Small instances of GPUScheduler for TLC.                                *)
EXTENDS GPUScheduler, TLC

CONSTANTS r1, r2, r3

MCSymmetry == Permutations(Procs)

=============================================================================

------------------------------- MODULE MCMig2Gpu -------------------------------
(* Containers for TLC.                                                          *)
EXTENDS Mig2Gpu, TLC

CONSTANTS c1, c2
Interchangeable == Permutations({c1, c2})
=============================================================================

---------------------------- MODULE MCNativeJobs ----------------------------
(* Small instances of NativeJobs.tla for TLC. Coroutines are alike.        *)
EXTENDS NativeJobs, TLC

Symmetry == Permutations(Caller)
=============================================================================

---------------------------- MODULE MCKernelCache ----------------------------
(* Instances of KernelCache for TLC. *)
EXTENDS KernelCache, TLC

CONSTANTS k1, k2

KnownAndUnknown == k1 :> "gemm" @@ k2 :> "unknown"
OneKeyStem == k1 :> "gemm"
ThreadSymmetry == Permutations(Threads)
=============================================================================

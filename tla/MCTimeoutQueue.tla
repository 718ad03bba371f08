--------------------------- MODULE MCTimeoutQueue ---------------------------
(* TimeoutQueue for TLC: ids wrap after MaxId, the payloads are symmetric. *)
EXTENDS TimeoutQueue, TLC

PtrSymmetry == Permutations(Ptrs)
=============================================================================

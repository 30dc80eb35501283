--------------------------- MODULE MCBoundedCache ---------------------------
(* BoundedCache for TLC: keys are interchangeable. *)
EXTENDS BoundedCache, TLC

KeySymmetry == Permutations(Key)
=============================================================================

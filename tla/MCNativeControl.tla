-------------------------- MODULE MCNativeControl --------------------------
(* NativeControl on small instances; README.md says why the bounds suffice. *)
EXTENDS NativeRefinement, TLC

Symmetry == Permutations(Requests)
=============================================================================

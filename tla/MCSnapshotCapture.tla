------------------------- MODULE MCSnapshotCapture -------------------------
(* SnapshotCapture on small instances; README.md says why the bounds suffice. *)
EXTENDS SnapshotRefinement, TLC

Symmetry == Permutations(Sensors)
=============================================================================

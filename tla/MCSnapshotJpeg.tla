--------------------------- MODULE MCSnapshotJpeg ---------------------------
(* SnapshotJpeg on a small instance; README.md says why the bound suffices. *)
EXTENDS SnapshotJpeg
=============================================================================

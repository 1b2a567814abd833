---------------------------- MODULE MCRosStream ----------------------------
(* RosStream on a small instance; README.md says why the bounds suffice. *)
EXTENDS RosStream, TLC
=============================================================================

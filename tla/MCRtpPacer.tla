----------------------------- MODULE MCRtpPacer -----------------------------
(* RtpPacer on a small instance; README.md says why the bounds suffice. *)
EXTENDS RtpPacer, TLC
=============================================================================

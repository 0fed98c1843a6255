--------------------------- MODULE MCMumbleRoster ---------------------------
(* Instances of MumbleRoster.                                              *)
EXTENDS MumbleRoster
=============================================================================

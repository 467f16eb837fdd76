---------------------------- MODULE MCSessionRun ----------------------------
(* Two runs that compete for one session, from an empty or a fresh store. *)
EXTENDS SessionRun
=============================================================================

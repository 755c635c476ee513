---------------------------- MODULE MCCgiSession ----------------------------
(* CgiSession with small pipes, bodies and clocks for TLC. *)
EXTENDS CgiSession
=============================================================================

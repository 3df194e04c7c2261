------------------------------- MODULE MCCall -------------------------------
(* Small instances of Call for TLC. *)
EXTENDS Call
============================================================================

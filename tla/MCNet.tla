------------------------------- MODULE MCNet -------------------------------
(* Small instances of Net for TLC. *)
EXTENDS Net
============================================================================

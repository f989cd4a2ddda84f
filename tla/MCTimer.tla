------------------------------- MODULE MCTimer -------------------------------
(* Small instances of the timer. *)
EXTENDS Timer
==============================================================================

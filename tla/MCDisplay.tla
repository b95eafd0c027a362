------------------------------ MODULE MCDisplay -------------------------------
(* Display is finite as it stands. *)
EXTENDS Display

===============================================================================

------------------------------ MODULE MCDispatch ------------------------------
(* A debounce time of one tick: a call within the tick comes too early.     *)
EXTENDS Dispatch

===============================================================================

------------------------------- MODULE MCWheel --------------------------------
(* Wheel on a clock of 100 ms: two ticks between accepted presses, one      *)
(* between polls, five for the warning.                                     *)
EXTENDS Wheel

UNIT_MS     == 100
MCDebounce  == 200 \div UNIT_MS
MCPoll      == 100 \div UNIT_MS
MCWarnDelay == 500 \div UNIT_MS

===============================================================================

---------------------------- MODULE MCPushButton ----------------------------
(* PushButton on a clock of 50 ms: the debounce time of 200 ms is 4 ticks,  *)
(* a contact settles within one tick and a push lasts at most 4.            *)
EXTENDS PushButton

UNIT_MS    == 50
MCDebounce == 200 \div UNIT_MS
MCBounce   == 1
MCPress    == 4

=============================================================================

------------------------------- MODULE MCPacing -------------------------------
(* The wire of display.c:16 and the defaults of ESP-IDF: the repository has *)
(* no sdkconfig.  Ten microseconds are spent on a transfer besides its bits. *)
EXTENDS Pacing

MCTimeout == 5 * 1000 * 1000

(* What the proofs of module PacingProofs ask of these numbers.            *)
ASSUME MCAffordable == Affordable /\ pdMS_TO_TICKS(DEFAULT_DELAY) > 0

===============================================================================

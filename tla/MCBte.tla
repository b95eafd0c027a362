-------------------------------- MODULE MCBte ---------------------------------
(* Bte with small times and images of up to three blocks.                   *)
EXTENDS Bte

MCCopies    == {"move", "fill"}
MCEverything == {"write", "move", "fill"}
MCSlow      == 12          \* the engine, and the boot
MCPatient   == 13          \* polls: one more than the engine needs
MCTime      == 3
MCImpatient == 2           \* polls, and a boot that is too fast
MCBlock     == 2
MCImage     == 5

===============================================================================

-------------------------------- MODULE MCBoot --------------------------------
(* Every order of failures, restarts of the ESP32 and starts of the panel.  *)
EXTENDS Boot

===============================================================================

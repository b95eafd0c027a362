------------------------------- MODULE Screens --------------------------------
(***************************************************************************)
(* The screens of display.h, and the way the buttons lead through them, as *)
(* a driver would be told.  The task of module Wheel takes these turns     *)
(* with the statements of main.c, not with these operators.                *)
(***************************************************************************)

Screen == {"MAIN_NO_LAPS", "MAIN_LAPS", "DEBUG_RTD", "DEBUG_NO_RTD", "WARN"}

(* The mode button goes between driving and not driving.                   *)
AfterMode(s) == IF s = "DEBUG_NO_RTD" THEN "MAIN_NO_LAPS" ELSE "DEBUG_NO_RTD"

(* The submode button goes round the screens of the drive, by way of the   *)
(* warning, and does nothing outside it.                                   *)
AfterSubmode(s) ==
  CASE s = "MAIN_NO_LAPS" -> "MAIN_LAPS"
    [] s = "MAIN_LAPS"    -> "WARN"
    [] s = "DEBUG_RTD"    -> "MAIN_NO_LAPS"
    [] OTHER              -> s

===============================================================================

------------------------------- MODULE Dashboard ------------------------------
(***************************************************************************)
(* The whole program: the task of main.c, the interrupts of controller.c   *)
(* and every call by which display.c draws on the panel, from power on.    *)
(*                                                                         *)
(* An interrupt may fall between any two calls to the panel and any two    *)
(* accesses to a flag.  Ticks pass at any time; what the delays do to the  *)
(* order of things is in module Wheel.  Module Pacing puts the steps       *)
(* together, with the time that the drawing takes.                         *)
(***************************************************************************)
EXTENDS Controller, Display

VARIABLE
  pc    (* Where app_main is, or where the drawing under way returns to.   *)

allVars == <<controllerVars, vars, pc>>

PowerOn == ControllerStatics /\ Init /\ pc = "addMode"

-----------------------------------------------------------------------------

At(location) == job = "none" /\ pc = location

(* Controller_Init.                                                        *)
AddHandler(b, here, there) ==
  /\ At(here)
  /\ Controller_AddHandler(b)
  /\ pc' = there
  /\ UNCHANGED vars

(* A flag is read, and it is reset.                                        *)
Check(b, here, set, clear) ==
  /\ At(here)
  /\ pc' = IF pressed[b] THEN set ELSE clear
  /\ UNCHANGED <<controllerVars, vars>>

Clear(b, here, there) ==
  /\ At(here)
  /\ pressed' = [pressed EXCEPT ![b] = FALSE]
  /\ pc' = there
  /\ UNCHANGED <<elapsed, handlers, vars>>

(* Display_SwitchScreen with its early return.                             *)
SwitchTo(s, location) ==
  /\ pc' = location
  /\ IF CURRENT_SCREEN = s THEN UNCHANGED vars ELSE Display_SwitchScreen(s)
  /\ UNCHANGED controllerVars

ToggleWhetherDrive ==
  /\ At("toggleMode")
  /\ SwitchTo(IF CURRENT_SCREEN = "DEBUG_NO_RTD" THEN "MAIN_NO_LAPS"
                                                 ELSE "DEBUG_NO_RTD", "pause")

(* Mutant: the warning is left to whoever calls next. *)
ToggleDuringDriveUnwarned ==
  /\ At("toggleSubmode")
  /\ \/ CURRENT_SCREEN = "MAIN_NO_LAPS" /\ SwitchTo("MAIN_LAPS", "pause")
     \/ CURRENT_SCREEN = "MAIN_LAPS"    /\ SwitchTo("WARN", "pause")
     \/ CURRENT_SCREEN = "DEBUG_RTD"    /\ SwitchTo("MAIN_NO_LAPS", "pause")
     \/ /\ CURRENT_SCREEN \in {"DEBUG_NO_RTD", "WARN"}
        /\ pc' = "pause"
        /\ UNCHANGED <<controllerVars, vars>>

ToggleDuringDrive ==
  /\ At("toggleSubmode")
  /\ \/ CURRENT_SCREEN = "MAIN_NO_LAPS" /\ SwitchTo("MAIN_LAPS", "pause")
     \/ CURRENT_SCREEN = "MAIN_LAPS"    /\ SwitchTo("WARN", "warned")
     \/ CURRENT_SCREEN = "DEBUG_RTD"    /\ SwitchTo("MAIN_NO_LAPS", "pause")
     \/ /\ CURRENT_SCREEN \in {"DEBUG_NO_RTD", "WARN"}
        /\ pc' = "pause"
        /\ UNCHANGED <<controllerVars, vars>>

EndWarning == At("endWarning") /\ SwitchTo("DEBUG_RTD", "pause")

(* The vTaskDelay of main.c.                                               *)
Wait(here, there) ==
  /\ At(here)
  /\ pc' = there
  /\ UNCHANGED <<controllerVars, vars>>

Warned == Wait("warned", "endWarning")
Pause  == Wait("pause", "checkMode")

Loop ==
  \/ AddHandler("mode", "addMode", "addSubmode")
  \/ AddHandler("submode", "addSubmode", "checkMode")
  \/ Check("mode", "checkMode", "clearMode", "checkSubmode")
  \/ Clear("mode", "clearMode", "toggleMode")
  \/ Check("submode", "checkSubmode", "clearSubmode", "pause")
  \/ Clear("submode", "clearSubmode", "toggleSubmode")
  \/ ToggleWhetherDrive \/ ToggleDuringDrive \/ EndWarning

Interrupt(b) ==
  /\ Controller_ISR(b) \/ Controller_ISR_Reject(b)
  /\ UNCHANGED <<vars, pc>>

Tick == Controller_TimePasses /\ UNCHANGED <<vars, pc>>

-----------------------------------------------------------------------------
(* What the driver sees, by the picture that is on the panel.  While it is *)
(* drawn, the screen before counts; the wheel boots into its first screen. *)

Seen == LET shown == {s \in Screen : layer[0] = Picture(s)}
        IN  IF \E s \in Screen : shown = {s} THEN CHOOSE s \in Screen : s \in shown
                                             ELSE "unknown"

Booting == job # "none" /\ pc = "addMode"

Screened == CASE Booting -> "DEBUG_NO_RTD"
              [] ~ Booting /\ job # "none" -> CURRENT_SCREEN
              [] OTHER -> Seen

Decided == CASE Booting -> "DEBUG_NO_RTD"
             [] ~ Booting /\ job # "none" -> job
             [] At("toggleMode")    -> AfterMode(Seen)
             [] At("toggleSubmode") -> AfterSubmode(Seen)
             [] At("endWarning")    -> "WARN"
             [] OTHER -> Seen

View == INSTANCE WheelView
  WITH want <- pressed, screen <- Screened, next <- Decided

(* From the edges of the buttons to the picture on the panel, the program  *)
(* keeps the promise of WheelView, its fairness included: what the driver  *)
(* sees is the screen that the buttons were to lead to (main.c:48-61,      *)
(* display.c:502-527).                                                     *)
PicturesFollowButtons == View!Spec

===============================================================================

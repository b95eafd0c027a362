-------------------------------- MODULE Wheel ---------------------------------
(***************************************************************************)
(* The task of main/main.c against the interrupts of main/controller.c:    *)
(* app_main draws the first screen, registers the buttons, and then polls  *)
(* their flags for ever, switching screens.                                *)
(*                                                                         *)
(* Every access of the task to a variable it shares with the interrupts is *)
(* a step of its own, and so are the two ends of a drawing: a press may be *)
(* accepted between any two of them.  Drawing takes any number of ticks.   *)
(* What a drawing consists of is the subject of module Display; here the   *)
(* panel is unfinished from the first write of a drawing to the last.      *)
(***************************************************************************)
EXTENDS Controller, Screens

CONSTANTS
  POLL,         (* The 100 ms between two polls (main.c:60), in ticks.     *)
  WARN_DELAY    (* The 500 ms of the warning (main.c:28), in ticks.        *)

ASSUME WheelAssumption == POLL \in Nat /\ WARN_DELAY \in Nat

VARIABLES
  pc,             (* Where app_main is.                                    *)
  CURRENT_SCREEN, (* The global of display.c:106.                          *)
  nextScreen,     (* Argument of the Display_SwitchScreen under way.       *)
  returnTo,       (* Where that call returns to.                           *)
  panel,          (* What the driver sees.                                 *)
  delay           (* Ticks for which vTaskDelay still blocks the task.     *)

taskVars == <<pc, CURRENT_SCREEN, nextScreen, returnTo, panel, delay>>

VARIABLES         (* History, read by no action.                           *)
  unserved,       (* b was pressed since app_main last acted on b.         *)
  credit,         (* Presses of b less actions on b; it stops at 2.        *)
  warnTicks       (* Ticks the warning has been on the panel.              *)

historyVars == <<unserved, credit, warnTicks>>
vars == <<controllerVars, taskVars, historyVars>>

Location ==
  {"boot", "firstScreen", "addMode", "addSubmode",
   "checkMode", "clearMode", "toggleMode",
   "checkSubmode", "clearSubmode", "toggleSubmode",
   "paint", "commit", "warned", "endWarning", "pause"}

(* CURRENT_SCREEN is a screen of display.h, the task is at a statement of  *)
(* main.c, and vTaskDelay is called with the delays written there.         *)
TypeOK ==
  /\ ControllerTypeOK
  /\ pc \in Location
  /\ CURRENT_SCREEN \in Screen
  /\ nextScreen \in Screen
  /\ returnTo \in {"addMode", "warned", "pause"}
  /\ panel \in Screen \union {"blank", "unfinished"}
  /\ delay \in 0 .. POLL + WARN_DELAY
  /\ unserved \in [Button -> BOOLEAN]
  /\ credit \in [Button -> 0 .. 2]
  /\ warnTicks \in 0 .. WARN_DELAY

(* CURRENT_SCREEN has no initialiser: it starts at 0, SCREEN_MAIN_NO_LAPS, *)
(* while the panel shows nothing.                                          *)
Init ==
  /\ ControllerStatics
  /\ pc = "boot"
  /\ CURRENT_SCREEN = "MAIN_NO_LAPS"
  /\ nextScreen = "MAIN_NO_LAPS"
  /\ returnTo = "addMode"
  /\ panel = "blank"
  /\ delay = 0
  /\ unserved  = [b \in Button |-> FALSE]
  /\ credit    = [b \in Button |-> 0]
  /\ warnTicks = 0

-----------------------------------------------------------------------------
(* Steps of app_main.  A task that vTaskDelay blocks takes none.           *)

At(location) == pc = location /\ delay = 0

(* vTaskDelay(n): the task wakes at the n-th tick from now.                *)
Delay(n, location) ==
  /\ delay' = n
  /\ pc' = location
  /\ UNCHANGED <<CURRENT_SCREEN, nextScreen, returnTo, panel>>

(* Display_SwitchScreen, up to the first write of the drawing.             *)
Display_SwitchScreen(s, location) ==
  /\ IF CURRENT_SCREEN = s
       THEN pc' = location /\ UNCHANGED <<nextScreen, returnTo, panel>>
       ELSE /\ pc' = "paint"
            /\ nextScreen' = s
            /\ returnTo' = location
            /\ panel' = "unfinished"
  /\ UNCHANGED <<CURRENT_SCREEN, delay>>

(* The last write of the drawing.                                          *)
Paint ==
  /\ At("paint")
  /\ panel' = nextScreen
  /\ pc' = "commit"
  /\ warnTicks' = 0
  /\ UNCHANGED <<controllerVars, CURRENT_SCREEN, nextScreen, returnTo, delay,
                 unserved, credit>>

(* Mutant: the flag of mode is reset when its screen is up. *)
CommitAndClear ==
  /\ At("commit")
  /\ CURRENT_SCREEN' = nextScreen
  /\ pc' = returnTo
  /\ pressed' = [pressed EXCEPT !["mode"] = FALSE]
  /\ UNCHANGED <<elapsed, handlers, nextScreen, returnTo, panel, delay, historyVars>>

(* The assignment to CURRENT_SCREEN that ends Display_SwitchScreen.        *)
Commit ==
  /\ At("commit")
  /\ CURRENT_SCREEN' = nextScreen
  /\ pc' = returnTo
  /\ UNCHANGED <<controllerVars, nextScreen, returnTo, panel, delay, historyVars>>

(* Display_Init, up to its last call.                                      *)
Boot ==
  /\ At("boot")
  /\ panel' = "unfinished"
  /\ pc' = "firstScreen"
  /\ UNCHANGED <<controllerVars, CURRENT_SCREEN, nextScreen, returnTo, delay,
                 historyVars>>

(* Mutant: the wheel boots into the screen CURRENT_SCREEN starts with. *)
FirstScreenMain ==
  /\ At("firstScreen")
  /\ Display_SwitchScreen("MAIN_NO_LAPS", "addMode")
  /\ UNCHANGED <<controllerVars, historyVars>>

FirstScreen ==
  /\ At("firstScreen")
  /\ Display_SwitchScreen("DEBUG_NO_RTD", "addMode")
  /\ UNCHANGED <<controllerVars, historyVars>>

(* Controller_Init.                                                        *)
AddHandler(b, here, there) ==
  /\ At(here)
  /\ Controller_AddHandler(b)
  /\ pc' = there
  /\ UNCHANGED <<CURRENT_SCREEN, nextScreen, returnTo, panel, delay, historyVars>>

AddHandlers ==
  \/ AddHandler("mode", "addMode", "addSubmode")
  \/ AddHandler("submode", "addSubmode", "checkMode")

(* The reads of the flags.                                                 *)
Check(b, here, set, clear) ==
  /\ At(here)
  /\ pc' = IF pressed[b] THEN set ELSE clear
  /\ UNCHANGED <<controllerVars, CURRENT_SCREEN, nextScreen, returnTo, panel,
                 delay, historyVars>>

(* Mutant: submode comes first, and its flag alone is looked at then. *)
CheckModeLast ==
  Check("mode", "checkMode",
        IF pressed["submode"] THEN "checkSubmode" ELSE "clearMode", "checkSubmode")

CheckMode == Check("mode", "checkMode", "clearMode", "checkSubmode")

(* Mutant: the test of the flag of submode is the wrong way round. *)
CheckSubmodeNegated == Check("submode", "checkSubmode", "pause", "clearSubmode")

CheckSubmode == Check("submode", "checkSubmode", "clearSubmode", "pause")

(* The writes to the flags.                                                *)
Clear(b, here, there) ==
  /\ At(here)
  /\ pressed' = [pressed EXCEPT ![b] = FALSE]
  /\ pc' = there
  /\ UNCHANGED <<elapsed, handlers, CURRENT_SCREEN, nextScreen, returnTo, panel,
                 delay, historyVars>>

(* Mutant: the flag of mode is not reset. *)
ClearModeForgotten ==
  /\ At("clearMode")
  /\ pc' = "toggleMode"
  /\ UNCHANGED <<controllerVars, CURRENT_SCREEN, nextScreen, returnTo, panel,
                 delay, historyVars>>

ClearMode    == Clear("mode", "clearMode", "toggleMode")
ClearSubmode == Clear("submode", "clearSubmode", "toggleSubmode")

(* The task acts on a press of b.                                          *)
Serve(b) ==
  /\ unserved' = [unserved EXCEPT ![b] = FALSE]
  /\ credit'   = [credit EXCEPT ![b] = IF @ > 0 THEN @ - 1 ELSE 0]
  /\ UNCHANGED <<controllerVars, warnTicks>>

ToggleWhetherDrive ==
  /\ At("toggleMode")
  /\ Serve("mode")
  /\ Display_SwitchScreen(IF CURRENT_SCREEN = "DEBUG_NO_RTD"
                            THEN "MAIN_NO_LAPS" ELSE "DEBUG_NO_RTD", "pause")

(* Mutant: the debug screen leads back into the laps. *)
ToggleIntoLaps ==
  /\ At("toggleSubmode")
  /\ Serve("submode")
  /\ \/ /\ CURRENT_SCREEN \in {"MAIN_NO_LAPS", "DEBUG_RTD"}
        /\ Display_SwitchScreen("MAIN_LAPS", "pause")
     \/ CURRENT_SCREEN = "MAIN_LAPS" /\ Display_SwitchScreen("WARN", "warned")
     \/ /\ CURRENT_SCREEN \in {"DEBUG_NO_RTD", "WARN"}
        /\ pc' = "pause"
        /\ UNCHANGED <<CURRENT_SCREEN, nextScreen, returnTo, panel, delay>>

(* The cases of ToggleDuringDrive, and the test of its caller.             *)
ToggleDuringDrive ==
  /\ At("toggleSubmode")
  /\ Serve("submode")
  /\ \/ CURRENT_SCREEN = "MAIN_NO_LAPS" /\ Display_SwitchScreen("MAIN_LAPS", "pause")
     \/ CURRENT_SCREEN = "MAIN_LAPS"    /\ Display_SwitchScreen("WARN", "warned")
     \/ CURRENT_SCREEN = "DEBUG_RTD"    /\ Display_SwitchScreen("MAIN_NO_LAPS", "pause")
     \/ /\ CURRENT_SCREEN \in {"DEBUG_NO_RTD", "WARN"}
        /\ pc' = "pause"
        /\ UNCHANGED <<CURRENT_SCREEN, nextScreen, returnTo, panel, delay>>

(* Mutant: the warning is not held. *)
WarnedBriefly ==
  /\ At("warned")
  /\ Delay(0, "endWarning")
  /\ UNCHANGED <<controllerVars, historyVars>>

Warned ==
  /\ At("warned")
  /\ Delay(WARN_DELAY, "endWarning")
  /\ UNCHANGED <<controllerVars, historyVars>>

(* Mutant: nothing follows the warning. *)
EndWarningForgotten ==
  /\ At("endWarning")
  /\ pc' = "pause"
  /\ UNCHANGED <<controllerVars, CURRENT_SCREEN, nextScreen, returnTo, panel,
                 delay, historyVars>>

EndWarning ==
  /\ At("endWarning")
  /\ Display_SwitchScreen("DEBUG_RTD", "pause")
  /\ UNCHANGED <<controllerVars, historyVars>>

(* Mutant: 1000 ms instead of 100. *)
PauseTooLong ==
  /\ At("pause")
  /\ Delay(10 * POLL, "checkMode")
  /\ UNCHANGED <<controllerVars, historyVars>>

Pause ==
  /\ At("pause")
  /\ Delay(POLL, "checkMode")
  /\ UNCHANGED <<controllerVars, historyVars>>

Task ==
  \/ Boot \/ FirstScreen \/ AddHandlers
  \/ CheckMode \/ ClearMode \/ ToggleWhetherDrive
  \/ CheckSubmode \/ ClearSubmode \/ ToggleDuringDrive
  \/ Paint \/ Commit \/ Warned \/ EndWarning \/ Pause

-----------------------------------------------------------------------------

(* An edge of button b, at any moment.                                     *)
Interrupt(b) ==
  /\ \/ /\ Controller_ISR(b)
        /\ unserved' = [unserved EXCEPT ![b] = TRUE]
        /\ credit'   = [credit EXCEPT ![b] = IF @ < 2 THEN @ + 1 ELSE 2]
     \/ /\ Controller_ISR_Reject(b)
        /\ UNCHANGED <<unserved, credit>>
  /\ UNCHANGED <<taskVars, warnTicks>>

Tick ==
  /\ Controller_TimePasses
  /\ delay' = IF delay > 0 THEN delay - 1 ELSE 0
  /\ warnTicks' = IF panel = "WARN" /\ warnTicks < WARN_DELAY
                    THEN warnTicks + 1 ELSE warnTicks
  /\ UNCHANGED <<pc, CURRENT_SCREEN, nextScreen, returnTo, panel, unserved, credit>>

Next == Task \/ (\E b \in Button : Interrupt(b)) \/ Tick

Spec == Init /\ [][Next]_vars

(* The scheduler runs app_main whenever it is ready, and time passes.  No  *)
(* fairness of the buttons: nobody has to press them.                      *)
FairSpec == Spec /\ WF_vars(Task) /\ WF_vars(Tick)

-----------------------------------------------------------------------------

Toggling(b) == pc = IF b = "mode" THEN "toggleMode" ELSE "toggleSubmode"

(* An accepted press is never forgotten: until the task acts on it, its    *)
(* flag is set or the task is about to act.  The flag is cleared before    *)
(* the screen is looked at (main.c:50-51, 53-56), so a press that falls in *)
(* between, or anywhere in the drawing, is found by a later poll.          *)
NoLostPress == \A b \in Button : unserved[b] => pressed[b] \/ Toggling(b)

(* The task never acts more often than the buttons were pressed: each flag *)
(* set, and each action under way, has a press of its own.                 *)
NoPhantomToggle ==
  \A b \in Button :
    credit[b] >= (IF pressed[b] THEN 1 ELSE 0) + (IF Toggling(b) THEN 1 ELSE 0)

Drawing == pc \in {"boot", "firstScreen", "paint", "commit"}

(* The toggles decide by CURRENT_SCREEN; whenever they may, it is what the *)
(* panel shows, although it starts as a screen that nobody has drawn       *)
(* (display.c:106, 504).                                                   *)
PanelAgrees == ~ Drawing => panel = CURRENT_SCREEN

(* The warning is over before the buttons are looked at again: no case of  *)
(* ToggleDuringDrive (main.c:34) is for it, and the mode button would skip *)
(* the screen that has to follow it.                                       *)
NeverWarnAtPoll ==
  pc \in {"checkMode", "clearMode", "toggleMode",
          "checkSubmode", "clearSubmode", "toggleSubmode", "pause"}
    => CURRENT_SCREEN # "WARN"

(* The warning leaves the panel only after the 500 ms of main.c:28, and    *)
(* only for the debug screen of the drive, whatever is pressed meanwhile.  *)
WarningSeen ==
  [][panel = "WARN" /\ panel' # "WARN"
       => warnTicks >= WARN_DELAY /\ nextScreen' = "DEBUG_RTD"]_vars

-----------------------------------------------------------------------------

(* A press of mode is acted on, however the submode button is used.        *)
ModeServed == pressed["mode"] ~> pc = "toggleMode"

(* A press of submode is acted on once the driver leaves mode alone: the   *)
(* flag of submode is read only when that of mode is not set (main.c:52).  *)
SubmodeServed ==
  <>[](~ pressed["mode"]) => (pressed["submode"] ~> pc = "toggleSubmode")

(* The wheel never stays in the warning (main.c:27-29).                    *)
WarningEnds == CURRENT_SCREEN = "WARN" ~> CURRENT_SCREEN = "DEBUG_RTD"

-----------------------------------------------------------------------------
(* What the driver is promised.  The decision on the next screen falls     *)
(* when the task clears the flag: nothing that it depends on changes       *)
(* before the toggle looks.  While the wheel boots, it is on its way to    *)
(* the screen without drive.                                               *)

Booting == pc \in {"boot", "firstScreen"} \/ (Drawing /\ returnTo = "addMode")

shownScreen == IF Booting THEN "DEBUG_NO_RTD" ELSE CURRENT_SCREEN

decidedScreen ==
  CASE pc = "toggleMode"        -> AfterMode(CURRENT_SCREEN)
    [] pc = "toggleSubmode"     -> AfterSubmode(CURRENT_SCREEN)
    [] pc \in {"paint", "commit"} -> IF Booting THEN "DEBUG_NO_RTD" ELSE nextScreen
    [] OTHER                    -> shownScreen

View == INSTANCE WheelView
  WITH want <- pressed, screen <- shownScreen, next <- decidedScreen

(* The task and its interrupts do what WheelView says, step by step, and   *)
(* keep its promise that presses are answered (main.c:48-61).              *)
ImplementsView == View!Spec

===============================================================================

----------------------------- MODULE WheelProofs ------------------------------
(***************************************************************************)
(* Proofs about module Wheel, for every debounce time, poll period and     *)
(* warning delay.                                                          *)
(***************************************************************************)
EXTENDS Wheel, TLAPS

(* What holds at each location of app_main.  Together with TypeOK this is  *)
(* inductive, and the properties of module Wheel follow from it.           *)
BootInv ==
  /\ pc = "boot" => panel = "blank"
  /\ pc = "firstScreen" => panel = "unfinished"
  /\ pc \in {"boot", "firstScreen"} => CURRENT_SCREEN = "MAIN_NO_LAPS"
  /\ pc \in {"addMode", "addSubmode"} => CURRENT_SCREEN = "DEBUG_NO_RTD"

DrawInv ==
  /\ pc = "paint" => panel = "unfinished"
  /\ pc = "commit" => panel = nextScreen
  /\ pc \in {"paint", "commit"} =>
       /\ nextScreen # CURRENT_SCREEN
       /\ nextScreen = "WARN" <=> returnTo = "warned"
       /\ returnTo = "addMode" => nextScreen = "DEBUG_NO_RTD"
       /\ CURRENT_SCREEN = "WARN" => nextScreen = "DEBUG_RTD" /\ returnTo = "pause"

WarnInv ==
  /\ pc \in {"warned", "endWarning"} => CURRENT_SCREEN = "WARN"
  /\ pc = "endWarning" => warnTicks + delay >= WARN_DELAY

ServeInv ==
  /\ pc = "clearMode" => pressed["mode"]
  /\ pc = "clearSubmode" => pressed["submode"]

ScreenInv == BootInv /\ DrawInv /\ WarnInv /\ PanelAgrees /\ NeverWarnAtPoll

PressInv == ServeInv /\ NoLostPress /\ NoPhantomToggle

IInv == TypeOK /\ ScreenInv /\ PressInv

-----------------------------------------------------------------------------

USE DebounceAssumption, WheelAssumption

(* The statics of controller.c and display.c satisfy the invariant.        *)
LEMMA InitIInv == Init => IInv
  BY DEF Init, IInv, TypeOK, ScreenInv, BootInv, DrawInv, WarnInv, PanelAgrees,
         NeverWarnAtPoll, PressInv, ServeInv, NoLostPress, NoPhantomToggle, Drawing,
         Toggling, ControllerStatics, ControllerTypeOK, Location, Screen, Button

(* No statement of the task and no interrupt leaves the types.             *)
LEMMA TypeStep == TypeOK /\ [Next]_vars => TypeOK'
<1> SUFFICES ASSUME TypeOK, [Next]_vars PROVE TypeOK'
  OBVIOUS
<1> USE DEF TypeOK, ControllerTypeOK, Location, Screen, Button, At
<1>1. CASE Boot
  BY <1>1 DEF Boot, controllerVars, historyVars
<1>2. CASE FirstScreen
  BY <1>2 DEF FirstScreen, Display_SwitchScreen, controllerVars, historyVars
<1>3. CASE AddHandlers
  BY <1>3, ZenonT(60) DEF AddHandlers, AddHandler, Controller_AddHandler, historyVars
<1>4. CASE CheckMode \/ CheckSubmode
  BY <1>4, ZenonT(60) DEF CheckMode, CheckSubmode, Check, controllerVars, historyVars
<1>5. CASE ClearMode \/ ClearSubmode
  BY <1>5, ZenonT(60) DEF ClearMode, ClearSubmode, Clear, historyVars
<1>6. CASE ToggleWhetherDrive
  BY <1>6 DEF ToggleWhetherDrive, Serve, Display_SwitchScreen, controllerVars
<1>7. CASE ToggleDuringDrive
  BY <1>7 DEF ToggleDuringDrive, Serve, Display_SwitchScreen, controllerVars
<1>8. CASE Paint
  BY <1>8 DEF Paint, controllerVars
<1>9. CASE Commit
  BY <1>9 DEF Commit, controllerVars, historyVars
<1>10. CASE Warned \/ Pause
  <2>1. WARN_DELAY \in 0 .. POLL + WARN_DELAY /\ POLL \in 0 .. POLL + WARN_DELAY
    OBVIOUS
  <2> QED
    BY <1>10, <2>1, ZenonT(60) DEF Warned, Pause, Delay, controllerVars, historyVars
<1>11. CASE EndWarning
  BY <1>11 DEF EndWarning, Display_SwitchScreen, controllerVars, historyVars
<1>12. ASSUME NEW b \in Button, Interrupt(b) PROVE TypeOK'
  <2>1. CASE Controller_ISR_Reject(b)
    BY <1>12, <2>1 DEF Interrupt, Controller_ISR, Controller_ISR_Reject, Debounced,
                       controllerVars, taskVars
  <2>2. CASE Controller_ISR(b)
    <3>1. pressed' = [pressed EXCEPT ![b] = TRUE] /\ pressed' \in [Button -> BOOLEAN]
      BY <2>2 DEF Controller_ISR
    <3>2. elapsed' \in [Button -> 0 .. DEBOUNCE + 1]
      BY <2>2 DEF Controller_ISR
    <3>3. unserved' \in [Button -> BOOLEAN]
      BY <1>12 DEF Interrupt
    <3>4. credit' \in [Button -> 0 .. 2]
      BY <1>12 DEF Interrupt
    <3> QED
      BY <1>12, <2>2, <3>1, <3>2, <3>3, <3>4 DEF Interrupt, Controller_ISR, taskVars
  <2> QED
    BY <1>12, <2>1, <2>2 DEF Interrupt
<1>13. CASE Tick
  BY <1>13 DEF Tick, Controller_TimePasses, Debounced
<1>14. CASE UNCHANGED vars
  BY <1>14 DEF vars, controllerVars, taskVars, historyVars
<1> QED
  BY <1>1, <1>2, <1>3, <1>4, <1>5, <1>6, <1>7, <1>8, <1>9, <1>10, <1>11, <1>12,
     <1>13, <1>14 DEF Next, Task

-----------------------------------------------------------------------------
(* Screens and panel.                                                      *)

(* Panel, CURRENT_SCREEN and the warning stay in step through every drawing *)
(* (display.c:502-526, main.c:21-37).                                      *)
LEMMA ScreenStep == TypeOK /\ ScreenInv /\ [Next]_vars => ScreenInv'
<1> SUFFICES ASSUME TypeOK, ScreenInv, [Next]_vars PROVE ScreenInv'
  OBVIOUS
<1> USE DEF ScreenInv, BootInv, DrawInv, WarnInv, PanelAgrees, NeverWarnAtPoll,
            Drawing, At
<1>1. CASE Boot
  BY <1>1 DEF Boot, historyVars
<1>2. CASE FirstScreen
  BY <1>2 DEF FirstScreen, Display_SwitchScreen, historyVars
<1>3. CASE AddHandlers
  BY <1>3 DEF AddHandlers, AddHandler, historyVars
<1>4. CASE CheckMode \/ CheckSubmode
  BY <1>4 DEF CheckMode, CheckSubmode, Check, historyVars
<1>5. CASE ClearMode \/ ClearSubmode
  BY <1>5 DEF ClearMode, ClearSubmode, Clear, historyVars
<1>6. CASE ToggleWhetherDrive
  BY <1>6 DEF ToggleWhetherDrive, Serve, Display_SwitchScreen
<1>7. CASE ToggleDuringDrive
  BY <1>7 DEF ToggleDuringDrive, Serve, Display_SwitchScreen
<1>8. CASE Paint
  BY <1>8 DEF Paint
<1>9. CASE Commit
  BY <1>9 DEF Commit, historyVars, TypeOK
<1>10. CASE Warned \/ Pause
  BY <1>10 DEF Warned, Pause, Delay, historyVars, TypeOK
<1>11. CASE EndWarning
  BY <1>11 DEF EndWarning, Display_SwitchScreen, historyVars
<1>12. ASSUME NEW b \in Button, Interrupt(b) PROVE ScreenInv'
  BY <1>12 DEF Interrupt, taskVars
<1>13. CASE Tick
  BY <1>13 DEF Tick, TypeOK
<1>14. CASE UNCHANGED vars
  BY <1>14 DEF vars, taskVars, historyVars
<1> QED
  BY <1>1, <1>2, <1>3, <1>4, <1>5, <1>6, <1>7, <1>8, <1>9, <1>10, <1>11, <1>12,
     <1>13, <1>14 DEF Next, Task

-----------------------------------------------------------------------------
(* Presses.                                                                *)

(* Flags and answers stay in step (main.c:49-58, controller.c:30, 39).     *)
LEMMA PressStep == TypeOK /\ PressInv /\ [Next]_vars => PressInv'
<1> SUFFICES ASSUME TypeOK, PressInv, [Next]_vars PROVE PressInv'
  OBVIOUS
<1> USE DEF PressInv, ServeInv, NoLostPress, NoPhantomToggle, Toggling, Button,
            TypeOK, ControllerTypeOK, At
<1>1. CASE Boot
  BY <1>1 DEF Boot, controllerVars, historyVars
<1>2. CASE FirstScreen
  BY <1>2 DEF FirstScreen, Display_SwitchScreen, controllerVars, historyVars
<1>3. CASE AddHandlers
  BY <1>3 DEF AddHandlers, AddHandler, Controller_AddHandler, historyVars
<1>4. CASE CheckMode \/ CheckSubmode
  BY <1>4 DEF CheckMode, CheckSubmode, Check, controllerVars, historyVars
<1>5. CASE ClearMode \/ ClearSubmode
  BY <1>5 DEF ClearMode, ClearSubmode, Clear, historyVars
<1>6. CASE ToggleWhetherDrive
  BY <1>6 DEF ToggleWhetherDrive, Serve, Display_SwitchScreen, controllerVars
<1>7. CASE ToggleDuringDrive
  BY <1>7 DEF ToggleDuringDrive, Serve, Display_SwitchScreen, controllerVars
<1>8. CASE Paint
  BY <1>8 DEF Paint, controllerVars
<1>9. CASE Commit
  BY <1>9 DEF Commit, controllerVars, historyVars
<1>10. CASE Warned \/ Pause
  BY <1>10 DEF Warned, Pause, Delay, controllerVars, historyVars
<1>11. CASE EndWarning
  BY <1>11 DEF EndWarning, Display_SwitchScreen, controllerVars, historyVars
<1>12. ASSUME NEW b \in Button, Interrupt(b) PROVE PressInv'
  BY <1>12 DEF Interrupt, Controller_ISR, Controller_ISR_Reject, controllerVars, taskVars
<1>13. CASE Tick
  BY <1>13 DEF Tick, Controller_TimePasses
<1>14. CASE UNCHANGED vars
  BY <1>14 DEF vars, controllerVars, taskVars, historyVars
<1> QED
  BY <1>1, <1>2, <1>3, <1>4, <1>5, <1>6, <1>7, <1>8, <1>9, <1>10, <1>11, <1>12,
     <1>13, <1>14 DEF Next, Task

-----------------------------------------------------------------------------
(* The theorems.                                                           *)

(* The invariant holds of everything app_main and the interrupts can do.   *)
THEOREM Invariance == Spec => []IInv
<1>1. IInv /\ [Next]_vars => IInv'
  BY TypeStep, ScreenStep, PressStep DEF IInv
<1> QED
  BY InitIInv, <1>1, PTL DEF Spec

(* Every variable keeps to the values the code can give it.                *)
THEOREM TypeCorrect == Spec => []TypeOK
  BY Invariance, PTL DEF IInv

(* No accepted press is forgotten before the task acts on it, for every    *)
(* debounce time, poll period and drawing time (main.c:49-58).             *)
THEOREM PressesKept == Spec => []NoLostPress
  BY Invariance, PTL DEF IInv, PressInv

(* Every action of the task on a button has a press of its own.            *)
THEOREM PressesSpent == Spec => []NoPhantomToggle
  BY Invariance, PTL DEF IInv, PressInv

(* CURRENT_SCREEN is what the panel shows whenever it decides anything.    *)
THEOREM PanelTruthful == Spec => []PanelAgrees
  BY Invariance, PTL DEF IInv, ScreenInv

(* The buttons are never looked at during a warning.                       *)
THEOREM WarningUndisturbed == Spec => []NeverWarnAtPoll
  BY Invariance, PTL DEF IInv, ScreenInv

(* The warning stays for WARN_DELAY ticks and leads to the debug screen.   *)
THEOREM WarningHeld == Spec => WarningSeen
<1>1. ASSUME IInv, [Next]_vars, panel = "WARN", panel' # "WARN"
      PROVE  warnTicks >= WARN_DELAY /\ nextScreen' = "DEBUG_RTD"
  <2> USE <1>1 DEF IInv, ScreenInv, At
  <2>1. pc \notin {"boot", "firstScreen", "paint"}
    BY DEF BootInv, DrawInv
  <2>2. CASE EndWarning
    <3>1. warnTicks >= WARN_DELAY
      BY <2>2 DEF EndWarning, WarnInv, TypeOK
    <3> QED
      BY <2>2, <3>1 DEF EndWarning, Display_SwitchScreen
  <2>3. CASE ToggleWhetherDrive
    BY <2>3, <2>1 DEF ToggleWhetherDrive, PanelAgrees, NeverWarnAtPoll, Drawing
  <2>4. CASE ToggleDuringDrive
    BY <2>4, <2>1 DEF ToggleDuringDrive, PanelAgrees, NeverWarnAtPoll, Drawing
  <2>5. UNCHANGED panel \/ Boot \/ FirstScreen \/ Paint
          \/ EndWarning \/ ToggleWhetherDrive \/ ToggleDuringDrive
    BY DEF Next, Task, AddHandlers, AddHandler, CheckMode, CheckSubmode, Check,
           ClearMode, ClearSubmode, Clear, Commit, Warned, Pause, Delay, Interrupt,
           Tick, vars, taskVars
  <2> QED
    BY <2>1, <2>2, <2>3, <2>4, <2>5 DEF Boot, FirstScreen, Paint
<1>2. IInv /\ [Next]_vars
        => [panel = "WARN" /\ panel' # "WARN"
              => warnTicks >= WARN_DELAY /\ nextScreen' = "DEBUG_RTD"]_vars
  BY <1>1
<1> QED
  BY Invariance, <1>2, PTL DEF Spec, WarningSeen

-----------------------------------------------------------------------------
(* What the driver is promised.                                            *)

(* The wheel starts on its way to the screen without drive (display.c:432). *)
LEMMA InitView == Init => View!Init
  BY DEF Init, View!Init, ControllerStatics, shownScreen, decidedScreen, Booting,
         Drawing, Button, View!Button

(* Every statement of app_main and every interrupt is a step of WheelView or *)
(* changes nothing there.                                                  *)
LEMMA ViewStep == IInv /\ [Next]_vars => [View!Next]_(View!vars)
<1> SUFFICES ASSUME IInv, [Next]_vars PROVE [View!Next]_(View!vars)
  OBVIOUS
<1> USE DEF IInv, TypeOK, ControllerTypeOK, At
<1> DEFINE Stutter == UNCHANGED <<pressed, shownScreen, decidedScreen>>
<1> USE DEF shownScreen, decidedScreen, Booting, Drawing
<1>a. ASSUME Stutter PROVE UNCHANGED View!vars
  BY <1>a DEF View!vars
<1>1. CASE Boot
  <2> Stutter
    BY <1>1 DEF Boot, controllerVars, ScreenInv, BootInv
  <2> QED BY <1>a
<1>2. CASE FirstScreen
  <2> Stutter
    BY <1>2 DEF FirstScreen, Display_SwitchScreen, controllerVars, ScreenInv, BootInv
  <2> QED BY <1>a
<1>3. CASE AddHandlers
  <2> Stutter
    BY <1>3 DEF AddHandlers, AddHandler, Controller_AddHandler
  <2> QED BY <1>a
<1>4. CASE CheckMode \/ CheckSubmode
  <2> Stutter
    BY <1>4 DEF CheckMode, CheckSubmode, Check, controllerVars
  <2> QED BY <1>a
<1>5. CASE ClearMode
  <2> View!TakeMode
    BY <1>5 DEF ClearMode, Clear, View!TakeMode, View!Idle, View!AfterMode, AfterMode,
                ScreenInv, NeverWarnAtPoll, PressInv, ServeInv, Button
  <2> QED BY DEF View!Next
<1>6. CASE ClearSubmode
  <2> View!TakeSubmode
    BY <1>6 DEF ClearSubmode, Clear, View!TakeSubmode, View!Idle, View!AfterSubmode,
                AfterSubmode, ScreenInv, NeverWarnAtPoll, PressInv, ServeInv, Button
  <2> QED BY DEF View!Next
<1>7. CASE ToggleWhetherDrive
  <2> Stutter
    BY <1>7 DEF ToggleWhetherDrive, Serve, Display_SwitchScreen, controllerVars, AfterMode
  <2> QED BY <1>a
<1>8. CASE ToggleDuringDrive
  <2> Stutter
    BY <1>8 DEF ToggleDuringDrive, Serve, Display_SwitchScreen, controllerVars,
                AfterSubmode, Screen
  <2> QED BY <1>a
<1>9. CASE Paint
  <2> Stutter
    BY <1>9 DEF Paint, controllerVars
  <2> QED BY <1>a
<1>10. CASE Commit /\ returnTo = "addMode"
  <2> Stutter
    BY <1>10 DEF Commit, controllerVars, ScreenInv, DrawInv
  <2> QED BY <1>a
<1>11. CASE Commit /\ returnTo # "addMode"
  <2> View!Show
    BY <1>11 DEF Commit, controllerVars, ScreenInv, DrawInv, View!Show
  <2> QED BY DEF View!Next
<1>12. CASE Warned \/ Pause
  <2> Stutter
    BY <1>12 DEF Warned, Pause, Delay, controllerVars
  <2> QED BY <1>a
<1>13. CASE EndWarning
  <2> View!EndWarning
    BY <1>13 DEF EndWarning, Display_SwitchScreen, controllerVars, ScreenInv, WarnInv,
                 View!EndWarning
  <2> QED BY DEF View!Next
<1>14. ASSUME NEW b \in Button, Interrupt(b) PROVE [View!Next]_(View!vars)
  <2>1. CASE Controller_ISR(b)
    <3> View!Press(b)
      BY <1>14, <2>1 DEF Interrupt, Controller_ISR, taskVars, View!Press
    <3> QED BY DEF View!Next, Button, View!Button
  <2>2. CASE Controller_ISR_Reject(b)
    <3> Stutter
      BY <1>14, <2>2 DEF Interrupt, Controller_ISR_Reject, controllerVars, taskVars
    <3> QED BY <1>a
  <2> QED BY <1>14, <2>1, <2>2 DEF Interrupt
<1>15. CASE Tick
  <2> Stutter
    BY <1>15 DEF Tick, Controller_TimePasses
  <2> QED BY <1>a
<1>16. CASE UNCHANGED vars
  <2> Stutter
    BY <1>16 DEF vars, controllerVars, taskVars
  <2> QED BY <1>a
<1> QED
  BY <1>1, <1>2, <1>3, <1>4, <1>5, <1>6, <1>7, <1>8, <1>9, <1>10, <1>11, <1>12,
     <1>13, <1>14, <1>15, <1>16 DEF Next, Task

(* app_main and its interrupts implement WheelView: whatever the driver    *)
(* presses, and whenever, the screens follow each other as promised.       *)
THEOREM Refinement == Spec => View!SafeSpec
  BY Invariance, InitView, ViewStep, PTL DEF Spec, View!SafeSpec

===============================================================================

----------------------------- MODULE PacingProofs ------------------------------
(***************************************************************************)
(* Proofs about modules Dashboard and Pacing: what the driver sees, and    *)
(* the time it takes to draw it.                                           *)
(***************************************************************************)
EXTENDS Pacing, DisplayProofs

Location ==
  {"addMode", "addSubmode", "checkMode", "clearMode", "toggleMode", "checkSubmode",
   "clearSubmode", "toggleSubmode", "pause", "warned", "endWarning"}

(* Until Controller_Init, the first screen is drawn; afterwards, a screen  *)
(* that is drawn is another than the one before, and the loop goes on with *)
(* its delay.                                                              *)
SwitchInv ==
  /\ Booting => job \in {"init", "DEBUG_NO_RTD"} /\ CURRENT_SCREEN = "MAIN_NO_LAPS"
  /\ job # "none" /\ pc # "addMode"
       => job \in Screen \ {CURRENT_SCREEN} /\ pc \in {"pause", "warned"}

(* The warning is up exactly while the task is in its branch for it.       *)
WarnedInv ==
  /\ job = "none" => (CURRENT_SCREEN = "WARN" <=> pc \in {"warned", "endWarning"})
  /\ job # "none" => (job = "WARN" <=> pc = "warned")

PressedInv ==
  /\ pressed \in [Button -> BOOLEAN]
  /\ pc = "clearMode" => pressed["mode"]
  /\ pc = "clearSubmode" => pressed["submode"]

RunInv ==
  /\ IInv
  /\ pc \in Location
  /\ SwitchInv
  /\ WarnedInv
  /\ PressedInv

-----------------------------------------------------------------------------
(* The steps of the program are those of main.c, controller.c and          *)
(* display.c.                                                              *)

runVars == <<allVars, paceVars>>

(* While it draws, display.c goes through its script and decides nothing   *)
(* (display.c:189-433).                                                    *)
LEMMA Drawing ==
  ASSUME Drawn PROVE job # "none" /\ UNCHANGED <<CURRENT_SCREEN, job>>
BY DEF Drawn, Calling, RA8875_clear, Display_PrecomputeGlyphs, Display_ResetState,
       EnableDrawMode, UseInternal, UseComicSans, Display_DrawRect,
       Display_InternalFontSize, SetForeground, WriteInternal, WriteComicSans,
       RA8875_bte_move, Delay

(* A step of the program is a step of display.c or none (main.c:30-65).    *)
LEMMA DisplayStep == [Run]_runVars => [Next]_vars
<1> SUFFICES ASSUME [Run]_runVars PROVE [Next]_vars
  OBVIOUS
<1>1. CASE Draw
  BY <1>1 DEF Draw, Next
<1>2. CASE EndDrawing
  BY <1>2 DEF EndDrawing, Next
<1>3. CASE Waiting
  BY <1>3 DEF Waiting, Warned, Pause, Wait
<1>4. CASE Loop
  <2>1. ASSUME NEW s \in Screen, NEW location, job = "none", SwitchTo(s, location)
        PROVE  [Next]_vars
    BY <2>1 DEF SwitchTo, Next
  <2>2. CASE ToggleWhetherDrive \/ ToggleDuringDrive \/ EndWarning
    BY <2>1, <2>2 DEF ToggleWhetherDrive, ToggleDuringDrive, EndWarning, At, Screen
  <2> QED
    BY <1>4, <2>2 DEF Loop, AddHandler, Check, Clear
<1>5. CASE Environment
  BY <1>5 DEF Environment, Interrupt, Tick
<1>6. CASE UNCHANGED runVars
  BY <1>6 DEF runVars, allVars
<1> QED
  BY <1>1, <1>2, <1>3, <1>4, <1>5, <1>6 DEF Run, Task

(* The program draws as module Display says, so all that is proved of      *)
(* Display, with every restart of the ESP32, holds of it (main.c:30-65).   *)
THEOREM DrawsAsDisplay == Program => Spec
<1>1. Start => Init
  BY DEF Start, PowerOn
<1> QED
  BY <1>1, DisplayStep, PTL DEF Program, Spec, runVars

(* The program starts with its statics, at Controller_Init to come         *)
(* (main.c:30-35).                                                         *)
LEMMA StartRunInv == Start => RunInv
<1> SUFFICES ASSUME Start PROVE RunInv
  OBVIOUS
<1>1. Init /\ job = "init" /\ pc = "addMode" /\ CURRENT_SCREEN = "MAIN_NO_LAPS"
      /\ ControllerStatics
  BY DEF Start, PowerOn, Init
<1>2. IInv
  BY <1>1, InitIInv
<1>3. PressedInv
  BY <1>1 DEF PressedInv, ControllerStatics
<1> QED
  BY <1>1, <1>2, <1>3 DEF RunInv, Location, SwitchInv, WarnedInv, Booting

(* Every statement of app_main, every call to the panel and every interrupt *)
(* keeps the invariant (main.c:30-65, controller.c:21-56).                 *)
LEMMA RunInvStep == RunInv /\ [Run]_runVars => RunInv'
<1> SUFFICES ASSUME RunInv, [Run]_runVars PROVE RunInv'
  OBVIOUS
<1>a. IInv'
  BY DisplayStep, IInvStep DEF RunInv
<1> DEFINE Kept == UNCHANGED <<CURRENT_SCREEN, job>>
<1> USE DEF RunInv, SwitchInv, WarnedInv, Location, Booting, At
<1>1. CASE Draw
  <2>1. Kept /\ UNCHANGED <<pressed, pc>>
    BY <1>1, Drawing DEF Draw, controllerVars
  <2> QED
    BY <1>a, <2>1 DEF PressedInv
<1>2. CASE EndDrawing
  <2>1. UNCHANGED <<pressed, pc>> /\ PressedInv'
    BY <1>2 DEF EndDrawing, controllerVars, PressedInv
  <2>2. CASE FirstScreen
    BY <1>a, <2>1, <2>2 DEF FirstScreen, Done, Display_SwitchScreen, Screen
  <2>3. CASE EndSwitch
    BY <1>a, <2>1, <2>3 DEF EndSwitch, Done
  <2> QED
    BY <1>2, <2>2, <2>3 DEF EndDrawing
<1>3. CASE Waiting
  BY <1>a, <1>3 DEF Waiting, Warned, Pause, Wait, vars, controllerVars, PressedInv
<1>4. CASE Loop
  <2>1. ASSUME NEW s \in Screen, job = "none", s # CURRENT_SCREEN, SwitchTo(s, pc'),
               pc' = IF s = "WARN" THEN "warned" ELSE "pause"
        PROVE  RunInv'
    BY <1>a, <2>1 DEF SwitchTo, Display_SwitchScreen, controllerVars, PressedInv, Screen
  <2>2. CASE ToggleWhetherDrive
    BY <2>1, <2>2 DEF ToggleWhetherDrive, SwitchTo, Screen
  <2>3. CASE ToggleDuringDrive
    BY <1>a, <2>1, <2>3
       DEF ToggleDuringDrive, SwitchTo, Screen, controllerVars, vars, PressedInv
  <2>4. CASE EndWarning
    BY <2>1, <2>4 DEF EndWarning, SwitchTo, Screen
  <2>5. ASSUME NEW b \in Button, NEW here, NEW there, AddHandler(b, here, there),
               <<here, there>> \in {<<"addMode", "addSubmode">>, <<"addSubmode", "checkMode">>}
        PROVE  RunInv'
    BY <1>a, <2>5 DEF AddHandler, Controller_AddHandler, vars, PressedInv
  <2>6. CASE \/ Check("mode", "checkMode", "clearMode", "checkSubmode")
             \/ Check("submode", "checkSubmode", "clearSubmode", "pause")
    BY <1>a, <2>6 DEF Check, vars, controllerVars, PressedInv
  <2>7. CASE \/ Clear("mode", "clearMode", "toggleMode")
             \/ Clear("submode", "clearSubmode", "toggleSubmode")
    BY <1>a, <2>7 DEF Clear, vars, PressedInv, Button
  <2> QED
    BY <1>4, <2>2, <2>3, <2>4, <2>5, <2>6, <2>7 DEF Loop, Button
<1>5. CASE Environment
  <2>1. Kept /\ UNCHANGED pc
    BY <1>5 DEF Environment, Interrupt, Tick, vars
  <2>2. PressedInv'
    BY <1>5, <2>1 DEF Environment, Interrupt, Tick, Controller_ISR,
                      Controller_ISR_Reject,
                      Controller_TimePasses, controllerVars, PressedInv, Button
  <2> QED
    BY <1>a, <2>1, <2>2
<1>6. CASE UNCHANGED runVars
  BY <1>a, <1>6 DEF runVars, allVars, vars, controllerVars, PressedInv
<1> QED
  BY <1>1, <1>2, <1>3, <1>4, <1>5, <1>6 DEF Run, Task

(* The invariant holds from power on, whatever is pressed (main.c:30-65).  *)
LEMMA RunInvariance == Program => []RunInv
  BY StartRunInv, RunInvStep, PTL DEF Program, runVars

-----------------------------------------------------------------------------
(* What the driver sees.                                                   *)

(* A picture tells its screen from the others (display.c:189-417).         *)
LEMMA PictureTells ==
  \A s \in Screen : {t \in Screen : Picture(s) = Picture(t)} = {s}
<1>1. ASSUME NEW t \in Screen, NEW i \in Picture(t) PROVE i.of = t
  BY <1>1 DEF Picture, Prerendered, Item, Screen
<1>2. ASSUME NEW s \in Screen PROVE \E i \in Picture(s) : TRUE
  BY <1>2 DEF Picture
<1>3. ASSUME NEW s \in Screen, NEW t \in Screen, Picture(s) = Picture(t) PROVE s = t
  BY <1>1, <1>2, <1>3
<1> QED
  BY <1>3

(* Outside Display_SwitchScreen, CURRENT_SCREEN is what the panel shows    *)
(* (display.c:502-527).                                                    *)
LEMMA SeenIs == IInv /\ job = "none" => Seen = CURRENT_SCREEN
<1> SUFFICES ASSUME IInv, job = "none" PROVE Seen = CURRENT_SCREEN
  OBVIOUS
<1>1. layer[0] = Picture(CURRENT_SCREEN) /\ CURRENT_SCREEN \in Screen
  BY DEF IInv, TypeOK
<1>2. {s \in Screen : layer[0] = Picture(s)} = {CURRENT_SCREEN}
  BY <1>1, PictureTells
<1> QED
  BY <1>1, <1>2 DEF Seen

(* The driver's view, by the statics of the program (main.c:37-65).        *)
Viewed ==
  /\ Booting => Screened = "DEBUG_NO_RTD" /\ Decided = "DEBUG_NO_RTD"
  /\ ~ Booting /\ job # "none" => Screened = CURRENT_SCREEN /\ Decided = job
  /\ job = "none" =>
       /\ Screened = CURRENT_SCREEN
       /\ Decided = CASE pc = "toggleMode"    -> AfterMode(CURRENT_SCREEN)
                      [] pc = "toggleSubmode" -> AfterSubmode(CURRENT_SCREEN)
                      [] OTHER                -> CURRENT_SCREEN

(* The refinement mapping, spelt out (main.c:37-65).                       *)
LEMMA ViewedIs == RunInv => Viewed
<1> SUFFICES ASSUME RunInv PROVE Viewed
  OBVIOUS
<1>1. job = "none" => Seen = CURRENT_SCREEN
  BY SeenIs DEF RunInv
<1>2. job = "none" /\ pc = "endWarning" => CURRENT_SCREEN = "WARN"
  BY DEF RunInv, WarnedInv
<1> QED
  BY <1>1, <1>2 DEF Viewed, Screened, Decided, Booting, At

(* The wheel boots on its way to the screen without drive (display.c:432). *)
LEMMA StartView == Start => View!Init
<1> SUFFICES ASSUME Start PROVE View!Init
  OBVIOUS
<1>1. pressed = [b \in Button |-> FALSE] /\ job = "init" /\ pc = "addMode"
  BY DEF Start, PowerOn, ControllerStatics, Init
<1>2. Screened = "DEBUG_NO_RTD" /\ Decided = "DEBUG_NO_RTD"
  BY <1>1, StartRunInv, ViewedIs DEF Viewed, Booting
<1> QED
  BY <1>1, <1>2 DEF View!Init, Button, View!Button

(* Every step of the program is one of WheelView or changes nothing there. *)
(* (main.c:37-65, display.c:502-527).                                      *)
LEMMA ViewStep == RunInv /\ RunInv' /\ [Run]_runVars => [View!Next]_(View!vars)
<1>a. Viewed /\ Viewed' /\ RunInv /\ RunInv' /\ [Run]_runVars => [View!Next]_(View!vars)
  <2> SUFFICES ASSUME Viewed, Viewed', RunInv, RunInv', [Run]_runVars
               PROVE  [View!Next]_(View!vars)
    OBVIOUS
  <2> DEFINE Stutter == UNCHANGED <<pressed, Screened, Decided>>
  <2> USE DEF RunInv, SwitchInv, WarnedInv, Location, Booting, At, Viewed
  <2>b. ASSUME Stutter PROVE UNCHANGED View!vars
    BY <2>b DEF View!vars
  <2>1. CASE Draw
    <3> Stutter
      BY <2>1, Drawing DEF Draw, controllerVars
    <3> QED BY <2>b
  <2>2. CASE EndDrawing /\ FirstScreen
    <3> Stutter
      BY <2>2 DEF EndDrawing, FirstScreen, Done, Display_SwitchScreen, controllerVars,
                  Screen
    <3> QED BY <2>b
  <2>3. CASE EndDrawing /\ EndSwitch /\ Booting
    <3> Stutter
      BY <2>3 DEF EndDrawing, EndSwitch, Done, controllerVars
    <3> QED BY <2>b
  <2>4. CASE EndDrawing /\ EndSwitch /\ ~ Booting
    <3> View!Show
      BY <2>4 DEF EndDrawing, EndSwitch, Done, controllerVars, View!Show
    <3> QED BY DEF View!Next
  <2>5. CASE Waiting
    <3> Stutter
      BY <2>5 DEF Waiting, Warned, Pause, Wait, controllerVars, vars
    <3> QED BY <2>b
  <2>6. CASE AddHandler("mode", "addMode", "addSubmode")
             \/ AddHandler("submode", "addSubmode", "checkMode")
    <3> Stutter
      BY <2>6 DEF AddHandler, Controller_AddHandler, vars
    <3> QED BY <2>b
  <2>7. CASE Check("mode", "checkMode", "clearMode", "checkSubmode")
             \/ Check("submode", "checkSubmode", "clearSubmode", "pause")
    <3> Stutter
      BY <2>7 DEF Check, controllerVars, vars
    <3> QED BY <2>b
  <2>8. CASE Clear("mode", "clearMode", "toggleMode")
    <3> View!TakeMode
      BY <2>8 DEF Clear, vars, PressedInv, View!TakeMode, View!Idle, AfterMode,
                  View!AfterMode
    <3> QED BY DEF View!Next
  <2>9. CASE Clear("submode", "clearSubmode", "toggleSubmode")
    <3> View!TakeSubmode
      BY <2>9 DEF Clear, vars, PressedInv, View!TakeSubmode, View!Idle, AfterSubmode,
                  View!AfterSubmode
    <3> QED BY DEF View!Next
  <2>10. CASE ToggleWhetherDrive
    <3> Stutter
      BY <2>10 DEF ToggleWhetherDrive, SwitchTo, Display_SwitchScreen, controllerVars,
                   vars, AfterMode
    <3> QED BY <2>b
  <2>11. CASE ToggleDuringDrive
    <3> Stutter
      BY <2>11 DEF ToggleDuringDrive, SwitchTo, Display_SwitchScreen, controllerVars,
                   vars, AfterSubmode
    <3> QED BY <2>b
  <2>12. CASE EndWarning
    <3> View!EndWarning
      BY <2>12 DEF EndWarning, SwitchTo, Display_SwitchScreen, controllerVars,
                   View!EndWarning
    <3> QED BY DEF View!Next
  <2>13. ASSUME NEW b \in Button, Interrupt(b) PROVE [View!Next]_(View!vars)
    <3>1. CASE Controller_ISR(b)
      <4> View!Press(b)
        BY <2>13, <3>1 DEF Interrupt, Controller_ISR, vars, View!Press
      <4> QED BY DEF View!Next, Button, View!Button
    <3>2. CASE Controller_ISR_Reject(b)
      <4> Stutter
        BY <2>13, <3>2 DEF Interrupt, Controller_ISR_Reject, controllerVars, vars
      <4> QED BY <2>b
    <3> QED BY <2>13, <3>1, <3>2 DEF Interrupt
  <2>14. CASE Tick
    <3> Stutter
      BY <2>14 DEF Tick, Controller_TimePasses, vars
    <3> QED BY <2>b
  <2>15. CASE UNCHANGED runVars
    <3> Stutter
      BY <2>15 DEF runVars, allVars, vars, controllerVars
    <3> QED BY <2>b
  <2> QED
    BY <2>1, <2>2, <2>3, <2>4, <2>5, <2>6, <2>7, <2>8, <2>9, <2>10, <2>11, <2>12, <2>13,
       <2>14, <2>15 DEF Run, Task, Loop, Environment, EndDrawing
<1> QED
  BY <1>a, ViewedIs, PTL

(* app_main, its interrupts and the calls that draw implement WheelView:   *)
(* what the driver sees follows the buttons as promised, whatever is       *)
(* pressed and whenever (main.c:48-61, display.c:502-527).                 *)
THEOREM PicturesFollow == Program => View!SafeSpec
  BY RunInvariance, StartView, ViewStep, PTL DEF Program, runVars, View!SafeSpec

-----------------------------------------------------------------------------
(* The time on the wire.                                                   *)

(* Quotients lose their remainders.                                        *)
LEMMA DivAdd ==
  ASSUME NEW d \in Nat \ {0}, NEW a \in Nat, NEW b \in Nat
  PROVE  /\ a \div d \in Nat
         /\ (a \div d) + (b \div d) <= (a + b) \div d
<1> DEFINE p == a \div d
           q == b \div d
           r == (a + b) \div d
<1>1. \A x \in Nat : x \div d \in Nat /\ d * (x \div d) <= x /\ x < d * (x \div d) + d
  OBVIOUS
<1>2. p \in Nat /\ q \in Nat /\ r \in Nat
  BY <1>1
<1>3. d * p <= a /\ d * q <= b /\ a + b < d * r + d
  BY <1>1
<1> HIDE DEF p, q, r
<1>4. d * (p + q) < d * (r + 1)
  BY <1>2, <1>3
<1>5. p + q < r + 1
  BY <1>2, <1>4
<1> QED
  BY <1>2, <1>5 DEF p, q, r

(* What is written in two goes is no faster written in one (io.c:59-108).  *)
LEMMA TimeAdd ==
  ASSUME NEW r \in Nat, NEW b \in Nat, NEW s \in Nat, NEW c \in Nat
  PROVE  /\ Time(r, b) \in Nat
         /\ Time(r, b) + Time(s, c) <= Time(r + s, b + c)
<1> DEFINE x == (32 * r + 16 * b) * 1000
           y == (32 * s + 16 * c) * 1000
<1>1. x \in Nat /\ y \in Nat
  OBVIOUS
<1>2. (32 * (r + s) + 16 * (b + c)) * 1000 = x + y
  OBVIOUS
<1>3. /\ x \div SPEED \in Nat /\ y \div SPEED \in Nat /\ (x + y) \div SPEED \in Nat
      /\ (x \div SPEED) + (y \div SPEED) <= (x + y) \div SPEED
  BY <1>1, DivAdd, PacingAssumption
<1> HIDE DEF x, y
<1>4. OVERHEAD * (r + b) + OVERHEAD * (s + c) = OVERHEAD * ((r + s) + (b + c))
  BY PacingAssumption
<1>5. OVERHEAD * (r + b) \in Nat /\ OVERHEAD * (s + c) \in Nat
  BY PacingAssumption
<1> QED
  BY <1>2, <1>3, <1>4, <1>5 DEF Time, x, y

(* Writing takes some time (io.c:59-108).                                  *)
LEMMA TimeType == ASSUME NEW r \in Nat, NEW b \in Nat PROVE Time(r, b) \in Nat
BY TimeAdd

(* Writing more takes longer (io.c:59-108).                                *)
LEMMA TimeGrows ==
  ASSUME NEW r \in Nat, NEW b \in Nat, NEW s \in Nat, NEW c \in Nat, r <= s, b <= c
  PROVE  Time(r, b) <= Time(s, c)
<1>1. s - r \in Nat /\ c - b \in Nat /\ r + (s - r) = s /\ b + (c - b) = c
  OBVIOUS
<1>2. Time(r, b) + Time(s - r, c - b) <= Time(s, c)
  BY <1>1, TimeAdd
<1>3. Time(r, b) \in Nat /\ Time(s - r, c - b) \in Nat /\ Time(s, c) \in Nat
  BY <1>1, TimeAdd
<1> QED
  BY <1>2, <1>3

-----------------------------------------------------------------------------
(* What the task may have written since core 0 last idled, by the place    *)
(* where it is.                                                            *)

Prepared == 9828 + MAX_POLLS       \* Display_Init, after its yellow box
First    == Prepared + 13730       \* and the first screen

Spent(s) ==
  CASE s = "init" ->
         <<36, 37, 37, 45, 46, 58, 70,
           0, 7, 10, 13, 17, 18, 5550, 5550, 9813, Prepared>>
    [] s = "MAIN_NO_LAPS" ->
         <<First, First + 8, First + 8, First + 20, First + 68,
           0, 1, 4822, 4829, 4849>>
    [] s = "MAIN_LAPS" ->
         <<0, 8, 8, 20, 104,
           0, 1, 6103, 6110, 6142>>
    [] s = "DEBUG_NO_RTD" ->
         <<Prepared, Prepared + 8, Prepared + 8, Prepared + 80, Prepared + 81,
           Prepared + 6534, Prepared + 6534, Prepared + 13635, Prepared + 13642, First>>
    [] s = "DEBUG_RTD" ->
         <<0, 8, 23 + MAX_POLLS, 23 + MAX_POLLS, 107 + MAX_POLLS, 114 + MAX_POLLS,
           194 + MAX_POLLS>>
    [] s = "WARN" ->
         <<0, 8, 8, 20,
           0, 7, 10, 13, 17>>

SpentRegisters ==
  IF job # "none" THEN Spent(job)[pos]
  ELSE IF pc \in {"pause", "warned"} THEN First + 68
  ELSE IF CURRENT_SCREEN = "DEBUG_NO_RTD" THEN First
  ELSE 0

SpentBytes ==
  CASE job = "init"         -> IF pos > 11 THEN 47 ELSE 0
    [] job = "DEBUG_NO_RTD" -> IF pos > 9 THEN 211 ELSE 47
    [] job \in Laid         -> IF pos \in 6 .. 9 THEN 0 ELSE 211
    [] job = "DEBUG_RTD"    -> IF pos > 6 THEN 142 ELSE 0
    [] job = "WARN"         -> IF pos > 8 THEN 8 ELSE 0
    [] job = "none"         -> IF CURRENT_SCREEN = "DEBUG_NO_RTD"
                                    \/ pc \in {"pause", "warned"} THEN 211 ELSE 0

SpentInv == starved \in Nat /\ starved <= Time(SpentRegisters, SpentBytes)

(* What follows a large rectangle is another or the delay                  *)
(* (display.c:189-203, 346-351, 407-413).                                  *)
Unwaited ==
  \/ job = "init" /\ pos \in 6 .. 7
  \/ job \in Laid /\ pos \in 4 .. 5
  \/ job = "WARN" /\ pos = 4

SettledInv == "box" \in unsettled => Unwaited

(* How far the scripts go (display.c:189-433).                             *)
LEMMA Span ==
  ASSUME IInv
  PROVE  /\ job = "init" => pos \in 1 .. 17
         /\ job \in Laid \union {"DEBUG_NO_RTD"} => pos \in 1 .. 10
         /\ job = "DEBUG_RTD" => pos \in 1 .. 7
         /\ job = "WARN" => pos \in 1 .. 9
<1>1. pos \in 1 .. 17 /\ (job # "none" => pos <= Len(Script[job]) + 1)
  BY DEF IInv, TypeOK, InScript
<1>2. ASSUME job \in Laid PROVE pos \in 1 .. 10
  <2>1. Len(Script[job]) = 9
    BY <1>2, MainCalls, Zenon
  <2> QED
    BY <1>1, <1>2, <2>1 DEF Laid
<1>3. ASSUME job = "DEBUG_NO_RTD" PROVE pos \in 1 .. 10
  BY <1>1, <1>3, DebugCalls
<1>4. ASSUME job = "DEBUG_RTD" PROVE pos \in 1 .. 7
  BY <1>1, <1>4, DriveCalls
<1>5. ASSUME job = "WARN" PROVE pos \in 1 .. 9
  BY <1>1, <1>5, WarnCalls
<1>6. pos \in 1 .. 17
  BY <1>1
<1> QED
  BY <1>2, <1>3, <1>4, <1>5, <1>6

SpentTyped ==
  /\ SpentRegisters \in Nat /\ SpentBytes \in Nat
  /\ SpentRegisters <= First + 68 /\ SpentBytes <= 211

(* No stretch is longer than the one from the loading text through the     *)
(* first screen and into the next (display.c:346-369, 264-331, 189-203).   *)
LEMMA SpentType == RunInv => SpentTyped
<1> SUFFICES ASSUME RunInv PROVE SpentTyped
  OBVIOUS
<1>1. MAX_POLLS \in Nat \ {0}
  BY PacingAssumption
<1>2. job \in Screen \union {"init", "none"}
  BY DEF RunInv, IInv, TypeOK
<1>3. SpentBytes \in Nat /\ SpentBytes <= 211
  BY <1>2 DEF SpentBytes, Laid, Screen
<1>4. SpentRegisters \in Nat /\ SpentRegisters <= First + 68
  <2>1. CASE job = "init"
    BY <1>1, <2>1, Span DEF SpentRegisters, Spent, RunInv, First, Prepared
  <2>2. CASE job = "MAIN_NO_LAPS"
    BY <1>1, <2>2, Span DEF SpentRegisters, Spent, RunInv, First, Prepared, Laid
  <2>3. CASE job = "MAIN_LAPS"
    BY <1>1, <2>3, Span DEF SpentRegisters, Spent, RunInv, First, Prepared, Laid
  <2>4. CASE job = "DEBUG_NO_RTD"
    BY <1>1, <2>4, Span DEF SpentRegisters, Spent, RunInv, First, Prepared
  <2>5. CASE job = "DEBUG_RTD"
    BY <1>1, <2>5, Span DEF SpentRegisters, Spent, RunInv, First, Prepared
  <2>6. CASE job = "WARN"
    BY <1>1, <2>6, Span DEF SpentRegisters, Spent, RunInv, First, Prepared
  <2>7. CASE job = "none"
    BY <1>1, <2>7 DEF SpentRegisters, First, Prepared
  <2> QED
    BY <1>2, <2>1, <2>2, <2>3, <2>4, <2>5, <2>6, <2>7 DEF Screen
<1> QED
  BY <1>3, <1>4 DEF SpentTyped

(* The call takes no more than is allowed for it there.                    *)
Allowed(r, b) ==
  /\ SpentRegisters + r <= SpentRegisters'
  /\ SpentBytes + b <= SpentBytes'

(* The table, entry by entry (display.c:189-433).                          *)
LEMMA SpentTable ==
  /\ LET n == Spent("init") IN
     /\ n[1] = 36 /\ n[2] = 37 /\ n[3] = 37 /\ n[4] = 45 /\ n[5] = 46 /\ n[6] = 58
     /\ n[7] = 70 /\ n[8] = 0 /\ n[9] = 7 /\ n[10] = 10 /\ n[11] = 13 /\ n[12] = 17
     /\ n[13] = 18 /\ n[14] = 5550 /\ n[15] = 5550 /\ n[16] = 9813 /\ n[17] = Prepared
  /\ LET n == Spent("MAIN_NO_LAPS") IN
     /\ n[1] = First /\ n[2] = First + 8 /\ n[3] = First + 8 /\ n[4] = First + 20
     /\ n[5] = First + 68 /\ n[6] = 0 /\ n[7] = 1 /\ n[8] = 4822 /\ n[9] = 4829
     /\ n[10] = 4849
  /\ LET n == Spent("MAIN_LAPS") IN
     /\ n[1] = 0 /\ n[2] = 8 /\ n[3] = 8 /\ n[4] = 20 /\ n[5] = 104 /\ n[6] = 0
     /\ n[7] = 1 /\ n[8] = 6103 /\ n[9] = 6110 /\ n[10] = 6142
  /\ LET n == Spent("DEBUG_NO_RTD") IN
     /\ n[1] = Prepared /\ n[2] = Prepared + 8 /\ n[3] = Prepared + 8
     /\ n[4] = Prepared + 80 /\ n[5] = Prepared + 81 /\ n[6] = Prepared + 6534
     /\ n[7] = Prepared + 6534 /\ n[8] = Prepared + 13635 /\ n[9] = Prepared + 13642
     /\ n[10] = First
  /\ LET n == Spent("DEBUG_RTD") IN
     /\ n[1] = 0 /\ n[2] = 8 /\ n[3] = 23 + MAX_POLLS /\ n[4] = 23 + MAX_POLLS
     /\ n[5] = 107 + MAX_POLLS /\ n[6] = 114 + MAX_POLLS /\ n[7] = 194 + MAX_POLLS
  /\ LET n == Spent("WARN") IN
     /\ n[1] = 0 /\ n[2] = 8 /\ n[3] = 8 /\ n[4] = 20 /\ n[5] = 0 /\ n[6] = 7
     /\ n[7] = 10 /\ n[8] = 13 /\ n[9] = 17
BY DEF Spent

(* What the calls write in registers and bytes (io.c:59-108).              *)
LEMMA CallCost ==
  ASSUME RunInv, NEW polls \in {1, MAX_POLLS},
         NEW f \in {"clear", "glyphs", "reset", "drawMode", "rect", "font", "zoom", "ink",
                    "write", "move"},
         Calling(f)
  PROVE  Registers(polls) \in Nat /\ Bytes \in Nat /\ Allowed(Registers(polls), Bytes)
<1>1. /\ job # "none" /\ job' = job /\ pos' = pos + 1 /\ call.op = f /\ IInv /\ TypeOK
      /\ pos \in 1 .. 16 /\ pos <= Len(Script[job])
  BY Onward DEF RunInv, IInv
<1>2. polls \in Nat /\ polls <= MAX_POLLS /\ MAX_POLLS \in Nat
  BY PacingAssumption
<1>3. SpentRegisters = Spent(job)[pos] /\ SpentRegisters' = Spent(job)[pos + 1]
  BY <1>1 DEF SpentRegisters
<1>4. SpentBytes <= SpentBytes'
  <2>1. ASSUME job \in Laid PROVE pos # 5
    <3>1. Script[job][5] = Sleep(DEFAULT_DELAY)
      BY <2>1, MainCalls, Zenon
    <3> QED
      BY <1>1, <3>1, Operations DEF call
  <2>2. CASE job = "init"
    BY <1>1, <2>2 DEF SpentBytes, Laid
  <2>3. CASE job \in Laid
    <3>1. /\ SpentBytes = IF pos \in 6 .. 9 THEN 0 ELSE 211
          /\ SpentBytes' = IF pos + 1 \in 6 .. 9 THEN 0 ELSE 211
      BY <1>1, <2>3 DEF SpentBytes, Laid
    <3> QED
      BY <1>1, <2>1, <2>3, <3>1
  <2>4. CASE job \in {"DEBUG_NO_RTD", "DEBUG_RTD", "WARN"}
    BY <1>1, <2>4 DEF SpentBytes, Laid
  <2>5. job = "init" \/ job \in Laid \/ job \in {"DEBUG_NO_RTD", "DEBUG_RTD", "WARN"}
    BY <1>1 DEF TypeOK, Screen, Laid
  <2> QED
    BY <2>2, <2>3, <2>4, <2>5
<1>5. ASSUME NEW r \in Nat, Registers(polls) = r, f # "write",
             Spent(job)[pos] + r <= Spent(job)[pos + 1]
      PROVE  Registers(polls) \in Nat /\ Bytes \in Nat /\ Allowed(Registers(polls), Bytes)
  <2>1. Bytes = 0
    BY <1>1, <1>5 DEF Bytes
  <2>2. SpentBytes \in Nat
    BY SpentType DEF SpentTyped
  <2> QED
    BY <1>3, <1>4, <1>5, <2>1, <2>2 DEF Allowed
<1>6. CASE f = "clear"
  <2>1. job = "init" /\ pos = 1 /\ Registers(polls) = 1
    BY <1>1, <1>6, Places DEF Registers, Clears, Making
  <2> QED
    BY <1>5, <1>6, <2>1 DEF Spent
<1>7. CASE f = "glyphs"
  <2>1. job = "init" /\ pos = 2 /\ Registers(polls) = 0
    BY <1>1, <1>7, Places DEF Registers, Caches, Making
  <2> QED
    BY <1>5, <1>7, <2>1 DEF Spent
<1>8. First \in Nat /\ Prepared \in Nat /\ First = Prepared + 13730
  BY <1>2 DEF First, Prepared
<1>9. CASE f = "reset"
  <2>1. Registers(polls) = 8
    BY <1>1, <1>9 DEF Registers
  <2>2. \/ job = "init" /\ pos = 3
        \/ job \in Screen /\ pos = 1
    BY <1>1, <1>9, Places DEF Resets, TypeOK
  <2>3. Spent(job)[pos] + 8 <= Spent(job)[pos + 1]
    BY <1>2, <1>8, <2>2, SpentTable DEF Screen
  <2> QED
    BY <1>5, <1>9, <2>1, <2>3
<1>10. CASE f = "drawMode"
  <2>1. Registers(polls) = IF inGraphicMode THEN 0 ELSE 1
    BY <1>1, <1>10 DEF Registers
  <2>2. DrawModes /\ (job # "init" => inGraphicMode)
    BY <1>1, <1>10, Places DEF IInv, Booted
  <2>3. Spent(job)[pos] + (IF inGraphicMode THEN 0 ELSE 1) <= Spent(job)[pos + 1]
    BY <1>2, <1>8, <2>2, SpentTable DEF DrawModes, Laid
  <2> QED
    BY <1>5, <1>10, <2>1, <2>3
<1>11. CASE f \in {"zoom", "ink"}
  <2>1. Registers(polls) = 3 /\ (Zooms \/ Inks)
    BY <1>1, <1>11, Places DEF Registers
  <2>2. Spent(job)[pos] + 3 <= Spent(job)[pos + 1]
    BY <2>1, SpentTable DEF Zooms, Inks, Making
  <2> QED
    BY <1>5, <1>11, <2>1, <2>2
<1>12. CASE f = "font"
  <2>1. Registers(polls) = IF call.font = "INTERNAL" THEN 7 ELSE 1
    BY <1>1, <1>12 DEF Registers
  <2>2. Fonts
    BY <1>1, <1>12, Places
  <2>3. Spent(job)[pos] + (IF call.font = "INTERNAL" THEN 7 ELSE 1) <= Spent(job)[pos + 1]
    BY <1>2, <1>8, <2>2, SpentTable DEF Fonts, Making, Use, Laid
  <2> QED
    BY <1>5, <1>12, <2>1, <2>3
<1>13. CASE f = "move"
  <2>1. Registers(polls) = 15 + polls /\ Moves
    BY <1>1, <1>2, <1>13, Places DEF Registers
  <2>2. Spent(job)[pos] + (15 + polls) <= Spent(job)[pos + 1]
    BY <1>2, <2>1, SpentTable DEF Moves, Making, Prepared
  <2> QED
    BY <1>2, <1>5, <1>13, <2>1, <2>2
<1>14. CASE f = "rect"
  <2>1. Registers(polls) = 12 * Lines(call.part, call.of)
    BY <1>1, <1>14 DEF Registers
  <2>2. Rects
    BY <1>1, <1>14, Places
  <2>3. /\ Lines(call.part, call.of) \in Nat
        /\ Spent(job)[pos] + 12 * Lines(call.part, call.of) <= Spent(job)[pos + 1]
    BY <1>2, <1>8, <2>2, SpentTable DEF Rects, Making, Rect, Lines, Laid
  <2> QED
    BY <1>5, <1>14, <2>1, <2>3
<1>15. CASE f = "write"
  <2>1. Writes
    BY <1>1, <1>15, Places
  <2>2. /\ Comic => ~ Internal
        /\ Plain => Internal
    BY DEF RunInv, IInv, Pen, Internal
  <2>3. CASE Comic
    <3>1. Bytes = 0 /\ Registers(polls) = Display_BlitGlyph(Label(call.part, call.of))
      BY <1>1, <1>15, <2>2, <2>3 DEF Bytes, Registers
    <3>2. /\ Display_BlitGlyph(Label(call.part, call.of)) \in Nat
          /\ Spent(job)[pos] + Display_BlitGlyph(Label(call.part, call.of))
               <= Spent(job)[pos + 1]
      BY <1>2, <1>8, <2>1, <2>3, SpentTable
         DEF Writes, Making, Write, Comic, Laid, Display_BlitGlyph, Label
    <3>3. SpentBytes \in Nat
      BY SpentType DEF SpentTyped
    <3> QED
      BY <1>3, <1>4, <3>1, <3>2, <3>3 DEF Allowed
  <2>4. CASE Plain
    <3> DEFINE t == Text(call.part, call.of)
    <3>1. Bytes = t.strings + t.characters /\ Registers(polls) = 4 * t.strings
      BY <1>1, <1>15, <2>2, <2>4 DEF Bytes, Registers
    <3>2. /\ t.strings \in Nat /\ t.characters \in Nat
          /\ Spent(job)[pos] + 4 * t.strings <= Spent(job)[pos + 1]
      BY <1>2, <1>8, <2>1, <2>4, SpentTable
         DEF Writes, Making, Write, Plain, Laid, Text
    <3>3. SpentBytes + (t.strings + t.characters) <= SpentBytes'
      BY <1>1, <2>1, <2>4 DEF Writes, Making, Write, Plain, Laid, Text, SpentBytes
    <3> QED
      BY <1>3, <3>1, <3>2, <3>3 DEF Allowed
  <2>5. Comic \/ Plain
    BY <2>1 DEF Writes, Making, Comic, Plain, Laid
  <2> QED
    BY <2>3, <2>4, <2>5
<1> QED
  BY <1>6, <1>7, <1>9, <1>10, <1>11, <1>12, <1>13, <1>14, <1>15

(* Every step is paid for out of what may be spent by its end, where the   *)
(* longer delays are delays (main.c:55-61, display.c:72-73).               *)
LEMMA SpentStep ==
  ASSUME pdMS_TO_TICKS(DEFAULT_DELAY) > 0, RunInv, [Run]_runVars, SpentInv,
         SpentTyped, SpentTyped'
  PROVE  SpentInv'
<1> USE PacingAssumption DEF SpentInv
<1>1. /\ SpentRegisters \in Nat /\ SpentBytes \in Nat
      /\ SpentRegisters' \in Nat /\ SpentBytes' \in Nat
  BY DEF SpentTyped
<1>2. MAX_POLLS \in Nat \ {0} /\ First \in Nat /\ Prepared \in Nat
      /\ First = Prepared + 13730
  BY DEF First, Prepared
<1>a. ASSUME starved' = 0 PROVE SpentInv'
  <2>1. Time(SpentRegisters', SpentBytes') \in Nat
    BY <1>1, TimeAdd
  <2> QED
    BY <1>a, <2>1
<1>b. ASSUME starved' = starved, SpentRegisters <= SpentRegisters',
             SpentBytes <= SpentBytes'
      PROVE  SpentInv'
  <2>1. /\ Time(SpentRegisters, SpentBytes) <= Time(SpentRegisters', SpentBytes')
        /\ Time(SpentRegisters, SpentBytes) \in Nat
        /\ Time(SpentRegisters', SpentBytes') \in Nat
    BY <1>1, <1>b, TimeAdd, TimeGrows
  <2> QED
    BY <1>b, <2>1
<1>c. ASSUME NEW r \in Nat, NEW b \in Nat, starved' = starved + Time(r, b), Allowed(r, b)
      PROVE  SpentInv'
  <2>1. /\ SpentRegisters + r <= SpentRegisters' /\ SpentBytes + b <= SpentBytes'
        /\ SpentRegisters + r \in Nat /\ SpentBytes + b \in Nat
    BY <1>1, <1>c DEF Allowed
  <2>2. /\ Time(r, b) \in Nat
        /\ Time(SpentRegisters, SpentBytes) \in Nat
        /\ Time(SpentRegisters, SpentBytes) + Time(r, b)
             <= Time(SpentRegisters + r, SpentBytes + b)
    BY <1>1, <1>c, TimeAdd
  <2>3. /\ Time(SpentRegisters + r, SpentBytes + b) <= Time(SpentRegisters', SpentBytes')
        /\ Time(SpentRegisters + r, SpentBytes + b) \in Nat
        /\ Time(SpentRegisters', SpentBytes') \in Nat
    BY <1>1, <2>1, TimeAdd, TimeGrows
  <2> QED
    BY <1>c, <2>2, <2>3
<1> HIDE DEF SpentInv
<1>3. CASE Draw /\ call.op # "delay"
  <2>1. PICK f \in {"clear", "glyphs", "reset", "drawMode", "rect", "font", "zoom", "ink",
                    "write", "move"} : Calling(f)
    BY <1>3 DEF Draw, Drawn, RA8875_clear, Display_PrecomputeGlyphs, Display_ResetState,
                EnableDrawMode, UseInternal, UseComicSans, Display_DrawRect,
                Display_InternalFontSize, SetForeground, WriteInternal, WriteComicSans,
                RA8875_bte_move, Delay, Calling, call
  <2>2. PICK polls \in {1, MAX_POLLS} :
          \/ starved' = 0
          \/ starved' = Time(2, 0) /\ call.op = "move"
          \/ starved' = starved + Time(Registers(polls), Bytes)
    BY <1>3 DEF Draw, PolledCopy
  <2>3. /\ Registers(polls) \in Nat /\ Bytes \in Nat
        /\ Allowed(Registers(polls), Bytes)
    BY <2>1, CallCost
  <2>4. CASE starved' = Time(2, 0) /\ call.op = "move"
    <3>1. Registers(polls) = 15 + polls
      BY <2>4 DEF Registers
    <3>2. 2 <= SpentRegisters' /\ 0 <= SpentBytes'
      BY <1>1, <1>2, <2>3, <3>1 DEF Allowed
    <3>3. /\ Time(2, 0) <= Time(SpentRegisters', SpentBytes')
          /\ Time(2, 0) \in Nat /\ Time(SpentRegisters', SpentBytes') \in Nat
      BY <1>1, <3>2, TimeGrows, TimeType
    <3> QED
      BY <2>4, <3>3 DEF SpentInv
  <2> QED
    BY <1>a, <1>c, <2>2, <2>3, <2>4
<1>4. CASE Draw /\ call.op = "delay"
  <2>1. Calling("delay") /\ vTaskDelay(call.ms)
    BY <1>4 DEF Draw, Drawn, RA8875_clear, Display_PrecomputeGlyphs, Display_ResetState,
                EnableDrawMode, UseInternal, UseComicSans, Display_DrawRect,
                Display_InternalFontSize, SetForeground, WriteInternal, WriteComicSans,
                RA8875_bte_move, Delay, Calling, call
  <2>2. /\ job # "none" /\ job' = job /\ pos' = pos + 1 /\ pos \in 1 .. 16 /\ TypeOK
        /\ pos <= Len(Script[job])
    BY <2>1, Onward DEF RunInv, IInv
  <2>3. starved' = 0 \/ starved' = starved
    BY <2>1 DEF vTaskDelay
  <2>4. Delays
    BY <1>4, <2>2, Places
  <2>5. CASE call.ms = DEFAULT_DELAY
    BY <1>a, <2>1, <2>5 DEF vTaskDelay
  <2>6. CASE Making("init", 14, Sleep(WATCHDOG_DELAY))
    <3>1. SpentRegisters' = SpentRegisters
      <4>1. SpentRegisters = Spent("init")[14] /\ SpentRegisters' = Spent("init")[15]
        BY <2>2, <2>6 DEF Making, SpentRegisters
      <4> QED
        BY <4>1, SpentTable
    <3>2. SpentBytes <= SpentBytes'
      BY <2>2, <2>6 DEF Making, SpentBytes, Laid
    <3> QED
      BY <1>1, <1>a, <1>b, <2>3, <3>1, <3>2
  <2>7. CASE Making("DEBUG_NO_RTD", 6, Sleep(WATCHDOG_DELAY))
    <3>1. SpentRegisters' = SpentRegisters
      BY <2>2, <2>7, SpentTable DEF Making, SpentRegisters
    <3>2. SpentBytes <= SpentBytes'
      BY <2>2, <2>7 DEF Making, SpentBytes, Laid
    <3> QED
      BY <1>1, <1>a, <1>b, <2>3, <3>1, <3>2
  <2> QED
    BY <2>4, <2>5, <2>6, <2>7 DEF Delays, Making, Sleep
<1>5. CASE EndDrawing
  <2>1. starved' = starved /\ pc' = pc /\ TypeOK /\ job # "none" /\ IInv
    BY <1>5 DEF EndDrawing, paceVars, RunInv, IInv, FirstScreen, EndSwitch, Done
  <2>2. CASE FirstScreen
    <3>1. job = "init" /\ job' = "DEBUG_NO_RTD" /\ pos' = 1 /\ pos = 17
      BY <2>1, <2>2, Span, InitCalls DEF FirstScreen, Done, Display_SwitchScreen
    <3>2. SpentRegisters = Prepared /\ SpentRegisters' = Prepared
      BY <3>1, SpentTable DEF SpentRegisters
    <3>3. SpentBytes = 47 /\ SpentBytes' = 47
      BY <3>1 DEF SpentBytes, Laid
    <3> QED
      BY <1>2, <1>b, <2>1, <3>2, <3>3
  <2>3. CASE EndSwitch
    <3>1. job' = "none" /\ CURRENT_SCREEN' = job /\ job # "init" /\ pos > Len(Script[job])
      BY <2>3 DEF EndSwitch, Done
    <3>2. CASE pc = "addMode"
      <4>1. job = "DEBUG_NO_RTD"
        BY <2>1, <3>1, <3>2 DEF RunInv, SwitchInv, Booting
      <4>2. pos = 10
        BY <2>1, <3>1, <4>1, Span, DebugCalls
      <4>3. SpentRegisters = First /\ SpentRegisters' = First
        BY <2>1, <3>1, <3>2, <4>1, <4>2, SpentTable DEF SpentRegisters
      <4>4. SpentBytes = 211 /\ SpentBytes' = 211
        BY <3>1, <4>1, <4>2 DEF SpentBytes, Laid
      <4> QED
        BY <1>2, <1>b, <2>1, <4>3, <4>4
    <3>3. CASE pc # "addMode"
      <4>1. pc \in {"pause", "warned"}
        BY <2>1, <3>3 DEF RunInv, SwitchInv
      <4>2. SpentRegisters' = First + 68 /\ SpentBytes' = 211
        BY <2>1, <3>1, <4>1 DEF SpentRegisters, SpentBytes, Laid
      <4> QED
        BY <1>b, <2>1, <4>2 DEF SpentTyped
    <3> QED
      BY <3>2, <3>3
  <2> QED
    BY <1>5, <2>2, <2>3 DEF EndDrawing
<1>6. CASE Waiting
  <2>1. pdMS_TO_TICKS(100) > 0 /\ pdMS_TO_TICKS(500) > 0
    BY DEF pdMS_TO_TICKS, DEFAULT_DELAY
  <2> QED
    BY <1>6, <1>a, <2>1 DEF Waiting, vTaskDelay
<1>7. CASE Loop /\ UNCHANGED paceVars
  <2>1. starved' = starved /\ job = "none"
    BY <1>7 DEF paceVars, Loop, AddHandler, Check, Clear, ToggleWhetherDrive,
                ToggleDuringDrive, EndWarning, At
  <2>2. ASSUME UNCHANGED vars, pc \notin {"pause", "warned"} PROVE SpentInv'
    <3>1. SpentRegisters <= SpentRegisters'
      BY <1>2, <2>1, <2>2 DEF vars, SpentRegisters
    <3>2. SpentBytes <= SpentBytes'
      BY <2>1, <2>2 DEF vars, SpentBytes, Laid
    <3> QED
      BY <1>b, <2>1, <3>1, <3>2
  <2>3. ASSUME NEW s \in Screen, NEW location, SwitchTo(s, location),
               pc \notin {"pause", "warned"},
               CURRENT_SCREEN = "DEBUG_NO_RTD" => s = "MAIN_NO_LAPS"
        PROVE  SpentInv'
    <3>1. CASE CURRENT_SCREEN = s
      BY <2>2, <2>3, <3>1 DEF SwitchTo
    <3>2. CASE CURRENT_SCREEN # s
      <4>1. job' = s /\ pos' = 1
        BY <2>3, <3>2 DEF SwitchTo, Display_SwitchScreen
      <4>2. SpentRegisters <= SpentRegisters'
        BY <1>2, <2>1, <2>3, <4>1, SpentTable DEF SpentRegisters, Screen
      <4>3. SpentBytes <= SpentBytes'
        BY <2>1, <2>3, <4>1 DEF SpentBytes, Laid, Screen
      <4> QED
        BY <1>b, <2>1, <4>2, <4>3
    <3> QED
      BY <3>1, <3>2
  <2>4. CASE ToggleWhetherDrive
    <3>1. pc = "toggleMode"
          /\ SwitchTo(IF CURRENT_SCREEN = "DEBUG_NO_RTD" THEN "MAIN_NO_LAPS"
                                                         ELSE "DEBUG_NO_RTD", "pause")
      BY <2>4 DEF ToggleWhetherDrive, At
    <3>2. CASE CURRENT_SCREEN = "DEBUG_NO_RTD"
      BY <2>3, <3>1, <3>2 DEF Screen
    <3>3. CASE CURRENT_SCREEN # "DEBUG_NO_RTD"
      BY <2>3, <3>1, <3>3 DEF Screen
    <3> QED
      BY <3>2, <3>3
  <2>5. CASE ToggleDuringDrive
    <3>1. pc = "toggleSubmode"
      BY <2>5 DEF ToggleDuringDrive, At
    <3> QED
      BY <2>2, <2>3, <2>5, <3>1 DEF ToggleDuringDrive, Screen
  <2>6. CASE EndWarning
    <3>1. pc = "endWarning" /\ CURRENT_SCREEN = "WARN" /\ SwitchTo("DEBUG_RTD", "pause")
      BY <2>6 DEF EndWarning, At, RunInv, WarnedInv
    <3> QED
      BY <2>3, <3>1 DEF Screen
  <2>7. ASSUME NEW b, NEW here, NEW there,
               AddHandler(b, here, there) \/ Clear(b, here, there),
               here \in {"addMode", "addSubmode", "clearMode", "clearSubmode"}
        PROVE  SpentInv'
    BY <2>2, <2>7 DEF AddHandler, Clear, At
  <2>8. ASSUME NEW b, NEW here, NEW set, NEW clear, Check(b, here, set, clear),
               here \in {"checkMode", "checkSubmode"}
        PROVE  SpentInv'
    BY <2>2, <2>8 DEF Check, At
  <2> QED
    BY <1>7, <2>4, <2>5, <2>6, <2>7, <2>8 DEF Loop
<1>8. CASE Environment \/ UNCHANGED runVars
  <2>1. UNCHANGED <<vars, pc, starved>>
    BY <1>8 DEF Environment, Interrupt, Tick, paceVars, runVars, allVars
  <2>2. SpentRegisters' = SpentRegisters /\ SpentBytes' = SpentBytes
    BY <2>1 DEF vars, SpentRegisters, SpentBytes
  <2> QED
    BY <1>1, <1>b, <2>1, <2>2
<1> QED
  BY <1>3, <1>4, <1>5, <1>6, <1>7, <1>8 DEF Run, Task

(* The start-up takes thirty-six registers (core.c:48-122).                *)
LEMMA StartSpent == Start => SpentInv
<1> SUFFICES ASSUME Start PROVE SpentInv
  OBVIOUS
<1>1. job = "init" /\ pos = 1 /\ starved = Time(36, 0)
  BY DEF Start, PowerOn, Init, StartUp
<1>2. SpentRegisters = 36 /\ SpentBytes = 0
  <2>1. SpentRegisters = Spent("init")[1]
    BY <1>1 DEF SpentRegisters
  <2>2. SpentBytes = 0
    BY <1>1 DEF SpentBytes, Laid
  <2> QED
    BY <2>1, <2>2, SpentTable
<1>3. Time(36, 0) \in Nat
  BY TimeAdd
<1> QED
  BY <1>1, <1>2, <1>3 DEF SpentInv

(* The budget covers every place, so the task watchdog is fed in time      *)
(* (display.c:72-73, 346-369).                                             *)
LEMMA FedWithin == Affordable /\ RunInv /\ SpentInv => WatchdogFed
<1> SUFFICES ASSUME Affordable, RunInv, SpentInv PROVE WatchdogFed
  OBVIOUS
<1> DEFINE most == 23626 + MAX_POLLS
<1>0. most \in Nat
  BY PacingAssumption
<1>1. First + 68 = most
  BY PacingAssumption DEF First, Prepared
<1>2. Time(most, 211) <= TIMEOUT
  BY DEF Affordable
<1> HIDE DEF most
<1>3. /\ SpentRegisters \in Nat /\ SpentRegisters <= most
      /\ SpentBytes \in Nat /\ SpentBytes <= 211
  BY <1>0, <1>1, SpentType DEF SpentTyped
<1>4. /\ starved \in Nat /\ starved <= Time(SpentRegisters, SpentBytes)
      /\ TIMEOUT \in Nat /\ Time(most, 211) \in Nat
      /\ Time(SpentRegisters, SpentBytes) \in Nat
  <2>1. starved \in Nat /\ starved <= Time(SpentRegisters, SpentBytes)
    BY DEF SpentInv
  <2>2. TIMEOUT \in Nat
    BY PacingAssumption
  <2>3. Time(most, 211) \in Nat
    BY <1>0, TimeType
  <2>4. Time(SpentRegisters, SpentBytes) \in Nat
    BY <1>3, TimeType
  <2> QED
    BY <2>1, <2>2, <2>3, <2>4
<1>5. CASE BeforePolls = 0
  <2>1. Time(SpentRegisters, SpentBytes) <= Time(most, 211)
    BY <1>0, <1>3, TimeGrows
  <2> QED
    BY <1>2, <1>4, <1>5, <2>1 DEF WatchdogFed
<1>6. CASE BeforePolls # 0
  <2>1. /\ BeforePolls = Time(15, 0)
        /\ job # "none" /\ pos <= Len(Script[job]) /\ call.op = "move"
    BY <1>6 DEF BeforePolls
  <2>2. Moves
    BY <2>1, Places DEF RunInv, IInv
  <2>3. SpentRegisters + 15 <= most
    <3>1. SpentRegisters = Spent(job)[pos]
      BY <2>1 DEF SpentRegisters
    <3>2. SpentRegisters \in {8, 9813}
      <4>1. \/ job = "init" /\ pos = 16
            \/ job = "DEBUG_RTD" /\ pos = 2
        BY <2>2 DEF Moves, Making
      <4> QED
        BY <3>1, <4>1, SpentTable
    <3>3. 9828 <= most
      BY PacingAssumption DEF most
    <3> QED
      BY <1>0, <3>2, <3>3
  <2>4. /\ Time(15, 0) \in Nat
        /\ Time(SpentRegisters, SpentBytes) + Time(15, 0)
             <= Time(SpentRegisters + 15, SpentBytes + 0)
    BY <1>3, TimeAdd
  <2>5. /\ Time(SpentRegisters + 15, SpentBytes + 0) <= Time(most, 211)
        /\ Time(SpentRegisters + 15, SpentBytes + 0) \in Nat
    BY <1>0, <1>3, <2>3, TimeGrows, TimeType
  <2> QED
    BY <1>2, <1>4, <2>1, <2>4, <2>5 DEF WatchdogFed
<1> QED
  BY <1>5, <1>6

(* The budget is kept by every step (main.c:30-65).                        *)
LEMMA SpentKept ==
  pdMS_TO_TICKS(DEFAULT_DELAY) > 0 /\ RunInv /\ RunInv' /\ SpentInv /\ [Run]_runVars
    => SpentInv'
<1>1. RunInv' => SpentTyped'
  BY SpentType, PTL
<1> QED
  BY <1>1, SpentType, SpentStep

(* Core 0 idles within the time of the task watchdog, whatever is pressed  *)
(* and however long the chip copies, where one drawing of the longest kind *)
(* is within it and the delays of 20 ms are delays (display.c:72-73,       *)
(* 346-369; bte.c:48-60).                                                  *)
THEOREM WatchdogHeld ==
  ASSUME Affordable, pdMS_TO_TICKS(DEFAULT_DELAY) > 0
  PROVE  Program => []WatchdogFed
<1>1. Affordable /\ pdMS_TO_TICKS(DEFAULT_DELAY) > 0
  OBVIOUS
<1>2. RunInv /\ RunInv' /\ SpentInv /\ [Run]_runVars => SpentInv'
  BY <1>1, SpentKept
<1>3. RunInv /\ SpentInv => WatchdogFed
  BY <1>1, FedWithin
<1> QED
  BY <1>2, <1>3, RunInvariance, StartSpent, PTL DEF Program, runVars

-----------------------------------------------------------------------------
(* The rectangles are given their time.                                    *)

(* Nothing else is drawn there (display.c:189-203, 346-351, 407-413).      *)
LEMMA UnwaitedCalls ==
  ASSUME IInv, Unwaited
  PROVE  pos <= Len(Script[job]) /\ call.op \in {"rect", "delay"}
<1>1. CASE job = "init"
  BY <1>1, InitCalls DEF Unwaited, Laid, call, Rect, Sleep
<1>2. CASE job \in Laid
  <2>1. /\ Len(Script[job]) = 9
        /\ Script[job][4] = Rect("borders", job, "white")
        /\ Script[job][5] = Sleep(DEFAULT_DELAY)
    BY <1>2, MainCalls, Zenon
  <2>2. pos \in 4 .. 5
    BY <1>2 DEF Unwaited, Laid
  <2>3. call.op \in {"rect", "delay"}
    BY <2>1, <2>2, Operations DEF call
  <2> QED
    BY <2>1, <2>2, <2>3
<1>3. CASE job = "WARN"
  BY <1>3, WarnCalls DEF Unwaited, Laid, call, Rect, Sleep
<1> QED
  BY <1>1, <1>2, <1>3 DEF Unwaited

(* Every step leaves the large rectangles waited for, or to be waited for  *)
(* next (main.c:30-65, display.c:189-433).                                 *)
LEMMA SettledStep ==
  ASSUME pdMS_TO_TICKS(DEFAULT_DELAY) > 0, RunInv, [Run]_runVars, SettledInv
  PROVE  SettledInv'
<1>1. IInv /\ TypeOK
  BY DEF RunInv, IInv
<1>a. ASSUME "box" \notin unsettled' PROVE SettledInv'
  BY <1>a DEF SettledInv
<1>b. ASSUME unsettled' \in {{}, unsettled}, ~ Unwaited PROVE SettledInv'
  BY <1>b DEF SettledInv
<1>2. CASE Draw
  <2>1. PICK f \in {"clear", "glyphs", "reset", "drawMode", "rect", "font", "zoom", "ink",
                    "write", "move", "delay"} : Calling(f)
    BY <1>2 DEF Draw, Drawn, RA8875_clear, Display_PrecomputeGlyphs, Display_ResetState,
                EnableDrawMode, UseInternal, UseComicSans, Display_DrawRect,
                Display_InternalFontSize, SetForeground, WriteInternal, WriteComicSans,
                RA8875_bte_move, Delay, Calling, call
  <2>2. /\ call.op = f /\ job # "none" /\ job' = job /\ pos' = pos + 1 /\ pos \in 1 .. 16
        /\ pos <= Len(Script[job])
    BY <1>1, <2>1, Onward
  <2>3. CASE f = "rect"
    <3>1. unsettled' = unsettled \union {call.part}
      BY <1>2, <2>2, <2>3 DEF Draw
    <3>2. Rects
      BY <1>1, <2>2, <2>3, Places
    <3>3. call.part = "box" => Unwaited'
      BY <2>2, <3>2 DEF Rects, Making, Rect, Unwaited, Laid
    <3>4. Unwaited => Unwaited'
      BY <2>2, <3>2 DEF Rects, Making, Rect, Unwaited, Laid
    <3> QED
      BY <3>1, <3>3, <3>4 DEF SettledInv
  <2>4. CASE f = "delay"
    <3>1. vTaskDelay(call.ms)
      BY <1>2, <2>2, <2>4 DEF Draw
    <3>2. CASE call.ms = DEFAULT_DELAY
      BY <1>a, <3>1, <3>2 DEF vTaskDelay
    <3>3. CASE call.ms # DEFAULT_DELAY
      <4>1. Delays
        BY <1>1, <2>2, <2>4, Places
      <4>2. ~ Unwaited
        BY <3>3, <4>1 DEF Delays, Making, Sleep, Unwaited, Laid
      <4> QED
        BY <1>b, <3>1, <4>2 DEF vTaskDelay
    <3> QED
      BY <3>2, <3>3
  <2>5. CASE f \notin {"rect", "delay"}
    <3>1. unsettled' \in {{}, unsettled}
      BY <1>2, <2>2, <2>5 DEF Draw, PolledCopy
    <3>2. ~ Unwaited
      BY <1>1, <2>2, <2>5, UnwaitedCalls
    <3> QED
      BY <1>b, <3>1, <3>2
  <2> QED
    BY <2>3, <2>4, <2>5
<1>3. CASE EndDrawing
  <2>1. unsettled' = unsettled /\ Done
    BY <1>3 DEF EndDrawing, paceVars, FirstScreen, EndSwitch
  <2>2. ~ Unwaited
    <3>1. SUFFICES ASSUME Unwaited PROVE FALSE
      OBVIOUS
    <3>2. pos \in 1 .. 17 /\ job \in Screen \union {"init"}
      BY <1>1, <2>1 DEF TypeOK, Done
    <3>3. PICK n \in 1 .. 16 : n = Len(Script[job])
      BY <3>2, Lengths
    <3>4. pos > n /\ pos <= n
      BY <1>1, <2>1, <3>1, <3>3, UnwaitedCalls DEF Done
    <3> QED
      BY <3>2, <3>3, <3>4
  <2> QED
    BY <1>b, <2>1, <2>2
<1>4. CASE Waiting \/ (Loop /\ UNCHANGED paceVars)
  <2>1. unsettled' \in {{}, unsettled}
    BY <1>4 DEF Waiting, vTaskDelay, paceVars
  <2>2. job = "none"
    BY <1>4 DEF Waiting, Warned, Pause, Wait, Loop, AddHandler, Check, Clear,
                ToggleWhetherDrive, ToggleDuringDrive, EndWarning, At
  <2>3. ~ Unwaited
    BY <2>2 DEF Unwaited, Laid
  <2> QED
    BY <1>b, <2>1, <2>3
<1>5. CASE Environment \/ UNCHANGED runVars
  <2>1. UNCHANGED <<job, pos, unsettled>>
    BY <1>5 DEF Environment, Interrupt, Tick, vars, paceVars, runVars, allVars
  <2> QED
    BY <2>1 DEF SettledInv, Unwaited
<1> QED
  BY <1>2, <1>3, <1>4, <1>5 DEF Run, Task

(* When the chip turns to its text mode, the large rectangles have been    *)
(* given their time (display.c:72, 458-484).                               *)
LEMMA SettledText == RunInv /\ SettledInv => (UseInternal => "box" \notin unsettled)
<1> SUFFICES ASSUME RunInv, SettledInv, UseInternal, "box" \in unsettled PROVE FALSE
  OBVIOUS
<1>1. IInv /\ Unwaited
  BY DEF RunInv, SettledInv
<1>2. call.op = "font"
  BY DEF UseInternal, Calling, call
<1> QED
  BY <1>1, <1>2, UnwaitedCalls

(* No text follows a large rectangle before its delay, where that delay is *)
(* one (display.c:72: "Allows rectangles to fully render before switching  *)
(* to text mode").                                                         *)
THEOREM BoxesSettle ==
  ASSUME pdMS_TO_TICKS(DEFAULT_DELAY) > 0
  PROVE  Program => BoxesSettled
<1>1. Start => SettledInv
  BY DEF Start, SettledInv
<1>2. RunInv /\ [Run]_runVars /\ SettledInv => SettledInv'
  BY SettledStep
<1> QED
  BY <1>1, <1>2, SettledText, RunInvariance, PTL DEF Program, BoxesSettled, runVars

================================================================================

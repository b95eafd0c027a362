-------------------------------- MODULE Pacing --------------------------------
(***************************************************************************)
(* The time it takes to draw, on the wire between the ESP32 and the        *)
(* RA8875, against the task watchdog of ESP-IDF.                           *)
(*                                                                         *)
(* Every transfer is polled to its end by the task, so core 0 does not run *)
(* its idle task, which feeds the watchdog, while anything is drawn.  Only *)
(* a vTaskDelay of at least one tick lets it run.  Each call of module     *)
(* Display takes the time of the registers and bytes that it writes, the   *)
(* numbers as long as their buffers allow.                                 *)
(***************************************************************************)
EXTENDS Dashboard

CONSTANTS
  SPEED,       (* Of the wire, in kHz: 170 (display.c:16).                 *)
  OVERHEAD,    (* Of a transfer beyond its bits, in microseconds.          *)
  TICK_RATE,   (* configTICK_RATE_HZ.                                      *)
  TIMEOUT,     (* Of the task watchdog, in microseconds.                   *)
  MAX_POLLS    (* 1000 (bte.c:54).                                         *)

ASSUME PacingAssumption ==
  /\ SPEED \in Nat \ {0}
  /\ OVERHEAD \in Nat
  /\ TICK_RATE \in Nat \ {0}
  /\ TIMEOUT \in Nat
  /\ MAX_POLLS \in Nat \ {0}

VARIABLES
  starved,     (* Microseconds since core 0 last ran its idle task.        *)
  unsettled    (* Rectangles drawn since then.                             *)

paceVars == <<starved, unsettled>>

-----------------------------------------------------------------------------
(* What is written.                                                        *)

Lines(p, s) ==
  IF p # "borders" THEN 1
  ELSE CASE s = "MAIN_NO_LAPS" -> 4
         [] s = "DEBUG_NO_RTD" -> 6
         [] s \in {"MAIN_LAPS", "DEBUG_RTD"} -> 7

(* In the internal font: strings, and characters at most.                  *)
Text(p, s) ==
  CASE p = "loadingText"    -> [strings |-> 1, characters |-> 46]
    [] s = "MAIN_NO_LAPS"   -> [strings |-> 5, characters |-> 35]
    [] s = "MAIN_LAPS"      -> [strings |-> 8, characters |-> 56]
    [] s = "DEBUG_NO_RTD"   -> [strings |-> 22, characters |-> 142]
    [] s = "DEBUG_RTD" /\ p = "values" -> [strings |-> 20, characters |-> 122]
    [] s = "WARN"           -> [strings |-> 1, characters |-> 7]

(* In Comic Sans: letters, and the runs of pixels in the columns of their  *)
(* bitmaps.                                                                *)
Label(p, s) ==
  CASE s = "MAIN_NO_LAPS"   -> [letters |-> 56, spans |-> 517]
    [] s = "MAIN_LAPS"      -> [letters |-> 72, spans |-> 654]
    [] s = "DEBUG_NO_RTD" /\ p = "labels"     -> [letters |-> 75, spans |-> 692]
    [] s = "DEBUG_NO_RTD" /\ p = "moreLabels" -> [letters |-> 84, spans |-> 761]
    [] s = "DEBUG_RTD"    /\ p = "labels"     -> [letters |-> 68, spans |-> 592]
    [] s = "DEBUG_RTD"    /\ p = "moreLabels" -> [letters |-> 53, spans |-> 456]

(* Mutant: a rectangle for every pixel; there are about three in a span. *)
BlitPixels(l) == 3 * l.letters + 9 * 3 * l.spans

(* Registers written by Display_BlitGlyph, over all letters of a label.    *)
Display_BlitGlyph(l) == 3 * l.letters + 9 * l.spans

Internal == currentFont = "INTERNAL"

(* Registers written by the call, with so many polls for the end of a copy.*)
Registers(polls) ==
  CASE call.op \in {"glyphs", "delay"} -> 0
    [] call.op = "clear"         -> 1
    [] call.op = "reset"         -> 8
    [] call.op \in {"zoom", "ink"} -> 3
    [] call.op = "drawMode"      -> IF inGraphicMode THEN 0 ELSE 1
    [] call.op = "font"          -> (IF call.font = "INTERNAL" THEN 6 ELSE 0) + 1
    [] call.op = "rect"          -> 12 * Lines(call.part, call.of)
    [] call.op = "move"          -> 14 + polls + 1
    [] call.op = "write" /\ Internal   -> 4 * Text(call.part, call.of).strings
    [] call.op = "write" /\ ~ Internal -> Display_BlitGlyph(Label(call.part, call.of))

Bytes ==
  IF call.op = "write" /\ Internal
    THEN LET t == Text(call.part, call.of) IN t.strings + t.characters
    ELSE 0

(* A register takes 32 bits in one transfer, a byte takes 16.              *)
Time(registers, bytes) ==
  ((32 * registers + 16 * bytes) * 1000) \div SPEED + OVERHEAD * (registers + bytes)

(* RA8875_init, RA8875_configure, backlight and text cursor.               *)
StartUp == Time(36, 0)

pdMS_TO_TICKS(ms) == (ms * TICK_RATE) \div 1000

-----------------------------------------------------------------------------

(* vTaskDelay(0) only lets tasks of the same priority run.                 *)
vTaskDelay(ms) ==
  IF pdMS_TO_TICKS(ms) > 0
    THEN starved' = 0 /\ unsettled' = {}
    ELSE UNCHANGED <<starved, unsettled>>

(* A copy of several polls lets the idle task run between them, where its  *)
(* delay of 1 ms is one.  The last read and the clear follow, unless the   *)
(* polls have run out.                                                     *)
PolledCopy == starved' \in {0, Time(2, 0)} /\ unsettled' = {}

(* The next call of a render function, and the time that it takes.         *)
Draw ==
  /\ Drawn
  /\ UNCHANGED <<controllerVars, pc>>
  /\ IF call.op = "delay" THEN vTaskDelay(call.ms)
     ELSE \E polls \in {1, MAX_POLLS} :
            IF call.op = "move" /\ polls > 1 /\ pdMS_TO_TICKS(1) > 0
              THEN PolledCopy
              ELSE /\ starved' = starved + Time(Registers(polls), Bytes)
                   /\ unsettled' = IF call.op = "rect"
                                     THEN unsettled \union {call.part} ELSE unsettled

EndDrawing ==
  /\ FirstScreen \/ EndSwitch
  /\ UNCHANGED <<controllerVars, pc, paceVars>>

Waiting == (Warned /\ vTaskDelay(500)) \/ (Pause /\ vTaskDelay(100))

(* The loop and the interrupts take no time beside the wire.               *)
Task == Draw \/ EndDrawing \/ Waiting \/ (Loop /\ UNCHANGED paceVars)

Environment ==
  /\ (\E b \in Button : Interrupt(b)) \/ Tick
  /\ UNCHANGED paceVars

Start == PowerOn /\ starved = StartUp /\ unsettled = {}

Run == Task \/ Environment

(* The task is the only one of its priority, and its delays end.           *)
Program == Start /\ [][Run]_<<allVars, paceVars>> /\ WF_<<allVars, paceVars>>(Task)

-----------------------------------------------------------------------------

(* Such a copy first writes its registers and reads once.                  *)
BeforePolls ==
  IF job # "none" /\ pos <= Len(Script[job]) /\ call.op = "move"
    THEN Time(15, 0)
    ELSE 0

(* Whatever is pressed and however long the chip copies, core 0 idles      *)
(* within the time of the task watchdog, although the longest drawing, at  *)
(* boot, is one stretch: its delays of WATCHDOG_DELAY are none             *)
(* (display.c:346-369, 264-331; bte.c:57).                                 *)
WatchdogFed == starved + BeforePolls <= TIMEOUT

(* The longest that core 0 may be kept from its idle task is within that   *)
(* time: from the yellow box of Display_Init through the first screen and, *)
(* when a button is pressed by then, to the red box of the next.           *)
Affordable == Time(23626 + MAX_POLLS, 211) <= TIMEOUT

(* The large rectangles are given time before text follows                 *)
(* (display.c:72: "Allows rectangles to fully render before switching to   *)
(* text mode").                                                            *)
BoxesSettled == [][UseInternal => "box" \notin unsettled]_<<allVars, paceVars>>

(* The delay between the labels lets the idle task run (display.c:73:      *)
(* "Satiates task watchdog when writing text can take too long").          *)
WatchdogSatiated ==
  [][Delay /\ call.ms = WATCHDOG_DELAY => starved' = 0]_<<allVars, paceVars>>

===============================================================================

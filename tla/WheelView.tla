------------------------------ MODULE WheelView -------------------------------
(***************************************************************************)
(* What the steering wheel promises its driver, without interrupts, polls, *)
(* delays or drawing.                                                      *)
(*                                                                         *)
(* A press of a button is a wish.  The wheel takes one wish at a time, and *)
(* decides on the next screen from the one it shows; presses of a button   *)
(* whose wish is not taken yet add nothing to it.  The warning takes no    *)
(* wishes: it ends by itself, in the debug screen of the drive.            *)
(***************************************************************************)
EXTENDS Screens

VARIABLES
  want,      (* want[b]: button b was pressed, and the wish is not taken.  *)
  screen,    (* The screen the driver sees.                                *)
  next       (* The screen the wheel has decided on; idle at next = screen. *)

vars == <<want, screen, next>>

Button == {"mode", "submode"}

(* Wishes for two buttons, and screens of display.h.                       *)
TypeOK ==
  /\ want   \in [Button -> BOOLEAN]
  /\ screen \in Screen
  /\ next   \in Screen

Init ==
  /\ want   = [b \in Button |-> FALSE]
  /\ screen = "DEBUG_NO_RTD"
  /\ next   = "DEBUG_NO_RTD"

Press(b) ==
  /\ want' = [want EXCEPT ![b] = TRUE]
  /\ UNCHANGED <<screen, next>>

Idle == next = screen /\ screen # "WARN"

TakeMode ==
  /\ Idle
  /\ want["mode"]
  /\ want' = [want EXCEPT !["mode"] = FALSE]
  /\ next' = AfterMode(screen)
  /\ UNCHANGED screen

TakeSubmode ==
  /\ Idle
  /\ want["submode"]
  /\ want' = [want EXCEPT !["submode"] = FALSE]
  /\ next' = AfterSubmode(screen)
  /\ UNCHANGED screen

Show ==
  /\ next # screen
  /\ screen' = next
  /\ UNCHANGED <<want, next>>

EndWarning ==
  /\ screen = "WARN"
  /\ next = "WARN"
  /\ next' = "DEBUG_RTD"
  /\ UNCHANGED <<want, screen>>

Next ==
  \/ \E b \in Button : Press(b)
  \/ TakeMode
  \/ TakeSubmode
  \/ Show
  \/ EndWarning

SafeSpec == Init /\ [][Next]_vars

(* Whatever the driver does with the submode button, a wish of the mode    *)
(* button is taken; the submode button waits for as long as the driver     *)
(* keeps the wheel busy with the mode button.                              *)
Fairness ==
  /\ SF_vars(TakeMode)
  /\ WF_vars(TakeSubmode)
  /\ WF_vars(Show)
  /\ WF_vars(EndWarning)

Spec == SafeSpec /\ Fairness

===============================================================================

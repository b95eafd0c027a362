------------------------------ MODULE Controller ------------------------------
(***************************************************************************)
(* The push buttons of the steering wheel, as main/controller.c handles    *)
(* them: one GPIO interrupt per button, a debounce by time stamp, and one  *)
(* volatile flag per button that the main task polls.                      *)
(*                                                                         *)
(* The two interrupt routines are the same code on two sets of variables,  *)
(* so the flags and time stamps are functions of the button.  Both run on  *)
(* the core of app_main and do not nest: a routine is one atomic step, and *)
(* it may fall between any two steps of the task.                          *)
(***************************************************************************)
EXTENDS Integers

CONSTANT
  DEBOUNCE   (* DEBOUNCE_TIME_US, in ticks of the clock of the model.      *)

ASSUME DebounceAssumption == DEBOUNCE \in Nat

VARIABLES
  pressed,   (* toggle_mode_pressed and toggle_submode_pressed.            *)
  elapsed,   (* Time since the last accepted press (or since boot: the     *)
             (* stamps start at 0).  It stops growing at DEBOUNCE + 1, as  *)
             (* the routines only ask whether it exceeds DEBOUNCE.         *)
  handlers   (* The buttons whose routine is registered with the GPIO      *)
             (* service: an edge on any other pin is dropped.              *)

controllerVars == <<pressed, elapsed, handlers>>

Button == {"mode", "submode"}

ControllerTypeOK ==
  /\ pressed  \in [Button -> BOOLEAN]
  /\ elapsed  \in [Button -> 0 .. DEBOUNCE + 1]
  /\ handlers \in SUBSET Button

ControllerStatics ==
  /\ pressed  = [b \in Button |-> FALSE]
  /\ elapsed  = [b \in Button |-> 0]
  /\ handlers = {}

-----------------------------------------------------------------------------

(* Mutant: the comparison with DEBOUNCE_TIME_US is lost. *)
DebouncedNever(b) == elapsed[b] >= 0

(* Does an edge on b come late enough to count as a press? *)
Debounced(b) == elapsed[b] > DEBOUNCE

(* Mutant: the time stamp is set to the end of the debounce time. *)
StampAhead(b) ==
  /\ b \in handlers
  /\ Debounced(b)
  /\ pressed' = [pressed EXCEPT ![b] = TRUE]
  /\ elapsed' = [elapsed EXCEPT ![b] = - DEBOUNCE]
  /\ UNCHANGED handlers

(* An edge that the interrupt routine of b takes for a press. *)
Controller_ISR(b) ==
  /\ b \in handlers
  /\ Debounced(b)
  /\ pressed' = [pressed EXCEPT ![b] = TRUE]
  /\ elapsed' = [elapsed EXCEPT ![b] = 0]
  /\ UNCHANGED handlers

(* Mutant: every edge, accepted or not, restarts the debounce time. *)
RejectAndRestart(b) ==
  /\ b \in handlers
  /\ ~ Debounced(b)
  /\ elapsed' = [elapsed EXCEPT ![b] = 0]
  /\ UNCHANGED <<pressed, handlers>>

(* An edge that the interrupt routine of b ignores: it writes nothing. *)
Controller_ISR_Reject(b) ==
  /\ b \in handlers
  /\ ~ Debounced(b)
  /\ UNCHANGED controllerVars

(* gpio_isr_handler_add, one call for each button, in Controller_Init. *)
Controller_AddHandler(b) ==
  /\ handlers' = handlers \union {b}
  /\ UNCHANGED <<pressed, elapsed>>

(* esp_timer_get_time() advances by one tick. *)
Controller_TimePasses ==
  /\ elapsed' = [b \in Button |-> IF Debounced(b) THEN elapsed[b]
                                                  ELSE elapsed[b] + 1]
  /\ UNCHANGED <<pressed, handlers>>

===============================================================================

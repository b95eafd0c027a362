------------------------------ MODULE PushButton ------------------------------
(***************************************************************************)
(* The debounce of main/controller.c against the buttons it was written    *)
(* for: mechanical contacts that bounce when they close and again when     *)
(* they open.  A bounce is a falling edge like the first contact, and the  *)
(* interrupt (GPIO_INTR_NEGEDGE) cannot tell one from the other.           *)
(*                                                                         *)
(* The interrupt controller latches an edge and the routine runs before    *)
(* the next tick of the clock of the model; edges that arrive meanwhile    *)
(* fall together.                                                          *)
(***************************************************************************)
EXTENDS Controller

CONSTANTS
  BOUNCE,    (* A contact bounces for at most BOUNCE ticks.                *)
  PRESS      (* A push lasts at most PRESS ticks, both bounces included.   *)

ASSUME PressAssumption == BOUNCE \in Nat /\ PRESS \in Nat

VARIABLES
  contact,   (* Position of each contact.                                  *)
  bouncing,  (* Ticks it may still bounce for.                             *)
  held,      (* Ticks since the push began.                                *)
  latched,   (* GPIO status bit of the pin: an edge waits for its routine. *)
  rest,      (* History: ticks since the last accepted press, as elapsed   *)
             (* should be.                                                 *)
  due,       (* History: the push began after the debounce time had ended. *)
  accepted   (* History: presses the routine has made of this push.        *)

envVars == <<contact, bouncing, held, latched, rest, due, accepted>>
vars == <<controllerVars, envVars>>

(* Flags, ages of the time stamps and handlers are those of controller.c,  *)
(* and no push, with its bounces, outlasts PRESS.                          *)
TypeOK ==
  /\ ControllerTypeOK
  /\ contact  \in [Button -> {"open", "closed"}]
  /\ bouncing \in [Button -> 0 .. BOUNCE]
  /\ held     \in [Button -> 0 .. PRESS]
  /\ latched  \in [Button -> BOOLEAN]
  /\ rest     \in [Button -> 0 .. DEBOUNCE + 1]
  /\ due      \in [Button -> BOOLEAN]
  /\ accepted \in [Button -> 0 .. 2]

(* The routines are registered and the flags as the task left them; the    *)
(* debounce time may or may not be over.                                   *)
Init ==
  /\ pressed  = [b \in Button |-> FALSE]
  /\ elapsed  \in [Button -> {0, DEBOUNCE + 1}]
  /\ handlers = Button
  /\ contact  = [b \in Button |-> "open"]
  /\ bouncing = [b \in Button |-> 0]
  /\ held     = [b \in Button |-> 0]
  /\ latched  = [b \in Button |-> FALSE]
  /\ rest     = elapsed
  /\ due      = [b \in Button |-> FALSE]
  /\ accepted = [b \in Button |-> 0]

(* The contact is open and has come to rest. *)
AtRest(b) == contact[b] = "open" /\ bouncing[b] = 0 /\ ~ latched[b]

(* The driver pushes the button: the first falling edge. *)
Push(b) ==
  /\ AtRest(b)
  /\ contact'  = [contact  EXCEPT ![b] = "closed"]
  /\ bouncing' = [bouncing EXCEPT ![b] = BOUNCE]
  /\ held'     = [held     EXCEPT ![b] = 0]
  /\ latched'  = [latched  EXCEPT ![b] = TRUE]
  /\ due'      = [due      EXCEPT ![b] = rest[b] > DEBOUNCE]
  /\ accepted' = [accepted EXCEPT ![b] = 0]
  /\ UNCHANGED <<controllerVars, rest>>

(* The driver lets go.  PRESS leaves time for the contact to settle. *)
Release(b) ==
  /\ contact[b] = "closed"
  /\ held[b] + BOUNCE <= PRESS
  /\ contact'  = [contact  EXCEPT ![b] = "open"]
  /\ bouncing' = [bouncing EXCEPT ![b] = BOUNCE]
  /\ UNCHANGED <<controllerVars, held, latched, rest, due, accepted>>

(* A falling edge from a contact that has not settled. *)
Bounce(b) ==
  /\ bouncing[b] > 0
  /\ latched' = [latched EXCEPT ![b] = TRUE]
  /\ UNCHANGED <<controllerVars, contact, bouncing, held, rest, due, accepted>>

(* The GPIO service clears the status bit and calls the routine. *)
Interrupt(b) ==
  /\ latched[b]
  /\ latched' = [latched EXCEPT ![b] = FALSE]
  /\ UNCHANGED <<contact, bouncing, held, due>>
  /\ \/ /\ Controller_ISR(b)
        /\ accepted' = [accepted EXCEPT ![b] = IF @ < 2 THEN @ + 1 ELSE @]
        /\ rest'     = [rest EXCEPT ![b] = 0]
     \/ /\ Controller_ISR_Reject(b)
        /\ UNCHANGED <<accepted, rest>>

(* One tick: no interrupt is late by a tick, and no push exceeds PRESS. *)
Tick ==
  /\ \A b \in Button : /\ ~ latched[b]
                       /\ contact[b] = "closed" => held[b] + BOUNCE < PRESS
  /\ Controller_TimePasses
  /\ bouncing' = [b \in Button |-> IF bouncing[b] > 0 THEN bouncing[b] - 1 ELSE 0]
  /\ rest'     = [b \in Button |-> IF rest[b] > DEBOUNCE THEN rest[b] ELSE rest[b] + 1]
  /\ held'     = [b \in Button |-> IF AtRest(b) THEN held[b] ELSE held[b] + 1]
  /\ UNCHANGED <<contact, latched, due, accepted>>

Next ==
  \/ \E b \in Button : Push(b) \/ Release(b) \/ Bounce(b) \/ Interrupt(b)
  \/ Tick

Spec == Init /\ [][Next]_vars

-----------------------------------------------------------------------------

(* However the contact bounces, one push of the button is at most one      *)
(* press (controller.c:29, 38: no flag is raised twice within              *)
(* DEBOUNCE_TIME_US).  PRESS <= DEBOUNCE is enough for it: a button        *)
(* held for longer can count again when it is let go.                      *)
OnePressPerPush == \A b \in Button : accepted[b] <= 1

(* A push that begins after the debounce time is a press, whatever edges   *)
(* were ignored before it: an ignored edge leaves the time stamp alone     *)
(* (controller.c:29-32).                                                   *)
NoPushMissed == \A b \in Button : AtRest(b) /\ due[b] => accepted[b] >= 1

===============================================================================

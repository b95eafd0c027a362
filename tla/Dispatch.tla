------------------------------- MODULE Dispatch -------------------------------
(***************************************************************************)
(* The way of an edge from a pin to its routine: Controller_Init and the   *)
(* interrupt service of ESP-IDF (gpio.c), on the one core they run on.     *)
(*                                                                         *)
(* The GPIO unit latches a falling edge in the status bit of the pin at    *)
(* any moment, also within the service.  The service interrupts the task   *)
(* between two steps, and the task goes on when it has returned.           *)
(***************************************************************************)
EXTENDS Controller

VARIABLES
  typed,       (* Pins set to GPIO_INTR_NEGEDGE: they latch.  All of them  *)
               (* are in isr_clr_on_entry_mask.                            *)
  enabled,     (* Pins whose status bit interrupts the core.               *)
  latched,     (* The status bits.                                         *)
  installed,   (* The service is attached to the interrupt.                *)
  init,        (* The next step of Controller_Init; 0 once it has returned.*)
  isr,         (* Where the service is.                                    *)
  status,      (* Its copy of the bits it has yet to look at.              *)
  pin          (* The pin it is at.                                        *)

VARIABLES      (* History, read by no action.                              *)
  owed,        (* Pins with an edge that no call of their routine followed.*)
  fresh        (* Pins with an edge since their last accepted press.       *)

unit    == <<typed, enabled, latched>>
service == <<isr, status, pin>>
history == <<owed, fresh>>
vars    == <<controllerVars, unit, installed, init, service, history>>

(* Pins and places of controller.c:44-60 and gpio.c:475-521.               *)
TypeOK ==
  /\ ControllerTypeOK
  /\ typed \subseteq Button /\ enabled \subseteq Button /\ latched \subseteq Button
  /\ installed \in BOOLEAN
  /\ init \in 0 .. 9
  /\ isr \in {"off", "loop", "call"}
  /\ status \subseteq Button
  /\ pin \in Button
  /\ owed \subseteq Button /\ fresh \subseteq Button

Init ==
  /\ ControllerStatics
  /\ typed = {} /\ enabled = {} /\ latched = {}
  /\ installed = FALSE
  /\ init = 1
  /\ isr = "off" /\ status = {} /\ pin = "mode"
  /\ owed = {} /\ fresh = {}

-----------------------------------------------------------------------------

(* A falling edge; the promise to answer it holds once Controller_Init has *)
(* returned.                                                               *)
Edge(b) ==
  /\ latched' = latched \union ({b} \intersect typed)
  /\ fresh' = fresh \union {b}
  /\ owed' = IF init = 0 THEN owed \union {b} ELSE owed
  /\ UNCHANGED <<controllerVars, typed, enabled, installed, init, service>>

-----------------------------------------------------------------------------
(* Controller_Init, with both pins in the order of their numbers: 47 is    *)
(* submode.                                                                *)

TaskAt(n) == isr = "off" /\ init = n

gpio_set_intr_type(b, n) ==
  /\ TaskAt(n)
  /\ typed' = typed \union {b}
  /\ init' = n + 1
  /\ UNCHANGED <<controllerVars, enabled, latched, installed, service, history>>

(* Enabling a pin clears its status.                                       *)
gpio_intr_enable(b, n, next) ==
  /\ TaskAt(n)
  /\ latched' = latched \ {b}
  /\ enabled' = enabled \union {b}
  /\ init' = next
  /\ UNCHANGED <<controllerVars, typed, installed, service, history>>

gpio_install_isr_service ==
  /\ TaskAt(5)
  /\ installed' = TRUE
  /\ init' = 6
  /\ UNCHANGED <<controllerVars, unit, service, history>>

(* A critical section, which disables the pin and ends with enabling it.   *)
gpio_isr_handler_add(b, n) ==
  /\ TaskAt(n)
  /\ Controller_AddHandler(b)
  /\ latched' = latched \ {b}
  /\ enabled' = enabled \union {b}
  /\ init' = n + 1
  /\ UNCHANGED <<typed, installed, service, history>>

Controller_Init ==
  \/ gpio_set_intr_type("submode", 1) \/ gpio_intr_enable("submode", 2, 3)
  \/ gpio_set_intr_type("mode", 3)    \/ gpio_intr_enable("mode", 4, 5)
  \/ gpio_install_isr_service
  \/ gpio_isr_handler_add("mode", 6)  \/ gpio_isr_handler_add("submode", 7)
  \/ gpio_intr_enable("mode", 8, 9)   \/ gpio_intr_enable("submode", 9, 0)

-----------------------------------------------------------------------------
(* The service.                                                            *)

Due == installed /\ latched \intersect enabled # {}

gpio_intr_service ==
  /\ isr = "off" /\ Due
  /\ status' = latched \intersect enabled
  /\ isr' = "loop"
  /\ UNCHANGED <<controllerVars, unit, installed, init, pin, history>>

Lowest == IF "submode" \in status THEN "submode" ELSE "mode"

(* Mutant: only the lowest bit of the copy is looked at. *)
NextPinOnly ==
  /\ isr = "loop" /\ status # {}
  /\ pin' = Lowest
  /\ status' = {}
  /\ latched' = latched \ {pin'}
  /\ isr' = "call"
  /\ UNCHANGED <<controllerVars, typed, enabled, installed, init, history>>

(* The lowest bit first.  The status of an edge is cleared on entry.       *)
NextPin ==
  /\ isr = "loop" /\ status # {}
  /\ pin' = Lowest
  /\ status' = status \ {pin'}
  /\ latched' = latched \ {pin'}
  /\ isr' = "call"
  /\ UNCHANGED <<controllerVars, typed, enabled, installed, init, history>>

(* The routine, if there is one.                                           *)
CallHandler ==
  /\ isr = "call"
  /\ \/ Controller_ISR(pin) /\ fresh' = fresh \ {pin}
     \/ Controller_ISR_Reject(pin) /\ UNCHANGED fresh
     \/ pin \notin handlers /\ UNCHANGED <<controllerVars, fresh>>
  /\ owed' = owed \ {pin}
  /\ isr' = "loop"
  /\ UNCHANGED <<unit, installed, init, status, pin>>

(* Mutant: the status is cleared after the routines.                       *)
LeaveAndClear ==
  /\ isr = "loop" /\ status = {}
  /\ isr' = "off"
  /\ latched' = latched \ {pin}
  /\ UNCHANGED <<controllerVars, typed, enabled, installed, init, status, pin, history>>

Leave ==
  /\ isr = "loop" /\ status = {}
  /\ isr' = "off"
  /\ UNCHANGED <<controllerVars, unit, installed, init, status, pin, history>>

Service == gpio_intr_service \/ NextPin \/ CallHandler \/ Leave

(* No interrupt is late by a tick.                                         *)
Tick ==
  /\ isr = "off" /\ ~ Due
  /\ Controller_TimePasses
  /\ UNCHANGED <<unit, installed, init, service, history>>

Next == (\E b \in Button : Edge(b)) \/ Controller_Init \/ Service \/ Tick

Spec == Init /\ [][Next]_vars

(* A pending interrupt is taken, and the task goes on.                     *)
FairSpec == Spec /\ WF_vars(Service) /\ WF_vars(Controller_Init)

-----------------------------------------------------------------------------

(* No edge is forgotten: while its routine has not been called, its status *)
(* is set, or the service is about to call it.  The edge may fall at any   *)
(* point of the service (gpio.c:484-491).                                  *)
NoEdgeForgotten ==
  owed \subseteq latched \union (IF isr = "call" THEN {pin} ELSE {})

(* A routine may be called twice for one edge: once by a service that had  *)
(* cleared the status just before it, and once again for the status that   *)
(* it set.  The second call finds the debounce time not over, and makes no *)
(* second press of it (controller.c:29).                                   *)
OnePressPerEdge == [][\A b \in Button : Controller_ISR(b) => b \in fresh]_vars

(* Every edge is answered, however often the other button interrupts       *)
(* (gpio.c:475-498: the service goes through its copy to the end).         *)
EdgesAnswered == \A b \in Button : b \in owed ~> b \notin owed

===============================================================================

---------------------------- MODULE DispatchProofs ----------------------------
(***************************************************************************)
(* Proofs about module Dispatch, for every debounce time.                  *)
(***************************************************************************)
EXTENDS Dispatch, TLAPS

(* Controller_Init types a pin before it enables it, and both in the end;  *)
(* the promise of an answer begins when it has returned.                   *)
Prepared ==
  /\ init = 0 => typed = Button
  /\ init \in {2, 3} => "submode" \in typed
  /\ init \in 4 .. 9 => typed = Button
  /\ owed # {} => init = 0

(* The pins the service has yet to call, and the one it is about to.       *)
InHand == status \union (IF isr = "call" THEN {pin} ELSE {})

(* The service holds only enabled pins of the attached interrupt.          *)
ServiceRight ==
  /\ isr # "off" => installed
  /\ isr = "off" => status = {}
  /\ InHand \subseteq enabled

(* An edge that waits for its routine is a new one, or its pin was pressed *)
(* within this tick: the clock waits for the service.                      *)
NewOrTooEarly ==
  \A b \in latched \union InHand :
    b \in fresh \/ (elapsed[b] = 0 /\ b \in enabled /\ installed)

IInv == TypeOK /\ Prepared /\ ServiceRight /\ NewOrTooEarly /\ NoEdgeForgotten

-----------------------------------------------------------------------------

USE DebounceAssumption

(* The statics of controller.c:20-24 and a service not yet installed.      *)
LEMMA InitIInv == Init => IInv
<1> SUFFICES ASSUME Init PROVE IInv
  OBVIOUS
<1> USE DEF Init
<1>1. pressed \in [Button -> BOOLEAN] /\ elapsed \in [Button -> 0 .. DEBOUNCE + 1]
  BY DEF ControllerStatics
<1>2. ControllerTypeOK /\ installed \in BOOLEAN
  BY <1>1 DEF ControllerTypeOK, ControllerStatics
<1>3. TypeOK
  BY <1>2 DEF TypeOK, Button
<1>4. Prepared /\ ServiceRight /\ NewOrTooEarly /\ NoEdgeForgotten
  BY DEF Prepared, ServiceRight, InHand, NewOrTooEarly, NoEdgeForgotten
<1> QED
  BY <1>3, <1>4 DEF IInv

(* An edge may fall at any point of Controller_Init and of the service.    *)
LEMMA EdgeStep == ASSUME IInv, NEW b \in Button, Edge(b) PROVE IInv'
<1> USE DEF Edge, IInv, TypeOK, ControllerTypeOK, controllerVars, service
<1>1. TypeOK'
  OBVIOUS
<1>2. Prepared' /\ ServiceRight'
  BY DEF Prepared, ServiceRight, InHand
<1>3. NewOrTooEarly'
  BY DEF NewOrTooEarly, InHand
<1>4. NoEdgeForgotten'
  BY DEF NoEdgeForgotten, Prepared
<1> QED
  BY <1>1, <1>2, <1>3, <1>4

(* The steps of Controller_Init forget no edge that is promised an answer. *)
LEMMA InitStep == ASSUME IInv, Controller_Init PROVE IInv'
<1> USE DEF IInv, TypeOK, controllerVars, unit, service, history, TaskAt
<1>1. isr = "off" /\ UNCHANGED <<service, history>> /\ (installed => installed')
  BY DEF Controller_Init, gpio_set_intr_type, gpio_intr_enable,
         gpio_install_isr_service, gpio_isr_handler_add
<1>2. ControllerTypeOK' /\ UNCHANGED elapsed
  BY DEF ControllerTypeOK, Controller_Init, gpio_set_intr_type, gpio_intr_enable,
         gpio_install_isr_service, gpio_isr_handler_add, Controller_AddHandler, Button
<1>3. /\ typed \subseteq typed' /\ typed' \subseteq Button
      /\ enabled \subseteq enabled' /\ enabled' \subseteq Button
      /\ latched' \subseteq latched
  BY DEF Controller_Init, gpio_set_intr_type, gpio_intr_enable,
         gpio_install_isr_service, gpio_isr_handler_add, Button
<1>4. installed' \in BOOLEAN
  BY DEF Controller_Init, gpio_set_intr_type, gpio_intr_enable,
         gpio_install_isr_service, gpio_isr_handler_add
<1>5. init # 0 /\ init' \in 0 .. 9 /\ Prepared'
  <2>1. CASE gpio_set_intr_type("submode", 1)
    BY <2>1 DEF gpio_set_intr_type, Prepared
  <2>2. CASE gpio_set_intr_type("mode", 3)
    <3>1. init = 3 /\ init' = 4 /\ typed' = typed \union {"mode"}
      BY <2>2 DEF gpio_set_intr_type
    <3>2. "submode" \in typed /\ owed = {}
      BY <3>1 DEF Prepared
    <3>3. typed' = Button
      BY <1>3, <3>1, <3>2 DEF Button
    <3> QED
      BY <1>1, <3>1, <3>2, <3>3 DEF Prepared
  <2>3. CASE UNCHANGED typed /\ init \notin {0, 1, 3} /\ init' = IF init = 9 THEN 0 ELSE init + 1
    BY <1>1, <2>3 DEF Prepared
  <2> QED
    BY <2>1, <2>2, <2>3 DEF Controller_Init, gpio_intr_enable,
                            gpio_install_isr_service, gpio_isr_handler_add
<1>6. TypeOK'
  BY <1>1, <1>2, <1>3, <1>4, <1>5
<1>7. owed' = {} /\ NoEdgeForgotten'
  BY <1>1, <1>5 DEF Prepared, NoEdgeForgotten
<1>8. ServiceRight'
  BY <1>1, <1>3 DEF ServiceRight, InHand
<1>9. InHand' = InHand /\ elapsed' = elapsed /\ fresh' = fresh
  BY <1>1, <1>2 DEF InHand
<1>10. NewOrTooEarly'
  BY <1>1, <1>3, <1>9 DEF NewOrTooEarly
<1> QED
  BY <1>5, <1>6, <1>7, <1>8, <1>10

(* An edge leaves its status bit only for the call of its routine          *)
(* (gpio.c:484-490), and a second call for it comes too early              *)
(* (controller.c:29).                                                      *)
LEMMA ServiceStep == ASSUME IInv, Service PROVE IInv'
<1> USE DEF IInv, TypeOK, ControllerTypeOK, controllerVars, unit, service, history,
            ServiceRight, InHand, NewOrTooEarly, NoEdgeForgotten
<1>1. CASE gpio_intr_service
  BY <1>1 DEF gpio_intr_service, Due, Prepared
<1>2. CASE NextPin
  BY <1>2, ZenonT(60) DEF NextPin, Lowest, Prepared, Button
<1>3. CASE CallHandler
  <2>1. pressed' \in [Button -> BOOLEAN] /\ handlers' \subseteq Button
    BY <1>3 DEF CallHandler, Controller_ISR, Controller_ISR_Reject
  <2>2. elapsed' \in [Button -> 0 .. DEBOUNCE + 1]
    BY <1>3 DEF CallHandler, Controller_ISR, Controller_ISR_Reject
  <2>3. TypeOK'
    BY <1>3, <2>1, <2>2 DEF CallHandler
  <2>4. Prepared' /\ ServiceRight' /\ NoEdgeForgotten'
    BY <1>3 DEF CallHandler, Prepared
  <2>5. NewOrTooEarly'
    BY <1>3 DEF CallHandler, Controller_ISR, Controller_ISR_Reject
  <2> QED
    BY <2>3, <2>4, <2>5
<1>4. CASE Leave
  BY <1>4 DEF Leave, Prepared
<1> QED
  BY <1>1, <1>2, <1>3, <1>4 DEF Service

(* The clock runs only while no enabled pin waits.                         *)
LEMMA TickStep == ASSUME IInv, Tick PROVE IInv'
  BY DEF IInv, TypeOK, ControllerTypeOK, Tick, Due, Controller_TimePasses, Debounced,
         unit, service, history, Prepared, ServiceRight, InHand, NewOrTooEarly,
         NoEdgeForgotten

(* Every step of the task, the service, the pins and the clock.            *)
LEMMA IInvStep == IInv /\ [Next]_vars => IInv'
<1> SUFFICES ASSUME IInv, [Next]_vars PROVE IInv'
  OBVIOUS
<1>1. CASE UNCHANGED vars
  BY <1>1 DEF vars, controllerVars, unit, service, history, IInv, TypeOK,
              ControllerTypeOK, Prepared, ServiceRight, InHand, NewOrTooEarly,
              NoEdgeForgotten
<1> QED
  BY <1>1, EdgeStep, InitStep, ServiceStep, TickStep DEF Next

(* The invariant holds in every state of Controller_Init and the service.  *)
LEMMA Invariance == Spec => []IInv
  BY InitIInv, IInvStep, PTL DEF Spec

-----------------------------------------------------------------------------

(* Pins, status bits and places of the service keep to their values        *)
(* (gpio.c:475-521).                                                       *)
THEOREM TypeCorrect == Spec => []TypeOK
<1>1. IInv => TypeOK
  BY DEF IInv
<1> QED
  BY <1>1, Invariance, PTL

(* No edge on either pin is forgotten once Controller_Init has returned,   *)
(* at whatever point of the service it falls (gpio.c:484-491).             *)
THEOREM EdgesKept == Spec => []NoEdgeForgotten
<1>1. IInv => NoEdgeForgotten
  BY DEF IInv
<1> QED
  BY <1>1, Invariance, PTL

(* A step that accepts a press of a button answers an edge that no press   *)
(* answered before (controller.c:29, gpio.c:484-491).                      *)
LEMMA PressStep ==
  ASSUME IInv, [Next]_vars
  PROVE  [\A b \in Button : Controller_ISR(b) => b \in fresh]_vars
<1> SUFFICES ASSUME NEW b \in Button, Controller_ISR(b), Next PROVE b \in fresh
  BY DEF vars
<1> USE DEF IInv, TypeOK, ControllerTypeOK
<1>1. elapsed[b] > DEBOUNCE /\ elapsed' = [elapsed EXCEPT ![b] = 0]
  BY DEF Controller_ISR, Debounced
<1>2. elapsed'[b] < elapsed[b]
  BY <1>1
<1>3. CASE Service
  <2>1. CallHandler /\ Controller_ISR(pin)
    BY <1>2, <1>3 DEF Service, gpio_intr_service, NextPin, CallHandler, Leave,
                      Controller_ISR_Reject, controllerVars
  <2>2. b = pin
    BY <1>2, <2>1 DEF Controller_ISR
  <2>3. b \in InHand
    BY <2>1, <2>2 DEF CallHandler, InHand
  <2> QED
    BY <1>1, <2>3 DEF NewOrTooEarly
<1>4. CASE ~ Service
  <2>1. UNCHANGED elapsed \/ Controller_TimePasses
    BY <1>4 DEF Next, Edge, Controller_Init, gpio_set_intr_type, gpio_intr_enable,
                gpio_install_isr_service, gpio_isr_handler_add, Controller_AddHandler,
                Tick, controllerVars
  <2> QED
    BY <1>2, <2>1 DEF Controller_TimePasses
<1> QED
  BY <1>3, <1>4

(* The service may call a routine twice for one edge, and the debounce     *)
(* time makes one press of it (controller.c:29).                           *)
THEOREM OneForOne == Spec => OnePressPerEdge
<1>1. IInv /\ [Next]_vars => [\A b \in Button : Controller_ISR(b) => b \in fresh]_vars
  BY PressStep
<1> QED
  BY <1>1, Invariance, PTL DEF Spec, OnePressPerEdge

===============================================================================

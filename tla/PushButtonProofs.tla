--------------------------- MODULE PushButtonProofs ---------------------------
(***************************************************************************)
(* Proofs about module PushButton, for every debounce time and every way a *)
(* contact may bounce.                                                     *)
(***************************************************************************)
EXTENDS PushButton, TLAPS

(* What a push has used up of PRESS, and what it may still use.            *)
Settles == \A b \in Button : contact[b] = "open" => held[b] + bouncing[b] <= PRESS

(* A press of this push is no older than the push.                         *)
Recent == \A b \in Button : ~ AtRest(b) /\ accepted[b] >= 1 => elapsed[b] <= held[b]

(* The first edge of a push that is due waits for its routine, and the     *)
(* clock waits with it.                                                    *)
Waiting ==
  /\ rest = elapsed
  /\ \A b \in Button : due[b] /\ accepted[b] = 0 => latched[b] /\ Debounced(b)

IInv == TypeOK /\ Settles /\ Waiting

-----------------------------------------------------------------------------

USE DebounceAssumption, PressAssumption

(* The statics of controller.c:20-24 and open contacts satisfy the invariants. *)
LEMMA InitIInv == Init => IInv /\ Recent /\ OnePressPerPush
  BY DEF Init, IInv, TypeOK, ControllerTypeOK, Settles, Waiting, Recent,
         OnePressPerPush, AtRest, Button

(* No push, bounce, routine or tick breaks the invariant.                  *)
LEMMA IInvStep == IInv /\ [Next]_vars => IInv'
<1> SUFFICES ASSUME IInv, [Next]_vars PROVE IInv'
  OBVIOUS
<1> USE DEF IInv, TypeOK, ControllerTypeOK, Settles, Waiting, Debounced
<1>1. ASSUME NEW b \in Button, Push(b) PROVE IInv'
  BY <1>1 DEF Push, AtRest, controllerVars
<1>2. ASSUME NEW b \in Button, Release(b) PROVE IInv'
  BY <1>2 DEF Release, controllerVars
<1>3. ASSUME NEW b \in Button, Bounce(b) PROVE IInv'
  BY <1>3 DEF Bounce, controllerVars
<1>4. ASSUME NEW b \in Button, Interrupt(b), Controller_ISR(b) PROVE IInv'
  BY <1>4 DEF Interrupt, Controller_ISR, Controller_ISR_Reject
<1>5. ASSUME NEW b \in Button, Interrupt(b), Controller_ISR_Reject(b) PROVE IInv'
  BY <1>5 DEF Interrupt, Controller_ISR, Controller_ISR_Reject, controllerVars
<1>6. CASE Tick
  BY <1>6 DEF Tick, Controller_TimePasses, AtRest
<1>7. CASE UNCHANGED vars
  BY <1>7 DEF vars, controllerVars, envVars
<1> QED
  BY <1>1, <1>2, <1>3, <1>4, <1>5, <1>6, <1>7 DEF Next, Interrupt

(* Pushes no longer than the debounce time: an edge of the push that has   *)
(* made its press comes too early for another.                             *)
LEMMA RecentStep ==
  ASSUME PRESS <= DEBOUNCE, IInv, Recent, OnePressPerPush, [Next]_vars
  PROVE  Recent' /\ OnePressPerPush'
<1> USE DEF IInv, TypeOK, ControllerTypeOK, Recent, OnePressPerPush, AtRest, Debounced
<1>1. ASSUME NEW b \in Button, Push(b) PROVE Recent' /\ OnePressPerPush'
  BY <1>1 DEF Push, controllerVars
<1>2. ASSUME NEW b \in Button, Release(b) PROVE Recent' /\ OnePressPerPush'
  BY <1>2 DEF Release, controllerVars
<1>3. ASSUME NEW b \in Button, Bounce(b) PROVE Recent' /\ OnePressPerPush'
  BY <1>3 DEF Bounce, controllerVars
<1>4. ASSUME NEW b \in Button, Interrupt(b), Controller_ISR(b)
      PROVE  Recent' /\ OnePressPerPush'
  <2>1. accepted[b] = 0
    BY <1>4 DEF Interrupt, Controller_ISR
  <2> QED
    BY <1>4, <2>1 DEF Interrupt, Controller_ISR, Controller_ISR_Reject
<1>5. ASSUME NEW b \in Button, Interrupt(b), Controller_ISR_Reject(b)
      PROVE  Recent' /\ OnePressPerPush'
  BY <1>5 DEF Interrupt, Controller_ISR, Controller_ISR_Reject, controllerVars
<1>6. CASE Tick
  BY <1>6 DEF Tick, Controller_TimePasses
<1>7. CASE UNCHANGED vars
  BY <1>7 DEF vars, controllerVars, envVars
<1> QED
  BY <1>1, <1>2, <1>3, <1>4, <1>5, <1>6, <1>7 DEF Next, Interrupt

-----------------------------------------------------------------------------
(* The theorems.                                                           *)

(* The invariant holds in every order of pushes, bounces and interrupts.   *)
THEOREM Invariance == Spec => []IInv
  BY InitIInv, IInvStep, PTL DEF Spec

(* Every variable keeps to its values, and in particular every push and    *)
(* its bounces fit into PRESS.                                             *)
THEOREM TypeCorrect == Spec => []TypeOK
  BY Invariance, PTL DEF IInv

(* A push that begins after the debounce time is a press, for every        *)
(* debounce time and every bounce (controller.c:29-32).                    *)
THEOREM NoneMissed == Spec => []NoPushMissed
<1>1. IInv => NoPushMissed
  BY DEF IInv, TypeOK, Waiting, NoPushMissed, AtRest
<1> QED
  BY Invariance, <1>1, PTL

(* One push is at most one press, if no push outlasts the debounce time    *)
(* (controller.c:18, 29, 38).                                              *)
THEOREM OneForOne == PRESS <= DEBOUNCE => (Spec => []OnePressPerPush)
<1> SUFFICES ASSUME PRESS <= DEBOUNCE PROVE Spec => []OnePressPerPush
  OBVIOUS
<1>1. IInv /\ Recent /\ OnePressPerPush /\ [Next]_vars => Recent' /\ OnePressPerPush'
  BY RecentStep
<1> QED
  BY InitIInv, Invariance, <1>1, PTL DEF Spec

===============================================================================

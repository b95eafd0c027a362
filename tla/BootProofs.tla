------------------------------ MODULE BootProofs ------------------------------
(***************************************************************************)
(* Proofs about module Boot.                                               *)
(***************************************************************************)
EXTENDS Boot, TLAPS

N == Len(Writes)

(* What has been written since the probe is in the panel's registers,      *)
(* unless the panel has started anew.                                      *)
Written(m) ==
  handle /\ ~ lost => panel = "ready" /\ \A i \in 1 .. m : Writes[i] \in regs

IInv ==
  /\ TypeOK
  /\ pc \in {"bus", "device", "probe", "retry"} => n = 1
  /\ pc \in {"bus", "device"} => ~ handle
  /\ pc \in {"probe", "retry", "loop"} => handle
  /\ pc = "write" => Written(n - 1)
  /\ pc = "loop" => Written(N)

(* The writes of Display_Init in their order (core.c:58-111,               *)
(* display.c:427-432).                                                     *)
LEMMA WritesType ==
  /\ N \in Nat /\ Len(InitWrites) + 1 \in 1 .. N /\ 1 \in 1 .. N
  /\ \A i \in 1 .. N : Writes[i] \in Registers
<1>1. Len(InitWrites) = 2
  BY DEF InitWrites
<1>2. N = 17
  BY SMTT(60) DEF N, Writes, InitWrites, ConfigureWrites, DisplayWrites
<1>3. \A i \in 1 .. N : Writes[i] \in Registers
  BY DEF N, Registers
<1> QED
  BY <1>1, <1>2, <1>3

(* A context that is cleared and a panel not yet asked (core.c:12).        *)
LEMMA InitIInv == Init => IInv
  BY WritesType DEF Init, IInv, TypeOK, N

(* Every write after the probe is heard or comes to a panel that is lost,  *)
(* and none is passed without a device (io.c:65).                          *)
LEMMA WriteStep == ASSUME IInv, RA8875_write_register PROVE IInv'
<1> USE WritesType DEF IInv, TypeOK, Written, RA8875_write_register
<1>1. CASE ~ handle
  BY <1>1
<1>2. CASE handle
  <2>1. n' \in 1 .. N
    BY <1>2 DEF Proceed, N
  <2>2. regs' \subseteq Registers
    BY <1>2 DEF N
  <2>3. TypeOK'
    BY <1>2, <2>1, <2>2 DEF Proceed, N
  <2>4. ~ lost => panel = "ready" /\ \A i \in 1 .. n : Writes[i] \in regs'
    BY <1>2 DEF N
  <2>5. \/ pc' = "loop" /\ n = N
        \/ pc' = "write" /\ n' - 1 = n
    BY <1>2 DEF Proceed, N
  <2> QED
    BY <1>2, <2>3, <2>4, <2>5
<1> QED
  BY <1>1, <1>2

(* Every failure, restart and start of the panel keeps the invariant.      *)
LEMMA IInvStep == IInv /\ [Next]_vars => IInv'
<1> SUFFICES ASSUME IInv, [Next]_vars PROVE IInv'
  OBVIOUS
<1> USE WritesType DEF IInv, TypeOK, Written, N, GoTo, Fail, PowerOn
<1>1. CASE spi_bus_initialize
  <2>1. CASE Fail
    BY <1>1, <2>1 DEF spi_bus_initialize
  <2>2. CASE GoTo("device") /\ UNCHANGED <<n, handle>>
    BY <1>1, <2>2 DEF spi_bus_initialize
  <2> QED
    BY <1>1, <2>1, <2>2 DEF spi_bus_initialize
<1>2. CASE spi_bus_add_device
  <2>1. CASE Fail
    BY <1>2, <2>1 DEF spi_bus_add_device
  <2>2. CASE handle' = TRUE /\ GoTo("probe") /\ UNCHANGED n
    BY <1>2, <2>2 DEF spi_bus_add_device
  <2> QED
    BY <1>2, <2>1, <2>2 DEF spi_bus_add_device
<1>3. CASE Probe
  BY <1>3 DEF Probe
<1>4. CASE Retry
  BY <1>4 DEF Retry
<1>5. CASE RA8875_write_register
  BY <1>5, WriteStep
<1>6. CASE Abort \/ BrownOut
  BY <1>6 DEF Abort, BrownOut
<1>7. CASE Waver
  BY <1>7 DEF Waver
<1>8. CASE PanelStart
  BY <1>8 DEF PanelStart
<1>9. CASE PanelLost
  BY <1>9 DEF PanelLost
<1>10. CASE UNCHANGED vars
  BY <1>10 DEF vars
<1> QED
  BY <1>1, <1>2, <1>3, <1>4, <1>5, <1>6, <1>7, <1>8, <1>9, <1>10 DEF Next, app_main

(* The invariant holds from power-on, through every restart.               *)
LEMMA Invariance == Spec => []IInv
  BY InitIInv, IInvStep, PTL DEF Spec

-----------------------------------------------------------------------------

(* Places, registers and the handle keep to their values (core.c:10-62).   *)
THEOREM TypeCorrect == Spec => []TypeOK
<1>1. IInv => TypeOK
  BY DEF IInv
<1> QED
  BY <1>1, Invariance, PTL

(* Whatever is written with a device goes to a panel that has answered and *)
(* has had every write before it (core.c:38-59, display.c:421-432).        *)
THEOREM InOrder == Spec => []SetUpInOrder
<1>1. IInv => SetUpInOrder
  BY DEF IInv, Written, SetUpInOrder
<1> QED
  BY <1>1, Invariance, PTL

(* The buttons are looked at only with a panel that is completely set up   *)
(* (core.c:52-55, io.c:65, display.c:421).                                  *)
THEOREM ReadyInLoop == Spec => []LoopReady
<1>1. IInv => LoopReady
  <2> SUFFICES ASSUME IInv, pc = "loop", ~ lost
               PROVE  handle /\ panel = "ready" /\ regs = Registers
    BY DEF LoopReady
  <2>1. handle /\ panel = "ready" /\ regs \subseteq Registers
    BY DEF IInv, Written, TypeOK
  <2>2. \A i \in 1 .. N : Writes[i] \in regs
    BY DEF IInv, Written
  <2>3. Registers \subseteq regs
    BY <2>2 DEF Registers, N
  <2> QED
    BY <2>1, <2>3
<1> QED
  BY <1>1, Invariance, PTL

===============================================================================

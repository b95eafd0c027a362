--------------------------------- MODULE Bte ----------------------------------
(***************************************************************************)
(* RA8875/bte.c against the transfer engine of the chip: the three         *)
(* operations, the two ways to wait for the engine, and the interrupt      *)
(* flags that the waits share.                                             *)
(*                                                                         *)
(* Every access of the driver to a register is a step of its own, and the  *)
(* engine works between any two.  Its time is counted in the time of one   *)
(* poll.  The chip is taken to behave as bte.c relies on: it raises a flag *)
(* at the end of a copy and whenever it is ready for the next block; a bit *)
(* written to the flags clears that flag.  What it does with a start while *)
(* it is busy nobody says: it takes it or it does not.                     *)
(***************************************************************************)
EXTENDS Naturals

CONSTANTS
  Operations,     (* The operations of bte.c that are called.              *)
  ENGINE,         (* The longest the engine works without a break.         *)
  BOOT_TIME,      (* How long it works while the ESP32 restarts.           *)
  MAX_POLLS,      (* 1000 (bte.c:54).                                      *)
  MAX_BLOCK_SIZE, (* 512 (bte.c:68).                                       *)
  MAX_LEN         (* The longest image written, in bytes.                  *)

ASSUME BteAssumption ==
  /\ Operations \subseteq {"write", "move", "fill"}
  /\ ENGINE \in Nat \ {0}
  /\ BOOT_TIME \in Nat
  /\ MAX_POLLS \in Nat \ {0}
  /\ MAX_BLOCK_SIZE \in Nat \ {0}
  /\ MAX_LEN \in Nat \ {0}

VARIABLES         (* The chip.                                             *)
  engine,         (* What it is at.                                        *)
  work,           (* How long until it is done.                            *)
  due,            (* Bytes of an image that are still to come.             *)
  flags           (* Register 0xF1.                                        *)

VARIABLES         (* The driver.                                           *)
  pc, op, len, offset, polls, status

VARIABLE
  clean           (* History: the call found the chip as it should be.     *)

chip   == <<engine, work, due, flags>>
driver == <<pc, op, len, offset, polls, status>>
vars   == <<chip, driver, clean>>

RW        == "INT_BTE_RW"
COMPLETED == "INT_BTE_COMPLETED"
Flag      == {RW, COMPLETED}

(* The driver never loses count of its blocks or polls, nor the engine of  *)
(* its work (bte.c:54, 74, 87-102).                                        *)
TypeOK ==
  /\ engine \in {"idle", "copy", "load", "await", "finish"}
  /\ work \in 0 .. ENGINE
  /\ due \in 0 .. MAX_LEN
  /\ flags \subseteq Flag
  /\ pc \in {"init", "idle", "exec", "spin", "query", "clear", "send",
             "poll", "pollClear", "pollDelay"}
  /\ op \in {"write", "move", "fill"}
  /\ len \in 0 .. MAX_LEN
  /\ offset \in 0 .. len
  /\ polls \in 0 .. MAX_POLLS
  /\ status \subseteq Flag
  /\ clean \in BOOLEAN

(* RA8875_init has yet to clear whatever flags there are.                  *)
Init ==
  /\ engine = "idle" /\ work = 0 /\ due = 0 /\ flags \in SUBSET Flag
  /\ pc = "init" /\ op = "move" /\ len = 0 /\ offset = 0 /\ polls = 0
  /\ status = {}
  /\ clean = FALSE

-----------------------------------------------------------------------------
(* The engine.                                                             *)

EndOfWork ==
  /\ UNCHANGED due
  /\ \/ /\ engine \in {"copy", "finish"}
        /\ engine' = "idle" /\ work' = 0
        /\ flags' = flags \union {COMPLETED}
     \/ /\ engine = "load" /\ due > 0
        /\ engine' = "await" /\ work' = 0
        /\ flags' = flags \union {RW}
     \/ /\ engine = "load" /\ due = 0
        /\ engine' = "idle" /\ work' = 0
        /\ flags' = flags \union {RW, COMPLETED}
     \/ /\ engine = "load" /\ due = 0
        /\ engine' = "finish" /\ work' \in 1 .. ENGINE
        /\ flags' = flags \union {RW}

(* n polls pass.                                                           *)
Elapse(n) ==
  \/ /\ work > n
     /\ work' = work - n
     /\ UNCHANGED <<engine, due, flags>>
  \/ /\ work \in 1 .. n
     /\ EndOfWork
  \/ /\ work = 0
     /\ UNCHANGED chip

Work == work > 0 /\ Elapse(1) /\ UNCHANGED <<driver, clean>>

Busy(what, bytes) ==
  /\ engine' = what
  /\ work' \in 1 .. ENGINE
  /\ due' = bytes

-----------------------------------------------------------------------------
(* The driver.                                                             *)

Idle == engine = "idle" /\ flags = {}

(* The registers of a transfer are set up.                                 *)
Call(o, bytes) ==
  /\ pc = "idle"
  /\ o \in Operations
  /\ op' = o
  /\ len' = bytes
  /\ offset' = 0
  /\ polls' = 0
  /\ pc' = "exec"
  /\ clean' = Idle
  /\ UNCHANGED <<chip, status>>

RA8875_bte_write == \E bytes \in 1 .. MAX_LEN : Call("write", bytes)
RA8875_bte_move  == Call("move", 0)
RA8875_bte_fill  == Call("fill", 0)

(* Mutant: no wait for the first sign that the chip takes data. *)
exec_bte_unwaited ==
  /\ pc = "exec"
  /\ Busy(IF op = "write" THEN "load" ELSE "copy", len)
  /\ pc' = CASE op = "write" -> "send" [] op = "move" -> "poll" [] op = "fill" -> "spin"
  /\ UNCHANGED <<flags, op, len, offset, polls, status, clean>>

exec_bte ==
  /\ pc = "exec"
  /\ \/ Busy(IF op = "write" THEN "load" ELSE "copy", len)
     \/ engine # "idle" /\ UNCHANGED <<engine, work, due>>
  /\ pc' = IF op = "move" THEN "poll" ELSE "spin"
  /\ UNCHANGED <<flags, op, len, offset, polls, status, clean>>

mask == IF op = "write" THEN RW ELSE COMPLETED

(* wait_for_interrupt: the pin is low while a flag is set.                 *)
Spin ==
  /\ pc = "spin"
  /\ flags # {}
  /\ pc' = "query"
  /\ UNCHANGED <<chip, op, len, offset, polls, status, clean>>

(* Mutant: the flags are cleared before they are read. *)
QueryCleared ==
  /\ pc = "query"
  /\ flags' = {}
  /\ status' = {}
  /\ pc' = "clear"
  /\ UNCHANGED <<engine, work, due, op, len, offset, polls, clean>>

Query ==
  /\ pc = "query"
  /\ status' = flags
  /\ pc' = "clear"
  /\ UNCHANGED <<chip, op, len, offset, polls, clean>>

(* Mutant: only whole blocks are sent. *)
FoundWholeBlock ==
  IF mask \notin status THEN "spin"
  ELSE IF op = "write" /\ offset + MAX_BLOCK_SIZE <= len THEN "send" ELSE "idle"

(* What follows: to wait on, the next block, or to return.                 *)
Found == IF mask \notin status THEN "spin"
         ELSE IF op = "write" /\ offset < len THEN "send" ELSE "idle"

Clear ==
  /\ pc = "clear"
  /\ flags' = flags \ status
  /\ pc' = Found
  /\ UNCHANGED <<engine, work, due, op, len, offset, polls, status, clean>>

(* One block, and the count that the code updates after the next wait.  A  *)
(* chip that is not ready loses the block.                                 *)
WriteBlock ==
  LET blockLen == IF len - offset > MAX_BLOCK_SIZE THEN MAX_BLOCK_SIZE ELSE len - offset
  IN  /\ pc = "send"
      /\ IF engine = "await"
           THEN Busy("load", IF blockLen > due THEN 0 ELSE due - blockLen)
           ELSE UNCHANGED <<engine, work, due>>
      /\ offset' = offset + blockLen
      /\ pc' = "spin"
      /\ UNCHANGED <<flags, op, len, polls, status, clean>>

(* wait_for_interrupt_polling.                                             *)
Poll ==
  /\ pc = "poll"
  /\ status' = flags
  /\ pc' = IF mask \in flags THEN "pollClear" ELSE "pollDelay"
  /\ UNCHANGED <<chip, op, len, offset, polls, clean>>

(* Mutant: the flag that was found is not cleared. *)
PollLeave ==
  /\ pc = "pollClear"
  /\ pc' = "idle"
  /\ UNCHANGED <<chip, op, len, offset, polls, status, clean>>

PollClear ==
  /\ pc = "pollClear"
  /\ flags' = flags \ status
  /\ pc' = "idle"
  /\ UNCHANGED <<engine, work, due, op, len, offset, polls, status, clean>>

(* Mutant: the last poll is not counted, and another follows. *)
PollAgain ==
  /\ pc = "pollDelay"
  /\ Elapse(1)
  /\ polls' = polls + 1
  /\ pc' = "poll"
  /\ UNCHANGED <<op, len, offset, status, clean>>

PollDelay ==
  /\ pc = "pollDelay"
  /\ Elapse(1)
  /\ polls' = polls + 1
  /\ pc' = IF polls' < MAX_POLLS THEN "poll" ELSE "idle"
  /\ UNCHANGED <<op, len, offset, status, clean>>

(* The write of 0xFF to the flags that ends RA8875_init.                   *)
RA8875_init ==
  /\ pc = "init"
  /\ flags' = {}
  /\ pc' = "idle"
  /\ UNCHANGED <<engine, work, due, op, len, offset, polls, status, clean>>

(* The ESP32 restarts; the chip goes on.                                   *)
Restart ==
  /\ Elapse(BOOT_TIME)
  /\ pc' = "init" /\ op' = "move" /\ len' = 0 /\ offset' = 0 /\ polls' = 0
  /\ status' = {}
  /\ clean' = FALSE

Operation == RA8875_bte_write \/ RA8875_bte_move \/ RA8875_bte_fill

Driver ==
  \/ exec_bte \/ Spin \/ Query \/ Clear \/ WriteBlock
  \/ Poll \/ PollClear \/ PollDelay \/ RA8875_init

Next == Operation \/ Driver \/ Work \/ Restart

Spec == Init /\ [][Next]_vars

(* The driver and the engine go on; nobody has to call the driver.         *)
FairSpec == Spec /\ WF_vars(Driver) /\ WF_vars(Work)

-----------------------------------------------------------------------------

(* A copy or a filling that has returned is over, and so is every one      *)
(* before it: the next call finds no flag to take for its own, even after  *)
(* a restart amid a copy (bte.c:41-66, core.c:59).  It takes an engine     *)
(* faster than the polls and the boot; RA8875_bte_write is not among the   *)
(* operations, since it leaves COMPLETED behind (bte.c:98).                *)
ReturnedOver == pc = "idle" => Idle

(* Every call returns, without a limit on the waiting (bte.c:44-48) as     *)
(* with one: no flag is cleared unseen, and none is missed for good.       *)
CallReturns == pc = "exec" ~> pc = "idle"

(* Whatever the engine's speed and the operations: a call that finds the   *)
(* chip clean is over when it returns, unless its polls ran out.  Of       *)
(* RA8875_bte_write only the data is, which all have been taken.           *)
CleanKept ==
  pc = "idle" /\ clean /\ polls < MAX_POLLS
    => IF op = "write" THEN due = 0 /\ engine \in {"idle", "finish"} /\ RW \notin flags
                       ELSE Idle

(* No block is sent before the chip is ready for it, and no flag of one    *)
(* block is taken for that of the next (bte.c:83-102).                     *)
BlocksTaken == [][WriteBlock /\ clean => engine = "await"]_vars

===============================================================================

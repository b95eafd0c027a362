------------------------------ MODULE BteProofs -------------------------------
(***************************************************************************)
(* Proofs about Bte, for any engine, boot, number of polls, size of block  *)
(* and length of image.                                                    *)
(***************************************************************************)
EXTENDS Bte, TLAPS

(* The polls stop at their limit (bte.c:57).                               *)
PollInv == pc \in {"exec", "poll", "pollClear", "pollDelay"} => polls < MAX_POLLS

TypeInv == TypeOK /\ PollInv

(* The sizes and times of bte.c:54-68 are numbers.                         *)
LEMMA Sizes ==
  /\ ENGINE \in Nat /\ ENGINE > 0
  /\ BOOT_TIME \in Nat
  /\ MAX_POLLS \in Nat /\ MAX_POLLS > 0
  /\ MAX_BLOCK_SIZE \in Nat /\ MAX_BLOCK_SIZE > 0
  /\ MAX_LEN \in Nat /\ MAX_LEN > 0
  /\ Operations \subseteq {"write", "move", "fill"}
BY BteAssumption DEF BteAssumption

USE Sizes DEF chip, driver, Flag, RW, COMPLETED

(* What the engine does by itself keeps its variables in range             *)
(* (bte.c:42, 57: the waits assume no more).                               *)
LEMMA ElapseType ==
  ASSUME TypeOK, NEW n \in Nat, Elapse(n)
  PROVE  /\ engine' \in {"idle", "copy", "load", "await", "finish"}
         /\ work' \in 0 .. ENGINE
         /\ due' \in 0 .. MAX_LEN
         /\ flags' \subseteq Flag
<1>1. CASE work > n /\ work' = work - n /\ UNCHANGED <<engine, due, flags>>
  BY <1>1 DEF TypeOK
<1>2. CASE work \in 1 .. n /\ EndOfWork
  <2>1. engine' \in {"idle", "copy", "load", "await", "finish"} /\ due' \in 0 .. MAX_LEN
    BY <1>2 DEF TypeOK, EndOfWork
  <2>2. work' \in 0 .. ENGINE
    BY <1>2 DEF TypeOK, EndOfWork
  <2>3. flags' \subseteq Flag
    BY <1>2 DEF TypeOK, EndOfWork
  <2>4. QED
    BY <2>1, <2>2, <2>3
<1>3. CASE UNCHANGED chip
  BY <1>3 DEF TypeOK
<1>4. QED
  BY <1>1, <1>2, <1>3 DEF Elapse

(* Every step of the driver, the engine or the ESP32 keeps the types and   *)
(* the limit of the polls (bte.c:41-121).                                  *)
LEMMA TypeStep == TypeInv /\ [Next]_vars => TypeInv'
<1> SUFFICES ASSUME TypeInv, [Next]_vars PROVE TypeInv'
  OBVIOUS
<1> USE DEF TypeInv, PollInv
<1>1. CASE Operation
  <2>1. clean' \in BOOLEAN
    BY <1>1 DEF Operation, RA8875_bte_write, RA8875_bte_move, RA8875_bte_fill,
          Call, Idle, TypeOK
  <2>2. /\ flags' \subseteq Flag /\ status' \subseteq Flag
       /\ engine' \in {"idle", "copy", "load", "await", "finish"}
       /\ pc' \in {"init", "idle", "exec"} /\ op' \in {"write", "move", "fill"}
    BY <1>1 DEF Operation, RA8875_bte_write, RA8875_bte_move, RA8875_bte_fill,
          Call, TypeOK
  <2>3. /\ work' \in 0 .. ENGINE /\ due' \in 0 .. MAX_LEN /\ len' \in 0 .. MAX_LEN
       /\ offset' \in 0 .. len' /\ polls' = 0
    BY <1>1 DEF Operation, RA8875_bte_write, RA8875_bte_move, RA8875_bte_fill,
          Call, TypeOK
  <2>4. QED
    BY <2>1, <2>2, <2>3 DEF TypeOK
<1>2. CASE exec_bte
  <2>1. work' \in 0 .. ENGINE /\ due' \in 0 .. MAX_LEN
    BY <1>2 DEF exec_bte, Busy, TypeOK
  <2>2. engine' \in {"idle", "copy", "load", "await", "finish"} /\ pc' \in {"poll", "spin"}
    BY <1>2 DEF exec_bte, Busy, TypeOK
  <2>3. PollInv'
    BY <1>2 DEF exec_bte
  <2>4. QED
    BY <1>2, <2>1, <2>2, <2>3 DEF exec_bte, TypeOK
<1>3. CASE Spin
  BY <1>3 DEF Spin, TypeOK
<1>4. CASE Query
  BY <1>4 DEF Query, TypeOK
<1>5. CASE Clear
  BY <1>5 DEF Clear, Found, TypeOK
<1>6. CASE WriteBlock
  BY <1>6 DEF WriteBlock, Busy, TypeOK
<1>7. CASE Poll
  BY <1>7 DEF Poll, TypeOK
<1>8. CASE PollClear
  BY <1>8 DEF PollClear, TypeOK
<1>9. CASE PollDelay
  BY <1>9, ElapseType DEF PollDelay, TypeOK
<1>10. CASE RA8875_init
  BY <1>10 DEF RA8875_init, TypeOK
<1>11. CASE Work
  BY <1>11, ElapseType DEF Work, TypeOK
<1>12. CASE Restart
  <2>1. clean' \in BOOLEAN
    BY <1>12, ElapseType DEF Restart, TypeOK
  <2>2. /\ flags' \subseteq Flag /\ status' \subseteq Flag
       /\ engine' \in {"idle", "copy", "load", "await", "finish"}
       /\ pc' \in {"init", "idle", "exec"} /\ op' \in {"write", "move", "fill"}
    BY <1>12, ElapseType DEF Restart, TypeOK
  <2>3. /\ work' \in 0 .. ENGINE /\ due' \in 0 .. MAX_LEN /\ len' \in 0 .. MAX_LEN
       /\ offset' \in 0 .. len' /\ polls' = 0
    BY <1>12, ElapseType DEF Restart, TypeOK
  <2>4. QED
    BY <2>1, <2>2, <2>3 DEF TypeOK
<1>13. CASE UNCHANGED vars
  BY <1>13 DEF vars, TypeOK
<1>14. QED
  BY <1>1, <1>2, <1>3, <1>4, <1>5, <1>6, <1>7, <1>8, <1>9, <1>10, <1>11, <1>12,
     <1>13 DEF Next, Driver

(* The invariant holds from power on (core.c:59).                          *)
LEMMA TypeInit == Init => TypeInv
<1> SUFFICES ASSUME Init PROVE TypeInv
  OBVIOUS
<1>1. clean \in BOOLEAN
  BY DEF Init
<1>2. /\ flags \subseteq Flag /\ status \subseteq Flag
     /\ engine \in {"idle", "copy", "load", "await", "finish"}
     /\ pc \in {"init", "idle", "exec"} /\ op \in {"write", "move", "fill"}
  BY DEF Init
<1>3. /\ work \in 0 .. ENGINE /\ due \in 0 .. MAX_LEN /\ len \in 0 .. MAX_LEN
     /\ offset \in 0 .. len /\ polls \in 0 .. MAX_POLLS
  BY DEF Init
<1>4. QED
  BY <1>1, <1>2, <1>3 DEF Init, TypeInv, TypeOK, PollInv

(* The driver never loses count of its blocks or polls (bte.c:54-102).     *)
THEOREM TypeCorrect == Spec => []TypeOK
<1>1. TypeInv => TypeOK
  BY DEF TypeInv
<1>2. QED
  BY <1>1, TypeInit, TypeStep, PTL DEF Spec

-----------------------------------------------------------------------------
(* Copies and fillings, by an engine that is faster than the polls and     *)
(* than a restart.                                                         *)

CopiesOnly ==
  /\ Operations \subseteq {"move", "fill"}
  /\ ENGINE < MAX_POLLS
  /\ ENGINE <= BOOT_TIME

(* A transfer under way has its one flag to come; when the flag is found   *)
(* the engine has stopped; and a poll that may be the last one finds it.   *)
CopyInv ==
  /\ op # "write"
  /\ engine \in {"idle", "copy"}
  /\ engine = "copy" <=> work > 0
  /\ pc # "init" => flags \subseteq {COMPLETED}
  /\ pc # "send"
  /\ pc = "init" => engine = "idle"
  /\ pc \in {"idle", "exec"} => Idle
  /\ pc = "exec" => polls = 0
  /\ pc \in {"spin", "query", "poll", "pollDelay"}
       => (engine = "idle" <=> COMPLETED \in flags)
  /\ pc = "query" => flags # {}
  /\ pc \in {"clear", "pollClear"}
       => engine = "idle" /\ status = {COMPLETED} /\ flags = {COMPLETED}
  /\ pc \in {"poll", "pollDelay"} /\ engine = "copy" => work + polls <= ENGINE
  /\ pc = "pollDelay" => polls < ENGINE

(* A copy goes on, or it ends and raises its flag (bte.c:46, 58).          *)
LEMMA ElapseCopy ==
  ASSUME TypeOK, engine \in {"idle", "copy"}, engine = "copy" <=> work > 0,
         NEW n \in Nat, Elapse(n)
  PROVE  /\ engine' \in {"idle", "copy"}
         /\ engine' = "copy" <=> work' > 0
         /\ engine' = "copy" => engine = "copy" /\ work' = work - n /\ flags' = flags
         /\ engine = "idle" => engine' = "idle" /\ flags' = flags
         /\ engine = "copy" /\ engine' = "idle" => flags' = flags \union {COMPLETED}
BY DEF TypeOK, Elapse, EndOfWork

(* One case per action of CopyInv (bte.c:33-66, 105-121).                  *)
LEMMA CopyStep == CopiesOnly /\ TypeInv /\ CopyInv /\ [Next]_vars => CopyInv'
<1> SUFFICES ASSUME CopiesOnly, TypeInv, CopyInv, [Next]_vars PROVE CopyInv'
  OBVIOUS
<1> USE DEF CopiesOnly, CopyInv, Idle
<1>0. TypeOK
  BY DEF TypeInv
<1>1. CASE Operation
  BY <1>1 DEF Operation, RA8875_bte_write, RA8875_bte_move, RA8875_bte_fill, Call
<1>2. CASE exec_bte
  BY <1>0, <1>2 DEF exec_bte, Busy, TypeOK
<1>3. CASE Spin
  BY <1>3 DEF Spin
<1>4. CASE Query
  BY <1>4 DEF Query
<1>5. CASE Clear
  BY <1>5 DEF Clear, Found, mask
<1>6. CASE WriteBlock
  BY <1>6 DEF WriteBlock
<1>7. CASE Poll
  <2>1. pc = "poll" /\ UNCHANGED <<engine, work, flags, op, polls>> /\ status' = flags
        /\ pc' = IF COMPLETED \in flags THEN "pollClear" ELSE "pollDelay"
    BY <1>7 DEF Poll, mask
  <2>2. COMPLETED \in flags => flags = {COMPLETED} /\ engine = "idle"
    BY <2>1
  <2>3. COMPLETED \notin flags => engine = "copy" /\ polls < ENGINE
    BY <1>0, <2>1 DEF TypeOK
  <2>4. QED
    BY <2>1, <2>2, <2>3
<1>8. CASE PollClear
  BY <1>8 DEF PollClear
<1>9. CASE PollDelay
  <2>1. Elapse(1) /\ pc = "pollDelay" /\ polls' = polls + 1 /\ pc' = "poll"
        /\ UNCHANGED <<op, len, offset, status, clean>>
    BY <1>0, <1>9 DEF PollDelay, TypeOK
  <2>2. engine' = "copy" => work' + polls' <= ENGINE /\ flags' = flags
    <3>1. engine' = "copy" => engine = "copy" /\ work' = work - 1 /\ flags' = flags
      BY <1>0, <2>1, ElapseCopy
    <3>2. engine = "copy" => work + polls <= ENGINE
      BY <2>1
    <3>3. work \in Nat /\ polls \in Nat
      BY <1>0 DEF TypeOK
    <3>4. QED
      BY <2>1, <3>1, <3>2, <3>3
  <2>3. engine' \in {"idle", "copy"} /\ (engine' = "copy" <=> work' > 0)
    BY <1>0, <2>1, ElapseCopy
  <2>4. engine' = "idle" => flags' = {COMPLETED}
    <3>1. engine' = "idle" => \/ flags' = flags \union {COMPLETED}
                              \/ COMPLETED \in flags /\ flags' = flags
      BY <1>0, <2>1, ElapseCopy
    <3>2. QED
      BY <2>1, <3>1
  <2>5. engine' = "copy" => COMPLETED \notin flags'
    <3>1. engine' = "copy" => engine = "copy"
      BY <1>0, <2>1, ElapseCopy
    <3>2. QED
      BY <2>1, <2>2, <3>1
  <2>6. QED
    BY <2>1, <2>2, <2>3, <2>4, <2>5
<1>10. CASE RA8875_init
  BY <1>10 DEF RA8875_init
<1>11. CASE Work
  <2>1. Elapse(1) /\ UNCHANGED driver
    BY <1>11 DEF Work
  <2>2. engine = "copy"
    BY <1>0, <1>11 DEF Work, TypeOK
  <2>3. engine' = "copy" => work' = work - 1 /\ flags' = flags
    BY <1>0, <2>1, ElapseCopy
  <2>4. engine' \in {"idle", "copy"} /\ (engine' = "copy" <=> work' > 0)
    BY <1>0, <2>1, ElapseCopy
  <2>5. engine' = "idle" => flags' = flags \union {COMPLETED}
    BY <1>0, <2>1, <2>2, ElapseCopy
  <2>6. pc' \in {"poll", "pollDelay"} /\ engine' = "copy" => work' + polls' <= ENGINE
    BY <1>0, <2>1, <2>2, <2>3 DEF TypeOK
  <2>7. pc' = "pollDelay" => polls' < ENGINE
    BY <2>1
  <2>8. QED
    BY <2>1, <2>2, <2>3, <2>4, <2>5, <2>6, <2>7
<1>12. CASE Restart
  <2>1. Elapse(BOOT_TIME) /\ pc' = "init" /\ op' = "move"
    BY <1>12 DEF Restart
  <2>2. engine' = "idle"
    BY <1>0, <2>1 DEF Elapse, EndOfWork, TypeOK
  <2>3. QED
    BY <1>0, <2>1, <2>2, ElapseCopy
<1>13. CASE UNCHANGED vars
  BY <1>13 DEF vars
<1>14. QED
  BY <1>1, <1>2, <1>3, <1>4, <1>5, <1>6, <1>7, <1>8, <1>9, <1>10, <1>11, <1>12,
     <1>13 DEF Next, Driver

(* A copy or a filling that has returned is over, for every engine that is *)
(* done within the polls and within a restart (bte.c:52-66, 105-121).      *)
THEOREM CopiesOver == CopiesOnly => (Spec => []ReturnedOver)
<1> SUFFICES ASSUME CopiesOnly PROVE Spec => []ReturnedOver
  OBVIOUS
<1>1. Init => CopyInv
  BY DEF Init, CopyInv
<1>2. TypeInv /\ CopyInv /\ [Next]_vars => CopyInv'
  BY CopyStep
<1>3. CopyInv => ReturnedOver
  BY DEF CopyInv, ReturnedOver
<1>4. QED
  BY <1>1, <1>2, <1>3, TypeInit, TypeStep, PTL DEF Spec

-----------------------------------------------------------------------------
(* Any engine, any polls and any operations: what a call that found the    *)
(* chip clean may rely on until it returns.                                *)

(* The engine has work exactly while it copies, takes a block or ends an   *)
(* image.                                                                  *)
WorkInv == work > 0 <=> engine \in {"copy", "load", "finish"}

(* The chip has taken the data so far, and says so.                        *)
Ready == IF due > 0 THEN engine = "await" /\ flags = {RW}
                    ELSE engine \in {"finish", "idle"} /\ RW \in flags

(* An image: what has not been sent is what the chip has to come, and its  *)
(* flag is up if and only if it waits for it.                              *)
ImageInv ==
  /\ pc \in {"spin", "query", "clear", "send"}
  /\ due = len - offset
  /\ pc = "spin"  => (engine = "load" /\ flags = {}) \/ Ready
  /\ pc = "query" => Ready
  /\ pc = "clear" => Ready /\ RW \in status /\ status \subseteq flags
  /\ pc = "send"  => due > 0 /\ engine = "await" /\ flags = {}

(* A copy or a filling: its flag is up if and only if it is over.          *)
CopyingInv ==
  /\ pc \in {"spin", "query", "clear", "poll", "pollClear", "pollDelay"}
  /\ \/ engine = "copy" /\ flags = {} /\ pc \in {"spin", "poll", "pollDelay"}
     \/ engine = "idle" /\ flags = {COMPLETED}
  /\ pc \in {"clear", "pollClear"} => status = {COMPLETED}

CleanInv ==
  clean =>
    /\ pc # "init"
    /\ pc = "exec" => Idle /\ offset = 0 /\ (op = "write" => len > 0)
    /\ pc \notin {"idle", "exec"}
         => IF op = "write" THEN ImageInv ELSE CopyingInv
    /\ CleanKept

CallInv == WorkInv /\ CleanInv

(* What n polls do to an engine and its flags, whatever it is at           *)
(* (bte.c:44-48, 57-64).                                                   *)
LEMMA ElapseCall ==
  ASSUME TypeOK, WorkInv, NEW n \in Nat \ {0}, Elapse(n)
  PROVE  /\ WorkInv'
         /\ due' = due
         /\ engine \in {"idle", "await"} => UNCHANGED <<engine, flags>>
         /\ engine = "copy" =>
              \/ UNCHANGED <<engine, flags>>
              \/ engine' = "idle" /\ flags' = flags \union {COMPLETED}
         /\ engine = "finish" =>
              \/ UNCHANGED <<engine, flags>>
              \/ engine' = "idle" /\ flags' = flags \union {COMPLETED}
         /\ engine = "load" =>
              \/ UNCHANGED <<engine, flags>>
              \/ due > 0 /\ engine' = "await" /\ flags' = flags \union {RW}
              \/ /\ due = 0 /\ engine' \in {"idle", "finish"}
                 /\ RW \in flags'
<1> USE DEF TypeOK, WorkInv
<1>1. CASE work > n /\ work' = work - n /\ UNCHANGED <<engine, due, flags>>
  BY <1>1
<1>2. CASE work \in 1 .. n /\ EndOfWork
  BY <1>2 DEF EndOfWork
<1>3. CASE work = 0 /\ UNCHANGED chip
  BY <1>3
<1>4. QED
  BY <1>1, <1>2, <1>3 DEF Elapse

(* The engine works on under a call or after it (bte.c:41-66).             *)
LEMMA EngineStep ==
  ASSUME TypeOK, CallInv, NEW n \in Nat \ {0}, Elapse(n),
         UNCHANGED <<op, len, offset, status, clean>>,
         \/ UNCHANGED <<pc, polls>>
         \/ pc = "pollDelay" /\ pc' = "poll"
         \/ pc = "pollDelay" /\ pc' = "idle" /\ polls' = MAX_POLLS
  PROVE  CallInv'
<1> USE DEF CallInv
<1>1. WorkInv'
  BY ElapseCall
<1> SUFFICES ASSUME clean PROVE CleanInv'
  BY <1>1 DEF CleanInv
<1>2. CASE pc \in {"idle", "exec"}
  BY <1>2, ElapseCall DEF CleanInv, CleanKept, Idle
<1>3. CASE pc \notin {"idle", "exec"} /\ op = "write"
  <2>1. ImageInv /\ UNCHANGED <<pc, polls>>
    BY <1>3 DEF CleanInv, ImageInv
  <2>2. ASSUME engine = "load" PROVE ImageInv'
    <3>1. pc = "spin" /\ flags = {}
      BY <1>3, <2>1, <2>2 DEF ImageInv, Ready
    <3>2. due' = due /\ ((engine' = "load" /\ flags' = {}) \/ Ready')
      BY <2>2, <3>1, ElapseCall DEF Ready, TypeOK
    <3>3. QED
      BY <2>1, <3>1, <3>2 DEF ImageInv
  <2>3. ASSUME engine # "load" PROVE ImageInv'
    <3>1. Ready => Ready'
      BY <2>3, ElapseCall DEF Ready, TypeOK
    <3>2. engine = "await" => UNCHANGED <<engine, flags>>
      BY ElapseCall
    <3>3. status \subseteq flags => status \subseteq flags'
      BY <2>1, <2>3, ElapseCall DEF TypeOK, ImageInv, Ready
    <3>4. due' = due
      BY ElapseCall
    <3>5. QED
      BY <2>1, <2>3, <3>1, <3>2, <3>3, <3>4 DEF ImageInv
  <2>4. ImageInv'
    BY <2>2, <2>3
  <2>5. QED
    BY <1>3, <2>1, <2>4 DEF CleanInv, CleanKept, ImageInv
<1>4. CASE pc \notin {"idle", "exec"} /\ op # "write"
  <2>1. CopyingInv
    BY <1>4 DEF CleanInv
  <2>2. pc' # "idle" => CopyingInv'
    BY <2>1, ElapseCall DEF CopyingInv
  <2>3. pc' = "idle" => polls' = MAX_POLLS
    BY <1>4
  <2>4. QED
    BY <1>4, <2>1, <2>2, <2>3 DEF CleanInv, CleanKept, CopyingInv, TypeOK
<1>5. QED
  BY <1>2, <1>3, <1>4

(* One case per action: what a call found clean it leaves as it should be  *)
(* (bte.c:41-121).                                                         *)
LEMMA CallStep == TypeInv /\ CallInv /\ [Next]_vars => CallInv'
<1> SUFFICES ASSUME TypeInv, CallInv, [Next]_vars PROVE CallInv'
  OBVIOUS
<1> USE DEF CallInv
<1>0. TypeOK /\ PollInv
  BY DEF TypeInv
<1>1. CASE Operation
  <2>1. /\ pc' = "exec" /\ offset' = 0 /\ clean' = Idle /\ UNCHANGED chip
        /\ op' = "write" => len' > 0
    BY <1>1 DEF Operation, RA8875_bte_write, RA8875_bte_move, RA8875_bte_fill, Call
  <2>2. QED
    BY <2>1 DEF WorkInv, CleanInv, CleanKept, Idle
<1>2. CASE exec_bte
  <2>1. WorkInv'
    BY <1>0, <1>2 DEF exec_bte, Busy, WorkInv, TypeOK
  <2>2. ASSUME clean PROVE CleanInv'
    <3>1. Idle /\ offset = 0 /\ (op = "write" => len > 0)
      BY <1>2, <2>2 DEF CleanInv, exec_bte
    <3>2. /\ flags' = {} /\ due' = len /\ offset' = 0 /\ op' = op /\ len' = len
          /\ engine' = IF op = "write" THEN "load" ELSE "copy"
          /\ pc' = IF op = "move" THEN "poll" ELSE "spin"
      BY <1>2, <3>1 DEF exec_bte, Busy, Idle
    <3>3. QED
      BY <1>0, <3>1, <3>2 DEF CleanInv, CleanKept, ImageInv, CopyingInv, TypeOK
  <2>3. QED
    BY <1>2, <2>1, <2>2 DEF CleanInv, exec_bte
<1>3. CASE Spin
  BY <1>3 DEF Spin, WorkInv, CleanInv, CleanKept, ImageInv, CopyingInv, Ready
<1>4. CASE Query
  BY <1>4 DEF Query, WorkInv, CleanInv, CleanKept, ImageInv, CopyingInv, Ready
<1>5. CASE Clear
  <2>1. WorkInv' /\ clean' = clean
    BY <1>5 DEF Clear, WorkInv
  <2>2. CASE clean /\ op = "write"
    <3>1. ImageInv /\ RW \in status /\ status \subseteq flags /\ Ready
      BY <1>5, <2>2 DEF CleanInv, Clear, ImageInv
    <3>2. pc' = IF offset < len THEN "send" ELSE "idle"
      BY <1>5, <2>2, <3>1 DEF Clear, Found, mask
    <3>3. QED
      BY <1>0, <1>5, <2>1, <2>2, <3>1, <3>2
        DEF Clear, CleanInv, CleanKept, ImageInv, Ready, TypeOK
  <2>3. CASE clean /\ op # "write"
    BY <1>5, <2>1, <2>3 DEF Clear, Found, mask, CleanInv, CleanKept, CopyingInv, Idle
  <2>4. QED
    BY <2>1, <2>2, <2>3 DEF CleanInv
<1>6. CASE WriteBlock
  <2>1. WorkInv'
    BY <1>0, <1>6 DEF WriteBlock, Busy, WorkInv, TypeOK
  <2>2. ASSUME clean PROVE CleanInv'
    <3>1. op = "write" /\ ImageInv /\ engine = "await" /\ flags = {} /\ due = len - offset
      BY <1>6, <2>2 DEF CleanInv, WriteBlock, ImageInv, CopyingInv
    <3>2. /\ pc' = "spin" /\ engine' = "load" /\ flags' = {}
          /\ due' = len' - offset' /\ op' = op
      BY <1>0, <1>6, <3>1 DEF WriteBlock, Busy, TypeOK
    <3>3. QED
      BY <3>1, <3>2 DEF CleanInv, CleanKept, ImageInv
  <2>3. QED
    BY <1>6, <2>1, <2>2 DEF CleanInv, WriteBlock
<1>7. CASE Poll
  BY <1>7 DEF Poll, mask, WorkInv, CleanInv, CleanKept, ImageInv, CopyingInv
<1>8. CASE PollClear
  BY <1>8 DEF PollClear, WorkInv, CleanInv, CleanKept, ImageInv, CopyingInv, Idle
<1>9. CASE PollDelay
  <2>1. pc' = "idle" => polls' = MAX_POLLS
    BY <1>0, <1>9 DEF PollDelay, PollInv, TypeOK
  <2>2. QED
    BY <1>0, <1>9, <2>1, EngineStep DEF PollDelay
<1>10. CASE RA8875_init
  BY <1>10 DEF RA8875_init, WorkInv, CleanInv
<1>11. CASE Work
  BY <1>0, <1>11, EngineStep DEF Work
<1>12. CASE Restart
  <2>1. WorkInv'
    <3>1. CASE BOOT_TIME = 0
      BY <1>0, <1>12, <3>1 DEF Restart, Elapse, WorkInv, TypeOK
    <3>2. CASE BOOT_TIME # 0
      BY <1>0, <1>12, <3>2, ElapseCall DEF Restart
    <3>3. QED
      BY <3>1, <3>2
  <2>2. QED
    BY <1>12, <2>1 DEF Restart, CleanInv
<1>13. CASE UNCHANGED vars
  BY <1>13 DEF vars, WorkInv, CleanInv, CleanKept, ImageInv, CopyingInv, Ready, Idle,
               PollInv
<1>14. QED
  BY <1>1, <1>2, <1>3, <1>4, <1>5, <1>6, <1>7, <1>8, <1>9, <1>10, <1>11, <1>12,
     <1>13 DEF Next, Driver

(* The chip at power on has no work, and no call has found it clean        *)
(* (core.c:57-59).                                                         *)
LEMMA CallInit == Init => CallInv
BY DEF Init, CallInv, WorkInv, CleanInv

(* A call that finds the chip clean leaves it as it should be, unless its  *)
(* polls ran out: for every engine, every boot and every image             *)
(* (bte.c:41-121).                                                         *)
THEOREM CleanCallsKept == Spec => []CleanKept
<1>1. CallInv => CleanKept
  BY DEF CallInv, CleanInv, CleanKept
<1>2. QED
  BY <1>1, TypeInit, TypeStep, CallInit, CallStep, PTL DEF Spec

(* Each block finds the chip ready for it, after the flag of the block     *)
(* before it and no other (bte.c:83-102).                                  *)
THEOREM BlocksInTurn == Spec => BlocksTaken
<1>1. CallInv /\ [Next]_vars => [WriteBlock /\ clean => engine = "await"]_vars
  BY DEF CallInv, CleanInv, WriteBlock, ImageInv, CopyingInv
<1>2. QED
  BY <1>1, TypeInit, TypeStep, CallInit, CallStep, PTL DEF Spec, BlocksTaken

===============================================================================

--------------------------------- MODULE Boot ---------------------------------
(***************************************************************************)
(* The way from power-on to the main loop when things fail: RA8875_init,   *)
(* whose result Display_Init ignores, the assertions of io.c, and a panel  *)
(* that starts later than the ESP32, or again.                             *)
(*                                                                         *)
(* Chip and panel share a supply.  Only while it is not steady can SPI not *)
(* be set up, the ESP32 restart, or the panel lose its registers; nothing  *)
(* resets the panel with the ESP32.                                        *)
(***************************************************************************)
EXTENDS Naturals, Sequences

VARIABLES
  pc,        (* Where app_main is; "abort" after a failed assertion.       *)
  n,         (* The next of the writes that follow RA8875_init.            *)
  handle,    (* lcd.spi_device # NULL.                                     *)
  panel,     (* Does the panel answer?                                     *)
  regs,      (* What was written to it since it started.                   *)
  steady,    (* The supply.                                                *)
  lost       (* History: the panel started anew after it had answered this *)
             (* boot.                                                      *)

vars == <<pc, n, handle, panel, regs, steady, lost>>

(* What RA8875_init, RA8875_configure and Display_Init write.              *)
InitWrites      == <<"interrupt mask", "interrupt flags">>
ConfigureWrites == <<"display on", "tft", "backlight", "pll", "colours", "pixel clock",
                     "layers", "horizontal", "vertical", "window x", "window y">>
DisplayWrites   == <<"clear", "brightness", "cursor", "picture">>

Writes    == InitWrites \o ConfigureWrites \o DisplayWrites
Registers == { Writes[i] : i \in 1 .. Len(Writes) }

(* The writes end with the last one, and the context of the panel is that  *)
(* of core.c:10-39.                                                        *)
TypeOK ==
  /\ pc \in {"bus", "device", "probe", "retry", "write", "loop", "abort"}
  /\ n \in 1 .. Len(Writes)
  /\ handle \in BOOLEAN
  /\ panel \in {"silent", "ready"}
  /\ regs \subseteq Registers
  /\ steady \in BOOLEAN
  /\ lost \in BOOLEAN

PowerOn == /\ pc' = "bus" /\ n' = 1 /\ handle' = FALSE /\ lost' = FALSE

Init ==
  /\ pc = "bus" /\ n = 1 /\ handle = FALSE /\ lost = FALSE
  /\ panel = "silent" /\ regs = {} /\ steady = FALSE

-----------------------------------------------------------------------------
(* RA8875_init.                                                            *)

GoTo(place) == pc' = place /\ UNCHANGED <<panel, regs, steady, lost>>

(* A failure returns 0, and Display_Init goes on with RA8875_configure.    *)
Fail == /\ ~ steady
        /\ n' = Len(InitWrites) + 1
        /\ GoTo("write")
        /\ UNCHANGED handle

spi_bus_initialize ==
  /\ pc = "bus"
  /\ Fail \/ (GoTo("device") /\ UNCHANGED <<n, handle>>)

spi_bus_add_device ==
  /\ pc = "device"
  /\ Fail \/ (handle' = TRUE /\ GoTo("probe") /\ UNCHANGED n)

(* Mutant: the panel is asked once (if, and not while). *)
ProbeOnce ==
  /\ pc = "probe"
  /\ GoTo("write")
  /\ UNCHANGED <<n, handle>>

(* Register 0 reads 0x75 once the panel has started.                       *)
Probe ==
  /\ pc = "probe"
  /\ GoTo(IF panel = "ready" THEN "write" ELSE "retry")
  /\ UNCHANGED <<n, handle>>

(* Mutant: the answer is looked at again without another question. *)
RetryUnasked == pc = "retry" /\ GoTo("retry") /\ UNCHANGED <<n, handle>>

Retry == pc = "retry" /\ GoTo("probe") /\ UNCHANGED <<n, handle>>

-----------------------------------------------------------------------------

(* One write after the other, to the buttons and the main loop.            *)
Proceed ==
  /\ pc' = IF n = Len(Writes) THEN "loop" ELSE "write"
  /\ n'  = IF n = Len(Writes) THEN n ELSE n + 1

(* Mutant: assert is compiled out (NDEBUG). *)
WriteUnasserted ==
  /\ pc = "write"
  /\ Proceed
  /\ regs' = IF handle /\ panel = "ready" THEN regs \union {Writes[n]} ELSE regs
  /\ UNCHANGED <<handle, panel, steady, lost>>

(* A transfer without a device fails the assertion; a panel that does not  *)
(* answer goes unnoticed.                                                  *)
RA8875_write_register ==
  /\ pc = "write"
  /\ UNCHANGED <<handle, panel, steady, lost>>
  /\ \/ /\ handle
        /\ Proceed
        /\ regs' = IF panel = "ready" THEN regs \union {Writes[n]} ELSE regs
     \/ /\ ~ handle
        /\ pc' = "abort"
        /\ UNCHANGED <<n, regs>>

(* The panic handler restarts the ESP32.                                   *)
Abort == pc = "abort" /\ PowerOn /\ UNCHANGED <<panel, regs, steady>>

app_main == spi_bus_initialize \/ spi_bus_add_device \/ Probe \/ Retry
              \/ RA8875_write_register \/ Abort

-----------------------------------------------------------------------------
(* The supply and the panel.                                               *)

Waver == /\ steady' = ~ steady
         /\ UNCHANGED <<pc, n, handle, panel, regs, lost>>

BrownOut == ~ steady /\ PowerOn /\ UNCHANGED <<panel, regs, steady>>

PanelStart == /\ panel = "silent" /\ panel' = "ready"
              /\ UNCHANGED <<pc, n, handle, regs, steady, lost>>

PanelLost == /\ ~ steady /\ panel = "ready"
             /\ panel' = "silent" /\ regs' = {}
             /\ lost' = (lost \/ pc \in {"write", "loop"})
             /\ UNCHANGED <<pc, n, handle, steady>>

Next == app_main \/ Waver \/ BrownOut \/ PanelStart \/ PanelLost

(* The task goes on, and a panel that is not shaken again starts.          *)
Spec == Init /\ [][Next]_vars /\ WF_vars(app_main) /\ WF_vars(PanelStart)

-----------------------------------------------------------------------------

(* What is written with a device goes to a panel that has answered and has *)
(* had every write before it: an RA8875_init that was cut short, whose     *)
(* result is ignored (display.c:421, core.c:38-50), must not leave         *)
(* RA8875_configure a device with which it could go on without the probe   *)
(* and the interrupt mask (core.c:52-59).                                  *)
SetUpInOrder ==
  pc = "write" /\ handle /\ ~ lost =>
    panel = "ready" /\ \A i \in 1 .. n - 1 : Writes[i] \in regs

(* The buttons are looked at only by a program whose panel has answered    *)
(* and has every register written, although nobody looks at the result of  *)
(* RA8875_init (display.c:421): a program without its device does not get  *)
(* past the first write (io.c:65).  A panel that starts anew after the     *)
(* probe of core.c:52 is not noticed.                                      *)
LoopReady ==
  pc = "loop" /\ ~ lost => handle /\ panel = "ready" /\ regs = Registers

(* When the supply has become steady the wheel reaches its main loop,      *)
(* whatever failed before and however late the panel starts (core.c:52-55, *)
(* io.c:65).                                                               *)
BootsAtLast == <>[]steady => <>[](pc = "loop")

===============================================================================

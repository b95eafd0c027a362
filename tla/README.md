# The steering wheel display, in TLA+

Specifications, model checks and proofs for the firmware of a Formula SAE
steering wheel: an ESP32-S3 that shows a dashboard on an RA8875 panel (800 by
480, over SPI) and has two buttons. The program itself is `src/main` and the
panel driver `src/components/RA8875`; `src/components/components` is a copy of
ESP-IDF, of which only what the program leans on is modelled.

## 1. Inventory

### The parts and their state

| Part | Source | State it keeps | Operations |
|---|---|---|---|
| Buttons | `main/controller.c` | `toggle_mode_pressed`, `toggle_submode_pressed` (shared with the task), one time stamp per button | two GPIO interrupt routines, `Controller_Init` |
| Main task | `main/main.c` | its place in the loop | `app_main`, `ToggleWhetherDrive`, `ToggleDuringDrive` |
| Screens | `main/display.c` | `CURRENT_SCREEN`, `inGraphicMode`, `currentFont`, `glyph_cache` | `Display_Init`, `Display_SwitchScreen`, five render functions and what they are made of |
| Driver | `RA8875/drawing.c`, `bte.c`, `core.c`, `io.c`, `helper.c` | the SPI handle and the interrupt pin | register writes and reads, rectangles, block transfers with their waits, initialisation |
| The chip (external) | - | write mode, foreground colour, font size, two layers, interrupt flags, transfer engine | whatever its registers start |
| ESP-IDF | `components/components` | status bits and handlers of the pins, tick, task watchdog | `gpio_intr_service` and the set-up of pins, `vTaskDelay`, the idle hook, `esp_timer_get_time`, SPI transfers |

### How they interact

An edge of a button is latched by the GPIO unit and interrupts the core of
`app_main`; the service of ESP-IDF calls the routine of the button, which raises
its flag if the debounce time is over. The task polls both flags every 100 ms,
mode first (`if ... else if`, main.c:49-58), resets the one it finds and calls
`Display_SwitchScreen` with a target computed from `CURRENT_SCREEN`. That call
draws the screen with some hundred to some thousand register writes, each a
blocking SPI transfer (seconds, for the screens written in Comic Sans at
170 kHz), and then assigns `CURRENT_SCREEN`. The warning holds the task for
another 500 ms. Labels of one debug screen are drawn once, at boot, and kept on
the second layer of the chip.

There is one task, so the concurrency is that of the task and the two
interrupts, of the program and the chip, and of the program before and after a
restart (the chip is not reset with it, display.c:20).

### What is hard here, and what must hold

* **Buttons**: one push of a bouncing contact is one press; no push after the
  debounce time is missed; no edge gets lost between the pin and its routine,
  wherever in the interrupt service it falls.
* **Main task**: an accepted press is answered, and answered once, wherever in
  the loop or in a drawing it falls; the answer starts from the screen that is
  shown; the warning is shown for its time and followed by its screen; mode is
  answered under any use of submode, and submode when mode is left alone.
* **Screens**: the panel shows the picture of the current screen, whatever was
  drawn before with the same colour, size and mode registers, and wherever the
  ESP32 was restarted; the labels kept off screen stay usable.
* **Driver**: a transfer that has returned is over; a wait ends; a flag of one
  transfer is not taken for that of the next; the main loop is not reached
  without a configured panel, and is reached when the supply is steady.
* **Pace**: the idle task runs often enough for the task watchdog; the large
  rectangles get their time before text follows.
* **Glyphs and numbers**: the spans of a glyph are its pixels; a number is
  printed as it is, and in full.

`PROJECT.json` lists the hazards with their lines and the properties that would
show them.

## 2. The modules

| Module | Models | Shape |
|---|---|---|
| `Controller` | controller.c | flags, ages of the time stamps and registered handlers as functions of the button; the routines, the registration and the clock as actions for others to conjoin |
| `PushButton` | `Controller` with two bouncing contacts | adds the contacts, the latched edge of the GPIO unit and histories |
| `Dispatch` | `Controller` with `Controller_Init` and the interrupt service of gpio.c | one action per access to the status bits; edges between any two |
| `Screens` | the screens, and where the buttons lead | constant operators |
| `WheelView` | the promise to the driver | abstract specification with `want`, `screen`, `next` |
| `Wheel` | main.c with `Controller` and the outline of `Display_SwitchScreen` | one action per access of the task to shared state; interrupts and ticks between any two |
| `Display` | display.c, and what it needs of the driver and the chip | render functions as lists of calls, one action per kind of call |
| `Dashboard` | main.c, controller.c and display.c together | the loop of `Wheel` with the calls of `Display` |
| `Pacing` | the whole program, with time on the wire | `Dashboard` with the duration of each call, idle time and the task watchdog |
| `Bte` | bte.c against the transfer engine | one action per access to a register; the engine between any two |
| `Boot` | `RA8875_init` and what follows it, with failures | one action per call or write; supply and panel as actors |
| `Glyphs` | `Display_BlitGlyph` | the nested loops, one action per turn |
| `Text` | `Display_WriteTextAt`, `Display_WriteNumberAt`, `Display_PrecomputeGlyphs` | `Glyphs` with texts, a font, the cursor and the number buffers |
| `...Proofs` | - | theorems and proofs of the modules above |
| `MC...` | - | values of the constants for TLC |

`Controller` is extended by `PushButton`, `Dispatch`, `Wheel` and `Dashboard`;
`Dashboard` extends `Controller` and `Display`, and `Pacing` extends
`Dashboard`; `Wheel` and `Dashboard` both instantiate `WheelView`.

**`Controller`.** Both routines are the same code on two sets of variables, so
the state is indexed by the button. `elapsed[b]` is the time since the stamp of
`b`, capped at `DEBOUNCE + 1`, since only its comparison with `DEBOUNCE` is
used; it is 0 at boot because the stamps start at 0. A routine is one step: it
runs on the core of the task and is not interrupted by its like. An edge is
either taken (`Controller_ISR`) or ignored (`Controller_ISR_Reject`, which
writes nothing). 64-bit microseconds do not wrap in the life of a car.

**`Dispatch`.** `latched` are the status bits, `enabled` the pins that may
interrupt, `status` the copy that `gpio_isr_loop` works off from the lowest bit,
47 before 48. Edges are cleared on entry (gpio.c:484), so each turn of the loop
is two steps, the clearing and the call, and an edge may fall between them.
While the service runs the task does not (`TaskAt`). The steps of
`Controller_Init` are `gpio_config` pin by pin (type, then enable), the
installation, both handlers and both enables; every enable clears the status
(hal/gpio_hal.c:14-22). `owed` and `fresh` are histories, and `owed` starts to
count when `Controller_Init` has returned.

**`Wheel`.** `pc` names the points between accesses of `app_main`:

| `pc` | code |
|---|---|
| `boot`, `firstScreen` | `Display_Init` up to, and at, its last call |
| `addMode`, `addSubmode` | the two `gpio_isr_handler_add` of `Controller_Init` |
| `checkMode`, `clearMode`, `toggleMode` | main.c:49, 50, 51 |
| `checkSubmode`, `clearSubmode`, `toggleSubmode` | main.c:52, 53, 55-57 |
| `paint`, `commit` | the last write of a drawing; display.c:526 |
| `warned`, `endWarning` | main.c:28, 29 |
| `pause` | main.c:60 |

The first write of a drawing is part of the step that calls
`Display_SwitchScreen`, which reads `CURRENT_SCREEN` and returns at once if
there is nothing to do. `returnTo` is where the call goes back to. While
`delay > 0` the task is blocked. `Tick` may fall anywhere, any number of times:
a drawing takes as long as it takes, and the results do not depend on it.
`unserved`, `credit` and `warnTicks` are histories; no action reads them.

**`WheelView`.** Pressing a button makes a wish; the wheel takes one wish at a
time, decides on the next screen from the one shown, and shows it; the warning
takes none. `Wheel` maps `want` to the flags, `screen` to `CURRENT_SCREEN` and
`next` to the screen the task is bound to show, from the reset of the flag on.
While it boots, the mapped wheel shows the first screen.

**`Display`.** A render function is a sequence of calls (`Script`), run one call
per step by the action for that kind of call. The chip is its write mode,
foreground colour, font size and two layers; a layer is a set of items (part of
a screen, colour, size). Labels, values or borders drawn one after the other in
one font and colour are one item, and coordinates appear only as "below row 400
or not", which is what the copies between the layers tell apart. A text written
outside text mode leaves noise. `Restart` puts the statics back and leaves the
chip, between any two calls. `Display_SwitchScreen` is called with any screen,
not only as main.c does.

**`Dashboard`, `Pacing`.** The loop of main.c, with `Display`'s calls in place of
`Wheel`'s two steps of a drawing; interrupts fall between any two of them.
`Seen` is the screen whose picture is on layer 0, so that `WheelView` is
instantiated with what the driver sees and not with a variable of the program.
`Pacing` gives each call the time of the registers and bytes it writes: 32 bits
for a register, 16 for a byte (io.c), at `SPEED` kHz, and `OVERHEAD`
microseconds per transfer. `Label` counts letters and runs of pixels of the
labels in the bitmaps of comicsans_font.h; numbers are as long as their buffers
allow. A copy takes one poll or all of them. `starved` grows with each call and
is put back by a `vTaskDelay` of at least one tick, which is when the idle task
of core 0 runs and feeds the watchdog (task_wdt.c:457). At ticks of at most 1 ms
this happens within a copy, between its polls (bte.c:63): what it writes before
them is in `BeforePolls`, and what follows them is left in `starved`.

**`Bte`.** The engine is idle, copies, takes a block (`load`), waits for the
next (`await`), or ends an image (`finish`). Its `work` is counted in polls and
goes on between any two steps of the driver. It raises the flags bte.c relies
on: completion after a copy, read/write whenever it can take a block. A bit
written to the flags clears it. What the chip does with a start or a block while
it is not ready is not said in the repository; the start is taken or not, the
block is lost. `Restart` puts the driver back to the clearing of the flags
(core.c:59) and lets the engine work on for `BOOT_TIME`.

**`Boot`.** The calls of `RA8875_init` can fail while the supply is not steady,
the ESP32 can restart, and the panel can lose its registers; with a steady
supply none of this happens. `Display_Init` ignores the result
(display.c:421), so a failure goes on with the writes of `RA8875_configure`,
the first of which finds a NULL device (spi_master.c:1083) and fails its
assertion (io.c:65); the panic handler restarts the ESP32. `Writes` lists what is
written from the probe to the loop, writes of one group together. The history
`lost` says that the panel started anew after it had answered.

**`Glyphs`, `Text`.** The panel is the set of its white points, a glyph the set
of its pixels as cells of rows and columns, of any height and width. A rectangle
is the product of its intervals, corners included. `Text` turns the bytes of
bitmaps into such sets as `Display_PrecomputeGlyphs` does, moves the cursor, and
sends numbers through `snprintf` into their buffers. A number is its sign and
how many digits it has before the point.

## 3. The runs

| Run | Configuration | Checks |
|---|---|---|
| `push_button` | 50 ms clock, `DEBOUNCE` 4, `BOUNCE` 1, `PRESS` 4 | `TypeOK`, `OnePressPerPush`, `NoPushMissed` |
| `wheel` | 100 ms clock, `DEBOUNCE` 2, `POLL` 1, `WARN_DELAY` 5, fair | `TypeOK`, `NoLostPress`, `NoPhantomToggle`, `PanelAgrees`, `NeverWarnAtPoll`, `WarningSeen`, `ModeServed`, `SubmodeServed`, `WarningEnds`, `ImplementsView` |
| `dispatch` | `DEBOUNCE` 1, fair | `TypeOK`, `NoEdgeForgotten`, `OnePressPerEdge`, `EdgesAnswered` |
| `display` | no constants | `TypeOK`, `PictureRight`, `DrawingRight`, `OffscreenKept` |
| `display_mode` | no constants | `DrawnInGraphicMode`, **violated** |
| `program` | 170 kHz, `OVERHEAD` 10, 100 Hz, 5 s, 1000 polls, fair | `WatchdogFed`, `BoxesSettled`, `PicturesFollowButtons` |
| `program_delay` | the same | `WatchdogSatiated`, **violated** |
| `bte_copies` | copies and fillings, `ENGINE` and `BOOT_TIME` 12, `MAX_POLLS` 13, fair | `ReturnedOver`, `CallReturns` |
| `bte_images` | all operations, `ENGINE` 3, `BOOT_TIME` and `MAX_POLLS` 2, blocks of 2 bytes, images up to 5 | `TypeOK`, `CleanKept`, `BlocksTaken` |
| `boot` | no constants | `SetUpInOrder`, `LoopReady`, `BootsAtLast` |
| `text` | glyphs of 4 rows by 2 columns, texts up to 2 letters, up to 5 digits | `TypeOK`, `GlyphDrawn`, `TextDrawn`, `NumberFits`, `SpansWhole` |
| `text_whole` | the same | `WholeNumberShown`, **violated** |

**`push_button`** covers every order of pushes, releases, bounces and interrupts
of both buttons, from a debounce time that is over and one that is not. Contacts
that settle within 50 ms and pushes up to 200 ms are what the debounce time of
200 ms can be asked to handle: with longer pushes, the bounce of a release can
count as a second press (`PRESS = 6` shows it). That `PRESS <= DEBOUNCE`
suffices is proved.

**`wheel`** is exhaustive in the position of the interrupts and ticks, and uses
the real ratios of the three times of the code. What the bounds leave out (other
times) the proofs cover. The counters have bounds: `elapsed` and `warnTicks`
stop where nothing looks further, `credit` stops at 2, since at most a set flag
and an action under way are ever compared with it.

**`dispatch`** needs only a debounce time that is over or not: the clock stands
still while an interrupt is due, so one tick tells a call of the same moment from
a later one. It shows that one edge can be answered twice (it falls between the
clearing of the status and the call for an earlier edge; that call answers it,
and the bit it has set interrupts once more), and that the debounce makes one
press of it.

**`display`** has a finite state space of its own: all sequences of screens and
all points of restart, from any colour of the chip at power on.

**`program`** checks, over every interleaving of presses with the calls of the
drawings, that what is on the panel is what the buttons asked for, down to the
calls. The numbers are those of the source and the defaults of ESP-IDF, since
the repository has no sdkconfig: ticks of 10 ms, a task watchdog of 5 s that
watches the idle task of core 0. The longest stretch without idle time is the
boot: from the yellow box of the loading screen to the end of the first screen
and, if a button is pressed by then, to the red box of the next. It takes 4.90 s
of the 5 s.
`OVERHEAD` is the one number that is not in the repository: the property holds
up to 13 microseconds a transfer, and fails from 14 on. `MCPacing` also checks
that these numbers satisfy what the proofs assume (`Affordable`, and a delay of
20 ms that is at least a tick). At 155 kHz it fails even
without overhead, so the 115.2 kHz that display.c:15 calls "safe" would set the
watchdog off at every boot (by default it prints a warning). `BoxesSettled` is
about the boxes only; the borders of the debug screens are followed by text
without a delay.

**`bte_copies`** takes times of a dozen polls: long enough for a restart, a whole
second call and a late flag to fall into one copy. Which engine suffices is
proved for all times (section 4). **`bte_images`** takes an engine slower than
the polls and than the boot, so that flags do come late and calls do find a busy
chip, and images of one to three blocks, the last one whole or not. Every
reading of "this call found the chip as it should be" is in `clean`.

**`boot`** is finite by itself: every order of failures, restarts and starts of
the panel at every write. `SetUpInOrder` is about each write on the way: an
`RA8875_init` that returned early, or a panel that has not answered, is never
followed by writes that reach a panel without the ones before.

**`text`** enumerates every glyph of its size, a second letter of another width,
every text of both and each subset of the font, so that a run can begin and end
at every row, columns can be empty or full, and letters can overlap. `TextDrawn`
describes the picture from the places of the letters and the bits of their
bitmaps, with arithmetic of its own and without the cells of `Glyphs`. Numbers
range to two digits more than the comments at display.c:490 and 495 count with.

### Disagreements with the source's own words

`display_mode`: `Display_EnableDrawMode` (display.c:435-441) writes graphic mode
only while `inGraphicMode` is false, and `Display_EnableTextModeAndFont`
(display.c:447-449) leaves it true when it switches to text mode. From the first
text of the boot on, rectangles and Comic Sans are drawn in text mode, although
display.c:438 says "Enable graphic mode if not already" and display.c:454 "We
write comic sans as graphical drawings". What the panel makes of that is a
matter of the chip, so `Display` lets rectangles appear in either mode, and the
other properties hold.

`program_delay`: `WATCHDOG_DELAY` is 5 ms, which is no tick at 100 Hz, and
`vTaskDelay(0)` only yields to tasks of the same priority. It does not satisfy
the task watchdog, as display.c:73 says it does. That the watchdog is satisfied
all the same, narrowly, is `WatchdogFed`.

`text_whole`: `Display_WriteNumberAt` passes a float, promoted to double, to a
format that is `"%d"` for whole numbers (display.c:496-497). That is undefined;
the conversion looks for an int where none was passed. The model lets it print
any int. All values are 0 for now.

### Fairness

`Wheel`, `Pacing` and `Boot` ask for weak fairness of the task, `Wheel` also of
its clock. The task has the only work of the program and is ready unless
`vTaskDelay` blocks it, for a time that passes; the calls of the drawing return
(`Bte!CallReturns`). `Bte` asks for the driver and for the engine, `Dispatch` for
the service and for `Controller_Init`, `Boot` also for a panel that is
left alone: it starts at last. No fairness is asked of the buttons, the supply,
or a caller of the driver.

Under it, `WheelView` gets strong fairness for the mode button, as the first of
the two tests, and only weak fairness for submode: a driver who presses mode
faster than the wheel can draw keeps submode waiting, and `SubmodeServed` is
stated for a driver who stops.

## 4. The proofs

For all values of the constants that satisfy the assumptions of the modules:

| Theorem | Says |
|---|---|
| `PushButtonProofs!TypeCorrect` | `Spec => []TypeOK` |
| `PushButtonProofs!NoneMissed` | `Spec => []NoPushMissed` |
| `PushButtonProofs!OneForOne` | `PRESS <= DEBOUNCE => (Spec => []OnePressPerPush)` |
| `WheelProofs!TypeCorrect` | `Spec => []TypeOK` |
| `WheelProofs!PressesKept`, `PressesSpent` | `Spec => []NoLostPress`, `[]NoPhantomToggle` |
| `WheelProofs!PanelTruthful`, `WarningUndisturbed` | `Spec => []PanelAgrees`, `[]NeverWarnAtPoll` |
| `WheelProofs!WarningHeld` | `Spec => WarningSeen` |
| `WheelProofs!Refinement` | `Spec => View!SafeSpec` |
| `DispatchProofs!TypeCorrect`, `EdgesKept`, `OneForOne` | `Spec => []TypeOK`, `[]NoEdgeForgotten`, `OnePressPerEdge` |
| `BteProofs!TypeCorrect` | `Spec => []TypeOK` |
| `BteProofs!CleanCallsKept`, `BlocksInTurn` | `Spec => []CleanKept`, `BlocksTaken` |
| `BteProofs!CopiesOver` | `CopiesOnly => (Spec => []ReturnedOver)`, where `CopiesOnly` says that `RA8875_bte_write` is not called, `ENGINE < MAX_POLLS` and `ENGINE <= BOOT_TIME` |
| `BootProofs!InOrder`, `ReadyInLoop` | `Spec => []SetUpInOrder`, `[]LoopReady` |
| `GlyphProofs!TypeCorrect`, `DrawnRight`, `RunsWhole` | `BlitSpec => []GlyphTypeOK`, `[]GlyphDrawn`, `SpansWhole` |
| `GlyphProofs!TextsAreGlyphs` | `Spec => BlitSpec`, with the `Spec` of `Text` |
| `GlyphProofs!TextTypeCorrect`, `NumbersFit` | `Spec => []TypeOK`, `[]NumberFits` |
| `GlyphProofs!TextsDrawn` | `WIDTH = 8`, as in the font, implies `Spec => []TextDrawn` |
| `DisplayProofs!TypeCorrect`, `ScreensRight` | `Spec => []TypeOK`, `[]PictureRight` |
| `DisplayProofs!NothingWrongShows`, `LabelsWait` | `Spec => []DrawingRight`, `[]OffscreenKept` |
| `PacingProofs!DrawsAsDisplay` | `Program => Spec`, with the `Spec` of `Display` |
| `PacingProofs!PicturesFollow` | `Program => View!SafeSpec` |
| `PacingProofs!WatchdogHeld` | `Affordable` and a delay of 20 ms that is at least a tick imply `Program => []WatchdogFed` |
| `PacingProofs!BoxesSettle` | a delay of 20 ms that is at least a tick implies `Program => BoxesSettled` |

*Buttons.* `OnePressPerPush` is not inductive: an edge would be accepted again
if the stamp were older than the push. `Recent` says it is not: a press of this
push is no older than the push, so within `PRESS <= DEBOUNCE` every later edge is
early. `Waiting` says that the first edge of a push that is due is still latched
and still late enough when its routine comes, because the clock waits for it.

*Wheel.* The invariant is in three parts. `ScreenInv` says where `panel`,
`nextScreen` and `CURRENT_SCREEN` stand at each location: what is drawn differs
from what is current, the warning is always on its way to `warned`, and
`warnTicks + delay >= WARN_DELAY` while it is held. `PressInv` adds to the two
press properties that a flag about to be reset is set. Each part is preserved
given `TypeOK`, so there are three step lemmas, one case per action. The
refinement is by cases too: resets of the flags are `TakeMode` and
`TakeSubmode`, the assignment to `CURRENT_SCREEN` is `Show` (at boot it
stutters), the switch after the warning is `EndWarning`, accepted edges are
`Press`, and everything else leaves the mapped state alone.

*Dispatch.* `Prepared` says how far the pins are set up at each step of
`Controller_Init`, and that nothing is owed before it returns; `ServiceRight`
that the service holds only enabled pins. `NewOrTooEarly` is what one press per
edge needs: a pin that is latched or in the hands of the service had an edge
since its last press, or was pressed within this very tick, in which the routine
refuses it.

*Bte.* While a call waits, the engine is idle exactly if its completion flag is
set, and a flag that has been read is that of an engine that has stopped; a copy
is over before the polls run out (`work + polls <= ENGINE`); and a driver that
is idle stands before an idle engine without flags. A restart keeps this because
the boot outlasts what is left of the work. `PollInv` bounds the polls. A call
of any operation, before any engine, is followed by `CleanInv`: what the engine
still has `due` is the image less the `offset`, the read/write flag is up exactly
while the engine waits for a block or has had them all, and a copy or a filling
has no flag until it is over, and then that of its completion. It speaks of calls that were made to a chip
without work or flags; the others are not promised anything.

*Boot.* `Written` says that a program past its probe, with a panel that has not
been lost, has written the first `n - 1` of the writes to it, which is
`SetUpInOrder`; a failed set-up leaves the handle NULL, and no write gets past
the assertion.

*Glyphs.* The loop invariant of `Display_BlitGlyph`: the run under way is all
pixels and has a blank, or the edge, above it (`RunRight`); what the loops have
passed is lit (`PassedLit`); nothing that was lit goes out (`Kept`) and nothing
is lit but cells of the glyph (`NoneAdded`). It is proved for every height,
width, bitmap, place and picture, so for the 8 by 16 font of the program, which
the run could not enumerate. `BlitSpec` lets any caller call it; that the steps
of `Text` are among its steps is `TextsAreGlyphs`.

*Texts and numbers.* `RestInv` says that what is left of a text is its end, and
`NumberInv` that what the chip has had, followed by what is left, is the content
of the buffer, which is the whole number when it is short enough. `LettersInv`
gives the letters taken so far their places, one behind the other and the cursor
behind the last, and says that the panel will hold their bitmaps when the letter
under way is done (`Area`). It is preserved because a letter, when it is done, is
`Area` (`AreaLit`), and because its enlarged cells are the points of its bitmap
(`CellsArePoints`). The latter needs `SameBits`: the mask `1 << (7 - col)` finds
the bits where they are in the byte. `BytesRead` proves it for rows of 8 bits,
column by column; for any width it would be an induction over powers of 2, and
so `TextsDrawn` is about the width of the font. The run has another width.

*Display.* The pictures are not inductive, since they hold only at the end of a
script. `IInv` says for every place in every script what the calls so far have
put on the layer (`Shown`), and what the registers hold at the calls that write:
font, zoom and colour (`Pen`). The write mode is text from the first text of
`Display_Init` on, for good (`Booted`). The upper part of the second layer is what
`Display_Init` has copied to it. A restart puts the
statics back and starts at the first call of `Display_Init`, where `IInv` asks
nothing of the chip, so it can fall anywhere.

*The program.* Each step of `Pacing` is a step of `Display` or leaves it alone
(`DrawsAsDisplay`), so the pictures are those of the theorems above. `RunInv` adds
where the loop of main.c stands with respect to the drawing, and with it the
refinement of `WheelView` is by cases as for `Wheel`, except that the screen comes
from the picture: it changes with the last call of a script, not with an
assignment. For the watchdog, `Spent` lists for every place in every script the
registers that may have been written since core 0 last idled; `starved` is at most
the time of those (`SpentInv`), and a copy has its `BeforePolls` still to
spare. The numbers start at 0 after each delay of a tick
or more, and the largest is the 23626 registers, 211 bytes and the polls of one copy of
`Affordable`: from the yellow box of the boot to the red box of the second
screen. The two assumptions are about the wire and the tick, and hold for the
defaults; ticks below 50 Hz would break the second, and then there is no delay at
all. `SettledInv` says that a box is unsettled only before its delay.

Only model-checked: the liveness properties (`ModeServed`, `SubmodeServed`,
`WarningEnds`, `EdgesAnswered`, `CallReturns`, `BootsAtLast`) and the liveness part
of `WheelView` in `ImplementsView` and `PicturesFollowButtons`, which are out of the
prover's reach, as is anything about `ENABLED`. Every other property that a
passing run checks is proved.

## 5. Not modelled, and why

* The electrical side of the buttons beyond bouncing, and the pull resistors.
* `helper.c`, `RA8875_draw_data`, and the drawing functions of display.h called
  from elsewhere: no caller.
* Whether the chip has finished a clearing or rectangle when the next command
  arrives: its timing is not in the repository. `BoxesSettled` says only that
  the delays of the code come where they are meant to.
* A panel that loses its registers after the probe: nothing reads from it again,
  and there is no reaction to model. `Boot` lets it happen, and `SetUpInOrder`
  and `LoopReady` leave those boots out.
* `Display_InternalFontSize` writes register 0x41 as "font source"; helper.c
  uses the same register to select the layer that is written. It always writes
  0, and nothing else writes it, so the layer written is always 0.
* Wording and coordinates of labels and values, apart from what section 2 says.
* ESP-IDF beyond `gpio.c`, `vTaskDelay`, the idle hook, the timer and the check
  of the SPI handle. It is over four million lines of vendored code, most of it
  for other chips and for services this program does not start; the program's
  own code, all of which the modules are about except where this section says
  otherwise, is some 1000 lines. Measured over the whole repository, the modules
  therefore cover next to nothing, and there is no more of this system in
  ESP-IDF that would be worth a model.

## 6. How it was built

`Controller`, `PushButton`, `WheelView`, `Wheel` and `Display` came first, with
their proofs: the concurrency and the state of the chip. The driver (`Bte`,
`Boot`), the composition with time (`Dashboard`, `Pacing`), the interrupt
service (`Dispatch`) and the glyphs and numbers (`Glyphs`, `Text`) followed.
What could be added: the coordinates of labels against the borders around them,
and, once values other than 0 are shown, where they come from.

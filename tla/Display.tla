------------------------------- MODULE Display --------------------------------
(***************************************************************************)
(* main/display.c against the registers and the two layers of the RA8875.  *)
(*                                                                         *)
(* The chip has one foreground colour, one font size and one write mode    *)
(* for everything that is drawn, and keeps them from one screen to the     *)
(* next; it also keeps them, and its layers, when the ESP32 restarts (the  *)
(* reset pin of display.c:20 is not used), while the statics of display.c  *)
(* start again.  Each render function is its list of calls, in the order   *)
(* of the code.  Labels, values and borders that are drawn together, in    *)
(* one mode and colour, are one item of the picture.                       *)
(*                                                                         *)
(* A layer is the set of items on it.  Whether the chip has finished a     *)
(* drawing when the next one starts is not modelled.                       *)
(***************************************************************************)
EXTENDS Naturals, Sequences, Screens

VARIABLES
  (* Statics of display.c.                                                 *)
  CURRENT_SCREEN,
  inGraphicMode,   (* The mode display.c believes the chip to be in.       *)
  currentFont,
  glyphsReady,     (* glyph_cache is filled.                               *)
  (* Control.                                                              *)
  job,             (* The function that draws: "init", a screen or "none". *)
  pos,             (* The next call of its script.                         *)
  (* The chip.                                                             *)
  mode,            (* Register 0x40: graphic or text.                      *)
  ink,             (* Registers 0x63 .. 0x65: the foreground colour.       *)
  size,            (* Register 0x22: the size of the internal font.        *)
  layer            (* Layer 0 is displayed, layer 1 is off screen.         *)

statics == <<inGraphicMode, currentFont, glyphsReady>>
chip == <<mode, ink, size, layer>>
vars == <<CURRENT_SCREEN, statics, job, pos, chip>>

Colour == {"white", "red", "yellow", "blue"}
Size   == 0 .. 4     \* 0 for what is not written in the internal font
Font   == {"INTERNAL", "COMIC_SANS"}

(* What can be seen: part p of screen s, in a colour and a size.           *)
Item(p, s, c, z) == [part |-> p, of |-> s, ink |-> c, size |-> z]
Noise(p) == Item(p, "WARN", "white", 0)     \* what no one meant to draw

(* Below row 400, where the copies between the layers do not reach.        *)
Lower == {"loadingBox", "loadingText", "lowerNoise"}
Part  == {"box", "borders", "labels", "moreLabels", "values", "noise"} \union Lower

-----------------------------------------------------------------------------
(* The scripts.                                                            *)

Call(f)       == [op |-> f]
Rect(p, s, c) == [op |-> "rect", part |-> p, of |-> s, colour |-> c]
Write(p, s)   == [op |-> "write", part |-> p, of |-> s]
Use(font)     == [op |-> "font", font |-> font]
Zoom(z)       == [op |-> "zoom", size |-> z]
Ink(c)        == [op |-> "ink", colour |-> c]
Move(from, to) == [op |-> "move", from |-> from, to |-> to]
Sleep(ms)      == [op |-> "delay", ms |-> ms]

DEFAULT_DELAY  == 20
WATCHDOG_DELAY == 5

Display_RenderMainScreen(s) ==
  << Call("reset"), Call("drawMode"),
     Rect("box", s, "red"), Rect("borders", s, "white"), Sleep(DEFAULT_DELAY),
     Use("COMIC_SANS"), Write("labels", s),
     Use("INTERNAL"), Write("values", s) >>

Display_RenderStaticDebugScreen ==
  << Call("reset"), Call("drawMode"), Rect("borders", "DEBUG_NO_RTD", "white"),
     Use("COMIC_SANS"), Write("labels", "DEBUG_NO_RTD"), Sleep(WATCHDOG_DELAY),
     Write("moreLabels", "DEBUG_NO_RTD"),
     Use("INTERNAL"), Write("values", "DEBUG_NO_RTD") >>

(* Mutant: the layer is saved before the last labels are written. *)
PrerenderSavedEarly ==
  << Call("reset"), Call("drawMode"),
     Rect("box", "DEBUG_RTD", "red"), Rect("loadingBox", "DEBUG_RTD", "yellow"),
     Sleep(DEFAULT_DELAY), Use("INTERNAL"), Zoom(2), Ink("blue"),
     Write("loadingText", "DEBUG_RTD"),
     Use("COMIC_SANS"), Write("labels", "DEBUG_RTD"), Move(0, 1), Sleep(WATCHDOG_DELAY),
     Write("moreLabels", "DEBUG_RTD") >>

Display_PrerenderDebugRTDLabels ==
  << Call("reset"), Call("drawMode"),
     Rect("box", "DEBUG_RTD", "red"), Rect("loadingBox", "DEBUG_RTD", "yellow"),
     Sleep(DEFAULT_DELAY), Use("INTERNAL"), Zoom(2), Ink("blue"),
     Write("loadingText", "DEBUG_RTD"),
     Use("COMIC_SANS"), Write("labels", "DEBUG_RTD"), Sleep(WATCHDOG_DELAY),
     Write("moreLabels", "DEBUG_RTD"), Move(0, 1) >>

(* Mutant: the labels are fetched last, over the borders and values. *)
UsePrerenderedTextFirst ==
  << Call("reset"), Call("drawMode"), Rect("borders", "DEBUG_RTD", "white"),
     Use("INTERNAL"), Write("values", "DEBUG_RTD"), Move(1, 0) >>

Display_UsePrerenderedDebugRTD ==
  << Call("reset"), Move(1, 0), Call("drawMode"),
     Rect("borders", "DEBUG_RTD", "white"),
     Use("INTERNAL"), Write("values", "DEBUG_RTD") >>

(* Mutant: the red of the warning is not waited for. *)
WarnInHaste ==
  << Call("reset"), Call("drawMode"), Rect("box", "WARN", "red"),
     Use("INTERNAL"), Zoom(4), Ink("white"), Write("values", "WARN") >>

Display_Warn ==
  << Call("reset"), Call("drawMode"), Rect("box", "WARN", "red"), Sleep(DEFAULT_DELAY),
     Use("INTERNAL"), Zoom(4), Ink("white"), Write("values", "WARN") >>

(* Display_Init, up to the switch to the first screen.                     *)
Display_Init == << Call("clear"), Call("glyphs") >> \o Display_PrerenderDebugRTDLabels

Script ==
  [ init         |-> Display_Init,
    MAIN_NO_LAPS |-> Display_RenderMainScreen("MAIN_NO_LAPS"),
    MAIN_LAPS    |-> Display_RenderMainScreen("MAIN_LAPS"),
    DEBUG_NO_RTD |-> Display_RenderStaticDebugScreen,
    DEBUG_RTD    |-> Display_UsePrerenderedDebugRTD,
    WARN         |-> Display_Warn ]

-----------------------------------------------------------------------------

(* Statics and registers hold values display.c gives them, and every call is *)
(* one of a render function.                                               *)
TypeOK ==
  /\ CURRENT_SCREEN \in Screen
  /\ inGraphicMode \in BOOLEAN
  /\ currentFont \in Font
  /\ glyphsReady \in BOOLEAN
  /\ job \in Screen \union {"init", "none"}
  /\ pos \in 1 .. 17
  /\ mode \in {"graphic", "text"}
  /\ ink \in Colour
  /\ size \in Size
  /\ layer \in [{0, 1} -> SUBSET [part : Part, of : Screen, ink : Colour, size : Size]]

(* The statics as the program is loaded, and the chip after power on: any  *)
(* colour, any memory.                                                     *)
Init ==
  /\ CURRENT_SCREEN = "MAIN_NO_LAPS"
  /\ inGraphicMode = FALSE
  /\ currentFont = "INTERNAL"
  /\ glyphsReady = FALSE
  /\ job = "init"
  /\ pos = 1
  /\ mode = "graphic"
  /\ ink \in Colour
  /\ size = 1
  /\ layer = [l \in {0, 1} |-> {Noise("noise"), Noise("lowerNoise")}]

-----------------------------------------------------------------------------
(* The calls.                                                              *)

Calling(f) ==
  /\ job # "none"
  /\ pos <= Len(Script[job])
  /\ Script[job][pos].op = f
  /\ pos' = pos + 1
  /\ UNCHANGED <<CURRENT_SCREEN, job>>

call == Script[job][pos]

RA8875_clear ==
  /\ Calling("clear")
  /\ layer' = [layer EXCEPT ![0] = {}]
  /\ UNCHANGED <<statics, mode, ink, size>>

Display_PrecomputeGlyphs ==
  /\ Calling("glyphs")
  /\ glyphsReady' = TRUE
  /\ UNCHANGED <<inGraphicMode, currentFont, chip>>

(* RA8875_clear, the text cursor, Display_ForegroundWhite.                 *)
Display_ResetState ==
  /\ Calling("reset")
  /\ layer' = [layer EXCEPT ![0] = {}]
  /\ ink' = "white"
  /\ UNCHANGED <<statics, mode, size>>

(* The write mode is set once: inGraphicMode stays TRUE afterwards.        *)
Display_EnableDrawMode ==
  /\ mode' = IF inGraphicMode THEN mode ELSE "graphic"
  /\ inGraphicMode' = TRUE

EnableDrawMode ==
  /\ Calling("drawMode")
  /\ Display_EnableDrawMode
  /\ UNCHANGED <<currentFont, glyphsReady, ink, size, layer>>

UseInternal ==
  /\ Calling("font")
  /\ call.font = "INTERNAL"
  /\ currentFont' = "INTERNAL"
  /\ mode' = IF inGraphicMode THEN "text" ELSE mode
  /\ ink' = "white"
  /\ size' = 3
  /\ UNCHANGED <<inGraphicMode, glyphsReady, layer>>

UseComicSans ==
  /\ Calling("font")
  /\ call.font = "COMIC_SANS"
  /\ currentFont' = "COMIC_SANS"
  /\ Display_EnableDrawMode
  /\ UNCHANGED <<glyphsReady, ink, size, layer>>

(* Mutant: the colour and the corners are passed in each other's place;    *)
(* all of them are integers to the compiler. *)
DrawRectSwapped ==
  /\ Calling("rect")
  /\ ink' = call.part
  /\ layer' = [layer EXCEPT ![0] = @ \union {Item(call.colour, call.of, call.part, 0)}]
  /\ UNCHANGED <<statics, mode, size>>

(* RA8875_draw_rect leaves its colour in the foreground registers.         *)
Display_DrawRect ==
  /\ Calling("rect")
  /\ ink' = call.colour
  /\ layer' = [layer EXCEPT ![0] = @ \union {Item(call.part, call.of, call.colour, 0)}]
  /\ UNCHANGED <<statics, mode, size>>

Display_InternalFontSize ==
  /\ Calling("zoom")
  /\ size' = call.size
  /\ UNCHANGED <<statics, mode, ink, layer>>

SetForeground ==
  /\ Calling("ink")
  /\ ink' = call.colour
  /\ UNCHANGED <<statics, mode, size, layer>>

(* The chip draws the characters; outside its text mode it takes their     *)
(* codes for pixels.                                                       *)
WriteInternal ==
  /\ Calling("write")
  /\ currentFont = "INTERNAL"
  /\ layer' = [layer EXCEPT ![0] = @ \union
                 {IF mode = "text" THEN Item(call.part, call.of, ink, size)
                                   ELSE Noise("noise")}]
  /\ UNCHANGED <<statics, mode, ink, size>>

(* Mutant: the glyphs take the colour of whatever was drawn before them. *)
WriteComicSansInAnyInk ==
  /\ Calling("write")
  /\ currentFont = "COMIC_SANS"
  /\ layer' = IF glyphsReady
                THEN [layer EXCEPT ![0] = @ \union {Item(call.part, call.of, ink, 0)}]
                ELSE layer
  /\ UNCHANGED <<statics, mode, ink, size>>

(* Display_BlitGlyph draws rectangles, from glyph_cache, in white.         *)
WriteComicSans ==
  /\ Calling("write")
  /\ currentFont = "COMIC_SANS"
  /\ ink' = "white"
  /\ layer' = IF glyphsReady
                THEN [layer EXCEPT ![0] = @ \union {Item(call.part, call.of, "white", 0)}]
                ELSE layer
  /\ UNCHANGED <<statics, mode, size>>

(* Rows 0 to 399 of one layer replace those of the other.                  *)
RA8875_bte_move ==
  /\ Calling("move")
  /\ layer' = [layer EXCEPT ![call.to] =
                 {i \in layer[call.from] : i.part \notin Lower} \union
                 {i \in layer[call.to] : i.part \in Lower}]
  /\ UNCHANGED <<statics, mode, ink, size>>

Delay ==
  /\ Calling("delay")
  /\ UNCHANGED <<statics, chip>>

-----------------------------------------------------------------------------

(* Display_SwitchScreen(s); its early return changes nothing.              *)
Display_SwitchScreen(s) ==
  /\ CURRENT_SCREEN # s
  /\ job' = s
  /\ pos' = 1
  /\ UNCHANGED <<CURRENT_SCREEN, statics, chip>>

Done == job # "none" /\ pos > Len(Script[job])

FirstScreen == Done /\ job = "init" /\ Display_SwitchScreen("DEBUG_NO_RTD")

EndSwitch ==
  /\ Done
  /\ job # "init"
  /\ CURRENT_SCREEN' = job
  /\ job' = "none"
  /\ pos' = 1
  /\ UNCHANGED <<statics, chip>>

(* The ESP32 restarts: the statics are loaded again, the chip goes on.     *)
Restart ==
  /\ CURRENT_SCREEN' = "MAIN_NO_LAPS"
  /\ inGraphicMode' = FALSE
  /\ currentFont' = "INTERNAL"
  /\ glyphsReady' = FALSE
  /\ job' = "init"
  /\ pos' = 1
  /\ UNCHANGED chip

(* The calls of the render functions.                                      *)
Drawn ==
  \/ RA8875_clear \/ Display_PrecomputeGlyphs \/ Display_ResetState
  \/ EnableDrawMode \/ UseInternal \/ UseComicSans
  \/ Display_DrawRect \/ Display_InternalFontSize \/ SetForeground
  \/ WriteInternal \/ WriteComicSans \/ RA8875_bte_move \/ Delay

Next ==
  \/ Drawn
  \/ FirstScreen \/ EndSwitch
  \/ \E s \in Screen : job = "none" /\ Display_SwitchScreen(s)
  \/ Restart

Spec == Init /\ [][Next]_vars

-----------------------------------------------------------------------------

(* The labels of the RTD debug screen that wait off screen.                *)
Prerendered ==
  {Item("box", "DEBUG_RTD", "red", 0), Item("labels", "DEBUG_RTD", "white", 0),
   Item("moreLabels", "DEBUG_RTD", "white", 0)}

Loading ==
  {Item("loadingBox", "DEBUG_RTD", "yellow", 0),
   Item("loadingText", "DEBUG_RTD", "blue", 2)}

(* What a screen is meant to look like.                                    *)
Picture(s) ==
  IF s = "WARN" THEN {Item("box", s, "red", 0), Item("values", s, "white", 4)}
  ELSE {Item("borders", s, "white", 0), Item("values", s, "white", 3)} \union
       (CASE s = "DEBUG_RTD"    -> Prerendered
          [] s = "DEBUG_NO_RTD" -> {Item("labels", s, "white", 0),
                                    Item("moreLabels", s, "white", 0)}
          [] OTHER              -> {Item("box", s, "red", 0),
                                    Item("labels", s, "white", 0)})

(* Whatever screens came before, and wherever the ESP32 was restarted, a   *)
(* screen that is up looks as it should: no remains of another screen, of  *)
(* the loading box, of another colour or another font size                 *)
(* (display.c:145-150 and the render functions).                           *)
PictureRight == job = "none" => layer[0] = Picture(CURRENT_SCREEN)

(* Nor does anything wrong show while a screen is drawn, once it has been  *)
(* cleared (display.c:189-417).                                            *)
DrawingRight ==
  job # "none" /\ pos > 1
    => layer[0] \subseteq IF job = "init" THEN Prerendered \union Loading
                                          ELSE Picture(job)

(* Once the wheel has booted, the labels are off screen whenever the RTD   *)
(* debug screen may need them (display.c:369, 376).                        *)
OffscreenKept ==
  job # "init" => {i \in layer[1] : i.part \notin Lower} = Prerendered

(* Rectangles, and the rectangles Comic Sans is made of, are drawn in the  *)
(* graphic mode of the chip (display.c:438: "Enable graphic mode if not    *)
(* already"; 454: "We write comic sans as graphical drawings").            *)
DrawnInGraphicMode ==
  [][Display_DrawRect \/ WriteComicSans => mode = "graphic"]_vars

===============================================================================

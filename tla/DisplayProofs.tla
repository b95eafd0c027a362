----------------------------- MODULE DisplayProofs -----------------------------
(***************************************************************************)
(* Proofs about module Display.                                            *)
(***************************************************************************)
EXTENDS Display, TLAPS

Laid  == {"MAIN_NO_LAPS", "MAIN_LAPS"}
Upper(l) == {i \in layer[l] : i.part \notin Lower}

(* A script is being drawn, or the task is back in its loop.               *)
InScript ==
  /\ job = "none" => pos = 1
  /\ job # "none" => pos <= Len(Script[job]) + 1

(* What Display_Init has set for good.                                     *)
Booted ==
  /\ job # "init" \/ pos > 2 => glyphsReady
  /\ job # "init" \/ pos > 4 => inGraphicMode
  /\ job # "init" \/ pos > 8 => mode = "text"

(* The font at the calls that write.                                       *)
Comic ==
  \/ job = "init" /\ pos > 12
  \/ job \in Laid /\ pos \in 7 .. 8
  \/ job = "DEBUG_NO_RTD" /\ pos \in 5 .. 8

Plain ==
  \/ job = "init" /\ pos \in 9 .. 12
  \/ job \in Laid \union {"DEBUG_NO_RTD"} /\ pos > 8
  \/ job \in {"DEBUG_RTD", "WARN"} /\ pos > 5

(* The registers at the calls that write in the internal font.             *)
Pen ==
  /\ Comic => currentFont = "COMIC_SANS"
  /\ Plain => currentFont = "INTERNAL"
  /\ job = "init" /\ pos \in 10 .. 12 => size = 2
  /\ job = "init" /\ pos = 11 => ink = "blue"
  /\ Plain /\ job \notin {"init", "WARN"} => size = 3 /\ ink = "white"
  /\ job = "WARN" /\ pos > 6 => size = 4
  /\ job = "WARN" /\ pos > 7 => ink = "white"

After(k, i) == IF pos > k THEN {i} ELSE {}

(* What the calls so far have put on the layer.                            *)
Shown ==
  CASE job = "init" ->
         After(5, Item("box", "DEBUG_RTD", "red", 0)) \union
         After(6, Item("loadingBox", "DEBUG_RTD", "yellow", 0)) \union
         After(11, Item("loadingText", "DEBUG_RTD", "blue", 2)) \union
         After(13, Item("labels", "DEBUG_RTD", "white", 0)) \union
         After(15, Item("moreLabels", "DEBUG_RTD", "white", 0))
    [] job \in Laid ->
         After(3, Item("box", job, "red", 0)) \union
         After(4, Item("borders", job, "white", 0)) \union
         After(7, Item("labels", job, "white", 0)) \union
         After(9, Item("values", job, "white", 3))
    [] job = "DEBUG_NO_RTD" ->
         After(3, Item("borders", job, "white", 0)) \union
         After(5, Item("labels", job, "white", 0)) \union
         After(7, Item("moreLabels", job, "white", 0)) \union
         After(9, Item("values", job, "white", 3))
    [] job = "DEBUG_RTD" ->
         (IF pos > 2 THEN Prerendered ELSE {}) \union
         After(4, Item("borders", job, "white", 0)) \union
         After(6, Item("values", job, "white", 3))
    [] job = "WARN" ->
         After(3, Item("box", job, "red", 0)) \union
         After(8, Item("values", job, "white", 4))

IInv ==
  /\ TypeOK
  /\ InScript
  /\ Booted
  /\ Pen
  /\ job = "none" => layer[0] = Picture(CURRENT_SCREEN)
  /\ job # "none" /\ pos > 1 => layer[0] = Shown
  /\ job # "init" \/ pos > 16 => Upper(1) = Prerendered

-----------------------------------------------------------------------------
(* The scripts, call by call.                                              *)

(* Display_Init and Display_PrerenderDebugRTDLabels (display.c:334-369,    *)
(* 419-433).                                                               *)
LEMMA InitCalls ==
  LET c == Script["init"] IN
  /\ Len(c) = 16
  /\ c[1] = Call("clear") /\ c[2] = Call("glyphs")
  /\ c[3] = Call("reset") /\ c[4] = Call("drawMode")
  /\ c[5] = Rect("box", "DEBUG_RTD", "red")
  /\ c[6] = Rect("loadingBox", "DEBUG_RTD", "yellow")
  /\ c[7] = Sleep(DEFAULT_DELAY)
  /\ c[8] = Use("INTERNAL") /\ c[9] = Zoom(2) /\ c[10] = Ink("blue")
  /\ c[11] = Write("loadingText", "DEBUG_RTD")
  /\ c[12] = Use("COMIC_SANS") /\ c[13] = Write("labels", "DEBUG_RTD")
  /\ c[14] = Sleep(WATCHDOG_DELAY)
  /\ c[15] = Write("moreLabels", "DEBUG_RTD") /\ c[16] = Move(0, 1)
BY SMTT(60) DEF Script, Display_Init, Display_PrerenderDebugRTDLabels

(* Display_RenderMainScreen (display.c:189-260).                           *)
LEMMA MainCalls ==
  \A s \in Laid :
    LET c == Script[s] IN
    /\ Len(c) = 9
    /\ c[1] = Call("reset") /\ c[2] = Call("drawMode")
    /\ c[3] = Rect("box", s, "red") /\ c[4] = Rect("borders", s, "white")
    /\ c[5] = Sleep(DEFAULT_DELAY)
    /\ c[6] = Use("COMIC_SANS") /\ c[7] = Write("labels", s)
    /\ c[8] = Use("INTERNAL") /\ c[9] = Write("values", s)
BY DEF Script, Display_RenderMainScreen, Laid

(* Display_RenderStaticDebugScreen (display.c:264-331).                    *)
LEMMA DebugCalls ==
  LET c == Script["DEBUG_NO_RTD"] IN
  /\ Len(c) = 9
  /\ c[1] = Call("reset") /\ c[2] = Call("drawMode")
  /\ c[3] = Rect("borders", "DEBUG_NO_RTD", "white")
  /\ c[4] = Use("COMIC_SANS") /\ c[5] = Write("labels", "DEBUG_NO_RTD")
  /\ c[6] = Sleep(WATCHDOG_DELAY)
  /\ c[7] = Write("moreLabels", "DEBUG_NO_RTD")
  /\ c[8] = Use("INTERNAL") /\ c[9] = Write("values", "DEBUG_NO_RTD")
BY DEF Script, Display_RenderStaticDebugScreen

(* Display_UsePrerenderedDebugRTD (display.c:372-404).                     *)
LEMMA DriveCalls ==
  LET c == Script["DEBUG_RTD"] IN
  /\ Len(c) = 6
  /\ c[1] = Call("reset") /\ c[2] = Move(1, 0) /\ c[3] = Call("drawMode")
  /\ c[4] = Rect("borders", "DEBUG_RTD", "white")
  /\ c[5] = Use("INTERNAL") /\ c[6] = Write("values", "DEBUG_RTD")
BY DEF Script, Display_UsePrerenderedDebugRTD

(* The warning (display.c:407-417).                                        *)
LEMMA WarnCalls ==
  LET c == Script["WARN"] IN
  /\ Len(c) = 8
  /\ c[1] = Call("reset") /\ c[2] = Call("drawMode")
  /\ c[3] = Rect("box", "WARN", "red") /\ c[4] = Sleep(DEFAULT_DELAY)
  /\ c[5] = Use("INTERNAL") /\ c[6] = Zoom(4) /\ c[7] = Ink("white")
  /\ c[8] = Write("values", "WARN")
BY DEF Script, Display_Warn

(* What a call is an operation of (display.c:108-187, 435-500).            *)
LEMMA Operations ==
  /\ \A f : Call(f).op = f
  /\ \A p, s, c : Rect(p, s, c).op = "rect"
  /\ \A p, s : Write(p, s).op = "write"
  /\ \A f : Use(f).op = "font"
  /\ \A z : Zoom(z).op = "zoom"
  /\ \A c : Ink(c).op = "ink"
  /\ \A l, m : Move(l, m).op = "move"
  /\ \A ms : Sleep(ms).op = "delay"
BY DEF Call, Rect, Write, Use, Zoom, Ink, Move, Sleep

(* The call that is made is one of these (display.c:189-433).              *)
Making(s, k, c) == job = s /\ pos = k /\ call = c

(* Where each operation stands, with what (display.c:189-433).              *)
Clears == Making("init", 1, Call("clear"))
Caches == Making("init", 2, Call("glyphs"))
Resets == \/ job = "init" /\ pos = 3
          \/ job # "init" /\ pos = 1
DrawModes ==
  \/ job = "init" /\ pos = 4
  \/ job = "DEBUG_RTD" /\ pos = 3
  \/ job \in Laid \union {"DEBUG_NO_RTD", "WARN"} /\ pos = 2

Rects ==
  \/ Making("init", 5, Rect("box", "DEBUG_RTD", "red"))
  \/ Making("init", 6, Rect("loadingBox", "DEBUG_RTD", "yellow"))
  \/ job \in Laid /\ Making(job, 3, Rect("box", job, "red"))
  \/ job \in Laid /\ Making(job, 4, Rect("borders", job, "white"))
  \/ Making("DEBUG_NO_RTD", 3, Rect("borders", job, "white"))
  \/ Making("DEBUG_RTD", 4, Rect("borders", job, "white"))
  \/ Making("WARN", 3, Rect("box", job, "red"))

Delays ==
  \/ job \in Laid /\ Making(job, 5, Sleep(DEFAULT_DELAY))
  \/ Making("init", 7, Sleep(DEFAULT_DELAY))
  \/ Making("WARN", 4, Sleep(DEFAULT_DELAY))
  \/ Making("init", 14, Sleep(WATCHDOG_DELAY))
  \/ Making("DEBUG_NO_RTD", 6, Sleep(WATCHDOG_DELAY))

Fonts ==
  \/ Making("init", 8, Use("INTERNAL"))
  \/ job \in Laid \union {"DEBUG_NO_RTD"} /\ Making(job, 8, Use("INTERNAL"))
  \/ job \in {"DEBUG_RTD", "WARN"} /\ Making(job, 5, Use("INTERNAL"))
  \/ Making("init", 12, Use("COMIC_SANS"))
  \/ job \in Laid /\ Making(job, 6, Use("COMIC_SANS"))
  \/ Making("DEBUG_NO_RTD", 4, Use("COMIC_SANS"))

Zooms == Making("init", 9, Zoom(2)) \/ Making("WARN", 6, Zoom(4))
Inks == Making("init", 10, Ink("blue")) \/ Making("WARN", 7, Ink("white"))

Writes ==
  \/ Making("init", 11, Write("loadingText", "DEBUG_RTD"))
  \/ Making("init", 13, Write("labels", "DEBUG_RTD"))
  \/ Making("init", 15, Write("moreLabels", "DEBUG_RTD"))
  \/ job \in Laid /\ Making(job, 7, Write("labels", job))
  \/ job \in Laid \union {"DEBUG_NO_RTD"} /\ Making(job, 9, Write("values", job))
  \/ Making("DEBUG_NO_RTD", 5, Write("labels", job))
  \/ Making("DEBUG_NO_RTD", 7, Write("moreLabels", job))
  \/ Making("DEBUG_RTD", 6, Write("values", job))
  \/ Making("WARN", 8, Write("values", job))

Moves == Making("init", 16, Move(0, 1)) \/ Making("DEBUG_RTD", 2, Move(1, 0))

(* Every call, where it stands (display.c:189-433).                        *)
LEMMA Places ==
  ASSUME TypeOK, job # "none", pos <= Len(Script[job])
  PROVE
  /\ call.op = "clear" => Clears
  /\ call.op = "glyphs" => Caches
  /\ call.op = "reset" => Resets
  /\ call.op = "drawMode" => DrawModes
  /\ call.op = "rect" => Rects
  /\ call.op = "delay" => Delays
  /\ call.op = "font" => Fonts
  /\ call.op = "zoom" => Zooms
  /\ call.op = "ink" => Inks
  /\ call.op = "write" => Writes
  /\ call.op = "move" => Moves
<1> USE DEF TypeOK, call
<1>1. CASE job = "init"
  <2>1. pos \in 1 .. 16
    BY <1>1, InitCalls
  <2>2. \/ pos = 1 /\ call = Call("clear")
        \/ pos = 2 /\ call = Call("glyphs")
        \/ pos = 3 /\ call = Call("reset")
        \/ pos = 4 /\ call = Call("drawMode")
        \/ pos = 5 /\ call = Rect("box", "DEBUG_RTD", "red")
        \/ pos = 6 /\ call = Rect("loadingBox", "DEBUG_RTD", "yellow")
        \/ pos = 7 /\ call = Sleep(DEFAULT_DELAY)
        \/ pos = 8 /\ call = Use("INTERNAL")
        \/ pos = 9 /\ call = Zoom(2)
        \/ pos = 10 /\ call = Ink("blue")
        \/ pos = 11 /\ call = Write("loadingText", "DEBUG_RTD")
        \/ pos = 12 /\ call = Use("COMIC_SANS")
        \/ pos = 13 /\ call = Write("labels", "DEBUG_RTD")
        \/ pos = 14 /\ call = Sleep(WATCHDOG_DELAY)
        \/ pos = 15 /\ call = Write("moreLabels", "DEBUG_RTD")
        \/ pos = 16 /\ call = Move(0, 1)
    BY <1>1, <2>1, InitCalls
  <2> HIDE DEF TypeOK, call
  <2>3. call.op = "clear" => Clears
    BY <1>1, <2>2, Operations DEF Clears, Making
  <2>4. call.op = "glyphs" => Caches
    BY <1>1, <2>2, Operations DEF Caches, Making
  <2>5. call.op = "reset" => Resets
    BY <1>1, <2>2, Operations DEF Resets, Making
  <2>6. call.op = "drawMode" => DrawModes
    BY <1>1, <2>2, Operations DEF DrawModes, Making
  <2>7. call.op = "rect" => Rects
    BY <1>1, <2>2, Operations DEF Rects, Making
  <2>8. call.op = "delay" => Delays
    BY <1>1, <2>2, Operations DEF Delays, Making
  <2>9. call.op = "font" => Fonts
    BY <1>1, <2>2, Operations DEF Fonts, Making
  <2>10. call.op = "zoom" => Zooms
    BY <1>1, <2>2, Operations DEF Zooms, Making
  <2>11. call.op = "ink" => Inks
    BY <1>1, <2>2, Operations DEF Inks, Making
  <2>12. call.op = "write" => Writes
    BY <1>1, <2>2, Operations DEF Writes, Making
  <2>13. call.op = "move" => Moves
    BY <1>1, <2>2, Operations DEF Moves, Making
  <2> QED
    BY <2>3, <2>4, <2>5, <2>6, <2>7, <2>8, <2>9, <2>10, <2>11, <2>12, <2>13
<1>2. CASE job \in Laid
  <2>1. Len(Script[job]) = 9
    BY <1>2, MainCalls, Zenon
  <2>2. pos \in 1 .. 9
    BY <2>1
  <2>3. LET c == Script[job] IN
        /\ c[1] = Call("reset") /\ c[2] = Call("drawMode")
        /\ c[3] = Rect("box", job, "red") /\ c[4] = Rect("borders", job, "white")
        /\ c[5] = Sleep(DEFAULT_DELAY)
        /\ c[6] = Use("COMIC_SANS") /\ c[7] = Write("labels", job)
        /\ c[8] = Use("INTERNAL") /\ c[9] = Write("values", job)
    BY <1>2, MainCalls, Zenon
  <2>4. \/ pos = 1 /\ call = Call("reset")
        \/ pos = 2 /\ call = Call("drawMode")
        \/ pos = 3 /\ call = Rect("box", job, "red")
        \/ pos = 4 /\ call = Rect("borders", job, "white")
        \/ pos = 5 /\ call = Sleep(DEFAULT_DELAY)
        \/ pos = 6 /\ call = Use("COMIC_SANS")
        \/ pos = 7 /\ call = Write("labels", job)
        \/ pos = 8 /\ call = Use("INTERNAL")
        \/ pos = 9 /\ call = Write("values", job)
    BY <2>2, <2>3
  <2> HIDE DEF TypeOK, call
  <2>5. call.op \notin {"clear", "glyphs", "zoom", "ink", "move"}
    BY <2>4, Operations
  <2>6. call.op = "reset" => Resets
    BY <1>2, <2>4, Operations DEF Resets, Laid
  <2>7. call.op = "drawMode" => DrawModes
    BY <1>2, <2>4, Operations DEF DrawModes
  <2>8. call.op = "rect" => Rects
    BY <1>2, <2>4, Operations DEF Rects, Making
  <2>9. call.op = "delay" => Delays
    BY <1>2, <2>4, Operations DEF Delays, Making
  <2>10. call.op = "font" => Fonts
    BY <1>2, <2>4, Operations DEF Fonts, Making
  <2>11. call.op = "write" => Writes
    BY <1>2, <2>4, Operations DEF Writes, Making
  <2> QED
    BY <2>5, <2>6, <2>7, <2>8, <2>9, <2>10, <2>11
<1>3. CASE job = "DEBUG_NO_RTD"
  <2>1. pos \in 1 .. 9
    BY <1>3, DebugCalls
  <2> QED
    BY <1>3, <2>1, DebugCalls, Operations
       DEF Laid, Making, Clears, Caches, Resets, DrawModes, Rects, Delays, Fonts, Zooms,
           Inks, Writes, Moves
<1>4. CASE job = "DEBUG_RTD"
  <2>1. pos \in 1 .. 6
    BY <1>4, DriveCalls
  <2> QED
    BY <1>4, <2>1, DriveCalls, Operations
       DEF Laid, Making, Clears, Caches, Resets, DrawModes, Rects, Delays, Fonts, Zooms,
           Inks, Writes, Moves
<1>5. CASE job = "WARN"
  <2>1. pos \in 1 .. 8
    BY <1>5, WarnCalls
  <2> QED
    BY <1>5, <2>1, WarnCalls, Operations
       DEF Laid, Making, Clears, Caches, Resets, DrawModes, Rects, Delays, Fonts, Zooms,
           Inks, Writes, Moves
<1> QED
  BY <1>1, <1>2, <1>3, <1>4, <1>5 DEF Screen, Laid

-----------------------------------------------------------------------------
(* The calls keep the invariant.                                           *)

(* No render function makes more than sixteen calls (display.c:189-433).   *)
LEMMA Lengths == \A s \in Screen \union {"init"} : Len(Script[s]) \in 1 .. 16
<1>1. \A s \in Laid : Len(Script[s]) = 9
  BY MainCalls, Zenon
<1> QED
  BY <1>1, InitCalls, DebugCalls, DriveCalls, WarnCalls DEF Screen, Laid

(* A call is one of the script, and the next one follows it                *)
(* (display.c:189-433).                                                    *)
LEMMA Onward ==
  ASSUME IInv, NEW f, Calling(f)
  PROVE  /\ job # "none" /\ job' = job /\ CURRENT_SCREEN' = CURRENT_SCREEN
         /\ pos \in 1 .. 16 /\ pos' = pos + 1 /\ pos' \in 2 .. 17
         /\ pos <= Len(Script[job]) /\ call.op = f
         /\ InScript'
<1>1. Len(Script[job]) \in 1 .. 16
  <2>1. job \in Screen \union {"init"}
    BY DEF IInv, Calling, TypeOK
  <2> QED
    BY <2>1, Lengths, Zenon
<1>2. job # "none" /\ job' = job /\ CURRENT_SCREEN' = CURRENT_SCREEN /\ call.op = f
  BY DEF Calling, call
<1>3. pos \in 1 .. 16 /\ pos' = pos + 1 /\ pos' \in 2 .. 17 /\ pos <= Len(Script[job])
  <2>1. pos \in 1 .. 17
    BY DEF IInv, TypeOK
  <2>2. pos' = pos + 1 /\ pos <= Len(Script[job])
    BY DEF Calling
  <2>3. PICK n \in 1 .. 16 : n = Len(Script[job])
    BY <1>1
  <2>4. pos <= n
    BY <2>2, <2>3
  <2> QED
    BY <2>1, <2>2, <2>4
<1>4. InScript'
  BY <1>1, <1>2, <1>3 DEF InScript
<1> QED
  BY <1>2, <1>3, <1>4

(* Calls that draw nothing leave the picture as it is due (display.c:108). *)
LEMMA Unpainted ==
  ASSUME IInv, NEW f, Calling(f), UNCHANGED layer,
         f \in {"glyphs", "drawMode", "delay", "font", "zoom", "ink"}
  PROVE  /\ layer'[0] = Shown'
         /\ job # "init" \/ pos' > 16 => Upper(1)' = Prerendered
<1>1. job # "none" /\ job' = job /\ pos \in 1 .. 16 /\ pos' = pos + 1
  BY Onward
<1>2. Caches \/ DrawModes \/ Delays \/ Fonts \/ Zooms \/ Inks
  BY Onward, Places DEF IInv
<1>3. /\ pos > 1
      /\ job = "init" => pos \notin {5, 6, 11, 13, 15, 16}
      /\ job \in Laid => pos \notin {3, 4, 7, 9}
      /\ job = "DEBUG_NO_RTD" => pos \notin {3, 5, 7, 9}
      /\ job = "DEBUG_RTD" => pos \notin {2, 4, 6}
      /\ job = "WARN" => pos \notin {3, 8}
  BY <1>2 DEF Caches, DrawModes, Delays, Fonts, Zooms, Inks, Making, Laid
<1>4. layer[0] = Shown
  BY <1>1, <1>3 DEF IInv
<1>5. Shown' = Shown
  <2>1. CASE job = "init"
    BY <1>1, <1>3, <2>1 DEF Shown, After
  <2>2. CASE job \in Laid
    BY <1>1, <1>3, <2>2 DEF Shown, After, Laid
  <2>3. CASE job = "DEBUG_NO_RTD"
    BY <1>1, <1>3, <2>3 DEF Shown, After, Laid
  <2>4. CASE job = "DEBUG_RTD"
    BY <1>1, <1>3, <2>4 DEF Shown, After, Laid
  <2>5. CASE job = "WARN"
    BY <1>1, <1>3, <2>5 DEF Shown, After, Laid
  <2> QED
    BY <1>1, <2>1, <2>2, <2>3, <2>4, <2>5 DEF IInv, TypeOK, Screen, Laid
<1>6. Upper(1)' = Upper(1)
  BY DEF Upper
<1> QED
  BY <1>1, <1>3, <1>4, <1>5, <1>6 DEF IInv

(* What the call is to put on the panel, when it draws.                    *)
Due(i) ==
  \/ /\ job = "init"
     /\ \/ pos = 5 /\ i = Item("box", "DEBUG_RTD", "red", 0)
        \/ pos = 6 /\ i = Item("loadingBox", "DEBUG_RTD", "yellow", 0)
        \/ pos = 11 /\ i = Item("loadingText", "DEBUG_RTD", "blue", 2)
        \/ pos = 13 /\ i = Item("labels", "DEBUG_RTD", "white", 0)
        \/ pos = 15 /\ i = Item("moreLabels", "DEBUG_RTD", "white", 0)
  \/ /\ job \in Laid
     /\ \/ pos = 3 /\ i = Item("box", job, "red", 0)
        \/ pos = 4 /\ i = Item("borders", job, "white", 0)
        \/ pos = 7 /\ i = Item("labels", job, "white", 0)
        \/ pos = 9 /\ i = Item("values", job, "white", 3)
  \/ /\ job = "DEBUG_NO_RTD"
     /\ \/ pos = 3 /\ i = Item("borders", job, "white", 0)
        \/ pos = 5 /\ i = Item("labels", job, "white", 0)
        \/ pos = 7 /\ i = Item("moreLabels", job, "white", 0)
        \/ pos = 9 /\ i = Item("values", job, "white", 3)
  \/ /\ job = "DEBUG_RTD"
     /\ \/ pos = 4 /\ i = Item("borders", job, "white", 0)
        \/ pos = 6 /\ i = Item("values", job, "white", 3)
  \/ /\ job = "WARN"
     /\ \/ pos = 3 /\ i = Item("box", job, "red", 0)
        \/ pos = 8 /\ i = Item("values", job, "white", 4)

(* Every item is one of a part, a screen, a colour and a size              *)
(* (display.h:20-26).                                                      *)
LEMMA DueType ==
  ASSUME TypeOK, NEW i, Due(i), layer' = [layer EXCEPT ![0] = @ \union {i}]
  PROVE  layer' \in [{0, 1} -> SUBSET [part : Part, of : Screen, ink : Colour, size : Size]]
<1>1. i \in [part : Part, of : Screen, ink : Colour, size : Size]
  BY DEF Due, Item, Part, Lower, Screen, Colour, Size, Laid
<1> QED
  BY <1>1 DEF TypeOK

(* A call that draws what is due there brings the picture on               *)
(* (display.c:182-417).                                                    *)
LEMMA Painted ==
  ASSUME IInv, NEW f, Calling(f), NEW i, Due(i),
         layer' = [layer EXCEPT ![0] = @ \union {i}]
  PROVE  /\ layer'[0] = Shown'
         /\ job # "init" \/ pos' > 16 => Upper(1)' = Prerendered
<1>1. job # "none" /\ job' = job /\ pos \in 1 .. 16 /\ pos' = pos + 1
  BY Onward
<1>2. pos > 1
  BY DEF Due
<1>3. layer[0] = Shown
  BY <1>1, <1>2 DEF IInv
<1>4. layer'[0] = layer[0] \union {i} /\ layer'[1] = layer[1]
  BY DEF IInv, TypeOK
<1>5. Shown' = Shown \union {i}
  <2>1. CASE job = "init"
    BY <1>1, <2>1 DEF Shown, After, Due, Laid
  <2>2. CASE job \in Laid
    BY <1>1, <2>2 DEF Shown, After, Due, Laid
  <2>3. CASE job = "DEBUG_NO_RTD"
    BY <1>1, <2>3 DEF Shown, After, Due, Laid
  <2>4. CASE job = "DEBUG_RTD"
    BY <1>1, <2>4 DEF Shown, After, Due, Laid
  <2>5. CASE job = "WARN"
    BY <1>1, <2>5 DEF Shown, After, Due, Laid
  <2> QED
    BY <1>1, <2>1, <2>2, <2>3, <2>4, <2>5 DEF IInv, TypeOK, Screen, Laid
<1>6. pos # 16
  BY DEF Due
<1>7. Upper(1)' = Upper(1)
  BY <1>4 DEF Upper
<1> QED
  BY <1>1, <1>3, <1>4, <1>5, <1>6, <1>7 DEF IInv

(* The layer is emptied before anything is drawn (display.c:147, 424).     *)
LEMMA ClearStep == ASSUME IInv, RA8875_clear \/ Display_ResetState PROVE IInv'
<1>1. /\ job # "none" /\ job' = job /\ CURRENT_SCREEN' = CURRENT_SCREEN
      /\ pos \in 1 .. 16 /\ pos' = pos + 1 /\ pos' \in 2 .. 17
      /\ InScript' /\ (call.op = "clear" \/ call.op = "reset")
      /\ job # "none" /\ pos <= Len(Script[job])
  BY Onward DEF RA8875_clear, Display_ResetState
<1>2. \/ job = "init" /\ pos \in {1, 3}
      \/ job # "init" /\ pos = 1
  BY <1>1, Places DEF IInv, Clears, Resets, Making
<1>3. /\ layer' = [layer EXCEPT ![0] = {}]
      /\ UNCHANGED <<inGraphicMode, currentFont, glyphsReady, mode, size>>
      /\ ink' = ink \/ ink' = "white"
  BY DEF RA8875_clear, Display_ResetState, statics
<1>4. TypeOK'
  BY <1>1, <1>3 DEF IInv, TypeOK, Colour
<1>5. Booted'
  BY <1>1, <1>2, <1>3 DEF IInv, Booted
<1>6. Pen'
  BY <1>1, <1>2, <1>3 DEF Pen, Comic, Plain, Laid
<1>7. layer'[0] = {} /\ layer'[1] = layer[1]
  BY <1>3 DEF IInv, TypeOK
<1>8. Shown' = {}
  BY <1>1, <1>2 DEF Shown, After, Laid, IInv, TypeOK, Screen
<1>9. job # "init" \/ pos' > 16 => Upper(1)' = Prerendered
  BY <1>1, <1>2, <1>7 DEF IInv, Upper
<1> QED
  BY <1>1, <1>4, <1>5, <1>6, <1>7, <1>8, <1>9 DEF IInv

(* Fonts, modes, colours and sizes are set for the calls that follow       *)
(* (display.c:108-135, 435-456).                                           *)
LEMMA SettingStep ==
  ASSUME IInv,
         \/ Display_PrecomputeGlyphs \/ EnableDrawMode \/ UseInternal \/ UseComicSans
         \/ Display_InternalFontSize \/ SetForeground \/ Delay
  PROVE  IInv'
<1> DEFINE
  Rest == /\ job # "none" /\ job' = job /\ CURRENT_SCREEN' = CURRENT_SCREEN
          /\ pos \in 1 .. 16 /\ pos' = pos + 1 /\ pos' \in 2 .. 17
          /\ InScript' /\ UNCHANGED layer /\ layer'[0] = Shown'
          /\ job # "init" \/ pos' > 16 => Upper(1)' = Prerendered
<1>a. ASSUME Rest, TypeOK', Booted', Pen' PROVE IInv'
  BY <1>a DEF IInv
<1>b. ASSUME NEW f, Calling(f), UNCHANGED layer,
             f \in {"glyphs", "drawMode", "delay", "font", "zoom", "ink"}
      PROVE  Rest
  BY <1>b, Onward, Unpainted
<1>1. CASE Display_PrecomputeGlyphs
  <2>1. Rest /\ Caches
    BY <1>1, <1>b, Onward, Places DEF Display_PrecomputeGlyphs, chip, IInv
  <2>2. TypeOK'
    BY <1>1, <2>1 DEF Display_PrecomputeGlyphs, chip, statics, IInv, TypeOK
  <2>3. Booted'
    BY <1>1, <2>1 DEF Display_PrecomputeGlyphs, chip, statics, IInv, Booted, Caches,
                      Making, Laid
  <2>4. Pen'
    BY <1>1, <2>1 DEF Display_PrecomputeGlyphs, chip, statics, IInv, Pen, Caches,
                      Making, Laid,
       Comic, Plain
  <2> QED
    BY <1>a, <2>1, <2>2, <2>3, <2>4
<1>2. CASE EnableDrawMode
  <2>1. Rest /\ DrawModes
    BY <1>2, <1>b, Onward, Places DEF EnableDrawMode, chip, IInv
  <2>2. TypeOK'
    BY <1>2, <2>1 DEF EnableDrawMode, chip, statics, IInv, TypeOK,
                      Display_EnableDrawMode
  <2>3. Booted'
    BY <1>2, <2>1 DEF EnableDrawMode, chip, statics, IInv, Booted,
                      Display_EnableDrawMode, DrawModes, Making, Laid
  <2>4. Pen'
    BY <1>2, <2>1 DEF EnableDrawMode, chip, statics, IInv, Pen, Display_EnableDrawMode,
                      DrawModes, Making, Laid,
       Comic, Plain
  <2> QED
    BY <1>a, <2>1, <2>2, <2>3, <2>4
<1>3. CASE UseInternal
  <2>1. Rest /\ Fonts
    BY <1>3, <1>b, Onward, Places DEF UseInternal, chip, IInv
  <2>2. TypeOK'
    BY <1>3, <2>1 DEF UseInternal, chip, statics, IInv, TypeOK, Font, Colour, Size
  <2>3. Booted'
    BY <1>3, <2>1 DEF UseInternal, chip, statics, IInv, Booted, Fonts, Making, Laid
  <2>4. Pen'
    BY <1>3, <2>1 DEF UseInternal, chip, statics, IInv, Pen, Fonts, Making, Laid,
       Comic, Plain, Use
  <2> QED
    BY <1>a, <2>1, <2>2, <2>3, <2>4
<1>4. CASE UseComicSans
  <2>1. Rest /\ Fonts
    BY <1>4, <1>b, Onward, Places DEF UseComicSans, chip, IInv
  <2>2. TypeOK'
    BY <1>4, <2>1 DEF UseComicSans, chip, statics, IInv, TypeOK, Font,
                      Display_EnableDrawMode
  <2>3. Booted'
    BY <1>4, <2>1 DEF UseComicSans, chip, statics, IInv, Booted, Use,
                      Display_EnableDrawMode, Fonts, Making, Laid
  <2>4. Pen'
    BY <1>4, <2>1 DEF UseComicSans, chip, statics, IInv, Pen, Display_EnableDrawMode,
                      Fonts, Making, Laid,
       Comic, Plain, Use
  <2> QED
    BY <1>a, <2>1, <2>2, <2>3, <2>4
<1>5. CASE Display_InternalFontSize
  <2>1. Rest /\ Zooms
    BY <1>5, <1>b, Onward, Places DEF Display_InternalFontSize, chip, IInv
  <2>2. TypeOK'
    BY <1>5, <2>1 DEF Display_InternalFontSize, chip, statics, IInv, TypeOK, Zoom,
                      Size, Zooms, Making
  <2>3. Booted'
    BY <1>5, <2>1 DEF Display_InternalFontSize, chip, statics, IInv, Booted, Zooms,
                      Making
  <2>4. Pen'
    BY <1>5, <2>1 DEF Display_InternalFontSize, chip, statics, IInv, Pen, Zoom, Zooms,
                      Making, Laid,
       Comic, Plain
  <2> QED
    BY <1>a, <2>1, <2>2, <2>3, <2>4
<1>6. CASE SetForeground
  <2>1. Rest /\ Inks
    BY <1>6, <1>b, Onward, Places DEF SetForeground, chip, IInv
  <2>2. TypeOK'
    BY <1>6, <2>1 DEF SetForeground, chip, statics, IInv, TypeOK, Ink, Colour, Inks,
                      Making
  <2>3. Booted'
    BY <1>6, <2>1 DEF SetForeground, chip, statics, IInv, Booted, Inks, Making
  <2>4. Pen'
    BY <1>6, <2>1 DEF SetForeground, chip, statics, IInv, Pen, Ink, Inks, Making, Laid,
       Comic, Plain
  <2> QED
    BY <1>a, <2>1, <2>2, <2>3, <2>4
<1>7. CASE Delay
  <2>1. Rest /\ Delays
    BY <1>7, <1>b, Onward, Places DEF Delay, chip, IInv
  <2>2. TypeOK'
    BY <1>7, <2>1 DEF Delay, chip, statics, IInv, TypeOK
  <2>3. Booted'
    BY <1>7, <2>1 DEF Delay, chip, statics, IInv, Booted, Delays, Making, Laid
  <2>4. Pen'
    BY <1>7, <2>1 DEF Delay, chip, statics, IInv, Pen, Delays, Making, Laid,
       Comic, Plain
  <2> QED
    BY <1>a, <2>1, <2>2, <2>3, <2>4
<1> QED
  BY <1>1, <1>2, <1>3, <1>4, <1>5, <1>6, <1>7

(* Rectangles and text are drawn as they are due: the font, the colour and *)
(* the size are right where a text is written (display.c:153-187, 458-500). *)
LEMMA PaintStep ==
  ASSUME IInv, Display_DrawRect \/ WriteInternal \/ WriteComicSans PROVE IInv'
<1> DEFINE
  Rest(i) == /\ job # "none" /\ job' = job /\ CURRENT_SCREEN' = CURRENT_SCREEN
             /\ pos \in 1 .. 16 /\ pos' = pos + 1 /\ pos' \in 2 .. 17
             /\ InScript' /\ Due(i)
             /\ layer' = [layer EXCEPT ![0] = @ \union {i}]
             /\ UNCHANGED <<inGraphicMode, currentFont, glyphsReady, mode, size>>
<1>a. ASSUME NEW i, Rest(i), NEW f, Calling(f), ink' \in Colour, Pen' PROVE IInv'
  <2>1. layer'[0] = Shown' /\ (job # "init" \/ pos' > 16 => Upper(1)' = Prerendered)
    BY <1>a, Painted
  <2>2. TypeOK'
    <3>1. TypeOK /\ Due(i) /\ layer' = [layer EXCEPT ![0] = @ \union {i}]
      BY <1>a DEF IInv
    <3>2. layer' \in [{0, 1} -> SUBSET [part : Part, of : Screen, ink : Colour, size : Size]]
      BY <3>1, DueType
    <3> QED
      BY <1>a, <3>1, <3>2 DEF TypeOK
  <2>3. Booted'
    <3>1. Booted /\ (job = "init" => pos \in {5, 6, 11, 13, 15})
      BY <1>a DEF IInv, Due, Laid
    <3> QED
      BY <1>a, <3>1 DEF Booted
  <2> QED
    BY <1>a, <2>1, <2>2, <2>3 DEF IInv
<1>1. CASE Display_DrawRect
  <2> DEFINE i == Item(call.part, call.of, call.colour, 0)
  <2>1. Calling("rect") /\ Rects
    BY <1>1, Onward, Places DEF Display_DrawRect, IInv
  <2>2. Due(i) /\ call.colour \in Colour
    BY <2>1 DEF Rects, Making, Rect, Due, Laid, Colour
  <2>3. Rest(i)
    BY <1>1, <2>1, <2>2, Onward DEF Display_DrawRect, statics
  <2>4. Pen'
    BY <1>1, <2>1, <2>3
       DEF Display_DrawRect, IInv, Pen, Comic, Plain, Laid, Rects, Making
  <2> QED
    BY <1>1, <1>a, <2>1, <2>2, <2>3, <2>4 DEF Display_DrawRect
<1>2. CASE WriteInternal
  <2> DEFINE i == Item(call.part, call.of, ink, size)
  <2>1. Calling("write") /\ Writes /\ job # "none"
    BY <1>2, Onward, Places DEF WriteInternal, IInv
  <2>2. Due(i) /\ mode = "text"
    BY <1>2, <2>1
       DEF WriteInternal, IInv, Pen, Comic, Plain, Booted, Writes, Making, Write, Due, Laid
  <2>3. Rest(i)
    BY <1>2, <2>1, <2>2, Onward DEF WriteInternal, statics
  <2>4. Pen'
    BY <1>2, <2>1, <2>3 DEF WriteInternal, IInv, Pen, Comic, Plain, Laid, Writes, Making
  <2> QED
    BY <1>2, <1>a, <2>1, <2>2, <2>3, <2>4 DEF WriteInternal, IInv, TypeOK
<1>3. CASE WriteComicSans
  <2> DEFINE i == Item(call.part, call.of, "white", 0)
  <2>1. Calling("write") /\ Writes /\ job # "none"
    BY <1>3, Onward, Places DEF WriteComicSans, IInv
  <2>2. Due(i) /\ glyphsReady
    BY <1>3, <2>1
       DEF WriteComicSans, IInv, Pen, Comic, Plain, Booted, Writes, Making, Write, Due, Laid
  <2>3. Rest(i)
    BY <1>3, <2>1, <2>2, Onward DEF WriteComicSans, statics
  <2>4. Pen'
    BY <1>3, <2>1, <2>3 DEF WriteComicSans, IInv, Pen, Comic, Plain, Laid, Writes,
                            Making
  <2> QED
    BY <1>3, <1>a, <2>1, <2>2, <2>3, <2>4 DEF WriteComicSans, Colour
<1> QED
  BY <1>1, <1>2, <1>3

(* The labels are copied once they are all drawn, and fetched back before  *)
(* anything else is (display.c:369, 376).                                  *)
LEMMA CopyStep == ASSUME IInv, RA8875_bte_move PROVE IInv'
<1>1. /\ job # "none" /\ job' = job /\ CURRENT_SCREEN' = CURRENT_SCREEN
      /\ pos \in 1 .. 16 /\ pos' = pos + 1 /\ pos' \in 2 .. 17
      /\ InScript' /\ call.op = "move" /\ pos <= Len(Script[job])
  BY Onward DEF RA8875_bte_move
<1>2. Moves
  BY <1>1, Places DEF IInv
<1>3. /\ call.to \in {0, 1} /\ call.from \in {0, 1}
      /\ UNCHANGED <<inGraphicMode, currentFont, glyphsReady, mode, ink, size>>
  BY <1>2 DEF Moves, Making, Move, RA8875_bte_move, statics
<1>4. TypeOK'
  BY <1>1, <1>3 DEF RA8875_bte_move, IInv, TypeOK
<1>5. Booted'
  BY <1>1, <1>2, <1>3 DEF IInv, Booted, Moves, Making
<1>6. Pen'
  BY <1>1, <1>2, <1>3 DEF IInv, Pen, Comic, Plain, Laid, Moves, Making
<1>7. CASE Making("init", 16, Move(0, 1))
  <2>1. call.to = 1 /\ call.from = 0
    BY <1>7 DEF Making, Move
  <2>2. /\ layer'[0] = layer[0]
        /\ layer'[1] = {i \in layer[0] : i.part \notin Lower} \union
                       {i \in layer[1] : i.part \in Lower}
    BY <2>1 DEF RA8875_bte_move, IInv, TypeOK
  <2>3. layer[0] = Prerendered \union Loading
    <3>1. layer[0] = Shown
      BY <1>7 DEF IInv, Making
    <3>2. Shown = {Item("box", "DEBUG_RTD", "red", 0)} \union
                  {Item("loadingBox", "DEBUG_RTD", "yellow", 0)} \union
                  {Item("loadingText", "DEBUG_RTD", "blue", 2)} \union
                  {Item("labels", "DEBUG_RTD", "white", 0)} \union
                  {Item("moreLabels", "DEBUG_RTD", "white", 0)}
      <4>1. job = "init" /\ job \notin Laid
        BY <1>7 DEF Making, Laid
      <4>2. \A k \in {5, 6, 11, 13, 15} : \A i : After(k, i) = {i}
        BY <1>7 DEF After, Making
      <4> QED
        BY <4>1, <4>2 DEF Shown
    <3> QED
      BY <3>1, <3>2 DEF Prerendered, Loading
  <2>4. {i \in Prerendered \union Loading : i.part \notin Lower} = Prerendered
    BY DEF Prerendered, Loading, Item, Lower
  <2>5. Upper(1)' = Prerendered
    BY <2>2, <2>3, <2>4 DEF Upper
  <2>6. Shown' = Shown
    BY <1>1, <1>7 DEF Shown, After, Making
  <2> QED
    BY <1>1, <1>4, <1>5, <1>6, <1>7, <2>2, <2>5, <2>6 DEF IInv, Making
<1>8. CASE Making("DEBUG_RTD", 2, Move(1, 0))
  <2>1. call.to = 0 /\ call.from = 1
    BY <1>8 DEF Making, Move
  <2>2. /\ layer'[1] = layer[1]
        /\ layer'[0] = {i \in layer[1] : i.part \notin Lower} \union
                       {i \in layer[0] : i.part \in Lower}
    BY <2>1 DEF RA8875_bte_move, IInv, TypeOK
  <2>3. layer[0] = {}
    BY <1>8 DEF IInv, Shown, After, Making, Laid
  <2>4. Upper(1) = Prerendered
    BY <1>8 DEF IInv, Making
  <2>5. layer'[0] = Prerendered /\ Upper(1)' = Prerendered
    BY <2>2, <2>3, <2>4 DEF Upper
  <2>6. Shown' = Prerendered
    BY <1>1, <1>8 DEF Shown, After, Making, Laid
  <2> QED
    BY <1>1, <1>4, <1>5, <1>6, <1>8, <2>5, <2>6 DEF IInv, Making
<1> QED
  BY <1>2, <1>7, <1>8 DEF Moves

(* With the last call of its script, a screen is complete                  *)
(* (display.c:189-417).                                                    *)
LEMMA Complete ==
  ASSUME IInv, Done, job # "init"
  PROVE  job \in Screen /\ Shown = Picture(job)
<1>1. job # "none" /\ job \in Screen /\ Len(Script[job]) \in 1 .. 16
  <2>1. job # "none" /\ job \in Screen
    BY DEF IInv, TypeOK, Done
  <2> QED
    BY <2>1, Lengths, Zenon
<1>2. pos = Len(Script[job]) + 1
  <2>1. PICK n \in 1 .. 16 : n = Len(Script[job])
    BY <1>1
  <2>2. pos > n /\ pos <= n + 1 /\ pos \in 1 .. 17
    BY <1>1, <2>1 DEF Done, IInv, TypeOK, InScript
  <2> QED
    BY <2>1, <2>2
<1>3. CASE job \in Laid
  <2>1. pos = 10
    <3>1. Len(Script[job]) = 9
      BY <1>3, MainCalls, Zenon
    <3> QED
      BY <1>2, <3>1
  <2>2. Shown = {Item("box", job, "red", 0)} \union {Item("borders", job, "white", 0)} \union
                {Item("labels", job, "white", 0)} \union {Item("values", job, "white", 3)}
    BY <1>3, <2>1 DEF Shown, After, Laid
  <2>3. Picture(job) = {Item("borders", job, "white", 0), Item("values", job, "white", 3)} \union
                       {Item("box", job, "red", 0), Item("labels", job, "white", 0)}
    BY <1>3 DEF Picture, Laid
  <2> QED
    BY <1>1, <2>2, <2>3
<1>4. CASE job = "DEBUG_NO_RTD"
  BY <1>1, <1>2, <1>4, DebugCalls DEF Shown, After, Picture, Laid
<1>5. CASE job = "DEBUG_RTD"
  BY <1>1, <1>2, <1>5, DriveCalls DEF Shown, After, Picture, Laid
<1>6. CASE job = "WARN"
  BY <1>1, <1>2, <1>6, WarnCalls DEF Shown, After, Picture, Laid
<1> QED
  BY <1>1, <1>3, <1>4, <1>5, <1>6 DEF Screen, Laid

(* Whatever the chip shows at power on, the program is loaded               *)
(* (display.c:75-79).                                                      *)
LEMMA InitIInv == Init => IInv
<1> SUFFICES ASSUME Init PROVE IInv
  OBVIOUS
<1>1. TypeOK
  <2>1. \A p \in {"noise", "lowerNoise"} :
          Noise(p) \in [part : Part, of : Screen, ink : Colour, size : Size]
    BY DEF Noise, Item, Part, Lower, Screen, Colour, Size
  <2>2. layer \in [{0, 1} -> SUBSET [part : Part, of : Screen, ink : Colour, size : Size]]
    BY <2>1 DEF Init
  <2>3. inGraphicMode \in BOOLEAN /\ glyphsReady \in BOOLEAN
    BY DEF Init
  <2>4. /\ CURRENT_SCREEN \in Screen /\ currentFont \in Font
        /\ job \in Screen \union {"init", "none"} /\ mode \in {"graphic", "text"}
    BY DEF Init, Screen, Font
  <2>5. pos \in 1 .. 17 /\ ink \in Colour /\ size \in Size
    BY DEF Init, Size
  <2> QED
    BY <2>2, <2>3, <2>4, <2>5, Zenon DEF TypeOK
<1>2. InScript
  BY InitCalls DEF Init, InScript
<1>3. Booted /\ Pen
  BY DEF Init, Booted, Pen, Comic, Plain, Laid
<1> QED
  BY <1>1, <1>2, <1>3 DEF Init, IInv

(* A switch begins a script, and its end is a new CURRENT_SCREEN           *)
(* (display.c:502-527).                                                    *)
LEMMA SwitchStep ==
  ASSUME IInv,
         FirstScreen \/ EndSwitch \/ \E s \in Screen : job = "none" /\ Display_SwitchScreen(s)
  PROVE  IInv'
<1> USE DEF IInv, statics, chip, Display_SwitchScreen
<1>a. UNCHANGED <<inGraphicMode, currentFont, glyphsReady, mode, ink, size, layer>>
  BY DEF FirstScreen, EndSwitch
<1>b. Upper(1)' = Upper(1)
  BY <1>a DEF Upper
<1>1. ASSUME NEW s \in Screen, job' = s, pos' = 1, UNCHANGED CURRENT_SCREEN,
             Booted', Upper(1) = Prerendered
      PROVE  IInv'
  <2>1. TypeOK'
    BY <1>a, <1>1 DEF TypeOK
  <2>2. Pen'
    BY <1>1 DEF Pen, Comic, Plain, Screen, Laid
  <2>3. job' # "none"
    BY <1>1 DEF Screen
  <2>4. InScript'
    <3>1. Len(Script[s]) \in 1 .. 16
      BY Lengths, Zenon
    <3> QED
      BY <1>1, <2>3, <3>1 DEF InScript
  <2> QED
    BY <1>1, <1>b, <2>1, <2>2, <2>3, <2>4
<1>2. CASE FirstScreen
  <2>1. pos = 17
    BY <1>2, InitCalls DEF FirstScreen, Done, InScript, TypeOK
  <2> QED
    BY <1>a, <1>1, <1>2, <2>1 DEF FirstScreen, Booted, Screen
<1>3. CASE \E s \in Screen : job = "none" /\ Display_SwitchScreen(s)
  BY <1>a, <1>1, <1>3 DEF Booted
<1>4. CASE EndSwitch
  <2>1. job \in Screen /\ Shown = Picture(job)
    BY <1>4, Complete DEF EndSwitch
  <2>2. /\ CURRENT_SCREEN' = job /\ job' = "none" /\ pos' = 1
        /\ job # "none" /\ job # "init" /\ pos > Len(Script[job])
    BY <1>4 DEF EndSwitch, Done
  <2>3. pos > 1
    <3>1. PICK n \in 1 .. 16 : n = Len(Script[job])
      BY <2>1, Lengths, Zenon
    <3>2. pos > n
      BY <2>2, <3>1
    <3>3. pos \in 1 .. 17
      BY DEF TypeOK
    <3> HIDE DEF IInv
    <3> QED
      BY <3>2, <3>3
  <2>4. TypeOK'
    BY <1>a, <2>1, <2>2 DEF TypeOK
  <2>5. InScript' /\ Booted' /\ Pen'
    BY <1>a, <2>2 DEF InScript, Booted, Pen, Comic, Plain, Laid
  <2>6. layer'[0] = Picture(CURRENT_SCREEN')
    BY <1>a, <2>1, <2>2, <2>3
  <2> QED
    BY <1>b, <2>2, <2>4, <2>5, <2>6
<1> QED
  BY <1>2, <1>3, <1>4

(* A restart begins the script of Display_Init again, on whatever the chip *)
(* shows (display.c:20, 419).                                              *)
LEMMA RestartStep == ASSUME IInv, Restart PROVE IInv'
<1>1. TypeOK'
  <2>1. TypeOK /\ UNCHANGED <<mode, ink, size, layer>>
    BY DEF IInv, Restart, chip
  <2>2. inGraphicMode' \in BOOLEAN /\ glyphsReady' \in BOOLEAN
    BY DEF Restart
  <2>3. /\ CURRENT_SCREEN' \in Screen /\ currentFont' \in Font
        /\ job' \in Screen \union {"init", "none"}
    BY DEF Restart, Screen, Font
  <2>4. pos' \in 1 .. 17
    BY DEF Restart
  <2> QED
    BY <2>1, <2>2, <2>3, <2>4, Zenon DEF TypeOK
<1>2. InScript'
  BY InitCalls DEF Restart, InScript
<1>3. Booted' /\ Pen'
  BY DEF Restart, Booted, Pen, Comic, Plain, Laid
<1> QED
  BY <1>1, <1>2, <1>3 DEF Restart, IInv

(* Every call, switch and restart keeps the invariant (display.c:75-527).  *)
LEMMA IInvStep == IInv /\ [Next]_vars => IInv'
<1> SUFFICES ASSUME IInv, [Next]_vars PROVE IInv'
  OBVIOUS
<1>1. CASE UNCHANGED vars
  <2>1. UNCHANGED <<CURRENT_SCREEN, inGraphicMode, currentFont, glyphsReady, job, pos,
                    mode, ink, size, layer>>
    BY <1>1 DEF vars, statics, chip
  <2>2. /\ TypeOK' = TypeOK /\ InScript' = InScript /\ Booted' = Booted /\ Pen' = Pen
        /\ Shown' = Shown /\ Upper(1)' = Upper(1)
    BY <2>1 DEF TypeOK, InScript, Booted, Pen, Comic, Plain, Shown, After, Upper
  <2> QED
    BY <2>1, <2>2 DEF IInv
<1> QED
  BY <1>1, ClearStep, SettingStep, PaintStep, CopyStep, SwitchStep, RestartStep
     DEF Next, Drawn

(* The invariant holds from power on, whatever is drawn and whenever the   *)
(* ESP32 restarts (display.c:75-527).                                      *)
LEMMA Invariance == Spec => []IInv
  BY InitIInv, IInvStep, PTL DEF Spec

-----------------------------------------------------------------------------

(* Statics and registers keep to the values of display.c.                  *)
THEOREM TypeCorrect == Spec => []TypeOK
<1>1. IInv => TypeOK
  BY DEF IInv
<1> QED
  BY <1>1, Invariance, PTL

(* A screen that is up looks as it should, after every history of screens, *)
(* fonts and restarts (display.c:145-150, 189-417).                        *)
THEOREM ScreensRight == Spec => []PictureRight
<1>1. IInv => PictureRight
  BY DEF IInv, PictureRight
<1> QED
  BY <1>1, Invariance, PTL

(* Nor does anything wrong show while it is drawn (display.c:189-417).     *)
THEOREM NothingWrongShows == Spec => []DrawingRight
<1>1. ASSUME IInv PROVE DrawingRight
  <2> SUFFICES ASSUME job # "none", pos > 1
               PROVE  Shown \subseteq IF job = "init" THEN Prerendered \union Loading
                                                     ELSE Picture(job)
    BY <1>1 DEF IInv, DrawingRight
  <2>1. job = "init" \/ job \in Laid \union {"DEBUG_NO_RTD", "DEBUG_RTD", "WARN"}
    BY <1>1 DEF IInv, TypeOK, Screen, Laid
  <2>2. \A k, i : After(k, i) \subseteq {i}
    BY DEF After
  <2>3. CASE job = "init"
    BY <2>2, <2>3 DEF Shown, Laid, Prerendered, Loading
  <2>4. CASE job \in Laid
    BY <2>2, <2>4 DEF Shown, Laid, Picture
  <2>5. CASE job \in {"DEBUG_NO_RTD", "DEBUG_RTD"}
    BY <2>2, <2>5 DEF Shown, Laid, Picture
  <2>6. CASE job = "WARN"
    BY <2>2, <2>6 DEF Shown, Laid, Picture
  <2> QED
    BY <2>1, <2>3, <2>4, <2>5, <2>6
<1> QED
  BY <1>1, Invariance, PTL

(* The labels of the RTD debug screen stay off screen once the wheel has   *)
(* booted (display.c:369, 376).                                            *)
THEOREM LabelsWait == Spec => []OffscreenKept
<1>1. IInv => OffscreenKept
  BY DEF IInv, OffscreenKept, Upper
<1> QED
  BY <1>1, Invariance, PTL

================================================================================

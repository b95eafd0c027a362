----------------------------- MODULE GlyphProofs ------------------------------
(***************************************************************************)
(* Proofs about module Glyphs, for glyphs of every size and shape, and     *)
(* about module Text, for texts and numbers of every length.               *)
(***************************************************************************)
EXTENDS Text, SequenceTheorems, TLAPS

(* The cells whose turn has passed.                                        *)
Passed(cell) ==
  \/ blit = "off"
  \/ cell[2] < col
  \/ cell[2] = col /\ cell[1] < (IF blit = "run" THEN start_row ELSE row)

(* The run under way, and the blank before it.                             *)
RunRight ==
  /\ blit # "off" => col < WIDTH
  /\ blit = "run" => /\ start_row < row \/ (start_row = row /\ HasPixel)
                     /\ \A r \in start_row .. row - 1 : <<r, col>> \in buf
                     /\ <<start_row - 1, col>> \notin buf
  /\ blit = "scan" => <<row, col>> \notin buf \/ <<row - 1, col>> \notin buf

(* What is drawn so far is what has passed.                                *)
Kept       == before \subseteq lit
NoneAdded  == \A p \in lit \ before : CellOf(p, at) \in buf
PassedLit  == \A cell \in buf : Passed(cell) => Square(cell, at) \subseteq lit

IInv == GlyphTypeOK /\ RunRight /\ Kept /\ NoneAdded /\ PassedLit

-----------------------------------------------------------------------------

USE GlyphAssumption

(* Nothing is drawn of no glyph.                                           *)
LEMMA InitIInv == BlitInit => IInv
  BY DEF BlitInit, IInv, GlyphTypeOK, Point, RunRight, Kept, NoneAdded, PassedLit

(* The rectangle of display.c:175-177 covers the squares of its cells.     *)
LEMMA RunCovers ==
  ASSUME GlyphTypeOK, NEW last \in Int, NEW r \in start_row .. last
  PROVE  Square(<<r, col>>, at) \subseteq Run(last)
  BY DEF Square, Run, Rectangle, GLYPH_SCALE, GlyphTypeOK, Point

(* And no point of it belongs to another cell.                             *)
LEMMA RunWithin ==
  ASSUME GlyphTypeOK, NEW last \in Int, NEW p \in Run(last)
  PROVE  \E r \in start_row .. last : CellOf(p, at) = <<r, col>>
<1>1. /\ p[1] \in at[1] + col * 2 .. at[1] + col * 2 + 1
      /\ p[2] \in at[2] + start_row * 2 .. at[2] + last * 2 + 1
  BY DEF Run, Rectangle, GLYPH_SCALE, GlyphTypeOK, Point
<1>2. (p[1] - at[1]) \div 2 = col
  BY <1>1 DEF GlyphTypeOK, Point
<1>3. (p[2] - at[2]) \div 2 \in start_row .. last
  BY <1>1 DEF GlyphTypeOK, Point
<1> QED
  BY <1>2, <1>3 DEF CellOf, GLYPH_SCALE

(* A call starts over any picture (display.c:153-158).                     *)
LEMMA CallStep ==
  ASSUME IInv, NEW g \in SUBSET Cell, NEW x \in Int, NEW y \in Int,
         Display_BlitGlyph(g, x, y)
  PROVE  IInv'
<1> USE DEF IInv, Display_BlitGlyph
<1>1. GlyphTypeOK'
  BY DEF GlyphTypeOK, Point
<1>2. RunRight'
  BY DEF RunRight, Cell
<1>3. Kept' /\ NoneAdded'
  BY DEF Kept, NoneAdded
<1>4. PassedLit'
  BY DEF PassedLit, Passed, Cell
<1> QED
  BY <1>1, <1>2, <1>3, <1>4

(* The loops move on without drawing (display.c:163-173).                  *)
LEMMA LoopStep ==
  ASSUME IInv, SkipBlank \/ BeginRun \/ FollowRun \/ NextColumn PROVE IInv'
<1> USE DEF IInv
<1>1. UNCHANGED <<lit, buf, at, before>>
  BY DEF SkipBlank, BeginRun, FollowRun, NextColumn
<1>2. GlyphTypeOK'
  BY DEF GlyphTypeOK, SkipBlank, BeginRun, FollowRun, NextColumn, HasPixel, RunRight
<1>3. RunRight'
  BY DEF GlyphTypeOK, Cell, SkipBlank, BeginRun, FollowRun, NextColumn, HasPixel,
         RunRight
<1>4. Kept' /\ NoneAdded'
  BY <1>1 DEF Kept, NoneAdded
<1>5. ASSUME NEW cell \in buf, Passed(cell)' PROVE Passed(cell)
  BY <1>5 DEF Passed, GlyphTypeOK, Cell, SkipBlank, BeginRun, FollowRun, NextColumn,
              HasPixel, RunRight
<1>6. PassedLit'
  BY <1>1, <1>5 DEF PassedLit
<1> QED
  BY <1>2, <1>3, <1>4, <1>6

(* The end of a run draws its cells and nothing else.                      *)
LEMMA DrawStep == ASSUME IInv, EndRun PROVE IInv'
<1> USE DEF IInv
<1>1. /\ lit' = lit \union Run(row - 1) /\ blit = "run" /\ blit' = "scan"
      /\ UNCHANGED <<buf, at, loopVars, before>> /\ ~ HasPixel
  BY DEF EndRun
<1>2. /\ start_row < row /\ \A r \in start_row .. row - 1 : <<r, col>> \in buf
      /\ <<row, col>> \notin buf
  BY <1>1 DEF RunRight, HasPixel, GlyphTypeOK, Cell
<1>3. Run(row - 1) \subseteq Point
  BY DEF Run, Rectangle, GLYPH_SCALE, GlyphTypeOK, Point
<1>4. GlyphTypeOK'
  BY <1>1, <1>3 DEF GlyphTypeOK, loopVars
<1>5. RunRight'
  BY <1>1, <1>2 DEF RunRight, loopVars
<1>6. Kept'
  BY <1>1 DEF Kept
<1>7. \A p \in Run(row - 1) : CellOf(p, at) \in buf
  BY <1>2, RunWithin DEF GlyphTypeOK
<1>8. NoneAdded'
  BY <1>1, <1>7 DEF NoneAdded
<1>9. ASSUME NEW cell \in buf, Passed(cell)' PROVE Square(cell, at) \subseteq lit'
  <2>1. CASE Passed(cell)
    BY <1>1, <2>1 DEF PassedLit
  <2>2. CASE ~ Passed(cell)
    <3>1. cell = <<cell[1], col>> /\ cell[1] \in start_row .. row - 1
      BY <1>1, <1>9, <2>2 DEF Passed, GlyphTypeOK, Cell, loopVars
    <3> QED
      BY <1>1, <3>1, RunCovers DEF GlyphTypeOK
  <2> QED
    BY <2>1, <2>2
<1>10. PassedLit'
  BY <1>1, <1>9 DEF PassedLit
<1> QED
  BY <1>4, <1>5, <1>6, <1>8, <1>10

(* Every step of the loops, every call, and the clearing between calls.    *)
LEMMA IInvStep == IInv /\ [BlitNext]_glyphVars => IInv'
<1> SUFFICES ASSUME IInv, [BlitNext]_glyphVars PROVE IInv'
  OBVIOUS
<1>1. CASE ClearPanel
  BY <1>1 DEF ClearPanel, IInv, GlyphTypeOK, Point, RunRight, Kept, NoneAdded, PassedLit
<1>2. CASE UNCHANGED glyphVars
  BY <1>2 DEF glyphVars, loopVars, IInv, GlyphTypeOK, RunRight, HasPixel, Kept,
              NoneAdded, PassedLit, Passed
<1>3. ASSUME NEW g \in SUBSET Cell, NEW p \in Point, Display_BlitGlyph(g, p[1], p[2])
      PROVE  IInv'
  BY <1>3, CallStep DEF Point
<1> QED
  BY <1>1, <1>2, <1>3, LoopStep, DrawStep DEF BlitNext, BlitStep

(* The invariant holds at every row of every glyph.                        *)
LEMMA Invariance == BlitSpec => []IInv
  BY InitIInv, IInvStep, PTL DEF BlitSpec

-----------------------------------------------------------------------------

(* The loops stay within the glyph (display.c:158-173).                    *)
THEOREM TypeCorrect == BlitSpec => []GlyphTypeOK
<1>1. IInv => GlyphTypeOK
  BY DEF IInv
<1> QED
  BY <1>1, Invariance, PTL

(* Every glyph, whatever its size and shape, is drawn exactly              *)
(* (display.c:152-180).                                                    *)
THEOREM DrawnRight == BlitSpec => []GlyphDrawn
<1>1. IInv => GlyphDrawn
  BY DEF IInv, GlyphDrawn, Kept, NoneAdded, PassedLit, Passed
<1> QED
  BY <1>1, Invariance, PTL

(* Every rectangle is a run of its column, whole (display.c:169-177).      *)
THEOREM RunsWhole == BlitSpec => SpansWhole
<1> DEFINE Whole == EndRun => /\ <<row, col>> \notin buf
                              /\ <<start_row - 1, col>> \notin buf
                              /\ \A r \in start_row .. row - 1 : <<r, col>> \in buf
<1>1. IInv /\ [BlitNext]_glyphVars => [Whole]_glyphVars
  BY DEF IInv, EndRun, RunRight, HasPixel, GlyphTypeOK, Cell
<1> QED
  BY <1>1, Invariance, PTL DEF BlitSpec, SpansWhole

-----------------------------------------------------------------------------
(* Texts and numbers.                                                      *)

Char == Letter \union {"-", ".", "9"}

(* What has been taken from the text.                                      *)
Taken == Len(given.text) - Len(msg)

(* Letters have bitmaps as in the font.                                    *)
FontRight ==
  /\ DOMAIN glyphs \subseteq Letter
  /\ \A ch \in DOMAIN glyphs : glyphs[ch] \in [0 .. HEIGHT - 1 -> 0 .. 2 ^ WIDTH - 1]

(* What is still to be written is the rest of what was given.              *)
RestInv ==
  /\ msg \in Seq(Char) /\ given.text \in Seq(Char)
  /\ Len(msg) <= Len(given.text)
  /\ \A k \in 1 .. Len(msg) : msg[k] = given.text[Taken + k]

(* The letter under way, on top of what was there before.                  *)
Area == before \union { p \in Point : CellOf(p, at) \in buf }

(* The letters taken so far stand in a row, the cursor behind them.        *)
LettersInv ==
  IF pc = "comic sans"
    THEN \E start \in [1 .. Taken + 1 -> 0 .. cursorX] :
           /\ given.x \in Nat /\ InARow(start) /\ start[Taken + 1] = cursorX
           /\ Area = Letters(start, Taken)
    ELSE before = {} /\ buf = {}

(* The chip has had the rest of the number, which the buffer holds.        *)
NumberInv ==
  /\ pc = "idle" => sent = NoText
  /\ pc = "internal" =>
       /\ sent \in Seq(Char) /\ sent \o msg = given.text
       /\ (~ given.number.whole \/ given.number.many) /\ given.number.digits <= 3
            => given.text = Format(given.number, IF given.number.many THEN 5 ELSE 2)

TextInv ==
  /\ IInv
  /\ pc \in {"idle", "internal", "comic sans"}
  /\ cursorX \in Nat
  /\ FontRight
  /\ RestInv
  /\ NumberInv

(* A text is written with the loops of Display_BlitGlyph, and the panel is *)
(* cleared between texts (display.c:463-484).                              *)
LEMMA TextBlitStep == TextInv /\ [Next]_vars => [BlitNext]_glyphVars
<1> SUFFICES ASSUME TextInv, [Next]_vars PROVE [BlitNext]_glyphVars
  OBVIOUS
<1>1. CASE WriteLetter
  <2>1. <<cursorX, 0>> \in Point
    <3>1. cursorX \in Nat
      BY DEF TextInv
    <3> QED
      BY <3>1 DEF Point
  <2>2. ASSUME Head(msg) \in DOMAIN glyphs PROVE glyph_cache[Head(msg)] \in SUBSET Cell
    BY <2>2 DEF glyph_cache, Display_PrecomputeGlyphs
  <2>3. CASE Head(msg) \in DOMAIN glyphs
    <3>1. Display_BlitGlyph(glyph_cache[Head(msg)], <<cursorX, 0>>[1], <<cursorX, 0>>[2])
      BY <1>1, <2>3 DEF WriteLetter
    <3> QED
      BY <2>1, <2>2, <2>3, <3>1, Zenon DEF BlitNext
  <2>4. CASE Head(msg) \notin DOMAIN glyphs
    BY <1>1, <2>4 DEF WriteLetter
  <2> QED
    BY <2>3, <2>4
<1>2. CASE Return
  BY <1>2 DEF Return, BlitNext
<1>3. CASE UNCHANGED glyphVars \/ BlitStep
  BY <1>3 DEF BlitNext
<1> QED
  BY <1>1, <1>2, <1>3 DEF Next, Display_WriteNumberAt, Display_WriteTextAt,
                          RA8875_write_data, vars

-----------------------------------------------------------------------------
(* Letters.                                                                *)

(* The two ways to read the bits of a row agree (display.c:128-133).       *)
SameBits ==
  \A byte \in 0 .. 2 ^ WIDTH - 1, c \in 0 .. WIDTH - 1 :
    Pixel(byte, c) <=> Leftmost(byte, c)

(* They do in the rows of the font, which are bytes (display.c:128-133).   *)
LEMMA BytesRead == WIDTH = 8 => SameBits
<1> SUFFICES ASSUME WIDTH = 8, NEW byte \in 0 .. 2 ^ WIDTH - 1, NEW c \in 0 .. WIDTH - 1
             PROVE  Pixel(byte, c) <=> Leftmost(byte, c)
  BY DEF SameBits
<1>1. /\ 2 ^ 0 = 1 /\ 2 ^ 1 = 2 /\ 2 ^ 2 = 4 /\ 2 ^ 3 = 8 /\ 2 ^ 4 = 16
      /\ 2 ^ 5 = 32 /\ 2 ^ 6 = 64 /\ 2 ^ 7 = 128 /\ 2 ^ 8 = 256
  OBVIOUS
<1>2. byte \in 0 .. 255 /\ c \in 0 .. 7
  BY <1>1
<1>3. CASE c = 0
  BY <1>1, <1>2, <1>3 DEF Pixel, Leftmost
<1>4. CASE c = 1
  BY <1>1, <1>2, <1>4 DEF Pixel, Leftmost
<1>5. CASE c = 2
  BY <1>1, <1>2, <1>5 DEF Pixel, Leftmost
<1>6. CASE c = 3
  BY <1>1, <1>2, <1>6 DEF Pixel, Leftmost
<1>7. CASE c = 4
  BY <1>1, <1>2, <1>7 DEF Pixel, Leftmost
<1>8. CASE c = 5
  BY <1>1, <1>2, <1>8 DEF Pixel, Leftmost
<1>9. CASE c = 6
  BY <1>1, <1>2, <1>9 DEF Pixel, Leftmost
<1>10. CASE c = 7
  BY <1>1, <1>2, <1>10 DEF Pixel, Leftmost
<1> QED
  BY <1>2, <1>3, <1>4, <1>5, <1>6, <1>7, <1>8, <1>9, <1>10

(* When Display_BlitGlyph has returned, its letter is drawn whole          *)
(* (display.c:152-180).                                                    *)
LEMMA AreaLit == IInv /\ blit = "off" => lit = Area
<1> SUFFICES ASSUME IInv, blit = "off" PROVE lit = Area
  OBVIOUS
<1>1. /\ before \subseteq lit
      /\ \A p \in lit \ before : CellOf(p, at) \in buf
      /\ \A cell \in buf : Square(cell, at) \subseteq lit
      /\ lit \subseteq Point /\ at \in Point
  BY DEF IInv, Kept, NoneAdded, PassedLit, Passed, GlyphTypeOK
<1>2. ASSUME NEW p \in Point PROVE p \in Square(CellOf(p, at), at)
  BY <1>1 DEF Point, Square, Rectangle, CellOf, GLYPH_SCALE
<1> QED
  BY <1>1, <1>2 DEF Area

(* The cells of a letter, enlarged, are its points (display.c:122-135,     *)
(* 158-179).                                                               *)
LEMMA CellsArePoints ==
  ASSUME SameBits, FontRight, NEW ch \in DOMAIN glyphs, NEW x \in Int
  PROVE  { p \in Point : CellOf(p, <<x, 0>>) \in glyph_cache[ch] } = Points(ch, x)
<1> DEFINE b == glyphs[ch]
           D == (0 .. 2 * WIDTH - 1) \X (0 .. 2 * HEIGHT - 1)
           InCell(r, c) == <<r, c>> \in Cell /\ Pixel(b[r], c)
<1>1. b \in [0 .. HEIGHT - 1 -> 0 .. 2 ^ WIDTH - 1]
  BY DEF FontRight
<1>2. ASSUME NEW r, NEW c PROVE <<r, c>> \in glyph_cache[ch] <=> InCell(r, c)
  BY DEF glyph_cache, Display_PrecomputeGlyphs
<1>3. ASSUME NEW r \in 0 .. HEIGHT - 1, NEW c \in 0 .. WIDTH - 1
      PROVE  Pixel(b[r], c) <=> Leftmost(b[r], c)
  BY <1>1, <1>3 DEF SameBits
<1>4. ASSUME NEW p \in Point, CellOf(p, <<x, 0>>) \in glyph_cache[ch]
      PROVE  p \in Points(ch, x)
  <2> DEFINE d == <<p[1] - x, p[2]>>
  <2>1. /\ d[2] \div 2 \in 0 .. HEIGHT - 1 /\ d[1] \div 2 \in 0 .. WIDTH - 1
        /\ Pixel(b[d[2] \div 2], d[1] \div 2)
    BY <1>2, <1>4 DEF CellOf, GLYPH_SCALE, Cell, Point
  <2>2. d \in D
    BY <2>1 DEF Point
  <2>3. Leftmost(b[d[2] \div 2], d[1] \div 2)
    BY <1>3, <2>1
  <2>4. p = <<x + d[1], d[2]>>
    BY DEF Point
  <2> QED
    BY <2>2, <2>3, <2>4 DEF Points
<1>5. ASSUME NEW d \in D, Leftmost(b[d[2] \div 2], d[1] \div 2)
      PROVE  /\ <<x + d[1], d[2]>> \in Point
             /\ CellOf(<<x + d[1], d[2]>>, <<x, 0>>) \in glyph_cache[ch]
  <2>1. d[2] \div 2 \in 0 .. HEIGHT - 1 /\ d[1] \div 2 \in 0 .. WIDTH - 1
    OBVIOUS
  <2>2. Pixel(b[d[2] \div 2], d[1] \div 2)
    BY <1>3, <1>5, <2>1
  <2>3. CellOf(<<x + d[1], d[2]>>, <<x, 0>>) = <<d[2] \div 2, d[1] \div 2>>
    BY DEF CellOf, GLYPH_SCALE
  <2> QED
    BY <1>2, <2>1, <2>2, <2>3 DEF Cell, Point
<1> QED
  BY <1>4, <1>5 DEF Points

-----------------------------------------------------------------------------
(* Every step keeps what has been taken, what is lit and what the chip has *)
(* had in order.                                                           *)

(* Nothing is being written at first (display.c:78).                       *)
LEMMA InitTextInv == Init => TextInv /\ LettersInv
<1> SUFFICES ASSUME Init PROVE TextInv /\ LettersInv
  OBVIOUS
<1>1. IInv
  BY InitIInv DEF Init
<1>2. FontRight
  <2>1. PICK b \in Bitmaps, present \in SUBSET Letter : glyphs = [ch \in present |-> b[ch]]
    BY DEF Init
  <2>2. b \in [Letter -> [0 .. HEIGHT - 1 -> 0 .. 2 ^ WIDTH - 1]]
    BY TextAssumption
  <2> QED
    BY <2>1, <2>2 DEF FontRight
<1>3. pc = "idle" /\ msg = <<>> /\ given.text = <<>> /\ cursorX = 0 /\ sent = NoText
      /\ before = {} /\ buf = {}
  BY DEF Init, BlitInit, NoText
<1> QED
  BY <1>1, <1>2, <1>3 DEF TextInv, RestInv, LettersInv, NumberInv, Taken

(* What is taken from a text is its next character (display.c:466-483).    *)
LEMMA Take ==
  ASSUME RestInv, msg # NoText, msg' = Tail(msg), given' = given
  PROVE  /\ RestInv' /\ Taken \in Nat /\ Taken' = Taken + 1
         /\ Taken + 1 \in 1 .. Len(given.text)
         /\ Head(msg) = given.text[Taken + 1]
<1> USE DEF RestInv, Taken, NoText
<1>1. /\ Len(msg) \in Nat \ {0} /\ Len(given.text) \in Nat
      /\ Tail(msg) \in Seq(Char) /\ Len(Tail(msg)) = Len(msg) - 1
      /\ \A k \in 1 .. Len(msg) - 1 : Tail(msg)[k] = msg[k + 1]
      /\ Head(msg) = msg[1]
  OBVIOUS
<1>2. Taken \in Nat /\ Taken' = Taken + 1 /\ Taken + 1 \in 1 .. Len(given.text)
  BY <1>1
<1>3. Head(msg) = given.text[Taken + 1]
  BY <1>1
<1> HIDE DEF Taken
<1>4. ASSUME NEW k \in 1 .. Len(msg') PROVE msg'[k] = given'.text[Taken' + k]
  <2>1. k \in Nat /\ k + 1 \in 1 .. Len(msg) /\ msg'[k] = msg[k + 1]
    BY <1>1
  <2>2. msg[k + 1] = given.text[Taken + (k + 1)]
    BY <2>1
  <2>3. Taken' + k = Taken + (k + 1)
    BY <1>2, <2>1
  <2> QED
    BY <2>1, <2>2, <2>3
<1> QED
  BY <1>1, <1>2, <1>3, <1>4

(* The next letter, if it has a glyph, is drawn at the cursor, which moves *)
(* on by its width (display.c:475-483).                                    *)
LEMMA LetterStep ==
  ASSUME SameBits, TextInv, LettersInv, WriteLetter PROVE LettersInv'
<1>0. /\ IInv /\ cursorX \in Nat /\ FontRight /\ RestInv
      /\ pc = "comic sans" /\ blit = "off" /\ msg # NoText /\ msg' = Tail(msg)
      /\ UNCHANGED <<glyphs, pc, sent, given>>
  BY DEF TextInv, WriteLetter
<1>t. cursorX \in Nat
  BY DEF TextInv
<1> DEFINE n  == Taken + 1
           ch == given.text[n]
<1>2. /\ RestInv' /\ n \in Nat \ {0} /\ Taken = n - 1 /\ Taken' = n /\ Head(msg) = ch
  <2>1. /\ RestInv' /\ Taken \in Nat /\ Taken' = Taken + 1
        /\ Head(msg) = given.text[Taken + 1]
    BY <1>0, Take
  <2> QED
    BY <2>1
<1> HIDE DEF n, ch
<1>3. /\ Room(ch) \in Nat /\ cursorX' = cursorX + Room(ch)
      /\ cursorX \in Int /\ cursorX' \in Nat /\ cursorX <= cursorX'
  <2>1. CASE ch \in DOMAIN glyphs
    <3>1. Advance[ch] \in Nat /\ Room(ch) = Advance[ch]
      BY <1>0, <2>1, TextAssumption DEF Room, FontRight
    <3>2. cursorX' = cursorX + Advance[ch]
      BY <1>2, <2>1 DEF WriteLetter
    <3> QED
      BY <1>t, <3>1, <3>2
  <2>2. CASE ch \notin DOMAIN glyphs
    <3>1. Room(ch) = 0 /\ cursorX' = cursorX
      BY <1>2, <2>2 DEF WriteLetter, Room
    <3> QED
      BY <1>t, <3>1
  <2> QED
    BY <2>1, <2>2
<1>4. \A p : p \in Area' <=> p \in Area \/ (ch \in DOMAIN glyphs /\ p \in Points(ch, cursorX))
  <2>1. CASE ch \in DOMAIN glyphs
    <3>1. before' = lit /\ at' = <<cursorX, 0>> /\ buf' = glyph_cache[ch]
      BY <1>2, <2>1 DEF WriteLetter, Display_BlitGlyph
    <3>2. lit = Area
      BY <1>0, AreaLit
    <3>3. { p \in Point : CellOf(p, <<cursorX, 0>>) \in glyph_cache[ch] } = Points(ch, cursorX)
      BY <1>0, <1>3, <2>1, CellsArePoints, Zenon
    <3>4. Area' = lit \union Points(ch, cursorX)
      BY <3>1, <3>3, Zenon DEF Area, Point, CellOf
    <3> QED
      BY <2>1, <3>2, <3>4
  <2>2. CASE ch \notin DOMAIN glyphs
    BY <1>2, <2>2 DEF WriteLetter, Area, glyphVars
  <2> QED
    BY <2>1, <2>2
<1>5. LettersInv'
  <2>0. PICK k \in Nat \ {0} : Taken = k - 1 /\ Taken' = k /\ ch = given.text[k]
    BY <1>2 DEF ch, n
  <2>1. PICK start \in [1 .. k -> 0 .. cursorX] :
          /\ given.x \in Nat /\ InARow(start) /\ start[k] = cursorX
          /\ Area = Letters(start, k - 1)
    <3>1. Taken + 1 = k /\ Taken = k - 1
      BY <2>0
    <3>2. \E start \in [1 .. Taken + 1 -> 0 .. cursorX] :
            /\ given.x \in Nat /\ InARow(start) /\ start[Taken + 1] = cursorX
            /\ Area = Letters(start, Taken)
      BY <1>0 DEF LettersInv
    <3> QED
      BY <3>1, <3>2, Zenon
  <2>a. PICK next : next = [i \in 1 .. k + 1 |-> IF i = k + 1 THEN cursorX' ELSE start[i]]
    OBVIOUS
  <2>2. /\ next[k + 1] = cursorX' /\ DOMAIN next = 1 .. k + 1
        /\ \A i \in 1 .. k : next[i] = start[i]
    BY <2>a
  <2>3. next \in [1 .. k + 1 -> 0 .. cursorX']
    BY <1>3, <2>0, <2>1, <2>a
  <2>4. InARow(next)
    <3> SUFFICES ASSUME NEW i \in 1 .. k + 1
                 PROVE  next[i] = IF i = 1 THEN given.x
                                  ELSE next[i - 1] + Room(given.text[i - 1])
      BY <2>2 DEF InARow
    <3>1. CASE i = k + 1
      <4>1. i # 1 /\ i - 1 = k /\ next[k] = cursorX
        BY <2>0, <2>1, <2>2, <3>1
      <4> QED
        BY <1>3, <2>0, <2>2, <3>1, <4>1
    <3>2. CASE i \in 1 .. k
      <4>1. i # 1 => i - 1 \in 1 .. k
        BY <2>0, <3>2
      <4> QED
        BY <2>1, <2>2, <3>2, <4>1 DEF InARow
    <3> QED
      BY <2>0, <3>1, <3>2
  <2>5. ASSUME NEW s, NEW m, NEW p
        PROVE  p \in Letters(s, m) <=> \E i \in 1 .. m : /\ given.text[i] \in DOMAIN glyphs
                                                         /\ p \in Points(given.text[i], s[i])
    BY Zenon DEF Letters
  <2>6. ASSUME NEW p PROVE p \in Area' <=> p \in Letters(next, k)
    <3>1. p \in Letters(next, k) <=>
            \/ \E i \in 1 .. k - 1 : /\ given.text[i] \in DOMAIN glyphs
                                     /\ p \in Points(given.text[i], next[i])
            \/ ch \in DOMAIN glyphs /\ p \in Points(ch, next[k])
      <4>1. \A i : i \in 1 .. k <=> i \in 1 .. k - 1 \/ i = k
        BY <2>0
      <4> QED
        BY <2>0, <2>5, <4>1, Zenon
    <3>2. (\A i \in 1 .. k - 1 : next[i] = start[i]) /\ next[k] = cursorX
      <4>1. k \in 1 .. k /\ \A i \in 1 .. k - 1 : i \in 1 .. k
        BY <2>0
      <4> QED
        BY <2>1, <2>2, <4>1
    <3>3. p \in Letters(next, k) <=>
            \/ p \in Letters(start, k - 1)
            \/ ch \in DOMAIN glyphs /\ p \in Points(ch, cursorX)
      BY <2>5, <3>1, <3>2, Zenon
    <3> QED
      BY <1>4, <2>1, <3>3
  <2>7. Area' = Letters(next, k)
    BY <2>6
  <2>k. glyphs' = glyphs /\ given' = given /\ pc' = "comic sans"
    BY <1>0
  <2>8. InARow(next)'
    BY <2>4, <2>k DEF InARow, Room
  <2>9. Area' = Letters(next, k)'
    <3>1. ASSUME NEW c, NEW x PROVE Points(c, x)' = Points(c, x)
      BY <2>k DEF Points, Leftmost
    <3>2. ASSUME NEW i \in 1 .. k
          PROVE  Points(given.text[i], next[i])' = Points(given.text[i], next[i])
      BY <2>k, <3>1
    <3>3. Letters(next, k)' = Letters(next, k)
      BY <2>k, <3>2, Zenon DEF Letters
    <3> QED
      BY <2>7, <3>3
  <2> QED
    BY <2>0, <2>1, <2>2, <2>3, <2>8, <2>9, <2>k DEF LettersInv
<1> QED
  BY <1>5

(* A number is its sign, its digits and its decimals (display.c:490-497).  *)
LEMMA FormatLength ==
  ASSUME NEW number, number.negative \in BOOLEAN, number.digits \in Nat, NEW decimals \in Nat
  PROVE  /\ Format(number, decimals) \in Seq(Char)
         /\ Len(Format(number, decimals)) =
              (IF number.negative THEN 1 ELSE 0) + number.digits
                + (IF decimals > 0 THEN 1 + decimals ELSE 0)
<1> DEFINE sign == IF number.negative THEN <<"-">> ELSE <<>>
           fraction == IF decimals > 0 THEN <<".">> \o Digits(decimals) ELSE <<>>
<1>1. ASSUME NEW k \in Nat PROVE Digits(k) \in Seq(Char) /\ Len(Digits(k)) = k
  <2>1. Digits(k) \in [1 .. k -> Char]
    BY DEF Digits, Char
  <2> QED
    BY <2>1
<1>2. sign \in Seq(Char) /\ Len(sign) = IF number.negative THEN 1 ELSE 0
  <2>1. <<"-">> \in Seq(Char) /\ Len(<<"-">>) = 1
    BY DEF Char
  <2>2. <<>> \in Seq(Char) /\ Len(<<>>) = 0
    OBVIOUS
  <2> QED
    BY <2>1, <2>2
<1>3. fraction \in Seq(Char) /\ Len(fraction) = IF decimals > 0 THEN 1 + decimals ELSE 0
  <2>1. <<".">> \in Seq(Char) /\ Len(<<".">>) = 1
    BY DEF Char
  <2>2. <<".">> \o Digits(decimals) \in Seq(Char)
        /\ Len(<<".">> \o Digits(decimals)) = 1 + decimals
    BY <1>1, <2>1, ConcatProperties
  <2> QED
    BY <2>2
<1>4. Format(number, decimals) = (sign \o Digits(number.digits)) \o fraction
  BY DEF Format
<1>5. Digits(number.digits) \in Seq(Char) /\ Len(Digits(number.digits)) = number.digits
  BY <1>1
<1> DEFINE front == sign \o Digits(number.digits)
<1> HIDE DEF sign, fraction
<1>6. front \in Seq(Char) /\ Len(front) = Len(sign) + Len(Digits(number.digits))
  BY <1>2, <1>5, ConcatProperties
<1> HIDE DEF front
<1>7. /\ front \o fraction \in Seq(Char)
      /\ Len(front \o fraction) = Len(front) + Len(fraction)
  BY <1>3, <1>6, ConcatProperties
<1>8. Format(number, decimals) = front \o fraction
  BY <1>4 DEF front
<1> QED
  BY <1>2, <1>3, <1>5, <1>6, <1>7, <1>8

(* What snprintf leaves are characters of the text; a text that fits is    *)
(* left whole (display.c:492-497).                                         *)
LEMMA Left ==
  ASSUME NEW text \in Seq(Char), NEW size \in {8, 11}
  PROVE  /\ snprintf(size, text) \in Seq(Char)
         /\ Len(text) < size => snprintf(size, text) = text
<1>1. CASE Len(text) < size
  BY <1>1 DEF snprintf
<1>2. CASE ~ (Len(text) < size)
  <2>1. \A i \in 1 .. size - 1 : text[i] \in Char
    BY <1>2
  <2>2. SubSeq(text, 1, size - 1) \in Seq(Char)
    BY <2>1, SubSeqProperties
  <2> QED
    BY <1>2, <2>2 DEF snprintf
<1> QED
  BY <1>1, <1>2

(* The buffer of a number with a point has room for a sign, three digits,  *)
(* the point and the decimals (display.c:490, 495).                        *)
LEMMA NumberStep ==
  ASSUME TextInv, NEW number \in Number, Display_WriteNumberAt(number) PROVE TextInv'
<1>1. PICK text \in Printed(number) :
        /\ msg' = snprintf(BufferSize(number), text)
        /\ given' = [text |-> msg', number |-> number]
  BY DEF Display_WriteNumberAt
<1>2. /\ pc = "idle" /\ pc' = "internal" /\ UNCHANGED <<glyphVars, glyphs, cursorX, sent>>
      /\ sent = <<>>
  BY DEF Display_WriteNumberAt, TextInv, NumberInv, NoText
<1>3. BufferSize(number) \in {8, 11}
  BY DEF BufferSize
<1>4. text \in Seq(Char)
  <2>1. CASE number.whole /\ ~ number.many
    <3>1. PICK int \in [negative : BOOLEAN, digits : 1 .. MAX_DIGITS] : text = Format(int, 0)
      BY <1>1, <2>1 DEF Printed
    <3> QED
      BY <3>1, FormatLength, TextAssumption
  <2>2. CASE ~ (number.whole /\ ~ number.many)
    <3>1. text = Format(number, IF number.many THEN 5 ELSE 2)
      BY <1>1, <2>2 DEF Printed
    <3> QED
      BY <3>1, FormatLength, TextAssumption DEF Number
  <2> QED
    BY <2>1, <2>2
<1>5. msg' \in Seq(Char)
  BY <1>1, <1>3, <1>4, Left
<1>6. ASSUME ~ number.whole \/ number.many, number.digits <= 3
      PROVE  msg' = Format(number, IF number.many THEN 5 ELSE 2)
  <2>1. text = Format(number, IF number.many THEN 5 ELSE 2)
    BY <1>1, <1>6 DEF Printed
  <2>2. Len(text) < BufferSize(number)
    <3>1. number.digits \in Nat /\ number.negative \in BOOLEAN /\ number.many \in BOOLEAN
      BY TextAssumption DEF Number
    <3>2. Len(text) = (IF number.negative THEN 1 ELSE 0) + number.digits
                        + (IF number.many THEN 6 ELSE 3)
      <4>1. CASE number.many
        BY <2>1, <3>1, <4>1, FormatLength
      <4>2. CASE ~ number.many
        BY <2>1, <3>1, <4>2, FormatLength
      <4> QED
        BY <4>1, <4>2
    <3> QED
      BY <1>6, <3>1, <3>2 DEF BufferSize
  <2> QED
    BY <1>1, <1>3, <1>4, <2>1, <2>2, Left
<1>7. NumberInv'
  <2>1. given'.text = msg' /\ given'.number = number /\ sent' = <<>> /\ pc' = "internal"
    BY <1>1, <1>2
  <2>2. <<>> \o msg' = msg'
    BY <1>5
  <2>3. <<>> \in Seq(Char)
    OBVIOUS
  <2> QED
    BY <1>6, <2>1, <2>2, <2>3 DEF NumberInv
<1>8. RestInv'
  BY <1>1, <1>5 DEF RestInv, Taken
<1>9. IInv' /\ FontRight' /\ cursorX' \in Nat
  BY <1>2, IInvStep DEF TextInv, FontRight
<1> QED
  BY <1>2, <1>7, <1>8, <1>9 DEF TextInv

(* Of a text that is new nothing has been taken (display.c:463-500).       *)
LEMMA Fresh ==
  ASSUME msg' \in Seq(Char), given'.text = msg' PROVE RestInv' /\ Taken' = 0
<1>1. Taken' = 0
  BY DEF Taken
<1>2. \A k \in 1 .. Len(msg') : msg'[k] = given'.text[0 + k]
  OBVIOUS
<1> QED
  BY <1>1, <1>2 DEF RestInv

(* Letters stay where they are while the text and the font do              *)
(* (display.c:475-483).                                                    *)
LEMMA LettersStay ==
  ASSUME UNCHANGED <<glyphs, given>>, NEW s, NEW m
  PROVE  Letters(s, m)' = Letters(s, m) /\ (InARow(s)' <=> InARow(s))
<1>1. ASSUME NEW c, NEW x PROVE Points(c, x)' = Points(c, x)
  BY DEF Points, Leftmost
<1>2. ASSUME NEW i \in 1 .. m
      PROVE  Points(given.text[i], s[i])' = Points(given.text[i], s[i])
  BY <1>1
<1>3. Letters(s, m)' = Letters(s, m)
  BY <1>2, Zenon DEF Letters
<1> QED
  BY <1>3 DEF InARow, Room

(* The chip is given the next character (display.c:469-471).               *)
LEMMA DataStep == ASSUME TextInv, RA8875_write_data PROVE TextInv'
<1>1. /\ pc = "internal" /\ pc' = "internal" /\ msg # NoText
      /\ sent' = Append(sent, Head(msg)) /\ msg' = Tail(msg)
      /\ UNCHANGED <<glyphVars, glyphs, cursorX, given>>
  BY DEF RA8875_write_data
<1>2. RestInv'
  BY <1>1, Take DEF TextInv
<1>3. msg \in Seq(Char) /\ msg # <<>> /\ sent \in Seq(Char) /\ sent \o msg = given.text
  BY <1>1 DEF TextInv, RestInv, NumberInv, NoText
<1>4. /\ Head(msg) \in Char /\ Tail(msg) \in Seq(Char) /\ <<Head(msg)>> \in Seq(Char)
      /\ <<Head(msg)>> \o Tail(msg) = msg
  BY <1>3
<1>5. sent' \in Seq(Char) /\ sent' = sent \o <<Head(msg)>>
  BY <1>1, <1>3, <1>4
<1>6. sent' \o msg' = sent \o msg
  <2>1. (sent \o <<Head(msg)>>) \o Tail(msg) = sent \o (<<Head(msg)>> \o Tail(msg))
    BY <1>3, <1>4, ConcatAssociative
  <2> QED
    BY <1>1, <1>4, <1>5, <2>1
<1>7. NumberInv'
  BY <1>1, <1>3, <1>5, <1>6 DEF TextInv, NumberInv
<1>8. IInv' /\ FontRight' /\ cursorX' \in Nat
  BY <1>1, IInvStep DEF TextInv, FontRight
<1> QED
  BY <1>1, <1>2, <1>7, <1>8 DEF TextInv

(* Every step of the functions that write keeps texts and numbers in order *)
(* (display.c:463-500).                                                    *)
LEMMA TextInvStep == TextInv /\ [Next]_vars => TextInv'
<1> SUFFICES ASSUME TextInv, [Next]_vars PROVE TextInv'
  OBVIOUS
<1>1. IInv'
  BY TextBlitStep, IInvStep DEF TextInv
<1>2. ASSUME NEW x \in {0, 5}, NEW text \in SeqOf(Letter, MAX_TEXT),
             Display_WriteTextAt(x, text)
      PROVE  TextInv'
  <2>1. /\ pc' = "comic sans" /\ msg' = text /\ cursorX' = x /\ given'.text = text
        /\ glyphs' = glyphs
    BY <1>2 DEF Display_WriteTextAt
  <2>2. text \in Seq(Char)
    <3>1. PICK m \in 0 .. MAX_TEXT : text \in [1 .. m -> Letter]
      BY DEF SeqOf
    <3>2. text \in [1 .. m -> Char]
      BY <3>1 DEF Char
    <3> QED
      BY <3>2, TextAssumption
  <2>3. RestInv'
    BY <2>1, <2>2, Fresh
  <2>4. FontRight'
    BY <2>1 DEF TextInv, FontRight
  <2>5. NumberInv'
    BY <2>1 DEF NumberInv
  <2>6. cursorX' \in Nat
    <3>1. x \in Nat
      OBVIOUS
    <3> QED
      BY <2>1, <3>1
  <2> QED
    BY <1>1, <2>1, <2>3, <2>4, <2>5, <2>6 DEF TextInv
<1>3. CASE WriteLetter
  <2>1. RestInv'
    BY <1>3, Take DEF TextInv, WriteLetter
  <2>2. pc' = "comic sans" /\ glyphs' = glyphs
    BY <1>3 DEF WriteLetter
  <2>3. cursorX' \in Nat
    <3>1. CASE Head(msg) \in DOMAIN glyphs
      <4>1. Advance[Head(msg)] \in Nat /\ cursorX \in Nat
        BY <3>1, TextAssumption DEF TextInv, FontRight
      <4>2. cursorX' = cursorX + Advance[Head(msg)]
        BY <1>3, <3>1 DEF WriteLetter
      <4> QED
        BY <4>1, <4>2
    <3>2. CASE Head(msg) \notin DOMAIN glyphs
      BY <1>3, <3>2 DEF WriteLetter, TextInv
    <3> QED
      BY <3>1, <3>2
  <2> QED
    BY <1>1, <2>1, <2>2, <2>3 DEF TextInv, FontRight, NumberInv
<1>4. CASE Return
  <2>1. /\ pc' = "idle" /\ sent' = NoText /\ cursorX' = 0 /\ given'.text = <<>>
        /\ msg' = <<>> /\ glyphs' = glyphs
    BY <1>4 DEF Return, NoText
  <2>2. RestInv'
    <3>1. <<>> \in Seq(Char)
      OBVIOUS
    <3> QED
      BY <2>1, <3>1, Fresh
  <2>3. FontRight' /\ NumberInv'
    BY <2>1 DEF TextInv, FontRight, NumberInv
  <2> QED
    BY <1>1, <2>1, <2>2, <2>3 DEF TextInv
<1>5. CASE UNCHANGED textVars
  BY <1>1, <1>5 DEF textVars, TextInv, FontRight, RestInv, Taken, NumberInv
<1> QED
  BY <1>2, <1>3, <1>4, <1>5, NumberStep, DataStep DEF Next, vars

(* Nothing but its own letters appears while a text is written             *)
(* (display.c:463-484).                                                    *)
LEMMA LettersInvStep ==
  SameBits /\ TextInv /\ LettersInv /\ [Next]_vars => LettersInv'
<1> SUFFICES ASSUME SameBits, TextInv, LettersInv, [Next]_vars PROVE LettersInv'
  OBVIOUS
<1>1. ASSUME NEW number \in Number, Display_WriteNumberAt(number) PROVE LettersInv'
  BY <1>1 DEF Display_WriteNumberAt, LettersInv, glyphVars
<1>2. ASSUME NEW x \in {0, 5}, NEW text, Display_WriteTextAt(x, text) PROVE LettersInv'
  <2>1. /\ pc = "idle" /\ pc' = "comic sans" /\ cursorX' = x /\ given'.x = x
        /\ msg' = text /\ given'.text = text /\ UNCHANGED <<before, buf>>
    BY <1>2 DEF Display_WriteTextAt, glyphVars
  <2>2. Taken' = 0
    <3>1. msg' \in Seq(Char)
      BY TextInvStep DEF TextInv, RestInv
    <3>2. Len(msg') \in Nat
      BY <3>1
    <3>3. Taken' = Len(msg') - Len(msg')
      BY <2>1 DEF Taken
    <3> QED
      BY <3>2, <3>3
  <2>3. x \in Nat
    OBVIOUS
  <2>4. PICK start : start = [i \in 1 .. 1 |-> x]
    OBVIOUS
  <2>5. DOMAIN start = 1 .. 1 /\ start[1] = x /\ start \in [1 .. 1 -> 0 .. x]
    BY <2>3, <2>4
  <2>6. InARow(start)'
    <3>1. \A i \in DOMAIN start : i = 1
      BY <2>5
    <3> QED
      BY <2>1, <2>5, <3>1 DEF InARow
  <2>7. Area' = {}
    <3>1. before = {} /\ buf = {}
      BY <2>1 DEF LettersInv
    <3>2. before' = {} /\ buf' = {}
      BY <2>1, <3>1
    <3> QED
      BY <3>2 DEF Area
  <2>8. Letters(start, 0)' = {}
    <3>1. 1 .. 0 = {}
      OBVIOUS
    <3> QED
      BY <3>1, Zenon DEF Letters
  <2>9. 0 + 1 = 1
    OBVIOUS
  <2> QED
    BY <2>1, <2>2, <2>3, <2>5, <2>6, <2>7, <2>8, <2>9 DEF LettersInv
<1>3. CASE RA8875_write_data
  BY <1>3 DEF RA8875_write_data, LettersInv, glyphVars
<1>4. CASE Return
  BY <1>4 DEF Return, ClearPanel, LettersInv
<1>5. CASE (BlitStep \/ UNCHANGED glyphVars) /\ UNCHANGED textVars
  <2>1. UNCHANGED <<before, buf, at, textVars>>
    BY <1>5 DEF BlitStep, SkipBlank, BeginRun, FollowRun, EndRun, NextColumn, glyphVars
  <2>2. Area' = Area /\ Taken' = Taken /\ UNCHANGED <<glyphs, given, pc, cursorX>>
    BY <2>1 DEF textVars, Area, Taken
  <2>3. CASE pc = "comic sans"
    <3>1. PICK start \in [1 .. Taken + 1 -> 0 .. cursorX] :
            /\ given.x \in Nat /\ InARow(start) /\ start[Taken + 1] = cursorX
            /\ Area = Letters(start, Taken)
      BY <2>3 DEF LettersInv
    <3>2. PICK n : n = Taken
      OBVIOUS
    <3>3. InARow(start)' /\ Letters(start, n)' = Letters(start, n)
      BY <2>2, <3>1, LettersStay
    <3> QED
      BY <2>2, <2>3, <3>1, <3>2, <3>3 DEF LettersInv
  <2>4. CASE pc # "comic sans"
    BY <2>1, <2>2, <2>4 DEF LettersInv
  <2> QED
    BY <2>3, <2>4
<1> QED
  BY <1>1, <1>2, <1>3, <1>4, <1>5, LetterStep DEF Next, vars

(* Texts and numbers stay in order, of any length (display.c:463-500).     *)
LEMMA TextInvariance == Spec => []TextInv
  BY InitTextInv, TextInvStep, PTL DEF Spec

-----------------------------------------------------------------------------

(* A text is written with Display_BlitGlyph and nothing else, so that what *)
(* is proved of it above holds of all letters of all texts                 *)
(* (display.c:463-484).                                                    *)
THEOREM TextsAreGlyphs == Spec => BlitSpec
<1>1. Init => BlitInit
  BY DEF Init
<1> QED
  BY <1>1, TextInvariance, TextBlitStep, PTL DEF Spec, BlitSpec

(* The rest of a text is a suffix of it (display.c:463-500).               *)
THEOREM TextTypeCorrect == Spec => []TypeOK
<1>1. TextInv => TypeOK
  <2> SUFFICES ASSUME TextInv PROVE TypeOK
    OBVIOUS
  <2> DEFINE l == Len(msg)
             m == Len(given.text)
             short == Reverse(msg)
             long == Reverse(given.text)
  <2>0. msg \in Seq(Char) /\ given.text \in Seq(Char)
    BY DEF TextInv, RestInv
  <2>1. msg \in Seq(Char) /\ given.text \in Seq(Char) /\ l \in Nat /\ m \in Nat
    BY <2>0
  <2>2. /\ short = [i \in 1 .. l |-> msg[l - i + 1]]
        /\ long = [i \in 1 .. m |-> given.text[m - i + 1]]
    BY DEF Reverse
  <2>3. short \in [1 .. l -> Char] /\ long \in [1 .. m -> Char]
    BY <2>1, <2>2
  <2>4. l <= m /\ \A k \in 1 .. l : msg[k] = given.text[(m - l) + k]
    BY DEF TextInv, RestInv, Taken
  <2>5. Len(short) = l /\ Len(long) = m
    BY <2>1, <2>3
  <2> HIDE DEF l, m, short, long
  <2>6. ASSUME NEW i \in 1 .. l PROVE short[i] = long[i]
    <3>1. short[i] = msg[l - i + 1] /\ long[i] = given.text[m - i + 1]
      BY <2>1, <2>2, <2>4
    <3>2. l - i + 1 \in 1 .. l /\ (m - l) + (l - i + 1) = m - i + 1
      BY <2>1
    <3> QED
      BY <2>4, <3>1, <3>2
  <2>7. SubSeq(short, 1, l) = SubSeq(long, 1, l)
    <3>1. SubSeq(short, 1, l) = [i \in 1 .. l |-> short[i]]
      BY <2>1, <2>3, <2>5
    <3>2. SubSeq(long, 1, l) = [i \in 1 .. l |-> long[i]]
      BY <2>1, <2>3, <2>4, <2>5
    <3> QED
      BY <2>6, <3>1, <3>2
  <2>8. IsSuffix(msg, given.text)
    BY <2>4, <2>5, <2>7 DEF IsSuffix, IsPrefix, short, long
  <2> QED
    BY <2>8 DEF TextInv, TypeOK, IInv
<1> QED
  BY <1>1, TextInvariance, PTL

(* A number with a point and at most three digits before it is in full on  *)
(* the panel, whatever its sign (display.c:490-500).                       *)
THEOREM NumbersFit == Spec => []NumberFits
<1>1. TextInv => NumberFits
  <2> SUFFICES ASSUME TextInv, pc = "internal", msg = <<>> PROVE sent = given.text
    BY DEF TextInv, NumberInv, NumberFits, Written, NoText
  <2>1. sent \in Seq(Char) /\ sent \o msg = given.text
    BY DEF TextInv, NumberInv
  <2> QED
    BY <2>1, ConcatEmptySeq
<1> QED
  BY <1>1, TextInvariance, PTL

(* When nothing is left, everything has been taken (display.c:466).        *)
LEMMA AllTaken ==
  ASSUME TextInv, msg = NoText PROVE \E n \in Nat : n = Len(given.text) /\ Taken = n
<1>1. given.text \in Seq(Char)
  BY DEF TextInv, RestInv
<1>2. Len(given.text) \in Nat
  BY <1>1
<1>3. Taken = Len(given.text) - 0
  <2>1. Len(msg) = 0
    BY DEF NoText
  <2> QED
    BY <2>1 DEF Taken
<1> QED
  BY <1>2, <1>3

(* The place of a letter, and the one before it (display.c:466).           *)
LEMMA Before ==
  ASSUME NEW n \in Nat, NEW i \in 1 .. n PROVE i \in 1 .. n + 1 /\ (i # 1 => i - 1 \in 1 .. n)
OBVIOUS

(* With its last letter over, a text is on the panel, each letter behind   *)
(* the one before it (display.c:463-484).                                  *)
LEMMA LettersDrawn == TextInv /\ LettersInv => TextDrawn
<1> SUFFICES ASSUME TextInv, LettersInv, pc = "comic sans", msg = NoText, blit = "off"
             PROVE  \E start \in [1 .. Len(given.text) -> 0 .. cursorX] :
                      InARow(start) /\ lit = Letters(start, Len(given.text))
  BY DEF TextDrawn, Written
<1>1. PICK n \in Nat : n = Len(given.text) /\ Taken = n
  BY AllTaken
<1>2. PICK start \in [1 .. n + 1 -> 0 .. cursorX] : InARow(start) /\ Area = Letters(start, n)
  BY <1>1 DEF LettersInv
<1>3. lit = Letters(start, n)
  BY <1>2, AreaLit DEF TextInv
<1>4. PICK first : first = [i \in 1 .. n |-> start[i]]
  OBVIOUS
<1>5. /\ DOMAIN first = 1 .. n /\ first \in [1 .. n -> 0 .. cursorX]
      /\ \A i \in 1 .. n : first[i] = start[i]
  <2>1. \A i \in 1 .. n : i \in 1 .. n + 1
    BY Before
  <2> QED
    BY <1>2, <1>4, <2>1
<1>6. InARow(first)
  <2> SUFFICES ASSUME NEW i \in 1 .. n
               PROVE  first[i] = IF i = 1 THEN given.x
                                 ELSE first[i - 1] + Room(given.text[i - 1])
    BY <1>5 DEF InARow
  <2>1. i \in 1 .. n + 1 /\ (i # 1 => i - 1 \in 1 .. n)
    BY Before
  <2>2. first[i] = start[i] /\ (i # 1 => first[i - 1] = start[i - 1])
    BY <1>5, <2>1
  <2> QED
    BY <1>2, <2>1, <2>2 DEF InARow
<1>7. Letters(first, n) = Letters(start, n)
  BY <1>5, Zenon DEF Letters
<1> QED
  BY <1>1, <1>3, <1>5, <1>6, <1>7

(* A text is on the panel with the pixels of the bitmaps of its letters    *)
(* and no other, in rows of a byte as those of the font                    *)
(* (display.c:122-135, 463-484; comicsans_font.h:12).                      *)
THEOREM TextsDrawn == ASSUME WIDTH = 8 PROVE Spec => []TextDrawn
<1>1. SameBits
  BY BytesRead
<1>2. TextInv /\ LettersInv /\ [Next]_vars => LettersInv'
  BY <1>1, LettersInvStep
<1> QED
  BY <1>2, InitTextInv, LettersDrawn, TextInvariance, PTL DEF Spec

================================================================================

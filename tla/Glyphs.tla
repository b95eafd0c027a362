-------------------------------- MODULE Glyphs --------------------------------
(***************************************************************************)
(* Display_BlitGlyph: a letter of the Comic Sans font is drawn column by   *)
(* column, with one rectangle for every run of pixels in a column.  The    *)
(* two nested loops are stepped through row by row.                        *)
(***************************************************************************)
EXTENDS Integers

CONSTANTS
  HEIGHT,      (* Rows of a glyph: 16.                                     *)
  WIDTH        (* Columns of a glyph: 8.                                   *)

ASSUME GlyphAssumption == HEIGHT \in Nat \ {0} /\ WIDTH \in Nat \ {0}

GLYPH_SCALE == 2

VARIABLES
  lit,         (* The points of the panel that are white.                  *)
  buf,         (* The cells <<row, col>> of the glyph that have a pixel.   *)
  at,          (* Where its upper left corner is to be.                    *)
  blit,        (* Where the function is; "off" when it has returned.       *)
  col, row, start_row,
  before       (* History: what was white when it was called.              *)

loopVars  == <<col, row, start_row>>
glyphVars == <<lit, buf, at, blit, loopVars, before>>

Cell  == (0 .. HEIGHT - 1) \X (0 .. WIDTH - 1)
Point == Int \X Int

(* The loops stay within the glyph (display.c:158-173).                    *)
GlyphTypeOK ==
  /\ lit \subseteq Point /\ before \subseteq Point
  /\ buf \subseteq Cell
  /\ at \in Point
  /\ blit \in {"off", "scan", "run"}
  /\ col \in 0 .. WIDTH
  /\ row \in 0 .. HEIGHT
  /\ start_row \in 0 .. HEIGHT - 1

(* RA8875_draw_rect_fast, both corners included.                           *)
Rectangle(x1, y1, x2, y2) == (x1 .. x2) \X (y1 .. y2)

-----------------------------------------------------------------------------

Display_BlitGlyph(g, x, y) ==
  /\ blit = "off"
  /\ buf' = g /\ at' = <<x, y>> /\ before' = lit
  /\ blit' = "scan" /\ col' = 0 /\ row' = 0
  /\ UNCHANGED <<lit, start_row>>

HasPixel == row < HEIGHT /\ <<row, col>> \in buf

SkipBlank ==
  /\ blit = "scan" /\ row < HEIGHT /\ ~ HasPixel
  /\ row' = row + 1
  /\ UNCHANGED <<lit, buf, at, blit, col, start_row, before>>

BeginRun ==
  /\ blit = "scan" /\ HasPixel
  /\ start_row' = row /\ blit' = "run"
  /\ UNCHANGED <<lit, buf, at, col, row, before>>

FollowRun ==
  /\ blit = "run" /\ HasPixel
  /\ row' = row + 1
  /\ UNCHANGED <<lit, buf, at, blit, col, start_row, before>>

Run(last) == LET px1 == at[1] + col * GLYPH_SCALE
                 py1 == at[2] + start_row * GLYPH_SCALE
             IN  Rectangle(px1, py1, px1 + GLYPH_SCALE - 1,
                           at[2] + last * GLYPH_SCALE + GLYPH_SCALE - 1)

(* Mutant: the row after the run is drawn as well. *)
EndRunLate ==
  /\ blit = "run" /\ ~ HasPixel
  /\ lit' = lit \union Run(row)
  /\ blit' = "scan"
  /\ UNCHANGED <<buf, at, loopVars, before>>

(* Mutant: a run ends after any of its pixels. *)
EndRunEarly ==
  /\ blit = "run" /\ row > start_row
  /\ lit' = lit \union Run(row - 1)
  /\ blit' = "scan"
  /\ UNCHANGED <<buf, at, loopVars, before>>

EndRun ==
  /\ blit = "run" /\ ~ HasPixel
  /\ lit' = lit \union Run(row - 1)
  /\ blit' = "scan"
  /\ UNCHANGED <<buf, at, loopVars, before>>

(* Mutant: the columns are counted to WIDTH inclusive. *)
NextColumnToo ==
  /\ blit = "scan" /\ row = HEIGHT
  /\ col' = col + 1 /\ row' = 0
  /\ blit' = IF col' > WIDTH THEN "off" ELSE "scan"
  /\ UNCHANGED <<lit, buf, at, start_row, before>>

NextColumn ==
  /\ blit = "scan" /\ row = HEIGHT
  /\ col' = col + 1 /\ row' = 0
  /\ blit' = IF col' = WIDTH THEN "off" ELSE "scan"
  /\ UNCHANGED <<lit, buf, at, start_row, before>>

BlitStep == SkipBlank \/ BeginRun \/ FollowRun \/ EndRun \/ NextColumn

(* RA8875_clear, between two calls.                                        *)
ClearPanel ==
  /\ blit = "off"
  /\ lit' = {} /\ before' = {} /\ buf' = {} /\ at' = <<0, 0>>
  /\ col' = 0 /\ row' = 0 /\ start_row' = 0
  /\ UNCHANGED blit

BlitInit ==
  /\ lit = {} /\ before = {} /\ buf = {} /\ at = <<0, 0>>
  /\ blit = "off" /\ col = 0 /\ row = 0 /\ start_row = 0

(* Any glyph, anywhere, over what is there.                                *)
BlitNext ==
  \/ BlitStep \/ ClearPanel
  \/ \E g \in SUBSET Cell, p \in Point : Display_BlitGlyph(g, p[1], p[2])

BlitSpec == BlitInit /\ [][BlitNext]_glyphVars

-----------------------------------------------------------------------------

(* The points of a cell, and the cell of a point, of the enlarged glyph.   *)
Square(cell, corner) ==
  LET px == corner[1] + cell[2] * GLYPH_SCALE
      py == corner[2] + cell[1] * GLYPH_SCALE
  IN  Rectangle(px, py, px + GLYPH_SCALE - 1, py + GLYPH_SCALE - 1)

CellOf(p, corner) == <<(p[2] - corner[2]) \div GLYPH_SCALE,
                       (p[1] - corner[1]) \div GLYPH_SCALE>>

(* The function adds exactly the points of the enlarged glyph to what was  *)
(* there: no pixel is lost at the end of a run or of a column, and none    *)
(* doubled (display.c:158-179).                                            *)
GlyphDrawn ==
  blit = "off" =>
    /\ before \subseteq lit
    /\ \A p \in lit \ before : CellOf(p, at) \in buf
    /\ \A cell \in buf : Square(cell, at) \subseteq lit

(* A run is drawn whole, with one rectangle: what is above and below it is *)
(* blank, as the time of module Pacing counts on (display.c:152: "Span     *)
(* batching").                                                             *)
SpansWhole ==
  [][EndRun => /\ <<row, col>> \notin buf
               /\ <<start_row - 1, col>> \notin buf
               /\ \A r \in start_row .. row - 1 : <<r, col>> \in buf]_glyphVars

===============================================================================

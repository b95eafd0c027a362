--------------------------------- MODULE Text ---------------------------------
(***************************************************************************)
(* Display_WriteTextAt in both fonts, and Display_WriteNumberAt.  One text *)
(* is written at a time, and the panel is cleared before the next.         *)
(*                                                                         *)
(* A number is known by its sign and the digits before its point, and a    *)
(* text by its characters; all digits of numbers are written 9.            *)
(***************************************************************************)
EXTENDS Glyphs, SequencesExt

CONSTANTS
  Bitmaps,     (* Glyphs of the font, as the bytes of their rows.          *)
  Advance,     (* glyphAdvanceComicSans.                                   *)
  MAX_TEXT,    (* The longest text of letters.                             *)
  MAX_DIGITS   (* The most digits before the point.                        *)

Letter == DOMAIN Advance

ASSUME TextAssumption ==
  /\ Advance \in [Letter -> Nat]
  /\ Bitmaps \subseteq [Letter -> [0 .. HEIGHT - 1 -> 0 .. 2 ^ WIDTH - 1]]
  /\ MAX_TEXT \in Nat /\ MAX_DIGITS \in Nat

VARIABLES
  glyphs,      (* The font: bitmaps of some of the characters.             *)
  pc,          (* "idle", or the font in which a text is being written.    *)
  msg,         (* What is still to be written.                             *)
  cursorX,
  sent,        (* Bytes given to the internal font of the chip.            *)
  given        (* History: the text or number that was to be written.      *)

textVars == <<glyphs, pc, msg, cursorX, sent, given>>
vars     == <<glyphVars, textVars>>

Number == [whole : BOOLEAN, many : BOOLEAN, negative : BOOLEAN, digits : 1 .. MAX_DIGITS]
NoText == <<>>

(* Letters keep to the font, and the loops to the glyph (display.c:152-180,*)
(* 463-500).                                                               *)
TypeOK ==
  /\ GlyphTypeOK
  /\ pc \in {"idle", "internal", "comic sans"}
  /\ cursorX \in Nat
  /\ IsSuffix(msg, given.text)

(* Bit 7 - col of a row is its pixel in column col.                        *)
Pixel(byte, column) == (byte \div 2 ^ (WIDTH - 1 - column)) % 2 = 1

Display_PrecomputeGlyphs(bitmap) == { cell \in Cell : Pixel(bitmap[cell[1]], cell[2]) }

glyph_cache == [ch \in DOMAIN glyphs |-> Display_PrecomputeGlyphs(glyphs[ch])]

Init ==
  /\ BlitInit
  /\ \E b \in Bitmaps, present \in SUBSET Letter :
       glyphs = [ch \in present |-> b[ch]]
  /\ pc = "idle" /\ msg = NoText /\ cursorX = 0 /\ sent = NoText
  /\ given = [text |-> NoText]

-----------------------------------------------------------------------------
(* Numbers.                                                                *)

Digits(k) == [i \in 1 .. k |-> "9"]

(* "%d" and "%.2f" or "%.5f".                                              *)
Format(number, decimals) ==
  (IF number.negative THEN <<"-">> ELSE <<>>) \o Digits(number.digits)
    \o (IF decimals > 0 THEN <<".">> \o Digits(decimals) ELSE <<>>)

(* Mutant: the buffer holds what its comment says and no sign. *)
SizeUnsigned(number) == IF number.many THEN 10 ELSE 7

BufferSize(number) == IF number.many THEN 11 ELSE 8

(* What snprintf leaves of a text, the last byte being 0.                  *)
snprintf(size, text) == IF Len(text) < size THEN text ELSE SubSeq(text, 1, size - 1)

(* "%d" does not look where a double was passed: it finds any int.         *)
Printed(number) ==
  IF number.whole /\ ~ number.many
    THEN { Format(int, 0) : int \in [negative : BOOLEAN, digits : 1 .. MAX_DIGITS] }
    ELSE { Format(number, IF number.many THEN 5 ELSE 2) }

(* Texts on the wheel are in the internal font when they are numbers.      *)
Display_WriteNumberAt(number) ==
  /\ pc = "idle" /\ pc' = "internal"
  /\ \E text \in Printed(number) :
       /\ msg' = snprintf(BufferSize(number), text)
       /\ given' = [text |-> msg', number |-> number]
  /\ UNCHANGED <<glyphVars, glyphs, cursorX, sent>>

-----------------------------------------------------------------------------
(* Texts.                                                                  *)

Display_WriteTextAt(x, text) ==
  /\ pc = "idle" /\ pc' = "comic sans"
  /\ msg' = text /\ cursorX' = x
  /\ given' = [text |-> text, x |-> x]
  /\ UNCHANGED <<glyphVars, glyphs, sent>>

(* Mutant: the cursor moves on for a character without a glyph as well. *)
WriteLetterOrBlank ==
  /\ pc = "comic sans" /\ blit = "off" /\ msg # NoText
  /\ msg' = Tail(msg)
  /\ cursorX' = cursorX + Advance[Head(msg)]
  /\ IF Head(msg) \in DOMAIN glyphs
       THEN Display_BlitGlyph(glyph_cache[Head(msg)], cursorX, 0)
       ELSE UNCHANGED glyphVars
  /\ UNCHANGED <<glyphs, pc, sent, given>>

(* A character without a glyph takes no room.                              *)
WriteLetter ==
  /\ pc = "comic sans" /\ blit = "off" /\ msg # NoText
  /\ msg' = Tail(msg)
  /\ IF Head(msg) \in DOMAIN glyphs
       THEN /\ Display_BlitGlyph(glyph_cache[Head(msg)], cursorX, 0)
            /\ cursorX' = cursorX + Advance[Head(msg)]
       ELSE UNCHANGED <<glyphVars, cursorX>>
  /\ UNCHANGED <<glyphs, pc, sent, given>>

RA8875_write_data ==
  /\ pc = "internal" /\ msg # NoText
  /\ sent' = Append(sent, Head(msg))
  /\ msg' = Tail(msg)
  /\ UNCHANGED <<glyphVars, glyphs, pc, cursorX, given>>

(* The caller goes on, and clears the panel when it writes again.          *)
Return ==
  /\ pc # "idle" /\ msg = NoText
  /\ ClearPanel
  /\ pc' = "idle" /\ sent' = NoText /\ cursorX' = 0
  /\ given' = [text |-> NoText]
  /\ UNCHANGED <<glyphs, msg>>

Next ==
  \/ \E number \in Number : Display_WriteNumberAt(number)
  \/ \E x \in {0, 5}, text \in SeqOf(Letter, MAX_TEXT) : Display_WriteTextAt(x, text)
  \/ WriteLetter \/ RA8875_write_data \/ Return
  \/ BlitStep /\ UNCHANGED textVars

Spec == Init /\ [][Next]_vars

-----------------------------------------------------------------------------

Written == msg = NoText /\ blit = "off"

(* Shifted by column, the byte has its highest bit set.                    *)
Leftmost(byte, column) == (byte * 2 ^ column) % 2 ^ WIDTH >= 2 ^ (WIDTH - 1)

(* The points of a letter, twice its size, from x on.                      *)
Points(ch, x) ==
  { <<x + d[1], d[2]>> : d \in { e \in (0 .. 2 * WIDTH - 1) \X (0 .. 2 * HEIGHT - 1) :
                                   Leftmost(glyphs[ch][e[2] \div 2], e[1] \div 2) } }

Room(ch) == IF ch \in DOMAIN glyphs THEN Advance[ch] ELSE 0

(* The letters start one after another.                                    *)
InARow(start) ==
  \A i \in DOMAIN start :
    start[i] = IF i = 1 THEN given.x ELSE start[i - 1] + Room(given.text[i - 1])

(* The first n letters of the text, from these places on.                  *)
Letters(start, n) ==
  UNION { Points(given.text[i], start[i])
            : i \in { j \in 1 .. n : given.text[j] \in DOMAIN glyphs } }

(* The text is on the panel, every letter after the ones before it: a      *)
(* point is white if and only if it belongs to the bitmap of some letter,  *)
(* the highest bit of a byte on the left (display.c:122-135, 472-484).     *)
TextDrawn ==
  pc = "comic sans" /\ Written =>
    \E start \in [1 .. Len(given.text) -> 0 .. cursorX] :
      InARow(start) /\ lit = Letters(start, Len(given.text))

(* A number with a point and at most three digits before it is written in  *)
(* full, whatever its sign (display.c:490, 495: "Enough for ...").         *)
NumberFits ==
  pc = "internal" /\ Written /\ (~ given.number.whole \/ given.number.many)
      /\ given.number.digits <= 3 =>
    sent = Format(given.number, IF given.number.many THEN 5 ELSE 2)

(* A whole number is written as it was given (display.c:246-260, where     *)
(* isWholeNumber goes with an int).                                        *)
WholeNumberShown ==
  pc = "internal" /\ Written /\ given.number.whole /\ ~ given.number.many
      /\ given.number.digits <= 3 =>
    sent = Format(given.number, 0)

===============================================================================

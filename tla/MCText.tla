-------------------------------- MODULE MCText --------------------------------
(* Letters of four rows by two columns: every glyph for "a", an L for "l",*)
(* which is set closer, as in the font; each may be missing.                *)
EXTENDS Text

MCBitmaps == { [a |-> b, l |-> [r \in 0 .. 3 |-> IF r = 3 THEN 3 ELSE 2]]
               : b \in [0 .. 3 -> 0 .. 3] }
MCAdvance == [a |-> 5, l |-> 3]

===============================================================================

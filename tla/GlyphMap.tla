------------------------------ MODULE GlyphMap ------------------------------
(***************************************************************************)
(* What a font asks of its table: it maps characters to glyphs, and the    *)
(* glyph of a character is the one that was stored for it last.  NUL ends  *)
(* every string, so it has no glyph: storing one for it changes nothing.   *)
(***************************************************************************)
CONSTANTS
    Key,    \* characters
    Glyph   \* what is drawn for them

VARIABLE glyphs

Init == glyphs = [k \in {} |-> {}]

Set(k, v) ==
    /\ k # 0
    /\ glyphs' = [c \in DOMAIN glyphs \cup {k} |-> IF c = k THEN v ELSE glyphs[c]]

Next == \E k \in Key, v \in Glyph : Set(k, v)

Spec == Init /\ [][Next]_glyphs
=============================================================================

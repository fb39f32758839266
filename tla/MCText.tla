------------------------------- MODULE MCText -------------------------------
(***************************************************************************)
(* The parts that text and shaders go through on the way to the screen,    *)
(* for TLC: the glyph table, the UTF-8 decoder, the extension of a         *)
(* shader's path and the digits of the clock.  They share no state, so     *)
(* every behaviour is one of theirs, chosen at the start, while the other  *)
(* parts rest.                                                             *)
(***************************************************************************)
EXTENDS GlyphTable, Fnv1a, Utf8, FileExtension, ClockFace

\* NUL, which ends strings, and four characters that collide at every
\* capacity up to 8: "2", "B" and a CJK character at the last slot, so that
\* their probes wrap, and "3" right before it.
MCKey == {0, 50, 51, 66, 26085}

\* HashInt, written out: TLC would compute it anew at every use.
MCHash ==
    [key \in MCKey |->
        CASE key = 0 -> 62741 [] key = 50 -> 18023
          [] key = 51 -> 1878 [] key = 66 -> 44791 [] key = 26085 -> 37751]

ASSUME HashIsFnv1a == \A key \in MCKey : MCHash[key] = HashInt(key)

\* Code points next to every boundary of UTF-8, and a CJK character.
MCAlphabet == {65, 127, 128, 2047, 2048, 20839, 65535, 65536, 1114111}

\* An ASCII character, continuation bytes, the leading bytes of two, three
\* and four, and a byte that begins nothing.
MCByte == {65, 128, 191, 195, 229, 240, 248}

VARIABLE part

textVars == <<part, glyphVars, utf8Vars, extVars, faceVars>>

TextInit ==
    /\ part \in {"glyphs", "decoder", "extension", "clock"}
    /\ part # "decoder" => text = <<>>
    /\ part # "extension" => path = <<End>>
    /\ part # "clock" => minute = 0
    /\ GlyphInit /\ Utf8Init /\ ExtInit /\ FaceInit

TextNext ==
    /\ \/ part = "glyphs" /\ GlyphNext /\ UNCHANGED <<utf8Vars, extVars, faceVars>>
       \/ part = "decoder" /\ Utf8Next /\ UNCHANGED <<glyphVars, extVars, faceVars>>
       \/ part = "extension" /\ ExtNext /\ UNCHANGED <<glyphVars, utf8Vars, faceVars>>
       \/ part = "clock" /\ FaceNext /\ UNCHANGED <<glyphVars, utf8Vars, extVars>>
    /\ UNCHANGED part

TextSpec == TextInit /\ [][TextNext]_textVars
=============================================================================

-------------------------------- MODULE Utf8 --------------------------------
(***************************************************************************)
(* utf8_to_codepoints of src/text.c, byte by byte, with the array that it  *)
(* grows, against the definition of UTF-8.  Every text that is drawn goes  *)
(* through it.                                                             *)
(***************************************************************************)
EXTENDS Naturals, Sequences, SequencesExt

CONSTANTS
    Alphabet, MaxText,      \* code points of the texts that are decoded
    Byte, MaxBytes,         \* bytes of any other input
    InitialCap              \* 16

ASSUME Utf8Assumption ==
    /\ \A c \in Alphabet : c \in Nat /\ c > 0 /\ c < 1114112
    /\ Byte \subseteq 1..255
    /\ MaxText \in Nat /\ MaxBytes \in Nat
    /\ InitialCap \in Nat \ {0}

Tail6(c) == 128 + (c % 64)

\* The bytes of a code point, as UTF-8 is defined.
Encoded(c) ==
    IF c < 128 THEN <<c>>
    ELSE IF c < 2048 THEN <<192 + (c \div 64), Tail6(c)>>
    ELSE IF c < 65536 THEN <<224 + (c \div 4096), Tail6(c \div 64), Tail6(c)>>
    ELSE <<240 + (c \div 262144), Tail6(c \div 4096), Tail6(c \div 64), Tail6(c)>>

Encoding(text) == FlattenSeq([i \in DOMAIN text |-> Encoded(text[i])])

NoText == <<0>>

VARIABLES
    s, text,            \* the input, and what it is the encoding of
    p, cp, rest,        \* rest: continuation bytes still to be read
    codepoints, cap,    \* the array and its size
    outcome

utf8Vars == <<s, text, p, cp, rest, codepoints, cap, outcome>>

Utf8Init ==
    /\ \/ /\ text \in BoundedSeq(Alphabet, MaxText)
          /\ s = Encoding(text) \o <<0>>
       \/ /\ text = NoText
          /\ \E b \in BoundedSeq(Byte, MaxBytes) : s = b \o <<0>>
    /\ p = 1 /\ cp = 0 /\ rest = 0
    /\ codepoints = <<>> /\ cap = InitialCap
    /\ outcome = "running"

\* Mutant: the mask of the leading byte of three is the one of two.
LengthAt3(b) ==
    CASE b < 128 -> 1
      [] b \in 192..239 -> 2
      [] b \in 240..247 -> 4
      [] OTHER -> 0

\* How many bytes a leading byte announces; 0 if it is none.
LengthAt(b) ==
    CASE b < 128 -> 1
      [] b \in 192..223 -> 2
      [] b \in 224..239 -> 3
      [] b \in 240..247 -> 4
      [] OTHER -> 0

Payload(b) ==
    CASE LengthAt(b) = 1 -> b
      [] LengthAt(b) = 2 -> b % 32
      [] LengthAt(b) = 3 -> b % 16
      [] OTHER -> b % 8

\* Mutant: the array is grown when it has overflowed.
StoreLate(c) ==
    /\ codepoints' = Append(codepoints, c)
    /\ cap' = IF Len(codepoints) > cap THEN 2 * cap ELSE cap

StoreCodepoint(c) ==
    /\ codepoints' = Append(codepoints, c)
    /\ cap' = IF Len(codepoints) + 1 > cap THEN 2 * cap ELSE cap

Fail == outcome' = "invalid" /\ UNCHANGED <<s, text, p, cp, rest, codepoints, cap>>

Lead ==
    /\ outcome = "running" /\ rest = 0
    /\ LET b == s[p] IN
           IF b = 0 THEN outcome' = "done" /\ UNCHANGED <<s, text, p, cp, rest, codepoints, cap>>
           ELSE IF LengthAt(b) = 0 THEN Fail
           ELSE /\ cp' = Payload(b) /\ rest' = LengthAt(b) - 1
                /\ p' = p + 1
                /\ IF rest' = 0 THEN StoreCodepoint(cp') ELSE UNCHANGED <<codepoints, cap>>
                /\ UNCHANGED <<s, text, outcome>>

IsContinuation(b) == b \in 128..191

Continuation ==
    /\ outcome = "running" /\ rest > 0
    /\ LET b == s[p] IN
           IF ~IsContinuation(b) THEN Fail
           ELSE /\ cp' = 64 * cp + (b % 64) /\ rest' = rest - 1
                /\ p' = p + 1
                /\ IF rest' = 0 THEN StoreCodepoint(cp') ELSE UNCHANGED <<codepoints, cap>>
                /\ UNCHANGED <<s, text, outcome>>

\* realloc may fail.
OutOfMemory ==
    /\ outcome = "running" /\ Len(codepoints) = cap
    /\ outcome' = "no memory"
    /\ UNCHANGED <<s, text, p, cp, rest, codepoints, cap>>

Utf8Next == Lead \/ Continuation \/ OutOfMemory

Utf8Spec == Utf8Init /\ [][Utf8Next]_utf8Vars

-----------------------------------------------------------------------------
\* Nothing is read behind the terminating zero and nothing is written behind
\* the array, whatever the bytes are: a sequence that is cut off ends at the
\* zero (text.c 51-58), and the array has grown when it must (text.c 64-75).
WithinBounds ==
    /\ outcome = "running" => p \in 1..Len(s)
    /\ Len(codepoints) <= cap

\* A text is decoded to itself and refused only for want of memory.
DecodesTexts ==
    text # NoText =>
        /\ outcome # "invalid"
        /\ outcome = "done" => codepoints = text
=============================================================================

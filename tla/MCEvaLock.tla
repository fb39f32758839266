----------------------------- MODULE MCEvaLock ------------------------------
(* Bounds for TLC.  Outputs are model values; the configurations choose    *)
(* what the environment does.                                              *)
EXTENDS EvaLock

AllKeys == KeySym

\* The lead byte of a two-byte character (0xC3 as a signed char), a dead key
\* without text, Escape, the letter a and DEL.
MCKeyByte == {-61, 0, 27, 97, 127}
=============================================================================

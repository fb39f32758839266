------------------------------- MODULE Fnv1a --------------------------------
(***************************************************************************)
(* hash_int of src/map.c: 32-bit FNV-1a over the four bytes of a key, the  *)
(* lowest first, as x86 stores them.  The table looks at the hash modulo   *)
(* its capacity only, a power of two; the low 16 bits of the hash depend   *)
(* on nothing but low 16 bits, so they are all that is kept, which is      *)
(* exact for capacities up to 65536.                                       *)
(***************************************************************************)
EXTENDS Naturals, Bitwise, SequencesExt

Width == 65536

\* 2166136261 % Width: the constant is beyond TLC's integers.
OffsetBasis == 40389

Prime == 16777619 % Width

\* The bytes of a key below 2^31.
Bytes(key) == [i \in 1..4 |-> (key \div 256^(i - 1)) % 256]

HashInt(key) ==
    FoldLeft(LAMBDA hash, byte : ((hash ^^ byte) * Prime) % Width, OffsetBasis, Bytes(key))
=============================================================================

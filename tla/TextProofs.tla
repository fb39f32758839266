----------------------------- MODULE TextProofs -----------------------------
(***************************************************************************)
(* Proofs about the text that is drawn.                                    *)
(*                                                                         *)
(* Utf8, for any bytes and any text of any code points: the decoder stays  *)
(* within its arrays, and gives back the text that was encoded.  Where each*)
(* code point begins in the bytes (Laid) shows that a decoder that has read*)
(* k of them stands at the next (Decoding).                                *)
(*                                                                         *)
(* FileExtension, for any path: the loops that look for the dot stay within*)
(* it, and find the extension of a path with one dot.  ClockFace, for any  *)
(* time of day and any countdown: the digits are those of the time left.   *)
(*                                                                         *)
(* GlyphTable, for any keys, any hash and a table of any size: find_entry  *)
(* always has a free slot to stop at, and the table implements the map of  *)
(* GlyphMap.  The first does not need to know where find_entry stops:      *)
(* wherever a glyph is stored, at most one more slot is in use, and count  *)
(* goes up if there is one more.  The second does: every key is in the one *)
(* slot where the probe for it ends (Placed), in the array of the table and*)
(* in the one that adjust_capacity fills, and that one holds the entries of*)
(* the old array it has passed, no more and no less (FreshIsMoved).        *)
(***************************************************************************)
EXTENDS Utf8, FileExtension, ClockFace, GlyphTable, FiniteSetTheorems,
        WellFoundedInduction, TLAPS

-----------------------------------------------------------------------------
(* The text *)

\* A set of numbers that is not empty has a smallest.
LEMMA SmallestOf ==
    ASSUME NEW S, S \subseteq Nat, S # {}
    PROVE  \E n \in S : \A m \in S : n <= m
<1> DEFINE R == OpToRel(<, Nat)
<1>1. \A m, n \in Nat : <<m, n>> \in R <=> m < n
  BY DEF OpToRel
<1>2. IsWellFoundedOn(R, Nat)
  BY NatLessThanWellFounded
<1> HIDE DEF R
<1>3. \E n \in S : \A m \in S : ~ (<<m, n>> \in R)
  BY <1>2, WFMin
<1>4. PICK n \in S : \A m \in S : ~ (<<m, n>> \in R)
  BY <1>3
<1>5. \A m \in S : ~ (m < n)
  BY <1>1, <1>4
<1> QED BY <1>4, <1>5

\* Induction up to a bound, over a set instead of an operator.
LEMMA UpTo ==
    ASSUME NEW n \in Nat, NEW S, 0 \in S, \A k \in 1..n : k - 1 \in S => k \in S
    PROVE  \A k \in 0..n : k \in S
<1> DEFINE missing == {k \in 0..n : k \notin S}
<1>1. ASSUME missing # {}
      PROVE  FALSE
  <2>1. missing \subseteq Nat
    OBVIOUS
  <2>2. PICK k \in missing : \A m \in missing : k <= m
    <3> HIDE DEF missing
    <3> QED BY <1>1, <2>1, SmallestOf
  <2>3. k \in 1..n /\ k - 1 \in 0..n /\ ~(k <= k - 1) /\ k \notin S
    OBVIOUS
  <2>4. k - 1 \in S
    BY <2>2, <2>3
  <2> QED BY <2>3, <2>4
<1> QED BY <1>1

-----------------------------------------------------------------------------
(* The decoder of UTF-8 *)

CodePoint == {c \in Nat : c > 0 /\ c < 1114112}
ByteValue == 0..255

\* What is left of a code point above its last r groups of six bits.
Above(c, r) ==
    CASE r = 0 -> c
      [] r = 1 -> c \div 64
      [] r = 2 -> c \div 4096
      [] OTHER -> c \div 262144

\* Each byte of an encoding, and what it tells the decoder.
LEMMA EncodedBytes ==
    ASSUME NEW c \in CodePoint
    PROVE  /\ Encoded(c) \in Seq(ByteValue) /\ Len(Encoded(c)) \in 1..4
           /\ Encoded(c)[1] # 0 /\ LengthAt(Encoded(c)[1]) = Len(Encoded(c))
           /\ Payload(Encoded(c)[1]) = Above(c, Len(Encoded(c)) - 1)
           /\ \A j \in 2..Len(Encoded(c)) :
                  /\ IsContinuation(Encoded(c)[j])
                  /\ 64 * Above(c, Len(Encoded(c)) - j + 1) + (Encoded(c)[j] % 64)
                         = Above(c, Len(Encoded(c)) - j)
<1> DEFINE Tells(e) ==
        /\ e \in Seq(ByteValue) /\ Len(e) \in 1..4
        /\ e[1] # 0 /\ LengthAt(e[1]) = Len(e)
        /\ Payload(e[1]) = Above(c, Len(e) - 1)
        /\ \A j \in 2..Len(e) :
               /\ IsContinuation(e[j])
               /\ 64 * Above(c, Len(e) - j + 1) + (e[j] % 64) = Above(c, Len(e) - j)
           c1 == c \div 64
           c2 == c \div 4096
           c3 == c \div 262144
<1> SUFFICES Tells(Encoded(c))
  OBVIOUS
<1>1. /\ c \in Nat /\ c > 0 /\ c1 \in Nat /\ c2 \in Nat /\ c3 \in 0..4
      /\ c < 2048 => c1 < 32
      /\ c < 65536 => c2 < 16
  <2>1. c \in Nat /\ c > 0 /\ c < 1114112
    BY SMT DEF CodePoint
  <2>2. c1 \in Nat
    BY <2>1, SMT
  <2>3. c2 \in Nat
    BY <2>1, SMT
  <2>4. c3 \in 0..4
    BY <2>1, SMT
  <2>5. c < 2048 => c1 < 32
    BY <2>1, SMT
  <2>6. c < 65536 => c2 < 16
    BY <2>1, SMT
  <2> HIDE DEF c1, c2, c3
  <2> QED BY <2>1, <2>2, <2>3, <2>4, <2>5, <2>6, SMT
<1>2. /\ 64 * c1 + (c % 64) = c
      /\ 64 * c2 + (c1 % 64) = c1
      /\ 64 * c3 + (c2 % 64) = c2
  <2>1. c \in Nat
    BY SMT DEF CodePoint
  <2>2. 64 * c1 + (c % 64) = c
    BY <2>1, SMT
  <2>3. 64 * c2 + (c1 % 64) = c1
    BY <2>1, SMT
  <2>4. 64 * c3 + (c2 % 64) = c2
    BY <2>1, SMT
  <2> HIDE DEF c1, c2, c3
  <2> QED BY <2>2, <2>3, <2>4, SMT
<1>3. Encoded(c) = IF c < 128 THEN <<c>>
                   ELSE IF c < 2048 THEN <<192 + c1, Tail6(c)>>
                   ELSE IF c < 65536 THEN <<224 + c2, Tail6(c1), Tail6(c)>>
                   ELSE <<240 + c3, Tail6(c2), Tail6(c1), Tail6(c)>>
  BY SMT DEF Encoded
<1>4. Above(c, 0) = c /\ Above(c, 1) = c1 /\ Above(c, 2) = c2 /\ Above(c, 3) = c3
  BY SMT DEF Above
<1>5. \A n \in Nat : Tail6(n) \in ByteValue /\ Tail6(n) % 64 = n % 64 /\ IsContinuation(Tail6(n))
  BY DEF Tail6, IsContinuation, ByteValue
<1> HIDE DEF c1, c2, c3
<1>6. CASE c < 128
  <2>1. LengthAt(c) = 1 /\ Payload(c) = c
    BY <1>1, <1>6 DEF LengthAt, Payload
  <2>2. PICK e : e = <<c>>
    OBVIOUS
  <2>3. e \in Seq(ByteValue) /\ Len(e) = 1 /\ e[1] = c
    BY <1>1, <1>6, <2>2 DEF ByteValue
  <2>4. Tells(e)
    BY <1>1, <1>4, <2>1, <2>3
  <2> QED BY <1>3, <1>6, <2>2, <2>4, SMT
<1>7. CASE ~(c < 128) /\ c < 2048
  <2> DEFINE b == 192 + c1
  <2>1. b \in 192..223 /\ b % 32 = c1
    BY <1>1, <1>7
  <2>2. Encoded(c) = <<b, Tail6(c)>>
    BY <1>3, <1>7
  <2> HIDE DEF b
  <2>3. LengthAt(b) = 2 /\ Payload(b) = c1
    BY <2>1 DEF LengthAt, Payload
  <2>4. PICK e : e = <<b, Tail6(c)>>
    OBVIOUS
  <2>5. e \in Seq(ByteValue) /\ Len(e) = 2 /\ e[1] = b /\ e[2] = Tail6(c)
    <3>1. b \in ByteValue /\ Tail6(c) \in ByteValue
      BY <1>1, <1>5, <2>1 DEF ByteValue
    <3> QED BY <2>4, <3>1
  <2>6. IsContinuation(e[2]) /\ 64 * Above(c, 1) + (e[2] % 64) = Above(c, 0)
    BY <1>1, <1>2, <1>4, <1>5, <2>5
  <2>7. \A j \in 2..Len(e) :
            /\ IsContinuation(e[j])
            /\ 64 * Above(c, Len(e) - j + 1) + (e[j] % 64) = Above(c, Len(e) - j)
    <3>1. \A j \in 2..Len(e) : j = 2 /\ Len(e) - j + 1 = 1 /\ Len(e) - j = 0
      BY <2>5
    <3> QED BY <2>6, <3>1
  <2>8. Payload(e[1]) = Above(c, Len(e) - 1)
    BY <1>4, <2>3, <2>5
  <2>9. Tells(e)
    BY <2>1, <2>3, <2>5, <2>7, <2>8
  <2> QED BY <2>2, <2>4, <2>9
<1>8. CASE ~(c < 128) /\ ~(c < 2048) /\ c < 65536
  <2> DEFINE b == 224 + c2
  <2>1. b \in 224..239 /\ b % 16 = c2
    BY <1>1, <1>8, SMT
  <2>2. Encoded(c) = <<b, Tail6(c1), Tail6(c)>>
    BY <1>3, <1>8, SMT
  <2> HIDE DEF b
  <2>3. LengthAt(b) = 3 /\ Payload(b) = c2
    BY <2>1 DEF LengthAt, Payload
  <2>4. PICK e : e = <<b, Tail6(c1), Tail6(c)>>
    OBVIOUS
  <2>5. e \in Seq(ByteValue) /\ Len(e) = 3 /\ e[1] = b /\ e[2] = Tail6(c1) /\ e[3] = Tail6(c)
    <3>1. b \in ByteValue /\ Tail6(c) \in ByteValue /\ Tail6(c1) \in ByteValue
      <4>1. c \in Nat /\ c1 \in Nat
        BY <1>1, SMT
      <4> QED BY <1>5, <2>1, <4>1 DEF ByteValue
    <3> QED BY <2>4, <3>1
  <2>6. /\ IsContinuation(e[2]) /\ 64 * Above(c, 2) + (e[2] % 64) = Above(c, 1)
        /\ IsContinuation(e[3]) /\ 64 * Above(c, 1) + (e[3] % 64) = Above(c, 0)
    <3>1. /\ IsContinuation(Tail6(c)) /\ Tail6(c) % 64 = c % 64
          /\ IsContinuation(Tail6(c1)) /\ Tail6(c1) % 64 = c1 % 64
      BY <1>1, <1>5, SMT
    <3> QED BY ONLY <1>2, <1>4, <2>5, <3>1, SMT
  <2>7. \A j \in 2..Len(e) :
            /\ IsContinuation(e[j])
            /\ 64 * Above(c, Len(e) - j + 1) + (e[j] % 64) = Above(c, Len(e) - j)
    <3>1. \A j \in 2..Len(e) : \/ j = 2 /\ Len(e) - j + 1 = 2 /\ Len(e) - j = 1
                               \/ j = 3 /\ Len(e) - j + 1 = 1 /\ Len(e) - j = 0
      BY <2>5
    <3> QED BY <2>6, <3>1
  <2>8. Payload(e[1]) = Above(c, Len(e) - 1)
    BY <1>4, <2>3, <2>5
  <2>9. Tells(e)
    BY <2>1, <2>3, <2>5, <2>7, <2>8
  <2> QED BY <2>2, <2>4, <2>9
<1>9. CASE ~(c < 128) /\ ~(c < 2048) /\ ~(c < 65536)
  <2> DEFINE b == 240 + c3
  <2>1. b \in 240..247 /\ b % 8 = c3
    BY <1>1, SMT
  <2>2. Encoded(c) = <<b, Tail6(c2), Tail6(c1), Tail6(c)>>
    BY <1>3, <1>9, SMT
  <2> HIDE DEF b
  <2>3. LengthAt(b) = 4 /\ Payload(b) = c3
    BY <2>1 DEF LengthAt, Payload
  <2>4. PICK e : e = <<b, Tail6(c2), Tail6(c1), Tail6(c)>>
    OBVIOUS
  <2>5. /\ e \in Seq(ByteValue) /\ Len(e) = 4 /\ e[1] = b
        /\ e[2] = Tail6(c2) /\ e[3] = Tail6(c1) /\ e[4] = Tail6(c)
    <3>1. /\ b \in ByteValue /\ Tail6(c) \in ByteValue
          /\ Tail6(c1) \in ByteValue /\ Tail6(c2) \in ByteValue
      <4>1. c \in Nat /\ c1 \in Nat /\ c2 \in Nat
        BY <1>1, SMT
      <4> QED BY <1>5, <2>1, <4>1 DEF ByteValue
    <3> QED BY <2>4, <3>1
  <2>6. /\ IsContinuation(e[2]) /\ 64 * Above(c, 3) + (e[2] % 64) = Above(c, 2)
        /\ IsContinuation(e[3]) /\ 64 * Above(c, 2) + (e[3] % 64) = Above(c, 1)
        /\ IsContinuation(e[4]) /\ 64 * Above(c, 1) + (e[4] % 64) = Above(c, 0)
    <3>1. IsContinuation(e[2]) /\ 64 * Above(c, 3) + (e[2] % 64) = Above(c, 2)
      <4>1. IsContinuation(Tail6(c2)) /\ Tail6(c2) % 64 = c2 % 64
        BY <1>1, <1>5, SMT
      <4> QED BY ONLY <1>2, <1>4, <2>5, <4>1, SMT
    <3>2. IsContinuation(e[3]) /\ 64 * Above(c, 2) + (e[3] % 64) = Above(c, 1)
      <4>1. IsContinuation(Tail6(c1)) /\ Tail6(c1) % 64 = c1 % 64
        BY <1>1, <1>5, SMT
      <4> QED BY ONLY <1>2, <1>4, <2>5, <4>1, SMT
    <3>3. IsContinuation(e[4]) /\ 64 * Above(c, 1) + (e[4] % 64) = Above(c, 0)
      <4>1. IsContinuation(Tail6(c)) /\ Tail6(c) % 64 = c % 64
        BY <1>1, <1>5, SMT
      <4> QED BY ONLY <1>2, <1>4, <2>5, <4>1, SMT
    <3> QED BY <3>1, <3>2, <3>3, SMT
  <2>7. \A j \in 2..Len(e) :
            /\ IsContinuation(e[j])
            /\ 64 * Above(c, Len(e) - j + 1) + (e[j] % 64) = Above(c, Len(e) - j)
    <3>1. \A j \in 2..Len(e) : \/ j = 2 /\ Len(e) - j + 1 = 3 /\ Len(e) - j = 2
                               \/ j = 3 /\ Len(e) - j + 1 = 2 /\ Len(e) - j = 1
                               \/ j = 4 /\ Len(e) - j + 1 = 1 /\ Len(e) - j = 0
      BY <2>5
    <3> QED BY <2>6, <3>1
  <2>8. Payload(e[1]) = Above(c, Len(e) - 1)
    BY <1>4, <2>3, <2>5
  <2>9. Tells(e)
    BY <2>1, <2>3, <2>5, <2>7, <2>8
  <2> QED BY <2>2, <2>4, <2>9
<1> HIDE DEF Tells
<1> QED BY <1>6, <1>7, <1>8, <1>9, SMT

\* What the recursion in Encoding computes: the encoding of each prefix.
IsFlattening(f, text0) ==
    f = [i \in 1..Len(text0) |-> IF i = 1 THEN Encoded(text0[i])
                                 ELSE f[i - 1] \o Encoded(text0[i])]

LEMMA FlatteningExists ==
    ASSUME NEW t \in Seq(CodePoint)
    PROVE  \E f : IsFlattening(f, t)
<1> DEFINE body(f, n) == [i \in 1..n |-> IF i = 1 THEN Encoded(t[i])
                                         ELSE f[i - 1] \o Encoded(t[i])]
           found(n) == \E f : f = body(f, n)
<1>1. Len(t) \in Nat
  OBVIOUS
<1>2. found(Len(t)) => \E f : IsFlattening(f, t)
  BY DEF IsFlattening
<1>3. found(0)
  <2>1. <<>> = body(<<>>, 0)
    OBVIOUS
  <2> QED BY <2>1
<1>4. ASSUME NEW n \in 1..Len(t), found(n - 1)
      PROVE  found(n)
  <2>1. PICK g : g = body(g, n - 1)
    BY <1>4
  <2> DEFINE last == IF n = 1 THEN Encoded(t[n]) ELSE g[n - 1] \o Encoded(t[n])
             h == [i \in 1..n |-> IF i = n THEN last ELSE g[i]]
  <2>2. n \in Nat /\ n > 0
    BY <1>1
  <2>3. ASSUME NEW i \in 1..n
        PROVE  h[i] = IF i = 1 THEN Encoded(t[i]) ELSE h[i - 1] \o Encoded(t[i])
    <3>1. CASE i = n
      <4>1. n # 1 => n - 1 \in 1..n /\ n - 1 # n
        BY <2>2
      <4>2. n # 1 => h[n - 1] = g[n - 1]
        BY <4>1
      <4>3. h[i] = last
        BY <3>1
      <4> HIDE DEF h
      <4> QED BY <3>1, <4>2, <4>3
    <3>2. CASE i # n
      <4>1. i \in 1..(n - 1)
        BY <2>2, <3>2
      <4>2. h[i] = g[i] /\ (i # 1 => i - 1 \in 1..n /\ i - 1 # n)
        BY <2>2, <3>2
      <4>3. i # 1 => h[i - 1] = g[i - 1]
        BY <4>2
      <4>4. g[i] = IF i = 1 THEN Encoded(t[i]) ELSE g[i - 1] \o Encoded(t[i])
        BY <2>1, <4>1
      <4> HIDE DEF h
      <4> QED BY <4>2, <4>3, <4>4
    <3> QED BY <3>1, <3>2
  <2>4. h = body(h, n)
    <3>1. h = [i \in 1..n |-> h[i]]
      OBVIOUS
    <3> HIDE DEF h
    <3> QED BY <2>3, <3>1
  <2> QED BY <2>4
<1> DEFINE S == {n \in 0..Len(t) : found(n)}
<1> HIDE DEF found
<1>5. \A n \in 0..Len(t) : n \in S
  <2>1. 0 \in S
    BY <1>1, <1>3
  <2>2. \A n \in 1..Len(t) : n - 1 \in S => n \in S
    BY <1>1, <1>4
  <2> HIDE DEF S
  <2> QED BY <1>1, <2>1, <2>2, UpTo
<1> QED BY <1>1, <1>2, <1>5

LEMMA EncodingIsFlattening ==
    ASSUME NEW t \in Seq(CodePoint)
    PROVE  \E f : /\ IsFlattening(f, t)
                  /\ Encoding(t) = IF Len(t) = 0 THEN <<>> ELSE f[Len(t)]
<1> DEFINE seqs == [i \in DOMAIN t |-> Encoded(t[i])]
           flatten == CHOOSE f : f = [i \in 1..Len(seqs) |->
                                         IF i = 1 THEN seqs[i] ELSE f[i - 1] \o seqs[i]]
<1>1. Len(seqs) = Len(t) /\ \A i \in 1..Len(t) : seqs[i] = Encoded(t[i])
  OBVIOUS
<1>2. Encoding(t) = IF Len(seqs) = 0 THEN seqs ELSE flatten[Len(seqs)]
  BY DEF Encoding, FlattenSeq
<1>3. \A f : [i \in 1..Len(seqs) |-> IF i = 1 THEN seqs[i] ELSE f[i - 1] \o seqs[i]]
                 = [i \in 1..Len(t) |-> IF i = 1 THEN Encoded(t[i])
                                        ELSE f[i - 1] \o Encoded(t[i])]
  BY <1>1
<1>4. Len(t) = 0 => seqs = <<>>
  OBVIOUS
<1> HIDE DEF seqs
<1>5. PICK f : IsFlattening(f, t)
  BY FlatteningExists
<1>6. \E g : g = [i \in 1..Len(seqs) |-> IF i = 1 THEN seqs[i] ELSE g[i - 1] \o seqs[i]]
  <2>1. f = [i \in 1..Len(seqs) |-> IF i = 1 THEN seqs[i] ELSE f[i - 1] \o seqs[i]]
    BY <1>3, <1>5 DEF IsFlattening
  <2> QED BY <2>1
<1>7. flatten = [i \in 1..Len(seqs) |->
                    IF i = 1 THEN seqs[i] ELSE flatten[i - 1] \o seqs[i]]
  BY <1>6
<1> HIDE DEF flatten
<1>8. IsFlattening(flatten, t)
  BY <1>3, <1>7 DEF IsFlattening
<1> QED BY <1>1, <1>2, <1>4, <1>8

LEMMA Joined ==
    ASSUME NEW S, NEW a \in Seq(S), NEW b \in Seq(S), NEW c, c = a \o b
    PROVE  /\ c \in Seq(S) /\ Len(c) = Len(a) + Len(b) /\ Len(a) \in Nat /\ Len(b) \in Nat
           /\ \A q \in 1..Len(a) : c[q] = a[q]
           /\ \A j \in 1..Len(b) : c[Len(a) + j] = b[j]
OBVIOUS

LEMMA FlatteningType ==
    ASSUME NEW t \in Seq(CodePoint), NEW f, IsFlattening(f, t)
    PROVE  \A n \in 1..Len(t) : f[n] \in Seq(ByteValue)
<1> DEFINE S == {n \in 0..Len(t) : n = 0 \/ f[n] \in Seq(ByteValue)}
<1>1. Len(t) \in Nat
  OBVIOUS
<1>2. ASSUME NEW n \in 1..Len(t), n - 1 \in S
      PROVE  n \in S
  <2>1. f[n] = IF n = 1 THEN Encoded(t[n]) ELSE f[n - 1] \o Encoded(t[n])
    BY DEF IsFlattening
  <2>2. Encoded(t[n]) \in Seq(ByteValue)
    BY EncodedBytes
  <2>3. n # 1 => f[n - 1] \in Seq(ByteValue)
    BY <1>1, <1>2
  <2>4. f[n] \in Seq(ByteValue)
    BY <2>1, <2>2, <2>3
  <2> QED BY <1>1, <2>4
<1>3. 0 \in S
  BY <1>1
<1>4. \A n \in 0..Len(t) : n \in S
  <2> HIDE DEF S
  <2> QED BY <1>1, <1>2, <1>3, UpTo
<1> QED BY <1>1, <1>4

\* Each of them begins with the one before.
LEMMA FlatteningGrows ==
    ASSUME NEW t \in Seq(CodePoint), NEW f, IsFlattening(f, t)
    PROVE  \A n \in 1..Len(t) :
               /\ f[n] \in Seq(ByteValue)
               /\ \A i \in 1..n : /\ Len(f[i]) <= Len(f[n])
                                  /\ \A q \in 1..Len(f[i]) : f[n][q] = f[i][q]
<1> DEFINE Grown(n) == /\ f[n] \in Seq(ByteValue)
                       /\ \A i \in 1..n : /\ Len(f[i]) <= Len(f[n])
                                          /\ \A q \in 1..Len(f[i]) : f[n][q] = f[i][q]
           S == {n \in 0..Len(t) : n = 0 \/ Grown(n)}
<1>1. Len(t) \in Nat
  OBVIOUS
<1>2. \A i \in 1..Len(t) : f[i] = IF i = 1 THEN Encoded(t[i]) ELSE f[i - 1] \o Encoded(t[i])
  BY DEF IsFlattening
<1>3. \A i \in 1..Len(t) : Encoded(t[i]) \in Seq(ByteValue)
  BY EncodedBytes
<1>4. ASSUME NEW n \in 1..Len(t), n = 1 \/ Grown(n - 1)
      PROVE  Grown(n)
  <2>1. CASE n = 1
    <3>1. f[1] \in Seq(ByteValue)
      BY <1>1, <1>2, <1>3, <2>1
    <3>2. \A i \in 1..n : i = 1
      BY <2>1
    <3> QED BY <2>1, <3>1, <3>2
  <2>2. CASE n # 1
    <3> DEFINE before == f[n - 1]
               more == Encoded(t[n])
    <3>1. /\ f[n] = before \o more /\ before \in Seq(ByteValue) /\ more \in Seq(ByteValue)
      BY <1>1, <1>2, <1>3, <1>4, <2>2
    <3> HIDE DEF before, more
    <3>2. /\ f[n] \in Seq(ByteValue) /\ Len(before) <= Len(f[n]) /\ Len(before) \in Nat
          /\ \A q \in 1..Len(before) : f[n][q] = before[q]
      <4>1. /\ f[n] \in Seq(ByteValue) /\ Len(f[n]) = Len(before) + Len(more)
            /\ Len(before) \in Nat /\ Len(more) \in Nat
            /\ \A q \in 1..Len(before) : f[n][q] = before[q]
        BY <3>1, Joined
      <4> QED BY <4>1
    <3>3. ASSUME NEW i \in 1..n
          PROVE  /\ Len(f[i]) <= Len(f[n])
                 /\ \A q \in 1..Len(f[i]) : f[n][q] = f[i][q]
      <4>1. CASE i = n
        BY <3>2, <4>1
      <4>2. CASE i # n
        <5>1. i \in 1..(n - 1)
          BY <1>1, <4>2
        <5>2. /\ Len(f[i]) <= Len(before) /\ \A q \in 1..Len(f[i]) : before[q] = f[i][q]
          BY <1>4, <2>2, <5>1 DEF before
        <5>3. Len(f[i]) \in Nat
          <6>1. f[i] \in Seq(ByteValue)
            BY <1>1, <5>1, FlatteningType
          <6> QED BY <6>1
        <5>4. \A q \in 1..Len(f[i]) : q \in 1..Len(before)
          BY <3>2, <5>2, <5>3
        <5>5. Len(f[i]) <= Len(f[n])
          BY <3>2, <5>2, <5>3
        <5> QED BY <3>2, <5>2, <5>4, <5>5
      <4> QED BY <4>1, <4>2
    <3> QED BY <3>2, <3>3
  <2> QED BY <2>1, <2>2
<1> HIDE DEF Grown
<1>5. \A n \in 0..Len(t) : n \in S
  <2>1. 0 \in S
    BY <1>1
  <2>2. \A n \in 1..Len(t) : n - 1 \in S => n \in S
    BY <1>1, <1>4
  <2> HIDE DEF S
  <2> QED BY <1>1, <2>1, <2>2, UpTo
<1>6. ASSUME NEW n \in 1..Len(t)
      PROVE  Grown(n)
  <2>1. n \in S /\ n # 0
    BY <1>1, <1>5
  <2> QED BY <2>1
<1> QED BY <1>6 DEF Grown

\* Where each code point of a text begins among its bytes.
Laid(bytes, t, start) ==
    /\ start \in [1..(Len(t) + 1) -> Nat \ {0}]
    /\ start[1] = 1 /\ start[Len(t) + 1] = Len(bytes)
    /\ \A i \in 1..Len(t) :
           /\ start[i + 1] = start[i] + Len(Encoded(t[i]))
           /\ \A j \in 1..Len(Encoded(t[i])) : bytes[start[i] + j - 1] = Encoded(t[i])[j]

LEMMA TextsAreLaid ==
    ASSUME NEW t \in Seq(CodePoint), NEW bytes, bytes = Encoding(t) \o << 0 >>
    PROVE  /\ bytes \in Seq(ByteValue) /\ Len(bytes) > 0 /\ bytes[Len(bytes)] = 0
           /\ \E start : Laid(bytes, t, start)
<1>1. PICK f : /\ IsFlattening(f, t)
               /\ Encoding(t) = IF Len(t) = 0 THEN <<>> ELSE f[Len(t)]
  BY EncodingIsFlattening
<1> DEFINE F == [i \in 0..Len(t) |-> IF i = 0 THEN <<>> ELSE f[i]]
           e == Encoding(t)
           start == [i \in 1..(Len(t) + 1) |-> Len(F[i - 1]) + 1]
<1>2. Len(t) \in Nat
  OBVIOUS
<1>3. e = F[Len(t)]
  BY <1>1, <1>2
<1>4. \A n \in 0..Len(t) :
          /\ F[n] \in Seq(ByteValue)
          /\ \A i \in 0..n : /\ Len(F[i]) <= Len(F[n])
                             /\ \A q \in 1..Len(F[i]) : F[n][q] = F[i][q]
  <2> SUFFICES ASSUME NEW n \in 0..Len(t)
               PROVE  /\ F[n] \in Seq(ByteValue)
                      /\ \A i \in 0..n : /\ Len(F[i]) <= Len(F[n])
                                         /\ \A q \in 1..Len(F[i]) : F[n][q] = F[i][q]
    OBVIOUS
  <2>1. F[n] \in Seq(ByteValue)
    BY <1>1, <1>2, FlatteningGrows
  <2>2. ASSUME NEW i \in 0..n
        PROVE  Len(F[i]) <= Len(F[n]) /\ \A q \in 1..Len(F[i]) : F[n][q] = F[i][q]
    <3>1. CASE i = 0
      <4>1. F[i] = <<>> /\ Len(F[i]) = 0
        BY <1>2, <3>1
      <4>2. Len(F[n]) \in Nat
        BY <2>1
      <4> HIDE DEF F
      <4> QED BY <4>1, <4>2
    <3>2. CASE i # 0
      <4>1. n \in 1..Len(t) /\ i \in 1..n /\ F[i] = f[i] /\ F[n] = f[n]
        BY <1>2, <3>2
      <4> HIDE DEF F
      <4> QED BY <1>1, <4>1, FlatteningGrows
    <3> QED BY <3>1, <3>2
  <2> QED BY <2>1, <2>2
<1>5. \A i \in 1..Len(t) : F[i] = F[i - 1] \o Encoded(t[i])
  <2> SUFFICES ASSUME NEW i \in 1..Len(t)
               PROVE  F[i] = F[i - 1] \o Encoded(t[i])
    OBVIOUS
  <2>1. f[i] = IF i = 1 THEN Encoded(t[i]) ELSE f[i - 1] \o Encoded(t[i])
    BY <1>1 DEF IsFlattening
  <2>2. Encoded(t[i]) \in Seq(ByteValue)
    BY EncodedBytes
  <2>3. CASE i = 1
    <3>1. F[i] = Encoded(t[i]) /\ F[i - 1] = <<>>
      BY <1>2, <2>1, <2>3
    <3> HIDE DEF F
    <3> QED BY <2>2, <3>1
  <2>4. CASE i # 1
    <3>1. F[i] = f[i] /\ F[i - 1] = f[i - 1]
      BY <1>2, <2>4
    <3> HIDE DEF F
    <3> QED BY <2>1, <2>4, <3>1
  <2> QED BY <2>3, <2>4
<1> HIDE DEF F
<1>6. /\ e \in Seq(ByteValue) /\ bytes \in Seq(ByteValue) /\ Len(bytes) = Len(e) + 1
      /\ bytes[Len(bytes)] = 0 /\ \A q \in 1..Len(e) : bytes[q] = e[q]
  <2>1. e \in Seq(ByteValue)
    BY <1>2, <1>3, <1>4
  <2> HIDE DEF e
  <2>2. PICK zero : zero = <<0>>
    OBVIOUS
  <2>3. bytes = e \o zero /\ zero \in Seq(ByteValue) /\ Len(zero) = 1 /\ zero[1] = 0
    BY <2>2 DEF e, ByteValue
  <2>4. /\ bytes \in Seq(ByteValue) /\ Len(bytes) = Len(e) + Len(zero) /\ Len(e) \in Nat
        /\ \A q \in 1..Len(e) : bytes[q] = e[q]
        /\ \A j \in 1..Len(zero) : bytes[Len(e) + j] = zero[j]
    <3> HIDE DEF e
    <3>1. e \in Seq(ByteValue) /\ zero \in Seq(ByteValue) /\ bytes = e \o zero
      BY <2>1, <2>3
    <3> QED BY ONLY <3>1, Joined
  <2>5. Len(bytes) = Len(e) + 1 /\ bytes[Len(e) + 1] = 0
    BY <2>3, <2>4
  <2> QED BY <2>1, <2>4, <2>5
<1> HIDE DEF e
<1>7. start \in [1..(Len(t) + 1) -> Nat \ {0}] /\ start[1] = 1 /\ start[Len(t) + 1] = Len(bytes)
  <2>1. \A i \in 1..(Len(t) + 1) : i - 1 \in 0..Len(t) /\ Len(F[i - 1]) \in Nat
    BY <1>2, <1>4
  <2>2. start \in [1..(Len(t) + 1) -> Nat \ {0}]
    BY <2>1
  <2>3. 1 \in 1..(Len(t) + 1) /\ Len(t) + 1 \in 1..(Len(t) + 1) /\ Len(t) + 1 - 1 = Len(t)
    BY <1>2
  <2>4. F[0] = <<>>
    BY <1>2 DEF F
  <2> QED BY <1>3, <1>6, <2>2, <2>3, <2>4
<1>8. ASSUME NEW i \in 1..Len(t)
      PROVE  /\ start[i + 1] = start[i] + Len(Encoded(t[i]))
             /\ \A j \in 1..Len(Encoded(t[i])) : bytes[start[i] + j - 1] = Encoded(t[i])[j]
  <2> DEFINE before == F[i - 1]
             here == Encoded(t[i])
  <2>1. /\ i - 1 \in 0..Len(t) /\ i \in 0..Len(t) /\ i + 1 \in 1..(Len(t) + 1)
        /\ i \in 1..(Len(t) + 1) /\ i + 1 - 1 = i
    BY <1>2
  <2>2. start[i + 1] = Len(F[i]) + 1 /\ start[i] = Len(before) + 1
    BY <2>1
  <2> HIDE DEF start
  <2>3. /\ F[i] = before \o here /\ before \in Seq(ByteValue) /\ here \in Seq(ByteValue)
    <3>1. t[i] \in CodePoint
      BY <1>2
    <3> QED BY <1>4, <1>5, <2>1, <3>1, EncodedBytes
  <2>4. /\ Len(F[i]) <= Len(e) /\ \A q \in 1..Len(F[i]) : e[q] = F[i][q]
    BY <1>2, <1>3, <1>4, <2>1
  <2> HIDE DEF before, here
  <2>5. /\ Len(F[i]) = Len(before) + Len(here) /\ Len(before) \in Nat /\ Len(here) \in Nat
        /\ \A j \in 1..Len(here) : F[i][Len(before) + j] = here[j]
    BY <2>3, Joined
  <2>6. ASSUME NEW j \in 1..Len(here)
        PROVE  bytes[start[i] + j - 1] = here[j]
    <3>0. j \in Nat /\ 1 <= j /\ j <= Len(here) /\ Len(before) \in Nat
          /\ Len(F[i]) = Len(before) + Len(here) /\ Len(here) \in Nat
      BY <2>5, <2>6
    <3>1. start[i] + j - 1 = Len(before) + j /\ Len(before) + j \in 1..Len(F[i])
      BY <2>2, <3>0
    <3>2. Len(before) + j \in 1..Len(e)
      BY <1>6, <2>4, <2>5, <3>1
    <3>3. F[i][Len(before) + j] = here[j]
      BY <2>5
    <3>4. bytes[Len(before) + j] = e[Len(before) + j]
      BY <1>6, <3>2
    <3>5. e[Len(before) + j] = F[i][Len(before) + j]
      BY <2>4, <3>1
    <3> QED BY <3>1, <3>3, <3>4, <3>5
  <2>7. start[i + 1] = start[i] + Len(here)
    BY <2>2, <2>5
  <2>8. \A j \in 1..Len(here) : bytes[start[i] + j - 1] = here[j]
    BY <2>6
  <2> QED BY <2>7, <2>8 DEF here
<1>9. Laid(bytes, t, start)
  BY <1>7, <1>8 DEF Laid
<1>10. Len(bytes) > 0
  BY <1>6
<1> QED BY <1>6, <1>9, <1>10

-----------------------------------------------------------------------------
\* The bytes end with a zero, which is never passed.
BytesInv ==
    /\ s \in Seq(ByteValue) /\ Len(s) > 0 /\ s[Len(s)] = 0
    /\ p \in 1..Len(s)
    /\ rest \in 0..3 /\ cp \in Int

ArrayInv ==
    codepoints \in Seq(Int) /\ cap \in Nat \ {0} /\ Len(codepoints) <= cap

\* What has been decoded is a prefix of the text, and the next byte belongs to
\* the code point after it.
Reached(start) ==
    LET k == Len(codepoints) IN
    /\ k <= Len(text) /\ \A i \in 1..k : codepoints[i] = text[i]
    /\ rest = 0 => p = start[k + 1]
    /\ rest > 0 => /\ k < Len(text) /\ start[k + 1] < p /\ p + rest = start[k + 2]
                   /\ cp = Above(text[k + 1], rest)

Decoding ==
    /\ text \in Seq(CodePoint)
    /\ \E start : Laid(s, text, start) /\ Reached(start)
    /\ outcome # "invalid"
    /\ outcome = "done" => codepoints = text

Utf8Inv == BytesInv /\ ArrayInv /\ (text # NoText => Decoding)

LEMMA Utf8InvInit == Utf8Init => Utf8Inv
<1> SUFFICES ASSUME Utf8Init
             PROVE  Utf8Inv
  OBVIOUS
<1>1. /\ p = 1 /\ cp = 0 /\ rest = 0 /\ codepoints = <<>> /\ cap = InitialCap
      /\ outcome = "running"
  BY DEF Utf8Init
<1>2. ArrayInv
  BY <1>1, SMT, Utf8Assumption DEF ArrayInv
<1>3. CASE text \in BoundedSeq(Alphabet, MaxText) /\ s = Encoding(text) \o <<0>>
  <2>1. text \in Seq(CodePoint)
    <3>1. Alphabet \subseteq CodePoint /\ MaxText \in Nat
      BY SMT, Utf8Assumption DEF CodePoint
    <3>2. text \in Seq(Alphabet)
      BY <1>3, <3>1 DEF BoundedSeq, SeqOf
    <3> QED BY <3>1, <3>2
  <2>2. /\ s \in Seq(ByteValue) /\ Len(s) > 0 /\ s[Len(s)] = 0
        /\ \E start : Laid(s, text, start)
    BY <1>3, <2>1, TextsAreLaid
  <2>3. BytesInv
    BY <1>1, <2>2 DEF BytesInv
  <2>4. PICK start : Laid(s, text, start)
    BY <2>2
  <2>5. Reached(start)
    BY <1>1, <2>1, <2>4 DEF Reached, Laid
  <2>6. Decoding
    BY <1>1, <2>1, <2>4, <2>5 DEF Decoding
  <2> QED BY <1>2, <2>3, <2>6 DEF Utf8Inv
<1>4. CASE text = NoText /\ \E b \in BoundedSeq(Byte, MaxBytes) : s = b \o <<0>>
  <2>1. PICK b \in BoundedSeq(Byte, MaxBytes) : s = b \o <<0>>
    BY <1>4
  <2>2. Byte \subseteq ByteValue /\ MaxBytes \in Nat
    BY SMT, Utf8Assumption DEF ByteValue
  <2>3. b \in Seq(ByteValue)
    BY <2>2 DEF BoundedSeq, SeqOf
  <2>4. PICK zero : zero = <<0>>
    OBVIOUS
  <2>5. s = b \o zero /\ zero \in Seq(ByteValue) /\ Len(zero) = 1 /\ zero[1] = 0
    BY <2>1, <2>4 DEF ByteValue
  <2>6. /\ s \in Seq(ByteValue) /\ Len(s) = Len(b) + Len(zero) /\ Len(b) \in Nat
        /\ \A j \in 1..Len(zero) : s[Len(b) + j] = zero[j]
    <3>1. b \in Seq(ByteValue) /\ zero \in Seq(ByteValue) /\ s = b \o zero
      BY <2>3, <2>5
    <3> QED BY ONLY <3>1, Joined
  <2>7. BytesInv
    <3>1. Len(s) = Len(b) + 1 /\ s[Len(b) + 1] = 0
      BY <2>5, <2>6
    <3> QED BY <1>1, <2>6, <3>1 DEF BytesInv
  <2> QED BY <1>2, <1>4, <2>7 DEF Utf8Inv
<1> QED BY <1>3, <1>4 DEF Utf8Init

\* A byte that is not zero is not the last one.
LEMMA ReadOn ==
    ASSUME BytesInv, s[p] # 0
    PROVE  p + 1 \in 1..Len(s)
BY DEF BytesInv

LEMMA StoreKeepsArray ==
    ASSUME ArrayInv, NEW c \in Int, StoreCodepoint(c)
    PROVE  /\ ArrayInv'
           /\ Len(codepoints') = Len(codepoints) + 1
           /\ codepoints'[Len(codepoints) + 1] = c
           /\ \A i \in 1..Len(codepoints) : codepoints'[i] = codepoints[i]
BY DEF ArrayInv, StoreCodepoint

\* A byte that the decoder accepts: what is left of the code point is r bytes,
\* and c is what it knows of it.
LEMMA AcceptKeepsInv ==
    ASSUME Utf8Inv, outcome = "running", s[p] # 0,
           NEW c \in Int, NEW r \in 0..3,
           cp' = c, rest' = r, p' = p + 1,
           IF rest' = 0 THEN StoreCodepoint(cp') ELSE UNCHANGED <<codepoints, cap>>,
           UNCHANGED <<s, text, outcome>>,
           \A start : text # NoText /\ text \in Seq(CodePoint) /\ Laid(s, text, start)
                          /\ Reached(start) =>
               LET k == Len(codepoints) IN
               /\ k < Len(text) /\ start[k + 1] < p + 1 /\ p + 1 + r = start[k + 2]
               /\ c = Above(text[k + 1], r)
    PROVE  Utf8Inv'
<1>1. BytesInv'
  <2>1. p + 1 \in 1..Len(s)
    BY ReadOn DEF Utf8Inv
  <2> QED BY <2>1 DEF Utf8Inv, BytesInv
<1>2. ArrayInv /\ codepoints \in Seq(Int) /\ Len(codepoints) \in Nat
  BY DEF Utf8Inv, ArrayInv
<1>3. /\ ArrayInv'
      /\ r = 0 => /\ Len(codepoints') = Len(codepoints) + 1
                  /\ codepoints'[Len(codepoints) + 1] = c
                  /\ \A i \in 1..Len(codepoints) : codepoints'[i] = codepoints[i]
      /\ r # 0 => codepoints' = codepoints
  <2>1. CASE r = 0
    <3>1. StoreCodepoint(c)
      BY <2>1
    <3> QED BY <1>2, <2>1, <3>1, StoreKeepsArray
  <2>2. CASE r # 0
    BY <1>2, <2>2 DEF ArrayInv
  <2> QED BY <2>1, <2>2
<1>4. ASSUME text # NoText
      PROVE  Decoding'
  <2>1. text \in Seq(CodePoint) /\ Len(text) \in Nat
    BY <1>4 DEF Utf8Inv, Decoding
  <2>2. PICK start : Laid(s, text, start) /\ Reached(start)
    BY <1>4 DEF Utf8Inv, Decoding
  <2> DEFINE k == Len(codepoints)
  <2>3. /\ k < Len(text) /\ start[k + 1] < p + 1 /\ p + 1 + r = start[k + 2]
        /\ c = Above(text[k + 1], r)
    BY <1>4, <2>1, <2>2
  <2>4. \A i \in 1..k : codepoints[i] = text[i]
    BY <2>2 DEF Reached
  <2>5. k \in Nat /\ p \in Nat
    BY <1>2 DEF Utf8Inv, BytesInv
  <2> HIDE DEF k
  <2>6. CASE r = 0
    <3>1. /\ Len(codepoints') = k + 1 /\ codepoints'[k + 1] = c
          /\ \A i \in 1..k : codepoints'[i] = codepoints[i]
      BY <1>3, <2>6 DEF k
    <3>2. c = text[k + 1]
      BY <2>3, <2>6 DEF Above
    <3>3. \A i \in 1..(k + 1) : codepoints'[i] = text[i]
      BY <2>4, <2>5, <3>1, <3>2
    <3>4. p + 1 = start[k + 2] /\ k + 1 <= Len(text)
      BY <2>1, <2>3, <2>5, <2>6
    <3>5. Reached(start)'
      BY <2>5, <2>6, <3>1, <3>3, <3>4 DEF Reached
    <3> QED BY <2>1, <2>2, <3>5 DEF Decoding
  <2>7. CASE r # 0
    <3>1. Reached(start)'
      BY <1>3, <2>3, <2>4, <2>5, <2>7 DEF Reached, k
    <3> QED BY <2>1, <2>2, <3>1 DEF Decoding
  <2> QED BY <2>6, <2>7
<1> QED BY <1>1, <1>3, <1>4 DEF Utf8Inv

\* Where the decoder looks for a leading byte there is one, or the text ends.
LEMMA LeadIsThere ==
    ASSUME Utf8Inv, text # NoText, rest = 0,
           NEW start, Laid(s, text, start), Reached(start)
    PROVE  LET k == Len(codepoints) IN
           \/ k = Len(text) /\ s[p] = 0
           \/ /\ k < Len(text) /\ text[k + 1] \in CodePoint
              /\ p = start[k + 1] /\ s[p] = Encoded(text[k + 1])[1]
              /\ start[k + 2] = p + Len(Encoded(text[k + 1]))
<1> DEFINE k == Len(codepoints)
<1>1. /\ text \in Seq(CodePoint) /\ Len(text) \in Nat /\ k \in Nat /\ k <= Len(text)
      /\ p = start[k + 1] /\ p \in Nat
  BY DEF Utf8Inv, ArrayInv, BytesInv, Decoding, Reached
<1>2. CASE k = Len(text)
  BY <1>1, <1>2 DEF Laid, Utf8Inv, BytesInv
<1>3. CASE k < Len(text)
  <2>1. k + 1 \in 1..Len(text) /\ k + 1 + 1 = k + 2
    BY <1>1, <1>3
  <2>2. text[k + 1] \in CodePoint
    BY <1>1, <2>1
  <2> DEFINE e == Encoded(text[k + 1])
  <2>3. Len(e) \in 1..4
    BY <2>2, EncodedBytes
  <2>4. start[k + 2] = p + Len(e) /\ \A j \in 1..Len(e) : s[p + j - 1] = e[j]
    BY <1>1, <2>1 DEF Laid
  <2> HIDE DEF e
  <2>5. 1 \in 1..Len(e) /\ p + 1 - 1 = p
    <3>1. p \in Nat /\ Len(e) \in 1..4
      BY <1>1, <2>3
    <3> QED BY ONLY <3>1
  <2>6. s[p] = e[1]
    BY <2>4, <2>5
  <2> QED BY <1>1, <1>3, <2>2, <2>4, <2>6 DEF e
<1> QED BY <1>1, <1>2, <1>3

LEMMA LeadKeepsInv ==
    ASSUME Utf8Inv, Lead
    PROVE  Utf8Inv'
<1> DEFINE b == s[p]
<1>1. outcome = "running" /\ rest = 0 /\ b \in ByteValue
  BY DEF Lead, Utf8Inv, BytesInv
<1>2. CASE b = 0
  <2>1. /\ outcome' = "done" /\ UNCHANGED <<s, text, p, cp, rest, codepoints, cap>>
    BY <1>2 DEF Lead
  <2>2. BytesInv' /\ ArrayInv'
    BY <2>1 DEF Utf8Inv, BytesInv, ArrayInv
  <2>3. ASSUME text # NoText
        PROVE  Decoding'
    <3>1. text \in Seq(CodePoint)
      BY <2>3 DEF Utf8Inv, Decoding
    <3>2. PICK start : Laid(s, text, start) /\ Reached(start)
      BY <2>3 DEF Utf8Inv, Decoding
    <3>3. Len(codepoints) = Len(text)
      <4>1. Len(codepoints) < Len(text) => Encoded(text[Len(codepoints) + 1])[1] # 0
        BY <1>1, <2>3, <3>2, LeadIsThere, EncodedBytes
      <4> QED BY <1>1, <1>2, <2>3, <3>2, <4>1, LeadIsThere
    <3>4. codepoints = text
      <4>1. \A i \in 1..Len(text) : codepoints[i] = text[i]
        BY <3>2, <3>3 DEF Reached
      <4>2. codepoints \in Seq(Int)
        BY DEF Utf8Inv, ArrayInv
      <4> QED BY <3>1, <3>3, <4>1, <4>2
    <3>5. Reached(start)'
      BY <2>1, <3>2 DEF Reached
    <3> QED BY <2>1, <3>1, <3>2, <3>4, <3>5 DEF Decoding
  <2> QED BY <2>1, <2>2, <2>3 DEF Utf8Inv
<1>3. CASE b # 0 /\ LengthAt(b) = 0
  <2>1. /\ outcome' = "invalid" /\ UNCHANGED <<s, text, p, cp, rest, codepoints, cap>>
    BY <1>3 DEF Lead, Fail
  <2>2. BytesInv' /\ ArrayInv'
    BY <2>1 DEF Utf8Inv, BytesInv, ArrayInv
  <2>3. ASSUME text # NoText
        PROVE  FALSE
    <3>1. PICK start : Laid(s, text, start) /\ Reached(start)
      BY <2>3 DEF Utf8Inv, Decoding
    <3>2. /\ text[Len(codepoints) + 1] \in CodePoint
          /\ b = Encoded(text[Len(codepoints) + 1])[1]
      BY <1>1, <1>3, <2>3, <3>1, LeadIsThere
    <3>3. LengthAt(b) \in 1..4
      BY <3>2, EncodedBytes
    <3> QED BY <1>3, <3>3
  <2> QED BY <2>1, <2>2, <2>3 DEF Utf8Inv
<1>4. CASE b # 0 /\ LengthAt(b) # 0
  <2> DEFINE c == Payload(b)
             r == LengthAt(b) - 1
  <2>1. /\ cp' = c /\ rest' = r /\ p' = p + 1
        /\ IF rest' = 0 THEN StoreCodepoint(cp') ELSE UNCHANGED <<codepoints, cap>>
        /\ UNCHANGED <<s, text, outcome>>
    BY <1>4 DEF Lead
  <2>2. c \in Int /\ r \in 0..3
    BY <1>1, <1>4 DEF ByteValue, Payload, LengthAt
  <2>3. ASSUME NEW start, text # NoText, text \in Seq(CodePoint), Laid(s, text, start),
               Reached(start)
        PROVE  LET k == Len(codepoints) IN
               /\ k < Len(text) /\ start[k + 1] < p + 1 /\ p + 1 + r = start[k + 2]
               /\ c = Above(text[k + 1], r)
    <3> DEFINE k == Len(codepoints)
    <3>1. /\ k < Len(text) /\ text[k + 1] \in CodePoint
          /\ p = start[k + 1] /\ b = Encoded(text[k + 1])[1]
          /\ start[k + 2] = p + Len(Encoded(text[k + 1]))
      BY <1>1, <1>4, <2>3, LeadIsThere
    <3>2. /\ LengthAt(b) = Len(Encoded(text[k + 1])) /\ LengthAt(b) \in 1..4
          /\ Payload(b) = Above(text[k + 1], Len(Encoded(text[k + 1])) - 1)
      <4>1. PICK d \in CodePoint : d = text[k + 1]
        BY <3>1
      <4>2. b = Encoded(d)[1]
        BY <3>1, <4>1
      <4>3. /\ LengthAt(Encoded(d)[1]) = Len(Encoded(d)) /\ Len(Encoded(d)) \in 1..4
            /\ Payload(Encoded(d)[1]) = Above(d, Len(Encoded(d)) - 1)
        BY EncodedBytes
      <4> QED BY ONLY <4>1, <4>2, <4>3
    <3>3. p \in Nat
      BY DEF Utf8Inv, BytesInv
    <3>4. c = Above(text[k + 1], r)
      BY <3>2
    <3> HIDE DEF c
    <3>5. p + 1 + r = start[k + 2]
      <4>1. PICK n : n = LengthAt(b) /\ n \in 1..4 /\ start[k + 2] = p + n
        BY <3>1, <3>2
      <4>2. p + 1 + (n - 1) = p + n
        BY ONLY <3>3, <4>1
      <4> QED BY <4>1, <4>2
    <3>6. start[k + 1] < p + 1
      BY <3>1, <3>3
    <3> QED BY <3>1, <3>4, <3>5, <3>6
  <2> HIDE DEF c, r
  <2> QED BY <1>1, <1>4, <2>1, <2>2, <2>3, AcceptKeepsInv
<1> QED BY <1>2, <1>3, <1>4

\* Where the decoder looks for a continuation byte there is the one that it
\* needs.
LEMMA ContinuationIsThere ==
    ASSUME Utf8Inv, text # NoText, rest > 0,
           NEW start, Laid(s, text, start), Reached(start)
    PROVE  LET k == Len(codepoints) IN
           /\ k < Len(text) /\ start[k + 1] < p /\ p + rest = start[k + 2]
           /\ IsContinuation(s[p])
           /\ 64 * cp + (s[p] % 64) = Above(text[k + 1], rest - 1)
<1> DEFINE k == Len(codepoints)
<1>1. /\ text \in Seq(CodePoint) /\ Len(text) \in Nat /\ k \in Nat /\ k < Len(text)
      /\ start[k + 1] < p /\ p + rest = start[k + 2] /\ cp = Above(text[k + 1], rest)
      /\ p \in Nat /\ rest \in 1..3
  BY DEF Utf8Inv, ArrayInv, BytesInv, Decoding, Reached
<1>2. k + 1 \in 1..Len(text) /\ k + 1 + 1 = k + 2
  BY <1>1
<1>3. text[k + 1] \in CodePoint
  BY <1>1, <1>2
<1> DEFINE e == Encoded(text[k + 1])
           first == start[k + 1]
           j == p - first + 1
<1>4. /\ Len(e) \in 1..4
      /\ \A i \in 2..Len(e) :
             /\ IsContinuation(e[i])
             /\ 64 * Above(text[k + 1], Len(e) - i + 1) + (e[i] % 64)
                    = Above(text[k + 1], Len(e) - i)
  BY <1>3, EncodedBytes
<1>5. /\ first \in Nat /\ start[k + 2] = first + Len(e)
      /\ \A i \in 1..Len(e) : s[first + i - 1] = e[i]
  <2>1. k + 1 \in 1..(Len(text) + 1)
    BY <1>1
  <2> QED BY <1>2, <2>1 DEF Laid
<1>6. first < p
  BY <1>1
<1> HIDE DEF e, first
<1>7. /\ j \in 2..Len(e) /\ j \in 1..Len(e) /\ first + j - 1 = p
      /\ Len(e) - j + 1 = rest /\ Len(e) - j = rest - 1
  <2>1. /\ first \in Nat /\ p \in Nat /\ first < p /\ p + rest = first + Len(e)
        /\ Len(e) \in 1..4 /\ rest \in 1..3
    BY <1>1, <1>4, <1>5, <1>6
  <2> QED BY <2>1
<1> HIDE DEF j
<1>8. s[p] = e[j]
  BY <1>5, <1>7
<1>9. IsContinuation(e[j]) /\ 64 * Above(text[k + 1], rest) + (e[j] % 64)
                                  = Above(text[k + 1], rest - 1)
  BY <1>4, <1>7
<1> QED BY <1>1, <1>8, <1>9

LEMMA ContinuationKeepsInv ==
    ASSUME Utf8Inv, Continuation
    PROVE  Utf8Inv'
<1> DEFINE b == s[p]
<1>1. outcome = "running" /\ rest > 0 /\ b \in ByteValue /\ rest \in 1..3 /\ cp \in Int
  BY DEF Continuation, Utf8Inv, BytesInv
<1>2. CASE ~IsContinuation(b)
  <2>1. /\ outcome' = "invalid" /\ UNCHANGED <<s, text, p, cp, rest, codepoints, cap>>
    BY <1>2 DEF Continuation, Fail
  <2>2. BytesInv' /\ ArrayInv'
    BY <2>1 DEF Utf8Inv, BytesInv, ArrayInv
  <2>3. ASSUME text # NoText
        PROVE  FALSE
    <3>1. PICK start : Laid(s, text, start) /\ Reached(start)
      BY <2>3 DEF Utf8Inv, Decoding
    <3> QED BY <1>1, <1>2, <2>3, <3>1, ContinuationIsThere
  <2> QED BY <2>1, <2>2, <2>3 DEF Utf8Inv
<1>3. CASE IsContinuation(b)
  <2> DEFINE c == 64 * cp + (b % 64)
             r == rest - 1
  <2>1. /\ cp' = c /\ rest' = r /\ p' = p + 1
        /\ IF rest' = 0 THEN StoreCodepoint(cp') ELSE UNCHANGED <<codepoints, cap>>
        /\ UNCHANGED <<s, text, outcome>>
    BY <1>3 DEF Continuation
  <2>2. c \in Int /\ r \in 0..3 /\ b # 0
    BY <1>1, <1>3 DEF ByteValue, IsContinuation
  <2>3. ASSUME NEW start, text # NoText, text \in Seq(CodePoint), Laid(s, text, start),
               Reached(start)
        PROVE  LET k == Len(codepoints) IN
               /\ k < Len(text) /\ start[k + 1] < p + 1 /\ p + 1 + r = start[k + 2]
               /\ c = Above(text[k + 1], r)
    <3> DEFINE k == Len(codepoints)
    <3>1. /\ k < Len(text) /\ start[k + 1] < p /\ p + rest = start[k + 2]
          /\ c = Above(text[k + 1], r)
      BY <1>1, <2>3, ContinuationIsThere
    <3>2. p \in Nat /\ start[k + 1] \in Nat
      <4>1. Len(text) \in Nat /\ k \in Nat /\ k + 1 \in 1..(Len(text) + 1)
        BY <2>3, <3>1 DEF Utf8Inv, ArrayInv
      <4>2. p \in Nat
        BY DEF Utf8Inv, BytesInv
      <4>3. start[k + 1] \in Nat
        BY <2>3, <4>1 DEF Laid
      <4> QED BY <4>2, <4>3
    <3> QED BY <1>1, <3>1, <3>2
  <2> HIDE DEF c, r
  <2> QED BY <1>1, <2>1, <2>2, <2>3, AcceptKeepsInv
<1> QED BY <1>2, <1>3

LEMMA Utf8InvHolds == Utf8Spec => []Utf8Inv
<1>1. Utf8Inv /\ [Utf8Next]_utf8Vars => Utf8Inv'
  <2> SUFFICES ASSUME Utf8Inv, [Utf8Next]_utf8Vars
               PROVE  Utf8Inv'
    OBVIOUS
  <2>1. CASE OutOfMemory \/ UNCHANGED utf8Vars
    <3>1. /\ UNCHANGED <<s, text, p, cp, rest, codepoints, cap>>
          /\ outcome' = outcome \/ outcome' = "no memory"
      BY <2>1 DEF OutOfMemory, utf8Vars
    <3>2. BytesInv' /\ ArrayInv'
      BY <3>1 DEF Utf8Inv, BytesInv, ArrayInv
    <3>3. Decoding => Decoding'
      BY <3>1 DEF Decoding, Reached
    <3> QED BY <3>1, <3>2, <3>3 DEF Utf8Inv
  <2> QED BY <2>1, LeadKeepsInv, ContinuationKeepsInv DEF Utf8Next
<1> QED BY <1>1, Utf8InvInit, PTL DEF Utf8Spec

\* Nothing is read behind the terminating zero and nothing is written behind
\* the array, for any bytes.
THEOREM DecoderStaysWithinBounds == Utf8Spec => []WithinBounds
<1>1. Utf8Inv => WithinBounds
  BY DEF Utf8Inv, BytesInv, ArrayInv, WithinBounds
<1> QED BY <1>1, Utf8InvHolds, PTL

\* Any text is decoded to itself, and is never refused as invalid.
THEOREM DecoderInvertsEncoding == Utf8Spec => []DecodesTexts
<1>1. Utf8Inv => DecodesTexts
  BY DEF Utf8Inv, Decoding, DecodesTexts
<1> QED BY <1>1, Utf8InvHolds, PTL

-----------------------------------------------------------------------------
(* The extension of a path *)

IsPath == path \in Seq({Dot, Slash, Letter, End}) /\ Len(path) > 0

EndOnlyLast == \A i \in 1..Len(path) : path[i] = End <=> i = Len(path)

NoDotUpTo(n) == \A i \in 1..Len(path) : i <= n => path[i] # Dot

IsFirstDot(n) ==
    n \in 1..(Len(path) - 1) /\ path[n] = Dot /\ NoDotUpTo(n - 1)

\* Where the loops are, and what they have passed.
LookingInv ==
    stage = "looking" =>
        /\ pos \in 0..Len(path)
        /\ ind = IF pos = 0 THEN path[1] ELSE path[pos]
        /\ NoDotUpTo(pos)

FoundInv == stage = "found" => pos \in Nat /\ ind = Dot /\ IsFirstDot(pos + 1)

MeasuringInv ==
    stage = "measuring" =>
        /\ pos \in Nat /\ end \in Nat /\ pos <= end
        /\ \/ ind = End /\ NoDotUpTo(Len(path))
           \/ ind # End /\ end < Len(path) /\ IsFirstDot(pos)

DoneInv ==
    stage = "done" =>
        /\ pos \in Nat /\ end \in Nat /\ pos <= end
        /\ NoDotUpTo(Len(path)) \/ (end = Len(path) - 1 /\ IsFirstDot(pos))

ExtInv ==
    /\ IsPath /\ EndOnlyLast
    /\ stage \in {"looking", "found", "measuring", "done"}
    /\ LookingInv /\ FoundInv /\ MeasuringInv /\ DoneInv

LEMMA PathsEndOnce ==
    ASSUME ExtInit
    PROVE  IsPath /\ EndOnlyLast /\ path[1] # Dot
<1>1. CASE path = <<End>>
  BY <1>1, PathAssumption DEF IsPath, EndOnlyLast
<1>2. ASSUME NEW word \in BoundedSeq({Dot, Slash, Letter}, MaxPath),
             path = <<Slash>> \o word \o <<Letter, End>>
      PROVE  IsPath /\ EndOnlyLast /\ path[1] # Dot
  <2> DEFINE before == <<Slash>> \o word
             n == Len(word)
  <2>1. word \in Seq({Dot, Slash, Letter}) /\ n \in Nat
    BY PathAssumption DEF BoundedSeq, SeqOf
  <2>2. before \in Seq({Dot, Slash, Letter}) /\ Len(before) = n + 1 /\ before[1] = Slash
    BY <2>1
  <2> HIDE DEF before
  <2>3. path = before \o <<Letter, End>>
    BY <1>2 DEF before
  <2>4. /\ path \in Seq({Dot, Slash, Letter, End}) /\ Len(path) = n + 3
        /\ \A i \in 1..(n + 1) : path[i] = before[i]
        /\ path[n + 2] = Letter /\ path[n + 3] = End
    BY <2>1, <2>2, <2>3
  <2>5. \A i \in 1..(n + 1) : path[i] # End
    BY <2>1, <2>2, <2>4, PathAssumption
  <2> HIDE DEF n
  <2>6. \A i \in 1..Len(path) : i \in 1..(n + 1) \/ i = n + 2 \/ i = n + 3
    BY <2>1, <2>4
  <2>7. EndOnlyLast
    BY <2>1, <2>4, <2>5, <2>6, PathAssumption DEF EndOnlyLast
  <2> QED BY <2>1, <2>2, <2>4, <2>7, PathAssumption DEF IsPath
<1> QED BY <1>1, <1>2 DEF ExtInit

LEMMA ExtInvInit == ExtInit => ExtInv
<1> SUFFICES ASSUME ExtInit
             PROVE  ExtInv
  OBVIOUS
<1>1. /\ ind = path[1] /\ pos = 0 /\ stage = "looking"
  BY DEF ExtInit
<1>2. IsPath /\ EndOnlyLast
  BY PathsEndOnce
<1> QED
  BY <1>1, <1>2
  DEF ExtInv, LookingInv, FoundInv, MeasuringInv, DoneInv, IsPath, NoDotUpTo

LEMMA LookKeepsInv ==
    ASSUME ExtInv, Look
    PROVE  ExtInv'
<1>1. /\ stage = "looking" /\ ind # End /\ ind' = path[pos + 1] /\ path' = path
      /\ pos' = IF ind' = Dot THEN pos ELSE pos + 1
      /\ stage' = IF ind' = Dot THEN "found" ELSE stage
  BY DEF Look, At
<1>2. /\ pos \in 0..Len(path) /\ NoDotUpTo(pos) /\ Len(path) \in Nat /\ Len(path) > 0
      /\ ind = IF pos = 0 THEN path[1] ELSE path[pos]
      /\ IsPath /\ EndOnlyLast
  BY <1>1 DEF ExtInv, LookingInv, IsPath
<1>3. pos < Len(path)
  BY <1>1, <1>2 DEF EndOnlyLast
<1>4. IsPath' /\ EndOnlyLast'
  BY <1>1, <1>2 DEF IsPath, EndOnlyLast
<1>5. CASE path[pos + 1] = Dot
  <2>1. ind' = Dot /\ pos' = pos /\ stage' = "found"
    BY <1>1, <1>5
  <2>2. pos + 1 # Len(path)
    BY <1>2, <1>3, <1>5, PathAssumption DEF EndOnlyLast
  <2>3. IsFirstDot(pos + 1)'
    BY <1>1, <1>2, <1>3, <1>5, <2>1, <2>2 DEF IsFirstDot, NoDotUpTo
  <2> QED BY <1>2, <1>4, <2>1, <2>3 DEF ExtInv, LookingInv, FoundInv, MeasuringInv, DoneInv
<1>6. CASE path[pos + 1] # Dot
  <2>1. ind' = path[pos + 1] /\ pos' = pos + 1 /\ stage' = "looking"
    BY <1>1, <1>6
  <2>2. NoDotUpTo(pos)'
    BY <1>1, <1>2, <1>3, <1>6, <2>1 DEF NoDotUpTo
  <2> QED
    BY <1>1, <1>2, <1>3, <1>4, <2>1, <2>2
    DEF ExtInv, LookingInv, FoundInv, MeasuringInv, DoneInv
<1> QED BY <1>5, <1>6

LEMMA StepOverKeepsInv ==
    ASSUME ExtInv, StepOver
    PROVE  ExtInv'
<1>1. /\ stage = "found" \/ (stage = "looking" /\ ind = End)
      /\ pos' = pos + 1 /\ end' = pos + 1 /\ stage' = "measuring"
      /\ path' = path /\ ind' = ind
  BY DEF StepOver
<1>2. IsPath /\ EndOnlyLast /\ Len(path) \in Nat
  BY DEF ExtInv, IsPath
<1>3. IsPath' /\ EndOnlyLast'
  BY <1>1, <1>2 DEF IsPath, EndOnlyLast
<1>4. CASE stage = "found"
  <2>1. pos \in Nat /\ ind = Dot /\ IsFirstDot(pos + 1)
    BY <1>4 DEF ExtInv, FoundInv
  <2>2. IsFirstDot(pos)' /\ end' < Len(path')
    BY <1>1, <1>2, <2>1 DEF IsFirstDot, NoDotUpTo
  <2> QED
    BY <1>1, <1>3, <2>1, <2>2, PathAssumption
    DEF ExtInv, LookingInv, FoundInv, MeasuringInv, DoneInv
<1>5. CASE stage = "looking" /\ ind = End
  <2>1. /\ pos \in 0..Len(path) /\ NoDotUpTo(pos)
        /\ ind = IF pos = 0 THEN path[1] ELSE path[pos]
    BY <1>5 DEF ExtInv, LookingInv
  <2>2. pos = Len(path) \/ (pos = 0 /\ Len(path) = 1)
    <3>1. path[1] = End <=> 1 = Len(path)
      <4>1. 1 \in 1..Len(path)
        BY <1>2 DEF IsPath
      <4> QED BY <1>2, <4>1 DEF EndOnlyLast
    <3>2. pos # 0 => pos \in 1..Len(path) /\ (path[pos] = End <=> pos = Len(path))
      BY <1>2, <2>1 DEF EndOnlyLast
    <3> QED BY <1>5, <2>1, <3>1, <3>2
  <2>3. NoDotUpTo(Len(path))
    <3>1. CASE pos = Len(path)
      BY <2>1, <3>1
    <3>2. CASE pos = 0 /\ Len(path) = 1
      <4>1. path[1] # Dot
        BY <1>5, <2>1, <3>2, PathAssumption
      <4> QED BY <3>2, <4>1 DEF NoDotUpTo
    <3> QED BY <2>2, <3>1, <3>2
  <2>4. NoDotUpTo(Len(path))'
    BY <1>1, <2>3 DEF NoDotUpTo
  <2> QED
    BY <1>1, <1>3, <1>5, <2>1, <2>4
    DEF ExtInv, LookingInv, FoundInv, MeasuringInv, DoneInv
<1> QED BY <1>1, <1>4, <1>5

LEMMA MeasureKeepsInv ==
    ASSUME ExtInv, Measure
    PROVE  ExtInv'
<1>1. stage = "measuring" /\ path' = path /\ pos' = pos
  BY DEF Measure
<1>2. /\ IsPath /\ EndOnlyLast /\ Len(path) \in Nat
      /\ pos \in Nat /\ end \in Nat /\ pos <= end
      /\ \/ ind = End /\ NoDotUpTo(Len(path))
         \/ ind # End /\ end < Len(path) /\ IsFirstDot(pos)
  BY <1>1 DEF ExtInv, MeasuringInv, IsPath
<1>3. /\ IsPath' /\ EndOnlyLast'
      /\ NoDotUpTo(Len(path)) => NoDotUpTo(Len(path))'
      /\ IsFirstDot(pos) => IsFirstDot(pos)'
  BY <1>1, <1>2 DEF IsPath, EndOnlyLast, NoDotUpTo, IsFirstDot
<1>4. CASE ind = End
  <2>1. stage' = "done" /\ end' = end
    BY <1>4 DEF Measure
  <2> QED
    BY <1>1, <1>2, <1>3, <1>4, <2>1 DEF ExtInv, LookingInv, FoundInv, MeasuringInv, DoneInv
<1>5. CASE ind # End /\ path[end + 1] = End
  <2>1. stage' = "done" /\ end' = end
    BY <1>5 DEF Measure, At
  <2>2. end + 1 = Len(path)
    BY <1>2, <1>5 DEF EndOnlyLast
  <2> QED
    BY <1>1, <1>2, <1>3, <1>5, <2>1, <2>2
    DEF ExtInv, LookingInv, FoundInv, MeasuringInv, DoneInv
<1>6. CASE ind # End /\ path[end + 1] # End
  <2>1. stage' = "measuring" /\ end' = end + 1 /\ ind' = path[end + 1]
    BY <1>1, <1>6 DEF Measure, At
  <2>2. end + 1 < Len(path)
    BY <1>2, <1>6 DEF EndOnlyLast
  <2> QED
    BY <1>1, <1>2, <1>3, <1>6, <2>1, <2>2
    DEF ExtInv, LookingInv, FoundInv, MeasuringInv, DoneInv
<1> QED BY <1>4, <1>5, <1>6

LEMMA ExtInvHolds == ExtSpec => []ExtInv
<1>1. ExtInv /\ [ExtNext]_extVars => ExtInv'
  <2> SUFFICES ASSUME ExtInv, [ExtNext]_extVars
               PROVE  ExtInv'
    OBVIOUS
  <2>1. CASE UNCHANGED extVars
    BY <2>1
    DEF extVars, ExtInv, IsPath, EndOnlyLast, LookingInv, FoundInv, MeasuringInv, DoneInv,
        NoDotUpTo, IsFirstDot
  <2> QED BY <2>1, LookKeepsInv, StepOverKeepsInv, MeasureKeepsInv DEF ExtNext
<1> QED BY <1>1, ExtInvInit, PTL DEF ExtSpec

\* Neither loop of get_file_name_extension reads behind the path.
THEOREM LoopsStayWithinPath == ExtSpec => []ScansWithinPath
<1>1. ASSUME ExtInv
      PROVE  ScansWithinPath
  <2>1. ASSUME stage = "looking", ind # End
        PROVE  pos < Len(path)
    BY <1>1, <2>1 DEF ExtInv, LookingInv, IsPath, EndOnlyLast
  <2>2. ASSUME stage = "measuring", ind # End
        PROVE  end < Len(path)
    BY <1>1, <2>2 DEF ExtInv, MeasuringInv
  <2>3. ASSUME stage = "done"
        PROVE  end >= pos
    BY <1>1, <2>3 DEF ExtInv, DoneInv
  <2> QED BY <2>1, <2>2, <2>3 DEF ScansWithinPath
<1> QED BY <1>1, ExtInvHolds, PTL

\* A path with one dot, in its last component, has the extension that
\* get_file_name_extension finds, however long it is.
THEOREM ExtensionFound == ExtSpec => []OneDotFound
<1>1. ASSUME ExtInv
      PROVE  OneDotFound
  <2> SUFFICES ASSUME NEW d \in DOMAIN path, stage = "done", Indices(Dot) = {d},
                      \A j \in Indices(Slash) : j < d
               PROVE  Result = FileNameExtension
    BY DEF OneDotFound
  <2>1. path \in Seq({Dot, Slash, Letter, End}) /\ Len(path) \in Nat /\ d \in 1..Len(path)
    BY <1>1 DEF ExtInv, IsPath
  <2>2. path[d] = Dot
    BY DEF Indices
  <2>3. IsFirstDot(pos) /\ end = Len(path) - 1 /\ pos \in Nat
    BY <1>1, <2>1, <2>2 DEF ExtInv, DoneInv, NoDotUpTo
  <2>4. pos = d
    BY <2>1, <2>3 DEF IsFirstDot, Indices
  <2> DEFINE name == {i \in DOMAIN path : \A j \in Indices(Slash) : i > j}
             dots == Indices(Dot) \cap name
             starts == {i + 1 : i \in dots}
  <2>5. dots = {d}
    BY <2>1, <2>2 DEF Indices
  <2>6. starts = {d + 1}
    BY <2>5
  <2>7. (CHOOSE e \in starts : \A f \in dots : f < e) = d + 1
    BY <2>1, <2>5, <2>6
  <2>8. FileNameExtension = SubSeq(path, d + 1, Len(path) - 1)
    BY <2>5, <2>7 DEF FileNameExtension
  <2>9. Result = [i \in 1..(Len(path) - 1 - d) |-> path[d + i]]
    <3>1. ASSUME NEW i \in 1..(Len(path) - 1 - d)
          PROVE  At(d + i - 1) = path[d + i]
      BY <2>1 DEF At
    <3> QED BY <2>3, <2>4, <3>1 DEF Result
  <2>10. SubSeq(path, d + 1, Len(path) - 1) = [i \in 1..(Len(path) - 1 - d) |-> path[d + i]]
    BY <2>1
  <2> QED BY <2>8, <2>9, <2>10
<1> QED BY <1>1, ExtInvHolds, PTL

-----------------------------------------------------------------------------
(* The digits of the countdown *)

FaceIsCurrent ==
    /\ countdown \in Nat \cup {NoCountdown}
    /\ countdown >= 0 /\ face # NoFace => face = CountdownFace(countdown)

LEMMA DigitsReadBack ==
    ASSUME NEW ms \in Nat
    PROVE  LET shown == CountdownFace(ms) IN
           /\ shown.small \in 0..59 /\ shown.tiny \in 0..99
           /\ 6000 * shown.big + 100 * shown.small + shown.tiny = ms \div 10
<1> DEFINE total == ms \div 1000
           left == ms - 1000 * total
<1>1. total \in Nat /\ left \in 0..999 /\ ms = 1000 * total + left
  OBVIOUS
<1> HIDE DEF total, left
<1>2. /\ total % 60 \in 0..59 /\ total \div 60 \in Nat
      /\ 60 * (total \div 60) + (total % 60) = total
  BY <1>1
<1>3. left \div 10 \in 0..99 /\ ms \div 10 = 100 * total + (left \div 10)
  BY <1>1
<1>4. CountdownFace(ms) = [big |-> total \div 60, small |-> total % 60, tiny |-> left \div 10]
  BY DEF CountdownFace, total, left
<1> QED BY <1>1, <1>2, <1>3, <1>4

\* The countdown that is on the screen is the countdown, in digits that are
\* each within their range, however long it is.
THEOREM CountdownIsShown == FaceSpec => []CountdownReadable
<1>1. FaceInit => FaceIsCurrent
  BY DEF FaceInit, FaceIsCurrent, NoCountdown
<1>2. FaceIsCurrent /\ [FaceNext]_faceVars => FaceIsCurrent'
  <2> SUFFICES ASSUME FaceIsCurrent, [FaceNext]_faceVars
               PROVE  FaceIsCurrent'
    OBVIOUS
  <2>1. CASE RenderClock
    BY <2>1 DEF RenderClock, FaceIsCurrent
  <2>2. CASE Advance
    <3>1. face' = NoFace
      BY <2>2 DEF Advance
    <3>2. countdown' \in Nat \cup {NoCountdown}
      BY <2>2, FaceAssumption DEF Advance, FaceIsCurrent, NoCountdown
    <3> QED BY <3>1, <3>2 DEF FaceIsCurrent, NoFace
  <2>3. CASE UNCHANGED faceVars
    BY <2>3 DEF faceVars, FaceIsCurrent
  <2> QED BY <2>1, <2>2, <2>3 DEF FaceNext
<1>3. FaceIsCurrent => CountdownReadable
  <2> SUFFICES ASSUME FaceIsCurrent, countdown >= 0, face # NoFace
               PROVE  /\ face.small \in 0..59 /\ face.tiny \in 0..99
                      /\ 6000 * face.big + 100 * face.small + face.tiny = countdown \div 10
    BY DEF CountdownReadable
  <2>1. face = CountdownFace(countdown) /\ countdown \in Nat
    BY DEF FaceIsCurrent, NoCountdown
  <2> QED BY <2>1, DigitsReadBack
<1> QED BY <1>1, <1>2, <1>3, PTL DEF FaceSpec

-----------------------------------------------------------------------------
(* The glyph table *)

\* The array has room: count is below the capacity, unless there is no array.
CountHasRoom == count < capacity \/ (count = 0 /\ capacity = 0)

\* The slots of the old array that adjust_capacity has passed.
Done == {x \in Used(entries, capacity) : x < moved}

\* The new array holds no more than what was moved to it.
FreshHasMoved ==
    call # None => Cardinality(Used(fresh, GrowCapacity(capacity))) <= Cardinality(Done)

GlyphInv ==
    /\ GlyphTypeOK
    /\ CountHasRoom
    /\ Cardinality(Used(entries, capacity)) <= count
    /\ FreshHasMoved

-----------------------------------------------------------------------------
LEMMA GrowCapacityGrows ==
    ASSUME NEW total \in Nat
    PROVE  GrowCapacity(total) \in Nat /\ GrowCapacity(total) > total /\ GrowCapacity(total) > 1
  BY DEF GrowCapacity

LEMMA UsedFinite ==
    ASSUME NEW array, NEW total \in Nat
    PROVE  /\ IsFiniteSet(Used(array, total))
           /\ Cardinality(Used(array, total)) \in Nat
<1>1. IsFiniteSet(Slot(total))
  BY FS_Interval DEF Slot
<1>2. Used(array, total) \in SUBSET Slot(total)
  BY DEF Used
<1> QED BY <1>1, <1>2, FS_Subset, FS_CardinalityType

\* A slot that is filled is at most one more in use, and none if it was.
LEMMA UsedAfterStore ==
    ASSUME NEW total \in Nat, NEW array \in [Slot(total) -> Entry], NEW slot, NEW entry \in Entry
    PROVE  LET after == [array EXCEPT ![slot] = entry] IN
           /\ after \in [Slot(total) -> Entry]
           /\ Cardinality(Used(after, total)) <= Cardinality(Used(array, total)) + 1
           /\ array[slot].key # 0 =>
                  Cardinality(Used(after, total)) <= Cardinality(Used(array, total))
<1> DEFINE after == [array EXCEPT ![slot] = entry]
<1>1. after \in [Slot(total) -> Entry]
  OBVIOUS
<1>2. \A x \in Slot(total) : x # slot => after[x] = array[x]
  OBVIOUS
<1> HIDE DEF after
<1>3. /\ IsFiniteSet(Used(array, total)) /\ Cardinality(Used(array, total)) \in Nat
      /\ IsFiniteSet(Used(after, total)) /\ Cardinality(Used(after, total)) \in Nat
  BY UsedFinite
<1>4. Cardinality(Used(after, total)) <= Cardinality(Used(array, total)) + 1
  <2>1. Used(after, total) \in SUBSET (Used(array, total) \cup {slot})
    BY <1>2 DEF Used
  <2> DEFINE used == Used(array, total)
             more == used \cup {slot}
  <2> HIDE DEF used
  <2>a. IsFiniteSet(used) /\ Cardinality(used) \in Nat
    BY <1>3 DEF used
  <2>b. /\ IsFiniteSet(more)
        /\ slot \in used => Cardinality(more) = Cardinality(used)
        /\ slot \notin used => Cardinality(more) = Cardinality(used) + 1
    BY <2>a, FS_AddElement
  <2>2. /\ IsFiniteSet(Used(array, total) \cup {slot})
        /\ Cardinality(Used(array, total) \cup {slot}) <= Cardinality(Used(array, total)) + 1
        /\ Cardinality(Used(array, total) \cup {slot}) \in Nat
    BY <2>a, <2>b DEF used
  <2>3. Cardinality(Used(after, total)) <= Cardinality(Used(array, total) \cup {slot})
    BY <2>1, <2>2, FS_Subset
  <2> QED BY <1>3, <2>2, <2>3
<1>5. ASSUME array[slot].key # 0
      PROVE  Cardinality(Used(after, total)) <= Cardinality(Used(array, total))
  <2>1. Used(after, total) \in SUBSET Used(array, total)
    BY <1>2, <1>5 DEF Used
  <2> QED BY <1>3, <2>1, FS_Subset
<1> QED BY <1>1, <1>4, <1>5 DEF after

\* The same for the end of table_set, which also counts.
LEMMA StoreCounts ==
    ASSUME NEW total \in Nat, NEW array \in [Slot(total) -> Entry],
           NEW key \in Key, NEW value \in Glyph,
           count \in Nat, Cardinality(Used(array, total)) <= count,
           Store(array, total, key, value)
    PROVE  /\ entries' \in [Slot(total) -> Entry]
           /\ count' \in Nat /\ count' <= count + 1
           /\ Cardinality(Used(entries', total)) <= count'
<1> DEFINE slot == FindEntry(array, total, key)
           entry == [key |-> key, value |-> value]
<1>1. entry \in Entry
  BY DEF Entry
<1>2. /\ count' = (IF array[slot].key = 0 THEN count + 1 ELSE count)
      /\ entries' = [array EXCEPT ![slot] = entry]
  BY DEF Store
<1> HIDE DEF slot, entry
<1>3. /\ entries' \in [Slot(total) -> Entry]
      /\ Cardinality(Used(entries', total)) <= Cardinality(Used(array, total)) + 1
      /\ array[slot].key # 0 =>
             Cardinality(Used(entries', total)) <= Cardinality(Used(array, total))
  BY <1>1, <1>2, UsedAfterStore
<1>4. Cardinality(Used(array, total)) \in Nat /\ Cardinality(Used(entries', total)) \in Nat
  BY UsedFinite
<1> QED BY <1>2, <1>3, <1>4

LEMMA DoneBounds ==
    ASSUME GlyphInv
    PROVE  /\ IsFiniteSet(Done) /\ Cardinality(Done) \in Nat
           /\ Cardinality(Done) <= count
           /\ call # None => Cardinality(Done) <= capacity
<1>1. /\ capacity \in Nat /\ count \in Nat
      /\ Cardinality(Used(entries, capacity)) <= count /\ CountHasRoom
  BY DEF GlyphInv, GlyphTypeOK
<1>2. IsFiniteSet(Used(entries, capacity)) /\ Cardinality(Used(entries, capacity)) \in Nat
  BY <1>1, UsedFinite
<1>3. Done \in SUBSET Used(entries, capacity)
  BY DEF Done
<1>4. /\ IsFiniteSet(Done) /\ Cardinality(Done) \in Nat
      /\ Cardinality(Done) <= Cardinality(Used(entries, capacity))
  BY <1>2, <1>3, FS_Subset, FS_CardinalityType
<1> QED BY <1>1, <1>2, <1>4 DEF CountHasRoom

-----------------------------------------------------------------------------
LEMMA GlyphInvInit == GlyphInit => GlyphInv
<1> SUFFICES ASSUME GlyphInit
             PROVE  GlyphInv
  OBVIOUS
<1>1. Slot(0) = {}
  BY DEF Slot
<1>2. Used(entries, capacity) = {} /\ entries \in [Slot(capacity) -> Entry]
  <2>1. entries = <<>> /\ capacity = 0
    BY DEF GlyphInit
  <2> QED BY <1>1, <2>1 DEF Used
<1>3. Cardinality(Used(entries, capacity)) = 0
  BY <1>2, FS_EmptySet
<1> QED
  BY <1>2, <1>3 DEF GlyphInit, GlyphInv, GlyphTypeOK, CountHasRoom, FreshHasMoved

LEMMA SetInPlaceKeepsInv ==
    ASSUME GlyphInv, NEW k \in Key, NEW v \in Glyph, SetInPlace(k, v)
    PROVE  GlyphInv'
<1>1. /\ call = None /\ call' = None /\ fresh' = fresh /\ moved' = moved /\ capacity' = capacity
      /\ 4 * (count + 1) <= 3 * capacity
      /\ Store(entries, capacity, k, v)
  <2>1. ~(4 * (count + 1) > 3 * capacity)
    BY DEF SetInPlace, NeedsRoom
  <2> QED BY <2>1 DEF SetInPlace, growVars, GlyphInv, GlyphTypeOK
<1>2. /\ count \in Nat /\ capacity \in Nat /\ entries \in [Slot(capacity) -> Entry]
      /\ Cardinality(Used(entries, capacity)) <= count
  BY DEF GlyphInv, GlyphTypeOK
<1>3. /\ entries' \in [Slot(capacity) -> Entry] /\ count' \in Nat /\ count' <= count + 1
      /\ Cardinality(Used(entries', capacity)) <= count'
  BY <1>1, <1>2, StoreCounts
<1>4. count' < capacity
  BY <1>1, <1>2, <1>3
<1> QED
  BY <1>1, <1>2, <1>3, <1>4
  DEF GlyphInv, GlyphTypeOK, CountHasRoom, FreshHasMoved

LEMMA BeginGrowKeepsInv ==
    ASSUME GlyphInv, NEW k \in Key, NEW v \in Glyph, BeginGrow(k, v)
    PROVE  GlyphInv'
<1> DEFINE total == GrowCapacity(capacity)
<1>1. /\ UNCHANGED <<count, capacity, entries>>
      /\ call' = [key |-> k, value |-> v] /\ moved' = 0
      /\ fresh' = [x \in Slot(total) |-> [key |-> 0, value |-> Blank]]
  BY DEF BeginGrow, tableVars
<1>2. capacity \in Nat
  BY DEF GlyphInv, GlyphTypeOK
<1> HIDE DEF total
<1>3. fresh' \in [Slot(total) -> Entry]
  <2>1. [key |-> 0, value |-> Blank] \in Entry
    BY DEF Entry
  <2> QED BY <1>1, <2>1
<1>4. Used(fresh', total) = {}
  BY <1>1 DEF Used
<1>5. Cardinality(Used(fresh', total)) = 0
  BY <1>4, FS_EmptySet
<1>6. /\ GlyphTypeOK'
      /\ CountHasRoom' /\ Cardinality(Used(entries, capacity))' <= count'
  <2>1. call' \in [key : Key, value : Glyph] /\ call' # None
    BY <1>1 DEF None
  <2>2. moved' \in 0..capacity'
    BY <1>1, <1>2
  <2> QED
    BY <1>1, <1>3, <2>1, <2>2 DEF GlyphInv, GlyphTypeOK, CountHasRoom, total
<1>7. Cardinality(Done') \in Nat
  <2>1. IsFiniteSet(Used(entries', capacity')) /\ Done' \in SUBSET Used(entries', capacity')
    BY <1>1, <1>2, UsedFinite DEF Done
  <2> QED BY <2>1, FS_Subset, FS_CardinalityType
<1> QED BY <1>1, <1>5, <1>6, <1>7 DEF GlyphInv, FreshHasMoved, total

LEMMA MoveEntryKeepsInv ==
    ASSUME GlyphInv, MoveEntry
    PROVE  GlyphInv'
<1> DEFINE total == GrowCapacity(capacity)
           slot == FindEntry(fresh, total, entries[moved].key)
<1>1. /\ call # None /\ moved < capacity
      /\ UNCHANGED <<count, capacity, entries, call>> /\ moved' = moved + 1
      /\ fresh' = (IF entries[moved].key = 0 THEN fresh
                   ELSE [fresh EXCEPT ![slot] = entries[moved]])
  BY DEF MoveEntry, tableVars
<1>2. /\ capacity \in Nat /\ moved \in 0..capacity /\ entries \in [Slot(capacity) -> Entry]
      /\ fresh \in [Slot(total) -> Entry] /\ call \in [key : Key, value : Glyph]
  BY <1>1 DEF GlyphInv, GlyphTypeOK
<1>3. moved \in Slot(capacity) /\ entries[moved] \in Entry /\ total \in Nat
  BY <1>1, <1>2, GrowCapacityGrows DEF Slot
<1> HIDE DEF total, slot
<1>4. fresh' \in [Slot(total) -> Entry]
  BY <1>1, <1>2, <1>3
<1>5. GlyphTypeOK'
  <2>1. moved' \in 0..capacity'
    BY <1>1, <1>2
  <2> QED BY <1>1, <1>4, <2>1 DEF GlyphInv, GlyphTypeOK, total
<1>6. /\ Cardinality(Used(fresh, total)) <= Cardinality(Done)
      /\ IsFiniteSet(Done) /\ Cardinality(Done) \in Nat
      /\ Cardinality(Used(fresh, total)) \in Nat /\ Cardinality(Used(fresh', total)) \in Nat
  BY <1>1, <1>3, DoneBounds, UsedFinite DEF GlyphInv, FreshHasMoved, total
<1>7. Cardinality(Used(fresh', total)) <= Cardinality(Done')
  <2>1. CASE entries[moved].key = 0
    <3>1. Done' = Done
      BY <1>1, <1>2, <2>1 DEF Done, Used, Slot
    <3> QED BY <1>1, <1>6, <2>1, <3>1
  <2>2. CASE entries[moved].key # 0
    <3>1. Done' = Done \cup {moved} /\ moved \notin Done
      BY <1>1, <1>2, <1>3, <2>2 DEF Done, Used, Slot
    <3>2. Cardinality(Done') = Cardinality(Done) + 1
      BY <1>6, <3>1, FS_AddElement
    <3>3. fresh' = [fresh EXCEPT ![slot] = entries[moved]]
      BY <1>1, <2>2
    <3>4. Cardinality(Used(fresh', total)) <= Cardinality(Used(fresh, total)) + 1
      BY <1>2, <1>3, <3>3, UsedAfterStore
    <3> QED BY <1>6, <3>2, <3>4
  <2> QED BY <2>1, <2>2
<1> QED
  BY <1>1, <1>5, <1>7 DEF GlyphInv, CountHasRoom, FreshHasMoved, total

LEMMA FinishGrowKeepsInv ==
    ASSUME GlyphInv, FinishGrow
    PROVE  GlyphInv'
<1> DEFINE total == GrowCapacity(capacity)
<1>1. /\ call # None /\ moved = capacity
      /\ capacity' = total /\ Store(fresh, total, call.key, call.value)
      /\ call' = None /\ fresh' = <<>> /\ moved' = 0
  BY DEF FinishGrow
<1>2. /\ capacity \in Nat /\ count \in Nat /\ CountHasRoom
      /\ fresh \in [Slot(total) -> Entry]
      /\ call.key \in Key /\ call.value \in Glyph
  BY <1>1 DEF GlyphInv, GlyphTypeOK
<1>3. total \in Nat /\ total > capacity /\ total > 1
  BY <1>2, GrowCapacityGrows
<1> HIDE DEF total
<1>4. Cardinality(Used(fresh, total)) <= count
  <2>1. /\ Cardinality(Used(fresh, total)) <= Cardinality(Done)
        /\ Cardinality(Done) <= count /\ Cardinality(Done) \in Nat
    BY <1>1, DoneBounds DEF GlyphInv, FreshHasMoved, total
  <2>2. Cardinality(Used(fresh, total)) \in Nat
    BY <1>3, UsedFinite
  <2> QED BY <1>2, <2>1, <2>2
<1>5. /\ entries' \in [Slot(total) -> Entry] /\ count' \in Nat /\ count' <= count + 1
      /\ Cardinality(Used(entries', total)) <= count'
  BY <1>1, <1>2, <1>3, <1>4, StoreCounts
<1>6. count' < capacity'
  BY <1>1, <1>2, <1>3, <1>5 DEF CountHasRoom
<1> QED
  BY <1>1, <1>3, <1>5, <1>6 DEF GlyphInv, GlyphTypeOK, CountHasRoom, FreshHasMoved

LEMMA GlyphInvNext ==
    ASSUME GlyphInv, [GlyphNext]_glyphVars
    PROVE  GlyphInv'
<1>1. ASSUME NEW k \in Key, NEW v \in Glyph, TableSet(k, v)
      PROVE  GlyphInv'
  BY <1>1, SetInPlaceKeepsInv, BeginGrowKeepsInv DEF TableSet
<1>2. CASE MoveEntry
  BY <1>2, MoveEntryKeepsInv
<1>3. CASE FinishGrow
  BY <1>3, FinishGrowKeepsInv
<1>4. CASE UNCHANGED glyphVars
  BY <1>4
  DEF glyphVars, tableVars, growVars, GlyphInv, GlyphTypeOK, CountHasRoom, FreshHasMoved,
      Done, Used
<1> QED BY <1>1, <1>2, <1>3, <1>4 DEF GlyphNext

LEMMA GlyphInvariant == GlyphSpec => []GlyphInv
<1>1. GlyphInit => GlyphInv
  BY GlyphInvInit
<1>2. GlyphInv /\ [GlyphNext]_glyphVars => GlyphInv'
  BY GlyphInvNext
<1> QED BY <1>1, <1>2, PTL DEF GlyphSpec

\* Arrays and counts have their types, for any keys and any hash.
THEOREM GlyphTypeCorrect == GlyphSpec => []GlyphTypeOK
<1>1. GlyphInv => GlyphTypeOK
  BY DEF GlyphInv
<1> QED BY <1>1, GlyphInvariant, PTL

\* A set that is smaller than the array leaves a slot free.
LEMMA SlotLeft ==
    ASSUME NEW total \in Nat, NEW array, Cardinality(Used(array, total)) < total
    PROVE  Used(array, total) # Slot(total)
<1>1. Cardinality(Slot(total)) = total
  <2>1. Cardinality(0..(total - 1)) = IF 0 > total - 1 THEN 0 ELSE (total - 1) - 0 + 1
    BY FS_Interval
  <2> QED BY <2>1 DEF Slot
<1> QED BY <1>1

LEMMA RoomLeft ==
    ASSUME GlyphInv
    PROVE  ProbesEnd
<1>1. /\ capacity \in Nat /\ count \in Nat /\ CountHasRoom
      /\ Cardinality(Used(entries, capacity)) <= count
      /\ Cardinality(Used(entries, capacity)) \in Nat
  BY UsedFinite DEF GlyphInv, GlyphTypeOK
<1>2. capacity > 0 => Used(entries, capacity) # Slot(capacity)
  BY <1>1, SlotLeft DEF CountHasRoom
<1>3. ASSUME call # None
      PROVE  Used(fresh, GrowCapacity(capacity)) # Slot(GrowCapacity(capacity))
  <2>1. /\ GrowCapacity(capacity) \in Nat /\ GrowCapacity(capacity) > capacity
        /\ Cardinality(Used(fresh, GrowCapacity(capacity))) \in Nat
    BY <1>1, GrowCapacityGrows, UsedFinite
  <2>2. /\ Cardinality(Used(fresh, GrowCapacity(capacity))) <= Cardinality(Done)
        /\ Cardinality(Done) <= capacity /\ Cardinality(Done) \in Nat
    BY <1>3, DoneBounds DEF GlyphInv, FreshHasMoved
  <2> QED BY <1>1, <2>1, <2>2, SlotLeft
<1> QED BY <1>1, <1>2, <1>3 DEF ProbesEnd

\* Every probe ends: the array of the table and the one that adjust_capacity
\* fills always have a free slot, however often key 0 is stored
\* (map.c 42-54, 58-61).
THEOREM GlyphProbesEnd == GlyphSpec => []ProbesEnd
<1>1. GlyphInv => ProbesEnd
  BY RoomLeft
<1> QED BY <1>1, GlyphInvariant, PTL

\* Where a probe for the key may end.
Ends(array, total, key, slot) ==
    /\ slot \in Slot(total)
    /\ array[slot].key \in {0, key}
    /\ \A x \in Passed(Home(key, total), slot, total) : array[x].key \notin {0, key}

LEMMA HomeInSlot ==
    ASSUME NEW total \in Nat, total > 0, NEW key \in Key
    PROVE  Home(key, total) \in Slot(total)
<1>1. Hash[key] \in Nat
  BY HashAssumption
<1> QED BY <1>1 DEF Home, Slot

\* A probe ends in one place only: of two slots one is passed on the way to
\* the other.
LEMMA EndsOnce ==
    ASSUME NEW total \in Nat, total > 0, NEW array, NEW key \in Key, NEW x, NEW t,
           Ends(array, total, key, x), Ends(array, total, key, t)
    PROVE  x = t
<1>1. Home(key, total) \in Slot(total) /\ x \in Slot(total) /\ t \in Slot(total)
  BY HomeInSlot DEF Ends
<1>2. x = t \/ x \in Passed(Home(key, total), t, total) \/ t \in Passed(Home(key, total), x, total)
  BY <1>1 DEF Passed, Slot
<1> QED BY <1>2 DEF Ends

\* In an array with a free slot find_entry ends.
LEMMA FindEntryEnds ==
    ASSUME NEW total \in Nat, NEW array, NEW key \in Key,
           Used(array, total) # Slot(total)
    PROVE  Ends(array, total, key, FindEntry(array, total, key))
<1> DEFINE home == Home(key, total)
           stops == {x \in Slot(total) : array[x].key \in {0, key}}
           ahead == {x \in stops : home <= x}
<1>1. stops # {}
  BY DEF Used
<1>2. total > 0 /\ home \in Slot(total)
  <2>1. total > 0
    BY <1>1 DEF Slot
  <2> QED BY <2>1, HomeInSlot
<1>3. stops \subseteq Nat /\ ahead \subseteq Nat
  BY DEF Slot
<1>4. \E slot : Ends(array, total, key, slot)
  <2>1. CASE ahead # {}
    <3>1. PICK slot \in ahead : \A m \in ahead : slot <= m
      BY <1>3, <2>1, SmallestOf
    <3>2. \A x \in Passed(home, slot, total) : x \in Slot(total) /\ home <= x /\ x < slot
      BY <1>2, <3>1 DEF Passed, Slot
    <3>3. \A x \in Passed(home, slot, total) : array[x].key \notin {0, key}
      BY <1>3, <3>1, <3>2 DEF Slot
    <3> QED BY <3>1, <3>3 DEF Ends
  <2>2. CASE ahead = {}
    <3>1. PICK slot \in stops : \A m \in stops : slot <= m
      BY <1>1, <1>3, SmallestOf
    <3>2. slot < home
      BY <1>2, <2>2, <3>1 DEF Slot
    <3>3. \A x \in Passed(home, slot, total) : x \in Slot(total) /\ (home <= x \/ x < slot)
      BY <1>2, <3>1, <3>2 DEF Passed, Slot
    <3>4. \A x \in Passed(home, slot, total) : x \notin stops
      BY <2>2, <3>1, <3>3 DEF Slot
    <3>5. \A x \in Passed(home, slot, total) : array[x].key \notin {0, key}
      BY <3>3, <3>4
    <3> QED BY <3>1, <3>5 DEF Ends
  <2> QED BY <2>1, <2>2
<1>5. FindEntry(array, total, key) = CHOOSE slot \in Slot(total) : Ends(array, total, key, slot)
  BY DEF FindEntry, Ends
<1>6. \E slot \in Slot(total) : Ends(array, total, key, slot)
  BY <1>4 DEF Ends
<1> QED BY <1>5, <1>6

\* Every key is where a probe for it ends.
Placed(array, total) ==
    \A x \in Used(array, total) :
        array[x].key \in Key /\ Ends(array, total, array[x].key, x)

LEMMA FindsPlaced ==
    ASSUME NEW total \in Nat, NEW array, Placed(array, total), NEW x \in Used(array, total)
    PROVE  FindEntry(array, total, array[x].key) = x
<1> DEFINE key == array[x].key
           found == FindEntry(array, total, key)
<1>1. key \in Key /\ Ends(array, total, key, x)
  BY DEF Placed
<1>2. x \in Slot(total) /\ total > 0
  BY DEF Used, Slot
<1>3. found = CHOOSE slot \in Slot(total) : Ends(array, total, key, slot)
  BY DEF FindEntry, Ends
<1>4. Ends(array, total, key, found)
  BY <1>1, <1>2, <1>3
<1> QED BY <1>1, <1>2, <1>4, EndsOnce

\* An entry stored where the probe for its key ends leaves every key where the
\* probe for it ends, and replaces the only entry its key had.
LEMMA StorePlaces ==
    ASSUME NEW total \in Nat, NEW array \in [Slot(total) -> Entry],
           Placed(array, total), Used(array, total) # Slot(total),
           NEW entry \in Entry, entry.key \in Key
    PROVE  LET slot == FindEntry(array, total, entry.key)
               after == [array EXCEPT ![slot] = entry] IN
           /\ slot \in Slot(total) /\ array[slot].key \in {0, entry.key}
           /\ \A x \in Used(array, total) : array[x].key = entry.key => x = slot
           /\ Placed(after, total)
<1> DEFINE key == entry.key
           slot == FindEntry(array, total, key)
           after == [array EXCEPT ![slot] = entry]
<1>1. Ends(array, total, key, slot)
  BY FindEntryEnds
<1>2. slot \in Slot(total) /\ array[slot].key \in {0, key}
  BY <1>1 DEF Ends
<1>3. \A x \in Used(array, total) : array[x].key = key => x = slot
  BY FindsPlaced
<1>4. after[slot] = entry /\ \A x \in Slot(total) : x # slot => after[x] = array[x]
  BY <1>2
<1>p. \A home \in Slot(total), x \in Slot(total) :
          Passed(home, x, total) \subseteq Slot(total) /\ x \notin Passed(home, x, total)
  BY DEF Passed, Slot
<1>c. total > 0
  BY <1>2 DEF Slot
<1> HIDE DEF slot, after
<1>5. ASSUME NEW x \in Used(after, total)
      PROVE  after[x].key \in Key /\ Ends(after, total, after[x].key, x)
  <2>0. x \in Slot(total) /\ after[x].key # 0
    BY DEF Used
  <2>1. CASE x = slot
    <3>1. after[x].key = key
      BY <1>4, <2>1
    <3>2. \A probed \in Passed(Home(key, total), slot, total) : probed \in Slot(total) /\ probed # slot
      BY <1>p, <1>2, <1>c, HomeInSlot
    <3>3. \A probed \in Passed(Home(key, total), slot, total) : after[probed].key \notin {0, key}
      BY <1>1, <1>4, <3>2 DEF Ends
    <3> QED BY <2>0, <2>1, <3>1, <3>3 DEF Ends
  <2>2. CASE x # slot
    <3> DEFINE old == array[x].key
    <3>1. after[x] = array[x]
      BY <1>4, <2>0, <2>2
    <3>2. x \in Used(array, total)
      BY <2>0, <3>1 DEF Used
    <3>3. old \in Key /\ old # 0 /\ Ends(array, total, old, x)
      BY <3>2 DEF Placed, Used
    <3>4. old # key
      BY <1>3, <2>2, <3>2
    <3> HIDE DEF old
    <3>5. ASSUME NEW probed \in Passed(Home(old, total), x, total)
          PROVE  after[probed].key \notin {0, old}
      <4>1. array[probed].key \notin {0, old} /\ probed \in Slot(total)
        BY <1>p, <1>c, <2>0, <3>3, HomeInSlot DEF Ends
      <4>2. CASE probed = slot
        <5>1. array[slot].key = key /\ key # 0
          BY <1>2, <4>1, <4>2
        <5> QED BY <1>4, <3>4, <4>2, <5>1
      <4>3. CASE probed # slot
        BY <1>4, <4>1, <4>3
      <4> QED BY <4>2, <4>3
    <3> QED BY <2>0, <3>1, <3>3, <3>5 DEF Ends, old
  <2> QED BY <2>1, <2>2
<1>6. Placed(after, total)
  BY <1>5 DEF Placed
<1> QED BY <1>2, <1>3, <1>6 DEF slot, after

\* The map an array stands for.
Content(array, total) ==
    [k \in {key \in Key : \E x \in Used(array, total) : array[x].key = key}
        |-> array[FindEntry(array, total, k)].value]

LEMMA ContentOf ==
    ASSUME NEW total \in Nat, NEW array, Placed(array, total), NEW x \in Used(array, total)
    PROVE  /\ array[x].key \in DOMAIN Content(array, total)
           /\ Content(array, total)[array[x].key] = array[x].value
<1>1. array[x].key \in Key
  BY DEF Placed
<1>2. FindEntry(array, total, array[x].key) = x
  BY FindsPlaced
<1> QED BY <1>1, <1>2 DEF Content

\* Some slots of one array hold the entries that some slots of another do.
SameEntries(array1, slots1, array2, slots2) ==
    /\ \A x \in slots1 : \E t \in slots2 : array2[t] = array1[x]
    /\ \A t \in slots2 : \E x \in slots1 : array2[t] = array1[x]

\* Two arrays that hold the same entries, in whatever slots, are the same map.
LEMMA SameContent ==
    ASSUME NEW cap1 \in Nat, NEW array1, Placed(array1, cap1),
           NEW cap2 \in Nat, NEW array2, Placed(array2, cap2),
           SameEntries(array1, Used(array1, cap1), array2, Used(array2, cap2))
    PROVE  Content(array1, cap1) = Content(array2, cap2)
<1> DEFINE C1 == Content(array1, cap1)
           C2 == Content(array2, cap2)
<1>1. DOMAIN C1 = DOMAIN C2
  BY DEF Content, SameEntries
<1>2. ASSUME NEW k \in DOMAIN C1
      PROVE  C1[k] = C2[k]
  <2>1. PICK x \in Used(array1, cap1) : array1[x].key = k
    BY DEF Content
  <2>2. PICK t \in Used(array2, cap2) : array2[t] = array1[x]
    BY DEF SameEntries
  <2>3. C1[k] = array1[x].value
    BY <2>1, ContentOf
  <2>4. C2[array2[t].key] = array2[t].value
    BY ContentOf
  <2> QED BY <2>1, <2>2, <2>3, <2>4
<1>3. C1 = [k \in DOMAIN C1 |-> C1[k]] /\ C2 = [k \in DOMAIN C2 |-> C2[k]]
  BY DEF Content
<1> HIDE DEF C1, C2
<1>4. C1 = C2
  BY <1>1, <1>2, <1>3
<1> QED BY <1>4 DEF C1, C2

\* What table_set does to a map, which has no key 0.
KeyIsSet(before, after, key, value) ==
    /\ key = 0 => after = before
    /\ key # 0 => after = [c \in DOMAIN before \cup {key} |-> IF c = key THEN value ELSE before[c]]

\* The end of table_set stores the glyph, unless it is for key 0.
LEMMA StoreContent ==
    ASSUME NEW total \in Nat, NEW array \in [Slot(total) -> Entry],
           Placed(array, total), Used(array, total) # Slot(total),
           NEW key \in Key, NEW value \in Glyph,
           Store(array, total, key, value)
    PROVE  /\ Placed(entries', total)
           /\ KeyIsSet(Content(array, total), Content(entries', total), key, value)
<1> DEFINE slot == FindEntry(array, total, key)
           entry == [key |-> key, value |-> value]
           C == Content(array, total)
           C2 == Content(entries', total)
<1>1. entry \in Entry /\ entry.key = key /\ entry.value = value
  BY DEF Entry
<1>2. entries' = [array EXCEPT ![slot] = entry]
  BY DEF Store
<1> HIDE DEF entry
<1>3. /\ slot \in Slot(total) /\ array[slot].key \in {0, key}
      /\ \A x \in Used(array, total) : array[x].key = key => x = slot
      /\ Placed(entries', total)
  BY <1>1, <1>2, StorePlaces
<1>4. entries'[slot] = entry /\ \A x \in Slot(total) : x # slot => entries'[x] = array[x]
  BY <1>2, <1>3
<1> HIDE DEF slot
<1>5. ASSUME key = 0
      PROVE  C2 = C
  <2>1. slot \notin Used(array, total) /\ slot \notin Used(entries', total)
    BY <1>1, <1>3, <1>4, <1>5 DEF Used
  <2>2. /\ \A x \in Used(array, total) : x \in Used(entries', total) /\ entries'[x] = array[x]
        /\ \A x \in Used(entries', total) : x \in Used(array, total) /\ entries'[x] = array[x]
    BY <1>4, <2>1 DEF Used
  <2>3. SameEntries(array, Used(array, total), entries', Used(entries', total))
    BY <2>2 DEF SameEntries
  <2> QED BY <1>3, <2>3, SameContent
<1>6. ASSUME key # 0
      PROVE  C2 = [c \in DOMAIN C \cup {key} |-> IF c = key THEN value ELSE C[c]]
  <2>1. slot \in Used(entries', total)
    BY <1>1, <1>3, <1>4, <1>6 DEF Used
  <2>2. \A x \in Slot(total) : x # slot => (x \in Used(entries', total) <=> x \in Used(array, total))
    BY <1>4 DEF Used
  <2>3. DOMAIN C2 = DOMAIN C \cup {key}
    <3>1. ASSUME NEW k \in DOMAIN C2 PROVE k \in DOMAIN C \cup {key}
      <4>1. PICK x \in Used(entries', total) : k \in Key /\ entries'[x].key = k
        BY DEF Content
      <4>2. x \in Slot(total)
        BY DEF Used
      <4>3. CASE x = slot
        BY <1>1, <1>4, <4>1, <4>3
      <4>4. CASE x # slot
        BY <1>4, <2>2, <4>1, <4>2, <4>4 DEF Content
      <4> QED BY <4>3, <4>4
    <3>2. key \in DOMAIN C2
      BY <1>1, <1>4, <2>1 DEF Content
    <3>3. ASSUME NEW k \in DOMAIN C, k # key PROVE k \in DOMAIN C2
      <4>1. PICK x \in Used(array, total) : k \in Key /\ array[x].key = k
        BY DEF Content
      <4>2. x \in Slot(total) /\ array[x].key # 0
        BY DEF Used
      <4>3. x # slot
        BY <1>3, <3>3, <4>1, <4>2
      <4> QED BY <1>4, <2>2, <4>1, <4>2, <4>3 DEF Content
    <3> QED BY <3>1, <3>2, <3>3
  <2>4. C2[key] = value
    BY <1>1, <1>3, <1>4, <2>1, ContentOf
  <2>5. ASSUME NEW c \in DOMAIN C, c # key PROVE C2[c] = C[c]
    <3>1. PICK x \in Used(array, total) : array[x].key = c
      BY DEF Content
    <3>2. x \in Slot(total) /\ array[x].key # 0
      BY DEF Used
    <3>3. x # slot
      BY <1>3, <2>5, <3>1, <3>2
    <3>4. x \in Used(entries', total) /\ entries'[x] = array[x]
      BY <1>4, <2>2, <3>2, <3>3
    <3>5. C[array[x].key] = array[x].value
      BY ContentOf
    <3>6. C2[entries'[x].key] = entries'[x].value
      BY <1>3, <3>4, ContentOf
    <3> QED BY <3>1, <3>4, <3>5, <3>6
  <2>6. C2 = [c \in DOMAIN C2 |-> C2[c]]
    BY DEF Content
  <2> HIDE DEF C, C2
  <2> QED BY <2>3, <2>4, <2>5, <2>6
<1>7. KeyIsSet(C, C2, key, value)
  BY <1>5, <1>6 DEF KeyIsSet
<1> QED BY <1>3, <1>7

\* What adjust_capacity has filled the new array with is what it has passed.
FreshIsMoved ==
    SameEntries(entries, Done, fresh, Used(fresh, GrowCapacity(capacity)))

ProbeInv ==
    /\ Placed(entries, capacity)
    /\ call # None => Placed(fresh, GrowCapacity(capacity)) /\ FreshIsMoved

\* table_get finds a key exactly if the array holds it.
LEMMA TableIsContent ==
    ASSUME GlyphInv, Placed(entries, capacity)
    PROVE  [k \in {key \in Key : Stored(key)} |-> Get(k)] = Content(entries, capacity)
<1>1. /\ capacity \in Nat /\ count \in Nat /\ CountHasRoom
      /\ Cardinality(Used(entries, capacity)) <= count
  BY DEF GlyphInv, GlyphTypeOK
<1>2. ASSUME NEW k \in Key
      PROVE  Stored(k) <=> \E x \in Used(entries, capacity) : entries[x].key = k
  <2>1. ASSUME Stored(k)
        PROVE  \E x \in Used(entries, capacity) : entries[x].key = k
    <3> DEFINE found == FindEntry(entries, capacity, k)
    <3>1. count # 0 /\ entries[found].key # 0
      BY <2>1 DEF Stored
    <3>2. capacity > 0
      BY <1>1, <3>1 DEF CountHasRoom
    <3>3. Ends(entries, capacity, k, found)
      BY <1>1, <3>2, RoomLeft, FindEntryEnds DEF ProbesEnd
    <3>4. found \in Used(entries, capacity) /\ entries[found].key = k
      BY <3>1, <3>3 DEF Ends, Used
    <3> QED BY <3>4
  <2>2. ASSUME NEW x \in Used(entries, capacity), entries[x].key = k
        PROVE  Stored(k)
    <3>1. FindEntry(entries, capacity, k) = x
      BY <1>1, <2>2, FindsPlaced
    <3>2. entries[x].key # 0
      BY DEF Used
    <3>3. count # 0
      <4>1. IsFiniteSet(Used(entries, capacity)) /\ Cardinality(Used(entries, capacity)) \in Nat
        BY <1>1, UsedFinite
      <4>2. Cardinality(Used(entries, capacity)) # 0
        BY <4>1, FS_EmptySet
      <4> QED BY <1>1, <4>1, <4>2
    <3> QED BY <3>1, <3>2, <3>3 DEF Stored
  <2> QED BY <2>1, <2>2
<1>3. {key \in Key : Stored(key)} =
          {key \in Key : \E x \in Used(entries, capacity) : entries[x].key = key}
  BY <1>2
<1> QED BY <1>3 DEF Content, Get

-----------------------------------------------------------------------------
LEMMA ProbeInvInit == GlyphInit => ProbeInv
<1>1. Slot(0) = {}
  BY DEF Slot
<1> QED BY <1>1 DEF GlyphInit, ProbeInv, Placed, Used

LEMMA SetInPlaceKeepsProbes ==
    ASSUME GlyphInv, ProbeInv, NEW k \in Key, NEW v \in Glyph, SetInPlace(k, v)
    PROVE  ProbeInv'
<1>1. /\ call' = None /\ capacity' = capacity /\ ~NeedsRoom
      /\ Store(entries, capacity, k, v)
  BY DEF SetInPlace, growVars
<1>2. /\ capacity \in Nat /\ count \in Nat /\ entries \in [Slot(capacity) -> Entry]
      /\ Placed(entries, capacity)
  BY DEF GlyphInv, GlyphTypeOK, ProbeInv
<1>3. capacity > 0
  BY <1>1, <1>2 DEF NeedsRoom
<1>4. Used(entries, capacity) # Slot(capacity)
  BY <1>3, RoomLeft DEF ProbesEnd
<1>5. Placed(entries', capacity)
  BY <1>1, <1>2, <1>4, StoreContent
<1> QED BY <1>1, <1>5 DEF ProbeInv

LEMMA BeginGrowKeepsProbes ==
    ASSUME GlyphInv, ProbeInv, NEW k \in Key, NEW v \in Glyph, BeginGrow(k, v)
    PROVE  ProbeInv'
<1> DEFINE total == GrowCapacity(capacity)
<1>1. /\ UNCHANGED <<count, capacity, entries>> /\ moved' = 0
      /\ fresh' = [x \in Slot(total) |-> [key |-> 0, value |-> Blank]]
  BY DEF BeginGrow, tableVars
<1>2. capacity \in Nat
  BY DEF GlyphInv, GlyphTypeOK
<1>3. Done' = {}
  BY <1>1, <1>2 DEF Done, Used, Slot
<1>4. Used(fresh', total) = {}
  BY <1>1 DEF Used
<1>5. total' = total /\ Placed(entries', capacity')
  BY <1>1 DEF ProbeInv
<1> QED BY <1>1, <1>3, <1>4, <1>5 DEF ProbeInv, Placed, FreshIsMoved, SameEntries

\* The entry that is moved has a key the new array does not hold yet, since
\* every key is in one place of the old one; so it takes a free slot and
\* displaces nothing.
LEMMA MoveEntryKeepsProbes ==
    ASSUME GlyphInv, ProbeInv, MoveEntry
    PROVE  ProbeInv'
<1> DEFINE total == GrowCapacity(capacity)
           old == entries[moved]
           slot == FindEntry(fresh, total, old.key)
<1>1. /\ call # None /\ moved < capacity
      /\ UNCHANGED <<count, capacity, entries, call>> /\ moved' = moved + 1
      /\ fresh' = (IF old.key = 0 THEN fresh ELSE [fresh EXCEPT ![slot] = old])
  BY DEF MoveEntry, tableVars
<1>2. /\ capacity \in Nat /\ moved \in 0..capacity /\ entries \in [Slot(capacity) -> Entry]
      /\ fresh \in [Slot(total) -> Entry] /\ total \in Nat
      /\ Placed(entries, capacity) /\ Placed(fresh, total) /\ FreshIsMoved
  BY <1>1, GrowCapacityGrows DEF GlyphInv, GlyphTypeOK, ProbeInv
<1>3. moved \in Slot(capacity) /\ old \in Entry
  BY <1>1, <1>2 DEF Slot
<1>4. Used(fresh, total) # Slot(total)
  BY <1>1, RoomLeft DEF ProbesEnd
<1>5. total' = total
  BY <1>1
<1>6. CASE old.key = 0
  <2>1. fresh' = fresh
    BY <1>1, <1>6
  <2>2. Done' = Done
    BY <1>1, <1>2, <1>6 DEF Done, Used, Slot
  <2>3. FreshIsMoved'
    BY <1>1, <1>2, <2>1, <2>2 DEF FreshIsMoved
  <2> QED BY <1>1, <1>2, <1>5, <2>1, <2>3 DEF ProbeInv
<1>7. CASE old.key # 0
  <2>1. old.key \in Key /\ moved \in Used(entries, capacity)
    BY <1>3, <1>7 DEF Entry, Used
  <2>2. fresh' = [fresh EXCEPT ![slot] = old]
    BY <1>1, <1>7
  <2>3. /\ slot \in Slot(total) /\ fresh[slot].key \in {0, old.key}
        /\ Placed(fresh', total)
    BY <1>2, <1>3, <1>4, <2>1, <2>2, StorePlaces
  <2>4. Done' = Done \cup {moved} /\ moved \notin Done
    BY <1>1, <1>2, <1>3, <2>1 DEF Done, Used, Slot
  <2> HIDE DEF slot, old
  <2>5. fresh'[slot] = old /\ \A t \in Slot(total) : t # slot => fresh'[t] = fresh[t]
    BY <1>2, <2>2, <2>3
  <2>6. fresh[slot].key = 0
    <3> SUFFICES ASSUME fresh[slot].key = old.key, old.key # 0
                 PROVE  FALSE
      BY <2>3
    <3>1. slot \in Used(fresh, total)
      BY <2>3 DEF Used
    <3>2. PICK x \in Done : fresh[slot] = entries[x]
      BY <1>2, <3>1 DEF FreshIsMoved, SameEntries
    <3>3. x \in Used(entries, capacity) /\ entries[x].key = entries[moved].key
      BY <3>2 DEF Done, old
    <3>4. x = moved
      BY <1>2, <2>1, <3>3, FindsPlaced
    <3> QED BY <2>4, <3>2, <3>4
  <2>7. Used(fresh', total) = Used(fresh, total) \cup {slot} /\ slot \notin Used(fresh, total)
    BY <1>7, <2>3, <2>5, <2>6 DEF Used
  <2>8. \A t \in Used(fresh, total) : fresh'[t] = fresh[t]
    BY <2>5, <2>7 DEF Used
  <2>9. FreshIsMoved'
    <3>1. SameEntries(entries, Done, fresh, Used(fresh, total))
      BY <1>2 DEF FreshIsMoved
    <3>2. \A x \in Done' : \E t \in Used(fresh', total) : fresh'[t] = entries[x]
      BY <2>4, <2>5, <2>7, <2>8, <3>1 DEF SameEntries, old
    <3>3. \A t \in Used(fresh', total) : \E x \in Done' : fresh'[t] = entries[x]
      BY <2>4, <2>5, <2>7, <2>8, <3>1 DEF SameEntries, old
    <3>4. SameEntries(entries, Done', fresh', Used(fresh', total))
      BY <3>2, <3>3 DEF SameEntries
    <3> QED BY <1>1, <1>5, <3>4 DEF FreshIsMoved
  <2> QED BY <1>1, <1>2, <1>5, <2>3, <2>9 DEF ProbeInv
<1> QED BY <1>6, <1>7

\* At the end of adjust_capacity the new array is the map the old one was.
LEMMA GrownContent ==
    ASSUME GlyphInv, ProbeInv, call # None, moved = capacity
    PROVE  Content(fresh, GrowCapacity(capacity)) = Content(entries, capacity)
<1> DEFINE total == GrowCapacity(capacity)
<1>1. /\ capacity \in Nat /\ total \in Nat
      /\ Placed(entries, capacity) /\ Placed(fresh, total) /\ FreshIsMoved
  BY GrowCapacityGrows DEF GlyphInv, GlyphTypeOK, ProbeInv
<1>2. Done = Used(entries, capacity)
  BY <1>1 DEF Done, Used, Slot
<1>3. SameEntries(entries, Used(entries, capacity), fresh, Used(fresh, total))
  BY <1>1, <1>2 DEF FreshIsMoved
<1> HIDE DEF total
<1>4. Content(entries, capacity) = Content(fresh, total)
  BY <1>1, <1>3, SameContent
<1> QED BY <1>4 DEF total

LEMMA FinishGrowKeepsProbes ==
    ASSUME GlyphInv, ProbeInv, FinishGrow
    PROVE  ProbeInv'
<1> DEFINE total == GrowCapacity(capacity)
<1>1. /\ call # None /\ capacity' = total /\ call' = None
      /\ Store(fresh, total, call.key, call.value)
  BY DEF FinishGrow
<1>2. /\ capacity \in Nat /\ total \in Nat /\ fresh \in [Slot(total) -> Entry]
      /\ call.key \in Key /\ call.value \in Glyph /\ Placed(fresh, total)
  BY <1>1, GrowCapacityGrows DEF GlyphInv, GlyphTypeOK, ProbeInv
<1>3. Used(fresh, total) # Slot(total)
  BY <1>1, RoomLeft DEF ProbesEnd
<1> HIDE DEF total
<1>4. Placed(entries', total)
  BY <1>1, <1>2, <1>3, StoreContent
<1> QED BY <1>1, <1>4 DEF ProbeInv

LEMMA ProbeInvNext ==
    ASSUME GlyphInv, ProbeInv, [GlyphNext]_glyphVars
    PROVE  ProbeInv'
<1>1. ASSUME NEW k \in Key, NEW v \in Glyph, TableSet(k, v)
      PROVE  ProbeInv'
  BY <1>1, SetInPlaceKeepsProbes, BeginGrowKeepsProbes DEF TableSet
<1>2. CASE MoveEntry
  BY <1>2, MoveEntryKeepsProbes
<1>3. CASE FinishGrow
  BY <1>3, FinishGrowKeepsProbes
<1>4. CASE UNCHANGED glyphVars
  BY <1>4
  DEF glyphVars, tableVars, growVars, ProbeInv, FreshIsMoved, Placed, Ends, Done, Used
<1> QED BY <1>1, <1>2, <1>3, <1>4 DEF GlyphNext

LEMMA ProbeInvariant == GlyphSpec => [](GlyphInv /\ ProbeInv)
<1>1. GlyphInit => ProbeInv
  BY ProbeInvInit
<1>2. GlyphInv /\ ProbeInv /\ [GlyphNext]_glyphVars => ProbeInv'
  BY ProbeInvNext
<1> QED BY <1>1, <1>2, GlyphInvariant, PTL DEF GlyphSpec

-----------------------------------------------------------------------------
\* The map the table stands for, as GlyphTable gives it to GlyphMap.
Glyphs == [k \in {key \in Key : Stored(key)} |-> Get(k)]

\* The end of table_set is a Set of the map, or changes nothing for key 0.
LEMMA StoreSets ==
    ASSUME GlyphInv, GlyphInv', Placed(entries, capacity), Placed(entries', capacity'),
           NEW key \in Key, NEW value \in Glyph, NEW C,
           C = Content(entries, capacity),
           KeyIsSet(C, Content(entries', capacity'), key, value)
    PROVE  [Map!Next]_Glyphs
<1>1. Glyphs = C
  BY TableIsContent DEF Glyphs
<1>2. Glyphs' = Content(entries', capacity')
  <2>1. (GlyphInv /\ Placed(entries, capacity) => Glyphs = Content(entries, capacity))'
    BY TableIsContent, PTL DEF Glyphs
  <2> QED BY <2>1 DEF Content
<1>3. CASE key = 0
  BY <1>1, <1>2, <1>3 DEF KeyIsSet
<1>4. CASE key # 0
  <2>1. Glyphs' = [c \in DOMAIN Glyphs \cup {key} |-> IF c = key THEN value ELSE Glyphs[c]]
    BY <1>1, <1>2, <1>4 DEF KeyIsSet
  <2>2. Map!Set(key, value)
    BY <1>4, <2>1 DEF Map!Set, Glyphs
  <2> QED BY <2>2 DEF Map!Next
<1> QED BY <1>3, <1>4

LEMMA GlyphStepMaps ==
    ASSUME GlyphInv, ProbeInv, GlyphInv', ProbeInv', [GlyphNext]_glyphVars
    PROVE  [Map!Next]_Glyphs
<1>1. /\ Placed(entries, capacity) /\ Placed(entries', capacity')
      /\ capacity \in Nat /\ count \in Nat /\ entries \in [Slot(capacity) -> Entry]
  BY DEF ProbeInv, GlyphInv, GlyphTypeOK, Placed, Used, Ends
<1>2. ASSUME NEW k \in Key, NEW v \in Glyph, SetInPlace(k, v)
      PROVE  [Map!Next]_Glyphs
  <2>1. capacity' = capacity /\ ~NeedsRoom /\ Store(entries, capacity, k, v)
    BY <1>2 DEF SetInPlace
  <2>2. capacity > 0
    BY <1>1, <2>1 DEF NeedsRoom
  <2>3. Used(entries, capacity) # Slot(capacity)
    BY <2>2, RoomLeft DEF ProbesEnd
  <2> DEFINE C == Content(entries, capacity)
  <2>4. KeyIsSet(C, Content(entries', capacity'), k, v)
    BY <1>1, <2>1, <2>3, StoreContent
  <2> QED BY <1>1, <2>4, StoreSets
<1>3. CASE FinishGrow
  <2> DEFINE total == GrowCapacity(capacity)
             C == Content(entries, capacity)
  <2>1. /\ call # None /\ moved = capacity /\ capacity' = total
        /\ Store(fresh, total, call.key, call.value)
    BY <1>3 DEF FinishGrow
  <2>2. /\ total \in Nat /\ fresh \in [Slot(total) -> Entry]
        /\ call.key \in Key /\ call.value \in Glyph /\ Placed(fresh, total)
    BY <1>1, <2>1, GrowCapacityGrows DEF GlyphInv, GlyphTypeOK, ProbeInv
  <2>3. Used(fresh, total) # Slot(total)
    BY <2>1, RoomLeft DEF ProbesEnd
  <2>4. Content(fresh, total) = C
    BY <2>1, GrownContent
  <2>5. PICK k \in Key, v \in Glyph : call.key = k /\ call.value = v
    BY <2>2
  <2> HIDE DEF total
  <2>6. KeyIsSet(Content(fresh, total), Content(entries', total), k, v)
    <3>1. Store(fresh, total, k, v)
      BY <2>1, <2>5
    <3> QED BY <2>2, <2>3, <2>5, <3>1, StoreContent
  <2> HIDE DEF C
  <2>7. KeyIsSet(C, Content(entries', capacity'), k, v)
    BY <2>1, <2>4, <2>6
  <2>8. C = Content(entries, capacity)
    BY DEF C
  <2> QED BY <1>1, <2>5, <2>7, <2>8, StoreSets
<1>4. CASE UNCHANGED tableVars
  BY <1>4 DEF tableVars, Glyphs, Stored, Get, FindEntry
<1>5. ASSUME NEW k \in Key, NEW v \in Glyph, BeginGrow(k, v)
      PROVE  [Map!Next]_Glyphs
  BY <1>4, <1>5 DEF BeginGrow
<1>6. CASE MoveEntry
  BY <1>4, <1>6 DEF MoveEntry, tableVars
<1>7. CASE UNCHANGED glyphVars
  BY <1>4, <1>7 DEF glyphVars
<1> QED BY <1>2, <1>3, <1>5, <1>6, <1>7 DEF GlyphNext, TableSet

\* The table implements a map, whatever the keys, the hash and the number of
\* glyphs: table_get finds what table_set stored last for every key, through
\* collisions, wrapped probes and the moves of adjust_capacity (map.c 36-127).
THEOREM GlyphTableIsMap == GlyphSpec => GlyphMapSpec
<1>1. GlyphInit => Glyphs = [k \in {} |-> {}]
  <2> SUFFICES ASSUME GlyphInit
               PROVE  Glyphs = [k \in {} |-> {}]
    OBVIOUS
  <2>1. {key \in Key : Stored(key)} = {}
    BY DEF GlyphInit, Stored
  <2> QED BY <2>1 DEF Glyphs
<1>2. GlyphInit => Map!Init
  BY <1>1 DEF Map!Init, Glyphs
<1>3. GlyphInv /\ ProbeInv /\ GlyphInv' /\ ProbeInv' /\ [GlyphNext]_glyphVars
          => [Map!Next]_Glyphs
  BY GlyphStepMaps
<1> QED
  BY <1>2, <1>3, ProbeInvariant, PTL DEF GlyphSpec, GlyphMapSpec, Map!Spec, Glyphs
=============================================================================

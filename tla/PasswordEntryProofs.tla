------------------------- MODULE PasswordEntryProofs ------------------------
(***************************************************************************)
(* Proofs about the password buffer, for an array of any size and any set  *)
(* of keys.                                                                *)
(***************************************************************************)
EXTENDS PasswordEntry, SequenceTheorems, TLAPS

\* The line held so far consists of printable bytes; with the zeros behind it
\* this makes password_len the length of the C string.
Printable == \A i \in Index : i < password_len => password[i] >= 32

PwInv ==
    /\ PwTypeOK
    /\ Printable
    /\ NothingLeftBehind
    /\ IndicatorParity

LEMMA Parity ==
    /\ 0 % 2 # 1
    /\ \A n \in Nat : (n + 1) % 2 = 1 <=> n % 2 # 1
    /\ \A n \in Nat : n > 0 => ((n - 1) % 2 = 1 <=> n % 2 # 1)
OBVIOUS

LEMMA ZerosTyped == [i \in Index |-> NUL] \in [Index -> -128..127] /\ 0 \in 0..(Capacity - 1)
<1>1. 0 \in -128..127
  OBVIOUS
<1>2. [i \in Index |-> NUL] \in [Index -> -128..127]
  BY <1>1, Zenon DEF NUL
<1> QED BY <1>2, CapacityAssumption

LEMMA PwInitInv == PwInit => PwInv
<1> SUFFICES ASSUME PwInit
             PROVE  PwInv
  OBVIOUS
<1>1. PwTypeOK
  BY CapacityAssumption, ZerosTyped DEF PwInit, PwTypeOK
<1>2. Printable /\ NothingLeftBehind
  BY CapacityAssumption DEF PwInit, Printable, NothingLeftBehind, Index, NUL
<1>3. IndicatorParity
  BY Parity DEF PwInit, IndicatorParity
<1> QED BY <1>1, <1>2, <1>3 DEF PwInv

LEMMA PwNextInv == PwInv /\ [PwNext]_pwVars => PwInv'
<1> SUFFICES ASSUME PwInv, [PwNext]_pwVars
             PROVE  PwInv'
  OBVIOUS
<1> USE CapacityAssumption, KeyByteAssumption
    DEF PwTypeOK, Printable, NothingLeftBehind, Index, NUL
<1>0. PwTypeOK /\ Printable /\ NothingLeftBehind /\ IndicatorParity
  BY DEF PwInv
<1>1. CASE ClearPassword
  <2>1. PwTypeOK'
    BY <1>1, ZerosTyped DEF ClearPassword
  <2>2. Printable' /\ NothingLeftBehind'
    BY <1>1 DEF ClearPassword
  <2>3. IndicatorParity'
    BY <1>1, Parity DEF ClearPassword, IndicatorParity
  <2> QED BY <2>1, <2>2, <2>3 DEF PwInv
<1>2. CASE EraseByte
  <2>1. PwTypeOK'
    BY <1>0, <1>2 DEF EraseByte
  <2>2. Printable' /\ NothingLeftBehind'
    BY <1>0, <1>2 DEF EraseByte
  <2>3. (password_len' % 2 = 1) <=> (password_len % 2 # 1)
    BY <1>0, <1>2, Parity DEF EraseByte
  <2>4. IndicatorParity'
    BY <1>0, <1>2, <2>3, Zenon DEF EraseByte, IndicatorParity
  <2> QED BY <2>1, <2>2, <2>4 DEF PwInv
<1>3. ASSUME NEW b \in KeyByte, InsertByte(b)
      PROVE  PwInv'
  <2>1. PwTypeOK'
    BY <1>0, <1>3 DEF InsertByte, Accepts
  <2>2. Printable' /\ NothingLeftBehind'
    BY <1>0, <1>3 DEF InsertByte, Accepts
  <2>3. (password_len' % 2 = 1) <=> (password_len % 2 # 1)
    BY <1>0, <1>3, Parity DEF InsertByte
  <2>4. IndicatorParity'
    BY <1>0, <1>3, <2>3, Zenon DEF InsertByte, IndicatorParity
  <2> QED BY <2>1, <2>2, <2>4 DEF PwInv
<1>4. CASE UNCHANGED pwVars
  BY <1>0, <1>4 DEF pwVars, PwInv, IndicatorParity
<1> QED
  BY <1>1, <1>2, <1>3, <1>4
     DEF PwNext, PressBackSpace, EraseNothing, PressText, RefuseByte

\* The invariant holds in every reachable state.
THEOREM PwInvariant == PwSpec => []PwInv
BY PwInitInv, PwNextInv, PTL DEF PwSpec

\* The type invariant: the length stays below the size of the array, so every
\* write of wl_keyboard_key, the terminator's included, is inside it.
THEOREM PwTypeCorrect == PwSpec => []PwTypeOK
<1>1. PwInv => PwTypeOK
  BY DEF PwInv
<1> QED BY <1>1, PwInvariant, PTL

\* Under the invariant the C string ends where the handler thinks it does.
LEMMA StrLenIsLength == PwInv => StrLen = password_len
<1> SUFFICES ASSUME PwInv
             PROVE  StrLen = password_len
  OBVIOUS
<1> USE CapacityAssumption DEF PwInv, PwTypeOK, Printable, NothingLeftBehind, Index, NUL
<1> DEFINE End(n) == Terminated[n] = NUL /\ \A m \in 0..(n - 1) : Terminated[m] # NUL
<1>1. password_len \in Index /\ End(password_len)
  BY DEF Terminated
<1>2. ASSUME NEW n \in Index, End(n)
      PROVE  n = password_len
  <2>1. ~(n < password_len)
    BY <1>2 DEF Terminated
  <2>2. ~(password_len < n)
    BY <1>1, <1>2
  <2> QED BY <2>1, <2>2
<1> HIDE DEF End
<1> QED
  BY <1>1, <1>2 DEF StrLen, End

\* What Return hands to PAM is the line that was typed, whole.
THEOREM PwSubmitsWholeLine == PwSpec => []SubmitsWholeLine
<1>1. PwInv => SubmitsWholeLine
  <2> SUFFICES ASSUME PwInv
               PROVE  SubmitsWholeLine
    OBVIOUS
  <2>1. password_len \in Index
    BY CapacityAssumption DEF PwInv, PwTypeOK, Index
  <2>2. \A i \in 1..password_len : Terminated[i - 1] = password[i - 1]
    BY CapacityAssumption DEF PwInv, PwTypeOK, Index, Terminated
  <2>3. CString = Line
    BY <2>2, StrLenIsLength DEF CString, Line
  <2> QED BY <2>1, <2>3 DEF SubmitsWholeLine
<1> QED BY <1>1, PwInvariant, PTL

\* Nothing of an erased or submitted password stays in the array.
THEOREM PwNothingLeftBehind == PwSpec => []NothingLeftBehind
<1>1. PwInv => NothingLeftBehind
  BY DEF PwInv
<1> QED BY <1>1, PwInvariant, PTL

\* The prompt's box is lit on an odd number of characters, whatever was typed
\* and erased before (keyboard.h 64-103).
THEOREM PwIndicatorInStep == PwSpec => []IndicatorParity
<1>1. PwInv => IndicatorParity
  BY DEF PwInv
<1> QED BY <1>1, PwInvariant, PTL

\* The buffer implements the abstract line editor.
THEOREM PwImplementsEditor == PwSpec => EditorSpec
<1>1. PwInit => Editor!Init
  BY CapacityAssumption DEF PwInit, Editor!Init, Line
<1>2. PwInv /\ [PwNext]_pwVars => [Editor!Next]_Line
  <2> SUFFICES ASSUME PwInv, [PwNext]_pwVars
               PROVE  [Editor!Next]_Line
    OBVIOUS
  <2> USE CapacityAssumption, KeyByteAssumption DEF PwInv, PwTypeOK, Index
  <2>1. Line \in Seq(-128..127) /\ Len(Line) = password_len
    BY DEF Line
  <2>2. CASE ClearPassword
    <3>1. Line' = <<>>
      BY <2>2 DEF ClearPassword, Line
    <3> QED BY <3>1 DEF Editor!Next, Editor!Submit
  <2>3. CASE EraseByte
    <3>1. Line # <<>>
      BY <2>1, <2>3 DEF EraseByte
    <3>2. Line' = [i \in 1..(password_len - 1) |-> password[i - 1]]
      BY <2>3 DEF EraseByte, Line
    <3>3. Line' = SubSeq(Line, 1, Len(Line) - 1)
      BY <2>1, <2>3, <3>2 DEF EraseByte, Line
    <3> QED BY <3>1, <3>3 DEF Editor!Next, Editor!Erase
  <2>4. ASSUME NEW b \in KeyByte, InsertByte(b)
        PROVE  Editor!Next
    <3>1. b \in {k \in KeyByte : k >= 32}
      BY <2>4 DEF InsertByte, Accepts
    <3>2. Len(Line) < Capacity - 1
      BY <2>1, <2>4 DEF InsertByte, Accepts
    <3>3. Line' = [i \in 1..(password_len + 1) |->
                      IF i = password_len + 1 THEN b ELSE password[i - 1]]
      BY <2>4 DEF InsertByte, Accepts, Line
    <3>4. Line' \in Seq(-128..127) /\ Len(Line') = password_len + 1
      BY <3>3
    <3>5. \A i \in 1..(password_len + 1) : Line'[i] = Append(Line, b)[i]
      <4>1. Len(Line) = password_len /\ \A i \in 1..password_len : Line[i] = password[i - 1]
        BY <2>1 DEF Line
      <4>2. b \in -128..127
        OBVIOUS
      <4>3. /\ \A i \in 1..Len(Line) : Append(Line, b)[i] = Line[i]
            /\ Append(Line, b)[Len(Line) + 1] = b
        <5> HIDE DEF PwInv, PwTypeOK, Index
        <5> QED BY <2>1, <4>2, AppendProperties
      <4>4. \A i \in 1..(password_len + 1) :
                Line'[i] = IF i = password_len + 1 THEN b ELSE password[i - 1]
        BY <3>3
      <4> QED BY <4>1, <4>3, <4>4
    <3>6. Append(Line, b) \in Seq(-128..127) /\ Len(Append(Line, b)) = password_len + 1
      BY <2>1, AppendProperties
    <3>7. Line' = Append(Line, b)
      BY <3>4, <3>5, <3>6, SeqEqual
    <3> QED BY <3>1, <3>2, <3>7 DEF Editor!Next, Editor!Insert
  <2>5. CASE UNCHANGED pwVars
    BY <2>5 DEF pwVars, Line
  <2> QED
    BY <2>2, <2>3, <2>4, <2>5
       DEF PwNext, PressBackSpace, EraseNothing, PressText, RefuseByte
<1> QED
  BY <1>1, <1>2, PwInvariant, PTL DEF PwSpec, EditorSpec, Editor!Spec
=============================================================================

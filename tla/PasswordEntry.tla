---------------------------- MODULE PasswordEntry ---------------------------
(***************************************************************************)
(* The password buffer of the lock screen: client_state.password, a fixed  *)
(* C array, and client_state.password_len, edited by wl_keyboard_key in    *)
(* include/wayland/keyboard.h.  Bytes are signed chars, as gcc builds them *)
(* on x86: a key whose UTF-8 text starts with a byte of 0x80 or more gives *)
(* a negative number.                                                      *)
(***************************************************************************)
EXTENDS Integers, Sequences

CONSTANTS
    Capacity,   \* sizeof(client_state.password): 256 in the code
    KeyByte     \* first bytes of the UTF-8 text of the keys a user may press

ASSUME CapacityAssumption == Capacity \in Nat \ {0}
ASSUME KeyByteAssumption == KeyByte \subseteq -128..127

VARIABLES
    password,           \* char password[Capacity]
    password_len,       \* int
    indicator_visible   \* the box that blinks when an edit is accepted

pwVars == <<password, password_len, indicator_visible>>

Index == 0..(Capacity - 1)

NUL == 0

PwInit ==
    /\ password = [i \in Index |-> NUL]
    /\ password_len = 0
    /\ indicator_visible = FALSE

\* Mutant: the length is not reset.
ClearPasswordLength ==
    /\ password' = [i \in Index |-> NUL]
    /\ indicator_visible' = FALSE
    /\ UNCHANGED password_len

\* Return or KP_Enter: the terminator is written, the buffer goes to PAM,
\* then it is wiped.  (Only the wiped buffer survives the handler.)
ClearPassword ==
    /\ password' = [i \in Index |-> NUL]
    /\ password_len' = 0
    /\ indicator_visible' = FALSE

\* Mutant: the erased byte stays in memory.
EraseByteUncleared ==
    /\ password_len > 0
    /\ password_len' = password_len - 1
    /\ indicator_visible' = ~indicator_visible
    /\ UNCHANGED password

EraseByte ==
    /\ password_len > 0
    /\ password_len' = password_len - 1
    /\ password' = [password EXCEPT ![password_len - 1] = NUL]
    /\ indicator_visible' = ~indicator_visible

\* Mutant: a key without text is taken too.
AcceptsAny(b) == password_len < Capacity - 1

\* buf[0] >= 0x20 && password_len < 255
Accepts(b) == b >= 32 /\ password_len < Capacity - 1

InsertByte(b) ==
    /\ Accepts(b)
    /\ password' = [password EXCEPT ![password_len] = b]
    /\ password_len' = password_len + 1
    /\ indicator_visible' = ~indicator_visible

\* BackSpace on an empty line, and a key whose byte is refused, edit nothing.
EraseNothing ==
    /\ password_len <= 0
    /\ UNCHANGED pwVars

RefuseByte(b) ==
    /\ ~Accepts(b)
    /\ UNCHANGED pwVars

PressBackSpace == EraseByte \/ EraseNothing

PressText(b) == InsertByte(b) \/ RefuseByte(b)

PwNext ==
    \/ ClearPassword
    \/ PressBackSpace
    \/ \E b \in KeyByte : PressText(b)

PwSpec == PwInit /\ [][PwNext]_pwVars

-----------------------------------------------------------------------------
\* What eva_authenticate sees: the array at the moment Return is handled,
\* after keyboard.h has written the terminator at password_len.
Terminated == [password EXCEPT ![password_len] = NUL]

\* strlen of that array.
StrLen ==
    CHOOSE n \in Index : Terminated[n] = NUL /\ \A m \in 0..(n - 1) : Terminated[m] # NUL

CString == [i \in 1..StrLen |-> Terminated[i - 1]]

\* The bytes the handler believes it holds.
Line == [i \in 1..password_len |-> password[i - 1]]

PwTypeOK ==
    /\ password \in [Index -> -128..127]
    /\ password_len \in 0..(Capacity - 1)
    /\ indicator_visible \in BOOLEAN

\* The C string that Return would hand to PAM is exactly the line that was
\* edited: no byte of the line is a terminator, and the write of the
\* terminator stays inside the array (keyboard.h 69-72).
SubmitsWholeLine ==
    /\ password_len \in Index
    /\ CString = Line

\* Nothing of an erased or submitted password stays in memory: every byte at
\* or past password_len is zero (keyboard.h 72, 89).
NothingLeftBehind == \A i \in Index : i >= password_len => password[i] = NUL

\* The visible box is lit exactly while the line has an odd number of bytes:
\* it tells of accepted and erased bytes, and not of keys pressed, of which a
\* refused one leaves it as it is (keyboard.h 75, 88-91, 95-98).
IndicatorParity == indicator_visible <=> password_len % 2 = 1

\* The buffer implements the abstract line editor.
Editor == INSTANCE LineEditor WITH
              line <- Line, Text <- {b \in KeyByte : b >= 32}, MaxLength <- Capacity - 1
EditorSpec == Editor!Spec
=============================================================================

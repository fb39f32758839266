----------------------------- MODULE GlyphTable -----------------------------
(***************************************************************************)
(* The table a font keeps its glyphs in, src/map.c: open addressing with   *)
(* linear probing.  Key 0 marks a free slot.                               *)
(*                                                                         *)
(* table_set is one action, except that the loop of adjust_capacity is     *)
(* taken entry by entry: a call that grows the table is the steps          *)
(* BeginGrow, MoveEntry ..., FinishGrow, and nothing else runs between     *)
(* them.  table_get changes nothing and is the operator Get.               *)
(***************************************************************************)
EXTENDS Integers, FiniteSets

CONSTANTS
    Key,        \* code points, 0 among them
    Glyph,      \* struct character
    Blank,      \* the struct character of a slot of calloc
    Hash,       \* hash_int of each key
    MaxCount    \* bound: no call of table_set once count has reached it

ASSUME KeyAssumption == Key \subseteq Nat
ASSUME HashAssumption == Hash \in [Key -> Nat]
ASSUME BlankAssumption == Blank \notin Glyph
ASSUME MaxCountAssumption == MaxCount \in Nat

VARIABLES
    count, capacity, entries,   \* table
    \* inside adjust_capacity: the array it fills, how many of the old
    \* entries it has passed, and what table_set was called with
    fresh, moved, call

tableVars == <<count, capacity, entries>>
growVars == <<fresh, moved, call>>
glyphVars == <<tableVars, growVars>>

None == <<>>

Slot(cap) == 0..(cap - 1)

\* init_table: no array yet.
GlyphInit ==
    /\ count = 0 /\ capacity = 0 /\ entries = <<>>
    /\ fresh = <<>> /\ moved = 0 /\ call = None

-----------------------------------------------------------------------------
Home(key, cap) == Hash[key] % cap

\* The slots a probe from home passes before it comes to slot, around the end
\* of the array if need be.
Passed(home, slot, cap) ==
    IF home <= slot THEN home..(slot - 1) ELSE Slot(cap) \ (slot..(home - 1))

\* find_entry: the first slot from the key's home on that is free or holds
\* the key.  There is none, and the loop never ends, in a full table.
FindEntry(array, cap, key) ==
    CHOOSE slot \in Slot(cap) :
        /\ array[slot].key \in {0, key}
        /\ \A s \in Passed(Home(key, cap), slot, cap) : array[s].key \notin {0, key}

\* table_get
Stored(key) == count # 0 /\ entries[FindEntry(entries, capacity, key)].key # 0

Get(key) == entries[FindEntry(entries, capacity, key)].value

GrowCapacity(cap) == IF cap = 0 THEN 2 ELSE cap * 2

\* Mutant: the table is allowed to fill up.
NeedsRoomWhenFull == count >= capacity

\* count + 1 > capacity * TABLE_MAX_LOAD
NeedsRoom == 4 * (count + 1) > 3 * capacity

\* The end of table_set, on an array that has room.
Store(array, cap, key, value) ==
    LET slot == FindEntry(array, cap, key) IN
        /\ count' = IF array[slot].key = 0 THEN count + 1 ELSE count
        /\ entries' = [array EXCEPT ![slot] = [key |-> key, value |-> value]]

SetInPlace(key, value) ==
    /\ call = None
    /\ ~NeedsRoom
    /\ Store(entries, capacity, key, value)
    /\ UNCHANGED <<capacity, growVars>>

\* adjust_capacity begins with an array of free slots.
BeginGrow(key, value) ==
    /\ call = None
    /\ NeedsRoom
    /\ call' = [key |-> key, value |-> value]
    /\ fresh' = [s \in Slot(GrowCapacity(capacity)) |-> [key |-> 0, value |-> Blank]]
    /\ moved' = 0
    /\ UNCHANGED tableVars

\* Mutant: an entry keeps its index.
MoveEntryUnhashed ==
    /\ call # None
    /\ moved < capacity
    /\ fresh' = [fresh EXCEPT ![moved] = entries[moved]]
    /\ moved' = moved + 1
    /\ UNCHANGED <<tableVars, call>>

MoveEntry ==
    /\ call # None
    /\ moved < capacity
    /\ LET old == entries[moved] IN
           fresh' = IF old.key = 0 THEN fresh
                    ELSE [fresh EXCEPT ![FindEntry(fresh, GrowCapacity(capacity), old.key)] = old]
    /\ moved' = moved + 1
    /\ UNCHANGED <<tableVars, call>>

FinishGrow ==
    /\ call # None
    /\ moved = capacity
    /\ capacity' = GrowCapacity(capacity)
    /\ Store(fresh, GrowCapacity(capacity), call.key, call.value)
    /\ call' = None /\ fresh' = <<>> /\ moved' = 0

TableSet(key, value) == SetInPlace(key, value) \/ BeginGrow(key, value)

GlyphNext ==
    \/ count < MaxCount /\ \E k \in Key, v \in Glyph : TableSet(k, v)
    \/ MoveEntry
    \/ FinishGrow

GlyphSpec == GlyphInit /\ [][GlyphNext]_glyphVars

-----------------------------------------------------------------------------
Entry == [key : Key \cup {0}, value : Glyph \cup {Blank}]

GlyphTypeOK ==
    /\ count \in Nat /\ capacity \in Nat
    /\ entries \in [Slot(capacity) -> Entry]
    /\ call = None => fresh = <<>> /\ moved = 0
    /\ call # None =>
           /\ call \in [key : Key, value : Glyph]
           /\ fresh \in [Slot(GrowCapacity(capacity)) -> Entry]
           /\ moved \in 0..capacity

Used(array, cap) == {s \in Slot(cap) : array[s].key # 0}

\* Every probe ends: find_entry (map.c 42-54) loops until it meets a free slot
\* or the key, so the array of table_get and table_set and the one that
\* adjust_capacity fills must keep a free slot.  count may run ahead of the
\* slots in use, since a glyph for key 0 is counted and leaves its slot free,
\* but never behind.
ProbesEnd ==
    /\ Cardinality(Used(entries, capacity)) <= count
    /\ capacity > 0 => Used(entries, capacity) # Slot(capacity)
    /\ call # None =>
           Used(fresh, GrowCapacity(capacity)) # Slot(GrowCapacity(capacity))

\* The table implements a map: table_get finds for every key what table_set
\* stored for it last, through collisions, wrapped probes and growth.
Map == INSTANCE GlyphMap WITH
           Key <- Key, Glyph <- Glyph,
           glyphs <- [k \in {key \in Key : Stored(key)} |-> Get(k)]
GlyphMapSpec == Map!Spec
=============================================================================

--------------------------------- MODULE Dpb ---------------------------------
(***************************************************************************)
(* The decoded picture buffer of the API (framefinery-api/src/dpb.rs,      *)
(* DecodedPictureBuffer): a list of pictures in insertion order, with a    *)
(* capacity, unique picture ids and eviction of the oldest non-reference.  *)
(*                                                                         *)
(* An entry is its id, its info, its reference flag, and the time of its   *)
(* insertion, which the code does not store: the properties use it to say  *)
(* which entry is the oldest.  order, keyframe and the samples play no part*)
(* in what the buffer does.                                                *)
(***************************************************************************)
EXTENDS Integers, Sequences

CONSTANTS
    PictureId,
    Info,        \* frame descriptions: geometry and format
    BufferInfo,  \* the one this buffer was made for
    capacity,    \* at least one: new() refuses zero
    MaxClock     \* bound on the insertions, for TLC

DpbAssumption ==
    /\ BufferInfo \in Info
    /\ capacity \in Nat \ {0}
    /\ MaxClock \in Nat
ASSUME DpbAssumption

VARIABLES
    entries,   \* the stored pictures, oldest first
    clock,     \* insertions so far
    evicted    \* the entry the last call removed, or NoEntry

dpbVars == <<entries, clock, evicted>>

NoEntry == [id |-> "none"]
Entry == [id : PictureId, info : Info, reference : BOOLEAN, stamp : Nat]

Index == DOMAIN entries

DpbInit == entries = <<>> /\ clock = 0 /\ evicted = NoEntry

-----------------------------------------------------------------------------
(* Queries *)

is_full == Len(entries) >= capacity

\* Mutant: the id is not looked up.
MutValid(id, info) == info = BufferInfo

\* validate_entry
Valid(id, info) == info = BufferInfo /\ \A i \in Index : entries[i].id # id

\* The position get and set_reference find: the first with the id.
Found(id) == {i \in Index : entries[i].id = id /\ \A j \in 1..(i - 1) : entries[j].id # id}

NonReferences == {i \in Index : ~entries[i].reference}

\* The position evict_oldest_non_reference finds.
OldestNonReference == {i \in NonReferences : \A j \in NonReferences : i <= j}

\* The position latest_reference finds, from the back.
LatestReference ==
    {i \in Index : entries[i].reference /\ \A j \in Index : entries[j].reference => j <= i}

\* Vec::remove
Without(s, i) == [j \in 1..(Len(s) - 1) |-> IF j < i THEN s[j] ELSE s[j + 1]]

-----------------------------------------------------------------------------
(* Operations; a call refused by a check is a step that changes nothing.    *)

NewEntry(id, reference) ==
    [id |-> id, info |-> BufferInfo, reference |-> reference, stamp |-> clock]

\* insert
Insert(id, info, reference) ==
    /\ Valid(id, info)
    /\ ~is_full
    /\ entries' = Append(entries, NewEntry(id, reference))
    /\ clock' = clock + 1
    /\ evicted' = NoEntry

\* Mutant: the oldest entry makes room, reference or not.
MutInsertEvicting(id, info, reference) ==
    /\ Valid(id, info)
    /\ IF is_full
       THEN entries' = Append(Without(entries, 1), NewEntry(id, reference)) /\ evicted' = entries[1]
       ELSE entries' = Append(entries, NewEntry(id, reference)) /\ evicted' = NoEntry
    /\ clock' = clock + 1

\* insert_evicting_oldest
InsertEvicting(id, info, reference) ==
    /\ Valid(id, info)
    /\ \/ /\ ~is_full
          /\ entries' = Append(entries, NewEntry(id, reference))
          /\ evicted' = NoEntry
       \/ /\ is_full
          /\ \E i \in IF NonReferences # {} THEN OldestNonReference ELSE {1} :
                /\ entries' = Append(Without(entries, i), NewEntry(id, reference))
                /\ evicted' = entries[i]
    /\ clock' = clock + 1

\* set_reference
SetReference(id, reference) ==
    /\ \E i \in Found(id) : entries' = [entries EXCEPT ![i].reference = reference]
    /\ evicted' = NoEntry
    /\ UNCHANGED clock

\* evict_oldest_non_reference
EvictOldestNonReference ==
    /\ \E i \in OldestNonReference :
        /\ entries' = Without(entries, i)
        /\ evicted' = entries[i]
    /\ UNCHANGED clock

\* evict_oldest
EvictOldest ==
    /\ entries # <<>>
    /\ entries' = Without(entries, 1)
    /\ evicted' = entries[1]
    /\ UNCHANGED clock

\* clear
Clear ==
    /\ entries' = <<>>
    /\ evicted' = NoEntry
    /\ UNCHANGED clock

DpbNext ==
    \/ \E id \in PictureId, info \in Info, reference \in BOOLEAN :
        /\ clock < MaxClock
        /\ Insert(id, info, reference) \/ InsertEvicting(id, info, reference)
    \/ \E id \in PictureId, reference \in BOOLEAN : SetReference(id, reference)
    \/ EvictOldestNonReference \/ EvictOldest \/ Clear

DpbSpec == DpbInit /\ [][DpbNext]_dpbVars

-----------------------------------------------------------------------------
(* Properties *)

\* The buffer never outgrows its capacity, never holds two pictures of one id
\* and never a frame of another format, whatever insertions, evictions and
\* reference marks the codec mixes.
DpbOK ==
    /\ entries \in Seq(Entry)
    /\ clock \in Nat
    /\ Len(entries) <= capacity
    /\ \A i, j \in Index : entries[i].id = entries[j].id => i = j
    /\ \A i \in Index : entries[i].info = BufferInfo

\* The list stays in insertion order through every eviction, so iter() is the
\* insertion order and latest_reference() the newest reference, as documented.
InsertionOrder ==
    /\ \A i, j \in Index : i < j => entries[i].stamp < entries[j].stamp
    /\ \A i \in Index : entries[i].stamp < clock

Store == INSTANCE PictureStore WITH pictures <- {entries[i] : i \in Index}

\* The buffer implements the store: a picture marked as a reference is only
\* displaced when nothing else could be, and it is the oldest then.
ImplementsStore == Store!StoreSpec
=============================================================================

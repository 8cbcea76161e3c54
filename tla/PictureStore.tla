---------------------------- MODULE PictureStore ----------------------------
(***************************************************************************)
(* What the decoded picture buffer promises (docs/api-v0.md, "Reference    *)
(* Frames"): a bounded set of pictures with unique ids, in which an        *)
(* insertion into a full store displaces the oldest picture that is no     *)
(* longer a reference, and the oldest of all only if every one is.         *)
(***************************************************************************)
EXTENDS Naturals, FiniteSets

CONSTANTS PictureId, BufferInfo, capacity, NoEntry

VARIABLES pictures, clock, evicted

Oldest(set) == {p \in set : \A q \in set : p.stamp <= q.stamp}
Unreferenced == {p \in pictures : ~p.reference}
Displaced == IF Unreferenced # {} THEN Oldest(Unreferenced) ELSE Oldest(pictures)

Fresh(id, reference) ==
    [id |-> id, info |-> BufferInfo, reference |-> reference, stamp |-> clock]

StoreInit == pictures = {} /\ clock = 0 /\ evicted = NoEntry

Store(id, reference) ==
    /\ \A p \in pictures : p.id # id
    /\ Cardinality(pictures) < capacity
    /\ pictures' = pictures \cup {Fresh(id, reference)}
    /\ clock' = clock + 1
    /\ evicted' = NoEntry

Displace(id, reference) ==
    /\ \A p \in pictures : p.id # id
    /\ Cardinality(pictures) = capacity
    /\ \E p \in Displaced :
        /\ pictures' = (pictures \ {p}) \cup {Fresh(id, reference)}
        /\ evicted' = p
    /\ clock' = clock + 1

Mark(id, reference) ==
    /\ \E p \in pictures :
        /\ p.id = id
        /\ pictures' = (pictures \ {p}) \cup {[p EXCEPT !.reference = reference]}
    /\ evicted' = NoEntry
    /\ UNCHANGED clock

Remove ==
    /\ \E p \in Oldest(Unreferenced) \cup Oldest(pictures) :
        pictures' = pictures \ {p} /\ evicted' = p
    /\ UNCHANGED clock

Empty == pictures' = {} /\ evicted' = NoEntry /\ UNCHANGED clock

StoreNext ==
    \/ \E id \in PictureId, reference \in BOOLEAN :
          Store(id, reference) \/ Displace(id, reference) \/ Mark(id, reference)
    \/ Remove
    \/ Empty

StoreSpec == StoreInit /\ [][StoreNext]_<<pictures, clock, evicted>>
=============================================================================

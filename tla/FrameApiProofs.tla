---------------------------- MODULE FrameApiProofs ----------------------------
(***************************************************************************)
(* The decoded picture buffer keeps its capacity, its unique ids and its   *)
(* insertion order, for every capacity and every mix of operations; the    *)
(* buffered session, for every number of frames, limit and form of         *)
(* reconstruction, delivers at a flush exactly what was accepted and keeps *)
(* the contract of VideoEncoderSession up to the first failure.            *)
(***************************************************************************)
EXTENDS Dpb, BufferedSession, FiniteSetTheorems, SequenceTheorems, TLAPS

-----------------------------------------------------------------------------
(* The decoded picture buffer *)

USE DpbAssumption DEF DpbAssumption

\* What both invariants say of a list of entries, at a given time.
Ordered(s, now) ==
    /\ s \in Seq(Entry)
    /\ \A i, j \in DOMAIN s : s[i].id = s[j].id => i = j
    /\ \A i \in DOMAIN s : s[i].info = BufferInfo
    /\ \A i, j \in DOMAIN s : i < j => s[i].stamp < s[j].stamp
    /\ \A i \in DOMAIN s : s[i].stamp < now

IInv == Ordered(entries, clock) /\ clock \in Nat /\ Len(entries) <= capacity

LEMMA InvariantsAsOne == IInv <=> DpbOK /\ InsertionOrder
BY DEF IInv, Ordered, DpbOK, InsertionOrder, Index

\* Removing one entry keeps the others in order.
LEMMA WithoutOrdered ==
    ASSUME NEW s, NEW now \in Nat, Ordered(s, now), NEW i \in DOMAIN s
    PROVE  /\ Ordered(Without(s, i), now)
           /\ Len(Without(s, i)) = Len(s) - 1
           /\ \A j \in DOMAIN Without(s, i) : \E k \in DOMAIN s : Without(s, i)[j] = s[k]
<1> DEFINE w == Without(s, i)
           source(j) == IF j < i THEN j ELSE j + 1
<1>1. s \in Seq(Entry) /\ Len(s) \in Nat /\ DOMAIN s = 1..Len(s) /\ i \in 1..Len(s)
  BY DEF Ordered
<1>2. w = [j \in 1..(Len(s) - 1) |-> s[source(j)]]
  BY DEF Without
<1>3. \A j \in 1..(Len(s) - 1) : source(j) \in 1..Len(s) /\ w[j] = s[source(j)]
  BY <1>1, <1>2
<1>4. w \in Seq(Entry) /\ Len(w) = Len(s) - 1 /\ DOMAIN w = 1..(Len(s) - 1)
  <2>1. \A j \in 1..(Len(s) - 1) : s[source(j)] \in Entry
    BY <1>1, <1>3
  <2>2. Len(s) - 1 \in Nat
    BY <1>1
  <2>3. w \in [1..(Len(s) - 1) -> Entry]
    BY <1>2, <2>1
  <2>4. QED
    BY <1>2, <2>2, <2>3
<1> HIDE DEF w
<1>5. \A j, k \in 1..(Len(s) - 1) :
        /\ source(j) = source(k) => j = k
        /\ j < k => source(j) < source(k)
  BY <1>1
<1> HIDE DEF source
<1>6. \A j, k \in DOMAIN w : w[j].id = w[k].id => j = k
  <2> SUFFICES ASSUME NEW j \in 1..(Len(s) - 1), NEW k \in 1..(Len(s) - 1),
                      w[j].id = w[k].id
               PROVE  j = k
    BY <1>4
  <2>1. s[source(j)].id = s[source(k)].id
    BY <1>3
  <2>2. source(j) = source(k)
    BY <1>1, <1>3, <2>1 DEF Ordered
  <2>3. QED
    BY <1>5, <2>2
<1>7. \A j, k \in DOMAIN w : j < k => w[j].stamp < w[k].stamp
  <2> SUFFICES ASSUME NEW j \in 1..(Len(s) - 1), NEW k \in 1..(Len(s) - 1), j < k
               PROVE  w[j].stamp < w[k].stamp
    BY <1>4
  <2>1. source(j) < source(k)
    BY <1>5
  <2>2. s[source(j)].stamp < s[source(k)].stamp
    BY <1>1, <1>3, <2>1 DEF Ordered
  <2>3. QED
    BY <1>3, <2>2
<1>8. \A j \in DOMAIN w : w[j].info = BufferInfo /\ w[j].stamp < now
  BY <1>1, <1>3, <1>4 DEF Ordered
<1>9. Ordered(w, now)
  BY <1>4, <1>6, <1>7, <1>8 DEF Ordered
<1>10. QED
  BY <1>1, <1>3, <1>4, <1>9 DEF w

\* Appending an entry with a fresh id and the present as its stamp.
LEMMA AppendOrdered ==
    ASSUME NEW s, NEW now \in Nat, Ordered(s, now),
           NEW e \in Entry, e.info = BufferInfo, e.stamp = now,
           \A i \in DOMAIN s : s[i].id # e.id
    PROVE  Ordered(Append(s, e), now + 1) /\ Len(Append(s, e)) = Len(s) + 1
<1>1. s \in Seq(Entry) /\ Len(s) \in Nat /\ DOMAIN s = 1..Len(s)
  BY DEF Ordered
<1>2. /\ Append(s, e) \in Seq(Entry)
      /\ Len(Append(s, e)) = Len(s) + 1
      /\ DOMAIN Append(s, e) = 1..(Len(s) + 1)
      /\ \A i \in 1..Len(s) : Append(s, e)[i] = s[i]
      /\ Append(s, e)[Len(s) + 1] = e
  BY <1>1
<1>3. \A i \in 1..Len(s) : s[i].stamp \in Nat /\ s[i].stamp < now /\ s[i].info = BufferInfo
  <2>1. \A i \in 1..Len(s) : s[i] \in Entry
    BY <1>1
  <2>2. QED
    BY <1>1, <2>1 DEF Ordered, Entry
<1>4. \A i \in 1..(Len(s) + 1) : i \in 1..Len(s) \/ i = Len(s) + 1
  BY <1>1
<1>5. \A i, j \in DOMAIN Append(s, e) :
        Append(s, e)[i].id = Append(s, e)[j].id => i = j
  BY <1>1, <1>2, <1>4 DEF Ordered
<1>6. \A i, j \in DOMAIN Append(s, e) :
        i < j => Append(s, e)[i].stamp < Append(s, e)[j].stamp
  <2> SUFFICES ASSUME NEW i \in 1..(Len(s) + 1), NEW j \in 1..(Len(s) + 1), i < j
               PROVE  Append(s, e)[i].stamp < Append(s, e)[j].stamp
    BY <1>2
  <2>1. i \in 1..Len(s)
    BY <1>1
  <2>2. CASE j \in 1..Len(s)
    BY <1>1, <1>2, <2>1, <2>2 DEF Ordered
  <2>3. CASE j = Len(s) + 1
    BY <1>2, <1>3, <2>1, <2>3
  <2>4. QED
    BY <1>4, <2>2, <2>3
<1>7. \A i \in DOMAIN Append(s, e) :
        Append(s, e)[i].info = BufferInfo /\ Append(s, e)[i].stamp < now + 1
  BY <1>2, <1>3, <1>4
<1>8. QED
  BY <1>2, <1>5, <1>6, <1>7 DEF Ordered

LEMMA NewEntryType ==
    ASSUME clock \in Nat, NEW id \in PictureId, NEW reference \in BOOLEAN
    PROVE  /\ NewEntry(id, reference) \in Entry
           /\ NewEntry(id, reference).id = id
           /\ NewEntry(id, reference).info = BufferInfo
           /\ NewEntry(id, reference).stamp = clock
BY DEF NewEntry, Entry

\* Changing a reference flag keeps ids, infos and stamps.
LEMMA MarkOrdered ==
    ASSUME NEW s, NEW now \in Nat, Ordered(s, now),
           NEW i \in DOMAIN s, NEW reference \in BOOLEAN
    PROVE  /\ Ordered([s EXCEPT ![i].reference = reference], now)
           /\ Len([s EXCEPT ![i].reference = reference]) = Len(s)
<1> DEFINE e == [s[i] EXCEPT !.reference = reference]
           m == [s EXCEPT ![i] = e]
<1>1. s \in Seq(Entry) /\ Len(s) \in Nat /\ DOMAIN s = 1..Len(s) /\ s[i] \in Entry
  BY DEF Ordered
<1>2. e \in Entry /\ e.id = s[i].id /\ e.info = s[i].info /\ e.stamp = s[i].stamp
  BY <1>1 DEF Entry
<1>3. [s EXCEPT ![i].reference = reference] = m
  OBVIOUS
<1> HIDE DEF e
<1>4. m \in Seq(Entry) /\ Len(m) = Len(s) /\ DOMAIN m = DOMAIN s
  BY <1>1, <1>2
<1>5. \A j \in DOMAIN s : /\ m[j].id = s[j].id
                          /\ m[j].info = s[j].info
                          /\ m[j].stamp = s[j].stamp
  BY <1>1, <1>2
<1> HIDE DEF m
<1>6. Ordered(m, now)
  BY <1>4, <1>5 DEF Ordered
<1>7. QED
  BY <1>3, <1>4, <1>6

LEMMA InitIInv == DpbInit => IInv
BY DEF DpbInit, IInv, Ordered

LEMMA StepIInv == IInv /\ [DpbNext]_dpbVars => IInv'
<1> SUFFICES ASSUME IInv, [DpbNext]_dpbVars PROVE IInv'
  OBVIOUS
<1> USE DEF IInv
<1>1. entries \in Seq(Entry) /\ Len(entries) \in Nat /\ DOMAIN entries = 1..Len(entries)
  BY DEF Ordered
<1>2. ASSUME NEW id \in PictureId, NEW info \in Info, NEW reference \in BOOLEAN,
             Insert(id, info, reference)
      PROVE  IInv'
  <2>1. \A i \in DOMAIN entries : entries[i].id # NewEntry(id, reference).id
    BY <1>2, NewEntryType DEF Insert, Valid, Index
  <2>2. Ordered(entries', clock') /\ Len(entries') = Len(entries) + 1
    BY <1>2, <2>1, NewEntryType, AppendOrdered DEF Insert
  <2>3. QED
    BY <1>1, <1>2, <2>2 DEF Insert, is_full
<1>3. ASSUME NEW id \in PictureId, NEW info \in Info, NEW reference \in BOOLEAN,
             InsertEvicting(id, info, reference)
      PROVE  IInv'
  <2>1. \A i \in DOMAIN entries : entries[i].id # NewEntry(id, reference).id
    BY <1>3, NewEntryType DEF InsertEvicting, Valid, Index
  <2>2. CASE ~is_full /\ entries' = Append(entries, NewEntry(id, reference))
    <3>1. Ordered(entries', clock') /\ Len(entries') = Len(entries) + 1
      BY <1>3, <2>1, <2>2, NewEntryType, AppendOrdered DEF InsertEvicting
    <3>2. QED
      BY <1>1, <1>3, <2>2, <3>1 DEF InsertEvicting, is_full
  <2>3. CASE is_full /\ \E i \in IF NonReferences # {} THEN OldestNonReference ELSE {1} :
                entries' = Append(Without(entries, i), NewEntry(id, reference))
    <3>1. PICK i \in IF NonReferences # {} THEN OldestNonReference ELSE {1} :
                entries' = Append(Without(entries, i), NewEntry(id, reference))
      BY <2>3
    <3>2. i \in DOMAIN entries
      BY <1>1, <2>3, <3>1 DEF OldestNonReference, NonReferences, Index, is_full
    <3>3. /\ Ordered(Without(entries, i), clock)
          /\ Len(Without(entries, i)) = Len(entries) - 1
          /\ \A j \in DOMAIN Without(entries, i) :
                \E k \in DOMAIN entries : Without(entries, i)[j] = entries[k]
      BY <3>2, WithoutOrdered
    <3>4. \A j \in DOMAIN Without(entries, i) :
            Without(entries, i)[j].id # NewEntry(id, reference).id
      BY <2>1, <3>3
    <3>5. Ordered(entries', clock + 1) /\ Len(entries') = Len(Without(entries, i)) + 1
      BY <3>1, <3>3, <3>4, NewEntryType, AppendOrdered
    <3>6. QED
      BY <1>1, <1>3, <3>3, <3>5 DEF InsertEvicting
  <2>4. QED
    BY <1>3, <2>2, <2>3 DEF InsertEvicting
<1>4. ASSUME NEW id \in PictureId, NEW reference \in BOOLEAN, SetReference(id, reference)
      PROVE  IInv'
  <2>1. PICK i \in DOMAIN entries :
            entries' = [entries EXCEPT ![i].reference = reference]
    BY <1>4 DEF SetReference, Found, Index
  <2>2. QED
    BY <1>4, <2>1, MarkOrdered DEF SetReference
<1>5. ASSUME NEW i \in DOMAIN entries, entries' = Without(entries, i), clock' = clock
      PROVE  IInv'
  BY <1>1, <1>5, WithoutOrdered
<1>6. CASE EvictOldestNonReference
  BY <1>5, <1>6 DEF EvictOldestNonReference, OldestNonReference, NonReferences, Index
<1>7. CASE EvictOldest
  <2>1. 1 \in DOMAIN entries
    BY <1>1, <1>7 DEF EvictOldest
  <2>2. QED
    BY <1>5, <1>7, <2>1 DEF EvictOldest
<1>8. CASE Clear
  BY <1>8 DEF Clear, Ordered
<1>9. CASE UNCHANGED dpbVars
  BY <1>9 DEF dpbVars
<1>10. QED
  BY <1>2, <1>3, <1>4, <1>6, <1>7, <1>8, <1>9 DEF DpbNext

\* Capacity, unique ids and frame format hold for every capacity and history.
THEOREM BufferIsBounded == DpbSpec => []DpbOK
<1>1. IInv => DpbOK
  BY InvariantsAsOne
<1>2. QED
  BY InitIInv, StepIInv, <1>1, PTL DEF DpbSpec

\* The list is in insertion order, so that the newest reference is the last one.
THEOREM OrderIsInsertion == DpbSpec => []InsertionOrder
<1>1. IInv => InsertionOrder
  BY InvariantsAsOne
<1>2. QED
  BY InitIInv, StepIInv, <1>1, PTL DEF DpbSpec

-----------------------------------------------------------------------------
(* The buffer implements the store *)

Pictures(s) == {s[i] : i \in DOMAIN s}

\* The entries are pairwise different: the set is as large as the list.
LEMMA PicturesCount ==
    ASSUME NEW s, NEW now, Ordered(s, now)
    PROVE  Cardinality(Pictures(s)) = Len(s)
<1>1. s \in Seq(Entry) /\ Len(s) \in Nat /\ DOMAIN s = 1..Len(s)
  BY DEF Ordered
<1>2. \A i, j \in DOMAIN s : s[i] = s[j] => i = j
  BY DEF Ordered
<1>3. s \in Bijection(1..Len(s), Pictures(s))
  <2>1. s \in [1..Len(s) -> Entry]
    BY <1>1
  <2>2. s \in [1..Len(s) -> Pictures(s)]
    BY <1>1, <2>1 DEF Pictures
  <2>3. \A p \in Pictures(s) : \E i \in 1..Len(s) : s[i] = p
    BY <1>1 DEF Pictures
  <2>4. QED
    BY <1>1, <1>2, <2>2, <2>3 DEF Bijection, Injection, Surjection, IsInjective
<1>4. QED
  BY <1>1, <1>3, FS_CountingElements DEF ExistsBijection

LEMMA PicturesWithout ==
    ASSUME NEW s, NEW now, Ordered(s, now), NEW i \in DOMAIN s
    PROVE  Pictures(Without(s, i)) = Pictures(s) \ {s[i]}
<1>1. Len(s) \in Nat /\ DOMAIN s = 1..Len(s) /\ i \in 1..Len(s)
  BY DEF Ordered
<1>2. \A j, k \in 1..Len(s) : s[j] = s[k] => j = k
  BY <1>1 DEF Ordered
<1>3. DOMAIN Without(s, i) = 1..(Len(s) - 1)
  BY DEF Without
<1>4. \A j \in 1..(Len(s) - 1) : /\ j < i => Without(s, i)[j] = s[j]
                                 /\ j >= i => Without(s, i)[j] = s[j + 1]
  BY DEF Without
<1>5. ASSUME NEW p \in Pictures(Without(s, i)) PROVE p \in Pictures(s) \ {s[i]}
  <2>1. PICK j \in 1..(Len(s) - 1) : p = Without(s, i)[j]
    BY <1>3 DEF Pictures
  <2>2. PICK k \in 1..Len(s) : k # i /\ p = s[k]
    <3>1. CASE j < i
      <4>1. j \in 1..Len(s) /\ j # i /\ p = s[j]
        BY <1>1, <1>4, <2>1, <3>1
      <4>2. QED
        BY <4>1
    <3>2. CASE j >= i
      <4>1. j + 1 \in 1..Len(s) /\ j + 1 # i /\ p = s[j + 1]
        BY <1>1, <1>4, <2>1, <3>2
      <4>2. QED
        BY <4>1
    <3>3. QED
      BY <1>1, <3>1, <3>2
  <2>3. QED
    BY <1>1, <1>2, <2>2 DEF Pictures
<1>6. ASSUME NEW p \in Pictures(s) \ {s[i]} PROVE p \in Pictures(Without(s, i))
  <2>1. PICK k \in 1..Len(s) : p = s[k] /\ k # i
    BY <1>1 DEF Pictures
  <2>2. PICK j \in 1..(Len(s) - 1) : p = Without(s, i)[j]
    <3>1. CASE k < i
      <4>1. k \in 1..(Len(s) - 1) /\ p = Without(s, i)[k]
        BY <1>1, <1>4, <2>1, <3>1
      <4>2. QED
        BY <4>1
    <3>2. CASE k > i
      <4>1. k - 1 \in 1..(Len(s) - 1) /\ k - 1 >= i /\ (k - 1) + 1 = k
        BY <1>1, <2>1, <3>2
      <4>2. QED
        BY <1>4, <2>1, <4>1
    <3>3. QED
      BY <1>1, <2>1, <3>1, <3>2
  <2>3. QED
    BY <1>3, <2>2 DEF Pictures
<1>7. QED
  BY <1>5, <1>6

LEMMA PicturesAppend ==
    ASSUME NEW s, NEW now, Ordered(s, now), NEW e
    PROVE  Pictures(Append(s, e)) = Pictures(s) \cup {e}
<1>1. Len(s) \in Nat /\ DOMAIN s = 1..Len(s) /\ s \in Seq(Entry)
  BY DEF Ordered
<1>2. /\ DOMAIN Append(s, e) = 1..(Len(s) + 1)
      /\ \A i \in 1..Len(s) : Append(s, e)[i] = s[i]
      /\ Append(s, e)[Len(s) + 1] = e
  <2>1. s \in Seq(Entry \cup {e})
    BY <1>1
  <2>2. QED
    BY <1>1, <2>1
<1>3. 1..(Len(s) + 1) = 1..Len(s) \cup {Len(s) + 1}
  BY <1>1
<1>4. QED
  BY <1>1, <1>2, <1>3 DEF Pictures

\* The oldest picture of the store is the first of the list; the oldest of
\* those that are no reference is the first of them.
LEMMA FirstIsOldest ==
    ASSUME NEW s, NEW now \in Nat, Ordered(s, now), NEW K \in SUBSET DOMAIN s,
           NEW i \in K, \A j \in K : i <= j
    PROVE  s[i] \in Store!Oldest({s[j] : j \in K})
<1>1. DOMAIN s \in SUBSET Nat /\ \A j \in DOMAIN s : s[j].stamp \in Nat
  <2>1. s \in Seq(Entry)
    BY DEF Ordered
  <2>2. \A j \in DOMAIN s : s[j] \in Entry
    BY <2>1
  <2>3. QED
    BY <2>1, <2>2 DEF Entry
<1>2. \A j \in K : s[i].stamp <= s[j].stamp
  BY <1>1 DEF Ordered
<1>3. QED
  BY <1>2 DEF Store!Oldest

LEMMA StoredIds ==
    ASSUME IInv, NEW id
    PROVE  (\A i \in Index : entries[i].id # id) <=> (\A p \in Pictures(entries) : p.id # id)
BY DEF Index, Pictures

\* What the store sees of the list before and after a step.
LEMMA StoreView ==
    /\ {entries[i] : i \in Index} = Pictures(entries)
    /\ {entries[i] : i \in Index}' = Pictures(entries')
BY DEF Index, Pictures

\* The store counts as the buffer does.
LEMMA SameCardinality ==
    ASSUME NEW S
    PROVE  Store!Cardinality(S) = Cardinality(S)
BY DEF Cardinality, Store!Cardinality, IsFiniteSet, Store!IsFiniteSet

LEMMA InsertStores ==
    ASSUME IInv, NEW id \in PictureId, NEW info \in Info, NEW reference \in BOOLEAN,
           Insert(id, info, reference)
    PROVE  Store!Store(id, reference)
<1> DEFINE e == NewEntry(id, reference)
<1>1. Ordered(entries, clock) /\ Len(entries) \in Nat
  BY DEF IInv, Ordered
<1>2. /\ \A p \in Pictures(entries) : p.id # id
      /\ Len(entries) < capacity
      /\ entries' = Append(entries, e) /\ clock' = clock + 1 /\ evicted' = NoEntry
  BY <1>1, StoredIds DEF Insert, Valid, is_full
<1>3. Cardinality(Pictures(entries)) < capacity
  BY <1>1, <1>2, PicturesCount
<1>4. Pictures(entries') = Pictures(entries) \cup {e}
  BY <1>1, <1>2, PicturesAppend
<1>5. e = Store!Fresh(id, reference)
  BY DEF NewEntry, Store!Fresh
<1>6. /\ \A p \in {entries[i] : i \in Index} : p.id # id
      /\ Cardinality({entries[i] : i \in Index}) < capacity
  BY <1>2, <1>3, StoreView
<1>7. {entries[i] : i \in Index}' = {entries[i] : i \in Index} \cup {Store!Fresh(id, reference)}
  BY <1>4, <1>5, StoreView
<1>8. QED
  BY <1>2, <1>6, <1>7, SameCardinality DEF Store!Store

\* The position evict_oldest_non_reference finds holds the store's oldest
\* unreferenced picture, position 1 its oldest picture.
LEMMA EvictedIsOldest ==
    ASSUME IInv
    PROVE  /\ Store!Unreferenced = {entries[j] : j \in NonReferences}
           /\ NonReferences = {} <=> Store!Unreferenced = {}
           /\ \A i \in OldestNonReference :
                i \in Index /\ entries[i] \in Store!Oldest(Store!Unreferenced)
           /\ entries # <<>> => 1 \in Index /\ entries[1] \in Store!Oldest(Pictures(entries))
<1>1. Ordered(entries, clock) /\ clock \in Nat
  BY DEF IInv
<1>2. entries \in Seq(Entry) /\ Len(entries) \in Nat /\ Index = 1..Len(entries)
  BY <1>1 DEF Ordered, Index
<1>3. Store!Unreferenced = {entries[j] : j \in NonReferences}
  BY DEF Store!Unreferenced, NonReferences
<1>4. ASSUME NEW i \in OldestNonReference
      PROVE  i \in Index /\ entries[i] \in Store!Oldest(Store!Unreferenced)
  <2>1. /\ NonReferences \in SUBSET DOMAIN entries
        /\ i \in NonReferences /\ \A j \in NonReferences : i <= j
    BY DEF OldestNonReference, NonReferences, Index
  <2>2. entries[i] \in Store!Oldest({entries[j] : j \in NonReferences})
    BY <1>1, <2>1, FirstIsOldest
  <2>3. QED
    BY <1>3, <2>1, <2>2 DEF Index
<1>5. ASSUME entries # <<>>
      PROVE  1 \in Index /\ entries[1] \in Store!Oldest(Pictures(entries))
  <2>1. 1 \in Index /\ \A j \in Index : 1 <= j
    BY <1>2, <1>5
  <2>2. entries[1] \in Store!Oldest({entries[j] : j \in Index})
    <3>1. Index \in SUBSET DOMAIN entries
      BY DEF Index
    <3>2. QED
      BY <1>1, <2>1, <3>1, FirstIsOldest
  <2>3. QED
    BY <2>1, <2>2, StoreView
<1>6. QED
  BY <1>3, <1>4, <1>5

LEMMA InsertEvictingStores ==
    ASSUME IInv, NEW id \in PictureId, NEW info \in Info, NEW reference \in BOOLEAN,
           InsertEvicting(id, info, reference)
    PROVE  Store!Store(id, reference) \/ Store!Displace(id, reference)
<1> DEFINE e == NewEntry(id, reference)
<1>1. /\ Ordered(entries, clock) /\ clock \in Nat
      /\ Len(entries) \in Nat /\ Len(entries) <= capacity /\ Index = 1..Len(entries)
  BY DEF IInv, Ordered, Index
<1>2. \A p \in Pictures(entries) : p.id # id
  BY StoredIds DEF InsertEvicting, Valid
<1>3. CASE ~is_full
  <2>1. Insert(id, info, reference)
    BY <1>3 DEF InsertEvicting, Insert
  <2>2. QED
    BY <2>1, InsertStores
<1>4. CASE is_full
  <2>1. PICK i \in IF NonReferences # {} THEN OldestNonReference ELSE {1} :
                /\ entries' = Append(Without(entries, i), e)
                /\ evicted' = entries[i] /\ clock' = clock + 1
    BY <1>4 DEF InsertEvicting
  <2>2. Len(entries) = capacity /\ entries # <<>>
    BY <1>1, <1>4 DEF is_full
  <2>3. Cardinality(Pictures(entries)) = capacity
    BY <1>1, <2>2, PicturesCount
  <2>4. i \in DOMAIN entries /\ entries[i] \in Store!Displaced
    <3>1. CASE NonReferences # {}
      BY <2>1, <3>1, EvictedIsOldest DEF Store!Displaced, Index
    <3>2. CASE NonReferences = {}
      BY <2>1, <2>2, <3>2, EvictedIsOldest, StoreView DEF Store!Displaced, Index
    <3>3. QED
      BY <3>1, <3>2
  <2>5. Ordered(Without(entries, i), clock)
    BY <1>1, <2>4, WithoutOrdered
  <2>6. Pictures(entries') = (Pictures(entries) \ {entries[i]}) \cup {e}
    BY <1>1, <2>1, <2>4, <2>5, PicturesWithout, PicturesAppend
  <2>7. e = Store!Fresh(id, reference)
    BY DEF NewEntry, Store!Fresh
  <2>8. Store!Displace(id, reference)
    <3>1. /\ \A p \in {entries[j] : j \in Index} : p.id # id
          /\ Cardinality({entries[j] : j \in Index}) = capacity
      BY <1>2, <2>3, StoreView
    <3>2. {entries[j] : j \in Index}' =
            ({entries[j] : j \in Index} \ {entries[i]}) \cup {Store!Fresh(id, reference)}
      BY <2>6, <2>7, StoreView
    <3>3. QED
      BY <2>1, <2>4, <3>1, <3>2, SameCardinality DEF Store!Displace
  <2>9. QED
    BY <2>8
<1>5. QED
  BY <1>3, <1>4

LEMMA SetReferenceMarks ==
    ASSUME IInv, NEW id \in PictureId, NEW reference \in BOOLEAN, SetReference(id, reference)
    PROVE  Store!Mark(id, reference)
<1>1. PICK i \in Index : /\ entries[i].id = id
                         /\ entries' = [entries EXCEPT ![i].reference = reference]
                         /\ evicted' = NoEntry /\ clock' = clock
  BY DEF SetReference, Found
<1> DEFINE p == entries[i]
           q == [entries[i] EXCEPT !.reference = reference]
<1>2. \A j, k \in Index : entries[j] = entries[k] => j = k
  BY DEF IInv, Ordered, Index
<1>3. DOMAIN entries' = Index /\ entries'[i] = q /\ \A j \in Index : j # i => entries'[j] = entries[j]
  BY <1>1 DEF Index
<1> HIDE DEF q
<1>4. Pictures(entries') = (Pictures(entries) \ {p}) \cup {q}
  BY <1>2, <1>3 DEF Pictures, Index
<1>5. p \in Pictures(entries)
  BY DEF Pictures, Index
<1>6. QED
  BY <1>1, <1>4, <1>5, StoreView DEF Store!Mark, q

LEMMA EvictionRemoves ==
    ASSUME IInv, EvictOldestNonReference \/ EvictOldest
    PROVE  Store!Remove
<1>1. PICK i \in DOMAIN entries :
          /\ entries[i] \in Store!Oldest(Store!Unreferenced) \cup Store!Oldest(Pictures(entries))
          /\ entries' = Without(entries, i) /\ evicted' = entries[i] /\ clock' = clock
  <2>1. CASE EvictOldestNonReference
    BY <2>1, EvictedIsOldest DEF EvictOldestNonReference, Index
  <2>2. CASE EvictOldest
    BY <2>2, EvictedIsOldest DEF EvictOldest, Index
  <2>3. QED
    BY <2>1, <2>2
<1>2. Pictures(entries') = Pictures(entries) \ {entries[i]}
  BY <1>1, PicturesWithout DEF IInv
<1>3. QED
  BY <1>1, <1>2, StoreView DEF Store!Remove

LEMMA StepStores ==
    IInv /\ [DpbNext]_dpbVars => [Store!StoreNext]_<<{entries[i] : i \in Index}, clock, evicted>>
<1> SUFFICES ASSUME IInv, DpbNext PROVE Store!StoreNext
  BY DEF dpbVars, Index
<1>1. ASSUME NEW id \in PictureId, NEW info \in Info, NEW reference \in BOOLEAN,
             Insert(id, info, reference) \/ InsertEvicting(id, info, reference)
      PROVE  Store!StoreNext
  BY <1>1, InsertStores, InsertEvictingStores DEF Store!StoreNext
<1>2. ASSUME NEW id \in PictureId, NEW reference \in BOOLEAN, SetReference(id, reference)
      PROVE  Store!StoreNext
  BY <1>2, SetReferenceMarks DEF Store!StoreNext
<1>3. CASE EvictOldestNonReference \/ EvictOldest
  BY <1>3, EvictionRemoves DEF Store!StoreNext
<1>4. CASE Clear
  <2>1. Pictures(entries') = {} /\ evicted' = NoEntry /\ clock' = clock
    BY <1>4 DEF Clear, Pictures
  <2>2. QED
    BY <2>1, StoreView DEF Store!StoreNext, Store!Empty
<1>5. QED
  BY <1>1, <1>2, <1>3, <1>4 DEF DpbNext

\* The buffer implements the store of docs/api-v0.md: under any mix of calls a
\* picture marked as a reference is only displaced when nothing else could be,
\* and then it is the oldest.
THEOREM BufferImplementsStore == DpbSpec => ImplementsStore
<1>1. DpbInit => Store!StoreInit
  BY DEF DpbInit, Index, Store!StoreInit
<1>2. QED
  BY <1>1, InitIInv, StepIInv, StepStores, PTL DEF DpbSpec, ImplementsStore, Store!StoreSpec

-----------------------------------------------------------------------------
(* The buffered session *)

USE BufferedAssumption

-----------------------------------------------------------------------------
(* The inductive invariant *)

Types ==
    /\ collected \in Seq(SessionFrames)
    /\ closed \in BOOLEAN
    /\ where \in {"idle", "parameters", "frames", "output"}
    /\ cursor \in Nat
    /\ bitstream \in Seq(SessionFrames)
    /\ recon \in Seq(SessionFrames)
    /\ metrics \in Seq(Nat)
    /\ failed \in BOOLEAN

\* The local buffers hold one entry for every frame the encoder has read.
BuffersFollow ==
    /\ Len(bitstream) = cursor
    /\ \A i \in 1..cursor : bitstream[i] = collected[i]
    /\ IF ReconstructionMode = "frames"
       THEN Len(recon) = cursor /\ \A i \in 1..cursor : recon[i] = collected[i]
       ELSE recon = <<>>
    /\ IF ReconstructionMode = "none" THEN metrics = <<>>
       ELSE Len(metrics) = cursor /\ \A i \in 1..cursor : metrics[i] = i - 1

FlushState ==
    /\ where \in {"idle", "parameters"} =>
          bitstream = <<>> /\ recon = <<>> /\ metrics = <<>>
    /\ ~closed \/ where = "parameters" => cursor = 0
    /\ where \in {"frames", "output"} => BuffersFollow /\ cursor <= Len(collected)
    /\ where = "output" => cursor = Len(collected)

\* A session is flushed once, and has nothing to show for it before its end.
FlushedOnce ==
    /\ ~closed => where = "idle" /\ ~failed /\ delivered = <<>>
    /\ where # "idle" => ~failed /\ delivered = <<>>

BufferedInv == Types /\ FlushState /\ FlushedOnce /\ DeliveredOnce

LEMMA InitBufferedInv == BufferedInit => BufferedInv
<1> SUFFICES ASSUME BufferedInit PROVE BufferedInv
  OBVIOUS
<1> USE DEF BufferedInit
<1>1. Types
  BY EmptySeq DEF Types
<1>2. FlushState /\ FlushedOnce
  BY DEF FlushState, FlushedOnce
<1>3. DeliveredOnce
  BY Zenon DEF DeliveredOnce
<1>4. QED
  BY <1>1, <1>2, <1>3 DEF BufferedInv

\* The only output there is: all frames, a record for each.
LEMMA OutputIsComplete ==
    ASSUME BufferedInv, where = "output"
    PROVE  [chunk |-> bitstream, recon |-> recon, metrics |-> metrics] =
           [chunk |-> collected,
            recon |-> IF ReconstructionMode = "frames" THEN collected ELSE <<>>,
            metrics |-> IF ReconstructionMode = "none" THEN <<>>
                        ELSE [i \in DOMAIN collected |-> i - 1]]
<1>1. Types /\ BuffersFollow /\ cursor = Len(collected)
  BY DEF BufferedInv, FlushState
<1>2. DOMAIN collected = 1..Len(collected) /\ Len(collected) \in Nat
  BY <1>1 DEF Types
<1>3. bitstream = collected
  BY <1>1, SeqEqual DEF Types, BuffersFollow
<1>4. ReconstructionMode = "frames" => recon = collected
  BY <1>1, SeqEqual DEF Types, BuffersFollow
<1>5. ReconstructionMode # "none" => metrics = [i \in DOMAIN collected |-> i - 1]
  <2> SUFFICES ASSUME ReconstructionMode # "none" PROVE metrics = [i \in 1..cursor |-> i - 1]
    BY <1>1, <1>2
  <2> DEFINE m == [i \in 1..cursor |-> i - 1]
  <2>1. cursor \in Nat /\ \A i \in 1..cursor : i - 1 \in Nat
    BY <1>1 DEF Types
  <2>2. m \in Seq(Nat) /\ Len(m) = cursor /\ \A i \in 1..cursor : m[i] = i - 1
    BY <2>1
  <2> HIDE DEF m
  <2>3. metrics \in Seq(Nat) /\ Len(metrics) = cursor /\ \A i \in 1..cursor : metrics[i] = i - 1
    BY <1>1 DEF Types, BuffersFollow
  <2>4. metrics = m
    BY <2>2, <2>3, SeqEqual
  <2>5. QED
    BY <2>4 DEF m
<1>6. QED
  BY <1>1, <1>3, <1>4, <1>5 DEF BuffersFollow

-----------------------------------------------------------------------------
(* Steps *)

\* DeliveredOnce looks at these only.
LEMMA NothingDelivered ==
    ASSUME DeliveredOnce, UNCHANGED <<delivered, failed, closed, where>>,
           collected' = collected \/ delivered = <<>>
    PROVE  DeliveredOnce'
BY Zenon DEF DeliveredOnce

LEMMA FlushErrorBufferedInv ==
    ASSUME BufferedInv, where # "idle", FlushError
    PROVE  BufferedInv'
<1>1. Types'
  BY EmptySeq DEF BufferedInv, Types, FlushError
<1>2. FlushState' /\ FlushedOnce'
  BY DEF BufferedInv, FlushState, FlushedOnce, FlushError
<1>3. DeliveredOnce'
  <2>1. delivered' = <<>> /\ failed'
    BY DEF BufferedInv, FlushedOnce, FlushError
  <2>2. QED
    BY <2>1 DEF DeliveredOnce
<1>4. QED
  BY <1>1, <1>2, <1>3 DEF BufferedInv

LEMMA EncodeFrameBufferedInv ==
    ASSUME BufferedInv, EncodeNext
    PROVE  BufferedInv'
<1>1. /\ Types /\ FlushState /\ FlushedOnce /\ DeliveredOnce /\ BuffersFollow
      /\ where = "frames" /\ cursor < Len(collected) /\ collected \in Seq(SessionFrames)
      /\ cursor \in Nat /\ cursor' = cursor + 1
  BY DEF BufferedInv, EncodeNext, FlushState, Types
<1> DEFINE f == collected[cursor + 1]
<1>2. f \in SessionFrames
  BY <1>1, ElementOfSeq
<1>3. /\ bitstream' = Append(bitstream, f)
      /\ recon' = IF ReconstructionMode = "frames" THEN Append(recon, f) ELSE recon
      /\ metrics' = IF ReconstructionMode = "none" THEN metrics ELSE Append(metrics, cursor)
      /\ UNCHANGED <<collected, closed, where, delivered, failed>>
  BY <1>1 DEF EncodeNext, BuffersFollow
<1> HIDE DEF f
<1>4. ASSUME NEW S, NEW s \in Seq(S), NEW e \in S
      PROVE  /\ Append(s, e) \in Seq(S) /\ Len(Append(s, e)) = Len(s) + 1
             /\ \A i \in 1..Len(s) : Append(s, e)[i] = s[i]
             /\ Append(s, e)[Len(s) + 1] = e
  BY <1>4
<1>5. Types'
  BY <1>1, <1>2, <1>3, <1>4 DEF Types
<1>6. \A i \in 1..(cursor + 1) : i \in 1..cursor \/ i = cursor + 1
  BY <1>1
<1>7. BuffersFollow'
  <2>1. Len(bitstream') = cursor' /\ \A i \in 1..cursor' : bitstream'[i] = collected'[i]
    BY <1>1, <1>2, <1>3, <1>4, <1>6 DEF BuffersFollow, Types, f
  <2>2. IF ReconstructionMode = "frames"
        THEN Len(recon') = cursor' /\ \A i \in 1..cursor' : recon'[i] = collected'[i]
        ELSE recon' = <<>>
    BY <1>1, <1>2, <1>3, <1>4, <1>6 DEF BuffersFollow, Types, f
  <2>3. IF ReconstructionMode = "none" THEN metrics' = <<>>
        ELSE Len(metrics') = cursor' /\ \A i \in 1..cursor' : metrics'[i] = i - 1
    BY <1>1, <1>3, <1>4, <1>6 DEF BuffersFollow, Types
  <2>4. QED
    BY <2>1, <2>2, <2>3 DEF BuffersFollow
<1>8. FlushState'
  <2>1. Len(collected) \in Nat
    BY <1>1, LenProperties
  <2>2. QED
    BY <1>1, <1>3, <1>7, <2>1 DEF FlushState, FlushedOnce
<1>9. FlushedOnce' /\ DeliveredOnce'
  BY <1>1, <1>3, NothingDelivered DEF FlushedOnce
<1>10. QED
  BY <1>5, <1>8, <1>9 DEF BufferedInv

LEMMA DeliverBufferedInv ==
    ASSUME BufferedInv, DeliverChunk
    PROVE  BufferedInv'
<1>1. where = "output" /\ delivered = <<>> /\ ~failed /\ closed
  BY DEF BufferedInv, FlushedOnce, DeliverChunk
<1>2. Types' /\ FlushState' /\ FlushedOnce'
  BY <1>1, EmptySeq DEF BufferedInv, Types, FlushState, FlushedOnce, DeliverChunk
<1>3. delivered' = <<[chunk |-> bitstream, recon |-> recon, metrics |-> metrics]>>
  BY <1>1 DEF DeliverChunk
<1>4. UNCHANGED <<collected, closed, failed>>
  BY DEF DeliverChunk
<1>5. DeliveredOnce'
  <2> DEFINE output == [chunk |-> bitstream, recon |-> recon, metrics |-> metrics]
  <2> HIDE DEF output
  <2>1. Len(delivered') = 1 /\ delivered'[1] = output /\ delivered' # <<>>
    BY <1>3 DEF output
  <2>2. output = [chunk |-> collected',
                  recon |-> IF ReconstructionMode = "frames" THEN collected' ELSE <<>>,
                  metrics |-> IF ReconstructionMode = "none" THEN <<>>
                              ELSE [i \in DOMAIN collected' |-> i - 1]]
    BY <1>1, <1>4, OutputIsComplete DEF output
  <2>3. ~failed'
    BY <1>1, <1>4
  <2>4. QED
    BY <2>1, <2>2, <2>3, Zenon DEF DeliveredOnce
<1>6. QED
  BY <1>2, <1>5 DEF BufferedInv

LEMMA StepBufferedInv == BufferedInv /\ [BufferedNext]_bufferedVars => BufferedInv'
<1> SUFFICES ASSUME BufferedInv, [BufferedNext]_bufferedVars PROVE BufferedInv'
  OBVIOUS
<1> USE DEF flushVars
<1>1. ASSUME NEW f \in SessionFrames, Submit(f) PROVE BufferedInv'
  <2>1. Types'
    <3>1. collected' \in Seq(SessionFrames)
      BY <1>1 DEF Submit, BufferedInv, Types
    <3>2. QED
      BY <1>1, <3>1 DEF Submit, BufferedInv, Types
  <2>2. FlushState' /\ FlushedOnce'
    BY <1>1 DEF BufferedInv, FlushState, FlushedOnce, Submit
  <2>3. DeliveredOnce'
    BY <1>1, NothingDelivered DEF BufferedInv, FlushedOnce, Submit
  <2>4. QED
    BY <2>1, <2>2, <2>3 DEF BufferedInv
<1>2. ASSUME UNCHANGED <<collected, closed, flushVars, delivered, failed>> PROVE BufferedInv'
  BY <1>2, NothingDelivered DEF BufferedInv, Types, FlushState, FlushedOnce, BuffersFollow
<1>3. CASE FlushFirst \/ WriteParameterSets \/ EncodeDone
  <2>1. UNCHANGED <<collected, cursor, bitstream, recon, metrics, delivered, failed>>
        /\ closed' /\ where' \in {"parameters", "frames", "output"}
    BY <1>3 DEF FlushFirst, WriteParameterSets, EncodeDone, BufferedInv, FlushedOnce
  <2>2. delivered = <<>> /\ ~failed
    BY <1>3 DEF FlushFirst, WriteParameterSets, EncodeDone, BufferedInv, FlushedOnce
  <2>3. Types' /\ FlushedOnce'
    BY <2>1, <2>2 DEF BufferedInv, Types, FlushedOnce
  <2>4. FlushState'
    <3>1. CASE FlushFirst
      BY <2>1, <3>1 DEF FlushFirst, BufferedInv, FlushState
    <3>2. CASE WriteParameterSets
      <4>1. Len(bitstream) = 0 /\ Len(recon) = 0 /\ Len(metrics) = 0 /\ cursor = 0
            /\ recon = <<>> /\ metrics = <<>> /\ Len(collected) \in Nat
        BY <3>2, LenProperties DEF WriteParameterSets, BufferedInv, FlushState, Types
      <4>2. QED
        BY <2>1, <3>2, <4>1 DEF WriteParameterSets, BufferedInv, FlushState, BuffersFollow
    <3>3. CASE EncodeDone
      <4>1. cursor = Len(collected)
        <5>1. BuffersFollow /\ cursor <= Len(collected) /\ cursor \in Nat /\ Len(collected) \in Nat
          BY <3>3, LenProperties DEF EncodeDone, BufferedInv, FlushState, Types
        <5>2. QED
          BY <3>3, <5>1 DEF EncodeDone, ShouldRead, BuffersFollow
      <4>2. QED
        BY <2>1, <3>3, <4>1 DEF EncodeDone, BufferedInv, FlushState, BuffersFollow
    <3>4. QED
      BY <1>3, <3>1, <3>2, <3>3
  <2>5. DeliveredOnce'
    <3>1. delivered' = <<>> /\ where' # "idle"
      BY <2>1, <2>2
    <3>2. QED
      BY <3>1 DEF DeliveredOnce
  <2>6. QED
    BY <2>3, <2>4, <2>5 DEF BufferedInv
<1>4. CASE FlushFails
  BY <1>4, FlushErrorBufferedInv DEF FlushFails, ParametersFail, EncodeFails, SplitFails
<1>5. QED
  BY <1>1, <1>2, <1>3, <1>4, EncodeFrameBufferedInv, DeliverBufferedInv
     DEF BufferedNext, SubmitRejected, SubmitAfterFlush, FlushAgain, FlushStep, bufferedVars

LEMMA BufferedInvariance == BufferedSpec => []BufferedInv
BY InitBufferedInv, StepBufferedInv, PTL DEF BufferedSpec

-----------------------------------------------------------------------------
(* Theorems *)

\* A flush delivers all frames accepted before it, in order, in one chunk with
\* a record for each, once; a failed flush delivers nothing
\* (BufferedStreamEncoderSession::flush).
THEOREM FlushDeliversOnce == BufferedSpec => []DeliveredOnce
<1>1. BufferedInv => DeliveredOnce
  BY DEF BufferedInv
<1>2. QED
  BY BufferedInvariance, <1>1, PTL

LEMMA StepKeepsContract ==
    BufferedInv /\ [BufferedNext]_bufferedVars =>
        [Contract!SessionNext \/ failed]_<<failed, delivered, collected, reply>>
<1> SUFFICES ASSUME BufferedInv, [BufferedNext]_bufferedVars, ~failed,
                    ~ UNCHANGED <<failed, delivered, collected, reply>>
             PROVE  Contract!SessionNext
  OBVIOUS
<1> USE DEF flushVars, bufferedVars
<1>1. Phase = (IF delivered # <<>> THEN "flushed" ELSE "open") /\ Len(collected) \in Nat
  BY LenProperties DEF Phase, BufferedInv, Types
<1>2. ASSUME NEW f \in SessionFrames, Submit(f) PROVE Contract!SessionNext
  <2>1. Phase = "open" /\ Phase' = "open"
    BY <1>1, <1>2 DEF Submit, BufferedInv, FlushedOnce, Phase
  <2>2. Len(collected') = Len(collected) + 1
    BY <1>2 DEF Submit, BufferedInv, Types
  <2>3. FrameLimit = NoLimit \/ Len(collected) < FrameLimit
    BY <1>1, <1>2, BufferedAssumption DEF Submit, AtLimit, BufferedAssumption
  <2>4. QED
    BY <1>2, <2>1, <2>2, <2>3 DEF Submit, Contract!SessionNext, Contract!Accept
<1>3. CASE SubmitRejected
  <2>1. Phase = "open" /\ Phase' = Phase
    BY <1>1, <1>3 DEF SubmitRejected, BufferedInv, FlushedOnce, Phase
  <2>2. QED
    BY <1>3, <2>1 DEF SubmitRejected, Contract!SessionNext, Contract!Reject
<1>4. CASE SubmitAfterFlush \/ FlushAgain
  <2>1. Phase = "flushed" /\ Phase' = Phase
    <3>1. closed /\ where = "idle" /\ UNCHANGED <<delivered, failed>>
      BY <1>4 DEF SubmitAfterFlush, FlushAgain
    <3>2. closed /\ where = "idle" => failed \/ delivered # <<>>
      BY Zenon DEF BufferedInv, DeliveredOnce
    <3>3. QED
      BY <1>1, <3>1, <3>2 DEF Phase
  <2>2. QED
    BY <1>4, <2>1 DEF SubmitAfterFlush, FlushAgain, Contract!SessionNext, Contract!CallFlushed
<1>5. CASE FlushFails
  <2>1. where # "idle" /\ FlushError
    BY <1>5 DEF FlushFails, ParametersFail, EncodeFails, SplitFails
  <2>2. Phase = "open" /\ Phase' = "failed"
    BY <1>1, <2>1 DEF FlushError, BufferedInv, FlushedOnce, Phase
  <2>3. QED
    BY <2>1, <2>2 DEF FlushError, Contract!SessionNext, Contract!FlushOpen
<1>6. CASE DeliverChunk
  <2>1. delivered = <<>>
    BY <1>6 DEF DeliverChunk, BufferedInv, FlushedOnce
  <2>2. delivered' # <<>> /\ ~failed'
    BY <1>6, <2>1 DEF DeliverChunk
  <2>3. Phase = "open" /\ Phase' = "flushed"
    BY <1>1, <2>1, <2>2 DEF Phase
  <2>4. QED
    BY <1>6, <2>3 DEF DeliverChunk, Contract!SessionNext, Contract!FlushOpen
<1>7. ~FlushFirst /\ ~WriteParameterSets /\ ~EncodeNext /\ ~EncodeDone
  BY DEF FlushFirst, WriteParameterSets, EncodeNext, EncodeDone
<1>8. QED
  BY <1>2, <1>3, <1>4, <1>5, <1>6, <1>7 DEF BufferedNext, FlushStep

\* Up to the first failed flush the session keeps the promises of
\* VideoEncoderSession, its output held back until the flush.
THEOREM ContractIsKept == BufferedSpec => KeepsContractUntilFailure
<1>1. BufferedInit => Contract!SessionInit
  BY DEF BufferedInit, Phase, Contract!SessionInit
<1>2. QED
  BY <1>1, BufferedInvariance, StepKeepsContract, PTL DEF BufferedSpec, KeepsContractUntilFailure
=============================================================================

------------------------- MODULE Av2TileWorkersProofs -------------------------
(***************************************************************************)
(* One encode_frame call taken apart, for every picture size, tile layout, *)
(* hash function and search range and every order in which the workers     *)
(* finish: it does what one step of Av2Stream says, so that what is proved *)
(* of the stream encoder holds with threads too.                           *)
(***************************************************************************)
EXTENDS Av2TileWorkers, Av2StreamProofs, FiniteSetTheorems, NaturalsInduction,
        WellFoundedInduction

USE TilesAssumption, MotionAssumption

-----------------------------------------------------------------------------
(* The motion search *)

LEMMA LeastElement ==
    ASSUME NEW T \in SUBSET Nat, T # {}
    PROVE  \E x \in T : \A y \in T : x <= y
<1>1. PICK x \in T : \A y \in T : ~(<<y, x>> \in OpToRel(<, Nat))
  BY WFMin, NatLessThanWellFounded, Zenon
<1>2. \A y \in T : ~(y < x)
  BY <1>1 DEF OpToRel
<1>3. QED
  BY <1>2

LEMMA GridBlocks ==
    ASSUME NEW b \in Grid
    PROVE  b[1] \in Int /\ b[2] \in Int /\ b = <<b[1], b[2]>> /\ Plus(b, ZeroVector) = b
<1>1. b[1] \in Int /\ b[2] \in Int /\ b = <<b[1], b[2]>>
  BY DEF Grid
<1>2. Plus(b, ZeroVector) = <<b[1] + 0, b[2] + 0>>
  BY DEF Plus, ZeroVector
<1>3. QED
  BY <1>1, <1>2

LEMMA ZeroIsAVector == ZeroVector # NoVector
<1>1. Len(ZeroVector) = 2 /\ Len(NoVector) = 0
  BY DEF ZeroVector, NoVector
<1>2. QED
  BY <1>1

\* A vector that leads to a block of the reference with the block's content.
Fits(frame, b, ref, v) == Plus(b, v) \in Grid /\ frame[b] = ref[Plus(b, v)]

\* What the list of candidates yields fits, whatever the hashes are.
LEMMA FirstExactFits ==
    ASSUME NEW frame, NEW b, NEW ref, NEW vectors, DOMAIN vectors \in SUBSET Nat,
           FirstExact(frame, b, ref, vectors) # NoVector
    PROVE  Fits(frame, b, ref, FirstExact(frame, b, ref, vectors))
<1> DEFINE exact == {i \in DOMAIN vectors : LET c == Plus(b, vectors[i])
                                           IN  c \in Grid /\ Matches(frame, b, ref, c)}
           first == CHOOSE i \in exact : \A j \in exact : i <= j
<1>1. exact # {} /\ FirstExact(frame, b, ref, vectors) = vectors[first]
  BY DEF FirstExact
<1>2. exact \in SUBSET Nat
  OBVIOUS
<1> HIDE DEF exact
<1>3. \E i \in exact : \A j \in exact : i <= j
  BY <1>1, <1>2, LeastElement
<1>4. first \in exact
  BY <1>3
<1>5. QED
  BY <1>1, <1>4 DEF exact, Fits, Matches

\* The zero vector comes first: a block that stays is never given another one.
LEMMA FirstExactStays ==
    ASSUME NEW frame, NEW b \in Grid, NEW ref, NEW vectors,
           DOMAIN vectors \in SUBSET (Nat \ {0}), 1 \in DOMAIN vectors, vectors[1] = ZeroVector,
           frame[b] = ref[b]
    PROVE  FirstExact(frame, b, ref, vectors) = ZeroVector
<1> DEFINE exact == {i \in DOMAIN vectors : LET c == Plus(b, vectors[i])
                                           IN  c \in Grid /\ Matches(frame, b, ref, c)}
           first == CHOOSE i \in exact : \A j \in exact : i <= j
<1>1. 1 \in exact
  BY GridBlocks DEF Matches
<1>2. \A j \in exact : j \in Nat /\ 1 <= j
  OBVIOUS
<1>3. FirstExact(frame, b, ref, vectors) = vectors[first]
  BY <1>1 DEF FirstExact
<1> HIDE DEF exact
<1>4. first \in exact /\ \A j \in exact : first <= j
  BY <1>1, <1>2
<1>5. first = 1
  BY <1>1, <1>2, <1>4
<1>6. QED
  BY <1>3, <1>5

\* hash_index_candidate sorts by a total order: the choice is never from nothing.
LEMMA CheapestExists ==
    ASSUME NEW fits \in SUBSET (Int \X Int), fits # {}
    PROVE  \E v \in fits : \A w \in fits \ {v} : Before(v, w)
<1> DEFINE cost(u) == Magnitude(u[1]) + Magnitude(u[2])
<1>1. \A u \in fits : /\ u[1] \in Int /\ u[2] \in Int /\ u = <<u[1], u[2]>>
                      /\ cost(u) \in Nat /\ -cost(u) <= u[1] /\ -cost(u) <= u[2]
  BY DEF Magnitude
<1>2. PICK c \in {cost(u) : u \in fits} : \A d \in {cost(u) : u \in fits} : c <= d
  <2>1. {cost(u) : u \in fits} \in SUBSET Nat /\ {cost(u) : u \in fits} # {}
    BY <1>1
  <2>2. QED
    BY <2>1, LeastElement
<1>3. c \in Nat
  BY <1>1, <1>2
<1> DEFINE cheap == {u \in fits : cost(u) = c}
           rows == {c + u[1] : u \in cheap}
<1>4. rows \in SUBSET Nat /\ rows # {}
  BY <1>1, <1>2, <1>3
<1>5. PICK r \in rows : \A s \in rows : r <= s
  <2> HIDE DEF rows
  <2>1. QED
    BY <1>4, LeastElement
<1> DEFINE upper == {u \in cheap : c + u[1] = r}
           cols == {c + u[2] : u \in upper}
<1>6. cols \in SUBSET Nat /\ cols # {}
  BY <1>1, <1>3, <1>5
<1>7. PICK l \in cols : \A s \in cols : l <= s
  <2> HIDE DEF cols
  <2>1. QED
    BY <1>6, LeastElement
<1>8. PICK v \in upper : c + v[2] = l
  BY <1>7
<1>9. ASSUME NEW w \in fits, w # v PROVE Before(v, w)
  <2>1. v \in fits /\ cost(v) = c /\ c + v[1] = r /\ r \in Nat /\ l \in Nat
    BY <1>4, <1>5, <1>6, <1>7, <1>8
  <2>2. c <= cost(w)
    BY <1>2, <1>9
  <2>3. cost(w) = c => r <= c + w[1]
    BY <1>5, <1>9
  <2>4. cost(w) = c /\ c + w[1] = r => l <= c + w[2]
    BY <1>7, <1>9
  <2>5. w = <<w[1], w[2]>> /\ v = <<v[1], v[2]>>
    BY <1>1, <1>9, <2>1
  <2>6. cost(w) \in Nat /\ w[1] \in Int /\ w[2] \in Int /\ v[1] \in Int /\ v[2] \in Int
    BY <1>1, <1>9, <2>1
  <2>7. w[1] # v[1] \/ w[2] # v[2]
    BY <1>9, <2>5
  <2>8. Before(v, w) = (\/ cost(v) < cost(w)
                        \/ cost(v) = cost(w) /\ (v[1] < w[1] \/ (v[1] = w[1] /\ v[2] < w[2])))
    BY DEF Before
  <2> HIDE DEF cost, cheap, rows, upper, cols
  <2>9. QED
    BY <1>3, <1>8, <2>1, <2>2, <2>3, <2>4, <2>6, <2>7, <2>8
<1>10. QED
  BY <1>8, <1>9

LEMMA FromIndexFits ==
    ASSUME NEW frame, NEW b \in Grid, NEW ref, NEW tested,
           FromIndex(frame, b, ref, tested) # NoVector
    PROVE  Fits(frame, b, ref, FromIndex(frame, b, ref, tested))
<1> DEFINE bucket == Bucket(ref, HashOf[frame[b]])
           fits == {Minus(c, b) : c \in {d \in bucket : Matches(frame, b, ref, d)}}
                   \ {tested[i] : i \in DOMAIN tested}
           cheapest == CHOOSE v \in fits : \A w \in fits \ {v} : Before(v, w)
<1>1. fits # {} /\ FromIndex(frame, b, ref, tested) = cheapest
  BY DEF FromIndex
<1>2. \A v \in fits : \E c \in Grid : v = Minus(c, b) /\ Matches(frame, b, ref, c)
  BY DEF Bucket
<1>3. \A c \in Grid : Minus(c, b) \in Int \X Int /\ Plus(b, Minus(c, b)) = c
  <2> SUFFICES ASSUME NEW c \in Grid
               PROVE  Minus(c, b) \in Int \X Int /\ Plus(b, Minus(c, b)) = c
    OBVIOUS
  <2>1. /\ c[1] \in Int /\ c[2] \in Int /\ c = <<c[1], c[2]>>
        /\ b[1] \in Int /\ b[2] \in Int
    BY GridBlocks
  <2>2. Plus(b, Minus(c, b)) = <<b[1] + (c[1] - b[1]), b[2] + (c[2] - b[2])>>
    BY DEF Plus, Minus
  <2>3. b[1] + (c[1] - b[1]) = c[1] /\ b[2] + (c[2] - b[2]) = c[2]
    BY <2>1
  <2>4. QED
    BY <2>1, <2>2, <2>3 DEF Minus
<1> HIDE DEF fits
<1>4. fits \in SUBSET (Int \X Int)
  BY <1>2, <1>3
<1>5. \E v \in fits : \A w \in fits \ {v} : Before(v, w)
  BY <1>1, <1>4, CheapestExists
<1>6. cheapest \in fits
  BY <1>5
<1>7. PICK c \in Grid : cheapest = Minus(c, b) /\ Matches(frame, b, ref, c)
  BY <1>2, <1>6
<1>8. QED
  BY <1>1, <1>3, <1>7 DEF Fits, Matches

LEMMA PredictorList ==
    ASSUME NEW b, NEW vectors
    PROVE  /\ Len(Predictors(b, vectors)) \in Nat \ {0}
           /\ DOMAIN Predictors(b, vectors) = 1..Len(Predictors(b, vectors))
           /\ Predictors(b, vectors)[1] = ZeroVector
<1> DEFINE V == {ZeroVector} \cup {vectors[c] : c \in Grid}
           from(n) == IF Plus(b, n) \in Grid /\ vectors[Plus(b, n)] # NoVector
                      THEN <<vectors[Plus(b, n)]>> ELSE <<>>
<1>1. \A n : from(n) \in Seq(V)
  OBVIOUS
<1>2. <<ZeroVector>> \in Seq(V) /\ Len(<<ZeroVector>>) = 1 /\ <<ZeroVector>>[1] = ZeroVector
  OBVIOUS
<1>3. \A s \in Seq(V), t \in Seq(V) :
          Len(s) >= 1 /\ s[1] = ZeroVector =>
              s \o t \in Seq(V) /\ Len(s \o t) >= 1 /\ (s \o t)[1] = ZeroVector
  OBVIOUS
<1>4. Predictors(b, vectors) =
          <<ZeroVector>> \o from(<<0, -1>>) \o from(<<-1, 0>>) \o from(<<-1, -1>>) \o from(<<-1, 1>>)
  BY DEF Predictors
<1> HIDE DEF V, from
<1>5. Predictors(b, vectors) \in Seq(V) /\ Len(Predictors(b, vectors)) >= 1
      /\ Predictors(b, vectors)[1] = ZeroVector
  BY <1>1, <1>2, <1>3, <1>4
<1>6. QED
  BY <1>5

LEMMA AroundList ==
    ASSUME NEW vectors, Len(vectors) \in Nat
    PROVE  DOMAIN Around(vectors) \in SUBSET Nat
<1>1. Len(SearchSteps) \in Nat
  BY DEF MotionAssumption
<1>2. 8 * Len(SearchSteps) * Len(vectors) \in Nat
  BY <1>1
<1>3. DOMAIN Around(vectors) = 1 .. 8 * Len(SearchSteps) * Len(vectors)
  BY DEF Around
<1>4. QED
  BY <1>2, <1>3

\* One turn of the search finds a block of equal content or none, and the block
\* itself where it has not changed.
LEMMA SearchFits ==
    ASSUME NEW frame, NEW b \in Grid, NEW ref, NEW vectors, NEW index,
           NEW v, v = SearchStep(frame, b, ref, vectors, index).vector
    PROVE  /\ v # NoVector => Fits(frame, b, ref, v)
           /\ frame[b] = ref[b] => v = ZeroVector
<1> DEFINE predictors == Predictors(b, vectors)
           local == Around(predictors)
           predicted == FirstExact(frame, b, ref, predictors)
           early == IF index THEN FromIndex(frame, b, ref, predictors) ELSE NoVector
           near == FirstExact(frame, b, ref, local)
           late == IF index THEN NoVector ELSE FromIndex(frame, b, ref, predictors \o local)
<1>1. Len(predictors) \in Nat \ {0} /\ DOMAIN predictors = 1..Len(predictors)
      /\ predictors[1] = ZeroVector
  BY PredictorList
<1>2. DOMAIN local \in SUBSET Nat
  BY <1>1, AroundList
<1>3. v \in {predicted, early, near, late} /\ (predicted # NoVector => v = predicted)
  BY DEF SearchStep
<1> HIDE DEF predictors, local
<1>4. frame[b] = ref[b] => predicted = ZeroVector
  <2>1. DOMAIN predictors \in SUBSET (Nat \ {0}) /\ 1 \in DOMAIN predictors
    BY <1>1
  <2>2. QED
    BY <1>1, <2>1, FirstExactStays
<1>5. predicted # NoVector => Fits(frame, b, ref, predicted)
  BY <1>1, FirstExactFits
<1>6. near # NoVector => Fits(frame, b, ref, near)
  BY <1>2, FirstExactFits
<1>7. early # NoVector => Fits(frame, b, ref, early)
  BY FromIndexFits
<1>8. late # NoVector => Fits(frame, b, ref, late)
  BY FromIndexFits
<1> HIDE DEF predicted, early, near, late
<1>9. QED
  BY <1>3, <1>4, <1>5, <1>6, <1>7, <1>8, ZeroIsAVector

-----------------------------------------------------------------------------
(* Tile payloads *)

LEMMA TilesAreFinite ==
    ASSUME NEW t \in Tile
    PROVE  BlocksOf(t) \subseteq Grid /\ IsFiniteSet(BlocksOf(t))
<1>1. IsFiniteSet(0..Rows - 1) /\ IsFiniteSet(0..Cols - 1)
  BY FS_Interval DEF MotionAssumption
<1>2. IsFiniteSet(Grid)
  BY <1>1, FS_Product DEF Grid
<1>3. BlocksOf(t) \subseteq Grid
  BY DEF BlocksOf, TilesAssumption
<1>4. QED
  BY <1>2, <1>3, FS_Subset

\* The raster order tells any two blocks apart.
LEMMA RasterOrder ==
    ASSUME NEW b \in Grid, NEW c \in Grid, b # c
    PROVE  /\ RasterBefore(b, c) \/ RasterBefore(c, b)
           /\ ~RasterBefore(b, b)
           /\ RasterBefore(c, b) =>
                  ~RasterBefore(b, c) /\ \A d \in Grid : RasterBefore(d, c) => RasterBefore(d, b)
<1>1. \A d \in Grid : d[1] \in Int /\ d[2] \in Int /\ d = <<d[1], d[2]>>
  BY GridBlocks
<1>2. b[1] # c[1] \/ b[2] # c[2]
  BY <1>1
<1>3. QED
  BY <1>1, <1>2 DEF RasterBefore

\* Every block of a tile has its place in the payload: blocks before it in the
\* tile give it a number of its own.
LEMMA RasterFinds ==
    ASSUME NEW t \in Tile, NEW b \in BlocksOf(t)
    PROVE  \E i \in DOMAIN Raster(t) : Raster(t)[i] = b
<1> DEFINE S == BlocksOf(t)
           before(c) == {d \in S : RasterBefore(d, c)}
           rank(c) == Cardinality(before(c))
<1>1. S \subseteq Grid /\ IsFiniteSet(S)
  BY TilesAreFinite
<1>2. \A c \in S : IsFiniteSet(before(c)) /\ rank(c) \in Nat
  <2> SUFFICES ASSUME NEW c \in S PROVE IsFiniteSet(before(c)) /\ rank(c) \in Nat
    OBVIOUS
  <2>1. IsFiniteSet(before(c))
    BY <1>1, FS_Subset
  <2>2. QED
    BY <2>1, FS_CardinalityType
<1>3. Cardinality(S) \in Nat /\ rank(b) < Cardinality(S)
  <2>1. Cardinality(S) \in Nat
    BY <1>1, FS_CardinalityType
  <2>2. before(b) \in SUBSET S
    OBVIOUS
  <2>3. b \notin before(b)
    BY <1>1 DEF RasterBefore, Grid
  <2>4. before(b) # S
    BY <2>3
  <2>5. rank(b) <= Cardinality(S) /\ rank(b) # Cardinality(S)
    BY <1>1, <2>2, <2>4, FS_Subset
  <2>6. QED
    BY <1>2, <2>1, <2>5
<1>4. ASSUME NEW c \in S, NEW d \in S, c # d, RasterBefore(c, d)
      PROVE  rank(c) # rank(d)
  <2>1. before(c) \in SUBSET before(d)
    BY <1>1, <1>4, RasterOrder
  <2>2. c \in before(d) /\ c \notin before(c)
    BY <1>1, <1>4, RasterOrder
  <2>3. IsFiniteSet(before(d)) /\ before(c) # before(d)
    BY <1>2, <2>2
  <2> HIDE DEF before
  <2>4. QED
    BY <2>1, <2>3, FS_Subset
<1>5. \A c \in S : rank(c) = rank(b) => c = b
  BY <1>1, <1>4, RasterOrder
<1>6. PICK r \in Nat : r = rank(b)
  BY <1>2
<1>7. r + 1 \in 1..Cardinality(S) /\ (r + 1) - 1 = r
  BY <1>3, <1>6
<1>8. /\ DOMAIN Raster(t) = 1..Cardinality(S)
      /\ \A i \in 1..Cardinality(S) : Raster(t)[i] = CHOOSE c \in S : rank(c) = i - 1
  BY Zenon DEF Raster
<1> HIDE DEF rank
<1>9. (CHOOSE c \in S : rank(c) = r) = b
  BY <1>5, <1>6
<1>10. Raster(t)[r + 1] = CHOOSE c \in S : rank(c) = (r + 1) - 1
  BY <1>7, <1>8, Zenon
<1>11. Raster(t)[r + 1] = b
  BY <1>7, <1>9, <1>10
<1>12. QED
  BY <1>7, <1>8, <1>11

-----------------------------------------------------------------------------
(* The invariant of a running call *)

\* Why the call makes the unit it makes.
KindIsRight ==
    /\ kind = "sef" => IsPredictiveFrame(frameIndex) /\ Reference = input
    /\ kind = "inter" =>
           /\ IsPredictiveFrame(frameIndex) /\ InterLayoutOk
           /\ Reference # NoFrame /\ Reference # input
    /\ kind = "key" /\ IsPredictiveFrame(frameIndex) =>
           Reference # input /\ (Reference # NoFrame => LosslessFallsBack(input))

\* Every vector found leads to equal content; what was searched and has not
\* changed has the zero vector.
MapIsSound ==
    /\ found = [b \in Block |-> found[b]]
    /\ \A b \in Block : found[b] # NoVector => Fits(input, b, reference, found[b])
    /\ searched \subseteq Masked
    /\ \A b \in searched : input[b] = reference[b] => found[b] = ZeroVector

ModesAreChosen ==
    /\ searched = Masked
    /\ modes = [t \in Tile |-> TileMode(t, input)]
    /\ \E t \in Tile : modes[t] # "Intra"

\* Whatever the order of the workers: a payload is one its tile may have, and
\* what has been joined stands in the order of the tiles.
PayloadsFit ==
    /\ payloads = [t \in Tile |-> payloads[t]]
    /\ \A t \in Tile : payloads[t] # NoPayload => payloads[t] \in TilePayloads(t)
    /\ joined \in Seq(UNION {TilePayloads(t) : t \in Tile})
    /\ Len(joined) <= Len(TileOrder)
    /\ \A k \in 1..Len(joined) : joined[k] \in TilePayloads(TileOrder[k])

NothingFound == found = [b \in Block |-> NoVector] /\ searched = {}

JobInv ==
    /\ phase \in {"idle", "search", "tiles", "write"}
    /\ kind \in {"key", "inter", "sef"}
    /\ phase = "idle" => NothingFound
    /\ phase \in {"idle", "search"} => NothingCoded
    /\ phase # "idle" =>
           status = "Active" /\ frameIndex < MaxFrames /\ input \in Frame
    /\ phase # "idle" => KindIsRight
    /\ phase # "idle" => MapIsSound
    /\ phase = "search" => kind = "inter"
    /\ phase = "tiles" => kind # "sef"
    /\ phase \in {"tiles", "write"} /\ kind = "inter" => ModesAreChosen
    /\ phase \in {"tiles", "write"} => PayloadsFit
    /\ phase = "write" /\ kind # "sef" => Len(joined) = Len(TileOrder)

\* What does not change during a call.
LEMMA CallIsFrozen ==
    ASSUME UNCHANGED <<streamVars, input>>
    PROVE  /\ Reference' = Reference
           /\ LosslessFallsBack(input)' = LosslessFallsBack(input)
           /\ Masked' = Masked
<1>1. /\ UNCHANGED <<reference, frameIndex, input>>
      /\ Reference' = Reference
  BY DEF streamVars, encoderVars, Reference
<1>2. \A t \in Tile : Unchanged(t, input)' = Unchanged(t, input)
  BY <1>1 DEF Unchanged
<1>3. ChangedTiles(input)' = ChangedTiles(input)
  BY <1>2 DEF ChangedTiles
<1>4. MotionMaps(input)' = MotionMaps(input)
  BY <1>1 DEF MotionMaps
<1>5. \A m : LosslessUsable(input, m)' = LosslessUsable(input, m)
  BY <1>3 DEF LosslessUsable
<1>6. LosslessFallsBack(input)' = LosslessFallsBack(input)
  BY <1>3, <1>4, <1>5 DEF LosslessFallsBack, InterIsTried
<1>7. Masked' = Masked
  BY <1>3 DEF Masked
<1>8. QED
  BY <1>1, <1>6, <1>7

LEMMA KindIsFrozen ==
    ASSUME UNCHANGED <<streamVars, input>>, KindIsRight, kind' = kind
    PROVE  KindIsRight'
<1>1. frameIndex' = frameIndex /\ input' = input
  BY DEF streamVars, encoderVars
<1>2. QED
  BY <1>1, CallIsFrozen DEF KindIsRight

LEMMA MapIsFrozen ==
    ASSUME UNCHANGED <<streamVars, input, found, searched>>, MapIsSound
    PROVE  MapIsSound'
<1>1. UNCHANGED <<reference, input, found, searched>>
  BY DEF streamVars, encoderVars
<1>2. QED
  BY <1>1, CallIsFrozen DEF MapIsSound, Fits

LEMMA CodingIsFrozen ==
    ASSUME UNCHANGED <<streamVars, input, kind, found, searched, modes>>
    PROVE  /\ ModesAreChosen' = ModesAreChosen
           /\ \A t \in Tile : TilePayloads(t)' = TilePayloads(t)
<1>1. UNCHANGED <<reference, input, kind, found, searched, modes>>
  BY DEF streamVars, encoderVars
<1>2. \A b, r : TileBlock(b, r)' = TileBlock(b, r)
  BY <1>1 DEF TileBlock, PartlyMatched
<1>3. \A t \in Tile, r \in BOOLEAN : TilePayload(t, r)' = TilePayload(t, r)
  BY <1>2 DEF TilePayload
<1>4. \A t \in Tile : TilePayloads(t)' = TilePayloads(t)
  BY <1>3 DEF TilePayloads
<1>5. \A t \in Tile : TileMode(t, input)' = TileMode(t, input)
  BY <1>1, CallIsFrozen DEF TileMode, Unchanged
<1>6. ModesAreChosen' = ModesAreChosen
  BY <1>1, <1>5, CallIsFrozen DEF ModesAreChosen
<1>7. QED
  BY <1>4, <1>6

LEMMA InitJob == Init => JobInv
  BY DEF Init, JobInv, NothingFound, NothingCoded

LEMMA FramesAreSubmitted == Inputs \subseteq Frame
  BY DEF TilesAssumption

\* A call starts with nothing found and nothing coded.
LEMMA SubmitJob ==
    ASSUME JobInv, NEW frame \in Inputs, Submit(frame)
    PROVE  JobInv'
<1>1. /\ phase = "idle" /\ status = "Active" /\ frameIndex < MaxFrames
      /\ input' = frame /\ frame \in Frame
      /\ UNCHANGED <<streamVars, found, searched, indexed, modes, payloads, joined>>
  BY FramesAreSubmitted DEF Submit
<1>2. NothingFound /\ NothingCoded
  BY <1>1 DEF JobInv
<1>3. UNCHANGED <<status, frameIndex, reference>> /\ Reference' = Reference
  BY <1>1 DEF streamVars, encoderVars, Reference
<1>4. KindIsRight'
  <2>1. ~InterLayoutOk => LosslessFallsBack(input)'
    BY DEF LosslessFallsBack, InterIsTried
  <2>2. QED
    BY <1>1, <1>3, <2>1 DEF KindIsRight, Submit
<1>5. MapIsSound'
  BY <1>1, <1>2 DEF MapIsSound, NothingFound
<1>6. PayloadsFit'
  <2>1. Len(TileOrder) \in Nat /\ Len(<<>>) = 0
    BY DEF TilesAssumption
  <2>2. QED
    BY <1>1, <1>2, <2>1 DEF PayloadsFit, NothingCoded
<1>7. \/ phase' = "write" /\ kind' = "sef"
      \/ phase' = "search" /\ kind' = "inter"
      \/ phase' = "tiles" /\ kind' = "key"
  BY DEF Submit
<1>8. NothingCoded' /\ NothingFound'
  BY <1>1, <1>2 DEF NothingCoded, NothingFound
<1>9. QED
  BY <1>1, <1>3, <1>4, <1>5, <1>6, <1>7, <1>8 DEF JobInv

\* One block searched.
LEMMA SearchBlockJob ==
    ASSUME JobInv, SearchBlock
    PROVE  JobInv'
<1>1. PICK b \in Masked \ searched :
        /\ found' = [found EXCEPT ![b] = SearchStep(input, b, reference, found, indexed).vector]
        /\ searched' = searched \cup {b}
        /\ phase = "search"
        /\ UNCHANGED <<streamVars, phase, input, kind, modes, payloads, joined>>
  BY DEF SearchBlock
<1>2. PICK v : v = SearchStep(input, b, reference, found, indexed).vector
  OBVIOUS
<1>3. MapIsSound /\ KindIsRight /\ NothingCoded /\ kind = "inter"
  BY <1>1 DEF JobInv
<1>4. b \in Grid /\ b \in Block
  BY DEF Masked, TilesAssumption
<1>5. /\ v # NoVector => Fits(input, b, reference, v)
      /\ input[b] = reference[b] => v = ZeroVector
  BY <1>2, <1>4, SearchFits
<1>6. UNCHANGED <<reference, input, status, frameIndex>> /\ Masked' = Masked
  BY <1>1, CallIsFrozen DEF streamVars, encoderVars
<1>7. MapIsSound'
  <2>1. found' = [found EXCEPT ![b] = v] /\ found = [c \in Block |-> found[c]]
    BY <1>1, <1>2, <1>3 DEF MapIsSound
  <2>2. /\ found' = [c \in Block |-> found'[c]]
        /\ \A c \in Block : found'[c] = IF c = b THEN v ELSE found[c]
    BY <1>4, <2>1
  <2>3. \A c \in Block : found'[c] # NoVector => Fits(input, c, reference, found'[c])
    BY <1>3, <1>5, <2>2 DEF MapIsSound
  <2>4. \A c \in searched' : c \in Block
    BY <1>1, <1>3, <1>4 DEF MapIsSound, Masked
  <2>5. \A c \in searched' : input[c] = reference[c] => found'[c] = ZeroVector
    BY <1>1, <1>3, <1>5, <2>2, <2>4 DEF MapIsSound
  <2>6. searched' \subseteq Masked'
    BY <1>1, <1>3, <1>6 DEF MapIsSound
  <2>7. \A c \in Block :
            found'[c] # NoVector => Fits(input', c, reference', found'[c])
    BY <1>6, <2>3
  <2>8. QED
    BY <1>6, <2>2, <2>5, <2>6, <2>7 DEF MapIsSound, Fits
<1>8. KindIsRight'
  BY <1>1, <1>3, KindIsFrozen
<1>9. NothingCoded'
  BY <1>1, <1>3 DEF NothingCoded
<1>10. QED
  BY <1>1, <1>6, <1>7, <1>8, <1>9 DEF JobInv

-----------------------------------------------------------------------------
(* The motion map of the call *)

\* What the map that was found says of each block, as Av2Stream has it.
Witness ==
    [b \in Block |-> IF input[b] = Reference[b] THEN b
                     ELSE IF found[b] # NoVector THEN Plus(b, found[b]) ELSE NoMatch]

\* The search gives one of the maps Av2Stream allows; in a changed tile a block
\* has a match in it exactly where a vector was found.
LEMMA WitnessIsAMap ==
    ASSUME MapIsSound, KindIsRight, kind = "inter", searched = Masked
    PROVE  /\ Reference = reference
           /\ Witness \in MotionMaps(input)
           /\ \A t \in ChangedTiles(input) : \A b \in BlocksOf(t) :
                 /\ (found[b] # NoVector) = (Witness[b] # NoMatch)
                 /\ found[b] # NoVector => Witness[b] = Plus(b, found[b])
<1>1. Reference = reference
  BY DEF KindIsRight, IsPredictiveFrame, Reference, ResetsReferencesBefore, IsIntraFrame
<1>2. \A b \in Block : found[b] # NoVector =>
          Plus(b, found[b]) \in Block /\ input[b] = reference[Plus(b, found[b])]
  BY DEF MapIsSound, Fits, TilesAssumption
<1>3. Witness \in [Block -> Block \cup {NoMatch}]
  BY <1>2 DEF Witness
<1>4. \A b \in Block : IF input[b] = Reference[b] THEN Witness[b] = b
                       ELSE Witness[b] = NoMatch \/ Reference[Witness[b]] = input[b]
  BY <1>1, <1>2 DEF Witness
<1>5. Witness \in MotionMaps(input)
  BY <1>3, <1>4 DEF MotionMaps
<1>6. ASSUME NEW t \in ChangedTiles(input), NEW b \in BlocksOf(t)
      PROVE  /\ (found[b] # NoVector) = (Witness[b] # NoMatch)
             /\ found[b] # NoVector => Witness[b] = Plus(b, found[b])
  <2>1. b \in Block /\ b \in Masked /\ b \in searched
    BY <1>6 DEF BlocksOf, Masked
  <2>2. NoMatch \notin Block
    BY Av2Assumption DEF Av2Assumption
  <2>3. CASE input[b] = Reference[b]
    <3>1. found[b] = ZeroVector
      BY <1>1, <2>1, <2>3 DEF MapIsSound
    <3>2. Witness[b] = b
      BY <2>1, <2>3 DEF Witness
    <3>3. Plus(b, ZeroVector) = b
      BY <2>1, GridBlocks DEF TilesAssumption
    <3>4. QED
      BY <2>1, <2>2, <3>1, <3>2, <3>3, ZeroIsAVector
  <2>4. CASE input[b] # Reference[b]
    BY <1>2, <2>1, <2>2, <2>4 DEF Witness
  <2>5. QED
    BY <2>3, <2>4
<1>7. QED
  BY <1>1, <1>5, <1>6

\* A tile's mode says which of its blocks have a vector.
LEMMA ModesOfTiles ==
    ASSUME NEW t \in Tile
    PROVE  /\ TileMode(t, input) = "ZeroMv" <=> Unchanged(t, input)
           /\ TileMode(t, input) \in {"NewMv", "Mixed"} =>
                  \A b \in BlocksOf(t) : found[b] # NoVector
           /\ TileMode(t, input) = "Intra" =>
                  ~Unchanged(t, input) /\ \A b \in BlocksOf(t) : found[b] = NoVector
           /\ TileMode(t, input) \notin {"Intra", "ZeroMv"} =>
                  ~Unchanged(t, input) /\ \E b \in BlocksOf(t) : found[b] # NoVector
<1> DEFINE matched == {b \in BlocksOf(t) : found[b] # NoVector}
<1>1. CASE Unchanged(t, input)
  BY <1>1 DEF TileMode
<1>2. CASE ~Unchanged(t, input) /\ matched = {}
  BY <1>2 DEF TileMode, Unchanged
<1>3. CASE ~Unchanged(t, input) /\ matched = BlocksOf(t) /\ matched # {}
  BY <1>3 DEF TileMode
<1>4. CASE ~Unchanged(t, input) /\ matched # BlocksOf(t) /\ matched # {}
  BY <1>4 DEF TileMode
<1>5. QED
  BY <1>1, <1>2, <1>3, <1>4

\* Without a vector in any tile the search has missed every match, which is
\* the case in which Av2Stream lets the encoder fall back to a key picture.
LEMMA AllIntraFallsBack ==
    ASSUME MapIsSound, KindIsRight, kind = "inter", searched = Masked,
           \A t \in Tile : TileMode(t, input) = "Intra"
    PROVE  LosslessFallsBack(input)
<1>1. \A t \in Tile : ~Unchanged(t, input) /\ \A b \in BlocksOf(t) : found[b] = NoVector
  BY ModesOfTiles
<1>2. ChangedTiles(input) = Tile
  BY <1>1 DEF ChangedTiles
<1>3. \A t \in Tile : ~SomeMatched(t, Witness)
  BY <1>1, <1>2, WitnessIsAMap DEF SomeMatched
<1>4. ~LosslessUsable(input, Witness) /\ Witness \in MotionMaps(input)
  BY <1>2, <1>3, WitnessIsAMap DEF LosslessUsable
<1>5. QED
  BY <1>4 DEF LosslessFallsBack

LEMMA ChooseModesJob ==
    ASSUME JobInv, ChooseModes
    PROVE  JobInv'
<1>1. /\ phase = "search" /\ phase' = "tiles" /\ searched = Masked
      /\ modes' = [t \in Tile |-> TileMode(t, input)]
      /\ kind' = IF \A t \in Tile : modes'[t] = "Intra" THEN "key" ELSE "inter"
      /\ UNCHANGED <<streamVars, input, found, searched, indexed, payloads, joined>>
  BY DEF ChooseModes
<1>2. MapIsSound /\ KindIsRight /\ NothingCoded /\ kind = "inter"
      /\ status = "Active" /\ frameIndex < MaxFrames /\ input \in Frame
  BY <1>1 DEF JobInv
<1>3. /\ UNCHANGED <<reference, input, status, frameIndex>>
      /\ Reference' = Reference /\ Masked' = Masked
      /\ LosslessFallsBack(input)' = LosslessFallsBack(input)
  BY <1>1, CallIsFrozen DEF streamVars, encoderVars
<1>4. \A t \in Tile : modes'[t] = TileMode(t, input)
  BY <1>1
<1>5. kind' = "key" => LosslessFallsBack(input)
  BY <1>1, <1>2, <1>4, AllIntraFallsBack
<1>6. KindIsRight'
  BY <1>1, <1>2, <1>3, <1>5 DEF KindIsRight
<1>7. MapIsSound'
  BY <1>1, <1>2, MapIsFrozen
<1>8. kind' = "inter" => ModesAreChosen'
  <2>1. \A t \in Tile : TileMode(t, input)' = TileMode(t, input)
    BY <1>1, <1>3 DEF TileMode, Unchanged
  <2>2. modes' = [t \in Tile |-> TileMode(t, input)']
    BY <1>1, <2>1
  <2>3. kind' = "inter" => \E t \in Tile : modes'[t] # "Intra"
    BY <1>1
  <2>4. searched' = Masked'
    BY <1>1, <1>3
  <2>5. QED
    BY <2>2, <2>3, <2>4 DEF ModesAreChosen
<1>9. PayloadsFit'
  <2>1. Len(TileOrder) \in Nat /\ Len(<<>>) = 0
    BY DEF TilesAssumption
  <2>2. QED
    BY <1>1, <1>2, <2>1 DEF PayloadsFit, NothingCoded
<1>10. QED
  BY <1>1, <1>2, <1>3, <1>6, <1>7, <1>8, <1>9 DEF JobInv

\* What the steps of the workers and of the caller that collects leave alone.
LEMMA CodingStaysJob ==
    ASSUME JobInv, phase = "tiles", phase' \in {"tiles", "write"},
           UNCHANGED <<streamVars, input, kind, found, searched, modes>>, PayloadsFit',
           phase' = "write" => Len(joined') = Len(TileOrder)
    PROVE  JobInv'
<1>1. /\ MapIsSound /\ KindIsRight /\ kind # "sef" /\ kind \in {"key", "inter"}
      /\ kind = "inter" => ModesAreChosen
      /\ status = "Active" /\ frameIndex < MaxFrames /\ input \in Frame
  BY DEF JobInv
<1>2. UNCHANGED <<input, status, frameIndex>>
  BY DEF streamVars, encoderVars
<1>3. MapIsSound' /\ KindIsRight'
  BY <1>1, MapIsFrozen, KindIsFrozen
<1>4. kind = "inter" => ModesAreChosen'
  BY <1>1, CodingIsFrozen
<1>5. QED
  BY <1>1, <1>2, <1>3, <1>4 DEF JobInv

\* A worker finishes.
LEMMA CodeTileJob ==
    ASSUME JobInv, NEW tile \in Tile, CodeTile(tile)
    PROVE  JobInv'
<1>1. PICK p \in TilePayloads(tile) : payloads' = [payloads EXCEPT ![tile] = p]
  BY DEF CodeTile
<1>2. /\ phase = "tiles" /\ phase' = "tiles"
      /\ UNCHANGED <<streamVars, input, kind, found, searched, modes, joined>>
  BY DEF CodeTile
<1>3. PayloadsFit
  BY <1>2 DEF JobInv
<1>4. \A t \in Tile : TilePayloads(t)' = TilePayloads(t)
  BY <1>2, CodingIsFrozen
<1>5. /\ payloads' = [t \in Tile |-> payloads'[t]]
      /\ \A t \in Tile : payloads'[t] = IF t = tile THEN p ELSE payloads[t]
  BY <1>1, <1>3 DEF PayloadsFit
<1>6. \A t \in Tile : payloads'[t] # NoPayload => payloads'[t] \in TilePayloads(t)
  BY <1>3, <1>5 DEF PayloadsFit
<1>7. \A k \in 1..Len(joined) : TileOrder[k] \in Tile
  BY <1>3 DEF PayloadsFit, TilesAssumption
<1>8. UNION {TilePayloads(t)' : t \in Tile} = UNION {TilePayloads(t) : t \in Tile}
  BY <1>4
<1>9. joined' = joined
  BY <1>2
<1>10. PayloadsFit'
  BY <1>3, <1>4, <1>5, <1>6, <1>7, <1>8, <1>9 DEF PayloadsFit
<1>11. QED
  BY <1>2, <1>10, CodingStaysJob

\* The caller takes the next payload in the order of the tiles.
LEMMA JoinNextJob ==
    ASSUME JobInv, JoinNext
    PROVE  JobInv'
<1>1. PICK n : n = Len(joined)
  OBVIOUS
<1>2. PICK tile : tile = TileOrder[n + 1]
  OBVIOUS
<1>3. /\ phase = "tiles" /\ phase' = "tiles" /\ n < Len(TileOrder)
      /\ payloads[tile] # NoPayload /\ joined' = Append(joined, payloads[tile])
      /\ UNCHANGED <<streamVars, input, kind, found, searched, modes, payloads>>
  BY <1>1, <1>2 DEF JoinNext
<1>4. PayloadsFit
  BY <1>3 DEF JobInv
<1>5. \A t \in Tile : TilePayloads(t)' = TilePayloads(t)
  BY <1>3, CodingIsFrozen
<1>6. n \in Nat /\ Len(TileOrder) \in Nat /\ \A k \in 1..Len(TileOrder) : TileOrder[k] \in Tile
  BY <1>1, <1>4 DEF PayloadsFit, TilesAssumption
<1>7. tile \in Tile
  BY <1>2, <1>3, <1>6
<1>8. payloads[tile] \in TilePayloads(tile)
  BY <1>3, <1>4, <1>7 DEF PayloadsFit
<1> DEFINE P == UNION {TilePayloads(t) : t \in Tile}
<1>9. payloads[tile] \in P /\ P = UNION {TilePayloads(t)' : t \in Tile}
  BY <1>5, <1>7, <1>8
<1>10. joined \in Seq(P)
  BY <1>4 DEF PayloadsFit
<1> HIDE DEF P
<1>11. /\ joined' \in Seq(P) /\ Len(joined') = n + 1
       /\ \A k \in 1..n + 1 : joined'[k] = IF k = n + 1 THEN payloads[tile] ELSE joined[k]
  BY <1>1, <1>3, <1>9, <1>10
<1>12. \A k \in 1..n + 1 : joined'[k] \in TilePayloads(TileOrder[k])
  <2> SUFFICES ASSUME NEW k \in 1..n + 1
               PROVE  joined'[k] \in TilePayloads(TileOrder[k])
    OBVIOUS
  <2>1. CASE k = n + 1
    BY <1>2, <1>8, <1>11, <2>1
  <2>2. CASE k # n + 1
    <3>1. k \in 1..n
      BY <1>6, <2>2
    <3>2. QED
      BY <1>1, <1>4, <1>11, <2>2, <3>1 DEF PayloadsFit
  <2>3. QED
    BY <2>1, <2>2
<1>13. \A k \in 1..n + 1 : joined'[k] \in TilePayloads(TileOrder[k])'
  <2>1. \A k \in 1..n + 1 : TileOrder[k] \in Tile
    BY <1>3, <1>6
  <2>2. QED
    BY <1>5, <1>12, <2>1
<1>14. \A t \in Tile : payloads[t] # NoPayload => payloads[t] \in TilePayloads(t)'
  BY <1>4, <1>5 DEF PayloadsFit
<1>15. payloads' = payloads /\ payloads = [t \in Tile |-> payloads[t]]
  BY <1>3, <1>4 DEF PayloadsFit
<1>16. Len(joined') <= Len(TileOrder)
  BY <1>3, <1>6, <1>11
<1>17. PayloadsFit'
  BY <1>9, <1>11, <1>13, <1>14, <1>15, <1>16 DEF PayloadsFit
<1>18. QED
  BY <1>3, <1>17, CodingStaysJob

LEMMA AssembleJob ==
    ASSUME JobInv, Assemble
    PROVE  JobInv'
<1>1. /\ phase = "tiles" /\ phase' = "write" /\ Len(joined) = Len(TileOrder)
      /\ UNCHANGED <<streamVars, input, kind, found, searched, modes, payloads, joined>>
  BY DEF Assemble
<1>2. PayloadsFit
  BY <1>1 DEF JobInv
<1>3. \A t \in Tile : TilePayloads(t)' = TilePayloads(t)
  BY <1>1, CodingIsFrozen
<1>4. UNION {TilePayloads(t)' : t \in Tile} = UNION {TilePayloads(t) : t \in Tile}
  BY <1>3
<1>5. \A k \in 1..Len(joined) : TileOrder[k] \in Tile
  BY <1>1 DEF TilesAssumption
<1>6. joined' = joined /\ payloads' = payloads
  BY <1>1
<1>7. PayloadsFit'
  BY <1>2, <1>3, <1>4, <1>5, <1>6 DEF PayloadsFit
<1>8. QED
  BY <1>1, <1>7, CodingStaysJob

LEMMA ClearJobJob ==
    ASSUME ClearJob
    PROVE  JobInv'
  BY DEF ClearJob, JobInv, NothingFound, NothingCoded

-----------------------------------------------------------------------------
(* What is assembled *)

\* The decoder finds in the payload it takes for a block what the block's own
\* tile said of it, although the payloads name no position.
LEMMA PayloadsAreInPlace ==
    ASSUME PayloadsFit, Len(joined) = Len(TileOrder)
    PROVE  \E residual \in [Tile -> BOOLEAN] :
               \A b \in Block : PayloadAt(b) = TileBlock(b, residual[TileOf[b]])
<1> DEFINE At(t) == CHOOSE i \in DOMAIN TileOrder : TileOrder[i] = t
           residual == [t \in Tile |-> CHOOSE r \in BOOLEAN : joined[At(t)] = TilePayload(t, r)]
<1>1. \A t \in Tile : At(t) \in 1..Len(joined) /\ TileOrder[At(t)] = t
  BY DEF TilesAssumption
<1> HIDE DEF At
<1>2. \A t \in Tile : joined[At(t)] \in TilePayloads(t)
  BY <1>1 DEF PayloadsFit
<1>3. \A t \in Tile : residual[t] \in BOOLEAN /\ joined[At(t)] = TilePayload(t, residual[t])
  BY <1>2 DEF TilePayloads
<1>4. residual \in [Tile -> BOOLEAN]
  BY <1>3
<1> HIDE DEF residual
<1>5. ASSUME NEW b \in Block
      PROVE  PayloadAt(b) = TileBlock(b, residual[TileOf[b]])
  <2> DEFINE t == TileOf[b]
             place == CHOOSE j \in DOMAIN Raster(t) : Raster(t)[j] = b
  <2>1. t \in Tile /\ b \in BlocksOf(t)
    BY Av2Assumption DEF Av2Assumption, BlocksOf
  <2>2. place \in DOMAIN Raster(t) /\ Raster(t)[place] = b
    BY <2>1, RasterFinds
  <2>3. PayloadAt(b) = joined[At(t)][place]
    BY DEF PayloadAt, At
  <2> HIDE DEF place, t
  <2>4. PayloadAt(b) = TilePayload(t, residual[t])[place]
    BY <1>3, <2>1, <2>3
  <2>5. TilePayload(t, residual[t])[place] = TileBlock(Raster(t)[place], residual[t])
    BY <2>2 DEF TilePayload
  <2>6. QED
    BY <2>2, <2>4, <2>5 DEF t
<1>6. QED
  BY <1>4, <1>5

\* What a decoder makes of one entry of a payload.
Read(b, mode) ==
    IF mode.inter THEN ResidualBlock(Plus(b, mode.vector), mode.residual)
    ELSE IntraBlock(b, mode.residual)

LEMMA ReadModes ==
    ASSUME NEW b \in Block
    PROVE  /\ \A value : Read(b, IntraMode(value)) = IntraBlock(b, value)
           /\ \A v, residual : Read(b, InterMode(v, residual)) = ResidualBlock(Plus(b, v), residual)
           /\ \A residual : Read(b, InterMode(ZeroVector, residual)) = ResidualBlock(b, residual)
           /\ \A c : ResidualBlock(c, 0) = CopyBlock(c)
<1>1. Plus(b, ZeroVector) = b
  BY GridBlocks DEF TilesAssumption
<1>2. /\ \A value : Read(b, IntraMode(value)) = IntraBlock(b, value)
      /\ \A v, residual : Read(b, InterMode(v, residual)) = ResidualBlock(Plus(b, v), residual)
  BY DEF Read, IntraMode, InterMode
<1>3. \A c : ResidualBlock(c, 0) = CopyBlock(c)
  BY DEF ResidualBlock, CopyBlock
<1>4. QED
  BY <1>1, <1>2, <1>3

\* A tile of an inter picture, in each of its modes.
LEMMA InterBlocks ==
    ASSUME MapIsSound, KindIsRight, ModesAreChosen, kind = "inter", input \in Frame,
           NEW residualTiles, NEW b \in Block, NEW r, r = (TileOf[b] \in residualTiles)
    PROVE  Read(b, TileBlock(b, r)) = LosslessBlock(b, input, Witness, residualTiles)
<1>1. PICK t \in Tile : t = TileOf[b]
  BY Av2Assumption DEF Av2Assumption
<1>2. searched = Masked /\ modes[t] = TileMode(t, input) /\ b \in BlocksOf(t)
  BY <1>1 DEF ModesAreChosen, BlocksOf
<1>3. CASE modes[t] = "ZeroMv"
  <2>1. Unchanged(t, input)
    BY <1>2, <1>3, ModesOfTiles
  <2>2. TileBlock(b, r) = InterMode(ZeroVector, 0)
    BY <1>1, <1>3 DEF TileBlock
  <2>3. LosslessBlock(b, input, Witness, residualTiles) = CopyBlock(b)
    BY <1>1, <2>1 DEF LosslessBlock
  <2>4. QED
    BY <2>2, <2>3, ReadModes
<1>4. CASE modes[t] # "ZeroMv"
  <2>1. ~Unchanged(t, input) /\ t \in ChangedTiles(input)
    BY <1>2, <1>4, ModesOfTiles DEF ChangedTiles
  <2>2. /\ Reference = reference
        /\ \A c \in BlocksOf(t) : /\ (found[c] # NoVector) = (Witness[c] # NoMatch)
                                  /\ found[c] # NoVector => Witness[c] = Plus(c, found[c])
    BY <1>2, <2>1, WitnessIsAMap
  <2>3. CASE found[b] # NoVector
    <3>1. modes[t] # "Intra"
      BY <1>2, <2>3, ModesOfTiles
    <3>2. TileBlock(b, r) = InterMode(found[b], 0)
      BY <1>1, <1>4, <2>3, <3>1 DEF TileBlock, PartlyMatched
    <3>3. LosslessBlock(b, input, Witness, residualTiles) = CopyBlock(Plus(b, found[b]))
      BY <1>1, <1>2, <2>1, <2>2, <2>3 DEF LosslessBlock
    <3>4. QED
      BY <3>2, <3>3, ReadModes
  <2>4. CASE found[b] = NoVector /\ modes[t] = "Intra"
    <3>1. \A c \in BlocksOf(t) : found[c] = NoVector
      BY <1>2, <2>4, ModesOfTiles
    <3>2. ~SomeMatched(t, Witness) /\ Witness[b] = NoMatch
      BY <1>2, <2>2, <3>1 DEF SomeMatched
    <3>3. LosslessBlock(b, input, Witness, residualTiles) = IntraBlock(b, input[b])
      BY <1>1, <2>1, <3>2 DEF LosslessBlock
    <3>4. TileBlock(b, r) = IntraMode(input[b])
      BY <1>1, <2>4 DEF TileBlock
    <3>5. QED
      BY <3>3, <3>4, ReadModes
  <2>5. CASE found[b] = NoVector /\ modes[t] # "Intra"
    <3>1. modes[t] \notin {"Intra", "ZeroMv", "NewMv", "Mixed"}
      BY <1>2, <1>4, <2>5, ModesOfTiles
    <3>2. TileBlock(b, r) = PartlyMatched(b, r)
      BY <1>1, <3>1 DEF TileBlock
    <3>3. SomeMatched(t, Witness) /\ Witness[b] = NoMatch
      BY <1>2, <2>2, <2>5, <3>1, ModesOfTiles DEF SomeMatched
    <3>4. CASE r
      <4>1. TileBlock(b, r) = InterMode(ZeroVector, input[b] - reference[b])
        BY <2>5, <3>2, <3>4 DEF PartlyMatched
      <4>2. LosslessBlock(b, input, Witness, residualTiles)
              = ResidualBlock(b, input[b] - reference[b])
        BY <1>1, <2>1, <2>2, <3>3, <3>4 DEF LosslessBlock
      <4>3. QED
        BY <4>1, <4>2, ReadModes
    <3>5. CASE ~r
      <4>1. TileBlock(b, r) = IntraMode(input[b])
        BY <2>5, <3>2, <3>5 DEF PartlyMatched
      <4>2. LosslessBlock(b, input, Witness, residualTiles) = IntraBlock(b, input[b])
        BY <1>1, <2>1, <3>3, <3>5 DEF LosslessBlock
      <4>3. QED
        BY <4>1, <4>2, ReadModes
    <3>6. QED
      BY <3>4, <3>5
  <2>6. QED
    BY <2>3, <2>4, <2>5
<1>5. QED
  BY <1>3, <1>4

\* The modes chosen make the picture one that Av2Stream codes as inter.
LEMMA InterIsUsable ==
    ASSUME MapIsSound, KindIsRight, ModesAreChosen, kind = "inter", input \in Frame,
           Reference \in MaybeFrame
    PROVE  InterIsTried(input) /\ LosslessUsable(input, Witness)
<1>1. InterLayoutOk /\ Reference \in Frame /\ Reference # input /\ searched = Masked
  BY DEF KindIsRight, MaybeFrame, ModesAreChosen
<1>2. PICK b \in Block : input[b] # Reference[b]
  BY <1>1 DEF Frame
<1>3. TileOf[b] \in ChangedTiles(input)
  BY <1>2, Av2Assumption DEF Av2Assumption, ChangedTiles, Unchanged, BlocksOf
<1>4. PICK t \in Tile : modes[t] # "Intra" /\ modes[t] = TileMode(t, input)
  BY DEF ModesAreChosen
<1>5. CASE modes[t] = "ZeroMv"
  <2>1. t \notin ChangedTiles(input)
    BY <1>4, <1>5, ModesOfTiles DEF ChangedTiles
  <2>2. QED
    BY <1>1, <1>3, <2>1 DEF InterIsTried, LosslessUsable
<1>6. CASE modes[t] # "ZeroMv"
  <2>1. t \in ChangedTiles(input) /\ \E c \in BlocksOf(t) : found[c] # NoVector
    BY <1>4, <1>6, ModesOfTiles DEF ChangedTiles
  <2>2. SomeMatched(t, Witness)
    BY <1>1, <2>1, WitnessIsAMap DEF SomeMatched
  <2>3. QED
    BY <1>1, <1>3, <2>1, <2>2 DEF InterIsTried, LosslessUsable
<1>7. QED
  BY <1>5, <1>6

\* The unit of the call is one that Av2Stream may write for the frame.
LEMMA AssembledIsCoding ==
    ASSUME JobInv, phase = "write", Reference \in MaybeFrame
    PROVE  Assembled \in Codings(input)
<1>1. /\ KindIsRight /\ MapIsSound /\ PayloadsFit /\ input \in Frame
      /\ kind \in {"key", "inter", "sef"}
      /\ kind = "inter" => ModesAreChosen
      /\ kind # "sef" => Len(joined) = Len(TileOrder)
  BY DEF JobInv
<1>2. Codings(input) = LosslessCodings(input)
  BY DEF Codings, TilesAssumption
<1>3. CASE kind = "sef"
  <2>1. Assembled = LosslessSef(input)
    BY <1>3 DEF Assembled
  <2>2. QED
    BY <1>1, <1>2, <1>3, <2>1 DEF KindIsRight, LosslessCodings
<1>4. CASE kind # "sef"
  <2>1. PICK residual \in [Tile -> BOOLEAN] :
              \A b \in Block : PayloadAt(b) = TileBlock(b, residual[TileOf[b]])
    BY <1>1, <1>4, PayloadsAreInPlace
  <2>2. TileGroup = [b \in Block |-> Read(b, TileBlock(b, residual[TileOf[b]]))]
    BY <2>1 DEF TileGroup, Read
  <2>3. CASE kind = "inter"
    <3> DEFINE residualTiles == {t \in ChangedTiles(input) : residual[t]}
    <3>1. \A b \in Block : Read(b, TileBlock(b, residual[TileOf[b]]))
                             = LosslessBlock(b, input, Witness, residualTiles)
      <4> SUFFICES ASSUME NEW b \in Block
                   PROVE  Read(b, TileBlock(b, residual[TileOf[b]]))
                            = LosslessBlock(b, input, Witness, residualTiles)
        OBVIOUS
      <4> DEFINE coded == {t \in Tile : residual[t]}
      <4>1. TileOf[b] \in Tile
        BY Av2Assumption DEF Av2Assumption
      <4>2. residual[TileOf[b]] = (TileOf[b] \in coded)
        BY <4>1
      <4>3. Read(b, TileBlock(b, residual[TileOf[b]]))
              = LosslessBlock(b, input, Witness, coded)
        BY <1>1, <2>3, <4>2, InterBlocks
      <4>4. ~Unchanged(TileOf[b], input) => (TileOf[b] \in coded) = (TileOf[b] \in residualTiles)
        BY <4>1 DEF ChangedTiles
      <4> HIDE DEF coded, residualTiles
      <4>5. LosslessBlock(b, input, Witness, coded)
              = LosslessBlock(b, input, Witness, residualTiles)
        BY <4>4 DEF LosslessBlock
      <4>6. QED
        BY <4>3, <4>5
    <3>2. residualTiles \in SUBSET ChangedTiles(input)
      OBVIOUS
    <3> HIDE DEF residualTiles
    <3>3. TileGroup = [b \in Block |-> LosslessBlock(b, input, Witness, residualTiles)]
      BY <2>2, <3>1
    <3>4. InterIsTried(input) /\ LosslessUsable(input, Witness) /\ Witness \in MotionMaps(input)
      BY <1>1, <2>3, InterIsUsable, WitnessIsAMap DEF ModesAreChosen
    <3>5. TileGroup \in LosslessInterBodies(input)
      BY <3>2, <3>3, <3>4 DEF LosslessInterBodies
    <3>6. Assembled = LosslessInter(input, TileGroup)
      BY <2>3 DEF Assembled
    <3>7. IsPredictiveFrame(frameIndex) /\ Reference # NoFrame /\ Reference # input
      BY <1>1, <2>3 DEF KindIsRight
    <3>8. QED
      BY <1>2, <3>5, <3>6, <3>7 DEF LosslessCodings
  <2>4. CASE kind = "key"
    <3>1. \A b \in Block : Read(b, TileBlock(b, residual[TileOf[b]])) = IntraBlock(b, input[b])
      BY <2>4, ReadModes DEF TileBlock
    <3>2. TileGroup = KeyUnit(input, SequenceHeader, OrderHint).body
      BY <2>2, <3>1 DEF KeyUnit
    <3>3. Assembled = [LosslessKey(input) EXCEPT !.unit.body = TileGroup]
      BY <2>4 DEF Assembled
    <3>4. [LosslessKey(input) EXCEPT !.unit.body = TileGroup] = LosslessKey(input)
      BY <3>2 DEF LosslessKey, Coded, KeyUnit
    <3>5. IsPredictiveFrame(frameIndex) =>
              Reference # input /\ (Reference # NoFrame => LosslessFallsBack(input))
      BY <1>1, <2>4 DEF KindIsRight
    <3>6. QED
      BY <1>2, <3>3, <3>4, <3>5 DEF LosslessCodings
  <2>5. QED
    BY <1>1, <1>4, <2>3, <2>4
<1>5. QED
  BY <1>3, <1>4

-----------------------------------------------------------------------------
(* A call implements one step of the stream encoder *)

LEMMA StepJob == JobInv /\ [Next]_vars => JobInv'
<1> SUFFICES ASSUME JobInv, [Next]_vars PROVE JobInv'
  OBVIOUS
<1>1. ASSUME NEW frame \in Inputs, Submit(frame) PROVE JobInv'
  BY <1>1, SubmitJob
<1>2. CASE SearchBlock
  BY <1>2, SearchBlockJob
<1>3. CASE ChooseModes
  BY <1>3, ChooseModesJob
<1>4. ASSUME NEW t \in Tile, CodeTile(t) PROVE JobInv'
  BY <1>4, CodeTileJob
<1>5. CASE JoinNext
  BY <1>5, JoinNextJob
<1>6. CASE Assemble
  BY <1>6, AssembleJob
<1>7. CASE Deliver \/ WriteFails \/ LaterFails
  BY <1>7, ClearJobJob DEF Deliver, WriteFails, LaterFails
<1>8. CASE OtherCall
  <2>1. phase = "idle" /\ UNCHANGED jobVars
    BY <1>8 DEF OtherCall
  <2>2. NothingFound /\ NothingCoded /\ kind \in {"key", "inter", "sef"}
    BY <2>1 DEF JobInv
  <2>3. QED
    BY <2>1, <2>2 DEF JobInv, jobVars, NothingFound, NothingCoded
<1>9. CASE UNCHANGED vars
  <2>1. CASE phase \in {"idle", "search"}
    <3>1. UNCHANGED <<streamVars, phase, input, kind, found, searched, payloads, joined>>
      BY <1>9 DEF vars, jobVars
    <3>2. UNCHANGED <<status, frameIndex>>
      BY <3>1 DEF streamVars, encoderVars
    <3>3. phase = "search" => KindIsRight' /\ MapIsSound'
      BY <2>1, <3>1, KindIsFrozen, MapIsFrozen DEF JobInv
    <3>4. NothingCoded' /\ (phase = "idle" => NothingFound')
      BY <2>1, <3>1 DEF JobInv, NothingCoded, NothingFound
    <3>5. QED
      BY <2>1, <3>1, <3>2, <3>3, <3>4 DEF JobInv
  <2>2. CASE phase \in {"tiles", "write"}
    <3>1. UNCHANGED <<streamVars, phase, input, kind, found, searched, modes, payloads, joined>>
      BY <1>9 DEF vars, jobVars
    <3>2. UNCHANGED <<status, frameIndex>>
      BY <3>1 DEF streamVars, encoderVars
    <3>3. KindIsRight' /\ MapIsSound'
      BY <2>2, <3>1, KindIsFrozen, MapIsFrozen DEF JobInv
    <3>4. kind = "inter" => ModesAreChosen'
      BY <2>2, <3>1, CodingIsFrozen DEF JobInv
    <3>5. PayloadsFit
      BY <2>2 DEF JobInv
    <3>6. \A t \in Tile : TilePayloads(t)' = TilePayloads(t)
      BY <3>1, CodingIsFrozen
    <3>7. UNION {TilePayloads(t)' : t \in Tile} = UNION {TilePayloads(t) : t \in Tile}
      BY <3>6
    <3>8. \A k \in 1..Len(joined) : TileOrder[k] \in Tile
      BY <3>5 DEF TilesAssumption, PayloadsFit
    <3>9. joined' = joined /\ payloads' = payloads
      BY <3>1
    <3>10. PayloadsFit'
      BY <3>5, <3>6, <3>7, <3>8, <3>9 DEF PayloadsFit
    <3>11. QED
      BY <2>2, <3>1, <3>2, <3>3, <3>4, <3>10 DEF JobInv
  <2>3. QED
    BY <2>1, <2>2 DEF JobInv
<1>10. QED
  BY <1>1, <1>2, <1>3, <1>4, <1>5, <1>6, <1>7, <1>8, <1>9 DEF Next, CallStep

\* What a step does to the stream.
Outcome ==
    IF phase = "write"
    THEN EncodeFrame(input) \/ BitstreamWriteFails(input) \/ LaterWriteFails(input)
    ELSE RefuseFrame \/ Finish

LEMMA StepImplements == JobInv /\ Reference \in MaybeFrame /\ [Next]_vars => [Outcome]_streamVars
<1> SUFFICES ASSUME JobInv, Reference \in MaybeFrame, [Next]_vars PROVE [Outcome]_streamVars
  OBVIOUS
<1>1. CASE UNCHANGED streamVars
  BY <1>1
<1>2. CASE OtherCall
  BY <1>2 DEF OtherCall, Outcome
<1>3. CASE Deliver \/ WriteFails \/ LaterFails
  <2>1. phase = "write"
    BY <1>3 DEF Deliver, WriteFails, LaterFails
  <2>2. status = "Active" /\ Assembled \in Codings(input)
    BY <2>1, AssembledIsCoding DEF JobInv
  <2>3. CASE Deliver
    BY <2>1, <2>2, <2>3 DEF Deliver, Outcome, EncodeFrame
  <2>4. CASE WriteFails
    BY <2>1, <2>2, <2>4 DEF WriteFails, Outcome, BitstreamWriteFails
  <2>5. CASE LaterFails
    BY <2>1, <2>2, <2>5 DEF LaterFails, Outcome, LaterWriteFails
  <2>6. QED
    BY <1>3, <2>3, <2>4, <2>5
<1>4. \/ UNCHANGED streamVars \/ OtherCall \/ Deliver \/ WriteFails \/ LaterFails
  <2>1. ASSUME NEW frame \in Inputs, Submit(frame) PROVE UNCHANGED streamVars
    BY <2>1 DEF Submit
  <2>2. CASE SearchBlock
    BY <2>2 DEF SearchBlock
  <2>3. CASE ChooseModes
    BY <2>3 DEF ChooseModes
  <2>4. ASSUME NEW t \in Tile, CodeTile(t) PROVE UNCHANGED streamVars
    BY <2>4 DEF CodeTile
  <2>5. CASE JoinNext
    BY <2>5 DEF JoinNext
  <2>6. CASE Assemble
    BY <2>6 DEF Assemble
  <2>7. CASE UNCHANGED vars
    BY <2>7 DEF vars
  <2>8. QED
    BY <2>1, <2>2, <2>3, <2>4, <2>5, <2>6, <2>7 DEF Next, CallStep
<1>5. QED
  BY <1>1, <1>2, <1>3, <1>4

LEMMA OutcomeIsAStep == JobInv /\ [Outcome]_streamVars => [StreamNext]_streamVars
<1> SUFFICES ASSUME JobInv, Outcome PROVE StreamNext
  OBVIOUS
<1>1. CASE phase = "write"
  <2>1. input \in Frame /\ frameIndex < MaxFrames
    BY <1>1 DEF JobInv
  <2>2. Encode(input)
    BY <1>1 DEF Outcome, Encode
  <2>3. QED
    BY <2>1, <2>2 DEF StreamNext
<1>2. CASE phase # "write"
  BY <1>2 DEF Outcome, StreamNext
<1>3. QED
  BY <1>1, <1>2

LEMMA ReferenceType == IInv => Reference \in MaybeFrame
  BY DEF IInv, TypeOK, Reference, MaybeFrame

LEMMA CallsInvariance == Spec => [](JobInv /\ IInv)
<1>1. Init => JobInv /\ IInv
  BY InitJob, InitIInv DEF Init
<1>2. (JobInv /\ IInv) /\ [Next]_vars => (JobInv /\ IInv)'
  BY StepJob, StepImplements, OutcomeIsAStep, ReferenceType, StepIInv
<1>3. QED
  BY <1>1, <1>2, PTL DEF Spec

\* The call taken apart, with its search, its tiles and its workers finishing
\* in any order, does to the stream what Av2Stream says of one call
\* (predictive.rs, lossless predictive coding; headers/payloads.rs, the tile
\* threads and their join).
THEOREM WorkersImplementStream == Spec => ImplementsStream
<1>1. (JobInv /\ IInv) /\ [Next]_vars => [Outcome]_streamVars
  BY StepImplements, ReferenceType
<1>2. ImplementsStream <=> [][Outcome]_streamVars
  BY DEF ImplementsStream, Outcome
<1>3. QED
  BY <1>1, <1>2, CallsInvariance, PTL DEF Spec

\* So the encoder with threads is a stream encoder, and what is proved of those
\* holds of it: its loop with the decoder is closed, what is shown is the
\* source, a decoder may start at any chunk flagged keyframe (av2/stream.rs,
\* encode_frame_inner).
THEOREM WorkersKeepTheLoop ==
    Spec => StreamSpec /\ [](ClosedLoop /\ ShownIsSource /\ KeyframesAreEntryPoints)
<1>1. Init => StreamInit
  BY DEF Init
<1>2. (JobInv /\ IInv) /\ [Next]_vars => [StreamNext]_streamVars
  BY StepImplements, OutcomeIsAStep, ReferenceType
<1>3. Spec => StreamSpec
  BY <1>1, <1>2, CallsInvariance, PTL DEF Spec, StreamSpec
<1>4. QED
  BY <1>3, LoopIsClosed, DeliveredIsSource, EntryPointsWork, PTL
=============================================================================

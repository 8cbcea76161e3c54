--------------------------- MODULE VvcStreamProofs ---------------------------
(***************************************************************************)
(* The closed loop of the VVC encoder, for every number of coding tree     *)
(* units, every group of pictures and every set-up: a decoder of the       *)
(* stream holds the picture in the predictive cache, cached slices fit the *)
(* picture they are put into, and errors do not add up.                    *)
(***************************************************************************)
EXTENDS VvcStream, FiniteSetTheorems, NaturalsInduction, WellFoundedInduction, TLAPS

USE GopAssumption, PictureAssumption, VvcAssumption

-----------------------------------------------------------------------------
(* Numbers *)

LEMMA LeastElement ==
    ASSUME NEW T \in SUBSET Nat, T # {}
    PROVE  \E x \in T : \A y \in T : x <= y
<1>1. PICK x \in T : \A y \in T : ~(<<y, x>> \in OpToRel(<, Nat))
  BY WFMin, NatLessThanWellFounded, Zenon
<1>2. \A y \in T : ~(y < x)
  BY <1>1 DEF OpToRel
<1>3. QED
  BY <1>2

\* Two functions whose values follow from those of the left neighbour are equal.
LEMMA EqualByNeighbour ==
    ASSUME NEW S \in SUBSET Nat, NEW f, NEW g,
           \A c \in S : (c - 1 \in S => f[c - 1] = g[c - 1]) => f[c] = g[c]
    PROVE  \A c \in S : f[c] = g[c]
<1> DEFINE T == {c \in S : f[c] # g[c]}
<1> SUFFICES ASSUME T # {} PROVE FALSE
  OBVIOUS
<1>1. PICK x \in T : \A y \in T : x <= y
  <2>1. T \in SUBSET Nat
    OBVIOUS
  <2> HIDE DEF T
  <2>2. QED
    BY <2>1, LeastElement
<1>2. x - 1 \in S => x - 1 \notin T
  BY <1>1
<1>3. QED
  BY <1>1, <1>2

\* An order count follows its predecessor through every wrap of its bits.
LEMMA CountsFollow ==
    ASSUME NEW f \in Nat, NEW m \in Nat \ {0, 1}
    PROVE  ((f % m) - (f - 1)) % m = 1
<1>1. f = m * (f \div m) + (f % m) /\ f % m \in 0..(m - 1) /\ f \div m \in Int
  OBVIOUS
<1> DEFINE q == -(f \div m)
<1>2. q \in Int /\ (f % m) - (f - 1) = m * q + 1
  BY <1>1
<1>3. \A a, k \in Int : a = m * k + 1 => a % m = 1
  OBVIOUS
<1> HIDE DEF q
<1>4. QED
  BY <1>1, <1>2, <1>3

LEMMA Squares ==
    ASSUME NEW d \in Nat, NEW s \in Nat, d <= s
    PROVE  d * d <= s * s
OBVIOUS

-----------------------------------------------------------------------------
(* One slice *)

\* The recursions of the decoder, for one CTU: of the vectors v, and of the samples s.
VectorAt(slice, v, c) ==
    IF slice.body[c].mode = "inter" THEN slice.body[c].from - c
    ELSE IF slice.body[c].mode = "skip" /\ c - 1 \in slice.ctus THEN v[c - 1]
    ELSE 0

SampleAt(slice, reference, s, c) ==
    slice.body[c].residual +
    IF IsInterCoded(slice.body[c]) THEN reference[c + Vector(slice)[c]]
    ELSE IF c - 1 \in slice.ctus THEN s[c - 1] ELSE 0

LEMMA VectorRecursion ==
    ASSUME NEW slice, NEW w, w = [c \in slice.ctus |-> VectorAt(slice, w, c)]
    PROVE  Vector(slice) = [c \in slice.ctus |-> VectorAt(slice, Vector(slice), c)]
<1> DEFINE F(v) == [c \in slice.ctus |-> VectorAt(slice, v, c)]
<1>1. Vector(slice) = CHOOSE v : v = F(v)
  BY DEF Vector, VectorAt
<1>2. w = F(w)
  OBVIOUS
<1> HIDE DEF F
<1>3. QED
  BY <1>1, <1>2 DEF F

LEMMA SampleRecursion ==
    ASSUME NEW slice, NEW reference, NEW w,
           w = [c \in slice.ctus |-> SampleAt(slice, reference, w, c)]
    PROVE  SliceSamples(slice, reference) =
              [c \in slice.ctus |-> SampleAt(slice, reference, SliceSamples(slice, reference), c)]
<1> DEFINE F(v) == [c \in slice.ctus |-> SampleAt(slice, reference, v, c)]
<1>1. SliceSamples(slice, reference) = CHOOSE v : v = F(v)
  BY DEF SliceSamples, SampleAt
<1>2. w = F(w)
  OBVIOUS
<1> HIDE DEF F
<1>3. QED
  BY <1>1, <1>2 DEF F

\* Payload p makes CTU c of a slice of "ctus" into recon[c].
CodedAs(p, c, ctus, recon, reference) ==
    \/ p = InterSkip /\ recon[c] = reference[c]
    \/ \E from \in Ctu : /\ reference[from] \in Int
                         /\ p = ExplicitInter(from, recon[c] - reference[from])
    \/ \E tree \in {"inter", "intra"} :
          p = Intra(recon[c] - (IF c - 1 \in ctus THEN recon[c - 1] ELSE 0), tree)

\* A skipped CTU takes the vector of its neighbour: that is right where no CTU
\* of the slice has a vector of its own.
NotMixed(body, ctus) ==
    (\A c \in ctus : body[c].mode # "skip") \/ (\A c \in ctus : body[c].mode # "inter")

\* A decoder finds in a slice the picture its payloads were made for.
LEMMA SliceDecodes ==
    ASSUME NEW slice, slice.ctus \in SUBSET Ctu,
           NEW recon \in [Ctu -> Int], NEW reference,
           \A c \in slice.ctus : CodedAs(slice.body[c], c, slice.ctus, recon, reference),
           NotMixed(slice.body, slice.ctus)
    PROVE  \A c \in slice.ctus :
              /\ SliceSamples(slice, reference)[c] = recon[c]
              /\ IsInterCoded(slice.body[c]) => c + Vector(slice)[c] \in Ctu
<1> DEFINE S == slice.ctus
           w == [c \in S |-> IF slice.body[c].mode = "inter" THEN slice.body[c].from - c ELSE 0]
           r == [c \in S |-> recon[c]]
<1>1. S \in SUBSET Nat /\ S \in SUBSET Ctu
  BY DEF Ctu
<1>2. \A c \in S : w[c] = VectorAt(slice, w, c)
  BY DEF VectorAt, NotMixed
<1>3. Vector(slice) = [c \in S |-> VectorAt(slice, Vector(slice), c)]
  <2>1. w = [c \in S |-> VectorAt(slice, w, c)]
    BY <1>2
  <2> HIDE DEF w
  <2>2. QED
    BY <2>1, VectorRecursion
<1>4. \A c \in S : Vector(slice)[c] = w[c]
  <2>1. \A c \in S : (c - 1 \in S => Vector(slice)[c - 1] = w[c - 1]) => Vector(slice)[c] = w[c]
    <3>1. \A c \in S : Vector(slice)[c] = VectorAt(slice, Vector(slice), c)
      BY <1>3
    <3> HIDE DEF w
    <3>2. QED
      BY <3>1, <1>2 DEF VectorAt
  <2> HIDE DEF w
  <2>2. QED
    BY <1>1, <2>1, EqualByNeighbour
<1>5. \A c \in S : /\ Vector(slice)[c] = IF slice.body[c].mode = "inter" THEN slice.body[c].from - c ELSE 0
                   /\ CodedAs(slice.body[c], c, S, recon, reference)
                   /\ c \in Ctu /\ c \in Int
  <2> TAKE c \in S
  <2>1. w[c] = IF slice.body[c].mode = "inter" THEN slice.body[c].from - c ELSE 0
    OBVIOUS
  <2>2. Vector(slice)[c] = w[c]
    BY <1>4
  <2>3. c \in Ctu /\ c \in Int
    BY <1>1
  <2> HIDE DEF w
  <2>4. QED
    BY <2>1, <2>2, <2>3
<1> HIDE DEF w
<1>9. \A c \in S : IsInterCoded(slice.body[c]) => c + Vector(slice)[c] \in Ctu
  <2> SUFFICES ASSUME NEW c \in S, IsInterCoded(slice.body[c])
               PROVE  c + Vector(slice)[c] \in Ctu
    OBVIOUS
  <2>1. CASE slice.body[c] = InterSkip
    BY <1>5, <2>1 DEF InterSkip
  <2>2. ASSUME NEW from \in Ctu, slice.body[c] = ExplicitInter(from, recon[c] - reference[from])
        PROVE  c + Vector(slice)[c] \in Ctu
    <3>1. Vector(slice)[c] = from - c
      BY <1>5, <2>2 DEF ExplicitInter
    <3>2. QED
      BY <1>5, <3>1 DEF Ctu
  <2>3. \A x, tree : slice.body[c] # Intra(x, tree)
    BY DEF IsInterCoded, Intra
  <2>4. QED
    BY <1>5, <2>1, <2>2, <2>3 DEF CodedAs
<1>6. \A c \in S : r[c] = SampleAt(slice, reference, r, c)
  <2> SUFFICES ASSUME NEW c \in S PROVE recon[c] = SampleAt(slice, reference, r, c)
    OBVIOUS
  <2>1. recon[c] \in Int
    BY <1>5
  <2>2. CASE slice.body[c] = InterSkip /\ recon[c] = reference[c]
    BY <1>5, <2>1, <2>2 DEF SampleAt, InterSkip, IsInterCoded
  <2>3. ASSUME NEW from \in Ctu, reference[from] \in Int,
               slice.body[c] = ExplicitInter(from, recon[c] - reference[from])
        PROVE  recon[c] = SampleAt(slice, reference, r, c)
    <3>1. c + Vector(slice)[c] = from
      BY <1>5, <2>1, <2>3 DEF ExplicitInter, Ctu
    <3>2. QED
      BY <2>1, <2>3, <3>1 DEF SampleAt, ExplicitInter, IsInterCoded
  <2>4. ASSUME NEW tree \in {"inter", "intra"},
               slice.body[c] = Intra(recon[c] - (IF c - 1 \in S THEN recon[c - 1] ELSE 0), tree)
        PROVE  recon[c] = SampleAt(slice, reference, r, c)
    <3>1. c - 1 \in S => recon[c - 1] \in Int
      BY <1>1
    <3>2. QED
      BY <2>1, <2>4, <3>1 DEF SampleAt, Intra, IsInterCoded
  <2>5. QED
    BY <2>2, <2>3, <2>4 DEF CodedAs
<1>7. \A c \in S : SliceSamples(slice, reference)[c] = r[c]
  <2> DEFINE s == SliceSamples(slice, reference)
  <2>1. r = [c \in S |-> SampleAt(slice, reference, r, c)]
    BY <1>6
  <2> HIDE DEF r
  <2>2. s = [c \in S |-> SampleAt(slice, reference, s, c)]
    BY <2>1, SampleRecursion
  <2> HIDE DEF s
  <2>3. \A c \in S : (c - 1 \in S => s[c - 1] = r[c - 1]) => s[c] = r[c]
    BY <1>6, <2>2 DEF SampleAt
  <2>4. \A c \in S : s[c] = r[c]
    BY <1>1, <2>3, EqualByNeighbour
  <2>5. QED
    BY <2>4 DEF s
<1>8. QED
  BY <1>7, <1>9

-----------------------------------------------------------------------------
(* The inductive invariant *)

Bound == IF Lossless \/ Tolerance > SkipDelta THEN Tolerance ELSE SkipDelta
WithinBound(recon, source) == \A c \in Ctu : Distance(recon[c], source[c]) <= Bound

\* The predictive cache holds the last picture, as the decoder has it.
CacheIsLastPicture ==
    \/ cache = NoCache
    \/ /\ cache \in [source : Frame, recon : Frame]
       /\ IsPredictive /\ frameIndex > 0
       /\ decoder.picture = cache.recon
       /\ WithinBound(cache.recon, cache.source)

\* The decoder has followed the stream.
DecoderFollows ==
    decoder = [pps |-> ParameterSets, poc |-> frameIndex - 1, picture |-> call.recon, sound |-> TRUE]

LastCallIsClose ==
    \/ call = NoCall
    \/ call.recon \in Frame /\ WithinBound(call.recon, call.source)

\* A cached slice is one of a predictive picture with a header of its own,
\* that is, of any picture it can be taken for.
CachedSlice(c) == CtuSlice("trail", 0, c, InterSkip)
PayloadsAreReusable ==
    \A c \in Ctu : payloads[c] # NoPayload =>
        /\ payloads[c] = CachedSlice(c)
        /\ CtuCount > 1 /\ frameIndex > 0 /\ IsPredictive

IInv ==
    /\ options \in Options
    /\ frameIndex \in Nat
    /\ CacheIsLastPicture
    /\ DecoderFollows
    /\ LastCallIsClose
    /\ PayloadsAreReusable

LEMMA SkipSlices ==
    ASSUME IInv, NEW c \in Ctu
    PROVE  /\ payloads[c] # NoPayload => payloads[c] = SkipSlice(c)
           /\ CachedSkipSlice(c) = SkipSlice(c)
<1>1. ASSUME CtuCount > 1, frameIndex > 0, IsPredictive
      PROVE  SkipSlice(c) = CachedSlice(c)
  <2>1. Kind = "trail"
    BY <1>1 DEF Kind, PictureKind
  <2>2. QED
    BY <1>1, <2>1 DEF SkipSlice, CachedSlice, CtuSlice
<1>2. payloads[c] # NoPayload => payloads[c] = SkipSlice(c)
  BY <1>1 DEF IInv, PayloadsAreReusable
<1>3. QED
  BY <1>2 DEF CachedSkipSlice

LEMMA Implications ==
    ASSUME IInv PROVE ClosedLoop /\ ErrorDoesNotAccumulate /\ CachedSlicesAreCurrent
<1>1. ClosedLoop
  BY DEF IInv, DecoderFollows, CacheIsLastPicture, ClosedLoop
<1>2. ErrorDoesNotAccumulate
  BY DEF IInv, DecoderFollows, LastCallIsClose, WithinBound, Bound, ErrorDoesNotAccumulate
<1>3. CachedSlicesAreCurrent
  BY SkipSlices DEF CachedSlicesAreCurrent
<1>4. QED
  BY <1>1, <1>2, <1>3

LEMMA InitInvariant == Init => IInv
<1> SUFFICES ASSUME Init PROVE IInv
  OBVIOUS
<1> USE DEF Init
<1>1. DecoderFollows
  BY DEF DecoderFollows, EmptyDecoder, NoCall
<1>2. PayloadsAreReusable
  BY DEF PayloadsAreReusable
<1>3. QED
  BY <1>1, <1>2 DEF IInv, CacheIsLastPicture, LastCallIsClose

-----------------------------------------------------------------------------
(* One picture *)

\* A picture of the present kind and order count, that can be read and whose
\* samples are recon, is decoded to recon.
LEMMA PictureDecodes ==
    ASSUME IInv, NEW recon \in Frame, NEW picture,
           picture.kind = Kind,
           \/ picture.header = PocLsb(frameIndex)
           \/ picture.header = NoHeader /\ Headers(picture) = {PocLsb(frameIndex)},
           WellFormed(decoder, picture),
           (\E s \in picture.slices : s.type = "P") => decoder.picture # NoFrame,
           \A c \in Ctu : SliceSamples(SliceOf(picture, c), decoder.picture)[c] = recon[c]
    PROVE  DecodePicture(decoder, picture) =
              [pps |-> ParameterSets, poc |-> frameIndex, picture |-> recon, sound |-> TRUE]
<1>1. decoder.poc = frameIndex - 1 /\ frameIndex \in Nat /\ decoder.sound
  BY DEF IInv, DecoderFollows
<1>2. PocLsb(frameIndex) \in Nat /\ PocLsb(frameIndex) # NoHeader
  BY <1>1, PictureAssumption DEF PocLsb, NoHeader, PictureAssumption
<1>3. Poc(decoder, picture) = frameIndex
  <2> DEFINE lsb == IF picture.header # NoHeader THEN picture.header
                    ELSE CHOOSE h \in Headers(picture) : TRUE
  <2>1. lsb = PocLsb(frameIndex)
    BY <1>2
  <2>2. CASE picture.kind = "idr"
    <3>1. frameIndex = 0
      BY <2>2 DEF Kind, PictureKind
    <3>2. 0 % PocModulus = 0
      BY PictureAssumption DEF PictureAssumption
    <3>3. QED
      BY <2>1, <2>2, <3>1, <3>2 DEF Poc, PocLsb
  <2>3. CASE picture.kind # "idr"
    <3>1. PocModulus \in Nat \ {0, 1}
      BY PictureAssumption DEF PictureAssumption
    <3>2. (PocLsb(frameIndex) - decoder.poc) % PocModulus = 1
      BY <1>1, <3>1, CountsFollow DEF PocLsb
    <3> HIDE DEF lsb
    <3>3. Poc(decoder, picture) = decoder.poc + ((lsb - decoder.poc) % PocModulus)
      BY <2>3 DEF Poc, lsb
    <3>4. QED
      BY <1>1, <2>1, <3>2, <3>3
  <2>4. QED
    BY <2>2, <2>3
<1>4. [c \in Ctu |-> SliceSamples(SliceOf(picture, c), decoder.picture)[c]] = recon
  BY DEF Frame
<1>5. DecodePicture(decoder, picture) = [decoder EXCEPT !.poc = frameIndex, !.picture = recon]
  <2>1. (\E s \in picture.slices : s.type = "P") => HasReference(decoder, picture)
    BY <1>1, <1>3 DEF HasReference
  <2> DEFINE samples == [c \in Ctu |-> SliceSamples(SliceOf(picture, c), decoder.picture)[c]]
  <2>2. DecodePicture(decoder, picture) =
          [decoder EXCEPT !.poc = Poc(decoder, picture), !.picture = samples]
    BY <1>1, <2>1, Zenon DEF DecodePicture
  <2> HIDE DEF samples
  <2>3. QED
    BY <1>3, <1>4, <2>2 DEF samples
<1>6. QED
  BY <1>5 DEF IInv, DecoderFollows

\* Where the cache is used, the decoder predicts from the cached picture.
LEMMA ReferenceIsCached ==
    ASSUME IInv, HasReferenceFrame
    PROVE  /\ IsPredictive /\ frameIndex # 0 /\ Kind = "trail"
           /\ Cache = cache /\ cache \in [source : Frame, recon : Frame]
           /\ decoder.picture = Cache.recon /\ decoder.picture # NoFrame
           /\ WithinBound(Cache.recon, Cache.source)
<1>1. Cache = cache /\ cache # NoCache /\ IsPredictive /\ frameIndex # 0
  BY DEF HasReferenceFrame, Cache, IsPredictiveFrame, ResetsReferencesBefore
<1>2. CacheIsLastPicture
  BY DEF IInv
<1>3. cache.recon # NoFrame
  BY <1>1, <1>2, VvcAssumption DEF CacheIsLastPicture, VvcAssumption
<1>4. QED
  BY <1>1, <1>2, <1>3 DEF CacheIsLastPicture, Kind, PictureKind

\* A picture of one slice.
LEMMA FrameSliceDecodes ==
    ASSUME IInv, NEW recon \in Frame, NEW body,
           \A c \in Ctu : CodedAs(body[c], c, Ctu, recon, decoder.picture),
           NotMixed(body, Ctu),
           (\E c \in Ctu : IsInterCoded(body[c])) => HasReferenceFrame
    PROVE  DecodePicture(decoder, FrameSlice(body)) =
              [pps |-> ParameterSets, poc |-> frameIndex, picture |-> recon, sound |-> TRUE]
<1> DEFINE pps == IF IsPredictive THEN 1 ELSE 0
           slice == [ctus |-> Ctu, type |-> SliceType(Kind, Ctu, body),
                     header |-> PocLsb(frameIndex), pps |-> pps, body |-> body]
           picture == FrameSlice(body)
<1>1. picture = [kind |-> Kind, header |-> NoHeader, slices |-> {slice}]
  BY DEF FrameSlice, FrameSlicePicture
<1>2. slice.ctus = Ctu /\ slice.header = PocLsb(frameIndex) /\ slice.pps = pps /\ slice.body = body
      /\ slice.type = SliceType(Kind, Ctu, body)
  OBVIOUS
<1> HIDE DEF slice, picture
<1>3. recon \in [Ctu -> Int]
  BY VvcAssumption DEF Frame, Sample
<1>4. \A c \in Ctu : /\ SliceSamples(slice, decoder.picture)[c] = recon[c]
                     /\ IsInterCoded(body[c]) => c + Vector(slice)[c] \in Ctu
  <2>1. slice.ctus \in SUBSET Ctu
    BY <1>2
  <2>2. \A c \in slice.ctus : CodedAs(slice.body[c], c, slice.ctus, recon, decoder.picture)
    BY <1>2
  <2>3. NotMixed(slice.body, slice.ctus)
    BY <1>2
  <2>4. \A c \in slice.ctus : /\ SliceSamples(slice, decoder.picture)[c] = recon[c]
                              /\ IsInterCoded(slice.body[c]) => c + Vector(slice)[c] \in Ctu
    BY <1>3, <2>1, <2>2, <2>3, SliceDecodes
  <2>5. QED
    BY <1>2, <2>4
<1>5. (\E c \in Ctu : IsInterCoded(body[c])) => Kind = "trail" /\ slice.type = "P"
  BY <1>2, ReferenceIsCached DEF SliceType
<1>6. PocLsb(frameIndex) \in Nat /\ PocLsb(frameIndex) # NoHeader
  BY PictureAssumption DEF PocLsb, NoHeader, PictureAssumption, IInv
<1>7. Headers(picture) = {PocLsb(frameIndex)}
  BY <1>1, <1>2, <1>6 DEF Headers
<1>8. pps \in decoder.pps
  BY DEF IInv, DecoderFollows, ParameterSets
<1>9. WellFormed(decoder, picture)
  <2>1. Cardinality({slice}) = 1
    BY FS_Singleton
  <2>2. QED
    BY <1>1, <1>2, <1>4, <1>5, <1>7, <1>8, <2>1 DEF WellFormed
<1>10. (\E s \in picture.slices : s.type = "P") => decoder.picture # NoFrame
  BY <1>1, <1>2, ReferenceIsCached DEF SliceType
<1>11. \A c \in Ctu : SliceOf(picture, c) = slice
  BY <1>1, <1>2 DEF SliceOf
<1>12. \A c \in Ctu : SliceSamples(SliceOf(picture, c), decoder.picture)[c] = recon[c]
  BY <1>4, <1>11
<1>13. picture.kind = Kind /\ picture.header = NoHeader
  BY <1>1
<1>14. QED
  BY <1>7, <1>9, <1>10, <1>12, <1>13, PictureDecodes DEF picture

\* A picture of one slice per CTU, some of them from the payload cache.
LEMMA CtuSlicesDecode ==
    ASSUME IInv, HasReferenceFrame, SlicedSupported, CtuCount > 1,
           NEW recon \in Frame, NEW body,
           \A c \in Ctu : CodedAs(body[c], c, {c}, recon, decoder.picture)
    PROVE  DecodePicture(decoder, CtuSlices(body)) =
              [pps |-> ParameterSets, poc |-> frameIndex, picture |-> recon, sound |-> TRUE]
<1> DEFINE slice(c) == CtuSlice(Kind, PocLsb(frameIndex), c, body[c])
           picture == CtuSlices(body)
<1>1. picture = [kind |-> Kind, header |-> PocLsb(frameIndex), slices |-> {slice(c) : c \in Ctu}]
  <2>1. \A c \in Ctu : (IF body[c] = InterSkip THEN CachedSkipSlice(c) ELSE slice(c)) = slice(c)
    BY SkipSlices DEF SkipSlice
  <2>2. QED
    BY <2>1 DEF CtuSlices, CtuSlicesPicture
<1>2. \A c \in Ctu : /\ slice(c).ctus = {c} /\ slice(c).header = NoHeader /\ slice(c).pps = 0
                     /\ slice(c).body[c] = body[c]
                     /\ slice(c).type = SliceType(Kind, {c}, slice(c).body)
  BY DEF CtuSlice
<1> HIDE DEF slice, picture
<1>3. recon \in [Ctu -> Int]
  BY VvcAssumption DEF Frame, Sample
<1>4. ASSUME NEW c \in Ctu
      PROVE  /\ SliceSamples(slice(c), decoder.picture)[c] = recon[c]
             /\ IsInterCoded(body[c]) => c + Vector(slice(c))[c] \in Ctu
  <2>1. slice(c).ctus \in SUBSET Ctu /\ c \in slice(c).ctus
    BY <1>2
  <2>2. \A i \in slice(c).ctus : CodedAs(slice(c).body[i], i, slice(c).ctus, recon, decoder.picture)
    BY <1>2
  <2>3. NotMixed(slice(c).body, slice(c).ctus)
    <3>1. slice(c).ctus = {c}
      BY <1>2
    <3>2. QED
      BY <3>1, Zenon DEF NotMixed
  <2> DEFINE s == slice(c)
  <2>4. \A i \in s.ctus : /\ SliceSamples(s, decoder.picture)[i] = recon[i]
                          /\ IsInterCoded(s.body[i]) => i + Vector(s)[i] \in Ctu
    <3> HIDE DEF s
    <3>1. s.ctus \in SUBSET Ctu /\ NotMixed(s.body, s.ctus)
      BY <2>1, <2>3 DEF s
    <3>2. \A i \in s.ctus : CodedAs(s.body[i], i, s.ctus, recon, decoder.picture)
      BY <2>2 DEF s
    <3>3. QED
      BY <1>3, <3>1, <3>2, SliceDecodes
  <2>5. QED
    BY <1>2, <2>1, <2>4
<1>5. \A c \in Ctu : IsInterCoded(body[c]) => slice(c).type = "P"
  BY <1>2, ReferenceIsCached DEF SliceType
<1>6. PocLsb(frameIndex) \in Nat /\ PocLsb(frameIndex) # NoHeader
  BY PictureAssumption DEF PocLsb, NoHeader, PictureAssumption, IInv
<1>7. Headers(picture) = {}
  <2>1. \A s \in picture.slices : s.header = NoHeader
    BY <1>1, <1>2
  <2>2. QED
    BY <2>1 DEF Headers
<1>8. 0 \in decoder.pps
  BY DEF IInv, DecoderFollows, ParameterSets
<1>9. WellFormed(decoder, picture)
  <2>1. picture.header # NoHeader
    BY <1>1, <1>6
  <2>2. ASSUME NEW c \in Ctu
        PROVE  /\ slice(c).pps \in decoder.pps
               /\ \A i \in slice(c).ctus : IsInterCoded(slice(c).body[i]) =>
                    slice(c).type = "P" /\ i + Vector(slice(c))[i] \in Ctu
    <3>1. slice(c).pps = 0 /\ slice(c).ctus = {c} /\ slice(c).body[c] = body[c]
      BY <1>2
    <3>2. QED
      BY <1>4, <1>5, <1>8, <3>1
  <2>3. picture.slices = {slice(c) : c \in Ctu}
    BY <1>1
  <2>4. QED
    BY <1>7, <2>1, <2>2, <2>3 DEF WellFormed
<1>10. \A c \in Ctu : SliceOf(picture, c) = slice(c)
  BY <1>1, <1>2 DEF SliceOf
<1>11. \A c \in Ctu : SliceSamples(SliceOf(picture, c), decoder.picture)[c] = recon[c]
  BY <1>4, <1>10
<1>12. picture.kind = Kind /\ picture.header = PocLsb(frameIndex)
  BY <1>1
<1>13. QED
  BY <1>9, <1>11, <1>12, ReferenceIsCached, PictureDecodes DEF picture

-----------------------------------------------------------------------------
(* One step *)

LEMMA DistanceFacts ==
    ASSUME NEW x \in Int, NEW y \in Int
    PROVE  /\ Distance(x, y) \in Nat
           /\ Distance(x, y) = Distance(y, x)
           /\ x = y => Distance(x, y) = 0
BY DEF Distance

LEMMA OptionFacts ==
    ASSUME IInv
    PROVE  /\ Lossless \in BOOLEAN /\ Tolerance \in Nat /\ SkipDelta \in Nat /\ Bound \in Nat
           /\ Tolerance <= Bound
           /\ ~Lossless => SkipDelta <= Bound
           /\ Lossless => Bound = Tolerance
<1>1. options \in [lossless : BOOLEAN, tolerance : Nat, mixed : BOOLEAN] /\ SkipDelta \in Nat
  BY VvcAssumption DEF IInv, VvcAssumption
<1>2. QED
  BY <1>1 DEF Lossless, Tolerance, Bound

\* What a delivered picture leaves behind.
LEMMA Delivered ==
    ASSUME IInv, NEW frame \in Frame, NEW recon \in Frame, NEW picture,
           WithinBound(recon, frame),
           Deliver(frame, recon, picture),
           DecodePicture(decoder, picture) =
              [pps |-> ParameterSets, poc |-> frameIndex, picture |-> recon, sound |-> TRUE]
    PROVE  /\ options' \in Options
           /\ frameIndex' \in Nat /\ frameIndex' = frameIndex + 1
           /\ decoder'.picture = recon
           /\ WithinBound(recon, frame)'
           /\ DecoderFollows'
           /\ LastCallIsClose'
<1> USE DEF Deliver
<1>1. options' = options /\ frameIndex' = frameIndex + 1 /\ frameIndex \in Nat
  BY DEF IInv
<1>2. decoder' = [pps |-> ParameterSets, poc |-> frameIndex, picture |-> recon, sound |-> TRUE]
  OBVIOUS
<1>3. WithinBound(recon, frame)'
  BY <1>1 DEF WithinBound, Bound, Lossless, Tolerance
<1>4. call'.recon = recon /\ call'.source = frame
  OBVIOUS
<1>5. DecoderFollows'
  BY <1>1, <1>2, <1>4 DEF DecoderFollows, ParameterSets
<1>6. LastCallIsClose'
  BY <1>3, <1>4 DEF LastCallIsClose
<1>7. QED
  BY <1>1, <1>2, <1>3, <1>5, <1>6 DEF IInv

LEMMA RepeatStep ==
    ASSUME IInv, NEW frame \in Frame, EncodeRepeat(frame)
    PROVE  IInv'
<1> DEFINE body == [c \in Ctu |-> InterSkip]
<1>0. HasReferenceFrame /\ Cache.source = frame
  BY DEF EncodeRepeat, IsRepeat
<1> PICK recon \in Frame : recon = Cache.recon
  BY <1>0, ReferenceIsCached
<1>1. /\ Deliver(frame, recon, FrameSlice(body))
      /\ cache' = Cache /\ payloads' = payloads
  BY DEF EncodeRepeat
<1>2. WithinBound(recon, frame) /\ decoder.picture = recon
      /\ IsPredictive /\ Cache = cache
  BY <1>0, ReferenceIsCached
<1>3. DecodePicture(decoder, FrameSlice(body)) =
        [pps |-> ParameterSets, poc |-> frameIndex, picture |-> recon, sound |-> TRUE]
  <2>1. \A c \in Ctu : CodedAs(body[c], c, Ctu, recon, decoder.picture)
    BY <1>2 DEF CodedAs
  <2>2. NotMixed(body, Ctu)
    BY DEF NotMixed, InterSkip
  <2> HIDE DEF body
  <2>3. QED
    BY <1>0, <1>2, <2>1, <2>2, FrameSliceDecodes
<1> HIDE DEF body
<1>4. /\ options' \in Options
      /\ frameIndex' \in Nat /\ frameIndex' = frameIndex + 1
      /\ decoder'.picture = recon
      /\ WithinBound(recon, frame)'
      /\ DecoderFollows'
      /\ LastCallIsClose'
  BY <1>1, <1>2, <1>3, Delivered
<1>5. CacheIsLastPicture'
  <2>1. cache' \in [source : Frame, recon : Frame] /\ cache'.recon = recon /\ cache'.source = frame
    BY <1>0, <1>1, ReferenceIsCached
  <2>2. WithinBound(cache.recon, cache.source)'
    BY <1>4, <2>1 DEF WithinBound, Bound, Lossless, Tolerance
  <2>3. IsPredictive' /\ frameIndex' > 0
    BY <1>2, <1>4 DEF IsPredictive, IInv
  <2>4. QED
    BY <1>4, <2>1, <2>2, <2>3 DEF CacheIsLastPicture
<1>6. PayloadsAreReusable'
  BY <1>1, <1>2, <1>4 DEF IInv, PayloadsAreReusable, CachedSlice, CtuSlice, SliceType, IsInterCoded, IsPredictive
<1>7. QED
  BY <1>4, <1>5, <1>6 DEF IInv

LEMMA Modes ==
    /\ InterSkip.mode = "skip"
    /\ \A from, x : ExplicitInter(from, x).mode = "inter"
    /\ \A x, tree : Intra(x, tree).mode = "intra" /\ Intra(x, tree) # InterSkip
BY DEF InterSkip, ExplicitInter, Intra

\* A frame coded anew, whatever the search and the quantisation chose.
LEMMA FrameDecodes ==
    ASSUME IInv, NEW frame \in Frame, ~IsRepeat(frame), NEW explicit \in BOOLEAN,
           NEW v \in ExplicitVectors(frame), NEW quantised \in Near(frame),
           IsExplicitFrame(frame, v, explicit),
           NEW candidates, candidates = SkipCandidates(frame, explicit),
           NEW skipped, skipped = Skipped(frame, quantised, candidates),
           NEW sliced, sliced = IsSlicedFrame(candidates, explicit),
           NEW recon, recon = Reconstruction(quantised, skipped),
           NEW mixed,
           NEW body, body = Payloads(recon, skipped, v, mixed, sliced)
    PROVE  /\ recon \in Frame
           /\ WithinBound(recon, frame)
           /\ WritesCtuSlices(body, sliced) => HasReferenceFrame /\ CtuCount > 1
           /\ DecodePicture(decoder, IF WritesCtuSlices(body, sliced) THEN CtuSlices(body)
                                     ELSE FrameSlice(body)) =
                [pps |-> ParameterSets, poc |-> frameIndex, picture |-> recon, sound |-> TRUE]
<1>1. candidates \in SUBSET Ctu /\ skipped \in SUBSET candidates
  BY DEF SkipCandidates, Skipped
<1>2. candidates # {} => HasReferenceFrame /\ ~explicit
  BY DEF SkipCandidates, SkipEnabled
<1>3. /\ v \in [Ctu -> Ctu \cup {NoVector}]
      /\ \A c \in Ctu : v[c] # NoVector => HasReferenceFrame /\ v[c] \in Ctu
  BY DEF ExplicitVectors
<1>4. candidates # {} => \A c \in Ctu : v[c] = NoVector
  BY <1>2 DEF IsExplicitFrame, HasVector
<1>5. \A c \in candidates : IsSkipCandidate(frame, c)
  BY DEF SkipCandidates
<1>6. quantised \in Frame /\ \A c \in Ctu : Distance(quantised[c], frame[c]) <= Tolerance
  BY DEF Near
<1>7. \A f \in Frame : \A c \in Ctu : f[c] \in Sample /\ f[c] \in Int
  BY VvcAssumption DEF Frame, Sample, VvcAssumption
<1>8. recon = [c \in Ctu |-> IF c \in skipped THEN Cache.recon[c] ELSE quantised[c]]
  BY DEF Reconstruction
<1>9. HasReferenceFrame => /\ Cache.source \in Frame /\ Cache.recon \in Frame
                           /\ decoder.picture = Cache.recon
                           /\ WithinBound(Cache.recon, Cache.source)
  BY ReferenceIsCached
<1>10. recon \in Frame
  <2>1. \A c \in Ctu : (IF c \in skipped THEN Cache.recon[c] ELSE quantised[c]) \in Sample
    BY <1>1, <1>2, <1>6, <1>7, <1>9
  <2>2. QED
    BY <1>8, <2>1 DEF Frame
<1>11. WithinBound(recon, frame)
  <2> SUFFICES ASSUME NEW c \in Ctu PROVE Distance(recon[c], frame[c]) <= Bound
    BY DEF WithinBound
  <2>1. CASE c \notin skipped
    <3>1. recon[c] = quantised[c]
      BY <1>8, <2>1
    <3>2. Distance(recon[c], frame[c]) \in Nat
      BY <1>7, <1>10, DistanceFacts
    <3>3. QED
      BY <1>6, <3>1, <3>2, OptionFacts
  <2>2. CASE c \in skipped
    <3>1. HasReferenceFrame /\ IsSkipCandidate(frame, c) /\ recon[c] = Cache.recon[c]
      BY <1>1, <1>2, <1>5, <1>8, <2>2
    <3>2. CASE frame[c] = Cache.source[c]
      BY <1>9, <3>1, <3>2 DEF WithinBound
    <3>3. CASE ~Lossless /\ Distance(frame[c], Cache.recon[c]) <= SkipDelta
      <4>1. Distance(frame[c], recon[c]) = Distance(recon[c], frame[c]) /\ Distance(recon[c], frame[c]) \in Nat
        BY <1>7, <1>10, DistanceFacts
      <4>2. QED
        BY <3>1, <3>3, <4>1, OptionFacts
    <3>4. QED
      BY <3>1, <3>2, <3>3 DEF IsSkipCandidate
  <2>3. QED
    BY <2>1, <2>2
<1>12. \A c \in Ctu : body[c] =
          IF c \in skipped THEN InterSkip
          ELSE IF v[c] # NoVector THEN ExplicitInter(v[c], recon[c] - Cache.recon[v[c]])
          ELSE Intra(recon[c] - LeftSample(recon, c, sliced), IF mixed THEN "inter" ELSE "intra")
  BY DEF Payloads
<1>13. \A c \in Ctu : c \in skipped => recon[c] = decoder.picture[c]
  BY <1>1, <1>2, <1>8, <1>9
<1>14. sliced \in BOOLEAN /\ (sliced => candidates # {} /\ HasReferenceFrame /\ SlicedSupported)
  BY <1>2, VvcAssumption DEF IsSlicedFrame, IsSkipCandidateFrame, VvcAssumption
<1>15. CASE WritesCtuSlices(body, sliced)
  <2>1. sliced /\ HasReferenceFrame /\ SlicedSupported /\ candidates # {}
    BY <1>14, <1>15 DEF WritesCtuSlices
  <2>2. CtuCount > 1
    <3> SUFFICES ASSUME CtuCount = 1 PROVE FALSE
      BY PictureAssumption DEF PictureAssumption
    <3>1. Ctu = {0}
      BY DEF Ctu
    <3>2. body[0] # InterSkip
      BY <1>15, <3>1 DEF WritesCtuSlices
    <3>3. 0 \notin skipped /\ 0 \in candidates
      BY <1>1, <1>12, <2>1, <3>1, <3>2
    <3>4. IsSkipCandidateFrame(candidates)
      BY <2>1 DEF IsSlicedFrame
    <3>5. ~IsSkipped(frame, quantised, 0)
      BY <3>3, <3>4 DEF Skipped
    <3>6. ~Lossless /\ ~(Sse(frame[0], Cache.recon[0]) <= PreskipLimit)
      BY <3>5 DEF IsSkipped, IsPreselected
    <3>7. CASE frame[0] = Cache.source[0]
      <4>1. frame = Cache.source
        BY <1>9, <2>1, <3>1, <3>7 DEF Frame
      <4>2. QED
        BY <2>1, <4>1 DEF IsRepeat
    <3>8. CASE Distance(frame[0], Cache.recon[0]) <= SkipDelta
      <4> DEFINE d == Distance(frame[0], Cache.recon[0])
      <4>1. d \in Nat /\ d <= SkipDelta
        BY <1>7, <1>9, <2>1, <3>1, <3>8, DistanceFacts
      <4>2. d * d <= SkipDelta * SkipDelta /\ d * d \in Nat
        <5> HIDE DEF d
        <5>1. SkipDelta \in Nat
          BY OptionFacts
        <5>2. QED
          BY <4>1, <5>1, Squares
      <4>3. Sse(frame[0], Cache.recon[0]) = d * d
        BY DEF Sse
      <4> HIDE DEF d
      <4>4. SkipDelta * SkipDelta <= PreskipLimit /\ PreskipLimit \in Nat
            /\ SkipDelta * SkipDelta \in Nat
        <5>1. \A n \in Nat : n * n \in Nat
          OBVIOUS
        <5>2. QED
          BY <5>1, VvcAssumption DEF VvcAssumption
      <4>5. QED
        BY <3>6, <4>2, <4>3, <4>4
    <3>9. QED
      BY <1>5, <3>3, <3>7, <3>8 DEF IsSkipCandidate
  <2>3. ASSUME NEW c \in Ctu
        PROVE  CodedAs(body[c], c, {c}, recon, decoder.picture)
    <3>1. CASE c \in skipped
      BY <1>12, <1>13, <3>1 DEF CodedAs
    <3>2. CASE c \notin skipped
      <4>1. body[c] = Intra(recon[c] - 0, IF mixed THEN "inter" ELSE "intra")
        BY <1>4, <1>12, <2>1, <3>2 DEF LeftSample
      <4>2. c - 1 \notin {c}
        BY DEF Ctu
      <4>3. QED
        BY <4>1, <4>2 DEF CodedAs
    <3>3. QED
      BY <3>1, <3>2
  <2>4. DecodePicture(decoder, CtuSlices(body)) =
          [pps |-> ParameterSets, poc |-> frameIndex, picture |-> recon, sound |-> TRUE]
    BY <1>10, <2>1, <2>2, <2>3, CtuSlicesDecode
  <2>5. QED
    BY <1>10, <1>11, <1>15, <2>1, <2>2, <2>4
<1>16. CASE ~WritesCtuSlices(body, sliced)
  <2>1. \A c \in Ctu : IsInterCoded(body[c]) => c \in skipped \/ v[c] # NoVector
    BY <1>12, Modes DEF IsInterCoded
  <2>2. NotMixed(body, Ctu)
    <3>1. CASE candidates = {}
      <4>1. \A c \in Ctu : body[c].mode # "skip"
        BY <1>1, <1>12, <3>1, Modes
      <4>2. QED
        BY <4>1 DEF NotMixed
    <3>2. CASE candidates # {}
      <4>1. \A c \in Ctu : body[c].mode # "inter"
        BY <1>4, <1>12, <3>2, Modes
      <4>2. QED
        BY <4>1 DEF NotMixed
    <3>3. QED
      BY <3>1, <3>2
  <2>3. ASSUME NEW c \in Ctu
        PROVE  CodedAs(body[c], c, Ctu, recon, decoder.picture)
    <3>1. CASE c \in skipped
      BY <1>12, <1>13, <3>1 DEF CodedAs
    <3>2. CASE c \notin skipped /\ v[c] # NoVector
      <4>1. v[c] \in Ctu /\ decoder.picture = Cache.recon /\ Cache.recon[v[c]] \in Int
        BY <1>3, <1>7, <1>9, <3>2
      <4>2. body[c] = ExplicitInter(v[c], recon[c] - decoder.picture[v[c]])
        BY <1>12, <3>2, <4>1
      <4>3. QED
        BY <4>1, <4>2 DEF CodedAs
    <3>3. CASE c \notin skipped /\ v[c] = NoVector
      <4>1. ~sliced
        BY <1>12, <1>16, <3>3, Modes DEF WritesCtuSlices
      <4>2. LeftSample(recon, c, sliced) = IF c - 1 \in Ctu THEN recon[c - 1] ELSE 0
        BY <4>1, PictureAssumption DEF LeftSample, Ctu, PictureAssumption
      <4>3. body[c] = Intra(recon[c] - (IF c - 1 \in Ctu THEN recon[c - 1] ELSE 0),
                           IF mixed THEN "inter" ELSE "intra")
        BY <1>12, <3>3, <4>2
      <4>4. QED
        BY <4>3 DEF CodedAs
    <3>4. QED
      BY <3>1, <3>2, <3>3
  <2>4. (\E c \in Ctu : IsInterCoded(body[c])) => HasReferenceFrame
    BY <1>1, <1>2, <1>3, <2>1
  <2>5. DecodePicture(decoder, FrameSlice(body)) =
          [pps |-> ParameterSets, poc |-> frameIndex, picture |-> recon, sound |-> TRUE]
    BY <1>10, <2>2, <2>3, <2>4, FrameSliceDecodes
  <2>6. QED
    BY <1>10, <1>11, <1>16, <2>5
<1>17. QED
  BY <1>15, <1>16

LEMMA FrameStep ==
    ASSUME IInv, NEW frame \in Frame, EncodeFrame(frame)
    PROVE  IInv'
<1>1. ~IsRepeat(frame)
  BY DEF EncodeFrame
<1>2. PICK explicit \in BOOLEAN, v \in ExplicitVectors(frame), quantised \in Near(frame) :
        /\ IsExplicitFrame(frame, v, explicit)
        /\ LET candidates == SkipCandidates(frame, explicit)
               skipped == Skipped(frame, quantised, candidates)
               sliced == IsSlicedFrame(candidates, explicit)
               recon == Reconstruction(quantised, skipped)
               body == Payloads(recon, skipped, v, IsMixedFrame(candidates, explicit), sliced)
           IN  /\ Deliver(frame, recon, IF WritesCtuSlices(body, sliced) THEN CtuSlices(body)
                                        ELSE FrameSlice(body))
               /\ cache' = IF IsPredictive THEN [source |-> frame, recon |-> recon] ELSE Cache
               /\ payloads' = IF WritesCtuSlices(body, sliced) /\ CtuCount > 1
                              THEN [c \in Ctu |-> IF c \in skipped THEN CachedSkipSlice(c) ELSE payloads[c]]
                              ELSE payloads
  BY Zenon DEF EncodeFrame
<1> PICK candidates : candidates = SkipCandidates(frame, explicit)
  OBVIOUS
<1> PICK skipped : skipped = Skipped(frame, quantised, candidates)
  OBVIOUS
<1> PICK sliced : sliced = IsSlicedFrame(candidates, explicit)
  OBVIOUS
<1> PICK mixed : mixed = IsMixedFrame(candidates, explicit)
  OBVIOUS
<1> PICK recon : recon = Reconstruction(quantised, skipped)
  OBVIOUS
<1> PICK body : body = Payloads(recon, skipped, v, mixed, sliced)
  OBVIOUS
<1> PICK writes : writes = WritesCtuSlices(body, sliced)
  OBVIOUS
<1> PICK picture : picture = IF writes THEN CtuSlices(body) ELSE FrameSlice(body)
  OBVIOUS
<1>3. /\ Deliver(frame, recon, picture)
      /\ cache' = IF IsPredictive THEN [source |-> frame, recon |-> recon] ELSE Cache
      /\ payloads' = IF writes /\ CtuCount > 1
                     THEN [c \in Ctu |-> IF c \in skipped THEN CachedSkipSlice(c) ELSE payloads[c]]
                     ELSE payloads
  BY <1>2, Zenon
<1>4. /\ recon \in Frame
      /\ WithinBound(recon, frame)
      /\ writes => HasReferenceFrame /\ CtuCount > 1
      /\ DecodePicture(decoder, picture) =
            [pps |-> ParameterSets, poc |-> frameIndex, picture |-> recon, sound |-> TRUE]
  BY <1>1, <1>2, FrameDecodes
<1>5. /\ options' \in Options
      /\ frameIndex' \in Nat /\ frameIndex' = frameIndex + 1
      /\ decoder'.picture = recon
      /\ WithinBound(recon, frame)'
      /\ DecoderFollows'
      /\ LastCallIsClose'
  BY <1>3, <1>4, Delivered
<1>6. frameIndex \in Nat
  BY DEF IInv
<1>7. CacheIsLastPicture'
  <2>1. CASE IsPredictive
    <3>1. cache' = [source |-> frame, recon |-> recon]
      BY <1>3, <2>1
    <3>2. cache' \in [source : Frame, recon : Frame] /\ cache'.source = frame /\ cache'.recon = recon
      BY <1>4, <3>1
    <3>3. WithinBound(cache.recon, cache.source)'
      BY <1>5, <3>2 DEF WithinBound, Bound, Lossless, Tolerance
    <3>4. QED
      BY <1>5, <1>6, <2>1, <3>2, <3>3 DEF CacheIsLastPicture, IsPredictive
  <2>2. CASE ~IsPredictive
    <3>1. cache' = NoCache
      BY <1>3, <2>2 DEF Cache, IInv, CacheIsLastPicture
    <3>2. QED
      BY <3>1 DEF CacheIsLastPicture, NoCache
  <2>3. QED
    BY <2>1, <2>2
<1>8. PayloadsAreReusable'
  <2> SUFFICES ASSUME NEW c \in Ctu, payloads'[c] # NoPayload
               PROVE  /\ payloads'[c] = CachedSlice(c)
                      /\ CtuCount > 1 /\ frameIndex' > 0 /\ IsPredictive
    BY DEF PayloadsAreReusable, CachedSlice, CtuSlice, SliceType, IsInterCoded, IsPredictive
  <2>1. CASE writes /\ CtuCount > 1 /\ c \in skipped
    <3>1. payloads'[c] = SkipSlice(c)
      BY <1>3, <2>1, SkipSlices
    <3>2. Kind = "trail" /\ IsPredictive
      BY <1>4, <2>1, ReferenceIsCached
    <3>3. SkipSlice(c) = CachedSlice(c)
      BY <2>1, <3>2 DEF SkipSlice, CachedSlice, CtuSlice
    <3>4. QED
      BY <1>5, <1>6, <2>1, <3>1, <3>2, <3>3
  <2>2. CASE ~(writes /\ CtuCount > 1 /\ c \in skipped)
    <3>1. payloads'[c] = payloads[c]
      BY <1>3, <2>2
    <3>2. QED
      BY <1>5, <1>6, <3>1 DEF IInv, PayloadsAreReusable
  <2>3. QED
    BY <2>1, <2>2
<1>9. QED
  BY <1>5, <1>7, <1>8 DEF IInv

LEMMA StepInvariant == IInv /\ [Next]_vars => IInv'
<1> SUFFICES ASSUME IInv, [Next]_vars PROVE IInv'
  OBVIOUS
<1>1. ASSUME NEW frame \in Frame, EncodeRepeat(frame) PROVE IInv'
  BY <1>1, RepeatStep
<1>2. ASSUME NEW frame \in Frame, EncodeFrame(frame) PROVE IInv'
  BY <1>2, FrameStep
<1>3. ASSUME UNCHANGED <<options, cache, payloads, frameIndex, call, decoder>> PROVE IInv'
  BY <1>3 DEF IInv, CacheIsLastPicture, DecoderFollows, LastCallIsClose, PayloadsAreReusable,
              WithinBound, Bound, Lossless, Tolerance, IsPredictive, ParameterSets, CachedSlice,
              CtuSlice, SliceType, IsInterCoded
<1>4. Stop \/ UNCHANGED vars => UNCHANGED <<options, cache, payloads, frameIndex, call, decoder>>
  BY DEF Stop, vars
<1>5. QED
  BY <1>1, <1>2, <1>3, <1>4 DEF Next

LEMMA InvariantHolds == Spec => []IInv
<1>1. QED
  BY InitInvariant, StepInvariant, PTL DEF Spec

-----------------------------------------------------------------------------
(* What follows of every stream *)

\* Every picture the encode loop writes can be decoded, the decoder shows the
\* reconstruction the loop reported, and predicts from the picture the loop
\* keeps in its predictive cache (encode_predictive_frame, vvc/encode.rs).
THEOREM LoopIsClosed == Spec => []ClosedLoop
<1>1. IInv => ClosedLoop
  BY Implications
<1>2. QED
  BY <1>1, InvariantHolds, PTL

\* However long CTUs are skipped, a frame is shown within one quantisation
\* error or one skip threshold of its own source.
THEOREM ErrorsAreBounded == Spec => []ErrorDoesNotAccumulate
<1>1. IInv => ErrorDoesNotAccumulate
  BY Implications
<1>2. QED
  BY <1>1, InvariantHolds, PTL

\* A slice of the payload cache is the slice that would be written now, though
\* its key leaves out the order count (VvcCtuInterSkipSlicePayloadCache).
THEOREM CachedSlicesFit == Spec => []CachedSlicesAreCurrent
<1>1. IInv => CachedSlicesAreCurrent
  BY Implications
<1>2. QED
  BY <1>1, InvariantHolds, PTL
=============================================================================

----------------------------- MODULE VvcPicture -----------------------------
(***************************************************************************)
(* VVC pictures as the encoder writes them (vvc/headers) and as a decoder  *)
(* reads them: which parameter set and which picture header a slice uses,  *)
(* which coding tree units (CTUs) it holds, of what type it is, and how a  *)
(* CTU is predicted.  CABAC and residual coding are left out: a CTU holds  *)
(* one sample, its residual is a number.  The CTUs are those of one row.   *)
(*                                                                         *)
(* The decoder is external (VTM, or any VVC decoder).  Whether it can      *)
(* parse a CTU body with the coding tree the CTU was quantised for is a    *)
(* property of the pictures (VvcStream, InterTreeInPSlices), not part of   *)
(* this decoder.                                                           *)
(***************************************************************************)
EXTENDS Integers, FiniteSets

CONSTANTS
    CtuCount,       \* vvc_picture_ctu_count
    PocModulus,     \* 2^VVC_POC_LSB_BITS
    NoFrame         \* no picture

PictureAssumption ==
    /\ CtuCount \in Nat \ {0}
    /\ PocModulus \in Nat \ {0, 1, 2}
ASSUME PictureAssumption

Ctu == 0..(CtuCount - 1)

-----------------------------------------------------------------------------
(* Coding tree units *)

\* "tree" is the partition the CTU was quantised with: the single tree of
\* inter slices or the dual tree of intra slices.
InterSkip == [mode |-> "skip", from |-> 0, residual |-> 0, tree |-> "inter"]
Intra(residual, tree) == [mode |-> "intra", from |-> 0, residual |-> residual, tree |-> tree]
ExplicitInter(from, residual) ==
    [mode |-> "inter", from |-> from, residual |-> residual, tree |-> "inter"]

IsInterCoded(payload) == payload.mode # "intra"

-----------------------------------------------------------------------------
(* Slices and pictures *)

NoHeader == -1

PocLsb(frameIndex) == frameIndex % PocModulus

PictureKind(frameIndex, predictive) ==
    IF frameIndex = 0 THEN "idr" ELSE IF predictive THEN "trail" ELSE "cra"

SliceType(kind, ctus, body) ==
    IF kind = "trail" /\ \E c \in ctus : IsInterCoded(body[c]) THEN "P" ELSE "I"

\* One slice with the picture header in its own header.
FrameSlicePicture(kind, poc, pps, body) ==
    [kind |-> kind, header |-> NoHeader,
     slices |-> {[ctus |-> Ctu, type |-> SliceType(kind, Ctu, body), header |-> poc,
                  pps |-> pps, body |-> body]}]

\* Mutant: every slice repeats the picture header.
MutCtuSlice(kind, poc, c, payload) ==
    LET body == [i \in {c} |-> payload]
    IN  [ctus |-> {c}, type |-> SliceType(kind, {c}, body), header |-> poc,
         pps |-> 0, body |-> body]

\* The slice of one CTU carries the picture header when it is the only one.
CtuSlice(kind, poc, c, payload) ==
    LET body == [i \in {c} |-> payload]
    IN  [ctus |-> {c}, type |-> SliceType(kind, {c}, body),
         header |-> IF CtuCount = 1 THEN poc ELSE NoHeader, pps |-> 0, body |-> body]

\* A picture header of its own, then one slice per CTU.
CtuSlicesPicture(kind, poc, slices) == [kind |-> kind, header |-> poc, slices |-> slices]

-----------------------------------------------------------------------------
(* The external decoder *)

\* "poc" is the picture order count of the last picture (-1: none), "sound"
\* FALSE once a picture could not be decoded.
EmptyDecoder(pps) == [pps |-> pps, poc |-> -1, picture |-> NoFrame, sound |-> TRUE]

\* The vector of an inter CTU, as a displacement.  Skip takes the only merge
\* candidate, the vector of the left neighbour in the slice, zero without one.
Vector(slice) ==
    LET v[c \in slice.ctus] ==
          IF slice.body[c].mode = "inter" THEN slice.body[c].from - c
          ELSE IF slice.body[c].mode = "skip" /\ c - 1 \in slice.ctus THEN v[c - 1]
          ELSE 0
    IN  v

\* Intra prediction takes the left neighbour of the slice, a neutral value (0)
\* without one; inter prediction the CTU of the reference the vector points to.
SliceSamples(slice, reference) ==
    LET sample[c \in slice.ctus] ==
          slice.body[c].residual +
          IF IsInterCoded(slice.body[c]) THEN reference[c + Vector(slice)[c]]
          ELSE IF c - 1 \in slice.ctus THEN sample[c - 1] ELSE 0
    IN  sample

SliceOf(picture, c) == CHOOSE s \in picture.slices : c \in s.ctus

Headers(picture) ==
    {s.header : s \in {t \in picture.slices : t.header # NoHeader}}

\* Exactly one picture header, in front of the slices or in the only slice,
\* parameter sets that were sent, and inter CTUs in P slices only.
WellFormed(d, picture) ==
    /\ IF picture.header = NoHeader THEN Cardinality(picture.slices) = 1 /\ Headers(picture) # {}
       ELSE Headers(picture) = {}
    /\ \A s \in picture.slices :
        /\ s.pps \in d.pps
        /\ \A c \in s.ctus : IsInterCoded(s.body[c]) =>
              /\ s.type = "P"
              /\ c + Vector(s)[c] \in Ctu

Poc(d, picture) ==
    LET lsb == IF picture.header # NoHeader THEN picture.header
               ELSE CHOOSE h \in Headers(picture) : TRUE
    IN  IF picture.kind = "idr" THEN lsb ELSE d.poc + ((lsb - d.poc) % PocModulus)

\* A P slice refers to the picture of the preceding order count
\* (abs_delta_poc_st = 0), which must be the one the decoder holds.
HasReference(d, picture) == d.picture # NoFrame /\ Poc(d, picture) = d.poc + 1

DecodePicture(d, picture) ==
    IF /\ d.sound
       /\ WellFormed(d, picture)
       /\ (\E s \in picture.slices : s.type = "P") => HasReference(d, picture)
    THEN [d EXCEPT !.poc = Poc(d, picture),
                   !.picture = [c \in Ctu |-> SliceSamples(SliceOf(picture, c), d.picture)[c]]]
    ELSE [d EXCEPT !.picture = NoFrame, !.sound = FALSE]
=============================================================================

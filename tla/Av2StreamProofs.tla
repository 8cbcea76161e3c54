--------------------------- MODULE Av2StreamProofs ---------------------------
(***************************************************************************)
(* The closed loop of the AV2 stream encoder, for every picture size, tile *)
(* layout, picture group and quantiser: the decoder's reference slot holds *)
(* the picture the encoder predicts from.                                  *)
(***************************************************************************)
EXTENDS Av2Stream, TLAPS

USE Av2Assumption, GopAssumption

CodedRecord ==
    [unit : Unit, recon : Frame, keyframe : BOOLEAN, headers : BOOLEAN,
     ref : MaybeFrame, refRecon : MaybeFrame]

\* What encode_frame_inner finds when it is entered.
EntryOK ==
    /\ headersWritten \in BOOLEAN
    /\ reference \in MaybeFrame
    /\ reconstruction \in MaybeFrame
    /\ frameIndex \in Nat

-----------------------------------------------------------------------------
(* Units and pictures *)

LEMMA SampleType == Sample \subseteq Int
BY DEF Sample, Av2Assumption

LEMMA HintType == frameIndex \in Nat => OrderHint \in Nat
BY DEF OrderHint, Av2Assumption

LEMMA EntryTypes == EntryOK => Reference \in MaybeFrame /\ Reconstruction \in MaybeFrame
BY DEF EntryOK, Reference, Reconstruction, MaybeFrame

LEMMA KeyUnitType ==
    ASSUME NEW recon \in Frame, NEW header \in Header, NEW hint \in Nat
    PROVE  KeyUnit(recon, header, hint) \in Unit
BY SampleType DEF KeyUnit, Unit, BlockMode, IntraBlock, Frame

LEMMA InterUnitType ==
    ASSUME frameIndex \in Nat, NEW body \in [Block -> BlockMode]
    PROVE  InterUnit(body) \in Unit
BY HintType DEF InterUnit, Unit, Header

LEMMA SefUnitType == frameIndex \in Nat => SefUnit \in Unit
BY HintType DEF SefUnit, Unit, BlockMode, CopyBlock, Header

\* A key picture decodes to its samples whatever the reference slot holds.
LEMMA PredictedKey ==
    ASSUME NEW recon \in Frame, NEW header, NEW hint, NEW slot
    PROVE  Predicted(KeyUnit(recon, header, hint), slot) = recon
<1>1. \A b \in Block : recon[b] \in Int
  BY SampleType DEF Frame
<1>2. \A b \in Block : /\ KeyUnit(recon, header, hint).body[b].residual = recon[b]
                       /\ KeyUnit(recon, header, hint).body[b].inter = FALSE
  BY DEF KeyUnit, IntraBlock
<1>3. Predicted(KeyUnit(recon, header, hint), slot) = [b \in Block |-> recon[b] + 0]
  BY <1>2 DEF Predicted
<1>4. [b \in Block |-> recon[b] + 0] = [b \in Block |-> recon[b]]
  BY <1>1
<1>5. QED
  BY <1>3, <1>4 DEF Frame

\* A show-existing unit decodes to the reference slot.
LEMMA PredictedSef ==
    ASSUME NEW slot \in Frame
    PROVE  Predicted(SefUnit, slot) = slot
<1>1. \A b \in Block : slot[b] \in Int
  BY SampleType DEF Frame
<1>2. \A b \in Block : /\ SefUnit.body[b].residual = 0
                       /\ SefUnit.body[b].inter = TRUE
                       /\ SefUnit.body[b].from = b
  BY DEF SefUnit, CopyBlock
<1>3. Predicted(SefUnit, slot) = [b \in Block |-> 0 + slot[b]]
  BY <1>2 DEF Predicted
<1>4. [b \in Block |-> 0 + slot[b]] = [b \in Block |-> slot[b]]
  BY <1>1
<1>5. QED
  BY <1>3, <1>4 DEF Frame

-----------------------------------------------------------------------------
(* Inter pictures *)

\* Whatever motion the search finds and however the unmatched blocks of a
\* tile are coded, a lossless inter picture decodes to the source.
LEMMA LosslessBodies ==
    ASSUME EntryOK, NEW frame \in Frame, Reference # NoFrame,
           NEW body \in LosslessInterBodies(frame)
    PROVE  /\ body \in [Block -> BlockMode]
           /\ Predicted(InterUnit(body), Reference) = frame
<1>1. Reference \in Frame
  BY EntryTypes DEF MaybeFrame
<1>2. PICK m \in MotionMaps(frame), residualTiles \in SUBSET Tile :
          body = [b \in Block |-> LosslessBlock(b, frame, m, residualTiles)]
  BY DEF LosslessInterBodies, ChangedTiles
<1>3. \A b \in Block : /\ frame[b] \in Int /\ Reference[b] \in Int
                       /\ m[b] # NoMatch => m[b] \in Block /\ Reference[m[b]] = frame[b]
  <2>1. \A b \in Block : frame[b] \in Int /\ Reference[b] \in Int
    BY <1>1, SampleType DEF Frame
  <2>2. \A b \in Block : m[b] # NoMatch => m[b] \in Block /\ Reference[m[b]] = frame[b]
    BY DEF MotionMaps
  <2>3. QED
    BY <2>1, <2>2
<1>4. \A b \in Block :
        /\ LosslessBlock(b, frame, m, residualTiles) \in BlockMode
        /\ LosslessBlock(b, frame, m, residualTiles).residual +
           (IF LosslessBlock(b, frame, m, residualTiles).inter
            THEN Reference[LosslessBlock(b, frame, m, residualTiles).from] ELSE 0) = frame[b]
  <2> SUFFICES ASSUME NEW b \in Block,
                      NEW mode, mode = LosslessBlock(b, frame, m, residualTiles)
               PROVE  /\ mode \in BlockMode
                      /\ mode.residual + (IF mode.inter THEN Reference[mode.from] ELSE 0)
                            = frame[b]
    OBVIOUS
  <2>1. CASE Unchanged(TileOf[b], frame)
    <3>1. b \in BlocksOf(TileOf[b])
      BY DEF BlocksOf
    <3>2. frame[b] = Reference[b]
      BY <2>1, <3>1 DEF Unchanged
    <3>3. mode = CopyBlock(b)
      BY <2>1 DEF LosslessBlock
    <3>4. QED
      BY <1>3, <3>2, <3>3 DEF CopyBlock, BlockMode
  <2>2. CASE ~Unchanged(TileOf[b], frame) /\ m[b] # NoMatch
    <3>1. mode = CopyBlock(m[b])
      BY <2>2 DEF LosslessBlock
    <3>2. QED
      BY <1>3, <2>2, <3>1 DEF CopyBlock, BlockMode
  <2>3. CASE mode = ResidualBlock(b, frame[b] - Reference[b])
    BY <1>3, <2>3 DEF ResidualBlock, BlockMode
  <2>4. CASE mode = IntraBlock(b, frame[b])
    BY <1>3, <2>4 DEF IntraBlock, BlockMode
  <2>5. QED
    BY <2>1, <2>2, <2>3, <2>4 DEF LosslessBlock
<1>5. body \in [Block -> BlockMode]
  BY <1>2, <1>4
<1>6. Predicted(InterUnit(body), Reference) = [b \in Block |-> frame[b]]
  BY <1>2, <1>4 DEF Predicted, InterUnit
<1>7. QED
  BY <1>5, <1>6 DEF Frame

\* A lossy inter picture decodes to a picture within the quantiser's reach of
\* the source, or to the reference reconstruction where the tile is unchanged.
LEMMA LossyBodies ==
    ASSUME EntryOK, NEW frame \in Frame, Reconstruction # NoFrame,
           NEW body \in LossyInterBodies(frame)
    PROVE  /\ body \in [Block -> BlockMode]
           /\ Predicted(InterUnit(body), Reconstruction) \in Frame
           /\ \E near \in Near(frame) : \A b \in Block :
                Predicted(InterUnit(body), Reconstruction)[b] =
                    IF Unchanged(TileOf[b], frame) THEN Reconstruction[b] ELSE near[b]
<1>1. Reconstruction \in Frame
  BY EntryTypes DEF MaybeFrame
<1>2. PICK m \in MotionMaps(frame), near \in Near(frame) :
          body = [b \in Block |-> LossyBlock(b, frame, m, near)]
  BY DEF LossyInterBodies
<1>3. near \in Frame
  BY DEF Near
<1>4. \A b \in Block : LossyFrom(b, m) \in Block
  BY DEF LossyFrom, MotionMaps
<1> DEFINE picture == [b \in Block |-> IF Unchanged(TileOf[b], frame)
                                      THEN Reconstruction[b] ELSE near[b]]
<1>5. \A b \in Block :
        /\ LossyBlock(b, frame, m, near) \in BlockMode
        /\ LossyBlock(b, frame, m, near).residual +
           (IF LossyBlock(b, frame, m, near).inter
            THEN Reconstruction[LossyBlock(b, frame, m, near).from] ELSE 0) = picture[b]
  <2> SUFFICES ASSUME NEW b \in Block, NEW mode, mode = LossyBlock(b, frame, m, near)
               PROVE  /\ mode \in BlockMode
                      /\ mode.residual + (IF mode.inter THEN Reconstruction[mode.from] ELSE 0)
                            = picture[b]
    OBVIOUS
  <2>1. near[b] \in Int /\ Reconstruction[b] \in Int
        /\ Reconstruction[LossyFrom(b, m)] \in Int
    BY <1>1, <1>3, <1>4, SampleType DEF Frame
  <2>2. CASE Unchanged(TileOf[b], frame)
    <3>1. mode = CopyBlock(b)
      BY <2>2 DEF LossyBlock
    <3>2. QED
      BY <2>1, <2>2, <3>1 DEF CopyBlock, BlockMode
  <2>3. CASE ~Unchanged(TileOf[b], frame)
    <3>1. mode = ResidualBlock(LossyFrom(b, m), near[b] - Reconstruction[LossyFrom(b, m)])
      BY <2>3 DEF LossyBlock
    <3>2. QED
      BY <1>4, <2>1, <2>3, <3>1 DEF ResidualBlock, BlockMode
  <2>4. QED
    BY <2>2, <2>3
<1>6. body \in [Block -> BlockMode]
  BY <1>2, <1>5
<1>7. Predicted(InterUnit(body), Reconstruction) = picture
  BY <1>2, <1>5 DEF Predicted, InterUnit
<1>8. picture \in Frame
  BY <1>1, <1>3 DEF Frame
<1>9. QED
  BY <1>6, <1>7, <1>8

-----------------------------------------------------------------------------
(* Codings *)

\* The reference state agrees with the decoder between two calls.
Sync ==
    /\ decoder.sound
    /\ EncoderPicture # NoFrame => headersWritten /\ decoder.slot = EncoderPicture
    /\ IsPredictive /\ headersWritten => decoder.seq = "predictive"
    /\ ~IsPredictive => reference = NoFrame /\ reconstruction = NoFrame
    /\ Coding = "lossy" /\ reconstruction # NoFrame =>
            reference # NoFrame /\ reconstruction \in Near(reference)
    /\ Delivered => decoder.shown = call.recon

\* As long as decoder d can decode, decoder s is in the same state.
Follows(d, s) ==
    d.sound => /\ s.sound
               /\ s.seq = d.seq
               /\ s.slot = d.slot
               /\ s.shown = d.shown

\* The inductive invariant: types, agreement while the stream is active, no
\* picture held after it, and that what was delivered stands for its source.
IInv ==
    /\ TypeOK
    /\ status = "Active" => Sync
    /\ Delivered => status = "Active"
    /\ status # "Active" => reference = NoFrame /\ reconstruction = NoFrame
    /\ ShownIsSource
    /\ UnitsMatchFrames
    /\ Follows(decoder, seeker)

EntryPicture == IF Coding = "lossless" THEN Reference ELSE Reconstruction

\* What every branch of encode_frame_inner guarantees of its unit.
CodingOK(frame, c) ==
    /\ c \in CodedRecord
    /\ c.unit.kind # "key" =>
          /\ IsPredictive
          /\ c.unit.header = "none"
          /\ EntryPicture # NoFrame
          /\ Predicted(c.unit, EntryPicture) = c.recon
    /\ c.keyframe => c.unit.kind = "key"
    /\ c.unit.kind = "key" =>
          /\ c.unit.header = IF IsPredictive THEN SequenceHeader ELSE "single"
          /\ \A slot : Predicted(c.unit, slot) = c.recon
    /\ IsPredictive => c.headers /\ (IF Coding = "lossless" THEN c.ref ELSE c.refRecon) = c.recon
    /\ ~IsPredictive => c.ref = NoFrame /\ c.refRecon = NoFrame
    /\ IF Coding = "lossy"
       THEN c.recon \in Near(frame) /\ (IsPredictive => c.ref = frame)
       ELSE c.recon = frame

LEMMA NearIsFrame == \A frame : Near(frame) \subseteq Frame
BY DEF Near

LEMMA SequenceHeaderType == SequenceHeader \in Header
BY DEF SequenceHeader, Header

LEMMA IntraOnlyCodingOK ==
    ASSUME EntryOK, ~IsPredictive, NEW frame \in Frame,
           NEW recon \in Frame,
           IF Coding = "lossy" THEN recon \in Near(frame) ELSE recon = frame,
           NEW c \in IntraOnlyCodings({recon})
    PROVE  CodingOK(frame, c)
<1>1. Reference = NoFrame /\ Reconstruction = NoFrame
  BY DEF IsPredictive, Reference, Reconstruction, ResetsReferencesBefore, IsIntraFrame
<1>2. c = Coded(KeyUnit(recon, "single", 0), recon, TRUE, headersWritten, NoFrame, NoFrame)
  BY <1>1 DEF IntraOnlyCodings
<1>3. KeyUnit(recon, "single", 0) \in Unit
  BY KeyUnitType DEF Header
<1>4. c \in CodedRecord
  BY <1>2, <1>3 DEF Coded, CodedRecord, EntryOK, MaybeFrame
<1>5. c.unit.kind = "key" /\ c.unit.header = "single" /\ \A slot : Predicted(c.unit, slot) = c.recon
  BY <1>2, PredictedKey DEF Coded, KeyUnit
<1>6. QED
  BY <1>2, <1>4, <1>5 DEF CodingOK, Coded

LEMMA PredictiveKeyOK ==
    ASSUME EntryOK, IsPredictive, NEW frame \in Frame, NEW recon \in Frame,
           NEW refRecon \in MaybeFrame,
           IF Coding = "lossy" THEN recon \in Near(frame) ELSE recon = frame,
           IF Coding = "lossless" THEN TRUE ELSE refRecon = recon,
           NEW c,
           c = Coded(KeyUnit(recon, SequenceHeader, OrderHint), recon, TRUE, TRUE,
                     frame, refRecon)
    PROVE  CodingOK(frame, c)
<1>1. KeyUnit(recon, SequenceHeader, OrderHint) \in Unit
  BY KeyUnitType, SequenceHeaderType, HintType DEF EntryOK
<1>2. c \in CodedRecord
  BY <1>1 DEF Coded, CodedRecord, MaybeFrame
<1>3. c.unit.kind = "key" /\ c.unit.header = SequenceHeader /\ \A slot : Predicted(c.unit, slot) = c.recon
  BY PredictedKey DEF Coded, KeyUnit
<1>4. QED
  BY <1>2, <1>3 DEF CodingOK, Coded, Av2Assumption

LEMMA LosslessCodingOK ==
    ASSUME EntryOK, Sync, Coding = "lossless", IsPredictive,
           NEW frame \in Frame, NEW c \in LosslessCodings(frame)
    PROVE  CodingOK(frame, c)
<1>1. Reference \in MaybeFrame /\ Reconstruction \in MaybeFrame
  BY EntryTypes
<1>2. Reference # NoFrame => headersWritten
  BY DEF Reference, Sync, EncoderPicture
<1>3. CASE Reference = frame /\ c = LosslessSef(frame)
  <2>1. SefUnit \in Unit
    BY SefUnitType DEF EntryOK
  <2>2. frame # NoFrame
    BY DEF Av2Assumption
  <2>3. c \in CodedRecord
    BY <1>1, <1>3, <2>1 DEF LosslessSef, Coded, CodedRecord, EntryOK
  <2>4. Predicted(c.unit, EntryPicture) = c.recon
    BY <1>3, PredictedSef DEF LosslessSef, Coded, EntryPicture
  <2>5. c.unit.kind = "sef" /\ c.unit.header = "none"
    BY <1>3 DEF LosslessSef, Coded, SefUnit
  <2>6. QED
    BY <1>2, <1>3, <2>2, <2>3, <2>4, <2>5 DEF CodingOK, LosslessSef, Coded, EntryPicture
<1>4. ASSUME Reference # NoFrame, NEW body \in LosslessInterBodies(frame),
             c = LosslessInter(frame, body)
      PROVE  CodingOK(frame, c)
  <2>1. body \in [Block -> BlockMode] /\ Predicted(InterUnit(body), Reference) = frame
    BY <1>4, LosslessBodies
  <2>2. InterUnit(body) \in Unit
    BY <2>1, InterUnitType DEF EntryOK
  <2>3. c \in CodedRecord
    BY <1>1, <1>4, <2>2 DEF LosslessInter, Coded, CodedRecord, EntryOK, MaybeFrame
  <2>4. c.unit.kind = "inter" /\ c.unit.header = "none"
    BY <1>4 DEF LosslessInter, Coded, InterUnit
  <2>5. QED
    BY <1>2, <1>4, <2>1, <2>3, <2>4 DEF CodingOK, LosslessInter, Coded, EntryPicture
<1>5. CASE c = LosslessKey(frame)
  BY <1>1, <1>5, PredictiveKeyOK DEF LosslessKey
<1>6. QED
  BY <1>3, <1>4, <1>5 DEF LosslessCodings

LEMMA LossyCodingOK ==
    ASSUME EntryOK, Sync, Coding = "lossy", IsPredictive,
           NEW frame \in Frame, NEW c \in LossyCodings(frame)
    PROVE  CodingOK(frame, c)
<1>1. Reference \in MaybeFrame /\ Reconstruction \in MaybeFrame
  BY EntryTypes
<1>2. Reconstruction # NoFrame => Reconstruction \in Near(Reference)
  BY DEF Reference, Reconstruction, Sync
<1>3. CASE Reference = frame /\ Reconstruction # NoFrame /\ c = LossySef(frame)
  <2>1. SefUnit \in Unit
    BY SefUnitType DEF EntryOK
  <2>2. Reconstruction \in Frame
    BY <1>1, <1>3 DEF MaybeFrame
  <2>3. c \in CodedRecord
    BY <1>3, <2>1, <2>2 DEF LossySef, Coded, CodedRecord, EntryOK, MaybeFrame
  <2>4. Predicted(c.unit, EntryPicture) = c.recon
    BY <1>3, <2>2, PredictedSef DEF LossySef, Coded, EntryPicture
  <2>5. c.unit.kind = "sef" /\ c.unit.header = "none"
    BY <1>3 DEF LossySef, Coded, SefUnit
  <2>6. QED
    BY <1>2, <1>3, <2>3, <2>4, <2>5 DEF CodingOK, LossySef, Coded, EntryPicture
<1>4. ASSUME Reconstruction # NoFrame, Reference # NoFrame,
             NEW body \in LossyInterBodies(frame), c = LossyInter(frame, body)
      PROVE  CodingOK(frame, c)
  <2> DEFINE r == Predicted(InterUnit(body), Reconstruction)
  <2>1. body \in [Block -> BlockMode] /\ r \in Frame
    BY <1>4, LossyBodies
  <2>2. InterUnit(body) \in Unit
    BY <2>1, InterUnitType DEF EntryOK
  <2>3. c = Coded(InterUnit(body), r, FALSE, TRUE, frame, r)
    BY <1>4 DEF LossyInter
  <2>4. r \in Near(frame)
    <3>1. PICK near \in Near(frame) : \A b \in Block :
              r[b] = IF Unchanged(TileOf[b], frame) THEN Reconstruction[b] ELSE near[b]
      BY <1>4, LossyBodies
    <3>2. \A b \in Block : r[b] - frame[b] <= Tolerance /\ frame[b] - r[b] <= Tolerance
      <4> SUFFICES ASSUME NEW b \in Block
                   PROVE  r[b] - frame[b] <= Tolerance /\ frame[b] - r[b] <= Tolerance
        OBVIOUS
      <4>1. CASE Unchanged(TileOf[b], frame)
        <5>1. frame[b] = Reference[b]
          BY <4>1 DEF Unchanged, BlocksOf
        <5>2. QED
          BY <1>2, <1>4, <3>1, <4>1, <5>1 DEF Near
      <4>2. CASE ~Unchanged(TileOf[b], frame)
        BY <3>1, <4>2 DEF Near
      <4>3. QED
        BY <4>1, <4>2
    <3>3. QED
      BY <2>1, <3>2 DEF Near
  <2>5. c \in CodedRecord
    BY <2>1, <2>2, <2>3 DEF Coded, CodedRecord, MaybeFrame
  <2>6. c.unit.kind = "inter" /\ c.unit.header = "none"
    BY <2>3 DEF Coded, InterUnit
  <2>7. QED
    BY <1>4, <2>3, <2>4, <2>5, <2>6 DEF CodingOK, Coded, EntryPicture
<1>5. ASSUME NEW r \in Near(frame), c = LossyKey(frame, r)
      PROVE  CodingOK(frame, c)
  <2>1. r \in Frame
    BY NearIsFrame
  <2>2. QED
    BY <1>5, <2>1, PredictiveKeyOK DEF LossyKey, MaybeFrame
<1>6. QED
  BY <1>3, <1>4, <1>5 DEF LossyCodings

\* Every coding that encode_frame_inner can choose keeps the closed loop.
LEMMA CodingsOK ==
    ASSUME EntryOK, Sync, NEW frame \in Frame, NEW c \in Codings(frame)
    PROVE  CodingOK(frame, c)
<1>1. CASE Coding = "lossless" /\ IsPredictive
  BY <1>1, LosslessCodingOK DEF Codings
<1>2. CASE Coding = "lossy" /\ IsPredictive
  BY <1>2, LossyCodingOK DEF Codings
<1>3. CASE ~IsPredictive
  <2>1. PICK recon \in Frame :
          /\ IF Coding = "lossy" THEN recon \in Near(frame) ELSE recon = frame
          /\ c \in IntraOnlyCodings({recon})
    BY <1>3, NearIsFrame DEF Codings, IntraOnlyCodings, Av2Assumption
  <2>2. QED
    BY <1>3, <2>1, IntraOnlyCodingOK
<1>4. QED
  BY <1>1, <1>2, <1>3 DEF Av2Assumption, IsPredictive

-----------------------------------------------------------------------------
(* The decoder *)

\* What the decoders need of a unit for their state to stay well formed.
WellFormed(unit) ==
    /\ unit \in Unit
    /\ unit.kind = "key" => \A slot : Predicted(unit, slot) \in Frame

LEMMA FramesAreInts == Frame \subseteq [Block -> Int]
BY SampleType DEF Frame

LEMMA CodingWellFormed ==
    ASSUME NEW frame, NEW c, CodingOK(frame, c)
    PROVE  WellFormed(c.unit)
BY DEF CodingOK, WellFormed, CodedRecord

LEMMA PredictedType ==
    ASSUME NEW unit \in Unit, NEW slot \in [Block -> Int]
    PROVE  Predicted(unit, slot) \in [Block -> Int]
<1>1. \A b \in Block : /\ unit.body[b].residual \in Int
                       /\ unit.body[b].inter \in BOOLEAN
                       /\ slot[unit.body[b].from] \in Int
  BY DEF Unit, BlockMode
<1>2. QED
  BY <1>1 DEF Predicted

LEMMA DecodeType ==
    ASSUME NEW d \in DecoderState, NEW unit, WellFormed(unit)
    PROVE  Decode(d, unit) \in DecoderState
<1> DEFINE seq == IF unit.header = "none" THEN d.seq ELSE unit.header
           decodable == /\ d.sound
                        /\ seq # "none"
                        /\ unit.kind # "key" => seq = "predictive" /\ d.slot # NoFrame
           picture == IF decodable THEN Predicted(unit, d.slot) ELSE NoFrame
           skipped == IF seq = "predictive" THEN (unit.hint - d.next) % HintModulus ELSE 0
<1>1. seq \in Header
  BY DEF WellFormed, Unit, DecoderState, Header
<1>2. picture \in [Block -> Int] \cup {NoFrame}
  <2>1. CASE decodable /\ unit.kind = "key"
    BY <2>1, FramesAreInts DEF WellFormed
  <2>2. CASE decodable /\ unit.kind # "key"
    <3>1. d.slot \in [Block -> Int]
      BY <2>2 DEF DecoderState
    <3>2. QED
      BY <2>2, <3>1, PredictedType DEF WellFormed
  <2>3. QED
    BY <2>1, <2>2
<1>3. d.next + skipped + 1 \in Nat
  <2>1. unit.hint - d.next \in Int /\ d.next \in Nat
    BY DEF WellFormed, Unit, DecoderState
  <2>2. skipped \in Nat
    BY <2>1 DEF Av2Assumption
  <2>3. QED
    BY <2>1, <2>2
<1>4. decodable \in BOOLEAN
  BY DEF DecoderState
<1>5. Decode(d, unit) = [seq |-> seq, slot |-> picture, shown |-> picture,
                         next |-> d.next + skipped + 1, sound |-> decodable]
  BY DEF Decode
<1> HIDE DEF seq, picture, skipped, decodable
<1>6. QED
  BY <1>1, <1>2, <1>3, <1>4, <1>5 DEF DecoderState

\* A decoder in step with the encoder decodes the next unit to the
\* reconstruction and is in step again.
LEMMA DecodeCoded ==
    ASSUME EntryOK, Sync, decoder \in DecoderState,
           NEW frame \in Frame, NEW c, CodingOK(frame, c)
    PROVE  /\ Decode(decoder, c.unit).sound
           /\ Decode(decoder, c.unit).slot = c.recon
           /\ Decode(decoder, c.unit).shown = c.recon
           /\ IsPredictive => Decode(decoder, c.unit).seq = "predictive"
<1> DEFINE seq == IF c.unit.header = "none" THEN decoder.seq ELSE c.unit.header
<1>1. seq # "none" /\ (IsPredictive => seq = "predictive")
  <2>1. CASE c.unit.kind = "key"
    BY <2>1 DEF CodingOK, Sync, SequenceHeader
  <2>2. CASE c.unit.kind # "key"
    <3>1. EncoderPicture # NoFrame
      BY <2>2 DEF CodingOK, EntryPicture, EncoderPicture, Reference, Reconstruction
    <3>2. QED
      BY <2>2, <3>1 DEF CodingOK, Sync
  <2>3. QED
    BY <2>1, <2>2
<1>2. decoder.sound /\ (c.unit.kind # "key" => seq = "predictive" /\ decoder.slot # NoFrame)
      /\ Predicted(c.unit, decoder.slot) = c.recon
  <2>1. CASE c.unit.kind = "key"
    BY <2>1 DEF CodingOK, Sync
  <2>2. CASE c.unit.kind # "key"
    <3>1. EncoderPicture # NoFrame /\ EntryPicture = EncoderPicture
      BY <2>2 DEF CodingOK, EntryPicture, EncoderPicture, Reference, Reconstruction
    <3>2. QED
      BY <1>1, <2>2, <3>1 DEF CodingOK, Sync
  <2>3. QED
    BY <2>1, <2>2
<1>3. QED
  BY <1>1, <1>2 DEF Decode

\* Forgetting the reference at a keyframe chunk makes no difference.
LEMMA SeekFollows ==
    ASSUME NEW d \in DecoderState, NEW s \in DecoderState, Follows(d, s),
           NEW frame, NEW c, CodingOK(frame, c)
    PROVE  Follows(Decode(d, c.unit), Decode(Seek(s, c.keyframe), c.unit))
<1> DEFINE t == Seek(s, c.keyframe)
           seq(x) == IF c.unit.header = "none" THEN x.seq ELSE c.unit.header
           decodable(x) == /\ x.sound
                           /\ seq(x) # "none"
                           /\ c.unit.kind # "key" => seq(x) = "predictive" /\ x.slot # NoFrame
<1>1. \A x : /\ Decode(x, c.unit).sound = decodable(x)
             /\ Decode(x, c.unit).seq = seq(x)
             /\ Decode(x, c.unit).shown = Decode(x, c.unit).slot
             /\ Decode(x, c.unit).slot =
                   IF decodable(x) THEN Predicted(c.unit, x.slot) ELSE NoFrame
  BY DEF Decode
<1>2. t.sound = s.sound /\ seq(t) = seq(s) /\ (c.unit.kind # "key" => t.slot = s.slot)
  <2>1. CASE c.keyframe
    <3>1. t = [s EXCEPT !.slot = NoFrame, !.seq = IF IsPredictive THEN @ ELSE "none"]
      BY <2>1 DEF Seek
    <3>2. t.sound = s.sound /\ (IsPredictive => t.seq = s.seq)
      BY <3>1 DEF DecoderState
    <3>3. c.unit.kind = "key" /\ (~IsPredictive => c.unit.header = "single")
      BY <2>1 DEF CodingOK
    <3>4. QED
      BY <3>2, <3>3
  <2>2. CASE ~c.keyframe
    BY <2>2 DEF Seek
  <2>3. QED
    BY <2>1, <2>2
<1>3. ASSUME Decode(d, c.unit).sound
      PROVE  /\ Decode(t, c.unit).sound
             /\ Decode(t, c.unit).seq = Decode(d, c.unit).seq
             /\ Decode(t, c.unit).slot = Decode(d, c.unit).slot
  <2>1. decodable(d) /\ d.sound
    BY <1>1, <1>3
  <2>2. s.sound /\ s.seq = d.seq /\ s.slot = d.slot
    BY <2>1 DEF Follows
  <2>3. seq(t) = seq(d) /\ decodable(t)
    BY <1>2, <2>1, <2>2
  <2>4. Predicted(c.unit, t.slot) = Predicted(c.unit, d.slot)
    <3>1. CASE c.unit.kind = "key"
      BY <3>1 DEF CodingOK
    <3>2. CASE c.unit.kind # "key"
      BY <1>2, <2>2, <3>2
    <3>3. QED
      BY <3>1, <3>2
  <2> HIDE DEF t, seq, decodable
  <2>5. Decode(t, c.unit).sound /\ Decode(t, c.unit).seq = Decode(d, c.unit).seq
    BY <1>1, <2>3
  <2>6. Decode(t, c.unit).slot = Decode(d, c.unit).slot
    <3>1. Decode(t, c.unit).slot = Predicted(c.unit, t.slot)
      BY <1>1, <2>3
    <3>2. Decode(d, c.unit).slot = Predicted(c.unit, d.slot)
      BY <1>1, <2>1
    <3>3. QED
      BY <2>4, <3>1, <3>2
  <2>7. QED
    BY <2>5, <2>6
<1>4. QED
  BY <1>1, <1>3 DEF Follows

-----------------------------------------------------------------------------
(* Invariance *)

\* The steps that leave the coding state, or end the stream, keep the types.
LEMMA FailedCallType ==
    ASSUME NEW frame \in MaybeFrame
    PROVE  FailedCall(frame) \in CallRecord /\ ~FailedCall(frame).ok
BY DEF FailedCall, CallRecord, MaybeFrame

LEMMA IInvEntry == IInv => EntryOK
BY DEF IInv, TypeOK, EntryOK

LEMMA SeekType ==
    ASSUME NEW d \in DecoderState, NEW keyframe \in BOOLEAN
    PROVE  Seek(d, keyframe) \in DecoderState
BY DEF Seek, DecoderState, Header

LEMMA TornType ==
    ASSUME NEW d \in DecoderState
    PROVE  Torn(d) \in DecoderState
BY DEF Torn, DecoderState

LEMMA InitIInv == StreamInit => IInv
<1> SUFFICES ASSUME StreamInit PROVE IInv
  OBVIOUS
<1>1. TypeOK
  BY DEF StreamInit, TypeOK, NoCall, EmptyDecoder, CallRecord, DecoderState, MaybeFrame, Header
<1>2. ~Delivered
  BY DEF StreamInit, Delivered, NoCall
<1>3. Sync
  BY <1>2 DEF StreamInit, Sync, EncoderPicture, EmptyDecoder
<1>4. status = "Active" /\ unitsWritten = frameIndex /\ Follows(decoder, seeker)
  BY DEF StreamInit, Follows
<1>5. QED
  BY <1>1, <1>2, <1>3, <1>4 DEF IInv, ShownIsSource, UnitsMatchFrames

LEMMA EncodeFrameIInv ==
    ASSUME IInv, NEW frame \in Frame, EncodeFrame(frame)
    PROVE  IInv'
<1>1. EntryOK /\ Sync /\ decoder \in DecoderState /\ seeker \in DecoderState
      /\ unitsWritten \in Nat /\ frameIndex \in Nat /\ status = "Active"
  BY IInvEntry DEF IInv, TypeOK, EncodeFrame, DeliverUnit
<1>2. PICK c \in Codings(frame) :
        /\ headersWritten' = c.headers
        /\ reference' = c.ref
        /\ reconstruction' = c.refRecon
        /\ call' = [op |-> "encode", ok |-> TRUE, source |-> frame, recon |-> c.recon,
                    keyframe |-> c.keyframe, kind |-> c.unit.kind]
        /\ decoder' = Decode(decoder, c.unit)
        /\ seeker' = Decode(Seek(seeker, c.keyframe), c.unit)
  BY DEF EncodeFrame, DeliverUnit
<1>3. CodingOK(frame, c)
  BY <1>1, CodingsOK
<1>4. c \in CodedRecord /\ WellFormed(c.unit)
  BY <1>3, CodingWellFormed DEF CodingOK
<1>5. /\ decoder'.sound
      /\ decoder'.slot = c.recon
      /\ decoder'.shown = c.recon
      /\ IsPredictive => decoder'.seq = "predictive"
  BY <1>1, <1>2, <1>3, DecodeCoded
<1>6. TypeOK'
  <2>1. decoder' \in DecoderState
    BY <1>1, <1>2, <1>4, DecodeType
  <2>2. Seek(seeker, c.keyframe) \in DecoderState
    BY <1>1, <1>4, SeekType DEF CodedRecord
  <2>3. seeker' \in DecoderState
    BY <1>2, <1>4, <2>2, DecodeType
  <2>4. call' \in CallRecord
    BY <1>2, <1>4 DEF CallRecord, CodedRecord, MaybeFrame, Unit
  <2>5. status' = "Active" /\ frameIndex' \in Nat /\ unitsWritten' \in Nat
    BY <1>1 DEF EncodeFrame, DeliverUnit
  <2>6. headersWritten' \in BOOLEAN /\ reference' \in MaybeFrame /\ reconstruction' \in MaybeFrame
    BY <1>2, <1>4 DEF CodedRecord
  <2>7. QED
    BY <2>1, <2>3, <2>4, <2>5, <2>6 DEF TypeOK
<1>7. Delivered' /\ status' = "Active"
  BY <1>1, <1>2 DEF Delivered, EncodeFrame, DeliverUnit
<1>8. Sync'
  <2>1. EncoderPicture' # NoFrame => headersWritten' /\ decoder'.slot = EncoderPicture'
    BY <1>2, <1>3, <1>5 DEF EncoderPicture, CodingOK
  <2>2. ~IsPredictive => reference' = NoFrame /\ reconstruction' = NoFrame
    BY <1>2, <1>3 DEF CodingOK
  <2>3. Coding = "lossy" /\ reconstruction' # NoFrame =>
            reference' # NoFrame /\ reconstruction' \in Near(reference')
    <3>1. frame # NoFrame
      BY DEF Av2Assumption
    <3>2. QED
      BY <1>2, <1>3, <3>1 DEF CodingOK
  <2>4. decoder'.shown = call'.recon
    BY <1>2, <1>5
  <2>5. Sync' = (/\ decoder'.sound
                 /\ EncoderPicture' # NoFrame =>
                        headersWritten' /\ decoder'.slot = EncoderPicture'
                 /\ IsPredictive /\ headersWritten' => decoder'.seq = "predictive"
                 /\ ~IsPredictive => reference' = NoFrame /\ reconstruction' = NoFrame
                 /\ Coding = "lossy" /\ reconstruction' # NoFrame =>
                        reference' # NoFrame /\ reconstruction' \in Near(reference')
                 /\ Delivered' => decoder'.shown = call'.recon)
    BY DEF Sync, IsPredictive, Near, Frame, Sample
  <2>6. QED
    BY <1>5, <2>1, <2>2, <2>3, <2>4, <2>5
<1>9. ShownIsSource'
  BY <1>2, <1>3, <1>5 DEF ShownIsSource, CodingOK, Near, Frame, Sample
<1>10. UnitsMatchFrames'
  BY <1>1 DEF IInv, UnitsMatchFrames, EncodeFrame, DeliverUnit
<1>11. Follows(decoder', seeker')
  BY <1>1, <1>2, <1>3, SeekFollows DEF IInv
<1>12. QED
  BY <1>6, <1>7, <1>8, <1>9, <1>10, <1>11 DEF IInv, Follows

\* A step after which the stream is not active and nothing was delivered only
\* has to keep the types.
LEMMA EndedIInv ==
    ASSUME TypeOK', status' # "Active", ~Delivered',
           reference' = NoFrame, reconstruction' = NoFrame, UnitsMatchFrames',
           Follows(decoder', seeker')
    PROVE  IInv'
BY DEF IInv, ShownIsSource, Follows

LEMMA FailType ==
    ASSUME Fail
    PROVE  /\ status' = "Failed"
           /\ reference' \in MaybeFrame
           /\ reconstruction' \in MaybeFrame
BY DEF Fail, MaybeFrame

LEMMA FailingIInv ==
    ASSUME IInv, NEW frame \in Frame,
           BitstreamWriteFails(frame) \/ LaterWriteFails(frame) \/ OutputDropped(frame)
           \/ ModeDecisionFails(frame)
    PROVE  IInv'
<1>1. EntryOK /\ decoder \in DecoderState /\ seeker \in DecoderState
      /\ unitsWritten \in Nat /\ frameIndex \in Nat /\ headersWritten \in BOOLEAN
  BY IInvEntry DEF IInv, TypeOK
<1>2. Sync
  BY DEF IInv, BitstreamWriteFails, TearUnit, LaterWriteFails, LoseUnit,
     OutputDropped, DropUnit, ModeDecisionFails
<1>3. Fail /\ call' = FailedCall(frame) /\ frameIndex' \in Nat /\ unitsWritten' \in Nat
  BY <1>1 DEF BitstreamWriteFails, TearUnit, LaterWriteFails, LoseUnit,
     OutputDropped, DropUnit, ModeDecisionFails
<1>4. ~Delivered' /\ call' \in CallRecord
  BY <1>3, FailedCallType DEF Delivered, MaybeFrame
<1>5. headersWritten' \in BOOLEAN /\ decoder' \in DecoderState /\ seeker' \in DecoderState
  <2>1. CASE BitstreamWriteFails(frame)
    <3>1. headersWritten' \in BOOLEAN
      BY <1>1, <1>2, <2>1, CodingsOK DEF BitstreamWriteFails, TearUnit, CodingOK, CodedRecord
    <3>2. QED
      BY <1>1, <2>1, <3>1, TornType DEF BitstreamWriteFails, TearUnit
  <2>2. CASE LaterWriteFails(frame)
    <3>1. PICK c \in Codings(frame) :
            /\ headersWritten' = c.headers
            /\ decoder' = Decode(decoder, c.unit)
            /\ seeker' = Decode(Seek(seeker, c.keyframe), c.unit)
      BY <2>2 DEF LaterWriteFails, LoseUnit
    <3>2. c \in CodedRecord /\ WellFormed(c.unit)
      BY <1>1, <1>2, CodingsOK, CodingWellFormed DEF CodingOK
    <3>3. headersWritten' \in BOOLEAN /\ Seek(seeker, c.keyframe) \in DecoderState
      BY <1>1, <3>1, <3>2, SeekType DEF CodedRecord
    <3>4. QED
      BY <1>1, <3>1, <3>2, <3>3, DecodeType
  <2>3. CASE ModeDecisionFails(frame)
    BY <1>1, <2>3 DEF ModeDecisionFails
  <2>4. CASE OutputDropped(frame)
    BY <1>1, <1>2, <2>4, CodingsOK DEF OutputDropped, DropUnit, CodingOK, CodedRecord
  <2>5. QED
    BY <2>1, <2>2, <2>3, <2>4
<1>6. TypeOK'
  BY <1>3, <1>4, <1>5, FailType DEF TypeOK
<1>7. reference' = NoFrame /\ reconstruction' = NoFrame /\ UnitsMatchFrames'
  BY <1>3, FailType DEF Fail, UnitsMatchFrames
<1>8. Follows(decoder', seeker')
  <2>1. Follows(decoder, seeker)
    BY DEF IInv
  <2>2. CASE UNCHANGED <<decoder, seeker>>
    BY <2>1, <2>2
  <2>3. CASE decoder' = Torn(decoder)
    BY <1>1, <2>3 DEF Torn, Follows, DecoderState
  <2>4. ASSUME NEW c \in Codings(frame), decoder' = Decode(decoder, c.unit),
               seeker' = Decode(Seek(seeker, c.keyframe), c.unit)
        PROVE  Follows(decoder', seeker')
    BY <1>1, <1>2, <2>1, <2>4, CodingsOK, SeekFollows
  <2>5. QED
    BY <2>2, <2>3, <2>4 DEF BitstreamWriteFails, TearUnit, LaterWriteFails, LoseUnit,
     OutputDropped, DropUnit, ModeDecisionFails
<1>9. QED
  BY <1>3, <1>4, <1>6, <1>7, <1>8, FailType, EndedIInv

LEMMA RefuseFrameIInv ==
    ASSUME IInv, RefuseFrame
    PROVE  IInv'
<1>1. UNCHANGED <<status, headersWritten, reference, reconstruction, frameIndex,
                  unitsWritten, decoder, seeker>>
  BY DEF RefuseFrame, encoderVars
<1>2. call' \in CallRecord /\ ~Delivered'
  BY FailedCallType DEF RefuseFrame, Delivered, MaybeFrame
<1>3. TypeOK'
  BY <1>1, <1>2 DEF IInv, TypeOK
<1>4. status' = "Active" => Sync'
  BY <1>1, <1>2 DEF IInv, Sync, EncoderPicture, Near, Frame, Sample
<1>5. UnitsMatchFrames' /\ (status' # "Active" => reference' = NoFrame /\ reconstruction' = NoFrame)
  BY <1>1 DEF IInv, UnitsMatchFrames
<1>6. Follows(decoder', seeker')
  BY <1>1 DEF IInv
<1>7. QED
  BY <1>2, <1>3, <1>4, <1>5, <1>6 DEF IInv, ShownIsSource, Follows

LEMMA FinishIInv ==
    ASSUME IInv, Finish
    PROVE  IInv'
<1>1. call' \in CallRecord /\ ~Delivered' /\ status' \in {"Finished", "Failed"}
  BY DEF IInv, TypeOK, Finish, NoCall, CallRecord, Delivered, MaybeFrame
<1>2. TypeOK'
  BY <1>1 DEF IInv, TypeOK, Finish, MaybeFrame
<1>3. reference' = NoFrame /\ reconstruction' = NoFrame /\ UnitsMatchFrames'
  BY DEF IInv, UnitsMatchFrames, Finish
<1>4. Follows(decoder', seeker')
  BY DEF IInv, Finish
<1>5. QED
  BY <1>1, <1>2, <1>3, <1>4, EndedIInv

LEMMA StutterIInv ==
    ASSUME IInv, UNCHANGED streamVars
    PROVE  IInv'
BY DEF IInv, TypeOK, Sync, Delivered, EncoderPicture, ShownIsSource, UnitsMatchFrames,
       Follows, streamVars, encoderVars,
       Near, Frame, Sample

LEMMA StepIInv == IInv /\ [StreamNext]_streamVars => IInv'
<1> SUFFICES ASSUME IInv, [StreamNext]_streamVars PROVE IInv'
  OBVIOUS
<1>1. ASSUME NEW frame \in Frame, EncodeFrame(frame) PROVE IInv'
  BY <1>1, EncodeFrameIInv
<1>2. ASSUME NEW frame \in Frame,
             \/ BitstreamWriteFails(frame) \/ LaterWriteFails(frame)
             \/ OutputDropped(frame) \/ ModeDecisionFails(frame)
      PROVE  IInv'
  BY <1>2, FailingIInv
<1>3. CASE RefuseFrame
  BY <1>3, RefuseFrameIInv
<1>4. CASE Finish
  BY <1>4, FinishIInv
<1>5. CASE UNCHANGED streamVars
  BY <1>5, StutterIInv
<1>6. QED
  BY <1>1, <1>2, <1>3, <1>4, <1>5 DEF StreamNext, Encode

LEMMA Invariance == StreamSpec => []IInv
BY InitIInv, StepIInv, PTL DEF StreamSpec

-----------------------------------------------------------------------------
(* Theorems *)

\* Every variable of the stream encoder keeps its type, whatever the pictures,
\* the layout, the picture groups and the failing writes.
THEOREM TypeCorrect == StreamSpec => []TypeOK
<1>1. IInv => TypeOK
  BY DEF IInv
<1>2. QED
  BY Invariance, <1>1, PTL

\* The encoder and a decoder of its stream never drift apart
\* (Av2StreamEncoder::encode_frame_inner keeps as reference what it coded).
THEOREM LoopIsClosed == StreamSpec => []ClosedLoop
<1>1. IInv => ClosedLoop
  BY DEF IInv, Sync, ClosedLoop
<1>2. QED
  BY Invariance, <1>1, PTL

\* What a decoder shows of a delivered frame is the frame, or within the
\* tolerance of its quantisation, for any length of a picture group.
THEOREM DeliveredIsSource == StreamSpec => []ShownIsSource
<1>1. IInv => ShownIsSource
  BY DEF IInv
<1>2. QED
  BY Invariance, <1>1, PTL

\* A chunk flagged keyframe is a point to start decoding at, in every stream.
THEOREM EntryPointsWork == StreamSpec => []KeyframesAreEntryPoints
<1>1. IInv => KeyframesAreEntryPoints
  BY DEF IInv, Follows, KeyframesAreEntryPoints
<1>2. QED
  BY Invariance, <1>1, PTL

\* The byte and frame totals agree as long as the stream has not failed.
THEOREM TotalsAgree == StreamSpec => []UnitsMatchFrames
<1>1. IInv => UnitsMatchFrames
  BY DEF IInv
<1>2. QED
  BY Invariance, <1>1, PTL

\* The first frame of a picture group is coded as a key picture, because the
\* reset left nothing to predict from, and an ended stream holds no picture.
THEOREM GroupsAreClosed == StreamSpec => GroupBoundary
<1> DEFINE Bound == /\ Delivered' /\ frameIndex' = frameIndex + 1 /\ IsIntraFrame(frameIndex)
                          => call'.kind = "key"
                    /\ status' # "Active" => reference' = NoFrame /\ reconstruction' = NoFrame
<1>1. IInv /\ IInv' /\ [StreamNext]_streamVars => [Bound]_streamVars
  <2> SUFFICES ASSUME IInv, IInv', StreamNext PROVE Bound
    OBVIOUS
  <2>1. status' # "Active" => reference' = NoFrame /\ reconstruction' = NoFrame
    BY DEF IInv
  <2>2. ASSUME Delivered', frameIndex' = frameIndex + 1, IsIntraFrame(frameIndex)
        PROVE  call'.kind = "key"
    <3>1. PICK frame \in Frame : EncodeFrame(frame)
      <4>1. frameIndex \in Nat
        BY DEF IInv, TypeOK
      <4>2. ~Finish /\ ~RefuseFrame
        BY <2>2, <4>1 DEF Finish, RefuseFrame, encoderVars
      <4>3. \A frame \in Frame : ~BitstreamWriteFails(frame) /\ ~LaterWriteFails(frame)
                                 /\ ~OutputDropped(frame) /\ ~ModeDecisionFails(frame)
        BY <2>2, <4>1 DEF BitstreamWriteFails, TearUnit, LaterWriteFails, LoseUnit,
     OutputDropped, DropUnit, ModeDecisionFails
      <4>4. QED
        BY <4>2, <4>3 DEF StreamNext, Encode
    <3>2. PICK c \in Codings(frame) : call'.kind = c.unit.kind
      BY <3>1 DEF EncodeFrame, DeliverUnit
    <3>3. EntryOK /\ Sync
      BY <3>1, IInvEntry DEF IInv, EncodeFrame, DeliverUnit
    <3>4. CodingOK(frame, c)
      BY <3>3, CodingsOK
    <3>5. EntryPicture = NoFrame
      BY <2>2 DEF EntryPicture, Reference, Reconstruction, ResetsReferencesBefore
    <3>6. QED
      BY <3>2, <3>4, <3>5 DEF CodingOK
  <2>3. QED
    BY <2>1, <2>2
<1>2. QED
  BY Invariance, <1>1, PTL DEF StreamSpec, GroupBoundary

\* A failed stream stays failed: every later call reports it and none writes.
THEOREM FailureStays == StreamSpec => FailureIsTerminal
<1> DEFINE Terminal ==
      /\ headersWritten' # headersWritten /\ ~call'.ok => status' = "Failed"
      /\ status = "Failed" => ~call'.ok /\ UNCHANGED <<encoderVars, decoder>>
<1>1. [StreamNext]_streamVars => [Terminal]_streamVars
  <2> SUFFICES ASSUME StreamNext PROVE Terminal
    OBVIOUS
  <2>1. ASSUME NEW frame \in Frame, EncodeFrame(frame) PROVE Terminal
    BY <2>1 DEF EncodeFrame, DeliverUnit
  <2>2. ASSUME NEW frame \in Frame,
               \/ BitstreamWriteFails(frame) \/ LaterWriteFails(frame)
               \/ OutputDropped(frame) \/ ModeDecisionFails(frame)
        PROVE  Terminal
    BY <2>2 DEF BitstreamWriteFails, TearUnit, LaterWriteFails, LoseUnit,
     OutputDropped, DropUnit, ModeDecisionFails, Fail
  <2>3. CASE RefuseFrame
    BY <2>3 DEF RefuseFrame, FailedCall, encoderVars
  <2>4. CASE Finish
    BY <2>4 DEF Finish, NoCall, encoderVars
  <2>5. QED
    BY <2>1, <2>2, <2>3, <2>4 DEF StreamNext, Encode
<1>2. QED
  BY <1>1, PTL DEF StreamSpec, FailureIsTerminal

-----------------------------------------------------------------------------
(* Display order *)

\* The hint of a frame unwraps to its index.
LEMMA HintUnwraps ==
    ASSUME NEW f \in Nat, NEW m \in Nat \ {0}
    PROVE  ((f % m) - f) % m = 0
<1>1. f = m * (f \div m) + (f % m) /\ f % m \in 0..(m - 1) /\ f \div m \in Int
  OBVIOUS
<1> DEFINE q == -(f \div m)
<1>2. q \in Int /\ (f % m) - f = m * q
  BY <1>1
<1>3. \A a, k \in Int : a = m * k => a % m = 0
  OBVIOUS
<1> HIDE DEF q
<1>4. QED
  BY <1>1, <1>2, <1>3

\* Every unit of a predictive stream carries the hint of its frame.
LEMMA UnitsCarryTheHint ==
    ASSUME IsPredictive, NEW frame, NEW c \in Codings(frame)
    PROVE  c.unit.hint = OrderHint
<1>1. ASSUME NEW u, NEW r, NEW k, NEW h, NEW x, NEW y, c = Coded(u, r, k, h, x, y)
      PROVE  c.unit = u
  BY <1>1 DEF Coded
<1>2. /\ SefUnit.hint = OrderHint
      /\ \A body : InterUnit(body).hint = OrderHint
      /\ \A recon, header : KeyUnit(recon, header, OrderHint).hint = OrderHint
  BY DEF SefUnit, InterUnit, KeyUnit
<1>3. ASSUME c \in LosslessCodings(frame) PROVE c.unit.hint = OrderHint
  BY <1>1, <1>2, <1>3 DEF LosslessCodings, LosslessSef, LosslessInter, LosslessKey
<1>4. ASSUME c \in LossyCodings(frame) PROVE c.unit.hint = OrderHint
  BY <1>1, <1>2, <1>4 DEF LossyCodings, LossySef, LossyInter, LossyKey
<1>5. QED
  BY <1>3, <1>4 DEF Codings, IsPredictive, Av2Assumption

LEMMA EncodeFrameKeepsOrder ==
    ASSUME IInv, DisplayOrder, NEW frame \in Frame, EncodeFrame(frame)
    PROVE  DisplayOrder'
<1>1. EntryOK /\ Sync /\ decoder \in DecoderState /\ frameIndex \in Nat
  BY IInvEntry DEF IInv, TypeOK, EncodeFrame
<1>2. decoder.next = frameIndex
  BY DEF DisplayOrder, EncodeFrame
<1>3. PICK c \in Codings(frame) : decoder' = Decode(decoder, c.unit) /\ frameIndex' = frameIndex + 1
  BY DEF EncodeFrame, DeliverUnit
<1>4. CodingOK(frame, c)
  BY <1>1, CodingsOK
<1> DEFINE skipped == IF decoder'.seq = "predictive"
                      THEN (c.unit.hint - decoder.next) % HintModulus ELSE 0
<1>5. decoder'.next = decoder.next + skipped + 1
  BY <1>3 DEF Decode
<1>6. skipped = 0
  <2>1. CASE IsPredictive
    <3>1. c.unit.hint = frameIndex % HintModulus
      BY <2>1, UnitsCarryTheHint DEF OrderHint
    <3>2. QED
      BY <1>1, <1>2, <3>1, HintUnwraps, Av2Assumption DEF Av2Assumption
  <2>2. CASE ~IsPredictive
    <3>1. c.unit.header = "single"
      BY <1>4, <2>2 DEF CodingOK
    <3>2. decoder'.seq = "single"
      BY <1>3, <3>1 DEF Decode
    <3>3. QED
      BY <3>2
  <2>3. QED
    BY <2>1, <2>2
<1> HIDE DEF skipped
<1>7. QED
  BY <1>1, <1>2, <1>3, <1>5, <1>6 DEF DisplayOrder

\* Every other step fails the stream or leaves the decoder and the index alone.
LEMMA OthersKeepOrder ==
    ASSUME DisplayOrder,
           \/ status' = "Failed"
           \/ UNCHANGED <<frameIndex, decoder>> /\ (status = "Failed" => status' = "Failed")
    PROVE  DisplayOrder'
BY DEF DisplayOrder

\* The order hints, which wrap, number the pictures of a stream without a gap
\* (OrderHint of the frame headers): every picture follows the one before it.
THEOREM HintsGiveTheOrder == StreamSpec => []DisplayOrder
<1>1. StreamInit => DisplayOrder
  BY DEF StreamInit, EmptyDecoder, DisplayOrder
<1>2. IInv /\ DisplayOrder /\ [StreamNext]_streamVars => DisplayOrder'
  <2> SUFFICES ASSUME IInv, DisplayOrder, [StreamNext]_streamVars PROVE DisplayOrder'
    OBVIOUS
  <2>1. ASSUME NEW frame \in Frame, EncodeFrame(frame) PROVE DisplayOrder'
    BY <2>1, EncodeFrameKeepsOrder
  <2>2. ASSUME NEW frame \in Frame,
               \/ BitstreamWriteFails(frame) \/ LaterWriteFails(frame)
               \/ OutputDropped(frame) \/ ModeDecisionFails(frame)
        PROVE  DisplayOrder'
    BY <2>2, OthersKeepOrder
       DEF BitstreamWriteFails, TearUnit, LaterWriteFails, LoseUnit,
     OutputDropped, DropUnit, ModeDecisionFails, Fail
  <2>3. CASE RefuseFrame
    BY <2>3, OthersKeepOrder DEF RefuseFrame, encoderVars
  <2>4. CASE Finish
    BY <2>4, OthersKeepOrder DEF Finish
  <2>5. CASE UNCHANGED streamVars
    BY <2>5, OthersKeepOrder DEF streamVars, encoderVars
  <2>6. QED
    BY <2>1, <2>2, <2>3, <2>4, <2>5 DEF StreamNext, Encode
<1>3. QED
  BY <1>1, <1>2, Invariance, PTL DEF StreamSpec
=============================================================================

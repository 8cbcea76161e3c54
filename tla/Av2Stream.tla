------------------------------ MODULE Av2Stream ------------------------------
(***************************************************************************)
(* The persistent AV2 stream encoder (av2/stream.rs, Av2StreamEncoder):    *)
(* what one call of encode_frame does to the reference state, which        *)
(* temporal unit it writes, and how a failure ends the stream.             *)
(*                                                                         *)
(* A picture is a function from blocks to samples; a block stands for one  *)
(* 8x8 motion block and its value for the whole block's content.  The      *)
(* blocks are grouped into tiles.  Entropy coding is left out: a temporal  *)
(* unit carries, per block, whether it is inter predicted, from which      *)
(* reference block, and the residual.                                      *)
(*                                                                         *)
(* The decoder is external (AVM, or any AV2 decoder).  It is modelled from *)
(* the syntax the encoder writes: a key picture replaces the references,   *)
(* a regular inter picture writes reference slot 0 (refresh_frame_flags=1) *)
(* and predicts from it, a show-existing-frame unit shows slot 0.          *)
(***************************************************************************)
EXTENDS GopMode, FiniteSets

CONSTANTS
    Block,          \* the 8x8 blocks of a coded picture
    Tile,           \* the tiles of the layout
    TileOf,         \* the tile of each block
    MaxSample,      \* blocks hold values 0..MaxSample
    Tolerance,      \* how far a quantised block may be from its source
    Coding,         \* "lossless", "lossy" or "mvp444": the branch of encode_frame_inner
    InterLayoutOk,  \* the tile layout may carry regular inter pictures
    HintModulus,    \* 2^AV2_PREDICTIVE_ORDER_HINT_BITS
    NoFrame,        \* None: no reference retained
    NoMatch,        \* None: no reference block equals the block
    MaxFrames       \* bound on the frames of a stream, for TLC

Sample == 0..MaxSample
Frame == [Block -> Sample]

Av2Assumption ==
    /\ TileOf \in [Block -> Tile]
    /\ MaxSample \in Nat
    /\ Tolerance \in Nat
    /\ Coding \in {"lossless", "lossy", "mvp444"}
    /\ Coding = "mvp444" => Gop = 0
    /\ InterLayoutOk \in BOOLEAN
    /\ HintModulus \in Nat \ {0}
    /\ NoFrame \notin Frame
    /\ NoMatch \notin Block
    /\ MaxFrames \in Nat
ASSUME Av2Assumption

VARIABLES
    status,           \* Av2StreamStatus
    headersWritten,   \* predictive_headers_written
    reference,        \* predictive_reference: the last coded source picture
    reconstruction,   \* predictive_reconstruction (lossy coding only)
    frameIndex,       \* frame_index: frames coded so far
    unitsWritten,     \* total_bitstream_bytes, counted in temporal units
    call,             \* what the last call delivered
    decoder,          \* a decoder that reads the stream from its start
    seeker            \* a decoder that forgets every picture at a chunk flagged keyframe

encoderVars == <<status, headersWritten, reference, reconstruction,
                 frameIndex, unitsWritten>>
streamVars == <<encoderVars, call, decoder, seeker>>

-----------------------------------------------------------------------------
(* Temporal units *)

BlockMode == [inter : BOOLEAN, from : Block, residual : Int]

IntraBlock(b, value) == [inter |-> FALSE, from |-> b, residual |-> value]
CopyBlock(c) == [inter |-> TRUE, from |-> c, residual |-> 0]
ResidualBlock(c, residual) == [inter |-> TRUE, from |-> c, residual |-> residual]

\* A sequence header is absent, for single pictures, or for a predictive stream.
Header == {"none", "single", "predictive"}
Unit == [kind : {"key", "inter", "sef"}, header : Header,
         hint : Nat, body : [Block -> BlockMode]]

\* Mutant: the hint saturates where it must wrap.
MutOrderHint == IF frameIndex < HintModulus THEN frameIndex ELSE HintModulus - 1

OrderHint == frameIndex % HintModulus

KeyUnit(recon, header, hint) ==
    [kind |-> "key", header |-> header, hint |-> hint,
     body |-> [b \in Block |-> IntraBlock(b, recon[b])]]

InterUnit(body) ==
    [kind |-> "inter", header |-> "none", hint |-> OrderHint, body |-> body]

SefUnit ==
    [kind |-> "sef", header |-> "none", hint |-> OrderHint,
     body |-> [b \in Block |-> CopyBlock(b)]]

-----------------------------------------------------------------------------
(* The external decoder *)

\* "seq" is the sequence header in force, "slot" reference slot 0, "shown"
\* the last picture output, "next" the display number expected next (the
\* order hints unwrapped), "sound" FALSE once a unit could not be decoded.
EmptyDecoder ==
    [seq |-> "none", slot |-> NoFrame, shown |-> NoFrame, next |-> 0, sound |-> TRUE]

Predicted(unit, slot) ==
    [b \in Block |-> unit.body[b].residual +
                     IF unit.body[b].inter THEN slot[unit.body[b].from] ELSE 0]

Decode(d, unit) ==
    LET seq == IF unit.header = "none" THEN d.seq ELSE unit.header
        decodable == /\ d.sound
                     /\ seq # "none"
                     /\ unit.kind # "key" => seq = "predictive" /\ d.slot # NoFrame
        picture == IF decodable THEN Predicted(unit, d.slot) ELSE NoFrame
        skipped == IF seq = "predictive" THEN (unit.hint - d.next) % HintModulus ELSE 0
    IN  [seq |-> seq, slot |-> picture, shown |-> picture,
         next |-> d.next + skipped + 1, sound |-> decodable]

\* A truncated temporal unit: nothing after it can be decoded.
Torn(d) == [d EXCEPT !.sound = FALSE]

\* A decoder that starts at the last chunk the session flagged as a keyframe:
\* with the sequence header at hand in a predictive stream, which carries it
\* once, with nothing at all in a stream of single pictures.
Seek(d, keyframe) ==
    IF ~keyframe THEN d
    ELSE [d EXCEPT !.slot = NoFrame, !.seq = IF IsPredictive THEN @ ELSE "none"]

-----------------------------------------------------------------------------
(* Coding decisions *)

\* predictive_reference and predictive_reconstruction as encode_frame_inner
\* sees them after the reset at the head of the function.
Reference == IF ResetsReferencesBefore(frameIndex) THEN NoFrame ELSE reference
Reconstruction ==
    IF ResetsReferencesBefore(frameIndex) THEN NoFrame ELSE reconstruction

\* The pictures a lossy coding of "frame" may reconstruct to.
Near(frame) == {r \in Frame : \A b \in Block :
                    /\ r[b] - frame[b] <= Tolerance
                    /\ frame[b] - r[b] <= Tolerance}

BlocksOf(tile) == {b \in Block : TileOf[b] = tile}
Unchanged(tile, frame) == \A b \in BlocksOf(tile) : frame[b] = Reference[b]
ChangedTiles(frame) == {t \in Tile : ~Unchanged(t, frame)}

\* What the layout of the tiles and the comparison of the tiles ask for before
\* motion is searched for.
InterIsTried(frame) == InterLayoutOk /\ ChangedTiles(frame) # {}

\* build_lossless_motion_map_for_regions: for each block a reference block of
\* equal content, or none; the search is bounded, so none is always possible,
\* except where the zero vector (b itself), tried first, matches.
MotionMaps(frame) ==
    {m \in [Block -> Block \cup {NoMatch}] :
        \A b \in Block : IF frame[b] = Reference[b] THEN m[b] = b
                         ELSE m[b] = NoMatch \/ Reference[m[b]] = frame[b]}

SomeMatched(tile, m) == \E b \in BlocksOf(tile) : m[b] # NoMatch

\* Av2PredictiveTileMode of a lossless picture.  A tile whose blocks all match
\* is NewMv or Mixed, one whose blocks match in part codes the others as intra
\* or as zero-motion residuals (the cheaper for the tile: residualTiles), one
\* without a match is Intra.
LosslessBlock(b, frame, m, residualTiles) ==
    IF Unchanged(TileOf[b], frame) THEN CopyBlock(b)
    ELSE IF m[b] # NoMatch THEN CopyBlock(m[b])
    ELSE IF SomeMatched(TileOf[b], m) /\ TileOf[b] \in residualTiles
    THEN ResidualBlock(b, frame[b] - Reference[b])
    ELSE IntraBlock(b, frame[b])

\* With a map that leaves every tile intra the function returns None, and the
\* caller falls back to a key picture; it depends on what the search missed.
LosslessUsable(frame, m) ==
    \/ ChangedTiles(frame) # Tile
    \/ \E t \in ChangedTiles(frame) : SomeMatched(t, m)

LosslessInterBodies(frame) ==
    IF ~InterIsTried(frame) THEN {}
    ELSE {[b \in Block |-> LosslessBlock(b, frame, m, residualTiles)] :
            m \in {n \in MotionMaps(frame) : LosslessUsable(frame, n)},
            residualTiles \in SUBSET ChangedTiles(frame)}

LosslessFallsBack(frame) ==
    InterIsTried(frame) => \E m \in MotionMaps(frame) : ~LosslessUsable(frame, m)

\* Lossy coding: an unchanged tile copies the reference reconstruction; a
\* changed one is coded as a residual against it, from the matched block of
\* every block when some block moved, else from the same position.
LossyFrom(b, m) ==
    IF m[b] # NoMatch /\ \E c \in BlocksOf(TileOf[b]) : m[c] \notin {NoMatch, c}
    THEN m[b] ELSE b

\* Mutant: the residual is taken against the reference source.
MutLossyBlock(b, frame, m, recon) ==
    IF Unchanged(TileOf[b], frame) THEN CopyBlock(b)
    ELSE ResidualBlock(LossyFrom(b, m), recon[b] - Reference[LossyFrom(b, m)])

LossyBlock(b, frame, m, recon) ==
    IF Unchanged(TileOf[b], frame) THEN CopyBlock(b)
    ELSE ResidualBlock(LossyFrom(b, m), recon[b] - Reconstruction[LossyFrom(b, m)])

LossyUsable(frame, m) ==
    ChangedTiles(frame) # Tile \/ \E b \in Block : LossyFrom(b, m) # b

LossyInterBodies(frame) ==
    IF ~InterIsTried(frame) THEN {}
    ELSE {[b \in Block |-> LossyBlock(b, frame, m, recon)] :
            m \in {n \in MotionMaps(frame) : LossyUsable(frame, n)}, recon \in Near(frame)}

LossyFallsBack(frame) ==
    InterIsTried(frame) => \E m \in MotionMaps(frame) : ~LossyUsable(frame, m)

-----------------------------------------------------------------------------
(* Codings of one frame: the unit written, the reconstruction handed out,   *)
(* the keyframe flag of the chunk and the reference state after it.         *)

Coded(unit, recon, keyframe, headers, ref, refRecon) ==
    [unit |-> unit, recon |-> recon, keyframe |-> keyframe, headers |-> headers,
     ref |-> ref, refRecon |-> refRecon]

SequenceHeader == IF headersWritten THEN "none" ELSE "predictive"

\* gop=0: a self-contained picture with its own sequence header.
IntraOnlyCodings(recons) ==
    {Coded(KeyUnit(r, "single", 0), r, TRUE, headersWritten, Reference, Reconstruction) :
        r \in recons}

LosslessSef(frame) ==
    Coded(SefUnit, frame, FALSE, headersWritten, Reference, Reconstruction)
LosslessInter(frame, body) ==
    Coded(InterUnit(body), frame, FALSE, headersWritten, frame, Reconstruction)
LosslessKey(frame) ==
    Coded(KeyUnit(frame, SequenceHeader, OrderHint), frame, TRUE, TRUE, frame, Reconstruction)

LosslessCodings(frame) ==
    IF IsPredictiveFrame(frameIndex) /\ Reference = frame THEN {LosslessSef(frame)}
    ELSE IF IsPredictiveFrame(frameIndex) /\ Reference # NoFrame
    THEN {LosslessInter(frame, body) : body \in LosslessInterBodies(frame)}
         \cup {c \in {LosslessKey(frame)} : LosslessFallsBack(frame)}
    ELSE {LosslessKey(frame)}

\* Lossy coding assigns the reference state after the branches: headers written,
\* the source and its reconstruction, whichever unit was chosen.
LossySef(frame) ==
    Coded(SefUnit, Reconstruction, FALSE, TRUE, frame, Reconstruction)
\* Mutant: an inter chunk is flagged keyframe.
MutLossyInter(frame, body) ==
    LET r == Predicted(InterUnit(body), Reconstruction)
    IN  Coded(InterUnit(body), r, TRUE, TRUE, frame, r)

LossyInter(frame, body) ==
    LET r == Predicted(InterUnit(body), Reconstruction)
    IN  Coded(InterUnit(body), r, FALSE, TRUE, frame, r)
\* Mutant: the source is kept where the reconstruction belongs.
MutLossyKey(frame, r) ==
    Coded(KeyUnit(r, SequenceHeader, OrderHint), r, TRUE, TRUE, frame, frame)

LossyKey(frame, r) ==
    Coded(KeyUnit(r, SequenceHeader, OrderHint), r, TRUE, TRUE, frame, r)

LossyCodings(frame) ==
    IF /\ IsPredictiveFrame(frameIndex)
       /\ Reference = frame
       /\ Reconstruction # NoFrame
    THEN {LossySef(frame)}
    ELSE IF /\ IsPredictiveFrame(frameIndex)
            /\ Reference \notin {frame, NoFrame}
            /\ Reconstruction # NoFrame
    THEN {LossyInter(frame, body) : body \in LossyInterBodies(frame)}
         \cup {c \in {LossyKey(frame, r) : r \in Near(frame)} : LossyFallsBack(frame)}
    ELSE {LossyKey(frame, r) : r \in Near(frame)}

Codings(frame) ==
    CASE Coding = "lossless" /\ IsPredictive  -> LosslessCodings(frame)
      [] Coding = "lossless" /\ ~IsPredictive -> IntraOnlyCodings({frame})
      [] Coding = "lossy" /\ IsPredictive     -> LossyCodings(frame)
      [] Coding = "lossy" /\ ~IsPredictive    -> IntraOnlyCodings(Near(frame))
      [] Coding = "mvp444"                    -> IntraOnlyCodings({frame})

-----------------------------------------------------------------------------
(* Calls *)

NoCall == [op |-> "none", ok |-> TRUE, source |-> NoFrame, recon |-> NoFrame,
           keyframe |-> FALSE, kind |-> "none"]

StreamInit ==
    /\ status = "Active"
    /\ headersWritten = FALSE
    /\ reference = NoFrame
    /\ reconstruction = NoFrame
    /\ frameIndex = 0
    /\ unitsWritten = 0
    /\ call = NoCall
    /\ decoder = EmptyDecoder
    /\ seeker = EmptyDecoder

\* Mutant: the references survive the failure.
MutFailKeepsReferences ==
    /\ status' = "Failed"
    /\ UNCHANGED <<reference, reconstruction>>

\* Av2StreamEncoder::fail
Fail ==
    /\ status' = "Failed"
    /\ reference' = NoFrame
    /\ reconstruction' = NoFrame

FailedCall(frame) ==
    [op |-> "encode", ok |-> FALSE, source |-> frame, recon |-> NoFrame,
     keyframe |-> FALSE, kind |-> "none"]

\* A unit written whole, its reconstruction and its statistics after it.
DeliverUnit(frame, c) ==
    /\ headersWritten' = c.headers
    /\ reference' = c.ref
    /\ reconstruction' = c.refRecon
    /\ call' = [op |-> "encode", ok |-> TRUE, source |-> frame, recon |-> c.recon,
                keyframe |-> c.keyframe, kind |-> c.unit.kind]
    /\ decoder' = Decode(decoder, c.unit)
    /\ seeker' = Decode(Seek(seeker, c.keyframe), c.unit)
    /\ frameIndex' = frameIndex + 1
    /\ unitsWritten' = unitsWritten + 1
    /\ UNCHANGED status

\* write_all of the bitstream fails: part of the unit may be in the sink.
TearUnit(frame, c) ==
    /\ headersWritten' = c.headers
    /\ Fail
    /\ call' = FailedCall(frame)
    /\ decoder' = Torn(decoder)
    /\ seeker' = Torn(seeker)
    /\ UNCHANGED <<frameIndex, unitsWritten>>

\* The unit is written, then the reconstruction or the statistics are not.
LoseUnit(frame, c) ==
    /\ headersWritten' = c.headers
    /\ decoder' = Decode(decoder, c.unit)
    /\ seeker' = Decode(Seek(seeker, c.keyframe), c.unit)
    /\ Fail
    /\ call' = FailedCall(frame)
    /\ unitsWritten' = unitsWritten + 1
    /\ UNCHANGED frameIndex

\* As LoseUnit, where the sinks are local to the caller (the owned-frame
\* session): the error drops them, and no decoder sees the unit.
DropUnit(frame, c) ==
    /\ headersWritten' = c.headers
    /\ Fail
    /\ call' = FailedCall(frame)
    /\ unitsWritten' = unitsWritten + 1
    /\ UNCHANGED <<frameIndex, decoder, seeker>>

EncodeFrame(frame) ==
    status = "Active" /\ \E c \in Codings(frame) : DeliverUnit(frame, c)
BitstreamWriteFails(frame) ==
    status = "Active" /\ \E c \in Codings(frame) : TearUnit(frame, c)
LaterWriteFails(frame) ==
    status = "Active" /\ \E c \in Codings(frame) : LoseUnit(frame, c)
OutputDropped(frame) ==
    status = "Active" /\ \E c \in Codings(frame) : DropUnit(frame, c)

\* Av2Mvp444FrameMode::from_frame rejects the picture (too many colours).
ModeDecisionFails(frame) ==
    /\ status = "Active"
    /\ Coding = "mvp444"
    /\ Fail
    /\ call' = FailedCall(frame)
    /\ UNCHANGED <<headersWritten, frameIndex, unitsWritten, decoder, seeker>>

\* Mutant: a refused frame is counted.
MutRefuseFrame ==
    /\ call' = FailedCall(NoFrame)
    /\ frameIndex' = frameIndex + 1
    /\ UNCHANGED <<status, headersWritten, reference, reconstruction, unitsWritten,
                   decoder, seeker>>

\* ensure_active refuses, or the frame has the wrong length: no state moves.
RefuseFrame ==
    /\ call' = FailedCall(NoFrame)
    /\ UNCHANGED <<encoderVars, decoder, seeker>>

\* Av2StreamEncoder::finish
Finish ==
    /\ call' = [NoCall EXCEPT !.op = "finish", !.ok = status # "Failed"]
    /\ IF status = "Failed" THEN UNCHANGED <<status, reference, reconstruction>>
       ELSE /\ status' = "Finished"
            /\ reference' = NoFrame
            /\ reconstruction' = NoFrame
    /\ UNCHANGED <<headersWritten, frameIndex, unitsWritten, decoder, seeker>>

Encode(frame) ==
    \/ EncodeFrame(frame)
    \/ BitstreamWriteFails(frame)
    \/ LaterWriteFails(frame)
    \/ OutputDropped(frame)
    \/ ModeDecisionFails(frame)

StreamNext ==
    \/ \E frame \in Frame : frameIndex < MaxFrames /\ Encode(frame)
    \/ RefuseFrame
    \/ Finish

StreamSpec == StreamInit /\ [][StreamNext]_streamVars

-----------------------------------------------------------------------------
(* Properties *)

MaybeFrame == Frame \cup {NoFrame}

DecoderState ==
    [seq : Header, slot : [Block -> Int] \cup {NoFrame},
     shown : [Block -> Int] \cup {NoFrame}, next : Nat, sound : BOOLEAN]

CallRecord ==
    [op : {"none", "encode", "finish"}, ok : BOOLEAN, source : MaybeFrame,
     recon : MaybeFrame, keyframe : BOOLEAN, kind : {"none", "key", "inter", "sef"}]

\* Every variable of the stream encoder, of its caller and of the observing
\* decoders holds a value of its type (Av2StreamEncoder and Av2EncodedFrame).
TypeOK ==
    /\ status \in {"Active", "Finished", "Failed"}
    /\ headersWritten \in BOOLEAN
    /\ reference \in MaybeFrame
    /\ reconstruction \in MaybeFrame
    /\ frameIndex \in Nat
    /\ unitsWritten \in Nat
    /\ call \in CallRecord
    /\ decoder \in DecoderState
    /\ seeker \in DecoderState

Delivered == call.op = "encode" /\ call.ok

\* The picture the encoder predicts the next frame from.
EncoderPicture == IF Coding = "lossless" THEN reference ELSE reconstruction

\* The closed loop of the codec: while the stream is active the decoder could
\* decode every unit so far, its reference slot holds the very picture
\* encode_frame_inner will predict from, and it has shown the reconstruction
\* the caller was given.
ClosedLoop ==
    status = "Active" =>
        /\ decoder.sound
        /\ EncoderPicture # NoFrame => decoder.slot = EncoderPicture
        /\ Delivered => decoder.shown = call.recon

\* What is shown stands for what was submitted, however many show-existing and
\* inter pictures lie between the frame and the last key: the source itself in
\* lossless and palette coding, within one quantisation of it in lossy coding.
\* Errors do not accumulate over a group of pictures.
ShownIsSource ==
    Delivered => IF Coding = "lossy" THEN decoder.shown \in Near(call.source)
                 ELSE decoder.shown = call.source

\* A chunk flagged keyframe is a point to start decoding at: a decoder that
\* has forgotten every earlier picture at the last such chunk shows the same
\* pictures as one that has read the stream from its start.  With gop=0 every
\* chunk is flagged, and each must bring its own sequence header.
KeyframesAreEntryPoints ==
    decoder.sound => seeker.sound /\ seeker.shown = decoder.shown

\* The order hints, which wrap, number the output without a gap or a repeat:
\* unwrapped by a decoder they give the encoder's frame index.
DisplayOrder == status # "Failed" => decoder.next = frameIndex

\* total_bitstream_bytes, which the metrics report, accounts for the delivered
\* frames exactly as long as the stream has not failed.
UnitsMatchFrames == status # "Failed" => unitsWritten = frameIndex

\* Nothing is predicted across a boundary of the picture groups, and a stream
\* that ended holds no picture (VideoEncoderSession::flush, "release retained
\* reference frames").
GroupBoundary ==
    [][ /\ Delivered' /\ frameIndex' = frameIndex + 1 /\ IsIntraFrame(frameIndex)
            => call'.kind = "key"
        /\ status' # "Active" => reference' = NoFrame /\ reconstruction' = NoFrame
      ]_streamVars

\* A call that fails after the coding state advanced ends the stream: nothing
\* is delivered or written after it, whatever the caller tries
\* (VideoEncoderSession::encode_frame, "terminally fails the session").
FailureIsTerminal ==
    [][ /\ headersWritten' # headersWritten /\ ~call'.ok => status' = "Failed"
        /\ status = "Failed" => ~call'.ok /\ UNCHANGED <<encoderVars, decoder>>
      ]_streamVars
=============================================================================

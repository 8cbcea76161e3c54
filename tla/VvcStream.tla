----------------------------- MODULE VvcStream -----------------------------
(***************************************************************************)
(* The VVC encode loop (vvc/encode.rs): what one frame does to the         *)
(* predictive cache, which CTUs are skipped, inter predicted or coded      *)
(* intra, and into which slices the picture is written.                    *)
(*                                                                         *)
(* Quantisation is a choice: a coded CTU reconstructs to any sample within *)
(* a tolerance of its source.  Motion search and the rate-distortion choice  *)
(* between an explicit vector and intra are choices too, limited by what   *)
(* the code requires of a candidate.                                       *)
(***************************************************************************)
EXTENDS GopMode, VvcPicture

CONSTANTS
    MaxSample,      \* a CTU holds a sample 0..MaxSample
    Options,        \* the ways a stream may be set up, see "options"
    SkipDelta,      \* vvc_lossy_predictive_skip_max_abs_delta
    PreskipLimit,   \* vvc_lossy_predictive_preskip_max_sse, per sample
    SlicedSupported,\* vvc_one_slice_per_ctu_partitioning_supported
    NoPayload,      \* no entry in the payload cache
    MaxFrames       \* bound on the frames of a stream, for TLC

Sample == 0..MaxSample
Frame == [Ctu -> Sample]

VvcAssumption ==
    /\ MaxSample \in Nat
    /\ Options \subseteq [lossless : BOOLEAN, tolerance : Nat, mixed : BOOLEAN]
    /\ \A o \in Options : o.lossless => o.tolerance = 0 /\ ~o.mixed
    /\ SkipDelta \in Nat
    /\ PreskipLimit \in Nat /\ SkipDelta * SkipDelta <= PreskipLimit
    /\ SlicedSupported \in BOOLEAN
    /\ NoFrame \notin Frame
    /\ MaxFrames \in Nat
ASSUME VvcAssumption

VARIABLES
    options,    \* residual_mode.is_lossless, the quantisation error bound, and
                \* vvc_lossy_mixed_single_p_slice_supported: fixed for a stream
    active,     \* the encode loop goes on
    cache,      \* previous_predictive_cache: source and reconstruction
    payloads,   \* ctu_inter_skip_slice_payload_cache, by slice address
    frameIndex, \* frame_idx
    call,       \* the last frame: its source, reconstruction and picture
    decoder     \* a decoder that reads the stream from its start

vars == <<options, active, cache, payloads, frameIndex, call, decoder>>

Lossless == options.lossless
Tolerance == options.tolerance
MixedSupported == options.mixed

NoCache == [source |-> NoFrame, recon |-> NoFrame]
NoVector == -1
NoCall == [source |-> NoFrame, recon |-> NoFrame, picture |-> NoFrame]

-----------------------------------------------------------------------------
(* Distortion, for the one sample of a CTU *)

Distance(x, y) == IF x < y THEN y - x ELSE x - y
Sse(x, y) == Distance(x, y) * Distance(x, y)

Near(frame) == {r \in Frame : \A c \in Ctu : Distance(r[c], frame[c]) <= Tolerance}

-----------------------------------------------------------------------------
(* Decisions about the whole frame *)

Cache == IF ResetsReferencesBefore(frameIndex) THEN NoCache ELSE cache

HasReferenceFrame == IsPredictiveFrame(frameIndex) /\ Cache # NoCache

\* repeated_predictive_cache
IsRepeat(frame) == HasReferenceFrame /\ Cache.source = frame

\* vvc_predictive_luma_inter_decisions_for_ctu: a CTU of equal content in the
\* previous source, or none; the chroma gates and the search may drop any.
ExplicitVectors(frame) ==
    IF HasReferenceFrame /\ MixedSupported
    THEN {v \in [Ctu -> Ctu \cup {NoVector}] :
            \A c \in Ctu : v[c] # NoVector => Cache.source[v[c]] = frame[c]}
    ELSE {[c \in Ctu |-> NoVector]}

HasVector(v) == \E c \in Ctu : v[c] # NoVector

\* The vectors left after each was compared with intra, and whether any was
\* found before (vvc_explicit_inter_decision_count_allows_mixed_p_slice).
IsExplicitFrame(frame, v, explicit) ==
    IF explicit THEN \E found \in ExplicitVectors(frame) : HasVector(found)
    ELSE ~HasVector(v)

\* Mutant: CTUs are skipped in pictures with explicit vectors.
MutSkipEnabled(explicit) == HasReferenceFrame /\ (MixedSupported \/ SlicedSupported)

\* predictive_ctu_inter_skip_enabled
SkipEnabled(explicit) ==
    /\ HasReferenceFrame
    /\ ~explicit
    /\ MixedSupported \/ SlicedSupported

\* matching_decision, lossy_inter_skip_candidate_distortions
IsSkipCandidate(frame, c) ==
    \/ frame[c] = Cache.source[c]
    \/ ~Lossless /\ Distance(frame[c], Cache.recon[c]) <= SkipDelta

SkipCandidates(frame, explicit) ==
    IF SkipEnabled(explicit) THEN {c \in Ctu : IsSkipCandidate(frame, c)} ELSE {}

\* predictive_ctu_inter_skip_candidate_frame; the gate of a mixed P slice is
\* the same for every format that supports one.
IsSkipCandidateFrame(candidates) ==
    /\ candidates # {}
    /\ Lossless \/ 2 * Cardinality(candidates) >= CtuCount

\* mixed_single_p_slice_frame
IsMixedFrame(candidates, explicit) ==
    MixedSupported /\ (explicit \/ IsSkipCandidateFrame(candidates))

\* predictive_ctu_slice_frame
IsSlicedFrame(candidates, explicit) ==
    /\ IsSkipCandidateFrame(candidates)
    /\ ~IsMixedFrame(candidates, explicit)
    /\ SlicedSupported

-----------------------------------------------------------------------------
(* Decisions about one CTU *)

IsPreselected(frame, c) == Sse(frame[c], Cache.recon[c]) <= PreskipLimit

\* Skipped at once, or because intra ("quantised") is not closer.
IsSkipped(frame, quantised, c) ==
    \/ Lossless
    \/ IsPreselected(frame, c)
    \/ Sse(frame[c], Cache.recon[c]) <= Sse(frame[c], quantised[c])

Skipped(frame, quantised, candidates) ==
    IF ~IsSkipCandidateFrame(candidates) THEN {}
    ELSE {c \in candidates : IsSkipped(frame, quantised, c)}

\* Mutant: copied samples are those of the cached source.
MutReconstruction(quantised, skipped) ==
    [c \in Ctu |-> IF c \in skipped THEN Cache.source[c] ELSE quantised[c]]

Reconstruction(quantised, skipped) ==
    [c \in Ctu |-> IF c \in skipped THEN Cache.recon[c] ELSE quantised[c]]

\* frame_recon with its availability, cleared before a CTU coded in a slice of
\* its own.
LeftSample(recon, c, sliced) == IF c = 0 \/ sliced THEN 0 ELSE recon[c - 1]

\* The payload of every CTU: skipped, with an explicit vector, or intra.
Payloads(recon, skipped, vectors, mixed, sliced) ==
    [c \in Ctu |->
        IF c \in skipped THEN InterSkip
        ELSE IF vectors[c] # NoVector
        THEN ExplicitInter(vectors[c], recon[c] - Cache.recon[vectors[c]])
        ELSE Intra(recon[c] - LeftSample(recon, c, sliced), IF mixed THEN "inter" ELSE "intra")]

-----------------------------------------------------------------------------
(* Pictures *)

Kind == PictureKind(frameIndex, IsPredictive)
FrameSlice(body) ==
    FrameSlicePicture(Kind, PocLsb(frameIndex), IF IsPredictive THEN 1 ELSE 0, body)

\* VvcCtuInterSkipSlicePayloadCache: with more than one CTU the slice of a
\* skipped CTU is built once and used for every later picture.
SkipSlice(c) == CtuSlice(Kind, PocLsb(frameIndex), c, InterSkip)
CachedSkipSlice(c) ==
    IF CtuCount <= 1 \/ payloads[c] = NoPayload THEN SkipSlice(c) ELSE payloads[c]

CtuSlices(body) ==
    CtuSlicesPicture(Kind, PocLsb(frameIndex),
        {IF body[c] = InterSkip THEN CachedSkipSlice(c)
         ELSE CtuSlice(Kind, PocLsb(frameIndex), c, body[c]) : c \in Ctu})

WritesCtuSlices(body, sliced) == sliced /\ \E c \in Ctu : body[c] # InterSkip

\* The picture parameter sets written at the start of the stream.
ParameterSets ==
    {pps \in {0, 1} : IF pps = 0 THEN ~IsPredictive \/ SlicedSupported ELSE IsPredictive}

-----------------------------------------------------------------------------
(* The encode loop *)

Init ==
    /\ options \in Options
    /\ active = TRUE
    /\ cache = NoCache
    /\ payloads = [c \in Ctu |-> NoPayload]
    /\ frameIndex = 0
    /\ call = NoCall
    /\ decoder = EmptyDecoder(ParameterSets)

Deliver(frame, recon, picture) ==
    /\ call' = [source |-> frame, recon |-> recon, picture |-> picture]
    /\ decoder' = DecodePicture(decoder, picture)
    /\ frameIndex' = frameIndex + 1
    /\ UNCHANGED <<options, active>>

\* A frame equal to the last one: one all-skip slice, the cache stays.
EncodeRepeat(frame) ==
    /\ active /\ frameIndex < MaxFrames
    /\ IsRepeat(frame)
    /\ Deliver(frame, Cache.recon, FrameSlice([c \in Ctu |-> InterSkip]))
    /\ cache' = Cache
    /\ UNCHANGED payloads

\* Every other frame.  "explicit": vectors were found; "v" are those kept,
\* "quantised" is what coding each CTU would reconstruct to.
EncodeFrame(frame) ==
    /\ active /\ frameIndex < MaxFrames
    /\ ~IsRepeat(frame)
    /\ \E explicit \in BOOLEAN, v \in ExplicitVectors(frame), quantised \in Near(frame) :
        /\ IsExplicitFrame(frame, v, explicit)
        /\ LET candidates == SkipCandidates(frame, explicit)
               skipped == Skipped(frame, quantised, candidates)
               sliced == IsSlicedFrame(candidates, explicit)
               recon == Reconstruction(quantised, skipped)
               body == Payloads(recon, skipped, v, IsMixedFrame(candidates, explicit), sliced)
           IN  /\ Deliver(frame, recon, IF WritesCtuSlices(body, sliced) THEN CtuSlices(body)
                                        ELSE FrameSlice(body))
               /\ cache' = IF IsPredictive THEN [source |-> frame, recon |-> recon] ELSE Cache
               /\ payloads' = IF WritesCtuSlices(body, sliced) /\ CtuCount > 1
                              THEN [c \in Ctu |-> IF c \in skipped THEN CachedSkipSlice(c) ELSE payloads[c]]
                              ELSE payloads

\* End of input, the frame limit, or a failed read or write ends the loop, and
\* with it every variable here.
Stop ==
    /\ active
    /\ active' = FALSE
    /\ UNCHANGED <<options, cache, payloads, frameIndex, call, decoder>>

Next ==
    \/ \E frame \in Frame : EncodeRepeat(frame)
    \/ \E frame \in Frame : EncodeFrame(frame)
    \/ Stop

Spec == Init /\ [][Next]_vars

-----------------------------------------------------------------------------
(* Properties *)

\* The closed loop of the codec: every picture could be decoded, the decoder
\* shows the reconstruction the loop reported, and the picture it will predict
\* from is the one in the predictive cache - through skipped CTUs, explicit
\* vectors, CTU slices taken from the payload cache and wrapped order counts.
ClosedLoop ==
    /\ decoder.sound
    /\ decoder.picture = call.recon
    /\ cache # NoCache => decoder.picture = cache.recon

\* A frame is shown within one quantisation or one skip threshold of its own
\* source, however long its CTUs have been skipped: a CTU is skipped because
\* its source is the cached one or close to the cached reconstruction, so the
\* error of one frame is not carried into the next.
ErrorDoesNotAccumulate ==
    call # NoCall => \A c \in Ctu :
        Distance(decoder.picture[c], call.source[c]) <=
            IF Lossless \/ Tolerance > SkipDelta THEN Tolerance ELSE SkipDelta

\* A slice taken from the payload cache is the slice that would be written for
\* the frame at hand, though the cache key leaves out the order count.
CachedSlicesAreCurrent ==
    \A c \in Ctu : payloads[c] # NoPayload => payloads[c] = SkipSlice(c)

\* A CTU is quantised with the single tree of inter slices only if the slice it
\* is written in is a P slice; in an I slice a decoder parses the dual tree
\* (sps_qtbtt_dual_tree_intra_flag).
InterTreeInPSlices ==
    call # NoCall => \A s \in call.picture.slices : \A c \in s.ctus :
        s.body[c].tree = "inter" => s.type = "P"
=============================================================================

--------------------------- MODULE Av2TileWorkers ---------------------------
(***************************************************************************)
(* One encode_frame call of Av2Stream taken apart, for lossless predictive *)
(* coding: motion search block by block, the mode of every tile, the tile  *)
(* payloads coded by one worker thread per tile (av2/predictive.rs and     *)
(* av2/headers/payloads.rs), joined in tile order and assembled into the   *)
(* picture that is written.  The workers share only what no one writes     *)
(* during the call; what they must not do is let the order in which they   *)
(* finish reach the stream.                                                *)
(*                                                                         *)
(* A tile payload is the sequence of its blocks' modes in raster order,    *)
(* with vectors: it names no position, so a payload put into another       *)
(* tile's place decodes to something else.  A worker that panics takes the *)
(* caller with it (join().expect), which ends the process.                 *)
(***************************************************************************)
EXTENDS Av2Stream, Av2MotionSearch

CONSTANTS
    TileOrder,      \* the tiles in the order of Av2TileLayout::regions
    Inputs          \* the pictures TLC submits

TilesAssumption ==
    /\ Coding = "lossless" /\ IsPredictive
    /\ Block = Grid
    /\ TileOrder \in Seq(Tile) /\ Len(TileOrder) = Cardinality(Tile)
    /\ \A t \in Tile : \E k \in DOMAIN TileOrder : TileOrder[k] = t
    /\ Inputs \subseteq Frame
ASSUME TilesAssumption

VARIABLES
    phase,      \* "idle", or what the running call is doing
    input,      \* the frame of the running call
    kind,       \* the unit being made: "key", "inter" or "sef"
    found,      \* the motion map so far: a vector per block or NoVector
    searched,   \* blocks searched so far
    indexed,    \* reference_hash_index.is_some()
    modes,      \* tile_modes
    payloads,   \* what each worker has produced
    joined      \* tile_payloads: what the caller has collected

jobVars == <<phase, input, kind, found, searched, indexed, modes, payloads, joined>>
vars == <<streamVars, jobVars>>

NoPayload == <<>>

-----------------------------------------------------------------------------
(* Tiles and their payloads *)

RasterBefore(b, c) == b[1] < c[1] \/ (b[1] = c[1] /\ b[2] < c[2])

\* The blocks of a tile in the order its payload lists them.
Raster(tile) ==
    LET before(b) == {c \in BlocksOf(tile) : RasterBefore(c, b)}
    IN  [i \in 1..Cardinality(BlocksOf(tile)) |->
            CHOOSE b \in BlocksOf(tile) : Cardinality(before(b)) = i - 1]

\* Av2PredictiveTileMode of a tile, from the motion map.
TileMode(tile, frame) ==
    LET matched == {b \in BlocksOf(tile) : found[b] # NoVector}
    IN  IF Unchanged(tile, frame) THEN "ZeroMv"
        ELSE IF matched = BlocksOf(tile)
        THEN IF \E b \in matched : \A c \in matched : found[c] = found[b]
             THEN "NewMv" ELSE "Mixed"
        ELSE IF matched # {} THEN "MixedInterIntraOrResidual" ELSE "Intra"

IntraMode(value) == [inter |-> FALSE, vector |-> ZeroVector, residual |-> value]
InterMode(v, residual) == [inter |-> TRUE, vector |-> v, residual |-> residual]

\* Mutant: a block without a vector is copied from its own position.
MutPartlyMatched(b, asResidual) ==
    IF found[b] # NoVector THEN InterMode(found[b], 0)
    ELSE IF asResidual THEN InterMode(ZeroVector, 0)
    ELSE IntraMode(input[b])

\* The blocks the motion map has no vector for, coded as residuals or as intra.
PartlyMatched(b, asResidual) ==
    IF found[b] # NoVector THEN InterMode(found[b], 0)
    ELSE IF asResidual THEN InterMode(ZeroVector, input[b] - reference[b])
    ELSE IntraMode(input[b])

TileBlock(b, asResidual) ==
    IF kind = "key" \/ modes[TileOf[b]] = "Intra" THEN IntraMode(input[b])
    ELSE IF modes[TileOf[b]] = "ZeroMv" THEN InterMode(ZeroVector, 0)
    ELSE IF modes[TileOf[b]] \in {"NewMv", "Mixed"} THEN InterMode(found[b], 0)
    ELSE PartlyMatched(b, asResidual)

\* av2_lossless_predictive_tile_payload_for_mode: what a worker may return.
\* Residual or intra, whichever is smaller, is decided within the worker.
TilePayload(tile, asResidual) ==
    [i \in DOMAIN Raster(tile) |-> TileBlock(Raster(tile)[i], asResidual)]
TilePayloads(tile) == {TilePayload(tile, asResidual) : asResidual \in BOOLEAN}

\* The decoder hands the k-th payload of the tile group to the k-th tile.
PayloadAt(b) ==
    LET k == CHOOSE i \in DOMAIN TileOrder : TileOrder[i] = TileOf[b]
        i == CHOOSE j \in DOMAIN Raster(TileOf[b]) : Raster(TileOf[b])[j] = b
    IN  joined[k][i]

TileGroup ==
    [b \in Block |->
        IF PayloadAt(b).inter
        THEN ResidualBlock(Plus(b, PayloadAt(b).vector), PayloadAt(b).residual)
        ELSE IntraBlock(b, PayloadAt(b).residual)]

\* What the call hands to the writer.
Assembled ==
    IF kind = "sef" THEN LosslessSef(input)
    ELSE IF kind = "inter" THEN LosslessInter(input, TileGroup)
    ELSE [LosslessKey(input) EXCEPT !.unit.body = TileGroup]

-----------------------------------------------------------------------------
(* Steps of a call *)

NothingCoded == payloads = [t \in Tile |-> NoPayload] /\ joined = <<>>

Init ==
    /\ StreamInit
    /\ phase = "idle"
    /\ input = NoFrame
    /\ kind = "key"
    /\ found = [b \in Block |-> NoVector]
    /\ searched = {}
    /\ indexed = FALSE
    /\ modes = [t \in Tile |-> "Intra"]
    /\ NothingCoded

\* encode_frame_inner up to the first tile: a frame equal to the reference is
\* shown again, one with a reference is searched for motion, others are keys.
Submit(frame) ==
    /\ phase = "idle" /\ status = "Active" /\ frameIndex < MaxFrames
    /\ input' = frame
    /\ IF IsPredictiveFrame(frameIndex) /\ Reference = frame
       THEN phase' = "write" /\ kind' = "sef"
       ELSE IF IsPredictiveFrame(frameIndex) /\ Reference # NoFrame /\ InterLayoutOk
       THEN phase' = "search" /\ kind' = "inter"
       ELSE phase' = "tiles" /\ kind' = "key"
    /\ UNCHANGED <<streamVars, found, searched, indexed, modes, payloads, joined>>

\* The blocks of motion_search_mask: those of the tiles that changed.
Masked == {b \in Block : TileOf[b] \in ChangedTiles(input)}

\* Mutant: the scan stays at a block without a match.
MutSearchBlock ==
    /\ phase = "search"
    /\ \E b \in Masked \ searched :
        /\ \A c \in Masked \ searched : c = b \/ RasterBefore(b, c)
        /\ LET result == SearchStep(input, b, reference, found, indexed)
           IN  /\ found' = [found EXCEPT ![b] = result.vector]
               /\ indexed' = result.indexed
               /\ searched' = IF result.vector = NoVector THEN searched ELSE searched \cup {b}
    /\ UNCHANGED <<streamVars, phase, input, kind, modes, payloads, joined>>

\* One block of the raster scan in build_lossless_motion_map_with_regions.
SearchBlock ==
    /\ phase = "search"
    /\ \E b \in Masked \ searched :
        /\ \A c \in Masked \ searched : c = b \/ RasterBefore(b, c)
        /\ LET result == SearchStep(input, b, reference, found, indexed)
           IN  /\ found' = [found EXCEPT ![b] = result.vector]
               /\ indexed' = result.indexed
        /\ searched' = searched \cup {b}
    /\ UNCHANGED <<streamVars, phase, input, kind, modes, payloads, joined>>

\* tile_modes; without an inter tile the function returns None and the caller
\* codes a key picture.
ChooseModes ==
    /\ phase = "search" /\ searched = Masked
    /\ modes' = [t \in Tile |-> TileMode(t, input)]
    /\ phase' = "tiles"
    /\ kind' = IF \A t \in Tile : modes'[t] = "Intra" THEN "key" ELSE "inter"
    /\ UNCHANGED <<streamVars, input, found, searched, indexed, payloads, joined>>

\* A worker thread finishes its tile, in no particular order.
CodeTile(tile) ==
    /\ phase = "tiles" /\ payloads[tile] = NoPayload
    /\ \E p \in TilePayloads(tile) : payloads' = [payloads EXCEPT ![tile] = p]
    /\ UNCHANGED <<streamVars, phase, input, kind, found, searched, indexed, modes, joined>>

\* handle.join() on the handles in the order of the regions.
JoinNext ==
    /\ phase = "tiles" /\ Len(joined) < Len(TileOrder)
    /\ LET tile == TileOrder[Len(joined) + 1]
       IN  payloads[tile] # NoPayload /\ joined' = Append(joined, payloads[tile])
    /\ UNCHANGED <<streamVars, phase, input, kind, found, searched, indexed, modes, payloads>>

\* tile_group_payload_from_entropy and append_obu, once all tiles are there.
Assemble ==
    /\ phase = "tiles" /\ Len(joined) = Len(TileOrder)
    /\ phase' = "write"
    /\ UNCHANGED <<streamVars, input, kind, found, searched, indexed, modes, payloads, joined>>

\* The call returns; what it worked on is dropped.
ClearJob ==
    /\ phase' = "idle"
    /\ input' = NoFrame
    /\ kind' = "key"
    /\ found' = [b \in Block |-> NoVector]
    /\ searched' = {}
    /\ indexed' = FALSE
    /\ modes' = [t \in Tile |-> "Intra"]
    /\ payloads' = [t \in Tile |-> NoPayload]
    /\ joined' = <<>>

Deliver == phase = "write" /\ DeliverUnit(input, Assembled) /\ ClearJob
WriteFails == phase = "write" /\ TearUnit(input, Assembled) /\ ClearJob
LaterFails == phase = "write" /\ LoseUnit(input, Assembled) /\ ClearJob

\* Calls that code nothing; the session is borrowed while a call runs.
OtherCall ==
    /\ phase = "idle"
    /\ RefuseFrame \/ Finish
    /\ UNCHANGED jobVars

CallStep ==
    \/ SearchBlock
    \/ ChooseModes
    \/ \E t \in Tile : CodeTile(t)
    \/ JoinNext
    \/ Assemble
    \/ Deliver

Next ==
    \/ \E frame \in Inputs : Submit(frame)
    \/ CallStep
    \/ WriteFails
    \/ LaterFails
    \/ OtherCall

\* The caller's thread and every worker are scheduled as long as they can run.
Spec == Init /\ [][Next]_vars /\ WF_vars(CallStep)

-----------------------------------------------------------------------------
(* Properties *)

\* Taken as one step, a call does what Av2Stream says of it, in whatever order
\* the workers finish: the motion map found is one of MotionMaps, the modes and
\* the assembled payloads give one of LosslessCodings, and a failing write ends
\* the stream.  ("input" is the witness for the frame of StreamNext.)
ImplementsStream ==
    [][ IF phase = "write"
        THEN EncodeFrame(input) \/ BitstreamWriteFails(input) \/ LaterWriteFails(input)
        ELSE RefuseFrame \/ Finish ]_streamVars

\* Every call comes back, whichever branch it takes: no join waits for a
\* worker that was never started and no assembly for a payload that never comes.
CallReturns == phase # "idle" ~> phase = "idle"
=============================================================================

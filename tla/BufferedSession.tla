--------------------------- MODULE BufferedSession ---------------------------
(***************************************************************************)
(* The buffered owned-frame session (codecs/session.rs,                    *)
(* BufferedStreamEncoderSession), used by the VVC codec: encode_frame only *)
(* collects frames, and the first flush runs the whole-stream encoder over *)
(* them through a Cursor.  The stream encoder is modelled at the level of  *)
(* vvc/encode.rs: parameter sets, then per frame a read, the coded picture,*)
(* the reconstruction and the metrics callback, then the check for trailing*)
(* input.                                                                  *)
(***************************************************************************)
EXTENDS Sequences, Naturals

CONSTANTS
    SessionFrames,  \* frames of the configured format
    FrameLimit,     \* config.frame_limit, or NoLimit
    NoLimit,
    ReconstructionMode, \* config.reconstruction: "none", "metrics" or "frames"
    MaxCollected    \* bound on the frames of a session, for TLC

BufferedAssumption ==
    /\ FrameLimit \in Nat \cup {NoLimit}
    /\ NoLimit \notin Nat
    /\ ReconstructionMode \in {"none", "metrics", "frames"}
    /\ MaxCollected \in Nat
ASSUME BufferedAssumption

VARIABLES
    collected,   \* the frames accepted, kept until the session is dropped
    closed,      \* flushed of the code
    where,       \* "idle", or where the running flush is
    cursor,      \* frames the stream encoder has read of its input
    bitstream,   \* pictures written to the local bitstream buffer
    recon,       \* pictures written to the local reconstruction buffer
    metrics,     \* frame indices reported to the metrics callback
    delivered,   \* the VideoEncodeOutputs with a chunk, in order
    failed,      \* a flush has returned an error
    reply        \* what the last completed call returned

flushVars == <<where, cursor, bitstream, recon, metrics>>
bufferedVars == <<collected, closed, flushVars, delivered, failed, reply>>

BufferedInit ==
    /\ collected = <<>>
    /\ closed = FALSE
    /\ where = "idle"
    /\ cursor = 0
    /\ bitstream = <<>>
    /\ recon = <<>>
    /\ metrics = <<>>
    /\ delivered = <<>>
    /\ failed = FALSE
    /\ reply = "none"

AtLimit == FrameLimit # NoLimit /\ Len(collected) >= FrameLimit

-----------------------------------------------------------------------------
(* encode_frame *)

\* Mutant: the limit is compared with > instead of >=.
MutSubmit(f) ==
    /\ where = "idle" /\ ~closed
    /\ ~(FrameLimit # NoLimit /\ Len(collected) > FrameLimit)
    /\ collected' = Append(collected, f)
    /\ reply' = "empty"
    /\ UNCHANGED <<closed, flushVars, delivered, failed>>

Submit(f) ==
    /\ where = "idle" /\ ~closed
    /\ ~AtLimit
    /\ collected' = Append(collected, f)
    /\ reply' = "empty"
    /\ UNCHANGED <<closed, flushVars, delivered, failed>>

\* The frame is not of the configured format, or one too many.
SubmitRejected ==
    /\ where = "idle" /\ ~closed
    /\ reply' = "rejected"
    /\ UNCHANGED <<collected, closed, flushVars, delivered, failed>>

SubmitAfterFlush ==
    /\ where = "idle" /\ closed
    /\ reply' = "after flush"
    /\ UNCHANGED <<collected, closed, flushVars, delivered, failed>>

-----------------------------------------------------------------------------
(* flush *)

\* flushed is set before anything can fail.
FlushFirst ==
    /\ where = "idle" /\ ~closed
    /\ closed' = TRUE
    /\ where' = "parameters"
    /\ UNCHANGED <<collected, cursor, bitstream, recon, metrics, delivered, failed, reply>>

FlushAgain ==
    /\ where = "idle" /\ closed
    /\ reply' = "empty"
    /\ UNCHANGED <<collected, closed, flushVars, delivered, failed>>

\* Every error of the stream encoder, and of the splitting of the
\* reconstruction after it, leaves flush with ? and drops the local buffers.
FlushError ==
    /\ where' = "idle"
    /\ bitstream' = <<>> /\ recon' = <<>> /\ metrics' = <<>>
    /\ failed' = TRUE
    /\ reply' = "failed"
    /\ UNCHANGED <<collected, closed, cursor, delivered>>

\* The request is validated against the profile, then SPS and PPS are written.
WriteParameterSets ==
    /\ where = "parameters"
    /\ where' = "frames"
    /\ UNCHANGED <<collected, closed, cursor, bitstream, recon, metrics, delivered, failed, reply>>

ParametersFail == where = "parameters" /\ FlushError

\* frame_limit is Some(frame_count); FrameLimit::from_frame_count reads a count
\* of zero as "until the end of the input".
ShouldRead == IF Len(collected) = 0 THEN TRUE ELSE Len(bitstream) < Len(collected)

EncodeNext ==
    /\ where = "frames"
    /\ ShouldRead /\ cursor < Len(collected)
    /\ cursor' = cursor + 1
    /\ bitstream' = Append(bitstream, collected[cursor + 1])
    /\ recon' = IF ReconstructionMode = "frames" THEN Append(recon, collected[cursor + 1]) ELSE recon
    /\ metrics' = IF ReconstructionMode = "none" THEN metrics ELSE Append(metrics, Len(bitstream))
    /\ UNCHANGED <<collected, closed, where, delivered, failed, reply>>

EncodeFails ==
    /\ where = "frames"
    /\ ShouldRead /\ cursor < Len(collected)
    /\ FlushError

\* Mutant: the end of the input does not end the loop.
MutEncodeDone ==
    /\ where = "frames"
    /\ ~ShouldRead
    /\ where' = "output"
    /\ UNCHANGED <<collected, closed, cursor, bitstream, recon, metrics, delivered, failed, reply>>

\* The loop ends: at the requested count, or at the end of the input when the
\* count is zero.  The input was made of exactly the frames asked for, so the
\* check for trailing bytes and the short-read error cannot fail.
EncodeDone ==
    /\ where = "frames"
    /\ ~ShouldRead \/ cursor = Len(collected)
    /\ where' = "output"
    /\ UNCHANGED <<collected, closed, cursor, bitstream, recon, metrics, delivered, failed, reply>>

\* Mutant: a failed split still hands out the chunk.
MutSplitFails ==
    /\ where = "output" /\ recon # <<>>
    /\ where' = "idle"
    /\ delivered' = Append(delivered, [chunk |-> bitstream, recon |-> <<>>, metrics |-> metrics])
    /\ bitstream' = <<>> /\ recon' = <<>> /\ metrics' = <<>>
    /\ failed' = TRUE
    /\ reply' = "failed"
    /\ UNCHANGED <<collected, closed, cursor>>

\* split_reconstructions finds a length that is no multiple of the frame's.
SplitFails == where = "output" /\ recon # <<>> /\ FlushError

DeliverChunk ==
    /\ where = "output"
    /\ delivered' = Append(delivered, [chunk |-> bitstream, recon |-> recon, metrics |-> metrics])
    /\ where' = "idle"
    /\ bitstream' = <<>> /\ recon' = <<>> /\ metrics' = <<>>
    /\ reply' = "output"
    /\ UNCHANGED <<collected, closed, cursor, failed>>

FlushStep == WriteParameterSets \/ EncodeNext \/ EncodeDone \/ DeliverChunk
FlushFails == ParametersFail \/ EncodeFails \/ SplitFails

BufferedNext ==
    \/ \E f \in SessionFrames : Len(collected) < MaxCollected /\ Submit(f)
    \/ SubmitRejected \/ SubmitAfterFlush
    \/ FlushFirst \/ FlushAgain
    \/ FlushStep \/ FlushFails

\* flush is synchronous: once entered it runs to its return, and that does not
\* rest on a failure.
BufferedSpec == BufferedInit /\ [][BufferedNext]_bufferedVars /\ WF_bufferedVars(FlushStep)

-----------------------------------------------------------------------------
(* Properties *)

\* A flush delivers all frames accepted before it, in order, in one chunk, with
\* one reconstruction and one metrics record per frame where the configuration
\* asks for them; a failed flush delivers nothing, and nothing is delivered
\* twice (buffered_session_flush_is_idempotent_and_then_closed).
DeliveredOnce ==
    /\ delivered = <<>> \/ (~failed /\ Len(delivered) = 1 /\
         delivered[1] = [chunk |-> collected,
                         recon |-> IF ReconstructionMode = "frames" THEN collected ELSE <<>>,
                         metrics |-> IF ReconstructionMode = "none" THEN <<>>
                                     ELSE [i \in DOMAIN collected |-> i - 1]])
    /\ closed /\ where = "idle" => failed \/ delivered # <<>>

\* A flush returns.
FlushReturns == []<>(where = "idle")

Phase == IF failed THEN "failed" ELSE IF delivered # <<>> THEN "flushed" ELSE "open"

Contract == INSTANCE EncoderSession
    WITH phase <- Phase, accepted <- Len(collected), Delayed <- TRUE

\* Up to the first failed flush the buffered session keeps the contract of
\* VideoEncoderSession, with the output held back.
KeepsContractUntilFailure ==
    Contract!SessionInit /\ [][Contract!SessionNext \/ failed]_<<failed, delivered, collected, reply>>

\* "A failed session must continue reporting failure" (api/src/video.rs, flush).
FailureIsReported == [][failed => reply' # "empty"]_<<reply, bufferedVars>>
=============================================================================

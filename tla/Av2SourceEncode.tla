--------------------------- MODULE Av2SourceEncode ---------------------------
(***************************************************************************)
(* The source-driven AV2 encode (av2/encode.rs,                            *)
(* av2_encode_fixed_black_444_with_options_and_frame_metrics, called from  *)
(* session.rs::encode_stream_from_source): one loop that pulls a frame     *)
(* through RawVideoFrameSourceReadAdapter, encodes it into the caller's    *)
(* writer, and finishes the encoder after the last one.                    *)
(***************************************************************************)
EXTENDS Av2Stream

CONSTANTS FrameLimits, \* the values of config.frame_limit considered
          Unlimited

SourceAssumption ==
    /\ FrameLimits \subseteq Nat \cup {Unlimited}
    /\ Unlimited \notin Nat
ASSUME SourceAssumption

VARIABLES
    frame_limit, \* config.frame_limit
    loop,        \* "read", "encode", "finish" or "done"
    available,   \* frames the source still holds
    frames_read, \* frames_read of the adapter
    offered,     \* frames the source held at the start
    result       \* what the call returned: "none", "ok" or "error"

loopVars == <<frame_limit, loop, available, frames_read, offered, result>>
sourceVars == <<streamVars, loopVars>>

LoopInit ==
    /\ StreamInit
    /\ frame_limit \in FrameLimits
    /\ loop = "read"
    /\ offered \in 0..MaxFrames
    /\ available = offered
    /\ frames_read = 0
    /\ result = "none"

\* frame_limit.unwrap_or(0), then FrameLimit::from_frame_count: no limit and a
\* limit of zero both read until the end of the input.
UntilEof == frame_limit \in {Unlimited, 0}

\* Mutant: the loop stops one frame before the limit.
MutShouldRead == IF UntilEof THEN TRUE ELSE frameIndex + 1 < frame_limit

ShouldRead == IF UntilEof THEN TRUE ELSE frameIndex < frame_limit

\* The adapter's own limit (with_frame_limit) ends the input early.
AdapterAtEnd ==
    \/ available = 0
    \/ IF frame_limit = Unlimited THEN FALSE ELSE frames_read >= frame_limit

Return(value) == loop' = "done" /\ result' = value

StopReading ==
    /\ loop = "read"
    /\ ~ShouldRead
    /\ loop' = "finish"
    /\ UNCHANGED <<streamVars, frame_limit, available, frames_read, offered, result>>

ReadNextFrame ==
    /\ loop = "read"
    /\ ShouldRead
    /\ ~AdapterAtEnd
    /\ loop' = "encode"
    /\ available' = available - 1
    /\ frames_read' = frames_read + 1
    /\ UNCHANGED <<streamVars, frame_limit, offered, result>>

\* Mutant: the end of the input is read again.
MutReadEnd ==
    /\ loop = "read"
    /\ ShouldRead
    /\ AdapterAtEnd
    /\ loop' = IF UntilEof THEN "read" ELSE "finish"
    /\ UNCHANGED <<streamVars, frame_limit, available, frames_read, offered, result>>

\* The end of the input: the end of the stream, or an error when an exact
\* number of frames was asked for (read_exact).
ReadEnd ==
    /\ loop = "read"
    /\ ShouldRead
    /\ AdapterAtEnd
    /\ IF UntilEof THEN loop' = "finish" /\ UNCHANGED result ELSE Return("error")
    /\ UNCHANGED <<streamVars, frame_limit, available, frames_read, offered>>

ReadFails ==
    /\ loop = "read"
    /\ ShouldRead
    /\ ~AdapterAtEnd
    /\ Return("error")
    /\ UNCHANGED <<streamVars, frame_limit, available, frames_read, offered>>

EncodeOk ==
    /\ loop = "encode"
    /\ \E frame \in Frame : EncodeFrame(frame)
    /\ loop' = "read"
    /\ UNCHANGED <<frame_limit, available, frames_read, offered, result>>

EncodeFails ==
    /\ loop = "encode"
    /\ \E frame \in Frame :
        \/ BitstreamWriteFails(frame)
        \/ LaterWriteFails(frame)
        \/ ModeDecisionFails(frame)
    /\ Return("error")
    /\ UNCHANGED <<frame_limit, available, frames_read, offered>>

FinishStream ==
    /\ loop = "finish"
    /\ Finish
    /\ Return(IF status = "Failed" THEN "error" ELSE "ok")
    /\ UNCHANGED <<frame_limit, available, frames_read, offered>>

LoopProgress == StopReading \/ ReadNextFrame \/ ReadEnd \/ EncodeOk \/ FinishStream

LoopNext == LoopProgress \/ ReadFails \/ EncodeFails

\* One thread runs the loop and every call in it returns, whether or not a
\* call fails.
LoopSpec == LoopInit /\ [][LoopNext]_sourceVars /\ WF_sourceVars(LoopProgress)

-----------------------------------------------------------------------------

Wanted == IF frame_limit = Unlimited THEN offered
          ELSE IF frame_limit < offered THEN frame_limit ELSE offered

\* A successful encode consumed exactly the frames asked for, each became one
\* unit a decoder can show, and the encoder was finished.
SuccessIsComplete ==
    result = "ok" =>
        /\ status = "Finished"
        /\ frameIndex = Wanted
        /\ decoder.sound /\ decoder.next = Wanted

\* "VideoEncoderConfig::frame_limit is an optional upper bound"
\* (docs/api-v0.md): the encode returns an error because a frame could not be
\* read, coded or written, never because the source ended below the limit.
LimitIsUpperBound == result = "error" => status = "Failed" \/ available > 0

\* The encode returns, whatever the source and the sinks do.
Terminates == <>(loop = "done")
=============================================================================

----------------------------- MODULE Av2Session -----------------------------
(***************************************************************************)
(* The owned-frame session of the AV2 codec (av2/session.rs,               *)
(* Av2EncoderSession): the checks around Av2StreamEncoder, and the contract*)
(* of EncoderSession it implements.  The sinks of a call are local         *)
(* vectors: an error drops them, and only statistics output can fail to    *)
(* write.                                                                  *)
(***************************************************************************)
EXTENDS Av2Stream

CONSTANTS FrameLimit, NoLimit

SessionAssumption ==
    /\ FrameLimit \in Nat \cup {NoLimit}
    /\ NoLimit \notin Nat
ASSUME SessionAssumption

VARIABLE reply

vars == <<streamVars, reply>>

Init == StreamInit /\ reply = "none"

\* encode_frame, first check: the session was flushed.
SubmitAfterFlush ==
    /\ status = "Finished"
    /\ reply' = "after flush"
    /\ UNCHANGED streamVars

\* ensure_active: the stored failure is returned again.
SubmitAfterFailure ==
    /\ status = "Failed"
    /\ reply' = "failed"
    /\ UNCHANGED streamVars

\* The frame is not of the configured geometry and format.
SubmitWrongInfo ==
    /\ status = "Active"
    /\ reply' = "rejected"
    /\ UNCHANGED streamVars

AtLimit == FrameLimit # NoLimit /\ frameIndex >= FrameLimit

\* FrameLimitExceeded.
SubmitBeyondLimit ==
    /\ status = "Active"
    /\ AtLimit
    /\ reply' = "rejected"
    /\ UNCHANGED streamVars

\* Mutant: the limit is compared with > instead of >=.
MutSubmit(frame) ==
    /\ frameIndex < MaxFrames
    /\ ~(FrameLimit # NoLimit /\ frameIndex > FrameLimit)
    /\ EncodeFrame(frame)
    /\ reply' = "output"

Submit(frame) ==
    /\ frameIndex < MaxFrames
    /\ ~AtLimit
    /\ EncodeFrame(frame)
    /\ reply' = "output"

SubmitFails(frame) ==
    /\ frameIndex < MaxFrames
    /\ ~AtLimit
    /\ OutputDropped(frame) \/ ModeDecisionFails(frame)
    /\ reply' = "failed"

\* The frame is coded, but Frame::new refuses the reconstruction bytes: the
\* chunk is dropped and the encoder failed from outside.
ReconstructionFrameFails(frame) ==
    /\ frameIndex < MaxFrames
    /\ ~AtLimit
    /\ status = "Active"
    /\ \E c \in Codings(frame) : headersWritten' = c.headers
    /\ Fail
    /\ frameIndex' = frameIndex + 1
    /\ unitsWritten' = unitsWritten + 1
    /\ call' = FailedCall(frame)
    /\ reply' = "failed"
    /\ UNCHANGED <<decoder, seeker>>

Flush ==
    /\ Finish
    /\ reply' = IF status = "Failed" THEN "failed" ELSE "empty"

Next ==
    \/ SubmitAfterFlush
    \/ SubmitAfterFailure
    \/ SubmitWrongInfo
    \/ SubmitBeyondLimit
    \/ \E frame \in Frame :
          Submit(frame) \/ SubmitFails(frame) \/ ReconstructionFrameFails(frame)
    \/ Flush

Spec == Init /\ [][Next]_vars

-----------------------------------------------------------------------------

Phase == [Active |-> "open", Finished |-> "flushed", Failed |-> "failed"][status]

Contract == INSTANCE EncoderSession
    WITH phase <- Phase, accepted <- frameIndex, Delayed <- FALSE

\* The AV2 session keeps the promises of VideoEncoderSession: rejected input
\* and calls after the end change nothing, the limit is an upper bound, a
\* failure is terminal and reported by every later call.
KeepsContract == Contract!SessionSpec
=============================================================================

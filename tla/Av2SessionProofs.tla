--------------------------- MODULE Av2SessionProofs ---------------------------
(***************************************************************************)
(* The two ways an AV2 stream encoder is driven, for every picture size,   *)
(* layout, limit and quantiser: what holds of the encoder holds under the  *)
(* owned-frame session, which keeps the contract of VideoEncoderSession,   *)
(* and under the source-driven encode, which returns without an error only *)
(* when every frame it was asked for was coded and shown.                  *)
(***************************************************************************)
EXTENDS Av2Session, Av2SourceEncode, Av2StreamProofs

-----------------------------------------------------------------------------
(* The owned-frame session *)

SessionInv == IInv /\ DisplayOrder

-----------------------------------------------------------------------------
(* The stream encoder under the session *)

\* Failing the encoder from outside is not a step of the encoder.
LEMMA ReconstructionFrameFailsIInv ==
    ASSUME IInv, NEW frame \in Frame, ReconstructionFrameFails(frame)
    PROVE  IInv'
<1>1. /\ EntryOK /\ decoder \in DecoderState /\ seeker \in DecoderState
      /\ unitsWritten \in Nat /\ frameIndex \in Nat
      /\ Sync /\ Follows(decoder, seeker)
  BY IInvEntry DEF IInv, TypeOK, ReconstructionFrameFails
<1>2. /\ Fail /\ call' = FailedCall(frame) /\ UNCHANGED <<decoder, seeker>>
      /\ frameIndex' \in Nat /\ unitsWritten' \in Nat
  BY <1>1 DEF ReconstructionFrameFails
<1>3. headersWritten' \in BOOLEAN
  BY <1>1, CodingsOK DEF ReconstructionFrameFails, CodingOK, CodedRecord
<1>4. ~Delivered' /\ call' \in CallRecord
  BY <1>2, FailedCallType DEF Delivered, MaybeFrame
<1>5. TypeOK'
  BY <1>1, <1>2, <1>3, <1>4, FailType DEF TypeOK
<1>6. reference' = NoFrame /\ reconstruction' = NoFrame /\ UnitsMatchFrames'
  BY <1>2 DEF Fail, UnitsMatchFrames
<1>7. Follows(decoder', seeker')
  BY <1>1, <1>2
<1>8. QED
  BY <1>2, <1>4, <1>5, <1>6, <1>7, FailType, EndedIInv

LEMMA SessionStep == SessionInv /\ [Next]_vars => SessionInv'
<1> SUFFICES ASSUME IInv, DisplayOrder, [Next]_vars PROVE IInv' /\ DisplayOrder'
  BY DEF SessionInv
<1>1. ASSUME UNCHANGED streamVars PROVE IInv' /\ DisplayOrder'
  BY <1>1, StutterIInv, OthersKeepOrder DEF streamVars, encoderVars
<1>2. ASSUME NEW frame \in Frame, EncodeFrame(frame) PROVE IInv' /\ DisplayOrder'
  BY <1>2, EncodeFrameIInv, EncodeFrameKeepsOrder
<1>3. ASSUME NEW frame \in Frame, OutputDropped(frame) \/ ModeDecisionFails(frame)
      PROVE  IInv' /\ DisplayOrder'
  BY <1>3, FailingIInv, OthersKeepOrder
     DEF OutputDropped, DropUnit, ModeDecisionFails, Fail
<1>4. ASSUME NEW frame \in Frame, ReconstructionFrameFails(frame) PROVE IInv' /\ DisplayOrder'
  BY <1>4, ReconstructionFrameFailsIInv, OthersKeepOrder DEF ReconstructionFrameFails, Fail
<1>5. CASE Finish
  BY <1>5, FinishIInv, OthersKeepOrder DEF Finish
<1>6. SubmitAfterFlush \/ SubmitAfterFailure \/ SubmitWrongInfo \/ SubmitBeyondLimit
      \/ UNCHANGED vars => UNCHANGED streamVars
  BY DEF SubmitAfterFlush, SubmitAfterFailure, SubmitWrongInfo, SubmitBeyondLimit, vars
<1>7. QED
  BY <1>1, <1>2, <1>3, <1>4, <1>5, <1>6 DEF Next, Submit, SubmitFails, Flush

LEMMA SessionInvariance == Spec => []SessionInv
<1>1. Init => SessionInv
  BY InitIInv DEF Init, SessionInv, StreamInit, EmptyDecoder, DisplayOrder
<1>2. QED
  BY <1>1, SessionStep, PTL DEF Spec

-----------------------------------------------------------------------------
(* Theorems *)

\* What is proved of the stream encoder holds under the session, which also
\* fails the encoder from outside (Av2EncoderSession::encode_frame).
THEOREM SessionLoopIsClosed ==
    Spec => [](TypeOK /\ ClosedLoop /\ ShownIsSource /\ KeyframesAreEntryPoints
               /\ DisplayOrder /\ UnitsMatchFrames)
<1>1. SessionInv => TypeOK /\ ClosedLoop /\ ShownIsSource /\ KeyframesAreEntryPoints
                    /\ DisplayOrder /\ UnitsMatchFrames
  BY DEF SessionInv, IInv, Sync, ClosedLoop, Follows, KeyframesAreEntryPoints
<1>2. QED
  BY <1>1, SessionInvariance, PTL

LEMMA StepKeepsContract ==
    SessionInv /\ [Next]_vars => [Contract!SessionNext]_<<Phase, frameIndex, reply>>
<1> SUFFICES ASSUME SessionInv, [Next]_vars
             PROVE  [Contract!SessionNext]_<<Phase, frameIndex, reply>>
  OBVIOUS
<1>1. status \in {"Active", "Finished", "Failed"} /\ frameIndex \in Nat
  BY DEF SessionInv, IInv, TypeOK
<1>2. /\ status = "Active" => Phase = "open"
      /\ status = "Finished" => Phase = "flushed"
      /\ status = "Failed" => Phase = "failed"
      /\ status' = "Active" => Phase' = "open"
      /\ status' = "Finished" => Phase' = "flushed"
      /\ status' = "Failed" => Phase' = "failed"
      /\ status' = status => Phase' = Phase
  BY DEF Phase
<1>3. ~AtLimit => FrameLimit = NoLimit \/ frameIndex < FrameLimit
  BY <1>1, SessionAssumption DEF AtLimit, SessionAssumption
<1>4. CASE SubmitAfterFlush
  BY <1>2, <1>4 DEF SubmitAfterFlush, streamVars, encoderVars, Contract!SessionNext, Contract!CallFlushed
<1>5. CASE SubmitAfterFailure
  BY <1>2, <1>5 DEF SubmitAfterFailure, streamVars, encoderVars, Contract!SessionNext, Contract!CallFailed
<1>6. CASE SubmitWrongInfo \/ SubmitBeyondLimit
  BY <1>2, <1>6 DEF SubmitWrongInfo, SubmitBeyondLimit, streamVars, encoderVars, Contract!SessionNext,
     Contract!Reject
<1>7. ASSUME NEW frame \in Frame, Submit(frame) PROVE Contract!SessionNext
  <2>1. status = "Active" /\ status' = "Active" /\ frameIndex' = frameIndex + 1 /\ reply' = "output"
    BY <1>7 DEF Submit, EncodeFrame, DeliverUnit
  <2>2. ~AtLimit
    BY <1>7 DEF Submit
  <2>3. QED
    BY <1>2, <1>3, <2>1, <2>2 DEF Contract!SessionNext, Contract!Accept
<1>8. ASSUME NEW frame \in Frame, SubmitFails(frame) \/ ReconstructionFrameFails(frame)
      PROVE  Contract!SessionNext
  <2>1. /\ ~AtLimit /\ status = "Active" /\ status' = "Failed" /\ reply' = "failed"
        /\ frameIndex' \in {frameIndex, frameIndex + 1}
    BY <1>8 DEF SubmitFails, OutputDropped, DropUnit, ModeDecisionFails, Fail, ReconstructionFrameFails
  <2>2. QED
    BY <1>2, <1>3, <2>1 DEF Contract!SessionNext, Contract!EncodeFails
<1>9. CASE Flush
  <2>1. frameIndex' = frameIndex
    BY <1>9 DEF Flush, Finish
  <2>2. CASE status = "Failed"
    BY <1>2, <1>9, <2>1, <2>2 DEF Flush, Finish, Contract!SessionNext, Contract!CallFailed
  <2>3. CASE status = "Finished"
    BY <1>2, <1>9, <2>1, <2>3 DEF Flush, Finish, Contract!SessionNext, Contract!CallFlushed
  <2>4. CASE status = "Active"
    BY <1>2, <1>9, <2>1, <2>4 DEF Flush, Finish, Contract!SessionNext, Contract!FlushOpen
  <2>5. QED
    BY <1>1, <2>2, <2>3, <2>4
<1>10. CASE UNCHANGED vars
  BY <1>2, <1>10 DEF vars, streamVars, encoderVars
<1>11. QED
  BY <1>4, <1>5, <1>6, <1>7, <1>8, <1>9, <1>10 DEF Next

\* The session keeps the promises of VideoEncoderSession: rejected input and
\* calls after the end change nothing, the limit is an upper bound, a failure
\* is terminal and reported by every later call.
THEOREM SessionKeepsContract == Spec => KeepsContract
<1>1. Init => Contract!SessionInit
  BY DEF Init, StreamInit, Phase, Contract!SessionInit
<1>2. QED
  BY <1>1, SessionInvariance, StepKeepsContract, PTL
     DEF Spec, KeepsContract, Contract!SessionSpec, Contract!sessionVars

-----------------------------------------------------------------------------
(* The source-driven encode, with a source of any length *)

USE SourceAssumption

\* The adapter and the encoder count the same frames, one apart while a frame
\* is being encoded, and the adapter never reads past its limit.
LoopInv ==
    /\ frame_limit \in Nat \cup {Unlimited}
    /\ available \in Nat /\ frames_read \in Nat /\ offered \in Nat
    /\ available + frames_read = offered
    /\ frame_limit # Unlimited => frames_read <= frame_limit
    /\ loop # "done" => status = "Active" /\ result = "none"
    /\ loop = "read" => frameIndex = frames_read
    /\ loop = "encode" => frameIndex + 1 = frames_read
    /\ loop = "finish" => frameIndex = Wanted
    /\ SuccessIsComplete

SourceInv == IInv /\ DisplayOrder /\ LoopInv

-----------------------------------------------------------------------------
(* The stream encoder under the loop *)

LEMMA EncoderStep ==
    ASSUME IInv, DisplayOrder, [LoopNext]_sourceVars
    PROVE  IInv' /\ DisplayOrder'
<1>1. ASSUME UNCHANGED streamVars PROVE IInv' /\ DisplayOrder'
  BY <1>1, StutterIInv, OthersKeepOrder DEF streamVars, encoderVars
<1>2. ASSUME NEW frame \in Frame, EncodeFrame(frame) PROVE IInv' /\ DisplayOrder'
  BY <1>2, EncodeFrameIInv, EncodeFrameKeepsOrder
<1>3. ASSUME NEW frame \in Frame,
             BitstreamWriteFails(frame) \/ LaterWriteFails(frame) \/ ModeDecisionFails(frame)
      PROVE  IInv' /\ DisplayOrder'
  BY <1>3, FailingIInv, OthersKeepOrder
     DEF BitstreamWriteFails, TearUnit, LaterWriteFails, LoseUnit, ModeDecisionFails, Fail
<1>4. CASE Finish
  BY <1>4, FinishIInv, OthersKeepOrder DEF Finish
<1>5. StopReading \/ ReadNextFrame \/ ReadEnd \/ ReadFails \/ UNCHANGED sourceVars
          => UNCHANGED streamVars
  BY DEF StopReading, ReadNextFrame, ReadEnd, ReadFails, sourceVars
<1>6. QED
  BY <1>1, <1>2, <1>3, <1>4, <1>5 DEF LoopNext, LoopProgress, EncodeOk, EncodeFails, FinishStream

-----------------------------------------------------------------------------
(* The loop *)

LEMMA LoopStart == LoopInit => LoopInv
<1> SUFFICES ASSUME LoopInit PROVE LoopInv
  OBVIOUS
<1>1. frame_limit \in Nat \cup {Unlimited} /\ offered \in Nat /\ frames_read = 0 /\ available = offered
  BY DEF LoopInit, SourceAssumption, Av2Assumption
<1>2. loop = "read" /\ status = "Active" /\ result = "none" /\ frameIndex = 0
  BY DEF LoopInit, StreamInit
<1>3. QED
  BY <1>1, <1>2 DEF LoopInv, SuccessIsComplete, SourceAssumption

LEMMA LoopStep ==
    ASSUME IInv, DisplayOrder, LoopInv, [LoopNext]_sourceVars
    PROVE  LoopInv'
<1> DEFINE Counts == /\ frame_limit \in Nat \cup {Unlimited}
                     /\ available \in Nat /\ frames_read \in Nat /\ offered \in Nat
                     /\ available + frames_read = offered
                     /\ frame_limit # Unlimited => frames_read <= frame_limit
<1>1. Counts /\ frameIndex \in Nat
  BY DEF LoopInv, IInv, TypeOK
\* A call that has returned an error leaves only its counts to keep.
<1>2. ASSUME Counts', loop' = "done", result' = "error" PROVE LoopInv'
  BY <1>2 DEF LoopInv, SuccessIsComplete
<1>3. CASE StopReading
  <2>1. /\ frameIndex = frames_read /\ frameIndex' = frameIndex
        /\ loop' = "finish" /\ status' = "Active" /\ result' = "none" /\ Counts'
        /\ UNCHANGED <<frame_limit, offered>>
    BY <1>1, <1>3 DEF StopReading, streamVars, encoderVars, LoopInv
  <2>2. ~UntilEof /\ ~(frameIndex < frame_limit)
    BY <1>3 DEF StopReading, ShouldRead
  <2>3. frame_limit \in Nat /\ frame_limit # Unlimited
    BY <1>1, <2>2 DEF UntilEof
  <2>4. frameIndex = frame_limit /\ frame_limit <= offered
    BY <1>1, <2>1, <2>2, <2>3
  <2>5. frameIndex = Wanted
    BY <1>1, <2>3, <2>4 DEF Wanted
  <2>6. frameIndex' = Wanted'
    BY <2>1, <2>5 DEF Wanted
  <2>7. QED
    BY <2>1, <2>6 DEF LoopInv, SuccessIsComplete
<1>4. CASE ReadNextFrame
  <2>1. /\ frameIndex = frames_read /\ frameIndex' = frameIndex
        /\ loop' = "encode" /\ status' = "Active" /\ result' = "none"
        /\ available' = available - 1 /\ frames_read' = frames_read + 1
        /\ UNCHANGED <<frame_limit, offered>>
    BY <1>4 DEF ReadNextFrame, streamVars, encoderVars, LoopInv
  <2>2. available # 0 /\ (frame_limit # Unlimited => ~(frames_read >= frame_limit))
    BY <1>4 DEF ReadNextFrame, AdapterAtEnd
  <2>3. Counts'
    BY <1>1, <2>1, <2>2
  <2>4. QED
    BY <1>1, <2>1, <2>3 DEF LoopInv, SuccessIsComplete
<1>5. CASE ReadEnd
  <2>1. /\ frameIndex = frames_read /\ frameIndex' = frameIndex /\ Counts'
        /\ status' = "Active" /\ result = "none"
        /\ UNCHANGED <<frame_limit, offered, frames_read>>
    BY <1>1, <1>5 DEF ReadEnd, streamVars, encoderVars, LoopInv
  <2>2. CASE ~UntilEof
    BY <1>2, <1>5, <2>1, <2>2 DEF ReadEnd, Return
  <2>3. CASE UntilEof
    <3>1. loop' = "finish" /\ result' = "none"
      BY <1>5, <2>1, <2>3 DEF ReadEnd
    <3>2. available = 0 \/ (frame_limit # Unlimited /\ frames_read >= frame_limit)
      BY <1>5 DEF ReadEnd, AdapterAtEnd
    <3>3. frame_limit = Unlimited \/ frame_limit = 0
      BY <2>3 DEF UntilEof
    <3>4. frameIndex = Wanted
      BY <1>1, <2>1, <3>2, <3>3 DEF Wanted, SourceAssumption
    <3>5. frameIndex' = Wanted'
      BY <2>1, <3>4 DEF Wanted
    <3>6. QED
      BY <2>1, <3>1, <3>5 DEF LoopInv, SuccessIsComplete
  <2>4. QED
    BY <2>2, <2>3
<1>6. CASE ReadFails
  BY <1>1, <1>2, <1>6 DEF ReadFails, Return
<1>7. CASE EncodeOk
  <2>1. /\ frameIndex + 1 = frames_read /\ frameIndex' = frameIndex + 1
        /\ status = "Active" /\ status' = status
        /\ loop' = "read" /\ result' = "none" /\ Counts'
        /\ UNCHANGED frames_read
    BY <1>1, <1>7 DEF EncodeOk, EncodeFrame, DeliverUnit, LoopInv
  <2>2. QED
    BY <2>1 DEF LoopInv, SuccessIsComplete
<1>8. CASE EncodeFails
  BY <1>1, <1>2, <1>8 DEF EncodeFails, Return
<1>9. CASE FinishStream
  <2>1. /\ status = "Active" /\ frameIndex = Wanted
        /\ Counts' /\ UNCHANGED <<frame_limit, offered>>
    BY <1>1, <1>9 DEF FinishStream, LoopInv
  <2>2. loop' = "done" /\ result' = "ok" /\ status' = "Finished" /\ UNCHANGED <<frameIndex, decoder>>
    BY <1>9, <2>1 DEF FinishStream, Finish, Return
  <2>3. decoder.sound /\ decoder.next = frameIndex
    BY <2>1 DEF IInv, Sync, DisplayOrder
  <2>4. Wanted' = Wanted
    BY <2>1 DEF Wanted
  <2>5. SuccessIsComplete'
    BY <2>1, <2>2, <2>3, <2>4 DEF SuccessIsComplete
  <2>6. QED
    BY <2>1, <2>2, <2>5 DEF LoopInv
<1>10. CASE UNCHANGED sourceVars
  <2>1. /\ UNCHANGED <<frame_limit, loop, available, frames_read, offered, result>>
        /\ UNCHANGED <<status, frameIndex, decoder>>
    BY <1>10 DEF sourceVars, loopVars, streamVars, encoderVars
  <2>2. Wanted' = Wanted /\ SuccessIsComplete' = SuccessIsComplete
    BY <2>1 DEF Wanted, SuccessIsComplete
  <2>3. QED
    BY <2>1, <2>2 DEF LoopInv
<1>11. QED
  BY <1>3, <1>4, <1>5, <1>6, <1>7, <1>8, <1>9, <1>10 DEF LoopNext, LoopProgress

-----------------------------------------------------------------------------
(* Theorems *)

\* An encode that returned without an error read exactly the frames asked for,
\* wrote one unit a decoder can show for each of them and finished the encoder
\* (av2_encode_fixed_black_444_with_options_and_frame_metrics).
THEOREM SuccessMeansComplete == LoopSpec => []SuccessIsComplete
<1>1. LoopInit => SourceInv
  BY LoopStart, InitIInv DEF SourceInv, LoopInit, StreamInit, EmptyDecoder, DisplayOrder
<1>2. SourceInv /\ [LoopNext]_sourceVars => SourceInv'
  BY EncoderStep, LoopStep DEF SourceInv
<1>3. SourceInv => SuccessIsComplete
  BY DEF SourceInv, LoopInv
<1>4. QED
  BY <1>1, <1>2, <1>3, PTL DEF LoopSpec
=============================================================================

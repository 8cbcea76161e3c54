--------------------------- MODULE EncoderSession ---------------------------
(***************************************************************************)
(* What the API promises of an encoder session (VideoEncoderSession in     *)
(* framefinery-api/src/video.rs): the abstract specification the sessions  *)
(* of the two codecs are checked against.                                  *)
(*                                                                         *)
(* A session is open, flushed or failed.  Input rejected before encoding   *)
(* changes nothing; a failure is terminal and every later call reports it; *)
(* a flush is terminal too, repeated flushes are empty and a frame after   *)
(* one is refused.                                                         *)
(***************************************************************************)
EXTENDS Naturals

CONSTANTS FrameLimit,   \* config.frame_limit: an upper bound, or NoLimit
          NoLimit,
          Delayed       \* output may be held back until the flush

VARIABLES phase,        \* "open", "flushed" or "failed"
          accepted,     \* frames the session has consumed
          reply         \* what the last call returned

Replies == {"none", "output", "empty", "rejected", "failed", "after flush"}

sessionVars == <<phase, accepted, reply>>

SessionInit == phase = "open" /\ accepted = 0 /\ reply = "none"

\* encode_frame consumes the frame and returns its output, or holds it back.
Accept ==
    /\ phase = "open"
    /\ FrameLimit = NoLimit \/ accepted < FrameLimit
    /\ accepted' = accepted + 1
    /\ reply' = IF Delayed THEN "empty" ELSE "output"
    /\ UNCHANGED phase

\* "Invalid input must not advance state."
Reject ==
    /\ phase = "open"
    /\ reply' = "rejected"
    /\ UNCHANGED <<phase, accepted>>

\* "An error after codec state advances terminally fails the session."
EncodeFails ==
    /\ phase = "open"
    /\ FrameLimit = NoLimit \/ accepted < FrameLimit
    /\ phase' = "failed"
    /\ reply' = "failed"
    /\ accepted' \in {accepted, accepted + 1}

FlushOpen ==
    /\ phase = "open"
    /\ \/ phase' = "flushed" /\ reply' \in {"output", "empty"}
       \/ phase' = "failed" /\ reply' = "failed"
    /\ UNCHANGED accepted

\* "Successful repeated flushes return empty output; encoding afterward
\* returns EncodeAfterFlush."
CallFlushed ==
    /\ phase = "flushed"
    /\ reply' \in {"empty", "after flush"}
    /\ UNCHANGED <<phase, accepted>>

\* "A failed session must continue reporting failure."
CallFailed ==
    /\ phase = "failed"
    /\ reply' = "failed"
    /\ UNCHANGED <<phase, accepted>>

SessionNext ==
    Accept \/ Reject \/ EncodeFails \/ FlushOpen \/ CallFlushed \/ CallFailed

SessionSpec == SessionInit /\ [][SessionNext]_sessionVars
=============================================================================

----------------------------- MODULE FilterChain -----------------------------
(***************************************************************************)
(* The filters a frame pipeline runs (framefinery-api/src/pipeline.rs,     *)
(* trait Filter): process turns one frame into zero or more, finish hands  *)
(* out what a filter still holds at the end of the stream.  Filters are    *)
(* supplied by the caller; the kinds here are those of the repository's    *)
(* filters and of its pipeline tests, and the two the trait allows beside  *)
(* them: a filter that delays and a filter that drops.                     *)
(***************************************************************************)
EXTENDS Integers, Sequences, SequencesExt

CONSTANTS
    Frames,     \* the frames a source may produce
    Blank,      \* the frame a "tail" filter adds (Frame::blank)
    Chain,      \* the filters, as a sequence of kinds
    MaxInput    \* bound on the frames a source holds, for TLC

Kinds == {"identity",   \* one frame for one: identity, crop, scale
          "duplicate",  \* two for one: DuplicateFilter
          "delay",      \* one frame late: the held frame is handed out by finish
          "halve",      \* every second frame is dropped
          "tail"}       \* a blank frame after the last one: FlushingFilter

ChainAssumption == Chain \in Seq(Kinds) /\ Blank \notin Frames
ASSUME ChainAssumption

\* What a reader that pulls (FilteredSource) and a pipeline that pushes
\* (FramePipeline) both have.
VARIABLES
    input,      \* the frames the source holds
    pulled,     \* how many of them have been read
    held,       \* the state of the filters
    pc          \* where the call is

Stages == DOMAIN Chain

\* What each filter holds: the delayed frame, or the frame it kept last.
NothingHeld == [i \in Stages |-> <<>>]

\* Filter::process of stage i on one frame, "memory" being what it holds.
Process(i, memory, frame) ==
    CASE Chain[i] = "duplicate" -> [memory |-> memory, out |-> <<frame, frame>>]
      [] Chain[i] = "delay"     -> [memory |-> <<frame>>, out |-> memory]
      [] Chain[i] = "halve"     -> IF memory = <<>> THEN [memory |-> <<frame>>, out |-> <<frame>>]
                                   ELSE [memory |-> <<>>, out |-> <<>>]
      [] OTHER                  -> [memory |-> memory, out |-> <<frame>>]

\* Filter::finish of stage i.
FinishOutput(i, memory) ==
    CASE Chain[i] = "delay" -> memory
      [] Chain[i] = "tail"  -> <<Blank>>
      [] OTHER              -> <<>>

\* One frame into a stage that holds state.memory and has handed out state.out.
Outputs == Frames \cup {Blank}
StageState == [memory : Seq(Outputs), out : Seq(Outputs)]

BatchStep(i, frame) == [state \in StageState |->
    LET p == Process(i, state.memory, frame)
    IN  [memory |-> p.memory, out |-> state.out \o p.out]]

\* One stage over a batch: after[k] is its state after k of the frames.
ProcessBatch(i, memory, frames) ==
    LET after[k \in 0..Len(frames)] ==
            IF k = 0 THEN [memory |-> memory, out |-> <<>>]
            ELSE BatchStep(i, frames[k])[after[k - 1]]
    IN  after[Len(frames)]

\* The batch state.out into stage i.
ChainState == [held : [Stages -> Seq(Outputs)], out : Seq(Outputs)]

ChainStep(i) == [state \in ChainState |->
    LET batch == ProcessBatch(i, state.held[i], state.out)
    IN  [held |-> [state.held EXCEPT ![i] = batch.memory], out |-> batch.out]]

\* process_frames_from: the batch through the stages from start on.
ProcessFrom(start, memories, frames) ==
    LET after[i \in 0..Len(Chain)] ==
            IF i < start THEN [held |-> memories, out |-> frames]
            ELSE ChainStep(i)[after[i - 1]]
    IN  after[Len(Chain)]

-----------------------------------------------------------------------------
(* The reference: each filter as a function of its whole input stream.      *)

Transformed(kind, stream) ==
    CASE kind = "duplicate" -> [k \in 1..(2 * Len(stream)) |-> stream[(k + 1) \div 2]]
      [] kind = "halve"     -> [k \in 1..((Len(stream) + 1) \div 2) |-> stream[2 * k - 1]]
      [] kind = "tail"      -> Append(stream, Blank)
      [] OTHER              -> stream

Filtered(stream) ==
    LET after[i \in 0..Len(Chain)] ==
            IF i = 0 THEN stream ELSE Transformed(Chain[i], after[i - 1])
    IN  after[Len(Chain)]
=============================================================================

--------------------------- MODULE FilteredSource ---------------------------
(***************************************************************************)
(* The pull side of the filter pipeline (framefinery-api/src/pipeline.rs,  *)
(* FilteredRawVideoFrameSource): read_frame pulls source frames and flushes*)
(* filters until one output frame is pending.  The loop of fill_pending is *)
(* taken one iteration at a time.                                          *)
(***************************************************************************)
EXTENDS FilterChain

\* pc is "idle", "filling" (in fill_pending) or "failed".
VARIABLES
    pending,         \* output frames not handed out yet
    source_finished,
    flush_index,     \* filters already flushed
    delivered,       \* the frames handed out
    ended            \* read_frame has returned Ok(false)

vars == <<input, pulled, held, pending, source_finished, flush_index, pc, delivered, ended>>

Init ==
    /\ input \in SeqOf(Frames, MaxInput)
    /\ pulled = 0
    /\ held = NothingHeld
    /\ pending = <<>>
    /\ source_finished = FALSE
    /\ flush_index = 0
    /\ pc = "idle"
    /\ delivered = <<>>
    /\ ended = FALSE

\* read_frame is called, with a buffer of the right length.
ReadFrame ==
    /\ pc = "idle"
    /\ pc' = "filling"
    /\ UNCHANGED <<input, pulled, held, pending, source_finished, flush_index, delivered, ended>>

\* Mutant: the loop does not stop for frames still pending.
MutSourceIsAsked == pc = "filling" /\ ~source_finished

\* fill_pending asks the source for a frame.
SourceIsAsked == pc = "filling" /\ pending = <<>> /\ ~source_finished

\* The source has read a frame: it goes through all filters, and what comes out
\* is queued.
PullFrame(frame) ==
    /\ SourceIsAsked
    /\ LET done == ProcessFrom(1, held, <<frame>>)
       IN  held' = done.held /\ pending' = pending \o done.out
    /\ pulled' = pulled + 1
    /\ UNCHANGED <<input, source_finished, flush_index, pc, delivered, ended>>

\* The source or a filter fails, or a filter returns a frame that is not of
\* output_info: the error goes to the caller, and every caller stops reading.
FillFails ==
    /\ pc = "filling" /\ pending = <<>>
    /\ ~source_finished \/ flush_index < Len(Chain)
    /\ pc' = "failed"
    /\ UNCHANGED <<input, pulled, held, pending, source_finished, flush_index, delivered, ended>>

\* Mutant: the source is polled again at its end.
MutSourceEnds == SourceIsAsked /\ UNCHANGED vars

\* The source is at its end; the same iteration goes on to the first flush,
\* which is the next action.
SourceEnds ==
    /\ SourceIsAsked
    /\ source_finished' = TRUE
    /\ UNCHANGED <<input, pulled, held, pending, flush_index, pc, delivered, ended>>

\* The next filter is flushed, what it held goes through the later ones.
FlushFilter ==
    /\ pc = "filling" /\ pending = <<>>
    /\ source_finished
    /\ flush_index < Len(Chain)
    /\ LET index == flush_index + 1
           done == ProcessFrom(index + 1, held, FinishOutput(index, held[index]))
       IN  held' = done.held /\ pending' = done.out
    /\ flush_index' = flush_index + 1
    /\ UNCHANGED <<input, pulled, source_finished, pc, delivered, ended>>

\* Mutant: the rest of the batch is dropped.
MutDeliver ==
    /\ pc = "filling" /\ pending # <<>>
    /\ delivered' = Append(delivered, Head(pending))
    /\ pending' = <<>>
    /\ pc' = "idle"
    /\ UNCHANGED <<input, pulled, held, source_finished, flush_index, ended>>

Deliver ==
    /\ pc = "filling" /\ pending # <<>>
    /\ delivered' = Append(delivered, Head(pending))
    /\ pending' = Tail(pending)
    /\ pc' = "idle"
    /\ UNCHANGED <<input, pulled, held, source_finished, flush_index, ended>>

ReturnEnd ==
    /\ pc = "filling" /\ pending = <<>>
    /\ source_finished /\ flush_index >= Len(Chain)
    /\ ended' = TRUE
    /\ pc' = "idle"
    /\ UNCHANGED <<input, pulled, held, pending, source_finished, flush_index, delivered>>

\* What one iteration of fill_pending and read_frame do without the source.
FilterStep == FlushFilter \/ Deliver \/ ReturnEnd

FillStep ==
    \/ pulled < Len(input) /\ PullFrame(input[pulled + 1])
    \/ pulled = Len(input) /\ SourceEnds
    \/ FilterStep

Next == ReadFrame \/ FillStep \/ FillFails

\* read_frame is synchronous: once called it runs to its return, and that does
\* not rest on a failure.
Spec == Init /\ [][Next]_vars /\ WF_vars(FillStep)

-----------------------------------------------------------------------------
(* Properties *)

\* The frames handed out are those the filters make of the whole input stream,
\* in order: nothing of a batch, of a delayed frame or of a flush is lost,
\* repeated or overtaken, although source, filters and flushes advance on
\* demand.
DeliversFiltered ==
    /\ IsPrefix(delivered, Filtered(input))
    /\ ended => delivered = Filtered(input)

\* What the chain makes of the first k frames before anything is flushed.
Produced(k) == ProcessFrom(1, NothingHeld, SubSeq(input, 1, k)).out

\* The source is read on demand: between two reads exactly as many frames have
\* been pulled as the frames handed out required, so that no more than one
\* frame's output is ever stored ("which keeps long native streams and future
\* WASM capture flows bounded in memory").
PullsOnDemand ==
    pc = "idle" /\ ~source_finished =>
        /\ Len(Produced(pulled)) = Len(delivered) + Len(pending)
        /\ pulled > 0 => Len(Produced(pulled - 1)) < Len(delivered)

\* Every read returns, even when the filters swallow every frame.
ReadReturns == pc = "filling" ~> pc # "filling"
=============================================================================

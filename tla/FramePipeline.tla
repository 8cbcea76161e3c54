---------------------------- MODULE FramePipeline ----------------------------
(***************************************************************************)
(* The push side of the filter pipeline (framefinery-api/src/pipeline.rs): *)
(* run_frame_filter_pipeline, and with Encodes run_frame_encode_pipeline,  *)
(* in which an encoder stands between the filters and the sink.  The       *)
(* encoder is the caller's: here one packet per frame, handed out one      *)
(* frame late, the last by Encoder::finish.                                *)
(***************************************************************************)
EXTENDS FilterChain

CONSTANT Encodes  \* run_frame_encode_pipeline

ASSUME EncodesAssumption == Encodes \in BOOLEAN

\* pc is "pull", "flush", "drain", "finish" or the result, "ok" or "error";
\* pulled is stats.input_frames.
VARIABLES
    flushed,     \* filters already flushed
    batch,       \* the frames on their way to the encoder or the sink
    encoder,     \* the packet the encoder has not handed out yet
    counted,     \* frames counted in stats.output_frames or encoded_frames
    inBatch,     \* length of the batch being pushed, counted when it is through
    sink,        \* what the sink was pushed
    finished     \* how often the sink was finished

pipelineVars == <<input, pulled, held, flushed, batch, encoder, counted, inBatch, sink, finished, pc>>

PipelineInit ==
    /\ input \in SeqOf(Frames, MaxInput)
    /\ pulled = 0
    /\ held = NothingHeld
    /\ flushed = 0
    /\ batch = <<>>
    /\ encoder = <<>>
    /\ counted = 0
    /\ inBatch = 0
    /\ sink = <<>>
    /\ finished = 0
    /\ pc = "pull"

\* The batch is through: it is counted, and the loop goes on.
Through == batch = <<>>
CountBatch == counted' = counted + inBatch /\ inBatch' = 0

Pull ==
    /\ pc = "pull" /\ Through /\ inBatch = 0
    /\ pulled < Len(input)
    /\ LET done == ProcessFrom(1, held, <<input[pulled + 1]>>)
       IN  held' = done.held /\ batch' = done.out /\ inBatch' = Len(done.out)
    /\ pulled' = pulled + 1
    /\ UNCHANGED <<input, flushed, encoder, counted, sink, finished, pc>>

\* Mutant: the source is pulled again at its end.
MutInputEnds ==
    /\ pc = "pull" /\ Through /\ inBatch = 0
    /\ pulled = Len(input)
    /\ UNCHANGED pipelineVars

InputEnds ==
    /\ pc = "pull" /\ Through /\ inBatch = 0
    /\ pulled = Len(input)
    /\ pc' = "flush"
    /\ UNCHANGED <<input, pulled, held, flushed, batch, encoder, counted, inBatch, sink, finished>>

\* Mutant: what a filter held skips the filters after it.
MutFlushStage ==
    /\ pc = "flush" /\ Through /\ inBatch = 0
    /\ flushed < Len(Chain)
    /\ LET done == FinishOutput(flushed + 1, held[flushed + 1])
       IN  batch' = done /\ inBatch' = Len(done)
    /\ flushed' = flushed + 1
    /\ UNCHANGED <<input, pulled, held, encoder, counted, sink, finished, pc>>

FlushStage ==
    /\ pc = "flush" /\ Through /\ inBatch = 0
    /\ flushed < Len(Chain)
    /\ LET index == flushed + 1
           done == ProcessFrom(index + 1, held, FinishOutput(index, held[index]))
       IN  held' = done.held /\ batch' = done.out /\ inBatch' = Len(done.out)
    /\ flushed' = flushed + 1
    /\ UNCHANGED <<input, pulled, encoder, counted, sink, finished, pc>>

FiltersFlushed ==
    /\ pc = "flush" /\ Through /\ inBatch = 0
    /\ flushed = Len(Chain)
    /\ pc' = "drain"
    /\ UNCHANGED <<input, pulled, held, flushed, batch, encoder, counted, inBatch, sink, finished>>

\* push_frames and encode_frames: the next frame of the batch.
PushFrame ==
    /\ pc \in {"pull", "flush"} /\ ~Through
    /\ batch' = Tail(batch)
    /\ IF Encodes
       THEN sink' = sink \o encoder /\ encoder' = <<Head(batch)>>
       ELSE sink' = Append(sink, Head(batch)) /\ UNCHANGED encoder
    /\ UNCHANGED <<input, pulled, held, flushed, counted, inBatch, finished, pc>>

BatchDone ==
    /\ pc \in {"pull", "flush"} /\ Through /\ inBatch # 0
    /\ CountBatch
    /\ UNCHANGED <<input, pulled, held, flushed, batch, encoder, sink, finished, pc>>

\* Encoder::finish, whose packets are pushed too.
DrainEncoder ==
    /\ pc = "drain"
    /\ sink' = sink \o encoder
    /\ encoder' = <<>>
    /\ pc' = "finish"
    /\ UNCHANGED <<input, pulled, held, flushed, batch, counted, inBatch, finished>>

FinishSink ==
    /\ pc = "finish"
    /\ finished' = finished + 1
    /\ pc' = "ok"
    /\ UNCHANGED <<input, pulled, held, flushed, batch, encoder, counted, inBatch, sink>>

\* Source, filter, encoder or sink return an error: it leaves through every ?.
StageFails ==
    /\ pc \notin {"ok", "error"}
    /\ pc' = "error"
    /\ UNCHANGED <<input, pulled, held, flushed, batch, encoder, counted, inBatch, sink, finished>>

Progress ==
    \/ Pull \/ InputEnds \/ FlushStage \/ FiltersFlushed
    \/ PushFrame \/ BatchDone \/ DrainEncoder \/ FinishSink

PipelineNext == Progress \/ StageFails

\* One call runs to its return, and that does not rest on a failure.
PipelineSpec == PipelineInit /\ [][PipelineNext]_pipelineVars /\ WF_pipelineVars(Progress)

-----------------------------------------------------------------------------
(* Properties *)

\* The push pipeline makes of a stream what the filters make of it one after
\* the other, which is also what FilteredRawVideoFrameSource hands out, and
\* its counters agree with what arrived; the sink is finished once, after
\* everything was pushed, and not at all when a stage failed ("Finish the sink
\* after every upstream stage has completed").
OkIsComplete ==
    /\ IsPrefix(sink, Filtered(input))
    /\ finished = IF pc = "ok" THEN 1 ELSE 0
    /\ pc = "ok" => /\ sink = Filtered(input)
                    /\ pulled = Len(input)
                    /\ counted = Len(sink)

\* A pipeline over a finite source returns.
PipelineReturns == <>(pc \in {"ok", "error"})
=============================================================================

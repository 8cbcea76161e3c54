------------------------------ MODULE MCFrameApi ------------------------------
(***************************************************************************)
(* A small instance of the frame API: a behavior is a pipeline call, with  *)
(* an encoder behind the filters, the life of a picture buffer of three    *)
(* pictures, a list of filter specs put to work on frames of a few pixels  *)
(* in every layout, a session with the codec that collects its frames, or  *)
(* the VVC stream encoder that its flush runs.                             *)
(***************************************************************************)
EXTENDS Dpb, FramePipeline, FrameFilters, BufferedSession, MCVvcStream

CONSTANTS f1, f2, blank, p1, p2, p3, p4, hd, sd

MCChain == <<"duplicate", "delay", "halve", "tail">>

-----------------------------------------------------------------------------
(* Filter requests                                                          *)

Spec4(n, x, y, w, h) == [name |-> n, params |-> <<<<"x", x>>, <<"y", y>>, <<"w", w>>, <<"h", h>>>>]
Crops == {Spec4("crop", x, y, w, h) : x \in 0..2, y \in 0..1, w \in {2, 3}, h \in {1, 2}}
Scales == {[name |-> "scale", params |-> <<<<"h", h>>, <<"w", w>>>>] : w \in {2, 3, 6}, h \in {2, 4}}
Identity == [name |-> "identity", params |-> <<>>]
Pattern(p) == [name |-> "pattern", params |-> <<<<"name", p>>>>]

\* Lists that are refused, most of them: a key is missing, twice there, unknown or
\* no number, a width is zero, a filter takes no options or does not exist, the
\* source stands second or beside an input.
OddLists ==
    {<<[name |-> "crop", params |-> ps]>> : ps \in
        {<<<<"x", 0>>, <<"y", 0>>, <<"w", 2>>>>,
         <<<<"x", 0>>, <<"y", 0>>, <<"w", 2>>, <<"h", 2>>, <<"x", 0>>>>,
         <<<<"x", 0>>, <<"y", 0>>, <<"w", 2>>, <<"d", 2>>>>}}
    \cup {<<[name |-> "scale", params |-> ps]>> : ps \in {<<<<"w", 0>>, <<"h", 2>>>>, <<<<"w", -1>>, <<"h", 2>>>>}}
    \cup {<<Pattern("plaid")>>, <<Identity, Pattern("checker")>>, <<Pattern("checker"), Pattern("black")>>,
          <<[Identity EXCEPT !.params = <<<<"x", 1>>>>]>>, <<[Identity EXCEPT !.name = "blur"]>>, <<Identity>>, <<>>}

Chains == {<<c>> : c \in Crops} \cup {<<s>> : s \in Scales} \cup {<<c, s>> : c \in Crops, s \in Scales}
          \cup {<<s, c>> : c \in Crops, s \in Scales} \cup {<<Identity>>, <<>>}

Format(layout, bits) == [layout |-> layout, bits |-> bits]
MCFormats == {Format("rgb24", 8), Format("gbrp8", 8), Format("gray", 8), Format("420", 8), Format("422", 10), Format("444", 8)}
Deep == {Format("gray", 10), Format("420", 10), Format("422", 12), Format("444", 16)}
At(format, w, h) == [w |-> w, h |-> h, format |-> format]
Request(list, hasInput, content, from, to) ==
    [specs |-> list, input |-> hasInput, content |-> content, from |-> from, info |-> to, frames |-> 2]

\* Frames whose bytes show where they go, in their own format or the other of RGB.
Traced ==
    {Request(c, TRUE, "places", f, At(f, 4, 4)) : c \in Chains, f \in MCFormats}
    \cup {Request(<<Identity>>, TRUE, "places", Format(p[1], 8), At(Format(p[2], 8), 4, 2)) :
             p \in {<<"rgb24", "gbrp8">>, <<"gbrp8", "rgb24">>, <<"422", "rgb24">>, <<"444", "422">>}}

\* Patterns from the source, with a filter behind it, and read from an input in a
\* format of eight bits or more.
Drawn ==
    {Request(<<Pattern(p)>> \o c, FALSE, p, f, At(f, 10, 10)) :
        p \in Patterns, f \in MCFormats \cup Deep, c \in {<<>>, <<CHOOSE s \in Scales : TRUE>>}}
    \cup {Request(<<>>, TRUE, p, Format(l, b[1]), At(Format(l, b[2]), 10, 2)) :
             p \in Patterns \ {"bitdepth_canary"}, l \in {"gray", "420", "422", "444"},
             b \in {<<8, 10>>, <<16, 8>>, <<12, 8>>}}

MCRequests ==
    Traced \cup Drawn
    \cup {Request(l, i, "checker", Format("420", 8), At(Format("420", 8), 4, 4)) :
             l \in OddLists, i \in BOOLEAN}

-----------------------------------------------------------------------------

VARIABLE subject

\* No filter list.
NoFilters ==
    /\ request = CHOOSE r \in MCRequests : TRUE
    /\ transforms = <<>> /\ given = 0 /\ passed = 0 /\ stage = "refused"
    /\ announced = request.info /\ frame = [info |-> request.info, bytes |-> <<>>]

\* A pipeline that has returned and does nothing more.
NoPipeline ==
    /\ input = <<>> /\ pulled = 0 /\ held = NothingHeld /\ flushed = 0 /\ batch = <<>>
    /\ encoder = <<>> /\ counted = 0 /\ inBatch = 0 /\ sink = <<>> /\ finished = 0
    /\ pc = "error"

ApiInit ==
    /\ DpbInit
    /\ BufferedInit
    /\ Init
    /\ \/ subject = "pipeline" /\ PipelineInit /\ NoFilters
       \/ subject \in {"pictures", "session", "stream"} /\ NoPipeline /\ NoFilters
       \/ subject = "filters" /\ NoPipeline /\ FiltersInit
    /\ subject # "stream" => options = CHOOSE o \in Options : TRUE

PipelineStep ==
    subject = "pipeline" /\ PipelineNext /\ UNCHANGED <<subject, dpbVars, filterVars, bufferedVars, vars>>
PictureStep ==
    subject = "pictures" /\ DpbNext /\ UNCHANGED <<subject, pipelineVars, filterVars, bufferedVars, vars>>
FilterStep ==
    subject = "filters" /\ FiltersNext /\ UNCHANGED <<subject, dpbVars, pipelineVars, bufferedVars, vars>>
SessionStep ==
    subject = "session" /\ BufferedNext /\ UNCHANGED <<subject, dpbVars, pipelineVars, filterVars, vars>>
StreamStep ==
    subject = "stream" /\ Next /\ UNCHANGED <<subject, dpbVars, pipelineVars, filterVars, bufferedVars>>
ApiNext == PipelineStep \/ PictureStep \/ FilterStep \/ SessionStep \/ StreamStep

ApiSpec ==
    /\ ApiInit /\ [][ApiNext]_<<subject, dpbVars, pipelineVars, filterVars, bufferedVars, vars>>
    /\ WF_pipelineVars(Progress) /\ WF_bufferedVars(FlushStep)
===============================================================================

--------------------------- MODULE MCSourceReading ---------------------------
(***************************************************************************)
(* Two subjects, each on its own: an encode job of the command line reading*)
(* its input (JobSource), with raw and Y4M files of up to three frames of  *)
(* two samples, with a part of a frame, a wrong marker or frames of another*)
(* length at their end, read as counted or cut in between; and the loop    *)
(* that encodes a source (Av2SourceEncode), with two blocks in two tiles   *)
(* and single pictures.                                                    *)
(***************************************************************************)
EXTENDS JobSource, Av2SourceEncode

CONSTANTS b1, b2, t1, t2

MCTileOf == (b1 :> t1) @@ (b2 :> t2)

-----------------------------------------------------------------------------
(* Files *)

MCChain == <<"delay", "halve", "tail", "duplicate">>
MCBlank == <<0, 0>>

RawFile(bytes) == [k \in 1..bytes |-> k]
Y4mFrame(k, len) == <<Marker>> \o [i \in 1..len |-> 10 * k + i]
Y4mFile(count, len, tail) == FlattenSeq([k \in 1..count |-> Y4mFrame(k, len)]) \o tail

Raw(convert) == LET len == IF convert THEN 2 * FrameLen ELSE FrameLen
                IN  {RawFile(n) : n \in {len - 1, len, 2 * len + 1, 3 * len}}
Y4m(convert) == LET len == IF convert THEN 2 * FrameLen ELSE FrameLen
                IN  {Y4mFile(count, len, tail) : count \in {0, 1, 3},
                        tail \in {<<>>, <<Marker>>, <<Marker, 1>>, <<OtherLine, 1, 2>>}}
                    \cup {Y4mFile(2, len + 1, <<>>)}

Cuts(bytes) == {bytes, SubSeq(bytes, 1, Len(bytes) - 1), SubSeq(bytes, 1, Len(bytes) - FrameLen)}

MCJobs ==
    UNION {UNION {{[y4m |-> y4m, convert |-> convert, given |-> given, counted |-> bytes, file |-> cut] :
                     cut \in Cuts(bytes), given \in {0, 1, 2, 5}} :
                  bytes \in IF y4m THEN Y4m(convert) ELSE Raw(convert)} :
           y4m \in BOOLEAN, convert \in BOOLEAN}

MCFrames == UNION {Range(FramesOf(j, Len(j.file))) : j \in MCJobs}

-----------------------------------------------------------------------------

VARIABLE subject

\* A job that reads nothing: one of the jobs that open, with one of the limits.
NoJob ==
    /\ job = CHOOSE j \in MCJobs : j.given = 1 /\ ResolveFrameCount(j) = 1
    /\ limit = CHOOSE l \in Limits : TRUE
    /\ JobInit

\* A loop that has ended.
NoLoop ==
    /\ frame_limit = Unlimited /\ loop = "done" /\ offered = 0 /\ available = 0
    /\ frames_read = 0 /\ result = "none"
    /\ StreamInit

ReadingInit ==
    \/ subject = "job" /\ NoLoop /\ JobInit
    \/ subject = "loop" /\ NoJob /\ LoopInit

ReadingNext ==
    /\ UNCHANGED subject
    /\ \/ subject = "job" /\ JobNext /\ UNCHANGED sourceVars
       \/ subject = "loop" /\ LoopNext /\ UNCHANGED jobVars

ReadingSpec ==
    /\ ReadingInit /\ [][ReadingNext]_<<subject, jobVars, sourceVars>>
    /\ WF_jobVars(Running) /\ WF_sourceVars(LoopProgress)
=============================================================================

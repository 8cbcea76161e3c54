------------------------------ MODULE JobSource ------------------------------
(***************************************************************************)
(* The input and the reconstruction output of an encode job of the command *)
(* line (framefinery-cli/src/command.rs), byte by byte.  Frames are counted*)
(* first, by reading the file once; the job then opens it again and reads  *)
(* it through a stack of readers:                                          *)
(*     file -> take(n) or Y4mFrameReader -> FrameFormatConvertingReader    *)
(*          -> RawVideoFrameReadSource -> FilteredRawVideoFrameSource      *)
(*          -> RawVideoFrameSourceReadAdapter -> the codec                 *)
(* and what the codec reconstructs is written through                      *)
(* FrameFormatConvertingWriter.  FilteredSource is what this stack promises*)
(* its caller; the file may have changed between the two readings.         *)
(*                                                                         *)
(* A file is a sequence of bytes, the k-th one called k, and of marker     *)
(* lines, which count as one byte when they are read as samples.           *)
(***************************************************************************)
EXTENDS FilteredSource, FiniteSetsExt

CONSTANTS
    FrameLen,     \* bytes of a frame of job.format
    Jobs,         \* what is asked for and what the file holds: records with
                  \*   y4m, convert, given (0: no --frames), counted, file
    Limits,       \* frame limits of the adapter
    ReadSizes     \* buffer lengths of the reads and of the writes

Marker == 0       \* the line FRAME
OtherLine == -1   \* any other line

VARIABLES
    job,          \* the member of Jobs
    frames,       \* job.frames, the count that was resolved
    position,     \* bytes read of job.file
    buffer,       \* the part of a frame RawVideoFrameReadSource has read
    cause,        \* why reading failed: "none", "content" (the file) or "io"
    limit,        \* frame_limit of the adapter
    framesRead,   \* frames_read of the adapter
    rest,         \* its frame from frame_offset on
    asked,        \* length of the buffer of the running read, 0 if none runs
    copied,       \* what is copied into that buffer
    got,          \* all bytes reads have returned
    reconBytes,   \* bytes the codec has written as reconstruction
    reconFrame,   \* source_frame of the converting writer, up to source_offset
    reconFile     \* what that writer has written

readerVars == <<job, frames, position, buffer, cause>>
adapterVars == <<limit, framesRead, rest, asked, copied, got>>
reconVars == <<reconBytes, reconFrame, reconFile>>
jobVars == <<vars, readerVars, adapterVars, reconVars>>

-----------------------------------------------------------------------------
(* Counting the frames                                                      *)

\* A frame of job.source_format: two bytes per sample when it is converted.
SourceLen(j) == IF j.convert THEN 2 * FrameLen ELSE FrameLen

\* What convert_frame_format makes of a frame, to the codec's format and back:
\* one byte for two, named after the second of them, and two for one.
ToCodec(frame) == [i \in 1..(Len(frame) \div 2) |-> 100 + frame[2 * i]]
FromCodec(frame) == [i \in 1..(2 * Len(frame)) |-> frame[(i + 1) \div 2] + 100 * (i % 2)]

CountState == [n : Nat, at : Nat, stop : BOOLEAN]

\* Mutant: the payload is not skipped to its end.
MutY4mStep(bytes, len, most) == [s \in CountState |->
    IF s.stop \/ s.n = most \/ s.at = Len(bytes) THEN s
    ELSE IF bytes[s.at + 1] # Marker THEN [s EXCEPT !.stop = TRUE, !.n = 0]
    ELSE [s EXCEPT !.n = s.n + 1, !.at = IF s.at + 1 + len > Len(bytes) THEN Len(bytes) ELSE s.at + 1 + len]]

\* A marker and a payload of len bytes; n = 0 and stop when they are not there.
Y4mStep(bytes, len, most) == [s \in CountState |->
    IF s.stop \/ s.n = most \/ s.at = Len(bytes) THEN s
    ELSE IF bytes[s.at + 1] # Marker \/ s.at + 1 + len > Len(bytes)
         THEN [s EXCEPT !.stop = TRUE, !.n = 0]
    ELSE [s EXCEPT !.n = s.n + 1, !.at = s.at + 1 + len]]

\* infer_y4m_complete_frame_count: marker and payload after another until the
\* end of the file or, with --frames, until that many are found.  0 stands for
\* an error: a wrong marker, a short payload, no frame at all.
Y4mCount(bytes, len, most) ==
    LET after[k \in 0..Len(bytes)] ==
            IF k = 0 THEN [n |-> 0, at |-> 0, stop |-> FALSE]
            ELSE Y4mStep(bytes, len, most)[after[k - 1]]
    IN  after[Len(bytes)].n

\* resolve_frame_count, 0 for a job that is refused.  Without --frames a raw
\* file must hold whole frames only.
ResolveFrameCount(j) ==
    LET len == SourceLen(j)
        whole == Len(j.counted) \div len
    IN  IF j.y4m THEN Y4mCount(j.counted, len, IF j.given = 0 THEN Len(j.counted) ELSE j.given)
        ELSE IF j.given > 0 THEN Min({j.given, whole})
        ELSE IF Len(j.counted) % len = 0 THEN whole ELSE 0

-----------------------------------------------------------------------------
(* What a file holds: the frames a job is to read of it.                    *)

FrameAt(j, k) ==
    LET len == SourceLen(j)
        start == IF j.y4m THEN (k - 1) * (len + 1) + 1 ELSE (k - 1) * len
    IN  SubSeq(j.file, start + 1, start + len)

Present(j, k) ==
    IF j.y4m
    THEN \A i \in 1..k :
            LET start == (i - 1) * (SourceLen(j) + 1)
            IN  start + SourceLen(j) < Len(j.file) /\ j.file[start + 1] = Marker
    ELSE k * SourceLen(j) <= Len(j.file)

FramesOf(j, count) ==
    LET there == Max({0} \cup {k \in 1..count : Present(j, k)})
    IN  [k \in 1..there |-> IF j.convert THEN ToCodec(FrameAt(j, k)) ELSE FrameAt(j, k)]

\* Bytes are numbers, and Frames has the frames of all the files.
JobAssumption ==
    /\ FrameLen \in Nat \ {0}
    /\ Frames \cup {Blank} \subseteq Seq(Int)
    /\ Limits \subseteq Nat
    /\ ReadSizes \subseteq Nat \ {0}
    /\ \A j \in Jobs :
          /\ j.y4m \in BOOLEAN /\ j.convert \in BOOLEAN /\ j.given \in Nat
          /\ j.counted \in Seq(Int) /\ j.file \in Seq(Int)
          /\ FramesOf(j, ResolveFrameCount(j)) \in SeqOf(Frames, MaxInput)
ASSUME JobAssumption

JobInit ==
    /\ job \in {j \in Jobs : ResolveFrameCount(j) > 0}
    /\ frames = ResolveFrameCount(job)
    /\ position = 0
    /\ buffer = <<>>
    /\ cause = "none"
    /\ input = FramesOf(job, frames)
    /\ pulled = 0
    /\ held = NothingHeld
    /\ pending = <<>>
    /\ source_finished = FALSE
    /\ flush_index = 0
    /\ pc = "idle"
    /\ delivered = <<>>
    /\ ended = FALSE
    /\ limit \in Limits
    /\ framesRead = 0
    /\ rest = <<>>
    /\ asked = 0
    /\ copied = <<>>
    /\ got = <<>>
    /\ reconBytes = 0
    /\ reconFrame = <<>>
    /\ reconFile = <<>>

-----------------------------------------------------------------------------
(* Reading the file                                                         *)

\* Mutant: the whole file, not the selected frames of it.
MutReadable == Len(job.file)

\* selected_input_byte_len: take(n) ends a raw file after the frames counted.
Readable == Min({Len(job.file), frames * SourceLen(job)})

\* A raw file in the codec's format: reads return what the system has, and
\* read_frame puts the frame together.
ReadBytes(n) ==
    /\ SourceIsAsked /\ ~job.y4m /\ ~job.convert
    /\ Len(buffer) + n <= FrameLen
    /\ position + n <= Readable
    /\ position' = position + n
    /\ LET read == buffer \o SubSeq(job.file, position + 1, position + n)
       IN  IF Len(read) = FrameLen
           THEN buffer' = <<>> /\ PullFrame(read)
           ELSE buffer' = read /\ UNCHANGED vars
    /\ UNCHANGED <<job, frames, cause, adapterVars, reconVars>>

\* The readers that work by frames, Y4mFrameReader and the converting reader:
\* a frame is left to read, its marker is there and all its bytes are.
FrameStart == IF job.y4m THEN position + 1 ELSE position
FrameIsThere ==
    /\ job.y4m => position < Len(job.file) /\ job.file[position + 1] = Marker
    /\ FrameStart + SourceLen(job) <= IF job.y4m THEN Len(job.file) ELSE Readable

ReadWholeFrame ==
    /\ SourceIsAsked
    /\ job.y4m \/ job.convert
    /\ pulled < frames
    /\ FrameIsThere
    /\ position' = FrameStart + SourceLen(job)
    /\ LET read == SubSeq(job.file, FrameStart + 1, FrameStart + SourceLen(job))
       IN  PullFrame(IF job.convert THEN ToCodec(read) ELSE read)
    /\ UNCHANGED <<job, frames, buffer, cause, adapterVars, reconVars>>

\* A read returns no bytes before the first byte of a frame.
FileEnds ==
    /\ SourceIsAsked
    /\ IF job.y4m \/ job.convert THEN pulled = frames ELSE position = Readable /\ buffer = <<>>
    /\ SourceEnds
    /\ UNCHANGED <<readerVars, adapterVars, reconVars>>

\* The end comes inside a frame, or before a frame that was counted, or a
\* marker is wrong.
ContentIsWrong ==
    /\ SourceIsAsked
    /\ IF job.y4m \/ job.convert THEN pulled < frames /\ ~FrameIsThere
       ELSE position = Readable /\ buffer # <<>>

\* An error leaves the running read with ?; what it had copied is in the
\* caller's buffer, and the caller does not know.
ReadIsLost == asked' = 0 /\ UNCHANGED <<limit, framesRead, rest, copied, got>>

SourceFails(why) ==
    /\ FillFails
    /\ cause' = why
    /\ ReadIsLost
    /\ UNCHANGED <<job, frames, position, buffer, reconVars>>

-----------------------------------------------------------------------------
(* The adapter                                                              *)

AdapterRead(n) ==
    /\ pc = "idle" /\ asked = 0
    /\ asked' = n
    /\ copied' = <<>>
    /\ UNCHANGED <<vars, readerVars, limit, framesRead, rest, got, reconVars>>

\* Mutant: frame_offset is not advanced past a part of the frame.
MutAdapterCopy ==
    /\ asked > Len(copied) /\ rest # <<>>
    /\ LET count == Min({Len(rest), asked - Len(copied)})
       IN  /\ copied' = copied \o SubSeq(rest, 1, count)
           /\ rest' = IF count < Len(rest) THEN rest ELSE <<>>
    /\ UNCHANGED <<vars, readerVars, limit, framesRead, asked, got, reconVars>>

AdapterCopy ==
    /\ asked > Len(copied) /\ rest # <<>>
    /\ LET count == Min({Len(rest), asked - Len(copied)})
       IN  /\ copied' = copied \o SubSeq(rest, 1, count)
           /\ rest' = SubSeq(rest, count + 1, Len(rest))
    /\ UNCHANGED <<vars, readerVars, limit, framesRead, asked, got, reconVars>>

\* load_frame: at its own limit the adapter does not ask the source.
AdapterLoad ==
    /\ pc = "idle" /\ asked > Len(copied) /\ rest = <<>>
    /\ framesRead < limit
    /\ ReadFrame
    /\ UNCHANGED <<readerVars, adapterVars, reconVars>>

AdapterReturn ==
    /\ got' = got \o copied
    /\ asked' = 0
    /\ copied' = <<>>
    /\ UNCHANGED <<readerVars, limit, framesRead, reconVars>>

ReadReturnsBytes ==
    /\ pc = "idle" /\ asked > 0
    /\ asked = Len(copied) \/ (rest = <<>> /\ framesRead >= limit)
    /\ AdapterReturn
    /\ UNCHANGED <<vars, rest>>

\* Steps of the filters; read_frame hands the adapter a frame, or the end.
SourceStep ==
    \/ FlushFilter /\ UNCHANGED <<readerVars, adapterVars, reconVars>>
    \/ /\ Deliver
       /\ rest' = Head(pending)
       /\ framesRead' = framesRead + 1
       /\ UNCHANGED <<readerVars, limit, asked, copied, got, reconVars>>
    \/ ReturnEnd /\ AdapterReturn /\ UNCHANGED rest

-----------------------------------------------------------------------------
(* The reconstruction                                                       *)

WriterState == [frame : Seq(Int), file : Seq(Int)]

\* Mutant: a new frame overwrites the one before it.
MutTakeSample(byte) == [w \in WriterState |->
    LET frame == Append(w.frame, byte)
    IN  IF Len(frame) = FrameLen
        THEN [frame |-> <<>>, file |-> FromCodec(frame)]
        ELSE [w EXCEPT !.frame = frame]]

\* One sample into the frame, which is converted and written when it is full.
TakeSample(byte) == [w \in WriterState |->
    LET frame == Append(w.frame, byte)
    IN  IF Len(frame) = FrameLen
        THEN [frame |-> <<>>, file |-> w.file \o FromCodec(frame)]
        ELSE [w EXCEPT !.frame = frame]]

\* What the writer holds and has written after a write of these bytes.
Written(w, bytes) ==
    LET after[k \in 0..Len(bytes)] ==
            IF k = 0 THEN w ELSE TakeSample(bytes[k])[after[k - 1]]
    IN  after[Len(bytes)]

\* The codec, which reconstructs what it reads, writes n more bytes of it.
WriteRecon(n) ==
    /\ job.convert /\ asked = 0 /\ pc = "idle"
    /\ reconBytes + n <= Len(got)
    /\ reconBytes' = reconBytes + n
    /\ LET w == Written([frame |-> reconFrame, file |-> reconFile],
                        SubSeq(got, reconBytes + 1, reconBytes + n))
       IN  reconFrame' = w.frame /\ reconFile' = w.file
    /\ UNCHANGED <<vars, readerVars, adapterVars>>

-----------------------------------------------------------------------------

Running ==
    \/ \E n \in 1..FrameLen : ReadBytes(n)
    \/ ReadWholeFrame
    \/ FileEnds
    \/ ContentIsWrong /\ SourceFails("content")
    \/ AdapterCopy
    \/ AdapterLoad
    \/ ReadReturnsBytes
    \/ SourceStep

JobNext ==
    \/ Running
    \/ ~ContentIsWrong /\ SourceFails("io")
    \/ \E n \in ReadSizes : AdapterRead(n) \/ WriteRecon(n)

\* A read that was called runs to its return, in one thread.
JobSpec == JobInit /\ [][JobNext]_jobVars /\ WF_jobVars(Running)

-----------------------------------------------------------------------------
(* Properties *)

\* Whatever the lengths of the reads, the formats and the markers, the readers
\* below the filters are a source of the frames the file holds, up to the count
\* the job resolved: none is torn, shifted, repeated or left out, and the end is
\* reported only after the last of them.
ImplementsFilteredSource == Spec

\* Two routines walk the file, one to count its frames, one to read them.  They
\* agree: a file that did not change is read to its last counted frame, and is
\* never found to be short or malformed.
CountAgreesWithReading ==
    job.file = job.counted =>
        /\ cause # "content"
        /\ ended => pulled = frames
        /\ Len(input) = frames

\* The bytes handed to the codec, those in the buffer of the running read and
\* those left in the adapter are the frames delivered, in order and complete;
\* after a failed read nothing but that read's bytes is missing.
BytesAreTheFrames == got \o copied \o rest = FlattenSeq(delivered)

\* The reconstruction file holds every full frame the codec wrote, converted as
\* a whole, however the codec cut its writes.
ReconIsConverted ==
    LET full == reconBytes \div FrameLen
        frame(k) == SubSeq(got, (k - 1) * FrameLen + 1, k * FrameLen)
    IN  reconFile = FlattenSeq([k \in 1..full |-> IF job.convert THEN FromCodec(frame(k)) ELSE <<>>])
=============================================================================

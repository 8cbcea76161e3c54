--------------------------- MODULE JobSourceProofs ---------------------------
(***************************************************************************)
(* The input and the reconstruction of an encode job, for files of any     *)
(* contents, frames of any length, reads and writes of any sizes and any   *)
(* chain of filters: what lies below the filters is the source             *)
(* FilteredSource has, its frames reach the codec byte by byte, counting   *)
(* and reading agree, and the reconstruction is converted frame by frame.  *)
(***************************************************************************)
EXTENDS JobSource, FilterProofs

Bytes == Seq(Int)

-----------------------------------------------------------------------------
(* Numbers *)

LEMMA Multiples ==
    ASSUME NEW a \in Nat, NEW b \in Nat, NEW len \in Nat
    PROVE  /\ a * len \in Nat
           /\ (a + 1) * len = a * len + len
           /\ a <= b => a * len <= b * len
           /\ a < b => a * len + len <= b * len
<1>1. a * len \in Nat /\ (a + 1) * len = a * len + len
    OBVIOUS
<1>2. ASSUME a <= b PROVE a * len <= b * len
    <2>1. PICK d \in Nat : b = a + d
        BY <1>2
    <2>2. b * len = a * len + d * len /\ d * len \in Nat
        BY <2>1
    <2> QED
        BY <1>1, <2>2
<1>3. ASSUME a < b PROVE a * len + len <= b * len
    <2>1. PICK d \in Nat : b = (a + 1) + d
        BY <1>3
    <2>2. b * len = (a + 1) * len + d * len /\ d * len \in Nat
        BY <2>1
    <2> QED
        BY <1>1, <2>2
<1> QED
    BY <1>1, <1>2, <1>3

LEMMA Division ==
    ASSUME NEW a \in Nat, NEW len \in Nat \ {0}
    PROVE  a \div len \in Nat /\ a % len \in 0..(len - 1) /\ a = (a \div len) * len + (a % len)
<1>1. a = len * (a \div len) + (a % len) /\ a % len \in 0..(len - 1) /\ a \div len \in Int
    OBVIOUS
<1>2. PICK d \in Int, r \in 0..(len - 1) : d = a \div len /\ r = a % len /\ a = len * d + r
    BY <1>1
<1>3. d \in Nat
    <2>1. SUFFICES ASSUME d < 0 PROVE FALSE
        OBVIOUS
    <2>2. PICK m \in Nat : d = -(m + 1)
        <3>1. -d - 1 \in Nat /\ d = -((-d - 1) + 1)
            BY <2>1
        <3> QED
            BY <3>1
    <2>3. len * d = -(m * len + len) /\ m * len \in Nat
        BY <2>2
    <2> QED
        BY <1>2, <2>3
<1>4. len * d = d * len
    OBVIOUS
<1> QED
    BY <1>2, <1>3, <1>4

LEMMA WholeParts ==
    ASSUME NEW a \in Nat, NEW len \in Nat \ {0}, NEW q \in Nat,
           q * len <= a, a < q * len + len
    PROVE  a \div len = q
<1>1. PICK d \in Nat, r \in 0..(len - 1) : d = a \div len /\ a = d * len + r
    BY Division
<1>2. ~(d < q)
    BY <1>1, Multiples
<1>3. ~(q < d)
    BY <1>1, Multiples
<1> QED
    BY <1>1, <1>2, <1>3

LEMMA SmallerOf ==
    ASSUME NEW a \in Int, NEW b \in Int
    PROVE  Min({a, b}) = IF a <= b THEN a ELSE b
BY DEF Min

\* A set of numbers up to a bound has a largest one.
LEMMA LargestOf ==
    ASSUME NEW n \in Nat, NEW T \in SUBSET (0..n), T # {}
    PROVE  Max(T) \in T /\ \A x \in T : x <= Max(T)
<1> DEFINE Above == {k \in 0..n : (\E x \in T : n - k <= x) => \E x \in T : \A y \in T : y <= x}
<1>1. 0 \in Above
    <2>1. ASSUME NEW x \in T, n <= x PROVE \A y \in T : y <= x
        BY <2>1
    <2> QED
        BY <2>1
<1>2. ASSUME NEW k \in 1..n, k - 1 \in Above PROVE k \in Above
    <2>1. SUFFICES ASSUME NEW x \in T, n - k <= x
                   PROVE  \E z \in T : \A y \in T : y <= z
        OBVIOUS
    <2>2. CASE \E z \in T : n - (k - 1) <= z
        BY <1>2, <2>2
    <2>3. CASE \A z \in T : ~(n - (k - 1) <= z)
        <3>1. \A y \in T : y <= x
            BY <2>1, <2>3
        <3> QED
            BY <3>1
    <2> QED
        BY <2>2, <2>3
<1> HIDE DEF Above
<1>3. n \in Above
    BY <1>1, <1>2, IndexInduction
<1>4. \E x \in T : n - n <= x
    <2>1. PICK x \in T : x \in 0..n
        OBVIOUS
    <2>2. n - n <= x
        BY <2>1
    <2> QED
        BY <2>2
<1>5. \E x \in T : \A y \in T : y <= x
    BY <1>3, <1>4 DEF Above
<1>6. \E x \in T : \A y \in T : x >= y
    BY <1>5
<1> QED
    BY <1>6 DEF Max

-----------------------------------------------------------------------------
(* Frames of a file *)

LEMMA JobTypes ==
    ASSUME JobAssumption, NEW j \in Jobs
    PROVE  /\ FrameLen \in Nat \ {0} /\ SourceLen(j) \in Nat \ {0}
           /\ j.file \in Bytes /\ Len(j.file) \in Nat
           /\ j.counted \in Bytes /\ Len(j.counted) \in Nat
           /\ j.given \in Nat /\ j.y4m \in BOOLEAN /\ j.convert \in BOOLEAN
           /\ (~j.convert => SourceLen(j) = FrameLen)
BY LenProperties DEF JobAssumption, SourceLen, Bytes

FileFrame(j, k) == IF j.convert THEN ToCodec(FrameAt(j, k)) ELSE FrameAt(j, k)

\* FramesOf goes on to the first frame that is not there.
LEMMA FramesThatAreThere ==
    ASSUME NEW j, NEW count \in Nat
    PROVE  /\ Len(FramesOf(j, count)) \in 0..count
           /\ \A k \in 1..Len(FramesOf(j, count)) : FramesOf(j, count)[k] = FileFrame(j, k)
           /\ Len(FramesOf(j, count)) > 0 => Present(j, Len(FramesOf(j, count)))
           /\ \A k \in 1..count : Present(j, k) => k <= Len(FramesOf(j, count))
<1> DEFINE T == {0} \cup {k \in 1..count : Present(j, k)}
           there == Max(T)
<1>1. T \in SUBSET (0..count) /\ T # {}
    OBVIOUS
<1>2. there \in T /\ \A x \in T : x <= there
    BY <1>1, LargestOf
<1>3. FramesOf(j, count) = [k \in 1..there |-> FileFrame(j, k)]
    BY DEF FramesOf, FileFrame
<1>4. there \in 0..count /\ (there > 0 => Present(j, there)) /\ (\A k \in 1..count : Present(j, k) => k <= there)
    BY <1>2
<1> HIDE DEF there
<1>5. Len(FramesOf(j, count)) = there
    BY <1>3, <1>4
<1> QED
    BY <1>3, <1>4, <1>5

-----------------------------------------------------------------------------
(* Counting *)

LEMMA CountStepIsTyped ==
    ASSUME NEW bytes \in Bytes, NEW len \in Nat, NEW most \in Nat
    PROVE  Y4mStep(bytes, len, most) \in [CountState -> CountState]
<1> DEFINE result(s) ==
            IF s.stop \/ s.n = most \/ s.at = Len(bytes) THEN s
            ELSE IF bytes[s.at + 1] # Marker \/ s.at + 1 + len > Len(bytes)
                 THEN [s EXCEPT !.stop = TRUE, !.n = 0]
            ELSE [s EXCEPT !.n = s.n + 1, !.at = s.at + 1 + len]
<1>1. ASSUME NEW s \in CountState PROVE result(s) \in CountState
    <2>1. s.n \in Nat /\ s.at \in Nat /\ s.n + 1 \in Nat /\ s.at + 1 + len \in Nat
        BY DEF CountState
    <2>2. /\ [s EXCEPT !.stop = TRUE, !.n = 0] \in CountState
          /\ [s EXCEPT !.n = s.n + 1, !.at = s.at + 1 + len] \in CountState
        BY <2>1 DEF CountState
    <2> QED
        BY <2>2
<1>2. Y4mStep(bytes, len, most) = [s \in CountState |-> result(s)]
    BY DEF Y4mStep
<1> HIDE DEF result
<1> QED
    BY <1>1, <1>2

\* infer_y4m_complete_frame_count is the last of the states the loop goes through.
LEMMA CountIsStepped ==
    ASSUME NEW bytes \in Bytes, NEW len \in Nat, NEW most \in Nat
    PROVE  \E after \in [0..Len(bytes) -> CountState] :
              /\ after[0] = [n |-> 0, at |-> 0, stop |-> FALSE]
              /\ \A k \in 1..Len(bytes) : after[k] = Y4mStep(bytes, len, most)[after[k - 1]]
              /\ Y4mCount(bytes, len, most) = after[Len(bytes)].n
<1> DEFINE n == Len(bytes)
           base == [n |-> 0, at |-> 0, stop |-> FALSE]
           step == Y4mStep(bytes, len, most)
           next == [k \in 1..n |-> step]
           Steps(f) == f = [k \in 0..n |-> IF k = 0 THEN base ELSE step[f[k - 1]]]
<1>1. n \in Nat /\ base \in CountState
    BY LenProperties DEF Bytes, CountState
<1>2. step \in [CountState -> CountState]
    BY CountStepIsTyped
<1>3. next \in NextFunctions(n, CountState)
    BY <1>2 DEF NextFunctions
<1> HIDE DEF n, base, step
<1>4. PICK f : Iteration(n, CountState, base, next, f)
    BY <1>1, <1>3, Iterates
<1>5. Steps(f)
    <2>1. /\ f \in [0..n -> CountState] /\ f[0] = base
          /\ \A k \in 1..n : f[k] = step[f[k - 1]]
        BY <1>4 DEF Iteration
    <2>2. \A k \in 0..n : f[k] = IF k = 0 THEN base ELSE step[f[k - 1]]
        BY <1>1, <2>1
    <2> QED
        BY <2>1, <2>2
<1> DEFINE after == CHOOSE g : Steps(g)
<1>6. Steps(after)
    <2> HIDE DEF Steps
    <2> QED
        BY <1>5
<1>7. Y4mCount(bytes, len, most) = after[n].n
    BY DEF Y4mCount, n, base, step
<1> HIDE DEF after
<1>8. after = [k \in 0..n |-> IF k = 0 THEN base ELSE step[after[k - 1]]]
    BY <1>6
<1>9. after[0] = base /\ \A k \in 1..n : after[k] = step[after[k - 1]]
    BY <1>1, <1>8
<1>10. \A k \in 0..n : after[k] \in CountState
    <2> DEFINE T == {k \in 0..n : after[k] \in CountState}
    <2>1. 0 \in T
        BY <1>1, <1>9
    <2>2. ASSUME NEW k \in 1..n, k - 1 \in T PROVE k \in T
        BY <1>1, <1>2, <1>9, <2>2
    <2> HIDE DEF T
    <2>3. \A k \in 0..n : k \in T
        BY <1>1, <2>1, <2>2, IndexInduction
    <2> QED
        BY <2>3 DEF T
<1>11. after \in [0..n -> CountState]
    BY <1>8, <1>10
<1> QED
    BY <1>7, <1>9, <1>11 DEF n, base, step

\* As far as the loop has gone, frames follow one another without a gap.
Walked(j, s) ==
    /\ s \in CountState
    /\ IF s.stop THEN s.n = 0
       ELSE s.at = s.n * (SourceLen(j) + 1) /\ s.at <= Len(j.file) /\ Present(j, s.n)

\* One frame more: its marker and its bytes.
LEMMA OneMorePresent ==
    ASSUME JobAssumption, NEW j \in Jobs, NEW k \in Nat
    PROVE  LET start == k * (SourceLen(j) + 1)
           IN  IF j.y4m THEN Present(j, k + 1) <=>
                                /\ Present(j, k)
                                /\ start + SourceLen(j) < Len(j.file) /\ j.file[start + 1] = Marker
               ELSE Present(j, k + 1) <=> k * SourceLen(j) + SourceLen(j) <= Len(j.file)
<1>1. SourceLen(j) \in Nat \ {0} /\ j.y4m \in BOOLEAN
    BY JobTypes
<1>2. CASE j.y4m
    <2> DEFINE there(i) == LET start == (i - 1) * (SourceLen(j) + 1)
                           IN  start + SourceLen(j) < Len(j.file) /\ j.file[start + 1] = Marker
    <2>1. \A i : Present(j, i) <=> \A m \in 1..i : there(m)
        BY <1>2 DEF Present
    <2>2. 1..(k + 1) = (1..k) \cup {k + 1}
        OBVIOUS
    <2>3. (k + 1) - 1 = k
        OBVIOUS
    <2>4. there(k + 1) <=>
            LET start == k * (SourceLen(j) + 1)
            IN  start + SourceLen(j) < Len(j.file) /\ j.file[start + 1] = Marker
        BY <2>3
    <2>5. Present(j, k + 1) <=> Present(j, k) /\ there(k + 1)
        <3> HIDE DEF there
        <3> QED
            BY <2>1, <2>2
    <2> HIDE DEF there
    <2> QED
        BY <1>2, <2>4, <2>5
<1>3. CASE ~j.y4m
    <2>1. (k + 1) * SourceLen(j) = k * SourceLen(j) + SourceLen(j)
        BY <1>1, Multiples
    <2> QED
        BY <1>3, <2>1 DEF Present
<1> QED
    BY <1>2, <1>3

LEMMA PresentDownwards ==
    ASSUME JobAssumption, NEW j \in Jobs, NEW k \in Nat, NEW i \in 0..k, Present(j, k)
    PROVE  Present(j, i)
<1>1. SourceLen(j) \in Nat \ {0} /\ j.y4m \in BOOLEAN /\ Len(j.file) \in Nat
    BY JobTypes
<1>2. CASE j.y4m
    <2>1. 1..i \subseteq 1..k
        OBVIOUS
    <2> QED
        BY <1>2, <2>1 DEF Present
<1>3. CASE ~j.y4m
    <2>1. i * SourceLen(j) <= k * SourceLen(j) /\ i * SourceLen(j) \in Nat /\ k * SourceLen(j) \in Nat
        BY <1>1, Multiples
    <2> QED
        BY <1>1, <1>3, <2>1 DEF Present
<1> QED
    BY <1>2, <1>3

LEMMA WalkGoesOn ==
    ASSUME JobAssumption, NEW j \in Jobs, j.y4m, NEW most \in Nat, NEW s \in CountState, Walked(j, s)
    PROVE  Walked(j, Y4mStep(j.file, SourceLen(j), most)[s])
<1> DEFINE len == SourceLen(j)
           t == Y4mStep(j.file, len, most)[s]
<1>1. len \in Nat \ {0} /\ Len(j.file) \in Nat /\ j.file \in Bytes
    BY JobTypes
<1>2. s.n \in Nat /\ s.at \in Nat /\ s.stop \in BOOLEAN
    BY DEF CountState
<1>3. t \in CountState
    BY <1>1, CountStepIsTyped
<1>4. t = IF s.stop \/ s.n = most \/ s.at = Len(j.file) THEN s
          ELSE IF j.file[s.at + 1] # Marker \/ s.at + 1 + len > Len(j.file)
               THEN [s EXCEPT !.stop = TRUE, !.n = 0]
          ELSE [s EXCEPT !.n = s.n + 1, !.at = s.at + 1 + len]
    BY DEF Y4mStep
<1>5. CASE s.stop \/ s.n = most \/ s.at = Len(j.file)
    BY <1>4, <1>5
<1>6. CASE /\ ~(s.stop \/ s.n = most \/ s.at = Len(j.file))
           /\ j.file[s.at + 1] # Marker \/ s.at + 1 + len > Len(j.file)
    <2>1. t.stop = TRUE /\ t.n = 0
        BY <1>4, <1>6 DEF CountState
    <2> QED
        BY <1>3, <2>1 DEF Walked
<1>7. CASE /\ ~(s.stop \/ s.n = most \/ s.at = Len(j.file))
           /\ ~(j.file[s.at + 1] # Marker \/ s.at + 1 + len > Len(j.file))
    <2>1. t.stop = s.stop /\ t.n = s.n + 1 /\ t.at = s.at + 1 + len
        BY <1>4, <1>7 DEF CountState
    <2>2. s.at = s.n * (len + 1) /\ Present(j, s.n)
        BY <1>7 DEF Walked
    <2>3. (s.n + 1) * (len + 1) = s.n * (len + 1) + (len + 1)
        BY <1>1, <1>2, Multiples
    <2>4. t.at = t.n * (len + 1)
        BY <1>1, <1>2, <2>1, <2>2, <2>3
    <2>5. s.at + len < Len(j.file) /\ j.file[s.at + 1] = Marker /\ t.at <= Len(j.file)
        BY <1>1, <1>2, <1>7, <2>1
    <2>6. Present(j, s.n + 1)
        BY <1>2, <2>2, <2>5, OneMorePresent
    <2> QED
        BY <1>2, <1>3, <1>7, <2>1, <2>4, <2>5, <2>6 DEF Walked
<1> QED
    BY <1>5, <1>6, <1>7

\* The frames counted in a file are there when the file is read.
LEMMA CountedArePresent ==
    ASSUME JobAssumption, NEW j \in Jobs
    PROVE  /\ ResolveFrameCount(j) \in Nat
           /\ j.file = j.counted => Present(j, ResolveFrameCount(j))
<1> DEFINE len == SourceLen(j)
           most == IF j.given = 0 THEN Len(j.counted) ELSE j.given
           whole == Len(j.counted) \div len
<1>1. /\ len \in Nat \ {0} /\ j.y4m \in BOOLEAN /\ j.given \in Nat
      /\ Len(j.file) \in Nat /\ Len(j.counted) \in Nat
      /\ j.file \in Bytes /\ j.counted \in Bytes
      /\ most \in Nat
    BY JobTypes
<1>2. CASE j.y4m
    <2>1. ResolveFrameCount(j) = Y4mCount(j.counted, len, most)
        BY <1>2 DEF ResolveFrameCount
    <2> DEFINE n == Len(j.counted)
    <2>2. PICK after \in [0..n -> CountState] :
              /\ after[0] = [n |-> 0, at |-> 0, stop |-> FALSE]
              /\ \A k \in 1..n : after[k] = Y4mStep(j.counted, len, most)[after[k - 1]]
              /\ Y4mCount(j.counted, len, most) = after[n].n
        BY <1>1, CountIsStepped
    <2>3. after[n] \in CountState
        BY <1>1
    <2>4. ResolveFrameCount(j) \in Nat
        BY <2>1, <2>2, <2>3 DEF CountState
    <2>5. ASSUME j.file = j.counted PROVE Present(j, ResolveFrameCount(j))
        <3> DEFINE T == {k \in 0..n : Walked(j, after[k])}
        <3>1. 0 \in T
            <4>1. Present(j, 0)
                BY <1>2 DEF Present
            <4>2. after[0].n = 0 /\ after[0].at = 0 /\ after[0].stop = FALSE
                BY <2>2
            <4>3. 0 * (len + 1) = 0
                BY <1>1
            <4>4. 0 \in 0..n /\ after[0] \in CountState
                BY <1>1
            <4> QED
                BY <1>1, <4>1, <4>2, <4>3, <4>4 DEF Walked
        <3>2. ASSUME NEW k \in 1..n, k - 1 \in T PROVE k \in T
            <4>1. after[k - 1] \in CountState /\ Walked(j, after[k - 1])
                BY <1>1, <3>2
            <4>2. after[k] = Y4mStep(j.file, len, most)[after[k - 1]]
                BY <2>2, <2>5
            <4>3. Walked(j, after[k])
                BY <1>1, <1>2, <4>1, <4>2, WalkGoesOn
            <4> QED
                BY <4>3
        <3> HIDE DEF T
        <3>3. \A k \in 0..n : k \in T
            BY <1>1, <3>1, <3>2, IndexInduction
        <3>4. Walked(j, after[n])
            BY <1>1, <3>3 DEF T
        <3>5. Present(j, 0)
            BY <1>2 DEF Present
        <3>6. Present(j, after[n].n)
            BY <3>4, <3>5 DEF Walked
        <3> QED
            BY <2>1, <2>2, <3>6
    <2> QED
        BY <2>4, <2>5
<1>3. CASE ~j.y4m
    <2>1. PICK q \in Nat : q = whole /\ q * len <= Len(j.counted) /\ 0 * len = 0
        <3>1. PICK q \in Nat, r \in 0..(len - 1) : q = whole /\ Len(j.counted) = q * len + r
            BY <1>1, Division
        <3>2. q * len \in Nat /\ 0 * len = 0
            BY <1>1, Multiples
        <3> QED
            BY <1>1, <3>1, <3>2
    <2>2. ResolveFrameCount(j) \in 0..q
        <3>1. CASE j.given > 0
            <4>1. ResolveFrameCount(j) = Min({j.given, q})
                BY <1>3, <2>1, <3>1 DEF ResolveFrameCount
            <4> QED
                BY <1>1, <4>1, SmallerOf
        <3>2. CASE ~(j.given > 0)
            <4>1. ResolveFrameCount(j) = q \/ ResolveFrameCount(j) = 0
                BY <1>3, <2>1, <3>2 DEF ResolveFrameCount
            <4> QED
                BY <4>1
        <3> QED
            BY <3>1, <3>2
    <2>3. PICK r \in 0..q : r = ResolveFrameCount(j)
        BY <2>2
    <2>4. r * len <= q * len /\ r * len \in Nat /\ q * len \in Nat
        BY <1>1, Multiples
    <2> QED
        BY <1>1, <1>3, <2>1, <2>3, <2>4 DEF Present
<1> QED
    BY <1>1, <1>2, <1>3

-----------------------------------------------------------------------------
(* Reading                                                                  *)

\* What a frame takes in the file.
Span(j) == IF j.y4m THEN SourceLen(j) + 1 ELSE SourceLen(j)

\* The reader stands behind the frames pulled, or inside the next one, whose
\* part it holds.
Placed ==
    /\ buffer \in Bytes /\ Len(buffer) < FrameLen
    /\ position = pulled * Span(job) + Len(buffer)
    /\ job.y4m \/ job.convert => buffer = <<>>
    /\ ~job.y4m /\ ~job.convert =>
          /\ buffer = SubSeq(job.file, pulled * Span(job) + 1, position)
          /\ position <= Readable

JobInv ==
    /\ job \in Jobs
    /\ frames = ResolveFrameCount(job)
    /\ input = FramesOf(job, frames)
    /\ Placed
    /\ job.file = job.counted => cause # "content"

LEMMA JobFacts ==
    ASSUME JobAssumption, JobInv
    PROVE  /\ job \in Jobs
           /\ FrameLen \in Nat \ {0} /\ SourceLen(job) \in Nat \ {0} /\ Span(job) \in Nat \ {0}
           /\ job.file \in Bytes /\ Len(job.file) \in Nat
           /\ job.y4m \in BOOLEAN /\ job.convert \in BOOLEAN
           /\ frames \in Nat /\ frames * SourceLen(job) \in Nat
           /\ Readable = (IF Len(job.file) <= frames * SourceLen(job) THEN Len(job.file)
                          ELSE frames * SourceLen(job))
           /\ ~job.convert => SourceLen(job) = FrameLen
<1>1. /\ job \in Jobs /\ frames = ResolveFrameCount(job)
    BY DEF JobInv
<1>2. /\ FrameLen \in Nat \ {0} /\ SourceLen(job) \in Nat \ {0} /\ Span(job) \in Nat \ {0}
      /\ job.file \in Bytes /\ Len(job.file) \in Nat
      /\ job.y4m \in BOOLEAN /\ job.convert \in BOOLEAN
      /\ ~job.convert => SourceLen(job) = FrameLen
    BY <1>1, JobTypes DEF Span
<1>3. frames \in Nat
    BY <1>1, CountedArePresent
<1>4. frames * SourceLen(job) \in Nat
    BY <1>2, <1>3, Multiples
<1> QED
    BY <1>1, <1>2, <1>3, <1>4, SmallerOf DEF Readable

LEMMA InputFacts ==
    ASSUME JobAssumption, JobInv, pulled \in 0..Len(input)
    PROVE  /\ Len(input) \in 0..frames
           /\ Present(job, pulled)
           /\ \A k \in 1..Len(input) : input[k] = FileFrame(job, k) /\ Present(job, k)
           /\ \A k \in 1..frames : Present(job, k) => k <= Len(input)
           /\ job.file = job.counted => Len(input) = frames
           /\ position \in Nat
<1>1. /\ job \in Jobs /\ frames = ResolveFrameCount(job) /\ input = FramesOf(job, frames) /\ frames \in Nat
      /\ Len(job.file) \in Nat /\ SourceLen(job) \in Nat
    BY JobFacts DEF JobInv
<1>2. /\ Len(input) \in 0..frames
      /\ \A k \in 1..Len(input) : input[k] = FileFrame(job, k)
      /\ Len(input) > 0 => Present(job, Len(input))
      /\ \A k \in 1..frames : Present(job, k) => k <= Len(input)
    BY <1>1, FramesThatAreThere
<1>3. Present(job, 0)
    BY <1>1 DEF Present
<1>4. Present(job, Len(input)) /\ Len(input) \in Nat
    BY <1>2, <1>3
<1>5. \A k \in 0..Len(input) : Present(job, k)
    BY <1>1, <1>4, PresentDownwards
<1>6. ASSUME job.file = job.counted PROVE Len(input) = frames
    <2>1. Present(job, frames)
        BY <1>1, <1>6, CountedArePresent
    <2> QED
        BY <1>1, <1>2, <2>1
<1>7. position \in Nat
    <2>1. pulled * Span(job) \in Nat
        BY <1>4, JobFacts, Multiples
    <2>2. Len(buffer) \in Nat /\ position = pulled * Span(job) + Len(buffer)
        BY LenProperties DEF JobInv, Placed, Bytes
    <2> QED
        BY <2>1, <2>2
<1> QED
    BY <1>2, <1>4, <1>5, <1>6, <1>7

\* The readers that work by frames find the next one where FramesOf has it.
LEMMA NextFrameIsThere ==
    ASSUME JobAssumption, JobInv, pulled \in 0..Len(input), pulled < frames,
           job.y4m \/ job.convert
    PROVE  /\ FrameIsThere <=> Present(job, pulled + 1)
           /\ FrameIsThere <=> pulled + 1 <= Len(input)
           /\ SubSeq(job.file, FrameStart + 1, FrameStart + SourceLen(job)) = FrameAt(job, pulled + 1)
           /\ FrameStart + SourceLen(job) = (pulled + 1) * Span(job)
<1>1. /\ job \in Jobs /\ SourceLen(job) \in Nat \ {0} /\ Span(job) \in Nat \ {0}
      /\ Len(job.file) \in Nat /\ job.y4m \in BOOLEAN /\ frames \in Nat
      /\ frames * SourceLen(job) \in Nat
      /\ Readable = (IF Len(job.file) <= frames * SourceLen(job) THEN Len(job.file)
                     ELSE frames * SourceLen(job))
    BY JobFacts
<1>2. /\ Len(input) \in 0..frames /\ pulled \in Nat /\ Present(job, pulled) /\ position \in Nat
      /\ \A k \in 1..Len(input) : Present(job, k)
      /\ \A k \in 1..frames : Present(job, k) => k <= Len(input)
    BY <1>1, InputFacts
<1>3. PICK base \in Nat : base = pulled * Span(job) /\ position = base
    <2>1. buffer = <<>> /\ position = pulled * Span(job) + Len(buffer) /\ Len(<<>>) = 0
        BY EmptySeq DEF JobInv, Placed
    <2>2. pulled * Span(job) \in Nat
        BY <1>1, <1>2, Multiples
    <2> QED
        BY <2>1, <2>2
<1>4. (pulled + 1) * Span(job) = base + Span(job)
    BY <1>1, <1>2, <1>3, Multiples
<1>5. (pulled + 1) - 1 = pulled
    BY <1>2
<1>6. CASE job.y4m
    <2>1. Span(job) = SourceLen(job) + 1 /\ FrameStart = base + 1
        BY <1>3, <1>6 DEF Span, FrameStart
    <2>2. Present(job, pulled + 1) <=>
            base + SourceLen(job) < Len(job.file) /\ job.file[base + 1] = Marker
        BY <1>1, <1>2, <1>3, <1>6, <2>1, OneMorePresent
    <2>3. FrameIsThere <=> base + SourceLen(job) < Len(job.file) /\ job.file[base + 1] = Marker
        <3>1. FrameIsThere <=> /\ base < Len(job.file) /\ job.file[base + 1] = Marker
                               /\ (base + 1) + SourceLen(job) <= Len(job.file)
            BY <1>3, <1>6, <2>1 DEF FrameIsThere
        <3> QED
            BY <1>1, <3>1
    <2>4. FrameStart + SourceLen(job) = base + Span(job)
        BY <1>1, <2>1
    <2>5. SubSeq(job.file, FrameStart + 1, FrameStart + SourceLen(job)) = FrameAt(job, pulled + 1)
        BY <1>3, <1>5, <1>6, <2>1 DEF FrameAt
    <2>6. Present(job, pulled + 1) <=> pulled + 1 <= Len(input)
        BY <1>1, <1>2
    <2> QED
        BY <1>4, <2>2, <2>3, <2>4, <2>5, <2>6
<1>7. CASE ~job.y4m
    <2>1. Span(job) = SourceLen(job) /\ FrameStart = base
        BY <1>3, <1>7 DEF Span, FrameStart
    <2>2. Present(job, pulled + 1) <=> base + SourceLen(job) <= Len(job.file)
        BY <1>1, <1>2, <1>3, <1>7, <2>1, OneMorePresent
    <2>3. base + SourceLen(job) <= frames * SourceLen(job)
        BY <1>1, <1>2, <1>3, <2>1, Multiples
    <2>4. FrameIsThere <=> base + SourceLen(job) <= Len(job.file)
        <3>1. FrameIsThere <=> base + SourceLen(job) <= Readable
            BY <1>7, <2>1 DEF FrameIsThere
        <3> QED
            BY <1>1, <2>3, <3>1
    <2>5. SubSeq(job.file, FrameStart + 1, FrameStart + SourceLen(job)) = FrameAt(job, pulled + 1)
        BY <1>3, <1>5, <1>7, <2>1 DEF FrameAt
    <2>6. Present(job, pulled + 1) <=> pulled + 1 <= Len(input)
        BY <1>1, <1>2
    <2> QED
        BY <1>4, <2>1, <2>2, <2>4, <2>5, <2>6
<1> QED
    BY <1>1, <1>6, <1>7

\* A raw file in the codec's format is at its end where FramesOf ends.
LEMMA RawEnd ==
    ASSUME JobAssumption, JobInv, pulled \in 0..Len(input),
           ~job.y4m, ~job.convert, position = Readable
    PROVE  /\ buffer = <<>> => pulled = Len(input)
           /\ job.file = job.counted => buffer = <<>>
<1>1. /\ job \in Jobs /\ SourceLen(job) \in Nat \ {0} /\ FrameLen = SourceLen(job)
      /\ Len(job.file) \in Nat /\ frames \in Nat
      /\ frames * SourceLen(job) \in Nat
      /\ Readable = (IF Len(job.file) <= frames * SourceLen(job) THEN Len(job.file)
                     ELSE frames * SourceLen(job))
    BY JobFacts
<1>2. /\ Len(input) \in 0..frames /\ pulled \in Nat
      /\ \A k \in 1..Len(input) : Present(job, k)
      /\ \A k \in 1..frames : Present(job, k) => k <= Len(input)
      /\ job.file = job.counted => Len(input) = frames
    BY <1>1, InputFacts
<1>3. PICK base \in Nat, part \in Nat :
        /\ base = pulled * SourceLen(job) /\ part = Len(buffer)
        /\ position = base + part /\ part < SourceLen(job)
        /\ buffer \in Bytes
    <2>1. Span(job) = SourceLen(job)
        BY DEF Span
    <2>2. pulled * SourceLen(job) \in Nat
        BY <1>1, <1>2, Multiples
    <2>3. /\ buffer \in Bytes /\ Len(buffer) \in Nat /\ Len(buffer) < SourceLen(job)
          /\ position = pulled * SourceLen(job) + Len(buffer)
        BY <1>1, <2>1, LenProperties DEF JobInv, Placed, Bytes
    <2> QED
        BY <2>2, <2>3
<1>4. PICK m \in Nat : m = Len(input)
    BY <1>2
<1>5. PICK all \in Nat : all = m * SourceLen(job) /\ all <= frames * SourceLen(job)
    <2>1. m * SourceLen(job) \in Nat /\ m * SourceLen(job) <= frames * SourceLen(job)
        BY <1>1, <1>2, <1>4, Multiples
    <2> QED
        BY <2>1
<1>6. all <= Len(job.file)
    <2>1. Present(job, m)
        BY <1>1, <1>2, <1>4 DEF Present
    <2> QED
        BY <1>5, <2>1 DEF Present
<1>7. pulled < m => base + SourceLen(job) <= all
    BY <1>1, <1>2, <1>3, <1>4, <1>5, Multiples
<1>8. pulled = m => base = all
    BY <1>3, <1>5
<1>9. all <= position
    BY <1>1, <1>5, <1>6
<1>10. pulled = m
    BY <1>1, <1>2, <1>3, <1>4, <1>7, <1>9
<1>11. ASSUME job.file = job.counted PROVE buffer = <<>>
    <2>1. all = frames * SourceLen(job)
        BY <1>2, <1>4, <1>5, <1>11
    <2>2. part = 0
        BY <1>1, <1>3, <1>6, <1>8, <1>10, <2>1
    <2> QED
        BY <1>3, <2>2, EmptySeq DEF Bytes
<1> QED
    BY <1>4, <1>10, <1>11

\* Reads that return part of a frame put it together as FramesOf has it.
LEMMA RawRead ==
    ASSUME JobAssumption, JobInv, pulled \in 0..Len(input), ~job.y4m, ~job.convert,
           NEW n \in 1..FrameLen, Len(buffer) + n <= FrameLen, position + n <= Readable
    PROVE  LET read == buffer \o SubSeq(job.file, position + 1, position + n)
           IN  /\ read \in Bytes
               /\ Len(read) = Len(buffer) + n
               /\ read = SubSeq(job.file, pulled * Span(job) + 1, position + n)
               /\ Len(read) = FrameLen => /\ pulled < Len(input) /\ read = input[pulled + 1]
                                          /\ position + n = (pulled + 1) * Span(job)
<1>1. /\ job \in Jobs /\ SourceLen(job) \in Nat \ {0} /\ FrameLen = SourceLen(job)
      /\ Len(job.file) \in Nat /\ frames \in Nat /\ job.file \in Bytes
    BY JobFacts
<1> PICK selected \in Nat :
        /\ selected = frames * SourceLen(job)
        /\ Readable = (IF Len(job.file) <= selected THEN Len(job.file) ELSE selected)
    BY JobFacts
<1>2. /\ Len(input) \in 0..frames /\ pulled \in Nat
      /\ \A k \in 1..Len(input) : input[k] = FileFrame(job, k)
      /\ \A k \in 1..frames : Present(job, k) => k <= Len(input)
    BY <1>1, InputFacts
<1>3. Span(job) = SourceLen(job)
    BY DEF Span
<1>4. PICK base \in Nat, part \in Nat :
        /\ base = pulled * SourceLen(job) /\ part = Len(buffer)
        /\ position = base + part /\ part < SourceLen(job)
    <2>2. pulled * SourceLen(job) \in Nat
        BY <1>1, <1>2, Multiples
    <2>3. /\ Len(buffer) \in Nat /\ Len(buffer) < SourceLen(job)
          /\ position = pulled * SourceLen(job) + Len(buffer)
        BY <1>1, <1>3, LenProperties DEF JobInv, Placed, Bytes
    <2> QED
        BY <2>2, <2>3
<1>5. buffer \in Bytes /\ buffer = SubSeq(job.file, base + 1, position)
    BY <1>1, <1>3, <1>4 DEF JobInv, Placed
<1> DEFINE piece == SubSeq(job.file, position + 1, position + n)
           read == buffer \o piece
<1>6. n \in Nat /\ position \in Nat /\ position + n <= Len(job.file) /\ position + n <= selected
    <2>1. n \in Nat /\ position \in Nat
        <3>1. n \in Nat
            BY <1>1
        <3> QED
            BY <1>4, <3>1
    <2> QED
        BY <1>1, <2>1
<1>7. PICK size \in Nat : size = Len(job.file)
    BY <1>1
<1>8. position = base + part
    BY <1>4
<1>9. base + 1 \in 1..(size + 1) /\ position \in base..size /\ position + n \in position..size
    BY <1>6, <1>7, <1>8
<1>10. read = SubSeq(job.file, base + 1, position + n)
    <2>1. /\ base + 1 \in 1..(Len(job.file) + 1)
          /\ position \in ((base + 1) - 1)..Len(job.file)
          /\ position + n \in position..Len(job.file)
        <3>1. (base + 1) - 1 = base
            BY <1>4
        <3> QED
            BY <1>7, <1>9, <3>1
    <2>2. job.file \in Seq(Int)
        BY <1>1 DEF Bytes
    <2> QED
        BY <1>4, <1>5, <2>1, <2>2, ConcatAdjacentSubSeq
<1>11. read \in Bytes /\ Len(read) = part + n
    <2>1. \A i \in (base + 1)..(position + n) : job.file[i] \in Int
        <3>1. (base + 1)..(position + n) \subseteq 1..Len(job.file)
            BY <1>6, <1>7, <1>8
        <3> QED
            BY <1>1, <3>1, ElementOfSeq DEF Bytes
    <2>2. /\ SubSeq(job.file, base + 1, position + n) \in Seq(Int)
          /\ Len(SubSeq(job.file, base + 1, position + n)) =
                IF base + 1 <= position + n THEN (position + n) - (base + 1) + 1 ELSE 0
        <3>1. base + 1 \in Int /\ position + n \in Int
            BY <1>4, <1>6
        <3> QED
            BY <2>1, <3>1, SubSeqProperties
    <2>3. base + 1 <= position + n /\ (position + n) - (base + 1) + 1 = part + n
        BY <1>4, <1>6
    <2> QED
        BY <1>10, <2>2, <2>3 DEF Bytes
<1>12. ASSUME Len(read) = FrameLen
      PROVE  /\ pulled < Len(input) /\ read = input[pulled + 1]
             /\ position + n = (pulled + 1) * Span(job)
    <2>1. part + n = SourceLen(job)
        BY <1>1, <1>11, <1>12
    <2>2. position + n = base + SourceLen(job)
        BY <1>1, <1>4, <1>6, <2>1
    <2>3. (pulled + 1) * SourceLen(job) = base + SourceLen(job)
        BY <1>1, <1>2, <1>4, Multiples
    <2>4. pulled < frames
        <3>1. SUFFICES ASSUME frames <= pulled PROVE FALSE
            BY <1>1, <1>2
        <3>2. selected <= base
            BY <1>1, <1>2, <1>4, <3>1, Multiples
        <3>3. position + n <= selected
            BY <1>1, <1>6
        <3> QED
            BY <1>1, <1>4, <2>2, <3>2, <3>3
    <2>5. Present(job, pulled + 1)
        BY <1>1, <1>2, <1>4, <1>6, <2>2, OneMorePresent
    <2>6. pulled + 1 <= Len(input) /\ pulled + 1 \in 1..Len(input)
        BY <1>1, <1>2, <2>4, <2>5
    <2>7. input[pulled + 1] = FrameAt(job, pulled + 1)
        BY <1>2, <2>6 DEF FileFrame
    <2>8. FrameAt(job, pulled + 1) = SubSeq(job.file, base + 1, base + SourceLen(job))
        <3>1. (pulled + 1) - 1 = pulled
            BY <1>2
        <3> QED
            BY <1>4, <3>1 DEF FrameAt
    <2>9. read = input[pulled + 1]
        BY <1>10, <2>2, <2>7, <2>8
    <2>10. pulled < Len(input)
        BY <1>2, <2>6
    <2> QED
        BY <1>3, <2>2, <2>3, <2>9, <2>10
<1> QED
    BY <1>3, <1>4, <1>10, <1>11, <1>12, <1>5

LEMMA JobStarts ==
    ASSUME JobAssumption, JobInit
    PROVE  Init /\ JobInv
<1> USE DEF JobInit
<1>1. job \in Jobs /\ frames \in Nat /\ Span(job) \in Nat /\ FrameLen \in Nat \ {0}
      /\ Len(job.file) \in Nat /\ frames * SourceLen(job) \in Nat
    BY CountedArePresent, JobTypes, Multiples DEF Span
<1>2. input \in SeqOf(Frames, MaxInput)
    BY <1>1 DEF JobAssumption
<1>3. 0 * Span(job) = 0 /\ Len(<<>>) = 0 /\ <<>> \in Bytes
    BY <1>1, EmptySeq DEF Bytes
<1>4. 0 <= Readable
    BY <1>1, SmallerOf DEF Readable
<1>5. SubSeq(job.file, 0 + 1, 0) = <<>>
    BY SubSeqEmpty
<1>6. Placed
    BY <1>1, <1>3, <1>4, <1>5 DEF Placed
<1> QED
    BY <1>1, <1>2, <1>6 DEF Init, JobInv

\* Each step of the job is a step of FilteredSource or leaves it alone.
LEMMA JobKeeps ==
    ASSUME JobAssumption, JobInv, SourceInv, [JobNext]_jobVars
    PROVE  JobInv' /\ [Next]_vars
<1>1. /\ pulled \in 0..Len(input) /\ Len(input) \in Nat
      /\ job \in Jobs /\ frames = ResolveFrameCount(job) /\ input = FramesOf(job, frames) /\ Placed
      /\ job.file = job.counted => cause # "content"
    BY LenProperties DEF JobInv, SourceInv, SourceTypes, Streams
\* Steps that leave the reader where it is.
<1>2. ASSUME UNCHANGED <<job, frames, input, pulled, position, buffer, cause>>
      PROVE  JobInv'
    BY <1>1, <1>2 DEF JobInv, Placed, Readable
<1>3. ASSUME NEW n \in 1..FrameLen, ReadBytes(n) PROVE JobInv' /\ [Next]_vars
    <2>1. PICK read : read = buffer \o SubSeq(job.file, position + 1, position + n)
        OBVIOUS
    <2>2. /\ ~job.y4m /\ ~job.convert
          /\ Len(buffer) + n <= FrameLen /\ position + n <= Readable
          /\ position' = position + n
          /\ IF Len(read) = FrameLen THEN buffer' = <<>> /\ PullFrame(read)
             ELSE buffer' = read /\ UNCHANGED vars
          /\ UNCHANGED <<job, frames, cause>>
        BY <1>3, <2>1 DEF ReadBytes
    <2>3. /\ read \in Bytes
          /\ Len(read) = Len(buffer) + n
          /\ read = SubSeq(job.file, pulled * Span(job) + 1, position + n)
          /\ Len(read) = FrameLen => /\ pulled < Len(input) /\ read = input[pulled + 1]
                                     /\ position + n = (pulled + 1) * Span(job)
        BY <1>1, <2>1, <2>2, RawRead
    <2>4. FrameLen \in Nat \ {0} /\ position \in Nat /\ n \in Nat /\ Len(buffer) \in Nat
        <3>1. FrameLen \in Nat \ {0} /\ position \in Nat
            BY <1>1, JobFacts, InputFacts
        <3>2. buffer \in Seq(Int)
            BY <1>1 DEF Placed, Bytes
        <3> QED
            BY <3>1, <3>2, LenProperties
    <2>5. Readable' = Readable
        BY <2>2 DEF Readable
    <2>6. CASE Len(read) = FrameLen
        <3>1. /\ buffer' = <<>> /\ PullFrame(input[pulled + 1]) /\ pulled < Len(input)
              /\ position' = (pulled + 1) * Span(job)
            BY <2>2, <2>3, <2>6
        <3>2. pulled' = pulled + 1 /\ input' = input
            BY <3>1 DEF PullFrame
        <3>3. PICK at \in Nat : at = position'
            BY <2>2, <2>4
        <3>4. SubSeq(job.file, at + 1, at) = <<>>
            <4>1. at + 1 \in Int /\ at \in Int /\ at < at + 1
                OBVIOUS
            <4> QED
                BY <4>1, SubSeqEmpty
        <3>5. Len(<<>>) = 0 /\ <<>> \in Bytes
            BY EmptySeq DEF Bytes
        <3>6. Placed'
            <4>1. position' = pulled' * Span(job)' + Len(buffer')
                BY <2>2, <3>1, <3>2, <3>3, <3>5
            <4>2. buffer' = SubSeq(job'.file, pulled' * Span(job)' + 1, position')
                BY <2>2, <3>1, <3>2, <3>3, <3>4
            <4>3. buffer' \in Bytes /\ Len(buffer') < FrameLen /\ position' <= Readable'
                BY <2>2, <2>4, <2>5, <3>1, <3>5
            <4> QED
                BY <3>1, <4>1, <4>2, <4>3 DEF Placed
        <3>7. JobInv'
            BY <1>1, <2>2, <3>2, <3>6 DEF JobInv
        <3> QED
            BY <3>1, <3>7 DEF Next, FillStep
    <2>7. CASE Len(read) # FrameLen
        <3>1. buffer' = read /\ UNCHANGED vars
            BY <2>2, <2>7
        <3>2. pulled' = pulled /\ input' = input
            BY <3>1 DEF vars
        <3>3. position' = pulled * Span(job) + Len(read)
            <4>1. PICK base \in Nat : base = pulled * Span(job)
                BY <1>1, JobFacts, Multiples
            <4>2. position = base + Len(buffer)
                BY <1>1, <4>1 DEF Placed
            <4> QED
                BY <2>2, <2>3, <2>4, <4>1, <4>2
        <3>4. Len(read) < FrameLen
            BY <2>2, <2>3, <2>4, <2>7
        <3>5. Placed'
            BY <2>2, <2>3, <2>5, <3>1, <3>2, <3>3, <3>4 DEF Placed
        <3>6. JobInv'
            BY <1>1, <2>2, <3>2, <3>5 DEF JobInv
        <3> QED
            BY <3>1, <3>6
    <2> QED
        BY <2>6, <2>7
<1>4. ASSUME ReadWholeFrame PROVE JobInv' /\ [Next]_vars
    <2> DEFINE read == SubSeq(job.file, FrameStart + 1, FrameStart + SourceLen(job))
               frame == IF job.convert THEN ToCodec(read) ELSE read
    <2>1. /\ job.y4m \/ job.convert
          /\ pulled < frames /\ FrameIsThere
          /\ position' = FrameStart + SourceLen(job)
          /\ PullFrame(frame)
          /\ UNCHANGED <<job, frames, buffer, cause>>
        BY <1>4 DEF ReadWholeFrame
    <2>2. /\ pulled + 1 <= Len(input)
          /\ read = FrameAt(job, pulled + 1)
          /\ position' = (pulled + 1) * Span(job)
        BY <1>1, <2>1, NextFrameIsThere
    <2>3. pulled + 1 \in 1..Len(input) /\ pulled < Len(input)
        BY <1>1, <2>2
    <2>4. frame = input[pulled + 1]
        BY <1>1, <2>2, <2>3, InputFacts DEF FileFrame
    <2>5. PullFrame(input[pulled + 1])
        BY <2>1, <2>4
    <2>6. pulled' = pulled + 1 /\ input' = input
        BY <2>5 DEF PullFrame
    <2>7. buffer = <<>> /\ Len(<<>>) = 0 /\ <<>> \in Bytes
        BY <1>1, <2>1, EmptySeq DEF Placed, Bytes
    <2>8. position' = pulled' * Span(job)' + Len(buffer')
        <3>1. (pulled + 1) * Span(job) \in Nat
            BY <1>1, JobFacts, Multiples
        <3> QED
            BY <2>1, <2>2, <2>6, <2>7, <3>1
    <2>9. Placed'
        BY <1>1, <2>1, <2>7, <2>8 DEF Placed
    <2>10. JobInv'
        BY <1>1, <2>1, <2>6, <2>9 DEF JobInv
    <2> QED
        BY <2>3, <2>5, <2>10 DEF Next, FillStep
<1>5. ASSUME FileEnds PROVE JobInv' /\ [Next]_vars
    <2>1. JobInv'
        BY <1>2, <1>5 DEF FileEnds, SourceEnds, readerVars
    <2>2. pulled = Len(input)
        <3>1. CASE job.y4m \/ job.convert
            BY <1>1, <1>5, <3>1, InputFacts DEF FileEnds
        <3>2. CASE ~(job.y4m \/ job.convert)
            BY <1>1, <1>5, <3>2, RawEnd DEF FileEnds
        <3> QED
            BY <3>1, <3>2
    <2> QED
        BY <1>5, <2>1, <2>2 DEF FileEnds, Next, FillStep
<1>6. ASSUME NEW why, SourceFails(why), why = "content" => ContentIsWrong
      PROVE  JobInv' /\ [Next]_vars
    <2>1. /\ cause' = why /\ FillFails /\ UNCHANGED <<job, frames, position, buffer, input, pulled>>
        BY <1>6 DEF SourceFails, FillFails
    <2>2. ASSUME job.file = job.counted PROVE ~ContentIsWrong
        <3>1. Len(input) = frames /\ frames \in Nat
            BY <1>1, <2>2, InputFacts, JobFacts
        <3>2. CASE job.y4m \/ job.convert
            <4>1. ASSUME pulled < frames PROVE FrameIsThere
                BY <1>1, <3>1, <3>2, <4>1, NextFrameIsThere
            <4> QED
                BY <3>2, <4>1 DEF ContentIsWrong
        <3>3. CASE ~(job.y4m \/ job.convert)
            BY <1>1, <2>2, <3>3, RawEnd DEF ContentIsWrong
        <3> QED
            BY <3>2, <3>3
    <2>3. Placed'
        BY <1>1, <2>1 DEF Placed, Readable
    <2>4. JobInv'
        BY <1>1, <1>6, <2>1, <2>2, <2>3 DEF JobInv
    <2> QED
        BY <2>1, <2>4 DEF Next
<1>7. CASE AdapterCopy
    BY <1>2, <1>7 DEF AdapterCopy, readerVars, vars
<1>8. CASE AdapterLoad
    BY <1>2, <1>8 DEF AdapterLoad, readerVars, ReadFrame, Next
<1>9. CASE ReadReturnsBytes
    BY <1>2, <1>9 DEF ReadReturnsBytes, AdapterReturn, readerVars, vars
<1>10. CASE SourceStep
    <2>1. CASE FlushFilter /\ UNCHANGED <<readerVars, adapterVars, reconVars>>
        BY <1>2, <2>1 DEF FlushFilter, readerVars, Next, FillStep, FilterStep
    <2>2. CASE Deliver /\ UNCHANGED <<readerVars, limit, asked, copied, got, reconVars>>
        BY <1>2, <2>2 DEF Deliver, readerVars, Next, FillStep, FilterStep
    <2>3. CASE ReturnEnd /\ AdapterReturn /\ UNCHANGED rest
        BY <1>2, <2>3 DEF ReturnEnd, AdapterReturn, readerVars, Next, FillStep, FilterStep
    <2> QED
        BY <1>10, <2>1, <2>2, <2>3 DEF SourceStep
<1>11. ASSUME NEW n \in ReadSizes, AdapterRead(n) \/ WriteRecon(n) PROVE JobInv' /\ [Next]_vars
    BY <1>2, <1>11 DEF AdapterRead, WriteRecon, readerVars, vars
<1>12. CASE UNCHANGED jobVars
    BY <1>2, <1>12 DEF jobVars, readerVars, vars
<1> QED
    BY <1>3, <1>4, <1>5, <1>6, <1>7, <1>8, <1>9, <1>10, <1>11, <1>12 DEF JobNext, Running

LEMMA JobInvariance == JobSpec => []JobInv /\ []SourceInv /\ Init /\ [][Next]_vars
<1>1. JobInit => Init /\ JobInv
    BY JobStarts, JobAssumption
<1>2. Init => SourceInv
    BY SourceStarts, ChainAssumption
<1>3. JobInv /\ SourceInv /\ [JobNext]_jobVars => JobInv' /\ [Next]_vars
    BY JobKeeps, JobAssumption
<1>4. SourceInv /\ [Next]_vars => SourceInv'
    BY SourceKeeps, ChainAssumption
<1> QED
    BY <1>1, <1>2, <1>3, <1>4, PTL DEF JobSpec

\* The readers of a job are a source of the frames FramesOf finds in the file:
\* the safety part of ImplementsFilteredSource, for a file that holds anything.
THEOREM JobIsAFilteredSource == JobSpec => Init /\ [][Next]_vars
BY JobInvariance, PTL

\* So the frames a job hands to its codec are those its filters make of the
\* frames of the file, whether the file is raw or y4m, converted or not.
THEOREM JobDeliversFiltered == JobSpec => []DeliversFiltered
<1>1. SourceInv => DeliversFiltered
    BY SourceDelivers, ChainAssumption
<1> QED
    BY <1>1, JobInvariance, PTL

\* The job reads no frame of the file before the codec needs it.
THEOREM JobPullsOnDemand == JobSpec => []PullsOnDemand
<1>1. SourceInv => PullsOnDemand
    BY SourcePullsOnDemand, ChainAssumption
<1> QED
    BY <1>1, JobInvariance, PTL

LEMMA CountingAgrees ==
    ASSUME JobAssumption, JobInv, SourceInv PROVE CountAgreesWithReading
<1>1. /\ pulled \in 0..Len(input)
      /\ ended => pulled = Len(input)
      /\ job.file = job.counted => cause # "content"
    BY DEF JobInv, SourceInv, SourceTypes, EndInOrder
<1>2. job.file = job.counted => Len(input) = frames
    BY <1>1, InputFacts
<1> QED
    BY <1>1, <1>2 DEF CountAgreesWithReading

\* A file that did not change after its frames were counted is read to the last
\* of them, whatever it holds: the loop that counts y4m frames and the division
\* that counts raw ones find what the readers find.
THEOREM CountingAgreesWithReading == JobSpec => []CountAgreesWithReading
<1>1. JobInv /\ SourceInv => CountAgreesWithReading
    BY CountingAgrees, JobAssumption
<1> QED
    BY <1>1, JobInvariance, PTL

-----------------------------------------------------------------------------
(* Frames one after another, as bytes                                       *)

LEMMA BytesConcatenate ==
    ASSUME NEW a \in Bytes, NEW b \in Bytes
    PROVE  a \o b \in Bytes /\ a \o <<>> = a /\ <<>> \o a = a /\ <<>> \in Bytes
BY ConcatProperties, ConcatEmptySeq, EmptySeq DEF Bytes

LEMMA BytesAssociate ==
    ASSUME NEW a \in Bytes, NEW b \in Bytes, NEW c \in Bytes
    PROVE  (a \o b) \o c = a \o (b \o c)
BY ConcatAssociative DEF Bytes

\* parts[k] is what the first k members of s give.
Flattening(s, parts) ==
    /\ parts \in [0..Len(s) -> Bytes]
    /\ parts[0] = <<>>
    /\ \A k \in 1..Len(s) : parts[k] = parts[k - 1] \o s[k]

LEMMA FlattenIsStepped ==
    ASSUME NEW s \in Seq(Bytes)
    PROVE  \E parts : Flattening(s, parts) /\ FlattenSeq(s) = parts[Len(s)]
<1> DEFINE n == Len(s)
           next == [k \in 1..n |-> [a \in Bytes |-> a \o s[k]]]
<1>1. n \in Nat /\ (\A k \in 1..n : s[k] \in Bytes) /\ <<>> \in Bytes
    BY LenProperties, ElementOfSeq, EmptySeq DEF Bytes
<1>2. next \in NextFunctions(n, Bytes)
    <2>1. ASSUME NEW k \in 1..n PROVE [a \in Bytes |-> a \o s[k]] \in [Bytes -> Bytes]
        <3>1. s[k] \in Bytes
            BY <1>1
        <3>2. \A a \in Bytes : a \o s[k] \in Bytes
            BY <3>1, BytesConcatenate
        <3> QED
            BY <3>2
    <2> QED
        BY <2>1 DEF NextFunctions
<1> HIDE DEF n
<1>3. PICK f : Iteration(n, Bytes, <<>>, next, f)
    <2> HIDE DEF next
    <2> QED
        BY <1>1, <1>2, Iterates
<1>4. /\ f \in [0..n -> Bytes] /\ f[0] = <<>>
      /\ \A k \in 1..n : f[k] = f[k - 1] \o s[k]
    <2>1. /\ f \in [0..n -> Bytes] /\ f[0] = <<>>
          /\ \A k \in 1..n : f[k] = next[k][f[k - 1]]
        <3> HIDE DEF next
        <3> QED
            BY <1>3 DEF Iteration
    <2>2. \A k \in 1..n : f[k - 1] \in Bytes
        BY <1>1, <2>1
    <2> QED
        BY <2>1, <2>2
<1>5. Flattening(s, f)
    BY <1>4 DEF Flattening, n
<1>6. CASE n = 0
    <2>1. s = <<>> /\ FlattenSeq(s) = s
        BY <1>6, EmptySeq DEF FlattenSeq, n
    <2> QED
        BY <1>4, <1>5, <1>6, <2>1 DEF n
<1>7. CASE n # 0
    <2> DEFINE Steps(g) == g = [i \in 1..n |-> IF i = 1 THEN s[i] ELSE g[i - 1] \o s[i]]
               flatten == CHOOSE g : Steps(g)
    <2>1. FlattenSeq(s) = flatten[n]
        BY <1>7 DEF FlattenSeq, n
    <2>2. Steps([i \in 1..n |-> f[i]])
        <3> DEFINE g == [i \in 1..n |-> f[i]]
        <3>1. ASSUME NEW i \in 1..n PROVE g[i] = IF i = 1 THEN s[i] ELSE g[i - 1] \o s[i]
            <4>1. CASE i = 1
                <5>1. f[1] = f[0] \o s[1] /\ s[1] \in Bytes
                    BY <1>1, <1>4, <4>1
                <5> QED
                    BY <1>4, <4>1, <5>1, BytesConcatenate
            <4>2. CASE i # 1
                <5>1. i - 1 \in 1..n
                    BY <1>1, <4>2
                <5> QED
                    BY <1>4, <4>2, <5>1
            <4> QED
                BY <4>1, <4>2
        <3>2. g = [i \in 1..n |-> g[i]]
            OBVIOUS
        <3> HIDE DEF g
        <3>3. g = [i \in 1..n |-> IF i = 1 THEN s[i] ELSE g[i - 1] \o s[i]]
            BY <3>1, <3>2
        <3> QED
            BY <3>3 DEF g
    <2>3. Steps(flatten)
        <3> HIDE DEF Steps
        <3> QED
            BY <2>2
    <2> HIDE DEF flatten
    <2>4. \A i \in 1..n : flatten[i] = IF i = 1 THEN s[i] ELSE flatten[i - 1] \o s[i]
        BY <2>3
    <2> DEFINE T == {k \in 0..n : k > 0 => flatten[k] = f[k]}
    <2>5. 0 \in T
        BY <1>1
    <2>6. ASSUME NEW k \in 1..n, k - 1 \in T PROVE k \in T
        <3>1. CASE k = 1
            <4>1. 1 \in 1..n /\ 1 - 1 = 0
                BY <3>1
            <4>2. s[1] \in Bytes /\ flatten[1] = s[1]
                BY <1>1, <2>4, <4>1
            <4>3. f[1] = <<>> \o s[1]
                BY <1>4, <4>1
            <4>4. flatten[1] = f[1]
                BY <4>2, <4>3, BytesConcatenate
            <4>5. flatten[k] = f[k]
                BY <3>1, <4>4
            <4>6. k \in 0..n
                BY <1>1
            <4> QED
                BY <4>5, <4>6
        <3>2. CASE k # 1
            <4>1. flatten[k - 1] = f[k - 1]
                BY <2>6, <3>2
            <4>2. flatten[k] = flatten[k - 1] \o s[k] /\ f[k] = f[k - 1] \o s[k]
                BY <1>4, <2>4, <3>2
            <4>3. flatten[k] = f[k] /\ k \in 0..n
                BY <1>1, <4>1, <4>2
            <4> QED
                BY <4>3
        <3> QED
            BY <3>1, <3>2
    <2> HIDE DEF T
    <2>7. \A k \in 0..n : k \in T
        BY <1>1, <2>5, <2>6, IndexInduction
    <2>8. flatten[n] = f[n]
        BY <1>1, <1>7, <2>7 DEF T
    <2> QED
        BY <1>5, <2>1, <2>8 DEF n
<1> QED
    BY <1>6, <1>7

LEMMA FlattenNothing == FlattenSeq(<<>>) = <<>>
BY EmptySeq DEF FlattenSeq

\* One member more comes behind the others.
LEMMA FlattenAppend ==
    ASSUME NEW d \in Seq(Bytes), NEW x \in Bytes
    PROVE  FlattenSeq(d) \in Bytes /\ FlattenSeq(Append(d, x)) = FlattenSeq(d) \o x
<1>1. /\ Len(d) \in Nat /\ Append(d, x) \in Seq(Bytes) /\ Len(Append(d, x)) = Len(d) + 1
      /\ \A k \in 1..Len(d) : Append(d, x)[k] = d[k]
      /\ Append(d, x)[Len(d) + 1] = x
    BY LenProperties, AppendProperties
<1> PICK n \in Nat : n = Len(d)
    BY <1>1
<1> PICK e \in Seq(Bytes) : e = Append(d, x)
    BY <1>1
<1>2. PICK f : Flattening(d, f) /\ FlattenSeq(d) = f[n]
    BY FlattenIsStepped
<1>3. PICK g : Flattening(e, g) /\ FlattenSeq(e) = g[n + 1]
    BY <1>1, FlattenIsStepped
<1>4. /\ f \in [0..n -> Bytes] /\ f[0] = <<>>
      /\ \A k \in 1..n : f[k] = f[k - 1] \o d[k]
    BY <1>2 DEF Flattening
<1>5. /\ g \in [0..(n + 1) -> Bytes] /\ g[0] = <<>>
      /\ \A k \in 1..(n + 1) : g[k] = g[k - 1] \o e[k]
    BY <1>1, <1>3 DEF Flattening
<1> DEFINE T == {k \in 0..n : g[k] = f[k]}
<1>6. 0 \in T
    BY <1>4, <1>5
<1>7. ASSUME NEW k \in 1..n, k - 1 \in T PROVE k \in T
    <2>1. k \in 1..(n + 1) /\ e[k] = d[k]
        BY <1>1
    <2> QED
        BY <1>4, <1>5, <1>7, <2>1
<1> HIDE DEF T
<1>8. \A k \in 0..n : k \in T
    BY <1>6, <1>7, IndexInduction
<1>9. g[n] = f[n]
    BY <1>8 DEF T
<1>10. g[n + 1] = g[n] \o x
    <2>1. n + 1 \in 1..(n + 1) /\ (n + 1) - 1 = n
        OBVIOUS
    <2> QED
        BY <1>1, <1>5, <2>1
<1> QED
    BY <1>2, <1>3, <1>4, <1>9, <1>10

-----------------------------------------------------------------------------
(* The adapter                                                              *)

\* A frame is loaded when none is left, and what a read has copied is its own.
AdapterInv ==
    /\ got \in Bytes /\ copied \in Bytes /\ rest \in Bytes /\ asked \in Nat
    /\ pc = "filling" => rest = <<>>
    /\ asked = 0 /\ pc # "failed" => copied = <<>>
    /\ BytesAreTheFrames

LEMMA FramesAreBytes ==
    ASSUME JobAssumption PROVE Outputs \subseteq Bytes /\ Streams \subseteq Seq(Bytes)
<1>1. Outputs \subseteq Bytes
    BY DEF JobAssumption, Outputs, Bytes
<1>2. ASSUME NEW s \in Streams PROVE s \in Seq(Bytes)
    BY <1>1, SeqMonotonic DEF Streams
<1> QED
    BY <1>1, <1>2

LEMMA AdapterKeeps ==
    ASSUME JobAssumption, AdapterInv, SourceInv, [JobNext]_jobVars
    PROVE  AdapterInv'
<1>1. /\ got \in Bytes /\ copied \in Bytes /\ rest \in Bytes /\ asked \in Nat
      /\ pc = "filling" => rest = <<>>
      /\ asked = 0 /\ pc # "failed" => copied = <<>>
      /\ got \o copied \o rest = FlattenSeq(delivered)
      /\ pending \in Streams /\ delivered \in Streams
      /\ pc \in {"idle", "filling", "failed"}
    BY DEF AdapterInv, BytesAreTheFrames, SourceInv, SourceTypes
<1>2. ASSUME UNCHANGED <<rest, asked, copied, got, delivered>>,
             pc' = pc \/ (pc # "failed" /\ rest = <<>>)
      PROVE  AdapterInv'
    BY <1>1, <1>2 DEF AdapterInv, BytesAreTheFrames
<1>3. ASSUME NEW n \in 1..FrameLen, ReadBytes(n) PROVE AdapterInv'
    BY <1>2, <1>3 DEF ReadBytes, PullFrame, adapterVars, vars
<1>4. CASE ReadWholeFrame
    BY <1>2, <1>4 DEF ReadWholeFrame, PullFrame, adapterVars
<1>5. CASE FileEnds
    BY <1>2, <1>5 DEF FileEnds, SourceEnds, adapterVars
<1>6. ASSUME NEW why, SourceFails(why) PROVE AdapterInv'
    BY <1>1, <1>6 DEF SourceFails, FillFails, ReadIsLost, AdapterInv, BytesAreTheFrames
<1>7. CASE AdapterCopy
    <2> DEFINE count == IF Len(rest) <= asked - Len(copied) THEN Len(rest) ELSE asked - Len(copied)
               now == SubSeq(rest, 1, count)
               later == SubSeq(rest, count + 1, Len(rest))
    <2>1. Len(rest) \in Nat /\ Len(copied) \in Nat
        BY <1>1, LenProperties DEF Bytes
    <2>2. count = Min({Len(rest), asked - Len(copied)})
        <3>1. asked - Len(copied) \in Int
            BY <1>1, <2>1
        <3> QED
            BY <2>1, <3>1, SmallerOf
    <2>3. /\ asked > Len(copied) /\ rest # <<>>
          /\ copied' = copied \o now
          /\ rest' = later
          /\ UNCHANGED <<asked, got, pc, delivered>>
        BY <1>7, <2>2 DEF AdapterCopy, vars
    <2>4. count \in 0..Len(rest) /\ asked # 0
        BY <1>1, <2>1, <2>3
    <2> HIDE DEF count
    <2>5. now \o later = rest
        <3>1. 1 \in 1..(Len(rest) + 1) /\ count \in (1 - 1)..Len(rest) /\ Len(rest) \in count..Len(rest)
            BY <2>1, <2>4
        <3>2. now \o later = SubSeq(rest, 1, Len(rest))
            BY <1>1, <3>1, ConcatAdjacentSubSeq DEF Bytes
        <3> QED
            BY <1>1, <3>2, SubSeqFull DEF Bytes
    <2>6. now \in Bytes /\ later \in Bytes
        <3>1. \A i \in 1..Len(rest) : rest[i] \in Int
            BY <1>1, ElementOfSeq DEF Bytes
        <3>2. (\A i \in 1..count : rest[i] \in Int) /\ (\A i \in (count + 1)..Len(rest) : rest[i] \in Int)
            BY <2>1, <2>4, <3>1
        <3>3. count \in Int /\ count + 1 \in Int /\ Len(rest) \in Int
            BY <2>1, <2>4
        <3> QED
            BY <3>2, <3>3, SubSeqProperties DEF Bytes
    <2> HIDE DEF now, later
    <2>7. (got \o (copied \o now)) \o later = (got \o copied) \o rest
        <3>1. copied \o now \in Bytes
            BY <1>1, <2>6, BytesConcatenate
        <3>2. (got \o (copied \o now)) \o later = got \o ((copied \o now) \o later)
            BY <1>1, <2>6, <3>1, BytesAssociate
        <3>3. (copied \o now) \o later = copied \o (now \o later)
            BY <1>1, <2>6, BytesAssociate
        <3>4. got \o (copied \o rest) = (got \o copied) \o rest
            BY <1>1, BytesAssociate
        <3> QED
            BY <2>5, <3>2, <3>3, <3>4
    <2>8. copied' \in Bytes /\ rest' \in Bytes
        BY <1>1, <2>3, <2>6, BytesConcatenate
    <2>9. BytesAreTheFrames'
        BY <1>1, <2>3, <2>7 DEF BytesAreTheFrames
    <2> QED
        BY <1>1, <2>3, <2>4, <2>8, <2>9 DEF AdapterInv
<1>8. CASE AdapterLoad
    BY <1>2, <1>8 DEF AdapterLoad, ReadFrame, adapterVars
<1>9. ASSUME AdapterReturn, rest' = rest, delivered' = delivered, pc' # "filling" \/ pc' = pc
      PROVE  AdapterInv'
    <2>1. /\ got' = got \o copied /\ copied' = <<>> /\ asked' = 0
          /\ got' \in Bytes /\ copied' \in Bytes
        BY <1>1, <1>9, BytesConcatenate DEF AdapterReturn
    <2>2. BytesAreTheFrames'
        <3>1. got' \o copied' = got \o copied
            BY <2>1, BytesConcatenate
        <3> QED
            BY <1>1, <1>9, <3>1 DEF BytesAreTheFrames
    <2> QED
        BY <1>1, <1>9, <2>1, <2>2 DEF AdapterInv
<1>10. CASE ReadReturnsBytes
    BY <1>9, <1>10 DEF ReadReturnsBytes, vars
<1>11. CASE SourceStep
    <2>1. CASE FlushFilter /\ UNCHANGED <<readerVars, adapterVars, reconVars>>
        BY <1>2, <2>1 DEF FlushFilter, adapterVars
    <2>2. CASE Deliver /\ rest' = Head(pending) /\ UNCHANGED <<asked, copied, got>>
        <3>1. /\ pc = "filling" /\ pending # <<>> /\ pc' = "idle"
              /\ delivered' = Append(delivered, Head(pending))
            BY <2>2 DEF Deliver
        <3>2. Head(pending) \in Bytes /\ delivered \in Seq(Bytes)
            BY <1>1, <3>1, HeadThenTail, FramesAreBytes
        <3>3. PICK sofar \in Bytes : sofar = got \o copied
            BY <1>1, BytesConcatenate
        <3>4. FlattenSeq(delivered') = FlattenSeq(delivered) \o Head(pending) /\ FlattenSeq(delivered) = sofar
            BY <1>1, <3>1, <3>2, <3>3, FlattenAppend, BytesConcatenate
        <3>5. BytesAreTheFrames'
            BY <2>2, <3>3, <3>4 DEF BytesAreTheFrames
        <3> QED
            BY <1>1, <2>2, <3>1, <3>2, <3>5 DEF AdapterInv
    <2>3. CASE ReturnEnd /\ AdapterReturn /\ UNCHANGED rest
        BY <1>9, <2>3 DEF ReturnEnd
    <2> QED
        BY <1>11, <2>1, <2>2, <2>3 DEF SourceStep
<1>12. ASSUME NEW n \in ReadSizes, AdapterRead(n) PROVE AdapterInv'
    <2>1. n \in Nat
        BY DEF JobAssumption
    <2>2. /\ pc = "idle" /\ asked = 0 /\ asked' = n /\ copied' = <<>>
          /\ UNCHANGED <<rest, got, pc, delivered>>
        BY <1>12 DEF AdapterRead, vars
    <2>3. copied = <<>>
        BY <1>1, <2>2
    <2> QED
        BY <1>1, <2>1, <2>2, <2>3 DEF AdapterInv, BytesAreTheFrames
<1>13. ASSUME NEW n \in ReadSizes, WriteRecon(n) PROVE AdapterInv'
    BY <1>2, <1>13 DEF WriteRecon, adapterVars, vars
<1>14. CASE UNCHANGED jobVars
    BY <1>2, <1>14 DEF jobVars, adapterVars, vars
<1> QED
    BY <1>3, <1>4, <1>5, <1>6, <1>7, <1>8, <1>10, <1>11, <1>12, <1>13, <1>14 DEF JobNext, Running

LEMMA AdapterInvariance == JobSpec => []AdapterInv
<1>1. JobInit => AdapterInv
    <2>1. <<>> \in Bytes /\ <<>> \o <<>> \o <<>> = <<>>
        <3>1. <<>> \in Bytes
            BY EmptySeq DEF Bytes
        <3> QED
            BY <3>1, BytesConcatenate
    <2> QED
        BY <2>1, FlattenNothing DEF JobInit, AdapterInv, BytesAreTheFrames
<1>2. AdapterInv /\ SourceInv /\ [JobNext]_jobVars => AdapterInv'
    BY AdapterKeeps, JobAssumption
<1> QED
    BY <1>1, <1>2, JobInvariance, PTL DEF JobSpec

\* The codec is handed the bytes of the frames, whatever the sizes of its reads
\* and wherever a read fails.
THEOREM ReadsAreTheFrames == JobSpec => []BytesAreTheFrames
<1>1. AdapterInv => BytesAreTheFrames
    BY DEF AdapterInv
<1> QED
    BY <1>1, AdapterInvariance, PTL

-----------------------------------------------------------------------------
(* The reconstruction                                                       *)

LEMMA FromCodecIsBytes == ASSUME NEW frame \in Bytes PROVE FromCodec(frame) \in Bytes
<1>1. Len(frame) \in Nat /\ \A i \in 1..Len(frame) : frame[i] \in Int
    BY LenProperties, ElementOfSeq DEF Bytes
<1>2. ASSUME NEW i \in 1..(2 * Len(frame))
      PROVE  frame[(i + 1) \div 2] + 100 * (i % 2) \in Int
    <2>1. (i + 1) \div 2 \in 1..Len(frame) /\ i % 2 \in Int
        BY <1>1
    <2>2. frame[(i + 1) \div 2] \in Int
        BY <1>1, <2>1
    <2> QED
        BY <2>1, <2>2
<1>3. 2 * Len(frame) \in Nat
    BY <1>1
<1> QED
    BY <1>2, <1>3 DEF FromCodec, Bytes

\* The first q frames of a stream of samples, converted.
Converted(stream, q) ==
    [k \in 1..q |-> FromCodec(SubSeq(stream, (k - 1) * FrameLen + 1, k * FrameLen))]

\* What the writer has of the first m samples: q frames in the file, and the
\* part of the next one.
WriterHas(stream, m, w) ==
    /\ w \in WriterState
    /\ \E q \in Nat :
          /\ q * FrameLen <= m /\ m < q * FrameLen + FrameLen
          /\ w.frame = SubSeq(stream, q * FrameLen + 1, m)
          /\ w.file = FlattenSeq(Converted(stream, q))

LEMMA TakeSampleIsTyped ==
    ASSUME NEW byte \in Int, NEW w \in WriterState
    PROVE  LET frame == Append(w.frame, byte)
               taken == TakeSample(byte)[w]
           IN  /\ TakeSample(byte) \in [WriterState -> WriterState]
               /\ frame \in Bytes
               /\ Len(frame) = FrameLen => taken.frame = <<>> /\ taken.file = w.file \o FromCodec(frame)
               /\ Len(frame) # FrameLen => taken.frame = frame /\ taken.file = w.file
<1> DEFINE result(s) == LET frame == Append(s.frame, byte)
                        IN  IF Len(frame) = FrameLen
                            THEN [frame |-> <<>>, file |-> s.file \o FromCodec(frame)]
                            ELSE [s EXCEPT !.frame = frame]
<1>1. ASSUME NEW s \in WriterState
      PROVE  /\ Append(s.frame, byte) \in Bytes
             /\ [frame |-> <<>>, file |-> s.file \o FromCodec(Append(s.frame, byte))] \in WriterState
             /\ [s EXCEPT !.frame = Append(s.frame, byte)] \in WriterState
             /\ [s EXCEPT !.frame = Append(s.frame, byte)].frame = Append(s.frame, byte)
             /\ [s EXCEPT !.frame = Append(s.frame, byte)].file = s.file
    <2>1. s.frame \in Seq(Int) /\ s.file \in Bytes
        BY DEF WriterState, Bytes
    <2>2. PICK frame \in Bytes : frame = Append(s.frame, byte)
        BY <2>1, AppendProperties DEF Bytes
    <2>3. FromCodec(frame) \in Bytes
        BY FromCodecIsBytes
    <2>4. s.file \o FromCodec(frame) \in Bytes /\ <<>> \in Bytes
        BY <2>1, <2>3, BytesConcatenate
    <2> QED
        BY <2>1, <2>2, <2>4 DEF WriterState, Bytes
<1>2. \A s \in WriterState : result(s) \in WriterState
    BY <1>1
<1>3. TakeSample(byte) = [s \in WriterState |-> result(s)]
    BY DEF TakeSample
<1>4. TakeSample(byte) \in [WriterState -> WriterState] /\ TakeSample(byte)[w] = result(w)
    <2> HIDE DEF result
    <2> QED
        BY <1>2, <1>3
<1>5. CASE Len(Append(w.frame, byte)) = FrameLen
    <2>1. TakeSample(byte)[w] = [frame |-> <<>>, file |-> w.file \o FromCodec(Append(w.frame, byte))]
        BY <1>4, <1>5
    <2>2. PICK frame \in Bytes : frame = Append(w.frame, byte)
        BY <1>1
    <2>3. TakeSample(byte)[w].frame = <<>> /\ TakeSample(byte)[w].file = w.file \o FromCodec(frame)
        <3>1. PICK all : all = w.file \o FromCodec(frame) /\ TakeSample(byte)[w] = [frame |-> <<>>, file |-> all]
            BY <2>1, <2>2, Zenon
        <3> QED
            BY <3>1
    <2>4. TakeSample(byte) \in [WriterState -> WriterState]
        BY <1>4
    <2> QED
        BY <1>5, <2>2, <2>3, <2>4
<1>6. CASE Len(Append(w.frame, byte)) # FrameLen
    <2>1. TakeSample(byte)[w] = [w EXCEPT !.frame = Append(w.frame, byte)]
        BY <1>4, <1>6
    <2>2. PICK frame \in Bytes :
              /\ frame = Append(w.frame, byte)
              /\ [w EXCEPT !.frame = frame].frame = frame
              /\ [w EXCEPT !.frame = frame].file = w.file
        BY <1>1
    <2>3. TakeSample(byte)[w].frame = frame /\ TakeSample(byte)[w].file = w.file
        BY <2>1, <2>2
    <2>4. TakeSample(byte) \in [WriterState -> WriterState]
        BY <1>4
    <2> QED
        BY <1>6, <2>2, <2>3, <2>4
<1> HIDE DEF result
<1> QED
    BY <1>5, <1>6

\* FrameFormatConvertingWriter::write takes the samples one after another.
LEMMA WrittenIsStepped ==
    ASSUME NEW w \in WriterState, NEW bytes \in Bytes
    PROVE  \E after \in [0..Len(bytes) -> WriterState] :
              /\ after[0] = w
              /\ \A k \in 1..Len(bytes) : after[k] = TakeSample(bytes[k])[after[k - 1]]
              /\ Written(w, bytes) = after[Len(bytes)]
<1> DEFINE n == Len(bytes)
           next == [k \in 1..n |-> TakeSample(bytes[k])]
           Steps(f) == f = [k \in 0..n |-> IF k = 0 THEN w ELSE TakeSample(bytes[k])[f[k - 1]]]
<1>1. n \in Nat /\ \A k \in 1..n : bytes[k] \in Int
    BY LenProperties, ElementOfSeq DEF Bytes
<1>2. \A k \in 1..n : TakeSample(bytes[k]) \in [WriterState -> WriterState]
    BY <1>1, TakeSampleIsTyped
<1>3. next \in NextFunctions(n, WriterState)
    BY <1>2 DEF NextFunctions
<1> HIDE DEF n
<1>4. PICK f : Iteration(n, WriterState, w, next, f)
    <2> HIDE DEF next
    <2> QED
        BY <1>1, <1>3, Iterates
<1>5. Steps(f)
    <2>1. /\ f \in [0..n -> WriterState] /\ f[0] = w
          /\ \A k \in 1..n : f[k] = TakeSample(bytes[k])[f[k - 1]]
        BY <1>4 DEF Iteration
    <2>2. \A k \in 0..n : f[k] = IF k = 0 THEN w ELSE TakeSample(bytes[k])[f[k - 1]]
        BY <1>1, <2>1
    <2> QED
        BY <2>1, <2>2
<1> DEFINE after == CHOOSE g : Steps(g)
<1>6. Steps(after)
    <2> HIDE DEF Steps
    <2> QED
        BY <1>5
<1>7. Written(w, bytes) = after[n]
    BY DEF Written, n
<1> HIDE DEF after
<1>8. after = [k \in 0..n |-> IF k = 0 THEN w ELSE TakeSample(bytes[k])[after[k - 1]]]
    BY <1>6
<1>9. after[0] = w /\ \A k \in 1..n : after[k] = TakeSample(bytes[k])[after[k - 1]]
    BY <1>1, <1>8
<1>10. \A k \in 0..n : after[k] \in WriterState
    <2> DEFINE T == {k \in 0..n : after[k] \in WriterState}
    <2>1. 0 \in T
        BY <1>1, <1>9
    <2>2. ASSUME NEW k \in 1..n, k - 1 \in T PROVE k \in T
        BY <1>1, <1>2, <1>9, <2>2
    <2> HIDE DEF T
    <2>3. \A k \in 0..n : k \in T
        BY <1>1, <2>1, <2>2, IndexInduction
    <2> QED
        BY <2>3 DEF T
<1>11. after \in [0..n -> WriterState]
    BY <1>8, <1>10
<1> QED
    BY <1>7, <1>9, <1>11 DEF n

LEMMA ConvertedIsBytes ==
    ASSUME NEW stream \in Bytes, NEW q \in Nat, FrameLen \in Nat \ {0}, q * FrameLen <= Len(stream)
    PROVE  Converted(stream, q) \in Seq(Bytes) /\ Len(Converted(stream, q)) = q
<1>1. ASSUME NEW k \in 1..q
      PROVE  FromCodec(SubSeq(stream, (k - 1) * FrameLen + 1, k * FrameLen)) \in Bytes
    <2>1. PICK m \in Nat, n \in Nat : m = (k - 1) * FrameLen /\ n = k * FrameLen /\ n <= Len(stream)
        <3>1. k \in Nat /\ k - 1 \in Nat /\ k <= q
            OBVIOUS
        <3>2. /\ k * FrameLen \in Nat /\ k * FrameLen <= q * FrameLen /\ (k - 1) * FrameLen \in Nat
              /\ q * FrameLen \in Nat
            BY <3>1, Multiples
        <3>3. Len(stream) \in Nat
            BY LenProperties DEF Bytes
        <3> QED
            BY <3>2, <3>3
    <2>2. \A i \in (m + 1)..n : stream[i] \in Int
        <3>1. Len(stream) \in Nat /\ \A i \in 1..Len(stream) : stream[i] \in Int
            BY LenProperties, ElementOfSeq DEF Bytes
        <3>2. n <= Len(stream)
            BY <2>1
        <3> QED
            BY <3>1, <3>2
    <2>3. SubSeq(stream, m + 1, n) \in Bytes
        <3>1. m + 1 \in Int /\ n \in Int
            OBVIOUS
        <3> QED
            BY <2>2, <3>1, SubSeqProperties DEF Bytes
    <2> QED
        BY <2>1, <2>3, FromCodecIsBytes
<1> DEFINE part(k) == FromCodec(SubSeq(stream, (k - 1) * FrameLen + 1, k * FrameLen))
<1>2. Converted(stream, q) = [k \in 1..q |-> part(k)]
    BY DEF Converted
<1>3. \A k \in 1..q : part(k) \in Bytes
    BY <1>1
<1> HIDE DEF part
<1> QED
    BY <1>2, <1>3

LEMMA OneFrameConverted ==
    ASSUME NEW stream \in Bytes, NEW q \in Nat, FrameLen \in Nat \ {0}, q * FrameLen + FrameLen <= Len(stream)
    PROVE  /\ FlattenSeq(Converted(stream, q)) \in Bytes
           /\ FlattenSeq(Converted(stream, q + 1)) =
                FlattenSeq(Converted(stream, q))
                    \o FromCodec(SubSeq(stream, q * FrameLen + 1, q * FrameLen + FrameLen))
<1>1. /\ q * FrameLen \in Nat /\ (q + 1) * FrameLen = q * FrameLen + FrameLen
      /\ Len(stream) \in Nat
    BY Multiples, LenProperties DEF Bytes
<1>2. q * FrameLen <= Len(stream) /\ (q + 1) * FrameLen <= Len(stream)
    BY <1>1
<1> DEFINE part(k) == FromCodec(SubSeq(stream, (k - 1) * FrameLen + 1, k * FrameLen))
<1>3. /\ Converted(stream, q) = [k \in 1..q |-> part(k)]
      /\ Converted(stream, q + 1) = [k \in 1..(q + 1) |-> part(k)]
      /\ Converted(stream, q) \in Seq(Bytes) /\ Len(Converted(stream, q)) = q
      /\ Converted(stream, q + 1) \in Seq(Bytes) /\ Len(Converted(stream, q + 1)) = q + 1
    <2>1. q + 1 \in Nat
        OBVIOUS
    <2>2. /\ Converted(stream, q) \in Seq(Bytes) /\ Len(Converted(stream, q)) = q
          /\ Converted(stream, q + 1) \in Seq(Bytes) /\ Len(Converted(stream, q + 1)) = q + 1
        BY <1>2, <2>1, ConvertedIsBytes
    <2>3. /\ Converted(stream, q) = [k \in 1..q |-> part(k)]
          /\ Converted(stream, q + 1) = [k \in 1..(q + 1) |-> part(k)]
        BY DEF Converted
    <2> QED
        BY <2>2, <2>3
<1>4. part(q + 1) = FromCodec(SubSeq(stream, q * FrameLen + 1, q * FrameLen + FrameLen))
    <2>1. (q + 1) - 1 = q
        OBVIOUS
    <2> QED
        BY <1>1, <2>1
<1> HIDE DEF part
<1>5. \A k \in 1..(q + 1) : part(k) \in Bytes
    <2>1. \A k \in 1..(q + 1) : Converted(stream, q + 1)[k] \in Bytes
        BY <1>3, ElementOfSeq
    <2> QED
        BY <1>3, <2>1
<1>6. Converted(stream, q + 1) = Append(Converted(stream, q), part(q + 1))
    <2>1. part(q + 1) \in Bytes
        BY <1>5
    <2> PICK d \in Seq(Bytes) : d = Converted(stream, q)
        BY <1>3
    <2> PICK e \in Seq(Bytes) : e = Converted(stream, q + 1)
        BY <1>3
    <2>2. /\ Append(d, part(q + 1)) \in Seq(Bytes)
          /\ Len(Append(d, part(q + 1))) = q + 1
          /\ \A k \in 1..q : Append(d, part(q + 1))[k] = d[k]
          /\ Append(d, part(q + 1))[q + 1] = part(q + 1)
        BY <1>3, <2>1, AppendProperties
    <2>3. \A k \in 1..(q + 1) : e[k] = part(k)
        BY <1>3
    <2>4. \A k \in 1..q : d[k] = part(k)
        BY <1>3
    <2>5. \A k \in 1..(q + 1) : e[k] = Append(d, part(q + 1))[k]
        BY <2>2, <2>3, <2>4
    <2>6. Len(e) = q + 1
        BY <1>3
    <2>7. e = Append(d, part(q + 1))
        BY <2>2, <2>5, <2>6, SeqEqual
    <2> QED
        BY <2>7
<1>7. part(q + 1) \in Bytes
    BY <1>5
<1> QED
    BY <1>3, <1>4, <1>6, <1>7, FlattenAppend

LEMMA OneSample ==
    ASSUME FrameLen \in Nat \ {0}, NEW stream \in Bytes, NEW m \in Nat, m < Len(stream),
           NEW w, WriterHas(stream, m, w)
    PROVE  WriterHas(stream, m + 1, TakeSample(stream[m + 1])[w])
<1>1. Len(stream) \in Nat /\ (\A i \in 1..Len(stream) : stream[i] \in Int) /\ m + 1 \in 1..Len(stream)
    BY LenProperties, ElementOfSeq DEF Bytes
<1>2. w \in WriterState /\ stream[m + 1] \in Int
    BY <1>1 DEF WriterHas
<1>3. PICK q \in Nat :
        /\ q * FrameLen <= m /\ m < q * FrameLen + FrameLen
        /\ w.frame = SubSeq(stream, q * FrameLen + 1, m)
        /\ w.file = FlattenSeq(Converted(stream, q))
    BY DEF WriterHas
<1>4. PICK base \in Nat : base = q * FrameLen
    BY Multiples
<1>5. base <= m /\ m < base + FrameLen
    BY <1>3, <1>4
<1> DEFINE frame == Append(w.frame, stream[m + 1])
           taken == TakeSample(stream[m + 1])[w]
<1>6. /\ taken \in WriterState
      /\ Len(frame) = FrameLen => taken.frame = <<>> /\ taken.file = w.file \o FromCodec(frame)
      /\ Len(frame) # FrameLen => taken.frame = frame /\ taken.file = w.file
    BY <1>2, TakeSampleIsTyped
<1> HIDE DEF taken
<1>7. frame = SubSeq(stream, base + 1, m + 1) /\ Len(frame) = (m + 1) - base
    <2>1. base + 1 \in 1..Len(stream) /\ m + 1 \in (base + 1)..Len(stream) /\ (m + 1) - 1 = m
        BY <1>1, <1>5
    <2>2. SubSeq(stream, base + 1, m + 1) = SubSeq(stream, base + 1, m) \o <<stream[m + 1]>>
        BY <2>1, SubSeqRecursiveSecond DEF Bytes
    <2>3. w.frame \in Seq(Int)
        BY <1>2 DEF WriterState
    <2>4. frame = w.frame \o <<stream[m + 1]>>
        BY <1>2, <2>3, AppendIsConcat
    <2>5. w.frame = SubSeq(stream, base + 1, m)
        BY <1>3, <1>4
    <2>6. (\A i \in (base + 1)..(m + 1) : stream[i] \in Int) /\ base + 1 \in Int /\ m + 1 \in Int
        BY <1>1
    <2>7. Len(SubSeq(stream, base + 1, m + 1)) =
            IF base + 1 <= m + 1 THEN (m + 1) - (base + 1) + 1 ELSE 0
        BY <2>6, SubSeqProperties
    <2>8. base + 1 <= m + 1 /\ (m + 1) - (base + 1) + 1 = (m + 1) - base
        BY <1>5
    <2> QED
        BY <2>2, <2>4, <2>5, <2>7, <2>8
<1> HIDE DEF frame
<1>8. CASE Len(frame) = FrameLen
    <2>1. m + 1 = base + FrameLen
        BY <1>5, <1>7, <1>8
    <2>2. (q + 1) * FrameLen = base + FrameLen
        BY <1>4, Multiples
    <2>3. q * FrameLen + FrameLen <= Len(stream)
        BY <1>1, <1>4, <2>1
    <2>4. FlattenSeq(Converted(stream, q + 1)) =
            FlattenSeq(Converted(stream, q)) \o FromCodec(SubSeq(stream, base + 1, base + FrameLen))
        BY <1>4, <2>3, OneFrameConverted
    <2>5. taken.file = FlattenSeq(Converted(stream, q + 1))
        BY <1>3, <1>6, <1>7, <1>8, <2>1, <2>4
    <2>6. SubSeq(stream, (m + 1) + 1, m + 1) = <<>>
        <3>1. (m + 1) + 1 \in Int /\ m + 1 \in Int /\ m + 1 < (m + 1) + 1
            OBVIOUS
        <3> QED
            BY <3>1, SubSeqEmpty
    <2>7. taken.frame = SubSeq(stream, (q + 1) * FrameLen + 1, m + 1)
        BY <1>6, <1>8, <2>1, <2>2, <2>6
    <2>8. (q + 1) * FrameLen <= m + 1 /\ m + 1 < (q + 1) * FrameLen + FrameLen
        BY <2>1, <2>2
    <2>9. q + 1 \in Nat
        OBVIOUS
    <2> QED
        BY <1>6, <2>5, <2>7, <2>8, <2>9 DEF WriterHas, taken
<1>9. CASE Len(frame) # FrameLen
    <2>1. base <= m + 1 /\ m + 1 < base + FrameLen
        BY <1>5, <1>7, <1>9
    <2>2. taken.frame = SubSeq(stream, q * FrameLen + 1, m + 1) /\ taken.file = FlattenSeq(Converted(stream, q))
        BY <1>3, <1>4, <1>6, <1>7, <1>9
    <2>3. q * FrameLen <= m + 1 /\ m + 1 < q * FrameLen + FrameLen
        BY <1>4, <2>1
    <2> QED
        BY <1>6, <2>2, <2>3 DEF WriterHas, taken
<1> QED
    BY <1>8, <1>9

\* A write of the next n samples.
LEMMA WriteGoesOn ==
    ASSUME FrameLen \in Nat \ {0}, NEW stream \in Bytes, NEW m \in Nat, NEW n \in Nat,
           m + n <= Len(stream), NEW w, WriterHas(stream, m, w)
    PROVE  WriterHas(stream, m + n, Written(w, SubSeq(stream, m + 1, m + n)))
<1> DEFINE piece == SubSeq(stream, m + 1, m + n)
<1>1. Len(stream) \in Nat /\ (\A i \in 1..Len(stream) : stream[i] \in Int)
    BY LenProperties, ElementOfSeq DEF Bytes
<1>2. /\ piece \in Bytes /\ Len(piece) = n
      /\ \A i \in 1..n : piece[i] = stream[m + i]
    <2>1. \A i \in (m + 1)..(m + n) : stream[i] \in Int
        BY <1>1
    <2>2. m + 1 \in Int /\ m + n \in Int /\ (m + n) - (m + 1) + 1 = n
        OBVIOUS
    <2>3. /\ piece \in Seq(Int)
          /\ Len(piece) = IF m + 1 <= m + n THEN n ELSE 0
          /\ \A i \in 1..n : piece[i] = stream[m + 1 + i - 1]
        BY <2>1, <2>2, SubSeqProperties
    <2>4. \A i \in 1..n : m + 1 + i - 1 = m + i
        OBVIOUS
    <2> HIDE DEF piece
    <2> QED
        BY <2>3, <2>4 DEF Bytes
<1> HIDE DEF piece
<1>3. w \in WriterState
    BY DEF WriterHas
<1>4. PICK after \in [0..n -> WriterState] :
          /\ after[0] = w
          /\ \A k \in 1..n : after[k] = TakeSample(piece[k])[after[k - 1]]
          /\ Written(w, piece) = after[n]
    BY <1>2, <1>3, WrittenIsStepped
<1> DEFINE T == {k \in 0..n : WriterHas(stream, m + k, after[k])}
<1>5. 0 \in T
    <2>1. m + 0 = m
        OBVIOUS
    <2> QED
        BY <1>4, <2>1
<1>6. ASSUME NEW k \in 1..n, k - 1 \in T PROVE k \in T
    <2>1. WriterHas(stream, m + (k - 1), after[k - 1])
        BY <1>6
    <2>2. m + (k - 1) \in Nat /\ m + (k - 1) < Len(stream) /\ (m + (k - 1)) + 1 = m + k
        BY <1>1
    <2>3. WriterHas(stream, m + k, TakeSample(stream[m + k])[after[k - 1]])
        BY <2>1, <2>2, OneSample
    <2>4. after[k] = TakeSample(stream[m + k])[after[k - 1]]
        BY <1>2, <1>4
    <2> QED
        BY <2>3, <2>4
<1> HIDE DEF T
<1>7. \A k \in 0..n : k \in T
    BY <1>5, <1>6, IndexInduction
<1>8. WriterHas(stream, m + n, after[n])
    BY <1>7 DEF T
<1> QED
    BY <1>4, <1>8 DEF piece

\* What comes behind the samples written does not matter.
LEMMA StreamGrows ==
    ASSUME FrameLen \in Nat \ {0}, NEW a \in Bytes, NEW b \in Bytes, NEW m \in 0..Len(a),
           NEW w, WriterHas(a, m, w)
    PROVE  WriterHas(a \o b, m, w)
<1>1. Len(a) \in Nat
    BY LenProperties DEF Bytes
<1>2. ASSUME NEW i \in Nat \ {0}, NEW j \in 0..Len(a)
      PROVE  SubSeq(a \o b, i, j) = SubSeq(a, i, j)
    <2>1. CASE j < i
        <3>1. i \in Int /\ j \in Int
            BY <1>1
        <3> QED
            BY <2>1, <3>1, SubSeqEmpty
    <2>2. CASE ~(j < i)
        <3>1. i \in 1..Len(a) /\ j \in 1..Len(a)
            BY <1>1, <2>2
        <3> QED
            BY <3>1, SubSeqOfConcat1 DEF Bytes
    <2> QED
        BY <2>1, <2>2
<1>3. PICK q \in Nat :
        /\ q * FrameLen <= m /\ m < q * FrameLen + FrameLen
        /\ w.frame = SubSeq(a, q * FrameLen + 1, m)
        /\ w.file = FlattenSeq(Converted(a, q))
    BY DEF WriterHas
<1>4. PICK base \in Nat : base = q * FrameLen
    BY Multiples
<1>5. SubSeq(a \o b, q * FrameLen + 1, m) = SubSeq(a, q * FrameLen + 1, m)
    <2>1. base + 1 \in Nat \ {0}
        OBVIOUS
    <2> QED
        BY <1>2, <1>4, <2>1
<1>6. Converted(a \o b, q) = Converted(a, q)
    <2>1. ASSUME NEW k \in 1..q
          PROVE  SubSeq(a \o b, (k - 1) * FrameLen + 1, k * FrameLen) =
                    SubSeq(a, (k - 1) * FrameLen + 1, k * FrameLen)
        <3>1. PICK s \in Nat, e \in Nat : s = (k - 1) * FrameLen /\ e = k * FrameLen /\ e <= base
            <4>1. k \in Nat /\ k - 1 \in Nat /\ k <= q
                OBVIOUS
            <4>2. k * FrameLen \in Nat /\ (k - 1) * FrameLen \in Nat /\ k * FrameLen <= q * FrameLen
                BY <4>1, Multiples
            <4> QED
                BY <1>4, <4>2
        <3>2. base <= m
            BY <1>3, <1>4
        <3>3. s + 1 \in Nat \ {0} /\ e \in 0..Len(a)
            BY <1>1, <3>1, <3>2
        <3> QED
            BY <1>2, <3>1, <3>3
    <2>2. \A k \in 1..q : FromCodec(SubSeq(a \o b, (k - 1) * FrameLen + 1, k * FrameLen)) =
                             FromCodec(SubSeq(a, (k - 1) * FrameLen + 1, k * FrameLen))
        BY <2>1
    <2> QED
        BY <2>2 DEF Converted
<1>7. w \in WriterState
    BY DEF WriterHas
<1> QED
    BY <1>3, <1>5, <1>6, <1>7 DEF WriterHas

Writer == [frame |-> reconFrame, file |-> reconFile]

ReconInv ==
    /\ got \in Bytes
    /\ reconBytes \in 0..Len(got)
    /\ job.convert \in BOOLEAN
    /\ ~job.convert => reconBytes = 0
    /\ WriterHas(got, reconBytes, Writer)

LEMMA ReconKeeps ==
    ASSUME JobAssumption, ReconInv, AdapterInv, [JobNext]_jobVars
    PROVE  ReconInv'
<1>1. /\ got \in Bytes /\ copied \in Bytes /\ Len(got) \in Nat
      /\ reconBytes \in 0..Len(got)
      /\ job.convert \in BOOLEAN
      /\ ~job.convert => reconBytes = 0
      /\ WriterHas(got, reconBytes, Writer)
      /\ FrameLen \in Nat \ {0}
    BY LenProperties DEF ReconInv, AdapterInv, Bytes, JobAssumption
<1>2. ASSUME UNCHANGED <<job, got, reconBytes, reconFrame, reconFile>> PROVE ReconInv'
    BY <1>1, <1>2 DEF ReconInv, Writer
<1>3. ASSUME AdapterReturn PROVE ReconInv'
    <2>1. got' = got \o copied /\ UNCHANGED <<job, reconBytes, reconFrame, reconFile>>
        BY <1>3 DEF AdapterReturn, readerVars, reconVars
    <2>2. got' \in Bytes /\ Len(got') = Len(got) + Len(copied) /\ Len(copied) \in Nat
        BY <1>1, <2>1, ConcatProperties, LenProperties DEF Bytes
    <2>3. WriterHas(got', reconBytes, Writer)
        BY <1>1, <2>1, StreamGrows
    <2>4. reconBytes' \in 0..Len(got')
        BY <1>1, <2>1, <2>2
    <2>5. WriterHas(got', reconBytes', Writer')
        BY <2>1, <2>3 DEF Writer
    <2> QED
        BY <1>1, <2>1, <2>2, <2>4, <2>5 DEF ReconInv
<1>4. ASSUME NEW n \in ReadSizes, WriteRecon(n) PROVE ReconInv'
    <2>1. n \in Nat
        BY DEF JobAssumption
    <2>2. PICK w : w = Written(Writer, SubSeq(got, reconBytes + 1, reconBytes + n))
        OBVIOUS
    <2>3. /\ job.convert /\ reconBytes + n <= Len(got)
          /\ reconBytes' = reconBytes + n
          /\ reconFrame' = w.frame /\ reconFile' = w.file
          /\ UNCHANGED <<job, got>>
        BY <1>4, <2>2 DEF WriteRecon, Writer, readerVars, adapterVars
    <2>4. WriterHas(got, reconBytes + n, w)
        <3>1. reconBytes \in Nat
            BY <1>1
        <3> QED
            BY <1>1, <2>1, <2>2, <2>3, <3>1, WriteGoesOn
    <2>5. Writer' = w
        <3>1. w \in WriterState
            BY <2>4 DEF WriterHas
        <3> QED
            BY <2>3, <3>1 DEF Writer, WriterState
    <2>6. WriterHas(got', reconBytes', Writer')
        BY <2>3, <2>4, <2>5
    <2>7. reconBytes' \in 0..Len(got')
        BY <1>1, <2>1, <2>3
    <2> QED
        BY <1>1, <2>3, <2>6, <2>7 DEF ReconInv
<1>5. ASSUME NEW n \in 1..FrameLen, ReadBytes(n) PROVE ReconInv'
    BY <1>2, <1>5 DEF ReadBytes, adapterVars, reconVars
<1>6. CASE ReadWholeFrame
    BY <1>2, <1>6 DEF ReadWholeFrame, adapterVars, reconVars
<1>7. CASE FileEnds
    BY <1>2, <1>7 DEF FileEnds, readerVars, adapterVars, reconVars
<1>8. ASSUME NEW why, SourceFails(why) PROVE ReconInv'
    BY <1>2, <1>8 DEF SourceFails, ReadIsLost, reconVars
<1>9. CASE AdapterCopy
    BY <1>2, <1>9 DEF AdapterCopy, readerVars, reconVars
<1>10. CASE AdapterLoad
    BY <1>2, <1>10 DEF AdapterLoad, readerVars, adapterVars, reconVars
<1>11. CASE ReadReturnsBytes
    BY <1>3, <1>11 DEF ReadReturnsBytes
<1>12. CASE SourceStep
    BY <1>2, <1>3, <1>12 DEF SourceStep, readerVars, adapterVars, reconVars
<1>13. ASSUME NEW n \in ReadSizes, AdapterRead(n) PROVE ReconInv'
    BY <1>2, <1>13 DEF AdapterRead, readerVars, reconVars
<1>14. CASE UNCHANGED jobVars
    BY <1>2, <1>14 DEF jobVars, readerVars, adapterVars, reconVars
<1> QED
    BY <1>4, <1>5, <1>6, <1>7, <1>8, <1>9, <1>10, <1>11, <1>12, <1>13, <1>14 DEF JobNext, Running

LEMMA ReconOfWriter == ASSUME JobAssumption, ReconInv PROVE ReconIsConverted
<1>1. /\ got \in Bytes /\ reconBytes \in Nat /\ FrameLen \in Nat \ {0}
      /\ job.convert \in BOOLEAN /\ (~job.convert => reconBytes = 0)
    BY LenProperties DEF ReconInv, JobAssumption
<1>2. PICK q \in Nat :
        /\ q * FrameLen <= reconBytes /\ reconBytes < q * FrameLen + FrameLen
        /\ reconFile = FlattenSeq(Converted(got, q))
    BY DEF ReconInv, WriterHas, Writer
<1>3. reconBytes \div FrameLen = q
    BY <1>1, <1>2, WholeParts
<1> DEFINE frame(k) == SubSeq(got, (k - 1) * FrameLen + 1, k * FrameLen)
           file == [k \in 1..q |-> IF job.convert THEN FromCodec(frame(k)) ELSE <<>>]
<1>4. file = Converted(got, q)
    <2>1. CASE job.convert
        BY <2>1 DEF Converted
    <2>2. CASE ~job.convert
        <3>1. q = 0
            <4>1. SUFFICES ASSUME 0 < q PROVE FALSE
                OBVIOUS
            <4>2. 0 * FrameLen + FrameLen <= q * FrameLen /\ 0 * FrameLen = 0
                BY <1>1, <4>1, Multiples
            <4>3. PICK base \in Nat : base = q * FrameLen
                BY <1>1, Multiples
            <4> QED
                BY <1>1, <1>2, <2>2, <4>2, <4>3
        <3> QED
            BY <3>1 DEF Converted
    <2> QED
        BY <2>1, <2>2
<1> HIDE DEF frame, file
<1>5. reconFile = FlattenSeq(file)
    BY <1>2, <1>4
<1> QED
    BY <1>3, <1>5 DEF ReconIsConverted, frame, file

LEMMA ReconStarts == ASSUME JobAssumption, JobInit PROVE ReconInv
<1>1. <<>> \in Bytes /\ Len(<<>>) = 0
    BY EmptySeq DEF Bytes
<1>2. job.convert \in BOOLEAN /\ FrameLen \in Nat \ {0}
    BY JobTypes DEF JobInit
<1>3. WriterHas(<<>>, 0, [frame |-> <<>>, file |-> <<>>])
    <2>1. SubSeq(<<>>, 0 * FrameLen + 1, 0) = <<>>
        <3>1. 0 * FrameLen + 1 = 1
            BY <1>2
        <3> QED
            BY <3>1, SubSeqEmpty
    <2>2. Converted(<<>>, 0) = <<>>
        BY DEF Converted
    <2>3. 0 * FrameLen <= 0 /\ 0 < 0 * FrameLen + FrameLen
        BY <1>2
    <2>4. [frame |-> <<>>, file |-> <<>>] \in WriterState
        BY <1>1 DEF WriterState, Bytes
    <2> QED
        BY <2>1, <2>2, <2>3, <2>4, FlattenNothing DEF WriterHas
<1> QED
    BY <1>1, <1>2, <1>3 DEF JobInit, ReconInv, Writer

\* The reconstruction file holds the full frames written, each converted as a
\* whole, whatever the sizes of the writes.
THEOREM ReconstructionIsConverted == JobSpec => []ReconIsConverted
<1>1. JobInit => ReconInv
    BY ReconStarts, JobAssumption
<1>2. ReconInv /\ AdapterInv /\ [JobNext]_jobVars => ReconInv'
    BY ReconKeeps, JobAssumption
<1>3. ReconInv => ReconIsConverted
    BY ReconOfWriter, JobAssumption
<1> QED
    BY <1>1, <1>2, <1>3, AdapterInvariance, PTL DEF JobSpec
=============================================================================

---------------------------- MODULE FilterProofs ----------------------------
(***************************************************************************)
(* Proofs about the two ways a frame goes through a chain of filters       *)
(* (framefinery-api/src/pipeline.rs): FilteredRawVideoFrameSource, which   *)
(* pulls (FilteredSource), and the pipelines, which push (FramePipeline).  *)
(*                                                                         *)
(* A filter is a function of the frames it has been given so far: Given is *)
(* what it has handed out of them and Held what it keeps.  That is so for  *)
(* one frame (OneFrame), for a batch (OneBatch) and for a batch through    *)
(* several filters (ThroughTheChain); the invariants then only say which   *)
(* stream has reached which filter.                                        *)
(***************************************************************************)
EXTENDS FilteredSource, FramePipeline, SequenceTheorems, WellFoundedInduction, TLAPS

Streams == Seq(Outputs)

\* What a filter has handed out of a stream it has not seen the end of.
Given(kind, s) ==
    CASE kind = "duplicate" -> [k \in 1..(2 * Len(s)) |-> s[(k + 1) \div 2]]
      [] kind = "halve"     -> [k \in 1..((Len(s) + 1) \div 2) |-> s[2 * k - 1]]
      [] kind = "delay"     -> SubSeq(s, 1, Len(s) - 1)
      [] OTHER              -> s

\* What it holds of it.
Held(kind, s) ==
    CASE kind = "delay" -> IF s = <<>> THEN <<>> ELSE <<s[Len(s)]>>
      [] kind = "halve" -> IF Len(s) % 2 = 1 THEN <<s[Len(s)]>> ELSE <<>>
      [] OTHER          -> <<>>

-----------------------------------------------------------------------------
(* Induction over 0..n, for a set of indices.                               *)

LEMMA IndexInduction ==
    ASSUME NEW n \in Nat, NEW T, 0 \in T, \A k \in 1..n : k - 1 \in T => k \in T
    PROVE  \A k \in 0..n : k \in T
<1> SUFFICES ASSUME \E k \in 0..n : k \notin T PROVE FALSE
    OBVIOUS
<1> DEFINE Missing == {k \in 0..n : k \notin T}
<1>1. Missing \subseteq Nat /\ Missing # {}
    OBVIOUS
<1>2. PICK least \in Missing : \A k \in Missing : ~ <<k, least>> \in OpToRel(<, Nat)
    BY <1>1, WFMin, NatLessThanWellFounded, Zenon
<1>3. \A k \in Missing : ~(k < least)
    BY <1>1, <1>2 DEF OpToRel
<1>4. least \in 1..n /\ least - 1 \in 0..n
    OBVIOUS
<1> QED
    BY <1>3, <1>4

-----------------------------------------------------------------------------
(* One filter.                                                              *)

LEMMA StreamsConcatenate ==
    ASSUME NEW a \in Streams, NEW b \in Streams
    PROVE  a \o b \in Streams
BY ConcatProperties DEF Streams

LEMMA ConcatenationAssociates ==
    ASSUME NEW a \in Streams, NEW b \in Streams, NEW c \in Streams
    PROVE  (a \o b) \o c = a \o (b \o c)
BY ConcatAssociative DEF Streams

LEMMA HeadThenTail ==
    ASSUME NEW s \in Streams, s # <<>>
    PROVE  /\ Head(s) \in Outputs
           /\ <<Head(s)>> \in Streams
           /\ Tail(s) \in Streams
           /\ <<Head(s)>> \o Tail(s) = s
           /\ Len(s) = Len(Tail(s)) + 1
<1> USE DEF Streams
<1>1. Head(s) \in Outputs /\ Tail(s) \in Streams
    BY HeadTailProperties
<1>2. Len(s) \in Nat \ {0} /\ 1 \in 1..Len(s) /\ Len(s) \in 1..Len(s)
    BY EmptySeq
<1>3. SubSeq(s, 1, Len(s)) = <<s[1]>> \o SubSeq(s, 1 + 1, Len(s))
    BY <1>2, SubSeqRecursiveFirst
<1>4. SubSeq(s, 1, Len(s)) = s /\ Tail(s) = SubSeq(s, 1 + 1, Len(s)) /\ Head(s) = s[1]
    BY SubSeqFull, TailIsSubSeq
<1>5. Len(Tail(s)) = Len(s) - 1
    BY HeadTailProperties
<1> QED
    BY <1>1, <1>2, <1>3, <1>4, <1>5

LEMMA GivenAndHeldAreStreams ==
    ASSUME NEW kind, NEW s \in Streams
    PROVE  Given(kind, s) \in Streams /\ Held(kind, s) \in Streams
<1> USE DEF Streams
<1>1. Len(s) \in Nat /\ \A k \in 1..Len(s) : s[k] \in Outputs
    BY LenProperties, ElementOfSeq
<1>2. ASSUME kind = "duplicate" PROVE Given(kind, s) \in Streams
    <2>1. \A k \in 1..(2 * Len(s)) : s[(k + 1) \div 2] \in Outputs
        BY <1>1
    <2>2. [k \in 1..(2 * Len(s)) |-> s[(k + 1) \div 2]] \in Streams
        BY <1>1, <2>1
    <2> QED
        BY <1>2, <2>2 DEF Given
<1>3. ASSUME kind = "halve" PROVE Given(kind, s) \in Streams
    <2>1. \A k \in 1..((Len(s) + 1) \div 2) : s[2 * k - 1] \in Outputs
        BY <1>1
    <2>2. [k \in 1..((Len(s) + 1) \div 2) |-> s[2 * k - 1]] \in Streams
        BY <1>1, <2>1
    <2> QED
        BY <1>3, <2>2 DEF Given
<1>4. ASSUME kind = "delay" PROVE Given(kind, s) \in Streams
    BY <1>1, <1>4, SubSeqProperties DEF Given
<1>5. ASSUME kind \notin {"duplicate", "halve", "delay"} PROVE Given(kind, s) \in Streams
    BY <1>5 DEF Given
<1>6. ASSUME kind = "delay" PROVE Held(kind, s) \in Streams
    <2>1. CASE Len(s) = 0
        BY <1>6, <2>1, EmptySeq DEF Held
    <2>2. CASE Len(s) # 0
        BY <1>1, <1>6, <2>2, EmptySeq DEF Held
    <2> QED
        BY <2>1, <2>2
<1>7. ASSUME kind = "halve" PROVE Held(kind, s) \in Streams
    <2>1. CASE Len(s) = 0
        BY <1>7, <2>1, EmptySeq DEF Held
    <2>2. CASE Len(s) # 0
        BY <1>1, <1>7, <2>2, EmptySeq DEF Held
    <2> QED
        BY <2>1, <2>2
<1>8. ASSUME kind \notin {"halve", "delay"} PROVE Held(kind, s) \in Streams
    BY <1>8, EmptySeq DEF Held
<1> QED
    BY <1>2, <1>3, <1>4, <1>5, <1>6, <1>7, <1>8

LEMMA DelayHoldsTheLast ==
    ASSUME NEW s \in Streams
    PROVE  Given("delay", s) \o Held("delay", s) = s
<1> USE DEF Streams
<1>1. /\ Given("delay", s) = SubSeq(s, 1, Len(s) - 1)
      /\ Held("delay", s) = IF s = <<>> THEN <<>> ELSE <<s[Len(s)]>>
    BY DEF Given, Held
<1>2. CASE s = <<>>
    BY <1>1, <1>2, SubSeqEmpty, EmptySeq, ConcatEmptySeq
<1>3. CASE s # <<>>
    <2> Len(s) \in 1..Len(s)
        BY <1>3, EmptySeq
    <2>1. SubSeq(s, 1, Len(s)) = SubSeq(s, 1, Len(s) - 1) \o <<s[Len(s)]>>
        BY SubSeqRecursiveSecond
    <2> QED
        BY <1>1, <1>3, <2>1, SubSeqFull
<1> QED
    BY <1>2, <1>3

\* process: what a filter hands out of one more frame, and what it holds after
\* it, are what Given and Held say of the longer stream.
LEMMA OneFrame ==
    ASSUME NEW i \in Stages, NEW s \in Streams, NEW x \in Outputs
    PROVE  LET p == Process(i, Held(Chain[i], s), x)
           IN  /\ p.memory = Held(Chain[i], Append(s, x))
               /\ p.out \in Streams
               /\ Given(Chain[i], s) \o p.out = Given(Chain[i], Append(s, x))
<1> USE DEF Streams
<1> DEFINE kind == Chain[i]
           p == Process(i, Held(kind, s), x)
           t == Append(s, x)
<1>1. /\ Len(s) \in Nat /\ Len(t) = Len(s) + 1
      /\ t \in Streams
      /\ \A k \in 1..Len(s) : t[k] = s[k]
      /\ t[Len(s) + 1] = x
    BY LenProperties, AppendProperties
<1>2. Given(kind, s) \in Streams /\ Given(kind, t) \in Streams /\ Held(kind, s) \in Streams
    BY <1>1, GivenAndHeldAreStreams
<1>3. CASE kind \notin {"duplicate", "halve", "delay"}
    <2>1. p = [memory |-> Held(kind, s), out |-> <<x>>]
        BY <1>3 DEF Process
    <2>2. Given(kind, s) = s /\ Given(kind, t) = t /\ Held(kind, s) = <<>> /\ Held(kind, t) = <<>>
        BY <1>3 DEF Given, Held
    <2>3. s \o <<x>> = t
        BY AppendIsConcat
    <2> QED
        BY <2>1, <2>2, <2>3
<1>4. CASE kind = "duplicate"
    <2>1. p = [memory |-> Held(kind, s), out |-> <<x, x>>]
        BY <1>4 DEF Process
    <2>2. Held(kind, s) = <<>> /\ Held(kind, t) = <<>>
        BY <1>4 DEF Held
    <2>3. /\ Given(kind, s) = [k \in 1..(2 * Len(s)) |-> s[(k + 1) \div 2]]
          /\ Given(kind, t) = [k \in 1..(2 * Len(t)) |-> t[(k + 1) \div 2]]
        BY <1>4 DEF Given
    <2>4. Len(Given(kind, s)) = 2 * Len(s) /\ Len(Given(kind, t)) = 2 * Len(s) + 2
        BY <1>1, <1>2, <2>3, LenProperties
    <2>5. <<x, x>> \in Streams /\ Len(<<x, x>>) = 2
        OBVIOUS
    <2> HIDE DEF t
    <2>6. /\ Given(kind, s) \o <<x, x>> \in Streams
          /\ Len(Given(kind, s) \o <<x, x>>) = 2 * Len(s) + 2
          /\ \A k \in 1..(2 * Len(s) + 2) : (Given(kind, s) \o <<x, x>>)[k] =
                IF k <= 2 * Len(s) THEN Given(kind, s)[k] ELSE <<x, x>>[k - 2 * Len(s)]
        <3>1. Len(Given(kind, s)) + Len(<<x, x>>) = 2 * Len(s) + 2
            BY <1>1, <2>4, <2>5
        <3> HIDE DEF kind
        <3> QED
            BY <1>2, <2>4, <2>5, <3>1, ConcatProperties
    <2>7. ASSUME NEW k \in 1..(2 * Len(s) + 2)
          PROVE  (Given(kind, s) \o <<x, x>>)[k] = Given(kind, t)[k]
        <3>1. CASE k <= 2 * Len(s)
            <4>1. k \in 1..(2 * Len(s)) /\ k \in 1..(2 * Len(t)) /\ (k + 1) \div 2 \in 1..Len(s)
                BY <1>1, <3>1
            <4> QED
                BY <1>1, <2>3, <2>6, <3>1, <4>1
        <3>2. CASE ~(k <= 2 * Len(s))
            <4>1. k \in 1..(2 * Len(t)) /\ (k + 1) \div 2 = Len(s) + 1 /\ k - 2 * Len(s) \in 1..2
                BY <1>1, <3>2
            <4>2. Given(kind, t)[k] = x
                BY <1>1, <2>3, <4>1
            <4>3. <<x, x>>[k - 2 * Len(s)] = x
                BY <4>1
            <4> QED
                BY <2>6, <3>2, <4>2, <4>3
        <3> QED
            BY <3>1, <3>2
    <2>8. Given(kind, s) \o <<x, x>> = Given(kind, t)
        BY <1>2, <2>4, <2>6, <2>7, SeqEqual
    <2> QED
        BY <2>1, <2>2, <2>5, <2>8 DEF t
<1>5. CASE kind = "delay"
    <2>1. p = [memory |-> <<x>>, out |-> Held(kind, s)]
        BY <1>5 DEF Process
    <2>2. Held(kind, t) = <<x>>
        BY <1>1, <1>5, AppendProperties DEF Held
    <2>3. Given(kind, s) \o Held(kind, s) = s
        BY <1>5, DelayHoldsTheLast
    <2>4. Given(kind, t) = s
        <3>1. Given(kind, t) = SubSeq(t, 1, Len(s))
            BY <1>1, <1>5 DEF Given
        <3>2. /\ Len(SubSeq(t, 1, Len(s))) = Len(s)
              /\ SubSeq(t, 1, Len(s)) \in Streams
              /\ \A k \in 1..Len(s) : SubSeq(t, 1, Len(s))[k] = s[k]
            BY <1>1, SubSeqProperties
        <3> QED
            BY <3>1, <3>2, SeqEqual
    <2> QED
        BY <1>2, <2>1, <2>2, <2>3, <2>4
<1>6. CASE kind = "halve"
    <2>1. p = IF Held(kind, s) = <<>> THEN [memory |-> <<x>>, out |-> <<x>>]
              ELSE [memory |-> <<>>, out |-> <<>>]
        BY <1>6 DEF Process
    <2>2. /\ Given(kind, s) = [k \in 1..((Len(s) + 1) \div 2) |-> s[2 * k - 1]]
          /\ Given(kind, t) = [k \in 1..((Len(t) + 1) \div 2) |-> t[2 * k - 1]]
          /\ Held(kind, s) = IF Len(s) % 2 = 1 THEN <<s[Len(s)]>> ELSE <<>>
          /\ Held(kind, t) = IF Len(t) % 2 = 1 THEN <<t[Len(t)]>> ELSE <<>>
        BY <1>6 DEF Given, Held
    <2>3. Len(Given(kind, s)) = (Len(s) + 1) \div 2 /\ Len(Given(kind, t)) = (Len(s) + 2) \div 2
        BY <1>1, <1>2, <2>2, LenProperties
    <2> HIDE DEF t, kind
    <2>4. CASE Len(s) % 2 = 1
        <3>1. p = [memory |-> <<>>, out |-> <<>>] /\ Held(kind, t) = <<>>
            BY <1>1, <2>1, <2>2, <2>4
        <3>2. (Len(s) + 1) \div 2 = (Len(s) + 2) \div 2
            BY <1>1, <2>4
        <3>3. ASSUME NEW k \in 1..((Len(s) + 1) \div 2)
              PROVE  Given(kind, s)[k] = Given(kind, t)[k]
            <4>1. 2 * k - 1 \in 1..Len(s) /\ k \in 1..((Len(t) + 1) \div 2)
                BY <1>1
            <4> QED
                BY <1>1, <2>2, <4>1
        <3>4. Given(kind, s) = Given(kind, t)
            BY <1>2, <2>3, <3>2, <3>3, SeqEqual
        <3> QED
            BY <1>2, <3>1, <3>4, EmptySeq, ConcatEmptySeq DEF t, kind
    <2>5. CASE Len(s) % 2 # 1
        <3>1. Len(s) % 2 = 0 /\ (Len(s) + 1) \div 2 = Len(s) \div 2 /\ 2 * (Len(s) \div 2) = Len(s)
            BY <1>1, <2>5
        <3>2. p = [memory |-> <<x>>, out |-> <<x>>] /\ Held(kind, t) = <<x>>
            BY <1>1, <2>1, <2>2, <2>5, <3>1
        <3>3. <<x>> \in Streams /\ Len(<<x>>) = 1
            OBVIOUS
        <3>4. /\ Given(kind, s) \o <<x>> \in Streams
              /\ Len(Given(kind, s) \o <<x>>) = (Len(s) \div 2) + 1
              /\ \A k \in 1..((Len(s) \div 2) + 1) : (Given(kind, s) \o <<x>>)[k] =
                    IF k <= Len(s) \div 2 THEN Given(kind, s)[k] ELSE <<x>>[k - Len(s) \div 2]
            BY <1>1, <1>2, <2>3, <3>1, <3>3, ConcatProperties
        <3>5. Len(Given(kind, t)) = (Len(s) \div 2) + 1
            BY <1>1, <2>3, <3>1
        <3>6. ASSUME NEW k \in 1..((Len(s) \div 2) + 1)
              PROVE  (Given(kind, s) \o <<x>>)[k] = Given(kind, t)[k]
            <4>0. Given(kind, t)[k] = t[2 * k - 1]
                BY <1>1, <2>2, <3>1
            <4>1. CASE k <= Len(s) \div 2
                <5>1. 2 * k - 1 \in 1..Len(s) /\ k \in 1..((Len(s) + 1) \div 2)
                    BY <1>1, <3>1, <4>1
                <5> QED
                    BY <1>1, <2>2, <3>4, <4>0, <4>1, <5>1
            <4>2. CASE ~(k <= Len(s) \div 2)
                <5>1. k = (Len(s) \div 2) + 1 /\ 2 * k - 1 = Len(s) + 1 /\ k - Len(s) \div 2 = 1
                    BY <1>1, <3>1, <4>2
                <5>2. <<x>>[k - Len(s) \div 2] = x
                    BY <5>1
                <5>3. Given(kind, t)[k] = x
                    BY <1>1, <4>0, <5>1
                <5> QED
                    BY <3>4, <4>2, <5>2, <5>3
            <4> QED
                BY <4>1, <4>2
        <3>7. Given(kind, s) \o <<x>> = Given(kind, t)
            BY <1>2, <3>4, <3>5, <3>6, SeqEqual
        <3> QED
            BY <3>2, <3>3, <3>7 DEF t, kind
    <2> QED
        BY <2>4, <2>5
<1> QED
    BY <1>3, <1>4, <1>5, <1>6

\* finish: what a filter hands out at the end completes what it had handed out.
LEMMA FinishCompletes ==
    ASSUME NEW i \in Stages, NEW s \in Streams
    PROVE  /\ FinishOutput(i, Held(Chain[i], s)) \in Streams
           /\ Transformed(Chain[i], s) = Given(Chain[i], s) \o FinishOutput(i, Held(Chain[i], s))
           /\ Transformed(Chain[i], s) \in Streams
<1> USE DEF Streams
<1> DEFINE kind == Chain[i]
           last == FinishOutput(i, Held(kind, s))
<1>1. Given(kind, s) \in Streams /\ Held(kind, s) \in Streams
    BY GivenAndHeldAreStreams
<1>2. CASE kind = "delay"
    <2>1. last = Held(kind, s) /\ Transformed(kind, s) = s
        BY <1>2 DEF FinishOutput, Transformed
    <2> QED
        BY <1>1, <1>2, <2>1, DelayHoldsTheLast
<1>3. CASE kind = "tail"
    <2>1. last = <<Blank>> /\ Transformed(kind, s) = Append(s, Blank) /\ Given(kind, s) = s
        BY <1>3 DEF FinishOutput, Transformed, Given
    <2>2. Blank \in Outputs
        BY DEF Outputs
    <2> QED
        BY <2>1, <2>2, AppendIsConcat, AppendProperties
<1>4. CASE kind \notin {"delay", "tail"}
    <2>1. last = <<>> /\ Transformed(kind, s) = Given(kind, s)
        BY <1>4 DEF FinishOutput, Transformed, Given
    <2> QED
        BY <1>1, <2>1, EmptySeq, ConcatEmptySeq
<1> QED
    BY <1>2, <1>3, <1>4

-----------------------------------------------------------------------------
(* What the recursive functions of FilterChain compute, step by step.       *)

NextFunctions(n, S) == [1..n -> [S -> S]]

Iteration(n, S, base, next, f) ==
    /\ f \in [0..n -> S]
    /\ f[0] = base
    /\ \A k \in 1..n : f[k] = next[k][f[k - 1]]

LEMMA Iterates ==
    ASSUME NEW n \in Nat, NEW S, NEW base \in S, NEW next \in NextFunctions(n, S)
    PROVE  \E f : Iteration(n, S, base, next, f)
<1> USE DEF NextFunctions
<1> DEFINE Steps(m, f) == f[0] = base /\ \A k \in 1..m : f[k] = next[k][f[k - 1]]
           T == {m \in 0..n : \E f \in [0..m -> S] : Steps(m, f)}
<1>1. 0 \in T
    <2> DEFINE f == [k \in 0..0 |-> base]
    <2>1. f \in [0..0 -> S] /\ Steps(0, f)
        OBVIOUS
    <2> HIDE DEF f, Steps
    <2> QED
        BY <2>1
<1>2. ASSUME NEW m \in 1..n, m - 1 \in T
      PROVE  m \in T
    <2>1. PICK f \in [0..(m - 1) -> S] : Steps(m - 1, f)
        BY <1>2
    <2> DEFINE g == [k \in 0..m |-> IF k = m THEN next[m][f[m - 1]] ELSE f[k]]
    <2>2. m - 1 \in 0..(m - 1) /\ f[m - 1] \in S
        OBVIOUS
    <2>3. next[m][f[m - 1]] \in S
        BY <2>2
    <2>4. g \in [0..m -> S]
        BY <2>3
    <2>5. ASSUME NEW k \in 1..m
          PROVE  g[k] = next[k][g[k - 1]]
        <3>1. CASE k = m
            <4>1. k \in 0..m /\ k - 1 \in 0..m /\ k - 1 # m
                BY <3>1
            <4> QED
                BY <3>1, <4>1
        <3>2. CASE k # m
            <4>1. k \in 1..(m - 1) /\ k \in 0..m /\ k - 1 \in 0..m /\ k - 1 # m
                BY <3>2
            <4> QED
                BY <2>1, <3>2, <4>1
        <3> QED
            BY <3>1, <3>2
    <2>6. Steps(m, g)
        <3>1. g[0] = base
            BY <2>1
        <3> HIDE DEF g
        <3> QED
            BY <2>5, <3>1
    <2> HIDE DEF g, Steps
    <2> QED
        BY <2>4, <2>6
<1> HIDE DEF T
<1>3. \A k \in 0..n : k \in T
    BY <1>1, <1>2, IndexInduction
<1> QED
    BY <1>3 DEF T, Iteration

LEMMA ProcessIsTyped ==
    ASSUME NEW i, NEW memory \in Streams, NEW frame \in Outputs
    PROVE  /\ Process(i, memory, frame).memory \in Streams
           /\ Process(i, memory, frame).out \in Streams
BY EmptySeq DEF Process, Streams

LEMMA BatchStepIsTyped ==
    ASSUME NEW i, NEW frame \in Outputs, NEW state \in StageState
    PROVE  /\ BatchStep(i, frame)[state] \in StageState
           /\ BatchStep(i, frame)[state] =
                LET p == Process(i, state.memory, frame)
                IN  [memory |-> p.memory, out |-> state.out \o p.out]
<1> USE DEF Streams
<1>1. state.memory \in Streams /\ state.out \in Streams
    BY DEF StageState
<1>2. /\ Process(i, state.memory, frame).memory \in Streams
      /\ Process(i, state.memory, frame).out \in Streams
    BY <1>1, ProcessIsTyped
<1>3. state.out \o Process(i, state.memory, frame).out \in Streams
    BY <1>1, <1>2, ConcatProperties
<1> QED
    BY <1>2, <1>3 DEF BatchStep, StageState

\* ProcessBatch is the last of the states the stage goes through.
LEMMA BatchIsStepped ==
    ASSUME NEW i \in Stages, NEW memory \in Streams, NEW frames \in Streams
    PROVE  \E after \in [0..Len(frames) -> StageState] :
                /\ after[0] = [memory |-> memory, out |-> <<>>]
                /\ \A k \in 1..Len(frames) : after[k] = BatchStep(i, frames[k])[after[k - 1]]
                /\ ProcessBatch(i, memory, frames) = after[Len(frames)]
<1> USE DEF Streams
<1> DEFINE n == Len(frames)
           base == [memory |-> memory, out |-> <<>>]
           Steps(f) == f = [k \in 0..n |-> IF k = 0 THEN base ELSE BatchStep(i, frames[k])[f[k - 1]]]
           next == [k \in 1..n |-> [state \in StageState |-> BatchStep(i, frames[k])[state]]]
<1>1. n \in Nat /\ base \in StageState /\ \A k \in 1..n : frames[k] \in Outputs
    BY LenProperties, ElementOfSeq, EmptySeq DEF StageState
<1>2. next \in NextFunctions(n, StageState)
    BY <1>1, BatchStepIsTyped DEF NextFunctions
<1> HIDE DEF n, base, next
<1>3. PICK f : Iteration(n, StageState, base, next, f)
    BY <1>1, <1>2, Iterates
<1>4. Steps(f)
    <2>1. ASSUME NEW k \in 0..n
          PROVE  f[k] = IF k = 0 THEN base ELSE BatchStep(i, frames[k])[f[k - 1]]
        <3>1. CASE k = 0
            BY <1>1, <1>3, <3>1 DEF Iteration
        <3>2. CASE k # 0
            <4>1. k \in 1..n /\ f[k - 1] \in StageState
                BY <1>1, <1>3, <3>2 DEF Iteration
            <4>2. f[k] = next[k][f[k - 1]]
                BY <1>1, <1>3, <3>2 DEF Iteration
            <4>3. next[k][f[k - 1]] = BatchStep(i, frames[k])[f[k - 1]]
                BY <4>1 DEF next
            <4> QED
                BY <3>2, <4>2, <4>3
        <3> QED
            BY <3>1, <3>2
    <2> QED
        BY <1>3, <2>1 DEF Iteration
<1> DEFINE after == CHOOSE g : Steps(g)
<1>5. Steps(after)
    <2> HIDE DEF Steps
    <2> QED
        BY <1>4
<1>6. ProcessBatch(i, memory, frames) = after[n]
    BY DEF ProcessBatch, n, base
<1> HIDE DEF after
<1>7. /\ after[0] = base
      /\ \A k \in 1..n : after[k] = BatchStep(i, frames[k])[after[k - 1]]
    <2>1. \A k \in 0..n : after[k] = IF k = 0 THEN base ELSE BatchStep(i, frames[k])[after[k - 1]]
        BY <1>5
    <2>2. 0 \in 0..n /\ \A k \in 1..n : k \in 0..n /\ k # 0
        BY <1>1
    <2>3. after[0] = base
        BY <2>1, <2>2
    <2>4. ASSUME NEW k \in 1..n PROVE after[k] = BatchStep(i, frames[k])[after[k - 1]]
        BY <2>1, <2>2
    <2> QED
        BY <2>3, <2>4
<1>8. \A k \in 0..n : after[k] \in StageState
    <2> DEFINE T == {k \in 0..n : after[k] \in StageState}
    <2>1. 0 \in T
        BY <1>1, <1>7
    <2>2. ASSUME NEW k \in 1..n, k - 1 \in T PROVE k \in T
        <3>1. after[k] \in StageState
            <4>1. frames[k] \in Outputs /\ after[k - 1] \in StageState
                BY <1>1, <2>2
            <4>2. BatchStep(i, frames[k])[after[k - 1]] \in StageState
                BY <4>1, BatchStepIsTyped, Zenon
            <4> QED
                BY <1>7, <4>2
        <3> QED
            BY <1>1, <3>1
    <2> HIDE DEF T
    <2>3. \A k \in 0..n : k \in T
        BY <1>1, <2>1, <2>2, IndexInduction
    <2> QED
        BY <2>3 DEF T
<1>9. after \in [0..n -> StageState]
    <2> QED
        BY <1>5, <1>8
<1> QED
    BY <1>6, <1>7, <1>9 DEF n, base

\* A batch is what its frames are one after the other.
LEMMA OneBatch ==
    ASSUME NEW i \in Stages, NEW s \in Streams, NEW frames \in Streams
    PROVE  LET done == ProcessBatch(i, Held(Chain[i], s), frames)
           IN  /\ done.memory = Held(Chain[i], s \o frames)
               /\ done.out \in Streams
               /\ Given(Chain[i], s) \o done.out = Given(Chain[i], s \o frames)
<1> DEFINE n == Len(frames)
           kind == Chain[i]
           seen(k) == s \o SubSeq(frames, 1, k)
           Follows(state, t) ==
                state.memory = Held(kind, t) /\ Given(kind, s) \o state.out = Given(kind, t)
<1>1. /\ n \in Nat
      /\ \A k \in 1..n : frames[k] \in Outputs
      /\ Held(kind, s) \in Streams /\ Given(kind, s) \in Streams
    BY LenProperties, ElementOfSeq, GivenAndHeldAreStreams DEF Streams
<1>2. PICK after \in [0..n -> StageState] :
            /\ after[0] = [memory |-> Held(kind, s), out |-> <<>>]
            /\ \A k \in 1..n : after[k] = BatchStep(i, frames[k])[after[k - 1]]
            /\ ProcessBatch(i, Held(kind, s), frames) = after[n]
    BY <1>1, BatchIsStepped
<1>3. \A k \in 0..n : SubSeq(frames, 1, k) \in Streams /\ seen(k) \in Streams
    <2> SUFFICES ASSUME NEW k \in 0..n
                 PROVE  SubSeq(frames, 1, k) \in Streams /\ seen(k) \in Streams
        OBVIOUS
    <2>1. SubSeq(frames, 1, k) \in Streams
        BY <1>1, SubSeqProperties DEF Streams
    <2> QED
        BY <2>1, StreamsConcatenate
<1>4. seen(0) = s /\ seen(n) = s \o frames
    BY SubSeqEmpty, SubSeqFull, ConcatEmptySeq DEF Streams
<1>5. ASSUME NEW k \in 1..n PROVE seen(k) = Append(seen(k - 1), frames[k])
    <2>1. 1 \in 1..n /\ k - 1 \in 0..n
        BY <1>1
    <2>2. SubSeq(frames, 1, k) = SubSeq(frames, 1, k - 1) \o <<frames[k]>>
        BY <1>1, <2>1, SubSeqRecursiveSecond DEF Streams
    <2>3. SubSeq(frames, 1, k - 1) \in Streams /\ seen(k - 1) \in Streams
        BY <1>3, <2>1
    <2>4. <<frames[k]>> \in Streams
        BY <1>1 DEF Streams
    <2>5. seen(k) = seen(k - 1) \o <<frames[k]>>
        <3>1. PICK a \in Streams : a = SubSeq(frames, 1, k - 1)
            BY <2>3
        <3>2. (s \o a) \o <<frames[k]>> = s \o (a \o <<frames[k]>>)
            BY <2>4, ConcatenationAssociates
        <3> QED
            BY <2>2, <3>1, <3>2
    <2> QED
        BY <1>1, <2>3, <2>5, AppendIsConcat DEF Streams
<1> DEFINE T == {k \in 0..n : Follows(after[k], seen(k))}
<1> HIDE DEF n, kind, seen
<1>6. 0 \in T
    BY <1>1, <1>2, <1>4, ConcatEmptySeq DEF Streams
<1>7. ASSUME NEW k \in 1..n, k - 1 \in T PROVE k \in T
    <2>1. PICK before \in StageState : before = after[k - 1] /\ Follows(before, seen(k - 1))
        BY <1>1, <1>2, <1>7
    <2>2. PICK t \in Streams : t = seen(k - 1) /\ seen(k) = Append(t, frames[k])
        BY <1>1, <1>3, <1>5
    <2>3. PICK p : p = Process(i, Held(kind, t), frames[k])
        OBVIOUS
    <2>4. /\ p.memory = Held(kind, seen(k))
          /\ p.out \in Streams
          /\ Given(kind, t) \o p.out = Given(kind, seen(k))
        <3> DEFINE q == Process(i, Held(Chain[i], t), frames[k])
        <3>1. /\ q.memory = Held(Chain[i], Append(t, frames[k]))
              /\ q.out \in Streams
              /\ Given(Chain[i], t) \o q.out = Given(Chain[i], Append(t, frames[k]))
            BY <1>1, OneFrame
        <3>2. p = q
            BY <2>3 DEF kind
        <3> HIDE DEF q
        <3> QED
            BY <2>2, <3>1, <3>2 DEF kind
    <2>5. after[k].memory = p.memory /\ after[k].out = before.out \o p.out
        <3>1. BatchStep(i, frames[k])[before] =
                [memory |-> Process(i, before.memory, frames[k]).memory,
                 out |-> before.out \o Process(i, before.memory, frames[k]).out]
            BY <1>1, BatchStepIsTyped
        <3>2. before.memory = Held(kind, t)
            BY <2>1, <2>2
        <3>3. p = Process(i, before.memory, frames[k])
            BY <2>3, <3>2
        <3>4. after[k] = BatchStep(i, frames[k])[before]
            BY <1>2, <2>1
        <3>5. PICK now : now = after[k]
            OBVIOUS
        <3>6. now = [memory |-> p.memory, out |-> before.out \o p.out]
            BY <3>1, <3>3, <3>4, <3>5, Zenon
        <3>7. now.memory = p.memory /\ now.out = before.out \o p.out
            BY <3>6
        <3> QED
            BY <3>5, <3>7, Zenon
    <2>6. Given(kind, s) \o (before.out \o p.out) = Given(kind, seen(k))
        <3>1. before.out \in Streams
            BY DEF StageState, Streams
        <3>2. Given(kind, s) \o (before.out \o p.out) = (Given(kind, s) \o before.out) \o p.out
            BY <1>1, <2>4, <3>1, ConcatenationAssociates
        <3> QED
            BY <2>1, <2>2, <2>4, <3>2
    <2>7. Follows(after[k], seen(k))
        BY <2>4, <2>5, <2>6
    <2> QED
        BY <1>1, <2>7
<1>8. n \in T
    <2> HIDE DEF T
    <2>1. \A k \in 0..n : k \in T
        BY <1>1, <1>6, <1>7, IndexInduction
    <2> QED
        BY <1>1, <2>1
<1>9. after[n].out \in Streams
    BY <1>1, <1>2 DEF StageState, Streams
<1> QED
    BY <1>2, <1>4, <1>8, <1>9 DEF kind

\* So a filter hands out more of a longer stream, never something else.
LEMMA GivenGrows ==
    ASSUME NEW i \in Stages, NEW s \in Streams, NEW more \in Streams
    PROVE  \E out \in Streams : Given(Chain[i], s \o more) = Given(Chain[i], s) \o out
BY OneBatch

-----------------------------------------------------------------------------
(* The chain.                                                               *)

LEMMA ChainStepIsTyped ==
    ASSUME NEW i \in Stages, NEW state \in ChainState
    PROVE  /\ ChainStep(i)[state] \in ChainState
           /\ ChainStep(i)[state] =
                LET done == ProcessBatch(i, state.held[i], state.out)
                IN  [held |-> [state.held EXCEPT ![i] = done.memory], out |-> done.out]
<1> USE DEF Streams
<1>1. state.held \in [Stages -> Streams] /\ state.held[i] \in Streams /\ state.out \in Streams
    BY DEF ChainState
<1> DEFINE done == ProcessBatch(i, state.held[i], state.out)
<1>2. done \in StageState
    <2>1. Len(state.out) \in Nat
        BY <1>1, LenProperties
    <2>2. PICK after \in [0..Len(state.out) -> StageState] : done = after[Len(state.out)]
        BY <1>1, BatchIsStepped
    <2> QED
        BY <2>1, <2>2
<1>3. done.memory \in Streams /\ done.out \in Streams
    BY <1>2 DEF StageState
<1> HIDE DEF done
<1>4. [held |-> [state.held EXCEPT ![i] = done.memory], out |-> done.out] \in ChainState
    BY <1>1, <1>3 DEF ChainState
<1>5. ChainStep(i)[state] = [held |-> [state.held EXCEPT ![i] = done.memory], out |-> done.out]
    BY DEF ChainStep, done
<1> QED
    BY <1>4, <1>5 DEF done

Memories == [Stages -> Streams]

\* The states of the chain before the first filter and after each one.
BatchThrough(start, h, frames, after) ==
    /\ after \in [0..Len(Chain) -> ChainState]
    /\ \A i \in 0..(start - 1) : after[i] = [held |-> h, out |-> frames]
    /\ \A i \in start..Len(Chain) : after[i] = ChainStep(i)[after[i - 1]]

\* ProcessFrom is the last of the states the batch goes through.
LEMMA ChainIsStepped ==
    ASSUME ChainAssumption,
           NEW start \in 1..(Len(Chain) + 1), NEW h \in Memories, NEW frames \in Streams
    PROVE  \E after : /\ BatchThrough(start, h, frames, after)
                      /\ ProcessFrom(start, h, frames) = after[Len(Chain)]
<1> USE DEF Streams, Memories
<1> DEFINE n == Len(Chain)
           base == [held |-> h, out |-> frames]
           Steps(f) == f = [i \in 0..n |-> IF i < start THEN base ELSE ChainStep(i)[f[i - 1]]]
           next == [i \in 1..n |-> [state \in ChainState |->
                        IF i < start THEN base ELSE ChainStep(i)[state]]]
<1>1. n \in Nat /\ base \in ChainState /\ Stages = 1..n
    BY LenProperties DEF ChainState, ChainAssumption, Stages
<1>2. next \in NextFunctions(n, ChainState)
    BY <1>1, ChainStepIsTyped DEF NextFunctions
<1> HIDE DEF n, base, next
<1>3. PICK f : Iteration(n, ChainState, base, next, f)
    BY <1>1, <1>2, Iterates
<1>4. Steps(f)
    <2>1. ASSUME NEW i \in 0..n
          PROVE  f[i] = IF i < start THEN base ELSE ChainStep(i)[f[i - 1]]
        <3>1. CASE i = 0
            BY <1>1, <1>3, <3>1 DEF Iteration
        <3>2. CASE i # 0
            <4>1. i \in 1..n /\ f[i - 1] \in ChainState
                BY <1>1, <1>3, <3>2 DEF Iteration
            <4>2. f[i] = next[i][f[i - 1]]
                BY <1>1, <1>3, <3>2 DEF Iteration
            <4>3. next[i][f[i - 1]] = IF i < start THEN base ELSE ChainStep(i)[f[i - 1]]
                BY <4>1 DEF next
            <4> QED
                BY <4>2, <4>3
        <3> QED
            BY <3>1, <3>2
    <2> QED
        BY <1>3, <2>1 DEF Iteration
<1> DEFINE after == CHOOSE g : Steps(g)
<1>5. Steps(after)
    <2> HIDE DEF Steps
    <2> QED
        BY <1>4
<1>6. ProcessFrom(start, h, frames) = after[n]
    BY DEF ProcessFrom, n, base
<1> HIDE DEF after
<1>7. \A i \in 0..n : after[i] = IF i < start THEN base ELSE ChainStep(i)[after[i - 1]]
    BY <1>5
<1>8. \A i \in 0..n : after[i] \in ChainState
    <2> DEFINE T == {i \in 0..n : after[i] \in ChainState}
    <2>1. 0 \in T
        BY <1>1, <1>7
    <2>2. ASSUME NEW i \in 1..n, i - 1 \in T PROVE i \in T
        <3>1. CASE i < start
            BY <1>1, <1>7, <3>1
        <3>2. CASE ~(i < start)
            <4>1. i \in Stages /\ after[i - 1] \in ChainState
                BY <1>1, <2>2
            <4>2. ChainStep(i)[after[i - 1]] \in ChainState
                BY <4>1, ChainStepIsTyped, Zenon
            <4>3. after[i] = ChainStep(i)[after[i - 1]]
                BY <1>1, <1>7, <3>2
            <4> QED
                BY <1>1, <4>2, <4>3
        <3> QED
            BY <3>1, <3>2
    <2> HIDE DEF T
    <2>3. \A i \in 0..n : i \in T
        BY <1>1, <2>1, <2>2, IndexInduction
    <2> QED
        BY <2>3 DEF T
<1>9. /\ after \in [0..n -> ChainState]
      /\ \A i \in 0..(start - 1) : after[i] = base
      /\ \A i \in start..n : after[i] = ChainStep(i)[after[i - 1]]
    <2>1. after \in [0..n -> ChainState]
        BY <1>5, <1>8
    <2>2. ASSUME NEW i \in 0..(start - 1) PROVE after[i] = base
        <3>1. i \in 0..n /\ i < start
            BY <1>1 DEF n
        <3> QED
            BY <1>7, <3>1
    <2>3. ASSUME NEW i \in start..n PROVE after[i] = ChainStep(i)[after[i - 1]]
        <3>1. i \in 0..n /\ ~(i < start)
            BY <1>1
        <3> QED
            BY <1>7, <3>1
    <2> QED
        BY <2>1, <2>2, <2>3
<1> QED
    BY <1>6, <1>9 DEF n, base, BatchThrough

\* The filters from first on have been given streams[first - 1] and hand out
\* streams[i] of it.
Follows(streams, first, memories) ==
    \A i \in Stages : i >= first =>
        /\ memories[i] = Held(Chain[i], streams[i - 1])
        /\ streams[i] = Given(Chain[i], streams[i - 1])

StreamFamilies == [0..Len(Chain) -> Streams]

\* Batch "frames" has gone through the filters from start on, with the result
\* "done", and the streams before and after are these.
Lengthened(streams, longer, start, frames, done) ==
    /\ \A i \in 0..Len(Chain) : i < start - 1 => longer[i] = streams[i]
    /\ longer[start - 1] = streams[start - 1] \o frames
    /\ Follows(longer, start, done.held)
    /\ longer[Len(Chain)] = streams[Len(Chain)] \o done.out

\* A batch through the filters from start on lengthens the stream before each of
\* them and leaves the filters before start alone.
LEMMA ThroughTheChain ==
    ASSUME ChainAssumption,
           NEW start \in 1..(Len(Chain) + 1), NEW h \in Memories, NEW frames \in Streams,
           NEW streams \in StreamFamilies, Follows(streams, start, h),
           NEW done, done = ProcessFrom(start, h, frames)
    PROVE  /\ done.held \in Memories
           /\ done.out \in Streams
           /\ \A i \in Stages : i < start => done.held[i] = h[i]
           /\ \E longer \in StreamFamilies : Lengthened(streams, longer, start, frames, done)
<1>0. PICK n : n = Len(Chain)
    OBVIOUS
<1>1. n \in Nat /\ Stages = 1..n /\ start \in 1..(n + 1) /\ streams \in [0..n -> Streams]
    BY <1>0, LenProperties DEF ChainAssumption, Stages, StreamFamilies
<1>2. PICK after \in [0..n -> ChainState] :
            /\ \A i \in 0..(start - 1) : after[i] = [held |-> h, out |-> frames]
            /\ \A i \in start..n : after[i] = ChainStep(i)[after[i - 1]]
            /\ done = after[n]
    <2>1. PICK after : BatchThrough(start, h, frames, after) /\ done = after[Len(Chain)]
        BY ChainIsStepped
    <2> QED
        BY <1>0, <2>1 DEF BatchThrough
<1>3. \A i \in 0..n : after[i].held \in Memories /\ after[i].out \in Streams
    <2> SUFFICES ASSUME NEW i \in 0..n
                 PROVE  after[i].held \in Memories /\ after[i].out \in Streams
        OBVIOUS
    <2>1. after[i] \in ChainState
        BY <1>2
    <2> QED
        BY <2>1 DEF ChainState, Streams, Memories
<1>4. PICK longer \in [0..n -> Streams] : \A i \in 0..n :
            longer[i] = IF i < start - 1 THEN streams[i] ELSE streams[i] \o after[i].out
    <2> DEFINE f == [i \in 0..n |-> IF i < start - 1 THEN streams[i] ELSE streams[i] \o after[i].out]
    <2>1. \A i \in 0..n : streams[i] \in Streams /\ streams[i] \o after[i].out \in Streams
        BY <1>1, <1>3, StreamsConcatenate
    <2>2. f \in [0..n -> Streams]
        BY <2>1
    <2>3. \A i \in 0..n :
            f[i] = IF i < start - 1 THEN streams[i] ELSE streams[i] \o after[i].out
        OBVIOUS
    <2> HIDE DEF f
    <2> QED
        BY <2>2, <2>3
<1> DEFINE Reached(i) ==
        /\ \A j \in Stages : j < start \/ j > i => after[i].held[j] = h[j]
        /\ \A j \in Stages : start <= j /\ j <= i =>
                /\ after[i].held[j] = Held(Chain[j], longer[j - 1])
                /\ longer[j] = Given(Chain[j], longer[j - 1])
    T == {i \in 0..n : Reached(i)}
<1>5. ASSUME NEW i \in 0..n, i < start PROVE i \in T
    <2>1. after[i].held = h
        BY <1>1, <1>2, <1>5
    <2>2. \A j \in Stages : ~(start <= j /\ j <= i)
        BY <1>1, <1>5
    <2> QED
        BY <2>1, <2>2
<1>6. ASSUME NEW i \in 1..n, i - 1 \in T, ~(i < start) PROVE i \in T
    <2>0. i \in Stages /\ i \in 0..n /\ i - 1 \in 0..n /\ ~(i < start - 1) /\ ~(i - 1 < start - 1)
        BY <1>1, <1>6
    <2>1. PICK before \in ChainState : before = after[i - 1]
        BY <1>2, <2>0
    <2>2. PICK s \in Streams : s = streams[i - 1]
        BY <1>1, <2>0
    <2>3. before.held \in Memories /\ before.out \in Streams
        BY <1>3, <2>0, <2>1
    <2>4. before.held[i] = Held(Chain[i], s) /\ streams[i] = Given(Chain[i], s)
        <3>1. before.held[i] = h[i]
            BY <1>6, <2>0, <2>1
        <3>2. h[i] = Held(Chain[i], s) /\ streams[i] = Given(Chain[i], s)
            BY <1>1, <1>6, <2>0, <2>2 DEF Follows
        <3> QED
            BY <3>1, <3>2
    <2>5. PICK d : d = ProcessBatch(i, Held(Chain[i], s), before.out)
        OBVIOUS
    <2>6. /\ d.memory = Held(Chain[i], s \o before.out)
          /\ d.out \in Streams
          /\ Given(Chain[i], s) \o d.out = Given(Chain[i], s \o before.out)
        BY <2>0, <2>3, <2>5, OneBatch
    <2>7. longer[i - 1] = s \o before.out
        BY <1>4, <2>0, <2>1, <2>2
    <2>8. after[i].held = [before.held EXCEPT ![i] = d.memory] /\ after[i].out = d.out
        <3>1. ChainStep(i)[before] = [held |-> [before.held EXCEPT ![i] = d.memory], out |-> d.out]
            <4>1. ChainStep(i)[before] =
                    LET e == ProcessBatch(i, before.held[i], before.out)
                    IN  [held |-> [before.held EXCEPT ![i] = e.memory], out |-> e.out]
                BY <2>0, ChainStepIsTyped
            <4> QED
                BY <2>4, <2>5, <4>1, Zenon
        <3>2. PICK now : now = after[i]
            OBVIOUS
        <3>3. now = [held |-> [before.held EXCEPT ![i] = d.memory], out |-> d.out]
            <4>1. i \in start..n
                BY <1>1, <1>6
            <4> QED
                BY <1>2, <2>1, <3>1, <3>2, <4>1, Zenon
        <3>4. now.held = [before.held EXCEPT ![i] = d.memory] /\ now.out = d.out
            BY <3>3
        <3> QED
            BY <3>2, <3>4, Zenon
    <2>9. longer[i] = Given(Chain[i], longer[i - 1])
        BY <1>4, <2>0, <2>4, <2>6, <2>7, <2>8
    <2>10. after[i].held[i] = Held(Chain[i], longer[i - 1])
        BY <2>0, <2>3, <2>6, <2>7, <2>8 DEF Memories
    <2>11. \A j \in Stages : j # i => after[i].held[j] = before.held[j]
        BY <2>3, <2>8 DEF Memories
    <2>12. \A j \in Stages : j < start \/ j > i => after[i].held[j] = h[j]
        BY <1>1, <1>6, <2>1, <2>11
    <2>13. ASSUME NEW j \in Stages, start <= j, j <= i
           PROVE  /\ after[i].held[j] = Held(Chain[j], longer[j - 1])
                  /\ longer[j] = Given(Chain[j], longer[j - 1])
        <3>1. CASE j = i
            BY <2>9, <2>10, <3>1
        <3>2. CASE j # i
            <4>1. j <= i - 1
                BY <1>1, <2>13, <3>2
            <4> QED
                BY <1>6, <2>1, <2>11, <2>13, <3>2, <4>1
        <3> QED
            BY <3>1, <3>2
    <2> QED
        BY <2>0, <2>12, <2>13
<1>7. Reached(n)
    <2>1. 0 \in T
        BY <1>1, <1>5
    <2> HIDE DEF T
    <2>2. ASSUME NEW i \in 1..n, i - 1 \in T PROVE i \in T
        BY <1>5, <1>6, <2>2
    <2>3. \A i \in 0..n : i \in T
        BY <1>1, <2>1, <2>2, IndexInduction
    <2>4. n \in T
        BY <1>1, <2>3
    <2> QED
        BY <2>4 DEF T
<1>8. done.held \in Memories /\ done.out \in Streams
    BY <1>1, <1>2, <1>3
<1>9. \A i \in Stages : i < start => done.held[i] = h[i]
    BY <1>2, <1>7
<1>10. Follows(longer, start, done.held)
    <2>1. ASSUME NEW i \in Stages, i >= start
          PROVE  done.held[i] = Held(Chain[i], longer[i - 1]) /\ longer[i] = Given(Chain[i], longer[i - 1])
        <3>1. start <= i /\ i <= n
            BY <1>1, <2>1
        <3> QED
            BY <1>2, <1>7, <3>1
    <2> QED
        BY <2>1 DEF Follows
<1>11. \A i \in 0..n : i < start - 1 => longer[i] = streams[i]
    BY <1>4
<1>12. longer[start - 1] = streams[start - 1] \o frames
    <2>1. start - 1 \in 0..n /\ start - 1 \in 0..(start - 1) /\ ~(start - 1 < start - 1)
        BY <1>1
    <2>2. after[start - 1].out = frames
        BY <1>2, <2>1
    <2> QED
        BY <1>4, <2>1, <2>2
<1>13. longer[n] = streams[n] \o done.out
    <2>1. n \in 0..n /\ ~(n < start - 1)
        BY <1>1
    <2>2. longer[n] = streams[n] \o after[n].out
        BY <1>4, <2>1
    <2> QED
        BY <1>2, <2>2
<1>14. longer \in StreamFamilies
    BY <1>0 DEF StreamFamilies
<1> HIDE DEF Reached, T
<1> QED
    BY <1>0, <1>8, <1>9, <1>10, <1>11, <1>12, <1>13, <1>14 DEF Lengthened

\* Before anything has been read nothing has been handed out and nothing is held.
LEMMA NothingRead ==
    ASSUME ChainAssumption
    PROVE  /\ NothingHeld \in Memories
           /\ [i \in 0..Len(Chain) |-> <<>>] \in StreamFamilies
           /\ Follows([i \in 0..Len(Chain) |-> <<>>], 1, NothingHeld)
<1>1. Len(Chain) \in Nat /\ Stages = 1..Len(Chain)
    BY LenProperties DEF ChainAssumption, Stages
<1>2. <<>> \in Streams
    BY EmptySeq DEF Streams
<1>3. ASSUME NEW kind PROVE Held(kind, <<>>) = <<>> /\ Given(kind, <<>>) = <<>>
    <2>1. Held(kind, <<>>) = <<>>
        BY EmptySeq DEF Held
    <2>2. CASE kind = "duplicate"
        <3>1. Given(kind, <<>>) = [k \in 1..(2 * Len(<<>>)) |-> <<>>[(k + 1) \div 2]]
            BY <2>2 DEF Given
        <3>2. 1..(2 * Len(<<>>)) = {}
            OBVIOUS
        <3> QED
            BY <2>1, <3>1, <3>2
    <2>3. CASE kind = "halve"
        <3>1. Given(kind, <<>>) = [k \in 1..((Len(<<>>) + 1) \div 2) |-> <<>>[2 * k - 1]]
            BY <2>3 DEF Given
        <3>2. 1..((Len(<<>>) + 1) \div 2) = {}
            OBVIOUS
        <3> QED
            BY <2>1, <3>1, <3>2
    <2>4. CASE kind = "delay"
        <3>1. Given(kind, <<>>) = SubSeq(<<>>, 1, Len(<<>>) - 1)
            BY <2>4 DEF Given
        <3> QED
            BY <2>1, <3>1, SubSeqEmpty
    <2>5. CASE kind \notin {"duplicate", "halve", "delay"}
        BY <2>1, <2>5 DEF Given
    <2> QED
        BY <2>2, <2>3, <2>4, <2>5
<1> QED
    BY <1>1, <1>2, <1>3 DEF Follows, NothingHeld, StreamFamilies, Memories

\* What the filters have handed out is what they make of the frames read, read
\* in one batch.
LEMMA OutputOfTheFramesRead ==
    ASSUME ChainAssumption,
           NEW streams \in StreamFamilies, NEW h, Follows(streams, 1, h)
    PROVE  ProcessFrom(1, NothingHeld, streams[0]).out = streams[Len(Chain)]
<1>0. PICK n : n = Len(Chain)
    OBVIOUS
<1>1. n \in Nat /\ Stages = 1..n /\ streams \in [0..n -> Streams] /\ 1 \in 1..(n + 1)
    BY <1>0, LenProperties DEF ChainAssumption, Stages, StreamFamilies
<1>2. PICK empty \in StreamFamilies :
            empty = [i \in 0..n |-> <<>>] /\ Follows(empty, 1, NothingHeld)
    BY <1>0, NothingRead
<1>3. PICK done : done = ProcessFrom(1, NothingHeld, streams[0])
    OBVIOUS
<1>4. streams[0] \in Streams
    BY <1>1
<1>5. /\ done.out \in Streams
      /\ \E longer \in StreamFamilies :
            /\ longer[0] = empty[0] \o streams[0]
            /\ Follows(longer, 1, done.held)
            /\ longer[n] = empty[n] \o done.out
    <2>1. PICK start : start = 1
        OBVIOUS
    <2>2. start \in 1..(Len(Chain) + 1) /\ start - 1 = 0
        BY <1>0, <1>1, <2>1
    <2>3. Follows(empty, start, NothingHeld) /\ done = ProcessFrom(start, NothingHeld, streams[0])
        BY <1>2, <1>3, <2>1
    <2>4. /\ done.out \in Streams
          /\ \E longer \in StreamFamilies : Lengthened(empty, longer, start, streams[0], done)
        BY <1>4, <2>2, <2>3, NothingRead, ThroughTheChain
    <2> QED
        BY <1>0, <2>1, <2>2, <2>4 DEF Lengthened
<1>6. PICK longer \in StreamFamilies :
            /\ longer[0] = empty[0] \o streams[0]
            /\ Follows(longer, 1, done.held)
            /\ longer[n] = empty[n] \o done.out
    BY <1>5
<1>7. longer[0] = streams[0] /\ longer[n] = done.out
    <2>1. empty[0] = <<>> /\ empty[n] = <<>>
        BY <1>1, <1>2
    <2>2. <<>> \o streams[0] = streams[0] /\ <<>> \o done.out = done.out
        BY <1>4, <1>5, ConcatEmptySeq DEF Streams
    <2> QED
        BY <1>6, <2>1, <2>2
<1> DEFINE T == {i \in 0..n : longer[i] = streams[i]}
<1>8. 0 \in T
    BY <1>1, <1>7
<1>9. ASSUME NEW i \in 1..n, i - 1 \in T PROVE i \in T
    BY <1>1, <1>6, <1>9 DEF Follows
<1> HIDE DEF T
<1>10. \A i \in 0..n : i \in T
    BY <1>1, <1>8, <1>9, IndexInduction
<1> QED
    BY <1>0, <1>1, <1>3, <1>7, <1>10 DEF T

\* Filtered is the last of the streams the reference makes of one.
LEMMA FilteredIsStepped ==
    ASSUME ChainAssumption, NEW stream \in Streams
    PROVE  \E final \in StreamFamilies :
                /\ final[0] = stream
                /\ \A i \in Stages : final[i] = Transformed(Chain[i], final[i - 1])
                /\ Filtered(stream) = final[Len(Chain)]
<1> DEFINE n == Len(Chain)
           Steps(f) == f = [i \in 0..n |-> IF i = 0 THEN stream ELSE Transformed(Chain[i], f[i - 1])]
           next == [i \in 1..n |-> [s \in Streams |-> Transformed(Chain[i], s)]]
<1>1. n \in Nat /\ Stages = 1..n /\ StreamFamilies = [0..n -> Streams]
    BY LenProperties DEF ChainAssumption, Stages, StreamFamilies
<1>2. next \in NextFunctions(n, Streams)
    BY <1>1, FinishCompletes DEF NextFunctions
<1> HIDE DEF n, next
<1>3. PICK f : Iteration(n, Streams, stream, next, f)
    BY <1>1, <1>2, Iterates
<1>4. Steps(f)
    <2>1. ASSUME NEW i \in 0..n
          PROVE  f[i] = IF i = 0 THEN stream ELSE Transformed(Chain[i], f[i - 1])
        <3>1. CASE i = 0
            BY <1>1, <1>3, <3>1 DEF Iteration
        <3>2. CASE i # 0
            <4>1. i \in 1..n /\ f[i - 1] \in Streams
                BY <1>1, <1>3, <3>2 DEF Iteration
            <4>2. f[i] = next[i][f[i - 1]]
                BY <1>1, <1>3, <3>2 DEF Iteration
            <4>3. next[i][f[i - 1]] = Transformed(Chain[i], f[i - 1])
                BY <4>1 DEF next
            <4> QED
                BY <3>2, <4>2, <4>3
        <3> QED
            BY <3>1, <3>2
    <2> QED
        BY <1>3, <2>1 DEF Iteration
<1> DEFINE after == CHOOSE g : Steps(g)
<1>5. Steps(after)
    <2> HIDE DEF Steps
    <2> QED
        BY <1>4
<1>6. Filtered(stream) = after[n]
    BY DEF Filtered, n
<1> HIDE DEF after
<1>7. \A i \in 0..n : after[i] = IF i = 0 THEN stream ELSE Transformed(Chain[i], after[i - 1])
    BY <1>5
<1> DEFINE T == {i \in 0..n : after[i] \in Streams}
<1>8. 0 \in T
    BY <1>1, <1>7
<1>9. ASSUME NEW i \in 1..n, i - 1 \in T PROVE i \in T
    <2>1. i \in Stages /\ after[i - 1] \in Streams /\ i \in 0..n /\ i # 0
        BY <1>1, <1>9
    <2>2. Transformed(Chain[i], after[i - 1]) \in Streams
        BY <2>1, FinishCompletes
    <2> QED
        BY <1>7, <2>1, <2>2
<1> HIDE DEF T
<1>10. \A i \in 0..n : i \in T
    BY <1>1, <1>8, <1>9, IndexInduction
<1>11. after \in StreamFamilies
    BY <1>1, <1>5, <1>10 DEF T
<1>12. after[0] = stream /\ \A i \in Stages : after[i] = Transformed(Chain[i], after[i - 1])
    BY <1>1, <1>7
<1> QED
    BY <1>6, <1>11, <1>12 DEF n

LEMMA PrefixOfConcatenation ==
    ASSUME NEW a \in Streams, NEW b \in Streams
    PROVE  IsPrefix(a, a \o b)
<1> USE DEF Streams
<1>1. /\ a \o b \in Streams
      /\ Len(a) \in Nat /\ Len(b) \in Nat /\ Len(a \o b) = Len(a) + Len(b)
      /\ \A i \in 1..Len(a) : (a \o b)[i] = a[i] /\ a[i] \in Outputs
    BY ConcatProperties, LenProperties, ElementOfSeq
<1>2. PICK c \in Streams : c = a \o b
    BY <1>1
<1>3. /\ SubSeq(c, 1, Len(a)) \in Streams
      /\ Len(SubSeq(c, 1, Len(a))) = Len(a)
      /\ \A i \in 1..Len(a) : SubSeq(c, 1, Len(a))[i] = a[i]
    BY <1>1, <1>2, SubSeqProperties
<1>4. SubSeq(c, 1, Len(a)) = a
    BY <1>1, <1>3, SeqEqual
<1> QED
    BY <1>1, <1>2, <1>4, SubSeqFull DEF IsPrefix

\* The filters up to last have been flushed.
FlushedTo(streams, last) ==
    \A i \in Stages : i <= last => streams[i] = Transformed(Chain[i], streams[i - 1])

\* Wherever the stream has got to, what the last filter has handed out is the
\* beginning of what the filters make of the whole stream; once all have been
\* flushed it is all of it.
LEMMA OutputIsPrefix ==
    ASSUME ChainAssumption,
           NEW stream \in Streams, NEW read \in 0..Len(stream), NEW last \in 0..Len(Chain),
           NEW streams \in StreamFamilies, NEW h,
           streams[0] = SubSeq(stream, 1, read),
           FlushedTo(streams, last), Follows(streams, last + 1, h),
           last > 0 => read = Len(stream)
    PROVE  /\ \E more \in Streams : Filtered(stream) = streams[Len(Chain)] \o more
           /\ last = Len(Chain) /\ read = Len(stream) => Filtered(stream) = streams[Len(Chain)]
<1>0. PICK n : n = Len(Chain)
    OBVIOUS
<1>1. /\ n \in Nat /\ Stages = 1..n /\ StreamFamilies = [0..n -> Streams]
      /\ last \in 0..n /\ Len(stream) \in Nat
    BY <1>0, LenProperties DEF ChainAssumption, Stages, StreamFamilies, Streams
<1>2. PICK final \in StreamFamilies :
            /\ final[0] = stream
            /\ \A i \in Stages : final[i] = Transformed(Chain[i], final[i - 1])
            /\ Filtered(stream) = final[n]
    BY <1>0, FilteredIsStepped
<1> DEFINE Meets(i) == /\ \E more \in Streams : final[i] = streams[i] \o more
                       /\ i <= last /\ read = Len(stream) => final[i] = streams[i]
           T == {i \in 0..n : Meets(i)}
<1>3. <<>> \in Streams /\ \A s \in Streams : s \o <<>> = s
    BY EmptySeq, ConcatEmptySeq DEF Streams
<1>4. Meets(0)
    <2>1. CASE read = Len(stream)
        <3>1. final[0] = streams[0]
            BY <1>2, <2>1, SubSeqFull DEF Streams
        <3>2. streams[0] \in Streams
            BY <1>1
        <3>3. \E more \in Streams : final[0] = streams[0] \o more
            BY <1>3, <3>1, <3>2
        <3> QED
            BY <1>1, <3>1, <3>3
    <2>2. CASE read # Len(stream)
        <3>1. /\ 1 \in 1..(Len(stream) + 1)
              /\ read \in (1 - 1)..Len(stream)
              /\ Len(stream) \in read..Len(stream)
            BY <1>1
        <3>2. SubSeq(stream, 1, read) \o SubSeq(stream, read + 1, Len(stream)) = SubSeq(stream, 1, Len(stream))
            BY <3>1, ConcatAdjacentSubSeq DEF Streams
        <3>3. SubSeq(stream, 1, Len(stream)) = stream
            BY SubSeqFull DEF Streams
        <3>4. SubSeq(stream, read + 1, Len(stream)) \in Streams
            <4>1. \A i \in (read + 1)..Len(stream) : stream[i] \in Outputs
                BY <1>1, ElementOfSeq DEF Streams
            <4> QED
                BY <1>1, <4>1, SubSeqProperties DEF Streams
        <3>5. PICK more \in Streams : final[0] = streams[0] \o more
            BY <1>2, <3>2, <3>3, <3>4
        <3> QED
            BY <1>1, <2>2, <3>5
    <2> QED
        BY <2>1, <2>2
<1>5. ASSUME NEW i \in 1..n, i - 1 \in T PROVE i \in T
    <2>1. /\ i \in Stages /\ i \in 0..n /\ i - 1 \in 0..n
          /\ final[i] = Transformed(Chain[i], final[i - 1])
        BY <1>1, <1>2
    <2>2. PICK s \in Streams : s = streams[i - 1]
        BY <1>1, <2>1
    <2>3. CASE i <= last
        <3>1. read = Len(stream) /\ final[i - 1] = s
            BY <1>1, <1>5, <2>2, <2>3
        <3>2. final[i] = streams[i]
            BY <2>1, <2>2, <2>3, <3>1 DEF FlushedTo
        <3>3. streams[i] \in Streams
            BY <1>1, <2>1
        <3> QED
            BY <1>3, <2>1, <3>2, <3>3
    <2>4. CASE ~(i <= last)
        <3>1. streams[i] = Given(Chain[i], s)
            BY <1>1, <2>1, <2>2, <2>4 DEF Follows
        <3>2. PICK more \in Streams : final[i - 1] = s \o more
            BY <1>5, <2>2
        <3>3. PICK t \in Streams : t = s \o more
            BY StreamsConcatenate
        <3>4. PICK end \in Streams : Transformed(Chain[i], t) = Given(Chain[i], t) \o end
            BY <2>1, FinishCompletes
        <3>5. PICK out \in Streams : Given(Chain[i], t) = Given(Chain[i], s) \o out
            BY <2>1, <3>3, GivenGrows
        <3>6. final[i] = (streams[i] \o out) \o end
            BY <2>1, <3>1, <3>2, <3>3, <3>4, <3>5
        <3>7. streams[i] \in Streams
            BY <1>1, <2>1
        <3>8. final[i] = streams[i] \o (out \o end)
            BY <3>6, <3>7, ConcatenationAssociates
        <3>9. PICK rest \in Streams : rest = out \o end
            BY StreamsConcatenate
        <3> QED
            BY <2>1, <2>4, <3>8, <3>9
    <2> QED
        BY <2>3, <2>4
<1>6. n \in T
    <2> HIDE DEF T
    <2>1. \A i \in 0..n : i \in T
        <3>1. 0 \in T
            <4> HIDE DEF Meets
            <4> QED
                BY <1>1, <1>4 DEF T
        <3> QED
            BY <1>1, <1>5, <3>1, IndexInduction
    <2> QED
        BY <1>1, <2>1
<1>7. /\ \E more \in Streams : final[n] = streams[n] \o more
      /\ n <= last /\ read = Len(stream) => final[n] = streams[n]
    BY <1>6
<1>8. last = n => n <= last
    BY <1>1
<1> HIDE DEF T
<1> QED
    BY <1>0, <1>2, <1>7, <1>8

-----------------------------------------------------------------------------
(* How far a stream has got through the chain: the first "read" frames have *)
(* gone in, the first "last" filters have been flushed, the filters hold    *)
(* "memories" and "out" has come out of the last one.                       *)

Position(stream, read, last, memories, out) ==
    \E streams \in StreamFamilies :
        /\ streams[0] = SubSeq(stream, 1, read)
        /\ FlushedTo(streams, last)
        /\ Follows(streams, last + 1, memories)
        /\ streams[Len(Chain)] = out

LEMMA AtTheStart ==
    ASSUME ChainAssumption, NEW stream \in Streams
    PROVE  Position(stream, 0, 0, NothingHeld, <<>>)
<1>1. Len(Chain) \in Nat /\ Stages = 1..Len(Chain) /\ 0 + 1 = 1
    BY LenProperties DEF ChainAssumption, Stages
<1>2. PICK empty \in StreamFamilies :
            empty = [i \in 0..Len(Chain) |-> <<>>] /\ Follows(empty, 1, NothingHeld)
    BY NothingRead
<1>3. empty[0] = <<>> /\ empty[Len(Chain)] = <<>>
    BY <1>1, <1>2
<1>4. SubSeq(stream, 1, 0) = <<>>
    BY SubSeqEmpty
<1>5. FlushedTo(empty, 0)
    BY <1>1 DEF FlushedTo
<1> QED
    BY <1>1, <1>2, <1>3, <1>4, <1>5 DEF Position

\* A frame is read and goes through all filters.
LEMMA AFrameIsRead ==
    ASSUME ChainAssumption,
           NEW stream \in Streams, NEW read \in 0..(Len(stream) - 1),
           NEW memories \in Memories, NEW out \in Streams,
           Position(stream, read, 0, memories, out),
           NEW done, done = ProcessFrom(1, memories, <<stream[read + 1]>>)
    PROVE  /\ done.held \in Memories
           /\ done.out \in Streams
           /\ Position(stream, read + 1, 0, done.held, out \o done.out)
<1>0. PICK start : start = 1
    OBVIOUS
<1>1. /\ Len(Chain) \in Nat /\ Stages = 1..Len(Chain) /\ Len(stream) \in Nat
      /\ start \in 1..(Len(Chain) + 1) /\ start - 1 = 0 /\ 0 + 1 = start
    BY <1>0, LenProperties DEF ChainAssumption, Stages, Streams
<1>2. PICK frames \in Streams : frames = <<stream[read + 1]>>
    <2>1. PICK x \in Outputs : x = stream[read + 1]
        BY <1>1, ElementOfSeq DEF Streams
    <2>2. <<x>> \in Streams
        BY DEF Streams
    <2> QED
        BY <2>1, <2>2
<1>3. PICK streams \in StreamFamilies :
            /\ streams[0] = SubSeq(stream, 1, read)
            /\ Follows(streams, start, memories)
            /\ streams[Len(Chain)] = out
    BY <1>1 DEF Position
<1>4. done = ProcessFrom(start, memories, frames)
    BY <1>0, <1>2
<1>5. /\ done.held \in Memories
      /\ done.out \in Streams
      /\ \E longer \in StreamFamilies : Lengthened(streams, longer, start, frames, done)
    BY <1>1, <1>3, <1>4, ThroughTheChain
<1>6. PICK longer \in StreamFamilies :
            /\ longer[0] = streams[0] \o frames
            /\ Follows(longer, start, done.held)
            /\ longer[Len(Chain)] = out \o done.out
    BY <1>1, <1>3, <1>5 DEF Lengthened
<1>7. SubSeq(stream, 1, read + 1) = SubSeq(stream, 1, read) \o <<stream[read + 1]>>
    <2>1. PICK k : k = read + 1
        OBVIOUS
    <2>2. 1 \in 1..Len(stream) /\ k \in 1..Len(stream) /\ k - 1 = read
        BY <1>1, <2>1
    <2>3. SubSeq(stream, 1, k) = SubSeq(stream, 1, k - 1) \o <<stream[k]>>
        BY <2>2, SubSeqRecursiveSecond DEF Streams
    <2> QED
        BY <2>1, <2>2, <2>3
<1>8. longer[0] = SubSeq(stream, 1, read + 1)
    BY <1>2, <1>3, <1>6, <1>7
<1>9. FlushedTo(longer, 0)
    BY <1>1 DEF FlushedTo
<1> QED
    BY <1>1, <1>5, <1>6, <1>8, <1>9 DEF Position

\* The next filter is flushed, what it held goes through the later ones.
LEMMA AFilterIsFlushed ==
    ASSUME ChainAssumption,
           NEW stream \in Streams, NEW read \in 0..Len(stream), NEW last \in 0..(Len(Chain) - 1),
           NEW memories \in Memories, NEW out \in Streams,
           Position(stream, read, last, memories, out),
           NEW done,
           done = ProcessFrom(last + 2, memories, FinishOutput(last + 1, memories[last + 1]))
    PROVE  /\ done.held \in Memories
           /\ done.out \in Streams
           /\ Position(stream, read, last + 1, done.held, out \o done.out)
<1>0. PICK index, start : index = last + 1 /\ start = last + 2
    OBVIOUS
<1>1. /\ Len(Chain) \in Nat /\ Stages = 1..Len(Chain)
      /\ index \in Stages /\ index - 1 = last /\ index \in 0..Len(Chain) /\ index - 1 \in 0..Len(Chain)
      /\ start \in 1..(Len(Chain) + 1) /\ start - 1 = index /\ index + 1 = start
    BY <1>0, LenProperties DEF ChainAssumption, Stages
<1>2. PICK streams \in StreamFamilies :
            /\ streams[0] = SubSeq(stream, 1, read)
            /\ FlushedTo(streams, last)
            /\ Follows(streams, index, memories)
            /\ streams[Len(Chain)] = out
    BY <1>0 DEF Position
<1>3. PICK s \in Streams : s = streams[last]
    BY <1>1 DEF StreamFamilies
<1>4. memories[index] = Held(Chain[index], s) /\ streams[index] = Given(Chain[index], s)
    BY <1>1, <1>2, <1>3 DEF Follows
<1>5. PICK frames \in Streams : frames = FinishOutput(index, memories[index])
    BY <1>1, <1>4, FinishCompletes
<1>6. Transformed(Chain[index], s) = streams[index] \o frames
    <2>1. Transformed(Chain[index], s) =
            Given(Chain[index], s) \o FinishOutput(index, Held(Chain[index], s))
        BY <1>1, FinishCompletes
    <2> QED
        BY <1>4, <1>5, <2>1, Zenon
<1>7. done = ProcessFrom(start, memories, frames)
    BY <1>0, <1>5
<1>8. Follows(streams, start, memories)
    BY <1>1, <1>2 DEF Follows
<1>9. /\ done.held \in Memories
      /\ done.out \in Streams
      /\ \E longer \in StreamFamilies : Lengthened(streams, longer, start, frames, done)
    BY <1>1, <1>7, <1>8, ThroughTheChain
<1>10. PICK longer \in StreamFamilies :
            /\ \A i \in 0..Len(Chain) : i < index => longer[i] = streams[i]
            /\ longer[index] = streams[index] \o frames
            /\ Follows(longer, start, done.held)
            /\ longer[Len(Chain)] = out \o done.out
    BY <1>1, <1>2, <1>9 DEF Lengthened
<1>11. longer[0] = SubSeq(stream, 1, read)
    BY <1>1, <1>2, <1>10
<1>12. FlushedTo(longer, index)
    <2> SUFFICES ASSUME NEW i \in Stages, i <= index
                 PROVE  longer[i] = Transformed(Chain[i], longer[i - 1])
        BY DEF FlushedTo
    <2>1. longer[i - 1] = streams[i - 1]
        BY <1>1, <1>10
    <2>2. CASE i = index
        BY <1>1, <1>3, <1>6, <1>10, <2>1, <2>2
    <2>3. CASE i # index
        <3>1. i <= last /\ i < index /\ i \in 0..Len(Chain)
            BY <1>1, <2>3
        <3>2. longer[i] = streams[i]
            BY <1>10, <3>1
        <3>3. streams[i] = Transformed(Chain[i], streams[i - 1])
            BY <1>2, <3>1 DEF FlushedTo
        <3> QED
            BY <2>1, <3>2, <3>3
    <2> QED
        BY <2>2, <2>3
<1>13. Position(stream, read, index, done.held, out \o done.out)
    BY <1>1, <1>10, <1>11, <1>12 DEF Position
<1> QED
    BY <1>0, <1>9, <1>13

BeginsWith(whole, part) == \E more \in Streams : whole = part \o more

LEMMA OutputIsOfTheWholeStream ==
    ASSUME ChainAssumption,
           NEW stream \in Streams, NEW read \in 0..Len(stream), NEW last \in 0..Len(Chain),
           NEW memories, NEW out,
           Position(stream, read, last, memories, out), last > 0 => read = Len(stream)
    PROVE  /\ BeginsWith(Filtered(stream), out)
           /\ last = Len(Chain) /\ read = Len(stream) => Filtered(stream) = out
<1>1. PICK streams \in StreamFamilies :
            /\ streams[0] = SubSeq(stream, 1, read)
            /\ FlushedTo(streams, last)
            /\ Follows(streams, last + 1, memories)
            /\ streams[Len(Chain)] = out
    BY DEF Position
<1>2. /\ \E more \in Streams : Filtered(stream) = streams[Len(Chain)] \o more
      /\ last = Len(Chain) /\ read = Len(stream) => Filtered(stream) = streams[Len(Chain)]
    BY <1>1, OutputIsPrefix
<1> QED
    BY <1>1, <1>2 DEF BeginsWith

LEMMA OutputOfTheRead ==
    ASSUME ChainAssumption,
           NEW stream, NEW read, NEW memories, NEW out,
           Position(stream, read, 0, memories, out)
    PROVE  ProcessFrom(1, NothingHeld, SubSeq(stream, 1, read)).out = out
<1>1. PICK streams \in StreamFamilies :
            /\ streams[0] = SubSeq(stream, 1, read)
            /\ Follows(streams, 1, memories)
            /\ streams[Len(Chain)] = out
    BY DEF Position
<1>2. ProcessFrom(1, NothingHeld, streams[0]).out = streams[Len(Chain)]
    BY <1>1, OutputOfTheFramesRead
<1> QED
    BY <1>1, <1>2

-----------------------------------------------------------------------------
(* The pull side.                                                           *)

SourceTypes ==
    /\ input \in Streams
    /\ pulled \in 0..Len(input)
    /\ held \in Memories
    /\ pending \in Streams
    /\ delivered \in Streams
    /\ flush_index \in 0..Len(Chain)
    /\ source_finished \in BOOLEAN
    /\ pc \in {"idle", "filling", "failed"}
    /\ ended \in BOOLEAN

\* Filters are flushed when the source is at its end, and read_frame returns
\* Ok(false) when all have been.
EndInOrder ==
    /\ flush_index > 0 => source_finished
    /\ source_finished => pulled = Len(input)
    /\ ended => source_finished /\ flush_index = Len(Chain) /\ pending = <<>>

\* The last frame pulled was pulled for a frame that none before it gave.
NothingEarly ==
    pulled > 0 /\ ~source_finished =>
        /\ Len(Produced(pulled - 1)) <= Len(delivered)
        /\ pc = "idle" => Len(Produced(pulled - 1)) < Len(delivered)

SourceInv ==
    /\ SourceTypes
    /\ EndInOrder
    /\ Position(input, pulled, flush_index, held, delivered \o pending)
    /\ NothingEarly

LEMMA InputIsAStream ==
    ASSUME NEW s \in SeqOf(Frames, MaxInput) PROVE s \in Streams
<1>1. PICK m \in 0..MaxInput : s \in [1..m -> Frames]
    BY DEF SeqOf
<1>2. m \in Nat /\ \A k \in 1..m : s[k] \in Outputs
    BY <1>1 DEF Outputs
<1> QED
    BY <1>1, <1>2 DEF Streams

LEMMA SourceStarts == ASSUME ChainAssumption, Init PROVE SourceInv
<1> USE DEF Init
<1>1. input \in Streams /\ <<>> \in Streams /\ Len(Chain) \in Nat /\ Len(input) \in Nat
    BY InputIsAStream, EmptySeq, LenProperties DEF Streams, ChainAssumption
<1>2. SourceTypes
    BY <1>1, NothingRead DEF SourceTypes
<1>3. delivered \o pending = <<>>
    BY <1>1, ConcatEmptySeq DEF Streams
<1>4. Position(input, pulled, flush_index, held, delivered \o pending)
    BY <1>1, <1>3, AtTheStart
<1> QED
    BY <1>1, <1>2, <1>4 DEF SourceInv, EndInOrder, NothingEarly

\* What has come out is exactly what the frames pulled give.
LEMMA ProducedSoFar ==
    ASSUME ChainAssumption, SourceInv, flush_index = 0
    PROVE  Produced(pulled) = delivered \o pending
BY OutputOfTheRead DEF SourceInv, Produced

LEMMA SourceKeeps == ASSUME ChainAssumption, SourceInv, [Next]_vars PROVE SourceInv'
<1> USE DEF SourceInv
<1>0. /\ Len(Chain) \in Nat /\ Stages = 1..Len(Chain) /\ Len(input) \in Nat
      /\ SourceTypes /\ EndInOrder /\ NothingEarly
    BY LenProperties DEF ChainAssumption, Stages, Streams, SourceTypes
<1>1. ASSUME UNCHANGED <<input, pulled, held, source_finished, flush_index, ended>>,
             UNCHANGED <<pending, delivered>>,
             pc' \in {"idle", "filling", "failed"}, pc' = "idle" => pc = "idle"
      PROVE  SourceInv'
    <2>1. SourceTypes' /\ EndInOrder'
        BY <1>0, <1>1 DEF SourceTypes, EndInOrder
    <2>2. Position(input, pulled, flush_index, held, delivered \o pending)'
        BY <1>1
    <2>3. NothingEarly'
        BY <1>0, <1>1 DEF NothingEarly, Produced
    <2> QED
        BY <2>1, <2>2, <2>3
<1>2. CASE ReadFrame
    BY <1>1, <1>2 DEF ReadFrame
<1>3. ASSUME pulled < Len(input), PullFrame(input[pulled + 1])
      PROVE  SourceInv'
    <2> USE DEF SourceIsAsked
    <2>1. PICK done : done = ProcessFrom(1, held, <<input[pulled + 1]>>)
        OBVIOUS
    <2>2. /\ held' = done.held /\ pending' = pending \o done.out
          /\ pulled' = pulled + 1
          /\ UNCHANGED <<input, source_finished, flush_index, pc, delivered, ended>>
          /\ pc = "filling" /\ pending = <<>> /\ ~source_finished
        BY <1>3, <2>1 DEF PullFrame
    <2>3. flush_index = 0 /\ ~ended /\ pulled \in 0..(Len(input) - 1)
        BY <1>0, <1>3, <2>2 DEF SourceTypes, EndInOrder
    <2>4. delivered \o pending = delivered
        BY <1>0, <2>2, ConcatEmptySeq DEF SourceTypes, Streams
    <2>5. /\ done.held \in Memories
          /\ done.out \in Streams
          /\ Position(input, pulled + 1, 0, done.held, delivered \o done.out)
        BY <1>0, <2>1, <2>3, <2>4, AFrameIsRead DEF SourceTypes
    <2>6. pending' = done.out
        BY <2>2, <2>5, ConcatEmptySeq DEF Streams
    <2>7. SourceTypes'
        BY <1>0, <2>2, <2>3, <2>5, <2>6 DEF SourceTypes
    <2>8. EndInOrder'
        BY <1>0, <2>2, <2>3 DEF EndInOrder
    <2>9. Position(input, pulled, flush_index, held, delivered \o pending)'
        BY <2>2, <2>3, <2>5, <2>6
    <2>10. Produced(pulled - 1)' = Produced(pulled)
        <3>1. pulled' - 1 = pulled
            BY <1>0, <2>2 DEF SourceTypes
        <3> QED
            BY <2>2, <3>1 DEF Produced
    <2>11. Produced(pulled) = delivered
        BY <2>3, <2>4, ProducedSoFar
    <2>12. NothingEarly'
        <3>1. Len(Produced(pulled - 1)') = Len(delivered) /\ Len(delivered) \in Nat
            BY <1>0, <2>10, <2>11, LenProperties DEF SourceTypes, Streams
        <3> QED
            BY <2>2, <3>1 DEF NothingEarly
    <2> QED
        BY <2>7, <2>8, <2>9, <2>12
<1>4. ASSUME pulled = Len(input), SourceEnds
      PROVE  SourceInv'
    <2>1. SourceTypes'
        BY <1>0, <1>4 DEF SourceTypes, SourceEnds
    <2>2. EndInOrder'
        BY <1>0, <1>4 DEF SourceTypes, EndInOrder, SourceEnds, SourceIsAsked
    <2>3. Position(input, pulled, flush_index, held, delivered \o pending)'
        BY <1>4 DEF SourceEnds
    <2>4. NothingEarly'
        BY <1>4 DEF SourceEnds, NothingEarly
    <2> QED
        BY <2>1, <2>2, <2>3, <2>4
<1>5. CASE FlushFilter
    <2>1. PICK done :
            done = ProcessFrom(flush_index + 2, held, FinishOutput(flush_index + 1, held[flush_index + 1]))
        OBVIOUS
    <2>2. flush_index \in 0..(Len(Chain) - 1) /\ (flush_index + 1) + 1 = flush_index + 2
        BY <1>0, <1>5 DEF FlushFilter, SourceTypes
    <2>3. /\ held' = done.held /\ pending' = done.out
          /\ flush_index' = flush_index + 1
          /\ UNCHANGED <<input, pulled, source_finished, pc, delivered, ended>>
          /\ pc = "filling" /\ pending = <<>> /\ source_finished
        BY <1>5, <2>1, <2>2 DEF FlushFilter
    <2>4. delivered \o pending = delivered
        BY <1>0, <2>3, ConcatEmptySeq DEF SourceTypes, Streams
    <2>5. /\ done.held \in Memories
          /\ done.out \in Streams
          /\ Position(input, pulled, flush_index + 1, done.held, delivered \o done.out)
        BY <1>0, <2>1, <2>2, <2>4, AFilterIsFlushed DEF SourceTypes
    <2>6. SourceTypes'
        BY <1>0, <2>2, <2>3, <2>5 DEF SourceTypes
    <2>7. EndInOrder'
        BY <1>0, <2>2, <2>3 DEF EndInOrder
    <2>8. Position(input, pulled, flush_index, held, delivered \o pending)'
        BY <2>3, <2>5
    <2>9. NothingEarly'
        BY <2>3 DEF NothingEarly
    <2> QED
        BY <2>6, <2>7, <2>8, <2>9
<1>6. CASE Deliver
    <2>1. /\ pending # <<>> /\ pc = "filling" /\ pc' = "idle"
          /\ delivered' = Append(delivered, Head(pending)) /\ pending' = Tail(pending)
          /\ UNCHANGED <<input, pulled, held, source_finished, flush_index, ended>>
        BY <1>6 DEF Deliver
    <2>2. PICK one \in Streams, rest \in Streams :
            one = <<Head(pending)>> /\ rest = Tail(pending) /\ one \o rest = pending
        BY <1>0, <2>1, HeadThenTail DEF SourceTypes
    <2>3. delivered' \in Streams /\ Len(delivered') = Len(delivered) + 1 /\ delivered' = delivered \o one
        <3>1. Head(pending) \in Outputs
            BY <1>0, <2>1, HeadThenTail DEF SourceTypes
        <3> QED
            BY <1>0, <2>1, <2>2, <3>1, AppendProperties, AppendIsConcat DEF SourceTypes, Streams
    <2>4. delivered' \o pending' = delivered \o pending
        <3>1. (delivered \o one) \o rest = delivered \o (one \o rest)
            BY <1>0, ConcatenationAssociates DEF SourceTypes
        <3> QED
            BY <2>1, <2>2, <2>3, <3>1
    <2>5. SourceTypes'
        BY <1>0, <2>1, <2>2, <2>3 DEF SourceTypes
    <2>6. EndInOrder'
        BY <1>0, <2>1 DEF EndInOrder
    <2>7. Position(input, pulled, flush_index, held, delivered \o pending)'
        BY <2>1, <2>4
    <2>8. Len(delivered) \in Nat
        BY <1>0, LenProperties DEF SourceTypes, Streams
    <2>9. Produced(pulled - 1)' = Produced(pulled - 1)
        BY <2>1 DEF Produced
    <2>10. NothingEarly'
        <3> SUFFICES ASSUME pulled > 0, ~source_finished
                     PROVE  Len(Produced(pulled - 1)) < Len(delivered')
            BY <2>1, <2>9 DEF NothingEarly
        <3>1. Len(Produced(pulled - 1)) <= Len(delivered)
            BY <1>0 DEF NothingEarly
        <3> QED
            BY <2>3, <2>8, <3>1
    <2> QED
        BY <2>5, <2>6, <2>7, <2>10
<1>7. CASE ReturnEnd
    <2>1. SourceTypes'
        BY <1>0, <1>7 DEF SourceTypes, ReturnEnd
    <2>2. EndInOrder'
        BY <1>0, <1>7 DEF SourceTypes, EndInOrder, ReturnEnd
    <2>3. Position(input, pulled, flush_index, held, delivered \o pending)'
        BY <1>7 DEF ReturnEnd
    <2>4. NothingEarly'
        BY <1>7 DEF ReturnEnd, NothingEarly
    <2> QED
        BY <2>1, <2>2, <2>3, <2>4
<1>8. CASE FillFails
    BY <1>1, <1>8 DEF FillFails
<1>9. CASE UNCHANGED vars
    BY <1>0, <1>1, <1>9 DEF vars, SourceTypes
<1> QED
    BY <1>2, <1>3, <1>4, <1>5, <1>6, <1>7, <1>8, <1>9 DEF Next, FillStep, FilterStep

\* The frames handed out are those the filters make of the whole input stream.
LEMMA SourceDelivers == ASSUME ChainAssumption, SourceInv PROVE DeliversFiltered
<1>1. /\ SourceTypes /\ EndInOrder
      /\ Position(input, pulled, flush_index, held, delivered \o pending)
      /\ flush_index > 0 => pulled = Len(input)
    BY DEF SourceInv, EndInOrder
<1>2. /\ \E more \in Streams : Filtered(input) = (delivered \o pending) \o more
      /\ flush_index = Len(Chain) /\ pulled = Len(input) => Filtered(input) = delivered \o pending
    <2>1. PICK out \in Streams : out = delivered \o pending
        BY <1>1, StreamsConcatenate DEF SourceTypes
    <2>2. /\ BeginsWith(Filtered(input), out)
          /\ flush_index = Len(Chain) /\ pulled = Len(input) => Filtered(input) = out
        BY <1>1, <2>1, OutputIsOfTheWholeStream DEF SourceTypes
    <2> QED
        BY <2>1, <2>2 DEF BeginsWith
<1>3. IsPrefix(delivered, Filtered(input))
    <2>1. PICK more \in Streams : Filtered(input) = (delivered \o pending) \o more
        BY <1>2
    <2>2. delivered \in Streams /\ pending \in Streams
        BY <1>1 DEF SourceTypes
    <2>3. Filtered(input) = delivered \o (pending \o more)
        BY <2>1, <2>2, ConcatenationAssociates
    <2>4. PICK rest \in Streams : rest = pending \o more
        BY <2>2, StreamsConcatenate
    <2> QED
        BY <2>2, <2>3, <2>4, PrefixOfConcatenation
<1>4. ASSUME ended PROVE delivered = Filtered(input)
    <2>1. flush_index = Len(Chain) /\ pulled = Len(input) /\ pending = <<>>
        BY <1>1, <1>4 DEF EndInOrder
    <2> QED
        BY <1>1, <1>2, <2>1, ConcatEmptySeq DEF SourceTypes, Streams
<1> QED
    BY <1>3, <1>4 DEF DeliversFiltered

\* Between two reads as many frames have been pulled as the frames handed out
\* required.
LEMMA SourcePullsOnDemand == ASSUME ChainAssumption, SourceInv PROVE PullsOnDemand
<1>1. SourceTypes /\ EndInOrder /\ NothingEarly
    BY DEF SourceInv
<1>2. ASSUME ~source_finished PROVE Len(Produced(pulled)) = Len(delivered) + Len(pending)
    <2>1. flush_index = 0
        BY <1>1, <1>2 DEF SourceTypes, EndInOrder
    <2>2. Produced(pulled) = delivered \o pending
        BY <2>1, ProducedSoFar
    <2> QED
        BY <1>1, <2>2, ConcatProperties DEF SourceTypes, Streams
<1> QED
    BY <1>1, <1>2 DEF PullsOnDemand, NothingEarly

LEMMA SourceInvariance == Spec => []SourceInv
<1>1. Init => SourceInv
    BY SourceStarts, ChainAssumption
<1>2. SourceInv /\ [Next]_vars => SourceInv'
    BY SourceKeeps, ChainAssumption
<1> QED
    BY <1>1, <1>2, PTL DEF Spec

\* FilteredRawVideoFrameSource hands out what the chain of filters makes of the
\* stream, all of it by the time it reports the end, whatever the chain.
THEOREM SourceDeliversTheStream == Spec => []DeliversFiltered
<1>1. SourceInv => DeliversFiltered
    BY SourceDelivers, ChainAssumption
<1> QED
    BY <1>1, SourceInvariance, PTL

\* No read pulls a frame from the source that the frames handed out did not
\* require.
THEOREM SourceReadsOnDemand == Spec => []PullsOnDemand
<1>1. SourceInv => PullsOnDemand
    BY SourcePullsOnDemand, ChainAssumption
<1> QED
    BY <1>1, SourceInvariance, PTL

-----------------------------------------------------------------------------
(* The push side.                                                           *)

PipelineTypes ==
    /\ input \in Streams
    /\ pulled \in 0..Len(input)
    /\ held \in Memories
    /\ flushed \in 0..Len(Chain)
    /\ batch \in Streams
    /\ encoder \in Streams
    /\ counted \in Nat
    /\ inBatch \in Nat
    /\ sink \in Streams
    /\ pc \in {"pull", "flush", "drain", "finish", "ok", "error"}

\* What the stages of the pipeline leave behind them.
StagesInOrder ==
    /\ flushed > 0 => pulled = Len(input)
    /\ pc = "pull" => flushed = 0
    /\ pc \in {"flush", "drain", "finish", "ok"} => pulled = Len(input)
    /\ pc \in {"drain", "finish", "ok"} => flushed = Len(Chain) /\ batch = <<>> /\ inBatch = 0
    /\ pc \in {"finish", "ok"} => encoder = <<>>
    /\ ~Encodes => encoder = <<>>
    /\ finished = IF pc = "ok" THEN 1 ELSE 0

\* A frame that came out of the last filter is in the sink, in the encoder or in
\* the batch, and counted or about to be.
PipelineInv ==
    /\ PipelineTypes
    /\ StagesInOrder
    /\ Position(input, pulled, flushed, held, sink \o (encoder \o batch))
    /\ counted + inBatch = Len(sink) + Len(encoder) + Len(batch)

LEMMA LengthsAdd ==
    ASSUME NEW a \in Streams, NEW b \in Streams
    PROVE  Len(a) \in Nat /\ Len(b) \in Nat /\ Len(a \o b) = Len(a) + Len(b)
BY ConcatProperties, LenProperties DEF Streams

LEMMA NothingAdds ==
    /\ <<>> \in Streams /\ Len(<<>>) = 0
    /\ \A a \in Streams : a \o <<>> = a /\ <<>> \o a = a
BY EmptySeq, ConcatEmptySeq DEF Streams

LEMMA PipelineStarts == ASSUME ChainAssumption, PipelineInit PROVE PipelineInv
<1> USE DEF PipelineInit
<1>1. input \in Streams /\ Len(Chain) \in Nat /\ Len(input) \in Nat
    BY InputIsAStream, LenProperties DEF Streams, ChainAssumption, SeqOf
<1>2. held = NothingHeld
    OBVIOUS
<1>3. PipelineTypes
    BY <1>1, <1>2, NothingRead, NothingAdds DEF PipelineTypes
<1>4. sink \o (encoder \o batch) = <<>>
    BY NothingAdds
<1>5. Position(input, pulled, flushed, held, sink \o (encoder \o batch))
    BY <1>1, <1>2, <1>4, AtTheStart
<1>6. counted + inBatch = Len(sink) + Len(encoder) + Len(batch)
    BY NothingAdds
<1> QED
    BY <1>1, <1>3, <1>5, <1>6 DEF PipelineInv, StagesInOrder

LEMMA PipelineStep ==
    ASSUME ChainAssumption, PipelineInv, [PipelineNext]_pipelineVars
    PROVE  PipelineInv'
<1> USE DEF Through
<1>0. /\ Len(Chain) \in Nat /\ Len(input) \in Nat
      /\ PipelineTypes /\ StagesInOrder
      /\ Position(input, pulled, flushed, held, sink \o (encoder \o batch))
      /\ counted + inBatch = Len(sink) + Len(encoder) + Len(batch)
    BY LenProperties DEF ChainAssumption, Streams, PipelineInv, PipelineTypes
<1>1. /\ sink \in Streams /\ encoder \in Streams /\ batch \in Streams
      /\ Len(sink) \in Nat /\ Len(encoder) \in Nat /\ Len(batch) \in Nat
      /\ \E out \in Streams : out = sink \o (encoder \o batch)
    <2>1. sink \in Streams /\ encoder \in Streams /\ batch \in Streams
        BY <1>0 DEF PipelineTypes
    <2>2. encoder \o batch \in Streams
        BY <2>1, StreamsConcatenate
    <2> QED
        BY <2>1, <2>2, StreamsConcatenate, LengthsAdd
\* When the batch is through, what the filters make of the next one comes behind.
<1>2. ASSUME batch = <<>>, inBatch = 0, NEW more \in Streams,
             batch' = more, inBatch' = Len(more), UNCHANGED <<sink, encoder, counted>>
      PROVE  /\ (sink \o (encoder \o batch)) \o more = sink' \o (encoder' \o batch')
             /\ counted' + inBatch' = Len(sink') + Len(encoder') + Len(batch')
             /\ inBatch' \in Nat
    <2>1. (sink \o (encoder \o batch)) \o more = sink' \o (encoder' \o batch')
        <3>1. encoder \o batch = encoder
            BY <1>1, <1>2, NothingAdds
        <3>2. (sink \o encoder) \o more = sink \o (encoder \o more)
            BY <1>1, ConcatenationAssociates
        <3> QED
            BY <1>2, <3>1, <3>2
    <2>2. Len(more) \in Nat /\ Len(batch) = 0
        BY <1>2, LengthsAdd, NothingAdds
    <2>3. counted = Len(sink) + Len(encoder)
        BY <1>0, <1>1, <1>2, <2>2 DEF PipelineTypes
    <2> QED
        BY <1>1, <1>2, <2>1, <2>2, <2>3
<1>3. ASSUME UNCHANGED <<input, pulled, held, flushed, batch, encoder, counted, inBatch, sink>>,
             PipelineTypes', StagesInOrder'
      PROVE  PipelineInv'
    <2>1. Position(input, pulled, flushed, held, sink \o (encoder \o batch))'
        BY <1>0, <1>3
    <2> QED
        BY <1>0, <1>3, <2>1 DEF PipelineInv
<1>4. CASE Pull
    <2>1. PICK done : done = ProcessFrom(1, held, <<input[pulled + 1]>>)
        OBVIOUS
    <2>2. /\ pc = "pull" /\ batch = <<>> /\ inBatch = 0
          /\ held' = done.held /\ batch' = done.out /\ inBatch' = Len(done.out)
          /\ pulled' = pulled + 1
          /\ UNCHANGED <<input, flushed, encoder, counted, sink, finished, pc>>
        BY <1>4, <2>1 DEF Pull
    <2>3. flushed = 0 /\ pulled \in 0..(Len(input) - 1)
        BY <1>0, <1>4, <2>2 DEF PipelineTypes, StagesInOrder, Pull
    <2>4. PICK out \in Streams : out = sink \o (encoder \o batch)
        BY <1>1
    <2>5. /\ done.held \in Memories
          /\ done.out \in Streams
          /\ Position(input, pulled + 1, 0, done.held, out \o done.out)
        BY <1>0, <2>1, <2>3, <2>4, AFrameIsRead DEF PipelineTypes
    <2>6. /\ out \o done.out = sink' \o (encoder' \o batch')
          /\ counted' + inBatch' = Len(sink') + Len(encoder') + Len(batch')
          /\ inBatch' \in Nat
        BY <1>2, <2>2, <2>4, <2>5
    <2>7. PipelineTypes'
        BY <1>0, <2>2, <2>3, <2>5, <2>6 DEF PipelineTypes
    <2>8. StagesInOrder'
        BY <1>0, <2>2, <2>3 DEF StagesInOrder
    <2>9. Position(input, pulled, flushed, held, sink \o (encoder \o batch))'
        BY <2>2, <2>3, <2>5, <2>6
    <2> QED
        BY <2>6, <2>7, <2>8, <2>9 DEF PipelineInv
<1>5. CASE InputEnds
    <2>1. PipelineTypes' /\ StagesInOrder'
        BY <1>0, <1>5 DEF InputEnds, PipelineTypes, StagesInOrder
    <2> QED
        BY <1>3, <1>5, <2>1 DEF InputEnds
<1>6. CASE FlushStage
    <2>1. PICK done :
            done = ProcessFrom(flushed + 2, held, FinishOutput(flushed + 1, held[flushed + 1]))
        OBVIOUS
    <2>2. flushed \in 0..(Len(Chain) - 1) /\ (flushed + 1) + 1 = flushed + 2
        BY <1>0, <1>6 DEF FlushStage, PipelineTypes
    <2>3. /\ pc = "flush" /\ batch = <<>> /\ inBatch = 0
          /\ held' = done.held /\ batch' = done.out /\ inBatch' = Len(done.out)
          /\ flushed' = flushed + 1
          /\ UNCHANGED <<input, pulled, encoder, counted, sink, finished, pc>>
        BY <1>6, <2>1, <2>2 DEF FlushStage
    <2>4. PICK out \in Streams : out = sink \o (encoder \o batch)
        BY <1>1
    <2>5. /\ done.held \in Memories
          /\ done.out \in Streams
          /\ Position(input, pulled, flushed + 1, done.held, out \o done.out)
        BY <1>0, <2>1, <2>2, <2>4, AFilterIsFlushed DEF PipelineTypes
    <2>6. /\ out \o done.out = sink' \o (encoder' \o batch')
          /\ counted' + inBatch' = Len(sink') + Len(encoder') + Len(batch')
          /\ inBatch' \in Nat
        BY <1>2, <2>3, <2>4, <2>5
    <2>7. PipelineTypes'
        BY <1>0, <2>2, <2>3, <2>5, <2>6 DEF PipelineTypes
    <2>8. StagesInOrder'
        BY <1>0, <2>2, <2>3 DEF StagesInOrder
    <2>9. Position(input, pulled, flushed, held, sink \o (encoder \o batch))'
        BY <2>3, <2>5, <2>6
    <2> QED
        BY <2>6, <2>7, <2>8, <2>9 DEF PipelineInv
<1>7. CASE FiltersFlushed
    <2>1. PipelineTypes' /\ StagesInOrder'
        BY <1>0, <1>7 DEF FiltersFlushed, PipelineTypes, StagesInOrder
    <2> QED
        BY <1>3, <1>7, <2>1 DEF FiltersFlushed
<1>8. CASE PushFrame
    <2>1. /\ pc \in {"pull", "flush"} /\ batch # <<>>
          /\ batch' = Tail(batch)
          /\ IF Encodes
             THEN sink' = sink \o encoder /\ encoder' = <<Head(batch)>>
             ELSE sink' = Append(sink, Head(batch)) /\ encoder' = encoder
          /\ UNCHANGED <<input, pulled, held, flushed, counted, inBatch, finished, pc>>
        BY <1>8 DEF PushFrame
    <2>2. PICK one \in Streams, rest \in Streams :
            /\ one = <<Head(batch)>> /\ rest = Tail(batch) /\ one \o rest = batch
            /\ Len(batch) = Len(rest) + 1 /\ Len(one) = 1
        BY <1>1, <2>1, HeadThenTail
    <2>3. /\ sink' \in Streams /\ encoder' \in Streams
          /\ sink' \o encoder' = (sink \o encoder) \o one
          /\ Len(sink') + Len(encoder') = Len(sink) + Len(encoder) + 1
          /\ ~Encodes => encoder' = <<>>
        <3>1. CASE Encodes
            <4>1. sink' = sink \o encoder /\ encoder' = one
                BY <2>1, <2>2, <3>1
            <4>2. sink' \in Streams /\ Len(sink') = Len(sink) + Len(encoder)
                BY <1>1, <4>1, StreamsConcatenate, LengthsAdd
            <4> QED
                BY <1>1, <2>2, <3>1, <4>1, <4>2
        <3>2. CASE ~Encodes
            <4>1. encoder = <<>> /\ encoder' = <<>>
                BY <1>0, <2>1, <3>2 DEF StagesInOrder
            <4>2. sink' = sink \o one
                <5>1. Head(batch) \in Outputs
                    BY <1>1, <2>1, HeadThenTail
                <5> QED
                    BY <1>1, <2>1, <2>2, <3>2, <5>1, AppendIsConcat DEF Streams
            <4>3. sink' \in Streams /\ Len(sink') = Len(sink) + 1
                BY <1>1, <2>2, <4>2, StreamsConcatenate, LengthsAdd
            <4>4. sink' \o encoder' = sink' /\ sink \o encoder = sink /\ Len(encoder') = 0 /\ Len(encoder) = 0
                BY <1>1, <4>1, <4>3, NothingAdds
            <4> QED
                BY <1>1, <4>1, <4>2, <4>3, <4>4
        <3> QED
            BY <3>1, <3>2
    <2>4. sink' \o (encoder' \o batch') = sink \o (encoder \o batch)
        <3>1. sink' \o (encoder' \o rest) = (sink' \o encoder') \o rest
            BY <2>2, <2>3, ConcatenationAssociates
        <3>2. PICK before \in Streams : before = sink \o encoder
            BY <1>1, StreamsConcatenate
        <3>3. (before \o one) \o rest = before \o (one \o rest)
            BY ConcatenationAssociates
        <3>4. (sink \o encoder) \o batch = sink \o (encoder \o batch)
            BY <1>1, ConcatenationAssociates
        <3> QED
            BY <2>1, <2>2, <2>3, <3>1, <3>2, <3>3, <3>4
    <2>5. PipelineTypes'
        BY <1>0, <2>1, <2>2, <2>3 DEF PipelineTypes
    <2>6. StagesInOrder'
        BY <1>0, <2>1, <2>3 DEF StagesInOrder
    <2>7. Position(input, pulled, flushed, held, sink \o (encoder \o batch))'
        BY <1>0, <2>1, <2>4
    <2>8. counted' + inBatch' = Len(sink') + Len(encoder') + Len(batch')
        <3>1. Len(sink') \in Nat /\ Len(encoder') \in Nat /\ Len(rest) \in Nat
            BY <2>2, <2>3, LengthsAdd
        <3>2. counted' + inBatch' = Len(sink) + Len(encoder) + Len(batch)
            BY <1>0, <2>1
        <3>3. batch' = rest /\ Len(batch) = Len(rest) + 1
            BY <2>1, <2>2
        <3>4. Len(sink') + Len(encoder') = Len(sink) + Len(encoder) + 1
            BY <2>3
        <3>5. Len(sink') + Len(encoder') + Len(rest) = Len(sink) + Len(encoder) + Len(batch)
            <4>1. Len(sink) \in Nat /\ Len(encoder) \in Nat /\ Len(batch) = Len(rest) + 1
                BY <1>1, <3>3
            <4> QED
                BY <3>1, <3>4, <4>1
        <3> QED
            BY <3>2, <3>3, <3>5
    <2> QED
        BY <2>5, <2>6, <2>7, <2>8 DEF PipelineInv
<1>9. CASE BatchDone
    <2> USE DEF BatchDone, CountBatch
    <2>1. PipelineTypes' /\ StagesInOrder'
        BY <1>0, <1>9 DEF PipelineTypes, StagesInOrder
    <2>2. counted' + inBatch' = Len(sink') + Len(encoder') + Len(batch')
        BY <1>0, <1>9 DEF PipelineTypes
    <2>3. Position(input, pulled, flushed, held, sink \o (encoder \o batch))'
        BY <1>0, <1>9
    <2> QED
        BY <2>1, <2>2, <2>3 DEF PipelineInv
<1>10. CASE DrainEncoder
    <2> USE DEF DrainEncoder
    <2>1. batch = <<>> /\ encoder' = <<>> /\ sink' = sink \o encoder /\ batch' = batch
        BY <1>0, <1>10 DEF StagesInOrder
    <2>2. sink' \in Streams /\ Len(sink') = Len(sink) + Len(encoder)
        BY <1>1, <2>1, StreamsConcatenate, LengthsAdd
    <2>3. PipelineTypes' /\ StagesInOrder'
        BY <1>0, <1>10, <2>2, NothingAdds DEF PipelineTypes, StagesInOrder
    <2>4. sink' \o (encoder' \o batch') = sink \o (encoder \o batch)
        <3>1. encoder \o batch = encoder /\ encoder' \o batch' = <<>>
            BY <1>1, <2>1, NothingAdds
        <3> QED
            BY <2>1, <2>2, <3>1, NothingAdds
    <2>5. counted' + inBatch' = Len(sink') + Len(encoder') + Len(batch')
        BY <1>0, <1>1, <1>10, <2>1, <2>2, NothingAdds
    <2>6. Position(input, pulled, flushed, held, sink \o (encoder \o batch))'
        BY <1>0, <1>10, <2>4
    <2> QED
        BY <2>3, <2>5, <2>6 DEF PipelineInv
<1>11. CASE FinishSink
    <2>1. PipelineTypes' /\ StagesInOrder'
        BY <1>0, <1>11 DEF FinishSink, PipelineTypes, StagesInOrder
    <2> QED
        BY <1>3, <1>11, <2>1 DEF FinishSink
<1>12. CASE StageFails
    <2>1. PipelineTypes' /\ StagesInOrder'
        BY <1>0, <1>12 DEF StageFails, PipelineTypes, StagesInOrder
    <2> QED
        BY <1>3, <1>12, <2>1 DEF StageFails
<1>13. CASE UNCHANGED pipelineVars
    <2>1. PipelineTypes' /\ StagesInOrder'
        BY <1>0, <1>13 DEF pipelineVars, PipelineTypes, StagesInOrder
    <2> QED
        BY <1>3, <1>13, <2>1 DEF pipelineVars
<1> QED
    BY <1>4, <1>5, <1>6, <1>7, <1>8, <1>9, <1>10, <1>11, <1>12, <1>13 DEF PipelineNext, Progress

LEMMA PipelineCompletes == ASSUME ChainAssumption, PipelineInv PROVE OkIsComplete
<1>0. /\ PipelineTypes /\ StagesInOrder
      /\ Position(input, pulled, flushed, held, sink \o (encoder \o batch))
      /\ counted + inBatch = Len(sink) + Len(encoder) + Len(batch)
      /\ sink \in Streams /\ encoder \in Streams /\ batch \in Streams
    BY DEF PipelineInv, PipelineTypes
<1>1. PICK rest \in Streams, out \in Streams : rest = encoder \o batch /\ out = sink \o rest
    <2>1. encoder \o batch \in Streams
        BY <1>0, StreamsConcatenate
    <2> QED
        BY <1>0, <2>1, StreamsConcatenate
<1>2. /\ BeginsWith(Filtered(input), out)
      /\ flushed = Len(Chain) /\ pulled = Len(input) => Filtered(input) = out
    BY <1>0, <1>1, OutputIsOfTheWholeStream DEF PipelineTypes, StagesInOrder
<1>3. IsPrefix(sink, Filtered(input))
    <2>1. PICK more \in Streams : Filtered(input) = out \o more
        BY <1>2 DEF BeginsWith
    <2>2. Filtered(input) = sink \o (rest \o more)
        <3>1. (sink \o rest) \o more = sink \o (rest \o more)
            BY <1>0, ConcatenationAssociates
        <3> QED
            BY <1>1, <2>1, <3>1
    <2>3. PICK end \in Streams : end = rest \o more
        BY StreamsConcatenate
    <2> QED
        BY <1>0, <2>2, <2>3, PrefixOfConcatenation
<1>4. ASSUME pc = "ok"
      PROVE  sink = Filtered(input) /\ pulled = Len(input) /\ counted = Len(sink)
    <2>1. /\ flushed = Len(Chain) /\ pulled = Len(input)
          /\ encoder = <<>> /\ batch = <<>> /\ inBatch = 0
        BY <1>0, <1>4 DEF StagesInOrder
    <2>2. out = sink
        BY <1>0, <1>1, <2>1, NothingAdds
    <2>3. counted = Len(sink)
        BY <1>0, <2>1, NothingAdds, LengthsAdd DEF PipelineTypes
    <2> QED
        BY <1>2, <2>1, <2>2, <2>3
<1> QED
    BY <1>0, <1>3, <1>4 DEF OkIsComplete, StagesInOrder

\* A pipeline that returns Ok has pushed what the filters make of the whole
\* stream, counted it and finished the sink once, whatever the chain and with an
\* encoder behind it or not.
THEOREM OkMeansFiltered == PipelineSpec => []OkIsComplete
<1>1. PipelineInit => PipelineInv
    BY PipelineStarts, ChainAssumption
<1>2. PipelineInv /\ [PipelineNext]_pipelineVars => PipelineInv'
    BY PipelineStep, ChainAssumption
<1>3. PipelineInv => OkIsComplete
    BY PipelineCompletes, ChainAssumption
<1> QED
    BY <1>1, <1>2, <1>3, PTL DEF PipelineSpec
=============================================================================

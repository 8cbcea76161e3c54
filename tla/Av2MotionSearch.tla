-------------------------- MODULE Av2MotionSearch --------------------------
(***************************************************************************)
(* The block motion search of AV2 inter pictures (av2/inter/motion.rs):    *)
(* which vector one 8x8 block gets from the vectors found so far, from a   *)
(* search around them and from an index of the reference by hash.  Hashes  *)
(* only reject: every candidate is confirmed by comparing the blocks.      *)
(*                                                                         *)
(* Blocks are pairs <<row, column>>, vectors differences of them.  The     *)
(* cache of reference hashes and the statistics are left out.              *)
(***************************************************************************)
EXTENDS Integers, Sequences, FiniteSets

CONSTANTS
    Rows, Cols,     \* the picture in blocks
    HashOf,         \* hash_region, by block content
    SearchSteps,    \* AV2_LOSSLESS_ME_SEARCH_BLOCK_STEPS
    BucketLimit     \* AV2_LOSSLESS_ME_HASH_BUCKET_LIMIT

MotionAssumption ==
    /\ Rows \in Nat \ {0} /\ Cols \in Nat \ {0}
    /\ SearchSteps \in Seq(Nat \ {0})
    /\ BucketLimit \in Nat
ASSUME MotionAssumption

Grid == (0..Rows - 1) \X (0..Cols - 1)
Plus(b, v) == <<b[1] + v[1], b[2] + v[2]>>
Minus(c, b) == <<c[1] - b[1], c[2] - b[2]>>

ZeroVector == <<0, 0>>
NoVector == <<>>        \* None: the block has no match

\* motion_predictor_candidates: zero, then the vectors of the left, above,
\* above-left and above-right block.
Predictors(b, found) ==
    LET from(n) == IF Plus(b, n) \in Grid /\ found[Plus(b, n)] # NoVector
                   THEN <<found[Plus(b, n)]>> ELSE <<>>
    IN  <<ZeroVector>> \o from(<<0, -1>>) \o from(<<-1, 0>>) \o from(<<-1, -1>>) \o from(<<-1, 1>>)

Directions == << <<-1, 0>>, <<0, -1>>, <<0, 1>>, <<1, 0>>,
                 <<-1, -1>>, <<-1, 1>>, <<1, -1>>, <<1, 1>> >>

\* append_local_motion_candidates: eight directions at each step around each
\* predictor.  Repeated candidates are harmless and not removed.
Around(vectors) ==
    LET steps == Len(SearchSteps)
    IN  [i \in 1 .. 8 * steps * Len(vectors) |->
            LET step == SearchSteps[(((i - 1) \div 8) % steps) + 1]
                d == Directions[((i - 1) % 8) + 1]
            IN  Plus(vectors[((i - 1) \div (8 * steps)) + 1], <<step * d[1], step * d[2]>>)]

\* The hash rejects first, then regions_equal_between decides.
Matches(frame, b, ref, c) == HashOf[frame[b]] = HashOf[ref[c]] /\ frame[b] = ref[c]

\* select_first_exact_candidate
FirstExact(frame, b, ref, vectors) ==
    LET exact == {i \in DOMAIN vectors : LET c == Plus(b, vectors[i])
                                         IN  c \in Grid /\ Matches(frame, b, ref, c)}
    IN  IF exact = {} THEN NoVector
        ELSE vectors[CHOOSE i \in exact : \A j \in exact : i <= j]

Magnitude(n) == IF n < 0 THEN -n ELSE n

\* The order of hash_index_candidate: fallback_motion_cost, then the vector.
Before(v, w) ==
    LET cost(u) == Magnitude(u[1]) + Magnitude(u[2])
    IN  \/ cost(v) < cost(w)
        \/ cost(v) = cost(w) /\ (v[1] < w[1] \/ (v[1] = w[1] /\ v[2] < w[2]))

Bucket(ref, hash) == {c \in Grid : HashOf[ref[c]] = hash}

\* hash_index_candidate over build_reference_hash_index: the cheapest vector
\* not tested before, unless too many blocks share the hash.
FromIndex(frame, b, ref, tested) ==
    LET bucket == Bucket(ref, HashOf[frame[b]])
        fits == {Minus(c, b) : c \in {d \in bucket : Matches(frame, b, ref, d)}}
                \ {tested[i] : i \in DOMAIN tested}
    IN  IF Cardinality(bucket) > BucketLimit \/ fits = {} THEN NoVector
        ELSE CHOOSE v \in fits : \A w \in fits \ {v} : Before(v, w)

\* One turn of build_lossless_motion_map_with_regions: predictors, then the
\* index if it was built for an earlier block, then the local search, then an
\* index built now.  Returns the vector and whether the index exists.
SearchStep(frame, b, ref, found, indexed) ==
    LET predictors == Predictors(b, found)
        local == Around(predictors)
        predicted == FirstExact(frame, b, ref, predictors)
        early == IF indexed THEN FromIndex(frame, b, ref, predictors) ELSE NoVector
        near == FirstExact(frame, b, ref, local)
        late == IF indexed THEN NoVector ELSE FromIndex(frame, b, ref, predictors \o local)
    IN  IF predicted # NoVector THEN [vector |-> predicted, indexed |-> indexed]
        ELSE IF early # NoVector THEN [vector |-> early, indexed |-> indexed]
        ELSE IF near # NoVector THEN [vector |-> near, indexed |-> indexed]
        ELSE [vector |-> late, indexed |-> TRUE]
=============================================================================

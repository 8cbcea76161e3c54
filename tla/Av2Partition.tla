---------------------------- MODULE Av2Partition ----------------------------
(***************************************************************************)
(* The binary partition tree of an AV2 tile (av2/tile/partitions.rs,       *)
(* block_layout.rs, tile_payload.rs): which splits a block allows, the one *)
(* the border of the tile forces, the one each policy chooses, and the     *)
(* symbols that signal it.                                                 *)
(*                                                                         *)
(* A block is [row, col, w, h]: its position in units of 4 samples, its    *)
(* size in samples.  A region is [rows, cols], in the same units.          *)
(***************************************************************************)
EXTENDS Integers, Sequences, FiniteSets, SequencesExt, FiniteSetsExt

Leaf == 8                       \* MVP_LEAF_BLOCK_SIZE
Superblock == 64                \* MVP_SUPERBLOCK_SIZE
SuperblockRows == 16            \* PARTITION_CONTEXT_DIM
AdaptiveLeaf == 64              \* AV2_SCREEN_ADAPTIVE_LEAF_SIZE
AdaptiveBase == 16              \* AV2_SCREEN_ADAPTIVE_BASE_LEAF_SIZE

Root(row, col) == [row |-> row, col |-> col, w |-> Superblock, h |-> Superblock]
Rows(n) == n.h \div 4
Cols(n) == n.w \div 4
InRegion(n, r) == n.row < r.rows /\ n.col < r.cols

\* subsize and the positions of the two halves
Supported(w, h) == {w, h} \subseteq {8, 16, 32, 64}
HalfSize(n, split) ==
    IF split = "horz" THEN <<n.w, n.h \div 2>> ELSE <<n.w \div 2, n.h>>
Halves(n, split) ==
    LET size == HalfSize(n, split)
        first == [n EXCEPT !.w = size[1], !.h = size[2]]
    IN  <<first, IF split = "horz" THEN [first EXCEPT !.row = @ + Rows(n) \div 2]
                 ELSE [first EXCEPT !.col = @ + Cols(n) \div 2]>>

\* is_partition_point
IsPoint(n) == {n.w, n.h} # {8, 64}

\* rect_type_implied_by_bsize
Implied(n) ==
    CASE n.h = 4 * n.w \/ n.h = 8 * n.w -> {"horz"}
      [] n.w = 4 * n.h \/ n.w = 8 * n.h -> {"vert"}
      [] OTHER -> {}

\* partition_aspect_allowed of the halves, the others being supported sizes
Squat(size) == size[1] <= 8 * size[2] /\ size[2] <= 8 * size[1]

\* allowed_partitions, where half of a block in each direction is what it must
\* have inside the region to be coded whole.
Allowed(n, r) ==
    LET halfInside == n.row + Rows(n) \div 2 < r.rows /\ n.col + Cols(n) \div 2 < r.cols
        split(s) == IsPoint(n) /\ Implied(n) \subseteq {s} /\ Squat(HalfSize(n, s))
        found == {s \in {"horz", "vert"} : split(s)} \cup (IF halfInside THEN {"none"} ELSE {})
    IN  IF found = {} THEN {"none"} ELSE found

\* forced_boundary_partition: what a block that crosses the border is split into.
Forced(n, r) ==
    LET hasRows == n.row + Rows(n) \div 2 < r.rows
        hasCols == n.col + Cols(n) \div 2 < r.cols
        quarterRow == n.row + Rows(n) \div 4 < r.rows
        quarterCol == n.col + Cols(n) \div 4 < r.cols
    IN  CASE ~IsPoint(n) -> {"none"}
          [] hasRows /\ hasCols -> {}
          [] n.w = n.h -> {IF hasRows THEN "vert" ELSE "horz"}
          [] n.h > n.w -> IF ~hasRows \/ (Cols(n) >= 4 /\ ~quarterCol) THEN {"horz"} ELSE {}
          [] n.w > n.h -> IF ~hasCols \/ (Rows(n) >= 4 /\ ~quarterRow) THEN {"vert"} ELSE {}

\* What the border leaves no choice about, and what write_partition is silent about.
Settled(n, r) ==
    LET allowed == Allowed(n, r)
        forced == Forced(n, r) \cap allowed
    IN  IF forced # {} THEN forced ELSE IF Cardinality(allowed) = 1 THEN allowed ELSE {}

TheOne(set) == CHOOSE s \in set : TRUE

\* The order in which the splits of a block are tried: across its longer side
\* first; a split is taken if it is allowed and its side exceeds the size.
Order(n) == IF n.w > n.h THEN <<"vert", "horz">> ELSE <<"horz", "vert">>
Halve(n, allowed, size) ==
    LET longer(s) == IF s = "horz" THEN n.h > size ELSE n.w > size
        wanted == SelectSeq(Order(n), LAMBDA s : s \in allowed /\ longer(s))
        left == SelectSeq(<<"none", "horz", "vert">>, LAMBDA s : s \in allowed)
    IN  IF wanted # <<>> THEN wanted[1] ELSE left[1]

-----------------------------------------------------------------------------
(* The policies *)

\* choose_8x8_leaf_partition, and choose_luma_palette_partition, whose policy
\* allows the same leaves
FixedChoice(n, r) ==
    IF (n.w = Leaf /\ n.h = Leaf) \/ ~IsPoint(n) THEN "none"
    ELSE IF Settled(n, r) # {} THEN TheOne(Settled(n, r))
    ELSE Halve(n, Allowed(n, r), Leaf)

\* requires_micro_leaf: f.micro numbers the 8x8 blocks in raster order, f.across
\* of them in a row; a block that reaches over the border looks into the next row.
Covered(from, size, unit) == (from \div unit) .. ((from + size - 1) \div unit)
RequiresMicro(n, f) ==
    /\ ~(n.w <= Leaf /\ n.h <= Leaf)
    /\ \E y \in Covered(n.row * 4, n.h, Leaf), x \in Covered(n.col * 4, n.w, Leaf) :
        y * f.across + x \in f.micro

\* allows_larger_leaf
AllowsLarger(n, f) ==
    /\ ~RequiresMicro(n, f)
    /\ \/ n.w <= AdaptiveBase /\ n.h <= AdaptiveBase
       \/ /\ n.w <= AdaptiveLeaf /\ n.h <= AdaptiveLeaf
          /\ \A y \in Covered(n.row * 4, n.h, AdaptiveLeaf), x \in Covered(n.col * 4, n.w, AdaptiveLeaf) :
                y * f.superblocks + x \in f.simple

\* choose_adaptive_screen_content_partition
AdaptiveChoice(n, r, f) ==
    LET allowed == Allowed(n, r)
        base == IF RequiresMicro(n, f) THEN Leaf ELSE AdaptiveBase
        small == n.w <= AdaptiveLeaf /\ n.h <= AdaptiveLeaf
        whole == (small /\ AllowsLarger(n, f)) \/ (n.w <= base /\ n.h <= base)
    IN  IF ~IsPoint(n) THEN "none"
        ELSE IF Settled(n, r) # {} THEN TheOne(Settled(n, r))
        ELSE IF "none" \in allowed /\ whole THEN "none"
        ELSE Halve(n, allowed, IF small THEN base ELSE AdaptiveLeaf)

\* homogeneous_mode_for_leaf: modes is a sequence in raster order of 8x8 blocks.
ModesIn(n, r, modes) ==
    {modes[y * (r.cols \div 2) + x + 1] :
        y \in n.row \div 2 .. (n.row \div 2) + (n.h \div Leaf) - 1,
        x \in n.col \div 2 .. (n.col \div 2) + (n.w \div Leaf) - 1}
Inside(n, r) == n.row + Rows(n) <= r.rows /\ n.col + Cols(n) <= r.cols
OneMode(n, r, modes) == Inside(n, r) /\ Cardinality(ModesIn(n, r, modes)) = 1
OneSkip(n, r, modes) ==
    OneMode(n, r, modes) /\ TheOne(ModesIn(n, r, modes)).kind \in {"zero", "new"}

\* choose_lossless_inter_partition
InterChoice(n, r, modes) ==
    LET allowed == Allowed(n, r)
        able == {s \in allowed \ {"none"} : Supported(HalfSize(n, s)[1], HalfSize(n, s)[2])}
        size(s) == HalfSize(n, s)[1] * HalfSize(n, s)[2]
        skipped(s) == {i \in 1..2 : OneSkip(Halves(n, s)[i], r, modes)}
        tie(s) == IF s = "horz" THEN n.h >= n.w ELSE n.w >= n.h
        score(s) == 2 * Cardinality(skipped(s)) * size(s) + (IF tie(s) THEN 1 ELSE 0)
    IN  IF ~IsPoint(n) THEN "none"
        ELSE IF Settled(n, r) # {} THEN TheOne(Settled(n, r))
        ELSE IF "none" \in allowed /\ OneSkip(n, r, modes) THEN "none"
        ELSE IF able = {} THEN FixedChoice(n, r)
        ELSE IF able = {"horz", "vert"} THEN IF score("vert") > score("horz") THEN "vert" ELSE "horz"
        ELSE TheOne(able)

-----------------------------------------------------------------------------
(* Symbols *)

Symbol(name, ctx, value) == [name |-> name, ctx |-> ctx, value |-> value]

\* bsize_map, bsize_rect_map
SizeClass(n) ==
    CASE n.h = 4 * n.w -> IF n.w = 8 THEN 12 ELSE 14
      [] n.w = 4 * n.h -> IF n.h = 8 THEN 13 ELSE 15
      [] OTHER -> LET larger == IF n.w > n.h THEN n.w ELSE n.h
                  IN  CASE larger = 8 -> 0 [] larger = 16 -> 1 [] larger = 32 -> 2 [] larger = 64 -> 3
RectClass(n) ==
    CASE n.h = 4 * n.w -> 13
      [] n.w = 4 * n.h -> 14
      [] n.w = n.h -> IF n.w = 64 THEN 6 ELSE IF n.w = 32 THEN 3 ELSE 0
      [] n.h = 2 * n.w -> IF n.h = 64 THEN 4 ELSE 1
      [] n.w = 2 * n.h -> IF n.w = 64 THEN 5 ELSE 2

\* write_partition; raw is raw_context of the block.
PartitionSymbols(n, r, split, raw) ==
    LET allowed == Allowed(n, r)
    IN  IF split \in Forced(n, r) \cap allowed \/ Cardinality(allowed) = 1 THEN <<>>
        ELSE (IF "none" \in allowed
              THEN <<Symbol("do_split", raw + 4 * SizeClass(n), IF split = "none" THEN 0 ELSE 1)>>
              ELSE <<>>)
             \o (IF split # "none" /\ {"horz", "vert"} \subseteq allowed /\ Implied(n) = {}
                 THEN <<Symbol("rect_type", raw + 4 * RectClass(n), IF split = "vert" THEN 1 ELSE 0)>>
                 ELSE <<>>)

\* partition_context_lookup: one bit for each size from 8 on that the side reaches.
SideBits(side) == CASE side = 8 -> 62 [] side = 16 -> 60 [] side = 32 -> 56 [] side = 64 -> 48
\* The bit raw_context looks at, for a side of its own.
BitOf(byte, side) ==
    (byte \div (CASE side = 8 -> 1 [] side = 16 -> 2 [] side = 32 -> 4 [] side = 64 -> 8)) % 2
=============================================================================

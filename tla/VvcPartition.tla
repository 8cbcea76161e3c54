---------------------------- MODULE VvcPartition ----------------------------
(***************************************************************************)
(* The coding tree of a VVC CTU (vvc/cabac/ctu_split.rs and the files it   *)
(* includes): which node the encoder splits how, and which bins say so.    *)
(* The second half is the tree as the format defines it (H.266 6.4, 7.3.11 *)
(* and 9.3.4.2): which splits a decoder takes to be possible, which flags  *)
(* it therefore expects, and with which context.                           *)
(*                                                                         *)
(* Places and sizes are in luma samples.  The leaves around a node are     *)
(* those of its own tree, each with its place, size and quadtree depth.    *)
(***************************************************************************)
EXTENDS Integers, Sequences, FiniteSets
LOCAL INSTANCE SequencesExt

CtuSize == 64       \* VVC_CTU_SIZE
MinCbSize == 4      \* VVC_CURRENT_MIN_LUMA_CB_SIZE
MinQtSize == 8      \* of luma and of chroma, in luma samples
ChromaBlock == 4    \* VVC_CURRENT_ENCODER_CHROMA_420_TB_SIZE

IntraLimits == [depth |-> 5, bt |-> 32, tt |-> 32]      \* VvcLumaSplitAvailabilityKind::Intra
InterLimits == [depth |-> 3, bt |-> 64, tt |-> 64]      \* VvcLumaSplitAvailabilityKind::Inter
ChromaLimits == [depth |-> 3, bt |-> 64, tt |-> 32]

SubWidth(sampling) == IF sampling = "444" THEN 1 ELSE 2
SubHeight(sampling) == IF sampling = "420" THEN 2 ELSE 1

Flag(b) == IF b THEN 1 ELSE 0
Bin(name, ctx, set) == <<[name |-> name, ctx |-> ctx, value |-> Flag(set)]>>
Bypass(name, value) == <<[name |-> name, ctx |-> -1, value |-> value]>>

-----------------------------------------------------------------------------
(* Nodes *)

RootAt(x, y, tree) ==
    [x |-> x, y |-> y, w |-> CtuSize, h |-> CtuSize, cqt |-> 0, mtt |-> 0, offset |-> 0,
     parent |-> "root", tree |-> tree, history |-> <<>>]

Intersects(n, picture) == n.x < picture.w /\ n.y < picture.h
CrossesRight(n, picture) == n.x + n.w > picture.w
CrossesBottom(n, picture) == n.y + n.h > picture.h
Fits(n, picture) == ~CrossesRight(n, picture) /\ ~CrossesBottom(n, picture)

Under(n, split) == IF Len(n.history) < 2 THEN Append(n.history, split) ELSE n.history

\* qt_child
QuadChildren(n) ==
    [i \in 1..4 |->
        [n EXCEPT !.x = @ + ((i - 1) % 2) * (n.w \div 2), !.y = @ + ((i - 1) \div 2) * (n.h \div 2),
                  !.w = @ \div 2, !.h = @ \div 2, !.cqt = @ + 1, !.mtt = 0,
                  !.parent = "quad", !.history = Under(n, "quad")]]

\* mtt_child and, with a deeper tree where the parent crosses the border the
\* split is parallel to, mtt_child_with_boundary_depth_offset.
BinaryChildren(n, split, extra) ==
    [i \in 1..2 |->
        [n EXCEPT !.x = IF split = "ver" THEN @ + (i - 1) * (n.w \div 2) ELSE @,
                  !.y = IF split = "hor" THEN @ + (i - 1) * (n.h \div 2) ELSE @,
                  !.w = IF split = "ver" THEN @ \div 2 ELSE @,
                  !.h = IF split = "hor" THEN @ \div 2 ELSE @,
                  !.mtt = @ + 1, !.offset = @ + extra,
                  !.parent = split, !.history = Under(n, split)]]

BoundaryExtra(n, split, picture) ==
    Flag(IF split = "ver" THEN CrossesRight(n, picture) ELSE CrossesBottom(n, picture))

-----------------------------------------------------------------------------
(* The splits the encoder takes to be available *)

\* qt_flag_can_be_signaled
QuadSignalled(n) == n.mtt = 0 /\ n.w > MinQtSize /\ n.h > MinQtSize

SizeAlong(n, split) == IF split \in {"ver", "ver3"} THEN n.w ELSE n.h
ChromaWidth(n, sampling) == n.w \div SubWidth(sampling)
ChromaHeight(n, sampling) == n.h \div SubHeight(sampling)
ChromaArea(n, sampling) == ChromaWidth(n, sampling) * ChromaHeight(n, sampling)

\* allow_luma_bt_split
AllowBinary(n, split, picture, limits) ==
    /\ SizeAlong(n, split) > MinCbSize
    /\ n.w <= limits.bt /\ n.h <= limits.bt /\ n.mtt < limits.depth + n.offset
    /\ ~(split = "ver" /\ CrossesBottom(n, picture))
    /\ ~(split = "hor" /\ CrossesRight(n, picture) /\ ~CrossesBottom(n, picture))
    /\ ~(CrossesRight(n, picture) /\ CrossesBottom(n, picture) /\ n.w > MinQtSize)

\* allow_luma_tt_split
AllowTernary(n, split, picture, limits) ==
    /\ SizeAlong(n, split) > 2 * MinCbSize
    /\ n.w <= limits.tt /\ n.h <= limits.tt /\ n.mtt < limits.depth + n.offset
    /\ Fits(n, picture)

\* luma_split_availability
LumaSplits(n, picture, slice) ==
    LET limits == IF slice = "P" THEN InterLimits ELSE IntraLimits
    IN  {split \in {"quad"} : QuadSignalled(n) /\ (slice = "P" => n.parent \in {"root", "quad"})}
        \cup {split \in {"ver", "hor"} : AllowBinary(n, split, picture, limits)}
        \cup {split \in {"ver3", "hor3"} : AllowTernary(n, split, picture, limits)}

\* chroma_implicit_split: how a node that crosses the border has to be split.
ImplicitSplit(n, picture) ==
    LET below == CrossesBottom(n, picture)
        right == CrossesRight(n, picture)
        binary == n.w <= ChromaLimits.bt /\ n.h <= ChromaLimits.bt
                  /\ n.mtt < ChromaLimits.depth + n.offset
    IN  IF Fits(n, picture) THEN "none"
        ELSE IF below /\ right /\ QuadSignalled(n) THEN "quad"
        ELSE IF below /\ binary THEN "hor"
        ELSE IF right /\ binary THEN "ver"
        ELSE "quad"

\* vvc_chroma_split_availability
ChromaSplits(n, picture, sampling) ==
    LET implicit == ImplicitSplit(n, picture)
        width == ChromaWidth(n, sampling)
        area == ChromaArea(n, sampling)
        quad == n.parent \in {"root", "quad"} /\ n.w > MinQtSize /\ width > 4
        deeper == n.mtt < ChromaLimits.depth + n.offset /\ ~(n.w <= MinCbSize /\ n.h <= MinCbSize)
        forced == {split \in {"ver", "hor"} : split = implicit /\ (split = "ver" => width # 4)}
        binary == {split \in {"ver", "hor"} :
                    /\ deeper /\ n.w <= ChromaLimits.bt /\ n.h <= ChromaLimits.bt
                    /\ SizeAlong(n, split) > MinCbSize /\ area > 16
                    /\ split = "ver" => width # 4}
        ternary == {split \in {"ver3", "hor3"} :
                    /\ deeper /\ n.w <= ChromaLimits.tt /\ n.h <= ChromaLimits.tt
                    /\ SizeAlong(n, split) > 2 * MinCbSize /\ area > 32
                    /\ split = "ver3" => width # 8}
    IN  IF implicit # "none"
        THEN forced \cup {split \in {"quad"} : quad \/ forced = {}}
        ELSE {split \in {"quad"} : quad} \cup binary \cup ternary

-----------------------------------------------------------------------------
(* The encoder's choice: a split and whether split_cu_flag is written; "quiet" *)
(* is the quadtree split of which nothing is written.                          *)

Chosen(split, flag) == [split |-> split, flag |-> flag]

\* visit_implicit_boundary_luma_partition
BoundaryChoice(n, splits, picture, maxLeaf) ==
    LET below == CrossesBottom(n, picture)
        right == CrossesRight(n, picture)
    IN  IF below /\ right THEN Chosen("quiet", FALSE)
        ELSE IF below /\ QuadSignalled(n) /\ n.w > maxLeaf /\ n.h > maxLeaf
             THEN Chosen("quad", FALSE)
        ELSE IF below /\ "hor" \in splits THEN Chosen("hor", FALSE)
        ELSE IF right /\ "ver" \in splits THEN Chosen("ver", FALSE)
        ELSE Chosen("quiet", FALSE)

\* visit_visible_luma_partition_with_limits, visit_visible_luma_mtt_partition
LumaChoice(n, splits, picture, slice, maxLeaf) ==
    LET limits == IF slice = "P" THEN InterLimits ELSE IntraLimits
        squareAtLimit == n.w = n.h /\ n.w > maxLeaf /\ n.mtt > 0
                         /\ n.mtt >= limits.depth + n.offset
    IN  IF ~Fits(n, picture) THEN BoundaryChoice(n, splits, picture, maxLeaf)
        ELSE IF (n.w <= maxLeaf /\ n.h <= maxLeaf) \/ squareAtLimit \/ splits = {}
             THEN Chosen("none", splits # {})
        ELSE IF n.mtt > 0 \/ "quad" \notin splits
             THEN Chosen(IF n.w > maxLeaf /\ (n.h <= maxLeaf \/ n.w >= n.h) THEN "ver" ELSE "hor", TRUE)
        ELSE Chosen("quad", TRUE)

\* visit_visible_chroma_partition, visit_implicit_boundary_chroma_partition,
\* chroma_prefer_vertical_bt
ChromaChoice(n, splits, picture, sampling) ==
    LET fits == Fits(n, picture)
        implicit == ImplicitSplit(n, picture)
        upright == "ver" \in splits /\ ("hor" \in splits => n.w >= n.h)
    IN  IF fits /\ ChromaWidth(n, sampling) <= ChromaBlock /\ ChromaHeight(n, sampling) <= ChromaBlock
        THEN Chosen("none", splits # {})
        ELSE IF "quad" \in splits THEN Chosen("quad", fits)
        ELSE IF fits THEN Chosen(IF upright THEN "ver" ELSE "hor", TRUE)
        ELSE Chosen(IF implicit = "quad" THEN "quiet" ELSE implicit, FALSE)
-----------------------------------------------------------------------------
(* Its bins *)

\* left_of, above_of: the leaf over a sample, or none outside what is coded.
LeafOver(leaves, x, y) ==
    SelectSeq(leaves, LAMBDA l : l.x <= x /\ x < l.x + l.w /\ l.y <= y /\ y < l.y + l.h)
LeftOf(leaves, n) == LeafOver(leaves, n.x - 1, n.y)
AboveOf(leaves, n) == LeafOver(leaves, n.x, n.y - 1)
Some(found, Test(_)) == found # <<>> /\ Test(found[1])

Weight(splits) == Cardinality(splits) + Cardinality(splits \cap {"quad"})

\* split_cu_flag_ctx: the splits that are available say which set of contexts.
SplitCtx(n, splits, leaves) ==
    Flag(Some(LeftOf(leaves, n), LAMBDA l : l.h < n.h))
    + Flag(Some(AboveOf(leaves, n), LAMBDA l : l.w < n.w))
    + 3 * ((Weight(splits) - 1) \div 2)

\* split_qt_flag_ctx
QuadCtx(n, leaves) ==
    Flag(Some(LeftOf(leaves, n), LAMBDA l : l.cqt > n.cqt))
    + Flag(Some(AboveOf(leaves, n), LAMBDA l : l.cqt > n.cqt))
    + 3 * Flag(n.cqt >= 2)

\* luma_mtt_vertical_ctx, chroma_mtt_vertical_ctx
DirectionCtx(n, splits, leaves) ==
    LET upright == Cardinality(splits \cap {"ver", "ver3"})
        flat == Cardinality(splits \cap {"hor", "hor3"})
        left == LeftOf(leaves, n)
        above == AboveOf(leaves, n)
    IN  IF upright > flat THEN 4
        ELSE IF upright < flat THEN 3
        ELSE IF left = <<>> \/ above = <<>> THEN 0
        ELSE LET across == n.w \div above[1].w
                 down == n.h \div left[1].h
             IN  IF across = down THEN 0 ELSE IF across < down THEN 1 ELSE 2

\* emit_luma_partition_event, emit_bt_split, emit_qt_split and, for chroma,
\* emit_chroma_qt_split and emit_chroma_bt_split, which leave the direction of
\* a split the border forces to the reader.
SplitBins(n, choice, splits, leaves) ==
    LET binary == splits \ {"quad"}
        split == choice.split
        mark == IF choice.flag
                THEN Bin("split_cu_flag", SplitCtx(n, splits, leaves), split # "none") ELSE <<>>
        quad == IF "quad" \in splits /\ binary # {}
                THEN Bin("split_qt_flag", QuadCtx(n, leaves), split = "quad") ELSE <<>>
        direction == IF {"hor", "hor3"} \cap splits # {} /\ {"ver", "ver3"} \cap splits # {}
                     THEN Bin("mtt_split_cu_vertical_flag", DirectionCtx(n, splits, leaves), split = "ver")
                     ELSE <<>>
        two == IF (split = "ver" /\ {"ver", "ver3"} \subseteq splits)
                  \/ (split = "hor" /\ {"hor", "hor3"} \subseteq splits)
               THEN Bin("mtt_split_cu_binary_flag", 2 * Flag(split = "ver") + Flag(n.mtt <= 1), TRUE)
               ELSE <<>>
    IN  CASE split = "quiet" -> <<>>
          [] split = "none" -> mark
          [] split = "quad" -> mark \o quad
          [] n.tree = "chroma" /\ ~choice.flag -> quad
          [] OTHER -> mark \o quad \o direction \o two

Children(n, choice, picture) ==
    LET split == choice.split
        extra == IF n.tree = "chroma" /\ choice.flag THEN 0 ELSE BoundaryExtra(n, split, picture)
        all == CASE split = "none" -> <<>>
                 [] split \in {"quad", "quiet"} -> QuadChildren(n)
                 [] OTHER -> BinaryChildren(n, split, extra)
    IN  SelectSeq(all, LAMBDA c : Intersects(c, picture))

-----------------------------------------------------------------------------
(* All nodes of a CTU, in a region with coordinates of its own *)

RECURSIVE LumaNodes(_, _, _, _)
LumaNodes(n, region, kind, maxLeaf) ==
    LET choice == LumaChoice(n, LumaSplits(n, region, kind), region, kind, maxLeaf)
        below == Children(n, choice, region)
    IN  IF choice.split = "none" THEN <<n>>
        ELSE FlattenSeq([i \in DOMAIN below |-> LumaNodes(below[i], region, kind, maxLeaf)])

RECURSIVE ChromaNodes(_, _, _)
ChromaNodes(n, region, sampling) ==
    LET choice == ChromaChoice(n, ChromaSplits(n, region, sampling), region, sampling)
        below == Children(n, choice, region)
    IN  IF choice.split = "none" THEN <<n>>
        ELSE FlattenSeq([i \in DOMAIN below |-> ChromaNodes(below[i], region, sampling)])

-----------------------------------------------------------------------------
(* The tree of the format *)

Format(slice, tree) ==
    IF tree = "chroma" THEN [depth |-> 3, bt |-> 64, tt |-> 32, qt |-> 8]
    ELSE IF slice = "P" THEN [depth |-> 3, bt |-> 64, tt |-> 64, qt |-> 8]
    ELSE [depth |-> 5, bt |-> 32, tt |-> 32, qt |-> 8]

\* 6.4.1, 6.4.2 and 6.4.3
FormatSplits(n, picture, slice, sampling) ==
    LET f == Format(slice, n.tree)
        right == n.x + n.w > picture.w
        bottom == n.y + n.h > picture.h
        cw == n.w \div SubWidth(sampling)
        ch == n.h \div SubHeight(sampling)
        chroma == n.tree = "chroma"
        depth == f.depth + n.offset
        minQt == IF chroma THEN (f.qt * SubHeight(sampling)) \div SubWidth(sampling) ELSE f.qt
        quad == n.mtt = 0 /\ n.w > minQt /\ (chroma => cw > 4)
        bt(split) == /\ (IF split = "ver" THEN n.w ELSE n.h) > 4
                     /\ n.w <= f.bt /\ n.h <= f.bt /\ n.mtt < depth
                     /\ chroma => cw * ch > 16 /\ ~(cw = 4 /\ split = "ver")
                     /\ ~(split = "ver" /\ bottom)
                     /\ ~(right /\ bottom /\ n.w > f.qt)
                     /\ ~(split = "hor" /\ right /\ ~bottom)
        tt(split) == /\ (IF split = "ver3" THEN n.w ELSE n.h) > 8
                     /\ n.w <= f.tt /\ n.h <= f.tt /\ n.mtt < depth
                     /\ ~right /\ ~bottom
                     /\ chroma => cw * ch > 32 /\ ~(cw = 8 /\ split = "ver3")
    IN  {s \in {"quad"} : quad} \cup {s \in {"ver", "hor"} : bt(s)} \cup {s \in {"ver3", "hor3"} : tt(s)}

\* What a decoder that expects these flags can take a node for.
Possible(n, splits, picture) ==
    (IF Fits(n, picture) THEN {"none"} ELSE {})
    \cup (IF splits \ {"quad"} = {} THEN (IF Fits(n, picture) THEN splits ELSE {"quad"}) ELSE splits)

\* 7.3.11.4 with the contexts of 9.3.4.2.2 and 9.3.4.2.3: the flags by which a
\* node is split so; "left" and "above" are the neighbours of the same slice.
FormatBins(n, split, splits, picture, left, above) ==
    LET count == Cardinality(splits) + (IF "quad" \in splits THEN 2 ELSE 1) - 1
        smaller == (IF left # <<>> /\ left[1].h < n.h THEN 1 ELSE 0)
                   + (IF above # <<>> /\ above[1].w < n.w THEN 1 ELSE 0)
        deeper == (IF left # <<>> /\ left[1].cqt > n.cqt THEN 1 ELSE 0)
                  + (IF above # <<>> /\ above[1].cqt > n.cqt THEN 1 ELSE 0)
        ver == Cardinality(splits \cap {"ver", "ver3"})
        hor == Cardinality(splits \cap {"hor", "hor3"})
        dA == n.w \div above[1].w
        dL == n.h \div left[1].h
        dir == CASE ver > hor -> 4
                 [] ver < hor -> 3
                 [] ver = hor /\ (left = <<>> \/ above = <<>>) -> 0
                 [] OTHER -> IF dA = dL THEN 0 ELSE IF dA < dL THEN 1 ELSE 2
        both(a, b) == a \in splits /\ b \in splits
        flag == IF Fits(n, picture) /\ splits # {}
                THEN Bin("split_cu_flag", smaller + 3 * ((count - 1) \div 2), split # "none") ELSE <<>>
        quad == IF split # "none" /\ "quad" \in splits /\ splits # {"quad"}
                THEN Bin("split_qt_flag", deeper + (IF n.cqt < 2 THEN 0 ELSE 3), split = "quad") ELSE <<>>
        direction == IF split \notin {"none", "quad"} /\ ver > 0 /\ hor > 0
                     THEN Bin("mtt_split_cu_vertical_flag", dir, split \in {"ver", "ver3"}) ELSE <<>>
        two == IF (split \in {"ver", "ver3"} /\ both("ver", "ver3"))
                  \/ (split \in {"hor", "hor3"} /\ both("hor", "hor3"))
               THEN Bin("mtt_split_cu_binary_flag",
                        (IF split \in {"ver", "ver3"} THEN 2 ELSE 0) + (IF n.mtt <= 1 THEN 1 ELSE 0),
                        split \in {"ver", "hor"})
               ELSE <<>>
    IN  flag \o quad \o direction \o two

FormatRoot(x, y, tree) ==
    [x |-> x, y |-> y, w |-> CtuSize, h |-> CtuSize, tree |-> tree, path |-> <<>>,
     cqt |-> 0, mtt |-> 0, offset |-> 0]

\* The nodes a decoder goes on with; "path" is MttSplitMode and the quadtree
\* splits above it.
FormatChildren(n, split, picture) ==
    LET w == IF split \in {"quad", "ver"} THEN n.w \div 2 ELSE n.w
        h == IF split \in {"quad", "hor"} THEN n.h \div 2 ELSE n.h
        past == IF split = "hor" THEN n.y + n.h > picture.h ELSE n.x + n.w > picture.w
        child(x, y) == [x |-> x, y |-> y, w |-> w, h |-> h, tree |-> n.tree,
                        path |-> Append(n.path, split),
                        cqt |-> IF split = "quad" THEN n.cqt + 1 ELSE n.cqt,
                        mtt |-> IF split = "quad" THEN 0 ELSE n.mtt + 1,
                        offset |-> IF split = "quad" THEN 0 ELSE n.offset + (IF past THEN 1 ELSE 0)]
        all == CASE split = "none" -> <<>>
                 [] split = "quad" -> <<child(n.x, n.y), child(n.x + w, n.y),
                                        child(n.x, n.y + h), child(n.x + w, n.y + h)>>
                 [] split = "ver" -> <<child(n.x, n.y), child(n.x + w, n.y)>>
                 [] split = "hor" -> <<child(n.x, n.y), child(n.x, n.y + h)>>
    IN  SelectSeq(all, LAMBDA c : c.x < picture.w /\ c.y < picture.h)
=============================================================================

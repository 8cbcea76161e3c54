---------------------------- MODULE Av2TileTree ----------------------------
(***************************************************************************)
(* A tile of an AV2 frame (av2/tile/tile_plan*.rs): the plan of its        *)
(* blocks, and the writers that follow it.  Every writer carries arrays    *)
(* that say what the neighbours of a block were; the contexts of the       *)
(* symbols come from them.  A reader has the leaves it has read.           *)
(*                                                                         *)
(* One step visits one block: it codes the split of the block and, for a   *)
(* leaf, the leaf up to its coefficients.  The plan is made before the     *)
(* first symbol is written, from features of the source that do not change *)
(* meanwhile; here each of its decisions is taken when it is followed.     *)
(* What the searches prefer is left open, what they may choose (Legal) is  *)
(* not.  The arrays have one entry for each 8x8 block, since every leaf    *)
(* begins and ends on their borders.                                       *)
(***************************************************************************)
EXTENDS Av2LeafSyntax, TLC

CONSTANT Tiles      \* the tiles TLC looks at, see MCAv2Syntax

VARIABLES
    tile,       \* its size, writer, policy and tools, and what the searches may pick
    todo,       \* blocks still to be visited
    grids,      \* the context arrays of the writer
    leaves,     \* the leaves coded so far
    coded       \* the last block with its split, decision and symbols

tileVars == <<tile, todo, grids, leaves, coded>>

Region == [rows |-> tile.rows, cols |-> tile.cols]
InterFrame == tile.inter \/ tile.writer \in {"mixed", "residual", "skips"}
Lossless == tile.writer # "lossy"

-----------------------------------------------------------------------------
(* The context arrays.  An entry of a grid is a sequence, empty before the  *)
(* block is coded.                                                          *)

Line(size) == 0 .. (size \div 2) - 1
Grid == Line(tile.rows) \X Line(tile.cols)

EmptyGrids(t) ==
    LET empty == [b \in Line(t.rows) \X Line(t.cols) |-> <<>>]
    IN  [above |-> [x \in Line(t.cols) |-> 0], left |-> [y \in Line(t.rows) |-> 0],
         flags |-> empty, inter |-> empty, modes |-> empty, fsc |-> empty,
         colorsAbove |-> [x \in Line(t.cols) |-> <<>>], colorsLeft |-> [y \in Line(t.rows) |-> <<>>]]

\* state_at
At(grid, row, col) ==
    IF row >= 0 /\ col >= 0 /\ row < tile.rows /\ col < tile.cols THEN grid[<<row \div 2, col \div 2>>] ELSE <<>>
AtLeft(grid, n) == At(grid, n.row, n.col - 1)
AtAbove(grid, n) == At(grid, n.row - 1, n.col)
AtBottomLeft(grid, n) == At(grid, n.row + Rows(n) - 1, n.col - 1)
AtAboveRight(grid, n) == At(grid, n.row - 1, n.col + Cols(n) - 1)
OrElse(a, b) == IF a # <<>> THEN a ELSE b

\* neighbor_sum: of the first two neighbours there are
NeighborSum(grid, n, withAbove, Holds(_)) ==
    LET found == AtBottomLeft(grid, n) \o When(withAbove, AtAboveRight(grid, n))
                 \o AtLeft(grid, n) \o When(withAbove, AtAbove(grid, n))
    IN  Cardinality({i \in 1 .. Smaller(2, Len(found)) : Holds(found[i])})

\* intra_inter_ctx
IntraInterContext(g, n) ==
    LET found == AtLeft(g.inter, n) \o AtAbove(g.inter, n)
        intra == Cardinality({i \in DOMAIN found : ~found[i].inter})
    IN  IF intra = 0 THEN 0 ELSE IF intra = Len(found) THEN 3 ELSE 1

\* inter_single_mode_ctx
ModeContextOf(g, n) ==
    LET found == OrElse(AtAboveRight(g.inter, n), AtAbove(g.inter, n))
                 \o OrElse(AtBottomLeft(g.inter, n), AtLeft(g.inter, n))
    IN  Cardinality({i \in DOMAIN found : found[i].inter})
        + (IF \E i \in DOMAIN found : found[i].new THEN 2 ELSE 0)

\* nearest_ref_mv
NearestVector(g, n) ==
    LET found == SelectSeq(AtLeft(g.inter, n) \o AtAbove(g.inter, n) \o AtAboveRight(g.inter, n)
                           \o AtBottomLeft(g.inter, n), LAMBDA state : state.inter)
    IN  IF found = <<>> THEN <<0, 0>> ELSE found[1].mv

\* cache
CacheOf(g, n) ==
    Cache(IF n.row % SuperblockRows # 0 THEN g.colorsAbove[n.col \div 2] ELSE <<>>,
          IF n.col > 0 THEN g.colorsLeft[n.row \div 2] ELSE <<>>)

\* raw_context
RawContext(g, n) == 2 * BitOf(g.left[n.row \div 2], n.h) + BitOf(g.above[n.col \div 2], n.w)

JointMode(entry) == IF entry = <<>> THEN Unknown ELSE entry[1]
Contexts(g, n) ==
    LET below == n.row % SuperblockRows # 0
    IN  [ibc |-> NeighborSum(g.flags, n, below, LAMBDA state : state.ibc),
         skip |-> NeighborSum(g.flags, n, TRUE, LAMBDA state : state.skip),
         inter |-> IntraInterContext(g, n),
         mode |-> ModeContextOf(g, n),
         mv |-> NearestVector(g, n),
         left |-> JointMode(AtBottomLeft(g.modes, n)),
         aboveRight |-> JointMode(AtAboveRight(g.modes, n)),
         fsc |-> IF InterFrame THEN 3 ELSE NeighborSum(g.fsc, n, below, LAMBDA state : state),
         cache |-> CacheOf(g, n)]

-----------------------------------------------------------------------------
(* Decisions *)

CodedMode(d) == CASE d.dpcm = "hor" -> Horizontal [] d.dpcm = "ver" -> Vertical [] d.dpcm = "off" -> d.mode
PlainDc(d) == d.mode = Dc /\ d.dpcm = "off"

\* What visit_leaf and the mode searches may decide for an intra leaf.
LegalFrame(n, d) ==
    IF tile.palettes
    THEN /\ (d.palette # <<>>) = PlainDc(d)
         /\ ~d.cdpcm => d.cmode # 0
         /\ d.fsc => PlainDc(d) /\ n.w = Leaf /\ n.h = Leaf
    ELSE PlainDc(d) /\ d.cmode = 2 /\ ~d.cdpcm /\ ~d.fsc /\ d.palette = <<>>
LegalFast(d) ==
    /\ d.mode \in {Dc, Vertical, Horizontal} /\ d.cmode \in 0..2 /\ ~d.fsc
    /\ d.palette # <<>> => tile.palettes /\ PlainDc(d)
LegalExhaustive(n, d) ==
    /\ d.palette = <<>>
    /\ d.fsc => FscGroup(n) # {} /\ n.w < 32 /\ n.h < 32 /\ ~d.cdpcm
LegalLossy(d) == d.dpcm = "off" /\ ~d.cdpcm /\ d.palette = <<>>
Legal(n, d) ==
    IF d.kind = "copy" THEN tile.copies
    ELSE /\ d.cdpcm => d.cmode \in {1, 2}
         /\ CASE tile.writer = "frame" -> LegalFrame(n, d)
              [] tile.writer = "lossy" -> LegalLossy(d)
              [] tile.writer \in {"lossless", "mixed"} -> IF tile.fast THEN LegalFast(d) ELSE LegalExhaustive(n, d)

\* mode_for_decision, or the decision of a search
Pick(choices, k) == choices[((k - 1) % Len(choices)) + 1]
Wishes(n) == {d \in Pick(tile.decisions, Len(leaves) + 1) : Legal(n, d)}
Decisions(n) ==
    IF tile.modes = <<>> THEN Wishes(n)
    ELSE LET mode == TheOne(ModesIn(n, Region, tile.modes))
         IN  IF mode.kind = "intra" THEN Wishes(n) ELSE {mode}

\* visit_block
Chosen(n) ==
    CASE tile.policy = "fixed" -> FixedChoice(n, Region)
      [] tile.policy = "adaptive" ->
            AdaptiveChoice(n, Region, [micro |-> tile.micro, across |-> tile.cols \div 2, simple |-> tile.simple,
                                       superblocks |-> (tile.cols + SuperblockRows - 1) \div SuperblockRows])
      [] tile.policy = "inter" -> InterChoice(n, Region, tile.modes)

-----------------------------------------------------------------------------
(* Symbols of a leaf *)

\* The palette of a leaf, its pattern of 8x8 samples repeated.
Drawn(n, palette) ==
    [palette EXCEPT !.at = [s \in (0 .. n.h - 1) \X (0 .. n.w - 1) |-> palette.at[<<s[1] % 8, s[2] % 8>>]]]

\* Whether a leaf without a palette says so.
SaysNoPalette(d) == tile.writer \in {"lossless", "mixed"} /\ (tile.copies \/ tile.palettes) /\ PlainDc(d)

IntraSymbols(n, c, d) ==
    LumaModeSymbols(c, n, d, Lossless) \o ChromaModeSymbols(d, CodedMode(d), Lossless)
    \o (IF d.palette # <<>> THEN PaletteSymbols(d.palette[1], c.cache) \o MapSymbols(n, Drawn(n, d.palette[1]))
        ELSE When(SaysNoPalette(d), NoPaletteSymbols))

\* lossless_tx_size_group, write_regular_q_tx_partition_split_8x8_with_cdfs: the
\* transforms of a leaf, coded before its coefficients.
SizeGroup(n) ==
    CASE {n.w, n.h} \in {{8}, {8, 16}, {8, 32}} -> 1
      [] {n.w, n.h} \in {{16}, {16, 32}} -> 2
      [] {n.w, n.h} = {32} -> 3
      [] OTHER -> 0
TransformSymbols(n, d) ==
    CASE d.kind = "intra" ->
            IF d.fsc THEN <<Symbol("lossless_tx_size", SizeGroup(n), 0)>>
            ELSE When(tile.writer = "lossy", <<Symbol("tx_do", 0, 1), Symbol("tx_type", 0, 0)>>)
      [] tile.writer = "residual" -> <<Symbol("inter_tx_do", 0, 1), Symbol("inter_tx_type", 0, 0)>>
      [] OTHER -> <<>>

LeafSymbols(n, c, d) ==
    CASE d.kind \notin {"intra", "copy"} -> InterSymbols(c, d) \o TransformSymbols(n, d)
      [] OTHER -> When(InterFrame, <<Symbol("is_inter", c.inter, 0)>>)
                  \o When(tile.copies, <<Flag("use_intrabc", c.ibc, d.kind = "copy")>>)
                  \o (IF d.kind = "copy" THEN CopySymbols(c, d)
                      ELSE IntraSymbols(n, c, d) \o TransformSymbols(n, d))

-----------------------------------------------------------------------------
(* What a leaf leaves in the arrays *)

Columns(n) == {x \in Line(tile.cols) : n.col <= 2 * x /\ 2 * x < n.col + Cols(n)}
Lines(n) == {y \in Line(tile.rows) : n.row <= 2 * y /\ 2 * y < n.row + Rows(n)}
Put(f, where, value) == [at \in where |-> value] @@ f

\* Mutant: a leaf that is not intra leaves the colours of the leaves before it.
MutColorsLeft(d) ==
    CASE d.kind # "intra" -> {}
      [] d.palette # <<>> -> {d.palette[1].colors}
      [] tile.writer = "frame" -> IF PlainDc(d) THEN {} ELSE {<<>>}
      [] OTHER -> IF SaysNoPalette(d) \/ (tile.writer # "lossy" /\ tile.palettes) THEN {<<>>} ELSE {}

\* Palette colours, or none where a leaf clears them; {} where it leaves them.
ColorsLeft(d) ==
    CASE d.kind # "intra" -> {<<>>}
      [] d.palette # <<>> -> {d.palette[1].colors}
      [] tile.writer = "frame" -> IF PlainDc(d) THEN {} ELSE {<<>>}
      [] OTHER -> IF SaysNoPalette(d) \/ (tile.writer # "lossy" /\ tile.palettes) THEN {<<>>} ELSE {}

\* update_leaf and clear_leaf of each of the arrays
After(g, n, d) ==
    LET blocks == Lines(n) \X Columns(n)
        inter == d.kind \notin {"intra", "copy"}
        skip == d.kind = "copy" \/ (inter /\ IsSkipped(d))
        left == ColorsLeft(d)
        within(f, value) == IF inter THEN f ELSE Put(f, blocks, <<value>>)
    IN  [above |-> Put(g.above, Columns(n), SideBits(n.w)),
         left |-> Put(g.left, Lines(n), SideBits(n.h)),
         flags |-> Put(g.flags, blocks, <<[ibc |-> d.kind = "copy", skip |-> skip]>>),
         inter |-> IF ~InterFrame THEN g.inter
                   ELSE Put(g.inter, blocks,
                            <<[inter |-> inter, new |-> inter /\ IsNew(d), mv |-> IF inter THEN d.mv ELSE <<0, 0>>]>>),
         modes |-> within(g.modes, IF d.kind = "copy" THEN Dc ELSE CodedMode(d)),
         fsc |-> within(g.fsc, d.kind = "intra" /\ d.fsc),
         colorsAbove |-> IF left = {} THEN g.colorsAbove ELSE Put(g.colorsAbove, Columns(n), TheOne(left)),
         colorsLeft |-> IF left = {} THEN g.colorsLeft ELSE Put(g.colorsLeft, Lines(n), TheOne(left))]

-----------------------------------------------------------------------------
(* The specification *)

\* The superblocks of the tile in raster order.
Roots(t) ==
    LET down == (t.rows + SuperblockRows - 1) \div SuperblockRows
        across == (t.cols + SuperblockRows - 1) \div SuperblockRows
    IN  [i \in 1 .. down * across |->
            Root(((i - 1) \div across) * SuperblockRows, ((i - 1) % across) * SuperblockRows)]

NothingCoded == [node |-> Root(0, 0), split |-> "none", decision |-> <<>>, symbols |-> <<>>]

TileInit ==
    /\ tile \in Tiles
    /\ todo = Roots(tile)
    /\ grids = EmptyGrids(tile)
    /\ leaves = <<>>
    /\ coded = NothingCoded

\* visit_block, for a block that is split: the halves outside the tile are
\* passed over.
SplitBlock ==
    /\ todo # <<>>
    /\ LET n == Head(todo)
           split == Chosen(n)
       IN  /\ split # "none"
           /\ todo' = SelectSeq(Halves(n, split), LAMBDA half : InRegion(half, Region)) \o Tail(todo)
           /\ coded' = [node |-> n, split |-> split, decision |-> <<>>,
                        symbols |-> PartitionSymbols(n, Region, split, RawContext(grids, n))]
    /\ UNCHANGED <<tile, grids, leaves>>

\* visit_block and visit_leaf, for a leaf
CodeLeaf ==
    /\ todo # <<>>
    /\ Chosen(Head(todo)) = "none"
    /\ \E d \in Decisions(Head(todo)) :
        LET n == Head(todo)
        IN  /\ coded' = [node |-> n, split |-> "none", decision |-> <<d>>,
                         symbols |-> PartitionSymbols(n, Region, "none", RawContext(grids, n))
                                     \o LeafSymbols(n, Contexts(grids, n), d)]
            /\ grids' = After(grids, n, d)
            /\ leaves' = Append(leaves, [node |-> n, decision |-> d])
    /\ todo' = Tail(todo)
    /\ UNCHANGED tile

TileNext == SplitBlock \/ CodeLeaf

-----------------------------------------------------------------------------
(* The reader: it has the leaves it has read. *)

LeafAt(row, col) ==
    SelectSeq(leaves, LAMBDA l : /\ l.node.row <= row /\ row < l.node.row + Rows(l.node)
                                 /\ l.node.col <= col /\ col < l.node.col + Cols(l.node))
OfLeaf(row, col, otherwise, Value(_)) ==
    LET l == LeafAt(row, col) IN IF l = <<>> THEN otherwise ELSE Value(l[1])
OfLeaves(Value(_)) == [b \in Grid |-> OfLeaf(2 * b[1], 2 * b[2], <<>>, Value)]
IsInter(l) == l.decision.kind \notin {"intra", "copy"}
Colors(l) == IF l.decision.kind = "intra" /\ l.decision.palette # <<>> THEN l.decision.palette[1].colors ELSE <<>>

\* What the arrays should say when n is coded.
Seen(n) ==
    [above |-> [x \in Line(tile.cols) |-> OfLeaf(n.row - 1, 2 * x, 0, LAMBDA l : SideBits(l.node.w))],
     left |-> [y \in Line(tile.rows) |-> OfLeaf(2 * y, n.col - 1, 0, LAMBDA l : SideBits(l.node.h))],
     flags |-> OfLeaves(LAMBDA l : <<[ibc |-> l.decision.kind = "copy",
                                      skip |-> l.decision.kind = "copy" \/ (IsInter(l) /\ IsSkipped(l.decision))]>>),
     inter |-> OfLeaves(LAMBDA l : <<[inter |-> IsInter(l), new |-> IsInter(l) /\ IsNew(l.decision),
                                      mv |-> IF IsInter(l) THEN l.decision.mv ELSE <<0, 0>>]>>),
     modes |-> OfLeaves(LAMBDA l : <<IF l.decision.kind = "intra" THEN CodedMode(l.decision) ELSE Dc>>),
     fsc |-> OfLeaves(LAMBDA l : <<l.decision.kind = "intra" /\ l.decision.fsc>>),
     colorsAbove |-> [x \in Line(tile.cols) |-> OfLeaf(n.row - 1, 2 * x, <<>>, Colors)],
     colorsLeft |-> [y \in Line(tile.rows) |-> OfLeaf(2 * y, n.col - 1, <<>>, Colors)]]

IsLeaf(c) == c.decision # <<>>
SizeContexts(n, d) == {s.ctx : s \in {t \in Range(TransformSymbols(n, d)) : t.name = "lossless_tx_size"}}

\* Each symbol is written in the context that the leaves before it give: the
\* arrays hold neither what a later nor what an earlier neighbour left, in any
\* order of sizes, kinds and borders.  Blocks are split where the format allows
\* it, every 8x8 block is in one leaf, a leaf has one inter mode, and the size
\* of a lossless transform, whose distributions the writer keeps under one key,
\* is written in one context.
ReaderReadsEachBlock ==
    [][todo' # todo =>
        LET n == coded'.node
            split == coded'.split
            symbols == PartitionSymbols(n, Region, split, RawContext(Seen(n), n))
            d == coded'.decision[1]
        IN  /\ split \in Allowed(n, Region)
            /\ LeafAt(n.row, n.col) = <<>>
            /\ IF ~IsLeaf(coded') THEN coded'.symbols = symbols
               ELSE /\ coded'.symbols = symbols \o LeafSymbols(n, Contexts(Seen(n), n), d)
                    /\ Inside(n, Region)
                    /\ tile.modes # <<>> => OneMode(n, Region, tile.modes)
                    /\ \A i \in DOMAIN leaves :
                        Cardinality(SizeContexts(n, d) \cup SizeContexts(leaves[i].node, leaves[i].decision)) <= 1
            /\ todo' = <<>> => \A b \in Grid : LeafAt(2 * b[1], 2 * b[2]) # <<>> \/ b \in Lines(n) \X Columns(n)
      ]_tileVars

\* What else the leaf could have been.
Alternatives(n) ==
    {d \in UNION Range(tile.decisions) : Legal(n, d)}
    \cup {mode \in Range(tile.modes) : mode.kind # "intra"}
Options(n) == IF Settled(n, Region) # {} THEN Settled(n, Region) ELSE Allowed(n, Region)

\* The first symbols two sequences differ in are of one kind, in one context.
ToldApart(a, b) ==
    \E i \in 1 .. Smaller(Len(a), Len(b)) :
        /\ a[i] # b[i] /\ [a[i] EXCEPT !.value = b[i].value] = b[i]
        /\ \A j \in 1 .. i - 1 : a[j] = b[j]
Fits(symbol) ==
    /\ symbol.value >= 0
    /\ symbol.ctx < 0 => symbol.value < 2 ^ (-symbol.ctx)
    /\ symbol.name = "y_color_index_first" => symbol.value < symbol.ctx

\* The symbols of a block are those of no other block that could stand there: up
\* to the first value that differs a reader reads the same symbols in the same
\* contexts, so that it never needs what it has yet to read.  Literals fit their
\* bits.
SymbolsTellTheBlock ==
    [][todo' # todo =>
        LET n == coded'.node
            before == PartitionSymbols(n, Region, coded'.split, RawContext(grids, n))
            rest == SubSeq(coded'.symbols, Len(before) + 1, Len(coded'.symbols))
        IN  /\ \A i \in DOMAIN coded'.symbols : Fits(coded'.symbols[i])
            /\ \A split \in Options(n) \ {coded'.split} :
                ToldApart(before, PartitionSymbols(n, Region, split, RawContext(grids, n)))
            /\ IsLeaf(coded') =>
                \A c \in {Contexts(grids, n)}, d \in Alternatives(n) \ Range(coded'.decision) :
                    ToldApart(rest, LeafSymbols(n, c, d))
      ]_tileVars
=============================================================================

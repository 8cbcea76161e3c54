---------------------------- MODULE Av2BlockCopy ----------------------------
(***************************************************************************)
(* The tiles of an AV2 picture (av2/layout.rs): the limits a level sets,   *)
(* the layouts each way of coding takes, and what the frame header         *)
(* (av2/headers/frame_header.rs) says of them. A reader is told two        *)
(* logarithms and divides the picture itself, uniformly; the writer also   *)
(* has layouts of its own, of one tile or of one for each superblock. A    *)
(* picture has a size [w, h] in samples, a multiple of 8, and a level: the *)
(* largest width and area of a tile in superblocks, and how many tiles     *)
(* there may be in a row or a column.                                      *)
(*                                                                         *)
(* Then copies within a lossless picture (av2/inter/ibc.rs): which 8x8     *)
(* blocks are copied from earlier ones, decided before the picture is      *)
(* coded, and what becomes of the decisions in its tiles (av2/encode.rs,   *)
(* av2/headers/payloads.rs). The search goes through the picture           *)
(* superblock by superblock; the tiles are coded one after another. It     *)
(* keeps a list of the block vectors a decoder would have at each block,   *)
(* and finds equal blocks by a hash of their samples. A block is <<y, x>>, *)
(* in units of 8 samples, a vector <<down, right>> in samples. What a      *)
(* block holds is one value.                                               *)
(***************************************************************************)
EXTENDS Av2LeafSyntax, TLC

Larger(a, b) == IF a > b THEN a ELSE b
Less(a, b) == Larger(a - b, 0)             \* saturating_sub

\* AV2_MAX_TILE_WIDTH and the others for Level 2.0, in superblocks
Level20 == [width |-> 64, area |-> 2304, count |-> 64]

\* coded_canvas_dimension
Canvas(samples) == ((samples + Leaf - 1) \div Leaf) * Leaf

\* validate_shape: what the encoder says it codes
MaxFrameDimension == 65536
ValidShape(w, h) == w > 0 /\ h > 0 /\ Canvas(w) <= MaxFrameDimension /\ Canvas(h) <= MaxFrameDimension

-----------------------------------------------------------------------------
(* Limits *)

Superblocks(side) == (side + Superblock - 1) \div Superblock

\* tile_log2
TileLog2(size, target) == CHOOSE k \in 0..20 : size * 2 ^ k >= target /\ (k = 0 \/ size * 2 ^ (k - 1) < target)

\* Av2TileLimits::for_geometry
Limits(p) ==
    LET cols == Superblocks(p.w)
        rows == Superblocks(p.h)
        minCols == TileLog2(p.level.width, cols)
    IN  [minCols |-> minCols, min |-> Larger(TileLog2(p.level.area, cols * rows), minCols),
         maxCols |-> CeilLog2(Smaller(cols, p.level.count)), maxRows |-> CeilLog2(Smaller(rows, p.level.count))]

-----------------------------------------------------------------------------
(* Layouts: where the columns and the rows of tiles begin, in superblocks,   *)
(* with the end of the last; and what the header tells.                      *)

Layout(limits, cols, rows, log2Cols, log2Rows, minRows) ==
    [cols |-> cols, rows |-> rows, log2Cols |-> log2Cols, log2Rows |-> log2Rows,
     minCols |-> limits.minCols, minRows |-> minRows, maxCols |-> limits.maxCols, maxRows |-> limits.maxRows]

\* for_geometry: a tile for each superblock
SuperblockLayout(limits, cols, rows) ==
    LET log2Cols == Larger(CeilLog2(cols), limits.minCols)
        minRows == Less(limits.min, log2Cols)
    IN  Layout(limits, [i \in 1 .. cols + 1 |-> i - 1], [i \in 1 .. rows + 1 |-> i - 1],
               log2Cols, Larger(CeilLog2(rows), minRows), minRows)
LayoutOfSuperblocks(p) == SuperblockLayout(Limits(p), Superblocks(p.w), Superblocks(p.h))

\* try_single_for_geometry
SingleIsAllowed(p) == Limits(p).minCols = 0 /\ Limits(p).min = 0
LayoutOfOne(p) ==
    Layout(Limits(p), <<0, Superblocks(p.w)>>, <<0, Superblocks(p.h)>>, 0, 0, Limits(p).min)

\* uniform_tile_starts_sb: the superblocks beyond an even division go to the
\* first tiles; one that the border cuts is counted only when there are fewer
\* superblocks than tiles.
UniformStarts(side, log2) ==
    LET count == Superblocks(side)
        full == side \div Superblock
        base == full \div 2 ^ log2
        extra == (full - base * 2 ^ log2) + (IF base = 0 THEN count - full ELSE 0)
        start(i) == (i * base) + Smaller(i, extra)
        tiles == Cardinality({i \in 0 .. 2 ^ log2 - 1 : start(i) < count})
    IN  [i \in 1 .. tiles + 1 |-> IF i > tiles THEN count ELSE start(i - 1)]

\* uniform_for_geometry
UniformLayout(limits, cols, rows, log2Cols) ==
    Layout(limits, cols, rows, CeilLog2(Len(cols) - 1), CeilLog2(Len(rows) - 1), Less(limits.min, log2Cols))

\* lossless_subsampled_fast_for_geometry: columns and rows of tiles for the
\* threads of large pictures
FastLayoutWithin(p, limits) ==
    LET targetCols == CASE p.w >= 1920 -> 2 [] p.w < 1024 -> 0 [] OTHER -> 1
        log2Cols == Smaller(Larger(targetCols, limits.minCols), limits.maxCols)
        targetRows == IF p.h >= 1080 THEN 1 ELSE 0
        log2Rows == Smaller(Larger(targetRows, Less(limits.min, log2Cols)), limits.maxRows)
    IN  IF log2Cols = 0 /\ log2Rows = 0 THEN LayoutOfOne(p) ELSE UniformLayout(limits, UniformStarts(p.w, log2Cols), UniformStarts(p.h, log2Rows), log2Cols)
FastLayout(p) == FastLayoutWithin(p, Limits(p))

\* lossless_subsampled_ibc_for_geometry
CopyLayout(p) == IF SingleIsAllowed(p) THEN LayoutOfOne(p) ELSE LayoutOfSuperblocks(p)

\* The assertions of for_geometry, uniform_for_geometry and the expect of
\* single_for_geometry, for a layout of p.
Asserted(p, layout) ==
    /\ layout.log2Cols \in layout.minCols .. layout.maxCols
    /\ layout.log2Rows <= layout.maxRows
    /\ layout.log2Cols + layout.log2Rows >= Limits(p).min

TileCount(layout) == (Len(layout.cols) - 1) * (Len(layout.rows) - 1)

-----------------------------------------------------------------------------
(* The header *)

\* write_uniform_tile_log2
Log2Symbols(name, min, target, max) ==
    [i \in 1 .. target - min |-> Flag(name, -1, TRUE)] \o When(target < max, <<Flag(name, -1, FALSE)>>)

\* write_mvp_tile_info
TileInfo(layout) ==
    <<Flag("uniform_spacing", -1, TRUE)>>
    \o Log2Symbols("log2_cols", layout.minCols, layout.log2Cols, layout.maxCols)
    \o Log2Symbols("log2_rows", layout.minRows, layout.log2Rows, layout.maxRows)
    \o When(TileCount(layout) # 1, <<Bits("tile_size_bytes_minus1", 2, 3)>>)

\* The reader: flags from at on until one says stop, or the limit is reached.
Increments(symbols, at, most) ==
    CHOOSE n \in 0..most :
        /\ \A i \in 0 .. n - 1 : symbols[at + i].value = 1
        /\ n = most \/ symbols[at + n].value # 1
ReadTilesWithin(p, limits, symbols) ==
    LET more == Increments(symbols, 2, limits.maxCols - limits.minCols)
        log2Cols == limits.minCols + more
        next == 2 + more + (IF log2Cols < limits.maxCols THEN 1 ELSE 0)
        minRows == Less(limits.min, log2Cols)
        down == Increments(symbols, next, limits.maxRows - minRows)
        log2Rows == minRows + down
        after == next + down + (IF log2Rows < limits.maxRows THEN 1 ELSE 0)
    IN  [cols |-> UniformStarts(p.w, log2Cols), rows |-> UniformStarts(p.h, log2Rows),
         length |-> after - 1 + (IF log2Cols + log2Rows > 0 THEN 1 ELSE 0)]
ReadTiles(p, symbols) == ReadTilesWithin(p, Limits(p), symbols)

\* A tile is no wider than the level allows.
NoneTooWide(p, layout) ==
    \A i \in 1 .. Len(layout.cols) - 1 : layout.cols[i + 1] - layout.cols[i] <= p.level.width

-----------------------------------------------------------------------------

CONSTANT Pictures   \* [w, h, level, way, content, hash]: way is "lossless", "lossy",
                    \* "black" or "palette"; content gives the value of each block,
                    \* hash the hash of each value

\* The encoder codes whole blocks of 8 samples up to MaxFrameDimension.
PicturesAssumption ==
    \A p \in Pictures :
        /\ p.w \in 1..MaxFrameDimension /\ p.w % Leaf = 0
        /\ p.h \in 1..MaxFrameDimension /\ p.h % Leaf = 0
        /\ p.level.width \in Nat \ {0} /\ p.level.area \in Nat \ {0} /\ p.level.count \in Nat \ {0}
        /\ p.way \in {"lossless", "lossy", "black", "palette"}
ASSUME PicturesAssumption

VARIABLES
    picture,    \* the picture
    phase,      \* "layout", "search", "header", "tiles", "done" or "panicked"
    layout,     \* its tiles
    waiting,    \* blocks still to be visited
    visited,    \* coded_blocks, in the order of the visits
    copies,     \* candidate_copy and copy_vector of the blocks that have one
    tileInfo,   \* what the header says of the tiles
    decoded     \* vector and value of each block a decoder has

copyVars == <<picture, phase, layout, waiting, visited, copies, tileInfo, decoded>>

-----------------------------------------------------------------------------
(* Blocks, tiles and vectors *)

Block8 == 8                         \* AV2_IBC_HASH_BLOCK_SIZE
High == picture.h \div Block8
Wide == picture.w \div Block8
SuperblockOf(b) == <<b[1] \div 8, b[2] \div 8>>

\* The column or the row of tiles a superblock is in.
Band(starts, sb) == CHOOSE i \in 1 .. Len(starts) - 1 : starts[i] <= sb /\ sb < starts[i + 1]
TileWith(cols, rows, b) == <<Band(rows, SuperblockOf(b)[1]), Band(cols, SuperblockOf(b)[2])>>

\* blocks_share_tile
ShareTile(a, b) == TileWith(layout.cols, layout.rows, a) = TileWith(layout.cols, layout.rows, b)

Source(b, v) == <<b[1] + (v[1] \div Block8), b[2] + (v[2] \div Block8)>>
InPicture(b) == b[1] \in 0 .. High - 1 /\ b[2] \in 0 .. Wide - 1

Above == <<-8, 0>>                  \* AV2_IBC_BV_ABOVE_8X8 and the other defaults
Left == <<0, -8>>
DefaultVectors == << <<-64, 0>>, <<0, -320>>, Above, Left >>
LeftSuperblocks == 4                \* LOCAL_LEFT_SB_COUNT

\* local_ibc_vector_is_valid_8x8
VectorIsValid(b, v) ==
    LET source == Source(b, v)
        from == SuperblockOf(source)
        at == SuperblockOf(b)
    IN  /\ InPicture(source)
        /\ ShareTile(b, source)
        /\ v[2] + Block8 <= 0 \/ v[1] + Block8 <= 0
        /\ from[1] = at[1]
        /\ from[2] \in at[2] - LeftSuperblocks .. at[2]

\* The places build_bvp_stack_8x8 looks at, in rows and columns of 4 samples;
\* neighbor_index_for_mi_offset
Scan == << <<1, -1>>, <<-1, 1>>, <<0, -1>>, <<-1, 0>>, <<2, -1>>, <<-1, 2>>, <<-1, -1>>, <<1, -3>>, <<0, -3>> >>
Neighbours8(b) ==
    LET places == [i \in DOMAIN Scan |-> <<2 * b[1] + Scan[i][1], 2 * b[2] + Scan[i][2]>>]
        inside == SelectSeq(places, LAMBDA m : m[1] \in 0 .. 2 * High - 1 /\ m[2] \in 0 .. 2 * Wide - 1)
    IN  [i \in DOMAIN inside |-> <<inside[i][1] \div 2, inside[i][2] \div 2>>]

\* push_unique_spatial_bv
SpatialVectors(vectors) == LET all == Values(Distinct(vectors)) IN SubSeq(all, 1, Smaller(MaxVectors, Len(all)))
WithDefaults(vectors) == SubSeq(vectors \o DefaultVectors, 1, MaxVectors)

-----------------------------------------------------------------------------
(* The order of the blocks *)

\* append_8x8_leaf_order: each block of the list replaced by its halves, where
\* it is split, and left out where it is beyond the border.
Parts(n, r) ==
    IF ~InRegion(n, r) THEN <<>>
    ELSE IF FixedChoice(n, r) = "none" THEN <<n>>
    ELSE Halves(n, FixedChoice(n, r))
LeafOrder(root, r) ==
    LET level[k \in 0..7] ==
            IF k = 0 THEN <<root>>
            ELSE LET before == level[k - 1] IN FlattenSeq([i \in DOMAIN before |-> Parts(before[i], r)])
    IN  level[7]
PlacesOf(nodes, top, left) == [i \in DOMAIN nodes |-> <<top + (nodes[i].row \div 2), left + (nodes[i].col \div 2)>>]

\* Superblocks of rows and columns from..to - 1, in raster order.
RasterOf(fromRow, toRow, fromCol, toCol) ==
    LET across == toCol - fromCol
    IN  [i \in 1 .. (toRow - fromRow) * across |-> <<fromRow + ((i - 1) \div across), fromCol + ((i - 1) % across)>>]

\* build_local_ibc: the blocks of each superblock, as of a picture of its own
SearchOrder(p) ==
    LET superblocks == RasterOf(0, Superblocks(p.h), 0, Superblocks(p.w))
        part(sb) == [rows |-> Smaller(SuperblockRows, (p.h \div 4) - SuperblockRows * sb[1]),
                     cols |-> Smaller(SuperblockRows, (p.w \div 4) - SuperblockRows * sb[2])]
    IN  FlattenSeq([i \in DOMAIN superblocks |->
            PlacesOf(LeafOrder(Root(0, 0), part(superblocks[i])), 8 * superblocks[i][1], 8 * superblocks[i][2])])

\* The blocks in the order of the tiles, of their superblocks and of the splits
\* Fixed8x8Leaves makes of those.
TileOrderOf(p, l, i, j) ==
    LET region == [rows |-> Smaller(SuperblockRows * l.rows[i + 1], p.h \div 4) - SuperblockRows * l.rows[i],
                   cols |-> Smaller(SuperblockRows * l.cols[j + 1], p.w \div 4) - SuperblockRows * l.cols[j]]
        superblocks == RasterOf(0, l.rows[i + 1] - l.rows[i], 0, l.cols[j + 1] - l.cols[j])
    IN  FlattenSeq([k \in DOMAIN superblocks |->
            PlacesOf(LeafOrder(Root(SuperblockRows * superblocks[k][1], SuperblockRows * superblocks[k][2]), region),
                     8 * l.rows[i], 8 * l.cols[j])])
CodingOrder(p, l) ==
    LET tiles == RasterOf(1, Len(l.rows), 1, Len(l.cols))
    IN  FlattenSeq([k \in DOMAIN tiles |-> TileOrderOf(p, l, tiles[k][1], tiles[k][2])])

-----------------------------------------------------------------------------
(* The search *)

Content(b) == picture.content[b]
Hash(b) == picture.hash[Content(b)]
IsVisited(b) == \E i \in DOMAIN visited : visited[i] = b

\* build_bvp_stack_8x8: the vectors of the neighbours
VectorsAround(b) ==
    LET with == SelectSeq(Neighbours8(b), LAMBDA nb : IsVisited(nb) /\ ShareTile(b, nb) /\ nb \in DOMAIN copies)
    IN  SpatialVectors([i \in DOMAIN with |-> copies[with[i]].vector])

PositionOf(stack, v) == CHOOSE i \in DOMAIN stack : stack[i] = v /\ \A j \in 1 .. i - 1 : stack[j] # v

\* Mutant: equal hashes are taken for equal blocks.
MutSameContent(a, b) == Hash(a) = Hash(b)

\* Equal hashes and, planar_yuv_8x8_regions_equal, equal samples
SameContent(a, b) == Hash(a) = Hash(b) /\ Content(a) = Content(b)

\* visit_local_ibc_block: the copy of the block above or to the left, whichever
\* stands first in the list.
DirectCopies(b, stack) ==
    {v \in {Above, Left} :
        /\ VectorIsValid(b, v) /\ IsVisited(Source(b, v)) /\ SameContent(b, Source(b, v))
        /\ Contains(stack, v)}
DirectCopy(b, stack) ==
    LET found == {PositionOf(stack, v) : v \in DirectCopies(b, stack)}
        first == CHOOSE i \in found : \A j \in found : i <= j
    IN  IF found = {} THEN <<>> ELSE <<[vector |-> stack[first], drl |-> first - 1, ref |-> <<>>]>>

\* closest_explicit_ref_bv
Apart(v, w) == Magnitude(v[1] - w[1]) + Magnitude(v[2] - w[2])
Closest(stack, v) ==
    CHOOSE i \in DOMAIN stack :
        \A j \in DOMAIN stack : Apart(v, stack[i]) < Apart(v, stack[j]) \/ (Apart(v, stack[i]) = Apart(v, stack[j]) /\ i <= j)

\* update_best_explicit_candidate
Score(stack, v) == (Apart(v, stack[Closest(stack, v)]) * 8) + Closest(stack, v) - 1

\* find_local_explicit_candidate, in the bucket of the superblock's hash index:
\* the best score, of equal ones the first in the picture.
ExplicitCopy(b, stack) ==
    LET vector(c) == <<Block8 * (c[1] - b[1]), Block8 * (c[2] - b[2])>>
        found == {c \in {visited[i] : i \in DOMAIN visited} :
                    SuperblockOf(c) = SuperblockOf(b) /\ SameContent(b, c) /\ VectorIsValid(b, vector(c))}
        rank(c) == (Score(stack, vector(c)) * High * Wide) + (c[1] * Wide) + c[2]
        best == vector(CHOOSE c \in found : \A other \in found : rank(c) <= rank(other))
        ref == Closest(stack, best)
    IN  IF found = {} THEN <<>> ELSE <<[vector |-> best, drl |-> ref - 1, ref |-> stack[ref]]>>

\* A block with vectors around it is not copied.
CopyOf(b) ==
    IF VectorsAround(b) # <<>> THEN <<>>
    ELSE IF DirectCopies(b, DefaultVectors) # {} THEN DirectCopy(b, DefaultVectors)
    ELSE ExplicitCopy(b, DefaultVectors)

-----------------------------------------------------------------------------
(* The picture *)

NoTiles == Layout([minCols |-> 0, maxCols |-> 0, maxRows |-> 0, min |-> 0], <<0>>, <<0>>, 0, 0, 0)
Nothing == <<>>         \* a function of no block

CopyInit ==
    /\ picture \in Pictures
    /\ phase = "layout"
    /\ layout = NoTiles
    /\ waiting = <<>>
    /\ visited = <<>>
    /\ copies = Nothing
    /\ tileInfo = <<>>
    /\ decoded = Nothing

\* The layout of a way of coding; a lossless picture is searched for copies with
\* the tiles it has if there are some.
FirstLayout(p) ==
    CASE p.way = "lossless" -> CopyLayout(p)
      [] p.way = "lossy" -> FastLayout(p)
      [] p.way = "black" -> LayoutOfSuperblocks(p)
      [] p.way = "palette" -> LayoutOfOne(p)

LayTiles ==
    /\ phase = "layout"
    /\ \E first \in {FirstLayout(picture)}, searched \in {picture.way = "lossless"} :
           IF ~Asserted(picture, first)
           THEN phase' = "panicked" /\ UNCHANGED <<layout, waiting>>
           ELSE /\ phase' = IF searched THEN "search" ELSE "header"
                /\ layout' = first
                /\ waiting' = IF searched THEN SearchOrder(picture) ELSE <<>>
    /\ UNCHANGED <<picture, visited, copies, tileInfo, decoded>>

\* visit_local_ibc_block
VisitBlock ==
    /\ phase = "search" /\ waiting # <<>>
    /\ \E copy \in {CopyOf(Head(waiting))} :
        copies' = IF copy = <<>> THEN copies ELSE (Head(waiting) :> copy[1]) @@ copies
    /\ visited' = Append(visited, Head(waiting))
    /\ waiting' = Tail(waiting)
    /\ UNCHANGED <<picture, phase, layout, tileInfo, decoded>>

\* The copies are dropped unless one is of the block above or to the left
\* (selected_copy_blocks); a picture without copies has the tiles of FastLayout,
\* if its assertions hold.
KeepCopies ==
    /\ phase = "search" /\ waiting = <<>>
    /\ IF \E b \in DOMAIN copies : copies[b].vector \in {Above, Left}
       THEN phase' = "header" /\ UNCHANGED <<layout, copies>>
       ELSE \E fast \in {FastLayout(picture)} :
            /\ phase' = IF Asserted(picture, fast) THEN "header" ELSE "panicked"
            /\ layout' = fast
            /\ copies' = Nothing
    /\ UNCHANGED <<picture, waiting, visited, tileInfo, decoded>>

\* write_mvp_tile_info, in the header of the picture; only a picture with copies
\* is followed into its tiles.
WriteHeader ==
    /\ phase = "header"
    /\ tileInfo' = TileInfo(layout)
    /\ IF copies = Nothing
       THEN phase' = "done" /\ UNCHANGED waiting
       ELSE phase' = "tiles" /\ waiting' = CodingOrder(picture, layout)
    /\ UNCHANGED <<picture, layout, visited, copies, decoded>>

\* A decoder's tiles, the vectors it has around a block, and the vector and the
\* value it gives a block it is told to copy.
Known == ReadTiles(picture, tileInfo)
DecodedAround(known, b) ==
    LET tile(c) == TileWith(known.cols, known.rows, c)
        with == SelectSeq(Neighbours8(b), LAMBDA nb :
                    nb \in DOMAIN decoded /\ tile(nb) = tile(b) /\ decoded[nb].vector # <<>>)
    IN  SpatialVectors([i \in DOMAIN with |-> decoded[with[i]].vector])
ValueOf(source) == IF source \in DOMAIN decoded THEN decoded[source].value ELSE -1
DecodedVector(ref, dv) == IF dv = <<>> THEN ref ELSE <<ref[1] + dv[1], ref[2] + dv[2]>>
DecodedCopy(b, drl, dv) ==
    CHOOSE got \in {[vector |-> v, value |-> ValueOf(Source(b, v))] :
                       v \in {DecodedVector(stack[drl + 1], dv) :
                                stack \in {WithDefaults(DecodedAround(known, b)) : known \in {Known}}}} : TRUE

\* write_intrabc_copy, write_intrabc_explicit_dv: the difference to the vector
\* of the list that is named, which a decoder adds to its own; any other block
\* is coded without loss.
Told(copy) ==
    IF copy.ref = <<>> THEN <<>> ELSE <<copy.vector[1] - copy.ref[1], copy.vector[2] - copy.ref[2]>>
CodeBlock ==
    /\ phase = "tiles" /\ waiting # <<>>
    /\ LET b == Head(waiting)
       IN  \E got \in {IF b \in DOMAIN copies THEN DecodedCopy(b, copies[b].drl, Told(copies[b]))
                       ELSE [vector |-> <<>>, value |-> Content(b)]} :
               decoded' = (b :> got) @@ decoded
    /\ waiting' = Tail(waiting)
    /\ UNCHANGED <<picture, phase, layout, visited, copies, tileInfo>>

CopyNext == LayTiles \/ VisitBlock \/ KeepCopies \/ WriteHeader \/ CodeBlock
CopySpec == CopyInit /\ [][CopyNext]_copyVars

-----------------------------------------------------------------------------
(* Properties *)

TilesAreFound ==
    tileInfo' # tileInfo =>
        \E read \in {ReadTiles(picture, tileInfo')} :
            /\ read.cols = layout.cols /\ read.rows = layout.rows
            /\ read.length = Len(tileInfo')
            /\ NoneTooWide(picture, layout)

CopiesAreFound ==
    decoded' # decoded =>
        LET b == Head(waiting)
            tile(c) == TileWith(layout.cols, layout.rows, c)
        IN  /\ b \notin DOMAIN decoded
            /\ decoded'[b].value = Content(b)
            /\ \A v \in {decoded'[b].vector} \ {<<>>} :
                LET source == Source(b, v)
                IN  /\ source \in DOMAIN decoded
                    /\ tile(source) = tile(b)
                    /\ SuperblockOf(source)[1] = SuperblockOf(b)[1]
                    /\ SuperblockOf(source)[2] >= SuperblockOf(b)[2] - LeftSuperblocks

\* A reader of the header has the tiles the writer has, whichever layout it was,
\* none too wide.  The list of vectors the search kept is the one a decoder has
\* when it comes to the block, in the order of the tiles: it copies the block the
\* search found, from the same tile, already there, near enough, and what it
\* copies is what the picture holds.
ReaderFindsTilesAndCopies == [][TilesAreFound /\ CopiesAreFound]_copyVars

\* Every size validate_shape accepts is coded: "AV2 geometry supports at most
\* 65536x65536 coded pictures at this entry point" (av2/layout.rs:20).
SupportedSizesAreCoded == ValidShape(picture.w, picture.h) => phase # "panicked"
=============================================================================

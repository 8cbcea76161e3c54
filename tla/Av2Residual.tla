---------------------------- MODULE Av2Residual ----------------------------
(***************************************************************************)
(* The coefficients of an AV2 tile. First a transform block                *)
(* (av2/tile/txb*.rs, coefficient_high_range.rs): the symbols of its       *)
(* coefficients with their contexts, what it tells the blocks beside it,   *)
(* and the lossless transform. A block gives each <<row, column>> a level  *)
(* with its sign: a coefficient divided by 8. A kind is [plane, shape,     *)
(* variant, fsc, black]: a shape is <<width, height>>; variant says luma   *)
(* between frames, or chroma of a leaf that is coded so or without a       *)
(* transform; fsc is luma without a transform; black is a block of a black *)
(* tile. The context of a symbol is the key of its distribution, as the    *)
(* code numbers them.                                                      *)
(*                                                                         *)
(* Then the leaves (av2/tile/*residual*.rs, chroma_geometry.rs,            *)
(* mode_contexts.rs): which transform blocks a leaf has in each plane, and *)
(* the arrays that carry what the blocks above and to the left were like.  *)
(* A reader has the blocks it has read. One step codes one leaf: all its   *)
(* luma blocks, then U, then V. The samples are left open: a tile deals    *)
(* out its blocks in turn. Where samples are kept (lossless) a block is    *)
(* what the transform makes of a residual, elsewhere it is any block of    *)
(* levels.                                                                 *)
(***************************************************************************)
EXTENDS Av2LeafSyntax, TLC

Positions(shape) == (0 .. shape[2] - 1) \X (0 .. shape[1] - 1)
Diagonal(p) == p[1] + p[2]
Earlier(a, b) == Diagonal(a) < Diagonal(b) \/ (Diagonal(a) = Diagonal(b) /\ a[1] > b[1])

\* TX4X4_SCAN, TX4X8_SCAN, TX8X8_SCAN: the diagonals, each from below.
Scans == [shape \in {<<4, 4>>, <<4, 8>>, <<8, 8>>} |->
    [i \in 1 .. shape[1] * shape[2] |->
        CHOOSE p \in Positions(shape) : Cardinality({q \in Positions(shape) : Earlier(q, p)}) = i - 1]]

IsZero(b) == \A p \in DOMAIN b : b[p] = 0
\* coefficient_levels_and_bounds: the first and the last nonzero level, from 1.
Bounds(k, b) == {i \in 1 .. Len(Scans[k.shape]) : b[Scans[k.shape][i]] # 0}

-----------------------------------------------------------------------------
(* Levels around a position *)

LevelAt(b, p, down, right) ==
    LET at == <<p[1] + down, p[2] + right>>
    IN  IF at \in DOMAIN b THEN Smaller(Magnitude(b[at]), 127) ELSE 0
Corner(b, p, limit) ==
    Smaller(LevelAt(b, p, 0, 1), limit) + Smaller(LevelAt(b, p, 1, 0), limit) + Smaller(LevelAt(b, p, 1, 1), limit)
Cross(b, p, limit) ==
    Corner(b, p, limit) + Smaller(LevelAt(b, p, 0, 2), limit) + Smaller(LevelAt(b, p, 2, 0), limit)
Behind(b, p, limit) == Smaller(LevelAt(b, p, 0, -1), limit) + Smaller(LevelAt(b, p, -1, 0), limit)
Half(n) == (n + 1) \div 2

\* luma_lf_limits, chroma_lf_limits
IsLow(k, p) == IF k.plane = "y" THEN Diagonal(p) < 4 ELSE Diagonal(p) = 0

\* get_lower_levels_ctx_eob_for_txb
LastContext(index, samples) ==
    CASE index = 0 -> 0
      [] index \in 1 .. samples \div 8 -> 1
      [] index \in samples \div 8 + 1 .. samples \div 4 -> 2
      [] OTHER -> 3

\* luma_lower_levels_context, chroma_lower_levels_context
LowerContext(k, b, p) ==
    LET limit == IF IsLow(k, p) THEN 5 ELSE 3
        luma == Half(Cross(b, p, limit))
    IN  CASE k.plane = "u" -> Smaller(Half(Corner(b, p, limit)), 3)
          [] k.plane = "v" -> Smaller(Half(Corner(b, p, limit)), 3) + 4
          [] OTHER -> CASE Diagonal(p) = 0 -> Smaller(luma, 8)
                        [] Diagonal(p) = 1 -> Smaller(luma, 6) + 9
                        [] Diagonal(p) \in 2..3 -> Smaller(luma, 4) + 16
                        [] Diagonal(p) \in 4..5 -> Smaller(luma, 4)
                        [] Diagonal(p) = 6 -> Smaller(luma, 4) + 5

\* luma_br_context, chroma_br_context
RangeContext(k, b, p) ==
    IF k.plane # "y" THEN Smaller(Half(Corner(b, p, 127)), 3)
    ELSE Smaller(Half(Corner(b, p, 5)), 6) + (IF IsLow(k, p) /\ Diagonal(p) # 0 THEN 7 ELSE 0)

-----------------------------------------------------------------------------
(* Levels *)

Plane(k) == IF k.plane = "y" THEN "y_" ELSE "uv_"

\* AV2_STATIC_CDF_COEFF_*_BASE: a black tile has its own for its only level.
BaseKey(k, low, last) ==
    IF k.plane = "y" THEN CASE low /\ last -> IF k.black THEN 360 ELSE 110 [] ~low /\ last -> 130
                            [] low /\ ~last -> 160 [] OTHER -> 190
    ELSE CASE low /\ last -> IF k.black THEN 362 ELSE 260 [] ~low /\ last -> 280
           [] low /\ ~last -> 300 [] OTHER -> 320
RangeKey(k, low) ==
    CASE k.plane # "y" -> 340 [] k.plane = "y" /\ ~low -> 240 [] OTHER -> IF k.black THEN 361 ELSE 220

\* write_luma_coefficient_level, write_chroma_coefficient_level: the last level
\* is not 0; chroma has no low range where frequencies are low.
LevelSymbols(k, b, index, last) ==
    LET p == Scans[k.shape][index + 1]
        low == IsLow(k, p)
        top == IF low THEN 5 ELSE 3
        level == Magnitude(b[p])
        name == Plane(k) \o (IF low THEN "base_lf" ELSE "base") \o (IF last THEN "_eob" ELSE "")
        ctx == IF last THEN LastContext(index, Len(Scans[k.shape])) ELSE LowerContext(k, b, p)
    IN  <<Symbol(name \o (IF k.black THEN "_dc" ELSE ""), BaseKey(k, low, last) + ctx,
                 Smaller(level, top) - (IF last THEN 1 ELSE 0))>>
        \o When(level >= top /\ (k.plane = "y" \/ ~low),
                <<Symbol(Plane(k) \o (IF low THEN "low_range_lf" ELSE "low_range") \o (IF k.black THEN "_dc" ELSE ""),
                         RangeKey(k, low) + RangeContext(k, b, p), Smaller(level - top, 3))>>)

\* next_high_range_symbol: the level that base and low range reach.
DecodedBase(k, p) ==
    CASE k.fsc -> 6
      [] k.plane = "y" /\ ~k.fsc -> IF IsLow(k, p) THEN 8 ELSE 6
      [] OTHER -> IF IsLow(k, p) THEN 5 ELSE 6

\* adaptive_high_range_rice_parameter
RiceParameter(average) ==
    CASE average \in 0..3 -> 1 [] average \in 4..7 -> 2 [] average \in 8..15 -> 3
      [] average \in 16..31 -> 4 [] average \in 32..63 -> 5 [] OTHER -> 6

\* write_truncated_rice, write_exp_golomb; a run of zeros is read bit by bit, and
\* so is the bit that ends it.
Zeros(count) == [i \in 1..count |-> Bits("high_range", 1, 0)]
Golomb(value, k) ==
    LET x == value + 2 ^ k
        length == FloorLog2(x) + 1
    IN  Zeros(length - 1 - k) \o <<Bits("high_range", 1, 1), Bits("high_range", length - 1, x - 2 ^ (length - 1))>>
HighRange(value, m) ==
    LET most == Smaller(m + 4, 6)
        quotient == value \div 2 ^ m
    IN  IF quotient >= most THEN Zeros(most) \o Golomb(value - most * 2 ^ m, m + 1)
        ELSE Zeros(quotient) \o <<Bits("high_range", 1, 1), Bits("high_range", m, value % 2 ^ m)>>

-----------------------------------------------------------------------------
(* Signs *)

SignOf(x) == IF x < 0 THEN -1 ELSE IF x > 0 THEN 1 ELSE 0
SignAt(b, p, down, right) ==
    LET at == <<p[1] + down, p[2] + right>> IN IF at \in DOMAIN b THEN SignOf(b[at]) ELSE 0

\* idtx_sign_context
IdtxSignContext(b, p) ==
    LET sum == SignAt(b, p, 0, -1) + SignAt(b, p, -1, 0) + SignAt(b, p, -1, -1)
        ctx == CASE sum > 2 -> 5 [] sum < -2 -> 6 [] sum \in 1..2 -> 1 [] sum \in -2 .. -1 -> 2 [] sum = 0 -> 0
    IN  IF Magnitude(b[p]) > 3 /\ ctx # 0 THEN ctx + 2 ELSE ctx

SignSymbol(k, b, p, sign) ==
    CASE k.fsc -> Flag("idtx_sign", IdtxSignContext(b, p), b[p] < 0)
      [] ~k.fsc /\ k.plane = "y" /\ Diagonal(p) = 0 -> Flag("y_dc_sign", 370 + sign, b[p] < 0)
      [] OTHER -> Flag("ac_sign", -1, b[p] < 0)

\* Signs and high ranges in the order of the positions; the average of the high
\* ranges so far picks the code of the next.
SignsAndRanges(k, b, order, sign) ==
    LET coded[i \in 0 .. Len(order)] ==
            IF i = 0 THEN [average |-> 0, symbols |-> <<>>]
            ELSE LET before == coded[i - 1]
                     value == Magnitude(b[order[i]]) - DecodedBase(k, order[i])
                     symbols == Append(before.symbols, SignSymbol(k, b, order[i], sign))
                 IN  IF value < 0 THEN [average |-> before.average, symbols |-> symbols]
                     ELSE [average |-> (before.average + value) \div 2,
                           symbols |-> symbols \o HighRange(value, RiceParameter(before.average))]
    IN  coded[Len(order)].symbols

-----------------------------------------------------------------------------
(* Blocks *)

\* Av2TxbSkipSyntax
SkipSymbol(k, skip, allZero) ==
    LET wide == k.shape # <<4, 4>>
    IN  CASE k.plane = "v" -> Flag("v_skip", 64 + skip, allZero)
          [] k.plane = "u" /\ ~wide -> Flag("u_skip", (IF k.variant THEN 48 ELSE 32) + skip, allZero)
          [] k.plane = "u" /\ wide -> Flag("u_skip", (IF k.variant THEN 630 ELSE 620) + skip, allZero)
          [] OTHER -> IF k.fsc THEN Flag("y_skip", 16 + 9, allZero)
                      ELSE Flag("y_skip", (IF k.variant THEN 584 ELSE 0) + skip, allZero)

\* write_eob, eob_pos_token, eob_offset_bits
EndToken(end) == CeilLog2(end) + 1
GroupStart == <<1, 2, 3, 5, 9, 17, 33>>
EndKey(k) ==
    CASE k.plane = "y" -> IF k.variant THEN 600 ELSE 100
      [] OTHER -> CASE k.shape = <<4, 4>> -> 101 [] k.shape = <<8, 8>> -> 640 [] k.shape = <<4, 8>> -> 641
EndSymbols(k, end) ==
    LET token == EndToken(end)
        extra == end - GroupStart[token]
        bits == token - 2
    IN  <<Symbol("eob", EndKey(k), token - 1)>>
        \o When(bits > 0, <<Symbol("eob_extra", 102, extra \div 2 ^ (bits - 1)),
                            Bits("eob_extra_bits", bits - 1, extra % 2 ^ (bits - 1))>>)

\* write_regular_inter_dct_dct_tx_type: its context takes the end for a raster
\* position.
TypeSymbols(end) ==
    LET diagonal == ((end - 1) % 4) + ((end - 1) \div 4)
    IN  <<Symbol("inter_tx_type_4x4", 601 + (CASE diagonal < 2 -> 1 [] diagonal > 4 -> 2 [] OTHER -> 0), 1)>>

\* write_luma_regular_residual_txb, write_chroma_txb, write_y_black_dc_txb: the
\* last level first.
RegularSymbols(k, sign, b) ==
    LET end == Max(Bounds(k, b))
        scan == Scans[k.shape]
        order == SelectSeq([i \in 1..end |-> scan[end + 1 - i]], LAMBDA p : b[p] # 0)
    IN  EndSymbols(k, end)
        \o When(k.plane = "y" /\ k.variant, TypeSymbols(end))
        \o FlattenSeq([i \in 1..end |-> LevelSymbols(k, b, end - i, i = 1)])
        \o SignsAndRanges(k, b, order, sign)

\* idtx_bob_context
BeginContext(index) == CASE index \in 0..2 -> 0 [] index \in 3..4 -> 1 [] OTHER -> 2

\* write_luma_palette_fsc_txb: the first level first.
IdtxSymbols(k, b) ==
    LET begin == Min(Bounds(k, b))
        scan == Scans[k.shape]
        level(i) == Magnitude(b[scan[i]])
        base(i) == IF i = begin THEN Symbol("idtx_base_bob", BeginContext(i - 1), Smaller(level(i), 3) - 1)
                   ELSE Symbol("idtx_base", Smaller(Behind(b, scan[i], 3), 6), Smaller(level(i), 3))
    IN  EndSymbols(k, 17 - begin)
        \o FlattenSeq([j \in 1 .. 17 - begin |->
                LET i == begin - 1 + j
                IN  <<base(i)>> \o When(level(i) > 2, <<Symbol("idtx_low_range", Smaller(Behind(b, scan[i], 5), 6),
                                                               Smaller(level(i) - 3, 3))>>)])
        \o SignsAndRanges(k, b, SelectSeq(scan, LAMBDA p : b[p] # 0), 0)

TxbSymbols(k, skip, sign, b) ==
    IF IsZero(b) THEN <<SkipSymbol(k, skip, TRUE)>>
    ELSE <<SkipSymbol(k, skip, FALSE)>> \o (IF k.fsc THEN IdtxSymbols(k, b) ELSE RegularSymbols(k, sign, b))

\* lossless_entropy_context: the levels, and in its upper bits the sign of the
\* first.
EntropyContext(b) ==
    Smaller(7, MapThenSumSet(LAMBDA p : Magnitude(b[p]), DOMAIN b))
    + (CASE b[<<0, 0>>] < 0 -> 8 [] b[<<0, 0>>] > 0 -> 16 [] OTHER -> 0)

\* luma_txb_skip_context
LumaSkipContext(above, left) ==
    LET a == Smaller(above % 8, 4)
        l == Smaller(left % 8, 4)
        low == Smaller(a, l)
        high == IF a < l THEN l ELSE a
    IN  CASE high = 0 -> 1
          [] low = 0 /\ high \in 1..2 -> 2
          [] low = 1 /\ high = 1 -> 2
          [] low = 0 /\ high > 2 -> 3
          [] low = 1 /\ high \in 2..3 -> 3
          [] low = 2 /\ high = 2 -> 3
          [] low \in 1..2 /\ high = 4 -> 4
          [] low \in 2..3 /\ high = 3 -> 4
          [] OTHER -> 5

\* dc_sign_context
SignContext(above, left) ==
    LET sign(context) == CASE context \div 8 = 1 -> -1 [] context \div 8 = 2 -> 1 [] OTHER -> 0
        sum == sign(above) + sign(left)
    IN  CASE sum = 0 -> 0 [] sum < 0 -> 1 [] sum > 0 -> 2

\* chroma_txb_skip_base_context
ChromaSkipContext(above, left) == (IF above # 0 THEN 1 ELSE 0) + (IF left # 0 THEN 1 ELSE 0)

-----------------------------------------------------------------------------
(* The lossless transform of 4x4 samples *)

OnColumns(Op(_), b) ==
    LET line == [x \in 0..3 |-> Op(<<b[<<0, x>>], b[<<1, x>>], b[<<2, x>>], b[<<3, x>>]>>)]
    IN  [p \in DOMAIN b |-> line[p[2]][p[1] + 1]]
OnRows(Op(_), b) ==
    LET line == [y \in 0..3 |-> Op(<<b[<<y, 0>>], b[<<y, 1>>], b[<<y, 2>>], b[<<y, 3>>]>>)]
    IN  [p \in DOMAIN b |-> line[p[1]][p[2] + 1]]

\* av2_fwht4x4 and av2_iwht4x4, each of one line
Lift(v) ==
    LET a == v[1] + v[2]
        d == v[4] - v[3]
        e == (a - d) \div 2
        b == e - v[2]
        c == e - v[3]
    IN  <<a - c, c, d + b, b>>
Unlift(v) ==
    LET a == v[1] + v[2]
        d == v[3] - v[4]
        e == (a - d) \div 2
        b == e - v[4]
        c == e - v[2]
    IN  <<a - b, b, c, d + c>>
Forward(residual) == OnRows(Lift, OnColumns(Lift, residual))
Inverted(levels) == OnColumns(Unlift, OnRows(Unlift, levels))

-----------------------------------------------------------------------------

CONSTANT ResidualTiles      \* the tiles TLC looks at, see MCAv2Syntax

VARIABLES
    field,      \* the tile: size, format, writer, leaves in order, kinds and blocks to deal out
    ahead,      \* how many of its leaves are still to be coded
    marks,      \* Av2TxbEntropyContexts
    txbs,       \* the blocks of the last leaf, in order
    behind      \* the blocks of the leaves before it

residualVars == <<field, ahead, marks, txbs, behind>>

IsLossless == field.writer # "lossy"

-----------------------------------------------------------------------------
(* Spans, in units of 4x4 samples of the plane *)

LumaSpan(n) ==
    [row |-> n.row, col |-> n.col,
     width |-> Smaller(Cols(n), field.cols - n.col), height |-> Smaller(Rows(n), field.rows - n.row)]

\* chroma_tx4x4_span
ChromaSpan(n) ==
    LET across == IF field.format = "444" THEN 1 ELSE 2
        down == IF field.format = "420" THEN 2 ELSE 1
        row == n.row \div down
        col == n.col \div across
    IN  [row |-> row, col |-> col,
         width |-> Smaller(Cols(n) \div across, (field.cols \div across) - col),
         height |-> Smaller(Rows(n) \div down, (field.rows \div down) - row)]

\* The blocks of a span in raster order, each with the span it covers.
Units(plane, span) ==
    [i \in 1 .. span.width * span.height |->
        [plane |-> plane, shape |-> <<4, 4>>,
         span |-> [row |-> span.row + ((i - 1) \div span.width), col |-> span.col + ((i - 1) % span.width),
                   width |-> 1, height |-> 1]]]

\* The lossy writers code a chroma plane of a leaf in one block, in 4:2:0 as well.
Whole(plane, span) ==
    <<[plane |-> plane, shape |-> <<4 * span.width, 4 * span.height>>, span |-> span]>>
ChromaBlocks(plane, n) ==
    IF IsLossless THEN Units(plane, ChromaSpan(n)) ELSE Whole(plane, ChromaSpan(n))

\* The blocks of a leaf in order; a leaf that is skipped has none.
UnitsOf(n, kind) ==
    IF kind = "skip" THEN <<>>
    ELSE Units("y", LumaSpan(n)) \o ChromaBlocks("u", n) \o ChromaBlocks("v", n)

-----------------------------------------------------------------------------
(* Kinds of leaves and what they put into the symbols *)

KindOf(kind, unit) ==
    [plane |-> unit.plane, shape |-> unit.shape,
     variant |-> (kind = "inter" /\ unit.plane # "v") \/ (kind = "fsc" /\ unit.plane = "u"),
     fsc |-> kind = "fsc" /\ unit.plane = "y",
     black |-> kind = "black"]

\* v_txb_skip_context_for_chroma_format, and the V block of the lossy writers,
\* which is as large as its leaf.
LeafOffset(n, unit) ==
    LET width == IF field.format = "444" THEN n.w ELSE n.w \div 2
        height == IF field.format = "420" THEN n.h \div 2 ELSE n.h
    IN  IF unit.shape = <<4, 4>> /\ (width > 4 \/ height > 4) THEN 3 ELSE 0

SkipContext(n, unit, above, left, uNonzero) ==
    CASE unit.plane = "y" -> LumaSkipContext(above, left)
      [] unit.plane = "u" -> ChromaSkipContext(above, left) + 6
      [] unit.plane = "v" -> ChromaSkipContext(above, left) + LeafOffset(n, unit) + (IF uNonzero THEN 6 ELSE 0)

-----------------------------------------------------------------------------
(* The arrays *)

NoMarks(t) == [plane \in {"y", "u", "v"} |->
    [above |-> [x \in 0 .. t.cols - 1 |-> 0], left |-> [y \in 0 .. t.rows - 1 |-> 0]]]
Marked(m, span, context) ==
    [above |-> [x \in DOMAIN m.above |->
                    IF span.col <= x /\ x < span.col + span.width THEN context ELSE m.above[x]],
     left |-> [y \in DOMAIN m.left |->
                    IF span.row <= y /\ y < span.row + span.height THEN context ELSE m.left[y]]]

\* Mutant: a skipped leaf clears the arrays of luma only.
MutCleared(n) ==
    [marks EXCEPT !["y"] = Marked(@, LumaSpan(n), 0)]

\* clear_leaf
Cleared(n) ==
    [marks EXCEPT !["y"] = Marked(@, LumaSpan(n), 0),
                  !["u"] = Marked(@, ChromaSpan(n), 0),
                  !["v"] = Marked(@, ChromaSpan(n), 0)]

-----------------------------------------------------------------------------
(* The specification *)

Turn(choices, k) == choices[(k % Len(choices)) + 1]
Residual(shape, k) == Turn(field.blocks[shape], k)

\* What is coded for the residual that is dealt out to a block.
Levels(kind, residual) == IF field.writer = "lossless" /\ kind # "fsc" THEN Forward(residual) ELSE residual

\* The blocks of a leaf, coded one after the other; dealt is how many blocks the
\* tile has dealt out.
CodedBlocks(n, kind, dealt) ==
    LET units == UnitsOf(n, kind)
        code[i \in 0 .. Len(units)] ==
            IF i = 0 THEN [marks |-> marks, txbs |-> <<>>, uNonzero |-> FALSE]
            ELSE LET before == code[i - 1]
                     unit == units[i]
                     above == before.marks[unit.plane].above[unit.span.col]
                     left == before.marks[unit.plane].left[unit.span.row]
                     residual == Residual(unit.shape, dealt + i)
                     levels == Levels(kind, residual)
                     txb == [unit |-> unit, residual |-> residual, levels |-> levels,
                             symbols |-> TxbSymbols(KindOf(kind, unit), SkipContext(n, unit, above, left, before.uNonzero),
                                                    SignContext(above, left), levels)]
                 IN  [marks |-> [before.marks EXCEPT ![unit.plane] = Marked(@, unit.span, EntropyContext(levels))],
                      txbs |-> Append(before.txbs, txb),
                      uNonzero |-> IF unit.plane = "u" THEN ~IsZero(levels) ELSE before.uNonzero]
    IN  code[Len(units)]

ResidualInit ==
    /\ field \in ResidualTiles
    /\ ahead = Len(field.leaves)
    /\ marks = NoMarks(field)
    /\ txbs = <<>>
    /\ behind = <<>>

NextLeaf == field.leaves[Len(field.leaves) - ahead + 1]

\* clear_leaf, for a leaf without coefficients
SkipLeaf ==
    /\ ahead > 0
    /\ "skip" \in Turn(field.kinds, ahead)
    /\ marks' = Cleared(NextLeaf)
    /\ txbs' = <<>>

\* write_*_residual_coefficients
CodeCoefficients ==
    /\ ahead > 0
    /\ \E kind \in Turn(field.kinds, ahead) \ {"skip"} :
        \E coded \in {CodedBlocks(NextLeaf, kind, Len(behind) + Len(txbs))} :
            /\ marks' = coded.marks
            /\ txbs' = [i \in DOMAIN coded.txbs |-> [leaf |-> NextLeaf, kind |-> kind, txb |-> coded.txbs[i]]]

ResidualNext ==
    /\ SkipLeaf \/ CodeCoefficients
    /\ ahead' = ahead - 1
    /\ behind' = behind \o txbs
    /\ UNCHANGED field

-----------------------------------------------------------------------------
(* The reader: it has the blocks it has read. *)

Covers(c, plane, row, col) ==
    LET span == c.txb.unit.span
    IN  /\ c.txb.unit.plane = plane
        /\ span.row <= row /\ row < span.row + span.height
        /\ span.col <= col /\ col < span.col + span.width
ContextAt(read, plane, row, col) ==
    LET found == SelectSeq(read, LAMBDA c : Covers(c, plane, row, col))
    IN  IF found = <<>> THEN 0 ELSE EntropyContext(found[1].txb.levels)

\* The contexts of a block, from the blocks read before it.
Around(read, c) ==
    LET unit == c.txb.unit
        above == ContextAt(read, unit.plane, unit.span.row - 1, unit.span.col)
        left == ContextAt(read, unit.plane, unit.span.row, unit.span.col - 1)
        us == SelectSeq(read, LAMBDA o : o.leaf = c.leaf /\ o.txb.unit.plane = "u")
        uNonzero == unit.plane = "v" /\ us # <<>> /\ ~IsZero(us[Len(us)].txb.levels)
    IN  [skip |-> SkipContext(c.leaf, unit, above, left, uNonzero), sign |-> SignContext(above, left)]

\* The blocks that differ in one level or its sign, and the empty block.
Similar(b) ==
    (UNION {{[b EXCEPT ![p] = -@], [b EXCEPT ![p] = @ + 1], [b EXCEPT ![p] = @ - 1]} : p \in DOMAIN b}
     \cup {[p \in DOMAIN b |-> 0]}) \ {b}

Differ(a, b) ==
    \E i \in 1 .. Smaller(Len(a), Len(b)) :
        /\ a[i] # b[i] /\ [a[i] EXCEPT !.value = b[i].value] = b[i]
        /\ \A j \in 1 .. i - 1 : a[j] = b[j]

\* Each transform block is written in the contexts that the blocks above it, to
\* its left and, for V, in U give, in any order of sizes, kinds and borders; its
\* symbols are those of no other levels; no two kinds of symbols share a
\* distribution; samples of a lossless leaf come back from the levels.  The
\* blocks of a leaf cover each of its planes once.
TxbsAreReadBack ==
    [][ahead' # ahead =>
        /\ \A i \in DOMAIN txbs' :
            \A c \in {txbs'[i]}, around \in {Around(behind' \o SubSeq(txbs', 1, i - 1), txbs'[i])} :
                LET symbols == c.txb.symbols
                    Read(levels) == TxbSymbols(KindOf(c.kind, c.txb.unit), around.skip, around.sign, levels)
                IN  /\ symbols = Read(c.txb.levels)
                    /\ \A s \in Range(symbols) : s.value >= 0 /\ (s.ctx < 0 => s.value < 2 ^ (-s.ctx))
                    /\ c.kind # "black" => \A other \in Similar(c.txb.levels) : Differ(symbols, Read(other))
                    /\ field.writer = "lossless" /\ c.kind # "fsc" => Inverted(c.txb.levels) = c.txb.residual
        /\ \A s, t \in UNION {Range(txbs'[i].txb.symbols) : i \in DOMAIN txbs'} :
            s.ctx = t.ctx /\ s.ctx > 8 => s.name = t.name
        /\ \A i, j \in DOMAIN txbs' : \A u \in {txbs'[i].txb.unit} :
            Covers(txbs'[j], u.plane, u.span.row, u.span.col) => i = j
      ]_residualVars
=============================================================================

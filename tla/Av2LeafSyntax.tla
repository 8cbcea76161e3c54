--------------------------- MODULE Av2LeafSyntax ---------------------------
(***************************************************************************)
(* The symbols of a leaf of an AV2 tile (av2/tile/partitions.rs,           *)
(* mode_contexts.rs, palette_syntax.rs, av2/mode): luma and chroma modes,  *)
(* block copies, motion vectors, palettes and their maps; and what the     *)
(* values of the symbols say to a reader.                                  *)
(*                                                                         *)
(* A symbol is [name, ctx, value], ctx naming the distribution beside the  *)
(* name; the context of a literal is minus its bits, that of a uniform     *)
(* value its range.                                                        *)
(***************************************************************************)
EXTENDS Av2Partition, FiniteSets

CONSTANT BitDepth       \* of the samples, and so of palette colours
ASSUME LeafSyntaxAssumption == BitDepth \in 8..12

Bits(name, count, value) == Symbol(name, -count, value)
Flag(name, ctx, condition) == Symbol(name, ctx, IF condition THEN 1 ELSE 0)
When(condition, symbols) == IF condition THEN symbols ELSE <<>>
Smaller(a, b) == IF a < b THEN a ELSE b

\* ceil_log2
CeilLog2(n) == CHOOSE k \in 0..31 : 2 ^ k >= n /\ (k = 0 \/ 2 ^ (k - 1) < n)
FloorLog2(n) == CHOOSE k \in 0..30 : 2 ^ k <= n /\ n < 2 ^ (k + 1)

-----------------------------------------------------------------------------
(* Luma modes, by their joint number: 0..4 without a direction, 5..60 with   *)
(* one; Unknown where no leaf has left a mode.                               *)

Dc == 0
Vertical == 22
Horizontal == 50
Directions == 5..60
Unknown == -1

\* AV2_LUMA_DEFAULT_DIRECTIONAL_MODE_LIST
DefaultModes ==
    <<22, 50, 8, 15, 29, 36, 43, 57, 20, 24, 48, 52, 6, 10, 13, 17, 27, 31, 34, 38, 41, 45, 55, 59,
      21, 23, 49, 51, 7, 9, 14, 16, 28, 30, 35, 37, 42, 44, 56, 58, 19, 25, 47, 53, 5, 11, 12, 18,
      26, 32, 33, 39, 40, 46, 54, 60>>

\* The first of equal entries stays.
Distinct(s) == SelectSeq([i \in DOMAIN s |-> <<i, s[i]>>], LAMBDA e : \A j \in 1 .. e[1] - 1 : s[j] # e[2])
Values(s) == [i \in DOMAIN s |-> s[i][2]]

\* The modes a distance to either side of the neighbours' directions.
Beside(joint, offset) == <<((joint - offset + 50) % 56) + 5, ((joint + offset - 4) % 56) + 5>>

\* av2_luma_mode_syntax_for_block: the modes in the order of their indices.
ModeList(left, aboveRight, large) ==
    LET directed == SelectSeq(<<left, aboveRight>>, LAMBDA m : m \in Directions)
        neighbours == Values(Distinct(directed))
        near == FlattenSeq([i \in 1..4 |->
                    FlattenSeq([k \in DOMAIN neighbours |-> Beside(neighbours[k], i - 1)])])
    IN  Values(Distinct(<<0, 1, 2, 3, 4>> \o neighbours \o When(large, near) \o DefaultModes))
ModeContext(left, aboveRight) == Cardinality({i \in 1..2 : <<left, aboveRight>>[i] \in Directions})
ModeIndex(list, mode) == (CHOOSE i \in DOMAIN list : list[i] = mode) - 1

\* fsc_size_group
FscGroup(n) ==
    LET area == n.w * n.h
    IN  CASE n.w > 32 \/ n.h > 32 -> {}
          [] area = 64 -> {2} [] area = 128 -> {3} [] area = 256 -> {4} [] OTHER -> {5}

\* write_fsc_mode
FscSymbols(n, ctx, fsc) ==
    IF FscGroup(n) = {} THEN <<>>
    ELSE <<Flag("fsc_mode", 8 * Smaller(ctx, 3) + TheOne(FscGroup(n)), fsc)>>

\* write_intra_luma_mode; c holds the contexts of the leaf.
LumaModeSymbols(c, n, d, lossless) ==
    LET list == ModeList(c.left, c.aboveRight, n.w * n.h > 64)
        index == ModeIndex(list, d.mode)
        set == IF index < 13 THEN 0 ELSE 1 + (index - 13) \div 16
        ctx == Smaller(ModeContext(c.left, c.aboveRight), 2)
        mode == IF set # 0
                THEN <<Symbol("y_mode_set", 0, set), Bits("y_mode_literal", 4, (index - 13) % 16)>>
                ELSE <<Symbol("y_mode_set", 0, 0), Symbol("y_mode_idx", ctx, Smaller(index, 7))>>
                     \o When(index >= 7, <<Symbol("y_mode_idx_offset", ctx, index - 7)>>)
    IN  When(lossless, <<Flag("use_dpcm_y", 0, d.dpcm # "off")>>)
        \o (IF d.dpcm # "off" THEN <<Flag("dpcm_y_horz", 0, d.dpcm = "hor")>> ELSE mode)
        \o FscSymbols(n, c.fsc, d.fsc)

-----------------------------------------------------------------------------
(* Chroma modes, by their number in the format: 0 Dc, 1 vertical, 2          *)
(* horizontal, 3..8 the other directions, 9..12 without a direction.         *)

\* The chroma mode of a luma direction's base: chroma_uv_mode_id(base)
BaseOf(mode) == <<3, 8, 1, 5, 4, 6, 2, 7>>[((mode - 5) \div 7) + 1]

\* chroma_uv_mode_index: the chroma modes in the order of their indices.
ChromaList(mode) ==
    LET first == When(mode \in Directions, <<BaseOf(mode)>>)
    IN  first \o <<0, 9, 10, 11, 12>>
        \o SelectSeq(<<1, 2, 3, 4, 8, 5, 6, 7>>, LAMBDA m : first # <<m>>)

\* write_intra_chroma_mode; mode is the luma mode that was coded.
ChromaModeSymbols(d, mode, lossless) ==
    LET index == ModeIndex(ChromaList(mode), d.cmode)
    IN  When(lossless, <<Flag("use_dpcm_uv", 0, d.cdpcm)>>)
        \o (IF d.cdpcm THEN <<Flag("dpcm_uv_horz", 0, d.cmode = 2)>>
            ELSE <<Symbol("uv_mode_idx", IF mode \in Directions THEN 1 ELSE 0, Smaller(index, 7))>>
                 \o When(index >= 7, <<Bits("uv_mode_idx_ext", 3, index - 7)>>))

-----------------------------------------------------------------------------
(* Vectors *)

ShellClass(shell) == IF shell < 2 THEN 0 ELSE FloorLog2(shell)
ShellOffset(shell) == IF shell < 2 THEN shell ELSE shell - 2 ^ FloorLog2(shell)

\* write_av2_one_pel_mv_truncated_unary
UnarySymbols(prefix, max, value) ==
    [i \in 1 .. Smaller(max, value + 1) |->
        IF i = 1 THEN Flag(prefix \o "offset2", 0, value # 0) ELSE Flag(prefix \o "offset2", -1, value # i - 1)]

\* write_av2_one_pel_mv_col_pair_index
PairSymbols(prefix, max, pair) ==
    LET shown == Smaller(pair, 2)
    IN  [i \in 1 .. Smaller(Smaller(max, 2), shown + 1) |->
            Flag(prefix \o "col_gt", Smaller(i - 1, 1), shown # i - 1)]
        \o When(max > 2 /\ pair >= 2, <<Symbol(prefix \o "col_remainder", max - 1, pair - 2)>>)

\* write_av2_one_pel_mv_col_index
ColumnSymbols(prefix, shell, col) ==
    LET max == shell \div 2
        pair == IF col <= max THEN col ELSE shell - col
    IN  When(max > 0, PairSymbols(prefix, max, pair))
        \o When(~(pair = max /\ shell % 2 = 0),
                <<Flag(prefix \o "col_index", Smaller(ShellClass(shell), 3), col > max)>>)

\* write_av2_one_pel_mv_magnitude
MagnitudeSymbols(prefix, row, col) ==
    LET shell == row + col
        class == ShellClass(shell)
        offset == ShellOffset(shell)
    IN  (IF class < 7 THEN <<Symbol(prefix \o "set", 0, 0), Symbol(prefix \o "class0", 0, class)>>
         ELSE <<Symbol(prefix \o "set", 0, 1), Symbol(prefix \o "class1", 0, class - 7)>>)
        \o (CASE class < 2 -> <<Symbol(prefix \o "offset_low", class, offset)>>
              [] class = 2 -> UnarySymbols(prefix, 3, offset)
              [] class > 2 -> [i \in 1..class |-> Symbol(prefix \o "offset", i - 1, (offset \div (2 ^ (i - 1))) % 2)])
        \o When(shell > 0, ColumnSymbols(prefix, shell, col))

Magnitude(x) == IF x < 0 THEN -x ELSE x
SignSymbols(prefix, v) ==
    When(v[1] # 0, <<Flag(prefix \o "sign", -1, v[1] < 0)>>) \o When(v[2] # 0, <<Flag(prefix \o "sign", -1, v[2] < 0)>>)
VectorSymbols(prefix, v) == MagnitudeSymbols(prefix, Magnitude(v[1]), Magnitude(v[2])) \o SignSymbols(prefix, v)

\* write_intrabc_copy
MaxVectors == 4             \* max_ref_bv_count
CopySymbols(c, d) ==
    <<Symbol("skip_txfm", c.skip, 1), Flag("intrabc_mode", 0, d.dv = <<>>)>>
    \o [i \in 1 .. Smaller(MaxVectors - 1, d.drl + 1) |-> Flag("intrabc_drl", -1, d.drl # i - 1)]
    \o When(d.dv # <<>>, VectorSymbols("dv_", d.dv))

\* write_inter_globalmv_skip, write_inter_globalmv_residual, write_inter_newmv
IsNew(d) == d.kind \in {"new", "newResidual"}
IsSkipped(d) == d.kind \in {"zero", "new"}
InterSymbols(c, d) ==
    <<Symbol("is_inter", c.inter, 1), Flag("skip_txfm", c.skip, IsSkipped(d)),
      Symbol("single_mode", c.mode, IF IsNew(d) THEN 2 ELSE 1)>>
    \o When(IsNew(d), <<Symbol("drl_idx", c.mode, 0)>>
                      \o VectorSymbols("mv_", <<d.mv[1] - c.mv[1], d.mv[2] - c.mv[2]>>))

-----------------------------------------------------------------------------
(* Palettes: [colors, at, vertical], at giving the colour of a sample of the *)
(* leaf as a number from 0.                                                  *)

MinColors == 2
CacheProbes == 16           \* PALETTE_CACHE_PROBE_LIMIT

\* av2_palette_cache_from_neighbors
Cache(above, left) ==
    LET shared == Smaller(Len(above), Len(left))
    IN  FlattenSeq([i \in 1..shared |-> <<above[i], left[i]>>])
        \o SubSeq(above, shared + 1, Len(above)) \o SubSeq(left, shared + 1, Len(left))

\* index_luma_palette_color_cache: the entries that are taken, each colour once.
Taken(colors, cache) ==
    {i \in 1 .. Smaller(Len(cache), CacheProbes) :
        Contains(colors, cache[i]) /\ \A j \in 1 .. i - 1 : cache[j] # cache[i]}

\* Mutant: a difference has the width of what is left behind it.
MutDeltaSymbols(colors) ==
    LET delta(k) == colors[k + 1] - colors[k]
        least == BitDepth - 3
        widest == CeilLog2(Max({delta(k) : k \in 1 .. Len(colors) - 1}))
        first == IF widest > least THEN widest ELSE least
        range(k) == 2 ^ BitDepth - 1 - colors[k]
        width(k) == Min({first} \cup {CeilLog2(range(j + 1)) : j \in 1..k})
    IN  IF colors = <<>> THEN <<>>
        ELSE <<Bits("y_color_first", BitDepth, colors[1])>>
             \o When(Len(colors) > 1,
                    <<Bits("y_delta_bits", 2, first - least)>>
                    \o [k \in 1 .. Len(colors) - 1 |-> Bits("y_color_delta", width(k), delta(k) - 1)])

\* delta_encode_luma_palette_colors; the width of the k-th difference shrinks
\* with what is left of the range.
DeltaSymbols(colors) ==
    LET delta(k) == colors[k + 1] - colors[k]
        least == BitDepth - 3
        widest == CeilLog2(Max({delta(k) : k \in 1 .. Len(colors) - 1}))
        first == IF widest > least THEN widest ELSE least
        range(k) == 2 ^ BitDepth - 1 - colors[k]
        width(k) == Min({first} \cup {CeilLog2(range(j)) : j \in 2..k})
    IN  IF colors = <<>> THEN <<>>
        ELSE <<Bits("y_color_first", BitDepth, colors[1])>>
             \o When(Len(colors) > 1,
                    <<Bits("y_delta_bits", 2, first - least)>>
                    \o [k \in 1 .. Len(colors) - 1 |-> Bits("y_color_delta", width(k), delta(k) - 1)])

\* write_luma_palette_colors: flags until every colour is accounted for, then
\* the colours that are not in the cache.
ColorSymbols(colors, cache) ==
    LET taken == Taken(colors, cache)
        flags == IF Cardinality(taken) = Len(colors) THEN Max(taken) ELSE Len(cache)
        known == {cache[i] : i \in taken}
    IN  [i \in 1..flags |-> Flag("y_color_cache", -1, i \in taken)]
        \o DeltaSymbols(SelectSeq(colors, LAMBDA color : color \notin known))

\* write_luma_palette_mode_info, write_luma_palette_absent_mode_info
PaletteSymbols(palette, cache) ==
    <<Symbol("y_mode_present", 0, 1), Symbol("y_size", 0, Len(palette.colors) - MinColors)>>
    \o ColorSymbols(palette.colors, cache)
NoPaletteSymbols == <<Symbol("y_mode_present", 0, 0)>>

\* palette_map_coordinate
Spot(vertical, outer, inner) == IF vertical THEN <<inner, outer>> ELSE <<outer, inner>>

\* palette_identity_row_flag: a line equal to the one before, of one colour, or
\* neither.
LineKind(p, outer, length) ==
    LET color(o, i) == p.at[Spot(p.vertical, o, i)]
    IN  IF outer > 0 /\ \A i \in 0 .. length - 1 : color(outer, i) = color(outer - 1, i) THEN 2
        ELSE IF \A i \in 1 .. length - 1 : color(outer, i) = color(outer, i - 1) THEN 1 ELSE 0

\* palette_color_index_context: the neighbours' colours first, then the others.
Neighbours(p, row, col) ==
    LET left == p.at[<<row, col - 1>>]
        top == p.at[<<row - 1, col>>]
        corner == p.at[<<row - 1, col - 1>>]
    IN  IF col = 0 THEN <<0, <<top>>>>
        ELSE IF row = 0 THEN <<0, <<left>>>>
        ELSE CASE left = corner /\ left = top -> <<4, <<left>>>>
               [] left = top /\ left # corner -> <<3, <<left, corner>>>>
               [] left = corner /\ left # top -> <<2, <<left, top>>>>
               [] corner = top /\ left # top -> <<2, <<top, left>>>>
               [] OTHER -> <<1, <<left, top, corner>>>>
ColorOrder(p, row, col) ==
    LET near == Neighbours(p, row, col)[2]
        others == SelectSeq([i \in 1 .. Len(p.colors) |-> i - 1], LAMBDA color : ~Contains(near, color))
    IN  near \o others

\* write_luma_palette_color_map
Lengths(n, vertical) == IF vertical THEN <<n.w, n.h>> ELSE <<n.h, n.w>>
LineSymbols(p, outer, length) ==
    LET kind == LineKind(p, outer, length)
        before == IF outer = 0 THEN 3 ELSE LineKind(p, outer - 1, length)
        count == Len(p.colors)
        token(inner) ==
            LET spot == Spot(p.vertical, outer, inner)
            IN  IF outer = 0 /\ inner = 0 THEN Symbol("y_color_index_first", count, p.at[spot])
                ELSE Symbol("y_color_index", (count - MinColors) * 5 + Neighbours(p, spot[1], spot[2])[1],
                            ModeIndex(ColorOrder(p, spot[1], spot[2]), p.at[spot]))
        shown == CASE kind = 0 -> length [] kind = 1 -> 1 [] kind = 2 -> 0
    IN  <<Symbol("y_identity_row", before, kind)>> \o [i \in 1..shown |-> token(i - 1)]
MapSymbols(n, p) ==
    LET lengths == Lengths(n, p.vertical)
    IN  When(n.w < 64 /\ n.h < 64, <<Flag("y_direction", -1, p.vertical)>>)
        \o FlattenSeq([o \in 1 .. lengths[1] |-> LineSymbols(p, o - 1, lengths[2])])
=============================================================================

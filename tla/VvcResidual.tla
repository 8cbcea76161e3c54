---------------------------- MODULE VvcResidual ----------------------------
(***************************************************************************)
(* Quantisation and reconstruction of the residual blocks of a VVC         *)
(* picture: transform skip with and without block DPCM                     *)
(* (vvc/residual/quant/transform_skip*.rs) and the DCT with its quantisers *)
(* for DC and AC levels (vvc/residual/transform*.rs). A block of n x n     *)
(* samples or levels is a function of 0 .. n*n - 1, in rows; n is 4 or 8,  *)
(* the only sizes the coding tree ends at. An arithmetic shift to the      *)
(* right is a floored division.                                            *)
(*                                                                         *)
(* Then the coefficients of a transform block: the last position, and the  *)
(* sixteen of a subblock at a time, regular bins as long as the budget     *)
(* lasts, remainders, levels without a model and signs                     *)
(* (vvc/residual/syntax*.rs), beside a decoder that follows the format's   *)
(* residual_coding() with arrays of its own and reconstructs the block by  *)
(* the format's scaling and transform.                                     *)
(*                                                                         *)
(* What the encoder prefers among the paths for a block (transform, the    *)
(* fast search, transform skip, block DPCM) is left open.                  *)
(***************************************************************************)
EXTENDS Integers, Sequences
LOCAL INSTANCE SequencesExt

Cells(n) == 0 .. n * n - 1
ZeroBlock(n) == [i \in Cells(n) |-> 0]
HasLevels(levels) == \E i \in DOMAIN levels : levels[i] # 0

Magnitude(x) == IF x < 0 THEN -x ELSE x
Limited(bound, x) == IF x > bound THEN bound ELSE IF x < -bound THEN -bound ELSE x
Clamp16(x) == IF x > 32767 THEN 32767 ELSE IF x < -32768 THEN -32768 ELSE x

\* What is left of a prediction and what becomes of the two together.
SampleOf(depth, x) == IF x < 0 THEN 0 ELSE IF x >= 2^depth THEN 2^depth - 1 ELSE x
Joined(depth, predicted, residual) ==
    [i \in DOMAIN predicted |-> SampleOf(depth, predicted[i] + residual[i])]

\* A source that ends inside of the block goes on with its last row and column.
Extended(n, source, w, h) ==
    LET within(k, size) == IF k < size THEN k ELSE size - 1
    IN  [i \in Cells(n) |-> source[within(i \div n, h) * n + within(i % n, w)]]

Side(n) == 0 .. n - 1
SideSum(n, f) ==
    IF n = 4 THEN f[0] + f[1] + f[2] + f[3]
    ELSE f[0] + f[1] + f[2] + f[3] + f[4] + f[5] + f[6] + f[7]
SumBlock(n, f) == SideSum(n, [y \in Side(n) |-> SideSum(n, [x \in Side(n) |-> f[y * n + x]])])

\* div_round_nearest_i64
RoundedDiv(x, d) == IF x < 0 THEN -((-x + d \div 2) \div d) ELSE (x + d \div 2) \div d

Scales == <<40, 45, 51, 57, 64, 72>>

-----------------------------------------------------------------------------
(* Transform skip *)

\* vvc_transform_skip_dequant_params
SkipParams(depth, qp) ==
    LET raised == qp + 6 * (depth - 8)
        q == IF raised < 4 THEN 4 ELSE raised
    IN  [scale |-> Scales[(q % 6) + 1], shift |-> 6 - (q \div 6)]

\* dequantize_vvc_transform_skip_level_with_params
SkipSample(p, level) ==
    Clamp16(IF p.shift > 0 THEN (level * p.scale + 2^(p.shift - 1)) \div 2^p.shift
            ELSE level * p.scale * 2^(-p.shift))

\* A level stands for its own number of samples: lossless coding.
IsExact(p) == p.shift >= 0 /\ p.scale = 2^p.shift

\* quantize_vvc_transform_skip_level_with_params: the nearest of three levels
\* around the estimate, the smaller one of two that are as near.
SkipLevel(p, residual) ==
    LET estimate == IF p.shift > 0 THEN RoundedDiv(residual * 2^p.shift, p.scale)
                    ELSE RoundedDiv(residual, p.scale * 2^(-p.shift))
        error(level) == Magnitude(residual - SkipSample(p, level))
        candidates == estimate - 1 .. estimate + 1
        better(a, b) == error(a) < error(b) \/ (error(a) = error(b) /\ Magnitude(a) <= Magnitude(b))
    IN  CHOOSE a \in candidates : \A b \in candidates : better(a, b)

\* VvcBdpcmLevelState::difference: the level before it in the direction.
Before(levels, n, direction, i) ==
    CASE direction = "hor" -> IF i % n = 0 THEN 0 ELSE levels[i - 1]
      [] direction = "ver" -> IF i < n THEN 0 ELSE levels[i - n]
      [] OTHER -> 0

\* finalize_vvc_transform_skip_residual_block and the form with differences.
SkipLevels(p, n, direction, residual) ==
    LET levels == [i \in Cells(n) |-> SkipLevel(p, residual[i])]
    IN  [i \in Cells(n) |-> levels[i] - Before(levels, n, direction, i)]

\* fill_visible_transform_skip_samples: the running levels, a row at a time,
\* with the level to the left and those of the row above.
RunningLevels(n, direction, stored) ==
    LET upTo[i \in -1 .. n * n - 1] ==
            IF i = -1 THEN <<>>
            ELSE LET done == upTo[i - 1]
                     behind == CASE direction = "hor" /\ i % n > 0 -> done[i]
                                 [] direction = "ver" /\ i >= n -> done[i - n + 1]
                                 [] OTHER -> 0
                 IN  Append(done, stored[i] + behind)
        levels == upTo[n * n - 1]
    IN  [i \in Cells(n) |-> levels[i + 1]]

SkipResidual(p, n, direction, stored) ==
    LET levels == RunningLevels(n, direction, stored)
    IN  [i \in Cells(n) |-> SkipSample(p, levels[i])]

-----------------------------------------------------------------------------
(* The inverse transform *)

Dct4 == << <<64, 64, 64, 64>>, <<83, 36, -36, -83>>, <<64, -64, -64, 64>>, <<36, -83, 83, -36>> >>
Dct8 ==
    << <<64, 64, 64, 64, 64, 64, 64, 64>>, <<89, 75, 50, 18, -18, -50, -75, -89>>,
       <<83, 36, -36, -83, -83, -36, 36, 83>>, <<75, -18, -89, -50, 50, 89, 18, -75>>,
       <<64, -64, -64, 64, 64, -64, -64, 64>>, <<50, -89, 18, 75, -75, -18, 89, -50>>,
       <<36, -83, 83, -36, -36, 83, -83, 36>>, <<18, -50, 75, -89, 89, -75, 50, -18>> >>

\* dct2_row: what sample k of a row or column has of frequency f.
DctWeight(n, f, k) == IF n = 4 THEN Dct4[f + 1][k + 1] ELSE Dct8[f + 1][k + 1]

\* dequantize_vvc_transform_level_with_params
Dequantised(n, qp, level) ==
    LET shift == IF n = 4 THEN 5 ELSE 6
    IN  (level * 16 * Scales[(qp % 6) + 1] * 2^(qp \div 6) + 2^(shift - 1)) \div 2^shift

\* dc_only_residual_from_level_with_params
DcResidual(n, depth, qp, level) ==
    LET vertical == (64 * Dequantised(n, qp, level) + 64) \div 128
    IN  IF level = 0 THEN 0 ELSE (64 * vertical + 2^(19 - depth)) \div 2^(20 - depth)

\* inverse_transform_vvc_quantized_block_into: columns, then rows; a block of
\* one level is that of its DC alone.
TransformResidual(n, depth, qp, levels) ==
    LET scaled == [i \in Cells(n) |-> Dequantised(n, qp, levels[i])]
        columns == [i \in Cells(n) |->
                        (SideSum(n, [f \in Side(n) |-> DctWeight(n, f, i \div n) * scaled[f * n + (i % n)]]) + 64) \div 128]
        rows == [i \in Cells(n) |->
                        (SideSum(n, [f \in Side(n) |-> DctWeight(n, f, i % n) * columns[(i \div n) * n + f]])
                            + 2^(19 - depth)) \div 2^(20 - depth)]
    IN  IF \A i \in Cells(n) : i = 0 \/ levels[i] = 0
        THEN [i \in Cells(n) |-> Clamp16(DcResidual(n, depth, qp, levels[0]))]
        ELSE [i \in Cells(n) |-> Clamp16(rows[i])]

-----------------------------------------------------------------------------
(* The quantisers *)

\* qp_adjusted_quant_shift, qp_adjusted_level_limit
QuantShift(base, qp, baseQp) ==
    base + (IF qp >= baseQp THEN (qp - baseQp) \div 6 ELSE -((baseQp - qp + 5) \div 6))
LevelLimit(qp, baseQp) ==
    LET steps == (baseQp - qp + 5) \div 6
    IN  2 * 2^(IF qp >= baseQp THEN 0 ELSE IF steps > 4 THEN 4 ELSE steps)

SquaredError(a, b, n) == SumBlock(n, [i \in Cells(n) |-> (a[i] - b[i]) * (a[i] - b[i])])

\* The first candidate that is strictly better than every one before it and
\* than no level at all: the change of the squared error by a sample value v is
\* n * n * v * v - 2 * v * sum.
BestDc(n, depth, qp, sum, candidates) ==
    LET value(level) == DcResidual(n, depth, qp, level)
        change == [level \in candidates |->
                        value(level) * (n * n * value(level) - 2 * sum)]
        best == {level \in candidates :
                    change[level] < 0 /\ \A other \in candidates : change[level] <= change[other]}
    IN  IF best = {} THEN 0 ELSE CHOOSE level \in best : \A other \in best : level <= other

\* quantize_vvc_luma_residual_dc_by_search
LumaDc(n, depth, qp, residual) ==
    LET sum == SumBlock(n, residual)
        unit == DcResidual(n, depth, qp, 1)
        estimate == RoundedDiv(sum, n * n * unit)
    IN  IF unit = 0 THEN RoundedDiv(RoundedDiv(sum, n * n) * 5, 16)
        ELSE BestDc(n, depth, qp, sum, estimate - 4 .. estimate + 4)

\* quantize_vvc_chroma_residual_dc_with_qp; values of more than twice the
\* largest residual are never better than no level.
ChromaDc(n, depth, qp, residual) ==
    LET sum == SumBlock(n, residual)
        near == {level \in -255 .. 255 : Magnitude(DcResidual(n, depth, qp, level)) <= 2^(depth + 1)}
    IN  IF n = 4 /\ depth = 8 /\ qp = 34
        THEN Limited(255, IF sum > 64 THEN (sum + 63) \div 128
                          ELSE IF sum < -64 THEN -((-sum + 64) \div 128) ELSE 0)
        ELSE BestDc(n, depth, qp, sum, near)

\* quantize_transform_luma_ac_coeffs, quantize_direct_chroma_ac_coeffs
DctAc(n, qp, baseQp, residual) ==
    LET columns == [i \in Cells(n) |->
                        SideSum(n, [y \in Side(n) |-> residual[y * n + (i % n)] * DctWeight(n, i \div n, y)])]
        sum(i) == SideSum(n, [x \in Side(n) |-> columns[(i \div n) * n + x] * DctWeight(n, i % n, x)])
        shift == QuantShift(IF n = 4 THEN 17 ELSE 19, qp, baseQp)
        limit == LevelLimit(qp, baseQp)
    IN  [i \in Cells(n) |-> IF i = 0 THEN 0 ELSE Limited(limit, RoundedDiv(sum(i), 2^shift))]

\* luma_lossy_hadamard4_basis
Sign4(k, x) ==
    CASE k = 0 -> 1
      [] k = 1 -> IF x < 2 THEN 1 ELSE -1
      [] k = 2 -> IF x \in {0, 3} THEN 1 ELSE -1
      [] k = 3 -> IF x \in {0, 2} THEN 1 ELSE -1

\* quantize_legacy_luma_ac_coeffs: sixteen cells, whatever the size.
HadamardAc(n, qp, residual) ==
    LET side == n \div 4
        cell == [c \in Cells(4) |->
                    LET at(dx, dy) == residual[((c \div 4) * side + dy) * n + (c % 4) * side + dx]
                    IN  IF side = 1 THEN at(0, 0) ELSE at(0, 0) + at(1, 0) + at(0, 1) + at(1, 1)]
        sum(kx, ky) == SumBlock(4, [c \in Cells(4) |-> cell[c] * Sign4(kx, c % 4) * Sign4(ky, c \div 4)])
        limit == LevelLimit(qp, 32)
        level(kx, ky) == Limited(limit, RoundedDiv(sum(kx, ky), 2^QuantShift(8, qp, 32)))
    IN  [i \in Cells(n) |-> IF i # 0 /\ i % n < 4 /\ i \div n < 4 THEN level(i % n, i \div n) ELSE 0]

WithDc(levels, dc) == [levels EXCEPT ![0] = dc]
IsFlat(residual) == \A i \in DOMAIN residual : residual[i] = residual[0]

\* luma_ac_syntax_cost_estimate
AcCost(n, levels) ==
    LET ac == [levels EXCEPT ![0] = 0]
        used == {i \in Cells(n) : ac[i] # 0}
        last == IF used = {} THEN 0 ELSE CHOOSE i \in used : \A j \in used : j <= i
    IN  SumBlock(n, [i \in Cells(n) |-> (IF ac[i] # 0 THEN 18 ELSE 0) + 4 * Magnitude(ac[i])]) + 2 * last

\* quantize_direct_luma_ac_coeffs_into: the DCT's levels only where they are
\* nearer and worth their bits.
Better(plain, dct, errorOfPlain, errorOfDct, costOfPlain, costOfDct) ==
    IF errorOfDct < errorOfPlain /\ errorOfDct + costOfDct < errorOfPlain + costOfPlain THEN dct ELSE plain

BetterLevels(n, depth, qp, residual, plain, dct) ==
    LET error(levels) == SquaredError(residual, TransformResidual(n, depth, qp, levels), n)
        cost(levels) == 2^(qp \div 6) * 4^(depth - 8) * AcCost(n, levels)
    IN  Better(plain, dct, error(plain), error(dct), cost(plain), cost(dct))

LumaLevels(n, depth, qp, residual, fast) ==
    LET dc == LumaDc(n, depth, qp, residual)
        plain == WithDc(HadamardAc(n, qp, residual), dc)
    IN  IF fast \/ n # 8 \/ IsFlat(residual) THEN plain
        ELSE BetterLevels(n, depth, qp, residual, plain, WithDc(DctAc(n, qp, 32, residual), dc))

\* quantize_vvc_chroma_residual_greedy_with_qp
ChromaLevels(n, depth, qp, residual) ==
    LET dc == ChromaDc(n, depth, qp, residual)
    IN  IF IsFlat(residual) THEN WithDc(ZeroBlock(n), dc) ELSE WithDc(DctAc(n, qp, 34, residual), dc)

-----------------------------------------------------------------------------

CONSTANTS ResidualBlocks    \* component, size, slice qp, depth, source and prediction

VARIABLES
    block,      \* the transform block at hand, with the path taken for it
    stage,      \* "taken", "coding" or "done"
    levels,     \* its quantised levels
    subset,     \* the subblock to be coded next, -1 behind the first
    budget,     \* regular bins that are left
    written,    \* bins the decoder has not read
    reader      \* the decoder

residualVars == <<block, stage, levels, subset, budget, written, reader>>

IsChroma == block.component # "luma"

-----------------------------------------------------------------------------
(* Quantisation and reconstruction in the encoder *)

\* vvc_mapped_chroma_qp_for_slice_qp
QpPoints == << <<17, 17>>, <<27, 29>>, <<32, 34>>, <<44, 41>> >>
MappedChromaQp(qp) ==
    LET between(i) ==
            LET den == QpPoints[i + 1][1] - QpPoints[i][1]
                num == QpPoints[i + 1][2] - QpPoints[i][2]
            IN  QpPoints[i][2] + ((num * (qp - QpPoints[i][1]) + (den \div 2)) \div den)
        raw == IF qp <= 17 THEN qp
               ELSE IF qp > 44 THEN 41 + (qp - 44)
               ELSE between(CHOOSE i \in 1..3 : qp <= QpPoints[i + 1][1]
                                              /\ \A j \in 1 .. i - 1 : qp > QpPoints[j + 1][1])
    IN  IF raw < 0 THEN 0 ELSE IF raw > 63 THEN 63 ELSE raw

BlockQp == IF IsChroma /\ block.lossy THEN MappedChromaQp(block.qp) ELSE block.qp
BlockSkipParams == SkipParams(block.depth, BlockQp)
IsSkip == block.path \in {"skip", "hor", "ver"}

\* The residual samples: the source goes on behind the edge of the picture.
SourceOfBlock == Extended(block.n, block.source, block.w, block.h)
ResidualOfBlock == [i \in Cells(block.n) |-> SourceOfBlock[i] - block.predicted[i]]

\* Whether transform skip is tried in a lossy block, and whether it leaves
\* nothing to be desired.
SkipHasLevels ==
    BlockQp > 0 /\ HasLevels(SkipLevels(BlockSkipParams, block.n, "off", ResidualOfBlock))
SkipIsPerfect ==
    LET p == BlockSkipParams
    IN  SkipHasLevels /\ \A i \in Cells(block.n) : SkipSample(p, SkipLevel(p, ResidualOfBlock[i])) = ResidualOfBlock[i]

\* select_vvc_scored_luma_residual_block_with_mts: which path is taken depends on
\* scores; a lossless block never is transformed, and no other path is looked
\* at when transform skip is perfect.
LumaPaths ==
    {"hor", "ver"} \cup
    (IF ~block.lossy THEN {"skip"}
     ELSE IF SkipIsPerfect THEN {"skip"}
     ELSE {"transform", "fast"} \cup (IF SkipHasLevels THEN {"skip"} ELSE {}))

\* select_vvc_scored_chroma_residual_block_with_transform_skip
ChromaPaths ==
    (IF block.n = 4 THEN {"hor", "ver"} ELSE {}) \cup
    (IF ~block.lossy THEN {"skip"} ELSE {"transform"} \cup (IF SkipHasLevels THEN {"skip"} ELSE {}))

Paths == IF IsChroma THEN ChromaPaths ELSE LumaPaths

\* finalize_vvc_luma_residual_block, finalize_vvc_chroma_residual_block
Quantised(path) ==
    LET n == block.n
    IN  IF path \in {"skip", "hor", "ver"} THEN SkipLevels(BlockSkipParams, n, path, ResidualOfBlock)
        ELSE IF IsChroma THEN ChromaLevels(n, block.depth, BlockQp, ResidualOfBlock)
        ELSE LumaLevels(n, block.depth, BlockQp, ResidualOfBlock, path = "fast")

\* The finalisation of a transform unit: an exact block is the source.
Reconstruction ==
    LET n == block.n
    IN  IF IsSkip /\ IsExact(BlockSkipParams) THEN SourceOfBlock
        ELSE Joined(block.depth, block.predicted,
                IF IsSkip THEN SkipResidual(BlockSkipParams, n, block.path, levels)
                ELSE TransformResidual(n, block.depth, BlockQp, levels))

-----------------------------------------------------------------------------
(* Positions and contexts *)

\* VVC_FIRST_4X4_DIAG_SCAN; the subblocks of 8x8 in the order of its first four.
Diagonal ==
    << <<0, 0>>, <<0, 1>>, <<1, 0>>, <<0, 2>>, <<1, 1>>, <<2, 0>>, <<0, 3>>, <<1, 2>>,
       <<2, 1>>, <<3, 0>>, <<1, 3>>, <<2, 2>>, <<3, 1>>, <<2, 3>>, <<3, 2>>, <<3, 3>> >>
Groups == << <<0, 0>>, <<0, 1>>, <<1, 0>>, <<1, 1>> >>

\* vvc_grouped_8x8_scan: where the k-th coefficient is.
AtX(k) == Groups[(k \div 16) + 1][1] * 4 + Diagonal[(k % 16) + 1][1]
AtY(k) == Groups[(k \div 16) + 1][2] * 4 + Diagonal[(k % 16) + 1][2]
CellOf(n, k) == AtY(k) * n + AtX(k)

LastOf(n, of) == CHOOSE k \in Cells(n) : of[CellOf(n, k)] # 0 /\ \A j \in k + 1 .. n * n - 1 : of[CellOf(n, j)] = 0

\* The cells whose levels tell what to expect at the k-th.
Template(n, k) ==
    {c \in {<<1, 0>>, <<2, 0>>, <<1, 1>>, <<0, 1>>, <<0, 2>>} : AtX(k) + c[1] < n /\ AtY(k) + c[2] < n}
TemplateSum(n, k, f) ==
    LET cell(dx, dy) ==
            IF <<dx, dy>> \in Template(n, k) THEN f[(AtY(k) + dy) * n + AtX(k) + dx] ELSE 0
    IN  cell(1, 0) + cell(2, 0) + cell(1, 1) + cell(0, 1) + cell(0, 2)

AtLeast(low, x) == IF x < low THEN low ELSE x
NoMore(high, x) == IF x > high THEN high ELSE x

\* sig_coeff_flag, and the three flags of the level behind it.
SigContext(chroma, k, sum) ==
    LET d == AtX(k) + AtY(k)
    IN  NoMore(3, (sum + 1) \div 2)
            + (IF chroma THEN 36 + (IF d < 2 THEN 4 ELSE 0)
               ELSE IF d < 2 THEN 8 ELSE IF d < 5 THEN 4 ELSE 0)
LevelContext(chroma, k, isLast, sum, count) ==
    LET d == AtX(k) + AtY(k)
    IN  IF isLast THEN IF chroma THEN 21 ELSE 0
        ELSE NoMore(4, sum - count)
            + (IF chroma THEN 22 + (IF d = 0 THEN 5 ELSE 0)
               ELSE 1 + (IF d = 0 THEN 15 ELSE IF d < 3 THEN 10 ELSE IF d < 10 THEN 5 ELSE 0))

\* vvc_rice_param_from_loc_sum_abs
Rice(sum, base) ==
    LET s == NoMore(31, AtLeast(0, sum - 5 * base))
    IN  IF s < 7 THEN 0 ELSE IF s < 14 THEN 1 ELSE IF s < 28 THEN 2 ELSE 3

\* Bins: with a context, without one, or as a remainder with its Rice parameter.
Coef(name, index, value) == [name |-> name, index |-> index, value |-> value]
Raw(count, value) == Coef("bypass", count, value)
Remainder(rice, value) == Coef("remainder", rice, value)

Budget(n) == (n * n * 28) \div 16

-----------------------------------------------------------------------------
(* The writer *)

\* last_sig_coeff_prefix and suffix
PrefixOf(p) == IF p < 4 THEN p ELSE IF p < 6 THEN 4 ELSE 5
PrefixContext(chroma, n, bin) ==
    IF chroma THEN 20 + (IF n = 4 THEN bin ELSE bin \div 2)
    ELSE IF n = 4 THEN bin ELSE 3 + bin \div 2

PrefixBins(name, chroma, n, p) ==
    LET prefix == PrefixOf(p)
        length == IF prefix < PrefixOf(n - 1) THEN prefix + 1 ELSE prefix
    IN  [i \in 1..length |-> Coef(name, PrefixContext(chroma, n, i - 1), IF i <= prefix THEN 1 ELSE 0)]
SuffixBins(p) == IF p < 4 THEN <<>> ELSE <<Raw(1, p % 2)>>

LastPositionBins(n, chroma, last) ==
    PrefixBins("last_x", chroma, n, AtX(last)) \o PrefixBins("last_y", chroma, n, AtY(last))
        \o SuffixBins(AtX(last)) \o SuffixBins(AtY(last))

\* Mutant: a template level stops at four instead of keeping its parity.
MutTemplateLevel(a) == NoMore(4, a)

\* The part of a level that its regular bins tell.
TemplateLevel(a) == NoMore(a, 4 + (a % 2))

HasGroup(n, of, s) == \E k \in s * 16 .. s * 16 + 15 : of[CellOf(n, k)] # 0

\* The regular bins of the position k.
LevelBins(a, context) ==
    (IF a = 0 THEN <<>> ELSE <<Coef("gt1", context, IF a > 1 THEN 1 ELSE 0)>>)
        \o (IF a < 2 THEN <<>>
            ELSE <<Coef("par", context, a % 2), Coef("gt3", context + 32, IF a > 3 THEN 1 ELSE 0)>>)
SignificanceBin(a, inferred, context) == IF inferred THEN <<>> ELSE <<Coef("sig", context, NoMore(1, a))>>
RegularBins(n, chroma, of, last, k, inferred) ==
    LET a == Magnitude(of[CellOf(n, k)])
        sum == TemplateSum(n, k, [c \in Cells(n) |-> TemplateLevel(Magnitude(of[c]))])
        count == TemplateSum(n, k, [c \in Cells(n) |-> NoMore(1, Magnitude(of[c]))])
    IN  SignificanceBin(a, inferred, SigContext(chroma, k, sum))
            \o LevelBins(a, LevelContext(chroma, k, k = last, sum, count))

\* emit_coefficient_subblock_symbols.  The first pass, from the position high
\* down as long as the budget lasts.
RegularPass(n, chroma, of, last, s, high, left) ==
    LET told == IF s = last \div 16 THEN last ELSE IF s = 0 THEN -1 ELSE s * 16
        with(p, k, bins) ==
            [bins |-> p.bins \o bins, left |-> p.left - Len(bins), cut |-> k,
             found |-> p.found \/ of[CellOf(n, k)] # 0]
        pass[j \in 0 .. high - s * 16 + 1] ==
            IF j = 0 THEN [bins |-> <<>>, left |-> left, cut |-> high + 1, found |-> FALSE]
            ELSE LET before == pass[j - 1]
                     k == high - j + 1
                 IN  IF before.left < 4 THEN before
                     ELSE with(before, k, RegularBins(n, chroma, of, last, k, k = told /\ ~before.found))
    IN  pass[high - s * 16 + 1]

\* The remainders, the levels without a model and the signs behind it.
PlainBin(a, rice) == Remainder(rice, IF a = 0 THEN 2^rice ELSE IF a <= 2^rice THEN a - 1 ELSE a)
OtherBins(n, of, s, high, cut) ==
    LET level(k) == of[CellOf(n, k)]
        sumAt(k) == TemplateSum(n, k, [c \in Cells(n) |-> Magnitude(of[c])])
        down(from, to) == [j \in 1 .. from - to + 1 |-> from - j + 1]
        long == SelectSeq(down(high, cut), LAMBDA k : Magnitude(level(k)) >= 4)
        plain == down(cut - 1, s * 16)
        signed == SelectSeq(down(high, s * 16), LAMBDA k : level(k) # 0)
        pattern == FoldLeft(LAMBDA v, k : v * 2 + (IF level(k) < 0 THEN 1 ELSE 0), 0, signed)
    IN  [j \in DOMAIN long |-> Remainder(Rice(sumAt(long[j]), 4), (Magnitude(level(long[j])) - 4) \div 2)]
        \o [j \in DOMAIN plain |-> PlainBin(Magnitude(level(plain[j])), Rice(sumAt(plain[j]), 0))]
        \o (IF signed = <<>> THEN <<>> ELSE <<Raw(Len(signed), pattern)>>)

\* The bins of a subblock and what is left of the budget.
WithOthers(flag, p, n, of, s, high) ==
    [bins |-> flag \o p.bins \o OtherBins(n, of, s, high, p.cut), left |-> p.left]
SubblockBins(n, chroma, of, last, s, left) ==
    LET high == IF s = last \div 16 THEN last ELSE s * 16 + 15
        beyond == IF s \in {1, 2} /\ last \div 16 = 3 THEN 1 ELSE 0
        flag == IF s \in {0, last \div 16} THEN <<>>
                ELSE <<Coef("group", (IF chroma THEN 2 ELSE 0) + beyond, IF HasGroup(n, of, s) THEN 1 ELSE 0)>>
    IN  IF s \notin {0, last \div 16} /\ ~HasGroup(n, of, s) THEN [bins |-> flag, left |-> left]
        ELSE WithOthers(flag, RegularPass(n, chroma, of, last, s, high, left), n, of, s, high)

-----------------------------------------------------------------------------
(* The decoder: residual_coding() of the format *)

NewReader(n) ==
    [bins |-> <<>>, lost |-> FALSE, value |-> 0, left |-> Budget(n), last |-> -1, next |-> -1, groups |-> {},
     pass |-> ZeroBlock(n), abs |-> ZeroBlock(n), levels |-> ZeroBlock(n)]

\* The next bin, if it is what the decoder expects.
Expect(r, name, index) ==
    IF r.bins # <<>> /\ Head(r.bins).name = name /\ Head(r.bins).index = index
    THEN [r EXCEPT !.bins = Tail(@), !.value = Head(r.bins).value]
    ELSE [r EXCEPT !.lost = TRUE, !.value = 0]

\* The prefix: ones up to a zero or to the longest.
ReadPrefix(r, name, chroma, n) ==
    LET most == IF n = 4 THEN 3 ELSE 5
        shift == IF chroma THEN n \div 8 ELSE IF n = 4 THEN 0 ELSE 1
        base == IF chroma THEN 20 ELSE IF n = 4 THEN 0 ELSE 3
        ones[i \in 0..most] ==
            IF i = 0 THEN [r |-> r, count |-> 0, open |-> TRUE]
            ELSE LET before == ones[i - 1]
                     s == Expect(before.r, name, base + ((i - 1) \div 2^shift))
                 IN  IF ~before.open THEN before
                     ELSE [r |-> s, count |-> before.count + s.value, open |-> s.value = 1]
    IN  [ones[most].r EXCEPT !.value = ones[most].count]

ReadSuffix(r, prefix) ==
    IF prefix < 4 THEN [r EXCEPT !.value = prefix]
    ELSE LET s == Expect(r, "bypass", 1) IN [s EXCEPT !.value = 4 + (prefix - 4) * 2 + s.value]

LastAt(r, n, x, y) ==
    LET at == {k \in Cells(n) : AtX(k) = x /\ AtY(k) = y}
        last == CHOOSE k \in at : TRUE
    IN  IF at = {} THEN [r EXCEPT !.lost = TRUE]
        ELSE [r EXCEPT !.last = last, !.next = last \div 16, !.groups = {last \div 16, 0}]

\* Both prefixes, then both suffixes.
SecondSuffix(r, n, px, py) ==
    LET y == ReadSuffix(r, py) IN LastAt(y, n, px, y.value)
FirstSuffix(r, n, px, py) ==
    LET x == ReadSuffix(r, px) IN SecondSuffix(x, n, x.value, py)
SecondPrefix(r, chroma, n, px) ==
    LET y == ReadPrefix(r, "last_y", chroma, n) IN FirstSuffix(y, n, px, y.value)
ReadLast(r, chroma, n) ==
    LET x == ReadPrefix(r, "last_x", chroma, n) IN SecondPrefix(x, chroma, n, x.value)

\* The first pass of a position: what is known of its level afterwards.
Told(r, n, k, bins, a) ==
    [r EXCEPT !.left = @ - bins, !.pass[CellOf(n, k)] = a, !.abs[CellOf(n, k)] = a]
ReadParity(r, n, k, context) ==
    LET parity == Expect(r, "par", context)
        three == Expect(parity, "gt3", context + 32)
    IN  Told(three, n, k, 3, 2 + parity.value + 2 * three.value)
ReadGreater(r, n, k, context) ==
    LET one == Expect(r, "gt1", context)
    IN  IF one.value = 0 THEN Told(one, n, k, 1, 1) ELSE ReadParity(one, n, k, context)
ReadSignificance(r, n, k, inferred, context) ==
    IF inferred THEN [r EXCEPT !.value = 1] ELSE [Expect(r, "sig", context) EXCEPT !.left = @ - 1]
ReadRegular(r, chroma, n, k, inferred) ==
    LET sum == TemplateSum(n, k, r.pass)
        count == TemplateSum(n, k, [c \in Cells(n) |-> IF r.pass[c] > 0 THEN 1 ELSE 0])
        sig == ReadSignificance(r, n, k, inferred, SigContext(chroma, k, sum))
    IN  IF sig.value = 0 THEN sig ELSE ReadGreater(sig, n, k, LevelContext(chroma, k, k = r.last, sum, count))

ReadLong(r, n, k) ==
    LET s == Expect(r, "remainder", Rice(TemplateSum(n, k, r.abs), 4))
    IN  IF r.abs[CellOf(n, k)] < 4 THEN r
        ELSE [s EXCEPT !.abs[CellOf(n, k)] = @ + 2 * s.value]

ReadPlain(r, n, k) ==
    LET rice == Rice(TemplateSum(n, k, r.abs), 0)
        s == Expect(r, "remainder", rice)
        zero == 2^rice
    IN  [s EXCEPT !.abs[CellOf(n, k)] =
            IF s.value = zero THEN 0 ELSE IF s.value < zero THEN s.value + 1 ELSE s.value]

\* The passes over a subblock s from its highest position down: regular bins,
\* remainders, levels without a model, signs.
FirstPass(r0, chroma, n, s, high) ==
    LET with(r, k, infer) == [r |-> r, cut |-> k, infer |-> infer /\ r.abs[CellOf(n, k)] = 0]
        first[j \in 0 .. high - s * 16 + 1] ==
            IF j = 0 THEN [r |-> r0, cut |-> high + 1, infer |-> s # r0.last \div 16 /\ s > 0]
            ELSE LET before == first[j - 1]
                     k == high - j + 1
                     inferred == k = r0.last \/ (before.infer /\ k = s * 16)
                 IN  IF before.r.left < 4 THEN before
                     ELSE with(ReadRegular(before.r, chroma, n, k, inferred), k, before.infer)
    IN  first[high - s * 16 + 1]

OtherPasses(regular, n, s, high) ==
    LET down == [j \in 1 .. high - s * 16 + 1 |-> high - j + 1]
        long == FoldLeft(LAMBDA r, k : ReadLong(r, n, k), regular.r, SelectSeq(down, LAMBDA k : k >= regular.cut))
    IN  FoldLeft(LAMBDA r, k : ReadPlain(r, n, k), long, SelectSeq(down, LAMBDA k : k < regular.cut))

WithSigns(r, n, s, high, signed) ==
    LET negative == {CellOf(n, signed[j]) : j \in {j \in DOMAIN signed :
                        (r.value \div 2^(Len(signed) - j)) % 2 = 1}}
        here == {CellOf(n, k) : k \in s * 16 .. high}
    IN  [r EXCEPT !.next = s - 1,
                  !.levels = [i \in Cells(n) |->
                        IF i \notin here THEN r.levels[i] ELSE IF i \in negative THEN -r.abs[i] ELSE r.abs[i]]]

ReadSigns(r, n, s, high) ==
    LET signed == SelectSeq([j \in 1 .. high - s * 16 + 1 |-> high - j + 1], LAMBDA k : r.abs[CellOf(n, k)] # 0)
    IN  WithSigns(IF signed = <<>> THEN r ELSE Expect(r, "bypass", Len(signed)), n, s, high, signed)

ReadLevels(r, chroma, n, s, high) ==
    ReadSigns(OtherPasses(FirstPass([r EXCEPT !.groups = @ \cup {s}], chroma, n, s, high), n, s, high), n, s, high)

EnterSubblock(flagged, chroma, n, s) ==
    IF flagged.value = 0 THEN [flagged EXCEPT !.next = s - 1]
    ELSE ReadLevels(flagged, chroma, n, s, IF s = flagged.last \div 16 THEN flagged.last ELSE s * 16 + 15)

ReadSubblock(r, chroma, n) ==
    LET s == r.next
        beyond == {right \in {s + 2} : s \in {0, 1}} \cup {below \in {s + 1} : s \in {0, 2}}
        csbf == IF n = 8 /\ beyond \cap r.groups # {} THEN 1 ELSE 0
        flagged == IF s \in {0, r.last \div 16} THEN [r EXCEPT !.value = 1]
                   ELSE Expect(r, "group", (IF chroma THEN 2 ELSE 0) + csbf)
    IN  EnterSubblock(flagged, chroma, n, s)

\* ChromaQpTable, from the three points of the sequence parameter set on.
ChromaQpTable ==
    LET table[q \in 0..63] ==
            IF q <= 17 THEN q
            ELSE IF q <= 27 THEN 17 + ((12 * (q - 17) + 5) \div 10)
            ELSE IF q <= 32 THEN 29 + ((5 * (q - 27) + 2) \div 5)
            ELSE IF q <= 44 THEN 34 + ((7 * (q - 32) + 6) \div 12)
            ELSE NoMore(63, table[q - 1] + 1)
    IN  table

\* The block a decoder makes of the levels: the format's qp is raised by the
\* depth, its scaling, and every intermediate value is limited.
FormatBlock(of) ==
    LET n == block.n
        qp == 6 * (block.depth - 8)
                + (IF IsChroma /\ block.qp >= 0 THEN ChromaQpTable[block.qp] ELSE block.qp)
        q == IF IsSkip THEN AtLeast(4, qp) ELSE qp
        shift == IF IsSkip THEN 10 ELSE block.depth + (IF n = 4 THEN 2 ELSE 3) - 5
        summed == [i \in Cells(n) |->
                    CASE block.path = "hor" -> SumBlock(n,
                            [j \in Cells(n) |-> IF j \div n = i \div n /\ j <= i THEN of[j] ELSE 0])
                      [] block.path = "ver" -> SumBlock(n,
                            [j \in Cells(n) |-> IF j % n = i % n /\ j <= i THEN of[j] ELSE 0])
                      [] OTHER -> of[i]]
        scaled == [i \in Cells(n) |->
                    Clamp16((summed[i] * 16 * Scales[(q % 6) + 1] * 2^(q \div 6) + 2^(shift - 1)) \div 2^shift)]
        columns == [i \in Cells(n) |->
            Clamp16((SideSum(n, [f \in Side(n) |-> DctWeight(n, f, i \div n) * scaled[f * n + (i % n)]]) + 64) \div 128)]
        rows == [i \in Cells(n) |->
            (SideSum(n, [f \in Side(n) |-> DctWeight(n, f, i % n) * columns[(i \div n) * n + f]]) + 2^(19 - block.depth))
                \div 2^(20 - block.depth)]
    IN  Joined(block.depth, block.predicted, IF IsSkip THEN scaled ELSE rows)

-----------------------------------------------------------------------------
(* Steps *)

ResidualInit ==
    /\ block \in ResidualBlocks
    /\ stage = "taken"
    /\ levels = ZeroBlock(block.n)
    /\ subset = -1 /\ budget = Budget(block.n)
    /\ written = <<>>
    /\ reader = NewReader(block.n)

\* The block is quantised; one without levels has no coefficients to code.
QuantiseBlock ==
    /\ stage = "taken"
    /\ \E path \in Paths : \E q \in {Quantised(path)} :
        /\ block' = [block EXCEPT !.path = path]
        /\ levels' = q
        /\ IF HasLevels(q)
           THEN \E last \in {LastOf(block.n, q)} :
                /\ stage' = "coding"
                /\ subset' = last \div 16
                /\ written' = LastPositionBins(block.n, IsChroma, last)
           ELSE stage' = "done" /\ UNCHANGED <<subset, written>>
    /\ UNCHANGED <<budget, reader>>

CodeSubblock ==
    /\ stage = "coding" /\ written = <<>> /\ subset >= 0
    /\ \E coded \in {SubblockBins(block.n, IsChroma, levels, LastOf(block.n, levels), subset, budget)} :
        /\ written' = coded.bins
        /\ budget' = coded.left
    /\ subset' = subset - 1
    /\ UNCHANGED <<block, stage, levels, reader>>

\* The decoder has to use up what was written.
ReadWritten ==
    /\ written # <<>>
    /\ LET r == [reader EXCEPT !.bins = written]
       IN  \E done \in {IF reader.last = -1 THEN ReadLast(r, IsChroma, block.n)
                        ELSE ReadSubblock(r, IsChroma, block.n)} :
              reader' = [done EXCEPT !.bins = <<>>, !.lost = @ \/ done.bins # <<>>]
    /\ written' = <<>>
    /\ UNCHANGED <<block, stage, levels, subset, budget>>

FinishBlock ==
    /\ stage = "coding" /\ written = <<>> /\ subset = -1
    /\ stage' = "done"
    /\ UNCHANGED <<block, levels, subset, budget, written, reader>>

ResidualNext == QuantiseBlock \/ CodeSubblock \/ ReadWritten \/ FinishBlock

-----------------------------------------------------------------------------
(* Properties *)

\* A decoder that follows residual_coding() never finds a bin it does not
\* expect, nor one of another context or Rice parameter, counts the regular
\* bins as the encoder does (vvc/residual/syntax.rs), and ends with the levels
\* of the encoder; what it makes of them by the format's scaling and transform
\* is, sample for sample, what the encoder goes on predicting from, the source
\* itself when the block is lossless.
ResidualsAreReadBack ==
    /\ ~reader.lost
    /\ written = <<>> => reader.left = budget
    /\ stage = "done" => reader.levels = levels /\ FormatBlock(reader.levels) = Reconstruction
=============================================================================

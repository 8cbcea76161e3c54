------------------------------ MODULE VvcIntra ------------------------------
(***************************************************************************)
(* Intra prediction in a VVC picture (vvc/residual/prediction*.rs): what a *)
(* block is predicted from while its CTU is quantised, beside the samples  *)
(* a decoder of the picture has by then.                                   *)
(*                                                                         *)
(* The encoder keeps a map of the samples it has reconstructed; it marks a *)
(* node when the node is done, marks a whole CTU that it copies, and       *)
(* clears the map before a CTU that is a slice of its own.  The searches   *)
(* try modes on the node at hand; what they prefer is left open.  Every    *)
(* node the encoder makes is square.  What a place was reconstructed to is *)
(* a function of the place (Reconstructed); the map is kept in units of    *)
(* four samples of a plane.  A region of a plane is a record b; a position *)
(* in it is a pair.                                                        *)
(***************************************************************************)
EXTENDS VvcLeafSyntax
LOCAL INSTANCE SequencesExt
LOCAL INSTANCE FiniteSetsExt
LOCAL INSTANCE Functions

CONSTANTS
    Scenes,                         \* the pictures TLC looks at, see MCVvcSyntax
    Reconstructed(_, _, _, _)       \* of a bit depth, a plane and a position

VARIABLES
    scene,      \* size, format, slices and payloads of the picture, and how many modes are left out
    begun,      \* the CTUs that have been begun
    ahead,      \* the regions of the CTU that are still to be predicted
    marked,     \* VvcReconstructionFrame: *_available, luma and chroma
    decoded,    \* what a decoder has of the slice
    attempt     \* the mode that is tried on the first region, or none

intraVars == <<scene, begun, ahead, marked, decoded, attempt>>

NoAttempt == <<>>
Group(plane) == IF plane = "luma" THEN "luma" ELSE "chroma"
Widest(plane) == IF plane = "luma" THEN scene.w ELSE scene.w \div SubWidth(scene.sampling)
Highest(plane) == IF plane = "luma" THEN scene.h ELSE scene.h \div SubHeight(scene.sampling)
Grey == 2^(scene.depth - 1)             \* vvc_neutral_sample
Peak == 2^scene.depth - 1
Clamped(v) == IF v < 0 THEN 0 ELSE IF v > Peak THEN Peak ELSE v
Log(n) == CHOOSE k \in 0..6 : 2^k = n

\* VvcIntraPredictionRegion::luma, chroma
RegionOf(n, plane) ==
    LET across == IF plane = "luma" THEN 1 ELSE SubWidth(scene.sampling)
        down == IF plane = "luma" THEN 1 ELSE SubHeight(scene.sampling)
    IN  [plane |-> plane, x |-> n.x \div across, y |-> n.y \div down,
         n |-> n.w \div across, m |-> n.h \div down, node |-> n]

UnitsOf(b) == {<<u, v>> : u \in b.x \div 4 .. (b.x + b.n - 1) \div 4, v \in b.y \div 4 .. (b.y + b.m - 1) \div 4}

\* VvcPlaneAvailability::is_available, reference_sample_or
Held(plane, at) == at[1] >= 0 /\ at[2] >= 0 /\ <<at[1] \div 4, at[2] \div 4>> \in marked[Group(plane)]
SampleAt(plane, at) == Reconstructed(scene.depth, plane, at[1], at[2])
Otherwise(plane, at, value) == IF Held(plane, at) THEN SampleAt(plane, at) ELSE value

-----------------------------------------------------------------------------
(* References *)

\* The position so far along a side of a region and so far from it.
Place(b, side, along, across) ==
    IF side = "top" THEN <<b.x + along, b.y + across>> ELSE <<b.x + across, b.y + along>>
Facing(side) == IF side = "top" THEN "left" ELSE "top"

Inside(b, at) == <<Min({at[1], Widest(b.plane) - 1}), Min({at[2], Highest(b.plane) - 1})>>

\* top_references_into, left_references_into: a sample that is not there is the
\* one before it, the first ones are the first that is there, and a side of which
\* nothing is there is the sample beside its first on the other side.
References(b, side, length, line) ==
    LET at(i) == Inside(b, Place(b, side, i, -1 - line))
        have == {i \in 0 .. length - 1 : Held(b.plane, at(i))}
        nearest(i) == IF \E j \in have : j <= i THEN Max({j \in have : j <= i}) ELSE Min(have)
        fallback == Otherwise(b.plane, Place(b, side, -1 - line, 0), Grey)
    IN  [i \in 0 .. length - 1 |-> IF have = {} THEN fallback ELSE SampleAt(b.plane, at(nearest(i)))]

\* top_left_reference
Corner(b, line) ==
    Otherwise(b.plane, <<b.x - 1 - line, b.y - 1 - line>>,
        Otherwise(b.plane, <<b.x, b.y - 1 - line>>,
            Otherwise(b.plane, <<b.x - 1 - line, b.y>>, Grey)))

\* filter_vvc_angular_references_in_place, filter_vvc_planar_references_in_place
Smoothed(references, before, count) ==
    [i \in DOMAIN references |->
        IF i >= count THEN references[i]
        ELSE ((IF i = 0 THEN before ELSE references[i - 1]) + 2 * references[i] + references[i + 1] + 2) \div 4]

-----------------------------------------------------------------------------
(* Planar, DC and copied edges *)

Fading(distance, scale) == 32 \div 2^Min({31, (2 * distance) \div 2^scale})

\* apply_vvc_planar_dc_pdpc
Blended(b, value, top, left, x, y) ==
    LET scale == (2 * (Log(b.n) - 2) + 2) \div 4
    IN  Clamped(value + ((Fading(x, scale) * (left[y] - value) + Fading(y, scale) * (top[x] - value) + 32) \div 64))

\* predict_vvc_dc_block_into, dc_prediction_value
DcBlock(b, line) ==
    LET top == References(b, "top", b.n, line)
        left == References(b, "left", b.n, line)
        sum == FoldFunction(+, 0, top) + FoldFunction(+, 0, left)
        value == (sum + b.n) \div (2 * b.n)
    IN  [x, y \in 0 .. b.n - 1 |-> IF line # 0 THEN value ELSE Blended(b, value, top, left, x, y)]

\* predict_vvc_planar_block_into
PlanarBlock(b) ==
    LET side(s) == LET r == References(b, s, b.n + 2, 0)
                   IN  IF b.plane = "luma" /\ b.n * b.n > 32 THEN Smoothed(r, Corner(b, 0), b.n + 1) ELSE r
        top == side("top")
        left == side("left")
        across(x, y) == b.n * left[y] + (x + 1) * (top[b.n] - left[y])
        down(x, y) == b.n * top[x] + (y + 1) * (left[b.n] - top[x])
    IN  [x, y \in 0 .. b.n - 1 |->
            Blended(b, (b.n * across(x, y) + b.n * down(x, y) + b.n * b.n) \div (2 * b.n * b.n), top, left, x, y)]

\* predict_vvc_bdpcm_block_into
CopiedBlock(b, direction) ==
    LET edge == References(b, IF direction = "hor" THEN "left" ELSE "top", b.n, 0)
    IN  [x, y \in 0 .. b.n - 1 |-> edge[IF direction = "hor" THEN y ELSE x]]

-----------------------------------------------------------------------------
(* Angular modes *)

Angles == <<0, 1, 2, 3, 4, 6, 8, 10, 12, 14, 16, 18, 20, 23, 26, 29, 32>>
Inverses == <<0, 16384, 8192, 5461, 4096, 2731, 2048, 1638, 1365, 1170, 1024, 910, 819, 712, 630, 565, 512>>
DctTaps ==
    << <<0, 64, 0, 0>>, <<-1, 63, 2, 0>>, <<-2, 62, 4, 0>>, <<-2, 60, 7, -1>>, <<-2, 58, 10, -2>>,
       <<-3, 57, 12, -2>>, <<-4, 56, 14, -2>>, <<-4, 55, 15, -2>>, <<-4, 54, 16, -2>>, <<-5, 53, 18, -2>>,
       <<-6, 52, 20, -2>>, <<-6, 49, 24, -3>>, <<-6, 46, 28, -4>>, <<-5, 44, 29, -4>>, <<-4, 42, 30, -4>>,
       <<-4, 39, 33, -4>>, <<-4, 36, 36, -4>>, <<-4, 33, 39, -4>>, <<-4, 30, 42, -4>>, <<-4, 29, 44, -5>>,
       <<-4, 28, 46, -6>>, <<-3, 24, 49, -6>>, <<-2, 20, 52, -6>>, <<-2, 18, 53, -5>>, <<-2, 16, 54, -4>>,
       <<-2, 15, 55, -4>>, <<-2, 14, 56, -4>>, <<-2, 12, 57, -3>>, <<-2, 10, 58, -2>>, <<-1, 7, 60, -2>>,
       <<0, 4, 62, -2>>, <<0, 2, 63, -1>> >>
Mapped422 ==
    <<0, 1, 61, 62, 63, 64, 65, 66, 2, 3, 5, 6, 8, 10, 12, 13, 14, 16, 18, 20, 22, 23, 24, 26, 28, 30, 31, 33,
      34, 35, 36, 37, 38, 39, 40, 41, 41, 42, 43, 43, 44, 44, 45, 45, 46, 47, 48, 48, 49, 49, 50, 51, 51, 52,
      52, 53, 54, 55, 55, 56, 56, 57, 57, 58, 59, 59, 60>>

\* vvc_chroma_prediction_mode_index
DirectionOf(plane, mode) == IF plane # "luma" /\ scene.sampling = "422" THEN Mapped422[mode + 1] ELSE mode

Distance(a, b) == IF a < b THEN b - a ELSE a - b

\* vvc_luma_angular_filter_params, and that a line further away is only interpolated
LumaFilter(n, mode, angle, line) ==
    LET steep == Min({Distance(mode, Horizontal), Distance(mode, Vertical)}) > (IF n = 4 THEN 24 ELSE 14)
    IN  IF line # 0 \/ ~steep THEN "dct" ELSE IF angle % 32 = 0 THEN "references" ELSE "smooth"

\* vvc_angular_pdpc_scale; less than zero when there is no correction.
CorrectionScale(n, angle, inverse) ==
    CASE angle < 0 -> -1
      [] angle = 0 -> (2 * Log(n) - 2) \div 4
      [] OTHER -> Min({2, Log(n) - ((CHOOSE k \in 0..31 : 2^k <= 3 * inverse - 2 /\ 3 * inverse - 2 < 2^(k + 1)) - 8)})

\* vvc_angular_prediction_params
ParamsOf(b, mode, line) ==
    LET upright == mode >= 34
        offset == IF upright THEN mode - Vertical ELSE Horizontal - mode
        angle == IF offset < 0 THEN -Angles[1 - offset] ELSE Angles[1 + offset]
        inverse == Inverses[1 + Distance(offset, 0)]
    IN  [main |-> IF upright THEN "top" ELSE "left", angle |-> angle, inverse |-> inverse,
         filter |-> IF b.plane = "luma" THEN LumaFilter(b.n, mode, angle, line) ELSE "linear",
         scale |-> IF line # 0 THEN -1 ELSE CorrectionScale(b.n, angle, inverse)]

\* angular_main_zero_reference, angular_shifted_reference_samples, the filter and
\* replicate_vvc_positive_angular_main_extension
EdgesOf(b, p, line) ==
    LET side == Facing(p.main)
        zero == Otherwise(b.plane, Place(b, p.main, -1, -1 - line), Corner(b, line))
        kept(s) == LET r == References(b, s, 2 * b.n + 4, line)
                   IN  IF p.filter = "references" THEN Smoothed(r, zero, 2 * b.n - 1) ELSE r
        main == kept(p.main)
        top == References(b, "top", 1, line)
        left == References(b, "left", 1, line)
        soft == (2 * zero + top[0] + left[0] + 2) \div 4
    IN  [main |-> IF p.angle < 0 THEN main ELSE [i \in DOMAIN main |-> main[Min({i, 2 * b.n - 1})]],
         side |-> kept(side),
         zero |-> IF p.filter = "references" THEN soft ELSE zero,
         sideZero |-> IF p.filter = "references" THEN soft
                      ELSE Otherwise(b.plane, Place(b, side, -1, -1 - line), zero),
         prefix |-> [k \in -line .. -1 |-> Otherwise(b.plane, Place(b, p.main, k - 1, -1 - line), zero)]]

\* angular_reference_sample: in front of the side is what is projected from the
\* other side.
Projected(b, p, edges, line, k) ==
    LET step == Min({((-(k + line)) * p.inverse + 256) \div 512, b.n}) - line
    IN  IF k > 0 THEN edges.main[Min({k - 1, 2 * b.n + 3})]
        ELSE IF k = 0 THEN edges.zero
        ELSE IF k >= -line THEN edges.prefix[k]
        ELSE IF step <= 0 THEN edges.sideZero ELSE edges.side[step - 1]

\* angular_reference_prediction
Interpolated(b, p, edges, line, k, fract) ==
    LET sample(i) == Projected(b, p, edges, line, k + i)
        taps == IF p.filter = "smooth"
                THEN <<16 - fract \div 2, 32 - fract \div 2, 16 + fract \div 2, fract \div 2>>
                ELSE DctTaps[fract + 1]
    IN  IF fract = 0 THEN sample(0)
        ELSE IF p.filter = "linear" THEN sample(0) + ((fract * (sample(1) - sample(0)) + 16) \div 32)
        ELSE Clamped((taps[1] * sample(-1) + taps[2] * sample(0) + taps[3] * sample(1) + taps[4] * sample(2) + 32)
                     \div 64)

\* apply_vvc_angular_pdpc_to_vertical_row and _to_horizontal_column
Corrected(b, p, edges, corner, value, along, across) ==
    LET index == IF p.angle = 0 THEN across ELSE across + ((256 + (along + 1) * p.inverse) \div 512)
        anchor == IF p.angle = 0 THEN corner ELSE value
    IN  IF p.scale < 0 \/ along >= Min({3 * 2^p.scale, b.n}) THEN value
        ELSE Clamped(value + ((Fading(along, p.scale) * (edges.side[Min({index, 2 * b.n + 3})] - anchor) + 32) \div 64))

\* predict_vvc_angular_block_into and the oriented blocks
AngularBlock(b, mode, line) ==
    LET p == ParamsOf(b, mode, line)
        edges == EdgesOf(b, p, line)
        corner == Corner(b, line)
        value(along, across) ==
            LET shift == p.angle * (across + 1 + line)
            IN  Corrected(b, p, edges, corner,
                          Interpolated(b, p, edges, line, (shift \div 32) + along + 1, shift % 32), along, across)
    IN  [x, y \in 0 .. b.n - 1 |-> IF p.main = "top" THEN value(x, y) ELSE value(y, x)]

-----------------------------------------------------------------------------
(* The modes that follow luma *)

LinearLeft == 82        \* VvcChromaCclmMode::MdlmLeft
LinearTop == 83         \* VvcChromaCclmMode::MdlmTop

\* cclm_top_template_available, cclm_left_template_available
HasSide(b, side) == \A i \in 0 .. b.n - 1 : Held(b.plane, Place(b, side, i, -1))

\* cclm_top_right_template_available_count, cclm_below_left_template_available_count:
\* whole units of four luma samples.
Beyond(b, side) ==
    LET unit == 4 \div (IF side = "top" THEN SubWidth(scene.sampling) ELSE SubHeight(scene.sampling))
        most == (b.n \div unit) * unit
        held(i) == Held(b.plane, Place(b, side, b.n + i, -1))
        count == CHOOSE i \in 0..most : (\A j \in 0 .. i - 1 : held(j)) /\ (i = most \/ ~held(i))
    IN  (count \div unit) * unit

\* vvc_cclm_template: how many samples of each side are looked at.
TemplateOf(b, mode) ==
    LET length(side, only) ==
            IF ~HasSide(b, side) \/ mode \notin {Linear, only} THEN 0
            ELSE b.n + IF mode = only THEN Beyond(b, side) ELSE 0
    IN  [top |-> length("top", LinearTop), left |-> length("left", LinearLeft),
         padded |-> ~HasSide(b, "left")]

\* The places along a side of which the line is drawn: two of each, or four of one.
Points(count, alone) ==
    LET start == count \div (IF alone THEN 8 ELSE 4)
        step == Max({1, count \div (IF alone THEN 4 ELSE 2)})
    IN  [i \in 1 .. Min({count, IF alone THEN 4 ELSE 2}) |-> start + (i - 1) * step]

\* cclm_luma_sample
LumaAt(x, y) ==
    Otherwise("luma", <<Max({0, Min({x, scene.w - 1})}), Max({0, Min({y, scene.h - 1})})>>, Grey)

\* cclm_downsample_luma_at, cclm_downsample_left_luma: one, two and one of each row.
Averaged(Sample(_, _), x, y, rows, padded) ==
    LET row(j) == Sample(IF padded THEN x ELSE x - 1, j) + 2 * Sample(x, j) + Sample(x + 1, j)
    IN  IF scene.sampling = "444" THEN Sample(x, y)
        ELSE (row(y) + (IF rows = 2 THEN row(y + 1) ELSE 0) + 2 * rows) \div (4 * rows)

\* cclm_downsample_inner_luma
InnerLuma(b, x, y, padded) ==
    Averaged(LumaAt, b.node.x + x * SubWidth(scene.sampling), b.node.y + y * SubHeight(scene.sampling),
             SubHeight(scene.sampling), x = 0 /\ padded)

\* cclm_downsample_top_luma: above a CTU there is one row.
TopLuma(b, x, padded) ==
    LET rows == IF b.node.y % CtuSize = 0 THEN 1 ELSE SubHeight(scene.sampling)
    IN  Averaged(LumaAt, b.node.x + x * SubWidth(scene.sampling), b.node.y - rows, rows, x = 0 /\ padded)

LeftLuma(b, y) ==
    Averaged(LumaAt, b.node.x - SubWidth(scene.sampling), b.node.y + y * SubHeight(scene.sampling),
             SubHeight(scene.sampling), FALSE)

Significand == <<0, 7, 6, 5, 5, 4, 4, 3, 3, 2, 2, 1, 1, 1, 1, 0>>
FloorLog(v) == IF v <= 0 THEN -1 ELSE CHOOSE k \in 0..30 : 2^k <= v /\ v < 2^(k + 1)

\* The order derive_vvc_cclm_luma_selection brings four values into: the two
\* small ones, then the two large ones.
Ordered(v, r, i, j) == IF v[r[i]] > v[r[j]] THEN [r EXCEPT ![i] = r[j], ![j] = r[i]] ELSE r
HalvesOrdered(v, r) == IF v[r[1]] > v[r[4]] THEN <<r[3], r[4], r[1], r[2]>> ELSE r
Ranked(v) == Ordered(v, HalvesOrdered(v, Ordered(v, Ordered(v, <<1, 3, 2, 4>>, 1, 2), 3, 4)), 2, 3)

\* derive_vvc_cclm_parameters_from_selection: the line through the mean of the
\* small and the mean of the large ones.
MeanOf(v, r, i) == (v[r[i]] + v[r[i + 1]] + 1) \div 2

SlopeThrough(low, base, rise, norm, x, y) ==
    LET slope == (rise * (Significand[norm + 1] + 8) + 2^y \div 2) \div 2^y
        a == IF 3 + x - y >= 1 THEN slope ELSE IF slope = 0 THEN 0 ELSE IF slope < 0 THEN -15 ELSE 15
        shift == Max({1, 3 + x - y})
    IN  [a |-> a, b |-> base - ((a * low) \div 2^shift), shift |-> shift]

LineFrom(low, base, diff, rise) ==
    LET norm == ((diff * 16) \div 2^FloorLog(diff)) % 16
    IN  IF diff <= 0 THEN [a |-> 0, b |-> base, shift |-> 0]
        ELSE SlopeThrough(low, base, rise, norm, FloorLog(diff) + Flag(norm # 0), FloorLog(Distance(rise, 0)) + 1)

RankedLine(luma, chroma, r) ==
    LineFrom(MeanOf(luma, r, 1), MeanOf(chroma, r, 1),
             MeanOf(luma, r, 3) - MeanOf(luma, r, 1), MeanOf(chroma, r, 3) - MeanOf(chroma, r, 1))

LineThrough(luma, chroma) == RankedLine(luma, chroma, Ranked(luma))

OnLine(l, luma) == Clamped(((l.a * luma) \div 2^l.shift) + l.b)

\* predict_vvc_chroma_cclm_block_with_luma_scratch_into
LinearBlock(b, mode) ==
    LET t == TemplateOf(b, mode)
        top == Points(t.top, t.left = 0)
        left == Points(t.left, t.top = 0)
        chroma(side, i) == SampleAt(b.plane, Inside(b, Place(b, side, i, -1)))
        line == IF t.top = 0 /\ t.left = 0 THEN [a |-> 0, b |-> Grey, shift |-> 0]
                ELSE LineThrough(
                        [i \in DOMAIN top |-> TopLuma(b, top[i], t.padded)] \o [i \in DOMAIN left |-> LeftLuma(b, left[i])],
                        [i \in DOMAIN top |-> chroma("top", top[i])] \o [i \in DOMAIN left |-> chroma("left", left[i])])
    IN  [x, y \in 0 .. b.n - 1 |-> OnLine(line, InnerLuma(b, x, y, t.padded))]

\* predict_vvc_intra_block_into, predict_vvc_chroma_mode_block_into_with_availability
Predicted(b, m) ==
    LET mode == DirectionOf(b.plane, m.mode)
    IN  CASE m.bdpcm # "off" -> CopiedBlock(b, m.bdpcm)
          [] m.bdpcm = "off" /\ m.mode >= Linear -> LinearBlock(b, m.mode)
          [] m.bdpcm = "off" /\ m.mode = Planar -> PlanarBlock(b)
          [] m.bdpcm = "off" /\ m.mode = Dc -> DcBlock(b, m.line)
          [] OTHER -> AngularBlock(b, mode, m.line)

-----------------------------------------------------------------------------
(* The format *)

Known(plane, at) == at[1] >= 0 /\ at[2] >= 0 /\ <<at[1] \div 4, at[2] \div 4>> \in decoded[Group(plane)]

\* 8.4.5.2.8 and 8.4.5.2.9: the samples around a block, from the lowest on its
\* left over the corner to the rightmost above it.
AroundOf(b, r) ==
    LET reach == 2 * b.n
        at(i) == IF i <= reach + 1 + r THEN <<b.x - 1 - r, b.y + reach - i>>
                 ELSE <<b.x + i - reach - 2 - 2 * r, b.y - 1 - r>>
        all == 1 .. 2 * reach + 1 + 2 * r
        known == {i \in all : Known(b.plane, at(i))}
        from(i) == IF \E j \in known : j <= i THEN Max({j \in known : j <= i}) ELSE Min(known)
    IN  [i \in all |-> IF known = {} THEN Grey ELSE SampleAt(b.plane, at(from(i)))]

\* 8.4.5.2.10
FilteredAround(p) ==
    [i \in DOMAIN p |-> IF i \in {1, Len(p)} THEN p[i] ELSE (p[i - 1] + 2 * p[i] + p[i + 1] + 2) \div 4]

FormatTaps(k) == IF k <= 16 THEN DctTaps[k + 1] ELSE Reverse(DctTaps[33 - k])

\* 8.4.5.2.13 for an upright mode; a flat one is an upright one of the samples in
\* reverse order.
FormatAngular(b, mode, r, p) ==
    LET offset == IF mode >= 34 THEN mode - 50 ELSE 18 - mode
        angle == IF offset < 0 THEN -Angles[1 - offset] ELSE Angles[1 + offset]
        inverse == IF angle = 0 THEN 0 ELSE IF angle < 0 THEN -((16384 - (angle \div 2)) \div (-angle))
                   ELSE (16384 + angle \div 2) \div angle
        reach == 2 * b.n
        left(y) == p[reach - y]
        above(x) == p[reach + 2 + 2 * r + x]
        ref(x) == IF x < 0 THEN left(-1 - r + Min({(x * inverse + 256) \div 512, b.n}))
                  ELSE above(Min({x - 1 - r, reach - 1}))
        near == Min({Distance(mode, 50), Distance(mode, 18)})
        soft == r = 0 /\ near > (CASE b.n = 4 -> 24 [] b.n = 8 -> 14 [] OTHER -> 2) /\ mode \notin {2, 34, 66}
        whole(y) == (((y + 1 + r) * angle) \div 32) + r
        part(y) == ((y + 1 + r) * angle) % 32
        taps(f) == IF soft THEN <<16 - f \div 2, 32 - f \div 2, 16 + f \div 2, f \div 2>> ELSE FormatTaps(f)
        plain(x, y) ==
            LET i == x + whole(y)
                f == part(y)
                t == taps(f)
            IN  IF b.plane = "luma"
                THEN Clamped((t[1] * ref(i) + t[2] * ref(i + 1) + t[3] * ref(i + 2) + t[4] * ref(i + 3) + 32) \div 64)
                ELSE ((32 - f) * ref(i + 1) + f * ref(i + 2) + 16) \div 32
        scale == IF angle = 0 THEN (2 * Log(b.n) - 2) \div 4
                 ELSE Min({2, Log(b.n) - FloorLog(3 * inverse - 2) + 8})
        weight(x) == 32 \div 2^Min({31, (2 * x) \div 2^scale})
        dx(x, y) == y + (((x + 1) * inverse + 256) \div 512)
    IN  [x, y \in 0 .. b.n - 1 |->
            IF r # 0 \/ angle < 0 \/ scale < 0 THEN plain(x, y)
            ELSE IF angle = 0
            THEN Clamped(((left(y) - left(-1) + plain(x, y)) * weight(x) + (64 - weight(x)) * plain(x, y) + 32) \div 64)
            ELSE IF x < 3 * 2^scale
            THEN Clamped((left(dx(x, y)) * weight(x) + (64 - weight(x)) * plain(x, y) + 32) \div 64)
            ELSE plain(x, y)]

\* 8.4.5.2.11, 8.4.5.2.12 and 8.4.5.2.15
FormatFlat(b, m, p) ==
    LET reach == 2 * b.n
        left(y) == p[reach - y]
        above(x) == p[reach + 2 + 2 * m.line + x]
        scale == (Log(b.n) + Log(b.n) - 2) \div 4
        weight(x) == 32 \div 2^((2 * x) \div 2^scale)
        edges == FoldFunction(+, 0, [i \in 0 .. b.n - 1 |-> left(i) + above(i)])
        value(x, y) ==
            IF m.mode = Dc THEN (edges + b.n) \div (2 * b.n)
            ELSE (b.n * ((b.n - 1 - y) * above(x) + (y + 1) * left(b.n))
                  + b.n * ((b.n - 1 - x) * left(y) + (x + 1) * above(b.n)) + b.n * b.n) \div (2 * b.n * b.n)
    IN  [x, y \in 0 .. b.n - 1 |->
            IF m.line # 0 THEN value(x, y)
            ELSE Clamped((left(y) * weight(x) + above(x) * weight(y)
                          + (64 - weight(x) - weight(y)) * value(x, y) + 32) \div 64)]

\* 8.4.5.2.14
FormatLinear(b, mode) ==
    LET width == SubWidth(scene.sampling)
        height == SubHeight(scene.sampling)
        known(x, y) == Known(b.plane, <<b.x + x, b.y + y>>)
        availL == known(-1, 0)
        availT == known(0, -1)
        more(k(_)) == Cardinality({i \in b.n .. 2 * b.n - 1 : \A j \in b.n .. i : k(j)})
        onTop(x) == known(x, -1)
        onLeft(y) == known(-1, y)
        sampT == IF ~availT \/ mode = LinearLeft THEN 0 ELSE b.n + IF mode = LinearTop THEN more(onTop) ELSE 0
        sampL == IF ~availL \/ mode = LinearTop THEN 0 ELSE b.n + IF mode = LinearLeft THEN more(onLeft) ELSE 0
        is4 == IF availT /\ availL /\ mode = Linear THEN 0 ELSE 1
        pick(count, k) == count \div 2^(2 + is4) + (k - 1) * Max({1, count \div 2^(1 + is4)})
        cnt(count) == Min({count, (1 + is4) * 2})
        pY(x, y) == SampleAt("luma", <<IF x < b.node.x /\ ~availL THEN b.node.x ELSE x, y>>)
        one == b.node.y % CtuSize = 0 \/ height = 1
        topY(x) == Averaged(pY, b.node.x + width * x, b.node.y - (IF one THEN 1 ELSE 2), IF one THEN 1 ELSE 2, FALSE)
        insideY(x, y) == Averaged(pY, b.node.x + width * x, b.node.y + height * y, height, FALSE)
        luma == [k \in 1..cnt(sampT) |-> topY(pick(sampT, k))]
                \o [k \in 1..cnt(sampL) |-> insideY(-1, pick(sampL, k))]
        chroma == [k \in 1..cnt(sampT) |-> SampleAt(b.plane, <<b.x + pick(sampT, k), b.y - 1>>)]
                  \o [k \in 1..cnt(sampL) |-> SampleAt(b.plane, <<b.x - 1, b.y + pick(sampL, k)>>)]
        line == IF sampT = 0 /\ sampL = 0 THEN [a |-> 0, b |-> Grey, shift |-> 0] ELSE LineThrough(luma, chroma)
    IN  [x, y \in 0 .. b.n - 1 |-> OnLine(line, insideY(x, y))]

\* What a decoder predicts the block from.
FormatPredicted(b, m) ==
    LET mode == DirectionOf(b.plane, m.mode)
        around == AroundOf(b, m.line)
        soft == b.plane = "luma" /\ m.line = 0 /\ b.n * b.n > 32 /\ m.mode \in {Planar, 2, 34, 66}
        p == IF soft THEN FilteredAround(around) ELSE around
        flat == FormatAngular(b, mode, m.line, Reverse(p))
        at(x, y) == around[IF m.bdpcm = "hor" THEN 2 * b.n - y ELSE 2 * b.n + 2 + x]
    IN  CASE m.bdpcm # "off" -> [x, y \in 0 .. b.n - 1 |-> at(x, y)]
          [] m.bdpcm = "off" /\ m.mode >= Linear -> FormatLinear(b, m.mode)
          [] m.bdpcm = "off" /\ m.mode \in {Planar, Dc} -> FormatFlat(b, m, p)
          [] m.bdpcm = "off" /\ m.mode \notin {Planar, Dc} /\ m.mode < Linear /\ mode < 34 ->
                [x, y \in 0 .. b.n - 1 |-> flat[y, x]]
          [] OTHER -> FormatAngular(b, mode, m.line, p)

-----------------------------------------------------------------------------
(* The CTUs *)

SceneCols == (scene.w + CtuSize - 1) \div CtuSize
SceneCtus == SceneCols * ((scene.h + CtuSize - 1) \div CtuSize)
LeftEdge(c) == (c % SceneCols) * CtuSize
TopEdge(c) == (c \div SceneCols) * CtuSize
ScenePayload(c) == scene.payload[(c % Len(scene.payload)) + 1]

\* VvcCtuRegion, clipped to the picture
CtuRegion(c) == [x |-> LeftEdge(c), y |-> TopEdge(c),
                 w |-> Min({CtuSize, scene.w - LeftEdge(c)}), h |-> Min({CtuSize, scene.h - TopEdge(c)})]

\* The nodes of a CTU in the order they are quantised: all of luma, then the
\* chroma of each node.
RegionsOf(c) ==
    LET area == [w |-> CtuRegion(c).w, h |-> CtuRegion(c).h]
        luma == LumaNodes(RootAt(0, 0, IF scene.dual THEN "luma" ELSE "single"), area,
                          IF scene.inter THEN "P" ELSE "I", scene.leaf)
        chroma == IF scene.dual THEN ChromaNodes(RootAt(0, 0, "chroma"), area, scene.sampling) ELSE luma
        placed(nodes) == [i \in DOMAIN nodes |->
                            [nodes[i] EXCEPT !.x = @ + LeftEdge(c), !.y = @ + TopEdge(c)]]
        regions(nodes, plane) == [i \in DOMAIN nodes |-> RegionOf(placed(nodes)[i], plane)]
    IN  regions(luma, "luma") \o regions(chroma, "cb")

MarkedWith(map, b) == [map EXCEPT ![Group(b.plane)] = @ \cup UnitsOf(b)]
NothingThere == [luma |-> {}, chroma |-> {}]

IntraInit ==
    /\ scene \in Scenes
    /\ begun = 0
    /\ ahead = <<>>
    /\ marked = NothingThere
    /\ decoded = NothingThere
    /\ attempt = NoAttempt

\* Mutant: what was there for the slice before stays marked.
MutKept(c) == marked

\* clear_availability: a CTU of its own slice sees nothing of the others.
Kept(c) == IF scene.sliced THEN NothingThere ELSE marked

\* quantize_vvc_ctu_with_luma_leaf_selection begins a CTU, or copy_ctu_from
\* takes it from the picture before.
BeginCtu ==
    /\ ahead = <<>> /\ begun < SceneCtus
    /\ begun' = begun + 1
    /\ LET old == IF scene.sliced THEN NothingThere ELSE decoded
           copied(map) == MarkedWith(MarkedWith(map, RegionOf(CtuRegion(begun), "luma")), RegionOf(CtuRegion(begun), "cb"))
       IN  IF ScenePayload(begun) = "coded"
           THEN marked' = Kept(begun) /\ decoded' = old /\ ahead' = RegionsOf(begun)
           ELSE marked' = copied(marked) /\ decoded' = copied(old) /\ ahead' = <<>>
    /\ UNCHANGED <<scene, attempt>>

\* A line further away is looked at for modes with a direction, and for DC,
\* below the first row of a CTU.
LinesFor(b, mode) ==
    IF b.plane = "luma" /\ mode # Planar /\ b.y % CtuSize # 0 /\ (scene.lossless \/ b.n >= 8) THEN 0..2 ELSE {0}

\* The projection starts two samples below the line.
StepsPastLine(mode, line) ==
    LET offset == IF mode >= 34 THEN mode - Vertical ELSE Horizontal - mode
    IN  line = 2 /\ offset < 0 /\ Inverses[1 - offset] < 768

TryMode ==
    /\ ahead # <<>> /\ attempt = NoAttempt
    /\ LET b == Head(ahead)
           turn == (b.x \div 4) * 3 + (b.y \div 4) * 5
           some == {mode \in 0..66 : (mode + turn) % scene.spread = 0}
           linear == IF b.plane # "luma" /\ CclmNode(b.node) THEN {Linear, LinearLeft, LinearTop} ELSE {}
       IN  \E plane \in IF b.plane = "luma" THEN {"luma"} ELSE {"cb", "cr"} :
              attempt' \in
                {[plane |-> plane, mode |-> mode, line |-> 0, bdpcm |-> "off"] : mode \in some \cup linear}
                \cup {[plane |-> plane, mode |-> mode, line |-> line, bdpcm |-> "off"] :
                        mode \in {m \in some : LinesFor(b, m) # {0}}, line \in 1..2}
                \cup {[plane |-> plane, mode |-> Dc, line |-> 0, bdpcm |-> d] : d \in {"hor", "ver"}}
    /\ UNCHANGED <<scene, begun, ahead, marked, decoded>>

\* What is left of the residual is added, and the node marked.
Reconstruct ==
    /\ attempt # NoAttempt
    /\ marked' = MarkedWith(marked, Head(ahead))
    /\ decoded' = MarkedWith(decoded, Head(ahead))
    /\ ahead' = Tail(ahead)
    /\ attempt' = NoAttempt
    /\ UNCHANGED <<scene, begun>>

IntraNext == BeginCtu \/ TryMode \/ Reconstruct

-----------------------------------------------------------------------------
(* Properties *)

\* A decoder predicts the block from the same samples, to the same values: the
\* encoder takes no sample of another slice, of a CTU or a block that is not
\* there yet, misses none that is there, at no border of the picture, of a slice
\* or of a row of CTUs, and puts the same value in the place of one that is
\* missing.  Left out is the projection of StepsPastLine.
PredictionFollowsTheFormat ==
    attempt # NoAttempt =>
        LET b == [Head(ahead) EXCEPT !.plane = attempt.plane]
        IN  /\ b.n = b.m
            /\ StepsPastLine(attempt.mode, attempt.line) \/ Predicted(b, attempt) = FormatPredicted(b, attempt)

\* "Angular/H/V MRL prediction uses shifted reference-line sampling instead of
\* reusing the base reference line" (docs/compiler-optimizations.md): from a line
\* further away, too, a block is predicted as a decoder predicts it.
FurtherLinesAreProjected ==
    attempt # NoAttempt /\ attempt.line # 0 =>
        LET b == [Head(ahead) EXCEPT !.plane = attempt.plane]
        IN  Predicted(b, attempt) = FormatPredicted(b, attempt)
=============================================================================

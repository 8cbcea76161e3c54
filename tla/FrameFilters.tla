---------------------------- MODULE FrameFilters ----------------------------
(***************************************************************************)
(* Raw frames (framefinery-api/src/frame.rs) and the built-in filters      *)
(* (framefinery-api/src/filters.rs). A format is a record of a layout and  *)
(* a bit depth, a frame the sequence of its bytes with its width, height   *)
(* and format.                                                             *)
(*                                                                         *)
(* A list of filter specs becomes a pipeline, the pipeline announces the   *)
(* frames it will deliver, and then frames of an input or of the pattern   *)
(* source are cropped and scaled, byte by byte.                            *)
(*                                                                         *)
(* An input frame is either a frame of a pattern or the frame whose bytes  *)
(* are called after their own places, which shows where each goes.         *)
(***************************************************************************)
EXTENDS Integers, Sequences, SequencesExt, FiniteSetsExt

Layouts == {"rgb24", "gbrp8", "gray", "420", "422", "444"}

IsRgb(format) == format.layout \in {"rgb24", "gbrp8"}
HasChroma(format) == format.layout \in {"420", "422", "444"}
SubsampleX(format) == IF format.layout \in {"420", "422"} THEN 2 ELSE 1
SubsampleY(format) == IF format.layout = "420" THEN 2 ELSE 1

BytesPerSample(format) == IF format.bits <= 8 THEN 1 ELSE 2
MaxSampleOf(bits) == 2 ^ bits - 1

ChromaPlaneSamples(format, w, h) ==
    IF HasChroma(format) THEN (w * h) \div (SubsampleX(format) * SubsampleY(format)) ELSE 0

\* PixelFormat::frame_len, in bytes.
FrameLength(format, w, h) ==
    IF IsRgb(format) THEN 3 * w * h
    ELSE (w * h + 2 * ChromaPlaneSamples(format, w, h)) * BytesPerSample(format)

\* validate_geometry.
ValidGeometry(format, w, h) ==
    /\ w > 0 /\ h > 0
    /\ w % SubsampleX(format) = 0 /\ h % SubsampleY(format) = 0

-----------------------------------------------------------------------------
(* Samples.  Deep ones are two bytes, the low byte first.                   *)

\* read_planar_sample and write_planar_sample, samples counted from 0.
ReadSample(bytes, i, format) ==
    IF BytesPerSample(format) = 1 THEN bytes[i + 1] ELSE bytes[2 * i + 1] + 256 * bytes[2 * i + 2]

\* The bytes of a buffer filled by write_planar_sample, from its samples.
SampleBytes(samples, format) ==
    IF BytesPerSample(format) = 1 THEN [i \in DOMAIN samples |-> samples[i] % 256]
    ELSE [i \in 1..(2 * Len(samples)) |->
             LET s == samples[(i + 1) \div 2] IN IF i % 2 = 1 THEN s % 256 ELSE s \div 256]

\* scale_sample_bit_depth.
ScaledSample(sample, from, to) ==
    LET most == MaxSampleOf(from)
        kept == IF sample > most THEN most ELSE sample
    IN  IF from = to THEN kept ELSE (kept * MaxSampleOf(to) + most \div 2) \div most

-----------------------------------------------------------------------------
(* convert_frame_format                                                     *)

\* convert_planar_frame_bit_depth: all planes as one run of samples.
ConvertDepth(bytes, from, to) ==
    SampleBytes([i \in 1..(Len(bytes) \div BytesPerSample(from)) |->
                    ScaledSample(ReadSample(bytes, i - 1, from), from.bits, to.bits)], to)

\* rgb24_to_gbrp8: plane 0 is green, 1 blue, 2 red.
ToPlanes(bytes) ==
    LET pixels == Len(bytes) \div 3
        green == [i \in 1..pixels |-> bytes[3 * (i - 1) + 2]]
        blue == [i \in 1..pixels |-> bytes[3 * (i - 1) + 3]]
        red == [i \in 1..pixels |-> bytes[3 * (i - 1) + 1]]
    IN  green \o blue \o red

\* gbrp8_to_rgb24.
ToPacked(bytes) ==
    LET pixels == Len(bytes) \div 3
        plane == <<2, 0, 1>>
    IN  [i \in DOMAIN bytes |-> bytes[plane[((i - 1) % 3) + 1] * pixels + (i - 1) \div 3 + 1]]

\* Which pairs of formats it takes: others are refused.
IsConvertible(from, to) ==
    \/ from = to
    \/ IsRgb(from) /\ IsRgb(to)
    \/ ~IsRgb(from) /\ from.layout = to.layout

ConvertFormat(bytes, from, to) ==
    CASE from = to                                   -> bytes
      [] from.layout = "rgb24" /\ to.layout = "gbrp8" -> ToPlanes(bytes)
      [] from.layout = "gbrp8" /\ to.layout = "rgb24" -> ToPacked(bytes)
      [] OTHER                                       -> ConvertDepth(bytes, from, to)

-----------------------------------------------------------------------------

CONSTANTS
    Requests    \* what a caller asks for: records with
                \*   specs     the filter specs, names with key-value pairs
                \*   input     whether there is an input
                \*   content   what its frames hold: "places" or a pattern
                \*   from      the format of the input
                \*   info      width, height and format of the frames to be filtered
                \*   frames    how many frames the source has

VARIABLES
    request,     \* the member of Requests
    transforms,  \* the transforms of the pipeline
    announced,   \* filter_pipeline_output_info
    given,       \* frames taken from the source
    frame,       \* the frame on its way, with its info
    passed,      \* transforms it went through
    stage        \* "parse", "announce", "take", "filter", "end", "refused" or "failed"

filterVars == <<request, transforms, announced, given, frame, passed, stage>>

-----------------------------------------------------------------------------
(* Filter specs                                                             *)

Patterns == {"black", "checker", "gradient", "color_blocks", "bitdepth_canary"}

Keys(spec) == {spec.params[i][1] : i \in DOMAIN spec.params}
Value(spec, key) == SelectSeq(spec.params, LAMBDA p : p[1] = key)[1][2]

\* parse_crop_filter_spec and parse_scale_filter_spec: each key once and no other,
\* each value a number, width and height above zero.
HasParameters(spec, keys) ==
    /\ Keys(spec) = keys /\ Len(spec.params) = Cardinality(keys)
    /\ \A k \in keys : Value(spec, k) \in Nat /\ (k \in {"w", "h"} => Value(spec, k) > 0)

\* validate_executable_filter_spec.  "pattern" has its name for the only parameter.
ValidSpec(spec) ==
    CASE spec.name = "pattern"  -> Len(spec.params) = 1 /\ spec.params[1][2] \in Patterns
      [] spec.name = "identity" -> spec.params = <<>>
      [] spec.name = "crop"     -> HasParameters(spec, {"x", "y", "w", "h"})
      [] spec.name = "scale"    -> HasParameters(spec, {"w", "h"})
      [] OTHER                  -> FALSE

\* parse_filter_pipeline_specs accepts the list: the source, if there is no input,
\* comes first, and it is the only one.
AcceptsSpecs(specs, hasInput) ==
    /\ \A i \in DOMAIN specs : ValidSpec(specs[i])
    /\ \A i \in DOMAIN specs : specs[i].name = "pattern" => i = 1 /\ ~hasInput
    /\ ~hasInput => specs # <<>> /\ specs[1].name = "pattern"

\* validate_pattern_kind_format, by PatternSource::new.
PatternFits(pattern, format) ==
    pattern = "bitdepth_canary" => ~IsRgb(format) /\ format.bits > 8

-----------------------------------------------------------------------------
(* Crop and scale                                                           *)

CropRectangle(spec) == [k \in {"x", "y", "w", "h"} |-> Value(spec, k)]

\* crop_output_info: the rectangle lies in the frame and on whole chroma samples.
CropFits(r, info) ==
    LET sx == SubsampleX(info.format)
        sy == SubsampleY(info.format)
    IN  /\ r.x + r.w <= info.w /\ r.y + r.h <= info.h
        /\ r.x % sx = 0 /\ r.w % sx = 0 /\ r.y % sy = 0 /\ r.h % sy = 0
        /\ ValidGeometry(info.format, r.w, r.h)

\* Whether a transform takes frames of info, and what it makes of them: output_info
\* of the filter.
Takes(spec, info) ==
    CASE spec.name = "identity" -> TRUE
      [] spec.name = "crop"     -> CropFits(CropRectangle(spec), info)
      [] spec.name = "scale"    -> ValidGeometry(info.format, Value(spec, "w"), Value(spec, "h"))

OutputInfo(spec, info) ==
    IF spec.name = "identity" THEN info
    ELSE [info EXCEPT !.w = Value(spec, "w"), !.h = Value(spec, "h")]

\* crop_plane_bytes: rows of a plane with "unit" bytes per sample.
CropPlane(plane, width, r, unit) ==
    LET row == r.w * unit
    IN  [i \in 1..(r.h * row) |->
            plane[(r.y + (i - 1) \div row) * width * unit + r.x * unit + ((i - 1) % row) + 1]]

\* scale_plane_bytes: the nearest sample above and to the left.
ScalePlane(plane, width, height, w, h, unit) ==
    LET row == w * unit
        sourceY(i) == (((i - 1) \div row) * height) \div h
        sourceX(i) == ((((i - 1) % row) \div unit) * width) \div w
    IN  [i \in 1..(h * row) |->
            plane[sourceY(i) * width * unit + sourceX(i) * unit + ((i - 1) % unit) + 1]]

\* The planes of a frame, each with the bytes of a sample, or of a pixel when packed,
\* and how many pixels its samples cover.
PlanesOf(format) ==
    LET plane(unit, sx, sy) == [unit |-> unit, sx |-> sx, sy |-> sy]
        whole == plane(BytesPerSample(format), 1, 1)
        chroma == plane(BytesPerSample(format), SubsampleX(format), SubsampleY(format))
    IN  CASE format.layout = "rgb24" -> <<plane(3, 1, 1)>>
          [] format.layout = "gbrp8" -> <<whole, whole, whole>>
          [] format.layout = "gray"  -> <<whole>>
          [] OTHER                   -> <<whole, chroma, chroma>>

PlaneBytes(plane, info) == (info.w \div plane.sx) * (info.h \div plane.sy) * plane.unit

\* Mutant: the second chroma plane begins where the first does.
MutPlaneStart(info, k) ==
    LET planes == PlanesOf(info.format)
    IN  FoldLeft(LAMBDA sum, p : sum + PlaneBytes(p, info), 0, SubSeq(planes, 1, IF k = 3 THEN 1 ELSE k - 1))

\* Where plane k of a frame begins.
PlaneStart(info, k) ==
    LET planes == PlanesOf(info.format)
    IN  FoldLeft(LAMBDA sum, p : sum + PlaneBytes(p, info), 0, SubSeq(planes, 1, k - 1))

PlaneOf(bytes, info, k) ==
    LET start == PlaneStart(info, k)
    IN  SubSeq(bytes, start + 1, start + PlaneBytes(PlanesOf(info.format)[k], info))

\* crop_frame_data.
Cropped(bytes, info, r) ==
    LET planes == PlanesOf(info.format)
        crop(k) ==
            LET p == planes[k]
                inPlane == [x |-> r.x \div p.sx, y |-> r.y \div p.sy,
                            w |-> r.w \div p.sx, h |-> r.h \div p.sy]
            IN  CropPlane(PlaneOf(bytes, info, k), info.w \div p.sx, inPlane, p.unit)
    IN  FoldLeft(LAMBDA done, k : done \o crop(k), <<>>, [k \in DOMAIN planes |-> k])

\* scale_frame_data.
Scaled(bytes, info, w, h) ==
    LET planes == PlanesOf(info.format)
        scale(k) ==
            LET p == planes[k]
            IN  ScalePlane(PlaneOf(bytes, info, k), info.w \div p.sx, info.h \div p.sy,
                           w \div p.sx, h \div p.sy, p.unit)
    IN  FoldLeft(LAMBDA done, k : done \o scale(k), <<>>, [k \in DOMAIN planes |-> k])

\* Filter::process of a transform.
Processed(spec, bytes, info) ==
    CASE spec.name = "identity" -> bytes
      [] spec.name = "crop"     -> Cropped(bytes, info, CropRectangle(spec))
      [] spec.name = "scale"    -> Scaled(bytes, info, Value(spec, "w"), Value(spec, "h"))

-----------------------------------------------------------------------------
(* The pattern source                                                       *)

\* pattern_sample: red, green and blue, or luma and chroma, of a pixel.
PatternSample(pattern, x, y, n) ==
    CASE pattern = "black" -> <<0, 0, 0>>
      [] pattern = "checker" ->
            IF (x \div 8 + y \div 8 + n) % 2 = 0 THEN <<208, 176, 80>> ELSE <<48, 96, 160>>
      [] pattern = "gradient" ->
            <<(x * 7 + y * 5 + n * 17) % 256, (64 + x * 3 + n * 11) % 256, (96 + y * 4 + n * 13) % 256>>
      [] pattern = "color_blocks" ->
            <<<<32, 128, 128>>, <<80, 96, 176>>, <<144, 176, 96>>, <<224, 112, 144>>>>
                [((x \div 8 + (y \div 8) * 2 + n) % 4) + 1]

\* The bits of x & 3, y & 3, the plane and the frame, or-ed together.
Bit(value, b) == (value \div 2 ^ b) % 2
LowBits(x, y, n, plane) ==
    LET set(b) == \/ b < 2 /\ Bit(x, b) = 1
                  \/ b \in {2, 3} /\ Bit(y, b - 2) = 1
                  \/ b \in {1, 2} /\ Bit(plane, b - 1) = 1
                  \/ Bit(n, b) = 1
    IN  SumSet({2 ^ b : b \in {c \in 0..7 : set(c)}})

\* bitdepth_canary_sample, with bitdepth_canary_lower.
CanarySample(x, y, n, plane, bits) ==
    LET base == <<<<32, 96, 160, 224>>, <<80, 144, 208, 48>>, <<112, 176, 64, 240>>>>
        block == (x \div 8 + (y \div 8) * 2 + n) % 4
        unit == 2 ^ (bits - 8)
        lower == LowBits(x, y, n, plane) % unit
    IN  base[plane + 1][block + 1] * unit + (IF lower = 0 THEN unit - 1 ELSE lower)

\* The sample of plane k at column x and row y of it.  Chroma is the average over
\* the pixels of the sample (fill_pattern_planar_yuv); gbrp8 stores green first.
PlaneSample(pattern, format, k, x, y, n) ==
    LET plane == PlanesOf(format)[k]
        pixels == {<<x * plane.sx + dx, y * plane.sy + dy>> :
                      dx \in 0..(plane.sx - 1), dy \in 0..(plane.sy - 1)}
        sum == MapThenSumSet(LAMBDA p : PatternSample(pattern, p[1], p[2], n)[k], pixels)
    IN  CASE pattern = "bitdepth_canary" -> CanarySample(x, y, n, k - 1, format.bits)
          [] pattern # "bitdepth_canary" /\ format.layout = "gbrp8" ->
                PatternSample(pattern, x, y, n)[<<2, 3, 1>>[k]]
          [] OTHER -> ScaledSample(sum \div (plane.sx * plane.sy), 8, format.bits)

\* fill_pattern_frame.
PatternFrame(pattern, info, n) ==
    LET planes == PlanesOf(info.format)
        fill(k) ==
            LET width == info.w \div planes[k].sx
            IN  SampleBytes([i \in 1..(width * (info.h \div planes[k].sy)) |->
                                PlaneSample(pattern, info.format, k, (i - 1) % width, (i - 1) \div width, n)],
                            info.format)
    IN  IF info.format.layout = "rgb24"
        THEN [i \in 1..FrameLength(info.format, info.w, info.h) |->
                 LET pixel == (i - 1) \div 3
                 IN  PatternSample(pattern, pixel % info.w, pixel \div info.w, n)[((i - 1) % 3) + 1]]
        ELSE FoldLeft(LAMBDA done, k : done \o fill(k), <<>>, [k \in DOMAIN planes |-> k])

-----------------------------------------------------------------------------

FiltersInit ==
    /\ request \in Requests
    /\ transforms = <<>>
    /\ announced = request.info
    /\ given = 0
    /\ frame = [info |-> request.info, bytes |-> <<>>]
    /\ passed = 0
    /\ stage = "parse"

\* FilterPipelineBuilder::build.
ParseSpecs ==
    /\ stage = "parse"
    /\ IF AcceptsSpecs(request.specs, request.input)
       THEN /\ transforms' = SelectSeq(request.specs, LAMBDA s : s.name # "pattern")
            /\ stage' = "announce"
       ELSE stage' = "refused" /\ UNCHANGED transforms
    /\ UNCHANGED <<request, announced, given, frame, passed>>

\* The info after the first k transforms.
InfoAfter(k) == FoldLeft(LAMBDA info, s : OutputInfo(s, info), request.info, SubSeq(transforms, 1, k))

\* filter_pipeline_output_info, then build_raw_video_source.
Announce ==
    /\ stage = "announce"
    /\ IF /\ \A k \in DOMAIN transforms : Takes(transforms[k], InfoAfter(k - 1))
          /\ ~request.input => PatternFits(request.content, request.info.format)
       THEN announced' = InfoAfter(Len(transforms)) /\ stage' = "take"
       ELSE stage' = "refused" /\ UNCHANGED announced
    /\ UNCHANGED <<request, transforms, given, frame, passed>>

\* The bytes of frame n of the input, in its own format.
InputBytes(n) ==
    LET info == [request.info EXCEPT !.format = request.from]
    IN  IF request.content = "places" THEN [i \in 1..FrameLength(info.format, info.w, info.h) |-> i - 1]
        ELSE PatternFrame(request.content, info, n)

\* FrameFormatConvertingReader over the input, or PatternSource::fill_frame.
TakeFrame ==
    /\ stage = "take" /\ given < request.frames
    /\ request.input => IsConvertible(request.from, request.info.format)
    /\ frame' = [info |-> request.info,
                 bytes |-> IF request.input
                           THEN ConvertFormat(InputBytes(given), request.from, request.info.format)
                           ELSE PatternFrame(request.content, request.info, given)]
    /\ given' = given + 1
    /\ passed' = 0
    /\ stage' = "filter"
    /\ UNCHANGED <<request, transforms, announced>>

\* The formats are not closely related: the reader fails.
ReadFails ==
    /\ stage = "take" /\ given < request.frames
    /\ request.input /\ ~IsConvertible(request.from, request.info.format)
    /\ stage' = "refused"
    /\ UNCHANGED <<request, transforms, announced, given, frame, passed>>

\* Filter::process, in apply_filters_from: every filter checks its frame again.
RunFilter ==
    /\ stage = "filter" /\ passed < Len(transforms)
    /\ LET spec == transforms[passed + 1]
       IN  IF Takes(spec, frame.info)
           THEN /\ frame' = [info |-> OutputInfo(spec, frame.info),
                             bytes |-> Processed(spec, frame.bytes, frame.info)]
                /\ passed' = passed + 1
                /\ UNCHANGED stage
           ELSE stage' = "failed" /\ UNCHANGED <<frame, passed>>
    /\ UNCHANGED <<request, transforms, announced, given>>

\* The frame is handed to the encoder, which expects announced.
DeliverFrame ==
    /\ stage = "filter" /\ passed = Len(transforms)
    /\ stage' = IF frame.info = announced THEN "take" ELSE "failed"
    /\ UNCHANGED <<request, transforms, announced, given, frame, passed>>

StreamEnds ==
    /\ stage = "take" /\ given = request.frames
    /\ stage' = "end"
    /\ UNCHANGED <<request, transforms, announced, given, frame, passed>>

FiltersNext ==
    \/ ParseSpecs
    \/ Announce
    \/ TakeFrame
    \/ ReadFails
    \/ RunFilter
    \/ DeliverFrame
    \/ StreamEnds

-----------------------------------------------------------------------------

Components(format) ==
    CASE IsRgb(format)            -> {"red", "green", "blue"}
      [] format.layout = "gray"   -> {"luma"}
      [] HasChroma(format)        -> {"luma", "u", "v"}

\* Where a frame holds a component of the pixel at x, y.
PlaceOf(info, component, x, y) ==
    LET f == info.format
        pixel == y * info.w + x
        area == info.w * info.h
        chroma == (y \div SubsampleY(f)) * (info.w \div SubsampleX(f)) + x \div SubsampleX(f)
        nth == [red |-> 0, green |-> 1, blue |-> 2]
        plane == [green |-> 0, blue |-> 1, red |-> 2]
    IN  CASE f.layout = "rgb24" -> 3 * pixel + nth[component]
          [] f.layout = "gbrp8" -> plane[component] * area + pixel
          [] component = "luma" -> pixel * BytesPerSample(f)
          [] component = "u"    -> (area + chroma) * BytesPerSample(f)
          [] component = "v"    ->
                (area + area \div (SubsampleX(f) * SubsampleY(f)) + chroma) * BytesPerSample(f)

BytesAt(bytes, info, component, x, y) ==
    LET place == PlaceOf(info, component, x, y)
    IN  SubSeq(bytes, place + 1, place + BytesPerSample(info.format))

\* The pixel of the frame before that a transform shows at x, y.
ShownAt(spec, before, after, x, y) ==
    CASE spec.name = "identity" -> <<x, y>>
      [] spec.name = "crop"     -> <<Value(spec, "x") + x, Value(spec, "y") + y>>
      [] spec.name = "scale"    -> <<(x * before.w) \div after.w, (y * before.h) \div after.h>>

\* Whether the first pixel of a chroma sample is at x, y.
IsSited(info, x, y) == x % SubsampleX(info.format) = 0 /\ y % SubsampleY(info.format) = 0

\* The frame shows the pixels of another one, each with all its components: luma and
\* chroma of a pixel come from the same place.  A scaled frame has only one chroma
\* sample where the pixels may come from several, and goes by the first.
ShowsPixels(after, before, scaled, Shown(_, _)) ==
    /\ Len(after.bytes) = FrameLength(after.info.format, after.info.w, after.info.h)
    /\ \A c \in Components(after.info.format), x \in 0..(after.info.w - 1), y \in 0..(after.info.h - 1) :
          (scaled /\ c \in {"u", "v"} => IsSited(after.info, x, y)) =>
              LET q == Shown(x, y)
              IN  BytesAt(after.bytes, after.info, c, x, y) = BytesAt(before.bytes, before.info, c, q[1], q[2])

\* A frame of a pattern: an input that held the pattern in another format gives the
\* same frame the pattern source makes in this one, no sample is out of range, and
\* the canary needs the bits above eight.
IsPattern(bytes, info, n) ==
    LET f == info.format
    IN  /\ request.content # "bitdepth_canary" => bytes = PatternFrame(request.content, info, n)
        /\ \A i \in 0..(Len(bytes) \div BytesPerSample(f) - 1) :
              LET sample == ReadSample(bytes, i, f)
              IN  /\ sample <= MaxSampleOf(f.bits)
                  /\ request.content = "bitdepth_canary" => sample % 2 ^ (f.bits - 8) # 0

\* Every filter, and the conversion of the input, keeps the samples of a pixel
\* together: whatever the format, each of them is found where the frame before had
\* the same component of the pixel shown.  A pipeline that was accepted never fails
\* and delivers frames of the size it announced (FilterPipelineSpec::output_info).
FramesKeepTheirSamples ==
    [][/\ stage' # "failed"
       /\ passed' = passed + 1 =>
              ShowsPixels(frame', frame, transforms[passed'].name = "scale",
                  LAMBDA x, y : ShownAt(transforms[passed'], frame.info, frame'.info, x, y))
       /\ given' = given + 1 =>
              IF request.content = "places"
              THEN ShowsPixels(frame', [info |-> [request.info EXCEPT !.format = request.from],
                                        bytes |-> InputBytes(given)],
                               FALSE, LAMBDA x, y : <<x, y>>)
              ELSE IsPattern(frame'.bytes, frame'.info, given)]_filterVars
=============================================================================

# FrameFinery: specification and proofs

TLA+ modules for the FrameFinery engine: its two encoders (AV2 and VVC), the
encoder sessions around them, the filter pipelines in front of them, and the
decoded picture buffer of the API. TLC checks the modules on small instances;
TLAPS proves the central theorems for every value of the constants.

Paths are relative to the repository; `api` is
`crates/framefinery-api/src`, `codecs` is `crates/framefinery-codecs/src`.

## 1. The system

FrameFinery turns raw video frames into a compressed stream. A caller either
hands owned frames to a session (`encode_frame`, `flush`), or hands a frame
source to a session that pulls from it, or runs a pipeline of filters with an
encoder behind it. Everything happens in the calling thread, except the AV2
tile payloads, which are coded on scoped worker threads. Nothing is persisted:
there is no crash recovery. What is hard here is therefore not scheduling but
**state kept across calls**: an encoder predicts the next picture from what it
believes the decoder holds, and one missed update is invisible until a later
picture shows wrong. The same holds one level below, within a picture: the
entropy coders derive contexts from arrays of their own about the neighbours of
a block, which a decoder derives from what it has read.

| part | state it keeps | operations | talks to |
|---|---|---|---|
| decoded picture buffer (`api/dpb.rs`) | a list of pictures in insertion order, a capacity | `insert`, `insert_evicting_oldest`, `set_reference`, `evict_oldest_non_reference`, `evict_oldest`, `clear`, queries | an API type; the present encoders do not use it |
| filter chain (`api/pipeline.rs`, `api/filters.rs`) | what each filter holds back | `process`, `finish` | calls of the two pipelines |
| filtered source (`api/pipeline.rs`) | pending output frames, filters flushed, end seen | `read_frame`, `fill_pending` | pulls a source, runs filters |
| frame pipelines (`api/pipeline.rs`) | counters, position of the flush | `run_frame_filter_pipeline`, `run_frame_encode_pipeline` | source, filters, encoder, sink |
| session contract (`api/video.rs`) | open, flushed or failed | `encode_frame`, `flush` | what each codec promises |
| AV2 stream encoder (`codecs/av2/stream.rs`) | status, headers written, reference source, reference reconstruction, frame index, totals | `encode_frame`, `finish`, `fail` | motion search, tile coding, OBU writer; sinks for bitstream, reconstruction, statistics |
| AV2 session (`codecs/av2/session.rs`) | the stream encoder | `encode_frame`, `flush` | wraps the stream encoder with local sinks |
| AV2 source encode (`codecs/av2/encode.rs`) | frames read, the limit | one call | frame source (through a `Read` adapter), stream encoder, the caller's writers |
| buffered session (`codecs/session.rs`) | frames accepted, flushed flag | `encode_frame`, `flush` | the VVC stream encode, over the buffered frames |
| VVC stream encode (`codecs/vvc/encode.rs`) | predictive cache (source and reconstruction), cache of skip-slice payloads, frame index | one call, one loop | inter search, quantiser, slice writer (`vvc/headers`), CABAC |
| settings (`codecs/settings.rs`, `api/settings.rs`) | none | parsing, `GopMode` queries | decides where groups of pictures begin |
| encode job (`crates/framefinery-cli/src/command.rs`) | the open input, the count of its frames | open, count, read; conversion of the reconstruction | a stack of readers from the file to the codec |
| AV2 tile coding (`codecs/av2/tile`, `bitstream/entropy.rs`, `palette`, `layout.rs`, `inter/ibc.rs`) | range coder, adapted distributions, what the neighbours of a block were | search, plan, writers of a tile | every tile of a picture, on threads of their own |
| VVC slice coding (`codecs/vvc/cabac`, `residual`, `headers`, `mode_decision.rs`, `inter/ibc.rs`) | CABAC engine and models, neighbours, search state, reconstruction, headers sent | quantise a CTU, code a CTU, write units | the encode loop |
| formats and built-in filters (`api/frame.rs`, `api/filters.rs`) | the frame at hand | parse a list, transform frames | filter chain, pipelines, jobs |
| instrumentation, traces, wasm example, scripts | none that a decision rests on | | |

What makes each part correct:

* **encoders**: a decoder that reads the stream holds, before each frame, the
  very picture the encoder predicts from; shows what the encoder reported;
  shows the source, or something within one quantisation of it, after any
  number of predicted pictures; can start at every chunk flagged as a
  keyframe; sees the pictures in order though order numbers wrap.
* **sessions**: frames are delivered once and in order; rejected input changes
  nothing; failure and flush are terminal, failure is reported from then on.
* **pipelines**: the output is what the filters make of the whole stream, for
  filters that delay, drop and multiply; a read pulls no more than it needs
  and returns; a sink is finished once, last, and only on success.
* **jobs**: counting and reading a file agree; the bytes the codec gets are
  the frames, complete and in order, whatever the sizes of the reads.
* **syntax**: writer and reader walk the same tree and derive the same contexts,
  candidates and vectors, each from what it has; what the encoder reconstructs
  is what a decoder reconstructs.
* **formats and filters**: a sample stays with its pixel in every layout.
* **picture buffer**: bounded, unique ids, ordered; a reference picture is
  displaced only when there is nothing else, and then the oldest.

`PROJECT.json` lists every part with its source files and status, and the
hazards of the code, each at its line with the properties that watch it.

## 2. The modules

```
GopMode ──┬── Av2Stream ──┬── Av2Session ─────── implements EncoderSession
          │               ├── Av2SourceEncode
          │               └── Av2TileWorkers ─── implements Av2Stream
          │                     └── Av2MotionSearch
          └── VvcStream ───── VvcPicture
Av2RangeCoder
Av2Partition ─ Av2LeafSyntax ─┬─ Av2TileTree
                              └─ Av2BlockCopy
Av2Residual
VvcCabac ──────────────────── VvcSliceSyntax      VvcHeaders
VvcPartition, VvcLeafSyntax ─ VvcCtuTree          VvcIntra
VvcResidual
FilterChain ──┬── FilteredSource ─── JobSource (implements FilteredSource's source)
              └── FramePipeline
FrameFilters
BufferedSession ─ implements EncoderSession (up to a failure)
Dpb ───────────── implements PictureStore

proofs:  Av2StreamProofs ─┬─ Av2SessionProofs (Av2Session and Av2SourceEncode)
                          └─ Av2TileWorkersProofs
         VvcStreamProofs
         FilterProofs (FilteredSource and FramePipeline) ─── JobSourceProofs
         FrameApiProofs (Dpb and BufferedSession)
         Av2SyntaxProofs (the tiles of Av2BlockCopy, the symbols of Av2RangeCoder)
```

In `PROJECT.json`, operators that model one and the same external thing, or share
the lines of a definition they are part of, are listed at the main one.

### The encoders across pictures

**GopMode** is the group-of-pictures policy: `gop` 0 (single pictures), -1 (one
unbounded group) or n, and when references are reset.

**Av2Stream** is `Av2StreamEncoder`. A picture is a function from blocks to
samples and the blocks are partitioned into tiles. `encode_frame` is
`EncodeFrame` when it succeeds; its error returns are `BitstreamWriteFails`,
`LaterWriteFails` (reconstruction or statistics), `OutputDropped` (an error whose
output the session never hands out), `ModeDecisionFails` (palette) and
`RefuseFrame` (not active, wrong length). A write that fails leaves what reached
the caller's writer there; a session writes to sinks of its own, which go with
the error. `Codings(frame)` is the choice in
`encode_frame_inner`: self-contained key pictures for `gop=0` and for palette
coding; otherwise show-existing, regular inter, or key, for lossless and for
lossy coding, each with the reference state it leaves. An inter picture that was
tried falls back to a key picture when the motion map the bounded search found
leaves every tile intra (`LosslessFallsBack`, `LossyFallsBack`). `LosslessBlock` and
`LossyBlock` say how one block is predicted, from the result of the motion
search (`MotionMaps`: a block of equal content or none, the zero vector tried
first). The variables `decoder` and `seeker` are external observers: a decoder
that reads from the start, and one that forgets everything at each chunk
flagged as a keyframe. They are modelled from the syntax the encoder writes: a
key picture replaces the references, an inter picture refreshes slot 0 and
predicts from it, a show-existing unit shows slot 0.

**Av2TileWorkers** takes one lossless predictive call apart: the motion search
of **Av2MotionSearch** (candidates, local steps, an index by hash that is built
when first needed and has a bucket limit), the mode of each tile, one worker
thread per tile that finishes when it likes, joins in the order of the tiles,
assembly and writes. It implements Av2Stream: a whole call is one step there.

**EncoderSession** is the abstract contract of `VideoEncoderSession`, each
action with the sentence of `api/video.rs` it stands for. **Av2Session** adds
the checks of `av2/session.rs` to the stream encoder and refines the contract
(`phase <- Phase, accepted <- frameIndex`). **Av2SourceEncode** composes the
stream encoder with the reading loop: the adapter at its end, the frame limit
(`frame_limit.unwrap_or(0)`, where zero means "until the end of the input"),
read errors, write errors, `finish`. With a limit above zero the code asks for
exactly that many frames and fails when the source has fewer (finding 6);
`SuccessIsComplete` speaks of calls that succeed, and says nothing of that. **BufferedSession** is
`BufferedStreamEncoderSession`: frames are kept until `flush`, which is taken
step by step (parameter sets, frames, splitting of the reconstruction, delivery)
with the failure of each step.

**VvcPicture** is what the VVC encoder writes: pictures of one slice or of one
slice per coding tree unit (CTU), picture headers, parameter set ids, slice
types, order counts modulo 2^16; and, external, how a decoder reads it: the
merge vector of a skipped CTU is that of its left neighbour, intra prediction
does not cross a slice, the reference is the picture with the previous order
count. **VvcStream** is the encode loop: `EncodeRepeat` for a frame equal to the
last one, `EncodeFrame` for every other. The decisions keep the names of the
code (`IsSkipCandidateFrame`, `IsMixedFrame`, `IsSlicedFrame`, `IsPreselected`,
`IsSkipped`), and `Payloads` gives each CTU what it is coded as. What a stream
is set up for (lossless or not, how coarsely it quantises, whether its format
allows mixed P slices) is the variable `options`, chosen at the start.

### The syntax of AV2 tiles

Each of these modules has two sides: the writer, translated from the code, and
a reader, marked external in `PROJECT.json`, which has only what it was told.

**Av2RangeCoder** is the entropy coder: literals, uniform values and adaptive
symbols become words, words carry into words that wait, and the distributions
are found through the caches by last use, slot, address and name.
**Av2Partition** is the binary partition tree with its policies and forced
splits, **Av2LeafSyntax** the symbols of a leaf (modes, copies, vectors,
palettes), **Av2TileTree** a tile: its plan of leaves followed by each of the six
writers, with the arrays they keep about neighbours. **Av2Residual** has the
coefficients of transform blocks: their symbols and
contexts, which blocks a leaf has in each plane, the arrays beside them, and the
lossless transform.

**Av2BlockCopy** has the limits of the level, the five layouts of tiles and the
two logarithms the frame header tells, and the copies within a lossless picture: `SearchOrder` goes over the picture by superblocks,
`VisitBlock` predicts the list of vectors a decoder will have and finds equal
blocks by hash, `KeepCopies` drops copies that are not worth it, and `CodeBlock`
follows a decoder in `CodingOrder`, tile by tile.

### The syntax of VVC slices

**VvcCabac** has the bit writer, Exp-Golomb codes, emulation prevention and the
byte stream, and the arithmetic coder with its outstanding bytes and
probability models; **VvcSliceSyntax** puts units together from arbitrary fields
and bins. **VvcHeaders** has the fields: parameter sets, picture headers and
slice headers as the code writes them, and the syntax of H.266 that says which
fields a decoder expects given those before. **VvcPartition** and
**VvcLeafSyntax** are the coding tree and its leaves, again once as coded and
once by the format's rules; **VvcCtuTree** traverses the CTUs of a picture with
the plan of the quantiser, the state of the mode search, the search for block
vectors and a decoder. **VvcResidual** quantises a block,
codes it a subblock at a time and reconstructs it on both sides. **VvcIntra** is
the prediction of blocks while a CTU is quantised: the map of reconstructed
samples the encoder keeps, beside what a decoder has.

### Frames and pipelines

**FilterChain** holds the filters: `process` and `finish` for the kinds the
repository has (one for one, duplicating, flushing a tail) and the kinds the
trait allows beside them (dropping, delaying), `process_frames_from` over a
batch, and `Filtered`, the reference: each filter as a function of a whole
stream. Batches and chains are recursive functions, so that they can be proved
about, with the steps (`BatchStep`, `ChainStep`) as functions of their own. **FilteredSource** is the pull side, one iteration of `fill_pending`
at a time. **FramePipeline** is the push side, with an encoder that holds one
packet back between filters and sink. **JobSource** is the input of a job byte by
byte: the file is counted, opened again and read through the stack of readers,
and the reconstruction is converted on its way out; what lies below the filters
implements the source FilteredSource has. **FrameFilters** has the pixel layouts
and their conversions, the list of filter specs, the checks that accept it, the announced output and what each filter does to each byte.

**Dpb** is `DecodedPictureBuffer` as a sequence, with positions found as the
code finds them. **PictureStore** is what `docs/api-v0.md` promises of it, over
a set; the refinement maps the sequence to the set of its entries.

### What is abstracted

* In the stream modules a block or CTU holds one small number, and a unit or
  slice is a record of what a decoder learns from it. That the bits say this is
  the subject of the syntax modules. Quantisation is a choice among all
  reconstructions within a tolerance (`Near`).
* In the syntax modules decisions are free: whatever the code compares by cost,
  either may win. What a search *may* choose is modelled (`Legal`), what it
  prefers is not. Samples, where they matter (copies, hashes, prediction,
  residuals), are small values or functions of the place.
* A VVC picture of VvcStream is one row of CTUs, with vectors between whole CTUs.
* `FillFails` in FilteredSource leaves the reader failed: what a read after an
  error would find is not modelled, because every caller stops at the error.

### Things established while reading, on which the models rest

* *AV2 tiles.* The policies of partition belong to the writers: frame payloads,
  lossy and residual tiles have fixed 8x8 leaves; lossless tiles of at least
  128x128 samples a fast search with adaptive leaves (fixed if there are copies),
  smaller ones an exhaustive search with fixed leaves; intra tiles of inter
  pictures are adaptive, mixed tiles follow the inter plan and have no copies.
  There is one reference, and at most four vectors in a list.
* `lossy_fsc_search_allowed` is false for every input; chroma prediction by
  differences exists at 4x4 only; several tables share the lookup key 0 and are
  told apart by their initial values, which the model keeps.
* *AV2 copies.* A block with vectors around it is not copied, so a list with
  vectors of neighbours never names one; the search is dropped when it finds no
  copy of the block above or to the left; the variant for palettes is disabled
  by a constant (`AV2_ENABLE_LUMA_PALETTE_INTRABC_444`).
* *VVC loop.* Explicit vectors and skipped CTUs never meet in one picture
  (`predictive_ctu_inter_skip_enabled` excludes `explicit_inter_frame`). A frame
  that opens a group is a trailing picture with an I slice, not a random access
  picture; only the first picture of a stream is. A picture of a single CTU is
  never cut into CTU slices.
* *VVC blocks.* Blocks are square: luma 4x4 or 8x8, chroma 4x4, or 8x8 in the
  single tree of screen content. Mixed P pictures have sides that are multiples of
  64 and 4:2:0 sampling; leaves of 4x4 in them are finding 7, and the passing runs
  take 8x8 there. Wide angles and rectangular
  cases do not arise. The samples of a slice cut into CTUs are cleared before
  each coded CTU, those of skipped CTUs are marked when they are copied.
* *VVC residuals.* Selection of multiple transforms is disabled; a lossless block
  has the qp (0, or -12 at ten bits) at which transform skip is exact; the
  inverse transform does not clip to 16 bits, and on all blocks checked agrees
  with a decoder that does; the encoder reconstructs with the coded size, a
  multiple of eight.

## 3. The runs

TLC, run in this directory as `tlc -config X.cfg M`. "States" are distinct
states. Modules that do not touch one another share a run: the variable `subject`
says which of them a behaviour is about, and the others keep their first state.
Each run is small in one subject and does not multiply it with another.

| run | module, cfg | bounds | states | what it shows |
|---|---|---|---|---|
| `av2_tiles` | MCAv2TileWorkers, Av2Tiles | row of 4 blocks in 2 tiles, 11 pictures, groups of 3, order hints modulo 4, 5 frames | 17 339 | whatever order searches and workers take, a call does what one step of Av2Stream does (`ImplementsStream`), groups are closed, every call returns |
| `av2_codec` | MCAv2Codec, Av2Codec | sessions of 2 blocks in 2 tiles, samples 0..2, tolerance 1, one unbounded group, hints modulo 4, frame limit 5; syntax: see below | 130 765 | lossy coding does not drift, keyframes are entry points, the output is in order, the session keeps the contract; range coder, tile trees, coefficients, tile layouts and copies are what a decoder reads |
| `source_reading` | MCSourceReading, SourceReading | files of 0, 1 and 3 frames with every kind of end, frames of 2 bytes, reads of 1 to 3 bytes; a chain of 4 filters; counts of 1, 2, 5 or all; a loop of up to 4 frames with limit none, 0 or 2 | 78 844 | the files of a job, the filters behind them and the loop that codes a source: everything is delivered once, complete, in order and on demand, and every call returns |
| `frame_api` | MCFrameApi, FrameApi | 4 ids, capacity 3, 5 insertions; pipelines of up to 3 frames; filter lists over 4x4 pictures in 6 layouts; sessions of up to 4 frames, limit 3; VVC streams of 2 CTUs, samples 0..2, three set-ups, groups of 3, order counts modulo 3, 5 frames | 39 348 | picture buffer and its abstract store, push pipeline, formats and filters, buffered session and the VVC stream behind it: decoders stay in step, errors do not add up, cached skip slices stay current |
| `vvc_syntax` | MCVvcSyntax, VvcSyntax | see below | 158 239 | units, headers, coding trees, residuals and intra prediction are what a decoder of the format reads |
| `buffered_failure` | MCFrameApi, BufferedFailure | as `frame_api`, no frame limit | violated | finding 1 |
| `vvc_inter_tree` | MCVvcStream, VvcInterTree | mixed set-up, samples 0..4, unbounded group, 2 frames | violated | finding 2 |
| `vvc_mixed_slice` | MCVvcSyntax, VvcMixedSlice | mixed pictures, 3 in a row | violated | finding 3 |
| `vvc_reference_lines` | MCVvcSyntax, VvcReferenceLines | blocks beside line 2, every mode | violated | finding 4 |
| `av2_tile_limits` | MCAv2Codec, Av2TileLimits | as `av2_codec` | violated | finding 5 |
| `source_limit` | MCSourceReading, LimitIsUpperBound | as `source_reading` | violated | finding 6 |
| `vvc_small_leaves` | MCVvcSyntax, VvcSmallLeaves | a mixed P picture of 2 CTUs, skipped and coded, with leaves of 4x4 | violated | finding 7 |

`vvc_syntax` is the longest with two and a half minutes on two workers.

Why the bounds are enough to see the interesting cases:

* *AV2 blocks and tiles.* A tile of two blocks is partly matched (copied and
  intra or residual blocks side by side), and a second tile stays unchanged or
  moves content across tiles. Two of three contents share a hash and a bucket
  holds two, so the index is full, and wrong. Lossy coding needs no more than
  two tiles of a block each: the residual of a block does not depend on its
  neighbours.
* *Frames.* Every loop runs past the wrap of its order numbers and past a group
  boundary: five frames with groups of three are a key picture, two predicted
  ones, a boundary and one predicted from the new group. The unbounded
  group is long enough for a drift of one quantisation step to leave the
  tolerance.
* *Range coder.* Four calls with the buffer flushed at two words: carries run
  through words on both sides of a flush; two addresses hold one name and every
  cache has one slot, so that every lookup misses somewhere.
* *Tiles.* Regions of one superblock and a border of the next in each direction;
  all writers and policies; neighbours that share none, some or all of their
  colours or vectors; vectors whose differences reach every class. One small tile
  has every choice at every leaf.
* *Copies.* The level `Low` (tiles of at most two superblocks by two) divides
  pictures of a few blocks into several tiles; of the values 0 to 6 three pairs
  or triples share a hash. Copies of the block above, of the left one across a
  superblock, explicit ones, dropped ones and pictures without any occur. All
  sizes at the edges of the limits of the real level are laid out, up to 65536.
* *Picture buffer.* Four ids over capacity three with five insertions fill the
  buffer, evict with and without references in it, reuse an evicted id and
  evict again.
* *Filters.* The chains flush a delaying filter through later filters that
  drop, add or multiply. Filter lists combine every crop and scale of a picture
  of 4x4 in six layouts; sizes are odd where a format allows it and not where it
  does not.
* *Jobs.* Files of no, one and three frames, with part of a frame, a lone marker,
  another line or longer frames at the end, cut between counting and reading;
  reads of one to three bytes with frames of two.
* *VVC loop.* Two CTUs are the smallest picture with a left neighbour (merge
  vectors, intra prediction across a slice border) and with the rule that half
  of the CTUs must be candidates. The mixed set-up has a tolerance of two so
  that a candidate can be far enough from the reconstruction to be compared
  with intra; its error bound is then the whole sample range, so
  `ErrorDoesNotAccumulate` says something for the other two set-ups only.
* *VVC units.* Fields and bins are those that make zero bytes in a row, bytes of
  three and less behind them, chains of 0xff with a carry, whole words of bypass
  bins and remainders at and behind the end of the prefix.
* *VVC headers.* Six shapes in all samplings, coded in every way: one CTU and
  many, one row and one column, sizes that are not whole blocks, the widest
  picture that is cut into slices and a wider one; three pictures each.
* *VVC trees and scenes.* More than one CTU in each direction with a border
  inside of one; slices of their own with skipped, copied and coded neighbours;
  screen content of seven CTUs with repeated and with colliding blocks.
* *VVC blocks.* Both sizes, all components, eight kinds of differences up to
  levels that use the budget of regular bins up, both depths, every residue of
  the qp.

`CHECK_DEADLOCK FALSE` is set where a behaviour really stops: a call that has
returned, a picture that is coded, a stream at its end.

Each property of a passing run is also broken on purpose: `PROJECT.json` names
for each a changed definition (`Mut...`, next to the original) that a plausible
slip in the code would amount to, and under which TLC reports the property.

### Fairness

The code has no scheduler of its own: a session call, a read or a pipeline is a
synchronous call that runs to its return, and the worker threads of a call are
joined by it. Weak fairness is therefore assumed of the *successful* steps of a
running call and of nothing else: `LoopProgress` in Av2SourceEncode, `Progress`
in FramePipeline, `FlushStep` in BufferedSession, `FillStep` in FilteredSource,
`Running` in JobSource, and `CallStep` in Av2TileWorkers, where it stands for the
operating system running every thread that can run. Failures and the caller's
decision to call again are never assumed to happen, and the other modules of the
encoders have no fairness at all: a caller may stop at any time.

## 4. Findings

1. **A failed flush is forgotten** (`buffered_failure`). `flush` of the buffered
   session sets `flushed` (`codecs/session.rs:103`) before the encode that may
   fail; the next `flush` takes the early return and answers success with
   empty output. `api/video.rs:177`: "A failed session must continue reporting
   failure"; `docs/api-v0.md:352`: "subsequent encode/flush calls must report
   failure, not apparent success".
2. **Inter partition in an I slice** (`vvc_inter_tree`). All CTUs of a mixed
   frame are quantised with the single tree of inter slices
   (`codecs/vvc/encode.rs:739`), but the slice type follows from what the CTUs
   became. When no skip and no vector survives the comparison with intra, an
   I slice is written and entropy coding walks the intra partition. The comment
   at `encode.rs:737` ("only a mixed single-slice P picture needs the inter
   partition contract") and `docs/codec-parity-target.md:846` describe this
   mismatch as excluded. The decoder of VvcPicture does not model the partition,
   so the other VVC properties do not rest on it.
3. **The mode search remembers a CTU that was replaced** (`vvc_mixed_slice`).
   A CTU of a mixed picture is quantised, its modes are recorded, and then a skip
   may replace it (`codecs/vvc/encode.rs:833`); the record stays. A later block
   may take a further reference line only with a most probable mode, and the
   search asks its record where the writer asks the coded neighbour. The
   assertion "VVC nonzero MRL luma modes must be coded through MPM syntax"
   (`codecs/vvc/cabac/ctu_luma_mode_syntax.rs:24`) then fails.
4. **The third reference line is projected wrongly for seven modes**
   (`vvc_reference_lines`). With line 2 and a mode close to the diagonal (31-33,
   34-37) the first projected position is nearer than the line, the subtraction
   in `codecs/vvc/residual/prediction_angular_sampling.rs:130` has no result, and
   the encoder takes the sample beside the block where a decoder takes one nearer
   to the corner. `PredictionFollowsTheFormat` leaves these blocks out
   (`StepsPastLine`) and holds for all others.
5. **Accepted sizes without a layout** (`av2_tile_limits`). `validate_shape`
   accepts pictures of up to 65536x65536; a lossless picture wider than 4096
   samples (64 superblocks) reaches the assertion "AV2 MVP tile columns exceed
   the Level 2.0 tile limit" (`codecs/av2/layout.rs:97`), because the layout for
   the search of copies has one tile for each superblock when one tile for all
   is not allowed. So do pictures of black; palette pictures reach the `expect`
   of `single_for_geometry`. Lossy pictures of the size are coded.
6. **A source shorter than the limit is an error** (`source_limit`). The limit of
   a source-driven encode becomes `FrameLimit::Exact`, and every frame below it is
   read with `read_exact` (`codecs/picture.rs:610`): a source that ends cleanly
   before it makes the call fail after all its frames have been coded, and
   `finish` is not called. `docs/api-v0.md:281` calls the limit an "upper bound for
   callers that want bounded file/test encodes or known progress", line 195 an
   "optional caller/source frame limit or progress hint". No limit and a limit of
   zero read to the end and succeed.
7. **Intra leaves of 4x4 in a P slice** (`vvc_small_leaves`). The leaf size of a
   coded CTU of a mixed picture is chosen by its samples alone
   (`codecs/vvc/encode.rs:750`, `select_vvc_luma_max_leaf_size_for_ctu`) and is 4
   for a lossy CTU with detail below 8x8. The assertion "4x4 intra leaves in P
   slices need explicit modeType handling"
   (`codecs/vvc/cabac/ctu_inter_syntax.rs:122`) then fails; a release build writes
   a skip flag and a mode flag for the leaf, which have no place in the syntax of a
   4x4 block. `predictive_policy.rs:57` keeps only lossless CTUs from this path.

## 5. The proofs

`tlapm X.tla` checks every obligation of each of the eight proof modules. They
use the named assumptions on the constants and nothing else: any picture size,
tile layout, sample range, tolerance, group length, hint or count modulus, search
range, frame limit, capacity, chain of filters. Two of these assumptions are
about the values themselves: "no block" and "no frame" are not blocks or frames
(`NoMatch \notin Block`, `NoFrame \notin Frame`), as `None` is no value in the
code. The theorems about Av2TileWorkers are about lossless predictive streams
(`TilesAssumption`), the only ones coded by that call.

| module | theorem | states for every instance |
|---|---|---|
| Av2StreamProofs | `TypeCorrect` | `TypeOK` |
| | `LoopIsClosed` | `ClosedLoop` |
| | `DeliveredIsSource` | `ShownIsSource` |
| | `EntryPointsWork` | `KeyframesAreEntryPoints` |
| | `TotalsAgree` | `UnitsMatchFrames` |
| | `HintsGiveTheOrder` | `DisplayOrder` |
| | `GroupsAreClosed`, `FailureStays` | `GroupBoundary`, `FailureIsTerminal` (action properties) |
| Av2SessionProofs | `SessionLoopIsClosed` | all of the above for the session |
| | `SessionKeepsContract` | `KeepsContract` (refinement of EncoderSession) |
| | `SuccessMeansComplete` | `SuccessIsComplete` |
| Av2TileWorkersProofs | `WorkersImplementStream` | `ImplementsStream` (a call is a step) |
| | `WorkersKeepTheLoop` | `StreamSpec`, and with it closed loop, source shown, entry points |
| VvcStreamProofs | `LoopIsClosed` | `ClosedLoop` |
| | `ErrorsAreBounded` | `ErrorDoesNotAccumulate` |
| | `CachedSlicesFit` | `CachedSlicesAreCurrent` |
| FilterProofs | `SourceDeliversTheStream` | `DeliversFiltered` |
| | `SourceReadsOnDemand` | `PullsOnDemand` |
| | `OkMeansFiltered` | `OkIsComplete` |
| JobSourceProofs | `JobIsAFilteredSource` | the steps of FilteredSource (`ImplementsFilteredSource` without its fairness) |
| | `JobDeliversFiltered`, `JobPullsOnDemand` | `DeliversFiltered`, `PullsOnDemand` for a job's file |
| | `CountingAgreesWithReading` | `CountAgreesWithReading` |
| | `ReadsAreTheFrames` | `BytesAreTheFrames` |
| | `ReconstructionIsConverted` | `ReconIsConverted` |
| FrameApiProofs | `BufferIsBounded`, `OrderIsInsertion` | `DpbOK`, `InsertionOrder` |
| | `BufferImplementsStore` | `ImplementsStore` (refinement of PictureStore) |
| | `FlushDeliversOnce` | `DeliveredOnce` |
| | `ContractIsKept` | `KeepsContractUntilFailure` (refinement up to a failure) |
| Av2SyntaxProofs | `TilesAreRead` | `TilesAreFound`, the tile half of `ReaderFindsTilesAndCopies`, for every size and level |
| | `SymbolsKeepTheirPlace` | `SymbolsDivideTheRange`, a part of `PayloadIsReadBack`, for every table and every sequence of calls |

**Av2StreamProofs.** `ClosedLoop` is not inductive: that the decoder can decode
the next unit depends on the headers sent, and lossy coding is close to its
source only because the retained reconstruction was close to the retained
source. The invariant `IInv` adds

* `Sync`, while the stream is active: the decoder is sound, its slot is the
  picture the encoder predicts from, a retained picture implies headers
  written and a predictive sequence in force, the retained reconstruction is
  `Near` the retained source, and what was shown is what was reported;
* a delivered frame leaves the stream active, and a stream that is not active
  holds no picture;
* `Follows(decoder, seeker)`: as long as the decoder can decode, the one that
  forgot its pictures is in the same state.

The argument goes through the units. `CodingOK(frame, c)` says what every
branch of `encode_frame_inner` owes its unit: it decodes, from the reference
state the branch entered with, to the reconstruction it hands out; that is the
source or near it; the reference state left behind is what the decoder's slot
becomes; a chunk flagged keyframe decodes from nothing. One lemma per branch
proves it (`IntraOnlyCodingOK`, `PredictiveKeyOK`, `LosslessCodingOK`,
`LossyCodingOK`, on top of `LosslessBodies` and `LossyBodies` about blocks),
`CodingsOK` joins them, and the step lemma has one case per action.
`DisplayOrder` is inductive beside `IInv`: a decoder unwraps the hint of a frame
to the index of that frame, whatever the modulus (`HintUnwraps`).

**Av2SessionProofs.** The session and the reading loop
drive the same encoder, so `IInv` and `DisplayOrder` go with it: all steps but one
are steps of the encoder or leave it alone; an error whose output is dropped is
the encoder's `OutputDropped`. The exception is a reconstruction
that cannot be made into an owned frame, which fails the session after the
encoder has succeeded (`ReconstructionFrameFailsIInv`). The loop adds `LoopInv`:
adapter and encoder count the same frames, one apart while a frame is being
encoded, and the adapter never reads past its limit. For the contract each
action of the session is matched with the action of EncoderSession it stands for.

**Av2TileWorkersProofs.** `JobInv` says of a running call why it makes the unit it
makes, that every vector found leads to equal content and a block that has not
changed has the zero vector (`MapIsSound`), that the modes are those the frame
asks for, and that what the workers left and what was joined stands in the order
of the tiles (`PayloadsFit`). The search is sound whatever the hash function is,
because every candidate is compared (`FirstExactFits`, `FromIndexFits`,
`SearchFits`); the stream encoder's choice of a map then has the found one as a
witness (`WitnessIsAMap`), and the assembled unit is one of its codings
(`AssembledIsCoding`). So what is proved of Av2Stream holds with threads too.

**VvcStreamProofs.** The invariant: the predictive cache, when there is one, is
the picture the decoder has, within `Bound` of the source it came from; the
decoder has followed the stream; and a cached slice is one of a predictive
picture with a header of its own, which is the same for every such picture
(`PayloadsAreReusable`). The bound is the larger of the tolerance and the skip
threshold, and does not grow, because a skipped CTU is compared with its own
source each time (`Delivered`). Vectors and samples of a slice follow from the
left neighbour; that the encoder's picture and the decoder's agree is an
induction along a row (`EqualByNeighbour`, `SliceDecodes`).

**FilterProofs.** A filter is a function of the frames it has been given:
`Given` is what it has handed out of them, `Held` what it keeps. That is so for
one frame (`OneFrame`), for a batch (`OneBatch`) and for a batch through several
filters (`ThroughTheChain`), and finishing a filter completes its stream
(`FinishCompletes`). `Position` is the heart of both invariants: there is a
stream at the entrance of each filter such that the first is what was read, each
flushed filter has handed out all, each other one what `Given` says, and the last
stream is what came out. `SourceInv` puts it on what was delivered and waits,
`PipelineInv` on sink, encoder and batch together.

**JobSourceProofs.** Three invariants, each on top of the one before. `JobInv`
places the readers: a Y4M reader stands `frames read * (frame + marker)` bytes
into the file, a raw one at a multiple of the frame, and what has been read of
the file so far is a prefix of what `FramesOf` finds in it (`Placed`). So a read
below the filters hands out the next frame of that list or fails where the list
ends, which is a step of FilteredSource (`JobIsAFilteredSource`), and all that
FilterProofs shows of the filtered source holds for a file. The counting loop and
the division that count frames before the job starts find the same list, because
they stand at the same places (`CountAgreesWithReading`). `AdapterInv` says where
the bytes of the frames delivered are: handed out, in the buffer of the running
read, or left in the adapter; each of copy, load and return moves some from one
to the next. `ReconInv` relates the converting writer to the bytes it was given:
the full frames are in the file, converted, and the rest in its frame, however
they were cut (`WriterHas`). Files may hold anything and frames be of any length
(`JobAssumption`).

**FrameApiProofs.** `Ordered(entries, clock)` (unique ids, one
format, strictly increasing insertion times, all before the clock) is what makes
the entry found first the oldest one (`EvictedIsOldest`), so that each operation
on the list is one on the store's set. In the buffered session the local buffers
of a flush follow its cursor (`BuffersFollow`) and a session is flushed once
(`FlushedOnce`).

**Av2SyntaxProofs.** `LayoutInv` says of a picture with a layout that it is one
the header can tell (`WellLaid`): columns and rows are uniform, and the logarithm
written lies between the least and the most the size allows. That holds of one
tile, of a tile for each superblock and of the tiles of the threads, if what the
encoder asserts of them does (`FirstLayouts`, `FastLayouts`). The logarithms rest on powers
of two (`CeilLog2Of`, `TileLog2Of`); that the starts of the tiles have the number
the reader expects is division with a remainder (`UniformStartsAre`, `Division`),
and a tile is as wide as the level allows because there are enough of them
(`UniformTilesAreNarrow`). The reader counts the flags that were written, because
the writer stops with a zero or at the most there can be (`LogarithmsAreRead`).
The pictures are of any size up to the greatest the frame header can give
(`PicturesAssumption`). The searches of the step before never enter the proof: a
layout is changed only when the copies are given up.

The other half is the range coder. `CoderInv` says that the range has sixteen bits
between two symbols (`HasRange`, `Ranges`), that every entry holds a distribution
over its symbols (`IsEntry`), and that each static key leads to an entry with as
many symbols as the calls that use the key (`StaticPlace`). Literals and
uniform values leave the range as it is (`LiteralKeepsTheRange`), a symbol leaves
one that `normalize` makes sixteen bits long again (`NormalizedIsARange`); the way
to an entry, through the caches or around them, ends at one for the call
(`NamedPlaces`, `StaticPlaces`); and an adapted distribution is still one
(`AdaptedIsCdf`), although each value moves by a shift of its own. That such a
distribution gives every symbol an interval, for each range there is, is
`EndsFall`: the weights of `prob_scale` do not rise from a symbol to the next, and
where they stay the same the increments of `PROB_INC` still fall. The premise (`CallsAssumption`) is what the code
asserts of its arguments and what the tables of `av2/tile/cdfs.rs` are.

Induction over data is done without a rule that takes a predicate: the set of
indices at which a statement fails has a least element (`LeastElement`,
`IndexInduction`), and `Iterates` shows that a recursive function with a typed
step exists, has its recursion and is typed.

**What the proofs found.** `WorkersImplementStream` could not be proved at first:
Av2Stream let an inter picture fall back to a key picture only if no motion map
at all would have given an inter tile, while the code falls back whenever the map
its *bounded* search found leaves every tile intra
(`av2/predictive.rs:332`). The model was wrong and has been corrected;
two of the input pictures of `av2_tiles` now make the old form violate
`ImplementsStream`. And `TilesAreRead` needed what Av2BlockCopy left out: the
layout for the threads is asserted again when a search for copies comes back with
none, and the model wrote its header without asking; `KeepCopies` now stops there
as the code does. `SymbolsKeepTheirPlace` made the premise on the tables exact: a
distribution with a value of 32768 in it would leave its first symbol no interval,
and the premise was wide enough to allow one.

**Model-checked only.** Of the safety properties, `FramesKeepTheirSamples` and
those of the syntax modules (all of `vvc_syntax` and the syntax properties of
`av2_codec`, but for the tiles of `ReaderFindsTilesAndCopies` and the intervals of `PayloadIsReadBack`): what their recursive functions
(trees, scans, carries) compute for every input is an induction over the data of
the format, a proof of the size of the format itself, and the trees of
VvcPartition are operators declared RECURSIVE, which the provers used cannot
reason about. Liveness
(`Terminates`, `FlushReturns`, `ReadReturns`, `PipelineReturns`, `CallReturns`)
is out of their reach altogether.

## 6. Not modelled

* Which mode, palette, transform or partition a search prefers: costs decide, and
  either outcome is possible in the models. The lossy AV2 transforms and the
  quantisation of AV2 are free levels in Av2Residual; the lossless transform is
  modelled.
* The fields of the AV2 sequence and frame headers beside the tiles, OBU headers
  and LEB128: straight-line formatting with constants.
* In VVC: profile and level fields (constants), statistics, and palettes beyond
  the flag that none is used. Samples of VVC blocks in the copy search are one
  value per block, with hashes that may collide.
* What makes the code choose leaves of 4x4 or 8x8 for a VVC CTU: statistics of the
  samples. The runs take either where it may be chosen, and 4x4 in P slices only in
  `vvc_small_leaves`, because nothing behind the assertion of finding 7 is defined.
* The fixed buffer of the range coder for words that wait for a carry
  (`AV2_PRE_CARRY_PENDING_LIMIT`, `codecs/av2/bitstream/entropy.rs:739`). The code
  asserts that it never overflows, and says of an overflow "treat it as an encoder
  bug" (lines 6 to 11). Whether real pictures reach it depends on their content and on
  probabilities the models leave free: that it is not reached is taken for granted
  (`PendingLimit` only bounds the flush threshold).
* The picture buffer size of one that the VVC parameter set announces
  (`codecs/vvc/headers/mod.rs:611`) is read back as a field; what a decoder does
  with it is not modelled.
* The header parser of Y4M, parsing of arguments and settings, reports,
  statistics, traces, the wasm example and the scripts: sequential code without
  state that a decision rests on, or tooling.

## 7. Plan

The modules of the system's own logic are written, and of the modules across
pictures, sessions, files and pipelines every safety property is proved. What is
left to prove next is that the bytes settled early are those of one carry
propagation over all words (`BytesAreFinal` of Av2RangeCoder), which with
`SymbolsKeepTheirPlace` is most of what a reader needs, and the copies of
`ReaderFindsTilesAndCopies`.

Of the models, the remaining gaps worth closing are the fields of the AV2 headers
and the lossy transforms of AV2 with their reconstruction.

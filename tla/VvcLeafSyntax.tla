--------------------------- MODULE VvcLeafSyntax ---------------------------
(***************************************************************************)
(* The syntax of a leaf of the coding tree of a VVC CTU: the prediction    *)
(* mode, the motion or the block vector, the coded block flags and what    *)
(* follows the residual (cabac/ctu_dispatch.rs and the files beside it).   *)
(* The second half is the same syntax by the format's rules (H.266 7.3.11, *)
(* 8.4.2, 8.5.2.8, 8.6.2 and 9.3.4.2).                                     *)
(*                                                                         *)
(* A leaf of the picture is a record: its place and size, how it is        *)
(* predicted ("intra", "ibc", "inter" or "skip"), its intra mode, its      *)
(* vector and the slice it is in.  The environment e of a leaf says which  *)
(* tools the stream has, the kind of the slice, the sampling and the tree. *)
(* The levels of a residual are one element of the syntax here.            *)
(***************************************************************************)
EXTENDS VvcPartition
LOCAL INSTANCE SequencesExt
LOCAL INSTANCE FiniteSetsExt

Planar == 0
Dc == 1
Horizontal == 18
Vertical == 50
Derived == -1       \* the chroma mode that follows luma
Linear == 81        \* the three cross-component modes
Still == <<0, 0>>

None == <<>>
At(leaves, x, y) == IF x < 0 \/ y < 0 THEN None ELSE LeafOver(leaves, x, y)
Residual(component) == <<[name |-> "residual", ctx |-> -1, value |-> component]>>
Vector(v) == Bypass("mvd_x", v[1]) \o Bypass("mvd_y", v[2])

-----------------------------------------------------------------------------
(* Luma mode *)

IntraMode(found) == IF Some(found, LAMBDA l : l.pred = "intra") THEN found[1].mode ELSE Planar

\* VvcLumaModeNeighbourState::left_of, above_of: nothing is seen above the CTU.
ModeLeft(leaves, n) == IntraMode(At(leaves, n.x - 1, n.y + n.h - 1))
ModeAbove(leaves, n) ==
    IF n.y % CtuSize = 0 THEN Planar ELSE IntraMode(At(leaves, n.x + n.w - 1, n.y - 1))

WrapAngle(mode) == ((mode - 2) % 64) + 2

\* Mutant: the modes that are two apart are treated like all the others.
MutMpmList(left, above) ==
    LET min == IF left < above THEN left ELSE above
        max == IF left < above THEN above ELSE left
        around == IF max - min = 1 THEN <<min - 1, max + 1, min - 2>>
                  ELSE IF max - min >= 62 THEN <<min + 1, max - 1, min + 2>>
                  ELSE <<min - 1, min + 1, max - 1>>
    IN  IF max < 2 THEN <<Planar, Dc, Vertical, Horizontal, 46, 54>>
        ELSE IF left = above \/ min < 2
             THEN <<Planar, max, WrapAngle(max - 1), WrapAngle(max + 1), WrapAngle(max - 2), WrapAngle(max + 2)>>
        ELSE <<Planar, left, above>> \o [i \in 1..3 |-> WrapAngle(around[i])]

\* vvc_luma_mpm_list
MpmList(left, above) ==
    LET min == IF left < above THEN left ELSE above
        max == IF left < above THEN above ELSE left
        around == IF max - min = 1 THEN <<min - 1, max + 1, min - 2>>
                  ELSE IF max - min >= 62 THEN <<min + 1, max - 1, min + 2>>
                  ELSE IF max - min = 2 THEN <<min + 1, min - 1, max + 1>>
                  ELSE <<min - 1, min + 1, max - 1>>
    IN  IF max < 2 THEN <<Planar, Dc, Vertical, Horizontal, 46, 54>>
        ELSE IF left = above \/ min < 2
             THEN <<Planar, max, WrapAngle(max - 1), WrapAngle(max + 1), WrapAngle(max - 2), WrapAngle(max + 2)>>
        ELSE <<Planar, left, above>> \o [i \in 1..3 |-> WrapAngle(around[i])]

IsMpm(mode, mpm) == \E i \in DOMAIN mpm : mpm[i] = mode

\* vvc_luma_remaining_mode_index: the candidates below the mode are left out.
Remaining(mode, mpm) ==
    FoldLeft(LAMBDA rest, candidate : IF rest > candidate THEN rest - 1 ELSE rest,
             mode, Reverse(SortSeq(mpm, <)))

\* encode_vvc_trunc_bin_code_ep of one of 61: a leading one marks the length.
TruncatedBinary(symbol) == IF symbol < 3 THEN 32 + symbol ELSE 64 + symbol + 3

\* emit_luma_intra_prediction_mode
LumaModeBins(mode, mrl, mpm) ==
    LET index == CHOOSE i \in 1..6 : mpm[i] = mode
        known == IsMpm(mode, mpm)
        unary == FlattenSeq([i \in 1..4 |->
                    IF index > i THEN Bypass("intra_luma_mpm_idx", Flag(index > i + 1)) ELSE <<>>])
    IN  (IF mrl = 0 THEN Bin("intra_luma_mpm_flag", 0, known) ELSE <<>>)
        \o (IF known
            THEN (IF mrl = 0 THEN Bin("intra_luma_not_planar_flag", 1, index > 1) ELSE <<>>) \o unary
            ELSE Bypass("intra_luma_mpm_remainder", TruncatedBinary(Remaining(mode, mpm))))

BdpcmAllowed(e, w, h) == e.tools.bdpcm /\ w \in 4..8 /\ h \in 4..8

BdpcmBins(first, direction) ==
    Bin("intra_bdpcm_flag", first, direction # "off")
    \o (IF direction = "off" THEN <<>> ELSE Bin("intra_bdpcm_dir_flag", first + 1, direction = "ver"))

\* emit_luma_multi_ref_line
ReferenceLineBins(e, n, mrl) ==
    IF ~e.tools.mrl \/ n.y % CtuSize = 0 THEN <<>>
    ELSE Bin("intra_luma_ref_idx", 0, mrl # 0)
         \o (IF mrl = 0 THEN <<>> ELSE Bin("intra_luma_ref_idx", 1, mrl # 1))

LumaPredictionBins(e, n, d, leaves) ==
    (IF BdpcmAllowed(e, n.w, n.h) THEN BdpcmBins(0, d.bdpcm) ELSE <<>>)
    \o (IF d.bdpcm # "off" THEN <<>>
        ELSE ReferenceLineBins(e, n, d.mrl)
             \o LumaModeBins(d.mode, d.mrl, MpmList(ModeLeft(leaves, n), ModeAbove(leaves, n))))

-----------------------------------------------------------------------------
(* Chroma mode *)

\* vvc_chroma_cclm_node_allowed
CclmNode(n) ==
    \/ n.cqt > 0 \/ (n.w = CtuSize /\ n.h = CtuSize)
    \/ /\ n.history # <<>> /\ n.history[1] = "hor"
       /\ \/ n.w = CtuSize /\ n.h = CtuSize \div 2
          \/ Len(n.history) > 1 /\ n.history[2] = "ver"

\* co_located_for_chroma
CoLocated(leaves, n) ==
    LET found == At(leaves, n.x + n.w \div 2, n.y + n.h \div 2)
    IN  IF Some(found, LAMBDA l : l.pred = "intra") THEN found[1].mode ELSE Dc

\* vvc_chroma_explicit_candidates
ChromaCandidates(luma) ==
    [i \in 1..4 |-> LET mode == <<Planar, Vertical, Horizontal, Dc>>[i]
                    IN  IF mode = luma THEN 66 ELSE mode]

\* emit_chroma_intra_prediction_mode
ChromaModeBins(e, n, mode, leaves) ==
    LET cross == e.tools.cclm /\ CclmNode(n)
        candidates == ChromaCandidates(CoLocated(leaves, n))
        flag == IF cross THEN Bin("cclm_mode_flag", 0, mode >= Linear) ELSE <<>>
    IN  IF mode >= Linear
        THEN flag \o Bin("cclm_mode_idx", 0, mode > Linear)
             \o (IF mode = Linear THEN <<>> ELSE Bypass("cclm_mode_idx", mode - Linear - 1))
        ELSE IF mode = Derived \/ ~IsMpm(mode, candidates)
             THEN flag \o Bin("intra_chroma_pred_mode", 0, FALSE)
        ELSE flag \o Bin("intra_chroma_pred_mode", 0, TRUE)
             \o Bypass("intra_chroma_pred_mode", (CHOOSE i \in 1..4 : candidates[i] = mode) - 1)

ChromaPredictionBins(e, n, d, leaves) ==
    (IF BdpcmAllowed(e, ChromaWidth(n, e.sampling), ChromaHeight(n, e.sampling))
     THEN BdpcmBins(2, d.cbdpcm) ELSE <<>>)
    \o (IF d.cbdpcm # "off" THEN <<>> ELSE ChromaModeBins(e, n, d.cmode, leaves))

-----------------------------------------------------------------------------
(* Residual *)

ChromaFlagBins(d) ==
    LET bdpcm == d.cbdpcm # "off"
    IN  Bin("tu_cb_coded_flag", Flag(bdpcm), d.cb)
        \o Bin("tu_cr_coded_flag", IF bdpcm THEN 2 ELSE Flag(d.cb), d.cr)

ChromaResidualBins(d) ==
    (IF d.cb THEN Residual(1) ELSE <<>>) \o (IF d.cr THEN Residual(2) ELSE <<>>)

\* emit_transform_unit_residual: emit_luma_residual or emit_single_tree_residual,
\* and emit_luma_mts_idx after everything else of the unit.
TransformBins(e, n, d, inferred) ==
    LET index == Bin("mts_idx", 0, d.mts # 0)
                 \o (IF d.mts = 0 THEN <<>> ELSE Bin("mts_idx", 1, d.mts > 2))
                 \o (IF d.mts > 2 THEN Bin("mts_idx", 2, d.mts > 3) ELSE <<>>)
                 \o (IF d.mts > 3 THEN Bin("mts_idx", 3, d.mts > 4) ELSE <<>>)
        mts == IF d.y /\ e.tools.mts /\ ~d.ts /\ d.ac /\ n.w <= 32 /\ n.h <= 32 THEN index ELSE <<>>
    IN  (IF n.tree = "single" THEN ChromaFlagBins(d) ELSE <<>>)
        \o (IF inferred THEN <<>> ELSE Bin("tu_y_coded_flag", Flag(d.bdpcm # "off"), d.y))
        \o (IF d.y THEN Residual(0) ELSE <<>>)
        \o (IF n.tree = "single" THEN ChromaResidualBins(d) ELSE <<>>)
        \o mts

-----------------------------------------------------------------------------
(* Motion *)

\* VvcInterSkipNeighbourState::skip_ctx
SkipCtx(leaves, n) ==
    Flag(Some(At(leaves, n.x - 1, n.y + n.h - 1), LAMBDA l : l.pred = "skip"))
    + Flag(Some(At(leaves, n.x + n.w - 1, n.y - 1), LAMBDA l : l.pred = "skip"))

\* The context of pred_mode_flag in emit_luma_inter_slice_prediction_prefix.
PredModeCtx(leaves, n) ==
    LET intra(found) == Some(found, LAMBDA l : l.pred = "intra")
    IN  Flag(\/ intra(At(leaves, n.x - 1, n.y + n.h - 1))
             \/ n.y % CtuSize # 0 /\ intra(At(leaves, n.x + n.w - 1, n.y - 1)))

Moving(found) == Some(found, LAMBDA l : l.pred \in {"inter", "skip"})

\* push_hmvp, record_hmvp: the newest is last and only once.
Remember(history, v) ==
    LET others == SelectSeq(history, LAMBDA old : old # v)
    IN  Append(IF Len(others) = 5 THEN Tail(others) ELSE others, v)

\* mvp_candidates
MvpCandidates(leaves, n, history) ==
    LET first(spots) ==
            LET hits == SelectSeq(spots, LAMBDA s : Moving(At(leaves, s[1], s[2])))
            IN  IF hits = <<>> THEN <<>> ELSE <<At(leaves, hits[1][1], hits[1][2])[1].mv>>
        left == first(<< <<n.x - 1, n.y + n.h>>, <<n.x - 1, n.y + n.h - 1>> >>)
        above == first(<< <<n.x + n.w, n.y - 1>>, <<n.x + n.w - 1, n.y - 1>>, <<n.x - 1, n.y - 1>> >>)
        spatial == IF left = above THEN left ELSE left \o above
    IN  SubSeq(spatial \o history \o <<Still, Still>>, 1, 2)

\* vvc_explicit_inter_mvd_syntax_cost of a difference in quarter samples
MagnitudeCost[v \in 0..4095] == IF v <= 1 THEN 1 ELSE 2 + MagnitudeCost[v \div 2]
DifferenceCost(v) == IF v = 0 THEN 1 ELSE 2 + MagnitudeCost[IF v < 0 THEN -v ELSE v]

\* vvc_explicit_inter_mvp_choice: the cheaper difference, the first of two equals.
\* Vectors are in whole samples and their differences in quarter samples.
MvpChoice(v, candidates) ==
    LET difference(i) == <<4 * (v[1] - candidates[i][1]), 4 * (v[2] - candidates[i][2])>>
        cost(i) == DifferenceCost(difference(i)[1]) + DifferenceCost(difference(i)[2])
        index == IF cost(2) < cost(1) THEN 2 ELSE 1
    IN  [index |-> index, difference |-> difference(index)]

\* emit_luma_explicit_inter_leaf
InterBins(e, n, d, leaves, history) ==
    LET choice == MvpChoice(d.mv, MvpCandidates(leaves, n, history))
        coded == d.y \/ d.cb \/ d.cr
    IN  Bin("cu_skip_flag", SkipCtx(leaves, n), FALSE)
        \o Bin("pred_mode_flag", PredModeCtx(leaves, n), FALSE)
        \o Bin("general_merge_flag", 0, FALSE)
        \o Vector(choice.difference)
        \o Bin("mvp_l0_flag", 0, choice.index = 2)
        \o Bin("cu_coded_flag", 0, coded)
        \o (IF coded THEN TransformBins(e, n, d, ~d.cb /\ ~d.cr) ELSE <<>>)

-----------------------------------------------------------------------------
(* A leaf of the luma or the single tree, and of the chroma tree *)

\* ibc_ctx of the leaves that are marked as such
IbcCtx(leaves, n) ==
    Flag(Some(At(leaves, n.x - 1, n.y), LAMBDA l : l.pred = "ibc"))
    + Flag(Some(At(leaves, n.x, n.y - 1), LAMBDA l : l.pred = "ibc"))

\* emit_luma_exact_ibc_leaf: the search has made the difference and the context.
IbcBins(d) ==
    Bin("cu_skip_flag", 0, FALSE) \o Bin("pred_mode_ibc_flag", d.ctx, TRUE)
    \o Bin("general_merge_flag", 0, FALSE) \o Vector(d.difference) \o Bin("cu_coded_flag", 0, FALSE)

\* emit_luma_inter_slice_intra_prefix, emit_luma_scc_regular_intra_prefix
IntraPrefix(e, n, leaves) ==
    IF e.slice = "P"
    THEN Bin("cu_skip_flag", SkipCtx(leaves, n), FALSE)
         \o Bin("pred_mode_flag", PredModeCtx(leaves, n), TRUE)
    ELSE (IF e.tools.ibc
          THEN Bin("cu_skip_flag", 0, FALSE) \o Bin("pred_mode_ibc_flag", IbcCtx(leaves, n), FALSE)
          ELSE <<>>)
         \o (IF e.tools.palette /\ n.w * n.h > 16 THEN Bin("pred_mode_plt_flag", 0, FALSE) ELSE <<>>)

LumaLeafBins(e, n, d, leaves, history) ==
    CASE d.pred = "skip" -> Bin("cu_skip_flag", SkipCtx(leaves, n), TRUE)
      [] d.pred = "inter" -> InterBins(e, n, d, leaves, history)
      [] d.pred = "ibc" -> IbcBins(d)
      [] d.pred = "intra" ->
            IntraPrefix(e, n, leaves)
            \o LumaPredictionBins(e, n, d, leaves)
            \o (IF n.tree = "single"
                THEN LET here == Append(leaves, [x |-> n.x, y |-> n.y, w |-> n.w, h |-> n.h,
                                                 pred |-> "intra", mode |-> d.mode])
                     IN  ChromaPredictionBins(e, n, d, here)
                ELSE <<>>)
            \o TransformBins(e, n, d, FALSE)

ChromaLeafBins(e, n, d, luma) ==
    ChromaPredictionBins(e, n, d, luma) \o ChromaFlagBins(d) \o ChromaResidualBins(d)

-----------------------------------------------------------------------------
(* The format's reader of a leaf.  It knows the leaves it has decoded, of the *)
(* tree at hand and, for chroma, of luma; those of another slice are not      *)
(* available to it.  What it expects is the set of the bin sequences that     *)
(* decode to d: several when a vector can be coded in several ways.           *)

\* 6.4.4
Available(leaves, slice, x, y) ==
    SelectSeq(leaves, LAMBDA l : l.slice = slice /\ x \in l.x .. l.x + l.w - 1 /\ y \in l.y .. l.y + l.h - 1)

\* 8.4.2: a candidate above the CTU row is planar, as one that is not intra is.
CandidateMode(leaves, n, x, y) ==
    LET found == Available(leaves, n.slice, x, y)
    IN  IF found = <<>> \/ y < CtuSize * (n.y \div CtuSize) THEN 0
        ELSE IF found[1].pred # "intra" THEN 0 ELSE found[1].mode

\* candModeList, the planar mode is not in it
CandidatesOf(a, b, low, high) ==
    LET down(mode, k) == 2 + ((mode + 61 - k) % 64)     \* k + 1 below
        up(mode, k) == 2 + ((mode - 1 + k) % 64)        \* k + 1 above
    IN  IF high <= 1 THEN <<1, 50, 18, 46, 54>>
        ELSE IF a = b \/ low <= 1
             THEN <<high, down(high, 0), up(high, 0), down(high, 1), up(high, 1)>>
        ELSE <<a, b>> \o
             (IF high - low = 1 THEN <<down(low, 0), up(high, 0), down(low, 1)>>
              ELSE IF high - low >= 62 THEN <<up(low, 0), down(high, 0), up(low, 1)>>
              ELSE IF high - low = 2 THEN <<up(low, 0), down(low, 0), up(high, 0)>>
              ELSE <<down(low, 0), up(low, 0), down(high, 0)>>)

CandidatesOfTwo(a, b) == IF a < b THEN CandidatesOf(a, b, a, b) ELSE CandidatesOf(a, b, b, a)
CandidateModes(leaves, n) ==
    CandidatesOfTwo(CandidateMode(leaves, n, n.x - 1, n.y + n.h - 1), CandidateMode(leaves, n, n.x + n.w - 1, n.y - 1))

\* 8.4.2, last step: the mode of an intra_luma_mpm_remainder.
RemainderMode(remainder, candidates) ==
    LET ascending == SortSeq(candidates, <)
        step[i \in 0..5] == IF i = 0 THEN remainder + 1
                            ELSE LET mode == step[i - 1]
                                 IN  IF mode >= ascending[i] THEN mode + 1 ELSE mode
    IN  step[5]

\* 9.3.3.4 with cMax 60: the bits of a value, behind a leading one.
TruncatedBits(value) == IF value < 3 THEN 32 + value ELSE 64 + value + 3

FormatCandidateBins(d, candidates) ==
    LET at == CHOOSE i \in 1..5 : candidates[i] = d.mode
        remainder == CHOOSE r \in 0..60 : RemainderMode(r, candidates) = d.mode
        known == d.mode = 0 \/ \E i \in 1..5 : candidates[i] = d.mode
        index == [i \in 1 .. (IF at < 5 THEN at ELSE 4) |->
                    [name |-> "intra_luma_mpm_idx", ctx |-> -1, value |-> IF i < at THEN 1 ELSE 0]]
        flag == IF d.mrl = 0 THEN Bin("intra_luma_mpm_flag", 0, known) ELSE <<>>
        notPlanar == IF d.mrl = 0 THEN Bin("intra_luma_not_planar_flag", 1, d.mode # 0) ELSE <<>>
    IN  CASE ~known -> flag \o Bypass("intra_luma_mpm_remainder", TruncatedBits(remainder))
          [] known /\ d.mode = 0 -> flag \o notPlanar
          [] OTHER -> flag \o notPlanar \o index

FormatModeBins(n, d, leaves) == FormatCandidateBins(d, CandidateModes(leaves, n))

FormatLumaBins(e, n, d, leaves) ==
    LET bdpcm == IF e.tools.bdpcm /\ n.w <= 8 /\ n.h <= 8
                 THEN Bin("intra_bdpcm_flag", 0, d.bdpcm # "off")
                      \o (IF d.bdpcm = "off" THEN <<>> ELSE Bin("intra_bdpcm_dir_flag", 1, d.mode = 50))
                 ELSE <<>>
        line == IF e.tools.mrl /\ n.y % CtuSize > 0
                THEN SubSeq(Bin("intra_luma_ref_idx", 0, d.mrl > 0) \o Bin("intra_luma_ref_idx", 1, d.mrl > 1),
                            1, IF d.mrl > 0 THEN 2 ELSE 1)
                ELSE <<>>
    IN  bdpcm \o (IF d.bdpcm # "off" THEN <<>> ELSE line \o FormatModeBins(n, d, leaves))

\* 8.4.4: cross-component prediction in a tree of its own is for nodes that
\* were split by a quadtree, not at all, or horizontally and then vertically.
FormatLinearAllowed(e, n) ==
    /\ e.tools.cclm
    /\ \/ n.tree = "single" \/ e.slice = "P"
       \/ n.w = CtuSize /\ n.h = CtuSize
       \/ n.cqt > 0
       \/ n.path[1] = "hor" /\ n.w = CtuSize /\ n.h = CtuSize \div 2
       \/ n.path[1] = "hor" /\ Len(n.path) > 1 /\ n.path[2] = "ver"

FormatChromaBins(e, n, d, luma) ==
    LET cw == n.w \div SubWidth(e.sampling)
        ch == n.h \div SubHeight(e.sampling)
        found == Available(luma, n.slice, n.x + n.w \div 2, n.y + n.h \div 2)
        x == IF found = <<>> THEN 1 ELSE IF found[1].pred = "intra" THEN found[1].mode ELSE 1
        mode(i) == IF i = 4 THEN x ELSE IF <<0, 50, 18, 1>>[i + 1] = x THEN 66 ELSE <<0, 50, 18, 1>>[i + 1]
        wanted == IF d.cmode = Derived THEN x ELSE d.cmode
        cross == IF FormatLinearAllowed(e, n) THEN Bin("cclm_mode_flag", 0, d.cmode > 80) ELSE <<>>
        coded(i) == Bin("intra_chroma_pred_mode", 0, i # 4)
                    \o (IF i = 4 THEN <<>> ELSE Bypass("intra_chroma_pred_mode", i))
        modes == IF d.cmode > 80
                 THEN {cross \o Bin("cclm_mode_idx", 0, d.cmode # 81)
                       \o (IF d.cmode = 81 THEN <<>> ELSE Bypass("cclm_mode_idx", d.cmode - 82))}
                 ELSE {cross \o coded(i) : i \in {j \in 0..4 : mode(j) = wanted}}
    IN  IF e.tools.bdpcm /\ cw <= 8 /\ ch <= 8
        THEN IF d.cbdpcm = "off" THEN {Bin("intra_bdpcm_flag", 2, FALSE) \o m : m \in modes}
             ELSE {Bin("intra_bdpcm_flag", 2, TRUE) \o Bin("intra_bdpcm_dir_flag", 3, d.cbdpcm = "ver")}
        ELSE modes

\* 7.3.11.10 and the rest of 7.3.11.5
FormatTransformBins(e, n, d) ==
    LET chroma == n.tree # "luma"
        flags == IF chroma
                 THEN Bin("tu_cb_coded_flag", IF d.cbdpcm = "off" THEN 0 ELSE 1, d.cb)
                      \o Bin("tu_cr_coded_flag", IF d.cbdpcm # "off" THEN 2 ELSE IF d.cb THEN 1 ELSE 0, d.cr)
                 ELSE <<>>
        luma == IF n.tree # "chroma" /\ (d.pred = "intra" \/ (chroma /\ (d.cb \/ d.cr)))
                THEN Bin("tu_y_coded_flag", IF d.bdpcm = "off" THEN 0 ELSE 1, d.y) ELSE <<>>
        residuals == SelectSeq(Residual(0) \o Residual(1) \o Residual(2),
                        LAMBDA r : \/ r.value = 0 /\ n.tree # "chroma" /\ d.y
                                   \/ r.value = 1 /\ chroma /\ d.cb
                                   \/ r.value = 2 /\ chroma /\ d.cr)
        index == IF d.mts = 0 THEN 0 ELSE d.mts - 1
        mts == IF n.tree # "chroma" /\ e.tools.mts /\ d.pred = "intra" /\ d.y /\ d.ac /\ ~d.ts
                  /\ n.w <= 32 /\ n.h <= 32
               THEN [i \in 1 .. (IF index < 4 THEN index + 1 ELSE 4) |->
                        [name |-> "mts_idx", ctx |-> i - 1, value |-> IF i <= index THEN 1 ELSE 0]]
               ELSE <<>>
    IN  flags \o luma \o residuals \o mts

\* 8.5.2.2: the only merge candidate.
MergeVector(n, leaves) ==
    LET spots == << <<n.x + n.w - 1, n.y - 1>>, <<n.x - 1, n.y + n.h - 1>>, <<n.x + n.w, n.y - 1>>,
                    <<n.x - 1, n.y + n.h>>, <<n.x - 1, n.y - 1>> >>
        found == FlattenSeq([i \in 1..5 |->
                    SelectSeq(Available(leaves, n.slice, spots[i][1], spots[i][2]),
                              LAMBDA l : l.pred \in {"inter", "skip"})])
    IN  IF found = <<>> THEN <<0, 0>> ELSE found[1].mv

\* 8.5.2.8: mvpListLX; the history is oldest first.
FormatPredictors(n, leaves, history) ==
    LET here(x, y) == SelectSeq(Available(leaves, n.slice, x, y), LAMBDA l : l.pred \in {"inter", "skip"})
        a == here(n.x - 1, n.y + n.h) \o here(n.x - 1, n.y + n.h - 1)
        b == here(n.x + n.w, n.y - 1) \o here(n.x + n.w - 1, n.y - 1) \o here(n.x - 1, n.y - 1)
        cut(found) == IF found = <<>> THEN <<>> ELSE <<found[1].mv>>
        both == IF cut(a) = cut(b) THEN cut(a) ELSE cut(a) \o cut(b)
    IN  SubSeq(both \o SubSeq(history, 1, IF Len(history) < 4 THEN Len(history) ELSE 4)
               \o << <<0, 0>>, <<0, 0>> >>, 1, 2)

\* 8.6.2.2
FormatBlockPredictor(n, leaves, history) ==
    LET here(x, y) == SelectSeq(Available(leaves, n.slice, x, y), LAMBDA l : l.pred = "ibc")
        found == here(n.x - 1, n.y + n.h - 1) \o here(n.x + n.w - 1, n.y - 1)
    IN  IF found # <<>> THEN found[1].mv
        ELSE IF history # <<>> THEN history[Len(history)] ELSE <<0, 0>>

\* 9.3.4.2.2: the condition of the leaves to the left and above.
CountedCtx(n, leaves, kinds) ==
    Len(SelectSeq(Available(leaves, n.slice, n.x - 1, n.y), LAMBDA l : l.pred \in kinds))
    + Len(SelectSeq(Available(leaves, n.slice, n.x, n.y - 1), LAMBDA l : l.pred \in kinds))

\* 7.3.11.5 of a leaf that is not in the chroma tree
FormatLeafBins(e, n, d, leaves, history) ==
    LET inter == e.slice # "I"
        skip == IF inter \/ e.tools.ibc
                THEN Bin("cu_skip_flag", CountedCtx(n, leaves, {"skip"}), d.pred = "skip") ELSE <<>>
        mode == IF inter /\ ~(n.w = 4 /\ n.h = 4)
                THEN Bin("pred_mode_flag", IF CountedCtx(n, leaves, {"intra"}) > 0 THEN 1 ELSE 0,
                         d.pred = "intra")
                ELSE <<>>
        copy == IF ~inter /\ e.tools.ibc
                THEN Bin("pred_mode_ibc_flag", CountedCtx(n, leaves, {"ibc"}), d.pred = "ibc") ELSE <<>>
        palette == IF e.tools.palette /\ n.w * n.h > 16 THEN Bin("pred_mode_plt_flag", 0, FALSE) ELSE <<>>
        coded == d.y \/ d.cb \/ d.cr
        here == Append(leaves, [x |-> n.x, y |-> n.y, w |-> n.w, h |-> n.h, slice |-> n.slice,
                                pred |-> "intra", mode |-> d.mode])
        merge == Bin("general_merge_flag", 0, FALSE)
        root == Bin("cu_coded_flag", 0, coded) \o (IF coded THEN FormatTransformBins(e, n, d) ELSE <<>>)
        from == FormatPredictors(n, leaves, history)
        block == FormatBlockPredictor(n, leaves, history)
    IN  CASE d.pred = "skip" -> {s \in {skip} : inter /\ MergeVector(n, leaves) = d.mv}
          [] d.pred = "inter" ->
                {skip \o mode \o merge
                 \o Vector(<<4 * (d.mv[1] - from[i][1]), 4 * (d.mv[2] - from[i][2])>>)
                 \o Bin("mvp_l0_flag", 0, i = 2) \o root : i \in {j \in 1..2 : inter}}
          [] d.pred = "ibc" ->
                {skip \o copy \o merge \o Vector(<<d.mv[1] - block[1], d.mv[2] - block[2]>>) \o root}
          [] d.pred = "intra" ->
                {skip \o mode \o copy \o palette \o FormatLumaBins(e, n, d, leaves) \o c
                 \o FormatTransformBins(e, n, d) :
                    c \in IF n.tree = "single" THEN FormatChromaBins(e, n, d, here) ELSE {<<>>}}

FormatChromaLeafBins(e, n, d, luma) ==
    {c \o FormatTransformBins(e, n, d) : c \in FormatChromaBins(e, n, d, luma)}
=============================================================================

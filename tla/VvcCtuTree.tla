---------------------------- MODULE VvcCtuTree ----------------------------
(***************************************************************************)
(* The CTUs of a VVC picture: the traversal of their coding trees by the   *)
(* entropy coder (cabac/ctu_frame_state.rs), beside the plan of transform  *)
(* nodes the quantiser worked from (cabac/ctu_transform_plan.rs), its      *)
(* search state and the search for block vectors (inter/ibc.rs), and the   *)
(* stack of a decoder that follows the same bins.                          *)
(*                                                                         *)
(* One step visits one node: it writes the bins of its split and, for a    *)
(* leaf, of the leaf.  What the searches prefer is left open; what they    *)
(* are allowed to choose (Legal) is not.  The decision for a leaf is taken *)
(* when it is written: nothing between the two passes depends on later     *)
(* leaves.                                                                 *)
(***************************************************************************)
EXTENDS VvcLeafSyntax, TLC
LOCAL INSTANCE SequencesExt

CONSTANTS Setups    \* the pictures TLC looks at, see MCVvcSyntax

VARIABLES
    setup,      \* size, format, tools and kind of the picture, and what the searches may pick
    ctu,        \* the CTU at hand, from 0; the number of CTUs at the end
    todo,       \* nodes the writer has still to visit
    open,       \* nodes the decoder has still to read
    luma,       \* the leaves of the luma trees, or of single trees
    chroma,     \* the leaves of the chroma trees
    plan,       \* the quantiser's transform nodes of the CTU
    marks,      \* VvcLumaModeSearchState
    search,     \* VvcIbcHashSearch, with the decisions for the CTU
    hmvp,       \* the writer's motion history
    history,    \* the decoder's, of vectors and of block vectors
    coded       \* the last node with its split, decision and bins

treeVars == <<setup, ctu, todo, open, luma, chroma, plan, marks, search, hmvp, history, coded>>

Picture == [w |-> setup.w, h |-> setup.h]
Cols == (setup.w + CtuSize - 1) \div CtuSize
CtuCount == Cols * ((setup.h + CtuSize - 1) \div CtuSize)
CtuX(c) == (c % Cols) * CtuSize
CtuY(c) == (c \div Cols) * CtuSize

Pick(choices, k) == choices[((k - 1) % Len(choices)) + 1]
Payload(c) == Pick(setup.payload, c + 1)

\* A picture is one slice, or every CTU a slice of its own: P when it is
\* skipped, I otherwise (vvc_slice_type_for_ctus).
SliceOf(c) == IF setup.sliced THEN c ELSE 0
SliceKind(c) ==
    IF setup.sliced THEN IF Payload(c) = "skip" THEN "P" ELSE "I"
    ELSE IF setup.inter THEN "P" ELSE "I"

\* VvcCtuPartitionParams::single_tree_shape, shape
TreeOf(c) == IF SliceKind(c) = "P" \/ ~setup.dual THEN "single" ELSE "luma"
MaxLeaf(c) == IF Payload(c) = "coded" THEN setup.leaf ELSE CtuSize

\* VvcFrameCtuCabacState is made for each slice: what it has seen.
Seen(leaves, c) == SelectSeq(leaves, LAMBDA l : l.slice = SliceOf(c))

Environment == [tools |-> setup.tools, slice |-> SliceKind(ctu), sampling |-> setup.sampling]

-----------------------------------------------------------------------------
(* The quantiser's plan *)

AtMost(a, b) == IF a < b THEN a ELSE b

\* vvc_global_ctu_node
InPicture(n, c) == [n EXCEPT !.x = @ + CtuX(c), !.y = @ + CtuY(c)]

\* Mutant: the plan is made for whole CTUs.
MutPlanOf(c) ==
    LET region == [w |-> CtuSize, h |-> CtuSize]
        kind == IF setup.inter THEN "P" ELSE "I"
        lumaTree == LumaNodes(RootAt(0, 0, TreeOf(c)), region, kind, setup.leaf)
        chromaTree == ChromaNodes(RootAt(0, 0, "chroma"), region, setup.sampling)
    IN  [luma |-> [i \in DOMAIN lumaTree |-> InPicture(lumaTree[i], c)],
         chroma |-> IF TreeOf(c) = "luma" THEN [i \in DOMAIN chromaTree |-> InPicture(chromaTree[i], c)]
                    ELSE <<>>]

\* The transform nodes of a CTU, planned in a region with coordinates of its own.
PlanOf(c) ==
    LET region == [w |-> AtMost(CtuSize, setup.w - CtuX(c)), h |-> AtMost(CtuSize, setup.h - CtuY(c))]
        kind == IF setup.inter THEN "P" ELSE "I"
        lumaTree == LumaNodes(RootAt(0, 0, TreeOf(c)), region, kind, setup.leaf)
        chromaTree == ChromaNodes(RootAt(0, 0, "chroma"), region, setup.sampling)
    IN  [luma |-> [i \in DOMAIN lumaTree |-> InPicture(lumaTree[i], c)],
         chroma |-> IF TreeOf(c) = "luma" THEN [i \in DOMAIN chromaTree |-> InPicture(chromaTree[i], c)]
                    ELSE <<>>]

-----------------------------------------------------------------------------
(* The search for block vectors *)

NoSearch == [entries |-> <<>>, vectors |-> <<>>, hmvp |-> <<>>, found |-> <<>>]
Block == 8

Content(x, y) == Pick(setup.content, (y \div Block) * (setup.w \div Block) + (x \div Block) + 1)
Hash(value) == value % setup.hashes
IsVisible(x, y) == x + Block <= setup.vw /\ y + Block <= setup.vh

\* The half of the buffer before the one that is being overwritten.
InBuffer(entry, c) == (entry.x \div CtuSize) * CtuSize + 256 > CtuX(c)

\* prepare_for_ctu
Prepared(s, c) ==
    [s EXCEPT !.hmvp = IF CtuX(c) = 0 THEN <<>> ELSE @,
              !.entries = IF CtuX(c) = 0 THEN <<>> ELSE SelectSeq(@, LAMBDA entry : InBuffer(entry, c)),
              !.found = <<>>]

VectorAt(s, x, y) ==
    LET at == SelectSeq(s.vectors, LAMBDA v : v.x = x /\ v.y = y)
    IN  IF at = <<>> THEN <<>> ELSE <<at[1].mv>>

\* bvp_for
Predictor(s, n) ==
    LET spatial == VectorAt(s, n.x - Block, n.y) \o VectorAt(s, n.x, n.y - Block)
    IN  IF spatial # <<>> THEN spatial[1]
        ELSE IF s.hmvp # <<>> THEN s.hmvp[Len(s.hmvp)] ELSE Still

\* decide_8x8_against_reconstruction and record_ibc_decision: the first block of
\* the same hash, which precedes this one in raster order.
Decided(s, n) ==
    LET before(entry) == entry.y < n.y \/ (entry.y = n.y /\ entry.x < n.x)
        candidates == SelectSeq(s.entries,
                        LAMBDA entry : Hash(entry.value) = Hash(Content(n.x, n.y)) /\ before(entry))
        from == candidates[1]
        mv == <<from.x - n.x, from.y - n.y>>
        predictor == Predictor(s, n)
        decision == [x |-> n.x, y |-> n.y, mv |-> mv, value |-> from.value,
                     difference |-> <<mv[1] - predictor[1], mv[2] - predictor[2]>>,
                     ctx |-> Len(VectorAt(s, n.x - Block, n.y)) + Len(VectorAt(s, n.x, n.y - Block))]
    IN  IF n.w # Block \/ n.h # Block \/ ~IsVisible(n.x, n.y) \/ candidates = <<>> THEN s
        ELSE [s EXCEPT !.vectors = Append(@, [x |-> n.x, y |-> n.y, mv |-> mv]),
                       !.hmvp = Remember(@, mv),
                       !.found = Append(@, decision)]

\* vvc_ibc_decisions_for_region
Searched(s, nodes) ==
    LET upTo[i \in 0..Len(nodes)] ==
            IF i = 0 THEN s ELSE LET before == upTo[i - 1] IN Decided(before, nodes[i])
    IN  upTo[Len(nodes)]

FoundAt(x, y) == SelectSeq(search.found, LAMBDA f : f.x = x /\ f.y = y)

\* record_external_8x8 for every block of the CTU: what was reconstructed, which
\* for a copied block is what was copied.
Recorded(s, c) ==
    LET width == AtMost(CtuSize, setup.vw - CtuX(c))
        height == AtMost(CtuSize, setup.vh - CtuY(c))
        cols == (width + Block - 1) \div Block
        rows == (height + Block - 1) \div Block
        at(i) == [x |-> CtuX(c) + ((i - 1) % cols) * Block, y |-> CtuY(c) + ((i - 1) \div cols) * Block]
        entry(i) == [x |-> at(i).x, y |-> at(i).y,
                     value |-> LET f == FoundAt(at(i).x, at(i).y)
                               IN  IF f = <<>> THEN Content(at(i).x, at(i).y) ELSE f[1].value]
        full == SelectSeq([i \in 1 .. cols * rows |-> i], LAMBDA i : IsVisible(at(i).x, at(i).y))
    IN  [s EXCEPT !.entries = @ \o [i \in DOMAIN full |-> entry(full[i])]]

-----------------------------------------------------------------------------
(* What the searches may decide for a leaf *)

MayMiss(n, mode) ==
    /\ setup.tools.mrl /\ n.y % CtuSize # 0 /\ n.w >= 8 /\ n.h >= 8 /\ mode # Planar
    /\ IsMpm(mode, MpmList(ModeLeft(marks, n), ModeAbove(marks, n)))

LegalLuma(d, n) ==
    LET intra == d.pred = "intra"
        bdpcm == IF intra /\ BdpcmAllowed(Environment, n.w, n.h) THEN d.bdpcm ELSE "off"
        mode == CASE bdpcm = "hor" -> Horizontal
                  [] bdpcm = "ver" -> Vertical
                  [] OTHER -> d.mode
        skipsTransform == d.ts \/ bdpcm # "off"
    IN  [d EXCEPT !.bdpcm = bdpcm, !.mode = mode, !.ts = skipsTransform, !.ac = @ /\ d.y,
                  !.mrl = IF intra /\ bdpcm = "off" /\ MayMiss(n, mode) THEN @ ELSE 0,
                  !.mts = IF intra /\ setup.tools.mts /\ d.y /\ d.ac /\ ~skipsTransform THEN @ ELSE 0]

\* vvc_residual_chroma_cclm_candidate_allowed, vvc_chroma_explicit_candidate_index
LegalChroma(d, n, leaves) ==
    LET allowed == BdpcmAllowed(Environment, ChromaWidth(n, setup.sampling), ChromaHeight(n, setup.sampling))
        bdpcm == IF d.pred = "intra" /\ allowed THEN d.cbdpcm ELSE "off"
        mode == IF d.cmode >= Linear
                THEN IF setup.tools.cclm /\ CclmNode(n) /\ Fits(n, Picture) THEN d.cmode ELSE Derived
                ELSE IF IsMpm(d.cmode, ChromaCandidates(CoLocated(leaves, n))) THEN d.cmode ELSE Derived
    IN  [d EXCEPT !.cbdpcm = bdpcm, !.cmode = mode]

SkipDecision == [pred |-> "skip", mode |-> Planar, mv |-> Still]

\* The decisions for the next luma leaf of the CTU.
LumaDecisions(n) ==
    LET copy == FoundAt(n.x, n.y)
        here(d) == <<[x |-> n.x, y |-> n.y, w |-> n.w, h |-> n.h, pred |-> "intra", mode |-> d.mode]>>
        made(d) == IF n.tree = "single" THEN LegalChroma(LegalLuma(d, n), n, here(LegalLuma(d, n)))
                   ELSE LegalLuma(d, n)
    IN  IF Payload(ctu) # "coded" THEN {SkipDecision}
        ELSE IF copy # <<>> THEN {[pred |-> "ibc", mode |-> Planar, mv |-> copy[1].mv,
                                   difference |-> copy[1].difference, ctx |-> copy[1].ctx,
                                   y |-> FALSE, cb |-> FALSE, cr |-> FALSE]}
        ELSE {made(d) : d \in Pick(setup.luma, Len(luma) + 1)}

\* The decisions for the next leaf of the chroma tree.
ChromaDecisions(n) ==
    {LegalChroma(d, n, Seen(luma, ctu)) : d \in Pick(setup.chroma, Len(chroma) + 1)}

-----------------------------------------------------------------------------
(* Steps *)

TreeInit ==
    /\ setup \in Setups
    /\ ctu = -1
    /\ todo = <<>> /\ open = <<>>
    /\ luma = <<>> /\ chroma = <<>>
    /\ plan = [luma |-> <<>>, chroma |-> <<>>]
    /\ marks = <<>>
    /\ search = NoSearch
    /\ hmvp = <<>>
    /\ history = [inter |-> <<>>, ibc |-> <<>>]
    /\ coded = <<>>

Roots(Root(_, _, _), c) ==
    IF TreeOf(c) = "luma"
    THEN <<Root(CtuX(c), CtuY(c), "luma"), Root(CtuX(c), CtuY(c), "chroma")>>
    ELSE <<Root(CtuX(c), CtuY(c), "single")>>

\* The CTU is quantised and its coding tree begun.  A CTU that was quantised
\* before it was skipped leaves its modes in the search state.
StartCtu ==
    /\ todo = <<>> /\ ctu + 1 < CtuCount
    /\ LET c == ctu + 1
           nodes == PlanOf(c)
           kept == IF setup.sliced /\ Payload(c) = "coded" THEN <<>> ELSE marks
           tried == [i \in DOMAIN nodes.luma |-> nodes.luma[i] @@ [pred |-> "intra", mode |-> setup.tried]]
       IN  /\ ctu' = c
           /\ plan' = nodes
           /\ todo' = Roots(RootAt, c)
           /\ open' = Roots(FormatRoot, c)
           /\ marks' = IF Payload(c) = "replaced" THEN kept \o tried ELSE kept
           /\ search' = IF setup.tools.ibc
                        THEN Searched(Prepared(IF ctu = -1 THEN search ELSE Recorded(search, ctu), c), nodes.luma)
                        ELSE search
           /\ hmvp' = IF setup.sliced THEN <<>> ELSE hmvp
           /\ history' = IF CtuX(c) = 0 \/ setup.sliced THEN [inter |-> <<>>, ibc |-> <<>>] ELSE history
    /\ UNCHANGED <<setup, luma, chroma, coded>>

ChoiceFor(n, splits) ==
    IF n.tree = "chroma" THEN ChromaChoice(n, splits, Picture, setup.sampling)
    ELSE LumaChoice(n, splits, Picture, SliceKind(ctu), MaxLeaf(ctu))
SplitsOf(n) ==
    IF n.tree = "chroma" THEN ChromaSplits(n, Picture, setup.sampling)
    ELSE LumaSplits(n, Picture, SliceKind(ctu))
Own(n) == Seen(IF n.tree = "chroma" THEN chroma ELSE luma, ctu)
Read(split) == IF split = "quiet" THEN "quad" ELSE split

SplitNode(n, splits, choice) ==
    /\ choice.split # "none"
    /\ todo' = Children(n, choice, Picture) \o Tail(todo)
    /\ open' = FormatChildren(Head(open), Read(choice.split), Picture) \o Tail(open)
    /\ coded' = [node |-> n, split |-> Read(choice.split), decision |-> <<>>,
                 bins |-> SplitBins(n, choice, splits, Own(n))]
    /\ UNCHANGED <<luma, chroma, marks, hmvp, history>>

LeafOf(n, d) == [x |-> n.x, y |-> n.y, w |-> n.w, h |-> n.h, cqt |-> n.cqt, slice |-> SliceOf(ctu),
                 pred |-> d.pred, mode |-> d.mode, mv |-> d.mv]

\* emit_with_luma_mode_neighbours of a leaf, emit_inter_skip_ctu_op
CodeLeaf(n, splits, choice, d) ==
    /\ choice.split = "none"
    /\ todo' = Tail(todo)
    /\ open' = Tail(open)
    /\ LET bins == IF n.tree = "chroma" THEN ChromaLeafBins(Environment, n, d, Seen(luma, ctu))
                   ELSE LumaLeafBins(Environment, n, d, Seen(luma, ctu), hmvp)
       IN  coded' = [node |-> n, split |-> "none", decision |-> d,
                     bins |-> SplitBins(n, choice, splits, Own(n)) \o bins]
    /\ IF n.tree = "chroma"
       THEN chroma' = Append(chroma, LeafOf(n, d @@ [mv |-> Still])) /\ UNCHANGED <<luma, marks, hmvp, history>>
       ELSE /\ luma' = Append(luma, LeafOf(n, d))
            /\ marks' = IF d.pred = "intra"
                        THEN Append(marks, [x |-> n.x, y |-> n.y, w |-> n.w, h |-> n.h,
                                            pred |-> "intra", mode |-> d.mode])
                        ELSE marks
            /\ hmvp' = IF d.pred \in {"inter", "skip"} THEN Remember(hmvp, d.mv) ELSE hmvp
            /\ history' = [inter |-> IF d.pred \in {"inter", "skip"} THEN Remember(history.inter, d.mv)
                                     ELSE history.inter,
                           ibc |-> IF d.pred = "ibc" THEN Remember(history.ibc, d.mv) ELSE history.ibc]
            /\ UNCHANGED chroma

VisitNode ==
    /\ todo # <<>>
    /\ LET n == Head(todo)
           splits == SplitsOf(n)
           choice == ChoiceFor(n, splits)
       IN  \/ SplitNode(n, splits, choice)
           \/ \E d \in IF n.tree = "chroma" THEN ChromaDecisions(n) ELSE LumaDecisions(n) :
                CodeLeaf(n, splits, choice, d)
    /\ UNCHANGED <<setup, ctu, plan, search>>

TreeNext == StartCtu \/ VisitNode

-----------------------------------------------------------------------------
(* Properties *)

\* What the decoder takes for the node it reads next: a split that is possible
\* for it, signalled the way it expects, and, for a leaf, the decision of the
\* writer; it goes on with the node the writer goes on with.
ReadsAlike(n, was, splits) ==
    LET own == IF n.tree = "chroma" THEN chroma ELSE luma
        left == Available(own, n.slice, n.x - 1, n.y)
        above == Available(own, n.slice, n.x, n.y - 1)
        flags == FormatBins(n, was.split, splits, Picture, left, above)
        leaves == IF n.tree = "chroma" THEN FormatChromaLeafBins(Environment, n, was.decision, luma)
                  ELSE FormatLeafBins(Environment, n, was.decision, luma,
                            IF was.decision.pred = "ibc" THEN history.ibc ELSE history.inter)
    IN  /\ was.split \in Possible(n, splits, Picture)
        /\ <<n.x, n.y, n.w, n.h, n.tree>>
             = <<was.node.x, was.node.y, was.node.w, was.node.h, was.node.tree>>
        /\ IF was.split = "none" THEN \E b \in leaves : was.bins = flags \o b ELSE was.bins = flags

\* A block vector points at samples a decoder still has when it reads the leaf:
\* decoded before the leaf, in the same CTU row, and at most three CTUs to the
\* left, behind which the buffer has been overwritten.
VectorIsLegal(n, d) ==
    LET x == n.x + d.mv[1]
        y == n.y + d.mv[2]
    IN  d.pred = "ibc" =>
            /\ y \div CtuSize = n.y \div CtuSize /\ (y + n.h - 1) \div CtuSize = n.y \div CtuSize
            /\ (n.x \div CtuSize) - (x \div CtuSize) \in 0..3
            /\ \A cx \in {x, x + n.w - 1}, cy \in {y, y + n.h - 1} :
                Available(luma, SliceOf(ctu), cx, cy) # <<>>

\* A decoder that follows the format's own rules reads every node of the tree
\* as it was written: it expects the same flags with the same contexts, from
\* what it has decoded, at every border of the picture, slice and CTU row,
\* derives the modes and vectors the encoder meant, and has the samples they
\* point at.
ReaderReadsEachNode ==
    [][coded' # coded =>
        LET n == Head(open) @@ [slice |-> SliceOf(ctu)]
        IN  /\ ReadsAlike(n, coded', FormatSplits(n, Picture, SliceKind(ctu), setup.sampling))
            /\ coded'.split = "none" => VectorIsLegal(coded'.node, coded'.decision)]_treeVars

\* The entropy coder takes the k-th leaf it comes to for the k-th transform
\* node of the quantiser, which planned the CTU in a region of its own: they are
\* the same nodes in the same order, no more and no fewer than there is room for.
PlanIsFollowed ==
    ctu >= 0 /\ Payload(ctu) = "coded" =>
        LET inCtu(l) == /\ l.x >= CtuX(ctu) /\ l.x < CtuX(ctu) + CtuSize
                        /\ l.y >= CtuY(ctu) /\ l.y < CtuY(ctu) + CtuSize
            follows(leaves, nodes) ==
                LET made == SelectSeq(leaves, inCtu)
                IN  /\ Len(made) <= Len(nodes) /\ Len(nodes) <= 256
                    /\ todo = <<>> => Len(made) = Len(nodes)
                    /\ \A i \in DOMAIN made :
                        <<made[i].x, made[i].y, made[i].w, made[i].h>>
                          = <<nodes[i].x, nodes[i].y, nodes[i].w, nodes[i].h>>
        IN  follows(luma, plan.luma) /\ follows(chroma, plan.chroma)

\* "VVC nonzero MRL luma modes must be coded through MPM syntax": the assertion
\* in emit_luma_intra_prediction_mode never fails.
MrlModesAreMostProbable ==
    [][coded' # coded /\ coded'.split = "none" =>
        LET d == coded'.decision
            n == coded'.node
            seen == Seen(luma, ctu)
        IN  n.tree # "chroma" /\ d.pred = "intra" /\ d.mrl # 0 =>
                IsMpm(d.mode, MpmList(ModeLeft(seen, n), ModeAbove(seen, n)))]_treeVars

\* "4x4 intra leaves in P slices need explicit modeType handling": the assertion
\* in emit_luma_inter_slice_prediction_prefix never fails, for any leaf size
\* select_vvc_luma_max_leaf_size_for_ctu may return for the CTU.
NoSmallIntraLeavesInPSlices ==
    [][coded' # coded /\ coded'.split = "none" /\ SliceKind(ctu) = "P" =>
        LET n == coded'.node
        IN  n.tree # "chroma" /\ coded'.decision.pred = "intra" => <<n.w, n.h>> # <<4, 4>>]_treeVars
=============================================================================

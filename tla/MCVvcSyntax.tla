---------------------------- MODULE MCVvcSyntax ----------------------------
(* The syntax of VVC pictures: a behaviour is about the bits of units, the  *)
(* headers of a stream, the coding trees of a picture, the coefficients of  *)
(* a block or the prediction of blocks; the others stay as they begin.      *)
EXTENDS VvcSliceSyntax, VvcCtuTree, VvcHeaders, VvcResidual, VvcIntra

VARIABLE subject
vars == <<subject, syntaxVars, treeVars, headerVars, residualVars, intraVars>>

-----------------------------------------------------------------------------
(* Units.  Two zero bytes in a row, and a byte of 3 or less behind them; a  *)
(* long and a short context; bypass bins up to a whole word; remainders in  *)
(* the prefix, at its end and behind it.                                    *)

MCFields ==
    {[code |-> "u", bits |-> 8, value |-> v] : v \in {0, 3}}
    \cup {[code |-> "u", bits |-> 16, value |-> 1]}
    \cup {[code |-> "ue", value |-> 14]}
    \cup {[code |-> "se", value |-> v] : v \in {-1, 5}}
MCBins ==
    {[kind |-> "context", context |-> x, value |-> b] : x \in {"split", "skip"}, b \in {0, 1}}
    \cup {[kind |-> "bypass", count |-> 1, value |-> 1],
          [kind |-> "bypass", count |-> 16, value |-> 257],
          [kind |-> "bypass", count |-> 9, value |-> 511]}
    \cup {[kind |-> "remainder", rice |-> 0, value |-> 4],
          [kind |-> "remainder", rice |-> 1, value |-> 11],
          [kind |-> "remainder", rice |-> 0, value |-> 4100]}
MCInit ==
    [t \in {"I", "P"} |->
        [x \in {"split", "skip"} |->
            CASE t = "I" /\ x = "split" -> 19
              [] t = "I" /\ x = "skip" -> 0
              [] t = "P" /\ x = "split" -> 11
              [] t = "P" /\ x = "skip" -> 57]]
MCWindow == [x \in {"split", "skip"} |-> IF x = "split" THEN 12 ELSE 5]

-----------------------------------------------------------------------------
(* Coding trees *)

AllTools == [mrl |-> TRUE, cclm |-> TRUE, mts |-> TRUE, bdpcm |-> TRUE, ibc |-> FALSE, palette |-> FALSE]
ScreenTools == [mrl |-> FALSE, cclm |-> FALSE, mts |-> FALSE, bdpcm |-> TRUE, ibc |-> TRUE, palette |-> TRUE]

Plain == [pred |-> "intra", mode |-> Planar, mrl |-> 0, bdpcm |-> "off", mts |-> 0, ts |-> FALSE, ac |-> FALSE,
          y |-> FALSE, cb |-> FALSE, cr |-> FALSE, cmode |-> Derived, cbdpcm |-> "off", mv |-> Still]

\* A run of modes that makes neighbours equal, one, two and many apart.
Modes == <<Planar, 50, 51, 49, 2, 66, 18, 20, 34, Dc, 34, 3, 65, 50, 50, 17>>
Mixed == [i \in 1..48 |->
            {[Plain EXCEPT !.mode = Modes[((i * 5) % 16) + 1], !.mrl = i % 3, !.y = i % 2 = 1, !.ac = i % 4 = 1,
                           !.ts = i % 8 = 5, !.mts = IF i % 4 = 1 THEN <<0, 2, 3, 4, 5>>[(i % 5) + 1] ELSE 0,
                           !.bdpcm = <<"off", "off", "off", "hor", "off", "off", "ver">>[(i % 7) + 1],
                           !.cb = i % 3 = 1, !.cr = i % 5 < 2,
                           !.cmode = <<Derived, Planar, 50, 18, Dc, 66, 81, 82, 83>>[(i % 9) + 1],
                           !.cbdpcm = <<"off", "off", "hor", "off", "ver">>[(i % 5) + 1]]}]

Base == [w |-> 64, h |-> 64, vw |-> 64, vh |-> 64, sampling |-> "420", dual |-> TRUE, tools |-> AllTools,
         inter |-> FALSE, sliced |-> FALSE, payload |-> <<"coded">>, leaf |-> 8, luma |-> Mixed, chroma |-> Mixed,
         tried |-> Planar, content |-> <<1>>, hashes |-> 100]

Intra == {[Base EXCEPT !.w = s[1], !.h = s[2], !.sampling = f, !.leaf = l] :
            s \in {<<72, 72>>, <<136, 16>>, <<24, 136>>}, f \in {"420", "422", "444"}, l \in {4, 8}}

\* Screen content: six CTUs beside each other and two below, blocks that repeat,
\* the last content beside blocks that do not.
Repeats == <<1, 2, 3, 1, 4, 2, 5, 1, 6, 3, 2>>
Isolated == [i \in 1..41 |-> IF i > 8 /\ i % 3 = 0 THEN ((i * 5) % 8) + 1 ELSE i]
Screen == {[Base EXCEPT !.w = s[1], !.h = s[2], !.vw = s[1] - 2, !.vh = s[2], !.sampling = "444", !.dual = FALSE,
                        !.tools = ScreenTools, !.content = c] :
            s \in {<<328, 8>>, <<72, 72>>}, c \in {Repeats, Isolated, [i \in 1..41 |-> i], <<1>>}}

\* Pictures of skipped CTUs, and of CTUs that are slices of their own.
Skipped == {[Base EXCEPT !.w = s[1], !.h = s[2], !.sampling = "422", !.inter = TRUE, !.payload = <<"skip">>] :
            s \in {<<72, 72>>, <<136, 24>>, <<40, 136>>}}
Sliced == {[Base EXCEPT !.w = 136, !.h = 72, !.sliced = TRUE, !.payload = p] :
            p \in {<<"coded">>, <<"skip", "coded">>, <<"coded", "coded", "skip">>}}

\* Mixed P pictures: skipped and intra CTUs, or intra and explicit vectors.
Vectors == << <<0, 0>>, <<1, 0>>, <<1, 0>>, <<-2, 3>>, <<0, -1>>, <<4, 4>>, <<-2, 3>> >>
MixedP == {[Base EXCEPT !.w = 128, !.inter = TRUE, !.payload = p] :
            p \in {<<"skip", "coded">>, <<"coded", "skip">>, <<"coded">>}}
MotionPattern(k) == [i \in 1..k |->
    IF i % 5 = 0 THEN Mixed[i]
    ELSE {[Plain EXCEPT !.pred = "inter", !.mv = Vectors[((i * i) % 7) + 1], !.y = i % 3 = 0, !.cb = i % 4 = 0]}]
Explicit == {[Base EXCEPT !.w = 128, !.inter = TRUE, !.luma = MotionPattern(48)]}

\* Every decision at every leaf of a small picture.
Free == {[Plain EXCEPT !.mode = m, !.mrl = r, !.y = r = 1] : m \in {Planar, 2, 34, 50}, r \in {0, 1}}
Small == {[Base EXCEPT !.w = 16, !.h = 16, !.luma = <<Free>>, !.chroma = <<{Plain, [Plain EXCEPT !.cmode = 50]}>>]}
\* Screen content whose hashes collide.
Colliding == {[s EXCEPT !.hashes = 3] : s \in Screen}
MCSetups == Colliding \cup Intra \cup Screen \cup Skipped \cup Sliced \cup MixedP \cup Explicit \cup Small

\* A mixed P picture whose first CTU is quantised, found to be unchanged and
\* skipped, and whose second CTU goes on with the mode that was tried.
Tried == [Plain EXCEPT !.mode = 34, !.mrl = 1]
MixedSlice == {[Base EXCEPT !.w = 128, !.inter = TRUE, !.payload = <<"replaced", "coded">>, !.tried = 34,
                            !.luma = <<{Plain, Tried}>>, !.chroma = <<{Plain}>>]}

\* A mixed P picture whose second CTU has the detail that leaves of 4x4 pay for.
SmallLeaves == {[Base EXCEPT !.w = 128, !.inter = TRUE, !.leaf = 4, !.payload = <<"skip", "coded">>,
                             !.luma = <<{Plain}>>, !.chroma = <<{Plain}>>]}

-----------------------------------------------------------------------------
(* Headers.  One CTU and many; one row and one column; sizes that are not     *)
(* whole blocks; the widest picture that is cut into slices and a wider one.  *)

BaseCoding == [w |-> 64, h |-> 64, sampling |-> "420", depth |-> 8, lossless |-> FALSE, predictive |-> TRUE,
               speed |-> TRUE, rgb |-> FALSE, profile |-> 1, qp |-> 32]
Shapes == {<<8, 8>>, <<64, 64>>, <<130, 70>>, <<24, 136>>, <<190, 60>>, <<198, 130>>}
MCCodings ==
    {[BaseCoding EXCEPT !.w = s[1], !.h = s[2], !.sampling = f, !.predictive = p, !.lossless = l,
                        !.depth = IF p THEN 8 ELSE 10, !.qp = IF ~l THEN 37 ELSE IF p THEN 0 ELSE -12] :
        s \in Shapes, f \in {"420", "422", "444"}, p \in BOOLEAN, l \in BOOLEAN}
    \cup {[BaseCoding EXCEPT !.w = w, !.h = 16, !.qp = 22] : w \in {1920, 1922}}
    \cup {[BaseCoding EXCEPT !.sampling = "444", !.predictive = FALSE, !.lossless = l, !.speed = s, !.rgb = r,
                             !.profile = 33, !.qp = IF l THEN 0 ELSE 63] : l \in BOOLEAN, s \in BOOLEAN, r \in BOOLEAN}

-----------------------------------------------------------------------------
(* Blocks.  Flat, smooth, busy and single differences between the source and  *)
(* its prediction; levels that use the budget up; every qp residue; a source  *)
(* that ends inside of the block.                                             *)

Differences == {"flat", "ramp", "busy", "wild", "corner", "dots", "stripes", "none"}
Difference(kind, n, i) ==
    LET x == i % n
        y == i \div n
    IN  CASE kind = "flat" -> 23
          [] kind = "ramp" -> 9 * x - 7 * y
          [] kind = "busy" -> (((i * i * 7) + i * 13) % 31) - 15
          [] kind = "wild" -> (((i * i * 11) + i * 29) % 241) - 120
          [] kind = "corner" -> IF i = n * n - 1 THEN -3 ELSE 0
          [] kind = "dots" -> IF i \in {n + 1, n * n - 1} THEN 100 ELSE IF i = 2 THEN -1 ELSE 0
          [] kind = "stripes" -> IF y % 2 = 0 THEN 90 ELSE -90
          [] OTHER -> 0

BlockOf(component, n, lossy, qp, depth, kind, w, h) ==
    LET predicted == [i \in Cells(n) |-> 2^(depth - 1) + ((i * 5) % 7)]
    IN  [component |-> component, n |-> n, path |-> "open", lossy |-> lossy, qp |-> qp, depth |-> depth,
         w |-> w, h |-> h, predicted |-> predicted,
         source |-> [i \in Cells(n) |-> predicted[i] + Difference(kind, n, i)]]

\* Lossless pictures have the qp at which a level is a sample.
Lossless == {BlockOf(c, n, FALSE, 0, 8, kind, n, n) : c \in {"luma", "cr"}, n \in {4, 8}, kind \in Differences}
            \cup {BlockOf("luma", n, FALSE, -12, 10, kind, n - 1, n - 2) : n \in {4, 8}, kind \in {"ramp", "wild"}}
            \cup {BlockOf("cb", 4, FALSE, 0, 8, kind, 4, 3) : kind \in {"busy", "dots"}}
Lossy == {BlockOf("luma", n, TRUE, qp, 8, kind, n, n) : n \in {4, 8}, qp \in {5, 32}, kind \in Differences}
         \cup {BlockOf("cb", n, TRUE, qp, 8, kind, n, n) :
                n \in {4, 8}, qp \in {14, 32}, kind \in {"ramp", "wild", "dots"}}
         \cup {BlockOf(c, n, TRUE, 23, 10, kind, n, 2) :
                c \in {"luma", "cr"}, n \in {4, 8}, kind \in {"flat", "stripes"}}
         \cup {BlockOf(c, 4, TRUE, qp, 8, "wild", 4, 4) :
                c \in {"luma", "cb"}, qp \in {9, 28, 33, 37, 46, 55}}
MCResidualBlocks == Lossless \cup Lossy

-----------------------------------------------------------------------------
(* Scenes.  More than one CTU in each direction, borders inside of a CTU, a   *)
(* slice for each CTU with and without copied ones before it, single trees;   *)
(* busy, steep, flat and striped samples beside each other.                   *)

MCReconstructed(depth, plane, x, y) ==
    LET p == CASE plane = "luma" -> 0 [] plane = "cb" -> 29 [] OTHER -> 53
        peak == 2^depth
    IN  CASE ((x \div 16) + 3 * (y \div 16)) % 4 = 0 -> (x * x * 7 + y * y * 13 + x * y * 5 + p * 17) % peak
          [] ((x \div 16) + 3 * (y \div 16)) % 4 = 1 -> (x * 3 + y * 5 + p) % peak
          [] ((x \div 16) + 3 * (y \div 16)) % 4 = 2 -> IF (x \div 2 + y) % 3 = 0 THEN peak - 1 ELSE (y + p) % 7
          [] OTHER -> 90 + p + (x % 2)

Scene == [w |-> 72, h |-> 72, sampling |-> "420", depth |-> 8, dual |-> TRUE, inter |-> FALSE, sliced |-> FALSE,
          payload |-> <<"coded">>, leaf |-> 8, lossless |-> FALSE, spread |-> 23]
MCScenes ==
    {[Scene EXCEPT !.sampling = f] : f \in {"420", "422"}}
    \cup {[Scene EXCEPT !.w = 16, !.h = 72, !.sampling = f, !.leaf = 4, !.lossless = TRUE, !.depth = 10] :
            f \in {"420", "422", "444"}}
    \cup {[Scene EXCEPT !.w = 72, !.h = 16, !.sampling = "444", !.spread = 7]}
    \cup {[Scene EXCEPT !.w = 16, !.h = 24, !.leaf = l, !.lossless = TRUE, !.spread = 2] : l \in {4, 8}}
    \cup {[Scene EXCEPT !.w = 80, !.h = 72, !.sliced = TRUE, !.payload = p, !.spread = 31] :
            p \in {<<"coded">>, <<"copied", "coded">>}}
    \cup {[Scene EXCEPT !.w = 128, !.h = 64, !.dual = FALSE, !.inter = TRUE, !.payload = <<"copied", "coded">>, !.spread = 31]}
    \cup {[Scene EXCEPT !.w = 24, !.h = 72, !.sampling = "444", !.dual = FALSE, !.spread = 31]}

\* A picture with nodes below the first row, all modes of which are tried.
LineScenes == {[Scene EXCEPT !.w = 16, !.h = 24, !.lossless = TRUE, !.spread = 1]}

-----------------------------------------------------------------------------
Init ==
    /\ subject \in {"units", "trees", "headers", "residuals", "intra"}
    /\ subject # "trees" => setup = CHOOSE s \in Setups : TRUE
    /\ subject # "headers" => coding = CHOOSE c \in Codings : TRUE
    /\ subject # "residuals" => block = CHOOSE b \in ResidualBlocks : TRUE
    /\ subject # "intra" => scene = CHOOSE s \in Scenes : TRUE
    /\ SyntaxInit /\ TreeInit /\ HeadersInit /\ ResidualInit /\ IntraInit

UnitStep ==
    subject = "units" /\ SyntaxNext /\ UNCHANGED <<subject, treeVars, headerVars, residualVars, intraVars>>
TreeStep ==
    subject = "trees" /\ TreeNext /\ UNCHANGED <<subject, syntaxVars, headerVars, residualVars, intraVars>>
HeaderStep ==
    subject = "headers" /\ HeadersNext /\ UNCHANGED <<subject, syntaxVars, treeVars, residualVars, intraVars>>
ResidualStep ==
    subject = "residuals" /\ ResidualNext /\ UNCHANGED <<subject, syntaxVars, treeVars, headerVars, intraVars>>
IntraStep ==
    subject = "intra" /\ IntraNext /\ UNCHANGED <<subject, syntaxVars, treeVars, headerVars, residualVars>>
Next == UnitStep \/ TreeStep \/ HeaderStep \/ ResidualStep \/ IntraStep
Spec == Init /\ [][Next]_vars
=============================================================================

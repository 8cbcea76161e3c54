----------------------------- MODULE MCAv2Codec -----------------------------
(***************************************************************************)
(* Five subjects, each on its own: the owned-frame session over the stream *)
(* encoder (Av2Session), the range coder under arbitrary calls             *)
(* (Av2RangeCoder), the blocks of tiles (Av2TileTree), the coefficients of *)
(* their leaves (Av2Residual), and the tiles of pictures with the copies   *)
(* within them (Av2BlockCopy).                                             *)
(***************************************************************************)
EXTENDS Av2Session, Av2RangeCoder, Av2TileTree, Av2Residual, Av2BlockCopy

VARIABLE subject

codecVars == <<subject, vars, coderVars, tileVars, residualVars, copyVars>>

-----------------------------------------------------------------------------
(* Sessions: two blocks, each a tile of its own, in one unbounded picture     *)
(* group.                                                                     *)

CONSTANTS blockA, blockB, t1, t2

MCTileOf == (blockA :> t1) @@ (blockB :> t2)
InfiniteGop == -1

-----------------------------------------------------------------------------
(* Calls of the coder.  Two addresses hold one name; the caches have a slot   *)
(* for everything.                                                            *)

Skewed == <<400, 0, 0, 0, 2, 3>>
Even == <<16384, 0, 0, 2, 3, 4>>
Three == <<32000, 700, 0, 0, 0, 3, 4>>
Named(address, name, key, n, initial, value) ==
    [kind |-> "named", context |-> <<name, key, n>>, address |-> address, key |-> key, n |-> n,
     initial |-> initial, value |-> value]
Static(key, n, initial, value) ==
    [kind |-> "static", context |-> <<"s", key, n>>, key |-> key, n |-> n, initial |-> initial, value |-> value]
MCNameAt == <<"x", "x", "y">>
MCNameSlot(address) == 0
MCCdfSlot(name, key) == 0
MCCalls ==
    {[kind |-> "literal", bits |-> 6, value |-> v] : v \in {0, 63, 37}}
    \cup {[kind |-> "uniform", n |-> 5, value |-> v] : v \in {2, 3, 4}}
    \cup {Named(1, "x", 0, 2, Skewed, 1), Named(2, "x", 0, 2, Skewed, 0), Named(3, "y", 0, 2, Skewed, 1),
          Named(1, "x", 1, 3, Three, 2), Named(1, "x", 1, 3, Three, 1)}
    \cup {Static(0, 2, Even, 0), Static(0, 2, Even, 1)}

-----------------------------------------------------------------------------
(* Tiles *)

Intra == [kind |-> "intra", mode |-> Dc, dpcm |-> "off", fsc |-> FALSE, cmode |-> 2, cdpcm |-> FALSE, palette |-> <<>>]
Across == [Intra EXCEPT !.mode = Horizontal, !.dpcm = "hor", !.cmode = 1, !.cdpcm = TRUE]
Down == [Intra EXCEPT !.mode = Vertical, !.dpcm = "ver", !.cdpcm = TRUE]

\* Modes that make neighbours equal, beside each other and far apart.
Modes == <<Dc, 22, 50, 1, 2, 3, 4, 8, 15, 29, 36, 43, 57, 5, 60, 21, 23, 49, 26, 20>>
Searched == [i \in 1..60 |->
    {IF i % 11 = 3 THEN Across ELSE IF i % 13 = 5 THEN Down
     ELSE [Intra EXCEPT !.mode = Modes[((i * 7) % 20) + 1], !.cmode = i % 13, !.fsc = i % 3 = 0]}]
Copy(drl, dv) == {[kind |-> "copy", drl |-> drl, dv |-> dv]}
Copies == << Copy(2, <<>>), Copy(3, <<>>), Copy(2, <<-8, 0>>), Copy(3, <<0, -8>>), Copy(2, <<-3, 5>>),
             Copy(3, <<-40, -24>>), Copy(2, <<-1, -1>>), Copy(3, <<-2, 0>>), Copy(2, <<0, -64>>) >>
WithCopies == [i \in 1..60 |-> IF i % 3 = 1 THEN Copies[((i \div 3) % 9) + 1] ELSE Searched[i]]

\* Palettes: neighbours share none, some or all of their colours.
Palette(colors, vertical, Color(_, _)) ==
    <<[colors |-> colors, vertical |-> vertical, at |-> [s \in (0..7) \X (0..7) |-> Color(s[1], s[2]) % Len(colors)]]>>
Eight == <<10, 40, 41, 42, 100, 101, 254, 255>>
Palettes == <<
    Palette(<<10, 12>>, FALSE, LAMBDA y, x : y \div 2),
    Palette(<<10, 12, 200>>, TRUE, LAMBDA y, x : x),
    Palette(Eight, FALSE, LAMBDA y, x : 3 * y + x),
    Palette(<<0, 255>>, TRUE, LAMBDA y, x : (y \div 3) + (x \div 3)),
    Palette(<<12, 100, 101, 200>>, FALSE, LAMBDA y, x : y * x),
    Palette(Eight, TRUE, LAMBDA y, x : (y \div 2) * (x \div 2)) >>
Painted(palette) == [Intra EXCEPT !.palette = palette]
Screen == [i \in 1..35 |-> {CASE i % 5 = 4 -> Across [] i % 7 = 3 -> [Intra EXCEPT !.mode = Vertical]
                              [] OTHER -> Painted(Palettes[(i % 6) + 1])}]
ScreenCopies == [i \in 1..35 |-> IF i % 4 = 0 THEN Copies[(i % 9) + 1] ELSE Screen[i]]
Black == <<{Intra}>>
Fast == [i \in 1..35 |-> {CASE i % 5 = 4 -> Across [] i % 7 = 3 -> Down
                            [] i % 4 = 1 -> Painted(Palettes[(i % 6) + 1])
                            [] i % 4 = 2 -> [Intra EXCEPT !.mode = Vertical, !.cmode = 0]
                            [] OTHER -> Intra}]
Rough == [i \in DOMAIN Fast |-> {[d EXCEPT !.palette = <<>>] : d \in Fast[i]}]
Free == <<{Intra, Across, [Intra EXCEPT !.mode = 36, !.fsc = TRUE], [Intra EXCEPT !.mode = 4, !.cmode = 12]}>>

\* Vectors whose differences reach every class of shells.
Vectors == << <<0, 0>>, <<1, 0>>, <<-2, 3>>, <<-2, 3>>, <<16, -16>>, <<0, 5>>, <<-120, 90>>, <<1, 1>>, <<1023, -1000>> >>
Zero == [kind |-> "zero", mv |-> <<0, 0>>]
Motion(kinds, count) == [i \in 1..count |->
    LET kind == kinds[((i * i) % Len(kinds)) + 1]
    IN  [kind |-> kind,
         mv |-> IF kind \in {"new", "newResidual"} THEN Vectors[((i * 5) % 9) + 1] ELSE <<0, 0>>]]
\* Regions of one mode, and blocks that differ from their neighbours.
Patches(count, across) == [i \in 1..count |->
    LET x == (i - 1) % across
        y == (i - 1) \div across
    IN  CASE x < 4 /\ y < 8 -> Zero
          [] x < 8 /\ y < 4 -> [kind |-> "new", mv |-> <<3, -1>>]
          [] x = y -> [kind |-> "intra", mv |-> <<0, 0>>]
          [] x + y = 11 -> [kind |-> "zeroResidual", mv |-> <<0, 0>>]
          [] y > 5 -> [kind |-> "new", mv |-> <<0, 2>>]
          [] OTHER -> Zero]
Skips(modes) == [i \in DOMAIN modes |-> IF modes[i].kind = "new" THEN modes[i] ELSE Zero]

Base == [rows |-> 18, cols |-> 18, writer |-> "lossless", policy |-> "fixed", fast |-> FALSE, inter |-> FALSE,
         copies |-> FALSE, palettes |-> FALSE, micro |-> {}, simple |-> {}, modes |-> <<>>, decisions |-> Searched]
Exhaustive == {Base, [Base EXCEPT !.rows = 4, !.cols = 34], [Base EXCEPT !.rows = 34, !.cols = 4],
               [Base EXCEPT !.copies = TRUE, !.decisions = WithCopies]}
Frames == {[Base EXCEPT !.writer = "frame", !.rows = 18, !.cols = 6, !.palettes = TRUE, !.copies = c,
                        !.decisions = IF c THEN ScreenCopies ELSE Screen] : c \in BOOLEAN}
          \cup {[Base EXCEPT !.writer = "frame", !.rows = 6, !.decisions = Black]}
AdaptiveTile == [Base EXCEPT !.policy = "adaptive", !.fast = TRUE, !.decisions = Rough]
Adaptive == {[AdaptiveTile EXCEPT !.cols = 34, !.micro = {0, 5, 6, 23, 60, 100}, !.simple = {1, 3}],
             [AdaptiveTile EXCEPT !.micro = {8, 17, 40}, !.simple = {0, 1, 2, 3}, !.inter = TRUE],
             [AdaptiveTile EXCEPT !.rows = 10, !.cols = 10, !.palettes = TRUE, !.micro = {6, 7}, !.decisions = Fast]}
Plain == [i \in DOMAIN Searched |-> {[d EXCEPT !.dpcm = "off", !.cdpcm = FALSE] : d \in Searched[i]}]
Lossy == {[Base EXCEPT !.writer = "lossy", !.decisions = Plain]}
AllInter == [Base EXCEPT !.decisions = <<{}>>]
Inter == {[Base EXCEPT !.writer = "mixed", !.policy = "inter", !.fast = TRUE, !.palettes = p,
                       !.modes = Patches(81, 9), !.decisions = IF p THEN Fast ELSE Rough] : p \in BOOLEAN}
         \cup {[Base EXCEPT !.writer = "mixed", !.policy = "inter", !.fast = TRUE, !.cols = 26,
                            !.modes = Motion(<<"zero", "new", "intra", "zeroResidual", "new">>, 117), !.decisions = Rough],
               [AllInter EXCEPT !.writer = "residual", !.modes = Motion(<<"zeroResidual", "newResidual">>, 81)],
               [AllInter EXCEPT !.writer = "skips", !.policy = "inter", !.modes = Skips(Patches(81, 9))],
               [AllInter EXCEPT !.writer = "skips", !.policy = "inter", !.modes = Motion(<<"zero", "new">>, 81)],
               [AllInter EXCEPT !.writer = "skips", !.modes = [i \in 1..81 |-> [kind |-> "new", mv |-> <<7, -2>>]]]}
Small == {[Base EXCEPT !.rows = 4, !.cols = 4, !.decisions = Free]}
MCTiles == Exhaustive \cup Frames \cup Adaptive \cup Lossy \cup Inter \cup Small

-----------------------------------------------------------------------------
(* Coefficients: nothing, one level, a few, all; small and large. *)

Spread(shape, step, base, scale) ==
    [p \in Positions(shape) |-> scale * (((p[1] * 7 + p[2] * 5 + step * (p[1] + 1) * (p[2] + 2)) % base) - (base \div 2))]
Sparse(shape, Level(_, _)) == [p \in Positions(shape) |-> Level(p[1], p[2])]
BlocksOfShape(shape) ==
    << Spread(shape, 3, 5, 1), Sparse(shape, LAMBDA y, x : 0), Sparse(shape, LAMBDA y, x : IF y + x = 0 THEN -40 ELSE 0),
       Spread(shape, 11, 23, 20), Sparse(shape, LAMBDA y, x : IF x = 3 /\ y \in 2..3 THEN 9 - 4 * y ELSE 0),
       Sparse(shape, LAMBDA y, x : IF y = 0 THEN 0 ELSE IF y + x > 4 THEN 7 ELSE -1), Sparse(shape, LAMBDA y, x : 0),
       Sparse(shape, LAMBDA y, x : IF y + x = 0 THEN 1 ELSE 0), Spread(shape, 1, 3, 1), Spread(shape, 2, 9, 255),
       Sparse(shape, LAMBDA y, x : -(x + y)), Sparse(shape, LAMBDA y, x : IF y = 1 /\ x = 0 THEN 2 ELSE 0),
       Sparse(shape, LAMBDA y, x : IF y < 2 /\ x = y THEN 5 - 7 * y ELSE 0) >>
MCBlocks == [shape \in {<<4, 4>>, <<4, 8>>, <<8, 8>>} |-> BlocksOfShape(shape)]
Dark == [shape \in {<<4, 4>>} |-> <<[p \in Positions(shape) |-> IF p = <<0, 0>> THEN -512 ELSE 0]>>]

UnitAt(row, col, w, h) == [row |-> row, col |-> col, w |-> w, h |-> h]
Small8(row, col) == [i \in 1..4 |-> UnitAt(row + 2 * ((i - 1) \div 2), col + 2 * ((i - 1) % 2), 8, 8)]
Field == [rows |-> 4, cols |-> 6, format |-> "444", writer |-> "lossless", kinds |-> <<{"intra"}>>, blocks |-> MCBlocks,
          leaves |-> Small8(0, 0) \o <<UnitAt(0, 4, 8, 8), UnitAt(2, 4, 8, 8)>>]
Mixed == [Field EXCEPT !.rows = 6, !.cols = 8,
          !.leaves = <<UnitAt(0, 0, 16, 16), UnitAt(0, 4, 16, 8), UnitAt(2, 4, 8, 8), UnitAt(2, 6, 8, 8),
                       UnitAt(4, 0, 8, 8), UnitAt(4, 2, 8, 8), UnitAt(4, 4, 8, 8), UnitAt(4, 6, 8, 8)>>]
Formats == {"420", "422", "444"}
MCResidualTiles ==
    {[Field EXCEPT !.format = f, !.kinds = <<{"intra"}, {"fsc"}, {"skip", "inter"}>>] : f \in Formats}
    \cup {[Mixed EXCEPT !.format = f, !.kinds = <<{"inter"}, {"intra"}, {"skip"}, {"intra"}, {"skip", "inter"}>>] : f \in Formats}
    \cup {[Field EXCEPT !.format = f, !.writer = "lossy", !.kinds = <<{"skip"}, {"intra"}, {"inter", "skip"}>>] : f \in Formats}
    \cup {[Field EXCEPT !.format = f, !.writer = "black", !.kinds = <<{"black"}>>, !.blocks = Dark] : f \in {"420", "444"}}

-----------------------------------------------------------------------------
(* Pictures: the real level for those that are only laid out, a small one to  *)
(* have several tiles in few blocks.  Values 0, 3 and 6 share a hash, as do   *)
(* 1 and 4.                                                                   *)

Low == [width |-> 2, area |-> 4, count |-> 8]
MCHash == [value \in 0..400 |-> IF value < 7 THEN value % 3 ELSE value]
PictureOf(w, h, level, way, Value(_, _)) ==
    [w |-> w, h |-> h, level |-> level, way |-> way, hash |-> MCHash,
     content |-> [b \in (0 .. (h \div 8) - 1) \X (0 .. (w \div 8) - 1) |-> Value(b[1], b[2])]]
Sized(w, h, level, way) == [w |-> w, h |-> h, level |-> level, way |-> way, hash |-> <<>>, content |-> <<>>]

\* Equal neighbours on either side of a border of superblocks, and inside.
Bordering(y, x) == (20 * (IF y = 8 /\ x % 5 = 3 THEN 7 ELSE y)) + (IF x \in {8, 12} THEN x - 1 ELSE x) + 10

\* Copies of the block above, to the left and farther off, in one tile and in
\* tiles of one superblock; copies that are dropped, and none.
Searchable ==
    {PictureOf(136, 72, level, "lossless", Bordering) : level \in {Level20, Low}} \cup
    {PictureOf(152, 72, level, "lossless", LAMBDA y, x : ((x * x) + (3 * y * x) + y) % 7) : level \in {Level20, Low}}
    \cup {PictureOf(136, 88, level, "lossless", LAMBDA y, x : IF (x + y) % 3 = 0 THEN (10 * y) + x ELSE ((2 * x) + (5 * y)) % 7) :
             level \in {Level20, Low}}
    \cup {PictureOf(96, 64, Level20, "lossless", LAMBDA y, x : IF y % 2 = 0 THEN x % 7 ELSE (x \div 2) % 7),
          PictureOf(40, 136, Low, "lossless", LAMBDA y, x : (y \div 2 + x) % 5),
          PictureOf(32, 8, Level20, "lossless", LAMBDA y, x : <<7, 8, 7, 9>>[x + 1]),
          PictureOf(72, 16, Level20, "lossless", LAMBDA y, x : (20 * y) + x + 10)}
LaidOut ==
    {Sized(w, h, Level20, "lossy") : w \in {8, 1024, 1928, 4104, 65536}, h \in {16, 1080, 8640, 65536}}
    \cup {Sized(w, h, Low, way) : w \in {8, 72, 200, 264, 520}, h \in {64, 136, 328}, way \in {"lossy", "black", "palette"}}
    \cup {Sized(w, h, Level20, way) : w \in {1288, 4096, 4104}, h \in {72, 4096}, way \in {"black", "palette"}}
    \cup {Sized(4104, 8, Level20, "lossless")}
MCPictures == Searchable \cup LaidOut

-----------------------------------------------------------------------------
CodecInit ==
    /\ subject \in {"session", "coder", "tiles", "residual", "copies"}
    /\ subject # "coder" => adaptive = TRUE
    /\ subject # "tiles" => tile = CHOOSE t \in Tiles : TRUE
    /\ subject # "residual" => field = CHOOSE t \in ResidualTiles : TRUE
    /\ subject # "copies" => picture = CHOOSE p \in Pictures : TRUE
    /\ Init /\ CoderInit /\ TileInit /\ ResidualInit /\ CopyInit

SessionStep == subject = "session" /\ Next /\ UNCHANGED <<subject, coderVars, tileVars, residualVars, copyVars>>
CodeStep == subject = "coder" /\ CoderNext /\ UNCHANGED <<subject, vars, tileVars, residualVars, copyVars>>
TileStep == subject = "tiles" /\ TileNext /\ UNCHANGED <<subject, vars, coderVars, residualVars, copyVars>>
ResidualStep == subject = "residual" /\ ResidualNext /\ UNCHANGED <<subject, vars, coderVars, tileVars, copyVars>>
CopyStep == subject = "copies" /\ CopyNext /\ UNCHANGED <<subject, vars, coderVars, tileVars, residualVars>>
CodecNext == SessionStep \/ CodeStep \/ TileStep \/ ResidualStep \/ CopyStep
CodecSpec == CodecInit /\ [][CodecNext]_codecVars
=============================================================================

--------------------------- MODULE Av2SyntaxProofs ---------------------------
(***************************************************************************)
(* The tiles of an AV2 picture, for every picture and every level: a       *)
(* reader of the frame header divides the picture as the writer did, stops *)
(* where the writer stopped, and no tile is wider than the level allows.   *)
(* And the symbols of a tile, for every table and every sequence of calls: *)
(* each keeps an interval of the range, however often it was adapted.      *)
(***************************************************************************)
EXTENDS Av2BlockCopy, Av2RangeCoder, FiniteSetTheorems, NaturalsInduction, WellFoundedInduction, TLAPS

-----------------------------------------------------------------------------
(* Induction over 0..n, for a set of numbers.                                *)

LEMMA LeastElement ==
    ASSUME NEW T \in SUBSET Nat, T # {}
    PROVE  \E x \in T : \A y \in T : x <= y
<1>1. PICK x \in T : \A y \in T : ~(<<y, x>> \in OpToRel(<, Nat))
    BY WFMin, NatLessThanWellFounded, Zenon
<1>2. \A y \in T : ~(y < x)
    BY <1>1 DEF OpToRel
<1> QED
    BY <1>2

LEMMA IndexInduction ==
    ASSUME NEW n \in Nat, NEW T, 0 \in T, \A k \in 1..n : k - 1 \in T => k \in T
    PROVE  \A k \in 0..n : k \in T
<1> SUFFICES ASSUME \E k \in 0..n : k \notin T PROVE FALSE
    OBVIOUS
<1> DEFINE Missing == {k \in 0..n : k \notin T}
<1>1. Missing \in SUBSET Nat /\ Missing # {}
    OBVIOUS
<1>2. PICK least \in Missing : \A k \in Missing : least <= k
    BY <1>1, LeastElement
<1>3. least \in 1..n /\ least - 1 \in 0..n
    BY <1>2
<1> QED
    BY <1>2, <1>3

-----------------------------------------------------------------------------
(* Powers of two, as far as ceil_log2 looks.                                 *)

Power(k) == 2^k

LEMMA FirstPower ==
    ASSUME NEW k, k = 0
    PROVE  Power(k) = 1
BY SMT DEF Power

\* The superblocks of a picture of the largest size.
MostSuperblocks == 1048576

LEMMA LastPower ==
    ASSUME NEW k, k = 20
    PROVE  Power(k) = MostSuperblocks
BY SMT DEF MostSuperblocks, Power

MostInRow == 1024

LEMMA MostIsNat == MostSuperblocks \in Nat /\ MostInRow \in Nat
BY SMT DEF MostSuperblocks, MostInRow

\* The provers know the powers of numbers that are written out.
LEMMA PowersDouble ==
    ASSUME NEW k \in 1..31
    PROVE  Power(k) = 2 * Power(k - 1)
<1>1. k = 1 => 2^k = 2 * 2^(k - 1)
    BY SMT
<1>2. k = 2 => 2^k = 2 * 2^(k - 1)
    BY SMT
<1>3. k = 3 => 2^k = 2 * 2^(k - 1)
    BY SMT
<1>4. k = 4 => 2^k = 2 * 2^(k - 1)
    BY SMT
<1>5. k = 5 => 2^k = 2 * 2^(k - 1)
    BY SMT
<1>6. k = 6 => 2^k = 2 * 2^(k - 1)
    BY SMT
<1>7. k = 7 => 2^k = 2 * 2^(k - 1)
    BY SMT
<1>8. k = 8 => 2^k = 2 * 2^(k - 1)
    BY SMT
<1>9. k = 9 => 2^k = 2 * 2^(k - 1)
    BY SMT
<1>10. k = 10 => 2^k = 2 * 2^(k - 1)
    BY SMT
<1>11. k = 11 => 2^k = 2 * 2^(k - 1)
    BY SMT
<1>12. k = 12 => 2^k = 2 * 2^(k - 1)
    BY SMT
<1>13. k = 13 => 2^k = 2 * 2^(k - 1)
    BY SMT
<1>14. k = 14 => 2^k = 2 * 2^(k - 1)
    BY SMT
<1>15. k = 15 => 2^k = 2 * 2^(k - 1)
    BY SMT
<1>16. k = 16 => 2^k = 2 * 2^(k - 1)
    BY SMT
<1>17. k = 17 => 2^k = 2 * 2^(k - 1)
    BY SMT
<1>18. k = 18 => 2^k = 2 * 2^(k - 1)
    BY SMT
<1>19. k = 19 => 2^k = 2 * 2^(k - 1)
    BY SMT
<1>20. k = 20 => 2^k = 2 * 2^(k - 1)
    BY SMT
<1>21. k = 21 => 2^k = 2 * 2^(k - 1)
    BY SMT
<1>22. k = 22 => 2^k = 2 * 2^(k - 1)
    BY SMT
<1>23. k = 23 => 2^k = 2 * 2^(k - 1)
    BY SMT
<1>24. k = 24 => 2^k = 2 * 2^(k - 1)
    BY SMT
<1>25. k = 25 => 2^k = 2 * 2^(k - 1)
    BY SMT
<1>26. k = 26 => 2^k = 2 * 2^(k - 1)
    BY SMT
<1>27. k = 27 => 2^k = 2 * 2^(k - 1)
    BY SMT
<1>28. k = 28 => 2^k = 2 * 2^(k - 1)
    BY SMT
<1>29. k = 29 => 2^k = 2 * 2^(k - 1)
    BY SMT
<1>30. k = 30 => 2^k = 2 * 2^(k - 1)
    BY SMT
<1>31. k = 31 => 2^k = 2 * 2^(k - 1)
    BY SMT
<1> DEFINE Doubles == 2^k = 2 * 2^(k - 1)
<1> HIDE DEF Doubles
<1>32. Doubles
    BY <1>1, <1>2, <1>3, <1>4, <1>5, <1>6, <1>7, <1>8, <1>9, <1>10,
       <1>11, <1>12, <1>13, <1>14, <1>15, <1>16, <1>17, <1>18, <1>19, <1>20,
       <1>21, <1>22, <1>23, <1>24, <1>25, <1>26, <1>27, <1>28, <1>29, <1>30,
       <1>31 DEF Doubles
<1> QED
    BY <1>32 DEF Doubles, Power

LEMMA PowersArePositive ==
    \A k \in 0..31 : Power(k) \in Nat \ {0}
<1> DEFINE T == {k \in 0..31 : Power(k) \in Nat \ {0}}
<1>1. ASSUME NEW k, k = 0 PROVE k \in T
    BY <1>1, FirstPower
<1>2. ASSUME NEW k \in 1..31, k - 1 \in T PROVE k \in T
    BY <1>2, PowersDouble
<1> HIDE DEF T
<1>3. \A k \in 0..31 : k \in T
    BY <1>1, <1>2, IndexInduction
<1> QED
    BY <1>3 DEF T

LEMMA PowersGrow ==
    ASSUME NEW a \in 0..31, NEW b \in 0..31
    PROVE  /\ a <= b => Power(a) <= Power(b)
           /\ a < b => 2 * Power(a) <= Power(b)
<1> DEFINE Grown == {k \in 0..31 : \A j \in 0..31 : j <= k => Power(j) <= Power(k)}
<1>1. ASSUME NEW k, k = 0 PROVE k \in Grown
    <2>1. \A j \in 0..31 : j <= k => j = k
        BY <1>1
    <2> QED
        BY <1>1, <2>1, PowersArePositive
<1>2. ASSUME NEW k \in 1..31, k - 1 \in Grown PROVE k \in Grown
    <2>1. SUFFICES ASSUME NEW j \in 0..31, j <= k PROVE Power(j) <= Power(k)
        OBVIOUS
    <2>2. Power(k) \in Nat /\ Power(k - 1) \in Nat /\ Power(k) = 2 * Power(k - 1)
        BY PowersArePositive, PowersDouble
    <2>3. CASE j = k
        BY <2>2, <2>3
    <2>4. CASE j # k
        <3>1. Power(j) <= Power(k - 1) /\ Power(j) \in Nat
            BY <1>2, <2>1, <2>4, PowersArePositive
        <3> QED
            BY <2>2, <3>1
    <2> QED
        BY <2>3, <2>4
<1> HIDE DEF Grown
<1>3. \A k \in 0..31 : k \in Grown
    BY <1>1, <1>2, IndexInduction
<1>4. a <= b => Power(a) <= Power(b)
    BY <1>3 DEF Grown
<1>5. ASSUME a < b PROVE 2 * Power(a) <= Power(b)
    <2>1. b \in 1..31 /\ b - 1 \in 0..31 /\ a <= b - 1
        BY <1>5
    <2>2. Power(a) <= Power(b - 1)
        BY <1>3, <2>1 DEF Grown
    <2> QED
        BY <2>1, <2>2, PowersDouble, PowersArePositive
<1> QED
    BY <1>4, <1>5

\* The least exponent that is large enough, if there is one.
Enough(size, k, target) == size * Power(k) >= target /\ (k = 0 \/ size * Power(k - 1) < target)

LEMMA LeastExponent ==
    ASSUME NEW size \in Nat, NEW target \in Nat, NEW m \in 0..31, size * Power(m) >= target
    PROVE  \E k \in 0..m : Enough(size, k, target)
<1> DEFINE T == {k \in 0..m : size * Power(k) >= target => \E j \in 0..k : Enough(size, j, target)}
<1>1. 0 \in T
    BY DEF Enough
<1>2. ASSUME NEW k \in 1..m, k - 1 \in T PROVE k \in T
    <2>1. SUFFICES ASSUME size * Power(k) >= target PROVE \E j \in 0..k : Enough(size, j, target)
        OBVIOUS
    <2>2. CASE size * Power(k - 1) >= target
        <3>1. PICK j \in 0..(k - 1) : Enough(size, j, target)
            BY <1>2, <2>2
        <3> QED
            BY <3>1
    <2>3. CASE ~(size * Power(k - 1) >= target)
        <3>1. k - 1 \in 0..31
            OBVIOUS
        <3>2. PICK half \in Nat : half = Power(k - 1)
            BY <3>1, PowersArePositive
        <3>3. size * half \in Nat
            BY <3>2
        <3>4. size * Power(k - 1) < target
            BY <2>3, <3>2, <3>3
        <3> QED
            BY <2>1, <3>4 DEF Enough
    <2> QED
        BY <2>2, <2>3
<1> HIDE DEF T
<1>3. m \in T
    BY <1>1, <1>2, IndexInduction
<1> QED
    BY <1>3 DEF T

LEMMA CeilLog2Is ==
    ASSUME NEW n \in Nat, NEW k \in 0..31, Power(k) >= n, k = 0 \/ Power(k - 1) < n
    PROVE  CeilLog2(n) = k
<1>1. SUFFICES ASSUME NEW j \in 0..31, Power(j) >= n, j = 0 \/ Power(j - 1) < n, j # k
               PROVE  FALSE
    BY DEF CeilLog2, Power
<1>2. CASE j < k
    <2>1. k - 1 \in 0..31 /\ j <= k - 1
        BY <1>2
    <2>2. Power(j) <= Power(k - 1) /\ Power(j) \in Nat /\ Power(k - 1) \in Nat /\ Power(k - 1) < n
        BY <1>2, <2>1, PowersGrow, PowersArePositive
    <2> QED
        BY <1>1, <2>2
<1>3. CASE k < j
    <2>1. j - 1 \in 0..31 /\ k <= j - 1
        BY <1>3
    <2>2. Power(k) <= Power(j - 1) /\ Power(k) \in Nat /\ Power(j - 1) \in Nat /\ Power(j - 1) < n
        BY <1>1, <1>3, <2>1, PowersGrow, PowersArePositive
    <2> QED
        BY <2>2
<1> QED
    BY <1>1, <1>2, <1>3

LEMMA CeilLog2Of ==
    ASSUME NEW n \in 1..MostSuperblocks
    PROVE  /\ CeilLog2(n) \in 0..20
           /\ Power(CeilLog2(n)) >= n
           /\ CeilLog2(n) # 0 => Power(CeilLog2(n) - 1) < n
<1>1. PICK last \in 0..31 : last = 20
    OBVIOUS
<1>2. 1 * Power(last) >= n /\ n \in Nat
    BY <1>1, LastPower, MostIsNat
<1>3. PICK k \in 0..20 : Enough(1, k, n)
    BY <1>1, <1>2, LeastExponent
<1>4. Power(k) \in Nat /\ (k # 0 => Power(k - 1) \in Nat)
    <2>1. k \in 0..31 /\ (k # 0 => k - 1 \in 0..31)
        OBVIOUS
    <2> QED
        BY <2>1, PowersArePositive
<1>5. Power(k) >= n /\ (k = 0 \/ Power(k - 1) < n)
    BY <1>3, <1>4 DEF Enough
<1>6. CeilLog2(n) = k
    <2>1. k \in 0..31
        OBVIOUS
    <2> QED
        BY <1>5, <2>1, CeilLog2Is
<1> QED
    BY <1>5, <1>6

LEMMA CeilLog2Grows ==
    ASSUME NEW m \in 1..MostSuperblocks, NEW n \in 1..MostSuperblocks, m <= n
    PROVE  CeilLog2(m) <= CeilLog2(n)
<1> DEFINE a == CeilLog2(m)
           b == CeilLog2(n)
<1>1. a \in 0..20 /\ b \in 0..20 /\ Power(b) >= n /\ (a # 0 => Power(a - 1) < m)
    BY CeilLog2Of
<1> HIDE DEF a, b
<1>2. SUFFICES ASSUME b < a PROVE FALSE
    BY <1>1 DEF a, b
<1>3. a - 1 \in 0..31 /\ b \in 0..31 /\ b <= a - 1 /\ a # 0
    BY <1>1, <1>2
<1>4. Power(b) <= Power(a - 1) /\ Power(b) \in Nat /\ Power(a - 1) \in Nat
    BY <1>3, PowersGrow, PowersArePositive
<1> QED
    BY <1>1, <1>3, <1>4

LEMMA TileLog2Of ==
    ASSUME NEW size \in Nat \ {0}, NEW target \in 0..MostSuperblocks
    PROVE  TileLog2(size, target) \in 0..20 /\ size * Power(TileLog2(size, target)) >= target
<1>1. PICK last \in 0..31 : last = 20
    OBVIOUS
<1>2. PICK most \in Nat : most = Power(last) /\ most = MostSuperblocks
    BY <1>1, LastPower, MostIsNat
<1>3. size * most >= target
    BY <1>2
<1>4. size * Power(last) >= target /\ target \in Nat
    BY <1>2, <1>3, MostIsNat
<1>5. PICK k \in 0..20 : Enough(size, k, target)
    BY <1>1, <1>4, LeastExponent
<1> QED
    BY <1>5 DEF TileLog2, Enough, Power

-----------------------------------------------------------------------------
(* Numbers *)

LEMMA Multiples ==
    ASSUME NEW a \in Nat, NEW b \in Nat, NEW len \in Nat
    PROVE  /\ a * len \in Nat
           /\ (a + 1) * len = a * len + len
           /\ a <= b => a * len <= b * len
           /\ a < b => a * len + len <= b * len
<1>1. a * len \in Nat /\ (a + 1) * len = a * len + len
    OBVIOUS
<1>2. ASSUME a <= b PROVE a * len <= b * len
    <2>1. PICK d \in Nat : b = a + d
        BY <1>2
    <2>2. b * len = a * len + d * len /\ d * len \in Nat
        BY <2>1
    <2> QED
        BY <1>1, <2>2
<1>3. ASSUME a < b PROVE a * len + len <= b * len
    <2>1. PICK d \in Nat : b = (a + 1) + d
        BY <1>3
    <2>2. b * len = (a + 1) * len + d * len /\ d * len \in Nat
        BY <2>1
    <2> QED
        BY <1>1, <2>2
<1> QED
    BY <1>1, <1>2, <1>3

LEMMA Division ==
    ASSUME NEW a \in Nat, NEW len \in Nat \ {0}
    PROVE  a \div len \in Nat /\ a % len \in 0..(len - 1) /\ a = (a \div len) * len + (a % len)
<1>1. a = len * (a \div len) + (a % len) /\ a % len \in 0..(len - 1) /\ a \div len \in Int
    OBVIOUS
<1>2. PICK d \in Int, r \in 0..(len - 1) : d = a \div len /\ r = a % len /\ a = len * d + r
    BY <1>1
<1>3. d \in Nat
    <2>1. SUFFICES ASSUME d < 0 PROVE FALSE
        OBVIOUS
    <2>2. PICK m \in Nat : d = -(m + 1)
        <3>1. -d - 1 \in Nat /\ d = -((-d - 1) + 1)
            BY <2>1
        <3> QED
            BY <3>1
    <2>3. len * d = -(m * len + len) /\ m * len \in Nat
        BY <2>2
    <2> QED
        BY <1>2, <2>3
<1>4. len * d = d * len
    OBVIOUS
<1> QED
    BY <1>2, <1>3, <1>4

-----------------------------------------------------------------------------
(* The starts of a uniform division.                                         *)

Whole(side) == side \div Superblock

LEMMA SuperblocksOfASide ==
    ASSUME NEW side \in 1..MaxFrameDimension
    PROVE  /\ Superblocks(side) \in 1..MostInRow
           /\ Whole(side) \in Nat
           /\ Superblocks(side) = Whole(side) \/ Superblocks(side) = Whole(side) + 1
<1>0. side \in Nat /\ side >= 1 /\ side <= 64 * MostInRow
    BY SMT DEF MaxFrameDimension, MostInRow
<1> DEFINE full == side \div 64
           count == (side + 63) \div 64
<1>1. 64 \in Nat \ {0} /\ side + 63 \in Nat
    BY <1>0, SMT
<1>2. full \in Nat /\ side % 64 \in 0..63 /\ side = full * 64 + (side % 64)
    BY <1>0, <1>1, Division, SMT
<1>3. count \in Nat /\ (side + 63) % 64 \in 0..63 /\ side + 63 = count * 64 + ((side + 63) % 64)
    BY <1>1, Division, SMT
<1>4. Whole(side) = full /\ Superblocks(side) = count
    <2>1. side + Superblock - 1 = side + 63
        BY <1>0, SMT DEF Superblock
    <2> QED
        BY <2>1 DEF Superblocks, Whole, Superblock
<1> HIDE DEF full, count
<1>5. (count = full \/ count = full + 1) /\ count >= 1 /\ count <= MostInRow
    BY <1>0, <1>2, <1>3, MostIsNat, SMT
<1> QED
    BY <1>2, <1>3, <1>4, <1>5, MostIsNat

LEMMA SuperblocksOfAPicture ==
    ASSUME NEW cols \in 1..MostInRow, NEW rows \in 1..MostInRow
    PROVE  /\ cols \in 1..MostSuperblocks /\ rows \in 1..MostSuperblocks
           /\ cols * rows \in 0..MostSuperblocks
<1>1. PICK most : most = MostInRow /\ most \in Nat /\ most * most = MostSuperblocks /\ most <= MostSuperblocks
    BY SMT DEF MostInRow, MostSuperblocks
<1>2. cols * rows \in Nat /\ cols * rows <= cols * most /\ cols * most <= most * most
    BY <1>1, Multiples
<1> QED
    BY <1>1, <1>2, MostIsNat

\* A tile for each superblock, and tiles of base superblocks, the first of one
\* more.
Singles(count) == [i \in 1 .. count + 1 |-> i - 1]
Start(base, extra, i) == (i * base) + Smaller(i, extra)
Divided(tiles, base, extra, count) ==
    [i \in 1 .. tiles + 1 |-> IF i > tiles THEN count ELSE Start(base, extra, i - 1)]
\* uniform_tile_starts_sb, its numbers named
TilesOf(power, base, extra, count) == Cardinality({i \in 0 .. power - 1 : Start(base, extra, i) < count})
Extra(full, power, count) ==
    (full - (full \div power) * power) + (IF full \div power = 0 THEN count - full ELSE 0)

LEMMA UniformStartsAre ==
    ASSUME NEW side, NEW k
    PROVE  UniformStarts(side, k) =
               LET base == Whole(side) \div Power(k)
                   extra == Extra(Whole(side), Power(k), Superblocks(side))
               IN  Divided(TilesOf(Power(k), base, extra, Superblocks(side)), base, extra, Superblocks(side))
BY DEF UniformStarts, Whole, Power, Extra, Divided, TilesOf, Start

LEMMA FewSuperblocks ==
    ASSUME NEW side \in 1..MaxFrameDimension, NEW k \in 0..31, Whole(side) < Power(k)
    PROVE  UniformStarts(side, k) = Singles(Superblocks(side)) /\ Superblocks(side) <= Power(k)
<1> DEFINE power == Power(k)
           full == Whole(side)
           count == Superblocks(side)
<1>1. count \in Nat \ {0} /\ full \in Nat /\ power \in Nat \ {0} /\ full < power /\ (count = full \/ count = full + 1)
    BY SuperblocksOfASide, PowersArePositive, MostIsNat
<1> HIDE DEF power, full, count
<1>2. full \div power = 0
    <2>1. PICK d \in Nat, r \in 0..(power - 1) : d = full \div power /\ full = d * power + r
        BY <1>1, Division
    <2>2. ~(0 < d)
        BY <1>1, <2>1, Multiples
    <2> QED
        BY <2>1, <2>2
<1>3. Extra(full, power, count) = count
    BY <1>1, <1>2 DEF Extra
<1>4. \A i \in Nat : Start(0, count, i) = IF i < count THEN i ELSE count
    BY <1>1 DEF Start, Smaller
<1>5. count <= power
    BY <1>1
<1>6. {i \in 0 .. power - 1 : Start(0, count, i) < count} = 0 .. count - 1
    BY <1>1, <1>4, <1>5
<1>7. TilesOf(power, 0, count, count) = count
    <2>1. Cardinality(0 .. count - 1) = count
        BY <1>1, FS_Interval
    <2> QED
        BY <1>6, <2>1 DEF TilesOf
<1>8. Divided(count, 0, count, count) = Singles(count)
    BY <1>1, <1>4 DEF Divided, Singles
<1>9. UniformStarts(side, k) = Singles(count)
    BY <1>2, <1>3, <1>7, <1>8, UniformStartsAre DEF power, full, count
<1> QED
    BY <1>5, <1>9 DEF power, count

LEMMA ManySuperblocks ==
    ASSUME NEW side \in 1..MaxFrameDimension, NEW k \in 0..31, Whole(side) >= Power(k)
    PROVE  \E base \in Nat \ {0}, extra \in 0..(Power(k) - 1) :
               /\ Whole(side) = base * Power(k) + extra
               /\ UniformStarts(side, k) = Divided(Power(k), base, extra, Superblocks(side))
<1> DEFINE power == Power(k)
           full == Whole(side)
           count == Superblocks(side)
<1>1. count \in Nat \ {0} /\ full \in Nat /\ power \in Nat \ {0} /\ full >= power /\ (count = full \/ count = full + 1)
    BY SuperblocksOfASide, PowersArePositive, MostIsNat
<1> HIDE DEF power, full, count
<1>2. PICK base \in Nat, extra \in 0..(power - 1) : base = full \div power /\ full = base * power + extra
    BY <1>1, Division
<1>3. base # 0
    BY <1>1, <1>2
<1>4. base * power \in Nat
    BY <1>1, <1>2
<1>5. Extra(full, power, count) = extra
    <2>1. PICK product \in Nat : product = base * power
        BY <1>4
    <2>2. Extra(full, power, count) = (full - base * power) + 0
        BY <1>2, <1>3 DEF Extra
    <2> QED
        BY <1>1, <1>2, <2>1, <2>2
<1>6. ASSUME NEW i \in 0..(power - 1)
      PROVE  Start(base, extra, i) < count
    <2>1. i * base + base <= power * base /\ i * base \in Nat
        BY <1>1, Multiples
    <2>2. power * base = base * power
        BY <1>1
    <2>3. Smaller(i, extra) <= extra /\ Smaller(i, extra) \in Nat
        BY DEF Smaller
    <2> QED
        BY <1>1, <1>2, <1>3, <1>4, <2>1, <2>2, <2>3 DEF Start
<1>7. {i \in 0 .. power - 1 : Start(base, extra, i) < count} = 0 .. power - 1
    BY <1>6
<1>8. TilesOf(power, base, extra, count) = power
    <2>1. Cardinality(0 .. power - 1) = power
        BY <1>1, FS_Interval
    <2> QED
        BY <1>7, <2>1 DEF TilesOf
<1>9. UniformStarts(side, k) = Divided(power, base, extra, count)
    BY <1>2, <1>5, <1>8, UniformStartsAre DEF power, full, count
<1> QED
    BY <1>2, <1>3, <1>9 DEF power, full, count

\* A uniform division of a side by a logarithm it reaches has that logarithm.
LEMMA DivisionsHaveTheirLogarithm ==
    ASSUME NEW side \in 1..MaxFrameDimension, NEW k \in Nat, k <= CeilLog2(Superblocks(side))
    PROVE  /\ Len(UniformStarts(side, k)) - 1 \in Nat \ {0}
           /\ CeilLog2(Len(UniformStarts(side, k)) - 1) = k
           /\ Len(UniformStarts(side, k)) - 1 = 1 <=> k = 0
<1> DEFINE count == Superblocks(side)
           starts == UniformStarts(side, k)
<1>1. count \in 1..MostSuperblocks /\ count \in Nat \ {0}
    BY SuperblocksOfASide, SuperblocksOfAPicture, MostIsNat
<1>2. CeilLog2(count) \in 0..20 /\ (CeilLog2(count) # 0 => Power(CeilLog2(count) - 1) < count)
    BY <1>1, CeilLog2Of
<1> HIDE DEF count, starts
<1>3. k \in 0..31 /\ Power(k) \in Nat \ {0}
    BY <1>2, PowersArePositive DEF count
<1>4. k # 0 => Power(k - 1) \in Nat \ {0} /\ Power(k) = 2 * Power(k - 1)
    BY <1>3, PowersArePositive, PowersDouble
<1>5. k # 0 => Power(k - 1) < count
    <2>1. SUFFICES ASSUME k # 0 PROVE Power(k - 1) < count
        OBVIOUS
    <2>2. k - 1 \in 0..31 /\ CeilLog2(count) - 1 \in 0..31 /\ k - 1 <= CeilLog2(count) - 1
        BY <1>2, <1>3, <2>1 DEF count
    <2>3. Power(k - 1) <= Power(CeilLog2(count) - 1) /\ Power(CeilLog2(count) - 1) \in Nat
        BY <2>2, PowersGrow, PowersArePositive
    <2> QED
        BY <1>1, <1>2, <1>4, <2>1, <2>2, <2>3
<1>6. \E tiles \in Nat \ {0} :
          /\ Len(starts) = tiles + 1 /\ tiles <= Power(k) /\ (k # 0 => Power(k - 1) < tiles)
    <2>1. CASE Whole(side) < Power(k)
        <3>1. starts = Singles(count) /\ count <= Power(k)
            BY <1>3, <2>1, FewSuperblocks DEF starts, count
        <3>2. Len(starts) = count + 1
            BY <1>1, <3>1 DEF Singles
        <3> QED
            BY <1>1, <1>5, <3>1, <3>2
    <2>2. CASE ~(Whole(side) < Power(k))
        <3>1. Whole(side) >= Power(k)
            BY <1>3, <2>2, SuperblocksOfASide
        <3>2. PICK base, extra : starts = Divided(Power(k), base, extra, count)
            BY <1>3, <3>1, ManySuperblocks DEF starts, count
        <3>3. Len(starts) = Power(k) + 1
            BY <1>3, <3>2 DEF Divided
        <3>4. k # 0 => Power(k - 1) < Power(k)
            BY <1>3, <1>4
        <3> QED
            BY <1>3, <3>3, <3>4
    <2> QED
        BY <2>1, <2>2
<1>7. PICK tiles \in Nat \ {0} : Len(starts) = tiles + 1 /\ tiles <= Power(k) /\ (k # 0 => Power(k - 1) < tiles)
    BY <1>6
<1>8. CeilLog2(tiles) = k
    BY <1>3, <1>7, CeilLog2Is
<1>9. tiles = 1 <=> k = 0
    <2>1. k = 0 => Power(k) = 1
        BY FirstPower
    <2>2. k # 0 => Power(k - 1) >= 1 /\ Power(k - 1) < tiles /\ Power(k - 1) \in Nat
        BY <1>4, <1>7
    <2> QED
        BY <1>7, <2>1, <2>2
<1>10. Len(starts) - 1 = tiles
    BY <1>7
<1> QED
    BY <1>7, <1>8, <1>9, <1>10 DEF starts

LEMMA SinglesAreUniform ==
    ASSUME NEW side \in 1..MaxFrameDimension, NEW k, k = CeilLog2(Superblocks(side))
    PROVE  UniformStarts(side, k) = Singles(Superblocks(side))
<1> DEFINE count == Superblocks(side)
           full == Whole(side)
           power == Power(k)
<1>1. count \in 1..MostSuperblocks /\ count \in Nat \ {0} /\ full \in Nat /\ (count = full \/ count = full + 1)
    BY SuperblocksOfASide, SuperblocksOfAPicture, MostIsNat
<1>2. k \in 0..31 /\ power >= count /\ power \in Nat \ {0}
    BY <1>1, CeilLog2Of, PowersArePositive
<1>3. CASE full < power
    BY <1>2, <1>3, FewSuperblocks
<1>4. CASE ~(full < power)
    <2> HIDE DEF count, full, power
    <2>1. full = power /\ count = power
        BY <1>1, <1>2, <1>4
    <2>2. PICK base \in Nat \ {0}, extra \in 0..(power - 1) :
              full = base * power + extra /\ UniformStarts(side, k) = Divided(power, base, extra, count)
        BY <1>2, <2>1, ManySuperblocks DEF power, full, count
    <2>3. base = 1
        <3>1. ~(1 < base)
            <4>1. 1 < base => 1 * power + power <= base * power
                BY <1>2, Multiples
            <4> QED
                BY <1>2, <2>1, <2>2, <4>1
        <3> QED
            BY <3>1
    <2>4. extra = 0
        BY <1>2, <2>1, <2>2, <2>3
    <2>5. \A i \in Nat : Start(1, 0, i) = i
        BY DEF Start, Smaller
    <2>6. Divided(power, 1, 0, power) = Singles(power)
        BY <1>2, <2>5 DEF Divided, Singles
    <2> QED
        BY <2>1, <2>2, <2>3, <2>4, <2>6 DEF count
<1> QED
    BY <1>3, <1>4

LEMMA WholeSidesAreUniform ==
    ASSUME NEW side \in 1..MaxFrameDimension, NEW k, k = 0
    PROVE  UniformStarts(side, k) = <<0, Superblocks(side)>>
<1> DEFINE count == Superblocks(side)
           full == Whole(side)
<1>1. count \in Nat \ {0} /\ full \in Nat /\ (count = full \/ count = full + 1)
    BY SuperblocksOfASide, MostIsNat
<1>2. k \in 0..31 /\ Power(k) = 1
    BY FirstPower
<1> HIDE DEF count, full
<1>3. CASE full < 1
    <2>1. count = 1
        BY <1>1, <1>3
    <2>2. UniformStarts(side, k) = Singles(1)
        BY <1>2, <1>3, <2>1, FewSuperblocks DEF count, full
    <2>3. Singles(1) = <<0, 1>>
        BY DEF Singles
    <2> QED
        BY <2>1, <2>2, <2>3 DEF count
<1>4. CASE ~(full < 1)
    <2>1. full >= 1
        BY <1>1, <1>4
    <2>2. PICK base \in Nat \ {0}, extra \in 0..(1 - 1) : UniformStarts(side, k) = Divided(1, base, extra, count)
        BY <1>2, <2>1, ManySuperblocks DEF full, count
    <2>3. Start(base, extra, 0) = 0
        BY DEF Start, Smaller
    <2>4. Divided(1, base, extra, count) = <<0, count>>
        BY <1>1, <2>3 DEF Divided
    <2> QED
        BY <2>2, <2>4 DEF count
<1> QED
    BY <1>3, <1>4

Narrow(starts, width) == \A i \in 1 .. Len(starts) - 1 : starts[i + 1] - starts[i] <= width

LEMMA DividedAreNarrow ==
    ASSUME NEW power \in Nat \ {0}, NEW base \in Nat \ {0}, NEW extra \in 0..(power - 1),
           NEW full \in Nat, full = base * power + extra, NEW count \in {full, full + 1},
           NEW width \in Nat \ {0}, width * power >= count
    PROVE  Narrow(Divided(power, base, extra, count), width)
<1> DEFINE starts == Divided(power, base, extra, count)
<1>1. base * power \in Nat /\ width * power \in Nat
    OBVIOUS
<1>2. base <= width
    <2>1. width < base => width * power + power <= base * power
        BY Multiples
    <2> QED
        BY <1>1, <2>1
<1>3. extra > 0 \/ count = full + 1 => base + 1 <= width
    <2>1. base = width => base * power = width * power
        OBVIOUS
    <2> QED
        BY <1>1, <1>2, <2>1
<1>4. \A i \in Nat : (i + 1) * base = i * base + base /\ i * base \in Nat
    BY Multiples
<1>5. ASSUME NEW i \in 1..(power - 1) PROVE starts[i + 1] - starts[i] <= width
    <2>1. starts[i + 1] = Start(base, extra, i) /\ starts[i] = Start(base, extra, i - 1)
        BY DEF Divided
    <2>2. PICK before \in Nat : before = i - 1
        OBVIOUS
    <2>3. i * base = before * base + base /\ before * base \in Nat
        BY <1>4, <2>2
    <2>4. Smaller(i, extra) - Smaller(i - 1, extra) = (IF i - 1 < extra THEN 1 ELSE 0)
        BY DEF Smaller
    <2>5. Smaller(i, extra) \in Nat /\ Smaller(i - 1, extra) \in Nat
        BY DEF Smaller
    <2>6. starts[i + 1] - starts[i] = base + (Smaller(i, extra) - Smaller(i - 1, extra))
        BY <2>1, <2>2, <2>3, <2>5 DEF Start
    <2>7. i - 1 < extra => extra > 0
        OBVIOUS
    <2> QED
        BY <1>2, <1>3, <2>4, <2>6, <2>7
<1>6. starts[power + 1] - starts[power] <= width
    <2>1. starts[power + 1] = count /\ starts[power] = Start(base, extra, power - 1)
        BY DEF Divided
    <2>2. PICK before \in Nat : before = power - 1 /\ power = before + 1
        OBVIOUS
    <2>3. power * base = before * base + base /\ before * base \in Nat
        BY <1>4, <2>2
    <2>4. power * base = base * power
        OBVIOUS
    <2>5. Smaller(power - 1, extra) = extra
        BY DEF Smaller
    <2>6. starts[power] = (base * power - base) + extra
        BY <1>1, <2>1, <2>2, <2>3, <2>4, <2>5 DEF Start
    <2>7. starts[power + 1] - starts[power] = base + (count - full)
        BY <1>1, <2>1, <2>6
    <2> QED
        BY <1>2, <1>3, <2>7
<1>7. Len(starts) - 1 = power
    BY DEF Divided
<1> HIDE DEF starts
<1>8. ASSUME NEW i \in 1..power PROVE starts[i + 1] - starts[i] <= width
    <2>1. CASE i = power
        BY <1>6, <2>1
    <2>2. CASE i # power
        BY <1>5, <2>2
    <2> QED
        BY <2>1, <2>2
<1> QED
    BY <1>7, <1>8 DEF Narrow, starts

LEMMA SinglesAreNarrow ==
    ASSUME NEW count \in Nat, NEW width \in Nat \ {0}
    PROVE  Narrow(Singles(count), width)
<1>1. Len(Singles(count)) - 1 = count
    BY DEF Singles
<1>2. ASSUME NEW i \in 1..count PROVE Singles(count)[i + 1] - Singles(count)[i] <= width
    BY DEF Singles
<1> QED
    BY <1>1, <1>2 DEF Narrow

LEMMA UniformTilesAreNarrow ==
    ASSUME NEW side \in 1..MaxFrameDimension, NEW k \in 0..31, NEW width \in Nat \ {0},
           width * Power(k) >= Superblocks(side)
    PROVE  Narrow(UniformStarts(side, k), width)
<1> DEFINE count == Superblocks(side)
           full == Whole(side)
           power == Power(k)
<1>1. count \in Nat \ {0} /\ full \in Nat /\ count \in {full, full + 1} /\ power \in Nat \ {0}
    BY SuperblocksOfASide, MostIsNat, PowersArePositive
<1> HIDE DEF count, full, power
<1>2. CASE full < power
    BY <1>1, <1>2, FewSuperblocks, SinglesAreNarrow DEF count, full, power
<1>3. CASE ~(full < power)
    <2>1. full >= power
        BY <1>1, <1>3
    <2>2. PICK base \in Nat \ {0}, extra \in 0..(power - 1) :
              full = base * power + extra /\ UniformStarts(side, k) = Divided(power, base, extra, count)
        BY <2>1, ManySuperblocks DEF power, full, count
    <2>3. width * power >= count
        BY DEF power, count
    <2>4. Narrow(Divided(power, base, extra, count), width)
        BY <1>1, <2>2, <2>3, DividedAreNarrow
    <2> QED
        BY <2>2, <2>4
<1> QED
    BY <1>2, <1>3

-----------------------------------------------------------------------------
(* The layouts of the encoder.                                               *)

LEMMA PictureTypes ==
    ASSUME NEW p \in Pictures
    PROVE  /\ p.w \in 1..MaxFrameDimension /\ p.h \in 1..MaxFrameDimension
           /\ p.level.width \in Nat \ {0} /\ p.level.area \in Nat \ {0} /\ p.level.count \in Nat \ {0}
           /\ p.way \in {"lossless", "lossy", "black", "palette"}
BY PicturesAssumption DEF PicturesAssumption

LEMMA LimitsAre ==
    ASSUME NEW p \in Pictures
    PROVE  /\ Limits(p).minCols \in 0..20 /\ Limits(p).min \in Nat
           /\ p.level.width * Power(Limits(p).minCols) >= Superblocks(p.w)
           /\ Limits(p).maxCols \in Nat /\ Limits(p).maxCols <= CeilLog2(Superblocks(p.w))
           /\ Limits(p).maxRows \in Nat /\ Limits(p).maxRows <= CeilLog2(Superblocks(p.h))
<1> DEFINE cols == Superblocks(p.w)
           rows == Superblocks(p.h)
<1>1. /\ cols \in 1..MostInRow /\ rows \in 1..MostInRow
      /\ cols \in 1..MostSuperblocks /\ rows \in 1..MostSuperblocks
      /\ cols * rows \in 0..MostSuperblocks
    BY PictureTypes, SuperblocksOfASide, SuperblocksOfAPicture
<1>2. cols \in 0..MostSuperblocks /\ cols \in Nat \ {0} /\ rows \in Nat \ {0}
    BY <1>1, MostIsNat
<1>3. /\ TileLog2(p.level.width, cols) \in 0..20
      /\ p.level.width * Power(TileLog2(p.level.width, cols)) >= cols
      /\ TileLog2(p.level.area, cols * rows) \in 0..20
    BY <1>1, <1>2, PictureTypes, TileLog2Of
<1>4. /\ Limits(p).minCols = TileLog2(p.level.width, cols)
      /\ Limits(p).min = Larger(TileLog2(p.level.area, cols * rows), TileLog2(p.level.width, cols))
      /\ Limits(p).maxCols = CeilLog2(Smaller(cols, p.level.count))
      /\ Limits(p).maxRows = CeilLog2(Smaller(rows, p.level.count))
    BY DEF Limits
<1>5. ASSUME NEW side \in 1..MostSuperblocks, side \in Nat \ {0}
      PROVE  /\ CeilLog2(Smaller(side, p.level.count)) \in Nat
             /\ CeilLog2(Smaller(side, p.level.count)) <= CeilLog2(side)
    <2>1. Smaller(side, p.level.count) \in 1..MostSuperblocks /\ Smaller(side, p.level.count) <= side
        BY <1>5, MostIsNat, PictureTypes DEF Smaller
    <2> QED
        BY <2>1, CeilLog2Grows, CeilLog2Of
<1>6. Limits(p).min \in Nat
    BY <1>3, <1>4 DEF Larger
<1> QED
    BY <1>1, <1>2, <1>3, <1>4, <1>5, <1>6

\* What the header can say of a layout: it is the uniform one of its two
\* logarithms, which are within the limits a reader works out too.
WellLaid(p, l) ==
    /\ l.cols = UniformStarts(p.w, l.log2Cols) /\ l.rows = UniformStarts(p.h, l.log2Rows)
    /\ l.minCols = Limits(p).minCols /\ l.minRows = Less(Limits(p).min, l.log2Cols)
    /\ l.maxCols = Limits(p).maxCols /\ l.maxRows = Limits(p).maxRows
    /\ l.log2Cols \in l.minCols .. l.maxCols /\ l.log2Rows \in l.minRows .. l.maxRows

LEMMA RowsAreWithinLimits ==
    ASSUME NEW min \in Nat, NEW cols \in Nat, NEW rows \in Nat, NEW max \in Nat, rows <= max, cols + rows >= min
    PROVE  rows \in Less(min, cols) .. max
BY DEF Less, Larger

LEMMA LayoutsOfOne ==
    ASSUME NEW p \in Pictures, Asserted(p, LayoutOfOne(p))
    PROVE  WellLaid(p, LayoutOfOne(p))
<1> DEFINE l == LayoutOfOne(p)
<1>1. /\ l.cols = <<0, Superblocks(p.w)>> /\ l.rows = <<0, Superblocks(p.h)>>
      /\ l.log2Cols = 0 /\ l.log2Rows = 0 /\ l.minRows = Limits(p).min /\ l.minCols = Limits(p).minCols
      /\ l.maxCols = Limits(p).maxCols /\ l.maxRows = Limits(p).maxRows
    BY DEF LayoutOfOne, Layout
<1> HIDE DEF l
<1>2. /\ l.log2Cols \in l.minCols .. l.maxCols /\ l.log2Rows <= l.maxRows
      /\ l.log2Cols + l.log2Rows >= Limits(p).min
    BY DEF Asserted, l
<1>3. Limits(p).min = 0 /\ Limits(p).maxRows \in Nat
    BY <1>1, <1>2, LimitsAre
<1>4. Less(Limits(p).min, l.log2Cols) = 0
    BY <1>1, <1>3 DEF Less, Larger
<1>5. l.log2Rows \in l.minRows .. l.maxRows
    BY <1>1, <1>3
<1>6. l.cols = UniformStarts(p.w, l.log2Cols) /\ l.rows = UniformStarts(p.h, l.log2Rows)
    BY <1>1, PictureTypes, WholeSidesAreUniform
<1> QED
    BY <1>1, <1>2, <1>3, <1>4, <1>5, <1>6 DEF WellLaid, l

LEMMA LayoutsOfSuperblocks ==
    ASSUME NEW p \in Pictures, Asserted(p, LayoutOfSuperblocks(p))
    PROVE  WellLaid(p, LayoutOfSuperblocks(p))
<1> DEFINE l == LayoutOfSuperblocks(p)
           cols == Superblocks(p.w)
           rows == Superblocks(p.h)
<1>1. /\ l.cols = Singles(cols) /\ l.rows = Singles(rows)
      /\ l.log2Cols = Larger(CeilLog2(cols), Limits(p).minCols)
      /\ l.minRows = Less(Limits(p).min, l.log2Cols)
      /\ l.log2Rows = Larger(CeilLog2(rows), l.minRows)
      /\ l.minCols = Limits(p).minCols /\ l.maxCols = Limits(p).maxCols /\ l.maxRows = Limits(p).maxRows
    BY DEF LayoutOfSuperblocks, SuperblockLayout, Layout, Singles
<1> HIDE DEF l, cols, rows
<1>2. /\ l.log2Cols \in l.minCols .. l.maxCols /\ l.log2Rows <= l.maxRows
      /\ l.log2Cols + l.log2Rows >= Limits(p).min
    BY DEF Asserted, l
<1>3. CeilLog2(cols) \in 0..20 /\ CeilLog2(rows) \in 0..20
    BY PictureTypes, SuperblocksOfASide, SuperblocksOfAPicture, CeilLog2Of DEF cols, rows
<1>4. l.log2Cols = CeilLog2(cols)
    BY <1>1, <1>2, <1>3, LimitsAre DEF Larger, cols
<1>5. Less(Limits(p).min, l.log2Cols) \in Nat
    BY <1>3, <1>4, LimitsAre DEF Less, Larger
<1>6. l.log2Rows = CeilLog2(rows)
    BY <1>1, <1>2, <1>3, <1>5, LimitsAre DEF Larger, rows
<1>7. l.cols = UniformStarts(p.w, l.log2Cols) /\ l.rows = UniformStarts(p.h, l.log2Rows)
    BY <1>1, <1>4, <1>6, PictureTypes, SinglesAreUniform DEF cols, rows
<1>8. l.log2Rows \in l.minRows .. l.maxRows
    <2>1. Limits(p).maxRows \in Nat /\ Limits(p).min \in Nat
        BY LimitsAre
    <2>2. l.log2Cols \in Nat /\ l.log2Rows \in Nat
        BY <1>3, <1>4, <1>6
    <2>3. l.log2Rows \in Less(Limits(p).min, l.log2Cols) .. Limits(p).maxRows
        BY <1>1, <1>2, <2>1, <2>2, RowsAreWithinLimits
    <2> QED
        BY <1>1, <2>3
<1> QED
    BY <1>1, <1>2, <1>7, <1>8 DEF WellLaid, l

LEMMA FastLayouts ==
    ASSUME NEW p \in Pictures, Asserted(p, FastLayout(p))
    PROVE  WellLaid(p, FastLayout(p))
<1> DEFINE limits == Limits(p)
           targetCols == CASE p.w >= 1920 -> 2 [] p.w < 1024 -> 0 [] OTHER -> 1
           cols == Smaller(Larger(targetCols, limits.minCols), limits.maxCols)
           targetRows == IF p.h >= 1080 THEN 1 ELSE 0
           rows == Smaller(Larger(targetRows, Less(limits.min, cols)), limits.maxRows)
           l == UniformLayout(limits, UniformStarts(p.w, cols), UniformStarts(p.h, rows), cols)
<1>1. FastLayout(p) = IF cols = 0 /\ rows = 0 THEN LayoutOfOne(p) ELSE l
    BY DEF FastLayout, FastLayoutWithin
<1>2. targetCols \in Nat /\ targetRows \in Nat
    <2>1. p.w \in Int
        <3>1. p.w \in 1..MaxFrameDimension
            BY PictureTypes
        <3> QED
            BY <3>1
    <2> QED
        BY <2>1, SMT
<1> HIDE DEF limits, targetCols, targetRows
<1>3. /\ limits.minCols \in Nat /\ limits.min \in Nat
      /\ limits.maxCols \in Nat /\ limits.maxCols <= CeilLog2(Superblocks(p.w))
      /\ limits.maxRows \in Nat /\ limits.maxRows <= CeilLog2(Superblocks(p.h))
    BY LimitsAre DEF limits
<1>4. cols \in Nat /\ cols <= limits.maxCols
    BY <1>2, <1>3 DEF Smaller, Larger
<1> HIDE DEF cols
<1>5. rows \in Nat /\ rows <= limits.maxRows
    BY <1>2, <1>3, <1>4 DEF Smaller, Larger, Less
<1> HIDE DEF rows
<1>6. CASE cols = 0 /\ rows = 0
    BY <1>1, <1>6, LayoutsOfOne
<1>7. CASE ~(cols = 0 /\ rows = 0)
    <2>1. FastLayout(p) = l
        BY <1>1, <1>7
    <2>2. CeilLog2(Superblocks(p.w)) \in Nat /\ CeilLog2(Superblocks(p.h)) \in Nat
        BY PictureTypes, SuperblocksOfASide, SuperblocksOfAPicture, CeilLog2Of
    <2>3. CeilLog2(Len(UniformStarts(p.w, cols)) - 1) = cols
        <3>1. cols <= CeilLog2(Superblocks(p.w)) /\ p.w \in 1..MaxFrameDimension
            BY <1>3, <1>4, <2>2, PictureTypes
        <3> QED
            BY <1>4, <3>1, DivisionsHaveTheirLogarithm
    <2>4. CeilLog2(Len(UniformStarts(p.h, rows)) - 1) = rows
        <3>1. rows <= CeilLog2(Superblocks(p.h)) /\ p.h \in 1..MaxFrameDimension
            BY <1>3, <1>5, <2>2, PictureTypes
        <3> QED
            BY <1>5, <3>1, DivisionsHaveTheirLogarithm
    <2>5. /\ l.cols = UniformStarts(p.w, cols) /\ l.rows = UniformStarts(p.h, rows)
          /\ l.log2Cols = cols /\ l.log2Rows = rows /\ l.minRows = Less(limits.min, cols)
          /\ l.minCols = limits.minCols /\ l.maxCols = limits.maxCols /\ l.maxRows = limits.maxRows
        BY <2>3, <2>4 DEF UniformLayout, Layout
    <2> HIDE DEF l
    <2>6. /\ l.log2Cols \in l.minCols .. l.maxCols /\ l.log2Rows <= l.maxRows
          /\ l.log2Cols + l.log2Rows >= limits.min
        BY <2>1 DEF Asserted, limits
    <2>7. l.log2Rows \in l.minRows .. l.maxRows
        BY <1>3, <1>4, <1>5, <2>5, <2>6, RowsAreWithinLimits
    <2>8. WellLaid(p, l)
        BY <2>5, <2>6, <2>7 DEF WellLaid, limits
    <2> QED
        BY <2>1, <2>8
<1> QED
    BY <1>6, <1>7

-----------------------------------------------------------------------------
(* The header and its reader.                                                *)

HeaderNames == {"uniform_spacing", "log2_cols", "log2_rows", "tile_size_bytes_minus1"}
Symbols == [name : HeaderNames, ctx : Int, value : Int]
IfLess(a, b) == IF a < b THEN 1 ELSE 0

\* The symbols from before + 1 on are those of s.
Holds(symbols, before, s) == \A i \in 1..Len(s) : symbols[before + i] = s[i]
\* m flags say go on, and the next, if there may be one, does not.
RunsFor(symbols, at, m, most) ==
    /\ \A i \in 0 .. m - 1 : symbols[at + i].value = 1
    /\ m < most => symbols[at + m].value # 1

\* The flags of a logarithm count above the least.
Tells(s, count, target, max) ==
    /\ s \in Seq(Symbols) /\ Len(s) = count + IfLess(target, max)
    /\ \A i \in 1..count : s[i].value = 1
    /\ target < max => s[count + 1].value = 0

LEMMA SymbolsAreTyped ==
    ASSUME NEW name \in HeaderNames, NEW ctx \in Int, NEW value \in Int
    PROVE  Symbol(name, ctx, value) \in Symbols /\ Symbol(name, ctx, value).value = value
BY DEF Symbol, Symbols

LEMMA Log2SymbolsAre ==
    ASSUME NEW name \in HeaderNames, NEW min \in Nat, NEW max \in Nat, NEW target \in min..max,
           NEW s, s = Log2Symbols(name, min, target, max), NEW count \in Nat, count = target - min
    PROVE  Tells(s, count, target, max)
<1>2. PICK one \in Symbols : one = Flag(name, -1, TRUE) /\ one.value = 1
    <2>1. Flag(name, -1, TRUE) = Symbol(name, -1, 1) /\ -1 \in Int /\ 1 \in Int
        BY DEF Flag
    <2> QED
        BY <2>1, SymbolsAreTyped
<1>3. PICK stop \in Symbols : stop = Flag(name, -1, FALSE) /\ stop.value = 0
    <2>1. Flag(name, -1, FALSE) = Symbol(name, -1, 0) /\ -1 \in Int /\ 0 \in Int
        BY DEF Flag
    <2> QED
        BY <2>1, SymbolsAreTyped
<1>4. PICK ones : ones = [i \in 1..count |-> one]
    OBVIOUS
<1>5. ones \in Seq(Symbols) /\ Len(ones) = count /\ \A i \in 1..count : ones[i] = one
    <2>1. [i \in 1..count |-> one] \in Seq(Symbols)
        OBVIOUS
    <2>2. Len([i \in 1..count |-> one]) = count
        OBVIOUS
    <2> QED
        BY <1>4, <2>1, <2>2
<1>6. s = ones \o (IF target < max THEN <<stop>> ELSE <<>>)
    BY <1>2, <1>3, <1>4 DEF Log2Symbols, When
<1>7. CASE target < max
    <2>1. s = ones \o <<stop>>
        BY <1>6, <1>7
    <2>2. s \in Seq(Symbols) /\ Len(s) = count + 1 /\ s[count + 1] = stop
        BY <1>5, <2>1
    <2>3. \A i \in 1..count : s[i] = one
        BY <1>5, <2>1
    <2>4. IfLess(target, max) = 1
        BY <1>7 DEF IfLess
    <2>5. \A i \in 1..count : s[i].value = 1
        BY <1>2, <2>3
    <2>6. s[count + 1].value = 0
        BY <1>3, <2>2
    <2> QED
        BY <2>2, <2>4, <2>5, <2>6 DEF Tells
<1>8. CASE ~(target < max)
    <2>1. s = ones
        BY <1>5, <1>6, <1>8
    <2>2. IfLess(target, max) = 0
        BY <1>8 DEF IfLess
    <2>3. \A i \in 1..count : s[i].value = 1
        BY <1>2, <1>5, <2>1
    <2>4. Len(s) = count + 0
        BY <1>5, <2>1
    <2> QED
        BY <1>5, <1>8, <2>1, <2>2, <2>3, <2>4 DEF Tells
<1> QED
    BY <1>7, <1>8

LEMMA IncrementsAre ==
    ASSUME NEW symbols, NEW at \in Nat, NEW most \in Nat, NEW m \in 0..most, RunsFor(symbols, at, m, most)
    PROVE  Increments(symbols, at, most) = m
<1> DEFINE Is(n) == /\ \A i \in 0 .. n - 1 : symbols[at + i].value = 1
                    /\ n = most \/ symbols[at + n].value # 1
<1>1. Is(m)
    BY DEF RunsFor
<1>2. ASSUME NEW n \in 0..most, Is(n) PROVE n = m
    <2>1. CASE n < m
        BY <1>2, <2>1 DEF RunsFor
    <2>2. CASE m < n
        BY <1>2, <2>2 DEF RunsFor
    <2> QED
        BY <2>1, <2>2
<1>3. Increments(symbols, at, most) = CHOOSE n \in 0..most : Is(n)
    BY DEF Increments
<1> HIDE DEF Is
<1> QED
    BY <1>1, <1>2, <1>3

\* A sequence joined of a first symbol and three others, and where they are in it.
IsJoined(s, first, a, b, c) == s = <<first>> \o a \o b \o c

PartsAre(s, a, b, c) ==
    /\ Len(s) = 1 + Len(a) + Len(b) + Len(c)
    /\ Holds(s, 1, a)
    /\ Holds(s, 1 + Len(a), b)

LEMMA PartsOfTheHeader ==
    ASSUME NEW a \in Seq(Symbols), NEW b \in Seq(Symbols), NEW c \in Seq(Symbols), NEW first \in Symbols,
           NEW s, IsJoined(s, first, a, b, c)
    PROVE  PartsAre(s, a, b, c)
<1> DEFINE ab == <<first>> \o a \o b
<1>1. /\ ab \in Seq(Symbols) /\ Len(ab) = 1 + Len(a) + Len(b)
      /\ \A i \in 1..Len(a) : ab[1 + i] = a[i]
      /\ \A i \in 1..Len(b) : ab[1 + Len(a) + i] = b[i]
    OBVIOUS
<1>2. s = ab \o c
    BY DEF IsJoined
<1> HIDE DEF ab
<1>3. Len(s) = Len(ab) + Len(c) /\ \A i \in 1..Len(ab) : s[i] = ab[i]
    <2>1. ab \in Seq(Symbols)
        BY <1>1
    <2>2. Len(ab \o c) = Len(ab) + Len(c)
        BY <2>1
    <2>3. ASSUME NEW i \in 1..Len(ab) PROVE (ab \o c)[i] = ab[i]
        BY <2>1
    <2> QED
        BY <1>2, <2>2, <2>3
<1>4. Len(a) \in Nat /\ Len(b) \in Nat
    OBVIOUS
<1>5. \A i \in 1..Len(a) : s[1 + i] = a[i]
    BY <1>1, <1>3, <1>4
<1>6. \A i \in 1..Len(b) : s[1 + Len(a) + i] = b[i]
    BY <1>1, <1>3, <1>4
<1> QED
    BY <1>1, <1>3, <1>5, <1>6 DEF Holds, PartsAre

LEMMA TileCounts ==
    ASSUME NEW p \in Pictures, NEW l, WellLaid(p, l)
    PROVE  TileCount(l) = 1 <=> l.log2Cols + l.log2Rows = 0
<1>1. /\ l.log2Cols \in Nat /\ l.log2Cols <= CeilLog2(Superblocks(p.w)) /\ p.w \in 1..MaxFrameDimension
      /\ l.log2Rows \in Nat /\ l.log2Rows <= CeilLog2(Superblocks(p.h)) /\ p.h \in 1..MaxFrameDimension
    <2>1. CeilLog2(Superblocks(p.w)) \in Nat /\ CeilLog2(Superblocks(p.h)) \in Nat
        BY PictureTypes, SuperblocksOfASide, SuperblocksOfAPicture, CeilLog2Of
    <2>2. Less(Limits(p).min, l.log2Cols) \in Nat
        BY LimitsAre DEF WellLaid, Less, Larger
    <2> QED
        BY <2>1, <2>2, LimitsAre, PictureTypes DEF WellLaid
<1>2. Len(l.cols) - 1 \in Nat \ {0} /\ (Len(l.cols) - 1 = 1 <=> l.log2Cols = 0)
    <2>1. PICK side \in 1..MaxFrameDimension, k \in Nat : side = p.w /\ k = l.log2Cols
        BY <1>1
    <2>2. l.cols = UniformStarts(side, k) /\ k <= CeilLog2(Superblocks(side))
        BY <1>1, <2>1 DEF WellLaid
    <2>3. Len(UniformStarts(side, k)) - 1 \in Nat \ {0}
        BY <2>2, DivisionsHaveTheirLogarithm
    <2>4. Len(UniformStarts(side, k)) - 1 = 1 <=> k = 0
        BY <2>2, DivisionsHaveTheirLogarithm
    <2> QED
        BY <2>1, <2>2, <2>3, <2>4
<1>3. Len(l.rows) - 1 \in Nat \ {0} /\ (Len(l.rows) - 1 = 1 <=> l.log2Rows = 0)
    <2>1. PICK side \in 1..MaxFrameDimension, k \in Nat : side = p.h /\ k = l.log2Rows
        BY <1>1
    <2>2. l.rows = UniformStarts(side, k) /\ k <= CeilLog2(Superblocks(side))
        BY <1>1, <2>1 DEF WellLaid
    <2>3. Len(UniformStarts(side, k)) - 1 \in Nat \ {0}
        BY <2>2, DivisionsHaveTheirLogarithm
    <2>4. Len(UniformStarts(side, k)) - 1 = 1 <=> k = 0
        BY <2>2, DivisionsHaveTheirLogarithm
    <2> QED
        BY <2>1, <2>2, <2>3, <2>4
<1>4. ASSUME NEW x \in Nat \ {0}, NEW y \in Nat \ {0} PROVE x * y = 1 <=> x = 1 /\ y = 1
    <2>1. 1 < x => 1 * y + y <= x * y
        BY Multiples
    <2>2. x = 1 => x * y = y
        OBVIOUS
    <2>3. x * y \in Nat
        OBVIOUS
    <2> QED
        BY <2>1, <2>2, <2>3
<1> DEFINE x == Len(l.cols) - 1
           y == Len(l.rows) - 1
<1>5. TileCount(l) = x * y
    BY DEF TileCount
<1> HIDE DEF x, y
<1>6. x * y = 1 <=> x = 1 /\ y = 1
    BY <1>2, <1>3, <1>4 DEF x, y
<1>7. x = 1 /\ y = 1 <=> l.log2Cols + l.log2Rows = 0
    BY <1>1, <1>2, <1>3 DEF x, y
<1> QED
    BY <1>5, <1>6, <1>7

LEMMA HeadersAreTyped ==
    ASSUME NEW condition \in BOOLEAN
    PROVE  /\ Flag("uniform_spacing", -1, TRUE) \in Symbols
           /\ When(condition, <<Bits("tile_size_bytes_minus1", 2, 3)>>) \in Seq(Symbols)
           /\ Len(When(condition, <<Bits("tile_size_bytes_minus1", 2, 3)>>)) = IF condition THEN 1 ELSE 0
<1>1. "uniform_spacing" \in HeaderNames /\ "tile_size_bytes_minus1" \in HeaderNames
    BY DEF HeaderNames
<1>2. -1 \in Int /\ -2 \in Int /\ 1 \in Int /\ 3 \in Int
    OBVIOUS
<1>3. Flag("uniform_spacing", -1, TRUE) \in Symbols
    BY <1>1, <1>2, SymbolsAreTyped, Zenon DEF Flag
<1>4. PICK sizes \in Symbols : sizes = Bits("tile_size_bytes_minus1", 2, 3)
    BY <1>1, <1>2, SymbolsAreTyped, Zenon DEF Bits
<1>5. When(condition, <<sizes>>) \in Seq(Symbols) /\ Len(When(condition, <<sizes>>)) = IF condition THEN 1 ELSE 0
    BY DEF When
<1> QED
    BY <1>3, <1>4, <1>5

\* One of the two logarithms, in the header from at on.
LEMMA LogarithmIsRead ==
    ASSUME NEW min \in Nat, NEW max \in Nat, NEW target \in min..max, NEW name \in HeaderNames,
           NEW symbols, NEW before \in Nat, NEW at, at = before + 1,
           NEW s, s = Log2Symbols(name, min, target, max), Holds(symbols, before, s)
    PROVE  Increments(symbols, at, max - min) = target - min
<1>1. PICK m \in Nat, most \in Nat : m = target - min /\ most = max - min
    OBVIOUS
<1>2. m \in 0..most /\ at \in Nat /\ (m < most <=> target < max)
    BY <1>1
<1>3. /\ Len(s) = m + IfLess(target, max)
      /\ \A i \in 1..m : s[i].value = 1
      /\ target < max => s[m + 1].value = 0
    <2>1. Tells(s, m, target, max)
        BY <1>1, Log2SymbolsAre
    <2> QED
        BY <2>1 DEF Tells
<1>4. ASSUME NEW i \in 0 .. m - 1 PROVE symbols[at + i].value = 1
    <2>1. i + 1 \in 1..m /\ i + 1 \in 1..Len(s) /\ before + (i + 1) = at + i
        BY <1>3 DEF IfLess
    <2> QED
        BY <1>3, <2>1 DEF Holds
<1>5. ASSUME m < most PROVE symbols[at + m].value # 1
    <2>0. Len(s) = m + 1
        BY <1>2, <1>3, <1>5 DEF IfLess
    <2>1. m + 1 \in 1..Len(s) /\ before + (m + 1) = at + m
        BY <2>0
    <2>2. s[m + 1].value = 0
        BY <1>2, <1>3, <1>5
    <2>3. symbols[at + m] = s[m + 1]
        BY <2>1 DEF Holds
    <2> QED
        BY <2>2, <2>3
<1>6. Increments(symbols, at, most) = m
    <2>1. RunsFor(symbols, at, m, most)
        BY <1>4, <1>5 DEF RunsFor
    <2> QED
        BY <1>2, <2>1, IncrementsAre
<1> QED
    BY <1>1, <1>6

IsHeader(symbols, minCols, cols, maxCols, minRows, rows, maxRows, sizes) ==
    symbols = <<Flag("uniform_spacing", -1, TRUE)>> \o Log2Symbols("log2_cols", minCols, cols, maxCols)
                  \o Log2Symbols("log2_rows", minRows, rows, maxRows) \o sizes

\* Both of them, with what is before, between and behind.
LEMMA LogarithmsAreRead ==
    ASSUME NEW minCols \in Nat, NEW maxCols \in Nat, NEW cols \in minCols..maxCols,
           NEW minRows \in Nat, NEW maxRows \in Nat, NEW rows \in minRows..maxRows,
           NEW sizes \in Seq(Symbols), NEW symbols,
           IsHeader(symbols, minCols, cols, maxCols, minRows, rows, maxRows, sizes),
           NEW next, next = 2 + (cols - minCols) + IfLess(cols, maxCols)
    PROVE  /\ next \in Nat
           /\ Len(symbols) = (next - 1) + (rows - minRows) + IfLess(rows, maxRows) + Len(sizes)
           /\ Increments(symbols, 2, maxCols - minCols) = cols - minCols
           /\ Increments(symbols, next, maxRows - minRows) = rows - minRows
<1>1. PICK colName \in HeaderNames, rowName \in HeaderNames : colName = "log2_cols" /\ rowName = "log2_rows"
    BY DEF HeaderNames
<1> DEFINE colSymbols == Log2Symbols(colName, minCols, cols, maxCols)
           rowSymbols == Log2Symbols(rowName, minRows, rows, maxRows)
<1>2. PICK first \in Symbols, across \in Nat, down \in Nat :
          first = Flag("uniform_spacing", -1, TRUE) /\ across = cols - minCols /\ down = rows - minRows
    <2>1. Flag("uniform_spacing", -1, TRUE) \in Symbols
        BY HeadersAreTyped
    <2>2. cols - minCols \in Nat /\ rows - minRows \in Nat
        OBVIOUS
    <2> QED
        BY <2>1, <2>2
<1>3. symbols = <<first>> \o colSymbols \o rowSymbols \o sizes
    BY <1>1, <1>2 DEF IsHeader
<1>4. PICK c, r : c = colSymbols /\ r = rowSymbols
    OBVIOUS
<1>5. colSymbols \in Seq(Symbols) /\ Len(colSymbols) = across + IfLess(cols, maxCols)
    <2>1. Tells(c, across, cols, maxCols)
        BY <1>2, <1>4, Log2SymbolsAre
    <2> QED
        BY <1>4, <2>1 DEF Tells
<1>6. rowSymbols \in Seq(Symbols) /\ Len(rowSymbols) = down + IfLess(rows, maxRows)
    <2>1. Tells(r, down, rows, maxRows)
        BY <1>2, <1>4, Log2SymbolsAre
    <2> QED
        BY <1>4, <2>1 DEF Tells
<1>7. PICK stop \in Nat, end \in Nat : stop = IfLess(cols, maxCols) /\ end = IfLess(rows, maxRows)
    BY DEF IfLess
<1> HIDE DEF colSymbols, rowSymbols
<1>8. /\ Len(symbols) = 1 + Len(colSymbols) + Len(rowSymbols) + Len(sizes)
      /\ Holds(symbols, 1, colSymbols)
      /\ Holds(symbols, 1 + Len(colSymbols), rowSymbols)
    <2>1. PICK left \in Seq(Symbols), right \in Seq(Symbols) : left = colSymbols /\ right = rowSymbols
        BY <1>5, <1>6
    <2>2. IsJoined(symbols, first, left, right, sizes)
        BY <1>3, <2>1 DEF IsJoined
    <2>3. PartsAre(symbols, left, right, sizes)
        BY <2>2, PartsOfTheHeader
    <2> QED
        BY <2>1, <2>3 DEF PartsAre
<1>9. PICK before \in Nat : before = 1 + Len(colSymbols) /\ next = before + 1
    <2>1. 1 + Len(colSymbols) \in Nat
        BY <1>5
    <2>2. next = (1 + Len(colSymbols)) + 1
        BY <1>2, <1>5, <1>7
    <2> QED
        BY <2>1, <2>2
<1>10. Increments(symbols, 2, maxCols - minCols) = cols - minCols
    <2>1. PICK one \in Nat, at \in Nat : one = 1 /\ at = 2 /\ at = one + 1
        OBVIOUS
    <2>2. Holds(symbols, one, colSymbols)
        BY <1>8, <2>1
    <2>3. Increments(symbols, at, maxCols - minCols) = cols - minCols
        BY <2>1, <2>2, LogarithmIsRead DEF colSymbols
    <2> QED
        BY <2>1, <2>3
<1>11. Increments(symbols, next, maxRows - minRows) = rows - minRows
    <2>1. Holds(symbols, before, rowSymbols)
        BY <1>8, <1>9
    <2> QED
        BY <1>9, <2>1, LogarithmIsRead DEF rowSymbols
<1>12. Len(sizes) \in Nat
    OBVIOUS
<1>13. Len(symbols) = (next - 1) + (rows - minRows) + IfLess(rows, maxRows) + Len(sizes)
    <2>1. Len(symbols) = before + (down + end) + Len(sizes)
        BY <1>6, <1>7, <1>8, <1>9, <1>12
    <2>2. before = next - 1
        BY <1>9
    <2> QED
        BY <1>2, <1>7, <1>12, <2>1, <2>2
<1> QED
    BY <1>9, <1>10, <1>11, <1>13

\* A reader of the header divides the picture as the writer did and stops where
\* the writer stopped (write_mvp_tile_info).
LEMMA HeaderIsRead ==
    ASSUME NEW p \in Pictures, NEW l, WellLaid(p, l)
    PROVE  LET read == ReadTiles(p, TileInfo(l))
           IN  read.cols = l.cols /\ read.rows = l.rows /\ read.length = Len(TileInfo(l))
<1> DEFINE sizes == When(TileCount(l) # 1, <<Bits("tile_size_bytes_minus1", 2, 3)>>)
           symbols == TileInfo(l)
<1>1. PICK minCols \in Nat, maxCols \in Nat, cols \in Int :
          /\ cols \in minCols..maxCols
          /\ minCols = Limits(p).minCols /\ minCols = l.minCols
          /\ maxCols = Limits(p).maxCols /\ maxCols = l.maxCols
          /\ cols = l.log2Cols
    BY LimitsAre DEF WellLaid
<1>2. PICK minRows \in Nat, maxRows \in Nat, rows \in Int :
          /\ rows \in minRows..maxRows
          /\ minRows = Less(Limits(p).min, cols) /\ minRows = l.minRows
          /\ maxRows = Limits(p).maxRows /\ maxRows = l.maxRows
          /\ rows = l.log2Rows
    <2>1. Less(Limits(p).min, cols) \in Nat
        BY <1>1, LimitsAre DEF Less, Larger
    <2> QED
        BY <1>1, <2>1, LimitsAre DEF WellLaid
<1>3. PICK next : next = 2 + (cols - minCols) + IfLess(cols, maxCols)
    OBVIOUS
<1>4. sizes \in Seq(Symbols) /\ Len(sizes) = IF cols + rows > 0 THEN 1 ELSE 0
    <2>1. PICK several \in BOOLEAN : several <=> TileCount(l) # 1
        OBVIOUS
    <2>2. sizes = When(several, <<Bits("tile_size_bytes_minus1", 2, 3)>>)
        BY <2>1 DEF When
    <2>a. sizes \in Seq(Symbols) /\ Len(sizes) = IF several THEN 1 ELSE 0
        BY <2>2, HeadersAreTyped
    <2>3. TileCount(l) = 1 <=> cols + rows = 0
        BY <1>1, <1>2, TileCounts
    <2>4. several <=> cols + rows > 0
        BY <1>1, <1>2, <2>1, <2>3
    <2> HIDE DEF sizes
    <2>5. Len(sizes) = IF cols + rows > 0 THEN 1 ELSE 0
        BY <2>a, <2>4
    <2> QED
        BY <2>a, <2>5
<1>5. IsHeader(symbols, minCols, cols, maxCols, minRows, rows, maxRows, sizes)
    BY <1>1, <1>2 DEF TileInfo, IsHeader
<1> HIDE DEF sizes, symbols
<1>7. /\ next \in Nat
      /\ Len(symbols) = (next - 1) + (rows - minRows) + IfLess(rows, maxRows) + Len(sizes)
      /\ Increments(symbols, 2, maxCols - minCols) = cols - minCols
      /\ Increments(symbols, next, maxRows - minRows) = rows - minRows
    <2>1. sizes \in Seq(Symbols) /\ cols \in minCols..maxCols /\ rows \in minRows..maxRows
        BY <1>1, <1>2, <1>4
    <2> QED
        BY <1>3, <1>5, <2>1, LogarithmsAreRead
<1> DEFINE more == Increments(symbols, 2, maxCols - minCols)
           log2Cols == minCols + more
           at == 2 + more + IfLess(log2Cols, maxCols)
           least == Less(Limits(p).min, log2Cols)
           down == Increments(symbols, at, maxRows - least)
           log2Rows == least + down
           after == at + down + IfLess(log2Rows, maxRows)
<1>8. ReadTiles(p, symbols) =
          [cols |-> UniformStarts(p.w, log2Cols), rows |-> UniformStarts(p.h, log2Rows),
           length |-> after - 1 + IF log2Cols + log2Rows > 0 THEN 1 ELSE 0]
    BY <1>1, <1>2 DEF ReadTiles, ReadTilesWithin, IfLess
<1>9. more = cols - minCols
    BY <1>7
<1> HIDE DEF more
<1>10. log2Cols = cols
    BY <1>9
<1> HIDE DEF log2Cols
<1>11. least = minRows /\ at = next
    BY <1>2, <1>3, <1>9, <1>10
<1> HIDE DEF least, at
<1>12. down = rows - minRows
    BY <1>7, <1>11
<1> HIDE DEF down
<1>13. log2Rows = rows
    BY <1>11, <1>12
<1> HIDE DEF log2Rows
<1>14. after = next + (rows - minRows) + IfLess(rows, maxRows)
    BY <1>11, <1>12, <1>13
<1> HIDE DEF after
<1>15. after - 1 + (IF log2Cols + log2Rows > 0 THEN 1 ELSE 0) = Len(symbols)
    <2>1. IfLess(rows, maxRows) \in Nat
        BY DEF IfLess
    <2> QED
        BY <1>4, <1>7, <1>10, <1>13, <1>14, <2>1
<1>16. UniformStarts(p.w, log2Cols) = l.cols /\ UniformStarts(p.h, log2Rows) = l.rows
    BY <1>1, <1>2, <1>10, <1>13 DEF WellLaid
<1> QED
    BY <1>8, <1>15, <1>16 DEF symbols

LEMMA NoTileIsTooWide ==
    ASSUME NEW p \in Pictures, NEW l, WellLaid(p, l)
    PROVE  NoneTooWide(p, l)
<1> DEFINE least == Limits(p).minCols
           k == l.log2Cols
           width == p.level.width
           count == Superblocks(p.w)
<1>1. least \in 0..20 /\ width \in Nat \ {0} /\ width * Power(least) >= count
      /\ k \in least .. Limits(p).maxCols /\ Limits(p).maxCols \in Nat
      /\ Limits(p).maxCols <= CeilLog2(count)
    BY LimitsAre, PictureTypes DEF WellLaid
<1>2. p.w \in 1..MaxFrameDimension /\ count \in 1..MostSuperblocks /\ count \in Nat
    BY PictureTypes, SuperblocksOfASide, SuperblocksOfAPicture, MostIsNat
<1>3. CeilLog2(count) \in 0..20
    BY <1>2, CeilLog2Of
<1> HIDE DEF least, k, width, count
<1>4. least \in 0..31 /\ k \in 0..31 /\ least <= k
    BY <1>1, <1>3
<1>5. PICK small \in Nat, large \in Nat : small = Power(least) /\ large = Power(k) /\ small <= large
    BY <1>4, PowersGrow, PowersArePositive
<1>6. width * small <= width * large /\ width * small \in Nat /\ width * large \in Nat
    <2>1. small * width <= large * width
        BY <1>1, <1>5, Multiples
    <2> QED
        BY <1>1, <2>1
<1>7. width * Power(k) >= count
    BY <1>1, <1>2, <1>5, <1>6
<1>8. Narrow(UniformStarts(p.w, k), width)
    BY <1>1, <1>2, <1>4, <1>7, UniformTilesAreNarrow DEF count
<1> QED
    BY <1>8 DEF WellLaid, Narrow, NoneTooWide, k, width

-----------------------------------------------------------------------------
(* The pictures.                                                             *)

\* A picture with a layout has one that the header can say.
LayoutInv ==
    /\ picture \in Pictures
    /\ phase \in {"layout", "search", "header", "tiles", "done", "panicked"}
    /\ phase \in {"search", "header", "tiles", "done"} => WellLaid(picture, layout)

LEMMA FirstLayouts ==
    ASSUME NEW p \in Pictures, Asserted(p, FirstLayout(p))
    PROVE  WellLaid(p, FirstLayout(p))
<1>1. FirstLayout(p) \in {LayoutOfOne(p), LayoutOfSuperblocks(p), FastLayout(p)}
    BY PictureTypes DEF FirstLayout, CopyLayout
<1> QED
    BY <1>1, LayoutsOfOne, LayoutsOfSuperblocks, FastLayouts

LEMMA LayoutInvInitially == CopyInit => LayoutInv
BY DEF CopyInit, LayoutInv

LEMMA LayoutInvIsKept ==
    ASSUME LayoutInv, [CopyNext]_copyVars
    PROVE  LayoutInv'
<1>1. CASE LayTiles
    <2>1. picture' = picture /\ picture \in Pictures
        BY <1>1 DEF LayTiles, LayoutInv
    <2>2. CASE ~Asserted(picture, FirstLayout(picture))
        BY <1>1, <2>1, <2>2 DEF LayTiles, LayoutInv
    <2>3. CASE Asserted(picture, FirstLayout(picture))
        <3>1. phase' \in {"search", "header"} /\ layout' = FirstLayout(picture)
            BY <1>1, <2>3 DEF LayTiles
        <3> QED
            BY <2>1, <2>3, <3>1, FirstLayouts DEF LayoutInv
    <2> QED
        BY <2>2, <2>3
<1>2. CASE VisitBlock
    BY <1>2 DEF VisitBlock, LayoutInv
<1>3. CASE KeepCopies
    <2>1. CASE \E b \in DOMAIN copies : copies[b].vector \in {Above, Left}
        BY <1>3, <2>1 DEF KeepCopies, LayoutInv
    <2>2. CASE ~\E b \in DOMAIN copies : copies[b].vector \in {Above, Left}
        <3>1. /\ phase' = IF Asserted(picture, FastLayout(picture)) THEN "header" ELSE "panicked"
              /\ layout' = FastLayout(picture) /\ picture' = picture
            BY <1>3, <2>2 DEF KeepCopies
        <3>2. picture \in Pictures
            BY DEF LayoutInv
        <3> QED
            BY <3>1, <3>2, FastLayouts DEF LayoutInv
    <2> QED
        BY <2>1, <2>2
<1>4. CASE WriteHeader
    BY <1>4 DEF WriteHeader, LayoutInv
<1>5. CASE CodeBlock
    BY <1>5 DEF CodeBlock, LayoutInv
<1>6. CASE UNCHANGED copyVars
    BY <1>6 DEF copyVars, LayoutInv
<1> QED
    BY <1>1, <1>2, <1>3, <1>4, <1>5, <1>6 DEF CopyNext

LEMMA HeadersTellTheTiles ==
    ASSUME LayoutInv, [CopyNext]_copyVars
    PROVE  TilesAreFound
<1> SUFFICES ASSUME tileInfo' # tileInfo PROVE TilesAreFound
    BY DEF TilesAreFound
<1>1. WriteHeader
    BY DEF CopyNext, LayTiles, VisitBlock, KeepCopies, CodeBlock, copyVars
<1>2. tileInfo' = TileInfo(layout) /\ picture \in Pictures /\ WellLaid(picture, layout)
    BY <1>1 DEF WriteHeader, LayoutInv
<1>3. /\ ReadTiles(picture, tileInfo').cols = layout.cols
      /\ ReadTiles(picture, tileInfo').rows = layout.rows
      /\ ReadTiles(picture, tileInfo').length = Len(tileInfo')
    BY <1>2, HeaderIsRead
<1>4. NoneTooWide(picture, layout)
    BY <1>2, NoTileIsTooWide
<1> QED
    BY <1>3, <1>4 DEF TilesAreFound

\* Every picture whose layout holds what the encoder asserts has tiles a decoder
\* finds: from the flags of the header (write_mvp_tile_info) and the picture's own
\* limits it works out the columns and rows the writer has, reads no flag more or
\* less than were written, and no tile is wider than the level allows. It is so
\* for one tile, for a tile for each superblock and for the tiles of the threads.
THEOREM TilesAreRead == CopySpec => [][TilesAreFound]_copyVars
<1>1. LayoutInv /\ [CopyNext]_copyVars => TilesAreFound
    BY HeadersTellTheTiles
<1>2. LayoutInv /\ [CopyNext]_copyVars => LayoutInv'
    BY LayoutInvIsKept
<1> QED
    BY <1>1, <1>2, LayoutInvInitially, PTL DEF CopySpec

-----------------------------------------------------------------------------
(* The range of a coder through literals, uniform values and symbols         *)

\* A coder with a range, whatever else it has.
HasRange(c, r) == "rng" \in DOMAIN c /\ c.rng = r

LEMMA WordsKeepTheRange ==
    ASSUME NEW c, NEW word, NEW r, HasRange(c, r)
    PROVE  HasRange(PushWord(c, word), r)
<1> DEFINE queue == Append(c.pending, word)
           k == IF Len(queue) >= FlushThreshold THEN SettledBytes(queue) ELSE 0
           words == Append(c.words, word)
           pending == SubSeq(queue, k + 1, Len(queue))
           bytes == c.bytes \o SubSeq(WithCarry(queue, 0), 1, k)
<1>1. PushWord(c, word) = [c EXCEPT !.words = words, !.pending = pending, !.bytes = bytes]
    BY DEF PushWord
<1> HIDE DEF words, pending, bytes
<1> QED
    BY <1>1 DEF HasRange

LEMMA RangeIsSet ==
    ASSUME NEW c, NEW r, HasRange(c, r), NEW low, NEW rng, NEW cnt
    PROVE  HasRange([c EXCEPT !.low = low, !.rng = rng, !.cnt = cnt], rng)
BY DEF HasRange

LEMMA NormalizeSetsTheRange ==
    ASSUME NEW c, NEW r, HasRange(c, r), NEW low, NEW rng, NEW bypass
    PROVE  HasRange(Normalize(c, low, rng, bypass), rng * 2^(IF bypass > 0 THEN 0 ELSE 16 - BitLength(rng)))
<1> DEFINE d == IF bypass > 0 THEN 0 ELSE 16 - BitLength(rng)
           count == c.cnt + bypass
           two == count + d >= 8
           b1 == count + 16
           c1 == IF two THEN PushWord(c, low \div 2^b1) ELSE c
           low1 == IF two THEN low % 2^b1 ELSE low
           b2 == IF two THEN b1 - 8 ELSE b1
           c2 == PushWord(c1, low1 \div 2^b2)
<1>1. Normalize(c, low, rng, bypass) =
        IF count + d < 0
        THEN [c EXCEPT !.low = low * 2^d, !.rng = rng * 2^d, !.cnt = count + d]
        ELSE [c2 EXCEPT !.low = (low1 % 2^b2) * 2^d, !.rng = rng * 2^d, !.cnt = b2 + d - 24]
    BY DEF Normalize
<1>2. HasRange(c1, r) /\ HasRange(c2, r)
    <2> HIDE DEF two, b1, low1, b2
    <2>1. HasRange(c1, r)
        BY WordsKeepTheRange
    <2> HIDE DEF c1
    <2> QED
        BY <2>1, WordsKeepTheRange
<1> HIDE DEF count, d, c2, low1, b2
<1> QED
    <2>1. HasRange([c EXCEPT !.low = low * 2^d, !.rng = rng * 2^d, !.cnt = count + d], rng * 2^d)
        BY RangeIsSet
    <2>2. HasRange([c2 EXCEPT !.low = (low1 % 2^b2) * 2^d, !.rng = rng * 2^d, !.cnt = b2 + d - 24], rng * 2^d)
        BY <1>2, RangeIsSet
    <2> QED
        BY <1>1, <2>1, <2>2 DEF d

\* All that a range is less than, between two symbols.
AllOfIt == 65536

LEMMA AllOfItIs ==
    /\ AllOfIt \in Nat /\ \A k : k = 16 => Power(k) = AllOfIt
    /\ \A n \in Int : n \in Ranges <=> AllOfIt <= 2 * n /\ n < AllOfIt
<1>1. AllOfIt \in Nat /\ 2^16 = AllOfIt
    BY SMT DEF AllOfIt
<1>2. \A n \in Int : n \in Ranges <=> AllOfIt <= 2 * n /\ n < AllOfIt
    BY SMT DEF AllOfIt, Ranges
<1> QED
    BY <1>1, <1>2 DEF Power

LEMMA PowersComplete ==
    ASSUME NEW k \in 0..16
    PROVE  Power(k) * Power(16 - k) = AllOfIt
<1> DEFINE T == {j \in 0..16 : Power(j) * Power(16 - j) = AllOfIt}
<1>1. ASSUME NEW j, j = 0 PROVE j \in T
    <2>1. Power(j) = 1 /\ 16 - j = 16 /\ Power(16 - j) = AllOfIt /\ AllOfIt \in Nat
        BY <1>1, FirstPower, AllOfItIs
    <2> QED
        BY <1>1, <2>1
<1>2. ASSUME NEW j \in 1..16, j - 1 \in T PROVE j \in T
    <2>1. PICK a \in Nat, b \in Nat : a = Power(j - 1) /\ b = Power(16 - j)
        <3>1. j - 1 \in 0..31 /\ 16 - j \in 0..31
            OBVIOUS
        <3> QED
            BY <3>1, PowersArePositive
    <2>2. Power(j) = 2 * a
        <3>1. j \in 1..31
            OBVIOUS
        <3> QED
            BY <2>1, <3>1, PowersDouble
    <2>3. Power(16 - (j - 1)) = 2 * b
        <3>1. 16 - (j - 1) \in 1..31 /\ (16 - (j - 1)) - 1 = 16 - j
            OBVIOUS
        <3> QED
            BY <2>1, <3>1, PowersDouble
    <2>4. a * (2 * b) = AllOfIt
        BY <1>2, <2>1, <2>3
    <2>5. (2 * a) * b = AllOfIt
        BY <2>4
    <2> QED
        BY <2>1, <2>2, <2>5
<1> HIDE DEF T
<1>3. \A j \in 0..16 : j \in T
    BY <1>1, <1>2, IndexInduction
<1> QED
    BY <1>3 DEF T

\* normalize shifts a range until its highest bit is the sixteenth.
LEMMA BitLengthIs ==
    ASSUME NEW n \in Nat, 0 < n, n < AllOfIt
    PROVE  /\ BitLength(n) \in 1..16
           /\ Power(BitLength(n) - 1) <= n /\ n < Power(BitLength(n))
<1>1. PICK k \in 0..16 : Enough(1, k, n + 1)
    <2>1. 16 \in 0..31 /\ 1 \in Nat /\ n + 1 \in Nat
        OBVIOUS
    <2>2. 1 * Power(16) >= n + 1
        BY AllOfItIs
    <2> QED
        BY <2>1, <2>2, LeastExponent
<1> DEFINE Is(j) == n < Power(j) /\ (j = 0 \/ n >= Power(j - 1))
<1>2. k \in 0..31 /\ Is(k)
    <2>1. Power(k) \in Nat /\ (k # 0 => Power(k - 1) \in Nat)
        BY PowersArePositive
    <2> QED
        BY <1>1, <2>1 DEF Enough
<1>3. BitLength(n) = CHOOSE j \in 0..31 : Is(j)
    BY DEF BitLength, Power
<1>4. ASSUME NEW j \in 0..31, Is(j) PROVE j \in 1..16
    <2>1. j # 0
        <3>1. SUFFICES ASSUME j = 0 PROVE FALSE
            OBVIOUS
        <3> QED
            BY <1>4, <3>1, FirstPower
    <2>2. CASE 16 < j
        <3>1. Power(16) <= Power(j - 1) /\ Power(16) = AllOfIt /\ Power(j - 1) \in Nat
            <4>1. 16 \in 0..31 /\ j - 1 \in 0..31 /\ 16 <= j - 1
                BY <2>2
            <4> QED
                BY <4>1, PowersGrow, AllOfItIs, PowersArePositive
        <3> QED
            BY <1>4, <2>1, <3>1, AllOfItIs
    <2> QED
        BY <2>1, <2>2
<1> HIDE DEF Is
<1>5. BitLength(n) \in 0..31 /\ Is(BitLength(n))
    BY <1>2, <1>3
<1>6. BitLength(n) \in 1..16
    BY <1>4, <1>5
<1> QED
    BY <1>5, <1>6 DEF Is

LEMMA NormalizedIsARange ==
    ASSUME NEW n \in Nat, 0 < n, n < AllOfIt
    PROVE  n * Power(16 - BitLength(n)) \in Ranges
<1>1. PICK k \in 1..16 : k = BitLength(n) /\ Power(k - 1) <= n /\ n < Power(k)
    BY BitLengthIs
<1>2. PICK half \in Nat, rest \in Nat : half = Power(k - 1) /\ rest = Power(16 - k) /\ rest > 0
    <2>1. k - 1 \in 0..31 /\ 16 - k \in 0..31
        OBVIOUS
    <2> QED
        BY <2>1, PowersArePositive
<1>3. Power(k) = 2 * half
    <2>1. k \in 1..31
        OBVIOUS
    <2> QED
        BY <1>2, <2>1, PowersDouble
<1>4. (2 * half) * rest = AllOfIt
    <2>1. k \in 0..16
        OBVIOUS
    <2> QED
        BY <1>2, <1>3, <2>1, PowersComplete
<1>5. half * rest <= n * rest /\ n * rest + rest <= (2 * half) * rest /\ n * rest \in Nat
    <2>1. half <= n /\ n < 2 * half /\ 2 * half \in Nat
        BY <1>1, <1>2, <1>3
    <2> QED
        BY <2>1, Multiples
<1>6. (2 * half) * rest = 2 * (half * rest) /\ half * rest \in Nat
    OBVIOUS
<1> HIDE DEF Ranges, AllOfIt
<1>7. n * rest \in Ranges
    BY <1>2, <1>4, <1>5, <1>6, AllOfItIs
<1> QED
    BY <1>1, <1>2, <1>7

LEMMA RangesAreNormal ==
    ASSUME NEW n \in Ranges
    PROVE  n \in Nat /\ 0 < n /\ n < AllOfIt /\ BitLength(n) = 16
<1>1. n \in Nat /\ 0 < n /\ n < AllOfIt /\ AllOfIt <= 2 * n
    BY SMT DEF Ranges, AllOfIt
<1>2. PICK k \in 1..16 : k = BitLength(n) /\ n < Power(k)
    BY <1>1, BitLengthIs
<1>3. CASE k < 16
    <2>1. 2 * Power(k) <= Power(16) /\ Power(16) = AllOfIt /\ Power(k) \in Nat
        <3>1. k \in 0..31 /\ 16 \in 0..31
            OBVIOUS
        <3> QED
            BY <1>3, <3>1, PowersGrow, AllOfItIs, PowersArePositive
    <2>2. PICK p \in Nat, all \in Nat : p = Power(k) /\ all = AllOfIt
        BY <2>1, AllOfItIs
    <2>3. n < p /\ 2 * p <= all /\ all <= 2 * n /\ n \in Nat
        BY <1>1, <1>2, <2>1, <2>2
    <2> QED
        BY <2>3
<1> QED
    BY <1>1, <1>2, <1>3


LEMMA BypassKeepsTheRange ==
    ASSUME NEW c, NEW r \in Ranges, HasRange(c, r), NEW value, NEW bits
    PROVE  HasRange(Bypass(c, value, bits), r)
<1>1. PICK shift, rng : shift = (IF bits > 0 THEN 0 ELSE 16 - BitLength(c.rng)) /\ rng = r * 2^shift
    OBVIOUS
<1>2. c.rng = r /\ shift = 0
    BY <1>1, RangesAreNormal DEF HasRange
<1>3. rng = r
    BY <1>1, <1>2, FirstPower, RangesAreNormal DEF Power
<1> QED
    BY <1>1, <1>2, <1>3, NormalizeSetsTheRange DEF Bypass

\* However many chunks a literal takes.
LEMMA LiteralKeepsTheRange ==
    ASSUME NEW c, NEW r \in Ranges, HasRange(c, r), NEW value, NEW bits \in Nat
    PROVE  HasRange(LiteralBits(c, value, bits), r)
<1> DEFINE chunks == (bits + LiteralChunk - 1) \div LiteralChunk
           left(k) == IF LiteralChunk * k < bits THEN bits - LiteralChunk * k ELSE 0
           next(k, before) == LET n == left(k - 1) - left(k)
                              IN  Bypass(before, (value \div 2^left(k)) % 2^n, n)
           Steps(f, m) == f = [k \in 0..m |-> IF k = 0 THEN c ELSE next(k, f[k - 1])]
<1>1. chunks \in Nat
    <2>1. LiteralChunk \in Nat \ {0} /\ bits + LiteralChunk - 1 \in Nat
        BY RangeCoderAssumption DEF RangeCoderAssumption
    <2> QED
        BY <2>1, Division
<1>2. ASSUME NEW k, NEW before, HasRange(before, r) PROVE HasRange(next(k, before), r)
    BY <1>2, BypassKeepsTheRange
<1>3. LiteralBits(c, value, bits) = (CHOOSE f : Steps(f, chunks))[chunks]
    BY DEF LiteralBits
<1> HIDE DEF chunks, next
<1>4. \E f : Steps(f, chunks)
    <2> DEFINE T == {m \in 0..chunks : \E f : Steps(f, m)}
    <2>1. 0 \in T
        <3>1. \E f : Steps(f, 0)
            <4> DEFINE f == [k \in 0..0 |-> c]
            <4>1. \A k \in 0..0 : k = 0
                OBVIOUS
            <4>2. f = [k \in 0..0 |-> IF k = 0 THEN c ELSE next(k, f[k - 1])]
                BY <4>1
            <4> QED
                BY <4>2
        <3>2. 0 \in 0..chunks
            BY <1>1
        <3> HIDE DEF Steps
        <3> QED
            BY <3>1, <3>2
    <2>2. ASSUME NEW m \in 1..chunks, m - 1 \in T PROVE m \in T
        <3>1. PICK f : Steps(f, m - 1)
            BY <2>2
        <3> DEFINE g == [k \in 0..m |-> IF k = m THEN next(m, f[m - 1]) ELSE f[k]]
        <3>2. ASSUME NEW k \in 0..m PROVE g[k] = IF k = 0 THEN c ELSE next(k, g[k - 1])
            <4>1. CASE k = m
                <5>1. k # 0 /\ k - 1 \in 0..m /\ k - 1 # m
                    BY <1>1, <4>1
                <5>2. g[k] = next(m, f[m - 1]) /\ g[k - 1] = f[m - 1]
                    BY <4>1, <5>1
                <5> QED
                    BY <4>1, <5>1, <5>2
            <4>2. CASE k # m
                <5>1. k \in 0..(m - 1) /\ k - 1 # m /\ (k # 0 => k - 1 \in 0..m)
                    BY <1>1, <4>2
                <5>2. f[k] = IF k = 0 THEN c ELSE next(k, f[k - 1])
                    BY <3>1, <5>1
                <5>3. g[k] = f[k] /\ (k # 0 => g[k - 1] = f[k - 1])
                    BY <4>2, <5>1
                <5> QED
                    BY <5>2, <5>3
            <4> QED
                BY <4>1, <4>2
        <3>3. g = [k \in 0..m |-> g[k]]
            OBVIOUS
        <3> HIDE DEF g
        <3>4. g = [k \in 0..m |-> IF k = 0 THEN c ELSE next(k, g[k - 1])]
            BY <3>2, <3>3
        <3> QED
            BY <3>4
    <2> HIDE DEF T
    <2>3. chunks \in T
        BY <1>1, <2>1, <2>2, IndexInduction
    <2> QED
        BY <2>3 DEF T
<1>5. PICK f : f = (CHOOSE g : Steps(g, chunks)) /\ Steps(f, chunks)
    BY <1>4
<1>6. HasRange(f[chunks], r)
    <2>0. \A k \in 0..chunks : f[k] = IF k = 0 THEN c ELSE next(k, f[k - 1])
        BY <1>5
    <2> DEFINE T == {k \in 0..chunks : HasRange(f[k], r)}
    <2>1. 0 \in T
        <3>1. 0 \in 0..chunks
            BY <1>1
        <3>2. f[0] = c
            BY <2>0, <3>1
        <3> QED
            BY <3>1, <3>2
    <2>2. ASSUME NEW k \in 1..chunks, k - 1 \in T PROVE k \in T
        <3>1. k \in 0..chunks /\ k # 0 /\ f[k] = next(k, f[k - 1])
            BY <1>1, <2>0
        <3> QED
            BY <1>2, <2>2, <3>1
    <2> HIDE DEF T
    <2>3. chunks \in T
        BY <1>1, <2>1, <2>2, IndexInduction
    <2> QED
        BY <2>3 DEF T
<1> QED
    BY <1>3, <1>5, <1>6

LEMMA UniformKeepsTheRange ==
    ASSUME NEW c, NEW r \in Ranges, HasRange(c, r), NEW n \in UniformCounts, NEW value
    PROVE  HasRange(UniformValue(c, n, value), r)
<1>1. n \in Nat /\ 0 < n /\ n < AllOfIt
    BY SMT DEF AllOfIt, UniformCounts
<1>2. PICK bits \in Nat : bits = BitLength(n) - 1
    <2>1. BitLength(n) \in 1..16
        BY <1>1, BitLengthIs
    <2> QED
        BY <2>1
<1> DEFINE m == 2^BitLength(n) - n
           short == LiteralBits(c, value, bits)
           long == LiteralBits(c, m + (value - m) \div 2, bits)
<1>3. UniformValue(c, n, value) = IF value < m THEN short ELSE Bypass(long, (value - m) % 2, 1)
    BY <1>2 DEF UniformValue
<1>4. HasRange(short, r) /\ HasRange(long, r)
    BY LiteralKeepsTheRange
<1> HIDE DEF short, long, m
<1>5. HasRange(Bypass(long, (value - m) % 2, 1), r)
    BY <1>4, BypassKeepsTheRange
<1> QED
    BY <1>3, <1>4, <1>5

-----------------------------------------------------------------------------
(* A distribution stays one when it is adapted                               *)

\* What keeps the intervals apart falls with each symbol.
Increasing(row, n) ==
    /\ \A i \in 1..n : row[i] \in 0..15
    /\ \A i \in 1 .. n - 1 : row[i + 1] < row[i]
    /\ row[n] = 0

LEMMA IncrementsFall ==
    ASSUME NEW n \in 2..16
    PROVE  Increasing(ProbInc[n - 1], n)
<1>1. CASE n = 2
    BY <1>1, SMT DEF ProbInc, Increasing
<1>2. CASE n = 3
    BY <1>2, SMT DEF ProbInc, Increasing
<1>3. CASE n = 4
    BY <1>3, SMT DEF ProbInc, Increasing
<1>4. CASE n = 5
    BY <1>4, SMT DEF ProbInc, Increasing
<1>5. CASE n = 6
    BY <1>5, SMT DEF ProbInc, Increasing
<1>6. CASE n = 7
    BY <1>6, SMT DEF ProbInc, Increasing
<1>7. CASE n = 8
    BY <1>7, SMT DEF ProbInc, Increasing
<1>8. CASE n = 9
    BY <1>8, SMT DEF ProbInc, Increasing
<1>9. CASE n = 10
    BY <1>9, SMT DEF ProbInc, Increasing
<1>10. CASE n = 11
    BY <1>10, SMT DEF ProbInc, Increasing
<1>11. CASE n = 12
    BY <1>11, SMT DEF ProbInc, Increasing
<1>12. CASE n = 13
    BY <1>12, SMT DEF ProbInc, Increasing
<1>13. CASE n = 14
    BY <1>13, SMT DEF ProbInc, Increasing
<1>14. CASE n = 15
    BY <1>14, SMT DEF ProbInc, Increasing
<1>15. CASE n = 16
    BY <1>15, SMT DEF ProbInc, Increasing
<1> QED
    BY <1>1, <1>2, <1>3, <1>4, <1>5, <1>6, <1>7, <1>8, <1>9, <1>10, <1>11, <1>12, <1>13, <1>14, <1>15


LEMMA ProbTopIs ==
    /\ ProbTop \in Nat /\ \A v \in 0 .. ProbTop - 1 : v \in Nat /\ v < ProbTop
    /\ 0 \in 0 .. ProbTop - 1
BY SMT DEF ProbTop

\* One value, and two of them, after an adaptation.
Moves(a, b, rate) ==
    /\ Raised(a, rate) \in 0 .. ProbTop - 1 /\ Lowered(a, rate) \in 0 .. ProbTop - 1
    /\ Raised(a, rate) <= Raised(b, rate)
    /\ Lowered(a, rate) <= Lowered(b, rate)
    /\ Lowered(a, rate) <= Raised(b, rate)

LEMMA Adapted ==
    ASSUME NEW a \in 0 .. ProbTop - 1, NEW b \in 0 .. ProbTop - 1, a <= b, NEW rate \in 2..8
    PROVE  Moves(a, b, rate)
<1>1. PICK top \in Nat : top = ProbTop /\ a \in Nat /\ b \in Nat /\ a < top /\ b < top
    BY ProbTopIs
<1>2. CASE rate = 2
    <2>1. /\ Raised(a, rate) = a + (top - a) \div 4 /\ Lowered(a, rate) = a - a \div 4
          /\ Raised(b, rate) = b + (top - b) \div 4 /\ Lowered(b, rate) = b - b \div 4
        BY <1>1, <1>2 DEF Raised, Lowered, TwoTo
    <2>2. /\ a + (top - a) \div 4 \in 0 .. top - 1 /\ a - a \div 4 \in 0 .. top - 1
          /\ a + (top - a) \div 4 <= b + (top - b) \div 4
          /\ a - a \div 4 <= b - b \div 4
          /\ a - a \div 4 <= b + (top - b) \div 4
        BY <1>1
    <2> QED
        BY <1>1, <2>1, <2>2 DEF Moves
<1>3. CASE rate = 3
    <2>1. /\ Raised(a, rate) = a + (top - a) \div 8 /\ Lowered(a, rate) = a - a \div 8
          /\ Raised(b, rate) = b + (top - b) \div 8 /\ Lowered(b, rate) = b - b \div 8
        BY <1>1, <1>3 DEF Raised, Lowered, TwoTo
    <2>2. /\ a + (top - a) \div 8 \in 0 .. top - 1 /\ a - a \div 8 \in 0 .. top - 1
          /\ a + (top - a) \div 8 <= b + (top - b) \div 8
          /\ a - a \div 8 <= b - b \div 8
          /\ a - a \div 8 <= b + (top - b) \div 8
        BY <1>1
    <2> QED
        BY <1>1, <2>1, <2>2 DEF Moves
<1>4. CASE rate = 4
    <2>1. /\ Raised(a, rate) = a + (top - a) \div 16 /\ Lowered(a, rate) = a - a \div 16
          /\ Raised(b, rate) = b + (top - b) \div 16 /\ Lowered(b, rate) = b - b \div 16
        BY <1>1, <1>4 DEF Raised, Lowered, TwoTo
    <2>2. /\ a + (top - a) \div 16 \in 0 .. top - 1 /\ a - a \div 16 \in 0 .. top - 1
          /\ a + (top - a) \div 16 <= b + (top - b) \div 16
          /\ a - a \div 16 <= b - b \div 16
          /\ a - a \div 16 <= b + (top - b) \div 16
        BY <1>1
    <2> QED
        BY <1>1, <2>1, <2>2 DEF Moves
<1>5. CASE rate = 5
    <2>1. /\ Raised(a, rate) = a + (top - a) \div 32 /\ Lowered(a, rate) = a - a \div 32
          /\ Raised(b, rate) = b + (top - b) \div 32 /\ Lowered(b, rate) = b - b \div 32
        BY <1>1, <1>5 DEF Raised, Lowered, TwoTo
    <2>2. /\ a + (top - a) \div 32 \in 0 .. top - 1 /\ a - a \div 32 \in 0 .. top - 1
          /\ a + (top - a) \div 32 <= b + (top - b) \div 32
          /\ a - a \div 32 <= b - b \div 32
          /\ a - a \div 32 <= b + (top - b) \div 32
        BY <1>1
    <2> QED
        BY <1>1, <2>1, <2>2 DEF Moves
<1>6. CASE rate = 6
    <2>1. /\ Raised(a, rate) = a + (top - a) \div 64 /\ Lowered(a, rate) = a - a \div 64
          /\ Raised(b, rate) = b + (top - b) \div 64 /\ Lowered(b, rate) = b - b \div 64
        BY <1>1, <1>6 DEF Raised, Lowered, TwoTo
    <2>2. /\ a + (top - a) \div 64 \in 0 .. top - 1 /\ a - a \div 64 \in 0 .. top - 1
          /\ a + (top - a) \div 64 <= b + (top - b) \div 64
          /\ a - a \div 64 <= b - b \div 64
          /\ a - a \div 64 <= b + (top - b) \div 64
        BY <1>1
    <2> QED
        BY <1>1, <2>1, <2>2 DEF Moves
<1>7. CASE rate = 7
    <2>1. /\ Raised(a, rate) = a + (top - a) \div 128 /\ Lowered(a, rate) = a - a \div 128
          /\ Raised(b, rate) = b + (top - b) \div 128 /\ Lowered(b, rate) = b - b \div 128
        BY <1>1, <1>7 DEF Raised, Lowered, TwoTo
    <2>2. /\ a + (top - a) \div 128 \in 0 .. top - 1 /\ a - a \div 128 \in 0 .. top - 1
          /\ a + (top - a) \div 128 <= b + (top - b) \div 128
          /\ a - a \div 128 <= b - b \div 128
          /\ a - a \div 128 <= b + (top - b) \div 128
        BY <1>1
    <2> QED
        BY <1>1, <2>1, <2>2 DEF Moves
<1>8. CASE rate = 8
    <2>1. /\ Raised(a, rate) = a + (top - a) \div 256 /\ Lowered(a, rate) = a - a \div 256
          /\ Raised(b, rate) = b + (top - b) \div 256 /\ Lowered(b, rate) = b - b \div 256
        BY <1>1, <1>8 DEF Raised, Lowered, TwoTo
    <2>2. /\ a + (top - a) \div 256 \in 0 .. top - 1 /\ a - a \div 256 \in 0 .. top - 1
          /\ a + (top - a) \div 256 <= b + (top - b) \div 256
          /\ a - a \div 256 <= b - b \div 256
          /\ a - a \div 256 <= b + (top - b) \div 256
        BY <1>1
    <2> QED
        BY <1>1, <2>1, <2>2 DEF Moves
<1> QED
    BY <1>2, <1>3, <1>4, <1>5, <1>6, <1>7, <1>8

LEMMA AdaptedIsCdf ==
    ASSUME NEW n \in 2..16, NEW cdf, IsCdf(cdf, n), NEW symbol \in 0 .. n - 1
    PROVE  IsCdf(UpdateCdf(cdf, symbol, n), n)
<1>1. PICK rate \in 2..8 : rate = AdaptationRate(cdf, n)
    <2>1. n + 2 + CountInterval(cdf[n + 1]) \in n + 2 .. n + 4
        BY DEF CountInterval
    <2> QED
        BY <2>1 DEF AdaptationRate, IsCdf
<1> DEFINE new == UpdateCdf(cdf, symbol, n)
<1>2. DOMAIN new = 1 .. n + 4
    BY DEF UpdateCdf, IsCdf
<1>3. ASSUME NEW i \in 1 .. n - 1
      PROVE  new[i] = IF i <= symbol THEN Raised(cdf[i], rate) ELSE Lowered(cdf[i], rate)
    BY <1>1 DEF UpdateCdf, IsCdf
<1>4. new[n] = 0 /\ new[n + 1] \in 0..32 /\ \A i \in n + 2 .. n + 4 : new[i] \in 0..6
    <2>1. new[n] = cdf[n]
        BY DEF UpdateCdf, IsCdf
    <2>2. new[n + 1] = IF cdf[n + 1] < 32 THEN cdf[n + 1] + 1 ELSE cdf[n + 1]
        BY DEF UpdateCdf, IsCdf
    <2>3. \A i \in n + 2 .. n + 4 : new[i] = cdf[i]
        BY DEF UpdateCdf, IsCdf
    <2>4. new[n + 1] \in 0..32
        <3>1. PICK count \in 0..32 : count = cdf[n + 1]
            BY DEF IsCdf
        <3> HIDE DEF new
        <3>2. new[n + 1] = IF count < 32 THEN count + 1 ELSE count
            BY <2>2, <3>1
        <3> QED
            BY <3>1, <3>2
    <2> HIDE DEF new
    <2>5. new[n] = 0
        BY <2>1 DEF IsCdf
    <2>6. \A i \in n + 2 .. n + 4 : new[i] \in 0..6
        BY <2>3 DEF IsCdf
    <2> QED
        BY <2>4, <2>5, <2>6
<1> HIDE DEF new
<1>5. ASSUME NEW i \in 1..n PROVE new[i] \in 0 .. ProbTop - 1
    <2>1. cdf[i] \in 0 .. ProbTop - 1
        BY DEF IsCdf
    <2>2. CASE i = n
        BY <1>4, <2>2, ProbTopIs
    <2>3. CASE i # n
        <3>1. i \in 1 .. n - 1
            BY <2>3
        <3>2. PICK a \in 0 .. ProbTop - 1 : a = cdf[i] /\ a <= a
            BY <2>1, ProbTopIs
        <3>3. Moves(a, a, rate)
            BY <3>2, Adapted
        <3> QED
            BY <1>3, <3>1, <3>2, <3>3 DEF Moves
    <2> QED
        BY <2>2, <2>3
<1>6. ASSUME NEW i \in 1..n, NEW j \in 1..n, i <= j PROVE new[j] <= new[i]
    <2>1. PICK a \in 0 .. ProbTop - 1, b \in 0 .. ProbTop - 1 : a = cdf[j] /\ b = cdf[i] /\ a <= b
        BY <1>6 DEF IsCdf
    <2>2. CASE j = n
        <3>1. new[i] \in 0 .. ProbTop - 1 /\ new[j] = 0
            BY <1>4, <1>5, <2>2
        <3> QED
            BY <3>1, ProbTopIs
    <2>3. CASE j # n
        <3>1. i \in 1 .. n - 1 /\ j \in 1 .. n - 1
            BY <1>6, <2>3
        <3>2. j <= symbol => i <= symbol
            BY <1>6
        <3>3. Moves(a, b, rate)
            BY <2>1, Adapted
        <3> QED
            BY <1>3, <2>1, <3>1, <3>2, <3>3 DEF Moves
    <2> QED
        BY <2>2, <2>3
<1> QED
    BY <1>2, <1>4, <1>5, <1>6 DEF new, IsCdf

-----------------------------------------------------------------------------
(* A distribution divides every range                                        *)

\* A value, a weight as prob_scale makes it from a value and an increment, and a
\* range without its low bits.
Q15 == 0 .. ProbTop - 1
Weights == 0..4095
ShortRanges == 128..255
Weight(p, inc) == (p \div 128) * 16 + inc

LEMMA Q15Are == \A v \in Q15 : v \in Nat
BY ProbTopIs DEF Q15

LEMMA WeightsAre == \A w \in Weights : w \in Nat
BY SMT DEF Weights

LEMMA WeightIs ==
    ASSUME NEW p \in Q15, NEW inc \in 0..15
    PROVE  Weight(p, inc) \in Weights /\ (p = 0 /\ inc = 0 => Weight(p, inc) = 0)
<1>1. p \in Nat /\ p < 32768
    BY SMT DEF ProbTop, Q15
<1>2. p \div 128 \in 0..255 /\ (p = 0 => p \div 128 = 0)
    BY <1>1
<1>3. PICK d \in 0..255 : d = p \div 128 /\ (p = 0 => d = 0)
    BY <1>2
<1>4. d * 16 + inc \in 0..4095 /\ (d = 0 /\ inc = 0 => d * 16 + inc = 0)
    OBVIOUS
<1> QED
    BY <1>3, <1>4 DEF Weight, Weights

LEMMA WeightsFall ==
    ASSUME NEW p \in Q15, NEW q \in Q15, q <= p,
           NEW inc \in 0..15, NEW less \in 0..15, less < inc
    PROVE  Weight(q, less) < Weight(p, inc)
<1>1. p \in Nat /\ q \in Nat
    BY Q15Are
<1>2. q \div 128 <= p \div 128 /\ q \div 128 \in Nat /\ p \div 128 \in Nat
    BY <1>1
<1> QED
    BY <1>2 DEF Weight

LEMMA ShortRange ==
    ASSUME NEW rng \in Ranges
    PROVE  rng \div 256 \in ShortRanges /\ (rng \div 256) * 256 <= rng /\ rng \in Nat
<1>1. rng \in 32768..65535
    BY DEF Ranges
<1>2. rng \in Nat /\ rng \div 256 \in 128..255 /\ (rng \div 256) * 256 <= rng
    BY <1>1, SMT
<1> QED
    BY <1>2 DEF ShortRanges

\* What prob_scale makes of a weight.
ScaleOf(r, w) == ((r * w) \div 128) * 8

LEMMA ScalesAre ==
    ASSUME NEW p, NEW rng, NEW inc
    PROVE  ProbScale(p, rng, inc) = ScaleOf(rng \div 256, Weight(p, inc))
BY Zenon DEF ProbScale, ScaleOf, Weight

LEMMA ScaleOfIs ==
    ASSUME NEW r \in ShortRanges, NEW w \in Weights
    PROVE  ScaleOf(r, w) \in Nat /\ ScaleOf(r, w) < r * 256 /\ (w = 0 => ScaleOf(r, w) = 0)
<1>1. w \in Nat /\ r \in Nat /\ w <= 4095 /\ 0 < r
    BY SMT DEF Weights, ShortRanges
<1>2. PICK x \in Nat : x = r * w /\ x <= r * 4095 /\ (w = 0 => x = 0)
    <2>1. w * r <= 4095 * r /\ w * r \in Nat
        BY <1>1, Multiples, SMT
    <2>2. w * r = r * w /\ 4095 * r = r * 4095 /\ (w = 0 => w * r = 0)
        BY <1>1, SMT
    <2> QED
        BY <2>1, <2>2, SMT
<1>3. (x \div 128) * 8 \in Nat /\ (x \div 128) * 8 < r * 256 /\ (x = 0 => (x \div 128) * 8 = 0)
    BY <1>1, <1>2, SMT
<1> QED
    BY <1>2, <1>3 DEF ScaleOf

LEMMA ScalesOfFall ==
    ASSUME NEW r \in ShortRanges, NEW v \in Weights, NEW w \in Weights, v < w
    PROVE  ScaleOf(r, v) < ScaleOf(r, w)
<1>1. v \in Nat /\ w \in Nat /\ r \in Nat /\ 128 <= r
    BY SMT DEF Weights, ShortRanges
<1>2. PICK x \in Nat, y \in Nat : x = r * w /\ y = r * v /\ y + 128 <= x
    <2>1. v * r + r <= w * r /\ v * r \in Nat /\ w * r \in Nat
        BY <1>1, Multiples
    <2>2. w * r = r * w /\ v * r = r * v
        BY <1>1
    <2> QED
        BY <1>1, <2>1, <2>2
<1>3. (y \div 128) * 8 < (x \div 128) * 8
    BY <1>2
<1> QED
    BY <1>2, <1>3 DEF ScaleOf

\* So the symbols of a distribution divide every range.
Lower(cdf, n, i, rng) == ProbScale(cdf[i], rng, ProbInc[n - 1][i])

LEMMA EndsFall ==
    ASSUME NEW n \in 2..16, NEW cdf, IsCdf(cdf, n), NEW rng \in Ranges, NEW i \in 1..n
    PROVE  /\ Lower(cdf, n, i, rng) \in Nat /\ Lower(cdf, n, i, rng) < rng
           /\ i < n => Lower(cdf, n, i + 1, rng) < Lower(cdf, n, i, rng)
           /\ i = n => Lower(cdf, n, i, rng) = 0
<1>1. Increasing(ProbInc[n - 1], n)
    BY IncrementsFall
<1>2. PICK p \in Q15, inc \in 0..15 :
          p = cdf[i] /\ inc = ProbInc[n - 1][i] /\ (i = n => p = 0 /\ inc = 0)
    BY <1>1 DEF IsCdf, Increasing, Q15
<1>3. PICK r \in ShortRanges, whole \in Nat : r = rng \div 256 /\ whole = rng /\ r * 256 <= whole
    BY ShortRange
<1>4. PICK w \in Weights : w = Weight(p, inc) /\ (i = n => w = 0)
    BY <1>2, WeightIs
<1>5. Lower(cdf, n, i, rng) = ScaleOf(r, w)
    BY <1>2, <1>3, <1>4, ScalesAre DEF Lower
<1>6. ScaleOf(r, w) \in Nat /\ ScaleOf(r, w) < whole /\ (i = n => ScaleOf(r, w) = 0)
    <2>1. PICK scaled \in Nat : scaled = ScaleOf(r, w) /\ scaled < r * 256 /\ (w = 0 => scaled = 0)
        BY ScaleOfIs
    <2>2. r \in Nat
        BY SMT DEF ShortRanges
    <2> QED
        BY <1>3, <1>4, <2>1, <2>2
<1>7. ASSUME i < n PROVE Lower(cdf, n, i + 1, rng) < Lower(cdf, n, i, rng)
    <2>1. i + 1 \in 1..n /\ i \in 1 .. n - 1 /\ i <= i + 1
        BY <1>7
    <2>2. cdf[i + 1] \in Q15 /\ cdf[i + 1] <= cdf[i]
        BY <2>1 DEF IsCdf, Q15
    <2>3. ProbInc[n - 1][i + 1] \in 0..15 /\ ProbInc[n - 1][i + 1] < ProbInc[n - 1][i]
        BY <1>1, <2>1 DEF Increasing
    <2>4. PICK q \in Q15 : q = cdf[i + 1] /\ q <= p
        BY <1>2, <2>2
    <2>5. PICK less \in 0..15 : less = ProbInc[n - 1][i + 1] /\ less < inc
        BY <1>2, <2>3
    <2>6. PICK v \in Weights : v = Weight(q, less) /\ v < w
        BY <1>4, <2>4, <2>5, WeightsFall, WeightIs
    <2>7. Lower(cdf, n, i + 1, rng) = ScaleOf(r, v)
        BY <1>3, <2>4, <2>5, <2>6, ScalesAre DEF Lower
    <2>8. ScaleOf(r, v) < ScaleOf(r, w)
        BY <2>6, ScalesOfFall
    <2> QED
        BY <1>5, <2>7, <2>8
<1> QED
    BY <1>3, <1>5, <1>6, <1>7

LEMMA EndsAre ==
    ASSUME NEW n \in 2..16, NEW cdf, IsCdf(cdf, n), NEW rng \in Ranges, NEW s \in 0 .. n - 1
    PROVE  /\ LowerEnd(cdf, n, s, rng) = Lower(cdf, n, s + 1, rng)
           /\ UpperEnd(cdf, n, s, rng) = IF s = 0 THEN rng ELSE Lower(cdf, n, s, rng)
<1>1. LowerEnd(cdf, n, s, rng) = Lower(cdf, n, s + 1, rng)
    BY DEF LowerEnd, Lower
<1>2. CASE s # 0
    <2>1. s \in 1..n
        BY <1>2
    <2>2. cdf[s] < ProbTop
        BY <2>1, ProbTopIs DEF IsCdf
    <2> QED
        BY <1>1, <1>2, <2>2 DEF UpperEnd, Lower
<1>3. CASE s = 0
    BY <1>1, <1>3 DEF UpperEnd
<1> QED
    BY <1>2, <1>3

LEMMA DistributionsDivide ==
    ASSUME NEW n \in 2..16, NEW cdf, IsCdf(cdf, n), NEW rng \in Ranges
    PROVE  Divides(cdf, n, rng)
<1>1. rng \in Nat
    BY RangesAreNormal
<1>2. UpperEnd(cdf, n, 0, rng) = rng /\ LowerEnd(cdf, n, n - 1, rng) = 0
    <2>1. 0 \in 0 .. n - 1 /\ n - 1 \in 0 .. n - 1 /\ n \in 1..n /\ (n - 1) + 1 = n
        OBVIOUS
    <2> QED
        BY <2>1, EndsAre, EndsFall
<1>3. ASSUME NEW s \in 0 .. n - 1 PROVE LowerEnd(cdf, n, s, rng) < UpperEnd(cdf, n, s, rng)
    <2>1. s + 1 \in 1..n /\ (s # 0 => s \in 1..n /\ s < n)
        OBVIOUS
    <2> QED
        BY <2>1, EndsAre, EndsFall
<1>4. ASSUME NEW s \in 1 .. n - 1 PROVE UpperEnd(cdf, n, s, rng) = LowerEnd(cdf, n, s - 1, rng)
    <2>1. s \in 0 .. n - 1 /\ s # 0 /\ s - 1 \in 0 .. n - 1 /\ (s - 1) + 1 = s
        OBVIOUS
    <2> QED
        BY <2>1, EndsAre
<1> QED
    BY <1>2, <1>3, <1>4 DEF Divides

LEMMA SymbolKeepsARange ==
    ASSUME NEW c, NEW r \in Ranges, HasRange(c, r), NEW n \in 2..16, NEW cdf, IsCdf(cdf, n), NEW symbol \in 0 .. n - 1
    PROVE  \E next \in Ranges : HasRange(CodeSymbol(c, cdf, n, symbol), next)
<1>1. PICK u \in Nat, v \in Nat :
          /\ u = UpperEnd(cdf, n, symbol, r) /\ v = LowerEnd(cdf, n, symbol, r)
          /\ v < u /\ u <= r
    <2>1. symbol + 1 \in 1..n /\ (symbol # 0 => symbol \in 1..n /\ symbol < n) /\ r \in Nat
        BY RangesAreNormal
    <2> QED
        BY <2>1, EndsAre, EndsFall
<1>2. u - v \in Nat /\ 0 < u - v /\ u - v < AllOfIt
    BY <1>1, RangesAreNormal, AllOfItIs
<1>3. (u - v) * Power(16 - BitLength(u - v)) \in Ranges
    BY <1>2, NormalizedIsARange
<1>4. c.rng = r
    BY DEF HasRange
<1>5. CodeSymbol(c, cdf, n, symbol) = Normalize(c, c.low + (r - u), u - v, 0)
    BY <1>1, <1>4 DEF CodeSymbol
<1>6. HasRange(Normalize(c, c.low + (r - u), u - v, 0), (u - v) * 2^(16 - BitLength(u - v)))
    <2>1. ~(0 > 0)
        OBVIOUS
    <2> QED
        BY <2>1, NormalizeSetsTheRange
<1> QED
    BY <1>3, <1>5, <1>6 DEF Power

-----------------------------------------------------------------------------
(* The entries of the writer and the places they are found at.               *)

LEMMA AppendedSequence ==
    ASSUME NEW S, NEW s \in Seq(S), NEW e
    PROVE  /\ Append(s, e) \in Seq(S \cup {e}) /\ Len(Append(s, e)) = Len(s) + 1
           /\ Append(s, e)[Len(s) + 1] = e
           /\ \A i \in 1..Len(s) : Append(s, e)[i] = s[i]
<1>1. s \in Seq(S \cup {e}) /\ e \in S \cup {e}
    OBVIOUS
<1> QED
    BY <1>1

LEMMA ChangedSequence ==
    ASSUME NEW S, NEW s \in Seq(S), NEW at \in 1..Len(s), NEW e
    PROVE  /\ [s EXCEPT ![at] = e] \in Seq(S \cup {e}) /\ Len([s EXCEPT ![at] = e]) = Len(s)
           /\ [s EXCEPT ![at] = e][at] = e
           /\ \A i \in 1..Len(s) : i # at => [s EXCEPT ![at] = e][i] = s[i]
<1>1. s \in Seq(S \cup {e}) /\ e \in S \cup {e}
    OBVIOUS
<1> QED
    BY <1>1

\* An entry holds a distribution over the symbols it was made for.
IsEntry(e) == /\ "cdf" \in DOMAIN e /\ "n" \in DOMAIN e
              /\ e.n \in 2..16 /\ IsCdf(e.cdf, e.n)

\* The entries of a store, and for each static key the one with its symbols.
StaticPlace(cdfs, key, at) ==
    /\ at \in 1..Len(cdfs)
    /\ \A call \in Calls : call.kind = "static" /\ call.key = key => cdfs[at].n = call.n

IsStore(cdfs, statics) ==
    /\ \E S : cdfs \in Seq(S)
    /\ \A i \in 1..Len(cdfs) : IsEntry(cdfs[i])
    /\ \A key \in DOMAIN statics : StaticPlace(cdfs, key, statics[key])

Keeps(s) == "cdfs" \in DOMAIN s /\ "statics" \in DOMAIN s /\ IsStore(s.cdfs, s.statics)

LEMMA EntriesAreAdded ==
    ASSUME NEW cdfs, NEW statics, IsStore(cdfs, statics), NEW e, IsEntry(e)
    PROVE  /\ IsStore(Append(cdfs, e), statics)
           /\ Len(Append(cdfs, e)) = Len(cdfs) + 1 /\ Len(cdfs) \in Nat
           /\ Append(cdfs, e)[Len(cdfs) + 1] = e
<1>1. PICK S : cdfs \in Seq(S)
    BY DEF IsStore
<1>2. PICK more : more = Append(cdfs, e)
    OBVIOUS
<1>3. /\ more \in Seq(S \cup {e}) /\ Len(more) = Len(cdfs) + 1 /\ more[Len(cdfs) + 1] = e
      /\ \A i \in 1..Len(cdfs) : more[i] = cdfs[i]
    BY <1>1, <1>2, AppendedSequence
<1>4. Len(cdfs) \in Nat
    BY <1>1
<1>5. ASSUME NEW i \in 1..Len(more) PROVE IsEntry(more[i])
    <2>1. i \in 1..Len(cdfs) \/ i = Len(cdfs) + 1
        BY <1>3, <1>4
    <2>2. CASE i \in 1..Len(cdfs)
        BY <1>3, <2>2 DEF IsStore
    <2>3. CASE i = Len(cdfs) + 1
        BY <1>3, <2>3
    <2> QED
        BY <2>1, <2>2, <2>3
<1>6. ASSUME NEW key \in DOMAIN statics PROVE StaticPlace(more, key, statics[key])
    <2>1. StaticPlace(cdfs, key, statics[key])
        BY DEF IsStore
    <2>2. statics[key] \in 1..Len(cdfs) /\ statics[key] \in 1..Len(more)
        BY <1>3, <1>4, <2>1 DEF StaticPlace
    <2> QED
        BY <1>3, <2>1, <2>2 DEF StaticPlace
<1> QED
    BY <1>2, <1>3, <1>4, <1>5, <1>6 DEF IsStore

LEMMA EntriesAreChanged ==
    ASSUME NEW cdfs, NEW statics, IsStore(cdfs, statics), NEW at \in 1..Len(cdfs),
           NEW e, IsEntry(e), e.n = cdfs[at].n
    PROVE  IsStore([cdfs EXCEPT ![at] = e], statics)
<1>1. PICK S : cdfs \in Seq(S)
    BY DEF IsStore
<1>2. PICK new : new = [cdfs EXCEPT ![at] = e]
    OBVIOUS
<1>3. /\ new \in Seq(S \cup {e}) /\ Len(new) = Len(cdfs) /\ new[at] = e
      /\ \A i \in 1..Len(cdfs) : i # at => new[i] = cdfs[i]
    BY <1>1, <1>2, ChangedSequence
<1>4. ASSUME NEW i \in 1..Len(new) PROVE IsEntry(new[i]) /\ new[i].n = cdfs[i].n
    BY <1>3 DEF IsStore
<1>5. ASSUME NEW key \in DOMAIN statics PROVE StaticPlace(new, key, statics[key])
    <2>1. StaticPlace(cdfs, key, statics[key])
        BY DEF IsStore
    <2> QED
        BY <1>3, <1>4, <2>1 DEF StaticPlace
<1> QED
    BY <1>2, <1>3, <1>4, <1>5 DEF IsStore

\* Where the distribution of a call is, and that it is one for the call.
IsPlace(place, call) ==
    /\ Keeps(place.store)
    /\ place.index \in 1..Len(place.store.cdfs)
    /\ place.store.cdfs[place.index].n = call.n

\* What is assumed of the calls.
LEMMA SymbolCalls ==
    ASSUME NEW call \in Calls, call.kind \in {"named", "static"}
    PROVE  call.n \in 2..16 /\ call.value \in 0 .. call.n - 1 /\ IsCdf(call.initial, call.n)
<1>1. IsSymbol(call)
    BY CallsAssumption DEF CallsAssumption
<1> QED
    BY <1>1 DEF IsSymbol

LEMMA StaticCalls ==
    ASSUME NEW call \in Calls, NEW other \in Calls, call.kind = "static", other.kind = "static", other.key = call.key
    PROVE  other.n = call.n
BY CallsAssumption DEF CallsAssumption

LEMMA NewEntries ==
    ASSUME NEW call \in Calls, call.kind \in {"named", "static"}, NEW name
    PROVE  IsEntry(NewEntry(name, call)) /\ NewEntry(name, call).n = call.n
<1>0. PICK n \in 2..16 : n = call.n
    BY SymbolCalls
<1>1. PICK initial : initial = call.initial /\ IsCdf(initial, n)
    BY <1>0, SymbolCalls
<1>2. PICK e : e = [name |-> name, key |-> call.key, n |-> n, initial |-> initial, cdf |-> initial]
    OBVIOUS
<1>3. "cdf" \in DOMAIN e /\ "n" \in DOMAIN e /\ e.n = n /\ e.cdf = initial
    BY <1>2
<1>4. NewEntry(name, call) = e
    BY <1>0, <1>1, <1>2 DEF NewEntry
<1> QED
    BY <1>0, <1>1, <1>3, <1>4 DEF IsEntry

LEMMA StaticPlaces ==
    ASSUME NEW s, Keeps(s), NEW call \in Calls, call.kind = "static"
    PROVE  IsPlace(StaticIndex(s, call), call)
<1> DEFINE at == IF call.key \in DOMAIN s.statics THEN s.statics[call.key] ELSE Len(s.cdfs) + 1
           e == NewEntry(NoEntry, call)
           cdfs == IF at > Len(s.cdfs) THEN Append(s.cdfs, e) ELSE s.cdfs
           statics == [k \in DOMAIN s.statics \cup {call.key} |->
                          IF k = call.key THEN at ELSE s.statics[k]]
           new == [s EXCEPT !.cdfs = cdfs, !.statics = statics]
<1>1. StaticIndex(s, call).index = at /\ StaticIndex(s, call).store = new
    BY DEF StaticIndex
<1>2. IsEntry(e) /\ e.n = call.n
    BY NewEntries
<1>3. IsStore(s.cdfs, s.statics) /\ Len(s.cdfs) \in Nat
    <2>1. IsStore(s.cdfs, s.statics)
        BY DEF Keeps
    <2>2. PICK S : s.cdfs \in Seq(S)
        BY <2>1 DEF IsStore
    <2> QED
        BY <2>1, <2>2
<1> HIDE DEF e
<1>4. IsStore(cdfs, s.statics) /\ at \in 1..Len(cdfs) /\ cdfs[at].n = call.n
    <2>1. CASE call.key \in DOMAIN s.statics
        <3>1. StaticPlace(s.cdfs, call.key, at)
            BY <1>3, <2>1 DEF IsStore
        <3>2. at \in 1..Len(s.cdfs) /\ s.cdfs[at].n = call.n
            BY <3>1 DEF StaticPlace
        <3>3. ~(at > Len(s.cdfs))
            BY <1>3, <3>2
        <3> QED
            BY <1>3, <3>2, <3>3
    <2>2. CASE call.key \notin DOMAIN s.statics
        <3>1. at = Len(s.cdfs) + 1 /\ at > Len(s.cdfs)
            BY <1>3, <2>2
        <3>2. cdfs = Append(s.cdfs, e)
            BY <3>1
        <3> HIDE DEF cdfs, at
        <3>3. IsStore(cdfs, s.statics) /\ Len(cdfs) = Len(s.cdfs) + 1 /\ cdfs[Len(s.cdfs) + 1] = e
            BY <1>2, <1>3, <3>2, EntriesAreAdded
        <3> QED
            BY <1>2, <1>3, <3>1, <3>3
    <2> QED
        BY <2>1, <2>2
<1> HIDE DEF cdfs, at
<1>5. ASSUME NEW key \in DOMAIN statics PROVE StaticPlace(cdfs, key, statics[key])
    <2>1. CASE key = call.key
        <3>1. statics[key] = at
            BY <2>1
        <3>2. \A other \in Calls : other.kind = "static" /\ other.key = key => other.n = call.n
            BY <2>1, StaticCalls
        <3> QED
            BY <1>4, <3>1, <3>2 DEF StaticPlace
    <2>2. CASE key # call.key
        <3>1. key \in DOMAIN s.statics /\ statics[key] = s.statics[key]
            BY <2>2
        <3> QED
            BY <1>4, <3>1 DEF IsStore
    <2> QED
        BY <2>1, <2>2
<1>6. IsStore(cdfs, statics)
    <2> HIDE DEF statics
    <2> QED
        BY <1>4, <1>5 DEF IsStore
<1> HIDE DEF statics
<1>7. new.cdfs = cdfs /\ new.statics = statics /\ "cdfs" \in DOMAIN new /\ "statics" \in DOMAIN new
    BY DEF Keeps
<1> HIDE DEF new
<1> QED
    BY <1>1, <1>4, <1>6, <1>7 DEF IsPlace, Keeps

\* Finding the name of an address leaves the entries as they are.
LEMMA NamesAreApart ==
    ASSUME NEW s, Keeps(s), NEW address
    PROVE  Keeps(NameIndex(s, address).store) /\ NameIndex(s, address).store.cdfs = s.cdfs
<1> DEFINE known(p) == p \in DOMAIN s.addresses /\ s.addresses[p].address = address
           seen == SelectInSeq(s.addresses, LAMBDA e : e.address = address)
           string == SelectInSeq(s.names, LAMBDA name : name = NameAt[address])
           slot == NameSlot(address)
           at == IF known(s.lastName) THEN s.lastName
                 ELSE IF known(s.nameSlots[slot]) THEN s.nameSlots[slot]
                 ELSE IF seen # NoEntry THEN seen
                 ELSE Len(s.addresses) + 1
           index == IF at <= Len(s.addresses) THEN s.addresses[at].index
                    ELSE IF string # NoEntry THEN string ELSE Len(s.names) + 1
           names == IF index > Len(s.names) THEN Append(s.names, NameAt[address]) ELSE s.names
           addresses == IF at > Len(s.addresses)
                        THEN Append(s.addresses, [address |-> address, index |-> index]) ELSE s.addresses
           nameSlots == [s.nameSlots EXCEPT ![slot] = IF known(s.lastName) THEN @ ELSE at]
           new == [s EXCEPT !.names = names, !.addresses = addresses, !.lastName = at, !.nameSlots = nameSlots]
<1>1. NameIndex(s, address).store = new
    BY DEF NameIndex
<1> HIDE DEF known, seen, string, slot, at, index, names, addresses, nameSlots
<1>2. new.cdfs = s.cdfs /\ new.statics = s.statics /\ "cdfs" \in DOMAIN new /\ "statics" \in DOMAIN new
    BY DEF Keeps
<1> HIDE DEF new
<1> QED
    BY <1>1, <1>2 DEF Keeps

LEMMA NamedPlaces ==
    ASSUME NEW s, Keeps(s), NEW call \in Calls, call.kind = "named"
    PROVE  IsPlace(CdfIndex(s, call), call)
<1>1. PICK named : named = NameIndex(s, call.address) /\ Keeps(named.store) /\ named.store.cdfs = s.cdfs
    BY NamesAreApart
<1> DEFINE slot == CdfSlot(named.index, call.key)
           Fits(i) == i \in DOMAIN s.cdfs /\ Matches(s.cdfs[i], named.index, call)
           Here == {i \in 1..Len(s.cdfs) : Matches(s.cdfs[i], named.index, call)}
           found == IF Here # {} THEN Min(Here) ELSE 0
           at == IF Fits(s.last) THEN s.last
                 ELSE IF Fits(s.slots[slot]) THEN s.slots[slot]
                 ELSE IF found # NoEntry THEN found
                 ELSE Len(s.cdfs) + 1
           e == NewEntry(named.index, call)
           cdfs == IF at > Len(s.cdfs) THEN Append(s.cdfs, e) ELSE s.cdfs
           slots == [named.store.slots EXCEPT ![slot] = at]
           new == [named.store EXCEPT !.cdfs = cdfs, !.last = at, !.slots = slots]
<1>2. CdfIndex(s, call).index = at /\ CdfIndex(s, call).store = new
    BY <1>1 DEF CdfIndex, CdfIndexOf, SelectInSeq
<1>3. IsEntry(e) /\ e.n = call.n
    BY NewEntries
<1>4. IsStore(s.cdfs, named.store.statics) /\ Len(s.cdfs) \in Nat /\ DOMAIN s.cdfs = 1..Len(s.cdfs)
    <2>1. IsStore(s.cdfs, named.store.statics)
        BY <1>1 DEF Keeps
    <2>2. PICK S : s.cdfs \in Seq(S)
        BY <2>1 DEF IsStore
    <2> QED
        BY <2>1, <2>2
<1> HIDE DEF e, slot
<1>5. \/ at \in 1..Len(s.cdfs) /\ s.cdfs[at].n = call.n
      \/ at = Len(s.cdfs) + 1
    <2>1. ASSUME NEW i, Fits(i) PROVE i \in 1..Len(s.cdfs) /\ s.cdfs[i].n = call.n
        BY <1>4, <2>1 DEF Matches
    <2>2. found # 0 => found \in 1..Len(s.cdfs) /\ s.cdfs[found].n = call.n
        <3>1. SUFFICES ASSUME Here # {} PROVE Min(Here) \in Here
            BY DEF Matches
        <3>2. Here \in SUBSET Nat
            OBVIOUS
        <3> HIDE DEF Here
        <3> QED
            BY <3>1, <3>2, LeastElement DEF Min
    <2> HIDE DEF Fits, found
    <2> QED
        BY <2>1, <2>2 DEF NoEntry
<1> HIDE DEF at
<1>6. IsStore(cdfs, named.store.statics) /\ at \in 1..Len(cdfs) /\ cdfs[at].n = call.n
    <2>1. CASE at \in 1..Len(s.cdfs) /\ s.cdfs[at].n = call.n
        <3>1. ~(at > Len(s.cdfs))
            BY <1>4, <2>1
        <3> QED
            BY <1>4, <2>1, <3>1
    <2>2. CASE at = Len(s.cdfs) + 1
        <3>1. cdfs = Append(s.cdfs, e)
            BY <1>4, <2>2
        <3> HIDE DEF cdfs
        <3>2. IsStore(cdfs, named.store.statics) /\ Len(cdfs) = Len(s.cdfs) + 1 /\ cdfs[Len(s.cdfs) + 1] = e
            BY <1>3, <1>4, <3>1, EntriesAreAdded
        <3> QED
            BY <1>3, <1>4, <2>2, <3>2
    <2> QED
        BY <1>5, <2>1, <2>2
<1> HIDE DEF cdfs, slots
<1>7. new.cdfs = cdfs /\ new.statics = named.store.statics /\ "cdfs" \in DOMAIN new /\ "statics" \in DOMAIN new
    BY <1>1 DEF Keeps
<1> HIDE DEF new
<1> QED
    BY <1>2, <1>6, <1>7 DEF IsPlace, Keeps

-----------------------------------------------------------------------------
(* The writer                                                                *)

\* What the coder and its distributions keep, whatever is written.
CoderInv ==
    /\ finished \in BOOLEAN
    /\ Keeps(store)
    /\ ~finished => \E r \in Ranges : HasRange(coder, r)

LEMMA CoderInvInitially == CoderInit => CoderInv
<1> SUFFICES ASSUME CoderInit PROVE CoderInv
    OBVIOUS
<1>1. HasRange(coder, 32768) /\ 32768 \in Ranges
    BY SMT DEF CoderInit, NewCoder, HasRange, Ranges
<1>2. "cdfs" \in DOMAIN store /\ "statics" \in DOMAIN store /\ store.cdfs = <<>> /\ store.statics = <<>>
    BY DEF CoderInit, EmptyStore
<1>3. <<>> \in Seq({}) /\ Len(<<>>) = 0 /\ DOMAIN <<>> = {}
    OBVIOUS
<1>4. IsStore(<<>>, <<>>)
    BY <1>3 DEF IsStore
<1>5. Keeps(store)
    BY <1>2, <1>4 DEF Keeps
<1>6. \E r \in Ranges : HasRange(coder, r)
    BY <1>1
<1> QED
    BY <1>5, <1>6 DEF CoderInit, CoderInv

LEMMA SymbolsKeepCoderInv ==
    ASSUME CoderInv, ~finished, NEW call \in Calls, WriteSymbol(call)
    PROVE  Keeps(store') /\ \E r \in Ranges : HasRange(coder', r)
<1>1. call.kind \in {"named", "static"}
    BY DEF WriteSymbol
<1>0. PICK n \in 2..16 : n = call.n
    BY <1>1, SymbolCalls
<1>2. PICK value \in 0 .. n - 1 : n = call.n /\ value = call.value /\ IsCdf(call.initial, n)
    BY <1>0, <1>1, SymbolCalls
<1>3. PICK r \in Ranges : HasRange(coder, r)
    BY DEF CoderInv
<1>4. CASE adaptive
    <2>1. PICK place : /\ place = IF call.kind = "named" THEN CdfIndex(store, call) ELSE StaticIndex(store, call)
                       /\ coder' = CodeSymbol(coder, place.store.cdfs[place.index].cdf, call.n, call.value)
                       /\ store' = [place.store EXCEPT !.cdfs[place.index].cdf =
                                       UpdateCdf(place.store.cdfs[place.index].cdf, call.value, call.n)]
        BY <1>4 DEF WriteSymbol
    <2>2. IsPlace(place, call)
        <3>1. Keeps(store)
            BY DEF CoderInv
        <3>2. CASE call.kind = "named"
            BY <2>1, <3>1, <3>2, NamedPlaces
        <3>3. CASE call.kind = "static"
            BY <2>1, <3>1, <3>3, StaticPlaces
        <3> QED
            BY <1>1, <3>2, <3>3
    <2>3. PICK at, entry, cdfs, statics :
              /\ at = place.index /\ cdfs = place.store.cdfs /\ entry = cdfs[at] /\ statics = place.store.statics
              /\ at \in 1..Len(cdfs) /\ IsStore(cdfs, statics) /\ entry.n = n /\ IsEntry(entry)
        BY <1>2, <2>2 DEF IsPlace, Keeps, IsStore
    <2>4. PICK cdf, new, e : cdf = entry.cdf /\ new = UpdateCdf(cdf, value, n) /\ e = [entry EXCEPT !.cdf = new]
        OBVIOUS
    <2>5. IsCdf(cdf, n) /\ IsCdf(new, n)
        BY <2>3, <2>4, AdaptedIsCdf DEF IsEntry
    <2>6. IsEntry(e) /\ e.n = cdfs[at].n
        <3>1. "cdf" \in DOMAIN entry /\ "n" \in DOMAIN entry /\ entry.n = n
            BY <2>3 DEF IsEntry
        <3>2. "cdf" \in DOMAIN e /\ "n" \in DOMAIN e /\ e.n = n /\ e.cdf = new
            BY <2>4, <3>1
        <3> QED
            BY <2>3, <2>5, <3>2 DEF IsEntry
    <2>7. PICK changed : changed = [cdfs EXCEPT ![at] = e] /\ IsStore(changed, statics)
        BY <2>3, <2>6, EntriesAreChanged
    <2>8. store' = [place.store EXCEPT !.cdfs = changed]
        BY <1>2, <2>1, <2>3, <2>4, <2>7
    <2>9. Keeps(store')
        <3>1. store'.cdfs = changed /\ store'.statics = statics /\ "cdfs" \in DOMAIN store' /\ "statics" \in DOMAIN store'
            BY <2>2, <2>3, <2>8 DEF IsPlace, Keeps
        <3> QED
            BY <2>7, <3>1 DEF Keeps
    <2>10. coder' = CodeSymbol(coder, cdf, n, value)
        BY <1>2, <2>1, <2>3, <2>4
    <2> QED
        BY <1>3, <2>5, <2>9, <2>10, SymbolKeepsARange
<1>5. CASE ~adaptive
    <2>1. coder' = CodeSymbol(coder, call.initial, n, value) /\ store' = store
        BY <1>2, <1>5 DEF WriteSymbol
    <2> QED
        BY <1>2, <1>3, <2>1, SymbolKeepsARange DEF CoderInv
<1> QED
    BY <1>4, <1>5

LEMMA CoderInvIsKept ==
    ASSUME CoderInv, [CoderNext]_coderVars
    PROVE  CoderInv'
<1>1. CASE WriteCall
    <2>1. PICK call \in Calls : WriteLiteral(call) \/ WriteUniform(call) \/ WriteSymbol(call)
        BY <1>1 DEF WriteCall
    <2>2. ~finished /\ finished' = finished
        BY <1>1 DEF WriteCall
    <2>3. PICK r \in Ranges : HasRange(coder, r)
        BY <2>2 DEF CoderInv
    <2>4. CASE WriteLiteral(call)
        <3>0. IsLiteral(call)
            BY <2>4, CallsAssumption DEF WriteLiteral, CallsAssumption
        <3>1. PICK bits \in Nat : bits = call.bits
            BY <3>0 DEF IsLiteral
        <3>2. HasRange(coder', r) /\ store' = store
            BY <2>3, <2>4, <3>1, LiteralKeepsTheRange DEF WriteLiteral
        <3> QED
            BY <2>2, <3>2 DEF CoderInv
    <2>5. CASE WriteUniform(call)
        <3>0. IsUniform(call)
            BY <2>5, CallsAssumption DEF WriteUniform, CallsAssumption
        <3>1. PICK n \in UniformCounts : n = call.n
            BY <3>0 DEF IsUniform
        <3>2. HasRange(coder', r) /\ store' = store
            BY <2>3, <2>5, <3>1, UniformKeepsTheRange DEF WriteUniform
        <3> QED
            BY <2>2, <3>2 DEF CoderInv
    <2>6. CASE WriteSymbol(call)
        BY <2>2, <2>6, SymbolsKeepCoderInv DEF CoderInv
    <2> QED
        BY <2>1, <2>4, <2>5, <2>6
<1>2. CASE FinishTile
    BY <1>2 DEF FinishTile, CoderInv
<1>3. CASE UNCHANGED coderVars
    BY <1>3 DEF coderVars, CoderInv
<1> QED
    BY <1>1, <1>2, <1>3 DEF CoderNext

LEMMA CodersDivideTheRange == CoderInv => SymbolsDivideTheRange
<1> SUFFICES ASSUME CoderInv, ~finished
             PROVE  /\ coder.rng \in Ranges
                    /\ \A i \in DOMAIN store.cdfs : LET entry == store.cdfs[i] IN
                          IsCdf(entry.cdf, entry.n) /\ Divides(entry.cdf, entry.n, coder.rng)
    BY DEF SymbolsDivideTheRange
<1>1. PICK r \in Ranges : coder.rng = r
    BY DEF CoderInv, HasRange
<1>2. ASSUME NEW i \in DOMAIN store.cdfs
      PROVE  LET entry == store.cdfs[i] IN IsCdf(entry.cdf, entry.n) /\ Divides(entry.cdf, entry.n, r)
    <2>1. IsStore(store.cdfs, store.statics)
        BY DEF CoderInv, Keeps
    <2>2. PICK S : store.cdfs \in Seq(S)
        BY <2>1 DEF IsStore
    <2>3. IsEntry(store.cdfs[i])
        BY <2>1, <2>2 DEF IsStore
    <2>4. PICK entry : entry = store.cdfs[i] /\ IsEntry(entry)
        BY <2>3
    <2>5. IsCdf(entry.cdf, entry.n) /\ Divides(entry.cdf, entry.n, r)
        BY <2>4, DistributionsDivide DEF IsEntry
    <2> QED
        BY <2>4, <2>5
<1> QED
    BY <1>1, <1>2

\* Whatever is written, the coder keeps a range of sixteen bits (normalize) and
\* every distribution, adapted any number of times (update_cdf_counts) and found
\* through any cache, gives each symbol an interval of it that is not empty and
\* begins where the one before it ends (encode_q15).  It is so for every set of
\* tables, every cut of a literal and every hash of the caches.
THEOREM SymbolsKeepTheirPlace == CoderSpec => []SymbolsDivideTheRange
<1>1. CoderInv /\ [CoderNext]_coderVars => CoderInv'
    BY CoderInvIsKept
<1> QED
    BY <1>1, CoderInvInitially, CodersDivideTheRange, PTL DEF CoderSpec
=============================================================================

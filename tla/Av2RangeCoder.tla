---------------------------- MODULE Av2RangeCoder ----------------------------
(***************************************************************************)
(* The entropy coder of an AV2 tile (av2/bitstream/entropy.rs): literals,  *)
(* uniform values and adaptive symbols go into an arithmetic code whose    *)
(* words carry into words already produced; the words wait until no carry  *)
(* can change them. Adapted distributions are found again through caches.  *)
(*                                                                         *)
(* A distribution over n symbols is a sequence of n + 4 entries, as in the *)
(* code: n Q15 values (32768 minus the cumulative probability, the last    *)
(* one 0), the count of adaptations, and the three rates that count picks  *)
(* from. Symbols are numbered from 0, sequences from 1.                    *)
(*                                                                         *)
(* The reader at the end of the module is the format's: it keeps one       *)
(* distribution per syntax context and knows nothing of words, pending     *)
(* bytes or caches.                                                        *)
(***************************************************************************)
EXTENDS Integers, Sequences, FiniteSets, SequencesExt

ProbTop == 32768                                \* CDF_PROB_TOP

\* PROB_INC: what keeps the intervals of adjacent symbols apart.  The row of a
\* distribution with n symbols is the (n - 1)-th.
ProbInc == <<
    <<8, 0>>,
    <<10, 5, 0>>,
    <<12, 8, 4, 0>>,
    <<12, 9, 6, 3, 0>>,
    <<13, 10, 8, 5, 2, 0>>,
    <<13, 11, 9, 6, 4, 2, 0>>,
    <<14, 12, 10, 8, 6, 4, 2, 0>>,
    <<14, 12, 10, 8, 7, 5, 3, 1, 0>>,
    <<14, 12, 11, 9, 8, 6, 4, 3, 1, 0>>,
    <<14, 13, 11, 10, 8, 7, 5, 4, 2, 1, 0>>,
    <<14, 13, 12, 10, 9, 8, 6, 5, 4, 2, 1, 0>>,
    <<14, 13, 12, 11, 9, 8, 7, 6, 4, 3, 2, 1, 0>>,
    <<14, 13, 12, 11, 10, 9, 8, 6, 5, 4, 3, 2, 1, 0>>,
    <<14, 13, 12, 11, 10, 9, 8, 7, 6, 5, 4, 3, 2, 1, 0>>,
    <<15, 14, 13, 12, 11, 10, 9, 8, 7, 6, 5, 4, 3, 2, 1, 0>> >>

\* prob_scale: a Q15 value scaled to the range, always a multiple of 8.
ProbScale(p, rng, inc) == ((((rng \div 256) * ((p \div 128) * 16 + inc)) \div 128)) * 8

\* The upper and the lower end of a symbol's interval, counted from the end of
\* the range (u and v of encode_q15).
UpperEnd(cdf, n, symbol, rng) ==
    IF symbol = 0 THEN rng
    ELSE IF cdf[symbol] < ProbTop THEN ProbScale(cdf[symbol], rng, ProbInc[n - 1][symbol])
    ELSE rng
LowerEnd(cdf, n, symbol, rng) ==
    ProbScale(cdf[symbol + 1], rng, ProbInc[n - 1][symbol + 1])

\* Two raised to a rate, which the tables keep between 2 and 8.
TwoTo(rate) == CASE rate = 2 -> 4 [] rate = 3 -> 8 [] rate = 4 -> 16 [] rate = 5 -> 32
                 [] rate = 6 -> 64 [] rate = 7 -> 128 [] rate = 8 -> 256

\* One Q15 value moved towards ProbTop (before the symbol) or 0 (from it on).
Raised(value, rate) == value + (ProbTop - value) \div TwoTo(rate)
Lowered(value, rate) == value - value \div TwoTo(rate)

CountInterval(count) == IF count > 31 THEN 2 ELSE IF count > 15 THEN 1 ELSE 0
AdaptationRate(cdf, n) == 2 + cdf[n + 2 + CountInterval(cdf[n + 1])]

\* update_cdf_counts
UpdateCdf(cdf, symbol, n) ==
    [i \in DOMAIN cdf |->
        CASE i < n /\ i <= symbol -> Raised(cdf[i], AdaptationRate(cdf, n))
          [] i < n /\ i > symbol  -> Lowered(cdf[i], AdaptationRate(cdf, n))
          [] i = n + 1 /\ cdf[i] < 32 -> cdf[i] + 1
          [] OTHER -> cdf[i]]

-----------------------------------------------------------------------------
(* What the callers' tables and the adaptation keep true *)

\* A distribution as the tables of av2/tile/cdfs.rs hold them.
IsCdf(cdf, n) ==
    /\ DOMAIN cdf = 1 .. n + 4
    /\ \A i \in 1..n : cdf[i] \in 0 .. ProbTop - 1
    /\ \A i \in 1..n : \A j \in 1..n : i <= j => cdf[j] <= cdf[i]
    /\ cdf[n] = 0
    /\ cdf[n + 1] \in 0..32
    /\ \A i \in n + 2 .. n + 4 : cdf[i] \in 0..6

-----------------------------------------------------------------------------

CONSTANTS
    Calls,              \* the calls of the tile writer TLC chooses from
    MaxCalls,           \* calls per tile, a bound for TLC
    LiteralChunk,       \* 31: bits a bypass step takes at most
    FlushThreshold,     \* AV2_PRE_CARRY_FLUSH_THRESHOLD
    PendingLimit,       \* AV2_PRE_CARRY_PENDING_LIMIT
    NameAt,             \* the string at each address of a &'static str
    NameSlot(_),        \* av2_adaptive_cdf_name_lookup_cache_slot
    CdfSlot(_, _)       \* av2_adaptive_cdf_lookup_cache_slot, of name and key

RangeCoderAssumption ==
    /\ MaxCalls \in Nat
    /\ LiteralChunk \in 1..31
    /\ FlushThreshold \in 1..PendingLimit
ASSUME RangeCoderAssumption

\* What write_literal and write_uniform assert (the callers count palette colours
\* with write_uniform), and the tables that are passed; a static key is used for
\* one of them (static_adaptive_cdf_index).
IsLiteral(call) == call.bits \in 0..32

UniformCounts == 1..65535

IsUniform(call) == call.n \in UniformCounts /\ call.value \in 0 .. call.n - 1

IsSymbol(call) == call.n \in 2..16 /\ call.value \in 0 .. call.n - 1 /\ IsCdf(call.initial, call.n)

CallsAssumption ==
    \A call \in Calls :
        /\ call.kind \in {"literal", "uniform", "named", "static"}
        /\ call.kind = "literal" => IsLiteral(call)
        /\ call.kind = "uniform" => IsUniform(call)
        /\ call.kind \in {"named", "static"} => IsSymbol(call)
        /\ call.kind = "static" =>
                \A other \in Calls : other.kind = "static" /\ other.key = call.key => other.n = call.n
ASSUME CallsAssumption

VARIABLES
    adaptive,   \* adaptive_cdf_updates
    coder,      \* low, rng and cnt, the pending words, the bytes, all the words
    store,      \* adaptive_cdfs, the names, and the caches over both
    calls,      \* the calls made so far
    finished    \* finish has been called

coderVars == <<adaptive, coder, store, calls, finished>>

NoEntry == 0       \* no index: sequences start at 1

-----------------------------------------------------------------------------
(* Carry propagation *)

\* eval_precarry_suffix: the bytes of the words when `carry` comes in behind
\* them, the last word first.
WithCarry(wordSeq, carry) ==
    LET sum[i \in 1..Len(wordSeq) + 1] ==
            IF i > Len(wordSeq) THEN carry
            ELSE wordSeq[i] + (IF i = Len(wordSeq) THEN carry ELSE sum[i + 1] \div 256)
    IN  [i \in 1..Len(wordSeq) |-> sum[i] % 256]

\* Mutant: bytes are settled without asking what a carry would make of them.
MutSettledBytes(wordSeq) == Len(wordSeq)

\* How many leading bytes no carry can change (flush_common_prefix).
SettledBytes(wordSeq) ==
    LET agree == {k \in 0..Len(wordSeq) :
                    \A i \in 1..k : \A c \in 1..2 :
                        WithCarry(wordSeq, c)[i] = WithCarry(wordSeq, 0)[i]}
    IN  CHOOSE k \in agree : \A l \in agree : l <= k

\* push_precarry, and push of the finalizer.
PushWord(c, word) ==
    LET waiting == Append(c.pending, word)
        k == IF Len(waiting) >= FlushThreshold THEN SettledBytes(waiting) ELSE 0
    IN  [c EXCEPT !.words = Append(@, word),
                  !.pending = SubSeq(waiting, k + 1, Len(waiting)),
                  !.bytes = @ \o SubSeq(WithCarry(waiting, 0), 1, k)]

-----------------------------------------------------------------------------
(* The arithmetic coder *)

BitLength(n) == CHOOSE k \in 0..31 : n < 2^k /\ (k = 0 \/ n >= 2^(k - 1))   \* ilog_nz

\* normalize: words are produced as soon as 8 bits and a carry are complete.
Normalize(c, low, rng, bypass) ==
    LET d == IF bypass > 0 THEN 0 ELSE 16 - BitLength(rng)
        count == c.cnt + bypass
        two == count + d >= 8
        b1 == count + 16
        c1 == IF two THEN PushWord(c, low \div 2^b1) ELSE c
        low1 == IF two THEN low % 2^b1 ELSE low
        b2 == IF two THEN b1 - 8 ELSE b1
        c2 == PushWord(c1, low1 \div 2^b2)
    IN  IF count + d < 0
        THEN [c EXCEPT !.low = low * 2^d, !.rng = rng * 2^d, !.cnt = count + d]
        ELSE [c2 EXCEPT !.low = (low1 % 2^b2) * 2^d, !.rng = rng * 2^d,
                        !.cnt = b2 + d - 24]

\* encode_literal_bypass
Bypass(c, value, bits) ==
    Normalize(c, c.low * 2^bits + c.rng * value, c.rng, bits)

\* write_literal
LiteralBits(c, value, bits) ==
    LET chunks == (bits + LiteralChunk - 1) \div LiteralChunk
        left(k) == IF LiteralChunk * k < bits THEN bits - LiteralChunk * k ELSE 0
        step[k \in 0..chunks] ==       \* the coder after k chunks
            IF k = 0 THEN c
            ELSE LET n == left(k - 1) - left(k)
                 IN  Bypass(step[k - 1], (value \div 2^left(k)) % 2^n, n)
    IN  step[chunks]

\* write_uniform: values below m take one bit less.
UniformValue(c, n, value) ==
    LET l == BitLength(n)
        m == 2^l - n
    IN  IF value < m THEN LiteralBits(c, value, l - 1)
        ELSE Bypass(LiteralBits(c, m + (value - m) \div 2, l - 1), (value - m) % 2, 1)

\* encode_q15
CodeSymbol(c, cdf, n, symbol) ==
    LET u == UpperEnd(cdf, n, symbol, c.rng)
        v == LowerEnd(cdf, n, symbol, c.rng)
    IN  Normalize(c, c.low + (c.rng - u), u - v, 0)

\* finish, up to the finalizer: the value in the interval with the fewest bits.
Flushed(c) ==
    LET rounded == ((c.low + 16383) \div 16384) * 16384
        end == IF (rounded \div 16384) % 2 = 1 THEN rounded ELSE rounded + 16384
        push[k \in Nat] ==
            IF k = 0 THEN [coder |-> c, rest |-> end]
            ELSE LET before == push[k - 1]
                     shift == c.cnt + 24 - 8 * k
                 IN  [coder |-> PushWord(before.coder, before.rest \div 2^shift),
                      rest |-> before.rest % 2^shift]
    IN  push[(c.cnt + 17) \div 8].coder

-----------------------------------------------------------------------------
(* Adapted distributions and how they are found again *)

\* matches of Av2AdaptiveCdf
Matches(entry, name, call) ==
    /\ entry.name = name /\ entry.key = call.key
    /\ entry.n = call.n /\ entry.initial = call.initial

\* adaptive_cdf_name_index: the last name, the slot, the addresses seen, and
\* only then the strings.
NameIndex(s, address) ==
    LET known(p) == p \in DOMAIN s.addresses /\ s.addresses[p].address = address
        seen == SelectInSeq(s.addresses, LAMBDA e : e.address = address)
        string == SelectInSeq(s.names, LAMBDA name : name = NameAt[address])
        slot == NameSlot(address)
        at == IF known(s.lastName) THEN s.lastName
              ELSE IF known(s.nameSlots[slot]) THEN s.nameSlots[slot]
              ELSE IF seen # NoEntry THEN seen
              ELSE Len(s.addresses) + 1
        index == IF at <= Len(s.addresses) THEN s.addresses[at].index
                 ELSE IF string # NoEntry THEN string ELSE Len(s.names) + 1
    IN  [index |-> index,
         store |-> [s EXCEPT
            !.names = IF index > Len(@) THEN Append(@, NameAt[address]) ELSE @,
            !.addresses = IF at > Len(@)
                          THEN Append(@, [address |-> address, index |-> index]) ELSE @,
            !.lastName = at,
            !.nameSlots[slot] = IF known(s.lastName) THEN @ ELSE at]]

NewEntry(name, call) ==
    [name |-> name, key |-> call.key, n |-> call.n,
     initial |-> call.initial, cdf |-> call.initial]

\* adaptive_cdf_index: the last entry, the slot, all entries, a new one.
CdfIndexOf(s, named, call) ==
    LET slot == CdfSlot(named.index, call.key)
        fits(i) == i \in DOMAIN s.cdfs /\ Matches(s.cdfs[i], named.index, call)
        found == SelectInSeq(s.cdfs, LAMBDA e : Matches(e, named.index, call))
        at == IF fits(s.last) THEN s.last
              ELSE IF fits(s.slots[slot]) THEN s.slots[slot]
              ELSE IF found # NoEntry THEN found
              ELSE Len(s.cdfs) + 1
    IN  [index |-> at,
         store |-> [named.store EXCEPT
            !.cdfs = IF at > Len(@) THEN Append(@, NewEntry(named.index, call)) ELSE @,
            !.last = at, !.slots[slot] = at]]
CdfIndex(s, call) == CdfIndexOf(s, NameIndex(s, call.address), call)

\* static_adaptive_cdf_index: a table by key; the entries have no name.
StaticIndex(s, call) ==
    LET at == IF call.key \in DOMAIN s.statics THEN s.statics[call.key] ELSE Len(s.cdfs) + 1
    IN  [index |-> at,
         store |-> [s EXCEPT
            !.cdfs = IF at > Len(@) THEN Append(@, NewEntry(NoEntry, call)) ELSE @,
            !.statics = [k \in DOMAIN @ \cup {call.key} |-> IF k = call.key THEN at ELSE @[k]]]]

EmptyStore ==
    [cdfs |-> <<>>, last |-> NoEntry, slots |-> [i \in 0..1 |-> NoEntry], statics |-> << >>,
     names |-> <<>>, addresses |-> <<>>, lastName |-> NoEntry, nameSlots |-> [i \in 0..1 |-> NoEntry]]

-----------------------------------------------------------------------------
(* The writer *)

NewCoder == [low |-> 0, rng |-> 32768, cnt |-> -9, pending |-> <<>>, bytes |-> <<>>, words |-> <<>>]

CoderInit ==
    /\ adaptive \in BOOLEAN
    /\ coder = NewCoder
    /\ store = EmptyStore
    /\ calls = <<>>
    /\ finished = FALSE

WriteLiteral(call) ==
    /\ call.kind = "literal"
    /\ coder' = LiteralBits(coder, call.value, call.bits)
    /\ UNCHANGED store

WriteUniform(call) ==
    /\ call.kind = "uniform"
    /\ coder' = UniformValue(coder, call.n, call.value)
    /\ UNCHANGED store

\* write_symbol, write_symbol_with_key, write_symbol_with_static_cdf_key.  The
\* callers pass copies of the default tables: without adaptation there is no
\* entry and the copy is what codes the symbol.
WriteSymbol(call) ==
    /\ call.kind \in {"named", "static"}
    /\ IF adaptive
       THEN \E place \in {IF call.kind = "named" THEN CdfIndex(store, call) ELSE StaticIndex(store, call)} :
            LET entry == place.store.cdfs[place.index]
            IN  /\ coder' = CodeSymbol(coder, entry.cdf, call.n, call.value)
                /\ store' = [place.store EXCEPT !.cdfs[place.index].cdf =
                                UpdateCdf(entry.cdf, call.value, call.n)]
       ELSE coder' = CodeSymbol(coder, call.initial, call.n, call.value) /\ UNCHANGED store

WriteCall ==
    /\ ~finished /\ Len(calls) < MaxCalls
    /\ \E call \in Calls :
        /\ WriteLiteral(call) \/ WriteUniform(call) \/ WriteSymbol(call)
        /\ calls' = Append(calls, call)
    /\ UNCHANGED <<adaptive, finished>>

\* finish: the remaining words, and the pending bytes with no carry behind them.
FinishTile ==
    /\ ~finished
    /\ finished' = TRUE
    /\ coder' = LET c == Flushed(coder)
                IN  [c EXCEPT !.bytes = @ \o WithCarry(c.pending, 0), !.pending = <<>>]
    /\ UNCHANGED <<adaptive, store, calls>>

CoderNext == WriteCall \/ FinishTile
CoderSpec == CoderInit /\ [][CoderNext]_coderVars

-----------------------------------------------------------------------------
(* The reader *)

\* The i-th bit of the payload; past its end the reader sees zeros.
PayloadBit(bytes, i) ==
    IF i \div 8 < Len(bytes) THEN (bytes[(i \div 8) + 1] \div 2^(7 - (i % 8))) % 2 ELSE 0

BitsAt(bytes, position, n) ==
    SumFunction([i \in 0..n - 1 |-> PayloadBit(bytes, position + i) * 2^(n - 1 - i)])

NewReader(bytes) == [value |-> BitsAt(bytes, 0, 15), rng |-> 32768, position |-> 15, read |-> 0,
                  cdfs |-> << >>]

ReadLiteral(r, bytes, bits) ==
    LET v == r.value * 2^bits + BitsAt(bytes, r.position, bits)
    IN  [r EXCEPT !.value = v % r.rng, !.position = @ + bits, !.read = v \div r.rng]

\* Longer literals are read in pieces, which gives the same value; TLC's
\* integers have 32 bits.
ReadBits(r, bytes, bits) ==
    LET step[n \in 0..bits] ==
            IF n = 0 THEN [r EXCEPT !.read = 0]
            ELSE LET before == step[n - 1]
                 IN  [ReadLiteral(before, bytes, 1) EXCEPT !.read = before.read * 2 + @]
    IN  step[bits]

ReadUniform(r, bytes, n) ==
    LET l == BitLength(n)
        m == 2^l - n
        short == ReadBits(r, bytes, l - 1)
        long == ReadBits(short, bytes, 1)
    IN  IF short.read < m THEN short
        ELSE [long EXCEPT !.read = short.read * 2 - m + long.read]

\* The symbol whose interval the value lies in, from the context's own
\* distribution.
ReadSymbol(r, bytes, call) ==
    LET cdf == IF adaptive /\ call.context \in DOMAIN r.cdfs THEN r.cdfs[call.context]
               ELSE call.initial
        inside(s) == /\ r.rng - UpperEnd(cdf, call.n, s, r.rng) <= r.value
                     /\ r.value < r.rng - LowerEnd(cdf, call.n, s, r.rng)
        symbol == CHOOSE s \in 0..call.n - 1 : inside(s)
        u == UpperEnd(cdf, call.n, symbol, r.rng)
        v == LowerEnd(cdf, call.n, symbol, r.rng)
        d == 16 - BitLength(u - v)
    IN  IF \E s \in 0..call.n - 1 : inside(s)
        THEN [value |-> (r.value - (r.rng - u)) * 2^d + BitsAt(bytes, r.position, d),
              rng |-> (u - v) * 2^d, position |-> r.position + d, read |-> symbol,
              cdfs |-> [k \in DOMAIN r.cdfs \cup {call.context} |->
                            IF k = call.context THEN UpdateCdf(cdf, symbol, call.n)
                            ELSE r.cdfs[k]]]
        ELSE [r EXCEPT !.read = -1]

ReadCall(r, bytes, call) ==
    CASE call.kind = "literal" -> ReadBits(r, bytes, call.bits)
      [] call.kind = "uniform" -> ReadUniform(r, bytes, call.n)
      [] OTHER -> ReadSymbol(r, bytes, call)

\* The reader after each call of the tile.
ReadBack(bytes) ==
    LET after[k \in 0..Len(calls)] ==
            IF k = 0 THEN NewReader(bytes) ELSE ReadCall(after[k - 1], bytes, calls[k])
    IN  after

-----------------------------------------------------------------------------
(* Properties *)

ValuesAreRead ==
    finished => LET after == ReadBack(coder.bytes)
                IN  \A k \in DOMAIN calls : after[k].read = calls[k].value

BytesAreFinal ==
    /\ \A i \in DOMAIN coder.words : coder.words[i] \in 0..511
    /\ \A carry \in 0..1 : ~finished =>
        coder.bytes \o WithCarry(coder.pending, carry) = WithCarry(coder.words, carry)
    /\ finished => coder.bytes = WithCarry(coder.words, 0)

EndsWithTrailingOne ==
    finished => LET r == ReadBack(coder.bytes)[Len(calls)]
                    end == r.position - 15
                IN  /\ PayloadBit(coder.bytes, end) = 1
                    /\ \A i \in end + 1..8 * Len(coder.bytes) : PayloadBit(coder.bytes, i) = 0
                    /\ end < 8 * Len(coder.bytes)

\* The symbols divide a range: each has an interval that is not empty and begins
\* where the one before it ends, so that the next word of the reader lies in one.
Divides(cdf, n, rng) ==
    /\ UpperEnd(cdf, n, 0, rng) = rng /\ LowerEnd(cdf, n, n - 1, rng) = 0
    /\ \A s \in 0 .. n - 1 : LowerEnd(cdf, n, s, rng) < UpperEnd(cdf, n, s, rng)
    /\ \A s \in 1 .. n - 1 : UpperEnd(cdf, n, s, rng) = LowerEnd(cdf, n, s - 1, rng)

\* The range between two symbols (normalize).
Ranges == 32768..65535

\* Between two symbols every distribution, as it was adapted so far, divides the range.
SymbolsDivideTheRange ==
    ~finished =>
        /\ coder.rng \in Ranges
        /\ \A i \in DOMAIN store.cdfs : LET entry == store.cdfs[i] IN
              IsCdf(entry.cdf, entry.n) /\ Divides(entry.cdf, entry.n, coder.rng)

\* A reader of the finished payload finds the value of every call, whatever
\* carried into what, wherever the flush stopped waiting, and whichever cache
\* supplied the distribution of an adaptive symbol.  Bytes settled early are
\* those of one carry propagation over all words, and after the last value the
\* payload ends as exit_symbol expects it: a one bit, then zeros.  However often a
\* distribution was adapted, no symbol has lost its place in the range.
PayloadIsReadBack == ValuesAreRead /\ BytesAreFinal /\ EndsWithTrailingOne /\ SymbolsDivideTheRange
=============================================================================

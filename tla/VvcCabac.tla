------------------------------ MODULE VvcCabac ------------------------------
(***************************************************************************)
(* Bits, bytes and NAL units (bitstream.rs, vvc/bitstream): the bit        *)
(* writer, Exp-Golomb codes, the RBSP trailing bits, emulation prevention  *)
(* and the Annex B byte stream; and a reader of each, written from the     *)
(* format and not from the writer.                                         *)
(*                                                                         *)
(* Then the arithmetic coder of a VVC slice (vvc/cabac/writer.rs) and the  *)
(* adaptive probability models it is driven by (vvc/cabac/context.rs). The *)
(* coder holds back a byte and a run of 0xff bytes behind it, because a    *)
(* later carry may still change them. The reader is the format's: nine     *)
(* bits of the code, compared with the range, and no knowledge of carries. *)
(***************************************************************************)
EXTENDS Integers, Sequences, FiniteSets
LOCAL INSTANCE SequencesExt

\* The n low bits of a value, the highest first.
BitsOf(value, n) == [i \in 1..n |-> (value \div 2^(n - i)) % 2]
ValueOf(bits) ==
    LET value[i \in 0..Len(bits)] == IF i = 0 THEN 0 ELSE value[i - 1] * 2 + bits[i]
    IN  value[Len(bits)]
Zeros(n) == [i \in 1..n |-> 0]

-----------------------------------------------------------------------------
(* BitWriter: whole bytes, and the bits of the byte at hand *)

NoBits == [bytes |-> <<>>, current |-> <<>>]

\* write_bit, write_bits
WriteBits(w, bits) ==
    LET all == w.current \o bits
        full == Len(all) \div 8
    IN  [bytes |-> w.bytes \o [i \in 1..full |-> ValueOf(SubSeq(all, 8 * i - 7, 8 * i))],
         current |-> SubSeq(all, 8 * full + 1, Len(all))]

\* write_packed_bits: at a byte boundary the bytes are taken over as they are.
WritePackedBits(w, bytes, count) ==
    LET full == count \div 8
        rest == count % 8
    IN  IF w.current # <<>>
        THEN WriteBits(w, SubSeq(FlattenSeq([i \in DOMAIN bytes |-> BitsOf(bytes[i], 8)]), 1, count))
        ELSE [bytes |-> w.bytes \o SubSeq(bytes, 1, full),
              current |-> IF rest = 0 THEN <<>>
                          ELSE BitsOf(bytes[full + 1] \div 2^(8 - rest), rest)]

\* byte_align_zero
AlignZero(w) == WriteBits(w, Zeros((8 - Len(w.current)) % 8))

\* rbsp_trailing_bits, and byte_alignment() at the end of a slice header.
TrailingBits(w) == AlignZero(WriteBits(w, <<1>>))

-----------------------------------------------------------------------------
(* Fields of a header *)

\* write_exp_golomb_code
ExpGolomb(codeNum) ==
    LET count == CHOOSE k \in 1..31 : codeNum >= 2^(k - 1) /\ codeNum \div 2 < 2^(k - 1)
    IN  Zeros(count - 1) \o BitsOf(codeNum, count)

SeCode(value) == IF value > 0 THEN 2 * value ELSE -(2 * value) + 1

\* write_flag, write_u, write_ue, write_se
FieldBits(field) ==
    CASE field.code = "u"  -> BitsOf(field.value, field.bits)
      [] field.code = "ue" -> ExpGolomb(field.value + 1)
      [] field.code = "se" -> ExpGolomb(SeCode(field.value))

-----------------------------------------------------------------------------
(* NAL units *)

\* insert_emulation_prevention_bytes
Escape(rbsp) ==
    LET after[i \in 0..Len(rbsp)] ==
            IF i = 0 THEN [out |-> <<>>, zeros |-> 0]
            ELSE LET s == after[i - 1]
                     inserted == s.zeros >= 2 /\ rbsp[i] <= 3
                     zeros == IF inserted THEN 0 ELSE s.zeros
                 IN  [out |-> s.out \o (IF inserted THEN <<3>> ELSE <<>>) \o <<rbsp[i]>>,
                      zeros |-> IF rbsp[i] = 0 THEN zeros + 1 ELSE 0]
    IN  after[Len(rbsp)].out

\* write_nal_unit_header
NalHeader(unit) ==
    WriteBits(NoBits, <<0, 0>> \o BitsOf(unit.layer, 6) \o BitsOf(unit.type, 5)
                      \o BitsOf(unit.temporal + 1, 3)).bytes

\* nal_unit_header_bytes refuses other ids.
HasNalHeader(unit) == unit.layer <= 55 /\ unit.temporal <= 6

\* write_annex_b_to: the headers of all units are built before a byte is written.
AnnexB(units) ==
    IF \E i \in DOMAIN units : ~HasNalHeader(units[i]) THEN <<>>
    ELSE FlattenSeq([i \in DOMAIN units |->
            <<0, 0, 0, 1>> \o NalHeader(units[i]) \o Escape(units[i].rbsp)])

-----------------------------------------------------------------------------
(* A reader of the byte stream *)

\* The positions 1..n with a property, in order.
Positions(n, Test(_)) == SelectSeq([i \in 1..n |-> i], Test)

\* Where the prefix 00 00 01 of a start code begins.
IsStartCode(bytes, i) ==
    i <= Len(bytes) - 2 /\ bytes[i] = 0 /\ bytes[i + 1] = 0 /\ bytes[i + 2] = 1

\* The units between the start codes, without the zeros in front of the next.
NalUnits(bytes) ==
    LET begins == Positions(Len(bytes), LAMBDA i : IsStartCode(bytes, i))
        last(i) == IF i = Len(begins) THEN Len(bytes) ELSE begins[i + 1] - 1
        end(i) == CHOOSE e \in begins[i] + 2..last(i) :
                    /\ \A j \in e + 1..last(i) : bytes[j] = 0
                    /\ bytes[e] # 0
    IN  [i \in DOMAIN begins |-> SubSeq(bytes, begins[i] + 3, end(i))]

\* The payload of a unit, without the bytes that prevent start codes.
Unescape(bytes) ==
    LET isEscape(i) == i > 2 /\ bytes[i] = 3 /\ bytes[i - 1] = 0 /\ bytes[i - 2] = 0
        kept == Positions(Len(bytes), LAMBDA i : ~isEscape(i))
    IN  [i \in DOMAIN kept |-> bytes[kept[i]]]

\* Bits of a payload from a position counted from 0; nothing behind its end.
BitAt(bytes, i) == (bytes[(i \div 8) + 1] \div 2^(7 - (i % 8))) % 2
HasBits(bytes, i, n) == i + n <= 8 * Len(bytes)
BitsFrom(bytes, i, n) == [k \in 1..n |-> BitAt(bytes, i + k - 1)]

\* A field at a position: its value and the position behind it, or failure.
NoField == [found |-> FALSE, value |-> 0, next |-> 0]

ReadField(bytes, i, field) ==
    LET zeros == CHOOSE z \in 0..30 :
                    /\ HasBits(bytes, i, z + 1) => BitAt(bytes, i + z) = 1
                    /\ \A k \in 0..z - 1 : HasBits(bytes, i, k + 1) /\ BitAt(bytes, i + k) = 0
        code == ValueOf(BitsFrom(bytes, i + zeros, zeros + 1))
        n == IF field.code = "u" THEN field.bits ELSE 2 * zeros + 1
    IN  IF ~HasBits(bytes, i, n) THEN NoField
        ELSE [found |-> TRUE, next |-> i + n,
              value |-> CASE field.code = "u" -> ValueOf(BitsFrom(bytes, i, n))
                          [] field.code = "ue" -> code - 1
                          [] field.code = "se" -> IF code % 2 = 0 THEN code \div 2
                                                  ELSE -(code \div 2)]

-----------------------------------------------------------------------------
(* Probability models *)

Clip(low, high, x) == IF x < low THEN low ELSE IF x > high THEN high ELSE x

\* VvcCabacProbModel::from_init_value; the rates are those of the window size.
NewModel(initial, qp, window) ==
    LET slope == (initial \div 8) - 4
        offset == (initial % 8) * 18 + 1
        state == Clip(1, 127, ((slope * (Clip(0, 63, qp) - 16)) \div 2) + offset) * 256
        rate == 2 + ((window \div 4) % 4)
    IN  [fast |-> (state \div 32) * 32, slow |-> (state \div 2) * 2,
         fastRate |-> rate, slowRate |-> rate + 3 + (window % 4)]

StateOf(model) == (model.fast + model.slow) \div 256
MostProbable(model) == IF StateOf(model) >= 128 THEN 1 ELSE 0

\* lps_from_state: the part of the range the less probable value gets.
LpsRange(model, range) ==
    LET q == IF StateOf(model) >= 128 THEN 255 - StateOf(model) ELSE StateOf(model)
    IN  (((q \div 4) * (range \div 32)) \div 2) + 4

\* update: the two estimates move towards the value, each at its own rate.
Adapted(model, bin) ==
    LET move(state, rate, unit) ==
            state - ((state \div 2^rate) \div unit) * unit
                  + bin * (((32767 \div 2^rate) \div unit) * unit)
    IN  [model EXCEPT !.fast = move(@, model.fastRate, 32), !.slow = move(@, model.slowRate, 2)]

-----------------------------------------------------------------------------
(* The coder *)

\* start
NewCabac == [low |-> 0, range |-> 510, buffered |-> 255, waiting |-> 0, left |-> 23, bits |-> <<>>]

Bytes(value, n) == FlattenSeq([i \in 1..n |-> BitsOf(value % 256, 8)])

\* Mutant: a carry reaches the byte held back but not the bytes of 0xff behind it.
MutWriteOut(c) ==
    LET lead == c.low \div 2^(24 - c.left)
        left == c.left + 8
        settled == [c EXCEPT !.low = @ % 2^(32 - left), !.left = left]
    IN  IF c.left >= 12 THEN c
        ELSE IF lead = 255 THEN [settled EXCEPT !.waiting = @ + 1]
        ELSE IF c.waiting = 0 THEN [settled EXCEPT !.waiting = 1, !.buffered = lead]
        ELSE [settled EXCEPT
                !.buffered = lead % 256, !.waiting = 1,
                !.bits = @ \o Bytes(c.buffered + lead \div 256, 1)
                           \o Bytes(255, c.waiting - 1)]

\* write_out, once fewer than 12 bits are left: a byte leaves the code, and
\* settles the byte held back and the run of 0xff behind it.
WriteOut(c) ==
    LET lead == c.low \div 2^(24 - c.left)
        left == c.left + 8
        settled == [c EXCEPT !.low = @ % 2^(32 - left), !.left = left]
    IN  IF c.left >= 12 THEN c
        ELSE IF lead = 255 THEN [settled EXCEPT !.waiting = @ + 1]
        ELSE IF c.waiting = 0 THEN [settled EXCEPT !.waiting = 1, !.buffered = lead]
        ELSE [settled EXCEPT
                !.buffered = lead % 256, !.waiting = 1,
                !.bits = @ \o Bytes(c.buffered + lead \div 256, 1)
                           \o Bytes(255 + lead \div 256, c.waiting - 1)]

\* low and range after n bits have become final (renormalisation).
Shifted(c, low, range, n) ==
    WriteOut([c EXCEPT !.low = low * 2^n, !.range = range * 2^n, !.left = @ - n])

\* renorm_bits
RenormBits(range) == CHOOSE n \in 0..8 : range * 2^n \in 256..511

\* encode_bin; the more probable value never needs more than one bit.
EncodeBin(c, model, bin) ==
    LET lps == LpsRange(model, c.range)
        range == c.range - lps
    IN  IF bin # MostProbable(model) THEN Shifted(c, c.low + range, lps, RenormBits(lps))
        ELSE Shifted(c, c.low, range, IF range < 256 THEN 1 ELSE 0)

\* encode_bins_ep and, at a range of 256, encode_aligned_bins_ep: eight bins at
\* a time; encode_bin_ep is the case of one.  Behind the bins that are a
\* multiple of eight the unaligned form takes up to eight, the aligned the rest.
EncodeBypass(c, value, count) ==
    LET step[n \in 0..count] ==         \* n bins still to encode
            IF n = count THEN c
            ELSE LET m == CHOOSE m \in n + 1..count : m - n <= 8 /\ (count - m) % 8 = 0
                     s == step[m]
                 IN  WriteOut([s EXCEPT !.low = @ * 2^(m - n) + s.range * ((value \div 2^n) % 2^(m - n)),
                                        !.left = @ - (m - n)])
    IN  step[0]

\* encode_bin_trm of the end of the slice.
EncodeEnd(c) == Shifted([c EXCEPT !.range = @ - 2], c.low + c.range - 2, 2, 7)

\* finish_payload
FinishCabac(c) ==
    LET carry == c.low \div 2^(32 - c.left)
        low == c.low - carry * 2^(32 - c.left)
        held == IF carry > 0 \/ c.waiting > 0 THEN Bytes(c.buffered + carry, 1) ELSE <<>>
    IN  c.bits \o held \o Bytes(255 + carry, c.waiting - 1)
               \o BitsOf(low \div 256, 24 - c.left)

-----------------------------------------------------------------------------
(* Remainders of coefficient levels *)

RemainderCutoff == 5        \* COEF_REMAIN_BIN_REDUCTION
DynamicRange == 15          \* MAX_LOG2_TR_DYNAMIC_RANGE
MaxPrefix == 32 - RemainderCutoff - DynamicRange

Ones(n) == 2^n - 1

\* encode_rem_abs_ep: a unary prefix and a suffix, both without a model.  The
\* last bin of a suffix that follows no zero of the prefix is that zero.
RemainderBins(value, rice) ==
    LET code == value \div 2^rice - RemainderCutoff
        p == CHOOSE p \in 0..MaxPrefix :
                /\ (p < MaxPrefix => code <= 2^(p + 1) - 2)
                /\ \A q \in 0..p - 1 : code > 2^(q + 1) - 2
        suffix == IF code >= Ones(MaxPrefix) THEN DynamicRange ELSE p + rice + 1
    IN  IF value < RemainderCutoff * 2^rice
        THEN <<[value |-> Ones(value \div 2^rice) * 2, count |-> (value \div 2^rice) + 1],
               [value |-> value % 2^rice, count |-> rice]>>
        ELSE <<[value |-> Ones(p + RemainderCutoff), count |-> p + RemainderCutoff],
               [value |-> (code - Ones(p)) * 2^rice + (value % 2^rice), count |-> suffix]>>

EncodeRemainder(c, value, rice) ==
    LET bins == RemainderBins(value, rice)
    IN  EncodeBypass(EncodeBypass(c, bins[1].value, bins[1].count), bins[2].value, bins[2].count)

-----------------------------------------------------------------------------
(* The reader *)

\* The reader sees zeros behind the end of what it was given.
CodeBit(bytes, i) == IF HasBits(bytes, i, 1) THEN BitAt(bytes, i) ELSE 0

StartReading(bytes, i) ==
    [range |-> 510, next |-> i + 9, bin |-> 0,
     offset |-> ValueOf([k \in 1..9 |-> CodeBit(bytes, i + k - 1)])]

\* The interval of the value found, renormalised.
Renormalised(r, bytes, offset, range, bin) ==
    LET n == RenormBits(range)
    IN  [range |-> range * 2^n, next |-> r.next + n, bin |-> bin,
         offset |-> offset * 2^n + ValueOf([k \in 1..n |-> CodeBit(bytes, r.next + k - 1)])]

ReadBin(r, bytes, model) ==
    LET lps == LpsRange(model, r.range)
        range == r.range - lps
    IN  IF r.offset >= range
        THEN Renormalised(r, bytes, r.offset - range, lps, 1 - MostProbable(model))
        ELSE Renormalised(r, bytes, r.offset, range, MostProbable(model))

ReadBypass(r, bytes) ==
    LET offset == r.offset * 2 + CodeBit(bytes, r.next)
    IN  IF offset >= r.range THEN [r EXCEPT !.offset = offset - r.range, !.next = @ + 1, !.bin = 1]
        ELSE [r EXCEPT !.offset = offset, !.next = @ + 1, !.bin = 0]

\* A number of bypass bins; the value is left in "bin".
ReadBypassBins(r, bytes, count) ==
    LET step[n \in 0..count] ==
            IF n = 0 THEN [r EXCEPT !.bin = 0]
            ELSE LET before == step[n - 1]
                     s == ReadBypass(before, bytes)
                 IN  [s EXCEPT !.bin = before.bin * 2 + s.bin]
    IN  step[count]

\* The end of the slice: nothing is read any more.
ReadEnd(r) == [r EXCEPT !.bin = IF r.offset >= r.range - 2 THEN 1 ELSE 0]

\* A remainder: ones up to a zero, at most MaxPrefix behind the cutoff, then
\* the suffix.
ReadRemainder(r, bytes, rice) ==
    LET most == RemainderCutoff + MaxPrefix
        prefix[n \in 0..most] ==
            IF n = 0 THEN [reader |-> r, ones |-> 0, open |-> TRUE]
            ELSE LET before == prefix[n - 1]
                     s == ReadBypass(before.reader, bytes)
                 IN  IF ~before.open THEN before
                     ELSE [reader |-> s, ones |-> before.ones + s.bin, open |-> s.bin = 1]
        ones == prefix[most].ones
        extra == ones - RemainderCutoff
        count == IF extra < 0 THEN rice ELSE IF ones = most THEN DynamicRange ELSE extra + rice
        s == ReadBypassBins(prefix[most].reader, bytes, count)
    IN  [s EXCEPT !.bin = IF extra < 0 THEN ones * 2^rice + s.bin
                          ELSE (Ones(extra) + RemainderCutoff) * 2^rice + s.bin]
=============================================================================

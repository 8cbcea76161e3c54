--------------------------- MODULE VvcSliceSyntax ---------------------------
(***************************************************************************)
(* How a VVC unit is put together (vvc/headers/mod.rs, vvc/ctu_params.rs): *)
(* header fields, for a slice the alignment and the arithmetic code of its *)
(* data, the trailing bits; then the units into the Annex B stream.        *)
(*                                                                         *)
(* Which fields a header has is the subject of VvcHeaders and which bins a *)
(* CTU has that of VvcCtuTree; here any may follow any.                    *)
(***************************************************************************)
EXTENDS VvcCabac, TLC

CONSTANTS
    Fields,         \* the header fields TLC chooses from
    Bins,           \* the calls of the arithmetic coder TLC chooses from
    MaxCalls,       \* fields and bins of a stream, a bound for TLC
    MaxUnits,       \* units of a stream, a bound for TLC
    SliceQp,        \* slice_qp
    SliceTypes,     \* VvcCabacInitType: the slice types a stream may have
    InitValue,      \* init_value_for: by slice type and context
    Window          \* log2_window_size: by context

SliceSyntaxAssumption ==
    /\ MaxCalls \in Nat /\ MaxUnits \in Nat
    /\ SliceQp \in Int
    /\ DOMAIN InitValue = SliceTypes
ASSUME SliceSyntaxAssumption

VARIABLES
    phase,      \* "header", "data" or "end"
    unit,       \* the unit at hand: its fields, its bins and its slice type
    writer,     \* VvcSyntaxWriter
    cabac,      \* VvcCabacEncoder
    models,     \* VvcCabacContexts
    units       \* the finished units, with what was written into each

syntaxVars == <<phase, unit, writer, cabac, models, units>>

EmptyUnit == [fields |-> <<>>, bins |-> <<>>, slice |-> FALSE, sliceType |-> "none"]

InitialModels(sliceType) ==
    [context \in DOMAIN Window |->
        NewModel(InitValue[sliceType][context], SliceQp, Window[context])]

CallsMade ==
    LET made(u) == Len(u.fields) + Len(u.bins)
        before[i \in 0..Len(units)] == IF i = 0 THEN made(unit) ELSE before[i - 1] + made(units[i])
    IN  before[Len(units)]

SyntaxInit ==
    /\ phase = "header"
    /\ unit = EmptyUnit
    /\ writer = NoBits
    /\ cabac = NewCabac
    /\ models = << >>
    /\ units = <<>>

\* A field of a parameter set, picture header or slice header.
WriteField(field) ==
    /\ phase = "header" /\ CallsMade < MaxCalls
    /\ unit' = [unit EXCEPT !.fields = Append(@, field)]
    /\ writer' = WriteBits(writer, FieldBits(field))
    /\ UNCHANGED <<phase, cabac, models, units>>

\* write_vvc_slice_header_byte_alignment, and the start of the arithmetic code
\* with the models of the slice's type.
StartData(sliceType) ==
    /\ phase = "header"
    /\ phase' = "data"
    /\ unit' = [unit EXCEPT !.slice = TRUE, !.sliceType = sliceType]
    /\ writer' = TrailingBits(writer)
    /\ cabac' = NewCabac
    /\ models' = InitialModels(sliceType)
    /\ UNCHANGED units

EncodeCall(call) ==
    /\ phase = "data" /\ CallsMade < MaxCalls
    /\ unit' = [unit EXCEPT !.bins = Append(@, call)]
    /\ CASE call.kind = "context" ->
                /\ cabac' = EncodeBin(cabac, models[call.context], call.value)
                /\ models' = [models EXCEPT ![call.context] = Adapted(@, call.value)]
         [] call.kind = "bypass" ->
                cabac' = EncodeBypass(cabac, call.value, call.count) /\ UNCHANGED models
         [] call.kind = "remainder" ->
                cabac' = EncodeRemainder(cabac, call.value, call.rice) /\ UNCHANGED models
    /\ UNCHANGED <<phase, writer, units>>

FinishUnit(w) ==
    /\ units' = Append(units, unit @@
                    [rbsp |-> TrailingBits(w).bytes, layer |-> 0, temporal |-> 0,
                     type |-> IF unit.slice THEN 0 ELSE 15])
    /\ phase' = IF Len(units') = MaxUnits THEN "end" ELSE "header"
    /\ unit' = EmptyUnit
    /\ writer' = NoBits
    /\ cabac' = NewCabac

\* A parameter set or a picture header ends.
EndHeader ==
    /\ phase = "header" /\ unit.fields # <<>>
    /\ FinishUnit(writer)
    /\ UNCHANGED models

\* Bytes of a payload of bits, the last filled up with zeros (VvcPackedBits::finish).
Packed(bits) == AlignZero(WriteBits(NoBits, bits)).bytes

\* The end of the last CTU of a slice: the terminating bin, the payload of the
\* arithmetic coder, and the trailing bits of the slice.
EndSlice ==
    /\ phase = "data"
    /\ LET payload == FinishCabac(EncodeEnd(cabac))
       IN  FinishUnit(WritePackedBits(writer, Packed(payload), Len(payload)))
    /\ UNCHANGED models

SyntaxNext ==
    \/ \E field \in Fields : WriteField(field)
    \/ \E sliceType \in SliceTypes : StartData(sliceType)
    \/ \E call \in Bins : EncodeCall(call)
    \/ EndHeader
    \/ EndSlice

-----------------------------------------------------------------------------
(* The reader *)

\* The position behind the fields of a payload, when every field was found
\* with its value; -1 otherwise.
FieldsRead(bytes, fields) ==
    LET behind[i \in 0..Len(fields)] ==
            IF i = 0 THEN 0
            ELSE LET before == behind[i - 1]
                     f == ReadField(bytes, before, fields[i])
                 IN  IF before # -1 /\ f.found /\ f.value = fields[i].value THEN f.next ELSE -1
    IN  behind[Len(fields)]

ReadOne(r, bytes, known, call) ==
    CASE call.kind = "context" -> ReadBin(r, bytes, known[call.context])
      [] call.kind = "bypass" -> ReadBypassBins(r, bytes, call.count)
      [] call.kind = "remainder" -> ReadRemainder(r, bytes, call.rice)

\* The reader, with models of its own, behind the data of a slice, and whether
\* it found the value of every bin.
DataRead(bytes, begin, u) ==
    LET behind[i \in 0..Len(u.bins)] ==
            IF i = 0 THEN [reader |-> StartReading(bytes, begin), found |-> TRUE,
                           models |-> InitialModels(u.sliceType)]
            ELSE LET before == behind[i - 1]
                     call == u.bins[i]
                     r == ReadOne(before.reader, bytes, before.models, call)
                 IN  [reader |-> r, found |-> before.found /\ r.bin = call.value,
                      models |-> IF call.kind = "context"
                                 THEN [before.models EXCEPT ![call.context] = Adapted(@, r.bin)]
                                 ELSE before.models]
    IN  behind[Len(u.bins)]

\* One bit set and zeros to the end of the byte.
IsAlignment(bytes, i) ==
    /\ HasBits(bytes, i, 1) /\ BitAt(bytes, i) = 1
    /\ \A k \in i + 1 .. 8 * ((i \div 8) + 1) - 1 : BitAt(bytes, k) = 0

DataBegin(headerEnd) == 8 * ((headerEnd \div 8) + 1)

-----------------------------------------------------------------------------
(* Properties *)

\* A decoder that is given the byte stream finds the units that were written, in
\* each the value of every header field, and in each slice the value of every
\* bin, whatever carried into what, with models of its own.
UnitsAreFound(found) ==
    /\ Len(found) = Len(units)
    /\ \A i \in DOMAIN units :
        LET u == units[i]
            rbsp == Unescape(SubSeq(found[i], 3, Len(found[i])))
            headerEnd == FieldsRead(rbsp, u.fields)
        IN  /\ BitsFrom(found[i], 0, 16) = BitsOf(0, 8) \o BitsOf(u.type, 5) \o <<0, 0, 1>>
            /\ headerEnd # -1
            /\ IsAlignment(rbsp, headerEnd)
            /\ u.slice => DataRead(rbsp, DataBegin(headerEnd), u).found

\* Behind the terminating bin a decoder has read the code of the slice and, as
\* its last bit, the stop bit; nothing but zeros to the end of the byte follow.
EndsAtStopBit(u) ==
    LET last == ReadEnd(DataRead(u.rbsp, DataBegin(FieldsRead(u.rbsp, u.fields)), u).reader)
    IN  /\ last.bin = 1
        /\ IsAlignment(u.rbsp, last.next - 1)
        /\ last.next - 1 >= 8 * (Len(u.rbsp) - 1)

\* No unit holds a start code or three bytes a decoder would take for an escape
\* that is none, and none ends in a zero a reader would drop.
IsTransparent(u) ==
    LET escaped == Escape(u.rbsp)
    IN  /\ \A k \in 1..Len(escaped) - 2 :
            ~(escaped[k] = 0 /\ escaped[k + 1] = 0 /\ escaped[k + 2] \in 0..2)
        /\ Unescape(escaped) = u.rbsp
        /\ escaped[Len(escaped)] # 0

\* A decoder finds in the byte stream what was written: its units, the fields and
\* bins in them, the ends of the slices, and no start code where there is none.
ReaderFindsWhatWasWritten ==
    phase = "end" =>
        /\ UnitsAreFound(NalUnits(AnnexB(units)))
        /\ \A i \in DOMAIN units : IsTransparent(units[i]) /\ (units[i].slice => EndsAtStopBit(units[i]))
=============================================================================

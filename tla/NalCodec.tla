------------------------------ MODULE NalCodec ------------------------------
(***************************************************************************)
(* The byte-level codecs of protocol/src/nal.rs and                        *)
(* macos-host/src/encode_vt.rs as operators on sequences of cells.  A cell *)
(* is a byte, except that a byte of a parameter set carries one bit: the   *)
(* start-code emulation that the escaping exists for, the bit reader and   *)
(* the parse of an SPS then all work on short sequences.                   *)
(***************************************************************************)
EXTENDS Integers, Sequences, SequencesExt, FiniteSetsExt

CONSTANT WordMax    \* bound: the largest value of a u32

Nothing == <<>>     \* None of the Option-valued functions

NON_IDR_SLICE == 1
IDR_SLICE == 5
SEI == 6
SPS == 7
PPS == 8
AUD == 9

StartCode == <<0, 0, 0, 1>>

NalUnitType(nal) == IF nal = <<>> THEN 0 ELSE nal[1] % 32

-----------------------------------------------------------------------------
(* Annex B: finding the units in a stream.                                 *)

Marks(stream) ==
    {i \in 1 .. Len(stream) - 2 :
        stream[i] = 0 /\ stream[i + 1] = 0 /\ stream[i + 2] = 1}

\* Where the next start code begins, with the zeros before it, and where the
\* unit behind it does.
FindStartCode(stream, from) ==
    LET later == {i \in Marks(stream) : i >= from}
        zeros(i) == {k \in from .. i : \A j \in k .. i - 1 : stream[j] = 0}
    IN  IF later = {} THEN Nothing
        ELSE <<Min(zeros(Min(later))), Min(later) + 3>>

NalUnits(stream) ==
    LET unit(first, last) == IF first > last THEN <<>> ELSE <<SubSeq(stream, first, last)>>
        after[data \in Nat \ {0}] ==
            LET code == FindStartCode(stream, data)
            IN  IF code = Nothing THEN unit(data, Len(stream))
                ELSE unit(data, code[1] - 1) \o after[code[2]]
        first == FindStartCode(stream, 1)
    IN  IF first = Nothing THEN <<>> ELSE after[first[2]]

TypesIn(stream) == {NalUnitType(nal) : nal \in ToSet(NalUnits(stream))}

IsKeyframe(stream) == IDR_SLICE \in TypesIn(stream)

HasInBandConfig(stream) == {SPS, PPS} \subseteq TypesIn(stream)

\* The first SPS and the first PPS.
ExtractCodecConfig(stream) ==
    LET first(type) == SelectInSeq(NalUnits(stream), LAMBDA nal : NalUnitType(nal) = type)
    IN  IF ~HasInBandConfig(stream) THEN Nothing
        ELSE [sps |-> NalUnits(stream)[first(SPS)], pps |-> NalUnits(stream)[first(PPS)]]

CodecConfigToAnnexB(config) == StartCode \o config.sps \o StartCode \o config.pps

ToAnnexBAccessUnit(nal, keyframe, config) ==
    IF keyframe /\ config # Nothing /\ ~HasInBandConfig(nal)
    THEN CodecConfigToAnnexB(config) \o nal
    ELSE nal

\* Where the three-byte codes are, in their order.
StartCodeOffsets(stream) ==
    LET from[i \in Nat \ {0}] ==
            LET later == {m \in Marks(stream) : m >= i}
            IN  IF later = {} THEN <<>> ELSE <<Min(later)>> \o from[Min(later) + 3]
    IN  from[1]

\* One access unit for each slice: behind a slice, the next unit that may open a
\* picture starts a new one.
SplitAccessUnits(stream) ==
    LET offsets == StartCodeOffsets(stream)
        type(i) == NalUnitType(SubSeq(stream, offsets[i] + 3, Len(stream)))
        vcl(i) == type(i) \in {IDR_SLICE, NON_IDR_SLICE}
        opens(i) == vcl(i) \/ type(i) \in {SPS, PPS, SEI, AUD}
        split[at \in (Nat \ {0}) \X (Nat \ {0}) \X BOOLEAN] ==
            LET i == at[1]
                start == at[2]
                seen == at[3]
            IN  IF i > Len(offsets) THEN <<SubSeq(stream, start, Len(stream))>>
                ELSE IF seen /\ opens(i)
                THEN <<SubSeq(stream, start, offsets[i] - 1)>>
                     \o split[<<i + 1, offsets[i], vcl(i)>>]
                ELSE split[<<i + 1, start, seen \/ vcl(i)>>]
    IN  IF offsets = <<>> THEN <<>> ELSE split[<<1, offsets[1], FALSE>>]

-----------------------------------------------------------------------------
(* AVCC: the encoder's length-prefixed units.                              *)

\* The length in front of a unit.
BigEndian(cells) ==
    LET value[i \in 0 .. Len(cells)] ==
            IF i = 0 THEN 0 ELSE 256 * value[i - 1] + cells[i]
    IN  value[Len(cells)]

\* The payloads of the walk, up to a length that claims more than is left;
\* empty units are skipped.
AvccNals(avcc, nalLengthSize) ==
    LET data(i) == i + nalLengthSize
        next(i) == data(i) + BigEndian(SubSeq(avcc, i, data(i) - 1))
        walk[i \in Nat \ {0}] ==
            IF data(i) - 1 > Len(avcc) \/ next(i) - 1 > Len(avcc) THEN <<>>
            ELSE (IF next(i) = data(i) THEN <<>> ELSE <<SubSeq(avcc, data(i), next(i) - 1)>>)
                 \o walk[next(i)]
    IN  IF nalLengthSize \in 1 .. 4 THEN walk[1] ELSE <<>>

\* Units as a stream, each behind a start code.
AnnexB(nals) == FlattenSeq([i \in DOMAIN nals |-> StartCode \o nals[i]])

AvccToAnnexB(avcc, nalLengthSize) == AnnexB(AvccNals(avcc, nalLengthSize))

AvccHasIdr(avcc, nalLengthSize) ==
    \E nal \in ToSet(AvccNals(avcc, nalLengthSize)) : NalUnitType(nal) = IDR_SLICE

ToAnnexBFrame(avcc, nalLengthSize, keyframe, params) ==
    (IF keyframe THEN CodecConfigToAnnexB(params) ELSE <<>>)
    \o AvccToAnnexB(avcc, nalLengthSize)

-----------------------------------------------------------------------------
(* The parameter sets: bits, Exp-Golomb codes, the SPS syntax.             *)

Value(bits) == FoldLeft(LAMBDA v, bit : 2 * v + bit, 0, bits)

\* A read is <<value, next position>>, or Nothing past the end.
ReadBits(rbsp, at, n) ==
    IF at + n - 1 > Len(rbsp) THEN Nothing
    ELSE <<Value(SubSeq(rbsp, at, at + n - 1)), at + n>>

\* As many zeros as there are bits behind the one.
ReadUe(rbsp, at) ==
    LET ones == {i \in at .. Len(rbsp) : rbsp[i] = 1}
        one == Min(ones)
        last == 2 * one - at
    IN  IF ones = {} \/ one - at > 31 \/ last > Len(rbsp) THEN Nothing
        ELSE <<Value(SubSeq(rbsp, one, last)) - 1, last + 1>>

\* read_se reads a code as read_ue does and gives it a sign.
Signed(k) == IF k % 2 = 0 THEN -(k \div 2) ELSE (k + 1) \div 2

\* The walk of one scaling list: a next scale of 0 ends the deltas.
SkipScalingList(rbsp, from, size) ==
    LET walk[j \in Nat, at \in Nat, last \in Int] ==
            LET delta == ReadUe(rbsp, at)
                next == (last + Signed(delta[1]) + 256) % 256
            IN  IF j = size THEN <<0, at>>
                ELSE IF delta = Nothing THEN Nothing
                ELSE IF next = 0 THEN <<0, delta[2]>>
                ELSE walk[j + 1, delta[2], next]
    IN  walk[0, from, 8]

SkipScalingLists(rbsp, from, lists) ==
    LET skip[i \in Nat, at \in Nat] ==
            LET present == ReadBits(rbsp, at, 1)
                list == SkipScalingList(rbsp, present[2], IF i < 6 THEN 16 ELSE 64)
            IN  IF i = lists THEN <<0, at>>
                ELSE IF present = Nothing THEN Nothing
                ELSE IF present[1] = 0 THEN skip[i + 1, present[2]]
                ELSE IF list = Nothing THEN Nothing
                ELSE skip[i + 1, list[2]]
    IN  skip[0, from]

SkipOffsets(rbsp, from, n) ==
    LET skip[j \in Nat, at \in Nat] ==
            LET offset == ReadUe(rbsp, at)
            IN  IF j = n THEN <<0, at>>
                ELSE IF offset = Nothing THEN Nothing ELSE skip[j + 1, offset[2]]
    IN  skip[0, from]

\* The syntax elements in their order with their codings.  The profile, which
\* only tells the high ones from the others, and the two bytes after it are a
\* bit each; no value of a signed element is used.
SpsSyntax ==
    <<<<"profile", "u">>, <<"flags", "u">>, <<"level", "u">>, <<"id", "ue">>,
      <<"chroma", "ue">>, <<"planes", "u">>, <<"luma_depth", "ue">>, <<"chroma_depth", "ue">>,
      <<"bypass", "u">>, <<"scaling", "u">>, <<"lists", "lists">>,
      <<"frame_num", "ue">>, <<"poc_type", "ue">>, <<"poc_lsb", "ue">>, <<"poc_zero", "u">>,
      <<"poc_non_ref", "se">>, <<"poc_field", "se">>, <<"poc_cycle", "ue">>,
      <<"poc_frames", "offsets">>, <<"refs", "ue">>, <<"gaps", "u">>,
      <<"width", "ue">>, <<"height", "ue">>, <<"mbs_only", "u">>, <<"mbaff", "u">>,
      <<"direct", "u">>, <<"crop", "u">>,
      <<"left", "ue">>, <<"right", "ue">>, <<"top", "ue">>, <<"bottom", "ue">>>>

SpsDefaults ==
    [name \in {SpsSyntax[i][1] : i \in DOMAIN SpsSyntax} |-> IF name = "chroma" THEN 1 ELSE 0]

\* Which elements an SPS with these values has.
Present(name, sps) ==
    /\ name \in {"chroma", "planes", "luma_depth", "chroma_depth", "bypass", "scaling", "lists"}
           => sps["profile"] = 1
    /\ name = "planes" => sps["chroma"] = 3
    /\ name = "lists" => sps["scaling"] = 1
    /\ name = "poc_lsb" => sps["poc_type"] = 0
    /\ name \in {"poc_zero", "poc_non_ref", "poc_field", "poc_cycle", "poc_frames"}
           => sps["poc_type"] = 1
    /\ name = "mbaff" => sps["mbs_only"] = 0
    /\ name \in {"left", "right", "top", "bottom"} => sps["crop"] = 1

ReadElement(rbsp, at, coding, sps) ==
    CASE coding = "u" -> ReadBits(rbsp, at, 1)
      [] coding \in {"ue", "se"} -> ReadUe(rbsp, at)
      [] coding = "lists" -> SkipScalingLists(rbsp, at, IF sps["chroma"] = 3 THEN 12 ELSE 8)
      [] coding = "offsets" -> SkipOffsets(rbsp, at, sps["poc_cycle"])

\* The payload without its emulation-prevention bytes.
Unescape(payload) ==
    FoldLeft(LAMBDA acc, cell :
                IF acc[2] >= 2 /\ cell = 3 THEN <<acc[1], 0>>
                ELSE <<Append(acc[1], cell), IF cell = 0 THEN acc[2] + 1 ELSE 0>>,
             <<<<>>, 0>>, payload)[1]

\* The parse is the values so far and the position; a read that fails ends it.
Parsed(acc, name, read) ==
    IF read = Nothing THEN Nothing ELSE <<[acc[1] EXCEPT ![name] = read[1]], read[2]>>

ParseSps(rbsp) ==
    FoldLeft(LAMBDA acc, element :
                IF acc = Nothing \/ ~Present(element[1], acc[1]) THEN acc
                ELSE Parsed(acc, element[1], ReadElement(rbsp, acc[2], element[2], acc[1])),
             <<SpsDefaults, 1>>, SpsSyntax)

\* Luma samples each crop offset stands for.
CropUnit(sps) ==
    <<IF sps["chroma"] \in {1, 2} THEN 2 ELSE 1,
      (IF sps["chroma"] = 1 THEN 2 ELSE 1) * (2 - sps["mbs_only"])>>

\* Every result must fit its word.
Cropped(coded, crop) ==
    IF {coded, crop, coded - crop} \subseteq 0 .. WordMax THEN coded - crop ELSE WordMax + 1

Displayed(parsed) ==
    <<Cropped((parsed[1]["width"] + 1) * 16,
              (parsed[1]["left"] + parsed[1]["right"]) * CropUnit(parsed[1])[1]),
      Cropped((2 - parsed[1]["mbs_only"]) * (parsed[1]["height"] + 1) * 16,
              (parsed[1]["top"] + parsed[1]["bottom"]) * CropUnit(parsed[1])[2])>>

DisplaySize(parsed) ==
    IF parsed = Nothing \/ WordMax + 1 \in ToSet(Displayed(parsed)) THEN Nothing
    ELSE Displayed(parsed)

\* The displayed size, unless the unit is no SPS, is cut short, or a result
\* does not fit.
SpsDimensions(nal) ==
    IF NalUnitType(nal) # SPS THEN Nothing ELSE DisplaySize(ParseSps(Unescape(Tail(nal))))
=============================================================================

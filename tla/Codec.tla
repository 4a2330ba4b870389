------------------------------- MODULE Codec -------------------------------
(***************************************************************************)
(* Message layouts, and what the serializers and the parsers of the stack  *)
(* do with them.  A message is the sequence of its declared fields; a      *)
(* layout is the sequence of the statements that write (or read) it.       *)
(***************************************************************************)
EXTENDS Integers, Sequences, SequencesExt

(***************************************************************************)
(* Octets, and the structured values that the GATT profiles put into their *)
(* messages: LE Audio metadata, codec configurations and capabilities, the *)
(* subgroups of a broadcast, ANCS attribute requests, heart-rate           *)
(* measurements.  A reader gives the set with the value, empty on error.   *)
(*                                                                         *)
(* An octet is a pair.  <<0, n>> is an octet whose number the code looks   *)
(* at (a length, a count, a code, a PHY mask); <<i, j>> with i > 0 is the  *)
(* j-th octet of the i-th field, whose number nothing depends on.  Every   *)
(* multi-octet integer is in wire order, so a field is an octet sequence.  *)
(***************************************************************************)

Num(n) == <<0, n % 256>>
NumPair(n) == <<Num(n), Num(n \div 256)>>
Big(n) == <<Num(n \div 256), Num(n)>>
Octet(i, j, k) == <<i, 1000 * j + k>>
Opaque(i, j, n) == [k \in 1..n |-> Octet(i, j, k)]
Box(v) == <<Num(Len(v))>> \o v

\* The first n octets and those behind them.
Cut(data, n) ==
    IF n <= Len(data) THEN {[v |-> SubSeq(data, 1, n), rest |-> SubSeq(data, n + 1, Len(data))]}
    ELSE {}
\* `length_prefixed`.
CutBox(data) ==
    IF data = <<>> THEN {}
    ELSE IF Head(data)[1] # 0 THEN {} ELSE Cut(Tail(data), Head(data)[2])

(***************************************************************************)
(* Length, tag, value: [tag, data], the length counting the tag.           *)
(***************************************************************************)
Entry(tag, data) == [tag |-> tag, data |-> data]
EntryBytes(e) == Box(<<e.tag>> \o e.data)
MetadataBytes(entries) == FlattenSeq([r \in DOMAIN entries |-> EntryBytes(entries[r])])

RECURSIVE EntriesFrom(_, _)
EntriesFrom(before, data) ==
    IF data = <<>> THEN {before}
    ELSE UNION {EntriesFrom(Append(before, Entry(Head(b.v), Tail(b.v))), b.rest) :
                  b \in {c \in CutBox(data) : c.v # <<>>}}
parse_ltv(data) == EntriesFrom(<<>>, data)

\* Every entry with a tag of `sizes` has that many octets.
require_ltv_length(entries, sizes) ==
    \A r \in DOMAIN entries, t \in DOMAIN sizes :
        entries[r].tag = Num(t) => Len(entries[r].data) = sizes[t]
\* The last entry with a tag counts; without one, `default`.
Tagged(entries, t, default) ==
    LET with == {r \in DOMAIN entries : entries[r].tag = Num(t)}
    IN  IF with = {} THEN default ELSE entries[CHOOSE r \in with : \A s \in with : s <= r].data

\* CodecSpecificConfiguration: five options, empty for None.
CONFIGURATION_SIZES == <<1, 1, 4, 2, 1>>
ConfigurationBytes(c) ==
    FlattenSeq([t \in 1..5 |-> IF c[t] = <<>> THEN <<>> ELSE EntryBytes(Entry(Num(t), c[t]))])
ConfigurationFrom(data) ==
    {[t \in 1..5 |-> Tagged(es, t, <<>>)] :
       es \in {e \in parse_ltv(data) : require_ltv_length(e, CONFIGURATION_SIZES)}}

\* CodecSpecificCapabilities: four values, and the channel counts that the
\* third tag has as bits; or, of a vendor's codec, the octets alone.
CAPABILITIES_SIZES == <<2, 1, 1, 4, 1>>
channel_counts_to_bits(counts) == FoldLeft(LAMBDA bits, n : bits + 2^(n - 1), 0, counts)
bits_to_channel_counts(bits) ==
    SelectSeq([n \in 1..8 |-> n], LAMBDA n : (bits \div 2^(n - 1)) % 2 = 1)
Standard(values, counts) == [vendor |-> <<>>, values |-> values, counts |-> counts]
Vendor(octets) == [vendor |-> octets, values |-> <<>>, counts |-> <<>>]
CapabilitiesBytes(c) ==
    IF c.values = <<>> THEN c.vendor
    ELSE MetadataBytes(<<Entry(Num(1), c.values[1]), Entry(Num(2), c.values[2]),
                         Entry(Num(3), <<Num(channel_counts_to_bits(c.counts))>>),
                         Entry(Num(4), c.values[3]), Entry(Num(5), c.values[4])>>)
CapabilitiesFrom(data) ==
    {Standard(<<Tagged(es, 1, <<>>), Tagged(es, 2, <<>>), Tagged(es, 4, <<>>),
                Tagged(es, 5, <<Num(1)>>)>>,
              bits_to_channel_counts(Tagged(es, 3, <<Num(1)>>)[1][2])) :
       es \in {e \in parse_ltv(data) :
                 /\ require_ltv_length(e, CAPABILITIES_SIZES)
                 /\ \A t \in {1, 2, 4} : Tagged(e, t, <<>>) # <<>>}}

(***************************************************************************)
(* The PAC records of a characteristic: a count, then the records.         *)
(***************************************************************************)
VENDOR_SPECIFIC_CODEC_ID == Num(255)
PacBytes(p) == p.format \o Box(CapabilitiesBytes(p.capabilities)) \o Box(MetadataBytes(p.metadata))
PacListBytes(records) ==
    <<Num(Len(records))>> \o FlattenSeq([r \in DOMAIN records |-> PacBytes(records[r])])

PacCapabilities(format, data) ==
    IF format[1] = VENDOR_SPECIFIC_CODEC_ID THEN {Vendor(data)} ELSE CapabilitiesFrom(data)
PacMetadata(f, c, m) ==
    {[v |-> [format |-> f.v, capabilities |-> k, metadata |-> es], rest |-> m.rest] :
       k \in PacCapabilities(f.v, c.v), es \in parse_ltv(m.v)}
PacFrom(data) ==
    UNION {UNION {UNION {PacMetadata(f, c, m) : m \in CutBox(c.rest)}
                    : c \in CutBox(f.rest)} : f \in Cut(data, 5)}
RECURSIVE PacsFrom(_, _, _)
PacsFrom(before, n, data) ==
    IF n = 0 THEN IF data = <<>> THEN {before} ELSE {}
    ELSE UNION {PacsFrom(Append(before, p.v), n - 1, p.rest) : p \in PacFrom(data)}
PacListFrom(data) == IF data = <<>> THEN {} ELSE PacsFrom(<<>>, Head(data)[2], Tail(data))

(***************************************************************************)
(* The subgroups of a BasicAudioAnnouncement, each with its BISes.         *)
(***************************************************************************)
BisBytes(b) == b.index \o Box(ConfigurationBytes(b.configuration))
SubgroupBytes(s) ==
    <<Num(Len(s.bis))>> \o s.codec_id \o Box(ConfigurationBytes(s.configuration))
    \o Box(MetadataBytes(s.metadata)) \o FlattenSeq([b \in DOMAIN s.bis |-> BisBytes(s.bis[b])])
SubgroupsBytes(groups) ==
    <<Num(Len(groups))>> \o FlattenSeq([g \in DOMAIN groups |-> SubgroupBytes(groups[g])])

BisFrom(data) ==
    UNION {UNION {{[v |-> [index |-> i.v, configuration |-> c], rest |-> b.rest] :
                     c \in ConfigurationFrom(b.v)} : b \in CutBox(i.rest)} : i \in Cut(data, 1)}
RECURSIVE BisesFrom(_, _, _)
BisesFrom(before, n, data) ==
    IF n = 0 THEN {[v |-> before, rest |-> data]}
    ELSE UNION {BisesFrom(Append(before, b.v), n - 1, b.rest) : b \in BisFrom(data)}
\* What stands between the count and the BISes.
SubgroupHead(data) ==
    UNION {UNION {UNION {
        {[codec_id |-> id.v, configuration |-> k, metadata |-> es, rest |-> m.rest] :
           k \in ConfigurationFrom(c.v), es \in parse_ltv(m.v)}
          : m \in CutBox(c.rest)} : c \in CutBox(id.rest)} : id \in Cut(data, 5)}
SubgroupFrom(n, data) ==
    UNION {{[v |-> [codec_id |-> h.codec_id, configuration |-> h.configuration,
                    metadata |-> h.metadata, bis |-> b.v], rest |-> b.rest] :
              b \in BisesFrom(<<>>, n, h.rest)} : h \in SubgroupHead(data)}
RECURSIVE SubgroupsLeft(_, _, _)
SubgroupsLeft(before, n, data) ==
    CASE n = 0 -> IF data = <<>> THEN {before} ELSE {}
      [] n > 0 /\ (data = <<>> \/ Head(data) = Num(0)) -> {}
      [] OTHER -> UNION {SubgroupsLeft(Append(before, g.v), n - 1, g.rest) :
                           g \in SubgroupFrom(Head(data)[2], Tail(data))}
SubgroupsFrom(data) == IF data = <<>> THEN {} ELSE SubgroupsLeft(<<>>, Head(data)[2], Tail(data))

(***************************************************************************)
(* ANCS attribute requests: title, subtitle and message have a maximum     *)
(* length, the others have none.                                           *)
(***************************************************************************)
LIMITED == {Num(1), Num(2), Num(3)}
RequestsBytes(requests) ==
    FlattenSeq([r \in DOMAIN requests |-> <<requests[r].id>> \o requests[r].max_length])
RECURSIVE RequestsLeft(_, _)
RequestsLeft(before, data) ==
    IF data = <<>> THEN {before}
    ELSE UNION {RequestsLeft(Append(before, [id |-> Head(data), max_length |-> m.v]), m.rest) :
                  m \in Cut(Tail(data), IF Head(data) \in LIMITED THEN 2 ELSE 0)}
RequestsFrom(data) == RequestsLeft(<<>>, data)

(***************************************************************************)
(* HeartRateMeasurement.  The rate has one octet below 256 and two above;  *)
(* RR intervals are in 1024ths of a second, rr a sequence of at most one   *)
(* list of them.                                                           *)
(***************************************************************************)
MeasurementFlags(m) ==
    (IF Len(m.heart_rate) = 2 THEN 1 ELSE 0)
    + (IF m.contact = <<>> THEN 0 ELSE 4 + 2 * m.contact[1])
    + (IF m.energy = <<>> THEN 0 ELSE 8) + (IF m.rr = <<>> THEN 0 ELSE 16)
MeasurementBytes(m) ==
    <<Num(MeasurementFlags(m))>> \o m.heart_rate \o m.energy \o FlattenSeq(FlattenSeq(m.rr))

HasFlag(flags, bit) == (flags \div bit) % 2 = 1
PairsOf(data) == [i \in 1..(Len(data) \div 2) |-> SubSeq(data, 2 * i - 1, 2 * i)]
IntervalsFrom(flags, data) ==
    CASE ~HasFlag(flags, 16)  -> {<<>>}
      [] Len(data) % 2 # 0    -> {}
      [] OTHER                -> {<<PairsOf(data)>>}
MeasurementRest(flags, data) ==
    UNION {UNION {{[heart_rate |-> h.v,
                    contact |-> IF HasFlag(flags, 4) THEN <<IF HasFlag(flags, 2) THEN 1 ELSE 0>>
                                ELSE <<>>,
                    energy |-> e.v, rr |-> rr] : rr \in IntervalsFrom(flags, e.rest)}
             : e \in Cut(h.rest, IF HasFlag(flags, 8) THEN 2 ELSE 0)}
             : h \in Cut(data, IF HasFlag(flags, 1) THEN 2 ELSE 1)}
MeasurementFrom(data) == IF data = <<>> THEN {} ELSE MeasurementRest(Head(data)[2], Tail(data))

(***************************************************************************)
(* All types of value: how they are written and read, and samples.         *)
(***************************************************************************)
ValueBytes(type, v) ==
    CASE type = "metadata"      -> MetadataBytes(v)
      [] type = "pacs"          -> PacListBytes(v)
      [] type = "subgroups"     -> SubgroupsBytes(v)
      [] type = "requests"      -> RequestsBytes(v)
      [] type = "measurement"   -> MeasurementBytes(v)

ValueFrom(type, data) ==
    CASE type = "metadata"      -> parse_ltv(data)
      [] type = "pacs"          -> PacListFrom(data)
      [] type = "subgroups"     -> SubgroupsFrom(data)
      [] type = "requests"      -> RequestsFrom(data)
      [] type = "measurement"   -> MeasurementFrom(data)

SampleMetadata(i, c) == [r \in 1..c.rows |-> Entry(Num(r), Opaque(i, r, c.octets % 60))]
SampleConfiguration(i, c) ==
    [t \in 1..5 |-> IF (t + c.rows) % 3 = 0 THEN <<>> ELSE Opaque(i, t, CONFIGURATION_SIZES[t])]
SampleCapabilities(i, c) ==
    IF c.tag = 1 THEN Vendor(Opaque(i, 0, c.octets))
    ELSE Standard([t \in 1..4 |-> Opaque(i, t, <<2, 1, 4, 1>>[t])], [n \in 1..c.rows |-> 2 * n])
SamplePac(i, j, c) ==
    [format |-> <<Num(6 + 249 * c.tag)>> \o Opaque(i, j, 4),
     capabilities |-> SampleCapabilities(i + 20 * j, c), metadata |-> SampleMetadata(i + 10 * j, c)]
SampleSubgroup(i, j, c) ==
    [codec_id |-> Opaque(i, j, 5), configuration |-> SampleConfiguration(i + 20 * j, c),
     metadata |-> SampleMetadata(i + 10 * j, c),
     bis |-> [b \in 1..j |-> [index |-> Opaque(i, 10 * j + b, 1),
                              configuration |-> SampleConfiguration(i + 30 * j + b, c)]]]
SampleMeasurement(i, c) ==
    [heart_rate |-> Opaque(i, 0, 1 + c.tag),
     contact |-> IF c.rows = 0 THEN <<>> ELSE <<c.rows % 2>>,
     energy |-> IF c.rows = 2 THEN <<>> ELSE Opaque(i, 1, 2),
     rr |-> IF c.octets = 0 THEN <<>> ELSE <<[r \in 1..c.rows |-> Opaque(i, 1 + r, 2)]>>]
SampleRequests(i, c) ==
    [r \in 1..c.rows |-> [id |-> Num(r + 1), max_length |-> Opaque(i, r, IF r < 3 THEN 2 ELSE 0)]]
SampleValue(type, i, c) ==
    CASE type = "metadata"      -> SampleMetadata(i, c)
      [] type = "pacs"          -> [j \in 1..c.rows |-> SamplePac(i, j, c)]
      [] type = "subgroups"     -> [j \in 1..c.rows |-> SampleSubgroup(i, j, c)]
      [] type = "requests"      -> SampleRequests(i, c)
      [] type = "measurement"   -> SampleMeasurement(i, c)

Kind(k, n, of) == [kind |-> k, n |-> n, of |-> of]

(***************************************************************************)
(* Kinds of statement.                                                     *)
(***************************************************************************)
Bytes(n)   == Kind("fixed", n, <<>>)      \* integers and fixed arrays
U8         == Bytes(1)
U16        == Bytes(2)
U32        == Bytes(4)
Coding     == Bytes(5)
U24        == Kind("u24", 3, <<>>)        \* a u32 of which 3 octets travel
Addr       == Kind("addr", 0, <<>>)       \* an address; read as public
RandomAddr == Kind("addr", 1, <<>>)       \* an address; read as random
TypedAddr  == Kind("typed", 0, <<>>)      \* read with the type read before it
Data       == Kind("data", 0, <<>>)       \* one length octet, then the octets
Padded(n)  == Kind("padded", n, <<>>)     \* a length octet, n octets
Vec(n)     == Kind("vec", n, <<>>)        \* exactly n octets, into a Vec
Rest       == Kind("rest", 0, <<>>)       \* everything that is left
ButLast(n) == Kind("butlast", n, <<>>)    \* everything but the last n
Each(of)   == Kind("each", 0, of)         \* a count octet, then that many rows
PerPhy(of) == Kind("perphy", 0, of)       \* a row per bit of the mask before it
Until(of)  == Kind("until", 0, of)        \* rows until the data ends
Tuples     == Kind("tuples", 0, <<>>)     \* u16 length and octets, until the end
Psm        == Kind("psm", 0, <<>>)        \* goes on while the last octet is odd
Uuid       == Kind("uuid", 0, <<>>)       \* the rest: 2, 4 or 16 octets
LmpCode    == Kind("lmpcode", 0, <<>>)    \* one octet, two after an escape
Data16     == Kind("data16", 0, <<>>)     \* a big-endian u16 length, the octets
Each16(of) == Kind("each16", 0, of)       \* a big-endian u16 count, the rows
Shares     == Kind("shares", 0, <<>>)     \* a count, the rest in that many equal parts
Seid       == Kind("seid", 1, <<>>)       \* a number in the upper six bits
Endpoints  == Kind("endpoints", 0, <<>>)  \* stream endpoints of two octets each
Tlvs       == Kind("tlvs", 0, <<>>)       \* tag, length octet, octets; until the end
Element    == Kind("element", 0, <<>>)    \* an SDP data element
Whole(type) == Kind("whole", 0, type)     \* the rest is one structured value
Boxed(type) == Kind("boxed", 0, type)     \* a length octet, a structured value
Name(n)    == Kind("name", n, <<>>)       \* the rest: a name of 1 to n octets
NulEnded   == Kind("nul", 0, <<>>)        \* a string, then an octet 0
BadCode    == Kind("badcode", 16, <<>>)   \* 16 octets if the octet before is 3
End        == Kind("end", 0, <<>>)        \* no octet may be left

\* Kinds that only a declaration has: a Vec<u8>, a Vec of another type, a
\* PHY mask, a status.
Octets   == Kind("octets", 0, <<>>)
List(of) == Kind("list", 0, <<of>>)
Phys     == Kind("phys", 1, <<>>)
Pick(of) == Kind("pick", 1, of)           \* one of the two numbers of `of`
Status   == Kind("status", 1, <<>>)

\* A row of a reader's table: the match arm's code, or codes, and its layout.
By(code, layout) == [code |-> code, layout |-> layout]
ByAny(codes, layout) == [codes |-> codes, layout |-> layout]

Grouped(k) == k.kind \in {"each", "each16", "perphy", "until"}

(***************************************************************************)
(* SDP data elements: [type, octets, items], the octets of a value or the  *)
(* elements of a sequence or an alternative.                               *)
(***************************************************************************)
NIL == 0
UUID_ELEMENT == 3
CONTAINERS == {6, 7}
VARIABLE_SIZE == {4, 8} \cup CONTAINERS
MAX_NESTING == 32
FIXED_SIZES == <<1, 2, 4, 8, 16>>

\* The header in front of the value of an element: its type, size index and size.
ElementHeader(type, size) ==
    CASE type \notin VARIABLE_SIZE ->
            <<Num(8 * type + (IF size = 0 THEN 0
                              ELSE (CHOOSE i \in 1..5 : FIXED_SIZES[i] = size) - 1))>>
      [] size <= 255   -> <<Num(8 * type + 5), Num(size)>>
      [] OTHER         -> <<Num(8 * type + 6)>> \o Big(size)

RECURSIVE ElementBytes(_)
WithHeader(type, value) == ElementHeader(type, Len(value)) \o value
ElementBytes(e) ==
    WithHeader(e.type, IF e.type \in CONTAINERS
                       THEN FlattenSeq([i \in DOMAIN e.items |-> ElementBytes(e.items[i])])
                       ELSE e.octets)

\* `Parser::parse_at`: the element at the cursor, which moves behind it.
NumberAt(data, i) == IF i <= Len(data) /\ data[i][1] = 0 THEN data[i][2] ELSE -1
SizeOctets(index) == CASE index = 5 -> 1 [] index = 6 -> 2 [] index = 7 -> 4 [] OTHER -> 0
ValueSize(data, type, index, at) ==
    CASE index = 0 -> IF type = NIL THEN 0 ELSE 1
      [] index \in 1..4 -> FIXED_SIZES[index + 1]
      [] index = 5 -> NumberAt(data, at)
      [] index = 6 -> IF NumberAt(data, at + 1) < 0 THEN -1
                      ELSE 256 * NumberAt(data, at) + NumberAt(data, at + 1)
      [] index = 7 -> IF NumberAt(data, at + 3) < 0 THEN -1
                      ELSE 256 * NumberAt(data, at + 2) + NumberAt(data, at + 3)

NoElement == [ok |-> FALSE, next |-> 0, element |-> [type |-> 0, octets |-> <<>>, items |-> <<>>]]
RECURSIVE ParseAt(_, _, _)
RECURSIVE ParseItems(_, _, _, _, _)
ParseItems(data, inner, end, depth, items) ==
    IF inner >= end THEN [ok |-> inner = end, items |-> items]
    ELSE \* an element that fails ends the loop
         LET child == ParseAt(data, inner, depth + 1)
         IN  IF child.ok THEN ParseItems(data, child.next, end, depth, Append(items, child.element))
             ELSE [ok |-> FALSE, items |-> items]
Contained(type, end, r) ==
    IF ~r.ok THEN NoElement
    ELSE [ok |-> TRUE, next |-> end, element |-> [type |-> type, octets |-> <<>>, items |-> r.items]]
ParseValue(data, type, start, size, depth) ==
    CASE size < 0 \/ start + size - 1 > Len(data) \/ type > 8 -> NoElement
      [] type \in CONTAINERS /\ depth >= MAX_NESTING -> NoElement
      [] type = UUID_ELEMENT /\ size \notin {2, 4, 16} -> NoElement
      [] type \in CONTAINERS ->
            Contained(type, start + size, ParseItems(data, start, start + size, depth, <<>>))
      [] OTHER -> [ok |-> TRUE, next |-> start + size,
                   element |-> [type |-> type, octets |-> SubSeq(data, start, start + size - 1),
                                items |-> <<>>]]
ParseHeader(data, at, header, depth) ==
    IF header < 0 THEN NoElement
    ELSE ParseValue(data, header \div 8, at + 1 + SizeOctets(header % 8),
                    ValueSize(data, header \div 8, header % 8, at + 1), depth)
ParseAt(data, at, depth) == ParseHeader(data, at, NumberAt(data, at), depth)

(***************************************************************************)
(* Writing.                                                                *)
(***************************************************************************)
Resized(v, n) == [k \in 1..n |-> IF k <= Len(v) THEN v[k] ELSE Num(0)]

Put(k, v) ==
    CASE k.kind \in {"fixed", "u24"}          -> SubSeq(v, 1, k.n)
      [] k.kind = "addr"                      -> Tail(v)
      [] k.kind = "data"                      -> <<Num(Len(v))>> \o v
      [] k.kind = "padded"                    -> <<Num(Len(v))>> \o Resized(v, k.n)
      [] k.kind = "tuples"                    ->
            FlattenSeq([r \in DOMAIN v |-> NumPair(Len(v[r])) \o v[r]])
      [] k.kind = "data16"                    -> Big(Len(v)) \o v
      [] k.kind = "shares"                    -> <<Num(Len(v))>> \o FlattenSeq(v)
      [] k.kind = "seid"                      -> <<Num(4 * v[1][2])>>
      [] k.kind = "element"                   -> ElementBytes(v)
      [] k.kind = "endpoints"                 ->
            FlattenSeq([r \in DOMAIN v |-> <<Num(4 * v[r].seid + 2 * v[r].in_use),
                                             Num(16 * v[r].media + 8 * v[r].tsep)>>])
      [] k.kind = "tlvs"                      ->
            FlattenSeq([r \in DOMAIN v |-> <<v[r].tag, Num(Len(v[r].data))>> \o v[r].data])
      [] k.kind = "whole"                     -> ValueBytes(k.of, v)
      [] k.kind = "boxed"                     -> Box(ValueBytes(k.of, v))
      [] k.kind = "nul"                       -> Append(v, Num(0))
      [] OTHER                                -> v

\* Parallel vectors are written row by row; the first one gives the count.
PutRows(of, columns) ==
    FlattenSeq([r \in 1..Len(columns[1]) |->
        FlattenSeq([c \in DOMAIN of |-> Put(of[c], columns[c][r])])])

\* A fold in two halves; the first is done before the second begins.
FoldHalves(op(_, _), base, seq) ==
    CHOOSE r \in {FoldLeft(op, mid, SubSeq(seq, Len(seq) \div 2 + 1, Len(seq))) :
                      mid \in {FoldLeft(op, base, SubSeq(seq, 1, Len(seq) \div 2))}} : TRUE

\* One statement: the octets written and the fields not written yet.
PutNext(st, k) ==
    IF Grouped(k)
    THEN LET columns == SubSeq(st.left, 1, Len(k.of))
         IN  [left |-> SubSeq(st.left, Len(k.of) + 1, Len(st.left)),
              out  |-> st.out
                       \o (CASE k.kind = "each"   -> <<Num(Len(columns[1]))>>
                             [] k.kind = "each16" -> Big(Len(columns[1]))
                             [] OTHER             -> <<>>)
                       \o PutRows(k.of, columns)]
    ELSE [left |-> Tail(st.left), out |-> st.out \o Put(k, Head(st.left))]

Write(layout, fields) ==
    FoldHalves(PutNext, [left |-> fields, out |-> <<>>], layout).out

(***************************************************************************)
(* Reading: a cursor over the octets that fails for good when a read goes  *)
(* past the end.                                                           *)
(***************************************************************************)
Failed(st) == [st EXCEPT !.ok = FALSE]
Left(st) == Len(st.data) - st.pos
Need(st, n) == n <= Left(st)
Ahead(st, n) == SubSeq(st.data, st.pos + 1, st.pos + n)

\* Take n octets, and make v of them.
Take(st, n, v) ==
    IF Need(st, n)
    THEN [st EXCEPT !.pos = @ + n, !.got = Append(@, v)]
    ELSE Failed(st)

\* The number in the next octet; -1 when there is none.
Peek(st, at) ==
    IF Need(st, at) /\ st.data[st.pos + at][1] = 0 THEN st.data[st.pos + at][2] ELSE -1

Peek16(st) == IF Peek(st, 1) < 0 \/ Peek(st, 2) < 0 THEN -1
              ELSE Peek(st, 1) + 256 * Peek(st, 2)

Skip(st, n) == [st EXCEPT !.pos = @ + n]

Ones[n \in 0..255] == IF n = 0 THEN 0 ELSE (n % 2) + Ones[n \div 2]

\* Length of the PSM at the cursor; 0 when the data ends inside it.
PsmLength(st) ==
    LET ends == {n \in 2..4 : Need(st, n) /\ Peek(st, n) % 2 = 0
                              /\ \A m \in 2..(n - 1) : Peek(st, m) % 2 = 1}
    IN  IF ends = {} THEN 0 ELSE CHOOSE n \in ends : TRUE

PeekBig(st) == IF Peek(st, 1) < 0 \/ Peek(st, 2) < 0 THEN -1
               ELSE 256 * Peek(st, 1) + Peek(st, 2)

\* Mutant: a length past the end of the data takes what there is.
CountedClamped(st, w, n) ==
    IF n < 0 THEN Failed(st)
    ELSE LET rest == Left(Skip(st, w))
             size == IF n < rest THEN n ELSE rest
         IN  Take(Skip(st, w), size, Ahead(Skip(st, w), size))

\* n octets behind a length of w octets, which is -1 when it is not there.
Counted(st, w, n) == IF n < 0 THEN Failed(st) ELSE Take(Skip(st, w), n, Ahead(Skip(st, w), n))

RECURSIVE TuplesFrom(_)
TuplesFrom(st) ==
    IF ~st.ok \/ Left(st) = 0 THEN st ELSE TuplesFrom(Counted(st, 2, Peek16(st)))

MEDIA_CODEC == Num(7)
Tlv(st, tag, n) ==
    IF n < 0 \/ (tag = MEDIA_CODEC /\ n < 2) THEN Failed(st)
    ELSE Take(Skip(st, 2), n, [tag |-> tag, data |-> Ahead(Skip(st, 2), n)])
RECURSIVE TlvsFrom(_)
TlvsFrom(st) ==
    IF ~st.ok \/ Left(st) = 0 THEN st
    ELSE TlvsFrom(Tlv(st, st.data[st.pos + 1], Peek(Skip(st, 1), 1)))

GetEndpoint(st, i) ==
    Take(st, 2, [seid |-> Peek(st, 1) \div 4, in_use |-> (Peek(st, 1) \div 2) % 2,
                 media |-> Peek(st, 2) \div 16, tsep |-> (Peek(st, 2) \div 8) % 2])

\* Take one thing after another until the data ends; they are one field.
Gathered(before, r) == [r EXCEPT !.got = Append(before, @)]
GetTuples(st) == Gathered(st.got, TuplesFrom([st EXCEPT !.got = <<>>]))
GetTlvs(st) == Gathered(st.got, TlvsFrom([st EXCEPT !.got = <<>>]))
GetEndpoints(st) ==
    IF Left(st) % 2 # 0 THEN Failed(st)
    ELSE Gathered(st.got, FoldLeft(GetEndpoint, [st EXCEPT !.got = <<>>],
                                   [i \in 1..(Left(st) \div 2) |-> i]))

\* n parts of `left` octets; event identifiers (capability 3) are one octet each.
EVENTS_SUPPORTED == <<Num(3)>>
Shared(st, left, n) ==
    IF \/ n < 0
       \/ Last(st.got) = EVENTS_SUPPORTED /\ left # n
       \/ n = 0 /\ left # 0
       \/ n > 0 /\ (left % n # 0 \/ left = 0)
    THEN Failed(st)
    ELSE Take(Skip(st, 1), left,
              [i \in 1..n |-> SubSeq(Ahead(Skip(st, 1), left), (i - 1) * (left \div n) + 1,
                                     i * (left \div n))])

GetElement(st, r) ==
    IF r.ok THEN [st EXCEPT !.pos = r.next - 1, !.got = Append(@, r.element)] ELSE Failed(st)

\* A structured value of n octets behind w octets.
Structured(st, w, n, values) ==
    IF values = {} THEN Failed(st) ELSE Take(Skip(st, w), n, CHOOSE v \in values : TRUE)
BoxedValue(st, type, n) ==
    IF n < 0 \/ ~Need(st, 1 + n) THEN Failed(st)
    ELSE Structured(st, 1, n, ValueFrom(type, Ahead(Skip(st, 1), n)))

\* Octets before the next 0; -1 when there is none.
NulAt(st) ==
    LET nuls == {n \in 1..Left(st) : Peek(st, n) = 0}
    IN  IF nuls = {} THEN -1 ELSE (CHOOSE n \in nuls : \A m \in nuls : n <= m) - 1

Get(st, k) ==
    CASE ~st.ok                -> st
      [] k.kind = "fixed"      -> Take(st, k.n, Ahead(st, k.n))
      [] k.kind = "u24"        -> Take(st, 3, Append(Ahead(st, 3), Num(0)))
      [] k.kind = "addr"       -> Take(st, 6, <<Num(k.n)>> \o Ahead(st, 6))
      [] k.kind = "typed"      -> Take(st, 6, Last(st.got) \o Ahead(st, 6))
      [] k.kind = "data"       -> Counted(st, 1, Peek(st, 1))
      [] k.kind = "data16"     -> Counted(st, 2, PeekBig(st))
      [] k.kind = "shares"     -> Shared(st, Left(st) - 1, Peek(st, 1))
      [] k.kind = "seid"       -> Take(st, 1, <<Num(Peek(st, 1) \div 4)>>)
      [] k.kind = "endpoints"  -> GetEndpoints(st)
      [] k.kind = "element"    -> GetElement(st, ParseAt(st.data, st.pos + 1, 0))
      [] k.kind = "tlvs"       -> GetTlvs(st)
      [] k.kind = "padded"     ->
            IF Peek(st, 1) < 0 THEN Failed(st)
            ELSE Take(Skip(st, 1), k.n,
                      Ahead(Skip(st, 1), IF Peek(st, 1) < k.n THEN Peek(st, 1) ELSE k.n))
      [] k.kind = "vec"        -> Take(st, k.n, Ahead(st, k.n))
      [] k.kind = "rest"       -> Take(st, Left(st), Ahead(st, Left(st)))
      [] k.kind = "butlast"    ->
            IF Need(st, k.n) THEN Take(st, Left(st) - k.n, Ahead(st, Left(st) - k.n))
            ELSE Failed(st)
      [] k.kind = "tuples"     -> GetTuples(st)
      [] k.kind = "psm"        ->
            IF PsmLength(st) = 0 THEN Failed(st)
            ELSE Take(st, PsmLength(st), Ahead(st, PsmLength(st)))
      [] k.kind = "uuid"       ->
            IF Left(st) \in {2, 4, 16} THEN Take(st, Left(st), Ahead(st, Left(st)))
            ELSE Failed(st)
      [] k.kind = "lmpcode"    ->
            IF Peek(st, 1) \in {124, 127} THEN Take(st, 2, Ahead(st, 2))
            ELSE Take(st, 1, Ahead(st, 1))
      [] k.kind = "whole"      ->
            Structured(st, 0, Left(st), ValueFrom(k.of, Ahead(st, Left(st))))
      [] k.kind = "boxed"      -> BoxedValue(st, k.of, Peek(st, 1))
      [] k.kind = "name"       ->
            IF Left(st) \in 1..k.n THEN Take(st, Left(st), Ahead(st, Left(st))) ELSE Failed(st)
      [] k.kind = "nul"        ->
            IF NulAt(st) < 0 THEN Failed(st) ELSE Skip(Take(st, NulAt(st), Ahead(st, NulAt(st))), 1)
      [] k.kind = "badcode"    ->
            IF Last(st.got) = <<Num(3)>> THEN Take(st, 16, Ahead(st, 16)) ELSE Take(st, 0, <<>>)
      [] k.kind = "end"        -> IF Left(st) = 0 THEN st ELSE Failed(st)

\* n rows, gathered into a vector per column.
GetRows(st, of, n) ==
    LET kinds == [i \in 1..(n * Len(of)) |-> of[((i - 1) % Len(of)) + 1]]
        r     == FoldHalves(Get, [st EXCEPT !.got = <<>>], kinds)
    IN  IF ~r.ok THEN Failed(st)
        ELSE [r EXCEPT !.got = st.got \o
                [c \in DOMAIN of |-> [i \in 1..n |-> r.got[(i - 1) * Len(of) + c]]]]

RowWidth(of) == FoldLeft(LAMBDA w, k : w + k.n, 0, of)

GetNext(st, k) ==
    CASE ~st.ok -> st
      [] k.kind = "each"   -> IF Peek(st, 1) < 0 THEN Failed(st)
                              ELSE GetRows(Skip(st, 1), k.of, Peek(st, 1))
      [] k.kind = "each16" -> IF PeekBig(st) < 0 THEN Failed(st)
                              ELSE GetRows(Skip(st, 2), k.of, PeekBig(st))
      [] k.kind = "perphy" -> GetRows(st, k.of, Ones[Last(st.got)[1][2]])
      [] k.kind = "until"  -> IF Left(st) % RowWidth(k.of) # 0 THEN Failed(st)
                              ELSE GetRows(st, k.of, Left(st) \div RowWidth(k.of))
      [] OTHER             -> Get(st, k)

Read(layout, data) ==
    FoldHalves(GetNext, [data |-> data, pos |-> 0, ok |-> TRUE, got |-> <<>>], layout)

(***************************************************************************)
(* Messages to try: a value for every declared field; c gives the choices. *)
(***************************************************************************)
Flat(layout) ==
    FlattenSeq([i \in DOMAIN layout |-> IF Grouped(layout[i]) THEN layout[i].of
                                        ELSE <<layout[i]>>])

Least(m, n) == IF m < n THEN m ELSE n
RoomFor(how) == CASE how.kind = "padded" -> how.n [] how.kind = "data" -> 255 [] OTHER -> 65000

\* An element of every type in a sequence in an alternative; rows lists in all.
Value(type, octets) == [type |-> type, octets |-> octets, items |-> <<>>]
Container(type, items) == [type |-> type, octets |-> <<>>, items |-> items]
SampleElement(i, rows, octets) ==
    Container(6, [j \in 1..rows |-> Container(7, <<
        Value(NIL, <<>>), Value(1, Opaque(i, j, 2)), Value(2, Opaque(i + 20, j, 4)),
        Value(UUID_ELEMENT, Opaque(i + 40, j, IF j = 1 THEN 16 ELSE 2)),
        Value(4, Opaque(i + 60, j, octets)), Value(5, <<Num(j % 2)>>),
        Value(8, Opaque(i + 80, j, 1))>>)])

\* A value for a field declared as `decl` and written as `how`; c gives the choices.
Scalar(decl, how, i, j, c) ==
    CASE how.kind = "u24"      -> Append(Opaque(i, j, 3), Num(0))
      [] decl.kind \in {"addr", "typed"} -> <<Num(c.tag)>> \o Opaque(i, j, 6)
      [] decl.kind \in {"whole", "boxed"} -> SampleValue(decl.of, i, c)
      [] decl.kind = "name"    -> Opaque(i, j, IF c.octets = 0 THEN 1 ELSE Least(c.octets, 40))
      [] decl.kind = "badcode" -> Opaque(i, j, 16 * c.tag)
      [] decl.kind = "octets"  -> Opaque(i, j, Least(c.octets, RoomFor(how)))
      [] decl.kind = "phys"    -> <<Num(2^c.rows - 1)>>
      [] decl.kind = "status"  -> <<Num(0)>>
      [] decl.kind = "pick"    -> <<Num(decl.of[c.tag + 1])>>
      [] decl.kind = "seid"    -> <<Num(62 * c.tag + 1)>>
      [] decl.kind = "endpoints" ->
            [r \in 1..c.rows |-> [seid |-> 60 + r, in_use |-> c.tag, media |-> r, tsep |-> r % 2]]
      [] decl.kind = "tlvs"    ->
            [r \in 1..c.rows |-> [tag |-> Num(5 + r), data |-> Opaque(i, r, 2 + (c.octets % 200))]]
      [] decl.kind = "element" -> SampleElement(i, c.rows, c.octets)
      [] decl.kind = "shares"  -> [r \in 1..c.rows |-> Opaque(i, r, 3 - 2 * c.tag)]
      [] decl.kind = "uuid"    -> Opaque(i, j, IF c.tag = 0 THEN 2 ELSE 16)
      [] decl.kind = "psm"     -> Append(<<Octet(i, j, 1)>>, Num(2))
      [] decl.kind = "tuples"  -> [r \in 1..c.rows |-> Opaque(i, r, c.octets)]
      [] decl.kind = "lmpcode" -> IF c.tag = 0 THEN <<Num(51)>> ELSE <<Num(127), Num(3)>>
      [] OTHER                 -> Opaque(i, j, how.n)

\* An address type octet stands before an address that is read with it.
FieldValue(decls, hows, i, c) ==
    LET decl  == IF decls[i].kind = "list" THEN decls[i].of[1] ELSE decls[i]
        typed == i < Len(decls) /\ decls[i + 1].kind = "list" /\ decls[i + 1].of[1].kind = "typed"
        Cell(j) == IF typed THEN <<Num(c.tag)>> ELSE Scalar(decl, hows[i], i, j, c)
    IN  IF decls[i].kind = "list" THEN [j \in 1..c.rows |-> Cell(j)] ELSE Cell(0)

Values(decls, written, c) ==
    [i \in DOMAIN decls |-> FieldValue(decls, Flat(written), i, c)]

=============================================================================

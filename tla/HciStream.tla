----------------------------- MODULE HciStream -----------------------------
(***************************************************************************)
(* An H4 byte stream: a peer writes HCI packets, the transport hands their *)
(* octets over in pieces of any size, and an H4Transport frames and parses *)
(* them (PacketFramer, HciPacket).  The peer writes one packet of each     *)
(* kind the catalog has, maybe with parameters of a length other than this *)
(* stack's, and one packet more behind it.                                 *)
(*                                                                         *)
(* Of a message, ToBytes is the packet on the wire; FromBytes of a packet  *)
(* is the set with the message parsed, empty on error.                     *)
(***************************************************************************)
EXTENDS HciCatalog, FiniteSets

CONSTANTS HciVariants,   \* bound: [octets, rows, tag] of the fields that vary
          HciChanges,    \* bound: by how much a peer's parameters are longer or shorter
          ReadSizes,  \* bound: octets one read returns (at most all there are)
          Extended    \* the registered layouts: packet type -> [size, offset]

VARIABLES written,      \* the messages written, each with its change of length
          wire,      \* octets written and not read
          buffer,    \* PacketFramer.buffer
          pending,   \* H4Transport.pending
          received,  \* what read_packet returned
          failed     \* read_packet returned an error: the reader stops

HciMessage(type, name, code, fields) ==
    [type |-> type, name |-> name, code |-> code, fields |-> fields]

HCI_RESET_COMMAND == \h0c03
HCI_COMMAND_COMPLETE_EVENT == \h0e
HCI_LE_META_EVENT == \h3e

(***************************************************************************)
(* Commands and events.                                                    *)
(***************************************************************************)
CommandParameters(m) ==
    IF m.name = "Generic" THEN m.fields[1] ELSE Write(CommandWritten[m.name], m.fields)

CommandToBytes(m) ==
    LET params == CommandParameters(m)
    IN  <<Num(1)>> \o NumPair(m.code) \o <<Num(Len(params))>> \o params

\* The typed message of the arm that matches the code, or the generic one.
Typed(type, table, code, data) ==
    LET arms == {n \in DOMAIN table : table[n].code = code}
    IN  IF arms = {} THEN {HciMessage(type, "Generic", code, <<data>>)}
        ELSE {HciMessage(type, n, code, Read(table[n].layout, data).got) :
                n \in {a \in arms : Read(table[a].layout, data).ok}}

CommandFromBytes(packet) ==
    LET r == [data |-> packet, pos |-> 1, ok |-> TRUE, got |-> <<>>]
        length == Peek(Skip(r, 2), 1)
    IN  IF ~Need(r, 3) \/ ~Need(Skip(r, 3), length) THEN {}
        ELSE Typed("command", CommandRead, Peek16(r), Ahead(Skip(r, 3), length))

EventFrame(code, params) == <<Num(4), Num(code), Num(Len(params))>> \o params

ReturnToBytes(m) ==
    CASE m.name = "Raw"    -> m.fields[2]
      [] m.name = "Status" -> m.fields[2]
      [] OTHER             -> Write(ReturnWritten[m.name], Tail(m.fields))

EventToBytes(m) ==
    IF m.name = "Generic" THEN EventFrame(m.code, m.fields[1])
    ELSE EventFrame(m.code, Write(EventWritten[m.name], m.fields))

LeToBytes(m) ==
    EventFrame(HCI_LE_META_EVENT,
        <<Num(m.code)>> \o
        (IF m.name = "Generic" THEN m.fields[1] ELSE Write(LeWritten[m.name], m.fields)))

CompleteToBytes(m) ==
    EventFrame(HCI_COMMAND_COMPLETE_EVENT,
        m.fields[1] \o NumPair(m.code) \o ReturnToBytes(m))

\* `first_status`: the leading octet, or SUCCESS when there is none.
FirstStatus(data) == IF data = <<>> THEN Num(0) ELSE data[1]

\* `ReturnParameters::parse`; num is the field of the event before them.
ParseReturn(num, code, data) ==
    LET arms   == {n \in DOMAIN ReturnRead : code \in ReturnRead[n].codes}
        status == HciMessage("return", "Status", code, <<num, <<FirstStatus(data)>>>>)
    IN  CASE code = HCI_RESET_COMMAND        -> {status}
          [] arms = {}                       -> {HciMessage("return", "Raw", code, <<num, data>>)}
          [] FirstStatus(data) # Num(0)      -> {status}
          [] OTHER                           ->
                {HciMessage("return", n, code, <<num>> \o Read(ReturnRead[n].layout, data).got) :
                    n \in {a \in arms : Read(ReturnRead[a].layout, data).ok}}

\* `Event::from_code_and_parameters`.
ParseEvent(code, params) ==
    CASE code = HCI_LE_META_EVENT ->
            IF params = <<>> THEN {}
            ELSE Typed("le", LeRead, params[1][2], Tail(params))
      [] code = HCI_COMMAND_COMPLETE_EVENT ->
            LET r == Read(<<U8, U16, Rest>>, params)
            IN  IF ~r.ok THEN {}
                ELSE ParseReturn(r.got[1], r.got[2][1][2] + 256 * r.got[2][2][2], r.got[3])
      [] OTHER -> Typed("event", EventRead, code, params)

EventFromBytes(packet) ==
    LET length == packet[3][2]
    IN  IF Len(packet) < 3 THEN {}
        ELSE IF Len(packet) < 3 + length THEN {}
        ELSE ParseEvent(packet[2][2], SubSeq(packet, 4, 3 + length))

(***************************************************************************)
(* Data packets.  The first u16 packs the handle and the flags; a message  *)
(* has numbers for them and for the lengths, which are fields of their     *)
(* own, and options as sets.                                               *)
(***************************************************************************)
AclToBytes(m) ==
    <<Num(2)>> \o NumPair(m.bc * 2^14 + m.pb * 2^12 + m.handle) \o NumPair(m.length) \o m.data

AclFromBytes(packet) ==
    LET r == [data |-> packet, pos |-> 1, ok |-> TRUE, got |-> <<>>]
        h == Peek16(r)
        data == Ahead(Skip(r, 4), Left(Skip(r, 4)))
    IN  IF ~Need(r, 4) THEN {}
        ELSE IF Len(data) # Peek16(Skip(r, 2)) THEN {}
        ELSE {[type |-> "acl", handle |-> h % 2^12, pb |-> (h \div 2^12) % 4,
               bc |-> (h \div 2^14) % 4, length |-> Peek16(Skip(r, 2)), data |-> data]}

ScoToBytes(m) ==
    <<Num(3)>> \o NumPair(m.status * 2^12 + m.handle) \o <<Num(m.length)>> \o m.data

ScoFromBytes(packet) ==
    LET r == [data |-> packet, pos |-> 1, ok |-> TRUE, got |-> <<>>]
        h == Peek16(r)
        data == Ahead(Skip(r, 3), Left(Skip(r, 3)))
    IN  IF ~Need(r, 3) THEN {}
        ELSE IF Len(data) # Peek(Skip(r, 2), 1) THEN {}
        ELSE {[type |-> "sco", handle |-> h % 2^12, status |-> (h \div 2^12) % 4,
               length |-> Peek(Skip(r, 2), 1), data |-> data]}

\* stamp is the time stamp, info the sequence number, SDU length and status flag.
IsoToBytes(m) ==
    <<Num(5)>> \o NumPair(m.ts * 2^14 + m.pb * 2^12 + m.handle) \o NumPair(m.length)
    \o FlattenSeq(m.stamp)
    \o FlattenSeq([i \in DOMAIN m.info |->
            m.info[i].psn \o NumPair(m.info[i].sdu + 2^15 * m.info[i].status)])
    \o m.data

IsoFromBytes(packet) ==
    LET r     == [data |-> packet, pos |-> 1, ok |-> TRUE, got |-> <<>>]
        h     == Peek16(r)
        pb    == (h \div 2^12) % 4
        ts    == (h \div 2^14) % 2
        stamp == 4 * ts
        info  == IF pb % 2 = 0 THEN 4 ELSE 0
        body  == Skip(r, 4 + stamp + info)
        sdu   == Peek16(Skip(r, 4 + stamp + 2))
    IN  IF ~Need(r, 4) THEN {}
        ELSE IF ~Need(r, 4 + stamp + info) THEN {}
        ELSE IF Peek16(Skip(r, 2)) # stamp + info + Left(body) THEN {}
        ELSE {[type |-> "iso", handle |-> h % 2^12, pb |-> pb, ts |-> ts,
               length |-> Peek16(Skip(r, 2)),
               stamp |-> [i \in 1..ts |-> Ahead(Skip(r, 4), 4)],
               info |-> [i \in 1..(info \div 4) |->
                            [psn |-> Ahead(Skip(r, 4 + stamp), 2), sdu |-> sdu % 2^12,
                             status |-> (sdu \div 2^15) % 2]],
               data |-> Ahead(body, Left(body))]}

(***************************************************************************)
(* `HciPacket`.                                                            *)
(***************************************************************************)
ToBytes(m) ==
    CASE m.type = "command" -> CommandToBytes(m)
      [] m.type = "event"   -> EventToBytes(m)
      [] m.type = "le"      -> LeToBytes(m)
      [] m.type = "return"  -> CompleteToBytes(m)
      [] m.type = "acl"     -> AclToBytes(m)
      [] m.type = "sco"     -> ScoToBytes(m)
      [] m.type = "iso"     -> IsoToBytes(m)
      [] m.type = "custom"  -> m.data

FromBytes(packet) ==
    CASE packet = <<>>         -> {}
      [] packet[1] = Num(1)    -> CommandFromBytes(packet)
      [] packet[1] = Num(2)    -> AclFromBytes(packet)
      [] packet[1] = Num(3)    -> ScoFromBytes(packet)
      [] packet[1] = Num(4)    -> EventFromBytes(packet)
      [] packet[1] = Num(5)    -> IsoFromBytes(packet)
      [] OTHER                 -> {[type |-> "custom", data |-> packet]}

-----------------------------------------------------------------------------

streamVars == <<written, wire, buffer, pending, received, failed>>

(***************************************************************************)
(* The messages: a value for every declared field.                         *)
(***************************************************************************)
\* The samples of a kind of packet, named for the variants of the enums.
Names(type) ==
    CASE type = "command" -> DOMAIN CommandFields
      [] type = "event"   -> DOMAIN EventRead \ {"CommandComplete"}
      [] type = "le"      -> DOMAIN LeFields
      [] type = "return"  -> DOMAIN ReturnRead

HciSample(type, n, c) ==
    CASE type = "command" ->
            HciMessage(type, n, CommandCode[n], Values(CommandFields[n], CommandWritten[n], c))
      [] type = "event"   ->
            HciMessage(type, n, EventCodes[n], Values(EventFields[n], EventWritten[n], c))
      [] type = "le"      ->
            HciMessage(type, n, LeCodes[n], Values(LeFields[n], LeWritten[n], c))
      [] type = "return"  ->
            HciMessage(type, n, CHOOSE code \in ReturnRead[n].codes : TRUE,
                    <<Opaque(90, 0, 1)>> \o Values(ReturnFields[n], ReturnWritten[n], c))

SampleOther(type, n, code) == HciMessage(type, n, code, <<Opaque(91, 0, 2)>>)
SampleReturn(n, code, octets) == HciMessage("return", n, code, <<Opaque(90, 0, 1), octets>>)

\* Handles and flags at their limits; the lengths are the data's own.
SampleAcl(handle, flag, n) ==
    [type |-> "acl", handle |-> handle, pb |-> flag, bc |-> 3 - flag, length |-> n,
     data |-> Opaque(92, 0, n)]
SampleSco(handle, flag, n) ==
    [type |-> "sco", handle |-> handle, status |-> flag, length |-> n,
     data |-> Opaque(93, 0, n)]
SampleIso(handle, flag, ts, n) ==
    LET first == (flag + 1) % 2
    IN  [type |-> "iso", handle |-> handle, pb |-> flag, ts |-> ts,
         length |-> 4 * ts + 4 * first + n,
         stamp |-> [i \in 1..ts |-> Opaque(94, 1, 4)],
         info |-> [i \in 1..first |-> [psn |-> Opaque(94, 2, 2), sdu |-> 4095, status |-> ts]],
         data |-> Opaque(94, 0, n)]
SampleCustom(type, n) ==
    [type |-> "custom", data |-> <<Num(type), Num(n)>> \o Opaque(95, 0, n)]

\* The parameters fit their length octet.
HeaderLength(m) == IF m.type = "command" THEN 4 ELSE 3
Parameterised(m) == m.type \in {"command", "event", "le", "return"}
Fits(m, bytes) ==
    Parameterised(m) =>
        /\ Len(bytes) - HeaderLength(m) < 256
        /\ m.name = "ReadLocalName" /\ m.type = "return" => Len(m.fields[3]) = 248

\* The packet with the last -d octets of its parameters missing, or d added.
HciChanged(bytes, h, d) ==
    IF d = 0 THEN bytes
    ELSE [SubSeq(bytes \o Opaque(96, 0, 4), 1, Len(bytes) + d)
            EXCEPT ![h] = Num(Len(bytes) - h + d)]

Changeable(m, bytes, d) ==
    d = 0 \/ (Parameterised(m) /\ Len(bytes) - HeaderLength(m) + d \in 0..255)

(***************************************************************************)
(* PacketFramer.                                                           *)
(***************************************************************************)
MAX_HCI_PACKET_SIZE == 1 + 4 + 65535

\* `standard_layout`, or a registered one.
Layout(type) ==
    CASE type \in {1, 3} -> [size |-> 1, offset |-> 2]
      [] type \in {2, 5} -> [size |-> 2, offset |-> 2]
      [] type = 4        -> [size |-> 1, offset |-> 1]
      [] OTHER           -> Extended[type]

HeaderSize(layout) == 1 + layout.offset + layout.size

BodyLength(layout, data) ==
    LET at == 1 + layout.offset
    IN  data[at + 1][2] + (IF layout.size = 2 THEN 256 * data[at + 2][2] ELSE 0)

\* The rest of a turn of the loop of `feed`, for a packet of `size` octets.
Refused(st) == [st EXCEPT !.buffer = <<>>, !.ok = FALSE, !.more = FALSE]
Parsed(st, size, parsed) ==
    [buffer  |-> SubSeq(st.buffer, size + 1, Len(st.buffer)),
     packets |-> st.packets \o SetToSeq(parsed),
     ok      |-> parsed # {},
     more    |-> parsed # {}]
HciFramed(st, size) ==
    CASE size > MAX_HCI_PACKET_SIZE -> Refused(st)
      [] Len(st.buffer) < size      -> [st EXCEPT !.more = FALSE]
      [] OTHER                      -> Parsed(st, size, FromBytes(SubSeq(st.buffer, 1, size)))
HciHeaded(st, layout) ==
    IF Len(st.buffer) < HeaderSize(layout) THEN [st EXCEPT !.more = FALSE]
    ELSE HciFramed(st, HeaderSize(layout) + BodyLength(layout, st.buffer))

\* One turn of the loop; more says whether the loop goes on.
FeedTurn(st, turn) ==
    CASE ~st.more          -> st
      [] st.buffer = <<>>  -> [st EXCEPT !.more = FALSE]
      [] st.buffer[1][2] \notin (1..5) \cup DOMAIN Extended -> Refused(st)
      [] OTHER             -> HciHeaded(st, Layout(st.buffer[1][2]))

\* Mutant: a read yields at most one packet; one more that it completes waits.
FeedOnce(octets) ==
    FoldLeft(FeedTurn, [buffer |-> buffer \o octets, packets |-> <<>>, ok |-> TRUE,
                        more |-> TRUE], <<1>>)

\* At most two packets are ever behind one another here, hence three turns.
FeedOctets(octets) ==
    FoldLeft(FeedTurn, [buffer |-> buffer \o octets, packets |-> <<>>, ok |-> TRUE,
                        more |-> TRUE], <<1, 2, 3>>)

(***************************************************************************)
(* Steps.                                                                  *)
(***************************************************************************)
StreamInit ==
    /\ written = <<>> /\ wire = <<>> /\ buffer = <<>>
    /\ pending = <<>> /\ received = <<>> /\ failed = FALSE

WriteChanged(m, bytes, d) ==
    /\ Fits(m, bytes) /\ Changeable(m, bytes, d)
    /\ \E octets \in {HciChanged(bytes, HeaderLength(m), d)} :
          /\ written' = Append(written, [message |-> m, change |-> d, bytes |-> octets])
          /\ wire' = wire \o octets
    /\ UNCHANGED <<buffer, pending, received, failed>>

WritePacket(m, changes) ==
    \E bytes \in {ToBytes(m)} : \E d \in changes : WriteChanged(m, bytes, d)

\* A packet of the catalog, an untyped one, or one of data.
Catalogued ==
    \E type \in {"command", "event", "le", "return"} :
       \E n \in Names(type), c \in HciVariants : WritePacket(HciSample(type, n, c), HciChanges)

UntypedPacket(i) ==
    CASE i = 1 -> SampleOther("command", "Generic", \hfc01)
      [] i = 2 -> SampleOther("event", "Generic", \hf0)
      [] i = 3 -> SampleOther("le", "Generic", \hf0)
      [] i = 4 -> SampleReturn("Raw", \hfc01, Opaque(91, 0, 2))
      [] i = 5 -> SampleReturn("Status", HCI_RESET_COMMAND, <<Num(12)>>)
      [] i = 6 -> SampleReturn("Status", \h1009, <<Num(1)>>)
Uncatalogued == \E i \in 1..6 : WritePacket(UntypedPacket(i), HciChanges)

DataPacket(i, handle, flag, n) ==
    CASE i = 1 -> SampleAcl(handle, flag, n)
      [] i = 2 -> SampleSco(handle, flag, n)
      [] i = 3 -> SampleIso(handle, flag, 0, n)
      [] i = 4 -> SampleIso(handle, flag, 1, n)
      [] i = 5 -> SampleCustom(CHOOSE type \in DOMAIN Extended : TRUE, n)
DataOrCustom ==
    \E i \in 1..5, handle \in {0, 4095}, flag \in 0..3, n \in {0, 1, 255} :
       WritePacket(DataPacket(i, handle, flag, n), {0})

First == written = <<>> /\ (Catalogued \/ Uncatalogued \/ DataOrCustom)

\* A packet behind the first, maybe one too short to be valid.
Second ==
    /\ Len(written) = 1
    /\ \E d \in {0, -1} :
          WritePacket(IF d = 0 THEN HciMessage("command", "Reset", HCI_RESET_COMMAND, <<>>)
                      ELSE HciMessage("event", "InquiryComplete", 1, <<Opaque(1, 0, 1)>>), {d})

\* `read_packet`: a packet that waits, or a read of n octets and the packets
\* they complete.  An error drops the packets of the same read.
ReadPending ==
    /\ ~failed /\ pending # <<>>
    /\ received' = Append(received, Head(pending))
    /\ pending' = Tail(pending)
    /\ UNCHANGED <<written, wire, buffer, failed>>

ReadWire(n) ==
    /\ ~failed /\ pending = <<>> /\ wire # <<>>
    /\ \E count \in {IF n < Len(wire) THEN n ELSE Len(wire)} :
       \E fed \in {FeedOctets(SubSeq(wire, 1, count))} :
          /\ wire' = SubSeq(wire, count + 1, Len(wire))
          /\ buffer' = fed.buffer
          /\ failed' = ~fed.ok
          /\ IF fed.ok /\ fed.packets # <<>>
             THEN /\ received' = Append(received, Head(fed.packets))
                  /\ pending' = Tail(fed.packets)
             ELSE UNCHANGED <<received, pending>>
    /\ UNCHANGED written

StreamNext ==
    \/ First \/ Second
    \/ ReadPending
    \/ \E n \in ReadSizes : ReadWire(n)

(***************************************************************************)
(* Properties.                                                             *)
(***************************************************************************)
\* Messages are compared up to the type of the addresses that are read
\* without one.
Untyped(kind, v) ==
    CASE kind.kind = "addr" -> Tail(v)
      [] kind = List(Addr)  -> [j \in DOMAIN v |-> Tail(v[j])]
      [] OTHER              -> v
Declared(m) ==
    CASE m.type = "command" -> CommandFields[m.name]
      [] m.type = "event"   -> EventFields[m.name]
      [] m.type = "le"      -> LeFields[m.name]
      [] m.type = "return"  -> <<U8>> \o ReturnFields[m.name]
Comparable(m) ==
    CASE ~Parameterised(m) -> m
      [] m.name \in {"Generic", "Raw", "Status"} -> m
      [] OTHER ->
            [m EXCEPT !.fields = [i \in DOMAIN @ |-> Untyped(Declared(m)[i], @[i])]]

SameHciMessage(a, b) ==
    /\ a.type = b.type
    /\ Parameterised(a) => a.name = b.name /\ Len(a.fields) = Len(b.fields)
    /\ Comparable(a) = Comparable(b)

Intact == \A i \in DOMAIN written : written[i].change = 0

Got == received \o pending

\* Whatever the pieces the stream arrives in, the packets of a peer that
\* shares the layouts come out as they went in, in order and without an
\* error, and nothing stays behind in the framer once all octets are read.
StreamFaithful ==
    Intact =>
        /\ ~failed
        /\ Len(Got) <= Len(written)
        /\ \A i \in DOMAIN Got : SameHciMessage(Got[i], written[i].message)
        /\ wire = <<>> => Len(Got) = Len(written) /\ buffer = <<>>

\* A packet whose parameters have another length is either refused or means
\* what a prefix of its octets says: nothing is invented, and no octet is
\* read twice or skipped.
ReadFrom(octets, i) == SubSeq(octets, i, Len(octets))
SaysPrefix(m, again, first) ==
    /\ m.type = first.message.type
    /\ \/ IsPrefix(ReadFrom(again, HeaderLength(m) + 1), ReadFrom(first.bytes, HeaderLength(m) + 1))
       \/ /\ m.name = "Status" /\ m.code = HCI_RESET_COMMAND
          /\ Len(first.bytes) = HeaderLength(m) + 3
AcceptedIsCanonical ==
    Got # <<>> /\ ~Intact => SaysPrefix(Got[1], ToBytes(Got[1]), written[1])

=============================================================================

------------------------------ MODULE PduFlow ------------------------------
(***************************************************************************)
(* PDUs of every protocol between two hosts.  A host sends two messages of *)
(* one protocol, on one connection or on two: each is framed, fragmented   *)
(* by its protocol, put into L2CAP PDUs and these into ACL packets.  The   *)
(* air delivers the packets of a connection in order; what is left of a    *)
(* PDU may be flushed.  The other host reassembles and parses.             *)
(***************************************************************************)
EXTENDS HostPdus, FiniteSets

(***************************************************************************)
(* What stands between a message's parameters and the L2CAP SDUs that      *)
(* carry it: the header of each protocol, and the fragmentation of AVDTP,  *)
(* AVCTP and AVRCP.  A unit is [code, label, data]: the code that chooses  *)
(* the match arm, the transaction label (or what else the header carries   *)
(* through) and the parameters.                                            *)
(***************************************************************************)

CONSTANTS Mtu,                  \* the peer's MTU of AVDTP and AVCTP channels
          MaxVendorParameters   \* Runtime.max_vendor_parameters

Unit(code, label, data) == [code |-> code, label |-> label, data |-> data]

Min2(m, n) == IF m < n THEN m ELSE n
Between(s, i, j) == SubSeq(s, i, Min2(j, Len(s)))
From(s, i) == SubSeq(s, i, Len(s))
Chunks(s, n) == [i \in 1..((Len(s) + n - 1) \div n) |-> Between(s, (i - 1) * n + 1, i * n)]

NumberOf(octet) == IF octet[1] = 0 THEN octet[2] ELSE -1

(***************************************************************************)
(* RFCOMM.  The check sequence is a function of the octets it covers.      *)
(***************************************************************************)
RfcommLength(n) == IF n > 127 THEN <<Num(2 * (n % 128)), Num(n \div 128)>> ELSE <<Num(2 * n + 1)>>
Fcs(covered) == <<99, FoldLeft(LAMBDA sum, octet : 256 * sum + octet[2], 0, covered)>>
FrameFcs(address, control, length) ==
    Fcs(<<address, control>> \o (IF control[2] \in {UIH, UIH + P_F} THEN <<>> ELSE length))

\* `RfcommFrame::to_bytes`; the credit octet is not counted in the length.
RfcommParts(address, control, length, information) ==
    <<address, control>> \o length \o information \o <<FrameFcs(address, control, length)>>
RfcommFrame(address, control, information) ==
    RfcommParts(Num(address), Num(control),
                RfcommLength(Len(information) - (IF control = UIH + P_F THEN 1 ELSE 0)),
                information)

\* `make_mcc`, in a frame for DLCI 0.
MakeMcc(type, c_r, data) ==
    <<Num(4 * type + 2 * c_r + 1), Num(2 * (Len(data) % 128) + 1)>> \o data
RfcommBytes(u) ==
    IF u.code < 256 THEN RfcommFrame(2 * u.label + 1, u.code, u.data)
    ELSE RfcommFrame(3, UIH, MakeMcc(u.code - 256, u.label, u.data))

\* The frame's unit, or that of the multiplexer command in it (`parse_mcc`).
RfcommUnit(address, control, information) ==
    CASE address \div 4 # 0 \/ control # UIH -> {Unit(control, address \div 2, information)}
      [] Len(information) < 2                -> {}
      [] OTHER -> {Unit(256 + NumberOf(information[1]) \div 4,
                        (NumberOf(information[1]) \div 2) % 2, From(information, 3))}
\* `RfcommFrame::from_bytes`: n octets of length.
RfcommInformation(sdu, n) ==
    IF \/ Len(sdu) < 3 + n
       \/ Last(sdu) # FrameFcs(sdu[1], sdu[2], RfcommLength(Len(sdu) - 3 - n))
    THEN {}
    ELSE RfcommUnit(sdu[1][2], sdu[2][2], SubSeq(sdu, 3 + n, Len(sdu) - 1))
RfcommFromBytes(sdu) ==
    IF Len(sdu) < 4 THEN {} ELSE RfcommInformation(sdu, IF sdu[3][2] % 2 = 1 THEN 1 ELSE 2)

(***************************************************************************)
(* The protocols with one header in front of the parameters.               *)
(***************************************************************************)
SIZED == 20 - 4   \* a GetReport with a size
OpcodeBytes(code) == IF code > 255 THEN Big(code) ELSE <<Num(code)>>

\* Profiles write operations to control points and notify values, each to a
\* handle; a value of one layout is known by the handle alone.
Profiles == {"ase", "ase response", "ase status", "bass", "preset", "preset event", "ancs", "value"}
WRITE == Num(18)
NOTIFY == Num(27)
Handle == Opaque(97, 0, 2)
ProfileBytes(f, u) ==
    CASE f = "value"      -> <<NOTIFY>> \o NumPair(u.code) \o u.data
      [] f = "ase status" -> <<NOTIFY>> \o Handle \o <<Num(u.label), Num(u.code)>> \o u.data
      [] f = "preset event" ->
            <<NOTIFY>> \o Handle
            \o (IF u.code < 256 THEN <<Num(u.code)>> ELSE Big(u.code)) \o <<Num(u.label)>> \o u.data
      [] f = "ase response" -> <<NOTIFY>> \o Handle \o <<Num(u.code)>> \o u.data
      [] OTHER            -> <<WRITE>> \o Handle \o <<Num(u.code)>> \o u.data

Framed(f, u) ==
    CASE f \in {"att", "smp"} -> <<Num(u.code)>> \o u.data
      [] f \in Profiles -> ProfileBytes(f, u)
      [] f = "signal" -> <<Num(u.code), Num(u.label)>> \o NumPair(Len(u.data)) \o u.data
      [] f = "lmp"    -> OpcodeBytes(u.code) \o u.data
      [] f = "sdp"    -> <<Num(u.code)>> \o Big(u.label) \o Big(Len(u.data)) \o u.data
      [] f = "rfcomm" -> RfcommBytes(u)
      [] f = "hid"    ->
            <<Num(16 * (u.code % SIZED) + u.label + (IF u.code > 15 THEN 8 ELSE 0))>> \o u.data

\* The parts of a header read in place; a length past the end is cut short
\* (signaling frames) or refused (SDP).
SignalUnit(sdu) ==
    IF Len(sdu) < 4 THEN {}
    ELSE {Unit(sdu[1][2], sdu[2][2], Between(sdu, 5, 4 + sdu[3][2] + 256 * sdu[4][2]))}
LmpUnit(sdu) ==
    CASE sdu = <<>> -> {}
      [] sdu[1][2] \notin {124, 127} -> {Unit(sdu[1][2], 0, Tail(sdu))}
      [] Len(sdu) < 2 -> {}
      [] OTHER -> {Unit(256 * sdu[1][2] + sdu[2][2], 0, From(sdu, 3))}
SdpUnit(sdu, length) ==
    IF Len(sdu) < 5 + length THEN {}
    ELSE {Unit(sdu[1][2], 256 * sdu[2][2] + sdu[3][2], SubSeq(sdu, 6, 5 + length))}
\* What a header nibble of HID means to each message type.
HidLabel(type, parameter) ==
    CASE type \in {4, 5, 10} -> parameter % 4
      [] type = 6            -> 0
      [] type = 7            -> parameter % 2
      [] OTHER               -> parameter
HidUnit(type, parameter, data) ==
    {Unit(IF type = 4 /\ parameter > 7 THEN type + SIZED ELSE type,
          HidLabel(type, parameter), data)}

\* A value that was written or notified, and its opcode.
PresetEvent(v, n) ==
    IF Len(v) < n THEN {} ELSE {Unit(IF n = 2 THEN v[1][2] ELSE 256 * v[1][2] + v[2][2],
                                     IF v[n] = Num(0) THEN 0 ELSE 1, From(v, n + 1))}
ProfileUnit(f, v) ==
    CASE v = <<>>           -> {}
      [] f = "ase status"   -> IF Len(v) < 2 THEN {} ELSE {Unit(v[2][2], v[1][2], From(v, 3))}
      [] f = "preset event" -> PresetEvent(v, IF v[1] = Num(3) THEN 3 ELSE 2)
      [] OTHER              -> {Unit(v[1][2], 0, Tail(v))}

Unframed(f, sdu) ==
    CASE f \in {"att", "smp"} -> IF sdu = <<>> THEN {} ELSE {Unit(sdu[1][2], 0, Tail(sdu))}
      [] f = "value"  -> {Unit(sdu[2][2] + 256 * sdu[3][2], 0, From(sdu, 4))}
      [] f \in Profiles \ {"value"} -> ProfileUnit(f, From(sdu, 4))
      [] f = "signal" -> SignalUnit(sdu)
      [] f = "lmp"    -> LmpUnit(sdu)
      [] f = "sdp"    -> IF Len(sdu) < 5 THEN {} ELSE SdpUnit(sdu, 256 * sdu[4][2] + sdu[5][2])
      [] f = "rfcomm" -> RfcommFromBytes(sdu)
      [] f = "hid"    -> IF sdu = <<>> THEN {}
                         ELSE HidUnit(sdu[1][2] \div 16, sdu[1][2] % 16, Tail(sdu))

(***************************************************************************)
(* Fragments: a message that does not fit the MTU goes as a start packet   *)
(* with the number of packets, continuations, and an end packet.           *)
(***************************************************************************)
SINGLE == 0
START == 1
CONTINUE == 2
END == 3

\* Mutant: a message that ends with its last whole chunk is never ended.
PacketTypeNoEnd(i, n) == IF i = 1 THEN START ELSE CONTINUE
\* Packet types of n packets.
PacketType(i, n) == CASE i = 1 -> START [] i = n -> END [] OTHER -> CONTINUE

\* `encode_pdus` of AVDTP; the type and the label are in every header.
AvdtpHeader(u, type) == Num(16 * u.label + 4 * type + (u.code % 4))
AvdtpParts(u, chunks) ==
    <<<<AvdtpHeader(u, START), Num(u.code \div 4), Num(1 + Len(chunks))>> \o SubSeq(u.data, 1, Mtu - 3)>>
    \o [i \in DOMAIN chunks |->
            <<AvdtpHeader(u, PacketType(i + 1, 1 + Len(chunks)))>> \o chunks[i]]
AvdtpPdus(u) ==
    IF Len(u.data) + 2 <= Mtu THEN <<<<AvdtpHeader(u, SINGLE), Num(u.code \div 4)>> \o u.data>>
    ELSE AvdtpParts(u, Chunks(From(u.data, Mtu - 2), Mtu - 1))

\* `encode_pdus` of AVCTP; the protocol identifier too.
AVRCP_PID == Big(\h110e)
AvctpHeader(label, response, type) == Num(16 * label + 4 * type + 2 * response)
AvctpParts(label, response, payload, chunks) ==
    <<<<AvctpHeader(label, response, START), Num(1 + Len(chunks))>> \o AVRCP_PID
      \o SubSeq(payload, 1, Mtu - 4)>>
    \o [i \in DOMAIN chunks |->
            <<AvctpHeader(label, response, PacketType(i + 1, 1 + Len(chunks)))>>
            \o AVRCP_PID \o chunks[i]]
AvctpPdus(label, response, payload) ==
    IF Len(payload) + 3 <= Mtu
    THEN <<<<AvctpHeader(label, response, SINGLE)>> \o AVRCP_PID \o payload>>
    ELSE AvctpParts(label, response, payload, Chunks(From(payload, Mtu - 3), Mtu - 3))

(***************************************************************************)
(* MessageAssembler.  A pending message has a key that its packets share;  *)
(* expected = 0 says that there is none.                                   *)
(***************************************************************************)
NoPending == [key |-> <<>>, code |-> 0, expected |-> 0, received |-> 0, data |-> <<>>]
Pending(key, code, expected, data) ==
    [key |-> key, code |-> code, expected |-> expected, received |-> 1, data |-> data]
Stays(p) == [pending |-> p, messages |-> {}]
Complete(p) == [pending |-> NoPending, messages |-> {[code |-> p.code, data |-> p.data]}]

\* A continuation (or the end) with its octets added.
Continued(p, type) ==
    CASE p.received > p.expected -> Stays(NoPending)
      [] type # END              -> Stays(p)
      [] p.received = p.expected -> Complete(p)
      [] OTHER                   -> Stays(NoPending)
More(p, data) == [p EXCEPT !.received = @ + 1, !.data = @ \o data]

AvdtpPush(p, sdu, label, type, message) ==
    CASE type = SINGLE ->
            IF Len(sdu) < 2 THEN Stays(p)
            ELSE Complete(Pending(<<>>, 4 * sdu[2][2] + message, 1, From(sdu, 3)))
      [] type = START ->
            IF Len(sdu) < 3 \/ sdu[3][2] < 2 THEN Stays(p)
            ELSE Stays(Pending(<<label, message>>, 4 * sdu[2][2] + message, sdu[3][2],
                               From(sdu, 4)))
      [] p.expected = 0 \/ p.key # <<label, message>> -> Stays(p)
      [] OTHER -> Continued(More(p, Tail(sdu)), type)

AvctpPush(p, sdu, label, type, response) ==
    CASE Len(sdu) < (IF type = START THEN 4 ELSE 3) -> Stays(p)
      [] type = SINGLE -> Complete(Pending(<<>>, response, 1, From(sdu, 4)))
      [] type = START ->
            IF sdu[2][2] < 2 THEN Stays(p)
            ELSE Stays(Pending(<<label, response>>, response, sdu[2][2], From(sdu, 5)))
      [] p.expected = 0 -> Stays(p)
      [] p.key # <<label, response>> -> Stays(NoPending)
      [] OTHER -> Continued(More(p, From(sdu, 4)), type)

(***************************************************************************)
(* AV/C frames: [category, subunit id, opcode, operands], the subunit      *)
(* being the panel.                                                        *)
(***************************************************************************)
PANEL == 9
SubunitBytes(id) ==
    CASE id \in (0..4) \cup {7} -> <<Num(8 * PANEL + id)>>
      [] id \in 5..259          -> <<Num(8 * PANEL + 5), Num(id - 5)>>
      [] OTHER                  -> <<Num(8 * PANEL + 5), Num(255), Num(id - 259)>>
AvcBytes(category, id, opcode, operands) ==
    <<Num(category)>> \o SubunitBytes(id) \o <<Num(opcode)>> \o operands

AvcFrame(data, id, at) ==
    IF Len(data) < at THEN {}
    ELSE {[category |-> data[1][2], id |-> id, opcode |-> data[at][2], operands |-> From(data, at + 1)]}
AvcExtended(data, extension) ==
    CASE extension = 0   -> {}
      [] extension = 255 -> IF Len(data) < 4 THEN {} ELSE AvcFrame(data, 259 + data[4][2], 5)
      [] OTHER           -> AvcFrame(data, 5 + extension, 4)
AvcFromBytes(data) ==
    CASE Len(data) < 3 \/ data[2][2] % 8 = 6 -> {}
      [] data[2][2] % 8 = 5 -> AvcExtended(data, data[3][2])
      [] OTHER -> AvcFrame(data, data[2][2] % 8, 3)

(***************************************************************************)
(* AVRCP: vendor-dependent PDUs, fragmented once more.  Notification       *)
(* events and browseable items travel in the responses to                  *)
(* RegisterNotification and GetFolderItems.                                *)
(***************************************************************************)
VENDOR_DEPENDENT == 0
BLUETOOTH_SIG == <<Num(0), Num(\h19), Num(\h58)>>
REGISTER_NOTIFICATION == \h31
GET_FOLDER_ITEMS == \h71
CommandCategory == 0
ResponseCategory == 12
Avrcp == {"command", "response", "event", "item"}

\* The PDU that carries a unit: an item follows the status and the UID
\* counter, one item in all.
VendorUnit(f, u) ==
    CASE f = "event" -> Unit(REGISTER_NOTIFICATION, u.label, <<Num(u.code)>> \o u.data)
      [] f = "item"  -> Unit(GET_FOLDER_ITEMS, u.label, Opaque(97, 0, 3) \o Big(1)
                             \o <<Num(u.code)>> \o Big(Len(u.data)) \o u.data)
      [] OTHER       -> u

\* `fragment_pdu`, and each fragment in its AV/C frame.
VendorPdu(id, type, parameters) ==
    AvcBytes(0, 0, VENDOR_DEPENDENT,
             BLUETOOTH_SIG \o <<Num(id), Num(type)>> \o Big(Len(parameters)) \o parameters)
InCategory(frame, category) == [frame EXCEPT ![1] = Num(category)]
VendorParts(id, chunks) ==
    [i \in DOMAIN chunks |-> VendorPdu(id, PacketType(i, Len(chunks)), chunks[i])]
FragmentPdu(u) ==
    IF Len(u.data) <= MaxVendorParameters THEN <<VendorPdu(u.code, SINGLE, u.data)>>
    ELSE VendorParts(u.code, Chunks(u.data, MaxVendorParameters))
AvrcpFrames(label, response, category, frames) ==
    FlattenSeq([i \in DOMAIN frames |->
        AvctpPdus(label, response, InCategory(frames[i], category))])
AvrcpPdus(f, u) ==
    IF f = "command" THEN AvrcpFrames(u.label, 0, CommandCategory, FragmentPdu(VendorUnit(f, u)))
    ELSE AvrcpFrames(u.label, 1, ResponseCategory, FragmentPdu(VendorUnit(f, u)))

\* PduAssembler, with the label of the message that is coming in; id = -1
\* says that nothing is.
NoVendor == [label |-> -1, id |-> -1, data |-> <<>>]
VendorKeeps(v) == [vendor |-> v, units |-> {}]
VendorDone(v, data) == [vendor |-> NoVendor, units |-> {Unit(v.id, v.label, v.data \o data)}]
VendorPush(v, label, id, type, data) ==
    CASE type = SINGLE -> VendorDone([NoVendor EXCEPT !.label = label, !.id = id], data)
      [] type = START -> VendorKeeps([label |-> label, id |-> id, data |-> data])
      [] v.id = -1 -> VendorKeeps(v)
      [] v.id # id -> VendorKeeps([NoVendor EXCEPT !.label = label])
      [] type = CONTINUE -> VendorKeeps([v EXCEPT !.data = @ \o data])
      [] OTHER -> VendorDone(v, data)
VendorParsed(v, label, data) ==
    IF Len(data) < 4 THEN VendorKeeps(NoVendor)
    ELSE IF Len(data) # 4 + 256 * data[3][2] + data[4][2] THEN VendorKeeps(NoVendor)
    ELSE VendorPush([v EXCEPT !.label = label], label, data[1][2], data[2][2], From(data, 5))
\* `handle_command_frame` and `handle_response_frame`, up to the PDU.
VendorFrame(v, label, frame) ==
    CASE frame.opcode # VENDOR_DEPENDENT \/ SubSeq(frame.operands, 1, 3) # BLUETOOTH_SIG ->
            VendorKeeps(v)
      [] v.label \notin {-1, label} -> VendorKeeps(NoVendor)
      [] OTHER -> VendorParsed(v, label, From(frame.operands, 4))

\* The item in a GetFolderItems response, the event of a notification.
ItemUnit(u, r) ==
    IF ~r.ok THEN {} ELSE {Unit(r.got[3][1][2], u.label, r.got[4])}
Inside(f, u) ==
    CASE f = "event" -> IF u.data = <<>> THEN {} ELSE {Unit(u.data[1][2], u.label, Tail(u.data))}
      [] f = "item"  -> ItemUnit(u, Read(<<Bytes(3), U16, U8, Data16, End>>, u.data))
      [] OTHER       -> {u}

(***************************************************************************)
(* All protocols: the SDUs of a unit, and the unit that an SDU completes.  *)
(* What is pending on a channel is [avctp, vendor].                        *)
(***************************************************************************)
Sdus(f, u) ==
    CASE f = "avdtp"  -> AvdtpPdus(u)
      [] f \in Avrcp  -> AvrcpPdus(f, u)
      [] f = "avc"    -> AvctpPdus(u.label % 16, 0, AvcBytes(0, u.label \div 16, u.code, u.data))
      [] OTHER        -> <<Framed(f, u)>>

NothingCollected == [avctp |-> NoPending, vendor |-> NoVendor]
Collected(c, units) == [collecting |-> c, units |-> units]

AvdtpDone(c, label, r) ==
    Collected([c EXCEPT !.avctp = r.pending],
              {Unit(IF m.code % 4 = GeneralRejection THEN GeneralRejection ELSE m.code, label, m.data)
                 : m \in r.messages})
AvcDone(c, r) ==
    Collected([c EXCEPT !.vendor = r.vendor], r.units)
AvrcpDone(f, c, label, frames) ==
    CASE frames = {} -> Collected(c, {})
      [] f = "avc"   -> Collected(c, {Unit(a.opcode, label + 16 * a.id, a.operands) : a \in frames})
      [] OTHER       -> AvcDone(c, VendorFrame(c.vendor, label, CHOOSE a \in frames : TRUE))
AvctpDone(f, c, label, r) ==
    AvrcpDone(f, [c EXCEPT !.avctp = r.pending], label,
              UNION {AvcFromBytes(m.data) : m \in r.messages})
Headed(f, c, sdu, n) ==
    IF f = "avdtp" THEN AvdtpDone(c, n \div 16, AvdtpPush(c.avctp, sdu, n \div 16, (n \div 4) % 4, n % 4))
    ELSE AvctpDone(f, c, n \div 16,
                   AvctpPush(c.avctp, sdu, n \div 16, (n \div 4) % 4, (n \div 2) % 2))
Collect(f, c, sdu) ==
    CASE f \notin Avrcp \cup {"avdtp", "avc"} -> Collected(c, Unframed(f, sdu))
      [] sdu = <<>> -> Collected(c, {})
      [] OTHER -> Headed(f, c, sdu, sdu[1][2])

CONSTANTS Variants,       \* bound: [octets, rows, tag] of the fields that vary
          Changes,        \* bound: by how much a peer's parameters are longer or shorter
          FragmentSizes,  \* bound: octets of an ACL packet
          Links,          \* the connections
          Reliable        \* protocols on channels that never flush

VARIABLES family,      \* the protocol of the messages
          sent,        \* the messages: [message, change, params, link]
          air,         \* ACL packets on their way: [first, data, of]
          assembling,  \* Device.acl_assemblers: [expected, data]
          collecting,  \* the protocols' own assemblers
          got,         \* messages received
          flushed      \* the messages of which a packet was flushed

vars == <<family, sent, air, assembling, collecting, got, flushed>>

Families == {"att", "smp", "signal", "lmp", "avdtp", "avc", "sdp", "rfcomm", "hid"} \cup Avrcp \cup Profiles

Tables(fields, codes, written, read) ==
    [fields |-> fields, codes |-> codes, written |-> written, read |-> read]
Table(f) ==
    CASE f = "att"      -> Tables(AttFields, AttCodes, AttWritten, AttRead)
      [] f = "smp"      -> Tables(SmpFields, SmpCodes, SmpWritten, SmpRead)
      [] f = "signal"   -> Tables(SignalFields, SignalCodes, SignalWritten,
                                  SignalReadClassic @@ SignalReadLe)
      [] f = "lmp"      -> Tables(LmpFields, LmpCodes, LmpWritten, LmpRead)
      [] f = "avdtp"    -> Tables(AvdtpFields, AvdtpCodes, AvdtpWritten,
                                  AvdtpReadSetup @@ AvdtpReadStream)
      [] f = "command"  -> Tables(AvrcpCommandFields, AvrcpCommandCodes, AvrcpCommandWritten,
                                  AvrcpCommandRead)
      [] f = "response" -> Tables(AvrcpResponseFields, AvrcpResponseCodes, AvrcpResponseWritten,
                                  AvrcpResponseRead)
      [] f = "event"    -> Tables(AvrcpEventFields, AvrcpEventCodes, AvrcpEventWritten,
                                  AvrcpEventRead)
      [] f = "item"     -> Tables(AvrcpItemFields, AvrcpItemCodes, AvrcpItemWritten, AvrcpItemRead)
      [] f = "avc"      -> Tables(AvcFields, AvcCodes, AvcWritten, AvcRead)
      [] f = "sdp"      -> Tables(SdpFields, SdpCodes, SdpWritten, SdpRead)
      [] f = "rfcomm"   -> Tables(RfcommFields, RfcommCodes, RfcommWritten, RfcommRead)
      [] f = "hid"      -> Tables(HidFields, HidCodes, HidWritten, HidRead)
      [] f = "ase"      -> Tables(AseFields, AseCodes, AseWritten, AseRead)
      [] f = "ase response" ->
            Tables(AseResponseFields, AseCodes, AseResponseWritten, AseResponseRead)
      [] f = "ase status" ->
            Tables(AseStatusFields, AseStatusCodes, AseStatusWritten, AseStatusRead)
      [] f = "bass"     -> Tables(BassFields, BassCodes, BassWritten, BassRead)
      [] f = "preset"   -> Tables(PresetWritten, PresetCodes, PresetWritten, PresetRead)
      [] f = "preset event" ->
            Tables(PresetEventFields, PresetEventCodes, PresetEventWritten, PresetEventRead)
      [] f = "ancs"     -> Tables(AncsFields, AncsCodes, AncsWritten, AncsRead)
      [] f = "value"    -> Tables(ValueFields, ValueCodes, ValueWritten, ValueRead)

Message(name, code, label, fields) ==
    [name |-> name, code |-> code, label |-> label, fields |-> fields]

(***************************************************************************)
(* The messages to try.  A code without a match arm makes a generic one.   *)
(***************************************************************************)
Strict == {"sdp", "rfcomm"} \cup Profiles
GenericCode(f) ==
    CASE f \in {"att", "smp", "lmp", "avc"} -> 60
      [] f = "avdtp" -> Signal(20, Command)
      [] f = "hid"   -> 12
      [] OTHER       -> 200

\* What the i-th message carries in its header.
LabelOf(f, name, c, i) ==
    CASE f \in {"att", "smp", "lmp"} \cup (Profiles \ {"ase status", "preset event"}) -> 0
      [] f = "preset event" -> i % 2
      [] f = "rfcomm" -> IF name \in {"Pn", "Msc"} THEN i % 2 ELSE 2 * (4 + i) + (i % 2)
      [] f = "hid" /\ name = "GetProtocol" -> 0
      [] f = "hid" /\ name = "SetProtocol" -> i % 2
      [] f = "avc" -> i + 16 * (CASE c.rows = 0 -> 4 [] c.rows = 1 -> 7
                                  [] c.rows = 2 -> 259 [] OTHER -> 514)
      [] OTHER -> i

Sample(t, f, name, c, i) ==
    IF name = "Generic"
    THEN Message(name, GenericCode(f), LabelOf(f, name, c, i), <<Opaque(91, 0, c.octets)>>)
    ELSE Message(name, t.codes[name], LabelOf(f, name, c, i),
                 Values(t.fields[name], t.written[name], c))

Params(t, m) == IF m.name = "Generic" THEN m.fields[1] ELSE Write(t.written[m.name], m.fields)

\* The parameters with the last -d octets missing, or d added.
Changed(params, d) == SubSeq(params \o [i \in 1..4 |-> Num(0)], 1, Len(params) + d)

(***************************************************************************)
(* The parser of a protocol: the set with the message, empty on error.     *)
(***************************************************************************)
Arm(t, n, u, r) == IF r.ok THEN {Message(n, u.code, u.label, r.got)} ELSE {}
Parse(t, f, u) ==
    IF \E n \in DOMAIN t.read : t.read[n].code = u.code
    THEN UNION {Arm(t, n, u, Read(t.read[n].layout, u.data)) :
                  n \in {a \in DOMAIN t.read : t.read[a].code = u.code}}
    ELSE IF f \in Strict THEN {} ELSE {Message("Generic", u.code, u.label, <<u.data>>)}

(***************************************************************************)
(* L2CAP PDUs and ACL packets.  LMP packets travel whole.                  *)
(***************************************************************************)
Cid == Opaque(98, 0, 2)
L2capBytes(payload) == NumPair(Len(payload)) \o Cid \o payload

\* `fragment_l2cap_pdu`.
AclPackets(pdus, i) ==
    [k \in DOMAIN pdus |-> [first |-> k = 1, data |-> pdus[k], of |-> i]]
Packets(f, sdus, size, i) ==
    IF f = "lmp" THEN AclPackets(sdus, i)
    ELSE FlattenSeq([s \in DOMAIN sdus |-> AclPackets(Chunks(L2capBytes(sdus[s]), size), i)])

\* `AclDataPacketAssembler::feed`; expected = 0 is None.
NoAssembly == [expected |-> 0, data |-> <<>>]
Fed(a) ==
    CASE Len(a.data) < a.expected -> [assembly |-> a, pdus |-> {}]
      [] Len(a.data) > a.expected -> [assembly |-> NoAssembly, pdus |-> {}]
      [] OTHER                    -> [assembly |-> NoAssembly, pdus |-> {a.data}]
Feed(a, packet) ==
    CASE packet.first /\ Len(packet.data) < 2 -> [assembly |-> NoAssembly, pdus |-> {}]
      [] packet.first ->
            Fed([expected |-> packet.data[1][2] + 256 * packet.data[2][2] + 4,
                 data |-> packet.data])
      [] a.expected = 0 -> [assembly |-> a, pdus |-> {}]
      [] OTHER -> Fed([a EXCEPT !.data = @ \o packet.data])

\* `L2capPdu::from_bytes`.
L2capPayload(data) == Between(data, 5, 4 + data[1][2] + 256 * data[2][2])

(***************************************************************************)
(* Steps.                                                                  *)
(***************************************************************************)
Init ==
    /\ family = "" /\ sent = <<>> /\ flushed = {}
    /\ air = [h \in Links |-> <<>>]
    /\ assembling = [h \in Links |-> NoAssembly]
    /\ collecting = [h \in Links |-> NothingCollected]
    /\ got = [h \in Links |-> <<>>]

Sent(m, d, params, h) == [message |-> m, change |-> d, params |-> params, link |-> h]
UnitOf(m, params) == Unit(m.code, m.label, params)

\* Both messages are handed to the link layer; the second may be for another
\* connection.
Transmit(f, one, two, size) ==
    /\ family' = f
    /\ sent' = <<one, two>>
    /\ \E a \in {Packets(f, Sdus(f, UnitOf(one.message, one.params)), size, 1)},
          b \in {Packets(f, Sdus(f, UnitOf(two.message, two.params)), size, 2)} :
          air' = [h \in Links |-> (IF h = one.link THEN a ELSE <<>>)
                                  \o (IF h = two.link THEN b ELSE <<>>)]
    /\ UNCHANGED <<assembling, collecting, got, flushed>>

FollowUp == [octets |-> 3, rows |-> 1, tag |-> 1]
SendSample(t, f, one, two) ==
    \E d \in Changes, size \in FragmentSizes, h, k \in Links :
       \E params \in {Params(t, one)} :
          /\ Len(params) + d >= 0
          /\ h = CHOOSE l \in Links : TRUE
          /\ Transmit(f, Sent(one, d, Changed(params, d), h),
                      Sent(two, 0, Params(t, two), k), size)

Send ==
    /\ sent = <<>>
    /\ \E f \in Families : \E t \in {Table(f)} :
       \E n \in DOMAIN t.fields \cup (IF f \in Strict THEN {} ELSE {"Generic"}), c \in Variants :
          SendSample(t, f, Sample(t, f, n, c, 1), Sample(t, f, n, FollowUp, 2))

\* `on_acl`, then the protocol's assembler and parser.
Receive(h, c) ==
    /\ collecting' = [collecting EXCEPT ![h] = c.collecting]
    /\ \E t \in {Table(family)} :
          got' = [got EXCEPT ![h] = @ \o SetToSeq(UNION {
                    UNION {Parse(t, family, u) : u \in Inside(family, v)} : v \in c.units})]

Reassemble(h, r) ==
    /\ assembling' = [assembling EXCEPT ![h] = r.assembly]
    /\ IF r.pdus = {} THEN UNCHANGED <<collecting, got>>
       ELSE \E pdu \in r.pdus : Receive(h, Collect(family, collecting[h], L2capPayload(pdu)))

Deliver(h) ==
    /\ air[h] # <<>>
    /\ air' = [air EXCEPT ![h] = Tail(@)]
    /\ IF family = "lmp"
       THEN /\ Receive(h, Collect(family, collecting[h], Head(air[h]).data))
            /\ UNCHANGED assembling
       ELSE Reassemble(h, Feed(assembling[h], Head(air[h])))
    /\ UNCHANGED <<family, sent, flushed>>

\* The controller gives up the PDU it is sending: its packets that are left,
\* up to the next first packet.
Flush(h) ==
    /\ air[h] # <<>> /\ family \notin Reliable
    /\ \E n \in 1..Len(air[h]) :
          /\ \A k \in 2..n : ~air[h][k].first
          /\ n < Len(air[h]) => air[h][n + 1].first
          /\ air' = [air EXCEPT ![h] = SubSeq(@, n + 1, Len(@))]
    /\ flushed' = flushed \cup {Head(air[h]).of}
    /\ UNCHANGED <<family, sent, assembling, collecting, got>>

Next == Send \/ \E h \in Links : Deliver(h) \/ Flush(h)

Spec == Init /\ [][Next]_vars

(***************************************************************************)
(* Properties.                                                             *)
(***************************************************************************)
SameMessage(a, b) ==
    /\ a.name = b.name /\ a.code = b.code /\ a.label = b.label
    /\ Len(a.fields) = Len(b.fields) /\ a.fields = b.fields

\* The messages of a connection of which nothing was flushed.
Expected(h) ==
    SelectSeq([i \in DOMAIN sent |-> [sent |-> sent[i], at |-> i]],
              LAMBDA s : s.sent.link = h /\ s.at \notin flushed)
Matches(messages, expected) ==
    \A i \in DOMAIN messages : SameMessage(messages[i], expected[i].sent.message)

\* Messages come out as they went in, once each and in order, however their
\* packets are cut and interleaved with those of another connection; one of
\* which a packet was flushed never comes out, in part or mixed with another.
PduFaithful ==
    sent # <<>> /\ sent[1].change = 0 =>
        \A h \in Links : \E e \in {Expected(h)} :
            /\ Len(got[h]) <= Len(e)
            /\ Matches(got[h], e)
            /\ air[h] = <<>> => Len(got[h]) = Len(e)

\* A message whose parameters have another length is either refused or means
\* what a prefix of its octets says; what follows it is not affected.
Again(m) == \E t \in {Table(family)} : IsPrefix(Params(t, m), sent[1].params)
AcceptedPduIsCanonical ==
    sent # <<>> /\ sent[1].change # 0 =>
        \A h \in Links :
            /\ \A i \in DOMAIN got[h] :
                  \/ SameMessage(got[h][i], sent[2].message)
                  \/ got[h][i].name = sent[1].message.name /\ Again(got[h][i])
            /\ air[h] = <<>> /\ sent[2].link = h /\ 2 \notin flushed =>
                  got[h] # <<>> /\ SameMessage(Last(got[h]), sent[2].message)

=============================================================================

----------------------------- MODULE MCServices -----------------------------
(***************************************************************************)
(* Small instances of GATT and of the profile services above it for TLC.   *)
(* A behaviour is about one of them.                                       *)
(***************************************************************************)
EXTENDS Gatt

CONSTANTS b1, b2

VARIABLES part,                    \* which service this behaviour is about
          srv, cli, up, down, left \* the variables of the profile services

gattVars == vars
profileVars == <<srv, cli, up, down, left>>

-----------------------------------------------------------------------------
(* GATT: databases and calls.                                               *)

NOTIFY == 16
INDICATE == 32
READ == 2
WRITE == 8

Bytes(n, v) == [i \in 1..n |-> v]

Chr(uuid, properties, permissions, value, descriptors) ==
  [uuid |-> uuid, properties |-> properties, permissions |-> permissions, value |-> value,
   descriptors |-> descriptors]

Svc(uuid, primary, includes, characteristics) ==
  [uuid |-> uuid, primary |-> primary, includes |-> includes, characteristics |-> characteristics]

ReadWrite == {"read", "write"}

\* Short and long UUIDs side by side, an included service of each, descriptors
\* with and without a CCCD among them.
Mixed ==
  <<Svc(<<2, 10>>, TRUE, <<3, 4>>,
        <<Chr(<<2, 20>>, READ, {"read"}, <<>>, <<>>),
          Chr(<<16, 21>>, READ + NOTIFY, {"read"}, <<>>,
              <<[uuid |-> <<16, 30>>, permissions |-> {"read"}, value |-> <<>>]>>)>>),
    Svc(<<2, 11>>, TRUE, <<>>, <<>>),
    Svc(<<16, 12>>, TRUE, <<>>,
        <<Chr(<<2, 22>>, READ + INDICATE, {"read"}, <<>>,
              <<[uuid |-> CCCD, permissions |-> ReadWrite, value |-> <<0, 0>>],
                [uuid |-> <<2, 31>>, permissions |-> {"read_encrypted"}, value |-> <<>>]>>),
          Chr(<<2, 20>>, READ, {"read"}, <<>>, <<>>)>>),
    Svc(<<2, 13>>, FALSE, <<>>, <<Chr(<<2, 23>>, WRITE, {"write"}, <<>>, <<>>)>>),
    Svc(<<2, 11>>, TRUE, <<2>>, <<Chr(<<2, 20>>, READ, {"read"}, <<>>, <<>>)>>)>>

\* One value, open or protected.
One(permissions) ==
  <<Svc(<<2, 10>>, TRUE, <<>>, <<Chr(<<2, 20>>, READ + WRITE, permissions, <<1>>, <<>>)>>)>>

TwoValues ==
  <<Svc(<<2, 10>>, TRUE, <<>>,
        <<Chr(<<2, 20>>, READ + WRITE, ReadWrite, <<1>>, <<>>),
          Chr(<<2, 21>>, READ + WRITE, {"read", "write_encrypted"}, <<1, 1>>, <<>>)>>)>>

Notified ==
  <<Svc(<<2, 10>>, TRUE, <<>>,
        <<Chr(<<2, 20>>, READ + NOTIFY + INDICATE, {"read"}, <<1>>, <<>>)>>)>>

Plan(services, bearers, calls, kinds) ==
  [services |-> services, bearers |-> bearers, calls |-> calls, kinds |-> kinds]

MCPlans ==
  {Plan(Mixed, {b1}, 3, {"discover"}),
   Plan(One(ReadWrite), {b1}, 4, {"read", "set", "mtu"}),
   Plan(One({"read_encrypted", "write_authenticated"}), {b1, b2}, 3, {"read", "write", "mtu", "secure"}),
   Plan(TwoValues, {b1, b2}, 5, {"queue", "secure", "close", "dynamic"}),
   Plan(Notified, {b1}, 6, {"subscribe", "send", "close", "mtu"}),
   Plan(Notified, {b1, b2}, 5, {"subscribe", "send", "close", "mtu"})}

MCValues == {<<>>, Bytes(21, 2), Bytes(22, 3), Bytes(23, 4), Bytes(44, 5), Bytes(46, 6)}

MCParts == {[offset |-> 0, part |-> <<7, 8>>], [offset |-> 2, part |-> <<9>>]}

-----------------------------------------------------------------------------
(* Audio streams: a sink and a source, operations on both at once.          *)
Item(i, a) == [id |-> i, arg |-> a]
Operation(c, items) == [code |-> c, items |-> items]
OnBoth(c, a) == Operation(c, <<Item(1, a), Item(2, a)>>)

A == INSTANCE AudioStreams WITH
       Sinks <- {1}, Sources <- {2}, CisIds <- {1}, MaxUp <- 3,
       Bounds <- [writes |-> 4, drops |-> 1, cises |-> 1],
       Operations <-
         {OnBoth("CONFIG_CODEC", 2), OnBoth("CONFIG_QOS", 1), OnBoth("ENABLE", 2),
          Operation("RECEIVER_START_READY", <<Item(2, 0)>>), OnBoth("DISABLE", 0),
          Operation("RECEIVER_STOP_READY", <<Item(2, 0)>>),
          Operation("UPDATE_METADATA", <<Item(1, 1)>>),
          Operation("RELEASE", <<Item(1, 0), Item(9, 0)>>)}

\* Hearing presets: a binaural set, synchronized or not, with calls of the
\* application between the writes.
Preset(writable) == [name |-> 1, available |-> TRUE, writable |-> writable]
PresetOp(c, i, a) == [code |-> c, index |-> i, arg |-> a]
PresetPlan(w, c, o) == [writes |-> w, calls |-> c, ops |-> o]

H == INSTANCE HearingPresets WITH
       Ears <- {"l", "r"}, Synchronizing <- {"l", "r"},
       Presets <- <<Preset(TRUE), Preset(FALSE), Preset(TRUE)>>,
       Plans <-
         {PresetPlan(3, 0, {PresetOp("SetActiveSynchronized", 2, 0),
                            PresetOp("NextSynchronized", 0, 0),
                            PresetOp("PreviousSynchronized", 0, 0),
                            PresetOp("SetActive", 3, 0)}),
          PresetPlan(2, 1, {PresetOp("SetActiveSynchronized", 3, 0),
                            PresetOp("NextSynchronized", 0, 0),
                            PresetOp("SetActiveSynchronized", 2, 0)}),
          PresetPlan(2, 2, {PresetOp("ReadPresets", 2, 9), PresetOp("ReadPresets", 1, 1),
                            PresetOp("ReadPresets", 0, 1), PresetOp("WritePresetName", 2, 2),
                            PresetOp("WritePresetName", 3, 2),
                            PresetOp("WritePresetName", 1, 0), PresetOp("SetActive", 2, 0)}),
          PresetPlan(2, 1, {PresetOp("SetActive", 2, 0), PresetOp("Next", 0, 0),
                            PresetOp("Previous", 0, 0)})}

\* Volume control, offsets and inputs: two clients, counters about to wrap.
VolumeOp(c, a) == [code |-> c, arg |-> a]
VolumePlan(s, o) == [service |-> s, writes |-> 4, ops |-> o]
Volume(v, m, c) == [volume |-> v, mute |-> m, counter |-> c]
Input(m, g, c) == [gain |-> 0, mute |-> m, mode |-> g, counter |-> c]

V == INSTANCE VolumeControl WITH
       Clients <- {1, 2}, StepSize <- 100, Gains <- {0, 5},
       Plans <-
         {VolumePlan("vcs", {VolumeOp("DOWN", 0), VolumeOp("UNMUTE_UP", 0), VolumeOp("UP", 0),
                             VolumeOp("ABSOLUTE", 0), VolumeOp("MUTE", 0), VolumeOp("UNMUTE", 0),
                             VolumeOp("UNMUTE_DOWN", 0), VolumeOp("short", 0)}),
          VolumePlan("vocs", {VolumeOp("OFFSET", -256), VolumeOp("OFFSET", 255),
                              VolumeOp("OFFSET", 0)}),
          VolumePlan("aics", {VolumeOp("GAIN", 5), VolumeOp("GAIN", 99), VolumeOp("MUTE", 0),
                              VolumeOp("UNMUTE", 0), VolumeOp("MANUAL", 0),
                              VolumeOp("AUTOMATIC", 0), VolumeOp("short", 0)})},
       Initial <-
         [vcs |-> {Volume(200, 1, 254), Volume(255, 0, 255)},
          vocs |-> {[offset |-> 0, counter |-> 254]},
          aics |-> {Input("MUTED", "MANUAL", 254), Input("DISABLED", "MANUAL_ONLY", 0),
                    Input("NOT_MUTED", "AUTOMATIC", 255)}]

\* Apple's services: values longer than a notification, answers in pieces.
P == INSTANCE AppleServices WITH
       AttributeIds <- {1, 2}, Limit <- 1, Subjects <- {1, 2}, MaxCut <- 4,
       Texts <- {<<1>>, <<1, 2>>, <<2, 1, 1>>},
       Bounds <- [updates |-> 4, requests |-> 3, actions |-> 1, stops |-> 1]

\* A scan delegator with two receive states and two sources.
S == INSTANCE ScanDelegator WITH
       Slots <- {1, 2}, Sources <- {1, 2}, MaxOperations <- 3, MaxChanges <- 2

-----------------------------------------------------------------------------
NoGatt ==
  /\ plan = [bearers |-> {}] /\ server = <<>> /\ client = <<>> /\ security = <<>>
  /\ pending = {} /\ inbox = <<>> /\ confirm = <<>> /\ acked = <<>>
NoProfile == srv = <<>> /\ cli = <<>> /\ up = <<>> /\ down = <<>> /\ left = <<>>

MCInit ==
  \/ part = "gatt" /\ Init /\ NoProfile
  \/ part = "streams" /\ A!StreamInit /\ NoGatt
  \/ part = "presets" /\ H!PresetInit /\ NoGatt
  \/ part = "volume" /\ V!VolumeInit /\ NoGatt
  \/ part = "media" /\ P!MediaInit /\ NoGatt
  \/ part = "notices" /\ P!NoticeInit /\ NoGatt
  \/ part = "scan" /\ S!ScanInit /\ NoGatt

MCNext ==
  \/ part = "gatt" /\ Next /\ UNCHANGED <<part, profileVars>>
  \/ part = "streams" /\ A!StreamNext /\ UNCHANGED <<part, gattVars>>
  \/ part = "presets" /\ H!PresetNext /\ UNCHANGED <<part, gattVars>>
  \/ part = "volume" /\ V!VolumeNext /\ UNCHANGED <<part, gattVars>>
  \/ part = "media" /\ P!MediaNext /\ UNCHANGED <<part, gattVars>>
  \/ part = "notices" /\ P!NoticeNext /\ UNCHANGED <<part, gattVars>>
  \/ part = "scan" /\ S!ScanNext /\ UNCHANGED <<part, gattVars>>

MCSpec == MCInit /\ [][MCNext]_<<part, gattVars, profileVars>>

\* What a GATT client found out about the server is what is there: services,
\* characteristics and descriptors as they are defined, whatever UUIDs they
\* have (the discovery procedures of GattClient against GattServer), and on
\* every bearer both ends agree about MTU, subscriptions and values sent.
GattAgrees == part = "gatt" => DiscoveryExact /\ BearersAgree

\* A GATT call is done as a whole: a read returns one whole value the server
\* had, never a part of it, and queued writes are applied all or not at all
\* (read_long_value of GattClient, execute_writes of GattServer).
CallsAreWhole == [][ReadsWhole /\ QueuedWritesAtomic]_gattVars

\* A client that has received everything sent to it knows the server's state:
\* the stream endpoints of ASCS, the presets of HAP, the attributes of the Apple
\* Media Service, and the receive states of BASS.
ViewFollows ==
  CASE part = "streams" -> A!AseViewFollows
    [] part = "presets" -> H!PresetViewFollows
    [] part = "media" -> P!MediaViewFollows
    [] part = "scan" -> S!ReceiveStateViewFollows
    [] OTHER -> TRUE

\* A hearing aid always has a usable active preset, the two of a set agree when
\* they are synchronized, and a read of presets ends with its last record.
PresetsUsable == part = "presets" => H!PresetsUsable

\* Nobody changes a volume, an offset or an input without having seen the
\* change before it: two clients never both act on the same state.
SeenBeforeChanged == part = "volume" => V!SeenBeforeChanged

\* The attributes an ANCS client hands on answer the request it made.
AnswersItsRequest == part = "notices" => P!AnswersItsRequest
=============================================================================

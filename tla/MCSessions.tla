----------------------------- MODULE MCSessions -----------------------------
(***************************************************************************)
(* Small instances, for TLC, of two devices.  Of their links: the start of *)
(* a controller, LE, broadcast and Classic links on a LocalLink, an        *)
(* ExternalHost with its reader thread, and bonds kept in a file.  Of what *)
(* they speak over them: pairing, Classic pairing, Classic L2CAP channels, *)
(* the RFCOMM multiplexer, AVRCP, the Hands-Free Profile and A2DP.  A      *)
(* behaviour is about one of them; the variables of the others then keep a *)
(* value nobody reads.                                                     *)
(***************************************************************************)
EXTENDS MCSmpPairing, TLC

CONSTANTS a, b  \* the two managers of a Classic link

VARIABLES
  part,                                                         \* which of them
  host, ctl, plan,                                              \* most links
  wiped,                                                        \* LeLinks
  cmds, evs, calling,                                           \* HostStartup, ClassicPairing
  ex, chan, app, dev,                                           \* ExternalHost, Bonds
  file, tmp, saving, told, steps,                               \* Bonds
  servers, channels, accepted, wire, opened, disconnects, sent, \* ClassicChannels
  mux, calls,                                                   \* RfcommMux
  free, pending, incoming, pidRegistered, listeners, value, due,
  commands, responses, known, displaced, errors, begun, changes, \* AvrcpRuntime
  hf, ag, toHf, toAg, left                                      \* Hfp, MediaStream

linkVars == <<host, ctl, plan>>
startVars == <<cmds, evs, calling>>
extVars == <<ex, chan, app>>
bondVars == <<file, tmp, saving, told, steps>>
allLinkVars == <<linkVars, wiped, startVars, extVars, dev, bondVars>>
smpVars == vars
classicVars == <<servers, channels, accepted, opened, disconnects, sent>>
muxVars == <<mux, calls>>
avrcpVars == <<free, pending, incoming, pidRegistered, listeners, value, due,
               commands, responses, known, displaced, begun, changes>>
hfpVars == <<hf, ag, toHf, toAg, left>>
sharedVars == <<wire, errors>>
sessionVars == <<smpVars, classicVars, muxVars, avrcpVars, hfpVars, sharedVars>>

-----------------------------------------------------------------------------
(* Links: two devices on one LocalLink.                                     *)
LePlan(joined, n, kinds) == [joined |-> joined, calls |-> n, kinds |-> kinds]

L == INSTANCE LeLinks WITH
       Devices <- {1, 2}, Initiators <- {1}, Cises <- {1},
       Controls <- {"SetPhy", "Update", "ReadPhy", "Length", "Subrate"},
       MaxHandle <- 5, MaxQueue <- 3,
       Plans <- {LePlan(FALSE, 5, {"Advertise", "Connect", "Disconnect", "Wipe"}),
                 LePlan(FALSE, 6, {"Extended", "Connect", "Disconnect"}),
                 LePlan(TRUE, 3, {"Control", "Disconnect", "Wipe"}),
                 LePlan(TRUE, 7, {"Cis", "Disconnect"}),
                 LePlan(TRUE, 6, {"Cis", "Remove"}),
                 LePlan(TRUE, 6, {"Cis", "Path", "Disconnect"})}

BroadcastPlan(onAir, n, kinds) == [onAir |-> onAir, calls |-> n, kinds |-> kinds]

\* A train's data takes one report, or two.
B == INSTANCE Broadcast WITH
       Devices <- {1, 2}, Broadcasters <- {1}, Linked <- {<<2, 1>>, <<1, 2>>},
       BigHandles <- {1, 2}, Codes <- {0, 1}, Data <- <<1, 2>>, MaxHandle <- 5,
       Plans <- {BroadcastPlan(FALSE, 5, {"Train", "Sync", "Cancel"}),
                 BroadcastPlan(TRUE, 4, {"Sync", "Transfer", "Terminate"}),
                 BroadcastPlan(TRUE, 5, {"Sync", "Big", "Terminate"}),
                 BroadcastPlan(TRUE, 5, {"Sync", "Big", "Path"})}

ClassicPlan(auto, allow, n, kinds) ==
  [auto |-> auto, allow |-> allow, calls |-> n, kinds |-> kinds]

P == INSTANCE ClassicLinks WITH
       Devices <- {1, 2}, Initiators <- {1}, Modes <- {1, 2}, LastPage <- 2,
       MaxHandle <- 5, MaxQueue <- 3,
       Plans <- {ClassicPlan(FALSE, TRUE, 5, {"Connect", "Accept", "Switch", "Disconnect"}),
                 ClassicPlan(FALSE, FALSE, 4, {"Connect", "Accept", "Switch", "Disconnect"}),
                 ClassicPlan(TRUE, TRUE, 5, {"Connect", "Sync", "Disconnect"}),
                 ClassicPlan(TRUE, TRUE, 4, {"Connect", "Encrypt", "Name", "Features", "Disconnect"})}

-----------------------------------------------------------------------------
(* Controllers that support and refuse different parts of the start.        *)
AllSupported == {"Version", "LeAll", "LeLegacy", "Extended", "Features", "Mask2", "Buffer",
                 "LeBufferV2", "LeBufferV1", "Length", "Sets", "MaxData"}

Profile(sup, fails, lastPage, length) ==
  [sup |-> sup, fails |-> fails, lastPage |-> lastPage, length |-> length]

S == INSTANCE HostStartup WITH
       left <- calling,
       MaxCalls <- 3, RpaTimeout <- 2, Elapsed <- {1, 2},
       Profiles <-
         {Profile(AllSupported, {}, 2, "default"),
          Profile(AllSupported, {"Extended"}, 2, "host"),
          Profile(AllSupported, {"LeAll", "Version", "Mask2", "Length"}, 1, "default"),
          Profile({"LeLegacy", "Features", "Buffer", "Length"}, {"Write", "LeLegacy"}, 0, "default"),
          Profile({"LeLegacy", "Features", "LeBufferV1", "Length"}, {"Features"}, 0, "default"),
          Profile({}, {}, 0, "host"),
          Profile(AllSupported, {"Commands"}, 1, "host"),
          Profile(AllSupported, {"Reset"}, 1, "host")}

-----------------------------------------------------------------------------
(* An external controller: what goes on beside a queue of Device commands.  *)
Plain == [sup |-> {}, fails |-> {}, pages |-> 0, length |-> "host"]
Never == [k \in {"submit", "direct", "vendor", "noreply", "init", "att", "eatt", "open",
                 "async", "timeout", "fault", "shutdown"} |-> 0]

X == INSTANCE ExternalHost WITH
       Plans <-
         {<<Plain, [Never EXCEPT !.submit = 2, !.async = 1, !.direct = 1]>>,
          <<Plain, [Never EXCEPT !.submit = 2, !.direct = 2, !.timeout = 1]>>,
          <<Plain, [Never EXCEPT !.submit = 1, !.vendor = 1, !.async = 1, !.fault = 1, !.noreply = 1]>>,
          <<[sup |-> {"page", "lebuffer2", "buffer", "length", "sets"}, fails |-> {"sets"},
             pages |-> 1, length |-> "own"], [Never EXCEPT !.init = 1, !.submit = 1, !.async = 1]>>,
          <<[sup |-> {"features", "lebuffer", "version", "maxdata"}, fails |-> {"version"},
             pages |-> 0, length |-> "host"], [Never EXCEPT !.init = 1, !.fault = 1]>>,
          <<Plain, [Never EXCEPT !.att = 2, !.async = 1, !.timeout = 1, !.fault = 1]>>,
          <<Plain, [Never EXCEPT !.open = 1, !.eatt = 1, !.att = 1, !.async = 1]>>,
          <<Plain, [Never EXCEPT !.submit = 1, !.att = 1, !.async = 1, !.shutdown = 1]>>}

\* Two devices with their own namespaces in one key file.
K == INSTANCE Bonds WITH
       Devices <- {"a", "b"}, Namespace <- [d \in {"a", "b"} |-> d],
       BondPeers <- {"p", "q"}, BondKeys <- {1, 2}
BondSteps == 4

-----------------------------------------------------------------------------
(* Sessions.                                                                *)
\* A basic channel, and two ERTM ones that differ in all that ends may differ in.
Basic == [mode |-> "basic", mtu |-> 48, window |-> 0, fcs |-> FALSE]
Unchecked == [mode |-> "ertm", mtu |-> 48, window |-> 1, fcs |-> FALSE]
Checked == [mode |-> "ertm", mtu |-> 64, window |-> 2, fcs |-> TRUE]

C == INSTANCE ClassicChannels WITH
       Managers <- {a, b}, Specs <- {Basic, Unchecked, Checked},
       MaxConnects <- 3, MaxDisconnects <- 2, MaxData <- 1, LastCid <- 2

\* Both ends of a Classic link run the same code.
Symmetry == Permutations({a, b})

\* Two channels of which one has a listener, and credits that run out.
M == INSTANCE RfcommMux WITH
       Channels <- {1, 2}, Listening <- {1}, Initial <- {1, 3}, MaxCredits <- 3,
       Threshold <- 1, MaxWire <- 2
MuxCalls == 5

\* Two labels, so that one is reused beside one kept by an event.
V == INSTANCE AvrcpRuntime WITH
       Labels <- {0, 1}, Events <- {1, 2}, Supported <- {1}, Settable <- {1},
       Values <- {0, 1}, CommandParts <- 2, ResponseParts <- 3,
       MaxCommands <- 4, MaxChanges <- 2

\* A unit and a gateway with all the optional features or few of them.
Features == {"codecs", "three_way", "indicators"}
Unit(f) == [features |-> f, indicators |-> {1, 2}, codecs |-> {1, 2}]
Gateway(f, n) == [features |-> f, indicators |-> n, hfIndicators |-> {2, 3}, ops |-> {"hold"}]

H == INSTANCE Hfp WITH
       Setups <- {<<Unit(f), Gateway(g, 2)>> : f \in {{}, Features}, g \in {{"three_way"}, Features}}
                   \cup {<<Unit(Features), Gateway(Features, 0)>>},
       Values <- {0, 1}, Codecs <- {2, 3}, HfCalls <- 3, AgCalls <- 2

\* What two ends of a Classic link can do, and what their users do.
SspPlan(io, mitm, bonding, yes, number, managed, ssp, rounds, losses) ==
  [io |-> io, mitm |-> mitm, bonding |-> bonding, yes |-> yes, number |-> number,
   managed |-> managed, ssp |-> ssp, rounds |-> rounds, losses |-> losses]
Ios == {"display", "yes_no", "keyboard", "none", "keyboard_display"}
Each(x) == <<x, x>>

\* All capabilities with users who agree, and with users or numbers that do not;
\* and PIN codes.
N == INSTANCE ClassicPairing WITH
       Plans <-
         {SspPlan(io, mitm, Each(TRUE), Each(TRUE), Each(1), managed, TRUE, 1, 0) :
            io \in Ios \X Ios, mitm \in {Each(FALSE), <<TRUE, FALSE>>},
            managed \in {Each(FALSE), Each(TRUE)}}
         \cup {SspPlan(io, <<FALSE, TRUE>>, <<FALSE, TRUE>>, yes, number, Each(FALSE), TRUE, 0, 1) :
                 io \in Ios \X Ios, yes \in {<<TRUE, FALSE>>, <<FALSE, TRUE>>},
                 number \in {<<2, 1>>, <<1, 0>>}}
         \cup {SspPlan(<<"keyboard", io>>, Each(FALSE), Each(TRUE), Each(TRUE), number,
                       <<FALSE, TRUE>>, FALSE, 1, 1) :
                 io \in {"keyboard", "none"}, number \in {Each(1), <<1, 2>>}}

MediaPlan(program, discover, packets, n, kinds, sessions, losses, timeouts, codec) ==
  [program |-> program, discover |-> discover, packets |-> packets, calls |-> n,
   kinds |-> kinds, sessions |-> sessions, losses |-> losses, timeouts |-> timeouts,
   codec |-> codec]
On(sigs, seids) == {<<sig, seids>> : sig \in sigs}

\* bumble-player twice, with a loss or a timeout; an A2dpClient; and applications
\* that send commands ahead of the answers, to one endpoint, two, or none there is.
D == INSTANCE MediaStream WITH
       src <- hf, snk <- ag, net <- toHf, plan <- left, Labels <- 16,
       Plans <-
         {MediaPlan("player", d, 2, 0, {}, 2, 1, 0, TRUE) : d \in BOOLEAN}
         \cup {MediaPlan("player", d, 1, 0, {}, 2, 0, 1, TRUE) : d \in BOOLEAN}
         \cup {MediaPlan("client", d, 0, 3, On({"suspend", "start", "close"}, <<1>>), 1, 0, 1, TRUE) :
                 d \in BOOLEAN}
         \cup {MediaPlan("player", TRUE, 1, 0, {}, 1, 0, 0, FALSE),
               MediaPlan("raw", FALSE, 0, 4,
                         On({"set_configuration", "open", "start", "suspend"}, <<1>>)
                           \cup On({"start"}, <<1, 2>>), 1, 0, 0, TRUE),
               MediaPlan("raw", TRUE, 0, 3,
                         On({"set_configuration", "open", "reconfigure", "get_configuration", "close"},
                            <<1>>), 1, 0, 0, TRUE),
               MediaPlan("raw", TRUE, 0, 2,
                         On({"set_configuration", "get_capabilities", "security_control",
                             "delay_report", "abort"}, <<1>>)
                           \cup On({"get_capabilities", "abort"}, <<2>>), 1, 0, 0, TRUE)}

-----------------------------------------------------------------------------
NoLink == host = 0 /\ ctl = 0 /\ plan = 0
NoStart == cmds = 0 /\ evs = 0 /\ calling = 0
NoExt == ex = 0 /\ chan = 0 /\ app = 0
NoBond == file = 0 /\ tmp = 0 /\ saving = 0 /\ told = 0 /\ steps = 0
NoSmp ==
  /\ setup = 0 /\ started = 0 /\ session = 0 /\ role = 0 /\ acl = 0 /\ inbox = 0 /\ encReq = 0
  /\ encrypted = 0 /\ encStarted = 0 /\ done = 0 /\ bond = 0 /\ overrun = 0
NoClassic ==
  /\ servers = 0 /\ channels = 0 /\ accepted = 0
  /\ opened = 0 /\ disconnects = 0 /\ sent = 0
NoMux == mux = 0 /\ calls = 0
NoAvrcp ==
  /\ free = 0 /\ pending = 0 /\ incoming = 0 /\ pidRegistered = 0 /\ listeners = 0
  /\ value = 0 /\ due = 0 /\ commands = 0 /\ responses = 0 /\ known = 0 /\ displaced = 0
  /\ begun = 0 /\ changes = 0
NoHfp == hf = 0 /\ ag = 0 /\ toHf = 0 /\ toAg = 0 /\ left = 0

LinkInit ==
  \/ /\ NoStart /\ NoExt /\ dev = 0 /\ NoBond
     /\ \/ part = "le" /\ L!Init
        \/ part = "broadcast" /\ B!Init /\ wiped = FALSE
        \/ part = "classic" /\ P!Init /\ wiped = FALSE
  \/ part = "start" /\ S!Init /\ plan = 0 /\ wiped = FALSE /\ NoExt /\ dev = 0 /\ NoBond
  \/ part = "ssp" /\ N!SspInit /\ wiped = FALSE /\ calling = 0 /\ NoExt /\ dev = 0 /\ NoBond
  \/ part = "external" /\ X!Init /\ host = 0 /\ wiped = FALSE /\ NoStart /\ NoBond
  \/ part = "bonds" /\ K!BondInit(BondSteps) /\ NoLink /\ wiped = FALSE /\ NoStart /\ NoExt

OnLink ==
  /\ \/ part = "le" /\ L!Next
     \/ part = "broadcast" /\ B!Next /\ UNCHANGED wiped
     \/ part = "classic" /\ P!Next /\ UNCHANGED wiped
  /\ UNCHANGED <<startVars, extVars, dev, bondVars>>

Starting == part = "start" /\ S!Next /\ UNCHANGED <<plan, wiped, extVars, dev, bondVars>>
Authenticating == part = "ssp" /\ N!SspNext /\ UNCHANGED <<wiped, calling, extVars, dev, bondVars>>
External == part = "external" /\ X!Next /\ UNCHANGED <<host, wiped, startVars, bondVars>>
Bonding == part = "bonds" /\ K!BondNext /\ UNCHANGED <<linkVars, wiped, startVars, extVars>>

MCInit ==
  \/ LinkInit /\ NoSmp /\ NoClassic /\ NoMux /\ NoAvrcp /\ NoHfp /\ wire = 0 /\ errors = 0
  \/ /\ NoLink /\ wiped = FALSE /\ NoStart /\ NoExt /\ dev = 0 /\ NoBond
     /\ \/ part = "smp" /\ Init /\ NoClassic /\ NoMux /\ NoAvrcp /\ NoHfp /\ wire = 0 /\ errors = 0
        \/ part = "l2cap" /\ C!Init /\ NoSmp /\ NoMux /\ NoAvrcp /\ NoHfp
        \/ part = "mux" /\ M!MuxInit(MuxCalls) /\ NoSmp /\ NoClassic /\ NoAvrcp /\ NoHfp /\ errors = 0
        \/ part = "avrcp" /\ V!Init /\ NoSmp /\ NoClassic /\ NoMux /\ NoHfp /\ wire = 0
        \/ part = "hfp" /\ H!HfpInit /\ NoSmp /\ NoClassic /\ NoMux /\ NoAvrcp /\ wire = 0 /\ errors = 0
        \/ /\ part = "a2dp" /\ D!StreamInit /\ toAg = 0
           /\ NoSmp /\ NoClassic /\ NoMux /\ NoAvrcp /\ wire = 0 /\ errors = 0

InSession ==
  \/ part = "smp" /\ Next /\ UNCHANGED <<classicVars, muxVars, avrcpVars, hfpVars, sharedVars>>
  \/ part = "l2cap" /\ C!Next /\ UNCHANGED <<smpVars, muxVars, avrcpVars, hfpVars>>
  \/ part = "mux" /\ M!MuxNext /\ UNCHANGED <<smpVars, classicVars, avrcpVars, hfpVars, errors>>
  \/ part = "avrcp" /\ V!Next /\ UNCHANGED <<smpVars, classicVars, muxVars, hfpVars, wire>>
  \/ part = "hfp" /\ H!HfpNext /\ UNCHANGED <<smpVars, classicVars, muxVars, avrcpVars, sharedVars>>
  \/ /\ part = "a2dp" /\ D!StreamNext
     /\ UNCHANGED <<toAg, smpVars, classicVars, muxVars, avrcpVars, sharedVars>>

MCNext ==
  \/ UNCHANGED part /\ (OnLink \/ Starting \/ Authenticating \/ External \/ Bonding) /\ UNCHANGED sessionVars
  \/ InSession /\ UNCHANGED <<part, allLinkVars>>

MCSpec == MCInit /\ [][MCNext]_<<part, allLinkVars, sessionVars>>

-----------------------------------------------------------------------------
\* A host that has polled everything its controller reported knows exactly what
\* its controller has: LE and Classic connections with their peers and roles,
\* established CISes and their data paths, synchronous links, periodic
\* synchronizations, BIGs and BIG synchronizations with the same BISes (the event
\* arms of Device::poll against the tables of Controller); and a step of the start
\* that it counts as done is one the controller has not undone by a later Reset.
Mirrored ==
  CASE part = "le" -> L!HostMirrorsController /\ L!CisBacked /\ L!PathsAgree
    [] part = "broadcast" -> B!BroadcastMirrored
    [] part = "classic" -> P!ClassicMirrored
    [] part = "start" -> S!ResultsInForce
    [] OTHER -> TRUE

\* Nothing a host has asked for stays pending when nothing is on its way:
\* controls, disconnections, data paths, connection attempts, BIG commands, name
\* requests and the pages of remote features are answered, fail, or go with
\* their link; the start of the controller comes to its end; and no command is
\* left in an ExternalHost's queue with nobody to send it.
NothingLeftWaiting ==
  CASE part = "le" -> L!NothingLeftWaiting /\ L!ConnectingIsBacked
    [] part = "broadcast" -> B!PendingBigsAgree
    [] part = "classic" -> P!ClassicAnswered
    [] part = "start" -> S!StartupCompletes
    [] part = "external" -> X!NothingStuck
    [] OTHER -> TRUE

\* What is put together from several reports is of one sender: the chunks of two
\* periodic advertisements, or of two synchronizations, never mix (the
\* PeriodicAdvertisingReport arm of poll).
ReportsWhole == part = "broadcast" => B!ReportsWhole

\* A blocking call returns the answer to what it asked, and takes nothing that
\* is meant for the Device: packets reach it once each and in order, and commands
\* go out one at a time (send_command, wait_for_activity of ExternalHost).
OwnAnswer == part = "external" => X!OwnAnswer /\ X!PacketsInOrder /\ X!OneCommandAtATime

\* The key file holds the bonds that completed calls left in it, whatever other
\* devices store and wherever a process dies (JsonKeyStore, Device).
BondsKept == part = "bonds" => K!BondsKept

\* The two ends of a link agree about it once the PDUs between them have been
\* carried: connections come in pairs with opposite roles and the same
\* encryption, CISes and synchronous links exist at both ends or at neither, and
\* no receiver outlives the BIG it listens to.
LinkEndsAgree ==
  CASE part = "le" -> L!LinksPaired /\ L!CisEndsAgree
    [] part = "broadcast" -> B!NoOrphanBigSync
    [] part = "classic" -> P!ClassicEndsAgree
    [] OTHER -> TRUE

\* The two ends of a link or of a session agree about it once everything has
\* arrived: links are at both ends or at neither, with opposite roles; a Classic
\* channel is open at both ends with what each announced, or at neither
\* (process_pdu of ChannelManager); what one end of an RFCOMM link may send is
\* what the other granted, also when it was closed and opened again
\* (Multiplexer); a service-level connection stands at both ends, with the same
\* features and indicators (HfProtocol, AgProtocol); a source's idea of the sink's
\* endpoint is its state, and what bumble-speaker plays follows it (Session).
BothEndsAgree ==
  CASE part = "l2cap" -> C!EndsAgree
    [] part = "mux" -> M!MuxCreditsAgree
    [] part = "hfp" -> H!SlcAgreed
    [] part = "a2dp" -> D!StreamAgrees
    [] OTHER -> LinkEndsAgree

\* Pairing leaves both ends in the same state with the same keys, and only when
\* the passkeys entered are the same: whoever starts it, whatever the capabilities,
\* masks and flags of the two, and whichever way it ends (PairingSession).  On a
\* Classic link both ends then hold the same key, no user was passed over, and a
\* key counts as authenticated only if the users compared or entered a number
\* (ClassicPairingSession).
PairingSound ==
  CASE part = "smp" -> SameKey /\ WrongPasskeyFails /\ EndsAgree /\ BondsMatch
    [] part = "ssp" -> N!SspSound
    [] OTHER -> TRUE

\* A message meets the state it was sent for: an SDU an open channel, a channel
\* is announced to the server once, and an AVRCP response or notification the
\* command that holds its transaction label (ChannelManager, Runtime); an AVDTP
\* response the command it answers, and media packets, in order and to the last,
\* the outputs of bumble-speaker (DeviceSession, SinkRuntime).
MessageInPlace ==
  CASE part = "l2cap" -> C!TypeOK /\ C!DataMeetsOpenChannel /\ C!AcceptedOnce
    [] part = "avrcp" -> V!LabelsNotReused
    [] part = "a2dp" -> D!StreamInPlace
    [] OTHER -> TRUE

\* Nothing waits for what will not come: every AVRCP label comes back, but for
\* those of a displaced registration; no SABM, PN or DISC of RFCOMM is
\* unanswered; a pairing nobody refuses completes, also on a Classic link and
\* with a listener that comes late; a source and a sink that ask each other at
\* once answer each other.
NothingStuck ==
  CASE part = "avrcp" -> V!LabelsAccounted
    [] part = "mux" -> M!MuxSettles
    [] part = "smp" -> CooperativeCompletes
    [] part = "ssp" -> N!SspCompletes
    [] part = "a2dp" -> D!StreamSettles
    [] OTHER -> TRUE

\* With nothing on its way a controller knows the present value of each event
\* it is registered for, and a hands-free unit the codec and the indicators of
\* its gateway.
UpToDate ==
  CASE part = "avrcp" -> V!UpToDate
    [] part = "hfp" -> H!StateFollows
    [] OTHER -> TRUE
=============================================================================

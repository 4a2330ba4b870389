------------------------------- MODULE LeLinks -------------------------------
(***************************************************************************)
(* LE connections and their isochronous channels, as the hosts and the     *)
(* virtual controllers of one LocalLink keep them.                         *)
(*                                                                         *)
(* Each device has two halves that talk through queues: the Device of      *)
(* bumble-host (host[d]) calls its Controller of bumble-controller (ctl[d])*)
(* synchronously, and learns what became of it from the events it drains   *)
(* in poll.  Controllers exchange Link Layer PDUs through pump_ll.  Every  *)
(* method of Device, every poll and every pump is one action, so that a    *)
(* host may act on a table its controller has already changed.             *)
(*                                                                         *)
(* A device's address is its name.  An option is a set of at most one      *)
(* element.  Acknowledgements that poll only records are left out.         *)
(***************************************************************************)
EXTENDS Integers, Sequences, FiniteSets, SequencesExt

CONSTANTS Devices,    \* the devices of the link; a device is also its address
          Initiators, \* devices whose application connects and makes CISes
          Cises,      \* the CIS identifiers of the one CIG that is configured
          Controls,   \* which connection controls the application issues
          Plans,      \* bounds: which calls an application makes, how many, and
                      \* whether from the start or once two devices are connected
          MaxHandle,  \* bound: handles a controller hands out
          MaxQueue    \* bound: events waiting when a host acts

VARIABLES host, ctl,
          plan,  \* what is left of the chosen plan
          wiped  \* history: some controller or host was reset

vars == <<host, ctl, plan, wiped>>

CENTRAL == 0
PERIPHERAL == 1
SUCCESS == 0
FAILURE == 1

\* An event of the controller for its host: which, about which handle, and up
\* to two parameters.
Event(e, h, x, y) == [e |-> e, h |-> h, x |-> x, y |-> y]

Push(c, ev) == [c EXCEPT !.queue = Append(@, ev)]

PushAll(c, e, handles, x) ==
  [c EXCEPT !.queue = @ \o [i \in DOMAIN handles |-> Event(e, handles[i], x, 0)]]

QueueLl(c, to, pdu, cis) ==
  [c EXCEPT !.out = Append(@, [to |-> to, pdu |-> pdu, cis |-> cis])]

-----------------------------------------------------------------------------
\* The tables of a controller.

ByHandle(table, h) == SelectInSeq(table, LAMBDA l : l.handle = h)

ByPeer(table, p) == SelectInSeq(table, LAMBDA l : l.peer = p)

ByCis(table, k) == SelectInSeq(table, LAMBDA l : l.cis = k)

Handles(table) == [i \in DOMAIN table |-> table[i].handle]

Has(table, h) == ByHandle(table, h) > 0

NOBODY == 0

Connection(h, role, p) == [handle |-> h, role |-> role, peer |-> p, phy |-> 1]

CisLink(h, k, p) == [handle |-> h, cis |-> k, peer |-> p, paths |-> {}]

Unbound(l) == [l EXCEPT !.peer = NOBODY, !.paths = {}]

Of(table, p) == SelectSeq(table, LAMBDA l : l.peer = p)

NotOf(table, p) == SelectSeq(table, LAMBDA l : l.peer # p)

\* A new connection, its Connection Complete and the next free handle.
Connect(c, role, p) ==
  [c EXCEPT !.conns = Append(@, Connection(c.next, role, p)),
            !.queue = Append(@, Event("Connected", c.next, role, p)),
            !.next = @ + 1]

ConnectAsCentralTo(c, p) ==
  IF c.initiating = {} THEN c ELSE Connect([c EXCEPT !.initiating = {}], CENTRAL, p)

ConnectAsPeripheralAt(c, p) == [Connect(c, PERIPHERAL, p) EXCEPT !.advertising = FALSE]

OnAir(c) == c.advertising \/ c.extended

\* Which initiating controllers meet an advertiser, settled before any of them
\* connects; then each pair connects, the peripheral first.
Pairs(s) ==
  SetToSortSeq({<<c, p>> \in Devices \X Devices :
                  c # p /\ p \in s[c].initiating /\ OnAir(s[p])},
               LAMBDA a, b : a[1] < b[1])

EstablishPair(s, pair) ==
  [s EXCEPT ![pair[2]] = ConnectAsPeripheralAt(@, pair[1]),
            ![pair[1]] = ConnectAsCentralTo(@, pair[2])]

EstablishConnections(s) == FoldLeft(EstablishPair, s, Pairs(s))

\* disconnect_cis_for_acl: central links lose their binding, peripheral links go.
DropCisOf(c, p) ==
  [c EXCEPT !.central = [i \in DOMAIN @ |-> IF @[i].peer = p THEN Unbound(@[i]) ELSE @[i]],
            !.peripheral = NotOf(@, p)]

\* The part of a disconnection both ends share: the connection goes, with it
\* the CISes of its peer, and each is reported, the connection last.
DropConnection(c, i, reason) ==
  PushAll([DropCisOf(c, c.conns[i].peer) EXCEPT !.conns = RemoveAt(@, i)], "Disconnected",
          Handles(Of(c.central, c.conns[i].peer)) \o Handles(Of(c.peripheral, c.conns[i].peer))
            \o <<c.conns[i].handle>>, reason)

\* A peripheral CIS is removed, a central one only loses its binding.
OnLeCisDisconnected(c, k, reason) ==
  IF ByCis(c.peripheral, k) > 0
  THEN Push([c EXCEPT !.peripheral = RemoveAt(@, ByCis(@, k))],
            Event("Disconnected", c.peripheral[ByCis(c.peripheral, k)].handle, reason, 0))
  ELSE IF ByCis(c.central, k) > 0
  THEN Push([c EXCEPT !.central[ByCis(c.central, k)] = Unbound(@)],
            Event("Disconnected", c.central[ByCis(c.central, k)].handle, reason, 0))
  ELSE c

CisTables(c) == c.central \o c.peripheral

CisWith(c, h) == CisTables(c)[ByHandle(CisTables(c), h)]

\* Mutant: a connection is dropped without telling the peer.
RequestDisconnectSilently(c, h, reason) ==
  IF Has(c.conns, h)
  THEN DropConnection(c, ByHandle(c.conns, h), reason)
  ELSE IF Has(CisTables(c), h) /\ CisWith(c, h).peer # NOBODY
  THEN OnLeCisDisconnected(QueueLl(c, CisWith(c, h).peer, "CisTerminateInd", CisWith(c, h).cis),
                           CisWith(c, h).cis, reason)
  ELSE c

\* request_disconnect after its Command Status.
RequestDisconnect(c, h, reason) ==
  IF Has(c.conns, h)
  THEN DropConnection(QueueLl(c, c.conns[ByHandle(c.conns, h)].peer, "TerminateInd", 0),
                      ByHandle(c.conns, h), reason)
  ELSE IF Has(CisTables(c), h) /\ CisWith(c, h).peer # NOBODY
  THEN OnLeCisDisconnected(QueueLl(c, CisWith(c, h).peer, "CisTerminateInd", CisWith(c, h).cis),
                           CisWith(c, h).cis, reason)
  ELSE c

Disconnects(c, h) == Has(c.conns, h) \/ Has(CisTables(c), h)

OnLeCisRequest(c, i, k) ==
  Push([c EXCEPT !.peripheral = Append(@, CisLink(c.next, k, c.conns[i].peer)),
                 !.next = @ + 1],
       Event("CisRequest", c.next, c.conns[i].handle, k))

OnLeCisEstablished(c, k, status) ==
  IF ByCis(CisTables(c), k) = 0 THEN c
  ELSE Push(c, Event("CisEstablished", CisTables(c)[ByCis(CisTables(c), k)].handle, status, k))

OnLeCisEstablishmentFailed(c, k) ==
  IF ByCis(c.central, k) = 0 THEN c
  ELSE Push(c, Event("CisEstablished", c.central[ByCis(c.central, k)].handle, FAILURE, k))

OnLeEncrypted(c, i) == Push(c, Event("EncryptionChange", c.conns[i].handle, 0, 0))

\* on_ll_control_pdu: the connection concerned is the first one of the sender.
OnLlControlPdu(c, from, pdu, k) ==
  LET i == ByPeer(c.conns, from) IN
  IF i = 0 THEN c
  ELSE CASE pdu = "EncReq" -> OnLeEncrypted(c, i)
         [] pdu = "FeatureReq" -> QueueLl(c, from, "FeatureRsp", 0)
         [] pdu = "FeatureRsp" -> Push(c, Event("Features", c.conns[i].handle, from, 0))
         [] pdu = "CisReq" -> OnLeCisRequest(c, i, k)
         [] pdu = "CisRsp" -> QueueLl(OnLeCisEstablished(c, k, SUCCESS), from, "CisInd", k)
         [] pdu = "CisInd" -> OnLeCisEstablished(c, k, SUCCESS)
         [] pdu = "CisReject" -> OnLeCisEstablishmentFailed(c, k)
         [] pdu = "CisTerminateInd" -> OnLeCisDisconnected(c, k, 1)
         [] pdu = "TerminateInd" -> DropConnection(c, i, 1)

\* The PDUs of one round of pump_ll, controller by controller.
Outbound(s) ==
  FlattenSeq([d \in 1..Cardinality(Devices) |->
                [i \in DOMAIN s[d].out |-> <<d, s[d].out[i]>>]])

DeliverLl(s, m) ==
  [s EXCEPT ![m[2].to] = OnLlControlPdu(@, m[1], m[2].pdu, m[2].cis)]

LlRound(s) ==
  FoldLeft(DeliverLl, [d \in Devices |-> [s[d] EXCEPT !.out = <<>>]], Outbound(s))

LL_ROUNDS == 16

RECURSIVE LlRounds(_, _)
LlRounds(s, n) == IF n = 0 \/ Outbound(s) = <<>> THEN s ELSE LlRounds(LlRound(s), n - 1)

PumpLlRounds(s) == LlRounds(s, LL_ROUNDS)

-----------------------------------------------------------------------------
\* The host's tables: one entry per connection it was told of.

Known(p, role) == [peer |-> p, role |-> role, phy |-> 1, features |-> FALSE]

NoHandles == [h \in {} |-> 0]

Without(f, h) == [x \in DOMAIN f \ {h} |-> f[x]]

With(f, h, v) == [x \in DOMAIN f \cup {h} |-> IF x = h THEN v ELSE f[x]]

Least(S) == CHOOSE x \in S : \A y \in S : x <= y

\* Drop the first pending entry that satisfies the test, if there is one.
DropFirst(s, Test(_)) ==
  IF SelectInSeq(s, Test) = 0 THEN s ELSE RemoveAt(s, SelectInSeq(s, Test))

OnLeConnectionComplete(h, ev) ==
  [h EXCEPT !.connecting = IF ev.x = CENTRAL THEN FALSE ELSE @,
            !.advertising = IF ev.x = CENTRAL THEN @ ELSE FALSE,
            !.encrypted = @ \ {ev.h},
            !.conns = With(@, ev.h, Known(ev.y, ev.x)),
            !.selected = {ev.h}]

CompleteControl(h, op, handle) ==
  [h EXCEPT !.controls = DropFirst(@, LAMBDA p : p.op = op /\ p.handle = handle)]

FailNextControl(h, op) ==
  [h EXCEPT !.controls = DropFirst(@, LAMBDA p : p.op = op)]

SetPhy(h, ev) ==
  IF ev.h \in DOMAIN h.conns THEN [h EXCEPT !.conns[ev.h].phy = ev.x] ELSE h

\* The path setup a completion answers is the oldest one of its handle.
PendingPath(h, ev) == SelectInSeq(h.setups, LAMBDA p : p.handle = ev.h)

OnPathSetUp(h, ev) ==
  IF PendingPath(h, ev) = 0 THEN h
  ELSE [h EXCEPT !.setups = RemoveAt(@, PendingPath(h, ev)),
                 !.paths = IF ev.x = SUCCESS
                           THEN @ \cup {<<ev.h, h.setups[PendingPath(h, ev)].direction>>} ELSE @]

PendingRemoval(h, ev) == SelectInSeq(h.removals, LAMBDA p : p.handle = ev.h)

OnPathRemoved(h, ev) ==
  IF PendingRemoval(h, ev) = 0 THEN h
  ELSE [h EXCEPT !.removals = RemoveAt(@, PendingRemoval(h, ev)),
                 !.paths = IF ev.x = SUCCESS
                           THEN @ \ ({ev.h} \X h.removals[PendingRemoval(h, ev)].directions)
                           ELSE @]

\* The LE PHY Update Complete event, and the completion of a PHY read.
OnPhyUpdate(h, ev) == CompleteControl(SetPhy(h, ev), "SetPhy", ev.h)

OnPhyRead(h, ev) == CompleteControl(SetPhy(h, ev), "ReadPhy", ev.h)

OnRemoteFeatures(h, ev) ==
  IF ev.h \in DOMAIN h.conns THEN [h EXCEPT !.conns[ev.h].features = TRUE] ELSE h

OnEncryptionChange(h, ev) == [h EXCEPT !.encrypted = @ \cup {ev.h}]

OnCigConfigured(h, ev) == [h EXCEPT !.configured = ev.x]

OnCisRequest(h, ev) == [h EXCEPT !.requests = Append(@, ev.h)]

OnCisEstablished(h, ev) ==
  IF ev.x = SUCCESS THEN [h EXCEPT !.cis = With(@, ev.h, ev.y)]
  ELSE [h EXCEPT !.asked = @ \ {ev.h}]

OtherThan(s, handle) == SelectSeq(s, LAMBDA p : p.handle # handle)

ClearIsoControlState(h, handle) ==
  [h EXCEPT !.paths = {p \in @ : p[1] # handle},
            !.setups = OtherThan(@, handle),
            !.removals = OtherThan(@, handle)]

\* Another connection is selected when the selected one goes.
Reselect(h, gone) ==
  IF h.selected # {gone} THEN h
  ELSE [h EXCEPT !.selected = IF DOMAIN h.conns = {} THEN {} ELSE {Least(DOMAIN h.conns)}]

\* Mutant: an established CIS that ends stays in the table.
OnDisconnectionKeepsCis(h, ev) ==
  Reselect([ClearIsoControlState(h, ev.h) EXCEPT
              !.closing = @ \ {ev.h},
              !.encrypted = @ \ {ev.h},
              !.asked = @ \ {ev.h},
              !.controls = OtherThan(@, ev.h),
              !.conns = Without(@, ev.h)], ev.h)

\* Mutant: the controls pending on a connection outlive it.
OnDisconnectionKeepsControls(h, ev) ==
  Reselect([ClearIsoControlState(h, ev.h) EXCEPT
              !.closing = @ \ {ev.h},
              !.encrypted = @ \ {ev.h},
              !.cis = Without(@, ev.h),
              !.asked = @ \ {ev.h},
              !.conns = Without(@, ev.h)], ev.h)

OnDisconnectionComplete(h, ev) ==
  Reselect([ClearIsoControlState(h, ev.h) EXCEPT
              !.closing = @ \ {ev.h},
              !.encrypted = @ \ {ev.h},
              !.cis = Without(@, ev.h),
              !.asked = @ \ {ev.h},
              !.controls = OtherThan(@, ev.h),
              !.conns = Without(@, ev.h)], ev.h)

OnEvent(h, ev) ==
  CASE ev.e = "Reset" -> [h EXCEPT !.ready = TRUE]
    [] ~h.ready /\ ev.e # "Reset" -> h
    [] h.ready /\ ev.e = "Connected" -> OnLeConnectionComplete(h, ev)
    [] h.ready /\ ev.e = "Phy" -> OnPhyUpdate(h, ev)
    [] h.ready /\ ev.e = "PhyRead" -> OnPhyRead(h, ev)
    [] h.ready /\ ev.e = "Completed" -> CompleteControl(h, ev.x, ev.h)
    [] h.ready /\ ev.e = "Failed" -> FailNextControl(h, ev.x)
    [] h.ready /\ ev.e = "Features" -> OnRemoteFeatures(h, ev)
    [] h.ready /\ ev.e = "EncryptionChange" -> OnEncryptionChange(h, ev)
    [] h.ready /\ ev.e = "Cig" -> OnCigConfigured(h, ev)
    [] h.ready /\ ev.e = "CisRequest" -> OnCisRequest(h, ev)
    [] h.ready /\ ev.e = "CisEstablished" -> OnCisEstablished(h, ev)
    [] h.ready /\ ev.e = "PathSetUp" -> OnPathSetUp(h, ev)
    [] h.ready /\ ev.e = "PathRemoved" -> OnPathRemoved(h, ev)
    [] h.ready /\ ev.e = "Disconnected" -> OnDisconnectionComplete(h, ev)

-----------------------------------------------------------------------------
\* The application's calls.

Settle(d) == Len(ctl[d].queue) < MaxQueue

Room(d, n) == ctl[d].next + n <= MaxHandle + 1

RoomForAll == \A d \in Devices : Room(d, 1)

\* A host after its start-up, with a controller that has just been reset.
NewHost ==
  [ready |-> TRUE, powered |-> TRUE, connecting |-> FALSE, advertising |-> FALSE,
   conns |-> NoHandles, selected |-> {}, encrypted |-> {}, closing |-> {},
   controls |-> <<>>, cis |-> NoHandles, configured |-> <<>>, asked |-> {},
   requests |-> <<>>, paths |-> {}, setups |-> <<>>, removals |-> <<>>]

Blank(next) ==
  [conns |-> <<>>, initiating |-> {}, advertising |-> FALSE, extended |-> FALSE,
   central |-> <<>>, peripheral |-> <<>>, next |-> next, queue |-> <<>>, out |-> <<>>]

Drained(s) == [d \in Devices |-> [s[d] EXCEPT !.queue = <<>>]]

Fresh == [d \in Devices |-> Blank(1)]

\* Devices 1 and 2 after a connect_le that met an advertiser.
Joined == EstablishConnections([Fresh EXCEPT ![1].initiating = {2}, ![2].advertising = TRUE])

Init ==
  /\ plan \in Plans
  /\ IF plan.joined
     THEN /\ host = [d \in Devices |-> FoldLeft(OnEvent, NewHost, Joined[d].queue)]
          /\ ctl = Drained(Joined)
     ELSE host = [d \in Devices |-> NewHost] /\ ctl = Fresh
  /\ wiped = FALSE

\* One device's halves change, nothing else does.
Become(d, h, c) ==
  /\ host' = [host EXCEPT ![d] = h]
  /\ ctl' = [ctl EXCEPT ![d] = c]
  /\ UNCHANGED wiped

\* The application makes one more call of its plan.
Ask(kind) ==
  /\ kind \in plan.kinds
  /\ plan.calls > 0
  /\ plan' = [plan EXCEPT !.calls = @ - 1]

StartAdvertising(d) ==
  /\ ~ctl[d].advertising
  /\ Become(d, [host[d] EXCEPT !.advertising = TRUE], [ctl[d] EXCEPT !.advertising = TRUE])

StopAdvertising(d) ==
  /\ ctl[d].advertising
  /\ Become(d, [host[d] EXCEPT !.advertising = FALSE], [ctl[d] EXCEPT !.advertising = FALSE])

\* An extended set stays on the air when a central connects to it.
SetExtendedAdvertising(d, on) ==
  /\ ctl[d].extended # on
  /\ Become(d, host[d], [ctl[d] EXCEPT !.extended = on])

\* connect_le: a second command while one is pending is refused by the
\* controller; then the link looks for advertisers.
ConnectLe(d, p) ==
  /\ Settle(d) /\ RoomForAll
  /\ ~host[d].connecting
  /\ host' = [host EXCEPT ![d].connecting = TRUE]
  /\ ctl' = EstablishConnections([ctl EXCEPT ![d].initiating = IF @ = {} THEN {p} ELSE @])
  /\ UNCHANGED wiped

CancelLeConnection(d) ==
  /\ host[d].connecting
  /\ Become(d, [host[d] EXCEPT !.connecting = FALSE], [ctl[d] EXCEPT !.initiating = {}])

\* The scheduler of the link, called on its own.
Establish ==
  /\ RoomForAll
  /\ Pairs(ctl) # <<>>
  /\ ctl' = EstablishConnections(ctl)
  /\ UNCHANGED <<host, wiped>>

\* The application disconnects the links it was told of.
DisconnectHandle(d, h) ==
  /\ Settle(d)
  /\ h \in DOMAIN host[d].conns \cup DOMAIN host[d].cis
  /\ Disconnects(ctl[d], h)
  /\ Become(d, [host[d] EXCEPT !.closing = @ \cup {h}], RequestDisconnect(ctl[d], h, 1))

\* An unknown handle gets no PHY update, but its PHY can be read.
HandleSetPhy(c, h) ==
  IF Has(c.conns, h)
  THEN Push([c EXCEPT !.conns[ByHandle(c.conns, h)].phy = 2], Event("Phy", h, 2, 0)) ELSE c

HandleReadPhy(c, h) ==
  Push(c, Event("PhyRead", h,
                IF Has(c.conns, h) THEN c.conns[ByHandle(c.conns, h)].phy ELSE 1, 0))

HandleSetDataLength(c, h) == Push(c, Event("Completed", h, "Length", 0))

\* A valid request is granted whatever the handle.
HandleSubrateRequest(c, h) == Push(c, Event("Completed", h, "Subrate", 0))

\* What the controller answers to a connection control on handle h; it has no
\* connection update.
ControlAnswer(c, op, h) ==
  CASE op = "SetPhy" -> HandleSetPhy(c, h)
    [] op = "ReadPhy" -> HandleReadPhy(c, h)
    [] op = "Length" -> HandleSetDataLength(c, h)
    [] op = "Subrate" -> HandleSubrateRequest(c, h)
    [] op = "Update" -> Push(c, Event("Failed", h, op, 0))

\* The controls of a connection: each is remembered until its answer.
ControlConnection(d, h, op) ==
  /\ Settle(d)
  /\ h \in DOMAIN host[d].conns
  /\ Become(d, [host[d] EXCEPT !.controls = Append(@, [op |-> op, handle |-> h])],
            ControlAnswer(ctl[d], op, h))

HandleEnableEncryption(c, h) ==
  Push(QueueLl(c, c.conns[ByHandle(c.conns, h)].peer, "EncReq", 0),
       Event("EncryptionChange", h, 0, 0))

EnableEncryption(d, h) ==
  /\ Settle(d)
  /\ h \in DOMAIN host[d].conns
  /\ Has(ctl[d].conns, h)
  /\ Become(d, host[d], HandleEnableEncryption(ctl[d], h))

HandleReadRemoteFeatures(c, h) == QueueLl(c, c.conns[ByHandle(c.conns, h)].peer, "FeatureReq", 0)

ReadRemoteFeatures(d, h) ==
  /\ h \in DOMAIN host[d].conns
  /\ Has(ctl[d].conns, h)
  /\ Len(ctl[d].out) < MaxQueue
  /\ Become(d, host[d], HandleReadRemoteFeatures(ctl[d], h))

\* handle_set_cig_parameters: one unbound link per CIS, reported with its handle.
HandleSetCigParameters(c, links) ==
  Push([c EXCEPT !.central = links, !.next = @ + Len(links)],
       Event("Cig", 0, Handles(links), 0))

HandleRemoveCig(c) == [c EXCEPT !.central = <<>>]

HandleCreateCis(c, cis, acl) ==
  QueueLl([c EXCEPT !.central[ByHandle(c.central, cis)].peer =
             c.conns[ByHandle(c.conns, acl)].peer],
          c.conns[ByHandle(c.conns, acl)].peer, "CisReq",
          c.central[ByHandle(c.central, cis)].cis)

HandleAcceptCisRequest(c, h) ==
  IF Has(c.peripheral, h) THEN QueueLl(c, CisWith(c, h).peer, "CisRsp", CisWith(c, h).cis) ELSE c

HandleRejectCisRequest(c, h) ==
  IF Has(c.peripheral, h)
  THEN QueueLl([c EXCEPT !.peripheral = RemoveAt(@, ByHandle(@, h))],
               CisWith(c, h).peer, "CisReject", CisWith(c, h).cis)
  ELSE c

\* The application configures the CIG while none of its CISes is in use: the
\* controller would forget those without telling its host.
ConfigureCig(d) ==
  /\ Settle(d) /\ Room(d, Cardinality(Cises))
  /\ \A i \in DOMAIN ctl[d].central : ctl[d].central[i].peer = NOBODY
  /\ host[d].asked = {}
  /\ \E links \in {[i \in 1..Cardinality(Cises) |-> CisLink(ctl[d].next + i - 1, i, NOBODY)]} :
       Become(d, host[d], HandleSetCigParameters(ctl[d], links))

RemoveCig(d) ==
  /\ \A i \in DOMAIN ctl[d].central : ctl[d].central[i].peer = NOBODY
  /\ ctl[d].central # <<>>
  /\ Become(d, host[d], HandleRemoveCig(ctl[d]))

\* No PDU about a CIS is on its way.
Calm == \A d \in Devices : \A i \in DOMAIN ctl[d].out : ctl[d].out[i].cis = 0

\* A CIS is asked for again only once its previous attempt has ended and the
\* link has been pumped since.
CreateCis(d, cis, acl) ==
  /\ cis \notin host[d].asked
  /\ Calm
  /\ acl \in DOMAIN host[d].conns
  /\ Has(ctl[d].conns, acl) /\ Has(ctl[d].central, cis)
  /\ Become(d, [host[d] EXCEPT !.asked = @ \cup {cis}],
            HandleCreateCis(ctl[d], cis, acl))

\* The application takes the oldest CIS request and answers it.
AcceptCis(d) ==
  /\ host[d].requests # <<>>
  /\ \E h \in {Head(host[d].requests)}, rest \in {Tail(host[d].requests)} :
       Become(d, [host[d] EXCEPT !.requests = rest],
              HandleAcceptCisRequest(ctl[d], h))

RejectCis(d) ==
  /\ host[d].requests # <<>>
  /\ \E h \in {Head(host[d].requests)}, rest \in {Tail(host[d].requests)} :
       Become(d, [host[d] EXCEPT !.requests = rest],
              HandleRejectCisRequest(ctl[d], h))

\* Change the data paths of a CIS in the table that holds it.
OnPaths(c, h, Change(_)) ==
  IF Has(c.central, h)
  THEN [c EXCEPT !.central[ByHandle(c.central, h)].paths = Change(@)]
  ELSE [c EXCEPT !.peripheral[ByHandle(c.peripheral, h)].paths = Change(@)]

HandleSetupIsoDataPath(c, h, direction) ==
  IF ~Has(CisTables(c), h) \/ direction \in CisWith(c, h).paths
  THEN Push(c, Event("PathSetUp", h, FAILURE, 0))
  ELSE Push(OnPaths(c, h, LAMBDA paths : paths \cup {direction}),
            Event("PathSetUp", h, SUCCESS, 0))

HandleRemoveIsoDataPath(c, h, directions) ==
  IF ~Has(CisTables(c), h) \/ ~(directions \subseteq CisWith(c, h).paths)
  THEN Push(c, Event("PathRemoved", h, FAILURE, 0))
  ELSE Push(OnPaths(c, h, LAMBDA paths : paths \ directions),
            Event("PathRemoved", h, SUCCESS, 0))

SetupIsoDataPath(d, h, direction) ==
  /\ Settle(d)
  /\ h \in DOMAIN host[d].cis
  /\ <<h, direction>> \notin host[d].paths
  /\ \A i \in DOMAIN host[d].setups : host[d].setups[i] # [handle |-> h, direction |-> direction]
  /\ Become(d, [host[d] EXCEPT !.setups = Append(@, [handle |-> h, direction |-> direction])],
            HandleSetupIsoDataPath(ctl[d], h, direction))

Installed(h, handle, directions) == {x \in directions : <<handle, x>> \in h.paths}

RemoveIsoDataPath(d, h, directions) ==
  /\ Settle(d)
  /\ h \in DOMAIN host[d].cis
  /\ Installed(host[d], h, directions) # {}
  /\ \A i \in DOMAIN host[d].removals :
       host[d].removals[i] # [handle |-> h, directions |-> Installed(host[d], h, directions)]
  /\ Become(d, [host[d] EXCEPT !.removals =
                  Append(@, [handle |-> h, directions |-> Installed(host[d], h, directions)])],
            HandleRemoveIsoDataPath(ctl[d], h, Installed(host[d], h, directions)))

-----------------------------------------------------------------------------
\* The host forgets every link and what was pending on it.
Flush(h) ==
  [h EXCEPT !.connecting = FALSE, !.conns = NoHandles, !.selected = {}, !.encrypted = {},
            !.closing = {}, !.controls = <<>>, !.cis = NoHandles, !.asked = {},
            !.requests = <<>>, !.setups = <<>>, !.removals = <<>>,
            !.paths = {p \in @ : p[1] \notin DOMAIN h.conns \cup DOMAIN h.cis}]

\* What HCI_Reset does to a controller: handles are not reused, and PDUs
\* already on their way still leave.
HandleReset(c) == Push([Blank(c.next) EXCEPT !.queue = c.queue, !.out = c.out],
                       Event("Reset", 0, 0, 0))

\* reset, not repeated before the previous one has been polled.
Reset(d) ==
  /\ Settle(d)
  /\ host[d].ready
  /\ host' = [host EXCEPT ![d] = [Flush(@) EXCEPT !.ready = FALSE]]
  /\ ctl' = [ctl EXCEPT ![d] = HandleReset(@)]
  /\ wiped' = TRUE

PowerOff(d) ==
  /\ host[d].powered
  /\ host' = [host EXCEPT ![d] = [Flush(@) EXCEPT !.powered = FALSE, !.advertising = FALSE]]
  /\ wiped' = TRUE
  /\ UNCHANGED ctl

PowerOn(d) ==
  /\ Settle(d)
  /\ ~host[d].powered /\ host[d].ready
  /\ Become(d, [Flush(host[d]) EXCEPT !.powered = TRUE, !.ready = FALSE], HandleReset(ctl[d]))

-----------------------------------------------------------------------------
Poll(d) ==
  /\ ctl[d].queue # <<>>
  /\ Become(d, FoldLeft(OnEvent, host[d], ctl[d].queue), [ctl[d] EXCEPT !.queue = <<>>])

\* A CisReq makes the receiver hand out a handle.
PumpLl ==
  /\ Outbound(ctl) # <<>>
  /\ \A d \in Devices : Room(d, Len(Outbound(ctl)))
  /\ ctl' = PumpLlRounds(ctl)
  /\ UNCHANGED <<host, wiped>>

DIRECTIONS == {0, 1}

Call(d) ==
  \/ Ask("Advertise") /\ StartAdvertising(d)
  \/ Ask("Advertise") /\ StopAdvertising(d)
  \/ Ask("Extended") /\ \E on \in BOOLEAN : SetExtendedAdvertising(d, on)
  \/ Ask("Disconnect") /\ \E h \in 1..MaxHandle : DisconnectHandle(d, h)
  \/ Ask("Control") /\ \E h \in 1..MaxHandle, op \in Controls : ControlConnection(d, h, op)
  \/ Ask("Control") /\ \E h \in 1..MaxHandle : EnableEncryption(d, h)
  \/ Ask("Control") /\ \E h \in 1..MaxHandle : ReadRemoteFeatures(d, h)
  \/ Ask("Cis") /\ AcceptCis(d)
  \/ Ask("Cis") /\ RejectCis(d)
  \/ Ask("Path") /\ \E h \in 1..MaxHandle, x \in DIRECTIONS : SetupIsoDataPath(d, h, x)
  \/ Ask("Path") /\ \E h \in 1..MaxHandle, x \in SUBSET DIRECTIONS : RemoveIsoDataPath(d, h, x)
  \/ Ask("Wipe") /\ Reset(d)
  \/ Ask("Wipe") /\ PowerOff(d)
  \/ Ask("Wipe") /\ PowerOn(d)

Initiate(d) ==
  \/ Ask("Connect") /\ \E p \in Devices \ {d} : ConnectLe(d, p)
  \/ Ask("Connect") /\ CancelLeConnection(d)
  \/ Ask("Cis") /\ ConfigureCig(d)
  \/ Ask("Remove") /\ RemoveCig(d)
  \/ Ask("Cis") /\ \E h, a \in 1..MaxHandle : CreateCis(d, h, a)

\* What the code that drives the link does between calls.
Drive ==
  \/ Establish
  \/ PumpLl
  \/ \E d \in Devices : Poll(d)

Next ==
  \/ \E d \in Devices : Call(d)
  \/ \E d \in Initiators : Initiate(d)
  \/ Drive /\ UNCHANGED plan

Spec == Init /\ [][Next]_vars

-----------------------------------------------------------------------------
Polled(d) == ctl[d].queue = <<>> /\ host[d].ready /\ host[d].powered

\* A host that has drained its controller knows exactly the connections its
\* controller has, with their roles, peers and PHYs, believes nothing else is
\* encrypted, and has one of them selected when there is any (poll 7160-7241,
\* 9044-9164; flush 2612-2713).
HostMirrorsController ==
  \A d \in Devices : Polled(d) =>
    /\ DOMAIN host[d].conns = {ctl[d].conns[i].handle : i \in DOMAIN ctl[d].conns}
    /\ \A i \in DOMAIN ctl[d].conns :
         LET known == host[d].conns[ctl[d].conns[i].handle] IN
         /\ known.peer = ctl[d].conns[i].peer
         /\ known.role = ctl[d].conns[i].role
         /\ known.phy = ctl[d].conns[i].phy
    /\ host[d].encrypted \subseteq DOMAIN host[d].conns
    /\ host[d].selected \subseteq DOMAIN host[d].conns
    /\ host[d].selected = {} => DOMAIN host[d].conns = {}

\* Nothing a host asked for is left waiting: once it has drained its
\* controller, each connection control was answered, failed or forgotten with
\* its connection, each disconnection was reported, and no ISO path setup or
\* removal is outstanding (complete_connection_control,
\* fail_next_connection_control and the DisconnectionComplete arm of poll).
NothingLeftWaiting ==
  \A d \in Devices : Polled(d) =>
    /\ host[d].controls = <<>>
    /\ host[d].closing = {}
    /\ host[d].setups = <<>>
    /\ host[d].removals = <<>>

\* le_connecting says that an attempt is under way: either the controller is
\* still initiating, or the completion waits to be polled.  Otherwise the host
\* would refuse every later connect_le.
ConnectingIsBacked ==
  \A d \in Devices : host[d].connecting /\ host[d].ready =>
    \/ ctl[d].initiating # {}
    \/ \E i \in DOMAIN ctl[d].queue :
         ctl[d].queue[i].e = "Connected" /\ ctl[d].queue[i].x = CENTRAL

\* Connections of d with p that will remain once every TerminateInd arrived.
Remaining(d, p) ==
  Len(Of(ctl[d].conns, p))
    - Len(SelectSeq(ctl[p].out, LAMBDA m : m.to = d /\ m.pdu = "TerminateInd"))

AtLeastZero(n) == IF n < 0 THEN 0 ELSE n

\* As long as no controller was reset, the two ends of a pair hold equally many
\* connections, teardowns still on their way counted: no end keeps a link the
\* other has dropped (request_disconnect and on_peer_disconnect).
LinksPaired ==
  ~wiped =>
    \A d, p \in Devices : d # p => AtLeastZero(Remaining(d, p)) = AtLeastZero(Remaining(p, d))

\* The data paths a host believes installed on a CIS are the ones its
\* controller has, once the host has drained it.
PathsAgree ==
  \A d \in Devices : Polled(d) =>
    \A h \in DOMAIN host[d].cis :
      Has(CisTables(ctl[d]), h) =>
        {p[2] : p \in {q \in host[d].paths : q[1] = h}} \subseteq CisWith(ctl[d], h).paths

\* An established CIS has a controller link that is bound to its connection.
CisBacked ==
  \A d \in Devices : Polled(d) =>
    \A h \in DOMAIN host[d].cis :
      /\ Has(CisTables(ctl[d]), h)
      /\ CisWith(ctl[d], h).peer # NOBODY

Quiet == \A d \in Devices : ctl[d].queue = <<>> /\ ctl[d].out = <<>>

\* When nothing is on its way, the two ends of a pair agree on which CISes are
\* established between them.
CisEndsAgree ==
  ~wiped /\ Quiet =>
    \A d, p \in Devices : d # p =>
      {host[d].cis[h] : h \in {x \in DOMAIN host[d].cis : Has(ctl[d].central, x) /\ CisWith(ctl[d], x).peer = p}}
        = {host[p].cis[h] : h \in {x \in DOMAIN host[p].cis : Has(ctl[p].peripheral, x) /\ CisWith(ctl[p], x).peer = d}}

=============================================================================

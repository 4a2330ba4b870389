---------------------------- MODULE ClassicLinks ----------------------------
(***************************************************************************)
(* Classic (BR/EDR) connections as the hosts and the virtual controllers   *)
(* of one LocalLink keep them: connection requests and their acceptance,   *)
(* role switches, synchronous (SCO/eSCO) links, encryption, remote names   *)
(* and the page by page discovery of the peer's LMP features.              *)
(*                                                                         *)
(* As in LeLinks each device is a host[d] that polls the events of its     *)
(* ctl[d]; controllers exchange LMP PDUs through pump_classic.  A pending  *)
(* connection has handle 0.  Command Status events that poll only records  *)
(* are left out, the one of a name request excepted.  Reset is not         *)
(* modelled here: LeLinks has it.                                          *)
(***************************************************************************)
EXTENDS Integers, Sequences, FiniteSets, SequencesExt

CONSTANTS Devices,    \* the devices of the link; a device is also its address
          Initiators, \* devices whose application connects and encrypts
          Modes,      \* air modes of a synchronous link
          LastPage,   \* the last page of LMP features of every controller
          Plans,      \* bounds: which calls an application makes and how many
          MaxHandle,  \* bound: handles a controller hands out
          MaxQueue    \* bound: events waiting when a host acts

VARIABLES host, ctl, plan

vars == <<host, ctl, plan>>

CENTRAL == 0
PERIPHERAL == 1
SUCCESS == 0
FAILURE == 1

Event(e, h, x, p) == [e |-> e, h |-> h, x |-> x, peer |-> p]

Push(c, ev) == [c EXCEPT !.queue = Append(@, ev)]

PushDisconnections(c, handles) ==
  [c EXCEPT !.queue = @ \o [i \in DOMAIN handles |-> Event("Disconnected", handles[i], 0, 0)]]

QueueClassic(c, to, pdu, x) ==
  [c EXCEPT !.out = Append(@, [to |-> to, pdu |-> pdu, x |-> x])]

-----------------------------------------------------------------------------
\* The tables of a controller.

ByHandle(table, h) == SelectInSeq(table, LAMBDA l : l.handle = h)

ByPeer(table, p) == SelectInSeq(table, LAMBDA l : l.peer = p)

Waiting(table, p) == SelectInSeq(table, LAMBDA l : l.peer = p /\ l.handle = 0)

Running(table, p) == SelectInSeq(table, LAMBDA l : l.peer = p /\ l.handle # 0)

Has(table, h) == ByHandle(table, h) > 0

Connection(role, allow, p) == [handle |-> 0, role |-> role, allow |-> allow, peer |-> p]

HandleCreateConnection(c, p, allow) ==
  QueueClassic([c EXCEPT !.conns = Append(@, Connection(CENTRAL, allow, p))],
               p, "HostConnectionReq", 0)

\* The i-th connection gets a handle, and its host is told.
Establish(c, i, p) ==
  Push([c EXCEPT !.conns[i].handle = c.next, !.next = @ + 1],
       Event("Complete", c.next, SUCCESS, p))

CompleteClassicAccept(c, p) ==
  IF ByPeer(c.conns, p) = 0 THEN c
  ELSE QueueClassic(Establish(c, ByPeer(c.conns, p), p), p, "Accepted", 0)

\* The switch a controller waits for: to complete an acceptance, or to take the
\* role its host asked for.
ACCEPT == 2

AwaitSwitch(c, p, purpose) ==
  QueueClassic([c EXCEPT !.switches = Append(@, [peer |-> p, purpose |-> purpose])],
               p, "SwitchReq", 0)

HandleAcceptConnectionRequest(c, p, role) ==
  IF ByPeer(c.conns, p) = 0 THEN c
  ELSE IF role = CENTRAL THEN AwaitSwitch(c, p, ACCEPT)
  ELSE CompleteClassicAccept(c, p)

HandleSwitchRole(c, p, role) ==
  IF Running(c.conns, p) = 0 THEN c
  ELSE IF c.conns[Running(c.conns, p)].role = role
  THEN Push(c, Event("RoleChange", 0, role, p))
  ELSE AwaitSwitch(c, p, role)

SyncLink(h, p, mode) == [handle |-> h, peer |-> p, mode |-> mode]

HandleSetupSynchronous(c, h, mode) ==
  LET i == ByHandle(c.conns, h) IN
  IF i = 0 \/ (i > 0 /\ Running(c.sync, c.conns[i].peer) > 0) THEN c
  ELSE QueueClassic([c EXCEPT !.sync = Append(@, SyncLink(0, c.conns[i].peer, mode))],
                    c.conns[i].peer, "SyncReq", mode)

\* The first waiting link of the peer gets a handle and the mode agreed.
EstablishSync(c, p, mode) ==
  Push([c EXCEPT !.sync[Waiting(c.sync, p)] = SyncLink(c.next, p, mode), !.next = @ + 1],
       Event("SyncComplete", c.next, mode, p))

HandleAcceptSynchronous(c, p, mode) ==
  IF Waiting(c.sync, p) = 0 THEN c
  ELSE QueueClassic(EstablishSync(c, p, mode), p, "SyncAccepted", mode)

HandleRejectSynchronous(c, p) ==
  IF Waiting(c.sync, p) = 0 THEN c
  ELSE QueueClassic([c EXCEPT !.sync = RemoveAt(@, Waiting(@, p))], p, "SyncRejected", 0)

HandleRemoteName(c, p) == QueueClassic(Push(c, Event("NameStatus", 0, SUCCESS, p)), p, "NameReq", 0)

HandleReadFeatures(c, h) ==
  IF ~Has(c.conns, h) THEN c
  ELSE QueueClassic(c, c.conns[ByHandle(c.conns, h)].peer, "FeaturesReq", 0)

HandleReadExtendedFeatures(c, h, page) ==
  IF ~Has(c.conns, h) THEN c
  ELSE QueueClassic(c, c.conns[ByHandle(c.conns, h)].peer, "FeaturesReqExt", page)

HandleSetEncryption(c, h, enable) ==
  IF ~Has(c.conns, h) THEN c
  ELSE QueueClassic(Push(c, Event("EncryptionChange", h, enable, 0)),
                    c.conns[ByHandle(c.conns, h)].peer, "EncryptionModeReq", enable)

\* remove_synchronous_for_peer: the handles that were in use.
SyncHandles(c, p) ==
  LET gone == SelectSeq(c.sync, LAMBDA l : l.peer = p /\ l.handle # 0) IN
  [i \in DOMAIN gone |-> gone[i].handle]

\* A connection goes, with it the synchronous links of its peer.
DropConnection(c, i) ==
  PushDisconnections([c EXCEPT !.conns = RemoveAt(@, i),
                               !.sync = SelectSeq(@, LAMBDA l : l.peer # c.conns[i].peer)],
                     SyncHandles(c, c.conns[i].peer) \o <<c.conns[i].handle>>)

DropSync(c, i) ==
  PushDisconnections([c EXCEPT !.sync = RemoveAt(@, i)], <<c.sync[i].handle>>)

RequestDisconnect(c, h) ==
  IF Has(c.conns, h)
  THEN DropConnection(QueueClassic(c, c.conns[ByHandle(c.conns, h)].peer, "Detach", 0),
                      ByHandle(c.conns, h))
  ELSE IF Has(c.sync, h)
  THEN DropSync(QueueClassic(c, c.sync[ByHandle(c.sync, h)].peer, "SyncDetach", 0),
                ByHandle(c.sync, h))
  ELSE c

-----------------------------------------------------------------------------
\* The LMP PDUs of a peer.

OnSwitchReq(c, from) ==
  LET i == ByPeer(c.conns, from) IN
  IF i = 0 THEN c
  ELSE IF ~c.conns[i].allow THEN QueueClassic(c, from, "SwitchRejected", 0)
  ELSE QueueClassic(Push([c EXCEPT !.conns[i].role = 1 - @],
                         Event("RoleChange", 0, 1 - c.conns[i].role, from)),
                    from, "SwitchAccepted", 0)

\* The first connection of the peer takes the role, and its host is told.
TakeRole(c, p, role) ==
  Push(IF ByPeer(c.conns, p) = 0 THEN c
       ELSE [c EXCEPT !.conns[ByPeer(c.conns, p)].role = role],
       Event("RoleChange", 0, role, p))

\* The answer to a switch concerns the oldest one awaited from its sender.
Awaited(c, from) == ByPeer(c.switches, from)

Answered(c, from) == [c EXCEPT !.switches = RemoveAt(@, Awaited(c, from))]

OnSwitchAccepted(c, from) ==
  IF Awaited(c, from) = 0 THEN c
  ELSE IF c.switches[Awaited(c, from)].purpose = ACCEPT
  THEN CompleteClassicAccept(TakeRole(Answered(c, from), from, CENTRAL), from)
  ELSE TakeRole(Answered(c, from), from, c.switches[Awaited(c, from)].purpose)

\* A refused switch ends an acceptance that needed it; otherwise the host is
\* told of the failure, which changes nothing there.
OnSwitchRejected(c, from) ==
  IF Awaited(c, from) = 0 THEN c
  ELSE IF c.switches[Awaited(c, from)].purpose = ACCEPT
  THEN QueueClassic(Push([Answered(c, from) EXCEPT
                            !.conns = SelectSeq(@, LAMBDA l : l.peer # from)],
                         Event("Complete", 0, FAILURE, from)),
                    from, "Rejected", 0)
  ELSE Answered(c, from)

OnRejected(c, from) ==
  IF Waiting(c.conns, from) = 0 THEN c
  ELSE Push([c EXCEPT !.conns = RemoveAt(@, Waiting(@, from))],
            Event("Complete", 0, FAILURE, from))

OnSyncReq(c, from, mode) ==
  IF ByPeer(c.conns, from) = 0 THEN c
  ELSE Push([c EXCEPT !.sync = Append(@, SyncLink(0, from, mode))],
            Event("SyncRequest", 0, mode, from))

OnSyncRejected(c, from) ==
  IF Waiting(c.sync, from) = 0 THEN c
  ELSE Push([c EXCEPT !.sync = RemoveAt(@, Waiting(@, from))],
            Event("SyncFailed", 0, FAILURE, from))

\* An answer is reported on the first connection of the peer.
Report(c, from, e, x) ==
  IF ByPeer(c.conns, from) = 0 THEN c
  ELSE Push(c, Event(e, c.conns[ByPeer(c.conns, from)].handle, x, from))

OnHostConnectionReq(c, from) ==
  Push([c EXCEPT !.conns = Append(@, Connection(PERIPHERAL, c.allow, from))],
       Event("Request", 0, 0, from))

OnAccepted(c, from) ==
  IF Waiting(c.conns, from) = 0 THEN c ELSE Establish(c, Waiting(c.conns, from), from)

OnSyncAccepted(c, from, mode) ==
  IF Waiting(c.sync, from) = 0 THEN c ELSE EstablishSync(c, from, mode)

OnSyncDetach(c, from) ==
  IF Running(c.sync, from) = 0 THEN c ELSE DropSync(c, Running(c.sync, from))

OnDetach(c, from) ==
  IF ByPeer(c.conns, from) = 0 THEN c ELSE DropConnection(c, ByPeer(c.conns, from))

\* Each page of features is asked for and answered on its own.
OnFeaturesPdu(c, from, pdu, x) ==
  CASE pdu = "FeaturesReq" -> QueueClassic(c, from, "FeaturesRes", 0)
    [] pdu = "FeaturesRes" -> Report(c, from, "Features", 0)
    [] pdu = "FeaturesReqExt" -> QueueClassic(c, from, "FeaturesResExt", x)
    [] pdu = "FeaturesResExt" -> Report(c, from, "ExtendedFeatures", x)

OnEncryptionModeReq(c, from, x) == Report(c, from, "EncryptionChange", x)

OnClassicPdu(c, from, pdu, x) ==
  CASE pdu = "HostConnectionReq" -> OnHostConnectionReq(c, from)
    [] pdu = "Accepted" -> OnAccepted(c, from)
    [] pdu = "Rejected" -> OnRejected(c, from)
    [] pdu = "SwitchReq" -> OnSwitchReq(c, from)
    [] pdu = "SwitchAccepted" -> OnSwitchAccepted(c, from)
    [] pdu = "SwitchRejected" -> OnSwitchRejected(c, from)
    [] pdu = "NameReq" -> QueueClassic(c, from, "NameRes", 0)
    [] pdu = "NameRes" -> Push(c, Event("Name", 0, SUCCESS, from))
    [] pdu \in {"FeaturesReq", "FeaturesRes", "FeaturesReqExt", "FeaturesResExt"} ->
         OnFeaturesPdu(c, from, pdu, x)
    [] pdu = "EncryptionModeReq" -> OnEncryptionModeReq(c, from, x)
    [] pdu = "SyncReq" -> OnSyncReq(c, from, x)
    [] pdu = "SyncAccepted" -> OnSyncAccepted(c, from, x)
    [] pdu = "SyncRejected" -> OnSyncRejected(c, from)
    [] pdu = "SyncDetach" -> OnSyncDetach(c, from)
    [] pdu = "Detach" -> OnDetach(c, from)

\* The PDUs of one round of pump_classic, controller by controller.
Outbound(s) ==
  FlattenSeq([d \in 1..Cardinality(Devices) |->
                [i \in DOMAIN s[d].out |-> <<d, s[d].out[i]>>]])

Deliver(s, m) == [s EXCEPT ![m[2].to] = OnClassicPdu(@, m[1], m[2].pdu, m[2].x)]

ClassicRound(s) ==
  FoldLeft(Deliver, [d \in Devices |-> [s[d] EXCEPT !.out = <<>>]], Outbound(s))

CLASSIC_ROUNDS == 16

RECURSIVE ClassicRounds(_, _)
ClassicRounds(s, n) == IF n = 0 \/ Outbound(s) = <<>> THEN s ELSE ClassicRounds(ClassicRound(s), n - 1)

PumpRounds(s) == ClassicRounds(s, CLASSIC_ROUNDS)

-----------------------------------------------------------------------------
\* The host.  Its poll may send commands: it works on both halves at once.

Half(h, c) == [h |-> h, c |-> c]

Known(p, role) ==
  [peer |-> p, role |-> role, encrypted |-> 0, named |-> FALSE, pages |-> {}, last |-> {}]

Empty == [x \in {} |-> 0]

Without(f, x) == [y \in DOMAIN f \ {x} |-> f[y]]

With(f, x, v) == [y \in DOMAIN f \cup {x} |-> IF y = x THEN v ELSE f[y]]

Least(S) == CHOOSE x \in S : \A y \in S : x <= y

\* The role a connection to p will have, as far as the host knows.
SetPendingRole(h, p, role) == [h EXCEPT !.roles = With(@, p, role)]

AcceptClassic(s, p, role) ==
  Half(SetPendingRole(s.h, p, role), HandleAcceptConnectionRequest(s.c, p, role))

OnConnectionComplete(h, ev) ==
  IF ev.x # SUCCESS THEN [h EXCEPT !.roles = Without(@, ev.peer)]
  ELSE [h EXCEPT !.conns = With(@, ev.h, Known(ev.peer, IF ev.peer \in DOMAIN h.roles
                                                        THEN h.roles[ev.peer] ELSE CENTRAL)),
                 !.roles = Without(@, ev.peer),
                 !.selected = {ev.h}]

To(h, p) == {x \in DOMAIN h.conns : h.conns[x].peer = p}

OnRoleChange(h, ev) ==
  IF To(h, ev.peer) # {} THEN [h EXCEPT !.conns[Least(To(h, ev.peer))].role = ev.x]
  ELSE SetPendingRole(h, ev.peer, ev.x)

\* classic_accept_any answers at once; otherwise the application decides.
OnConnectionRequest(s, ev) ==
  IF plan.auto THEN AcceptClassic(s, ev.peer, PERIPHERAL)
  ELSE Half([s.h EXCEPT !.requests = Append(@, ev.peer)], s.c)

DropFirst(s, x) ==
  IF SelectInSeq(s, LAMBDA y : y = x) = 0 THEN s ELSE RemoveAt(s, SelectInSeq(s, LAMBDA y : y = x))

OnName(h, ev) ==
  [h EXCEPT !.commands = DropFirst(@, ev.peer),
            !.names[ev.peer] = IF @ = 0 THEN 0 ELSE @ - 1,
            !.conns = [x \in DOMAIN @ |-> IF @[x].peer = ev.peer
                                          THEN [@[x] EXCEPT !.named = TRUE] ELSE @[x]]]

\* The first page announces that there are more; each further page asks for
\* the next one, from page 0 again.
OnFeatures(s, ev) ==
  IF ev.h \notin DOMAIN s.h.conns THEN s
  ELSE Half([s.h EXCEPT !.conns[ev.h].pages = @ \cup {0},
                        !.conns[ev.h].last = IF LastPage > 0 THEN {} ELSE {0}],
            IF LastPage > 0 THEN HandleReadExtendedFeatures(s.c, ev.h, 0) ELSE s.c)

OnExtendedFeatures(s, ev) ==
  IF ev.h \notin DOMAIN s.h.conns THEN s
  ELSE Half([s.h EXCEPT !.conns[ev.h].pages = @ \cup {ev.x},
                        !.conns[ev.h].last = {LastPage}],
            IF ev.x + 1 <= LastPage THEN HandleReadExtendedFeatures(s.c, ev.h, ev.x + 1) ELSE s.c)

OnEncryptionChange(h, ev) ==
  IF ev.h \in DOMAIN h.conns THEN [h EXCEPT !.conns[ev.h].encrypted = ev.x] ELSE h

Reselect(h, gone) ==
  IF h.selected # {gone} THEN h
  ELSE [h EXCEPT !.selected = IF DOMAIN h.conns = {} THEN {} ELSE {Least(DOMAIN h.conns)}]

OnDisconnectionComplete(h, ev) ==
  Reselect([h EXCEPT !.closing = @ \ {ev.h},
                     !.conns = Without(@, ev.h),
                     !.sync = Without(@, ev.h)], ev.h)

OnSynchronousRequest(h, ev) == [h EXCEPT !.syncRequests = Append(@, ev.peer)]

OnSynchronousComplete(h, ev) ==
  [h EXCEPT !.sync = With(@, ev.h, [peer |-> ev.peer, mode |-> ev.x])]

OnNameStatus(h, ev) == [h EXCEPT !.commands = IF @ = <<>> THEN @ ELSE Tail(@)]

OnEvent(s, ev) ==
  CASE ev.e = "Complete" -> Half(OnConnectionComplete(s.h, ev), s.c)
    [] ev.e = "RoleChange" -> Half(OnRoleChange(s.h, ev), s.c)
    [] ev.e = "Request" -> OnConnectionRequest(s, ev)
    [] ev.e = "SyncRequest" -> Half(OnSynchronousRequest(s.h, ev), s.c)
    [] ev.e = "SyncComplete" -> Half(OnSynchronousComplete(s.h, ev), s.c)
    [] ev.e = "SyncFailed" -> s
    [] ev.e = "NameStatus" -> Half(OnNameStatus(s.h, ev), s.c)
    [] ev.e = "Name" -> Half(OnName(s.h, ev), s.c)
    [] ev.e = "Features" -> OnFeatures(s, ev)
    [] ev.e = "ExtendedFeatures" -> OnExtendedFeatures(s, ev)
    [] ev.e = "EncryptionChange" -> Half(OnEncryptionChange(s.h, ev), s.c)
    [] ev.e = "Disconnected" -> Half(OnDisconnectionComplete(s.h, ev), s.c)

-----------------------------------------------------------------------------
\* The application's calls.

NewHost ==
  [conns |-> Empty, roles |-> Empty, selected |-> {}, requests |-> <<>>, sync |-> Empty,
   syncRequests |-> <<>>, closing |-> {}, commands |-> <<>>, names |-> [p \in Devices |-> 0]]

Blank(allow) ==
  [conns |-> <<>>, sync |-> <<>>, switches |-> <<>>, allow |-> allow, next |-> 1,
   queue |-> <<>>, out |-> <<>>]

Init ==
  /\ plan \in Plans
  /\ host = [d \in Devices |-> NewHost]
  /\ ctl = [d \in Devices |-> Blank(plan.allow)]

Settle(d) == Len(ctl[d].queue) < MaxQueue

RoomForAll == \A d \in Devices : ctl[d].next <= MaxHandle

Become(d, s) ==
  /\ host' = [host EXCEPT ![d] = s.h]
  /\ ctl' = [ctl EXCEPT ![d] = s.c]

Ask(kind) ==
  /\ kind \in plan.kinds
  /\ plan.calls > 0
  /\ plan' = [plan EXCEPT !.calls = @ - 1]

\* No PDU of these two is on its way.
Calm(d, p) ==
  /\ \A i \in DOMAIN ctl[d].out : ctl[d].out[i].to # p
  /\ \A i \in DOMAIN ctl[p].out : ctl[p].out[i].to # d

\* A switch between these two awaits its answer.
Switching(d, p) == Awaited(ctl[d], p) > 0 \/ Awaited(ctl[p], d) > 0

\* One connection per pair, asked for by one side, once the PDUs about the
\* previous one are gone: the controllers tell connections apart by peer only.
ConnectClassic(d, p, allow) ==
  /\ RoomForAll /\ Calm(d, p)
  /\ ByPeer(ctl[d].conns, p) = 0 /\ ByPeer(ctl[p].conns, d) = 0
  /\ Become(d, Half(SetPendingRole(host[d], p, CENTRAL),
                    HandleCreateConnection(ctl[d], p, allow)))

\* The application takes the oldest request and accepts it once.
AcceptRequest(d, role) ==
  /\ RoomForAll /\ Settle(d)
  /\ host[d].requests # <<>>
  /\ Become(d, AcceptClassic(Half([host[d] EXCEPT !.requests = Tail(@)], ctl[d]),
                             Head(host[d].requests), role))

\* A device awaits one switch at a time: a second request would flip the
\* peer's role back.
SwitchClassicRole(d, h, role) ==
  /\ Settle(d)
  /\ h \in DOMAIN host[d].conns
  /\ Awaited(ctl[d], host[d].conns[h].peer) = 0
  /\ Become(d, Half(host[d], HandleSwitchRole(ctl[d], host[d].conns[h].peer, role)))

\* Likewise one synchronous link per pair at a time, asked for by one side.
SetupSynchronous(d, h, mode) ==
  /\ RoomForAll
  /\ h \in DOMAIN host[d].conns
  /\ Calm(d, host[d].conns[h].peer)
  /\ ByPeer(ctl[d].sync, host[d].conns[h].peer) = 0
  /\ ByPeer(ctl[host[d].conns[h].peer].sync, d) = 0
  /\ Become(d, Half(host[d], HandleSetupSynchronous(ctl[d], h, mode)))

AcceptSynchronous(d, mode) ==
  /\ RoomForAll /\ Settle(d)
  /\ host[d].syncRequests # <<>>
  /\ Become(d, Half([host[d] EXCEPT !.syncRequests = Tail(@)],
                    HandleAcceptSynchronous(ctl[d], Head(host[d].syncRequests), mode)))

RejectSynchronous(d) ==
  /\ host[d].syncRequests # <<>>
  /\ Become(d, Half([host[d] EXCEPT !.syncRequests = Tail(@)],
                    HandleRejectSynchronous(ctl[d], Head(host[d].syncRequests))))

SetClassicEncryption(d, h, enable) ==
  /\ Settle(d)
  /\ h \in DOMAIN host[d].conns
  /\ Become(d, Half(host[d], HandleSetEncryption(ctl[d], h, enable)))

RequestRemoteName(d, p) ==
  /\ Settle(d)
  /\ Become(d, Half([host[d] EXCEPT !.commands = Append(@, p), !.names[p] = @ + 1],
                    HandleRemoteName(ctl[d], p)))

ReadRemoteClassicFeatures(d, h) ==
  /\ h \in DOMAIN host[d].conns
  /\ Become(d, Half(host[d], HandleReadFeatures(ctl[d], h)))

\* The links a host was told of are disconnected, not while a switch is under
\* way: its answer would be taken for that of a later one.
DisconnectHandle(d, h) ==
  /\ Settle(d)
  /\ h \in DOMAIN host[d].conns => ~Switching(d, host[d].conns[h].peer)
  /\ h \in DOMAIN host[d].conns \cup DOMAIN host[d].sync
  /\ Has(ctl[d].conns, h) \/ Has(ctl[d].sync, h)
  /\ Become(d, Half([host[d] EXCEPT !.closing = @ \cup {h}], RequestDisconnect(ctl[d], h)))

Poll(d) ==
  /\ ctl[d].queue # <<>>
  /\ Become(d, FoldLeft(OnEvent, Half(host[d], [ctl[d] EXCEPT !.queue = <<>>]), ctl[d].queue))

PumpClassic ==
  /\ Outbound(ctl) # <<>>
  /\ ctl' = PumpRounds(ctl)
  /\ UNCHANGED host

Call(d) ==
  \/ Ask("Accept") /\ \E role \in {CENTRAL, PERIPHERAL} : AcceptRequest(d, role)
  \/ Ask("Switch") /\ \E h \in 1..MaxHandle, role \in {CENTRAL, PERIPHERAL} :
                        SwitchClassicRole(d, h, role)
  \/ Ask("Sync") /\ \E h \in 1..MaxHandle, mode \in Modes : SetupSynchronous(d, h, mode)
  \/ Ask("Sync") /\ \E mode \in Modes : AcceptSynchronous(d, mode)
  \/ Ask("Sync") /\ RejectSynchronous(d)
  \/ Ask("Name") /\ \E p \in Devices \ {d} : RequestRemoteName(d, p)
  \/ Ask("Features") /\ \E h \in 1..MaxHandle : ReadRemoteClassicFeatures(d, h)
  \/ Ask("Disconnect") /\ \E h \in 1..MaxHandle : DisconnectHandle(d, h)

Initiate(d) ==
  \/ Ask("Connect") /\ \E p \in Devices \ {d}, allow \in BOOLEAN : ConnectClassic(d, p, allow)
  \/ Ask("Encrypt") /\ \E h \in 1..MaxHandle, x \in {0, 1} : SetClassicEncryption(d, h, x)

Drive ==
  \/ PumpClassic
  \/ \E d \in Devices : Poll(d)

Next ==
  \/ \E d \in Devices : Call(d)
  \/ \E d \in Initiators : Initiate(d)
  \/ Drive /\ UNCHANGED plan

Spec == Init /\ [][Next]_vars

-----------------------------------------------------------------------------
Established(table) == {i \in DOMAIN table : table[i].handle # 0}

\* A host that has drained its controller knows exactly the connections and
\* the synchronous links its controller has established, each connection with
\* the role the controller has after any switch, crossing ones and those before
\* Connection Complete included; a connection is selected when there is any
\* (ConnectionComplete, RoleChange and DisconnectionComplete arms of poll).
ClassicMirrored ==
  \A d \in Devices : ctl[d].queue = <<>> =>
    /\ DOMAIN host[d].conns = {ctl[d].conns[i].handle : i \in Established(ctl[d].conns)}
    /\ \A i \in Established(ctl[d].conns) :
         /\ host[d].conns[ctl[d].conns[i].handle].peer = ctl[d].conns[i].peer
         /\ host[d].conns[ctl[d].conns[i].handle].role = ctl[d].conns[i].role
    /\ DOMAIN host[d].sync = {ctl[d].sync[i].handle : i \in Established(ctl[d].sync)}
    /\ host[d].selected \subseteq DOMAIN host[d].conns
    /\ host[d].selected = {} => DOMAIN host[d].conns = {}

Quiet == \A d \in Devices : ctl[d].out = <<>>

AllPolled == Quiet /\ \A d \in Devices : ctl[d].queue = <<>>

\* The modes of the synchronous links of d to p, as a host knows them.
SyncModes(d, p) == {host[d].sync[h].mode : h \in {x \in DOMAIN host[d].sync : host[d].sync[x].peer = p}}

\* Once no PDU is on its way and every host has polled, two devices that are
\* connected both know it, have opposite roles, agree whether the connection is
\* encrypted, and have the same synchronous links with the same air mode; a
\* device is never left connected alone (on_classic_pdu).
ClassicEndsAgree ==
  AllPolled => \A d, p \in Devices : d # p =>
    /\ Cardinality(To(host[d], p)) = Cardinality(To(host[p], d))
    /\ \A x \in To(host[d], p), y \in To(host[p], d) :
         /\ host[d].conns[x].role # host[p].conns[y].role
         /\ host[d].conns[x].encrypted = host[p].conns[y].encrypted
    /\ SyncModes(d, p) = SyncModes(p, d)

\* Once no PDU is on its way and a host has polled, every remote name it asked
\* for was answered, every disconnection reported, every started discovery of
\* features has all pages up to the last one, and a role is remembered only for
\* a connection still being made (request_remote_name, the feature arms of poll,
\* pending_classic_roles).
ClassicAnswered ==
  Quiet => \A d \in Devices : ctl[d].queue = <<>> =>
    /\ \A p \in Devices : host[d].names[p] = 0
    /\ host[d].commands = <<>>
    /\ host[d].closing = {}
    /\ \A h \in DOMAIN host[d].conns :
         host[d].conns[h].pages # {} =>
           host[d].conns[h].pages = 0..LastPage /\ host[d].conns[h].last = {LastPage}
    /\ \A p \in DOMAIN host[d].roles : Waiting(ctl[d].conns, p) > 0
=============================================================================

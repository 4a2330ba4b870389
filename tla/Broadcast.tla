------------------------------ MODULE Broadcast ------------------------------
(***************************************************************************)
(* Periodic advertising, its synchronization and transfer over an LE       *)
(* connection (PAST), and the broadcast isochronous groups (BIG) carried   *)
(* by a periodic train, as Device and Controller keep them.                *)
(*                                                                         *)
(* A device broadcasts at most one train; a train is named by its device.  *)
(* The LE connections PAST uses are the constant Linked.  An option is a   *)
(* set of at most one element.                                             *)
(***************************************************************************)
EXTENDS Integers, Sequences, FiniteSets, SequencesExt

CONSTANTS Devices,      \* 1..n; the order in which the link visits them
          Broadcasters, \* devices that advertise
          Linked,       \* pairs of devices with an LE connection
          BigHandles,   \* BIG handles applications use
          Codes,        \* broadcast codes; NO_CODE for an unencrypted BIG
          Data,         \* the train data: how many report chunks each takes
          Plans,        \* bounds: which calls the applications make, how many, and
                        \* whether the trains are on the air from the start
          MaxHandle     \* bound: handles and sync handles handed out

VARIABLES host, ctl, plan

vars == <<host, ctl, plan>>

NO_CODE == 0
SUCCESS == 0
UNKNOWN == 2
INVALID == 18
MIC_FAILURE == 61
CANCELLED == 68

Event(e, h, x, y) == [e |-> e, h |-> h, x |-> x, y |-> y]

Push(c, ev) == [c EXCEPT !.queue = Append(@, ev)]

ByHandle(table, h) == SelectInSeq(table, LAMBDA l : l.handle = h)

Has(table, h) == ByHandle(table, h) > 0

Entry(table, h) == table[ByHandle(table, h)]

Drop(table, h) == SelectSeq(table, LAMBDA l : l.handle # h)

-----------------------------------------------------------------------------
\* The controller.

OnAir(c) == c.advertising /\ c.periodic

\* A synchronization to a train, and the event that tells the host of it.
Synchronize(c, train, e) ==
  [c EXCEPT !.syncs = Append(@, [handle |-> c.nextSync, train |-> train, on |-> TRUE]),
            !.queue = Append(@, Event(e, c.nextSync, SUCCESS, train)),
            !.nextSync = @ + 1]

HandleCreateSync(c, train) ==
  IF c.pendingSync # {} THEN c ELSE [c EXCEPT !.pendingSync = {train}]

HandleCreateSyncCancel(c) ==
  IF c.pendingSync = {} THEN c
  ELSE Push([c EXCEPT !.pendingSync = {}], Event("SyncEstablished", 0, CANCELLED, 0))

BigSyncsOn(c, sync) == SelectSeq(c.bigSyncs, LAMBDA b : b.sync = sync)

Lost(c, bigs, reason) ==
  [c EXCEPT !.bigSyncs = SelectSeq(@, LAMBDA b : ~Has(bigs, b.handle)),
            !.queue = @ \o [i \in DOMAIN bigs |-> Event("BigSyncLost", bigs[i].handle, reason, 0)]]

\* The BIG synchronizations on a train go with it; a pending one stays.
HandleTerminateSync(c, sync) ==
  IF Has(c.syncs, sync)
  THEN Lost([c EXCEPT !.syncs = Drop(@, sync)], BigSyncsOn(c, sync), 22)
  ELSE c

HandleReceiveEnable(c, sync, on) ==
  IF Has(c.syncs, sync) THEN [c EXCEPT !.syncs[ByHandle(c.syncs, sync)].on = on] ELSE c

Handles(first, n) == [i \in 1..n |-> first + i - 1]

HandleCreateBig(c, big, n, code) ==
  IF Has(c.bigs, big) \/ Has(c.bigSyncs, big) \/ ~OnAir(c)
  THEN Push(c, Event("BigStatus", big, INVALID, 0))
  ELSE [c EXCEPT
          !.bigs = Append(@, [handle |-> big, code |-> code, bis |-> Handles(c.next, n)]),
          !.next = @ + n,
          !.queue = @ \o <<Event("BigStatus", big, SUCCESS, 0),
                           Event("BigCreated", big, SUCCESS, Handles(c.next, n))>>]

HandleTerminateBig(c, big, self) ==
  IF ~Has(c.bigs, big) THEN c
  ELSE Push([c EXCEPT !.bigs = Drop(@, big), !.ended = Append(@, self)],
            Event("BigTerminated", big, 22, 0))

HandleBigCreateSync(c, big, sync, code, n) ==
  IF c.pendingBig # {} \/ Has(c.bigSyncs, big) \/ Has(c.bigs, big) \/ ~Has(c.syncs, sync)
  THEN Push(c, Event("BigSyncStatus", big, INVALID, 0))
  ELSE Push([c EXCEPT !.pendingBig = {[handle |-> big, sync |-> sync, code |-> code, n |-> n]}],
            Event("BigSyncStatus", big, SUCCESS, 0))

HandleBigTerminateSync(c, big) ==
  IF Has(c.bigSyncs, big) THEN Lost(c, <<Entry(c.bigSyncs, big)>>, 22) ELSE c

\* A report of a whole train, in as many chunks as its data takes.
Reports(sync, data) ==
  [i \in 1..Data[data] |-> Event("Report", sync, <<data, i>>, i = Data[data])]

\* The BIG a train announces is the first one attached to it.
BigInfo(c) == IF c.bigs = <<>> THEN {} ELSE {Head(c.bigs)}

TryEstablishBigSync(c, train, info) ==
  LET ready == {p \in c.pendingBig : Has(c.syncs, p.sync) /\ Entry(c.syncs, p.sync).train = train} IN
  IF ready = {} THEN c
  ELSE LET p == CHOOSE q \in ready : TRUE
           enough == p.n <= Len(info.bis)
           good == enough /\ p.code = info.code
           freed == [c EXCEPT !.pendingBig = {}] IN
       IF ~good
       THEN Push(freed, Event("BigSyncEstablished", p.handle,
                              IF enough THEN MIC_FAILURE ELSE INVALID, <<>>))
       ELSE [freed EXCEPT
               !.bigSyncs = Append(@, [handle |-> p.handle, sync |-> p.sync, train |-> train,
                                       bis |-> Handles(c.next, p.n)]),
               !.next = @ + p.n,
               !.queue = Append(@, Event("BigSyncEstablished", p.handle, SUCCESS,
                                         Handles(c.next, p.n)))]

\* A matching pending synchronization is established first, so that the same
\* train is reported on it.
Synchronized(c, train) ==
  IF c.pendingSync = {train}
  THEN Synchronize([c EXCEPT !.pendingSync = {}], train, "SyncEstablished") ELSE c

Reported(c, train, data, big) ==
  LET on == SelectSeq(c.syncs, LAMBDA s : s.on /\ s.train = train) IN
  [c EXCEPT !.queue = @ \o FlattenSeq([i \in DOMAIN on |->
     [k \in 1..Cardinality(big) |-> Event("BigInfo", on[i].handle, 0, 0)]
       \o Reports(on[i].handle, data)])]

OnPeriodicPdu(c, train, data, big) ==
  IF big = {} THEN Reported(Synchronized(c, train), train, data, big)
  ELSE TryEstablishBigSync(Reported(Synchronized(c, train), train, data, big), train,
                           CHOOSE b \in big : TRUE)

Numbered == [i \in 1..Cardinality(Devices) |-> i]

\* What each train carries is read once, before any controller receives.
Propagated(s) ==
  FoldLeft(LAMBDA t, b :
             IF OnAir(s[b])
             THEN [d \in Devices |-> IF d = b THEN t[d]
                                     ELSE OnPeriodicPdu(t[d], b, s[b].data, BigInfo(s[b]))]
             ELSE t,
           s, Numbered)

OnBigTerminated(c, train) ==
  Lost(c, SelectSeq(c.bigSyncs, LAMBDA b : b.train = train), 19)

BigEndings(s) ==
  FoldLeft(LAMBDA t, train : [d \in Devices |-> OnBigTerminated(t[d], train)],
           [d \in Devices |-> [s[d] EXCEPT !.ended = <<>>]],
           FlattenSeq([i \in 1..Cardinality(Devices) |-> s[i].ended]))

\* The train of one of its synchronizations, or its own, is sent to a peer.
HandleSyncTransfer(c, to, sync) ==
  [c EXCEPT !.past = Append(@, <<to, Entry(c.syncs, sync).train>>)]

HandleSetInfoTransfer(c, to, self) == [c EXCEPT !.past = Append(@, <<to, self>>)]

OnPeriodicSyncTransfer(c, train) == Synchronize(c, train, "Transferred")

Transfers(s) ==
  FoldLeft(LAMBDA t, m : [t EXCEPT ![m[1]] = OnPeriodicSyncTransfer(@, m[2])],
           [d \in Devices |-> [s[d] EXCEPT !.past = <<>>]],
           FlattenSeq([i \in 1..Cardinality(Devices) |-> s[i].past]))

-----------------------------------------------------------------------------
\* The host.

NoHandles == [h \in {} |-> 0]

Without(f, h) == [x \in DOMAIN f \ {h} |-> f[x]]

With(f, h, v) == [x \in DOMAIN f \cup {h} |-> IF x = h THEN v ELSE f[x]]

Image(s) == {s[i] : i \in DOMAIN s}

ClearBis(h, handles) ==
  [h EXCEPT !.bis = {b \in @ : b[1] \notin Image(handles)},
            !.setups = @ \ Image(handles),
            !.paths = @ \ Image(handles)]

\* The Command Status of a BIG command settles the oldest pending one.
OnBigStatus(h, ev) ==
  IF h.bigCommands = <<>> THEN h
  ELSE IF ev.x = SUCCESS THEN [h EXCEPT !.bigCommands = Tail(@)]
  ELSE [h EXCEPT !.bigCommands = Tail(@),
                 !.pendingBigs = @ \ {Head(h.bigCommands)},
                 !.bigs = Without(@, Head(h.bigCommands))]

OnBigSyncStatus(h, ev) ==
  IF h.syncCommands = <<>> THEN h
  ELSE IF ev.x = SUCCESS THEN [h EXCEPT !.syncCommands = Tail(@)]
  ELSE [h EXCEPT !.syncCommands = Tail(@),
                 !.pendingBigSyncs = @ \ {Head(h.syncCommands)},
                 !.bigSyncs = Without(@, Head(h.syncCommands))]

Forget(s, x) == SelectSeq(s, LAMBDA y : y # x)

OnBigCreated(h, ev) ==
  [h EXCEPT !.pendingBigs = @ \ {ev.h}, !.bigCommands = Forget(@, ev.h),
            !.bis = @ \cup {<<b, 0>> : b \in Image(ev.y)},
            !.bigs = With(@, ev.h, ev.y)]

OnBigSyncEstablished(h, ev) ==
  IF ev.x = SUCCESS
  THEN [h EXCEPT !.pendingBigSyncs = @ \ {ev.h}, !.syncCommands = Forget(@, ev.h),
                 !.bis = @ \cup {<<b, 1>> : b \in Image(ev.y)},
                 !.bigSyncs = With(@, ev.h, ev.y)]
  ELSE [h EXCEPT !.pendingBigSyncs = @ \ {ev.h}, !.syncCommands = Forget(@, ev.h),
                 !.bigSyncs = Without(@, ev.h)]

OnBigTerminatedEvent(h, ev) ==
  IF ev.h \in DOMAIN h.bigs THEN ClearBis([h EXCEPT !.bigs = Without(@, ev.h)], h.bigs[ev.h])
  ELSE h

OnBigSyncLost(h, ev) ==
  IF ev.h \in DOMAIN h.bigSyncs
  THEN ClearBis([h EXCEPT !.bigSyncs = Without(@, ev.h)], h.bigSyncs[ev.h])
  ELSE h

Gathered(h, sync) == IF sync \in DOMAIN h.partial THEN h.partial[sync] ELSE <<>>

\* Mutant: a report that was handed over stays gathered.
OnReportKeepsChunks(h, ev) ==
  IF ev.h \notin DOMAIN h.syncs THEN h
  ELSE IF ev.y
  THEN [h EXCEPT !.inbox = Append(@, Append(Gathered(h, ev.h), ev.x))]
  ELSE [h EXCEPT !.partial = With(@, ev.h, Append(Gathered(h, ev.h), ev.x))]

\* Chunks of a report are gathered until the last one.
OnReport(h, ev) ==
  IF ev.h \notin DOMAIN h.syncs THEN h
  ELSE IF ev.y
  THEN [h EXCEPT !.partial = Without(@, ev.h),
                 !.inbox = Append(@, Append(Gathered(h, ev.h), ev.x))]
  ELSE [h EXCEPT !.partial = With(@, ev.h, Append(Gathered(h, ev.h), ev.x))]

OnSyncEstablished(h, ev) ==
  IF ev.x = SUCCESS THEN [h EXCEPT !.syncs = With(@, ev.h, ev.y)] ELSE h

OnSyncTransferred(h, ev) ==
  IF ev.x = SUCCESS THEN [h EXCEPT !.syncs = With(@, ev.h, ev.y)] ELSE h

OnPathSetUp(h, ev) ==
  IF ev.h \in h.setups
  THEN [h EXCEPT !.setups = @ \ {ev.h}, !.paths = IF ev.x = SUCCESS THEN @ \cup {ev.h} ELSE @]
  ELSE h

OnEvent(h, ev) ==
  CASE ev.e = "SyncEstablished" -> OnSyncEstablished(h, ev)
    [] ev.e = "Transferred" -> OnSyncTransferred(h, ev)
    [] ev.e = "Report" -> OnReport(h, ev)
    [] ev.e = "BigInfo" -> h
    [] ev.e = "BigStatus" -> OnBigStatus(h, ev)
    [] ev.e = "BigSyncStatus" -> OnBigSyncStatus(h, ev)
    [] ev.e = "BigCreated" -> OnBigCreated(h, ev)
    [] ev.e = "BigTerminated" -> OnBigTerminatedEvent(h, ev)
    [] ev.e = "BigSyncEstablished" -> OnBigSyncEstablished(h, ev)
    [] ev.e = "BigSyncLost" -> OnBigSyncLost(h, ev)
    [] ev.e = "PathSetUp" -> OnPathSetUp(h, ev)

-----------------------------------------------------------------------------
NewHost ==
  [syncs |-> NoHandles, partial |-> NoHandles, inbox |-> <<>>, bigs |-> NoHandles,
   bigSyncs |-> NoHandles, pendingBigs |-> {}, pendingBigSyncs |-> {}, bigCommands |-> <<>>,
   syncCommands |-> <<>>, bis |-> {}, paths |-> {}, setups |-> {}]

NewController(onAir) ==
  [advertising |-> onAir, periodic |-> onAir, data |-> 1, syncs |-> <<>>, pendingSync |-> {},
   bigs |-> <<>>, bigSyncs |-> <<>>, pendingBig |-> {}, paths |-> {}, next |-> 1,
   nextSync |-> 1, ended |-> <<>>, past |-> <<>>, queue |-> <<>>]

Init ==
  /\ plan \in Plans
  /\ host = [d \in Devices |-> NewHost]
  /\ ctl = [d \in Devices |-> NewController(plan.onAir /\ d \in Broadcasters)]

Ask(kind) ==
  /\ kind \in plan.kinds
  /\ plan.calls > 0
  /\ plan' = [plan EXCEPT !.calls = @ - 1]

Become(d, h, c) ==
  /\ host' = [host EXCEPT ![d] = h]
  /\ ctl' = [ctl EXCEPT ![d] = c]

Room(d, n) == ctl[d].next + n <= MaxHandle + 1 /\ ctl[d].nextSync <= MaxHandle

RoomForAll == \A d \in Devices : Room(d, 2)

\* start_extended_advertising then start_periodic_advertising: the data is
\* loaded before the train is enabled.
StartTrain(d, data) ==
  Become(d, host[d], [ctl[d] EXCEPT !.advertising = TRUE, !.periodic = TRUE, !.data = data])

StopPeriodicAdvertising(d) ==
  /\ ctl[d].periodic
  /\ Become(d, host[d], [ctl[d] EXCEPT !.periodic = FALSE])

StopExtendedAdvertising(d) ==
  /\ ctl[d].advertising
  /\ Become(d, host[d], [ctl[d] EXCEPT !.advertising = FALSE])

CreatePeriodicSync(d, train) == Become(d, host[d], HandleCreateSync(ctl[d], train))

CancelPeriodicSync(d) == Become(d, host[d], HandleCreateSyncCancel(ctl[d]))

\* The host forgets the synchronization at once.
TerminatePeriodicSync(d, sync) ==
  /\ sync \in DOMAIN host[d].syncs
  /\ Become(d, [host[d] EXCEPT !.syncs = Without(@, sync), !.partial = Without(@, sync)],
            HandleTerminateSync(ctl[d], sync))

SetReceiveEnabled(d, sync, on) ==
  /\ sync \in DOMAIN host[d].syncs
  /\ Become(d, host[d], HandleReceiveEnable(ctl[d], sync, on))

TransferSync(d, sync, to) ==
  /\ <<d, to>> \in Linked
  /\ Has(ctl[d].syncs, sync)
  /\ Become(d, host[d], HandleSyncTransfer(ctl[d], to, sync))

TransferSetInfo(d, to) ==
  /\ <<d, to>> \in Linked
  /\ ctl[d].periodic
  /\ Become(d, host[d], HandleSetInfoTransfer(ctl[d], to, d))

\* The host knows the handle neither as a BIG nor as a BIG synchronization.
Unused(h, big) ==
  big \notin DOMAIN h.bigs \cup h.pendingBigs \cup DOMAIN h.bigSyncs \cup h.pendingBigSyncs

CreateBig(d, big, n, code) ==
  /\ Room(d, n)
  /\ Unused(host[d], big)
  /\ Become(d, [host[d] EXCEPT !.pendingBigs = @ \cup {big}, !.bigCommands = Append(@, big)],
            HandleCreateBig(ctl[d], big, n, code))

TerminateBig(d, big) ==
  /\ big \in DOMAIN host[d].bigs
  /\ Become(d, host[d], HandleTerminateBig(ctl[d], big, d))

CreateBigSync(d, big, sync, code, n) ==
  /\ Unused(host[d], big)
  /\ sync \in DOMAIN host[d].syncs
  /\ Become(d, [host[d] EXCEPT !.pendingBigSyncs = @ \cup {big},
                               !.syncCommands = Append(@, big)],
            HandleBigCreateSync(ctl[d], big, sync, code, n))

TerminateBigSync(d, big) ==
  /\ big \in DOMAIN host[d].bigSyncs
  /\ Become(d, host[d], HandleBigTerminateSync(ctl[d], big))

\* The BISes of a controller, which lose their data paths with their BIG.
LiveBis(c) ==
  UNION ({Image(c.bigs[i].bis) : i \in DOMAIN c.bigs}
           \cup {Image(c.bigSyncs[i].bis) : i \in DOMAIN c.bigSyncs})

HandleSetupIsoDataPath(c, b) ==
  IF b \in LiveBis(c) \ c.paths
  THEN Push([c EXCEPT !.paths = @ \cup {b}], Event("PathSetUp", b, SUCCESS, 0))
  ELSE Push(c, Event("PathSetUp", b, UNKNOWN, 0))

\* A BIS has one direction only.
SetupIsoDataPath(d, b) ==
  /\ \E x \in host[d].bis : x[1] = b
  /\ b \notin host[d].paths \cup host[d].setups
  /\ Become(d, [host[d] EXCEPT !.setups = @ \cup {b}], HandleSetupIsoDataPath(ctl[d], b))

-----------------------------------------------------------------------------
Call(d) ==
  \/ Ask("Train") /\ d \in Broadcasters /\ \E data \in DOMAIN Data : StartTrain(d, data)
  \/ Ask("Train") /\ StopPeriodicAdvertising(d)
  \/ Ask("Train") /\ StopExtendedAdvertising(d)
  \/ Ask("Sync") /\ \E b \in Broadcasters \ {d} : CreatePeriodicSync(d, b)
  \/ Ask("Cancel") /\ CancelPeriodicSync(d)
  \/ Ask("Terminate") /\ \E y \in 1..MaxHandle : TerminatePeriodicSync(d, y)
  \/ Ask("Train") /\ \E y \in 1..MaxHandle, on \in BOOLEAN : SetReceiveEnabled(d, y, on)
  \/ Ask("Transfer") /\ \E y \in 1..MaxHandle, to \in Devices : TransferSync(d, y, to)
  \/ Ask("Transfer") /\ \E to \in Devices : TransferSetInfo(d, to)
  \/ Ask("Big") /\ d \in Broadcasters
       /\ \E big \in BigHandles, code \in Codes : CreateBig(d, big, 1, code)
  \/ Ask("Terminate") /\ \E big \in BigHandles : TerminateBig(d, big)
  \/ Ask("Big") /\ \E big \in BigHandles, y \in 1..MaxHandle, code \in Codes, n \in 1..2 :
                     CreateBigSync(d, big, y, code, n)
  \/ Ask("Terminate") /\ \E big \in BigHandles : TerminateBigSync(d, big)
  \/ Ask("Path") /\ \E b \in 1..MaxHandle : SetupIsoDataPath(d, b)

\* The reports of the previous poll have been taken by the application.
Poll(d) ==
  /\ ctl[d].queue # <<>>
  /\ Become(d, FoldLeft(OnEvent, [host[d] EXCEPT !.inbox = <<>>], ctl[d].queue),
            [ctl[d] EXCEPT !.queue = <<>>])

\* Trains are carried once the receivers have taken what they already heard.
PropagateAdvertising ==
  /\ RoomForAll
  /\ \A d \in Devices : \A i \in DOMAIN ctl[d].queue : ctl[d].queue[i].e # "Report"
  /\ \E b \in Devices : OnAir(ctl[b])
  /\ ctl' = Propagated(ctl)
  /\ UNCHANGED host

PumpBigTerminations ==
  /\ \E d \in Devices : ctl[d].ended # <<>>
  /\ ctl' = BigEndings(ctl)
  /\ UNCHANGED host

PumpTransfers ==
  /\ RoomForAll
  /\ \E d \in Devices : ctl[d].past # <<>>
  /\ ctl' = Transfers(ctl)
  /\ UNCHANGED host

Drive ==
  \/ PropagateAdvertising
  \/ PumpBigTerminations
  \/ PumpTransfers
  \/ \E d \in Devices : Poll(d)

Next ==
  \/ \E d \in Devices : Call(d)
  \/ Drive /\ UNCHANGED plan

Spec == Init /\ [][Next]_vars

-----------------------------------------------------------------------------
Polled(d) == ctl[d].queue = <<>>

Table(entries) ==
  [h \in {entries[i].handle : i \in DOMAIN entries} |-> Entry(entries, h).bis]

\* A host that has drained its controller knows exactly its controller's BIGs,
\* BIG synchronizations and periodic synchronizations, by the same BIS handles,
\* and every data path it believes in is installed on a BIS that is alive
\* (clear_bis_handle on TerminateBigComplete and BigSyncLost).
BroadcastMirrored ==
  \A d \in Devices : Polled(d) =>
    /\ host[d].bigs = Table(ctl[d].bigs)
    /\ host[d].bigSyncs = Table(ctl[d].bigSyncs)
    /\ DOMAIN host[d].syncs = {ctl[d].syncs[i].handle : i \in DOMAIN ctl[d].syncs}
    /\ {x[1] : x \in host[d].bis} = LiveBis(ctl[d])
    /\ host[d].paths = ctl[d].paths \cap LiveBis(ctl[d])

\* A BIG command is pending at the host exactly as long as it is pending at the
\* controller: the FIFO of pending commands never settles the wrong one.
PendingBigsAgree ==
  \A d \in Devices : Polled(d) =>
    /\ host[d].pendingBigs = {}
    /\ host[d].pendingBigSyncs = {p.handle : p \in ctl[d].pendingBig}
    /\ host[d].bigCommands = <<>> /\ host[d].syncCommands = <<>>
    /\ host[d].setups = {}

\* Every periodic advertisement handed to the application is one whole train
\* payload: chunks of two reports, or of two synchronizations, never mix.
ReportsWhole ==
  \A d \in Devices : \A i \in DOMAIN host[d].inbox :
    \E data \in DOMAIN Data : host[d].inbox[i] = [k \in 1..Data[data] |-> <<data, k>>]

\* Once the terminations have been carried, no receiver is left synchronized to
\* a BIG its broadcaster has ended.
NoOrphanBigSync ==
  (\A d \in Devices : ctl[d].ended = <<>>) =>
    \A d \in Devices : \A i \in DOMAIN ctl[d].bigSyncs :
      ctl[ctl[d].bigSyncs[i].train].bigs # <<>>
=============================================================================

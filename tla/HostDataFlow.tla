---------------------------- MODULE HostDataFlow ----------------------------
(***************************************************************************)
(* Host-to-controller flow control of the host `Device`: one               *)
(* `DataPacketQueue` (bumble-host/src/data_queue.rs), the code of          *)
(* bumble-host/src/lib.rs that drives it, the ordered HCI event stream     *)
(* that `Device::poll` consumes, and the controller the packets go to.     *)
(*                                                                         *)
(* A `Device` owns up to three such queues (Classic ACL, LE ACL, ISO).  A  *)
(* handle keeps the queue it uses for the life of its connection, so the   *)
(* module describes one queue and the handles routed to it.                *)
(*                                                                         *)
(* A packet is a number, given in the order of `enqueue`, and a handle.    *)
(* The `VecDeque` is always in that order (push_back, pop_front, retain),  *)
(* so it is the SET `waiting`, oldest = smallest number.  The map          *)
(* `per_connection_in_flight` is a total function: a missing entry and a   *)
(* zero entry differ only in the error value, which the callers discard.   *)
(***************************************************************************)
EXTENDS Integers, Sequences, FiniteSets

CONSTANTS
  Handles,          \* connection handles routed to this queue
  Buffers,          \* packets the controller can hold, as Read Buffer Size says
  DefaultCapacity,  \* window before discovery (64 in the code)
  ReportsUnknown,   \* TRUE: the transport refuses a packet for a dead handle
                    \*   (in-process link); FALSE: it is written and lost
  EarlyConnect,     \* TRUE: a link may come up before buffer discovery is over
  MaxPackets,       \* bound: packets ever enqueued
  MaxFragments,     \* bound: fragments of one L2CAP PDU
  MaxResets,        \* bound: resets
  MaxLinks          \* bound: connections ever established

ASSUME FlowAssumption ==
  /\ IsFiniteSet(Handles)
  /\ Buffers \in Nat \ {0}
  /\ DefaultCapacity \in Nat \ {0}
  /\ ReportsUnknown \in BOOLEAN
  /\ EarlyConnect \in BOOLEAN
  /\ MaxPackets \in Nat /\ MaxFragments \in Nat
  /\ MaxResets \in Nat /\ MaxLinks \in Nat

VARIABLES
  \* DataPacketQueue
  waiting,        \* `packets`
  maxInFlight, inFlight, perConnection, queued, completed,
  \* Device
  phase,          \* "resetting": controller_ready is false; "discovering": it is
                  \*   true, host_initialization_complete is not; "running": both
  \* transport and controller
  transport,      \* "up"; "failed": takes no packets; "lost": on_transport_lost ran
  live,           \* handles the controller has a link for
  held,           \* packets occupying a controller buffer
  events,         \* HCI events not yet polled, oldest first
  \* history
  owed,           \* packets handed over and not yet credited back to the queue
  unpolled,       \* the queue was flushed for a handle and not polled since
  next,           \* number of the next packet
  resets, links   \* counters for MaxResets and MaxLinks

queue == <<waiting, maxInFlight, inFlight, perConnection, queued, completed>>
counters == <<resets, links>>
vars == <<queue, phase, transport, live, held, events, owed, unpolled, next, counters>>

Packet == [id : Nat, handle : Handles]
Of(h, S) == {p \in S : p.handle = h}
NoneInFlight == [h \in Handles |-> 0]

Connected(h) == [type |-> "connected", handle |-> h, of |-> {}]
Disconnected(h) == [type |-> "disconnected", handle |-> h, of |-> {}]
Completed(h, S) == [type |-> "completed", handle |-> h, of |-> S]
ResetDone == [type |-> "reset", of |-> {}]
BufferSize == [type |-> "buffers", of |-> {}]
IsFor(e, t, h) == e.type = t /\ e.handle = h

-----------------------------------------------------------------------------
\* `Device::new` followed by a finished initialization.
Init ==
  /\ waiting = {}
  /\ maxInFlight = Buffers
  /\ inFlight = 0
  /\ perConnection = NoneInFlight
  /\ queued = 0
  /\ completed = 0
  /\ phase = "running"
  /\ transport = "up"
  /\ live = {}
  /\ held = {}
  /\ events = <<>>
  /\ owed = {}
  /\ unpolled = FALSE
  /\ next = 0
  /\ resets = 0
  /\ links = 0

\* `DataPacketQueue::new`
NewQueue(n) ==
  /\ waiting' = {}
  /\ maxInFlight' = n
  /\ inFlight' = 0
  /\ perConnection' = NoneInFlight
  /\ queued' = 0
  /\ completed' = 0

\* Mutants: `flush` forgets the slots of the handle, or counts the packets that
\* wait among those in flight.
FlushReleasesNothing(h) == 0
FlushReleasesWaiting(h) == perConnection[h] + Cardinality(Of(h, waiting))

\* The slots `flush` releases for a handle.
FlushReleases(h) == perConnection[h]

\* What `on_packets_completed` releases when `count` packets complete and
\* `flying` of that handle are in flight: never more than are in flight.
Released(flying, count) == IF count > flying THEN flying ELSE count

\* Whether `send_acl_packet` takes a packet for handle h.
Accepts(h) == transport = "up" /\ (ReportsUnknown => h \in live)

\* Mutant: the window is compared with the packets before the new one.
HasRoomForOneMore(n) == n <= maxInFlight

\* Whether `poll_ready` has room, with n packets in flight.
HasRoom(n) == n < maxInFlight

\* `flush_acl_queue`: `poll_ready` until the window is full or nothing waits.
\* A packet the transport refuses is completed at once, so only the packets it
\* accepts keep a slot.  The queue it starts from has `w` waiting, `flying` in
\* flight (`pc` per handle, the packets `debt`), and `done` completed.
Pump(w, flying, pc, done, debt) ==
  \E taken \in SUBSET w :
    LET sent == {p \in taken : Accepts(p.handle)} IN
    /\ \A p \in taken, q \in w \ taken : p.id < q.id
    /\ taken # w => ~HasRoom(flying + Cardinality(sent))
    /\ taken # {} => \E p \in taken :
         /\ \A q \in taken : q.id <= p.id
         /\ HasRoom(flying + Cardinality(sent \ {p}))
    /\ waiting' = w \ taken
    /\ inFlight' = flying + Cardinality(sent)
    /\ perConnection' = [h \in Handles |-> pc[h] + Cardinality(Of(h, sent))]
    /\ completed' = done + (Cardinality(taken) - Cardinality(sent))
    /\ held' = held \cup {p \in sent : p.handle \in live}
    /\ owed' = debt \cup sent
    /\ unpolled' = FALSE

-----------------------------------------------------------------------------
(* Host *)

\* `send_l2cap_on_handle`: n fragments for a handle, connected or not, are queued,
\* then the queue is pumped.
Send(h, n) ==
  /\ next + n <= MaxPackets
  /\ queued' = queued + n
  /\ next' = next + n
  /\ LET new == {[id |-> i, handle |-> h] : i \in next..(next + n - 1)}
     IN Pump(waiting \cup new, inFlight, perConnection, completed, owed)
  /\ UNCHANGED <<maxInFlight, phase, transport, live, events, counters>>

\* `configure_controller_packet_pools` and `set_acl_max_in_flight`: a window of
\* n packets replaces the queue, unless packets are pending.
Configure(n) ==
  /\ queued - completed = 0
  /\ NewQueue(n)
  /\ UNCHANGED <<phase, transport, live, held, events, owed, unpolled, next,
                 counters>>

\* `poll` takes the oldest event; before the Reset completion it drops it.
Poll(type) ==
  /\ events # <<>>
  /\ phase # "resetting"
  /\ Head(events).type = type
  /\ events' = Tail(events)

PollNotReady ==
  /\ events # <<>>
  /\ phase = "resetting"
  /\ Head(events).type # "reset"
  /\ events' = Tail(events)
  /\ UNCHANGED <<queue, phase, transport, live, held, owed, unpolled, next,
                 counters>>

\* (Le)ConnectionComplete
OnConnected ==
  /\ Poll("connected")
  /\ UNCHANGED <<queue, phase, transport, live, held, owed, unpolled, next,
                 counters>>

\* Mutant: the freed slots are not used until the next send.
OnCompletedWithoutPump ==
  /\ Poll("completed")
  /\ LET h == Head(events).handle
         n == Released(perConnection[h], Cardinality(Head(events).of))
     IN
     /\ inFlight' = inFlight - n
     /\ perConnection' = [perConnection EXCEPT ![h] = @ - n]
     /\ completed' = completed + n
     /\ owed' = owed \ Head(events).of
  /\ UNCHANGED <<waiting, maxInFlight, queued, phase, transport, live, held,
                 unpolled, next, counters>>

\* NumberOfCompletedPackets, then `flush_acl_queue`.
OnCompleted ==
  /\ Poll("completed")
  /\ LET h == Head(events).handle
         S == Head(events).of
         n == Released(perConnection[h], Cardinality(S))
     IN Pump(waiting, inFlight - n, [perConnection EXCEPT ![h] = @ - n],
             completed + n, owed \ S)
  /\ UNCHANGED <<maxInFlight, queued, phase, transport, live, next, counters>>

\* DisconnectionComplete: `flush` of the handle, and no pump.
OnDisconnected ==
  /\ Poll("disconnected")
  /\ LET h == Head(events).handle
         dropped == Of(h, waiting)
     IN
     /\ waiting' = waiting \ dropped
     /\ inFlight' = inFlight - FlushReleases(h)
     /\ perConnection' = [perConnection EXCEPT ![h] = 0]
     /\ completed' = completed + Cardinality(dropped) + FlushReleases(h)
     /\ owed' = owed \ Of(h, owed)
  /\ unpolled' = TRUE
  /\ UNCHANGED <<maxInFlight, queued, phase, transport, live, held, next, counters>>

\* `reset` (and the reset part of `power_on`): the host flushes, forgets its
\* connections, starts from a default queue and sends Reset.  The controller
\* drops its links and packets and answers; a second reset waits for that answer.
Reset ==
  /\ resets < MaxResets
  /\ resets' = resets + 1
  /\ transport = "up"
  /\ phase # "resetting"
  /\ NewQueue(DefaultCapacity)
  /\ phase' = "resetting"
  /\ owed' = {}
  /\ unpolled' = FALSE
  /\ live' = {}
  /\ held' = {}
  /\ events' = Append(events, ResetDone)
  /\ UNCHANGED <<transport, next, links>>

\* CommandComplete(Reset): events count again and, the capability reads being
\* answered, Read Buffer Size is sent; its answer goes to the end of the stream.
OnResetDone ==
  /\ events # <<>>
  /\ Head(events).type = "reset"
  /\ phase' = "discovering"
  /\ events' = Append(Tail(events), BufferSize)
  /\ UNCHANGED <<queue, transport, live, held, owed, unpolled, next,
                 counters>>

\* CommandComplete(Read Buffer Size): the queue is replaced, unconditionally.
OnBufferSize ==
  /\ Poll("buffers")
  /\ NewQueue(Buffers)
  /\ phase' = "running"
  /\ owed' = {}
  /\ unpolled' = FALSE
  /\ UNCHANGED <<transport, live, held, next, counters>>

\* Mutant: the loss is noted and the packets are kept.
TransportLostKeepingPackets ==
  /\ transport = "failed"
  /\ transport' = "lost"
  /\ UNCHANGED <<queue, phase, live, held, events, owed, unpolled, next, counters>>

\* `on_transport_lost`: `flush` of the whole host, once.
TransportLost ==
  /\ transport = "failed"
  /\ transport' = "lost"
  /\ waiting' = {}
  /\ inFlight' = 0
  /\ perConnection' = NoneInFlight
  /\ completed' = completed + Cardinality(waiting) + inFlight
  /\ owed' = {}
  /\ unpolled' = FALSE
  /\ UNCHANGED <<maxInFlight, queued, phase, live, held, events, next, counters>>

-----------------------------------------------------------------------------
(* Transport and controller *)

\* A link comes up.  A handle is not given out again while events or packets of
\* its former connection are still under way.
Connect(h) ==
  /\ transport = "up"
  /\ links < MaxLinks
  /\ links' = links + 1
  /\ EarlyConnect \/ phase = "running"
  /\ h \notin live
  /\ \A i \in DOMAIN events :
       \A t \in {"connected", "disconnected", "completed"} : ~IsFor(events[i], t, h)
  /\ live' = live \cup {h}
  /\ events' = Append(events, Connected(h))
  /\ UNCHANGED <<queue, phase, transport, held, owed, unpolled, next, resets>>

\* A link is lost; its buffers are free again, without a completion.
Disconnect(h) ==
  /\ transport = "up"
  /\ h \in live
  /\ live' = live \ {h}
  /\ held' = held \ Of(h, held)
  /\ events' = Append(events, Disconnected(h))
  /\ UNCHANGED <<queue, phase, transport, owed, unpolled, next, counters>>

\* The controller has transmitted the packets S of one handle.
Complete(h, S) ==
  /\ transport = "up"
  /\ S # {}
  /\ held' = held \ S
  /\ events' = Append(events, Completed(h, S))
  /\ UNCHANGED <<queue, phase, transport, live, owed, unpolled, next, counters>>

\* The transport ends or fails.
TransportFails ==
  /\ transport = "up"
  /\ transport' = "failed"
  /\ UNCHANGED <<queue, phase, live, held, events, owed, unpolled, next, counters>>

PollAny ==
  \/ PollNotReady
  \/ OnConnected
  \/ OnCompleted
  \/ OnDisconnected
  \/ OnResetDone
  \/ OnBufferSize

Transmit == \E h \in Handles : \E S \in SUBSET Of(h, held) : Complete(h, S)

Next ==
  \/ \E h \in Handles, n \in 1..MaxFragments : Send(h, n)
  \/ \E n \in 1..Buffers : Configure(n)
  \/ PollAny
  \/ Reset
  \/ TransportLost
  \/ \E h \in Handles : Connect(h)
  \/ \E h \in Handles : Disconnect(h)
  \/ Transmit
  \/ TransportFails

Spec == Init /\ [][Next]_vars

\* The host loop keeps polling and notices a transport that ended; the controller
\* keeps transmitting.
FairSpec == Spec /\ WF_vars(PollAny) /\ WF_vars(TransportLost) /\ WF_vars(Transmit)

-----------------------------------------------------------------------------
\* The counters of `DataPacketQueue` are naturals (`usize`) and its window is not
\* zero, as `DataPacketQueue::new` demands.
TypeOK ==
  /\ waiting \subseteq Packet /\ owed \subseteq Packet /\ held \subseteq Packet
  /\ maxInFlight \in Nat \ {0}
  /\ inFlight \in Nat /\ queued \in Nat /\ completed \in Nat /\ next \in Nat
  /\ perConnection \in [Handles -> Nat]
  /\ live \subseteq Handles
  /\ phase \in {"resetting", "discovering", "running"}
  /\ transport \in {"up", "failed", "lost"}

\* The counters of the queue agree with each other and with what was handed
\* over, so no `usize` subtraction of `pending`, `flush` or
\* `on_packets_completed` underflows and no slot leaks.
Accounting ==
  /\ queued = completed + Cardinality(waiting) + inFlight
  /\ inFlight = Cardinality(owed)
  /\ \A h \in Handles : perConnection[h] = Cardinality(Of(h, owed))

\* The controller never holds more packets than it has buffers, whatever the
\* order in which completions, disconnections and resets reach the host.
BuffersRespected == Cardinality(held) <= Buffers

\* A slot stays free while packets wait only after DisconnectionComplete, the
\* one handler that frees slots and does not pump the queue.
NoIdleWindow == waiting # {} /\ inFlight < maxInFlight => unpolled

\* Packets in flight that no completion will ever name: an external transport
\* took them for a handle without a link.
Stray ==
  {p \in owed : p \notin held /\ \A i \in DOMAIN events : p \notin events[i].of}

\* Packets never wait for ever behind a window the controller keeps emptying,
\* unless the slots were freed by DisconnectionComplete or are taken by packets
\* written for a handle whose link was gone, which hold them until a flush.
WaitingDrains == waiting # {} ~> (waiting = {} \/ unpolled \/ Stray # {})
=============================================================================

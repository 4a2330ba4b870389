------------------------- MODULE HostDataFlowProofs -------------------------
(***************************************************************************)
(* Proofs that the accounting of the packet queue is exact and that the    *)
(* controller's buffers are never overrun, for every set of handles, every *)
(* buffer count and every bound, when no link comes up before buffer       *)
(* discovery is over (EarlyConnect = FALSE).                               *)
(***************************************************************************)
EXTENDS HostDataFlow, FiniteSetTheorems, SequenceTheorems, TLAPS

Event ==
  [type : {"connected", "disconnected", "completed"}, handle : Handles,
   of : SUBSET Packet]
    \cup [type : {"reset", "buffers"}, of : SUBSET Packet]

Types == TypeOK /\ events \in Seq(Event)

\* The sets behind the counters are finite, and a packet is in one place.
Places ==
  /\ IsFiniteSet(waiting) /\ IsFiniteSet(owed) /\ IsFiniteSet(held)
  /\ waiting \cap owed = {}
  /\ \A p \in waiting \cup owed : p.id < next
  /\ \A i \in DOMAIN events : IsFiniteSet(events[i].of)

\* The window is never exceeded, and is a promise about the controller's
\* buffers once they have been discovered.
Window ==
  /\ inFlight <= maxInFlight
  /\ phase = "running" => maxInFlight <= Buffers
  /\ Cardinality(held) <= Buffers

\* Nothing is connected or held between Reset and buffer discovery.
Discovery == phase # "running" => live = {} /\ held = {}

\* What an event on its way says of packets and links is still so.
EventFits(ev) ==
  /\ ev.type = "completed" =>
       ev.of \subseteq Of(ev.handle, owed) /\ ev.of \cap held = {}
  /\ ev.type = "disconnected" => ev.handle \notin live

\* No packet is completed twice or after the disconnection of its handle.
Apart(ev, later) ==
  /\ (ev.type = "completed" /\ later.type = "completed") => ev.of \cap later.of = {}
  /\ ev.type = "disconnected" => ~IsFor(later, "completed", ev.handle)

\* A completion on its way names packets the queue still counts, once each, and
\* none of them follows the disconnection of its handle.
Deliveries ==
  (phase = "running" /\ transport # "lost") =>
    /\ held \subseteq owed
    /\ \A p \in held : p.handle \in live
    /\ \A i \in DOMAIN events :
         /\ EventFits(events[i])
         /\ \A j \in DOMAIN events : i < j => Apart(events[i], events[j])

\* The answer to Reset is the last event until it is polled, and the answer to
\* Read Buffer Size then is the only one.
Answers ==
  /\ phase = "resetting" =>
       /\ events # <<>>
       /\ events[Len(events)].type = "reset"
       /\ \A i \in 1..(Len(events) - 1) : events[i].type # "reset"
  /\ phase = "discovering" => events = <<BufferSize>>
  /\ phase = "running" =>
       \A i \in DOMAIN events : events[i].type \notin {"reset", "buffers"}

Lost == transport = "lost" => owed = {}

IndInv ==
  Types /\ Accounting /\ Places /\ Window /\ Discovery /\ Deliveries /\ Answers
    /\ Lost

-----------------------------------------------------------------------------
(* Cardinalities *)

\* Taking a subset out of a finite set, as the queue does with the packets it
\* hands over, completes or flushes.
LEMMA CardinalityMinus ==
  ASSUME NEW S, IsFiniteSet(S), NEW T, T \subseteq S
  PROVE  /\ IsFiniteSet(T) /\ IsFiniteSet(S \ T)
         /\ Cardinality(S) \in Nat /\ Cardinality(T) \in Nat
         /\ Cardinality(T) <= Cardinality(S)
         /\ Cardinality(S \ T) = Cardinality(S) - Cardinality(T)
<1>1. IsFiniteSet(T) /\ Cardinality(T) <= Cardinality(S)
  BY FS_Subset
<1>2. S \cap T = T
  OBVIOUS
<1>3. IsFiniteSet(S \ T) /\ Cardinality(S \ T) = Cardinality(S) - Cardinality(S \cap T)
  BY FS_Difference
<1> QED
  BY <1>1, <1>2, <1>3, FS_CardinalityType

\* Adding packets that are not there yet, as `enqueue` and `poll_ready` do.
LEMMA CardinalityPlus ==
  ASSUME NEW S, IsFiniteSet(S), NEW T, IsFiniteSet(T), S \cap T = {}
  PROVE  /\ IsFiniteSet(S \cup T)
         /\ Cardinality(S) \in Nat /\ Cardinality(T) \in Nat
         /\ Cardinality(S \cup T) = Cardinality(S) + Cardinality(T)
<1>1. /\ IsFiniteSet(S \cup T)
      /\ Cardinality(S \cup T) =
           Cardinality(S) + Cardinality(T) - Cardinality(S \cap T)
  BY FS_Union
<1>2. Cardinality(S \cap T) = 0
  BY FS_EmptySet
<1> QED
  BY <1>1, <1>2, FS_CardinalityType

\* `send_l2cap_on_handle` adds as many packets as the PDU has fragments.
LEMMA NewPackets ==
  ASSUME NEW h \in Handles, NEW m \in Nat, NEW n \in Nat
  PROVE  LET new == {[id |-> i, handle |-> h] : i \in m..(m + n - 1)}
         IN  /\ IsFiniteSet(new) /\ new \subseteq Packet
             /\ Cardinality(new) = n
             /\ \A p \in new : p.id >= m /\ p.id < m + n
<1> DEFINE I == m..(m + n - 1)
           new == {[id |-> i, handle |-> h] : i \in I}
           f == [i \in I |-> [id |-> i, handle |-> h]]
<1>1. IsFiniteSet(I) /\ Cardinality(I) = n
  <2>1. m \in Int /\ m + n - 1 \in Int
    OBVIOUS
  <2>2. /\ IsFiniteSet(I)
        /\ Cardinality(I) = IF m > m + n - 1 THEN 0 ELSE (m + n - 1) - m + 1
    BY <2>1, FS_Interval
  <2> QED
    BY <2>2
<1>2. f \in Bijection(I, new)
  BY DEF Bijection, Injection, Surjection, IsInjective
<1>3. IsFiniteSet(new) /\ Cardinality(new) = n
  <2>1. ExistsBijection(I, new)
    BY <1>2 DEF ExistsBijection
  <2> HIDE DEF I, new
  <2> QED
    BY <1>1, <2>1, FS_Bijection
<1>4. new \subseteq Packet
  BY DEF Packet
<1>5. \A p \in new : p.id >= m /\ p.id < m + n
  OBVIOUS
<1> QED
  BY <1>3, <1>4, <1>5

\* Polling an event moves the others one place forward.
LEMMA TailShifts ==
  ASSUME NEW E, NEW q \in Seq(E), q # <<>>
  PROVE  /\ Tail(q) \in Seq(E) /\ Head(q) = q[1] /\ 1 \in DOMAIN q
         /\ \A i \in DOMAIN Tail(q) :
              i \in Nat /\ i + 1 \in DOMAIN q /\ 1 < i + 1 /\ Tail(q)[i] = q[i + 1]
  OBVIOUS

\* A stream is empty exactly when its length is zero.
LEMMA Emptiness ==
  ASSUME NEW E, NEW q \in Seq(E)
  PROVE  Len(q) \in Nat /\ DOMAIN q = 1..Len(q) /\ (q = <<>> <=> Len(q) = 0)
  BY EmptySeq, LenProperties

\* A new event goes behind the others.
LEMMA AppendExtends ==
  ASSUME NEW E, NEW q \in Seq(E), NEW x \in E
  PROVE  LET r == Append(q, x) IN
         /\ r \in Seq(E) /\ r # <<>> /\ Len(r) = Len(q) + 1 /\ r[Len(r)] = x
         /\ \A i \in DOMAIN r :
              i \in Nat /\ ((i \in DOMAIN q /\ r[i] = q[i] /\ i < Len(r)) \/ (i = Len(r) /\ r[i] = x))
  OBVIOUS

\* The packets `flush_acl_queue` hands over move from the waiting ones to the
\* owed ones, one slot each, and never fill more than the window.
LEMMA PumpKeeps ==
  ASSUME NEW w \in SUBSET Packet, IsFiniteSet(w),
         NEW debt \in SUBSET Packet, IsFiniteSet(debt), w \cap debt = {},
         maxInFlight \in Nat,
         NEW flying, flying = Cardinality(debt), flying <= maxInFlight,
         NEW pc \in [Handles -> Nat],
         \A h \in Handles : pc[h] = Cardinality(Of(h, debt)),
         NEW done \in Nat,
         Pump(w, flying, pc, done, debt)
  PROVE  /\ waiting' \subseteq w /\ IsFiniteSet(waiting')
         /\ debt \subseteq owed' /\ owed' \subseteq debt \cup w
         /\ IsFiniteSet(owed') /\ waiting' \cap owed' = {}
         /\ inFlight' \in Nat /\ inFlight' = Cardinality(owed')
         /\ inFlight' <= maxInFlight
         /\ perConnection' \in [Handles -> Nat]
         /\ \A h \in Handles : perConnection'[h] = Cardinality(Of(h, owed'))
         /\ completed' \in Nat
         /\ completed' + Cardinality(waiting') + inFlight' =
              done + Cardinality(w) + flying
         /\ held' \subseteq held \cup (owed' \cap w)
         /\ \A p \in held' \ held : p.handle \in live
         /\ transport # "up" => owed' = debt /\ held' = held
<1>1. PICK taken \in SUBSET w :
        LET sent == {p \in taken : Accepts(p.handle)} IN
        /\ taken # {} => \E p \in taken :
             /\ \A q \in taken : q.id <= p.id
             /\ HasRoom(flying + Cardinality(sent \ {p}))
        /\ waiting' = w \ taken
        /\ inFlight' = flying + Cardinality(sent)
        /\ perConnection' = [h \in Handles |-> pc[h] + Cardinality(Of(h, sent))]
        /\ completed' = done + (Cardinality(taken) - Cardinality(sent))
        /\ held' = held \cup {p \in sent : p.handle \in live}
        /\ owed' = debt \cup sent
  BY DEF Pump
<1> DEFINE sent == {p \in taken : Accepts(p.handle)}
<1>2. /\ IsFiniteSet(taken) /\ IsFiniteSet(w \ taken) /\ Cardinality(w) \in Nat
      /\ Cardinality(taken) \in Nat /\ Cardinality(taken) <= Cardinality(w)
      /\ Cardinality(w \ taken) = Cardinality(w) - Cardinality(taken)
  BY CardinalityMinus
<1>3. sent \subseteq taken
  OBVIOUS
<1>4. transport # "up" => sent = {}
  BY DEF Accepts
<1>5. waiting' = w \ taken /\ owed' = debt \cup sent
  BY <1>1
<1>6. inFlight' = flying + Cardinality(sent)
  BY <1>1
<1>7. completed' = done + (Cardinality(taken) - Cardinality(sent))
  BY <1>1
<1>8. perConnection' = [h \in Handles |-> pc[h] + Cardinality(Of(h, sent))]
  BY <1>1
<1>9. held' = held \cup {p \in sent : p.handle \in live}
  BY <1>1
<1>10. taken # {} => \E p \in taken : HasRoom(flying + Cardinality(sent \ {p}))
  BY <1>1
<1> HIDE DEF sent
<1>11. IsFiniteSet(sent) /\ Cardinality(sent) \in Nat /\ Cardinality(sent) <= Cardinality(taken)
  BY <1>2, <1>3, CardinalityMinus
<1>12. debt \cap sent = {}
  BY <1>3
<1>13. /\ IsFiniteSet(debt \cup sent) /\ Cardinality(debt) \in Nat
       /\ Cardinality(debt \cup sent) = Cardinality(debt) + Cardinality(sent)
  BY <1>11, <1>12, CardinalityPlus
<1>14. inFlight' <= maxInFlight
  <2>1. CASE taken = {}
    <3>1. Cardinality(sent) = 0
      BY <1>3, <2>1, FS_EmptySet
    <3> QED
      BY <3>1, <1>6, <1>13
  <2>2. CASE taken # {}
    <3>1. PICK p \in taken : flying + Cardinality(sent \ {p}) < maxInFlight
      BY <1>10, <2>2 DEF HasRoom
    <3>2. /\ IsFiniteSet(sent \ {p})
          /\ Cardinality(sent \ {p}) =
               IF p \in sent THEN Cardinality(sent) - 1 ELSE Cardinality(sent)
      BY <1>11, FS_RemoveElement
    <3> QED
      BY <3>1, <3>2, <1>6, <1>11, <1>13
  <2> QED
    BY <2>1, <2>2
<1>15. ASSUME NEW h \in Handles
       PROVE  /\ perConnection'[h] \in Nat
              /\ perConnection'[h] = Cardinality(Of(h, owed'))
  <2>1. Of(h, debt) \subseteq debt /\ Of(h, sent) \subseteq sent
    BY DEF Of
  <2>2. IsFiniteSet(Of(h, debt)) /\ IsFiniteSet(Of(h, sent))
    BY <2>1, <1>11, FS_Subset
  <2>3. Of(h, debt) \cap Of(h, sent) = {}
    BY <2>1, <1>12
  <2>4. /\ Cardinality(Of(h, debt) \cup Of(h, sent)) =
             Cardinality(Of(h, debt)) + Cardinality(Of(h, sent))
        /\ Cardinality(Of(h, sent)) \in Nat
    BY <2>2, <2>3, CardinalityPlus
  <2>5. Of(h, owed') = Of(h, debt) \cup Of(h, sent)
    BY <1>5 DEF Of
  <2>6. perConnection'[h] = pc[h] + Cardinality(Of(h, sent))
    BY <1>8
  <2> QED
    BY <2>4, <2>5, <2>6
<1>16. perConnection' \in [Handles -> Nat]
  BY <1>8, <1>15
<1>17. waiting' \cap owed' = {}
  BY <1>3, <1>5
<1>18. completed' \in Nat
  BY <1>2, <1>7, <1>11
<1>19. completed' + Cardinality(waiting') + inFlight' = done + Cardinality(w) + flying
  BY <1>2, <1>5, <1>6, <1>7, <1>11, <1>13
<1>20. inFlight' \in Nat /\ inFlight' = Cardinality(owed')
  BY <1>5, <1>6, <1>11, <1>13
<1>21. /\ held' \subseteq held \cup (owed' \cap w)
       /\ \A p \in held' \ held : p.handle \in live
  BY <1>3, <1>5, <1>9
<1>22. transport # "up" => owed' = debt /\ held' = held
  BY <1>4, <1>5, <1>9 DEF sent
<1>23. /\ waiting' \subseteq w /\ IsFiniteSet(waiting')
       /\ debt \subseteq owed' /\ owed' \subseteq debt \cup w /\ IsFiniteSet(owed')
  BY <1>2, <1>3, <1>5, <1>13
<1> QED
  BY <1>14, <1>15, <1>16, <1>17, <1>18, <1>19, <1>20, <1>21, <1>22, <1>23

-----------------------------------------------------------------------------
(* The inductive invariant *)

\* The initial state satisfies the inductive invariant.
LEMMA InitIndInv == Init => IndInv
<1> SUFFICES ASSUME Init PROVE IndInv
  OBVIOUS
<1>1. Cardinality({}) = 0 /\ IsFiniteSet({})
  BY FS_EmptySet
<1>2. \A h \in Handles : Of(h, owed) = {} /\ perConnection[h] = 0
  BY DEF Init, Of, NoneInFlight
<1>3. Types
  BY FlowAssumption DEF Init, Types, TypeOK, NoneInFlight
<1>4. Accounting
  <2>1. /\ queued = 0 /\ completed = 0 /\ inFlight = 0
        /\ Cardinality(waiting) = 0 /\ Cardinality(owed) = 0
    BY <1>1 DEF Init
  <2>2. \A h \in Handles : perConnection[h] = Cardinality(Of(h, owed))
    BY <1>1, <1>2
  <2> QED
    BY <2>1, <2>2 DEF Accounting
<1>5. Places /\ Window /\ Discovery /\ Deliveries /\ Answers /\ Lost
  BY <1>1, FlowAssumption
  DEF Init, Places, Window, Discovery, Deliveries, EventFits, Apart, Answers, Lost
<1> QED
  BY <1>3, <1>4, <1>5 DEF IndInv

\* A step that pumps the queue after adding new packets to the waiting ones, or
\* after taking completed packets out of the owed ones, keeps the parts of the
\* invariant that are about packets.
LEMMA PumpInv ==
  ASSUME IndInv,
         NEW w \in SUBSET Packet, IsFiniteSet(w), w \cap owed = {},
         NEW debt \in SUBSET owed,
         held \subseteq debt \/ transport = "lost" \/ phase # "running",
         NEW pc \in [Handles -> Nat],
         \A h \in Handles : pc[h] = Cardinality(Of(h, debt)),
         NEW done \in Nat,
         queued' \in Nat,
         queued' = done + Cardinality(w) + Cardinality(debt),
         Pump(w, Cardinality(debt), pc, done, debt),
         \A p \in w \cup owed : p.id < next',
         next' \in Nat,
         UNCHANGED <<maxInFlight, phase, transport, live>>,
         events' = events \/ (events # <<>> /\ events' = Tail(events))
  PROVE  /\ TypeOK' /\ Accounting' /\ Places' /\ Window' /\ Lost'
         /\ debt \subseteq owed'
         /\ held' \subseteq held \cup w
         /\ (phase = "running" /\ transport # "lost") =>
              held' \subseteq owed' /\ \A p \in held' : p.handle \in live
         /\ phase # "running" => held' = {}
<1>1. /\ Types /\ Accounting /\ Places /\ Window /\ Discovery /\ Deliveries
      /\ Answers /\ Lost
  BY DEF IndInv
<1>2. TypeOK
  BY <1>1 DEF Types
<1>3. /\ IsFiniteSet(debt) /\ Cardinality(debt) \in Nat
      /\ Cardinality(debt) <= Cardinality(owed)
  BY <1>1, CardinalityMinus DEF Places
<1>4. /\ debt \in SUBSET Packet /\ w \cap debt = {} /\ maxInFlight \in Nat
      /\ Cardinality(debt) <= maxInFlight
  BY <1>1, <1>2, <1>3 DEF TypeOK, Accounting, Window
<1>5. /\ waiting' \subseteq w /\ IsFiniteSet(waiting')
      /\ debt \subseteq owed' /\ owed' \subseteq debt \cup w
      /\ IsFiniteSet(owed') /\ waiting' \cap owed' = {}
      /\ inFlight' \in Nat /\ inFlight' = Cardinality(owed')
      /\ inFlight' <= maxInFlight
      /\ perConnection' \in [Handles -> Nat]
      /\ \A h \in Handles : perConnection'[h] = Cardinality(Of(h, owed'))
      /\ completed' \in Nat
      /\ completed' + Cardinality(waiting') + inFlight' =
           done + Cardinality(w) + Cardinality(debt)
      /\ held' \subseteq held \cup (owed' \cap w)
      /\ \A p \in held' \ held : p.handle \in live
      /\ transport # "up" => owed' = debt /\ held' = held
  BY <1>3, <1>4, PumpKeeps
<1>6. UNCHANGED <<phase, maxInFlight, transport, live>>
  OBVIOUS
<1>7. TypeOK'
  BY <1>2, <1>4, <1>5, <1>6 DEF TypeOK
<1>8. Accounting'
  <2>1. queued' = completed' + Cardinality(waiting') + inFlight'
    BY <1>5
  <2>2. \A h \in Handles : perConnection'[h] = Cardinality(Of(h, owed'))
    BY <1>5
  <2> QED
    BY <2>1, <2>2, <1>5 DEF Accounting, Of
<1>9. Places'
  <2>1. IsFiniteSet(held \cup owed')
    BY <1>1, <1>5, FS_Union DEF Places
  <2>2. IsFiniteSet(held')
    BY <2>1, <1>5, FS_Subset
  <2>3. \A i \in DOMAIN events' : IsFiniteSet(events'[i].of)
    <3>1. CASE events' = events
      BY <3>1, <1>1 DEF Places
    <3>2. CASE events # <<>> /\ events' = Tail(events)
      BY <3>2, <1>1, TailShifts DEF Places, Types
    <3> QED
      BY <3>1, <3>2
  <2> QED
    BY <2>2, <2>3, <1>5 DEF Places
<1>10. (phase = "running" /\ transport # "lost") =>
         held' \subseteq owed' /\ \A p \in held' : p.handle \in live
  BY <1>1, <1>5 DEF Deliveries, EventFits, Apart
<1>11. Cardinality(held') <= Buffers
  <2>1. CASE transport # "up"
    BY <2>1, <1>1, <1>5 DEF Window
  <2>2. CASE transport = "up" /\ phase = "running"
    <3>1. held' \subseteq owed'
      BY <2>2, <1>10
    <3>2. Cardinality(held') <= Cardinality(owed') /\ Cardinality(held') \in Nat
      BY <3>1, <1>5, FS_Subset, FS_CardinalityType
    <3> QED
      BY <3>2, <2>2, <1>1, <1>5, <1>4, FlowAssumption DEF Window
  <2>3. CASE phase # "running"
    <3>1. held' = {}
      BY <2>3, <1>1, <1>5 DEF Discovery
    <3> QED
      BY <3>1, FS_EmptySet, FlowAssumption
  <2> QED
    BY <2>1, <2>2, <2>3
<1>12. Window'
  BY <1>1, <1>5, <1>6, <1>11 DEF Window
<1>13. Lost'
  BY <1>1, <1>5, <1>6 DEF Lost
<1>14. phase # "running" => held' = {}
  BY <1>1, <1>5 DEF Discovery
<1> QED
  BY <1>5, <1>7, <1>8, <1>9, <1>10, <1>12, <1>13, <1>14

\* `send_l2cap_on_handle` keeps the inductive invariant.
LEMMA SendKeeps ==
  ASSUME IndInv, NEW h \in Handles, NEW n \in 1..MaxFragments, Send(h, n)
  PROVE  IndInv'
<1> USE FlowAssumption
<1> DEFINE new == {[id |-> i, handle |-> h] : i \in next..(next + n - 1)}
           w == waiting \cup new
<1>1. /\ Types /\ Accounting /\ Places /\ Window /\ Discovery /\ Deliveries
      /\ Answers /\ Lost
  BY DEF IndInv
<1>2. n \in Nat /\ next \in Nat /\ queued \in Nat
  BY <1>1 DEF Types, TypeOK
<1>3. /\ IsFiniteSet(new) /\ new \subseteq Packet /\ Cardinality(new) = n
      /\ \A p \in new : p.id >= next /\ p.id < next + n
  BY <1>2, NewPackets
<1>4. /\ queued' = queued + n /\ next' = next + n
      /\ Pump(w, inFlight, perConnection, completed, owed)
      /\ UNCHANGED <<maxInFlight, phase, transport, live, events, counters>>
  BY DEF Send
<1> HIDE DEF new
<1>5. waiting \cap new = {} /\ owed \cap new = {}
  BY <1>1, <1>2, <1>3, SMTT(30) DEF Places, Types, TypeOK, Packet
<1>6. /\ IsFiniteSet(w) /\ Cardinality(waiting) \in Nat
      /\ Cardinality(w) = Cardinality(waiting) + n
  BY <1>1, <1>3, <1>5, CardinalityPlus DEF Places
<1>7. w \in SUBSET Packet /\ w \cap owed = {}
  BY <1>1, <1>3, <1>5 DEF Places, Types, TypeOK
<1>8. \A p \in w \cup owed : p.id < next'
  BY <1>1, <1>2, <1>3, <1>4 DEF Places, Types, TypeOK, Packet
<1> HIDE DEF w
<1>10. /\ held \subseteq owed \/ transport = "lost" \/ phase # "running"
       /\ perConnection \in [Handles -> Nat] /\ completed \in Nat
       /\ \A g \in Handles : perConnection[g] = Cardinality(Of(g, owed))
       /\ inFlight = Cardinality(owed)
  BY <1>1 DEF Deliveries, EventFits, Apart, Types, TypeOK, Accounting
<1>11. queued' = completed + Cardinality(w) + Cardinality(owed)
  BY <1>1, <1>2, <1>4, <1>6, <1>10 DEF Accounting, Types, TypeOK
<1>12. /\ TypeOK' /\ Accounting' /\ Places' /\ Window' /\ Lost'
       /\ owed \subseteq owed'
       /\ held' \subseteq held \cup w
       /\ (phase = "running" /\ transport # "lost") =>
            held' \subseteq owed' /\ \A p \in held' : p.handle \in live
       /\ phase # "running" => held' = {}
  BY <1>2, <1>4, <1>6, <1>7, <1>8, <1>10, <1>11, PumpInv
<1>13. UNCHANGED <<phase, transport, live, events>>
  BY <1>4
<1>14. Types'
  BY <1>1, <1>12, <1>13 DEF Types
<1>15. Deliveries'
  <2> SUFFICES ASSUME phase = "running", transport # "lost" PROVE Deliveries'
    BY <1>13 DEF Deliveries, EventFits, Apart
  <2>1. held' \subseteq owed' /\ \A p \in held' : p.handle \in live'
    BY <1>12, <1>13
  <2>2. \A i \in DOMAIN events : events[i].type = "completed" =>
          events[i].of \subseteq Of(events[i].handle, owed') /\ events[i].of \cap held' = {}
    BY <1>1, <1>7, <1>12 DEF Deliveries, EventFits, Apart, Of
  <2> QED
    BY <2>1, <2>2, <1>1, <1>13 DEF Deliveries, EventFits, Apart, IsFor, Of
<1>16. Discovery' /\ Answers'
  BY <1>1, <1>12, <1>13 DEF Discovery, Answers
<1> QED
  BY <1>12, <1>14, <1>15, <1>16 DEF IndInv

\* NumberOfCompletedPackets keeps the inductive invariant.
LEMMA CompletedKeeps ==
  ASSUME IndInv, OnCompleted
  PROVE  IndInv'
<1> USE FlowAssumption
<1>1. /\ Types /\ Accounting /\ Places /\ Window /\ Discovery /\ Deliveries
      /\ Answers /\ Lost
  BY DEF IndInv
<1>2. TypeOK /\ events \in Seq(Event)
  BY <1>1, SMTT(30) DEF Types
<1> DEFINE e == Head(events)
           h == e.handle
           S == e.of
           n == Released(perConnection[h], Cardinality(S))
           pc == [perConnection EXCEPT ![h] = @ - n]
<1>3. /\ events # <<>> /\ phase # "resetting" /\ e.type = "completed"
      /\ events' = Tail(events)
      /\ Pump(waiting, inFlight - n, pc, completed + n, owed \ S)
      /\ UNCHANGED <<maxInFlight, queued, phase, transport, live, next, counters>>
  BY DEF OnCompleted, Poll
<1>4. e \in Event /\ e = events[1] /\ 1 \in DOMAIN events
  BY <1>2, <1>3
<1>5. h \in Handles /\ S \subseteq Packet
  BY <1>3, <1>4 DEF Event
<1>6. phase = "running"
  BY <1>1, <1>3, <1>4 DEF Answers, BufferSize, TypeOK, Types
<1>7. S \subseteq Of(h, owed) \/ owed = {}
  BY <1>1, <1>3, <1>4, <1>6 DEF Deliveries, EventFits, Apart, Lost
<1>8. /\ IsFiniteSet(Of(h, owed)) /\ perConnection[h] = Cardinality(Of(h, owed))
      /\ perConnection[h] \in Nat
  <2>1. Of(h, owed) \subseteq owed
    BY SMTT(30) DEF Of
  <2> QED
    BY <2>1, <1>1, <1>2, <1>5, FS_Subset DEF Places, Accounting, TypeOK
<1>9. /\ n \in Nat /\ n <= perConnection[h]
      /\ n = Cardinality(owed \cap S)
      /\ Cardinality(owed \ S) = Cardinality(owed) - n
      /\ IsFiniteSet(owed \ S) /\ Cardinality(owed) \in Nat
  <2>1. CASE S \subseteq Of(h, owed)
    <3>1. IsFiniteSet(S) /\ Cardinality(S) <= perConnection[h] /\ Cardinality(S) \in Nat
      BY <2>1, <1>8, FS_Subset, FS_CardinalityType
    <3>2. n = Cardinality(S)
      BY <3>1, <1>8 DEF Released
    <3>3. S \subseteq owed /\ owed \cap S = S
      BY <2>1 DEF Of
    <3>4. /\ Cardinality(owed \ S) = Cardinality(owed) - Cardinality(S)
          /\ IsFiniteSet(owed \ S) /\ Cardinality(owed) \in Nat
      BY <3>3, <1>1, CardinalityMinus DEF Places
    <3> QED
      BY <3>1, <3>2, <3>3, <3>4
  <2>2. CASE owed = {}
    <3>1. Of(h, owed) = {} /\ owed \ S = {} /\ owed \cap S = {}
      BY <2>2 DEF Of
    <3>2. Cardinality({}) = 0 /\ IsFiniteSet({})
      BY FS_EmptySet
    <3>3. perConnection[h] = 0
      BY <3>1, <3>2, <1>8
    <3>4. Cardinality(S) \in Nat
      BY <1>1, <1>4, FS_CardinalityType DEF Places
    <3>5. n = 0
      BY <3>3, <3>4 DEF Released
    <3> QED
      BY <3>1, <3>2, <3>3, <3>5, <2>2
  <2> QED
    BY <2>1, <2>2, <1>7
<1>10. pc \in [Handles -> Nat] /\ \A g \in Handles : pc[g] = Cardinality(Of(g, owed \ S))
  <2>1. ASSUME NEW g \in Handles PROVE pc[g] \in Nat /\ pc[g] = Cardinality(Of(g, owed \ S))
    <3>1. CASE g = h
      <4>1. Of(h, owed \ S) = Of(h, owed) \ (owed \cap S)
        BY DEF Of
      <4>2. owed \cap S \subseteq Of(h, owed)
        BY <1>7 DEF Of
      <4>3. Cardinality(Of(h, owed) \ (owed \cap S)) =
              Cardinality(Of(h, owed)) - Cardinality(owed \cap S)
        BY <4>2, <1>8, CardinalityMinus
      <4>4. pc[h] = perConnection[h] - n
        BY <1>2, <1>5 DEF TypeOK
      <4> HIDE DEF pc, n, S, h, e
      <4>5. Cardinality(Of(h, owed \ S)) = perConnection[h] - n
        BY <4>1, <4>3, <1>8, <1>9, Zenon
      <4>6. pc[h] \in Nat
        BY <4>4, <1>8, <1>9
      <4> QED
        BY <3>1, <4>4, <4>5, <4>6, Zenon
    <3>2. CASE g # h
      <4>1. Of(g, owed \ S) = Of(g, owed)
        BY <3>2, <1>7 DEF Of
      <4>2. pc[g] = perConnection[g]
        BY <3>2, <1>2, <1>5 DEF TypeOK
      <4> QED
        BY <4>1, <4>2, <1>1, <1>2 DEF Accounting, TypeOK
    <3> QED
      BY <3>1, <3>2
  <2> QED
    BY <2>1, <1>2 DEF TypeOK
<1>11. inFlight - n = Cardinality(owed \ S)
  BY <1>1, <1>9 DEF Accounting
<1>12. /\ completed + n \in Nat /\ queued' \in Nat /\ next' \in Nat
       /\ queued' = (completed + n) + Cardinality(waiting) + Cardinality(owed \ S)
  <2>1. Cardinality(waiting) \in Nat
    BY <1>1, FS_CardinalityType DEF Places
  <2> QED
    BY <2>1, <1>1, <1>2, <1>3, <1>9, SMTT(30) DEF Accounting, TypeOK
<1>13. /\ waiting \in SUBSET Packet /\ IsFiniteSet(waiting) /\ waiting \cap owed = {}
       /\ owed \ S \in SUBSET owed
       /\ \A p \in waiting \cup owed : p.id < next'
  BY <1>1, <1>2, <1>3 DEF Places, TypeOK
<1>14. held \subseteq owed \ S \/ transport = "lost" \/ phase # "running"
  BY <1>1, <1>3, <1>4, SMTT(30) DEF Deliveries, EventFits, Apart
<1>15. Pump(waiting, Cardinality(owed \ S), pc, completed + n, owed \ S)
  BY <1>3, <1>11
<1> HIDE DEF pc, n, S, h, e
<1>16. /\ TypeOK' /\ Accounting' /\ Places' /\ Window' /\ Lost'
       /\ owed \ S \subseteq owed'
       /\ held' \subseteq held \cup waiting
       /\ (phase = "running" /\ transport # "lost") =>
            held' \subseteq owed' /\ \A p \in held' : p.handle \in live
  BY <1>3, <1>6, <1>10, <1>12, <1>13, <1>14, <1>15, PumpInv
<1>17. UNCHANGED <<phase, transport, live>> /\ events' = Tail(events)
  BY <1>3
<1>18. Types'
  BY <1>2, <1>3, <1>16 DEF Types
<1>19. Deliveries'
  <2> SUFFICES ASSUME transport # "lost" PROVE Deliveries'
    BY <1>17 DEF Deliveries, EventFits, Apart
  <2>1. held' \subseteq owed' /\ \A p \in held' : p.handle \in live'
    BY <1>6, <1>16, <1>17
  <2>2. \A i \in DOMAIN events' : events'[i] = events[i + 1] /\ i + 1 \in DOMAIN events
                                 /\ i \in Nat /\ 1 < i + 1
    BY <1>2, <1>3
  <2>3. \A i \in DOMAIN events' : events'[i].type = "completed" =>
          /\ events'[i].of \subseteq Of(events'[i].handle, owed')
          /\ events'[i].of \cap held' = {}
    <3> SUFFICES ASSUME NEW i \in DOMAIN events', events'[i].type = "completed"
                 PROVE  /\ events'[i].of \subseteq Of(events'[i].handle, owed')
                        /\ events'[i].of \cap held' = {}
      OBVIOUS
    <3> DEFINE d == events[i + 1]
    <3>1. d = events'[i] /\ i + 1 \in DOMAIN events /\ 1 < i + 1
      BY <2>2
    <3>2. d.of \subseteq Of(d.handle, owed) /\ d.of \cap held = {} /\ S \cap d.of = {}
      BY <3>1, <1>1, <1>3, <1>4, <1>6 DEF Deliveries, EventFits, Apart, S
    <3>3. d.of \subseteq Of(d.handle, owed')
      BY <3>2, <1>16 DEF Of
    <3>4. d.of \cap held' = {}
      BY <3>2, <1>13, <1>16 DEF Of
    <3> QED
      BY <3>1, <3>3, <3>4
  <2>4. \A i \in DOMAIN events' :
          events'[i].type = "disconnected" => events'[i].handle \notin live
    BY <2>2, <1>1, <1>6 DEF Deliveries, EventFits, Apart
  <2>5. \A i, j \in DOMAIN events' : i < j =>
          /\ (events'[i].type = "completed" /\ events'[j].type = "completed") =>
               events'[i].of \cap events'[j].of = {}
          /\ events'[i].type = "disconnected" =>
               ~IsFor(events'[j], "completed", events'[i].handle)
    <3> SUFFICES ASSUME NEW i \in DOMAIN events', NEW j \in DOMAIN events', i < j
                 PROVE  /\ (events'[i].type = "completed" /\ events'[j].type = "completed") =>
                             events'[i].of \cap events'[j].of = {}
                        /\ events'[i].type = "disconnected" =>
                             ~IsFor(events'[j], "completed", events'[i].handle)
      OBVIOUS
    <3>1. i + 1 < j + 1 /\ i + 1 \in DOMAIN events /\ j + 1 \in DOMAIN events
      BY <2>2
    <3> QED
      BY <3>1, <2>2, <1>1, <1>6 DEF Deliveries, EventFits, Apart
  <2> QED
    BY <2>1, <2>3, <2>4, <2>5, <1>17 DEF Deliveries, EventFits, Apart, IsFor, Of
<1>20. Discovery' /\ Answers'
  BY <1>1, <1>2, <1>3, <1>6, <1>17, TailShifts DEF Discovery, Answers
<1> QED
  BY <1>16, <1>18, <1>19, <1>20 DEF IndInv

\* DisconnectionComplete keeps the inductive invariant.
LEMMA DisconnectedKeeps ==
  ASSUME IndInv, OnDisconnected
  PROVE  IndInv'
<1> USE FlowAssumption
<1>1. /\ Types /\ Accounting /\ Places /\ Window /\ Discovery /\ Deliveries
      /\ Answers /\ Lost
  BY DEF IndInv
<1>2. TypeOK /\ events \in Seq(Event)
  BY <1>1 DEF Types
<1> DEFINE h == Head(events).handle
           dropped == Of(h, waiting)
<1>3. /\ events # <<>> /\ phase # "resetting" /\ Head(events).type = "disconnected"
      /\ events' = Tail(events)
      /\ waiting' = waiting \ dropped
      /\ inFlight' = inFlight - perConnection[h]
      /\ perConnection' = [perConnection EXCEPT ![h] = 0]
      /\ completed' = completed + Cardinality(dropped) + perConnection[h]
      /\ owed' = owed \ Of(h, owed)
      /\ UNCHANGED <<maxInFlight, queued, phase, transport, live, held, next>>
  BY DEF OnDisconnected, FlushReleases, Poll
<1>4. /\ events' \in Seq(Event) /\ Head(events) = events[1] /\ 1 \in DOMAIN events
      /\ \A i \in DOMAIN events' :
           i \in Nat /\ i + 1 \in DOMAIN events /\ 1 < i + 1 /\ events'[i] = events[i + 1]
  BY <1>2, <1>3, TailShifts
<1>5. h \in Handles
  BY <1>2, <1>3 DEF Event
<1>6. phase = "running"
  BY <1>1, <1>2, <1>3, <1>4 DEF Answers, BufferSize, TypeOK
<1> HIDE DEF h
<1>7. dropped \subseteq waiting /\ Of(h, owed) \subseteq owed
  BY DEF Of
<1>8. /\ Cardinality(waiting) \in Nat /\ Cardinality(dropped) \in Nat
      /\ Cardinality(waiting') = Cardinality(waiting) - Cardinality(dropped)
      /\ IsFiniteSet(waiting')
  BY <1>1, <1>3, <1>7, CardinalityMinus DEF Places
<1>9. /\ Cardinality(owed) \in Nat /\ perConnection[h] = Cardinality(Of(h, owed))
      /\ perConnection[h] \in Nat /\ perConnection[h] <= Cardinality(owed)
      /\ Cardinality(owed') = Cardinality(owed) - perConnection[h]
      /\ IsFiniteSet(owed')
  <2>1. IsFiniteSet(owed) /\ owed' = owed \ Of(h, owed)
    BY <1>1, <1>3, <1>5 DEF Places
  <2>2. perConnection[h] = Cardinality(Of(h, owed))
    BY <1>1, <1>5 DEF Accounting
  <2> QED
    BY <2>1, <2>2, <1>7, CardinalityMinus
<1>10. \A g \in Handles :
         perConnection'[g] \in Nat /\ perConnection'[g] = Cardinality(Of(g, owed'))
  <2> SUFFICES ASSUME NEW g \in Handles
               PROVE  perConnection'[g] \in Nat /\ perConnection'[g] = Cardinality(Of(g, owed'))
    OBVIOUS
  <2>1. CASE g = h
    <3>1. Of(h, owed') = {}
      BY <1>3 DEF Of
    <3>2. perConnection'[h] = 0
      BY <1>2, <1>3, <1>5 DEF TypeOK
    <3> QED
      BY <2>1, <3>1, <3>2, FS_EmptySet
  <2>2. CASE g # h
    <3>1. Of(g, owed') = Of(g, owed)
      BY <2>2, <1>3 DEF Of
    <3>2. perConnection'[g] = perConnection[g]
      BY <2>2, <1>2, <1>3, <1>5 DEF TypeOK
    <3> QED
      BY <3>1, <3>2, <1>1, <1>2 DEF Accounting, TypeOK
  <2> QED
    BY <2>1, <2>2
<1>11. Types'
  <2>1. inFlight' \in Nat /\ completed' \in Nat
    <3>1. inFlight = Cardinality(owed) /\ completed \in Nat
      BY <1>1, <1>2 DEF Accounting, TypeOK
    <3> QED
      BY <3>1, <1>3, <1>8, <1>9
  <2>2. perConnection' \in [Handles -> Nat]
    BY <1>2, <1>3, <1>10 DEF TypeOK
  <2> QED
    BY <2>1, <2>2, <1>2, <1>3, <1>4 DEF Types, TypeOK
<1>12. Accounting'
  <2>1. queued' = completed' + Cardinality(waiting') + inFlight'
    BY <1>1, <1>2, <1>3, <1>8, <1>9, SMTT(30) DEF Accounting, TypeOK
  <2>2. inFlight' = Cardinality(owed')
    BY <1>1, <1>3, <1>9 DEF Accounting
  <2> QED
    BY <2>1, <2>2, <1>10 DEF Accounting, Of
<1>13. Places'
  BY <1>1, <1>3, <1>4, <1>7, <1>8, <1>9 DEF Places
<1>14. Window'
  BY <1>1, <1>2, <1>3, <1>9 DEF Window, Accounting, TypeOK
<1>15. Deliveries'
  <2> SUFFICES ASSUME transport # "lost" PROVE Deliveries'
    BY <1>3 DEF Deliveries, EventFits, Apart
  <2>1. h \notin live
    BY <1>1, <1>3, <1>4, <1>6 DEF Deliveries, EventFits, Apart, h
  <2>2. held' \subseteq owed' /\ \A p \in held' : p.handle \in live'
    BY <2>1, <1>1, <1>3, <1>6 DEF Deliveries, EventFits, Apart, Of
  <2>3. \A i \in DOMAIN events' : ~IsFor(events'[i], "completed", h)
    BY <1>1, <1>3, <1>4, <1>6 DEF Deliveries, EventFits, Apart, h
  <2>4. ASSUME NEW i \in DOMAIN events', events'[i].type = "completed"
        PROVE  /\ events'[i].of \subseteq Of(events'[i].handle, owed')
               /\ events'[i].of \cap held' = {}
    <3>1. /\ events'[i].of \subseteq Of(events'[i].handle, owed)
          /\ events'[i].of \cap held = {}
      BY <2>4, <1>1, <1>4, <1>6 DEF Deliveries, EventFits, Apart
    <3>2. events'[i].handle # h
      BY <2>3, <2>4 DEF IsFor
    <3>3. events'[i].of \subseteq Of(events'[i].handle, owed')
      BY <3>1, <3>2, <1>3 DEF Of
    <3> QED
      BY <3>1, <3>3, <1>3
  <2>5. \A i \in DOMAIN events' :
          events'[i].type = "disconnected" => events'[i].handle \notin live
    BY <1>1, <1>4, <1>6 DEF Deliveries, EventFits, Apart
  <2>6. ASSUME NEW i \in DOMAIN events', NEW j \in DOMAIN events', i < j
        PROVE  /\ (events'[i].type = "completed" /\ events'[j].type = "completed") =>
                    events'[i].of \cap events'[j].of = {}
               /\ events'[i].type = "disconnected" =>
                    ~IsFor(events'[j], "completed", events'[i].handle)
    <3>1. i + 1 < j + 1 /\ i + 1 \in DOMAIN events /\ j + 1 \in DOMAIN events
      BY <2>6, <1>4
    <3> QED
      BY <3>1, <1>1, <1>4, <1>6 DEF Deliveries, EventFits, Apart
  <2> QED
    BY <2>2, <2>4, <2>5, <2>6, <1>3 DEF Deliveries, EventFits, Apart, IsFor, Of
<1>16. Discovery' /\ Answers'
  BY <1>1, <1>3, <1>4, <1>6 DEF Discovery, Answers
<1>17. Lost'
  BY <1>1, <1>3 DEF Lost
<1> QED
  BY <1>11, <1>12, <1>13, <1>14, <1>15, <1>16, <1>17 DEF IndInv

\* What a fresh or emptied queue satisfies.
LEMMA EmptyQueue ==
  ASSUME waiting' = {}, inFlight' = 0, perConnection' = NoneInFlight, owed' = {},
         queued' = completed', completed' \in Nat
  PROVE  Accounting' /\ perConnection' \in [Handles -> Nat] /\ IsFiniteSet({})
<1>1. Cardinality({}) = 0 /\ IsFiniteSet({})
  BY FS_EmptySet
<1>2. \A h \in Handles : Of(h, owed') = {} /\ perConnection'[h] = 0
  BY DEF Of, NoneInFlight
<1>3. Cardinality(waiting') = 0 /\ Cardinality(owed') = 0
  BY <1>1
<1>4. \A h \in Handles : perConnection'[h] = Cardinality(Of(h, owed'))
  BY <1>1, <1>2
<1>5. inFlight' = Cardinality(owed')
  BY <1>3
<1> QED
  BY <1>1, <1>3, <1>4, <1>5 DEF Accounting, Of, NoneInFlight

\* The host steps that start from an empty queue keep the inductive invariant.
LEMMA EmptyingKeeps ==
  ASSUME IndInv,
         \/ \E n \in 1..Buffers : Configure(n)
         \/ Reset
         \/ OnBufferSize
         \/ TransportLost
  PROVE  IndInv'
<1> USE FlowAssumption
<1>1. /\ Types /\ Accounting /\ Places /\ Window /\ Discovery /\ Deliveries
      /\ Answers /\ Lost
  BY DEF IndInv
<1>2. TypeOK /\ events \in Seq(Event)
  BY <1>1 DEF Types
<1>3. ASSUME NEW n \in 1..Buffers, Configure(n) PROVE IndInv'
  <2>1. /\ queued - completed = 0 /\ waiting' = {} /\ maxInFlight' = n /\ inFlight' = 0
        /\ perConnection' = NoneInFlight /\ queued' = 0 /\ completed' = 0
        /\ UNCHANGED <<phase, transport, live, held, events, owed, next>>
    BY <1>3 DEF Configure, NewQueue
  <2>2. Cardinality(waiting) \in Nat /\ Cardinality(owed) \in Nat
    BY <1>1, FS_CardinalityType DEF Places
  <2>3. Cardinality(owed) = 0
    BY <2>1, <2>2, <1>1, <1>2, SMTT(30) DEF Accounting, TypeOK
  <2>4. owed = {}
    BY <2>3, <1>1, FS_EmptySet DEF Places
  <2>5. Accounting' /\ perConnection' \in [Handles -> Nat] /\ IsFiniteSet({})
    BY <2>1, <2>4, EmptyQueue
  <2>6. Types' /\ Window'
    BY <2>1, <2>5, <1>1, <1>2 DEF Types, TypeOK, Window
  <2>7. Places' /\ Discovery' /\ Deliveries' /\ Answers' /\ Lost'
    BY <2>1, <2>4, <2>5, <1>1
    DEF Places, Discovery, Deliveries, EventFits, Apart, Answers, Lost, Of, IsFor
  <2> QED
    BY <2>5, <2>6, <2>7 DEF IndInv
<1>4. ASSUME Reset PROVE IndInv'
  <2>1. /\ waiting' = {} /\ maxInFlight' = DefaultCapacity /\ inFlight' = 0
        /\ perConnection' = NoneInFlight /\ queued' = 0 /\ completed' = 0
        /\ transport = "up" /\ phase # "resetting" /\ phase' = "resetting"
        /\ owed' = {} /\ live' = {} /\ held' = {}
        /\ events' = Append(events, ResetDone)
        /\ UNCHANGED <<transport, next>>
    BY <1>4 DEF Reset, NewQueue
  <2>2. ResetDone \in Event
    BY DEF ResetDone, Event
  <2>3. /\ events' \in Seq(Event) /\ events' # <<>> /\ Len(events') = Len(events) + 1
        /\ events'[Len(events')] = ResetDone
        /\ \A i \in DOMAIN events' :
             i \in Nat /\ ((i \in DOMAIN events /\ events'[i] = events[i] /\ i < Len(events'))
                           \/ (i = Len(events') /\ events'[i] = ResetDone))
    BY <2>1, <2>2, <1>2, AppendExtends
  <2>4. Accounting' /\ perConnection' \in [Handles -> Nat] /\ IsFiniteSet({})
    BY <2>1, EmptyQueue
  <2>5. Types' /\ Discovery' /\ Deliveries' /\ Lost'
    BY <2>1, <2>3, <2>4, <1>2
    DEF Types, TypeOK, Discovery, Deliveries, EventFits, Apart, Lost
  <2>6. Window'
    BY <2>1, FS_EmptySet DEF Window
  <2>7. Places'
    BY <2>1, <2>3, <2>4, <1>1 DEF Places, ResetDone
  <2>8. \A i \in DOMAIN events : events[i].type # "reset"
    BY <2>1, <1>1, <1>2 DEF Answers, TypeOK, BufferSize
  <2>9. Answers'
    <3>1. \A i \in 1..(Len(events') - 1) : events'[i].type # "reset"
      BY <2>3, <2>8, <1>2
    <3> QED
      BY <3>1, <2>1, <2>3 DEF Answers, ResetDone
  <2> QED
    BY <2>4, <2>5, <2>6, <2>7, <2>9 DEF IndInv
<1>5. ASSUME OnBufferSize PROVE IndInv'
  <2>1. /\ waiting' = {} /\ maxInFlight' = Buffers /\ inFlight' = 0
        /\ perConnection' = NoneInFlight /\ queued' = 0 /\ completed' = 0
        /\ events # <<>> /\ phase # "resetting" /\ phase' = "running"
        /\ Head(events).type = "buffers" /\ events' = Tail(events) /\ owed' = {}
        /\ UNCHANGED <<transport, live, held, next>>
    BY <1>5 DEF OnBufferSize, NewQueue, Poll
  <2>2. /\ events' \in Seq(Event) /\ Head(events) = events[1] /\ 1 \in DOMAIN events
        /\ \A i \in DOMAIN events' :
             i \in Nat /\ i + 1 \in DOMAIN events /\ 1 < i + 1 /\ events'[i] = events[i + 1]
    BY <2>1, <1>2, TailShifts
  <2>3. Accounting' /\ perConnection' \in [Handles -> Nat] /\ IsFiniteSet({})
    BY <2>1, EmptyQueue
  <2>4. Types' /\ Window' /\ Lost' /\ Discovery'
    BY <2>1, <2>2, <2>3, <1>1, <1>2, SMTT(30) DEF Types, TypeOK, Window, Lost, Discovery
  <2>5. Places'
    BY <2>1, <2>2, <2>3, <1>1 DEF Places
  <2>6. phase = "discovering"
    BY <2>1, <2>2, <1>1, <1>2 DEF Answers, TypeOK
  <2>7. events = <<BufferSize>> /\ held = {}
    BY <2>6, <1>1 DEF Answers, Discovery
  <2>8. DOMAIN events' = {}
    BY <2>7, <2>1
  <2>9. Deliveries' /\ Answers'
    BY <2>7, <2>8, <2>1 DEF Deliveries, EventFits, Apart, Answers
  <2> QED
    BY <2>3, <2>4, <2>5, <2>9 DEF IndInv
<1>6. ASSUME TransportLost PROVE IndInv'
  <2>1. /\ transport' = "lost" /\ waiting' = {} /\ inFlight' = 0
        /\ perConnection' = NoneInFlight /\ owed' = {}
        /\ completed' = completed + Cardinality(waiting) + inFlight
        /\ UNCHANGED <<maxInFlight, queued, phase, live, held, events, next>>
    BY <1>6 DEF TransportLost
  <2>2. queued' = completed' /\ completed' \in Nat
    BY <2>1, <1>1, <1>2 DEF Accounting, TypeOK
  <2>3. Accounting' /\ perConnection' \in [Handles -> Nat] /\ IsFiniteSet({})
    BY <2>1, <2>2, EmptyQueue, SMTT(30)
  <2>4. Types' /\ Window' /\ Answers' /\ Lost' /\ Discovery' /\ Deliveries'
    BY <2>1, <2>2, <2>3, <1>1, <1>2
    DEF Types, TypeOK, Window, Answers, Lost, Discovery, Deliveries, EventFits, Apart
  <2>5. Places'
    BY <2>1, <2>3, <1>1 DEF Places
  <2> QED
    BY <2>3, <2>4, <2>5 DEF IndInv
<1> QED
  BY <1>3, <1>4, <1>5, <1>6

\* The parts of the invariant that no event can disturb.
LEMMA QueueUntouched ==
  ASSUME IndInv, UNCHANGED <<queue, owed, next>>
  PROVE  /\ Accounting'
         /\ TypeOK /\ events \in Seq(Event)
         /\ (held' \subseteq held /\ events' \in Seq(Event)
              /\ \A i \in DOMAIN events' : IsFiniteSet(events'[i].of)) => Places'
<1>1. Accounting' /\ TypeOK /\ events \in Seq(Event) /\ Places
  BY DEF IndInv, Types, Accounting, queue, Of
<1>2. ASSUME held' \subseteq held PROVE IsFiniteSet(held')
  BY <1>1, <1>2, FS_Subset DEF Places
<1> QED
  BY <1>1, <1>2 DEF Places, queue

\* The events that leave the packets alone keep the inductive invariant.
LEMMA OtherPollsKeep ==
  ASSUME IndInv, PollNotReady \/ OnConnected \/ OnResetDone
  PROVE  IndInv'
<1> USE FlowAssumption
<1>1. /\ Types /\ Accounting /\ Places /\ Window /\ Discovery /\ Deliveries
      /\ Answers /\ Lost
  BY DEF IndInv
<1>2. TypeOK /\ events \in Seq(Event)
  BY <1>1 DEF Types
<1>3. /\ events # <<>>
      /\ UNCHANGED <<queue, transport, live, held, owed, unpolled, next>>
  BY DEF PollNotReady, OnConnected, OnResetDone, Poll
<1>4. /\ Tail(events) \in Seq(Event) /\ Head(events) = events[1] /\ 1 \in DOMAIN events
      /\ \A i \in DOMAIN Tail(events) :
           i \in Nat /\ i + 1 \in DOMAIN events /\ 1 < i + 1 /\ Tail(events)[i] = events[i + 1]
  BY <1>2, <1>3, TailShifts
<1>5. UNCHANGED <<waiting, maxInFlight, inFlight, perConnection, queued, completed>>
  BY <1>3 DEF queue
<1>6. ASSUME PollNotReady PROVE IndInv'
  <2>1. /\ phase = "resetting" /\ Head(events).type # "reset" /\ events' = Tail(events)
        /\ UNCHANGED phase
    BY <1>6 DEF PollNotReady
  <2>2. Accounting' /\ Places'
    BY <2>1, <1>1, <1>3, <1>4, QueueUntouched, SMTT(30) DEF Places
  <2>3. Types' /\ Window' /\ Discovery' /\ Deliveries' /\ Lost'
    BY <2>1, <1>1, <1>2, <1>3, <1>4, <1>5
    DEF Types, TypeOK, Window, Discovery, Deliveries, EventFits, Apart, Lost
  <2>4. Len(events) # 1 /\ Len(events) \in Nat /\ Len(events) # 0
    BY <2>1, <1>1, <1>2, <1>3, <1>4 DEF Answers
  <2>5. Len(Tail(events)) = Len(events) - 1 /\ DOMAIN Tail(events) = 1..(Len(events) - 1)
    BY <2>4, <1>2
  <2>6. Tail(events)[Len(events) - 1] = events[Len(events)]
    BY <2>4, <2>5, <1>4
  <2>7. \A i \in 1..(Len(events) - 2) : Tail(events)[i] = events[i + 1]
    BY <2>4, <2>5, <1>4
  <2>8. Tail(events) # <<>>
    BY <2>4, <2>5, <1>4, Emptiness
  <2>9. Answers'
    BY <2>1, <2>4, <2>5, <2>6, <2>7, <2>8, <1>1 DEF Answers
  <2> QED
    BY <2>2, <2>3, <2>9 DEF IndInv
<1>7. ASSUME OnConnected PROVE IndInv'
  <2>1. /\ phase # "resetting" /\ Head(events).type = "connected"
        /\ events' = Tail(events) /\ phase' = phase
    BY <1>7 DEF OnConnected, Poll
  <2>2. Accounting' /\ Places'
    BY <2>1, <1>1, <1>3, <1>4, QueueUntouched DEF Places
  <2>3. phase = "running" /\ Head(events).handle \in Handles
    BY <2>1, <1>1, <1>2, <1>4 DEF Answers, BufferSize, TypeOK, Event
  <2>4. Types' /\ Window' /\ Discovery' /\ Answers' /\ Lost'
    BY <2>1, <2>3, <1>1, <1>2, <1>3, <1>4, <1>5, SMTT(30)
    DEF Types, TypeOK, Window, Discovery, Answers, Lost
  <2>5. Deliveries'
    <3> SUFFICES ASSUME transport # "lost" PROVE Deliveries'
      BY <1>3 DEF Deliveries, EventFits, Apart
    <3>1. /\ held' \subseteq owed'
          /\ \A p \in held' : p.handle \in live'
          /\ \A i \in DOMAIN events' :
               /\ events'[i].type = "completed" =>
                    /\ events'[i].of \subseteq Of(events'[i].handle, owed')
                    /\ events'[i].of \cap held' = {}
               /\ events'[i].type = "disconnected" => events'[i].handle \notin live'
      BY <2>1, <2>3, <1>1, <1>3, <1>4, SMTT(30) DEF Deliveries, EventFits, Apart
    <3>2. ASSUME NEW i \in DOMAIN events', NEW j \in DOMAIN events', i < j
          PROVE  /\ (events'[i].type = "completed" /\ events'[j].type = "completed") =>
                      events'[i].of \cap events'[j].of = {}
                 /\ events'[i].type = "disconnected" =>
                      ~IsFor(events'[j], "completed", events'[i].handle)
      <4>1. i + 1 < j + 1 /\ i + 1 \in DOMAIN events /\ j + 1 \in DOMAIN events
        BY <3>2, <2>1, <1>4
      <4> QED
        BY <4>1, <2>1, <2>3, <1>1, <1>4 DEF Deliveries, EventFits, Apart
    <3> QED
      BY <3>1, <3>2, <2>3, SMTT(30) DEF Deliveries, EventFits, Apart, IsFor, Of
  <2> QED
    BY <2>2, <2>4, <2>5 DEF IndInv
<1>8. ASSUME OnResetDone PROVE IndInv'
  <2>1. /\ Head(events).type = "reset" /\ phase' = "discovering"
        /\ events' = Append(Tail(events), BufferSize)
    BY <1>8 DEF OnResetDone
  <2>2. phase = "resetting"
    BY <2>1, <1>1, <1>2, <1>4 DEF Answers, TypeOK, BufferSize
  <2>3. Len(events) = 1
    <3>1. Len(events) \in Nat /\ Len(events) # 0
      BY <1>2, <1>3, Emptiness
    <3>2. events[1].type = "reset"
      BY <2>1, <1>4
    <3>3. \A i \in 1..(Len(events) - 1) : events[i].type # "reset"
      BY <2>2, <1>1 DEF Answers
    <3>4. Len(events) > 1 => 1 \in 1..(Len(events) - 1)
      BY <3>1
    <3>5. ~(Len(events) > 1)
      BY <3>2, <3>3, <3>4
    <3>6. \A n \in Nat : n # 0 /\ ~(n > 1) => n = 1
      OBVIOUS
    <3> QED
      BY <3>1, <3>5, <3>6, Zenon
  <2>4. Tail(events) = <<>>
    <3>1. Len(Tail(events)) = 0
      BY <2>3, <1>2
    <3> QED
      BY <3>1, <1>4, Emptiness
  <2>5. events' = <<BufferSize>>
    <3>1. Append(<<>>, BufferSize) = <<BufferSize>>
      OBVIOUS
    <3> QED
      BY <3>1, <2>1, <2>4
  <2>6. BufferSize \in Event
    BY DEF BufferSize, Event
  <2>7. events' \in Seq(Event) /\ \A i \in DOMAIN events' : IsFiniteSet(events'[i].of)
    BY <2>5, <2>6, FS_EmptySet DEF BufferSize
  <2>8. Accounting' /\ Places'
    BY <2>7, <1>3, QueueUntouched
  <2>9. Types' /\ Window' /\ Discovery' /\ Deliveries' /\ Lost' /\ Answers'
    BY <2>1, <2>2, <2>5, <2>7, <1>1, <1>2, <1>3, <1>5
    DEF Types, TypeOK, Window, Discovery, Deliveries, EventFits, Apart, Lost, Answers
  <2> QED
    BY <2>8, <2>9 DEF IndInv
<1> QED
  BY <1>6, <1>7, <1>8

\* The controller and the transport keep the inductive invariant.
LEMMA ControllerKeeps ==
  ASSUME IndInv, EarlyConnect = FALSE,
         \/ \E h \in Handles : Connect(h)
         \/ \E h \in Handles : Disconnect(h)
         \/ Transmit
         \/ TransportFails
  PROVE  IndInv'
<1> USE FlowAssumption
<1>1. /\ Types /\ Accounting /\ Places /\ Window /\ Discovery /\ Deliveries
      /\ Answers /\ Lost
  BY DEF IndInv
<1>2. TypeOK /\ events \in Seq(Event)
  BY <1>1 DEF Types
<1>3. UNCHANGED <<queue, phase, owed, next>>
  BY DEF Connect, Disconnect, Transmit, Complete, TransportFails
<1>4. /\ UNCHANGED <<waiting, maxInFlight, inFlight, perConnection, queued, completed>>
      /\ UNCHANGED phase
  BY <1>3 DEF queue
<1>5. ASSUME NEW h \in Handles, Connect(h) PROVE IndInv'
  <2>0. events' = Append(events, Connected(h))
    BY <1>5 DEF Connect
  <2>1. /\ transport = "up" /\ phase = "running" /\ h \notin live
        /\ \A i \in DOMAIN events : ~IsFor(events[i], "disconnected", h)
        /\ live' = live \cup {h} /\ UNCHANGED <<transport, held>>
    BY <1>5 DEF Connect
  <2>2. Connected(h) \in Event
    BY DEF Connected, Event
  <2>3. /\ events' \in Seq(Event)
        /\ \A i \in DOMAIN events' :
             i \in Nat /\ ((i \in DOMAIN events /\ events'[i] = events[i] /\ i < Len(events'))
                           \/ (i = Len(events') /\ events'[i] = Connected(h)))
    BY <2>0, <2>2, <1>2, AppendExtends
  <2>4. \A i \in DOMAIN events' : IsFiniteSet(events'[i].of)
    <3>1. IsFiniteSet(Connected(h).of)
      BY FS_EmptySet DEF Connected
    <3>2. \A i \in DOMAIN events : IsFiniteSet(events[i].of)
      BY <1>1, SMTT(30) DEF Places
    <3> QED
      BY <3>1, <3>2, <2>3
  <2>5. Accounting' /\ Places'
    BY <2>1, <2>3, <2>4, <1>3, QueueUntouched, SMTT(30)
  <2>6. Types' /\ Window' /\ Discovery' /\ Lost'
    <3>1. Types'
      BY <2>1, <2>3, <1>2, <1>3, <1>4 DEF Types, TypeOK
    <3>2. Window'
      BY <2>1, <1>1, <1>3, <1>4 DEF Window
    <3>3. Discovery' /\ Lost'
      BY <2>1, <1>1, <1>3, <1>4, SMTT(30) DEF Discovery, Lost
    <3> QED
      BY <3>1, <3>2, <3>3, SMTT(30)
  <2>7. Answers'
    <3>1. phase = "running" /\ phase' = "running"
      BY <2>1, <1>4
    <3>2. \A i \in DOMAIN events : events[i].type \notin {"reset", "buffers"}
      BY <3>1, <1>1 DEF Answers
    <3>3. Connected(h).type \notin {"reset", "buffers"}
      BY DEF Connected
    <3> QED
      BY <3>1, <3>2, <3>3, <2>3 DEF Answers
  <2>8. Deliveries'
    <3>0. /\ held \subseteq owed
          /\ \A p \in held : p.handle \in live
          /\ \A i \in DOMAIN events : EventFits(events[i])
          /\ \A i, j \in DOMAIN events : i < j => Apart(events[i], events[j])
      BY <2>1, <1>1 DEF Deliveries
    <3>1. /\ held' \subseteq owed'
          /\ \A p \in held' : p.handle \in live'
      BY <3>0, <2>1, <1>3, SMTT(30)
    <3>2. ASSUME NEW i \in DOMAIN events' PROVE EventFits(events[i])'
      <4>1. CASE i \in DOMAIN events /\ events'[i] = events[i]
        <5>1. EventFits(events[i])
          BY <4>1, <3>0
        <5> QED
          BY <5>1, <4>1, <2>1, <1>3 DEF EventFits, IsFor
      <4>2. CASE events'[i] = Connected(h)
        BY <4>2, SMTT(30) DEF EventFits, Connected
      <4> QED
        BY <4>1, <4>2, <2>3
    <3>3. ASSUME NEW i \in DOMAIN events', NEW j \in DOMAIN events', i < j
          PROVE  Apart(events'[i], events'[j])
      <4>1. i \in DOMAIN events /\ events'[i] = events[i]
        BY <3>3, <2>3
      <4>2. CASE j \in DOMAIN events /\ events'[j] = events[j]
        BY <4>1, <4>2, <3>3, <3>0
      <4>3. CASE events'[j] = Connected(h)
        BY <4>3 DEF Apart, Connected, IsFor
      <4> QED
        BY <4>2, <4>3, <2>3
    <3> QED
      BY <3>1, <3>2, <3>3 DEF Deliveries
  <2> QED
    BY <2>5, <2>6, <2>7, <2>8 DEF IndInv
<1>6. ASSUME NEW h \in Handles, Disconnect(h) PROVE IndInv'
  <2>0. events' = Append(events, Disconnected(h))
    BY <1>6 DEF Disconnect
  <2>1. /\ transport = "up" /\ h \in live /\ live' = live \ {h}
        /\ held' = held \ Of(h, held) /\ UNCHANGED transport
    BY <1>6 DEF Disconnect
  <2>2. Disconnected(h) \in Event
    BY DEF Disconnected, Event
  <2>3. phase = "running"
    BY <2>1, <1>1 DEF Discovery
  <2>4. /\ events' \in Seq(Event)
        /\ \A i \in DOMAIN events' :
             i \in Nat /\ ((i \in DOMAIN events /\ events'[i] = events[i] /\ i < Len(events'))
                           \/ (i = Len(events') /\ events'[i] = Disconnected(h)))
    BY <2>0, <2>2, <1>2, AppendExtends
  <2>5. \A i \in DOMAIN events' : IsFiniteSet(events'[i].of)
    <3>1. IsFiniteSet(Disconnected(h).of)
      BY FS_EmptySet DEF Disconnected
    <3>2. \A i \in DOMAIN events : IsFiniteSet(events[i].of)
      BY <1>1 DEF Places
    <3> QED
      BY <3>1, <3>2, <2>4
  <2>6. Accounting' /\ Places'
    BY <2>1, <2>4, <2>5, <1>3, QueueUntouched, SMTT(30)
  <2>7. Types' /\ Discovery' /\ Lost'
    BY <2>1, <2>3, <2>4, <1>1, <1>2, <1>3, <1>4 DEF Types, TypeOK, Discovery, Lost
  <2>8. Window'
    <3>1. Cardinality(held') <= Cardinality(held) /\ Cardinality(held) \in Nat
          /\ Cardinality(held') \in Nat
      BY <2>1, <1>1, FS_Subset, FS_CardinalityType DEF Places
    <3> QED
      BY <3>1, <1>1, <1>4, SMTT(30) DEF Window
  <2>9. Answers'
    BY <2>3, <2>4, <1>1, <1>4 DEF Answers, Disconnected
  <2>10. Deliveries'
    <3>0. /\ held \subseteq owed
          /\ \A p \in held : p.handle \in live
          /\ \A i \in DOMAIN events : EventFits(events[i])
          /\ \A i, j \in DOMAIN events : i < j => Apart(events[i], events[j])
      BY <2>1, <2>3, <1>1 DEF Deliveries
    <3>1. /\ held' \subseteq owed'
          /\ \A p \in held' : p.handle \in live'
      BY <3>0, <2>1, <1>3, SMTT(30) DEF Of
    <3>2. ASSUME NEW i \in DOMAIN events' PROVE EventFits(events[i])'
      <4>1. CASE i \in DOMAIN events /\ events'[i] = events[i]
        <5>1. EventFits(events[i])
          BY <4>1, <3>0
        <5> QED
          BY <5>1, <4>1, <2>1, <1>3, SMTT(30) DEF EventFits
      <4>2. CASE events'[i] = Disconnected(h)
        BY <4>2, <2>1, SMTT(30) DEF EventFits, Disconnected
      <4> QED
        BY <4>1, <4>2, <2>4
    <3>3. ASSUME NEW i \in DOMAIN events', NEW j \in DOMAIN events', i < j
          PROVE  Apart(events'[i], events'[j])
      <4>1. i \in DOMAIN events /\ events'[i] = events[i]
        BY <3>3, <2>4
      <4>2. CASE j \in DOMAIN events /\ events'[j] = events[j]
        BY <4>1, <4>2, <3>3, <3>0
      <4>3. CASE events'[j] = Disconnected(h)
        BY <4>3 DEF Apart, Disconnected, IsFor
      <4> QED
        BY <4>2, <4>3, <2>4
    <3> QED
      BY <3>1, <3>2, <3>3 DEF Deliveries
  <2> QED
    BY <2>6, <2>7, <2>8, <2>9, <2>10 DEF IndInv
<1>7. ASSUME NEW h \in Handles, NEW S \in SUBSET Of(h, held), Complete(h, S) PROVE IndInv'
  <2>0. events' = Append(events, Completed(h, S))
    BY <1>7 DEF Complete
  <2>1. transport = "up" /\ held' = held \ S /\ S # {} /\ UNCHANGED <<transport, live>>
    BY <1>7 DEF Complete
  <2>2. S \subseteq held /\ \A p \in S : p.handle = h
    BY DEF Of
  <2>3. Completed(h, S) \in Event
    BY <2>2, <1>2 DEF Completed, Event, TypeOK
  <2>4. phase = "running"
    BY <2>1, <2>2, <1>1 DEF Discovery
  <2>5. /\ events' \in Seq(Event)
        /\ \A i \in DOMAIN events' :
             i \in Nat /\ ((i \in DOMAIN events /\ events'[i] = events[i] /\ i < Len(events'))
                           \/ (i = Len(events') /\ events'[i] = Completed(h, S)))
    BY <2>0, <2>3, <1>2, AppendExtends
  <2>6. IsFiniteSet(S) /\ \A i \in DOMAIN events' : IsFiniteSet(events'[i].of)
    BY <2>2, <2>5, <1>1, FS_Subset DEF Places, Completed
  <2>7. Accounting' /\ Places'
    BY <2>1, <2>5, <2>6, <1>3, QueueUntouched, SMTT(30)
  <2>8. Types' /\ Discovery' /\ Lost'
    BY <2>1, <2>4, <2>5, <1>1, <1>2, <1>3, <1>4 DEF Types, TypeOK, Discovery, Lost
  <2>9. Window'
    <3>1. Cardinality(held') <= Cardinality(held) /\ Cardinality(held) \in Nat
          /\ Cardinality(held') \in Nat
      BY <2>1, <1>1, FS_Subset, FS_CardinalityType DEF Places
    <3> QED
      BY <3>1, <1>1, <1>4 DEF Window
  <2>10. Answers'
    BY <2>4, <2>5, <1>1, <1>4 DEF Answers, Completed
  <2>11. Deliveries'
    <3>0. /\ held \subseteq owed
          /\ \A p \in held : p.handle \in live
          /\ \A i \in DOMAIN events : EventFits(events[i])
          /\ \A i, j \in DOMAIN events : i < j => Apart(events[i], events[j])
      BY <2>1, <2>4, <1>1 DEF Deliveries
    <3>1. /\ held' \subseteq owed'
          /\ \A p \in held' : p.handle \in live'
      BY <3>0, <2>1, <1>3, SMTT(30)
    <3>2. ASSUME NEW i \in DOMAIN events' PROVE EventFits(events[i])'
      <4>1. CASE i \in DOMAIN events /\ events'[i] = events[i]
        <5>1. EventFits(events[i])
          BY <4>1, <3>0, SMTT(30)
        <5> QED
          BY <5>1, <4>1, <2>1, <1>3 DEF EventFits
      <4>2. CASE events'[i] = Completed(h, S)
        BY <4>2, <3>0, <2>1, <2>2, <1>3, SMTT(30) DEF EventFits, Completed, Of
      <4> QED
        BY <4>1, <4>2, <2>5
    <3>3. ASSUME NEW i \in DOMAIN events', NEW j \in DOMAIN events', i < j
          PROVE  Apart(events'[i], events'[j])
      <4>1. i \in DOMAIN events /\ events'[i] = events[i]
        BY <3>3, <2>5
      <4>2. CASE j \in DOMAIN events /\ events'[j] = events[j]
        BY <4>1, <4>2, <3>3, <3>0, SMTT(30)
      <4>3. CASE events'[j] = Completed(h, S)
        <5>1. EventFits(events[i]) /\ h \in live
          BY <4>1, <3>0, <2>1, <2>2
        <5> QED
          BY <5>1, <4>1, <4>3, <2>2 DEF EventFits, Apart, Completed, IsFor
      <4> QED
        BY <4>2, <4>3, <2>5
    <3> QED
      BY <3>1, <3>2, <3>3 DEF Deliveries
  <2> QED
    BY <2>7, <2>8, <2>9, <2>10, <2>11 DEF IndInv
<1>8. ASSUME TransportFails PROVE IndInv'
  <2>1. transport = "up" /\ transport' = "failed" /\ UNCHANGED <<live, held, events>>
    BY <1>8 DEF TransportFails
  <2>2. Accounting' /\ Places'
    BY <2>1, <1>1, <1>2, <1>3, QueueUntouched, SMTT(30) DEF Places
  <2>3. Types' /\ Window' /\ Discovery' /\ Answers' /\ Lost'
    BY <2>1, <1>1, <1>2, <1>3, <1>4, SMTT(30)
    DEF Types, TypeOK, Window, Discovery, Answers, Lost
  <2>4. Deliveries'
    BY <2>1, <1>1, <1>3, <1>4 DEF Deliveries, EventFits, Apart, IsFor, Of
  <2> QED
    BY <2>2, <2>3, <2>4 DEF IndInv
<1> QED
  BY <1>5, <1>6, <1>7, <1>8 DEF Transmit

\* Every step keeps the inductive invariant.
LEMMA NextIndInv ==
  ASSUME EarlyConnect = FALSE, IndInv, [Next]_vars
  PROVE  IndInv'
<1>1. CASE UNCHANGED vars
  BY <1>1 DEF vars, queue, counters, IndInv, Types, TypeOK, Accounting, Places,
     Window, Discovery, Deliveries, EventFits, Apart, Answers, Lost, Of, IsFor
<1>2. CASE Next
  BY <1>2, SendKeeps, CompletedKeeps, DisconnectedKeeps, EmptyingKeeps, OtherPollsKeep,
     ControllerKeeps DEF Next, PollAny
<1> QED
  BY <1>1, <1>2, SMTT(30)

\* Type correctness of the queue, the host and the controller.
THEOREM TypeCorrect ==
  ASSUME EarlyConnect = FALSE
  PROVE  Spec => []TypeOK
<1>1. IndInv => TypeOK
  BY DEF IndInv, Types
<1> QED
  BY <1>1, InitIndInv, NextIndInv, PTL DEF Spec

\* `queued`, `completed`, `in_flight` and `per_connection_in_flight` always agree
\* with each other and with the packets handed over: no subtraction of the queue
\* underflows, and no slot leaks.
THEOREM AccountingExact ==
  ASSUME EarlyConnect = FALSE
  PROVE  Spec => []Accounting
<1>1. IndInv => Accounting
  BY DEF IndInv
<1> QED
  BY <1>1, InitIndInv, NextIndInv, PTL DEF Spec

\* The host never has more packets in the controller than Read Buffer Size allows.
THEOREM ControllerNotOverrun ==
  ASSUME EarlyConnect = FALSE
  PROVE  Spec => []BuffersRespected
<1>1. IndInv => BuffersRespected
  BY DEF IndInv, Window, BuffersRespected
<1> QED
  BY <1>1, InitIndInv, NextIndInv, PTL DEF Spec

-----------------------------------------------------------------------------
(* The window is used.  This needs none of the above, and holds whether or  *)
(* not links come up before buffer discovery is over.                       *)

\* `flush_acl_queue` stops only at a full window or an empty queue.
LEMMA PumpFillsWindow ==
  ASSUME NEW w, NEW flying, NEW pc, NEW done, NEW debt,
         Pump(w, flying, pc, done, debt), UNCHANGED maxInFlight
  PROVE  NoIdleWindow'
<1>1. PICK taken \in SUBSET w :
        LET sent == {p \in taken : Accepts(p.handle)} IN
        /\ taken # w => ~HasRoom(flying + Cardinality(sent))
        /\ waiting' = w \ taken
        /\ inFlight' = flying + Cardinality(sent)
  BY DEF Pump
<1>2. CASE taken = w
  BY <1>1, <1>2 DEF NoIdleWindow
<1>3. CASE taken # w
  BY <1>1, <1>3 DEF NoIdleWindow, HasRoom
<1> QED
  BY <1>2, <1>3

\* Every handler pumps the queue, empties it, leaves it as it is, or is the one
\* of DisconnectionComplete.
LEMMA NextNoIdle ==
  ASSUME NoIdleWindow, [Next]_vars
  PROVE  NoIdleWindow'
<1>1. ASSUME UNCHANGED <<waiting, inFlight, maxInFlight, unpolled>> PROVE NoIdleWindow'
  BY <1>1 DEF NoIdleWindow
<1>2. ASSUME waiting' = {} PROVE NoIdleWindow'
  BY <1>2 DEF NoIdleWindow
<1>3. ASSUME NEW h \in Handles, NEW n \in 1..MaxFragments, Send(h, n) PROVE NoIdleWindow'
  BY <1>3, PumpFillsWindow DEF Send
<1>4. ASSUME OnCompleted PROVE NoIdleWindow'
  BY <1>4, PumpFillsWindow DEF OnCompleted
<1>5. ASSUME OnDisconnected PROVE NoIdleWindow'
  BY <1>5 DEF OnDisconnected, NoIdleWindow
<1>6. ASSUME \/ \E n \in 1..Buffers : Configure(n)
             \/ OnBufferSize \/ Reset \/ TransportLost
      PROVE  NoIdleWindow'
  BY <1>2, <1>6 DEF Configure, OnBufferSize, Reset, TransportLost, NewQueue
<1>7. ASSUME \/ PollNotReady \/ OnConnected \/ OnResetDone
             \/ \E h \in Handles : Connect(h) \/ Disconnect(h)
             \/ Transmit \/ TransportFails \/ UNCHANGED vars
      PROVE  NoIdleWindow'
  BY <1>1, <1>7 DEF PollNotReady, OnConnected, OnResetDone, Connect, Disconnect,
     Transmit, Complete, TransportFails, vars, queue
<1> QED
  BY <1>3, <1>4, <1>5, <1>6, <1>7 DEF Next, PollAny

\* `poll_ready` is called whenever a slot or a packet appears: packets wait beside
\* a free slot only after a DisconnectionComplete that nothing has followed yet.
THEOREM WindowNotIdle == Spec => []NoIdleWindow
<1>1. Init => NoIdleWindow
  BY DEF Init, NoIdleWindow
<1> QED
  BY <1>1, NextNoIdle, PTL DEF Spec
=============================================================================

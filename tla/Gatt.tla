-------------------------------- MODULE Gatt --------------------------------
(***************************************************************************)
(* GATT clients (bumble-gatt/src/client.rs) on the bearers of one          *)
(* attribute server (lib.rs), with the notifications and indications       *)
(* the host sends on those bearers (send_subscribed_value,                 *)
(* process_eatt_bearer).                                                   *)
(*                                                                         *)
(* A procedure of a client is a loop of requests.  Each request with its   *)
(* response is one step, so that between two of them other bearers write,  *)
(* the application changes values, and encryption comes or the bearer      *)
(* goes.                                                                   *)
(***************************************************************************)
EXTENDS Integers, Sequences, FiniteSets, SequencesExt

(***************************************************************************)
(* The attribute server of bumble-gatt (lib.rs): the database it builds    *)
(* from service definitions, and its answer to each ATT request.           *)
(*                                                                         *)
(* A handle is the place of its attribute in the database.  Values are     *)
(* sequences of bytes.  A UUID is <<width, number>>; as bytes it is its    *)
(* number repeated, which keeps the width and tells UUIDs apart.  A server *)
(* is [attributes, mtu, mtus, prepared, subs]; the last three are keyed by *)
(* bearer.  An answer is [s, code, data]: the server after the request,    *)
(* an ATT error code (0: none) and the data of the response.               *)
(***************************************************************************)

PRIMARY == <<2, 1>>
SECONDARY == <<2, 2>>
INCLUDE == <<2, 3>>
CHARACTERISTIC == <<2, 4>>
CCCD == <<2, 5>>

READ_NOT_PERMITTED == 2
WRITE_NOT_PERMITTED == 3
INVALID_PDU == 4
INSUFFICIENT_AUTHENTICATION == 5
INVALID_OFFSET == 7
INSUFFICIENT_AUTHORIZATION == 8
NOT_FOUND == 10
NOT_LONG == 11
INSUFFICIENT_ENCRYPTION == 15

ATT_DEFAULT_MTU == 23
LAST_HANDLE == 65535

UuidBytes(u) == [i \in 1..u[1] |-> u[2]]

UuidFrom(bytes) == <<Len(bytes), bytes[1]>>

\* Handles stay below 256, so the high octet is zero.
HandleBytes(h) == <<h, 0>>

HandleFrom(bytes) == bytes[1] + 256 * bytes[2]

-----------------------------------------------------------------------------
\* The database.

\* NOTIFY or INDICATE is among the properties.
Notifies(properties) == (properties \div 16) % 4 # 0

NeedsCccd(ch) ==
  Notifies(ch.properties) /\ \A i \in DOMAIN ch.descriptors : ch.descriptors[i].uuid # CCCD

Attributes(ch) == 2 + Len(ch.descriptors) + IF NeedsCccd(ch) THEN 1 ELSE 0

\* The handles a service takes.
Count(service) ==
  FoldLeft(LAMBDA n, ch : n + Attributes(ch), 1 + Len(service.includes), service.characteristics)

Start(services, i) ==
  FoldLeft(LAMBDA n, s : n + Count(s), 1, SubSeq(services, 1, i - 1))

End(services, i) == Start(services, i) + Count(services[i]) - 1

\* cccd: the value handle whose subscription bits this attribute is, or 0.
Attribute(type, end, permissions, value, cccd) ==
  [type |-> type, end |-> end, permissions |-> permissions, value |-> value, cccd |-> cccd,
   dynamic |-> cccd # 0]

Declaration(type, end, value) == Attribute(type, end, {"read"}, value, 0)

\* The declaration of a characteristic, its value and its descriptors.
Characteristic(ch, at) ==
  <<Declaration(CHARACTERISTIC, at,
                <<ch.properties>> \o HandleBytes(at + 1) \o UuidBytes(ch.uuid)),
    Attribute(ch.uuid, at + 1, ch.permissions, ch.value, 0)>>
    \o [i \in DOMAIN ch.descriptors |->
          Attribute(ch.descriptors[i].uuid, at + 1 + i, ch.descriptors[i].permissions,
                    ch.descriptors[i].value,
                    IF ch.descriptors[i].uuid = CCCD THEN at + 1 ELSE 0)]
    \o IF NeedsCccd(ch)
       THEN <<Attribute(CCCD, at + Attributes(ch) - 1, {"read", "write"}, <<0, 0>>, at + 1)>>
       ELSE <<>>

IncludeValue(services, i) ==
  HandleBytes(Start(services, i)) \o HandleBytes(End(services, i))
    \o IF services[i].uuid[1] = 2 THEN UuidBytes(services[i].uuid) ELSE <<>>

\* An attribute that is no service declaration ends its own group.
Included(services, i, at) ==
  Declaration(INCLUDE, at, IncludeValue(services, i))

ServiceAttributes(services, i) ==
  LET service == services[i]
      at == Start(services, i)
      head == <<Declaration(IF service.primary THEN PRIMARY ELSE SECONDARY,
                            End(services, i), UuidBytes(service.uuid))>>
                \o [k \in DOMAIN service.includes |-> Included(services, service.includes[k], at + k)]
  IN FoldLeft(LAMBDA attributes, ch : attributes \o Characteristic(ch, at + Len(attributes)),
              head, service.characteristics)

from_definitions(services, mtu) ==
  [attributes |-> FlattenSeq([i \in DOMAIN services |-> ServiceAttributes(services, i)]),
   mtu |-> mtu, mtus |-> [b \in {} |-> 0], prepared |-> [b \in {} |-> <<>>],
   subs |-> [x \in {} |-> 0]]

-----------------------------------------------------------------------------
\* Access.

\* One right is enough to be readable; each requirement among the rights must
\* be met by the bearer's security.
check_read_access(permissions, security) ==
  IF permissions \cap {"read", "read_encrypted", "read_authenticated", "read_authorized"} = {}
  THEN READ_NOT_PERMITTED
  ELSE IF "read_encrypted" \in permissions /\ "encrypted" \notin security
  THEN INSUFFICIENT_ENCRYPTION
  ELSE IF "read_authenticated" \in permissions /\ "authenticated" \notin security
  THEN INSUFFICIENT_AUTHENTICATION
  ELSE IF "read_authorized" \in permissions /\ "authorized" \notin security
  THEN INSUFFICIENT_AUTHORIZATION ELSE 0

check_write_access(permissions, security) ==
  IF permissions \cap {"write", "write_encrypted", "write_authenticated", "write_authorized"} = {}
  THEN WRITE_NOT_PERMITTED
  ELSE IF "write_encrypted" \in permissions /\ "encrypted" \notin security
  THEN INSUFFICIENT_ENCRYPTION
  ELSE IF "write_authenticated" \in permissions /\ "authenticated" \notin security
  THEN INSUFFICIENT_AUTHENTICATION
  ELSE IF "write_authorized" \in permissions /\ "authorized" \notin security
  THEN INSUFFICIENT_AUTHORIZATION ELSE 0

find(s, h) == h \in DOMAIN s.attributes

ReadRight(s, h, security) ==
  IF find(s, h) THEN check_read_access(s.attributes[h].permissions, security) ELSE NOT_FOUND

WriteRight(s, h, security) ==
  IF find(s, h) THEN check_write_access(s.attributes[h].permissions, security) ELSE NOT_FOUND

Keyed(f, k, none) == IF k \in DOMAIN f THEN f[k] ELSE none

Put(f, k, v) == [x \in DOMAIN f \cup {k} |-> IF x = k THEN v ELSE f[x]]

Drop(f, k) == [x \in DOMAIN f \ {k} |-> f[x]]

negotiated_mtu(s, b) == Keyed(s.mtus, b, ATT_DEFAULT_MTU)

subscription_bits(s, b, h) == Keyed(s.subs, <<b, h>>, 0)

\* A CCCD reads and writes the bits of the bearer that asks.
read_value(s, b, h) ==
  IF s.attributes[h].cccd = 0 THEN s.attributes[h].value
  ELSE <<subscription_bits(s, b, s.attributes[h].cccd), 0>>

cccd_write(s, b, value_handle, value) ==
  IF Len(value) # 2 THEN s
  ELSE IF HandleFrom(value) = 0 THEN [s EXCEPT !.subs = Drop(@, <<b, value_handle>>)]
  ELSE [s EXCEPT !.subs = Put(@, <<b, value_handle>>, HandleFrom(value))]

write_value(s, b, h, value) ==
  IF s.attributes[h].cccd = 0 THEN [s EXCEPT !.attributes[h].value = value]
  ELSE cccd_write(s, b, s.attributes[h].cccd, value)

-----------------------------------------------------------------------------
\* The requests.

Refused(s, code) == [s |-> s, code |-> code, data |-> <<>>]

Answered(s, data) == [s |-> s, code |-> 0, data |-> data]

truncate(value, n) == SubSeq(value, 1, IF Len(value) < n THEN Len(value) ELSE n)

Least(a, b) == IF a < b THEN a ELSE b

Most(a, b) == IF a > b THEN a ELSE b

OnExchangeMtu(s, b, client_rx_mtu) ==
  Answered([s EXCEPT !.mtus = Put(@, b, Most(Least(client_rx_mtu, s.mtu), ATT_DEFAULT_MTU))],
           s.mtu)

OnRead(s, b, security, h) ==
  IF ReadRight(s, h, security) # 0 THEN Refused(s, ReadRight(s, h, security))
  ELSE Answered(s, truncate(read_value(s, b, h), negotiated_mtu(s, b) - 1))

OnReadBlob(s, b, security, h, offset) ==
  IF ReadRight(s, h, security) # 0 THEN Refused(s, ReadRight(s, h, security))
  ELSE IF offset > Len(read_value(s, b, h)) THEN Refused(s, INVALID_OFFSET)
  ELSE Answered(s, truncate(SubSeq(read_value(s, b, h), offset + 1, Len(read_value(s, b, h))),
                            negotiated_mtu(s, b) - 1))

OnWrite(s, b, security, h, value) ==
  IF WriteRight(s, h, security) # 0 THEN Refused(s, WriteRight(s, h, security))
  ELSE Answered(write_value(s, b, h, value), <<>>)

\* A dynamic value has no queued writes.
OnPrepareWrite(s, b, security, h, offset, part) ==
  IF WriteRight(s, h, security) # 0 THEN Refused(s, WriteRight(s, h, security))
  ELSE IF s.attributes[h].dynamic THEN Refused(s, NOT_LONG)
  ELSE Answered([s EXCEPT !.prepared =
                   Put(@, b, Append(Keyed(@, b, <<>>), [h |-> h, offset |-> offset, part |-> part]))],
                part)

\* part over value from offset on; the value grows when it has to.
Overlay(value, offset, part) ==
  [i \in 1..Most(Len(value), offset + Len(part)) |->
     IF i > offset /\ i <= offset + Len(part) THEN part[i - offset]
     ELSE IF i <= Len(value) THEN value[i] ELSE 0]

\* One queued write, unless an earlier one has failed; t is [s, code].
Staged(t, w, security) ==
  IF t.code # 0 THEN t
  ELSE IF WriteRight(t.s, w.h, security) # 0 THEN [t EXCEPT !.code = WriteRight(t.s, w.h, security)]
  ELSE IF t.s.attributes[w.h].dynamic THEN [t EXCEPT !.code = NOT_LONG]
  ELSE IF w.offset > Len(t.s.attributes[w.h].value) THEN [t EXCEPT !.code = INVALID_OFFSET]
  ELSE [t EXCEPT !.s.attributes[w.h].value = Overlay(@, w.offset, w.part)]

\* Mutant: the writes before the one that fails stay applied.
ExecuteAsFar(s, b, security, flags) ==
  LET taken == [s EXCEPT !.prepared = Drop(@, b)]
      staged == FoldLeft(LAMBDA t, w : Staged(t, w, security), [s |-> taken, code |-> 0],
                         Keyed(s.prepared, b, <<>>))
  IN IF flags = 0 THEN Answered(taken, <<>>)
     ELSE IF flags # 1 THEN Refused(s, INVALID_PDU)
     ELSE IF staged.code # 0 THEN Refused(staged.s, staged.code)
     ELSE Answered(staged.s, <<>>)

\* The queue of the bearer is consumed whatever comes of it.
execute_writes(s, b, security, flags) ==
  LET taken == [s EXCEPT !.prepared = Drop(@, b)]
      staged == FoldLeft(LAMBDA t, w : Staged(t, w, security), [s |-> taken, code |-> 0],
                         Keyed(s.prepared, b, <<>>))
  IN IF flags = 0 THEN Answered(taken, <<>>)
     ELSE IF flags # 1 THEN Refused(s, INVALID_PDU)
     ELSE IF staged.code # 0 THEN Refused(taken, staged.code)
     ELSE Answered(staged.s, <<>>)

remove_bearer(s, b) ==
  [s EXCEPT !.mtus = Drop(@, b), !.prepared = Drop(@, b),
            !.subs = [x \in {y \in DOMAIN @ : y[1] # b} |-> @[x]]]

-----------------------------------------------------------------------------
\* The requests of discovery.  A response lists entries of one length: it stops
\* before the first entry of another.

HandlesIn(s, start, end) ==
  SelectSeq([h \in DOMAIN s.attributes |-> h], LAMBDA h : start <= h /\ h <= end)

OfType(s, start, end, type) ==
  SelectSeq(HandlesIn(s, start, end), LAMBDA h : s.attributes[h].type = type)

\* How many entries are as long as the first, from the first on.
Run(entries) ==
  LET others == {i \in DOMAIN entries : Len(entries[i]) # Len(entries[1])}
  IN CHOOSE n \in 1..Len(entries) :
       /\ \A i \in others : i > n
       /\ n < Len(entries) => n + 1 \in others

\* The first error among these handles, or 0.
FirstError(s, handles, security) ==
  LET bad == SelectSeq(handles, LAMBDA h :
               check_read_access(s.attributes[h].permissions, security) # 0)
  IN IF bad = <<>> THEN 0 ELSE check_read_access(s.attributes[bad[1]].permissions, security)

\* A response with the length of its entries and the flat list of them.
Listed(s, entries) ==
  [s |-> s, code |-> 0, data |-> FlattenSeq(entries), length |-> Len(entries[1]) % 256]

Unlisted(s, code) == [s |-> s, code |-> code, data |-> <<>>, length |-> 0]

\* Handles are examined up to the first entry of another length, which ends the
\* response; an error among them replaces it.
Grouped(s, handles, security, entries) ==
  IF handles = <<>> THEN Unlisted(s, NOT_FOUND)
  ELSE IF FirstError(s, SubSeq(handles, 1, Least(Run(entries) + 1, Len(handles))), security) # 0
  THEN Unlisted(s, FirstError(s, handles, security))
  ELSE Listed(s, SubSeq(entries, 1, Run(entries)))

read_by_group_type(s, b, security, start, end, type) ==
  LET handles == OfType(s, start, end, type) IN
  Grouped(s, handles, security,
          [i \in DOMAIN handles |->
             HandleBytes(handles[i]) \o HandleBytes(s.attributes[handles[i]].end)
               \o read_value(s, b, handles[i])])

read_by_type(s, b, security, start, end, type) ==
  LET handles == OfType(s, start, end, type) IN
  Grouped(s, handles, security,
          [i \in DOMAIN handles |-> HandleBytes(handles[i]) \o read_value(s, b, handles[i])])

find_by_type_value(s, b, security, start, end, type, value) ==
  LET handles == OfType(s, start, end, type)
      hits == SelectSeq(handles, LAMBDA h : read_value(s, b, h) = value)
  IN IF FirstError(s, handles, security) # 0 THEN Unlisted(s, FirstError(s, handles, security))
     ELSE IF hits = <<>> THEN Unlisted(s, NOT_FOUND)
     ELSE Listed(s, [i \in DOMAIN hits |->
                       HandleBytes(hits[i]) \o HandleBytes(s.attributes[hits[i]].end)])

\* The entries are of one UUID width; nothing is read.
find_information(s, start, end) ==
  LET handles == HandlesIn(s, start, end)
      entries == [i \in DOMAIN handles |->
                    HandleBytes(handles[i]) \o UuidBytes(s.attributes[handles[i]].type)]
  IN IF handles = <<>> THEN Unlisted(s, NOT_FOUND)
     ELSE Listed(s, SubSeq(entries, 1, Run(entries)))

-----------------------------------------------------------------------------
CONSTANTS Plans,    \* bounds: the database, the calls made of which kinds, on which bearers
          Values,   \* values an application or a client writes
          Parts,    \* the queued writes clients send: [offset, part]
          Mtus,     \* what clients offer in an MTU exchange
          ServerMtu \* what the server offers

VARIABLES server, client, security,
          pending, \* bearers with an indication the host has not seen confirmed
          inbox,   \* per bearer: values on their way to the client
          confirm, \* per bearer: confirmations on their way back
          acked,   \* history: the queued writes acknowledged since the queue was last emptied
          plan

vars == <<server, client, security, pending, inbox, confirm, acked, plan>>

KINDS == {"notification", "indication"}

Idle == [kind |-> "idle"]

NewClient ==
  [mtu |-> ATT_DEFAULT_MTU, subs |-> [k \in KINDS |-> [h \in {} |-> {}]], next |-> 1,
   proc |-> Idle, result |-> Idle]

Init ==
  /\ plan \in Plans
  /\ server = from_definitions(plan.services, ServerMtu)
  /\ client = [b \in plan.bearers |-> NewClient]
  /\ security = [b \in plan.bearers |-> {}]
  /\ pending = {}
  /\ inbox = [b \in plan.bearers |-> <<>>]
  /\ confirm = [b \in plan.bearers |-> 0]
  /\ acked = [b \in plan.bearers |-> <<>>]

Handles == DOMAIN server.attributes

Free(b) == client[b].proc.kind = "idle"

Ask(kind) ==
  /\ kind \in plan.kinds
  /\ plan.calls > 0
  /\ plan' = [plan EXCEPT !.calls = @ - 1]

-----------------------------------------------------------------------------
\* Discovery and reads.  A procedure is [kind, arg, start, end, acc, stable]; the
\* last says that no value of the server has changed since it began.

Begin(b, kind, arg, start, end) ==
  /\ Free(b)
  /\ client' = [client EXCEPT ![b].proc =
                  [kind |-> kind, arg |-> arg, start |-> start, end |-> end, acc |-> <<>>,
                   stable |-> TRUE],
                ![b].result = Idle]
  /\ UNCHANGED <<server, security, pending, inbox, confirm, acked>>

Done(c, p, ok) ==
  [c EXCEPT !.proc = Idle,
            !.result = [kind |-> p.kind, arg |-> p.arg, ok |-> ok, acc |-> p.acc,
                        stable |-> p.stable]]

Chunks(data, n) == [i \in 1..(Len(data) \div n) |-> SubSeq(data, (i - 1) * n + 1, i * n)]

Rest(s, n) == SubSeq(s, n + 1, Len(s))

Found(handle, end, uuid) == [handle |-> handle, end |-> end, uuid |-> uuid]

parse_group_entries(r) ==
  LET chunks == Chunks(r.data, r.length) IN
  [i \in DOMAIN chunks |->
     [handle |-> HandleFrom(chunks[i]), end |-> HandleFrom(Rest(chunks[i], 2)),
      value |-> Rest(chunks[i], 4)]]

parse_type_entries(r) ==
  LET chunks == Chunks(r.data, r.length) IN
  [i \in DOMAIN chunks |-> [handle |-> HandleFrom(chunks[i]), value |-> Rest(chunks[i], 2)]]

\* The loop of a procedure: more entries were found, the last one ending at
\* last; it goes on behind it unless that was the end of the range.
Continue(c, p, found, last) ==
  LET more == [p EXCEPT !.acc = @ \o found, !.start = last + 1] IN
  IF last >= p.end THEN Done(c, more, TRUE) ELSE [c EXCEPT !.proc = more]

\* What an error response does: NOT_FOUND ends the search.
Ended(c, p, code) == Done(c, p, code = NOT_FOUND)

discover_services(c, p, r) ==
  LET entries == parse_group_entries(r) IN
  IF r.code # 0 THEN Ended(c, p, r.code)
  ELSE IF \E i \in DOMAIN entries :
            entries[i].handle < p.start \/ entries[i].end < entries[i].handle
  THEN Done(c, p, FALSE)
  ELSE Continue(c, p, [i \in DOMAIN entries |->
                         Found(entries[i].handle, entries[i].end, UuidFrom(entries[i].value))],
                Last(entries).end)

discover_service_by_uuid(c, p, r) ==
  LET chunks == Chunks(r.data, 4) IN
  IF r.code # 0 THEN Ended(c, p, r.code)
  ELSE Continue(c, p, [i \in DOMAIN chunks |->
                         Found(HandleFrom(chunks[i]), HandleFrom(Rest(chunks[i], 2)), p.arg)],
                HandleFrom(Rest(Last(chunks), 2)))

\* The UUID of an included service is in its declaration when it is short, and
\* is read from the service otherwise.
IncludedUuid(b, value) ==
  IF Len(value) = 6 THEN UuidFrom(Rest(value, 4))
  ELSE UuidFrom(OnRead(server, b, security[b], HandleFrom(value)).data)

discover_included_services(c, p, r, b) ==
  LET entries == parse_type_entries(r) IN
  IF r.code # 0 THEN Ended(c, p, r.code)
  ELSE Continue(c, p, [i \in DOMAIN entries |->
                         Found(HandleFrom(entries[i].value), HandleFrom(Rest(entries[i].value, 2)),
                               IncludedUuid(b, entries[i].value))],
                Last(entries).handle)

Proxy(declaration, value, end) ==
  [declaration |-> declaration, handle |-> HandleFrom(Rest(value, 1)), end |-> end,
   properties |-> value[1], uuid |-> UuidFrom(Rest(value, 3))]

\* A characteristic ends before the next one, the last with the service.
Bounded(proxies, end) ==
  [i \in DOMAIN proxies |->
     [proxies[i] EXCEPT !.end = IF i = Len(proxies) THEN end ELSE proxies[i + 1].declaration - 1]]

discover_characteristics(c, p, r) ==
  LET entries == parse_type_entries(r) IN
  IF r.code # 0
  THEN Ended(c, [p EXCEPT !.acc = Bounded(@, p.end)], r.code)
  ELSE IF \E i \in DOMAIN entries : entries[i].handle < p.start THEN Done(c, p, FALSE)
  ELSE LET more == [p EXCEPT !.acc =
                      Bounded(@ \o [i \in DOMAIN entries |->
                                      Proxy(entries[i].handle, entries[i].value, p.end)], p.end)]
       IN Continue(c, more, <<>>, Last(entries).handle)

discover_attribute_range(c, p, r) ==
  LET entries == parse_type_entries(r) IN
  IF r.code # 0 THEN Ended(c, p, r.code)
  ELSE Continue(c, p, [i \in DOMAIN entries |->
                         [handle |-> entries[i].handle, uuid |-> UuidFrom(entries[i].value)]],
                Last(entries).handle)

\* read_value: a response that fills the MTU is followed by a Read Blob from
\* where the value got to.
ReadValue(c, p, r) ==
  IF p.acc # <<>> /\ r.code \in {NOT_LONG, INVALID_OFFSET} THEN Done(c, p, TRUE)
  ELSE IF r.code # 0 THEN Done(c, p, FALSE)
  ELSE LET more == [p EXCEPT !.acc = @ \o r.data, !.start = @ + Len(r.data)] IN
       IF Len(r.data) < c.mtu - 1 THEN Done(c, more, TRUE) ELSE [c EXCEPT !.proc = more]

ReadStep(b, p) ==
  IF p.acc = <<>> THEN OnRead(server, b, security[b], p.arg)
  ELSE OnReadBlob(server, b, security[b], p.arg, p.start)

\* The next request of the procedure under way on bearer b.
Stepped(b, c, p) ==
  CASE p.kind = "services" ->
         discover_services(c, p, read_by_group_type(server, b, security[b], p.start, p.end, PRIMARY))
    [] p.kind = "by_uuid" ->
         discover_service_by_uuid(c, p, find_by_type_value(server, b, security[b], p.start, p.end,
                                                           PRIMARY, UuidBytes(p.arg)))
    [] p.kind = "included" ->
         discover_included_services(c, p, read_by_type(server, b, security[b], p.start, p.end,
                                                       INCLUDE), b)
    [] p.kind = "characteristics" ->
         discover_characteristics(c, p, read_by_type(server, b, security[b], p.start, p.end,
                                                     CHARACTERISTIC))
    [] p.kind = "attributes" ->
         discover_attribute_range(c, p, find_information(server, p.start, p.end))
    [] p.kind = "read" -> ReadValue(c, p, ReadStep(b, p))

Step(b) ==
  /\ ~Free(b)
  /\ client' = [client EXCEPT ![b] = Stepped(b, client[b], client[b].proc)]
  /\ UNCHANGED <<server, security, pending, inbox, confirm, acked, plan>>

DiscoverServices(b) == Begin(b, "services", 0, 1, LAST_HANDLE)

DiscoverByUuid(b, uuid) == Begin(b, "by_uuid", uuid, 1, LAST_HANDLE)

\* The services the client has just discovered, and the characteristics.
Discovered(b, kind) ==
  IF client[b].result.kind = kind /\ client[b].result.ok THEN ToSet(client[b].result.acc) ELSE {}

DiscoverIncluded(b, service) ==
  service.handle < service.end /\ Begin(b, "included", service, service.handle + 1, service.end)

DiscoverCharacteristics(b, service) ==
  Begin(b, "characteristics", service, service.handle, service.end)

DiscoverDescriptors(b, ch) ==
  ch.handle < ch.end /\ Begin(b, "attributes", <<ch.handle + 1, ch.end>>, ch.handle + 1, ch.end)

DiscoverAttributes(b) == Begin(b, "attributes", <<1, LAST_HANDLE>>, 1, LAST_HANDLE)

ReadCall(b, h) == Begin(b, "read", h, 0, 0)

-----------------------------------------------------------------------------
\* Writes and subscriptions: one request each.

\* Reads under way are no longer of one version of the values.
Unstable(cs) ==
  [b \in DOMAIN cs |-> IF cs[b].proc.kind = "idle" THEN cs[b] ELSE [cs[b] EXCEPT !.proc.stable = FALSE]]

ExchangeMtu(b, mtu) ==
  /\ Free(b)
  /\ \E r \in {OnExchangeMtu(server, b, mtu)} :
       /\ server' = r.s
       /\ client' = [client EXCEPT ![b].mtu = Most(Least(mtu, r.data), ATT_DEFAULT_MTU)]
  /\ UNCHANGED <<security, pending, inbox, confirm, acked>>

\* write_value of the client, with or without a response.
WriteValue(b, h, value) ==
  /\ Free(b)
  /\ \E r \in {OnWrite(server, b, security[b], h, value)} : server' = r.s
  /\ client' = Unstable(client)
  /\ UNCHANGED <<security, pending, inbox, confirm, acked>>

NoSubscribers == {}

Subscribers(c, kind, h) == Keyed(c.subs[kind], h, NoSubscribers)

\* 0 stands for the subscriber without a callback.
IMPLICIT == 0

Bits(kind) == IF kind = "indication" THEN <<2, 0>> ELSE <<1, 0>>

\* subscribe and subscribe_with_listener: recorded once the CCCD is written.
Subscribe(b, kind, cccd, listens) ==
  /\ Free(b)
  /\ \E r \in {OnWrite(server, b, security[b], cccd, Bits(kind))},
        h \in {server.attributes[cccd].cccd},
        who \in {IF listens THEN client[b].next ELSE IMPLICIT} :
       /\ server' = r.s
       /\ client' = IF r.code # 0 THEN client
                    ELSE [client EXCEPT
                            ![b].subs[kind] = Put(@, h, Keyed(@, h, NoSubscribers) \cup {who}),
                            ![b].next = IF listens THEN @ + 1 ELSE @]
  /\ UNCHANGED <<security, pending, inbox, confirm, acked>>

Subscribed(c, h) == \E k \in KINDS : h \in DOMAIN c.subs[k]

UnsubscribeAll(b, cccd, force) ==
  /\ Free(b)
  /\ \E h \in {server.attributes[cccd].cccd}, r \in {OnWrite(server, b, security[b], cccd, <<0, 0>>)} :
       /\ Subscribed(client[b], h) \/ force
       /\ server' = r.s
       /\ client' = IF r.code # 0 THEN client
                    ELSE [client EXCEPT ![b].subs = [k \in KINDS |-> Drop(@[k], h)]]
  /\ UNCHANGED <<security, pending, inbox, confirm, acked>>

\* remove_subscription_listener: the last subscriber takes the entry with it.
Removed(subs, h, who) ==
  IF h \notin DOMAIN subs THEN subs
  ELSE IF subs[h] \ {who} = {} THEN Drop(subs, h) ELSE Put(subs, h, subs[h] \ {who})

\* Mutant: the CCCD is cleared with the last listener of either kind.
RemainsOfBoth(c, h, who) == \A k \in KINDS : Subscribers(c, k, h) \ {who} # {}

Remains(c, h, who) == \E k \in KINDS : Subscribers(c, k, h) \ {who} # {}

\* unsubscribe_listener: the CCCD is cleared only with the last subscriber.
UnsubscribeListener(b, cccd, who) ==
  /\ Free(b)
  /\ \E h \in {server.attributes[cccd].cccd}, r \in {OnWrite(server, b, security[b], cccd, <<0, 0>>)} :
       /\ \E k \in KINDS : who \in Subscribers(client[b], k, h)
       /\ server' = IF Remains(client[b], h, who) THEN server ELSE r.s
       /\ client' = IF ~Remains(client[b], h, who) /\ r.code # 0 THEN client
                    ELSE [client EXCEPT ![b].subs = [k \in KINDS |-> Removed(@[k], h, who)]]
  /\ UNCHANGED <<security, pending, inbox, confirm, acked>>

\* The parts of a long write, and what becomes of them.
PrepareWrite(b, h, w) ==
  /\ Free(b)
  /\ \E r \in {OnPrepareWrite(server, b, security[b], h, w.offset, w.part)} :
       /\ server' = r.s
       /\ acked' = IF r.code # 0 THEN acked
                   ELSE [acked EXCEPT ![b] = Append(@, [h |-> h, offset |-> w.offset, part |-> w.part])]
  /\ UNCHANGED <<client, security, pending, inbox, confirm>>

ExecuteWrite(b, flags) ==
  /\ Free(b)
  /\ acked[b] # <<>>
  /\ server' = execute_writes(server, b, security[b], flags).s
  /\ acked' = [acked EXCEPT ![b] = <<>>]
  /\ client' = Unstable(client)
  /\ UNCHANGED <<security, pending, inbox, confirm>>

-----------------------------------------------------------------------------
\* The server's side.

\* set_attribute_value, set_dynamic_value and clear_dynamic_value.
SetAttributeValue(h, value) ==
  /\ server' = [server EXCEPT !.attributes[h].value = value]
  /\ client' = Unstable(client)
  /\ UNCHANGED <<security, pending, inbox, confirm, acked>>

SetDynamic(h, on) ==
  /\ server.attributes[h].cccd = 0
  /\ server.attributes[h].dynamic # on
  /\ server' = [server EXCEPT !.attributes[h].dynamic = on]
  /\ UNCHANGED <<client, security, pending, inbox, confirm, acked>>

BitOf(kind) == IF kind = "indication" THEN 2 ELSE 1

\* send_subscribed_value: one indication at a time on a bearer.
Targets(kind, h) ==
  {b \in plan.bearers :
     /\ (subscription_bits(server, b, h) \div BitOf(kind)) % 2 = 1
     /\ kind = "indication" => b \notin pending}

SendValue(kind, h) ==
  /\ Targets(kind, h) # {}
  /\ inbox' = [b \in plan.bearers |->
                 IF b \in Targets(kind, h) THEN Append(inbox[b], kind) ELSE inbox[b]]
  /\ pending' = IF kind = "indication" THEN pending \cup Targets(kind, h) ELSE pending
  /\ UNCHANGED <<server, client, security, confirm, acked>>

\* on_notification and on_indication: an indication is confirmed whether or not
\* anyone listens.
Receive(b) ==
  /\ inbox[b] # <<>>
  /\ inbox' = [inbox EXCEPT ![b] = Tail(@)]
  /\ confirm' = [confirm EXCEPT ![b] = @ + IF Head(inbox[b]) = "indication" THEN 1 ELSE 0]
  /\ UNCHANGED <<server, client, security, pending, acked, plan>>

Confirmed(b) ==
  /\ confirm[b] > 0
  /\ confirm' = [confirm EXCEPT ![b] = @ - 1]
  /\ pending' = pending \ {b}
  /\ UNCHANGED <<server, client, security, inbox, acked, plan>>

Secure(b) ==
  /\ "encrypted" \notin security[b]
  /\ security' = [security EXCEPT ![b] = @ \cup {"encrypted"}]
  /\ UNCHANGED <<server, client, pending, inbox, confirm, acked>>

\* remove_att_bearer_state; the next client of the same identity is a new one.
CloseBearer(b) ==
  /\ server' = remove_bearer(server, b)
  /\ client' = [client EXCEPT ![b] = NewClient]
  /\ security' = [security EXCEPT ![b] = {}]
  /\ pending' = pending \ {b}
  /\ inbox' = [inbox EXCEPT ![b] = <<>>]
  /\ confirm' = [confirm EXCEPT ![b] = 0]
  /\ acked' = [acked EXCEPT ![b] = <<>>]

ValueHandles == {h \in Handles : server.attributes[h].cccd = 0 /\ server.attributes[h].type
                                 \notin {PRIMARY, SECONDARY, INCLUDE, CHARACTERISTIC}}

Cccds == {h \in Handles : server.attributes[h].cccd # 0}

Uuids == {plan.services[i].uuid : i \in DOMAIN plan.services}

Discover(b) ==
  \/ Ask("discover") /\ DiscoverServices(b)
  \/ Ask("discover") /\ \E u \in Uuids : DiscoverByUuid(b, u)
  \/ Ask("discover") /\ \E x \in Discovered(b, "services") : DiscoverIncluded(b, x)
  \/ Ask("discover") /\ \E x \in Discovered(b, "services") : DiscoverCharacteristics(b, x)
  \/ Ask("discover") /\ \E x \in Discovered(b, "characteristics") : DiscoverDescriptors(b, x)
  \/ Ask("discover") /\ DiscoverAttributes(b)

Exchange(b) ==
  \/ Ask("read") /\ \E h \in ValueHandles : ReadCall(b, h)
  \/ Ask("mtu") /\ \E mtu \in Mtus : ExchangeMtu(b, mtu)
  \/ Ask("write") /\ \E h \in ValueHandles, v \in Values : WriteValue(b, h, v)
  \/ Ask("queue") /\ \E h \in ValueHandles, w \in Parts : PrepareWrite(b, h, w)
  \/ Ask("queue") /\ \E flags \in {0, 1} : ExecuteWrite(b, flags)

Subscription(b) ==
  \/ Ask("subscribe") /\ \E k \in KINDS, h \in Cccds, l \in BOOLEAN : Subscribe(b, k, h, l)
  \/ Ask("subscribe") /\ \E h \in Cccds, f \in BOOLEAN : UnsubscribeAll(b, h, f)
  \/ Ask("subscribe") /\ \E h \in Cccds, who \in 1..(client[b].next - 1) :
                           UnsubscribeListener(b, h, who)

Environment ==
  \/ Ask("set") /\ \E h \in ValueHandles, v \in Values : SetAttributeValue(h, v)
  \/ Ask("dynamic") /\ \E h \in ValueHandles, on \in BOOLEAN : SetDynamic(h, on)
  \/ Ask("send") /\ \E h \in ValueHandles, k \in KINDS : SendValue(k, h)
  \/ Ask("secure") /\ \E b \in plan.bearers : Secure(b)
  \/ Ask("close") /\ \E b \in plan.bearers : CloseBearer(b)

Next ==
  \/ \E b \in plan.bearers : Discover(b) \/ Exchange(b) \/ Subscription(b)
  \/ Environment
  \/ \E b \in plan.bearers : Step(b) \/ Receive(b) \/ Confirmed(b)

Spec == Init /\ [][Next]_vars

-----------------------------------------------------------------------------
Service(i) == Found(Start(plan.services, i), End(plan.services, i), plan.services[i].uuid)

Services(Test(_)) ==
  LET all == SelectSeq([i \in DOMAIN plan.services |-> i], Test)
  IN [k \in DOMAIN all |-> Service(all[k])]

\* The service whose declaration is at this handle.
At(handle) == CHOOSE i \in DOMAIN plan.services : Start(plan.services, i) = handle

\* A defined characteristic as a client should see it.
Defined(i, k) ==
  LET service == plan.services[i]
      ch == service.characteristics[k]
      at == FoldLeft(LAMBDA n, x : n + Attributes(x),
                     Start(plan.services, i) + 1 + Len(service.includes),
                     SubSeq(service.characteristics, 1, k - 1))
  IN [declaration |-> at, handle |-> at + 1, end |-> at + Attributes(ch) - 1,
      properties |-> ch.properties, uuid |-> ch.uuid]

Expected(r) ==
  CASE r.kind = "services" -> Services(LAMBDA i : plan.services[i].primary)
    [] r.kind = "by_uuid" ->
         Services(LAMBDA i : plan.services[i].primary /\ plan.services[i].uuid = r.arg)
    [] r.kind = "included" ->
         LET includes == plan.services[At(r.arg.handle)].includes
         IN [k \in DOMAIN includes |-> Service(includes[k])]
    [] r.kind = "characteristics" ->
         [k \in DOMAIN plan.services[At(r.arg.handle)].characteristics |->
            Defined(At(r.arg.handle), k)]
    [] r.kind = "attributes" ->
         [k \in 1..(Least(r.arg[2], Len(server.attributes)) - r.arg[1] + 1) |->
            [handle |-> r.arg[1] + k - 1, uuid |-> server.attributes[r.arg[1] + k - 1].type]]

\* A discovery that ends finds exactly what the server was defined with: every
\* service, included service, characteristic and descriptor once, in order,
\* with its handles, however the responses group short and long UUIDs
\* (from_definitions, the discovery requests of GattServer and the discovery
\* loops of GattClient).
DiscoveryExact ==
  \A b \in plan.bearers :
    client[b].result.kind \notin {"idle", "read"} =>
      client[b].result.ok /\ client[b].result.acc = Expected(client[b].result)

\* A read_value that succeeds while nothing is written returns the whole value,
\* whatever its length and whatever MTU the two ends have agreed on.
ReadsWhole ==
  \A b \in plan.bearers :
    LET r == client'[b].result IN
    client[b].proc.kind = "read" /\ r.kind = "read" =>
      (r.ok /\ r.stable => r.acc = server.attributes[r.arg].value)

\* What the server keeps for a bearer is what the client on it believes: they cut
\* values at the same MTU, a characteristic has CCCD bits exactly as long as
\* the client has a subscriber for it, and an indication counts as pending only
\* while it, or its confirmation, is on its way.
BearersAgree ==
  \A b \in plan.bearers :
    /\ negotiated_mtu(server, b) = client[b].mtu
    /\ \A h \in Handles :
         (subscription_bits(server, b, h) # 0) <=> Subscribed(client[b], h)
    /\ Cardinality({i \in DOMAIN inbox[b] : inbox[b][i] = "indication"}) + confirm[b]
         = IF b \in pending THEN 1 ELSE 0

Valued == [h \in Handles |-> server.attributes[h].value]

Applied(values, w) == [values EXCEPT ![w.h] = Overlay(@, w.offset, w.part)]

\* Executing a queue applies every write that was acknowledged on that bearer
\* since its queue was last emptied, in order, or none of them
\* (execute_writes stages the values before it stores them).
QueuedWritesAtomic ==
  \A b \in plan.bearers :
    acked[b] # <<>> /\ acked'[b] = <<>> =>
      Valued' = Valued \/ Valued' = FoldLeft(Applied, Valued, acked[b])
=============================================================================

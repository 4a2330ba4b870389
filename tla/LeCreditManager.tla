--------------------------- MODULE LeCreditManager ---------------------------
(***************************************************************************)
(* The two LeCreditChannelManagers of an LE link                           *)
(* (bumble-l2cap/src/le_credit.rs): how channels are opened, one at a time *)
(* or several in one enhanced request, closed and aborted, and how data    *)
(* and credits find the channel they are for.  Each manager's outbound     *)
(* queue is one ordered stream of signaling and data to the other.  What   *)
(* flows inside a channel is the subject of LeCreditChannel.               *)
(***************************************************************************)
EXTENDS Integers, Sequences, SequencesExt, FiniteSets, FiniteSetsExt, Functions

CONSTANTS
  Managers,       \* the two ends of the link
  Cids,           \* the dynamic CIDs; the code has 0x40..0x7F
  MaxChannels,    \* channels of one enhanced request; the code has 5
  MaxConnects,    \* bound on connection requests
  MaxDisconnects, \* bound on disconnection requests
  MaxAborts,      \* bound on aborts
  MaxData         \* bound on data and credits sent

ASSUME ManagersAssumption == Cardinality(Managers) = 2
ASSUME CidsAssumption == Cids \subseteq Nat \ {0}

VARIABLES
  channels,    \* LeCreditChannelManager::channels, by source CID
  pending,     \* `pending` and `pending_enhanced`, by identifier
  identifier,  \* `identifier`
  wire,        \* what is on its way to each manager
  results,     \* history: requests that were answered
  errors,      \* history: errors process_pdu returned
  strayed,     \* history: data or credits given to a channel they are not for
  opened, disconnects, aborts, sent

tables == <<channels, pending, identifier>>
bounds == <<opened, disconnects, aborts, sent>>
vars == <<tables, wire, results, errors, strayed, bounds>>

Peer(e) == CHOOSE f \in Managers : f # e

\* A channel; `link` only tells apart the channels of different requests.
Channel(destination, state, link) ==
  [destination |-> destination, state |-> state, link |-> link]

Init ==
  /\ channels = [e \in Managers |-> <<>>]
  /\ pending = [e \in Managers |-> <<>>]
  /\ identifier = [e \in Managers |-> 0]
  /\ wire = [e \in Managers |-> <<>>]
  /\ results = {}
  /\ errors = {}
  /\ strayed = FALSE
  /\ opened = 0
  /\ disconnects = 0
  /\ aborts = 0
  /\ sent = 0

-----------------------------------------------------------------------------
\* Mutant: a CID that a pending request will use counts as free.
ReservedByChannels(e) == DOMAIN channels[e]

\* cid_is_reserved
Reserved(e) ==
  DOMAIN channels[e] \cup UNION {Range(pending[e][i].cids) : i \in DOMAIN pending[e]}

\* allocate_cid and allocate_cids: the n lowest free CIDs, in order.
Allocated(e, n) ==
  SubSeq(SetToSortSeq(Cids \ Reserved(e), LAMBDA a, b : a < b), 1, n)

CanAllocate(e, n) == Cardinality(Cids \ Reserved(e)) >= n

Destinations(e) == {channels[e][c].destination : c \in DOMAIN channels[e]}

\* Mutant: every channel of a request talks to the first CID of the answer.
AddedToFirst(table, cids, destinations, links) ==
  [c \in DOMAIN table \cup Range(cids) |->
     IF c \in Range(cids)
     THEN LET i == CHOOSE i \in DOMAIN cids : cids[i] = c
          IN Channel(destinations[1], "connected", links[i])
     ELSE table[c]]

\* The channels of a table with those of a request added: cids[i] talks to
\* destinations[i].
Added(table, cids, destinations, links) ==
  [c \in DOMAIN table \cup Range(cids) |->
     IF c \in Range(cids)
     THEN LET i == CHOOSE i \in DOMAIN cids : cids[i] = c
          IN Channel(destinations[i], "connected", links[i])
     ELSE table[c]]

Without(f, x) == Restrict(f, DOMAIN f \ {x})

\* queue_control and flush_channel: at the end of the outbound queue.
Put(e, message) == wire' = [wire EXCEPT ![Peer(e)] = Append(@, message)]

\* process_pdu takes the next PDU and puts an answer.
TakeAndPut(e, message) ==
  wire' = [wire EXCEPT ![e] = Tail(@), ![Peer(e)] = Append(@, message)]

TakeOnly(e) == wire' = [wire EXCEPT ![e] = Tail(@)]

\* next_identifier; the runs are too short to wrap it.
NextIdentifier(e) == identifier[e] + 1

\* connect and connect_enhanced: reserve CIDs and an identifier, and ask.
Connect(e, known, enhanced, n) ==
  /\ opened + n <= MaxConnects
  /\ CanAllocate(e, n)
  /\ LET cids == Allocated(e, n)
         links == [i \in 1..n |-> opened + i]
     IN /\ pending' = [pending EXCEPT ![e] =
                         [i \in DOMAIN @ \cup {NextIdentifier(e)} |->
                            IF i = NextIdentifier(e)
                            THEN [cids |-> cids, links |-> links, enhanced |-> enhanced]
                            ELSE @[i]]]
        /\ Put(e, [type |-> "connect", id |-> NextIdentifier(e), known |-> known,
                   enhanced |-> enhanced, cids |-> cids, links |-> links])
  /\ identifier' = [identifier EXCEPT ![e] = NextIdentifier(e)]
  /\ opened' = opened + n
  /\ UNCHANGED <<channels, results, errors, strayed, disconnects, aborts, sent>>

Receives(e, type) == wire[e] # <<>> /\ Head(wire[e]).type = type

Answer(m, ok, cids) == [type |-> "answer", id |-> m.id, ok |-> ok, cids |-> cids]

\* The checks of on_connection_request and on_enhanced_connection_request: a
\* registered PSM, CIDs that no channel talks to yet, and CIDs to give.
Acceptable(e, m) ==
  /\ m.known
  /\ Range(m.cids) \cap Destinations(e) = {}
  /\ CanAllocate(e, Len(m.cids))

OnConnectionRequest(e) ==
  /\ Receives(e, "connect")
  /\ LET m == Head(wire[e])
         cids == Allocated(e, Len(m.cids))
     IN IF Acceptable(e, m)
        THEN /\ channels' = [channels EXCEPT ![e] = Added(@, cids, m.cids, m.links)]
             /\ TakeAndPut(e, Answer(m, TRUE, cids))
        ELSE /\ TakeAndPut(e, Answer(m, FALSE, <<>>))
             /\ UNCHANGED channels
  /\ UNCHANGED <<pending, identifier, results, errors, strayed, bounds>>

\* Mutant: a refused request keeps its CIDs and its identifier.
SettledIfAccepted(e, m) == IF m.ok THEN Without(pending[e], m.id) ELSE pending[e]

\* A response ends the request with its identifier, whatever it says.
Settled(e, m) == Without(pending[e], m.id)

\* on_connection_response and on_enhanced_connection_response.  Only the second
\* refuses destination CIDs that another channel already talks to.
OnConnectionResponse(e) ==
  /\ Receives(e, "answer")
  /\ TakeOnly(e)
  /\ LET m == Head(wire[e]) IN
     IF m.id \notin DOMAIN pending[e]
     THEN /\ errors' = errors \cup {"unknown_response"}
          /\ UNCHANGED <<channels, pending, results>>
     ELSE LET p == pending[e][m.id] IN
          /\ pending' = [pending EXCEPT ![e] = Settled(e, m)]
          /\ results' = results \cup Range(p.links)
          /\ IF m.ok /\ p.enhanced /\ Range(m.cids) \cap Destinations(e) # {}
             THEN /\ errors' = errors \cup {"destination_in_use"}
                  /\ UNCHANGED channels
             ELSE /\ channels' = [channels EXCEPT ![e] =
                                    IF m.ok THEN Added(@, p.cids, m.cids, p.links) ELSE @]
                  /\ UNCHANGED errors
  /\ UNCHANGED <<identifier, strayed, bounds>>

\* disconnect: only a connected channel, which then waits for the response.
Disconnect(e, c) ==
  /\ disconnects < MaxDisconnects
  /\ c \in DOMAIN channels[e]
  /\ channels[e][c].state = "connected"
  /\ channels' = [channels EXCEPT ![e][c].state = "disconnecting"]
  /\ identifier' = [identifier EXCEPT ![e] = NextIdentifier(e)]
  /\ Put(e, [type |-> "disconnect", destination |-> channels[e][c].destination, source |-> c,
             link |-> channels[e][c].link])
  /\ disconnects' = disconnects + 1
  /\ UNCHANGED <<pending, results, errors, strayed, opened, aborts, sent>>

\* abort: the channel goes, with no signaling.
Abort(e, c) ==
  /\ aborts < MaxAborts
  /\ c \in DOMAIN channels[e]
  /\ channels' = [channels EXCEPT ![e] = Without(@, c)]
  /\ aborts' = aborts + 1
  /\ UNCHANGED <<pending, identifier, wire, results, errors, strayed, opened, disconnects, sent>>

\* Mutant: the CID pair of a request is not compared.
ClosesByCid(e, m) == m.destination \in DOMAIN channels[e]

\* Whether a disconnection request names a channel of this manager and its peer.
Closes(e, m) ==
  /\ m.destination \in DOMAIN channels[e]
  /\ channels[e][m.destination].destination = m.source

\* on_disconnection_request: close and answer, or return an error.
OnDisconnectionRequest(e) ==
  /\ Receives(e, "disconnect")
  /\ LET m == Head(wire[e]) IN
     IF Closes(e, m)
     THEN /\ channels' = [channels EXCEPT ![e] = Without(@, m.destination)]
          /\ TakeAndPut(e, [type |-> "disconnected", destination |-> m.destination,
                            source |-> m.source, link |-> m.link])
          /\ UNCHANGED errors
     ELSE /\ TakeOnly(e)
          /\ errors' = errors \cup {"unknown_disconnect"}
          /\ UNCHANGED channels
  /\ UNCHANGED <<pending, identifier, results, strayed, bounds>>

\* on_disconnection_response: a response for a channel that is gone is ignored;
\* one that does not fit the channel under its CID is an error.
OnDisconnectionResponse(e) ==
  /\ Receives(e, "disconnected")
  /\ TakeOnly(e)
  /\ LET m == Head(wire[e]) IN
     IF m.source \notin DOMAIN channels[e]
     THEN UNCHANGED <<channels, errors>>
     ELSE IF channels[e][m.source].destination = m.destination
             /\ channels[e][m.source].state = "disconnecting"
     THEN /\ channels' = [channels EXCEPT ![e] = Without(@, m.source)]
          /\ UNCHANGED errors
     ELSE /\ errors' = errors \cup {"unexpected_disconnect_response"}
          /\ UNCHANGED channels
  /\ UNCHANGED <<pending, identifier, results, strayed, bounds>>

\* send: a K-frame to the channel's destination CID; and a credit grant, which
\* names the granting channel's own CID.
Send(e, c, type) ==
  /\ sent < MaxData
  /\ c \in DOMAIN channels[e]
  /\ channels[e][c].state = "connected"
  /\ Put(e, [type |-> type, link |-> channels[e][c].link,
             cid |-> IF type = "data" THEN channels[e][c].destination ELSE c])
  /\ identifier' = IF type = "credit" THEN [identifier EXCEPT ![e] = NextIdentifier(e)] ELSE identifier
  /\ sent' = sent + 1
  /\ UNCHANGED <<channels, pending, results, errors, strayed, opened, disconnects, aborts>>

\* Mutant: a credit is looked up by the CID of this end, too.
AddressedByCid(e, m) == {m.cid} \cap DOMAIN channels[e]

\* The channels a PDU may be for: data by source CID, a credit by destination.
Addressed(e, m) ==
  IF m.type = "data" THEN {m.cid} \cap DOMAIN channels[e]
                     ELSE {c \in DOMAIN channels[e] : channels[e][c].destination = m.cid}

\* Data and credits that reach a connected channel are taken by it; for an
\* unknown channel, or one being closed, process_pdu returns an error.
OnTraffic(e) ==
  /\ Receives(e, "data") \/ Receives(e, "credit")
  /\ TakeOnly(e)
  /\ LET m == Head(wire[e])
         found == Addressed(e, m)
     IN IF found = {} \/ channels[e][Min(found)].state # "connected"
        THEN errors' = errors \cup {"undeliverable"} /\ UNCHANGED strayed
        ELSE /\ strayed' = (strayed \/ channels[e][Min(found)].link # m.link)
             /\ UNCHANGED errors
  /\ UNCHANGED <<tables, results, bounds>>

Receive(e) ==
  \/ OnConnectionRequest(e)
  \/ OnConnectionResponse(e)
  \/ OnDisconnectionRequest(e)
  \/ OnDisconnectionResponse(e)
  \/ OnTraffic(e)

Next ==
  \E e \in Managers :
    \/ \E known \in BOOLEAN : Connect(e, known, FALSE, 1)
    \/ \E n \in 1..MaxChannels : Connect(e, TRUE, TRUE, n)
    \/ \E c \in Cids : Disconnect(e, c)
    \/ \E c \in Cids : Abort(e, c)
    \/ \E c \in Cids, type \in {"data", "credit"} : Send(e, c, type)
    \/ Receive(e)

Spec == Init /\ [][Next]_vars

-----------------------------------------------------------------------------
\* Every table has its shape, and a CID is a channel's or one request's, never
\* both: cid_is_reserved keeps requests that wait for their answer apart.
TypeOK ==
  /\ \A e \in Managers :
       /\ DOMAIN channels[e] \subseteq Cids
       /\ \A c \in DOMAIN channels[e] :
            channels[e][c] \in [destination : Cids, state : {"connected", "disconnecting"},
                                link : 1..MaxConnects]
       /\ \A i \in DOMAIN pending[e] :
            /\ Range(pending[e][i].cids) \subseteq Cids \ DOMAIN channels[e]
            /\ \A k \in DOMAIN pending[e] \ {i} :
                 Range(pending[e][i].cids) \cap Range(pending[e][k].cids) = {}
  /\ results \subseteq 1..MaxConnects

\* No two channels of a manager talk to the same CID of the peer, so that a
\* credit grant, which is looked up by destination, has one channel to go to.
\* (An abort breaks this, as it breaks the next two: it tells the peer nothing.)
DestinationsDistinct ==
  aborts = 0 => \A e \in Managers : \A c, d \in DOMAIN channels[e] :
    channels[e][c].destination = channels[e][d].destination => c = d

\* Data and credits never reach a channel of another connection, although CIDs
\* are reused as soon as one end has closed a channel.
NothingStrays == aborts = 0 => ~strayed

\* Channels that live at the same time, or after each other on the same CIDs, are
\* kept apart.
ChannelsApart == DestinationsDistinct /\ NothingStrays

Quiet == \A e \in Managers : wire[e] = <<>>

\* Once everything under way has arrived, the two tables mirror each other: no
\* channel is open at one end only, and none is left half closed, whoever
\* opened it and whether one end closed it or both did at once.
TablesAgree ==
  Quiet /\ aborts = 0 =>
    \A e \in Managers :
      /\ pending[e] = <<>>
      /\ \A c \in DOMAIN channels[e] :
           /\ channels[e][c].state = "connected"
           /\ channels[e][c].destination \in DOMAIN channels[Peer(e)]
           /\ LET other == channels[Peer(e)][channels[e][c].destination]
              IN other.destination = c /\ other.link = channels[e][c].link

\* The tables of the two managers are well formed, and agree when it is quiet.
TablesSound == TypeOK /\ TablesAgree

\* "A simultaneous peer request or a local abort may already have closed and
\* removed this channel. Upstream deliberately ignores the late response in
\* both cases" (on_disconnection_response): it never draws an error.
LateResponsesIgnored == "unexpected_disconnect_response" \notin errors

\* A disconnection request or response only ever closes the channel it was sent
\* for, also when an abort let its CID go to another channel in the meantime:
\* "Its peer response is harmless" (abort).
ClosesItsOwn ==
  [][\A e \in Managers : \A c \in DOMAIN channels[e] :
       c \notin DOMAIN channels'[e] /\ aborts' = aborts
         => wire[e] # <<>> /\ Head(wire[e]).link = channels[e][c].link]_vars
=============================================================================

--------------------------- MODULE ClassicChannels ---------------------------
(***************************************************************************)
(* The two ChannelManagers of a BR/EDR link                                *)
(* (bumble-l2cap/src/classic.rs): connection, configuration in both        *)
(* directions, data and disconnection of connection-oriented channels.     *)
(* Each manager's outbound queue is one ordered stream to the other.       *)
(* What an Enhanced Retransmission channel does once open is Ertm's        *)
(* subject; here a channel only settles with which parameters it runs.     *)
(***************************************************************************)
EXTENDS Integers, Sequences, SequencesExt, FiniteSets, FiniteSetsExt

CONSTANTS
  Managers,       \* the two ends of the link
  Specs,          \* channel specifications an application may use
  MaxConnects,    \* bound on connection requests
  MaxDisconnects, \* bound on disconnection requests
  MaxData,        \* bound on SDUs sent
  LastCid         \* the last dynamic CID; the code has 0x40..0xffff

VARIABLES
  servers,   \* the specification registered for the PSM, or NoSpec
  channels,  \* ChannelManager::channels, by source CID
  accepted,  \* `accepted_channels`
  wire,      \* what is on its way to each manager
  errors,    \* history: errors process_pdu returned
  opened, disconnects, sent

bounds == <<opened, disconnects, sent>>
vars == <<servers, channels, accepted, wire, errors, bounds>>

Peer(e) == CHOOSE f \in Managers : f # e
NoSpec == [mode |-> "none"]

\* ClassicChannel::outgoing and ::incoming; `link` only tells requests apart, and
\* `peer` is what the peer's configuration request settled.
Channel(destination, state, incoming, spec, link) ==
  [destination |-> destination, state |-> state, incoming |-> incoming, spec |-> spec,
   peerConfigured |-> FALSE, confirmed |-> FALSE, peer |-> NoSpec, link |-> link]

Init ==
  /\ servers \in [Managers -> Specs \cup {NoSpec}]
  /\ channels = [e \in Managers |-> <<>>]
  /\ accepted = [e \in Managers |-> <<>>]
  /\ wire = [e \in Managers |-> <<>>]
  /\ errors = {}
  /\ opened = 0
  /\ disconnects = 0
  /\ sent = 0

-----------------------------------------------------------------------------
\* allocate_cid: channels are never removed, so the table is a sequence and the
\* lowest free CID is the next one.
NewCid(e) == Len(channels[e]) + 1

\* Mutant: the end of the CID range is not looked at.
AlwaysHasCid(e) == TRUE

HasCid(e) == NewCid(e) <= LastCid

Put(e, messages) == wire' = [wire EXCEPT ![Peer(e)] = @ \o messages]
TakeAndPut(e, messages) == wire' = [wire EXCEPT ![e] = Tail(@), ![Peer(e)] = @ \o messages]
Receives(e, type) == wire[e] # <<>> /\ Head(wire[e]).type = type

\* queue_configure_request: the options that the specification calls for.
ConfigureRequest(destination, spec) ==
  [type |-> "configure", destination |-> destination, spec |-> spec]

\* connect and connect_ertm
Connect(e, spec) ==
  /\ opened < MaxConnects
  /\ HasCid(e)
  /\ channels' = [channels EXCEPT ![e] =
                    Append(@, Channel(0, "wait_connect", FALSE, spec, opened + 1))]
  /\ Put(e, <<[type |-> "connect", source |-> NewCid(e), link |-> opened + 1]>>)
  /\ opened' = opened + 1
  /\ UNCHANGED <<servers, accepted, errors, disconnects, sent>>

\* on_connection_request: refused without a server or a CID; otherwise the
\* channel exists, and the answer is followed by its configuration request.
OnConnectionRequest(e) ==
  /\ Receives(e, "connect")
  /\ LET m == Head(wire[e])
         answer(ok) == [type |-> "connected", destination |-> IF ok THEN NewCid(e) ELSE 0,
                        source |-> m.source, ok |-> ok]
     IN IF servers[e] # NoSpec /\ HasCid(e)
        THEN /\ channels' = [channels EXCEPT ![e] =
                               Append(@, Channel(m.source, "configuring", TRUE, servers[e], m.link))]
             /\ TakeAndPut(e, <<answer(TRUE), ConfigureRequest(m.source, servers[e])>>)
        ELSE /\ TakeAndPut(e, <<answer(FALSE)>>)
             /\ UNCHANGED channels
  /\ UNCHANGED <<servers, accepted, errors, bounds>>

\* on_connection_response
OnConnectionResponse(e) ==
  /\ Receives(e, "connected")
  /\ LET m == Head(wire[e])
         channel == channels[e][m.source]
     IN IF channel.state # "wait_connect"
        THEN /\ TakeAndPut(e, <<>>)
             /\ errors' = errors \cup {"invalid_state"}
             /\ UNCHANGED channels
        ELSE /\ channels' = [channels EXCEPT ![e][m.source] =
                               IF m.ok THEN [@ EXCEPT !.destination = m.destination,
                                                      !.state = "configuring"]
                                       ELSE [@ EXCEPT !.state = "closed"]]
             /\ TakeAndPut(e, IF m.ok THEN <<ConfigureRequest(m.destination, channel.spec)>>
                                      ELSE <<>>)
             /\ UNCHANGED errors
  /\ UNCHANGED <<servers, accepted, bounds>>

-----------------------------------------------------------------------------
\* The checks of on_configure_request.  A mode that does not fit is refused
\* inside the loop over the options, which leaves the channel's state alone; a
\* missing mode or another frame check closes the channel.
Verdict(own, peer) ==
  CASE own.mode = "basic" /\ peer.mode = "basic" -> "accept"
    [] own.mode = "basic" /\ peer.mode = "ertm"  -> "refuse"
    [] own.mode = "ertm" /\ peer.mode = "basic"  -> "close"
    [] own.mode = "ertm" /\ peer.mode = "ertm"   -> IF own.fcs = peer.fcs THEN "accept" ELSE "close"

\* maybe_open
Opened(channel) ==
  IF channel.peerConfigured /\ channel.confirmed /\ channel.state = "configuring"
  THEN [channel EXCEPT !.state = "open"] ELSE channel

\* Mutant: a channel is announced once the peer's request is accepted.
AnnouncedOnRequest(e, c, channel) ==
  IF channel.incoming /\ channel.peerConfigured /\ c \notin Range(accepted[e])
  THEN [accepted EXCEPT ![e] = Append(@, c)] ELSE accepted

\* maybe_open announces an incoming channel when it opens.
Announced(e, c, channel) ==
  IF channel.incoming /\ channel.state # "open" /\ Opened(channel).state = "open"
  THEN [accepted EXCEPT ![e] = Append(@, c)] ELSE accepted

\* The channel after a configuration step, opened if both halves are done.
Configure(e, c, channel) ==
  /\ channels' = [channels EXCEPT ![e][c] = Opened(channel)]
  /\ accepted' = Announced(e, c, channel)

\* on_configure_request
OnConfigureRequest(e) ==
  /\ Receives(e, "configure")
  /\ LET m == Head(wire[e])
         channel == channels[e][m.destination]
         verdict == Verdict(channel.spec, m.spec)
     IN /\ Configure(e, m.destination,
             CASE verdict = "accept" -> [channel EXCEPT !.peerConfigured = TRUE, !.peer = m.spec]
               [] verdict = "refuse" -> channel
               [] verdict = "close"  -> [channel EXCEPT !.state = "closed"])
        /\ TakeAndPut(e, <<[type |-> "configured", source |-> channel.destination,
                            ok |-> verdict = "accept"]>>)
  /\ UNCHANGED <<servers, errors, bounds>>

\* The channel after the peer's verdict on its configuration request.
Confirmed(channel, ok) ==
  IF ok THEN [channel EXCEPT !.confirmed = TRUE] ELSE [channel EXCEPT !.state = "closed"]

\* on_configure_response
OnConfigureResponse(e) ==
  /\ Receives(e, "configured")
  /\ LET m == Head(wire[e])
         channel == channels[e][m.source]
     IN Configure(e, m.source, Confirmed(channel, m.ok))
  /\ TakeAndPut(e, <<>>)
  /\ UNCHANGED <<servers, errors, bounds>>

-----------------------------------------------------------------------------
\* Mutant: an SDU may be sent as soon as the peer's CID is known.
SendWhileConfiguring(e, c) ==
  /\ sent < MaxData
  /\ channels[e][c].state \in {"configuring", "open"}
  /\ Put(e, <<[type |-> "data", destination |-> channels[e][c].destination,
               link |-> channels[e][c].link]>>)
  /\ sent' = sent + 1
  /\ UNCHANGED <<servers, channels, accepted, errors, opened, disconnects>>

\* send
Send(e, c) ==
  /\ sent < MaxData
  /\ channels[e][c].state = "open"
  /\ Put(e, <<[type |-> "data", destination |-> channels[e][c].destination,
               link |-> channels[e][c].link]>>)
  /\ sent' = sent + 1
  /\ UNCHANGED <<servers, channels, accepted, errors, opened, disconnects>>

\* process_pdu on a data CID: only an open channel takes an SDU.
OnData(e) ==
  /\ Receives(e, "data")
  /\ LET channel == channels[e][Head(wire[e]).destination] IN
     errors' = IF channel.state = "open" THEN errors ELSE errors \cup {channel.state}
  /\ TakeAndPut(e, <<>>)
  /\ UNCHANGED <<servers, channels, accepted, bounds>>

\* Mutant: the channel is closed without waiting for the peer.
DisconnectAtOnce(e, c) ==
  /\ disconnects < MaxDisconnects
  /\ channels[e][c].state = "open"
  /\ channels' = [channels EXCEPT ![e][c].state = "closed"]
  /\ UNCHANGED wire
  /\ disconnects' = disconnects + 1
  /\ UNCHANGED <<servers, accepted, errors, opened, sent>>

\* disconnect
Disconnect(e, c) ==
  /\ disconnects < MaxDisconnects
  /\ channels[e][c].state = "open"
  /\ channels' = [channels EXCEPT ![e][c].state = "wait_disconnect"]
  /\ Put(e, <<[type |-> "disconnect", destination |-> channels[e][c].destination, source |-> c]>>)
  /\ disconnects' = disconnects + 1
  /\ UNCHANGED <<servers, accepted, errors, opened, sent>>

\* on_disconnection_request
OnDisconnectionRequest(e) ==
  /\ Receives(e, "disconnect")
  /\ LET m == Head(wire[e]) IN
     IF channels[e][m.destination].destination = m.source
     THEN /\ channels' = [channels EXCEPT ![e][m.destination].state = "closed"]
          /\ TakeAndPut(e, <<[type |-> "disconnected", destination |-> m.destination,
                              source |-> m.source]>>)
          /\ UNCHANGED errors
     ELSE /\ TakeAndPut(e, <<>>)
          /\ errors' = errors \cup {"mismatch"}
          /\ UNCHANGED channels
  /\ UNCHANGED <<servers, accepted, bounds>>

\* on_disconnection_response
OnDisconnectionResponse(e) ==
  /\ Receives(e, "disconnected")
  /\ LET m == Head(wire[e]) IN
     IF channels[e][m.source].destination = m.destination
     THEN /\ channels' = [channels EXCEPT ![e][m.source].state = "closed"]
          /\ UNCHANGED errors
     ELSE /\ errors' = errors \cup {"mismatch"}
          /\ UNCHANGED channels
  /\ TakeAndPut(e, <<>>)
  /\ UNCHANGED <<servers, accepted, bounds>>

\* process_control and process_pdu
Receive(e) ==
  \/ OnConnectionRequest(e)
  \/ OnConnectionResponse(e)
  \/ OnConfigureRequest(e)
  \/ OnConfigureResponse(e)
  \/ OnData(e)
  \/ OnDisconnectionRequest(e)
  \/ OnDisconnectionResponse(e)

Next ==
  \E e \in Managers :
    \/ \E spec \in Specs : Connect(e, spec)
    \/ \E c \in DOMAIN channels[e] : Send(e, c)
    \/ \E c \in DOMAIN channels[e] : Disconnect(e, c)
    \/ Receive(e)

Spec == Init /\ [][Next]_vars

-----------------------------------------------------------------------------
States == {"wait_connect", "configuring", "open", "wait_disconnect", "closed"}

\* Every table has its shape.
TypeOK ==
  \A e \in Managers :
    /\ Len(channels[e]) <= LastCid
    /\ \A c \in DOMAIN channels[e] :
         /\ channels[e][c].destination \in 0..LastCid
         /\ channels[e][c].state \in States
         /\ channels[e][c].spec \in Specs
         /\ channels[e][c].link \in 1..MaxConnects
    /\ Range(accepted[e]) \subseteq DOMAIN channels[e]
    /\ servers[e] \in Specs \cup {NoSpec}

\* The handshakes never draw an error, and data never reaches a channel that is
\* not open yet: whichever end opens first, its configuration response is ahead
\* of its first SDU.
DataMeetsOpenChannel ==
  errors \cap {"configuring", "wait_connect", "invalid_state", "mismatch"} = {}

Quiet == \A e \in Managers : wire[e] = <<>>

\* Once everything under way has arrived a channel is open at both ends or at
\* neither.  When it is open, each end runs with what the other announced: the
\* same mode and frame check, and the other's MTU and transmit window.
EndsAgree ==
  Quiet =>
    \A e \in Managers : \A c \in DOMAIN channels[e] :
      LET channel == channels[e][c] IN
      /\ channel.state \in {"open", "closed"}
      /\ channel.state = "open" =>
           /\ channel.destination \in DOMAIN channels[Peer(e)]
           /\ LET other == channels[Peer(e)][channel.destination] IN
              /\ other.state = "open" /\ other.link = channel.link
              /\ channel.peer = other.spec
              /\ channel.spec.mode = other.spec.mode /\ channel.spec.fcs = other.spec.fcs

\* The server's application is told of each incoming channel once, when it is
\* open, and of no channel that failed to configure.
AcceptedOnce ==
  \A e \in Managers : \A c \in DOMAIN channels[e] :
    LET times == Cardinality({i \in DOMAIN accepted[e] : accepted[e][i] = c}) IN
    /\ times <= 1
    /\ channels[e][c].state \in {"open", "wait_disconnect"} =>
         times = IF channels[e][c].incoming THEN 1 ELSE 0
    /\ channels[e][c].state \in {"wait_connect", "configuring"} => times = 0
=============================================================================

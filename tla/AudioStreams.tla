---------------------------- MODULE AudioStreams ----------------------------
(***************************************************************************)
(* Audio Stream Control (bumble-profiles/src/ascs.rs): the stream          *)
(* endpoints (ASEs) of AudioStreamControlService, its control point and    *)
(* its queue of notifications, served by the single-threaded loop of the   *)
(* LE Audio unicast server (bumble-transport/src/bin/bumble-lea-unicast.rs)*)
(* to a client that writes operations, creates CISes, and loses and        *)
(* restores its link.                                                      *)
(*                                                                         *)
(* A codec configuration or a metadata block is a number, 0 for one that   *)
(* does not parse.  A CIS is named by its CIS identifier, which also       *)
(* stands for its connection handle.  Audio itself is left out.            *)
(***************************************************************************)
EXTENDS Integers, Sequences, FiniteSets, SequencesExt

CONSTANTS
    Sinks, Sources,  \* the ASE identifiers of each role
    Operations,      \* operations the client writes: [code, items], items a
                     \* sequence of [id, arg]
    CisIds,          \* the CISes the client creates
    MaxUp,           \* bound on what waits for the server's next poll
    Bounds           \* bounds on the client's writes, drops and CISes

VARIABLES srv, cli, up, down, left

streamVars == <<srv, cli, up, down, left>>

Ids == Sinks \cup Sources

\* AseEndpoint::new.
Endpoint == [state |-> "IDLE", codec |-> 1, cis |-> 0, meta |-> 1]

\* AseEndpoint::value: what each state shows of the endpoint.
Value(e) ==
    [state |-> e.state,
     codec |-> IF e.state = "CODEC_CONFIGURED" THEN e.codec ELSE 0,
     cis |-> IF e.state \in {"QOS_CONFIGURED", "ENABLING", "STREAMING", "DISABLING"}
             THEN e.cis ELSE 0,
     meta |-> IF e.state \in {"ENABLING", "STREAMING", "DISABLING"} THEN e.meta ELSE 0]

-----------------------------------------------------------------------------
(* The operations on one endpoint: [e, code].                               *)

Answer(e, code) == [e |-> e, code |-> code]
invalid_transition(e) == Answer(e, "TRANSITION")

config_codec(e, config) ==
    IF e.state \notin {"IDLE", "CODEC_CONFIGURED", "QOS_CONFIGURED"} THEN invalid_transition(e)
    ELSE IF config = 0 THEN Answer(e, "CONFIGURATION")
    ELSE Answer([e EXCEPT !.codec = config, !.state = "CODEC_CONFIGURED"], "SUCCESS")

config_qos(e, cis) ==
    IF e.state \notin {"CODEC_CONFIGURED", "QOS_CONFIGURED"} THEN invalid_transition(e)
    ELSE Answer([e EXCEPT !.cis = cis, !.state = "QOS_CONFIGURED"], "SUCCESS")

enable(e, meta) ==
    IF e.state # "QOS_CONFIGURED" THEN invalid_transition(e)
    ELSE IF meta = 0 THEN Answer(e, "METADATA")
    ELSE Answer([e EXCEPT !.meta = meta, !.state = "ENABLING"], "SUCCESS")

receiver_start_ready(e) ==
    IF e.state # "ENABLING" THEN invalid_transition(e)
    ELSE Answer([e EXCEPT !.state = "STREAMING"], "SUCCESS")

disable(e, sink) ==
    IF e.state \notin {"ENABLING", "STREAMING"} THEN invalid_transition(e)
    ELSE Answer([e EXCEPT !.state = IF sink THEN "QOS_CONFIGURED" ELSE "DISABLING"], "SUCCESS")

receiver_stop_ready(e, sink) ==
    IF sink \/ e.state # "DISABLING" THEN invalid_transition(e)
    ELSE Answer([e EXCEPT !.state = "QOS_CONFIGURED"], "SUCCESS")

update_metadata(e, meta) ==
    IF e.state \notin {"ENABLING", "STREAMING"} THEN invalid_transition(e)
    ELSE IF meta = 0 THEN Answer(e, "METADATA")
    ELSE Answer([e EXCEPT !.meta = meta], "SUCCESS")

release(e) ==
    IF e.state = "IDLE" THEN invalid_transition(e)
    ELSE Answer([e EXCEPT !.state = "RELEASING"], "SUCCESS")

Applied(e, code, item) ==
    CASE code = "CONFIG_CODEC" -> config_codec(e, item.arg)
      [] code = "CONFIG_QOS" -> config_qos(e, item.arg)
      [] code = "ENABLE" -> enable(e, item.arg)
      [] code = "RECEIVER_START_READY" -> receiver_start_ready(e)
      [] code = "DISABLE" -> disable(e, item.id \in Sinks)
      [] code = "RECEIVER_STOP_READY" -> receiver_stop_ready(e, item.id \in Sinks)
      [] code = "UPDATE_METADATA" -> update_metadata(e, item.arg)
      [] code = "RELEASE" -> release(e)

-----------------------------------------------------------------------------
(* The control point.  A notification is [ase, value, codes]: ASE 0 is the  *)
(* control point itself.                                                    *)

NoValue == Value(Endpoint)
Status(id, e) == [ase |-> id, value |-> Value(e), codes |-> <<>>]
Response(codes) == [ase |-> 0, value |-> NoValue, codes |-> codes]

\* Mutant: a release is shown as releasing only.
ApplyShowingOnce(acc, code, item) ==
    IF item.id \notin Ids
    THEN [acc EXCEPT !.codes = Append(@, "ASE_ID")]
    ELSE LET r == Applied(acc.eps[item.id], code, item)
             idle == code = "RELEASE" /\ r.code = "SUCCESS"
             final == IF idle THEN [r.e EXCEPT !.state = "IDLE"] ELSE r.e
         IN  [eps |-> [acc.eps EXCEPT ![item.id] = final],
              codes |-> Append(acc.codes, r.code),
              notes |-> Append(acc.notes, Status(item.id, r.e))]

\* One item of an operation on acc = [eps, codes, notes].  A release that
\* succeeds is shown twice: releasing, then idle.
apply_and_snapshot(acc, code, item) ==
    IF item.id \notin Ids
    THEN [acc EXCEPT !.codes = Append(@, "ASE_ID")]
    ELSE LET r == Applied(acc.eps[item.id], code, item)
             idle == code = "RELEASE" /\ r.code = "SUCCESS"
             final == IF idle THEN [r.e EXCEPT !.state = "IDLE"] ELSE r.e
         IN  [eps |-> [acc.eps EXCEPT ![item.id] = final],
              codes |-> Append(acc.codes, r.code),
              notes |-> acc.notes \o <<Status(item.id, r.e)>>
                          \o (IF idle THEN <<Status(item.id, final)>> ELSE <<>>)]

process_operation(eps, op) ==
    FoldLeft(LAMBDA acc, item : apply_and_snapshot(acc, op.code, item),
             [eps |-> eps, codes |-> <<>>, notes |-> <<>>], op.items)

\* The control point's write handler: the response first, then the snapshots.
OnWrite(s, op) ==
    LET r == process_operation(s.eps, op)
    IN  [s EXCEPT !.eps = r.eps,
                  !.pending = @ \o <<Response(r.codes)>> \o r.notes]

\* AudioStreamControlService::establish_cis: sinks start streaming, sources
\* are shown as they are.
EnablingOn(s, c) == {i \in Ids : s.eps[i].cis = c /\ s.eps[i].state = "ENABLING"}

establish_cis(s, c) ==
    LET changed == EnablingOn(s, c)
        eps == [i \in Ids |-> IF i \in changed /\ i \in Sinks
                              THEN [s.eps[i] EXCEPT !.state = "STREAMING"] ELSE s.eps[i]]
        order == SetToSortSeq(changed, <)
    IN  [s EXCEPT !.eps = eps,
                  !.pending = @ \o [k \in 1 .. Len(order) |-> Status(order[k], eps[order[k]])]]

-----------------------------------------------------------------------------
(* The server's loop.                                                       *)

\* What one packet does to the Device and, through it, to the services.  A link
\* that closes takes its CISes along.
OnPacket(s, p) ==
    CASE p.what = "write" -> OnWrite(s, p.op)
      [] p.what = "read" ->
           [s EXCEPT !.out = @ \o [k \in 1 .. Cardinality(Ids) |->
                LET i == SetToSortSeq(Ids, <)[k] IN Status(i, s.eps[i])]]
      [] p.what = "up" -> [s EXCEPT !.linked = TRUE, !.out = <<>>]
      [] p.what = "down" ->
           [s EXCEPT !.linked = FALSE, !.established = {}, !.requests = <<>>, !.offers = {},
                     !.out = <<>>]
      [] p.what = "request" -> [s EXCEPT !.requests = Append(@, p.cis)]
      [] p.what = "established" -> [s EXCEPT !.established = @ \cup {p.cis}]
      [] p.what = "lost" ->
           [s EXCEPT !.established = @ \ {p.cis}]

poll(s, packets) == FoldLeft(OnPacket, s, packets)

\* MediaRuntime::reset, called when the loop sees that the link went.
reset(s) ==
    [s EXCEPT !.eps = [i \in Ids |-> [@[i] EXCEPT !.state = "IDLE"]],
              !.cis = {}, !.configured = {}]

OnLinkChange(s) ==
    IF s.linked = s.seen THEN s
    ELSE IF s.linked THEN [s EXCEPT !.seen = TRUE]
    ELSE reset([s EXCEPT !.seen = FALSE])

\* accept_cis_requests: a request for a CIS of an endpoint that waits for it,
\* or already streams, is accepted; another is ignored.
accept_cis_requests(s) ==
    LET wanted == {c \in ToSet(s.requests) :
                     \E i \in Ids : s.eps[i].cis = c /\ s.eps[i].state \in {"ENABLING", "STREAMING"}}
    IN  [s EXCEPT !.requests = <<>>, !.cis = @ \cup wanted, !.offers = @ \cup wanted]

\* MediaRuntime::establish_cis: CISes that went are forgotten, and each one newly
\* established is told to the service once.
EstablishAll(s) ==
    LET kept == [s EXCEPT !.cis = @ \ (s.configured \ s.established),
                          !.configured = @ \cap s.established]
        fresh == SetToSortSeq((kept.established \ kept.configured) \cap kept.cis, <)
    IN  [FoldLeft(establish_cis, kept, fresh) EXCEPT !.configured = @ \cup ToSet(fresh)]

\* notify_pending: the queue is drained; what it held goes to the client if there
\* is one.
notify_pending(s) ==
    [s EXCEPT !.out = IF s.linked THEN @ \o s.pending ELSE <<>>, !.pending = <<>>]

Turn(s) == notify_pending(EstablishAll(accept_cis_requests(OnLinkChange(s))))

\* One iteration of run: everything that arrived is polled, then the media
\* runtime takes its turn.
Loop ==
    /\ up # <<>>
    /\ \E s \in {Turn(poll(srv, up))} :
          /\ srv' = [s EXCEPT !.out = <<>>]
          /\ down' = IF cli.on THEN down \o s.out ELSE <<>>
    /\ up' = <<>>
    /\ UNCHANGED <<cli, left>>

-----------------------------------------------------------------------------
(* The client, its controller and the link.                                 *)

NoOp == [code |-> "NONE", items |-> <<>>]
Packet(what, op, cis) == [what |-> what, op |-> op, cis |-> cis]

Spend(kind) == left[kind] > 0 /\ left' = [left EXCEPT ![kind] = @ - 1]

\* The link comes up, and the client subscribes to and reads every ASE.
Connect ==
    /\ ~cli.on
    /\ Len(up) + 2 <= MaxUp
    /\ cli' = [cli EXCEPT !.on = TRUE]
    /\ up' = up \o <<Packet("up", NoOp, 0), Packet("read", NoOp, 0)>>
    /\ UNCHANGED <<srv, down, left>>

\* The link goes: what was on its way to the client is lost, and what the client
\* knew is void.
Drop ==
    /\ cli.on
    /\ Spend("drops")
    /\ Len(up) < MaxUp
    /\ cli' = [on |-> FALSE, view |-> [i \in Ids |-> NoValue], fresh |-> {}]
    /\ up' = Append(up, Packet("down", NoOp, 0))
    /\ down' = <<>>
    /\ UNCHANGED srv

\* AudioStreamControlServiceProxy::write_operation.
write_operation(op) ==
    /\ cli.on
    /\ Spend("writes")
    /\ Len(up) < MaxUp
    /\ up' = Append(up, Packet("write", op, 0))
    /\ UNCHANGED <<srv, cli, down>>

RequestCis(c) ==
    /\ cli.on
    /\ c \notin srv.established
    /\ Spend("cises")
    /\ Len(up) < MaxUp
    /\ up' = Append(up, Packet("request", NoOp, c))
    /\ UNCHANGED <<srv, cli, down>>

\* The controllers complete a CIS the server accepted, or it fails later.
CisEstablished(c) ==
    /\ cli.on
    /\ c \in srv.offers
    /\ Len(up) < MaxUp
    /\ srv' = [srv EXCEPT !.offers = @ \ {c}]
    /\ up' = Append(up, Packet("established", NoOp, c))
    /\ UNCHANGED <<cli, down, left>>

CisLost(c) ==
    /\ cli.on
    /\ c \in srv.established
    /\ Spend("drops")
    /\ Len(up) < MaxUp
    /\ up' = Append(up, Packet("lost", NoOp, c))
    /\ UNCHANGED <<srv, cli, down>>

\* event_from_notification and read_ase: the last status received is the
\* client's view of the ASE.
Receive ==
    /\ down # <<>>
    /\ \E n \in {Head(down)} :
          cli' = IF n.ase = 0 THEN cli
                 ELSE [cli EXCEPT !.view[n.ase] = n.value, !.fresh = @ \cup {n.ase}]
    /\ down' = Tail(down)
    /\ UNCHANGED <<srv, up, left>>

StreamInit ==
    /\ srv = [eps |-> [i \in Ids |-> Endpoint], pending |-> <<>>, out |-> <<>>,
              linked |-> FALSE, seen |-> FALSE, cis |-> {}, configured |-> {},
              established |-> {}, requests |-> <<>>, offers |-> {}]
    /\ cli = [on |-> FALSE, view |-> [i \in Ids |-> NoValue], fresh |-> {}]
    /\ up = <<>>
    /\ down = <<>>
    /\ left = Bounds

StreamNext ==
    \/ Loop
    \/ Connect
    \/ Drop
    \/ \E op \in Operations : write_operation(op)
    \/ \E c \in CisIds : RequestCis(c) \/ CisEstablished(c) \/ CisLost(c)
    \/ Receive

-----------------------------------------------------------------------------
\* A client that has received everything sent to it knows the state of every ASE
\* as the server has it, with the fields that state shows: through operations on
\* several ASEs at once, releases, CISes that complete between two operations,
\* and links that drop and return within one iteration of the server's loop
\* (the notifications of process_operation and establish_cis, reset, and
\* notify_pending).
AseViewFollows ==
    cli.on /\ up = <<>> /\ down = <<>>
        => /\ cli.fresh = Ids
           /\ \A i \in Ids : cli.view[i] = Value(srv.eps[i])
=============================================================================

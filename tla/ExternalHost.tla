---------------------------- MODULE ExternalHost ----------------------------
(***************************************************************************)
(* ExternalHost, which drives a controller behind a packet source and sink *)
(* for a Device, and the blocking calls built on it: direct HCI commands,  *)
(* initialize_device, and ATT requests over the fixed channel or an EATT   *)
(* bearer.                                                                  *)
(*                                                                         *)
(* A reader thread moves packets from the source to a channel.  Everything *)
(* else runs on the application's thread: Device commands are queued and   *)
(* sent one at a time, each after the completion of the one before; a      *)
(* direct command takes its answer straight from the channel and leaves    *)
(* every other packet for the Device; an ATT request polls the Device and  *)
(* waits in turns until its answer is in the Device's inbox.  Any of them  *)
(* may time out, the stream may end and a read or a write may fail.        *)
(***************************************************************************)
EXTENDS Integers, FiniteSets, Sequences, SequencesExt

CONSTANTS
    Plans       \* pairs of a controller, [sup, fails, pages, length], and of how
                \* often each kind of step is taken with it

VARIABLES
    ex,         \* the ExternalHost
    chan,       \* the reader's channel to the ExternalHost
    app,        \* the blocking call the application is in
    dev,        \* the Device, as far as these calls see it
    ctl,        \* the controller and the peer behind it
    plan        \* what may still happen

vars == <<ex, chan, app, dev, ctl, plan>>

Kinds == {"submit", "direct", "vendor", "noreply", "init", "att", "eatt", "open",
          "async", "timeout", "fault", "shutdown"}

\* One record for every packet from the controller, and for the two messages
\* that end the channel (k = "Ended" and "Failed").  of is the number of the
\* command or request answered, n the commands the controller has room for.
Packet(k, op, of, n, ok) == [k |-> k, op |-> op, of |-> of, n |-> n, ok |-> ok]

NoCall == [at |-> "idle", op |-> "none", id |-> 0, bearer |-> "none", script |-> <<>>,
           page |-> 0, init |-> FALSE]

Init ==
    /\ \E p \in Plans :
       /\ plan = p[2]
       /\ ctl = [profile |-> p[1], cmds |-> <<>>, reqs |-> <<>>, room |-> TRUE, out |-> <<>>,
                 log |-> <<>>, end |-> "open", broken |-> FALSE, serial |-> 1]
    /\ ex = [state |-> "Running", pending |-> <<>>, queue |-> <<>>, outstanding |-> {},
             credit |-> TRUE, notified |-> FALSE, reader |-> "running"]
    /\ chan = <<>>
    /\ app = NoCall
    /\ dev = [seen |-> <<>>, taken |-> {}, flushes |-> 0, connected |-> TRUE,
              bearers |-> {}, inbox |-> <<>>, opened |-> {}, last |-> <<0, 0>>,
              abandoned |-> {}, pools |-> {}]

Ask(kind) ==
    /\ plan[kind] > 0
    /\ plan' = [plan EXCEPT ![kind] = @ - 1]

-----------------------------------------------------------------------------
(* The controller and the source.                                          *)

Emit(c, p) == [c EXCEPT !.out = Append(@, p), !.log = Append(@, p)]

\* It answers the oldest command.  A Device command may be answered with no
\* room left, and the room announced later.  A vendor command is answered by a
\* vendor event only, and a command without response ends the stream.
Answer ==
    /\ ctl.cmds # <<>>
    /\ ctl.end = "open"
    /\ LET c == Head(ctl.cmds)
           rest == [ctl EXCEPT !.cmds = Tail(@)]
           ok == c.op \notin ctl.profile.fails
       IN  CASE c.op = "vendor" -> ctl' = Emit(rest, Packet("Vendor", c.op, c.id, 1, TRUE))
             [] c.op = "noreply" -> ctl' = [rest EXCEPT !.end = "Ended"]
             [] OTHER -> \E k \in {"Complete", "Status"}, n \in 0 .. 1 :
                   /\ n = 0 => c.device
                   /\ k = "Status" => c.device
                   /\ ctl' = Emit([rest EXCEPT !.room = n = 1], Packet(k, c.op, c.id, n, ok))
    /\ UNCHANGED <<ex, chan, app, dev, plan>>

\* A Command Complete for no command announces room.
Announce ==
    /\ ~ctl.room
    /\ ctl.cmds = <<>>
    /\ ctl.end = "open"
    /\ ctl' = Emit([ctl EXCEPT !.room = TRUE], Packet("Complete", "none", 0, 1, TRUE))
    /\ UNCHANGED <<ex, chan, app, dev, plan>>

\* An event that the Device answers with a command, a notification, or the end
\* of the LE connection.
Happen ==
    /\ Ask("async")
    /\ ctl.end = "open"
    /\ \E k \in {"Event", "Notify", "Gone"} :
          /\ k = "Gone" => \A i \in DOMAIN ctl.log : ctl.log[i].k # "Gone"
          /\ ctl' = Emit([ctl EXCEPT !.reqs = IF k = "Gone" THEN <<>> ELSE @],
                         Packet(k, "none", 0, 1, TRUE))
    /\ UNCHANGED <<ex, chan, app, dev>>

\* The peer answers its oldest request; it may refuse to open a bearer.
Respond ==
    /\ ctl.reqs # <<>>
    /\ ctl.end = "open"
    /\ LET r == Head(ctl.reqs) IN
       \E ok \in BOOLEAN :
          /\ ok \/ r.op = "open"
          /\ ctl' = Emit([ctl EXCEPT !.reqs = Tail(@)],
                         Packet(IF r.op = "open" THEN "Opened" ELSE "Att", r.op, r.id, 1, ok))
    /\ UNCHANGED <<ex, chan, app, dev, plan>>

\* The stream ends or a read fails, or writes fail from now on.
Fault ==
    /\ Ask("fault")
    /\ ctl.end = "open"
    /\ \/ \E how \in {"Ended", "Failed"} : ctl' = [ctl EXCEPT !.end = how]
       \/ ~ctl.broken /\ ctl' = [ctl EXCEPT !.broken = TRUE]
    /\ UNCHANGED <<ex, chan, app, dev>>

\* The reader thread: packets in order, then the end, once.
Reader ==
    /\ ex.reader = "running"
    /\ IF ctl.out # <<>> /\ ctl.end # "stopped"
       THEN /\ chan' = Append(chan, Head(ctl.out))
            /\ ctl' = [ctl EXCEPT !.out = Tail(@)]
            /\ ex' = ex
       ELSE /\ ctl.end # "open"
            /\ chan' = Append(chan, Packet(IF ctl.end = "Failed" THEN "Failed" ELSE "Ended",
                                           "none", 0, 0, TRUE))
            /\ ex' = [ex EXCEPT !.reader = "done"]
            /\ ctl' = ctl
    /\ UNCHANGED <<app, dev, plan>>

-----------------------------------------------------------------------------
(* The command flow.  A state here is [e, out]: the ExternalHost and the   *)
(* commands written.                                                        *)

is_flow_event(p) == p.k \in {"Complete", "Status"}

\* write: refused unless Running; an error of the sink fails the host.
write(s, c) ==
    CASE s.e.state # "Running" -> s
      [] s.e.state = "Running" /\ ctl.broken -> [s EXCEPT !.e.state = "Failed"]
      [] OTHER -> [s EXCEPT !.out = Append(@, c)]

Written(s, t) == Len(t.out) > Len(s.out)

\* Mutant: the next command goes out with the completion of the last, credit or
\* not.
DispatchWithoutCredit(s) ==
    IF s.e.outstanding # {} \/ s.e.queue = <<>> THEN s
    ELSE LET c == Head(s.e.queue)
             t == write([s EXCEPT !.e.queue = Tail(@), !.e.credit = FALSE], c)
         IN  IF Written(s, t) THEN [t EXCEPT !.e.outstanding = {c.op}] ELSE t

\* dispatch_next_device_command: one command under way, and only with credit.
dispatch_next(s) ==
    IF s.e.outstanding # {} \/ ~s.e.credit \/ s.e.queue = <<>> THEN s
    ELSE LET c == Head(s.e.queue)
             t == write([s EXCEPT !.e.queue = Tail(@), !.e.credit = FALSE], c)
         IN  IF Written(s, t) THEN [t EXCEPT !.e.outstanding = {c.op}] ELSE t

submit_device_command(s, c) == dispatch_next([s EXCEPT !.e.queue = Append(@, c)])

\* Mutant: a completion makes room, and nothing is sent until the next command.
ObserveOnly(s, p) ==
    IF ~is_flow_event(p) THEN s
    ELSE [s EXCEPT !.e.outstanding = IF p.k = "Status" \/ p.op # "none" THEN {} ELSE @,
                   !.e.credit = @ \/ p.n # 0]

\* A completion of command 0 completes nothing; a status always does.
observe_flow(s, p) ==
    IF ~is_flow_event(p) THEN s
    ELSE dispatch_next(
           [s EXCEPT !.e.outstanding = IF p.k = "Status" \/ p.op # "none" THEN {} ELSE @,
                     !.e.credit = @ \/ p.n # 0])

\* A message of the channel: a packet is pending, an end changes the state.
receive_message(e, msg) ==
    IF msg.k \in {"Ended", "Failed"} THEN [e EXCEPT !.state = msg.k]
    ELSE [e EXCEPT !.pending = Append(@, msg)]

\* collect_available: how many messages it takes.  It stops behind a flow event
\* and behind the end, and takes none while a flow event is pending.
Available(e) ==
    IF e.state # "Running" \/ \E i \in DOMAIN e.pending : is_flow_event(e.pending[i])
    THEN 0
    ELSE LET stops == {i \in DOMAIN chan :
                         is_flow_event(chan[i]) \/ chan[i].k \in {"Ended", "Failed"}}
         IN  IF stops = {} THEN Len(chan) ELSE CHOOSE i \in stops : \A j \in stops : i <= j

collect_available(e) ==
    FoldLeft(receive_message, e, SubSeq(chan, 1, Available(e)))

\* drain_host_events: the packets before the first flow event, or that event
\* alone.
FlowEvents(e) == {i \in DOMAIN e.pending : is_flow_event(e.pending[i])}

Batch(e) ==
    LET flow == FlowEvents(e)
    IN  IF flow = {} THEN e.pending
        ELSE LET first == CHOOSE i \in flow : \A j \in flow : i <= j
             IN  SubSeq(e.pending, 1, IF first = 1 THEN 1 ELSE first - 1)

drain_host_events(s) ==
    LET batch == Batch(s.e)
        t == [s EXCEPT !.e.pending = SubSeq(@, Len(batch) + 1, Len(@))]
    IN  IF Len(batch) = 1 THEN observe_flow(t, batch[1]) ELSE t

-----------------------------------------------------------------------------
(* The Device's side of a poll.                                             *)

\* What a packet does to the Device: ATT PDUs to the inbox, the result of an
\* EATT connection, and the end of the connection with all that hangs on it.
Handled(d, p) ==
    LET e == [d EXCEPT !.seen = Append(@, p)] IN
    CASE p.k \in {"Att", "Notify"} /\ d.connected -> [e EXCEPT !.inbox = Append(@, p)]
      [] p.k = "Opened" /\ d.connected ->
           [e EXCEPT !.opened = {p.ok}, !.bearers = IF p.ok THEN {"eatt"} ELSE @]
      [] p.k = "Gone" ->
           [e EXCEPT !.connected = FALSE, !.bearers = {}, !.inbox = <<>>, !.opened = {}]
      [] OTHER -> e

\* poll: one drain, then the packets in order; a request event is answered by
\* a Device command.
Polled ==
    LET e == collect_available(ex)
        s == drain_host_events([e |-> e, out |-> <<>>])
        batch == Batch(e)
        asks == SelectSeq(batch, LAMBDA p : p.k = "Event")
        t == FoldLeft(LAMBDA acc, i : submit_device_command(acc,
                        [op |-> "reply", id |-> ctl.serial + i - 1, device |-> TRUE]),
                      s, [i \in DOMAIN asks |-> i])
    IN  [ex |-> t.e, out |-> t.out, dev |-> FoldLeft(Handled, dev, batch),
         took |-> Available(ex), ids |-> Len(asks)]

\* The commands written reach the controller.
Sent(c, cmds) == [c EXCEPT !.cmds = @ \o cmds]

\* on_transport_lost flushes the Device; the queue and the credit are gone.
notify_device_transport_lost(r) ==
    IF r.ex.notified THEN r
    ELSE [r EXCEPT !.ex.notified = TRUE, !.ex.queue = <<>>, !.ex.outstanding = {},
                   !.ex.credit = FALSE, !.dev.flushes = @ + 1, !.dev.connected = FALSE,
                   !.dev.bearers = {}, !.dev.inbox = <<>>, !.dev.opened = {}]

\* Mutant: the state is looked at before the packets that are pending.
WaitStateFirst ==
    CASE ex.state # "Running" -> [activity |-> ex.state, e |-> ex, took |-> 0]
      [] ex.state = "Running" /\ ex.pending # <<>> ->
           [activity |-> "Packet", e |-> ex, took |-> 0]
      [] OTHER ->
           [activity |-> IF Head(chan).k \in {"Ended", "Failed"} THEN Head(chan).k ELSE "Packet",
            e |-> receive_message(ex, Head(chan)), took |-> 1]

\* wait_for_activity with a message or a state to report.  Pending packets come
\* first, then the state, then the channel.
wait_for_activity ==
    CASE ex.pending # <<>> -> [activity |-> "Packet", e |-> ex, took |-> 0]
      [] ex.pending = <<>> /\ ex.state # "Running" ->
           [activity |-> ex.state, e |-> ex, took |-> 0]
      [] OTHER ->
           [activity |-> IF Head(chan).k \in {"Ended", "Failed"} THEN Head(chan).k ELSE "Packet",
            e |-> receive_message(ex, Head(chan)), took |-> 1]

CanReport == ex.pending # <<>> \/ ex.state # "Running" \/ chan # <<>>

\* wait_for_device_activity passes the end of the transport to the Device.
wait_for_device_activity ==
    LET w == wait_for_activity
        r == [ex |-> w.e, dev |-> dev]
        t == IF w.activity \in {"Ended", "Failed"} THEN notify_device_transport_lost(r) ELSE r
    IN  [activity |-> w.activity, ex |-> t.ex, dev |-> t.dev, took |-> w.took]

Dropped(q, n) == SubSeq(q, n + 1, Len(q))

-----------------------------------------------------------------------------
(* The application between calls.                                           *)

\* The application's loop: wait for activity, and poll.
IdleWait ==
    /\ app.at = "idle"
    /\ CanReport
    /\ LET w == wait_for_device_activity
       IN  /\ ex' = w.ex /\ dev' = w.dev
           /\ chan' = Dropped(chan, w.took)
    /\ UNCHANGED <<app, ctl, plan>>

IdlePoll ==
    /\ app.at = "idle"
    /\ LET r == Polled
       IN  /\ ex' = r.ex /\ dev' = r.dev
           /\ chan' = Dropped(chan, r.took)
           /\ ctl' = [Sent(ctl, r.out) EXCEPT !.serial = @ + r.ids]
    /\ UNCHANGED <<app, plan>>

\* A call of the Device sends a command.
SubmitCommand ==
    /\ app.at = "idle"
    /\ Ask("submit")
    /\ LET s == submit_device_command([e |-> ex, out |-> <<>>],
                  [op |-> "set", id |-> ctl.serial, device |-> TRUE])
       IN  /\ ex' = s.e
           /\ ctl' = [Sent(ctl, s.out) EXCEPT !.serial = @ + 1]
    /\ UNCHANGED <<chan, app, dev>>

\* shutdown_reader: the source stops; the thread is joined when it is done.
RequestShutdown ==
    /\ app.at = "idle"
    /\ Ask("shutdown")
    /\ ex.reader = "running"
    /\ ctl' = [ctl EXCEPT !.end = "stopped"]
    /\ UNCHANGED <<ex, chan, app, dev>>

JoinReader ==
    /\ app.at = "idle"
    /\ ex.reader = "done"
    /\ ctl.end = "stopped"
    /\ ex' = [ex EXCEPT !.reader = "joined"]
    /\ UNCHANGED <<chan, app, dev, ctl, plan>>

-----------------------------------------------------------------------------
(* Direct commands, and the initialization made of them.                    *)

\* begin_direct_command: refused while Device commands are under way.
Busy(e) == e.outstanding # {} \/ e.queue # <<>> \/ ~e.credit

begin_direct_command(s, c) == IF Busy(s.e) THEN s ELSE write(s, c)

\* The call is entered if the command was written; without a response to wait
\* for, it is over.
BeginDirect(op, at, script) ==
    LET c == [op |-> op, id |-> ctl.serial, device |-> FALSE]
        s == begin_direct_command([e |-> ex, out |-> <<>>], c)
    IN  /\ ex' = s.e
        /\ ctl' = [Sent(ctl, s.out) EXCEPT !.serial = @ + 1]
        /\ dev' = IF at = "idle" /\ s.out # <<>>
                  THEN [dev EXCEPT !.abandoned = @ \cup {c.id}] ELSE dev
        /\ app' = IF s.out = <<>> \/ at = "idle" THEN NoCall
                  ELSE [NoCall EXCEPT !.at = at, !.op = op, !.id = c.id, !.script = script,
                                      !.init = script # <<>>]
        /\ UNCHANGED chan

SendCommand == app.at = "idle" /\ Ask("direct") /\ BeginDirect("set", "direct", <<>>)

SendVendorCommand == app.at = "idle" /\ Ask("vendor") /\ BeginDirect("vendor", "vendor", <<>>)

SendWithoutResponse == app.at = "idle" /\ Ask("noreply") /\ BeginDirect("noreply", "idle", <<>>)

InitializeDevice ==
    app.at = "idle" /\ Ask("init") /\ BeginDirect("reset", "direct", <<"supported">>)

\* The commands of initialize_device after the bitmap is known, in order.
InitScript(sup) ==
    LET choose(a, b) == IF a \in sup THEN <<a>> ELSE IF b \in sup THEN <<b>> ELSE <<>>
        only(a) == choose(a, a)
    IN  only("version") \o choose("leall", "lelegacy") \o choose("page", "features")
        \o <<"mask">> \o only("mask2") \o <<"lemask">> \o only("buffer")
        \o choose("lebuffer2", "lebuffer") \o only("length") \o only("sets")
        \o only("maxdata")

\* send_optional_successful_command: a failure of these is tolerated.
Optional == {"sets", "maxdata"}

\* The pools the Device is given, from what was supported.
Pools(sup) ==
    {pool \in {"acl", "le", "iso"} :
        \/ pool = "acl" /\ "buffer" \in sup
        \/ pool = "le" /\ {"lebuffer2", "lebuffer"} \cap sup # {}
        \/ pool = "iso" /\ "lebuffer2" \in sup}

\* What is left of the script after an answer: the bitmap decides the rest, the
\* feature pages are read up to the last, a length other than the host's own is
\* written.
Following(p) ==
    CASE p.op = "supported" -> InitScript(ctl.profile.sup)
      [] p.op = "page" /\ app.page < ctl.profile.pages -> <<"page">> \o app.script
      [] p.op = "length" /\ ctl.profile.length # "host" -> <<"write">> \o app.script
      [] OTHER -> app.script

\* The packet that ends the wait of a direct call.
IsAnswer(p) ==
    IF app.at = "vendor" THEN p.k = "Vendor"
    ELSE is_flow_event(p) /\ p.op = app.op

\* send_command and send_vendor_command receive straight from the channel; what
\* is not the answer is left pending for the Device.
Receive ==
    /\ app.at \in {"direct", "vendor"}
    /\ chan # <<>>
    /\ chan' = Tail(chan)
    /\ LET p == Head(chan)
           script == Following(p)
           failed == ~p.ok /\ p.op \notin Optional
           taken == [dev EXCEPT !.taken = @ \cup {p.of}, !.last = <<app.id, p.of>>]
       IN  CASE ~IsAnswer(p) ->
                  /\ ex' = receive_message(ex, p)
                  /\ app' = IF p.k \in {"Ended", "Failed"} THEN NoCall ELSE app
                  /\ UNCHANGED <<dev, ctl>>
             [] IsAnswer(p) /\ script # <<>> /\ ~failed ->
                  LET c == [op |-> Head(script), id |-> ctl.serial, device |-> FALSE]
                      s == begin_direct_command([e |-> ex, out |-> <<>>], c)
                  IN  /\ ex' = s.e
                      /\ ctl' = [Sent(ctl, s.out) EXCEPT !.serial = @ + 1]
                      /\ dev' = taken
                      /\ app' = IF s.out = <<>> THEN NoCall
                                ELSE [app EXCEPT !.op = c.op, !.id = c.id, !.script = Tail(script),
                                                 !.page = IF p.op = "page" THEN @ + 1 ELSE @]
             [] OTHER ->
                  /\ dev' = IF app.init /\ ~failed
                            THEN [taken EXCEPT !.pools = Pools(ctl.profile.sup)] ELSE taken
                  /\ app' = NoCall
                  /\ UNCHANGED <<ex, ctl>>
    /\ UNCHANGED plan

\* The deadline passes first: the call returns, its answer is still to come.
TimeOut ==
    /\ app.at \in {"direct", "vendor", "wait"}
    /\ Ask("timeout")
    /\ app.at = "wait" => ~CanReport
    /\ app.at # "wait" => chan = <<>>
    /\ dev' = [dev EXCEPT !.abandoned = @ \cup {app.id}]
    /\ app' = NoCall
    /\ UNCHANGED <<ex, chan, ctl>>

-----------------------------------------------------------------------------
(* ATT requests over the fixed channel or an EATT bearer.                   *)

BearerUp(d, bearer) == IF bearer = "eatt" THEN "eatt" \in d.bearers ELSE d.connected

\* The request is written as data, and the call polls before it waits.  An EATT
\* bearer is opened by a signalling request, on the connection.
BeginRequest(op, bearer) ==
    LET r == [op |-> op, id |-> ctl.serial]
        s == write([e |-> ex, out |-> <<>>], r)
    IN  /\ app.at = "idle"
        /\ BearerUp(dev, bearer)
        /\ ex' = s.e
        /\ ctl' = [ctl EXCEPT !.reqs = IF \E i \in DOMAIN ctl.log : ctl.log[i].k = "Gone"
                                       THEN @ ELSE @ \o s.out,
                              !.serial = @ + 1]
        /\ app' = [NoCall EXCEPT !.at = "turn", !.op = op, !.id = r.id, !.bearer = bearer]
        /\ UNCHANGED <<chan, dev>>

AttRequest == Ask("att") /\ BeginRequest("att", "att")

EattRequest == Ask("eatt") /\ BeginRequest("eatt", "eatt")

ConnectEatt == Ask("open") /\ dev.bearers = {} /\ BeginRequest("open", "att")

\* Mutant: whatever PDU comes first is taken for the answer.
MatchingFirst(d) == IF d.inbox = <<>> THEN {} ELSE {1}

\* take_response: the first PDU of the bearer's inbox that answers the request;
\* the others are unsolicited.
Matching(d) ==
    {i \in DOMAIN d.inbox : d.inbox[i].k = "Att" /\ d.inbox[i].op = app.op}

take_response(d) ==
    LET found == Matching(d)
        first == CHOOSE i \in found : \A j \in found : i <= j
    IN  [d EXCEPT !.inbox = <<>>,
                  !.last = IF found = {} THEN @ ELSE <<app.id, d.inbox[first].of>>]

\* One turn of request_result or of connect: poll, look, and go on waiting
\* unless there is an answer or the bearer has gone.
Turn ==
    /\ app.at = "turn"
    /\ LET r == Polled
           answered == IF app.op = "open" THEN r.dev.opened # {} ELSE Matching(r.dev) # {}
       IN  /\ ex' = r.ex
           /\ chan' = Dropped(chan, r.took)
           /\ ctl' = [Sent(ctl, r.out) EXCEPT !.serial = @ + r.ids]
           /\ dev' = IF app.op = "open" THEN [r.dev EXCEPT !.opened = {}]
                     ELSE take_response(r.dev)
           /\ app' = IF answered \/ ~BearerUp(r.dev, app.bearer) THEN NoCall
                     ELSE [app EXCEPT !.at = "wait"]
    /\ UNCHANGED plan

Wait ==
    /\ app.at = "wait"
    /\ CanReport
    /\ LET w == wait_for_device_activity
       IN  /\ ex' = w.ex /\ dev' = w.dev
           /\ chan' = Dropped(chan, w.took)
           /\ app' = IF w.activity = "Packet" THEN [app EXCEPT !.at = "turn"] ELSE NoCall
    /\ UNCHANGED <<ctl, plan>>

-----------------------------------------------------------------------------

World == Answer \/ Announce \/ Happen \/ Respond \/ Fault \/ Reader

Application ==
    \/ IdleWait \/ IdlePoll \/ SubmitCommand \/ RequestShutdown \/ JoinReader
    \/ SendCommand \/ SendVendorCommand \/ SendWithoutResponse \/ InitializeDevice
    \/ Receive \/ TimeOut \/ AttRequest \/ EattRequest \/ ConnectEatt \/ Turn \/ Wait

Next == World \/ Application

-----------------------------------------------------------------------------
(* Properties.                                                              *)

\* No packet is lost, doubled or moved: what the Device has seen, what is
\* pending, what is in the channel and what the source still holds is what the
\* controller sent, less the answers that direct calls took for themselves.
\* Once the transport's end was passed to the Device, once, nothing more is
\* pending for it, and an orderly end comes behind every packet read.
\* (send_command, collect_available, drain_host_events, wait_for_activity,
\* notify_device_transport_lost)
PacketsInOrder ==
    /\ dev.seen \o ex.pending
         \o SelectSeq(chan, LAMBDA p : p.k \notin {"Ended", "Failed"}) \o ctl.out
       = SelectSeq(ctl.log, LAMBDA p : p.of = 0 \/ p.of \notin dev.taken)
    /\ dev.flushes <= 1
    /\ dev.flushes = 1 =>
         /\ ex.pending = <<>>
         /\ ex.state = "Ended" => chan = <<>>

\* The controller never holds a command while it has not made room for it: one
\* command is under way at a time, of the Device or direct.  It is what queue,
\* pending command and credit are for; only a direct call that does not wait for
\* its answer, or gave up on it, leaves a command behind that nobody counts.
\* (dispatch_next_device_command, observe_device_command_flow,
\* begin_direct_command)
OneCommandAtATime ==
    dev.abandoned = {} =>
        /\ Len(ctl.cmds) <= 1
        /\ ctl.cmds # <<>> => ctl.room

\* A blocking call that returns an answer returns the answer to what it sent.
\* Only after a call gave up may the next take an older answer: the one given
\* up on, or that of a Device command the late answer made look complete.
\* (send_command, take_response, request_result)
OwnAnswer ==
    \/ dev.last[2] = dev.last[1]
    \/ dev.last[2] < dev.last[1] /\ \E id \in dev.abandoned : id <= dev.last[2]

\* When every packet has been delivered and the controller owes nothing, no
\* Device command is queued or counted as under way: the queue is never left
\* with nobody to send it, although its next send hangs on an event that a
\* direct call, a drain or a late answer may have taken.
\* (dispatch_next_device_command, drain_host_events)
NothingStuck ==
    /\ ex.state = "Running"
    /\ app.at = "idle"
    /\ ctl.cmds = <<>> /\ ctl.room /\ ctl.out = <<>>
    /\ chan = <<>> /\ ex.pending = <<>>
    => ex.queue = <<>> /\ ex.outstanding = {}

=============================================================================

---------------------------- MODULE MediaStream ----------------------------
(***************************************************************************)
(* A2DP: the AVDTP sessions of a source and of a sink                      *)
(* (bumble-avdtp/src/session.rs and host.rs), the initiators that drive    *)
(* them (bumble-player, and A2dpClient of bumble-a2dp) and bumble-speaker, *)
(* which answers, may ask on its own, and plays what it receives.          *)
(*                                                                         *)
(* The L2CAP channels beneath are ClassicChannels' subject: here a channel *)
(* opens when the request has arrived and the answer has come back.  Media *)
(* packets are numbers and a configuration is a value; the labels are      *)
(* counted modulo Labels where the code has 16.                            *)
(***************************************************************************)
EXTENDS Integers, Sequences, SequencesExt

CONSTANTS
  Plans,   \* [program, discover, packets, calls, kinds, sessions, losses, timeouts,
           \* codec]; `kinds` are the commands of an application, with their endpoints
  Labels   \* transaction labels; 16 in the code

VARIABLES
  src,     \* the initiator: its session, channels and where its program is
  snk,     \* bumble-speaker: its session, channels and what it plays
  net,     \* what is on its way to the source and to the sink
  plan     \* what may still happen

vars == <<src, snk, net, plan>>

Sig == 1    \* the signalling channel, opened first
Media == 2  \* the channel of the stream
Cids == {Sig, Media}

-----------------------------------------------------------------------------
(* Session                                                                  *)
\* add_endpoint: a new LocalEndpoint is idle.
Endpoint(type) == [type |-> type, state |-> "idle", config |-> 0, remote |-> 0]

\* The states in which handle_command accepts a command for an endpoint.
InUse == {"configured", "open", "streaming"}
Allowed ==
  [discover |-> {}, get_capabilities |-> InUse \cup {"idle"},
   get_all_capabilities |-> InUse \cup {"idle"}, set_configuration |-> {"idle"},
   get_configuration |-> InUse, reconfigure |-> {"open"}, open |-> {"configured"},
   start |-> {"open"}, suspend |-> {"streaming"}, close |-> {"open", "streaming"},
   abort |-> InUse \cup {"idle"}, security_control |-> InUse, delay_report |-> InUse]

\* The endpoint that a command fails on, as validate_all finds the first, with
\* the error code; an abort is accepted for an unknown endpoint, too.
Fails(eps, c) ==
  SelectSeq([i \in DOMAIN c.seids |->
               LET id == c.seids[i] IN
               CASE id \notin DOMAIN eps -> <<id, "bad_acp_seid">>
                 [] id \in DOMAIN eps /\ eps[id].state \notin Allowed[c.sig] ->
                      <<id, IF c.sig = "set_configuration" THEN "sep_in_use" ELSE "bad_state">>
                 [] OTHER -> <<id, "ok">>],
            LAMBDA f : f[2] # "ok")

\* Mutant: a closed endpoint keeps its state until it is aborted.
CloseKeepsState(ep, c) ==
  CASE c.sig = "set_configuration" ->
         [ep EXCEPT !.state = "configured", !.config = c.config, !.remote = c.int]
    [] c.sig = "reconfigure" -> [ep EXCEPT !.config = c.config]
    [] c.sig = "open" -> [ep EXCEPT !.state = "open"]
    [] c.sig = "start" -> [ep EXCEPT !.state = "streaming"]
    [] c.sig = "suspend" -> [ep EXCEPT !.state = "open"]
    [] c.sig = "abort" -> Endpoint(ep.type)
    [] OTHER -> ep

\* What an accepted command does to an endpoint; close and abort reset it.
Commanded(ep, c) ==
  CASE c.sig = "set_configuration" ->
         [ep EXCEPT !.state = "configured", !.config = c.config, !.remote = c.int]
    [] c.sig = "reconfigure" -> [ep EXCEPT !.config = c.config]
    [] c.sig = "open" -> [ep EXCEPT !.state = "open"]
    [] c.sig = "start" -> [ep EXCEPT !.state = "streaming"]
    [] c.sig = "suspend" -> [ep EXCEPT !.state = "open"]
    [] c.sig \in {"close", "abort"} -> Endpoint(ep.type)
    [] OTHER -> ep

\* The commands that leave a SessionEvent, one for each endpoint they name.
Reported == {"set_configuration", "reconfigure", "open", "start", "suspend", "close", "abort",
             "security_control", "delay_report"}

\* What a response carries: the endpoints, or the configuration of one.
Carried(eps, c) ==
  CASE c.sig = "discover" -> [i \in DOMAIN eps |-> [type |-> eps[i].type, inUse |-> eps[i].state \in InUse]]
    [] c.sig = "get_configuration" -> <<eps[c.seids[1]].config>>
    [] OTHER -> <<>>

\* handle_command: the session afterwards and the response.
Handled(e, label, c) ==
  LET fails == IF c.sig = "abort" THEN <<>> ELSE Fails(e.eps, c)
      named == {i \in DOMAIN e.eps : \E k \in DOMAIN c.seids : c.seids[k] = i}
      known == SelectSeq(c.seids, LAMBDA i : i \in named)
  IN IF fails # <<>>
     THEN [e |-> e, rsp |-> [type |-> "rsp", label |-> label, sig |-> c.sig,
                             result |-> Head(fails)[2], data |-> <<>>]]
     ELSE [e |-> [e EXCEPT
                    !.eps = [i \in DOMAIN @ |-> IF i \in named THEN Commanded(@[i], c) ELSE @[i]],
                    !.events = IF c.sig \in Reported
                               THEN @ \o [i \in DOMAIN known |-> c.sig] ELSE @],
           rsp |-> [type |-> "rsp", label |-> label, sig |-> c.sig, result |-> "ok",
                    data |-> Carried(e.eps, c)]]

-----------------------------------------------------------------------------
(* Device and DeviceSession                                                 *)
\* Both ends: channels by CID with what they received, the CIDs of the AVDTP
\* session and of its stream, and the session.
End(eps) ==
  [chan |-> [c \in Cids |-> "none"], rx |-> [c \in Cids |-> <<>>], accepted |-> <<>>,
   sig |-> 0, media |-> 0, label |-> 0, responses |-> <<>>, eps |-> eps, events |-> <<>>,
   out |-> <<>>, err |-> FALSE]

Sdu(c, m) == [kind |-> "sdu", cid |-> c, m |-> m]
Channelled(kind, c) == [kind |-> kind, cid |-> c, m |-> 0]
Put(e, item) == [e EXCEPT !.out = Append(@, item)]

\* send_classic_channel_sdu: a channel that is not open refuses.
Send(e, c, m) == IF e.chan[c] = "open" THEN Put(e, Sdu(c, m)) ELSE [e EXCEPT !.err = TRUE]

\* One packet for the ChannelManager.  `out` collects what is sent meanwhile.
Delivered(e, p) ==
  CASE p.kind = "connect" ->
         Put([e EXCEPT !.chan[p.cid] = "open", !.accepted = Append(@, p.cid)],
             Channelled("connected", p.cid))
    [] p.kind = "connected" -> [e EXCEPT !.chan[p.cid] = "open"]
    [] p.kind = "disconnect" -> [e EXCEPT !.chan[p.cid] = "closed"]
    [] p.kind = "sdu" ->
         IF e.chan[p.cid] = "open" THEN [e EXCEPT !.rx[p.cid] = Append(@, p.m)] ELSE e

\* Device::poll of what has arrived.
Polled(e, packets) == FoldLeft(Delivered, e, packets)

\* Mutant: an initiator takes its responses and leaves the commands.
PolledForResponses(e) ==
  LET one(acc, m) ==
        IF m.type = "cmd" THEN acc ELSE [acc EXCEPT !.responses = Append(@, m)]
  IN [FoldLeft(one, e, IF e.sig = 0 THEN <<>> ELSE e.rx[e.sig])
        EXCEPT !.rx = IF e.sig = 0 THEN @ ELSE [@ EXCEPT ![e.sig] = <<>>]]

\* DeviceSession::poll: commands are answered, responses are kept for their label.
SessionPolled(e) ==
  LET one(acc, m) ==
        IF m.type = "cmd"
        THEN LET h == Handled(acc, m.label, m) IN Send(h.e, e.sig, h.rsp)
        ELSE [acc EXCEPT !.responses = Append(@, m)]
  IN [FoldLeft(one, e, IF e.sig = 0 THEN <<>> ELSE e.rx[e.sig])
        EXCEPT !.rx = IF e.sig = 0 THEN @ ELSE [@ EXCEPT ![e.sig] = <<>>]]

\* A command, with the fields of those that have them.
Cmd(sig, seids, config) == [sig |-> sig, seids |-> seids, config |-> config, int |-> 1]

\* send_command: the next label, and the source's own endpoint where it is named.
Commanding(e, c) ==
  Send([e EXCEPT !.label = (@ + 1) % Labels], e.sig,
       [type |-> "cmd", label |-> e.label, sig |-> c.sig, seids |-> c.seids,
        config |-> c.config, int |-> c.int])

Answers(e, label) == {i \in DOMAIN e.responses : e.responses[i].label = label}

\* Mutant: the oldest response is taken, whatever its label.
OldestTaken(e, label) == 1

\* take_response: the first response with the label.
Taken(e, label) == CHOOSE i \in Answers(e, label) : \A j \in Answers(e, label) : i <= j

-----------------------------------------------------------------------------
(* The initiator                                                            *)
NoRequest == [label |-> 0, c |-> Cmd("none", <<>>, 0)]
Source ==
  [e |-> End(<<>>), pc |-> "idle", req |-> NoRequest, todo |-> <<>>, found |-> <<>>,
   sent |-> 0, view |-> Endpoint("sink"), asked |-> <<>>, wrong |-> FALSE]

\* What is sent in a step goes out, and the first n packets have been polled.
Steps(s, n) ==
  /\ src' = [s EXCEPT !.e.out = <<>>, !.pc = IF s.e.err THEN "failed" ELSE @]
  /\ net' = [net EXCEPT !.src = SubSeq(@, n + 1, Len(@)), !.snk = @ \o s.e.out]

\* avdtp_request and A2dpClient::request: the command goes out at once.
Requesting(s, c) ==
  [s EXCEPT !.pc = "request", !.req = [label |-> s.e.label, c |-> c], !.e = Commanding(@, c)]

\* connect_classic_channel, before wait_for_classic_channel.
Opening(s, c, pc) ==
  [s EXCEPT !.pc = pc, !.e = Put([@ EXCEPT !.chan[c] = "opening"], Channelled("connect", c))]

\* disconnect_classic_channel, whose answer nobody waits for.
Disconnecting(e, c) == Put([e EXCEPT !.chan[c] = "closed"], Channelled("disconnect", c))

\* The first sink that is free and takes the codec, of those that were found.
Fitting(s) ==
  SelectSeq([i \in DOMAIN s.found |-> i],
            LAMBDA i : ~s.found[i].inUse /\ s.found[i].type = "sink" /\ plan.codec)

\* select_sink of bumble-player, which adds its own endpoint and configures.
Selecting(s) ==
  IF Fitting(s) = <<>> THEN [s EXCEPT !.pc = "failed"]
  ELSE Requesting([s EXCEPT !.e.eps = <<Endpoint("source")>>],
                  Cmd("set_configuration", <<Head(Fitting(s))>>, 1))

\* find_compatible_sink, whose caller configures what it found.
FindCompatibleSink(s) ==
  IF Fitting(s) = <<>> THEN [s EXCEPT !.pc = "failed"]
  ELSE Requesting(s, Cmd("set_configuration", <<Head(Fitting(s))>>, 1))

\* The loop of discover_remote_endpoints and of discover: capabilities of the next.
Asking(s) ==
  CASE s.todo # <<>> -> Requesting(s, Cmd("get_all_capabilities", <<Head(s.todo)>>, 0))
    [] s.todo = <<>> /\ plan.program = "player" -> Selecting(s)
    [] OTHER -> FindCompatibleSink(s)
Found(s, r) == Asking([s EXCEPT !.found = r.data, !.todo = [i \in DOMAIN r.data |-> i]])
Learned(s) == Asking([s EXCEPT !.todo = Tail(@)])

\* stream_audio, from one response to the next command.
StreamAudio(s, c, r) ==
  CASE c.sig = "discover" -> Found(s, r)
    [] c.sig = "get_all_capabilities" ->
         IF r.result = "ok" THEN Learned(s) ELSE Requesting(s, Cmd("get_capabilities", c.seids, 0))
    [] c.sig = "get_capabilities" -> Learned(s)
    [] c.sig \notin {"discover", "get_all_capabilities", "get_capabilities"} /\ r.result # "ok" ->
         [s EXCEPT !.pc = "failed"]
    [] c.sig = "set_configuration" /\ r.result = "ok" -> Requesting(s, Cmd("open", c.seids, 0))
    [] c.sig = "open" /\ r.result = "ok" -> Opening(s, Media, "wait_media")
    [] c.sig = "start" /\ r.result = "ok" -> [s EXCEPT !.pc = "streaming"]
    [] c.sig = "close" /\ r.result = "ok" ->
         [s EXCEPT !.pc = "done", !.e = Disconnecting(Disconnecting(@, Media), Sig)]

\* discover and configure_open_start of A2dpClient.  Its later calls return to
\* their caller, accepted or not.
ConfigureOpenStart(s, c, r) ==
  CASE s.asked # <<>> -> [s EXCEPT !.pc = "ready"]
    [] s.asked = <<>> /\ r.result # "ok" -> [s EXCEPT !.pc = "failed"]
    [] s.asked = <<>> /\ r.result = "ok" ->
         CASE c.sig = "discover" -> Found(s, r)
           [] c.sig = "get_all_capabilities" -> Learned(s)
           [] c.sig = "set_configuration" -> Requesting(s, Cmd("open", c.seids, 0))
           [] c.sig = "open" -> Requesting(s, Cmd("start", c.seids, 0))
           [] c.sig = "start" -> [s EXCEPT !.pc = "ready"]

Proceeding(s, c, r) ==
  IF plan.program = "player" THEN StreamAudio(s, c, r) ELSE ConfigureOpenStart(s, c, r)

\* take_response: the answer is taken out, and what it tells is kept.
Answered(s, label, c) ==
  LET i == Taken(s.e, label)
      r == s.e.responses[i]
  IN [s EXCEPT !.e.responses = RemoveAt(@, i), !.req = NoRequest,
               !.view = IF r.result = "ok" /\ Contains(c.seids, 1) THEN Commanded(@, c) ELSE @,
               !.wrong = @ \/ r.sig # c.sig]

\* A request waits: poll the device and the session, then look for the answer.
AwaitResponse ==
  /\ src.pc = "request" /\ net.up
  /\ \E n \in 0..Len(net.src) :
       LET e == SessionPolled(Polled(src.e, SubSeq(net.src, 1, n)))
           s == [src EXCEPT !.e = e]
           c == src.req.c
       IN IF Answers(e, src.req.label) = {} THEN Steps(s, n)
          ELSE LET i == Taken(e, src.req.label) IN
               Steps(Proceeding(Answered(s, src.req.label, c), c, e.responses[i]), n)
  /\ UNCHANGED <<snk, plan>>

\* wait_for_classic_channel, which polls the device and not the session; then the
\* first request of the program, or the start of the stream.
AwaitChannel ==
  /\ src.pc \in {"wait_sig", "wait_media"} /\ net.up
  /\ \E n \in 0..Len(net.src) :
       LET s == [src EXCEPT !.e = Polled(@, SubSeq(net.src, 1, n))]
           bound == [s EXCEPT !.e.sig = Sig]
       IN Steps(CASE s.pc = "wait_media" /\ s.e.chan[Media] = "open" ->
                       Requesting([s EXCEPT !.e.media = Media], Cmd("start", <<1>>, 0))
                  [] s.pc = "wait_sig" /\ s.e.chan[Sig] = "open" ->
                       IF plan.program = "raw" THEN [bound EXCEPT !.pc = "ready"]
                       ELSE Requesting(bound, Cmd("discover", <<>>, 0))
                  [] OTHER -> s, n)
  /\ UNCHANGED <<snk, plan>>

\* wait_until, between two packets and while an owner has no call to make.
Idle ==
  /\ src.pc \in {"streaming", "ready"} /\ net.up
  /\ \E n \in 1..Len(net.src) :
       Steps([src EXCEPT !.e = SessionPolled(Polled(@, SubSeq(net.src, 1, n)))], n)
  /\ UNCHANGED <<snk, plan>>

\* The packets of stream_audio, and the Close that follows the last one.
StreamOn ==
  /\ src.pc = "streaming" /\ net.up
  /\ Steps(IF src.sent < plan.packets
           THEN [src EXCEPT !.sent = @ + 1, !.e = Send(@, Media, src.sent + 1)]
           ELSE Requesting(src, Cmd("close", <<1>>, 0)), 0)
  /\ UNCHANGED <<snk, plan>>

\* suspend, start and close of A2dpClient.
ClientCalls ==
  /\ plan.program = "client" /\ src.pc = "ready" /\ net.up /\ plan.calls > 0
  /\ \E k \in plan.kinds :
       Steps(Requesting([src EXCEPT !.asked = Append(@, k)], Cmd(k[1], k[2], 0)), 0)
  /\ plan' = [plan EXCEPT !.calls = @ - 1]
  /\ UNCHANGED snk

\* send_command by an application that does not wait for one answer before it
\* sends the next command.
SendsAhead ==
  /\ plan.program = "raw" /\ src.pc = "ready" /\ net.up /\ plan.calls > 0
  /\ \E k \in plan.kinds :
       LET c == Cmd(k[1], k[2], plan.calls) IN
       Steps([src EXCEPT !.asked = Append(@, [label |-> src.e.label, c |-> c]),
                         !.e = Commanding(@, c)], 0)
  /\ plan' = [plan EXCEPT !.calls = @ - 1]
  /\ UNCHANGED snk

\* take_response for any of the labels it was given.
TakesAny ==
  /\ plan.program = "raw" /\ src.pc = "ready"
  /\ \E k \in DOMAIN src.asked :
       LET asked == src.asked[k] IN
       /\ Answers(src.e, asked.label) # {}
       /\ Steps([Answered(src, asked.label, asked.c) EXCEPT !.asked = RemoveAt(@, k)], 0)
  /\ UNCHANGED <<snk, plan>>

\* A deadline passes.  bumble-player ends; a client's call returns Timeout and its
\* owner may go on, and the answer may still come.
SourceTimesOut ==
  /\ src.pc \in {"request", "wait_sig", "wait_media"} /\ plan.timeouts > 0
  /\ Steps([src EXCEPT !.pc = IF plan.program = "client" /\ src.asked # <<>> THEN "ready" ELSE "failed",
                       !.req = NoRequest], 0)
  /\ plan' = [plan EXCEPT !.timeouts = @ - 1]
  /\ UNCHANGED snk

\* Without its link every wait of the initiator ends in an error.
SourceFails ==
  /\ ~net.up /\ src.pc \notin {"idle", "done", "failed"}
  /\ src' = [src EXCEPT !.pc = "failed"]
  /\ UNCHANGED <<snk, net, plan>>

-----------------------------------------------------------------------------
(* bumble-speaker                                                           *)
Speaker ==
  [e |-> End(<<>>), pc |-> "loop", label |-> 0, todo |-> <<>>, asks |-> FALSE,
   active |-> FALSE, ui |-> "idle", playing |-> FALSE, got |-> <<>>]

SpeakerSteps(s, n) ==
  /\ snk' = [s EXCEPT !.e.out = <<>>, !.pc = IF s.e.err THEN "exited" ELSE @]
  /\ net' = [net EXCEPT !.snk = SubSeq(@, n + 1, Len(@)), !.src = @ \o s.e.out]

\* SinkRuntime::new for the first AVDTP channel, attach_media for the second; a
\* third is an error.
Attached(e, c) ==
  CASE e.sig = 0 -> [e EXCEPT !.sig = c, !.eps = <<Endpoint("sink")>>, !.label = 0, !.responses = <<>>]
    [] e.sig # 0 /\ e.media = 0 -> [e EXCEPT !.media = c]
    [] OTHER -> [e EXCEPT !.err = TRUE]

\* handle_sink_event for what SinkRuntime::poll makes of a SessionEvent.
Shown(s, event) ==
  CASE event = "start" -> [s EXCEPT !.ui = "started", !.playing = TRUE]
    [] event = "suspend" -> [s EXCEPT !.ui = "suspended"]
    [] event \in {"close", "abort"} -> [s EXCEPT !.ui = "stopped", !.playing = FALSE]
    [] OTHER -> s

\* The media half of SinkRuntime::poll: packets first, then a closed channel.
MediaPolled(s) ==
  IF s.e.media = 0 THEN s
  ELSE LET read == [s EXCEPT !.got = @ \o s.e.rx[s.e.media], !.e.rx[s.e.media] = <<>>] IN
       IF s.e.chan[s.e.media] = "closed"
       THEN [read EXCEPT !.e.media = 0, !.ui = "idle", !.playing = FALSE] ELSE read

\* SinkRuntime::poll and the check that follows it in the main loop: a closed
\* signalling channel ends the sink.
SinkPolled(s) ==
  IF s.e.sig = 0 THEN s
  ELSE LET polled == [s EXCEPT !.e = SessionPolled(@)]
           shown == [FoldLeft(Shown, polled, polled.e.events) EXCEPT !.e.events = <<>>]
           after == MediaPolled(shown)
       IN IF after.e.chan[after.e.sig] = "closed"
          THEN [after EXCEPT !.e.sig = 0, !.e.media = 0, !.e.eps = <<>>] ELSE after

\* One turn of the main loop with a link.
Loop ==
  /\ snk.pc = "loop" /\ snk.active /\ net.up
  /\ \E n \in 0..Len(net.snk) :
       LET e == Polled(snk.e, SubSeq(net.snk, 1, n))
           s == [snk EXCEPT !.e = [FoldLeft(Attached, e, e.accepted) EXCEPT !.accepted = <<>>]]
       IN SpeakerSteps(IF s.e.sig # 0 /\ s.asks
                       THEN [s EXCEPT !.pc = "discovering", !.label = s.e.label,
                                      !.e = Commanding(@, Cmd("discover", <<>>, 0))]
                       ELSE SinkPolled(s), n)
  /\ UNCHANGED <<src, plan>>

\* discover_remote_endpoints from one answer to the next request; at its end the
\* turn of the main loop goes on.
Discovered(s, r) ==
  LET todo == IF r.sig = "discover" THEN [i \in DOMAIN r.data |-> i]
              ELSE IF r.sig = "get_all_capabilities" /\ r.result # "ok" THEN s.todo ELSE Tail(s.todo)
      next == IF r.sig = "get_all_capabilities" /\ r.result # "ok"
              THEN "get_capabilities" ELSE "get_all_capabilities"
  IN IF todo = <<>> THEN SinkPolled([s EXCEPT !.pc = "loop", !.asks = FALSE, !.todo = <<>>])
     ELSE [s EXCEPT !.todo = todo, !.label = s.e.label,
                    !.e = Commanding(@, Cmd(next, <<Head(todo)>>, 0))]

\* avdtp_request of the speaker: channels and events wait meanwhile.
Discovering ==
  /\ snk.pc = "discovering" /\ net.up
  /\ \E n \in 0..Len(net.snk) :
       LET e == SessionPolled(Polled(snk.e, SubSeq(net.snk, 1, n)))
           s == [snk EXCEPT !.e = e]
       IN SpeakerSteps(IF Answers(e, snk.label) = {} THEN s
                       ELSE LET i == Taken(e, snk.label) IN
                            Discovered([s EXCEPT !.e.responses = RemoveAt(@, i)], e.responses[i]), n)
  /\ UNCHANGED <<src, plan>>

\* Mutant: the sink of the lost link is kept.
LoopKeepsSink ==
  /\ snk.pc = "loop" /\ snk.active /\ ~net.up
  /\ snk' = [snk EXCEPT !.active = FALSE, !.asks = plan.discover, !.ui = "idle", !.playing = FALSE]
  /\ UNCHANGED <<src, net, plan>>

\* A turn of the main loop that finds the connection gone.
LoopWithoutLink ==
  /\ snk.pc = "loop" /\ snk.active /\ ~net.up
  /\ snk' = [Speaker EXCEPT !.asks = plan.discover]
  /\ UNCHANGED <<src, net, plan>>

\* A request of the speaker that nobody answers any more ends the program.
SpeakerTimesOut ==
  /\ snk.pc = "discovering" /\ ~net.up
  /\ snk' = [snk EXCEPT !.pc = "exited", !.playing = FALSE]
  /\ UNCHANGED <<src, net, plan>>

-----------------------------------------------------------------------------
NoPackets == [src |-> <<>>, snk |-> <<>>, up |-> FALSE]

StreamInit ==
  /\ plan \in Plans
  /\ src = Source
  /\ snk = [Speaker EXCEPT !.asks = plan.discover]
  /\ net = NoPackets

\* A link stands, which the speaker has accepted, and the initiator opens the
\* signalling channel (open_avdtp_signaling).
Connects ==
  /\ src.pc \in {"idle", "done", "failed"} /\ ~net.up /\ plan.sessions > 0
  /\ snk.pc = "loop" /\ ~snk.active
  /\ LET s == Opening(Source, Sig, "wait_sig") IN
     /\ src' = [s EXCEPT !.e.out = <<>>]
     /\ net' = [NoPackets EXCEPT !.up = TRUE, !.snk = s.e.out]
  /\ snk' = [snk EXCEPT !.active = TRUE]
  /\ plan' = [plan EXCEPT !.sessions = @ - 1]

\* The link is lost, or goes with a program that has ended.
LinkLost ==
  /\ net.up
  /\ \/ (src.pc \in {"done", "failed"} \/ snk.pc = "exited") /\ UNCHANGED plan
     \/ /\ src.pc \notin {"done", "failed"} /\ plan.losses > 0
        /\ plan' = [plan EXCEPT !.losses = @ - 1]
  /\ net' = NoPackets
  /\ UNCHANGED <<src, snk>>

StreamNext ==
  \/ Connects \/ LinkLost
  \/ AwaitResponse \/ AwaitChannel \/ Idle \/ StreamOn \/ ClientCalls \/ SendsAhead \/ TakesAny
  \/ SourceTimesOut \/ SourceFails
  \/ Loop \/ Discovering \/ LoopWithoutLink \/ SpeakerTimesOut

-----------------------------------------------------------------------------
\* Nothing is under way and no program has anything left to read.
Quiet ==
  /\ net.up /\ net.src = <<>> /\ net.snk = <<>>
  /\ src.e.responses = <<>> /\ snk.e.accepted = <<>>
  /\ \A c \in Cids : src.e.rx[c] = <<>> /\ snk.e.rx[c] = <<>>

\* The initiator's idea of the sink's endpoint, made of the responses it took, is
\* the endpoint's state, and what the speaker shows and plays follows it: nothing
\* plays for an endpoint that is idle, and after the stream's end neither channel
\* has a user left (Session::handle_command, SinkRuntime::poll, stream_audio).
StreamAgrees ==
  Quiet /\ snk.pc = "loop" =>
    /\ plan.program # "raw" /\ src.pc \in {"streaming", "ready"} =>
         /\ snk.e.eps = <<src.view>>
         /\ src.view.state = "streaming" => snk.ui = "started" /\ snk.playing
         /\ src.view.state = "idle" => snk.ui = "stopped" /\ ~snk.playing
    /\ src.pc = "streaming" => snk.e.media = Media
    /\ src.pc = "done" => snk.e.sig = 0 /\ snk.e.media = 0 /\ snk.ui = "idle" /\ ~snk.playing

\* A response is taken for the command it answers, also when both ends ask at
\* once or answers come after a timeout, as long as fewer than Labels commands
\* are between; and media packets arrive whole, in order and, when nothing is
\* lost, to the last one (take_response, SinkRuntime::poll).
StreamInPlace ==
  /\ ~src.wrong
  /\ snk.got = [i \in DOMAIN snk.got |-> i]
  /\ Quiet /\ src.pc = "done" => Len(snk.got) = plan.packets

\* Two programs that both wait for the other's answer go on answering: with
\* nothing under way no request is open, and the stream is never left half opened
\* (the poll in avdtp_request of bumble-player and of bumble-speaker).
StreamSettles ==
  Quiet => src.pc \notin {"request", "wait_sig", "wait_media"} /\ snk.pc # "discovering"
=============================================================================

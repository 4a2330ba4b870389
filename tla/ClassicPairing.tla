--------------------------- MODULE ClassicPairing ---------------------------
(***************************************************************************)
(* Authentication of a Classic link: a ClassicPairingSession at each end   *)
(* (bumble-transport/src/host.rs) with the Device beneath it, which keeps  *)
(* the events until a session takes them and, with a pairing manager, has  *)
(* link keys of its own (bumble-host/src/lib.rs).  End 1 asks for the      *)
(* authentication and end 2 listens.  The two controllers, which do the    *)
(* cryptography, are external: the order of their requests and what makes  *)
(* a pairing fail are those that the host code is written for.             *)
(***************************************************************************)
EXTENDS Integers, Sequences, SequencesExt, FiniteSets

CONSTANTS
  Plans  \* [io, mitm, bonding, yes, number, managed, ssp, rounds, losses]

VARIABLES
  host,  \* per end: its session, the Device's events and the key stores
  cmds,  \* commands on their way to each controller
  evs,   \* events on their way to each host
  ctl,   \* the two controllers
  plan   \* who the ends are, and what may still happen

vars == <<host, cmds, evs, ctl, plan>>

Ends == {1, 2}
Other(d) == 3 - d
NoKey == [key |-> 0, type |-> 0]

\* ClassicPairingSession::new with the keys of the program's store.  `method` is
\* history: how the last confirmation was answered.
Session(stored) ==
  [started |-> FALSE, authenticated |-> FALSE, keys |-> stored, peerIo |-> "none",
   failed |-> FALSE, done |-> FALSE, method |-> "none"]

-----------------------------------------------------------------------------
(* The session                                                              *)
\* classic_io_capability
ClassicIo(d) == IF plan.io[d] = "keyboard_display" THEN "yes_no" ELSE plan.io[d]

\* Mutant: an end that can ask its user confirms on its own.
NeverCompares(peer, local) ==
  CASE peer \in {"display", "yes_no"} /\ local = "display" -> "display_auto_confirm"
    [] \/ peer \in {"display", "yes_no"} /\ local \in {"none", "yes_no"}
       \/ peer = "keyboard" /\ local = "none"
       \/ peer = "none" /\ local \in {"keyboard", "none"} -> "auto_confirm"
    [] peer = "none" /\ local \in {"display", "yes_no"} -> "confirm"
    [] OTHER -> "reject"

\* classic_confirmation_method
ConfirmationMethod(peer, local) ==
  CASE peer \in {"display", "yes_no"} /\ local = "display" -> "display_auto_confirm"
    [] peer \in {"display", "yes_no"} /\ local = "yes_no" -> "compare"
    [] \/ peer \in {"display", "yes_no"} /\ local = "none"
       \/ peer = "keyboard" /\ local = "none"
       \/ peer = "none" /\ local \in {"keyboard", "none"} -> "auto_confirm"
    [] peer = "none" /\ local \in {"display", "yes_no"} -> "confirm"
    [] OTHER -> "reject"

\* Mutant: only a comparison asks the delegate.
ConfirmedUnasked(d, method) == method # "reject" /\ (method = "compare" => plan.yes[d])

\* confirm_numeric: the delegate decides, but for the combinations nobody can.
Confirmed(d, method) == method # "reject" /\ plan.yes[d]

Command(kind, value) == [kind |-> kind, value |-> value]

\* process_event: the session afterwards.
Processed(d, s, e) ==
  CASE e.kind = "authenticated" ->
         IF e.value = 0 THEN [s EXCEPT !.authenticated = TRUE] ELSE [s EXCEPT !.failed = TRUE]
    [] e.kind = "paired" -> IF e.value = 0 THEN s ELSE [s EXCEPT !.failed = TRUE]
    [] e.kind = "key" -> [s EXCEPT !.keys = e.value]
    [] e.kind = "peer_io" -> [s EXCEPT !.peerIo = e.value]
    [] e.kind = "confirm" -> [s EXCEPT !.method = ConfirmationMethod(s.peerIo, ClassicIo(d))]
    [] OTHER -> s

\* process_event: what it replies.  A PIN is asked of a keyboard only.
Reply(d, s, e) ==
  CASE e.kind = "key_request" -> <<Command("key", s.keys)>>
    [] e.kind = "io_request" -> <<Command("io", [io |-> ClassicIo(d), mitm |-> plan.mitm[d]])>>
    [] e.kind = "confirm" ->
         <<Command("answer", IF Confirmed(d, ConfirmationMethod(s.peerIo, ClassicIo(d)))
                             THEN 1 ELSE 0)>>
    [] e.kind = "passkey" -> <<Command("answer", plan.number[d])>>
    [] e.kind = "pin" ->
         <<Command("answer", IF ClassicIo(d) = "keyboard" THEN plan.number[d] ELSE 0)>>
    [] OTHER -> <<>>

\* The loop of drive_once over the events it took; an error leaves it.
Driven(d, s, events) ==
  LET one(acc, e) ==
        IF acc.s.failed THEN acc
        ELSE [s |-> Processed(d, acc.s, e), out |-> acc.out \o Reply(d, acc.s, e)]
  IN FoldLeft(one, [s |-> s, out |-> <<>>], events)

\* drive_once hands the keys out once the controller has authenticated, and a
\* bond, where one is wanted, has its key.
Complete(d, s) ==
  ~s.failed /\ s.authenticated /\ (~plan.bonding[d] \/ s.keys # NoKey)

-----------------------------------------------------------------------------
(* Device::poll                                                             *)
\* Mutant: events of a lost link stay for the next session.
RecordedForGood(d, h, e) ==
  [h EXCEPT !.events = Append(@, e), !.up = @ /\ e.kind # "ended",
            !.own = IF e.kind = "key" /\ plan.managed[d] THEN e.value ELSE @]

\* The arms of the pairing events: with a pairing manager the Device answers a
\* key request and keeps a new key itself; a session is told either way.  The end
\* of the link drops what was recorded for the peer.
Recorded(d, h, e) ==
  IF e.kind = "ended" THEN [h EXCEPT !.events = <<>>, !.up = FALSE]
  ELSE [h EXCEPT !.events = Append(@, e),
                 !.own = IF e.kind = "key" /\ plan.managed[d] THEN e.value ELSE @]

DeviceReplies(d, h, events) ==
  FlattenSeq([i \in DOMAIN events |->
                IF events[i].kind = "key_request" /\ plan.managed[d]
                THEN <<Command("key", h.own)>> ELSE <<>>])

Polled(d, h, events) ==
  LET one(acc, e) == Recorded(d, acc, e) IN FoldLeft(one, h, events)

\* begin and listen.  The listener's program may be late: events wait for it.
Begin ==
  /\ host[1].up /\ ~host[1].s.started
  /\ host' = [host EXCEPT ![1].s.started = TRUE]
  /\ cmds' = [cmds EXCEPT ![1] = Append(@, Command("authenticate", 0))]
  /\ UNCHANGED <<evs, ctl, plan>>

Listen ==
  /\ host[2].up /\ ~host[2].s.started
  /\ host' = [host EXCEPT ![2].s.started = TRUE]
  /\ UNCHANGED <<cmds, evs, ctl, plan>>

\* A poll by somebody else than a session.
Over(d) == host[d].s.done \/ host[d].s.failed
PollAlone(d) ==
  /\ (~host[d].s.started \/ Over(d)) /\ evs[d] # <<>>
  /\ host' = [host EXCEPT ![d] = Polled(d, @, evs[d])]
  /\ cmds' = [cmds EXCEPT ![d] = @ \o DeviceReplies(d, host[d], evs[d])]
  /\ evs' = [evs EXCEPT ![d] = <<>>]
  /\ UNCHANGED <<ctl, plan>>

\* drive_once, and what the programs do with its keys: authenticate_classic and
\* the speaker's main loop store them.
DriveOnce(d) ==
  /\ host[d].up /\ host[d].s.started /\ ~Over(d)
  /\ \E n \in 0..Len(evs[d]) :
       LET arrived == SubSeq(evs[d], 1, n)
           h == Polled(d, host[d], arrived)
           r == Driven(d, h.s, h.events)
           complete == Complete(d, r.s)
       IN /\ n > 0 \/ h.events # <<>>
          /\ host' = [host EXCEPT ![d] =
                        [h EXCEPT !.events = <<>>, !.s = [r.s EXCEPT !.done = complete],
                                  !.store = IF complete /\ r.s.keys # NoKey THEN r.s.keys ELSE @]]
          /\ cmds' = [cmds EXCEPT ![d] = @ \o DeviceReplies(d, host[d], arrived) \o r.out]
          /\ evs' = [evs EXCEPT ![d] = SubSeq(@, n + 1, Len(@))]
  /\ UNCHANGED <<ctl, plan>>

\* drive_once without its connection.
DriveFails(d) ==
  /\ ~host[d].up /\ host[d].s.started /\ ~Over(d)
  /\ host' = [host EXCEPT ![d].s.failed = TRUE]
  /\ UNCHANGED <<cmds, evs, ctl, plan>>

-----------------------------------------------------------------------------
(* The controllers                                                          *)
Off == [up |-> TRUE, phase |-> "off", need |-> {}, given |-> [d \in Ends |-> 0],
        io |-> [d \in Ends |-> [io |-> "none", mitm |-> FALSE]], type |-> 0]
Ev(kind, value) == [kind |-> kind, value |-> value]

\* A controller takes the next command and tells the two hosts.
Controls(d, c, told) ==
  /\ cmds' = [cmds EXCEPT ![d] = Tail(@)]
  /\ ctl' = c
  /\ evs' = [e \in Ends |-> evs[e] \o told[e]]
  /\ UNCHANGED <<host, plan>>
Told(d, own, other) == [e \in Ends |-> IF e = d THEN own ELSE other]
Takes(d, kind) == ctl.up /\ cmds[d] # <<>> /\ Head(cmds[d]).kind = kind

\* Authentication_Requested: is there a key?
OnAuthenticate ==
  /\ Takes(1, "authenticate")
  /\ Controls(1, [ctl EXCEPT !.phase = "key", !.need = {1}], Told(1, <<Ev("key_request", 0)>>, <<>>))

\* Link_Key_Request_Reply, or its negative: the keys of both ends are compared,
\* and without a key at end 1 a pairing begins.
OnKey(d) ==
  /\ Takes(d, "key") /\ d \in ctl.need /\ ctl.phase = "key"
  /\ LET key == Head(cmds[d]).value
         next == [ctl EXCEPT !.given[d] = key, !.need = {2}]
     IN CASE d = 1 /\ key # NoKey -> Controls(d, next, Told(2, <<Ev("key_request", 0)>>, <<>>))
          [] d = 1 /\ key = NoKey ->
               IF plan.ssp
               THEN Controls(d, [ctl EXCEPT !.phase = "io"], Told(1, <<Ev("io_request", 0)>>, <<>>))
               ELSE Controls(d, [ctl EXCEPT !.phase = "pin", !.need = Ends],
                             Told(1, <<Ev("pin", 0)>>, <<Ev("pin", 0)>>))
          [] d = 2 -> Controls(d, Off, Told(1, <<Ev("authenticated",
                                                    IF key = ctl.given[1] THEN 0 ELSE 6)>>, <<>>))

\* How the two authenticate each other, from what they can do.
Association(io) ==
  IF \/ ~io[1].mitm /\ ~io[2].mitm
     \/ \E d \in Ends : io[d].io = "none"
     \/ \A d \in Ends : io[d].io \in {"display", "yes_no"}
  THEN "confirm" ELSE "passkey"
KeyType(io) ==
  IF \/ Association(io) = "passkey"
     \/ (io[1].mitm \/ io[2].mitm) /\ (\A d \in Ends : io[d].io = "yes_no")
  THEN 5 ELSE 4

\* IO_Capability_Request_Reply of end 1 and then of end 2.
OnIo(d) ==
  /\ Takes(d, "io") /\ d \in ctl.need
  /\ LET io == [ctl.io EXCEPT ![d] = Head(cmds[d]).value]
         tell == Ev("peer_io", io[d].io)
         keyboards == {e \in Ends : io[e].io = "keyboard"}
         ask == [e \in Ends |-> IF Association(io) = "confirm" THEN Ev("confirm", 0)
                                ELSE IF e \in keyboards THEN Ev("passkey", 0) ELSE Ev("shown", 0)]
     IN IF d = 1
        THEN Controls(d, [ctl EXCEPT !.io = io, !.need = {2}],
                      Told(2, <<tell, Ev("io_request", 0)>>, <<>>))
        ELSE Controls(d, [ctl EXCEPT !.io = io, !.phase = Association(io), !.type = KeyType(io),
                            !.need = IF Association(io) = "confirm" THEN Ends ELSE keyboards],
                      Told(1, <<tell, ask[1]>>, <<ask[2]>>))

\* The answers agree: both confirmed; the passkey shown, or entered twice; a PIN.
Agreed(phase, given) ==
  CASE phase = "confirm" -> given[1] = 1 /\ given[2] = 1
    [] phase = "passkey" ->
         LET keyboards == {d \in Ends : ctl.io[d].io = "keyboard"} IN
         IF keyboards = Ends THEN given[1] = given[2] /\ given[1] # 0
         ELSE \A d \in keyboards : given[d] = 1
    [] phase = "pin" -> given[1] = given[2] /\ given[1] # 0

\* The last answer decides.  New keys are numbered by the rounds that are left.
OnAnswer(d) ==
  /\ Takes(d, "answer") /\ d \in ctl.need
  /\ LET given == [ctl.given EXCEPT ![d] = Head(cmds[d]).value]
         key == Ev("key", [key |-> 1 + plan.rounds, type |-> ctl.type])
         paired(status) == IF plan.ssp THEN <<Ev("paired", status)>> ELSE <<>>
     IN IF ctl.need # {d}
        THEN Controls(d, [ctl EXCEPT !.given = given, !.need = @ \ {d}], Told(1, <<>>, <<>>))
        ELSE IF Agreed(ctl.phase, given)
        THEN \E keyFirst \in BOOLEAN :
               LET both == IF keyFirst THEN <<key>> \o paired(0) ELSE paired(0) \o <<key>> IN
               Controls(d, Off, Told(1, both \o <<Ev("authenticated", 0)>>, both))
        ELSE Controls(d, Off, Told(1, paired(5) \o <<Ev("authenticated", 5)>>, paired(5)))

\* A reply that no request waits for.
OnStray(d) ==
  /\ ctl.up /\ cmds[d] # <<>> /\ Head(cmds[d]).kind # "authenticate" /\ d \notin ctl.need
  /\ Controls(d, ctl, Told(1, <<>>, <<>>))

-----------------------------------------------------------------------------
\* The link ends, by a fault or once end 1 is through.
LinkEnds ==
  /\ ctl.up
  /\ \/ Over(1) /\ UNCHANGED plan
     \/ ~Over(1) /\ plan.losses > 0 /\ plan' = [plan EXCEPT !.losses = @ - 1]
  /\ ctl' = [Off EXCEPT !.up = FALSE]
  /\ cmds' = [d \in Ends |-> <<>>]
  /\ evs' = [d \in Ends |-> Append(evs[d], Ev("ended", 0))]
  /\ UNCHANGED host

\* The next link, with new sessions and the keys that the programs stored.
Reconnect ==
  /\ ~ctl.up /\ plan.rounds > 0
  /\ \A d \in Ends : ~host[d].up /\ (host[d].s.started => Over(d))
  /\ plan' = [plan EXCEPT !.rounds = @ - 1]
  /\ ctl' = Off
  /\ host' = [d \in Ends |-> [host[d] EXCEPT !.s = Session(host[d].store), !.up = TRUE]]
  /\ cmds' = [d \in Ends |-> <<>>]
  /\ UNCHANGED evs

SspInit ==
  /\ plan \in Plans
  /\ host = [d \in Ends |-> [s |-> Session(NoKey), events |-> <<>>, up |-> TRUE,
                            store |-> NoKey, own |-> NoKey]]
  /\ cmds = [d \in Ends |-> <<>>]
  /\ evs = [d \in Ends |-> <<>>]
  /\ ctl = Off

SspNext ==
  \/ Begin \/ Listen \/ OnAuthenticate \/ LinkEnds \/ Reconnect
  \/ \E d \in Ends : PollAlone(d) \/ DriveOnce(d) \/ DriveFails(d) \/ OnKey(d) \/ OnIo(d) \/ OnAnswer(d) \/ OnStray(d)

-----------------------------------------------------------------------------
Quiet ==
  /\ ctl.up /\ \A d \in Ends : host[d].s.started /\ cmds[d] = <<>> /\ evs[d] = <<>> /\ host[d].events = <<>>

\* The keys an end can answer a request with: its session's, or the Device's own.
Holds(d) == {host[d].s.keys} \cup (IF plan.managed[d] THEN {host[d].own} ELSE {})

\* What the two users and the two stores were asked leads to a key that both ends
\* hold, and only then: a requester that is through shares its key with the
\* listener; a user who refuses, or a wrong number, leaves no new key; and a key
\* counts as authenticated only when every end that can ask its user has
\* (process_event, confirm_numeric, persist_classic_link_key).
SspSound ==
  Quiet =>
    /\ host[1].s.done => host[1].s.keys \in Holds(2)
    /\ \A d \in Ends : ~plan.yes[d] => host[d].s.method = "none" \/ ~host[1].s.done
    /\ \A d \in Ends : host[d].s.keys.type = 5 /\ host[d].s.method # "none" =>
         host[d].s.method = "compare"

\* Two ends that can confirm to each other, with users who do, get through,
\* first without and then with the key, whenever the listener's session comes
\* (take_classic_pairing_events_for keeps the events for it).
SspCompletes ==
  Quiet /\ (\A d \in Ends : plan.yes[d] /\ plan.number[d] = 1)
        /\ (plan.ssp \/ \A d \in Ends : ClassicIo(d) = "keyboard")
        /\ (\A d \in Ends : host[d].s.method # "reject")
        /\ (plan.managed[2] \/ host[1].store = NoKey)
    => host[1].s.done
=============================================================================

----------------------------- MODULE Discovery -----------------------------
(***************************************************************************)
(* Finding peers: LE scanning with its per-advertiser accumulators, the    *)
(* BR/EDR inquiry loop, peer lookups, which start a scan or an inquiry of   *)
(* their own only when the application has none, and remote name requests. *)
(*                                                                         *)
(* The application and the lookups share one scanner and one inquiry.      *)
(* Reports, inquiry completions and name completions reach the host later, *)
(* in a batch, when the application may already have asked for something   *)
(* else.  The controller here is an external one: the virtual controller   *)
(* answers no inquiry.                                                     *)
(***************************************************************************)
EXTENDS Integers, FiniteSets, Sequences, SequencesExt

CONSTANTS
    Advertisers, \* what is on the air: [addr, scannable, named], named being
                 \* "adv" or "rsp", the packet the local name is in
    Inquired,    \* the BR/EDR peers that answer an inquiry
    Lookups,     \* the lookups the application may ask for: [transport, addr]
    Named,       \* the BR/EDR peers whose names are requested
    Plans,       \* what the application does: [calls, kinds], how many calls
                 \* it makes, and of which kinds
    MaxEvents    \* the packets a controller holds for the host

VARIABLES
    host,        \* the Device
    ctl,         \* the controller: its scan, its inquiry, its name requests
    evs,         \* packets not yet polled, in order
    want,        \* what the application itself has asked for and not stopped
    plan         \* the calls the application may still make

vars == <<host, ctl, evs, want, plan>>

Addresses == {p.addr : p \in Advertisers}

\* AdvertisementDataAccumulator::new, and an advertiser not heard yet.
Unheard == [last |-> "none", data |-> {}, passive |-> FALSE, known |-> FALSE]

Init ==
    /\ host = [scanning |-> FALSE, passive |-> FALSE, ownsScan |-> FALSE,
               discovering |-> FALSE, auto |-> TRUE, ownsInquiry |-> FALSE,
               pending |-> {}, found |-> {},
               heard |-> [a \in Addresses |-> Unheard],
               names |-> <<>>, asked |-> [a \in Named |-> 0],
               told |-> [a \in Named |-> 0]]
    /\ ctl = [scan |-> "off", requested |-> {}, inquiry |-> FALSE, paged |-> <<>>, paging |-> <<>>]
    /\ evs = <<>>
    /\ want = [scan |-> FALSE, inquiry |-> FALSE]
    /\ plan \in Plans

\* The commands act on the controller at once, in the order they are sent.
State(h, c) == [h |-> h, c |-> c]

-----------------------------------------------------------------------------
(* Scanning and inquiry.                                                    *)

\* start_scanning and start_extended_scanning: the scan is the caller's, and
\* what was heard before is forgotten.
start_scanning(s, active) ==
    State([s.h EXCEPT !.ownsScan = FALSE, !.passive = ~active, !.scanning = TRUE,
                      !.heard = [a \in Addresses |-> Unheard]],
          [s.c EXCEPT !.scan = IF active THEN "active" ELSE "passive",
                      !.requested = {}])

stop_scanning(s) ==
    State([s.h EXCEPT !.ownsScan = FALSE, !.scanning = FALSE],
          [s.c EXCEPT !.scan = "off", !.requested = {}])

start_discovery(s, autoRestart) ==
    State([s.h EXCEPT !.ownsInquiry = FALSE, !.auto = autoRestart,
                      !.discovering = TRUE],
          [s.c EXCEPT !.inquiry = TRUE])

\* stop_discovery cancels the inquiry only if the host believes in one.
stop_discovery(s) ==
    State([s.h EXCEPT !.ownsInquiry = FALSE, !.auto = TRUE, !.discovering = FALSE],
          [s.c EXCEPT !.inquiry = @ /\ ~s.h.discovering])

-----------------------------------------------------------------------------
(* Peer lookups.                                                            *)

Waiting(h, transport) == \E l \in h.pending : l.transport = transport

\* find_peer_by_name and find_peer_by_identity_address: an activity is started
\* only if there is none, and is then the lookups' own.
find_peer(s, l) ==
    LET q == [s EXCEPT !.h.pending = @ \cup {l}] IN
    IF l.transport = "le" /\ ~q.h.scanning
    THEN [start_scanning(q, TRUE) EXCEPT !.h.ownsScan = TRUE]
    ELSE IF l.transport = "classic" /\ ~q.h.discovering
    THEN [start_discovery(q, TRUE) EXCEPT !.h.ownsInquiry = TRUE]
    ELSE q

\* A mutant of finish_peer_lookup_activity: ownership is not looked at.
finish_any_activity(s) ==
    LET scan == IF ~Waiting(s.h, "le") /\ s.h.scanning THEN stop_scanning(s) ELSE s
    IN  IF ~Waiting(scan.h, "classic") /\ scan.h.ownsInquiry
        THEN stop_discovery(scan) ELSE scan

\* finish_peer_lookup_activity: the lookups' own activity ends with the last
\* lookup of its transport.
finish_peer_lookup_activity(s) ==
    LET scan == IF ~Waiting(s.h, "le") /\ s.h.ownsScan THEN stop_scanning(s) ELSE s
    IN  IF ~Waiting(scan.h, "classic") /\ scan.h.ownsInquiry
        THEN stop_discovery(scan) ELSE scan

\* complete_peer_lookups: every lookup that the peer satisfies ends.  A lookup
\* of addr wants the local name that only addr has.
complete_peer_lookups(s, transport, addr, data) ==
    LET done == {l \in s.h.pending : l.transport = transport
                                        /\ <<"name", l.addr>> \in data}
    IN  finish_peer_lookup_activity(
            [s EXCEPT !.h.pending = @ \ done,
                      !.h.found = @ \cup {<<l, addr>> : l \in done}])

-----------------------------------------------------------------------------
(* Advertising reports.                                                     *)

\* A mutant of update: a scan response is not joined to its advertisement.
UpdateDropsResponse(a, r) ==
    LET rsp == r.kind = "rsp" IN
    [acc |-> [a EXCEPT !.last = r.kind, !.data = IF rsp THEN {} ELSE r.data],
     shown |-> IF rsp THEN {}
               ELSE IF a.passive \/ ~r.scannable \/ a.last = "adv" THEN {r.data}
               ELSE {}]

\* AdvertisementDataAccumulator::update.  A scan response is joined to the
\* advertisement it answers; a scannable advertisement of an active scan is held
\* until its response or the next advertisement comes.
update(a, r) ==
    LET rsp == r.kind = "rsp" IN
    [acc |-> [a EXCEPT !.last = r.kind, !.data = IF rsp THEN {} ELSE r.data],
     shown |-> IF rsp THEN (IF a.last = "adv" THEN {a.data \cup r.data} ELSE {})
               ELSE IF a.passive \/ ~r.scannable \/ a.last = "adv" THEN {r.data}
               ELSE {}]

\* A mutant of OnReport: one accumulator for all advertisers.
OnReportShared(s, r) ==
    LET key == CHOOSE a \in Addresses : TRUE
        old == IF s.h.heard[key].known THEN s.h.heard[key]
               ELSE [Unheard EXCEPT !.known = TRUE, !.passive = s.h.passive]
        new == update(old, r)
        kept == [s EXCEPT !.h.heard[key] = new.acc]
    IN  IF new.shown = {} THEN kept
        ELSE complete_peer_lookups(kept, "le", r.addr, UNION new.shown)

\* The AdvertisingReport and ExtendedAdvertisingReport arms of poll.
OnReport(s, r) ==
    LET old == IF s.h.heard[r.addr].known THEN s.h.heard[r.addr]
               ELSE [Unheard EXCEPT !.known = TRUE, !.passive = s.h.passive]
        new == update(old, r)
        kept == [s EXCEPT !.h.heard[r.addr] = new.acc]
    IN  IF new.shown = {} THEN kept
        ELSE complete_peer_lookups(kept, "le", r.addr, UNION new.shown)

\* InquiryComplete: a discovery that restarts keeps its owner.
OnInquiryComplete(s) ==
    IF s.h.discovering /\ s.h.auto
    THEN [start_discovery(s, TRUE) EXCEPT !.h.ownsInquiry = s.h.ownsInquiry]
    ELSE [s EXCEPT !.h.auto = TRUE, !.h.discovering = FALSE]

-----------------------------------------------------------------------------
(* Remote names.                                                            *)

DropName(names, a) ==
    LET at == {i \in DOMAIN names : names[i] = a}
    IN  IF at = {} THEN names
        ELSE RemoveAt(names, CHOOSE i \in at : \A j \in at : i <= j)

\* complete_remote_name_request and record_remote_name_result.
NameTold(s, a) ==
    [s EXCEPT !.h.asked[a] = IF @ = 0 THEN 0 ELSE @ - 1, !.h.told[a] = @ + 1]

\* A mutant of OnNameStatus: a refusal leaves its request pending.
OnNameStatusDropped(s, e) == [s EXCEPT !.h.names = IF @ = <<>> THEN @ ELSE Tail(@)]

\* The CommandStatus of a RemoteNameRequest is charged to the oldest request.
OnNameStatus(s, e) ==
    IF s.h.names = <<>> THEN s
    ELSE LET popped == [s EXCEPT !.h.names = Tail(@)] IN
         IF e.status = 0 THEN popped ELSE NameTold(popped, Head(s.h.names))

\* RemoteNameRequestComplete, with a name or with an error.
OnNameComplete(s, e) ==
    NameTold([s EXCEPT !.h.names = DropName(@, e.addr)], e.addr)

OnEvent(s, e) ==
    CASE e.kind \in {"adv", "rsp"} -> OnReport(s, e)
      [] e.kind = "eir" ->
           complete_peer_lookups(s, "classic", e.addr, {<<"name", e.addr>>})
      [] e.kind = "inquiryDone" -> OnInquiryComplete(s)
      [] e.kind = "nameStatus" -> OnNameStatus(s, e)
      [] e.kind = "name" -> OnNameComplete(s, e)

Poll ==
    /\ evs # <<>>
    /\ \E s \in {FoldLeft(OnEvent, State(host, ctl), evs)} :
          /\ host' = s.h
          /\ ctl' = s.c
          /\ want' = [want EXCEPT !.inquiry = @ /\ s.h.discovering]
    /\ evs' = <<>>
    /\ UNCHANGED plan

-----------------------------------------------------------------------------
(* The air, and the controller.                                             *)

Room(n) == Len(evs) + n <= MaxEvents

Packet(p, kind) ==
    [kind |-> kind, addr |-> p.addr, scannable |-> p.scannable,
     data |-> IF p.named = kind THEN {<<"name", p.addr>>} ELSE {<<kind, p.addr>>}]

\* An advertisement is heard; in an active scan its response is asked for.
Heard(p) ==
    /\ ctl.scan # "off"
    /\ Room(1)
    /\ evs' = Append(evs, Packet(p, "adv"))
    /\ ctl' = [ctl EXCEPT !.requested =
                  IF ctl.scan = "active" /\ p.scannable THEN @ \cup {p.addr} ELSE @]
    /\ UNCHANGED <<host, want, plan>>

\* The scan response comes, unless it is lost; other reports may come first.
Answered(p) ==
    /\ p.addr \in ctl.requested
    /\ Room(1)
    /\ evs' = Append(evs, Packet(p, "rsp"))
    /\ ctl' = [ctl EXCEPT !.requested = @ \ {p.addr}]
    /\ UNCHANGED <<host, want, plan>>

\* An inquiry finds a peer, or runs out.
InquiryFinds(a) ==
    /\ ctl.inquiry
    /\ Room(1)
    /\ evs' = Append(evs, [kind |-> "eir", addr |-> a])
    /\ UNCHANGED <<host, ctl, want, plan>>

InquiryEnds ==
    /\ ctl.inquiry
    /\ Room(1)
    /\ ctl' = [ctl EXCEPT !.inquiry = FALSE]
    /\ evs' = Append(evs, [kind |-> "inquiryDone"])
    /\ UNCHANGED <<host, want, plan>>

\* The controller accepts or refuses the oldest name request.
NameStatus(status) ==
    /\ ctl.paged # <<>>
    /\ Room(1)
    /\ ctl' = [ctl EXCEPT !.paged = Tail(@),
                          !.paging = IF status = 0 THEN Append(@, Head(ctl.paged)) ELSE @]
    /\ evs' = Append(evs, [kind |-> "nameStatus", status |-> status])
    /\ UNCHANGED <<host, want, plan>>

\* The page ends, with a name or without.
NameComplete ==
    /\ ctl.paging # <<>>
    /\ Room(1)
    /\ ctl' = [ctl EXCEPT !.paging = Tail(@)]
    /\ evs' = Append(evs, [kind |-> "name", addr |-> Head(ctl.paging)])
    /\ UNCHANGED <<host, want, plan>>

-----------------------------------------------------------------------------
(* The application's calls.                                                 *)

Call(kind) ==
    /\ plan.calls > 0
    /\ kind \in plan.kinds
    /\ plan' = [plan EXCEPT !.calls = @ - 1]
    /\ UNCHANGED evs

Becomes(s) == host' = s.h /\ ctl' = s.c

Now == State(host, ctl)

StartScanning(active) ==
    /\ Call("scan")
    /\ Becomes(start_scanning(Now, active))
    /\ want' = [want EXCEPT !.scan = TRUE]

\* Stopping the shared scanner starves a lookup: an application that has lookups
\* pending cancels them instead.
StopScanning ==
    /\ Call("scan")
    /\ ~Waiting(host, "le")
    /\ Becomes(stop_scanning(Now))
    /\ want' = [want EXCEPT !.scan = FALSE]

StartDiscovery(autoRestart) ==
    /\ Call("inquiry")
    /\ Becomes(start_discovery(Now, autoRestart))
    /\ want' = [want EXCEPT !.inquiry = TRUE]

StopDiscovery ==
    /\ Call("inquiry")
    /\ ~Waiting(host, "classic")
    /\ Becomes(stop_discovery(Now))
    /\ want' = [want EXCEPT !.inquiry = FALSE]

FindPeer(l) ==
    /\ Call("find")
    /\ Becomes(find_peer(Now, l))
    /\ UNCHANGED want

CancelPeerLookup(l) ==
    /\ Call("find")
    /\ l \in host.pending
    /\ Becomes(finish_peer_lookup_activity([Now EXCEPT !.h.pending = @ \ {l}]))
    /\ UNCHANGED want

\* request_remote_name: one request at a time for an address.  The completion
\* of an earlier request would drop the later one's place in the command queue.
RequestRemoteName(a) ==
    /\ Call("name")
    /\ host.asked[a] = 0
    /\ host' = [host EXCEPT !.names = Append(@, a), !.asked[a] = @ + 1]
    /\ ctl' = [ctl EXCEPT !.paged = Append(@, a)]
    /\ UNCHANGED want

Next ==
    \/ Poll
    \/ \E p \in Advertisers : Heard(p) \/ Answered(p)
    \/ \E a \in Inquired : InquiryFinds(a)
    \/ InquiryEnds
    \/ \E status \in {0, 1} : NameStatus(status)
    \/ NameComplete
    \/ \E active \in BOOLEAN : StartScanning(active)
    \/ StopScanning
    \/ \E autoRestart \in BOOLEAN : StartDiscovery(autoRestart)
    \/ StopDiscovery
    \/ \E l \in Lookups : FindPeer(l) \/ CancelPeerLookup(l)
    \/ \E a \in Named : RequestRemoteName(a)

\* What Poll does to the queue, and no other action does.
Drained == evs # <<>> /\ evs' = <<>>

\* The host polls; what is on the air is heard, and a scan response received,
\* again and again while the scan allows it, and an inquiry finds its peers.
Fairness ==
    /\ WF_evs(Drained)
    /\ \A p \in Advertisers : SF_vars(Heard(p)) /\ SF_vars(Answered(p))
    /\ \A a \in Inquired : SF_vars(InquiryFinds(a))

Spec == Init /\ [][Next]_vars /\ Fairness

-----------------------------------------------------------------------------
(* Properties.                                                              *)

\* The scanner and the inquiry run for somebody.  What the application started
\* is never stopped by a lookup that ends (finish_peer_lookup_activity), and an
\* activity that nobody asked for any more is stopped, the scan in the controller
\* too.  (The completion of an ended inquiry that is polled after the next one
\* was started without restarts makes the host forget the next one.)
ActivityServes ==
    /\ want.scan => host.scanning
    /\ host.scanning => want.scan \/ Waiting(host, "le")
    /\ host.discovering => want.inquiry \/ Waiting(host, "classic")
    /\ host.scanning = (ctl.scan # "off")

\* A lookup ends with the peer that has the name, never with one heard around
\* the same time: an advertisement and a scan response are only joined when they
\* are of one advertiser (advertisement_accumulators).
FoundIsRight == \A f \in host.found : f[1].addr = f[2]

\* Every remote name request is answered once: when the controller owes nothing
\* and everything is polled, none is pending (complete_remote_name_request), and
\* no answer went to another address.
NamesAnswered ==
    (evs = <<>> /\ ctl.paged = <<>> /\ ctl.paging = <<>>) =>
        /\ host.names = <<>>
        /\ \A a \in Named : host.asked[a] = 0

\* The lookup's peer can be heard: the scan or the inquiry is running, and a
\* passive scan does not see a name that is only in a scan response.
Audible(l) ==
    IF l.transport = "classic" THEN host.discovering /\ l.addr \in Inquired
    ELSE /\ host.scanning
         /\ \E p \in Advertisers :
               /\ p.addr = l.addr
               /\ p.named = "adv" \/ (ctl.scan = "active" /\ p.scannable)
=============================================================================

-------------------------------- MODULE Ertm --------------------------------
(***************************************************************************)
(* Two Enhanced Retransmission Mode engines (bumble-l2cap/src/ertm.rs)     *)
(* joined by a link that keeps the order of frames but may lose them.      *)
(*                                                                         *)
(* An engine is a record with the fields of `ErtmEngine`; each private     *)
(* method is an operator from engines to engines.  The `outbound` queue of *)
(* an engine is the link to its peer: `poll_outbound` relays its head.     *)
(* Segments are numbered in the order sent; an SDU is a sequence of them.  *)
(* Neither engine ever sets the poll or the final bit, nor sends SREJ, so  *)
(* the branches that answer those are not part of this closed system.      *)
(***************************************************************************)
EXTENDS Integers, Sequences, Streams

CONSTANTS
  Modulus,             \* ERTM_SEQUENCE_MODULUS
  TxWindowSize,        \* `tx_window_size`
  MaxRetransmissions,  \* `max_retransmissions` of each end, 0 for no limit
  MaxSegments,         \* bound: segments of an SDU
  MaxSdus,             \* bound: SDUs sent by each end, [Ends -> Nat]
  MaxLosses,           \* bound: frames lost
  MaxTransmissions,    \* bound: times a timer sends a frame again
  MaxBusyChanges,      \* bound: times the receivers turn busy
  TimerSlack           \* bound: frames on the way when a timer expires

Ends == {"a", "b"}
Peer(e) == IF e = "a" THEN "b" ELSE "a"

ASSUME ErtmAssumption ==
  /\ Modulus \in Nat \ {0, 1} /\ TxWindowSize \in 1..(Modulus - 1)
  /\ MaxRetransmissions \in [Ends -> Nat] /\ MaxSegments \in Nat /\ MaxLosses \in Nat
  /\ MaxSdus \in [Ends -> Nat] /\ MaxBusyChanges \in Nat /\ TimerSlack \in Nat
  /\ MaxTransmissions \in Nat

VARIABLES
  engine,     \* the engine of each end
  sent,       \* history: the SDUs each end sent
  errors,     \* history: errors `receive_frame` returned
  losses,     \* history: frames lost
  busyChanges \* history: times a receiver turned busy

vars == <<engine, sent, errors, losses, busyChanges>>

NewEngine(e) ==
  [maxRetransmissions |-> MaxRetransmissions[e], pending |-> <<>>, txWindow |-> <<>>, outbound |-> <<>>, received |-> <<>>,
   nextTxSeq |-> 0, lastAckedTxSeq |-> 0, expectedTxSeq |-> 0, lastAckedRxSeq |-> 0,
   remoteBusy |-> FALSE, localBusy |-> FALSE, inputSdu |-> <<>>, inputSduLength |-> 0,
   failed |-> FALSE]

Init ==
  /\ engine = [e \in Ends |-> NewEngine(e)]
  /\ sent = [e \in Ends |-> <<>>]
  /\ errors = {}
  /\ losses = 0 /\ busyChanges = 0

SequenceAdd(seq, delta) == (seq + delta) % Modulus
SequenceDistance(from, to) == (to + Modulus - from) % Modulus

-----------------------------------------------------------------------------
\* Frames.  A pending frame gets its acknowledgement when it is encoded.
Information(frame, reqSeq) == [kind |-> "I", reqSeq |-> reqSeq, frame |-> frame]
Supervisory(function, reqSeq) == [kind |-> function, reqSeq |-> reqSeq]

\* `send_supervisory`
SendSupervisory(s, function) ==
  [s EXCEPT !.outbound = Append(@, Supervisory(function, s.expectedTxSeq)),
            !.lastAckedRxSeq = s.expectedTxSeq]

\* Mutant: one frame too many is let out.
RoomForOneMore(s) == TxWindowSize + 1 - Len(s.txWindow)

\* Frames the transmit window has room for.
Room(s) == TxWindowSize - Len(s.txWindow)

\* `process_output`
ProcessOutput(s) ==
  LET n == Least(Room(s), Len(s.pending))
      out == SubSeq(s.pending, 1, n)
  IN IF s.remoteBusy \/ n <= 0 THEN s
     ELSE [s EXCEPT
            !.pending = SubSeq(@, n + 1, Len(@)),
            !.txWindow = @ \o [i \in 1..n |-> [frame |-> out[i], transmissions |-> 1]],
            !.outbound = @ \o [i \in 1..n |-> Information(out[i], s.expectedTxSeq)],
            !.lastAckedRxSeq = s.expectedTxSeq]

\* `retransmission_limit_reached`
LimitReached(s, f) ==
  s.maxRetransmissions # 0 /\ f.transmissions - 1 >= s.maxRetransmissions

\* A frame of the window, sent once more.
Resent(f) == [f EXCEPT !.transmissions = @ + 1]

\* Mutants: the limit is not looked at; nothing is sent again.
RetransmitWithoutLimit(s) ==
  IF s.remoteBusy THEN s
  ELSE [s EXCEPT
         !.txWindow = [i \in DOMAIN @ |-> Resent(@[i])],
         !.outbound = @ \o [i \in DOMAIN s.txWindow |->
                              Information(s.txWindow[i].frame, s.expectedTxSeq)],
         !.lastAckedRxSeq = IF s.txWindow = <<>> THEN @ ELSE s.expectedTxSeq]
RetransmitNothing(s) == s

\* `retransmit_all`
RetransmitAll(s) ==
  IF s.remoteBusy THEN s
  ELSE IF \E i \in DOMAIN s.txWindow : LimitReached(s, s.txWindow[i])
  THEN [s EXCEPT !.failed = TRUE]
  ELSE [s EXCEPT
         !.txWindow = [i \in DOMAIN @ |-> Resent(@[i])],
         !.outbound = @ \o [i \in DOMAIN s.txWindow |->
                              Information(s.txWindow[i].frame, s.expectedTxSeq)],
         !.lastAckedRxSeq = IF s.txWindow = <<>> THEN @ ELSE s.expectedTxSeq]

-----------------------------------------------------------------------------
\* What `acknowledge` takes from the window, and whether it may.
Acked(s, reqSeq) == SequenceDistance(s.lastAckedTxSeq, reqSeq)
Acknowledgeable(s, reqSeq) == Acked(s, reqSeq) <= Len(s.txWindow)
Acknowledge(s, reqSeq) ==
  [s EXCEPT !.txWindow = SubSeq(@, Acked(s, reqSeq) + 1, Len(@)), !.lastAckedTxSeq = reqSeq]

\* `accept_information`: whether the segment may come here, and the engine with it.
Assembling(s) == s.inputSdu # <<>> \/ s.inputSduLength # 0
Acceptable(s, f) ==
  CASE f.sar = "unsegmented"  -> ~Assembling(s)
    [] f.sar = "start"        -> ~Assembling(s) /\ 1 < f.length
    [] f.sar = "continuation" -> s.inputSduLength # 0 /\ Len(s.inputSdu) + 1 < s.inputSduLength
    [] f.sar = "end"          -> s.inputSduLength # 0 /\ Len(s.inputSdu) + 1 = s.inputSduLength
\* Mutant: the last segment does not get into the SDU.
AcceptWithoutEnd(s, f) ==
  CASE f.sar = "unsegmented"  -> [s EXCEPT !.received = Append(@, <<f.segment>>)]
    [] f.sar = "start"        -> [s EXCEPT !.inputSdu = <<f.segment>>,
                                           !.inputSduLength = f.length]
    [] f.sar = "continuation" -> [s EXCEPT !.inputSdu = Append(@, f.segment)]
    [] f.sar = "end"          -> [s EXCEPT !.received = Append(@, s.inputSdu),
                                           !.inputSdu = <<>>, !.inputSduLength = 0]

AcceptInformation(s, f) ==
  CASE f.sar = "unsegmented"  -> [s EXCEPT !.received = Append(@, <<f.segment>>)]
    [] f.sar = "start"        -> [s EXCEPT !.inputSdu = <<f.segment>>,
                                           !.inputSduLength = f.length]
    [] f.sar = "continuation" -> [s EXCEPT !.inputSdu = Append(@, f.segment)]
    [] f.sar = "end"          -> [s EXCEPT !.received = Append(@, Append(s.inputSdu, f.segment)),
                                           !.inputSdu = <<>>, !.inputSduLength = 0]

\* Whether an information frame is taken in.
InSequence(s, f) == ~s.localBusy /\ f.txSeq = s.expectedTxSeq

\* Mutant: a frame is acknowledged though the busy receiver drops it.
OnInformationAckingDropped(s, f) ==
  LET next == [s EXCEPT !.expectedTxSeq = SequenceAdd(@, 1)]
      after == ProcessOutput(AcceptInformation(next, f))
  IN IF ~InSequence(s, f)
     THEN [engine |-> IF s.localBusy THEN SendSupervisory(next, "RNR")
                      ELSE SendSupervisory(s, "REJ"), error |-> {}]
     ELSE [engine |-> IF after.lastAckedRxSeq # after.expectedTxSeq
                      THEN SendSupervisory(after, "RR") ELSE after,
           error |-> {}]

\* The Information arm of `receive_frame`, after the acknowledgement: an engine and
\* an error.
OnInformation(s, f) ==
  LET next == [s EXCEPT !.expectedTxSeq = SequenceAdd(@, 1)]
      after == ProcessOutput(AcceptInformation(next, f))
  IN IF ~InSequence(s, f)
     THEN [engine |-> SendSupervisory(s, IF s.localBusy THEN "RNR" ELSE "REJ"), error |-> {}]
     ELSE IF ~Acceptable(s, f)
     THEN [engine |-> [next EXCEPT !.inputSdu = <<>>, !.inputSduLength = 0],
           error |-> {"reassembly"}]
     ELSE [engine |-> IF after.lastAckedRxSeq # after.expectedTxSeq
                      THEN SendSupervisory(after, "RR") ELSE after,
           error |-> {}]

\* The receiver's state as a supervisory frame reports it.
NoteBusy(s, function) == [s EXCEPT !.remoteBusy = function = "RNR"]

\* The Supervisory arm of `receive_frame`.
OnSupervisory(s, function) ==
  LET noted == NoteBusy(s, function)
      resent == IF function = "REJ" THEN RetransmitAll(noted) ELSE noted
  IN IF resent.failed THEN [engine |-> resent, error |-> {"limit"}]
     ELSE [engine |-> ProcessOutput(resent), error |-> {}]

\* `receive_frame`
Receive(s, f) ==
  IF s.failed THEN [engine |-> s, error |-> {}]
  ELSE IF ~Acknowledgeable(s, f.reqSeq) THEN [engine |-> s, error |-> {"acknowledgement"}]
  ELSE IF f.kind = "I" THEN OnInformation(Acknowledge(s, f.reqSeq), f.frame)
  ELSE OnSupervisory(Acknowledge(s, f.reqSeq), f.kind)

-----------------------------------------------------------------------------
\* The segments of a sequence of SDUs.
Segments(sdus) == Total([j \in 1..Len(sdus) |-> Len(sdus[j])])

\* Mutant: the last segment is taken for one in the middle.
SarWithoutEnd(i, n) == CASE n = 1 -> "unsegmented" [] n > 1 /\ i = 1 -> "start"
                         [] OTHER -> "continuation"

\* How `send_sdu` marks segment i of n.
Sar(i, n) == CASE n = 1 -> "unsegmented" [] n > 1 /\ i = 1 -> "start"
               [] n > 1 /\ i = n -> "end" [] OTHER -> "continuation"

\* `send_sdu` of an SDU that makes n segments.
SendSdu(e, n) ==
  LET s == engine[e]
      sdu == Span(Segments(sent[e]), Segments(sent[e]) + n)
      frames == [i \in 1..n |-> [txSeq |-> SequenceAdd(s.nextTxSeq, i - 1), sar |-> Sar(i, n),
                                 segment |-> sdu[i], length |-> IF i = 1 /\ n > 1 THEN n ELSE 0]]
  IN
  /\ ~s.failed
  /\ Len(sent[e]) < MaxSdus[e]
  /\ sent' = [sent EXCEPT ![e] = Append(@, sdu)]
  /\ engine' = [engine EXCEPT ![e] =
       ProcessOutput([s EXCEPT !.pending = @ \o frames,
                               !.nextTxSeq = SequenceAdd(@, n)])]
  /\ UNCHANGED <<errors, losses, busyChanges>>

\* A frame is relayed to end e.
Deliver(e) ==
  /\ engine[Peer(e)].outbound # <<>>
  /\ LET result == Receive(engine[e], Head(engine[Peer(e)].outbound)) IN
     /\ engine' = [engine EXCEPT ![e] = result.engine, ![Peer(e)].outbound = Tail(@)]
     /\ errors' = errors \cup result.error
  /\ UNCHANGED <<sent, losses, busyChanges>>

\* The link loses a frame on its way to end e.
Lose(e) ==
  /\ engine[Peer(e)].outbound # <<>>
  /\ losses < MaxLosses
  /\ engine' = [engine EXCEPT ![Peer(e)].outbound = Tail(@)]
  /\ losses' = losses + 1
  /\ UNCHANGED <<sent, errors, busyChanges>>

\* `tick`, past the deadline.  A deadline is set whenever frames are unacknowledged.
Tick(e) ==
  /\ ~engine[e].failed
  /\ engine[e].txWindow # <<>>
  /\ engine[e].txWindow[1].transmissions <= MaxTransmissions
  /\ Len(engine[e].outbound) + Len(engine[Peer(e)].outbound) <= TimerSlack
  /\ engine' = [engine EXCEPT ![e] = RetransmitAll(@)]
  /\ UNCHANGED <<sent, errors, losses, busyChanges>>

\* `set_receiver_busy`
SetReceiverBusy(e, busy) ==
  /\ ~engine[e].failed
  /\ engine[e].localBusy # busy
  /\ busy => busyChanges < MaxBusyChanges
  /\ engine' = [engine EXCEPT ![e] =
       SendSupervisory([@ EXCEPT !.localBusy = busy], IF busy THEN "RNR" ELSE "RR")]
  /\ busyChanges' = busyChanges + (IF busy THEN 1 ELSE 0)
  /\ UNCHANGED <<sent, errors, losses>>

Next ==
  \E e \in Ends :
    \/ \E n \in 1..MaxSegments : SendSdu(e, n)
    \/ Deliver(e)
    \/ Lose(e)
    \/ Tick(e)
    \/ \E busy \in BOOLEAN : SetReceiverBusy(e, busy)

Spec == Init /\ [][Next]_vars

\* Frames are relayed, time passes, and a receiver does not stay busy for ever.
FairSpec ==
  /\ Spec
  /\ WF_vars(\E e \in Ends : Deliver(e))
  /\ WF_vars(\E e \in Ends : Tick(e))
  /\ WF_vars(\E e \in Ends : SetReceiverBusy(e, FALSE))

-----------------------------------------------------------------------------
\* Sequence numbers are below the modulus; no more frames than the window allows are
\* unacknowledged, and they carry consecutive numbers.
TypeOK ==
  \A e \in Ends : LET s == engine[e] IN
    /\ {s.nextTxSeq, s.lastAckedTxSeq, s.expectedTxSeq, s.lastAckedRxSeq} \subseteq 0..(Modulus - 1)
    /\ Len(s.txWindow) <= TxWindowSize
    /\ \A i \in DOMAIN s.txWindow :
         s.txWindow[i].frame.txSeq = SequenceAdd(s.lastAckedTxSeq, i - 1)

\* Each end receives the SDUs its peer sent, whole, once and in order, whatever is lost
\* or sent again.
InOrder ==
  \A e \in Ends : LET r == engine[e].received IN
    /\ Len(r) <= Len(sent[Peer(e)])
    /\ \A j \in 1..Len(r) : r[j] = sent[Peer(e)][j]

\* Two engines never make each other report an acknowledgement beyond the window or a
\* segment out of place.
NoProtocolError == errors \subseteq {"limit"}

\* What arrives is right, and no engine takes the other's frames for a violation
\* of the protocol.
SdusIntact == InOrder /\ NoProtocolError

\* What an end has acknowledged its peer has got: a frame leaves the window only when
\* the peer has taken it in.
NothingForgotten ==
  \A e \in Ends : LET s == engine[e]
                      r == engine[Peer(e)] IN
    Segments(sent[e]) - (Len(s.txWindow) + Len(s.pending))
      <= Segments(r.received) + Len(r.inputSdu)

\* "Zero means unlimited": no frame is sent more often than the limit allows, and an
\* engine without a limit never fails.
LimitKept ==
  \A e \in Ends : LET s == engine[e] IN
    /\ s.maxRetransmissions = 0 => ~s.failed
    /\ s.maxRetransmissions # 0 =>
         \A i \in DOMAIN s.txWindow :
           s.txWindow[i].transmissions <= s.maxRetransmissions + 1

\* The transmit window holds what is unacknowledged, in order and no more than
\* fits, frees a frame only when the peer has it, and resends within the limit.
WindowKept == TypeOK /\ NothingForgotten /\ LimitKept

\* Everything sent is eventually received, unless an engine gave up, or a frame was
\* lost and a receiver busy: a lost RR after RNR is never repeated, since
\* `retransmit_all` sends nothing, not even a poll, to a busy receiver.
AllDelivered ==
  (\E e \in Ends : Len(engine[Peer(e)].received) < Len(sent[e]))
    ~> \/ \A e \in Ends : engine[Peer(e)].received = sent[e]
       \/ \E e \in Ends : engine[e].failed
       \/ losses > 0 /\ busyChanges > 0
=============================================================================

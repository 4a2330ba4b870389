------------------------------ MODULE RfcommDlc ------------------------------
(***************************************************************************)
(* An open RFCOMM data link: the `Dlc` records of the two multiplexers     *)
(* (bumble-rfcomm/src/mux.rs) and the frames between them, both            *)
(* directions, credits riding on data frames.                              *)
(*                                                                         *)
(* Bytes are numbered in the order in which their end writes them.  A UIH  *)
(* frame is its credit octet, or -1 for a frame without the P/F bit, and   *)
(* its data.                                                               *)
(***************************************************************************)
EXTENDS Integers, Sequences, Streams

CONSTANTS
  InitialCredits,  \* credits each end offers in its PN: [Ends -> Nat]
  CreditField,     \* values the PN credit field can carry (8: three bits)
  MaxCredits,      \* RFCOMM_DEFAULT_MAX_CREDITS
  Limits,          \* <<max, threshold>> pairs of `set_dlc_receive_credits`
  Mtu,             \* octets of information in a frame
  RxQueueSize,     \* RFCOMM_DEFAULT_RX_QUEUE_SIZE
  MaxBytes,        \* bound: bytes written by each end
  WriteSizes       \* bound: sizes of a write

Ends == {"initiator", "responder"}
Peer(e) == IF e = "initiator" THEN "responder" ELSE "initiator"

ASSUME DlcAssumption ==
  /\ InitialCredits \in [Ends -> Nat]
  /\ CreditField \in Nat \ {0} /\ MaxCredits \in Nat \ {0}
  /\ Limits \subseteq {l \in (Nat \ {0}) \X Nat : l[2] <= l[1]}
  /\ Mtu \in Nat \ {0} /\ RxQueueSize \in Nat \ {0}
  /\ MaxBytes \in Nat /\ WriteSizes \subseteq Nat \ {0}

VARIABLES
  txBuffer,    \* `tx_buffer`
  txCredits,   \* `tx_credits`
  rxCredits,   \* `rx_credits`
  limits,      \* <<rx_max_credits, rx_credits_threshold>>
  paused,      \* `reading_paused`
  rxPackets,   \* `rx_packets`
  wire,        \* frames on their way to an end
  \* history
  written,     \* number of the last byte an end wrote
  received,    \* number of the last byte an end pushed on `rx_packets`
  inOrder,     \* whether all bytes came in the order written
  allowance    \* most packets that may be buffered while reading is paused

vars == <<txBuffer, txCredits, rxCredits, limits, paused, rxPackets, wire, written,
          received, inOrder, allowance>>

Uih(credit, bytes) == [credit |-> credit, bytes |-> bytes]
IsData(frame) == frame.bytes # <<>>
CreditOf(frame) == IF frame.credit = -1 THEN 0 ELSE frame.credit

\* The values of `tx_credits`, a u16.
CounterSize == 65536

-----------------------------------------------------------------------------
\* The credits the peer reads from a PN (`initial_credits & 0x07`).
OnTheWire(n) == n % CreditField

\* `Dlc::new` on both ends, with the parameters of the PN exchange.
Init ==
  /\ txBuffer = [e \in Ends |-> <<>>]
  /\ txCredits = [e \in Ends |-> OnTheWire(InitialCredits[Peer(e)])]
  /\ rxCredits = InitialCredits
  /\ limits = [e \in Ends |-> <<MaxCredits, MaxCredits \div 2>>]
  /\ paused = [e \in Ends |-> FALSE]
  /\ rxPackets = [e \in Ends |-> <<>>]
  /\ wire = [e \in Ends |-> <<>>]
  /\ written = [e \in Ends |-> 0]
  /\ received = [e \in Ends |-> 0]
  /\ inOrder = [e \in Ends |-> TRUE]
  /\ allowance = [e \in Ends |-> 0]

\* Mutants: credits are granted though reading is paused; a grant tops up the
\* peer to the maximum whatever it has.
NeededThoughPaused(e, rx, stopped) == IF rx <= limits[e][2] THEN limits[e][1] - rx ELSE 0
NeededInFull(e, rx, stopped) ==
  IF ~stopped /\ rx <= limits[e][2] THEN limits[e][1] ELSE 0

\* `rx_credits_needed`
Needed(e, rx, stopped) ==
  IF ~stopped /\ rx <= limits[e][2] THEN limits[e][1] - rx ELSE 0

\* The data that fits in a frame beside the credit octet.
CreditedChunk(buffer) == Take(buffer, Least(Len(buffer), Mtu - 1))

\* Where the i-th full frame ends, and how many frames the buffer fills.
Cut(buffer, i) == Least(i * Mtu, Len(buffer))
Pieces(buffer) == (Len(buffer) + Mtu - 1) \div Mtu

\* The frames of `process_tx` that carry no grant: one per credit, as long as
\* there is data.
PlainFrames(buffer, credits) ==
  [i \in 1..Least(Pieces(buffer), credits) |->
     Uih(-1, SubSeq(buffer, Cut(buffer, i - 1) + 1, Cut(buffer, i)))]

\* `process_tx`: the grant, if one is needed, goes with the first data.  The end
\* starts from this buffer and these credits, with `queue` on its way from it.
ProcessTx(e, buffer, tx, rx, stopped, queue) ==
  LET need == Needed(e, rx, stopped)
      spent == IF need > 0 /\ tx > 0 /\ buffer # <<>> THEN 1 ELSE 0
      chunk == IF spent = 1 THEN CreditedChunk(buffer) ELSE <<>>
      first == IF need = 0 THEN <<>> ELSE <<Uih(need % 256, chunk)>>
      rest == Drop(buffer, Len(chunk))
      more == PlainFrames(rest, tx - spent)
  IN
  /\ txBuffer' = [txBuffer EXCEPT ![e] = Drop(rest, Cut(rest, Len(more)))]
  /\ txCredits' = [txCredits EXCEPT ![e] = tx - spent - Len(more)]
  /\ rxCredits' = [rxCredits EXCEPT ![e] = rx + need]
  /\ wire' = [queue EXCEPT ![Peer(e)] = @ \o first \o more]

\* Mutant: new data goes before what is waiting.
WriteInFront(e, n) ==
  /\ written[e] + n <= MaxBytes
  /\ written' = [written EXCEPT ![e] = @ + n]
  /\ ProcessTx(e, Span(written[e], written[e] + n) \o txBuffer[e], txCredits[e],
               rxCredits[e], paused[e], wire)
  /\ UNCHANGED <<limits, paused, rxPackets, received, inOrder, allowance>>

\* `write`
Write(e, n) ==
  /\ written[e] + n <= MaxBytes
  /\ written' = [written EXCEPT ![e] = @ + n]
  /\ ProcessTx(e, txBuffer[e] \o Span(written[e], written[e] + n), txCredits[e],
               rxCredits[e], paused[e], wire)
  /\ UNCHANGED <<limits, paused, rxPackets, received, inOrder, allowance>>

\* `rx_packets` after a packet is pushed: a full queue loses its oldest packet.
Push(queue, packet) ==
  Append(IF Len(queue) = RxQueueSize THEN Tail(queue) ELSE queue, packet)

\* Mutants: a frame that only grants credits uses one up; an arriving frame does
\* not restart the transmit engine.
OnUihChargingGrants(e) ==
  /\ wire[e] # <<>>
  /\ LET frame == Head(wire[e])
         tx == txCredits[e] + CreditOf(frame)
         n == Len(frame.bytes)
     IN
     /\ ProcessTx(e, txBuffer[e], tx, IF rxCredits[e] > 0 THEN rxCredits[e] - 1 ELSE 0,
                  paused[e], [wire EXCEPT ![e] = Tail(@)])
     /\ rxPackets' = [rxPackets EXCEPT ![e] =
                        IF IsData(frame) THEN Push(@, frame.bytes) ELSE @]
     /\ received' = [received EXCEPT ![e] = @ + n]
  /\ UNCHANGED <<limits, paused, written, inOrder, allowance>>
OnUihWithoutTx(e) ==
  /\ wire[e] # <<>>
  /\ LET frame == Head(wire[e]) IN
     /\ wire' = [wire EXCEPT ![e] = Tail(@)]
     /\ txCredits' = [txCredits EXCEPT ![e] =
                        @ + CreditOf(frame)]
     /\ rxCredits' = [rxCredits EXCEPT ![e] = @ - (IF IsData(frame) THEN 1 ELSE 0)]
     /\ rxPackets' = [rxPackets EXCEPT ![e] =
                        IF IsData(frame) THEN Push(@, frame.bytes) ELSE @]
     /\ received' = [received EXCEPT ![e] = @ + Len(frame.bytes)]
  /\ UNCHANGED <<txBuffer, limits, paused, written, inOrder, allowance>>

\* `on_uih`: take in the credits, queue the data, then `process_tx`.
OnUih(e) ==
  /\ wire[e] # <<>>
  /\ LET frame == Head(wire[e])
         tx == txCredits[e] + CreditOf(frame)
         rx == IF IsData(frame) /\ rxCredits[e] > 0 THEN rxCredits[e] - 1 ELSE rxCredits[e]
         n == Len(frame.bytes)
     IN
     /\ ProcessTx(e, txBuffer[e], tx % CounterSize, rx, paused[e], [wire EXCEPT ![e] = Tail(@)])
     /\ rxPackets' = [rxPackets EXCEPT ![e] =
                        IF IsData(frame) THEN Push(@, frame.bytes) ELSE @]
     /\ received' = [received EXCEPT ![e] = @ + n]
     /\ inOrder' = [inOrder EXCEPT ![e] =
                      @ /\ frame.bytes = Span(received[e], received[e] + n)]
  /\ UNCHANGED <<limits, paused, written, allowance>>

\* `take_rx`
TakeRx(e) ==
  /\ rxPackets[e] # <<>>
  /\ rxPackets' = [rxPackets EXCEPT ![e] = <<>>]
  /\ UNCHANGED <<txBuffer, txCredits, rxCredits, limits, paused, wire, written, received,
                 inOrder, allowance>>

\* `set_dlc_reading_paused(true)`
Pause(e) ==
  /\ ~paused[e]
  /\ paused' = [paused EXCEPT ![e] = TRUE]
  /\ allowance' = [allowance EXCEPT ![e] = Len(rxPackets[e]) + rxCredits[e]]
  /\ UNCHANGED <<txBuffer, txCredits, rxCredits, limits, rxPackets, wire, written,
                 received, inOrder>>

\* `set_dlc_reading_paused(false)`, which runs `process_tx` whether or not reading
\* was paused.
Resume(e) ==
  /\ paused' = [paused EXCEPT ![e] = FALSE]
  /\ ProcessTx(e, txBuffer[e], txCredits[e], rxCredits[e], FALSE, wire)
  /\ UNCHANGED <<limits, rxPackets, written, received, inOrder, allowance>>

\* `set_dlc_receive_credits`
SetReceiveCredits(e, l) ==
  /\ limits[e] # l
  /\ limits' = [limits EXCEPT ![e] = l]
  /\ UNCHANGED <<txBuffer, txCredits, rxCredits, paused, rxPackets, wire, written,
                 received, inOrder, allowance>>

Next ==
  \E e \in Ends :
    \/ \E n \in WriteSizes : Write(e, n)
    \/ OnUih(e)
    \/ TakeRx(e)
    \/ Pause(e)
    \/ Resume(e)
    \/ \E l \in Limits : SetReceiveCredits(e, l)

Spec == Init /\ [][Next]_vars

\* The transport relays frames, and no application keeps reading paused for ever.
FairSpec ==
  Spec /\ \A e \in Ends : WF_vars(OnUih(e)) /\ WF_vars(paused[e] /\ Resume(e))

-----------------------------------------------------------------------------
\* The bytes that reach an end are those its peer wrote, in order, whatever
\* credits and data share a frame.
InOrder == \A e \in Ends : inOrder[e] /\ received[e] <= written[Peer(e)]

\* "Existing credits remain valid, bounding additional buffering by the
\* advertised window": while reading is paused, no more packets are buffered than
\* were buffered and granted when it was paused.
PauseBoundsBuffering ==
  \A e \in Ends : paused[e] => Len(rxPackets[e]) + rxCredits[e] <= allowance[e]

\* A receiver gets the bytes written, in order, and holds no more of them than it
\* allowed when it paused.
ReceiverSound == InOrder /\ PauseBoundsBuffering

\* Everything written is eventually received by the peer, if the peer's offer fits
\* the credit field of PN: credits the field cut off are counted as granted, and
\* the receiver may wait for ever until they are used.
AllReceived ==
  \A e \in Ends : OnTheWire(InitialCredits[Peer(e)]) = InitialCredits[Peer(e)] =>
    (received[Peer(e)] < written[e] ~> received[Peer(e)] = written[e])

Biggest == CHOOSE n \in {MaxCredits} \cup {l[1] : l \in Limits}
                          \cup {InitialCredits[e] : e \in Ends} :
             \A m \in {MaxCredits} \cup {l[1] : l \in Limits}
                        \cup {InitialCredits[e] : e \in Ends} : m <= n
\* The credits in a queue of frames, and its frames that carry data.
CreditsIn(frames) == Total([i \in 1..Len(frames) |-> CreditOf(frames[i])])
DataIn(frames) == Total([i \in 1..Len(frames) |-> IF IsData(frames[i]) THEN 1 ELSE 0])

\* Frames of data on the way from end e to its peer.
DataFrom(e) == DataIn(wire[Peer(e)])

\* "A pure credit grant costs no transmit credit; a frame carrying data spends
\* one": credits move between the ends and none is lost.  What an end counts as
\* granted is what its peer holds, what is on the way, and what the PN field cut
\* off the first offer.
CreditsConserved ==
  \A e \in Ends :
    rxCredits[Peer(e)] = txCredits[e] + CreditsIn(wire[e]) + DataFrom(e)
      + InitialCredits[Peer(e)] - OnTheWire(InitialCredits[Peer(e)])

\* Each direction as `CreditFlow` sees it.
ToResponder == INSTANCE CreditFlow WITH
  Granted <- OnTheWire(InitialCredits["responder"]), Window <- InitialCredits["responder"],
  MaxWindow <- Biggest, credits <- txCredits["initiator"], data <- DataFrom("initiator"),
  grants <- CreditsIn(wire["initiator"]), window <- rxCredits["responder"]
ToInitiator == INSTANCE CreditFlow WITH
  Granted <- OnTheWire(InitialCredits["initiator"]), Window <- InitialCredits["initiator"],
  MaxWindow <- Biggest, credits <- txCredits["responder"], data <- DataFrom("responder"),
  grants <- CreditsIn(wire["responder"]), window <- rxCredits["initiator"]

\* Both directions implement `CreditFlow`: every frame is covered by a credit of
\* its receiver, also when the PN field cuts the initial credits down.
ImplementsFlow == ToResponder!Spec /\ ToInitiator!Spec
=============================================================================

--------------------------- MODULE LeCreditChannel ---------------------------
(***************************************************************************)
(* One direction of a connected LE credit-based channel                    *)
(* (bumble-l2cap/src/le_credit.rs): the sending `LeCreditBasedChannel`,    *)
(* the receiving one, and the two managers' outbound queues between them.  *)
(* The manager of a link has a single queue for K-frames and signaling, so *)
(* `forward` orders K-frames and reconfiguration responses, `backward`     *)
(* orders credit grants and reconfiguration requests.                      *)
(*                                                                         *)
(* Bytes are numbered in the order they are written.  An SDU on the wire   *)
(* is its 16-bit little-endian length followed by its bytes.               *)
(***************************************************************************)
EXTENDS Integers, Sequences, Streams

CONSTANTS
  MaxCredits,    \* `max_credits` of the receiver's LeCreditBasedChannelSpec
  Sizes,         \* the <<MTU, MPS>> pairs a receiver may announce
  InitialSize,   \* the pair of the connection request or response
  MaxBytes,      \* bound: bytes written
  MaxWrite,      \* bound: bytes of one write
  MaxReconfigs   \* bound: reconfigurations

ASSUME ChannelAssumption ==
  /\ MaxCredits \in Nat \ {0} /\ MaxBytes \in Nat /\ MaxWrite \in Nat
  /\ MaxReconfigs \in Nat
  /\ Sizes \subseteq (Nat \ {0, 1}) \X (Nat \ {0, 1})
  /\ InitialSize \in Sizes

VARIABLES
  \* sending endpoint
  stream,        \* `output_stream`
  sdu,           \* `output_sdu`: what is left of the SDU being fragmented
  credits,       \* `credits`
  peerSize,      \* <<peer_mtu, peer_mps>>
  \* receiving endpoint
  input,         \* `input_sdu`
  inputLength,   \* `input_sdu_length`, or -1
  peerCredits,   \* `peer_credits`
  paused,        \* `reading_paused`
  size,          \* <<mtu, mps>>
  pending,       \* `pending_reconfigurations`, oldest first
  failed,        \* an error `receive_pdu` returned, or "none"
  \* wires
  forward, backward,
  \* history
  written,       \* number of the last byte written
  delivered,     \* bytes of `received_sdus`, in order
  reconfigs

sender == <<stream, sdu, credits, peerSize, written>>
receiver == <<input, inputLength, peerCredits, paused, size, pending, failed,
              delivered, reconfigs>>
vars == <<sender, receiver, forward, backward>>

Mtu(s) == s[1]
Mps(s) == s[2]
Threshold == MaxCredits \div 2
LengthBytes(n) == <<n % 256, n \div 256>>

KFrames == [type : {"kframe"}, bytes : Seq(Nat)]
KFrame(bytes) == [type |-> "kframe", bytes |-> bytes]
Response(ok) == [type |-> "response", ok |-> ok]
Grant(n) == [type |-> "grant", credits |-> n]
Request(s) == [type |-> "request", size |-> s]

-----------------------------------------------------------------------------
\* `LeCreditBasedChannel::connected` on both ends.
Init ==
  /\ stream = <<>>
  /\ sdu = <<>>
  /\ credits = MaxCredits
  /\ peerSize = InitialSize
  /\ input = <<>>
  /\ inputLength = -1
  /\ peerCredits = MaxCredits
  /\ paused = FALSE
  /\ size = InitialSize
  /\ pending = <<>>
  /\ failed = "none"
  /\ forward = <<>>
  /\ backward = <<>>
  /\ written = 0
  /\ delivered = <<>>
  /\ reconfigs = 0

\* What `process_output` works on: stream, SDU under way, credits, and the
\* fragments made so far.
OutputState == [stream : Seq(Nat), sdu : Seq(Nat), credits : Nat, frames : Seq(KFrames)]

\* One pass of its loop: with a credit left and something to send, build the next
\* SDU from the stream unless one is under way, and send a fragment of it.
Pass(psz) == [o \in OutputState |->
  LET n == Least(Len(o.stream), Mtu(psz))
      now == IF o.sdu = <<>> THEN LengthBytes(n) \o Take(o.stream, n) ELSE o.sdu
      rest == IF o.sdu = <<>> THEN Drop(o.stream, n) ELSE o.stream
      k == Least(Len(now), Mps(psz))
  IN IF o.credits = 0 \/ (o.sdu = <<>> /\ o.stream = <<>>)
     THEN o
     ELSE [stream |-> rest, sdu |-> Drop(now, k), credits |-> o.credits - 1,
           frames |-> Append(o.frames, KFrame(Take(now, k)))]]

\* `process_output`: every pass that does something costs a credit.  The result is
\* what is left and the fragments, in order.
Output(str, cur, cr, psz) ==
  Iterate(Pass(psz), [stream |-> str, sdu |-> cur, credits |-> cr, frames |-> <<>>], cr)

\* The sending endpoint runs `process_output` with this stream, credits and peer
\* sizes, and the manager puts the frames on the wire after `replies`.
ProcessOutput(str, cr, psz, replies) ==
  LET o == Output(str, sdu, cr, psz)
  IN /\ stream' = o.stream
     /\ sdu' = o.sdu
     /\ credits' = o.credits
     /\ peerSize' = psz
     /\ forward' = forward \o replies \o o.frames

\* `write` of n bytes, then `flush_channel`.
Write(n) ==
  /\ written + n <= MaxBytes
  /\ written' = written + n
  /\ ProcessOutput(stream \o Span(written, written + n), credits, peerSize, <<>>)
  /\ UNCHANGED <<receiver, backward>>

\* LeFlowControlCredit: `add_credits`, then `flush_channel`.
OnGrant ==
  /\ backward # <<>>
  /\ Head(backward).type = "grant"
  /\ backward' = Tail(backward)
  /\ ProcessOutput(stream, credits + Head(backward).credits, peerSize, <<>>)
  /\ UNCHANGED <<written, receiver>>

\* `on_reconfigure_request`: a smaller MTU is refused; otherwise
\* `reconfigure_peer`, whose frames would follow the response.
OnReconfigureRequest ==
  /\ backward # <<>>
  /\ Head(backward).type = "request"
  /\ backward' = Tail(backward)
  /\ LET new == Head(backward).size
         ok == Mtu(new) >= Mtu(peerSize)
     IN IF ok THEN ProcessOutput(stream, credits, new, <<Response(TRUE)>>)
              ELSE /\ forward' = Append(forward, Response(FALSE))
                   /\ UNCHANGED <<stream, sdu, credits, peerSize>>
  /\ UNCHANGED <<written, receiver>>

-----------------------------------------------------------------------------
\* The credits `replenish_peer_credits` grants when the peer has n left.
Replenish(n, stopped) == IF stopped \/ n > Threshold THEN 0 ELSE MaxCredits - n

\* The grant the manager queues for g credits, if any.
Grants(g) == IF g = 0 THEN <<>> ELSE <<Grant(g)>>

\* Why `receive_pdu` refuses a frame, or "none".  `all` is `input_sdu` extended
\* by the frame and `length` the announced length, or -1.
Refusal(frame, all, length) ==
  CASE Len(frame) > Mps(size) -> "exceeds MPS"
    [] peerCredits = 0 -> "no credits"
    [] inputLength = -1 /\ length > Mtu(size) -> "exceeds MTU"
    [] length >= 0 /\ Len(all) > length + 2 -> "SDU overflow"
    [] OTHER -> "none"

\* Mutants: a frame is not charged to the peer; the payload starts one byte late.
Uncharged(n) == n
PayloadOffByOne(all) == Drop(all, 3)

\* The credits the peer has left after a frame, and the bytes of a complete SDU.
Charged(n) == n - 1
Payload(all) == Drop(all, 2)

\* `receive_pdu`, then `flush_channel`.  No refusal is reachable, so what follows
\* one (the channel keeps its state, the caller sees an error) is left out.
OnKFrame ==
  /\ forward # <<>>
  /\ Head(forward).type = "kframe"
  /\ forward' = Tail(forward)
  /\ LET frame == Head(forward).bytes
         all == input \o frame
         length == IF inputLength = -1 /\ Len(all) >= 2
                   THEN all[1] + 256 * all[2] ELSE inputLength
         refusal == Refusal(frame, all, length)
         g == Replenish(Charged(peerCredits), paused)
     IN \/ /\ refusal # "none"
           /\ failed' = refusal
           /\ UNCHANGED <<input, inputLength, peerCredits, delivered, backward>>
        \/ /\ refusal = "none"
           /\ peerCredits' = Charged(peerCredits) + g
           /\ backward' = backward \o Grants(g)
           /\ IF length >= 0 /\ Len(all) = length + 2
              THEN /\ delivered' = delivered \o Payload(all)
                   /\ input' = <<>>
                   /\ inputLength' = -1
              ELSE /\ input' = all
                   /\ inputLength' = length
                   /\ UNCHANGED delivered
           /\ UNCHANGED failed
  /\ UNCHANGED <<sender, paused, size, pending, reconfigs>>

\* `pause_reading`
Pause ==
  /\ ~paused
  /\ paused' = TRUE
  /\ UNCHANGED <<sender, input, inputLength, peerCredits, size, pending, failed,
                 delivered, reconfigs, forward, backward>>

\* Mutant: the window is not restored when reading resumes.
ResumeWithoutGrant ==
  /\ paused
  /\ paused' = FALSE
  /\ UNCHANGED <<sender, input, inputLength, peerCredits, size, pending, failed,
                 delivered, reconfigs, forward, backward>>

\* `resume_reading`, then `flush_channel`.
Resume ==
  /\ paused
  /\ paused' = FALSE
  /\ LET g == Replenish(peerCredits, FALSE)
     IN /\ peerCredits' = peerCredits + g
        /\ backward' = backward \o Grants(g)
  /\ UNCHANGED <<sender, input, inputLength, size, pending, failed, delivered,
                 reconfigs, forward>>

\* Mutant: the receiver holds the peer to the new sizes before it knows them.
ReconfigureAtOnce(s) ==
  /\ reconfigs < MaxReconfigs
  /\ reconfigs' = reconfigs + 1
  /\ Mtu(s) >= Mtu(size)
  /\ size' = s
  /\ pending' = Append(pending, s)
  /\ backward' = Append(backward, Request(s))
  /\ UNCHANGED <<sender, input, inputLength, peerCredits, paused, failed,
                 delivered, forward>>

\* `reconfigure` of this one channel: the MTU may not shrink, the MPS may.
Reconfigure(s) ==
  /\ reconfigs < MaxReconfigs
  /\ reconfigs' = reconfigs + 1
  /\ Mtu(s) >= Mtu(size)
  /\ pending' = Append(pending, s)
  /\ backward' = Append(backward, Request(s))
  /\ UNCHANGED <<sender, input, inputLength, peerCredits, paused, size, failed,
                 delivered, forward>>

\* `on_reconfigure_response`: `reconfigure_local` if the peer agreed.  Responses
\* come in the order of the requests, so the oldest pending one is meant.
OnReconfigureResponse ==
  /\ forward # <<>>
  /\ Head(forward).type = "response"
  /\ forward' = Tail(forward)
  /\ pending' = Tail(pending)
  /\ size' = IF Head(forward).ok THEN Head(pending) ELSE size
  /\ UNCHANGED <<sender, input, inputLength, peerCredits, paused, failed,
                 delivered, reconfigs, backward>>

Next ==
  \/ \E n \in 1..MaxWrite : Write(n)
  \/ OnGrant
  \/ OnReconfigureRequest
  \/ OnKFrame
  \/ Pause
  \/ Resume
  \/ \E s \in Sizes : Reconfigure(s)
  \/ OnReconfigureResponse

Spec == Init /\ [][Next]_vars

\* The link delivers what is queued, and the application does not keep reading
\* paused for ever.
FairSpec ==
  /\ Spec
  /\ WF_vars(OnGrant \/ OnReconfigureRequest)
  /\ WF_vars(OnKFrame \/ OnReconfigureResponse)
  /\ WF_vars(Resume)

-----------------------------------------------------------------------------
\* The bytes handed to the application are those written, in order, none lost,
\* duplicated or cut short at an SDU or fragment boundary.
InOrder == delivered = Span(0, Len(delivered)) /\ Len(delivered) <= written

\* `receive_pdu` never refuses a frame of a conforming peer: not for its size,
\* while sizes are renegotiated, not for want of credits, and not for a length
\* that does not match.
NothingRefused == failed = "none"

\* A receiver takes every frame of a conforming peer and makes of them exactly
\* what was written.
Faithful == InOrder /\ NothingRefused

\* All bytes written are eventually delivered, however small the window and
\* whatever pauses and reconfigurations come between.
AllDelivered == \A n \in 1..MaxBytes : (written >= n) ~> (Len(delivered) >= n)

\* The K-frames and the credits in a queue.
FramesIn(q) == Total([i \in 1..Len(q) |-> IF q[i].type = "kframe" THEN 1 ELSE 0])
CreditsIn(q) == Total([i \in 1..Len(q) |-> IF q[i].type = "grant" THEN q[i].credits ELSE 0])

\* One direction of the channel is credit flow as `CreditFlow` describes it.
Flow == INSTANCE CreditFlow WITH
  Granted <- MaxCredits, Window <- MaxCredits, MaxWindow <- MaxCredits,
  credits <- credits,
  data <- FramesIn(forward),
  grants <- CreditsIn(backward),
  window <- peerCredits

\* Write, grants, frames, pauses and reconfigurations are steps of `CreditFlow`,
\* so its theorem that the window covers everything under way applies.
ImplementsFlow == Flow!Spec
=============================================================================

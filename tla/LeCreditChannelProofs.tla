------------------------ MODULE LeCreditChannelProofs ------------------------
(***************************************************************************)
(* Proofs about one direction of an LE credit-based channel, for every     *)
(* window, every set of sizes and every amount of data: what is delivered  *)
(* is what was written, the receiver refuses no frame, also while sizes    *)
(* are renegotiated, and the channel implements CreditFlow.                *)
(***************************************************************************)
EXTENDS LeCreditChannel, TLAPS

\* An SDU on the wire: its length, and the bytes after a up to b.
Sdu(a, b) == LengthBytes(b - a) \o Span(a, b)

ForwardMsg == KFrames \cup [type : {"response"}, ok : BOOLEAN]
BackwardMsg == [type : {"grant"}, credits : Nat] \cup [type : {"request"}, size : Sizes]

\* Where a receiver is in the stream: bytes delivered, of the w written; the part
\* of an SDU it has; its sizes and the ones it has asked for.
Place(w) == [got : 0..w, input : Seq(Nat), size : Sizes, pending : Seq(Sizes)]

\* The frame continues or begins an SDU with the bytes that follow, fits, and
\* moves the receiver from x to y.
TakesFrame(x, bytes, y) ==
  /\ y.size = x.size /\ y.pending = x.pending
  /\ Len(bytes) <= Mps(x.size)
  /\ \E b \in Nat, rest \in Seq(Nat) :
       /\ x.got <= b /\ b - x.got <= Mtu(x.size)
       /\ 2 <= Len(x.input \o bytes)
       /\ (x.input \o bytes) \o rest = Sdu(x.got, b)
       /\ y.input = IF rest = <<>> THEN <<>> ELSE x.input \o bytes
       /\ y.got = IF rest = <<>> THEN b ELSE x.got

\* The answer to its oldest request moves the receiver from x to y.
TakesResponse(x, ok, y) ==
  /\ y.got = x.got /\ y.input = x.input
  /\ x.pending # <<>> /\ y.pending = Tail(x.pending)
  /\ y.size = IF ok THEN Head(x.pending) ELSE x.size

Arrivals(w) ==
  {t \in Place(w) \X ForwardMsg \X Place(w) :
     IF t[2].type = "kframe" THEN TakesFrame(t[1], t[2].bytes, t[3])
                             ELSE TakesResponse(t[1], t[2].ok, t[3])}

\* The requests under way are those the receiver waits for, in order.
Asked ==
  {t \in Seq(Sizes) \X BackwardMsg \X Seq(Sizes) :
     IF t[2].type = "grant" THEN t[3] = t[1]
     ELSE t[1] # <<>> /\ t[2].size = Head(t[1]) /\ t[3] = Tail(t[1])}

\* A sender with this stream, SDU and peer sizes, of w bytes written, goes on
\* where a receiver at y ends.
GoesOn(y, str, cur, psz, w) ==
  /\ y.size = psz
  /\ \/ cur = <<>> /\ y.input = <<>> /\ str = Span(y.got, w)
     \/ \E b \in y.got..w : /\ b - y.got <= Mtu(psz)
                            /\ 2 <= Len(y.input) /\ cur # <<>>
                            /\ y.input \o cur = Sdu(y.got, b)
                            /\ str = Span(b, w)

-----------------------------------------------------------------------------
(* Queues of messages *)

FrameWeight == [m \in ForwardMsg |-> IF m.type = "kframe" THEN 1 ELSE 0]
GrantWeight == [m \in BackwardMsg |-> IF m.type = "grant" THEN m.credits ELSE 0]

\* The weights are numbers.
LEMMA WeightsType ==
  FrameWeight \in [ForwardMsg -> Nat] /\ GrantWeight \in [BackwardMsg -> Nat]
<1>1. \A m \in BackwardMsg : m.type = "grant" => m.credits \in Nat
  BY DEF BackwardMsg
<1> QED
  BY <1>1 DEF FrameWeight, GrantWeight

\* FramesIn as a sum over a queue.
LEMMA FrameCounts ==
  ASSUME NEW s \in Seq(ForwardMsg)
  PROVE  FramesIn(s) = Weight(FrameWeight, s) /\ FramesIn(s) \in Nat
<1>1. \A i \in 1..Len(s) : s[i] \in ForwardMsg
  BY ElementOfSeq
<1>2. Weights(FrameWeight, s) = [i \in 1..Len(s) |-> IF s[i].type = "kframe" THEN 1 ELSE 0]
  BY <1>1 DEF Weights, FrameWeight
<1>3. Weight(FrameWeight, s) \in Nat
  BY WeightsType, WeightType
<1> QED
  BY <1>2, <1>3 DEF FramesIn, Weight

\* CreditsIn as a sum over a queue.
LEMMA GrantCounts ==
  ASSUME NEW s \in Seq(BackwardMsg)
  PROVE  CreditsIn(s) = Weight(GrantWeight, s) /\ CreditsIn(s) \in Nat
<1>1. \A i \in 1..Len(s) : s[i] \in BackwardMsg
  BY ElementOfSeq
<1>2. Weights(GrantWeight, s) =
        [i \in 1..Len(s) |-> IF s[i].type = "grant" THEN s[i].credits ELSE 0]
  BY <1>1 DEF Weights, GrantWeight
<1>3. Weight(GrantWeight, s) \in Nat
  BY WeightsType, WeightType
<1> QED
  BY <1>2, <1>3 DEF CreditsIn, Weight

\* Queueing messages adds up their frames.
LEMMA FramesConcat ==
  ASSUME NEW s \in Seq(ForwardMsg), NEW t \in Seq(ForwardMsg)
  PROVE  FramesIn(s \o t) = FramesIn(s) + FramesIn(t) /\ s \o t \in Seq(ForwardMsg)
<1>1. s \o t \in Seq(ForwardMsg)
  OBVIOUS
<1>2. Weight(FrameWeight, s \o t) = Weight(FrameWeight, s) + Weight(FrameWeight, t)
  BY WeightsType, WeightConcat
<1> QED
  BY <1>1, <1>2, FrameCounts

\* Queueing messages adds up their grants.
LEMMA GrantsConcat ==
  ASSUME NEW s \in Seq(BackwardMsg), NEW t \in Seq(BackwardMsg)
  PROVE  CreditsIn(s \o t) = CreditsIn(s) + CreditsIn(t) /\ s \o t \in Seq(BackwardMsg)
<1>1. s \o t \in Seq(BackwardMsg)
  OBVIOUS
<1>2. Weight(GrantWeight, s \o t) = Weight(GrantWeight, s) + Weight(GrantWeight, t)
  BY WeightsType, WeightConcat
<1> QED
  BY <1>1, <1>2, GrantCounts

\* Taking a message in takes its frame or its credits in.
LEMMA FramesTail ==
  ASSUME NEW s \in Seq(ForwardMsg), s # <<>>
  PROVE  /\ Head(s) \in ForwardMsg /\ Tail(s) \in Seq(ForwardMsg)
         /\ FramesIn(Tail(s)) \in Nat
         /\ FramesIn(s) = (IF Head(s).type = "kframe" THEN 1 ELSE 0) + FramesIn(Tail(s))
<1>1. Head(s) \in ForwardMsg /\ Tail(s) \in Seq(ForwardMsg)
  BY HeadTailProperties
<1>2. Weight(FrameWeight, s) = FrameWeight[Head(s)] + Weight(FrameWeight, Tail(s))
  BY WeightsType, WeightTail
<1>3. FrameWeight[Head(s)] = IF Head(s).type = "kframe" THEN 1 ELSE 0
  BY <1>1 DEF FrameWeight
<1> QED
  BY <1>1, <1>2, <1>3, FrameCounts

\* The same for the credits of a message.
LEMMA GrantsTail ==
  ASSUME NEW s \in Seq(BackwardMsg), s # <<>>
  PROVE  /\ Head(s) \in BackwardMsg /\ Tail(s) \in Seq(BackwardMsg)
         /\ CreditsIn(Tail(s)) \in Nat
         /\ CreditsIn(s) = (IF Head(s).type = "grant" THEN Head(s).credits ELSE 0)
                           + CreditsIn(Tail(s))
<1>1. Head(s) \in BackwardMsg /\ Tail(s) \in Seq(BackwardMsg)
  BY HeadTailProperties
<1>2. Weight(GrantWeight, s) = GrantWeight[Head(s)] + Weight(GrantWeight, Tail(s))
  BY WeightsType, WeightTail
<1>3. GrantWeight[Head(s)] = IF Head(s).type = "grant" THEN Head(s).credits ELSE 0
  BY <1>1 DEF GrantWeight
<1> QED
  BY <1>1, <1>2, <1>3, GrantCounts

\* Short queues.
LEMMA FramesFew ==
  /\ FramesIn(<<>>) = 0
  /\ \A ok \in BOOLEAN : <<Response(ok)>> \in Seq(ForwardMsg) /\ FramesIn(<<Response(ok)>>) = 0
  /\ \A s \in Seq(KFrames) : s \in Seq(ForwardMsg) /\ FramesIn(s) = Len(s)
<1>1. FramesIn(<<>>) = 0
  <2>1. <<>> \in Seq(ForwardMsg)
    OBVIOUS
  <2> QED BY <2>1, FrameCounts, WeightsType, WeightFew
<1>2. ASSUME NEW ok \in BOOLEAN
      PROVE  <<Response(ok)>> \in Seq(ForwardMsg) /\ FramesIn(<<Response(ok)>>) = 0
  <2> DEFINE r == Response(ok)
  <2>1. r \in ForwardMsg /\ r.type # "kframe"
    BY DEF Response, ForwardMsg
  <2> HIDE DEF r
  <2>2. <<r>> \in Seq(ForwardMsg) /\ Weight(FrameWeight, <<r>>) = FrameWeight[r]
    BY <2>1, WeightsType, WeightFew
  <2>3. FrameWeight[r] = 0
    BY <2>1 DEF FrameWeight
  <2>4. <<r>> \in Seq(ForwardMsg) /\ FramesIn(<<r>>) = 0
    BY <2>2, <2>3, FrameCounts
  <2> QED BY <2>4 DEF r
<1>3. ASSUME NEW s \in Seq(KFrames) PROVE s \in Seq(ForwardMsg) /\ FramesIn(s) = Len(s)
  <2>1. s \in Seq(ForwardMsg)
    BY DEF ForwardMsg
  <2>2. \A i \in 1..Len(s) : s[i] \in KFrames
    BY ElementOfSeq
  <2>3. \A i \in 1..Len(s) : FrameWeight[s[i]] = 1
    BY <2>2 DEF FrameWeight, ForwardMsg, KFrames
  <2>4. Weight(FrameWeight, s) = Len(s)
    BY <2>1, <2>3, WeightsType, WeightConstant
  <2> QED BY <2>1, <2>4, FrameCounts
<1> QED
  BY <1>1, <1>2, <1>3

\* Short queues of grants and requests.
LEMMA GrantsFew ==
  /\ CreditsIn(<<>>) = 0
  /\ \A s \in Sizes : <<Request(s)>> \in Seq(BackwardMsg) /\ CreditsIn(<<Request(s)>>) = 0
  /\ \A g \in Nat : Grants(g) \in Seq(BackwardMsg) /\ CreditsIn(Grants(g)) = g
<1>1. CreditsIn(<<>>) = 0
  <2>1. <<>> \in Seq(BackwardMsg)
    OBVIOUS
  <2> QED BY <2>1, GrantCounts, WeightsType, WeightFew
<1>2. ASSUME NEW m \in BackwardMsg
      PROVE  /\ <<m>> \in Seq(BackwardMsg)
             /\ CreditsIn(<<m>>) = IF m.type = "grant" THEN m.credits ELSE 0
  <2>1. <<m>> \in Seq(BackwardMsg) /\ Weight(GrantWeight, <<m>>) = GrantWeight[m]
    BY WeightsType, WeightFew
  <2> QED BY <2>1, GrantCounts DEF GrantWeight
<1>3. ASSUME NEW s \in Sizes
      PROVE  <<Request(s)>> \in Seq(BackwardMsg) /\ CreditsIn(<<Request(s)>>) = 0
  <2> DEFINE m == Request(s)
  <2>1. m \in BackwardMsg /\ m.type # "grant"
    BY DEF BackwardMsg, Request
  <2> HIDE DEF m
  <2>2. <<m>> \in Seq(BackwardMsg) /\ CreditsIn(<<m>>) = 0
    BY <1>2, <2>1
  <2> QED BY <2>2 DEF m
<1>4. ASSUME NEW g \in Nat
      PROVE  Grants(g) \in Seq(BackwardMsg) /\ CreditsIn(Grants(g)) = g
  <2> DEFINE m == Grant(g)
  <2>1. m \in BackwardMsg /\ m.type = "grant" /\ m.credits = g
    BY DEF BackwardMsg, Grant
  <2> HIDE DEF m
  <2>2. <<m>> \in Seq(BackwardMsg) /\ CreditsIn(<<m>>) = g
    BY <1>2, <2>1
  <2>3. g # 0 => Grants(g) = <<m>>
    BY DEF Grants, m
  <2>4. g = 0 => Grants(g) = <<>>
    BY DEF Grants
  <2>5. <<>> \in Seq(BackwardMsg)
    OBVIOUS
  <2>6. CASE g = 0
    BY <1>1, <2>4, <2>5, <2>6
  <2>7. CASE g # 0
    BY <2>2, <2>3, <2>7
  <2> QED BY <2>6, <2>7
<1> QED
  BY <1>1, <1>3, <1>4

-----------------------------------------------------------------------------
(* SDUs and their fragments *)

\* A length is two bytes that give it back.
LEMMA LengthKept ==
  ASSUME NEW n \in Nat
  PROVE  /\ LengthBytes(n) \in Seq(Nat) /\ Len(LengthBytes(n)) = 2
         /\ LengthBytes(n)[1] + 256 * LengthBytes(n)[2] = n
         /\ LengthBytes(n)[1] \in Nat /\ LengthBytes(n)[2] \in Nat
<1> DEFINE r == n % 256
           d == n \div 256
<1>1. r \in Nat /\ d \in Nat /\ r + 256 * d = n
  OBVIOUS
<1>2. LengthBytes(n) = <<r, d>>
  BY DEF LengthBytes
<1> HIDE DEF r, d
<1> QED
  BY <1>1, <1>2

\* The parts of an SDU.
LEMMA SduProperties ==
  ASSUME NEW a \in Nat, NEW b \in Nat, a <= b
  PROVE  /\ Sdu(a, b) \in Seq(Nat) /\ Len(Sdu(a, b)) = b - a + 2
         /\ Sdu(a, b)[1] + 256 * Sdu(a, b)[2] = b - a
         /\ Payload(Sdu(a, b)) = Span(a, b)
<1> DEFINE h == LengthBytes(b - a)
           p == Span(a, b)
           u == h \o p
<1>1. /\ h \in Seq(Nat) /\ Len(h) = 2 /\ h[1] + 256 * h[2] = b - a
  BY LengthKept
<1>2. p \in Seq(Nat) /\ Len(p) = b - a
  BY SpanProperties
<1> HIDE DEF h, p
<1>3. /\ u \in Seq(Nat) /\ Len(u) = 2 + (b - a)
      /\ \A i \in 1..(2 + (b - a)) : u[i] = IF i <= 2 THEN h[i] ELSE p[i - 2]
  <2>1. /\ u \in Seq(Nat) /\ Len(u) = Len(h) + Len(p)
        /\ \A i \in 1..(Len(h) + Len(p)) :
             u[i] = IF i <= Len(h) THEN h[i] ELSE p[i - Len(h)]
    BY <1>1, <1>2, ConcatProperties
  <2> HIDE DEF u
  <2>2. Len(h) = 2 /\ Len(p) = b - a
    BY <1>1, <1>2
  <2> QED BY <2>1, <2>2
<1>4. u[1] = h[1] /\ u[2] = h[2]
  BY <1>3
<1>5. SubSeq(u, 3, Len(u)) = p
  <2> DEFINE t == SubSeq(u, 3, Len(u))
  <2>1. \A i \in 3..Len(u) : u[i] \in Nat
    BY <1>3
  <2>2. /\ t \in Seq(Nat) /\ Len(t) = IF 3 <= Len(u) THEN Len(u) - 3 + 1 ELSE 0
        /\ \A i \in 1..(Len(u) - 3 + 1) : t[i] = u[3 + i - 1]
    BY <1>3, <2>1, SubSeqProperties
  <2> HIDE DEF t
  <2>3. Len(t) = b - a
    BY <1>3, <2>2
  <2>4. \A i \in 1..(b - a) : t[i] = p[i]
    <3> TAKE i \in 1..(b - a)
    <3>1. i + 2 \in 1..(2 + (b - a)) /\ ~(i + 2 <= 2) /\ (i + 2) - 2 = i
          /\ 3 + i - 1 = i + 2 /\ i \in 1..(Len(u) - 3 + 1)
      BY <1>3
    <3>2. t[i] = u[i + 2]
      BY <2>2, <3>1
    <3>3. u[i + 2] = p[(i + 2) - 2]
      BY ONLY <1>3, <3>1
    <3> QED BY <3>1, <3>2, <3>3
  <2> QED BY <1>2, <2>2, <2>3, <2>4, SeqEqual DEF t
<1>6. Sdu(a, b) = u
  BY DEF Sdu, u, h, p
<1>7. Payload(u) = SubSeq(u, 3, Len(u))
  BY DEF Payload, Drop
<1> HIDE DEF u
<1>8. Len(u) = (b - a) + 2
  BY <1>3
<1> QED
  <2>1. Payload(Sdu(a, b)) = Span(a, b)
    BY <1>5, <1>6, <1>7 DEF p
  <2>2. u[1] + 256 * u[2] = b - a
    BY <1>1, <1>4
  <2> QED BY <1>3, <1>6, <1>8, <2>1, <2>2

\* Bytes can be joined in any order.
LEMMA BytesAssociative ==
  \A p, t, d \in Seq(Nat) : (p \o t) \o d = p \o (t \o d)
OBVIOUS

\* A sequence is its first k elements and the others.
LEMMA TakeDrop ==
  ASSUME NEW s \in Seq(Nat), NEW k \in 0..Len(s)
  PROVE  /\ Take(s, k) \in Seq(Nat) /\ Len(Take(s, k)) = k
         /\ Drop(s, k) \in Seq(Nat) /\ Len(Drop(s, k)) = Len(s) - k
         /\ Take(s, k) \o Drop(s, k) = s
         /\ \A i \in 1..k : Take(s, k)[i] = s[i]
<1> DEFINE t == SubSeq(s, 1, k)
           d == SubSeq(s, k + 1, Len(s))
           n == Len(s)
<1>1. n \in Nat /\ k \in Nat /\ k <= n /\ \A i \in 1..n : s[i] \in Nat
  BY ElementOfSeq
<1>2. t \in Seq(Nat) /\ Len(t) = k /\ \A i \in 1..k : t[i] = s[i]
  <2>1. /\ t \in Seq(Nat) /\ Len(t) = IF 1 <= k THEN k - 1 + 1 ELSE 0
        /\ \A i \in 1..(k - 1 + 1) : t[i] = s[1 + i - 1]
    BY <1>1, SubSeqProperties
  <2> HIDE DEF t
  <2> QED BY <1>1, <2>1
<1>3. d \in Seq(Nat) /\ Len(d) = n - k /\ \A i \in 1..(n - k) : d[i] = s[k + i]
  <2>1. \A i \in (k + 1)..n : s[i] \in Nat
    BY <1>1
  <2>2. /\ d \in Seq(Nat) /\ Len(d) = IF k + 1 <= n THEN n - (k + 1) + 1 ELSE 0
        /\ \A i \in 1..(n - (k + 1) + 1) : d[i] = s[(k + 1) + i - 1]
    BY <1>1, <2>1, SubSeqProperties
  <2> HIDE DEF d, n
  <2>3. Len(d) = n - k
    BY <1>1, <2>2
  <2>4. \A i \in 1..(n - k) : d[i] = s[k + i]
    <3> TAKE i \in 1..(n - k)
    <3>1. i \in 1..(n - (k + 1) + 1) /\ (k + 1) + i - 1 = k + i
      BY <1>1
    <3> QED BY <2>2, <3>1
  <2> QED BY <2>2, <2>3, <2>4
<1> HIDE DEF t, d, n
<1>4. t \o d = s
  <2>1. /\ t \o d \in Seq(Nat) /\ Len(t \o d) = k + (n - k)
        /\ \A i \in 1..(k + (n - k)) : (t \o d)[i] = IF i <= k THEN t[i] ELSE d[i - k]
    <3> DEFINE u == t \o d
    <3>1. /\ u \in Seq(Nat) /\ Len(u) = Len(t) + Len(d)
          /\ \A i \in 1..(Len(t) + Len(d)) :
               u[i] = IF i <= Len(t) THEN t[i] ELSE d[i - Len(t)]
      BY <1>2, <1>3, ConcatProperties
    <3> HIDE DEF u
    <3>2. Len(t) = k /\ Len(d) = n - k
      BY <1>2, <1>3
    <3>3. /\ u \in Seq(Nat) /\ Len(u) = k + (n - k)
          /\ \A i \in 1..(k + (n - k)) : u[i] = IF i <= k THEN t[i] ELSE d[i - k]
      BY <3>1, <3>2
    <3> QED BY <3>3 DEF u
  <2>2. \A i \in 1..n : (t \o d)[i] = s[i]
    <3> TAKE i \in 1..n
    <3>1. i \in 1..(k + (n - k))
      BY <1>1
    <3>2. CASE i <= k
      BY <1>1, <1>2, <2>1, <3>1, <3>2
    <3>3. CASE i > k
      <4>1. i - k \in 1..(n - k) /\ k + (i - k) = i /\ ~(i <= k)
        BY <1>1, <3>3
      <4> QED BY <1>3, <2>1, <3>1, <4>1
    <3>4. i <= k \/ i > k
      BY <1>1
    <3> QED BY <3>2, <3>3, <3>4
  <2>3. k + (n - k) = n
    BY <1>1
  <2> QED BY <2>1, <2>2, <2>3, SeqEqual DEF n
<1> QED
  BY <1>2, <1>3, <1>4 DEF Take, Drop, t, d, n

\* The SDU with the bytes up to b is under way: a receiver at y has a part of it,
\* with the length, or nothing, and cur is what is left.
Begun(y, cur, b, psz) ==
  /\ y.size = psz /\ b - y.got <= Mtu(psz)
  /\ cur # <<>> /\ y.input \o cur = Sdu(y.got, b)
  /\ 2 <= Len(y.input) \/ (y.input = <<>> /\ 2 <= Len(cur))

\* What a fragment of cur is taken to, and the sender goes on from there.
Fragmented(y, cur, b, psz, w, k) ==
  /\ k \in 1..Len(cur)
  /\ \E z \in Place(w) : /\ TakesFrame(y, Take(cur, k), z) /\ z.pending = y.pending
                         /\ GoesOn(z, Span(b, w), Drop(cur, k), psz, w)

\* A fragment of an SDU is one the receiver takes, and what is left of the SDU
\* goes on after it.
LEMMA FragmentTaken ==
  ASSUME NEW w \in Nat, NEW y \in Place(w), NEW psz \in Sizes, NEW b \in y.got..w,
         NEW cur \in Seq(Nat), Begun(y, cur, b, psz)
  PROVE  Fragmented(y, cur, b, psz, w, Least(Len(cur), Mps(psz)))
<1> DEFINE k == Least(Len(cur), Mps(psz))
           t == Take(cur, k)
           d == Drop(cur, k)
           all == y.input \o t
           z == [got |-> IF d = <<>> THEN b ELSE y.got,
                 input |-> IF d = <<>> THEN <<>> ELSE all,
                 size |-> y.size, pending |-> y.pending]
<1>1. /\ y.got \in 0..w /\ y.got \in Nat /\ y.input \in Seq(Nat) /\ y.size \in Sizes
      /\ y.pending \in Seq(Sizes)
  BY DEF Place
<1>2. /\ y.size = psz /\ b - y.got <= Mtu(psz)
      /\ cur # <<>> /\ y.input \o cur = Sdu(y.got, b)
      /\ 2 <= Len(y.input) \/ (y.input = <<>> /\ 2 <= Len(cur))
  BY DEF Begun
<1>3. Mps(psz) \in Nat /\ Mps(psz) >= 2
  BY ChannelAssumption DEF Mps
<1>4. Len(cur) \in Nat \ {0} /\ Len(y.input) \in Nat
  BY <1>1, <1>2, EmptySeq, LenProperties
<1>5. k \in 1..Len(cur) /\ k \in 0..Len(cur) /\ k <= Mps(psz) /\ (2 <= Len(cur) => 2 <= k)
  BY <1>3, <1>4 DEF Least
<1> HIDE DEF k
<1>6. /\ t \in Seq(Nat) /\ Len(t) = k /\ d \in Seq(Nat) /\ Len(d) = Len(cur) - k
      /\ t \o d = cur
  BY <1>5, TakeDrop
<1> HIDE DEF t, d
<1>7. all \in Seq(Nat) /\ Len(all) = Len(y.input) + k
  BY <1>1, <1>6, ConcatProperties
<1>8. all \o d = Sdu(y.got, b)
  <2> DEFINE p == y.input
  <2>1. p \in Seq(Nat) /\ t \in Seq(Nat) /\ d \in Seq(Nat)
    BY <1>1, <1>6
  <2> HIDE DEF p
  <2>2. (p \o t) \o d = p \o (t \o d)
    BY ONLY <2>1, BytesAssociative
  <2> QED BY <1>2, <1>6, <2>2 DEF p
<1>9. 2 <= Len(all)
  <2>1. CASE 2 <= Len(y.input)
    BY <1>4, <1>5, <1>7, <2>1
  <2>2. CASE y.input = <<>> /\ 2 <= Len(cur)
    BY <1>4, <1>5, <1>7, <2>2
  <2> QED BY <1>2, <2>1, <2>2
<1>10. b \in Nat /\ b \in 0..w /\ y.got <= b
  BY <1>1
<1> HIDE DEF all
<1>11. z \in Place(w)
  BY <1>1, <1>7, <1>10 DEF Place
<1>12. TakesFrame(y, t, z)
  <2>1. Len(t) <= Mps(y.size)
    BY <1>2, <1>5, <1>6
  <2>2. /\ y.got <= b /\ b - y.got <= Mtu(y.size) /\ 2 <= Len(y.input \o t)
        /\ (y.input \o t) \o d = Sdu(y.got, b)
    BY <1>2, <1>8, <1>9, <1>10 DEF all
  <2>3. /\ z.input = IF d = <<>> THEN <<>> ELSE y.input \o t
        /\ z.got = IF d = <<>> THEN b ELSE y.got
        /\ z.size = y.size /\ z.pending = y.pending
    BY DEF all
  <2> HIDE DEF z
  <2> QED BY <1>6, <1>10, <2>1, <2>2, <2>3 DEF TakesFrame
<1>13. GoesOn(z, Span(b, w), d, psz, w)
  <2>1. CASE d = <<>>
    BY <1>2, <2>1 DEF GoesOn
  <2>2. CASE d # <<>>
    <3>1. z.size = psz /\ z.got = y.got /\ z.input = all
      BY <1>2, <2>2
    <3> HIDE DEF z
    <3> QED BY <1>2, <1>8, <1>9, <2>2, <3>1 DEF GoesOn
  <2> QED BY <2>1, <2>2
<1>14. z.pending = y.pending
  OBVIOUS
<1> HIDE DEF z
<1>15. Fragmented(y, cur, b, psz, w, k)
  BY <1>5, <1>11, <1>12, <1>13, <1>14 DEF Fragmented, t, d
<1> QED
  BY <1>15 DEF k

\* What `process_output` has come to: it has paid for every frame, and the frames
\* lead a receiver from y to where the sender goes on.
SentSoFar(y, psz, w, cr) ==
  {o \in OutputState :
     /\ Len(o.frames) + o.credits = cr
     /\ \E z \in Place(w) : /\ Path(Arrivals(w), o.frames, y, z) /\ z.pending = y.pending
                            /\ GoesOn(z, o.stream, o.sdu, psz, w)}

\* n bytes of a stream that goes on after a make the SDU up to b.
Splits(str, n, a, b, w, m) ==
  /\ b \in a..w /\ b - a <= m
  /\ LengthBytes(n) \o Take(str, n) = Sdu(a, b)
  /\ Drop(str, n) = Span(b, w)

\* The next SDU of a stream.
LEMMA NextSdu ==
  ASSUME NEW w \in Nat, NEW a \in 0..w, Span(a, w) # <<>>, NEW m \in Nat, m >= 1
  PROVE  LET n == Least(Len(Span(a, w)), m)
         IN Splits(Span(a, w), n, a, a + n, w, m)
<1> DEFINE l == w - a
           n == Least(l, m)
<1>1. a \in Nat /\ a <= w /\ Len(Span(a, w)) = l /\ l \in Nat /\ l >= 1
  BY SpanProperties
<1>2. n \in Nat /\ n \in 1..l /\ n \in 0..l /\ n <= m /\ l \in n..l /\ n \in 0..n
  BY <1>1 DEF Least
<1> HIDE DEF n
<1>3. SubSeq(Span(a, w), 1, n) = Span(a, a + n)
  <2> DEFINE i == 0
  <2>1. i \in 0..(w - a) /\ n \in i..(w - a) /\ i + 1 = 1 /\ a + i = a
    BY <1>1, <1>2
  <2> HIDE DEF i
  <2>2. SubSeq(Span(a, w), i + 1, n) = Span(a + i, a + n)
    BY <1>1, <2>1, SpanPart
  <2> QED BY <2>1, <2>2
<1>4. SubSeq(Span(a, w), n + 1, l) = Span(a + n, a + l)
  BY <1>1, <1>2, SpanPart
<1>5. a + l = w /\ (a + n) - a = n /\ a + n \in a..w
  BY <1>1, <1>2
<1>6. LengthBytes(n) \o Take(Span(a, w), n) = Sdu(a, a + n)
  BY <1>3, <1>5 DEF Take, Sdu
<1>7. Drop(Span(a, w), n) = Span(a + n, w)
  BY <1>1, <1>4, <1>5 DEF Drop
<1>8. Least(Len(Span(a, w)), m) = n
  BY <1>1 DEF n
<1> QED
  BY <1>2, <1>5, <1>6, <1>7, <1>8 DEF Splits

\* A pass of the loop keeps to what has been said.
LEMMA PassKeeps ==
  ASSUME NEW w \in Nat, NEW y \in Place(w), NEW psz \in Sizes, NEW cr \in Nat,
         NEW o \in SentSoFar(y, psz, w, cr)
  PROVE  Pass(psz)[o] \in SentSoFar(y, psz, w, cr)
<1> DEFINE n == Least(Len(o.stream), Mtu(psz))
           now == IF o.sdu = <<>> THEN LengthBytes(n) \o Take(o.stream, n) ELSE o.sdu
           rest == IF o.sdu = <<>> THEN Drop(o.stream, n) ELSE o.stream
           k == Least(Len(now), Mps(psz))
           f == KFrame(Take(now, k))
           next == [stream |-> rest, sdu |-> Drop(now, k), credits |-> o.credits - 1,
                    frames |-> Append(o.frames, f)]
<1>1. /\ o \in OutputState
      /\ Len(o.frames) + o.credits = cr
      /\ o.stream \in Seq(Nat) /\ o.sdu \in Seq(Nat) /\ o.credits \in Nat
      /\ o.frames \in Seq(KFrames)
  BY DEF SentSoFar, OutputState
<1>2. PICK z \in Place(w) : /\ Path(Arrivals(w), o.frames, y, z) /\ z.pending = y.pending
                            /\ GoesOn(z, o.stream, o.sdu, psz, w)
  BY DEF SentSoFar
<1>3. Pass(psz)[o] = IF o.credits = 0 \/ (o.sdu = <<>> /\ o.stream = <<>>) THEN o ELSE next
  BY <1>1 DEF Pass
<1> SUFFICES ASSUME o.credits # 0, o.sdu # <<>> \/ o.stream # <<>>
             PROVE  next \in SentSoFar(y, psz, w, cr)
  BY <1>3
<1>4. /\ z.got \in 0..w /\ z.got \in Nat /\ z.input \in Seq(Nat) /\ z.size \in Sizes
      /\ z.pending \in Seq(Sizes)
  BY DEF Place
<1>5. Mtu(psz) \in Nat /\ Mtu(psz) >= 1
  BY ChannelAssumption DEF Mtu
<1>6. \E b \in z.got..w : Begun(z, now, b, psz) /\ now \in Seq(Nat) /\ rest = Span(b, w)
  <2>1. CASE o.sdu = <<>>
    <3>1. z.size = psz /\ z.input = <<>> /\ o.stream = Span(z.got, w) /\ o.stream # <<>>
      BY <1>2, <2>1 DEF GoesOn
    <3> DEFINE b == z.got + n
    <3>2. Splits(o.stream, n, z.got, b, w, Mtu(psz))
      BY <1>4, <1>5, <3>1, NextSdu
    <3>3. now = Sdu(z.got, b) /\ rest = Span(b, w) /\ b \in z.got..w /\ b - z.got <= Mtu(psz)
      BY <2>1, <3>2 DEF Splits
    <3>4. b \in Nat /\ z.got <= b
      BY <1>4, <3>3
    <3> HIDE DEF b, now, rest
    <3>5. now \in Seq(Nat) /\ Len(now) = b - z.got + 2
      BY <1>4, <3>3, <3>4, SduProperties
    <3>6. now # <<>> /\ 2 <= Len(now)
      BY <1>4, <3>4, <3>5
    <3>7. <<>> \o now = now
      BY <3>5, ConcatEmptySeq
    <3>8. Begun(z, now, b, psz)
      BY <3>1, <3>3, <3>6, <3>7 DEF Begun
    <3> QED BY <3>3, <3>5, <3>8
  <2>2. CASE o.sdu # <<>>
    <3>1. PICK b \in z.got..w : /\ b - z.got <= Mtu(psz)
                                /\ 2 <= Len(z.input) /\ o.sdu # <<>>
                                /\ z.input \o o.sdu = Sdu(z.got, b)
                                /\ o.stream = Span(b, w)
      BY <1>2, <2>2 DEF GoesOn
    <3>2. now = o.sdu /\ rest = o.stream /\ z.size = psz
      BY <1>2, <2>2 DEF GoesOn
    <3> HIDE DEF now, rest
    <3>3. Begun(z, now, b, psz)
      BY <3>1, <3>2 DEF Begun
    <3> QED BY <1>1, <3>1, <3>2, <3>3
  <2> QED BY <2>1, <2>2
<1> HIDE DEF now, rest
<1>7. PICK b \in z.got..w : Begun(z, now, b, psz) /\ now \in Seq(Nat) /\ rest = Span(b, w)
  BY <1>6
<1>8. Fragmented(z, now, b, psz, w, k)
  BY <1>7, FragmentTaken
<1> HIDE DEF k
<1>9. k \in 1..Len(now) /\ k \in 0..Len(now)
  BY <1>7, <1>8 DEF Fragmented
<1>10. PICK v \in Place(w) : /\ TakesFrame(z, Take(now, k), v) /\ v.pending = z.pending
                             /\ GoesOn(v, Span(b, w), Drop(now, k), psz, w)
  BY <1>8 DEF Fragmented
<1>11. Take(now, k) \in Seq(Nat) /\ Drop(now, k) \in Seq(Nat)
  BY <1>7, <1>9, TakeDrop
<1>12. f \in KFrames /\ f \in ForwardMsg /\ f.type = "kframe" /\ f.bytes = Take(now, k)
  BY <1>11 DEF KFrame, KFrames, ForwardMsg
<1> HIDE DEF f
<1>13. <<z, f, v>> \in Arrivals(w)
  BY <1>10, <1>12 DEF Arrivals
<1>14. Path(Arrivals(w), <<f>>, z, v)
  BY <1>13, PathFew
<1>15. Path(Arrivals(w), Append(o.frames, f), y, v)
  <2>1. <<f>> \in Seq(KFrames) /\ Append(o.frames, f) = o.frames \o <<f>>
    BY ONLY <1>1, <1>12, AppendIsConcat
  <2> QED BY <1>1, <1>2, <1>14, <2>1, PathConcat
<1>16. Append(o.frames, f) \in Seq(KFrames) /\ Len(Append(o.frames, f)) = Len(o.frames) + 1
  BY <1>1, <1>12
<1>17. rest \in Seq(Nat)
  <2>1. b \in Nat /\ b <= w
    BY <1>4
  <2> QED BY <1>7, <2>1, SpanProperties
<1>18. o.credits - 1 \in Nat /\ Len(o.frames) \in Nat
  BY <1>1
<1>19. next \in OutputState
  BY <1>11, <1>16, <1>17, <1>18 DEF OutputState
<1>20. Len(next.frames) + next.credits = cr
  <2>1. next.frames = Append(o.frames, f) /\ next.credits = o.credits - 1
    OBVIOUS
  <2> HIDE DEF next
  <2> QED BY <1>1, <1>16, <1>18, <2>1
<1>21. Path(Arrivals(w), next.frames, y, v) /\ v.pending = y.pending
       /\ GoesOn(v, next.stream, next.sdu, psz, w)
  BY <1>2, <1>7, <1>10, <1>15
<1> HIDE DEF next
<1> QED
  BY <1>19, <1>20, <1>21 DEF SentSoFar

\* `process_output` pays a credit for every frame, and a receiver at y takes all
\* of them and is then where the sender goes on.
LEMMA OutputSends ==
  ASSUME NEW w \in Nat, NEW y \in Place(w), NEW psz \in Sizes, NEW cr \in Nat,
         NEW str \in Seq(Nat), NEW cur \in Seq(Nat), GoesOn(y, str, cur, psz, w)
  PROVE  Output(str, cur, cr, psz) \in SentSoFar(y, psz, w, cr)
<1> DEFINE o == [stream |-> str, sdu |-> cur, credits |-> cr, frames |-> <<>>]
           I == SentSoFar(y, psz, w, cr)
<1>1. o \in OutputState /\ Len(o.frames) + o.credits = cr
  BY DEF OutputState
<1>2. Path(Arrivals(w), o.frames, y, y)
  BY PathFew
<1>3. o.stream = str /\ o.sdu = cur
  OBVIOUS
<1> HIDE DEF o
<1>4. o \in I
  BY <1>1, <1>2, <1>3 DEF SentSoFar
<1>5. \A x \in I : Pass(psz)[x] \in I
  BY PassKeeps
<1> HIDE DEF I
<1>6. Iterate(Pass(psz), o, cr) \in I
  BY <1>4, <1>5, IterateStays
<1> QED
  BY <1>6 DEF Output, I, o

-----------------------------------------------------------------------------
(* The inductive invariant *)

Typed ==
  /\ stream \in Seq(Nat) /\ sdu \in Seq(Nat) /\ credits \in Nat /\ peerSize \in Sizes
  /\ input \in Seq(Nat) /\ inputLength \in Int /\ peerCredits \in Nat
  /\ paused \in BOOLEAN /\ size \in Sizes /\ pending \in Seq(Sizes)
  /\ forward \in Seq(ForwardMsg) /\ backward \in Seq(BackwardMsg)
  /\ written \in Nat /\ delivered \in Seq(Nat) /\ Len(delivered) <= written

\* A credit is held, or spent on a frame under way, or under way itself; the
\* receiver counts all of them.
Conserved ==
  /\ (credits + FramesIn(forward)) + CreditsIn(backward) = peerCredits
  /\ peerCredits <= MaxCredits

\* The receiver knows the length of the SDU it has a part of.
LengthKnown ==
  IF input = <<>> THEN inputLength = -1
  ELSE 2 <= Len(input) /\ inputLength = input[1] + 256 * input[2]

\* Where the receiver is.
Here == [got |-> Len(delivered), input |-> input, size |-> size, pending |-> pending]

\* What is under way leads the receiver to where the sender goes on, with the same
\* sizes in mind, and the requests it will still wait for are under way.
Continuous ==
  \E y \in Place(written) : /\ Path(Arrivals(written), forward, Here, y)
                            /\ GoesOn(y, stream, sdu, peerSize, written)
                            /\ Path(Asked, backward, y.pending, <<>>)

ChannelInv ==
  /\ Typed
  /\ Conserved
  /\ LengthKnown
  /\ delivered = Span(0, Len(delivered))
  /\ failed = "none"
  /\ Continuous

\* A step of `CreditFlow`, in the numbers of the channel.
Moved ==
  \/ \E n \in Nat, k \in Nat :
       /\ n <= CreditsIn(backward) /\ k <= credits + n
       /\ CreditsIn(backward') = CreditsIn(backward) - n
       /\ credits' = (credits + n) - k
       /\ FramesIn(forward') = FramesIn(forward) + k
       /\ peerCredits' = peerCredits
  \/ \E r \in 0..1, g \in 0..MaxCredits :
       /\ r <= FramesIn(forward) /\ r <= peerCredits
       /\ (peerCredits - r) + g <= MaxCredits
       /\ FramesIn(forward') = FramesIn(forward) - r
       /\ CreditsIn(backward') = CreditsIn(backward) + g
       /\ peerCredits' = (peerCredits - r) + g
       /\ credits' = credits

\* Such a step conserves credits.
LEMMA MovedConserves ==
  ASSUME Typed, Conserved, Moved
  PROVE  Conserved'
<1>1. /\ credits \in Nat /\ peerCredits \in Nat
      /\ FramesIn(forward) \in Nat /\ CreditsIn(backward) \in Nat
  BY FrameCounts, GrantCounts DEF Typed
<1>2. MaxCredits \in Nat
  BY ChannelAssumption
<1> DEFINE f == FramesIn(forward)
           c == CreditsIn(backward)
           ff == FramesIn(forward')
           cc == CreditsIn(backward')
<1>3. f \in Nat /\ c \in Nat /\ (credits + f) + c = peerCredits /\ peerCredits <= MaxCredits
  BY <1>1 DEF Conserved
<1>4. CASE \E n \in Nat, k \in Nat :
             /\ n <= c /\ k <= credits + n
             /\ cc = c - n /\ credits' = (credits + n) - k /\ ff = f + k
             /\ peerCredits' = peerCredits
  <2> HIDE DEF f, c, ff, cc
  <2>1. (credits' + ff) + cc = peerCredits' /\ peerCredits' <= MaxCredits
    BY <1>1, <1>3, <1>4
  <2> QED BY <2>1 DEF Conserved, ff, cc
<1>5. CASE \E r \in 0..1, g \in 0..MaxCredits :
             /\ r <= f /\ r <= peerCredits /\ (peerCredits - r) + g <= MaxCredits
             /\ ff = f - r /\ cc = c + g /\ peerCredits' = (peerCredits - r) + g
             /\ credits' = credits
  <2> HIDE DEF f, c, ff, cc
  <2>1. (credits' + ff) + cc = peerCredits' /\ peerCredits' <= MaxCredits
    BY <1>1, <1>2, <1>3, <1>5
  <2> QED BY <2>1 DEF Conserved, ff, cc
<1> QED
  BY <1>4, <1>5 DEF Moved

\* A place is its four parts.
LEMMA PlaceIs ==
  ASSUME NEW w \in Nat, NEW z \in Place(w)
  PROVE  /\ z = [got |-> z.got, input |-> z.input, size |-> z.size, pending |-> z.pending]
         /\ z.got \in 0..w /\ z.got \in Nat /\ z.got <= w
         /\ z.input \in Seq(Nat) /\ z.size \in Sizes /\ z.pending \in Seq(Sizes)
BY DEF Place

\* The receiver is at a place.
LEMMA HereIs ==
  ASSUME Typed
  PROVE  /\ Here \in Place(written) /\ Here.got = Len(delivered) /\ Here.input = input
         /\ Here.size = size /\ Here.pending = pending
BY DEF Typed, Here, Place

-----------------------------------------------------------------------------
(* The sending end *)

\* What `process_output` is called with: the messages under way and the replies
\* lead a receiver at h to y, and the sender goes on from there.
Calls(h, y, str, cr, psz, replies, w) ==
  /\ w \in Nat /\ y \in Place(w) /\ str \in Seq(Nat) /\ cr \in Nat /\ psz \in Sizes
  /\ replies \in Seq(ForwardMsg) /\ FramesIn(replies) = 0
  /\ Path(Arrivals(w), forward \o replies, h, y)
  /\ GoesOn(y, str, sdu, psz, w)

\* What it leaves: k credits spent on as many frames.
Leaves(h, p, cr, psz, w, k) ==
  /\ k \in 0..cr
  /\ stream' \in Seq(Nat) /\ sdu' \in Seq(Nat) /\ credits' = cr - k /\ peerSize' = psz
  /\ forward' \in Seq(ForwardMsg) /\ FramesIn(forward') = FramesIn(forward) + k
  /\ \E z \in Place(w) : /\ Path(Arrivals(w), forward', h, z) /\ z.pending = p
                         /\ GoesOn(z, stream', sdu', psz, w)

\* `process_output` keeps the two ends together.
LEMMA ProcessOutputKeeps ==
  ASSUME Typed, NEW h, NEW y, NEW str, NEW cr, NEW psz, NEW replies, NEW w,
         Calls(h, y, str, cr, psz, replies, w), ProcessOutput(str, cr, psz, replies)
  PROVE  \E k : Leaves(h, y.pending, cr, psz, w, k)
<1>1. /\ w \in Nat /\ y \in Place(w) /\ str \in Seq(Nat) /\ cr \in Nat /\ psz \in Sizes
      /\ replies \in Seq(ForwardMsg) /\ FramesIn(replies) = 0
      /\ Path(Arrivals(w), forward \o replies, h, y)
      /\ GoesOn(y, str, sdu, psz, w)
  BY DEF Calls
<1>2. sdu \in Seq(Nat) /\ forward \in Seq(ForwardMsg)
  BY DEF Typed
<1> DEFINE o == Output(str, sdu, cr, psz)
           k == Len(o.frames)
           q == forward \o replies
<1>3. o \in SentSoFar(y, psz, w, cr)
  BY <1>1, <1>2, OutputSends
<1>4. /\ stream' = o.stream /\ sdu' = o.sdu /\ credits' = o.credits /\ peerSize' = psz
      /\ forward' = q \o o.frames
  BY DEF ProcessOutput
<1> HIDE DEF o, q
<1>5. /\ o \in OutputState /\ k + o.credits = cr
      /\ o.stream \in Seq(Nat) /\ o.sdu \in Seq(Nat) /\ o.credits \in Nat
      /\ o.frames \in Seq(KFrames)
  BY <1>3 DEF SentSoFar, OutputState
<1>6. PICK z \in Place(w) : /\ Path(Arrivals(w), o.frames, y, z) /\ z.pending = y.pending
                            /\ GoesOn(z, o.stream, o.sdu, psz, w)
  BY <1>3 DEF SentSoFar
<1>7. o.frames \in Seq(ForwardMsg) /\ FramesIn(o.frames) = k /\ k \in Nat
  BY <1>5, FramesFew
<1>8. q \in Seq(ForwardMsg) /\ FramesIn(q) = FramesIn(forward)
  BY <1>1, <1>2, FramesConcat, FrameCounts DEF q
<1>9. forward' \in Seq(ForwardMsg) /\ FramesIn(forward') = FramesIn(forward) + k
  BY <1>4, <1>7, <1>8, FramesConcat
<1>10. Path(Arrivals(w), forward', h, z)
  <2>1. Path(Arrivals(w), q, h, y)
    BY <1>1 DEF q
  <2> QED BY <1>4, <1>6, <1>7, <1>8, <2>1, PathConcat
<1>11. credits' = cr - k /\ k \in 0..cr
  <2> DEFINE c == o.credits
  <2>1. k \in Nat /\ c \in Nat /\ k + c = cr /\ credits' = c /\ cr \in Nat
    BY <1>1, <1>4, <1>5, <1>7
  <2> HIDE DEF k, c
  <2>2. cr - k = c /\ k \in 0..cr
    BY ONLY <2>1
  <2> QED BY <2>1, <2>2
<1> HIDE DEF k
<1> QED
  BY <1>4, <1>5, <1>6, <1>9, <1>10, <1>11 DEF Leaves

\* A step of the sender in which it takes in n credits and leaves what
\* `process_output` leaves is a step of `CreditFlow`.
LEMMA LeavesMoves ==
  ASSUME Typed, NEW n \in Nat, NEW h, NEW p, NEW psz, NEW w, NEW k,
         n <= CreditsIn(backward), CreditsIn(backward') = CreditsIn(backward) - n,
         Leaves(h, p, credits + n, psz, w, k), peerCredits' = peerCredits
  PROVE  Moved
<1>1. /\ k \in 0..(credits + n) /\ credits' = (credits + n) - k
      /\ FramesIn(forward') = FramesIn(forward) + k
  BY DEF Leaves
<1>2. k \in Nat /\ k <= credits + n
  BY <1>1 DEF Typed
<1> QED
  BY <1>1, <1>2 DEF Moved

\* More bytes to send change nothing for what is under way.
LEMMA ArrivalsGrow ==
  ASSUME NEW w \in Nat, NEW v \in Nat, w <= v
  PROVE  Place(w) \subseteq Place(v) /\ Arrivals(w) \subseteq Arrivals(v)
<1>1. Place(w) \subseteq Place(v)
  BY DEF Place
<1> QED
  BY <1>1 DEF Arrivals

\* Bytes written go on after those in the stream.
LEMMA WrittenGoesOn ==
  ASSUME NEW w \in Nat, NEW n \in Nat, NEW y \in Place(w), NEW str, NEW cur, NEW psz,
         GoesOn(y, str, cur, psz, w)
  PROVE  /\ GoesOn(y, str \o Span(w, w + n), cur, psz, w + n)
         /\ str \o Span(w, w + n) \in Seq(Nat)
<1> DEFINE v == w + n
<1>1. v \in Nat /\ w <= v /\ y.got \in Nat /\ y.got <= w /\ y.got <= v
  BY PlaceIs
<1> HIDE DEF v
<1>2. ASSUME NEW a \in Nat, a <= w
      PROVE  Span(a, w) \o Span(w, v) = Span(a, v) /\ Span(a, v) \in Seq(Nat)
  <2>1. a <= v
    BY <1>1, <1>2
  <2>2. Span(a, v) \in Seq(Nat)
    BY <1>1, <2>1, SpanProperties
  <2>3. Span(a, w) \o Span(w, v) = Span(a, v)
    BY <1>1, <1>2, SpanConcat
  <2> QED BY <2>2, <2>3
<1>3. CASE cur = <<>> /\ y.input = <<>> /\ str = Span(y.got, w)
  BY <1>1, <1>2, <1>3 DEF GoesOn, v
<1>4. CASE \E b \in y.got..w : /\ b - y.got <= Mtu(psz)
                               /\ 2 <= Len(y.input) /\ cur # <<>>
                               /\ y.input \o cur = Sdu(y.got, b)
                               /\ str = Span(b, w)
  <2>1. PICK b \in y.got..w : /\ b - y.got <= Mtu(psz)
                              /\ 2 <= Len(y.input) /\ cur # <<>>
                              /\ y.input \o cur = Sdu(y.got, b)
                              /\ str = Span(b, w)
    BY <1>4
  <2>2. b \in Nat /\ b <= w /\ b \in y.got..v
    BY <1>1
  <2>3. str \o Span(w, v) = Span(b, v) /\ Span(b, v) \in Seq(Nat)
    BY <1>2, <2>1, <2>2
  <2> QED BY <2>1, <2>2, <2>3 DEF GoesOn, v
<1> QED
  BY <1>3, <1>4 DEF GoesOn

\* What the other lemmas take from the invariant.
LEMMA InvGives ==
  ASSUME ChannelInv
  PROVE  /\ Typed /\ Conserved
         /\ FramesIn(forward) \in Nat /\ CreditsIn(backward) \in Nat
         /\ \E y \in Place(written) : /\ Path(Arrivals(written), forward, Here, y)
                                      /\ GoesOn(y, stream, sdu, peerSize, written)
                                      /\ Path(Asked, backward, y.pending, <<>>)
BY FrameCounts, GrantCounts DEF ChannelInv, Continuous, Typed

\* The receiver's variables are as they were, in a step of the sender.
LEMMA ReceiverStays ==
  ASSUME Typed, UNCHANGED receiver
  PROVE  /\ Here' = Here /\ delivered' = delivered /\ peerCredits' = peerCredits
         /\ input' = input /\ inputLength' = inputLength /\ size' = size
         /\ pending' = pending /\ paused' = paused /\ failed' = failed
BY DEF receiver, Here

\* A step of the sender keeps the invariant: it takes in n credits, and what it
\* leaves goes on after what is under way.
LEMMA SenderKeeps ==
  ASSUME ChannelInv, UNCHANGED receiver, NEW n \in Nat, NEW p, NEW psz \in Sizes, NEW k,
         n <= CreditsIn(backward), CreditsIn(backward') = CreditsIn(backward) - n,
         backward' \in Seq(BackwardMsg), Path(Asked, backward', p, <<>>),
         written' \in Nat, written <= written',
         Leaves(Here, p, credits + n, psz, written', k)
  PROVE  ChannelInv' /\ Moved
<1>1. Typed /\ Conserved
  BY InvGives
<1>2. /\ Here' = Here /\ delivered' = delivered /\ peerCredits' = peerCredits
      /\ input' = input /\ inputLength' = inputLength /\ size' = size
      /\ pending' = pending /\ paused' = paused /\ failed' = failed
  BY <1>1, ReceiverStays
<1>3. Moved
  BY <1>1, <1>2, LeavesMoves
<1>4. /\ k \in 0..(credits + n)
      /\ stream' \in Seq(Nat) /\ sdu' \in Seq(Nat) /\ credits' = (credits + n) - k
      /\ peerSize' = psz /\ forward' \in Seq(ForwardMsg)
  BY DEF Leaves
<1>5. credits \in Nat
  BY <1>1 DEF Typed
<1>6. credits' \in Nat
  BY <1>4, <1>5
<1>7. Len(delivered') <= written'
  BY <1>1, <1>2 DEF Typed
<1>8. Typed'
  BY <1>1, <1>2, <1>4, <1>6, <1>7 DEF Typed
<1>9. Continuous'
  <2>1. PICK z \in Place(written') : /\ Path(Arrivals(written'), forward', Here, z)
                                     /\ z.pending = p
                                     /\ GoesOn(z, stream', sdu', psz, written')
    BY DEF Leaves
  <2>2. Path(Arrivals(written'), forward', Here', z)
    BY <1>2, <2>1
  <2>3. GoesOn(z, stream', sdu', peerSize', written') /\ Path(Asked, backward', z.pending, <<>>)
    BY <1>4, <2>1
  <2> QED BY <2>2, <2>3 DEF Continuous
<1>10. Conserved'
  BY <1>1, <1>3, MovedConserves
<1>11. LengthKnown' /\ delivered' = Span(0, Len(delivered')) /\ failed' = "none"
  BY <1>2 DEF ChannelInv, LengthKnown
<1> QED
  BY <1>3, <1>8, <1>9, <1>10, <1>11 DEF ChannelInv

\* `write`: the new bytes go on after those in `output_stream`.
LEMMA WriteKeeps ==
  ASSUME ChannelInv, NEW n \in Nat, Write(n)
  PROVE  ChannelInv' /\ Moved
<1>1. /\ Typed /\ FramesIn(forward) \in Nat /\ CreditsIn(backward) \in Nat
  BY InvGives
<1>2. PICK y \in Place(written) : /\ Path(Arrivals(written), forward, Here, y)
                                  /\ GoesOn(y, stream, sdu, peerSize, written)
                                  /\ Path(Asked, backward, y.pending, <<>>)
  BY InvGives
<1> DEFINE w == written
           v == written + n
           str == stream \o Span(w, v)
           none == <<>>
<1>3. /\ written' = v /\ ProcessOutput(str, credits, peerSize, none)
      /\ UNCHANGED receiver /\ backward' = backward
  BY DEF Write
<1>4. /\ w \in Nat /\ v \in Nat /\ w <= v /\ credits \in Nat /\ peerSize \in Sizes
      /\ forward \in Seq(ForwardMsg) /\ backward \in Seq(BackwardMsg)
  BY <1>1 DEF Typed
<1>5. GoesOn(y, str, sdu, peerSize, v) /\ str \in Seq(Nat)
  BY <1>2, <1>4, WrittenGoesOn
<1>6. y \in Place(v) /\ Arrivals(w) \subseteq Arrivals(v)
  BY <1>4, ArrivalsGrow
<1>7. Path(Arrivals(v), forward, Here, y)
  BY <1>2, <1>6, PathMore
<1>8. none \in Seq(ForwardMsg) /\ FramesIn(none) = 0 /\ forward \o none = forward
  BY <1>4, FramesFew, ConcatEmptySeq
<1> HIDE DEF none, str, v
<1>9. Calls(Here, y, str, credits, peerSize, none, v)
  BY <1>4, <1>5, <1>6, <1>7, <1>8 DEF Calls
<1>10. PICK k : Leaves(Here, y.pending, credits, peerSize, v, k)
  BY <1>1, <1>3, <1>9, ProcessOutputKeeps
<1>11. credits + 0 = credits /\ CreditsIn(backward) - 0 = CreditsIn(backward) /\ 0 \in Nat
       /\ 0 <= CreditsIn(backward)
  BY <1>1, <1>4
<1>12. Leaves(Here, y.pending, credits + 0, peerSize, written', k)
  BY <1>3, <1>10, <1>11
<1>13. /\ backward' \in Seq(BackwardMsg) /\ Path(Asked, backward', y.pending, <<>>)
       /\ CreditsIn(backward') = CreditsIn(backward) - 0
       /\ written' \in Nat /\ written <= written'
  BY <1>2, <1>3, <1>4, <1>11
<1> QED
  BY <1>3, <1>4, <1>11, <1>12, <1>13, SenderKeeps

\* The sizes a sender is asked to use are the ones the receiver waits for next.
LEMMA AskedTail ==
  ASSUME Typed, backward # <<>>, NEW p, Path(Asked, backward, p, <<>>)
  PROVE  /\ Head(backward) \in BackwardMsg
         /\ \/ /\ Head(backward).type = "grant" /\ Path(Asked, Tail(backward), p, <<>>)
            \/ /\ Head(backward).type = "request"
               /\ p # <<>> /\ p \in Seq(Sizes) /\ Head(p) \in Sizes
               /\ Head(backward).size = Head(p)
               /\ Path(Asked, Tail(backward), Tail(p), <<>>)
<1>1. backward \in Seq(BackwardMsg)
  BY DEF Typed
<1>2. PICK r : <<p, Head(backward), r>> \in Asked /\ Path(Asked, Tail(backward), r, <<>>)
  BY <1>1, PathTail
<1>3. /\ p \in Seq(Sizes) /\ Head(backward) \in BackwardMsg
      /\ IF Head(backward).type = "grant" THEN r = p
         ELSE p # <<>> /\ Head(backward).size = Head(p) /\ r = Tail(p)
  BY <1>2 DEF Asked
<1>4. Head(backward).type \in {"grant", "request"}
  BY <1>3 DEF BackwardMsg
<1>5. p # <<>> => Head(p) \in Sizes
  BY <1>3, HeadTailProperties
<1> QED
  BY <1>2, <1>3, <1>4, <1>5

\* `add_credits`.
LEMMA OnGrantKeeps ==
  ASSUME ChannelInv, OnGrant
  PROVE  ChannelInv' /\ Moved
<1>1. /\ Typed /\ FramesIn(forward) \in Nat /\ CreditsIn(backward) \in Nat
  BY InvGives
<1>2. PICK y \in Place(written) : /\ Path(Arrivals(written), forward, Here, y)
                                  /\ GoesOn(y, stream, sdu, peerSize, written)
                                  /\ Path(Asked, backward, y.pending, <<>>)
  BY InvGives
<1> DEFINE n == Head(backward).credits
           none == <<>>
<1>3. /\ backward # <<>> /\ Head(backward).type = "grant"
      /\ backward' = Tail(backward)
      /\ ProcessOutput(stream, credits + n, peerSize, none)
      /\ UNCHANGED written /\ UNCHANGED receiver
  BY DEF OnGrant
<1>4. /\ written \in Nat /\ credits \in Nat /\ peerSize \in Sizes /\ stream \in Seq(Nat)
      /\ forward \in Seq(ForwardMsg) /\ backward \in Seq(BackwardMsg)
  BY <1>1 DEF Typed
<1>5. Path(Asked, Tail(backward), y.pending, <<>>) /\ Head(backward) \in BackwardMsg
  BY <1>1, <1>2, <1>3, AskedTail
<1>6. n \in Nat
  BY <1>3, <1>5 DEF BackwardMsg
<1> HIDE DEF n
<1>7. /\ Tail(backward) \in Seq(BackwardMsg) /\ CreditsIn(Tail(backward)) \in Nat
      /\ CreditsIn(backward) = n + CreditsIn(Tail(backward))
  BY <1>3, <1>4, GrantsTail DEF n
<1>8. n <= CreditsIn(backward) /\ CreditsIn(backward') = CreditsIn(backward) - n
  <2>1. backward' = Tail(backward)
    BY <1>3
  <2> DEFINE c == CreditsIn(backward)
             d == CreditsIn(Tail(backward))
  <2>2. c \in Nat /\ d \in Nat /\ c = n + d
    BY <1>1, <1>7
  <2> HIDE DEF c, d
  <2>3. n <= c /\ d = c - n
    BY <1>6, <2>2
  <2> QED BY <2>1, <2>3 DEF c, d
<1>9. none \in Seq(ForwardMsg) /\ FramesIn(none) = 0 /\ forward \o none = forward
  BY <1>4, FramesFew, ConcatEmptySeq
<1>10. credits + n \in Nat
  BY <1>4, <1>6
<1> HIDE DEF none
<1>11. Calls(Here, y, stream, credits + n, peerSize, none, written)
  BY <1>2, <1>4, <1>9, <1>10 DEF Calls
<1>12. PICK k : Leaves(Here, y.pending, credits + n, peerSize, written, k)
  BY <1>1, <1>3, <1>11, ProcessOutputKeeps
<1>13. Leaves(Here, y.pending, credits + n, peerSize, written', k)
       /\ written' \in Nat /\ written <= written'
  BY <1>3, <1>4, <1>12
<1>14. backward' \in Seq(BackwardMsg) /\ Path(Asked, backward', y.pending, <<>>)
  BY <1>3, <1>5, <1>7
<1> QED
  BY <1>3, <1>4, <1>6, <1>8, <1>13, <1>14, SenderKeeps

\* The answer to a request is what the receiver waits for next.
LEMMA ResponseTaken ==
  ASSUME NEW w \in Nat, NEW y \in Place(w), y.pending # <<>>, NEW ok \in BOOLEAN
  PROVE  LET z == [got |-> y.got, input |-> y.input,
                   size |-> IF ok THEN Head(y.pending) ELSE y.size,
                   pending |-> Tail(y.pending)]
         IN z \in Place(w) /\ Path(Arrivals(w), <<Response(ok)>>, y, z)
<1> DEFINE z == [got |-> y.got, input |-> y.input,
                 size |-> IF ok THEN Head(y.pending) ELSE y.size,
                 pending |-> Tail(y.pending)]
           m == Response(ok)
<1>1. /\ y.got \in 0..w /\ y.input \in Seq(Nat) /\ y.size \in Sizes
      /\ y.pending \in Seq(Sizes)
  BY PlaceIs
<1>2. Head(y.pending) \in Sizes /\ Tail(y.pending) \in Seq(Sizes)
  BY <1>1, HeadTailProperties
<1>3. z \in Place(w)
  BY <1>1, <1>2 DEF Place
<1>4. TakesResponse(y, ok, z)
  BY DEF TakesResponse
<1>5. m \in ForwardMsg /\ m.type # "kframe" /\ m.ok = ok
  BY DEF Response, ForwardMsg
<1> HIDE DEF z, m
<1>6. <<y, m, z>> \in Arrivals(w)
  BY <1>3, <1>4, <1>5 DEF Arrivals
<1>7. Path(Arrivals(w), <<m>>, y, z)
  BY <1>6, PathFew
<1> QED
  BY <1>3, <1>7 DEF z, m

\* An SDU under way fits a larger MTU as well.
LEMMA LargerGoesOn ==
  ASSUME NEW w \in Nat, NEW y \in Place(w), NEW z \in Place(w), NEW str, NEW cur,
         NEW psz \in Sizes, NEW new \in Sizes, GoesOn(y, str, cur, psz, w),
         z.got = y.got, z.input = y.input, z.size = new, Mtu(new) >= Mtu(psz)
  PROVE  GoesOn(z, str, cur, new, w)
<1>1. Mtu(new) \in Nat /\ Mtu(psz) \in Nat
  BY ChannelAssumption DEF Mtu
<1>2. y.got \in Nat
  BY PlaceIs
<1>3. \A b \in y.got..w : b - y.got <= Mtu(psz) => b - y.got <= Mtu(new)
  BY <1>1, <1>2
<1> QED
  BY <1>3 DEF GoesOn

\* `on_reconfigure_request`: from the response on, frames keep to the new sizes.
LEMMA OnReconfigureRequestKeeps ==
  ASSUME ChannelInv, OnReconfigureRequest
  PROVE  ChannelInv' /\ Moved
<1>1. /\ Typed /\ FramesIn(forward) \in Nat /\ CreditsIn(backward) \in Nat
  BY InvGives
<1>2. PICK y \in Place(written) : /\ Path(Arrivals(written), forward, Here, y)
                                  /\ GoesOn(y, stream, sdu, peerSize, written)
                                  /\ Path(Asked, backward, y.pending, <<>>)
  BY InvGives
<1> DEFINE new == Head(backward).size
           ok == Mtu(new) >= Mtu(peerSize)
           w == written
<1>3. /\ backward # <<>> /\ Head(backward).type = "request"
      /\ backward' = Tail(backward)
      /\ written' = w /\ UNCHANGED receiver
      /\ IF ok THEN ProcessOutput(stream, credits, new, <<Response(TRUE)>>)
               ELSE /\ forward' = Append(forward, Response(FALSE))
                    /\ UNCHANGED <<stream, sdu, credits, peerSize>>
  BY DEF OnReconfigureRequest
<1>4. /\ w \in Nat /\ credits \in Nat /\ peerSize \in Sizes /\ stream \in Seq(Nat)
      /\ sdu \in Seq(Nat)
      /\ forward \in Seq(ForwardMsg) /\ backward \in Seq(BackwardMsg)
  BY <1>1 DEF Typed
<1>5. /\ y.pending # <<>> /\ y.pending \in Seq(Sizes)
      /\ new = Head(y.pending) /\ new \in Sizes
      /\ Path(Asked, Tail(backward), Tail(y.pending), <<>>)
  BY <1>1, <1>2, <1>3, AskedTail
<1>6. /\ Tail(backward) \in Seq(BackwardMsg) /\ CreditsIn(Tail(backward)) \in Nat
      /\ CreditsIn(backward) = 0 + CreditsIn(Tail(backward))
  BY <1>3, <1>4, GrantsTail
<1>7. /\ 0 \in Nat /\ 0 <= CreditsIn(backward) /\ CreditsIn(backward') = CreditsIn(backward) - 0
      /\ credits + 0 = credits
  <2>1. backward' = Tail(backward)
    BY <1>3
  <2> DEFINE c == CreditsIn(backward)
             d == CreditsIn(Tail(backward))
  <2>2. c \in Nat /\ d \in Nat /\ c = 0 + d
    BY <1>1, <1>6
  <2> HIDE DEF c, d
  <2>3. 0 <= c /\ d = c - 0
    BY <2>2
  <2>4. credits + 0 = credits
    BY <1>4
  <2> QED BY <2>1, <2>3, <2>4 DEF c, d
<1>8. /\ backward' \in Seq(BackwardMsg) /\ Path(Asked, backward', Tail(y.pending), <<>>)
      /\ written' \in Nat /\ written <= written'
  BY <1>3, <1>4, <1>5, <1>6
<1> HIDE DEF new
<1>9. ASSUME NEW psz \in Sizes, NEW k, Leaves(Here, Tail(y.pending), credits, psz, w, k)
      PROVE  ChannelInv' /\ Moved
  <2>1. Leaves(Here, Tail(y.pending), credits + 0, psz, written', k)
    BY <1>3, <1>7, <1>9
  <2> QED BY <1>3, <1>7, <1>8, <2>1, SenderKeeps
<1>10. ASSUME NEW yes \in BOOLEAN
       PROVE  LET z == [got |-> y.got, input |-> y.input,
                        size |-> IF yes THEN Head(y.pending) ELSE y.size,
                        pending |-> Tail(y.pending)]
              IN z \in Place(w) /\ Path(Arrivals(w), <<Response(yes)>>, y, z)
  BY <1>4, <1>5, ResponseTaken
<1>11. CASE ok
  <2> DEFINE z == [got |-> y.got, input |-> y.input, size |-> new,
                   pending |-> Tail(y.pending)]
             r == <<Response(TRUE)>>
  <2>1. z \in Place(w) /\ Path(Arrivals(w), r, y, z)
    BY <1>5, <1>10
  <2>2. z.got = y.got /\ z.input = y.input /\ z.size = new /\ z.pending = Tail(y.pending)
    OBVIOUS
  <2>3. r \in Seq(ForwardMsg) /\ FramesIn(r) = 0
    BY FramesFew
  <2>4. ProcessOutput(stream, credits, new, r)
    BY <1>3, <1>11
  <2> HIDE DEF z, r
  <2>5. GoesOn(z, stream, sdu, new, w)
    BY <1>2, <1>4, <1>5, <1>11, <2>1, <2>2, LargerGoesOn
  <2>6. Path(Arrivals(w), forward \o r, Here, z)
    BY <1>2, <1>4, <2>1, <2>3, PathConcat
  <2>7. Calls(Here, z, stream, credits, new, r, w)
    BY <1>4, <1>5, <2>1, <2>3, <2>5, <2>6 DEF Calls
  <2>8. PICK k : Leaves(Here, z.pending, credits, new, w, k)
    BY <1>1, <2>4, <2>7, ProcessOutputKeeps
  <2> QED BY <1>5, <1>9, <2>2, <2>8
<1>12. CASE ~ok
  <2> DEFINE z == [got |-> y.got, input |-> y.input, size |-> y.size,
                   pending |-> Tail(y.pending)]
             m == Response(FALSE)
             r == <<m>>
  <2>1. z \in Place(w) /\ Path(Arrivals(w), r, y, z)
    BY <1>10
  <2>2. z.got = y.got /\ z.input = y.input /\ z.size = y.size /\ z.pending = Tail(y.pending)
    OBVIOUS
  <2>3. r \in Seq(ForwardMsg) /\ FramesIn(r) = 0 /\ m \in ForwardMsg
    BY FramesFew DEF Response, ForwardMsg
  <2>4. /\ forward' = Append(forward, m)
        /\ UNCHANGED <<stream, sdu, credits, peerSize>>
    BY <1>3, <1>12
  <2> HIDE DEF z, m
  <2>5. forward' = forward \o r
    BY <1>4, <2>3, <2>4, AppendIsConcat
  <2> HIDE DEF r
  <2>6. GoesOn(z, stream', sdu', peerSize, w)
    <3>1. y.size = peerSize /\ Mtu(peerSize) \in Nat
      BY <1>2, <1>4, ChannelAssumption DEF GoesOn, Mtu
    <3>2. z.size = peerSize /\ Mtu(peerSize) >= Mtu(peerSize)
      BY <2>2, <3>1
    <3>3. GoesOn(z, stream, sdu, peerSize, w)
      BY <1>2, <1>4, <2>1, <2>2, <3>2, LargerGoesOn
    <3> QED BY <2>4, <3>3
  <2>7. Path(Arrivals(w), forward', Here, z)
    BY <1>2, <1>4, <2>1, <2>3, <2>5, PathConcat
  <2>8. forward' \in Seq(ForwardMsg) /\ FramesIn(forward') = FramesIn(forward) + 0
    BY <1>4, <2>3, <2>5, FramesConcat
  <2>9. 0 \in 0..credits /\ credits' = credits - 0
    BY <1>4, <2>4
  <2>10. Leaves(Here, Tail(y.pending), credits, peerSize, w, 0)
    BY <1>4, <2>1, <2>2, <2>4, <2>6, <2>7, <2>8, <2>9 DEF Leaves
  <2> QED BY <1>4, <1>9, <2>10
<1> QED
  BY <1>11, <1>12

-----------------------------------------------------------------------------
(* The receiving end *)

\* What `replenish_peer_credits` grants never takes the window past its maximum.
LEMMA ReplenishBound ==
  ASSUME NEW n \in Nat, n <= MaxCredits, NEW stopped
  PROVE  /\ Replenish(n, stopped) \in 0..MaxCredits /\ Replenish(n, stopped) \in Nat
         /\ n + Replenish(n, stopped) <= MaxCredits
<1>1. MaxCredits \in Nat
  BY ChannelAssumption
<1>2. Replenish(n, stopped) = 0 \/ Replenish(n, stopped) = MaxCredits - n
  BY DEF Replenish
<1> QED
  BY <1>1, <1>2

\* A grant asks for nothing.
LEMMA GrantsAsk ==
  ASSUME NEW g \in Nat
  PROVE  Path(Asked, Grants(g), <<>>, <<>>)
<1>1. CASE g = 0
  BY <1>1, PathFew DEF Grants
<1>2. CASE g # 0
  <2> DEFINE m == Grant(g)
             p == <<>>
  <2>1. m \in BackwardMsg /\ m.type = "grant" /\ p \in Seq(Sizes)
    BY DEF BackwardMsg, Grant
  <2> HIDE DEF m, p
  <2>2. <<p, m, p>> \in Asked
    BY <2>1 DEF Asked
  <2>3. Path(Asked, <<m>>, p, p)
    BY <2>2, PathFew
  <2> QED BY <1>2, <2>3 DEF Grants, m, p
<1> QED
  BY <1>1, <1>2

\* Grants queued after what is under way: the credits add up, and the sender is
\* still asked for the same sizes.
LEMMA GrantsQueued ==
  ASSUME Typed, NEW g \in Nat, NEW p, Path(Asked, backward, p, <<>>),
         backward' = backward \o Grants(g)
  PROVE  /\ backward' \in Seq(BackwardMsg)
         /\ CreditsIn(backward') = CreditsIn(backward) + g
         /\ Path(Asked, backward', p, <<>>)
<1>1. backward \in Seq(BackwardMsg)
  BY DEF Typed
<1>2. Grants(g) \in Seq(BackwardMsg) /\ CreditsIn(Grants(g)) = g
  BY GrantsFew
<1>3. Path(Asked, backward \o Grants(g), p, <<>>)
  BY <1>1, <1>2, GrantsAsk, PathConcat
<1> QED
  BY <1>1, <1>2, <1>3, GrantsConcat

\* `pause_reading`.
LEMMA PauseKeeps ==
  ASSUME ChannelInv, Pause
  PROVE  ChannelInv' /\ Moved
<1>1. /\ Typed /\ Conserved /\ FramesIn(forward) \in Nat /\ CreditsIn(backward) \in Nat
  BY InvGives
<1>2. /\ paused' = TRUE
      /\ UNCHANGED <<stream, sdu, credits, peerSize, written>>
      /\ UNCHANGED <<input, inputLength, peerCredits, size, pending, failed,
                     delivered, reconfigs, forward, backward>>
  BY DEF Pause, sender
<1>3. Typed' /\ LengthKnown' /\ delivered' = Span(0, Len(delivered')) /\ failed' = "none"
      /\ Conserved'
  BY <1>2 DEF ChannelInv, Typed, LengthKnown, Conserved
<1>4. Continuous'
  <2>1. Here' = Here
    BY <1>2 DEF Here
  <2> QED BY <1>2, <2>1 DEF ChannelInv, Continuous
<1>5. Moved
  <2>1. credits \in Nat
    BY <1>1 DEF Typed
  <2> DEFINE f == FramesIn(forward)
             c == CreditsIn(backward)
             ff == FramesIn(forward')
             cc == CreditsIn(backward')
  <2>2. ff = f /\ cc = c /\ f \in Nat /\ c \in Nat /\ credits' = credits
        /\ peerCredits' = peerCredits
    BY <1>1, <1>2
  <2> HIDE DEF f, c, ff, cc
  <2>3. /\ 0 <= c /\ 0 <= credits + 0 /\ cc = c - 0 /\ credits' = (credits + 0) - 0
        /\ ff = f + 0 /\ 0 \in Nat
    BY <2>1, <2>2
  <2> QED BY <2>2, <2>3 DEF Moved, f, c, ff, cc
<1> QED
  BY <1>3, <1>4, <1>5 DEF ChannelInv

\* `resume_reading`.
LEMMA ResumeKeeps ==
  ASSUME ChannelInv, Resume
  PROVE  ChannelInv' /\ Moved
<1>1. /\ Typed /\ Conserved /\ FramesIn(forward) \in Nat /\ CreditsIn(backward) \in Nat
  BY InvGives
<1>2. PICK y \in Place(written) : /\ Path(Arrivals(written), forward, Here, y)
                                  /\ GoesOn(y, stream, sdu, peerSize, written)
                                  /\ Path(Asked, backward, y.pending, <<>>)
  BY InvGives
<1> DEFINE g == Replenish(peerCredits, FALSE)
<1>3. /\ paused' = FALSE
      /\ peerCredits' = peerCredits + g
      /\ backward' = backward \o Grants(g)
      /\ UNCHANGED <<stream, sdu, credits, peerSize, written>>
      /\ UNCHANGED <<input, inputLength, size, pending, failed, delivered, reconfigs, forward>>
  BY DEF Resume, sender
<1>4. peerCredits \in Nat /\ peerCredits <= MaxCredits /\ credits \in Nat
  BY <1>1 DEF Typed, Conserved
<1>5. g \in 0..MaxCredits /\ g \in Nat /\ peerCredits + g <= MaxCredits
  BY <1>4, ReplenishBound
<1> HIDE DEF g
<1>6. /\ backward' \in Seq(BackwardMsg) /\ CreditsIn(backward') = CreditsIn(backward) + g
      /\ Path(Asked, backward', y.pending, <<>>)
  BY <1>1, <1>2, <1>3, <1>5, GrantsQueued
<1>7. peerCredits' \in Nat
  BY <1>3, <1>4, <1>5
<1>8. Typed' /\ LengthKnown' /\ delivered' = Span(0, Len(delivered')) /\ failed' = "none"
  BY <1>3, <1>6, <1>7 DEF ChannelInv, Typed, LengthKnown
<1>9. Continuous'
  <2>1. Here' = Here
    BY <1>3 DEF Here
  <2> QED BY <1>2, <1>3, <1>6, <2>1 DEF Continuous
<1>10. Moved
  <2> DEFINE f == FramesIn(forward)
             ff == FramesIn(forward')
  <2>1. ff = f /\ f \in Nat
    BY <1>1, <1>3
  <2> HIDE DEF f, ff
  <2>2. /\ 0 <= f /\ 0 <= peerCredits /\ (peerCredits - 0) + g <= MaxCredits
        /\ ff = f - 0 /\ peerCredits' = (peerCredits - 0) + g /\ 0 \in 0..1
    BY <1>3, <1>4, <1>5, <2>1
  <2> QED BY <1>3, <1>5, <1>6, <2>2 DEF Moved, f, ff
<1>11. Conserved'
  BY <1>1, <1>10, MovedConserves
<1> QED
  BY <1>8, <1>9, <1>10, <1>11 DEF ChannelInv

\* A step that leaves the numbers alone is one of `CreditFlow`.
LEMMA StillMoved ==
  ASSUME Typed, FramesIn(forward') = FramesIn(forward),
         CreditsIn(backward') = CreditsIn(backward), credits' = credits,
         peerCredits' = peerCredits
  PROVE  Moved
<1>1. credits \in Nat /\ FramesIn(forward) \in Nat /\ CreditsIn(backward) \in Nat
  BY FrameCounts, GrantCounts DEF Typed
<1> DEFINE f == FramesIn(forward)
           c == CreditsIn(backward)
           ff == FramesIn(forward')
           cc == CreditsIn(backward')
<1>2. ff = f /\ cc = c /\ f \in Nat /\ c \in Nat
  BY <1>1
<1> HIDE DEF f, c, ff, cc
<1>3. /\ 0 <= c /\ 0 <= credits + 0 /\ cc = c - 0 /\ credits' = (credits + 0) - 0
      /\ ff = f + 0 /\ 0 \in Nat
  BY <1>1, <1>2
<1> QED
  BY <1>3 DEF Moved, f, c, ff, cc

\* The receiver asks for sizes: it will wait for one answer more, and the request
\* is the last one under way.
LEMMA ReconfigureKeeps ==
  ASSUME ChannelInv, NEW s \in Sizes, Reconfigure(s)
  PROVE  ChannelInv' /\ Moved
<1>1. /\ Typed /\ Conserved /\ FramesIn(forward) \in Nat /\ CreditsIn(backward) \in Nat
  BY InvGives
<1>2. PICK y \in Place(written) : /\ Path(Arrivals(written), forward, Here, y)
                                  /\ GoesOn(y, stream, sdu, peerSize, written)
                                  /\ Path(Asked, backward, y.pending, <<>>)
  BY InvGives
<1> DEFINE w == written
           m == Request(s)
           More(x) == [got |-> x.got, input |-> x.input, size |-> x.size,
                       pending |-> Append(x.pending, s)]
           f == [x \in Place(w) |-> More(x)]
           h == [p \in Seq(Sizes) |-> Append(p, s)]
<1>3. /\ pending' = Append(pending, s)
      /\ backward' = Append(backward, m)
      /\ UNCHANGED <<stream, sdu, credits, peerSize, written>>
      /\ UNCHANGED <<input, inputLength, peerCredits, paused, size, failed, delivered, forward>>
  BY DEF Reconfigure, sender
<1>4. /\ w \in Nat /\ forward \in Seq(ForwardMsg) /\ backward \in Seq(BackwardMsg)
      /\ pending \in Seq(Sizes) /\ peerSize \in Sizes
  BY <1>1 DEF Typed
<1>5. ASSUME NEW x \in Place(w)
      PROVE  /\ More(x) \in Place(w) /\ f[x] = More(x)
             /\ More(x).got = x.got /\ More(x).input = x.input /\ More(x).size = x.size
             /\ More(x).pending = Append(x.pending, s)
  <2>1. /\ x.got \in 0..w /\ x.input \in Seq(Nat) /\ x.size \in Sizes
        /\ Append(x.pending, s) \in Seq(Sizes)
    BY <1>4, PlaceIs, AppendProperties
  <2>2. More(x) \in Place(w)
    BY <2>1 DEF Place
  <2> QED BY <2>2
<1>6. ASSUME NEW p \in Seq(Sizes), p # <<>>
      PROVE  /\ Append(p, s) # <<>> /\ Head(Append(p, s)) = Head(p)
             /\ Tail(Append(p, s)) = Append(Tail(p), s)
  BY <1>6, HeadTailAppend, AppendProperties
<1>7. ASSUME NEW a, NEW e, NEW b, <<a, e, b>> \in Arrivals(w)
      PROVE  <<f[a], e, f[b]>> \in Arrivals(w)
  <2>1. /\ a \in Place(w) /\ b \in Place(w) /\ e \in ForwardMsg
        /\ IF e.type = "kframe" THEN TakesFrame(a, e.bytes, b) ELSE TakesResponse(a, e.ok, b)
    BY <1>7 DEF Arrivals
  <2> DEFINE aa == More(a)
             bb == More(b)
  <2>2. /\ aa \in Place(w) /\ f[a] = aa /\ aa.got = a.got /\ aa.input = a.input
        /\ aa.size = a.size /\ aa.pending = Append(a.pending, s)
    BY <1>5, <2>1
  <2>3. /\ bb \in Place(w) /\ f[b] = bb /\ bb.got = b.got /\ bb.input = b.input
        /\ bb.size = b.size /\ bb.pending = Append(b.pending, s)
    BY <1>5, <2>1
  <2> HIDE DEF aa, bb, f
  <2>4. CASE e.type = "kframe"
    <3>1. TakesFrame(a, e.bytes, b)
      BY <2>1, <2>4
    <3>2. TakesFrame(aa, e.bytes, bb)
      BY <2>2, <2>3, <3>1 DEF TakesFrame
    <3> QED BY <2>1, <2>2, <2>3, <2>4, <3>2 DEF Arrivals
  <2>5. CASE e.type # "kframe"
    <3>1. TakesResponse(a, e.ok, b)
      BY <2>1, <2>5
    <3>2. a.pending \in Seq(Sizes) /\ a.pending # <<>> /\ b.pending = Tail(a.pending)
      BY <1>4, <2>1, <3>1, PlaceIs DEF TakesResponse
    <3>3. /\ aa.pending # <<>> /\ Head(aa.pending) = Head(a.pending)
          /\ bb.pending = Tail(aa.pending)
      BY <1>6, <2>2, <2>3, <3>2
    <3>4. TakesResponse(aa, e.ok, bb)
      BY <2>2, <2>3, <3>1, <3>3 DEF TakesResponse
    <3> QED BY <2>1, <2>2, <2>3, <2>5, <3>4 DEF Arrivals
  <2> QED BY <2>4, <2>5
<1>8. /\ Here \in Place(w) /\ f[Here] = Here'
  <2>1. /\ Here \in Place(w) /\ Here.got = Len(delivered) /\ Here.input = input
        /\ Here.size = size /\ Here.pending = pending
    BY <1>1, HereIs
  <2>2. Here' = [got |-> Len(delivered), input |-> input, size |-> size,
                 pending |-> Append(pending, s)]
    BY <1>3 DEF Here
  <2>3. f[Here] = More(Here)
    BY <1>5, <2>1
  <2> QED BY <2>1, <2>2, <2>3
<1>9. Path(Arrivals(w), forward, f[Here], f[y])
  <2> HIDE DEF f
  <2> QED BY <1>2, <1>4, <1>7, PathMap
<1> DEFINE z == f[y]
<1>10. /\ z \in Place(w) /\ z.got = y.got /\ z.input = y.input /\ z.size = y.size
       /\ z.pending = Append(y.pending, s)
  BY <1>5
<1> HIDE DEF f, z
<1>11. GoesOn(z, stream', sdu', peerSize', w)
  BY <1>2, <1>3, <1>10 DEF GoesOn
<1>12. m \in BackwardMsg /\ m.type # "grant" /\ m.size = s /\ <<m>> \in Seq(BackwardMsg)
       /\ CreditsIn(<<m>>) = 0
  BY GrantsFew DEF Request, BackwardMsg
<1> HIDE DEF m
<1>13. backward' = backward \o <<m>> /\ backward' \in Seq(BackwardMsg)
       /\ CreditsIn(backward') = CreditsIn(backward)
  <2>1. backward' = backward \o <<m>>
    BY <1>3, <1>4, <1>12, AppendIsConcat
  <2>2. CreditsIn(backward \o <<m>>) = CreditsIn(backward) + 0
        /\ backward \o <<m>> \in Seq(BackwardMsg)
    BY <1>4, <1>12, GrantsConcat
  <2> QED BY <1>1, <2>1, <2>2
<1>14. Path(Asked, backward', z.pending, <<>>)
  <2>1. ASSUME NEW a, NEW e, NEW b, <<a, e, b>> \in Asked
        PROVE  <<h[a], e, h[b]>> \in Asked
    <3>1. /\ a \in Seq(Sizes) /\ b \in Seq(Sizes) /\ e \in BackwardMsg
          /\ IF e.type = "grant" THEN b = a
             ELSE a # <<>> /\ e.size = Head(a) /\ b = Tail(a)
      BY <2>1 DEF Asked
    <3>2. h[a] = Append(a, s) /\ h[b] = Append(b, s)
      BY <3>1
    <3>3. Append(a, s) \in Seq(Sizes) /\ Append(b, s) \in Seq(Sizes)
      BY <3>1, AppendProperties
    <3> HIDE DEF h
    <3>4. CASE e.type = "grant"
      BY <3>1, <3>2, <3>3, <3>4 DEF Asked
    <3>5. CASE e.type # "grant"
      <4>1. /\ Append(a, s) # <<>> /\ e.size = Head(Append(a, s))
            /\ Append(b, s) = Tail(Append(a, s))
        BY <1>6, <3>1, <3>5
      <4> QED BY <3>1, <3>2, <3>3, <3>5, <4>1 DEF Asked
    <3> QED BY <3>4, <3>5
  <2>2. y.pending \in Seq(Sizes) /\ <<>> \in Seq(Sizes)
    BY <1>4, PlaceIs
  <2>3. h[y.pending] = z.pending /\ h[<<>>] = <<s>>
    BY <1>10, <2>2
  <2> HIDE DEF h
  <2>4. Path(Asked, backward, h[y.pending], h[<<>>])
    BY <1>2, <1>4, <2>1, PathMap
  <2> DEFINE one == <<s>>
             none == <<>>
  <2>5. one \in Seq(Sizes) /\ one # <<>> /\ Head(one) = s /\ Tail(one) = none
        /\ none \in Seq(Sizes)
    OBVIOUS
  <2> HIDE DEF one, none
  <2>6. <<one, m, none>> \in Asked
    BY <1>12, <2>5 DEF Asked
  <2>7. Path(Asked, <<m>>, one, none)
    BY <2>6, PathFew
  <2>8. Path(Asked, backward, z.pending, one)
    BY <2>3, <2>4 DEF one
  <2>9. Path(Asked, backward \o <<m>>, z.pending, none)
    BY <1>4, <1>12, <2>7, <2>8, PathConcat
  <2> QED BY <1>13, <2>9 DEF none
<1>15. Continuous'
  <2>1. Path(Arrivals(w), forward', Here', z) /\ w = written'
    BY <1>3, <1>8, <1>9 DEF z
  <2> QED BY <1>10, <1>11, <1>14, <2>1 DEF Continuous
<1>16. Append(pending, s) \in Seq(Sizes)
  BY <1>4, AppendProperties
<1>17. Typed' /\ LengthKnown' /\ delivered' = Span(0, Len(delivered')) /\ failed' = "none"
  BY <1>3, <1>13, <1>16 DEF ChannelInv, Typed, LengthKnown
<1>18. Moved
  BY <1>1, <1>3, <1>13, StillMoved
<1>19. Conserved'
  BY <1>1, <1>18, MovedConserves
<1> QED
  BY <1>15, <1>17, <1>18, <1>19 DEF ChannelInv

\* `on_reconfigure_response`: an answer is taken for the oldest request.
LEMMA OnReconfigureResponseKeeps ==
  ASSUME ChannelInv, OnReconfigureResponse
  PROVE  ChannelInv' /\ Moved
<1>1. /\ Typed /\ Conserved /\ FramesIn(forward) \in Nat /\ CreditsIn(backward) \in Nat
  BY InvGives
<1>2. PICK y \in Place(written) : /\ Path(Arrivals(written), forward, Here, y)
                                  /\ GoesOn(y, stream, sdu, peerSize, written)
                                  /\ Path(Asked, backward, y.pending, <<>>)
  BY InvGives
<1> DEFINE m == Head(forward)
<1>3. /\ forward # <<>> /\ m.type = "response" /\ forward' = Tail(forward)
      /\ pending' = Tail(pending) /\ size' = IF m.ok THEN Head(pending) ELSE size
      /\ UNCHANGED <<stream, sdu, credits, peerSize, written>>
      /\ UNCHANGED <<input, inputLength, peerCredits, paused, failed, delivered, backward>>
  BY DEF OnReconfigureResponse, sender
<1>4. written \in Nat /\ forward \in Seq(ForwardMsg)
  BY <1>1 DEF Typed
<1>5. PICK z : <<Here, m, z>> \in Arrivals(written)
               /\ Path(Arrivals(written), Tail(forward), z, y)
  BY <1>2, <1>3, <1>4, PathTail
<1>6. /\ m \in ForwardMsg /\ Tail(forward) \in Seq(ForwardMsg)
      /\ FramesIn(Tail(forward)) = FramesIn(forward)
  <2>1. /\ m \in ForwardMsg /\ Tail(forward) \in Seq(ForwardMsg)
        /\ FramesIn(Tail(forward)) \in Nat
        /\ FramesIn(forward) = (IF m.type = "kframe" THEN 1 ELSE 0) + FramesIn(Tail(forward))
    BY <1>3, <1>4, FramesTail
  <2>2. m.type # "kframe"
    BY <1>3
  <2> HIDE DEF m
  <2> QED BY <2>1, <2>2
<1> HIDE DEF m
<1>7. z \in Place(written) /\ TakesResponse(Here, m.ok, z)
  BY <1>3, <1>5 DEF Arrivals
<1>8. /\ Here.got = Len(delivered) /\ Here.input = input /\ Here.size = size
      /\ Here.pending = pending
  BY <1>1, HereIs
<1>9. /\ z.got = Len(delivered') /\ z.input = input' /\ z.size = size' /\ z.pending = pending'
  BY <1>3, <1>7, <1>8 DEF TakesResponse
<1>10. Here' = z
  <2>1. z = [got |-> z.got, input |-> z.input, size |-> z.size, pending |-> z.pending]
    BY <1>4, <1>7, PlaceIs
  <2> QED BY <1>9, <2>1 DEF Here
<1>11. size' \in Sizes /\ pending' \in Seq(Sizes)
  BY <1>4, <1>7, <1>9, PlaceIs
<1>12. Continuous'
  BY <1>2, <1>3, <1>5, <1>10 DEF Continuous
<1>13. Typed' /\ LengthKnown' /\ delivered' = Span(0, Len(delivered')) /\ failed' = "none"
  BY <1>3, <1>6, <1>11 DEF ChannelInv, Typed, LengthKnown
<1>14. Moved
  BY <1>1, <1>3, <1>6, StillMoved
<1>15. Conserved'
  BY <1>1, <1>14, MovedConserves
<1> QED
  BY <1>12, <1>13, <1>14, <1>15 DEF ChannelInv

\* The frame continues or begins the SDU of the bytes after a up to b, with `rest`
\* still to come.
Continues(frame, rest, a, b) ==
  /\ frame \in Seq(Nat) /\ rest \in Seq(Nat) /\ a \in Nat /\ b \in Nat /\ a <= b
  /\ 2 <= Len(input \o frame)
  /\ (input \o frame) \o rest = Sdu(a, b)

\* The length `receive_pdu` goes by when it has the frame.
Announced(frame) ==
  LET all == input \o frame
  IN IF inputLength = -1 /\ Len(all) >= 2 THEN all[1] + 256 * all[2] ELSE inputLength

\* It finds the length of the SDU, sees when it is complete, and takes its bytes.
Read(frame, rest, a, b) ==
  LET all == input \o frame
      length == Announced(frame)
  IN /\ all \in Seq(Nat) /\ length = b - a /\ all[1] + 256 * all[2] = length
     /\ Len(all) <= length + 2
     /\ Len(all) = length + 2 <=> rest = <<>>
     /\ rest = <<>> => Payload(all) = Span(a, b)

\* What `receive_pdu` makes of a frame of a conforming peer.
LEMMA FrameRead ==
  ASSUME Typed, LengthKnown, NEW frame, NEW rest, NEW a, NEW b, Continues(frame, rest, a, b)
  PROVE  Read(frame, rest, a, b)
<1> DEFINE all == input \o frame
           u == Sdu(a, b)
           length == Announced(frame)
<1>0. /\ frame \in Seq(Nat) /\ rest \in Seq(Nat) /\ a \in Nat /\ b \in Nat /\ a <= b
      /\ 2 <= Len(all) /\ all \o rest = Sdu(a, b)
  BY DEF Continues
<1>1. input \in Seq(Nat) /\ all \in Seq(Nat) /\ Len(all) \in Nat /\ 2 <= Len(all)
  BY <1>0 DEF Typed
<1>2. /\ u \in Seq(Nat) /\ Len(u) = b - a + 2 /\ u[1] + 256 * u[2] = b - a
      /\ Payload(u) = Span(a, b)
  BY <1>0, SduProperties
<1>3. all \o rest = u
  BY <1>0
<1>4. /\ Len(input) >= 2 => (all[1] = input[1] /\ all[2] = input[2])
  BY <1>0, <1>1
<1> HIDE DEF u
<1>5. /\ Len(u) = Len(all) + Len(rest) /\ u[1] = all[1] /\ u[2] = all[2] /\ Len(rest) \in Nat
      /\ rest = <<>> => u = all
      /\ rest = <<>> <=> Len(rest) = 0
  <2> HIDE DEF all
  <2>1. Len(all \o rest) = Len(all) + Len(rest) /\ (all \o rest)[1] = all[1]
        /\ (all \o rest)[2] = all[2] /\ Len(rest) \in Nat
    BY <1>0, <1>1
  <2>2. rest = <<>> => all \o rest = all
    BY <1>1, ConcatEmptySeq
  <2>3. rest = <<>> <=> Len(rest) = 0
    BY <1>0, EmptySeq
  <2> QED BY <1>3, <2>1, <2>2, <2>3
<1>6. length = all[1] + 256 * all[2]
  <2>0. length = IF inputLength = -1 /\ Len(all) >= 2
                 THEN all[1] + 256 * all[2] ELSE inputLength
    BY DEF Announced
  <2>1. CASE input = <<>>
    BY <1>1, <2>0, <2>1 DEF LengthKnown
  <2>2. CASE input # <<>>
    <3>1. 2 <= Len(input) /\ inputLength = input[1] + 256 * input[2]
      BY <2>2 DEF LengthKnown
    <3>2. Len(input) \in Nat
      BY <1>1
    <3>3. all[1] = input[1] /\ all[2] = input[2]
      BY <1>4, <3>1, <3>2
    <3>4. input[1] \in Nat /\ input[2] \in Nat
      BY <1>1, <3>1, <3>2
    <3>5. inputLength # -1
      BY <3>1, <3>4
    <3> QED BY <2>0, <3>1, <3>3, <3>5
  <2> QED BY <2>1, <2>2
<1> HIDE DEF all, length
<1>7. length = b - a /\ length \in Nat
  <2>1. u[1] = all[1] /\ u[2] = all[2]
    BY <1>5
  <2>2. length = u[1] + 256 * u[2]
    BY ONLY <1>6, <2>1
  <2>3. length = b - a
    BY ONLY <1>2, <2>2
  <2>4. b - a \in Nat
    BY <1>0
  <2> QED BY ONLY <2>3, <2>4
<1>8. Len(all) + Len(rest) = length + 2
  BY <1>2, <1>5, <1>7
<1>9. Len(all) <= length + 2 /\ (Len(all) = length + 2 <=> rest = <<>>)
  <2> DEFINE p == Len(all)
             r == Len(rest)
  <2>1. p \in Nat /\ r \in Nat /\ length \in Nat /\ p + r = length + 2
    BY <1>1, <1>5, <1>7, <1>8
  <2>2. rest = <<>> <=> r = 0
    BY <1>5
  <2> HIDE DEF p, r
  <2>3. p <= length + 2 /\ (p = length + 2 <=> r = 0)
    BY ONLY <2>1
  <2> QED BY <2>2, <2>3 DEF p
<1>10. rest = <<>> => Payload(all) = Span(a, b)
  BY <1>2, <1>5
<1> QED
  BY <1>1, <1>6, <1>7, <1>7, <1>9, <1>10 DEF Read, all, length

\* `receive_pdu`: the frame is taken, a complete SDU is delivered, and the window
\* is restored.
LEMMA OnKFrameKeeps ==
  ASSUME ChannelInv, OnKFrame
  PROVE  ChannelInv' /\ Moved
<1>1. /\ Typed /\ Conserved /\ FramesIn(forward) \in Nat /\ CreditsIn(backward) \in Nat
  BY InvGives
<1>2. PICK y \in Place(written) : /\ Path(Arrivals(written), forward, Here, y)
                                  /\ GoesOn(y, stream, sdu, peerSize, written)
                                  /\ Path(Asked, backward, y.pending, <<>>)
  BY InvGives
<1> DEFINE m == Head(forward)
           frame == m.bytes
           all == input \o frame
           length == Announced(frame)
           d == Len(delivered)
           left == Charged(peerCredits)
           g == Replenish(left, paused)
<1>3. /\ written \in Nat /\ forward \in Seq(ForwardMsg) /\ credits \in Nat
      /\ peerCredits \in Nat /\ d \in Nat /\ delivered \in Seq(Nat) /\ input \in Seq(Nat)
      /\ peerCredits <= MaxCredits
  BY <1>1 DEF Typed, Conserved
<1>4. /\ forward # <<>> /\ m.type = "kframe" /\ forward' = Tail(forward)
      /\ UNCHANGED <<stream, sdu, credits, peerSize, written>>
      /\ UNCHANGED <<paused, size, pending>>
  BY DEF OnKFrame, sender
<1>5. PICK z : <<Here, m, z>> \in Arrivals(written)
               /\ Path(Arrivals(written), Tail(forward), z, y)
  BY <1>2, <1>3, <1>4, PathTail
<1>6. /\ m \in ForwardMsg /\ Tail(forward) \in Seq(ForwardMsg)
      /\ FramesIn(Tail(forward)) \in Nat /\ FramesIn(forward) = 1 + FramesIn(Tail(forward))
  BY <1>3, <1>4, FramesTail
<1>7. /\ z \in Place(written) /\ TakesFrame(Here, frame, z)
  BY <1>4, <1>5 DEF Arrivals
<1>8. frame \in Seq(Nat)
  <2> HIDE DEF m
  <2> QED BY <1>4, <1>6 DEF ForwardMsg, KFrames
<1>9. /\ Here.got = d /\ Here.input = input /\ Here.size = size /\ Here.pending = pending
  BY <1>1, HereIs
<1> HIDE DEF frame
<1>10. /\ z.size = size /\ z.pending = pending /\ Len(frame) <= Mps(size)
  BY <1>7, <1>9 DEF TakesFrame
<1>11. PICK b \in Nat, rest \in Seq(Nat) :
         /\ d <= b /\ b - d <= Mtu(size)
         /\ 2 <= Len(all) /\ all \o rest = Sdu(d, b)
         /\ z.input = IF rest = <<>> THEN <<>> ELSE all
         /\ z.got = IF rest = <<>> THEN b ELSE d
  BY <1>7, <1>9 DEF TakesFrame
<1>12. /\ all \in Seq(Nat) /\ length = b - d /\ all[1] + 256 * all[2] = length
       /\ Len(all) <= length + 2
       /\ Len(all) = length + 2 <=> rest = <<>>
       /\ rest = <<>> => Payload(all) = Span(d, b)
  <2>1. Continues(frame, rest, d, b)
    BY <1>3, <1>8, <1>11 DEF Continues
  <2>2. LengthKnown
    BY DEF ChannelInv
  <2>3. Read(frame, rest, d, b)
    BY <1>1, <2>1, <2>2, FrameRead
  <2> QED BY <2>3 DEF Read
<1>13. length \in Nat /\ length <= Mtu(size)
  <2> HIDE DEF d, length, all
  <2>1. b - d \in Nat
    BY ONLY <1>3, <1>11
  <2> QED BY <1>11, <1>12, <2>1
<1>14. peerCredits # 0
  <2> DEFINE f == FramesIn(forward)
             c == CreditsIn(backward)
             t == FramesIn(Tail(forward))
  <2>1. (credits + f) + c = peerCredits /\ f = 1 + t /\ t \in Nat /\ c \in Nat
    BY <1>1, <1>6 DEF Conserved
  <2> HIDE DEF f, c, t
  <2> QED BY ONLY <1>3, <2>1
<1>15. Refusal(frame, all, length) = "none"
  <2>1. Len(frame) \in Nat /\ Len(all) \in Nat
    BY <1>8, <1>12
  <2>2. Mps(size) \in Nat /\ Mtu(size) \in Nat
    BY <1>1, ChannelAssumption DEF Typed, Mps, Mtu
  <2>3. ~(Len(frame) > Mps(size)) /\ ~(length > Mtu(size)) /\ ~(Len(all) > length + 2)
    <3> HIDE DEF length, all
    <3> QED BY <1>10, <1>12, <1>13, <2>1, <2>2
  <2> HIDE DEF length, all
  <2> QED BY <1>14, <2>3 DEF Refusal
<1>16. /\ peerCredits' = left + g
       /\ backward' = backward \o Grants(g)
       /\ IF length >= 0 /\ Len(all) = length + 2
          THEN delivered' = delivered \o Payload(all) /\ input' = <<>> /\ inputLength' = -1
          ELSE input' = all /\ inputLength' = length /\ delivered' = delivered
       /\ failed' = failed
  BY <1>15 DEF OnKFrame, frame, Announced
<1>17. length >= 0
  <2> HIDE DEF length
  <2> QED BY <1>13
<1>18. left = peerCredits - 1 /\ left \in Nat /\ left <= MaxCredits
  <2>1. left = peerCredits - 1
    BY DEF Charged
  <2>2. MaxCredits \in Nat
    BY ChannelAssumption
  <2> HIDE DEF left
  <2> QED BY ONLY <1>3, <1>14, <2>1, <2>2
<1>19. g \in 0..MaxCredits /\ g \in Nat /\ left + g <= MaxCredits
  <2> HIDE DEF left
  <2> QED BY <1>18, ReplenishBound
<1> HIDE DEF g, left, length
<1>20. /\ backward' \in Seq(BackwardMsg) /\ CreditsIn(backward') = CreditsIn(backward) + g
       /\ Path(Asked, backward', y.pending, <<>>)
  BY <1>1, <1>2, <1>16, <1>19, GrantsQueued
<1>21. /\ input' = z.input /\ Len(delivered') = z.got /\ delivered' \in Seq(Nat)
       /\ delivered' = Span(0, Len(delivered')) /\ LengthKnown' /\ inputLength' \in Int
       /\ input' \in Seq(Nat)
  <2>0. delivered = Span(0, d)
    BY DEF ChannelInv
  <2>1. CASE rest = <<>>
    <3>1. delivered' = delivered \o Span(d, b) /\ input' = <<>> /\ inputLength' = -1
      BY <1>12, <1>16, <1>17, <2>1
    <3>2. Span(0, d) \o Span(d, b) = Span(0, b)
      <4>1. 0 \in Nat /\ d \in Nat /\ 0 <= d /\ d <= b
        BY <1>3, <1>11
      <4> HIDE DEF d
      <4> QED BY <4>1, SpanConcat
    <3>3. delivered' = Span(0, b)
      BY <2>0, <3>1, <3>2
    <3>4. Span(0, b) \in Seq(Nat) /\ Len(Span(0, b)) = b
      <4>1. b - 0 = b /\ 0 <= b
        OBVIOUS
      <4> QED BY <4>1, SpanProperties
    <3>5. z.input = <<>> /\ z.got = b
      BY <1>11, <2>1
    <3>6. LengthKnown'
      BY <3>1 DEF LengthKnown
    <3> QED BY <3>1, <3>3, <3>4, <3>5, <3>6
  <2>2. CASE rest # <<>>
    <3>1. input' = all /\ inputLength' = length /\ delivered' = delivered
      BY <1>12, <1>16, <2>2
    <3>2. z.input = all /\ z.got = d
      BY <1>11, <2>2
    <3>3. LengthKnown'
      <4> HIDE DEF all
      <4>1. all # <<>>
        BY <1>11, <1>12
      <4> QED BY <1>11, <1>12, <3>1, <4>1 DEF LengthKnown
    <3> QED BY <1>3, <1>12, <1>13, <2>0, <3>1, <3>2, <3>3
  <2> QED BY <2>1, <2>2
<1>22. Here' = z
  <2>1. z = [got |-> z.got, input |-> z.input, size |-> z.size, pending |-> z.pending]
    BY <1>3, <1>7, PlaceIs
  <2> QED BY <1>4, <1>10, <1>21, <2>1 DEF Here
<1>23. Continuous'
  BY <1>2, <1>4, <1>5, <1>20, <1>22 DEF Continuous
<1>24. Len(delivered') <= written'
  BY <1>3, <1>4, <1>7, <1>21, PlaceIs
<1>25. peerCredits' \in Nat
  BY <1>16, <1>18, <1>19
<1>26. Typed' /\ failed' = "none"
  BY <1>1, <1>4, <1>6, <1>16, <1>20, <1>21, <1>24, <1>25 DEF ChannelInv, Typed
<1>27. Moved
  <2> DEFINE f == FramesIn(forward)
             ff == FramesIn(forward')
  <2>1. f = 1 + ff /\ ff \in Nat /\ f \in Nat
    BY <1>1, <1>4, <1>6
  <2> HIDE DEF f, ff
  <2>2. /\ 1 <= f /\ 1 <= peerCredits /\ (peerCredits - 1) + g <= MaxCredits
        /\ ff = f - 1 /\ peerCredits' = (peerCredits - 1) + g /\ 1 \in 0..1
    BY <1>3, <1>14, <1>16, <1>18, <1>19, <2>1
  <2> QED BY <1>4, <1>19, <1>20, <2>2 DEF Moved, f, ff
<1>28. Conserved'
  BY <1>1, <1>27, MovedConserves
<1> QED
  BY <1>21, <1>23, <1>26, <1>27, <1>28 DEF ChannelInv

-----------------------------------------------------------------------------
(* The theorems *)

\* A channel just connected has nothing under way and all its credits.
LEMMA InitChannelInv == Init => ChannelInv
<1> SUFFICES ASSUME Init PROVE ChannelInv
  OBVIOUS
<1>1. InitialSize \in Sizes /\ MaxCredits \in Nat
  BY ChannelAssumption
<1>2. FramesIn(forward) = 0 /\ CreditsIn(backward) = 0
  BY FramesFew, GrantsFew DEF Init
<1>3. Typed
  <2>1. /\ <<>> \in Seq(Nat) /\ <<>> \in Seq(Sizes) /\ <<>> \in Seq(ForwardMsg)
        /\ <<>> \in Seq(BackwardMsg) /\ Len(<<>>) = 0 /\ -1 \in Int
    OBVIOUS
  <2>2. /\ stream \in Seq(Nat) /\ sdu \in Seq(Nat) /\ input \in Seq(Nat)
        /\ delivered \in Seq(Nat) /\ pending \in Seq(Sizes)
        /\ forward \in Seq(ForwardMsg) /\ backward \in Seq(BackwardMsg)
    BY <2>1 DEF Init
  <2>3. /\ credits \in Nat /\ peerSize \in Sizes /\ inputLength \in Int
        /\ peerCredits \in Nat /\ size \in Sizes /\ written \in Nat
        /\ Len(delivered) <= written
    BY <1>1, <2>1 DEF Init
  <2>4. paused \in BOOLEAN
    BY DEF Init
  <2> QED BY <2>2, <2>3, <2>4 DEF Typed
<1>4. Conserved
  <2> DEFINE f == FramesIn(forward)
             c == CreditsIn(backward)
  <2>1. f = 0 /\ c = 0 /\ credits = MaxCredits /\ peerCredits = MaxCredits
    BY <1>2 DEF Init
  <2> HIDE DEF f, c
  <2>2. (credits + f) + c = peerCredits /\ peerCredits <= MaxCredits
    BY <1>1, <2>1
  <2> QED BY <2>2 DEF Conserved, f, c
<1>5. Span(0, 0) = <<>> /\ Len(<<>>) = 0
  <2>1. 0 \in Nat /\ 0 <= 0
    OBVIOUS
  <2> QED BY <2>1, SpanProperties
<1>6. LengthKnown /\ delivered = Span(0, Len(delivered)) /\ failed = "none"
  BY <1>5 DEF Init, LengthKnown
<1>7. Continuous
  <2>1. /\ Here \in Place(written) /\ Here.got = 0 /\ Here.input = <<>>
        /\ Here.size = peerSize /\ Here.pending = <<>>
    BY <1>3, <1>5, HereIs DEF Init
  <2>2. Path(Arrivals(written), forward, Here, Here) /\ Path(Asked, backward, <<>>, <<>>)
    BY PathFew DEF Init
  <2>3. GoesOn(Here, stream, sdu, peerSize, written)
    <3>1. stream = <<>> /\ sdu = <<>> /\ written = 0
      BY DEF Init
    <3> HIDE DEF Here
    <3> QED BY <1>5, <2>1, <3>1 DEF GoesOn
  <2>4. Path(Asked, backward, Here.pending, <<>>)
    BY <2>1, <2>2
  <2> QED BY <2>1, <2>2, <2>3, <2>4 DEF Continuous
<1> QED
  BY <1>3, <1>4, <1>6, <1>7 DEF ChannelInv

\* Every step keeps the invariant and is one of `CreditFlow`.
LEMMA NextKeeps == ChannelInv /\ [Next]_vars => ChannelInv' /\ Moved
<1> SUFFICES ASSUME ChannelInv, [Next]_vars PROVE ChannelInv' /\ Moved
  OBVIOUS
<1>1. CASE \E n \in 1..MaxWrite : Write(n)
  <2>1. PICK n \in 1..MaxWrite : Write(n)
    BY <1>1
  <2>2. n \in Nat
    BY ChannelAssumption
  <2> QED BY <2>1, <2>2, WriteKeeps
<1>2. CASE OnGrant
  BY <1>2, OnGrantKeeps
<1>3. CASE OnReconfigureRequest
  BY <1>3, OnReconfigureRequestKeeps
<1>4. CASE OnKFrame
  BY <1>4, OnKFrameKeeps
<1>5. CASE Pause
  BY <1>5, PauseKeeps
<1>6. CASE Resume
  BY <1>6, ResumeKeeps
<1>7. CASE \E s \in Sizes : Reconfigure(s)
  BY <1>7, ReconfigureKeeps
<1>8. CASE OnReconfigureResponse
  BY <1>8, OnReconfigureResponseKeeps
<1>9. CASE UNCHANGED vars
  <2>1. /\ UNCHANGED <<stream, sdu, credits, peerSize, written>>
        /\ UNCHANGED <<input, inputLength, peerCredits, paused, size, pending, failed,
                       delivered, forward, backward>>
    BY <1>9 DEF vars, sender, receiver
  <2>2. Here' = Here
    BY <2>1 DEF Here
  <2>3. Typed' /\ Conserved' /\ LengthKnown' /\ Continuous'
        /\ delivered' = Span(0, Len(delivered')) /\ failed' = "none"
    BY <2>1, <2>2 DEF ChannelInv, Typed, Conserved, LengthKnown, Continuous
  <2>4. Moved
    BY <2>1, StillMoved DEF ChannelInv
  <2> QED BY <2>3, <2>4 DEF ChannelInv
<1> QED
  BY <1>1, <1>2, <1>3, <1>4, <1>5, <1>6, <1>7, <1>8, <1>9 DEF Next

\* ChannelInv holds throughout.
THEOREM ChannelInvariant == Spec => []ChannelInv
BY InitChannelInv, NextKeeps, PTL DEF Spec

\* Whatever is written, granted, paused and renegotiated, and however small the
\* window and the sizes: `receive_pdu` hands over exactly the bytes written, in
\* order, and never refuses a frame of a conforming peer.
THEOREM ChannelIsFaithful == Spec => []Faithful
<1>1. ChannelInv => Faithful
  BY DEF ChannelInv, Typed, Faithful, InOrder, NothingRefused
<1> QED
  BY <1>1, ChannelInvariant, PTL

\* Each direction of a channel implements `CreditFlow`, so its window covers all
\* that is under way, for all windows.
THEOREM ChannelImplementsFlow == Spec => ImplementsFlow
<1>1. Init => Flow!Init
  BY FramesFew, GrantsFew DEF Init, Flow!Init
<1>2. ASSUME ChannelInv, Moved
      PROVE  [Flow!Next]_Flow!vars
  <2>1. /\ credits \in Nat /\ peerCredits \in Nat /\ FramesIn(forward) \in Nat
        /\ CreditsIn(backward) \in Nat
    BY <1>2, InvGives DEF Typed
  <2>2. CASE \E n \in Nat, k \in Nat :
               /\ n <= CreditsIn(backward) /\ k <= credits + n
               /\ CreditsIn(backward') = CreditsIn(backward) - n
               /\ credits' = (credits + n) - k
               /\ FramesIn(forward') = FramesIn(forward) + k
               /\ peerCredits' = peerCredits
    <3>1. PICK n \in Nat, k \in Nat :
               /\ n <= CreditsIn(backward) /\ k <= credits + n
               /\ CreditsIn(backward') = CreditsIn(backward) - n
               /\ credits' = (credits + n) - k
               /\ FramesIn(forward') = FramesIn(forward) + k
               /\ peerCredits' = peerCredits
      BY <2>2
    <3>2. n \in 0..CreditsIn(backward) /\ k \in 0..(credits + n)
          /\ (credits + n) - k = credits + n - k
      BY ONLY <2>1, <3>1
    <3>3. Flow!Sender(n, k)
      BY <3>1, <3>2 DEF Flow!Sender
    <3> QED BY <3>2, <3>3 DEF Flow!Next
  <2>3. CASE \E r \in 0..1, g \in 0..MaxCredits :
               /\ r <= FramesIn(forward) /\ r <= peerCredits
               /\ (peerCredits - r) + g <= MaxCredits
               /\ FramesIn(forward') = FramesIn(forward) - r
               /\ CreditsIn(backward') = CreditsIn(backward) + g
               /\ peerCredits' = (peerCredits - r) + g
               /\ credits' = credits
    <3>1. PICK r \in 0..1, g \in 0..MaxCredits : Flow!Receiver(r, g)
      BY <2>3 DEF Flow!Receiver
    <3> QED BY <3>1 DEF Flow!Next
  <2> QED BY <1>2, <2>2, <2>3 DEF Moved
<1>3. ChannelInv /\ [Next]_vars => [Flow!Next]_Flow!vars
  BY <1>2, NextKeeps
<1> QED
  BY <1>1, <1>3, ChannelInvariant, PTL DEF Spec, ImplementsFlow, Flow!Spec
=============================================================================

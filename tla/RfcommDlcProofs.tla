--------------------------- MODULE RfcommDlcProofs ---------------------------
(***************************************************************************)
(* Proofs about an open RFCOMM data link, for every window, frame size and *)
(* amount of data: credits are conserved, both directions implement        *)
(* CreditFlow, the bytes arrive in order, and a paused reader is not sent  *)
(* more than it allowed.                                                   *)
(***************************************************************************)
EXTENDS RfcommDlc, TLAPS

\* What the fields of the code can carry: a grant is one octet, the counters are
\* 16 bits wide, and a frame has room for a byte beside the credit octet.
Fits ==
  /\ Mtu > 1
  /\ MaxCredits < 256
  /\ \A l \in Limits : l[1] < 256
  /\ \A e \in Ends : InitialCredits[e] < CounterSize

Frame == [credit : -1..255, bytes : Seq(Nat)]

\* pos[i] is the last byte in the first i frames, which carry the bytes after a
\* up to b.
Cuts(pos, frames, a, b) ==
  /\ pos \in [0..Len(frames) -> Nat]
  /\ pos[0] = a /\ pos[Len(frames)] = b
  /\ \A i \in 1..Len(frames) : /\ pos[i - 1] <= pos[i] /\ pos[i] <= b
                               /\ frames[i].bytes = Span(pos[i - 1], pos[i])

Carries(frames, a, b) == \E pos : Cuts(pos, frames, a, b)

-----------------------------------------------------------------------------
(* Queues of frames *)

CreditWeight == [f \in Frame |-> CreditOf(f)]
DataWeight == [f \in Frame |-> IF IsData(f) THEN 1 ELSE 0]

\* A frame grants at most what its credit octet can say.
LEMMA CreditType == \A f \in Frame : CreditOf(f) \in 0..255 /\ CreditOf(f) \in Nat
<1> TAKE f \in Frame
<1>1. f.credit \in -1..255
  BY DEF Frame
<1>2. f.credit = -1 \/ f.credit \in 0..255
  BY <1>1
<1> QED
  BY <1>2 DEF CreditOf

\* CreditsIn and DataIn as sums over a queue.
LEMMA Counts ==
  ASSUME NEW s \in Seq(Frame)
  PROVE  /\ CreditsIn(s) = Weight(CreditWeight, s) /\ CreditsIn(s) \in Nat
         /\ DataIn(s) = Weight(DataWeight, s) /\ DataIn(s) \in Nat
<1>1. CreditWeight \in [Frame -> Nat] /\ DataWeight \in [Frame -> Nat]
  BY CreditType DEF CreditWeight, DataWeight
<1>2. \A i \in 1..Len(s) : s[i] \in Frame
  BY ElementOfSeq
<1>3. Weights(CreditWeight, s) = [i \in 1..Len(s) |-> CreditOf(s[i])]
  BY <1>2 DEF Weights, CreditWeight
<1>4. Weights(DataWeight, s) = [i \in 1..Len(s) |-> IF IsData(s[i]) THEN 1 ELSE 0]
  BY <1>2 DEF Weights, DataWeight
<1>5. CreditsIn(s) = Weight(CreditWeight, s)
  BY <1>3 DEF CreditsIn, Weight
<1>6. DataIn(s) = Weight(DataWeight, s)
  BY <1>4 DEF DataIn, Weight
<1>7. Weight(CreditWeight, s) \in Nat
  BY <1>1, WeightType
<1>8. Weight(DataWeight, s) \in Nat
  BY <1>1, WeightType
<1> QED
  BY <1>5, <1>6, <1>7, <1>8

\* Queueing frames adds up their credits and their data.
LEMMA CountsConcat ==
  ASSUME NEW s \in Seq(Frame), NEW t \in Seq(Frame)
  PROVE  /\ CreditsIn(s \o t) = CreditsIn(s) + CreditsIn(t)
         /\ DataIn(s \o t) = DataIn(s) + DataIn(t)
<1>1. CreditWeight \in [Frame -> Nat] /\ DataWeight \in [Frame -> Nat]
  BY CreditType DEF CreditWeight, DataWeight
<1>2. s \o t \in Seq(Frame)
  OBVIOUS
<1>3. Weight(CreditWeight, s \o t) = Weight(CreditWeight, s) + Weight(CreditWeight, t)
  BY <1>1, WeightConcat
<1>4. Weight(DataWeight, s \o t) = Weight(DataWeight, s) + Weight(DataWeight, t)
  BY <1>1, WeightConcat
<1> QED
  BY <1>2, <1>3, <1>4, Counts

\* Taking in a frame takes in its credits and its data.
LEMMA CountsTail ==
  ASSUME NEW s \in Seq(Frame), s # <<>>
  PROVE  /\ Head(s) \in Frame /\ Tail(s) \in Seq(Frame)
         /\ CreditOf(Head(s)) \in 0..255
         /\ CreditsIn(s) = CreditOf(Head(s)) + CreditsIn(Tail(s))
         /\ DataIn(s) = (IF IsData(Head(s)) THEN 1 ELSE 0) + DataIn(Tail(s))
<1>1. CreditWeight \in [Frame -> Nat] /\ DataWeight \in [Frame -> Nat]
  BY CreditType DEF CreditWeight, DataWeight
<1>2. Head(s) \in Frame /\ Tail(s) \in Seq(Frame)
  BY HeadTailProperties
<1>3. Weight(CreditWeight, s) = CreditWeight[Head(s)] + Weight(CreditWeight, Tail(s))
  BY <1>1, WeightTail
<1>4. Weight(DataWeight, s) = DataWeight[Head(s)] + Weight(DataWeight, Tail(s))
  BY <1>1, WeightTail
<1>5. CreditWeight[Head(s)] = CreditOf(Head(s))
  BY <1>2 DEF CreditWeight
<1>6. DataWeight[Head(s)] = IF IsData(Head(s)) THEN 1 ELSE 0
  BY <1>2 DEF DataWeight
<1>7. CreditOf(Head(s)) \in 0..255
  BY <1>2, CreditType
<1> QED
  BY <1>2, <1>3, <1>4, <1>5, <1>6, <1>7, Counts

\* One frame, and frames without a grant that all carry data.
LEMMA CountsFew ==
  /\ CreditsIn(<<>>) = 0 /\ DataIn(<<>>) = 0
  /\ \A f \in Frame : /\ CreditsIn(<<f>>) = CreditOf(f)
                      /\ DataIn(<<f>>) = IF IsData(f) THEN 1 ELSE 0
  /\ \A s \in Seq(Frame) :
       (\A i \in 1..Len(s) : s[i].credit = -1 /\ s[i].bytes # <<>>) =>
         CreditsIn(s) = 0 /\ DataIn(s) = Len(s)
<1>1. CreditWeight \in [Frame -> Nat] /\ DataWeight \in [Frame -> Nat]
  BY CreditType DEF CreditWeight, DataWeight
<1>2. CreditsIn(<<>>) = 0 /\ DataIn(<<>>) = 0
  <2>1. <<>> \in Seq(Frame)
    OBVIOUS
  <2> QED BY <1>1, <2>1, Counts, WeightFew
<1>3. ASSUME NEW f \in Frame
      PROVE  CreditsIn(<<f>>) = CreditOf(f) /\ DataIn(<<f>>) = IF IsData(f) THEN 1 ELSE 0
  <2>1. <<f>> \in Seq(Frame)
    OBVIOUS
  <2>2. Weight(CreditWeight, <<f>>) = CreditWeight[f]
    BY <1>1, WeightFew
  <2>3. Weight(DataWeight, <<f>>) = DataWeight[f]
    BY <1>1, WeightFew
  <2> QED BY <2>1, <2>2, <2>3, Counts DEF CreditWeight, DataWeight
<1>4. ASSUME NEW s \in Seq(Frame),
             \A i \in 1..Len(s) : s[i].credit = -1 /\ s[i].bytes # <<>>
      PROVE  CreditsIn(s) = 0 /\ DataIn(s) = Len(s)
  <2>1. \A i \in 1..Len(s) : s[i] \in Frame
    BY ElementOfSeq
  <2>2. \A i \in 1..Len(s) : CreditWeight[s[i]] = 0
    BY <1>4, <2>1 DEF CreditWeight, CreditOf
  <2>3. \A i \in 1..Len(s) : DataWeight[s[i]] = 1
    BY <1>4, <2>1 DEF DataWeight, IsData
  <2>4. Weight(CreditWeight, s) = 0
    BY <1>1, <2>2, WeightConstant
  <2>5. Weight(DataWeight, s) = Len(s)
    BY <1>1, <2>3, WeightConstant
  <2> QED BY <2>4, <2>5, Counts
<1> QED
  BY <1>2, <1>3, <1>4

-----------------------------------------------------------------------------
(* Bytes in frames *)

\* No frames, no bytes; one frame, its bytes.
LEMMA CarriesFew ==
  ASSUME NEW a \in Nat, NEW b \in Nat, a <= b
  PROVE  /\ Carries(<<>>, a, a)
         /\ \A c : Carries(<<Uih(c, Span(a, b))>>, a, b)
<1>1. Cuts([i \in 0..0 |-> a], <<>>, a, a)
  BY DEF Cuts
<1>2. ASSUME NEW c PROVE Carries(<<Uih(c, Span(a, b))>>, a, b)
  <2> DEFINE s == <<Uih(c, Span(a, b))>>
             pos == [i \in 0..1 |-> IF i = 0 THEN a ELSE b]
  <2>1. Len(s) = 1 /\ s[1].bytes = Span(a, b)
    BY DEF Uih
  <2>2. pos \in [0..1 -> Nat] /\ pos[0] = a /\ pos[1] = b
    OBVIOUS
  <2> HIDE DEF s, pos
  <2>3. Cuts(pos, s, a, b)
    BY <2>1, <2>2 DEF Cuts
  <2> QED BY <2>3 DEF Carries, s
<1> QED
  BY <1>1, <1>2 DEF Carries

\* Frames queued after others carry on where those end.
LEMMA CarriesConcat ==
  ASSUME NEW s \in Seq(Frame), NEW t \in Seq(Frame), NEW a, NEW b, NEW c,
         Carries(s, a, b), Carries(t, b, c)
  PROVE  Carries(s \o t, a, c)
<1>1. PICK p : Cuts(p, s, a, b)
  BY DEF Carries
<1>2. PICK q : Cuts(q, t, b, c)
  BY DEF Carries
<1> DEFINE u == s \o t
           m == Len(s)
           k == Len(t)
           r == [i \in 0..(m + k) |-> IF i <= m THEN p[i] ELSE q[i - m]]
<1>3. /\ u \in Seq(Frame) /\ Len(u) = m + k /\ m \in Nat /\ k \in Nat
      /\ \A i \in 1..(m + k) : u[i] = IF i <= m THEN s[i] ELSE t[i - m]
  BY ConcatProperties
<1>4. /\ p \in [0..m -> Nat] /\ p[0] = a /\ p[m] = b
      /\ \A i \in 1..m : p[i - 1] <= p[i] /\ p[i] <= b /\ s[i].bytes = Span(p[i - 1], p[i])
  BY <1>1 DEF Cuts
<1>5. /\ q \in [0..k -> Nat] /\ q[0] = b /\ q[k] = c
      /\ \A i \in 1..k : q[i - 1] <= q[i] /\ q[i] <= c /\ t[i].bytes = Span(q[i - 1], q[i])
  BY <1>2 DEF Cuts
<1> HIDE DEF u, m, k
<1>6. b \in Nat /\ c \in Nat /\ b <= c
  <2>1. b \in Nat /\ c \in Nat
    BY <1>3, <1>4, <1>5
  <2>2. CASE k = 0
    BY <1>5, <2>1, <2>2
  <2>3. CASE k > 0
    <3>1. q[0] <= q[1] /\ q[1] <= c /\ q[1] \in Nat
      BY <1>3, <1>5, <2>3
    <3> QED BY <1>5, <2>1, <3>1
  <2> QED BY <1>3, <2>1, <2>2, <2>3
<1>7. /\ \A i \in 0..m : r[i] = p[i] /\ r[i] \in Nat
      /\ \A i \in m..(m + k) : r[i] = q[i - m] /\ r[i] \in Nat
  <2>1. ASSUME NEW i \in 0..m PROVE r[i] = p[i] /\ r[i] \in Nat
    BY <1>3, <1>4
  <2>2. ASSUME NEW i \in m..(m + k) PROVE r[i] = q[i - m] /\ r[i] \in Nat
    <3>1. CASE i = m
      <4>1. i - m = 0 /\ m \in 0..m
        BY <1>3, <3>1
      <4> QED BY <1>4, <1>5, <1>6, <2>1, <3>1, <4>1
    <3>2. CASE i > m
      <4>1. i \in 0..(m + k) /\ ~(i <= m) /\ i - m \in 0..k
        BY <1>3, <3>2
      <4> QED BY <1>5, <4>1
    <3> QED BY <1>3, <3>1, <3>2
  <2> QED BY <2>1, <2>2
<1>8. r \in [0..(m + k) -> Nat]
  <2>1. \A i \in 0..(m + k) : i \in 0..m \/ i \in m..(m + k)
    BY <1>3
  <2>2. \A i \in 0..(m + k) : r[i] \in Nat
    BY <1>7, <2>1
  <2>3. r = [i \in 0..(m + k) |-> r[i]]
    OBVIOUS
  <2> HIDE DEF r
  <2> QED BY <2>2, <2>3
<1> HIDE DEF r
<1>9. r[0] = a /\ r[m + k] = c
  <2>1. 0 \in 0..m /\ m + k \in m..(m + k) /\ (m + k) - m = k
    BY <1>3
  <2> QED BY <1>4, <1>5, <1>7, <2>1
<1>10. ASSUME NEW i \in 1..(m + k)
       PROVE  r[i - 1] <= r[i] /\ r[i] <= c /\ u[i].bytes = Span(r[i - 1], r[i])
  <2>1. CASE i <= m
    <3>1. i \in 1..m /\ i \in 0..m /\ i - 1 \in 0..m
      BY <1>3, <2>1
    <3>2. r[i] = p[i] /\ r[i - 1] = p[i - 1] /\ u[i] = s[i] /\ r[i] \in Nat
      BY <1>3, <1>7, <2>1, <3>1
    <3>3. p[i - 1] <= p[i] /\ p[i] <= b /\ s[i].bytes = Span(p[i - 1], p[i])
      BY <1>4, <3>1
    <3> QED BY <1>6, <3>2, <3>3
  <2>2. CASE i > m
    <3>1. /\ i \in m..(m + k) /\ i - 1 \in m..(m + k) /\ ~(i <= m)
          /\ i - m \in 1..k /\ (i - 1) - m = (i - m) - 1
      BY <1>3, <2>2
    <3>2. r[i] = q[i - m] /\ r[i - 1] = q[(i - m) - 1] /\ u[i] = t[i - m]
      BY <1>3, <1>7, <3>1
    <3>3. /\ q[(i - m) - 1] <= q[i - m] /\ q[i - m] <= c
          /\ t[i - m].bytes = Span(q[(i - m) - 1], q[i - m])
      BY <1>5, <3>1
    <3> QED BY <3>2, <3>3
  <2>3. i <= m \/ i > m
    BY <1>3
  <2> QED BY <2>1, <2>2, <2>3
<1>11. Cuts(r, u, a, c)
  BY <1>3, <1>8, <1>9, <1>10 DEF Cuts
<1> QED
  BY <1>11 DEF Carries, u

\* The first frame carries the next bytes, the others what follows.
LEMMA CarriesTail ==
  ASSUME NEW s \in Seq(Frame), s # <<>>, NEW a, NEW c, Carries(s, a, c)
  PROVE  /\ a \in Nat /\ c \in Nat
         /\ \E b \in Nat : /\ a <= b /\ b <= c
                           /\ Head(s).bytes = Span(a, b)
                           /\ Carries(Tail(s), b, c)
<1>1. PICK p : Cuts(p, s, a, c)
  BY DEF Carries
<1> DEFINE m == Len(s)
           q == [i \in 0..(m - 1) |-> p[i + 1]]
<1>2. /\ m \in Nat \ {0} /\ Head(s) = s[1] /\ Len(Tail(s)) = m - 1
      /\ \A i \in 1..(m - 1) : Tail(s)[i] = s[i + 1]
  BY EmptySeq, HeadTailProperties
<1>3. /\ p \in [0..m -> Nat] /\ p[0] = a /\ p[m] = c
      /\ \A i \in 1..m : p[i - 1] <= p[i] /\ p[i] <= c /\ s[i].bytes = Span(p[i - 1], p[i])
  BY <1>1 DEF Cuts
<1> HIDE DEF m
<1>4. q \in [0..(m - 1) -> Nat] /\ q[0] = p[1] /\ q[m - 1] = p[m]
  <2>1. \A i \in 0..(m - 1) : i + 1 \in 0..m /\ p[i + 1] \in Nat
    BY <1>2, <1>3
  <2>2. q \in [0..(m - 1) -> Nat]
    BY <2>1
  <2>3. 0 \in 0..(m - 1) /\ m - 1 \in 0..(m - 1) /\ (m - 1) + 1 = m /\ 0 + 1 = 1
    BY <1>2
  <2>4. q[0] = p[0 + 1] /\ q[m - 1] = p[(m - 1) + 1]
    BY <2>3
  <2> QED BY <2>2, <2>3, <2>4
<1>5. ASSUME NEW i \in 1..(m - 1)
      PROVE  q[i - 1] <= q[i] /\ q[i] <= c /\ Tail(s)[i].bytes = Span(q[i - 1], q[i])
  <2>1. i \in 0..(m - 1) /\ i - 1 \in 0..(m - 1) /\ i + 1 \in 1..m /\ (i - 1) + 1 = (i + 1) - 1
    BY <1>2
  <2>2. q[i] = p[i + 1] /\ q[i - 1] = p[(i + 1) - 1]
    BY <2>1
  <2>3. Tail(s)[i] = s[i + 1]
    BY <1>2
  <2> HIDE DEF q
  <2> QED BY <1>3, <2>1, <2>2, <2>3
<1> HIDE DEF q
<1>6. Cuts(q, Tail(s), p[1], c)
  BY <1>2, <1>3, <1>4, <1>5 DEF Cuts
<1>7. /\ p[1] \in Nat /\ a \in Nat /\ c \in Nat
      /\ a <= p[1] /\ p[1] <= c /\ Head(s).bytes = Span(a, p[1])
  <2>1. 1 \in 1..m /\ 1 \in 0..m /\ 0 \in 0..m /\ m \in 0..m /\ 1 - 1 = 0
    BY <1>2
  <2> QED BY <1>2, <1>3, <2>1
<1> QED
  BY <1>6, <1>7 DEF Carries

\* A number that fits in a field is not changed by it (`as u8`, `as u16`).
LEMMA NotCut ==
  ASSUME NEW n \in Nat, NEW m \in Nat, n < m
  PROVE  n % m = n
OBVIOUS

\* The frames `process_tx` makes of a buffer without granting credits: none is
\* empty, none needs a credit the end does not have, and together with what stays
\* in the buffer they carry the buffer.
LEMMA PlainFramesCarry ==
  ASSUME NEW a \in Nat, NEW b \in Nat, a <= b, NEW n \in Nat
  PROVE  LET buffer == Span(a, b)
             fs == PlainFrames(buffer, n)
             c == a + Cut(buffer, Len(fs))
         IN /\ fs \in Seq(Frame) /\ Len(fs) <= n
            /\ \A i \in 1..Len(fs) : fs[i].credit = -1 /\ fs[i].bytes # <<>>
            /\ c \in a..b /\ Drop(buffer, Cut(buffer, Len(fs))) = Span(c, b)
            /\ Carries(fs, a, c)
<1> DEFINE buffer == Span(a, b)
           L == b - a
           k == Least(Pieces(buffer), n)
           cut(i) == Cut(buffer, i)
           fs == PlainFrames(buffer, n)
           pos == [i \in 0..k |-> a + cut(i)]
<1>1. Mtu \in Nat \ {0} /\ L \in Nat /\ Len(buffer) = L
  BY DlcAssumption, SpanProperties
<1>2. Pieces(buffer) \in Nat /\ k \in Nat /\ k <= n /\ k <= Pieces(buffer)
  BY <1>1 DEF Pieces, Least
<1>3. \A i \in Nat : cut(i) \in 0..L /\ cut(i) = IF i * Mtu < L THEN i * Mtu ELSE L
  BY <1>1 DEF Cut, Least
<1>4. \A i \in 1..k : i - 1 \in Nat /\ i \in Nat /\ cut(i - 1) < cut(i)
  <2> TAKE i \in 1..k
  <2>1. i - 1 \in Nat /\ i \in Nat /\ i <= Pieces(buffer)
    BY <1>2
  <2>2. Pieces(buffer) = (L + Mtu - 1) \div Mtu
    BY <1>1 DEF Pieces
  <2>3. (i - 1) * Mtu < L
    <3>1. i \in 1..((L + Mtu - 1) \div Mtu)
      BY <1>1, <2>1, <2>2
    <3> HIDE DEF L
    <3> QED BY <1>1, <3>1
  <2>4. (i - 1) * Mtu < i * Mtu /\ (i - 1) * Mtu \in Nat /\ i * Mtu \in Nat
    BY <1>1, <2>1
  <2> HIDE DEF L, cut, buffer
  <2> QED BY <1>1, <1>3, <2>1, <2>3, <2>4
<1>5. /\ fs = [i \in 1..k |-> Uih(-1, SubSeq(buffer, cut(i - 1) + 1, cut(i)))]
  BY DEF PlainFrames
<1>6. \A i \in 1..k : SubSeq(buffer, cut(i - 1) + 1, cut(i)) = Span(a + cut(i - 1), a + cut(i))
  <2> TAKE i \in 1..k
  <2> DEFINE x == cut(i - 1)
             y == cut(i)
  <2>1. x \in 0..(b - a) /\ y \in x..(b - a)
    BY <1>1, <1>3, <1>4
  <2> HIDE DEF x, y
  <2>2. SubSeq(buffer, x + 1, y) = Span(a + x, a + y)
    BY <2>1, SpanPart
  <2> QED BY <2>2 DEF x, y
<1> HIDE DEF fs, buffer, cut, L
<1>7. /\ pos \in [0..k -> Nat]
      /\ \A i \in 0..k : pos[i] = a + cut(i) /\ pos[i] \in Nat /\ pos[i] <= b
  <2>1. \A i \in 0..k : i \in Nat
    BY <1>2
  <2>2. \A i \in Nat : a + cut(i) \in Nat /\ a + cut(i) <= b
    <3> TAKE i \in Nat
    <3>1. cut(i) \in 0..(b - a)
      BY <1>3 DEF L
    <3> QED BY <3>1
  <2> HIDE DEF k
  <2> QED BY <2>1, <2>2
<1>8. cut(0) = 0
  BY <1>1, <1>3
<1>9. \A i \in 1..k : /\ pos[i - 1] < pos[i] /\ pos[i] \in Nat /\ pos[i - 1] \in Nat
                      /\ fs[i] = Uih(-1, Span(pos[i - 1], pos[i]))
  <2> TAKE i \in 1..k
  <2>1. i \in 0..k /\ i - 1 \in 0..k
    BY <1>2
  <2>2. pos[i] = a + cut(i) /\ pos[i - 1] = a + cut(i - 1) /\ pos[i - 1] \in Nat /\ pos[i] \in Nat
    BY <1>7, <2>1
  <2>3. cut(i - 1) < cut(i) /\ cut(i) \in 0..L /\ cut(i - 1) \in 0..L
    BY <1>3, <1>4
  <2>4. fs[i] = Uih(-1, Span(a + cut(i - 1), a + cut(i)))
    BY <1>5, <1>6
  <2> HIDE DEF pos
  <2> QED BY <1>1, <2>2, <2>3, <2>4
<1> HIDE DEF pos, k
<1>10. /\ fs \in Seq(Frame) /\ Len(fs) = k
       /\ \A i \in 1..k : fs[i].credit = -1 /\ fs[i].bytes # <<>>
                            /\ fs[i].bytes = Span(pos[i - 1], pos[i])
  <2>1. \A i \in 1..k : /\ Span(pos[i - 1], pos[i]) \in Seq(Nat)
                        /\ Span(pos[i - 1], pos[i]) # <<>>
    <3> TAKE i \in 1..k
    <3> DEFINE x == pos[i - 1]
               y == pos[i]
    <3>1. x \in Nat /\ y \in Nat /\ x < y /\ x <= y
      BY <1>9
    <3> HIDE DEF x, y
    <3>2. Span(x, y) \in Seq(Nat) /\ (Span(x, y) = <<>> <=> x = y)
      BY <3>1, SpanProperties
    <3>3. Span(x, y) # <<>>
      BY <3>1, <3>2
    <3> QED BY <3>2, <3>3 DEF x, y
  <2>2. \A i \in 1..k : fs[i] \in Frame /\ fs[i].credit = -1
                           /\ fs[i].bytes = Span(pos[i - 1], pos[i])
    <3> TAKE i \in 1..k
    <3> DEFINE bytes == Span(pos[i - 1], pos[i])
    <3>1. fs[i] = Uih(-1, bytes) /\ bytes \in Seq(Nat)
      BY <1>9, <2>1
    <3> HIDE DEF bytes
    <3>2. fs[i] = [credit |-> -1, bytes |-> bytes]
      BY <3>1 DEF Uih
    <3> QED BY <3>1, <3>2 DEF Frame, bytes
  <2>3. fs = [i \in 1..k |-> fs[i]]
    BY <1>5
  <2>4. fs \in Seq(Frame) /\ Len(fs) = k
    BY <1>2, <2>2, <2>3
  <2> QED BY <2>1, <2>2, <2>4
<1>11. \A i \in 1..k : pos[i] <= pos[k]
  <2> TAKE i \in 1..k
  <2>1. i \in Nat /\ k \in Nat /\ i <= k
    BY <1>2
  <2>2. i * Mtu <= k * Mtu /\ i * Mtu \in Nat /\ k * Mtu \in Nat
    BY <1>1, <2>1
  <2>3. cut(i) <= cut(k) /\ cut(i) \in Nat /\ cut(k) \in Nat
    <3>1. cut(i) \in 0..L /\ cut(i) = IF i * Mtu < L THEN i * Mtu ELSE L
      BY <1>3, <2>1
    <3>2. cut(k) \in 0..L /\ cut(k) = IF k * Mtu < L THEN k * Mtu ELSE L
      BY <1>3, <2>1
    <3> QED BY <1>1, <2>2, <3>1, <3>2
  <2>4. i \in 0..k /\ k \in 0..k
    BY <2>1
  <2>5. pos[i] = a + cut(i) /\ pos[k] = a + cut(k)
    BY <1>7, <2>4
  <2> QED BY <2>3, <2>5
<1>12. pos[0] = a /\ pos[k] = a + cut(k)
  <2>1. 0 \in 0..k /\ k \in 0..k
    BY <1>2
  <2> QED BY <1>7, <1>8, <2>1
<1>13. Cuts(pos, fs, a, a + cut(k))
  <2>1. \A i \in 1..k : pos[i - 1] <= pos[i]
    BY <1>9
  <2> QED BY <1>7, <1>10, <1>11, <1>12, <2>1 DEF Cuts
<1>14. Drop(buffer, cut(k)) = Span(a + cut(k), b)
  <2>1. cut(k) \in 0..L /\ L \in cut(k)..L
    BY <1>1, <1>2, <1>3
  <2>2. SubSeq(Span(a, b), cut(k) + 1, L) = Span(a + cut(k), a + L)
    BY <2>1, SpanPart DEF L
  <2>3. a + L = b
    BY DEF L
  <2> QED BY <1>1, <2>2, <2>3 DEF Drop, buffer
<1>15. a + cut(k) \in a..b
  <2>1. cut(k) \in 0..(b - a)
    BY <1>2, <1>3 DEF L
  <2> QED BY <2>1
<1> QED
  BY <1>2, <1>10, <1>13, <1>14, <1>15 DEF Carries, fs, buffer, cut

\* What `process_tx` did: it sent the frames fs, which grant what was needed and
\* carry the bytes up to c, and spent k credits, one for each frame with data.
TxSent(e, a, b, tx, rx, stopped, queue, fs, c, k, need) ==
  /\ txBuffer' = [txBuffer EXCEPT ![e] = Span(c, b)]
  /\ txCredits' = [txCredits EXCEPT ![e] = tx - k]
  /\ rxCredits' = [rxCredits EXCEPT ![e] = rx + need]
  /\ wire' = [queue EXCEPT ![Peer(e)] = @ \o fs]
  /\ CreditsIn(fs) = need /\ DataIn(fs) = k
  /\ Carries(fs, a, c)
  /\ need = 0 \/ (~stopped /\ rx + need = limits[e][1])

SomeTxSent(e, a, b, tx, rx, stopped, queue) ==
  \E fs \in Seq(Frame), c \in a..b, k \in 0..tx, need \in 0..255 :
    TxSent(e, a, b, tx, rx, stopped, queue, fs, c, k, need)

\* A call of `process_tx` by an end whose buffer holds the bytes after a up to b.
TxCalled(e, a, b, tx, rx, stopped, queue) ==
  /\ e \in Ends /\ a \in Nat /\ b \in Nat /\ a <= b
  /\ tx \in Nat /\ rx \in Nat /\ stopped \in BOOLEAN
  /\ limits[e] \in (0..255) \X Nat /\ limits[e][2] <= limits[e][1]
  /\ queue \in [Ends -> Seq(Frame)]
  /\ ProcessTx(e, Span(a, b), tx, rx, stopped, queue)

\* `process_tx` sends a part of the buffer in order, and each frame with data
\* costs one credit, one that only grants credits costs none.
LEMMA ProcessTxSends ==
  ASSUME Mtu > 1, NEW e, NEW a, NEW b, NEW tx, NEW rx, NEW stopped, NEW queue,
         TxCalled(e, a, b, tx, rx, stopped, queue)
  PROVE  SomeTxSent(e, a, b, tx, rx, stopped, queue)
<1> SUFFICES ASSUME e \in Ends, a \in Nat, b \in Nat, a <= b, tx \in Nat, rx \in Nat,
                    stopped \in BOOLEAN,
                    limits[e] \in (0..255) \X Nat, limits[e][2] <= limits[e][1],
                    queue \in [Ends -> Seq(Frame)],
                    ProcessTx(e, Span(a, b), tx, rx, stopped, queue)
             PROVE  \E fs \in Seq(Frame), c \in a..b, k \in 0..tx, need \in 0..255 :
                      TxSent(e, a, b, tx, rx, stopped, queue, fs, c, k, need)
  BY DEF TxCalled, SomeTxSent
<1> DEFINE buffer == Span(a, b)
           need == Needed(e, rx, stopped)
           spent == IF need > 0 /\ tx > 0 /\ buffer # <<>> THEN 1 ELSE 0
           chunk == IF spent = 1 THEN CreditedChunk(buffer) ELSE <<>>
           first == IF need = 0 THEN <<>> ELSE <<Uih(need % 256, chunk)>>
           rest == Drop(buffer, Len(chunk))
           more == PlainFrames(rest, tx - spent)
           m == a + Len(chunk)
           c == m + Cut(rest, Len(more))
           fs == first \o more
<1>1. need \in 0..255 /\ (need = 0 \/ (~stopped /\ rx + need = limits[e][1]))
  <2> DEFINE max == limits[e][1]
             low == limits[e][2]
  <2>1. max \in 0..255 /\ low \in Nat /\ low <= max
    OBVIOUS
  <2>2. need = IF ~stopped /\ rx <= low THEN max - rx ELSE 0
    BY DEF Needed
  <2> HIDE DEF max, low, need
  <2>3. CASE ~stopped /\ rx <= low
    <3>1. need = max - rx
      BY <2>2, <2>3
    <3>2. need \in 0..255 /\ rx + need = max
      BY <2>1, <2>3, <3>1
    <3> QED BY <2>3, <3>2 DEF max
  <2>4. CASE ~(~stopped /\ rx <= low)
    BY <2>2, <2>4
  <2> QED BY <2>3, <2>4
<1>2. spent \in 0..1 /\ tx - spent \in Nat /\ (spent = 1 => need > 0 /\ tx > 0 /\ buffer # <<>>)
  OBVIOUS
<1>3. /\ chunk = Span(a, m) /\ m \in a..b /\ rest = Span(m, b)
      /\ (chunk # <<>>) <=> (spent = 1)
  <2>1. buffer \in Seq(Nat) /\ Len(buffer) = b - a /\ (buffer = <<>> <=> a = b)
    BY SpanProperties
  <2>2. CASE spent = 1
    <3> DEFINE j == Least(Len(buffer), Mtu - 1)
    <3>1. j \in 1..(b - a)
      BY <1>2, <2>1, <2>2, DlcAssumption DEF Least
    <3>2. chunk = SubSeq(buffer, 1, j)
      BY <2>2 DEF CreditedChunk, Take
    <3> HIDE DEF j, chunk
    <3>3. chunk = Span(a, a + j)
      <4>1. 0 \in 0..(b - a) /\ j \in 0..(b - a)
        BY <3>1
      <4>2. SubSeq(Span(a, b), 0 + 1, j) = Span(a + 0, a + j)
        BY <4>1, SpanPart
      <4> QED BY <3>2, <4>2
    <3>4. a + j \in Nat /\ a <= a + j /\ a # a + j
      BY <3>1
    <3>5. Len(chunk) = (a + j) - a /\ chunk # <<>>
      BY <3>3, <3>4, SpanProperties
    <3>6. Len(chunk) = j /\ m = a + j
      BY <3>1, <3>5
    <3>7. rest = SubSeq(buffer, j + 1, b - a)
      BY <2>1, <3>6 DEF Drop
    <3>8. SubSeq(Span(a, b), j + 1, b - a) = Span(a + j, a + (b - a))
      <4>1. j \in 0..(b - a) /\ (b - a) \in j..(b - a)
        BY <3>1
      <4> QED BY <4>1, SpanPart
    <3>9. a + (b - a) = b /\ a + j \in a..b
      BY <3>1
    <3> QED BY <2>2, <3>3, <3>5, <3>6, <3>7, <3>8, <3>9
  <2>3. CASE spent = 0
    <3>1. chunk = <<>> /\ Len(chunk) = 0 /\ m = a
      BY <2>3
    <3>2. rest = SubSeq(buffer, 0 + 1, b - a)
      BY <2>1, <3>1 DEF Drop
    <3>3. SubSeq(Span(a, b), 0 + 1, b - a) = Span(a + 0, a + (b - a))
      <4>1. 0 \in 0..(b - a) /\ (b - a) \in 0..(b - a)
        OBVIOUS
      <4> QED BY <4>1, SpanPart
    <3>4. a + 0 = a /\ a + (b - a) = b /\ a \in a..b
      OBVIOUS
    <3>5. Span(a, a) = <<>>
      BY SpanProperties
    <3> HIDE DEF chunk
    <3> QED BY <2>3, <3>1, <3>2, <3>3, <3>4, <3>5
  <2> QED BY <1>2, <2>2, <2>3
<1> HIDE DEF need, spent, chunk, m, rest
<1>4. m \in Nat /\ m <= b
  BY <1>3
<1>5. /\ more \in Seq(Frame) /\ Len(more) <= tx - spent
      /\ \A i \in 1..Len(more) : more[i].credit = -1 /\ more[i].bytes # <<>>
      /\ c \in m..b /\ Drop(rest, Cut(rest, Len(more))) = Span(c, b)
      /\ Carries(more, m, c)
  <2> DEFINE n == tx - spent
             g == PlainFrames(Span(m, b), n)
             d == m + Cut(Span(m, b), Len(g))
  <2>1. n \in Nat
    BY <1>2
  <2> HIDE DEF n
  <2>2. /\ g \in Seq(Frame) /\ Len(g) <= n
        /\ \A i \in 1..Len(g) : g[i].credit = -1 /\ g[i].bytes # <<>>
        /\ d \in m..b /\ Drop(Span(m, b), Cut(Span(m, b), Len(g))) = Span(d, b)
        /\ Carries(g, m, d)
    BY <1>4, <2>1, PlainFramesCarry
  <2> QED BY <1>3, <2>2 DEF n
<1> HIDE DEF more, c
<1>6. CreditsIn(more) = 0 /\ DataIn(more) = Len(more) /\ Len(more) \in Nat
  <2>1. more \in Seq(Frame)
        /\ \A i \in 1..Len(more) : more[i].credit = -1 /\ more[i].bytes # <<>>
    BY <1>5
  <2> QED BY ONLY <2>1, CountsFew
<1>7. /\ first \in Seq(Frame) /\ CreditsIn(first) = need /\ DataIn(first) = spent
      /\ Carries(first, a, m)
  <2>1. CASE need = 0
    <3>1. first = <<>> /\ spent = 0 /\ chunk = <<>>
      BY <1>1, <1>2, <1>3, <2>1
    <3>2. m = a
      BY <3>1 DEF m
    <3>3. Carries(<<>>, a, a)
      BY CarriesFew
    <3>4. <<>> \in Seq(Frame)
      OBVIOUS
    <3> HIDE DEF first
    <3> QED BY <2>1, <3>1, <3>2, <3>3, <3>4, CountsFew
  <2>2. CASE need # 0
    <3> DEFINE f == Uih(need % 256, chunk)
    <3>1. need % 256 = need /\ need \in -1..255 /\ need # -1
      <4>1. need \in 0..255
        BY <1>1
      <4>2. need \in Nat /\ 256 \in Nat /\ need < 256
        BY <4>1
      <4>3. need % 256 = need
        BY ONLY <4>2, NotCut
      <4> QED BY <4>1, <4>3
    <3>2. chunk \in Seq(Nat)
      <4>1. a <= m
        BY <1>3
      <4>2. Span(a, m) \in Seq(Nat)
        BY <1>4, <4>1, SpanProperties
      <4> QED BY <1>3, <4>2
    <3>3. f = [credit |-> need, bytes |-> chunk]
      BY <3>1 DEF Uih
    <3>4. f \in Frame /\ CreditOf(f) = need /\ (IsData(f) <=> spent = 1)
      <4>1. f.credit = need /\ f.bytes = chunk
        BY <3>3
      <4>2. f \in Frame
        BY <3>1, <3>2, <3>3 DEF Frame
      <4> HIDE DEF f
      <4>3. CreditOf(f) = need
        BY <3>1, <4>1 DEF CreditOf
      <4>4. IsData(f) <=> spent = 1
        BY <1>3, <4>1 DEF IsData
      <4> QED BY <4>2, <4>3, <4>4
    <3>5. Carries(<<f>>, a, m)
      <4>1. a <= m
        BY <1>3
      <4>2. \A x : Carries(<<Uih(x, Span(a, m))>>, a, m)
        BY <1>4, <4>1, CarriesFew
      <4> QED BY <1>3, <4>2
    <3>6. first = <<f>>
      BY <2>2
    <3> HIDE DEF f, first
    <3>7. CreditsIn(<<f>>) = CreditOf(f) /\ DataIn(<<f>>) = IF IsData(f) THEN 1 ELSE 0
      BY <3>4, CountsFew
    <3>8. <<f>> \in Seq(Frame)
      BY <3>4
    <3> QED BY <1>2, <3>4, <3>5, <3>6, <3>7, <3>8
  <2> QED BY <2>1, <2>2
<1> HIDE DEF first
<1>8. /\ fs \in Seq(Frame) /\ CreditsIn(fs) = need /\ DataIn(fs) = spent + Len(more)
  <2>1. /\ CreditsIn(fs) = CreditsIn(first) + CreditsIn(more)
        /\ DataIn(fs) = DataIn(first) + DataIn(more)
    BY <1>5, <1>7, CountsConcat
  <2>2. fs \in Seq(Frame)
    BY <1>5, <1>7
  <2> HIDE DEF fs
  <2> QED BY <1>1, <1>2, <1>6, <1>7, <2>1, <2>2
<1>9. Carries(fs, a, c)
  BY <1>5, <1>7, CarriesConcat
<1>10. c \in a..b /\ spent + Len(more) \in 0..tx
  BY <1>2, <1>3, <1>4, <1>5, <1>6
<1>11. /\ txBuffer' = [txBuffer EXCEPT ![e] = Span(c, b)]
       /\ txCredits' = [txCredits EXCEPT ![e] = (tx - spent) - Len(more)]
       /\ rxCredits' = [rxCredits EXCEPT ![e] = rx + need]
       /\ wire' = [queue EXCEPT ![Peer(e)] = (@ \o first) \o more]
  BY <1>5 DEF ProcessTx, need, spent, chunk, first, rest, more
<1>12. (tx - spent) - Len(more) = tx - (spent + Len(more))
  BY <1>2, <1>6
<1>13. (queue[Peer(e)] \o first) \o more = queue[Peer(e)] \o fs
  <2>1. queue[Peer(e)] \in Seq(Frame)
    BY DEF Peer, Ends
  <2> DEFINE q == queue[Peer(e)]
  <2>2. q \in Seq(Frame) /\ first \in Seq(Frame) /\ more \in Seq(Frame)
    BY <1>5, <1>7, <2>1
  <2> HIDE DEF q
  <2>3. (q \o first) \o more = q \o (first \o more)
    BY ONLY <2>2, ConcatAssociative
  <2> QED BY <2>3 DEF q
<1>14. wire' = [queue EXCEPT ![Peer(e)] = @ \o fs]
  BY <1>11, <1>13
<1> HIDE DEF fs
<1> QED
  BY <1>1, <1>8, <1>9, <1>10, <1>11, <1>12, <1>14 DEF TxSent

-----------------------------------------------------------------------------
(* What a step does to the credits *)

\* End e takes in n credits and r frames of data, sends k frames of data and
\* grants g credits; its peer does nothing.
Moved(e, n, k, r, g) ==
  LET p == Peer(e) IN
  /\ n \in 0..CreditsIn(wire[e]) /\ k \in 0..(txCredits[e] + n)
  /\ r \in 0..1 /\ r <= DataIn(wire[e]) /\ r <= rxCredits[e]
  /\ g \in 0..Biggest /\ (g = 0 \/ (rxCredits[e] - r) + g <= Biggest)
  /\ CreditsIn(wire'[e]) = CreditsIn(wire[e]) - n
  /\ DataIn(wire'[e]) = DataIn(wire[e]) - r
  /\ CreditsIn(wire'[p]) = CreditsIn(wire[p]) + g
  /\ DataIn(wire'[p]) = DataIn(wire[p]) + k
  /\ txCredits'[e] = (txCredits[e] + n) - k
  /\ rxCredits'[e] = (rxCredits[e] - r) + g
  /\ txCredits'[p] = txCredits[p] /\ rxCredits'[p] = rxCredits[p]

\* A counter holds more than a grant can carry.
LEMMA CounterHolds == CounterSize \in Nat /\ 256 <= CounterSize
BY DEF CounterSize

\* The largest of the windows: the one `Biggest` chooses.
LEMMA BiggestIs ==
  ASSUME Fits
  PROVE  /\ Biggest \in Nat /\ Biggest < CounterSize
         /\ MaxCredits <= Biggest
         /\ \A l \in Limits : l[1] <= Biggest
         /\ \A e \in Ends : InitialCredits[e] <= Biggest
<1> DEFINE S == {MaxCredits} \cup {l[1] : l \in Limits} \cup {InitialCredits[e] : e \in Ends}
<1>1. S \subseteq Nat /\ \A n \in S : n < CounterSize
  <2>1. \A l \in Limits : l[1] \in Nat /\ l[1] < CounterSize
    BY DlcAssumption, CounterHolds DEF Fits
  <2> QED BY <2>1, DlcAssumption, CounterHolds DEF Fits
<1>2. MaxCredits \in S
  OBVIOUS
<1> HIDE DEF S
<1>3. \E n \in S : \A m \in S : m <= n
  <2> DEFINE bound == CounterSize - 1
  <2>1. S \in SUBSET Nat /\ MaxCredits \in S /\ bound \in Nat /\ \A n \in S : n <= bound
    BY <1>1, <1>2, CounterHolds
  <2> HIDE DEF bound
  <2> QED BY ONLY <2>1, Largest
<1>4. Biggest = CHOOSE n \in S : \A m \in S : m <= n
  BY DEF Biggest, S
<1>5. Biggest \in S /\ \A m \in S : m <= Biggest
  BY <1>3, <1>4
<1> QED
  BY <1>1, <1>5 DEF S

Typed ==
  /\ txBuffer \in [Ends -> Seq(Nat)] /\ wire \in [Ends -> Seq(Frame)]
  /\ txCredits \in [Ends -> Nat] /\ rxCredits \in [Ends -> Nat]
  /\ limits \in [Ends -> (0..255) \X Nat]
  /\ paused \in [Ends -> BOOLEAN] /\ inOrder \in [Ends -> BOOLEAN]
  /\ rxPackets \in [Ends -> Seq(Seq(Nat))]
  /\ written \in [Ends -> Nat] /\ received \in [Ends -> Nat] /\ allowance \in [Ends -> Nat]

\* The limits of a receiver are in order, and its window never exceeds the
\* largest one it may be given.
WindowBounded ==
  \A e \in Ends : /\ limits[e][2] <= limits[e][1] /\ limits[e][1] <= Biggest
                  /\ rxCredits[e] <= Biggest

\* There are two ends, each the peer of the other.
LEMMA PeerFacts ==
  ASSUME NEW e \in Ends
  PROVE  Peer(e) \in Ends /\ Peer(e) # e /\ Peer(Peer(e)) = e /\ \A f \in Ends : f = e \/ f = Peer(e)
BY DEF Peer, Ends

\* End e takes in n credits and r frames of data, which leaves `queue` on its way,
\* and runs `process_tx`.
Sending(e, queue, n, r, a, b, stopped) ==
  /\ e \in Ends /\ queue \in [Ends -> Seq(Frame)]
  /\ n \in 0..CreditsIn(wire[e]) /\ r \in 0..1
  /\ r <= DataIn(wire[e]) /\ r <= rxCredits[e]
  /\ queue[Peer(e)] = wire[Peer(e)]
  /\ CreditsIn(queue[e]) = CreditsIn(wire[e]) - n
  /\ DataIn(queue[e]) = DataIn(wire[e]) - r
  /\ a \in Nat /\ b \in Nat /\ a <= b /\ stopped \in BOOLEAN
  /\ ProcessTx(e, Span(a, b), txCredits[e] + n, rxCredits[e] - r, stopped, queue)

HasSent(e, queue, n, r, a, b, stopped) ==
  /\ txBuffer' \in [Ends -> Seq(Nat)] /\ wire' \in [Ends -> Seq(Frame)]
  /\ txCredits' \in [Ends -> Nat] /\ rxCredits' \in [Ends -> Nat]
  /\ wire'[e] = queue[e] /\ txBuffer'[Peer(e)] = txBuffer[Peer(e)]
  /\ \E k \in Nat, g \in 0..255 : Moved(e, n, k, r, g) /\ (g = 0 \/ ~stopped)
  /\ \E fs \in Seq(Frame), c \in a..b : /\ txBuffer'[e] = Span(c, b)
                                        /\ wire'[Peer(e)] = wire[Peer(e)] \o fs
                                        /\ Carries(fs, a, c)

\* What `process_tx` does to the credits and the queues of both ends.
LEMMA Sends ==
  ASSUME Fits, Typed, WindowBounded, NEW e, NEW queue, NEW n, NEW r, NEW a, NEW b,
         NEW stopped, Sending(e, queue, n, r, a, b, stopped)
  PROVE  HasSent(e, queue, n, r, a, b, stopped)
<1> SUFFICES ASSUME e \in Ends, queue \in [Ends -> Seq(Frame)],
                    n \in 0..CreditsIn(wire[e]), r \in 0..1,
                    r <= DataIn(wire[e]), r <= rxCredits[e],
                    queue[Peer(e)] = wire[Peer(e)],
                    CreditsIn(queue[e]) = CreditsIn(wire[e]) - n,
                    DataIn(queue[e]) = DataIn(wire[e]) - r,
                    a \in Nat, b \in Nat, a <= b, stopped \in BOOLEAN,
                    ProcessTx(e, Span(a, b), txCredits[e] + n, rxCredits[e] - r, stopped, queue)
             PROVE  HasSent(e, queue, n, r, a, b, stopped)
  BY DEF Sending
<1> DEFINE p == Peer(e)
           tx == txCredits[e] + n
           rx == rxCredits[e] - r
<1>1. p \in Ends /\ p # e
  BY PeerFacts
<1>2. /\ wire[e] \in Seq(Frame) /\ wire[p] \in Seq(Frame)
      /\ CreditsIn(wire[e]) \in Nat /\ DataIn(wire[e]) \in Nat
      /\ CreditsIn(wire[p]) \in Nat /\ DataIn(wire[p]) \in Nat
  BY <1>1, Counts DEF Typed
<1>3. txCredits[e] \in Nat /\ rxCredits[e] \in Nat /\ txCredits[p] \in Nat /\ rxCredits[p] \in Nat
  BY <1>1 DEF Typed
<1>4. n \in Nat /\ tx \in Nat /\ rx \in Nat
  <2>1. n \in 0..CreditsIn(wire[e]) /\ r \in 0..1 /\ r <= rxCredits[e]
    OBVIOUS
  <2> QED BY ONLY <1>2, <1>3, <2>1
<1>5. limits[e] \in (0..255) \X Nat /\ limits[e][2] <= limits[e][1] /\ limits[e][1] <= Biggest
  BY DEF Typed, WindowBounded
<1>6. Mtu > 1
  BY DEF Fits
<1> HIDE DEF tx, rx, p
<1>7. PICK fs \in Seq(Frame), c \in a..b, k \in 0..tx, need \in 0..255 :
         TxSent(e, a, b, tx, rx, stopped, queue, fs, c, k, need)
  <2>1. ProcessTx(e, Span(a, b), tx, rx, stopped, queue)
    BY DEF tx, rx
  <2>2. TxCalled(e, a, b, tx, rx, stopped, queue)
    BY <1>4, <1>5, <2>1 DEF TxCalled
  <2>3. SomeTxSent(e, a, b, tx, rx, stopped, queue)
    BY <1>6, <2>2, ProcessTxSends
  <2> QED BY <2>3 DEF SomeTxSent
<1>8. /\ txBuffer' = [txBuffer EXCEPT ![e] = Span(c, b)]
      /\ txCredits' = [txCredits EXCEPT ![e] = tx - k]
      /\ rxCredits' = [rxCredits EXCEPT ![e] = rx + need]
      /\ wire' = [queue EXCEPT ![p] = @ \o fs]
      /\ CreditsIn(fs) = need /\ DataIn(fs) = k
      /\ Carries(fs, a, c)
      /\ need = 0 \/ (~stopped /\ rx + need = limits[e][1])
  BY <1>7 DEF TxSent, p
<1>9. c \in Nat /\ c <= b /\ k \in Nat /\ tx - k \in Nat /\ rx + need \in Nat
  BY <1>4
<1>10. Span(c, b) \in Seq(Nat)
  BY <1>9, SpanProperties
<1>11. /\ txBuffer' \in [Ends -> Seq(Nat)] /\ txBuffer'[e] = Span(c, b) /\ txBuffer'[p] = txBuffer[p]
  BY <1>1, <1>8, <1>10 DEF Typed
<1>12. /\ txCredits' \in [Ends -> Nat] /\ txCredits'[e] = tx - k /\ txCredits'[p] = txCredits[p]
       /\ rxCredits' \in [Ends -> Nat] /\ rxCredits'[e] = rx + need /\ rxCredits'[p] = rxCredits[p]
  BY <1>1, <1>8, <1>9 DEF Typed
<1>13. /\ wire' \in [Ends -> Seq(Frame)] /\ wire'[e] = queue[e] /\ wire'[p] = wire[p] \o fs
  <2>1. queue[p] = wire[p] /\ wire[p] \o fs \in Seq(Frame)
    BY <1>2 DEF p
  <2> QED BY <1>1, <1>8, <2>1
<1>14. /\ CreditsIn(wire'[p]) = CreditsIn(wire[p]) + need
       /\ DataIn(wire'[p]) = DataIn(wire[p]) + k
  <2>1. /\ CreditsIn(wire[p] \o fs) = CreditsIn(wire[p]) + CreditsIn(fs)
        /\ DataIn(wire[p] \o fs) = DataIn(wire[p]) + DataIn(fs)
    BY <1>2, CountsConcat
  <2> QED BY <1>8, <1>13, <2>1
<1>15. need \in 0..Biggest /\ (need = 0 \/ (rxCredits[e] - r) + need <= Biggest)
  <2>1. Biggest \in Nat
    BY BiggestIs
  <2>2. need = 0 \/ rx + need <= Biggest
    BY <1>5, <1>8
  <2>3. need \in Nat /\ rx \in Nat
    <3>1. need \in 0..255
      OBVIOUS
    <3> QED BY ONLY <1>4, <3>1
  <2>4. need \in 0..Biggest
    BY <2>1, <2>2, <2>3
  <2> QED BY <2>2, <2>4 DEF rx
<1>16. Moved(e, n, k, r, need)
  BY <1>8, <1>12, <1>13, <1>14, <1>15 DEF Moved, p, tx, rx
<1> QED
  <2>1. \E x \in Nat, y \in 0..255 : Moved(e, n, x, r, y) /\ (y = 0 \/ ~stopped)
    BY <1>8, <1>9, <1>16
  <2>2. \E x \in Seq(Frame), y \in a..b : /\ txBuffer'[e] = Span(y, b)
                                          /\ wire'[p] = wire[p] \o x
                                          /\ Carries(x, a, y)
    BY <1>8, <1>11, <1>13
  <2> QED BY <1>11, <1>12, <1>13, <2>1, <2>2 DEF HasSent, p

-----------------------------------------------------------------------------
(* The inductive invariant *)

\* Between the bytes an end has received and those its peer has written there is
\* no gap: the frames on the way carry the bytes up to c, and the peer's
\* `tx_buffer` holds the others.
Continuous(e) ==
  \E c \in Nat : /\ c <= written[Peer(e)]
                 /\ txBuffer[Peer(e)] = Span(c, written[Peer(e)])
                 /\ Carries(wire[e], received[e], c)

DlcInv ==
  /\ Typed /\ WindowBounded
  /\ CreditsConserved
  /\ PauseBoundsBuffering
  /\ \A e \in Ends : inOrder[e] /\ Continuous(e)

\* CreditsConserved for one direction, with the sums it relates.
LEMMA Conserved ==
  ASSUME Typed
  PROVE  /\ CreditsConserved <=>
              \A e \in Ends :
                rxCredits[Peer(e)] =
                  (txCredits[e] + CreditsIn(wire[e]) + DataIn(wire[Peer(e)]))
                  + (InitialCredits[Peer(e)] - OnTheWire(InitialCredits[Peer(e)]))
         /\ \A e \in Ends : /\ InitialCredits[e] \in Nat /\ OnTheWire(InitialCredits[e]) \in Nat
                            /\ OnTheWire(InitialCredits[e]) <= InitialCredits[e]
         /\ \A e \in Ends : /\ txCredits[e] \in Nat /\ rxCredits[e] \in Nat
                            /\ CreditsIn(wire[e]) \in Nat /\ DataIn(wire[e]) \in Nat
<1>1. \A e \in Ends : /\ InitialCredits[e] \in Nat /\ OnTheWire(InitialCredits[e]) \in Nat
                      /\ OnTheWire(InitialCredits[e]) <= InitialCredits[e]
  <2>1. \A n, m \in Nat : m # 0 => n % m \in Nat /\ n % m <= n
    OBVIOUS
  <2> QED BY <2>1, DlcAssumption DEF OnTheWire
<1>2. \A e \in Ends : /\ txCredits[e] \in Nat /\ rxCredits[e] \in Nat
                      /\ CreditsIn(wire[e]) \in Nat /\ DataIn(wire[e]) \in Nat
  BY Counts DEF Typed
<1>3. \A e \in Ends : Peer(e) \in Ends
  BY PeerFacts
<1> QED
  BY <1>1, <1>2, <1>3 DEF CreditsConserved, DataFrom

\* Whatever the numbers, a step of this kind conserves the credits and keeps the
\* window in bounds.
LEMMA MovedConserves ==
  ASSUME Fits, Typed, Typed', CreditsConserved, WindowBounded, limits' = limits,
         NEW e \in Ends, NEW n, NEW k, NEW r, NEW g, Moved(e, n, k, r, g)
  PROVE  CreditsConserved' /\ WindowBounded'
<1> DEFINE p == Peer(e)
           lost(f) == InitialCredits[f] - OnTheWire(InitialCredits[f])
<1>1. p \in Ends /\ p # e /\ Peer(p) = e /\ \A f \in Ends : f = e \/ f = p
  BY PeerFacts
<1>2. Biggest \in Nat
  BY BiggestIs
<1>3. /\ \A f \in Ends : InitialCredits[f] \in Nat /\ OnTheWire(InitialCredits[f]) \in Nat
      /\ \A f \in Ends : /\ txCredits[f] \in Nat /\ rxCredits[f] \in Nat
                         /\ CreditsIn(wire[f]) \in Nat /\ DataIn(wire[f]) \in Nat
      /\ \A f \in Ends : /\ txCredits'[f] \in Nat /\ rxCredits'[f] \in Nat
                         /\ CreditsIn(wire'[f]) \in Nat /\ DataIn(wire'[f]) \in Nat
  <2>1. \A f \in Ends : /\ txCredits'[f] \in Nat /\ rxCredits'[f] \in Nat
                        /\ CreditsIn(wire'[f]) \in Nat /\ DataIn(wire'[f]) \in Nat
    BY Counts DEF Typed
  <2> QED BY <2>1, Conserved
<1>4. \A f \in Ends : lost(f) \in Int
  BY <1>3
<1>5. \A f \in Ends : rxCredits[Peer(f)] =
                        (txCredits[f] + CreditsIn(wire[f]) + DataIn(wire[Peer(f)])) + lost(Peer(f))
  BY Conserved
<1> HIDE DEF lost
<1>6. /\ rxCredits[p] = (txCredits[e] + CreditsIn(wire[e]) + DataIn(wire[p])) + lost(p)
      /\ rxCredits[e] = (txCredits[p] + CreditsIn(wire[p]) + DataIn(wire[e])) + lost(e)
  BY <1>1, <1>5
<1>7. /\ n \in Nat /\ k \in Nat /\ r \in Nat /\ g \in Nat /\ r <= rxCredits[e]
      /\ g = 0 \/ (rxCredits[e] - r) + g <= Biggest
      /\ CreditsIn(wire'[e]) = CreditsIn(wire[e]) - n
      /\ DataIn(wire'[e]) = DataIn(wire[e]) - r
      /\ CreditsIn(wire'[p]) = CreditsIn(wire[p]) + g
      /\ DataIn(wire'[p]) = DataIn(wire[p]) + k
      /\ txCredits'[e] = (txCredits[e] + n) - k
      /\ rxCredits'[e] = (rxCredits[e] - r) + g
      /\ txCredits'[p] = txCredits[p] /\ rxCredits'[p] = rxCredits[p]
  <2>1. \A x, y : (x \in 0..y) => x \in Nat
    OBVIOUS
  <2> QED BY <2>1 DEF Moved
<1>8. rxCredits'[p] = (txCredits'[e] + CreditsIn(wire'[e]) + DataIn(wire'[p])) + lost(p)
  BY <1>1, <1>3, <1>4, <1>6, <1>7
<1>9. rxCredits'[e] = (txCredits'[p] + CreditsIn(wire'[p]) + DataIn(wire'[e])) + lost(e)
  BY <1>1, <1>3, <1>4, <1>6, <1>7
<1>10. \A f \in Ends : rxCredits'[Peer(f)] =
         (txCredits'[f] + CreditsIn(wire'[f]) + DataIn(wire'[Peer(f)])) + lost(Peer(f))
  BY <1>1, <1>8, <1>9
<1>11. CreditsConserved'
  <2>1. \A f \in Ends : lost(Peer(f)) \in Int /\ Peer(f) \in Ends
    BY <1>4, PeerFacts
  <2> QED BY <1>3, <1>10, <2>1 DEF CreditsConserved, DataFrom, lost
<1>12. \A f \in Ends : rxCredits'[f] <= Biggest
  <2>1. rxCredits[e] <= Biggest /\ rxCredits[p] <= Biggest
    BY <1>1 DEF WindowBounded
  <2>2. rxCredits'[e] <= Biggest
    BY <1>2, <1>3, <1>7, <2>1
  <2> QED BY <1>1, <1>7, <2>1, <2>2
<1>13. WindowBounded'
  BY <1>12 DEF WindowBounded, Biggest
<1> QED
  BY <1>11, <1>13

\* The rest of a step of end e that runs `process_tx`: the bytes it took in left no
\* gap before those in `queue`.
NoGap(e, queue, a, d) ==
  /\ limits' = limits /\ paused' \in [Ends -> BOOLEAN] /\ inOrder' \in [Ends -> BOOLEAN]
  /\ rxPackets' \in [Ends -> Seq(Seq(Nat))] /\ allowance' \in [Ends -> Nat]
  /\ written' \in [Ends -> Nat] /\ received' \in [Ends -> Nat]
  /\ written'[Peer(e)] = written[Peer(e)] /\ received'[Peer(e)] = received[Peer(e)]
  /\ Carries(wire[Peer(e)], received[Peer(e)], a)
  /\ d \in Nat /\ d <= written[Peer(e)] /\ txBuffer[Peer(e)] = Span(d, written[Peer(e)])
  /\ Carries(queue[e], received'[e], d)

Kept(e, n, r, stopped) ==
  /\ Typed' /\ WindowBounded' /\ CreditsConserved'
  /\ \A f \in Ends : Continuous(f)'
  /\ \E k \in Nat, g \in 0..255 : Moved(e, n, k, r, g) /\ (g = 0 \/ ~stopped)

\* A step of end e that runs `process_tx`, with the buffer up to its last byte:
\* if what it took in leaves no gap, there is none after it, and the credits are
\* conserved.
LEMMA SendsKeeps ==
  ASSUME Fits, DlcInv, NEW e, NEW queue, NEW n, NEW r, NEW a, NEW stopped, NEW d,
         Sending(e, queue, n, r, a, written'[e], stopped), NoGap(e, queue, a, d)
  PROVE  Kept(e, n, r, stopped)
<1> USE DEF NoGap
<1> DEFINE p == Peer(e)
           b == written'[e]
<1>0. e \in Ends /\ a \in Nat
  BY DEF Sending
<1>1. p \in Ends /\ p # e /\ Peer(p) = e /\ \A f \in Ends : f = e \/ f = p
  BY <1>0, PeerFacts
<1>2. Typed /\ WindowBounded /\ CreditsConserved
  BY DEF DlcInv
<1>3. b \in Nat
  BY <1>0
<1> HIDE DEF b
<1>4. HasSent(e, queue, n, r, a, b, stopped)
  BY <1>2, Sends DEF b
<1>5. /\ txBuffer' \in [Ends -> Seq(Nat)] /\ wire' \in [Ends -> Seq(Frame)]
      /\ txCredits' \in [Ends -> Nat] /\ rxCredits' \in [Ends -> Nat]
      /\ wire'[e] = queue[e] /\ txBuffer'[Peer(e)] = txBuffer[Peer(e)]
      /\ \E k \in Nat, g \in 0..255 : Moved(e, n, k, r, g) /\ (g = 0 \/ ~stopped)
      /\ \E fs \in Seq(Frame), c \in a..b : /\ txBuffer'[e] = Span(c, b)
                                            /\ wire'[Peer(e)] = wire[Peer(e)] \o fs
                                            /\ Carries(fs, a, c)
  BY <1>4 DEF HasSent
<1>6. PICK k \in Nat, g \in 0..255 : Moved(e, n, k, r, g) /\ (g = 0 \/ ~stopped)
  BY <1>5
<1>7. Typed'
  BY <1>2, <1>5 DEF Typed
<1>8. WindowBounded' /\ CreditsConserved'
  BY <1>0, <1>2, <1>6, <1>7, MovedConserves
<1>9. Continuous(e)'
  BY <1>5 DEF Continuous
<1>10. Continuous(p)'
  <2>1. PICK fs \in Seq(Frame), c \in a..b : /\ txBuffer'[e] = Span(c, b)
                                             /\ wire'[p] = wire[p] \o fs
                                             /\ Carries(fs, a, c)
    BY <1>5
  <2>2. wire[p] \in Seq(Frame) /\ Carries(wire[p], received[p], a)
    BY <1>1, <1>2 DEF Typed
  <2>3. Carries(wire'[p], received'[p], c)
    BY <2>1, <2>2, CarriesConcat
  <2>4. c \in Nat /\ c <= b
    BY <1>0, <1>3
  <2> HIDE DEF p
  <2>5. \E x \in Nat : /\ x <= written'[e] /\ txBuffer'[e] = Span(x, written'[e])
                       /\ Carries(wire'[p], received'[p], x)
    BY <2>1, <2>3, <2>4 DEF b
  <2> QED BY <1>1, <2>5 DEF Continuous
<1>11. \A f \in Ends : Continuous(f)'
  BY <1>1, <1>9, <1>10
<1> QED
  BY <1>6, <1>7, <1>8, <1>11 DEF Kept

-----------------------------------------------------------------------------
(* One lemma per action *)

SomeMove == \E e, n, k, r, g : e \in Ends /\ Moved(e, n, k, r, g)

\* What DlcInv says of an end and its peer.
LEMMA BothEnds ==
  ASSUME DlcInv, NEW e \in Ends
  PROVE  /\ Peer(e) \in Ends /\ Peer(e) # e /\ Peer(Peer(e)) = e
         /\ \A f \in Ends : f = e \/ f = Peer(e)
         /\ wire \in [Ends -> Seq(Frame)] /\ wire[e] \in Seq(Frame)
         /\ CreditsIn(wire[e]) \in Nat /\ DataIn(wire[e]) \in Nat
         /\ txCredits[e] \in Nat /\ rxCredits[e] \in Nat
         /\ written[e] \in Nat /\ received[e] \in Nat /\ paused[e] \in BOOLEAN
         /\ \E c \in Nat : /\ c <= written[e] /\ txBuffer[e] = Span(c, written[e])
                           /\ Carries(wire[Peer(e)], received[Peer(e)], c)
         /\ \E d \in Nat : /\ d <= written[Peer(e)]
                           /\ txBuffer[Peer(e)] = Span(d, written[Peer(e)])
                           /\ Carries(wire[e], received[e], d)
<1>1. /\ Peer(e) \in Ends /\ Peer(e) # e /\ Peer(Peer(e)) = e
      /\ \A f \in Ends : f = e \/ f = Peer(e)
  BY PeerFacts
<1>2. /\ wire \in [Ends -> Seq(Frame)] /\ wire[e] \in Seq(Frame)
      /\ txCredits[e] \in Nat /\ rxCredits[e] \in Nat
      /\ written[e] \in Nat /\ received[e] \in Nat /\ paused[e] \in BOOLEAN
  BY DEF DlcInv, Typed
<1>3. CreditsIn(wire[e]) \in Nat /\ DataIn(wire[e]) \in Nat
  BY <1>2, Counts
<1>4. Continuous(e) /\ Continuous(Peer(e))
  BY <1>1 DEF DlcInv
<1> QED
  BY <1>1, <1>2, <1>3, <1>4 DEF Continuous

\* `process_tx` when nothing was taken in (`write`, `set_dlc_reading_paused`).
LEMMA SendingOnly ==
  ASSUME DlcInv, NEW e \in Ends, NEW a \in Nat, NEW b \in Nat, a <= b, NEW stopped \in BOOLEAN,
         ProcessTx(e, Span(a, b), txCredits[e], rxCredits[e], stopped, wire)
  PROVE  Sending(e, wire, 0, 0, a, b, stopped)
<1>1. /\ wire \in [Ends -> Seq(Frame)]
      /\ CreditsIn(wire[e]) \in Nat /\ DataIn(wire[e]) \in Nat
      /\ txCredits[e] \in Nat /\ rxCredits[e] \in Nat
  BY BothEnds
<1>2. /\ txCredits[e] + 0 = txCredits[e] /\ rxCredits[e] - 0 = rxCredits[e]
      /\ CreditsIn(wire[e]) = CreditsIn(wire[e]) - 0 /\ DataIn(wire[e]) = DataIn(wire[e]) - 0
      /\ 0 \in 0..CreditsIn(wire[e]) /\ 0 \in 0..1
      /\ 0 <= DataIn(wire[e]) /\ 0 <= rxCredits[e]
  BY ONLY <1>1
<1>3. ProcessTx(e, Span(a, b), txCredits[e] + 0, rxCredits[e] - 0, stopped, wire)
  BY <1>2
<1> QED
  BY <1>1, <1>2, <1>3 DEF Sending

\* While reading is paused nothing more is granted.
LEMMA PauseKept ==
  ASSUME DlcInv, Typed', NEW e \in Ends, NEW n, NEW k, NEW r, NEW g, Moved(e, n, k, r, g),
         g = 0 \/ ~paused'[e], allowance' = allowance,
         \A f \in Ends : paused'[f] => paused[f],
         \A f \in Ends : Len(rxPackets'[f]) <= Len(rxPackets[f]) + (IF f = e THEN r ELSE 0)
  PROVE  PauseBoundsBuffering'
<1>1. /\ Typed /\ PauseBoundsBuffering
  BY DEF DlcInv
<1>2. \A f \in Ends : f = e \/ f = Peer(e)
  BY PeerFacts
<1>3. \A f \in Ends : /\ Len(rxPackets[f]) \in Nat /\ Len(rxPackets'[f]) \in Nat
                      /\ rxCredits[f] \in Nat /\ rxCredits'[f] \in Nat /\ allowance[f] \in Nat
  <2>1. /\ rxPackets \in [Ends -> Seq(Seq(Nat))] /\ rxPackets' \in [Ends -> Seq(Seq(Nat))]
        /\ rxCredits \in [Ends -> Nat] /\ rxCredits' \in [Ends -> Nat]
        /\ allowance \in [Ends -> Nat]
    BY <1>1 DEF Typed
  <2> QED BY ONLY <2>1
<1>4. r \in Nat /\ g \in Int
  <2>1. r \in 0..1 /\ g \in 0..Biggest
    BY DEF Moved
  <2> QED BY ONLY <2>1
<1>5. rxCredits'[e] = (rxCredits[e] - r) + g /\ rxCredits'[Peer(e)] = rxCredits[Peer(e)]
  BY DEF Moved
<1>6. SUFFICES ASSUME NEW f \in Ends, paused'[f]
               PROVE  Len(rxPackets'[f]) + rxCredits'[f] <= allowance'[f]
  BY DEF PauseBoundsBuffering
<1>7. Len(rxPackets[f]) + rxCredits[f] <= allowance[f]
  BY <1>1, <1>6 DEF PauseBoundsBuffering
<1>8. CASE f = e
  <2>1. g = 0 /\ Len(rxPackets'[e]) <= Len(rxPackets[e]) + r
    BY <1>6, <1>8
  <2>2. /\ Len(rxPackets[e]) \in Nat /\ Len(rxPackets'[e]) \in Nat
        /\ rxCredits[e] \in Nat /\ rxCredits'[e] \in Nat /\ allowance[e] \in Nat
    BY <1>3
  <2>3. Len(rxPackets[e]) + rxCredits[e] <= allowance[e]
    BY <1>7, <1>8
  <2>4. Len(rxPackets'[e]) + rxCredits'[e] <= allowance[e]
    BY ONLY <1>4, <1>5, <2>1, <2>2, <2>3
  <2> QED BY <1>8, <2>4
<1>9. CASE f # e
  <2>1. f = Peer(e) /\ Len(rxPackets'[f]) <= Len(rxPackets[f]) + 0
    BY <1>2, <1>9
  <2>2. /\ Len(rxPackets[f]) \in Nat /\ Len(rxPackets'[f]) \in Nat
        /\ rxCredits[f] \in Nat /\ allowance[f] \in Nat /\ rxCredits'[f] = rxCredits[f]
    BY <1>3, <1>5, <2>1
  <2>3. Len(rxPackets'[f]) + rxCredits'[f] <= allowance[f]
    BY ONLY <1>7, <2>1, <2>2
  <2> QED BY <2>3
<1> QED
  BY <1>8, <1>9

\* `write`: the new bytes follow those in `tx_buffer`.
LEMMA WriteKeeps ==
  ASSUME Fits, DlcInv, NEW e \in Ends, NEW m \in Nat, Write(e, m)
  PROVE  DlcInv' /\ SomeMove
<1>1. PICK a \in Nat : /\ a <= written[e] /\ txBuffer[e] = Span(a, written[e])
                       /\ Carries(wire[Peer(e)], received[Peer(e)], a)
  BY BothEnds
<1>2. PICK d \in Nat : /\ d <= written[Peer(e)]
                       /\ txBuffer[Peer(e)] = Span(d, written[Peer(e)])
                       /\ Carries(wire[e], received[e], d)
  BY BothEnds
<1>3. /\ Peer(e) \in Ends /\ Peer(e) # e /\ written[e] \in Nat /\ paused[e] \in BOOLEAN
  BY BothEnds
<1>4. Typed
  BY DEF DlcInv
<1>5. /\ written' = [written EXCEPT ![e] = written[e] + m]
      /\ ProcessTx(e, txBuffer[e] \o Span(written[e], written[e] + m), txCredits[e],
                   rxCredits[e], paused[e], wire)
      /\ UNCHANGED <<limits, paused, rxPackets, received, inOrder, allowance>>
  BY DEF Write
<1>6. /\ written' \in [Ends -> Nat] /\ written'[e] = written[e] + m
      /\ written'[Peer(e)] = written[Peer(e)]
  <2>1. written \in [Ends -> Nat]
    BY <1>4 DEF Typed
  <2>2. written' = [written EXCEPT ![e] = written[e] + m]
    BY <1>5
  <2>3. written[e] + m \in Nat
    BY <1>3
  <2> QED BY ONLY <1>3, <2>1, <2>2, <2>3, e \in Ends
<1>7. txBuffer[e] \o Span(written[e], written[e] + m) = Span(a, written'[e])
      /\ a <= written'[e] /\ written'[e] \in Nat
  <2> DEFINE w == written[e]
             v == w + m
  <2>1. w \in Nat /\ v \in Nat /\ a <= w /\ w <= v /\ a <= v
    BY <1>1, <1>3
  <2> HIDE DEF w, v
  <2>2. Span(a, w) \o Span(w, v) = Span(a, v)
    BY <2>1, SpanConcat
  <2> QED BY <1>1, <1>6, <2>1, <2>2 DEF w, v
<1>8. Sending(e, wire, 0, 0, a, written'[e], paused[e])
  <2> DEFINE b == written'[e]
  <2>1. ProcessTx(e, Span(a, b), txCredits[e], rxCredits[e], paused[e], wire)
    BY <1>5, <1>7
  <2>2. b \in Nat /\ a <= b
    BY <1>7
  <2> HIDE DEF b
  <2>3. Sending(e, wire, 0, 0, a, b, paused[e])
    BY <1>3, <2>1, <2>2, SendingOnly
  <2> QED BY <2>3 DEF b
<1>9. /\ limits' = limits /\ paused' \in [Ends -> BOOLEAN] /\ inOrder' \in [Ends -> BOOLEAN]
      /\ rxPackets' \in [Ends -> Seq(Seq(Nat))] /\ allowance' \in [Ends -> Nat]
      /\ received' \in [Ends -> Nat] /\ received'[Peer(e)] = received[Peer(e)]
      /\ received'[e] = received[e]
  BY <1>4, <1>5 DEF Typed
<1>10. /\ Typed' /\ WindowBounded' /\ CreditsConserved'
       /\ \A f \in Ends : Continuous(f)'
       /\ \E k \in Nat, g \in 0..255 : Moved(e, 0, k, 0, g) /\ (g = 0 \/ ~paused[e])
  <2>1. NoGap(e, wire, a, d)
    BY <1>1, <1>2, <1>6, <1>9 DEF NoGap
  <2>2. Kept(e, 0, 0, paused[e])
    BY <1>8, <2>1, SendsKeeps
  <2> QED BY <2>2 DEF Kept
<1>11. PICK k \in Nat, g \in 0..255 : Moved(e, 0, k, 0, g) /\ (g = 0 \/ ~paused[e])
  BY <1>10
<1>12. PauseBoundsBuffering'
  <2>1. \A f \in Ends : Len(rxPackets'[f]) <= Len(rxPackets[f]) + (IF f = e THEN 0 ELSE 0)
    BY <1>4, <1>5 DEF Typed
  <2> QED BY <1>5, <1>10, <1>11, <2>1, PauseKept
<1>13. \A f \in Ends : inOrder'[f]
  BY <1>5 DEF DlcInv
<1> QED
  BY <1>10, <1>11, <1>12, <1>13 DEF DlcInv, SomeMove

\* `set_dlc_reading_paused(false)`, which may grant credits and flush data.
LEMMA ResumeKeeps ==
  ASSUME Fits, DlcInv, NEW e \in Ends, Resume(e)
  PROVE  DlcInv' /\ SomeMove
<1>1. PICK a \in Nat : /\ a <= written[e] /\ txBuffer[e] = Span(a, written[e])
                       /\ Carries(wire[Peer(e)], received[Peer(e)], a)
  BY BothEnds
<1>2. PICK d \in Nat : /\ d <= written[Peer(e)]
                       /\ txBuffer[Peer(e)] = Span(d, written[Peer(e)])
                       /\ Carries(wire[e], received[e], d)
  BY BothEnds
<1>3. written[e] \in Nat
  BY BothEnds
<1>4. Typed
  BY DEF DlcInv
<1>5. /\ paused' = [paused EXCEPT ![e] = FALSE]
      /\ ProcessTx(e, txBuffer[e], txCredits[e], rxCredits[e], FALSE, wire)
      /\ UNCHANGED <<limits, rxPackets, written, received, inOrder, allowance>>
  BY DEF Resume
<1>6. paused' \in [Ends -> BOOLEAN] /\ ~paused'[e] /\ \A f \in Ends : paused'[f] => paused[f]
  BY <1>4, <1>5 DEF Typed
<1>7. Sending(e, wire, 0, 0, a, written'[e], FALSE)
  <2> DEFINE b == written[e]
  <2>1. ProcessTx(e, Span(a, b), txCredits[e], rxCredits[e], FALSE, wire)
    BY <1>1, <1>5
  <2>2. b \in Nat /\ a <= b /\ FALSE \in BOOLEAN
    BY <1>1, <1>3
  <2> HIDE DEF b
  <2>3. Sending(e, wire, 0, 0, a, b, FALSE)
    BY <2>1, <2>2, SendingOnly
  <2>4. written'[e] = b
    BY <1>5 DEF b
  <2> QED BY <2>3, <2>4
<1>8. NoGap(e, wire, a, d)
  <2>1. /\ inOrder' \in [Ends -> BOOLEAN] /\ rxPackets' \in [Ends -> Seq(Seq(Nat))]
        /\ allowance' \in [Ends -> Nat] /\ written' \in [Ends -> Nat]
        /\ received' \in [Ends -> Nat]
    BY <1>4, <1>5 DEF Typed
  <2> QED BY <1>1, <1>2, <1>5, <1>6, <2>1 DEF NoGap
<1>9. Kept(e, 0, 0, FALSE)
  BY <1>7, <1>8, SendsKeeps
<1>10. PICK k \in Nat, g \in 0..255 : Moved(e, 0, k, 0, g)
  BY <1>9 DEF Kept
<1>11. PauseBoundsBuffering'
  <2>1. \A f \in Ends : Len(rxPackets'[f]) <= Len(rxPackets[f]) + (IF f = e THEN 0 ELSE 0)
    BY <1>4, <1>5 DEF Typed
  <2>2. Typed'
    BY <1>9 DEF Kept
  <2> QED BY <1>5, <1>6, <1>10, <2>1, <2>2, PauseKept
<1>12. \A f \in Ends : inOrder'[f]
  BY <1>5 DEF DlcInv
<1> QED
  BY <1>9, <1>10, <1>11, <1>12 DEF DlcInv, SomeMove, Kept

\* A frame of data always finds a credit with its receiver, and the credits it
\* brings fit the sender's counter.
LEMMA FrameCovered ==
  ASSUME Fits, DlcInv, NEW e \in Ends
  PROVE  /\ DataIn(wire[e]) <= rxCredits[e]
         /\ txCredits[e] + CreditsIn(wire[e]) < CounterSize
<1> DEFINE p == Peer(e)
           lost(f) == InitialCredits[f] - OnTheWire(InitialCredits[f])
<1>1. p \in Ends /\ Peer(p) = e
  BY PeerFacts
<1>2. Typed /\ WindowBounded /\ CreditsConserved
  BY DEF DlcInv
<1>3. Biggest \in Nat /\ Biggest < CounterSize
  BY BiggestIs
<1>4. /\ \A f \in Ends : rxCredits[Peer(f)] =
           (txCredits[f] + CreditsIn(wire[f]) + DataIn(wire[Peer(f)])) + lost(Peer(f))
      /\ \A f \in Ends : /\ InitialCredits[f] \in Nat /\ OnTheWire(InitialCredits[f]) \in Nat
                         /\ OnTheWire(InitialCredits[f]) <= InitialCredits[f]
      /\ \A f \in Ends : /\ txCredits[f] \in Nat /\ rxCredits[f] \in Nat
                         /\ CreditsIn(wire[f]) \in Nat /\ DataIn(wire[f]) \in Nat
  BY <1>2, Conserved
<1>5. lost(e) \in Nat /\ lost(p) \in Nat
  BY <1>1, <1>4
<1> HIDE DEF lost
<1>6. /\ rxCredits[p] = (txCredits[e] + CreditsIn(wire[e]) + DataIn(wire[p])) + lost(p)
      /\ rxCredits[e] = (txCredits[p] + CreditsIn(wire[p]) + DataIn(wire[e])) + lost(e)
  BY <1>1, <1>4
<1>7. rxCredits[p] <= Biggest
  BY <1>1, <1>2 DEF WindowBounded
<1>8. /\ txCredits[e] \in Nat /\ CreditsIn(wire[e]) \in Nat /\ DataIn(wire[e]) \in Nat
      /\ txCredits[p] \in Nat /\ CreditsIn(wire[p]) \in Nat /\ DataIn(wire[p]) \in Nat
  BY <1>1, <1>4
<1> HIDE DEF p
<1> QED
  BY ONLY <1>3, <1>5, <1>6, <1>7, <1>8, CounterHolds

\* `on_uih`: the frame taken in carries the next bytes, its receiver had a credit
\* for it, and `tx_credits` has room for the credits it brings.
LEMMA OnUihKeeps ==
  ASSUME Fits, DlcInv, NEW e \in Ends, OnUih(e)
  PROVE  DlcInv' /\ SomeMove
<1> DEFINE s == wire[e]
           frame == Head(s)
           n == CreditOf(frame)
           r == IF IsData(frame) THEN 1 ELSE 0
           m == Len(frame.bytes)
           queue == [wire EXCEPT ![e] = Tail(@)]
           rx == IF IsData(frame) /\ rxCredits[e] > 0 THEN rxCredits[e] - 1 ELSE rxCredits[e]
<1>1. PICK a \in Nat : /\ a <= written[e] /\ txBuffer[e] = Span(a, written[e])
                       /\ Carries(wire[Peer(e)], received[Peer(e)], a)
  BY BothEnds
<1>2. PICK d \in Nat : /\ d <= written[Peer(e)]
                       /\ txBuffer[Peer(e)] = Span(d, written[Peer(e)])
                       /\ Carries(s, received[e], d)
  BY BothEnds
<1>3. /\ Peer(e) \in Ends /\ Peer(e) # e /\ wire \in [Ends -> Seq(Frame)] /\ s \in Seq(Frame)
      /\ CreditsIn(s) \in Nat /\ DataIn(s) \in Nat /\ txCredits[e] \in Nat
      /\ rxCredits[e] \in Nat /\ written[e] \in Nat /\ received[e] \in Nat
      /\ paused[e] \in BOOLEAN
  BY BothEnds
<1>4. Typed
  BY DEF DlcInv
<1>5. /\ s # <<>>
      /\ ProcessTx(e, txBuffer[e], (txCredits[e] + n) % CounterSize, rx, paused[e], queue)
      /\ rxPackets' = [rxPackets EXCEPT ![e] = IF IsData(frame) THEN Push(@, frame.bytes) ELSE @]
      /\ received' = [received EXCEPT ![e] = @ + m]
      /\ inOrder' = [inOrder EXCEPT ![e] =
                       @ /\ frame.bytes = Span(received[e], received[e] + m)]
      /\ UNCHANGED <<limits, paused, written, allowance>>
  BY DEF OnUih
<1> HIDE DEF s
<1>6. /\ frame \in Frame /\ Tail(s) \in Seq(Frame) /\ n \in 0..255
      /\ CreditsIn(s) = n + CreditsIn(Tail(s))
      /\ DataIn(s) = r + DataIn(Tail(s))
      /\ CreditsIn(Tail(s)) \in Nat /\ DataIn(Tail(s)) \in Nat
  <2>1. s \in Seq(Frame) /\ s # <<>>
    BY <1>3, <1>5
  <2>2. /\ frame \in Frame /\ Tail(s) \in Seq(Frame) /\ n \in 0..255
        /\ CreditsIn(s) = n + CreditsIn(Tail(s))
        /\ DataIn(s) = r + DataIn(Tail(s))
    BY ONLY <2>1, CountsTail
  <2>3. CreditsIn(Tail(s)) \in Nat /\ DataIn(Tail(s)) \in Nat
    BY ONLY <2>2, Counts
  <2> QED BY ONLY <2>2, <2>3
<1>7. PICK b \in Nat : /\ received[e] <= b /\ b <= d
                       /\ frame.bytes = Span(received[e], b) /\ Carries(Tail(s), b, d)
  BY <1>2, <1>3, <1>5, CarriesTail
<1>8. frame.bytes \in Seq(Nat) /\ m = b - received[e] /\ received[e] + m = b
  <2>1. Span(received[e], b) \in Seq(Nat) /\ Len(Span(received[e], b)) = b - received[e]
    BY <1>3, <1>7, SpanProperties
  <2>2. m = b - received[e]
    BY <1>7, <2>1
  <2> HIDE DEF m
  <2>3. received[e] + m = b
    BY <1>3, <2>2
  <2> QED BY <1>7, <2>1, <2>2, <2>3
<1> HIDE DEF frame, n, r, m
<1>9. queue \in [Ends -> Seq(Frame)] /\ queue[e] = Tail(s) /\ queue[Peer(e)] = wire[Peer(e)]
  BY <1>3, <1>6 DEF s
<1> HIDE DEF queue, rx
<1>10. r \in 0..1 /\ r <= DataIn(s) /\ r <= rxCredits[e] /\ n \in 0..CreditsIn(s)
       /\ CreditsIn(queue[e]) = CreditsIn(s) - n /\ DataIn(queue[e]) = DataIn(s) - r
  <2>1. r \in 0..1
    BY DEF r
  <2>2. DataIn(s) <= rxCredits[e]
    BY FrameCovered DEF s
  <2>3. CreditsIn(queue[e]) = CreditsIn(Tail(s)) /\ DataIn(queue[e]) = DataIn(Tail(s))
    BY <1>9
  <2> QED BY ONLY <1>3, <1>6, <2>1, <2>2, <2>3
<1>11. (txCredits[e] + n) % CounterSize = txCredits[e] + n /\ rx = rxCredits[e] - r
  <2>1. txCredits[e] + CreditsIn(s) < CounterSize
    BY FrameCovered DEF s
  <2>2. txCredits[e] + n \in Nat /\ txCredits[e] + n < CounterSize /\ CounterSize \in Nat
    BY ONLY <1>3, <1>10, <2>1, CounterHolds
  <2>3. (txCredits[e] + n) % CounterSize = txCredits[e] + n
    BY ONLY <2>2, NotCut
  <2>4. rx = rxCredits[e] - r
    BY <1>3, <1>10 DEF rx, r
  <2> QED BY <2>3, <2>4
<1>12. Sending(e, queue, n, r, a, written'[e], paused[e])
  <2>1. ProcessTx(e, Span(a, written'[e]), txCredits[e] + n, rxCredits[e] - r, paused[e], queue)
    BY <1>1, <1>5, <1>11
  <2>2. written'[e] \in Nat /\ a <= written'[e]
    BY <1>1, <1>3, <1>5
  <2> QED BY <1>3, <1>9, <1>10, <2>1, <2>2 DEF Sending, s
<1>13. /\ received' \in [Ends -> Nat] /\ received'[e] = b
       /\ received'[Peer(e)] = received[Peer(e)]
  <2>1. received' = [received EXCEPT ![e] = @ + m]
    BY <1>5
  <2>2. received \in [Ends -> Nat]
    BY <1>4 DEF Typed
  <2> QED BY ONLY e \in Ends, b \in Nat, <1>3, <1>8, <2>1, <2>2
<1>14. inOrder' \in [Ends -> BOOLEAN] /\ \A f \in Ends : inOrder'[f]
  <2>1. frame.bytes = Span(received[e], received[e] + m)
    BY <1>7, <1>8
  <2> QED BY <1>4, <1>5, <2>1 DEF Typed, DlcInv
<1>15. /\ rxPackets' \in [Ends -> Seq(Seq(Nat))]
       /\ \A f \in Ends : Len(rxPackets'[f]) <= Len(rxPackets[f]) + (IF f = e THEN r ELSE 0)
  <2> DEFINE q == rxPackets[e]
             new == IF IsData(frame) THEN Push(q, frame.bytes) ELSE q
  <2>1. rxPackets \in [Ends -> Seq(Seq(Nat))] /\ q \in Seq(Seq(Nat))
    BY <1>4 DEF Typed
  <2>2. Len(q) = RxQueueSize => q # <<>>
    BY <2>1, DlcAssumption
  <2> HIDE DEF q
  <2>3. new \in Seq(Seq(Nat)) /\ Len(new) <= Len(q) + r
    <3>1. CASE IsData(frame)
      <4> DEFINE kept == IF Len(q) = RxQueueSize THEN Tail(q) ELSE q
      <4>1. kept \in Seq(Seq(Nat)) /\ Len(kept) <= Len(q)
        BY <2>1, <2>2
      <4>2. new = Append(kept, frame.bytes) /\ r = 1
        BY <3>1 DEF Push, r
      <4> HIDE DEF kept, new
      <4> QED BY <1>8, <2>1, <4>1, <4>2
    <3>2. CASE ~IsData(frame)
      BY <2>1, <3>2 DEF r
    <3> QED BY <3>1, <3>2
  <2>4. rxPackets' = [rxPackets EXCEPT ![e] = new]
    BY <1>5 DEF q
  <2> HIDE DEF new
  <2>5. rxPackets' \in [Ends -> Seq(Seq(Nat))] /\ rxPackets'[e] = new
        /\ \A f \in Ends : f # e => rxPackets'[f] = rxPackets[f]
    BY <2>1, <2>3, <2>4
  <2>6. \A f \in Ends : Len(rxPackets[f]) \in Nat
    BY ONLY <2>1
  <2> QED BY <2>3, <2>5, <2>6 DEF q
<1>16. NoGap(e, queue, a, d)
  <2>1. paused' \in [Ends -> BOOLEAN] /\ allowance' \in [Ends -> Nat] /\ written' \in [Ends -> Nat]
    BY <1>4, <1>5 DEF Typed
  <2> QED BY <1>1, <1>2, <1>5, <1>7, <1>9, <1>13, <1>14, <1>15, <2>1 DEF NoGap
<1>17. Kept(e, n, r, paused[e])
  BY <1>12, <1>16, SendsKeeps
<1>18. PICK k \in Nat, g \in 0..255 : Moved(e, n, k, r, g) /\ (g = 0 \/ ~paused[e])
  BY <1>17 DEF Kept
<1>19. PauseBoundsBuffering'
  <2>1. Typed' /\ paused' = paused /\ allowance' = allowance
    BY <1>5, <1>17 DEF Kept
  <2> QED BY <1>15, <1>18, <2>1, PauseKept
<1> QED
  BY <1>14, <1>17, <1>18, <1>19 DEF DlcInv, SomeMove, Kept

\* The steps that send and receive nothing.
LEMMA QuietKeeps ==
  ASSUME DlcInv, Fits,
         UNCHANGED <<txBuffer, txCredits, rxCredits, wire, written, received, inOrder>>
  PROVE  /\ CreditsConserved' /\ (\A e \in Ends : inOrder'[e] /\ Continuous(e)')
         /\ SomeMove
<1>1. CreditsConserved'
  BY DEF DlcInv, CreditsConserved, DataFrom
<1>2. \A e \in Ends : inOrder'[e] /\ Continuous(e)'
  BY DEF DlcInv, Continuous
<1>3. "initiator" \in Ends /\ Peer("initiator") \in Ends
  BY DEF Ends, Peer
<1>4. \A e \in Ends : /\ txCredits[e] \in Nat /\ rxCredits[e] \in Nat
                      /\ CreditsIn(wire[e]) \in Nat /\ DataIn(wire[e]) \in Nat
  BY BothEnds
<1>5. Biggest \in Nat
  BY BiggestIs
<1>6. Moved("initiator", 0, 0, 0, 0)
  BY <1>3, <1>4, <1>5 DEF Moved
<1> QED
  BY <1>1, <1>2, <1>3, <1>6 DEF SomeMove

\* `take_rx`, pausing, new receive limits, and steps of others.
LEMMA OthersKeep ==
  ASSUME Fits, DlcInv,
         \/ \E e \in Ends : TakeRx(e) \/ Pause(e) \/ \E l \in Limits : SetReceiveCredits(e, l)
         \/ UNCHANGED vars
  PROVE  DlcInv' /\ SomeMove
<1>1. Typed /\ WindowBounded /\ PauseBoundsBuffering
  BY DEF DlcInv
<1>2. UNCHANGED <<txBuffer, txCredits, rxCredits, wire, written, received, inOrder>>
  BY DEF TakeRx, Pause, SetReceiveCredits, vars
<1>3. /\ CreditsConserved' /\ (\A e \in Ends : inOrder'[e] /\ Continuous(e)')
      /\ SomeMove
  BY <1>2, QuietKeeps
<1> SUFFICES Typed' /\ WindowBounded' /\ PauseBoundsBuffering'
  BY <1>3 DEF DlcInv
<1>4. ASSUME NEW e \in Ends, TakeRx(e)
      PROVE  Typed' /\ WindowBounded' /\ PauseBoundsBuffering'
  <2>1. /\ rxPackets' = [rxPackets EXCEPT ![e] = <<>>]
        /\ UNCHANGED <<limits, paused, allowance>>
    BY <1>4 DEF TakeRx
  <2>2. rxPackets \in [Ends -> Seq(Seq(Nat))] /\ <<>> \in Seq(Seq(Nat))
    BY <1>1 DEF Typed
  <2>3. rxPackets' \in [Ends -> Seq(Seq(Nat))]
        /\ \A f \in Ends : rxPackets'[f] = IF f = e THEN <<>> ELSE rxPackets[f]
    BY <2>1, <2>2
  <2>4. \A f \in Ends : /\ Len(rxPackets[f]) \in Nat /\ Len(rxPackets'[f]) \in Nat
                        /\ Len(rxPackets'[f]) <= Len(rxPackets[f])
    BY ONLY <2>2, <2>3
  <2>5. Typed'
    BY <1>1, <1>2, <2>1, <2>3 DEF Typed
  <2>6. WindowBounded'
    BY <1>1, <1>2, <2>1 DEF WindowBounded, Biggest
  <2>7. \A f \in Ends : rxCredits[f] \in Nat /\ allowance[f] \in Nat
    BY <1>1 DEF Typed
  <2>8. PauseBoundsBuffering'
    BY <1>1, <1>2, <2>1, <2>4, <2>7 DEF PauseBoundsBuffering
  <2> QED BY <2>5, <2>6, <2>8
<1>5. ASSUME NEW e \in Ends, Pause(e)
      PROVE  Typed' /\ WindowBounded' /\ PauseBoundsBuffering'
  <2>1. /\ paused' = [paused EXCEPT ![e] = TRUE]
        /\ allowance' = [allowance EXCEPT ![e] = Len(rxPackets[e]) + rxCredits[e]]
        /\ UNCHANGED <<limits, rxPackets>>
    BY <1>5 DEF Pause
  <2>2. Len(rxPackets[e]) + rxCredits[e] \in Nat
    <3>1. rxPackets \in [Ends -> Seq(Seq(Nat))] /\ rxCredits \in [Ends -> Nat]
      BY <1>1 DEF Typed
    <3> QED BY ONLY e \in Ends, <3>1
  <2>3. Typed'
    BY <1>1, <1>2, <2>1, <2>2 DEF Typed
  <2>4. WindowBounded'
    BY <1>1, <1>2, <2>1 DEF WindowBounded, Biggest
  <2>5. \A f \in Ends : f # e => (paused'[f] <=> paused[f]) /\ allowance'[f] = allowance[f]
    BY <1>1, <2>1 DEF Typed
  <2>6. allowance'[e] = Len(rxPackets[e]) + rxCredits[e]
    BY <1>1, <2>1 DEF Typed
  <2>7. PauseBoundsBuffering'
    BY <1>1, <1>2, <2>1, <2>2, <2>5, <2>6 DEF PauseBoundsBuffering
  <2> QED BY <2>3, <2>4, <2>7
<1>6. ASSUME NEW e \in Ends, NEW l \in Limits, SetReceiveCredits(e, l)
      PROVE  Typed' /\ WindowBounded' /\ PauseBoundsBuffering'
  <2>1. limits' = [limits EXCEPT ![e] = l] /\ UNCHANGED <<paused, rxPackets, allowance>>
    BY <1>6 DEF SetReceiveCredits
  <2>2. l \in (0..255) \X Nat /\ l[2] <= l[1]
    <3>1. l \in (Nat \ {0}) \X Nat /\ l[2] <= l[1] /\ l[1] < 256
      BY DlcAssumption DEF Fits
    <3> QED BY <3>1
  <2>3. l[1] <= Biggest
    BY BiggestIs
  <2>4. limits' \in [Ends -> (0..255) \X Nat]
        /\ \A f \in Ends : limits'[f] = IF f = e THEN l ELSE limits[f]
    BY <1>1, <2>1, <2>2 DEF Typed
  <2>5. Typed'
    BY <1>1, <1>2, <2>1, <2>4 DEF Typed
  <2>6. WindowBounded'
    BY <1>1, <1>2, <2>2, <2>3, <2>4 DEF WindowBounded, Biggest
  <2>7. PauseBoundsBuffering'
    BY <1>1, <1>2, <2>1 DEF PauseBoundsBuffering
  <2> QED BY <2>5, <2>6, <2>7
<1>7. CASE UNCHANGED vars
  <2>1. Typed'
    BY <1>1, <1>7 DEF Typed, vars
  <2>2. WindowBounded'
    BY <1>1, <1>7 DEF WindowBounded, vars, Biggest
  <2>3. PauseBoundsBuffering'
    BY <1>1, <1>7 DEF PauseBoundsBuffering, vars
  <2> QED BY <2>1, <2>2, <2>3
<1> QED
  BY <1>4, <1>5, <1>6, <1>7

\* Every step keeps the invariant and moves credits only as `Moved` says.
LEMMA NextKeeps == Fits /\ DlcInv /\ [Next]_vars => DlcInv' /\ SomeMove
<1> SUFFICES ASSUME Fits, DlcInv, [Next]_vars PROVE DlcInv' /\ SomeMove
  OBVIOUS
<1>1. ASSUME NEW e \in Ends, NEW n \in WriteSizes, Write(e, n)
      PROVE  DlcInv' /\ SomeMove
  <2>1. n \in Nat
    BY DlcAssumption
  <2> QED BY <1>1, <2>1, WriteKeeps
<1>2. ASSUME NEW e \in Ends, OnUih(e)
      PROVE  DlcInv' /\ SomeMove
  BY <1>2, OnUihKeeps
<1>3. ASSUME NEW e \in Ends, Resume(e)
      PROVE  DlcInv' /\ SomeMove
  BY <1>3, ResumeKeeps
<1>4. ASSUME NEW e \in Ends, TakeRx(e) \/ Pause(e) \/ \E l \in Limits : SetReceiveCredits(e, l)
      PROVE  DlcInv' /\ SomeMove
  BY <1>4, OthersKeep
<1>5. CASE UNCHANGED vars
  BY <1>5, OthersKeep
<1> QED
  BY <1>1, <1>2, <1>3, <1>4, <1>5 DEF Next

\* The invariant holds when both ends have opened the data link.
LEMMA InitDlcInv == Fits /\ Init => DlcInv
<1> SUFFICES ASSUME Fits, Init PROVE DlcInv
  OBVIOUS
<1> USE DEF Init
<1>1. \A e \in Ends : /\ Peer(e) \in Ends
                      /\ InitialCredits[e] \in Nat /\ OnTheWire(InitialCredits[e]) \in Nat
  <2>1. \A n, m \in Nat : m # 0 => n % m \in Nat
    OBVIOUS
  <2> QED BY <2>1, DlcAssumption, PeerFacts DEF OnTheWire
<1>2. MaxCredits \in 0..255 /\ MaxCredits \div 2 \in Nat /\ MaxCredits \div 2 <= MaxCredits
  BY DlcAssumption DEF Fits
<1>3. Typed
  <2>1. <<MaxCredits, MaxCredits \div 2>> \in (0..255) \X Nat
    BY <1>2
  <2>2. <<>> \in Seq(Nat) /\ <<>> \in Seq(Frame) /\ <<>> \in Seq(Seq(Nat))
    OBVIOUS
  <2> QED BY <1>1, <2>1, <2>2, DlcAssumption DEF Typed
<1>4. WindowBounded
  BY <1>2, BiggestIs DEF WindowBounded
<1>5. CreditsConserved
  <2> SUFFICES ASSUME NEW e \in Ends
               PROVE  rxCredits[Peer(e)] =
                        (txCredits[e] + CreditsIn(wire[e]) + DataIn(wire[Peer(e)]))
                        + (InitialCredits[Peer(e)] - OnTheWire(InitialCredits[Peer(e)]))
    BY <1>3, Conserved
  <2> DEFINE i == InitialCredits[Peer(e)]
             o == OnTheWire(i)
  <2>1. i \in Nat /\ o \in Nat
    BY <1>1
  <2>2. rxCredits[Peer(e)] = i /\ txCredits[e] = o
    OBVIOUS
  <2>3. CreditsIn(wire[e]) = 0 /\ DataIn(wire[Peer(e)]) = 0
    BY <1>1, CountsFew
  <2> HIDE DEF i, o
  <2>4. rxCredits[Peer(e)] = (txCredits[e] + CreditsIn(wire[e]) + DataIn(wire[Peer(e)])) + (i - o)
    BY ONLY <2>1, <2>2, <2>3
  <2> QED BY <2>4 DEF i, o
<1>6. PauseBoundsBuffering
  BY DEF PauseBoundsBuffering
<1>7. ASSUME NEW e \in Ends PROVE inOrder[e] /\ Continuous(e)
  <2>1. Carries(<<>>, 0, 0)
    BY CarriesFew
  <2>2. Span(0, 0) = <<>>
    BY SpanProperties
  <2> QED BY <1>1, <2>1, <2>2 DEF Continuous
<1> QED
  BY <1>3, <1>4, <1>5, <1>6, <1>7 DEF DlcInv

-----------------------------------------------------------------------------
(* Theorems *)

\* The invariant holds in every reachable state.
LEMMA DlcInvariant ==
  ASSUME Fits
  PROVE  Spec => []DlcInv
<1>1. Init => DlcInv
  BY InitDlcInv
<1>2. DlcInv /\ [Next]_vars => DlcInv'
  BY NextKeeps
<1> QED
  BY <1>1, <1>2, PTL DEF Spec

\* Credits move between the two `Dlc`s and none is lost, for all credits offered in
\* the PN exchange, all receive limits and all frame sizes the fields can carry:
\* what `rx_credits` counts is what the peer's `tx_credits` holds, what is on the
\* way, and what the PN field cut off.
THEOREM CreditsAreConserved ==
  ASSUME Fits
  PROVE  Spec => []CreditsConserved
<1>1. DlcInv => CreditsConserved
  BY DEF DlcInv
<1> QED
  BY <1>1, DlcInvariant, PTL

\* Frames that carry the bytes after a up to b do not go back.
LEMMA CarriesOrdered ==
  ASSUME NEW s \in Seq(Frame), NEW a, NEW b, Carries(s, a, b)
  PROVE  a \in Nat /\ b \in Nat /\ a <= b
<1>1. PICK pos : Cuts(pos, s, a, b)
  BY DEF Carries
<1>2. Len(s) \in Nat
  OBVIOUS
<1>3. /\ pos \in [0..Len(s) -> Nat] /\ pos[0] = a /\ pos[Len(s)] = b
      /\ \A i \in 1..Len(s) : pos[i - 1] <= pos[i] /\ pos[i] <= b
  BY <1>1 DEF Cuts
<1>4. 0 \in 0..Len(s) /\ Len(s) \in 0..Len(s)
  BY <1>2
<1>5. a \in Nat /\ b \in Nat
  BY <1>3, <1>4
<1>6. CASE Len(s) = 0
  BY <1>3, <1>5, <1>6
<1>7. CASE Len(s) # 0
  <2>1. 1 \in 1..Len(s) /\ 1 \in 0..Len(s) /\ 1 - 1 = 0
    BY <1>2, <1>7
  <2>2. a <= pos[1] /\ pos[1] <= b /\ pos[1] \in Nat
    BY <1>3, <2>1
  <2> QED BY <1>5, <2>2
<1> QED
  BY <1>6, <1>7

\* A receiver gets the bytes its peer's `write` was given, in the order they were
\* written, however `process_tx` cuts them into frames and whatever grants ride on
\* them; and while reading is paused it buffers no more than it had granted.
THEOREM ReceiverIsSound ==
  ASSUME Fits
  PROVE  Spec => []ReceiverSound
<1>1. DlcInv => ReceiverSound
  <2> SUFFICES ASSUME DlcInv PROVE ReceiverSound
    OBVIOUS
  <2>1. PauseBoundsBuffering
    BY DEF DlcInv
  <2>2. ASSUME NEW e \in Ends PROVE inOrder[e] /\ received[e] <= written[Peer(e)]
    <3>1. PICK c \in Nat : c <= written[Peer(e)] /\ Carries(wire[e], received[e], c)
      BY BothEnds
    <3>2. wire[e] \in Seq(Frame) /\ Peer(e) \in Ends
      BY BothEnds
    <3>3. received[e] \in Nat /\ received[e] <= c
      BY <3>1, <3>2, CarriesOrdered
    <3>4. written[Peer(e)] \in Nat
      BY <3>2 DEF DlcInv, Typed
    <3>5. received[e] <= written[Peer(e)]
      BY ONLY c \in Nat, <3>1, <3>3, <3>4
    <3> QED BY <3>5 DEF DlcInv
  <2> QED BY <2>1, <2>2 DEF ReceiverSound, InOrder
<1> QED
  BY <1>1, DlcInvariant, PTL

\* Each direction of an open data link implements `CreditFlow`, so a frame with data
\* never reaches a receiver with no credit left (WindowCovers), for all windows.
THEOREM DlcImplementsFlow ==
  ASSUME Fits
  PROVE  Spec => ImplementsFlow
<1> DEFINE i == "initiator"
           o == "responder"
<1>1. i \in Ends /\ o \in Ends /\ Peer(i) = o /\ Peer(o) = i /\ Ends = {i, o}
  BY DEF Ends, Peer
<1>2. Init => ToResponder!Init /\ ToInitiator!Init
  BY <1>1, CountsFew DEF Init, ToResponder!Init, ToInitiator!Init, DataFrom
<1>3. ASSUME DlcInv, SomeMove
      PROVE  /\ [ToResponder!Next]_ToResponder!vars
             /\ [ToInitiator!Next]_ToInitiator!vars
  <2>1. PICK e, n, k, r, g : e \in Ends /\ Moved(e, n, k, r, g)
    BY <1>3 DEF SomeMove
  <2>2. /\ txCredits[e] \in Nat /\ n \in Nat /\ k \in Nat /\ n <= CreditsIn(wire[e])
        /\ k <= txCredits[e] + n /\ (txCredits[e] + n) - k = txCredits[e] + n - k
    <3>1. txCredits[e] \in Nat /\ CreditsIn(wire[e]) \in Nat
      BY <1>3, <2>1, BothEnds
    <3>2. n \in 0..CreditsIn(wire[e]) /\ k \in 0..(txCredits[e] + n)
      BY <2>1 DEF Moved
    <3> QED BY ONLY <3>1, <3>2
  <2>3. CASE e = i
    <3>1. Moved(i, n, k, r, g)
      BY <2>1, <2>3
    <3>2. ToResponder!Sender(n, k) /\ n \in 0..CreditsIn(wire[i]) /\ k \in 0..(txCredits[i] + n)
      BY <1>1, <2>3, <2>2, <3>1 DEF Moved, ToResponder!Sender, DataFrom
    <3>3. ToInitiator!Receiver(r, g) /\ r \in 0..1 /\ g \in 0..Biggest
      BY <1>1, <3>1 DEF Moved, ToInitiator!Receiver, DataFrom
    <3> QED BY <3>2, <3>3 DEF ToResponder!Next, ToInitiator!Next
  <2>4. CASE e = o
    <3>1. Moved(o, n, k, r, g)
      BY <2>1, <2>4
    <3>2. ToInitiator!Sender(n, k) /\ n \in 0..CreditsIn(wire[o]) /\ k \in 0..(txCredits[o] + n)
      BY <1>1, <2>4, <2>2, <3>1 DEF Moved, ToInitiator!Sender, DataFrom
    <3>3. ToResponder!Receiver(r, g) /\ r \in 0..1 /\ g \in 0..Biggest
      BY <1>1, <3>1 DEF Moved, ToResponder!Receiver, DataFrom
    <3> QED BY <3>2, <3>3 DEF ToResponder!Next, ToInitiator!Next
  <2> QED BY <1>1, <2>1, <2>3, <2>4
<1>4. DlcInv /\ [Next]_vars =>
        /\ [ToResponder!Next]_ToResponder!vars
        /\ [ToInitiator!Next]_ToInitiator!vars
  BY <1>3, NextKeeps
<1> QED
  BY <1>2, <1>4, DlcInvariant, PTL DEF Spec, ImplementsFlow, ToResponder!Spec, ToInitiator!Spec
=============================================================================

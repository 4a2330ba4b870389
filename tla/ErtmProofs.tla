----------------------------- MODULE ErtmProofs -----------------------------
(***************************************************************************)
(* Proofs about two ERTM engines over a link that loses frames, for every  *)
(* modulus, every window below it, and any number of SDUs, losses and      *)
(* retransmissions: SDUs arrive whole, once and in order, no engine takes  *)
(* the other for broken, and the window keeps what is needed to recover.   *)
(***************************************************************************)
EXTENDS Ertm, TLAPS

-----------------------------------------------------------------------------
(* Sequence numbers *)

Numbers == 0..(Modulus - 1)

\* A number is a multiple of the modulus and a remainder, in one way.
LEMMA Remainder ==
  ASSUME NEW x \in Nat
  PROVE  /\ x % Modulus \in Numbers /\ x \div Modulus \in Nat
         /\ x = Modulus * (x \div Modulus) + (x % Modulus)
BY ErtmAssumption DEF Numbers

\* A multiple of the modulus leaves the remainder that is added to it.
LEMMA RemainderIs ==
  ASSUME NEW q \in Nat, NEW r \in Numbers
  PROVE  Modulus * q + r \in Nat /\ (Modulus * q + r) % Modulus = r
<1> DEFINE x == Modulus * q + r
           p == x \div Modulus
           s == x % Modulus
<1>1. Modulus \in Nat \ {0, 1} /\ x \in Nat
  BY ErtmAssumption DEF Numbers
<1>2. s \in Numbers /\ p \in Nat /\ x = Modulus * p + s
  <2> HIDE DEF x
  <2> QED BY <1>1, Remainder
<1>3. Modulus * q + r = Modulus * p + s
  BY <1>2 DEF x
<1> HIDE DEF p, s
<1>4. r = s
  BY <1>1, <1>2, <1>3 DEF Numbers
<1> QED
  BY <1>1, <1>4 DEF s

\* Adding to a sequence number adds to what it stands for.
LEMMA AddKept ==
  ASSUME NEW x \in Nat, NEW d \in Nat
  PROVE  SequenceAdd(x % Modulus, d) = (x + d) % Modulus
<1> DEFINE r == x % Modulus
           q == x \div Modulus
           s == (r + d) % Modulus
           p == (r + d) \div Modulus
<1>1. Modulus \in Nat \ {0, 1}
  BY ErtmAssumption
<1>2. r \in Numbers /\ q \in Nat /\ x = Modulus * q + r
  BY Remainder
<1>3. r + d \in Nat
  <2> HIDE DEF r
  <2> QED BY <1>1, <1>2 DEF Numbers
<1>4. s \in Numbers /\ p \in Nat /\ r + d = Modulus * p + s
  <2> HIDE DEF r
  <2> QED BY <1>3, Remainder
<1> HIDE DEF r, q, s, p
<1>5. x + d = Modulus * (q + p) + s
  <2>1. x + d = Modulus * q + (r + d)
    BY <1>1, <1>2 DEF Numbers
  <2>2. Modulus * (q + p) = Modulus * q + Modulus * p
    BY <1>1, <1>2, <1>4
  <2> QED BY <1>1, <1>2, <1>4, <2>1, <2>2 DEF Numbers
<1>6. q + p \in Nat
  BY <1>2, <1>4
<1>7. (x + d) % Modulus = s
  BY <1>4, <1>5, <1>6, RemainderIs
<1> QED
  BY <1>7 DEF SequenceAdd, s, r

\* The distance of two sequence numbers is that of what they stand for, as long
\* as this is below the modulus.
LEMMA DistanceKept ==
  ASSUME NEW a \in Nat, NEW z \in Nat, a <= z, z < a + Modulus
  PROVE  SequenceDistance(a % Modulus, z % Modulus) = z - a
<1> DEFINE r == a % Modulus
           q == a \div Modulus
           s == z % Modulus
           p == z \div Modulus
<1>1. Modulus \in Nat \ {0, 1}
  BY ErtmAssumption
<1>2. r \in Numbers /\ q \in Nat /\ a = Modulus * q + r
  BY Remainder
<1>3. s \in Numbers /\ p \in Nat /\ z = Modulus * p + s
  BY Remainder
<1> HIDE DEF r, q, s, p
<1> DEFINE k == Modulus * p
           l == Modulus * q
<1>4. k = l \/ k = l + Modulus
  <2>1. p = q \/ p = q + 1
    BY <1>1, <1>2, <1>3 DEF Numbers
  <2> QED BY <1>1, <1>2, <2>1
<1>5. k \in Nat /\ l \in Nat /\ a = l + r /\ z = k + s
  BY <1>1, <1>2, <1>3
<1> HIDE DEF k, l
<1>6. CASE k = l
  <2>1. s + Modulus - r = Modulus * 1 + (z - a) /\ z - a \in Numbers
    BY <1>1, <1>2, <1>3, <1>5, <1>6 DEF Numbers
  <2>2. (Modulus * 1 + (z - a)) % Modulus = z - a
    BY <2>1, RemainderIs
  <2> QED BY <2>1, <2>2 DEF SequenceDistance, r, s
<1>7. CASE k = l + Modulus
  <2>1. s + Modulus - r = Modulus * 0 + (z - a) /\ z - a \in Numbers
    BY <1>1, <1>2, <1>3, <1>5, <1>7 DEF Numbers
  <2>2. (Modulus * 0 + (z - a)) % Modulus = z - a
    BY <2>1, RemainderIs
  <2> QED BY <2>1, <2>2 DEF SequenceDistance, r, s
<1> QED
  BY <1>4, <1>6, <1>7

\* Numbers less than a modulus apart have different sequence numbers.
LEMMA NumberKnown ==
  ASSUME NEW x \in Nat, NEW y \in Nat, x % Modulus = y % Modulus,
         x < y + Modulus, y < x + Modulus
  PROVE  x = y
<1> DEFINE r == x % Modulus
           q == x \div Modulus
           p == y \div Modulus
<1>1. Modulus \in Nat \ {0, 1}
  BY ErtmAssumption
<1>2. r \in Numbers /\ q \in Nat /\ x = Modulus * q + r
  BY Remainder
<1>3. p \in Nat /\ y = Modulus * p + r
  BY Remainder
<1> HIDE DEF r, q, p
<1>4. p = q
  BY <1>1, <1>2, <1>3 DEF Numbers
<1> QED
  BY <1>2, <1>3, <1>4

-----------------------------------------------------------------------------
(* Frames under way *)

Sars == {"unsegmented", "start", "continuation", "end"}
Frame == [txSeq : Numbers, sar : Sars, segment : Nat, length : Nat]
Msg == [kind : {"I"}, reqSeq : Numbers, frame : Frame]
         \cup [kind : {"RR", "RNR", "REJ"}, reqSeq : Numbers]

\* The frame carries a segment of these SDUs, marked as its place in them requires.
OfSdus(sdus, f) ==
  /\ f.segment >= 1 /\ f.txSeq = (f.segment - 1) % Modulus
  /\ \E j \in 1..Len(sdus) : \E i \in 1..Len(sdus[j]) :
       /\ sdus[j][i] = f.segment
       /\ f.sar = Sar(i, Len(sdus[j]))
       /\ f.length = IF i = 1 /\ Len(sdus[j]) > 1 THEN Len(sdus[j]) ELSE 0

\* The acknowledgements in q are of between a and t segments, and never go back.
Acks(q, a, t) ==
  \E f \in [1..Len(q) -> Nat] :
    /\ \A i \in 1..Len(q) : a <= f[i] /\ f[i] <= t /\ q[i].reqSeq = f[i] % Modulus
    /\ \A i, j \in 1..Len(q) : i <= j => f[i] <= f[j]

\* The segments in q are among the first `top`.  None is a window or more behind
\* the t segments the receiver has by now, or behind one sent before it.
InFlight(q, sdus, top, t) ==
  /\ \A i \in 1..Len(q) : q[i].kind = "I" =>
       /\ OfSdus(sdus, q[i].frame)
       /\ q[i].frame.segment <= top
       /\ t < q[i].frame.segment + TxWindowSize
  /\ \A i, j \in 1..Len(q) : i < j /\ q[i].kind = "I" /\ q[j].kind = "I" =>
       q[i].frame.segment < q[j].frame.segment + TxWindowSize

\* The same of a frame that has just left q.
Arriving(f, q, sdus, top, t) ==
  /\ OfSdus(sdus, f)
  /\ f.segment <= top
  /\ t < f.segment + TxWindowSize
  /\ \A i \in 1..Len(q) : q[i].kind = "I" => f.segment < q[i].frame.segment + TxWindowSize

\* A frame has the number of a segment.
LEMMA MsgIs ==
  ASSUME NEW q \in Seq(Msg), NEW i \in 1..Len(q)
  PROVE  /\ q[i] \in Msg /\ q[i].reqSeq \in Numbers
         /\ q[i].kind = "I" => q[i].frame \in Frame /\ q[i].frame.segment \in Nat
<1>1. q[i] \in Msg
  BY ElementOfSeq
<1> QED
  BY <1>1 DEF Msg, Frame

\* An end that acknowledges all it has taken in acknowledges no less than before.
LEMMA AcksMore ==
  ASSUME NEW q \in Seq(Msg), NEW x \in Seq(Msg), NEW a \in Nat, NEW t \in Nat,
         NEW u \in Nat, t <= u, a <= u, Acks(q, a, t),
         \A i \in 1..Len(x) : x[i].reqSeq = u % Modulus
  PROVE  Acks(q \o x, a, u)
<1>1. PICK f \in [1..Len(q) -> Nat] :
        /\ \A i \in 1..Len(q) : a <= f[i] /\ f[i] <= t /\ q[i].reqSeq = f[i] % Modulus
        /\ \A i, j \in 1..Len(q) : i <= j => f[i] <= f[j]
  BY DEF Acks
<1> DEFINE m == Len(q)
           n == Len(x)
           r == q \o x
           g == [i \in 1..(m + n) |-> IF i <= m THEN f[i] ELSE u]
<1>2. m \in Nat /\ n \in Nat /\ Len(r) = m + n
      /\ \A i \in 1..(m + n) : r[i] = IF i <= m THEN q[i] ELSE x[i - m]
  BY ConcatProperties
<1> HIDE DEF m, n, r
<1>3. \A i \in 1..(m + n) : i <= m \/ i - m \in 1..n
  BY <1>2
<1>4. \A i \in 1..(m + n) : i <= m => i \in 1..m
  BY <1>2
<1>5. g \in [1..(m + n) -> Nat]
  BY <1>1, <1>4 DEF m
<1>6. \A i \in 1..(m + n) : a <= g[i] /\ g[i] <= u /\ r[i].reqSeq = g[i] % Modulus
  <2> TAKE i \in 1..(m + n)
  <2>1. CASE i <= m
    <3>1. i \in 1..m /\ g[i] = f[i] /\ r[i] = q[i]
      BY <1>2, <1>4, <2>1
    <3>2. f[i] \in Nat /\ a <= f[i] /\ f[i] <= t /\ q[i].reqSeq = f[i] % Modulus
      BY <1>1, <3>1 DEF m
    <3> QED BY <3>1, <3>2
  <2>2. CASE ~(i <= m)
    <3>1. i - m \in 1..n /\ g[i] = u /\ r[i] = x[i - m]
      BY <1>2, <1>3, <2>2
    <3>2. x[i - m].reqSeq = u % Modulus
      BY <3>1 DEF n
    <3> QED BY <3>1, <3>2
  <2> QED BY <2>1, <2>2
<1>7. \A i, j \in 1..(m + n) : i <= j => g[i] <= g[j]
  <2> TAKE i \in 1..(m + n), j \in 1..(m + n)
  <2> HAVE i <= j
  <2>1. CASE j <= m
    <3>1. i \in 1..m /\ j \in 1..m
      BY <1>2, <2>1
    <3> QED BY <1>1, <3>1 DEF m
  <2>2. CASE ~(j <= m)
    BY <1>5, <1>6, <2>2
  <2> QED BY <2>1, <2>2
<1> HIDE DEF g
<1>8. Acks(r, a, u)
  BY <1>2, <1>5, <1>6, <1>7 DEF Acks
<1> QED
  BY <1>8 DEF r

\* The next acknowledgement, and those after it.
LEMMA AcksTail ==
  ASSUME NEW q \in Seq(Msg), q # <<>>, NEW a \in Nat, NEW t \in Nat, Acks(q, a, t)
  PROVE  /\ \E z \in Nat : /\ a <= z /\ z <= t /\ Head(q).reqSeq = z % Modulus
                           /\ Acks(Tail(q), z, t)
         /\ Acks(Tail(q), a, t)
<1>1. PICK f \in [1..Len(q) -> Nat] :
        /\ \A i \in 1..Len(q) : a <= f[i] /\ f[i] <= t /\ q[i].reqSeq = f[i] % Modulus
        /\ \A i, j \in 1..Len(q) : i <= j => f[i] <= f[j]
  BY DEF Acks
<1> DEFINE m == Len(q)
           r == Tail(q)
           g == [i \in 1..(m - 1) |-> f[i + 1]]
<1>2. /\ m \in Nat /\ m >= 1 /\ Len(r) = m - 1 /\ Head(q) = q[1]
      /\ \A i \in 1..(m - 1) : r[i] = q[i + 1]
  BY EmptySeq, HeadTailProperties
<1> HIDE DEF r
<1>3. \A i \in 1..(m - 1) : i + 1 \in 1..m /\ g[i] = f[i + 1]
  BY <1>2
<1>4. g \in [1..(m - 1) -> Nat] /\ 1 \in 1..m
  BY <1>1, <1>2, <1>3
<1>5. \A i \in 1..(m - 1) : /\ a <= g[i] /\ f[1] <= g[i] /\ g[i] <= t
                            /\ r[i].reqSeq = g[i] % Modulus
  <2> TAKE i \in 1..(m - 1)
  <2>1. i + 1 \in 1..m /\ 1 \in 1..m /\ 1 <= i + 1 /\ g[i] = f[i + 1] /\ r[i] = q[i + 1]
    BY <1>2, <1>3
  <2> HIDE DEF g
  <2> QED BY <1>1, <2>1
<1>6. \A i, j \in 1..(m - 1) : i <= j => g[i] <= g[j]
  <2> TAKE i \in 1..(m - 1), j \in 1..(m - 1)
  <2> HAVE i <= j
  <2>1. i + 1 \in 1..m /\ j + 1 \in 1..m /\ i + 1 <= j + 1
    BY <1>2
  <2> QED BY <1>1, <1>3, <2>1
<1> HIDE DEF g
<1>7. Acks(r, f[1], t) /\ Acks(r, a, t)
  BY <1>2, <1>4, <1>5, <1>6 DEF Acks
<1>8. f[1] \in Nat /\ a <= f[1] /\ f[1] <= t /\ q[1].reqSeq = f[1] % Modulus
  BY <1>1, <1>4
<1> QED
  BY <1>2, <1>7, <1>8 DEF r

\* Frames of the window may be sent at any time, again or for the first time: all of
\* them are within a window of each other and of what the receiver has.
LEMMA InFlightMore ==
  ASSUME NEW q \in Seq(Msg), NEW x \in Seq(Msg), NEW sdus, NEW top \in Nat, NEW up \in Nat,
         NEW t \in Nat, NEW a \in Nat, top <= up, t <= top, up <= a + TxWindowSize,
         InFlight(q, sdus, top, t),
         \A i \in 1..Len(x) : x[i].kind = "I" =>
           /\ OfSdus(sdus, x[i].frame) /\ a < x[i].frame.segment
           /\ x[i].frame.segment <= up
  PROVE  InFlight(q \o x, sdus, up, t)
<1> DEFINE m == Len(q)
           n == Len(x)
           r == q \o x
<1>1. m \in Nat /\ n \in Nat /\ Len(r) = m + n /\ r \in Seq(Msg)
      /\ \A i \in 1..(m + n) : r[i] = IF i <= m THEN q[i] ELSE x[i - m]
  BY ConcatProperties
<1>2. TxWindowSize \in Nat
  BY ErtmAssumption
<1> DEFINE Sound(i) == /\ OfSdus(sdus, r[i].frame) /\ r[i].frame.segment <= up
                       /\ t < r[i].frame.segment + TxWindowSize
                       /\ r[i].frame.segment \in Nat
                       /\ i <= m \/ a < r[i].frame.segment
<1>3. ASSUME NEW i \in 1..(m + n), r[i].kind = "I" PROVE Sound(i)
  <2>1. r[i].frame.segment \in Nat
    <3> HIDE DEF r
    <3> QED BY <1>1, <1>3, MsgIs
  <2>2. CASE i <= m
    <3>1. i \in 1..m /\ r[i] = q[i]
      BY <1>1, <2>2
    <3>2. /\ OfSdus(sdus, r[i].frame) /\ r[i].frame.segment <= top
          /\ t < r[i].frame.segment + TxWindowSize
      <4> HIDE DEF r
      <4> QED BY <1>3, <3>1 DEF InFlight
    <3> HIDE DEF r
    <3> QED BY <2>1, <2>2, <3>2
  <2>3. CASE ~(i <= m)
    <3>1. i - m \in 1..n /\ r[i] = x[i - m]
      BY <1>1, <2>3
    <3>2. OfSdus(sdus, r[i].frame) /\ a < r[i].frame.segment /\ r[i].frame.segment <= up
      <4> HIDE DEF r
      <4> QED BY <1>3, <3>1
    <3> HIDE DEF r
    <3> QED BY <1>2, <2>1, <3>2
  <2> QED BY <2>2, <2>3
<1>4. ASSUME NEW i \in 1..(m + n), NEW j \in 1..(m + n), i < j, r[i].kind = "I", r[j].kind = "I"
      PROVE  r[i].frame.segment < r[j].frame.segment + TxWindowSize
  <2>1. Sound(i) /\ Sound(j)
    BY <1>3, <1>4
  <2>2. CASE j <= m
    <3>1. i \in 1..m /\ j \in 1..m /\ r[i] = q[i] /\ r[j] = q[j]
      BY <1>1, <1>4, <2>2
    <3> HIDE DEF r
    <3> QED BY <1>4, <3>1 DEF InFlight
  <2>3. CASE ~(j <= m)
    <3>1. /\ r[i].frame.segment \in Nat /\ r[i].frame.segment <= up
          /\ r[j].frame.segment \in Nat /\ a < r[j].frame.segment
      BY <2>1, <2>3
    <3> DEFINE v == r[i].frame.segment
               w == r[j].frame.segment
    <3>2. v \in Nat /\ v <= up /\ w \in Nat /\ a < w
      BY <3>1
    <3> HIDE DEF v, w
    <3>3. v < w + TxWindowSize
      BY <1>2, <3>2
    <3> QED BY <3>3 DEF v, w
  <2> QED BY <2>2, <2>3
<1>5. InFlight(r, sdus, up, t)
  <2> HIDE DEF r
  <2> QED BY <1>1, <1>3, <1>4 DEF InFlight
<1> QED
  BY <1>5

\* The next frame, and those after it.
LEMMA InFlightTail ==
  ASSUME NEW q \in Seq(Msg), q # <<>>, NEW sdus, NEW top, NEW t, InFlight(q, sdus, top, t)
  PROVE  /\ InFlight(Tail(q), sdus, top, t)
         /\ Head(q).kind = "I" => Arriving(Head(q).frame, Tail(q), sdus, top, t)
<1> DEFINE m == Len(q)
           r == Tail(q)
<1>1. /\ m \in Nat /\ m >= 1 /\ Len(r) = m - 1 /\ Head(q) = q[1]
      /\ \A i \in 1..(m - 1) : r[i] = q[i + 1]
  BY EmptySeq, HeadTailProperties
<1> HIDE DEF r
<1>2. 1 \in 1..m /\ \A i \in 1..(m - 1) : i + 1 \in 1..m /\ 1 < i + 1
  BY <1>1
<1>3. InFlight(r, sdus, top, t)
  <2>1. ASSUME NEW i \in 1..(m - 1), r[i].kind = "I"
        PROVE  /\ OfSdus(sdus, r[i].frame) /\ r[i].frame.segment <= top
               /\ t < r[i].frame.segment + TxWindowSize
    BY <1>1, <1>2, <2>1 DEF InFlight
  <2>2. ASSUME NEW i \in 1..(m - 1), NEW j \in 1..(m - 1), i < j,
               r[i].kind = "I", r[j].kind = "I"
        PROVE  r[i].frame.segment < r[j].frame.segment + TxWindowSize
    <3>1. i + 1 \in 1..m /\ j + 1 \in 1..m /\ i + 1 < j + 1 /\ r[i] = q[i + 1] /\ r[j] = q[j + 1]
      BY <1>1, <1>2, <2>2
    <3> QED BY <2>2, <3>1 DEF InFlight
  <2> QED BY <1>1, <2>1, <2>2 DEF InFlight
<1>4. ASSUME q[1].kind = "I" PROVE Arriving(q[1].frame, r, sdus, top, t)
  <2>1. ASSUME NEW i \in 1..(m - 1), r[i].kind = "I"
        PROVE  q[1].frame.segment < r[i].frame.segment + TxWindowSize
    <3>1. 1 \in 1..m /\ i + 1 \in 1..m /\ 1 < i + 1 /\ r[i] = q[i + 1]
      BY <1>1, <1>2
    <3> QED BY <1>4, <2>1, <3>1 DEF InFlight
  <2>2. /\ OfSdus(sdus, q[1].frame) /\ q[1].frame.segment <= top
        /\ t < q[1].frame.segment + TxWindowSize
    BY <1>2, <1>4 DEF InFlight
  <2> QED BY <1>1, <2>1, <2>2 DEF Arriving
<1> QED
  BY <1>1, <1>3, <1>4 DEF r

\* A receiver that takes the frame in is no further ahead of the others than the
\* frame was.
LEMMA InFlightTaken ==
  ASSUME NEW q, NEW f, NEW sdus, NEW top, NEW t, InFlight(q, sdus, top, t),
         Arriving(f, q, sdus, top, t), f.segment = t + 1
  PROVE  InFlight(q, sdus, top, t + 1)
BY DEF InFlight, Arriving

\* The frame a receiver of t segments expects is the one after them: its number could
\* only be confused with that of a segment a modulus away.
LEMMA ExpectedIs ==
  ASSUME NEW f \in Frame, NEW q, NEW sdus, NEW top \in Nat, NEW t \in Nat,
         Arriving(f, q, sdus, top, t), top <= t + TxWindowSize, f.txSeq = t % Modulus
  PROVE  f.segment = t + 1
<1> DEFINE k == f.segment
<1>1. k \in Nat /\ k >= 1 /\ k <= top /\ t < k + TxWindowSize /\ f.txSeq = (k - 1) % Modulus
  BY DEF Frame, Arriving, OfSdus
<1>2. Modulus \in Nat /\ TxWindowSize \in Nat /\ TxWindowSize < Modulus
  BY ErtmAssumption
<1> HIDE DEF k
<1>3. k - 1 \in Nat /\ k - 1 < t + Modulus /\ t < (k - 1) + Modulus
  BY <1>1, <1>2
<1>4. (k - 1) % Modulus = t % Modulus
  BY <1>1
<1>5. k - 1 = t
  BY <1>3, <1>4, NumberKnown
<1> QED
  BY <1>1, <1>5 DEF k

-----------------------------------------------------------------------------
(* SDUs and their segments *)

Lens(sdus) == [j \in 1..Len(sdus) |-> Len(sdus[j])]

\* The segments are numbered through the SDUs: SDU j has those after b[j - 1], up
\* to b[j].
Bounds(b, sdus) ==
  /\ sdus \in Seq(Seq(Nat))
  /\ PartialSums(b, Lens(sdus))
  /\ \A j \in 1..Len(sdus) : b[j - 1] < b[j] /\ sdus[j] = Span(b[j - 1], b[j])

\* Bounds are numbers that grow, and the last is the number of segments.
LEMMA BoundsGrow ==
  ASSUME NEW b, NEW sdus, Bounds(b, sdus)
  PROVE  /\ Len(sdus) \in Nat /\ b \in [0..Len(sdus) -> Nat] /\ b[0] = 0
         /\ \A j \in 1..Len(sdus) : Len(sdus[j]) = b[j] - b[j - 1]
         /\ Segments(sdus) = b[Len(sdus)] /\ Segments(sdus) \in Nat
         /\ \A j, k \in 0..Len(sdus) : j <= k => b[j] <= b[k]
<1> DEFINE m == Len(sdus)
<1>1. m \in Nat /\ \A j \in 1..m : sdus[j] \in Seq(Nat)
  BY ElementOfSeq DEF Bounds
<1>2. Lens(sdus) \in Seq(Nat) /\ Len(Lens(sdus)) = m
      /\ \A j \in 1..m : Lens(sdus)[j] = Len(sdus[j])
  <2>1. \A j \in 1..m : Len(sdus[j]) \in Nat
    BY <1>1
  <2> QED BY <1>1, <2>1 DEF Lens
<1>3. /\ b \in [0..m -> Nat] /\ b[0] = 0
      /\ \A j \in 1..m : b[j] = b[j - 1] + Len(sdus[j])
  BY <1>2 DEF Bounds, PartialSums
<1>4. Segments(sdus) = b[m] /\ Segments(sdus) \in Nat
  <2>1. Total(Lens(sdus)) = b[Len(Lens(sdus))] /\ Total(Lens(sdus)) \in Nat
    BY <1>2, TotalIs DEF Bounds
  <2> QED BY <1>2, <2>1 DEF Segments, Lens
<1>5. \A j \in 1..m : Len(sdus[j]) = b[j] - b[j - 1]
  <2> TAKE j \in 1..m
  <2>1. j \in 0..m /\ j - 1 \in 0..m
    BY <1>1
  <2> DEFINE x == Len(sdus[j])
  <2>2. x \in Nat /\ b[j] = b[j - 1] + x
    BY <1>1, <1>3
  <2> HIDE DEF x, m
  <2>3. b[j] \in Nat /\ b[j - 1] \in Nat
    BY <1>3, <2>1
  <2>4. x = b[j] - b[j - 1]
    BY <2>2, <2>3
  <2> QED BY <2>4 DEF x
<1>6. \A j, k \in 0..m : j <= k => b[j] <= b[k]
  <2> DEFINE S == {d \in Nat : \A j \in 0..m : j + d <= m => b[j] <= b[j + d]}
  <2> HIDE DEF m
  <2>1. 0 \in S
    <3>1. \A j \in 0..m : j + 0 = j /\ b[j] \in Nat
      BY <1>1, <1>3
    <3>2. \A j \in 0..m : b[j] <= b[j + 0]
      BY <3>1
    <3> QED BY <3>2
  <2>2. ASSUME NEW d \in Nat, d \in S PROVE d + 1 \in S
    <3> SUFFICES ASSUME NEW j \in 0..m, j + (d + 1) <= m PROVE b[j] <= b[j + (d + 1)]
      OBVIOUS
    <3>1. j + d \in 0..m /\ j + d + 1 \in 1..m /\ (j + d + 1) - 1 = j + d /\ j + d <= m
          /\ j + (d + 1) = j + d + 1
      BY <1>1
    <3>2. b[j] <= b[j + d]
      BY <2>2, <3>1
    <3>3. b[j + d] < b[j + d + 1]
      BY <3>1 DEF Bounds, m
    <3>4. b[j] \in Nat /\ b[j + d] \in Nat /\ b[j + d + 1] \in Nat
      <4>1. j + d + 1 \in 0..m
        BY <3>1
      <4> QED BY <1>3, <3>1, <4>1
    <3> QED BY <3>1, <3>2, <3>3, <3>4
  <2>3. Nat \subseteq S
    <3> HIDE DEF S
    <3> QED BY <2>1, <2>2, SetInduction
  <2> TAKE j \in 0..m, k \in 0..m
  <2> HAVE j <= k
  <2>4. k - j \in Nat /\ j + (k - j) = k /\ j + (k - j) <= m
    BY <1>1
  <2>5. b[j] <= b[j + (k - j)]
    BY <2>3, <2>4
  <2> QED BY <2>4, <2>5
<1> QED
  BY <1>1, <1>3, <1>4, <1>5, <1>6

\* A new SDU has the segments that follow.
LEMMA BoundsAppend ==
  ASSUME NEW b, NEW sdus, Bounds(b, sdus), NEW n \in Nat \ {0}
  PROVE  LET s == Segments(sdus)
             more == Append(sdus, Span(s, s + n))
         IN /\ Bounds([k \in 0..(Len(sdus) + 1) |-> IF k <= Len(sdus) THEN b[k] ELSE s + n], more)
            /\ Segments(more) = s + n
<1> DEFINE m == Len(sdus)
           s == Segments(sdus)
           u == Span(s, s + n)
           more == Append(sdus, u)
           c == [k \in 0..(m + 1) |-> IF k <= m THEN b[k] ELSE s + n]
<1>1. /\ m \in Nat /\ b \in [0..m -> Nat] /\ b[0] = 0 /\ s \in Nat /\ s = b[m]
      /\ \A j \in 1..m : Len(sdus[j]) = b[j] - b[j - 1]
  BY BoundsGrow
<1>2. sdus \in Seq(Seq(Nat)) /\ \A j \in 1..m : b[j - 1] < b[j] /\ sdus[j] = Span(b[j - 1], b[j])
  BY DEF Bounds
<1> HIDE DEF s
<1>3. u \in Seq(Nat) /\ Len(u) = n /\ s < s + n /\ s + n \in Nat
  <2>1. s \in Nat /\ s + n \in Nat /\ s <= s + n /\ (s + n) - s = n /\ s < s + n
    BY <1>1
  <2>2. u \in Seq(Nat) /\ Len(u) = (s + n) - s
    BY <2>1, SpanProperties
  <2> HIDE DEF u
  <2> QED BY <2>1, <2>2
<1>4. /\ more \in Seq(Seq(Nat)) /\ Len(more) = m + 1
      /\ \A j \in 1..(m + 1) : more[j] = IF j = m + 1 THEN u ELSE sdus[j]
  <2> HIDE DEF u
  <2>1. /\ more \in Seq(Seq(Nat)) /\ Len(more) = m + 1
        /\ more[m + 1] = u /\ \A j \in 1..m : more[j] = sdus[j]
    BY <1>2, <1>3, AppendProperties
  <2>2. \A j \in 1..(m + 1) : j # m + 1 => j \in 1..m
    BY <1>1
  <2> HIDE DEF more
  <2> QED BY <2>1, <2>2
<1>5. /\ c \in [0..(m + 1) -> Nat] /\ c[0] = 0 /\ c[m + 1] = s + n
      /\ \A k \in 0..m : c[k] = b[k]
  <2>1. /\ 0 \in 0..(m + 1) /\ m + 1 \in 0..(m + 1) /\ ~(m + 1 <= m) /\ 0 <= m
        /\ \A k \in 0..m : k \in 0..(m + 1) /\ k <= m
        /\ \A k \in 0..(m + 1) : k <= m => k \in 0..m
    BY <1>1
  <2> QED BY <1>1, <1>3, <2>1
<1> HIDE DEF c, u, more
<1>6. ASSUME NEW j \in 1..(m + 1)
      PROVE  /\ c[j - 1] < c[j] /\ more[j] = Span(c[j - 1], c[j])
             /\ c[j] = c[j - 1] + Len(more[j])
  <2>1. CASE j = m + 1
    <3>1. j - 1 = m /\ m \in 0..m
      BY <1>1, <2>1
    <3>2. c[j - 1] = s /\ c[j] = s + n /\ more[j] = u
      BY <1>1, <1>4, <1>5, <2>1, <3>1
    <3> QED BY <1>3, <3>2 DEF u
  <2>2. CASE j # m + 1
    <3>1. j \in 1..m /\ j \in 0..m /\ j - 1 \in 0..m
      BY <1>1, <2>2
    <3>2. c[j - 1] = b[j - 1] /\ c[j] = b[j] /\ more[j] = sdus[j]
      BY <1>4, <1>5, <2>2, <3>1
    <3>3. b[j] \in Nat /\ b[j - 1] \in Nat /\ Len(sdus[j]) = b[j] - b[j - 1]
      BY <1>1, <3>1
    <3>4. b[j] = b[j - 1] + Len(sdus[j])
      BY <3>3
    <3> QED BY <1>2, <3>1, <3>2, <3>4
  <2> QED BY <2>1, <2>2
<1>7. PartialSums(c, Lens(more))
  <2>1. Len(Lens(more)) = m + 1 /\ \A j \in 1..(m + 1) : Lens(more)[j] = Len(more[j])
    BY <1>1, <1>4 DEF Lens
  <2> HIDE DEF Lens
  <2> QED BY <1>5, <1>6, <2>1 DEF PartialSums
<1>8. Bounds(c, more)
  BY <1>4, <1>6, <1>7 DEF Bounds
<1>9. Segments(more) = s + n
  BY <1>4, <1>5, <1>8, BoundsGrow
<1> QED
  BY <1>8, <1>9 DEF c, more, u, s

\* Segment t is in SDU k + 1 or ends SDU k.
UpTo(b, sdus, t, k) ==
  /\ t \in Nat /\ k \in 0..Len(sdus)
  /\ b[k] <= t /\ (k < Len(sdus) => t < b[k + 1])

\* Where segment t + 1 is, then.
LEMMA WhereNext ==
  ASSUME NEW b, NEW sdus, Bounds(b, sdus), NEW t, NEW k, UpTo(b, sdus, t, k),
         NEW j \in 1..Len(sdus), NEW i \in 1..Len(sdus[j]), sdus[j][i] = t + 1
  PROVE  k < Len(sdus) /\ j = k + 1 /\ i = (t + 1) - b[k] /\ Len(sdus[j]) = b[k + 1] - b[k]
<1> DEFINE m == Len(sdus)
<1> USE DEF UpTo
<1>1. /\ m \in Nat /\ b \in [0..m -> Nat]
      /\ \A x \in 1..m : Len(sdus[x]) = b[x] - b[x - 1]
      /\ \A x, y \in 0..m : x <= y => b[x] <= b[y]
  BY BoundsGrow
<1>2. /\ j \in 0..m /\ j - 1 \in 0..m /\ b[j] \in Nat /\ b[j - 1] \in Nat /\ b[k] \in Nat
  <2>1. j \in 0..m /\ j - 1 \in 0..m /\ k \in 0..m
    BY <1>1
  <2> HIDE DEF m
  <2> QED BY <1>1, <2>1
<1>3. sdus[j] = Span(b[j - 1], b[j]) /\ b[j - 1] < b[j] /\ Len(sdus[j]) = b[j] - b[j - 1]
  BY <1>1 DEF Bounds
<1>4. i \in 1..(b[j] - b[j - 1])
  BY <1>3
<1>5. t + 1 = b[j - 1] + i
  <2>1. Span(b[j - 1], b[j])[i] = b[j - 1] + i
    BY <1>4 DEF Span
  <2> QED BY <1>3, <2>1
<1>6. b[j - 1] <= t /\ t < b[j] /\ i = (t + 1) - b[j - 1]
  <2> DEFINE x == b[j - 1]
             y == b[j]
  <2>1. x \in Nat /\ y \in Nat /\ i \in 1..(y - x) /\ t + 1 = x + i /\ t \in Nat
    BY <1>2, <1>4, <1>5
  <2> HIDE DEF x, y
  <2>2. x <= t /\ t < y /\ i = (t + 1) - x
    BY <2>1
  <2> QED BY <2>2 DEF x, y
<1>7. ~(j <= k)
  <2> SUFFICES ASSUME j <= k PROVE FALSE
    OBVIOUS
  <2>1. b[j] <= b[k]
    BY <1>1, <1>2
  <2> QED BY <1>2, <1>6, <2>1
<1>8. ~(k + 1 <= j - 1)
  <2> SUFFICES ASSUME k + 1 <= j - 1 PROVE FALSE
    OBVIOUS
  <2>1. k < m /\ k + 1 \in 0..m
    BY <1>1, <1>2
  <2>2. b[k + 1] <= b[j - 1] /\ b[k + 1] \in Nat
    BY <1>1, <1>2, <2>1
  <2>3. t < b[k + 1]
    BY <2>1
  <2> QED BY <1>2, <1>6, <2>2, <2>3
<1>9. j = k + 1 /\ j - 1 = k /\ k < m
  BY <1>1, <1>7, <1>8
<1> QED
  BY <1>3, <1>6, <1>9

\* The SDUs a receiver has made of the first t segments, and the part of the next.
Held(r, sdus, b, t) ==
  LET k == Len(r.received) IN
  /\ k <= Len(sdus)
  /\ \A j \in 1..k : r.received[j] = sdus[j]
  /\ t = b[k] + Len(r.inputSdu)
  /\ IF r.inputSdu = <<>> THEN r.inputSduLength = 0
     ELSE /\ k < Len(sdus) /\ t < b[k + 1]
          /\ r.inputSdu = Span(b[k], t)
          /\ r.inputSduLength = b[k + 1] - b[k]

\* The fields of an engine.
Engine ==
  [maxRetransmissions : Nat, pending : Seq(Frame),
   txWindow : Seq([frame : Frame, transmissions : Nat]), outbound : Seq(Msg),
   received : Seq(Seq(Nat)), nextTxSeq : Numbers, lastAckedTxSeq : Numbers,
   expectedTxSeq : Numbers, lastAckedRxSeq : Numbers, remoteBusy : BOOLEAN,
   localBusy : BOOLEAN, inputSdu : Seq(Nat), inputSduLength : Nat, failed : BOOLEAN]

\* The first SDUs and the next.
LEMMA OneMore ==
  ASSUME NEW g \in Seq(Seq(Nat)), NEW x \in Seq(Nat), NEW sdus,
         \A j \in 1..Len(g) : g[j] = sdus[j], x = sdus[Len(g) + 1]
  PROVE  /\ Len(Append(g, x)) = Len(g) + 1
         /\ \A j \in 1..(Len(g) + 1) : Append(g, x)[j] = sdus[j]
<1> DEFINE k == Len(g)
           h == Append(g, x)
<1>1. k \in Nat /\ Len(h) = k + 1 /\ h[k + 1] = x /\ \A j \in 1..k : h[j] = g[j]
  BY AppendProperties
<1>2. \A j \in 1..(k + 1) : j \in 1..k \/ j = k + 1
  BY <1>1
<1> HIDE DEF h
<1> QED
  BY <1>1, <1>2 DEF h

\* A receiver that holds t segments accepts the next one, and then holds t + 1.
LEMMA AcceptKeeps ==
  ASSUME NEW s \in Engine, NEW sdus, NEW b, Bounds(b, sdus), NEW t \in Nat, Held(s, sdus, b, t),
         NEW f \in Frame, OfSdus(sdus, f), f.segment = t + 1
  PROVE  Acceptable(s, f) /\ Held(AcceptInformation(s, f), sdus, b, t + 1)
<1> DEFINE k == Len(s.received)
           m == Len(sdus)
           n == b[k + 1] - b[k]
           r == AcceptInformation(s, f)
<1>1. /\ m \in Nat /\ b \in [0..m -> Nat] /\ \A j \in 1..m : b[j - 1] < b[j]
  BY BoundsGrow DEF Bounds
<1>2. s.received \in Seq(Seq(Nat)) /\ k \in Nat /\ s.inputSdu \in Seq(Nat)
      /\ Len(s.inputSdu) \in Nat /\ s.inputSduLength \in Nat
  BY DEF Engine
<1>3. k <= m /\ t = b[k] + Len(s.inputSdu) /\ \A j \in 1..k : s.received[j] = sdus[j]
  BY DEF Held
<1>4. k \in 0..m /\ b[k] \in Nat
  BY <1>1, <1>2, <1>3
<1>5. b[k] <= t /\ (k < m => t < b[k + 1])
  <2>1. b[k] <= t
    BY <1>2, <1>3, <1>4
  <2>2. CASE s.inputSdu = <<>>
    <3>1. t = b[k]
      BY <1>3, <1>4, <2>2
    <3>2. k < m => k + 1 \in 1..m /\ (k + 1) - 1 = k
      BY <1>1, <1>4
    <3> QED BY <1>1, <2>1, <3>1, <3>2
  <2>3. CASE s.inputSdu # <<>>
    BY <2>1, <2>3 DEF Held
  <2> QED BY <2>2, <2>3
<1>6. PICK j \in 1..m : \E i \in 1..Len(sdus[j]) :
         /\ sdus[j][i] = t + 1 /\ f.sar = Sar(i, Len(sdus[j]))
         /\ f.length = IF i = 1 /\ Len(sdus[j]) > 1 THEN Len(sdus[j]) ELSE 0
  BY DEF OfSdus
<1>7. PICK i \in 1..Len(sdus[j]) :
         /\ sdus[j][i] = t + 1 /\ f.sar = Sar(i, Len(sdus[j]))
         /\ f.length = IF i = 1 /\ Len(sdus[j]) > 1 THEN Len(sdus[j]) ELSE 0
  BY <1>6
<1>8. k < m /\ j = k + 1 /\ i = (t + 1) - b[k] /\ Len(sdus[j]) = n
  <2>1. UpTo(b, sdus, t, k)
    BY <1>4, <1>5 DEF UpTo
  <2> QED BY <1>7, <2>1, WhereNext
<1>9. /\ k + 1 \in 1..m /\ k + 1 \in 0..m /\ b[k + 1] \in Nat /\ n \in Nat /\ i \in 1..n
      /\ i = Len(s.inputSdu) + 1 /\ b[k + 1] = b[k] + n
      /\ f.sar = Sar(i, n) /\ f.length = IF i = 1 /\ n > 1 THEN n ELSE 0
      /\ sdus[k + 1] = Span(b[k], b[k + 1])
  <2>1. k + 1 \in 1..m /\ k + 1 \in 0..m
    BY <1>1, <1>4, <1>8
  <2>2. b[k + 1] \in Nat
    BY <1>1, <2>1
  <2>3. i \in 1..n /\ f.sar = Sar(i, n) /\ f.length = IF i = 1 /\ n > 1 THEN n ELSE 0
    BY <1>7, <1>8
  <2>4. i = Len(s.inputSdu) + 1
    <3> DEFINE x == b[k]
               y == Len(s.inputSdu)
    <3>1. x \in Nat /\ y \in Nat /\ t = x + y /\ i = (t + 1) - x
      BY <1>2, <1>3, <1>4, <1>8
    <3> HIDE DEF x, y
    <3>2. i = y + 1
      BY <3>1
    <3> QED BY <3>2 DEF y
  <2>5. n \in Nat /\ b[k + 1] = b[k] + n
    BY <1>4, <2>2, <2>3
  <2>6. (k + 1) - 1 = k
    BY <1>2
  <2>7. sdus[k + 1] = Span(b[(k + 1) - 1], b[k + 1])
    <3> HIDE DEF k
    <3> QED BY <2>1 DEF Bounds
  <2> QED BY <2>1, <2>2, <2>3, <2>4, <2>5, <2>6, <2>7
<1>10. f.segment = t + 1 /\ f.segment \in Nat
  BY DEF Frame
<1> DEFINE u == s.inputSdu
<1>11. CASE u = <<>>
  <2>1. t = b[k] /\ i = 1 /\ s.inputSduLength = 0 /\ Len(u) = 0
    BY <1>3, <1>4, <1>9, <1>11 DEF Held
  <2>2. Span(b[k], t + 1) = <<t + 1>>
    <3>1. (t + 1) - t = 1
      OBVIOUS
    <3> QED BY <2>1, <3>1 DEF Span
  <2>3. CASE n = 1
    <3>1. f.sar = "unsegmented"
      BY <1>9, <2>1, <2>3 DEF Sar
    <3>2. Acceptable(s, f)
      BY <1>11, <2>1, <3>1 DEF Acceptable, Assembling
    <3>3. r = [s EXCEPT !.received = Append(@, <<f.segment>>)]
      BY <3>1 DEF AcceptInformation
    <3>4. /\ r.received = Append(s.received, <<t + 1>>) /\ r.inputSdu = u
          /\ r.inputSduLength = 0
      BY <1>10, <2>1, <3>3 DEF Engine
    <3>5. <<t + 1>> = sdus[k + 1] /\ b[k + 1] = t + 1
      BY <1>9, <2>1, <2>2, <2>3
    <3>6. Len(r.received) = k + 1 /\ \A x \in 1..(k + 1) : r.received[x] = sdus[x]
      <4>1. <<t + 1>> \in Seq(Nat)
        OBVIOUS
      <4> DEFINE g == s.received
                 x == <<t + 1>>
      <4>2. /\ g \in Seq(Seq(Nat)) /\ x \in Seq(Nat) /\ (\A y \in 1..Len(g) : g[y] = sdus[y])
            /\ x = sdus[Len(g) + 1]
        BY <1>2, <1>3, <3>5, <4>1
      <4>3. r.received = Append(g, x) /\ k = Len(g)
        BY <3>4
      <4> HIDE DEF r, g, x, k
      <4> QED BY <4>2, <4>3, OneMore
    <3> HIDE DEF r
    <3>7. t + 1 = b[k + 1] + Len(r.inputSdu) /\ k + 1 <= m
      BY <1>8, <1>9, <2>1, <3>4, <3>5
    <3>8. Held(r, sdus, b, t + 1)
      BY <1>11, <3>4, <3>6, <3>7 DEF Held
    <3> QED BY <3>2, <3>8 DEF r
  <2>4. CASE n # 1
    <3>1. n > 1 /\ f.length = n
      BY <1>9, <2>1, <2>4
    <3>2. f.sar = "start"
      BY <1>9, <2>1, <3>1 DEF Sar
    <3>3. Acceptable(s, f)
      BY <1>11, <2>1, <3>1, <3>2 DEF Acceptable, Assembling
    <3>4. r = [s EXCEPT !.inputSdu = <<f.segment>>, !.inputSduLength = f.length]
      BY <3>2 DEF AcceptInformation
    <3>5. r.received = s.received /\ r.inputSdu = <<t + 1>> /\ r.inputSduLength = n
      BY <1>10, <3>1, <3>4 DEF Engine
    <3>6. t + 1 < b[k + 1] /\ t + 1 = b[k] + 1 /\ Len(<<t + 1>>) = 1 /\ <<t + 1>> # <<>>
      BY <1>9, <2>1, <3>1
    <3> HIDE DEF r
    <3>7. Held(r, sdus, b, t + 1)
      BY <1>3, <1>8, <2>2, <3>5, <3>6 DEF Held
    <3> QED BY <3>3, <3>7 DEF r
  <2> QED BY <2>3, <2>4
<1>12. CASE u # <<>>
  <2>1. /\ t < b[k + 1] /\ u = Span(b[k], t) /\ s.inputSduLength = n
    BY <1>12 DEF Held
  <2>2. Len(u) \in Nat \ {0} /\ i > 1 /\ n > 1
    BY <1>2, <1>9, <1>12, EmptySeq
  <2>3. Append(u, t + 1) = Span(b[k], t + 1)
    <3>1. Span(b[k], t) \o Span(t, t + 1) = Span(b[k], t + 1)
      <4>1. t + 1 \in Nat /\ t <= t + 1
        OBVIOUS
      <4> QED BY <1>4, <1>5, <4>1, SpanConcat
    <3>2. Span(t, t + 1) = <<t + 1>>
      <4>1. (t + 1) - t = 1
        OBVIOUS
      <4> QED BY <4>1 DEF Span
    <3>3. u \o <<t + 1>> = Append(u, t + 1)
      BY <1>2, AppendIsConcat
    <3> QED BY <2>1, <3>1, <3>2, <3>3
  <2>4. CASE i = n
    <3>1. f.sar = "end"
      BY <1>9, <2>2, <2>4 DEF Sar
    <3>2. Acceptable(s, f)
      <4> DEFINE x == s.inputSduLength
                 y == Len(s.inputSdu)
      <4>1. x # 0 /\ y + 1 = x
        BY <1>9, <2>1, <2>2, <2>4
      <4> HIDE DEF x, y
      <4> QED BY <3>1, <4>1 DEF Acceptable, x, y
    <3>3. r = [s EXCEPT !.received = Append(@, Append(s.inputSdu, f.segment)),
                        !.inputSdu = <<>>, !.inputSduLength = 0]
      BY <3>1 DEF AcceptInformation
    <3>4. /\ r.received = Append(s.received, Append(u, t + 1)) /\ r.inputSdu = <<>>
          /\ r.inputSduLength = 0
      BY <1>10, <3>3 DEF Engine
    <3>5. b[k + 1] = t + 1 /\ Append(u, t + 1) = sdus[k + 1]
      <4>1. b[k + 1] = t + 1
        BY <1>3, <1>4, <1>9, <2>2, <2>4
      <4> QED BY <1>9, <2>3, <4>1
    <3>6. Len(r.received) = k + 1 /\ \A x \in 1..(k + 1) : r.received[x] = sdus[x]
      <4>1. Append(u, t + 1) \in Seq(Nat)
        BY <1>2, AppendProperties
      <4> DEFINE g == s.received
                 x == Append(u, t + 1)
      <4>2. /\ g \in Seq(Seq(Nat)) /\ x \in Seq(Nat) /\ (\A y \in 1..Len(g) : g[y] = sdus[y])
            /\ x = sdus[Len(g) + 1]
        BY <1>2, <1>3, <3>5, <4>1
      <4>3. r.received = Append(g, x) /\ k = Len(g)
        BY <3>4
      <4> HIDE DEF r, g, x, k
      <4> QED BY <4>2, <4>3, OneMore
    <3> HIDE DEF r
    <3>7. t + 1 = b[k + 1] + Len(r.inputSdu) /\ k + 1 <= m
      BY <1>8, <1>9, <3>4, <3>5
    <3>8. Held(r, sdus, b, t + 1)
      BY <3>4, <3>6, <3>7 DEF Held
    <3> QED BY <3>2, <3>8 DEF r
  <2>5. CASE i # n
    <3>1. i < n
      BY <1>9, <2>5
    <3>2. f.sar = "continuation"
      BY <1>9, <2>2, <3>1 DEF Sar
    <3>3. Acceptable(s, f)
      <4> DEFINE x == s.inputSduLength
                 y == Len(s.inputSdu)
      <4>1. x # 0 /\ y + 1 < x
        BY <1>9, <2>1, <2>2, <3>1
      <4> HIDE DEF x, y
      <4> QED BY <3>2, <4>1 DEF Acceptable, x, y
    <3>4. r = [s EXCEPT !.inputSdu = Append(@, f.segment)]
      BY <3>2 DEF AcceptInformation
    <3>5. /\ r.received = s.received /\ r.inputSdu = Append(u, t + 1) /\ r.inputSduLength = n
      BY <1>10, <2>1, <3>4 DEF Engine
    <3>6. /\ Append(u, t + 1) # <<>> /\ Len(Append(u, t + 1)) = Len(u) + 1
      <4>1. u \in Seq(Nat) /\ t + 1 \in Nat
        BY <1>2
      <4> HIDE DEF u
      <4> QED BY <4>1, AppendProperties
    <3>7. t + 1 < b[k + 1] /\ t + 1 = b[k] + (Len(u) + 1)
      <4> DEFINE x == b[k]
                 y == b[k + 1]
                 z == Len(u)
      <4>1. x \in Nat /\ y \in Nat /\ z \in Nat /\ t = x + z /\ i = z + 1 /\ i < y - x
        BY <1>2, <1>3, <1>4, <1>9, <3>1
      <4> HIDE DEF x, y, z
      <4>2. t + 1 < y /\ t + 1 = x + (z + 1)
        BY <4>1
      <4> QED BY <4>2 DEF x, y, z
    <3> HIDE DEF r
    <3>8. Held(r, sdus, b, t + 1)
      BY <1>3, <1>8, <2>3, <3>5, <3>6, <3>7 DEF Held
    <3> QED BY <3>3, <3>8 DEF r
  <2> QED BY <2>4, <2>5
<1> QED
  BY <1>11, <1>12

-----------------------------------------------------------------------------
(* The invariant of one direction *)

\* The frame carries segment k.
Carries(f, sdus, k) == OfSdus(sdus, f) /\ f.segment = k

\* A sender with a segments acknowledged has the others in its window and waiting.
Sends(s, sdus, a) ==
  /\ (a + Len(s.txWindow)) + Len(s.pending) = Segments(sdus)
  /\ s.lastAckedTxSeq = a % Modulus
  /\ s.nextTxSeq = Segments(sdus) % Modulus
  /\ Len(s.txWindow) <= TxWindowSize
  /\ \A i \in 1..Len(s.txWindow) : Carries(s.txWindow[i].frame, sdus, a + i)
  /\ \A i \in 1..Len(s.pending) : Carries(s.pending[i], sdus, (a + Len(s.txWindow)) + i)

\* A receiver has taken t segments in.
Takes(r, sdus, t) ==
  /\ r.expectedTxSeq = t % Modulus
  /\ \E b : Bounds(b, sdus) /\ Held(r, sdus, b, t)

\* From sender s to receiver r: a segments acknowledged, t taken in, and what is
\* under way in both directions.
Between(s, r, sdus, a, t) ==
  /\ Sends(s, sdus, a) /\ Takes(r, sdus, t)
  /\ a <= t /\ t <= a + Len(s.txWindow)
  /\ InFlight(s.outbound, sdus, a + Len(s.txWindow), t)
  /\ Acks(r.outbound, a, t)

Direction(s, r, sdus) == \E a \in Nat, t \in Nat : Between(s, r, sdus, a, t)

\* Both directions, as seen by the engine s of one end.
Pair(s, p, mine, theirs) == Direction(s, p, mine) /\ Direction(p, s, theirs)

\* "Zero means unlimited".
Limited(s) ==
  /\ s.maxRetransmissions = 0 => ~s.failed
  /\ s.maxRetransmissions # 0 =>
       \A i \in 1..Len(s.txWindow) : s.txWindow[i].transmissions <= s.maxRetransmissions + 1

\* What an engine is as a sender, and as a receiver.
SenderSame(s, u) ==
  /\ u.pending = s.pending /\ u.txWindow = s.txWindow
  /\ u.nextTxSeq = s.nextTxSeq /\ u.lastAckedTxSeq = s.lastAckedTxSeq
ReceiverSame(s, u) ==
  /\ u.received = s.received /\ u.expectedTxSeq = s.expectedTxSeq
  /\ u.inputSdu = s.inputSdu /\ u.inputSduLength = s.inputSduLength

\* The engine sends frames of its window and acknowledges what it has.
Emits(s, u, sdus, a) ==
  /\ u \in Engine /\ ReceiverSame(s, u)
  /\ Sends(u, sdus, a) /\ Len(s.txWindow) <= Len(u.txWindow)
  /\ \E x \in Seq(Msg) :
       /\ u.outbound = s.outbound \o x
       /\ \A i \in 1..Len(x) :
            /\ x[i].reqSeq = s.expectedTxSeq
            /\ x[i].kind = "I" => /\ OfSdus(sdus, x[i].frame) /\ a < x[i].frame.segment
                                  /\ x[i].frame.segment <= a + Len(u.txWindow)

\* The lengths and queues of an engine.
LEMMA EngineIs ==
  ASSUME NEW s \in Engine
  PROVE  /\ s.txWindow \in Seq([frame : Frame, transmissions : Nat]) /\ Len(s.txWindow) \in Nat
         /\ s.pending \in Seq(Frame) /\ Len(s.pending) \in Nat
         /\ s.outbound \in Seq(Msg) /\ s.expectedTxSeq \in Numbers
         /\ s.received \in Seq(Seq(Nat)) /\ s.inputSdu \in Seq(Nat)
         /\ DOMAIN s.txWindow = 1..Len(s.txWindow)
         /\ \A i \in 1..Len(s.txWindow) :
              /\ s.txWindow[i] \in [frame : Frame, transmissions : Nat]
              /\ s.txWindow[i].frame \in Frame /\ s.txWindow[i].transmissions \in Nat
<1>1. /\ s.txWindow \in Seq([frame : Frame, transmissions : Nat])
      /\ s.pending \in Seq(Frame) /\ s.outbound \in Seq(Msg) /\ s.expectedTxSeq \in Numbers
      /\ s.received \in Seq(Seq(Nat)) /\ s.inputSdu \in Seq(Nat)
  BY DEF Engine
<1>2. Len(s.txWindow) \in Nat /\ Len(s.pending) \in Nat
  BY <1>1
<1> DEFINE q == s.txWindow
           W == [frame : Frame, transmissions : Nat]
<1>3. q \in Seq(W)
  BY <1>1
<1> HIDE DEF q, W
<1>4. DOMAIN q = 1..Len(q) /\ \A i \in 1..Len(q) : q[i] \in W
  BY <1>3
<1> USE DEF W
<1>5. \A i \in 1..Len(q) : q[i].frame \in Frame /\ q[i].transmissions \in Nat
  BY <1>4
<1> QED
  BY <1>1, <1>2, <1>4, <1>5 DEF q

\* An engine that differs in nothing a receiver is takes as much.
LEMMA TakesSame ==
  ASSUME NEW s, NEW u, NEW sdus, NEW t, ReceiverSame(s, u), Takes(s, sdus, t)
  PROVE  Takes(u, sdus, t)
BY DEF ReceiverSame, Takes, Held

\* An engine that differs in nothing a sender is sends as much.
LEMMA SendsSame ==
  ASSUME NEW s, NEW u, NEW sdus, NEW a, SenderSame(s, u), Sends(s, sdus, a)
  PROVE  Sends(u, sdus, a)
BY DEF SenderSame, Sends

\* What an engine sends keeps both directions.
LEMMA EmitsKeeps ==
  ASSUME NEW s \in Engine, NEW p \in Engine, NEW mine, NEW theirs, NEW u,
         Pair(s, p, mine, theirs),
         \A a \in Nat : Sends(s, mine, a) => Emits(s, u, mine, a)
  PROVE  Pair(u, p, mine, theirs)
<1>1. PICK a \in Nat, t \in Nat : Between(s, p, mine, a, t)
  BY DEF Pair, Direction
<1>2. PICK c \in Nat, d \in Nat : Between(p, s, theirs, c, d)
  BY DEF Pair, Direction
<1>3. Emits(s, u, mine, a)
  BY <1>1 DEF Between
<1>4. PICK x \in Seq(Msg) :
         /\ u.outbound = s.outbound \o x
         /\ \A i \in 1..Len(x) :
              /\ x[i].reqSeq = s.expectedTxSeq
              /\ x[i].kind = "I" => /\ OfSdus(mine, x[i].frame) /\ a < x[i].frame.segment
                                    /\ x[i].frame.segment <= a + Len(u.txWindow)
  BY <1>3 DEF Emits
<1>5. u \in Engine /\ ReceiverSame(s, u) /\ Sends(u, mine, a)
      /\ Len(s.txWindow) <= Len(u.txWindow)
  BY <1>3 DEF Emits
<1>6. s.outbound \in Seq(Msg) /\ Len(s.txWindow) \in Nat /\ Len(u.txWindow) \in Nat
      /\ p.outbound \in Seq(Msg)
  BY <1>5, EngineIs
<1>7. Between(u, p, mine, a, t)
  <2> DEFINE top == a + Len(s.txWindow)
             up == a + Len(u.txWindow)
  <2>1. /\ Takes(p, mine, t) /\ a <= t /\ t <= top /\ InFlight(s.outbound, mine, top, t)
        /\ Acks(p.outbound, a, t)
    BY <1>1 DEF Between
  <2>2. Len(u.txWindow) <= TxWindowSize /\ TxWindowSize \in Nat
    BY <1>5, ErtmAssumption DEF Sends
  <2>3. top \in Nat /\ up \in Nat /\ top <= up /\ up <= a + TxWindowSize
    BY <1>5, <1>6, <2>2
  <2>4. \A i \in 1..Len(x) : x[i].kind = "I" =>
          OfSdus(mine, x[i].frame) /\ a < x[i].frame.segment /\ x[i].frame.segment <= up
    BY <1>4
  <2> HIDE DEF top, up
  <2>5. InFlight(u.outbound, mine, up, t)
    BY <1>4, <1>6, <2>1, <2>3, <2>4, InFlightMore
  <2>6. t <= up
    BY <2>1, <2>3
  <2> QED BY <1>5, <2>1, <2>5, <2>6 DEF Between, up
<1>8. Between(p, u, theirs, c, d)
  <2>1. /\ Sends(p, theirs, c) /\ Takes(s, theirs, d) /\ c <= d /\ d <= c + Len(p.txWindow)
        /\ InFlight(p.outbound, theirs, c + Len(p.txWindow), d)
        /\ Acks(s.outbound, c, d)
    BY <1>2 DEF Between
  <2>2. \A i \in 1..Len(x) : x[i].reqSeq = d % Modulus
    BY <1>4, <2>1 DEF Takes
  <2>3. d <= d
    OBVIOUS
  <2>4. Acks(u.outbound, c, d)
    BY <1>4, <1>6, <2>1, <2>2, <2>3, AcksMore
  <2>5. Takes(u, theirs, d)
    BY <1>5, <2>1, TakesSame
  <2> QED BY <2>1, <2>4, <2>5 DEF Between
<1> QED
  BY <1>7, <1>8 DEF Pair, Direction

-----------------------------------------------------------------------------
(* What the methods of an engine send *)

\* What a method leaves of the engine when it sends and forgets nothing.
Kept(u, p, mine, theirs) ==
  /\ u \in Engine /\ Pair(u, p, mine, theirs) /\ Limited(u)

\* A message of either kind.
LEMMA MessagesAre ==
  ASSUME NEW r \in Numbers
  PROVE  /\ \A fn \in {"RR", "RNR", "REJ"} :
              /\ Supervisory(fn, r) \in Msg /\ Supervisory(fn, r).reqSeq = r
              /\ Supervisory(fn, r).kind # "I"
         /\ \A f \in Frame :
              /\ Information(f, r) \in Msg /\ Information(f, r).reqSeq = r
              /\ Information(f, r).kind = "I" /\ Information(f, r).frame = f
BY DEF Supervisory, Information, Msg

\* `send_supervisory` acknowledges, and changes nothing else that matters.
LEMMA SupervisoryKeeps ==
  ASSUME NEW s \in Engine, NEW p \in Engine, NEW mine, NEW theirs,
         Pair(s, p, mine, theirs), Limited(s), NEW fn \in {"RR", "RNR", "REJ"}
  PROVE  /\ Kept(SendSupervisory(s, fn), p, mine, theirs)
         /\ SendSupervisory(s, fn).failed = s.failed
<1> DEFINE m == Supervisory(fn, s.expectedTxSeq)
           x == <<m>>
           u == SendSupervisory(s, fn)
<1>1. s.outbound \in Seq(Msg) /\ s.expectedTxSeq \in Numbers
  BY EngineIs
<1>2. m \in Msg /\ m.reqSeq = s.expectedTxSeq /\ m.kind # "I"
  BY <1>1, MessagesAre
<1>3. u = [s EXCEPT !.outbound = Append(@, m), !.lastAckedRxSeq = s.expectedTxSeq]
  BY DEF SendSupervisory
<1> HIDE DEF m
<1>4. x \in Seq(Msg) /\ Len(x) = 1 /\ x[1] = m /\ Append(s.outbound, m) = s.outbound \o x
      /\ Append(s.outbound, m) \in Seq(Msg)
  BY <1>1, <1>2, AppendIsConcat, AppendProperties
<1>5. /\ u \in Engine /\ u.outbound = s.outbound \o x /\ u.pending = s.pending
      /\ u.txWindow = s.txWindow /\ u.nextTxSeq = s.nextTxSeq
      /\ u.lastAckedTxSeq = s.lastAckedTxSeq /\ u.received = s.received
      /\ u.expectedTxSeq = s.expectedTxSeq /\ u.inputSdu = s.inputSdu
      /\ u.inputSduLength = s.inputSduLength /\ u.failed = s.failed
      /\ u.maxRetransmissions = s.maxRetransmissions
  <2> HIDE DEF x
  <2> QED BY <1>1, <1>3, <1>4 DEF Engine
<1> HIDE DEF u
<1>6. ASSUME NEW a \in Nat, Sends(s, mine, a) PROVE Emits(s, u, mine, a)
  <2>1. Sends(u, mine, a) /\ ReceiverSame(s, u)
    BY <1>5, <1>6, SendsSame DEF SenderSame, ReceiverSame
  <2>2. Len(s.txWindow) <= Len(u.txWindow)
    BY <1>5, EngineIs
  <2>3. \A i \in 1..Len(x) : x[i].reqSeq = s.expectedTxSeq /\ x[i].kind # "I"
    BY <1>2, <1>4
  <2> HIDE DEF x
  <2> QED BY <1>4, <1>5, <2>1, <2>2, <2>3 DEF Emits
<1>7. Pair(u, p, mine, theirs)
  BY <1>6, EmitsKeeps
<1>8. Limited(u)
  BY <1>5 DEF Limited
<1> QED
  BY <1>5, <1>7, <1>8 DEF Kept, u

\* `process_output` sends what the window has room for.
LEMMA ProcessOutputKeeps ==
  ASSUME NEW s \in Engine, NEW p \in Engine, NEW mine, NEW theirs,
         Pair(s, p, mine, theirs), Limited(s)
  PROVE  /\ Kept(ProcessOutput(s), p, mine, theirs)
         /\ ProcessOutput(s).failed = s.failed
<1> DEFINE n == Least(Room(s), Len(s.pending))
           out == SubSeq(s.pending, 1, n)
           rest == SubSeq(s.pending, n + 1, Len(s.pending))
           fresh == [i \in 1..n |-> [frame |-> out[i], transmissions |-> 1]]
           x == [i \in 1..n |-> Information(out[i], s.expectedTxSeq)]
           u == ProcessOutput(s)
           W == [frame : Frame, transmissions : Nat]
<1>1. /\ s.txWindow \in Seq(W) /\ Len(s.txWindow) \in Nat /\ s.pending \in Seq(Frame)
      /\ Len(s.pending) \in Nat /\ s.outbound \in Seq(Msg) /\ s.expectedTxSeq \in Numbers
  BY EngineIs
<1>2. CASE s.remoteBusy \/ n <= 0
  <2>1. u = s
    BY <1>2 DEF ProcessOutput
  <2> QED BY <2>1 DEF Kept
<1>3. CASE ~(s.remoteBusy \/ n <= 0)
  <2>1. /\ n \in Nat /\ 1 <= n /\ n <= Len(s.pending) /\ n <= TxWindowSize - Len(s.txWindow)
        /\ TxWindowSize \in Nat
    <3>1. TxWindowSize \in Nat /\ Room(s) = TxWindowSize - Len(s.txWindow)
      BY ErtmAssumption DEF Room
    <3>2. Room(s) \in Int
      BY <1>1, <3>1
    <3>3. (n = Room(s) \/ n = Len(s.pending)) /\ n <= Room(s) /\ n <= Len(s.pending)
      BY <1>1, <3>2 DEF Least
    <3> HIDE DEF n
    <3> QED BY <1>1, <1>3, <3>1, <3>2, <3>3
  <2>2. u = [s EXCEPT !.pending = rest, !.txWindow = @ \o fresh, !.outbound = @ \o x,
                      !.lastAckedRxSeq = s.expectedTxSeq]
    BY <1>3 DEF ProcessOutput
  <2> HIDE DEF n
  <2>3. \A i \in 1..Len(s.pending) : s.pending[i] \in Frame
    BY <1>1, ElementOfSeq
  <2>4. /\ out \in Seq(Frame) /\ Len(out) = n /\ \A i \in 1..n : out[i] = s.pending[i]
    <3>1. \A i \in 1..n : s.pending[i] \in Frame
      BY <1>1, <2>1, <2>3
    <3>2. /\ out \in Seq(Frame) /\ Len(out) = IF 1 <= n THEN n - 1 + 1 ELSE 0
          /\ \A i \in 1..(n - 1 + 1) : out[i] = s.pending[1 + i - 1]
      BY <1>1, <2>1, <3>1, SubSeqProperties
    <3> HIDE DEF out
    <3>3. n - 1 + 1 = n /\ \A i \in 1..n : 1 + i - 1 = i
      BY <2>1
    <3> QED BY <2>1, <3>2, <3>3
  <2>5. /\ rest \in Seq(Frame) /\ Len(rest) = Len(s.pending) - n
        /\ \A i \in 1..(Len(s.pending) - n) : rest[i] = s.pending[n + i]
    <3> DEFINE l == Len(s.pending)
    <3>1. \A i \in (n + 1)..l : s.pending[i] \in Frame
      BY <1>1, <2>1, <2>3
    <3>2. /\ rest \in Seq(Frame) /\ Len(rest) = IF n + 1 <= l THEN l - (n + 1) + 1 ELSE 0
          /\ \A i \in 1..(l - (n + 1) + 1) : rest[i] = s.pending[(n + 1) + i - 1]
      BY <1>1, <2>1, <3>1, SubSeqProperties
    <3>3. l - (n + 1) + 1 = l - n /\ \A i \in 1..(l - n) : (n + 1) + i - 1 = n + i
      BY <1>1, <2>1
    <3>4. (IF n + 1 <= l THEN l - (n + 1) + 1 ELSE 0) = l - n
      BY <1>1, <2>1
    <3> HIDE DEF rest, l
    <3>5. \A i \in 1..(l - n) : rest[i] = s.pending[n + i]
      BY <3>2, <3>3
    <3> QED BY <3>2, <3>4, <3>5 DEF l
  <2> HIDE DEF out, rest
  <2>6. \A i \in 1..n : out[i] \in Frame /\ i \in 1..Len(s.pending)
    BY <1>1, <2>1, <2>3, <2>4
  <2>7. fresh \in Seq(W) /\ Len(fresh) = n
        /\ \A i \in 1..n : fresh[i].frame = out[i] /\ fresh[i].transmissions = 1
    BY <2>1, <2>6
  <2>8. x \in Seq(Msg) /\ Len(x) = n
        /\ \A i \in 1..n : x[i].reqSeq = s.expectedTxSeq /\ x[i].kind = "I" /\ x[i].frame = out[i]
    <3>1. \A i \in 1..n : /\ x[i] \in Msg /\ x[i].reqSeq = s.expectedTxSeq
                          /\ x[i].kind = "I" /\ x[i].frame = out[i]
      BY <1>1, <2>6, MessagesAre
    <3>2. x = [i \in 1..n |-> x[i]]
      OBVIOUS
    <3> HIDE DEF x
    <3> QED BY <2>1, <3>1, <3>2
  <2> HIDE DEF fresh, x
  <2> DEFINE w == s.txWindow \o fresh
             l == Len(s.txWindow)
  <2>9. /\ w \in Seq(W) /\ Len(w) = l + n
        /\ \A i \in 1..(l + n) : w[i] = IF i <= l THEN s.txWindow[i] ELSE fresh[i - l]
    BY <1>1, <2>7, ConcatProperties
  <2>10. s.outbound \o x \in Seq(Msg)
    BY <1>1, <2>8
  <2>11. /\ u \in Engine /\ u.outbound = s.outbound \o x /\ u.pending = rest
         /\ u.txWindow = w /\ u.nextTxSeq = s.nextTxSeq
         /\ u.lastAckedTxSeq = s.lastAckedTxSeq /\ u.received = s.received
         /\ u.expectedTxSeq = s.expectedTxSeq /\ u.inputSdu = s.inputSdu
         /\ u.inputSduLength = s.inputSduLength /\ u.failed = s.failed
         /\ u.maxRetransmissions = s.maxRetransmissions
    BY <1>1, <2>2, <2>5, <2>9, <2>10 DEF Engine
  <2> DEFINE o == Len(s.pending)
  <2>12. l \in Nat /\ o \in Nat /\ n \in Nat /\ 1 <= n /\ n <= o /\ n <= TxWindowSize - l
        /\ TxWindowSize \in Nat
    BY <1>1, <2>1
  <2>13. /\ rest \in Seq(Frame) /\ Len(rest) = o - n
        /\ \A i \in 1..(o - n) : rest[i] = s.pending[n + i]
    BY <2>5
  <2>14. \A i \in 1..n : i \in 1..o
    BY <2>12
  <2> HIDE DEF u, w, l, o
  <2>15. ASSUME NEW a \in Nat, Sends(s, mine, a) PROVE Emits(s, u, mine, a)
    <3>1. /\ (a + l) + o = Segments(mine)
          /\ \A i \in 1..l : Carries(s.txWindow[i].frame, mine, a + i)
          /\ \A i \in 1..o : Carries(s.pending[i], mine, (a + l) + i)
      BY <2>15 DEF Sends, l, o
    <3>2. \A i \in 1..n : Carries(out[i], mine, (a + l) + i)
      BY <2>4, <2>14, <3>1
    <3>3. ASSUME NEW i \in 1..(l + n) PROVE Carries(w[i].frame, mine, a + i)
      <4>1. CASE i <= l
        <5>1. i \in 1..l /\ w[i] = s.txWindow[i]
          BY <2>12, <2>9, <4>1
        <5> QED BY <3>1, <5>1
      <4>2. CASE ~(i <= l)
        <5>1. i - l \in 1..n /\ w[i] = fresh[i - l] /\ (a + l) + (i - l) = a + i
          BY <2>12, <2>9, <4>2
        <5>2. w[i].frame = out[i - l]
          BY <2>7, <5>1
        <5>3. Carries(out[i - l], mine, (a + l) + (i - l))
          BY <3>2, <5>1
        <5> QED BY <5>1, <5>2, <5>3
      <4> QED BY <4>1, <4>2
    <3>4. ASSUME NEW i \in 1..(o - n)
          PROVE  Carries(rest[i], mine, (a + (l + n)) + i)
      <4>1. n + i \in 1..o /\ (a + l) + (n + i) = (a + (l + n)) + i
        BY <2>12
      <4>2. Carries(s.pending[n + i], mine, (a + l) + (n + i))
        BY <3>1, <4>1
      <4> QED BY <2>13, <4>1, <4>2
    <3>5. (a + (l + n)) + (o - n) = Segments(mine) /\ l + n <= TxWindowSize
          /\ l <= l + n
      BY <2>12, <3>1
    <3>6. Sends(u, mine, a)
      <4>1. s.lastAckedTxSeq = a % Modulus /\ s.nextTxSeq = Segments(mine) % Modulus
        BY <2>15 DEF Sends
      <4> QED BY <2>13, <2>9, <2>11, <3>3, <3>4, <3>5, <4>1 DEF Sends, l, o
    <3>7. ASSUME NEW i \in 1..n
          PROVE  /\ x[i].reqSeq = s.expectedTxSeq
                 /\ OfSdus(mine, x[i].frame) /\ a < x[i].frame.segment
                 /\ x[i].frame.segment <= a + Len(w)
      <4>1. OfSdus(mine, out[i]) /\ out[i].segment = (a + l) + i
        BY <3>2 DEF Carries
      <4>2. a < (a + l) + i /\ (a + l) + i <= a + (l + n)
        BY <2>12
      <4> QED BY <2>8, <2>9, <4>1, <4>2
    <3>8. ReceiverSame(s, u)
      BY <2>11 DEF ReceiverSame
    <3> QED BY <2>8, <2>9, <2>11, <3>5, <3>6, <3>7, <3>8 DEF Emits, l
  <2>16. Pair(u, p, mine, theirs)
    BY <2>15, EmitsKeeps
  <2>17. Limited(u)
    <3>1. ASSUME s.maxRetransmissions # 0, NEW i \in 1..(l + n)
          PROVE  w[i].transmissions <= s.maxRetransmissions + 1
      <4>1. s.maxRetransmissions \in Nat
        BY DEF Engine
      <4>2. CASE i <= l
        <5>1. i \in 1..l /\ w[i] = s.txWindow[i]
          BY <2>12, <2>9, <4>2
        <5> QED BY <3>1, <5>1 DEF Limited, l
      <4>3. CASE ~(i <= l)
        <5>1. i - l \in 1..n /\ w[i] = fresh[i - l]
          BY <2>12, <2>9, <4>3
        <5>2. w[i].transmissions = 1
          BY <2>7, <5>1
        <5> QED BY <4>1, <5>2
      <4> QED BY <4>2, <4>3
    <3> QED BY <2>9, <2>11, <3>1 DEF Limited
  <2> QED BY <2>11, <2>16, <2>17 DEF Kept, u
<1> QED
  BY <1>2, <1>3

\* A change to other fields of an engine keeps both directions.
LEMMA SameKeeps ==
  ASSUME NEW s \in Engine, NEW p \in Engine, NEW mine, NEW theirs, NEW u \in Engine,
         Pair(s, p, mine, theirs), SenderSame(s, u), ReceiverSame(s, u),
         u.outbound = s.outbound
  PROVE  Pair(u, p, mine, theirs)
<1>1. PICK a \in Nat, t \in Nat : Between(s, p, mine, a, t)
  BY DEF Pair, Direction
<1>2. PICK c \in Nat, d \in Nat : Between(p, s, theirs, c, d)
  BY DEF Pair, Direction
<1>3. Sends(u, mine, a) /\ u.txWindow = s.txWindow
  BY <1>1, SendsSame DEF Between, SenderSame
<1>4. Between(u, p, mine, a, t)
  BY <1>1, <1>3 DEF Between
<1>5. Takes(u, theirs, d)
  BY <1>2, TakesSame DEF Between
<1>6. Between(p, u, theirs, c, d)
  BY <1>2, <1>5 DEF Between
<1> QED
  BY <1>4, <1>6 DEF Pair, Direction

\* `retransmit_all` sends what is in the window, or gives up at the limit.
LEMMA RetransmitKeeps ==
  ASSUME NEW s \in Engine, NEW p \in Engine, NEW mine, NEW theirs,
         Pair(s, p, mine, theirs), Limited(s)
  PROVE  Kept(RetransmitAll(s), p, mine, theirs)
<1> DEFINE l == Len(s.txWindow)
           w == [i \in 1..l |-> Resent(s.txWindow[i])]
           x == [i \in 1..l |-> Information(s.txWindow[i].frame, s.expectedTxSeq)]
           u == RetransmitAll(s)
           W == [frame : Frame, transmissions : Nat]
           over == \E i \in DOMAIN s.txWindow : LimitReached(s, s.txWindow[i])
<1>1. /\ s.txWindow \in Seq(W) /\ l \in Nat /\ s.outbound \in Seq(Msg)
      /\ s.expectedTxSeq \in Numbers /\ DOMAIN s.txWindow = 1..l
  BY EngineIs
<1>2. s.maxRetransmissions \in Nat /\ s.lastAckedRxSeq \in Numbers
  BY DEF Engine
<1>3. \A i \in 1..l : /\ s.txWindow[i] \in W /\ s.txWindow[i].frame \in Frame
                      /\ s.txWindow[i].transmissions \in Nat
  BY EngineIs
<1>4. CASE s.remoteBusy
  <2>1. u = s
    BY <1>4 DEF RetransmitAll
  <2> QED BY <2>1 DEF Kept
<1>5. CASE ~s.remoteBusy /\ over
  <2>1. u = [s EXCEPT !.failed = TRUE]
    BY <1>5 DEF RetransmitAll
  <2>2. /\ u \in Engine /\ u.outbound = s.outbound /\ u.txWindow = s.txWindow
        /\ u.maxRetransmissions = s.maxRetransmissions
        /\ u.pending = s.pending /\ u.nextTxSeq = s.nextTxSeq
        /\ u.lastAckedTxSeq = s.lastAckedTxSeq /\ u.received = s.received
        /\ u.expectedTxSeq = s.expectedTxSeq /\ u.inputSdu = s.inputSdu
        /\ u.inputSduLength = s.inputSduLength
    BY <2>1 DEF Engine
  <2>3. s.maxRetransmissions # 0
    BY <1>5 DEF LimitReached
  <2> HIDE DEF u
  <2>4. SenderSame(s, u) /\ ReceiverSame(s, u)
    BY <2>2 DEF SenderSame, ReceiverSame
  <2>5. Pair(u, p, mine, theirs)
    BY <2>2, <2>4, SameKeeps
  <2>6. Limited(u)
    BY <2>2, <2>3 DEF Limited
  <2> QED BY <2>2, <2>5, <2>6 DEF Kept, u
<1>6. CASE ~s.remoteBusy /\ ~over
  <2> DEFINE r == IF s.txWindow = <<>> THEN s.lastAckedRxSeq ELSE s.expectedTxSeq
  <2>1. u = [s EXCEPT !.txWindow = w, !.outbound = @ \o x, !.lastAckedRxSeq = r]
    BY <1>1, <1>6 DEF RetransmitAll
  <2>2. w \in Seq(W) /\ Len(w) = l
        /\ \A i \in 1..l : /\ w[i].frame = s.txWindow[i].frame
                           /\ w[i].transmissions = s.txWindow[i].transmissions + 1
    <3>1. \A i \in 1..l : /\ w[i] \in W /\ w[i].frame = s.txWindow[i].frame
                          /\ w[i].transmissions = s.txWindow[i].transmissions + 1
      BY <1>3 DEF Resent
    <3>2. w = [i \in 1..l |-> w[i]]
      OBVIOUS
    <3> HIDE DEF w, l
    <3>3. w \in Seq(W) /\ Len(w) = l
      BY <1>1, <3>1, <3>2
    <3> QED BY <3>1, <3>3
  <2>3. x \in Seq(Msg) /\ Len(x) = l
        /\ \A i \in 1..l : /\ x[i].reqSeq = s.expectedTxSeq /\ x[i].kind = "I"
                           /\ x[i].frame = s.txWindow[i].frame
    <3>1. \A i \in 1..l : /\ x[i] \in Msg /\ x[i].reqSeq = s.expectedTxSeq
                          /\ x[i].kind = "I" /\ x[i].frame = s.txWindow[i].frame
      BY <1>1, <1>3, MessagesAre
    <3>2. x = [i \in 1..l |-> x[i]]
      OBVIOUS
    <3> HIDE DEF x, l
    <3>3. x \in Seq(Msg) /\ Len(x) = l
      BY <1>1, <3>1, <3>2
    <3> QED BY <3>1, <3>3
  <2> HIDE DEF w, x
  <2>4. s.outbound \o x \in Seq(Msg) /\ r \in Numbers
    BY <1>1, <1>2, <2>3
  <2> HIDE DEF r
  <2>5. /\ u \in Engine /\ u.outbound = s.outbound \o x /\ u.txWindow = w
        /\ u.maxRetransmissions = s.maxRetransmissions
        /\ u.pending = s.pending /\ u.nextTxSeq = s.nextTxSeq
        /\ u.lastAckedTxSeq = s.lastAckedTxSeq /\ u.received = s.received
        /\ u.expectedTxSeq = s.expectedTxSeq /\ u.inputSdu = s.inputSdu
        /\ u.inputSduLength = s.inputSduLength /\ u.failed = s.failed
    BY <2>1, <2>2, <2>4 DEF Engine
  <2> HIDE DEF u
  <2>6. ASSUME NEW a \in Nat, Sends(s, mine, a) PROVE Emits(s, u, mine, a)
    <3>1. \A i \in 1..l : Carries(s.txWindow[i].frame, mine, a + i)
      BY <2>6 DEF Sends
    <3>2. Sends(u, mine, a)
      BY <2>2, <2>5, <2>6 DEF Sends
    <3>3. ASSUME NEW i \in 1..l
          PROVE  /\ x[i].reqSeq = s.expectedTxSeq
                 /\ OfSdus(mine, x[i].frame) /\ a < x[i].frame.segment
                 /\ x[i].frame.segment <= a + Len(w)
      <4>1. OfSdus(mine, x[i].frame) /\ x[i].frame.segment = a + i
        BY <2>3, <3>1 DEF Carries
      <4>2. a < a + i /\ a + i <= a + l
        BY <1>1
      <4> QED BY <2>2, <2>3, <4>1, <4>2
    <3>4. ReceiverSame(s, u) /\ l <= l
      BY <1>1, <2>5 DEF ReceiverSame
    <3> QED BY <2>2, <2>3, <2>5, <3>2, <3>3, <3>4 DEF Emits
  <2>7. Pair(u, p, mine, theirs)
    BY <2>6, EmitsKeeps
  <2>8. Limited(u)
    <3>1. ASSUME s.maxRetransmissions # 0, NEW i \in 1..l
          PROVE  w[i].transmissions <= s.maxRetransmissions + 1
      <4>1. ~LimitReached(s, s.txWindow[i])
        BY <1>1, <1>6
      <4> DEFINE k == s.txWindow[i].transmissions
      <4>2. k \in Nat /\ ~(k - 1 >= s.maxRetransmissions) /\ w[i].transmissions = k + 1
        BY <1>3, <2>2, <3>1, <4>1 DEF LimitReached
      <4> HIDE DEF k
      <4> QED BY <1>2, <4>2
    <3> QED BY <2>2, <2>5, <3>1 DEF Limited
  <2> QED BY <2>5, <2>7, <2>8 DEF Kept, u
<1> QED
  BY <1>4, <1>5, <1>6

-----------------------------------------------------------------------------
(* Receiving a frame *)

\* The peer whose next frame has left its queue.
Relayed(p) == [p EXCEPT !.outbound = Tail(@)]

\* The frame has just come from p, whose queue holds those after it.
Reached(s, p, theirs, f) ==
  \E c \in Nat, d \in Nat :
    /\ Between(p, s, theirs, c, d)
    /\ Arriving(f, p.outbound, theirs, c + Len(p.txWindow), d)

\* An engine with a frame less on its way is the same engine otherwise.
LEMMA RelayedIs ==
  ASSUME NEW p \in Engine, p.outbound # <<>>
  PROVE  /\ Relayed(p) \in Engine /\ SenderSame(p, Relayed(p)) /\ ReceiverSame(p, Relayed(p))
         /\ Relayed(p).outbound = Tail(p.outbound) /\ Relayed(p).txWindow = p.txWindow
         /\ Relayed(p).maxRetransmissions = p.maxRetransmissions
         /\ Relayed(p).failed = p.failed
         /\ Head(p.outbound) \in Msg
<1>1. p.outbound \in Seq(Msg)
  BY EngineIs
<1>2. Tail(p.outbound) \in Seq(Msg) /\ Head(p.outbound) \in Msg
  BY <1>1, HeadTailProperties
<1> DEFINE u == Relayed(p)
<1>3. /\ u \in Engine /\ u.outbound = Tail(p.outbound) /\ u.txWindow = p.txWindow
      /\ u.maxRetransmissions = p.maxRetransmissions /\ u.failed = p.failed
      /\ u.pending = p.pending /\ u.nextTxSeq = p.nextTxSeq
      /\ u.lastAckedTxSeq = p.lastAckedTxSeq /\ u.received = p.received
      /\ u.expectedTxSeq = p.expectedTxSeq /\ u.inputSdu = p.inputSdu
      /\ u.inputSduLength = p.inputSduLength
  BY <1>2 DEF Engine, Relayed
<1> HIDE DEF u
<1> QED
  BY <1>2, <1>3 DEF SenderSame, ReceiverSame, u

\* A frame that is lost, or ignored, leaves the rest in order.
LEMMA LostKeeps ==
  ASSUME NEW s \in Engine, NEW p \in Engine, NEW mine, NEW theirs,
         Pair(s, p, mine, theirs), p.outbound # <<>>
  PROVE  Pair(s, Relayed(p), mine, theirs)
<1> DEFINE u == Relayed(p)
<1>1. PICK a \in Nat, t \in Nat : Between(s, p, mine, a, t)
  BY DEF Pair, Direction
<1>2. PICK c \in Nat, d \in Nat : Between(p, s, theirs, c, d)
  BY DEF Pair, Direction
<1>3. /\ SenderSame(p, u) /\ ReceiverSame(p, u) /\ u.outbound = Tail(p.outbound)
      /\ u.txWindow = p.txWindow /\ p.outbound \in Seq(Msg)
  BY RelayedIs, EngineIs
<1> HIDE DEF u
<1>4. Between(s, u, mine, a, t)
  <2>1. Takes(u, mine, t)
    BY <1>1, <1>3, TakesSame DEF Between
  <2>2. Acks(u.outbound, a, t)
    BY <1>1, <1>3, AcksTail DEF Between
  <2> QED BY <1>1, <2>1, <2>2 DEF Between
<1>5. Between(u, s, theirs, c, d)
  <2>1. Sends(u, theirs, c)
    BY <1>2, <1>3, SendsSame DEF Between
  <2>2. InFlight(u.outbound, theirs, c + Len(u.txWindow), d)
    BY <1>2, <1>3, InFlightTail DEF Between
  <2> QED BY <1>2, <1>3, <2>1, <2>2 DEF Between
<1> QED
  BY <1>4, <1>5 DEF Pair, Direction, u

\* The acknowledgement in the next frame is of frames in the window: `acknowledge`
\* finds it valid, and drops only what the peer has.
LEMMA AcknowledgeKeeps ==
  ASSUME NEW s \in Engine, NEW p \in Engine, NEW mine, NEW theirs,
         Pair(s, p, mine, theirs), Limited(s), p.outbound # <<>>
  PROVE  LET m == Head(p.outbound)
             u == Acknowledge(s, m.reqSeq)
         IN /\ Acknowledgeable(s, m.reqSeq)
            /\ Kept(u, Relayed(p), mine, theirs)
            /\ u.failed = s.failed
            /\ m.kind = "I" => Reached(u, Relayed(p), theirs, m.frame)
<1> DEFINE m == Head(p.outbound)
           v == Relayed(p)
           u == Acknowledge(s, m.reqSeq)
           l == Len(s.txWindow)
           W == [frame : Frame, transmissions : Nat]
<1>1. PICK a \in Nat, t \in Nat : Between(s, p, mine, a, t)
  BY DEF Pair, Direction
<1>2. PICK c \in Nat, d \in Nat : Between(p, s, theirs, c, d)
  BY DEF Pair, Direction
<1>3. /\ v \in Engine /\ SenderSame(p, v) /\ ReceiverSame(p, v) /\ v.outbound = Tail(p.outbound)
      /\ v.txWindow = p.txWindow /\ m \in Msg /\ p.outbound \in Seq(Msg)
  BY RelayedIs, EngineIs
<1>4. s.txWindow \in Seq(W) /\ l \in Nat
  BY EngineIs
<1>5. /\ Sends(s, mine, a) /\ Takes(p, mine, t) /\ a <= t /\ t <= a + l
      /\ InFlight(s.outbound, mine, a + l, t) /\ Acks(p.outbound, a, t)
  BY <1>1 DEF Between
<1>6. PICK z \in Nat : /\ a <= z /\ z <= t /\ m.reqSeq = z % Modulus
                       /\ Acks(Tail(p.outbound), z, t)
  BY <1>3, <1>5, AcksTail
<1>7. s.lastAckedTxSeq = a % Modulus /\ l <= TxWindowSize
  BY <1>5 DEF Sends
<1>8. Modulus \in Nat /\ TxWindowSize \in Nat /\ TxWindowSize < Modulus
  BY ErtmAssumption
<1> DEFINE e == z - a
<1>9. e \in Nat /\ e <= l /\ z < a + Modulus /\ a + e = z
  BY <1>4, <1>5, <1>6, <1>7, <1>8
<1>10. Acked(s, m.reqSeq) = e
  BY <1>6, <1>7, <1>9, DistanceKept DEF Acked
<1> HIDE DEF e
<1> DEFINE w == SubSeq(s.txWindow, e + 1, l)
<1>11. /\ w \in Seq(W) /\ Len(w) = l - e
       /\ \A i \in 1..(l - e) : w[i] = s.txWindow[e + i]
  <2>1. \A i \in (e + 1)..l : s.txWindow[i] \in W
    <3>1. \A i \in 1..l : s.txWindow[i] \in W
      BY EngineIs
    <3> HIDE DEF l
    <3> QED BY <1>4, <1>9, <3>1
  <2>2. /\ w \in Seq(W) /\ Len(w) = IF e + 1 <= l THEN l - (e + 1) + 1 ELSE 0
        /\ \A i \in 1..(l - (e + 1) + 1) : w[i] = s.txWindow[(e + 1) + i - 1]
    BY <1>4, <1>9, <2>1, SubSeqProperties
  <2>3. l - (e + 1) + 1 = l - e /\ \A i \in 1..(l - e) : (e + 1) + i - 1 = e + i
    BY <1>4, <1>9
  <2>4. (IF e + 1 <= l THEN l - (e + 1) + 1 ELSE 0) = l - e
    BY <1>4, <1>9
  <2> HIDE DEF w, l
  <2>5. \A i \in 1..(l - e) : w[i] = s.txWindow[e + i]
    BY <2>2, <2>3
  <2> QED BY <2>2, <2>4, <2>5
<1>12. u = [s EXCEPT !.txWindow = w, !.lastAckedTxSeq = m.reqSeq]
  BY <1>10 DEF Acknowledge
<1>13. m.reqSeq \in Numbers
  BY <1>3 DEF Msg
<1> HIDE DEF w, m, v
<1>14. /\ u \in Engine /\ u.outbound = s.outbound /\ u.txWindow = w
       /\ u.maxRetransmissions = s.maxRetransmissions
       /\ u.pending = s.pending /\ u.nextTxSeq = s.nextTxSeq
       /\ u.lastAckedTxSeq = m.reqSeq /\ u.received = s.received
       /\ u.expectedTxSeq = s.expectedTxSeq /\ u.inputSdu = s.inputSdu
       /\ u.inputSduLength = s.inputSduLength /\ u.failed = s.failed
  BY <1>11, <1>12, <1>13 DEF Engine
<1> HIDE DEF u
<1>15. Sends(u, mine, z)
  <2>1. /\ (a + l) + Len(s.pending) = Segments(mine)
        /\ s.nextTxSeq = Segments(mine) % Modulus
        /\ \A i \in 1..l : Carries(s.txWindow[i].frame, mine, a + i)
        /\ \A i \in 1..Len(s.pending) : Carries(s.pending[i], mine, (a + l) + i)
    BY <1>5 DEF Sends
  <2>2. z + (l - e) = a + l /\ l - e <= TxWindowSize
    <3> HIDE DEF l
    <3> QED BY <1>4, <1>7, <1>8, <1>9
  <2>3. ASSUME NEW i \in 1..(l - e) PROVE Carries(w[i].frame, mine, z + i)
    <3>1. e + i \in 1..l /\ a + (e + i) = z + i
      BY <1>4, <1>9
    <3>2. Carries(s.txWindow[e + i].frame, mine, a + (e + i))
      BY <2>1, <3>1
    <3> QED BY <1>11, <3>1, <3>2
  <2> QED BY <1>6, <1>11, <1>14, <2>1, <2>2, <2>3 DEF Sends
<1>16. Between(u, v, mine, z, t)
  <2>1. z + (l - e) = a + l
    <3> HIDE DEF l
    <3> QED BY <1>4, <1>9
  <2>2. Takes(v, mine, t)
    BY <1>3, <1>5, TakesSame
  <2> QED BY <1>3, <1>5, <1>6, <1>11, <1>14, <1>15, <2>1, <2>2 DEF Between
<1>17. Between(v, u, theirs, c, d) /\ (m.kind = "I" => Arriving(m.frame, v.outbound, theirs, c + Len(v.txWindow), d))
  <2>1. /\ Sends(p, theirs, c) /\ Takes(s, theirs, d) /\ c <= d /\ d <= c + Len(p.txWindow)
        /\ InFlight(p.outbound, theirs, c + Len(p.txWindow), d) /\ Acks(s.outbound, c, d)
    BY <1>2 DEF Between
  <2>2. Sends(v, theirs, c)
    BY <1>3, <2>1, SendsSame
  <2>3. ReceiverSame(s, u)
    BY <1>14 DEF ReceiverSame
  <2>4. Takes(u, theirs, d)
    BY <2>1, <2>3, TakesSame
  <2>5. /\ InFlight(v.outbound, theirs, c + Len(v.txWindow), d)
        /\ m.kind = "I" => Arriving(m.frame, v.outbound, theirs, c + Len(v.txWindow), d)
    BY <1>3, <2>1, InFlightTail DEF m
  <2> QED BY <1>3, <1>14, <2>1, <2>2, <2>4, <2>5 DEF Between
<1>18. Limited(u)
  <2>1. ASSUME s.maxRetransmissions # 0, NEW i \in 1..(l - e)
        PROVE  w[i].transmissions <= s.maxRetransmissions + 1
    <3>1. e + i \in 1..l
      BY <1>4, <1>9
    <3> QED BY <1>11, <2>1, <3>1 DEF Limited
  <2> QED BY <1>11, <1>14, <2>1 DEF Limited
<1>19. Acknowledgeable(s, m.reqSeq)
  BY <1>9, <1>10 DEF Acknowledgeable
<1>20. Kept(u, v, mine, theirs)
  BY <1>14, <1>16, <1>17, <1>18 DEF Kept, Pair, Direction
<1>21. m.kind = "I" => Reached(u, v, theirs, m.frame)
  BY <1>17 DEF Reached
<1> QED
  BY <1>14, <1>19, <1>20, <1>21 DEF u, v, m

\* What `accept_information` leaves alone.
LEMMA AcceptIs ==
  ASSUME NEW s \in Engine, NEW f \in Frame
  PROVE  LET u == AcceptInformation(s, f) IN
         /\ u \in Engine /\ SenderSame(s, u) /\ u.outbound = s.outbound
         /\ u.maxRetransmissions = s.maxRetransmissions /\ u.failed = s.failed
         /\ u.expectedTxSeq = s.expectedTxSeq
<1> DEFINE u == AcceptInformation(s, f)
<1>1. f.segment \in Nat /\ f.length \in Nat /\ f.sar \in Sars
  BY DEF Frame
<1>2. s.received \in Seq(Seq(Nat)) /\ s.inputSdu \in Seq(Nat)
  BY EngineIs
<1>3. /\ <<f.segment>> \in Seq(Nat) /\ <<>> \in Seq(Nat)
      /\ Append(s.inputSdu, f.segment) \in Seq(Nat)
  BY <1>1, <1>2, AppendProperties
<1>4. /\ Append(s.received, <<f.segment>>) \in Seq(Seq(Nat))
      /\ Append(s.received, Append(s.inputSdu, f.segment)) \in Seq(Seq(Nat))
  BY <1>2, <1>3, AppendProperties
<1>5. CASE f.sar = "unsegmented"
  <2>1. u = [s EXCEPT !.received = Append(@, <<f.segment>>)]
    BY <1>5 DEF AcceptInformation
  <2> QED BY <1>4, <2>1 DEF Engine, SenderSame
<1>6. CASE f.sar = "start"
  <2>1. u = [s EXCEPT !.inputSdu = <<f.segment>>, !.inputSduLength = f.length]
    BY <1>6 DEF AcceptInformation
  <2> QED BY <1>1, <1>3, <2>1 DEF Engine, SenderSame
<1>7. CASE f.sar = "continuation"
  <2>1. u = [s EXCEPT !.inputSdu = Append(@, f.segment)]
    BY <1>7 DEF AcceptInformation
  <2> QED BY <1>3, <2>1 DEF Engine, SenderSame
<1>8. CASE f.sar = "end"
  <2> DEFINE x == Append(s.received, Append(s.inputSdu, f.segment))
  <2>1. u = [s EXCEPT !.received = x, !.inputSdu = <<>>, !.inputSduLength = 0]
    BY <1>8 DEF AcceptInformation
  <2>2. x \in Seq(Seq(Nat)) /\ 0 \in Nat
    BY <1>4
  <2> HIDE DEF x, u
  <2> QED BY <1>3, <2>1, <2>2 DEF Engine, SenderSame, u
<1> QED
  BY <1>1, <1>5, <1>6, <1>7, <1>8 DEF Sars

\* Acknowledgements of at most t segments are of at most any more.
LEMMA AcksUpTo ==
  ASSUME NEW q, NEW a \in Nat, NEW t \in Nat, NEW u \in Nat, t <= u, Acks(q, a, t)
  PROVE  Acks(q, a, u)
<1>1. PICK f \in [1..Len(q) -> Nat] :
        /\ \A i \in 1..Len(q) : a <= f[i] /\ f[i] <= t /\ q[i].reqSeq = f[i] % Modulus
        /\ \A i, j \in 1..Len(q) : i <= j => f[i] <= f[j]
  BY DEF Acks
<1>2. \A i \in 1..Len(q) : f[i] <= u
  <2> TAKE i \in 1..Len(q)
  <2>1. f[i] \in Nat /\ f[i] <= t
    BY <1>1
  <2> QED BY <2>1
<1> QED
  BY <1>1, <1>2 DEF Acks

\* A frame in sequence is the next segment, and the receiver then holds one more.
LEMMA InSequenceKeeps ==
  ASSUME NEW s \in Engine, NEW p \in Engine, NEW mine, NEW theirs, NEW f \in Frame,
         Direction(s, p, mine), Reached(s, p, theirs, f), InSequence(s, f)
  PROVE  LET next == [s EXCEPT !.expectedTxSeq = SequenceAdd(@, 1)]
             u == AcceptInformation(next, f)
         IN /\ Acceptable(s, f) /\ u \in Engine /\ Pair(u, p, mine, theirs)
            /\ u.maxRetransmissions = s.maxRetransmissions /\ u.failed = s.failed
            /\ u.txWindow = s.txWindow
<1> DEFINE next == [s EXCEPT !.expectedTxSeq = SequenceAdd(@, 1)]
           u == AcceptInformation(next, f)
           top(c) == c + Len(p.txWindow)
<1>1. PICK a \in Nat, t \in Nat : Between(s, p, mine, a, t)
  BY DEF Direction
<1>2. PICK c \in Nat, d \in Nat : /\ Between(p, s, theirs, c, d)
                                  /\ Arriving(f, p.outbound, theirs, top(c), d)
  BY DEF Reached
<1>3. /\ Sends(p, theirs, c) /\ Takes(s, theirs, d) /\ c <= d /\ d <= top(c)
      /\ InFlight(p.outbound, theirs, top(c), d) /\ Acks(s.outbound, c, d)
  BY <1>2 DEF Between
<1>4. Len(p.txWindow) \in Nat /\ Len(p.txWindow) <= TxWindowSize /\ TxWindowSize \in Nat
  BY <1>3, EngineIs, ErtmAssumption DEF Sends
<1>5. top(c) \in Nat /\ top(c) <= d + TxWindowSize
  BY <1>3, <1>4
<1>6. f.txSeq = d % Modulus
  BY <1>3 DEF Takes, InSequence
<1> HIDE DEF top
<1>7. f.segment = d + 1
  BY <1>2, <1>5, <1>6, ExpectedIs
<1>8. OfSdus(theirs, f) /\ d + 1 <= top(c)
  BY <1>2, <1>7 DEF Arriving
<1>9. PICK b : Bounds(b, theirs) /\ Held(s, theirs, b, d)
  BY <1>3 DEF Takes
<1>10. s.expectedTxSeq = d % Modulus /\ SequenceAdd(s.expectedTxSeq, 1) = (d + 1) % Modulus
       /\ (d + 1) % Modulus \in Numbers
  <2>1. s.expectedTxSeq = d % Modulus
    BY <1>3 DEF Takes
  <2>2. 1 \in Nat /\ d + 1 \in Nat
    OBVIOUS
  <2>3. SequenceAdd(d % Modulus, 1) = (d + 1) % Modulus
    BY <2>2, AddKept
  <2>4. (d + 1) % Modulus \in Numbers
    BY <2>2, Remainder
  <2> QED BY <2>1, <2>3, <2>4
<1>11. /\ next \in Engine /\ next.received = s.received /\ next.inputSdu = s.inputSdu
       /\ next.inputSduLength = s.inputSduLength /\ next.outbound = s.outbound
       /\ next.maxRetransmissions = s.maxRetransmissions /\ next.failed = s.failed
       /\ next.expectedTxSeq = (d + 1) % Modulus /\ next.pending = s.pending
       /\ next.txWindow = s.txWindow /\ next.nextTxSeq = s.nextTxSeq
       /\ next.lastAckedTxSeq = s.lastAckedTxSeq
  BY <1>10 DEF Engine
<1> HIDE DEF next
<1>12. Held(next, theirs, b, d)
  BY <1>9, <1>11 DEF Held
<1>13. Acceptable(s, f) /\ Held(u, theirs, b, d + 1)
  BY <1>7, <1>8, <1>9, <1>11, <1>12, AcceptKeeps
<1>14. /\ u \in Engine /\ SenderSame(next, u) /\ u.outbound = next.outbound
       /\ u.maxRetransmissions = next.maxRetransmissions /\ u.failed = next.failed
       /\ u.expectedTxSeq = next.expectedTxSeq
  BY <1>11, AcceptIs
<1> HIDE DEF u
<1>15. Takes(u, theirs, d + 1)
  BY <1>9, <1>11, <1>13, <1>14 DEF Takes
<1>16. SenderSame(s, u) /\ u.txWindow = s.txWindow
  BY <1>11, <1>14 DEF SenderSame
<1>17. Between(u, p, mine, a, t)
  <2>1. Sends(u, mine, a)
    BY <1>1, <1>16, SendsSame DEF Between
  <2> QED BY <1>1, <1>11, <1>14, <1>16, <2>1 DEF Between
<1>18. Between(p, u, theirs, c, d + 1)
  <2>1. InFlight(p.outbound, theirs, top(c), d + 1)
    BY <1>2, <1>3, <1>7, InFlightTaken
  <2>2. d + 1 \in Nat /\ d <= d + 1 /\ c <= d + 1
    BY <1>3
  <2>3. Acks(u.outbound, c, d + 1)
    BY <1>3, <1>11, <1>14, <2>2, AcksUpTo
  <2> QED BY <1>3, <1>8, <1>15, <2>1, <2>2, <2>3 DEF Between, top
<1>19. Pair(u, p, mine, theirs)
  <2>1. d + 1 \in Nat
    OBVIOUS
  <2> QED BY <1>17, <1>18, <2>1 DEF Pair, Direction
<1> QED
  BY <1>11, <1>13, <1>14, <1>16, <1>19 DEF u, next

\* The Information arm of `receive_frame`: a frame is taken in, or asked for again.
LEMMA OnInformationKeeps ==
  ASSUME NEW s \in Engine, NEW p \in Engine, NEW mine, NEW theirs, NEW f \in Frame,
         Pair(s, p, mine, theirs), Limited(s), Reached(s, p, theirs, f)
  PROVE  /\ Kept(OnInformation(s, f).engine, p, mine, theirs)
         /\ OnInformation(s, f).error = {}
<1> DEFINE next == [s EXCEPT !.expectedTxSeq = SequenceAdd(@, 1)]
           u == AcceptInformation(next, f)
           after == ProcessOutput(u)
           fn == IF s.localBusy THEN "RNR" ELSE "REJ"
           acked == SendSupervisory(after, "RR")
           r == IF after.lastAckedRxSeq # after.expectedTxSeq THEN acked ELSE after
<1>1. CASE ~InSequence(s, f)
  <2>1. OnInformation(s, f) = [engine |-> SendSupervisory(s, fn), error |-> {}]
    BY <1>1 DEF OnInformation
  <2>2. fn \in {"RR", "RNR", "REJ"}
    OBVIOUS
  <2> HIDE DEF fn
  <2>3. Kept(SendSupervisory(s, fn), p, mine, theirs)
    BY <2>2, SupervisoryKeeps
  <2> QED BY <2>1, <2>3
<1>2. CASE InSequence(s, f)
  <2>1. /\ Acceptable(s, f) /\ u \in Engine /\ Pair(u, p, mine, theirs)
        /\ u.maxRetransmissions = s.maxRetransmissions /\ u.failed = s.failed
        /\ u.txWindow = s.txWindow
    BY <1>2, InSequenceKeeps DEF Pair
  <2>2. OnInformation(s, f) = [engine |-> r, error |-> {}]
    BY <1>2, <2>1 DEF OnInformation
  <2> HIDE DEF u
  <2>3. Limited(u)
    BY <2>1 DEF Limited
  <2>4. Kept(after, p, mine, theirs)
    BY <2>1, <2>3, ProcessOutputKeeps
  <2> HIDE DEF after
  <2>5. Kept(acked, p, mine, theirs)
    BY <2>4, SupervisoryKeeps DEF Kept
  <2> HIDE DEF acked
  <2>6. Kept(r, p, mine, theirs)
    BY <2>4, <2>5
  <2> QED BY <2>2, <2>6
<1> QED
  BY <1>1, <1>2

\* The Supervisory arm of `receive_frame`.
LEMMA OnSupervisoryKeeps ==
  ASSUME NEW s \in Engine, NEW p \in Engine, NEW mine, NEW theirs,
         NEW fn \in {"RR", "RNR", "REJ"}, Pair(s, p, mine, theirs), Limited(s)
  PROVE  /\ Kept(OnSupervisory(s, fn).engine, p, mine, theirs)
         /\ OnSupervisory(s, fn).error \subseteq {"limit"}
<1> DEFINE noted == NoteBusy(s, fn)
           resent == IF fn = "REJ" THEN RetransmitAll(noted) ELSE noted
<1>1. /\ noted \in Engine /\ noted.outbound = s.outbound /\ SenderSame(s, noted)
      /\ ReceiverSame(s, noted) /\ noted.txWindow = s.txWindow /\ noted.failed = s.failed
      /\ noted.maxRetransmissions = s.maxRetransmissions
  <2>1. (fn = "RNR") \in BOOLEAN
    OBVIOUS
  <2> QED BY <2>1 DEF NoteBusy, Engine, SenderSame, ReceiverSame
<1>2. OnSupervisory(s, fn) = IF resent.failed THEN [engine |-> resent, error |-> {"limit"}]
                             ELSE [engine |-> ProcessOutput(resent), error |-> {}]
  BY DEF OnSupervisory
<1> HIDE DEF noted
<1>3. Pair(noted, p, mine, theirs) /\ Limited(noted)
  BY <1>1, SameKeeps DEF Limited
<1>4. Kept(resent, p, mine, theirs)
  BY <1>1, <1>3, RetransmitKeeps DEF Kept
<1> HIDE DEF resent
<1>5. Kept(ProcessOutput(resent), p, mine, theirs)
  BY <1>4, ProcessOutputKeeps DEF Kept
<1> QED
  BY <1>2, <1>4, <1>5

\* `receive_frame` of the next frame keeps both directions and reports no violation of
\* the protocol.
LEMMA ReceiveKeeps ==
  ASSUME NEW s \in Engine, NEW p \in Engine, NEW mine, NEW theirs,
         Pair(s, p, mine, theirs), Limited(s), p.outbound # <<>>
  PROVE  /\ Kept(Receive(s, Head(p.outbound)).engine, Relayed(p), mine, theirs)
         /\ Receive(s, Head(p.outbound)).error \subseteq {"limit"}
<1> DEFINE m == Head(p.outbound)
           v == Relayed(p)
           u == Acknowledge(s, m.reqSeq)
<1>1. v \in Engine /\ m \in Msg
  BY RelayedIs
<1>2. /\ Acknowledgeable(s, m.reqSeq) /\ Kept(u, v, mine, theirs)
      /\ m.kind = "I" => Reached(u, v, theirs, m.frame)
  BY AcknowledgeKeeps
<1>3. Pair(s, v, mine, theirs)
  BY LostKeeps
<1>4. Receive(s, m) = IF s.failed THEN [engine |-> s, error |-> {}]
                      ELSE IF m.kind = "I" THEN OnInformation(u, m.frame)
                      ELSE OnSupervisory(u, m.kind)
  BY <1>2 DEF Receive
<1>5. (m.kind = "I" => m.frame \in Frame) /\ (m.kind # "I" => m.kind \in {"RR", "RNR", "REJ"})
  BY <1>1 DEF Msg
<1> HIDE DEF m, v, u
<1>6. CASE s.failed
  <2>1. Receive(s, m).engine = s /\ Receive(s, m).error = {}
    BY <1>4, <1>6
  <2> QED BY <1>3, <2>1 DEF Kept, m, v
<1>7. CASE ~s.failed /\ m.kind = "I"
  <2>1. /\ Kept(OnInformation(u, m.frame).engine, v, mine, theirs)
        /\ OnInformation(u, m.frame).error = {}
    BY <1>1, <1>2, <1>5, <1>7, OnInformationKeeps DEF Kept
  <2> QED BY <1>4, <1>7, <2>1 DEF m, v
<1>8. CASE ~s.failed /\ m.kind # "I"
  <2>1. /\ Kept(OnSupervisory(u, m.kind).engine, v, mine, theirs)
        /\ OnSupervisory(u, m.kind).error \subseteq {"limit"}
    BY <1>1, <1>2, <1>5, <1>8, OnSupervisoryKeeps DEF Kept
  <2> QED BY <1>4, <1>8, <2>1 DEF m, v
<1> QED
  BY <1>6, <1>7, <1>8

-----------------------------------------------------------------------------
(* Sending an SDU *)

\* A frame of some SDUs is a frame of those and one more.
LEMMA OfSdusMore ==
  ASSUME NEW sdus \in Seq(Seq(Nat)), NEW x \in Seq(Nat), NEW f, OfSdus(sdus, f)
  PROVE  OfSdus(Append(sdus, x), f)
<1> DEFINE more == Append(sdus, x)
<1>1. /\ Len(sdus) \in Nat /\ Len(more) = Len(sdus) + 1
      /\ \A j \in 1..Len(sdus) : more[j] = sdus[j]
  BY AppendProperties
<1>2. PICK j \in 1..Len(sdus) : \E i \in 1..Len(sdus[j]) :
         /\ sdus[j][i] = f.segment /\ f.sar = Sar(i, Len(sdus[j]))
         /\ f.length = IF i = 1 /\ Len(sdus[j]) > 1 THEN Len(sdus[j]) ELSE 0
  BY DEF OfSdus
<1> HIDE DEF more
<1>3. j \in 1..Len(more) /\ more[j] = sdus[j]
  BY <1>1
<1>4. \E i \in 1..Len(more[j]) :
         /\ more[j][i] = f.segment /\ f.sar = Sar(i, Len(more[j]))
         /\ f.length = IF i = 1 /\ Len(more[j]) > 1 THEN Len(more[j]) ELSE 0
  BY <1>2, <1>3
<1>5. f.segment >= 1 /\ f.txSeq = (f.segment - 1) % Modulus
  BY DEF OfSdus
<1>6. OfSdus(more, f)
  BY <1>3, <1>4, <1>5 DEF OfSdus
<1> QED
  BY <1>6 DEF more

\* So with the frames under way.
LEMMA InFlightOfMore ==
  ASSUME NEW sdus \in Seq(Seq(Nat)), NEW x \in Seq(Nat), NEW q, NEW top, NEW t,
         InFlight(q, sdus, top, t)
  PROVE  InFlight(q, Append(sdus, x), top, t)
BY OfSdusMore DEF InFlight

\* So with what a receiver holds; the new SDU has the segments that follow.
LEMMA TakesOfMore ==
  ASSUME NEW r \in Engine, NEW sdus, NEW t, Takes(r, sdus, t), NEW n \in Nat \ {0}
  PROVE  LET k == Segments(sdus) IN
         /\ sdus \in Seq(Seq(Nat)) /\ k \in Nat
         /\ Takes(r, Append(sdus, Span(k, k + n)), t)
         /\ Segments(Append(sdus, Span(k, k + n))) = k + n
<1> DEFINE k == Segments(sdus)
           m == Len(sdus)
           more == Append(sdus, Span(k, k + n))
           g == Len(r.received)
<1>1. PICK b : Bounds(b, sdus) /\ Held(r, sdus, b, t)
  BY DEF Takes
<1> DEFINE c == [i \in 0..(m + 1) |-> IF i <= m THEN b[i] ELSE k + n]
<1>2. Bounds(c, more) /\ Segments(more) = k + n
  BY <1>1, BoundsAppend
<1>3. sdus \in Seq(Seq(Nat)) /\ m \in Nat /\ g \in Nat
  BY <1>1, EngineIs DEF Bounds
<1>4. k \in Nat
  BY <1>1, BoundsGrow
<1>5. Span(k, k + n) \in Seq(Nat)
  BY <1>4, SpanProperties
<1>6. Len(more) = m + 1 /\ \A j \in 1..m : more[j] = sdus[j]
  BY <1>3, <1>5, AppendProperties
<1>7. \A i \in 0..m : c[i] = b[i]
  BY <1>3
<1> HIDE DEF more, c, k
<1>8. Held(r, more, c, t)
  <2>1. /\ g <= m /\ \A j \in 1..g : r.received[j] = sdus[j]
        /\ t = b[g] + Len(r.inputSdu)
    BY <1>1 DEF Held
  <2>2. g \in 0..m /\ g <= m + 1 /\ c[g] = b[g] /\ \A j \in 1..g : r.received[j] = more[j]
    BY <1>3, <1>6, <1>7, <2>1
  <2>3. CASE r.inputSdu = <<>>
    <3>1. r.inputSduLength = 0
      BY <1>1, <2>3 DEF Held
    <3> QED BY <1>6, <2>1, <2>2, <2>3, <3>1 DEF Held
  <2>4. CASE r.inputSdu # <<>>
    <3>1. /\ g < m /\ t < b[g + 1] /\ r.inputSdu = Span(b[g], t)
          /\ r.inputSduLength = b[g + 1] - b[g]
      BY <1>1, <2>4 DEF Held
    <3>2. g + 1 \in 0..m /\ g < m + 1
      BY <1>3, <3>1
    <3>3. c[g + 1] = b[g + 1]
      BY <1>7, <3>2
    <3> QED BY <1>6, <2>1, <2>2, <2>4, <3>1, <3>2, <3>3 DEF Held
  <2> QED BY <2>3, <2>4
<1>9. Takes(r, more, t)
  BY <1>2, <1>8 DEF Takes
<1> QED
  BY <1>2, <1>3, <1>4, <1>9 DEF more, k

\* `send_sdu` numbers and marks the segments so that the peer puts them together again.
LEMMA SendSduKeeps ==
  ASSUME NEW s \in Engine, NEW p \in Engine, NEW mine, NEW theirs,
         Pair(s, p, mine, theirs), Limited(s), NEW n \in Nat \ {0}
  PROVE  LET sdu == Span(Segments(mine), Segments(mine) + n)
             frames == [i \in 1..n |-> [txSeq |-> SequenceAdd(s.nextTxSeq, i - 1), sar |-> Sar(i, n),
                                        segment |-> sdu[i], length |-> IF i = 1 /\ n > 1 THEN n ELSE 0]]
         IN Kept(ProcessOutput([s EXCEPT !.pending = @ \o frames,
                                         !.nextTxSeq = SequenceAdd(@, n)]),
                 p, Append(mine, sdu), theirs)
<1> DEFINE k == Segments(mine)
           sdu == Span(k, k + n)
           frames == [i \in 1..n |-> [txSeq |-> SequenceAdd(s.nextTxSeq, i - 1), sar |-> Sar(i, n),
                                      segment |-> sdu[i], length |-> IF i = 1 /\ n > 1 THEN n ELSE 0]]
           more == Append(mine, sdu)
           u == [s EXCEPT !.pending = @ \o frames, !.nextTxSeq = SequenceAdd(@, n)]
           l == Len(s.txWindow)
           o == Len(s.pending)
<1>1. PICK a \in Nat, t \in Nat : Between(s, p, mine, a, t)
  BY DEF Pair, Direction
<1>2. /\ Sends(s, mine, a) /\ Takes(p, mine, t) /\ a <= t /\ t <= a + l
      /\ InFlight(s.outbound, mine, a + l, t) /\ Acks(p.outbound, a, t)
  BY <1>1 DEF Between
<1>3. /\ mine \in Seq(Seq(Nat)) /\ k \in Nat /\ Takes(p, more, t) /\ Segments(more) = k + n
  BY <1>2, TakesOfMore
<1>4. /\ s.pending \in Seq(Frame) /\ o \in Nat /\ l \in Nat
  BY EngineIs
<1>5. /\ (a + l) + o = k /\ s.lastAckedTxSeq = a % Modulus
      /\ s.nextTxSeq = k % Modulus /\ l <= TxWindowSize
      /\ \A i \in 1..l : Carries(s.txWindow[i].frame, mine, a + i)
      /\ \A i \in 1..o : Carries(s.pending[i], mine, (a + l) + i)
  BY <1>2 DEF Sends
<1> HIDE DEF k
<1>6. sdu \in Seq(Nat) /\ Len(sdu) = n /\ \A i \in 1..n : sdu[i] = k + i
  <2>1. k + n \in Nat /\ k <= k + n /\ (k + n) - k = n
    BY <1>3
  <2>2. /\ sdu \in Seq(Nat) /\ Len(sdu) = (k + n) - k
        /\ \A i \in 1..((k + n) - k) : sdu[i] = k + i
    BY <1>3, <2>1, SpanProperties
  <2> HIDE DEF sdu
  <2> QED BY <2>1, <2>2
<1>7. Len(more) = Len(mine) + 1 /\ more[Len(mine) + 1] = sdu /\ Len(mine) \in Nat
  <2> HIDE DEF sdu
  <2> QED BY <1>3, <1>6, AppendProperties
<1> HIDE DEF sdu, more
<1>8. ASSUME NEW i \in 1..n
      PROVE  frames[i] \in Frame /\ Carries(frames[i], more, k + i)
  <2> DEFINE f == frames[i]
  <2>1. /\ f.txSeq = SequenceAdd(s.nextTxSeq, i - 1) /\ f.sar = Sar(i, n) /\ f.segment = k + i
        /\ f.length = IF i = 1 /\ n > 1 THEN n ELSE 0
        /\ f = [txSeq |-> f.txSeq, sar |-> f.sar, segment |-> f.segment, length |-> f.length]
    BY <1>6
  <2> HIDE DEF f
  <2>2. i - 1 \in Nat /\ k + (i - 1) \in Nat /\ k + (i - 1) = (k + i) - 1 /\ k + i \in Nat
        /\ k + i >= 1
    BY <1>3
  <2>3. f.txSeq = (k + (i - 1)) % Modulus /\ f.txSeq \in Numbers
    BY <1>3, <1>5, <2>1, <2>2, AddKept, Remainder
  <2>4. Sar(i, n) \in Sars
    BY DEF Sar, Sars
  <2>5. (IF i = 1 /\ n > 1 THEN n ELSE 0) \in Nat
    OBVIOUS
  <2>6. f \in Frame
    BY <2>1, <2>2, <2>3, <2>4, <2>5 DEF Frame
  <2>7. Len(mine) + 1 \in 1..Len(more) /\ i \in 1..Len(more[Len(mine) + 1])
    BY <1>6, <1>7
  <2>8. OfSdus(more, f)
    BY <1>6, <1>7, <2>1, <2>2, <2>3, <2>7 DEF OfSdus
  <2> QED BY <2>1, <2>6, <2>8 DEF Carries, f
<1>9. frames \in Seq(Frame) /\ Len(frames) = n
  <2>1. frames = [i \in 1..n |-> frames[i]]
    OBVIOUS
  <2> HIDE DEF frames
  <2> QED BY <1>8, <2>1
<1> HIDE DEF frames
<1> DEFINE q == s.pending \o frames
<1>10. /\ q \in Seq(Frame) /\ Len(q) = o + n
       /\ \A i \in 1..(o + n) : q[i] = IF i <= o THEN s.pending[i] ELSE frames[i - o]
  BY <1>4, <1>9, ConcatProperties
<1> HIDE DEF q
<1>11. SequenceAdd(s.nextTxSeq, n) = (k + n) % Modulus /\ (k + n) % Modulus \in Numbers
  <2>1. k \in Nat /\ n \in Nat /\ k + n \in Nat /\ s.nextTxSeq = k % Modulus
    BY <1>3, <1>5
  <2>2. SequenceAdd(k % Modulus, n) = (k + n) % Modulus
    BY <2>1, AddKept
  <2>3. (k + n) % Modulus \in Numbers
    BY <2>1, Remainder
  <2> QED BY <2>1, <2>2, <2>3
<1>12. /\ u \in Engine /\ u.outbound = s.outbound /\ u.txWindow = s.txWindow
       /\ u.maxRetransmissions = s.maxRetransmissions /\ u.failed = s.failed
       /\ u.pending = q /\ u.nextTxSeq = (k + n) % Modulus
       /\ u.lastAckedTxSeq = s.lastAckedTxSeq /\ u.received = s.received
       /\ u.expectedTxSeq = s.expectedTxSeq /\ u.inputSdu = s.inputSdu
       /\ u.inputSduLength = s.inputSduLength
  BY <1>10, <1>11 DEF Engine, q
<1> HIDE DEF u
<1>13. \A f : OfSdus(mine, f) => OfSdus(more, f)
  BY <1>3, <1>6, OfSdusMore DEF more
<1>14. Sends(u, more, a)
  <2>1. (a + l) + (o + n) = k + n
    BY <1>3, <1>4, <1>5
  <2>2. \A i \in 1..l : Carries(s.txWindow[i].frame, more, a + i)
    BY <1>5, <1>13 DEF Carries
  <2>3. ASSUME NEW i \in 1..(o + n) PROVE Carries(q[i], more, (a + l) + i)
    <3>1. CASE i <= o
      <4>1. i \in 1..o /\ q[i] = s.pending[i]
        BY <1>4, <1>10, <3>1
      <4> QED BY <1>5, <1>13, <4>1 DEF Carries
    <3>2. CASE ~(i <= o)
      <4>1. i - o \in 1..n /\ q[i] = frames[i - o]
        BY <1>4, <1>10, <3>2
      <4>2. k + (i - o) = (a + l) + i
        BY <1>3, <1>4, <1>5
      <4>3. Carries(frames[i - o], more, k + (i - o))
        BY <1>8, <4>1
      <4> QED BY <4>1, <4>2, <4>3
    <3> QED BY <3>1, <3>2
  <2> QED BY <1>3, <1>5, <1>10, <1>12, <2>1, <2>2, <2>3 DEF Sends
<1>15. Between(u, p, more, a, t)
  <2>1. InFlight(s.outbound, more, a + l, t)
    BY <1>2, <1>3, <1>6, InFlightOfMore DEF more
  <2> QED BY <1>2, <1>3, <1>12, <1>14, <2>1 DEF Between
<1>16. Direction(p, u, theirs)
  <2>1. PICK c \in Nat, d \in Nat : Between(p, s, theirs, c, d)
    BY DEF Pair, Direction
  <2>2. ReceiverSame(s, u)
    BY <1>12 DEF ReceiverSame
  <2>3. Takes(u, theirs, d)
    BY <2>1, <2>2, TakesSame DEF Between
  <2> QED BY <1>12, <2>1, <2>3 DEF Between, Direction
<1>17. Pair(u, p, more, theirs)
  BY <1>15, <1>16 DEF Pair, Direction
<1>18. Limited(u)
  BY <1>12 DEF Limited
<1>19. Kept(ProcessOutput(u), p, more, theirs)
  BY <1>12, <1>17, <1>18, ProcessOutputKeeps
<1> QED
  BY <1>19 DEF u, q, more, frames, sdu, k

-----------------------------------------------------------------------------
(* The two ends *)

\* The inductive invariant: each direction is in order, whatever is under way.
ErtmInv ==
  /\ engine \in [Ends -> Engine]
  /\ sent \in [Ends -> Seq(Seq(Nat))]
  /\ \A e \in Ends : Direction(engine[e], engine[Peer(e)], sent[e])
  /\ \A e \in Ends : Limited(engine[e])
  /\ NoProtocolError

\* There are two ends.
LEMMA Peers ==
  ASSUME NEW e \in Ends
  PROVE  Peer(e) \in Ends /\ Peer(e) # e /\ Peer(Peer(e)) = e /\ Ends = {e, Peer(e)}
BY DEF Ends, Peer

\* The first t segments of SDUs, as a receiver has them.
LEMMA HeldSegments ==
  ASSUME NEW r \in Engine, NEW sdus, NEW t \in Nat, Takes(r, sdus, t)
  PROVE  t = Segments(r.received) + Len(r.inputSdu)
<1> DEFINE k == Len(r.received)
           x == Lens(r.received)
<1>1. PICK b : Bounds(b, sdus) /\ Held(r, sdus, b, t)
  BY DEF Takes
<1>2. /\ r.received \in Seq(Seq(Nat)) /\ k \in Nat
  BY EngineIs
<1>3. /\ k <= Len(sdus) /\ (\A j \in 1..k : r.received[j] = sdus[j])
      /\ t = b[k] + Len(r.inputSdu)
  BY <1>1 DEF Held
<1>4. /\ sdus \in Seq(Seq(Nat)) /\ Len(sdus) \in Nat /\ b \in [0..Len(sdus) -> Nat]
      /\ b[0] = 0 /\ \A j \in 1..Len(sdus) : b[j] = b[j - 1] + Len(sdus[j])
  <2>1. /\ sdus \in Seq(Seq(Nat)) /\ PartialSums(b, Lens(sdus))
    BY <1>1 DEF Bounds
  <2>2. Len(sdus) \in Nat
    BY <2>1
  <2>3. Len(Lens(sdus)) = Len(sdus) /\ \A j \in 1..Len(sdus) : Lens(sdus)[j] = Len(sdus[j])
    BY <2>2 DEF Lens
  <2> QED BY <2>1, <2>2, <2>3 DEF PartialSums
<1>5. x \in Seq(Nat) /\ Len(x) = k /\ \A j \in 1..k : x[j] = Len(r.received[j])
  <2>1. \A j \in 1..k : r.received[j] \in Seq(Nat)
    BY <1>2, ElementOfSeq
  <2>2. \A j \in 1..k : Len(r.received[j]) \in Nat
    BY <2>1
  <2> QED BY <1>2, <2>2 DEF Lens
<1> DEFINE c == [j \in 0..k |-> b[j]]
<1>6. PartialSums(c, x)
  <2>1. c \in [0..k -> Nat] /\ c[0] = 0
    BY <1>2, <1>3, <1>4
  <2>2. ASSUME NEW j \in 1..k PROVE c[j] = c[j - 1] + x[j]
    <3>1. j \in 0..k /\ j - 1 \in 0..k /\ j \in 1..Len(sdus)
      BY <1>2, <1>3, <1>4
    <3>2. c[j] = b[j] /\ c[j - 1] = b[j - 1] /\ x[j] = Len(sdus[j])
      BY <1>3, <1>5, <3>1
    <3> QED BY <1>4, <3>1, <3>2
  <2> HIDE DEF c, x
  <2> QED BY <1>5, <2>1, <2>2 DEF PartialSums
<1>7. c[k] = b[k]
  BY <1>2
<1> HIDE DEF c, x
<1>8. Total(x) = b[k]
  BY <1>5, <1>6, <1>7, TotalIs
<1> QED
  BY <1>3, <1>8 DEF Segments, Lens, x

\* The properties the runs check follow from the invariant.
LEMMA InvGives ==
  ASSUME ErtmInv
  PROVE  SdusIntact /\ WindowKept
<1>1. ASSUME NEW e \in Ends
      PROVE  LET r == engine[e].received IN
             /\ Len(r) <= Len(sent[Peer(e)])
             /\ \A j \in 1..Len(r) : r[j] = sent[Peer(e)][j]
  <2>1. Peer(e) \in Ends /\ Peer(Peer(e)) = e
    BY Peers
  <2>2. PICK a \in Nat, t \in Nat : Between(engine[Peer(e)], engine[e], sent[Peer(e)], a, t)
    BY <2>1 DEF ErtmInv, Direction
  <2> QED BY <2>2 DEF Between, Takes, Held
<1>2. ASSUME NEW e \in Ends
      PROVE  LET s == engine[e]
                 r == engine[Peer(e)]
             IN /\ {s.nextTxSeq, s.lastAckedTxSeq, s.expectedTxSeq, s.lastAckedRxSeq} \subseteq Numbers
                /\ Len(s.txWindow) <= TxWindowSize
                /\ \A i \in DOMAIN s.txWindow :
                     s.txWindow[i].frame.txSeq = SequenceAdd(s.lastAckedTxSeq, i - 1)
                /\ Segments(sent[e]) - (Len(s.txWindow) + Len(s.pending))
                     <= Segments(r.received) + Len(r.inputSdu)
  <2> DEFINE s == engine[e]
             r == engine[Peer(e)]
             l == Len(s.txWindow)
             o == Len(s.pending)
  <2>1. s \in Engine /\ r \in Engine
    BY Peers DEF ErtmInv
  <2>2. PICK a \in Nat, t \in Nat : Between(s, r, sent[e], a, t)
    BY DEF ErtmInv, Direction
  <2> HIDE DEF s, r
  <2>3. l \in Nat /\ o \in Nat /\ DOMAIN s.txWindow = 1..l
    BY <2>1, EngineIs
  <2>4. /\ (a + l) + o = Segments(sent[e]) /\ s.lastAckedTxSeq = a % Modulus
        /\ l <= TxWindowSize /\ a <= t
        /\ \A i \in 1..l : Carries(s.txWindow[i].frame, sent[e], a + i)
    BY <2>2 DEF Between, Sends
  <2>5. {s.nextTxSeq, s.lastAckedTxSeq, s.expectedTxSeq, s.lastAckedRxSeq} \subseteq Numbers
    BY <2>1 DEF Engine
  <2>6. ASSUME NEW i \in 1..l
        PROVE  s.txWindow[i].frame.txSeq = SequenceAdd(s.lastAckedTxSeq, i - 1)
    <3>1. s.txWindow[i].frame.txSeq = ((a + i) - 1) % Modulus
      BY <2>4 DEF Carries, OfSdus
    <3>2. i - 1 \in Nat /\ (a + i) - 1 = a + (i - 1)
      BY <2>3
    <3>3. SequenceAdd(a % Modulus, i - 1) = (a + (i - 1)) % Modulus
      BY <3>2, AddKept
    <3> QED BY <2>4, <3>1, <3>2, <3>3
  <2>7. t = Segments(r.received) + Len(r.inputSdu)
    BY <2>1, <2>2, HeldSegments DEF Between
  <2>8. Segments(sent[e]) - (l + o) <= t
    <3> DEFINE x == Segments(sent[e])
    <3>1. l \in Nat /\ o \in Nat /\ (a + l) + o = x /\ a <= t
      BY <2>3, <2>4
    <3> HIDE DEF l, o, x
    <3>2. x - (l + o) <= t
      BY <3>1
    <3> QED BY <3>2 DEF x
  <2> HIDE DEF l, o
  <2>9. Segments(sent[e]) - (l + o) <= Segments(r.received) + Len(r.inputSdu)
    BY ONLY <2>7, <2>8
  <2> QED BY <2>3, <2>4, <2>5, <2>6, <2>9 DEF s, r, l, o
<1>3. InOrder
  BY <1>1 DEF InOrder
<1>4. TypeOK
  BY <1>2 DEF TypeOK, Numbers
<1>5. NothingForgotten
  BY <1>2 DEF NothingForgotten
<1>6. LimitKept
  <2>1. ASSUME NEW e \in Ends PROVE DOMAIN engine[e].txWindow = 1..Len(engine[e].txWindow)
    <3>1. engine[e] \in Engine
      BY DEF ErtmInv
    <3> QED BY <3>1, EngineIs
  <2> QED BY <2>1 DEF LimitKept, ErtmInv, Limited
<1> QED
  BY <1>3, <1>4, <1>5, <1>6 DEF SdusIntact, WindowKept, ErtmInv

\* At first nothing is sent.
LEMMA InitErtmInv == Init => ErtmInv
<1> SUFFICES ASSUME Init PROVE ErtmInv
  OBVIOUS
<1>1. ASSUME NEW e \in Ends PROVE NewEngine(e) \in Engine /\ Limited(NewEngine(e))
  <2>1. MaxRetransmissions[e] \in Nat /\ 0 \in Numbers
    BY ErtmAssumption DEF Numbers
  <2>2. NewEngine(e) \in Engine
    BY <2>1 DEF NewEngine, Engine
  <2>3. NewEngine(e).txWindow = <<>> /\ NewEngine(e).failed = FALSE
    BY DEF NewEngine
  <2> QED BY <2>2, <2>3 DEF Limited
<1>2. ASSUME NEW e \in Ends PROVE Between(NewEngine(e), NewEngine(Peer(e)), <<>>, 0, 0)
  <2> DEFINE s == NewEngine(e)
             r == NewEngine(Peer(e))
             b == [k \in 0..0 |-> 0]
  <2>1. /\ s.pending = <<>> /\ s.txWindow = <<>> /\ s.outbound = <<>>
        /\ s.nextTxSeq = 0 /\ s.lastAckedTxSeq = 0
    BY DEF NewEngine
  <2>2. /\ r.outbound = <<>> /\ r.received = <<>> /\ r.expectedTxSeq = 0
        /\ r.inputSdu = <<>> /\ r.inputSduLength = 0
    BY DEF NewEngine
  <2> HIDE DEF s, r
  <2>3. 0 % Modulus = 0 /\ TxWindowSize \in Nat
    BY ErtmAssumption
  <2>4. Lens(<<>>) = <<>> /\ Segments(<<>>) = 0
    BY TotalEmpty DEF Lens, Segments
  <2>5. PartialSums(b, <<>>) /\ b[0] = 0
    BY DEF PartialSums
  <2> HIDE DEF b
  <2>6. Bounds(b, <<>>)
    BY <2>4, <2>5 DEF Bounds
  <2>7. Held(r, <<>>, b, 0)
    BY <2>2, <2>5 DEF Held
  <2>8. Takes(r, <<>>, 0)
    BY <2>2, <2>3, <2>6, <2>7 DEF Takes
  <2>9. Sends(s, <<>>, 0)
    BY <2>1, <2>3, <2>4 DEF Sends
  <2>10. InFlight(<<>>, <<>>, 0, 0)
    BY DEF InFlight
  <2>11. Acks(<<>>, 0, 0)
    <3> DEFINE f == [i \in 1..0 |-> 0]
    <3>1. f \in [1..0 -> Nat] /\ Len(<<>>) = 0 /\ 1..0 = {}
      OBVIOUS
    <3> HIDE DEF f
    <3>2. f \in [1..Len(<<>>) -> Nat] /\ 1..Len(<<>>) = {}
      BY <3>1
    <3> QED BY <3>2 DEF Acks
  <2>12. 0 + Len(s.txWindow) = 0
    BY <2>1
  <2> QED BY <2>1, <2>2, <2>8, <2>9, <2>10, <2>11, <2>12 DEF Between, s, r
<1>3. \A e \in Ends : Peer(e) \in Ends
  BY Peers
<1>4. engine = [e \in Ends |-> NewEngine(e)] /\ sent = [e \in Ends |-> <<>>] /\ errors = {}
  BY DEF Init
<1>5. \A e \in Ends : Direction(engine[e], engine[Peer(e)], sent[e])
  BY <1>2, <1>3, <1>4 DEF Direction
<1>6. engine \in [Ends -> Engine] /\ \A e \in Ends : Limited(engine[e])
  BY <1>1, <1>4
<1>7. sent \in [Ends -> Seq(Seq(Nat))]
  <2>1. <<>> \in Seq(Seq(Nat))
    OBVIOUS
  <2> QED BY <1>4, <2>1
<1> QED
  BY <1>4, <1>5, <1>6, <1>7 DEF ErtmInv, NoProtocolError

\* Both directions, from either end.
LEMMA PairOf ==
  ASSUME ErtmInv, NEW e \in Ends
  PROVE  /\ engine[e] \in Engine /\ engine[Peer(e)] \in Engine
         /\ Limited(engine[e]) /\ Limited(engine[Peer(e)])
         /\ Pair(engine[e], engine[Peer(e)], sent[e], sent[Peer(e)])
<1>1. Peer(e) \in Ends /\ Peer(Peer(e)) = e
  BY Peers
<1> QED
  BY <1>1 DEF ErtmInv, Pair

\* A step at one end: its engine and the peer's, and what is sent, after the step.
After(e, u, v, mine) ==
  /\ engine' \in [Ends -> Engine] /\ engine'[e] = u /\ engine'[Peer(e)] = v
  /\ sent' \in [Ends -> Seq(Seq(Nat))] /\ sent'[e] = mine /\ sent'[Peer(e)] = sent[Peer(e)]

\* The invariant after such a step.
LEMMA StepKeeps ==
  ASSUME ErtmInv, NEW e \in Ends, NEW u, NEW v, NEW mine, After(e, u, v, mine),
         Pair(u, v, mine, sent[Peer(e)]), Limited(u), Limited(v), NoProtocolError'
  PROVE  ErtmInv'
<1>1. Peer(e) \in Ends /\ Peer(Peer(e)) = e /\ Ends = {e, Peer(e)}
  BY Peers
<1>2. /\ engine' \in [Ends -> Engine] /\ engine'[e] = u /\ engine'[Peer(e)] = v
      /\ sent' \in [Ends -> Seq(Seq(Nat))] /\ sent'[e] = mine /\ sent'[Peer(e)] = sent[Peer(e)]
  BY DEF After
<1>3. ASSUME NEW x \in Ends PROVE Direction(engine'[x], engine'[Peer(x)], sent'[x])
  <2>1. CASE x = e
    BY <1>2, <2>1 DEF Pair
  <2>2. CASE x = Peer(e)
    BY <1>1, <1>2, <2>2 DEF Pair
  <2> QED BY <1>1, <2>1, <2>2
<1>4. \A x \in Ends : Limited(engine'[x])
  BY <1>1, <1>2
<1> QED
  BY <1>2, <1>3, <1>4 DEF ErtmInv

\* One engine changes.
LEMMA OneEngine ==
  ASSUME ErtmInv, NEW e \in Ends, NEW u \in Engine, engine' = [engine EXCEPT ![e] = u],
         UNCHANGED sent
  PROVE  After(e, u, engine[Peer(e)], sent[e])
<1>1. Peer(e) \in Ends /\ Peer(e) # e
  BY Peers
<1>2. engine \in [Ends -> Engine] /\ sent \in [Ends -> Seq(Seq(Nat))]
  BY DEF ErtmInv
<1> QED
  BY <1>1, <1>2 DEF After

\* Every step keeps the invariant.
LEMMA NextKeeps == ErtmInv /\ [Next]_vars => ErtmInv'
<1> SUFFICES ASSUME ErtmInv, [Next]_vars PROVE ErtmInv'
  OBVIOUS
<1>1. engine \in [Ends -> Engine] /\ sent \in [Ends -> Seq(Seq(Nat))] /\ NoProtocolError
  BY DEF ErtmInv
<1>2. ASSUME NEW e \in Ends, NEW n \in 1..MaxSegments, SendSdu(e, n) PROVE ErtmInv'
  <2> DEFINE s == engine[e]
             k == Segments(sent[e])
             sdu == Span(k, k + n)
             frames == [i \in 1..n |-> [txSeq |-> SequenceAdd(s.nextTxSeq, i - 1), sar |-> Sar(i, n),
                                        segment |-> sdu[i], length |-> IF i = 1 /\ n > 1 THEN n ELSE 0]]
             u == ProcessOutput([s EXCEPT !.pending = @ \o frames,
                                          !.nextTxSeq = SequenceAdd(@, n)])
             more == Append(sent[e], sdu)
  <2>1. n \in Nat \ {0}
    BY ErtmAssumption
  <2>2. /\ engine[e] \in Engine /\ engine[Peer(e)] \in Engine
        /\ Limited(engine[e]) /\ Limited(engine[Peer(e)])
        /\ Pair(engine[e], engine[Peer(e)], sent[e], sent[Peer(e)])
    BY PairOf
  <2>3. Kept(u, engine[Peer(e)], more, sent[Peer(e)])
    BY <2>1, <2>2, SendSduKeeps
  <2>4. engine' = [engine EXCEPT ![e] = u] /\ sent' = [sent EXCEPT ![e] = more]
        /\ errors' = errors
    BY <1>2 DEF SendSdu
  <2>5. more \in Seq(Seq(Nat))
    <3>1. PICK a \in Nat, t \in Nat : Between(engine[e], engine[Peer(e)], sent[e], a, t)
      BY <2>2 DEF Pair, Direction
    <3>2. k \in Nat /\ sent[e] \in Seq(Seq(Nat))
      BY <2>1, <2>2, <3>1, TakesOfMore DEF Between
    <3>3. sdu \in Seq(Nat)
      <4> HIDE DEF k
      <4>1. k + n \in Nat /\ k <= k + n
        BY <2>1, <3>2
      <4> QED BY <3>2, <4>1, SpanProperties
    <3> HIDE DEF sdu
    <3> QED BY <3>2, <3>3, AppendProperties
  <2>6. Peer(e) \in Ends /\ Peer(e) # e
    BY Peers
  <2> HIDE DEF u, more
  <2>7. After(e, u, engine[Peer(e)], more)
    BY <1>1, <2>3, <2>4, <2>5, <2>6 DEF After, Kept
  <2>8. NoProtocolError'
    BY <1>1, <2>4 DEF NoProtocolError
  <2> QED BY <2>2, <2>3, <2>7, <2>8, StepKeeps DEF Kept
<1>3. ASSUME NEW e \in Ends, Deliver(e) PROVE ErtmInv'
  <2> DEFINE p == engine[Peer(e)]
             result == Receive(engine[e], Head(p.outbound))
             u == result.engine
  <2>1. /\ engine[e] \in Engine /\ p \in Engine /\ Limited(engine[e]) /\ Limited(p)
        /\ Pair(engine[e], p, sent[e], sent[Peer(e)])
    BY PairOf
  <2>2. /\ p.outbound # <<>>
        /\ engine' = [engine EXCEPT ![e] = u, ![Peer(e)].outbound = Tail(@)]
        /\ errors' = errors \cup result.error /\ sent' = sent
    BY <1>3 DEF Deliver
  <2>3. Kept(u, Relayed(p), sent[e], sent[Peer(e)]) /\ result.error \subseteq {"limit"}
    BY <2>1, <2>2, ReceiveKeeps
  <2>4. Peer(e) \in Ends /\ Peer(e) # e
    BY Peers
  <2>5. /\ Relayed(p) \in Engine /\ Relayed(p).txWindow = p.txWindow
        /\ Relayed(p).maxRetransmissions = p.maxRetransmissions
        /\ Relayed(p).failed = p.failed
    BY <2>1, <2>2, RelayedIs
  <2>6. Limited(Relayed(p))
    BY <2>1, <2>5 DEF Limited
  <2> HIDE DEF result
  <2>7. engine' = [engine EXCEPT ![e] = u, ![Peer(e)] = Relayed(p)]
    BY <1>1, <2>2, <2>4 DEF Relayed
  <2>8. After(e, u, Relayed(p), sent[e])
    <3> HIDE DEF p, u
    <3> QED BY <1>1, <2>2, <2>3, <2>4, <2>5, <2>7 DEF After, Kept
  <2>9. NoProtocolError'
    BY <1>1, <2>2, <2>3 DEF NoProtocolError
  <2> QED BY <2>3, <2>6, <2>8, <2>9, StepKeeps DEF Kept
<1>4. ASSUME NEW e \in Ends, Lose(e) PROVE ErtmInv'
  <2> DEFINE p == engine[Peer(e)]
  <2>1. /\ engine[e] \in Engine /\ p \in Engine /\ Limited(engine[e]) /\ Limited(p)
        /\ Pair(engine[e], p, sent[e], sent[Peer(e)])
    BY PairOf
  <2>2. /\ p.outbound # <<>> /\ engine' = [engine EXCEPT ![Peer(e)].outbound = Tail(@)]
        /\ errors' = errors /\ sent' = sent
    BY <1>4 DEF Lose
  <2>3. Pair(engine[e], Relayed(p), sent[e], sent[Peer(e)])
    BY <2>1, <2>2, LostKeeps
  <2>4. Peer(e) \in Ends /\ Peer(e) # e
    BY Peers
  <2>5. /\ Relayed(p) \in Engine /\ Relayed(p).txWindow = p.txWindow
        /\ Relayed(p).maxRetransmissions = p.maxRetransmissions
        /\ Relayed(p).failed = p.failed
    BY <2>1, <2>2, RelayedIs
  <2>6. Limited(Relayed(p))
    BY <2>1, <2>5 DEF Limited
  <2>7. engine' = [engine EXCEPT ![Peer(e)] = Relayed(p)]
    BY <2>2 DEF Relayed
  <2>8. After(e, engine[e], Relayed(p), sent[e])
    <3> HIDE DEF p
    <3> QED BY <1>1, <2>2, <2>4, <2>5, <2>7 DEF After
  <2>9. NoProtocolError'
    BY <1>1, <2>2 DEF NoProtocolError
  <2> QED BY <2>1, <2>3, <2>6, <2>8, <2>9, StepKeeps
<1>5. ASSUME NEW e \in Ends, Tick(e) PROVE ErtmInv'
  <2> DEFINE u == RetransmitAll(engine[e])
  <2>1. /\ engine[e] \in Engine /\ engine[Peer(e)] \in Engine
        /\ Limited(engine[e]) /\ Limited(engine[Peer(e)])
        /\ Pair(engine[e], engine[Peer(e)], sent[e], sent[Peer(e)])
    BY PairOf
  <2>2. engine' = [engine EXCEPT ![e] = u] /\ errors' = errors /\ sent' = sent
    BY <1>5 DEF Tick
  <2>3. Kept(u, engine[Peer(e)], sent[e], sent[Peer(e)])
    BY <2>1, RetransmitKeeps
  <2> HIDE DEF u
  <2>4. After(e, u, engine[Peer(e)], sent[e])
    BY <2>2, <2>3, OneEngine DEF Kept
  <2>5. NoProtocolError'
    BY <1>1, <2>2 DEF NoProtocolError
  <2> QED BY <2>1, <2>3, <2>4, <2>5, StepKeeps DEF Kept
<1>6. ASSUME NEW e \in Ends, NEW busy \in BOOLEAN, SetReceiverBusy(e, busy) PROVE ErtmInv'
  <2> DEFINE s == engine[e]
             v == [s EXCEPT !.localBusy = busy]
             fn == IF busy THEN "RNR" ELSE "RR"
             u == SendSupervisory(v, fn)
  <2>1. /\ s \in Engine /\ engine[Peer(e)] \in Engine
        /\ Limited(s) /\ Limited(engine[Peer(e)])
        /\ Pair(s, engine[Peer(e)], sent[e], sent[Peer(e)])
    BY PairOf
  <2>2. engine' = [engine EXCEPT ![e] = u] /\ errors' = errors /\ sent' = sent
    BY <1>6 DEF SetReceiverBusy
  <2>3. fn \in {"RR", "RNR", "REJ"}
    OBVIOUS
  <2> HIDE DEF s, fn
  <2>4. /\ v \in Engine /\ v.outbound = s.outbound /\ SenderSame(s, v)
        /\ ReceiverSame(s, v) /\ v.txWindow = s.txWindow /\ v.failed = s.failed
        /\ v.maxRetransmissions = s.maxRetransmissions
    BY <2>1 DEF Engine, SenderSame, ReceiverSame
  <2> HIDE DEF v
  <2>5. Pair(v, engine[Peer(e)], sent[e], sent[Peer(e)]) /\ Limited(v)
    BY <2>1, <2>4, SameKeeps DEF Limited
  <2>6. Kept(u, engine[Peer(e)], sent[e], sent[Peer(e)])
    BY <2>1, <2>3, <2>4, <2>5, SupervisoryKeeps
  <2> HIDE DEF u
  <2>7. After(e, u, engine[Peer(e)], sent[e])
    BY <2>2, <2>6, OneEngine DEF Kept
  <2>8. NoProtocolError'
    BY <1>1, <2>2 DEF NoProtocolError
  <2> QED BY <2>1, <2>6, <2>7, <2>8, StepKeeps DEF Kept
<1>7. CASE UNCHANGED vars
  BY <1>7 DEF vars, ErtmInv, NoProtocolError
<1> QED
  BY <1>2, <1>3, <1>4, <1>5, <1>6, <1>7 DEF Next

-----------------------------------------------------------------------------

\* Each direction stays in order.
LEMMA ErtmInvariant == Spec => []ErtmInv
BY InitErtmInv, NextKeeps, PTL DEF Spec

\* Whatever the link loses and however often frames are sent again, each end hands up
\* the SDUs its peer sent, whole, once and in order, and neither `acknowledge` nor
\* `accept_information` ever takes the other's frames for a violation of the protocol:
\* for every modulus, window below it, retransmission limit and number of SDUs.
THEOREM SdusStayIntact == Spec => []SdusIntact
<1>1. ErtmInv => SdusIntact
  BY InvGives
<1> QED
  BY <1>1, ErtmInvariant, PTL

\* The transmit window never outgrows its size, holds consecutive sequence numbers,
\* lets go only of frames the peer has, and resends none beyond the limit.
THEOREM WindowIsKept == Spec => []WindowKept
<1>1. ErtmInv => WindowKept
  BY InvGives
<1> QED
  BY <1>1, ErtmInvariant, PTL
=============================================================================

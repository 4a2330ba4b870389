------------------------------ MODULE Streams ------------------------------
(***************************************************************************)
(* Byte streams cut into frames: bytes are numbered in the order they are  *)
(* written, so a correct stream is an interval of numbers.  Also sums over *)
(* queues, and the facts about both that the proofs of the channels use.   *)
(***************************************************************************)
EXTENDS Integers, Sequences, SequenceTheorems, WellFoundedInduction, TLAPS

Least(a, b) == IF a < b THEN a ELSE b

\* The bytes that follow byte a, up to byte b, in order.
Span(a, b) == [i \in 1..(b - a) |-> a + i]

\* The first n elements of a sequence, and the others.
Take(s, n) == SubSeq(s, 1, n)
Drop(s, n) == SubSeq(s, n + 1, Len(s))

\* x after n times f.
Iterate(f, x, n) ==
  LET after[k \in 0..n] == IF k = 0 THEN x ELSE f[after[k - 1]]
  IN after[n]

\* The sum of a sequence of numbers.
Total(s) ==
  LET upTo[n \in 0..Len(s)] == IF n = 0 THEN 0 ELSE upTo[n - 1] + s[n]
  IN upTo[Len(s)]

-----------------------------------------------------------------------------
(* Induction, with the property as a set of numbers.                        *)

\* A set that holds zero and every successor of its numbers holds all numbers.
LEMMA SetInduction ==
  ASSUME NEW S, 0 \in S, \A n \in Nat : n \in S => n + 1 \in S
  PROVE  Nat \subseteq S
<1> DEFINE Less == OpToRel(<, Nat)
           Missing == Nat \ S
<1> SUFFICES ASSUME Missing # {} PROVE FALSE
  OBVIOUS
<1>1. IsWellFoundedOn(Less, Nat)
  BY NatLessThanWellFounded
<1>2. Missing \subseteq Nat
  OBVIOUS
<1>3. PICK m \in Missing : \A k \in Missing : ~(<<k, m>> \in Less)
  <2> HIDE DEF Missing, Less
  <2> QED BY <1>1, <1>2, WFMin
<1>4. m \in Nat /\ m # 0 /\ m - 1 \in Nat
  OBVIOUS
<1>5. m - 1 \notin Missing
  <2> DEFINE pair == <<m - 1, m>>
  <2>1. pair \in Nat \X Nat /\ pair[1] < pair[2]
    BY <1>4
  <2>2. pair \in Less
    <3> HIDE DEF pair
    <3> QED BY <2>1 DEF OpToRel
  <2> HIDE DEF Less
  <2> QED BY <1>3, <2>2
<1> QED
  BY <1>4, <1>5

\* A set of numbers with a bound has a largest one.
LEMMA Largest ==
  ASSUME NEW S \in SUBSET Nat, NEW x \in S, NEW B \in Nat, \A n \in S : n <= B
  PROVE  \E n \in S : \A m \in S : m <= n
<1> DEFINE Has == \E n \in S : \A m \in S : m <= n
           Near(k) == \E n \in S : n >= B - k
           T == {k \in Nat : Near(k) => Has}
<1>1. 0 \in T
  <2> SUFFICES ASSUME Near(0) PROVE Has
    OBVIOUS
  <2>1. PICK n \in S : n >= B - 0
    OBVIOUS
  <2>2. n \in Nat /\ \A m \in S : m <= n
    BY <2>1
  <2> QED BY <2>2
<1>2. ASSUME NEW k \in Nat, k \in T PROVE k + 1 \in T
  <2> SUFFICES ASSUME Near(k + 1) PROVE Has
    OBVIOUS
  <2>1. PICK n \in S : n >= B - (k + 1)
    OBVIOUS
  <2>2. CASE Near(k)
    BY <1>2, <2>2
  <2>3. CASE ~Near(k)
    <3>1. \A m \in S : m \in Nat /\ n \in Nat /\ ~(m >= B - k)
      BY <2>3
    <3>2. \A m \in S : m <= n
      BY <2>1, <3>1
    <3> QED BY <3>2
  <2> QED BY <2>2, <2>3
<1>3. Nat \subseteq T
  <2> HIDE DEF T
  <2> QED BY <1>1, <1>2, SetInduction
<1>4. Near(B)
  <2>1. x \in Nat /\ x >= B - B
    OBVIOUS
  <2> QED BY <2>1
<1> QED
  BY <1>3, <1>4

-----------------------------------------------------------------------------
(* Sums.  `Total` is known by its partial sums, which exist and are unique. *)

\* f[n] is the sum of the first n numbers of s.
PartialSums(f, s) ==
  /\ f \in [0..Len(s) -> Nat]
  /\ f[0] = 0
  /\ \A n \in 1..Len(s) : f[n] = f[n - 1] + s[n]

\* Every sequence of numbers has partial sums.
LEMMA PartialSumsExist ==
  ASSUME NEW s \in Seq(Nat)
  PROVE  \E f : PartialSums(f, s)
<1> DEFINE Good(f, m) == /\ f \in [0..m -> Nat]
                         /\ f[0] = 0
                         /\ \A n \in 1..m : f[n] = f[n - 1] + s[n]
           Has(m) == m <= Len(s) => \E f : Good(f, m)
           S == {m \in Nat : Has(m)}
<1>0. Len(s) \in Nat /\ \A n \in 1..Len(s) : s[n] \in Nat
  OBVIOUS
<1>1. Has(0)
  <2>1. Good([n \in 0..0 |-> 0], 0)
    OBVIOUS
  <2> HIDE DEF Good
  <2> QED BY <2>1
<1>2. ASSUME NEW m \in Nat, Has(m) PROVE Has(m + 1)
  <2> SUFFICES ASSUME m + 1 <= Len(s) PROVE \E f : Good(f, m + 1)
    OBVIOUS
  <2>1. PICK f : Good(f, m)
    <3> HIDE DEF Good
    <3> QED BY <1>0, <1>2
  <2> DEFINE g == [n \in 0..(m + 1) |-> IF n <= m THEN f[n] ELSE f[m] + s[m + 1]]
  <2>2. g \in [0..(m + 1) -> Nat]
    BY <1>0, <2>1
  <2>3. ASSUME NEW n \in 1..(m + 1) PROVE g[n] = g[n - 1] + s[n]
    <3>1. CASE n <= m
      BY <2>1, <3>1
    <3>2. CASE n = m + 1
      BY <2>1, <3>2
    <3> QED BY <3>1, <3>2
  <2>4. g[0] = 0
    BY <2>1
  <2> HIDE DEF g
  <2>5. Good(g, m + 1)
    BY <2>2, <2>3, <2>4
  <2> HIDE DEF Good
  <2> QED BY <2>5
<1>3. Nat \subseteq S
  <2> HIDE DEF Has
  <2>1. 0 \in S /\ \A m \in Nat : m \in S => m + 1 \in S
    BY <1>1, <1>2
  <2> HIDE DEF S
  <2> QED BY <2>1, SetInduction
<1>4. \E f : Good(f, Len(s))
  <2> HIDE DEF Good
  <2> QED BY <1>0, <1>3
<1> QED
  BY <1>4 DEF PartialSums

\* A sequence has only one function of partial sums.
LEMMA PartialSumsUnique ==
  ASSUME NEW s \in Seq(Nat), NEW f, NEW g, PartialSums(f, s), PartialSums(g, s)
  PROVE  f = g
<1> DEFINE S == {m \in Nat : m <= Len(s) => f[m] = g[m]}
<1>1. 0 \in S
  BY DEF PartialSums
<1>2. ASSUME NEW m \in Nat, m \in S PROVE m + 1 \in S
  BY <1>2 DEF PartialSums
<1>3. Nat \subseteq S
  <2> HIDE DEF S
  <2> QED BY <1>1, <1>2, SetInduction
<1>4. \A m \in 0..Len(s) : f[m] = g[m]
  BY <1>3
<1> QED
  BY <1>4 DEF PartialSums

\* `Total` is what partial sums say it is.
LEMMA TotalIs ==
  ASSUME NEW s \in Seq(Nat), NEW f, PartialSums(f, s)
  PROVE  Total(s) = f[Len(s)] /\ Total(s) \in Nat
<1> DEFINE Rec(g) == g = [n \in 0..Len(s) |-> IF n = 0 THEN 0 ELSE g[n - 1] + s[n]]
           upTo == CHOOSE g : Rec(g)
<1>1. Rec(f)
  BY DEF PartialSums
<1>2. Rec(upTo)
  <2> HIDE DEF Rec
  <2> QED BY <1>1
<1> HIDE DEF upTo
<1>3. upTo = f
  <2> DEFINE S == {m \in Nat : m <= Len(s) => upTo[m] = f[m]}
  <2>1. 0 \in S
    BY <1>1, <1>2
  <2>2. ASSUME NEW m \in Nat, m \in S PROVE m + 1 \in S
    BY <1>1, <1>2, <2>2
  <2>3. Nat \subseteq S
    <3> HIDE DEF S
    <3> QED BY <2>1, <2>2, SetInduction
  <2>4. \A m \in 0..Len(s) : f[m] = upTo[m]
    BY <2>3
  <2> QED BY <2>4, <1>1, <1>2
<1>4. Total(s) = upTo[Len(s)]
  BY DEF Total, upTo
<1> QED
  BY <1>3, <1>4 DEF PartialSums

\* The sum of natural numbers is one.
LEMMA TotalType ==
  ASSUME NEW s \in Seq(Nat)
  PROVE  Total(s) \in Nat
BY PartialSumsExist, TotalIs

\* The sum of nothing.
LEMMA TotalEmpty == Total(<<>>) = 0
<1>1. PartialSums([n \in 0..0 |-> 0], <<>>)
  BY DEF PartialSums
<1> QED
  BY <1>1, TotalIs

\* The sum of one number.
LEMMA TotalOne ==
  ASSUME NEW a \in Nat
  PROVE  Total(<<a>>) = a
<1> DEFINE f == [n \in 0..1 |-> IF n = 0 THEN 0 ELSE a]
<1>1. <<a>> \in Seq(Nat) /\ Len(<<a>>) = 1 /\ <<a>>[1] = a
  OBVIOUS
<1>2. PartialSums(f, <<a>>)
  BY <1>1 DEF PartialSums
<1>3. Total(<<a>>) = f[1]
  <2> HIDE DEF f
  <2> QED BY <1>1, <1>2, TotalIs
<1> QED
  BY <1>3

\* The sum of two sequences after each other.
LEMMA TotalConcat ==
  ASSUME NEW s \in Seq(Nat), NEW t \in Seq(Nat)
  PROVE  Total(s \o t) = Total(s) + Total(t)
<1>1. PICK f : PartialSums(f, s)
  BY PartialSumsExist
<1>2. PICK g : PartialSums(g, t)
  BY PartialSumsExist
<1> DEFINE m == Len(s)
           k == Len(t)
           u == s \o t
           h == [n \in 0..(m + k) |-> IF n <= m THEN f[n] ELSE f[m] + g[n - m]]
<1>3. /\ m \in Nat /\ k \in Nat /\ u \in Seq(Nat) /\ Len(u) = m + k
      /\ \A n \in 1..(m + k) : u[n] = IF n <= m THEN s[n] ELSE t[n - m]
  BY ConcatProperties
<1>4. /\ f \in [0..m -> Nat] /\ f[0] = 0 /\ \A n \in 1..m : f[n] = f[n - 1] + s[n]
      /\ g \in [0..k -> Nat] /\ g[0] = 0 /\ \A n \in 1..k : g[n] = g[n - 1] + t[n]
  BY <1>1, <1>2 DEF PartialSums
<1>5. Total(s) = f[m] /\ Total(t) = g[k]
  BY <1>1, <1>2, TotalIs
<1> HIDE DEF m, k, u
<1>6. /\ \A n \in 0..m : f[n] \in Nat
      /\ \A n \in 0..k : g[n] \in Nat
      /\ \A n \in 1..m : s[n] \in Nat
      /\ \A n \in 1..k : t[n] \in Nat
  <2>1. \A n \in 0..m : f[n] \in Nat
    BY <1>4
  <2>2. \A n \in 0..k : g[n] \in Nat
    BY <1>4
  <2>3. (\A n \in 1..m : s[n] \in Nat) /\ (\A n \in 1..k : t[n] \in Nat)
    BY ElementOfSeq DEF m, k
  <2> QED BY <2>1, <2>2, <2>3
<1>7. /\ DOMAIN h = 0..(m + k) /\ h = [n \in 0..(m + k) |-> h[n]]
      /\ \A n \in 0..m : h[n] = f[n]
      /\ \A n \in 1..k : h[m + n] = f[m] + g[n]
  <2>1. ASSUME NEW n \in 1..k PROVE h[m + n] = f[m] + g[n]
    <3> DEFINE j == m + n
    <3>1. j \in 0..(m + k) /\ ~(j <= m) /\ j - m = n
      BY <1>3
    <3> HIDE DEF j
    <3>2. h[j] = f[m] + g[j - m]
      BY <3>1
    <3> HIDE DEF h
    <3> QED BY <3>1, <3>2 DEF j
  <2>2. ASSUME NEW n \in 0..m PROVE h[n] = f[n]
    BY <1>3
  <2> QED BY <2>1, <2>2
<1> HIDE DEF h
<1>8. \A n \in m..(m + k) : h[n] = f[m] + g[n - m]
  <2> TAKE n \in m..(m + k)
  <2>1. CASE n = m
    <3>1. n - m = 0 /\ m \in 0..m
      BY <1>3, <2>1
    <3>2. f[m] \in Nat /\ h[m] = f[m]
      BY <1>6, <1>7, <3>1
    <3> QED BY <1>4, <2>1, <3>1, <3>2
  <2>2. CASE n > m
    <3>1. n - m \in 1..k /\ n = m + (n - m)
      BY <1>3, <2>2
    <3> QED BY <1>7, <3>1
  <2> QED BY <1>3, <2>1, <2>2
<1>9. \A n \in 0..(m + k) : h[n] \in Nat
  <2> TAKE n \in 0..(m + k)
  <2>1. CASE n <= m
    <3>1. n \in 0..m
      BY <1>3, <2>1
    <3> QED BY <1>6, <1>7, <3>1
  <2>2. CASE n > m
    <3>1. n - m \in 0..k /\ n \in m..(m + k) /\ m \in 0..m
      BY <1>3, <2>2
    <3> QED BY <1>6, <1>8, <3>1
  <2> QED BY <1>3, <2>1, <2>2
<1>10. \A n \in 1..(m + k) : h[n] = h[n - 1] + u[n]
  <2> TAKE n \in 1..(m + k)
  <2>1. CASE n <= m
    <3>1. n \in 1..m /\ n \in 0..m /\ n - 1 \in 0..m
      BY <1>3, <2>1
    <3>2. h[n] = f[n] /\ h[n - 1] = f[n - 1] /\ f[n] = f[n - 1] + s[n]
      BY <1>4, <1>7, <3>1
    <3>3. u[n] = s[n]
      BY <1>3, <2>1
    <3> QED BY <3>2, <3>3
  <2>2. CASE n > m
    <3>1. /\ n - m \in 1..k /\ n - m \in 0..k /\ n - m - 1 \in 0..k /\ m \in 0..m
          /\ n \in m..(m + k) /\ n - 1 \in m..(m + k) /\ n - 1 - m = n - m - 1
      BY <1>3, <2>2
    <3>2. h[n] = f[m] + g[n - m] /\ h[n - 1] = f[m] + g[n - m - 1]
      BY <1>8, <3>1
    <3>3. g[n - m] = g[n - m - 1] + t[n - m] /\ u[n] = t[n - m]
      BY <1>3, <1>4, <2>2, <3>1
    <3>4. f[m] \in Nat /\ g[n - m - 1] \in Nat /\ t[n - m] \in Nat
      BY <1>6, <3>1
    <3> QED BY <3>2, <3>3, <3>4
  <2> QED BY <1>3, <2>1, <2>2
<1>11. h[0] = 0 /\ h[m + k] = f[m] + g[k]
  <2>1. 0 \in 0..m /\ m + k \in m..(m + k) /\ (m + k) - m = k
    BY <1>3
  <2> QED BY <1>4, <1>7, <1>8, <2>1
<1>12. PartialSums(h, u)
  BY <1>3, <1>7, <1>9, <1>10, <1>11 DEF PartialSums
<1> QED
  BY <1>3, <1>5, <1>11, <1>12, TotalIs DEF u

\* Zeros add up to zero.
LEMMA TotalZeros ==
  ASSUME NEW s \in Seq(Nat), \A i \in 1..Len(s) : s[i] = 0
  PROVE  Total(s) = 0
<1> DEFINE f == [n \in 0..Len(s) |-> 0]
<1>1. PartialSums(f, s) /\ f[Len(s)] = 0
  BY DEF PartialSums
<1> HIDE DEF f
<1> QED
  BY <1>1, TotalIs

\* Ones add up to their number.
LEMMA TotalOnes ==
  ASSUME NEW s \in Seq(Nat), \A i \in 1..Len(s) : s[i] = 1
  PROVE  Total(s) = Len(s)
<1> DEFINE f == [n \in 0..Len(s) |-> n]
<1>1. PartialSums(f, s) /\ f[Len(s)] = Len(s)
  BY DEF PartialSums
<1> HIDE DEF f
<1> QED
  BY <1>1, TotalIs

\* A queue is its first message followed by the others.
LEMMA HeadFirst ==
  ASSUME NEW S, NEW s \in Seq(S), s # <<>>
  PROVE  s = <<Head(s)>> \o Tail(s)
<1>1. Len(s) \in Nat \ {0} /\ 1 \in 1..Len(s)
  BY EmptySeq
<1>2. Head(s) = s[1] /\ Head(s) \in S /\ Tail(s) \in Seq(S)
      /\ Len(Tail(s)) = Len(s) - 1
      /\ \A i \in 1..Len(Tail(s)) : Tail(s)[i] = s[i + 1]
  BY <1>1, HeadTailProperties
<1> DEFINE u == <<Head(s)>> \o Tail(s)
<1>3. u \in Seq(S) /\ Len(u) = Len(s)
  BY <1>1, <1>2, ConcatProperties
<1>4. \A i \in 1..Len(s) : u[i] = s[i]
  BY <1>1, <1>2
<1> HIDE DEF u
<1>5. s = u
  BY <1>3, <1>4, SeqEqual
<1> QED
  BY <1>5 DEF u

-----------------------------------------------------------------------------
(* Sums over a queue: w gives every message its number.                     *)

Weights(w, s) == [i \in 1..Len(s) |-> w[s[i]]]
Weight(w, s) == Total(Weights(w, s))

\* The weights of a sequence are numbers, one for each element.
LEMMA WeightType ==
  ASSUME NEW S, NEW w \in [S -> Nat], NEW s \in Seq(S)
  PROVE  /\ Weights(w, s) \in Seq(Nat) /\ Len(Weights(w, s)) = Len(s)
         /\ \A i \in 1..Len(s) : Weights(w, s)[i] = w[s[i]]
         /\ Weight(w, s) \in Nat
<1>1. /\ Weights(w, s) \in Seq(Nat) /\ Len(Weights(w, s)) = Len(s)
      /\ \A i \in 1..Len(s) : Weights(w, s)[i] = w[s[i]]
  BY DEF Weights
<1> QED
  BY <1>1, TotalType DEF Weight

\* Queueing messages adds up their weights.
LEMMA WeightConcat ==
  ASSUME NEW S, NEW w \in [S -> Nat], NEW s \in Seq(S), NEW t \in Seq(S)
  PROVE  Weight(w, s \o t) = Weight(w, s) + Weight(w, t)
<1> DEFINE u == s \o t
           x == Weights(w, s)
           y == Weights(w, t)
           z == Weights(w, u)
<1>1. /\ u \in Seq(S) /\ Len(u) = Len(s) + Len(t) /\ Len(s) \in Nat /\ Len(t) \in Nat
      /\ \A i \in 1..Len(u) : u[i] = IF i <= Len(s) THEN s[i] ELSE t[i - Len(s)]
  BY ConcatProperties
<1> HIDE DEF u
<1>0. ASSUME NEW q \in Seq(S)
      PROVE  /\ Weights(w, q) \in Seq(Nat) /\ Len(Weights(w, q)) = Len(q)
             /\ \A i \in 1..Len(q) : Weights(w, q)[i] = w[q[i]]
  BY DEF Weights
<1>2. x \in Seq(Nat) /\ Len(x) = Len(s) /\ \A i \in 1..Len(s) : x[i] = w[s[i]]
  BY <1>0
<1>3. y \in Seq(Nat) /\ Len(y) = Len(t) /\ \A i \in 1..Len(t) : y[i] = w[t[i]]
  BY <1>0
<1>4. z \in Seq(Nat) /\ Len(z) = Len(u) /\ \A i \in 1..Len(u) : z[i] = w[u[i]]
  BY <1>1, <1>0
<1> HIDE DEF x, y, z
<1>5. /\ x \o y \in Seq(Nat) /\ Len(x \o y) = Len(x) + Len(y)
      /\ \A i \in 1..(Len(x) + Len(y)) :
           (x \o y)[i] = IF i <= Len(x) THEN x[i] ELSE y[i - Len(x)]
  BY <1>2, <1>3, ConcatProperties
<1>6. \A i \in 1..Len(z) : z[i] = (x \o y)[i]
  <2> TAKE i \in 1..Len(z)
  <2>1. i <= Len(s) \/ i > Len(s)
    BY <1>1, <1>4
  <2>2. CASE i <= Len(s)
    <3>1. i \in 1..Len(s) /\ u[i] = s[i] /\ (x \o y)[i] = x[i]
      BY <1>1, <1>2, <1>3, <1>4, <1>5, <2>2
    <3> QED BY <1>2, <1>4, <3>1
  <2>3. CASE i > Len(s)
    <3>1. /\ i - Len(s) \in 1..Len(t) /\ ~(i <= Len(s))
          /\ i \in 1..Len(u) /\ i \in 1..(Len(x) + Len(y))
      BY <1>1, <1>2, <1>3, <1>4, <2>3
    <3>2. u[i] = t[i - Len(s)] /\ (x \o y)[i] = y[i - Len(s)]
      BY <1>1, <1>2, <1>5, <3>1
    <3> QED BY <1>3, <1>4, <3>1, <3>2
  <2> QED BY <2>1, <2>2, <2>3
<1>7. z = x \o y
  BY <1>1, <1>2, <1>3, <1>4, <1>5, <1>6, SeqEqual
<1> QED
  BY <1>2, <1>3, <1>7, TotalConcat DEF Weight, x, y, z, u

\* An empty queue weighs nothing; a message, its weight.
LEMMA WeightFew ==
  ASSUME NEW S, NEW w \in [S -> Nat]
  PROVE  Weight(w, <<>>) = 0 /\ \A e \in S : Weight(w, <<e>>) = w[e]
<1>1. Weights(w, <<>>) = <<>>
  BY DEF Weights
<1>2. ASSUME NEW e \in S PROVE Weights(w, <<e>>) = <<w[e]>>
  BY DEF Weights
<1> QED
  BY <1>1, <1>2, TotalEmpty, TotalOne DEF Weight

\* Taking the first message out of a queue takes its weight away.
LEMMA WeightTail ==
  ASSUME NEW S, NEW w \in [S -> Nat], NEW s \in Seq(S), s # <<>>
  PROVE  Weight(w, s) = w[Head(s)] + Weight(w, Tail(s))
<1>1. Head(s) \in S /\ <<Head(s)>> \in Seq(S) /\ Tail(s) \in Seq(S)
  BY HeadTailProperties
<1>2. s = <<Head(s)>> \o Tail(s)
  BY HeadFirst
<1>3. Weight(w, <<Head(s)>> \o Tail(s)) = Weight(w, <<Head(s)>>) + Weight(w, Tail(s))
  BY <1>1, WeightConcat
<1>4. Weight(w, <<Head(s)>>) = w[Head(s)]
  BY <1>1, WeightFew
<1> QED
  BY <1>2, <1>3, <1>4

\* Messages that all weigh nothing, or all weigh one.
LEMMA WeightConstant ==
  ASSUME NEW S, NEW w \in [S -> Nat], NEW s \in Seq(S)
  PROVE  /\ (\A i \in 1..Len(s) : w[s[i]] = 0) => Weight(w, s) = 0
         /\ (\A i \in 1..Len(s) : w[s[i]] = 1) => Weight(w, s) = Len(s)
<1>1. /\ Weights(w, s) \in Seq(Nat) /\ Len(Weights(w, s)) = Len(s)
      /\ \A i \in 1..Len(s) : Weights(w, s)[i] = w[s[i]]
  BY WeightType
<1> QED
  BY <1>1, TotalZeros, TotalOnes DEF Weight

-----------------------------------------------------------------------------
(* Spans of bytes *)

\* Length and elements of a span.
LEMMA SpanProperties ==
  ASSUME NEW a \in Nat, NEW b \in Nat, a <= b
  PROVE  /\ Span(a, b) \in Seq(Nat)
         /\ Len(Span(a, b)) = b - a
         /\ \A i \in 1..(b - a) : Span(a, b)[i] = a + i
         /\ Span(a, b) = <<>> <=> a = b
<1> DEFINE s == Span(a, b)
<1>1. s \in Seq(Nat) /\ Len(s) = b - a /\ \A i \in 1..(b - a) : s[i] = a + i
  BY DEF Span
<1> HIDE DEF s
<1>2. s = <<>> <=> a = b
  BY <1>1, EmptySeq
<1> QED
  BY <1>1, <1>2 DEF s

\* Two spans that touch make one.
LEMMA SpanConcat ==
  ASSUME NEW a \in Nat, NEW b \in Nat, NEW c \in Nat, a <= b, b <= c
  PROVE  Span(a, b) \o Span(b, c) = Span(a, c)
<1> DEFINE s == Span(a, b)
           t == Span(b, c)
           u == Span(a, c)
<1>1. s \in Seq(Nat) /\ Len(s) = b - a /\ \A i \in 1..(b - a) : s[i] = a + i
  BY SpanProperties
<1>2. t \in Seq(Nat) /\ Len(t) = c - b /\ \A i \in 1..(c - b) : t[i] = b + i
  BY SpanProperties
<1>3. u \in Seq(Nat) /\ Len(u) = c - a /\ \A i \in 1..(c - a) : u[i] = a + i
  BY SpanProperties
<1> HIDE DEF s, t, u
<1>4. s \o t \in Seq(Nat) /\ Len(s \o t) = c - a
  <2>1. s \o t \in Seq(Nat) /\ Len(s \o t) = Len(s) + Len(t)
    BY <1>1, <1>2, ConcatProperties
  <2> QED BY <1>1, <1>2, <2>1
<1>5. ASSUME NEW i \in 1..(c - a) PROVE (s \o t)[i] = u[i]
  <2>1. CASE i <= b - a
    BY <1>1, <1>2, <1>3, <2>1
  <2>2. CASE i > b - a
    <3>1. i - (b - a) \in 1..(c - b) /\ b + (i - (b - a)) = a + i
      BY <2>2
    <3>2. (s \o t)[i] = t[i - (b - a)]
      BY <1>1, <1>2, <2>2
    <3> QED BY <1>2, <1>3, <3>1, <3>2
  <2>3. i <= b - a \/ i > b - a
    OBVIOUS
  <2> QED BY <2>1, <2>2, <2>3
<1> QED
  BY <1>3, <1>4, <1>5, SeqEqual DEF s, t, u

\* A part of a span is a span.
LEMMA SpanPart ==
  ASSUME NEW a \in Nat, NEW b \in Nat, a <= b, NEW i \in 0..(b - a), NEW j \in i..(b - a)
  PROVE  SubSeq(Span(a, b), i + 1, j) = Span(a + i, a + j)
<1> DEFINE s == Span(a, b)
           t == SubSeq(s, i + 1, j)
           u == Span(a + i, a + j)
<1>1. /\ i \in Nat /\ j \in Nat /\ i <= j /\ j <= b - a
      /\ a + i \in Nat /\ a + j \in Nat /\ a + i <= a + j /\ b - a \in Nat
      /\ (a + j) - (a + i) = j - i
  OBVIOUS
<1>2. s \in Seq(Nat) /\ Len(s) = b - a /\ \A k \in 1..(b - a) : s[k] = a + k
  BY SpanProperties
<1>3. u \in Seq(Nat) /\ Len(u) = j - i /\ \A k \in 1..(j - i) : u[k] = (a + i) + k
  <2> DEFINE x == a + i
             y == a + j
  <2>1. x \in Nat /\ y \in Nat /\ x <= y /\ y - x = j - i
    BY <1>1
  <2> HIDE DEF x, y
  <2>2. Span(x, y) \in Seq(Nat) /\ Len(Span(x, y)) = y - x
        /\ \A k \in 1..(y - x) : Span(x, y)[k] = x + k
    BY <2>1, SpanProperties
  <2> QED BY <2>1, <2>2 DEF x, y
<1> HIDE DEF s
<1>4. \A k \in (i + 1)..j : s[k] \in Nat
  BY <1>1, <1>2
<1>5. /\ t \in Seq(Nat) /\ Len(t) = j - i
      /\ \A k \in 1..(j - i) : t[k] = s[(i + 1) + k - 1]
  <2>1. /\ t \in Seq(Nat) /\ Len(t) = IF i + 1 <= j THEN j - (i + 1) + 1 ELSE 0
        /\ \A k \in 1..(j - (i + 1) + 1) : t[k] = s[(i + 1) + k - 1]
    BY <1>1, <1>4, SubSeqProperties
  <2> HIDE DEF t
  <2> QED BY <1>1, <2>1
<1>6. \A k \in 1..(j - i) : t[k] = u[k]
  <2> TAKE k \in 1..(j - i)
  <2>1. (i + 1) + k - 1 = i + k /\ i + k \in 1..(b - a) /\ a + (i + k) = (a + i) + k
    BY <1>1
  <2> QED BY <1>2, <1>3, <1>5, <2>1
<1> HIDE DEF t, u
<1>7. t = u
  BY <1>3, <1>5, <1>6, SeqEqual
<1> QED
  BY <1>7 DEF s, t, u

-----------------------------------------------------------------------------
(* Iteration *)

\* What never leads out of a set, does not lead out of it when repeated.
LEMMA IterateStays ==
  ASSUME NEW f, NEW I, NEW x \in I, NEW n \in Nat, \A o \in I : f[o] \in I
  PROVE  Iterate(f, x, n) \in I
<1> DEFINE Good(g, m) == /\ g \in [0..m -> I]
                         /\ g[0] = x
                         /\ \A k \in 1..m : g[k] = f[g[k - 1]]
           S == {m \in Nat : \E g : Good(g, m)}
           Rec(g) == g = [k \in 0..n |-> IF k = 0 THEN x ELSE f[g[k - 1]]]
           after == CHOOSE g : Rec(g)
<1>1. 0 \in S
  <2>1. Good([k \in 0..0 |-> x], 0)
    OBVIOUS
  <2> HIDE DEF Good
  <2> QED BY <2>1
<1>2. ASSUME NEW m \in Nat, m \in S PROVE m + 1 \in S
  <2>1. PICK g : Good(g, m)
    <3> HIDE DEF Good
    <3> QED BY <1>2
  <2> DEFINE h == [k \in 0..(m + 1) |-> IF k <= m THEN g[k] ELSE f[g[m]]]
  <2>2. g[m] \in I /\ f[g[m]] \in I /\ \A k \in 0..m : g[k] \in I
    BY <2>1
  <2>3. h \in [0..(m + 1) -> I] /\ h[0] = x
    BY <2>1, <2>2
  <2>4. ASSUME NEW k \in 1..(m + 1) PROVE h[k] = f[h[k - 1]]
    <3>1. CASE k <= m
      BY <2>1, <3>1
    <3>2. CASE k = m + 1
      <4>1. k - 1 = m /\ ~(k <= m) /\ k \in 0..(m + 1) /\ m \in 0..(m + 1)
        BY <3>2
      <4> QED BY <4>1
    <3> QED BY <3>1, <3>2
  <2> HIDE DEF h
  <2>5. Good(h, m + 1)
    BY <2>3, <2>4
  <2> HIDE DEF Good
  <2> QED BY <2>5
<1>3. n \in S
  <2>1. Nat \subseteq S
    <3> HIDE DEF S
    <3> QED BY <1>1, <1>2, SetInduction
  <2> QED BY <2>1
<1>4. PICK g : Good(g, n)
  <2> HIDE DEF Good
  <2> QED BY <1>3
<1>5. Rec(g)
  BY <1>4
<1>6. Rec(after)
  <2> HIDE DEF Rec
  <2> QED BY <1>5
<1> HIDE DEF after
<1>7. after[n] \in I
  <2> DEFINE R == {m \in Nat : m <= n => after[m] \in I}
  <2>1. 0 \in R
    BY <1>6
  <2>2. ASSUME NEW m \in Nat, m \in R PROVE m + 1 \in R
    BY <1>6, <2>2
  <2>3. Nat \subseteq R
    <3> HIDE DEF R
    <3> QED BY <2>1, <2>2, SetInduction
  <2> QED BY <2>3
<1>8. Iterate(f, x, n) = after[n]
  BY DEF Iterate, after
<1> QED
  BY <1>7, <1>8

-----------------------------------------------------------------------------
(* What a queue of messages makes of its receiver: T holds the triples of a *)
(* state, a message and a state it can lead to.                             *)

Steps(pos, T, q, x, y) ==
  /\ pos[0] = x /\ pos[Len(q)] = y
  /\ \A i \in 1..Len(q) : <<pos[i - 1], q[i], pos[i]>> \in T

\* The messages of q, taken in order, lead from x to y.
Path(T, q, x, y) == \E pos : Steps(pos, T, q, x, y)

\* No message leads nowhere, and one takes one step.
LEMMA PathFew ==
  ASSUME NEW T, NEW x
  PROVE  /\ Path(T, <<>>, x, x)
         /\ \A e, y : <<x, e, y>> \in T => Path(T, <<e>>, x, y)
         /\ \A y : Path(T, <<>>, x, y) => x = y
<1>1. Steps([i \in 0..0 |-> x], T, <<>>, x, x)
  BY DEF Steps
<1>2. ASSUME NEW e, NEW y, <<x, e, y>> \in T PROVE Path(T, <<e>>, x, y)
  <2> DEFINE pos == [i \in 0..1 |-> IF i = 0 THEN x ELSE y]
             q == <<e>>
  <2>1. pos[0] = x /\ pos[1] = y /\ Len(q) = 1 /\ q[1] = e
    OBVIOUS
  <2> HIDE DEF pos, q
  <2>2. Steps(pos, T, q, x, y)
    <3> SUFFICES ASSUME NEW i \in 1..Len(q) PROVE <<pos[i - 1], q[i], pos[i]>> \in T
      BY <2>1 DEF Steps
    <3>1. i = 1 /\ i - 1 = 0
      BY <2>1
    <3> QED BY <1>2, <2>1, <3>1
  <2> QED BY <2>2 DEF Path, q
<1>3. ASSUME NEW y, Path(T, <<>>, x, y) PROVE x = y
  <2>1. Len(<<>>) = 0
    OBVIOUS
  <2> QED BY <1>3, <2>1 DEF Path, Steps
<1> QED
  BY <1>1, <1>2, <1>3 DEF Path

\* Messages queued after others lead on from where those lead.
LEMMA PathConcat ==
  ASSUME NEW S, NEW s \in Seq(S), NEW t \in Seq(S), NEW T, NEW x, NEW y, NEW z,
         Path(T, s, x, y), Path(T, t, y, z)
  PROVE  Path(T, s \o t, x, z)
<1>1. PICK p : Steps(p, T, s, x, y)
  BY DEF Path
<1>2. PICK r : Steps(r, T, t, y, z)
  BY DEF Path
<1> DEFINE u == s \o t
           m == Len(s)
           k == Len(t)
           c == [i \in 0..(m + k) |-> IF i <= m THEN p[i] ELSE r[i - m]]
<1>3. /\ Len(u) = m + k /\ m \in Nat /\ k \in Nat
      /\ \A i \in 1..(m + k) : u[i] = IF i <= m THEN s[i] ELSE t[i - m]
  BY ConcatProperties
<1>4. p[0] = x /\ p[m] = y /\ \A i \in 1..m : <<p[i - 1], s[i], p[i]>> \in T
  BY <1>1 DEF Steps
<1>5. r[0] = y /\ r[k] = z /\ \A i \in 1..k : <<r[i - 1], t[i], r[i]>> \in T
  BY <1>2 DEF Steps
<1> HIDE DEF u, m, k
<1>6. (\A i \in 0..m : c[i] = p[i]) /\ (\A i \in m..(m + k) : c[i] = r[i - m])
  <2>1. ASSUME NEW i \in 0..m PROVE c[i] = p[i]
    BY <1>3
  <2>2. ASSUME NEW i \in m..(m + k) PROVE c[i] = r[i - m]
    <3>1. CASE i = m
      <4>1. i - m = 0 /\ m \in 0..m
        BY <1>3, <3>1
      <4> QED BY <1>4, <1>5, <2>1, <3>1, <4>1
    <3>2. CASE i > m
      BY <1>3, <3>2
    <3> QED BY <1>3, <3>1, <3>2
  <2> QED BY <2>1, <2>2
<1> HIDE DEF c
<1>7. c[0] = x /\ c[m + k] = z
  <2>1. 0 \in 0..m /\ m + k \in m..(m + k) /\ (m + k) - m = k
    BY <1>3
  <2> QED BY <1>4, <1>5, <1>6, <2>1
<1>8. ASSUME NEW i \in 1..(m + k) PROVE <<c[i - 1], u[i], c[i]>> \in T
  <2>1. CASE i <= m
    <3>1. i \in 1..m /\ i \in 0..m /\ i - 1 \in 0..m
      BY <1>3, <2>1
    <3> QED BY <1>3, <1>4, <1>6, <2>1, <3>1
  <2>2. CASE i > m
    <3>1. /\ i \in m..(m + k) /\ i - 1 \in m..(m + k) /\ ~(i <= m)
          /\ i - m \in 1..k /\ (i - 1) - m = (i - m) - 1
      BY <1>3, <2>2
    <3> QED BY <1>3, <1>5, <1>6, <3>1
  <2> QED BY <1>3, <2>1, <2>2
<1>9. Steps(c, T, u, x, z)
  BY <1>3, <1>7, <1>8 DEF Steps
<1> QED
  BY <1>9 DEF Path, u

\* The first message takes one step, the others lead on.
LEMMA PathTail ==
  ASSUME NEW S, NEW s \in Seq(S), s # <<>>, NEW T, NEW x, NEW y, Path(T, s, x, y)
  PROVE  \E z : <<x, Head(s), z>> \in T /\ Path(T, Tail(s), z, y)
<1>1. PICK p : Steps(p, T, s, x, y)
  BY DEF Path
<1> DEFINE m == Len(s)
           c == [i \in 0..(m - 1) |-> p[i + 1]]
<1>2. /\ m \in Nat \ {0} /\ Head(s) = s[1] /\ Len(Tail(s)) = m - 1
      /\ \A i \in 1..(m - 1) : Tail(s)[i] = s[i + 1]
  BY EmptySeq, HeadTailProperties
<1>3. p[0] = x /\ p[m] = y /\ \A i \in 1..m : <<p[i - 1], s[i], p[i]>> \in T
  BY <1>1 DEF Steps
<1> HIDE DEF m
<1>4. c[0] = p[1] /\ c[m - 1] = p[m]
  <2>1. 0 \in 0..(m - 1) /\ m - 1 \in 0..(m - 1) /\ (m - 1) + 1 = m /\ 0 + 1 = 1
    BY <1>2
  <2>2. c[0] = p[0 + 1] /\ c[m - 1] = p[(m - 1) + 1]
    BY <2>1
  <2> QED BY <2>1, <2>2
<1>5. ASSUME NEW i \in 1..(m - 1) PROVE <<c[i - 1], Tail(s)[i], c[i]>> \in T
  <2>1. i \in 0..(m - 1) /\ i - 1 \in 0..(m - 1) /\ i + 1 \in 1..m /\ (i - 1) + 1 = (i + 1) - 1
    BY <1>2
  <2>2. c[i] = p[i + 1] /\ c[i - 1] = p[(i + 1) - 1]
    BY <2>1
  <2> HIDE DEF c
  <2> QED BY <1>2, <1>3, <2>1, <2>2
<1> HIDE DEF c
<1>6. Steps(c, T, Tail(s), p[1], y)
  BY <1>2, <1>3, <1>4, <1>5 DEF Steps
<1>7. <<x, Head(s), p[1]>> \in T
  <2>1. 1 \in 1..m /\ 1 - 1 = 0
    BY <1>2
  <2> QED BY <1>2, <1>3, <2>1
<1> QED
  BY <1>6, <1>7 DEF Path

\* A path stays one when its states change in step.
LEMMA PathMap ==
  ASSUME NEW S, NEW s \in Seq(S), NEW T, NEW U, NEW f, NEW x, NEW y, Path(T, s, x, y),
         \A a, e, b : <<a, e, b>> \in T => <<f[a], e, f[b]>> \in U
  PROVE  Path(U, s, f[x], f[y])
<1>1. PICK p : Steps(p, T, s, x, y)
  BY DEF Path
<1> DEFINE m == Len(s)
           c == [i \in 0..m |-> f[p[i]]]
<1>2. m \in Nat
  OBVIOUS
<1>3. p[0] = x /\ p[m] = y /\ \A i \in 1..m : <<p[i - 1], s[i], p[i]>> \in T
  BY <1>1 DEF Steps
<1> HIDE DEF m
<1>4. \A i \in 0..m : c[i] = f[p[i]]
  OBVIOUS
<1> HIDE DEF c
<1>5. c[0] = f[x] /\ c[m] = f[y]
  BY <1>2, <1>3, <1>4
<1>6. ASSUME NEW i \in 1..m PROVE <<c[i - 1], s[i], c[i]>> \in U
  <2>1. i \in 0..m /\ i - 1 \in 0..m
    BY <1>2
  <2>2. <<f[p[i - 1]], s[i], f[p[i]]>> \in U
    BY <1>3
  <2> QED BY <1>4, <2>1, <2>2
<1>7. Steps(c, U, s, f[x], f[y])
  BY <1>5, <1>6 DEF Steps, m
<1> QED
  BY <1>7 DEF Path

\* A path stays one when more steps are allowed.
LEMMA PathMore ==
  ASSUME NEW T, NEW U, T \subseteq U, NEW q, NEW x, NEW y, Path(T, q, x, y)
  PROVE  Path(U, q, x, y)
<1>1. PICK p : Steps(p, T, q, x, y)
  BY DEF Path
<1>2. Steps(p, U, q, x, y)
  BY <1>1 DEF Steps
<1> QED
  BY <1>2 DEF Path
=============================================================================

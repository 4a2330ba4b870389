----------------------------- MODULE CreditFlow -----------------------------
(***************************************************************************)
(* What credit-based flow control promises for one direction of a channel: *)
(* the receiver always has room for what is on its way.  It abstracts both *)
(* LE credit-based channels (bumble-l2cap/src/le_credit.rs) and RFCOMM     *)
(* data links (bumble-rfcomm/src/mux.rs).                                  *)
(***************************************************************************)
EXTENDS Integers, TLAPS

CONSTANTS
  Granted,     \* credits the sender starts with
  Window,      \* credits the receiver believes it has granted at the start
  MaxWindow    \* the most credits the receiver ever lets be outstanding

\* What the sender has been given at the start, the receiver knows of.
CreditAssumption ==
  /\ Granted \in Nat /\ Window \in Nat /\ MaxWindow \in Nat
  /\ Granted <= Window
  /\ Window <= MaxWindow

VARIABLES
  credits,   \* credits the sender may still spend
  data,      \* frames sent and not yet received
  grants,    \* credits granted and not yet received by the sender
  window     \* credits outstanding in the receiver's view

vars == <<credits, data, grants, window>>

Init ==
  /\ credits = Granted
  /\ data = 0
  /\ grants = 0
  /\ window = Window

\* The sender takes in n credits and spends k on frames.
Sender(n, k) ==
  /\ n <= grants
  /\ k <= credits + n
  /\ grants' = grants - n
  /\ credits' = credits + n - k
  /\ data' = data + k
  /\ UNCHANGED window

\* The receiver takes in r frames, each paid for, and grants g credits.
Receiver(r, g) ==
  /\ r <= data
  /\ r <= window
  /\ g = 0 \/ window - r + g <= MaxWindow
  /\ data' = data - r
  /\ grants' = grants + g
  /\ window' = window - r + g
  /\ UNCHANGED credits

Next ==
  \/ \E n \in 0..grants : \E k \in 0..(credits + n) : Sender(n, k)
  \/ \E r \in 0..1, g \in 0..MaxWindow : Receiver(r, g)

Spec == Init /\ [][Next]_vars

-----------------------------------------------------------------------------
TypeOK == credits \in Nat /\ data \in Nat /\ grants \in Nat /\ window \in Nat

\* Every frame under way and every frame the sender may still send is covered by
\* a credit of the receiver's window (`peer_credits`, `rx_credits`), so a frame
\* never arrives at a receiver with no credit left, and neither `credits` nor
\* `tx_credits` grows past the window (no u16 overflow in `add_credits`).
Covered == credits + data + grants <= window /\ window <= MaxWindow

-----------------------------------------------------------------------------
(* The window covers everything under way, for every window size and every  *)
(* choice of when to grant.                                                 *)

IndInv == TypeOK /\ Covered

LEMMA InitIndInv == CreditAssumption /\ Init => IndInv
  BY DEF CreditAssumption, Init, IndInv, TypeOK, Covered

LEMMA NextIndInv == CreditAssumption /\ IndInv /\ [Next]_vars => IndInv'
<1> SUFFICES ASSUME CreditAssumption, IndInv, [Next]_vars PROVE IndInv'
  OBVIOUS
<1> USE DEF CreditAssumption, IndInv, TypeOK, Covered
<1>1. ASSUME NEW n \in 0..grants, NEW k \in 0..(credits + n), Sender(n, k)
      PROVE  IndInv'
  BY <1>1 DEF Sender
<1>2. ASSUME NEW r \in 0..1, NEW g \in 0..MaxWindow, Receiver(r, g)
      PROVE  IndInv'
  BY <1>2 DEF Receiver
<1>3. CASE UNCHANGED vars
  BY <1>3 DEF vars
<1> QED
  BY <1>1, <1>2, <1>3 DEF Next

\* Whatever the interleaving of data, grants and their delivery, the receiver's
\* window covers all frames sent and all credits the sender holds or will get.
THEOREM WindowCovers ==
  ASSUME CreditAssumption
  PROVE  Spec => []Covered
<1>1. Init => IndInv
  BY InitIndInv
<1>2. IndInv /\ [Next]_vars => IndInv'
  BY NextIndInv
<1>3. IndInv => Covered
  BY DEF IndInv
<1> QED
  BY <1>1, <1>2, <1>3, PTL DEF Spec
=============================================================================

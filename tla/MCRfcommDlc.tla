---------------------------- MODULE MCRfcommDlc ----------------------------
(* Model checking RfcommDlc with windows of a few credits. *)
EXTENDS RfcommDlc

\* The responder's offer (3) does not fit a field of 2 values: 1 reaches the peer.
TruncatedOffer == [e \in Ends |-> IF e = "initiator" THEN 1 ELSE 3]
SmallLimits == {<<1, 0>>}
=============================================================================

-------------------------- MODULE MCLeCreditChannel --------------------------
(* Model checking LeCreditChannel with sizes scaled down from 23/64 bytes. *)
EXTENDS LeCreditChannel

\* <<MTU, MPS>>: SDUs of several fragments, fragments shorter and longer.
SmallSizes == {<<3, 2>>, <<3, 4>>, <<5, 3>>}
SmallestSize == <<3, 2>>
=============================================================================

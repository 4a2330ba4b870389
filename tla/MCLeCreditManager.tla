------------------------- MODULE MCLeCreditManager --------------------------
(* Model checking LeCreditManager with CIDs that are reused soon and run out. *)
EXTENDS LeCreditManager, TLC

\* Both ends run the same code.
Symmetry == Permutations(Managers)
TwoCids == {1, 2}
=============================================================================

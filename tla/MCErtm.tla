------------------------------- MODULE MCErtm -------------------------------
(* Model checking Ertm with sequence numbers modulo 3. *)
EXTENDS Ertm

\* One end gives up after sending a frame twice, the other never.
OneLimited == [e \in Ends |-> IF e = "a" THEN 0 ELSE 1]
BothWays == [e \in Ends |-> IF e = "a" THEN 2 ELSE 1]
=============================================================================

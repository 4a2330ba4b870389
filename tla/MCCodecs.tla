------------------------------ MODULE MCCodecs ------------------------------
(***************************************************************************)
(* Every packet of the HCI catalog over a byte stream, and every message   *)
(* of every protocol between two hosts.  A behaviour is one of the two.    *)
(***************************************************************************)
EXTENDS HciStream, PduFlow

VARIABLE part

\* Variable fields empty, short, and at the limits of a length octet.
MCHciVariants ==
    {[octets |-> 0, rows |-> 0, tag |-> 0], [octets |-> 1, rows |-> 1, tag |-> 1],
     [octets |-> 31, rows |-> 2, tag |-> 0], [octets |-> 248, rows |-> 3, tag |-> 1],
     [octets |-> 251, rows |-> 4, tag |-> 0], [octets |-> 255, rows |-> 0, tag |-> 0]}
MCHciChanges == {-2, -1, 0, 1}
MCExtended == 9 :> [size |-> 1, offset |-> 0]

\* Past the lengths at which headers grow and messages are fragmented.
MCVariants ==
    {[octets |-> 0, rows |-> 0, tag |-> 0], [octets |-> 1, rows |-> 1, tag |-> 1],
     [octets |-> 40, rows |-> 2, tag |-> 0], [octets |-> 150, rows |-> 3, tag |-> 1]}
MCChanges == {-1, 0, 1}

MCInit == StreamInit /\ Init /\ part \in {"stream", "pdus"}
MCNext ==
    \/ part = "stream" /\ StreamNext /\ UNCHANGED <<part, vars>>
    \/ part = "pdus" /\ Next /\ UNCHANGED <<part, streamVars>>
MCSpec == MCInit /\ [][MCNext]_<<part, vars, streamVars>>

\* In neither direction is a message accepted that is not what its octets
\* say: with parameters longer or shorter than this stack writes them, a
\* packet or a PDU is refused, or means what a prefix of its octets means
\* (the parsers of HciPacket, and those of the protocols).
AcceptedCanonical == AcceptedIsCanonical /\ AcceptedPduIsCanonical
=============================================================================

------------------------------ MODULE MCNtpPoll ------------------------------
(* Model of NtpPoll: two clients of the LAN and one from outside.  A build   *)
(* configures no prefix, one that parts the two by the address of a third,  *)
(* or, by any address, everything: then the clients are more than the slots. *)
EXTENDS NtpPoll

Clients == {<<192, 168, 1, 9>>, <<192, 168, 1, 10>>, <<203, 0, 113, 9>>}

NoPrefix == [octets |-> <<>>, prefix |-> 0]
Pair     == [octets |-> <<192, 168, 1, 11>>, prefix |-> 31]
All      == [octets |-> <<10, 0, 0, 1>>, prefix |-> 0]

Cidrs == {NoPrefix, Pair, All}
=============================================================================

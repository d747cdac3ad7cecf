---------------------------- MODULE MCCtcpSetup ----------------------------
(* Two clients and a server for model checking CtcpSetup.                   *)
EXTENDS CtcpSetup

CONSTANTS c1, c2

Clients == {c1, c2}
(* A client that is started again may draw a smaller or a larger number;    *)
(* the numbers after the one of c2 wrap around.                             *)
Draws == [h \in Host |-> IF h = c1 THEN {0, 2} ELSE IF h = c2 THEN {7} ELSE {0, 3}]
(* The first segment has the numbers of the handshake's ACK.                *)
Segments == {[seqno |-> 1, ackno |-> 1], [seqno |-> 2, ackno |-> 3]}
=============================================================================

------------------------------- MODULE MCCtcp -------------------------------
(* Constant values for model checking Ctcp.                                 *)
EXTENDS Ctcp

Only(h, x, y) == [g \in Host |-> IF g = h THEN x ELSE y]
Both(x) == [g \in Host |-> x]

TwoWay2 == Both(2)
TwoWay21 == Only(Client, 2, 1)
OneWay4 == Only(Client, 4, 0)

NoEof == Both("never")
ClientEof == Only(Client, "once", "never")
BothEof == Both("once")

NoFaults == Both({})
AllFaults == Both(FaultKind)
ClientDrops == Only(Client, {"drop"}, {})
DropDup == Both({"drop", "duplicate"})
Lossy == Both({"drop", "corrupt"})
=============================================================================

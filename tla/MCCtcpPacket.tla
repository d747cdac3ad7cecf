---------------------------- MODULE MCCtcpPacket ----------------------------
(* Values for model checking CtcpPacket with bytes of seven bits, so that   *)
(* TLC's integers hold a uint32_t.                                          *)
EXTENDS CtcpPacket

SmallAndLast == {1, Long - 1}
Ends == {0, Long \div 2 - 1}
Addresses == {0, Long - 2}
(* Even and odd lengths, words that carry, and one with which the words of  *)
(* a segment add up to all ones, so that its checksum would be 0.           *)
Payloads == {<<>>, <<B - 1>>, <<1, B - 1>>, <<100, 71>>, <<B - 1, B - 1, B \div 2>>}
=============================================================================

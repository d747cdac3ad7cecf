---------------------------- MODULE MCLinkedList ----------------------------
(* Nodes are interchangeable: only their links and objects count.           *)
EXTENDS LinkedList, TLC

Symmetry == Permutations(Node)
=============================================================================

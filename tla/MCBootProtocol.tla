------------------------------ MODULE MCBootProtocol ------------------------------
(* BootProtocol for TLC: two nodes that differ in nothing.                 *)
EXTENDS BootProtocol

CONSTANTS n1, n2

MCNode == {n1, n2}
====================================================================================

---------------------------- MODULE MCTriadRepair ----------------------------
(****************************************************************************)
(* Four clients on a circle of 32 ids; 11 may have left before, which stays *)
(* the double successor of 0.                                               *)
(****************************************************************************)
EXTENDS TriadRepair

MCNode == {0, 5, 11, 18}
MCLeft == {NoNode, 11}
NoLeft == {NoNode}
==============================================================================

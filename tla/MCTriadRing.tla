----------------------------- MODULE MCTriadRing -----------------------------
(****************************************************************************)
(* Clients on a circle of 32 ids, in every order they can join in: five of  *)
(* which three pairs are exactly eight or sixteen apart and none adjacent,  *)
(* or four of which two are adjacent.                                       *)
(****************************************************************************)
EXTENDS TriadRing

MCNode == {0, 5, 11, 19, 27}
MCNodeAdjacent == {0, 5, 6, 19}
==============================================================================

---------------------------- MODULE MCTriadLeave ----------------------------
(****************************************************************************)
(* Two rings on a circle of 32 ids.  In the first no two clients are a      *)
(* power of two apart.  In the second 5 and 13 are, with 10 between them,   *)
(* so that the finger of 5 that names 13 outlives 13.                       *)
(****************************************************************************)
EXTENDS TriadLeave, TLC

CONSTANTS a, b

MCNode == {0, 5, 10, 11, 13, 18, 25, 27}
MCRings == {{0, 5, 11, 18, 25}, {5, 10, 13, 18, 27}}
MCText == {a, b}
MCHash == (a :> 15) @@ (b :> 20)
=============================================================================

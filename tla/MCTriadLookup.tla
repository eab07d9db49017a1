---------------------------- MODULE MCTriadLookup ----------------------------
(****************************************************************************)
(* Four clients on a circle of 8 ids, every subset of them that holds the  *)
(* first one as the ring, every table of stale fingers, every caller and    *)
(* key.  The first node is not the smallest, so walks cross the wrap-around.*)
(****************************************************************************)
EXTENDS TriadLookup

MCNode == {1, 3, 4, 6}
==============================================================================

---------------------------- MODULE MCTriadStore ----------------------------
(****************************************************************************)
(* In every run First is neither the smallest nor the largest client of the *)
(* full ring and the smallest or the only one of some smaller ring.         *)
(****************************************************************************)
EXTENDS TriadStore, TLC

CONSTANTS a, b, c

\* Up to stage 6, 8 ids: one text belongs above the largest client, one to
\* First itself, one below it.
MCNode == {1, 4, 6}
MCText == {a, b, c}
MCHash == (a :> 7) @@ (b :> 4) @@ (c :> 2)

\* Stage 7, 16 ids, First = 6: a search for a asks the clients of 9 and 13, one
\* for b those of 6 and 10, one for c those of 7 and 11.
MCNode7 == {2, 6, 11}
MCText7 == {a, b, c}
MCHash7 == (a :> 1) @@ (b :> 2) @@ (c :> 3)
MCBogus7 == {11}

\* A first client in the last quarter of the circle.
MCNode7Top == {2, 6, 13}
==============================================================================

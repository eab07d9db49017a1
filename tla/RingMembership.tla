--------------------------- MODULE RingMembership ---------------------------
(****************************************************************************)
(* What the join protocol promises, without fingers, messages or steps: a   *)
(* set of clients ordered on the circle, each knowing the next one, that    *)
(* grows by one client at a time.                                           *)
(****************************************************************************)
EXTENDS RingArith

CONSTANTS Node, First

VARIABLES ring,   \* the clients in the ring
          next    \* next[n]: the node after n

Init == ring = {} /\ next = [n \in {} |-> n]

\* x takes its place: the ring is again in order, with x in it.  Nobody
\* joins before the first client.
Join(x) ==
  /\ x \notin ring
  /\ ring = {} => x = First
  /\ ring' = ring \cup {x}
  /\ next' \in [ring' -> ring']
  /\ \A n \in ring' : NextOf(ring', n, next'[n])

Next == \E x \in Node : Join(x)

Spec == Init /\ [][Next]_<<ring, next>>
==============================================================================

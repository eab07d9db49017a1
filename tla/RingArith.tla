------------------------------ MODULE RingArith ------------------------------
(****************************************************************************)
(* The identifier circle of the Triad ring: ids are the unsigned ints       *)
(* 0..HASHMAX (ring.h:8, HASHMAX is 0xFFFFFFFF in the program) and every    *)
(* routing decision is one of the three interval tests of ring.c.  The      *)
(* tests are written with the comparisons the code makes; what they mean on *)
(* the circle is stated with Dist at the end of the module.                 *)
(****************************************************************************)
EXTENDS Integers

CONSTANT HASHMAX        \* the largest id; the circle has HASHMAX + 1 points

ASSUME HashMaxAssumption == HASHMAX \in Nat \ {0}

Id == 0 .. HASHMAX

(****************************************************************************)
(* ring.c, test by test.                                                    *)
(****************************************************************************)

\* nb lies strictly between na and id, going up from na.
InRange(id, na, nb) ==
  \/ na < id /\ na < nb /\ nb < id
  \/ na > id /\ (na < nb \/ nb < id)

\* start lies in [n, node); the whole circle when n = node.
InRangeA(n, start, node) ==
  \/ n < node /\ start >= n /\ start < node
  \/ n > node /\ (start >= n \/ start < node)
  \/ n = node

\* Mutant: the lower end of the arc is taken for a part of it.
NotInRangeClosed(id, ia, ib) ==
  \/ ia > ib /\ ~(id >= ia \/ id <= ib)
  \/ ia < ib /\ ~(id >= ia /\ id <= ib)

\* id lies outside (ia, ib]; no id does when ia = ib.
NotInRange(id, ia, ib) ==
  \/ ia > ib /\ ~(id > ia \/ id <= ib)
  \/ ia < ib /\ ~(id > ia /\ id <= ib)

\* a + b on the circle, computed without leaving 0..HASHMAX.
RingPlus(a, b) ==
  LET diff == HASHMAX - a
  IN  IF diff < b THEN b - diff - 1 ELSE a + b

\* Mutant: the step from 0 to HASHMAX is not borrowed.
RingMinusNoBorrow(a, b) == a - b

\* a - b on the circle.
RingMinus(a, b) ==
  IF a >= b THEN a - b ELSE HASHMAX - (b - a - 1)

(****************************************************************************)
(* The meaning of the tests: Dist(a, b) is how far up the circle b is from  *)
(* a.                                                                       *)
(****************************************************************************)

Dist(a, b) == IF a <= b THEN b - a ELSE b - a + HASHMAX + 1

\* s is the first member of R met when going up from n; n itself only when R
\* holds nothing else.
NextOf(R, n, s) ==
  /\ s \in R
  /\ s = n => R \subseteq {n}
  /\ \A m \in R \ {n} : Dist(n, s) <= Dist(n, m)

\* n is the first member of R met when going down from s.
PrevOf(R, s, n) ==
  /\ n \in R
  /\ n = s => R \subseteq {s}
  /\ \A m \in R \ {s} : Dist(n, s) <= Dist(m, s)

\* s is the member of R responsible for id: the first one at id or above it.
OwnerOf(R, id, s) == s \in R /\ \A m \in R : Dist(id, s) <= Dist(id, m)
==============================================================================

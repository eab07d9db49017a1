-------------------------- MODULE RingArithProofs --------------------------
(****************************************************************************)
(* What the interval tests and the additions of ring.c mean on the circle,  *)
(* for every HASHMAX, and the facts about arcs the ring proofs rest on.     *)
(****************************************************************************)
EXTENDS RingArith, TLAPS, WellFoundedInduction

\* InRange (ring.c:4-19) is the open arc (y, x).
LEMMA InRangeIsArc ==
  ASSUME NEW x \in Id, NEW y \in Id, NEW z \in Id
  PROVE  InRange(x, y, z) <=> 0 < Dist(y, z) /\ Dist(y, z) < Dist(y, x)
BY HashMaxAssumption DEF Id, InRange, Dist

\* InRangeA (ring.c:21-37) is the arc [x, z), or the circle when x = z.
LEMMA InRangeAIsArc ==
  ASSUME NEW x \in Id, NEW y \in Id, NEW z \in Id
  PROVE  InRangeA(x, y, z) <=> (x = z \/ Dist(x, y) < Dist(x, z))
BY HashMaxAssumption DEF Id, InRangeA, Dist

\* NotInRange (ring.c:39-56) is the complement of (y, z], empty when y = z.
LEMMA NotInRangeIsArc ==
  ASSUME NEW x \in Id, NEW y \in Id, NEW z \in Id
  PROVE  NotInRange(x, y, z)
           <=> y # z /\ ~(0 < Dist(y, x) /\ Dist(y, x) <= Dist(y, z))
BY HashMaxAssumption DEF Id, NotInRange, Dist

\* RingPlus and RingMinus (ring.c:57-83) stay on the circle, move by the
\* distance they are given, and undo each other.
LEMMA RingPlusMinus ==
  ASSUME NEW x \in Id, NEW y \in Id
  PROVE  /\ RingPlus(x, y) \in Id /\ Dist(x, RingPlus(x, y)) = y
         /\ RingMinus(x, y) \in Id /\ Dist(RingMinus(x, y), x) = y
         /\ RingMinus(RingPlus(x, y), y) = x
BY HashMaxAssumption DEF Id, RingPlus, RingMinus, Dist

\* RingPlus is addition and RingMinus subtraction modulo the circle's size.
THEOREM RingPlusIsModular ==
  ASSUME NEW x \in Id, NEW y \in Id
  PROVE  /\ RingPlus(x, y) = (x + y) % (HASHMAX + 1)
         /\ RingMinus(x, y) = (x - y) % (HASHMAX + 1)
BY HashMaxAssumption, Z3 DEF Id, RingPlus, RingMinus

\* Distances are natural numbers, zero only from an id to itself.
LEMMA DistFacts ==
  ASSUME NEW a \in Id, NEW b \in Id
  PROVE  Dist(a, b) \in Nat /\ (a # b => Dist(a, b) >= 1)
BY HashMaxAssumption DEF Id, Dist

----------------------------------------------------------------------------
(****************************************************************************)
(* Facts about a set R of ids placed on the circle.                         *)
(****************************************************************************)

\* An id at or before the successor s of n, and beyond n, belongs to s.
LEMMA OwnerIsNext ==
  ASSUME NEW R \in SUBSET Id, NEW n \in R, NEW s, NextOf(R, n, s),
         NEW id \in Id, ~NotInRange(id, n, s)
  PROVE  OwnerOf(R, id, s)
BY HashMaxAssumption DEF Id, NextOf, OwnerOf, NotInRange, Dist

\* An id at or before n, and beyond n's predecessor p, belongs to n.
LEMMA OwnerIsSelf ==
  ASSUME NEW R \in SUBSET Id, NEW n \in R, NEW p, PrevOf(R, n, p),
         NEW id \in Id, p = n \/ (0 < Dist(p, id) /\ Dist(p, id) <= Dist(p, n))
  PROVE  OwnerOf(R, id, n)
BY HashMaxAssumption DEF Id, PrevOf, OwnerOf, Dist

\* Every id has exactly one owner.
LEMMA OwnerUnique ==
  ASSUME NEW R \in SUBSET Id, NEW id \in Id, NEW a, NEW b,
         OwnerOf(R, id, a), OwnerOf(R, id, b)
  PROVE  a = b
BY HashMaxAssumption DEF Id, OwnerOf, Dist

\* A member of R is the owner of its own id.
LEMMA OwnerOfMember ==
  ASSUME NEW R \in SUBSET Id, NEW n \in R
  PROVE  OwnerOf(R, n, n)
BY HashMaxAssumption DEF Id, OwnerOf, Dist

\* Going up from a, the open arc (a, id) shrinks at each of its points.
LEMMA InRangeApproaches ==
  ASSUME NEW id \in Id, NEW a \in Id, NEW b \in Id, InRange(id, a, b)
  PROVE  Dist(b, id) < Dist(a, id)
BY HashMaxAssumption DEF Id, InRange, Dist

\* The node before s has s after it, and the other way round.
LEMMA NextOfPrev ==
  ASSUME NEW R \in SUBSET Id, NEW s \in R, NEW p, NEW t,
         PrevOf(R, s, p), NextOf(R, p, t)
  PROVE  t = s
BY HashMaxAssumption DEF Id, PrevOf, NextOf, Dist

LEMMA PrevOfNext ==
  ASSUME NEW R \in SUBSET Id, NEW n \in R, NEW s, NEW p,
         NextOf(R, n, s), PrevOf(R, s, p)
  PROVE  p = n
BY HashMaxAssumption DEF Id, PrevOf, NextOf, Dist

\* A new id x enters between the owner s of x and the node p before it: its
\* neighbours are p and s, theirs is x, and nobody else's change.
LEMMA EnterNewcomer ==
  ASSUME NEW R \in SUBSET Id, NEW x \in Id \ R, NEW s, NEW p,
         OwnerOf(R, x, s), PrevOf(R, s, p)
  PROVE  NextOf(R \cup {x}, x, s) /\ PrevOf(R \cup {x}, x, p)
BY HashMaxAssumption DEF Id, PrevOf, NextOf, OwnerOf, Dist

LEMMA EnterNeighbours ==
  ASSUME NEW R \in SUBSET Id, NEW x \in Id \ R, NEW s, NEW p,
         NextOf(R \cup {x}, x, s), PrevOf(R \cup {x}, x, p), R # {}
  PROVE  NextOf(R \cup {x}, p, x) /\ PrevOf(R \cup {x}, s, x)
BY HashMaxAssumption DEF Id, PrevOf, NextOf, Dist

LEMMA EnterOthers ==
  ASSUME NEW R \in SUBSET Id, NEW x \in Id \ R, NEW s, NEW p,
         NextOf(R \cup {x}, x, s), PrevOf(R \cup {x}, x, p),
         NEW n \in R, NEW t
  PROVE  /\ NextOf(R, n, t) /\ n # p => NextOf(R \cup {x}, n, t)
         /\ PrevOf(R, n, t) /\ n # s => PrevOf(R \cup {x}, n, t)
<1>1. R \subseteq Id /\ x \in Id /\ s \in R \cup {x} /\ p \in R \cup {x} /\ n \in Id
  BY DEF NextOf, PrevOf
<1>2. ASSUME NextOf(R, n, t), n # p PROVE NextOf(R \cup {x}, n, t)
  BY <1>1, <1>2, HashMaxAssumption DEF Id, PrevOf, NextOf, Dist
<1>3. ASSUME PrevOf(R, n, t), n # s PROVE PrevOf(R \cup {x}, n, t)
  BY <1>1, <1>3, HashMaxAssumption DEF Id, PrevOf, NextOf, Dist
<1> QED BY <1>2, <1>3

\* Two nodes that are each before the other are the whole ring.
LEMMA RingOfTwo ==
  ASSUME NEW R \in SUBSET Id, NEW a \in R, NEW b \in R, a # b,
         PrevOf(R, a, b), PrevOf(R, b, a)
  PROVE  R = {a, b}
<1>1. SUFFICES ASSUME NEW m \in R, m # a, m # b PROVE FALSE
  OBVIOUS
<1>2. Dist(b, a) <= Dist(m, a) /\ Dist(a, b) <= Dist(m, b)
  BY <1>1 DEF PrevOf
<1>3. a \in Id /\ b \in Id /\ m \in Id
  OBVIOUS
<1> QED BY <1>1, <1>2, <1>3, HashMaxAssumption DEF Id, Dist

\* The node before t, unless it is j, is nearer to j than t is.
LEMMA PrevIsNearer ==
  ASSUME NEW R \in SUBSET Id, NEW j \in R, NEW t \in R \ {j}, NEW p,
         PrevOf(R, t, p), p # j
  PROVE  0 < Dist(j, p) /\ Dist(j, p) < Dist(j, t)
BY HashMaxAssumption DEF Id, PrevOf, Dist

\* If nobody sits just below j, j owns the id just below it.
LEMMA OwnerJustBelow ==
  ASSUME NEW R \in SUBSET Id, NEW j \in R, RingMinus(j, 1) \notin R,
         NEW b, OwnerOf(R, RingMinus(j, 1), b)
  PROVE  b = j
<1>1. RingMinus(j, 1) \in Id /\ Dist(RingMinus(j, 1), j) = 1
  BY HashMaxAssumption, RingPlusMinus DEF Id
<1>2. b \in Id /\ b # RingMinus(j, 1) /\ Dist(RingMinus(j, 1), b) <= 1
  BY <1>1 DEF OwnerOf
<1> QED BY <1>1, <1>2, HashMaxAssumption DEF Dist, Id
----------------------------------------------------------------------------
(****************************************************************************)
(* Neighbours and owners exist: distances have a least one.                 *)
(****************************************************************************)

\* The library's theorem, with names that clash with none of ours.
LEMMA MinimalOfRelation ==
  ASSUME NEW RR, NEW U, IsWellFoundedOn(RR, U), NEW V, V \subseteq U, V # {}
  PROVE  \E x \in V : \A y \in V : <<y, x>> \notin RR
BY WFMin

\* A set of natural numbers that is not empty has a least member.
LEMMA LeastNat ==
  ASSUME NEW W \in SUBSET Nat, W # {}
  PROVE  \E m \in W : \A k \in W : m <= k
<1>1. PICK QQ : IsWellFoundedOn(QQ, Nat) /\ \A i, j \in Nat : i < j => <<i, j>> \in QQ
  <2>1. \A i, j \in Nat : i < j => <<i, j>> \in OpToRel(<, Nat)
    BY DEF OpToRel
  <2> QED BY <2>1, NatLessThanWellFounded, Zenon
<1>2. PICK m \in W : \A k \in W : <<k, m>> \notin QQ
  <2>1. W \subseteq Nat
    OBVIOUS
  <2>2. IsWellFoundedOn(QQ, Nat)
    BY <1>1
  <2> QED BY <2>1, <2>2, MinimalOfRelation
<1>3. ASSUME NEW k \in W PROVE m <= k
  <2>1. m \in Nat /\ k \in Nat /\ <<k, m>> \notin QQ
    BY <1>2
  <2>2. ~(k < m)
    BY <1>1, <2>1, Zenon
  <2> QED BY <2>1, <2>2
<1> QED BY <1>3

\* In a set of clients that is not empty every id has an owner, and every client
\* one after it and one before it.
LEMMA OwnerExists ==
  ASSUME NEW R \in SUBSET Id, R # {}, NEW id \in Id
  PROVE  \E s \in R : OwnerOf(R, id, s)
<1>1. \A m \in R : Dist(id, m) \in Nat
  BY DistFacts
<1> DEFINE D == {Dist(id, m) : m \in R}
<1>2. D \in SUBSET Nat /\ D # {}
  BY <1>1
<1>3. PICK x \in D : \A y \in D : x <= y
  BY <1>2, LeastNat
<1>4. PICK s \in R : x = Dist(id, s)
  OBVIOUS
<1> QED BY <1>3, <1>4 DEF OwnerOf

LEMMA NextExists ==
  ASSUME NEW R \in SUBSET Id, NEW n \in R
  PROVE  \E s \in R : NextOf(R, n, s)
<1>1. CASE R \subseteq {n}
  BY <1>1 DEF NextOf
<1>2. CASE ~(R \subseteq {n})
  <2>1. PICK s \in R \ {n} : OwnerOf(R \ {n}, n, s)
    BY <1>2, OwnerExists
  <2> QED BY <2>1 DEF OwnerOf, NextOf
<1> QED BY <1>1, <1>2

LEMMA PrevExists ==
  ASSUME NEW R \in SUBSET Id, NEW n \in R
  PROVE  \E s \in R : PrevOf(R, n, s)
<1>1. CASE R \subseteq {n}
  BY <1>1 DEF PrevOf
<1>2. CASE ~(R \subseteq {n})
  <2>1. \A m \in R : Dist(m, n) \in Nat
    BY DistFacts
  <2> DEFINE D == {Dist(m, n) : m \in R \ {n}}
  <2>2. D \in SUBSET Nat /\ D # {}
    BY <2>1, <1>2
  <2>3. PICK x \in D : \A y \in D : x <= y
    BY <2>2, LeastNat
  <2>4. PICK p \in R \ {n} : x = Dist(p, n)
    OBVIOUS
  <2> QED BY <2>3, <2>4 DEF PrevOf
<1> QED BY <1>1, <1>2
----------------------------------------------------------------------------
(****************************************************************************)
(* Fingers.  A finger of n starts p above n, at st; f is the owner of st in *)
(* R; j is a client that comes into R.                                      *)
(****************************************************************************)

\* A newcomer becomes the owner of an id exactly if it is nearer than the owner
\* was.
LEMMA OwnerStays ==
  ASSUME NEW R \in SUBSET Id, NEW j \in Id, NEW st \in Id, NEW f,
         OwnerOf(R, st, f), Dist(st, f) <= Dist(st, j)
  PROVE  OwnerOf(R \cup {j}, st, f)
BY DEF OwnerOf

LEMMA OwnerChanges ==
  ASSUME NEW R \in SUBSET Id, NEW j \in Id, NEW st \in Id, NEW f,
         OwnerOf(R, st, f), Dist(st, j) <= Dist(st, f)
  PROVE  OwnerOf(R \cup {j}, st, j)
<1>1. f \in Id /\ Dist(st, f) \in Int /\ Dist(st, j) \in Int
      /\ \A m \in R : Dist(st, m) \in Int
  BY DistFacts DEF OwnerOf
<1> QED BY <1>1 DEF OwnerOf

\* The next client after n is the owner of the id just above n.
LEMMA NextOwnsFirstStart ==
  ASSUME NEW R \in SUBSET Id, NEW n \in R, NEW f, NextOf(R, n, f),
         NEW st \in Id, Dist(n, st) = 1
  PROVE  OwnerOf(R, st, f)
BY HashMaxAssumption DEF Id, NextOf, OwnerOf, Dist

\* Where nobody sits, the owner of an id is that of the id just above it.
LEMMA OwnerOfNextId ==
  ASSUME NEW R \in SUBSET Id, NEW n \in Id \ R, NEW f, OwnerOf(R, n, f),
         NEW st \in Id, Dist(n, st) = 1
  PROVE  OwnerOf(R, st, f)
BY HashMaxAssumption DEF Id, OwnerOf, Dist

\* The owner of an id is that of every id up to itself (FillCopy).
LEMMA OwnerUpTo ==
  ASSUME NEW R \in SUBSET Id, NEW j \in Id \ R, NEW s1 \in Id, NEW s2 \in Id, NEW f,
         OwnerOf(R, s1, f), Dist(j, s1) <= Dist(j, s2), InRangeA(j, s2, f)
  PROVE  OwnerOf(R, s2, f)
BY HashMaxAssumption DEF Id, OwnerOf, Dist, InRangeA

\* A newcomer takes over the ids between its own successor and itself, and
\* only those (UpdateMyFingerTableInit).
LEMMA OwnerAfterEntry ==
  ASSUME NEW R \in SUBSET Id, NEW j \in Id \ R, NEW q, NextOf(R \cup {j}, j, q),
         NEW st \in Id, st # j, NEW f, OwnerOf(R, st, f)
  PROVE  IF f = q /\ NotInRange(st, j, q) THEN Dist(st, j) <= Dist(st, f)
                                          ELSE Dist(st, f) <= Dist(st, j)
<1>1. f \in R /\ \A m \in R : Dist(st, f) <= Dist(st, m)
  BY DEF OwnerOf
<1>2. q \in R /\ \A m \in R : Dist(j, q) <= Dist(j, m)
  BY <1>1 DEF NextOf
<1>3. f \in Id /\ q \in Id /\ Dist(j, q) <= Dist(j, f) /\ q # j /\ f # j
      /\ Dist(st, f) <= Dist(st, q)
  BY <1>1, <1>2
<1> QED BY <1>3, HashMaxAssumption DEF Id, Dist, NotInRange

\* A newcomer less than p above n owns none of n's fingers p above n.
LEMMA NewcomerTooNear ==
  ASSUME NEW R \in SUBSET Id, NEW n \in R, NEW j \in Id, j # n,
         NEW st \in Id, j # st, Dist(n, j) <= Dist(n, st), NEW f, OwnerOf(R, st, f)
  PROVE  Dist(st, f) <= Dist(st, j)
<1>1. f \in Id /\ n \in Id /\ Dist(st, f) <= Dist(st, n)
  BY DEF OwnerOf
<1> QED BY <1>1, HashMaxAssumption DEF Id, Dist

\* The test a node makes before it takes the newcomer for its finger.
LEMMA NewcomerIsBetter ==
  ASSUME NEW t \in Id, NEW j \in Id, NEW f \in Id, NEW st \in Id,
         Dist(t, j) > Dist(t, st), st # t, Dist(st, f) <= Dist(st, t), InRangeA(t, j, f)
  PROVE  Dist(st, j) <= Dist(st, f)
BY HashMaxAssumption DEF Id, Dist, InRangeA

\* If the newcomer is no better finger for t, it is none for a client n from
\* which it is further away.
LEMMA NewcomerIsNoBetter ==
  ASSUME NEW R \in SUBSET Id, NEW t \in Id, NEW j \in Id, NEW f \in R, NEW st \in Id,
         Dist(t, j) > Dist(t, st), Dist(st, f) <= Dist(st, t), ~InRangeA(t, j, f),
         NEW n \in Id, Dist(n, j) >= Dist(t, j), NEW sn \in Id, Dist(n, sn) = Dist(t, st),
         NEW fn, OwnerOf(R, sn, fn)
  PROVE  Dist(sn, fn) <= Dist(sn, j)
<1>1. fn \in Id /\ Dist(sn, fn) <= Dist(sn, f) /\ f \in Id
  BY DEF OwnerOf
<1>2. t # f /\ Dist(t, f) <= Dist(t, j)
  BY <1>1, HashMaxAssumption DEF Id, Dist, InRangeA
<1>3. Dist(sn, f) <= Dist(sn, j)
  BY <1>1, <1>2, HashMaxAssumption DEF Id, Dist
<1> QED BY <1>1, <1>3, DistFacts

\* The client before t is the next one from which j is further away; if j is
\* before t, then t is the last.
LEMMA PrevIsFurther ==
  ASSUME NEW R \in SUBSET Id, NEW j \in R, NEW t \in R \ {j}, NEW p, PrevOf(R, t, p)
  PROVE  /\ p # j => /\ Dist(p, j) > Dist(t, j)
                     /\ \A n \in R \ {j} : Dist(n, j) < Dist(p, j) => Dist(n, j) <= Dist(t, j)
         /\ p = j => \A n \in R \ {j} : Dist(n, j) <= Dist(t, j)
BY HashMaxAssumption DEF Id, PrevOf, Dist

\* The client before the owner b of an id is the first before that id, unless
\* it is j, and then there is none between j and that id.
LEMMA PrevOfOwner ==
  ASSUME NEW R \in SUBSET Id, NEW j \in R, NEW id \in Id, NEW b, OwnerOf(R, id, b),
         NEW p, PrevOf(R, b, p), p # b
  PROVE  /\ p # j => /\ Dist(p, j) > Dist(id, j)
                     /\ \A n \in R \ {j} : Dist(n, j) < Dist(p, j) => Dist(n, j) <= Dist(id, j)
         /\ p = j => \A n \in R \ {j} : Dist(n, j) <= Dist(id, j)
<1>1. b \in R /\ p \in R /\ b \in Id /\ p \in Id /\ j \in Id
      /\ \A m \in R : Dist(id, b) <= Dist(id, m)
      /\ \A k \in R : k # b => Dist(p, b) <= Dist(k, b)
  BY DEF OwnerOf, PrevOf
<1>2. ASSUME p # j PROVE Dist(p, j) > Dist(id, j)
  <2>1. Dist(id, b) <= Dist(id, j) /\ Dist(id, b) <= Dist(id, p)
        /\ (j # b => Dist(p, b) <= Dist(j, b))
    BY <1>1
  <2> QED BY <2>1, <1>1, <1>2, HashMaxAssumption DEF Id, Dist
<1>3. ASSUME NEW n \in R \ {j}, p = j \/ Dist(n, j) < Dist(p, j)
      PROVE  Dist(n, j) <= Dist(id, j)
  <2>1. /\ Dist(id, b) <= Dist(id, j) /\ Dist(id, b) <= Dist(id, p)
        /\ Dist(id, b) <= Dist(id, n)
        /\ (j # b => Dist(p, b) <= Dist(j, b))
        /\ (n # b => Dist(p, b) <= Dist(n, b))
        /\ n \in Id
    BY <1>1, <1>3
  <2> QED BY <2>1, <1>1, <1>3, HashMaxAssumption DEF Id, Dist
<1> QED BY <1>2, <1>3

\* Two or three nodes, each next to the one before, are the whole ring.
LEMMA NextsOfTwo ==
  ASSUME NEW R \in SUBSET Id, NEW a \in R, NEW b \in R, a # b,
         NextOf(R, a, b), NextOf(R, b, a)
  PROVE  R = {a, b}
<1>1. SUFFICES ASSUME NEW m \in R, m # a, m # b PROVE FALSE
  OBVIOUS
<1>2. Dist(a, b) <= Dist(a, m) /\ Dist(b, a) <= Dist(b, m)
  BY <1>1 DEF NextOf
<1>3. a \in Id /\ b \in Id /\ m \in Id
  OBVIOUS
<1> QED BY <1>1, <1>2, <1>3, HashMaxAssumption DEF Id, Dist

LEMMA NextsOfThree ==
  ASSUME NEW R \in SUBSET Id, NEW a \in R, NEW b \in R, NEW c \in R, a # b, b # c, c # a,
         NextOf(R, a, b), NextOf(R, b, c), NextOf(R, c, a)
  PROVE  R = {a, b, c}
<1>1. SUFFICES ASSUME NEW m \in R, m # a, m # b, m # c PROVE FALSE
  OBVIOUS
<1>2. /\ Dist(a, b) <= Dist(a, m) /\ Dist(b, c) <= Dist(b, m) /\ Dist(c, a) <= Dist(c, m)
      /\ Dist(a, b) <= Dist(a, c)
  BY <1>1 DEF NextOf
<1>3. a \in Id /\ b \in Id /\ c \in Id /\ m \in Id
  OBVIOUS
<1> QED BY <1>1, <1>2, <1>3, HashMaxAssumption DEF Id, Dist
==============================================================================

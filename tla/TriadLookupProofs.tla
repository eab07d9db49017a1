-------------------------- MODULE TriadLookupProofs --------------------------
(****************************************************************************)
(* FindSuccWithFT is right on every ring whose neighbours are right, for    *)
(* every size of the circle and of the finger tables and every choice of    *)
(* nodes.  The two lemmas about the CLSTQ answer and the one about a step   *)
(* of the walk are stated for any set R of nodes, so that TriadRingProofs   *)
(* can use them while a node is joining.                                    *)
(****************************************************************************)
EXTENDS TriadLookup, RingArithProofs

\* Fingers start, and UpdateOthers and the walk of a leave look, at ids.
LEMMA FingerIds ==
  ASSUME NEW CONSTANT n \in Id, NEW CONSTANT i \in Finger
  PROVE  FingerStart(n, i) \in Id /\ RingMinus(n, 2 ^ (i - 1)) \in Id
<1>1. 2 ^ (i - 1) \in Id
  BY FingerAssumption, HashMaxAssumption DEF Finger, Id
<1> QED BY <1>1, RingPlusMinus DEF FingerStart

\* What a step of the walk needs of the ring it walks.
Walkable(R) ==
  /\ R \subseteq Node /\ First \in R
  /\ succ \in [Node -> Node] /\ pred \in [Node -> Node]
  /\ ft \in [Node -> [Finger -> Node]]
  /\ NeighboursCorrect(R)
  /\ FingersUsable(R)

\* A node that claims an id owns it (the CLSTQ handler, client.c:1471, 1505).
LEMMA OwnsIsOwner ==
  ASSUME NEW CONSTANT R, Walkable(R), NEW CONSTANT n \in R, NEW CONSTANT id \in Id,
         Owns(n, id)
  PROVE  OwnerOf(R, id, n)
<1>1. /\ R \in SUBSET Id /\ pred[n] \in Id /\ n \in Id
      /\ PrevOf(R, n, pred[n])
  BY NodeAssumption DEF Walkable, NeighboursCorrect
<1>2. pred[n] = n \/ (0 < Dist(pred[n], id) /\ Dist(pred[n], id) <= Dist(pred[n], n))
      \/ id = n
  BY <1>1, HashMaxAssumption DEF Owns, Dist, Id
<1>3. CASE id = n
  BY <1>1, <1>3, OwnerOfMember
<1>4. CASE id # n
  BY <1>1, <1>2, <1>4, OwnerIsSelf
<1> QED BY <1>3, <1>4

\* The answer to a CLSTQ for an id that is not between n and its successor:
\* a node of the ring strictly between n and the id, or n, and then n owns
\* the id.
LEMMA ClosestAnswer ==
  ASSUME NEW CONSTANT R, Walkable(R), NEW CONSTANT n \in R, NEW CONSTANT id \in Id,
         NotInRange(id, n, succ[n]),
         NEW CONSTANT r, IsClosest(n, id, r)
  PROVE  /\ r \in R
         /\ r = n => OwnerOf(R, id, n)
         /\ r # n => InRange(id, n, r)
<1>1. /\ R \in SUBSET Id /\ n \in Id /\ succ[n] \in Id
      /\ 1 \in Finger /\ ft[n][1] = succ[n]
      /\ \A i \in Finger : ft[n][i] \in R
      /\ n \in Node
  BY NodeAssumption, FingerAssumption DEF Walkable, FingersUsable, Finger
<1>2. CASE n # caller /\ Owns(n, id)
  <2>1. r = n
    BY <1>2 DEF IsClosest
  <2> QED BY <2>1, <1>2, OwnsIsOwner
<1>3. CASE ~(n # caller /\ Owns(n, id))
  <2>1. IsClosestPrecedingFinger(n, id, r)
    BY <1>3 DEF IsClosest
  <2>2. CASE \E i \in Finger : InRange(id, n, ft[n][i]) /\ r = ft[n][i]
    BY <2>2, <1>1, HashMaxAssumption DEF InRange, Id
  <2>3. CASE r = n /\ \A i \in Finger : ~InRange(id, n, ft[n][i])
    <3>1. ~InRange(id, n, succ[n])
      BY <2>3, <1>1
    <3>2. id = n
      BY <3>1, <1>1, HashMaxAssumption DEF NotInRange, InRange, Id
    <3> QED BY <3>2, <2>3, <1>1, OwnerOfMember
  <2> QED BY <2>1, <2>2, <2>3 DEF IsClosestPrecedingFinger
<1> QED BY <1>2, <1>3

\* Each step of the walk keeps its registers in the ring, tempB the successor
\* of tempA at the loop's head, and ends it with the owner of the key.
LEMMA WalkKeeps ==
  ASSUME NEW CONSTANT R, Walkable(R), RegistersTypeOK, RegistersTrack(R), OwnerFound(R),
         LookupStep, UNCHANGED <<succ, pred, ft>>
  PROVE  RegistersTypeOK' /\ RegistersTrack(R)' /\ OwnerFound(R)'
<1>1. R \in SUBSET Id /\ R \subseteq Node /\ First \in R
  BY NodeAssumption DEF Walkable
<1>2. \A n \in R : succ[n] \in Node /\ NextOf(R, n, succ[n]) /\ succ[n] \in R
  BY <1>1 DEF Walkable, NeighboursCorrect, NextOf
<1>3. key \in Id
  BY DEF RegistersTypeOK
<1>4. CASE LookupFirst
  BY <1>4, <1>1, <1>2 DEF LookupFirst, RegistersTypeOK, RegistersTrack, OwnerFound
<1>5. CASE LookupReturn
  <2>1. OwnerOf(R, key, tempB)
    BY <1>5, <1>1, <1>2, <1>3, OwnerIsNext DEF LookupReturn, RegistersTrack
  <2> QED BY <2>1, <1>5 DEF LookupReturn, RegistersTypeOK, RegistersTrack, OwnerFound
<1>6. CASE LookupClosest
  <2>1. /\ tempA \in R /\ NotInRange(key, tempA, succ[tempA])
        /\ IsClosest(tempA, key, tempB') /\ tempB' \in Node
        /\ tempA' = tempA /\ key' = key /\ caller' = caller /\ lpc' = "closest"
    BY <1>6 DEF LookupClosest, RegistersTrack
  <2>2. /\ tempB' \in R
        /\ tempB' = tempA => OwnerOf(R, key, tempA)
        /\ tempB' # tempA => InRange(key, tempA, tempB')
    BY <2>1, <1>3, ClosestAnswer
  <2> QED BY <2>1, <2>2, <1>1 DEF RegistersTypeOK, RegistersTrack, OwnerFound
<1>7. CASE LookupSelf
  <2>1. OwnerOf(R, key, tempB') /\ tempB' \in Node
    BY <1>7, <1>1 DEF LookupSelf, RegistersTrack
  <2> QED BY <2>1, <1>7 DEF LookupSelf, RegistersTypeOK, RegistersTrack, OwnerFound
<1>8. CASE LookupHop
  BY <1>8, <1>1, <1>2 DEF LookupHop, RegistersTypeOK, RegistersTrack, OwnerFound
<1> QED BY <1>4, <1>5, <1>6, <1>7, <1>8 DEF LookupStep

\* Whatever the ring, the registers name nodes.
LEMMA WalkTypes ==
  ASSUME LookupTypeOK, UNCHANGED ringVars,
         LookupStep \/ EndLookup \/ (\E me \in Node, id \in Id : BeginLookup(me, id)) \/ UNCHANGED lookVars
  PROVE  LookupTypeOK'
<1>1. First \in Node /\ First \in Id /\ succ \in [Node -> Node] /\ RegistersTypeOK
  BY NodeAssumption DEF LookupTypeOK
<1>2. CASE LookupStep
  BY <1>1, <1>2 DEF LookupStep, LookupFirst, LookupReturn, LookupClosest, LookupSelf, LookupHop,
     LookupTypeOK, RegistersTypeOK, ringVars
<1>3. CASE EndLookup \/ UNCHANGED lookVars
  BY <1>1, <1>3 DEF EndLookup, lookVars, LookupTypeOK, RegistersTypeOK, ringVars
<1>4. CASE \E me \in Node, id \in Id : BeginLookup(me, id)
  BY <1>1, <1>4 DEF BeginLookup, LookupTypeOK, RegistersTypeOK, ringVars
<1> QED BY <1>2, <1>3, <1>4

----------------------------------------------------------------------------

\* The inductive invariant of a lookup on a standing ring.
LookupInv == LookupTypeOK /\ Walkable(member) /\ LookupTracks /\ LookupCorrect

LEMMA LookupInvInit == LookupInit => LookupInv
<1> SUFFICES ASSUME LookupInit PROVE LookupInv
  OBVIOUS
<1>1. First \in Node /\ First \in Id /\ 1 \in Finger
  BY NodeAssumption, FingerAssumption DEF Finger
<1>2. ft \in [Node -> [Finger -> Node]] /\ FingersUsable(member)
  <2>1. /\ member \subseteq Node /\ succ \in [Node -> Node]
        /\ NeighboursCorrect(member)
    BY DEF LookupInit
  <2>2. PICK stale \in [member -> [2 .. FTLEN - 1 -> member]] :
          ft = [n \in Node |-> [i \in Finger |->
                  IF n \notin member THEN n
                  ELSE IF i = 1 THEN succ[n] ELSE stale[n][i]]]
    BY DEF LookupInit
  <2>3. \A n \in member : succ[n] \in member
    BY <2>1 DEF NeighboursCorrect, NextOf
  <2>4. \A n \in member, i \in Finger : i # 1 => stale[n][i] \in member
    BY <2>2, FingerAssumption DEF Finger
  <2>5. \A n \in member, i \in Finger :
          ft[n][i] = IF i = 1 THEN succ[n] ELSE stale[n][i]
    BY <2>1, <2>2
  <2>6. \A n \in Node \ member, i \in Finger : ft[n][i] = n
    BY <2>2
  <2>7. \A n \in Node, i \in Finger : ft[n][i] \in Node
    BY <2>1, <2>3, <2>4, <2>5, <2>6
  <2>8. ft \in [Node -> [Finger -> Node]]
    BY <2>2, <2>7
  <2> QED BY <2>1, <2>2, <2>3, <2>4, <2>5, <2>8, <1>1 DEF FingersUsable
<1> QED BY <1>1, <1>2 DEF LookupInit, LookupInv, LookupTypeOK, Walkable, LookupTracks,
           RegistersTypeOK, RegistersTrack, LookupCorrect, OwnerFound

LEMMA LookupInvStep ==
  LookupInv /\ [LookupNext]_<<ringVars, lookVars>> => LookupInv'
<1> SUFFICES ASSUME LookupInv, [LookupNext]_<<ringVars, lookVars>> PROVE LookupInv'
  OBVIOUS
<1>1. /\ UNCHANGED ringVars
      /\ UNCHANGED <<member, succ, pred, ft>>
      /\ Walkable(member)'
  BY DEF LookupNext, ringVars, LookupInv, Walkable, NeighboursCorrect, FingersUsable
<1>2. CASE LookupStep
  <2>1. PICK R : R = member
    OBVIOUS
  <2>2. RegistersTypeOK' /\ RegistersTrack(R)' /\ OwnerFound(R)'
    BY <1>1, <1>2, <2>1, WalkKeeps
       DEF LookupInv, LookupTypeOK, LookupTracks, LookupCorrect
  <2> QED BY <1>1, <2>1, <2>2 DEF LookupInv, LookupTypeOK, LookupTracks, LookupCorrect
<1>3. CASE \E me \in Node, id \in Id : StartLookup(me, id)
  BY <1>1, <1>3 DEF StartLookup, BeginLookup, LookupInv, LookupTypeOK, LookupTracks,
     LookupCorrect, RegistersTypeOK, RegistersTrack, OwnerFound
<1>4. CASE EndLookup
  BY <1>1, <1>4, NodeAssumption DEF EndLookup, LookupInv, LookupTypeOK, LookupTracks,
     LookupCorrect, RegistersTypeOK, RegistersTrack, OwnerFound
<1>5. CASE UNCHANGED lookVars
  BY <1>1, <1>5 DEF lookVars, LookupInv, LookupTypeOK, LookupTracks,
     LookupCorrect, RegistersTypeOK, RegistersTrack, OwnerFound
<1> QED BY <1>2, <1>3, <1>4, <1>5 DEF LookupNext

\* On a ring whose neighbours are right FindSuccWithFT returns the owner of
\* the key, whatever ids the nodes have and wherever the fingers past the
\* first point in the ring.
THEOREM LookupIsCorrect == LookupSpec => []LookupCorrect
<1>1. LookupInv => LookupCorrect
  BY DEF LookupInv
<1> QED BY <1>1, LookupInvInit, LookupInvStep, PTL DEF LookupSpec

THEOREM LookupTypes == LookupSpec => []LookupTypeOK
<1>1. LookupInv => LookupTypeOK
  BY DEF LookupInv
<1> QED BY <1>1, LookupInvInit, LookupInvStep, PTL DEF LookupSpec

\* RingPlus and RingMinus (ring.c:57-83) are the circle's addition and
\* subtraction, whatever HASHMAX is: the carry and the borrow are right at every
\* wrap around.  The three interval tests (ring.c:4-55) are the arcs their
\* comments promise.
THEOREM RingFunctionsAreRight == LookupSpec => []CircleIsModular
<1>1. ASSUME NEW x \in Id PROVE ArithIsModular(x)
  BY RingPlusIsModular, RingPlusMinus DEF ArithIsModular
<1>2. ASSUME NEW x \in Id PROVE TestsAreArcs(x)
  BY InRangeIsArc, InRangeAIsArc, NotInRangeIsArc DEF TestsAreArcs
<1>3. LookupTypeOK => CircleIsModular
  BY <1>1, <1>2 DEF LookupTypeOK, RegistersTypeOK, CircleIsModular
<1> QED BY <1>3, LookupTypes, PTL

\* The registers stay in the ring and tempB never gets past the key.
THEOREM LookupKeepsTrack == LookupSpec => []LookupTracks
<1>1. LookupInv => LookupTracks
  BY DEF LookupInv
<1> QED BY <1>1, LookupInvInit, LookupInvStep, PTL DEF LookupSpec

\* Each hop of the walk is nearer to the key than the last: with
\* finitely many ids, it cannot go on for ever.
THEOREM LookupApproaches == LookupSpec => HopsApproach
<1>1. LookupInv /\ [LookupNext]_<<ringVars, lookVars>>
        => [LookupHop => Dist(tempA', key) < Dist(tempA, key)]_<<ringVars, lookVars>>
  <2> SUFFICES ASSUME LookupInv, LookupHop
               PROVE  Dist(tempA', key) < Dist(tempA, key)
    OBVIOUS
  <2>1. /\ tempA' = tempB /\ InRange(key, tempA, tempB)
        /\ tempA \in Id /\ tempB \in Id /\ key \in Id
    BY NodeAssumption DEF LookupHop, LookupInv, LookupTracks, RegistersTrack,
       LookupTypeOK, RegistersTypeOK
  <2> QED BY <2>1, InRangeApproaches
<1> QED BY <1>1, LookupInvInit, LookupInvStep, PTL DEF LookupSpec, HopsApproach
==============================================================================

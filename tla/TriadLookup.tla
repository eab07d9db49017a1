----------------------------- MODULE TriadLookup -----------------------------
(****************************************************************************)
(* FindSuccWithFT (client.c:1007-1083): how a client finds the node         *)
(* responsible for an id.  The walk is iterative: the caller keeps two      *)
(* registers, tempA (the node it asks next) and tempB (the last answer),    *)
(* and asks one node after the other with SUCCQ and CLSTQ.  Each action     *)
(* below is one of its round trips with the code around it; the answers are *)
(* those of the SUCCQ and CLSTQ handlers (client.c:1276, 1462), or of the   *)
(* caller's own variables where FindNeighbor and FindClosest see that the   *)
(* node to ask is the caller itself (client.c:933, 2846).                   *)
(*                                                                          *)
(* The module is the lookup on a ring that stands still: the neighbours are *)
(* right, a finger may be stale.  TriadRing runs the same actions while a   *)
(* node is joining.                                                         *)
(****************************************************************************)
EXTENDS RingArith

CONSTANTS Node,     \* the clients' hashes (HashID), distinct
          First,    \* the client all lookups start from (HashIDfirst)
          FTLEN     \* length of the finger table, 33 in client.h

ASSUME NodeAssumption == Node \subseteq Id /\ First \in Node

\* Finger i points past HashID + 2^(i-1); the largest of these, 2^31 for the
\* 32-bit ids of the program, is still an id.
ASSUME FingerAssumption ==
  /\ FTLEN \in Nat /\ FTLEN >= 3
  /\ \A i \in 1 .. FTLEN - 1 : 2 ^ (i - 1) \in 1 .. HASHMAX

VARIABLES member,   \* clients that are in the ring
          succ,     \* succ[n]: n's successor
          pred,     \* pred[n]: n's predecessor
          ft,       \* ft[n][i]: node of n's finger i (MyFT[i].node)
          lpc,      \* where FindSuccWithFT stands
          caller,   \* the client that runs it
          key,      \* the id it looks for
          tempA,    \* its register tempA
          tempB     \* its register tempB; the result when lpc = "done"

ringVars == <<member, succ, pred, ft>>
lookVars == <<lpc, caller, key, tempA, tempB>>

Finger == 1 .. FTLEN - 1

\* MyFT[i].start
FingerStart(n, i) == RingPlus(n, 2 ^ (i - 1))

RegistersTypeOK ==
  /\ lpc \in {"idle", "first", "test", "closest", "done"}
  /\ caller \in Node
  /\ key \in Id
  /\ tempA \in Node
  /\ tempB \in Node

----------------------------------------------------------------------------
(****************************************************************************)
(* What a node answers.                                                     *)
(****************************************************************************)

\* Mutant: the smallest node leaves the ids above the largest to others.
OwnsNoWrap(n, id) == id <= n /\ (id > pred[n] \/ pred[n] > n \/ id = n)

\* The CLSTQ handler claims id for node n itself.
Owns(n, id) ==
  \/ pred[n] > n /\ (id <= n \/ id > pred[n])
  \/ pred[n] <= n /\ id <= n /\ (id > pred[n] \/ id = n)

\* Mutant: the highest finger that is not n itself, without the range test.
IsHighestFinger(n, id, r) ==
  \/ \E i \in Finger : /\ ft[n][i] # n
                       /\ \A j \in i + 1 .. FTLEN - 1 : ft[n][j] = n
                       /\ r = ft[n][i]
  \/ r = n /\ \A i \in Finger : ft[n][i] = n

\* ClosestPrecedingFinger at n returns r: the node of the highest finger that
\* lies strictly between n and id, n itself if none does.
IsClosestPrecedingFinger(n, id, r) ==
  \/ \E i \in Finger : /\ InRange(id, n, ft[n][i])
                       /\ \A j \in i + 1 .. FTLEN - 1 : ~InRange(id, n, ft[n][j])
                       /\ r = ft[n][i]
  \/ r = n /\ \A i \in Finger : ~InRange(id, n, ft[n][i])

\* The answer r of node n to the caller's FindClosest.  The caller consults
\* its own finger table without the ownership test of the handler.
IsClosest(n, id, r) ==
  IF n # caller /\ Owns(n, id) THEN r = n ELSE IsClosestPrecedingFinger(n, id, r)

----------------------------------------------------------------------------
(****************************************************************************)
(* The walk.                                                                *)
(****************************************************************************)

BeginLookup(me, id) ==
  /\ lpc' = "first"
  /\ caller' = me
  /\ key' = id
  /\ UNCHANGED <<tempA, tempB>>

\* tempA is the first node, tempB its successor.
LookupFirst ==
  /\ lpc = "first"
  /\ tempA' = First
  /\ tempB' = succ[First]
  /\ lpc' = "test"
  /\ UNCHANGED <<caller, key>>

\* The while condition fails: tempB is the result.
LookupReturn ==
  /\ lpc = "test"
  /\ ~NotInRange(key, tempA, tempB)
  /\ lpc' = "done"
  /\ UNCHANGED <<caller, key, tempA, tempB>>

\* The while condition holds: tempB is what tempA knows to be closest.
LookupClosest ==
  /\ lpc = "test"
  /\ NotInRange(key, tempA, tempB)
  /\ \E r \in Node : IsClosest(tempA, key, r) /\ tempB' = r
  /\ lpc' = "closest"
  /\ UNCHANGED <<caller, key, tempA>>

\* Mutant: a node that names itself is always taken for the node before the key.
LookupSelfSucc ==
  /\ lpc = "closest"
  /\ tempA = tempB
  /\ tempB' = succ[tempA]
  /\ lpc' = "done"
  /\ UNCHANGED <<caller, key, tempA>>

\* Mutant: the two registers are not compared and the loop goes on.
LookupSelfAgain ==
  /\ lpc = "closest"
  /\ tempA = tempB
  /\ tempB' = succ[tempA]
  /\ lpc' = "test"
  /\ UNCHANGED <<caller, key, tempA>>

\* tempA named itself: the key is its own or its successor's.
LookupSelf ==
  /\ lpc = "closest"
  /\ tempA = tempB
  /\ tempB' = IF tempA = succ[tempA] \/ NotInRange(key, tempA, succ[tempA])
                THEN tempA
                ELSE succ[tempA]
  /\ lpc' = "done"
  /\ UNCHANGED <<caller, key, tempA>>

\* tempA named another node: go there and ask for its successor.
LookupHop ==
  /\ lpc = "closest"
  /\ tempA # tempB
  /\ tempA' = tempB
  /\ tempB' = succ[tempB]
  /\ lpc' = "test"
  /\ UNCHANGED <<caller, key>>

LookupStep ==
  LookupFirst \/ LookupReturn \/ LookupClosest \/ LookupSelf \/ LookupHop

----------------------------------------------------------------------------
(****************************************************************************)
(* The lookup on a standing ring.                                           *)
(****************************************************************************)

\* Every member of R knows its nearest neighbours in R.
NeighboursCorrect(R) ==
  \A n \in R : NextOf(R, n, succ[n]) /\ PrevOf(R, n, pred[n])

\* The first finger is the successor and no finger leaves R.
FingersUsable(R) ==
  \A n \in R : ft[n][1] = succ[n] /\ \A i \in Finger : ft[n][i] \in R

\* A finger of n, stale or not, points into the arc from its start up to n:
\* it was the owner of that start in a ring that held n and fewer nodes.
FingersPastStart(R) ==
  \A n \in R : \A i \in Finger :
     Dist(FingerStart(n, i), ft[n][i]) <= Dist(FingerStart(n, i), n)

LookupInit ==
  /\ member \in SUBSET Node /\ First \in member
  /\ succ \in [Node -> Node] /\ pred \in [Node -> Node]
  /\ NeighboursCorrect(member)
  /\ \A n \in Node \ member : succ[n] = n /\ pred[n] = n
  /\ \E stale \in [member -> [2 .. FTLEN - 1 -> member]] :
       ft = [n \in Node |-> [i \in Finger |->
               IF n \notin member THEN n
               ELSE IF i = 1 THEN succ[n] ELSE stale[n][i]]]
  /\ FingersPastStart(member)
  /\ lpc = "idle"
  /\ caller = First /\ key = First
  /\ tempA = First /\ tempB = First

\* A client, in the ring or about to enter it, needs the owner of id.
StartLookup(me, id) ==
  /\ lpc = "idle"
  /\ BeginLookup(me, id)

\* The caller has its result; the locals of FindSuccWithFT are gone.
EndLookup ==
  /\ lpc = "done"
  /\ lpc' = "idle"
  /\ caller' = First /\ key' = First
  /\ tempA' = First /\ tempB' = First

LookupNext ==
  /\ \/ \E me \in Node, id \in Id : StartLookup(me, id)
     \/ LookupStep
     \/ EndLookup
  /\ UNCHANGED ringVars

\* Every node but the caller is in its select loop and answers, so the
\* caller's next round trip is never put off for ever.
LookupFairness == WF_<<ringVars, lookVars>>((LookupStep \/ EndLookup) /\ UNCHANGED ringVars)

LookupSpec == LookupInit /\ [][LookupNext]_<<ringVars, lookVars>> /\ LookupFairness

----------------------------------------------------------------------------
(****************************************************************************)
(* What the lookup promises.                                                *)
(****************************************************************************)

\* Types of the lookup's registers and of the ring it walks.
LookupTypeOK ==
  /\ member \subseteq Node
  /\ succ \in [Node -> Node]
  /\ pred \in [Node -> Node]
  /\ ft \in [Node -> [Finger -> Node]]
  /\ RegistersTypeOK

\* RingPlus and RingMinus (ring.c:57-83) are addition and subtraction modulo
\* HASHMAX + 1 and undo each other.
ArithIsModular(x) ==
  \A y \in Id :
    /\ RingPlus(x, y) = (x + y) % (HASHMAX + 1)
    /\ RingMinus(x, y) = (x - y) % (HASHMAX + 1)
    /\ RingMinus(RingPlus(x, y), y) = x

\* The three interval tests (ring.c:4-55) are the arcs their comments promise:
\* InRange is an open arc, InRangeA is closed below, NotInRange is the
\* complement of an arc closed above, and the degenerate arcs are empty, full
\* and full.
TestsAreArcs(x) ==
  \A y, z \in Id :
    /\ InRange(x, y, z) <=> 0 < Dist(y, z) /\ Dist(y, z) < Dist(y, x)
    /\ InRangeA(x, y, z) <=> x = z \/ Dist(x, y) < Dist(x, z)
    /\ NotInRange(x, y, z) <=> y # z /\ ~(0 < Dist(y, x) /\ Dist(y, x) <= Dist(y, z))

\* At the key of every lookup that begins, and that is any id, the sums and the
\* tests of ring.c mean what they should on a circle, at every wrap around and
\* for arcs that contain the point where ids wrap.
CircleIsModular == lpc = "first" => ArithIsModular(key) /\ TestsAreArcs(key)

\* Whatever the fingers are, FindSuccWithFT returns the node of R responsible
\* for the key: none lies between the key and the result (client.c:1033-1082,
\* three different exits).
OwnerFound(R) == lpc = "done" => OwnerOf(R, key, tempB)
LookupCorrect == OwnerFound(member)

\* The registers name members of R; tempB is tempA's successor when the
\* while condition is tested; an answer of tempA is nearer to the key than
\* tempA, or tempA itself, and then the key is tempA's own (the "weired
\* situation" of client.c:1042-1047 has only its first case).
RegistersTrack(R) ==
  /\ lpc = "test" =>
       /\ tempA \in R
       /\ tempB = succ[tempA]
  /\ lpc = "closest" =>
       /\ {tempA, tempB} \subseteq R
       /\ NotInRange(key, tempA, succ[tempA])
       /\ tempA = tempB => OwnerOf(R, key, tempA)
       /\ tempA # tempB => InRange(key, tempA, tempB)
LookupTracks == RegistersTrack(member)

\* Every hop takes the walk nearer to the key and never past it, so no two
\* nodes can send the caller back and forth (client.c:1073-1082).
HopsApproach ==
  [][LookupHop => Dist(tempA', key) < Dist(tempA, key)]_<<ringVars, lookVars>>

\* A lookup that was begun comes to an end.
LookupEnds == (lpc # "idle") ~> (lpc = "done")
==============================================================================

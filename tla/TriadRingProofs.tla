--------------------------- MODULE TriadRingProofs ---------------------------
(****************************************************************************)
(* The joins keep the ring right, for every size of the circle and of the   *)
(* finger tables, every set of clients and every order of joining,          *)
(* provided no two clients have adjacent ids: UpdateOthers sends an UPDTQ   *)
(* of index 1 to the predecessor of the owner of HashID - 1, and the        *)
(* handler takes index 1 for "you have a new successor" (client.c:1376).    *)
(* If a node sits at HashID - 1 its predecessor gets the joiner for         *)
(* successor and the node drops out of the ring.                            *)
(*                                                                          *)
(* The first part is the ring itself (IInv), the second what each join does *)
(* to double successors and fingers (FingersInv, which rests on IInv).      *)
(****************************************************************************)
EXTENDS TriadRing, TriadLookupProofs, FiniteSetTheorems

NoAdjacentNodes == \A n \in Node : RingMinus(n, 1) \notin Node

LEMMA RingInit == Init => IInv
BY NodeAssumption, FingerAssumption, HashMaxAssumption
   DEF Init, IInv, TypeOK, LookupTypeOK, RegistersTypeOK, Shape, RingCorrect,
       FingersUsable, Walking, RegistersTrack, OwnerFound, Place, Updating,
       Linked, Entered, Linking, NoNode, Finger, PC, Id

\* Facts of every state that most steps need.
LEMMA Basics ==
  ASSUME IInv
  PROVE  /\ member \subseteq Node /\ Linked \subseteq Node /\ Linked \in SUBSET Id
         /\ Node \subseteq Id /\ NoNode \notin Node /\ 1 \in Finger
         /\ succ \in [Node -> Node] /\ pred \in [Node -> Node]
         /\ ft \in [Node -> [Finger -> Node]] /\ dsucc \in [Node -> Node]
         /\ joiner # NoNode <=> pc # "idle"
         /\ pc # "idle" => /\ joiner \in Node /\ joiner \notin member
                           /\ First \in member /\ First \in Node /\ joiner # First
         /\ Entered => joiner \in Linked /\ First \in Linked
         /\ ~Entered => Linked = member
<1>1. /\ member \subseteq Node /\ Node \subseteq Id /\ NoNode \notin Node /\ 1 \in Finger
      /\ joiner # NoNode <=> pc # "idle"
  BY NodeAssumption, FingerAssumption, HashMaxAssumption
     DEF IInv, TypeOK, LookupTypeOK, NoNode, Id, Finger
<1>2. pc # "idle" => /\ joiner \in Node /\ joiner \notin member
                     /\ First \in member /\ First \in Node /\ joiner # First
  BY <1>1 DEF IInv, TypeOK, Shape
<1>3. Entered => pc # "idle"
  BY DEF Entered
<1> QED BY <1>1, <1>2, <1>3 DEF IInv, TypeOK, LookupTypeOK, Linked

\* A step that leaves the ring's nodes their neighbours keeps them right.
LEMMA SameNeighbours ==
  ASSUME RingCorrect, ~Linking, ~Linking', Linked' = Linked,
         \A n \in Linked : succ'[n] = succ[n] /\ pred'[n] = pred[n]
  PROVE  RingCorrect'
BY DEF RingCorrect

LEMMA SameFingers ==
  ASSUME FingersUsable(Linked), Linked' = Linked,
         \A n \in Linked : succ'[n] = succ[n] /\ ft'[n] = ft[n]
  PROVE  FingersUsable(Linked)'
BY DEF FingersUsable

\* Outside a walk its registers promise nothing.
LEMMA NoWalk ==
  ASSUME lpc' \in {"idle", "first"}
  PROVE  RegistersTrack(Linked)' /\ OwnerFound(Linked)'
BY DEF RegistersTrack, OwnerFound

(****************************************************************************)
(* The steps of InitFingerTable.                                            *)
(****************************************************************************)

LEMMA CreateKeeps ==
  ASSUME IInv, NEW CONSTANT x \in Node, Create(x)
  PROVE  IInv'
<1> USE Basics
<1>1. /\ pc = "idle" /\ lpc = "idle" /\ x \notin member /\ Linked = member /\ ~Linking
      /\ waiting = {}
  BY DEF Create, IInv, Walking, Linking, Updating, TypeOK, Entered, Linked
<1>2. TypeOK'
  BY <1>1 DEF Create, BeginLookup, lookVars, joinVars, IInv, TypeOK, LookupTypeOK,
     RegistersTypeOK, PC
<1>3. CASE x = First
  <2>1. /\ member = {} /\ member' = {x} /\ Linked' = {x}
        /\ pc' = "idle" /\ lpc' = "idle" /\ joiner' = NoNode /\ waiting' = {}
        /\ succ'[x] = x /\ pred'[x] = x /\ ft'[x] = [i \in Finger |-> x]
    BY <1>1, <1>3 DEF Create, joinVars, lookVars, IInv, Shape, Linked, Entered
  <2>2. Shape' /\ Walking' /\ Place' /\ Updating'
    BY <2>1, <1>3, NoWalk DEF Shape, Walking, Place, Updating
  <2>3. RingCorrect' /\ FingersUsable(Linked)'
    BY <2>1, HashMaxAssumption
       DEF RingCorrect, FingersUsable, NextOf, PrevOf, Linking
  <2> QED BY <1>2, <2>2, <2>3 DEF IInv
<1>4. CASE x # First
  <2>1. /\ member' = member /\ Linked' = Linked /\ First \in member
        /\ pc' = "findsucc" /\ lpc' = "first" /\ key' = x /\ joiner' = x /\ waiting' = {}
        /\ \A n \in member : succ'[n] = succ[n] /\ pred'[n] = pred[n] /\ ft'[n] = ft[n]
        /\ ft'[x] = [i \in Finger |-> x]
    BY <1>1, <1>4 DEF Create, BeginLookup, IInv, Shape, Linked, Entered
  <2>2. Shape' /\ Walking' /\ Place' /\ Updating'
    BY <2>1, <1>1, NoWalk DEF Shape, Walking, Place, Updating
  <2>3. RingCorrect' /\ FingersUsable(Linked)'
    BY <2>1, <1>1, SameNeighbours, SameFingers DEF IInv, Linking
  <2> QED BY <1>2, <2>2, <2>3 DEF IInv
<1> QED BY <1>3, <1>4

\* Before the joiner is let in, its own pointers are nobody else's business.
LEMMA Outside ==
  ASSUME IInv, pc \in {"findsucc", "askpred", "fill"},
         pc' \in {"findsucc", "askpred", "fill"},
         member' = member, joiner' = joiner,
         \A n \in member : succ'[n] = succ[n] /\ pred'[n] = pred[n] /\ ft'[n] = ft[n]
  PROVE  Shape' /\ RingCorrect' /\ FingersUsable(Linked)' /\ Linked' = Linked /\ Linked = member
<1>1. /\ Linked = member /\ Linked' = Linked /\ ~Linking /\ ~Linking'
      /\ RingCorrect /\ FingersUsable(Linked) /\ Shape
  BY DEF Linked, Entered, Linking, IInv
<1> QED BY <1>1, SameNeighbours, SameFingers DEF Shape

LEMMA FoundSuccKeeps ==
  ASSUME IInv, FoundSucc
  PROVE  IInv'
<1> USE Basics
<1>1. /\ pc = "findsucc" /\ pc' = "askpred" /\ lpc = "done" /\ lpc' = "idle"
      /\ key = joiner /\ joiner \in Node \ member /\ Linked = member
      /\ OwnerOf(member, joiner, tempB) /\ tempB \in member /\ waiting = {}
  BY DEF FoundSucc, TakeFound, IInv, Walking, OwnerFound, OwnerOf, Linked, Entered,
     Updating
<1>2. /\ member' = member /\ joiner' = joiner /\ waiting' = waiting
      /\ succ'[joiner] = tempB /\ ft'[joiner][1] = tempB
      /\ \A i \in Finger : ft'[joiner][i] \in member \cup {joiner}
      /\ \A n \in member : succ'[n] = succ[n] /\ pred'[n] = pred[n] /\ ft'[n] = ft[n]
  BY <1>1 DEF FoundSucc, IInv, Place
<1>3. TypeOK'
  BY <1>1 DEF FoundSucc, TakeFound, IInv, TypeOK, LookupTypeOK, RegistersTypeOK, PC
<1>4. Shape' /\ RingCorrect' /\ FingersUsable(Linked)'
  BY <1>1, <1>2, Outside
<1>5. Walking' /\ Place' /\ Updating'
  BY <1>1, <1>2, NoWalk DEF Walking, Place, Updating
<1> QED BY <1>3, <1>4, <1>5 DEF IInv

LEMMA AskPredKeeps ==
  ASSUME IInv, AskPred
  PROVE  IInv'
<1> USE Basics
<1>1. /\ pc = "askpred" /\ pc' = "fill" /\ lpc = "idle" /\ lpc' = "idle"
      /\ joiner \in Node \ member /\ Linked = member
      /\ OwnerOf(member, joiner, succ[joiner]) /\ succ[joiner] \in member
      /\ ft[joiner][1] = succ[joiner] /\ waiting = {}
  BY DEF AskPred, lookVars, IInv, Walking, Place, OwnerOf, Linked, Entered, Updating
<1>2. /\ member' = member /\ joiner' = joiner /\ waiting' = waiting
      /\ succ' = succ /\ ft' = ft
      /\ pred'[joiner] = pred[succ[joiner]] /\ succ[joiner] # joiner
      /\ \A n \in member : pred'[n] = pred[n]
  BY <1>1 DEF AskPred
<1>3. TypeOK'
  BY <1>1, FingerAssumption
     DEF AskPred, lookVars, IInv, TypeOK, LookupTypeOK, RegistersTypeOK, PC, Finger
<1>4. Shape' /\ RingCorrect' /\ FingersUsable(Linked)'
  BY <1>1, <1>2, Outside
<1>5. Walking' /\ Updating'
  BY <1>1, <1>2, NoWalk DEF Walking, Updating
<1>6. Place'
  <2>1. pred'[succ'[joiner]] = pred[succ[joiner]]
    BY <1>1, <1>2
  <2> QED BY <1>1, <1>2, <2>1 DEF Place, IInv
<1> QED BY <1>3, <1>4, <1>5, <1>6 DEF IInv

\* The three steps of the loop that fills the joiner's finger table.
LEMMA FillKeeps ==
  ASSUME IInv, FillCopy \/ FillLookup \/ FillFound
  PROVE  IInv'
<1> USE Basics
<1>1. pc = "fill" /\ idx < FTLEN - 1 /\ idx \in Nat /\ idx >= 1
  BY FingerAssumption
     DEF FillCopy, FillLookup, FillFound, TakeFound, IInv, TypeOK, Walking
<1>2. /\ pc' = "fill" /\ member' = member /\ joiner' = joiner /\ waiting' = waiting
      /\ succ' = succ /\ pred' = pred
      /\ lpc' \in {"idle", "first"}
      /\ lpc' = "first" => idx' = idx
  BY <1>1 DEF FillCopy, FillLookup, FillFound, TakeFound, BeginLookup, lookVars, ringVars,
     joinVars
<1>3. /\ joiner \in Node \ member /\ Linked = member /\ waiting = {}
      /\ OwnerOf(member, joiner, succ[joiner])
      /\ ft[joiner][1] = succ[joiner] /\ pred[joiner] = pred[succ[joiner]]
  BY <1>1 DEF IInv, Place, Linked, Entered, Updating
<1>4. idx + 1 \in Finger /\ idx \in Finger /\ idx + 1 # 1
  BY <1>1, <1>2, <1>3, FingerAssumption DEF Finger
<1>5. \/ ft' = ft /\ idx' = idx
      \/ \E m \in member \cup {joiner} :
           ft' = [ft EXCEPT ![joiner][idx + 1] = m] /\ idx' = idx + 1
  <2>1. CASE FillCopy
    BY <2>1, <1>1, <1>2, <1>3, <1>4 DEF FillCopy, IInv, Place
  <2>2. CASE FillLookup
    BY <2>2 DEF FillLookup, ringVars, joinVars
  <2>3. CASE FillFound
    <3>1. tempB \in member
      BY <2>3, <1>1, <1>2, <1>3 DEF FillFound, TakeFound, IInv, Walking, OwnerFound, OwnerOf
    <3> QED BY <2>3, <3>1 DEF FillFound
  <2> QED BY <2>1, <2>2, <2>3
<1>6. /\ ft' \in [Node -> [Finger -> Node]]
      /\ ft'[joiner][1] = ft[joiner][1]
      /\ \A i \in Finger : ft'[joiner][i] \in member \cup {joiner}
      /\ \A n \in member : ft'[n] = ft[n]
  <2>1. CASE ft' = ft
    BY <2>1, <1>1, <1>2, <1>3 DEF IInv, Place
  <2>2. ASSUME NEW m \in member \cup {joiner}, ft' = [ft EXCEPT ![joiner][idx + 1] = m]
        PROVE  <1>6!1 /\ <1>6!2 /\ <1>6!3 /\ <1>6!4
    BY <2>2, <1>1, <1>2, <1>3, <1>4 DEF IInv, Place
  <2> QED BY <1>5, <2>1, <2>2
<1>7. TypeOK'
  <2>1. FingerStart(joiner, idx + 1) \in Id
    BY <1>1, <1>2, <1>3, <1>4, FingerIds
  <2>2. lpc' \in {"idle", "first"} /\ caller' \in Node /\ key' \in Id
        /\ tempA' = tempA /\ tempB' = tempB /\ dsucc' = dsucc /\ target' = target
    BY <1>1, <1>2, <1>3, <2>1 DEF FillCopy, FillLookup, FillFound, TakeFound, BeginLookup, lookVars,
       joinVars, IInv, TypeOK, LookupTypeOK, RegistersTypeOK
  <2>3. idx' \in 1 .. FTLEN
    BY <1>1, <1>2, <1>3, <1>5, FingerAssumption
  <2> QED BY <1>1, <1>2, <1>3, <1>6, <2>2, <2>3 DEF IInv, TypeOK, LookupTypeOK, RegistersTypeOK, PC
<1>8. Shape' /\ RingCorrect' /\ FingersUsable(Linked)'
  BY <1>1, <1>2, <1>3, <1>6, Outside
<1>9. Walking' /\ Updating'
  BY <1>1, <1>2, <1>3, NoWalk DEF Walking, Updating
<1>10. Place'
  BY <1>1, <1>2, <1>3, <1>6 DEF Place
<1> QED BY <1>7, <1>8, <1>9, <1>10 DEF IInv

LEMMA LinkPredKeeps ==
  ASSUME IInv, LinkPred
  PROVE  IInv'
<1> USE Basics
<1>1. /\ pc = "fill" /\ pc' = "linksucc" /\ lpc = "idle" /\ lpc' = "idle"
      /\ joiner \in Node \ member /\ Linked = member /\ Linked' = member /\ waiting = {}
      /\ OwnerOf(member, joiner, succ[joiner]) /\ succ[joiner] \in member
      /\ ft[joiner][1] = succ[joiner] /\ pred[joiner] = pred[succ[joiner]]
      /\ ~Linking /\ Linking'
      /\ member' = member /\ joiner' = joiner /\ waiting' = waiting
      /\ succ' = succ /\ ft' = ft
  BY DEF LinkPred, lookVars, IInv, Place, OwnerOf, Linked, Entered, Updating, Linking
<1>2. /\ pred'[succ[joiner]] = joiner /\ pred'[joiner] = pred[succ[joiner]]
      /\ \A n \in member : n # succ[joiner] => pred'[n] = pred[n]
  BY <1>1 DEF LinkPred
<1>3. TypeOK'
  BY <1>1 DEF LinkPred, lookVars, IInv, TypeOK, LookupTypeOK, RegistersTypeOK, PC
<1>4. RingCorrect'
  BY <1>1, <1>2 DEF RingCorrect, IInv
<1>5. Shape' /\ FingersUsable(Linked)' /\ Walking' /\ Place' /\ Updating'
  BY <1>1, NoWalk DEF IInv, Shape, FingersUsable, Walking, Place, Updating
<1> QED BY <1>3, <1>4, <1>5 DEF IInv

\* The step that lets the joiner in.
LEMMA LinkSuccKeeps ==
  ASSUME IInv, LinkSucc
  PROVE  /\ IInv'
         /\ joiner \in Node \ Linked /\ Linked # {}
         /\ Linked' = Linked \cup {joiner}
         /\ \A n \in Linked : succ'[n] # succ[n] =>
                                succ'[n] = joiner /\ succ[joiner] = succ[n]
<1> USE Basics
<1>1. /\ pc = "linksucc" /\ pc' = "askdsucc" /\ lpc = "idle" /\ lpc' = "idle"
      /\ joiner \in Node \ member /\ Linked = member /\ waiting = {}
      /\ Linked' = member \cup {joiner} /\ Linking /\ ~Linking'
      /\ OwnerOf(member, joiner, succ[joiner]) /\ succ[joiner] \in member
      /\ ft[joiner][1] = succ[joiner]
      /\ member' = member /\ joiner' = joiner /\ waiting' = waiting
      /\ pred' = pred /\ member # {}
  BY DEF LinkSucc, lookVars, IInv, Walking, Place, OwnerOf, Linked, Entered, Updating,
     Linking
<1> DEFINE s == succ[joiner]
           p == pred[joiner]
<1>2. pred[s] = joiner /\ PrevOf(member, s, p) /\ p \in member
  BY <1>1 DEF IInv, RingCorrect, PrevOf
<1>3. /\ succ'[p] = joiner /\ ft'[p][1] = joiner
      /\ \A n \in Node : n # p => succ'[n] = succ[n] /\ ft'[n] = ft[n]
      /\ \A n \in Node, i \in Finger : i # 1 => ft'[n][i] = ft[n][i]
  BY <1>1, <1>2 DEF LinkSucc, SetSucc
<1>4. member \in SUBSET Id /\ joiner \in Id \ member /\ p # joiner
  BY <1>1, <1>2
<1>5. /\ NextOf(Linked', joiner, s) /\ PrevOf(Linked', joiner, p)
      /\ NextOf(Linked', p, joiner) /\ PrevOf(Linked', s, joiner)
  BY <1>1, <1>2, <1>4, EnterNewcomer, EnterNeighbours
<1>6. \A n \in member : /\ n # p => NextOf(Linked', n, succ[n])
                        /\ n # s => PrevOf(Linked', n, pred[n])
  <2>1. \A n \in member : /\ NextOf(member, n, succ[n])
                          /\ n # s => PrevOf(member, n, pred[n])
    BY <1>1 DEF IInv, RingCorrect
  <2> QED BY <2>1, <1>1, <1>4, <1>5, EnterOthers
<1>7. RingCorrect'
  <2>1. \A n \in Linked' : NextOf(Linked', n, succ'[n])
    BY <1>1, <1>3, <1>4, <1>5, <1>6
  <2>2. \A n \in Linked' : PrevOf(Linked', n, pred'[n])
    BY <1>1, <1>2, <1>5, <1>6
  <2> QED BY <2>1, <2>2, <1>1 DEF RingCorrect
<1>8. FingersUsable(Linked)'
  <2>1. /\ \A n \in member, i \in Finger : ft[n][1] = succ[n] /\ ft[n][i] \in member
        /\ \A i \in Finger : ft[joiner][i] \in member \cup {joiner}
    BY <1>1 DEF IInv, FingersUsable, Place
  <2>2. \A n \in Linked' : ft'[n][1] = succ'[n]
    <3>1. \A n \in member : ft'[n][1] = succ'[n]
      BY <2>1, <1>2, <1>3
    <3>2. ft'[joiner][1] = succ'[joiner]
      BY <1>1, <1>3, <1>4
    <3> QED BY <3>1, <3>2, <1>1
  <2>3. \A n \in Linked', i \in Finger : ft'[n][i] \in Linked'
    <3>1. \A n \in member, i \in Finger : i # 1 => ft'[n][i] \in Linked'
      BY <2>1, <1>1, <1>3
    <3>2. \A n \in member : ft'[n][1] \in Linked'
      BY <2>1, <1>1, <1>2, <1>3
    <3>3. \A i \in Finger : ft'[joiner][i] \in Linked'
      BY <2>1, <1>1, <1>3, <1>4
    <3> QED BY <3>1, <3>2, <3>3, <1>1
  <2> QED BY <2>2, <2>3 DEF FingersUsable
<1>9. TypeOK'
  BY <1>1 DEF LinkSucc, SetSucc, lookVars, IInv, TypeOK, LookupTypeOK,
     RegistersTypeOK, PC
<1>10. Shape' /\ Walking' /\ Place' /\ Updating'
  BY <1>1, <1>3, <1>4, NoWalk DEF IInv, Shape, Walking, Place, Updating
<1>11. succ[p] = s
  BY <1>1, <1>2, <1>4, NextOfPrev DEF IInv, RingCorrect
<1> QED BY <1>1, <1>3, <1>7, <1>8, <1>9, <1>10, <1>11 DEF IInv

LEMMA AskDoubleSuccKeeps ==
  ASSUME IInv, AskDoubleSucc
  PROVE  IInv'
<1> USE Basics
<1>1. /\ pc = "askdsucc" /\ pc' = "others" /\ lpc = "idle" /\ lpc' = "idle"
      /\ joiner \in Linked /\ Linked' = Linked /\ waiting = {} /\ ~Linking /\ ~Linking'
      /\ member' = member /\ joiner' = joiner /\ waiting' = waiting
      /\ succ' = succ /\ pred' = pred /\ dsucc'[joiner] = succ[succ[joiner]]
  BY DEF AskDoubleSucc, lookVars, IInv, Walking, Linked, Entered, Updating, Linking
<1>2. /\ NextOf(Linked, joiner, succ[joiner]) /\ ft[joiner][1] = succ[joiner]
      /\ \A i \in Finger : ft[joiner][i] \in Linked
  BY <1>1 DEF IInv, RingCorrect, FingersUsable
<1>3. ~NotInRange(FingerStart(joiner, 1), joiner, succ[joiner])
  <2>1. FingerStart(joiner, 1) \in Id /\ Dist(joiner, FingerStart(joiner, 1)) = 1
    <3>1. 2 ^ (1 - 1) = 1 /\ 1 \in Id
      BY HashMaxAssumption DEF Id
    <3> QED BY <3>1, <1>1, RingPlusMinus DEF FingerStart
  <2>2. succ[joiner] \in Id /\ joiner \in Id /\ succ[joiner] # joiner
    <3>1. First \in Linked /\ First # joiner /\ joiner \in Node
      BY <1>1 DEF Entered
    <3>2. succ[joiner] # joiner
      BY <3>1, <1>2 DEF NextOf
    <3> QED BY <3>1, <3>2
  <2>3. Dist(joiner, succ[joiner]) >= 1
    BY <2>2, DistFacts
  <2> QED BY <2>1, <2>2, <2>3, NotInRangeIsArc
<1>4. /\ ft' \in [Node -> [Finger -> Node]] /\ ft'[joiner][1] = succ[joiner]
      /\ \A i \in Finger : ft'[joiner][i] \in Linked
      /\ \A n \in Linked : n # joiner => ft'[n] = ft[n]
  BY <1>1, <1>2, <1>3 DEF AskDoubleSucc
<1>5. TypeOK'
  BY <1>1, <1>4, FingerAssumption
     DEF AskDoubleSucc, lookVars, IInv, TypeOK, LookupTypeOK, RegistersTypeOK, PC
<1>6. RingCorrect' /\ FingersUsable(Linked)'
  BY <1>1, <1>4, SameNeighbours DEF IInv, FingersUsable
<1>7. Shape' /\ Walking' /\ Updating'
  BY <1>1, NoWalk DEF IInv, Shape, Walking, Updating
<1>8. Place'
  BY <1>1, <1>4 DEF Place, Linked, Entered
<1> QED BY <1>5, <1>6, <1>7, <1>8 DEF IInv

(****************************************************************************)
(* The steps of UpdateOthers.                                               *)
(****************************************************************************)

\* From here on the joiner is in the ring, which no step changes any more.
LEMMA Inside ==
  ASSUME IInv, Entered
  PROVE  /\ joiner \in Linked /\ First \in Linked /\ joiner # First /\ ~Linking
         /\ Linked = member \cup {joiner}
         /\ \A n \in Linked : /\ NextOf(Linked, n, succ[n]) /\ succ[n] \in Linked
                              /\ PrevOf(Linked, n, pred[n]) /\ pred[n] \in Linked
                              /\ pred[n] # n /\ succ[n] # n
         /\ pred[joiner] # joiner /\ succ[pred[joiner]] = joiner
<1>1. /\ joiner \in Linked /\ First \in Linked /\ joiner # First /\ ~Linking
      /\ Linked = member \cup {joiner} /\ Linked \in SUBSET Id
  BY Basics DEF Entered, Linked, Linking
<1>2. \A n \in Linked : NextOf(Linked, n, succ[n]) /\ PrevOf(Linked, n, pred[n])
  BY <1>1 DEF IInv, RingCorrect
<1>3. \A n \in Linked : /\ succ[n] \in Linked /\ pred[n] \in Linked
                        /\ pred[n] # n /\ succ[n] # n
  BY <1>1, <1>2 DEF NextOf, PrevOf
<1>4. succ[pred[joiner]] = joiner
  BY <1>1, <1>2, <1>3, NextOfPrev
<1> QED BY <1>1, <1>2, <1>3, <1>4

LEMMA OthersLookupKeeps ==
  ASSUME IInv, OthersLookup
  PROVE  IInv'
<1> USE Basics
<1>1. /\ pc = "others" /\ pc' = "others" /\ lpc' = "first" /\ idx < FTLEN /\ idx' = idx
      /\ key' = RingMinus(joiner, 2 ^ (idx - 1)) /\ caller' = joiner
      /\ tempA' = tempA /\ tempB' = tempB
      /\ UNCHANGED <<member, succ, pred, ft, dsucc, joiner, target, waiting>>
  BY DEF OthersLookup, BeginLookup, ringVars, joinVars
<1>2. /\ Entered /\ Entered' /\ Linked' = Linked /\ ~Linking /\ ~Linking'
  BY <1>1 DEF Entered, Linked, Linking
<1>3. joiner \in Node /\ idx \in Finger /\ key' \in Id
  <2>1. idx \in Finger
    BY <1>1, FingerAssumption DEF IInv, TypeOK, Finger
  <2> QED BY <1>1, <2>1, FingerIds
<1>4. TypeOK'
  BY <1>1, <1>3 DEF IInv, TypeOK, LookupTypeOK, RegistersTypeOK, PC
<1>5. RingCorrect' /\ FingersUsable(Linked)'
  BY <1>1, <1>2, SameNeighbours, SameFingers DEF IInv
<1>6. Shape' /\ Walking' /\ Place' /\ Updating'
  BY <1>1, <1>2, NoWalk DEF IInv, Shape, Walking, Place, Updating
<1> QED BY <1>4, <1>5, <1>6 DEF IInv

\* The one step that needs NoAdjacentNodes: for index 1 the lookup returns
\* the joiner, so the node to update is its predecessor.
LEMMA OthersFoundKeeps ==
  ASSUME NoAdjacentNodes, IInv, OthersSkip \/ OthersTarget
  PROVE  IInv'
<1> USE Basics
<1>1. /\ pc = "others" /\ lpc = "done" /\ lpc' = "idle" /\ waiting = {}
      /\ UNCHANGED <<member, succ, pred, ft, dsucc, joiner, waiting, caller, key, tempA, tempB>>
      /\ pc' \in {"others", "update"}
  BY DEF OthersSkip, OthersTarget, TakeFound, ringVars, IInv, Updating
<1>2. /\ Entered /\ Entered' /\ Linked' = Linked /\ ~Linking /\ ~Linking'
  BY <1>1 DEF Entered, Linked, Linking
<1>3. /\ idx < FTLEN /\ idx \in Nat /\ idx >= 1 /\ FTLEN \in Nat
      /\ key = RingMinus(joiner, 2 ^ (idx - 1))
      /\ OwnerOf(Linked, key, tempB) /\ tempB \in Linked
  BY <1>1, FingerAssumption
     DEF IInv, TypeOK, Walking, OwnerFound, OwnerOf
<1>4. idx = 1 => tempB = joiner
  <2>1. 2 ^ (1 - 1) = 1
    OBVIOUS
  <2>2. joiner \in Linked /\ RingMinus(joiner, 1) \notin Linked
    BY <1>2 DEF NoAdjacentNodes
  <2>3. idx = 1 => OwnerOf(Linked, RingMinus(joiner, 1), tempB)
    BY <1>3, <2>1
  <2> QED BY <2>2, <2>3, OwnerJustBelow
<1>5. \/ pc' = "others" /\ idx' = idx + 1 /\ target' = target
      \/ /\ pc' = "update" /\ idx' = idx
         /\ target' = pred[tempB] /\ target' # joiner /\ target' \in Linked
  BY <1>1, <1>2, <1>3, Inside DEF OthersSkip, OthersTarget
<1>6. TypeOK'
  BY <1>1, <1>3, <1>5 DEF IInv, TypeOK, LookupTypeOK, RegistersTypeOK, PC
<1>7. RingCorrect' /\ FingersUsable(Linked)'
  BY <1>1, <1>2, SameNeighbours, SameFingers DEF IInv
<1>8. Shape' /\ Walking' /\ Place'
  BY <1>1, <1>2, NoWalk DEF IInv, Shape, Walking, Place
<1>9. Updating'
  BY <1>1, <1>2, <1>3, <1>4, <1>5 DEF IInv, Updating
<1> QED BY <1>6, <1>7, <1>8, <1>9 DEF IInv

\* Index 1 tells the joiner's predecessor what it already knows.
LEMMA UpdateSuccKeeps ==
  ASSUME IInv, UpdateSucc
  PROVE  IInv' /\ UNCHANGED <<succ, ft>>
<1> USE Basics
<1>1. /\ pc = "update" /\ pc' = "others" /\ idx = 1 /\ idx' = 2
      /\ target = pred[joiner] /\ lpc = "idle" /\ lpc' = "idle"
      /\ UNCHANGED <<member, pred, dsucc, joiner, target, waiting, caller, key, tempA, tempB>>
      /\ Entered /\ Entered' /\ Linked' = Linked /\ ~Linking /\ ~Linking'
  BY DEF UpdateSucc, lookVars, IInv, Walking, Updating, Entered, Linked, Linking
<1>2. /\ target \in Linked /\ succ[target] = joiner /\ ft[target][1] = joiner
  BY <1>1, Inside DEF IInv, FingersUsable
<1>3. succ' = succ
  BY <1>1, <1>2 DEF UpdateSucc, SetSucc
<1>4. ft' = ft
  BY <1>1, <1>2 DEF UpdateSucc, SetSucc
<1>6. TypeOK'
  BY <1>1, <1>3, <1>4, FingerAssumption
     DEF IInv, TypeOK, LookupTypeOK, RegistersTypeOK, PC
<1>7. RingCorrect' /\ FingersUsable(Linked)'
  BY <1>1, <1>3, <1>4, SameNeighbours, SameFingers DEF IInv
<1>8. Shape' /\ Walking' /\ Place' /\ Updating'
  BY <1>1, <1>3, <1>4, NoWalk DEF IInv, Shape, Walking, Place, Updating
<1> QED BY <1>3, <1>4, <1>6, <1>7, <1>8 DEF IInv

\* One node of the chain takes the joiner for finger idx, and at most hands
\* the update to its predecessor, which is nearer to the joiner.
LEMMA UpdateForwardKeeps ==
  ASSUME IInv, UpdateForward
  PROVE  IInv'
<1> USE Basics
<1>1. /\ pc = "update" /\ pc' = "update" /\ idx > 1 /\ idx < FTLEN /\ idx' = idx
      /\ target \in Linked \ {joiner} /\ pred[target] # joiner
      /\ target' = pred[target] /\ waiting' = waiting \cup {target}
      /\ lpc = "idle" /\ lpc' = "idle"
      /\ ft' = [ft EXCEPT ![target][idx] = joiner]
      /\ UNCHANGED <<member, succ, pred, dsucc, joiner, caller, key, tempA, tempB>>
      /\ Entered /\ Entered' /\ Linked' = Linked /\ ~Linking /\ ~Linking'
      /\ \A w \in waiting : Dist(joiner, target) < Dist(joiner, w)
  BY DEF UpdateForward, lookVars, IInv, Walking, Updating, Entered, Linked, Linking
<1>2. idx \in Finger /\ idx # 1
  BY <1>1, FingerAssumption DEF IInv, TypeOK, Finger
<1>3. pred[target] \in Linked /\ PrevOf(Linked, target, pred[target]) /\ joiner \in Linked
  BY <1>1, Inside
<1>4. Dist(joiner, pred[target]) < Dist(joiner, target)
  BY <1>1, <1>3, PrevIsNearer
<1>5. /\ \A w \in waiting : Dist(joiner, w) \in Nat
      /\ Dist(joiner, target) \in Nat /\ Dist(joiner, pred[target]) \in Nat
  BY <1>1, <1>3, DistFacts DEF IInv, TypeOK
<1>6. \A w \in waiting' : Dist(joiner, target') < Dist(joiner, w)
  BY <1>1, <1>4, <1>5
<1>7. TypeOK'
  BY <1>1, <1>2, <1>3 DEF IInv, TypeOK, LookupTypeOK, RegistersTypeOK, PC
<1>8. RingCorrect'
  BY <1>1, SameNeighbours DEF IInv
<1>9. FingersUsable(Linked)'
  BY <1>1, <1>2, <1>3 DEF IInv, FingersUsable
<1>10. Shape' /\ Walking' /\ Place'
  BY <1>1, NoWalk DEF IInv, Shape, Walking, Place
<1>11. Updating'
  BY <1>1, <1>2, <1>3, <1>6 DEF IInv, Updating
<1> QED BY <1>7, <1>8, <1>9, <1>10, <1>11 DEF IInv

LEMMA UpdateEndKeeps ==
  ASSUME IInv, UpdateEnd
  PROVE  IInv'
<1> USE Basics
<1>1. /\ pc = "update" /\ pc' = "others" /\ idx > 1 /\ idx < FTLEN /\ idx' = idx + 1
      /\ target \in Linked \ {joiner}
      /\ waiting' = {} /\ lpc = "idle" /\ lpc' = "idle"
      /\ ft' = ft \/ ft' = [ft EXCEPT ![target][idx] = joiner]
      /\ UNCHANGED <<member, succ, pred, dsucc, joiner, target, caller, key, tempA, tempB>>
      /\ Entered /\ Entered' /\ Linked' = Linked /\ ~Linking /\ ~Linking'
  BY DEF UpdateEnd, lookVars, IInv, Walking, Updating, Entered, Linked, Linking
<1>2. idx \in Finger /\ idx # 1 /\ idx + 1 \in 1 .. FTLEN /\ joiner \in Linked
  BY <1>1, Inside, FingerAssumption DEF IInv, TypeOK, Finger
<1>3. /\ ft' \in [Node -> [Finger -> Node]]
      /\ FingersUsable(Linked)'
      /\ ft'[joiner] = ft[joiner]
  <2>1. CASE ft' = ft
    BY <2>1, <1>1 DEF IInv, FingersUsable
  <2>2. CASE ft' = [ft EXCEPT ![target][idx] = joiner]
    BY <2>2, <1>1, <1>2 DEF IInv, FingersUsable
  <2> QED BY <1>1, <2>1, <2>2
<1>4. RingCorrect'
  BY <1>1, SameNeighbours DEF IInv
<1>5. TypeOK'
  BY <1>1, <1>2, <1>3 DEF IInv, TypeOK, LookupTypeOK, RegistersTypeOK, PC
<1>6. Shape' /\ Walking' /\ Place' /\ Updating'
  BY <1>1, <1>3, NoWalk DEF IInv, Shape, Walking, Place, Updating
<1> QED BY <1>3, <1>4, <1>5, <1>6 DEF IInv

\* The steps that update double successors leave the ring alone.
LEMMA DoubleSuccKeeps ==
  ASSUME IInv,
         PredsDoubleSucc \/ SetPredsDoubleSucc \/ AskDoublePred
           \/ SetDoublePredsDoubleSucc \/ JoinDone
  PROVE  IInv'
<1> USE Basics
<1>1. /\ Entered /\ ~Linking /\ ~Linking' /\ Linked' = Linked /\ waiting = {}
      /\ lpc = "idle" /\ lpc' = "idle"
      /\ UNCHANGED <<succ, pred, ft, idx, waiting, caller, key, tempA, tempB>>
      /\ \/ member' = member /\ joiner' = joiner
            /\ pc' \in {"predsdsucc", "askdpred", "dpredsdsucc"}
         \/ member' = Linked /\ joiner' = NoNode /\ pc' = "idle"
  BY DEF PredsDoubleSucc, SetPredsDoubleSucc, AskDoublePred, SetDoublePredsDoubleSucc,
     JoinDone, Report, lookVars, ringVars, IInv, Walking, Updating, Entered, Linked, Linking
<1>2. TypeOK'
  <2>1. dsucc' \in [Node -> Node] /\ target' \in Node
    <3>1. /\ joiner \in Node /\ succ[joiner] \in Node /\ pred[joiner] \in Node
          /\ pred[pred[joiner]] \in Node /\ target \in Node
      BY <1>1, Inside DEF IInv, TypeOK
    <3>2. target' \in {target, pred[joiner], pred[pred[joiner]]}
      BY DEF PredsDoubleSucc, SetPredsDoubleSucc, AskDoublePred,
         SetDoublePredsDoubleSucc, JoinDone
    <3>3. dsucc' \in {dsucc, [dsucc EXCEPT ![target] = succ[joiner]],
                     [dsucc EXCEPT ![target] = joiner]}
      BY DEF PredsDoubleSucc, SetPredsDoubleSucc, AskDoublePred,
         SetDoublePredsDoubleSucc, JoinDone
    <3>4. dsucc' \in [Node -> Node]
      BY <3>1, <3>3
    <3> QED BY <3>1, <3>2, <3>4
  <2> QED BY <2>1, <1>1 DEF IInv, TypeOK, LookupTypeOK, RegistersTypeOK, PC
<1>3. RingCorrect' /\ FingersUsable(Linked)'
  BY <1>1, SameNeighbours, SameFingers DEF IInv
<1>4. Shape' /\ Walking' /\ Place'
  BY <1>1, NoWalk, Inside DEF IInv, Shape, Walking, Place
<1>5. Updating'
  <2>1. CASE PredsDoubleSucc
    BY <2>1, <1>1 DEF PredsDoubleSucc, IInv, Updating
  <2>2. CASE SetPredsDoubleSucc
    <3>1. target # joiner
      BY <2>2, Inside, <1>1 DEF SetPredsDoubleSucc, IInv, Updating
    <3>2. dsucc'[joiner] = dsucc[joiner]
      BY <3>1, <2>2 DEF SetPredsDoubleSucc
    <3> QED BY <3>2, <2>2, <1>1 DEF SetPredsDoubleSucc, Report, IInv, Updating
  <2>3. CASE AskDoublePred
    <3> DEFINE p == pred[joiner]
    <3>1. /\ dsucc[joiner] # joiner /\ dsucc[joiner] = succ[succ[joiner]]
          /\ pc' = "dpredsdsucc" /\ target' = pred[p] /\ joiner' = joiner
      BY <2>3 DEF AskDoublePred, IInv, Updating
    <3>2. /\ p \in Linked /\ p # joiner /\ pred[p] \in Linked /\ succ[p] = joiner
          /\ PrevOf(Linked, joiner, p) /\ PrevOf(Linked, p, pred[p])
          /\ succ[joiner] \in Linked /\ succ[joiner] # joiner
      BY <1>1, Inside
    <3>3. pred[p] # joiner
      <4>1. SUFFICES ASSUME pred[p] = joiner PROVE FALSE
        OBVIOUS
      <4>2. Linked = {joiner, p}
        BY <4>1, <3>2, <1>1, Inside, RingOfTwo
      <4> QED BY <4>2, <3>1, <3>2
    <3> QED BY <3>1, <3>2, <3>3, <1>1 DEF Updating
  <2>4. CASE SetDoublePredsDoubleSucc \/ JoinDone
    BY <2>4, <1>1 DEF SetDoublePredsDoubleSucc, JoinDone, Report, Updating
  <2> QED BY <2>1, <2>2, <2>3, <2>4
<1> QED BY <1>2, <1>3, <1>4, <1>5 DEF IInv

(****************************************************************************)
(* Lookups while somebody joins, and the theorems.                          *)
(****************************************************************************)

LEMMA WalkStepKeeps ==
  ASSUME IInv, WalkStep
  PROVE  IInv' /\ UNCHANGED <<member, succ, joiner, pc>>
<1> USE Basics
<1>1. /\ UNCHANGED <<member, succ, pred, ft, dsucc, joiner, pc, idx, target, waiting>>
      /\ LookupStep /\ lpc # "idle" /\ lpc' # "idle" /\ key' = key /\ caller' = caller
      /\ pc \in {"findsucc", "fill", "others"}
  BY DEF WalkStep, ringVars, joinVars, IInv, Walking, LookupStep, LookupFirst,
     LookupReturn, LookupClosest, LookupSelf, LookupHop
<1>2. /\ Linked' = Linked /\ ~Linking /\ ~Linking' /\ First \in Linked
      /\ Entered' = Entered
  BY <1>1 DEF Linked, Entered, Linking
<1>3. Walkable(Linked)
  BY <1>2 DEF Walkable, IInv, RingCorrect, NeighboursCorrect
<1>4. PICK R : R = Linked
  OBVIOUS
<1>5. RegistersTypeOK' /\ RegistersTrack(R)' /\ OwnerFound(R)'
  BY <1>1, <1>3, <1>4, WalkKeeps DEF IInv, TypeOK, LookupTypeOK, Walking
<1>6. RegistersTrack(Linked)' /\ OwnerFound(Linked)'
  BY <1>2, <1>4, <1>5
<1>7. TypeOK'
  BY <1>1, <1>5 DEF IInv, TypeOK, LookupTypeOK, PC
<1>8. RingCorrect' /\ FingersUsable(Linked)'
  BY <1>1, <1>2, SameNeighbours, SameFingers DEF IInv
<1>9. Shape' /\ Walking' /\ Place' /\ Updating'
  BY <1>1, <1>2, <1>6 DEF IInv, Shape, Walking, Place, Updating
<1> QED BY <1>1, <1>7, <1>8, <1>9 DEF IInv

LEMMA StutterKeeps ==
  ASSUME IInv, UNCHANGED vars
  PROVE  IInv'
<1>1. /\ UNCHANGED <<member, succ, pred, ft, lpc, caller, key, tempA, tempB>>
      /\ UNCHANGED <<dsucc, joiner, pc, idx, target, waiting>>
  BY DEF vars, ringVars, lookVars, joinVars
<1>2. Linked' = Linked /\ Linking' = Linking /\ Entered' = Entered
  BY <1>1 DEF Linked, Entered, Linking
<1>3. TypeOK' /\ Shape'
  BY <1>1 DEF IInv, TypeOK, LookupTypeOK, RegistersTypeOK, PC, Shape
<1>4. RingCorrect' /\ FingersUsable(Linked)'
  BY <1>1, <1>2 DEF IInv, RingCorrect, FingersUsable
<1>5. Walking' /\ Place' /\ Updating'
  BY <1>1, <1>2 DEF IInv, Walking, RegistersTrack, OwnerFound, Place, Updating
<1> QED BY <1>3, <1>4, <1>5 DEF IInv

LEMMA RingStep ==
  ASSUME NoAdjacentNodes, IInv, [Next]_vars
  PROVE  IInv'
<1>1. CASE \E x \in Node : Create(x)
  BY <1>1, CreateKeeps
<1>2. CASE InitFingerTableStep
  BY <1>2, FoundSuccKeeps, AskPredKeeps, FillKeeps, LinkPredKeeps, LinkSuccKeeps,
     AskDoubleSuccKeeps DEF InitFingerTableStep
<1>3. CASE UpdateOthersStep
  BY <1>3, OthersLookupKeeps, OthersFoundKeeps, UpdateSuccKeeps, UpdateForwardKeeps,
     UpdateEndKeeps, DoubleSuccKeeps DEF UpdateOthersStep
<1>4. CASE WalkStep
  BY <1>4, WalkStepKeeps
<1>5. CASE UNCHANGED vars
  BY <1>5, StutterKeeps
<1> QED BY <1>1, <1>2, <1>3, <1>4, <1>5 DEF Next, AllJoined

\* The inductive invariant holds of every state of every sequence of joins.
THEOREM RingInvariant ==
  ASSUME NoAdjacentNodes
  PROVE  Spec => []IInv
<1>1. IInv /\ [Next]_vars => IInv'
  BY RingStep
<1> QED BY <1>1, RingInit, PTL DEF Spec

\* Type correctness of the join protocol.
THEOREM TypesCorrect ==
  ASSUME NoAdjacentNodes
  PROVE  Spec => []TypeOK
<1>1. IInv => TypeOK
  BY DEF IInv
<1> QED BY <1>1, RingInvariant, PTL

\* Every successor and predecessor is the nearest node of the ring, whatever
\* the ids and the order of joining: no join, however many went before it,
\* leaves the ring open, split or out of order.
THEOREM RingIsCorrect ==
  ASSUME NoAdjacentNodes
  PROVE  Spec => []RingCorrect
<1>1. IInv => RingCorrect
  BY DEF IInv
<1> QED BY <1>1, RingInvariant, PTL

\* Lookups return the owner of the key also while a node is joining.
THEOREM LookupsAreCorrect ==
  ASSUME NoAdjacentNodes
  PROVE  Spec => []LookupsDuringJoin
<1>1. IInv => LookupsDuringJoin
  BY DEF IInv, Walking, LookupsDuringJoin
<1> QED BY <1>1, RingInvariant, PTL

\* A node waits only above the node whose turn it is, and the joiner is below
\* both: no UPDTQ is sent to a node that cannot answer it, so the chain of
\* blocked handlers always unwinds.
THEOREM RequestsAreAnswered ==
  ASSUME NoAdjacentNodes
  PROVE  Spec => []RequestsReachReadyNodes
<1>1. IInv => RequestsReachReadyNodes
  <2> SUFFICES ASSUME IInv, pc \in {"update", "predsdsucc", "dpredsdsucc"}
               PROVE  target \in Linked \ (waiting \cup {joiner})
    BY DEF RequestsReachReadyNodes
  <2>1. Entered
    BY DEF Entered
  <2>2. target \in Linked \ {joiner}
    BY <2>1, Inside DEF IInv, Updating
  <2>3. target \notin waiting
    <3>1. CASE pc = "update"
      <4>1. Dist(joiner, target) \in Nat
        BY <2>1, <2>2, Inside, Basics, DistFacts
      <4> QED BY <3>1, <4>1 DEF IInv, Updating
    <3>2. CASE pc # "update"
      BY <3>2 DEF IInv, Updating
    <3> QED BY <3>1, <3>2
  <2> QED BY <2>2, <2>3
<1> QED BY <1>1, RingInvariant, PTL

\* The neighbours a joiner has found are the ones it will have.
THEOREM PlaceIsCorrect ==
  ASSUME NoAdjacentNodes
  PROVE  Spec => []PlaceCorrect
<1>1. IInv => PlaceCorrect
  <2> SUFFICES ASSUME IInv, pc \in {"fill", "linksucc"}
               PROVE  /\ NextOf(member \cup {joiner}, joiner, succ[joiner])
                      /\ PrevOf(member \cup {joiner}, joiner, pred[joiner])
                      /\ succ[pred[joiner]] = succ[joiner]
    BY DEF PlaceCorrect
  <2>1. /\ joiner \in Id \ member /\ member \in SUBSET Id /\ Linked = member
        /\ OwnerOf(member, joiner, succ[joiner]) /\ succ[joiner] \in member
    BY Basics DEF IInv, Place, OwnerOf, Linked, Entered
  <2>2. PrevOf(member, succ[joiner], pred[joiner]) /\ pred[joiner] \in member
    BY <2>1 DEF IInv, RingCorrect, Place, Linking, PrevOf
  <2>3. NextOf(member, pred[joiner], succ[pred[joiner]])
    BY <2>1, <2>2 DEF IInv, RingCorrect
  <2> QED BY <2>1, <2>2, <2>3, EnterNewcomer, NextOfPrev
<1> QED BY <1>1, RingInvariant, PTL

\* The three kinds of steps: the first client makes the ring, LinkSucc lets
\* the joiner in, and nothing else touches the ring's successors.
LEMMA RingChanges ==
  ASSUME NoAdjacentNodes, IInv, Next
  PROVE  \/ Linked = {} /\ Linked' = {First}
         \/ LinkSucc
         \/ /\ Linked' = Linked
            /\ \A n \in Linked : succ'[n] = succ[n]
<1> USE Basics
<1>1. ASSUME NEW x \in Node, Create(x)
      PROVE  \/ Linked = {} /\ Linked' = {First}
             \/ Linked' = Linked /\ \A n \in Linked : succ'[n] = succ[n]
  BY <1>1 DEF Create, joinVars, lookVars, IInv, TypeOK, Shape, Linked, Entered
<1>2. ASSUME InitFingerTableStep, ~LinkSucc
      PROVE  Linked' = Linked /\ \A n \in Linked : succ'[n] = succ[n]
  <2>1. ASSUME FoundSucc
        PROVE  Linked' = Linked /\ \A n \in Linked : succ'[n] = succ[n]
    BY <2>1 DEF FoundSucc, Linked, Entered
  <2>2. ASSUME AskPred \/ FillCopy \/ FillLookup \/ FillFound \/ LinkPred \/ AskDoubleSucc
        PROVE  Linked' = Linked /\ succ' = succ
    BY <2>2 DEF AskPred, FillCopy, FillLookup, FillFound, LinkPred, AskDoubleSucc,
       ringVars, joinVars, Linked, Entered
  <2> QED BY <1>2, <2>1, <2>2 DEF InitFingerTableStep
<1>3. ASSUME UpdateOthersStep
      PROVE  Linked' = Linked /\ succ' = succ
  <2>1. CASE UpdateSucc
    <3>1. succ' = succ
      BY <2>1, UpdateSuccKeeps
    <3> QED BY <3>1, <2>1 DEF UpdateSucc, Linked, Entered
  <2>2. CASE ~UpdateSucc
    BY <1>3, <2>2 DEF UpdateOthersStep, OthersLookup, OthersSkip, OthersTarget,
       UpdateForward, UpdateEnd, JoinDone, PredsDoubleSucc, SetPredsDoubleSucc,
       AskDoublePred, SetDoublePredsDoubleSucc, Report, ringVars, joinVars, Linked, Entered
  <2> QED BY <2>1, <2>2
<1>4. ASSUME WalkStep \/ AllJoined
      PROVE  Linked' = Linked /\ succ' = succ
  BY <1>4 DEF WalkStep, AllJoined, vars, ringVars, joinVars, Linked, Entered
<1> QED BY <1>1, <1>2, <1>3, <1>4 DEF Next

\* No step but LinkSucc changes a successor, and LinkSucc inserts.
THEOREM OnlyJoinsRelink ==
  ASSUME NoAdjacentNodes
  PROVE  Spec => OnlyLinkSuccRelinks
<1>1. IInv /\ [Next]_vars =>
        [\A n \in Linked :
           succ'[n] # succ[n] => /\ pc = "linksucc"
                                 /\ succ'[n] = joiner /\ succ[joiner] = succ[n]]_vars
  <2> SUFFICES ASSUME IInv, Next, NEW n \in Linked, succ'[n] # succ[n]
               PROVE  pc = "linksucc" /\ succ'[n] = joiner /\ succ[joiner] = succ[n]
    OBVIOUS
  <2>1. LinkSucc
    BY RingChanges
  <2> QED BY <2>1, LinkSuccKeeps DEF LinkSucc
<1> QED BY <1>1, RingInvariant, PTL DEF Spec, OnlyLinkSuccRelinks

\* The join protocol implements RingMembership: seen from outside, the ring is
\* a set of clients in order that grows by one client at a time.
THEOREM ImplementsMembership ==
  ASSUME NoAdjacentNodes
  PROVE  Spec => RefinesMembership
<1> DEFINE next == [n \in Linked |-> succ[n]]
<1>1. Init => Membership!Init
  BY DEF Init, Membership!Init, Linked, Entered
<1>2. IInv /\ IInv' /\ [Next]_vars => [Membership!Next]_<<Linked, next>>
  <2> SUFFICES ASSUME IInv, IInv', [Next]_vars
               PROVE  [Membership!Next]_<<Linked, next>>
    OBVIOUS
  <2>1. /\ next' = [n \in Linked' |-> succ'[n]]
        /\ next' \in [Linked' -> Linked']
        /\ \A n \in Linked' : NextOf(Linked', n, next'[n])
    <3>1. \A n \in Linked' : NextOf(Linked', n, succ'[n])
      BY DEF IInv, RingCorrect
    <3>2. \A n \in Linked' : succ'[n] \in Linked'
      BY <3>1 DEF NextOf
    <3> QED BY <3>1, <3>2
  <2>2. CASE Linked = {} /\ Linked' = {First}
    <3>1. Membership!Join(First)
      BY <2>1, <2>2 DEF Membership!Join, Membership!NextOf, NextOf
    <3> QED BY <3>1, NodeAssumption DEF Membership!Next
  <2>3. CASE LinkSucc
    <3>1. PICK x \in Node : x = joiner
      BY <2>3, LinkSuccKeeps
    <3>2. x \notin Linked /\ Linked # {} /\ Linked' = Linked \cup {x}
      BY <2>3, <3>1, LinkSuccKeeps
    <3>3. Membership!Join(x)
      BY <2>1, <3>2
         DEF Membership!Join, Membership!NextOf, NextOf, Membership!Dist, Dist
    <3> QED BY <3>3 DEF Membership!Next
  <2>4. CASE Linked' = Linked /\ \A n \in Linked : succ'[n] = succ[n]
    BY <2>4
  <2>5. CASE UNCHANGED vars
    BY <2>5 DEF vars, ringVars, joinVars, Linked, Entered
  <2> QED BY <2>2, <2>3, <2>4, <2>5, RingChanges
<1> QED BY <1>1, <1>2, RingInvariant, PTL DEF Spec, RefinesMembership, Membership!Spec
----------------------------------------------------------------------------
(****************************************************************************)
(* Double successors and fingers: what a join has done to them at each of   *)
(* its steps.                                                               *)
(****************************************************************************)

\* The members' successors as if the joiner were not there.
NextWithout ==
  [n \in member |-> IF succ[n] = joiner THEN succ[joiner] ELSE succ[n]]

\* The double successors are those of the ring without the joiner, but for one
\* that may be stale, until UpdateOthers comes to its end.
DoubleSuccsTrack ==
  /\ \E s \in member \cup {NoNode} : \A n \in member :
       dsucc[n] = IF pc \in {"askdpred", "dpredsdsucc"} /\ n = pred[joiner]
                    THEN succ[joiner]
                    ELSE IF n = s THEN n ELSE NextWithout[NextWithout[n]]
  /\ pc \in {"askdpred", "dpredsdsucc"} => pred[joiner] # dsucc[joiner]
  /\ pc = "dpredsdsucc" => /\ target = pred[pred[joiner]]
                           /\ dsucc[joiner] = succ[succ[joiner]]

UpdatesOthers == pc \in {"others", "update", "predsdsucc", "askdpred", "dpredsdsucc"}

\* Finger i of n is the owner of its start, unless it starts at a client.
FingerRight(R, n, i) ==
  FingerStart(n, i) \notin R => OwnerOf(R, FingerStart(n, i), ft[n][i])

\* UpdateOthers is done with finger i of member n: the loop is past i, or the
\* chain of UPDTQs for i, which runs down the circle, is past n.
Updated(n, i) ==
  /\ UpdatesOthers
  /\ i < idx \/ (pc = "update" /\ i = idx /\ Dist(n, joiner) < Dist(target, joiner))

\* Fingers UpdateOthers is done with are right in the ring with the joiner,
\* the others in the ring without it.  Finger 1 is the successor.
MembersFingers ==
  \A n \in member : \A i \in Finger \ {1} :
    IF Updated(n, i) THEN FingerRight(Linked, n, i)
                     ELSE ft[n][i] \in member /\ FingerRight(member, n, i)

\* The joiner's own fingers are those of a ring without it until it is let in
\* and AskDoubleSucc has gone through them.
JoinersFingers ==
  /\ pc = "fill" => \A i \in 1 .. idx : OwnerOf(member, FingerStart(joiner, i), ft[joiner][i])
  /\ pc \in {"linksucc", "askdsucc"} =>
       \A i \in Finger : OwnerOf(member, FingerStart(joiner, i), ft[joiner][i])
  /\ UpdatesOthers =>
       \A i \in Finger : OwnerOf(Linked, FingerStart(joiner, i), ft[joiner][i])

\* Where the two loops stand: the chain of UPDTQs for finger i meets only
\* clients whose finger i starts before the joiner.
LoopsTrack ==
  /\ pc = "fill" => idx \in Finger
  /\ pc = "fill" /\ lpc # "idle" => key = FingerStart(joiner, idx + 1)
  /\ pc = "update" => Dist(target, joiner) > 2 ^ (idx - 1)
  /\ pc \in {"predsdsucc", "askdpred", "dpredsdsucc"} => idx = FTLEN

FingersInv ==
  /\ DoubleSuccsTrack
  /\ FingersPastStart(member)
  /\ MembersFingers
  /\ JoinersFingers
  /\ LoopsTrack

\* The loop of InitFingerTable compares starts of neighbouring fingers: they
\* are in order.  Powers of two grow with the sets whose subsets they count.
LEMMA PowersGrow == \A k \in Nat : 2 ^ k \in Nat /\ 2 ^ k <= 2 ^ (k + 1)
<1> TAKE k \in Nat
<1>1. IsFiniteSet(1 .. k) /\ Cardinality(1 .. k) = k
  BY FS_Interval
<1>2. IsFiniteSet(1 .. k + 1) /\ Cardinality(1 .. k + 1) = k + 1
  BY FS_Interval
<1>3. IsFiniteSet(SUBSET (1 .. k)) /\ Cardinality(SUBSET (1 .. k)) = 2 ^ k
  BY <1>1, FS_SUBSET, Zenon
<1>4. IsFiniteSet(SUBSET (1 .. k + 1)) /\ Cardinality(SUBSET (1 .. k + 1)) = 2 ^ (k + 1)
  BY <1>2, FS_SUBSET, Zenon
<1>5. SUBSET (1 .. k) \subseteq SUBSET (1 .. k + 1)
  OBVIOUS
<1>6. Cardinality(SUBSET (1 .. k)) <= Cardinality(SUBSET (1 .. k + 1))
  BY <1>4, <1>5, FS_Subset, Zenon
<1>7. Cardinality(SUBSET (1 .. k)) \in Nat
  BY <1>3, FS_CardinalityType, Zenon
<1> QED BY <1>3, <1>4, <1>6, <1>7

\* Finger i of n starts 2^(i-1) above n.
LEMMA StartFacts ==
  ASSUME NEW CONSTANT n \in Id, NEW CONSTANT i \in Finger
  PROVE  /\ FingerStart(n, i) \in Id /\ FingerStart(n, i) # n
         /\ Dist(n, FingerStart(n, i)) = 2 ^ (i - 1)
         /\ RingMinus(n, 2 ^ (i - 1)) \in Id
         /\ Dist(RingMinus(n, 2 ^ (i - 1)), n) = 2 ^ (i - 1)
         /\ 2 ^ (i - 1) \in Nat
         /\ i = 1 => Dist(n, FingerStart(n, i)) = 1
<1>1. 2 ^ (i - 1) \in Id /\ 2 ^ (i - 1) # 0
  BY FingerAssumption, HashMaxAssumption DEF Finger, Id
<1>2. Dist(n, n) = 0
  BY DEF Dist, Id
<1>3. 2 ^ (1 - 1) = 1
  OBVIOUS
<1>4. /\ FingerStart(n, i) \in Id /\ Dist(n, FingerStart(n, i)) = 2 ^ (i - 1)
      /\ RingMinus(n, 2 ^ (i - 1)) \in Id
      /\ Dist(RingMinus(n, 2 ^ (i - 1)), n) = 2 ^ (i - 1)
  BY <1>1, RingPlusMinus DEF FingerStart
<1>5. FingerStart(n, i) # n
  BY <1>1, <1>2, <1>4
<1>6. 2 ^ (i - 1) \in Nat
  BY <1>1 DEF Id
<1>7. i = 1 => 2 ^ (i - 1) = 1
  BY <1>3
<1> QED BY <1>4, <1>5, <1>6, <1>7

\* Finger 1 starts just above n: it cannot point short of its start.
LEMMA FirstFingerPastStart ==
  ASSUME NEW CONSTANT n \in Id, NEW CONSTANT f \in Id
  PROVE  Dist(FingerStart(n, 1), f) <= Dist(FingerStart(n, 1), n)
<1>1. 1 \in Finger
  BY FingerAssumption DEF Finger
<1>2. FingerStart(n, 1) \in Id /\ Dist(n, FingerStart(n, 1)) = 1
  BY <1>1, StartFacts
<1> QED BY <1>2, HashMaxAssumption DEF Dist, Id

LEMMA FingersInit == Init => FingersInv
BY DEF Init, FingersInv, DoubleSuccsTrack, FingersPastStart, MembersFingers, JoinersFingers,
   LoopsTrack, UpdatesOthers

\* Outside UpdateOthers the members keep their fingers but the first.
LEMMA FingersQuiet ==
  ASSUME IInv, IInv', FingersInv, ~UpdatesOthers, ~UpdatesOthers', member' = member,
         \A n \in member, i \in Finger \ {1} : ft'[n][i] = ft[n][i]
  PROVE  FingersPastStart(member)' /\ MembersFingers'
<1>1. member \subseteq Node /\ Node \subseteq Id /\ ft' \in [Node -> [Finger -> Node]]
      /\ 1 \in Finger
  BY Basics DEF IInv, TypeOK, LookupTypeOK
<1>2. \A n \in member : Dist(FingerStart(n, 1), ft'[n][1]) <= Dist(FingerStart(n, 1), n)
  <2> TAKE n \in member
  <2>1. n \in Id /\ ft'[n][1] \in Id
    BY <1>1
  <2> QED BY <2>1, FirstFingerPastStart
<1>3. FingersPastStart(member)'
  BY <1>2 DEF FingersInv, FingersPastStart
<1>4. \A n \in member, i \in Finger \ {1} : ft[n][i] \in member /\ FingerRight(member, n, i)
  BY DEF FingersInv, MembersFingers, Updated
<1>5. MembersFingers'
  BY <1>4 DEF MembersFingers, Updated, FingerRight
<1> QED BY <1>3, <1>5

\* The members' double successors and the ring without the joiner stay.
LEMMA DoubleQuiet ==
  ASSUME IInv, FingersInv, pc \notin {"askdpred", "dpredsdsucc"},
         pc' \notin {"askdpred", "dpredsdsucc"}, member' = member,
         NextWithout' = NextWithout,
         \A n \in member : dsucc'[n] = dsucc[n]
  PROVE  DoubleSuccsTrack'
BY DEF FingersInv, DoubleSuccsTrack, NoNode

\* Before the joiner is let in nobody has it for a successor; afterwards it
\* stands between two clients.
LEMMA NextWithoutFacts ==
  ASSUME IInv
  PROVE  /\ ~Entered => \A n \in member : succ[n] # joiner /\ NextWithout[n] = succ[n]
         /\ \A n \in member : NextWithout[n] \in member
<1>1. \A n \in Linked : succ[n] \in Linked
  BY DEF IInv, RingCorrect, NextOf
<1>2. ASSUME ~Entered PROVE \A n \in member : succ[n] # joiner /\ succ[n] \in member
  BY <1>1, <1>2, Basics DEF Linked, IInv, TypeOK
<1>3. ASSUME Entered, NEW n \in member PROVE NextWithout[n] \in member
  <2>1. /\ n \in Linked /\ joiner \in Linked /\ succ[joiner] # joiner
        /\ Linked = member \cup {joiner}
    BY <1>3, Inside
  <2> QED BY <1>1, <2>1 DEF NextWithout
<1> QED BY <1>2, <1>3 DEF NextWithout
(****************************************************************************)
(* The steps of InitFingerTable.                                            *)
(****************************************************************************)

LEMMA NextWithoutSame ==
  ASSUME IInv, ~Entered, member' = member, joiner' = joiner \/ joiner' \notin member,
         \A n \in member : succ'[n] = succ[n]
  PROVE  NextWithout' = NextWithout
<1>1. \A n \in member : succ[n] # joiner /\ succ[n] \in member
  BY NextWithoutFacts DEF NextWithout
<1>2. \A n \in member : succ'[n] # joiner'
  BY <1>1
<1> QED BY <1>1, <1>2 DEF NextWithout

LEMMA CreateFingers ==
  ASSUME IInv, IInv', FingersInv, NEW CONSTANT x \in Node, Create(x)
  PROVE  FingersInv'
<1>1. /\ pc = "idle" /\ x \notin member /\ x \in Id /\ ~Entered /\ ~UpdatesOthers
      /\ \A n \in member : /\ succ'[n] = succ[n] /\ ft'[n] = ft[n] /\ dsucc'[n] = dsucc[n]
  BY Basics DEF Create, IInv, TypeOK, Entered, UpdatesOthers
<1>2. CASE x = First
  <2>1. /\ member' = {x} /\ pc' = "idle" /\ joiner' = NoNode
        /\ succ'[x] = x /\ dsucc'[x] = x /\ ft'[x] = [i \in Finger |-> x]
    BY <1>1, <1>2, Basics DEF Create, joinVars, lookVars, IInv, Shape, TypeOK
  <2>2. JoinersFingers' /\ LoopsTrack' /\ ~UpdatesOthers'
    BY <2>1 DEF JoinersFingers, LoopsTrack, UpdatesOthers
  <2>3. DoubleSuccsTrack'
    <3>1. NextWithout'[x] = x
      BY <2>1, Basics DEF NextWithout
    <3> QED BY <2>1, <3>1 DEF DoubleSuccsTrack
  <2>4. \A i \in Finger : Dist(FingerStart(x, i), x) \in Int
    BY <1>1, StartFacts, DistFacts
  <2>5. FingersPastStart(member)' /\ MembersFingers'
    BY <2>1, <2>2, <2>4 DEF FingersPastStart, MembersFingers, FingerRight, OwnerOf, Updated
  <2> QED BY <2>2, <2>3, <2>5 DEF FingersInv
<1>3. CASE x # First
  <2>1. /\ member' = member /\ pc' = "findsucc" /\ joiner' = x
    BY <1>1, <1>3 DEF Create, IInv, Shape
  <2>2. JoinersFingers' /\ LoopsTrack' /\ ~UpdatesOthers'
    BY <2>1 DEF JoinersFingers, LoopsTrack, UpdatesOthers
  <2>3. FingersPastStart(member)' /\ MembersFingers'
    BY <1>1, <2>1, <2>2, FingersQuiet
  <2>4. DoubleSuccsTrack'
    BY <1>1, <2>1, NextWithoutSame, DoubleQuiet
  <2> QED BY <2>2, <2>3, <2>4 DEF FingersInv
<1> QED BY <1>2, <1>3

\* The steps before the joiner is let in touch nothing of the members.
LEMMA OutsideFingers ==
  ASSUME IInv, IInv', FingersInv, pc \in {"findsucc", "askpred", "fill"},
         pc' \in {"askpred", "fill", "linksucc"},
         member' = member, joiner' = joiner, dsucc' = dsucc,
         \A n \in member : succ'[n] = succ[n] /\ ft'[n] = ft[n]
  PROVE  FingersPastStart(member)' /\ MembersFingers' /\ DoubleSuccsTrack'
<1>1. ~Entered /\ ~UpdatesOthers /\ ~UpdatesOthers'
  BY DEF Entered, UpdatesOthers
<1> QED BY <1>1, FingersQuiet, NextWithoutSame, DoubleQuiet

LEMMA FoundSuccFingers ==
  ASSUME IInv, IInv', FingersInv, FoundSucc
  PROVE  FingersInv'
<1>1. /\ pc = "findsucc" /\ pc' = "askpred" /\ member' = member /\ joiner' = joiner
      /\ dsucc' = dsucc
      /\ \A n \in member : succ'[n] = succ[n] /\ ft'[n] = ft[n]
  BY Basics DEF FoundSucc
<1>2. JoinersFingers' /\ LoopsTrack'
  BY <1>1 DEF JoinersFingers, LoopsTrack, UpdatesOthers
<1> QED BY <1>1, <1>2, OutsideFingers DEF FingersInv

LEMMA AskPredFingers ==
  ASSUME IInv, IInv', FingersInv, AskPred
  PROVE  FingersInv'
<1>1. /\ pc = "askpred" /\ pc' = "fill" /\ idx' = 1 /\ member' = member /\ joiner' = joiner
      /\ dsucc' = dsucc /\ succ' = succ /\ ft' = ft /\ lpc' = "idle"
      /\ joiner \in Id \ member /\ member \in SUBSET Id /\ 1 \in Finger
      /\ OwnerOf(member, joiner, succ[joiner]) /\ ft[joiner][1] = succ[joiner]
  BY Basics DEF AskPred, lookVars, IInv, Walking, Place
<1>2. OwnerOf(member, FingerStart(joiner, 1), ft[joiner][1])
  <2>1. FingerStart(joiner, 1) \in Id /\ Dist(joiner, FingerStart(joiner, 1)) = 1
    BY <1>1, StartFacts
  <2> QED BY <1>1, <2>1, OwnerOfNextId
<1>3. JoinersFingers' /\ LoopsTrack'
  BY <1>1, <1>2 DEF JoinersFingers, LoopsTrack, UpdatesOthers
<1> QED BY <1>1, <1>3, OutsideFingers DEF FingersInv

\* Each round of the loop adds one right finger, by a copy or by a lookup.
LEMMA FillFingers ==
  ASSUME IInv, IInv', FingersInv, FillCopy \/ FillLookup \/ FillFound
  PROVE  FingersInv'
<1>1. /\ pc = "fill" /\ pc' = "fill" /\ member' = member /\ joiner' = joiner
      /\ dsucc' = dsucc /\ succ' = succ /\ joiner \in Node \ member
      /\ idx < FTLEN - 1 /\ idx \in Nat /\ idx >= 1 /\ FTLEN \in Nat
  BY Basics, FingerAssumption DEF FillCopy, FillLookup, FillFound, TakeFound, ringVars, joinVars,
     IInv, TypeOK, Walking
<1>2. /\ idx + 1 \in Finger /\ idx \in Finger /\ joiner \in Id \ member /\ member \in SUBSET Id
      /\ Linked = member
      /\ \A i \in 1 .. idx : i \in Finger /\ OwnerOf(member, FingerStart(joiner, i), ft[joiner][i])
  BY <1>1, Basics DEF FingersInv, JoinersFingers, Finger, Linked, Entered
<1>3. ASSUME NEW m, OwnerOf(member, FingerStart(joiner, idx + 1), m), lpc' = "idle",
             ft' = [ft EXCEPT ![joiner][idx + 1] = m], idx' = idx + 1
      PROVE  FingersInv'
  <2>1. /\ ft'[joiner][idx + 1] = m
        /\ \A i \in 1 .. idx : ft'[joiner][i] = ft[joiner][i]
        /\ \A n \in member : ft'[n] = ft[n]
    BY <1>1, <1>2, <1>3, Basics
  <2>2. \A i \in 1 .. idx' : i \in 1 .. idx \/ i = idx + 1
    BY <1>1, <1>3
  <2>3. JoinersFingers'
    BY <1>1, <1>2, <1>3, <2>1, <2>2 DEF JoinersFingers, UpdatesOthers
  <2>4. LoopsTrack'
    BY <1>1, <1>2, <1>3 DEF LoopsTrack
  <2> QED BY <1>1, <2>1, <2>3, <2>4, OutsideFingers DEF FingersInv
<1>4. CASE FillCopy
  <2> DEFINE m == ft[joiner][idx]
             st == FingerStart(joiner, idx + 1)
  <2>1. /\ ft' = [ft EXCEPT ![joiner][idx + 1] = m] /\ idx' = idx + 1 /\ lpc' = "idle"
        /\ InRangeA(joiner, st, m)
    BY <1>4 DEF FillCopy, lookVars
  <2>2. /\ OwnerOf(member, FingerStart(joiner, idx), m)
    BY <1>1, <1>2
  <2>3. \A i \in Finger : /\ FingerStart(joiner, i) \in Id
                          /\ Dist(joiner, FingerStart(joiner, i)) = 2 ^ (i - 1)
    BY <1>2, StartFacts
  <2>4. Dist(joiner, FingerStart(joiner, idx)) <= Dist(joiner, st)
    <3>1. PICK k \in Finger : k = idx + 1
      BY <1>2
    <3>2. k - 1 = (idx - 1) + 1 /\ idx - 1 \in Nat
      BY <1>1, <3>1
    <3>3. 2 ^ (idx - 1) <= 2 ^ (k - 1)
      BY <3>2, PowersGrow
    <3>4. Dist(joiner, FingerStart(joiner, k)) = 2 ^ (k - 1)
      BY <2>3
    <3>5. Dist(joiner, FingerStart(joiner, idx)) = 2 ^ (idx - 1)
      BY <2>3, <1>2
    <3> QED BY <3>1, <3>3, <3>4, <3>5
  <2>5. OwnerOf(member, st, m)
    BY <1>2, <2>1, <2>2, <2>3, <2>4, OwnerUpTo
  <2> QED BY <1>3, <2>1, <2>5
<1>5. CASE FillLookup
  <2>1. /\ ft' = ft /\ idx' = idx /\ key' = FingerStart(joiner, idx + 1)
    BY <1>5 DEF FillLookup, BeginLookup, ringVars, joinVars
  <2>2. JoinersFingers' /\ LoopsTrack'
    BY <1>1, <1>2, <2>1 DEF JoinersFingers, LoopsTrack, UpdatesOthers
  <2> QED BY <1>1, <2>1, <2>2, OutsideFingers DEF FingersInv
<1>6. CASE FillFound
  <2>1. /\ ft' = [ft EXCEPT ![joiner][idx + 1] = tempB] /\ idx' = idx + 1 /\ lpc' = "idle"
        /\ lpc = "done"
    BY <1>6 DEF FillFound, TakeFound
  <2>2. OwnerOf(member, FingerStart(joiner, idx + 1), tempB)
    BY <1>1, <1>2, <2>1 DEF IInv, Walking, OwnerFound, FingersInv, LoopsTrack
  <2> QED BY <1>3, <2>1, <2>2
<1> QED BY <1>4, <1>5, <1>6

LEMMA LinkPredFingers ==
  ASSUME IInv, IInv', FingersInv, LinkPred
  PROVE  FingersInv'
<1>1. /\ pc = "fill" /\ pc' = "linksucc" /\ idx = FTLEN - 1 /\ member' = member
      /\ joiner' = joiner /\ dsucc' = dsucc /\ succ' = succ /\ ft' = ft
  BY DEF LinkPred
<1>2. JoinersFingers' /\ LoopsTrack'
  BY <1>1 DEF JoinersFingers, LoopsTrack, UpdatesOthers, Finger, FingersInv
<1> QED BY <1>1, <1>2, OutsideFingers DEF FingersInv

\* The step that lets the joiner in.
LEMMA LinkSuccFingers ==
  ASSUME IInv, IInv', FingersInv, LinkSucc
  PROVE  FingersInv'
<1>1. /\ pc = "linksucc" /\ pc' = "askdsucc" /\ Linking /\ Linked = member
      /\ member' = member /\ joiner' = joiner /\ dsucc' = dsucc
      /\ joiner \in Node \ member /\ succ[joiner] \in member
      /\ ~UpdatesOthers /\ ~UpdatesOthers'
  BY Basics DEF LinkSucc, Linking, Linked, Entered, UpdatesOthers, IInv, Place, OwnerOf
<1>2. pred[joiner] \in member /\ pred[joiner] # joiner
  BY <1>1 DEF IInv, RingCorrect, PrevOf
<1>3. /\ succ'[joiner] = succ[joiner] /\ ft'[joiner] = ft[joiner]
      /\ \A n \in member, i \in Finger \ {1} : ft'[n][i] = ft[n][i]
  BY <1>1, <1>2, Basics DEF LinkSucc, SetSucc
<1>4. \A n \in member : \/ succ'[n] = succ[n]
                        \/ succ'[n] = joiner /\ succ[joiner] = succ[n]
  BY <1>1, LinkSuccKeeps
<1>5. NextWithout' = NextWithout
  BY <1>1, <1>3, <1>4, NextWithoutFacts DEF NextWithout, Entered
<1>6. DoubleSuccsTrack'
  BY <1>1, <1>5, DoubleQuiet
<1>7. FingersPastStart(member)' /\ MembersFingers'
  BY <1>1, <1>3, FingersQuiet
<1>8. JoinersFingers' /\ LoopsTrack'
  BY <1>1, <1>3 DEF JoinersFingers, LoopsTrack, UpdatesOthers, FingersInv
<1> QED BY <1>6, <1>7, <1>8 DEF FingersInv
(****************************************************************************)
(* The steps after the joiner was let in.                                   *)
(****************************************************************************)

LEMMA InsideFacts ==
  ASSUME IInv, Entered
  PROVE  /\ Linked = member \cup {joiner} /\ joiner \in Id \ member /\ joiner \in Linked
         /\ member \in SUBSET Id /\ Linked \in SUBSET Id /\ member \subseteq Node
         /\ ft \in [Node -> [Finger -> Node]] /\ 1 \in Finger
         /\ \A n \in member : ft[n][1] = succ[n] /\ \A i \in Finger : ft[n][i] \in Linked
         /\ \A n \in Linked : PrevOf(Linked, n, pred[n]) /\ pred[n] \in Linked /\ pred[n] # n
<1>1. Linked = member \cup {joiner} /\ joiner \in Linked
  BY Inside
<1>2. joiner \in Id \ member /\ member \in SUBSET Id /\ Linked \in SUBSET Id /\ member \subseteq Node
      /\ ft \in [Node -> [Finger -> Node]] /\ 1 \in Finger
  BY Basics DEF Entered
<1>3. \A n \in member : ft[n][1] = succ[n] /\ \A i \in Finger : ft[n][i] \in Linked
  BY <1>1 DEF IInv, FingersUsable
<1>4. \A n \in Linked : PrevOf(Linked, n, pred[n]) /\ pred[n] \in Linked /\ pred[n] # n
  BY Inside
<1> QED BY <1>1, <1>2, <1>3, <1>4

LEMMA AskDoubleSuccFingers ==
  ASSUME IInv, IInv', FingersInv, AskDoubleSucc
  PROVE  FingersInv'
<1>1. /\ pc = "askdsucc" /\ pc' = "others" /\ idx' = 1 /\ member' = member /\ joiner' = joiner
      /\ succ' = succ /\ Entered /\ Linked' = Linked /\ ~UpdatesOthers /\ UpdatesOthers'
      /\ lpc' = lpc
  BY DEF AskDoubleSucc, lookVars, Entered, Linked, UpdatesOthers
<1>2. /\ Linked = member \cup {joiner} /\ joiner \in Id \ member /\ member \in SUBSET Id
      /\ Linked \in SUBSET Id /\ joiner \in Linked /\ member \subseteq Node
      /\ ft \in [Node -> [Finger -> Node]]
  BY <1>1, InsideFacts
<1>3. NextOf(Linked, joiner, succ[joiner])
  BY <1>1, <1>2, Inside
<1>4. joiner \in Node
  BY <1>1, Basics DEF Entered
<1>5. /\ \A n \in member : ft'[n] = ft[n] /\ dsucc'[n] = dsucc[n]
      /\ \A i \in Finger : ft'[joiner][i] =
           IF ft[joiner][i] = succ[joiner] /\ NotInRange(FingerStart(joiner, i), joiner, succ[joiner])
             THEN joiner ELSE ft[joiner][i]
  BY <1>2, <1>4, Basics DEF AskDoubleSucc
<1>6. \A i \in Finger : OwnerOf(Linked, FingerStart(joiner, i), ft'[joiner][i])
  <2> TAKE i \in Finger
  <2> DEFINE st == FingerStart(joiner, i)
             f == ft[joiner][i]
  <2>1. OwnerOf(member, st, f)
    BY <1>1 DEF FingersInv, JoinersFingers
  <2>2. st \in Id /\ st # joiner
    BY <1>2, StartFacts
  <2>3. NextOf(member \cup {joiner}, joiner, succ[joiner])
    BY <1>2, <1>3
  <2>4. IF f = succ[joiner] /\ NotInRange(st, joiner, succ[joiner])
          THEN Dist(st, joiner) <= Dist(st, f) ELSE Dist(st, f) <= Dist(st, joiner)
    BY <1>2, <2>1, <2>2, <2>3, OwnerAfterEntry
  <2>5. CASE f = succ[joiner] /\ NotInRange(st, joiner, succ[joiner])
    <3>1. OwnerOf(member \cup {joiner}, st, joiner)
      BY <2>1, <2>2, <2>4, <2>5, <1>2, OwnerChanges
    <3> QED BY <3>1, <2>5, <1>2, <1>5
  <2>6. CASE ~(f = succ[joiner] /\ NotInRange(st, joiner, succ[joiner]))
    <3>1. OwnerOf(member \cup {joiner}, st, f)
      BY <2>1, <2>2, <2>4, <2>6, <1>2, OwnerStays
    <3> QED BY <3>1, <2>6, <1>2, <1>5
  <2> QED BY <2>5, <2>6
<1>7. JoinersFingers' /\ LoopsTrack'
  BY <1>1, <1>6 DEF JoinersFingers, LoopsTrack, UpdatesOthers
<1>8. FingersPastStart(member)'
  BY <1>1, <1>5 DEF FingersInv, FingersPastStart
<1>9. MembersFingers'
  <2>1. \A n \in member, i \in Finger \ {1} : ft[n][i] \in member /\ FingerRight(member, n, i)
    BY <1>1 DEF FingersInv, MembersFingers, Updated
  <2>2. \A n \in member, i \in Finger \ {1} : ~Updated(n, i)'
    BY <1>1 DEF Updated, Finger
  <2> QED BY <2>1, <2>2, <1>1, <1>5 DEF MembersFingers, FingerRight
<1>10. NextWithout' = NextWithout
  BY <1>1 DEF NextWithout
<1>11. DoubleSuccsTrack'
  BY <1>1, <1>5, <1>10, DoubleQuiet
<1> QED BY <1>7, <1>8, <1>9, <1>11 DEF FingersInv

\* A step of UpdateOthers that changes neither the ring nor the joiner's table.
LEMMA OthersQuiet ==
  ASSUME IInv, FingersInv, pc \in {"others", "update"}, pc' \in {"others", "update"},
         member' = member, joiner' = joiner, succ' = succ, dsucc' = dsucc,
         ft'[joiner] = ft[joiner]
  PROVE  Linked' = Linked /\ JoinersFingers' /\ DoubleSuccsTrack'
<1>1. Linked' = Linked /\ UpdatesOthers /\ UpdatesOthers'
  BY DEF Linked, Entered, UpdatesOthers
<1>2. NextWithout' = NextWithout
  BY DEF NextWithout
<1> QED BY <1>1, <1>2, DoubleQuiet DEF FingersInv, JoinersFingers

\* A finger no step of UpdateOthers for i touches is right with the joiner too.
LEMMA FingerStays ==
  ASSUME IInv, Entered, NEW CONSTANT n \in member, NEW CONSTANT i \in Finger,
         FingerRight(member, n, i),
         FingerStart(n, i) \notin Linked =>
           Dist(FingerStart(n, i), ft[n][i]) <= Dist(FingerStart(n, i), joiner)
  PROVE  FingerRight(Linked, n, i)
<1>1. Linked = member \cup {joiner} /\ joiner \in Id /\ member \in SUBSET Id /\ n \in Id
  BY InsideFacts
<1>2. FingerStart(n, i) \in Id
  BY <1>1, StartFacts
<1> QED BY <1>1, <1>2, OwnerStays DEF FingerRight

\* In particular one of a client the joiner is too near to.
LEMMA FingerTooNear ==
  ASSUME IInv, Entered, NEW CONSTANT n \in member, NEW CONSTANT i \in Finger,
         FingerRight(member, n, i), Dist(n, joiner) <= 2 ^ (i - 1)
  PROVE  FingerRight(Linked, n, i)
<1>1. /\ Linked = member \cup {joiner} /\ joiner \in Id \ member /\ member \in SUBSET Id
      /\ n \in Id /\ joiner # n
  BY InsideFacts
<1>2. FingerStart(n, i) \in Id /\ Dist(n, FingerStart(n, i)) = 2 ^ (i - 1)
  BY <1>1, StartFacts
<1>3. ASSUME FingerStart(n, i) \notin Linked
      PROVE  Dist(FingerStart(n, i), ft[n][i]) <= Dist(FingerStart(n, i), joiner)
  <2>1. OwnerOf(member, FingerStart(n, i), ft[n][i]) /\ joiner # FingerStart(n, i)
    BY <1>1, <1>3 DEF FingerRight
  <2>2. Dist(n, joiner) <= Dist(n, FingerStart(n, i))
    BY <1>2
  <2> QED BY <1>1, <1>2, <2>1, <2>2, NewcomerTooNear
<1> QED BY <1>3, FingerStays

LEMMA OthersLookupFingers ==
  ASSUME IInv, IInv', FingersInv, OthersLookup
  PROVE  FingersInv'
<1>1. /\ pc = "others" /\ pc' = "others" /\ UNCHANGED <<member, succ, pred, ft, dsucc, joiner, idx, target>>
  BY DEF OthersLookup, ringVars, joinVars
<1>2. Linked' = Linked /\ JoinersFingers' /\ DoubleSuccsTrack'
  BY <1>1, OthersQuiet
<1>3. FingersPastStart(member)' /\ LoopsTrack'
  BY <1>1 DEF FingersInv, FingersPastStart, LoopsTrack
<1>4. MembersFingers'
  BY <1>1, <1>2 DEF FingersInv, MembersFingers, FingerRight, Updated, UpdatesOthers
<1> QED BY <1>2, <1>3, <1>4 DEF FingersInv

\* What the lookup for index i tells: the clients between target and the joiner
\* need no finger changed.
LEMMA OthersFoundFingers ==
  ASSUME IInv, IInv', FingersInv, OthersSkip \/ OthersTarget
  PROVE  FingersInv'
<1>1. /\ pc = "others" /\ lpc = "done" /\ pc' \in {"others", "update"}
      /\ UNCHANGED <<member, succ, pred, ft, dsucc, joiner>>
      /\ Entered /\ UpdatesOthers /\ UpdatesOthers'
      /\ idx \in Nat /\ idx >= 1 /\ idx < FTLEN /\ FTLEN \in Nat
  BY FingerAssumption DEF OthersSkip, OthersTarget, TakeFound, ringVars, Entered,
     UpdatesOthers, IInv, TypeOK, Walking
<1>2. Linked' = Linked /\ JoinersFingers' /\ DoubleSuccsTrack'
  BY <1>1, OthersQuiet
<1>3. FingersPastStart(member)'
  BY <1>1 DEF FingersInv, FingersPastStart
<1>4. /\ Linked = member \cup {joiner} /\ joiner \in Id \ member /\ joiner \in Linked
      /\ member \in SUBSET Id /\ Linked \in SUBSET Id
      /\ idx \in Finger
  BY <1>1, InsideFacts DEF Finger
<1> DEFINE id == RingMinus(joiner, 2 ^ (idx - 1))
           p == pred[tempB]
<1>5. id \in Id /\ Dist(id, joiner) = 2 ^ (idx - 1) /\ 2 ^ (idx - 1) \in Nat
  BY <1>4, StartFacts
<1>6. OwnerOf(Linked, id, tempB)
  BY <1>1 DEF IInv, Walking, OwnerFound
<1>7. PrevOf(Linked, tempB, p) /\ p # tempB /\ p \in Linked
  BY <1>1, <1>6, InsideFacts DEF OwnerOf
<1>8. /\ p # joiner => /\ Dist(p, joiner) > 2 ^ (idx - 1)
                       /\ \A n \in member : Dist(n, joiner) < Dist(p, joiner)
                                              => Dist(n, joiner) <= 2 ^ (idx - 1)
      /\ p = joiner => \A n \in member : Dist(n, joiner) <= 2 ^ (idx - 1)
  <2>1. /\ p # joiner => /\ Dist(p, joiner) > Dist(id, joiner)
                         /\ \A n \in Linked \ {joiner} : Dist(n, joiner) < Dist(p, joiner)
                                              => Dist(n, joiner) <= Dist(id, joiner)
        /\ p = joiner => \A n \in Linked \ {joiner} : Dist(n, joiner) <= Dist(id, joiner)
    BY <1>4, <1>5, <1>6, <1>7, PrevOfOwner
  <2> QED BY <2>1, <1>4, <1>5
<1>9. CASE OthersSkip
  <2>1. p = joiner /\ pc' = "others" /\ idx' = idx + 1
    BY <1>9, <1>1 DEF OthersSkip
  <2>2. MembersFingers'
    <3> SUFFICES ASSUME NEW n \in member, NEW i \in Finger \ {1}
                 PROVE  IF i < idx + 1 THEN FingerRight(Linked, n, i)
                          ELSE ft[n][i] \in member /\ FingerRight(member, n, i)
      BY <1>1, <1>2, <2>1 DEF MembersFingers, Updated, FingerRight
    <3>1. IF i < idx THEN FingerRight(Linked, n, i)
            ELSE ft[n][i] \in member /\ FingerRight(member, n, i)
      BY <1>1 DEF FingersInv, MembersFingers, Updated
    <3>2. CASE i = idx
      <4>1. i \in Finger /\ Dist(n, joiner) <= 2 ^ (i - 1) /\ FingerRight(member, n, i)
        BY <3>1, <3>2, <1>1, <1>8, <2>1
      <4> QED BY <4>1, <3>2, <1>1, FingerTooNear
    <3>3. CASE i # idx
      BY <3>1, <3>3, <1>1 DEF Finger
    <3> QED BY <3>2, <3>3
  <2>3. LoopsTrack'
    BY <2>1 DEF LoopsTrack
  <2> QED BY <1>2, <1>3, <2>2, <2>3 DEF FingersInv
<1>10. CASE OthersTarget
  <2>1. p # joiner /\ pc' = "update" /\ idx' = idx /\ target' = p
    BY <1>10, <1>1 DEF OthersTarget
  <2>2. MembersFingers'
    <3> SUFFICES ASSUME NEW n \in member, NEW i \in Finger \ {1}
                 PROVE  IF i < idx \/ (i = idx /\ Dist(n, joiner) < Dist(p, joiner))
                          THEN FingerRight(Linked, n, i)
                          ELSE ft[n][i] \in member /\ FingerRight(member, n, i)
      BY <1>1, <1>2, <2>1 DEF MembersFingers, Updated, FingerRight
    <3>1. IF i < idx THEN FingerRight(Linked, n, i)
            ELSE ft[n][i] \in member /\ FingerRight(member, n, i)
      BY <1>1 DEF FingersInv, MembersFingers, Updated
    <3>2. CASE i = idx /\ Dist(n, joiner) < Dist(p, joiner)
      <4>1. i \in Finger /\ Dist(n, joiner) <= 2 ^ (i - 1) /\ FingerRight(member, n, i)
        BY <3>1, <3>2, <1>1, <1>8, <2>1
      <4>2. FingerRight(Linked, n, i)
        BY <4>1, <1>1, FingerTooNear
      <4> QED BY <4>2, <3>2
    <3> QED BY <3>1, <3>2
  <2>3. LoopsTrack'
    BY <2>1, <1>1, <1>8 DEF LoopsTrack
  <2> QED BY <1>2, <1>3, <2>2, <2>3 DEF FingersInv
<1> QED BY <1>9, <1>10
\* Index 1 changes nothing.
LEMMA UpdateSuccFingers ==
  ASSUME IInv, IInv', FingersInv, UpdateSucc
  PROVE  FingersInv'
<1>1. /\ pc = "update" /\ pc' = "others" /\ idx = 1 /\ idx' = 2
      /\ UNCHANGED <<member, succ, pred, ft, dsucc, joiner, target>>
      /\ UpdatesOthers /\ UpdatesOthers'
  BY UpdateSuccKeeps DEF UpdateSucc, UpdatesOthers
<1>2. Linked' = Linked /\ JoinersFingers' /\ DoubleSuccsTrack'
  BY <1>1, OthersQuiet
<1>3. FingersPastStart(member)' /\ LoopsTrack'
  BY <1>1 DEF FingersInv, FingersPastStart, LoopsTrack
<1>4. \A n \in member, i \in Finger \ {1} : ~Updated(n, i) /\ ~Updated(n, i)'
  BY <1>1, FingerAssumption DEF Updated, Finger
<1>5. MembersFingers'
  BY <1>1, <1>4 DEF FingersInv, MembersFingers, FingerRight
<1> QED BY <1>2, <1>3, <1>5 DEF FingersInv

\* Where the chain of UPDTQs stands, and what it knows of target's finger.
LEMMA ChainFacts ==
  ASSUME IInv, FingersInv, pc = "update", idx > 1
  PROVE  /\ Entered /\ UpdatesOthers /\ idx \in Finger \ {1} /\ idx < FTLEN /\ idx \in Nat
         /\ target \in member /\ target \in Node /\ joiner \in Node
         /\ Dist(target, joiner) > 2 ^ (idx - 1)
         /\ FingerStart(target, idx) \in Id /\ FingerStart(target, idx) # target
         /\ Dist(target, FingerStart(target, idx)) = 2 ^ (idx - 1)
         /\ Dist(FingerStart(target, idx), ft[target][idx])
              <= Dist(FingerStart(target, idx), target)
         /\ ft[target][idx] \in member /\ ft[target][idx] # joiner
         /\ FingerRight(member, target, idx)
<1>1. Entered /\ UpdatesOthers
  BY DEF Entered, UpdatesOthers
<1>2. idx \in Finger \ {1} /\ idx < FTLEN /\ idx \in Nat
  BY FingerAssumption DEF IInv, TypeOK, Updating, Finger
<1>3. target \in member /\ target \in Node /\ joiner \in Node
  BY <1>1, InsideFacts, Basics DEF IInv, Updating, Entered
<1>4. Dist(target, joiner) > 2 ^ (idx - 1)
  BY DEF FingersInv, LoopsTrack
<1>5. /\ FingerStart(target, idx) \in Id /\ FingerStart(target, idx) # target
      /\ Dist(target, FingerStart(target, idx)) = 2 ^ (idx - 1)
  BY <1>1, <1>2, <1>3, InsideFacts, StartFacts
<1>6. Dist(FingerStart(target, idx), ft[target][idx]) <= Dist(FingerStart(target, idx), target)
  BY <1>2, <1>3 DEF FingersInv, FingersPastStart
<1>7. ~Updated(target, idx)
  <2>1. Dist(target, joiner) \in Nat
    BY <1>1, <1>3, InsideFacts, DistFacts
  <2> QED BY <2>1, <1>2 DEF Updated
<1>8. ft[target][idx] \in member /\ FingerRight(member, target, idx)
  BY <1>2, <1>3, <1>7 DEF FingersInv, MembersFingers
<1> QED BY <1>1, <1>2, <1>3, <1>4, <1>5, <1>6, <1>8, InsideFacts

\* target takes the joiner for its finger: it points past its start and is right.
LEMMA TargetTakesJoiner ==
  ASSUME IInv, FingersInv, pc = "update", idx > 1, InRangeA(target, joiner, ft[target][idx]),
         ft' = [ft EXCEPT ![target][idx] = joiner], member' = member, Linked' = Linked
  PROVE  /\ FingersPastStart(member)' /\ ft'[joiner] = ft[joiner]
         /\ \A n \in member, i \in Finger :
              IF n = target /\ i = idx THEN FingerRight(Linked, n, i)' ELSE ft'[n][i] = ft[n][i]
<1> DEFINE st == FingerStart(target, idx)
           f == ft[target][idx]
<1>1. /\ Linked = member \cup {joiner} /\ joiner \in Id \ member /\ member \in SUBSET Id
      /\ target \in member /\ target \in Id /\ f \in member /\ f \in Id /\ idx \in Finger
      /\ member \subseteq Node
  BY ChainFacts, InsideFacts
<1>2. /\ st \in Id /\ st # target /\ Dist(target, joiner) > Dist(target, st)
      /\ Dist(st, f) <= Dist(st, target)
  BY ChainFacts
<1>3. /\ ft'[target][idx] = joiner /\ ft'[joiner] = ft[joiner]
      /\ \A n \in member, i \in Finger : n # target \/ i # idx => ft'[n][i] = ft[n][i]
  BY <1>1, Basics
<1>4. Dist(st, joiner) <= Dist(st, f)
  BY <1>1, <1>2, NewcomerIsBetter
<1>5. Dist(st, joiner) <= Dist(st, target)
  BY <1>1, <1>2, <1>4, DistFacts
<1>6. FingersPastStart(member)'
  <2>1. \A n \in member, i \in Finger :
          Dist(FingerStart(n, i), ft'[n][i]) <= Dist(FingerStart(n, i), n)
    <3> TAKE n \in member, i \in Finger
    <3>1. CASE n = target /\ i = idx
      BY <3>1, <1>3, <1>5
    <3>2. CASE n # target \/ i # idx
      BY <3>2, <1>3 DEF FingersInv, FingersPastStart
    <3> QED BY <3>1, <3>2
  <2> QED BY <2>1 DEF FingersPastStart
<1>7. ASSUME st \notin Linked PROVE OwnerOf(Linked, st, joiner)
  <2>1. OwnerOf(member, st, f)
    BY <1>1, <1>7, ChainFacts DEF FingerRight
  <2>2. OwnerOf(member \cup {joiner}, st, joiner)
    BY <2>1, <1>1, <1>2, <1>4, OwnerChanges
  <2> QED BY <2>2, <1>1
<1>8. ASSUME NEW n \in member, NEW i \in Finger, n = target, i = idx
      PROVE  FingerRight(Linked, n, i)'
  BY <1>3, <1>7, <1>8 DEF FingerRight
<1> QED BY <1>3, <1>6, <1>8
\* The chain goes on: nobody is between target and its predecessor.
LEMMA UpdateForwardFingers ==
  ASSUME IInv, IInv', FingersInv, UpdateForward
  PROVE  FingersInv'
<1> DEFINE p == pred[target]
<1>1. /\ pc = "update" /\ pc' = "update" /\ idx > 1 /\ idx' = idx /\ p # joiner /\ target' = p
      /\ UNCHANGED <<member, succ, pred, dsucc, joiner>>
      /\ InRangeA(target, joiner, ft[target][idx])
      /\ ft' = [ft EXCEPT ![target][idx] = joiner]
      /\ Entered /\ UpdatesOthers /\ UpdatesOthers' /\ Linked' = Linked
  BY DEF UpdateForward, UpdatesOthers, Linked, Entered
<1>2. /\ FingersPastStart(member)' /\ ft'[joiner] = ft[joiner]
      /\ \A n \in member, i \in Finger :
           IF n = target /\ i = idx THEN FingerRight(Linked, n, i)' ELSE ft'[n][i] = ft[n][i]
  BY <1>1, TargetTakesJoiner
<1>3. JoinersFingers' /\ DoubleSuccsTrack'
  BY <1>1, <1>2, OthersQuiet
<1>4. /\ Linked = member \cup {joiner} /\ joiner \in Id \ member /\ joiner \in Linked
      /\ member \in SUBSET Id /\ Linked \in SUBSET Id
      /\ target \in member /\ target \in Linked \ {joiner}
      /\ PrevOf(Linked, target, p) /\ p \in Linked
      /\ Dist(target, joiner) > 2 ^ (idx - 1) /\ idx \in Finger
      /\ 2 ^ (idx - 1) \in Nat
  BY <1>1, InsideFacts, ChainFacts, StartFacts
<1>5. /\ Dist(p, joiner) > Dist(target, joiner)
      /\ \A n \in Linked \ {joiner} :
           Dist(n, joiner) < Dist(p, joiner) => Dist(n, joiner) <= Dist(target, joiner)
  BY <1>1, <1>4, PrevIsFurther
<1>6. /\ Dist(target, joiner) \in Nat /\ Dist(p, joiner) \in Nat
      /\ \A n \in member : Dist(n, joiner) \in Nat
  BY <1>4, DistFacts
<1>7. MembersFingers'
  <2> SUFFICES ASSUME NEW n \in member, NEW i \in Finger \ {1}
               PROVE  IF i < idx \/ (i = idx /\ Dist(n, joiner) < Dist(p, joiner))
                        THEN FingerRight(Linked, n, i)'
                        ELSE ft'[n][i] \in member /\ FingerRight(member, n, i)'
    BY <1>1 DEF MembersFingers, Updated
  <2>1. IF i < idx \/ (i = idx /\ Dist(n, joiner) < Dist(target, joiner))
          THEN FingerRight(Linked, n, i)
          ELSE ft[n][i] \in member /\ FingerRight(member, n, i)
    BY <1>1 DEF FingersInv, MembersFingers, Updated
  <2>2. CASE n = target /\ i = idx
    <3>1. FingerRight(Linked, n, i)'
      BY <2>2, <1>2
    <3>2. Dist(n, joiner) < Dist(p, joiner)
      BY <2>2, <1>5, <1>6
    <3> QED BY <3>1, <3>2, <2>2
  <2>3. CASE ~(n = target /\ i = idx)
    <3>1. ft'[n][i] = ft[n][i]
      BY <2>3, <1>2
    <3>2. i = idx => (Dist(n, joiner) < Dist(p, joiner) <=> Dist(n, joiner) < Dist(target, joiner))
      <4>1. SUFFICES ASSUME n # target
                     PROVE  Dist(n, joiner) < Dist(p, joiner) <=> Dist(n, joiner) < Dist(target, joiner)
        BY <2>3
      <4>2. Dist(n, joiner) # Dist(target, joiner)
        BY <4>1, <1>4, HashMaxAssumption DEF Dist, Id
      <4>3. n \in Linked \ {joiner}
        BY <1>4
      <4> QED BY <4>2, <4>3, <1>5, <1>6
    <3>3. /\ FingerRight(Linked, n, i)' <=> FingerRight(Linked, n, i)
          /\ FingerRight(member, n, i)' <=> FingerRight(member, n, i)
      BY <3>1, <1>1 DEF FingerRight
    <3> QED BY <2>1, <3>1, <3>2, <3>3
  <2> QED BY <2>2, <2>3
<1>8. LoopsTrack'
  <2>1. Dist(p, joiner) > 2 ^ (idx - 1)
    BY <1>4, <1>5, <1>6
  <2> QED BY <2>1, <1>1 DEF LoopsTrack
<1> QED BY <1>2, <1>3, <1>7, <1>8 DEF FingersInv

\* The chain ends: at the last client below the joiner, or because target keeps
\* its finger, and then so may everybody further down.
LEMMA UpdateEndFingers ==
  ASSUME IInv, IInv', FingersInv, UpdateEnd
  PROVE  FingersInv'
<1>1. /\ pc = "update" /\ pc' = "others" /\ idx > 1 /\ idx' = idx + 1
      /\ UNCHANGED <<member, succ, pred, dsucc, joiner>>
      /\ Entered /\ UpdatesOthers /\ UpdatesOthers' /\ Linked' = Linked
  BY DEF UpdateEnd, UpdatesOthers, Linked, Entered
<1>2. /\ Linked = member \cup {joiner} /\ joiner \in Id \ member /\ joiner \in Linked
      /\ member \in SUBSET Id /\ Linked \in SUBSET Id
      /\ target \in member /\ target \in Linked \ {joiner}
      /\ PrevOf(Linked, target, pred[target])
      /\ idx \in Finger \ {1} /\ idx \in Nat
      /\ Dist(target, joiner) \in Nat /\ \A n \in member : Dist(n, joiner) \in Nat
  BY <1>1, InsideFacts, ChainFacts, DistFacts
<1>3. \A n \in member, i \in Finger \ {1} :
        IF i < idx \/ (i = idx /\ Dist(n, joiner) < Dist(target, joiner))
          THEN FingerRight(Linked, n, i)
          ELSE ft[n][i] \in member /\ FingerRight(member, n, i)
  BY <1>1 DEF FingersInv, MembersFingers, Updated
<1>4. SUFFICES /\ FingersPastStart(member)' /\ ft'[joiner] = ft[joiner]
               /\ \A n \in member, i \in Finger :
                    IF i = idx THEN FingerRight(Linked, n, i)' ELSE ft'[n][i] = ft[n][i]
  <2> SUFFICES ASSUME FingersPastStart(member)', ft'[joiner] = ft[joiner],
                      \A n \in member, i \in Finger :
                        IF i = idx THEN FingerRight(Linked, n, i)' ELSE ft'[n][i] = ft[n][i]
               PROVE  FingersInv'
    OBVIOUS
  <2>1. JoinersFingers' /\ DoubleSuccsTrack' /\ LoopsTrack'
    BY <1>1, OthersQuiet DEF LoopsTrack
  <2>2. MembersFingers'
    <3> SUFFICES ASSUME NEW n \in member, NEW i \in Finger \ {1}
                 PROVE  IF i < idx + 1 THEN FingerRight(Linked, n, i)'
                          ELSE ft'[n][i] \in member /\ FingerRight(member, n, i)'
      BY <1>1 DEF MembersFingers, Updated
    <3>1. CASE i = idx
      BY <3>1, <1>2
    <3>2. CASE i # idx
      <4>1. i < idx + 1 <=> i < idx
        BY <3>2, <1>2 DEF Finger
      <4>2. ft'[n][i] = ft[n][i]
        BY <3>2
      <4>3. /\ FingerRight(Linked, n, i)' <=> FingerRight(Linked, n, i)
            /\ FingerRight(member, n, i)' <=> FingerRight(member, n, i)
        BY <4>2, <1>1 DEF FingerRight
      <4> QED BY <3>2, <4>1, <4>2, <4>3, <1>3
    <3> QED BY <3>1, <3>2
  <2> QED BY <2>1, <2>2 DEF FingersInv
<1>5. CASE InRangeA(target, joiner, ft[target][idx])
  <2>1. ft' = [ft EXCEPT ![target][idx] = joiner] /\ pred[target] = joiner
    BY <1>5 DEF UpdateEnd
  <2>2. /\ FingersPastStart(member)' /\ ft'[joiner] = ft[joiner]
        /\ \A n \in member, i \in Finger :
             IF n = target /\ i = idx THEN FingerRight(Linked, n, i)' ELSE ft'[n][i] = ft[n][i]
    BY <1>1, <1>5, <2>1, TargetTakesJoiner
  <2>3. ASSUME NEW n \in member, n # target
        PROVE  Dist(n, joiner) < Dist(target, joiner)
    <3>1. Dist(n, joiner) <= Dist(target, joiner)
      BY <1>2, <2>1, PrevIsFurther
    <3>2. Dist(n, joiner) # Dist(target, joiner)
      BY <2>3, <1>2, HashMaxAssumption DEF Dist, Id
    <3> QED BY <3>1, <3>2, <1>2
  <2>4. ASSUME NEW n \in member, NEW i \in Finger, i = idx
        PROVE  FingerRight(Linked, n, i)'
    <3>1. CASE n = target
      BY <2>2, <2>4, <3>1
    <3>2. CASE n # target
      <4>1. FingerRight(Linked, n, i) /\ ft'[n][i] = ft[n][i]
        BY <2>2, <2>3, <2>4, <3>2, <1>2, <1>3
      <4> QED BY <4>1, <1>1 DEF FingerRight
    <3> QED BY <3>1, <3>2
  <2> QED BY <2>2, <2>4
<1>6. CASE ~InRangeA(target, joiner, ft[target][idx])
  <2>1. ft' = ft
    BY <1>6 DEF UpdateEnd
  <2>2. FingersPastStart(member)'
    BY <1>1, <2>1 DEF FingersInv, FingersPastStart
  <2> DEFINE st == FingerStart(target, idx)
             f == ft[target][idx]
  <2>3. /\ f \in member /\ st \in Id /\ Dist(target, joiner) > Dist(target, st)
        /\ Dist(st, f) <= Dist(st, target) /\ Dist(target, st) = 2 ^ (idx - 1)
        /\ target \in Id
    BY <1>1, <1>2, ChainFacts
  <2>4. ASSUME NEW n \in member, NEW i \in Finger, i = idx
        PROVE  FingerRight(Linked, n, i)'
    <3>1. CASE Dist(n, joiner) < Dist(target, joiner)
      <4>1. FingerRight(Linked, n, i)
        BY <2>4, <3>1, <1>2, <1>3
      <4> QED BY <4>1, <1>1, <2>1 DEF FingerRight
    <3>2. CASE ~(Dist(n, joiner) < Dist(target, joiner))
      <4> DEFINE sn == FingerStart(n, i)
                 fn == ft[n][i]
      <4>1. FingerRight(member, n, i) /\ Dist(n, joiner) >= Dist(target, joiner)
        BY <2>4, <3>2, <1>2, <1>3
      <4>2. n \in Id /\ sn \in Id /\ Dist(n, sn) = Dist(target, st)
        BY <2>3, <2>4, <1>2, StartFacts
      <4>3. ASSUME sn \notin Linked PROVE Dist(sn, fn) <= Dist(sn, joiner)
        <5>1. OwnerOf(member, sn, fn)
          BY <4>1, <4>3, <1>2 DEF FingerRight
        <5> HIDE DEF sn, fn, st, f
        <5> QED BY <5>1, <4>1, <4>2, <2>3, <1>2, <1>6, NewcomerIsNoBetter DEF f
      <4>4. FingerRight(Linked, n, i)
        BY <4>1, <4>3, <1>1, FingerStays
      <4> QED BY <4>4, <1>1, <2>1 DEF FingerRight
    <3> QED BY <3>1, <3>2
  <2> QED BY <2>1, <2>2, <2>4
<1> QED BY <1>5, <1>6
(****************************************************************************)
(* The end of UpdateOthers.                                                 *)
(****************************************************************************)

\* All members and the joiner have right fingers when the joiner reports.
LEMMA LastStepsFingers ==
  ASSUME IInv, FingersInv,
         PredsDoubleSucc \/ SetPredsDoubleSucc \/ AskDoublePred
           \/ SetDoublePredsDoubleSucc \/ JoinDone
  PROVE  FingersPastStart(member)' /\ MembersFingers' /\ JoinersFingers' /\ LoopsTrack'
<1>1. /\ pc \in {"others", "predsdsucc", "askdpred", "dpredsdsucc"} /\ Entered /\ UpdatesOthers
      /\ idx = FTLEN
      /\ UNCHANGED <<succ, pred, ft, idx>>
      /\ \/ member' = member /\ joiner' = joiner
            /\ pc' \in {"predsdsucc", "askdpred", "dpredsdsucc"}
         \/ member' = Linked /\ joiner' = NoNode /\ pc' = "idle"
  BY DEF PredsDoubleSucc, SetPredsDoubleSucc, AskDoublePred, SetDoublePredsDoubleSucc,
     JoinDone, Report, lookVars, ringVars, Entered, Linked, UpdatesOthers, FingersInv, LoopsTrack
<1>2. \A n \in member, i \in Finger \ {1} : FingerRight(Linked, n, i)
  BY <1>1, FingerAssumption DEF FingersInv, MembersFingers, Updated, Finger
<1>3. LoopsTrack'
  BY <1>1 DEF LoopsTrack
<1>4. \A i \in Finger : OwnerOf(Linked, FingerStart(joiner, i), ft[joiner][i])
  BY <1>1 DEF FingersInv, JoinersFingers
<1>5. CASE member' = member /\ joiner' = joiner /\ pc' \in {"predsdsucc", "askdpred", "dpredsdsucc"}
  <2>1. Linked' = Linked /\ UpdatesOthers'
    BY <1>1, <1>5 DEF Linked, Entered, UpdatesOthers
  <2>2. FingersPastStart(member)' /\ JoinersFingers'
    BY <1>1, <1>4, <1>5, <2>1 DEF FingersInv, FingersPastStart, JoinersFingers
  <2>3. \A n \in member, i \in Finger \ {1} : Updated(n, i)'
    BY <1>1, <2>1, FingerAssumption DEF Updated, Finger
  <2>4. MembersFingers'
    BY <1>1, <1>2, <1>5, <2>1, <2>3 DEF MembersFingers, FingerRight
  <2> QED BY <1>3, <2>2, <2>4
<1>6. CASE member' = Linked /\ joiner' = NoNode /\ pc' = "idle"
  <2>1. ~UpdatesOthers' /\ JoinersFingers'
    BY <1>6 DEF UpdatesOthers, JoinersFingers
  <2>2. /\ Linked = member \cup {joiner} /\ joiner \in Linked
        /\ \A n \in member, i \in Finger : ft[n][i] \in Linked
    BY <1>1, InsideFacts
  <2>3. FingersPastStart(member)'
    <3>1. \A i \in Finger : Dist(FingerStart(joiner, i), ft[joiner][i])
                              <= Dist(FingerStart(joiner, i), joiner)
      BY <1>4, <2>2 DEF OwnerOf
    <3>2. \A n \in Linked, i \in Finger : Dist(FingerStart(n, i), ft[n][i])
                                            <= Dist(FingerStart(n, i), n)
      BY <3>1, <2>2 DEF FingersInv, FingersPastStart
    <3> QED BY <3>2, <1>1, <1>6 DEF FingersPastStart
  <2>4. \A n \in Linked, i \in Finger \ {1} : ft[n][i] \in Linked /\ FingerRight(Linked, n, i)
    BY <1>2, <1>4, <2>2 DEF FingerRight, OwnerOf
  <2>5. \A n \in Linked, i \in Finger \ {1} : FingerRight(member, n, i)'
    BY <2>4, <1>1, <1>6 DEF FingerRight
  <2>6. MembersFingers'
    BY <2>1, <2>4, <2>5, <1>1, <1>6 DEF MembersFingers, Updated
  <2> QED BY <1>3, <2>1, <2>3, <2>6
<1> QED BY <1>1, <1>5, <1>6

\* The ring around the joiner.
LEMMA AroundJoiner ==
  ASSUME IInv, Entered
  PROVE  LET p == pred[joiner]
         IN  /\ p \in member /\ succ[p] = joiner /\ succ[joiner] \in member
             /\ \A n \in member : succ[n] = joiner => n = p
             /\ \A n \in member : NextWithout[n] = IF n = p THEN succ[joiner] ELSE succ[n]
             /\ pred[p] \in Linked /\ pred[p] # p /\ succ[pred[p]] = p
             /\ \A n \in Linked : succ[n] = p => n = pred[p]
<1> DEFINE p == pred[joiner]
<1>1. /\ Linked = member \cup {joiner} /\ joiner \in Linked /\ joiner \notin member
      /\ Linked \in SUBSET Id
  BY InsideFacts
<1>2. \A n \in Linked : /\ NextOf(Linked, n, succ[n]) /\ succ[n] \in Linked /\ succ[n] # n
                        /\ PrevOf(Linked, n, pred[n]) /\ pred[n] \in Linked /\ pred[n] # n
  BY Inside
<1>3. p \in member /\ succ[p] = joiner /\ succ[joiner] \in member
  BY <1>1, <1>2, Inside
<1>4. \A n \in Linked : \A t \in Linked : succ[n] = t => n = pred[t]
  BY <1>1, <1>2, PrevOfNext
<1>5. succ[pred[p]] = p
  BY <1>1, <1>2, <1>3, NextOfPrev
<1>6. \A n \in member : NextWithout[n] = IF n = p THEN succ[joiner] ELSE succ[n]
  BY <1>1, <1>3, <1>4 DEF NextWithout
<1> QED BY <1>1, <1>2, <1>3, <1>4, <1>5, <1>6

\* After a report nobody is joining.
LEMMA ReportDouble ==
  ASSUME IInv, Report, succ' = succ, NEW CONSTANT s \in member \cup {joiner, NoNode}, Entered,
         \A n \in Linked : dsucc'[n] = IF n = s THEN n ELSE succ[succ[n]]
  PROVE  DoubleSuccsTrack'
<1>1. /\ member' = Linked /\ joiner' = NoNode /\ pc' = "idle"
      /\ Linked = member \cup {joiner}
  BY InsideFacts DEF Report
<1>2. \A n \in Linked : succ[n] \in Linked /\ succ[n] # NoNode
  <2>1. \A n \in Linked : succ[n] \in Linked
    BY Inside
  <2>2. NoNode \notin Linked
    BY Basics
  <2> QED BY <2>1, <2>2
<1>3. NextWithout' = [n \in Linked |-> succ[n]]
  BY <1>1, <1>2 DEF NextWithout
<1>4. \A n \in member' : dsucc'[n] = IF n = s THEN n ELSE NextWithout'[NextWithout'[n]]
  BY <1>1, <1>2, <1>3
<1>5. s \in member' \cup {NoNode}
  BY <1>1
<1> QED BY <1>1, <1>4, <1>5 DEF DoubleSuccsTrack, NoNode

LEMMA PredsDoubleSuccDouble ==
  ASSUME IInv, FingersInv, PredsDoubleSucc
  PROVE  DoubleSuccsTrack'
<1>1. /\ pc = "others" /\ pc' = "predsdsucc" /\ UNCHANGED <<member, succ, pred, dsucc, joiner>>
  BY DEF PredsDoubleSucc, ringVars
<1> QED BY <1>1, DoubleQuiet DEF NextWithout

\* In a ring of two the double successors are the nodes themselves.
LEMMA JoinDoneDouble ==
  ASSUME IInv, FingersInv, JoinDone
  PROVE  DoubleSuccsTrack'
<1> DEFINE q == succ[joiner]
<1>1. /\ Entered /\ pc = "others" /\ dsucc' = dsucc /\ succ' = succ /\ Report
      /\ dsucc[joiner] = joiner /\ dsucc[joiner] = succ[succ[joiner]]
  BY DEF JoinDone, Entered, IInv, Updating
<1>2. /\ Linked = member \cup {joiner} /\ joiner \in Linked /\ joiner \notin member
      /\ Linked \in SUBSET Id /\ q \in member /\ q # joiner
      /\ NextOf(Linked, joiner, q) /\ NextOf(Linked, q, joiner)
  BY <1>1, InsideFacts, Inside, AroundJoiner
<1>3. Linked = {joiner, q}
  BY <1>2, NextsOfTwo
<1>4. succ[q] = joiner /\ succ[joiner] = q
  BY <1>1
<1>5. NextWithout[q] = q
  BY <1>2, <1>4 DEF NextWithout
<1>6. dsucc[q] = q
  BY <1>1, <1>2, <1>5 DEF FingersInv, DoubleSuccsTrack
<1>7. \A n \in Linked : dsucc'[n] = IF n = NoNode THEN n ELSE succ[succ[n]]
  BY <1>1, <1>3, <1>4, <1>6
<1> QED BY <1>1, <1>7, ReportDouble

\* In a ring of three the double predecessor is the double successor: it is
\* skipped, and keeps itself for its double successor.
LEMMA SetPredsDoubleSuccDouble ==
  ASSUME IInv, FingersInv, SetPredsDoubleSucc
  PROVE  DoubleSuccsTrack'
<1> DEFINE p == pred[joiner]
           q == succ[joiner]
<1>1. /\ Entered /\ pc = "predsdsucc" /\ succ' = succ /\ pred' = pred
      /\ target = p /\ dsucc' = [dsucc EXCEPT ![p] = q]
      /\ dsucc[joiner] # joiner /\ dsucc[joiner] = succ[q]
      /\ dsucc \in [Node -> Node]
  BY DEF SetPredsDoubleSucc, Entered, IInv, TypeOK, Updating
<1>2. /\ Linked = member \cup {joiner} /\ joiner \in Linked /\ joiner \notin member
      /\ Linked \in SUBSET Id /\ member \subseteq Node
      /\ p \in member /\ q \in member /\ succ[p] = joiner
      /\ \A n \in Linked : NextOf(Linked, n, succ[n]) /\ succ[n] # n
      /\ \A n \in member : NextWithout[n] = IF n = p THEN q ELSE succ[n]
  BY <1>1, InsideFacts, Inside, AroundJoiner
<1>3. /\ dsucc'[p] = q /\ dsucc'[joiner] = dsucc[joiner]
      /\ \A n \in member : n # p => dsucc'[n] = dsucc[n]
  BY <1>1, <1>2
<1>4. PICK s \in member \cup {NoNode} : \A n \in member :
        dsucc[n] = IF n = s THEN n ELSE NextWithout[NextWithout[n]]
  BY <1>1 DEF FingersInv, DoubleSuccsTrack
<1>5. CASE p # dsucc[joiner]
  <2>1. member' = member /\ joiner' = joiner /\ pc' = "askdpred"
    BY <1>5, <1>1 DEF SetPredsDoubleSucc
  <2>2. NextWithout' = NextWithout
    BY <1>1, <2>1 DEF NextWithout
  <2>3. \A n \in member : dsucc'[n] = IF n = p THEN q
                            ELSE IF n = s THEN n ELSE NextWithout[NextWithout[n]]
    BY <1>3, <1>4
  <2> QED BY <1>1, <1>3, <1>5, <2>1, <2>2, <2>3 DEF DoubleSuccsTrack
<1>6. CASE p = dsucc[joiner]
  <2>1. Report
    BY <1>6 DEF SetPredsDoubleSucc
  <2>2. p # joiner /\ q # joiner /\ p # q /\ succ[q] = p
    BY <1>1, <1>2, <1>6
  <2>3. Linked = {joiner, q, p}
    <3>1. NextOf(Linked, joiner, q) /\ NextOf(Linked, q, p) /\ NextOf(Linked, p, joiner)
          /\ q \in Linked /\ p \in Linked
      BY <1>2, <2>2
    <3> QED BY <3>1, <2>2, <1>2, NextsOfThree
  <2>4. dsucc[q] = q
    <3>1. NextWithout[q] = p /\ NextWithout[p] = q
      BY <1>2, <2>2
    <3> QED BY <3>1, <1>2, <1>4
  <2>5. \A n \in Linked : dsucc'[n] = IF n = q THEN n ELSE succ[succ[n]]
    BY <1>1, <1>2, <1>3, <1>6, <2>2, <2>3, <2>4
  <2> QED BY <1>1, <1>2, <2>1, <2>5, ReportDouble
<1> QED BY <1>5, <1>6

LEMMA AskDoublePredDouble ==
  ASSUME IInv, FingersInv, AskDoublePred
  PROVE  DoubleSuccsTrack'
<1>1. /\ pc = "askdpred" /\ pc' = "dpredsdsucc" /\ UNCHANGED <<member, succ, pred, dsucc, joiner>>
      /\ target' = pred[pred[joiner]] /\ dsucc[joiner] = succ[succ[joiner]]
  BY DEF AskDoublePred, ringVars, IInv, Updating
<1>2. NextWithout' = NextWithout
  BY <1>1 DEF NextWithout
<1> QED BY <1>1, <1>2 DEF FingersInv, DoubleSuccsTrack

\* In a larger ring both nodes before the joiner end with a right one.
LEMMA SetDoublePredsDoubleSuccDouble ==
  ASSUME IInv, FingersInv, SetDoublePredsDoubleSucc
  PROVE  DoubleSuccsTrack'
<1> DEFINE p == pred[joiner]
           pp == pred[pred[joiner]]
           q == succ[joiner]
<1>1. /\ Entered /\ pc = "dpredsdsucc" /\ succ' = succ /\ Report
      /\ target = pp /\ target # joiner /\ dsucc' = [dsucc EXCEPT ![pp] = joiner]
      /\ dsucc[joiner] = succ[q] /\ dsucc \in [Node -> Node]
  BY DEF SetDoublePredsDoubleSucc, Entered, IInv, TypeOK, Updating, FingersInv, DoubleSuccsTrack
<1>2. /\ Linked = member \cup {joiner} /\ joiner \in Linked /\ joiner \notin member
      /\ member \subseteq Node /\ joiner # NoNode
      /\ p \in member /\ q \in member /\ succ[p] = joiner
      /\ \A n \in member : succ[n] = joiner => n = p
      /\ \A n \in member : NextWithout[n] = IF n = p THEN q ELSE succ[n]
      /\ pp \in member /\ pp # p /\ succ[pp] = p
      /\ \A n \in member : succ[n] = p => n = pp
      /\ \A n \in member : succ[n] \in Linked
  BY <1>1, InsideFacts, Inside, AroundJoiner, Basics
<1>3. /\ dsucc'[pp] = joiner /\ dsucc'[joiner] = dsucc[joiner]
      /\ \A n \in member : n # pp => dsucc'[n] = dsucc[n]
  BY <1>1, <1>2
<1>4. PICK s \in member \cup {NoNode} : \A n \in member :
        dsucc[n] = IF n = p THEN q ELSE IF n = s THEN n ELSE NextWithout[NextWithout[n]]
  BY <1>1 DEF FingersInv, DoubleSuccsTrack
<1>5. PICK t \in member \cup {NoNode} : t = IF s \in {p, pp} THEN NoNode ELSE s
  OBVIOUS
<1>6. NoNode \notin Linked
  BY Basics
<1>7. \A n \in Linked : dsucc'[n] = IF n = t THEN n ELSE succ[succ[n]]
  <2> TAKE n \in Linked
  <2>1. CASE n \in {joiner, p, pp}
    BY <2>1, <1>1, <1>2, <1>3, <1>4, <1>5, <1>6
  <2>2. CASE n \notin {joiner, p, pp}
    <3>1. n \in member /\ succ[n] \in member /\ succ[n] # p
      BY <2>2, <1>2
    <3>2. NextWithout[n] = succ[n] /\ NextWithout[succ[n]] = succ[succ[n]]
      BY <2>2, <3>1, <1>2
    <3>3. dsucc'[n] = IF n = s THEN n ELSE succ[succ[n]]
      BY <2>2, <3>1, <3>2, <1>3, <1>4
    <3>4. n = t <=> n = s
      BY <2>2, <3>1, <1>2, <1>5, <1>6
    <3> QED BY <3>3, <3>4
  <2> QED BY <2>1, <2>2
<1> QED BY <1>1, <1>2, <1>7, ReportDouble

LEMMA DoubleSuccFingers ==
  ASSUME IInv, FingersInv,
         PredsDoubleSucc \/ SetPredsDoubleSucc \/ AskDoublePred
           \/ SetDoublePredsDoubleSucc \/ JoinDone
  PROVE  FingersInv'
BY LastStepsFingers, PredsDoubleSuccDouble, SetPredsDoubleSuccDouble, AskDoublePredDouble,
   SetDoublePredsDoubleSuccDouble, JoinDoneDouble DEF FingersInv

\* Steps that change nothing but the registers of the walk.
LEMMA StandingFingers ==
  ASSUME FingersInv, lpc # "idle" \/ lpc' = lpc, key' = key,
         UNCHANGED <<member, succ, pred, ft, dsucc, joiner, pc, idx, target>>
  PROVE  FingersInv'
<1>1. /\ Linked' = Linked /\ NextWithout' = NextWithout
      /\ UpdatesOthers' = UpdatesOthers
  BY DEF Linked, Entered, NextWithout, UpdatesOthers
<1>2. DoubleSuccsTrack' /\ FingersPastStart(member)' /\ JoinersFingers' /\ LoopsTrack'
  BY <1>1 DEF FingersInv, DoubleSuccsTrack, FingersPastStart, JoinersFingers, LoopsTrack
<1>3. MembersFingers'
  BY <1>1 DEF FingersInv, MembersFingers, Updated, FingerRight
<1> QED BY <1>2, <1>3 DEF FingersInv

LEMMA FingersStep ==
  ASSUME IInv, IInv', FingersInv, [Next]_vars
  PROVE  FingersInv'
<1>1. CASE \E x \in Node : Create(x)
  BY <1>1, CreateFingers
<1>2. CASE InitFingerTableStep
  BY <1>2, FoundSuccFingers, AskPredFingers, FillFingers, LinkPredFingers, LinkSuccFingers,
     AskDoubleSuccFingers DEF InitFingerTableStep
<1>3. CASE UpdateOthersStep
  BY <1>3, OthersLookupFingers, OthersFoundFingers, UpdateSuccFingers, UpdateForwardFingers,
     UpdateEndFingers, DoubleSuccFingers DEF UpdateOthersStep
<1>4. CASE WalkStep
  <2>1. /\ UNCHANGED <<member, succ, pred, ft, dsucc, joiner, pc, idx, target>>
        /\ lpc # "idle" /\ key' = key
    BY <1>4 DEF WalkStep, ringVars, joinVars, LookupStep, LookupFirst, LookupReturn,
       LookupClosest, LookupSelf, LookupHop
  <2> QED BY <2>1, StandingFingers
<1>5. CASE UNCHANGED vars
  BY <1>5, StandingFingers DEF vars, ringVars, lookVars, joinVars
<1> QED BY <1>1, <1>2, <1>3, <1>4, <1>5 DEF Next, AllJoined

\* The second inductive invariant: fingers and double successors in every
\* state of every sequence of joins.
THEOREM FingersInvariant ==
  ASSUME NoAdjacentNodes
  PROVE  Spec => []FingersInv
<1>1. IInv /\ IInv' /\ FingersInv /\ [Next]_vars => FingersInv'
  BY FingersStep
<1> QED BY <1>1, RingInvariant, FingersInit, PTL DEF Spec

\* Between joins every finger is the node responsible for its start, unless
\* its start is the id of a client: UpdateOthers reaches every client whose
\* finger the newcomer takes over, and changes no other.
THEOREM FingersAreCorrect ==
  ASSUME NoAdjacentNodes
  PROVE  Spec => []FingersCorrect
<1>1. IInv /\ FingersInv => FingersCorrect
  <2> SUFFICES ASSUME IInv, FingersInv, pc = "idle", NEW n \in member, NEW i \in Finger,
                      FingerStart(n, i) \notin member
               PROVE  OwnerOf(member, FingerStart(n, i), ft[n][i])
    BY DEF FingersCorrect
  <2>1. Linked = member /\ ~UpdatesOthers /\ ~Linking /\ member \in SUBSET Id /\ n \in Id
    BY Basics DEF Linked, Entered, UpdatesOthers, Linking
  <2>2. CASE i = 1
    <3>1. NextOf(member, n, succ[n]) /\ ft[n][1] = succ[n]
      BY <2>1 DEF IInv, RingCorrect, FingersUsable
    <3>2. FingerStart(n, i) \in Id /\ Dist(n, FingerStart(n, i)) = 1
      BY <2>1, <2>2, StartFacts
    <3> QED BY <2>1, <2>2, <3>1, <3>2, NextOwnsFirstStart
  <2>3. CASE i # 1
    BY <2>1, <2>3 DEF FingersInv, MembersFingers, Updated, FingerRight
  <2> QED BY <2>2, <2>3
<1> QED BY <1>1, RingInvariant, FingersInvariant, PTL

\* Between joins every finger, also one that a client's id has kept from being
\* updated, points past its start, as a lookup needs.
THEOREM StaleFingersAreHarmless ==
  ASSUME NoAdjacentNodes
  PROVE  Spec => []StaleFingersPastStart
<1>1. FingersInv => StaleFingersPastStart
  BY DEF FingersInv, StaleFingersPastStart
<1> QED BY <1>1, FingersInvariant, PTL

\* Between joins at most one double successor is wrong, and it names the client
\* that has it, in a ring of any size and age and wherever that client is by
\* then (client.c:847).
THEOREM DoubleSuccsAreCorrect ==
  ASSUME NoAdjacentNodes
  PROVE  Spec => []DoubleSuccOneStale
<1>1. IInv /\ FingersInv => DoubleSuccOneStale
  <2> SUFFICES ASSUME IInv, FingersInv, pc = "idle" PROVE DoubleSuccOneStale
    BY DEF DoubleSuccOneStale
  <2>1. PICK s \in member \cup {NoNode} : \A n \in member :
          dsucc[n] = IF n = s THEN n ELSE NextWithout[NextWithout[n]]
    BY DEF FingersInv, DoubleSuccsTrack
  <2>2. \A n \in member : NextWithout[n] = succ[n] /\ NextWithout[n] \in member
    BY NextWithoutFacts DEF Entered
  <2>3. \A n \in member : dsucc[n] = IF n = s THEN n ELSE succ[succ[n]]
    BY <2>1, <2>2
  <2> QED BY <2>3 DEF DoubleSuccOneStale
<1> QED BY <1>1, RingInvariant, FingersInvariant, PTL
==============================================================================

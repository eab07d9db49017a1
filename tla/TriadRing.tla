------------------------------ MODULE TriadRing ------------------------------
(****************************************************************************)
(* Building the ring: JoinRingWithFingerTable (client.c:623) of one client  *)
(* after the other.  The manager starts the clients with the first name and *)
(* does not let the next one begin before the last one has reported its     *)
(* port (manager.c:148-244), so there is at most one joiner; everybody else *)
(* sits in its select loop and answers.  A joiner does nothing but blocking *)
(* round trips, hence one action per round trip: the request, its handler   *)
(* (HandleUdpMessage, client.c:1251) and the reply are one step, except for *)
(* the UPDTQ of a finger, whose handler sends an UPDTQ of its own before it *)
(* replies: there each handler is a step and the nodes that are blocked in  *)
(* recvfrom in the meantime are kept in waiting.                            *)
(*                                                                          *)
(* The hello messages a member's timer may send while somebody joins are    *)
(* not part of this module.                                                 *)
(****************************************************************************)
EXTENDS TriadLookup

VARIABLES dsucc,    \* dsucc[n]: n's double successor
          joiner,   \* the client in JoinRingWithFingerTable, or NoNode
          pc,       \* where the joiner stands
          idx,      \* its loop variable i
          target,   \* the node whose UPDTQ handler is to run next
          waiting   \* handlers blocked on the reply to their own UPDTQ

joinVars == <<joiner, pc, idx, target, waiting>>
vars == <<ringVars, lookVars, dsucc, joinVars>>

NoNode == HASHMAX + 1

PC == {"idle", "findsucc", "askpred", "fill", "linksucc", "askdsucc",
       "others", "update", "predsdsucc", "askdpred", "dpredsdsucc"}

TypeOK ==
  /\ LookupTypeOK
  /\ dsucc \in [Node -> Node]
  /\ joiner \in Node \cup {NoNode}
  /\ pc \in PC
  /\ (pc = "idle") <=> (joiner = NoNode)
  /\ idx \in 1 .. FTLEN
  /\ target \in Node
  /\ waiting \subseteq Node

Init ==
  /\ member = {}
  /\ succ = [n \in Node |-> n] /\ pred = [n \in Node |-> n]
  /\ dsucc = [n \in Node |-> n]
  /\ ft = [n \in Node |-> [i \in Finger |-> n]]
  /\ lpc = "idle" /\ caller = First /\ key = First
  /\ tempA = First /\ tempB = First
  /\ joiner = NoNode /\ pc = "idle" /\ idx = 1
  /\ target = First /\ waiting = {}

----------------------------------------------------------------------------
(****************************************************************************)
(* InitFingerTableSelf, then InitFingerTable (client.c:649-728).            *)
(****************************************************************************)

\* The manager lets client x start.  Its pointers and fingers are itself; the
\* first client is thereby in the ring, another one looks for its successor.
Create(x) ==
  /\ joiner = NoNode
  /\ x \notin member
  /\ member = {} => x = First
  /\ succ' = [succ EXCEPT ![x] = x]
  /\ pred' = [pred EXCEPT ![x] = x]
  /\ dsucc' = [dsucc EXCEPT ![x] = x]
  /\ ft' = [ft EXCEPT ![x] = [i \in Finger |-> x]]
  /\ \/ /\ x = First
        /\ member' = member \cup {x}
        /\ UNCHANGED <<lookVars, joinVars>>
     \/ /\ x # First
        /\ joiner' = x /\ pc' = "findsucc"
        /\ BeginLookup(x, x)
        /\ UNCHANGED <<member, idx, target, waiting>>

\* The lookup a step of the joiner was waiting for is over.
TakeFound == lpc = "done" /\ lpc' = "idle" /\ UNCHANGED <<caller, key, tempA, tempB>>

FoundSucc ==
  /\ pc = "findsucc"
  /\ TakeFound
  /\ succ' = [succ EXCEPT ![joiner] = tempB]
  /\ ft' = [ft EXCEPT ![joiner][1] = tempB]
  /\ pc' = "askpred"
  /\ UNCHANGED <<member, pred, dsucc, joiner, idx, target, waiting>>

\* PREDQ to the successor.
AskPred ==
  /\ pc = "askpred"
  /\ pred' = [pred EXCEPT ![joiner] = pred[succ[joiner]]]
  /\ pc' = "fill" /\ idx' = 1
  /\ UNCHANGED <<member, succ, ft, lookVars, dsucc, joiner, target, waiting>>

\* The next finger starts before the node of this one: same node.
FillCopy ==
  /\ pc = "fill" /\ idx < FTLEN - 1 /\ lpc = "idle"
  /\ InRangeA(joiner, FingerStart(joiner, idx + 1), ft[joiner][idx])
  /\ ft' = [ft EXCEPT ![joiner][idx + 1] = ft[joiner][idx]]
  /\ idx' = idx + 1
  /\ UNCHANGED <<member, succ, pred, lookVars, dsucc, joiner, pc, target, waiting>>

FillLookup ==
  /\ pc = "fill" /\ idx < FTLEN - 1 /\ lpc = "idle"
  /\ ~InRangeA(joiner, FingerStart(joiner, idx + 1), ft[joiner][idx])
  /\ BeginLookup(joiner, FingerStart(joiner, idx + 1))
  /\ UNCHANGED <<ringVars, dsucc, joinVars>>

FillFound ==
  /\ pc = "fill"
  /\ TakeFound
  /\ ft' = [ft EXCEPT ![joiner][idx + 1] = tempB]
  /\ idx' = idx + 1
  /\ UNCHANGED <<member, succ, pred, dsucc, joiner, pc, target, waiting>>

\* UPDTQ with index 0 to the successor: it takes the joiner for predecessor.
LinkPred ==
  /\ pc = "fill" /\ idx = FTLEN - 1 /\ lpc = "idle"
  /\ pred' = [pred EXCEPT ![succ[joiner]] = joiner]
  /\ pc' = "linksucc"
  /\ UNCHANGED <<member, succ, ft, lookVars, dsucc, joiner, idx, target, waiting>>

\* The handler of UPDTQ with index 1 at n: n takes x for successor.
SetSucc(n, x) ==
  /\ succ' = [succ EXCEPT ![n] = x]
  /\ ft' = [ft EXCEPT ![n][1] = x]

\* Mutant: the predecessor is asked for again, after the successor has let
\* the joiner in.
LinkSuccRefetched ==
  /\ pc = "linksucc"
  /\ SetSucc(pred[succ[joiner]], joiner)
  /\ pc' = "askdsucc"
  /\ UNCHANGED <<member, pred, lookVars, dsucc, joiner, idx, target, waiting>>

\* Mutant: the two addressees of UpdateNeighbor are swapped.
LinkSuccSwapped ==
  /\ pc = "linksucc"
  /\ SetSucc(succ[joiner], joiner)
  /\ pc' = "askdsucc"
  /\ UNCHANGED <<member, pred, lookVars, dsucc, joiner, idx, target, waiting>>

\* UPDTQ with index 1 to the predecessor: from here on the joiner is in the
\* ring.
LinkSucc ==
  /\ pc = "linksucc"
  /\ SetSucc(pred[joiner], joiner)
  /\ pc' = "askdsucc"
  /\ UNCHANGED <<member, pred, lookVars, dsucc, joiner, idx, target, waiting>>

\* Mutant: the fingers found before the joiner was in the ring are kept.
AskDoubleSuccNoTrim ==
  /\ pc = "askdsucc"
  /\ dsucc' = [dsucc EXCEPT ![joiner] = succ[succ[joiner]]]
  /\ pc' = "others" /\ idx' = 1
  /\ UNCHANGED <<member, succ, pred, ft, lookVars, joiner, target, waiting>>

\* SUCCQ to the successor, then UpdateMyFingerTableInit: fingers that start
\* between the successor and the joiner were found without the joiner in the
\* ring and become the joiner itself.
AskDoubleSucc ==
  /\ pc = "askdsucc"
  /\ dsucc' = [dsucc EXCEPT ![joiner] = succ[succ[joiner]]]
  /\ ft' = [ft EXCEPT ![joiner] =
              [i \in Finger |->
                 IF /\ ft[joiner][i] = succ[joiner]
                    /\ NotInRange(FingerStart(joiner, i), joiner, succ[joiner])
                   THEN joiner
                   ELSE ft[joiner][i]]]
  /\ pc' = "others" /\ idx' = 1
  /\ UNCHANGED <<member, succ, pred, lookVars, joiner, target, waiting>>

----------------------------------------------------------------------------
(****************************************************************************)
(* UpdateOthers (client.c:742-868): the fingers of the others.              *)
(****************************************************************************)

OthersLookup ==
  /\ pc = "others" /\ idx < FTLEN /\ lpc = "idle"
  /\ BeginLookup(joiner, RingMinus(joiner, 2 ^ (idx - 1)))
  /\ UNCHANGED <<ringVars, dsucc, joinVars>>

\* Mutant: the loop variable is not advanced on the early continue.
OthersSkipStuck ==
  /\ pc = "others"
  /\ TakeFound
  /\ pred[tempB] = joiner
  /\ UNCHANGED <<ringVars, dsucc, joiner, pc, idx, target, waiting>>

\* PREDQ to the node found; nothing to do if its predecessor is the joiner.
OthersSkip ==
  /\ pc = "others"
  /\ TakeFound
  /\ pred[tempB] = joiner
  /\ idx' = idx + 1
  /\ UNCHANGED <<ringVars, dsucc, joiner, pc, target, waiting>>

\* Mutant: the owner of the id is updated instead of the node before it.
OthersTargetOwner ==
  /\ pc = "others"
  /\ TakeFound
  /\ pred[tempB] # joiner
  /\ target' = tempB
  /\ pc' = "update"
  /\ UNCHANGED <<ringVars, dsucc, joiner, idx, waiting>>

OthersTarget ==
  /\ pc = "others"
  /\ TakeFound
  /\ pred[tempB] # joiner
  /\ target' = pred[tempB]
  /\ pc' = "update"
  /\ UNCHANGED <<ringVars, dsucc, joiner, idx, waiting>>

\* Index 1 reaches the handler that sets the successor.
UpdateSucc ==
  /\ pc = "update" /\ idx = 1
  /\ SetSucc(target, joiner)
  /\ pc' = "others" /\ idx' = idx + 1
  /\ UNCHANGED <<member, pred, lookVars, dsucc, joiner, target, waiting>>

\* Mutant: the predecessor is told even if it is the joiner.
UpdateForwardAlways ==
  /\ pc = "update" /\ idx > 1
  /\ InRangeA(target, joiner, ft[target][idx])
  /\ ft' = [ft EXCEPT ![target][idx] = joiner]
  /\ waiting' = waiting \cup {target}
  /\ target' = pred[target]
  /\ UNCHANGED <<member, succ, pred, lookVars, dsucc, joiner, pc, idx>>

\* UpdateMyFingerTable at target: the joiner is a better finger, and the
\* predecessor is told before the UPDTQ is answered.
UpdateForward ==
  /\ pc = "update" /\ idx > 1
  /\ InRangeA(target, joiner, ft[target][idx])
  /\ pred[target] # joiner
  /\ ft' = [ft EXCEPT ![target][idx] = joiner]
  /\ waiting' = waiting \cup {target}
  /\ target' = pred[target]
  /\ UNCHANGED <<member, succ, pred, lookVars, dsucc, joiner, pc, idx>>

\* The last node of the chain: its reply releases the nodes that wait, one
\* after the other, down to the joiner.
UpdateEnd ==
  /\ pc = "update" /\ idx > 1
  /\ \/ /\ InRangeA(target, joiner, ft[target][idx])
        /\ pred[target] = joiner
        /\ ft' = [ft EXCEPT ![target][idx] = joiner]
     \/ /\ ~InRangeA(target, joiner, ft[target][idx])
        /\ UNCHANGED ft
  /\ waiting' = {}
  /\ pc' = "others" /\ idx' = idx + 1
  /\ UNCHANGED <<member, succ, pred, lookVars, dsucc, joiner, target>>

----------------------------------------------------------------------------
(****************************************************************************)
(* The end of UpdateOthers: double successors (client.c:832-866).           *)
(****************************************************************************)

\* The client reports to the manager, which lets the next one start.
Report ==
  /\ member' = member \cup {joiner}
  /\ joiner' = NoNode
  /\ pc' = "idle"

\* A ring of two has no double successors to update.
JoinDone ==
  /\ pc = "others" /\ idx = FTLEN /\ lpc = "idle"
  /\ dsucc[joiner] = joiner
  /\ Report
  /\ UNCHANGED <<succ, pred, ft, lookVars, dsucc, idx, target, waiting>>

\* UPDTQ with index 100 to the predecessor, carrying the successor.
PredsDoubleSucc ==
  /\ pc = "others" /\ idx = FTLEN /\ lpc = "idle"
  /\ dsucc[joiner] # joiner
  /\ target' = pred[joiner]
  /\ pc' = "predsdsucc"
  /\ UNCHANGED <<ringVars, lookVars, dsucc, joiner, idx, waiting>>

\* Mutant: the double predecessor is forgotten.
SetPredsDoubleSuccOnly ==
  /\ pc = "predsdsucc"
  /\ dsucc' = [dsucc EXCEPT ![target] = succ[joiner]]
  /\ Report
  /\ UNCHANGED <<succ, pred, ft, lookVars, idx, target, waiting>>

SetPredsDoubleSucc ==
  /\ pc = "predsdsucc"
  /\ dsucc' = [dsucc EXCEPT ![target] = succ[joiner]]
  /\ IF pred[joiner] # dsucc[joiner]
       THEN pc' = "askdpred" /\ UNCHANGED <<member, joiner>>
       ELSE Report
  /\ UNCHANGED <<succ, pred, ft, lookVars, idx, target, waiting>>

\* PREDQ to the predecessor, then UPDTQ with index 100 to the node it names,
\* carrying the joiner.
AskDoublePred ==
  /\ pc = "askdpred"
  /\ target' = pred[pred[joiner]]
  /\ pc' = "dpredsdsucc"
  /\ UNCHANGED <<ringVars, lookVars, dsucc, joiner, idx, waiting>>

SetDoublePredsDoubleSucc ==
  /\ pc = "dpredsdsucc"
  /\ dsucc' = [dsucc EXCEPT ![target] = joiner]
  /\ Report
  /\ UNCHANGED <<succ, pred, ft, lookVars, idx, target, waiting>>

----------------------------------------------------------------------------

InitFingerTableStep ==
  FoundSucc \/ AskPred \/ FillCopy \/ FillLookup \/ FillFound
    \/ LinkPred \/ LinkSucc \/ AskDoubleSucc

UpdateOthersStep ==
  OthersLookup \/ OthersSkip \/ OthersTarget
    \/ UpdateSucc \/ UpdateForward \/ UpdateEnd
    \/ JoinDone \/ PredsDoubleSucc \/ SetPredsDoubleSucc
    \/ AskDoublePred \/ SetDoublePredsDoubleSucc

\* FindSuccWithFT on behalf of the joiner.
WalkStep == LookupStep /\ UNCHANGED <<ringVars, dsucc, joinVars>>

\* All clients are created; the manager turns to its list of jobs.
AllJoined == member = Node /\ joiner = NoNode /\ UNCHANGED vars

Next ==
  \/ \E x \in Node : Create(x)
  \/ InitFingerTableStep
  \/ UpdateOthersStep
  \/ WalkStep
  \/ AllJoined

\* The manager goes on creating clients, and the joiner's round trips are
\* answered because nobody else is busy.
Spec == Init /\ [][Next]_vars /\ WF_vars(Next)

----------------------------------------------------------------------------
(****************************************************************************)
(* What the joins promise.                                                  *)
(****************************************************************************)

\* Between the two UPDTQs of UpdateNeighbor (client.c:1145) the successor has
\* let the joiner in and the predecessor has not.
Linking == pc = "linksucc"

\* The joiner has been let in by both.
Entered == pc \in {"askdsucc", "others", "update", "predsdsucc", "askdpred", "dpredsdsucc"}

\* The nodes that are in the ring.
Linked == IF Entered THEN member \cup {joiner} ELSE member

\* Every successor and predecessor is the nearest node of the ring, in every
\* state of every join; while the joiner is being linked its successor's
\* predecessor, and nothing else, is ahead (client.c:649-728, 742-868,
\* 1350-1401).
RingCorrect ==
  /\ \A n \in Linked : NextOf(Linked, n, succ[n])
  /\ \A n \in Linked :
       IF Linking /\ n = succ[joiner]
         THEN pred[n] = joiner /\ PrevOf(Linked, n, pred[joiner])
         ELSE PrevOf(Linked, n, pred[n])

\* The place the joiner has found is the right one by the time it is let in:
\* it is about to enter between two neighbours (client.c:654-677).
PlaceCorrect ==
  pc \in {"fill", "linksucc"} =>
    /\ NextOf(member \cup {joiner}, joiner, succ[joiner])
    /\ PrevOf(member \cup {joiner}, joiner, pred[joiner])
    /\ succ[pred[joiner]] = succ[joiner]

\* Lookups made in the middle of a join, through the joiner's own half-filled
\* finger table too, return the node responsible for the id.
LookupsDuringJoin == OwnerFound(Linked)

\* Between joins every finger is the node responsible for its start, unless
\* that start is the id of a client: a newcomer looks for the nodes before
\* RingMinus(HashID, 2^(i-1)) and so misses the one that stands exactly there
\* (client.c:742-830, 1231).
FingersCorrect ==
  pc = "idle" => \A n \in member : \A i \in Finger :
                    FingerStart(n, i) \notin member => OwnerOf(member, FingerStart(n, i), ft[n][i])

\* The fingers that stay behind for that are only such as TriadLookup allows
\* for: they point past their start.
StaleFingersPastStart == pc = "idle" => FingersPastStart(member)

\* A request is only ever sent to a node that is in its select loop: never to
\* the joiner itself nor to a node that waits, further up the chain of
\* UPDTQs, for the reply to its own request (client.c:791, 1237); one that
\* did would leave both blocked.
RequestsReachReadyNodes ==
  pc \in {"update", "predsdsucc", "dpredsdsucc"} =>
    target \in Linked \ (waiting \cup {joiner})

\* Between joins the double successors are right but for at most one node,
\* which takes itself for its double successor (client.c:834-866).  There is one
\* after the third join: line 847 passes over the joiner's double predecessor if
\* that is its double successor too, against the comment at 832-833, "update
\* [...] double predecessor's double successor with your information".
DoubleSuccOneStale ==
  pc = "idle" =>
    \E s \in member \cup {NoNode} : \A n \in member :
       dsucc[n] = IF n = s THEN n ELSE succ[succ[n]]

\* No step but the one that lets the joiner in changes what the ring's nodes
\* have for a successor, and that one only puts the joiner before the old one.
OnlyLinkSuccRelinks ==
  [][\A n \in Linked :
       succ'[n] # succ[n] => /\ pc = "linksucc"
                             /\ succ'[n] = joiner /\ succ[joiner] = succ[n]]_vars

\* Of the comment at client.c:1376, "update successor": an UPDTQ that sets a
\* node's successor names the next client of the ring.
UpdatedSuccessorIsNext ==
  [][\A n \in Linked : succ'[n] # succ[n] => NextOf(Linked', n, succ'[n])]_vars

\* Every client gets into the ring.
JoinsComplete == <>(member = Node /\ joiner = NoNode)

\* The ring grows as RingMembership says; a client takes its place with the
\* second UPDTQ of UpdateNeighbor.
Membership == INSTANCE RingMembership WITH ring <- Linked,
                                           next <- [n \in Linked |-> succ[n]]
RefinesMembership == Membership!Spec

----------------------------------------------------------------------------
(****************************************************************************)
(* The inductive invariant behind RingCorrect: what a join knows at each of *)
(* its steps (TriadRingProofs).                                             *)
(****************************************************************************)

\* A joiner is not a member, and there is a first member before it.
Shape ==
  /\ joiner \notin member
  /\ joiner # NoNode => member # {}
  /\ member # {} => First \in member

\* Lookups run only where the joiner asks for one, for the id it asks about.
Walking ==
  /\ lpc # "idle" =>
       /\ pc \in {"findsucc", "fill", "others"}
       /\ pc = "findsucc" => key = joiner
       /\ pc = "fill" => idx < FTLEN - 1
       /\ pc = "others" => idx < FTLEN /\ key = RingMinus(joiner, 2 ^ (idx - 1))
  /\ RegistersTrack(Linked)
  /\ OwnerFound(Linked)

\* What the joiner knows before it is let in.
Place ==
  /\ pc \in {"askpred", "fill", "linksucc"} =>
       OwnerOf(member, joiner, succ[joiner]) /\ ft[joiner][1] = succ[joiner]
  /\ pc = "fill" => pred[joiner] = pred[succ[joiner]]
  /\ joiner # NoNode => \A i \in Finger : ft[joiner][i] \in member \cup {joiner}

\* While it updates the others: a chain of UPDTQs runs down the circle and
\* stops before it meets the joiner again.
Updating ==
  /\ pc \in {"others", "update", "predsdsucc", "askdpred"} =>
       dsucc[joiner] = succ[succ[joiner]]
  /\ pc = "update" =>
       /\ idx < FTLEN
       /\ target \in Linked \ {joiner}
       /\ idx = 1 => target = pred[joiner] /\ waiting = {}
       /\ \A w \in waiting : Dist(joiner, target) < Dist(joiner, w)
  /\ pc # "update" => waiting = {}
  /\ pc = "predsdsucc" => target = pred[joiner]
  /\ pc \in {"predsdsucc", "askdpred"} => dsucc[joiner] # joiner
  /\ pc = "dpredsdsucc" => target \in Linked \ {joiner}

\* Their conjunction, which every step keeps.
IInv ==
  /\ TypeOK
  /\ Shape
  /\ RingCorrect
  /\ FingersUsable(Linked)
  /\ Walking
  /\ Place
  /\ Updating
==============================================================================

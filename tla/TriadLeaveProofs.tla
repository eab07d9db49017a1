--------------------------- MODULE TriadLeaveProofs ---------------------------
(****************************************************************************)
(* However many clients leave, and whatever the lookups of a leave find,    *)
(* the clients that stay know their neighbours, their fingers are right and *)
(* they have the texts; and which leavers exit on the way: proved for every *)
(* circle, every ring on it and every choice of jobs.                       *)
(****************************************************************************)
EXTENDS TriadLeave, TriadStoreProofs

\* What the leaver knows of itself while it walks through the ring.
LeaverStands ==
  /\ lat \in {"none", "fetch", "fingers", "notice", "unlink", "failed"}
  /\ lat = "none" \/ leaver \in member
  /\ lat \in {"fingers", "notice", "unlink"} => succ[leaver] # leaver

LeaveInv ==
  /\ member \in SUBSET Node
  /\ succ \in [Node -> Node] /\ pred \in [Node -> Node]
  /\ LeaverStands
  /\ NeighboursAfterLeave

----------------------------------------------------------------------------
(****************************************************************************)
(* A node taken out of a circle.                                            *)
(****************************************************************************)

\* The two nodes next to x become neighbours.
LEMMA LeaveNeighbours ==
  ASSUME NEW R \in SUBSET Id, NEW x \in R, NEW s, NEW p, s # x,
         NextOf(R, x, s), PrevOf(R, x, p)
  PROVE  /\ p # x /\ p \in R \ {x} /\ s \in R \ {x}
         /\ NextOf(R \ {x}, p, s) /\ PrevOf(R \ {x}, s, p)
         /\ NextOf(R, p, x) /\ PrevOf(R, s, x)
<1>1. p # x /\ p \in R /\ s \in R /\ R \subseteq Id
  BY DEF NextOf, PrevOf
<1>2. NextOf(R, p, x) /\ PrevOf(R, s, x)
  BY <1>1, HashMaxAssumption DEF Id, PrevOf, NextOf, Dist
<1>3. NextOf(R \ {x}, p, s)
  BY <1>1, HashMaxAssumption DEF Id, PrevOf, NextOf, Dist
<1>4. PrevOf(R \ {x}, s, p)
  BY <1>1, HashMaxAssumption DEF Id, PrevOf, NextOf, Dist
<1> QED BY <1>1, <1>2, <1>3, <1>4

\* The neighbours of all others stay what they are.
LEMMA LeaveOthers ==
  ASSUME NEW R \in SUBSET Id, NEW x \in R, NEW s, NEW p, s # x,
         NextOf(R, x, s), PrevOf(R, x, p),
         NEW n \in R \ {x}, NEW t
  PROVE  /\ NextOf(R, n, t) /\ n # p => NextOf(R \ {x}, n, t)
         /\ PrevOf(R, n, t) /\ n # s => PrevOf(R \ {x}, n, t)
<1>1. p # x /\ p \in R /\ s \in R /\ R \subseteq Id /\ n \in Id
  BY DEF NextOf, PrevOf
<1>2. ASSUME NextOf(R, n, t), n # p PROVE NextOf(R \ {x}, n, t)
  <2>1. t # x
    BY <1>1, <1>2, HashMaxAssumption DEF Id, PrevOf, NextOf, Dist
  <2> QED BY <1>1, <1>2, <2>1, HashMaxAssumption DEF Id, NextOf
<1>3. ASSUME PrevOf(R, n, t), n # s PROVE PrevOf(R \ {x}, n, t)
  <2>1. t # x
    BY <1>1, <1>3, HashMaxAssumption DEF Id, PrevOf, NextOf, Dist
  <2> QED BY <1>1, <1>3, <2>1, HashMaxAssumption DEF Id, PrevOf
<1> QED BY <1>2, <1>3

----------------------------------------------------------------------------
(****************************************************************************)
(* The steps.                                                               *)
(****************************************************************************)

LEMMA LeaveInvInit == LeaveInit => LeaveInv
<1> SUFFICES ASSUME LeaveInit PROVE LeaveInv
  OBVIOUS
<1>1. created \subseteq Node /\ member = created
  BY RingsAssumption DEF LeaveInit
<1>2. PICK f \in [created -> created] :
        /\ \A n \in created : NextOf(created, n, f[n])
        /\ succ = [n \in Node |-> IF n \in created THEN f[n] ELSE n]
  BY DEF LeaveInit
<1>3. PICK g \in [created -> created] :
        /\ \A n \in created : PrevOf(created, n, g[n])
        /\ pred = [n \in Node |-> IF n \in created THEN g[n] ELSE n]
  BY DEF LeaveInit
<1>4. succ \in [Node -> Node] /\ pred \in [Node -> Node]
  BY <1>1, <1>2, <1>3
<1>5. \A n \in member : NextOf(member, n, succ[n]) /\ PrevOf(member, n, pred[n])
  BY <1>1, <1>2, <1>3
<1>6. lat = "none"
  BY DEF LeaveInit
<1> QED BY <1>1, <1>4, <1>5, <1>6 DEF LeaveInv, LeaverStands, NeighboursAfterLeave

\* As long as no link changes it is enough to look where the leaver stands.
LEMMA SameLinks ==
  ASSUME LeaveInv, UNCHANGED <<member, succ, pred>>, LeaverStands',
         lat # "unlink", lat' # "unlink"
  PROVE  LeaveInv'
BY DEF LeaveInv, NeighboursAfterLeave

\* First goes on with its jobs, or a lookup of the leaver with its walk.
LEMMA NothingMoves ==
  ASSUME LeaveInv, UNCHANGED <<member, succ, pred, leaver, lat>>
  PROVE  LeaveInv'
BY DEF LeaveInv, LeaverStands, NeighboursAfterLeave

LEMMA WalkKeepsLinks ==
  ASSUME LeaveInv,
         \/ \E x \in Node : BeginLeave(x)
         \/ LeaveAlone \/ FetchText \/ FetchEnd
         \/ LeaveLookup \/ LeaveFound \/ LeaveNotice \/ LeaveRefused
  PROVE  LeaveInv'
<1>1. CASE \E x \in Node : BeginLeave(x)
  <2>1. PICK x \in Node : BeginLeave(x)
    BY <1>1
  <2>2. UNCHANGED <<member, succ, pred>> /\ leaver' = x /\ x \in member /\ lat' = "fetch"
    BY <2>1 DEF BeginLeave, ringVars
  <2>3. lat \in {"none", "fetch", "fingers", "notice", "unlink", "failed"}
    BY DEF LeaveInv, LeaverStands
  <2>4. lat = "none"
    BY <2>1, <2>3, NodeAssumption, HashMaxAssumption
       DEF BeginLeave, LeaveInv, LeaverStands, NoNode, Id
  <2> QED BY <2>2, <2>4, SameLinks DEF LeaverStands
<1>2. CASE \/ LeaveAlone \/ FetchText \/ FetchEnd
           \/ LeaveLookup \/ LeaveFound \/ LeaveNotice \/ LeaveRefused
  <2>1. UNCHANGED <<member, succ, pred, leaver>>
    BY <1>2 DEF LeaveAlone, FetchText, FetchEnd, LeaveLookup, LeaveFound, LeaveNotice,
                LeaveRefused, ringVars, leaveVars, vars
  <2>2. lat \in {"fetch", "fingers", "notice"}
    BY <1>2 DEF LeaveAlone, FetchText, FetchEnd, LeaveLookup, LeaveFound, LeaveNotice, LeaveRefused
  <2>3. /\ lat' \in {"fetch", "fingers", "notice", "failed"}
        /\ lat' \in {"fingers", "notice"} => succ[leaver] # leaver
    BY <1>2, <2>2 DEF LeaveAlone, FetchText, FetchEnd, LeaveLookup, LeaveFound, LeaveNotice,
                      LeaveRefused, Visit, leaveVars, LeaveInv, LeaverStands
  <2> QED BY <2>1, <2>2, <2>3, SameLinks DEF LeaveInv, LeaverStands
<1> QED BY <1>1, <1>2

\* The successor's predecessor variable runs ahead.
LEMMA LeavePredKeeps ==
  ASSUME LeaveInv, LeavePred
  PROVE  LeaveInv'
<1> DEFINE s == succ[leaver]
<1>1. /\ leaver \in member /\ s # leaver
      /\ member \in SUBSET Id /\ member \subseteq Node
      /\ \A n \in member : NextOf(member, n, succ[n]) /\ PrevOf(member, n, pred[n])
      /\ succ \in [Node -> Node] /\ pred \in [Node -> Node]
  BY NodeAssumption DEF LeavePred, LeaveInv, LeaverStands, NeighboursAfterLeave
<1>2. /\ pred' = [pred EXCEPT ![s] = pred[leaver]]
      /\ lat' = "unlink" /\ UNCHANGED <<member, succ, leaver>>
  BY DEF LeavePred
<1>3. s \in member /\ PrevOf(member, s, leaver)
  BY <1>1, LeaveNeighbours
<1>4. /\ pred' \in [Node -> Node]
      /\ pred'[s] = pred[leaver] /\ pred'[leaver] = pred[leaver]
      /\ \A n \in member : n # s => pred'[n] = pred[n]
  BY <1>1, <1>2, <1>3
<1> QED BY <1>1, <1>2, <1>3, <1>4 DEF LeaveInv, LeaverStands, NeighboursAfterLeave

\* The predecessor's successor variable follows, and the leaver is out.
LEMMA LeaveSuccKeeps ==
  ASSUME LeaveInv, LeaveSucc
  PROVE  LeaveInv'
<1> DEFINE s == succ[leaver]
           p == pred[leaver]
           R == member \ {leaver}
<1>1. /\ leaver \in member /\ s # leaver
      /\ member \in SUBSET Id /\ member \subseteq Node
      /\ \A n \in member : NextOf(member, n, succ[n])
      /\ \A n \in member : n # s => PrevOf(member, n, pred[n])
      /\ succ \in [Node -> Node] /\ pred \in [Node -> Node]
      /\ pred[s] = p
  BY NodeAssumption DEF LeaveSucc, LeaveInv, LeaverStands, NeighboursAfterLeave, NextOf
<1>2. /\ succ' = [succ EXCEPT ![p] = s]
      /\ member' = R /\ lat' = "none" /\ UNCHANGED pred
  BY DEF LeaveSucc
<1>3. NextOf(member, leaver, s) /\ PrevOf(member, leaver, p)
  BY <1>1
<1>4. p \in R /\ s \in R /\ NextOf(R, p, s) /\ PrevOf(R, s, p)
  BY <1>1, <1>3, LeaveNeighbours
<1>5. /\ succ' \in [Node -> Node]
      /\ succ'[p] = s /\ \A n \in R : n # p => succ'[n] = succ[n]
  BY <1>1, <1>2, <1>4
<1>6. ASSUME NEW n \in R PROVE NextOf(R, n, succ'[n])
  BY <1>1, <1>3, <1>4, <1>5, LeaveOthers
<1>7. ASSUME NEW n \in R PROVE PrevOf(R, n, pred[n])
  BY <1>1, <1>3, <1>4, LeaveOthers
<1>8. R \in SUBSET Node
  BY <1>1
<1> QED BY <1>1, <1>2, <1>5, <1>6, <1>7, <1>8 DEF LeaveInv, LeaverStands, NeighboursAfterLeave

LEMMA LeaveInvStep == LeaveInv /\ [LeaveNext]_allVars => LeaveInv'
<1> SUFFICES ASSUME LeaveInv, [LeaveNext]_allVars PROVE LeaveInv'
  OBVIOUS
<1>1. CASE \/ \E x \in Node : BeginLeave(x)
           \/ LeaveAlone \/ FetchText \/ FetchEnd
           \/ LeaveLookup \/ LeaveFound \/ LeaveNotice \/ LeaveRefused
  BY <1>1, WalkKeepsLinks
<1>2. CASE leaver # NoNode /\ LookupStep /\ UNCHANGED <<ringVars, copies, jobVars, leaveVars>>
  BY <1>2, NothingMoves DEF ringVars, leaveVars
<1>3. CASE LeavePred
  BY <1>3, LeavePredKeeps
<1>4. CASE LeaveSucc
  BY <1>4, LeaveSuccKeeps
<1>5. CASE \/ UNCHANGED <<ringVars, leaveVars>>
           \/ UNCHANGED allVars
  BY <1>5, NothingMoves DEF allVars, vars, ringVars, leaveVars
<1> QED BY <1>1, <1>2, <1>3, <1>4, <1>5
        DEF LeaveNext, LeaveStep, JobStep, LeaveStopped

\* The inductive invariant of the leaves.
THEOREM LeaveInvariant == LeaveSpec => []LeaveInv
BY LeaveInvInit, LeaveInvStep, PTL DEF LeaveSpec

\* After every leave that comes to its end, and in the middle of each, the
\* clients that stay know their nearest neighbours among themselves.  A leaver
\* that exits has changed nobody's neighbours: the last state is the one before
\* its LeaveUpdateNeighbor, with the leaver still among them.
THEOREM LeavesKeepNeighbours == LeaveSpec => []NeighboursAfterLeave
<1>1. LeaveInv => NeighboursAfterLeave
  BY DEF LeaveInv
<1> QED BY <1>1, LeaveInvariant, PTL

----------------------------------------------------------------------------
(****************************************************************************)
(* Types, and whose lookup it is.                                           *)
(****************************************************************************)

\* A lookup belongs to the job, or to the leaver's loop over its fingers;
\* there is never one of each.
LookupOfLeaver ==
  /\ leaver = NoNode => LookupOfJob
  /\ leaver # NoNode =>
       /\ job = "none"
       /\ lpc # "idle" => lat = "fingers" /\ lidx < FTLEN
       /\ lat = "notice" => lidx < FTLEN

LeaveTypes == LeaveTypeOK /\ LoopInRange /\ LookupOfLeaver

LEMMA NodesAreIds ==
  /\ \A x \in Node : x \in Id /\ x # NoNode
  /\ First \in Node
  /\ FTLEN \in Nat /\ 1 \in 1 .. FTLEN /\ Nothing \in [Entry -> Nat]
BY NodeAssumption, HashMaxAssumption, FingerAssumption DEF Id, NoNode, Nothing

LEMMA LeaveTypesInit == LeaveInit => LeaveTypes
<1> SUFFICES ASSUME LeaveInit PROVE LeaveTypes
  OBVIOUS
<1>1. created \in Rings /\ created \subseteq Node /\ member = created
  BY RingsAssumption DEF LeaveInit
<1>2. succ \in [Node -> Node] /\ pred \in [Node -> Node]
  BY LeaveInvInit DEF LeaveInv
<1>3. ft \in [Node -> [Finger -> Node]]
  <2>1. \A n \in created, i \in Finger : ft[n][i] \in created
    BY DEF LeaveInit, OwnerOf
  <2>2. ft = [n \in Node |-> [i \in Finger |->
               IF n \in created
                 THEN CHOOSE s \in created : OwnerOf(created, FingerStart(n, i), s)
                 ELSE n]]
    BY DEF LeaveInit
  <2>3. \A n \in Node \ created, i \in Finger : ft[n][i] = n
    BY <2>2
  <2>4. \A n \in Node, i \in Finger : ft[n][i] \in Node
    BY <1>1, <2>1, <2>3
  <2> QED BY <2>2, <2>4
<1>4. /\ lpc = "idle" /\ caller = First /\ key = First /\ tempA = First /\ tempB = First
      /\ job = "none" /\ text = NoText /\ at = 0 /\ found = <<>> /\ left = Jobs
      /\ answer = "none" /\ leaver = NoNode /\ lat = "none" /\ lidx = 1
      /\ temppr = First /\ unsent = Nothing
      /\ copies = [n \in Node |-> Nothing]
  BY DEF LeaveInit
<1>5. LookupTypeOK
  BY <1>1, <1>2, <1>3, <1>4, NodesAreIds DEF LookupTypeOK, RegistersTypeOK
<1>6. copies \in [Node -> [Entry -> Nat]]
  BY <1>4, NodesAreIds
<1>7. <<>> \in Seq(0 .. 2) /\ Len(<<>>) = 0 /\ Jobs \in Nat
  BY HashAssumption
<1>8. StoreTypeOK
  BY <1>4, <1>5, <1>6, <1>7 DEF StoreTypeOK
<1>9. LeaveTypeOK
  BY <1>1, <1>4, <1>8, NodesAreIds DEF LeaveTypeOK
<1> QED BY <1>4, <1>9 DEF LeaveTypes, LoopInRange, LookupOfLeaver, LookupOfJob

\* A job of the store, while nobody is leaving.
LEMMA JobKeepsTypes ==
  ASSUME LeaveTypes, leaver = NoNode, [Next]_vars, UNCHANGED leaveVars
  PROVE  LeaveTypes'
<1>1. StoreTypeOK' /\ LookupOfJob' /\ LoopInRange'
  BY JobsTypes DEF LeaveTypes, LeaveTypeOK, LookupOfLeaver
<1> QED BY <1>1 DEF LeaveTypes, LeaveTypeOK, LookupOfLeaver, leaveVars

LEMMA LeaveTypesStep == LeaveTypes /\ [LeaveNext]_allVars => LeaveTypes'
<1> SUFFICES ASSUME LeaveTypes, [LeaveNext]_allVars PROVE LeaveTypes'
  OBVIOUS
<1>1. /\ LeaveTypeOK /\ StoreTypeOK /\ LookupTypeOK /\ RegistersTypeOK
      /\ LoopInRange /\ LookupOfLeaver
      /\ copies \in [Node -> [Entry -> Nat]] /\ unsent \in [Entry -> Nat]
      /\ succ \in [Node -> Node] /\ pred \in [Node -> Node] /\ ft \in [Node -> [Finger -> Node]]
      /\ leaver \in Node \cup {NoNode} /\ member \subseteq Node
  BY DEF LeaveTypes, LeaveTypeOK, StoreTypeOK, LookupTypeOK
<1>2. ASSUME leaver = NoNode, [Next]_vars, UNCHANGED leaveVars
      PROVE  LeaveTypes'
  BY <1>2, JobKeepsTypes
<1>3. CASE \E x \in Node : BeginLeave(x)
  <2>1. PICK x \in Node : BeginLeave(x)
    BY <1>3
  <2>2. /\ leaver' = x /\ lat' = "fetch" /\ unsent' = copies[x] /\ left' = left - 1 /\ left > 0
        /\ leaver = NoNode /\ job = "none"
        /\ UNCHANGED <<ringVars, lookVars, copies, job, text, at, found, answer, created, lidx, temppr>>
    BY <2>1 DEF BeginLeave
  <2>3. StoreTypeOK'
    BY <1>1, <2>2, HashAssumption DEF StoreTypeOK, LookupTypeOK, RegistersTypeOK, ringVars, lookVars
  <2>4. lpc' = "idle"
    BY <1>1, <2>2 DEF LookupOfLeaver, LookupOfJob, lookVars
  <2>5. unsent' \in [Entry -> Nat] /\ x # NoNode
    BY <1>1, <2>2, NodesAreIds
  <2> QED BY <1>1, <2>2, <2>3, <2>4, <2>5
          DEF LeaveTypes, LeaveTypeOK, LoopInRange, LookupOfLeaver
<1>4. CASE LeaveAlone \/ LeaveRefused
  <2>1. /\ lat \in {"fetch", "notice"} /\ lat' = "failed"
        /\ UNCHANGED <<vars, created, leaver, lidx, temppr, unsent>>
    BY <1>4 DEF LeaveAlone, LeaveRefused
  <2>2. StoreTypeOK' /\ LoopInRange' /\ lpc' = lpc /\ job' = job
    BY <1>1, <2>1 DEF StoreTypeOK, LookupTypeOK, RegistersTypeOK, LoopInRange, vars, ringVars,
       lookVars, jobVars
  <2>3. leaver # NoNode
    BY <1>1, <2>1 DEF LeaveTypeOK
  <2> QED BY <1>1, <2>1, <2>2, <2>3 DEF LeaveTypes, LeaveTypeOK, LookupOfLeaver
<1>5. CASE FetchText
  <2>1. PICK e \in Entry :
          /\ unsent[e] > 0
          /\ unsent' = [unsent EXCEPT ![e] = unsent[e] - 1]
          /\ copies' = [copies EXCEPT ![succ[leaver]] =
               [copies[succ[leaver]] EXCEPT ![<<Hash[e[2]], e[2]>>] =
                  copies[succ[leaver]][<<Hash[e[2]], e[2]>>] + 1]]
    BY <1>5 DEF FetchText
  <2>2. UNCHANGED <<ringVars, lookVars, jobVars, created, leaver, lat, lidx, temppr>> /\ lat = "fetch"
    BY <1>5 DEF FetchText
  <2>3. PICK h : h = <<Hash[e[2]], e[2]>>
    OBVIOUS
  <2>4. copies' = [copies EXCEPT ![succ[leaver]] =
                     [copies[succ[leaver]] EXCEPT ![h] = copies[succ[leaver]][h] + 1]]
    BY <2>1, <2>3
  <2>5. copies' \in [Node -> [Entry -> Nat]] /\ unsent' \in [Entry -> Nat]
    <3>1. leaver \in Node /\ succ[leaver] \in Node
      BY <1>1, <2>2 DEF LeaveTypeOK
    <3> DEFINE c == [copies[succ[leaver]] EXCEPT ![h] = copies[succ[leaver]][h] + 1]
    <3>2. c \in [Entry -> Nat]
      <4>1. PICK f \in [Entry -> Nat] : f = copies[succ[leaver]]
        BY <1>1, <3>1
      <4>2. \A x \in Entry : [f EXCEPT ![h] = f[h] + 1][x] \in Nat
        OBVIOUS
      <4> QED BY <4>1, <4>2
    <3> HIDE DEF c
    <3>e. copies' = [copies EXCEPT ![succ[leaver]] = c]
      BY <2>4 DEF c
    <3>3. copies' \in [Node -> [Entry -> Nat]]
      BY <1>1, <3>1, <3>2, <3>e
    <3> QED BY <1>1, <2>1, <3>3
  <2> QED BY <1>1, <2>2, <2>5
          DEF LeaveTypes, LeaveTypeOK, StoreTypeOK, LookupTypeOK, RegistersTypeOK, LoopInRange,
              LookupOfLeaver, LookupOfJob, Here, Consulting, ringVars, lookVars, jobVars
<1>6. CASE FetchEnd \/ LeaveNotice
  <2>1. /\ leaver # NoNode /\ leaver \in Node
        /\ lpc = "idle" /\ job = "none"
        /\ UNCHANGED <<member, succ, pred, lookVars, copies, jobVars, created, leaver, unsent>>
    BY <1>1, <1>6 DEF FetchEnd, LeaveNotice, LeaveTypeOK, LookupOfLeaver
  <2>2. \A n \in Node : Renamed(n, leaver, succ[leaver]) \in [Finger -> Node]
    BY <1>1, <2>1 DEF Renamed
  <2>3. ft' \in [Node -> [Finger -> Node]]
    <3>1. PICK n \in Node : ft' = [ft EXCEPT ![n] = Renamed(n, leaver, succ[leaver])]
      BY <1>1, <1>6, <2>1 DEF FetchEnd, LeaveNotice, LeaveTypeOK
    <3>2. PICK r \in [Finger -> Node] : ft' = [ft EXCEPT ![n] = r]
      BY <2>2, <3>1
    <3> QED BY <1>1, <3>2
  <2>4. StoreTypeOK' /\ LoopInRange'
    BY <1>1, <2>1, <2>3 DEF StoreTypeOK, LookupTypeOK, RegistersTypeOK, LoopInRange, lookVars, jobVars
  <2>5. /\ lat' \in {"fingers", "notice"} /\ lidx' \in 1 .. FTLEN /\ temppr' \in Node
        /\ lat' = "notice" => lidx' < FTLEN
    <3>1. CASE FetchEnd
      BY <1>1, <3>1, NodesAreIds DEF FetchEnd, LeaveTypeOK
    <3>2. CASE LeaveNotice
      <4>1. lidx \in 1 .. FTLEN /\ lidx < FTLEN /\ temppr \in Node /\ pred[temppr] \in Node
        BY <1>1, <2>1, <3>2 DEF LeaveNotice, LeaveTypeOK, LookupOfLeaver
      <4> QED BY <3>2, <4>1, NodesAreIds DEF LeaveNotice, Visit
    <3> QED BY <1>6, <3>1, <3>2
  <2> QED BY <1>1, <2>1, <2>4, <2>5
          DEF LeaveTypes, LeaveTypeOK, LookupOfLeaver, lookVars, jobVars
<1>7. CASE LeaveLookup
  <2>1. /\ lat = "fingers" /\ lidx < FTLEN /\ leaver # NoNode /\ leaver \in Node /\ lidx \in Finger
        /\ BeginLookup(leaver, RingMinus(leaver, 2 ^ (lidx - 1)))
        /\ UNCHANGED <<ringVars, copies, jobVars, leaveVars>>
    BY <1>1, <1>7, NodesAreIds DEF LeaveLookup, LeaveTypeOK, Finger
  <2>2. RingMinus(leaver, 2 ^ (lidx - 1)) \in Id
    BY <2>1, NodesAreIds, FingerIds
  <2>3. LookupTypeOK'
    BY <1>1, <2>1, <2>2, WalkTypes
  <2> QED BY <1>1, <2>1, <2>3
          DEF LeaveTypes, LeaveTypeOK, StoreTypeOK, LoopInRange, LookupOfLeaver, jobVars, leaveVars
<1>8. CASE LeaveFound
  <2>1. /\ lat = "fingers" /\ leaver # NoNode /\ lidx \in 1 .. FTLEN /\ lidx < FTLEN
        /\ tempB \in Node /\ pred[tempB] \in Node /\ job = "none"
        /\ UNCHANGED <<ringVars, copies, jobVars, created, leaver, unsent>>
        /\ EndLookup /\ Visit(pred[tempB])
    BY <1>1, <1>8 DEF LeaveFound, LeaveTypeOK, LookupOfLeaver, RegistersTypeOK, EndLookup
  <2>2. LookupTypeOK' /\ lpc' = "idle"
    BY <1>1, <2>1, WalkTypes DEF EndLookup
  <2>3. /\ lat' \in {"fingers", "notice"} /\ lidx' \in 1 .. FTLEN /\ temppr' \in Node
        /\ lat' = "notice" => lidx' < FTLEN
    BY <1>1, <2>1, NodesAreIds DEF Visit, LeaveTypeOK
  <2> QED BY <1>1, <2>1, <2>2, <2>3
          DEF LeaveTypes, LeaveTypeOK, StoreTypeOK, LoopInRange, LookupOfLeaver, jobVars
<1>9. CASE leaver # NoNode /\ LookupStep /\ UNCHANGED <<ringVars, copies, jobVars, leaveVars>>
  <2>1. LookupTypeOK'
    BY <1>1, <1>9, WalkTypes
  <2>2. lpc # "idle"
    BY <1>9 DEF LookupStep, LookupFirst, LookupReturn, LookupClosest, LookupSelf, LookupHop
  <2> QED BY <1>1, <1>9, <2>1, <2>2
          DEF LeaveTypes, LeaveTypeOK, StoreTypeOK, LoopInRange, LookupOfLeaver, jobVars, leaveVars
<1>10. CASE LeavePred
  <2>1. /\ lat = "fingers" /\ lidx = FTLEN /\ leaver # NoNode /\ leaver \in Node
        /\ pred' = [pred EXCEPT ![succ[leaver]] = pred[leaver]]
        /\ lat' = "unlink"
        /\ UNCHANGED <<member, succ, ft, lookVars, copies, jobVars, created, leaver, lidx, temppr, unsent>>
    BY <1>1, <1>10 DEF LeavePred, LeaveTypeOK
  <2>2. pred' \in [Node -> Node]
    BY <1>1, <2>1
  <2>3. lpc = "idle"
    BY <1>1, <2>1, NodesAreIds DEF LookupOfLeaver
  <2> QED BY <1>1, <2>1, <2>2, <2>3
          DEF LeaveTypes, LeaveTypeOK, StoreTypeOK, LookupTypeOK, RegistersTypeOK, LoopInRange,
              LookupOfLeaver, lookVars, jobVars
<1>11. CASE LeaveSucc
  <2>1. /\ lat = "unlink" /\ leaver # NoNode /\ leaver \in Node
        /\ succ' = [succ EXCEPT ![pred[leaver]] = succ[leaver]]
        /\ ft' = [ft EXCEPT ![pred[leaver]] = [ft[pred[leaver]] EXCEPT ![1] = succ[leaver]]]
        /\ member' = member \ {leaver}
        /\ leaver' = NoNode /\ lat' = "none" /\ lidx' = 1
        /\ temppr' = First /\ unsent' = Nothing
        /\ UNCHANGED <<pred, lookVars, copies, jobVars, created>>
    BY <1>1, <1>11 DEF LeaveSucc, LeaveTypeOK
  <2>2. lpc = "idle"
    BY <1>1, <2>1 DEF LookupOfLeaver
  <2>3. succ' \in [Node -> Node] /\ pred[leaver] \in Node /\ succ[leaver] \in Node
    BY <1>1, <2>1
  <2>4. [ft[pred[leaver]] EXCEPT ![1] = succ[leaver]] \in [Finger -> Node]
    BY <1>1, <2>3
  <2>5. ft' \in [Node -> [Finger -> Node]]
    BY <1>1, <2>1, <2>3, <2>4
  <2>6. StoreTypeOK' /\ LoopInRange'
    BY <1>1, <2>1, <2>3, <2>5
       DEF StoreTypeOK, LookupTypeOK, RegistersTypeOK, LoopInRange, lookVars, jobVars
  <2>7. LookupOfJob'
    BY <2>1, <2>2 DEF LookupOfJob, lookVars
  <2> QED BY <1>1, <2>1, <2>6, <2>7, NodesAreIds DEF LeaveTypes, LeaveTypeOK, LookupOfLeaver
<1>12. CASE UNCHANGED allVars
  BY <1>1, <1>12
     DEF allVars, vars, ringVars, lookVars, jobVars, leaveVars, LeaveTypes, LeaveTypeOK,
         StoreTypeOK, LookupTypeOK, RegistersTypeOK, LoopInRange, LookupOfLeaver, LookupOfJob,
         Here, Consulting
<1>13. CASE leaver = NoNode /\ (ClientStep \/ \E t \in Text : BeginStore(t) \/ BeginSearch(t))
            /\ UNCHANGED <<ringVars, leaveVars>>
  <2>1. Next
    BY <1>13 DEF Next
  <2> QED BY <1>2, <1>13, <2>1
<1> QED BY <1>3, <1>4, <1>5, <1>6, <1>7, <1>8, <1>9, <1>10, <1>11, <1>12, <1>13
        DEF LeaveNext, LeaveStep, JobStep, LeaveStopped

\* Leaves keep their types.
THEOREM LeaveIsTyped == LeaveSpec => []LeaveTypeOK
<1>1. LeaveTypes => LeaveTypeOK
  BY DEF LeaveTypes
<1> QED BY <1>1, LeaveTypesInit, LeaveTypesStep, PTL DEF LeaveSpec

----------------------------------------------------------------------------
(****************************************************************************)
(* Lookups after leaves.                                                    *)
(****************************************************************************)

\* The first finger is the successor; only that of the leaver's predecessor
\* may pass over the leaver already, if it was told to rename it.
FirstFingers ==
  \A n \in member :
     \/ ft[n][1] = succ[n]
     \/ lat # "none" /\ n = pred[leaver] /\ ft[n][1] = succ[leaver]

SettledWalk == Settled => RegistersTrack(member) /\ OwnerFound(member)

AfterInv == LeaveInv /\ LeaveTypes /\ FirstFingers /\ SettledWalk

LEMMA AfterBasics ==
  ASSUME AfterInv
  PROVE  /\ member \in SUBSET Id /\ member \subseteq Node
         /\ succ \in [Node -> Node] /\ pred \in [Node -> Node] /\ ft \in [Node -> [Finger -> Node]]
         /\ RegistersTypeOK
         /\ 1 \in Finger
         /\ lat = "none" <=> leaver = NoNode
         /\ lat # "none" => leaver \in member
         /\ lat \in {"fingers", "notice", "unlink"} => succ[leaver] # leaver
         /\ \A n \in member : NextOf(member, n, succ[n]) /\ succ[n] \in member
<1>1. /\ succ \in [Node -> Node] /\ pred \in [Node -> Node] /\ ft \in [Node -> [Finger -> Node]]
      /\ member \subseteq Node /\ RegistersTypeOK
      /\ leaver = NoNode <=> lat = "none"
  BY DEF AfterInv, LeaveTypes, LeaveTypeOK, StoreTypeOK, LookupTypeOK
<1>2. 1 \in Finger
  BY FingerAssumption DEF Finger
<1>3. lat # "none" => leaver \in member
  BY DEF AfterInv, LeaveInv, LeaverStands
<1>4. lat \in {"fingers", "notice", "unlink"} => succ[leaver] # leaver
  BY DEF AfterInv, LeaveInv, LeaverStands
<1>5. \A n \in member : NextOf(member, n, succ[n]) /\ succ[n] \in member
  BY DEF AfterInv, LeaveInv, NeighboursAfterLeave, NextOf
<1>6. member \in SUBSET Id
  BY <1>1, NodesAreIds
<1> QED BY <1>1, <1>2, <1>3, <1>4, <1>5, <1>6

\* Once the clients are settled the ring is one TriadLookup can walk.
LEMMA SettledIsWalkable ==
  ASSUME AfterInv, Settled
  PROVE  Walkable(member)
<1>1. lat = "none"
  BY AfterBasics DEF Settled
<1>2. NeighboursCorrect(member)
  BY <1>1 DEF AfterInv, LeaveInv, NeighboursAfterLeave, NeighboursCorrect
<1>3. FingersUsable(member)
  BY <1>1 DEF AfterInv, FirstFingers, Settled, FingersUsable
<1> QED BY <1>2, <1>3, AfterBasics DEF Settled, Walkable

LEMMA AfterInit == LeaveInit => AfterInv
<1> SUFFICES ASSUME LeaveInit PROVE AfterInv
  OBVIOUS
<1>1. LeaveInv /\ LeaveTypes
  BY LeaveInvInit, LeaveTypesInit
<1>2. member = created /\ created \in SUBSET Id /\ lat = "none" /\ lpc = "idle"
  BY RingsAssumption, NodeAssumption DEF LeaveInit
<1>3. \A n \in created : NextOf(created, n, succ[n])
  BY <1>1, <1>2 DEF LeaveInv, NeighboursAfterLeave
<1>4. ASSUME NEW n \in created PROVE ft[n][1] = succ[n]
  <2>1. 1 \in Finger /\ 2 ^ (1 - 1) = 1 /\ 1 \in Id
    BY FingerAssumption, HashMaxAssumption DEF Finger, Id
  <2>2. FingerStart(n, 1) \in Id /\ Dist(n, FingerStart(n, 1)) = 1
    BY <1>2, <2>1, RingPlusMinus DEF FingerStart
  <2>3. OwnerOf(created, FingerStart(n, 1), succ[n])
    BY <1>2, <1>3, <2>2, NextOwnsFirstStart
  <2>4. OwnerOf(created, FingerStart(n, 1), ft[n][1])
    BY <2>1 DEF LeaveInit
  <2> QED BY <1>2, <2>2, <2>3, <2>4, OwnerUnique
<1> QED BY <1>1, <1>2, <1>4
        DEF AfterInv, FirstFingers, SettledWalk, RegistersTrack, OwnerFound

\* Renaming the leaver at any client keeps the first fingers.
LEMMA RenameKeeps ==
  ASSUME AfterInv, NEW n \in Node, succ[leaver] # leaver, lat # "none",
         ft' = [ft EXCEPT ![n] = Renamed(n, leaver, succ[leaver])],
         UNCHANGED <<member, succ, pred, leaver>>, lat' # "none"
  PROVE  FirstFingers'
<1>1. SUFFICES ASSUME NEW m \in member
               PROVE  ft'[m][1] = succ[m] \/ (m = pred[leaver] /\ ft'[m][1] = succ[leaver])
  BY DEF FirstFingers
<1>2. ft[m][1] = succ[m] \/ (m = pred[leaver] /\ ft[m][1] = succ[leaver])
  BY DEF AfterInv, FirstFingers
<1>3. ft'[m][1] = ft[m][1] \/ (ft[m][1] = leaver /\ ft'[m][1] = succ[leaver])
  BY AfterBasics DEF Renamed
<1>4. ASSUME ft[m][1] = leaver PROVE m = pred[leaver]
  <2>1. succ[m] = leaver /\ leaver \in member /\ NextOf(member, m, leaver)
    BY <1>2, <1>4, AfterBasics
  <2>2. PrevOf(member, leaver, pred[leaver])
    <3>1. leaver # succ[leaver]
      OBVIOUS
    <3> QED BY <2>1, <3>1 DEF AfterInv, LeaveInv, NeighboursAfterLeave
  <2> QED BY <2>1, <2>2, AfterBasics, PrevOfNext
<1> QED BY <1>2, <1>3, <1>4

\* A lookup of a job on a settled ring.
LEMMA JobWalks ==
  ASSUME AfterInv, leaver = NoNode, [Next]_vars, UNCHANGED <<ringVars, leaveVars>>
  PROVE  SettledWalk'
<1>1. SUFFICES ASSUME Settled' PROVE RegistersTrack(member)' /\ OwnerFound(member)'
  BY DEF SettledWalk
<1>2. UNCHANGED <<member, succ, pred, ft, leaver>>
  BY DEF ringVars, leaveVars
<1>3. Settled
  BY <1>1, <1>2 DEF Settled
<1>4. Walkable(member) /\ RegistersTypeOK /\ RegistersTrack(member) /\ OwnerFound(member)
  BY <1>3, SettledIsWalkable, AfterBasics DEF AfterInv, SettledWalk
<1>5. CASE LookupStep
  <2>1. PICK R : R = member
    OBVIOUS
  <2>2. RegistersTrack(R)' /\ OwnerFound(R)'
    BY <1>2, <1>4, <1>5, <2>1, WalkKeeps
  <2> QED BY <1>2, <2>1, <2>2
<1>6. CASE lpc' \in {"first", "idle"}
  BY <1>6 DEF RegistersTrack, OwnerFound
<1>7. CASE UNCHANGED lookVars
  BY <1>2, <1>4, <1>7 DEF RegistersTrack, OwnerFound, lookVars
<1>8. LookupStep \/ lpc' \in {"first", "idle"} \/ UNCHANGED lookVars
  BY DEF Next, ClientStep, Stopped, BeginStore, BeginSearch, Begin, StoreHere, StoreLookup,
         StoreAdd, StoreRefused, SearchHere, SearchFails, SearchLookup, SearchAsk, SearchAgain,
         SearchSkip, SearchOwn, SearchUnset, AskBogus, AskReplica, SearchSelf, SearchVerdict,
         EndLookup, BeginLookup, vars
<1> QED BY <1>5, <1>6, <1>7, <1>8

LEMMA AfterStep == AfterInv /\ [LeaveNext]_allVars => AfterInv'
<1> SUFFICES ASSUME AfterInv, [LeaveNext]_allVars PROVE AfterInv'
  OBVIOUS
<1>1. LeaveInv' /\ LeaveTypes'
  BY LeaveInvStep, LeaveTypesStep DEF AfterInv
<1>2. leaver' # NoNode => SettledWalk'
  BY DEF SettledWalk, Settled
<1>3. ASSUME UNCHANGED <<member, succ, pred, ft, leaver>>, lat # "none" => lat' # "none"
      PROVE  FirstFingers'
  BY <1>3 DEF AfterInv, FirstFingers
<1>4. CASE \E x \in Node : BeginLeave(x)
  <2>1. leaver' # NoNode /\ leaver = NoNode /\ UNCHANGED <<member, succ, pred, ft>>
    BY <1>4, NodesAreIds DEF BeginLeave, ringVars
  <2>2. FirstFingers'
    BY <2>1, AfterBasics DEF AfterInv, FirstFingers
  <2> QED BY <1>1, <1>2, <2>1, <2>2 DEF AfterInv
<1>5. CASE LeaveAlone \/ LeaveRefused \/ FetchText \/ LeaveLookup \/ LeaveFound \/ LeavePred
           \/ (leaver # NoNode /\ LookupStep /\ UNCHANGED <<ringVars, copies, jobVars, leaveVars>>)
  <2>1. leaver # NoNode /\ lat' # "none" /\ UNCHANGED <<member, succ, ft, leaver>>
    BY <1>5, AfterBasics
       DEF LeaveAlone, LeaveRefused, FetchText, LeaveLookup, LeaveFound, Visit, LeavePred,
           vars, ringVars, leaveVars
  <2>2. CASE UNCHANGED pred
    BY <1>1, <1>2, <1>3, <2>1, <2>2 DEF AfterInv
  <2>3. CASE LeavePred
    <3>1. pred'[leaver] = pred[leaver]
      BY <2>1, <2>3, AfterBasics DEF LeavePred
    <3>2. FirstFingers'
      BY <2>1, <3>1, AfterBasics DEF AfterInv, FirstFingers
    <3> QED BY <1>1, <1>2, <2>1, <3>2 DEF AfterInv
  <2> QED BY <1>5, <2>2, <2>3
          DEF LeaveAlone, LeaveRefused, FetchText, LeaveLookup, LeaveFound, vars, ringVars
<1>6. CASE FetchEnd \/ LeaveNotice
  <2>1. /\ lat \in {"fetch", "notice"} /\ lat' # "none" /\ succ[leaver] # leaver /\ leaver # NoNode
        /\ UNCHANGED <<member, succ, pred, leaver>>
    BY <1>6, AfterBasics DEF FetchEnd, LeaveNotice, Visit
  <2>2. \E n \in Node : ft' = [ft EXCEPT ![n] = Renamed(n, leaver, succ[leaver])]
    BY <1>6, <2>1, AfterBasics DEF FetchEnd, LeaveNotice, AfterInv, LeaveTypes, LeaveTypeOK
  <2>3. FirstFingers'
    BY <2>1, <2>2, RenameKeeps
  <2> QED BY <1>1, <1>2, <2>1, <2>3 DEF AfterInv
<1>7. CASE LeaveSucc
  <2>1. /\ lat = "unlink" /\ lat' = "none" /\ leaver \in Node /\ pred[leaver] \in Node
        /\ succ' = [succ EXCEPT ![pred[leaver]] = succ[leaver]]
        /\ ft' = [ft EXCEPT ![pred[leaver]][1] = succ[leaver]]
        /\ member' = member \ {leaver} /\ lpc' = lpc
    BY <1>7, AfterBasics DEF LeaveSucc, lookVars
  <2>2. lpc = "idle"
    BY <2>1, AfterBasics DEF AfterInv, LeaveTypes, LookupOfLeaver
  <2>3. \A n \in member' : ft'[n][1] = succ'[n]
    BY <2>1, AfterBasics DEF AfterInv, FirstFingers
  <2>4. SettledWalk'
    BY <2>1, <2>2 DEF SettledWalk, RegistersTrack, OwnerFound
  <2> QED BY <1>1, <2>3, <2>4 DEF AfterInv, FirstFingers
<1>8. CASE leaver = NoNode /\ (ClientStep \/ \E t \in Text : BeginStore(t) \/ BeginSearch(t))
           /\ UNCHANGED <<ringVars, leaveVars>>
  <2>1. Next
    BY <1>8 DEF Next
  <2>2. SettledWalk'
    BY <1>8, <2>1, JobWalks
  <2>3. FirstFingers'
    BY <1>3, <1>8 DEF ringVars, leaveVars
  <2> QED BY <1>1, <2>2, <2>3 DEF AfterInv
<1>9. CASE UNCHANGED allVars
  <2>1. FirstFingers'
    BY <1>3, <1>9 DEF allVars, vars, ringVars, leaveVars
  <2>2. SettledWalk'
    BY <1>9 DEF AfterInv, SettledWalk, Settled, RegistersTrack, OwnerFound, allVars, vars, ringVars,
                lookVars, leaveVars
  <2> QED BY <1>1, <2>1, <2>2 DEF AfterInv
<1> QED BY <1>4, <1>5, <1>6, <1>7, <1>8, <1>9 DEF LeaveNext, LeaveStep, JobStep, LeaveStopped

\* Whatever clients have left, and in whatever order: as long as the fingers
\* of those that stay name only each other, lookups are right.
THEOREM LookupsAreRightAfterLeaves == LeaveSpec => []LookupsAfterLeave
<1>1. AfterInv => LookupsAfterLeave
  BY DEF AfterInv, SettledWalk, LookupsAfterLeave
<1> QED BY <1>1, AfterInit, AfterStep, PTL DEF LeaveSpec

----------------------------------------------------------------------------
(****************************************************************************)
(* The fingers after leaves.  A lookup of the leaver may go astray: over a  *)
(* client that has left and whose id is the start of a stale finger, or     *)
(* past the leaver itself at a client that renamed it already.  Neither     *)
(* matters: the clients to tell are still all at or below the node where    *)
(* the walk over the predecessors begins.                                   *)
(****************************************************************************)

\* Going up b from n and going down b from x meet x and n at the same distance.
LEMMA PlusMinusDist ==
  ASSUME NEW n \in Id, NEW x \in Id, NEW b \in Id
  PROVE  Dist(RingPlus(n, b), x) = Dist(n, RingMinus(x, b))
BY HashMaxAssumption DEF Id, RingPlus, RingMinus, Dist

\* An id that x owns, and is not x, lies between x and the member before it.
LEMMA OwnedBelow ==
  ASSUME NEW R \in SUBSET Id, NEW x \in R, NEW p, PrevOf(R, x, p), p # x,
         NEW st \in Id, st # x, OwnerOf(R, st, x)
  PROVE  0 < Dist(st, x) /\ Dist(st, x) < Dist(p, x) /\ ~NotInRange(st, p, x)
BY HashMaxAssumption DEF Id, PrevOf, OwnerOf, Dist, NotInRange

\* The exit of the walk at a node whose successor is at or beyond q.
LEMMA ReachesNext ==
  ASSUME NEW q \in Id, NEW c \in Id, NEW e \in Id, NEW pe \in Id, NEW n \in Id,
         c # e, ~NotInRange(q, c, e), ~InRange(e, c, pe), pe # e,
         ~InRange(e, c, n), ~InRange(e, pe, n), 0 < Dist(n, q)
  PROVE  Dist(pe, q) <= Dist(n, q)
BY HashMaxAssumption DEF Id, InRange, NotInRange, Dist

\* The exit at a node that q lies before.
LEMMA ReachesOwn ==
  ASSUME NEW q \in Id, NEW c \in Id, NEW pc \in Id, NEW n \in Id,
         pc # c, ~InRange(c, pc, n), q = c \/ ~NotInRange(q, pc, c), 0 < Dist(n, q)
  PROVE  Dist(pc, q) <= Dist(n, q)
BY HashMaxAssumption DEF Id, InRange, NotInRange, Dist

\* The exit at a node c, no client, with nobody up to q.
LEMMA ReachesGone ==
  ASSUME NEW q \in Id, NEW c \in Id, NEW pc \in Id, NEW f \in Id, NEW n \in Id,
         pc # c, f # c, ~InRange(q, c, f), ~InRange(f, c, n), ~InRange(c, pc, n), n # c,
         0 < Dist(n, q)
  PROVE  Dist(pc, q) <= Dist(n, q)
BY HashMaxAssumption DEF Id, InRange, Dist

\* Below a client the one before it is the next.
LEMMA ReachesDown ==
  ASSUME NEW q \in Id, NEW c \in Id, NEW pc \in Id, NEW n \in Id,
         pc # c, ~InRange(c, pc, n), n # c, Dist(c, q) <= Dist(n, q)
  PROVE  Dist(pc, q) <= Dist(n, q)
BY HashMaxAssumption DEF Id, InRange, Dist

\* No id near enough below the leaver's predecessor lies beyond the leaver.
LEMMA NeedyNotBeyond ==
  ASSUME NEW R \in SUBSET Id, NEW x \in R, NEW s, NextOf(R, x, s), NEW p, PrevOf(R, x, p),
         NEW n \in R \ {x}, NEW q \in Id, Dist(n, q) < Dist(p, x)
  PROVE  ~(0 < Dist(x, q) /\ Dist(x, q) <= Dist(x, s) /\ q # n)
BY HashMaxAssumption DEF Id, NextOf, PrevOf, Dist

\* The walk stops at the leaver or at its successor.
LEMMA StopAtLeaver ==
  ASSUME NEW R \in SUBSET Id, NEW x \in R, NEW p, PrevOf(R, x, p),
         NEW n \in R \ {x}, NEW q \in Id, Dist(x, q) <= Dist(n, q)
  PROVE  Dist(p, x) <= Dist(n, q)
BY HashMaxAssumption DEF Id, PrevOf, Dist

LEMMA StopAtSucc ==
  ASSUME NEW R \in SUBSET Id, NEW x \in R, NEW s, NextOf(R, x, s), s # x, NEW p, PrevOf(R, x, p),
         NEW n \in R \ {x, s}, NEW q \in Id, Dist(s, q) <= Dist(n, q)
  PROVE  Dist(p, x) <= Dist(n, q)
BY HashMaxAssumption DEF Id, NextOf, PrevOf, Dist

\* When x has left its ids are its successor's, and nobody else's owner changes.
LEMMA OwnerLeaves ==
  ASSUME NEW R \in SUBSET Id, NEW x \in R, NEW s, NextOf(R, x, s), s # x,
         NEW st \in Id, st # x, NEW f, OwnerOf(R, st, f)
  PROVE  OwnerOf(R \ {x}, st, IF f = x THEN s ELSE f)
BY HashMaxAssumption DEF Id, NextOf, OwnerOf, Dist

\* All finger starts of n but those that are ids of clients no longer in R.
RightFingers(R, n) ==
  \A i \in Finger :
     FingerStart(n, i) \notin created \ R => OwnerOf(R, FingerStart(n, i), ft[n][i])

Stay == member \ {leaver}

\* The id the leaver looks for.
Target == RingMinus(leaver, 2 ^ (lidx - 1))

\* Finger i of n names the leaver and has to name its successor.
Needs(n, i) ==
  FingerStart(n, i) # leaver /\ OwnerOf(member, FingerStart(n, i), leaver)

\* Going down from Target c comes before all that have to be told.
Reaches(c) == \A n \in Stay : Needs(n, lidx) => Dist(c, Target) <= Dist(n, Target)

\* The variables of a client that has left stay what they were: they name
\* clients, and nobody in the ring has come between it and them.
GoneKeep ==
  /\ member \subseteq created
  /\ \A c \in created : succ[c] \in created /\ pred[c] \in created
  /\ \A c \in created, i \in Finger : ft[c][i] \in created
  /\ \A c \in created, m \in member : ~InRange(succ[c], c, m)
  /\ \A c \in created, m \in member :
       InRange(c, pred[c], m) => lat = "unlink" /\ c = succ[leaver] /\ m = leaver
  /\ \A c \in created : ~InRange(succ[c], c, pred[succ[c]])
  /\ \A c \in created \ member :
       /\ succ[c] # c /\ pred[c] # c /\ ft[c][1] # c
       /\ \A m \in Stay : ~InRange(ft[c][1], c, m)

\* Who has been told when the loop is at lidx.
Telling ==
  /\ lat \in {"none", "fetch"} => \A n \in member : RightFingers(member, n)
  /\ lat \in {"fingers", "notice"} =>
       /\ \A n \in Stay : RightFingers(member, n) \/ RightFingers(Stay, n)
       /\ RightFingers(Stay, succ[leaver])
       /\ \A n \in Stay, i \in Finger : i < lidx /\ Needs(n, i) => RightFingers(Stay, n)
  /\ lat = "notice" =>
       /\ temppr \in created
       /\ \A n \in Stay : Needs(n, lidx) =>
            RightFingers(Stay, n) \/ Dist(temppr, Target) <= Dist(n, Target)
  /\ lat = "unlink" => \A n \in Stay : RightFingers(Stay, n)

\* The registers of the leaver's lookup name clients that are or were in the
\* ring.
LeaverWalk ==
  leaver # NoNode /\ lpc # "idle" =>
    /\ key = Target
    /\ lpc = "test" => tempA \in created /\ tempB = succ[tempA]
    /\ lpc = "closest" =>
         /\ tempA \in created /\ tempB \in created
         /\ NotInRange(key, tempA, succ[tempA])
         /\ tempA = tempB => Reaches(pred[tempA])
    /\ lpc = "done" => tempB \in created /\ Reaches(pred[tempB])

TellInv == AfterInv /\ GoneKeep /\ Telling /\ LeaverWalk

LEMMA TellBasics ==
  ASSUME TellInv
  PROVE  /\ member \subseteq created /\ created \subseteq Node /\ First \in created
         /\ \A c \in created : c \in Id /\ c \in Node /\ succ[c] \in created /\ pred[c] \in created
         /\ leaver # NoNode => leaver \in member
         /\ lat # "unlink" => \A c \in created, m \in member : ~InRange(c, pred[c], m)
<1>1. created \subseteq Node /\ First \in created
  BY RingsAssumption DEF TellInv, AfterInv, LeaveTypes, LeaveTypeOK
<1>2. leaver # NoNode => leaver \in member
  BY AfterBasics DEF TellInv
<1> QED BY <1>1, <1>2, NodesAreIds DEF TellInv, GoneKeep

\* The leaver has two neighbours, and nobody is his own.
LEMMA TellNeighbours ==
  ASSUME TellInv, lat \in {"fingers", "notice", "unlink"}
  PROVE  /\ leaver \in member /\ leaver \in Id /\ succ[leaver] \in Stay /\ pred[leaver] \in Stay
         /\ NextOf(member, leaver, succ[leaver]) /\ PrevOf(member, leaver, pred[leaver])
         /\ member \in SUBSET Id
         /\ lat # "unlink" => \A c \in created : succ[c] # c /\ pred[c] # c
<1>1. /\ leaver \in member /\ succ[leaver] # leaver /\ member \in SUBSET Id
      /\ NextOf(member, leaver, succ[leaver]) /\ succ[leaver] \in member
  BY AfterBasics DEF TellInv
<1>2. PrevOf(member, leaver, pred[leaver])
  BY <1>1 DEF TellInv, AfterInv, LeaveInv, NeighboursAfterLeave
<1>3. pred[leaver] \in Stay
  BY <1>1, <1>2 DEF PrevOf, Stay
<1>4. ASSUME lat # "unlink", NEW c \in created PROVE succ[c] # c /\ pred[c] # c
  <2>1. CASE c \in member
    <3>1. NextOf(member, c, succ[c]) /\ PrevOf(member, c, pred[c])
      BY <1>4, <2>1 DEF TellInv, AfterInv, LeaveInv, NeighboursAfterLeave
    <3>2. ~(member \subseteq {c})
      BY <1>1
    <3> QED BY <3>1, <3>2 DEF NextOf, PrevOf
  <2>2. CASE c \notin member
    BY <2>2 DEF TellInv, GoneKeep
  <2> QED BY <2>1, <2>2
<1> QED BY <1>1, <1>2, <1>3, <1>4, AfterBasics DEF TellInv, Stay

\* Where a client stands that has to be told.
LEMMA NeedyPlace ==
  ASSUME TellInv, lat \in {"fingers", "notice"}, lidx \in Finger, NEW n \in Stay, Needs(n, lidx)
  PROVE  /\ Target \in Id /\ n \in Id /\ n \in member /\ n # leaver
         /\ 0 < Dist(n, Target) /\ Dist(n, Target) < Dist(pred[leaver], leaver)
<1>1. /\ leaver \in member /\ leaver \in Id /\ pred[leaver] # leaver /\ member \in SUBSET Id
      /\ PrevOf(member, leaver, pred[leaver])
  BY TellNeighbours DEF Stay
<1>2. n \in Id /\ n \in member /\ n # leaver
  BY <1>1 DEF Stay
<1>3. FingerStart(n, lidx) \in Id /\ Target \in Id /\ 2 ^ (lidx - 1) \in Id
  BY <1>1, <1>2, FingerIds, FingerAssumption, HashMaxAssumption DEF Target, Finger, Id
<1>4. Dist(FingerStart(n, lidx), leaver) = Dist(n, Target)
  BY <1>1, <1>2, <1>3, PlusMinusDist DEF FingerStart, Target
<1>5. FingerStart(n, lidx) # leaver /\ OwnerOf(member, FingerStart(n, lidx), leaver)
  BY DEF Needs
<1> QED BY <1>1, <1>2, <1>3, <1>4, <1>5, OwnedBelow

----------------------------------------------------------------------------
(****************************************************************************)
(* The lookup of the leaver.                                                *)
(****************************************************************************)

\* If the id belongs to c as c knows it, c's predecessor is above the clients
\* to tell.
LEMMA ReachFromOwn ==
  ASSUME TellInv, lat = "fingers", lidx \in Finger, NEW c \in created,
         Target = c \/ ~NotInRange(Target, pred[c], c)
  PROVE  Reaches(pred[c])
<1>1. SUFFICES ASSUME NEW m \in Stay, Needs(m, lidx)
               PROVE  Dist(pred[c], Target) <= Dist(m, Target)
  BY DEF Reaches
<1>2. Target \in Id /\ m \in Id /\ m \in member /\ 0 < Dist(m, Target)
  BY <1>1, NeedyPlace
<1>3. c \in Id /\ pred[c] \in Id /\ pred[c] # c /\ ~InRange(c, pred[c], m)
  BY <1>2, TellBasics, TellNeighbours
<1> QED BY <1>2, <1>3, ReachesOwn

\* If it belongs to c's successor as c knows it, the same holds of that one.
LEMMA ReachFromNext ==
  ASSUME TellInv, lat = "fingers", lidx \in Finger, NEW c \in created,
         ~NotInRange(Target, c, succ[c])
  PROVE  Reaches(pred[succ[c]])
<1>1. SUFFICES ASSUME NEW m \in Stay, Needs(m, lidx)
               PROVE  Dist(pred[succ[c]], Target) <= Dist(m, Target)
  BY DEF Reaches
<1>2. Target \in Id /\ m \in Id /\ m \in member /\ 0 < Dist(m, Target)
  BY <1>1, NeedyPlace
<1>3. PICK e \in created : e = succ[c]
  BY TellBasics
<1>4. /\ c \in Id /\ e \in Id /\ pred[e] \in Id /\ pred[e] # e /\ c # e
      /\ ~InRange(e, pred[e], m)
  BY <1>2, <1>3, TellBasics, TellNeighbours
<1>5. ~InRange(e, c, m) /\ ~InRange(e, c, pred[e])
  BY <1>2, <1>3 DEF TellInv, GoneKeep
<1> QED BY <1>2, <1>3, <1>4, <1>5, ReachesNext

\* If c has no finger before the id, it is c's own, or nobody is to tell, or c
\* has left and nobody has taken its place.
LEMMA ReachFromSelf ==
  ASSUME TellInv, lat = "fingers", lidx \in Finger, NEW c \in created,
         NotInRange(Target, c, succ[c]), \A i \in Finger : ~InRange(Target, c, ft[c][i])
  PROVE  Reaches(pred[c])
<1>1. SUFFICES ASSUME NEW m \in Stay, Needs(m, lidx)
               PROVE  Dist(pred[c], Target) <= Dist(m, Target)
  BY DEF Reaches
<1>2. /\ Target \in Id /\ m \in Id /\ m \in member /\ m # leaver /\ 0 < Dist(m, Target)
      /\ Dist(m, Target) < Dist(pred[leaver], leaver)
  BY <1>1, NeedyPlace
<1>3. c \in Id /\ succ[c] \in Id /\ pred[c] \in Id /\ pred[c] # c /\ succ[c] # c /\ ~InRange(c, pred[c], m)
  BY <1>2, TellBasics, TellNeighbours
<1>4. 1 \in Finger /\ ~InRange(Target, c, ft[c][1])
  BY AfterBasics DEF TellInv
<1>5. CASE c \notin member
  <2>1. ft[c][1] \in Id /\ ft[c][1] # c /\ ~InRange(ft[c][1], c, m) /\ m # c
    BY <1>2, <1>4, <1>5, TellBasics DEF TellInv, GoneKeep
  <2> QED BY <1>2, <1>3, <1>4, <2>1, ReachesGone
<1>6. CASE c \in member /\ ft[c][1] = succ[c]
  <2>1. Target = c
    BY <1>2, <1>3, <1>4, <1>6, HashMaxAssumption DEF Id, InRange, NotInRange
  <2> QED BY <1>1, <2>1, ReachFromOwn DEF Reaches
<1>7. CASE c \in member /\ c = pred[leaver] /\ ft[c][1] = succ[leaver]
  <2>1. /\ leaver \in member /\ leaver \in Id /\ member \in SUBSET Id /\ succ[leaver] \in Id
        /\ NextOf(member, leaver, succ[leaver]) /\ PrevOf(member, leaver, pred[leaver])
        /\ leaver # c
    BY <1>7, TellNeighbours DEF Stay
  <2>2. succ[c] = leaver
    BY <1>7, <2>1, AfterBasics, NextOfPrev DEF TellInv
  <2>3. CASE Target = c
    BY <1>1, <2>3, ReachFromOwn DEF Reaches
  <2>4. CASE Target # c
    <3>1. 0 < Dist(leaver, Target) /\ Dist(leaver, Target) <= Dist(leaver, succ[leaver])
      BY <1>2, <1>3, <1>4, <1>7, <2>1, <2>2, <2>4, HashMaxAssumption
         DEF Id, InRange, NotInRange, Dist, NextOf
    <3>2. m # Target
      BY <1>2, HashMaxAssumption DEF Dist, Id
    <3> QED BY <1>2, <2>1, <3>1, <3>2, NeedyNotBeyond
  <2> QED BY <2>3, <2>4
<1>8. ft[c][1] = succ[c] \/ (c = pred[leaver] /\ ft[c][1] = succ[leaver]) \/ c \notin member
  BY DEF TellInv, AfterInv, FirstFingers
<1> QED BY <1>5, <1>6, <1>7, <1>8

\* An answer names a client, or the lookup is at its end.
LEMMA LeaverClosest ==
  ASSUME TellInv, lat = "fingers", lidx \in Finger, NEW c \in created,
         NotInRange(Target, c, succ[c]), NEW r, IsClosest(c, Target, r)
  PROVE  r \in created /\ (r = c => Reaches(pred[c]))
<1>1. c \in Id /\ pred[c] \in Id /\ pred[c] # c /\ Target \in Id
      /\ \A i \in Finger : ft[c][i] \in created /\ ft[c][i] \in Id
  <2>1. leaver \in Id /\ Target \in Id
    BY TellNeighbours, FingerIds DEF Target
  <2> QED BY <2>1, TellBasics, TellNeighbours DEF TellInv, GoneKeep
<1>2. CASE c # caller /\ Owns(c, Target)
  <2>1. r = c
    BY <1>2 DEF IsClosest
  <2>2. Target = c \/ ~NotInRange(Target, pred[c], c)
    BY <1>1, <1>2, HashMaxAssumption DEF Owns, NotInRange, Id
  <2> QED BY <2>1, <2>2, ReachFromOwn
<1>3. CASE IsClosestPrecedingFinger(c, Target, r)
  <2>1. CASE \E i \in Finger : InRange(Target, c, ft[c][i]) /\ r = ft[c][i]
    BY <1>1, <2>1, HashMaxAssumption DEF InRange, Id
  <2>2. CASE r = c /\ \A i \in Finger : ~InRange(Target, c, ft[c][i])
    BY <2>2, ReachFromSelf
  <2> QED BY <1>3, <2>1, <2>2 DEF IsClosestPrecedingFinger
<1> QED BY <1>2, <1>3 DEF IsClosest

LEMMA LeaverLooks ==
  ASSUME TellInv, leaver # NoNode, LookupStep, UNCHANGED <<ringVars, leaveVars>>
  PROVE  LeaverWalk'
<1>1. lpc # "idle" /\ lat = "fingers" /\ lidx \in Finger
  <2>1. lpc # "idle"
    BY DEF LookupStep, LookupFirst, LookupReturn, LookupClosest, LookupSelf, LookupHop
  <2>2. lat = "fingers" /\ lidx < FTLEN /\ lidx \in 1 .. FTLEN
    BY <2>1 DEF TellInv, AfterInv, LeaveTypes, LeaveTypeOK, LookupOfLeaver
  <2> QED BY <2>1, <2>2, FingerAssumption DEF Finger
<1>2. /\ key = Target
      /\ lpc = "test" => tempA \in created /\ tempB = succ[tempA]
      /\ lpc = "closest" =>
           /\ tempA \in created /\ tempB \in created /\ NotInRange(key, tempA, succ[tempA])
           /\ tempA = tempB => Reaches(pred[tempA])
      /\ lpc = "done" => tempB \in created /\ Reaches(pred[tempB])
  BY <1>1 DEF TellInv, LeaverWalk
<1>3. UNCHANGED <<member, succ, pred, ft, created, leaver, lidx>> /\ key' = key
  BY DEF ringVars, leaveVars, LookupStep, LookupFirst, LookupReturn, LookupClosest, LookupSelf, LookupHop
<1>4. Target' = Target /\ \A m \in Stay, i \in Finger : Needs(m, i) <=> Needs(m, i)'
  BY <1>3 DEF Target, Needs, OwnerOf, Stay
<1>5. ASSUME NEW CONSTANT c, Reaches(pred[c]) PROVE Reaches(pred[c])'
  BY <1>1, <1>3, <1>4, <1>5 DEF Reaches, Stay
<1>6. CASE LookupFirst
  BY <1>2, <1>3, <1>4, <1>6, TellBasics DEF LookupFirst, LeaverWalk
<1>7. CASE LookupReturn
  <2>1. PICK c \in created : c = tempA
    BY <1>2, <1>7 DEF LookupReturn
  <2>2. ~NotInRange(Target, c, succ[c]) /\ tempB = succ[c] /\ tempB' = tempB /\ lpc' = "done"
    BY <1>2, <1>7, <2>1 DEF LookupReturn
  <2>3. PICK e \in created : e = succ[c]
    BY TellBasics
  <2>4. Reaches(pred[e])
    BY <1>1, <2>2, <2>3, ReachFromNext
  <2>5. Reaches(pred[e])'
    BY <1>5, <2>4
  <2>6. Reaches(pred[tempB])'
    BY <2>2, <2>3, <2>5
  <2> QED BY <1>2, <1>3, <1>4, <2>2, <2>3, <2>6 DEF LeaverWalk
<1>8. CASE LookupClosest
  <2>1. PICK c \in created : c = tempA
    BY <1>2, <1>8 DEF LookupClosest
  <2>2. PICK r \in Node : IsClosest(c, Target, r) /\ tempB' = r
    BY <1>2, <1>8, <2>1 DEF LookupClosest
  <2>3. NotInRange(Target, c, succ[c]) /\ tempA' = c /\ lpc' = "closest"
    BY <1>2, <1>8, <2>1 DEF LookupClosest
  <2>4. r \in created /\ (r = c => Reaches(pred[c]))
    BY <1>1, <2>2, <2>3, LeaverClosest
  <2>5. r = c => Reaches(pred[c])'
    BY <1>5, <2>4
  <2>6. tempA' = tempB' => Reaches(pred[tempA])'
    BY <2>2, <2>3, <2>5
  <2> QED BY <1>2, <1>3, <1>4, <2>2, <2>3, <2>4, <2>6 DEF LeaverWalk
<1>9. CASE LookupSelf
  <2>1. PICK c \in created : c = tempA
    BY <1>2, <1>9 DEF LookupSelf
  <2>2. /\ NotInRange(Target, c, succ[c]) /\ Reaches(pred[c])
        /\ tempB' = c /\ lpc' = "done"
    BY <1>2, <1>9, <2>1 DEF LookupSelf
  <2>3. Reaches(pred[c])'
    BY <1>5, <2>2
  <2>4. Reaches(pred[tempB])'
    BY <2>2, <2>3
  <2> QED BY <1>2, <1>3, <1>4, <2>1, <2>2, <2>4 DEF LeaverWalk
<1>10. CASE LookupHop
  BY <1>2, <1>3, <1>4, <1>10 DEF LookupHop, LeaverWalk
<1> QED BY <1>6, <1>7, <1>8, <1>9, <1>10 DEF LookupStep

----------------------------------------------------------------------------
(****************************************************************************)
(* The walk over the predecessors.                                          *)
(****************************************************************************)

\* Where the walk stops nobody is left to tell.
LEMMA WalkStops ==
  ASSUME TellInv, lat \in {"fingers", "notice"}, lidx \in Finger, NEW c \in created,
         c \in {leaver, succ[leaver]} \/ ~NamesLeaver(c),
         NEW m \in Stay, m # succ[leaver], Needs(m, lidx)
  PROVE  ~(Dist(c, Target) <= Dist(m, Target))
<1>1. SUFFICES ASSUME Dist(c, Target) <= Dist(m, Target) PROVE FALSE
  OBVIOUS
<1>2. /\ Target \in Id /\ m \in Id /\ m \in member /\ m # leaver
      /\ 0 < Dist(m, Target) /\ Dist(m, Target) < Dist(pred[leaver], leaver)
  BY NeedyPlace
<1>3. /\ leaver \in member /\ leaver \in Id /\ succ[leaver] # leaver
      /\ pred[leaver] # leaver /\ pred[leaver] \in Id
      /\ NextOf(member, leaver, succ[leaver]) /\ PrevOf(member, leaver, pred[leaver])
      /\ member \in SUBSET Id
  BY TellNeighbours DEF Stay
<1>4. Dist(pred[leaver], leaver) <= Dist(m, Target)
  <2>1. CASE c = leaver
    <3>1. m \in member \ {leaver} /\ Dist(leaver, Target) <= Dist(m, Target)
      BY <1>1, <1>2, <2>1
    <3> QED BY <1>2, <1>3, <3>1, StopAtLeaver
  <2>2. CASE c = succ[leaver]
    <3>1. m \in member \ {leaver, succ[leaver]} /\ Dist(succ[leaver], Target) <= Dist(m, Target)
      BY <1>1, <1>2, <2>2
    <3> QED BY <1>2, <1>3, <3>1, StopAtSucc
  <2>3. CASE ~NamesLeaver(c)
    <3>1. c \in Id /\ FingerStart(c, lidx) \in Id /\ 2 ^ (lidx - 1) \in Id
      BY TellBasics, FingerIds, FingerAssumption, HashMaxAssumption DEF Finger, Id
    <3>2. Dist(FingerStart(c, lidx), leaver) = Dist(c, Target)
      BY <1>3, <3>1, PlusMinusDist DEF FingerStart, Target
    <3>3. NotInRange(FingerStart(c, lidx), pred[leaver], leaver)
      BY <2>3 DEF NamesLeaver, FingerStart
    <3>4. Dist(pred[leaver], leaver) <= Dist(FingerStart(c, lidx), leaver)
      BY <1>3, <3>1, <3>3, HashMaxAssumption DEF Id, NotInRange, Dist
    <3>5. Dist(c, Target) \in Int /\ Dist(m, Target) \in Int /\ Dist(pred[leaver], leaver) \in Int
      BY <1>2, <1>3, <3>1, DistFacts
    <3> QED BY <1>1, <3>2, <3>4, <3>5
  <2> QED BY <2>1, <2>2, <2>3
<1>5. Dist(m, Target) \in Int /\ Dist(pred[leaver], leaver) \in Int
  BY <1>2, <1>3, DistFacts
<1> QED BY <1>2, <1>4, <1>5

\* A client that renames the leaver is right for the ring without it.
LEMMA RenameTells ==
  ASSUME TellInv, lat \in {"fetch", "fingers", "notice"}, succ[leaver] # leaver, NEW n \in Stay,
         RightFingers(member, n) \/ RightFingers(Stay, n),
         NEW f, f = Renamed(n, leaver, succ[leaver])
  PROVE  \A i \in Finger : FingerStart(n, i) \notin created \ Stay =>
                             OwnerOf(Stay, FingerStart(n, i), f[i])
<1>1. SUFFICES ASSUME NEW i \in Finger, FingerStart(n, i) \notin created \ Stay
               PROVE  OwnerOf(Stay, FingerStart(n, i), f[i])
  OBVIOUS
<1>2. /\ leaver \in member /\ member \in SUBSET Id /\ member \subseteq created
      /\ NextOf(member, leaver, succ[leaver]) /\ n \in Id /\ leaver \in created
  BY AfterBasics, TellBasics DEF TellInv, Stay
<1>3. FingerStart(n, i) \in Id /\ FingerStart(n, i) # leaver /\ FingerStart(n, i) \notin created \ member
  BY <1>1, <1>2, FingerIds DEF Stay
<1>4. f[i] = IF ft[n][i] = leaver THEN succ[leaver] ELSE ft[n][i]
  BY DEF Renamed
<1>5. CASE RightFingers(member, n)
  <2>1. OwnerOf(member, FingerStart(n, i), ft[n][i])
    BY <1>3, <1>5 DEF RightFingers
  <2> QED BY <1>2, <1>3, <1>4, <2>1, OwnerLeaves DEF Stay
<1>6. CASE RightFingers(Stay, n)
  <2>1. OwnerOf(Stay, FingerStart(n, i), ft[n][i])
    BY <1>1, <1>6 DEF RightFingers
  <2>2. ft[n][i] # leaver
    BY <2>1 DEF OwnerOf, Stay
  <2> QED BY <1>4, <2>1, <2>2
<1> QED BY <1>5, <1>6

\* The fingers of a client that does not change its table.
LEMMA SameFingers ==
  ASSUME NEW CONSTANT n, ft'[n] = ft[n], UNCHANGED <<member, created, leaver>>
  PROVE  /\ RightFingers(member, n) => RightFingers(member, n)'
         /\ RightFingers(Stay, n) => RightFingers(Stay, n)'
BY DEF RightFingers, Stay

LEMMA SameNeeds ==
  ASSUME UNCHANGED <<member, leaver>>, NEW CONSTANT n, NEW CONSTANT i, Needs(n, i)'
  PROVE  Needs(n, i)
BY DEF Needs

\* The loop goes on with c, which is above all that have to be told, or with
\* the next finger.
LEMMA VisitTells ==
  ASSUME TellInv, lat \in {"fingers", "notice"}, lidx \in Finger, NEW CONSTANT c, c \in created,
         Visit(c), UNCHANGED <<member, succ, leaver, created>>,
         \A n \in Stay : RightFingers(member, n)' \/ RightFingers(Stay, n)',
         RightFingers(Stay, succ[leaver])',
         \A n \in Stay, i \in Finger : i < lidx /\ Needs(n, i) => RightFingers(Stay, n)',
         \A n \in Stay : Needs(n, lidx) =>
            RightFingers(Stay, n)' \/ Dist(c, Target) <= Dist(n, Target)
  PROVE  Telling'
<1>1. Stay' = Stay /\ lat' \in {"fingers", "notice"}
  BY DEF Stay, Visit
<1>2. ASSUME NEW CONSTANT n, n \in Stay, NEW CONSTANT i \in Finger, i < lidx', Needs(n, i)'
      PROVE  RightFingers(Stay, n)'
  <2>1. Needs(n, i)
    BY <1>2, SameNeeds
  <2>2. CASE i < lidx
    BY <1>2, <2>1, <2>2
  <2>3. CASE ~(i < lidx)
    <3>1. lidx' = lidx + 1 /\ i = lidx /\ (c \in {leaver, succ[leaver]} \/ ~NamesLeaver(c))
      BY <1>2, <2>3, FingerAssumption DEF Visit, Finger
    <3>2. CASE n = succ[leaver]
      BY <3>2
    <3>3. CASE n # succ[leaver]
      <4>1. Needs(n, lidx)
        BY <2>1, <3>1
      <4>2. ~(Dist(c, Target) <= Dist(n, Target))
        BY <1>2, <3>1, <3>3, <4>1, WalkStops
      <4> QED BY <1>2, <4>1, <4>2
    <3> QED BY <3>2, <3>3
  <2> QED BY <2>2, <2>3
<1>3. ASSUME lat' = "notice", NEW CONSTANT n, n \in Stay, Needs(n, lidx)'
      PROVE  RightFingers(Stay, n)' \/ (Dist(temppr, Target) <= Dist(n, Target))'
  <2>1. temppr' = c /\ lidx' = lidx /\ Target' = Target
    BY <1>3 DEF Visit, Target
  <2>2. Needs(n, lidx)
    BY <1>3, <2>1 DEF Needs
  <2> QED BY <1>3, <2>1, <2>2
<1>4. lat' = "notice" => temppr' \in created'
  BY DEF Visit
<1> QED BY <1>1, <1>2, <1>3, <1>4 DEF Telling

LEMMA FoundTells ==
  ASSUME TellInv, LeaveFound
  PROVE  Telling'
<1>1. /\ lat = "fingers" /\ lpc = "done" /\ leaver # NoNode
      /\ UNCHANGED <<member, succ, leaver, created, ft>>
      /\ Visit(pred[tempB])
  BY DEF LeaveFound, EndLookup, ringVars, TellInv, AfterInv, LeaveTypes, LeaveTypeOK
<1>2. lidx \in Finger
  <2>1. lidx < FTLEN /\ lidx \in 1 .. FTLEN
    BY <1>1 DEF TellInv, AfterInv, LeaveTypes, LeaveTypeOK, LookupOfLeaver
  <2> QED BY <2>1, FingerAssumption DEF Finger
<1>3. tempB \in created /\ Reaches(pred[tempB])
  BY <1>1 DEF TellInv, LeaverWalk
<1>4. PICK c \in created : c = pred[tempB]
  BY <1>3, TellBasics
<1>5. \A n \in Stay : Needs(n, lidx) => Dist(c, Target) <= Dist(n, Target)
  BY <1>3, <1>4 DEF Reaches
<1>6. /\ \A n \in Stay : RightFingers(member, n) \/ RightFingers(Stay, n)
      /\ RightFingers(Stay, succ[leaver])
      /\ \A m \in Stay, i \in Finger : i < lidx /\ Needs(m, i) => RightFingers(Stay, m)
  BY <1>1 DEF TellInv, Telling
<1>7. /\ \A n \in Stay : RightFingers(member, n)' \/ RightFingers(Stay, n)'
      /\ RightFingers(Stay, succ[leaver])'
      /\ \A m \in Stay, i \in Finger : i < lidx /\ Needs(m, i) => RightFingers(Stay, m)'
  BY <1>1, <1>6 DEF RightFingers, Stay
<1> QED BY <1>1, <1>2, <1>4, <1>5, <1>7, VisitTells

LEMMA NoticeTells ==
  ASSUME TellInv, LeaveNotice
  PROVE  Telling'
<1>1. /\ lat = "notice" /\ leaver # NoNode /\ succ[leaver] # leaver
      /\ UNCHANGED <<member, succ, leaver, created>>
      /\ Visit(pred[temppr])
      /\ ft' = [ft EXCEPT ![temppr] = Renamed(temppr, leaver, succ[leaver])]
  BY AfterBasics DEF LeaveNotice, TellInv, AfterInv, LeaveTypes, LeaveTypeOK
<1>2. lidx \in Finger
  <2>1. lidx < FTLEN /\ lidx \in 1 .. FTLEN
    BY <1>1 DEF TellInv, AfterInv, LeaveTypes, LeaveTypeOK, LookupOfLeaver
  <2> QED BY <2>1, FingerAssumption DEF Finger
<1>3. PICK t \in created : t = temppr
  BY <1>1 DEF TellInv, Telling
<1>4. PICK c \in created : c = pred[t]
  BY TellBasics
<1>5. /\ \A n \in Stay : RightFingers(member, n) \/ RightFingers(Stay, n)
      /\ RightFingers(Stay, succ[leaver])
      /\ \A m \in Stay, i \in Finger : i < lidx /\ Needs(m, i) => RightFingers(Stay, m)
      /\ \A k \in Stay : Needs(k, lidx) =>
            RightFingers(Stay, k) \/ Dist(t, Target) <= Dist(k, Target)
  BY <1>1, <1>3 DEF TellInv, Telling
<1>6. /\ ft \in [Node -> [Finger -> Node]] /\ created \subseteq Node
      /\ Stay' = Stay
  BY <1>1, AfterBasics, TellBasics DEF TellInv, Stay
<1>7. ft'[t] = Renamed(t, leaver, succ[leaver]) /\ \A n \in Node : n # t => ft'[n] = ft[n]
  BY <1>1, <1>3, <1>6
<1>8. t \in Stay => RightFingers(Stay, t)'
  <2>1. SUFFICES ASSUME t \in Stay PROVE RightFingers(Stay, t)'
    OBVIOUS
  <2>2. \A i \in Finger : FingerStart(t, i) \notin created \ Stay =>
                            OwnerOf(Stay, FingerStart(t, i), ft'[t][i])
    BY <1>1, <1>5, <1>7, <2>1, RenameTells
  <2> QED BY <1>1, <1>6, <2>2 DEF RightFingers
<1>9. ASSUME NEW CONSTANT n, n \in Stay, n # t
      PROVE  /\ RightFingers(member, n) => RightFingers(member, n)'
             /\ RightFingers(Stay, n) => RightFingers(Stay, n)'
  <2>1. ft'[n] = ft[n]
    BY <1>6, <1>7, <1>9, TellBasics DEF Stay
  <2> QED BY <1>1, <2>1, SameFingers
<1>10. \A n \in Stay : RightFingers(member, n)' \/ RightFingers(Stay, n)'
  BY <1>5, <1>8, <1>9
<1>11. \A n \in Stay : RightFingers(Stay, n) => RightFingers(Stay, n)'
  BY <1>8, <1>9
<1>12. RightFingers(Stay, succ[leaver])'
  <2>1. PICK s \in Stay : s = succ[leaver]
    BY <1>1, AfterBasics DEF TellInv, Stay
  <2> QED BY <1>1, <1>5, <1>11, <2>1
<1>13. \A n \in Stay, i \in Finger : i < lidx /\ Needs(n, i) => RightFingers(Stay, n)'
  BY <1>5, <1>11
<1>14. ASSUME NEW CONSTANT m, m \in Stay, Needs(m, lidx)
       PROVE  RightFingers(Stay, m)' \/ Dist(c, Target) <= Dist(m, Target)
  <2>1. CASE m = t
    BY <1>8, <1>14, <2>1
  <2>2. CASE m # t /\ Dist(t, Target) <= Dist(m, Target)
    <3>1. /\ Target \in Id /\ m \in Id /\ m \in member
      BY <1>1, <1>2, <1>14, NeedyPlace
    <3>2. t \in Id /\ c \in Id /\ c # t /\ ~InRange(t, c, m)
      BY <1>1, <1>4, <3>1, TellBasics, TellNeighbours
    <3> QED BY <2>2, <3>1, <3>2, ReachesDown
  <2> QED BY <1>5, <1>11, <1>14, <2>1, <2>2
<1> QED BY <1>1, <1>2, <1>3, <1>4, <1>10, <1>12, <1>13, <1>14, VisitTells

LEMMA FetchEndTells ==
  ASSUME TellInv, FetchEnd
  PROVE  Telling'
<1>1. /\ lat = "fetch" /\ succ[leaver] # leaver /\ leaver # NoNode
      /\ UNCHANGED <<member, succ, leaver, created>>
      /\ ft' = [ft EXCEPT ![succ[leaver]] = Renamed(succ[leaver], leaver, succ[leaver])]
      /\ lat' = "fingers" /\ lidx' = 1
  BY DEF FetchEnd, TellInv, AfterInv, LeaveTypes, LeaveTypeOK
<1>2. /\ ft \in [Node -> [Finger -> Node]] /\ member \subseteq Node
      /\ Stay' = Stay
  BY <1>1, AfterBasics, TellBasics DEF TellInv, Stay
<1>3. PICK s \in Stay : s = succ[leaver] /\ s \in Node
  BY <1>1, <1>2, AfterBasics, TellBasics DEF TellInv, Stay
<1>4. \A n \in Stay : RightFingers(member, n)
  BY <1>1 DEF TellInv, Telling, Stay
<1>5. ft'[s] = Renamed(s, leaver, succ[leaver]) /\ \A n \in Node : n # s => ft'[n] = ft[n]
  BY <1>1, <1>2, <1>3
<1>6. RightFingers(Stay, s)'
  <2>1. \A i \in Finger : FingerStart(s, i) \notin created \ Stay =>
                            OwnerOf(Stay, FingerStart(s, i), ft'[s][i])
    BY <1>1, <1>4, <1>5, RenameTells
  <2> QED BY <1>1, <1>2, <2>1 DEF RightFingers
<1>7. ASSUME NEW CONSTANT n, n \in Stay, n # s
      PROVE  RightFingers(member, n)'
  <2>1. ft'[n] = ft[n]
    BY <1>2, <1>5, <1>7 DEF Stay
  <2> QED BY <1>1, <1>4, <1>7, <2>1, SameFingers
<1>8. RightFingers(Stay, succ[leaver])'
  BY <1>1, <1>3, <1>6
<1>9. \A i \in Finger : ~(i < lidx')
  BY <1>1, FingerAssumption DEF Finger
<1> QED BY <1>1, <1>2, <1>6, <1>7, <1>8, <1>9 DEF Telling

\* At the end of the loop everybody who stays is right for those who stay.
LEMMA PredTells ==
  ASSUME TellInv, LeavePred
  PROVE  Telling'
<1>1. /\ lat = "fingers" /\ lidx = FTLEN /\ lat' = "unlink"
      /\ UNCHANGED <<member, ft, leaver, created>>
  BY DEF LeavePred
<1>2. Stay' = Stay
  BY <1>1 DEF Stay
<1>3. SUFFICES ASSUME NEW CONSTANT n, n \in Stay PROVE RightFingers(Stay, n)'
  BY <1>1, <1>2 DEF Telling
<1>4. RightFingers(Stay, n)
  <2>1. SUFFICES ASSUME RightFingers(member, n), NEW i \in Finger,
                        FingerStart(n, i) \notin created \ Stay,
                        ~RightFingers(Stay, n)
                 PROVE  OwnerOf(Stay, FingerStart(n, i), ft[n][i])
    BY <1>1, <1>3 DEF TellInv, Telling, RightFingers
  <2>2. /\ leaver \in member /\ member \in SUBSET Id /\ member \subseteq created
        /\ NextOf(member, leaver, succ[leaver]) /\ succ[leaver] # leaver /\ n \in Id
    BY <1>1, <1>3, TellNeighbours, TellBasics DEF Stay
  <2>3. /\ FingerStart(n, i) \in Id /\ FingerStart(n, i) # leaver
        /\ OwnerOf(member, FingerStart(n, i), ft[n][i])
    BY <2>1, <2>2, FingerIds DEF Stay, RightFingers
  <2>4. ~Needs(n, i)
    <3>1. i < lidx
      BY <1>1, FingerAssumption DEF Finger
    <3> QED BY <1>1, <1>3, <2>1, <3>1 DEF TellInv, Telling
  <2>5. ft[n][i] # leaver
    BY <2>3, <2>4 DEF Needs
  <2> QED BY <2>2, <2>3, <2>5, OwnerLeaves DEF Stay
<1> QED BY <1>1, <1>4, SameFingers

LEMMA SuccTells ==
  ASSUME TellInv, LeaveSucc
  PROVE  Telling'
<1>1. /\ lat = "unlink" /\ lat' = "none"
      /\ ft' = [ft EXCEPT ![pred[leaver]][1] = succ[leaver]]
      /\ member' = Stay /\ UNCHANGED created
  BY DEF LeaveSucc, Stay
<1>2. /\ leaver \in member /\ succ[leaver] # leaver /\ member \in SUBSET Id
      /\ NextOf(member, leaver, succ[leaver]) /\ PrevOf(member, leaver, pred[leaver])
      /\ pred[leaver] \in Stay
  BY <1>1, TellNeighbours DEF Stay
<1>3. PICK p \in Stay : p = pred[leaver]
  BY <1>2
<1>4. PICK s \in member : s = succ[leaver]
  BY <1>2 DEF NextOf
<1>5. NextOf(Stay, p, s)
  BY <1>2, <1>3, <1>4, LeaveNeighbours DEF Stay
<1>6. ft \in [Node -> [Finger -> Node]] /\ member \subseteq Node /\ 1 \in Finger
  BY AfterBasics DEF TellInv
<1>7. /\ \A n \in Stay, i \in Finger : ~(n = p /\ i = 1) => ft'[n][i] = ft[n][i]
      /\ ft'[p][1] = s
  BY <1>1, <1>3, <1>4, <1>6 DEF Stay
<1>8. OwnerOf(Stay, FingerStart(p, 1), s)
  <2>1. 2 ^ (1 - 1) = 1 /\ 1 \in Id
    BY HashMaxAssumption DEF Id
  <2>2. p \in Id /\ Stay \in SUBSET Id
    BY <1>2, <1>3 DEF Stay
  <2>3. FingerStart(p, 1) \in Id /\ Dist(p, FingerStart(p, 1)) = 1
    BY <2>1, <2>2, RingPlusMinus DEF FingerStart
  <2> QED BY <1>3, <1>5, <2>2, <2>3, NextOwnsFirstStart
<1>9. \A n \in Stay, i \in Finger : FingerStart(n, i) \notin created \ Stay =>
                                      OwnerOf(Stay, FingerStart(n, i), ft[n][i])
  BY <1>1 DEF TellInv, Telling, RightFingers
<1>10. \A n \in Stay, i \in Finger : FingerStart(n, i) \notin created \ Stay =>
                                       OwnerOf(Stay, FingerStart(n, i), ft'[n][i])
  <2>1. SUFFICES ASSUME NEW n \in Stay, NEW i \in Finger, FingerStart(n, i) \notin created \ Stay
                 PROVE  OwnerOf(Stay, FingerStart(n, i), ft'[n][i])
    OBVIOUS
  <2>2. CASE n = p /\ i = 1
    BY <1>7, <1>8, <2>2
  <2>3. CASE ~(n = p /\ i = 1)
    BY <1>7, <1>9, <2>1, <2>3
  <2> QED BY <2>2, <2>3
<1> QED BY <1>1, <1>10 DEF Telling, RightFingers

\* Steps that change no finger.
LEMMA OthersTell ==
  ASSUME TellInv, UNCHANGED <<member, ft, created>>,
         \/ lat = "none" /\ lat' = "fetch"
         \/ lat' = "failed"
         \/ UNCHANGED <<succ, leaver, lat, lidx, temppr>>
  PROVE  Telling'
<1>1. CASE lat = "none" /\ lat' = "fetch"
  <2>1. \A n \in member : RightFingers(member, n)
    BY <1>1 DEF TellInv, Telling
  <2> QED BY <1>1, <2>1 DEF Telling, RightFingers
<1>2. CASE lat' = "failed"
  BY <1>2 DEF Telling
<1>3. CASE UNCHANGED <<succ, leaver, lat, lidx, temppr>>
  BY <1>3 DEF TellInv, Telling, RightFingers, Stay, Needs, Target
<1> QED BY <1>1, <1>2, <1>3

----------------------------------------------------------------------------
(****************************************************************************)
(* What the clients that have left keep.                                    *)
(****************************************************************************)

LEMMA GoneSame ==
  ASSUME TellInv, UNCHANGED <<member, succ, pred, ft, created>>,
         \/ lat # "unlink" /\ (leaver' = leaver \/ leaver = NoNode)
         \/ UNCHANGED <<lat, leaver>>
  PROVE  GoneKeep'
<1>1. Stay' \subseteq Stay
  BY TellBasics, NodesAreIds DEF Stay
<1> QED BY <1>1 DEF TellInv, GoneKeep

\* A client in the ring or one that has left renames the leaver.
LEMMA GoneRename ==
  ASSUME TellInv, lat # "unlink", succ[leaver] # leaver, leaver # NoNode,
         NEW CONSTANT n, n \in created,
         ft' = [ft EXCEPT ![n] = Renamed(n, leaver, succ[leaver])],
         UNCHANGED <<member, succ, pred, leaver, created>>
  PROVE  GoneKeep'
<1>1. /\ leaver \in member /\ member \in SUBSET Id /\ member \subseteq created /\ n \in Node /\ n \in Id
      /\ NextOf(member, leaver, succ[leaver]) /\ succ[leaver] \in member /\ leaver \in Id
      /\ succ[leaver] \in Id
      /\ ft \in [Node -> [Finger -> Node]] /\ 1 \in Finger /\ created \subseteq Node
  BY AfterBasics, TellBasics DEF TellInv
<1>2. Stay' = Stay
  BY DEF Stay
<1>3. ASSUME NEW CONSTANT c \in created, NEW CONSTANT i \in Finger
      PROVE  \/ ft'[c][i] = ft[c][i]
             \/ c = n /\ ft[c][i] = leaver /\ ft'[c][i] = succ[leaver]
  BY <1>1 DEF Renamed
<1>4. ASSUME NEW CONSTANT c \in created, NEW CONSTANT i \in Finger
      PROVE  ft'[c][i] \in created
  BY <1>1, <1>3 DEF TellInv, GoneKeep
<1>5. ASSUME NEW CONSTANT c \in created \ member
      PROVE  ft'[c][1] # c /\ \A m \in Stay : ~InRange(ft'[c][1], c, m)
  <2>1. ft[c][1] # c /\ \A m \in Stay : ~InRange(ft[c][1], c, m)
    BY DEF TellInv, GoneKeep
  <2>2. CASE ft'[c][1] = ft[c][1]
    BY <2>1, <2>2
  <2>3. CASE ft[c][1] = leaver /\ ft'[c][1] = succ[leaver]
    <3>1. c \in Id /\ c # leaver /\ c # succ[leaver] /\ succ[leaver] \in Stay
      BY <1>1, TellBasics DEF Stay
    <3>2. ASSUME NEW m \in Stay, InRange(succ[leaver], c, m) PROVE FALSE
      <4>1. /\ m \in Id /\ m \in member /\ m # leaver
            /\ ~InRange(leaver, c, m) /\ ~InRange(leaver, c, succ[leaver])
        BY <1>1, <2>1, <2>3, <3>1 DEF Stay
      <4> QED BY <1>1, <3>1, <3>2, <4>1, HashMaxAssumption DEF Id, InRange, NextOf, Dist
    <3> QED BY <2>3, <3>1, <3>2
  <2> QED BY <1>1, <1>3, <2>2, <2>3
<1> QED BY <1>2, <1>4, <1>5 DEF TellInv, GoneKeep

LEMMA GonePred ==
  ASSUME TellInv, LeavePred
  PROVE  GoneKeep'
<1>1. /\ lat = "fingers" /\ lat' = "unlink"
      /\ pred' = [pred EXCEPT ![succ[leaver]] = pred[leaver]]
      /\ UNCHANGED <<member, succ, ft, leaver, created>>
  BY DEF LeavePred
<1>2. /\ leaver \in member /\ leaver \in Id /\ succ[leaver] \in Stay /\ pred[leaver] \in Stay
      /\ NextOf(member, leaver, succ[leaver]) /\ PrevOf(member, leaver, pred[leaver])
      /\ member \in SUBSET Id
  BY <1>1, TellNeighbours
<1>3. /\ pred \in [Node -> Node] /\ created \subseteq Node /\ member \subseteq created
      /\ \A c \in created : pred[c] \in created /\ succ[c] \in created
      /\ Stay' = Stay /\ Stay \subseteq member
  BY <1>1, AfterBasics, TellBasics DEF TellInv, Stay
<1>4. PICK s \in Stay : s = succ[leaver]
  BY <1>2
<1>5. PICK p \in Stay : p = pred[leaver]
  BY <1>2
<1>6. pred'[s] = p /\ \A c \in created : c # s => pred'[c] = pred[c]
  BY <1>1, <1>3, <1>4, <1>5
<1>7. ASSUME NEW CONSTANT c \in created, NEW CONSTANT m \in member, InRange(c, pred'[c], m)
      PROVE  c = s /\ m = leaver
  <2>1. CASE c # s
    BY <1>1, <1>6, <1>7, <2>1, TellBasics
  <2>2. CASE c = s
    <3>1. InRange(s, p, m) /\ m \in Id /\ s \in Id /\ p \in Id
      BY <1>2, <1>3, <1>6, <1>7, <2>2
    <3> QED BY <1>2, <1>4, <1>5, <2>2, <3>1, HashMaxAssumption
            DEF Id, InRange, NextOf, PrevOf, Dist
  <2> QED BY <2>1, <2>2
<1>8. ASSUME NEW CONSTANT c \in created PROVE ~InRange(succ[c], c, pred'[succ[c]])
  <2>1. CASE succ[c] # s
    BY <1>3, <1>6, <2>1 DEF TellInv, GoneKeep
  <2>2. CASE succ[c] = s
    BY <1>3, <1>6, <2>2 DEF TellInv, GoneKeep
  <2> QED BY <2>1, <2>2
<1>9. \A c \in created : pred'[c] \in created
  BY <1>3, <1>6
<1>10. \A c \in created \ member : pred'[c] # c
  <2>1. s \in member
    BY <1>3
  <2> QED BY <1>6, <2>1 DEF TellInv, GoneKeep
<1> QED BY <1>1, <1>3, <1>4, <1>7, <1>8, <1>9, <1>10 DEF TellInv, GoneKeep

LEMMA GoneSucc ==
  ASSUME TellInv, LeaveSucc
  PROVE  GoneKeep'
<1>1. /\ lat = "unlink" /\ lat' = "none" /\ leaver' = NoNode
      /\ succ' = [succ EXCEPT ![pred[leaver]] = succ[leaver]]
      /\ ft' = [ft EXCEPT ![pred[leaver]][1] = succ[leaver]]
      /\ member' = Stay /\ UNCHANGED <<pred, created>>
  BY DEF LeaveSucc, Stay
<1>2. /\ leaver \in member /\ leaver \in Id /\ succ[leaver] \in Stay /\ pred[leaver] \in Stay
      /\ NextOf(member, leaver, succ[leaver]) /\ PrevOf(member, leaver, pred[leaver])
      /\ member \in SUBSET Id
  BY <1>1, TellNeighbours
<1>3. /\ succ \in [Node -> Node] /\ ft \in [Node -> [Finger -> Node]] /\ 1 \in Finger
      /\ created \subseteq Node /\ member \subseteq created /\ Stay \subseteq member
      /\ \A c \in created : pred[c] \in created /\ succ[c] \in created
  BY AfterBasics, TellBasics DEF TellInv, Stay
<1>4. PICK s \in Stay : s = succ[leaver]
  BY <1>2
<1>5. PICK p \in Stay : p = pred[leaver]
  BY <1>2
<1>6. /\ succ'[p] = s /\ \A c \in created : c # p => succ'[c] = succ[c]
      /\ ft'[p][1] = s /\ \A d \in created : d # p => ft'[d] = ft[d]
      /\ \A i \in Finger : i # 1 => ft'[p][i] = ft[p][i]
  BY <1>1, <1>3, <1>4, <1>5
<1>7. NextOf(Stay, p, s) /\ pred[s] = p
  <2>1. NextOf(Stay, p, s)
    <3>1. s # leaver /\ NextOf(member, leaver, s) /\ PrevOf(member, leaver, p)
      BY <1>2, <1>4, <1>5 DEF Stay
    <3> QED BY <1>2, <3>1, LeaveNeighbours DEF Stay
  <2>2. pred[s] = p
    BY <1>1, <1>3, <1>4, <1>5 DEF TellInv, AfterInv, LeaveInv, NeighboursAfterLeave
  <2> QED BY <2>1, <2>2
<1>8. member' = Stay /\ Stay' = Stay
  <2>1. NoNode \notin Stay
    BY <1>3, NodesAreIds
  <2> QED BY <1>1, <2>1 DEF Stay
<1>9. \A c \in created, i \in Finger : ft'[c][i] \in created
  BY <1>3, <1>6 DEF TellInv, GoneKeep
<1>10. \A c \in created : succ'[c] \in created
  BY <1>3, <1>6
<1>11. ASSUME NEW CONSTANT c \in created, NEW CONSTANT m \in Stay
       PROVE  ~InRange(succ'[c], c, m) /\ ~InRange(c, pred[c], m)
  <2>1. m \in member /\ m # leaver
    BY DEF Stay
  <2>2. ~InRange(c, pred[c], m)
    BY <2>1 DEF TellInv, GoneKeep
  <2>3. ~InRange(succ'[c], c, m)
    <3>1. CASE c # p
      BY <1>6, <2>1, <3>1 DEF TellInv, GoneKeep
    <3>2. CASE c = p
      <4>1. m \in Id /\ s \in Id /\ p \in Id
        BY <1>2, <1>3
      <4>2. ~InRange(s, p, m)
        BY <1>7, <4>1, HashMaxAssumption DEF Id, InRange, NextOf, Dist
      <4> QED BY <1>6, <3>2, <4>2
    <3> QED BY <3>1, <3>2
  <2> QED BY <2>2, <2>3
<1>12. ASSUME NEW CONSTANT c \in created PROVE ~InRange(succ'[c], c, pred[succ'[c]])
  <2>1. CASE c # p
    BY <1>6, <2>1 DEF TellInv, GoneKeep
  <2>2. CASE c = p
    <3>1. succ'[c] = s /\ pred[s] = p /\ p \in Id /\ s \in Id
      BY <1>2, <1>3, <1>6, <1>7, <2>2
    <3> QED BY <2>2, <3>1, HashMaxAssumption DEF Id, InRange
  <2> QED BY <2>1, <2>2
<1>13. ASSUME NEW CONSTANT c \in created \ Stay
       PROVE  /\ succ'[c] # c /\ pred[c] # c /\ ft'[c][1] # c
              /\ \A m \in Stay : ~InRange(ft'[c][1], c, m)
  <2>1. c # p
    BY <1>5, <1>13
  <2>2. succ'[c] = succ[c] /\ ft'[c][1] = ft[c][1]
    BY <1>6, <2>1
  <2>3. CASE c = leaver
    <3>1. succ[c] # c /\ pred[c] # c
      BY <1>2, <2>3 DEF Stay
    <3>2. ft[c][1] = succ[c]
      BY <1>2, <1>5, <2>1, <2>3 DEF TellInv, AfterInv, FirstFingers
    <3>3. \A m \in Stay : ~InRange(succ[c], c, m)
      BY <1>3 DEF TellInv, GoneKeep
    <3> QED BY <2>2, <3>1, <3>2, <3>3
  <2>4. CASE c # leaver
    <3>1. c \notin member
      BY <2>4 DEF Stay
    <3> QED BY <2>2, <3>1 DEF TellInv, GoneKeep
  <2> QED BY <2>3, <2>4
<1>14. Stay \subseteq created
  BY <1>3
<1> QED BY <1>1, <1>3, <1>8, <1>9, <1>10, <1>11, <1>12, <1>13, <1>14 DEF GoneKeep

----------------------------------------------------------------------------

\* Where no lookup of a leaver is under way.
LEMMA IdleWalk ==
  ASSUME lpc' = "idle" \/ leaver' = NoNode
  PROVE  LeaverWalk'
BY DEF LeaverWalk

LEMMA TellInit == LeaveInit => TellInv
<1> SUFFICES ASSUME LeaveInit PROVE TellInv
  OBVIOUS
<1>1. AfterInv
  BY AfterInit
<1>2. /\ member = created /\ lat = "none" /\ lpc = "idle" /\ leaver = NoNode
      /\ \A n \in created, i \in Finger : OwnerOf(created, FingerStart(n, i), ft[n][i])
  BY DEF LeaveInit
<1>3. \A n \in created : NextOf(created, n, succ[n]) /\ PrevOf(created, n, pred[n])
  BY <1>1, <1>2 DEF AfterInv, LeaveInv, NeighboursAfterLeave
<1>4. created \in SUBSET Id
  BY <1>1, <1>2, AfterBasics
<1>5. \A n \in created : succ[n] \in created /\ pred[n] \in created
  BY <1>3 DEF NextOf, PrevOf
<1>6. ASSUME NEW c \in created, NEW m \in created
      PROVE  ~InRange(succ[c], c, m) /\ ~InRange(c, pred[c], m)
  <2>1. c \in Id /\ m \in Id /\ succ[c] \in Id /\ pred[c] \in Id
    BY <1>4, <1>5
  <2>2. ~InRange(succ[c], c, m)
    BY <1>3, <2>1, HashMaxAssumption DEF Id, InRange, NextOf, Dist
  <2>3. ~InRange(c, pred[c], m)
    BY <1>3, <2>1, HashMaxAssumption DEF Id, InRange, PrevOf, Dist
  <2> QED BY <2>2, <2>3
<1>7. GoneKeep
  BY <1>2, <1>5, <1>6 DEF GoneKeep, OwnerOf
<1>8. Telling /\ LeaverWalk
  BY <1>2 DEF Telling, RightFingers, LeaverWalk
<1> QED BY <1>1, <1>7, <1>8 DEF TellInv

LEMMA TellStep == TellInv /\ [LeaveNext]_allVars => TellInv'
<1> SUFFICES ASSUME TellInv, [LeaveNext]_allVars PROVE TellInv'
  OBVIOUS
<1>1. AfterInv'
  BY AfterStep DEF TellInv
<1>2. /\ LookupOfLeaver /\ LeaveTypeOK
      /\ leaver = NoNode <=> lat = "none"
  BY DEF TellInv, AfterInv, LeaveTypes, LeaveTypeOK
<1>3. CASE \E x \in Node : BeginLeave(x)
  <2>1. /\ lat = "none" /\ lat' = "fetch" /\ leaver = NoNode /\ job = "none" /\ lpc' = lpc
        /\ UNCHANGED <<member, succ, pred, ft, created>>
    BY <1>2, <1>3 DEF BeginLeave, ringVars, lookVars
  <2>2. lpc' = "idle"
    BY <1>2, <2>1 DEF LookupOfLeaver, LookupOfJob
  <2> QED BY <1>1, <2>1, <2>2, OthersTell, GoneSame, IdleWalk DEF TellInv
<1>4. CASE LeaveAlone \/ LeaveRefused \/ FetchText
  <2>1. /\ lat \in {"fetch", "notice"} /\ lpc' = lpc /\ leaver' = leaver /\ leaver # NoNode
        /\ lat' = "failed" \/ UNCHANGED <<succ, leaver, lat, lidx, temppr>>
        /\ UNCHANGED <<member, succ, pred, ft, created>>
    BY <1>2, <1>4 DEF LeaveAlone, LeaveRefused, FetchText, vars, ringVars, lookVars
  <2>2. lpc' = "idle"
    BY <1>2, <2>1 DEF LookupOfLeaver
  <2> QED BY <1>1, <2>1, <2>2, OthersTell, GoneSame, IdleWalk DEF TellInv
<1>5. CASE FetchEnd
  <2>1. /\ lat = "fetch" /\ lpc' = lpc /\ leaver # NoNode /\ succ[leaver] # leaver
        /\ ft' = [ft EXCEPT ![succ[leaver]] = Renamed(succ[leaver], leaver, succ[leaver])]
        /\ UNCHANGED <<member, succ, pred, leaver, created>>
    BY <1>2, <1>5 DEF FetchEnd, lookVars
  <2>2. lpc' = "idle"
    BY <1>2, <2>1 DEF LookupOfLeaver
  <2>3. PICK n \in created : n = succ[leaver]
    BY <2>1, TellBasics
  <2>4. GoneKeep'
    BY <2>1, <2>3, GoneRename
  <2> QED BY <1>1, <1>5, <2>2, <2>4, FetchEndTells, IdleWalk DEF TellInv
<1>6. CASE LeaveLookup
  <2>1. /\ lat = "fingers" /\ lpc' = "first" /\ key' = Target
        /\ UNCHANGED <<member, succ, pred, ft, created, leaver, lat, lidx, temppr>>
    BY <1>6 DEF LeaveLookup, BeginLookup, ringVars, leaveVars, Target
  <2>2. LeaverWalk'
    BY <2>1 DEF LeaverWalk, Target
  <2> QED BY <1>1, <2>1, <2>2, OthersTell, GoneSame DEF TellInv
<1>7. CASE leaver # NoNode /\ LookupStep /\ UNCHANGED <<ringVars, copies, jobVars, leaveVars>>
  <2>1. UNCHANGED <<member, succ, pred, ft, created, leaver, lat, lidx, temppr>>
    BY <1>7 DEF ringVars, leaveVars
  <2>2. LeaverWalk'
    BY <1>7, LeaverLooks
  <2> QED BY <1>1, <2>1, <2>2, OthersTell, GoneSame DEF TellInv
<1>8. CASE LeaveFound
  <2>1. /\ lat = "fingers" /\ lpc' = "idle"
        /\ UNCHANGED <<member, succ, pred, ft, created, leaver>>
    BY <1>8 DEF LeaveFound, EndLookup, ringVars
  <2> QED BY <1>1, <1>8, <2>1, FoundTells, GoneSame, IdleWalk DEF TellInv
<1>9. CASE LeaveNotice
  <2>1. /\ lat = "notice" /\ lpc' = lpc /\ leaver # NoNode
        /\ ft' = [ft EXCEPT ![temppr] = Renamed(temppr, leaver, succ[leaver])]
        /\ UNCHANGED <<member, succ, pred, leaver, created>>
    BY <1>2, <1>9 DEF LeaveNotice, lookVars
  <2>2. lpc' = "idle" /\ succ[leaver] # leaver
    BY <1>2, <2>1, AfterBasics DEF LookupOfLeaver, TellInv
  <2>3. PICK n \in created : n = temppr
    BY <2>1 DEF TellInv, Telling
  <2>4. GoneKeep'
    BY <2>1, <2>2, <2>3, GoneRename
  <2> QED BY <1>1, <1>9, <2>2, <2>4, NoticeTells, IdleWalk DEF TellInv
<1>10. CASE LeavePred
  <2>1. lat = "fingers" /\ lidx = FTLEN /\ lpc' = lpc /\ leaver # NoNode
    BY <1>2, <1>10 DEF LeavePred, lookVars
  <2>2. lpc' = "idle"
    BY <1>2, <2>1, FingerAssumption DEF LookupOfLeaver
  <2> QED BY <1>1, <1>10, <2>2, PredTells, GonePred, IdleWalk DEF TellInv
<1>11. CASE LeaveSucc
  <2>1. leaver' = NoNode
    BY <1>11 DEF LeaveSucc
  <2> QED BY <1>1, <1>11, <2>1, SuccTells, GoneSucc, IdleWalk DEF TellInv
<1>12. CASE leaver = NoNode /\ UNCHANGED <<ringVars, leaveVars>>
  <2>1. leaver' = NoNode /\ UNCHANGED <<member, succ, pred, ft, created, leaver, lat, lidx, temppr>>
    BY <1>12 DEF ringVars, leaveVars
  <2> QED BY <1>1, <2>1, OthersTell, GoneSame, IdleWalk DEF TellInv
<1>13. CASE UNCHANGED allVars
  <2>1. UNCHANGED <<member, succ, pred, ft, created, leaver, lat, lidx, temppr>>
        /\ UNCHANGED <<lpc, caller, key, tempA, tempB>>
    BY <1>13 DEF allVars, vars, ringVars, leaveVars, lookVars
  <2>2. LeaverWalk'
    BY <2>1 DEF TellInv, LeaverWalk, Reaches, Target, Stay, Needs
  <2> QED BY <1>1, <2>1, <2>2, OthersTell, GoneSame DEF TellInv
<1> QED BY <1>3, <1>4, <1>5, <1>6, <1>7, <1>8, <1>9, <1>10, <1>11, <1>12, <1>13
        DEF LeaveNext, LeaveStep, JobStep, LeaveStopped

\* The inductive invariant of the fingers.
THEOREM TellInvariant == LeaveSpec => []TellInv
BY TellInit, TellStep, PTL DEF LeaveSpec

\* After any leaves that came to their end, in whatever order, that of First
\* included, every finger of a client that stays is the owner of its start,
\* unless the start is the id of a client that has left.
THEOREM FingersAreRightAfterLeaves == LeaveSpec => []FingersAfterLeave
<1>1. TellInv => FingersAfterLeave
  BY DEF TellInv, Telling, RightFingers, FingersAfterLeave, AfterInv, LeaveTypes, LeaveTypeOK
<1> QED BY <1>1, TellInvariant, PTL

----------------------------------------------------------------------------
(****************************************************************************)
(* Who exits instead of leaving.                                            *)
(****************************************************************************)

\* With no two clients a power of two apart and First in the ring, the leaver's
\* lookups and its walk stay among the clients of the ring, and the walk does
\* not reach the leaver's successor.
WalkInside ==
  /\ lat \in {"fetch", "fingers", "notice"} => \A i \in Finger : ft[leaver][i] \in member
  /\ leaver # NoNode /\ lpc = "test" => tempA \in member /\ tempB = succ[tempA]
  /\ leaver # NoNode /\ lpc = "closest" => tempA \in member /\ tempB \in member
  /\ leaver # NoNode /\ lpc = "done" => tempB \in member
  /\ lat = "notice" => temppr \in Stay /\ temppr # succ[leaver]
  /\ lat = "failed" => member = {leaver}

ExitInv == TellInv /\ (Apart /\ First \in member => WalkInside)

\* What the clients of the ring know of it.
LEMMA ApartInside ==
  ASSUME ExitInv, Apart, First \in member
  PROVE  /\ \A m \in member : succ[m] \in member
         /\ lat # "unlink" => \A m \in member : pred[m] \in member /\ PrevOf(member, m, pred[m])
         /\ lat \in {"none", "fetch", "fingers", "notice"} =>
              \A m \in member, i \in Finger : ft[m][i] \in member
<1>1. \A m \in member : succ[m] \in member
  BY AfterBasics DEF ExitInv, TellInv
<1>2. lat # "unlink" => \A m \in member : pred[m] \in member /\ PrevOf(member, m, pred[m])
  BY DEF ExitInv, TellInv, AfterInv, LeaveInv, NeighboursAfterLeave, PrevOf
<1>3. ASSUME lat \in {"none", "fetch", "fingers", "notice"}, NEW m \in member, NEW i \in Finger
      PROVE  ft[m][i] \in member
  <2>1. FingerStart(m, i) \notin created
    BY TellBasics DEF ExitInv, Apart
  <2>2. CASE lat \in {"none", "fetch"}
    <3>1. OwnerOf(member, FingerStart(m, i), ft[m][i])
      BY <2>1, <2>2 DEF ExitInv, TellInv, Telling, RightFingers
    <3> QED BY <3>1 DEF OwnerOf
  <2>3. CASE lat \in {"fingers", "notice"} /\ m # leaver
    <3>1. RightFingers(member, m) \/ RightFingers(Stay, m)
      BY <2>3 DEF ExitInv, TellInv, Telling, Stay
    <3>2. OwnerOf(member, FingerStart(m, i), ft[m][i]) \/ OwnerOf(Stay, FingerStart(m, i), ft[m][i])
      BY <2>1, <3>1 DEF RightFingers
    <3> QED BY <3>2 DEF OwnerOf, Stay
  <2>4. CASE lat \in {"fingers", "notice"} /\ m = leaver
    BY <2>4 DEF ExitInv, WalkInside
  <2> QED BY <1>3, <2>2, <2>3, <2>4
<1> QED BY <1>1, <1>2, <1>3

\* FindSuccWithFT of the leaver.
LEMMA LookupInside ==
  ASSUME ExitInv, Apart, First \in member, leaver # NoNode, LookupStep,
         UNCHANGED <<ringVars, leaveVars>>
  PROVE  WalkInside'
<1>1. WalkInside /\ lat = "fingers" /\ UNCHANGED <<member, succ, pred, ft, leaver, lat, temppr>>
  BY DEF ExitInv, TellInv, AfterInv, LeaveTypes, LookupOfLeaver, LookupStep, LookupFirst,
         LookupReturn, LookupClosest, LookupSelf, LookupHop, ringVars, leaveVars
<1>2. /\ \A m \in member : succ[m] \in member
      /\ \A m \in member, i \in Finger : ft[m][i] \in member
  BY <1>1, ApartInside
<1>3. CASE LookupFirst
  BY <1>1, <1>3 DEF LookupFirst, WalkInside, Stay
<1>4. CASE LookupReturn
  BY <1>1, <1>2, <1>4 DEF LookupReturn, WalkInside, Stay
<1>5. CASE LookupClosest
  <2>1. PICK r \in Node : IsClosest(tempA, key, r) /\ tempB' = r
    BY <1>5 DEF LookupClosest
  <2>2. tempA \in member
    BY <1>1, <1>5 DEF LookupClosest, WalkInside
  <2>3. r \in member
    BY <1>2, <2>1, <2>2 DEF IsClosest, IsClosestPrecedingFinger
  <2> QED BY <1>1, <1>5, <2>1, <2>2, <2>3 DEF LookupClosest, WalkInside, Stay
<1>6. CASE LookupSelf
  BY <1>1, <1>2, <1>6 DEF LookupSelf, WalkInside, Stay
<1>7. CASE LookupHop
  BY <1>1, <1>2, <1>7 DEF LookupHop, WalkInside, Stay
<1> QED BY <1>3, <1>4, <1>5, <1>6, <1>7 DEF LookupStep

\* The loop goes on with a client of the ring.
LEMMA VisitInside ==
  ASSUME ExitInv, Apart, First \in member, lat \in {"fingers", "notice"},
         NEW CONSTANT c, c \in member, Visit(c), UNCHANGED <<member, succ, leaver>>, lpc' = "idle",
         \A i \in Finger : ft'[leaver][i] \in member
  PROVE  WalkInside'
BY DEF Visit, WalkInside, Stay

\* The answer of a client of the ring to LEAVQ is the one the leaver expects.
LEMMA NotRefused ==
  ASSUME ExitInv, Apart, First \in member, lat = "notice"
  PROVE  pred[temppr] # leaver
<1>1. WalkInside /\ temppr \in Stay /\ temppr # succ[leaver]
  BY DEF ExitInv, WalkInside
<1>2. leaver \in member /\ member \in SUBSET Id /\ NextOf(member, leaver, succ[leaver])
  BY TellNeighbours DEF ExitInv
<1>3. PrevOf(member, temppr, pred[temppr])
  BY <1>1, ApartInside DEF Stay
<1>4. temppr \in member
  BY <1>1 DEF Stay
<1>5. PrevOf(member, temppr, leaver) => NextOf(member, leaver, temppr)
  BY <1>1, <1>2, <1>4, HashMaxAssumption DEF Id, PrevOf, NextOf, Dist, Stay
<1>6. NextOf(member, leaver, temppr) => temppr = succ[leaver]
  <2> SUFFICES ASSUME NextOf(member, leaver, temppr), temppr # succ[leaver] PROVE FALSE
    OBVIOUS
  <2>1. PICK s : s = succ[leaver]
    OBVIOUS
  <2>2. /\ s \in member \ {leaver} /\ temppr \in member \ {leaver}
        /\ Dist(leaver, s) <= Dist(leaver, temppr) /\ Dist(leaver, temppr) <= Dist(leaver, s)
    BY <1>1, <1>2, <1>4, <2>1, TellNeighbours DEF ExitInv, NextOf, Stay
  <2>3. s \in Id /\ temppr \in Id /\ leaver \in Id
    BY <1>2, <2>2
  <2>4. s = temppr
    BY <2>2, <2>3, HashMaxAssumption DEF Id, Dist
  <2> QED BY <2>1, <2>4
<1> QED BY <1>1, <1>3, <1>5, <1>6

LEMMA ExitInit == LeaveInit => ExitInv
<1> SUFFICES ASSUME LeaveInit PROVE ExitInv
  OBVIOUS
<1>1. TellInv
  BY TellInit
<1>2. leaver = NoNode /\ lat = "none"
  BY DEF LeaveInit
<1> QED BY <1>1, <1>2 DEF ExitInv, WalkInside

LEMMA ExitStep == ExitInv /\ [LeaveNext]_allVars => ExitInv'
<1> SUFFICES ASSUME ExitInv, [LeaveNext]_allVars, Apart', (First \in member)' PROVE WalkInside'
  BY TellStep DEF ExitInv
<1>1. /\ LookupOfLeaver /\ AfterInv /\ TellInv
      /\ leaver = NoNode <=> lat = "none"
      /\ lat # "none" => leaver \in member
      /\ leaver # NoNode /\ lat # "fingers" => lpc = "idle"
  BY AfterBasics DEF ExitInv, TellInv, AfterInv, LeaveTypes, LeaveTypeOK, LookupOfLeaver
<1>2. UNCHANGED created /\ member' \subseteq member
  BY DEF LeaveNext, LeaveStep, JobStep, LeaveStopped, BeginLeave, LeaveAlone, FetchText, FetchEnd,
         LeaveLookup, LeaveFound, LeaveNotice, LeaveRefused, LeavePred, LeaveSucc, allVars, vars,
         ringVars, leaveVars
<1>3. Apart /\ First \in member /\ WalkInside
  BY <1>2 DEF Apart, ExitInv
<1>4. ASSUME leaver' = NoNode, lat' = "none" PROVE WalkInside'
  BY <1>4 DEF WalkInside
<1>5. CASE \E x \in Node : BeginLeave(x)
  <2>1. PICK x \in Node : BeginLeave(x)
    BY <1>5
  <2>2. /\ x \in member /\ leaver' = x /\ lat' = "fetch" /\ lpc' = lpc
        /\ lat = "none" /\ job = "none" /\ leaver = NoNode
        /\ UNCHANGED <<member, succ, ft>>
    BY <1>1, <2>1 DEF BeginLeave, ringVars, lookVars
  <2>3. lpc' = "idle"
    BY <1>1, <2>2 DEF LookupOfLeaver, LookupOfJob
  <2>4. \A i \in Finger : ft'[leaver'][i] \in member'
    BY <1>3, <2>2, ApartInside
  <2> QED BY <2>2, <2>3, <2>4 DEF WalkInside
<1>6. CASE LeaveAlone
  <2>1. /\ lat = "fetch" /\ lat' = "failed" /\ succ[leaver] = leaver /\ lpc' = lpc
        /\ UNCHANGED <<member, leaver>>
    BY <1>6 DEF LeaveAlone, vars, ringVars, lookVars
  <2>2. NextOf(member, leaver, leaver) /\ leaver \in member
    BY <1>1, <2>1, AfterBasics
  <2>3. member = {leaver}
    BY <2>2 DEF NextOf
  <2> QED BY <1>1, <2>1, <2>3 DEF WalkInside
<1>7. CASE LeaveRefused
  BY <1>3, <1>7, NotRefused DEF LeaveRefused
<1>8. CASE FetchText \/ FetchEnd
  <2>1. /\ lat = "fetch" /\ lat' \in {"fetch", "fingers"} /\ succ[leaver] # leaver /\ lpc' = lpc
        /\ UNCHANGED <<member, succ, leaver>>
        /\ ft' = ft \/ ft' = [ft EXCEPT ![succ[leaver]] = Renamed(succ[leaver], leaver, succ[leaver])]
    BY <1>8 DEF FetchText, FetchEnd, ringVars, lookVars
  <2>2. lpc' = "idle" /\ leaver \in member
    BY <1>1, <2>1
  <2>3. ft'[leaver] = ft[leaver]
    BY <1>1, <2>1, <2>2, AfterBasics
  <2> QED BY <1>3, <2>1, <2>2, <2>3 DEF WalkInside
<1>9. CASE LeaveLookup
  BY <1>3, <1>9 DEF LeaveLookup, BeginLookup, WalkInside, Stay, ringVars, leaveVars
<1>10. CASE leaver # NoNode /\ LookupStep /\ UNCHANGED <<ringVars, copies, jobVars, leaveVars>>
  BY <1>3, <1>10, LookupInside
<1>11. CASE LeaveFound
  <2>1. /\ lat = "fingers" /\ lpc = "done" /\ lpc' = "idle" /\ Visit(pred[tempB])
        /\ UNCHANGED <<member, succ, leaver, ft>>
    BY <1>11 DEF LeaveFound, EndLookup, ringVars
  <2>2. PICK c : c = pred[tempB]
    OBVIOUS
  <2>3. c \in member
    BY <1>1, <1>3, <2>1, <2>2, ApartInside DEF WalkInside
  <2> QED BY <1>3, <2>1, <2>2, <2>3, VisitInside DEF WalkInside
<1>12. CASE LeaveNotice
  <2>1. /\ lat = "notice" /\ lpc' = lpc /\ Visit(pred[temppr])
        /\ ft' = [ft EXCEPT ![temppr] = Renamed(temppr, leaver, succ[leaver])]
        /\ UNCHANGED <<member, succ, leaver>>
    BY <1>12 DEF LeaveNotice, lookVars
  <2>2. lpc' = "idle" /\ temppr \in Stay
    BY <1>1, <1>3, <2>1 DEF WalkInside
  <2>3. ft'[leaver] = ft[leaver]
    BY <2>1, <2>2 DEF Stay
  <2>4. PICK c : c = pred[temppr]
    OBVIOUS
  <2>5. c \in member
    BY <1>3, <2>1, <2>2, <2>4, ApartInside DEF Stay
  <2> QED BY <1>3, <2>1, <2>2, <2>3, <2>4, <2>5, VisitInside DEF WalkInside
<1>13. CASE LeavePred
  <2>1. lat = "fingers" /\ lat' = "unlink" /\ lidx = FTLEN /\ lpc' = lpc
    BY <1>13 DEF LeavePred, lookVars
  <2>2. lpc' = "idle"
    BY <1>1, <2>1, FingerAssumption DEF LookupOfLeaver
  <2> QED BY <2>1, <2>2 DEF WalkInside
<1>14. CASE LeaveSucc
  BY <1>4, <1>14 DEF LeaveSucc
<1>15. CASE leaver = NoNode /\ UNCHANGED <<ringVars, leaveVars>>
  BY <1>1, <1>4, <1>15 DEF leaveVars
<1>16. CASE UNCHANGED allVars
  BY <1>3, <1>16 DEF WalkInside, Stay, allVars, vars, ringVars, leaveVars, lookVars
<1> QED BY <1>5, <1>6, <1>7, <1>8, <1>9, <1>10, <1>11, <1>12, <1>13, <1>14, <1>15, <1>16
        DEF LeaveNext, LeaveStep, JobStep, LeaveStopped

\* As long as First has not left, and no two clients are a power of two apart,
\* only the last client of the ring exits instead of leaving.
THEOREM OnlyTheLastExits == LeaveSpec => []LeaveExits
<1>1. ExitInv => LeaveExits
  BY DEF ExitInv, WalkInside, LeaveExits
<1> QED BY <1>1, ExitInit, ExitStep, PTL DEF LeaveSpec

----------------------------------------------------------------------------
(****************************************************************************)
(* The texts, up to stage 6.                                                *)
(****************************************************************************)

\* Everything the leaver keeps is still to be handed over, or its successor
\* has it.
HandingOver ==
  leaver # NoNode =>
    /\ \A e \in Entry : unsent[e] > 0 => Holds(leaver, e)
    /\ \A e \in Entry : Holds(leaver, e) => unsent[e] > 0 \/ Holds(succ[leaver], e)
    /\ lat \in {"fingers", "notice", "unlink"} => \A e \in Entry : unsent[e] = 0

\* What anybody keeps, the clients included that have left, is kept by the
\* client that is responsible for it.
KeptByOwner ==
  Apart /\ First \in member =>
    \A e \in Entry, m \in Node : Holds(m, e) =>
      \E n \in member : OwnerOf(member, e[1], n) /\ Holds(n, e)

TextInv == TellInv /\ HandingOver /\ KeptByOwner

\* In stage 6 a text has one position, its hash.
LEMMA EntryOfHash ==
  ASSUME STAGE = 6
  PROVE  /\ \A e \in Entry : e[2] \in Text /\ e[1] \in Id /\ e = <<Hash[e[2]], e[2]>>
         /\ \A t \in Text, i \in Positions : Loc(t, i) = Hash[t] /\ <<Hash[t], t>> \in Entry
         /\ \A d, e \in Entry : d[1] = e[1] => d = e
<1>1. /\ Positions = {0}
      /\ \A t \in Text, i \in Positions : Loc(t, i) = Hash[t] /\ Loc(t, i) \in Id
      /\ \A t, u \in Text, i, j \in Positions : Loc(t, i) = Loc(u, j) => t = u
  BY HashAssumption DEF Positions, Loc
<1>2. Entry = {<<Hash[t], t>> : t \in Text}
  BY <1>1 DEF Entry
<1> QED BY <1>1, <1>2

\* AddClientStore, for whichever text.
LEMMA OneCopyMore ==
  ASSUME StoreTypeOK, NEW n \in Node, NEW e \in Entry,
         copies' = [copies EXCEPT ![n][e] = @ + 1]
  PROVE  \A m \in Node, d \in Entry :
            copies'[m][d] = IF m = n /\ d = e THEN copies[m][d] + 1 ELSE copies[m][d]
<1>1. copies \in [Node -> [Entry -> Nat]]
  BY DEF StoreTypeOK
<1> QED BY <1>1

\* Between two leaves the ring is the one the lookups expect.
LEMMA ApartSettles ==
  ASSUME TellInv, Apart, First \in member, leaver = NoNode
  PROVE  Settled /\ Walkable(member) /\ OwnerFound(member)
<1>1. /\ lat = "none" /\ member \subseteq created
  BY AfterBasics DEF TellInv, GoneKeep
<1>2. ASSUME NEW n \in member, NEW i \in Finger PROVE ft[n][i] \in member
  <2>1. FingerStart(n, i) \notin created
    BY <1>1 DEF Apart
  <2>2. OwnerOf(member, FingerStart(n, i), ft[n][i])
    BY <1>1, <2>1 DEF TellInv, Telling, RightFingers
  <2> QED BY <2>2 DEF OwnerOf
<1>3. Settled
  BY <1>2 DEF Settled
<1>4. Walkable(member)
  BY <1>3, SettledIsWalkable DEF TellInv
<1> QED BY <1>3, <1>4 DEF TellInv, AfterInv, SettledWalk

\* What the jobs find, and what First takes for its own.
LEMMA JobOwner ==
  ASSUME TellInv, Apart, First \in member, leaver = NoNode, STAGE = 6,
         job \in {"store", "search"}
  PROVE  /\ text \in Text /\ Here = Hash[text] /\ Here \in Id /\ <<Here, text>> \in Entry
         /\ EndLookup => OwnerOf(member, Here, tempB) /\ tempB \in member
         /\ OwnArc(Here) => OwnerOf(member, Here, First)
<1>1. Walkable(member) /\ OwnerFound(member)
  BY ApartSettles
<1>2. StoreTypeOK /\ LoopInRange /\ LookupOfJob
  BY DEF TellInv, AfterInv, LeaveTypes, LeaveTypeOK, LookupOfLeaver
<1>3. at \in Positions /\ text \in Text /\ Here \in Id /\ <<Here, text>> \in Entry
  BY <1>2, JobsPlace
<1>4. Here = Hash[text]
  BY <1>3, EntryOfHash DEF Here
<1>5. EndLookup => OwnerOf(member, Here, tempB) /\ tempB \in member
  BY <1>1, <1>2 DEF EndLookup, OwnerFound, LookupOfJob, OwnerOf
<1>6. OwnArc(Here) => OwnerOf(member, Here, First)
  BY <1>1, <1>3, OwnArcIsOwner
<1> QED BY <1>3, <1>4, <1>5, <1>6

\* A step of a job changes no copy but that of the text, at its owner.
LEMMA JobCopies ==
  ASSUME TellInv, Apart, First \in member, leaver = NoNode, STAGE = 6,
         ClientStep \/ \E t \in Text : BeginStore(t) \/ BeginSearch(t)
  PROVE  \/ UNCHANGED copies
         \/ /\ <<Here, text>> \in Entry
            /\ \E n \in member : OwnerOf(member, Here, n) /\ Add(n)
<1>1. CASE StoreHere
  <2>1. <<Here, text>> \in Entry /\ OwnerOf(member, Here, First)
    BY <1>1, JobOwner DEF StoreHere
  <2> QED BY <1>1, <2>1 DEF StoreHere
<1>2. CASE StoreAdd
  <2>1. job \in {"store", "search"} /\ EndLookup /\ Add(tempB)
    BY <1>2 DEF StoreAdd
  <2>2. <<Here, text>> \in Entry /\ OwnerOf(member, Here, tempB) /\ tempB \in member
    BY <2>1, JobOwner
  <2> QED BY <2>1, <2>2
<1>3. CASE UNCHANGED copies
  BY <1>3
<1> QED BY <1>1, <1>2, <1>3
        DEF ClientStep, BeginStore, BeginSearch, Begin, StoreLookup,
            StoreRefused, SearchHere, SearchFails, SearchLookup, SearchAsk, SearchAgain,
            SearchSkip, SearchOwn, SearchUnset, AskBogus, AskReplica, SearchSelf, SearchVerdict

LEMMA JobKeepsOwner ==
  ASSUME TextInv, leaver = NoNode, STAGE = 6, UNCHANGED <<member, created>>,
         ClientStep \/ \E t \in Text : BeginStore(t) \/ BeginSearch(t)
  PROVE  KeptByOwner'
<1>1. SUFFICES ASSUME Apart, First \in member, NEW e \in Entry, NEW m \in Node,
                      copies'[m][e] > 0
               PROVE  \E n \in member : OwnerOf(member, e[1], n) /\ copies'[n][e] > 0
  BY DEF KeptByOwner, Holds, Apart
<1>2. /\ StoreTypeOK /\ member \subseteq Node
      /\ copies \in [Node -> [Entry -> Nat]]
  BY AfterBasics DEF TextInv, TellInv, AfterInv, LeaveTypes, LeaveTypeOK, StoreTypeOK
<1>3. CASE UNCHANGED copies
  BY <1>1, <1>3 DEF TextInv, KeptByOwner, Holds
<1>4. CASE /\ <<Here, text>> \in Entry
           /\ \E n \in member : OwnerOf(member, Here, n) /\ Add(n)
  <2>1. PICK n \in member : OwnerOf(member, Here, n) /\ Add(n)
    BY <1>4
  <2>2. PICK d \in Entry : d = <<Here, text>>
    BY <1>4
  <2>3. /\ copies'[n][d] > 0 /\ d[1] = Here
        /\ \A k \in Node, c \in Entry :
             copies'[k][c] = IF k = n /\ c = d THEN copies[k][c] + 1 ELSE copies[k][c]
    BY <1>2, <2>1, <2>2, AddCopy
  <2>4. CASE e = d
    BY <2>1, <2>3, <2>4
  <2>5. CASE e # d
    <3>1. copies[m][e] > 0
      BY <1>1, <2>3, <2>5
    <3>2. PICK k \in member : OwnerOf(member, e[1], k) /\ copies[k][e] > 0
      BY <1>1, <3>1 DEF TextInv, KeptByOwner, Holds
    <3>3. copies'[k][e] > 0
      BY <1>2, <2>3, <2>5, <3>2
    <3> QED BY <3>2, <3>3
  <2> QED BY <2>4, <2>5
<1> QED BY <1>1, <1>3, <1>4, JobCopies DEF TextInv

\* NXTDR: one text less to hand over, and the successor has it.
LEMMA FetchKeeps ==
  ASSUME TextInv, STAGE = 6, FetchText
  PROVE  HandingOver' /\ KeptByOwner'
<1>1. /\ StoreTypeOK /\ leaver # NoNode /\ leaver \in Node /\ succ[leaver] # leaver
      /\ succ[leaver] \in Node /\ member \subseteq Node
      /\ copies \in [Node -> [Entry -> Nat]] /\ unsent \in [Entry -> Nat]
  BY AfterBasics
     DEF FetchText, TextInv, TellInv, AfterInv, LeaveTypes, LeaveTypeOK, StoreTypeOK
<1>2. PICK e \in Entry :
        /\ unsent[e] > 0
        /\ unsent' = [unsent EXCEPT ![e] = @ - 1]
        /\ copies' = [copies EXCEPT ![succ[leaver]][<<Hash[e[2]], e[2]>>] = @ + 1]
  BY DEF FetchText
<1>3. /\ lat = "fetch" /\ UNCHANGED <<member, created, succ, leaver, lat>>
  BY DEF FetchText, ringVars
<1>4. \A m \in Node, d \in Entry :
         copies'[m][d] = IF m = succ[leaver] /\ d = e THEN copies[m][d] + 1 ELSE copies[m][d]
  <2>1. e = <<Hash[e[2]], e[2]>>
    BY EntryOfHash
  <2>2. copies' = [copies EXCEPT ![succ[leaver]][e] = @ + 1]
    BY <1>2, <2>1
  <2> QED BY <1>1, <2>2, OneCopyMore
<1>5. copies[leaver][e] > 0
  BY <1>1, <1>2 DEF TextInv, HandingOver, Holds
<1>6. /\ copies'[succ[leaver]][e] > 0
      /\ \A m \in Node, d \in Entry : copies[m][d] > 0 => copies'[m][d] > 0
      /\ \A d \in Entry : copies'[leaver][d] = copies[leaver][d]
      /\ \A m \in Node, d \in Entry : copies'[m][d] > 0 =>
           copies[m][d] > 0 \/ copies[leaver][d] > 0
  BY <1>1, <1>4, <1>5
<1>7. \A d \in Entry : /\ unsent'[d] > 0 => unsent[d] > 0
                       /\ unsent[d] > 0 => unsent'[d] > 0 \/ d = e
  BY <1>1, <1>2
<1>8. HandingOver'
  <2>1. /\ \A d \in Entry : unsent[d] > 0 => copies[leaver][d] > 0
        /\ \A d \in Entry : copies[leaver][d] > 0 =>
             unsent[d] > 0 \/ copies[succ[leaver]][d] > 0
    BY <1>1 DEF TextInv, HandingOver, Holds
  <2> QED BY <1>1, <1>3, <1>6, <1>7, <2>1 DEF HandingOver, Holds
<1>9. KeptByOwner'
  <2>1. SUFFICES ASSUME Apart, First \in member, NEW d \in Entry, NEW m \in Node,
                        copies'[m][d] > 0
                 PROVE  \E n \in member : OwnerOf(member, d[1], n) /\ copies'[n][d] > 0
    BY <1>3 DEF KeptByOwner, Holds, Apart
  <2>2. \E k \in Node : copies[k][d] > 0
    BY <1>1, <1>6, <2>1
  <2>3. PICK n \in member : OwnerOf(member, d[1], n) /\ copies[n][d] > 0
    BY <2>1, <2>2 DEF TextInv, KeptByOwner, Holds
  <2> QED BY <1>1, <1>6, <2>3
<1> QED BY <1>8, <1>9

\* What the leaver was responsible for goes to its successor.
LEMMA NextTakesOver ==
  ASSUME NEW R \in SUBSET Id, NEW x \in R, NEW s, NextOf(R, x, s), s # x,
         NEW st \in Id, OwnerOf(R, st, x)
  PROVE  OwnerOf(R \ {x}, st, s)
<1>1. x \in Id /\ s \in Id /\ s \in R
  BY DEF NextOf
<1>2. ASSUME NEW m \in R \ {x} PROVE Dist(st, s) <= Dist(st, m)
  <2>1. /\ m \in Id /\ Dist(x, s) <= Dist(x, m)
        /\ Dist(st, x) <= Dist(st, m) /\ Dist(st, x) <= Dist(st, s)
    BY <1>1 DEF NextOf, OwnerOf
  <2> QED BY <1>1, <2>1, HashMaxAssumption DEF Id, Dist
<1> QED BY <1>1, <1>2 DEF OwnerOf

\* The leaver's texts have a new owner, which has them all.
LEMMA LastUpdateKeeps ==
  ASSUME TextInv, STAGE = 6, LeaveSucc
  PROVE  KeptByOwner'
<1>1. /\ lat = "unlink" /\ leaver # NoNode
      /\ member' = member \ {leaver} /\ UNCHANGED <<created, copies>>
  BY DEF LeaveSucc, TextInv, TellInv, AfterInv, LeaveTypes, LeaveTypeOK
<1>2. SUFFICES ASSUME Apart, First \in member, NEW e \in Entry, NEW m \in Node,
                      copies[m][e] > 0
               PROVE  \E n \in member \ {leaver} :
                         OwnerOf(member \ {leaver}, e[1], n) /\ copies[n][e] > 0
  BY <1>1 DEF KeptByOwner, Holds, Apart
<1>3. /\ leaver \in member /\ leaver \in Id /\ succ[leaver] \in member \ {leaver}
      /\ NextOf(member, leaver, succ[leaver]) /\ member \in SUBSET Id
  BY <1>1, TellNeighbours DEF TextInv, Stay
<1>4. PICK n \in member : OwnerOf(member, e[1], n) /\ copies[n][e] > 0
  BY <1>2 DEF TextInv, KeptByOwner, Holds
<1>5. CASE n # leaver
  BY <1>4, <1>5 DEF OwnerOf
<1>6. CASE n = leaver
  <2>1. copies[succ[leaver]][e] > 0
    BY <1>1, <1>4, <1>6 DEF TextInv, HandingOver, Holds
  <2>2. e[1] \in Id
    BY EntryOfHash
  <2>3. OwnerOf(member \ {leaver}, e[1], succ[leaver])
    BY <1>3, <1>4, <1>6, <2>2, NextTakesOver
  <2> QED BY <1>3, <2>1, <2>3
<1> QED BY <1>5, <1>6

LEMMA TextInit == LeaveInit => TextInv
<1> SUFFICES ASSUME LeaveInit PROVE TextInv
  OBVIOUS
<1>1. TellInv /\ leaver = NoNode
  BY TellInit DEF LeaveInit
<1>2. \A m \in Node, e \in Entry : copies[m][e] = 0
  BY DEF LeaveInit, Nothing
<1> QED BY <1>1, <1>2 DEF TextInv, HandingOver, KeptByOwner, Holds

\* Where no copy moves.
LEMMA SameTexts ==
  ASSUME TextInv, UNCHANGED <<member, created, copies>>
  PROVE  /\ KeptByOwner'
         /\ UNCHANGED <<succ, leaver, lat, unsent>> => HandingOver'
<1>1. KeptByOwner'
  BY DEF TextInv, KeptByOwner, Holds, Apart
<1>2. UNCHANGED <<succ, leaver, lat, unsent>> => HandingOver'
  BY DEF TextInv, HandingOver, Holds
<1> QED BY <1>1, <1>2

LEMMA TextStep ==
  ASSUME STAGE = 6, TextInv, [LeaveNext]_allVars
  PROVE  TextInv'
<1>1. TellInv'
  BY TellStep DEF TextInv
<1>2. leaver = NoNode <=> lat = "none"
  BY DEF TextInv, TellInv, AfterInv, LeaveTypes, LeaveTypeOK
<1>3. CASE \E x \in Node : BeginLeave(x)
  <2>1. PICK x \in Node : BeginLeave(x)
    BY <1>3
  <2>2. /\ leaver' = x /\ lat' = "fetch" /\ unsent' = copies[x]
        /\ UNCHANGED <<member, created, succ, copies>>
    BY <2>1 DEF BeginLeave, ringVars
  <2>3. HandingOver'
    BY <2>2 DEF HandingOver, Holds
  <2> QED BY <1>1, <2>2, <2>3, SameTexts DEF TextInv
<1>4. CASE LeaveAlone \/ LeaveRefused
  <2>1. /\ lat' = "failed"
        /\ UNCHANGED <<member, created, succ, leaver, copies, unsent>>
    BY <1>4 DEF LeaveAlone, LeaveRefused, vars, ringVars
  <2>2. HandingOver'
    BY <2>1 DEF TextInv, HandingOver, Holds
  <2> QED BY <1>1, <2>1, <2>2, SameTexts DEF TextInv
<1>5. CASE FetchText
  BY <1>1, <1>5, FetchKeeps DEF TextInv
<1>6. CASE FetchEnd
  <2>1. /\ unsent = Nothing
        /\ UNCHANGED <<member, created, succ, leaver, copies, unsent>>
    BY <1>6 DEF FetchEnd
  <2>2. \A e \in Entry : unsent[e] = 0
    BY <2>1 DEF Nothing
  <2>3. HandingOver'
    BY <2>1, <2>2 DEF TextInv, HandingOver, Holds
  <2> QED BY <1>1, <2>1, <2>3, SameTexts DEF TextInv
<1>7. CASE LeaveFound \/ LeaveNotice \/ LeavePred
  <2>1. /\ leaver # NoNode
        /\ lat \in {"fingers", "notice"} /\ lat' \in {"fingers", "notice", "unlink"}
        /\ UNCHANGED <<member, created, succ, leaver, copies, unsent>>
    BY <1>2, <1>7 DEF LeaveFound, LeaveNotice, LeavePred, Visit, ringVars
  <2>2. HandingOver'
    BY <2>1 DEF TextInv, HandingOver, Holds
  <2> QED BY <1>1, <2>1, <2>2, SameTexts DEF TextInv
<1>8. CASE LeaveSucc
  <2>1. leaver' = NoNode
    BY <1>8 DEF LeaveSucc
  <2> QED BY <1>1, <1>8, <2>1, LastUpdateKeeps DEF TextInv, HandingOver
<1>9. CASE leaver = NoNode /\ (ClientStep \/ \E t \in Text : BeginStore(t) \/ BeginSearch(t))
           /\ UNCHANGED <<ringVars, leaveVars>>
  <2>1. UNCHANGED <<member, created>> /\ leaver' = NoNode
    BY <1>9 DEF ringVars, leaveVars
  <2> QED BY <1>1, <1>9, <2>1, JobKeepsOwner DEF TextInv, HandingOver
<1>10. CASE UNCHANGED <<ringVars, copies, leaveVars>>
  <2>1. UNCHANGED <<member, created, copies, succ, leaver, lat, unsent>>
    BY <1>10 DEF ringVars, leaveVars
  <2> QED BY <1>1, <2>1, SameTexts DEF TextInv
<1> QED BY <1>3, <1>4, <1>5, <1>6, <1>7, <1>8, <1>9, <1>10
        DEF LeaveNext, LeaveStep, JobStep, LeaveStopped, LeaveLookup, allVars, vars

\* The inductive invariant of the texts.
THEOREM TextInvariant ==
  ASSUME STAGE = 6
  PROVE  LeaveSpec => []TextInv
BY TextInit, TextStep, PTL DEF LeaveSpec

\* A text that was stored, before or after any leaves, is kept by the client
\* that is responsible for it, as long as First has not left.
THEOREM TextsAreHandedOver ==
  ASSUME STAGE = 6
  PROVE  LeaveSpec => []TextsHandedOver
<1>1. TextInv => TextsHandedOver
  <2> SUFFICES ASSUME TextInv, Apart, First \in member,
                      NEW t \in StoredTexts, NEW i \in Positions
               PROVE  \E n \in member : OwnerOf(member, Loc(t, i), n) /\ Holds(n, <<Loc(t, i), t>>)
    BY DEF TextsHandedOver
  <2>1. PICK m \in Node : Holds(m, <<Loc(t, i), t>>)
    BY DEF StoredTexts
  <2>2. PICK e \in Entry : e = <<Loc(t, i), t>>
    BY EntryOfHash DEF StoredTexts
  <2>3. e[1] = Loc(t, i)
    BY <2>2
  <2> QED BY <2>1, <2>2, <2>3 DEF TextInv, KeptByOwner
<1> QED BY <1>1, TextInvariant, PTL

\* A search that ends after any leaves that First was not one of says whether
\* the text was stored.
THEOREM SearchesAreRightAfterLeaves ==
  ASSUME STAGE = 6
  PROVE  LeaveSpec => [][Apart /\ First \in member => SearchEndsRight]_allVars
<1>1. TextInv /\ [LeaveNext]_allVars => [Apart /\ First \in member => SearchEndsRight]_allVars
  <2> SUFFICES ASSUME TextInv, [LeaveNext]_allVars, Apart, First \in member,
                      job = "search", job' = "none"
               PROVE  answer' = IF text \in StoredTexts THEN "present" ELSE "absent"
    BY DEF SearchEndsRight
  <2>1. leaver = NoNode /\ TellInv
    BY DEF TextInv, TellInv, AfterInv, LeaveTypes, LookupOfLeaver
  <2>2. SearchHere \/ SearchAsk
    BY DEF LeaveNext, LeaveStep, JobStep, LeaveStopped, BeginLeave, LeaveAlone, FetchText,
           FetchEnd, LeaveLookup, LeaveFound, LeaveNotice, LeaveRefused, LeavePred, LeaveSucc,
           ClientStep, BeginStore, BeginSearch, Begin, StoreHere, StoreLookup, StoreAdd,
           StoreRefused, SearchFails, SearchLookup, SearchAgain,
           SearchSkip, SearchOwn, SearchUnset, AskBogus, AskReplica, SearchSelf, SearchVerdict,
           Searching7, NextFound, allVars, vars, jobVars
  <2>3. /\ text \in Text /\ Here = Hash[text] /\ Here \in Id /\ <<Here, text>> \in Entry
        /\ EndLookup => OwnerOf(member, Here, tempB) /\ tempB \in member
        /\ OwnArc(Here) => OwnerOf(member, Here, First)
    BY <2>1, JobOwner
  <2>4. PICK e \in Entry : e = <<Here, text>> /\ e[1] = Here
    BY <2>3
  <2>5. Walkable(member) /\ member \in SUBSET Id /\ member \subseteq Node
    BY <2>1, ApartSettles, AfterBasics DEF TellInv
  <2>6. text \in StoredTexts <=> \E m \in Node : Holds(m, e)
    <3>1. \A i \in Positions : <<Loc(text, i), text>> = e
      BY <2>3, <2>4, EntryOfHash
    <3>2. 0 \in Positions
      BY DEF Positions
    <3> QED BY <2>3, <3>1, <3>2 DEF StoredTexts
  <2>7. ASSUME NEW n \in member, OwnerOf(member, Here, n)
        PROVE  text \in StoredTexts <=> Holds(n, e)
    <3>1. ASSUME NEW m \in Node, Holds(m, e) PROVE Holds(n, e)
      <4>1. PICK k \in member : OwnerOf(member, Here, k) /\ Holds(k, e)
        BY <2>4, <3>1 DEF TextInv, KeptByOwner
      <4>2. k = n
        BY <2>3, <2>5, <2>7, <4>1, OwnerUnique
      <4> QED BY <4>1, <4>2
    <3> QED BY <2>5, <2>6, <3>1
  <2>8. CASE SearchHere
    BY <2>3, <2>4, <2>7, <2>8 DEF SearchHere, OwnerOf
  <2>9. CASE SearchAsk
    <3>1. tempB \in member /\ OwnerOf(member, Here, tempB) /\ tempB # First
      BY <2>3, <2>9 DEF SearchAsk
    <3>2. Owns(tempB, Here)
      BY <2>3, <2>5, <3>1, OwnerKeeps
    <3>3. HoldsId(tempB, Here) <=> Holds(tempB, e)
      BY <2>4, EntryOfHash DEF HoldsId
    <3> QED BY <2>7, <2>9, <3>1, <3>2, <3>3 DEF SearchAsk
  <2> QED BY <2>2, <2>8, <2>9
<1> QED BY <1>1, TextInvariant, PTL DEF LeaveSpec
==============================================================================

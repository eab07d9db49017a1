----------------------------- MODULE TriadLeave -----------------------------
(****************************************************************************)
(* end_client (client.c:2480-2806): a client hands its texts to its         *)
(* successor, has the fingers that name it corrected, and takes itself out  *)
(* of the ring.  The manager gives the next job only when the last one is   *)
(* answered, so leaves alternate with the stores and searches of TriadStore *)
(* and everybody but the leaver sits in its select loop.  A client that has *)
(* left keeps its process, its neighbours and its copies until the manager  *)
(* tells all of them to exit; if it is First it even goes on with the jobs. *)
(* A leaver that gets an answer it does not expect breaks its loop and      *)
(* exits, and with that the manager's loop ends.                            *)
(*                                                                          *)
(* Hello messages that reach a client in the middle of a leave are the      *)
(* subject of TriadRepair.                                                  *)
(****************************************************************************)
EXTENDS TriadStore

CONSTANT Rings      \* the rings that are looked at

ASSUME RingsAssumption == \A R \in Rings : R \subseteq Node /\ First \in R

VARIABLES created,  \* the clients the manager has created (CNameHead)
          leaver,   \* the client in HandleEndClient, or NoNode
          lat,      \* where it stands
          lidx,     \* its loop variable i
          temppr,   \* the node it is about to send LEAVQ to
          unsent    \* unsent[e]: copies of e it has not handed over yet

leaveVars == <<created, leaver, lat, lidx, temppr, unsent>>
allVars == <<vars, leaveVars>>

NoNode == HASHMAX + 1
Nothing == [e \in Entry |-> 0]

LeaveTypeOK ==
  /\ StoreTypeOK
  /\ created \in Rings
  /\ leaver \in Node \cup {NoNode}
  /\ lat \in {"none", "fetch", "fingers", "notice", "unlink", "failed"}
  /\ (leaver = NoNode) <=> (lat = "none")
  /\ lidx \in 1 .. FTLEN
  /\ temppr \in Node
  /\ unsent \in [Entry -> Nat]

\* All clients have joined, and each knows its neighbours and the owners of
\* its fingers' starts.
LeaveInit ==
  /\ created \in Rings
  /\ member = created
  /\ \E f \in {f \in [created -> created] : \A n \in created : NextOf(created, n, f[n])} :
       succ = [n \in Node |-> IF n \in created THEN f[n] ELSE n]
  /\ \E f \in {f \in [created -> created] : \A n \in created : PrevOf(created, n, f[n])} :
       pred = [n \in Node |-> IF n \in created THEN f[n] ELSE n]
  /\ ft = [n \in Node |-> [i \in Finger |->
             IF n \in created
               THEN CHOOSE s \in created : OwnerOf(created, FingerStart(n, i), s)
               ELSE n]]
  /\ \A n \in created, i \in Finger : OwnerOf(created, FingerStart(n, i), ft[n][i])
  /\ lpc = "idle" /\ caller = First /\ key = First
  /\ tempA = First /\ tempB = First
  /\ copies = [n \in Node |-> Nothing]
  /\ job = "none" /\ text = NoText /\ at = 0 /\ found = <<>>
  /\ left = Jobs
  /\ answer = "none"
  /\ leaver = NoNode /\ lat = "none" /\ lidx = 1
  /\ temppr = First /\ unsent = Nothing

----------------------------------------------------------------------------
(****************************************************************************)
(* LEAVQ to the successor.                                                  *)
(****************************************************************************)

\* The handlers of LEAVQ at n: fingers that name x name y from now on.
Renamed(n, x, y) == [i \in Finger |-> IF ft[n][i] = x THEN y ELSE ft[n][i]]

\* end_client for x, once.
BeginLeave(x) ==
  /\ leaver = NoNode
  /\ job = "none"
  /\ left > 0
  /\ x \in member
  /\ leaver' = x /\ lat' = "fetch" /\ unsent' = copies[x]
  /\ left' = left - 1
  /\ UNCHANGED <<ringVars, lookVars, copies, job, text, at, found, answer, created, lidx, temppr>>

\* The only client of the ring reads its own LEAVQ, which is no NXTDQ, and
\* exits.
LeaveAlone ==
  /\ lat = "fetch"
  /\ succ[leaver] = leaver
  /\ lat' = "failed"
  /\ UNCHANGED <<vars, created, leaver, lidx, temppr, unsent>>

\* Mutant: the text is counted and not kept.
FetchTextLost ==
  /\ lat = "fetch" /\ succ[leaver] # leaver
  /\ \E e \in Entry :
       /\ unsent[e] > 0
       /\ unsent' = [unsent EXCEPT ![e] = @ - 1]
  /\ UNCHANGED <<ringVars, lookVars, copies, jobVars, created, leaver, lat, lidx, temppr>>

\* NXTDQ and NXTDR: the successor takes the next text and hashes it again,
\* which in stage 7 forgets at which of its positions it was kept.
FetchText ==
  /\ lat = "fetch" /\ succ[leaver] # leaver
  /\ \E e \in Entry :
       /\ unsent[e] > 0
       /\ unsent' = [unsent EXCEPT ![e] = @ - 1]
       /\ copies' = [copies EXCEPT ![succ[leaver]][<<Hash[e[2]], e[2]>>] = @ + 1]
  /\ UNCHANGED <<ringVars, lookVars, jobVars, created, leaver, lat, lidx, temppr>>

\* The last NXTDR is empty; the successor renames its fingers and sends LEAVR.
FetchEnd ==
  /\ lat = "fetch" /\ succ[leaver] # leaver
  /\ unsent = Nothing
  /\ ft' = [ft EXCEPT ![succ[leaver]] = Renamed(succ[leaver], leaver, succ[leaver])]
  /\ lat' = "fingers" /\ lidx' = 1
  /\ UNCHANGED <<member, succ, pred, lookVars, copies, jobVars, created, leaver, temppr, unsent>>

----------------------------------------------------------------------------
(****************************************************************************)
(* The fingers of the others.                                               *)
(****************************************************************************)

\* Mutant: the subtraction does not stay on the circle.
LeaveLookupBelow ==
  /\ lat = "fingers" /\ lidx < FTLEN /\ lpc = "idle"
  /\ BeginLookup(leaver, leaver - 2 ^ (lidx - 1))
  /\ UNCHANGED <<ringVars, copies, jobVars, leaveVars>>

LeaveLookup ==
  /\ lat = "fingers" /\ lidx < FTLEN /\ lpc = "idle"
  /\ BeginLookup(leaver, RingMinus(leaver, 2 ^ (lidx - 1)))
  /\ UNCHANGED <<ringVars, copies, jobVars, leaveVars>>

\* Finger i of n starts in the leaver's arc.
NamesLeaver(n) ==
  ~NotInRange(RingPlus(n, 2 ^ (lidx - 1)), pred[leaver], leaver)

\* Mutant: the walk does not stop at the successor.
VisitSuccToo(n) ==
  IF n # leaver /\ NamesLeaver(n)
    THEN temppr' = n /\ lat' = "notice" /\ UNCHANGED lidx
    ELSE lat' = "fingers" /\ lidx' = lidx + 1 /\ UNCHANGED temppr

\* The loop goes on with node n, which LEAVQ is sent to, or with the next i.
Visit(n) ==
  IF n \notin {leaver, succ[leaver]} /\ NamesLeaver(n)
    THEN temppr' = n /\ lat' = "notice" /\ UNCHANGED lidx
    ELSE lat' = "fingers" /\ lidx' = lidx + 1 /\ UNCHANGED temppr

\* PREDQ to the node found.
LeaveFound ==
  /\ lat = "fingers"
  /\ EndLookup
  /\ Visit(pred[tempB])
  /\ UNCHANGED <<ringVars, copies, jobVars, created, leaver, unsent>>

\* Mutant: one node is told for every i, not those before it.
LeaveNoticeOnce ==
  /\ lat = "notice" /\ pred[temppr] # leaver
  /\ ft' = [ft EXCEPT ![temppr] = Renamed(temppr, leaver, succ[leaver])]
  /\ lat' = "fingers" /\ lidx' = lidx + 1
  /\ UNCHANGED <<member, succ, pred, lookVars, copies, jobVars, created, leaver, temppr, unsent>>

\* Mutant: the walk does not go on to the predecessor.
LeaveNoticeStay ==
  /\ lat = "notice" /\ pred[temppr] # leaver
  /\ ft' = [ft EXCEPT ![temppr] = Renamed(temppr, leaver, succ[leaver])]
  /\ Visit(temppr)
  /\ UNCHANGED <<member, succ, pred, lookVars, copies, jobVars, created, leaver, unsent>>

\* LEAVQ to temppr, which asks for the leaver's successor and names that one
\* instead; then PREDQ to temppr.
LeaveNotice ==
  /\ lat = "notice" /\ pred[temppr] # leaver
  /\ ft' = [ft EXCEPT ![temppr] = Renamed(temppr, leaver, succ[leaver])]
  /\ Visit(pred[temppr])
  /\ UNCHANGED <<member, succ, pred, lookVars, copies, jobVars, created, leaver, unsent>>

\* A temppr whose predecessor is the leaver takes itself for its successor and
\* asks for its texts, where the leaver expects SUCCQ.  The leaver exits before
\* LeaveUpdateNeighbor.
LeaveRefused ==
  /\ lat = "notice" /\ pred[temppr] = leaver
  /\ lat' = "failed"
  /\ UNCHANGED <<vars, created, leaver, lidx, temppr, unsent>>

----------------------------------------------------------------------------
(****************************************************************************)
(* LeaveUpdateNeighbor.  Nobody is told about double successors.            *)
(****************************************************************************)

\* Mutant: the leaver names itself.
LeavePredSelf ==
  /\ lat = "fingers" /\ lidx = FTLEN
  /\ pred' = [pred EXCEPT ![succ[leaver]] = leaver]
  /\ lat' = "unlink"
  /\ UNCHANGED <<member, succ, ft, lookVars, copies, jobVars, created, leaver, lidx, temppr, unsent>>

\* Mutant: the second message carries the node it is sent to.
LeaveSuccSelf ==
  /\ lat = "unlink"
  /\ succ' = [succ EXCEPT ![pred[leaver]] = pred[leaver]]
  /\ ft' = [ft EXCEPT ![pred[leaver]][1] = pred[leaver]]
  /\ member' = member \ {leaver}
  /\ leaver' = NoNode /\ lat' = "none" /\ lidx' = 1
  /\ temppr' = First /\ unsent' = Nothing
  /\ UNCHANGED <<pred, lookVars, copies, jobVars, created>>

\* UPDTQ with index 0 to the successor.
LeavePred ==
  /\ lat = "fingers" /\ lidx = FTLEN
  /\ pred' = [pred EXCEPT ![succ[leaver]] = pred[leaver]]
  /\ lat' = "unlink"
  /\ UNCHANGED <<member, succ, ft, lookVars, copies, jobVars, created, leaver, lidx, temppr, unsent>>

\* UPDTQ with index 1 to the predecessor, then "ok" to the manager.
LeaveSucc ==
  /\ lat = "unlink"
  /\ succ' = [succ EXCEPT ![pred[leaver]] = succ[leaver]]
  /\ ft' = [ft EXCEPT ![pred[leaver]][1] = succ[leaver]]
  /\ member' = member \ {leaver}
  /\ leaver' = NoNode /\ lat' = "none" /\ lidx' = 1
  /\ temppr' = First /\ unsent' = Nothing
  /\ UNCHANGED <<pred, lookVars, copies, jobVars, created>>

----------------------------------------------------------------------------

LeaveStep ==
  \/ LeaveAlone \/ FetchText \/ FetchEnd
  \/ LeaveLookup \/ LeaveFound \/ LeaveNotice \/ LeaveRefused
  \/ leaver # NoNode /\ LookupStep /\ UNCHANGED <<ringVars, copies, jobVars, leaveVars>>
  \/ LeavePred \/ LeaveSucc

JobStep ==
  /\ leaver = NoNode
  /\ ClientStep
  /\ UNCHANGED <<ringVars, leaveVars>>

LeaveStopped == (lat = "failed" \/ (leaver = NoNode /\ Stopped)) /\ UNCHANGED allVars

LeaveNext ==
  \/ \E x \in Node : BeginLeave(x)
  \/ LeaveStep
  \/ /\ leaver = NoNode
     /\ \E t \in Text : BeginStore(t) \/ BeginSearch(t)
     /\ UNCHANGED <<ringVars, leaveVars>>
  \/ JobStep
  \/ LeaveStopped

\* One client is at a job and the others answer.
LeaveSpec == LeaveInit /\ [][LeaveNext]_allVars /\ WF_allVars(LeaveStep \/ JobStep)

----------------------------------------------------------------------------
(****************************************************************************)
(* What a leave promises.                                                   *)
(****************************************************************************)

\* The clients that stay know their nearest neighbours among themselves after
\* every leave, also after several; between the two UPDTQs of
\* LeaveUpdateNeighbor (client.c:2726) only the successor's predecessor is
\* ahead, and it is the one the leaver had.  When a leaver exits (lat =
\* "failed") no neighbour has been told, so it is still a member here: its
\* neighbours go on naming a process that is no more.
NeighboursAfterLeave ==
  /\ \A n \in member : NextOf(member, n, succ[n])
  /\ \A n \in member :
       IF lat = "unlink" /\ n = succ[leaver]
         THEN pred[n] = pred[leaver] /\ PrevOf(member, n, leaver)
         ELSE PrevOf(member, n, pred[n])

\* After the leaves that came to their end every finger of a client that stays
\* is the owner of its start, unless the start is the id of a client that has
\* left: the walk of client.c:2590-2711 goes by the same ids
\* RingMinus(HashID, 2^(i-1)) as that of UpdateOthers and misses a client that
\* stands exactly there.
FingersAfterLeave ==
  leaver = NoNode =>
    \A n \in member, i \in Finger :
       LET start == FingerStart(n, i)
       IN  start \notin created \ member => OwnerOf(member, start, ft[n][i])

\* No finger of a client in the ring names one that has left, and the client
\* where all lookups start has not left.
Settled ==
  /\ leaver = NoNode
  /\ First \in member
  /\ \A n \in member, i \in Finger : ft[n][i] \in member

\* Lookups made after the leaves return the node responsible for the id.  In
\* the middle of a leave they need not: the predecessor's first finger passes
\* over the leaver before its successor variable does (client.c:1629, 2715).
LookupsAfterLeave == Settled => OwnerFound(member)

\* No two of the clients are a power of two apart.
Apart == \A n \in created, i \in Finger : FingerStart(n, i) \notin created

\* Up to stage 6 a text that was stored is kept, after any leaves, by the
\* client that is now responsible for it, whether it was stored before or
\* after them (client.c:1639-1700, 2512-2574).
TextsHandedOver ==
  Apart /\ leaver = NoNode /\ First \in member =>
    \A t \in StoredTexts, i \in Positions :
       \E n \in member : OwnerOf(member, Loc(t, i), n) /\ Holds(n, <<Loc(t, i), t>>)

\* A search that ends says whether its text was stored.
SearchEndsRight ==
  job = "search" /\ job' = "none" =>
    answer' = IF text \in StoredTexts THEN "present" ELSE "absent"

\* And every search after any leaves that came to their end, also those of First
\* and of its neighbours, ends right; after a leaver's exit the manager gives no
\* more jobs.  That First has to be in the ring or two others left is because a
\* client that is left alone claims no id but its own (client.c:1501): a First
\* that has gone and goes on with the jobs does not find there what the last
\* client keeps.
SearchesAfterLeave ==
  [][Apart /\ (First \in member \/ Cardinality(member) > 1) => SearchEndsRight]_allVars

\* A leave comes to its end, whatever the fingers its lookups and its walk
\* meet.  That may be the leaver's exit: that of the last client of the ring
\* (client.c:2531), or of one whose walk meets a client that left before it and
\* that takes itself for its successor (client.c:1637, 2660).
LeaveEnds == (leaver # NoNode) ~> (lat \in {"none", "failed"})

\* While First is in the ring, and with no two clients a power of two apart,
\* the walk of a leave meets no client that has left and only the last client
\* exits instead of leaving.
LeaveExits ==
  lat = "failed" /\ Apart /\ First \in member => member = {leaver}
=============================================================================

------------------------------ MODULE TriadStore ------------------------------
(****************************************************************************)
(* Store and search (client.c:2004-2478).  The manager sends every job to   *)
(* the first client (manager.c:249-332) and waits for its "ok", so there is *)
(* one job at a time and First is the client that runs it.  An action is a  *)
(* piece of the job between two lookups, with the round trip of STORQ,      *)
(* CLSTQ or ESTRQ that ends it; the lookups are those of TriadLookup, on a  *)
(* ring that stands still.                                                  *)
(*                                                                          *)
(* STAGE is the stage of the configuration.  In stage 7 a text is stored at *)
(* four positions, its hash with the two highest bits flipped, a search     *)
(* asks for two of them, and the clients in Bogus answer ESTRQ with a text  *)
(* of their own.                                                            *)
(****************************************************************************)
EXTENDS TriadLookup, Sequences, FiniteSets

CONSTANTS STAGE,    \* 6 or 7
          Text,     \* the texts of the jobs
          NoText,
          Hash,     \* gethashid of a text, in stage 7 before it is flipped
          Bogus,    \* clients started by start_tkcc
          Jobs      \* number of jobs the manager has

ASSUME StageAssumption == STAGE \in {6, 7} /\ Bogus \subseteq Node

VARIABLES copies,   \* copies[n][e]: how often the list of n holds entry e
          job,      \* the job First is at
          text,     \* its text
          at,       \* its loop variable i over the positions
          found,    \* the search's data_stored[0 .. j-1]
          left,     \* jobs the manager has left
          answer    \* what the last search wrote to the log

jobVars == <<job, text, at, found, left, answer>>
vars == <<ringVars, lookVars, copies, jobVars>>

Positions == IF STAGE = 7 THEN 0 .. 3 ELSE {0}

Quarter == (HASHMAX + 1) \div 4

\* opcode[i] ^ id: the two highest bits of id are flipped as those of i say.
Flip(id, i) ==
  LET q == id \div Quarter
  IN  ((((q \div 2) + (i \div 2)) % 2) * 2 + ((q + i) % 2)) * Quarter + (id % Quarter)

Loc(t, i) == IF STAGE = 7 THEN Flip(Hash[t], i) ELSE Hash[t]

\* 32-bit hashes: no two texts, and no two positions, have the same.
ASSUME HashAssumption ==
  /\ NoText \notin Text
  /\ Hash \in [Text -> Id]
  /\ Jobs \in Nat
  /\ \A t \in Text, i \in Positions : Loc(t, i) \in Id
  /\ \A t, u \in Text, i, j \in Positions : Loc(t, i) = Loc(u, j) => (t = u /\ i = j)

Entry == {<<Loc(t, i), t>> : t \in Text, i \in Positions}

StoreTypeOK ==
  /\ LookupTypeOK
  /\ copies \in [Node -> [Entry -> Nat]]
  /\ job \in {"none", "store", "search", "gone"}
  /\ text \in Text \cup {NoText}
  /\ (text = NoText) <=> (job = "none")
  /\ at \in 0 .. 4
  /\ job = "store" => at \in Positions
  /\ found \in Seq(0 .. 2) /\ Len(found) <= 2
  /\ left \in 0 .. Jobs
  /\ answer \in {"none", "present", "absent", "verified", "disagree"}

StoreInit ==
  /\ LookupInit
  /\ copies = [n \in Node |-> [e \in Entry |-> 0]]
  /\ job = "none" /\ text = NoText /\ at = 0 /\ found = <<>>
  /\ left = Jobs
  /\ answer = "none"

----------------------------------------------------------------------------

Here == Loc(text, at)
Holds(n, e) == copies[n][e] > 0

\* SearchClientStore with a null text, SearchClientStore7: by the id alone.
HoldsId(n, id) == \E e \in Entry : e[1] = id /\ Holds(n, e)

\* Mutant: one of the cases that are commented out at lines 2020 and 2226.
OwnArcLoose(id) ==
  \/ pred[First] < id
  \/ id < pred[First] /\ pred[First] > First /\ id <= First

\* Mutant: the arc that wraps around is left to the lookup.
OwnArcOneSide(id) == pred[First] < id /\ id <= First

\* What First takes for its own arc without a lookup: not the part of it that
\* lies above the largest client, and nothing when First is alone.
OwnArc(id) ==
  \/ pred[First] < id /\ id <= First
  \/ id < pred[First] /\ pred[First] > First /\ id <= First

\* Mutant: the smallest client is not told from the others.
KeepsNoWrap(n, id) == id > pred[n] /\ id <= n

\* The STORQ handler of n keeps the text.
Keeps(n, id) ==
  IF pred[n] > n THEN id > pred[n] \/ id <= n ELSE id > pred[n] /\ id <= n

\* AddClientStore
Add(n) == copies' = [copies EXCEPT ![n][<<Here, text>>] = @ + 1]

\* "ok" to the manager.
Done ==
  /\ job' = "none" /\ text' = NoText
  /\ at' = 0 /\ found' = <<>>

----------------------------------------------------------------------------
(****************************************************************************)
(* HandleStoreMsg, processStoreMsg.                                         *)
(****************************************************************************)

Begin(kind, t) ==
  /\ job = "none"
  /\ left > 0
  /\ left' = left - 1
  /\ job' = kind /\ text' = t /\ at' = 0 /\ found' = <<>>
  /\ UNCHANGED <<lookVars, copies>>

BeginStore(t) == Begin("store", t) /\ UNCHANGED answer

NextPosition ==
  IF at + 1 \in Positions THEN at' = at + 1 /\ UNCHANGED <<job, text, found>> ELSE Done

StoreHere ==
  /\ job = "store" /\ lpc = "idle"
  /\ OwnArc(Here)
  /\ Add(First)
  /\ NextPosition
  /\ UNCHANGED <<lookVars, left, answer>>

StoreLookup ==
  /\ job = "store" /\ lpc = "idle"
  /\ ~OwnArc(Here)
  /\ BeginLookup(First, Here)
  /\ UNCHANGED <<copies, jobVars>>

\* First is found to be the owner, or STORQ is answered with 1.
StoreAdd ==
  /\ job = "store"
  /\ EndLookup
  /\ tempB = First \/ (Keeps(tempB, Here) /\ ~Holds(tempB, <<Here, text>>))
  /\ Add(tempB)
  /\ NextPosition
  /\ UNCHANGED <<left, answer>>

\* STORQ is answered with 2, stored already, or 0, not mine.
StoreRefused ==
  /\ job = "store"
  /\ EndLookup
  /\ tempB # First
  /\ ~Keeps(tempB, Here) \/ Holds(tempB, <<Here, text>>)
  /\ NextPosition
  /\ UNCHANGED <<copies, left, answer>>

----------------------------------------------------------------------------
(****************************************************************************)
(* HandleSearchMsg, up to stage 6.                                          *)
(****************************************************************************)

BeginSearch(t) == Begin("search", t) /\ answer' = "none"

SearchHere ==
  /\ job = "search" /\ STAGE = 6 /\ lpc = "idle"
  /\ OwnArc(Here)
  /\ answer' = IF Holds(First, <<Here, text>>) THEN "present" ELSE "absent"
  /\ Done
  /\ UNCHANGED <<lookVars, copies, left>>

\* No branch is taken: the client leaves its loop and exits.
SearchFails ==
  /\ job = "search" /\ STAGE = 6 /\ lpc = "idle"
  /\ ~OwnArc(Here) /\ Here = First
  /\ job' = "gone"
  /\ UNCHANGED <<lookVars, copies, text, at, found, left, answer>>

\* The loop over the positions looks at the next one (stage 7): those below
\* First are passed over, and two are enough.
Consulting == at <= 3 /\ Len(found) < 2 /\ First <= Here

SearchLookup ==
  /\ job = "search" /\ lpc = "idle"
  /\ STAGE = 7 => Consulting
  /\ ~OwnArc(Here) /\ Here # First
  /\ BeginLookup(First, Here)
  /\ UNCHANGED <<copies, jobVars>>

\* Mutant: whether the node has the text is not looked at.
SearchAskAlways ==
  /\ job = "search" /\ STAGE = 6
  /\ EndLookup
  /\ tempB # First /\ IsClosest(tempB, Here, tempB)
  /\ answer' = "present"
  /\ Done
  /\ UNCHANGED <<copies, left>>

\* CLSTQ to the node found, which names itself.
SearchAsk ==
  /\ job = "search" /\ STAGE = 6
  /\ EndLookup
  /\ tempB # First /\ IsClosest(tempB, Here, tempB)
  /\ answer' = IF Owns(tempB, Here) /\ HoldsId(tempB, Here) THEN "present" ELSE "absent"
  /\ Done
  /\ UNCHANGED <<copies, left>>

\* The loop goes round: another node is named, or it is First itself that was
\* found and its own fingers have no answer.  The next turn is another lookup.
SearchAgain ==
  /\ job = "search"
  /\ EndLookup
  /\ IF tempB = First
       THEN STAGE = 7 => ~IsClosest(First, Here, First)
       ELSE ~IsClosest(tempB, Here, tempB) /\ (STAGE = 7 => tempB \notin Bogus)
  /\ UNCHANGED <<copies, jobVars>>

----------------------------------------------------------------------------
(****************************************************************************)
(* HandleStage7Search.                                                      *)
(****************************************************************************)

Searching7 == job = "search" /\ STAGE = 7

NextFound(d) ==
  /\ found' = Append(found, d)
  /\ at' = at + 1
  /\ UNCHANGED <<job, text, answer>>

Absent == answer' = "absent" /\ Done

SearchSkip ==
  /\ Searching7 /\ lpc = "idle"
  /\ at <= 3 /\ Len(found) < 2 /\ ~(First <= Here)
  /\ at' = at + 1
  /\ UNCHANGED <<lookVars, copies, job, text, found, left, answer>>

SearchOwn ==
  /\ Searching7 /\ lpc = "idle"
  /\ Consulting /\ OwnArc(Here)
  /\ IF Holds(First, <<Here, text>>) THEN NextFound(1) ELSE Absent
  /\ UNCHANGED <<lookVars, copies, left>>

\* No branch is taken: data_stored[j] keeps what was on the stack.
SearchUnset ==
  /\ Searching7 /\ lpc = "idle"
  /\ Consulting /\ ~OwnArc(Here) /\ Here = First
  /\ \E d \in 0 .. 2 : NextFound(d)
  /\ UNCHANGED <<lookVars, copies, left>>

\* ESTRQ to the node found: 1 for the text, 2 for another text.
AskBogus ==
  /\ Searching7
  /\ EndLookup
  /\ tempB # First /\ tempB \in Bogus
  /\ NextFound(2)
  /\ UNCHANGED <<copies, left>>

\* Mutant: a replica that has no text counts as one that has it.
AskReplicaAlways ==
  /\ Searching7
  /\ EndLookup
  /\ tempB # First /\ tempB \notin Bogus /\ IsClosest(tempB, Here, tempB)
  /\ NextFound(1)
  /\ UNCHANGED <<copies, left>>

AskReplica ==
  /\ Searching7
  /\ EndLookup
  /\ tempB # First /\ tempB \notin Bogus /\ IsClosest(tempB, Here, tempB)
  /\ IF Owns(tempB, Here) /\ HoldsId(tempB, Here)
       THEN NextFound(IF Holds(tempB, <<Here, text>>) THEN 1 ELSE 2)
       ELSE Absent
  /\ UNCHANGED <<copies, left>>

\* First was found and its own fingers name it too: data_stored[j] is the 0
\* that processExtStores returns for a question to oneself.
SearchSelf ==
  /\ Searching7
  /\ EndLookup
  /\ tempB = First /\ IsClosest(First, Here, First)
  /\ NextFound(0)
  /\ UNCHANGED <<copies, left>>

\* Both entries of data_stored are compared, also one that was never set.
SearchVerdict ==
  /\ Searching7 /\ lpc = "idle"
  /\ at = 4 \/ Len(found) = 2
  /\ \E d \in [1 .. 2 -> 0 .. 2] :
       /\ \A j \in 1 .. Len(found) : d[j] = found[j]
       /\ answer' = IF d[1] = d[2] /\ d[1] = 1 THEN "verified" ELSE "disagree"
  /\ Done
  /\ UNCHANGED <<lookVars, copies, left>>

----------------------------------------------------------------------------

\* The client, or the node it waits for, goes on with the job.
ClientStep ==
  \/ LookupStep /\ UNCHANGED <<copies, jobVars>>
  \/ StoreHere \/ StoreLookup \/ StoreAdd \/ StoreRefused
  \/ SearchHere \/ SearchFails \/ SearchLookup \/ SearchAsk \/ SearchAgain
  \/ SearchSkip \/ SearchOwn \/ SearchUnset \/ AskBogus \/ AskReplica
  \/ SearchSelf \/ SearchVerdict

\* No job is left, or the client that runs them has gone.
Stopped == (job = "gone" \/ (job = "none" /\ left = 0)) /\ UNCHANGED vars

Next ==
  \/ (\E t \in Text : BeginStore(t) \/ BeginSearch(t)) /\ UNCHANGED ringVars
  \/ ClientStep /\ UNCHANGED ringVars
  \/ Stopped

\* First runs one job to its end and the others are in their select loops.
Fairness == WF_vars(ClientStep /\ UNCHANGED ringVars)

Spec == StoreInit /\ [][Next]_vars /\ Fairness

----------------------------------------------------------------------------
(****************************************************************************)
(* What store and search promise.                                           *)
(****************************************************************************)

\* A copy that any client keeps is at the client responsible for its id, so
\* what STORQ refuses, what First takes for its own arc and where the lookup
\* ends agree (client.c:2019-2047 and 1586-1609).
StoredAtOwner ==
  \A n \in Node, e \in Entry : Holds(n, e) => OwnerOf(member, e[1], n)

\* When a store job ends the text is held at each of its positions: no owner
\* has refused it (client.c:1595, "not mine"), whose answer 0 is not handled.
StoreTakesHold ==
  [][job = "store" /\ job' # "store" =>
       \A i \in Positions : \E n \in member :
          OwnerOf(member, Loc(text, i), n) /\ copies'[n][<<Loc(text, i), text>>] > 0]_vars

\* Up to stage 6 a search that ends says of every text whether it was stored,
\* wherever it is kept: First's own branches, STORQ and CLSTQ decide alike.
StoredTexts == {t \in Text : \A i \in Positions : \E n \in Node : Holds(n, <<Loc(t, i), t>>)}

Store == INSTANCE TextStore WITH
  texts <- StoredTexts,
  query <- IF job \in {"search", "gone"} THEN text ELSE NoText

RefinesTextStore == Store!Spec

\* The positions a search looks at: the first two that are not below First.
Candidates(t) ==
  LET up == {i \in Positions : First <= Loc(t, i)}
  IN  IF STAGE = 7 THEN {i \in up : Cardinality({j \in up : j < i}) < 2} ELSE {0}

\* One of them belongs to First, which the tests of First do not see: it lies
\* above the largest client, or First is alone.
InOwnGap(t) ==
  \E i \in Candidates(t) :
     OwnerOf(member, Loc(t, i), First) /\ (First < Loc(t, i) \/ member = {First})

\* A search comes to an end when its positions are not in that gap.
SearchEndsElsewhere ==
  (job = "search" /\ ~InOwnGap(text)) ~> (job # "search")

\* Of the comments at the two ways out of a loop over lookups (client.c:2412 and
\* 2453, "find the node and it has id, yeah!", and 2420 and 2461, "finde the
\* node, but it doesn't have the id"): every search ends by one of them, or by
\* a branch that does not come to a loop.
SearchAnswers == (job = "search") ~> (job # "search")

\* In stage 7 a stored text is verified unless one of the two clients asked is
\* bogus, and one that was not stored is never verified; two bogus clients
\* hide that it is absent, one does not (client.c:2327-2338).
VerdictRight ==
  [][job = "search" /\ job' = "none" /\ ~InOwnGap(text) =>
       LET liar == {i \in Candidates(text) :
                      \E n \in Bogus \ {First} : OwnerOf(member, Loc(text, i), n)}
       IN  Cardinality(Candidates(text)) = 2 =>
             answer' = IF text \in StoredTexts
                         THEN IF liar = {} THEN "verified" ELSE "disagree"
                         ELSE IF liar = Candidates(text) THEN "disagree" ELSE "absent"]_vars

\* Of the comments at client.c:2217, "find two nearest node", and 2265 and 2301,
\* "find the node and it has id, yeah!": a verdict rests on what two nodes have
\* said of the text, 1 or 2, and not on the 0 that a client gets that asks
\* itself (client.c:2148).
VerdictOfTwo ==
  [][job = "search" /\ answer' \in {"verified", "disagree"} /\ answer' # answer =>
       Len(found) = 2 /\ \A j \in 1 .. 2 : found[j] # 0]_vars
==============================================================================

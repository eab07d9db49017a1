--------------------------- MODULE TriadStoreProofs ---------------------------
(****************************************************************************)
(* Store and search agree on where a text is kept, and the verdict of stage *)
(* 7 is the right one, on every ring whose neighbours are right, for every  *)
(* size of the circle and of the finger tables, every choice of clients, of *)
(* texts and of bogus clients.                                              *)
(****************************************************************************)
EXTENDS TriadStore, TriadLookupProofs, FiniteSetTheorems

\* A lookup belongs to the job, and looks for the position the job is at.
LookupOfJob ==
  lpc # "idle" =>
    /\ job \in {"store", "search"}
    /\ caller = First /\ key = Here
    /\ job = "search" /\ STAGE = 7 => Consulting

\* Where the loop over the positions stands.
LoopInRange ==
  /\ job = "store" => at \in Positions
  /\ job \in {"search", "gone"} /\ STAGE = 6 => at = 0

\* The text is held at its position i.
HeldAt(i) ==
  \E n \in member : OwnerOf(member, Loc(text, i), n) /\ Holds(n, <<Loc(text, i), text>>)

HeldSoFar == job = "store" => \A i \in Positions : i < at => HeldAt(i)

StoreInv ==
  /\ StoreTypeOK /\ LookupInv
  /\ StoredAtOwner
  /\ LookupOfJob /\ LoopInRange /\ HeldSoFar

----------------------------------------------------------------------------
(****************************************************************************)
(* The tests of First, of STORQ and of CLSTQ are about the same arc.        *)
(****************************************************************************)

\* What belongs to a client that has another one before it lies between them.
LEMMA OwnerInArc ==
  ASSUME NEW R \in SUBSET Id, NEW n \in R, NEW p, PrevOf(R, n, p), p # n,
         NEW id \in Id, OwnerOf(R, id, n)
  PROVE  /\ p > n => id > p \/ id <= n
         /\ ~(p > n) => p < n /\ id > p /\ id <= n
<1>1. p \in R /\ p \in Id /\ n \in Id /\ Dist(id, n) <= Dist(id, p)
  BY DEF PrevOf, OwnerOf
<1> QED BY <1>1, HashMaxAssumption DEF Id, Dist

\* The owner of an id, unless it is First, keeps it and claims it.
LEMMA OwnerKeeps ==
  ASSUME Walkable(member), NEW n \in member, n # First,
         NEW id \in Id, OwnerOf(member, id, n)
  PROVE  Keeps(n, id) /\ Owns(n, id)
<1>1. /\ member \in SUBSET Id /\ n \in Id /\ pred[n] \in Id
      /\ PrevOf(member, n, pred[n])
  BY NodeAssumption DEF Walkable, NeighboursCorrect
<1>2. pred[n] # n
  BY <1>1 DEF PrevOf, Walkable
<1>3. /\ pred[n] > n => id > pred[n] \/ id <= n
      /\ ~(pred[n] > n) => pred[n] < n /\ id > pred[n] /\ id <= n
  BY <1>1, <1>2, OwnerInArc
<1> QED BY <1>1, <1>3 DEF Keeps, Owns, Id

\* What First takes for its own arc is its own.
LEMMA OwnArcIsOwner ==
  ASSUME Walkable(member), NEW id \in Id, OwnArc(id)
  PROVE  OwnerOf(member, id, First)
<1>1. /\ member \in SUBSET Id /\ First \in member /\ First \in Id /\ pred[First] \in Id
      /\ PrevOf(member, First, pred[First])
  BY NodeAssumption DEF Walkable, NeighboursCorrect
<1>2. 0 < Dist(pred[First], id) /\ Dist(pred[First], id) <= Dist(pred[First], First)
  BY <1>1, HashMaxAssumption DEF OwnArc, Dist, Id
<1> QED BY <1>1, <1>2, OwnerIsSelf

----------------------------------------------------------------------------
(****************************************************************************)
(* The lookups are those of TriadLookup.                                    *)
(****************************************************************************)

LEMMA JobsPlace ==
  ASSUME StoreTypeOK, LoopInRange, job = "store" \/ (job = "search" /\ (STAGE = 6 \/ at <= 3))
  PROVE  at \in Positions /\ text \in Text /\ Here \in Id /\ <<Here, text>> \in Entry
<1>1. at \in Positions /\ text \in Text
  BY StageAssumption DEF StoreTypeOK, LoopInRange, Positions
<1> QED BY <1>1, HashAssumption DEF Here, Entry

LEMMA HereIsId ==
  ASSUME StoreInv, job = "store" \/ (job = "search" /\ (STAGE = 6 \/ at <= 3))
  PROVE  at \in Positions /\ text \in Text /\ Here \in Id /\ <<Here, text>> \in Entry
BY JobsPlace DEF StoreInv

LEMMA StoreLookups ==
  ASSUME StoreInv, [Next]_vars
  PROVE  UNCHANGED ringVars /\ [LookupNext]_<<ringVars, lookVars>>
<1>0. First \in Node
  BY NodeAssumption
<1>1. CASE StoreLookup /\ UNCHANGED ringVars
  <2>1. StartLookup(First, Here)
    BY <1>1 DEF StoreLookup, StartLookup
  <2> QED BY <1>0, <1>1, <2>1, HereIsId DEF LookupNext, StoreLookup
<1>2. CASE SearchLookup /\ UNCHANGED ringVars
  <2>1. StartLookup(First, Here)
    BY <1>2 DEF SearchLookup, StartLookup
  <2>2. Here \in Id
    BY <1>2, HereIsId, StageAssumption DEF SearchLookup, Consulting
  <2> QED BY <1>0, <1>2, <2>1, <2>2 DEF LookupNext
<1>3. CASE EndLookup /\ UNCHANGED ringVars
  BY <1>3 DEF LookupNext
<1>4. CASE LookupStep /\ UNCHANGED ringVars
  BY <1>4 DEF LookupNext
<1>5. CASE UNCHANGED lookVars /\ UNCHANGED ringVars
  BY <1>5 DEF lookVars
<1>6. CASE UNCHANGED vars
  BY <1>6 DEF vars, lookVars, ringVars
<1> QED BY <1>1, <1>2, <1>3, <1>4, <1>5, <1>6
        DEF Next, ClientStep, Stopped, BeginStore, BeginSearch, Begin, StoreHere, StoreAdd,
            StoreRefused, SearchHere, SearchFails, SearchAsk, SearchAgain, SearchSkip,
            SearchOwn, SearchUnset, AskBogus, AskReplica, SearchSelf, SearchVerdict

\* The ring has not changed and the lookup is still right.
LEMMA StoreKeepsLookup ==
  ASSUME StoreInv, [Next]_vars
  PROVE  LookupInv' /\ member' = member /\ pred' = pred
<1>1. UNCHANGED ringVars /\ [LookupNext]_<<ringVars, lookVars>>
  BY StoreLookups
<1> QED BY <1>1, LookupInvStep DEF StoreInv, ringVars

\* A lookup that ends has found the client responsible for the position.
LEMMA FoundOwner ==
  ASSUME StoreInv, EndLookup
  PROVE  tempB \in member /\ OwnerOf(member, Here, tempB)
BY DEF StoreInv, EndLookup, LookupInv, LookupCorrect, OwnerFound, LookupOfJob, OwnerOf

----------------------------------------------------------------------------
(****************************************************************************)
(* What a step does to the copies.                                          *)
(****************************************************************************)

\* One more copy of the text at n, and nothing else.
LEMMA AddCopy ==
  ASSUME StoreTypeOK, NEW n \in Node, <<Here, text>> \in Entry, Add(n)
  PROVE  /\ copies' \in [Node -> [Entry -> Nat]]
         /\ copies'[n][<<Here, text>>] > 0
         /\ \A m \in Node, e \in Entry :
              copies'[m][e] = IF m = n /\ e = <<Here, text>> THEN copies[m][e] + 1
                                                              ELSE copies[m][e]
<1>1. copies \in [Node -> [Entry -> Nat]]
  BY DEF StoreTypeOK
<1>2. PICK e0 \in Entry : e0 = <<Here, text>>
  OBVIOUS
<1>3. copies' = [copies EXCEPT ![n] = [copies[n] EXCEPT ![e0] = copies[n][e0] + 1]]
  BY <1>2 DEF Add
<1>4. /\ copies' \in [Node -> [Entry -> Nat]]
      /\ copies'[n][e0] > 0
      /\ \A m \in Node, e \in Entry :
           copies'[m][e] = IF m = n /\ e = e0 THEN copies[m][e] + 1 ELSE copies[m][e]
  BY <1>1, <1>3
<1> QED BY <1>2, <1>4

\* The copies stay, or the owner of the position a store is at gets one more.
LEMMA CopiesChange ==
  ASSUME StoreInv, [Next]_vars
  PROVE  \/ UNCHANGED copies
         \/ /\ job = "store" /\ <<Here, text>> \in Entry
            /\ \E n \in member : OwnerOf(member, Here, n) /\ Add(n)
<1>1. CASE StoreHere
  BY <1>1, HereIsId, OwnArcIsOwner DEF StoreHere, StoreInv, LookupInv, Walkable
<1>2. CASE StoreAdd
  BY <1>2, HereIsId, FoundOwner DEF StoreAdd
<1>3. CASE UNCHANGED copies
  BY <1>3
<1> QED BY <1>1, <1>2, <1>3
        DEF Next, ClientStep, Stopped, BeginStore, BeginSearch, Begin, StoreLookup,
            StoreRefused, SearchHere, SearchFails, SearchLookup, SearchAsk, SearchAgain,
            SearchSkip, SearchOwn, SearchUnset, AskBogus, AskReplica, SearchSelf,
            SearchVerdict, vars

\* No copy is lost, and those there are stay with the owners of their ids.
LEMMA CopiesKept ==
  ASSUME StoreInv, [Next]_vars
  PROVE  /\ copies' \in [Node -> [Entry -> Nat]]
         /\ \A n \in Node, e \in Entry : Holds(n, e) => Holds(n, e)'
         /\ StoredAtOwner'
<1>1. /\ copies \in [Node -> [Entry -> Nat]]
      /\ member \subseteq Node /\ member' = member
      /\ \A n \in Node, e \in Entry : copies[n][e] > 0 => OwnerOf(member, e[1], n)
  BY StoreKeepsLookup DEF StoreInv, StoreTypeOK, StoredAtOwner, Holds, LookupInv, LookupTypeOK
<1>2. CASE UNCHANGED copies
  BY <1>1, <1>2 DEF StoredAtOwner, Holds
<1>3. CASE /\ job = "store" /\ <<Here, text>> \in Entry
           /\ \E n \in member : OwnerOf(member, Here, n) /\ Add(n)
  <2>1. PICK n \in member : OwnerOf(member, Here, n) /\ Add(n)
    BY <1>3
  <2>2. PICK h : h = Here
    OBVIOUS
  <2>3. /\ copies' \in [Node -> [Entry -> Nat]]
        /\ \A m \in Node, e \in Entry :
             copies'[m][e] = IF m = n /\ e = <<h, text>> THEN copies[m][e] + 1
                                                         ELSE copies[m][e]
    BY <1>1, <1>3, <2>1, <2>2, AddCopy DEF StoreInv
  <2>4. \A m \in Node, e \in Entry : copies[m][e] \in Nat
    BY <1>1
  <2>5. ASSUME NEW m \in Node, NEW e \in Entry
        PROVE  /\ copies[m][e] > 0 => copies'[m][e] > 0
               /\ copies'[m][e] > 0 => OwnerOf(member, e[1], m)
    <3>1. CASE m = n /\ e = <<h, text>>
      BY <1>1, <2>1, <2>2, <2>3, <2>4, <3>1
    <3>2. CASE ~(m = n /\ e = <<h, text>>)
      BY <1>1, <2>3, <3>2
    <3> QED BY <3>1, <3>2
  <2> QED BY <1>1, <2>3, <2>5 DEF StoredAtOwner, Holds
<1> QED BY <1>2, <1>3, CopiesChange

----------------------------------------------------------------------------
(****************************************************************************)
(* Types, and where a job stands.                                           *)
(****************************************************************************)

\* Also on a ring some clients have left.
LEMMA JobsTypes ==
  ASSUME StoreTypeOK, LookupOfJob, LoopInRange, [Next]_vars
  PROVE  StoreTypeOK' /\ LookupOfJob' /\ LoopInRange'
<1>a. LookupTypeOK'
  <2>1. First \in Node /\ LookupTypeOK
    BY NodeAssumption DEF StoreTypeOK
  <2>2. UNCHANGED ringVars
    BY DEF Next, Stopped, vars
  <2>3. CASE StoreLookup \/ SearchLookup
    <3>1. BeginLookup(First, Here) /\ Here \in Id
      BY <2>3, JobsPlace, StageAssumption DEF StoreLookup, SearchLookup, Consulting
    <3> QED BY <2>1, <2>2, <3>1, WalkTypes
  <2>4. CASE LookupStep \/ EndLookup \/ UNCHANGED lookVars
    BY <2>1, <2>2, <2>4, WalkTypes
  <2> QED BY <2>3, <2>4
          DEF Next, ClientStep, Stopped, vars, BeginStore, BeginSearch, Begin, StoreHere, StoreAdd,
              StoreRefused, SearchHere, SearchFails, SearchAsk, SearchAgain, SearchSkip,
              SearchOwn, SearchUnset, AskBogus, AskReplica, SearchSelf, SearchVerdict
<1>b. copies' \in [Node -> [Entry -> Nat]]
  <2>1. CASE UNCHANGED copies
    BY <2>1 DEF StoreTypeOK
  <2>2. CASE StoreHere
    BY <2>2, JobsPlace, AddCopy, NodeAssumption DEF StoreHere
  <2>3. CASE StoreAdd
    BY <2>3, JobsPlace, AddCopy DEF StoreAdd, StoreTypeOK, LookupTypeOK, RegistersTypeOK
  <2> QED BY <2>1, <2>2, <2>3
          DEF Next, ClientStep, Stopped, BeginStore, BeginSearch, Begin, StoreLookup,
              StoreRefused, SearchHere, SearchFails, SearchLookup, SearchAsk, SearchAgain,
              SearchSkip, SearchOwn, SearchUnset, AskBogus, AskReplica, SearchSelf,
              SearchVerdict, vars
<1>1. /\ LookupTypeOK' /\ copies' \in [Node -> [Entry -> Nat]]
  BY <1>a, <1>b
<1>2. /\ StoreTypeOK /\ LookupOfJob /\ LoopInRange
      /\ job = "store" => at \in Positions /\ text \in Text
      /\ Positions \subseteq 0 .. 4
      /\ Jobs \in Nat /\ NoText \notin Text
  BY JobsPlace, HashAssumption DEF Positions
<1>e. <<>> \in Seq(0 .. 2) /\ Len(<<>>) = 0
  OBVIOUS
<1>3. CASE \E t \in Text : BeginStore(t) \/ BeginSearch(t)
  <2>1. PICK t \in Text : /\ lpc = "idle" /\ UNCHANGED lookVars /\ text' = t /\ text' # NoText
                          /\ job' \in {"store", "search"} /\ at' = 0 /\ found' = <<>>
                          /\ left > 0 /\ left' = left - 1
                          /\ answer' \in {answer, "none"}
    BY <1>2, <1>3 DEF BeginStore, BeginSearch, Begin, LookupOfJob
  <2>2. 0 \in Positions
    BY DEF Positions
  <2> QED BY <1>1, <1>2, <1>e, <2>1, <2>2 DEF StoreTypeOK, LookupOfJob, LoopInRange, lookVars
<1>4. CASE LookupStep /\ UNCHANGED <<copies, jobVars>>
  BY <1>1, <1>2, <1>4
     DEF jobVars, StoreTypeOK, LookupOfJob, LoopInRange, Here, Consulting,
         LookupStep, LookupFirst, LookupReturn, LookupClosest, LookupSelf, LookupHop
<1>5. CASE StoreLookup \/ SearchLookup
  BY <1>1, <1>2, <1>5, StageAssumption
     DEF StoreLookup, SearchLookup, BeginLookup, jobVars, StoreTypeOK, LookupOfJob,
         LoopInRange, Here, Consulting
<1>6. CASE StoreHere \/ StoreAdd \/ StoreRefused
  <2>1. /\ job = "store" /\ lpc' = "idle"
        /\ NextPosition /\ UNCHANGED <<left, answer>>
    BY <1>6 DEF StoreHere, StoreAdd, StoreRefused, EndLookup, lookVars
  <2>2. CASE at + 1 \in Positions
    BY <1>1, <1>2, <2>1, <2>2 DEF NextPosition, StoreTypeOK, LookupOfJob, LoopInRange
  <2>3. CASE at + 1 \notin Positions
    BY <1>1, <1>2, <1>e, <2>1, <2>3
       DEF NextPosition, Done, StoreTypeOK, LookupOfJob, LoopInRange
  <2> QED BY <2>2, <2>3
<1>7. CASE SearchHere \/ SearchAsk \/ SearchVerdict
  <2>1. /\ lpc' = "idle" /\ Done /\ UNCHANGED left
        /\ answer' \in {"present", "absent", "verified", "disagree"}
    BY <1>7 DEF SearchHere, SearchAsk, SearchVerdict, EndLookup, lookVars
  <2> QED BY <1>1, <1>2, <1>e, <2>1
          DEF Done, StoreTypeOK, LookupOfJob, LoopInRange
<1>8. CASE SearchFails \/ SearchAgain \/ SearchSkip
  <2>1. /\ lpc' = "idle" /\ job = "search"
        /\ UNCHANGED <<text, found, left, answer>>
    BY <1>8 DEF SearchFails, SearchAgain, SearchSkip, Searching7, EndLookup, lookVars, jobVars
  <2>2. /\ job' \in {"search", "gone"}
        /\ at' = at \/ (STAGE = 7 /\ at <= 3 /\ at' = at + 1)
    BY <1>8 DEF SearchFails, SearchAgain, SearchSkip, Searching7, jobVars
  <2> QED BY <1>1, <1>2, <2>1, <2>2
          DEF StoreTypeOK, LookupOfJob, LoopInRange
<1>9. CASE SearchOwn \/ SearchUnset \/ AskBogus \/ AskReplica \/ SearchSelf
  <2>1. /\ Searching7 /\ Consulting
        /\ (EndLookup \/ (lpc = "idle" /\ UNCHANGED lookVars))
        /\ (\E d \in 0 .. 2 : NextFound(d)) \/ Absent
        /\ UNCHANGED left
    BY <1>2, <1>9 DEF SearchOwn, SearchUnset, AskBogus, AskReplica, SearchSelf, Searching7,
       EndLookup, LookupOfJob
  <2>2. CASE Absent
    BY <1>1, <1>2, <1>e, <2>1, <2>2
       DEF Absent, Done, EndLookup, lookVars, StoreTypeOK, LookupOfJob, LoopInRange
  <2>3. CASE \E d \in 0 .. 2 : NextFound(d)
    <3>1. PICK d \in 0 .. 2 : NextFound(d)
      BY <2>3
    <3>2. found' \in Seq(0 .. 2) /\ Len(found') <= 2
      BY <1>2, <2>1, <3>1 DEF NextFound, Consulting, StoreTypeOK
    <3> QED BY <1>1, <1>2, <2>1, <3>1, <3>2, StageAssumption
            DEF NextFound, Consulting, Searching7, EndLookup, lookVars, StoreTypeOK,
                LookupOfJob, LoopInRange
  <2> QED BY <2>1, <2>2, <2>3
<1>10. CASE UNCHANGED vars
  BY <1>1, <1>2, <1>10
     DEF vars, lookVars, jobVars, StoreTypeOK, LookupOfJob, LoopInRange, Here, Consulting
<1> QED BY <1>3, <1>4, <1>5, <1>6, <1>7, <1>8, <1>9, <1>10 DEF Next, ClientStep, Stopped

LEMMA StoreTypesStep ==
  ASSUME StoreInv, [Next]_vars
  PROVE  StoreTypeOK' /\ LookupOfJob' /\ LoopInRange'
BY JobsTypes DEF StoreInv

----------------------------------------------------------------------------
(****************************************************************************)
(* The progress of a store job.                                             *)
(****************************************************************************)

\* The positions that were passed, and the one a store leaves, are held.
LEMMA StorePasses ==
  ASSUME StoreInv, [Next]_vars, job = "store",
         NEW i \in Positions, i < at \/ (i = at /\ NextPosition)
  PROVE  \E n \in member : /\ OwnerOf(member, Loc(text, i), n)
                          /\ copies'[n][<<Loc(text, i), text>>] > 0
<1>1. /\ at \in Positions /\ text \in Text /\ Here \in Id /\ <<Here, text>> \in Entry
      /\ <<Loc(text, i), text>> \in Entry
      /\ member \subseteq Node /\ Walkable(member)
  BY HereIsId DEF StoreInv, LookupInv, LookupTypeOK, Entry
<1>2. \A n \in Node, e \in Entry : copies[n][e] > 0 => copies'[n][e] > 0
  BY CopiesKept DEF Holds
<1>3. CASE i < at
  BY <1>1, <1>2, <1>3 DEF StoreInv, HeldSoFar, HeldAt, Holds
<1>4. CASE i = at /\ NextPosition
  <2>1. Loc(text, i) = Here
    BY <1>4 DEF Here
  <2>2. SUFFICES \E n \in member : OwnerOf(member, Here, n) /\ copies'[n][<<Here, text>>] > 0
    BY <2>1
  <2>3. CASE StoreHere
    <3>1. OwnerOf(member, Here, First) /\ First \in member
      BY <1>1, <2>3, OwnArcIsOwner DEF StoreHere, Walkable
    <3>2. copies'[First][<<Here, text>>] > 0
      BY <1>1, <2>3, NodeAssumption, AddCopy DEF StoreHere, StoreInv
    <3> QED BY <3>1, <3>2
  <2>4. CASE StoreAdd
    <3>1. OwnerOf(member, Here, tempB) /\ tempB \in member
      BY <2>4, FoundOwner DEF StoreAdd
    <3>2. copies'[tempB][<<Here, text>>] > 0
      <4>1. tempB \in Node
        BY <1>1, <3>1
      <4> QED BY <1>1, <4>1, <2>4, AddCopy DEF StoreAdd, StoreInv
    <3> QED BY <3>1, <3>2
  <2>5. CASE StoreRefused
    <3>1. OwnerOf(member, Here, tempB) /\ tempB \in member /\ tempB # First
      BY <2>5, FoundOwner DEF StoreRefused
    <3>2. Keeps(tempB, Here)
      BY <1>1, <3>1, OwnerKeeps
    <3>3. copies[tempB][<<Here, text>>] > 0
      BY <2>5, <3>2 DEF StoreRefused, Holds
    <3> QED BY <1>1, <1>2, <3>1, <3>3
  <2>6. CASE UNCHANGED <<job, at>>
    <3>1. at' # at \/ job' # job
      BY <1>1, <1>4 DEF NextPosition, Done, Positions
    <3> QED BY <2>6, <3>1
  <2> QED BY <1>4, <2>3, <2>4, <2>5, <2>6
          DEF Next, ClientStep, Stopped, BeginStore, BeginSearch, Begin, StoreLookup,
              SearchHere, SearchFails, SearchLookup, SearchAsk, SearchAgain, SearchSkip,
              SearchOwn, SearchUnset, AskBogus, AskReplica, SearchSelf, SearchVerdict,
              Searching7, vars, jobVars
<1> QED BY <1>3, <1>4

\* What a step does to a store job.
LEMMA StoreMoves ==
  ASSUME StoreInv, [Next]_vars, job = "store" \/ job' = "store"
  PROVE  \/ job = "store" /\ NextPosition
         \/ UNCHANGED <<job, text, at>>
         \/ job' = "store" /\ at' = 0
BY DEF Next, ClientStep, Stopped, BeginStore, BeginSearch, Begin, StoreHere, StoreLookup,
       StoreAdd, StoreRefused, SearchHere, SearchFails, SearchLookup, SearchAsk, SearchAgain,
       SearchSkip, SearchOwn, SearchUnset, AskBogus, AskReplica, SearchSelf, SearchVerdict,
       Searching7, NextFound, Absent, Done, vars, jobVars

LEMMA HeldSoFarStep ==
  ASSUME StoreInv, [Next]_vars
  PROVE  HeldSoFar'
<1>1. SUFFICES ASSUME job' = "store", NEW i \in Positions, i < at'
               PROVE  \E n \in member : /\ OwnerOf(member, Loc(text', i), n)
                                       /\ copies'[n][<<Loc(text', i), text'>>] > 0
  BY StoreKeepsLookup DEF HeldSoFar, HeldAt, Holds, Loc
<1>2. Positions \subseteq 0 .. 3
  BY DEF Positions
<1>3. CASE job = "store" /\ NextPosition
  <2>1. text' = text /\ at' = at + 1 /\ at \in Positions
    BY <1>1, <1>3, HereIsId DEF NextPosition, Done
  <2>2. i < at \/ i = at
    BY <1>1, <1>2, <2>1
  <2> QED BY <1>3, <2>1, <2>2, StorePasses
<1>4. CASE UNCHANGED <<job, text, at>>
  BY <1>1, <1>4, StorePasses
<1>5. CASE at' = 0
  BY <1>1, <1>2, <1>5
<1> QED BY <1>1, <1>3, <1>4, <1>5, StoreMoves

----------------------------------------------------------------------------
(****************************************************************************)
(* The invariant and what follows from it.                                  *)
(****************************************************************************)

LEMMA StoreInvInit == StoreInit => StoreInv
<1> SUFFICES ASSUME StoreInit PROVE StoreInv
  OBVIOUS
<1>1. LookupInv /\ lpc = "idle"
  BY LookupInvInit DEF StoreInit, LookupInit
<1>2. \A n \in Node, e \in Entry : copies[n][e] = 0
  BY DEF StoreInit
<1>3. copies \in [Node -> [Entry -> Nat]]
  BY DEF StoreInit
<1>4. <<>> \in Seq(0 .. 2) /\ Len(<<>>) = 0 /\ Jobs \in Nat
  BY HashAssumption
<1>5. StoreTypeOK
  BY <1>1, <1>3, <1>4 DEF StoreInit, StoreTypeOK, LookupInv
<1>6. StoredAtOwner
  BY <1>2 DEF StoredAtOwner, Holds
<1> QED BY <1>1, <1>5, <1>6
        DEF StoreInit, StoreInv, LookupOfJob, LoopInRange, HeldSoFar

LEMMA StoreInvStep == StoreInv /\ [Next]_vars => StoreInv'
BY StoreKeepsLookup, CopiesKept, StoreTypesStep, HeldSoFarStep DEF StoreInv

\* The inductive invariant of store and search.
THEOREM StoreInvariant == Spec => []StoreInv
BY StoreInvInit, StoreInvStep, PTL DEF Spec

\* Store and search keep their types.
THEOREM StoreTypes == Spec => []StoreTypeOK
<1>1. StoreInv => StoreTypeOK
  BY DEF StoreInv
<1> QED BY <1>1, StoreInvariant, PTL

\* Every copy is at the client responsible for its id.
THEOREM CopiesAreAtOwners == Spec => []StoredAtOwner
<1>1. StoreInv => StoredAtOwner
  BY DEF StoreInv
<1> QED BY <1>1, StoreInvariant, PTL

\* No owner refuses a text: a store job ends with the text held everywhere it
\* belongs.
THEOREM StoresTakeHold == Spec => StoreTakesHold
<1>1. StoreInv /\ [Next]_vars =>
        [job = "store" /\ job' # "store" =>
           \A i \in Positions : \E n \in member :
              OwnerOf(member, Loc(text, i), n) /\ copies'[n][<<Loc(text, i), text>>] > 0]_vars
  <2> SUFFICES ASSUME StoreInv, [Next]_vars, job = "store", job' # "store",
                      NEW i \in Positions
               PROVE  \E n \in member : /\ OwnerOf(member, Loc(text, i), n)
                                       /\ copies'[n][<<Loc(text, i), text>>] > 0
    OBVIOUS
  <2>1. NextPosition /\ at + 1 \notin Positions /\ at \in Positions
    BY StoreMoves, HereIsId DEF NextPosition
  <2>2. i < at \/ i = at
    BY <2>1 DEF Positions
  <2> QED BY <2>1, <2>2, StorePasses
<1> QED BY <1>1, StoreInvariant, PTL DEF Spec, StoreTakesHold

----------------------------------------------------------------------------
(****************************************************************************)
(* Up to stage 6 store and search implement TextStore.                      *)
(****************************************************************************)

\* The owner of the position a search is at has the text if anybody has, and
\* has nothing else with that id.
LEMMA OwnerKnows ==
  ASSUME StoreInv, STAGE = 6, job = "search", NEW n \in member, OwnerOf(member, Here, n)
  PROVE  /\ Holds(n, <<Here, text>>) <=> text \in StoredTexts
         /\ HoldsId(n, Here) <=> Holds(n, <<Here, text>>)
<1>1. /\ at = 0 /\ Positions = {0}
      /\ text \in Text /\ Here \in Id /\ <<Here, text>> \in Entry /\ Here = Loc(text, 0)
      /\ member \in SUBSET Id /\ member \subseteq Node
  BY HereIsId, NodeAssumption
     DEF StoreInv, LoopInRange, LookupInv, LookupTypeOK, Positions, Here
<1>2. PICK e \in Entry : e = <<Here, text>> /\ e[1] = Here
  BY <1>1
<1>3. ASSUME NEW m \in Node, Holds(m, e) PROVE m = n
  BY <1>1, <1>2, <1>3, OwnerUnique DEF StoreInv, StoredAtOwner
<1>4. Holds(n, e) <=> text \in StoredTexts
  BY <1>1, <1>2, <1>3 DEF StoredTexts
<1>5. ASSUME NEW d \in Entry, d[1] = Here PROVE d = e
  <2>1. PICK t \in Text, i \in Positions : d = <<Loc(t, i), t>>
    BY DEF Entry
  <2>2. t = text
    BY <1>1, <1>5, <2>1, HashAssumption
  <2> QED BY <1>1, <1>2, <1>5, <2>1, <2>2
<1>6. HoldsId(n, Here) <=> Holds(n, e)
  BY <1>2, <1>5 DEF HoldsId
<1> QED BY <1>2, <1>4, <1>6

\* A search that finds an owner answers as TextStore does.
LEMMA SearchReplies ==
  ASSUME StoreInv, STAGE = 6, SearchHere \/ SearchAsk
  PROVE  /\ job = "search" /\ text \in Text
         /\ job' = "none"
         /\ UNCHANGED copies
         /\ answer' = IF text \in StoredTexts THEN "present" ELSE "absent"
<1>1. job = "search" /\ job' = "none" /\ UNCHANGED copies
  BY DEF SearchHere, SearchAsk, Done
<1>2. text \in Text /\ Here \in Id /\ Walkable(member)
  BY <1>1, HereIsId DEF StoreInv, LookupInv
<1>3. CASE SearchHere
  <2>1. OwnerOf(member, Here, First) /\ First \in member
    BY <1>2, <1>3, OwnArcIsOwner DEF SearchHere, Walkable
  <2>2. Holds(First, <<Here, text>>) <=> text \in StoredTexts
    BY <1>1, <2>1, OwnerKnows
  <2> QED BY <1>1, <1>2, <1>3, <2>2 DEF SearchHere
<1>4. CASE SearchAsk
  <2>1. OwnerOf(member, Here, tempB) /\ tempB \in member /\ tempB # First
    BY <1>4, FoundOwner DEF SearchAsk
  <2>2. Owns(tempB, Here)
    BY <1>2, <2>1, OwnerKeeps
  <2>3. HoldsId(tempB, Here) <=> text \in StoredTexts
    BY <1>1, <2>1, OwnerKnows
  <2> QED BY <1>1, <1>2, <1>4, <2>2, <2>3 DEF SearchAsk
<1> QED BY <1>3, <1>4

\* A copy more puts its text, and no other, into the store.
LEMMA AddStores ==
  ASSUME StoreInv, [Next]_vars, STAGE = 6, job = "store", NEW n \in Node, Add(n)
  PROVE  text \in Text /\ StoredTexts' = StoredTexts \cup {text}
<1>1. /\ at = 0 /\ Positions = {0}
      /\ text \in Text /\ <<Here, text>> \in Entry /\ Here = Loc(text, 0)
  BY HereIsId DEF StoreInv, LoopInRange, Positions, Here
<1>2. /\ copies'[n][<<Here, text>>] > 0
      /\ \A m \in Node, e \in Entry :
           copies'[m][e] = IF m = n /\ e = <<Here, text>> THEN copies[m][e] + 1
                                                           ELSE copies[m][e]
  BY <1>1, AddCopy DEF StoreInv
<1>3. \A t \in Text : <<Loc(t, 0), t>> \in Entry
  BY <1>1 DEF Entry
<1>4. ASSUME NEW t \in Text, t # text, NEW m \in Node
      PROVE  copies'[m][<<Loc(t, 0), t>>] = copies[m][<<Loc(t, 0), t>>]
  <2>1. <<Loc(t, 0), t>> # <<Here, text>>
    BY <1>4
  <2> QED BY <1>2, <1>3, <2>1
<1>5. StoredTexts' = {t \in Text : \E m \in Node : copies'[m][<<Loc(t, 0), t>>] > 0}
  BY <1>1 DEF StoredTexts, Holds, Positions, Loc
<1>6. StoredTexts = {t \in Text : \E m \in Node : copies[m][<<Loc(t, 0), t>>] > 0}
  BY <1>1 DEF StoredTexts, Holds, Positions, Loc
<1>7. text \in StoredTexts'
  BY <1>1, <1>2, <1>5
<1>8. ASSUME NEW t \in Text, t # text PROVE t \in StoredTexts' <=> t \in StoredTexts
  BY <1>4, <1>5, <1>6, <1>8
<1> QED BY <1>1, <1>5, <1>6, <1>7, <1>8

\* First's own branches, STORQ, CLSTQ and the lookup together behave as one
\* set of texts.
THEOREM ImplementsTextStore ==
  ASSUME STAGE = 6
  PROVE  Spec => RefinesTextStore
<1> DEFINE query == IF job \in {"search", "gone"} THEN text ELSE NoText
<1>1. StoreInit => Store!Init
  <2> SUFFICES ASSUME StoreInit PROVE Store!Init
    OBVIOUS
  <2>1. \A n \in Node, e \in Entry : ~Holds(n, e)
    BY DEF StoreInit, Holds
  <2>2. \A t \in Text : <<Loc(t, 0), t>> \in Entry /\ 0 \in Positions
    BY DEF Entry, Positions
  <2>3. StoredTexts = {}
    BY <2>1, <2>2 DEF StoredTexts
  <2> QED BY <2>3 DEF StoreInit, Store!Init
<1>2. StoreInv /\ [Next]_vars => [Store!Next]_<<StoredTexts, query, answer>>
  <2> SUFFICES ASSUME StoreInv, [Next]_vars
               PROVE  [Store!Next]_<<StoredTexts, query, answer>>
    OBVIOUS
  <2>1. ASSUME UNCHANGED copies PROVE StoredTexts' = StoredTexts
    BY <2>1 DEF StoredTexts, Holds, Loc, Positions
  <2>2. CASE \E t \in Text : BeginSearch(t)
    <3>1. PICK t \in Text : BeginSearch(t)
      BY <2>2
    <3>2. Store!Ask(t)
      BY <2>1, <3>1 DEF BeginSearch, Begin, Store!Ask
    <3> QED BY <3>2 DEF Store!Next
  <2>3. CASE SearchHere \/ SearchAsk
    <3>1. Store!Reply
      BY <2>1, <2>3, SearchReplies, HashAssumption DEF Store!Reply
    <3> QED BY <3>1 DEF Store!Next
  <2>4. CASE StoreHere \/ StoreAdd
    <3>1. /\ job = "store" /\ job' # "search" /\ job' # "gone" /\ answer' = answer
          /\ \E n \in Node : Add(n)
      BY <2>4, NodeAssumption, FoundOwner
         DEF StoreHere, StoreAdd, NextPosition, Done, StoreInv, LookupInv, LookupTypeOK
    <3>2. Store!Add(text) /\ text \in Text
      BY <3>1, AddStores DEF Store!Add
    <3> QED BY <3>2 DEF Store!Next
  <2>5. CASE UNCHANGED <<copies, query, answer>>
    BY <2>1, <2>5
  <2>6. \/ \E t \in Text : BeginSearch(t)
        \/ SearchHere \/ SearchAsk \/ StoreHere \/ StoreAdd
        \/ UNCHANGED <<copies, query, answer>>
    BY DEF Next, ClientStep, Stopped, BeginStore, Begin, StoreLookup, StoreRefused,
           NextPosition, Done, SearchFails, SearchLookup, SearchAgain, SearchSkip, SearchOwn,
           SearchUnset, AskBogus, AskReplica, SearchSelf, SearchVerdict, Searching7, vars,
           jobVars
  <2> QED BY <2>2, <2>3, <2>4, <2>5, <2>6
<1> QED BY <1>1, <1>2, StoreInvariant, PTL DEF Spec, RefinesTextStore, Store!Spec

----------------------------------------------------------------------------
(****************************************************************************)
(* The verdict of stage 7.                                                  *)
(****************************************************************************)

\* The positions of a text that the loop does not pass over, and how many of
\* them lie before i.
Up(t) == {i \in Positions : First <= Loc(t, i)}
Rank(t, i) == Cardinality({j \in Up(t) : j < i})

\* A bogus client other than First is asked for position i.
Liar(t, i) == \E n \in Bogus \ {First} : OwnerOf(member, Loc(t, i), n)

\* A text is held at all of its positions or, but for the one that is being
\* stored, at none.
AllOrNone ==
  \A t \in Text, i \in Positions, n \in Node :
     Holds(n, <<Loc(t, i), t>>) => t \in StoredTexts \/ (job = "store" /\ text = t)

\* What the search has found so far: the answer of a bogus client, or the text.
Consulted ==
  job = "search" /\ STAGE = 7 /\ ~InOwnGap(text) =>
    /\ Len(found) = Rank(text, at)
    /\ \A i \in Up(text) : i < at =>
         /\ found[Rank(text, i) + 1] = IF Liar(text, i) THEN 2 ELSE 1
         /\ Liar(text, i) \/ text \in StoredTexts

\* No lookup is made for the id of First itself.
AskedElsewhere == job = "search" /\ lpc # "idle" => Here # First

VerdictInv == StoreInv /\ AllOrNone /\ AskedElsewhere /\ Consulted

LEMMA RankCounts ==
  ASSUME NEW CONSTANT t, STAGE = 7
  PROVE  /\ Rank(t, 0) = 0
         /\ \A i \in 0 .. 3 : /\ Rank(t, i) \in Nat
                              /\ Rank(t, i + 1) = Rank(t, i) + (IF i \in Up(t) THEN 1 ELSE 0)
         /\ \A i \in Up(t), j \in 0 .. 4 : i < j => Rank(t, i) < Rank(t, j)
         /\ Rank(t, 4) \in Nat
         /\ Up(t) \subseteq 0 .. 3 /\ IsFiniteSet(Up(t))
<1>1. Up(t) \subseteq 0 .. 3 /\ IsFiniteSet(Up(t))
  <2>1. IsFiniteSet(0 .. 3)
    <3>1. 0 \in Int /\ 3 \in Int
      OBVIOUS
    <3> QED BY <3>1, FS_Interval
  <2>2. Up(t) \in SUBSET (0 .. 3)
    BY DEF Up, Positions
  <2> QED BY <2>1, <2>2, FS_Subset
<1> DEFINE Below(i) == {j \in Up(t) : j < i}
<1>2. ASSUME NEW i \in 0 .. 4 PROVE IsFiniteSet(Below(i)) /\ Cardinality(Below(i)) \in Nat
  <2>1. Below(i) \in SUBSET Up(t)
    OBVIOUS
  <2>2. IsFiniteSet(Below(i))
    BY <1>1, <2>1, FS_Subset
  <2> QED BY <2>2, FS_CardinalityType
<1>3. ASSUME NEW i \in 0 .. 3
      PROVE  Cardinality(Below(i + 1)) = Cardinality(Below(i)) + (IF i \in Up(t) THEN 1 ELSE 0)
  <2>1. CASE i \in Up(t)
    <3>1. Below(i + 1) = Below(i) \cup {i} /\ i \notin Below(i)
      BY <1>1, <2>1
    <3>2. IsFiniteSet(Below(i))
      BY <1>2
    <3>3. Cardinality(Below(i) \cup {i}) = Cardinality(Below(i)) + 1
      BY <3>1, <3>2, FS_AddElement
    <3> QED BY <2>1, <3>1, <3>3
  <2>2. CASE i \notin Up(t)
    <3>1. ASSUME NEW j \in Up(t) PROVE j < i + 1 <=> j < i
      <4>1. j \in 0 .. 3 /\ j # i
        BY <1>1, <2>2
      <4> QED BY <4>1
    <3>4. Below(i + 1) = Below(i)
      BY <3>1
    <3>2. Cardinality(Below(i)) \in Nat
      BY <1>2
    <3>5. Cardinality(Below(i + 1)) = Cardinality(Below(i))
      BY <3>4
    <3> HIDE DEF Below
    <3> QED BY <2>2, <3>2, <3>5
  <2> QED BY <2>1, <2>2
<1>4. Cardinality(Below(0)) = 0
  <2>1. Below(0) = {}
    BY <1>1
  <2> QED BY <2>1, FS_EmptySet
<1>5. \A i \in 0 .. 4 : Rank(t, i) = Cardinality(Below(i))
  BY DEF Rank
<1> HIDE DEF Below
<1>6. /\ Rank(t, 0) = 0 /\ Rank(t, 4) \in Nat
      /\ \A i \in 0 .. 3 : /\ Rank(t, i) \in Nat
                           /\ Rank(t, i + 1) = Rank(t, i) + (IF i \in Up(t) THEN 1 ELSE 0)
  BY <1>2, <1>3, <1>4, <1>5
<1>7. ASSUME NEW i \in Up(t), NEW j \in 0 .. 4, i < j PROVE Rank(t, i) < Rank(t, j)
  <2>1. i \in 0 .. 3 /\ Rank(t, i + 1) = Rank(t, i) + 1
    BY <1>1, <1>6
  <2>2. /\ Rank(t, 1) >= Rank(t, 0) /\ Rank(t, 2) >= Rank(t, 1)
        /\ Rank(t, 3) >= Rank(t, 2) /\ Rank(t, 4) >= Rank(t, 3)
    <3>1. \A k \in 0 .. 3 : Rank(t, k + 1) >= Rank(t, k)
      BY <1>6
    <3>2. 0 + 1 = 1 /\ 1 + 1 = 2 /\ 2 + 1 = 3 /\ 3 + 1 = 4
      OBVIOUS
    <3> QED BY <3>1, <3>2
  <2>3. /\ Rank(t, 0) \in Nat /\ Rank(t, 1) \in Nat /\ Rank(t, 2) \in Nat
        /\ Rank(t, 3) \in Nat /\ Rank(t, 4) \in Nat
    BY <1>6
  <2>4. i = 0 \/ i = 1 \/ i = 2 \/ i = 3
    BY <2>1
  <2>5. j = 1 \/ j = 2 \/ j = 3 \/ j = 4
    BY <1>7, <2>4
  <2>6. CASE i = 0
    <3>1. Rank(t, 1) = Rank(t, 0) + 1
      BY <2>1, <2>6
    <3> QED BY <2>2, <2>3, <2>5, <2>6, <3>1
  <2>7. CASE i = 1
    <3>1. Rank(t, 2) = Rank(t, 1) + 1 /\ j # 1
      BY <1>7, <2>1, <2>7
    <3> QED BY <2>2, <2>3, <2>5, <2>7, <3>1
  <2>8. CASE i = 2
    <3>1. Rank(t, 3) = Rank(t, 2) + 1 /\ j # 1 /\ j # 2
      BY <1>7, <2>1, <2>8
    <3> QED BY <2>2, <2>3, <2>5, <2>8, <3>1
  <2>9. CASE i = 3
    <3>1. Rank(t, 4) = Rank(t, 3) + 1 /\ j = 4
      BY <1>7, <2>1, <2>5, <2>9
    <3> QED BY <2>3, <2>9, <3>1
  <2> QED BY <2>4, <2>6, <2>7, <2>8, <2>9
<1> QED BY <1>1, <1>6, <1>7

LEMMA RankGrows ==
  ASSUME NEW CONSTANT t, STAGE = 7, NEW CONSTANT i \in 0 .. 3, NEW CONSTANT j \in 0 .. 3, i < j
  PROVE  Rank(t, i) <= Rank(t, j)
<1>1. \A k \in 0 .. 3 : Rank(t, k + 1) >= Rank(t, k) /\ Rank(t, k) \in Nat
  BY RankCounts
<1>2. 0 + 1 = 1 /\ 1 + 1 = 2 /\ 2 + 1 = 3
  OBVIOUS
<1>3. /\ Rank(t, 1) >= Rank(t, 0) /\ Rank(t, 2) >= Rank(t, 1) /\ Rank(t, 3) >= Rank(t, 2)
      /\ Rank(t, 0) \in Nat /\ Rank(t, 1) \in Nat /\ Rank(t, 2) \in Nat /\ Rank(t, 3) \in Nat
  BY <1>1, <1>2
<1>4. i = 0 \/ i = 1 \/ i = 2
  OBVIOUS
<1>5. j = 1 \/ j = 2 \/ j = 3
  OBVIOUS
<1> QED BY <1>3, <1>4, <1>5

\* A store job that ends leaves a text that is held everywhere.
LEMMA StoreLeaves ==
  ASSUME StoreInv, [Next]_vars, job = "store", job' # "store"
  PROVE  text \in StoredTexts'
<1>1. text \in Text /\ at \in Positions /\ NextPosition /\ at + 1 \notin Positions
  BY StoreMoves, HereIsId DEF NextPosition
<1>2. ASSUME NEW i \in Positions
      PROVE  \E n \in Node : copies'[n][<<Loc(text, i), text>>] > 0
  <2>1. i < at \/ i = at
    BY <1>1 DEF Positions
  <2>2. PICK n \in member : copies'[n][<<Loc(text, i), text>>] > 0
    BY <1>1, <2>1, StorePasses
  <2> QED BY <2>2 DEF StoreInv, LookupInv, LookupTypeOK
<1> QED BY <1>1, <1>2 DEF StoredTexts, Holds, Loc

\* What is stored stays stored, and a search stores nothing.
LEMMA StoredGrows ==
  ASSUME StoreInv, [Next]_vars
  PROVE  /\ StoredTexts \subseteq StoredTexts'
         /\ job = "search" => StoredTexts' = StoredTexts
<1>1. StoredTexts \subseteq StoredTexts'
  <2>1. \A n \in Node, e \in Entry : copies[n][e] > 0 => copies'[n][e] > 0
    BY CopiesKept DEF Holds
  <2>2. \A t \in Text, i \in Positions : <<Loc(t, i), t>> \in Entry
    BY DEF Entry
  <2> QED BY <2>1, <2>2 DEF StoredTexts, Holds, Loc
<1>2. ASSUME job = "search" PROVE StoredTexts' = StoredTexts
  <2>1. UNCHANGED copies
    BY <1>2, CopiesChange
  <2> QED BY <2>1 DEF StoredTexts, Holds, Loc
<1> QED BY <1>1, <1>2

LEMMA SameStore ==
  ASSUME [Next]_vars, job = "store", job' = "store"
  PROVE  text' = text
BY DEF Next, ClientStep, Stopped, BeginStore, BeginSearch, Begin, StoreHere, StoreLookup,
       StoreAdd, StoreRefused, SearchHere, SearchFails, SearchLookup, SearchAsk, SearchAgain,
       SearchSkip, SearchOwn, SearchUnset, AskBogus, AskReplica, SearchSelf, SearchVerdict,
       Searching7, NextFound, Absent, NextPosition, Done, vars, jobVars

LEMMA AllOrNoneStep ==
  ASSUME VerdictInv, [Next]_vars
  PROVE  AllOrNone'
<1>1. SUFFICES ASSUME NEW t \in Text, NEW i \in Positions, NEW n \in Node,
                      copies'[n][<<Loc(t, i), t>>] > 0
               PROVE  t \in StoredTexts' \/ (job' = "store" /\ text' = t)
  BY DEF AllOrNone, Holds, Loc
<1>0. <<Loc(t, i), t>> \in Entry
  BY DEF Entry
<1>2. PICK e \in Entry : e = <<Loc(t, i), t>>
  BY <1>0
<1>3. t \in StoredTexts \/ (job = "store" /\ text = t)
  <2>1. CASE copies[n][e] > 0
    BY <1>2, <2>1 DEF VerdictInv, AllOrNone, Holds
  <2>2. CASE ~(copies[n][e] > 0)
    <3>1. PICK m \in member : /\ job = "store" /\ <<Here, text>> \in Entry
                              /\ Add(m)
      BY <1>1, <1>2, <2>2, CopiesChange DEF VerdictInv
    <3>2. m \in Node /\ StoreTypeOK
      BY DEF VerdictInv, StoreInv, LookupInv, LookupTypeOK
    <3>3. copies'[n][e] = IF n = m /\ e = <<Here, text>> THEN copies[n][e] + 1 ELSE copies[n][e]
      BY <3>1, <3>2, AddCopy
    <3>4. e = <<Here, text>>
      BY <1>1, <1>2, <2>2, <3>3
    <3> QED BY <1>2, <3>1, <3>4
  <2> QED BY <2>1, <2>2
<1>4. CASE t \in StoredTexts
  BY <1>4, StoredGrows DEF VerdictInv
<1>5. CASE job = "store" /\ text = t
  BY <1>5, StoreLeaves, SameStore DEF VerdictInv
<1> QED BY <1>3, <1>4, <1>5

\* The owner of a position has the text if it was stored, and no other text
\* under that id.
LEMMA OwnerKnows7 ==
  ASSUME VerdictInv, job = "search", STAGE = 7, at <= 3,
         NEW n \in member, OwnerOf(member, Here, n)
  PROVE  /\ Holds(n, <<Here, text>>) <=> text \in StoredTexts
         /\ HoldsId(n, Here) <=> Holds(n, <<Here, text>>)
<1>1. /\ text \in Text /\ Here \in Id /\ at \in Positions /\ Here = Loc(text, at)
      /\ <<Here, text>> \in Entry /\ member \in SUBSET Id /\ member \subseteq Node
  BY HereIsId, NodeAssumption DEF VerdictInv, StoreInv, LookupInv, LookupTypeOK, Here
<1>2. PICK e \in Entry : e = <<Here, text>> /\ e[1] = Here
  BY <1>1
<1>3. ASSUME Holds(n, e) PROVE text \in StoredTexts
  BY <1>1, <1>2, <1>3 DEF VerdictInv, AllOrNone
<1>4. ASSUME text \in StoredTexts PROVE Holds(n, e)
  <2>1. PICK m \in Node : Holds(m, e)
    BY <1>1, <1>2, <1>4 DEF StoredTexts
  <2>2. OwnerOf(member, Here, m)
    BY <1>2, <2>1 DEF VerdictInv, StoreInv, StoredAtOwner
  <2>3. m = n
    BY <1>1, <2>2, OwnerUnique DEF OwnerOf
  <2> QED BY <2>1, <2>3
<1>5. ASSUME NEW d \in Entry, d[1] = Here PROVE d = e
  <2>1. PICK t \in Text, i \in Positions : d = <<Loc(t, i), t>>
    BY DEF Entry
  <2>2. t = text /\ i = at
    BY <1>1, <1>5, <2>1, HashAssumption
  <2> QED BY <1>1, <1>2, <2>1, <2>2
<1>6. HoldsId(n, Here) <=> Holds(n, e)
  BY <1>2, <1>5 DEF HoldsId
<1> QED BY <1>2, <1>3, <1>4, <1>6

\* What a turn of the search's loop can be, when no position is in First's gap.
LEMMA SearchTurns ==
  ASSUME VerdictInv, [Next]_vars, STAGE = 7, job = "search", ~InOwnGap(text)
  PROVE  \/ UNCHANGED <<job, text, at, found>>
         \/ /\ at \in 0 .. 3 /\ at \notin Up(text) /\ at' = at + 1
            /\ UNCHANGED <<job, text, found>>
         \/ /\ at \in Up(text) /\ Len(found) < 2 /\ Rank(text, at) < 2
            /\ \/ /\ Liar(text, at) \/ text \in StoredTexts
                  /\ NextFound(IF Liar(text, at) THEN 2 ELSE 1)
               \/ ~Liar(text, at) /\ text \notin StoredTexts /\ Absent
         \/ SearchVerdict
<1>1. /\ StoreTypeOK /\ LookupOfJob /\ Walkable(member)
      /\ member \in SUBSET Id /\ First \in member /\ First \in Id
      /\ Len(found) = Rank(text, at)
  BY NodeAssumption
     DEF VerdictInv, StoreInv, LookupInv, LookupTypeOK, Consulted, Walkable
<1>2. ASSUME Consulting
      PROVE  /\ at \in Up(text) /\ Len(found) < 2 /\ Rank(text, at) < 2
             /\ at \in Positions /\ Here \in Id /\ at <= 3
             /\ OwnerOf(member, Here, First) => Here = First /\ member # {First}
  <2>1. at \in Positions /\ Here \in Id /\ at <= 3 /\ First <= Here /\ Len(found) < 2
    BY <1>2, HereIsId DEF Consulting, VerdictInv
  <2>2. at \in Up(text) /\ Here = Loc(text, at)
    BY <2>1 DEF Up, Here
  <2>3. at \in Candidates(text)
    BY <1>1, <2>1, <2>2 DEF Candidates, Up, Rank
  <2>4. OwnerOf(member, Here, First) => ~(First < Here) /\ member # {First}
    BY <2>2, <2>3 DEF InOwnGap
  <2> QED BY <1>1, <2>1, <2>2, <2>4 DEF Id
<1>3. ASSUME Consulting, NEW n \in member, OwnerOf(member, Here, n)
      PROVE  /\ Holds(n, <<Here, text>>) <=> text \in StoredTexts
             /\ HoldsId(n, Here) <=> Holds(n, <<Here, text>>)
             /\ Liar(text, at) <=> n \in Bogus \ {First}
  <2>1. at <= 3 /\ Here \in Id /\ Here = Loc(text, at)
    BY <1>2, <1>3 DEF Here
  <2>2. Liar(text, at) <=> n \in Bogus \ {First}
    BY <1>1, <1>3, <2>1, OwnerUnique DEF Liar, OwnerOf
  <2> QED BY <1>3, <2>1, <2>2, OwnerKnows7
<1>4. ASSUME EndLookup PROVE Consulting /\ tempB \in member /\ OwnerOf(member, Here, tempB)
                              /\ Here # First
  BY <1>1, <1>4, FoundOwner DEF EndLookup, LookupOfJob, VerdictInv, AskedElsewhere
<1>5. CASE SearchSkip
  <2>1. at \in 0 .. 3 /\ ~(First <= Here)
    BY <1>1, <1>5 DEF SearchSkip, StoreTypeOK
  <2>2. at \notin Up(text)
    BY <2>1 DEF Up, Here
  <2> QED BY <1>5, <2>1, <2>2 DEF SearchSkip
<1>6. CASE SearchOwn
  <2>1. Consulting /\ OwnArc(Here) /\ (IF Holds(First, <<Here, text>>) THEN NextFound(1) ELSE Absent)
    BY <1>6 DEF SearchOwn
  <2>2. OwnerOf(member, Here, First)
    BY <1>1, <1>2, <2>1, OwnArcIsOwner
  <2>3. ~Liar(text, at) /\ (Holds(First, <<Here, text>>) <=> text \in StoredTexts)
    BY <1>1, <1>3, <2>1, <2>2
  <2> QED BY <1>2, <2>1, <2>3
<1>7. CASE SearchUnset
  <2>1. Consulting /\ ~OwnArc(Here) /\ Here = First
    BY <1>7 DEF SearchUnset
  <2>2. OwnerOf(member, Here, First)
    BY <1>1, <2>1, HashMaxAssumption DEF OwnerOf, Dist, Id
  <2>3. member # {First} /\ PrevOf(member, First, pred[First])
    BY <1>1, <1>2, <2>1, <2>2 DEF Walkable, NeighboursCorrect
  <2>4. pred[First] # First /\ pred[First] \in Id
    BY <1>1, <2>3 DEF PrevOf
  <2> QED BY <1>1, <2>1, <2>4 DEF OwnArc, Id
<1>8. CASE AskBogus
  <2>1. EndLookup /\ tempB \in Bogus \ {First} /\ NextFound(2)
    BY <1>8 DEF AskBogus
  <2>2. Liar(text, at)
    BY <1>3, <1>4, <2>1
  <2> QED BY <1>2, <1>4, <2>1, <2>2
<1>9. CASE AskReplica
  <2>1. /\ EndLookup /\ tempB # First /\ tempB \notin Bogus
        /\ IF Owns(tempB, Here) /\ HoldsId(tempB, Here)
             THEN NextFound(IF Holds(tempB, <<Here, text>>) THEN 1 ELSE 2)
             ELSE Absent
    BY <1>9 DEF AskReplica
  <2>2. Consulting /\ tempB \in member /\ OwnerOf(member, Here, tempB) /\ Here \in Id
    BY <1>2, <1>4, <2>1
  <2>3. Owns(tempB, Here)
    BY <1>1, <2>1, <2>2, OwnerKeeps
  <2>4. /\ ~Liar(text, at)
        /\ Holds(tempB, <<Here, text>>) <=> text \in StoredTexts
        /\ HoldsId(tempB, Here) <=> Holds(tempB, <<Here, text>>)
    BY <1>3, <2>1, <2>2
  <2>5. CASE Holds(tempB, <<Here, text>>)
    BY <1>2, <2>1, <2>2, <2>3, <2>4, <2>5
  <2>6. CASE ~Holds(tempB, <<Here, text>>)
    BY <1>2, <2>1, <2>2, <2>3, <2>4, <2>6
  <2> QED BY <2>5, <2>6
<1>10. CASE SearchSelf
  <2>1. EndLookup /\ tempB = First
    BY <1>10 DEF SearchSelf
  <2> QED BY <1>2, <1>4, <2>1
<1>11. CASE UNCHANGED <<job, text, at, found>>
  BY <1>11
<1>12. CASE SearchVerdict
  BY <1>12
<1> QED BY <1>5, <1>6, <1>7, <1>8, <1>9, <1>10, <1>11, <1>12
        DEF Next, ClientStep, Stopped, BeginStore, BeginSearch, Begin, StoreHere, StoreLookup,
            StoreAdd, StoreRefused, SearchHere, SearchFails, SearchLookup, SearchAsk,
            SearchAgain, vars, jobVars

\* A search starts with nothing found and keeps its text.
LEMMA SearchStarts ==
  ASSUME VerdictInv, [Next]_vars, job' = "search"
  PROVE  \/ job = "search" /\ text' = text
         \/ at' = 0 /\ found' = <<>> /\ lpc' = "idle"
<1>1. job = "none" => lpc = "idle"
  BY DEF VerdictInv, StoreInv, LookupOfJob
<1> QED
  BY <1>1
     DEF Next, ClientStep, Stopped, BeginStore, BeginSearch, Begin, StoreHere, StoreLookup,
         StoreAdd, StoreRefused, SearchHere, SearchFails, SearchLookup, SearchAsk, SearchAgain,
         SearchSkip, SearchOwn, SearchUnset, AskBogus, AskReplica, SearchSelf, SearchVerdict,
         Searching7, NextFound, Absent, NextPosition, Done, vars, jobVars, lookVars

LEMMA AskedElsewhereStep ==
  ASSUME VerdictInv, [Next]_vars
  PROVE  AskedElsewhere'
<1>1. SUFFICES ASSUME job' = "search", lpc' # "idle" PROVE Loc(text', at') # First
  BY DEF AskedElsewhere, Here, Loc
<1>2. \/ SearchLookup
      \/ job = "search" /\ lpc # "idle" /\ UNCHANGED <<text, at>>
  BY <1>1
     DEF Next, ClientStep, Stopped, BeginStore, BeginSearch, Begin, StoreHere, StoreLookup,
         StoreAdd, StoreRefused, SearchHere, SearchFails, SearchAsk, SearchAgain,
         SearchSkip, SearchOwn, SearchUnset, AskBogus, AskReplica, SearchSelf, SearchVerdict,
         Searching7, NextFound, Absent, NextPosition, Done, vars, jobVars, lookVars, EndLookup,
         LookupStep, LookupFirst, LookupReturn, LookupClosest, LookupSelf, LookupHop,
         VerdictInv, StoreInv, LookupOfJob
<1>3. CASE SearchLookup
  BY <1>3 DEF SearchLookup, jobVars, Here
<1> QED BY <1>2, <1>3 DEF VerdictInv, AskedElsewhere, Here

LEMMA ConsultedStep ==
  ASSUME VerdictInv, [Next]_vars
  PROVE  Consulted'
<1>1. member' = member /\ pred' = pred /\ StoreTypeOK
  BY StoreKeepsLookup DEF VerdictInv, StoreInv
<1>2. SUFFICES ASSUME job' = "search", STAGE = 7, ~InOwnGap(text')
               PROVE  /\ Len(found') = Rank(text', at')
                      /\ \A i \in Up(text') : i < at' =>
                           /\ found'[Rank(text', i) + 1] = IF Liar(text', i) THEN 2 ELSE 1
                           /\ Liar(text', i) \/ text' \in StoredTexts'
  BY <1>1 DEF Consulted, InOwnGap, Candidates, Up, Rank, Liar, Loc
<1>3. CASE at' = 0 /\ found' = <<>>
  <2>1. PICK t : t = text'
    OBVIOUS
  <2>2. Rank(t, 0) = 0 /\ Up(t) \subseteq 0 .. 3
    BY <1>2, RankCounts
  <2> QED BY <1>3, <2>1, <2>2
<1>4. CASE job = "search" /\ text' = text
  <2>1. PICK t : t = text
    OBVIOUS
  <2>2. /\ Up(t) \subseteq 0 .. 3
        /\ \A i \in 0 .. 3 : Rank(t, i) \in Nat
        /\ \A i \in 0 .. 3 : Rank(t, i + 1) = Rank(t, i) + (IF i \in Up(t) THEN 1 ELSE 0)
        /\ \A i \in Up(t), j \in 0 .. 4 : i < j => Rank(t, i) < Rank(t, j)
    BY <1>2, RankCounts
  <2>3. /\ Len(found) = Rank(t, at) /\ at \in 0 .. 4 /\ found \in Seq(0 .. 2)
        /\ \A i \in Up(t) : i < at =>
             /\ found[Rank(t, i) + 1] = IF Liar(t, i) THEN 2 ELSE 1
             /\ Liar(t, i) \/ t \in StoredTexts
    BY <1>1, <1>2, <1>4, <2>1 DEF VerdictInv, Consulted, StoreTypeOK
  <2>4. StoredTexts' = StoredTexts
    BY <1>4, StoredGrows DEF VerdictInv
  <2>5. CASE UNCHANGED <<at, found>>
    BY <1>4, <2>1, <2>3, <2>4, <2>5
  <2>6. CASE at \in 0 .. 3 /\ at \notin Up(t) /\ at' = at + 1 /\ found' = found
    <3>1. Rank(t, at') = Rank(t, at)
      BY <2>2, <2>6
    <3>2. \A i \in Up(t) : i < at' => i < at
      BY <2>2, <2>6
    <3> QED BY <1>4, <2>1, <2>3, <2>4, <2>6, <3>1, <3>2
  <2>7. CASE /\ Liar(t, at) \/ t \in StoredTexts
             /\ at \in Up(t) /\ NextFound(IF Liar(t, at) THEN 2 ELSE 1)
    <3>1. PICK d \in 0 .. 2 : d = IF Liar(t, at) THEN 2 ELSE 1
      OBVIOUS
    <3>2. found' = Append(found, d) /\ at' = at + 1 /\ at \in Up(t) /\ at \in 0 .. 3
      BY <2>2, <2>7, <3>1 DEF NextFound
    <3>3. Len(found') = Len(found) + 1 /\ Rank(t, at') = Rank(t, at) + 1
      BY <2>2, <2>3, <3>2
    <3>4. ASSUME NEW i \in Up(t), i < at'
          PROVE  /\ found'[Rank(t, i) + 1] = IF Liar(t, i) THEN 2 ELSE 1
                 /\ Liar(t, i) \/ t \in StoredTexts
      <4>1. CASE i = at
        <5>1. found'[Len(found) + 1] = d
          BY <2>3, <3>2
        <5> QED BY <2>3, <2>7, <3>1, <4>1, <5>1
      <4>2. CASE i < at
        <5>1. Rank(t, i) < Len(found) /\ Rank(t, i) \in Nat
          BY <2>2, <2>3, <4>2
        <5>2. found'[Rank(t, i) + 1] = found[Rank(t, i) + 1]
          BY <2>3, <3>2, <5>1
        <5> QED BY <2>3, <4>2, <5>2
      <4>3. i \in 0 .. 3
        BY <2>2
      <4>4. i = at \/ i < at
        BY <3>2, <3>4, <4>3
      <4> QED BY <4>1, <4>2, <4>4
    <3> QED BY <1>4, <2>1, <2>3, <2>4, <3>3, <3>4
  <2>8. ~Absent /\ ~SearchVerdict
    BY <1>2 DEF Absent, SearchVerdict, Done
  <2> QED BY <1>2, <1>4, <2>1, <2>5, <2>6, <2>7, <2>8, SearchTurns
<1> QED BY <1>2, <1>3, <1>4, SearchStarts

LEMMA VerdictInit == StoreInit => VerdictInv
<1> SUFFICES ASSUME StoreInit PROVE VerdictInv
  OBVIOUS
<1>1. StoreInv /\ job = "none"
  BY StoreInvInit DEF StoreInit
<1>2. \A n \in Node, t \in Text, i \in Positions : ~Holds(n, <<Loc(t, i), t>>)
  <2>1. \A t \in Text, i \in Positions : <<Loc(t, i), t>> \in Entry
    BY DEF Entry
  <2> QED BY <2>1 DEF StoreInit, Holds
<1> QED BY <1>1, <1>2 DEF VerdictInv, AllOrNone, AskedElsewhere, Consulted

LEMMA VerdictStep == VerdictInv /\ [Next]_vars => VerdictInv'
BY StoreInvStep, AllOrNoneStep, AskedElsewhereStep, ConsultedStep DEF VerdictInv

\* The inductive invariant of the verdicts.
THEOREM VerdictInvariant == Spec => []VerdictInv
BY VerdictInit, VerdictStep, PTL DEF Spec

\* Two candidates: those with rank 0 and 1.
LEMMA TwoCandidates ==
  ASSUME NEW CONSTANT t, STAGE = 7, Cardinality(Candidates(t)) = 2
  PROVE  \E a, b \in Up(t) : Candidates(t) = {a, b} /\ a # b /\ Rank(t, a) = 0 /\ Rank(t, b) = 1
<1>1. /\ Up(t) \subseteq 0 .. 3 /\ IsFiniteSet(Up(t))
      /\ \A i \in 0 .. 3 : Rank(t, i) \in Nat
      /\ \A i \in Up(t), j \in 0 .. 4 : i < j => Rank(t, i) < Rank(t, j)
  BY RankCounts
<1>2. Candidates(t) = {i \in Up(t) : Rank(t, i) < 2}
  BY DEF Candidates, Up, Rank
<1>3. ASSUME NEW i \in Up(t), NEW j \in Up(t), i # j PROVE Rank(t, i) # Rank(t, j)
  <2>1. i \in 0 .. 3 /\ j \in 0 .. 3
    BY <1>1
  <2>2. i < j \/ j < i
    BY <1>3, <2>1
  <2>3. Rank(t, i) < Rank(t, j) \/ Rank(t, j) < Rank(t, i)
    BY <1>1, <2>1, <2>2
  <2> QED BY <1>1, <2>1, <2>3
<1>4. PICK c \in Candidates(t), d \in Candidates(t) : c # d
  <2>1. IsFiniteSet(Candidates(t))
    BY <1>1, <1>2, FS_Subset
  <2>2. Candidates(t) # {}
    BY FS_EmptySet
  <2>3. PICK c \in Candidates(t) : TRUE
    BY <2>2
  <2>4. Candidates(t) # {c}
    <3>1. Cardinality({c}) = 1
      BY FS_Singleton
    <3> QED BY <3>1
  <2> QED BY <2>3, <2>4
<1>5. /\ Rank(t, c) \in {0, 1} /\ Rank(t, d) \in {0, 1} /\ c \in Up(t) /\ d \in Up(t)
      /\ Rank(t, c) # Rank(t, d)
  <2>1. c \in Up(t) /\ d \in Up(t) /\ Rank(t, c) < 2 /\ Rank(t, d) < 2
    BY <1>2
  <2>2. Rank(t, c) \in Nat /\ Rank(t, d) \in Nat
    BY <1>1, <2>1
  <2> QED BY <1>3, <1>4, <2>1, <2>2
<1>6. ASSUME NEW e \in Candidates(t) PROVE e = c \/ e = d
  <2>1. e \in Up(t) /\ Rank(t, e) < 2 /\ Rank(t, e) \in Nat
    BY <1>1, <1>2
  <2>2. Rank(t, e) = Rank(t, c) \/ Rank(t, e) = Rank(t, d)
    BY <1>5, <2>1
  <2> QED BY <1>3, <1>5, <2>1, <2>2
<1>7. Candidates(t) = {c, d}
  BY <1>6
<1>8. CASE Rank(t, c) = 0
  BY <1>4, <1>5, <1>7, <1>8
<1>9. CASE Rank(t, c) = 1
  <2>1. Rank(t, d) = 0 /\ Candidates(t) = {d, c}
    BY <1>5, <1>7, <1>9
  <2> QED BY <1>4, <1>5, <1>9, <2>1
<1> QED BY <1>5, <1>8, <1>9

\* In stage 7 a text that is stored is verified unless a bogus client is asked,
\* and one that is not is never verified; two bogus clients hide that it is
\* absent, one does not.
THEOREM VerdictsAreRight == Spec => VerdictRight
<1>1. VerdictInv /\ [Next]_vars =>
        [job = "search" /\ job' = "none" /\ ~InOwnGap(text) =>
           LET liar == {i \in Candidates(text) :
                          \E n \in Bogus \ {First} : OwnerOf(member, Loc(text, i), n)}
           IN  Cardinality(Candidates(text)) = 2 =>
                 answer' = IF text \in StoredTexts
                             THEN IF liar = {} THEN "verified" ELSE "disagree"
                             ELSE IF liar = Candidates(text) THEN "disagree" ELSE "absent"]_vars
  <2> DEFINE liar == {i \in Candidates(text) : Liar(text, i)}
  <2>1. SUFFICES ASSUME VerdictInv, [Next]_vars, job = "search", job' = "none",
                        ~InOwnGap(text), Cardinality(Candidates(text)) = 2
                 PROVE  answer' = IF text \in StoredTexts
                                    THEN IF liar = {} THEN "verified" ELSE "disagree"
                                    ELSE IF liar = Candidates(text) THEN "disagree" ELSE "absent"
    BY DEF Liar
  <2>2. STAGE = 7
    <3>1. STAGE = 6 => Candidates(text) = {0}
      BY DEF Candidates
    <3>2. Cardinality({0}) = 1
      BY FS_Singleton
    <3> QED BY <2>1, <3>1, <3>2, StageAssumption
  <2>3. PICK t : t = text
    OBVIOUS
  <2>4. /\ Len(found) = Rank(t, at) /\ found \in Seq(0 .. 2) /\ Len(found) <= 2 /\ at \in 0 .. 4
        /\ \A i \in Up(t) : i < at =>
             /\ found[Rank(t, i) + 1] = IF Liar(t, i) THEN 2 ELSE 1
             /\ Liar(t, i) \/ t \in StoredTexts
    BY <2>1, <2>2, <2>3 DEF VerdictInv, Consulted, StoreInv, StoreTypeOK
  <2>5. CASE /\ at \in Up(t) /\ Rank(t, at) < 2
             /\ ~Liar(t, at) /\ t \notin StoredTexts /\ Absent
    <3>1. at \in Candidates(t)
      BY <2>2, <2>5 DEF Candidates, Up, Rank
    <3>2. liar # Candidates(text)
      BY <2>3, <2>5, <3>1
    <3> QED BY <2>3, <2>5, <3>2 DEF Absent
  <2>6. CASE SearchVerdict
    <3>1. PICK a \in Up(t), b \in Up(t) :
            Candidates(t) = {a, b} /\ Rank(t, a) = 0 /\ Rank(t, b) = 1
      BY <2>1, <2>2, <2>3, TwoCandidates
    <3>2. /\ Up(t) \subseteq 0 .. 3
          /\ \A i \in Up(t), j \in 0 .. 4 : i < j => Rank(t, i) < Rank(t, j)
      BY <2>2, RankCounts
    <3>3. at = 4 \/ Len(found) = 2
      BY <2>6 DEF SearchVerdict
    <3>4. a < at /\ b < at
      <4>1. CASE at = 4
        BY <3>2, <4>1
      <4>2. CASE Len(found) = 2
        <5>1. PICK i \in 0 .. 4 : i = at
          BY <2>4
        <5>2. Rank(t, i) = 2
          BY <2>4, <4>2, <5>1
        <5>3. ASSUME NEW CONSTANT c \in Up(t), Rank(t, c) < 2 PROVE c < i
          <6>1. c \in 0 .. 3 /\ c # i
            BY <3>2, <5>2, <5>3
          <6>2. ASSUME i < c PROVE FALSE
            <7>1. i \in 0 .. 3
              BY <6>1, <6>2
            <7>2. Rank(t, i) <= Rank(t, c) /\ Rank(t, c) \in Nat
              BY <2>2, <6>1, <6>2, <7>1, RankGrows, RankCounts
            <7> QED BY <5>2, <5>3, <7>2
          <6> QED BY <6>1, <6>2
        <5>4. Rank(t, a) < 2 /\ Rank(t, b) < 2
          BY <3>1
        <5> QED BY <5>1, <5>3, <5>4
      <4> QED BY <3>3, <4>1, <4>2
    <3>5. Len(found) = 2
      <4>1. Rank(t, b) < Rank(t, at)
        BY <2>4, <3>2, <3>4
      <4> QED BY <2>4, <3>1, <4>1
    <3>6. /\ found[1] = IF Liar(t, a) THEN 2 ELSE 1
          /\ found[2] = IF Liar(t, b) THEN 2 ELSE 1
          /\ (Liar(t, a) /\ Liar(t, b)) \/ t \in StoredTexts
      <4>1. 0 + 1 = 1 /\ 1 + 1 = 2
        OBVIOUS
      <4> QED BY <2>4, <3>1, <3>4, <4>1
    <3>7. answer' = IF found[1] = found[2] /\ found[1] = 1 THEN "verified" ELSE "disagree"
      BY <2>6, <3>5 DEF SearchVerdict
    <3>8. /\ liar = {} <=> ~Liar(t, a) /\ ~Liar(t, b)
          /\ Liar(t, a) /\ Liar(t, b) => liar = Candidates(text)
      BY <2>3, <3>1
    <3>9. answer' = IF ~Liar(t, a) /\ ~Liar(t, b) THEN "verified" ELSE "disagree"
      BY <3>6, <3>7
    <3> QED BY <2>3, <3>6, <3>8, <3>9
  <2>7. UNCHANGED job => FALSE
    BY <2>1
  <2> QED BY <2>1, <2>2, <2>3, <2>5, <2>6, <2>7, SearchTurns DEF NextFound
<1> QED BY <1>1, VerdictInvariant, PTL DEF Spec, VerdictRight
==============================================================================

# Triad: a Chord ring, specified, checked and proved

This directory holds the verification project of Triad, the distributed hash
table in `src/` (project B of USC CSci551): a manager process that creates
clients and hands out jobs, and clients that form a Chord ring over UDP.

## The system

| component | state | operations | interacts by |
| --- | --- | --- | --- |
| identifier circle, `ring.c` | none | `InRange`, `InRangeA`, `NotInRange`, `RingPlus`, `RingMinus` | called by everything below |
| routing, `client.c:922-1083, 1276-1334, 1462-1564, 1986-1999, 2836-2907` | `succ`, `pred`, `MyFT` of every client; two registers of the caller | `FindSuccWithFT`, `FindNeighbor`, `FindClosest`, handlers of SUCCQ, PREDQ, CLSTQ | one blocking UDP round trip after the other |
| joining, `client.c:623-920, 1086-1249, 1335-1461` | the same and `doublesucc` | `InitFingerTable`, `UpdateNeighbor`, `UpdateOthers`, handler of UPDTQ | round trips; UPDTQ handlers send UPDTQs of their own |
| store and search, `client.c:2004-2830` | the texts of every client | `HandleStoreMsg`, `HandleSearchMsg`, `HandleStage7Search`, handlers of STORQ, CLSTQ, ESTRQ | job from the manager over TCP, then routing |
| leaving, `end_client` and the handlers of LEAVQ, NXTDQ | texts, neighbours, fingers | hand-over of texts, neighbours relinked | round trips around the ring |
| hello and repair, `client.c:3200-3612` | hello timers, the bucket of messages put aside | hello to the successor, two-second wait, `ReBuildtheRing` | timers inside the `select` loop, receives that take any datagram |
| manager, `manager.c` | list of clients, list of jobs | serial creation, one job after the other | TCP line protocol |
| timers, `timers.cc` (third-party) | ordered list of timers | add, remove, expire | callbacks |
| start, hash, I/O: `projb.c`, `sha1.c`, `comm.c`, `log.c`, `tools.cc` | configuration, files | | |

Concurrency: every process is single-threaded and sits in `select`; it becomes
concurrent with others because an operation is a series of blocking round
trips. A client that waits in `recvfrom` answers nobody. What is hard: states
between two round trips (a half-linked ring, fingers found before the joiner
was in it), handlers that block on requests of their own, interval tests that
wrap around, fingers that are stale, and, in the later stages, receives that
take a message for another one and nodes that disappear. `PROJECT.json` lists
these hazards at their lines with the properties that cover them.

What makes each component correct:

- circle: each test is the arc it stands for, also when the arc wraps or is
  the whole circle;
- routing: a lookup ends, at the node responsible for the id, whatever the
  fingers are;
- joining: in every intermediate state the ring is in order; after every join
  the fingers are right; nobody waits for a node that waits; every client gets
  in;
- store and search: the owner of a text keeps it, nobody else does, and a search
  ends and says whether it was stored; in stage 7 it says what two replicas say;
- leaving: no text is lost and the ring closes again;
- repair: the ring closes around a killed client, and a live one is not
  declared dead;
- manager: jobs are done one at a time and in order, and in the end everybody
  leaves.

## Modules

`RingArith` is `ring.c`, test by test, with the comparisons of the C code.
`Dist`, `NextOf`, `PrevOf` and `OwnerOf` state what the tests mean on the
circle and carry all properties of the other modules.

`TriadLookup` is `FindSuccWithFT`. `lpc`, `tempA` and `tempB` are its program
counter and registers; each action is a round trip with the code around it:
`LookupFirst` (1010-1025), `LookupReturn` and `LookupClosest` (the `while`),
`LookupSelf` (the branch where a node names itself), `LookupHop`. A round trip
to a node is atomic: nodes answer from their own variables, and none of them
changes one while it answers SUCCQ, PREDQ or CLSTQ. The module's own
specification `LookupSpec` runs lookups on a ring that stands still, from any
set of members and any finger tables whose entries point *past their start*
(`FingersPastStart`), right or stale.

`TriadRing` extends it with `JoinRingWithFingerTable`. The variable `pc` is
where the joiner stands, `idx` its loop variable; `joiner`, `target` and
`waiting` describe who asks, who is to answer, and who is blocked in a nested
UPDTQ. Actions:

| action | code |
| --- | --- |
| `Create`, `Report` | the manager's creation loop, `manager.c:148-244`, and `InitFingerTableSelf` |
| `FoundSucc`, `AskPred` | successor and predecessor, 654-680 |
| `FillCopy`, `FillLookup`, `FillFound` | the loop over fingers, 685-701 |
| `LinkPred`, `LinkSucc` | the two UPDTQs of `UpdateNeighbor`, with their handlers |
| `AskDoubleSucc` | 711-725 and `UpdateMyFingerTableInit` |
| `OthersLookup`, `OthersSkip`, `OthersTarget` | one turn of the loop of `UpdateOthers` |
| `UpdateSucc`, `UpdateForward`, `UpdateEnd` | the UPDTQ handler for a finger, one action for each node of the chain |
| `PredsDoubleSucc`, `SetPredsDoubleSucc`, `AskDoublePred`, `SetDoublePredsDoubleSucc`, `JoinDone` | the double successors, 834-867 |
| `WalkStep` | a step of the lookup the joiner waits for |

`RingMembership` is the abstract specification: a set of clients and, for each
one, the next; clients join one at a time. `TriadRing` implements it under the
mapping `ring <- Linked`, `next <- succ` restricted to `Linked`: the second
UPDTQ of `UpdateNeighbor` is the joining step, everything else stutters.

`TriadStore` extends `TriadLookup` with the jobs. The manager sends all of them
to the first client and waits for its "ok", so one runs at a time; the ring
stands still meanwhile. `job`, `text` and `at` are the job and the loop variable
over the positions of a text, `found` is `data_stored`, `copies[n]` the list of
client `n` as a bag. `STAGE` selects stage 6 (one position, CLSTQ) or 7 (four
positions, ESTRQ, bogus clients).

| action | code |
| --- | --- |
| `BeginStore`, `BeginSearch` | `manager.c:249-332`, `client.c:366-403` |
| `StoreHere`, `StoreLookup`, `StoreAdd`, `StoreRefused` | `processStoreMsg`, 2004-2111, and the STORQ handler, 1565-1628 |
| `SearchHere`, `SearchLookup`, `SearchAsk`, `SearchAgain`, `SearchFails` | `HandleSearchMsg`, 2341-2478, and the CLSTQ handler |
| `SearchSkip`, `SearchOwn`, `SearchUnset`, `AskBogus`, `AskReplica`, `SearchSelf`, `SearchVerdict` | `HandleStage7Search`, 2204-2339, `processExtStores` and the ESTRQ handler, 1873-1975 |

An entry of `data_stored` that the code reads without having set it is any of 0,
1 and 2. What `tempA` and `tempB` hold when a lookup begins is not used.

`TextStore` is the abstract specification: a set of texts, and searches that
say whether a text is in it. `TriadStore` implements it up to stage 6 under
`texts <- StoredTexts`: a text enters when its owner adds it to its list.

`TriadLeave` extends `TriadStore` with `end_client`. `leaver` is the client in
`HandleEndClient`, `lat` where it stands, `lidx` its loop variable, `unsent` the
texts it has not handed over. Leaves alternate with stores and searches; a
client that has left keeps its process and its variables, so if it is the
first one it goes on with the jobs, and lookups still begin at it. A leaver whose
walk meets a departed client that has the leaver for its last predecessor is answered
like by a successor; it does not expect that and exits (`lat = "failed"`, as for the
last client of a ring), and its end of file ends the manager's loop.

| action | code |
| --- | --- |
| `BeginLeave` | `client.c:404-429` |
| `FetchText`, `FetchEnd`, `LeaveAlone` | NXTDQ and NXTDR, 2509-2593, and the successor's LEAVQ handler, 1637-1709 |
| `LeaveLookup`, `LeaveFound`, `LeaveNotice` | the loop over fingers, 2605-2714, and the other LEAVQ handler, 1710-1767 |
| `LeaveRefused` | LEAVQ at a client that takes itself for the leaver's successor, 1637-1661, and the leaver's exit, 2650-2665 |
| `LeavePred`, `LeaveSucc` | the two UPDTQs of `LeaveUpdateNeighbor`, 2726-2807 |

`TriadRepair` is a module of its own, because it models datagrams where the
others model round trips. `queue[n]` is what the socket of `n` holds, `at[n]`
what its process does: the `select` loop, the two-second wait for HDPRR, one of
the four receives of `ReBuildtheRing`, the receive inside the PRCQM handler, the
receive of a job. `Size` is what tells datagrams apart: `recvfrom` cuts one to
the size of the message it is asked for, and the code compares sizes. `spoiled`
is history: it becomes true when a receive takes a datagram that was not for it
(or a repair starts from a double successor that is wrong because of a leave);
what is right only without that is stated with it, and two runs without that
condition, `repair_alarm` and `repair_cross`, show what goes wrong otherwise.

| action | code |
| --- | --- |
| `Hello`, `HelloReply`, `HelloBucket`, `HelloTimeout`, `HelloTimeoutLost` | the timer and `HandleHelloPredecessorMsg`, 3249-3374, `AddToMesgBucket`, 2929-2955. `processMsgBucket` (3468-3612) converts the type of every message a second time, so none of its cases is ever taken: the messages are dropped |
| `RepairLink`, `RepairDouble`, `RepairDoubleUnset`, `RepairFingers`, `RepairFails`, `RepairDone` | `ReBuildtheRing`, 3379-3463, a receive each, with `sendUpdateQuery`, `FindNeighbor` and `UpdateFingerTable` |
| `AnswerHello`, `AnswerQuery`, `TakeUpdate`, `Preempt`, `PreemptEnd`, `Forwarded`, `Unexpected` | `HandleUdpMessage` and the receive of PRCRM inside it |
| `Kill`, `Ask`, `AskEnds` | `kill_client`, 430-470; a CLSTQ or STORQ of a job of the first client, 2836-2907 and 2059-2100 |

`Manager` is the other end: `manager.c:246-551`, the streams to the clients, and
how clients end. `jobs` is the configuration; for each kind of job
`cursor` points into the list of arguments that `projb.c` made, as the code's
four position pointers do, and `curjob` into the list of kinds. `given` is
history: the jobs sent. `inbox` and `outbox` are the streams.

| action | code |
| --- | --- |
| `FirstJob` | 249-264: the first argument of a store is sent, whatever the first job is |
| `OkFirst`, `OkOther`, `Wild`, `Eof` | the two branches of the loop, 284-401 and 403-529; each gives the next job with `GiveNext` |
| `SayExit` | 538-551 |
| `DoJob`, `Die`, `Leave`, `Quit` | the client's end, `client.c:319-478` |

`clientToKill` is not initialised (134): until a kill job has been noted,
closing its socket is any one of closing a socket, closing none, and a crash.
`Quit` is a client that leaves its loop because it could not handle a message
(329-332, or a job that fails). The one-minute sleep after a kill has no counterpart: only the loop sleeps, and
what it reads afterwards is in the streams.

`MCTriadLookup`, `MCTriadRing`, `MCTriadStore`, `MCTriadLeave`,
`MCTriadRepair` and `MCManager` instantiate them for TLC; `RingArithProofs`,
`TriadLookupProofs`, `TriadRingProofs`, `TriadStoreProofs`,
`TriadLeaveProofs` (which builds on the one before it), `TriadRepairProofs` and
`ManagerProofs` hold the proofs.
Definitions under a comment `Mutant:` are wrong variants of the definition
after them, kept to show that the properties notice; nothing uses them.

## Runs

| run | instance | shows |
| --- | --- | --- |
| `lookup` | nodes {1,3,4,6} on a circle of 8, first node 4, every subset as the ring, every table of fingers past their start, every caller and key: 1.1 million states | lookups are correct and end, and each hop comes nearer; at every key `CircleIsModular`: the sums and the tests of `ring.c` with all other ids |
| `ring` | five clients {0,5,11,19,27} on a circle of 32, 11 and 19, 19 and 27, 27 and 11 a power of two apart, joining in every order after 11 | everything about joins, stale fingers that do no harm, and the refinement |
| `ring_adjacent` | clients {0,5,6,19} on a circle of 32, first client 0; ends in a violation | a client passed over because the id after its own joins |
| `store` | clients {1,4,6} on a circle of 8, first client 4, every ring and every table of fingers past their start; three texts, one above the largest client, one at the first client's id, one below; every sequence of three jobs | copies are at their owners, a store takes hold, `RefinesTextStore`, a search ends outside the gap |
| `store7` | clients {2,6,11} on a circle of 16, first client 6, client 11 bogus; three texts of four positions each, every sequence of two jobs | the verdict of a search is what the two replicas it asks imply, and it comes |
| `store_gap` | as `store`; ends in a violation | a search that goes round its loop for ever |
| `store7_top` | as `store7`, clients {2,6,13}, first client 13, none bogus; ends in a violation | a verdict from fewer than two answers |
| `leave` | clients {0,5,11,18,25} or {5,10,13,18,27} on a circle of 32, first client 5; two texts; every sequence of five jobs, stores, searches and leaves: 206 thousand states | types (`LeaveTypeOK`, with `StoreTypeOK` in it), neighbours, fingers, lookups, texts and searches after leaves, that a leave ends, and who exits instead |
| `repair` | clients {0,5,11,18} on a circle of 32, first client 5; 11 may have left before; two kills, one request of a job; hellos without bound: 205 thousand states | a quiet ring stays quiet, nobody alive is declared dead or passed over, a repair begins with the right double successor, and the ring heals, as long as no receive took a datagram that was not for it |
| `repair_alarm` | as `repair`, no kill and nobody has left; ends in a violation | a live client is declared dead |
| `repair_cross` | as `repair`, nobody has left, one kill; ends in a violation | a repair that a hello query stops half-way |
| `manager` | three clients; every configuration of up to four jobs out of two stores, a search, an end and three kills, the eight jobs of `input_6`, and one that names nobody's name; one client may give up: 231 thousand states | order, one job at a time, which sockets are closed, that jobs and clients come to an end |

Bounds. The finger table is complete for the circle (its last finger starts half
a circle away), as 33 entries are for 32 bits; only in `store7` it is one finger
shorter, which keeps the initial tables few. In `lookup` the
first node is not the smallest, so walks cross the wrap-around, and four nodes
are the fewest with which a walk makes two hops past stale fingers. Five
joining clients give rings of every size from one to five, joiners before and
after every member, the wrap-around in every position, and chains of UPDTQs
over several nodes. In `store` and `store7` the first client is in the middle of
the full ring, the smallest or the largest of the rings of two, and alone in the
ring of one. Three jobs are a store, a repeated store or one of another text, and
a search; in stage 7 two jobs, a store and a search of the same or the other
text, already go through all positions, and a search can be the first job. `Jobs` is the only bound on the length of a behaviour: lookups and
steps are not counted.

In `leave` five jobs are a store, a search and up to three leaves in every order,
and rings of five leave two neighbours to repair even then; the second ring has
a client exactly eight above another with a third one between them, the case in
which a finger outlives its node. In `repair` two kills give a repair after a
repair (a job is given only a minute after a kill, when the ring is still again) and the double
successor of a ring of two, and one request is enough to cross every message of
a hello or a repair. The bounds `Kills`, `Asks`, `Jobs`, `Quits` are guards of
their actions; hellos, lookups and steps are not counted. In `manager` four jobs are a store and any three
others: two kills in a row, a kill after a job of another client, a kill of the
first client, each with a job left to lose.

Ids. The hashes are taken to be distinct and, but for `ring_adjacent`, not
adjacent. Pairs exactly a power of two apart are in `ring` and `leave`; with SHA-1 ids of 32 bits they are rare,
but the program does not exclude them. A `TNode` that was never filled in is
`NoNode`; the code's value is id 0, port 0, and no client has port 0.

Fairness. `LookupSpec` has weak fairness on the steps of a lookup: the asked
node is in its `select` loop, so a round trip is answered. `TriadRing` has
`WF_vars(Next)` (`TriadStore`: of `ClientStep`, not of new jobs): at any time one client is joining, everybody else answers,
and `RequestsReachReadyNodes` shows that it is only asked when it can. Datagrams
between processes of one host are taken not to be lost. `LeaveSpec` is as `TriadStore`:
a leave that was begun goes on.

`RepairSpec`: a process reads its socket and its timer fires again and again
(weak fairness); a two-second wait in which nothing comes is over (`Timeout`,
strong fairness, as others exchange hellos meanwhile), which the guard `Quiet`
says: a timeout happens only when no datagram is on its way, since a datagram
takes microseconds. `[]<>HellosPass` excludes the behaviour in which some hello is
always on its way; hellos are ten seconds apart. The safety properties of
`repair` need no fairness, and also held with a weaker guard than `Quiet`.

`ManagerSpec`: weak fairness on the loop, and on each client's jobs as long as
no client has given up: after that, others may wait for its answer for ever, and
`AllJobsDone` and `NobodyStaysBehind` promise nothing.

### What the runs found

- `UpdateOthers` promises to update the double successors of predecessor and
  double predecessor (`client.c:832-833`), but skips the second when it is the
  node's own double successor (847). In a ring of three that node keeps itself
  as double successor, until a later join passes by. `DoubleSuccOneStale` states
  what does hold: never more than one node is wrong after a join, and it names
  itself. (It also holds for six and seven clients in every order.)
- `store_gap`: `HandleSearchMsg` decides by `pred` and `HashID` whether a text is
  its own, and misses the ids above the largest client that belong to the
  smallest one, and everything when it is alone. It then looks the owner up,
  finds itself, and asks itself with `FindClosest`, which answers from the finger
  table and returns 0; neither exit of the loop (2453, 2461) accepts that. A store
  has no such gap, because it compares the result of the lookup with `HashID`
  (2047). In the run First is alone. `SearchEndsElsewhere` shows that these are
  the only searches that do not end. In `input_6` the first client is not the smallest; in `input_7` it is,
  but neither of its two searches falls into the gap.
- `store7_top`: `HandleStage7Search` takes the first two of the four positions
  that are not below `HashID`. There are two of them
  when the first client is in the lower half of the circle, one or two in the third
  quarter, and at most one in the last: then the
  verdict compares `data_stored` entries that were never assigned. In the run First is
  alone and the only position not below it is its own id, for which no branch assigns any.
- `repair_alarm`: `stage6.README.txt:8` says that a timeout of a hello query means
  that the successor is down. In the run the first client, in its two-second
  wait, is sent a request of a job and puts it aside for ever; the job's
  sender takes a hello query for its answer and leaves its loop; it is repaired
  around, and in the middle of that a receive takes the query of another hello
  for its UPDTR and answers it to the wrong address. The client that sent it
  waits two seconds and declares a live successor dead. `TimeoutMeansDead` says
  that a timeout does mean it as long as nothing of the kind has happened
  (`spoiled`). It also held, with `NobodyPassedOver` and `HellosHarmless`, for five clients
  (2.7 million states).
- `repair_cross`: with one kill and no leave, a hello query that crosses the
  repair stops it half-way. In the wait for SUCCR it unsets the double
  successor (970-985) and the late SUCCR fails the next step; in the wait for
  UPDTR it fails that step itself. Nobody's fingers are corrected then, and
  since hellos find every successor alive nothing is tried again. `RingRebuilt`
  is `RepairHeals` without `spoiled`.
- The client that PRCQM is passed on to can be in its two-second wait and take it
  for HDPRR, which is shorter. Then the client that has passed it on waits for a
  PRCRM that does not come, until the next hello query, which has another size
  than PRCRM and ends its process (`Forwarded`). That is another way into the
  violation of `RingRebuilt`.
- No leave tells the clients that name the leaver as double successor, so a
  repair after it links the client that has left, whose process still answers.
  (Another client may name a dead one: after 11 has left, 18 is both successor
  and double successor of 5, and the first UPDTQ of a repair by 5 goes to the
  client it has just taken for dead.) `RepairStartsRight` says that these are
  the only two: every repair begins with the right double successor as long as
  no receive was mistaken, or with the client that has left or the one that has
  become the successor by that leave. `NobodyPassedOver`, `TimeoutMeansDead` and
  `RepairHeals` promise nothing after a mistaken receive or a wrong beginning.
  The rings `TriadRepair` starts from have the right double successors but for
  the leave; the one that a join may leave stale (`DoubleSuccOneStale`) is not
  among them, and would be another wrong beginning.
- A first client that is alone is named by its own lookup in stage 7, and
  `processExtStores` returns 0 for a question to oneself (2148), which its
  callers take for an answer of a client that has the text (2265, 2301). The
  verdict on a text never stored is then PRESENT and DISAGREE. `VerdictOfTwo`
  counts such a 0 as no answer.
- The handler of LEAVQ knows the leaver's successor by `leaveid == pred.id`
  (1637). A client that has left keeps its `pred`, so it can hold for one of those
  too: in the ring {5,10,13,18,27}, after 5 (First), 27 and 13 have left, the walk
  of 18 meets 27, whose last predecessor is 18. It sends NXTDQ where 18 expects
  SUCCQ, and 18 exits without `LeaveUpdateNeighbor` (`LeaveRefused`);
  27 waits for ever. `LeaveExits` says when it does not happen: as long
  as First is in the ring, whose lookups then meet nobody that has left, and no two
  clients are a power of two apart, only the last client of a ring exits.
  It also happens in rings that are `Apart`: {0,14,17,20}, First 17,
  leaves of 17, 14, 0. After it `NeighboursAfterLeave` is about the state
  before: the client that has exited still counts as a member, and its neighbours
  name it.
- In the middle of a leave the predecessor's first finger skips the leaver
  before its successor variable does, and lookups through it can return the
  wrong node; `LookupsAfterLeave` is about the time after it. The leaver's own lookups run in
  that time, and the fingers end right all the same.
- When two clients are exactly a power of two apart, the walk of a leave can
  pass over one of them, whose finger to the departed client stays; a later
  store through it can land at the client that has left, and a stored text be reported
  absent. `FingersAfterLeave` says which fingers these are; `Apart` and `Settled` exclude
  them in the others.
- A client that is left alone claims no id but its own in CLSTQ and STORQ
  (1501, 1599), because its predecessor is itself. When First leaves a ring of two and
  goes on with the jobs, it does not find what the last client keeps.
  `SearchesAfterLeave` therefore asks for First in the ring or two clients left. (No configuration
  that comes with the code has an `end_client`.)
- In stage 7 the hand-over of a leave rehashes every text to its bare hash
  (1685), so that replicas lose their positions. It is in `FetchText`, but the
  run is of stage 6.
- The manager takes any "ok" for the end of the current job, notes whom it
  kills only in the branch of the first client, and lets the next "ok" of
  another client close that socket. Two kills in a row close the same socket
  twice, and the end of file of the second victim ends the loop with jobs left;
  after a kill that follows an `end_client` of another client it
  closes a socket it never noted (134, 413); killing the first client loses the
  next job. `Regular` says which configurations have none of this, and
  `RightSocketClosed` and `AllJobsDone` that they work; the others are in the run
  too, under `JobsInOrder`, `OneJobAtATime` and `NobodyStaysBehind`. A configuration that names a client after
  its kill makes the manager wait for ever.
- A store of a text that the first client keeps itself adds a second entry and
  reports 1, where a remote one reports 2; `RefinesTextStore` holds
  nevertheless, as no search tells the difference.
- `ring_adjacent`: `UpdateOthers` uses the loop variable as the index of UPDTQ,
  and index 1 is also "update successor" (1376): if a client sits exactly at
  `HashID - 1`, its predecessor takes the joiner for its successor, and the
  client between them falls out of the ring. The assumption `NoAdjacentNodes`
  excludes it from the theorems about joins, and the ids of `ring` from that run.
- A limit of the join that shows as a condition of `FingersCorrect`: a client
  exactly at `HashID - 2^(i-1)` is passed over, so its finger `i` stays stale;
  `StaleFingersPastStart` says why lookups do not mind.

## Proofs

For every `HASHMAX`, every finite or infinite set of nodes on the circle and every length
of finger table, from the assumptions next to the constants:

- `RingArithProofs`: the meaning of the tests (`InRangeIsArc`, `InRangeAIsArc`,
  `NotInRangeIsArc`), that sums are modular, and the facts on owners and
  neighbours the others use (what a newcomer between two neighbours changes).
- `TriadLookupProofs`: `LookupTypes`, `LookupIsCorrect`, `LookupKeepsTrack`,
  `LookupApproaches` and `RingFunctionsAreRight`. The argument: the invariant says that `tempB` is the
  successor of `tempA` where the `while` condition is tested, and that an answer
  of `tempA` lies strictly between `tempA` and the key, or is `tempA` itself, in
  which case it owns the key. Fingers matter only in that they name members and
  that the first one is the successor (`FingersUsable`). `RingFunctionsAreRight` states for the
  key of any lookup, on a circle of any size, what the lemmas of `RingArithProofs`
  say of any ids.
- `TriadRingProofs`, under `NoAdjacentNodes`: `RingInvariant` (`IInv`), and from
  it `TypesCorrect`, `RingIsCorrect`, `LookupsAreCorrect`,
  `RequestsAreAnswered`, `PlaceIsCorrect`, `OnlyJoinsRelink` and
  `ImplementsMembership`. `RingCorrect` alone is not inductive: the step that
  links the joiner needs `Place` (it has found the owner of its own id and that
  node's predecessor), which needs `Walking` (the lookups it used were right),
  which needs the fingers to name nodes of the ring. `Updating` orders the
  nodes of an UPDTQ chain by their distance from the joiner: every node that is
  told is nearer to it than all that wait, so the chain cannot meet one of them.

  A second invariant, `FingersInv`, is about the finger tables: `FingersInvariant`,
  and from it `FingersAreCorrect`, `StaleFingersAreHarmless` and
  `DoubleSuccsAreCorrect`. For every client and every finger it says whether the
  entry is the owner of its start for the ring with the joiner or for the ring without, and
  which of the clients have the first (`Updated`), at each point of the loop of
  `UpdateOthers` and of each chain of UPDTQs. A chain goes down the circle and stops
  at the first client whose finger already lies between its start and the
  joiner; everybody below has such a finger too, so nobody is missed.
  `JoinersFingers` says that the loop of `InitFingerTable` may copy an entry, which
  needs the starts in order (`PowersGrow`).
  `DoubleSuccsTrack` says that at most one client, which names itself, has a wrong
  double successor, and how far the joiner has come with correcting the others'.
  The first two hold with their conditions: `FingersAreCorrect` leaves out the starts that
  are a client's id, and all three are about the times between joins.
- `TriadStoreProofs`, for any texts, jobs and bogus clients: `StoreInvariant`
  (`StoreInv`), and from it `StoreTypes`, `CopiesAreAtOwners`, `StoresTakeHold`
  and, for stage 6, `ImplementsTextStore`. The tests that First, the STORQ handler
  and the CLSTQ handler make are three different ones; `OwnArcIsOwner`,
  `OwnsIsOwner` and `OwnerKeeps` relate each to `OwnerOf`. The invariant adds to
  that of the lookup which position the lookup is for (`LookupOfJob`) and that the
  positions the loop has passed are held (`HeldSoFar`). That the positions of
  different texts differ is an assumption (`HashAssumption`): for 32-bit SHA-1
  prefixes it is likely, not certain.
  `VerdictsAreRight` is for stage 7. Its invariant (`VerdictInv`) says that a text
  is held at all of its positions or at none (`AllOrNone`), and that `data_stored`
  has, for each position the loop has not passed over, 2 if a bogus client
  answered and 1 otherwise (`Consulted`); `Rank` counts these positions, and
  `TwoCandidates` says that a search with two of them has compared just these.
- `TriadLeaveProofs`, for any rings, texts and jobs, and leaves in any order,
  that of First included, with the leaver's exit where it happens: four
  invariants, one on top of the other.
  `LeaveInv` names the one state in
  which a neighbour is ahead (`lat = "unlink"`); that the successor's new
  predecessor is right for the ring without the leaver follows from `NextOf` and
  `PrevOf` for the ring with it (`LeavesKeepNeighbours`).
  `AfterInv` adds the types, whose lookup it is (`LeaveIsTyped`), and that
  first fingers are successors but for the leaver's predecessor, so that a ring
  whose fingers are settled is one `TriadLookup` can walk
  (`LookupsAreRightAfterLeaves`).
  `TellInv` is about the fingers (`FingersAreRightAfterLeaves`). The
  lookups of a leaver may go astray, over clients that have left or past the leaver
  itself; but the predecessor of whatever they return is at or above every client
  whose finger has to be renamed (`Reaches`), because the variables of
  clients that have left still name clients with nobody of the ring in between
  (`GoneKeep`). The walk from there goes down the ring one by one and stops at the
  leaver, its successor, or a client whose finger does not start in the leaver's arc, below which
  no finger does (`NeedyNotBeyond`); `Telling` says who has been told at each point.
  `TextInv`, for stage 6, is about the texts: at each point of a leave everything the leaver
  keeps is still to be sent or with its successor (`HandingOver`), which will
  be responsible for it, and whatever anybody keeps its owner keeps
  (`KeptByOwner`). `TextsAreHandedOver` and `SearchesAreRightAfterLeaves` follow,
  both for a First that is in the ring and clients that are not a power of two apart
  (`Apart`), which is when `TellInv` gives a ring that can be walked.
  `OnlyTheLastExits`: while First is in a ring that is `Apart`, the leaver's
  lookups start at a member, and go over members, because no finger names a departed
  client (`LookupInside`); so the walk goes over members (`WalkInside`), where only the
  leaver's successor has the leaver for its predecessor, and `Visit` stops there.
- `TriadRepairProofs`, for any ring, any number of kills and of requests:
  `RepairIsTyped`, `HellosAreHarmless` and, as long as no receive was mistaken and
  no repair has begun with a wrong double successor (`~spoiled`), `TimeoutsMeanDead`
  and `RepairsPassNobodyOver`. A client that waits for HDPRR has its hello in the queue of its
  successor, or the answer in its own, as long as that one is up (`HellosUnderway`);
  with `Quiet`, no queue holds either when the wait is over, so the successor is dead. In the
  same way the first UPDTQ of a repair or its answer is under way (`RepairsBegin`), so
  that no kill, which waits for a quiet ring, and no job falls between the timeout and the new link; the node
  that is linked is the next client that is up, by `NobodyPassedOver` before
  it. Until the first kill or request there are only hellos (`OnlyHellos`), and that
  needs no assumption on `spoiled`.
- `ManagerProofs`, for any clients and configurations of any length:
  `ManagerTypes`, `OrderKept`, `OneJobOnly` and `SocketsAreRight`. For the order the invariant says
  that `curjob` is one more than the jobs given and that the cursor of each kind
  is at its first line from there on (`AfterHere`: an element of a list is met
  exactly when the loop gets to its line). For one job at a time it says that
  the jobs not done and the answers not read are at most one in all, over both
  streams of all clients; the step that hears an "ok" takes the one, so that the
  step that gives the next job finds none. For the sockets (`ServeInv`), in a regular
  configuration the last job is with the client it names, on its way there or back; everybody
  else is quiet, or was killed, heard and closed, and no job to come is for a client
  that is closed.

Every invariant and every action property of a passing run is stated by a
theorem, with two exceptions. `RepairStartsRight` is only model-checked so far:
its proof needs what every double successor is at each step of every repair that
is under way. `SearchesAfterLeave` is proved for a First in the ring; for a
First that has left it stays model-checked, since there it rests on the path of
a lookup through the frozen tables of departed clients, in which each step depends on
all before it. (It also held in random simulations of 240 rings of four to six clients on
a circle of 64, with seven jobs, and of a few of seven to nine on one of 256, with fourteen.)

Only model-checked: liveness (`LookupEnds`, `JoinsComplete`,
`SearchEndsElsewhere`, `LeaveEnds`, `RepairHeals`, `AllJobsDone`,
`NobodyStaysBehind`), because fairness is out of the prover's reach; and the
properties of the runs that end in a violation, which are false.

## Not modelled, and the plan

Of `projb.c` only the lists it makes are modelled; reading the file and forking
are not. `sha1.c` is third-party, `log.c` and `tools.cc` are output and set-up.
`timers.cc` is a library of ISI that the program uses for one periodic timer per
client: what is delicate in it (timers that expire together, one that removes
itself) does not happen here. `JoinRing` and the branches for stages below 4 are
never taken by the code as it stands (the stage must be 6 or 7). Failing
`sendto` and `recvfrom` calls end a join, a store or a leave and are left out of
`TriadRing`, `TriadStore` and `TriadLeave`, and so are hello messages that arrive
during one: `TriadRepair` shows with one request what they do to a job. A second
`end_client` for a client that has left is not given. Texts lost with a killed
client are lost by design in stage 6.

What a continuation would do, in this order:

1. Prove `RepairStartsRight`, which takes the double successors out of `spoiled`
   in `TimeoutsMeanDead` and `RepairsPassNobodyOver` for rings nobody has left.
2. Prove the safety half of the liveness properties: measures that every step of a
   lookup, a walk and a repair decreases, of which `LookupApproaches` is the first.
3. Prove `SearchesAfterLeave` for a First that has left.
4. Compose a leave with the hellos of the other clients, datagram by datagram.

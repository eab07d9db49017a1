----------------------------- MODULE TriadRepair -----------------------------
(****************************************************************************)
(* Hello messages and the repair of the ring after kill_client, datagram by *)
(* datagram (client.c:3249-3463).  Every ten seconds a client sends HDPRQ   *)
(* to its successor and waits for two; if nothing comes it takes the        *)
(* successor for dead and rebuilds the ring.  A client that waits takes     *)
(* what its socket has next, whatever it is: recvfrom cuts a datagram to    *)
(* the size of the one it expects and tells them apart by the size at most. *)
(*                                                                          *)
(* Datagrams between live processes are neither lost nor reordered; those   *)
(* to a process that is no more are lost.  Two seconds are long: they are   *)
(* over only when no datagram is on its way.                                *)
(****************************************************************************)
EXTENDS RingArith, Sequences

CONSTANTS Node, First,
          FTLEN,    \* fingers are 1 .. FTLEN-1, as in the code
          Left,     \* clients that may have left the ring before, or NoNode
          Kills,    \* kill jobs of the manager
          Asks      \* requests First makes for its other jobs

NoNode == HASHMAX + 1       \* a TNode that was never filled in

ASSUME RepairAssumption ==
  /\ Node \subseteq Id /\ First \in Node
  /\ FTLEN \in Nat \ {0, 1}
  /\ \A i \in 1 .. FTLEN - 1 : 2 ^ (i - 1) \in 1 .. HASHMAX
  /\ Left \subseteq (Node \ {First}) \cup {NoNode}
  /\ Kills \in Nat /\ Asks \in Nat

Finger == 1 .. FTLEN - 1
FingerStart(n, i) == RingPlus(n, 2 ^ (i - 1))

VARIABLES succ, pred, dsucc, ft,
          at,       \* what the process of n is doing
          queue,    \* the datagrams its socket holds
          lost,     \* the successor a repair of n has given up
          away,     \* the client that has left before, or NoNode
          kills, asks,
          spoiled   \* history: some receive has taken a datagram that was
                    \* not for it, or a repair began with a double successor
                    \* that was not the next client

tables == <<succ, pred, dsucc, ft>>
budget == <<away, kills, asks>>
vars == <<tables, at, queue, lost, budget, spoiled>>

\* In the select loop; in the two-second wait; in ReBuildtheRing for UPDTR,
\* SUCCR, UPDTR, PRCRM; in the handler of PRCQM for PRCRM; in a job.
Repairing == {"upd0", "succq", "upd100", "prcq"}
Place == {"loop", "hello", "forward", "closest", "store", "dead", "exited"} \cup Repairing

\* sizeof the messages; STORQ and STORR with a text of one character.
Size == [HDPRQ |-> 8, SUCCQ |-> 8, CLSTQ |-> 12, HDPRR |-> 16, SUCCR |-> 16,
         STORQ |-> 17, STORR |-> 17, UPDTQ |-> 20, PRCRM |-> 20,
         UPDTR |-> 24, PRCQM |-> 24, CLSTR |-> 24]

\* node is the node a message carries; extra the index of UPDTQ, or the node
\* that PRCQM replaces.
Datagram == [kind : DOMAIN Size, from : Node, node : Node \cup {NoNode}, extra : Nat]
Dgram(k, n, x, y) == [kind |-> k, from |-> n, node |-> x, extra |-> y]
Plain(k, n) == Dgram(k, n, NoNode, 0)

RepairTypeOK ==
  /\ succ \in [Node -> Node \cup {NoNode}]
  /\ pred \in [Node -> Node]
  /\ dsucc \in [Node -> Node \cup {NoNode}]
  /\ ft \in [Node -> [Finger -> Node]]
  /\ at \in [Node -> Place]
  /\ queue \in [Node -> Seq(Datagram)]
  /\ lost \in [Node -> Node]
  /\ away \in Left
  /\ kills \in 0 .. Kills /\ asks \in 0 .. Asks
  /\ spoiled \in BOOLEAN

Up(n) == at[n] \notin {"dead", "exited"}

\* The clients of the ring.
Live == {n \in Node \ {away} : Up(n)}

\* Joins and at most one leave have built the ring: a client that has left is
\* passed over by neighbours and fingers, but not by double successors, and
\* keeps what it knew itself.  Of the rings that joins build these are the ones
\* without the stale double successor that DoubleSuccOneStale of TriadRing allows.
RepairInit ==
  /\ away \in Left
  /\ LET ring == Node \ {away}
         next(R, n) == CHOOSE s \in R : NextOf(R, n, s)
         home(n) == IF n = away THEN Node ELSE ring
     IN  /\ succ = [n \in Node |-> next(home(n), n)]
         /\ pred = [n \in Node |-> CHOOSE p \in home(n) : PrevOf(home(n), n, p)]
         /\ dsucc = [n \in Node |-> next(Node, next(Node, n))]
         /\ ft = [n \in Node |-> [i \in Finger |->
                    CHOOSE s \in home(n) : OwnerOf(home(n), FingerStart(n, i), s)]]
  /\ at = [n \in Node |-> "loop"]
  /\ queue = [n \in Node |-> <<>>]
  /\ lost = [n \in Node |-> n]
  /\ kills = Kills /\ asks = Asks
  /\ spoiled = FALSE

----------------------------------------------------------------------------

\* sendto: q with datagram d on its way to m.
Sent(q, m, d) == IF m \in Node /\ Up(m) THEN [q EXCEPT ![m] = Append(@, d)] ELSE q

\* n is at p, has something to read and takes it.
Reads(n, p) == at[n] = p /\ queue[n] # <<>>
Got(n) == Head(queue[n])
Rest(n) == [queue EXCEPT ![n] = Tail(@)]

Goes(n, p) == at' = [at EXCEPT ![n] = p]
Exits(n) == Goes(n, "exited") /\ queue' = [queue EXCEPT ![n] = <<>>]

\* No datagram is on its way.
Quiet == \A n \in Node : queue[n] = <<>>

HellosPass == \A n \in Node : \A i \in DOMAIN queue[n] : queue[n][i].kind \notin {"HDPRQ", "HDPRR"}

\* Fingers that name x name y from now on.
Renamed(n, x, y) == [i \in Finger |-> IF ft[n][i] = x THEN y ELSE ft[n][i]]

----------------------------------------------------------------------------
(****************************************************************************)
(* HandleUdpMessage, from the select loop.                                  *)
(****************************************************************************)

\* Mutant: a query that comes in the two-second wait is read and not answered.
AnswerHelloBusy(n) ==
  /\ Reads(n, "loop") \/ Reads(n, "hello")
  /\ Got(n).kind = "HDPRQ"
  /\ queue' = IF at[n] = "loop" THEN Sent(Rest(n), Got(n).from, Plain("HDPRR", n)) ELSE Rest(n)
  /\ UNCHANGED <<tables, at, lost, budget, spoiled>>

\* processHelloPredecessorMsg; the two-second wait answers too.
AnswerHello(n) ==
  /\ Reads(n, "loop") \/ Reads(n, "hello")
  /\ Got(n).kind = "HDPRQ"
  /\ queue' = Sent(Rest(n), Got(n).from, Plain("HDPRR", n))
  /\ UNCHANGED <<tables, at, lost, budget, spoiled>>

AnswerQuery(n) ==
  /\ Reads(n, "loop")
  /\ \/ Got(n).kind = "SUCCQ" /\ queue' = Sent(Rest(n), Got(n).from, Dgram("SUCCR", n, succ[n], 0))
     \/ Got(n).kind = "CLSTQ" /\ queue' = Sent(Rest(n), Got(n).from, Plain("CLSTR", n))
     \/ Got(n).kind = "STORQ" /\ queue' = Sent(Rest(n), Got(n).from, Plain("STORR", n))
  /\ UNCHANGED <<tables, at, lost, budget, spoiled>>

\* Mutant: index 100 is answered and nothing more.
TakeUpdateForgets(n) ==
  /\ Reads(n, "loop")
  /\ Got(n).kind = "UPDTQ"
  /\ pred' = IF Got(n).extra = 0 THEN [pred EXCEPT ![n] = Got(n).node] ELSE pred
  /\ queue' = Sent(Rest(n), Got(n).from, Dgram("UPDTR", n, Got(n).node, Got(n).extra))
  /\ UNCHANGED <<succ, dsucc, ft, at, lost, budget, spoiled>>

\* UPDTQ with index 0 or 100; a repair sends no others.
TakeUpdate(n) ==
  /\ Reads(n, "loop")
  /\ Got(n).kind = "UPDTQ"
  /\ \/ Got(n).extra = 0 /\ pred' = [pred EXCEPT ![n] = Got(n).node] /\ UNCHANGED dsucc
     \/ Got(n).extra = 100 /\ dsucc' = [dsucc EXCEPT ![n] = Got(n).node] /\ UNCHANGED pred
  /\ queue' = Sent(Rest(n), Got(n).from, Dgram("UPDTR", n, Got(n).node, Got(n).extra))
  /\ UNCHANGED <<succ, ft, at, lost, budget, spoiled>>

\* Mutant: it does not pass PRCQM on.
PreemptStay(n) ==
  /\ Reads(n, "loop")
  /\ Got(n).kind = "PRCQM" /\ Got(n).node # succ[n]
  /\ ft' = [ft EXCEPT ![n] = Renamed(n, Got(n).extra, Got(n).node)]
  /\ queue' = Sent(Rest(n), Got(n).from, Plain("PRCRM", n))
  /\ UNCHANGED <<succ, pred, dsucc, at, lost, budget, spoiled>>

\* PRCQM at a client whose successor is another one: it corrects its fingers,
\* answers, tells its successor and waits for the answer.
Preempt(n) ==
  /\ Reads(n, "loop")
  /\ Got(n).kind = "PRCQM" /\ Got(n).node # succ[n]
  /\ ft' = [ft EXCEPT ![n] = Renamed(n, Got(n).extra, Got(n).node)]
  /\ LET q == Sent(Rest(n), Got(n).from, Plain("PRCRM", n))
     IN  queue' = Sent(q, succ[n], Dgram("PRCQM", n, Got(n).node, Got(n).extra))
  /\ Goes(n, "forward")
  /\ UNCHANGED <<succ, pred, dsucc, lost, budget, spoiled>>

\* At the client that has rebuilt the ring it ends.
PreemptEnd(n) ==
  /\ Reads(n, "loop")
  /\ Got(n).kind = "PRCQM" /\ Got(n).node = succ[n]
  /\ queue' = Sent(Rest(n), Got(n).from, Plain("PRCRM", n))
  /\ UNCHANGED <<tables, at, lost, budget, spoiled>>

\* A datagram of another size than PRCRM's 20 ends the process; longer ones
\* are cut to it.
Forwarded(n) ==
  /\ Reads(n, "forward")
  /\ IF Size[Got(n).kind] >= 20 THEN Goes(n, "loop") /\ queue' = Rest(n) ELSE Exits(n)
  /\ spoiled' = (spoiled \/ Got(n).kind # "PRCRM")
  /\ UNCHANGED <<tables, lost, budget>>

\* default: an answer nobody waits for.
Unexpected(n) ==
  /\ Reads(n, "loop")
  /\ Got(n).kind \in {"HDPRR", "SUCCR", "UPDTR", "PRCRM", "CLSTR", "STORR"}
  /\ queue' = Rest(n)
  /\ UNCHANGED <<tables, at, lost, budget, spoiled>>

----------------------------------------------------------------------------
(****************************************************************************)
(* HandleHelloPredecessorMsg.                                               *)
(****************************************************************************)

\* The timer fires.
Hello(n) ==
  /\ at[n] = "loop" /\ succ[n] # NoNode
  /\ queue' = Sent(queue, succ[n], Plain("HDPRQ", n))
  /\ Goes(n, "hello")
  /\ UNCHANGED <<tables, lost, budget, spoiled>>

\* Mutant: the number of bytes is not looked at.
HelloReplyAny(n) ==
  /\ Reads(n, "hello")
  /\ queue' = Rest(n)
  /\ Goes(n, "loop")
  /\ spoiled' = (spoiled \/ Got(n).kind # "HDPRR" \/ Got(n).from # succ[n])
  /\ UNCHANGED <<tables, lost, budget>>

\* Sixteen bytes are read, and whatever has as many is taken for HDPRR.  What
\* it says about the successor's predecessor is logged, nothing more.
HelloReply(n) ==
  /\ Reads(n, "hello")
  /\ Size[Got(n).kind] >= 16
  /\ queue' = Rest(n)
  /\ Goes(n, "loop")
  /\ spoiled' = (spoiled \/ Got(n).kind # "HDPRR" \/ Got(n).from # succ[n])
  /\ UNCHANGED <<tables, lost, budget>>

\* AddToMesgBucket: the request is put aside, and processMsgBucket, which
\* reads its type in the wrong byte order, answers none.
HelloBucket(n) ==
  /\ Reads(n, "hello")
  /\ Size[Got(n).kind] < 16 /\ Got(n).kind # "HDPRQ"
  /\ queue' = Rest(n)
  /\ spoiled' = TRUE
  /\ UNCHANGED <<tables, at, lost, budget>>

\* ReBuildtheRing begins with UPDTQ, index 0, to the double successor.
HelloTimeout(n) ==
  /\ at[n] = "hello" /\ Quiet
  /\ dsucc[n] # NoNode
  /\ queue' = Sent(queue, dsucc[n], Dgram("UPDTQ", n, n, 0))
  /\ Goes(n, "upd0")
  /\ spoiled' = (spoiled \/ n = away \/ ~NextOf(Live, n, dsucc[n]))
  /\ UNCHANGED <<tables, lost, budget>>

\* Without a double successor nothing can be sent: the successor is lost too.
HelloTimeoutLost(n) ==
  /\ at[n] = "hello" /\ Quiet
  /\ dsucc[n] = NoNode
  /\ succ' = [succ EXCEPT ![n] = NoNode]
  /\ Goes(n, "loop")
  /\ UNCHANGED <<pred, dsucc, ft, queue, lost, budget, spoiled>>

----------------------------------------------------------------------------
(****************************************************************************)
(* ReBuildtheRing.                                                          *)
(****************************************************************************)

\* processHelloPredecessorMsg with the address of the node that was asked.
Astray(n, m) == IF Got(n).kind = "HDPRQ" THEN Sent(Rest(n), m, Plain("HDPRR", n)) ELSE Rest(n)

\* SUCCR's node becomes the double successor and the predecessor is told.
TellPred(n, q, d) ==
  /\ dsucc' = [dsucc EXCEPT ![n] = d]
  /\ queue' = Sent(q, pred[n], Dgram("UPDTQ", n, succ'[n], 100))
  /\ Goes(n, "upd100")

\* What comes first ends the wait for UPDTR, which nobody looks at.  The double
\* successor becomes the successor and is asked for its own.
RepairLink(n) ==
  /\ Reads(n, "upd0")
  /\ lost' = [lost EXCEPT ![n] = succ[n]]
  /\ succ' = [succ EXCEPT ![n] = dsucc[n]]
  /\ IF dsucc[n] = n
       THEN TellPred(n, Astray(n, dsucc[n]), n)
       ELSE /\ queue' = Sent(Astray(n, dsucc[n]), dsucc[n], Plain("SUCCQ", n))
            /\ Goes(n, "succq")
            /\ UNCHANGED dsucc
  /\ spoiled' = (spoiled \/ Got(n).kind # "UPDTR" \/ Got(n).from # dsucc[n])
  /\ UNCHANGED <<pred, ft, budget>>

\* Mutant: SUCCR's node becomes the successor.
RepairDoubleSucc(n) ==
  /\ Reads(n, "succq")
  /\ Got(n).kind = "SUCCR" /\ Got(n).from = succ[n]
  /\ succ' = [succ EXCEPT ![n] = Got(n).node]
  /\ TellPred(n, Rest(n), Got(n).node)
  /\ UNCHANGED <<pred, ft, lost, budget, spoiled>>

\* SUCCR.
RepairDouble(n) ==
  /\ Reads(n, "succq")
  /\ Got(n).kind = "SUCCR" /\ Got(n).from = succ[n]
  /\ UNCHANGED succ
  /\ TellPred(n, Rest(n), Got(n).node)
  /\ UNCHANGED <<pred, ft, lost, budget, spoiled>>

\* A hello query: the wait is over, with no double successor.
RepairDoubleUnset(n) ==
  /\ Reads(n, "succq")
  /\ Got(n).kind = "HDPRQ"
  /\ UNCHANGED succ
  /\ TellPred(n, Astray(n, succ[n]), NoNode)
  /\ spoiled' = TRUE
  /\ UNCHANGED <<pred, ft, lost, budget>>

\* Mutant: the fingers get the double successor.
RepairFingersDouble(n) ==
  /\ Reads(n, "upd100")
  /\ Got(n) = Dgram("UPDTR", pred[n], succ[n], 100)
  /\ ft' = [ft EXCEPT ![n] = Renamed(n, lost[n], dsucc[n])]
  /\ queue' = Sent(Rest(n), succ[n], Dgram("PRCQM", n, succ[n], lost[n]))
  /\ Goes(n, "prcq")
  /\ UNCHANGED <<succ, pred, dsucc, lost, budget, spoiled>>

\* The predecessor's UPDTR: the fingers, and PRCQM to the new successor.
RepairFingers(n) ==
  /\ Reads(n, "upd100")
  /\ Got(n) = Dgram("UPDTR", pred[n], succ[n], 100)
  /\ ft' = [ft EXCEPT ![n] = Renamed(n, lost[n], succ[n])]
  /\ queue' = Sent(Rest(n), succ[n], Dgram("PRCQM", n, succ[n], lost[n]))
  /\ Goes(n, "prcq")
  /\ UNCHANGED <<succ, pred, dsucc, lost, budget, spoiled>>

\* Anything else and the rest of the repair is left undone.
RepairFails(n) ==
  /\ \/ /\ Reads(n, "succq")
        /\ Got(n).kind # "HDPRQ" /\ ~(Got(n).kind = "SUCCR" /\ Got(n).from = succ[n])
        /\ queue' = Rest(n)
     \/ /\ Reads(n, "upd100")
        /\ Got(n) # Dgram("UPDTR", pred[n], succ[n], 100)
        /\ queue' = Astray(n, pred[n])
  /\ Goes(n, "loop")
  /\ spoiled' = TRUE
  /\ UNCHANGED <<tables, lost, budget>>

\* PRCRM, or what is taken for it.
RepairDone(n) ==
  /\ Reads(n, "prcq")
  /\ queue' = Rest(n)
  /\ Goes(n, "loop")
  /\ spoiled' = (spoiled \/ Got(n).kind # "PRCRM")
  /\ UNCHANGED <<tables, lost, budget>>

----------------------------------------------------------------------------
(****************************************************************************)
(* The manager's jobs.                                                      *)
(****************************************************************************)

\* Nothing happens any more but hellos that are answered.
Steady ==
  /\ Quiet
  /\ \A n \in Node : at[n] # "hello"
  /\ \A n \in Node : at[n] = "loop" /\ succ[n] # NoNode => at[succ[n]] = "loop"

\* Jobs are given one at a time, a minute after a kill.
JobDue ==
  /\ at[First] = "loop"
  /\ kills < Kills => Steady

Kill(x) ==
  /\ JobDue
  /\ kills > 0 /\ kills' = kills - 1
  /\ at[x] = "loop" /\ x \notin {First, away}
  /\ Goes(x, "dead")
  /\ queue' = [queue EXCEPT ![x] = <<>>]
  /\ UNCHANGED <<tables, lost, away, asks, spoiled>>

\* CLSTQ of a lookup, or STORQ, to a node some finger names.
Ask(m) ==
  /\ JobDue
  /\ asks > 0 /\ asks' = asks - 1
  /\ m # First
  /\ \E n \in Live, i \in Finger : ft[n][i] = m
  /\ \/ queue' = Sent(queue, m, Plain("CLSTQ", First)) /\ Goes(First, "closest")
     \/ queue' = Sent(queue, m, Plain("STORQ", First)) /\ Goes(First, "store")
  /\ UNCHANGED <<tables, lost, away, kills, spoiled>>

\* Anything but the answer and the client leaves its loop.
AskEnds ==
  /\ Reads(First, "closest") \/ Reads(First, "store")
  /\ IF Got(First).kind = (IF at[First] = "store" THEN "STORR" ELSE "CLSTR")
       THEN Goes(First, "loop") /\ queue' = Rest(First) /\ UNCHANGED spoiled
       ELSE Exits(First) /\ spoiled' = TRUE
  /\ UNCHANGED <<tables, lost, budget>>

----------------------------------------------------------------------------

Receive(n) ==
  \/ AnswerHello(n) \/ AnswerQuery(n) \/ TakeUpdate(n)
  \/ Preempt(n) \/ PreemptEnd(n) \/ Forwarded(n) \/ Unexpected(n)
  \/ HelloReply(n) \/ HelloBucket(n)
  \/ RepairLink(n) \/ RepairDouble(n) \/ RepairDoubleUnset(n)
  \/ RepairFingers(n) \/ RepairFails(n) \/ RepairDone(n)
  \/ n = First /\ AskEnds

Timeout(n) == HelloTimeout(n) \/ HelloTimeoutLost(n)

RepairNext ==
  \/ \E n \in Node : Receive(n) \/ Hello(n) \/ Timeout(n)
  \/ \E x \in Node : Kill(x) \/ Ask(x)

\* A client reads its socket; its timer fires again and again; and two seconds
\* without a datagram do pass, because hellos are ten apart.
RepairFairness ==
  /\ \A n \in Node : WF_vars(Receive(n)) /\ WF_vars(Hello(n)) /\ SF_vars(Timeout(n))
  /\ []<>HellosPass

RepairSpec == RepairInit /\ [][RepairNext]_vars /\ RepairFairness

----------------------------------------------------------------------------

\* The ring of the clients that are up is as good as after the joins: the
\* neighbours, the double successors (no leave repairs these, so not after one)
\* and the fingers.
RingRight ==
  \A n \in Live :
     /\ NextOf(Live, n, succ[n])
     /\ PrevOf(Live, n, pred[n])
     /\ away = NoNode => dsucc[n] = succ[succ[n]]
     /\ \A i \in Finger : OwnerOf(Live, FingerStart(n, i), ft[n][i])

\* As long as nobody is killed and no job runs, hellos disturb nothing: in any
\* interleaving of the clients' timers, queries that cross each other and
\* answers, no wait takes a datagram that was not for it (client.c:3249-3352).
HellosHarmless == kills = Kills /\ asks = Asks => ~spoiled

\* What stage6.README.txt says of a timeout: the successor is down.
TimeoutMeansDown == [][\A n \in Node : Timeout(n) => ~Up(succ[n])]_vars

\* As long as no receive has taken a datagram that was not for it, a timeout
\* does mean that (client.c:3354-3388), kills, repairs by others and hellos
\* sent before the kill notwithstanding.
TimeoutMeansDead == [][\A n \in Node : Timeout(n) /\ ~spoiled => ~Up(succ[n])]_vars

\* In the middle of repairs, of several at a time too, each client's successor
\* is the next client that is up, or one that is no more and stood in between
\* (client.c:3389-3403): the repair never loses a client that is alive.
NobodyPassedOver ==
  ~spoiled => \A n \in Live :
     NextOf(Live, n, succ[n]) \/ (~Up(succ[n]) /\ NextOf(Live \cup {succ[n]}, n, succ[n]))

\* When a repair begins, with every answer so far taken for what it is, the node
\* it is about to link is the next client that is up, whatever repairs of other
\* clients are under way and have yet to tell their predecessors
\* (client.c:3389-3398).  After a leave two clients may be wrong: the one that
\* still names the client that has left, and the one before that client, whose
\* double successor has become its successor.
RepairStartsRight ==
  [][\A n \in Live : HelloTimeout(n) /\ ~spoiled =>
        NextOf(Live, n, dsucc[n]) \/ (away # NoNode /\ dsucc[n] \in {away, succ[n]})]_vars

\* After each kill the ring becomes right again, neighbours, double successors
\* and all fingers, and everybody is back in the select loop (stage 6, section
\* 6.3), unless some receive took a datagram that was not for it.
RepairHeals ==
  LET Healed == RingRight /\ \A n \in Node : at[n] \in {"loop", "hello", "dead"}
  IN  ~Healed ~> (Healed \/ spoiled)

\* Of the comments at client.c:3377, "This function rebuilds the ring on the
\* exit of a node", and 3383: after a kill the clients that are up know their
\* neighbours and the owners of their fingers again.
RingRebuilt == ~RingRight ~> RingRight
==============================================================================

-------------------------- MODULE TriadRepairProofs --------------------------
(****************************************************************************)
(* Hello messages and repairs, for every circle, every set of clients and   *)
(* any number of kills and of the manager's other jobs: hellos alone        *)
(* disturb nothing; and as long as no receive was mistaken and every repair *)
(* has begun with the right double successor (~spoiled), a timeout means a  *)
(* dead successor and no repair passes over a client that is up.            *)
(****************************************************************************)
EXTENDS TriadRepair, RingArithProofs

\* The datagrams q has for n.
Box(q, n) == {q[n][i] : i \in DOMAIN q[n]}

\* What a client can have sent: a new predecessor, and what fingers are renamed
\* to, is a client.
Sound == {d \in Datagram : (d.kind = "UPDTQ" /\ d.extra = 0) \/ d.kind = "PRCQM"
                              => d.node \in Node}
Queues == [Node -> Seq(Sound)]

RepairTypes ==
  /\ RepairTypeOK
  /\ queue \in Queues
  /\ \A n \in Node :
        /\ at[n] \in Repairing \cup {"hello"} => succ[n] \in Node
        /\ at[n] = "upd0" => dsucc[n] \in Node

\* The hello n waits for is on its way, there or back, if its successor is up.
HelloUnderway(n) ==
  \/ Plain("HDPRQ", n) \in Box(queue, succ[n])
  \/ Plain("HDPRR", succ[n]) \in Box(queue, n)

HellosUnderway ==
  ~spoiled => \A n \in Node : at[n] = "hello" /\ Up(succ[n]) => HelloUnderway(n)

\* Before the first job there are hellos and nothing else.
IsHello(n, d) ==
  \/ d.kind = "HDPRQ" /\ succ[d.from] = n
  \/ d.kind = "HDPRR" /\ d.from = succ[n]

OnlyHellos ==
  kills = Kills /\ asks = Asks =>
    /\ ~spoiled
    /\ \A n \in Node :
         /\ at[n] \in {"loop", "hello"}
         /\ succ[n] \in Node
         /\ \A d \in Box(queue, n) : IsHello(n, d)

\* No client is without a successor, nor hears of one who is.
SuccessorsKnown ==
  ~spoiled => \A n \in Node :
    /\ succ[n] \in Node /\ dsucc[n] \in Node
    /\ \A d \in Box(queue, n) : d.kind \in {"UPDTQ", "SUCCR"} => d.node \in Node

\* The update with which n's repair begins is on its way, there or back.
UpdateUnderway(n) ==
  \/ Dgram("UPDTQ", n, n, 0) \in Box(queue, dsucc[n])
  \/ Dgram("UPDTR", dsucc[n], n, 0) \in Box(queue, n)

\* A repair begins at the next client that is up, and no job comes before its
\* first answer.
RepairsBegin ==
  ~spoiled => \A n \in Node :
    at[n] = "upd0" => n # away /\ NextOf(Live, n, dsucc[n]) /\ UpdateUnderway(n)

\* Before the first kill nobody is down and nothing is repaired.
NobodyKilled ==
  ~spoiled /\ kills = Kills => \A n \in Node : Up(n) /\ at[n] \notin Repairing

RepairInv ==
  /\ RepairTypes /\ HellosUnderway /\ OnlyHellos
  /\ SuccessorsKnown /\ RepairsBegin /\ NobodyKilled
  /\ NobodyPassedOver

----------------------------------------------------------------------------
(****************************************************************************)
(* Datagrams and queues.                                                    *)
(****************************************************************************)

LEMMA Kinds ==
  DOMAIN Size = {"HDPRQ", "SUCCQ", "CLSTQ", "HDPRR", "SUCCR", "STORQ", "STORR",
                 "UPDTQ", "PRCRM", "UPDTR", "PRCQM", "CLSTR"}
BY DEF Size

LEMMA Sizes ==
  /\ Size["HDPRQ"] = 8 /\ Size["SUCCQ"] = 8 /\ Size["CLSTQ"] = 12
  /\ Size["HDPRR"] = 16 /\ Size["PRCRM"] = 20 
BY DEF Size

\* What the handlers send is sound.
LEMMA SoundDgram ==
  ASSUME NEW k \in DOMAIN Size, NEW n \in Node, NEW x \in Node \cup {NoNode}, NEW y \in Nat,
         (k = "UPDTQ" /\ y = 0) \/ k = "PRCQM" => x \in Node
  PROVE  Dgram(k, n, x, y) \in Sound
BY DEF Dgram, Sound, Datagram

LEMMA SoundPlain ==
  ASSUME NEW k \in DOMAIN Size, NEW n \in Node, k \notin {"UPDTQ", "PRCQM"}
  PROVE  Plain(k, n) \in Sound
BY SoundDgram DEF Plain

LEMMA SoundParts ==
  ASSUME NEW d \in Sound
  PROVE  /\ d.kind \in DOMAIN Size /\ d.from \in Node
         /\ d.node \in Node \cup {NoNode} /\ d.extra \in Nat
         /\ d.kind = "UPDTQ" /\ d.extra = 0 => d.node \in Node
         /\ d.kind = "PRCQM" => d.node \in Node
BY DEF Sound, Datagram

\* Sent adds at most one datagram to one queue.
LEMMA Sending ==
  ASSUME NEW q \in Queues, NEW m, NEW d \in Sound
  PROVE  /\ Sent(q, m, d) \in Queues
         /\ \A k \in Node :
              /\ Box(q, k) \subseteq Box(Sent(q, m, d), k)
              /\ Box(Sent(q, m, d), k) \subseteq Box(q, k) \cup {d}
              /\ k # m => Box(Sent(q, m, d), k) = Box(q, k)
         /\ m \in Node /\ Up(m) => d \in Box(Sent(q, m, d), m)
<1>1. CASE m \in Node /\ Up(m)
  <2> DEFINE r == [q EXCEPT ![m] = Append(@, d)]
  <2>1. Sent(q, m, d) = r
    BY <1>1 DEF Sent
  <2>2. /\ q[m] \in Seq(Sound) /\ Append(q[m], d) \in Seq(Sound)
        /\ Len(Append(q[m], d)) = Len(q[m]) + 1
        /\ \A i \in 1 .. Len(q[m]) : Append(q[m], d)[i] = q[m][i]
        /\ Append(q[m], d)[Len(q[m]) + 1] = d
    BY <1>1 DEF Queues
  <2>3. r \in Queues /\ r[m] = Append(q[m], d) /\ \A k \in Node \ {m} : r[k] = q[k]
    BY <1>1, <2>2 DEF Queues
  <2>4. /\ DOMAIN q[m] = 1 .. Len(q[m]) /\ Len(q[m]) \in Nat
        /\ DOMAIN r[m] = 1 .. Len(q[m]) + 1
    BY <2>2, <2>3
  <2>5. Box(r, m) = Box(q, m) \cup {d}
    BY <2>2, <2>3, <2>4 DEF Box
  <2>6. \A k \in Node \ {m} : Box(r, k) = Box(q, k)
    BY <2>3 DEF Box
  <2> QED BY <2>1, <2>3, <2>5, <2>6
<1>2. CASE ~(m \in Node /\ Up(m))
  BY <1>2 DEF Sent
<1> QED BY <1>1, <1>2

\* A receive takes the first datagram of one queue.
LEMMA Taking ==
  ASSUME queue \in Queues, NEW n \in Node, queue[n] # <<>>
  PROVE  /\ Rest(n) \in Queues
         /\ Got(n) \in Sound /\ Got(n) \in Box(queue, n)
         /\ \A k \in Node :
              /\ Box(Rest(n), k) \subseteq Box(queue, k)
              /\ Box(queue, k) \subseteq Box(Rest(n), k) \cup {Got(n)}
              /\ k # n => Box(Rest(n), k) = Box(queue, k)
<1>1. /\ queue[n] \in Seq(Sound) /\ Tail(queue[n]) \in Seq(Sound)
      /\ Len(queue[n]) \in Nat \ {0} /\ Len(Tail(queue[n])) = Len(queue[n]) - 1
      /\ \A i \in 1 .. Len(queue[n]) - 1 : Tail(queue[n])[i] = queue[n][i + 1]
      /\ Got(n) = queue[n][1] /\ Got(n) \in Sound
  BY DEF Queues, Got
<1>2. /\ Rest(n) \in Queues /\ Rest(n)[n] = Tail(queue[n])
      /\ \A k \in Node \ {n} : Rest(n)[k] = queue[k]
  BY <1>1 DEF Queues, Rest
<1>3. /\ DOMAIN queue[n] = 1 .. Len(queue[n])
      /\ DOMAIN Rest(n)[n] = 1 .. Len(queue[n]) - 1
  BY <1>1, <1>2
<1>4. Got(n) \in Box(queue, n)
  BY <1>1, <1>3 DEF Box
<1>5. Box(Rest(n), n) \subseteq Box(queue, n)
  BY <1>1, <1>2, <1>3 DEF Box
<1>6. Box(queue, n) \subseteq Box(Rest(n), n) \cup {Got(n)}
  <2> SUFFICES ASSUME NEW i \in DOMAIN queue[n], i # 1
               PROVE  queue[n][i] \in Box(Rest(n), n)
    BY <1>1 DEF Box
  <2>1. i - 1 \in DOMAIN Rest(n)[n] /\ Rest(n)[n][i - 1] = queue[n][i]
    BY <1>1, <1>2, <1>3
  <2> QED BY <2>1 DEF Box
<1>7. \A k \in Node \ {n} : Box(Rest(n), k) = Box(queue, k)
  BY <1>2 DEF Box
<1> QED BY <1>1, <1>2, <1>4, <1>5, <1>6, <1>7

----------------------------------------------------------------------------
(****************************************************************************)
(* The initial states.                                                      *)
(****************************************************************************)

LEMMA FingerStartIsId ==
  ASSUME NEW n \in Node, NEW i \in Finger
  PROVE  FingerStart(n, i) \in Id
<1>1. 2 ^ (i - 1) \in Id /\ n \in Id
  BY RepairAssumption, HashMaxAssumption DEF Finger, Id
<1> QED BY <1>1, RingPlusMinus DEF FingerStart

\* What the ring has been built to: neighbours among those who have not left.
LEMMA RepairInitRight ==
  ASSUME RepairInit
  PROVE  /\ Live = Node \ {away}
         /\ succ \in [Node -> Node] /\ pred \in [Node -> Node] /\ dsucc \in [Node -> Node]
         /\ ft \in [Node -> [Finger -> Node]]
         /\ \A n \in Live : NextOf(Live, n, succ[n])
<1> DEFINE ring == Node \ {away}
           home(n) == IF n = away THEN Node ELSE ring
           nextOf(n) == CHOOSE s \in home(n) : NextOf(home(n), n, s)
           prevOf(n) == CHOOSE p \in home(n) : PrevOf(home(n), n, p)
           after(n) == CHOOSE s \in Node : NextOf(Node, n, s)
           finger(n, i) == CHOOSE s \in home(n) : OwnerOf(home(n), FingerStart(n, i), s)
<1>1. /\ succ = [n \in Node |-> nextOf(n)] /\ pred = [n \in Node |-> prevOf(n)]
      /\ dsucc = [n \in Node |-> after(after(n))]
      /\ ft = [n \in Node |-> [i \in Finger |-> finger(n, i)]]
      /\ at = [n \in Node |-> "loop"] /\ away \in Left
  BY DEF RepairInit
<1>2. Node \subseteq Id /\ away \in (Node \ {First}) \cup {NoNode} /\ First \in Node
  BY <1>1, RepairAssumption
<1>3. Live = ring
  BY <1>1 DEF Live, Up
<1>4. /\ \A n \in Node : home(n) \in SUBSET Id /\ home(n) \subseteq Node /\ n \in home(n)
      /\ \A n \in ring : home(n) = ring
  BY <1>2
<1> HIDE DEF home
<1>5. \A n \in Node : nextOf(n) \in home(n) /\ NextOf(home(n), n, nextOf(n))
  BY <1>4, NextExists
<1>6. \A n \in Node : prevOf(n) \in home(n)
  BY <1>4, PrevExists
<1>7. \A n \in Node : after(n) \in Node
  <2>1. Node \in SUBSET Id
    BY <1>2
  <2> QED BY <2>1, NextExists
<1>8. \A n \in Node, i \in Finger : finger(n, i) \in home(n)
  <2> SUFFICES ASSUME NEW n \in Node, NEW i \in Finger
               PROVE  \E s \in home(n) : OwnerOf(home(n), FingerStart(n, i), s)
    OBVIOUS
  <2> QED BY <1>4, FingerStartIsId, OwnerExists
<1> HIDE DEF nextOf, prevOf, after, finger
<1>9. \A n \in Node : nextOf(n) \in Node /\ prevOf(n) \in Node /\ after(after(n)) \in Node
  BY <1>4, <1>5, <1>6, <1>7
<1>10. \A n \in Node, i \in Finger : finger(n, i) \in Node
  BY <1>4, <1>8
<1>11. \A n \in ring : NextOf(ring, n, succ[n])
  <2> SUFFICES ASSUME NEW n \in ring PROVE NextOf(ring, n, succ[n])
    OBVIOUS
  <2>1. succ[n] = nextOf(n) /\ home(n) = ring
    BY <1>1, <1>4
  <2>2. NextOf(home(n), n, nextOf(n))
    BY <1>5
  <2> QED BY <2>1, <2>2
<1>12. succ \in [Node -> Node] /\ pred \in [Node -> Node] /\ dsucc \in [Node -> Node]
  BY <1>1, <1>9
<1>13. ft \in [Node -> [Finger -> Node]]
  BY <1>1, <1>10
<1> QED BY <1>3, <1>11, <1>12, <1>13

LEMMA RepairInvInit == RepairInit => RepairInv
<1> SUFFICES ASSUME RepairInit PROVE RepairInv
  OBVIOUS
<1>1. /\ at = [n \in Node |-> "loop"] /\ queue = [n \in Node |-> <<>>]
      /\ \A n \in Node : Up(n)
  BY DEF RepairInit, Up
<1>2. \A n \in Node : Box(queue, n) = {}
  BY <1>1 DEF Box
<1>3. RepairTypes
  <2>1. queue \in [Node -> Seq(Datagram)] /\ queue \in Queues
    BY <1>1 DEF Queues
  <2>2. at \in [Node -> Place] /\ lost \in [Node -> Node]
    BY <1>1 DEF RepairInit, Place
  <2>3. /\ succ \in [Node -> Node \cup {NoNode}] /\ pred \in [Node -> Node]
        /\ dsucc \in [Node -> Node \cup {NoNode}]
    BY RepairInitRight
  <2>4. /\ away \in Left /\ kills = Kills /\ asks = Asks /\ spoiled = FALSE
    BY DEF RepairInit
  <2>5. kills \in 0 .. Kills /\ asks \in 0 .. Asks
    BY <2>4, RepairAssumption
  <2> QED BY <1>1, <2>1, <2>2, <2>3, <2>4, <2>5, RepairInitRight
          DEF RepairTypes, RepairTypeOK, Repairing
<1>4. HellosUnderway /\ RepairsBegin /\ NobodyKilled
  BY <1>1 DEF HellosUnderway, RepairsBegin, NobodyKilled, Repairing
<1>5. OnlyHellos /\ SuccessorsKnown
  BY <1>1, <1>2, RepairInitRight DEF OnlyHellos, SuccessorsKnown, RepairInit
<1>6. NobodyPassedOver
  BY RepairInitRight DEF NobodyPassedOver
<1> QED BY <1>3, <1>4, <1>5, <1>6 DEF RepairInv

----------------------------------------------------------------------------
(****************************************************************************)
(* Types.                                                                   *)
(****************************************************************************)

\* A receive of n takes what it got, may send answers, and leaves the rest.
Kept(n) ==
  /\ queue' \in Queues
  /\ \A k \in Node : Up(k)' => /\ k # n => Box(queue, k) \subseteq Box(queue', k)
                               /\ Box(queue, k) \subseteq Box(queue', k) \cup {Got(n)}

LEMMA TakingAndSending ==
  ASSUME queue \in Queues, NEW n \in Node, queue[n] # <<>>, NEW m, NEW d \in Sound,
         queue' = Sent(Rest(n), m, d)
  PROVE  /\ Kept(n)
         /\ m \in Node /\ Up(m) => d \in Box(queue', m)
         /\ \A k \in Node : Box(queue', k) \subseteq Box(queue, k) \cup {d}
         /\ \A k \in Node \ {m} : Box(queue', k) \subseteq Box(queue, k)
<1>1. Rest(n) \in Queues
  BY Taking
<1> QED BY <1>1, Taking, Sending DEF Kept

LEMMA TakingOnly ==
  ASSUME queue \in Queues, NEW n \in Node, queue[n] # <<>>, queue' = Rest(n)
  PROVE  /\ Kept(n)
         /\ \A k \in Node : Box(queue', k) \subseteq Box(queue, k)
BY Taking DEF Kept

LEMMA Exiting ==
  ASSUME RepairTypes, NEW n \in Node, Exits(n)
  PROVE  /\ Kept(n)
         /\ \A k \in Node : Box(queue', k) \subseteq Box(queue, k)
<1>1. queue \in Queues /\ at \in [Node -> Place]
  BY DEF RepairTypes, RepairTypeOK
<1>2. /\ queue' = [queue EXCEPT ![n] = <<>>] /\ at' = [at EXCEPT ![n] = "exited"]
  BY DEF Exits, Goes
<1>3. queue' \in Queues /\ Box(queue', n) = {} /\ \A k \in Node \ {n} : queue'[k] = queue[k]
  BY <1>1, <1>2 DEF Queues, Box
<1>4. ~(Up(n)')
  BY <1>1, <1>2 DEF Up
<1> QED BY <1>3, <1>4 DEF Kept, Box

\* What Astray leaves in the queues.
LEMMA GoingAstray ==
  ASSUME queue \in Queues, NEW n \in Node, queue[n] # <<>>, NEW m
  PROVE  /\ Astray(n, m) \in Queues
         /\ \A k \in Node :
              /\ k # n => Box(queue, k) \subseteq Box(Astray(n, m), k)
              /\ Box(queue, k) \subseteq Box(Astray(n, m), k) \cup {Got(n)}
              /\ Box(Astray(n, m), k) \subseteq Box(queue, k) \cup {Plain("HDPRR", n)}
<1>1. Plain("HDPRR", n) \in Sound
  BY SoundPlain, Kinds
<1>2. CASE Got(n).kind = "HDPRQ"
  BY <1>1, <1>2, Taking, Sending DEF Astray
<1>3. CASE Got(n).kind # "HDPRQ"
  BY <1>3, Taking DEF Astray
<1> QED BY <1>2, <1>3

LEMMA NoNodeIsNone == NoNode \notin Node
BY RepairAssumption, HashMaxAssumption DEF NoNode, Id

\* Everything a client reads is answered by sound datagrams, and nobody else's
\* are lost.
LEMMA Receiving ==
  ASSUME RepairTypes, NEW n \in Node, Receive(n)
  PROVE  queue[n] # <<>> /\ Kept(n)
<1>1. /\ queue \in Queues /\ at \in [Node -> Place]
      /\ succ \in [Node -> Node \cup {NoNode}] /\ pred \in [Node -> Node]
      /\ dsucc \in [Node -> Node \cup {NoNode}] /\ lost \in [Node -> Node]
      /\ at[n] \in Repairing => succ[n] \in Node
      /\ at[n] = "upd0" => dsucc[n] \in Node
  BY DEF RepairTypes, RepairTypeOK
<1>2. queue[n] # <<>>
  BY RepairAssumption DEF Receive, Reads, AnswerHello, AnswerQuery, TakeUpdate, Preempt, PreemptEnd,
     Forwarded, Unexpected, HelloReply, HelloBucket, RepairLink, RepairDouble,
     RepairDoubleUnset, RepairFingers, RepairFails, RepairDone, AskEnds
<1>3. /\ Got(n) \in Sound /\ Got(n).from \in Node /\ Got(n).node \in Node \cup {NoNode}
      /\ Got(n).kind = "UPDTQ" /\ Got(n).extra = 0 => Got(n).node \in Node
      /\ Got(n).kind = "PRCQM" => Got(n).node \in Node
      /\ Got(n).extra \in Nat
  BY <1>1, <1>2, Taking, SoundParts
<1>4. /\ Plain("HDPRR", n) \in Sound /\ Plain("CLSTR", n) \in Sound
      /\ Plain("STORR", n) \in Sound /\ Plain("PRCRM", n) \in Sound
      /\ Plain("SUCCQ", n) \in Sound
  BY SoundPlain, Kinds
<1>5. CASE AnswerHello(n)
  BY <1>1, <1>2, <1>4, <1>5, TakingAndSending DEF AnswerHello
<1>6. CASE AnswerQuery(n)
  <2>1. Dgram("SUCCR", n, succ[n], 0) \in Sound
    BY <1>1, SoundDgram, Kinds
  <2> QED BY <1>1, <1>2, <1>4, <1>6, <2>1, TakingAndSending DEF AnswerQuery
<1>7. CASE TakeUpdate(n)
  <2>1. Dgram("UPDTR", n, Got(n).node, Got(n).extra) \in Sound
    BY <1>3, SoundDgram, Kinds
  <2> QED BY <1>1, <1>2, <1>7, <2>1, TakingAndSending DEF TakeUpdate
<1>8. CASE Preempt(n)
  <2> DEFINE q == Sent(Rest(n), Got(n).from, Plain("PRCRM", n))
             d == Dgram("PRCQM", n, Got(n).node, Got(n).extra)
  <2>1. d \in Sound
    BY <1>3, <1>8, SoundDgram, Kinds DEF Preempt
  <2>2. queue' = Sent(q, succ[n], d)
    BY <1>8 DEF Preempt
  <2>3. /\ q \in Queues
        /\ \A k \in Node : Box(Rest(n), k) \subseteq Box(q, k)
    BY <1>1, <1>2, <1>4, Taking, Sending
  <2> HIDE DEF q, d
  <2>4. /\ queue' \in Queues
        /\ \A k \in Node : Box(q, k) \subseteq Box(queue', k)
    BY <2>1, <2>2, <2>3, Sending
  <2> QED BY <1>1, <1>2, <2>3, <2>4, Taking DEF Kept
<1>9. CASE PreemptEnd(n)
  BY <1>1, <1>2, <1>4, <1>9, TakingAndSending DEF PreemptEnd
<1>10. CASE Forwarded(n)
  BY <1>1, <1>2, <1>10, TakingOnly, Exiting DEF Forwarded
<1>11. CASE Unexpected(n) \/ HelloReply(n) \/ HelloBucket(n) \/ RepairDone(n)
  BY <1>1, <1>2, <1>11, TakingOnly DEF Unexpected, HelloReply, HelloBucket, RepairDone
<1>12. CASE RepairLink(n)
  <2> DEFINE q == Astray(n, dsucc[n])
  <2>1. /\ q \in Queues
        /\ \A k \in Node : /\ k # n => Box(queue, k) \subseteq Box(q, k)
                           /\ Box(queue, k) \subseteq Box(q, k) \cup {Got(n)}
    BY <1>1, <1>2, GoingAstray
  <2>2. dsucc[n] \in Node /\ succ'[n] = dsucc[n]
    BY <1>1, <1>12 DEF RepairLink, Reads
  <2>3. Dgram("UPDTQ", n, succ'[n], 100) \in Sound
    BY <2>2, SoundDgram, Kinds
  <2>4. \/ queue' = Sent(q, pred[n], Dgram("UPDTQ", n, succ'[n], 100))
        \/ queue' = Sent(q, dsucc[n], Plain("SUCCQ", n))
    BY <1>12 DEF RepairLink, TellPred
  <2> HIDE DEF q
  <2>5. /\ queue' \in Queues
        /\ \A k \in Node : Box(q, k) \subseteq Box(queue', k)
    BY <1>4, <2>1, <2>3, <2>4, Sending
  <2> QED BY <1>1, <1>2, <2>1, <2>5 DEF Kept
<1>13. CASE RepairDouble(n)
  <2>1. Dgram("UPDTQ", n, succ'[n], 100) \in Sound
    BY <1>1, <1>13, SoundDgram, Kinds DEF RepairDouble, Reads, Repairing
  <2>2. queue' = Sent(Rest(n), pred[n], Dgram("UPDTQ", n, succ'[n], 100))
    BY <1>13 DEF RepairDouble, TellPred
  <2> QED BY <1>1, <1>2, <2>1, <2>2, TakingAndSending
<1>14. CASE RepairDoubleUnset(n)
  <2> DEFINE q == Astray(n, succ[n])
  <2>1. /\ q \in Queues
        /\ \A k \in Node : /\ k # n => Box(queue, k) \subseteq Box(q, k)
                           /\ Box(queue, k) \subseteq Box(q, k) \cup {Got(n)}
    BY <1>1, <1>2, GoingAstray
  <2>2. Dgram("UPDTQ", n, succ'[n], 100) \in Sound
    BY <1>1, <1>14, SoundDgram, Kinds DEF RepairDoubleUnset, Reads, Repairing
  <2>3. queue' = Sent(q, pred[n], Dgram("UPDTQ", n, succ'[n], 100))
    BY <1>14 DEF RepairDoubleUnset, TellPred
  <2> HIDE DEF q
  <2>4. /\ queue' \in Queues
        /\ \A k \in Node : Box(q, k) \subseteq Box(queue', k)
    BY <2>1, <2>2, <2>3, Sending
  <2> QED BY <1>1, <1>2, <2>1, <2>4 DEF Kept
<1>15. CASE RepairFingers(n)
  <2>1. Dgram("PRCQM", n, succ[n], lost[n]) \in Sound
    <3>1. at[n] = "upd100"
      BY <1>15 DEF RepairFingers, Reads
    <3>2. succ[n] \in Node /\ lost[n] \in Node
      BY <1>1, <3>1 DEF Repairing
    <3>3. Node \subseteq Nat
      BY RepairAssumption, HashMaxAssumption DEF Id
    <3> QED BY <3>2, <3>3, SoundDgram, Kinds
  <2> QED BY <1>1, <1>2, <1>15, <2>1, TakingAndSending DEF RepairFingers
<1>16. CASE RepairFails(n)
  <2>1. queue' = Rest(n) \/ queue' = Astray(n, pred[n])
    BY <1>16 DEF RepairFails
  <2> QED BY <1>1, <1>2, <2>1, TakingOnly, GoingAstray DEF Kept
<1>17. CASE n = First /\ AskEnds
  BY <1>1, <1>2, <1>17, TakingOnly, Exiting DEF AskEnds
<1> QED BY <1>2, <1>5, <1>6, <1>7, <1>8, <1>9, <1>10, <1>11, <1>12, <1>13, <1>14,
           <1>15, <1>16, <1>17 DEF Receive

\* A successor a client waits for, or repairs, is one; the double successor a
\* repair begins with is one.
TablesTyped ==
  /\ succ \in [Node -> Node \cup {NoNode}] /\ pred \in [Node -> Node]
  /\ dsucc \in [Node -> Node \cup {NoNode}] /\ ft \in [Node -> [Finger -> Node]]
  /\ at \in [Node -> Place] /\ lost \in [Node -> Node] /\ spoiled \in BOOLEAN
  /\ \A n \in Node : /\ at[n] \in Repairing \cup {"hello"} => succ[n] \in Node
                     /\ at[n] = "upd0" => dsucc[n] \in Node

LEMMA RenamedTyped ==
  ASSUME ft \in [Node -> [Finger -> Node]], NEW n \in Node, NEW x, NEW y \in Node
  PROVE  [ft EXCEPT ![n] = Renamed(n, x, y)] \in [Node -> [Finger -> Node]]
BY DEF Renamed

LEMMA Moving ==
  ASSUME at \in [Node -> Place], NEW n \in Node, NEW p \in Place, Goes(n, p)
  PROVE  at' \in [Node -> Place] /\ at'[n] = p /\ \A k \in Node \ {n} : at'[k] = at[k]
BY DEF Goes

LEMMA Places ==
  /\ {"loop", "hello", "forward", "closest", "store", "dead", "exited"} \subseteq Place
  /\ Repairing \subseteq Place
  /\ {"loop", "hello", "forward", "closest", "store", "dead", "exited"} \cap Repairing = {}
  /\ {"upd0", "succq", "upd100", "prcq"} \subseteq Repairing
BY DEF Place, Repairing

LEMMA ReceiveTyped ==
  ASSUME RepairTypes, NEW n \in Node, Receive(n)
  PROVE  TablesTyped' /\ UNCHANGED budget
<1>1. /\ TablesTyped /\ spoiled \in BOOLEAN /\ First \in Node /\ at \in [Node -> Place]
      /\ ft \in [Node -> [Finger -> Node]]
  BY RepairAssumption DEF RepairTypes, RepairTypeOK, TablesTyped
<1>2. /\ Got(n).from \in Node /\ Got(n).node \in Node \cup {NoNode}
      /\ Got(n).kind = "UPDTQ" /\ Got(n).extra = 0 => Got(n).node \in Node
      /\ Got(n).kind = "PRCQM" => Got(n).node \in Node
  BY Receiving, Taking, SoundParts DEF RepairTypes
<1>3. CASE AnswerHello(n) \/ AnswerQuery(n) \/ PreemptEnd(n) \/ Unexpected(n) \/ HelloBucket(n)
  <2>1. UNCHANGED <<tables, at, lost, budget>> /\ spoiled' \in BOOLEAN
    BY <1>1, <1>3 DEF AnswerHello, AnswerQuery, PreemptEnd, Unexpected, HelloBucket
  <2> QED BY <1>1, <2>1 DEF TablesTyped, tables
<1>4. CASE TakeUpdate(n)
  <2>1. /\ UNCHANGED <<succ, ft, at, lost, budget, spoiled>> /\ at[n] = "loop"
        /\ \/ pred' = [pred EXCEPT ![n] = Got(n).node] /\ dsucc' = dsucc /\ Got(n).node \in Node
           \/ pred' = pred /\ dsucc' = [dsucc EXCEPT ![n] = Got(n).node]
    BY <1>2, <1>4 DEF TakeUpdate, Reads
  <2>2. pred' \in [Node -> Node]
    BY <1>1, <2>1 DEF TablesTyped
  <2>3. /\ dsucc' \in [Node -> Node \cup {NoNode}]
        /\ \A k \in Node \ {n} : dsucc'[k] = dsucc[k]
    BY <1>1, <1>2, <2>1 DEF TablesTyped
  <2> QED BY <1>1, <2>1, <2>2, <2>3 DEF TablesTyped
<1>5. CASE Preempt(n)
  <2>1. Got(n).node \in Node
    BY <1>2, <1>5 DEF Preempt
  <2>2. ft' \in [Node -> [Finger -> Node]]
    BY <1>1, <1>5, <2>1, RenamedTyped DEF Preempt
  <2>3. /\ Goes(n, "forward") /\ UNCHANGED <<succ, pred, dsucc, lost, budget, spoiled>>
    BY <1>5 DEF Preempt
  <2> QED BY <1>1, <2>2, <2>3, Moving, Places DEF TablesTyped
<1>6. CASE Forwarded(n) \/ HelloReply(n) \/ RepairDone(n) \/ RepairFails(n)
           \/ (n = First /\ AskEnds)
  <2>1. Goes(n, "loop") \/ Goes(n, "exited")
    BY <1>6 DEF Forwarded, HelloReply, RepairDone, RepairFails, AskEnds, Exits
  <2>2. /\ UNCHANGED <<tables, lost, budget>> /\ spoiled' \in BOOLEAN
    BY <1>1, <1>6 DEF Forwarded, HelloReply, RepairDone, RepairFails, AskEnds
  <2>3. /\ at' \in [Node -> Place] /\ at'[n] \in {"loop", "exited"}
        /\ \A k \in Node \ {n} : at'[k] = at[k]
    BY <1>1, <2>1, Moving, Places
  <2> QED BY <1>1, <2>2, <2>3, Places DEF TablesTyped, tables
<1>7. CASE RepairLink(n)
  <2>1. at[n] = "upd0" /\ succ[n] \in Node /\ dsucc[n] \in Node
    BY <1>1, <1>7, Places DEF RepairLink, Reads, TablesTyped
  <2>2. Goes(n, "upd100") \/ Goes(n, "succq")
    BY <1>7 DEF RepairLink, TellPred
  <2>3. dsucc' = dsucc \/ dsucc' = [dsucc EXCEPT ![n] = n]
    BY <1>7 DEF RepairLink, TellPred
  <2>4. /\ succ' = [succ EXCEPT ![n] = dsucc[n]] /\ lost' = [lost EXCEPT ![n] = succ[n]]
        /\ UNCHANGED <<pred, ft, budget>> /\ spoiled' \in BOOLEAN
    BY <1>1, <1>7 DEF RepairLink
  <2>5. /\ at' \in [Node -> Place] /\ at'[n] # "upd0"
        /\ \A k \in Node \ {n} : at'[k] = at[k]
    BY <1>1, <2>2, Moving, Places
  <2>6. /\ succ' \in [Node -> Node \cup {NoNode}] /\ succ'[n] \in Node
        /\ \A k \in Node \ {n} : succ'[k] = succ[k]
    BY <1>1, <2>1, <2>4 DEF TablesTyped
  <2>7. /\ dsucc' \in [Node -> Node \cup {NoNode}]
        /\ \A k \in Node \ {n} : dsucc'[k] = dsucc[k]
    BY <1>1, <2>3 DEF TablesTyped
  <2>8. lost' \in [Node -> Node]
    BY <1>1, <2>1, <2>4 DEF TablesTyped
  <2> QED BY <1>1, <2>4, <2>5, <2>6, <2>7, <2>8 DEF TablesTyped
<1>8. CASE RepairDouble(n) \/ RepairDoubleUnset(n)
  <2>1. /\ Goes(n, "upd100") /\ at[n] = "succq"
        /\ dsucc' = [dsucc EXCEPT ![n] = Got(n).node] \/ dsucc' = [dsucc EXCEPT ![n] = NoNode]
        /\ UNCHANGED <<succ, pred, ft, lost, budget>> /\ spoiled' \in BOOLEAN
    BY <1>1, <1>8 DEF RepairDouble, RepairDoubleUnset, TellPred, Reads
  <2>2. /\ at' \in [Node -> Place] /\ at'[n] = "upd100"
        /\ \A k \in Node \ {n} : at'[k] = at[k]
    BY <1>1, <2>1, Moving, Places
  <2>3. /\ dsucc' \in [Node -> Node \cup {NoNode}]
        /\ \A k \in Node \ {n} : dsucc'[k] = dsucc[k]
    BY <1>1, <1>2, <2>1 DEF TablesTyped
  <2>4. succ[n] \in Node
    BY <1>1, <2>1, Places DEF TablesTyped
  <2> QED BY <1>1, <2>1, <2>2, <2>3, <2>4 DEF TablesTyped
<1>9. CASE RepairFingers(n)
  <2>1. at[n] = "upd100" /\ succ[n] \in Node
    BY <1>1, <1>9, Places DEF RepairFingers, Reads, TablesTyped
  <2>2. ft' \in [Node -> [Finger -> Node]]
    BY <1>1, <1>9, <2>1, RenamedTyped DEF RepairFingers
  <2>3. Goes(n, "prcq") /\ UNCHANGED <<succ, pred, dsucc, lost, budget, spoiled>>
    BY <1>9 DEF RepairFingers
  <2>4. /\ at' \in [Node -> Place] /\ at'[n] = "prcq"
        /\ \A k \in Node \ {n} : at'[k] = at[k]
    BY <1>1, <2>3, Moving, Places
  <2> QED BY <1>1, <2>1, <2>2, <2>3, <2>4 DEF TablesTyped
<1> QED BY <1>3, <1>4, <1>5, <1>6, <1>7, <1>8, <1>9 DEF Receive

\* What the timers and the manager send is sound, and only the queue of a
\* client that is killed is lost.
LEMMA Acting ==
  ASSUME RepairTypes, NEW n \in Node, Hello(n) \/ Timeout(n) \/ Kill(n) \/ Ask(n)
  PROVE  /\ queue' \in Queues
         /\ \A k \in Node : Up(k)' => Box(queue, k) \subseteq Box(queue', k)
         /\ Up(n)' => \A k \in Node : Up(k)' <=> Up(k)
<1>1. TablesTyped /\ queue \in Queues /\ First \in Node
  BY RepairAssumption DEF RepairTypes, RepairTypeOK, TablesTyped
<1>2. CASE Hello(n)
  <2>1. Plain("HDPRQ", n) \in Sound
    BY SoundPlain, Kinds
  <2>2. at' = [at EXCEPT ![n] = "hello"] /\ at[n] = "loop"
    BY <1>2 DEF Hello, Goes
  <2> QED BY <1>1, <1>2, <2>1, <2>2, Sending DEF Hello, Up, TablesTyped
<1>3. CASE HelloTimeout(n)
  <2>1. Dgram("UPDTQ", n, n, 0) \in Sound
    BY SoundDgram, Kinds
  <2>2. at' = [at EXCEPT ![n] = "upd0"] /\ at[n] = "hello"
    BY <1>3 DEF HelloTimeout, Goes
  <2> QED BY <1>1, <1>3, <2>1, <2>2, Sending DEF HelloTimeout, Up, TablesTyped
<1>4. CASE HelloTimeoutLost(n)
  BY <1>1, <1>4 DEF HelloTimeoutLost, Goes, Up, TablesTyped
<1>5. CASE Kill(n)
  <2>1. queue' = [queue EXCEPT ![n] = <<>>] /\ at' = [at EXCEPT ![n] = "dead"]
    BY <1>5 DEF Kill, Goes
  <2>2. queue' \in Queues /\ ~(Up(n)') /\ \A k \in Node \ {n} : queue'[k] = queue[k]
    BY <1>1, <2>1 DEF Queues, Up, TablesTyped
  <2> QED BY <2>2 DEF Box
<1>6. CASE Ask(n)
  <2>1. Plain("CLSTQ", First) \in Sound /\ Plain("STORQ", First) \in Sound
    BY <1>1, SoundPlain, Kinds
  <2>2. at[First] = "loop" /\ (at' = [at EXCEPT ![First] = "closest"]
                               \/ at' = [at EXCEPT ![First] = "store"])
    BY <1>6 DEF Ask, JobDue, Goes
  <2>3. \A k \in Node : Up(k)' <=> Up(k)
    BY <1>1, <2>2 DEF Up, TablesTyped
  <2> QED BY <1>1, <1>6, <2>1, <2>3, Sending DEF Ask
<1> QED BY <1>2, <1>3, <1>4, <1>5, <1>6 DEF Timeout

LEMMA ActTyped ==
  ASSUME RepairTypes, NEW n \in Node, Hello(n) \/ Timeout(n) \/ Kill(n) \/ Ask(n)
  PROVE  /\ TablesTyped' /\ away' = away
         /\ kills' \in 0 .. Kills /\ asks' \in 0 .. Asks
<1>1. /\ TablesTyped /\ First \in Node /\ at \in [Node -> Place]
      /\ kills \in 0 .. Kills /\ asks \in 0 .. Asks
  BY RepairAssumption DEF RepairTypes, RepairTypeOK, TablesTyped
<1>2. CASE Hello(n)
  <2>1. /\ Goes(n, "hello") /\ succ[n] # NoNode
        /\ UNCHANGED <<succ, pred, dsucc, ft, lost, away, kills, asks, spoiled>>
    BY <1>2 DEF Hello, tables, budget
  <2>2. succ[n] \in Node
    BY <1>1, <2>1 DEF TablesTyped
  <2>3. /\ at' \in [Node -> Place] /\ at'[n] = "hello"
        /\ \A k \in Node \ {n} : at'[k] = at[k]
    BY <1>1, <2>1, Moving, Places
  <2> QED BY <1>1, <2>1, <2>2, <2>3 DEF TablesTyped
<1>3. CASE HelloTimeout(n)
  <2>1. /\ Goes(n, "upd0") /\ dsucc[n] # NoNode /\ at[n] = "hello"
        /\ UNCHANGED <<succ, pred, dsucc, ft, lost, away, kills, asks>>
        /\ spoiled' \in BOOLEAN
    BY <1>1, <1>3 DEF HelloTimeout, tables, budget, TablesTyped
  <2>2. succ[n] \in Node /\ dsucc[n] \in Node
    BY <1>1, <2>1 DEF TablesTyped
  <2>3. /\ at' \in [Node -> Place] /\ at'[n] = "upd0"
        /\ \A k \in Node \ {n} : at'[k] = at[k]
    BY <1>1, <2>1, Moving, Places
  <2> QED BY <1>1, <2>1, <2>2, <2>3 DEF TablesTyped
<1>4. CASE HelloTimeoutLost(n)
  <2>1. /\ Goes(n, "loop") /\ succ' = [succ EXCEPT ![n] = NoNode]
        /\ UNCHANGED <<pred, dsucc, ft, lost, away, kills, asks, spoiled>>
    BY <1>4 DEF HelloTimeoutLost, budget
  <2>2. /\ succ' \in [Node -> Node \cup {NoNode}]
        /\ \A k \in Node \ {n} : succ'[k] = succ[k]
    BY <1>1, <2>1 DEF TablesTyped
  <2>3. /\ at' \in [Node -> Place] /\ at'[n] = "loop"
        /\ \A k \in Node \ {n} : at'[k] = at[k]
    BY <1>1, <2>1, Moving, Places
  <2> QED BY <1>1, <2>1, <2>2, <2>3, Places DEF TablesTyped
<1>5. CASE Kill(n)
  <2>1. /\ Goes(n, "dead") /\ kills > 0 /\ kills' = kills - 1
        /\ UNCHANGED <<succ, pred, dsucc, ft, lost, away, asks, spoiled>>
    BY <1>5 DEF Kill, tables
  <2>2. kills' \in 0 .. Kills
    BY <1>1, <2>1, RepairAssumption
  <2>3. /\ at' \in [Node -> Place] /\ at'[n] = "dead"
        /\ \A k \in Node \ {n} : at'[k] = at[k]
    BY <1>1, <2>1, Moving, Places
  <2> QED BY <1>1, <2>1, <2>2, <2>3, Places DEF TablesTyped
<1>6. CASE Ask(n)
  <2>1. /\ Goes(First, "closest") \/ Goes(First, "store")
        /\ asks > 0 /\ asks' = asks - 1
        /\ UNCHANGED <<succ, pred, dsucc, ft, lost, away, kills, spoiled>>
    BY <1>6 DEF Ask, tables
  <2>2. asks' \in 0 .. Asks
    BY <1>1, <2>1, RepairAssumption
  <2>3. /\ at' \in [Node -> Place] /\ at'[First] \in {"closest", "store"}
        /\ \A k \in Node \ {First} : at'[k] = at[k]
    BY <1>1, <2>1, Moving, Places
  <2> QED BY <1>1, <2>1, <2>2, <2>3, Places DEF TablesTyped
<1> QED BY <1>2, <1>3, <1>4, <1>5, <1>6 DEF Timeout

LEMMA QueuesTyped == Queues \subseteq [Node -> Seq(Datagram)]
<1>1. ASSUME NEW s \in Seq(Sound) PROVE s \in Seq(Datagram)
  <2>1. \A i \in 1 .. Len(s) : s[i] \in Datagram
    BY DEF Sound
  <2> QED BY <2>1
<1> QED BY <1>1 DEF Queues

LEMMA RepairTypesStep == RepairTypes /\ [RepairNext]_vars => RepairTypes'
<1> SUFFICES ASSUME RepairTypes, [RepairNext]_vars PROVE RepairTypes'
  OBVIOUS
<1>1. TablesTyped /\ queue \in Queues /\ away \in Left /\ kills \in 0 .. Kills /\ asks \in 0 .. Asks
  BY DEF RepairTypes, RepairTypeOK, TablesTyped
<1>2. /\ TablesTyped' /\ queue' \in Queues
      /\ away' = away /\ kills' \in 0 .. Kills /\ asks' \in 0 .. Asks
  <2>1. ASSUME NEW n \in Node, Receive(n)
        PROVE  /\ TablesTyped' /\ queue' \in Queues
               /\ away' = away /\ kills' = kills /\ asks' = asks
    BY <2>1, Receiving, ReceiveTyped DEF Kept, budget
  <2>2. ASSUME NEW n \in Node, Hello(n) \/ Timeout(n) \/ Kill(n) \/ Ask(n)
        PROVE  /\ TablesTyped' /\ queue' \in Queues
               /\ away' = away /\ kills' \in 0 .. Kills /\ asks' \in 0 .. Asks
    BY <2>2, Acting, ActTyped
  <2>3. CASE UNCHANGED vars
    <3>1. /\ UNCHANGED <<succ, pred, dsucc, ft, at, lost, spoiled>>
          /\ UNCHANGED <<queue, away, kills, asks>>
      BY <2>3 DEF vars, tables, budget
    <3> QED BY <1>1, <3>1 DEF TablesTyped
  <2> QED BY <1>1, <2>1, <2>2, <2>3 DEF RepairNext
<1>3. queue' \in [Node -> Seq(Datagram)]
  BY <1>2, QueuesTyped
<1> QED BY <1>1, <1>2, <1>3 DEF RepairTypes, RepairTypeOK, TablesTyped

----------------------------------------------------------------------------
(****************************************************************************)
(* Hellos.                                                                  *)
(****************************************************************************)

\* What is mistaken once stays so.
LEMMA SpoiledStays ==
  ASSUME RepairTypes, [RepairNext]_vars, ~(spoiled')
  PROVE  ~spoiled
BY DEF RepairNext, Receive, Timeout, vars, AnswerHello, AnswerQuery, TakeUpdate, Preempt,
   PreemptEnd, Forwarded, Unexpected, HelloReply, HelloBucket, RepairLink, RepairDouble,
   RepairDoubleUnset, RepairFingers, RepairFails, RepairDone, AskEnds, Hello, HelloTimeout,
   HelloTimeoutLost, Kill, Ask

\* A receive of n changes nobody else's state, and one in which nothing was
\* mistaken ends no process.
LEMMA ReceiveFrame ==
  ASSUME RepairTypes, NEW n \in Node, Receive(n)
  PROVE  /\ \A k \in Node \ {n} : at'[k] = at[k] /\ succ'[k] = succ[k] /\ dsucc'[k] = dsucc[k]
         /\ at'[n] = "hello" => at[n] = "hello" /\ succ'[n] = succ[n]
         /\ at'[n] # "upd0" /\ (at[n] \notin Repairing => at'[n] \notin Repairing)
         /\ Up(n)
         /\ ~(spoiled') => Up(n)'
<1>1. /\ at \in [Node -> Place] /\ succ \in [Node -> Node \cup {NoNode}]
      /\ dsucc \in [Node -> Node \cup {NoNode}]
  BY DEF RepairTypes, RepairTypeOK
<1>2. CASE AnswerHello(n) \/ AnswerQuery(n) \/ TakeUpdate(n) \/ PreemptEnd(n) \/ Unexpected(n)
           \/ HelloBucket(n)
  <2>1. /\ at' = at /\ succ' = succ /\ at[n] \in {"loop", "hello"}
        /\ dsucc' = dsucc \/ dsucc' = [dsucc EXCEPT ![n] = Got(n).node]
    BY <1>2 DEF AnswerHello, AnswerQuery, TakeUpdate, PreemptEnd, Unexpected, HelloBucket,
       Reads, tables
  <2> QED BY <1>1, <2>1 DEF Up, Repairing
<1>3. CASE Preempt(n) \/ HelloReply(n) \/ RepairDouble(n) \/ RepairDoubleUnset(n)
           \/ RepairFingers(n) \/ RepairFails(n) \/ RepairDone(n)
  <2>1. /\ succ' = succ
        /\ \/ dsucc' = dsucc
           \/ dsucc' = [dsucc EXCEPT ![n] = Got(n).node]
           \/ dsucc' = [dsucc EXCEPT ![n] = NoNode]
    BY <1>3 DEF Preempt, HelloReply, RepairDouble, RepairDoubleUnset, RepairFingers,
       RepairFails, RepairDone, TellPred, tables
  <2>2. /\ \E p \in {"loop", "forward", "upd100", "prcq"} : Goes(n, p)
        /\ at[n] \in {"loop", "hello"} => Goes(n, "loop") \/ Goes(n, "forward")
    BY <1>3 DEF Preempt, HelloReply, RepairDouble, RepairDoubleUnset, RepairFingers,
       RepairFails, RepairDone, TellPred, Reads
  <2>3. at[n] \in {"loop", "hello", "succq", "upd100", "prcq"}
    BY <1>3 DEF Preempt, HelloReply, RepairDouble, RepairDoubleUnset, RepairFingers,
       RepairFails, RepairDone, Reads
  <2> QED BY <1>1, <2>1, <2>2, <2>3 DEF Up, Goes, Repairing
<1>4. CASE RepairLink(n)
  <2>1. /\ succ' = [succ EXCEPT ![n] = dsucc[n]] /\ at[n] = "upd0"
        /\ dsucc' = dsucc \/ dsucc' = [dsucc EXCEPT ![n] = n]
    BY <1>4 DEF RepairLink, TellPred, Reads
  <2>2. Goes(n, "upd100") \/ Goes(n, "succq")
    BY <1>4 DEF RepairLink, TellPred
  <2> QED BY <1>1, <2>1, <2>2 DEF Up, Goes, Repairing
<1>5. CASE Forwarded(n) \/ (n = First /\ AskEnds)
  <2>1. succ' = succ /\ dsucc' = dsucc /\ at[n] \in {"forward", "closest", "store"}
    BY <1>5 DEF Forwarded, AskEnds, Reads, tables
  <2>2. Goes(n, "loop") \/ (Goes(n, "exited") /\ spoiled')
    <3>1. CASE Forwarded(n)
      <4>1. CASE Got(n).kind = "PRCRM"
        BY <3>1, <4>1, Sizes DEF Forwarded
      <4>2. CASE Got(n).kind # "PRCRM"
        BY <3>1, <4>2 DEF Forwarded, Exits
      <4> QED BY <4>1, <4>2
    <3>2. CASE n = First /\ AskEnds
      BY <3>2 DEF AskEnds, Exits
    <3> QED BY <1>5, <3>1, <3>2
  <2> QED BY <1>1, <2>1, <2>2 DEF Up, Goes, Repairing
<1> QED BY <1>2, <1>3, <1>4, <1>5 DEF Receive

\* A hello that is read is answered, or something is mistaken.
LEMMA HelloAnswered ==
  ASSUME RepairTypes, NEW n \in Node, Receive(n), Got(n).kind = "HDPRQ", ~(spoiled')
  PROVE  AnswerHello(n)
<1>1. ~(AnswerQuery(n) \/ TakeUpdate(n) \/ Preempt(n) \/ PreemptEnd(n) \/ Unexpected(n))
  BY DEF AnswerQuery, TakeUpdate, Preempt, PreemptEnd, Unexpected
<1>2. ~(Forwarded(n) \/ HelloBucket(n) \/ RepairLink(n) \/ RepairDoubleUnset(n)
          \/ RepairFails(n) \/ RepairDone(n))
  BY DEF Forwarded, HelloBucket, RepairLink, RepairDoubleUnset, RepairFails, RepairDone
<1>3. ~(HelloReply(n) \/ RepairDouble(n))
  BY Sizes DEF HelloReply, RepairDouble
<1>4. ~RepairFingers(n)
  BY DEF RepairFingers, Dgram
<1>5. ~(n = First /\ AskEnds)
  BY DEF AskEnds
<1> QED BY <1>1, <1>2, <1>3, <1>4, <1>5 DEF Receive

\* Who goes on waiting has answered one.
LEMMA HelloWaits ==
  ASSUME RepairTypes, NEW n \in Node, Receive(n), at'[n] = "hello", ~(spoiled')
  PROVE  AnswerHello(n)
<1>1. at \in [Node -> Place] /\ at[n] = "hello"
  BY ReceiveFrame DEF RepairTypes, RepairTypeOK
<1>2. ~(AnswerQuery(n) \/ TakeUpdate(n) \/ Preempt(n) \/ PreemptEnd(n) \/ Unexpected(n))
  BY <1>1 DEF AnswerQuery, TakeUpdate, Preempt, PreemptEnd, Unexpected, Reads
<1>3. ~(Forwarded(n) \/ HelloBucket(n) \/ RepairLink(n) \/ RepairDoubleUnset(n)
          \/ RepairFails(n) \/ RepairDone(n) \/ RepairDouble(n) \/ RepairFingers(n))
  BY <1>1 DEF Forwarded, HelloBucket, RepairLink, RepairDoubleUnset, RepairFails, RepairDone,
     RepairDouble, RepairFingers, Reads
<1>4. ~HelloReply(n)
  BY <1>1 DEF HelloReply, Goes
<1>5. ~(n = First /\ AskEnds)
  BY <1>1 DEF AskEnds, Reads
<1> QED BY <1>2, <1>3, <1>4, <1>5 DEF Receive

\* The timers and jobs: who waits, and who is up.
LEMMA ActFrame ==
  ASSUME RepairTypes, NEW n \in Node, Hello(n) \/ Timeout(n) \/ Kill(n) \/ Ask(n)
  PROVE  /\ \A k \in Node : Up(k)' => Up(k)
         /\ \A k \in Node : at'[k] = "hello" =>
              /\ succ'[k] = succ[k]
              /\ at[k] = "hello" \/ (k = n /\ Hello(n))
<1>1. at \in [Node -> Place] /\ succ \in [Node -> Node \cup {NoNode}] /\ First \in Node
  BY RepairAssumption DEF RepairTypes, RepairTypeOK
<1>2. CASE Hello(n)
  BY <1>1, <1>2 DEF Hello, Goes, Up, tables
<1>3. CASE HelloTimeout(n)
  BY <1>1, <1>3 DEF HelloTimeout, Goes, Up, tables
<1>4. CASE HelloTimeoutLost(n)
  BY <1>1, <1>4 DEF HelloTimeoutLost, Goes, Up
<1>5. CASE Kill(n)
  BY <1>1, <1>5 DEF Kill, Goes, Up, tables
<1>6. CASE Ask(n)
  <2>1. Goes(First, "closest") \/ Goes(First, "store")
    BY <1>6 DEF Ask
  <2>2. at[First] = "loop" /\ succ' = succ
    BY <1>6 DEF Ask, JobDue, tables
  <2> QED BY <1>1, <2>1, <2>2 DEF Goes, Up
<1> QED BY <1>2, <1>3, <1>4, <1>5, <1>6 DEF Timeout

LEMMA HellosUnderwayStep ==
  RepairTypes /\ HellosUnderway /\ [RepairNext]_vars => HellosUnderway'
<1> SUFFICES ASSUME RepairTypes, HellosUnderway, [RepairNext]_vars, ~(spoiled'),
                    NEW k \in Node, at'[k] = "hello", Up(succ[k])'
             PROVE  HelloUnderway(k)'
  BY DEF HellosUnderway
<1>1. ~spoiled /\ RepairTypes'
  BY SpoiledStays, RepairTypesStep
<1>2. succ'[k] \in Node
  BY <1>1 DEF RepairTypes, Repairing
<1>3. ASSUME at[k] = "hello", succ'[k] = succ[k], Up(succ[k])
      PROVE  HelloUnderway(k)
  BY <1>1, <1>3 DEF HellosUnderway
<1>4. ASSUME NEW n \in Node, Receive(n) PROVE HelloUnderway(k)'
  <2>1. /\ \A m \in Node \ {n} : at'[m] = at[m] /\ succ'[m] = succ[m]
        /\ at'[n] = "hello" => at[n] = "hello" /\ succ'[n] = succ[n]
        /\ Up(n) /\ Up(n)'
    BY <1>4, ReceiveFrame
  <2>2. at[k] = "hello" /\ succ'[k] = succ[k]
    BY <2>1
  <2>3. Up(succ[k]) /\ Up(k)' /\ Up(k)
    BY <1>2, <2>1, <2>2 DEF Up
  <2>4. queue[n] # <<>> /\ Kept(n)
    BY <1>4, Receiving
  <2>5. CASE Plain("HDPRR", succ[k]) \in Box(queue, k)
    <3>1. ~(k = n /\ Got(n) = Plain("HDPRR", succ[k]))
      <4>1. k = n => Got(n).kind = "HDPRQ"
        BY <1>4, HelloWaits DEF AnswerHello
      <4>2. Plain("HDPRR", succ[k]).kind = "HDPRR"
        BY DEF Plain, Dgram
      <4> QED BY <4>1, <4>2
    <3> QED BY <2>2, <2>3, <2>4, <2>5, <3>1 DEF Kept, HelloUnderway
  <2>6. CASE Plain("HDPRQ", k) \in Box(queue, succ[k])
    <3>1. CASE succ[k] = n /\ Got(n) = Plain("HDPRQ", k)
      <4>1. AnswerHello(n) /\ Got(n).from = k
        BY <1>4, <3>1, HelloAnswered DEF Plain, Dgram
      <4>2. queue' = Sent(Rest(n), k, Plain("HDPRR", n)) /\ Plain("HDPRR", n) \in Sound
        BY <4>1, SoundPlain, Kinds DEF AnswerHello
      <4>3. Plain("HDPRR", n) \in Box(queue', k)
        BY <2>3, <2>4, <4>2, TakingAndSending DEF RepairTypes
      <4> QED BY <2>2, <3>1, <4>3 DEF HelloUnderway
    <3>2. CASE ~(succ[k] = n /\ Got(n) = Plain("HDPRQ", k))
      BY <1>2, <2>2, <2>4, <2>6, <3>2 DEF Kept, HelloUnderway
    <3> QED BY <3>1, <3>2
  <2> QED BY <1>3, <2>2, <2>3, <2>5, <2>6 DEF HelloUnderway
<1>5. ASSUME NEW n \in Node, Hello(n) \/ Timeout(n) \/ Kill(n) \/ Ask(n)
      PROVE  HelloUnderway(k)'
  <2>1. /\ \A m \in Node : Up(m)' => Up(m)
        /\ succ'[k] = succ[k]
        /\ at[k] = "hello" \/ (k = n /\ Hello(n))
    BY <1>5, ActFrame
  <2>2. Up(succ[k]) /\ Up(k)'
    BY <1>2, <2>1 DEF Up
  <2>3. CASE at[k] = "hello"
    <3>1. \A m \in Node : Up(m)' => Box(queue, m) \subseteq Box(queue', m)
      BY <1>5, Acting
    <3> QED BY <1>2, <1>3, <2>1, <2>2, <2>3, <3>1 DEF HelloUnderway
  <2>4. CASE k = n /\ Hello(n)
    <3>1. queue' = Sent(queue, succ[n], Plain("HDPRQ", n)) /\ Plain("HDPRQ", n) \in Sound
      BY <2>4, SoundPlain, Kinds DEF Hello
    <3>2. Plain("HDPRQ", n) \in Box(queue', succ[n])
      BY <1>2, <2>1, <2>2, <2>4, <3>1, Sending DEF RepairTypes
    <3> QED BY <2>1, <2>4, <3>2 DEF HelloUnderway
  <2> QED BY <2>1, <2>3, <2>4
<1>6. CASE UNCHANGED vars
  <2>1. at' = at /\ succ' = succ /\ queue' = queue
    BY <1>6 DEF vars, tables
  <2> QED BY <1>3, <2>1 DEF Up, HelloUnderway
<1> QED BY <1>4, <1>5, <1>6 DEF RepairNext

\* Two seconds without a datagram: the hello is lost, so the successor is down.
LEMMA QuietMeansDown ==
  ASSUME RepairTypes, HellosUnderway, ~spoiled, NEW n \in Node, Timeout(n)
  PROVE  ~Up(succ[n])
<1> SUFFICES ASSUME Up(succ[n]) PROVE FALSE
  OBVIOUS
<1>1. at[n] = "hello" /\ Quiet
  BY DEF Timeout, HelloTimeout, HelloTimeoutLost
<1>2. succ[n] \in Node
  BY <1>1 DEF RepairTypes
<1>3. \A k \in Node : Box(queue, k) = {}
  BY <1>1 DEF Quiet, Box
<1> QED BY <1>1, <1>2, <1>3 DEF HellosUnderway, HelloUnderway

\* Before the first job every receive is of a hello, and nothing times out.
LEMMA OnlyHellosStep ==
  RepairTypes /\ HellosUnderway /\ OnlyHellos /\ [RepairNext]_vars => OnlyHellos'
<1> SUFFICES ASSUME RepairTypes, HellosUnderway, OnlyHellos, [RepairNext]_vars,
                    kills' = Kills, asks' = Asks
             PROVE  /\ ~(spoiled')
                    /\ \A k \in Node :
                         /\ at'[k] \in {"loop", "hello"}
                         /\ succ'[k] \in Node
                         /\ \A d \in Box(queue', k) : IsHello(k, d)'
  BY DEF OnlyHellos
<1>1. /\ queue \in Queues /\ at \in [Node -> Place]
      /\ kills \in 0 .. Kills /\ asks \in 0 .. Asks /\ Kills \in Nat /\ Asks \in Nat
  BY RepairAssumption DEF RepairTypes, RepairTypeOK
<1>2. kills = Kills /\ asks = Asks /\ ~(\E x \in Node : Kill(x) \/ Ask(x))
  <2>1. ASSUME NEW x \in Node, Kill(x) \/ Ask(x) PROVE FALSE
    BY <1>1, <2>1 DEF Kill, Ask
  <2>2. ASSUME NEW n \in Node, Receive(n) PROVE kills' = kills /\ asks' = asks
    BY <2>2, ReceiveTyped DEF budget
  <2>3. ASSUME NEW n \in Node, Hello(n) \/ Timeout(n) PROVE kills' = kills /\ asks' = asks
    <3>1. UNCHANGED budget
      BY <2>3 DEF Hello, Timeout, HelloTimeout, HelloTimeoutLost
    <3> QED BY <3>1 DEF budget
  <2>4. ASSUME UNCHANGED vars PROVE kills' = kills /\ asks' = asks
    BY <2>4 DEF vars, budget
  <2> QED BY <2>1, <2>2, <2>3, <2>4 DEF RepairNext
<1>3. /\ ~spoiled
      /\ \A k \in Node : /\ at[k] \in {"loop", "hello"} /\ succ[k] \in Node
                         /\ \A d \in Box(queue, k) : IsHello(k, d)
  BY <1>2 DEF OnlyHellos
<1>4. ASSUME NEW n \in Node, Receive(n)
      PROVE  /\ ~(spoiled')
             /\ \A k \in Node :
                  /\ at'[k] \in {"loop", "hello"}
                  /\ succ'[k] \in Node
                  /\ \A d \in Box(queue', k) : IsHello(k, d)'
  <2>1. queue[n] # <<>> /\ Got(n) \in Sound /\ IsHello(n, Got(n)) /\ Got(n).from \in Node
    BY <1>1, <1>3, <1>4, Receiving, Taking, SoundParts
  <2>2. CASE AnswerHello(n)
    <3> DEFINE m == Got(n).from
               e == Plain("HDPRR", n)
    <3>1. succ[m] = n
      BY <2>1, <2>2 DEF AnswerHello, IsHello
    <3>2. /\ queue' = Sent(Rest(n), m, e) /\ e \in Sound
          /\ at' = at /\ succ' = succ /\ spoiled' = spoiled
      BY <2>2, SoundPlain, Kinds DEF AnswerHello, tables
    <3>3. e.kind = "HDPRR" /\ e.from = n
      BY DEF Plain, Dgram
    <3> HIDE DEF m, e
    <3>4. \A k \in Node : \A d \in Box(queue', k) : d \in Box(queue, k) \/ (k = m /\ d = e)
      BY <1>1, <2>1, <3>2, TakingAndSending
    <3>5. \A k \in Node : \A d \in Box(queue', k) : IsHello(k, d)
      BY <1>3, <3>1, <3>3, <3>4 DEF IsHello
    <3> QED BY <1>3, <3>2, <3>5 DEF IsHello
  <2>3. CASE Unexpected(n) \/ HelloReply(n)
    <3>1. Got(n).kind = "HDPRR" /\ Got(n).from = succ[n]
      <4>1. Unexpected(n) => Got(n).kind # "HDPRQ"
        BY DEF Unexpected
      <4>2. HelloReply(n) => Got(n).kind # "HDPRQ"
        BY Sizes DEF HelloReply
      <4> QED BY <2>1, <2>3, <4>1, <4>2 DEF IsHello
    <3>2. /\ queue' = Rest(n) /\ succ' = succ /\ ~(spoiled')
          /\ at' = at \/ Goes(n, "loop")
      <4>1. CASE Unexpected(n)
        BY <1>3, <4>1 DEF Unexpected, tables
      <4>2. CASE HelloReply(n)
        BY <1>3, <3>1, <4>2 DEF HelloReply, tables
      <4> QED BY <2>3, <4>1, <4>2
    <3>3. \A k \in Node : at'[k] \in {"loop", "hello"}
      BY <1>1, <1>3, <3>2 DEF Goes
    <3>4. \A k \in Node : Box(queue', k) \subseteq Box(queue, k)
      BY <1>1, <2>1, <3>2, TakingOnly
    <3> QED BY <1>3, <3>2, <3>3, <3>4 DEF IsHello
  <2>4. ~(AnswerQuery(n) \/ TakeUpdate(n) \/ Preempt(n) \/ PreemptEnd(n))
    BY <2>1 DEF AnswerQuery, TakeUpdate, Preempt, PreemptEnd, IsHello
  <2>5. ~HelloBucket(n)
    BY <2>1, Sizes DEF HelloBucket, IsHello
  <2>6. at[n] \in {"loop", "hello"}
    BY <1>3
  <2>7. ~(Forwarded(n) \/ RepairLink(n) \/ RepairDouble(n) \/ RepairDoubleUnset(n)
            \/ RepairFingers(n) \/ RepairFails(n) \/ RepairDone(n) \/ (n = First /\ AskEnds))
    BY <2>6 DEF Forwarded, RepairLink, RepairDouble, RepairDoubleUnset, RepairFingers,
       RepairFails, RepairDone, AskEnds, Reads
  <2> QED BY <1>4, <2>2, <2>3, <2>4, <2>5, <2>7 DEF Receive
<1>5. ASSUME NEW n \in Node, Hello(n)
      PROVE  /\ ~(spoiled')
             /\ \A k \in Node :
                  /\ at'[k] \in {"loop", "hello"}
                  /\ succ'[k] \in Node
                  /\ \A d \in Box(queue', k) : IsHello(k, d)'
  <2> DEFINE e == Plain("HDPRQ", n)
  <2>1. /\ queue' = Sent(queue, succ[n], e) /\ e \in Sound /\ Goes(n, "hello")
        /\ succ' = succ /\ spoiled' = spoiled
    BY <1>5, SoundPlain, Kinds DEF Hello, tables
  <2>2. e.kind = "HDPRQ" /\ e.from = n
    BY DEF Plain, Dgram
  <2> HIDE DEF e
  <2>3. \A k \in Node : \A d \in Box(queue', k) : d \in Box(queue, k) \/ (k = succ[n] /\ d = e)
    BY <1>1, <2>1, Sending
  <2>4. \A k \in Node : \A d \in Box(queue', k) : IsHello(k, d)
    BY <1>3, <2>2, <2>3 DEF IsHello
  <2>5. \A k \in Node : at'[k] \in {"loop", "hello"}
    BY <1>1, <1>3, <2>1 DEF Goes
  <2> QED BY <1>3, <2>1, <2>4, <2>5 DEF IsHello
<1>6. ASSUME NEW n \in Node, Timeout(n) PROVE FALSE
  <2>1. ~Up(succ[n])
    BY <1>3, <1>6, QuietMeansDown
  <2> QED BY <1>3, <2>1 DEF Up
<1>7. CASE UNCHANGED vars
  <2>1. at' = at /\ succ' = succ /\ queue' = queue /\ spoiled' = spoiled
    BY <1>7 DEF vars, tables
  <2> QED BY <1>3, <2>1 DEF IsHello
<1> QED BY <1>2, <1>4, <1>5, <1>6, <1>7 DEF RepairNext

----------------------------------------------------------------------------
(****************************************************************************)
(* Repairs.                                                                 *)
(****************************************************************************)

\* The double successors and predecessors a client tells of are its successor
\* or itself.
Tells(n, d) == d.kind \in {"UPDTQ", "SUCCR"} => d.node \in {succ[n], succ'[n]}

LEMMA NewDatagrams ==
  ASSUME RepairTypes, NEW n \in Node, Receive(n), NEW k \in Node, NEW d \in Box(queue', k)
  PROVE  d \in Box(queue, k) \/ Tells(n, d)
<1>1. /\ queue \in Queues /\ queue[n] # <<>> /\ Got(n) \in Sound
      /\ succ \in [Node -> Node \cup {NoNode}]
  BY Receiving, Taking DEF RepairTypes, RepairTypeOK
<1>2. \A x \in {"HDPRR", "PRCRM", "CLSTR", "STORR", "SUCCQ"} :
         Plain(x, n) \in Sound /\ Tells(n, Plain(x, n))
  <2>1. \A x : Plain(x, n).kind = x
    BY DEF Plain, Dgram
  <2> QED BY <2>1, SoundPlain, Kinds DEF Tells
<1>3. ASSUME NEW m, NEW e \in Sound, Tells(n, e), queue' = Sent(Rest(n), m, e)
      PROVE  d \in Box(queue, k) \/ Tells(n, d)
  BY <1>1, <1>3, TakingAndSending
<1>4. CASE AnswerHello(n) \/ PreemptEnd(n)
  BY <1>2, <1>3, <1>4 DEF AnswerHello, PreemptEnd
<1>5. CASE AnswerQuery(n)
  <2>1. /\ Dgram("SUCCR", n, succ[n], 0) \in Sound
        /\ Tells(n, Dgram("SUCCR", n, succ[n], 0))
    BY <1>1, SoundDgram, Kinds DEF Tells, Dgram
  <2> QED BY <1>2, <1>3, <1>5, <2>1 DEF AnswerQuery
<1>6. CASE TakeUpdate(n)
  <2> DEFINE e == Dgram("UPDTR", n, Got(n).node, Got(n).extra)
  <2>1. e \in Sound
    BY <1>1, SoundParts, SoundDgram, Kinds
  <2>2. Tells(n, e)
    BY DEF Tells, Dgram
  <2>3. queue' = Sent(Rest(n), Got(n).from, e)
    BY <1>6 DEF TakeUpdate
  <2> QED BY <1>3, <2>1, <2>2, <2>3
<1>7. CASE Preempt(n)
  <2> DEFINE q == Sent(Rest(n), Got(n).from, Plain("PRCRM", n))
             e == Dgram("PRCQM", n, Got(n).node, Got(n).extra)
  <2>1. e \in Sound /\ Tells(n, e)
    <3>1. e \in Sound
      BY <1>1, <1>7, SoundParts, SoundDgram, Kinds DEF Preempt
    <3> QED BY <3>1 DEF Tells, Dgram
  <2>2. queue' = Sent(q, succ[n], e)
    BY <1>7 DEF Preempt
  <2>3. q \in Queues /\ Box(q, k) \subseteq Box(queue, k) \cup {Plain("PRCRM", n)}
    <3>1. /\ Rest(n) \in Queues /\ Box(Rest(n), k) \subseteq Box(queue, k)
          /\ Plain("PRCRM", n) \in Sound
      BY <1>1, <1>2, Taking
    <3> QED BY <3>1, Sending
  <2> HIDE DEF q, e
  <2>4. d \in Box(q, k) \cup {e}
    BY <2>1, <2>2, <2>3, Sending
  <2> QED BY <1>2, <2>1, <2>3, <2>4
<1>8. CASE Unexpected(n) \/ HelloReply(n) \/ HelloBucket(n) \/ RepairDone(n)
  BY <1>1, <1>8, TakingOnly DEF Unexpected, HelloReply, HelloBucket, RepairDone
<1>9. CASE Forwarded(n) \/ (n = First /\ AskEnds)
  <2>1. queue' = Rest(n) \/ Exits(n)
    BY <1>9 DEF Forwarded, AskEnds
  <2> QED BY <1>1, <2>1, TakingOnly, Exiting
<1>10. \A m : /\ Astray(n, m) \in Queues
              /\ Box(Astray(n, m), k) \subseteq Box(queue, k) \cup {Plain("HDPRR", n)}
  BY <1>1, GoingAstray
<1>11. CASE RepairFails(n)
  <2>1. queue' = Rest(n) \/ queue' = Astray(n, pred[n])
    BY <1>11 DEF RepairFails
  <2> QED BY <1>1, <1>2, <1>10, <2>1, TakingOnly
<1>12. CASE RepairFingers(n)
  <2> DEFINE e == Dgram("PRCQM", n, succ[n], lost[n])
  <2>1. succ[n] \in Node /\ lost[n] \in Nat
    <3>1. at[n] = "upd100"
      BY <1>12 DEF RepairFingers, Reads
    <3>2. succ[n] \in Node /\ lost[n] \in Node
      BY <3>1 DEF RepairTypes, RepairTypeOK, Repairing
    <3>3. Node \subseteq Nat
      BY RepairAssumption, HashMaxAssumption DEF Id
    <3> QED BY <3>2, <3>3
  <2>2. e \in Sound /\ Tells(n, e)
    <3>1. e \in Sound
      BY <2>1, SoundDgram, Kinds
    <3> QED BY <3>1 DEF Tells, Dgram
  <2>3. queue' = Sent(Rest(n), succ[n], e)
    BY <1>12 DEF RepairFingers
  <2> QED BY <1>3, <2>2, <2>3
<1>13. CASE RepairLink(n) \/ RepairDouble(n) \/ RepairDoubleUnset(n)
  <2> DEFINE e == Dgram("UPDTQ", n, succ'[n], 100)
             f == Plain("SUCCQ", n)
  <2>1. succ'[n] \in Node
    <3>1. RepairTypes' /\ at'[n] \in Repairing
      <4>1. Goes(n, "upd100") \/ Goes(n, "succq")
        BY <1>13 DEF RepairLink, RepairDouble, RepairDoubleUnset, TellPred
      <4>2. RepairTypes' /\ at \in [Node -> Place]
        BY RepairTypesStep DEF RepairNext, RepairTypes, RepairTypeOK
      <4> QED BY <4>1, <4>2 DEF Goes, Repairing
    <3> QED BY <3>1 DEF RepairTypes
  <2>2. e \in Sound /\ Tells(n, e) /\ f \in Sound /\ Tells(n, f)
    <3>1. e \in Sound
      BY <2>1, SoundDgram, Kinds
    <3> QED BY <1>2, <3>1 DEF Tells, Dgram
  <2>3. \/ queue' = Sent(Rest(n), pred[n], e)
        \/ \E m, x : queue' = Sent(Astray(n, m), x, e) \/ queue' = Sent(Astray(n, m), x, f)
    BY <1>13 DEF RepairLink, RepairDouble, RepairDoubleUnset, TellPred
  <2> HIDE DEF e, f
  <2>4. ASSUME NEW m, NEW x, NEW g \in {e, f}, queue' = Sent(Astray(n, m), x, g)
        PROVE  d \in Box(queue, k) \/ Tells(n, d)
    <3>1. d \in Box(Astray(n, m), k) \cup {g}
      BY <1>10, <2>2, <2>4, Sending
    <3> QED BY <1>2, <1>10, <2>2, <3>1
  <2> QED BY <1>3, <2>2, <2>3, <2>4
<1> QED BY <1>4, <1>5, <1>6, <1>7, <1>8, <1>9, <1>11, <1>12, <1>13 DEF Receive

LEMMA SuccessorsKnownStep ==
  RepairTypes /\ HellosUnderway /\ SuccessorsKnown /\ [RepairNext]_vars => SuccessorsKnown'
<1> SUFFICES ASSUME RepairTypes, HellosUnderway, SuccessorsKnown, [RepairNext]_vars,
                    ~(spoiled'), NEW k \in Node
             PROVE  /\ succ'[k] \in Node /\ dsucc'[k] \in Node
                    /\ \A d \in Box(queue', k) :
                         d.kind \in {"UPDTQ", "SUCCR"} => d.node \in Node
  BY DEF SuccessorsKnown
<1>1. /\ ~spoiled /\ queue \in Queues
      /\ succ \in [Node -> Node \cup {NoNode}] /\ dsucc \in [Node -> Node \cup {NoNode}]
  BY SpoiledStays DEF RepairTypes, RepairTypeOK
<1>2. \A n \in Node : /\ succ[n] \in Node /\ dsucc[n] \in Node
                      /\ \A d \in Box(queue, n) : d.kind \in {"UPDTQ", "SUCCR"} => d.node \in Node
  BY <1>1 DEF SuccessorsKnown
<1>3. ASSUME NEW n \in Node, Receive(n)
      PROVE  /\ succ'[k] \in Node /\ dsucc'[k] \in Node
             /\ \A d \in Box(queue', k) :
                  d.kind \in {"UPDTQ", "SUCCR"} => d.node \in Node
  <2>1. /\ k # n => succ'[k] = succ[k] /\ dsucc'[k] = dsucc[k]
        /\ Got(n) \in Box(queue, n)
    BY <1>1, <1>3, ReceiveFrame, Receiving, Taking
  <2>2. succ'[n] \in Node /\ dsucc'[n] \in Node
    <3>1. CASE RepairLink(n)
      <4>1. /\ succ' = [succ EXCEPT ![n] = dsucc[n]]
            /\ dsucc' = dsucc \/ dsucc' = [dsucc EXCEPT ![n] = n]
        BY <3>1 DEF RepairLink, TellPred
      <4> QED BY <1>1, <1>2, <4>1
    <3>2. CASE RepairDouble(n)
      <4>1. /\ succ' = succ /\ dsucc' = [dsucc EXCEPT ![n] = Got(n).node]
            /\ Got(n).kind = "SUCCR"
        BY <3>2 DEF RepairDouble, TellPred
      <4> QED BY <1>1, <1>2, <2>1, <4>1
    <3>3. CASE TakeUpdate(n)
      <4>1. /\ succ' = succ /\ Got(n).kind = "UPDTQ"
            /\ dsucc' = dsucc \/ dsucc' = [dsucc EXCEPT ![n] = Got(n).node]
        BY <3>3 DEF TakeUpdate
      <4> QED BY <1>1, <1>2, <2>1, <4>1
    <3>4. ~RepairDoubleUnset(n)
      BY DEF RepairDoubleUnset
    <3>5. CASE ~(RepairLink(n) \/ RepairDouble(n) \/ TakeUpdate(n) \/ RepairDoubleUnset(n))
      <4>1. succ' = succ /\ dsucc' = dsucc
        BY <1>3, <3>5 DEF Receive, AnswerHello, AnswerQuery, Preempt, PreemptEnd, Forwarded,
           Unexpected, HelloReply, HelloBucket, RepairFingers, RepairFails, RepairDone,
           AskEnds, tables
      <4> QED BY <1>2, <4>1
    <3> QED BY <3>1, <3>2, <3>3, <3>4, <3>5
  <2>3. ASSUME NEW d \in Box(queue', k), d.kind \in {"UPDTQ", "SUCCR"}
        PROVE  d.node \in Node
    <3>1. d \in Box(queue, k) \/ Tells(n, d)
      BY <1>3, NewDatagrams
    <3> QED BY <1>2, <2>2, <2>3, <3>1 DEF Tells
  <2> QED BY <1>2, <2>1, <2>2, <2>3
<1>4. ASSUME NEW n \in Node, Hello(n) \/ Timeout(n) \/ Kill(n) \/ Ask(n)
      PROVE  /\ succ'[k] \in Node /\ dsucc'[k] \in Node
             /\ \A d \in Box(queue', k) :
                  d.kind \in {"UPDTQ", "SUCCR"} => d.node \in Node
  <2>1. ~HelloTimeoutLost(n)
    <3>1. dsucc[n] # NoNode
      BY <1>2, NoNodeIsNone
    <3> QED BY <3>1 DEF HelloTimeoutLost
  <2>2. succ' = succ /\ dsucc' = dsucc
    BY <1>4, <2>1 DEF Hello, Timeout, HelloTimeout, Kill, Ask, tables
  <2>3. ASSUME NEW m, NEW e \in Sound, queue' = Sent(queue, m, e),
               e.kind \in {"UPDTQ", "SUCCR"} => e.node \in Node
        PROVE  \A d \in Box(queue', k) : d.kind \in {"UPDTQ", "SUCCR"} => d.node \in Node
    BY <1>1, <1>2, <2>3, Sending
  <2>4. CASE Hello(n)
    <3>1. Plain("HDPRQ", n) \in Sound /\ Plain("HDPRQ", n).kind = "HDPRQ"
      BY SoundPlain, Kinds DEF Plain, Dgram
    <3> QED BY <1>2, <2>2, <2>3, <2>4, <3>1 DEF Hello
  <2>5. CASE HelloTimeout(n)
    <3>1. Dgram("UPDTQ", n, n, 0) \in Sound /\ Dgram("UPDTQ", n, n, 0).node = n
      BY SoundDgram, Kinds DEF Dgram
    <3> QED BY <1>2, <2>2, <2>3, <2>5, <3>1 DEF HelloTimeout
  <2>6. CASE Kill(n)
    <3>1. queue' = [queue EXCEPT ![n] = <<>>]
      BY <2>6 DEF Kill
    <3>2. Box(queue', k) \subseteq Box(queue, k)
      BY <1>1, <3>1 DEF Box, Queues
    <3> QED BY <1>2, <2>2, <3>2
  <2>7. CASE Ask(n)
    <3>1. /\ First \in Node
          /\ Plain("CLSTQ", First) \in Sound /\ Plain("CLSTQ", First).kind = "CLSTQ"
          /\ Plain("STORQ", First) \in Sound /\ Plain("STORQ", First).kind = "STORQ"
      BY RepairAssumption, SoundPlain, Kinds DEF Plain, Dgram
    <3> QED BY <1>2, <2>2, <2>3, <2>7, <3>1 DEF Ask
  <2> QED BY <1>4, <2>1, <2>4, <2>5, <2>6, <2>7 DEF Timeout
<1>5. CASE UNCHANGED vars
  <2>1. succ' = succ /\ dsucc' = dsucc /\ queue' = queue
    BY <1>5 DEF vars, tables
  <2> QED BY <1>2, <2>1
<1> QED BY <1>3, <1>4, <1>5 DEF RepairNext

\* Only a kill changes who is up, as long as nothing is mistaken.
LEMMA SameLive ==
  ASSUME RepairTypes, [RepairNext]_vars, ~(spoiled')
  PROVE  \/ Live' = Live /\ \A k \in Node : Up(k)' <=> Up(k)
         \/ \E x \in Node : Kill(x)
<1>1. at \in [Node -> Place]
  BY DEF RepairTypes, RepairTypeOK
<1>2. \/ away' = away /\ \A k \in Node : Up(k)' <=> Up(k)
      \/ \E x \in Node : Kill(x)
  <2>1. ASSUME NEW n \in Node, Receive(n)
        PROVE  away' = away /\ \A k \in Node : Up(k)' <=> Up(k)
    <3>1. away' = away
      BY <2>1, ReceiveTyped DEF budget
    <3>2. Up(n) /\ Up(n)' /\ \A k \in Node \ {n} : at'[k] = at[k]
      BY <2>1, ReceiveFrame
    <3> QED BY <3>1, <3>2 DEF Up
  <2>2. ASSUME NEW n \in Node, Hello(n) \/ Timeout(n) \/ Ask(n)
        PROVE  away' = away /\ \A k \in Node : Up(k)' <=> Up(k)
    <3>1. away' = away
      BY <2>2, ActTyped
    <3>2. CASE Hello(n)
      BY <1>1, <3>1, <3>2 DEF Hello, Goes, Up
    <3>3. CASE Timeout(n)
      BY <1>1, <3>1, <3>3 DEF Timeout, HelloTimeout, HelloTimeoutLost, Goes, Up
    <3>4. CASE Ask(n)
      <4>1. Goes(First, "closest") \/ Goes(First, "store")
        BY <3>4 DEF Ask
      <4>2. at[First] = "loop"
        BY <3>4 DEF Ask, JobDue
      <4> QED BY <1>1, <3>1, <4>1, <4>2 DEF Goes, Up
    <3> QED BY <2>2, <3>2, <3>3, <3>4
  <2>3. ASSUME UNCHANGED vars PROVE away' = away /\ \A k \in Node : Up(k)' <=> Up(k)
    BY <2>3 DEF vars, budget, Up
  <2> QED BY <2>1, <2>2, <2>3 DEF RepairNext
<1> QED BY <1>2 DEF Live

LEMMA NobodyKilledStep ==
  RepairTypes /\ HellosUnderway /\ NobodyKilled /\ [RepairNext]_vars => NobodyKilled'
<1> SUFFICES ASSUME RepairTypes, HellosUnderway, NobodyKilled, [RepairNext]_vars,
                    ~(spoiled'), kills' = Kills, NEW k \in Node
             PROVE  Up(k)' /\ at'[k] \notin Repairing
  BY DEF NobodyKilled
<1>1. /\ ~spoiled /\ at \in [Node -> Place] /\ kills \in 0 .. Kills /\ Kills \in Nat
      /\ First \in Node
  BY SpoiledStays, RepairAssumption DEF RepairTypes, RepairTypeOK
<1>2. \A x \in Node : ~Kill(x)
  BY <1>1 DEF Kill
<1>3. kills = Kills
  <2>1. ASSUME NEW n \in Node, Receive(n) PROVE kills' = kills
    BY <2>1, ReceiveTyped DEF budget
  <2>2. ASSUME NEW n \in Node, Hello(n) \/ Timeout(n) \/ Ask(n) PROVE kills' = kills
    BY <2>2 DEF budget, Hello, Timeout, HelloTimeout, HelloTimeoutLost, Ask
  <2>3. ASSUME UNCHANGED vars PROVE kills' = kills
    BY <2>3 DEF vars, budget
  <2> QED BY <1>2, <2>1, <2>2, <2>3 DEF RepairNext
<1>4. \A n \in Node : Up(n) /\ at[n] \notin Repairing
  BY <1>1, <1>3 DEF NobodyKilled
<1>5. Up(k)'
  BY <1>2, <1>4, SameLive
<1>6. ASSUME NEW n \in Node, Receive(n) PROVE at'[k] \notin Repairing
  BY <1>4, <1>6, ReceiveFrame
<1>7. ASSUME NEW n \in Node, Timeout(n) PROVE FALSE
  <2>1. ~Up(succ[n]) /\ at[n] = "hello"
    BY <1>1, <1>7, QuietMeansDown DEF Timeout, HelloTimeout, HelloTimeoutLost
  <2>2. succ[n] \in Node
    BY <2>1 DEF RepairTypes
  <2> QED BY <1>4, <2>1, <2>2
<1>8. ASSUME NEW n \in Node, Hello(n) \/ Ask(n) PROVE at'[k] \notin Repairing
  <2>1. \/ Goes(n, "hello")
        \/ Goes(First, "closest")
        \/ Goes(First, "store")
    BY <1>8 DEF Hello, Ask
  <2> QED BY <1>1, <1>4, <2>1 DEF Goes, Repairing
<1>9. ASSUME UNCHANGED vars PROVE at'[k] \notin Repairing
  BY <1>4, <1>9 DEF vars
<1> QED BY <1>2, <1>5, <1>6, <1>7, <1>8, <1>9 DEF RepairNext

\* An update that is read is taken, or something is mistaken.
LEMMA UpdateTaken ==
  ASSUME RepairTypes, NEW n \in Node, Receive(n), Got(n).kind = "UPDTQ", ~(spoiled')
  PROVE  TakeUpdate(n)
<1>1. ~(AnswerHello(n) \/ AnswerQuery(n) \/ Preempt(n) \/ PreemptEnd(n) \/ Unexpected(n))
  BY DEF AnswerHello, AnswerQuery, Preempt, PreemptEnd, Unexpected
<1>2. ~(Forwarded(n) \/ HelloBucket(n) \/ RepairLink(n) \/ RepairDoubleUnset(n)
          \/ RepairFails(n) \/ RepairDone(n))
  BY DEF Forwarded, HelloBucket, RepairLink, RepairDoubleUnset, RepairFails, RepairDone
<1>3. ~(HelloReply(n) \/ RepairDouble(n))
  BY DEF HelloReply, RepairDouble
<1>4. ~RepairFingers(n)
  BY DEF RepairFingers, Dgram
<1>5. ~(n = First /\ AskEnds)
  BY DEF AskEnds
<1> QED BY <1>1, <1>2, <1>3, <1>4, <1>5 DEF Receive

\* There is no kill while a repair waits for its first answer.
LEMMA NoKillAtBegin ==
  ASSUME RepairTypes, RepairsBegin, NobodyKilled, ~spoiled, NEW x \in Node, Kill(x),
         NEW k \in Node
  PROVE  at[k] # "upd0"
<1> SUFFICES ASSUME at[k] = "upd0" PROVE FALSE
  OBVIOUS
<1>1. UpdateUnderway(k) /\ dsucc[k] \in Node /\ kills \in 0 .. Kills /\ Kills \in Nat
  BY RepairAssumption DEF RepairsBegin, RepairTypes, RepairTypeOK
<1>2. kills # Kills
  BY DEF NobodyKilled, Repairing
<1>3. Quiet
  BY <1>1, <1>2 DEF Kill, JobDue, Steady
<1>4. \A n \in Node : Box(queue, n) = {}
  BY <1>3 DEF Quiet, Box
<1> QED BY <1>1, <1>4 DEF UpdateUnderway

LEMMA RepairsBeginStep ==
  RepairTypes /\ HellosUnderway /\ NobodyKilled /\ RepairsBegin /\ [RepairNext]_vars
    => RepairsBegin'
<1> SUFFICES ASSUME RepairTypes, HellosUnderway, NobodyKilled, RepairsBegin, [RepairNext]_vars,
                    ~(spoiled'), NEW k \in Node, at'[k] = "upd0"
             PROVE  k # away' /\ NextOf(Live, k, dsucc[k])' /\ UpdateUnderway(k)'
  BY DEF RepairsBegin
<1>1. /\ ~spoiled /\ RepairTypes' /\ queue \in Queues /\ at \in [Node -> Place]
      /\ First \in Node
  BY SpoiledStays, RepairTypesStep, RepairAssumption DEF RepairTypes, RepairTypeOK
<1>2. \A x \in Node : ~Kill(x)
  <2> SUFFICES ASSUME NEW x \in Node, Kill(x) PROVE FALSE
    OBVIOUS
  <2>1. at[k] # "upd0"
    BY <1>1, NoKillAtBegin
  <2>2. Goes(x, "dead")
    BY DEF Kill
  <2> QED BY <1>1, <2>1, <2>2 DEF Goes
<1>3. Live' = Live /\ \A m \in Node : Up(m)' <=> Up(m)
  BY <1>2, SameLive
<1>4. ASSUME at[k] = "upd0", dsucc'[k] = dsucc[k]
      PROVE  /\ k # away /\ NextOf(Live', k, dsucc'[k]) /\ UpdateUnderway(k)
             /\ dsucc[k] \in Node /\ Up(dsucc[k])' /\ Up(k) /\ Up(k)'
  <2>1. k # away /\ NextOf(Live, k, dsucc[k]) /\ UpdateUnderway(k)
    BY <1>1, <1>4 DEF RepairsBegin
  <2>2. dsucc[k] \in Live
    BY <2>1 DEF NextOf
  <2> QED BY <1>3, <1>4, <2>1, <2>2 DEF Live, Up
<1>5. ASSUME NEW n \in Node, Receive(n)
      PROVE  k # away' /\ NextOf(Live, k, dsucc[k])' /\ UpdateUnderway(k)'
  <2>1. /\ at'[n] # "upd0"
        /\ \A m \in Node \ {n} : at'[m] = at[m] /\ dsucc'[m] = dsucc[m]
    BY <1>5, ReceiveFrame
  <2>2. k # n /\ at[k] = "upd0" /\ dsucc'[k] = dsucc[k]
    BY <2>1
  <2>3. away' = away
    BY <1>5, ReceiveTyped DEF budget
  <2>4. queue[n] # <<>> /\ Kept(n)
    BY <1>5, Receiving
  <2>5. CASE Dgram("UPDTR", dsucc[k], k, 0) \in Box(queue, k)
    BY <1>4, <2>2, <2>3, <2>4, <2>5 DEF Kept, UpdateUnderway
  <2>6. CASE Dgram("UPDTQ", k, k, 0) \in Box(queue, dsucc[k])
    <3>1. CASE dsucc[k] = n /\ Got(n) = Dgram("UPDTQ", k, k, 0)
      <4>1. /\ Got(n).kind = "UPDTQ" /\ Got(n).from = k /\ Got(n).node = k /\ Got(n).extra = 0
        BY <3>1 DEF Dgram
      <4>2. TakeUpdate(n)
        BY <1>5, <4>1, UpdateTaken
      <4>3. /\ queue' = Sent(Rest(n), k, Dgram("UPDTR", n, k, 0))
            /\ Dgram("UPDTR", n, k, 0) \in Sound
        BY <4>1, <4>2, SoundDgram, Kinds DEF TakeUpdate
      <4>4. Dgram("UPDTR", n, k, 0) \in Box(queue', k)
        BY <1>1, <1>4, <2>2, <2>4, <4>3, TakingAndSending
      <4> QED BY <1>4, <2>2, <2>3, <3>1, <4>4 DEF UpdateUnderway
    <3>2. CASE ~(dsucc[k] = n /\ Got(n) = Dgram("UPDTQ", k, k, 0))
      BY <1>4, <2>2, <2>3, <2>4, <2>6, <3>2 DEF Kept, UpdateUnderway
    <3> QED BY <3>1, <3>2
  <2> QED BY <1>4, <2>2, <2>5, <2>6 DEF UpdateUnderway
<1>6. ASSUME NEW n \in Node, HelloTimeout(n), k = n
      PROVE  k # away' /\ NextOf(Live, k, dsucc[k])' /\ UpdateUnderway(k)'
  <2>1. /\ queue' = Sent(queue, dsucc[n], Dgram("UPDTQ", n, n, 0))
        /\ n # away /\ NextOf(Live, n, dsucc[n]) /\ dsucc' = dsucc /\ away' = away
    BY <1>6 DEF HelloTimeout, tables, budget
  <2>2. dsucc[n] \in Node /\ Up(dsucc[n])
    BY <2>1 DEF NextOf, Live
  <2>3. Dgram("UPDTQ", n, n, 0) \in Sound
    BY SoundDgram, Kinds
  <2>4. Dgram("UPDTQ", n, n, 0) \in Box(queue', dsucc[n])
    BY <1>1, <2>1, <2>2, <2>3, Sending
  <2> QED BY <1>3, <1>6, <2>1, <2>4 DEF UpdateUnderway
<1>7. ASSUME NEW n \in Node, Hello(n) \/ Timeout(n) \/ Ask(n), ~(HelloTimeout(n) /\ k = n)
      PROVE  k # away' /\ NextOf(Live, k, dsucc[k])' /\ UpdateUnderway(k)'
  <2>1. at[k] = "upd0"
    <3>1. \/ Goes(n, "hello") \/ (Goes(n, "upd0") /\ k # n) \/ Goes(n, "loop")
          \/ Goes(First, "closest") \/ Goes(First, "store")
      BY <1>7 DEF Hello, Timeout, HelloTimeout, HelloTimeoutLost, Ask
    <3> QED BY <1>1, <3>1 DEF Goes
  <2>2. dsucc' = dsucc
    BY <1>7 DEF Hello, Timeout, HelloTimeout, HelloTimeoutLost, Ask, tables
  <2>3. away' = away /\ \A m \in Node : Up(m)' => Box(queue, m) \subseteq Box(queue', m)
    BY <1>7, Acting, ActTyped
  <2> QED BY <1>4, <2>1, <2>2, <2>3 DEF UpdateUnderway
<1>8. CASE UNCHANGED vars
  <2>1. at' = at /\ dsucc' = dsucc /\ queue' = queue /\ away' = away
    BY <1>8 DEF vars, tables, budget
  <2> QED BY <1>4, <2>1 DEF UpdateUnderway
<1> QED BY <1>2, <1>5, <1>6, <1>7, <1>8 DEF RepairNext, Timeout

\* A member that is gone, other than the next one, leaves the next one next.
LEMMA NextOfFewer ==
  ASSUME NEW R, NEW Q \in SUBSET R, NEW n, NEW s \in Q, NextOf(R, n, s)
  PROVE  NextOf(Q, n, s)
BY DEF NextOf

LEMMA NobodyPassedOverStep ==
  RepairInv /\ [RepairNext]_vars => NobodyPassedOver'
<1> SUFFICES ASSUME RepairInv, [RepairNext]_vars, ~(spoiled'), NEW k \in Live'
             PROVE  \/ NextOf(Live, k, succ[k])'
                    \/ ~(Up(succ[k])') /\ NextOf(Live \cup {succ[k]}, k, succ[k])'
  BY DEF NobodyPassedOver
<1>1. RepairTypes /\ ~spoiled /\ at \in [Node -> Place] /\ k \in Node
      /\ succ \in [Node -> Node \cup {NoNode}]
  BY SpoiledStays DEF RepairInv, RepairTypes, RepairTypeOK, Live
<1>2. \A n \in Node : succ[n] \in Node /\ dsucc[n] \in Node
  BY <1>1 DEF RepairInv, SuccessorsKnown
<1>3. \A n \in Live : \/ NextOf(Live, n, succ[n])
                      \/ ~Up(succ[n]) /\ NextOf(Live \cup {succ[n]}, n, succ[n])
  BY <1>1 DEF RepairInv, NobodyPassedOver
<1>4. ASSUME NEW x \in Node, Kill(x)
      PROVE  \/ NextOf(Live, k, succ[k])'
             \/ ~(Up(succ[k])') /\ NextOf(Live \cup {succ[k]}, k, succ[k])'
  <2>1. /\ at' = [at EXCEPT ![x] = "dead"] /\ at[x] = "loop" /\ x # away
        /\ succ' = succ /\ away' = away
    BY <1>4 DEF Kill, Goes, tables
  <2>2. Live' = Live \ {x} /\ x \in Live /\ ~(Up(x)')
        /\ \A m \in Node \ {x} : Up(m)' <=> Up(m)
    BY <1>1, <2>1 DEF Live, Up
  <2>3. CASE succ[k] = x
    <3>1. NextOf(Live, k, x)
      BY <1>3, <2>2, <2>3 DEF Live
    <3>2. Live' \cup {x} = Live
      BY <2>2
    <3> QED BY <2>1, <2>2, <2>3, <3>1, <3>2
  <2>4. CASE succ[k] # x /\ NextOf(Live, k, succ[k])
    <3>1. succ[k] \in Live' /\ Live' \in SUBSET Live
      BY <2>2, <2>4 DEF NextOf
    <3>2. NextOf(Live', k, succ[k])
      BY <2>4, <3>1, NextOfFewer
    <3> QED BY <2>1, <3>2
  <2>5. CASE succ[k] # x /\ ~Up(succ[k]) /\ NextOf(Live \cup {succ[k]}, k, succ[k])
    <3>1. succ[k] \in Live' \cup {succ[k]} /\ Live' \cup {succ[k]} \in SUBSET (Live \cup {succ[k]})
      BY <2>2
    <3>2. NextOf(Live' \cup {succ[k]}, k, succ[k])
      BY <2>5, <3>1, NextOfFewer
    <3>3. ~(Up(succ[k])')
      BY <1>1, <1>2, <2>1, <2>2, <2>5 DEF Up
    <3> QED BY <2>1, <3>2, <3>3 DEF Up
  <2> QED BY <1>3, <2>2, <2>3, <2>4, <2>5
<1>5. ASSUME ~\E x \in Node : Kill(x), succ'[k] = succ[k]
      PROVE  \/ NextOf(Live, k, succ[k])'
             \/ ~(Up(succ[k])') /\ NextOf(Live \cup {succ[k]}, k, succ[k])'
  <2>1. Live' = Live /\ \A m \in Node : Up(m)' <=> Up(m)
    BY <1>1, <1>5, SameLive
  <2>2. Up(succ[k])' <=> Up(succ[k])
    BY <1>1, <1>2, <1>5, <2>1 DEF Up
  <2> QED BY <1>3, <1>5, <2>1, <2>2
<1>6. ASSUME NEW n \in Node, RepairLink(n), k = n
      PROVE  NextOf(Live, k, succ[k])'
  <2>1. at[n] = "upd0" /\ succ' = [succ EXCEPT ![n] = dsucc[n]]
    BY <1>6 DEF RepairLink, Reads
  <2>2. NextOf(Live, n, dsucc[n])
    BY <1>1, <2>1 DEF RepairInv, RepairsBegin
  <2>3. ~\E x \in Node : Kill(x)
    BY <2>1, <1>1, NoKillAtBegin DEF RepairInv
  <2>4. Live' = Live
    BY <1>1, <2>3, SameLive
  <2> QED BY <1>1, <1>6, <2>1, <2>2, <2>4
<1>7. ASSUME NEW n \in Node, Receive(n) \/ Hello(n) \/ Timeout(n) \/ Ask(n),
             ~(RepairLink(n) /\ k = n)
      PROVE  succ'[k] = succ[k]
  <2>1. CASE Receive(n) /\ k # n
    BY <1>1, <2>1, ReceiveFrame
  <2>2. CASE Receive(n) /\ ~RepairLink(n)
    BY <2>2 DEF Receive, AnswerHello, AnswerQuery, TakeUpdate, Preempt, PreemptEnd, Forwarded,
       Unexpected, HelloReply, HelloBucket, RepairDouble, RepairDoubleUnset, RepairFingers,
       RepairFails, RepairDone, AskEnds, tables
  <2>3. ~HelloTimeoutLost(n)
    BY <1>2, NoNodeIsNone DEF HelloTimeoutLost
  <2>4. CASE Hello(n) \/ Timeout(n) \/ Ask(n)
    BY <2>3, <2>4 DEF Hello, Timeout, HelloTimeout, Ask, tables
  <2> QED BY <1>7, <2>1, <2>2, <2>4
<1>8. CASE UNCHANGED vars
  <2>1. succ' = succ /\ Live' = Live /\ at' = at
    BY <1>8 DEF vars, tables, budget, Live, Up
  <2> QED BY <1>3, <2>1 DEF Up
<1> QED BY <1>4, <1>5, <1>6, <1>7, <1>8 DEF RepairNext

LEMMA RepairInvStep == RepairInv /\ [RepairNext]_vars => RepairInv'
BY RepairTypesStep, HellosUnderwayStep, OnlyHellosStep, SuccessorsKnownStep,
   NobodyKilledStep, RepairsBeginStep, NobodyPassedOverStep DEF RepairInv

----------------------------------------------------------------------------
(****************************************************************************)
(* The theorems.                                                            *)
(****************************************************************************)

LEMMA RepairInvHolds == RepairSpec => []RepairInv
BY RepairInvInit, RepairInvStep, PTL DEF RepairSpec

\* The tables hold clients, the queues messages of the kinds the handlers know.
THEOREM RepairIsTyped == RepairSpec => []RepairTypeOK
<1>1. RepairInv => RepairTypeOK
  BY DEF RepairInv, RepairTypes
<1> QED BY <1>1, RepairInvHolds, PTL

\* As long as nobody is killed and no job runs, no client takes a datagram for
\* what it is not, in whatever order the timers fire (client.c:3249-3352).
THEOREM HellosAreHarmless == RepairSpec => []HellosHarmless
<1>1. RepairInv => HellosHarmless
  BY DEF RepairInv, OnlyHellos, HellosHarmless
<1> QED BY <1>1, RepairInvHolds, PTL

\* As long as nobody has taken a datagram for what it is not, and no repair has
\* begun with a wrong double successor, a client that times out has lost its
\* successor, however many clients repair the ring at the same time
\* (client.c:3354-3388).  repair_alarm shows that it need not be so after that.
THEOREM TimeoutsMeanDead == RepairSpec => TimeoutMeansDead
<1>1. RepairInv /\ [RepairNext]_vars
        => [\A n \in Node : Timeout(n) /\ ~spoiled => ~Up(succ[n])]_vars
  BY QuietMeansDown DEF RepairInv
<1> QED BY <1>1, RepairInvHolds, PTL DEF TimeoutMeansDead, RepairSpec

\* And as long as that holds, no client that is up is passed over by its
\* predecessor, in the middle of any number of repairs (client.c:3389-3403).
\* That a repair begins with the right double successor is not proved here:
\* RepairStartsRight is for the model checker.
THEOREM RepairsPassNobodyOver == RepairSpec => []NobodyPassedOver
<1>1. RepairInv => NobodyPassedOver
  BY DEF RepairInv
<1> QED BY <1>1, RepairInvHolds, PTL
==============================================================================

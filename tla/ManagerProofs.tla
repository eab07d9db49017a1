---------------------------- MODULE ManagerProofs ----------------------------
(****************************************************************************)
(* The manager gives the jobs of a configuration in their order, each with  *)
(* its own argument, and never two at a time: proved for every number of    *)
(* clients, every configuration of any length, and clients that give up     *)
(* whenever they like.                                                      *)
(****************************************************************************)
EXTENDS Manager, WellFoundedInduction, TLAPS

----------------------------------------------------------------------------
(****************************************************************************)
(* The lists of the configuration.                                          *)
(****************************************************************************)

\* A set of numbers that is not empty has a least one.
LEMMA LeastIsLeast ==
  ASSUME NEW S \in SUBSET Nat, S # {}
  PROVE  Least(S) \in S /\ \A r \in S : Least(S) <= r
<1>1. PICK m \in S : \A k \in S : <<k, m>> \notin OpToRel(<, Nat)
  BY WFMin, NatLessThanWellFounded, Zenon
<1>2. \A k \in S : ~(k < m)
  BY <1>1, Zenon DEF OpToRel
<1>3. \A k \in S : m <= k
  BY <1>2
<1> QED BY <1>3 DEF Least

\* The next line of a kind, after one line and after the line before it.
LEMMA AfterHere ==
  ASSUME jobs \in Seq(Job), NEW q \in 1 .. Len(jobs)
  PROVE  /\ After(jobs[q].kind, q - 1) = q
         /\ \A k \in Kind : k # jobs[q].kind => After(k, q) = After(k, q - 1)
<1> DEFINE S == Lines(jobs[q].kind, q - 1)
<1>1. S \in SUBSET Nat /\ q \in S /\ \A r \in S : q <= r
  BY DEF Lines
<1>2. Least(S) = q
  BY <1>1, LeastIsLeast
<1>3. After(jobs[q].kind, q - 1) = q
  BY <1>1, <1>2 DEF After
<1>4. ASSUME NEW k \in Kind, k # jobs[q].kind
      PROVE  After(k, q) = After(k, q - 1)
  <2>1. Lines(k, q) = Lines(k, q - 1)
    BY <1>4 DEF Lines
  <2> QED BY <2>1 DEF After
<1> QED BY <1>3, <1>4

LEMMA AfterType ==
  ASSUME jobs \in Seq(Job), NEW k \in Kind, NEW p \in Nat
  PROVE  /\ After(k, p) \in 1 .. Len(jobs) + 1
         /\ After(k, p) # NULL => jobs[After(k, p)].kind = k /\ jobs[After(k, p)] \in Job
<1>1. CASE Lines(k, p) = {}
  BY <1>1 DEF After, NULL
<1>2. CASE Lines(k, p) # {}
  <2>1. Lines(k, p) \in SUBSET Nat
    BY DEF Lines
  <2>2. Least(Lines(k, p)) \in Lines(k, p)
    BY <1>2, <2>1, LeastIsLeast
  <2> QED BY <1>2, <2>2 DEF After, Lines
<1> QED BY <1>1, <1>2

----------------------------------------------------------------------------
(****************************************************************************)
(* Types.                                                                   *)
(****************************************************************************)

\* How far the loop is: one job is under way, so curjob is one ahead.
Counting ==
  /\ cursor \in [Kind -> 1 .. Len(jobs) + 1]
  /\ mpc = "start" => curjob = 1 /\ nJobleft = Len(jobs)
  /\ mpc = "loop" => nJobleft \in 1 .. Len(jobs) /\ curjob = Len(jobs) - nJobleft + 2

TypeInv == ManagerTypeOK /\ Counting

LEMMA JobsAreJobs ==
  ASSUME ManagerTypeOK
  PROVE  /\ jobs \in Seq(Job) /\ Len(jobs) \in Nat
         /\ \A q \in 1 .. Len(jobs) : /\ jobs[q] \in Job /\ jobs[q].kind \in Kind
                                      /\ jobs[q].arg \in Client \cup Word
                                      /\ jobs[q] = [kind |-> jobs[q].kind, arg |-> jobs[q].arg]
<1>1. jobs \in Seq(Job)
  BY ManagerAssumption DEF ManagerTypeOK
<1>2. ASSUME NEW j \in Job
      PROVE  /\ j.kind \in Kind /\ j.arg \in Client \cup Word
             /\ j = [kind |-> j.kind, arg |-> j.arg]
  BY DEF Job
<1>3. Len(jobs) \in Nat /\ \A q \in 1 .. Len(jobs) : jobs[q] \in Job
  BY <1>1
<1> QED BY <1>1, <1>2, <1>3

\* A job that is given is written to the list of jobs given and to the stream
\* of one client at most.
LEMMA GiveTypes ==
  ASSUME TypeInv, NEW k \in Kind, NEW p, p = cursor[k], p # NULL,
         sockset' \subseteq Client, UNCHANGED up,
         k \in {"end_client", "kill_client"} => jobs[p].arg \in Client,
         Give(k, p)
  PROVE  /\ inbox' \in [Client -> Seq(Order)]
         /\ given' \in Seq(Job) /\ given' # given
         /\ given' = Append(given, [kind |-> k, arg |-> jobs[p].arg])
         /\ given'[Len(given')] = [kind |-> k, arg |-> jobs[p].arg]
         /\ [kind |-> k, arg |-> jobs[p].arg] \in Job
         /\ cursor' \in [Kind -> 1 .. Len(jobs) + 1]
         /\ curjob' = curjob + 1 /\ jobs' = jobs
<1> DEFINE job == [kind |-> k, arg |-> jobs[p].arg]
           to == IF k \in {"store", "search"} THEN First ELSE job.arg
<1>1. p \in 1 .. Len(jobs) /\ jobs \in Seq(Job) /\ jobs[p].arg \in Client \cup Word
      /\ cursor \in [Kind -> 1 .. Len(jobs) + 1] /\ Len(jobs) \in Nat
  <2>1. ManagerTypeOK /\ cursor \in [Kind -> 1 .. Len(jobs) + 1]
    BY DEF TypeInv, Counting
  <2>2. /\ jobs \in Seq(Job) /\ Len(jobs) \in Nat
        /\ \A q \in 1 .. Len(jobs) : jobs[q].arg \in Client \cup Word
    BY <2>1, JobsAreJobs
  <2>3. p \in 1 .. Len(jobs)
    BY <2>1, <2>2 DEF NULL
  <2> QED BY <2>1, <2>2, <2>3
<1>2. job \in Job /\ job \in Order
  BY <1>1 DEF Job, Order, Kind
<1>3. to \in Client
  BY ManagerAssumption DEF Kind
<1>4. inbox \in [Client -> Seq(Order)] /\ given \in Seq(Job) /\ curjob \in Nat
  BY DEF TypeInv, ManagerTypeOK
<1>5. /\ inbox' = Told(inbox, to, job) /\ given' = Append(given, job)
      /\ cursor' = [cursor EXCEPT ![k] = After(k, p)]
      /\ curjob' = curjob + 1 /\ jobs' = jobs
  BY DEF Give
<1> HIDE DEF job, to
<1>6. inbox' \in [Client -> Seq(Order)]
  BY <1>2, <1>3, <1>4, <1>5 DEF Told
<1>7. After(k, p) \in 1 .. Len(jobs) + 1
  BY <1>1, AfterType
<1>8. cursor' \in [Kind -> 1 .. Len(jobs) + 1]
  BY <1>1, <1>5, <1>7
<1>9. given' \in Seq(Job) /\ given' # given /\ given'[Len(given')] = job
  BY <1>2, <1>4, <1>5
<1> QED BY <1>2, <1>5, <1>6, <1>8, <1>9 DEF job

LEMMA GiveNextTypes ==
  ASSUME TypeInv, curjob \in 1 .. Len(jobs), sockset' \subseteq Client, UNCHANGED up, GiveNext
  PROVE  \/ mpc' \in {"crashed", "exit"} /\ UNCHANGED <<lists, inbox, given>>
         \/ /\ mpc' = mpc /\ curjob' = curjob + 1 /\ jobs' = jobs
            /\ inbox' \in [Client -> Seq(Order)]
            /\ given' \in Seq(Job)
            /\ cursor' \in [Kind -> 1 .. Len(jobs) + 1]
            /\ given' # given
            /\ jobs[curjob].kind = "kill_client" => given'[Len(given')].arg \in Client
<1> DEFINE k == jobs[curjob].kind
           p == cursor[k]
<1>1. k \in Kind
  BY JobsAreJobs DEF TypeInv
<1>2. CASE UNCHANGED <<lists, inbox, given>> /\ mpc' \in {"crashed", "exit"}
  BY <1>2
<1>3. CASE /\ p # NULL /\ ~(k \in {"end_client", "kill_client"} /\ jobs[p].arg \notin Client)
           /\ Give(k, p) /\ UNCHANGED mpc
  <2>1. k \in {"end_client", "kill_client"} => jobs[p].arg \in Client
    BY <1>3
  <2> HIDE DEF k, p
  <2>p. p = cursor[k]
    BY DEF p
  <2>2. /\ inbox' \in [Client -> Seq(Order)]
        /\ given' \in Seq(Job) /\ given' # given
        /\ given'[Len(given')] = [kind |-> k, arg |-> jobs[p].arg]
        /\ cursor' \in [Kind -> 1 .. Len(jobs) + 1]
        /\ curjob' = curjob + 1 /\ jobs' = jobs
    BY <1>1, <1>3, <2>1, <2>p, GiveTypes
  <2>3. k = "kill_client" => given'[Len(given')].arg \in Client
    BY <2>1, <2>2
  <2>4. k = "kill_client" <=> jobs[curjob].kind = "kill_client"
    BY DEF k
  <2> QED BY <1>3, <2>2, <2>3, <2>4
<1> QED BY <1>2, <1>3 DEF GiveNext, Stops

LEMMA TypeInit == ManagerInit => TypeInv
<1> SUFFICES ASSUME ManagerInit PROVE TypeInv
  OBVIOUS
<1>1. jobs \in Seq(Job) /\ jobs \in Configs
  BY ManagerAssumption DEF ManagerInit
<1>2. cursor \in [Kind -> 1 .. Len(jobs) + 1]
  BY <1>1, AfterType DEF ManagerInit
<1>3. cursor \in [Kind -> Nat \ {0}] /\ Len(jobs) \in Nat
  BY <1>1, <1>2
<1>4. /\ curjob = 1 /\ nJobleft = Len(jobs) /\ prevJobWasKill = FALSE /\ clientToKill = NoClient
      /\ sockset = Client /\ mpc = "start" /\ up = Client /\ quits = 0
  BY DEF ManagerInit
<1>5. inbox = [c \in Client |-> <<>>] /\ outbox = [c \in Client |-> <<>>] /\ given = <<>>
  BY DEF ManagerInit
<1>6. inbox \in [Client -> Seq(Order)] /\ outbox \in [Client -> Seq(Message)] /\ given \in Seq(Job)
  BY <1>5
<1>b. prevJobWasKill \in BOOLEAN
  BY <1>4
<1>q. quits \in 0 .. Quits
  BY <1>4, ManagerAssumption
<1>7. /\ clientToKill \in Client \cup {NoClient}
      /\ curjob \in Nat /\ nJobleft \in Nat
      /\ sockset \subseteq Client /\ up \subseteq Client
      /\ mpc \in {"start", "loop", "exit", "done", "crashed"}
  BY <1>3, <1>4
<1>8. ManagerTypeOK
  BY <1>1, <1>3, <1>6, <1>b, <1>q, <1>7 DEF ManagerTypeOK
<1> QED BY <1>2, <1>4, <1>8 DEF TypeInv, Counting

\* What Tail, Append and the like leave of a client's stream.
LEMMA StreamTypes ==
  ASSUME ManagerTypeOK, NEW c \in Client
  PROVE  /\ \A m : Says(c, m) => outbox' \in [Client -> Seq(Message)]
         /\ Orders(c) /\ Done(c) => inbox' \in [Client -> Seq(Order)]
         /\ [outbox EXCEPT ![c] = Append(@, "ok")] \in [Client -> Seq(Message)]
         /\ [outbox EXCEPT ![c] = Append(@, "eof")] \in [Client -> Seq(Message)]
         /\ [outbox EXCEPT ![c] = @ \o <<"ok", "eof">>] \in [Client -> Seq(Message)]
<1>1. inbox \in [Client -> Seq(Order)] /\ outbox \in [Client -> Seq(Message)]
  BY DEF ManagerTypeOK
<1>2. "ok" \in Message /\ "eof" \in Message /\ <<"ok", "eof">> \in Seq(Message)
  BY DEF Message
<1>3. outbox[c] \in Seq(Message) /\ inbox[c] \in Seq(Order)
  BY <1>1
<1>4. /\ Append(outbox[c], "ok") \in Seq(Message) /\ Append(outbox[c], "eof") \in Seq(Message)
      /\ outbox[c] # <<>> => Tail(outbox[c]) \in Seq(Message)
      /\ inbox[c] # <<>> => Tail(inbox[c]) \in Seq(Order)
  BY <1>2, <1>3
<1>5. outbox[c] \o <<"ok", "eof">> \in Seq(Message)
  BY <1>2, <1>3
<1> QED BY <1>1, <1>4, <1>5 DEF Says, Orders, Done

LEMMA ClientTypes ==
  ASSUME TypeInv, NEW c \in Client, DoJob(c) \/ Die(c) \/ Quit(c) \/ Leave(c)
  PROVE  TypeInv'
<1>1. ManagerTypeOK
  BY DEF TypeInv
<1>2. inbox' \in [Client -> Seq(Order)]
  BY <1>1, StreamTypes DEF DoJob, Die, Quit, Leave, ManagerTypeOK
<1>3. outbox' \in [Client -> Seq(Message)]
  BY <1>1, StreamTypes DEF DoJob, Die, Quit, Leave
<1>4. up' \subseteq Client /\ quits' \in 0 .. Quits
  <2>1. up \subseteq Client /\ quits \in 0 .. Quits /\ Quits \in Nat
    BY <1>1, ManagerAssumption DEF ManagerTypeOK
  <2>2. up' = up \/ up' = up \ {c}
    BY DEF DoJob, Die, Quit, Leave
  <2>3. quits' = quits \/ (quits < Quits /\ quits' = quits + 1)
    BY DEF DoJob, Die, Quit, Leave
  <2> QED BY <2>1, <2>2, <2>3
<1>5. UNCHANGED <<jobs, cursor, curjob, nJobleft, prevJobWasKill, clientToKill, sockset, mpc, given>>
  BY DEF DoJob, Die, Quit, Leave, lists, loop
<1> QED BY <1>2, <1>3, <1>4, <1>5 DEF TypeInv, ManagerTypeOK, Counting

\* The sockets that are left after a kill.
LEMMA ClosedTypes ==
  ASSUME ManagerTypeOK, NEW s, Closed(s)
  PROVE  s \subseteq Client
BY DEF ManagerTypeOK, Closed

LEMMA OkTypes ==
  ASSUME TypeInv, NEW c \in Client, OkFirst \/ OkOther(c)
  PROVE  TypeInv'
<1>1. ManagerTypeOK /\ Counting /\ mpc = "loop"
  BY DEF TypeInv, OkFirst, OkOther, Says
<1>2. /\ nJobleft \in 1 .. Len(jobs) /\ curjob = Len(jobs) - nJobleft + 2 /\ Len(jobs) \in Nat
      /\ cursor \in [Kind -> 1 .. Len(jobs) + 1]
  BY <1>1, JobsAreJobs DEF Counting
<1>3. nJobleft' = nJobleft - 1 /\ UNCHANGED <<up, quits>>
  BY DEF OkFirst, OkOther, Count
<1>4. outbox' \in [Client -> Seq(Message)]
  BY <1>1, StreamTypes, ManagerAssumption DEF OkFirst, OkOther
<1>5. sockset' \subseteq Client
  <2>1. sockset \subseteq Client
    BY <1>1 DEF ManagerTypeOK
  <2>2. Closed(sockset') => sockset' \subseteq Client
    BY <1>1, ClosedTypes
  <2> QED BY <2>1, <2>2 DEF OkFirst, OkOther
<1>6. NextOrLast
  BY DEF OkFirst, OkOther
<1>7. /\ jobs \in Configs /\ curjob \in Nat
      /\ inbox \in [Client -> Seq(Order)] /\ given \in Seq(Job)
      /\ prevJobWasKill \in BOOLEAN /\ clientToKill \in Client \cup {NoClient}
      /\ up \subseteq Client /\ quits \in 0 .. Quits
  BY <1>1 DEF ManagerTypeOK
<1>8. \/ mpc' \in {"exit", "crashed"} /\ UNCHANGED <<jobs, cursor, curjob, inbox, given>>
      \/ /\ nJobleft # 1
         /\ mpc' = mpc /\ curjob' = curjob + 1 /\ jobs' = jobs
         /\ inbox' \in [Client -> Seq(Order)]
         /\ given' \in Seq(Job)
         /\ cursor' \in [Kind -> 1 .. Len(jobs) + 1]
         /\ jobs[curjob].kind = "kill_client" => given'[Len(given')].arg \in Client
  <2>1. CASE nJobleft = 1
    BY <1>6, <2>1 DEF NextOrLast, Stops, lists
  <2>2. CASE nJobleft # 1
    <3>1. curjob \in 1 .. Len(jobs)
      BY <1>2, <2>2
    <3>2. GiveNext
      BY <1>6, <2>2 DEF NextOrLast
    <3> QED BY <1>3, <1>5, <2>2, <3>1, <3>2, GiveNextTypes DEF lists
  <2> QED BY <2>1, <2>2
<1>j. jobs' = jobs /\ mpc' \in {"loop", "exit", "crashed"}
      /\ inbox' \in [Client -> Seq(Order)] /\ given' \in Seq(Job)
      /\ cursor' \in [Kind -> 1 .. Len(jobs) + 1]
  BY <1>1, <1>2, <1>7, <1>8
<1>k. /\ curjob' \in Nat /\ nJobleft' \in Nat
      /\ mpc' = "loop" => nJobleft' \in 1 .. Len(jobs) /\ curjob' = Len(jobs) - nJobleft' + 2
  BY <1>2, <1>3, <1>7, <1>8
<1>9. /\ jobs' \in Configs /\ curjob' \in Nat /\ nJobleft' \in Nat
      /\ mpc' \in {"loop", "exit", "crashed"}
      /\ inbox' \in [Client -> Seq(Order)] /\ given' \in Seq(Job)
      /\ cursor' \in [Kind -> 1 .. Len(jobs') + 1]
      /\ mpc' = "loop" => nJobleft' \in 1 .. Len(jobs') /\ curjob' = Len(jobs') - nJobleft' + 2
  BY <1>7, <1>j, <1>k
<1>10. prevJobWasKill' \in BOOLEAN
  BY <1>7 DEF OkFirst, OkOther
<1>11. clientToKill' \in Client \cup {NoClient}
  <2>1. CASE UNCHANGED clientToKill
    BY <1>7, <2>1
  <2>2. CASE /\ given' # given /\ jobs[curjob].kind = "kill_client"
             /\ clientToKill' = given'[Len(given')].arg
    BY <1>8, <2>2
  <2> QED BY <2>1, <2>2 DEF OkFirst, OkOther
<1>12. cursor' \in [Kind -> Nat \ {0}]
  BY <1>2, <1>j
<1> QED BY <1>3, <1>4, <1>5, <1>7, <1>9, <1>10, <1>11, <1>12 DEF TypeInv, ManagerTypeOK, Counting

LEMMA StopTypes ==
  ASSUME TypeInv, NEW c \in Client, Wild(c) \/ Eof(c) \/ SayExit
  PROVE  TypeInv'
<1>1. ManagerTypeOK /\ Counting
  BY DEF TypeInv
<1>2. /\ mpc' \in {"crashed", "exit", "done"} /\ sockset' \subseteq Client
      /\ UNCHANGED <<jobs, cursor, curjob, nJobleft, prevJobWasKill, clientToKill, up, given, quits>>
  BY <1>1 DEF Wild, Eof, SayExit, Stops, lists, ManagerTypeOK
<1>3. outbox' \in [Client -> Seq(Message)]
  BY <1>1, StreamTypes DEF Wild, Eof, SayExit, ManagerTypeOK
<1>4. inbox' \in [Client -> Seq(Order)]
  <2>1. inbox \in [Client -> Seq(Order)] /\ Exit \in Order
    BY <1>1 DEF ManagerTypeOK, Order
  <2>2. \A d \in Client : Append(inbox[d], Exit) \in Seq(Order)
    BY <2>1
  <2>3. CASE SayExit
    BY <2>1, <2>2, <2>3 DEF SayExit
  <2> QED BY <2>1, <2>3 DEF Wild, Eof, Stops
<1> QED BY <1>1, <1>2, <1>3, <1>4 DEF TypeInv, ManagerTypeOK, Counting

LEMMA FirstJobTypes ==
  ASSUME TypeInv, FirstJob
  PROVE  TypeInv'
<1>1. ManagerTypeOK /\ Counting
  BY DEF TypeInv
<1>2. /\ mpc = "start" /\ curjob = 1 /\ nJobleft = Len(jobs)
      /\ UNCHANGED <<nJobleft, prevJobWasKill, clientToKill, sockset, outbox, up, quits>>
  BY <1>1 DEF FirstJob, Counting
<1>3. CASE mpc' \in {"exit", "crashed"} /\ UNCHANGED <<lists, inbox, given>>
  BY <1>1, <1>2, <1>3 DEF TypeInv, ManagerTypeOK, Counting, lists
<1>4. CASE /\ jobs # <<>> /\ cursor["store"] # NULL /\ Give("store", cursor["store"])
           /\ mpc' = "loop"
  <2>1. sockset' \subseteq Client /\ "store" \in Kind
    BY <1>1, <1>2 DEF ManagerTypeOK, Kind
  <2> DEFINE k == "store"
             p == cursor[k]
  <2> HIDE DEF k, p
  <2>p. p = cursor[k] /\ k \in Kind /\ p # NULL /\ Give(k, p)
        /\ k \notin {"end_client", "kill_client"}
    BY <1>4, <2>1 DEF k, p
  <2>2. /\ inbox' \in [Client -> Seq(Order)] /\ given' \in Seq(Job)
        /\ cursor' \in [Kind -> 1 .. Len(jobs) + 1]
        /\ curjob' = curjob + 1 /\ jobs' = jobs
    BY <1>2, <2>1, <2>p, GiveTypes
  <2>3. jobs \in Seq(Job) /\ Len(jobs) \in Nat /\ Len(jobs) >= 1
    BY <1>1, <1>4, JobsAreJobs
  <2>4. cursor' \in [Kind -> Nat \ {0}]
    BY <2>2, <2>3
  <2> QED BY <1>1, <1>2, <1>4, <2>2, <2>3, <2>4 DEF TypeInv, ManagerTypeOK, Counting
<1> QED BY <1>3, <1>4 DEF FirstJob, Stops

LEMMA TypeStep == TypeInv /\ [ManagerNext]_mvars => TypeInv'
<1> SUFFICES ASSUME TypeInv, [ManagerNext]_mvars PROVE TypeInv'
  OBVIOUS
<1>1. CASE UNCHANGED mvars
  BY <1>1 DEF mvars, lists, loop, streams, TypeInv, ManagerTypeOK, Counting, NULL
<1>2. CASE FirstJob
  BY <1>2, FirstJobTypes
<1>3. CASE OkFirst \/ \E c \in Client : OkOther(c)
  BY <1>3, OkTypes, ManagerAssumption
<1>4. CASE SayExit \/ \E c \in Client : Wild(c) \/ Eof(c)
  BY <1>4, StopTypes, ManagerAssumption
<1>5. CASE \E c \in Client : ClientDoes(c) \/ Quit(c)
  BY <1>5, ClientTypes DEF ClientDoes
<1> QED BY <1>1, <1>2, <1>3, <1>4, <1>5 DEF ManagerNext, ManagerStep

\* The types, and how far the loop is.
THEOREM ManagerTypes == ManagerSpec => []ManagerTypeOK
<1>1. ManagerSpec => []TypeInv
  BY TypeInit, TypeStep, PTL DEF ManagerSpec
<1>2. TypeInv => ManagerTypeOK
  BY DEF TypeInv
<1> QED BY <1>1, <1>2, PTL

----------------------------------------------------------------------------
(****************************************************************************)
(* The order of the jobs.                                                   *)
(****************************************************************************)

\* The lists are walked in step: each is at its first line that is still to
\* come.
InStep ==
  /\ Len(given) <= Len(jobs)
  /\ \A i \in 1 .. Len(given) : given[i] = jobs[i]
  /\ \A k \in Kind : cursor[k] = After(k, Len(given))

OrderInv ==
  /\ TypeInv
  /\ mpc = "start" => given = <<>>
  /\ curjob = Len(given) + 1
  /\ jobs # <<>> /\ jobs[1].kind = "store" => InStep

\* The next line of the configuration is given, and the lists stay in step.
LEMMA GiveInOrder ==
  ASSUME TypeInv, InStep, NEW q \in 1 .. Len(jobs), q = Len(given) + 1,
         NEW k \in Kind, k = jobs[q].kind, NEW p, p = cursor[k], Give(k, p)
  PROVE  InStep'
<1>1. /\ ManagerTypeOK /\ jobs \in Seq(Job) /\ Len(jobs) \in Nat
      /\ jobs[q] = [kind |-> k, arg |-> jobs[q].arg] /\ jobs[q] \in Job
      /\ given \in Seq(Job) /\ cursor \in [Kind -> 1 .. Len(jobs) + 1]
  BY JobsAreJobs DEF TypeInv, Counting, ManagerTypeOK
<1>2. p = q
  BY <1>1, AfterHere DEF InStep
<1>3. /\ given' = Append(given, jobs[q]) /\ jobs' = jobs
      /\ cursor' = [cursor EXCEPT ![k] = After(k, q)]
  BY <1>1, <1>2 DEF Give
<1>4. Len(given') = q /\ \A i \in 1 .. q : given'[i] = jobs[i]
  BY <1>1, <1>3 DEF InStep
<1>5. ASSUME NEW l \in Kind PROVE cursor'[l] = After(l, q)
  <2>1. CASE l = k
    BY <1>1, <1>3, <2>1
  <2>2. CASE l # k
    <3>1. After(l, q) = After(l, q - 1)
      BY <1>1, <2>2, AfterHere
    <3>2. cursor[l] = After(l, q - 1)
      BY <1>1 DEF InStep
    <3> QED BY <1>1, <1>3, <2>2, <3>1, <3>2
  <2> QED BY <2>1, <2>2
<1>6. \A l \in Kind : After(l, q)' = After(l, q)
  BY <1>3 DEF After, Lines, NULL
<1> QED BY <1>3, <1>4, <1>5, <1>6 DEF InStep

LEMMA OrderInit == ManagerInit => OrderInv
<1> SUFFICES ASSUME ManagerInit PROVE OrderInv
  OBVIOUS
<1>1. TypeInv
  BY TypeInit
<1>2. given = <<>> /\ curjob = 1 /\ cursor = [k \in Kind |-> After(k, 0)] /\ Len(given) = 0
  BY DEF ManagerInit
<1>3. Len(jobs) \in Nat
  BY <1>1, JobsAreJobs DEF TypeInv
<1> QED BY <1>1, <1>2, <1>3 DEF OrderInv, InStep

\* Most steps give nothing.
LEMMA NothingGiven ==
  ASSUME OrderInv, TypeInv', UNCHANGED <<lists, given>>, mpc' # "start" \/ mpc = "start"
  PROVE  OrderInv'
<1>1. InStep => InStep'
  BY DEF InStep, lists, After, Lines, NULL
<1> QED BY <1>1 DEF OrderInv, lists

LEMMA OkInOrder ==
  ASSUME OrderInv, NEW c \in Client, OkFirst \/ OkOther(c)
  PROVE  OrderInv'
<1>1. TypeInv' /\ mpc = "loop"
  BY OkTypes DEF OrderInv, OkFirst, OkOther, Says
<1>2. NextOrLast /\ Counting /\ ManagerTypeOK
  BY DEF OkFirst, OkOther, OrderInv, TypeInv
<1>3. CASE UNCHANGED <<lists, given>> /\ mpc' # "start"
  BY <1>1, <1>3, NothingGiven
<1>4. CASE nJobleft # 1 /\ GiveNext /\ ~UNCHANGED <<lists, given>>
  <2> DEFINE k == jobs[curjob].kind
             p == cursor[k]
  <2>1. curjob \in 1 .. Len(jobs) /\ Len(jobs) \in Nat
    BY <1>1, <1>2, <1>4, JobsAreJobs DEF Counting
  <2>2. k \in Kind
    BY <1>2, <2>1, JobsAreJobs
  <2>3. Give(k, p) /\ mpc' = "loop"
    BY <1>1, <1>4 DEF GiveNext, Stops
  <2>4. curjob' = curjob + 1 /\ jobs' = jobs /\ Len(given') = Len(given) + 1
    BY <1>2, <2>3 DEF Give, ManagerTypeOK
  <2> HIDE DEF p
  <2>5. jobs # <<>> /\ jobs[1].kind = "store" => InStep'
    <3>1. p = cursor[k] /\ curjob = Len(given) + 1
      BY DEF p, OrderInv
    <3> HIDE DEF k
    <3>2. k = jobs[curjob].kind
      BY DEF k
    <3>3. PICK q \in 1 .. Len(jobs) : q = curjob
      BY <2>1
    <3> QED BY <2>2, <2>3, <3>1, <3>2, <3>3, GiveInOrder DEF OrderInv
  <2>6. curjob' = Len(given') + 1
    BY <2>4 DEF OrderInv
  <2> QED BY <1>1, <2>3, <2>4, <2>5, <2>6 DEF OrderInv
<1>5. UNCHANGED <<lists, given>> => mpc' # "start"
  BY <1>1, <1>2 DEF NextOrLast, GiveNext, Stops, Give
<1> QED BY <1>2, <1>3, <1>4, <1>5 DEF NextOrLast, Stops

LEMMA FirstJobInOrder ==
  ASSUME OrderInv, FirstJob
  PROVE  OrderInv'
<1>1. TypeInv' /\ mpc = "start" /\ given = <<>> /\ curjob = 1 /\ Len(given) = 0
  BY FirstJobTypes DEF OrderInv, FirstJob
<1>2. ManagerTypeOK /\ jobs \in Seq(Job) /\ Len(jobs) \in Nat
  BY JobsAreJobs DEF OrderInv, TypeInv
<1>3. CASE UNCHANGED <<lists, given>> /\ mpc' \in {"exit", "crashed"}
  BY <1>1, <1>3, NothingGiven
<1>4. CASE jobs # <<>> /\ Give("store", cursor["store"]) /\ mpc' = "loop"
  <2> DEFINE k == "store"
             p == cursor[k]
  <2>1. k \in Kind /\ 1 \in 1 .. Len(jobs)
    BY <1>2, <1>4 DEF Kind
  <2>2. curjob' = curjob + 1 /\ jobs' = jobs /\ Len(given') = Len(given) + 1
    BY <1>2, <1>4 DEF Give, ManagerTypeOK
  <2> HIDE DEF p, k
  <2>3. jobs[1].kind = "store" => InStep'
    <3>1. p = cursor[k] /\ Give(k, p)
      BY <1>4 DEF p, k
    <3>2. jobs[1].kind = "store" => k = jobs[1].kind
      BY DEF k
    <3> QED BY <1>1, <1>4, <2>1, <3>1, <3>2, GiveInOrder DEF OrderInv
  <2> QED BY <1>1, <1>4, <2>2, <2>3 DEF OrderInv
<1> QED BY <1>3, <1>4 DEF FirstJob, Stops

LEMMA OrderStep == OrderInv /\ [ManagerNext]_mvars => OrderInv'
<1> SUFFICES ASSUME OrderInv, [ManagerNext]_mvars PROVE OrderInv'
  OBVIOUS
<1>1. TypeInv'
  BY TypeStep DEF OrderInv
<1>2. CASE FirstJob
  BY <1>2, FirstJobInOrder
<1>3. CASE OkFirst \/ \E c \in Client : OkOther(c)
  BY <1>3, OkInOrder, ManagerAssumption
<1>4. CASE \/ UNCHANGED mvars \/ SayExit
           \/ \E c \in Client : Wild(c) \/ Eof(c) \/ ClientDoes(c) \/ Quit(c)
  <2>1. UNCHANGED <<lists, given>> /\ (mpc' # "start" \/ mpc = "start")
    BY <1>4 DEF SayExit, Wild, Eof, ClientDoes, DoJob, Die, Leave, Quit, Stops, mvars, loop
  <2> QED BY <1>1, <2>1, NothingGiven
<1> QED BY <1>2, <1>3, <1>4 DEF ManagerNext, ManagerStep

\* A configuration that begins with a store is carried out in its order.
THEOREM OrderKept == ManagerSpec => []JobsInOrder
<1>1. ManagerSpec => []OrderInv
  BY OrderInit, OrderStep, PTL DEF ManagerSpec
<1>2. OrderInv => JobsInOrder
  BY DEF OrderInv, InStep, JobsInOrder
<1> QED BY <1>1, <1>2, PTL

----------------------------------------------------------------------------
(****************************************************************************)
(* One job at a time.                                                       *)
(****************************************************************************)

Idle == \A c \in Client : Undone(c) = {} /\ Unheard(c) = {}

WorkInv ==
  /\ TypeInv
  /\ OneJobAtATime
  /\ mpc = "start" => Idle

LEMMA Streams ==
  ASSUME TypeInv
  PROVE  /\ inbox \in [Client -> Seq(Order)] /\ outbox \in [Client -> Seq(Message)]
         /\ up \subseteq Client
BY DEF TypeInv, ManagerTypeOK

\* A job is under way once it is given to a ring that was idle.
LEMMA GiveWork ==
  ASSUME TypeInv, NEW k, NEW p, Give(k, p),
         \A c \in Client : Undone(c) = {} /\ Unheard(c)' = {}
  PROVE  OneJobAtATime'
<1> DEFINE job == [kind |-> k, arg |-> jobs[p].arg]
           to == IF k \in {"store", "search"} THEN First ELSE job.arg
<1>1. inbox' = Told(inbox, to, job)
  BY DEF Give
<1> HIDE DEF job, to
<1>2. ASSUME NEW c \in Client, NEW i \in Undone(c)'
      PROVE  c = to /\ i = Len(inbox[c]) + 1
  <2>1. inbox[c] \in Seq(Order) /\ inbox \in [Client -> Seq(Order)] /\ Undone(c) = {}
    BY Streams
  <2>2. i \in DOMAIN inbox'[c] /\ inbox'[c][i] # Exit
    BY <1>2 DEF Undone
  <2>3. inbox'[c] = inbox[c] \/ (c = to /\ inbox'[c] = Append(inbox[c], job))
    BY <1>1, <2>1 DEF Told
  <2>4. \A j \in DOMAIN inbox[c] : inbox[c][j] = Exit
    BY <2>1 DEF Undone
  <2>5. DOMAIN inbox[c] = 1 .. Len(inbox[c]) /\ Len(inbox[c]) \in Nat
    BY <2>1
  <2> QED BY <2>1, <2>2, <2>3, <2>4, <2>5
<1> QED BY <1>2 DEF OneJobAtATime

\* What is heard is the only thing under way.
LEMMA HeardOk ==
  ASSUME WorkInv, NEW c \in Client, Says(c, "ok")
  PROVE  \A d \in Client : Undone(d) = {} /\ Unheard(d)' = {}
<1>1. /\ outbox[c] \in Seq(Message) /\ outbox \in [Client -> Seq(Message)]
      /\ outbox[c] # <<>> /\ outbox[c][1] = "ok"
      /\ outbox' = [outbox EXCEPT ![c] = Tail(@)]
  BY Streams DEF WorkInv, Says
<1>2. 1 \in Unheard(c)
  BY <1>1 DEF Unheard
<1>3. \A d \in Client : Undone(d) = {} /\ \A i \in Unheard(d) : d = c /\ i = 1
  BY <1>2 DEF WorkInv, OneJobAtATime
<1>4. ASSUME NEW d \in Client, NEW i \in Unheard(d)' PROVE FALSE
  <2>1. i \in DOMAIN outbox'[d] /\ outbox'[d][i] = "ok"
    BY <1>4 DEF Unheard
  <2>2. CASE d = c
    <3>1. outbox'[d] = Tail(outbox[c])
      BY <1>1, <2>2
    <3>2. /\ i \in 1 .. Len(outbox[c]) - 1 /\ Tail(outbox[c])[i] = outbox[c][i + 1]
          /\ i + 1 \in DOMAIN outbox[c] /\ i + 1 # 1
      BY <1>1, <2>1, <3>1
    <3>3. i + 1 \in Unheard(c)
      BY <2>1, <3>1, <3>2 DEF Unheard
    <3> QED BY <1>3, <3>2, <3>3
  <2>3. CASE d # c
    <3>1. i \in Unheard(d)
      BY <1>1, <2>1, <2>3 DEF Unheard
    <3> QED BY <1>3, <2>3, <3>1
  <2> QED BY <2>2, <2>3
<1> QED BY <1>3, <1>4

LEMMA OkWork ==
  ASSUME WorkInv, NEW c \in Client, OkFirst \/ OkOther(c)
  PROVE  OneJobAtATime'
<1>1. \A d \in Client : Undone(d) = {} /\ Unheard(d)' = {}
  BY HeardOk, ManagerAssumption DEF OkFirst, OkOther
<1>2. NextOrLast
  BY DEF OkFirst, OkOther
<1>3. CASE UNCHANGED inbox
  BY <1>1, <1>3 DEF OneJobAtATime, Undone
<1>4. CASE GiveNext /\ ~UNCHANGED inbox
  <2> DEFINE k == jobs[curjob].kind
             p == cursor[k]
  <2>1. Give(k, p)
    BY <1>4 DEF GiveNext, Stops
  <2> HIDE DEF k, p
  <2> QED BY <1>1, <2>1, GiveWork DEF WorkInv
<1> QED BY <1>2, <1>3, <1>4 DEF NextOrLast, Stops

LEMMA FirstJobWork ==
  ASSUME WorkInv, FirstJob
  PROVE  OneJobAtATime'
<1>1. \A d \in Client : Undone(d) = {} /\ Unheard(d)' = {}
  BY DEF WorkInv, FirstJob, Idle, Unheard
<1>2. CASE UNCHANGED inbox
  BY <1>1, <1>2 DEF OneJobAtATime, Undone
<1>3. CASE Give("store", cursor["store"])
  <2> DEFINE k == "store"
             p == cursor[k]
  <2>1. Give(k, p)
    BY <1>3
  <2> HIDE DEF k, p
  <2> QED BY <1>1, <2>1, GiveWork DEF WorkInv
<1> QED BY <1>2, <1>3 DEF FirstJob, Stops

\* No more is under way than was before.
LEMMA LessWork ==
  ASSUME WorkInv, \A c \in Client : Undone(c)' \subseteq Undone(c),
         \A c \in Client : Unheard(c)' \subseteq Unheard(c)
  PROVE  OneJobAtATime'
BY DEF WorkInv, OneJobAtATime

LEMMA EofWork ==
  ASSUME WorkInv, NEW c \in Client, Says(c, "eof"), UNCHANGED inbox
  PROVE  OneJobAtATime'
<1>1. /\ outbox[c] \in Seq(Message) /\ outbox \in [Client -> Seq(Message)]
      /\ outbox[c] # <<>>
      /\ outbox' = [outbox EXCEPT ![c] = Tail(@)]
  BY Streams DEF WorkInv, Says
<1>2. ASSUME NEW d \in Client, d # c PROVE Unheard(d)' = Unheard(d)
  BY <1>1, <1>2 DEF Unheard
<1>3. ASSUME NEW i \in Unheard(c)' PROVE i \in Nat /\ i + 1 \in Unheard(c)
  <2>1. i \in DOMAIN Tail(outbox[c]) /\ Tail(outbox[c])[i] = "ok"
    BY <1>1, <1>3 DEF Unheard
  <2>2. i \in 1 .. Len(outbox[c]) - 1 /\ Tail(outbox[c])[i] = outbox[c][i + 1]
    BY <1>1, <2>1
  <2>3. i + 1 \in DOMAIN outbox[c]
    BY <1>1, <2>2
  <2> QED BY <2>1, <2>2, <2>3 DEF Unheard
<1>4. \A d \in Client : Undone(d)' = Undone(d)
  BY DEF Undone
<1>5. OneJobAtATime
  BY DEF WorkInv
<1>6. ASSUME NEW d \in Client, NEW e \in Client
      PROVE  /\ \A i \in Unheard(d)', j \in Unheard(e)' : d = e /\ i = j
             /\ Undone(d)' = {} \/ Unheard(e)' = {}
  <2>1. \A i \in Unheard(d)', j \in Unheard(e)' : d = e
    BY <1>2, <1>3, <1>5 DEF OneJobAtATime
  <2>2. ASSUME d = e, NEW i \in Unheard(d)', NEW j \in Unheard(d)' PROVE i = j
    <3>1. CASE d = c
      BY <1>3, <1>5, <2>2, <3>1 DEF OneJobAtATime
    <3>2. CASE d # c
      BY <1>2, <1>5, <2>2, <3>2 DEF OneJobAtATime
    <3> QED BY <3>1, <3>2
  <2>3. Unheard(e)' # {} => Unheard(e) # {}
    BY <1>2, <1>3
  <2> QED BY <1>4, <1>5, <2>1, <2>2, <2>3 DEF OneJobAtATime
<1> QED BY <1>4, <1>5, <1>6 DEF OneJobAtATime

\* An end of file is not an "ok".
LEMMA LeavingWork ==
  ASSUME WorkInv, NEW c \in Client, Quit(c) \/ Leave(c)
  PROVE  OneJobAtATime'
<1>1. /\ outbox[c] \in Seq(Message) /\ outbox \in [Client -> Seq(Message)]
      /\ outbox' = [outbox EXCEPT ![c] = Append(@, "eof")] /\ UNCHANGED inbox
  BY Streams DEF WorkInv, Quit, Leave
<1>2. ASSUME NEW d \in Client PROVE Unheard(d)' \subseteq Unheard(d)
  <2>1. CASE d = c
    <3>1. outbox'[d] = Append(outbox[d], "eof") /\ outbox[d] \in Seq(Message)
      BY <1>1, <2>1
    <3>2. \A i \in DOMAIN outbox'[d] : outbox'[d][i] = "ok" =>
             i \in DOMAIN outbox[d] /\ outbox[d][i] = "ok"
      BY <3>1
    <3> QED BY <3>2 DEF Unheard
  <2>2. CASE d # c
    BY <1>1, <2>2 DEF Unheard
  <2> QED BY <2>1, <2>2
<1>3. \A d \in Client : Undone(d)' \subseteq Undone(d)
  BY <1>1 DEF Undone
<1> QED BY <1>2, <1>3, LessWork

LEMMA SayExitWork ==
  ASSUME WorkInv, SayExit
  PROVE  OneJobAtATime'
<1>1. /\ inbox \in [Client -> Seq(Order)] /\ UNCHANGED outbox
      /\ \A d \in Client : inbox'[d] = inbox[d] \/ inbox'[d] = Append(inbox[d], Exit)
  BY Streams DEF WorkInv, SayExit
<1>2. ASSUME NEW d \in Client PROVE Undone(d)' \subseteq Undone(d)
  <2>1. inbox[d] \in Seq(Order)
    BY <1>1
  <2>2. \A i \in DOMAIN inbox'[d] : inbox'[d][i] # Exit =>
           i \in DOMAIN inbox[d] /\ inbox[d][i] # Exit
    <3>1. CASE inbox'[d] = inbox[d]
      BY <3>1
    <3>2. CASE inbox'[d] = Append(inbox[d], Exit)
      <4>1. PICK e : e = Exit
        OBVIOUS
      <4>2. inbox'[d] = Append(inbox[d], e) /\ e \in Order
        BY <3>2, <4>1 DEF Order
      <4>3. \A i \in DOMAIN inbox'[d] : inbox'[d][i] # e =>
               i \in DOMAIN inbox[d] /\ inbox[d][i] # e
        BY <2>1, <4>2
      <4> QED BY <4>1, <4>3
    <3> QED BY <1>1, <3>1, <3>2
  <2> QED BY <2>2 DEF Undone
<1>3. \A d \in Client : Unheard(d)' \subseteq Unheard(d)
  BY <1>1 DEF Unheard
<1> QED BY <1>2, <1>3, LessWork

\* A job that is done becomes an "ok" that is not heard yet.
LEMMA DoneWork ==
  ASSUME WorkInv, NEW c \in Client, DoJob(c) \/ Die(c)
  PROVE  OneJobAtATime'
<1>1. /\ outbox[c] \in Seq(Message) /\ outbox \in [Client -> Seq(Message)]
      /\ inbox[c] \in Seq(Order) /\ inbox \in [Client -> Seq(Order)]
      /\ inbox[c] # <<>> /\ inbox[c][1].kind # "exit!"
      /\ inbox' = [inbox EXCEPT ![c] = Tail(@)]
      /\ outbox' = [outbox EXCEPT ![c] = outbox'[c]]
      /\ outbox'[c] = Append(outbox[c], "ok") \/ outbox'[c] = outbox[c] \o <<"ok", "eof">>
  BY Streams DEF WorkInv, DoJob, Die, Orders, Done
<1>2. 1 \in Undone(c)
  BY <1>1 DEF Undone, Exit
<1>3. \A d \in Client : Unheard(d) = {} /\ \A i \in Undone(d) : d = c /\ i = 1
  BY <1>2 DEF WorkInv, OneJobAtATime
<1>4. ASSUME NEW d \in Client, NEW i \in Undone(d)' PROVE FALSE
  <2>1. i \in DOMAIN inbox'[d] /\ inbox'[d][i] # Exit
    BY <1>4 DEF Undone
  <2>2. CASE d = c
    <3>1. inbox'[d] = Tail(inbox[c])
      BY <1>1, <2>2
    <3>2. /\ i \in 1 .. Len(inbox[c]) - 1 /\ Tail(inbox[c])[i] = inbox[c][i + 1]
          /\ i + 1 \in DOMAIN inbox[c] /\ i + 1 # 1
      BY <1>1, <2>1, <3>1
    <3>3. i + 1 \in Undone(c)
      BY <2>1, <3>1, <3>2 DEF Undone
    <3> QED BY <1>3, <3>2, <3>3
  <2>3. CASE d # c
    <3>1. i \in Undone(d)
      BY <1>1, <2>1, <2>3 DEF Undone
    <3> QED BY <1>3, <2>3, <3>1
  <2> QED BY <2>2, <2>3
<1>5. ASSUME NEW d \in Client, NEW i \in Unheard(d)' PROVE d = c /\ i = Len(outbox[c]) + 1
  <2>1. i \in DOMAIN outbox'[d] /\ outbox'[d][i] = "ok"
    BY <1>5 DEF Unheard
  <2>2. \A j \in DOMAIN outbox[d] : outbox[d][j] # "ok"
    BY <1>3 DEF Unheard
  <2>3. d = c
    BY <1>1, <2>1, <2>2
  <2>4. outbox'[c] = Append(outbox[c], "ok") => i = Len(outbox[c]) + 1
    BY <1>1, <2>1, <2>2, <2>3
  <2>5. outbox'[c] = outbox[c] \o <<"ok", "eof">> => i = Len(outbox[c]) + 1
    <3>1. SUFFICES ASSUME outbox'[c] = outbox[c] \o <<"ok", "eof">> PROVE i = Len(outbox[c]) + 1
      OBVIOUS
    <3>2. PICK e : e = <<"ok", "eof">>
      OBVIOUS
    <3>3. e \in Seq(Message) /\ Len(e) = 2 /\ e[1] = "ok" /\ e[2] = "eof"
      BY <3>2 DEF Message
    <3>4. outbox'[c] = outbox[c] \o e
      BY <3>1, <3>2
    <3>5. /\ i \in 1 .. Len(outbox[c]) + 2
          /\ i <= Len(outbox[c]) => outbox'[c][i] = outbox[c][i]
          /\ i > Len(outbox[c]) => outbox'[c][i] = e[i - Len(outbox[c])]
      BY <1>1, <2>1, <2>3, <3>3, <3>4
    <3>6. ~(i <= Len(outbox[c]))
      BY <1>1, <2>1, <2>2, <2>3, <3>5
    <3> QED BY <1>1, <2>1, <2>3, <3>3, <3>5, <3>6
  <2> QED BY <1>1, <2>3, <2>4, <2>5
<1> QED BY <1>4, <1>5 DEF OneJobAtATime

LEMMA WorkInit == ManagerInit => WorkInv
<1> SUFFICES ASSUME ManagerInit PROVE WorkInv
  OBVIOUS
<1>1. inbox = [c \in Client |-> <<>>] /\ outbox = [c \in Client |-> <<>>]
  BY DEF ManagerInit
<1>2. Idle
  <2>1. DOMAIN <<>> = {}
    OBVIOUS
  <2>2. ASSUME NEW c \in Client PROVE inbox[c] = <<>> /\ outbox[c] = <<>>
    BY <1>1
  <2>3. ASSUME NEW c \in Client PROVE DOMAIN inbox[c] = {} /\ DOMAIN outbox[c] = {}
    BY <2>1, <2>2
  <2> QED BY <2>3 DEF Idle, Undone, Unheard
<1>3. OneJobAtATime
  BY <1>2 DEF Idle, OneJobAtATime
<1> QED BY <1>2, <1>3, TypeInit DEF WorkInv

LEMMA WorkStep == WorkInv /\ [ManagerNext]_mvars => WorkInv'
<1> SUFFICES ASSUME WorkInv, [ManagerNext]_mvars PROVE WorkInv'
  OBVIOUS
<1>1. TypeInv'
  BY TypeStep DEF WorkInv
<1>2. OneJobAtATime'
  <2>1. CASE FirstJob
    BY <2>1, FirstJobWork
  <2>2. CASE OkFirst \/ \E c \in Client : OkOther(c)
    BY <2>2, OkWork, ManagerAssumption
  <2>3. CASE SayExit
    BY <2>3, SayExitWork
  <2>4. CASE \E c \in Client : Wild(c)
    <3>1. PICK c \in Client : Wild(c)
      BY <2>4
    <3>2. (\A d \in Client : Undone(d) = {} /\ Unheard(d)' = {}) /\ UNCHANGED inbox
      BY <3>1, HeardOk DEF Wild, Stops
    <3> QED BY <3>2 DEF OneJobAtATime, Undone
  <2>5. CASE \E c \in Client : Eof(c)
    BY <2>5, EofWork DEF Eof, Stops
  <2>6. CASE \E c \in Client : ClientDoes(c) \/ Quit(c)
    BY <2>6, DoneWork, LeavingWork DEF ClientDoes
  <2>7. CASE UNCHANGED mvars
    BY <2>7 DEF mvars, streams, WorkInv, OneJobAtATime, Undone, Unheard
  <2> QED BY <2>1, <2>2, <2>3, <2>4, <2>5, <2>6, <2>7 DEF ManagerNext, ManagerStep
<1>3. mpc' = "start" => Idle'
  <2>1. SUFFICES ASSUME mpc' = "start" PROVE Idle'
    OBVIOUS
  <2>2. mpc = "start"
    <3>1. CASE FirstJob
      BY <3>1 DEF FirstJob
    <3>2. ASSUME NextOrLast PROVE mpc' = "exit" \/ mpc' = "crashed" \/ mpc' = mpc
      BY <3>2 DEF NextOrLast, GiveNext, Stops
    <3>3. CASE OkFirst \/ \E c \in Client : OkOther(c)
      BY <2>1, <3>2, <3>3 DEF OkFirst, OkOther
    <3>4. CASE SayExit \/ \E c \in Client : Wild(c) \/ Eof(c)
      BY <2>1, <3>4 DEF SayExit, Wild, Eof, Stops
    <3>5. CASE \E c \in Client : DoJob(c) \/ Die(c) \/ Leave(c) \/ Quit(c)
      BY <2>1, <3>5 DEF DoJob, Die, Leave, Quit, loop
    <3>6. CASE UNCHANGED mvars
      BY <2>1, <3>6 DEF mvars, loop
    <3> QED BY <3>1, <3>3, <3>4, <3>5, <3>6 DEF ManagerNext, ManagerStep, ClientDoes
  <2>3. Idle
    BY <2>2 DEF WorkInv
  <2>4. ASSUME NEW c \in Client, NEW d \in Client, Undone(d)' # {} \/ Unheard(d)' # {},
               UNCHANGED inbox, outbox' = [outbox EXCEPT ![c] = Append(@, "eof")]
        PROVE  FALSE
    <3>1. outbox[d] \in Seq(Message) /\ outbox \in [Client -> Seq(Message)]
      BY Streams DEF WorkInv
    <3>2. \A i \in DOMAIN outbox[d] : outbox[d][i] # "ok"
      BY <2>3 DEF Idle, Unheard
    <3>3. outbox'[d] = outbox[d] \/ outbox'[d] = Append(outbox[d], "eof")
      BY <2>4, <3>1
    <3>4. \A i \in DOMAIN outbox'[d] : outbox'[d][i] # "ok"
      <4>1. CASE outbox'[d] = outbox[d]
        BY <3>2, <4>1
      <4>2. CASE outbox'[d] = Append(outbox[d], "eof")
        <5>1. \A i \in DOMAIN outbox'[d] : outbox'[d][i] = "ok" =>
                 i \in DOMAIN outbox[d] /\ outbox[d][i] = "ok"
          BY <3>1, <4>2
        <5> QED BY <3>2, <5>1
      <4> QED BY <3>3, <4>1, <4>2
    <3> QED BY <2>3, <2>4, <3>4 DEF Idle, Undone, Unheard
  <2>5. CASE \E c \in Client : Quit(c) \/ Leave(c)
    BY <2>4, <2>5 DEF Quit, Leave, Idle
  <2>6. CASE \E c \in Client : DoJob(c) \/ Die(c)
    <3>1. PICK c \in Client : DoJob(c) \/ Die(c)
      BY <2>6
    <3>2. inbox[c] \in Seq(Order) /\ inbox[c] # <<>> /\ inbox[c][1].kind # "exit!"
      BY <3>1, Streams DEF WorkInv, DoJob, Die, Orders
    <3>3. 1 \in Undone(c)
      BY <3>2 DEF Undone, Exit
    <3> QED BY <2>3, <3>3 DEF Idle
  <2>7. CASE UNCHANGED mvars
    BY <2>3, <2>7 DEF mvars, streams, Idle, Undone, Unheard
  <2>8. CASE \/ FirstJob \/ OkFirst \/ SayExit
             \/ \E c \in Client : OkOther(c) \/ Wild(c) \/ Eof(c)
    BY <2>1, <2>2, <2>8 DEF FirstJob, OkFirst, SayExit, OkOther, Wild, Eof, Says, Stops
  <2> QED BY <2>5, <2>6, <2>7, <2>8 DEF ManagerNext, ManagerStep, ClientDoes
<1> QED BY <1>1, <1>2, <1>3 DEF WorkInv

\* Never are two jobs under way.
THEOREM OneJobOnly == ManagerSpec => []OneJobAtATime
<1>1. ManagerSpec => []WorkInv
  BY WorkInit, WorkStep, PTL DEF ManagerSpec
<1>2. WorkInv => OneJobAtATime
  BY DEF WorkInv
<1> QED BY <1>1, <1>2, PTL

----------------------------------------------------------------------------
(****************************************************************************)
(* Whose socket is closed.                                                  *)
(****************************************************************************)

\* Whom a job is sent to, and what he says when it is done.
Addressee(j) == IF j.kind \in {"store", "search"} THEN First ELSE j.arg
Answer(j) == IF j.kind = "kill_client" THEN <<"ok", "eof">> ELSE <<"ok">>

Quiet(c) == inbox[c] = <<>> /\ outbox[c] = <<>> /\ c \in up

\* The job j has been sent to c and not been done, or has been done and not
\* been heard of.
Serves(c, j) ==
  /\ c \in sockset
  /\ \/ inbox[c] = <<j>> /\ outbox[c] = <<>> /\ c \in up
     \/ inbox[c] = <<>> /\ outbox[c] = Answer(j) /\ (c \in up <=> j.kind # "kill_client")

\* The last job sent is with the client it is for.  All others are quiet, or
\* have been killed, had their "ok" heard and their socket closed; and no job
\* still to come is for one of those.
ServesOne(n, j) ==
  /\ n \in DOMAIN jobs
  /\ Serves(Addressee(j), j)
  /\ \A c \in sockset : c # Addressee(j) => Quiet(c)
  /\ \A c \in Client \ sockset : c \notin up /\ outbox[c] = <<"eof">>
  /\ \A i \in DOMAIN jobs : i > n => Addressee(jobs[i]) \in sockset
  /\ prevJobWasKill <=> j.kind = "kill_client"
  /\ j.kind = "kill_client" => clientToKill = j.arg

ServeInv ==
  /\ OrderInv
  /\ mpc = "start" /\ quits = 0 =>
       sockset = Client /\ prevJobWasKill = FALSE /\ \A c \in Client : Quiet(c)
  /\ Regular(jobs) /\ quits = 0 /\ mpc = "loop" => ServesOne(Len(given), jobs[Len(given)])

\* What Regular says of a job and of the one after it.
LEMMA RegularJobs ==
  ASSUME ManagerTypeOK, Regular(jobs)
  PROVE  /\ jobs # <<>> => jobs[1].kind = "store"
         /\ \A i \in DOMAIN jobs : Addressee(jobs[i]) \in Client
         /\ \A i, j \in DOMAIN jobs :
               jobs[i].kind = "kill_client" /\ i < j => Addressee(jobs[j]) # jobs[i].arg
         /\ \A i \in DOMAIN jobs :
               jobs[i].kind = "kill_client" => Addressee(jobs[i]) = jobs[i].arg /\ jobs[i].arg # First
         /\ \A i \in DOMAIN jobs : i + 1 \in DOMAIN jobs /\ jobs[i + 1].kind = "kill_client" =>
               Addressee(jobs[i]) = First
<1>1. DOMAIN jobs = 1 .. Len(jobs) /\ Len(jobs) \in Nat
      /\ \A i \in DOMAIN jobs : jobs[i].kind \in Kind
  <2>1. jobs \in Seq(Job) /\ Len(jobs) \in Nat /\ \A i \in 1 .. Len(jobs) : jobs[i].kind \in Kind
    BY JobsAreJobs
  <2>2. DOMAIN jobs = 1 .. Len(jobs)
    BY <2>1
  <2> QED BY <2>1, <2>2
<1>2. /\ jobs # <<>> => jobs[1].kind = "store"
      /\ \A i \in DOMAIN jobs : jobs[i].kind \in {"end_client", "kill_client"} => jobs[i].arg \in Client
  BY DEF Regular
<1>3. \A i \in DOMAIN jobs : jobs[i].kind = "kill_client" => jobs[i].arg # First
  BY DEF Regular
<1>4. \A i, j \in DOMAIN jobs :
        jobs[i].kind = "kill_client" /\ i < j => jobs[j].arg # jobs[i].arg
  BY DEF Regular
<1>5. ASSUME NEW i \in DOMAIN jobs, i + 1 \in DOMAIN jobs, jobs[i + 1].kind = "kill_client"
      PROVE  Addressee(jobs[i]) = First
  <2>1. \/ jobs[(i + 1) - 1].kind \in {"store", "search"}
        \/ jobs[(i + 1) - 1] = [kind |-> "end_client", arg |-> First]
    BY <1>5 DEF Regular
  <2>2. (i + 1) - 1 = i
    BY <1>1
  <2>3. CASE jobs[i].kind \in {"store", "search"}
    BY <2>3 DEF Addressee
  <2>4. CASE jobs[i] = [kind |-> "end_client", arg |-> First]
    <3>1. jobs[i].arg = First
      BY <2>4
    <3> QED BY <3>1 DEF Addressee
  <2> QED BY <2>1, <2>2, <2>3, <2>4
<1>6. \A i \in DOMAIN jobs : Addressee(jobs[i]) \in Client
  BY <1>1, <1>2, ManagerAssumption DEF Addressee, Kind
<1>7. \A i, j \in DOMAIN jobs :
        jobs[i].kind = "kill_client" /\ i < j => Addressee(jobs[j]) # jobs[i].arg
  BY <1>3, <1>4 DEF Addressee
<1>8. \A i \in DOMAIN jobs :
        jobs[i].kind = "kill_client" => Addressee(jobs[i]) = jobs[i].arg /\ jobs[i].arg # First
  BY <1>3 DEF Addressee
<1> QED BY <1>2, <1>5, <1>6, <1>7, <1>8

\* A job that is given to a quiet client is with that client.
LEMMA GiveServes ==
  ASSUME OrderInv, OrderInv', NEW k, NEW p, Give(k, p), Regular(jobs), jobs # <<>>,
         NEW j, j = jobs[Len(given')],
         NEW c \in Client, c = Addressee(j), c \in sockset',
         inbox[c] = <<>>, outbox'[c] = <<>>, c \in up, up' = up
  PROVE  /\ Len(given') \in DOMAIN jobs /\ jobs' = jobs
         /\ Len(given') = Len(given) + 1
         /\ Serves(c, j)'
         /\ inbox' = [inbox EXCEPT ![c] = <<j>>]
<1> DEFINE job == [kind |-> k, arg |-> jobs[p].arg]
           to == IF k \in {"store", "search"} THEN First ELSE job.arg
<1>1. inbox' = Told(inbox, to, job) /\ given' = Append(given, job) /\ jobs' = jobs
  BY DEF Give
<1>2. ManagerTypeOK /\ ManagerTypeOK' /\ TypeInv
  BY DEF OrderInv, TypeInv
<1>3. jobs \in Seq(Job) /\ Len(jobs) \in Nat /\ jobs[1].kind = "store"
  BY <1>2, JobsAreJobs, RegularJobs
<1>4. InStep'
  BY <1>1, <1>3 DEF OrderInv
<1>5. given \in Seq(Job) /\ given' \in Seq(Job)
  BY <1>2 DEF ManagerTypeOK
<1>6. Len(given') = Len(given) + 1 /\ given'[Len(given')] = job /\ Len(given') <= Len(jobs)
  BY <1>1, <1>4, <1>5 DEF InStep
<1>7. Len(given') \in 1 .. Len(jobs) /\ j = job
  BY <1>1, <1>3, <1>4, <1>5, <1>6 DEF InStep
<1>8. to = c
  BY <1>7 DEF Addressee
<1> HIDE DEF job, to
<1>9. inbox' = [inbox EXCEPT ![c] = Append(inbox[c], j)]
  BY <1>1, <1>7, <1>8 DEF Told
<1>10. Append(inbox[c], j) = <<j>>
  BY SMT
<1>11. inbox' = [inbox EXCEPT ![c] = <<j>>]
  BY <1>9, <1>10
<1>12. inbox'[c] = <<j>>
  BY <1>11, <1>2 DEF ManagerTypeOK
<1>13. Serves(c, j)'
  BY <1>12 DEF Serves
<1>14. Len(given') \in DOMAIN jobs /\ Len(given') = Len(given) + 1 /\ jobs' = jobs
  BY <1>1, <1>3, <1>6, <1>7
<1> QED BY <1>11, <1>13, <1>14, Zenon

LEMMA FirstServes ==
  ASSUME ServeInv, FirstJob
  PROVE  ServeInv'
<1>1. OrderInv /\ OrderInv' /\ mpc = "start" /\ mpc' # "start"
  BY FirstJobInOrder DEF ServeInv, FirstJob, Stops
<1>2. ManagerTypeOK /\ TypeInv
  BY <1>1 DEF OrderInv, TypeInv
<1>3. ASSUME Regular(jobs)', quits' = 0, mpc' = "loop"
      PROVE  ServesOne(Len(given), jobs[Len(given)])'
  <2>1. /\ jobs # <<>> /\ Give("store", cursor["store"]) /\ given = <<>>
        /\ UNCHANGED <<prevJobWasKill, clientToKill, sockset, outbox, up, quits>>
    BY <1>1, <1>3 DEF FirstJob, Stops, OrderInv
  <2>2. jobs' = jobs /\ Regular(jobs)
    BY <1>3, <2>1 DEF Give, Regular
  <2>3. sockset = Client /\ prevJobWasKill = FALSE /\ \A c \in Client : Quiet(c)
    BY <1>1, <1>3, <2>1 DEF ServeInv
  <2>4. /\ jobs \in Seq(Job) /\ 1 \in DOMAIN jobs /\ jobs[1].kind = "store"
        /\ \A i \in DOMAIN jobs : Addressee(jobs[i]) \in Client
    BY <1>2, <2>1, <2>2, RegularJobs, JobsAreJobs
  <2>5. Len(given') = 1
    BY <1>2, <2>1 DEF Give, ManagerTypeOK
  <2>6. PICK j : j = jobs[1]
    OBVIOUS
  <2>7. First \in Client /\ First = Addressee(j) /\ j.kind = "store"
    BY <2>4, <2>6, ManagerAssumption DEF Addressee
  <2>8. inbox[First] = <<>> /\ outbox'[First] = <<>> /\ First \in up /\ First \in sockset'
    BY <2>1, <2>3, <2>7 DEF Quiet
  <2>9. j = jobs[Len(given')] /\ up' = up
    BY <2>1, <2>5, <2>6
  <2>10. Serves(First, j)' /\ inbox' = [inbox EXCEPT ![First] = <<j>>]
    BY <1>1, <2>1, <2>2, <2>7, <2>8, <2>9, GiveServes
  <2>11. \A c \in Client : c # First => Quiet(c)'
    BY <1>2, <2>1, <2>3, <2>10 DEF Quiet, ManagerTypeOK
  <2>12. ServesOne(1, j)'
    BY <2>1, <2>2, <2>3, <2>4, <2>7, <2>10, <2>11 DEF ServesOne, Addressee
  <2>13. \A n, i : n = Len(given') /\ i = jobs'[n] => ServesOne(n, i)'
    BY <2>2, <2>5, <2>6, <2>12
  <2> QED BY <2>13
<1> QED BY <1>1, <1>3 DEF ServeInv

\* Only the client that serves has anything to say, and only "ok" first.
LEMMA HeardAnswer ==
  ASSUME ManagerTypeOK, NEW n, NEW j, ServesOne(n, j), NEW c \in Client, NEW m, Says(c, m)
  PROVE  /\ c = Addressee(j) /\ m = "ok"
         /\ inbox[c] = <<>> /\ (c \in up <=> j.kind # "kill_client")
         /\ outbox' = [outbox EXCEPT ![c] = IF j.kind = "kill_client" THEN <<"eof">> ELSE <<>>]
<1>1. /\ c \in sockset /\ outbox[c] # <<>> /\ Head(outbox[c]) = m
      /\ outbox' = [outbox EXCEPT ![c] = Tail(outbox[c])]
  BY DEF Says
<1>2. c = Addressee(j)
  BY <1>1 DEF ServesOne, Quiet
<1>3. inbox[c] = <<>> /\ outbox[c] = Answer(j) /\ (c \in up <=> j.kind # "kill_client")
  BY <1>1, <1>2 DEF ServesOne, Serves
<1>4. /\ j.kind = "kill_client" => Head(Answer(j)) = "ok" /\ Tail(Answer(j)) = <<"eof">>
      /\ j.kind # "kill_client" => Head(Answer(j)) = "ok" /\ Tail(Answer(j)) = <<>>
  BY DEF Answer
<1> QED BY <1>1, <1>2, <1>3, <1>4

LEMMA OkServes ==
  ASSUME ServeInv, NEW c \in Client, (OkFirst /\ c = First) \/ OkOther(c)
  PROVE  ServeInv'
<1>1. OrderInv /\ OrderInv' /\ mpc = "loop" /\ mpc' # "start"
  BY OkInOrder DEF ServeInv, OkFirst, OkOther, Says, NextOrLast, GiveNext, Stops
<1>2. ManagerTypeOK /\ TypeInv
  BY <1>1 DEF OrderInv, TypeInv
<1>3. ASSUME Regular(jobs)', quits' = 0, mpc' = "loop"
      PROVE  ServesOne(Len(given), jobs[Len(given)])'
  <2> DEFINE k == jobs[curjob].kind
             p == cursor[k]
  <2>1. /\ Give(k, p) /\ up' = up /\ quits = 0 /\ Says(c, "ok")
    BY <1>1, <1>3 DEF OkFirst, OkOther, NextOrLast, GiveNext, Stops
  <2>2. jobs' = jobs /\ given' # given /\ given \in Seq(Job) /\ Len(given') = Len(given) + 1
    BY <1>2, <2>1 DEF Give, ManagerTypeOK
  <2> HIDE DEF p
  <2>3. Regular(jobs)
    BY <1>3, <2>2 DEF Regular
  <2>4. PICK n, i : n = Len(given) /\ i = jobs[n]
    OBVIOUS
  <2>5. ServesOne(n, i)
    BY <1>1, <2>1, <2>3, <2>4 DEF ServeInv
  <2>6. PICK j : j = jobs[Len(given')]
    OBVIOUS
  <2>7. j = jobs[n + 1] /\ n \in DOMAIN jobs /\ n \in Nat /\ i = jobs[n]
    BY <1>2, <2>2, <2>4, <2>5, <2>6, JobsAreJobs DEF ServesOne
  <2>8. jobs # <<>> /\ n + 1 \in DOMAIN jobs /\ k = j.kind
    <3>1. Len(given') <= Len(jobs) /\ jobs \in Seq(Job) /\ Len(jobs) \in Nat
      BY <1>1, <1>2, <2>2, <2>3, <2>7, JobsAreJobs, RegularJobs DEF OrderInv, InStep
    <3>2. curjob = n + 1
      BY <1>1, <2>4 DEF OrderInv
    <3> QED BY <2>2, <2>4, <2>7, <3>1, <3>2
  <2>9. /\ c = Addressee(i) /\ inbox[c] = <<>> /\ (c \in up <=> i.kind # "kill_client")
        /\ outbox' = [outbox EXCEPT ![c] = IF i.kind = "kill_client" THEN <<"eof">> ELSE <<>>]
    BY <1>2, <2>1, <2>5, HeardAnswer
  <2>10. /\ i.kind = "kill_client" => c = i.arg /\ c # First /\ Addressee(j) # c
         /\ j.kind = "kill_client" => c = First /\ Addressee(j) = j.arg
         /\ Addressee(j) \in Client
         /\ \A l \in DOMAIN jobs : l > n /\ i.kind = "kill_client" => Addressee(jobs[l]) # c
    BY <1>2, <2>3, <2>7, <2>8, <2>9, RegularJobs
  <2>11. sockset' = IF i.kind = "kill_client" THEN sockset \ {c} ELSE sockset
    <3>1. CASE i.kind = "kill_client"
      <4>1. prevJobWasKill /\ clientToKill = c /\ OkOther(c) /\ c # NoClient
        BY <2>5, <2>10, <3>1, ManagerAssumption DEF ServesOne
      <4> QED BY <3>1, <4>1 DEF OkOther, Closed
    <3>2. CASE i.kind # "kill_client"
      <4>1. ~prevJobWasKill
        BY <2>5, <3>2 DEF ServesOne
      <4> QED BY <3>2, <4>1 DEF OkOther, OkFirst
    <3> QED BY <3>1, <3>2
  <2>12. PICK d \in Client : d = Addressee(j)
    BY <2>10
  <2>13. d \in sockset /\ d \in sockset' /\ (d = c => i.kind # "kill_client")
    BY <2>5, <2>7, <2>8, <2>10, <2>11, <2>12 DEF ServesOne
  <2>14. inbox[d] = <<>> /\ outbox'[d] = <<>> /\ d \in up
    <3>1. outbox \in [Client -> Seq(Message)]
      BY <1>2 DEF ManagerTypeOK
    <3>2. CASE d = c
      BY <2>9, <2>13, <3>1, <3>2
    <3>3. CASE d # c
      BY <2>5, <2>9, <2>13, <3>1, <3>3 DEF ServesOne, Quiet
    <3> QED BY <3>2, <3>3
  <2>15. Serves(d, j)' /\ inbox' = [inbox EXCEPT ![d] = <<j>>]
    <3> HIDE DEF k
    <3> QED BY <1>1, <2>1, <2>3, <2>6, <2>8, <2>12, <2>13, <2>14, GiveServes
  <2>16. inbox \in [Client -> Seq(Order)] /\ outbox \in [Client -> Seq(Message)] /\ sockset \subseteq Client
    BY <1>2 DEF ManagerTypeOK
  <2>17. ASSUME NEW e \in sockset', e # d PROVE Quiet(e)'
    <3>1. e \in sockset /\ e \in Client /\ (e = c => i.kind # "kill_client")
      BY <2>11, <2>16, <2>17
    <3>2. inbox[e] = <<>> /\ e \in up /\ outbox'[e] = <<>>
      <4>1. CASE e = c
        BY <2>9, <2>16, <3>1, <4>1
      <4>2. CASE e # c
        BY <2>5, <2>9, <2>16, <3>1, <4>2 DEF ServesOne, Quiet
      <4> QED BY <4>1, <4>2
    <3> QED BY <2>1, <2>15, <2>16, <2>17, <3>1, <3>2 DEF Quiet
  <2>18. ASSUME NEW e \in Client \ sockset' PROVE e \notin up' /\ outbox'[e] = <<"eof">>
    <3>1. CASE e \in sockset
      <4>1. e = c /\ i.kind = "kill_client"
        BY <2>11, <2>18, <3>1
      <4> QED BY <2>1, <2>9, <2>16, <4>1
    <3>2. CASE e \notin sockset
      <4>1. e \notin up /\ outbox[e] = <<"eof">>
        BY <2>5, <2>18, <3>2 DEF ServesOne
      <4>2. e # c
        BY <2>1, <3>2 DEF Says
      <4> QED BY <2>1, <2>9, <2>16, <2>18, <4>1, <4>2
    <3> QED BY <3>1, <3>2
  <2>19. ASSUME NEW l \in DOMAIN jobs, l > n + 1 PROVE Addressee(jobs[l]) \in sockset'
    <3>1. l > n
      BY <1>2, <2>7, <2>19, JobsAreJobs
    <3>2. Addressee(jobs[l]) \in sockset
      BY <2>5, <3>1 DEF ServesOne
    <3> QED BY <2>10, <2>11, <3>1, <3>2
  <2>20. (prevJobWasKill' <=> j.kind = "kill_client") /\ (j.kind = "kill_client" => clientToKill' = j.arg)
    <3>1. CASE OkOther(c)
      <4>1. prevJobWasKill' = (k = "kill_client") /\ c # First
        BY <2>2, <3>1 DEF OkOther
      <4> QED BY <2>8, <2>10, <4>1
    <3>2. CASE OkFirst /\ c = First
      <4>1. ~prevJobWasKill
        BY <2>5, <2>10, <3>2 DEF ServesOne
      <4>2. CASE k = "kill_client"
        <5>1. prevJobWasKill' = TRUE /\ clientToKill' = given'[Len(given')].arg
          BY <2>2, <3>2, <4>2 DEF OkFirst
        <5>2. given'[Len(given')] = j
          <6>1. InStep' /\ given' \in Seq(Job) /\ jobs' = jobs
            BY <1>1, <1>2, <2>2, <2>3, <2>8, RegularJobs DEF OrderInv, TypeInv, ManagerTypeOK
          <6>2. Len(given') \in 1 .. Len(given')
            BY <2>2, <6>1
          <6> QED BY <2>6, <6>1, <6>2 DEF InStep
        <5> QED BY <2>8, <4>2, <5>1, <5>2
      <4>3. CASE k # "kill_client"
        <5>1. prevJobWasKill' = prevJobWasKill
          BY <3>2, <4>3 DEF OkFirst
        <5> QED BY <2>8, <4>1, <4>3, <5>1
      <4> QED BY <4>2, <4>3
    <3> QED BY <3>1, <3>2
  <2>21. ServesOne(n + 1, j)'
    BY <2>2, <2>8, <2>12, <2>15, <2>17, <2>18, <2>19, <2>20 DEF ServesOne, Addressee
  <2>22. \A l, q : l = Len(given') /\ q = jobs'[l] => ServesOne(l, q)'
    BY <2>2, <2>4, <2>6, <2>21
  <2> QED BY <2>22
<1> QED BY <1>1, <1>3 DEF ServeInv

\* A client that does what it has been sent.
LEMMA DoneServes ==
  ASSUME ServeInv, NEW c \in Client, DoJob(c) \/ Die(c)
  PROVE  ServeInv'
<1>1. OrderInv'
  BY OrderStep DEF ServeInv, ManagerNext, ClientDoes
<1>2. UNCHANGED <<jobs, given, mpc, quits, sockset, prevJobWasKill, clientToKill>>
      /\ c \in up /\ inbox[c] # <<>> /\ ManagerTypeOK
  BY DEF DoJob, Die, Orders, lists, loop, ServeInv, OrderInv, TypeInv
<1>3. ASSUME mpc = "start", quits = 0 PROVE FALSE
  BY <1>2, <1>3 DEF ServeInv, Quiet
<1>4. ASSUME NEW n, NEW j, ServesOne(n, j) PROVE ServesOne(n, j)'
  <2>1. c \in sockset /\ c = Addressee(j)
    BY <1>2, <1>4 DEF ServesOne, Quiet
  <2>2. inbox[c] = <<j>> /\ outbox[c] = <<>> /\ Head(inbox[c]) = j /\ Tail(inbox[c]) = <<>>
    <3>1. inbox[c] = <<j>> /\ outbox[c] = <<>>
      BY <1>2, <1>4, <2>1 DEF ServesOne, Serves
    <3> QED BY <3>1
  <2>3. /\ inbox' = [inbox EXCEPT ![c] = <<>>]
        /\ outbox' = [outbox EXCEPT ![c] = Answer(j)]
        /\ up' = IF j.kind = "kill_client" THEN up \ {c} ELSE up
    <3>1. CASE DoJob(c)
      <4>1. j.kind # "kill_client" /\ inbox' = [inbox EXCEPT ![c] = <<>>] /\ up' = up
        BY <2>2, <3>1 DEF DoJob, Done
      <4>2. outbox' = [outbox EXCEPT ![c] = Append(<<>>, "ok")]
        BY <2>2, <3>1 DEF DoJob
      <4> QED BY <4>1, <4>2 DEF Answer
    <3>2. CASE Die(c)
      <4>1. j.kind = "kill_client" /\ inbox' = [inbox EXCEPT ![c] = <<>>] /\ up' = up \ {c}
        BY <2>2, <3>2 DEF Die, Done
      <4>2. outbox' = [outbox EXCEPT ![c] = <<>> \o <<"ok", "eof">>]
        BY <2>2, <3>2 DEF Die
      <4>3. <<>> \o <<"ok", "eof">> = <<"ok", "eof">>
        OBVIOUS
      <4> QED BY <4>1, <4>2, <4>3 DEF Answer
    <3> QED BY <3>1, <3>2
  <2>4. inbox \in [Client -> Seq(Order)] /\ outbox \in [Client -> Seq(Message)] /\ sockset \subseteq Client
    BY <1>2 DEF ManagerTypeOK
  <2>5. Serves(c, j)'
    BY <1>2, <2>1, <2>3, <2>4 DEF Serves, Answer
  <2>6. \A d \in sockset : d # c => Quiet(d)'
    BY <1>4, <2>1, <2>3, <2>4 DEF Quiet, ServesOne
  <2>7. \A d \in Client \ sockset : d \notin up' /\ outbox'[d] = <<"eof">>
    BY <1>4, <2>1, <2>3, <2>4 DEF ServesOne
  <2> QED BY <1>2, <1>4, <2>1, <2>5, <2>6, <2>7 DEF ServesOne, Addressee
<1>5. Regular(jobs)' = Regular(jobs)
  BY <1>2 DEF Regular
<1>6. ASSUME Regular(jobs), quits = 0, mpc = "loop"
      PROVE  ServesOne(Len(given), jobs[Len(given)])'
  <2>1. \A n, j : n = Len(given) /\ j = jobs[n] => ServesOne(n, j)
    BY <1>6 DEF ServeInv
  <2>2. \A n, j : n = Len(given) /\ j = jobs[n] => ServesOne(n, j)'
    BY <1>4, <2>1
  <2> QED BY <1>2, <2>2
<1> QED BY <1>1, <1>2, <1>3, <1>5, <1>6 DEF ServeInv

\* While the loop runs and nobody has given up, nobody leaves.
LEMMA NobodyLeaves ==
  ASSUME ServeInv, NEW c \in Client, Leave(c),
         quits = 0, mpc = "start" \/ (mpc = "loop" /\ Regular(jobs))
  PROVE  FALSE
<1>1. c \in up /\ (inbox[c] = <<>> => c \notin sockset)
      /\ (inbox[c] # <<>> => Head(inbox[c]) = Exit)
  BY DEF Leave, Orders
<1>2. CASE mpc = "start"
  BY <1>1, <1>2 DEF ServeInv, Quiet
<1>3. CASE mpc = "loop" /\ Regular(jobs)
  <2>1. PICK n, j : n = Len(given) /\ j = jobs[n]
    OBVIOUS
  <2>2. ServesOne(n, j)
    BY <1>3, <2>1 DEF ServeInv
  <2>3. c \in sockset /\ inbox[c] # <<>>
    BY <1>1, <2>2 DEF ServesOne
  <2>4. inbox[c] = <<j>> /\ Head(inbox[c]) = j
    <3>1. inbox[c] = <<j>>
      BY <2>2, <2>3 DEF ServesOne, Serves, Quiet
    <3> QED BY <3>1
  <2>5. j.kind \in Kind
    <3>1. ManagerTypeOK /\ jobs \in Seq(Job)
      BY JobsAreJobs DEF ServeInv, OrderInv, TypeInv
    <3>2. n \in 1 .. Len(jobs)
      BY <2>2, <3>1 DEF ServesOne
    <3> QED BY <2>1, <3>1, <3>2, JobsAreJobs
  <2> QED BY <1>1, <2>3, <2>4, <2>5 DEF Exit, Kind
<1> QED BY <1>2, <1>3

LEMMA ServeInit == ManagerInit => ServeInv
<1> SUFFICES ASSUME ManagerInit PROVE ServeInv
  OBVIOUS
<1>1. OrderInv
  BY OrderInit
<1>2. /\ sockset = Client /\ prevJobWasKill = FALSE /\ mpc = "start" /\ up = Client
      /\ inbox = [c \in Client |-> <<>>] /\ outbox = [c \in Client |-> <<>>]
  BY DEF ManagerInit
<1> QED BY <1>1, <1>2 DEF ServeInv, Quiet

LEMMA ServeStep == ServeInv /\ [ManagerNext]_mvars => ServeInv'
<1> SUFFICES ASSUME ServeInv, [ManagerNext]_mvars PROVE ServeInv'
  OBVIOUS
<1>1. OrderInv'
  BY OrderStep DEF ServeInv
<1>2. CASE FirstJob
  BY <1>2, FirstServes
<1>3. CASE OkFirst \/ \E c \in Client : OkOther(c)
  BY <1>3, OkServes, ManagerAssumption
<1>4. CASE SayExit \/ \E c \in Client : Wild(c) \/ Eof(c)
  <2>1. mpc' \in {"done", "crashed", "exit"}
    BY <1>4 DEF SayExit, Wild, Eof, Stops
  <2> QED BY <1>1, <2>1 DEF ServeInv
<1>5. CASE \E c \in Client : DoJob(c) \/ Die(c)
  BY <1>5, DoneServes
<1>6. CASE \E c \in Client : Quit(c)
  <2>1. quits' # 0
    BY <1>6 DEF Quit, ServeInv, OrderInv, TypeInv, ManagerTypeOK
  <2> QED BY <1>1, <2>1 DEF ServeInv
<1>7. CASE \E c \in Client : Leave(c)
  <2>1. PICK c \in Client : Leave(c)
    BY <1>7
  <2>2. jobs' = jobs /\ mpc' = mpc /\ quits' = quits
    BY <2>1 DEF Leave, lists, loop
  <2>3. Regular(jobs)' => Regular(jobs)
    BY <2>2 DEF Regular
  <2>4. ASSUME mpc = "start", quits = 0 PROVE FALSE
    BY <2>1, <2>4, NobodyLeaves
  <2>5. ASSUME Regular(jobs), mpc = "loop", quits = 0 PROVE FALSE
    BY <2>1, <2>5, NobodyLeaves
  <2> QED BY <1>1, <2>2, <2>3, <2>4, <2>5 DEF ServeInv
<1>8. CASE UNCHANGED mvars
  BY <1>1, <1>8 DEF mvars, lists, loop, streams, ServeInv, Regular, ServesOne, Serves, Quiet,
                    Addressee, Answer
<1> QED BY <1>2, <1>3, <1>4, <1>5, <1>6, <1>7, <1>8 DEF ManagerNext, ManagerStep, ClientDoes

\* In every regular configuration, of any length and for any clients, the loop
\* stops listening to exactly those it has had killed and heard.
THEOREM SocketsAreRight == ManagerSpec => []RightSocketClosed
<1>1. ManagerSpec => []ServeInv
  BY ServeInit, ServeStep, PTL DEF ManagerSpec
<1>2. ServeInv => RightSocketClosed
  <2> SUFFICES ASSUME ServeInv, Regular(jobs), mpc = "loop", quits = 0, NEW c \in Client
               PROVE  c \in up \cup {d \in Client : outbox[d] = <<"ok", "eof">>} <=> c \in sockset
    BY DEF RightSocketClosed
  <2>1. PICK n, j : n = Len(given) /\ j = jobs[n]
    OBVIOUS
  <2>2. ServesOne(n, j)
    BY <2>1 DEF ServeInv
  <2>3. <<"eof">> # <<"ok", "eof">>
    <3>1. Len(<<"eof">>) = 1 /\ Len(<<"ok", "eof">>) = 2
      OBVIOUS
    <3> QED BY <3>1
  <2>4. c \notin sockset => c \notin up /\ outbox[c] # <<"ok", "eof">>
    BY <2>2, <2>3 DEF ServesOne
  <2>5. c \in sockset => c \in up \/ outbox[c] = <<"ok", "eof">>
    BY <2>2 DEF ServesOne, Serves, Quiet, Answer
  <2> QED BY <2>4, <2>5
<1> QED BY <1>1, <1>2, PTL
==============================================================================

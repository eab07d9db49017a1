------------------------------- MODULE Manager -------------------------------
(****************************************************************************)
(* The manager's job loop (manager.c:246-551) and the clients at the other  *)
(* end of its TCP connections (client.c:312-478).  The configuration        *)
(* (projb.c:72-162) is a sequence of jobs; for each kind of job the manager *)
(* keeps a list of its arguments and where it is in that list, and it gives *)
(* the next job when anybody says "ok".  An end of file from anybody ends   *)
(* the loop.  What a client does for a job is the subject of TriadStore and *)
(* TriadLeave.                                                              *)
(****************************************************************************)
EXTENDS Naturals, Sequences

CONSTANTS Client, First, NoClient,
          Word,       \* texts, and names that are no client's
          Configs,    \* the configurations that are looked at
          Quits       \* clients that may give up of their own accord

Kind == {"store", "search", "end_client", "kill_client"}
Job == [kind : Kind, arg : Client \cup Word]

ASSUME ManagerAssumption ==
  /\ First \in Client /\ NoClient \notin Client
  /\ Configs \subseteq Seq(Job)
  /\ Quits \in Nat

VARIABLES jobs,          \* the configuration
          cursor,        \* pstPos, psrchPos, pendclPos, pkillclPos
          curjob, nJobleft, prevJobWasKill, clientToKill,
          sockset,       \* the clients the manager listens to
          mpc,           \* where it is
          inbox, outbox, \* the streams between it and each client
          up,            \* the clients that run
          given,         \* history: the jobs it has sent
          quits

lists == <<jobs, cursor, curjob>>
loop == <<nJobleft, prevJobWasKill, clientToKill, sockset, mpc>>
streams == <<inbox, outbox>>
mvars == <<lists, loop, streams, up, given, quits>>

Message == {"ok", "eof"}
Exit == [kind |-> "exit!", arg |-> NoClient]
Order == Job \cup {Exit}

ManagerTypeOK ==
  /\ jobs \in Configs
  /\ cursor \in [Kind -> Nat \ {0}]
  /\ curjob \in Nat
  /\ nJobleft \in Nat
  /\ prevJobWasKill \in BOOLEAN
  /\ clientToKill \in Client \cup {NoClient}
  /\ sockset \subseteq Client
  /\ mpc \in {"start", "loop", "exit", "done", "crashed"}
  /\ inbox \in [Client -> Seq(Order)]
  /\ outbox \in [Client -> Seq(Message)]
  /\ up \subseteq Client
  /\ given \in Seq(Job)
  /\ quits \in 0 .. Quits

\* The node of a list is the line of the configuration it was made for; the
\* list of a kind links the lines of that kind, and ends with NULL.
NULL == Len(jobs) + 1
Lines(k, p) == {q \in DOMAIN jobs : q > p /\ jobs[q].kind = k}
Least(S) == CHOOSE q \in S : \A r \in S : q <= r
After(k, p) == IF Lines(k, p) = {} THEN NULL ELSE Least(Lines(k, p))

ManagerInit ==
  /\ jobs \in Configs
  /\ cursor = [k \in Kind |-> After(k, 0)]
  /\ curjob = 1
  /\ nJobleft = Len(jobs)
  /\ prevJobWasKill = FALSE /\ clientToKill = NoClient
  /\ sockset = Client
  /\ mpc = "start"
  /\ inbox = [c \in Client |-> <<>>] /\ outbox = [c \in Client |-> <<>>]
  /\ up = Client
  /\ given = <<>>
  /\ quits = 0

----------------------------------------------------------------------------
(****************************************************************************)
(* Jobs given.                                                              *)
(****************************************************************************)

\* SendStreamData; what is sent to a client that is no more, or over a closed
\* socket, is lost.
Told(b, c, m) == IF c \in sockset' \cap up THEN [b EXCEPT ![c] = Append(@, m)] ELSE b

Stops(pc) == mpc' = pc /\ UNCHANGED <<lists, inbox, given>>

\* Mutant: the list does not move on.
GiveSame(k, p) ==
  LET job == [kind |-> k, arg |-> jobs[p].arg]
      to == IF k \in {"store", "search"} THEN First ELSE job.arg
  IN  /\ inbox' = Told(inbox, to, job)
      /\ given' = Append(given, job)
      /\ curjob' = curjob + 1
      /\ UNCHANGED <<jobs, cursor>>

\* The job at position p of its list.
Give(k, p) ==
  LET job == [kind |-> k, arg |-> jobs[p].arg]
      to == IF k \in {"store", "search"} THEN First ELSE job.arg
  IN  /\ inbox' = Told(inbox, to, job)
      /\ given' = Append(given, job)
      /\ cursor' = [cursor EXCEPT ![k] = After(k, p)]
      /\ curjob' = curjob + 1
      /\ UNCHANGED jobs

\* The next job, of the kind of curjob, with the next argument of that kind.
\* A list that has ended is read through NULL; a name nobody has ends the loop.
GiveNext ==
  LET k == jobs[curjob].kind
      p == cursor[k]
      unknown == k \in {"end_client", "kill_client"} /\ jobs[p].arg \notin Client
  IN  \/ p = NULL /\ Stops("crashed")
      \/ p # NULL /\ unknown /\ Stops("exit")
      \/ p # NULL /\ ~unknown /\ Give(k, p) /\ UNCHANGED mpc

\* The first job is sent as a store, whatever it is.
FirstJob ==
  /\ mpc = "start"
  /\ UNCHANGED <<nJobleft, prevJobWasKill, clientToKill, sockset, outbox, up, quits>>
  /\ \/ jobs = <<>> /\ Stops("exit")
     \/ jobs # <<>> /\ cursor["store"] = NULL /\ Stops("crashed")
     \/ jobs # <<>> /\ cursor["store"] # NULL /\ Give("store", cursor["store"]) /\ mpc' = "loop"

----------------------------------------------------------------------------
(****************************************************************************)
(* What the clients say.                                                    *)
(****************************************************************************)

\* Mutant: what has been said can be heard again.
SaysStill(c, m) ==
  /\ mpc = "loop" /\ c \in sockset
  /\ outbox[c] # <<>> /\ Head(outbox[c]) = m
  /\ UNCHANGED outbox

\* RecvStreamLineForSelect.
Says(c, m) ==
  /\ mpc = "loop" /\ c \in sockset
  /\ outbox[c] # <<>> /\ Head(outbox[c]) = m
  /\ outbox' = [outbox EXCEPT ![c] = Tail(@)]

\* One job less; the last one ends the loop.
Count == nJobleft' = nJobleft - 1
NextOrLast == IF nJobleft = 1 THEN Stops("exit") ELSE GiveNext

\* Mutant: as the other branch does it.
OkFirstForgets ==
  /\ Says(First, "ok")
  /\ Count
  /\ UNCHANGED sockset
  /\ NextOrLast
  /\ prevJobWasKill' = (given' # given /\ jobs[curjob].kind = "kill_client")
  /\ UNCHANGED <<clientToKill, up, quits>>

\* Mutant: every job is noted.
OkFirstNotesAny ==
  /\ Says(First, "ok")
  /\ Count
  /\ UNCHANGED sockset
  /\ NextOrLast
  /\ prevJobWasKill' = (given' # given /\ jobs[curjob].kind = "kill_client")
  /\ clientToKill' = given'[Len(given')].arg
  /\ UNCHANGED <<up, quits>>

\* "ok" of First.  Only here a kill job notes whose socket is to be closed.
OkFirst ==
  /\ Says(First, "ok")
  /\ Count
  /\ UNCHANGED sockset
  /\ NextOrLast
  /\ IF given' # given /\ jobs[curjob].kind = "kill_client"
       THEN prevJobWasKill' = TRUE /\ clientToKill' = given'[Len(given')].arg
       ELSE UNCHANGED <<prevJobWasKill, clientToKill>>
  /\ UNCHANGED <<up, quits>>

\* The socket of the client noted, which has been closed before if this is
\* the second kill in a row; any or none, if no client has been noted yet.
Closed(s) ==
  IF clientToKill = NoClient
    THEN s \in {sockset} \cup {sockset \ {x} : x \in Client}
    ELSE s = sockset \ {clientToKill}

\* Mutant: the socket of a killed client stays in the set.
OkOtherListens(c) ==
  /\ c # First
  /\ Says(c, "ok")
  /\ Count
  /\ UNCHANGED sockset
  /\ NextOrLast
  /\ prevJobWasKill' = (given' # given /\ jobs[curjob].kind = "kill_client")
  /\ UNCHANGED <<clientToKill, up, quits>>

\* "ok" of another one.
OkOther(c) ==
  /\ c # First
  /\ Says(c, "ok")
  /\ Count
  /\ IF prevJobWasKill THEN Closed(sockset') ELSE UNCHANGED sockset
  /\ NextOrLast
  /\ prevJobWasKill' = (given' # given /\ jobs[curjob].kind = "kill_client")
  /\ UNCHANGED <<clientToKill, up, quits>>

\* Reading through the pointer no client has been assigned to.
Wild(c) ==
  /\ c # First
  /\ Says(c, "ok")
  /\ prevJobWasKill /\ clientToKill = NoClient
  /\ Stops("crashed")
  /\ UNCHANGED <<nJobleft, prevJobWasKill, clientToKill, sockset, up, quits>>

Eof(c) ==
  /\ Says(c, "eof")
  /\ Stops("exit")
  /\ UNCHANGED <<nJobleft, prevJobWasKill, clientToKill, sockset, up, quits>>

\* Mutant: a client that is at a job is not told.
SayExitIdle ==
  /\ mpc = "exit" /\ mpc' = "done"
  /\ inbox' = [c \in Client |->
                 IF c \in sockset \cap up /\ inbox[c] = <<>> THEN Append(inbox[c], Exit) ELSE inbox[c]]
  /\ sockset' = {c \in sockset : inbox[c] # <<>>}
  /\ UNCHANGED <<lists, nJobleft, prevJobWasKill, clientToKill, outbox, up, given, quits>>

\* "exit!" to all, and all sockets are closed.
SayExit ==
  /\ mpc = "exit" /\ mpc' = "done"
  /\ inbox' = [c \in Client |->
                 IF c \in sockset \cap up THEN Append(inbox[c], Exit) ELSE inbox[c]]
  /\ sockset' = {}
  /\ UNCHANGED <<lists, nJobleft, prevJobWasKill, clientToKill, outbox, up, given, quits>>

----------------------------------------------------------------------------
(****************************************************************************)
(* The clients.                                                             *)
(****************************************************************************)

Orders(c) == c \in up /\ inbox[c] # <<>>
Done(c) == inbox' = [inbox EXCEPT ![c] = Tail(@)]

\* A job is carried out.
DoJob(c) ==
  /\ Orders(c) /\ Head(inbox[c]).kind \notin {"exit!", "kill_client"}
  /\ Done(c)
  /\ outbox' = [outbox EXCEPT ![c] = Append(@, "ok")]
  /\ UNCHANGED <<lists, loop, up, given, quits>>

\* kill_client: it says "ok" and is no more.
Die(c) ==
  /\ Orders(c) /\ Head(inbox[c]).kind = "kill_client"
  /\ Done(c)
  /\ outbox' = [outbox EXCEPT ![c] = @ \o <<"ok", "eof">>]
  /\ up' = up \ {c}
  /\ UNCHANGED <<lists, loop, given, quits>>

\* A message it cannot handle, from the manager or from another client.
Quit(c) ==
  /\ c \in up
  /\ quits < Quits /\ quits' = quits + 1
  /\ outbox' = [outbox EXCEPT ![c] = Append(@, "eof")]
  /\ up' = up \ {c}
  /\ UNCHANGED <<lists, loop, inbox, given>>

\* "exit!", or the manager's end of the connection is closed.
Leave(c) ==
  /\ c \in up
  /\ \/ Orders(c) /\ Head(inbox[c]) = Exit
     \/ inbox[c] = <<>> /\ (c \notin sockset \/ mpc = "crashed")
  /\ up' = up \ {c}
  /\ outbox' = [outbox EXCEPT ![c] = Append(@, "eof")]
  /\ UNCHANGED <<lists, loop, inbox, given, quits>>

----------------------------------------------------------------------------

ManagerStep ==
  \/ FirstJob \/ OkFirst \/ SayExit
  \/ \E c \in Client : OkOther(c) \/ Wild(c) \/ Eof(c)

ClientDoes(c) == DoJob(c) \/ Die(c) \/ Leave(c)

ManagerNext == ManagerStep \/ \E c \in Client : ClientDoes(c) \/ Quit(c)

\* Jobs come to an end as long as no client has given up: then others may wait
\* for its answers for ever.
ManagerFairness ==
  /\ WF_mvars(ManagerStep)
  /\ \A c \in Client : WF_mvars(quits = 0 /\ ClientDoes(c))

ManagerSpec == ManagerInit /\ [][ManagerNext]_mvars /\ ManagerFairness

----------------------------------------------------------------------------
(****************************************************************************)
(* What the job loop promises.                                              *)
(****************************************************************************)

\* A configuration whose first job is a store is carried out in its order:
\* the jobs sent are a beginning of it, each with its own argument, although
\* kinds and arguments come from lists that are walked separately and from two
\* copies of the code (manager.c:310-396, 433-531).
JobsInOrder ==
  jobs # <<>> /\ jobs[1].kind = "store" =>
    /\ Len(given) <= Len(jobs)
    /\ \A i \in 1 .. Len(given) : given[i] = jobs[i]

\* Jobs that c has not done, and "ok"s of c the manager has not read.
Undone(c) == {i \in DOMAIN inbox[c] : inbox[c][i] # Exit}
Unheard(c) == {i \in DOMAIN outbox[c] : outbox[c][i] = "ok"}

\* There is never more than one job under way in the whole ring, whatever the
\* configuration and whoever gives up: what the handlers of stores, searches
\* and leaves take for granted (client.c:2836-2885, 2480-2721).
OneJobAtATime ==
  \A c, d \in Client :
     /\ \A i \in Undone(c), j \in Undone(d) : c = d /\ i = j
     /\ \A i \in Unheard(c), j \in Unheard(d) : c = d /\ i = j
     /\ Undone(c) = {} \/ Unheard(d) = {}

\* The jobs of a configuration the loop is made for: the first is a store, end
\* and kill name clients, First is not killed, nobody is named again after his
\* kill, and every kill comes right after a job of First.
Regular(js) ==
  LET AtFirst(j) == j.kind \in {"store", "search"} \/ j = [kind |-> "end_client", arg |-> First]
      Kills(i) == js[i].kind = "kill_client"
  IN  /\ js # <<>> => js[1].kind = "store"
      /\ \A i \in DOMAIN js : js[i].kind \in {"end_client", "kill_client"} => js[i].arg \in Client
      /\ \A i \in DOMAIN js : Kills(i) => js[i].arg # First /\ AtFirst(js[i - 1])
      /\ \A i, j \in DOMAIN js : Kills(i) /\ i < j => js[j].arg # js[i].arg

\* In such a configuration the loop stops listening to exactly the clients it
\* has had killed, as soon as it has heard their "ok" and before their end of
\* file is read (manager.c:412-421).
RightSocketClosed ==
  Regular(jobs) /\ mpc = "loop" /\ quits = 0 =>
    \A c \in Client : c \in up \cup {d \in Client : outbox[d] = <<"ok", "eof">>} <=> c \in sockset

\* And then all of its jobs are done, unless a client gives up.
AllJobsDone ==
  (Regular(jobs) /\ quits = 0) ~> ((mpc = "done" /\ nJobleft = 0 /\ given = jobs) \/ quits > 0)

\* Whatever the configuration, once the loop is over every client leaves, also
\* one that is at a job, and one whose socket was closed by mistake.
NobodyStaysBehind == (mpc \in {"done", "crashed"}) ~> (up = {} \/ quits > 0)
=============================================================================

------------------------------ MODULE Cluster ------------------------------
(***************************************************************************)
(* How a client gets a worker: the master (master_dns.c), which gives out  *)
(* the slaves in turn, and on each slave the pool of processes that        *)
(* serveur_ftp.c forks, with the parent that reaps them.                   *)
(*                                                                         *)
(* Two queues of connections stand between the processes: the kernel       *)
(* accepts a connection for a program that listens, whether one of its     *)
(* processes will ever call accept or not, and keeps it when its client    *)
(* has gone.                                                               *)
(*                                                                         *)
(* Abstractions.  A client of this model comes once, and one that comes    *)
(* again is another client.  The session of a client with its worker is    *)
(* the subject of Session: here it lasts until the client leaves or either *)
(* process dies.  The slaves stay up.  The part of the master that         *)
(* serves the slaves, a process of its own, is in Coherence.               *)
(***************************************************************************)
EXTENDS Integers, Sequences, FiniteSets

CONSTANTS
  Client,
  Slave,
  Worker,     \* of each slave
  Config,     \* the lines of config_master: a slave each, or EMPTY
  NB_SLAVE,   \* how many of them the master reads
  MaxDeaths,  \* how many workers may die, in all (a bound of the model)
  EMPTY,      \* an empty line
  REFUSED,    \* the answer PASSWORD_ERROR or SLAVE_ERROR
  NONE        \* no client

ASSUME ClusterAssumption ==
  /\ Config \in Seq(Slave \cup {EMPTY})
  /\ NB_SLAVE \in Nat
  /\ MaxDeaths \in Nat
  /\ EMPTY \notin Slave
  /\ NONE \notin Client \cup {"dead"}
  /\ "dead" \notin Client
  /\ {REFUSED, NONE} \cap Nat = {}
  /\ REFUSED # NONE

VARIABLES
  pc,       \* the master: "accept", "read" or "ended"
  conn,     \* the client it has accepted
  backlog,  \* the connections it has not
  i,        \* the line it has given out last
  handed,   \* handed[k]: how often it has given out line k
  st,       \* st[c]: where client c is
  sent,     \* the clients whose request is on its way
  right,    \* those whose password is right
  told,     \* told[c]: what the master has answered c: a line, REFUSED, or NONE
  cut,      \* whether a client has gone between connect and request
  queue,    \* queue[s]: the connections to slave s that no worker has accepted
  serves,   \* serves[s][w]: the client of worker w of slave s, NONE, or "dead"
  zombies,  \* zombies[s]: its dead workers that the parent has not reaped
  pending,  \* the slaves whose parent has a SIGCHLD pending
  waiting,  \* those whose parent is in handler_chld
  stopped   \* and those a worker of which has been stopped, at some time

masterVars == <<pc, conn, backlog, i, handed, told>>
parentVars == <<zombies, pending, waiting, stopped>>
vars == <<masterVars, st, sent, right, cut, queue, serves, parentVars>>

-----------------------------------------------------------------------------
\* The lines that the master reads, an empty one like any other.
connected   == IF Len(Config) < NB_SLAVE THEN Len(Config) ELSE NB_SLAVE
slave_ip(k) == Config[k + 1]
Line        == 0..(connected - 1)

Init ==
  /\ pc = "accept"
  /\ conn = NONE
  /\ backlog = <<>>
  /\ i = 0
  /\ handed = [k \in Line |-> 0]
  /\ st = [c \in Client |-> "away"]
  /\ sent = {}
  /\ right = {}
  /\ told = [c \in Client |-> NONE]
  /\ cut = FALSE
  /\ queue = [s \in Slave |-> <<>>]
  /\ serves = [s \in Slave |-> [w \in Worker |-> NONE]]
  /\ zombies = [s \in Slave |-> 0]
  /\ pending = {}
  /\ waiting = {}
  /\ stopped = {}

-----------------------------------------------------------------------------
(* The client, until its session begins. *)

\* Open_clientfd(master, PORT): refused, once the master has ended.
Connect(c) ==
  /\ st[c] = "away"
  /\ IF pc = "ended"
     THEN st' = [st EXCEPT ![c] = "gone"] /\ UNCHANGED backlog
     ELSE st' = [st EXCEPT ![c] = "connected"] /\ backlog' = Append(backlog, c)
  /\ UNCHANGED <<pc, conn, i, handed, told, sent, right, cut, queue, serves, parentVars>>

\* get_cred: the request, with the password that the user has typed.
AskCred(c, correct) ==
  /\ st[c] = "connected"
  /\ st' = [st EXCEPT ![c] = "asked"]
  /\ sent' = sent \cup {c}
  /\ right' = IF correct THEN right \cup {c} ELSE right
  /\ UNCHANGED <<masterVars, cut, queue, serves, parentVars>>

\* get_cred: the answer.  A refused client exits, and so does one that is given
\* an empty line: there is no such host.  The others connect to their slave.
GetCred(c) ==
  /\ st[c] = "asked"
  /\ told[c] # NONE
  /\ IF told[c] = REFUSED \/ slave_ip(told[c]) = EMPTY
     THEN st' = [st EXCEPT ![c] = "gone"] /\ UNCHANGED queue
     ELSE /\ st' = [st EXCEPT ![c] = "waiting"]
          /\ queue' = [queue EXCEPT ![slave_ip(told[c])] = Append(@, c)]
  /\ UNCHANGED <<masterVars, sent, right, cut, serves, parentVars>>

\* The master has ended, with all its connections: the client does too, whether
\* it takes what its response_t holds then for an error or for a host.
CredLost(c) ==
  /\ pc = "ended"
  /\ st[c] = "connected" \/ (st[c] = "asked" /\ told[c] = NONE)
  /\ st' = [st EXCEPT ![c] = "gone"]
  /\ UNCHANGED <<masterVars, sent, right, cut, queue, serves, parentVars>>

\* The user says bye, or the process ends, where it may be.
Leave(c) ==
  /\ st[c] \notin {"away", "gone"}
  /\ st' = [st EXCEPT ![c] = "gone"]
  /\ cut' = (cut \/ st[c] = "connected")
  /\ UNCHANGED <<masterVars, sent, right, queue, serves, parentVars>>

-----------------------------------------------------------------------------
(* The master. *)

MasterAccept ==
  /\ pc = "accept"
  /\ backlog # <<>>
  /\ conn' = Head(backlog)
  /\ backlog' = Tail(backlog)
  /\ pc' = "read"
  /\ UNCHANGED <<i, handed, told, st, sent, right, cut, queue, serves, parentVars>>

\* The answer is sent and the connection closed.
Answer(a) ==
  /\ told' = [told EXCEPT ![conn] = a]
  /\ conn' = NONE
  /\ pc' = "accept"
  /\ UNCHANGED <<backlog, st, sent, right, cut, queue, serves, parentVars>>

\* Mutant: the loop goes on without an answer, and the connection stays open.
Refuse_Continue ==
  /\ pc = "read" /\ conn \in sent
  /\ conn \notin right \/ connected = 0
  /\ pc' = "accept"
  /\ UNCHANGED <<conn, backlog, i, handed, told, st, sent, right, cut, queue, serves, parentVars>>

\* Another password, or no slave at all.
Refuse ==
  /\ pc = "read" /\ conn \in sent
  /\ conn \notin right \/ connected = 0
  /\ Answer(REFUSED)
  /\ UNCHANGED <<i, handed>>

\* Mutant: the turn goes past the last line.
GiveSlave_NoModulo ==
  /\ pc = "read" /\ conn \in sent
  /\ conn \in right /\ connected # 0
  /\ i' = i + 1
  /\ handed' = IF i' \in Line THEN [handed EXCEPT ![i'] = @ + 1] ELSE handed
  /\ Answer(REFUSED)

\* Mutant: the turn stops at the last line.
GiveSlave_NoTurn ==
  /\ pc = "read" /\ conn \in sent
  /\ conn \in right /\ connected # 0
  /\ i' = IF i + 1 < connected THEN i + 1 ELSE i
  /\ handed' = [handed EXCEPT ![i'] = @ + 1]
  /\ Answer(i')

\* The next line.
GiveSlave ==
  /\ pc = "read" /\ conn \in sent
  /\ conn \in right /\ connected # 0
  /\ i' = (i + 1) % connected
  /\ handed' = [handed EXCEPT ![i'] = @ + 1]
  /\ Answer(i')

\* Mutant: any error leaves the loop.
MasterEnds_OnError ==
  /\ pc = "read"
  /\ conn \notin right \/ (conn \notin sent /\ st[conn] = "gone")
  /\ pc' = "ended"
  /\ UNCHANGED <<conn, backlog, i, handed, told, st, sent, right, cut, queue, serves, parentVars>>

\* read_request fails: the loop is left, and the program with it.
MasterEnds ==
  /\ pc = "read"
  /\ conn \notin sent /\ st[conn] = "gone"
  /\ pc' = "ended"
  /\ UNCHANGED <<conn, backlog, i, handed, told, st, sent, right, cut, queue, serves, parentVars>>

-----------------------------------------------------------------------------
(* The workers of slave s, and their parent. *)

\* Accept: the client at the head of the queue, even if it has gone.
Accept(s, w) ==
  /\ serves[s][w] = NONE
  /\ queue[s] # <<>>
  /\ LET c == Head(queue[s])
     IN /\ serves' = [serves EXCEPT ![s][w] = c]
        /\ st' = IF st[c] = "gone" THEN st ELSE [st EXCEPT ![c] = "session"]
  /\ queue' = [queue EXCEPT ![s] = Tail(@)]
  /\ UNCHANGED <<masterVars, sent, right, cut, parentVars>>

\* Mutant: the worker stays with the client that has gone.
EndSession_Stays(s, w) ==
  /\ serves[s][w] \in Client
  /\ st[serves[s][w]] = "gone"
  /\ UNCHANGED vars

\* The request loop ends when the client has gone, and the worker accepts again.
EndSession(s, w) ==
  /\ serves[s][w] \in Client
  /\ st[serves[s][w]] = "gone"
  /\ serves' = [serves EXCEPT ![s][w] = NONE]
  /\ UNCHANGED <<masterVars, st, sent, right, cut, queue, parentVars>>

\* A worker is killed, or exits in a wrapper of csapp.c.  Its client is reset, its
\* parent signalled: one signal for all those that die before it is delivered.
Die(s, w) ==
  /\ serves[s][w] # "dead"
  /\ Cardinality({p \in Slave \X Worker : serves[p[1]][p[2]] = "dead"}) < MaxDeaths
  /\ serves' = [serves EXCEPT ![s][w] = "dead"]
  /\ st' = IF serves[s][w] = NONE THEN st ELSE [st EXCEPT ![serves[s][w]] = "gone"]
  /\ zombies' = [zombies EXCEPT ![s] = @ + 1]
  /\ pending' = pending \cup {s}
  /\ UNCHANGED <<masterVars, sent, right, cut, queue, waiting, stopped>>

\* A worker is stopped, as by Ctrl-Z, or continued.  That signals the parent too, as
\* Signal does not ask for SA_NOCLDSTOP.  What a worker that is stopped does is
\* delayed: it is continued some day, or killed.
StopOrContinue(s, w) ==
  /\ serves[s][w] # "dead"
  /\ pending' = pending \cup {s}
  /\ stopped' = stopped \cup {s}
  /\ UNCHANGED <<masterVars, st, sent, right, cut, queue, serves, zombies, waiting>>

\* The signal is delivered; it is blocked while its handler runs.
HandlerChld(s) ==
  /\ s \in pending \ waiting
  /\ pending' = pending \ {s}
  /\ waiting' = waiting \cup {s}
  /\ UNCHANGED <<masterVars, st, sent, right, cut, queue, serves, zombies, stopped>>

\* A worker of slave s is left.
Left(s) == \E w \in Worker : serves[s][w] # "dead"

\* Mutant: the handler reaps all there are.
Wait_All(s) ==
  /\ s \in waiting
  /\ zombies[s] > 0
  /\ zombies' = [zombies EXCEPT ![s] = 0]
  /\ waiting' = waiting \ {s}
  /\ UNCHANGED <<masterVars, st, sent, right, cut, queue, serves, pending, stopped>>

\* wait(NULL) of the handler: one child that has died.  Where there is none it waits
\* for one, and it fails where no worker is left.
Wait(s) ==
  /\ s \in waiting
  /\ \/ zombies[s] > 0 /\ zombies' = [zombies EXCEPT ![s] = @ - 1]
     \/ zombies[s] = 0 /\ ~Left(s) /\ UNCHANGED zombies
  /\ waiting' = waiting \ {s}
  /\ UNCHANGED <<masterVars, st, sent, right, cut, queue, serves, pending, stopped>>

-----------------------------------------------------------------------------
Master == MasterAccept \/ Refuse \/ GiveSlave \/ MasterEnds

ClientGoesOn(c) ==
  (\E correct \in BOOLEAN : AskCred(c, correct)) \/ GetCred(c) \/ CredLost(c)

Next ==
  \/ Master
  \/ \E c \in Client : Connect(c) \/ ClientGoesOn(c) \/ Leave(c)
  \/ \E s \in Slave : HandlerChld(s) \/ Wait(s)
  \/ \E s \in Slave, w \in Worker :
       Accept(s, w) \/ EndSession(s, w) \/ Die(s, w) \/ StopOrContinue(s, w)

Spec == Init /\ [][Next]_vars

\* Each process goes on as long as it can: programs that run, on a scheduler that
\* forgets none.  Nothing makes a client come or leave, or a worker die or stop; and
\* no client depends on the parent of the workers, which may be blocked in its handler.
Fairness ==
  /\ WF_vars(Master)
  /\ \A c \in Client : WF_vars(ClientGoesOn(c))
  /\ \A s \in Slave, w \in Worker : WF_vars(Accept(s, w) \/ EndSession(s, w))

FairSpec == Spec /\ Fairness

-----------------------------------------------------------------------------
(* Properties. *)

\* The type invariant.
TypeOK ==
  /\ pc \in {"accept", "read", "ended"}
  /\ conn \in Client \cup {NONE}
  /\ backlog \in Seq(Client)
  /\ i \in 0..(IF connected = 0 THEN 0 ELSE connected - 1)
  /\ handed \in [Line -> Nat]
  /\ st \in [Client -> {"away", "connected", "asked", "waiting", "session", "gone"}]
  /\ sent \subseteq Client
  /\ right \subseteq sent
  /\ told \in [Client -> Line \cup {REFUSED, NONE}]
  /\ cut \in BOOLEAN
  /\ queue \in [Slave -> Seq(Client)]
  /\ serves \in [Slave -> [Worker -> Client \cup {NONE, "dead"}]]
  /\ zombies \in [Slave -> Nat]
  /\ pending \subseteq Slave
  /\ waiting \subseteq Slave
  /\ stopped \subseteq Slave

\* The master shares its clients out: whoever knows the password or not, goes
\* away or stays, no line of config_master is given out twice more than another.
Balanced == \A k, m \in Line : handed[k] <= handed[m] + 1

\* handler_chld, which runs in the parent that forks and reaps, does not block in
\* wait, however the signals of children that die together merge: as long as no
\* worker of the slave has ever been stopped or continued.  From then on it may: the
\* parent is signalled, and no worker has died.
WaitFindsAZombie == \A s \in waiting \ stopped : zombies[s] > 0

\* What ends the master is a client that goes between connect and request, and
\* nothing else: no wrong password, no client that leaves later on, no dead worker.
EndedByACut == pc = "ended" => cut

\* A client that waits for the master gets out of it: it gets an answer or, if the
\* master ends, an error.  The program of the client sends its request at once, so
\* that none keeps the master from the next.
MasterAnswers == \A c \in Client : st[c] = "connected" ~> st[c] \in {"waiting", "session", "gone"}

\* A client that has connected to its slave gets a worker, as long as that slave has
\* one left, if the sessions before its own end: those that have gone out of the
\* queue, or died in it, leave their workers to the others.
WaitingIsServed ==
  (\A c \in Client : []<>(st[c] # "session"))
    => \A c \in Client : st[c] = "waiting" ~> st[c] # "waiting" \/ ~Left(slave_ip(told[c]))
=============================================================================

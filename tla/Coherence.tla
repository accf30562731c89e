------------------------------ MODULE Coherence ------------------------------
(***************************************************************************)
(* The replication of RM and PUT between the slaves: the worker that ends  *)
(* a session (serveur_ftp.c) replays its journal to every other slave,     *)
(* one after the other, with UPDATE requests; a worker of that slave       *)
(* serves them like those of a client.  The workers that replay and those  *)
(* that serve are the same ones: who replays serves nobody.                *)
(*                                                                         *)
(* Journals and peers are parameters.  In the program as it is built, add  *)
(* (logs.c) leaves every journal empty, and update (utils.c) the list that *)
(* the master sends: Journal is {<<>>}, and coherence does nothing.  This  *)
(* module is about what coherence does with the journals that the unit     *)
(* tests of logs.c build, and with the list as the master means it.        *)
(*                                                                         *)
(* open_file_w may refuse a new file (see Paths): then its block, unless   *)
(* the read of its header has taken it along, is read as a request.  From  *)
(* there on the two ends are `astray', and what they do is not followed.   *)
(*                                                                         *)
(* Abstractions.  A file has one block, or none: it is empty.  No path is  *)
(* a directory on any slave.  A slave whose last worker has died still     *)
(* listens.  A worker that dies does not do so in the middle of the        *)
(* session of a client: see Store for that.                                *)
(***************************************************************************)
EXTENDS Integers, Sequences, FiniteSets

CONSTANTS
  Slave,
  Pool,         \* the workers, pairs of a slave and a name, that are alive at first
  Path,
  Content,      \* what clients put
  Config,       \* the lines of config_master that the master has read
  Ip,           \* Ip[s]: the line that is the address of slave s
  Host,         \* Host[l]: the slave that line l leads to
  Journal,      \* what sessions record
  Conn,         \* connections between slaves (a bound of the model)
  MaxSessions,  \* how many sessions change files (a bound of the model)
  MaxDeaths,    \* how many workers are killed (a bound of the model)
  OLD,          \* the content that every file has at first
  EMPTY,        \* a file of no byte
  BLANK,        \* a line of no character
  NONE          \* no file, no connection

Entry == [type : {"RM", "PUT"}, path : Path]

ASSUME CoherenceAssumption ==
  /\ \A a \in Pool : a = <<a[1], a[2]>> /\ a[1] \in Slave
  /\ Len(Config) \in Nat
  /\ \A k \in 1..Len(Config) : Config[k] # BLANK => Host[Config[k]] \in Slave
  /\ Journal \subseteq Seq(Entry)
  /\ MaxSessions \in Nat /\ MaxDeaths \in Nat
  /\ NONE \notin Conn \cup Path \cup Content \cup {OLD, EMPTY}
  /\ EMPTY \notin Content \cup {OLD}

VARIABLES
  disk,      \* disk[s][p]: the file p of slave s
  job,       \* job[a]: what worker a does
  link,      \* link[n]: what is on its way on connection n, and who has it open
  queue,     \* queue[s]: the connections to slave s that no worker has accepted
  sessions,  \* how many sessions there have been
  killed,    \* how many workers were killed
  changed,   \* changed[p]: how many sessions have changed p (for the properties)
  refused    \* the pairs of a slave and a path whose update it has refused (likewise)

vars == <<disk, job, link, queue, sessions, killed, changed, refused>>

-----------------------------------------------------------------------------
File == Content \cup {OLD, EMPTY, NONE}

Update(e)   == [kind |-> "update", entry |-> e]
Bye         == [kind |-> "bye"]
Header(v)   == [kind |-> "header", found |-> v # NONE, blocks |-> IF v \in {NONE, EMPTY} THEN 0 ELSE 1]
Block(v)    == [kind |-> "block", data |-> v]

\* Where the first k lines that the master lists to slave s lead, for each k: it
\* leaves out the line that is the address of s.
Listed(s) ==
  LET list[k \in 0..Len(Config)] ==
        IF k = 0 THEN <<>>
        ELSE IF Config[k] \in {BLANK, Ip[s]} THEN list[k - 1]
        ELSE Append(list[k - 1], Host[Config[k]])
  IN list

Peers(s) == Listed(s)[Len(Config)]

\* A worker.  Of the journal log it is at entry k, and on its way to the first of
\* peers over conn; of path it has the file open, or what held says if that file
\* has lost its name since.
Idle == [at |-> "accept", log |-> <<>>, k |-> 1, peers |-> <<>>, conn |-> NONE,
         path |-> NONE, open |-> FALSE, held |-> NONE]

\* A worker whose end of a stream is no longer in step with the other one.
Astray == [Idle EXCEPT !.at = "astray"]

Closed == [out |-> <<>>, back |-> <<>>, ends |-> {}]

At(a, place) == job[a].at = place
SlaveOf(a)   == a[1]
EntryOf(a)   == job[a].log[job[a].k]
Replaying(a) == job[a].at \in {"list", "peer", "entry", "ack", "open", "block", "stored", "bye"}

Unused(n) == /\ \A a \in Pool : job[a].conn # n
             /\ \A s \in Slave : \A k \in 1..Len(queue[s]) : queue[s][k] # n

Init ==
  /\ disk = [s \in Slave |-> [p \in Path |-> OLD]]
  /\ job = [a \in Pool |-> Idle]
  /\ link = [n \in Conn |-> Closed]
  /\ queue = [s \in Slave |-> <<>>]
  /\ sessions = 0
  /\ killed = 0
  /\ changed = [p \in Path |-> 0]
  /\ refused = {}

-----------------------------------------------------------------------------
(* What workers do to the files of their slave. *)

Becomes(a, j) == job' = [job EXCEPT ![a] = j]

\* unlink(2): those that have the file open keep it.
Remove(a, p, j) ==
  LET s == SlaveOf(a)
      has(b) == SlaveOf(b) = s /\ job[b].open /\ job[b].path = p /\ job[b].held = NONE
  IN /\ disk' = [disk EXCEPT ![s][p] = NONE]
     /\ job' = [b \in Pool |->
          IF b = a THEN j
          ELSE IF has(b) THEN [job[b] EXCEPT !.held = disk[s][p]] ELSE job[b]]

\* open_file_w, and j is what the worker does next.
Truncate(a, p, j) ==
  /\ disk' = [disk EXCEPT ![SlaveOf(a)][p] = EMPTY]
  /\ Becomes(a, j)

\* The block is written, under the name of the file if it still has one.
Store(a, v, j) ==
  /\ disk' = IF job[a].held = NONE THEN [disk EXCEPT ![SlaveOf(a)][job[a].path] = v] ELSE disk
  /\ Becomes(a, j)

-----------------------------------------------------------------------------
(* The session of a client, whose operations are those that it records. *)

Session(a, log) ==
  /\ At(a, "accept")
  /\ sessions < MaxSessions
  /\ sessions' = sessions + 1
  /\ changed' = [p \in Path |->
       IF \E k \in DOMAIN log : log[k].path = p THEN changed[p] + 1 ELSE changed[p]]
  /\ Becomes(a, [Idle EXCEPT !.at = "session", !.log = log])
  /\ UNCHANGED <<disk, link, queue, killed, refused>>

NextEntry(a) == [job[a] EXCEPT !.k = @ + 1, !.open = FALSE, !.held = NONE, !.path = NONE]

Operation(a) ==
  /\ At(a, "session")
  /\ job[a].k <= Len(job[a].log)
  /\ LET p == EntryOf(a).path
     IN \/ EntryOf(a).type = "RM" /\ Remove(a, p, NextEntry(a))
        \/ /\ EntryOf(a).type = "PUT"
           /\ Truncate(a, p, [job[a] EXCEPT !.at = "receive", !.path = p, !.open = TRUE])
        \/ \* a new file, refused, of which nothing is left to read
           /\ EntryOf(a).type = "PUT"
           /\ disk[SlaveOf(a)][p] = NONE
           /\ Becomes(a, NextEntry(a)) /\ UNCHANGED disk
  /\ UNCHANGED <<link, queue, sessions, killed, changed, refused>>

\* Or something is left, and is read as a request: see Stray.
StrayPut(a) ==
  /\ At(a, "session")
  /\ job[a].k <= Len(job[a].log)
  /\ EntryOf(a).type = "PUT"
  /\ disk[SlaveOf(a)][EntryOf(a).path] = NONE
  /\ Becomes(a, Astray)
  /\ UNCHANGED <<disk, link, queue, sessions, killed, changed, refused>>

Received(a, v) ==
  /\ At(a, "receive")
  /\ Store(a, v, [NextEntry(a) EXCEPT !.at = "session"])
  /\ UNCHANGED <<link, queue, sessions, killed, changed, refused>>

\* Mutant: a session is over without its journal being replayed.
EndSession_Drops(a) ==
  /\ At(a, "session")
  /\ job[a].k > Len(job[a].log)
  /\ Becomes(a, Idle)
  /\ UNCHANGED <<disk, link, queue, sessions, killed, changed, refused>>

\* The client has gone: coherence, if there is a journal.
EndSession(a) ==
  /\ At(a, "session")
  /\ job[a].k > Len(job[a].log)
  /\ Becomes(a, IF job[a].log = <<>> THEN Idle ELSE [job[a] EXCEPT !.at = "list", !.k = 1])
  /\ UNCHANGED <<disk, link, queue, sessions, killed, changed, refused>>

-----------------------------------------------------------------------------
(* coherence. *)

Says(n, m)   == link' = [link EXCEPT ![n].out = Append(@, m)]
Hears(n)     == link' = [link EXCEPT ![n].back = Tail(@)]

\* The master answers with the list, through a pipe, and free_log comes at the end.
GetList(a) ==
  /\ At(a, "list")
  /\ Becomes(a, [job[a] EXCEPT !.at = "peer", !.peers = Peers(SlaveOf(a))])
  /\ UNCHANGED <<disk, link, queue, sessions, killed, changed, refused>>

Return(a) ==
  /\ At(a, "peer")
  /\ job[a].peers = <<>>
  /\ Becomes(a, Idle)
  /\ UNCHANGED <<disk, link, queue, sessions, killed, changed, refused>>

\* Open_clientfd: the kernel of the next slave takes the connection.
Dial(a) ==
  /\ At(a, "peer")
  /\ job[a].peers # <<>>
  /\ \E n \in Conn :
       /\ n = CHOOSE m \in Conn : Unused(m)
       /\ Unused(n)
       /\ link' = [link EXCEPT ![n] = [Closed EXCEPT !.ends = {"replayer", "server"}]]
       /\ queue' = [queue EXCEPT ![Head(job[a].peers)] = Append(@, n)]
       /\ Becomes(a, [job[a] EXCEPT !.at = "entry", !.k = 1, !.conn = n])
  /\ UNCHANGED <<disk, sessions, killed, changed, refused>>

SendUpdate(a) ==
  /\ At(a, "entry")
  /\ job[a].k <= Len(job[a].log)
  /\ Says(job[a].conn, Update(EntryOf(a)))
  /\ Becomes(a, [job[a] EXCEPT !.at = "ack"])
  /\ UNCHANGED <<disk, queue, sessions, killed, changed, refused>>

\* Mutant: the first answer to a PUT is taken for the last one.
ReadAck_Once(a) ==
  /\ At(a, "ack")
  /\ link[job[a].conn].back # <<>>
  /\ Hears(job[a].conn)
  /\ Becomes(a, [NextEntry(a) EXCEPT !.at = "entry"])
  /\ UNCHANGED <<disk, queue, sessions, killed, changed, refused>>

\* The answer to an RM is not looked at; a PUT needs READY_UPDATE_PUT.
ReadAck(a) ==
  /\ At(a, "ack")
  /\ link[job[a].conn].back # <<>>
  /\ Hears(job[a].conn)
  /\ Becomes(a,
       IF EntryOf(a).type = "RM" THEN [NextEntry(a) EXCEPT !.at = "entry"]
       ELSE [job[a] EXCEPT !.at = IF Head(link[job[a].conn].back) = "ready" THEN "open" ELSE "bye"])
  /\ UNCHANGED <<disk, queue, sessions, killed, changed, refused>>

\* Mutant: nothing is sent of a file that is gone.
SendHeader_Silent(a) ==
  /\ At(a, "open")
  /\ LET p == EntryOf(a).path
         v == disk[SlaveOf(a)][p]
     IN /\ IF v = NONE THEN UNCHANGED link ELSE Says(job[a].conn, Header(v))
        /\ Becomes(a, IF v \in {NONE, EMPTY} THEN [job[a] EXCEPT !.at = "stored"]
                      ELSE [job[a] EXCEPT !.at = "block", !.path = p, !.open = TRUE])
  /\ UNCHANGED <<disk, queue, sessions, killed, changed, refused>>

\* send_file_by_blocks: the file as it is now, which may be gone.
SendHeader(a) ==
  /\ At(a, "open")
  /\ LET p == EntryOf(a).path
         v == disk[SlaveOf(a)][p]
     IN /\ Says(job[a].conn, Header(v))
        /\ Becomes(a, IF v \in {NONE, EMPTY} THEN [job[a] EXCEPT !.at = "stored"]
                      ELSE [job[a] EXCEPT !.at = "block", !.path = p, !.open = TRUE])
  /\ UNCHANGED <<disk, queue, sessions, killed, changed, refused>>

\* What there is to read in the file that a has open: what others that have it
\* open too have made of one without a name, is not followed.
Readable(a) ==
  CASE job[a].held = NONE  -> {disk[SlaveOf(a)][job[a].path]}
    [] job[a].held = EMPTY -> Content \cup {EMPTY}
    [] OTHER               -> {job[a].held, EMPTY} \cup Content

\* The end of the file before its block: nothing is sent, and an answer awaited.
SendBlock(a) ==
  /\ At(a, "block")
  /\ \E v \in Readable(a) : IF v = EMPTY THEN UNCHANGED link ELSE Says(job[a].conn, Block(v))
  /\ Becomes(a, [job[a] EXCEPT !.at = "stored", !.open = FALSE, !.held = NONE, !.path = NONE])
  /\ UNCHANGED <<disk, queue, sessions, killed, changed, refused>>

\* Mutant: an entry is passed over.
ReadStored_Skips(a) ==
  /\ At(a, "stored")
  /\ link[job[a].conn].back # <<>>
  /\ Hears(job[a].conn)
  /\ Becomes(a, [NextEntry(a) EXCEPT !.at = "entry", !.k = @ + 1])
  /\ UNCHANGED <<disk, queue, sessions, killed, changed, refused>>

\* This answer is not looked at either.
ReadStored(a) ==
  /\ At(a, "stored")
  /\ link[job[a].conn].back # <<>>
  /\ Hears(job[a].conn)
  /\ Becomes(a, [NextEntry(a) EXCEPT !.at = "entry"])
  /\ UNCHANGED <<disk, queue, sessions, killed, changed, refused>>

NextPeer(a) == [Idle EXCEPT !.at = "peer", !.log = job[a].log, !.peers = Tail(job[a].peers)]

SayBye(a) ==
  /\ At(a, "bye") \/ (At(a, "entry") /\ job[a].k > Len(job[a].log))
  /\ link' = [link EXCEPT ![job[a].conn].out = Append(@, Bye),
                          ![job[a].conn].ends = @ \ {"replayer"}]
  /\ Becomes(a, NextPeer(a))
  /\ UNCHANGED <<disk, queue, sessions, killed, changed, refused>>

-----------------------------------------------------------------------------
(* The worker of the other slave: the case UPDATE of send_server_response. *)

\* b has read the first message, and answers.
Reads(b, kind) ==
  /\ link[job[b].conn].out # <<>>
  /\ Head(link[job[b].conn].out).kind = kind
First(b)      == Head(link[job[b].conn].out)
Answers(b, m) == link' = [link EXCEPT ![job[b].conn].out = Tail(@),
                                      ![job[b].conn].back = Append(@, m)]
Takes(b)      == link' = [link EXCEPT ![job[b].conn].out = Tail(@)]
Serving(b)    == [Idle EXCEPT !.at = "serve", !.conn = job[b].conn]

Accept(b) ==
  /\ At(b, "accept")
  /\ queue[SlaveOf(b)] # <<>>
  /\ Becomes(b, [Idle EXCEPT !.at = "serve", !.conn = Head(queue[SlaveOf(b)])])
  /\ queue' = [queue EXCEPT ![SlaveOf(b)] = Tail(@)]
  /\ UNCHANGED <<disk, link, sessions, killed, changed, refused>>

\* Mutant: no answer to an RM.
ServeRm_Silent(b) ==
  /\ At(b, "serve") /\ Reads(b, "update") /\ First(b).entry.type = "RM"
  /\ Remove(b, First(b).entry.path, Serving(b))
  /\ Takes(b)
  /\ UNCHANGED <<queue, sessions, killed, changed, refused>>

\* Answered, whether there was such a file or not.
ServeRm(b) ==
  /\ At(b, "serve") /\ Reads(b, "update") /\ First(b).entry.type = "RM"
  /\ Remove(b, First(b).entry.path, Serving(b))
  /\ Answers(b, "done")
  /\ UNCHANGED <<queue, sessions, killed, changed, refused>>

ServePut(b) ==
  /\ At(b, "serve") /\ Reads(b, "update") /\ First(b).entry.type = "PUT"
  /\ Answers(b, "ready")
  /\ Becomes(b, [job[b] EXCEPT !.at = "header", !.path = First(b).entry.path])
  /\ UNCHANGED <<disk, queue, sessions, killed, changed, refused>>

\* A header that says that there is no such file leaves this one as it is.
NoSuchFile(b) ==
  /\ At(b, "header") /\ Reads(b, "header") /\ ~First(b).found
  /\ Answers(b, "done")
  /\ Becomes(b, Serving(b))
  /\ UNCHANGED <<disk, queue, sessions, killed, changed, refused>>

OpenFile(b) ==
  /\ At(b, "header") /\ Reads(b, "header") /\ First(b).found
  /\ IF First(b).blocks = 0
     THEN Truncate(b, job[b].path, Serving(b)) /\ Answers(b, "done")
     ELSE /\ Truncate(b, job[b].path, [job[b] EXCEPT !.at = "storing", !.open = TRUE])
          /\ Takes(b)
  /\ UNCHANGED <<queue, sessions, killed, changed, refused>>

\* A new file, refused: the struct stat of open_file_w is what it happens to be.
\* The answer is an error, which ReadStored does not look at.  The read of the
\* header may have taken the block along, into a rio_t that is dropped here.
RefuseFile(b) ==
  /\ At(b, "header") /\ Reads(b, "header") /\ First(b).found
  /\ disk[SlaveOf(b)][job[b].path] = NONE
  /\ \E rest \in {Tail(link[job[b].conn].out), <<>>} :
       link' = [link EXCEPT ![job[b].conn].out = rest,
                            ![job[b].conn].back = Append(@, "done")]
  /\ refused' = refused \cup {<<SlaveOf(b), job[b].path>>}
  /\ Becomes(b, Serving(b))
  /\ UNCHANGED <<disk, queue, sessions, killed, changed>>

\* The block of a refused file, read as a request.
Stray(b) ==
  /\ At(b, "serve") /\ Reads(b, "block")
  /\ job' = [a \in Pool |-> IF job[a].conn = job[b].conn THEN Astray ELSE job[a]]
  /\ UNCHANGED <<disk, link, queue, sessions, killed, changed, refused>>

StoreBlock(b) ==
  /\ At(b, "storing") /\ Reads(b, "block")
  /\ Store(b, First(b).data, Serving(b))
  /\ Answers(b, "done")
  /\ UNCHANGED <<queue, sessions, killed, changed, refused>>

\* An update is no operation of a client: there is nothing to replay.
ServeBye(b) ==
  /\ At(b, "serve") /\ Reads(b, "bye")
  /\ link' = [link EXCEPT ![job[b].conn] = Closed]
  /\ Becomes(b, Idle)
  /\ UNCHANGED <<disk, queue, sessions, killed, changed, refused>>

-----------------------------------------------------------------------------
(* Workers that die.  The other one reads the end of the stream, and goes on  *)
(* with what is next, or is reset, and exits.                                 *)

HangsUp(a, end) ==
  link' = IF job[a].conn = NONE THEN link ELSE [link EXCEPT ![job[a].conn].ends = @ \ {end}]

Dead == [Idle EXCEPT !.at = "dead"]
Served(b) == job[b].at \in {"serve", "header", "storing"}

Kill(a) ==
  /\ killed < MaxDeaths
  /\ At(a, "accept") \/ Replaying(a) \/ Served(a)
  /\ killed' = killed + 1
  /\ Becomes(a, Dead)
  /\ HangsUp(a, IF Replaying(a) THEN "replayer" ELSE "server")
  /\ UNCHANGED <<disk, queue, sessions, changed, refused>>

PeerLost(a) ==
  /\ Replaying(a) /\ job[a].conn # NONE
  /\ "server" \notin link[job[a].conn].ends
  /\ \E j \in {Dead, NextPeer(a)} : Becomes(a, j)
  /\ HangsUp(a, "replayer")
  /\ UNCHANGED <<disk, queue, sessions, killed, changed, refused>>

ReplayerLost(b) ==
  /\ Served(b)
  /\ "replayer" \notin link[job[b].conn].ends
  /\ \A k \in 1..Len(link[job[b].conn].out) : link[job[b].conn].out[k] # Bye
  /\ \E j \in {Dead, Idle} : Becomes(b, j)
  /\ HangsUp(b, "server")
  /\ UNCHANGED <<disk, queue, sessions, killed, changed, refused>>

-----------------------------------------------------------------------------
Replay(a) ==
  \/ GetList(a) \/ Return(a) \/ Dial(a) \/ SendUpdate(a) \/ ReadAck(a)
  \/ SendHeader(a) \/ SendBlock(a) \/ ReadStored(a) \/ SayBye(a) \/ PeerLost(a)

Serve(b) ==
  \/ Accept(b) \/ ServeRm(b) \/ ServePut(b) \/ NoSuchFile(b) \/ OpenFile(b)
  \/ RefuseFile(b) \/ Stray(b) \/ StoreBlock(b) \/ ServeBye(b) \/ ReplayerLost(b)

GoOn(a) ==
  \/ Operation(a) \/ StrayPut(a) \/ (\E v \in Content : Received(a, v)) \/ EndSession(a)
  \/ Replay(a) \/ Serve(a)

Next == \E a \in Pool : GoOn(a) \/ Kill(a) \/ \E log \in Journal : Session(a, log)

Spec == Init /\ [][Next]_vars

\* Every worker goes on as long as it can, and so does the client it serves, until
\* it says bye: a session is as long as its journal.
Fairness == \A a \in Pool : WF_vars(GoOn(a))

FairSpec == Spec /\ Fairness

-----------------------------------------------------------------------------
(* Properties. *)

Message ==
  [kind : {"update"}, entry : Entry] \cup {Bye}
    \cup [kind : {"header"}, found : BOOLEAN, blocks : 0..1]
    \cup [kind : {"block"}, data : Content \cup {OLD}]

\* The type invariant.
TypeOK ==
  /\ disk \in [Slave -> [Path -> File]]
  /\ \A a \in Pool :
       /\ job[a].log \in Seq(Entry)
       /\ job[a].k \in 1..(Len(job[a].log) + 1)
       /\ job[a].peers \in Seq(Slave)
       /\ job[a].conn \in Conn \cup {NONE}
       /\ job[a].path \in Path \cup {NONE}
       /\ job[a].open => job[a].path \in Path
       /\ job[a].held \in File
  /\ link \in [Conn -> [out : Seq(Message), back : Seq({"ready", "done"}),
                        ends : SUBSET {"replayer", "server"}]]
  /\ queue \in [Slave -> Seq(Conn)]
  /\ sessions \in 0..MaxSessions
  /\ killed \in 0..MaxDeaths
  /\ changed \in [Path -> 0..MaxSessions]
  /\ refused \subseteq Slave \X Path

\* No block was read as a request, so that every stream is followed.
InStep == \A a \in Pool : ~At(a, "astray")

\* A replay delivers in order: of the paths that no other session has changed, the
\* slave it is connected to has, after each entry, what the slave of the session
\* has, up to the entries that are still to come; though a PUT sends the file as
\* it is by then, not as it was at that entry, and no answer is looked at.  But
\* for a file that this slave has refused, which it lacks: the replay goes on as
\* if it had it.  And nothing is said once a block was read as a request (InStep).
Delivered ==
  InStep => \A a \in Pool : At(a, "entry") =>
    \A p \in Path :
      changed[p] = 1
        /\ <<Head(job[a].peers), p>> \notin refused
        /\ (\E k \in 1..(job[a].k - 1) : job[a].log[k].path = p)
        /\ (\A k \in (job[a].k)..Len(job[a].log) : job[a].log[k].path # p)
      => disk[Head(job[a].peers)][p] = disk[SlaveOf(a)][p]

\* What the list of the master is for: where it leads from slave s, is to each of
\* the others, and not to s.
RightList == \A s \in Slave : {Peers(s)[k] : k \in 1..Len(Peers(s))} = Slave \ {s}

\* Which it is when its lines are the addresses of the slaves.
ByAddress ==
  /\ \A s \in Slave : Host[Ip[s]] = s /\ Ip[s] # BLANK /\ \E k \in 1..Len(Config) : Config[k] = Ip[s]
  /\ \A k \in 1..Len(Config) : Config[k] # BLANK => \E s \in Slave : Config[k] = Ip[s]

\* Weak coherence: once nothing is going on, slaves have the same file under every
\* path that not more than one session has changed, but for those that refused it
\* when it was replayed to them, and unless a worker was killed.  Slaves that
\* differ stay so: no update is sent again.  Sessions that end at the same time
\* replay at the same time, to one another, through workers of the same pools.
\* Workers that are astray count as going on, so that nothing is said with them.
Quiet == /\ \A a \in Pool : job[a].at \in {"accept", "dead"}
         /\ \A s \in Slave : queue[s] = <<>>

Converges ==
  Quiet /\ killed = 0 =>
    \A p \in Path : changed[p] <= 1 =>
      \A s, t \in {s \in Slave : <<s, p>> \notin refused} : disk[s][p] = disk[t][p]

\* A replay ends, or goes astray, but for two reasons.  It stands in the queue of a
\* slave of which each worker is dead, astray, or replays in its turn (or has no
\* end, for the second of these reasons); or its file was cut short after its size
\* had been announced, so that either side waits for the other.
CutShort(a) == /\ At(a, "stored")
               /\ link[job[a].conn].out = <<>>
               /\ \E b \in Pool : job[b].conn = job[a].conn /\ At(b, "storing")

Queued(a) == \E k \in 1..Len(queue[Head(job[a].peers)]) : queue[Head(job[a].peers)][k] = job[a].conn

NoneLeft(t) ==
  \A b \in Pool : SlaveOf(b) = t =>
    \/ Replaying(b)
    \/ job[b].at \in {"dead", "astray"}
    \/ At(b, "storing") /\ \E a \in Pool : CutShort(a) /\ job[a].conn = job[b].conn

Excused(a) == /\ Replaying(a) /\ job[a].conn # NONE
              /\ CutShort(a) \/ (Queued(a) /\ NoneLeft(Head(job[a].peers)))

\* A replay that has nothing to read does not wait for nothing: the worker that
\* serves it has the message that it is to answer, or the block of a file that it
\* refused before that, or has gone; or no worker has accepted the connection, or
\* the file was cut short.  Nothing but the order in which coherence and the case
\* UPDATE read and write sees to that.
HasItsMessage(b) ==
  \/ At(b, "serve") /\ (Reads(b, "update") \/ Reads(b, "block"))
  \/ At(b, "header") /\ Reads(b, "header")
  \/ At(b, "storing") /\ Reads(b, "block")

WaitsForAReason ==
  \A a \in Pool : (At(a, "ack") \/ At(a, "stored")) /\ link[job[a].conn].back = <<>> =>
    \/ \E b \in Pool : Served(b) /\ job[b].conn = job[a].conn /\ HasItsMessage(b)
    \/ "server" \notin link[job[a].conn].ends
    \/ Queued(a) \/ CutShort(a)

ReplaysEnd == \A a \in Pool : Replaying(a) ~> (~Replaying(a) \/ []Excused(a))
=============================================================================

------------------------------ MODULE Session -------------------------------
(***************************************************************************)
(* The FTP session: the command loop of client.c against the loop of a     *)
(* worker of serveur_ftp.c, over one TCP connection at a time.  The worker *)
(* serves clients one after the other; when it dies, the next connection   *)
(* is accepted by another worker of the pool, as long as one is left.      *)
(*                                                                         *)
(* The connection is two streams.  A reader goes through a rio_t, which    *)
(* may take from the stream more than was asked for; every function that   *)
(* reads makes a fresh one, so that what a rio_t still holds when the next *)
(* function reads is lost.  Either end may close, or its process die, at   *)
(* any time; what it had not read then may turn the close into a reset.    *)
(*                                                                         *)
(* Abstractions.  A message is read and written whole, and the contents of *)
(* a file are the sequence of its blocks.  `get' is the plain GET: RESUME, *)
(* the .part and the .part.meta are the subject of module Download.  What  *)
(* a side does after it has read a message of another kind than the one it *)
(* expects is not followed.  A socket buffer never fills up.               *)
(***************************************************************************)
EXTENDS Integers, Sequences

CONSTANTS
  Path,            \* the paths that users name
  Dir,             \* those that are directories of the slave
  Value,           \* what a block of a file may hold
  NONE,            \* no file, no path, no command
  Local,           \* Local[p]: the client's file p at first, or NONE
  Remote,          \* Remote[p]: the slave's
  Others,          \* what the `put' of another client may store
  SharedTransfer,  \* whether a file may change while a command uses it
  Killable,        \* the processes that may be killed: "client", "worker"
  POOL_SIZE        \* workers of the slave

File == Seq(Value) \cup {NONE}

ASSUME SessionAssumption ==
  /\ Dir \subseteq Path
  /\ NONE \notin Path
  /\ NONE \notin Value
  /\ NONE \notin Seq(Value)
  /\ Local \in [Path -> File]
  /\ Remote \in [Path -> File]
  /\ \A p \in Dir : Remote[p] = NONE
  /\ Others \subseteq Seq(Value)
  /\ SharedTransfer \in BOOLEAN
  /\ Killable \subseteq {"client", "worker"}
  /\ POOL_SIZE \in Nat \ {0}

VARIABLES
  srv,    \* srv[p]: the slave's file p, or NONE
  local,  \* local[p]: the client's, or NONE
  alive,  \* workers left in the pool
  w,      \* the worker: where it is, the request it serves, how far it is
  log,    \* its journal of the session
  c,      \* the client: where it is, its command, how far it is
  c2s,    \* what is on its way to the worker
  s2c,    \* and to the client
  wrio,   \* read ahead by the worker
  crio,   \* and by the client
  cend,   \* the client's end, as the worker sees it: "open", "eof", "reset"
  wend    \* the worker's end, as the client sees it

files == <<srv, local>>
up    == <<c2s, wrio, cend>>   \* the worker's reading side
down  == <<s2c, crio, wend>>   \* the client's
vars  == <<srv, local, alive, w, log, c, c2s, s2c, wrio, crio, cend, wend>>

-----------------------------------------------------------------------------
Commands == {"GET", "PUT", "LS", "RM", "BYE"}

NO_ERROR_R   == 0
PATH_ERROR_R == 1

Request(type, p)   == [kind |-> "request", type |-> type, path |-> p]
Header(e, t)       == [kind |-> "header", error |-> e, total_size |-> t]
Block(v)           == [kind |-> "block", data |-> v]
Response(e, about) == [kind |-> "response", error |-> e, content |-> about]

NoWorker == [pc |-> "accept", cmd |-> NONE, path |-> NONE, total |-> 0, count |-> 0,
             unread |-> 0]
NoClient == [pc |-> "down", cmd |-> NONE, path |-> NONE, total |-> 0, count |-> 0,
             got |-> <<>>]

\* add of logs.c: an entry goes at the end of a list that has one already; on
\* an empty list it returns 1, before the branch that would make the first entry.
add(l, type, p) ==
  IF l = <<>> THEN l ELSE Append(l, [type |-> type, path |-> p])

\* How the peer sees a close, when `unread' had not been read: a reset, unless
\* it was still on its way.
Ends(unread) == IF unread = <<>> THEN {"eof"} ELSE {"eof", "reset"}

-----------------------------------------------------------------------------
Init ==
  /\ srv = Remote
  /\ local = Local
  /\ alive = POOL_SIZE
  /\ w = NoWorker
  /\ log = <<>>
  /\ c = NoClient
  /\ c2s = <<>> /\ wrio = <<>>
  /\ s2c = <<>> /\ crio = <<>>
  /\ cend = "eof" /\ wend = "eof"

-----------------------------------------------------------------------------
(* Reading and writing a connection. *)

\* Rio_readnb on a rio_t that holds nothing: read(2) returns what there is of
\* the stream, up to the size of the buffer.
Refill(stream, stream2, rio2) ==
  /\ stream # <<>>
  /\ \E k \in 1..Len(stream) :
       /\ rio2 = SubSeq(stream, 2, k)
       /\ stream2 = SubSeq(stream, k + 1, Len(stream))

\* Rio_readnb on one already in use.
ReadOn(rio, stream, stream2, rio2) ==
  IF rio # <<>> THEN rio2 = Tail(rio) /\ stream2 = stream
                ELSE Refill(stream, stream2, rio2)

\* The worker reads the first message of a function, or one more.
WorkerReads   == Refill(c2s, c2s', wrio') /\ UNCHANGED <<cend, down>>
WorkerReadsOn == ReadOn(wrio, c2s, c2s', wrio') /\ UNCHANGED <<cend, down>>

\* What the client sent has all been read, and it has gone.
WorkerReadsEnd(how) ==
  /\ cend = how /\ c2s = <<>>
  /\ \/ w.pc \in {"request", "header"}
     \/ w.pc = "blocks" /\ w.count < w.total /\ wrio = <<>>

\* socket_write_all.  To a client that has gone, a write is lost or fails; the
\* failure of the first write after a reset takes the error off the socket.
WorkerWrites(m, ok) ==
  \/ /\ cend = "open" /\ ok
     /\ s2c' = Append(s2c, m)
     /\ UNCHANGED <<c2s, wrio, cend, crio, wend>>
  \/ /\ cend = "eof"
     /\ UNCHANGED <<up, down>>
  \/ /\ cend = "reset" /\ ~ok
     /\ cend' = "eof"
     /\ UNCHANGED <<c2s, wrio, down>>

ClientReads   == Refill(s2c, s2c', crio') /\ UNCHANGED <<wend, up>>
ClientReadsOn == ReadOn(crio, s2c, s2c', crio') /\ UNCHANGED <<wend, up>>

\* What the worker sent has all been read, and it has gone.
ClientReadsEnd(how) ==
  /\ wend = how /\ s2c = <<>>
  /\ \/ c.pc \in {"header", "ready", "result", "response", "bye"}
     \/ c.pc = "blocks" /\ Len(c.got) < c.total /\ crio = <<>>

\* A write on a connection that the worker has closed goes nowhere or kills the
\* process (ClientKilled); on a reset one it fails (UploadFails, AskReset).
ClientWrites(m) ==
  /\ wend # "reset"
  /\ c2s' = IF wend = "open" THEN Append(c2s, m) ELSE c2s
  /\ UNCHANGED <<wrio, cend, down>>

-----------------------------------------------------------------------------
(* The client. *)

Accepted ==
  /\ c.pc = "down"
  /\ w.pc = "accept"
  /\ c' = [NoClient EXCEPT !.pc = "prompt"]
  /\ w' = [NoWorker EXCEPT !.pc = "request"]
  /\ c2s' = <<>> /\ wrio' = <<>> /\ cend' = "open"
  /\ s2c' = <<>> /\ crio' = <<>> /\ wend' = "open"
  /\ UNCHANGED <<files, alive, log>>

\* Mutant: a connection is served when every worker is dead.
Connect_NoWorkerLeft == Accepted

\* main connects, and a worker of those that are left accepts.
Connect == alive > 0 /\ Accepted

\* Where the client reads the answer to each command.
Awaits == [GET |-> "header", LS |-> "header", RM |-> "response",
           PUT |-> "ready", BYE |-> "bye"]

\* A command of the user; the end of its input is a `bye'.
Ask(type, p) ==
  /\ c.pc = "prompt"
  /\ ClientWrites(Request(type, p))
  /\ c' = [c EXCEPT !.pc = Awaits[type], !.cmd = type, !.path = p]
  /\ UNCHANGED <<files, alive, w, log>>

Prompt == c' = [NoClient EXCEPT !.pc = "prompt"]

\* The header that answers a get or an ls.
ReadHeader ==
  /\ c.pc = "header"
  /\ ClientReads
  /\ Head(s2c).kind = "header"
  /\ IF Head(s2c).error # NO_ERROR_R
     THEN Prompt
     ELSE c' = [c EXCEPT !.pc = "blocks", !.total = Head(s2c).total_size]
  /\ UNCHANGED <<files, alive, w, log>>

ReadBlock ==
  /\ c.pc = "blocks"
  /\ Len(c.got) < c.total
  /\ ClientReadsOn
  /\ LET m == Head(crio \o s2c)
     IN m.kind = "block" /\ c' = [c EXCEPT !.got = Append(@, m.data)]
  /\ UNCHANGED <<files, alive, w, log>>

\* The file takes its final name, or the listing is complete.
Received ==
  /\ c.pc = "blocks"
  /\ Len(c.got) = c.total
  /\ local' = IF c.cmd = "GET" THEN [local EXCEPT ![c.path] = c.got] ELSE local
  /\ Prompt
  /\ UNCHANGED <<srv, alive, w, log, up, down>>

\* The answer to an rm, or the last one to a put.
ReadResponse ==
  /\ c.pc \in {"response", "result"}
  /\ ClientReads
  /\ Head(s2c).kind = "response"
  /\ Prompt
  /\ UNCHANGED <<files, alive, w, log>>

\* The first answer to a put: the upload begins only then.
ReadReady ==
  /\ c.pc = "ready"
  /\ ClientReads
  /\ Head(s2c) = Response(NO_ERROR_R, "READY_PUT")
  /\ c' = [c EXCEPT !.pc = "upload"]
  /\ UNCHANGED <<files, alive, w, log>>

\* send_file_by_blocks, from the client's directory: the header,
UploadHeader ==
  /\ c.pc = "upload"
  /\ LET f == local[c.path]
     IN IF f = NONE
        THEN /\ ClientWrites(Header(PATH_ERROR_R, 0))
             /\ c' = [c EXCEPT !.pc = "result"]
        ELSE /\ ClientWrites(Header(NO_ERROR_R, Len(f)))
             /\ c' = [c EXCEPT !.pc = IF f = <<>> THEN "result" ELSE "sending",
                               !.total = Len(f)]
  /\ UNCHANGED <<files, alive, w, log>>

\* then each block, until all that was announced is sent or the file ends.
UploadBlock ==
  /\ c.pc = "sending"
  /\ LET f == local[c.path]
     IN IF c.count < Len(f)
        THEN /\ ClientWrites(Block(f[c.count + 1]))
             /\ c' = [c EXCEPT !.pc = IF c.count + 1 = c.total THEN "result" ELSE "sending",
                               !.count = @ + 1]
        ELSE /\ c' = [c EXCEPT !.pc = "result"]
             /\ UNCHANGED <<up, down>>
  /\ UNCHANGED <<files, alive, w, log>>

\* socket_write_all fails on a reset connection, which takes the error off it.  The
\* upload is over, and what it was worth is read all the same.
UploadFails ==
  /\ wend = "reset"
  /\ \/ c.pc = "upload"
     \/ c.pc = "sending" /\ c.count < Len(local[c.path])
  /\ c' = [c EXCEPT !.pc = "result"]
  /\ wend' = "eof"
  /\ UNCHANGED <<files, alive, w, log, up, s2c, crio>>

\* Close(clientfd), by the program or by the end of the process.
ClientCloses(unread) ==
  /\ c' = NoClient
  /\ s2c' = <<>> /\ crio' = <<>> /\ wend' = "eof"
  /\ cend' \in IF wend = "open" THEN Ends(unread) ELSE {"eof"}
  /\ UNCHANGED <<files, alive, w, log, c2s, wrio>>

\* The answer to bye has come, or never will.
ReadBye ==
  /\ c.pc = "bye"
  /\ \/ s2c # <<>> /\ Head(s2c).kind = "response"
     \/ ClientReadsEnd("eof")
  /\ ClientCloses(<<>>)

\* The worker has gone: the command fails, and the client prompts again.
AnswerLost ==
  /\ c.pc # "bye"
  /\ ClientReadsEnd("eof")
  /\ Prompt
  /\ UNCHANGED <<files, alive, w, log, up, down>>

\* A read on a reset connection ends the process: Rio_readnb exits.
ClientReset == ClientReadsEnd("reset") /\ ClientCloses(<<>>)

\* So does the write of a command, when the last answer had come first.
AskReset ==
  /\ c.pc = "prompt"
  /\ wend = "reset"
  /\ ClientCloses(<<>>)

\* The process is killed.
ClientKilled == "client" \in Killable /\ c.pc # "down" /\ ClientCloses(s2c)

-----------------------------------------------------------------------------
(* The worker. *)

\* The request is over, and the worker reads the next one.
Loop == w' = [w EXCEPT !.pc = "request", !.total = 0, !.count = 0]

\* Or it ends the session.
Leave == w' = [w EXCEPT !.pc = "close"]

ReadRequest ==
  /\ w.pc = "request"
  /\ WorkerReads
  /\ LET m == Head(c2s)
     IN /\ m.kind = "request"
        /\ w' = [w EXCEPT !.pc = "handle", !.cmd = m.type, !.path = m.path]
        /\ log' = IF m.type \in {"RM", "PUT"} THEN add(log, m.type, m.path) ELSE log
  /\ UNCHANGED <<files, alive, c>>

\* Mutant: a read_request that fails is tried again.
RequestLost_Retried ==
  /\ w.pc \in {"header", "blocks"}
  /\ WorkerReadsEnd("eof")
  /\ Leave
  /\ UNCHANGED <<files, alive, log, c, up, down>>

\* read_request fails, or a put is cut short: CLIENT_DISCONNECTED_R.
RequestLost ==
  /\ w.pc \in {"request", "header", "blocks"}
  /\ WorkerReadsEnd("eof")
  /\ Leave
  /\ UNCHANGED <<files, alive, log, c, up, down>>

\* Mutant: send_error, a response, where the client reads a header.
ServeGet_SendError ==
  /\ w.pc = "handle" /\ w.cmd = "GET"
  /\ srv[w.path] = NONE
  /\ \E ok \in BOOLEAN :
       /\ WorkerWrites(Response(PATH_ERROR_R, "ERROR"), ok)
       /\ IF ok THEN Loop ELSE Leave
  /\ UNCHANGED <<files, alive, log, c>>

\* A get: the error header, or the one that announces the blocks.
ServeGet ==
  /\ w.pc = "handle" /\ w.cmd = "GET"
  /\ \E ok \in BOOLEAN :
       LET f == srv[w.path]
       IN IF f = NONE
          THEN /\ WorkerWrites(Header(PATH_ERROR_R, 0), ok)
               /\ IF ok THEN Loop ELSE Leave
          ELSE /\ WorkerWrites(Header(NO_ERROR_R, Len(f)), ok)
               /\ IF ~ok THEN Leave
                  ELSE IF f = <<>> THEN Loop
                  ELSE w' = [w EXCEPT !.pc = "send", !.total = Len(f)]
  /\ UNCHANGED <<files, alive, log, c>>

\* An ls of a file: its name, sent as a content of one block.  A write that
\* fails does not end the session, the next read does.
ServeLs ==
  /\ w.pc = "handle" /\ w.cmd = "LS"
  /\ srv[w.path] # NONE
  /\ \E ok \in BOOLEAN :
       /\ WorkerWrites(Header(NO_ERROR_R, 1), ok)
       /\ IF ok THEN w' = [w EXCEPT !.pc = "send", !.total = 1] ELSE Loop
  /\ UNCHANGED <<files, alive, log, c>>

\* One block of the open file or of the listing.  A file that ends before what
\* was announced ends the answer there.
SendBlock ==
  /\ w.pc = "send"
  /\ LET content == IF w.cmd = "LS" THEN <<NONE>> ELSE srv[w.path]
     IN IF w.count < Len(content)
        THEN \E ok \in BOOLEAN :
               /\ WorkerWrites(Block(content[w.count + 1]), ok)
               /\ IF ~ok THEN (IF w.cmd = "GET" THEN Leave ELSE Loop)
                  ELSE IF w.count + 1 = w.total THEN Loop
                  ELSE w' = [w EXCEPT !.count = @ + 1]
        ELSE Loop /\ UNCHANGED <<up, down>>
  /\ UNCHANGED <<files, alive, log, c>>

\* An rm; directories are not removed.
ServeRm ==
  /\ w.pc = "handle" /\ w.cmd = "RM"
  /\ srv' = [srv EXCEPT ![w.path] = NONE]
  /\ \E ok \in BOOLEAN :
       WorkerWrites(Response(NO_ERROR_R,
                             IF srv[w.path] = NONE THEN "NOT_REMOVED" ELSE "REMOVED"), ok)
  /\ Loop
  /\ UNCHANGED <<local, alive, log, c>>

\* Mutant: the put is acknowledged before it is received.
ServePut_AckFirst ==
  /\ w.pc = "handle" /\ w.cmd = "PUT"
  /\ cend = "open"
  /\ s2c' = s2c \o <<Response(NO_ERROR_R, "READY_PUT"), Response(NO_ERROR_R, "PUT")>>
  /\ w' = [w EXCEPT !.pc = "header"]
  /\ UNCHANGED <<files, alive, log, c, up, crio, wend>>

\* A put: the worker says that it is ready,
ServePut ==
  /\ w.pc = "handle" /\ w.cmd = "PUT"
  /\ \E ok \in BOOLEAN : WorkerWrites(Response(NO_ERROR_R, "READY_PUT"), ok)
  /\ w' = [w EXCEPT !.pc = "header"]
  /\ UNCHANGED <<files, alive, log, c>>

\* reads the header, which may say that the client has no such file,
PutHeader ==
  /\ w.pc = "header"
  /\ WorkerReads
  /\ Head(c2s).kind = "header"
  /\ w' = IF Head(c2s).error # NO_ERROR_R
          THEN [w EXCEPT !.pc = "failed"]
          ELSE [w EXCEPT !.pc = "open", !.total = Head(c2s).total_size]
  /\ UNCHANGED <<files, alive, log, c>>

\* opens the file, which empties it,
PutOpen ==
  /\ w.pc = "open"
  /\ w.path \notin Dir
  /\ srv' = [srv EXCEPT ![w.path] = <<>>]
  /\ w' = [w EXCEPT !.pc = "blocks"]
  /\ UNCHANGED <<local, alive, log, c, up, down>>

\* or cannot, and leaves the blocks that were announced unread: the path is a
\* directory, or open_file_w takes it for one, for it looks at a struct stat
\* that nothing has written when the file does not exist,
PutRefused ==
  /\ w.pc = "open"
  /\ srv[w.path] = NONE
  /\ w' = [w EXCEPT !.pc = "failed", !.unread = w.total]
  /\ UNCHANGED <<files, alive, log, c, up, down>>

\* writes each block,
PutBlock ==
  /\ w.pc = "blocks"
  /\ w.count < w.total
  /\ WorkerReadsOn
  /\ LET m == Head(wrio \o c2s)
     IN /\ m.kind = "block"
        /\ srv' = [srv EXCEPT ![w.path] = Append(@, m.data)]
  /\ w' = [w EXCEPT !.count = @ + 1]
  /\ UNCHANGED <<local, alive, log, c>>

Stored ==
  /\ w.pc = "blocks"
  /\ w' = [w EXCEPT !.pc = "stored"]
  /\ UNCHANGED <<files, alive, log, c, up, down>>

\* Mutant: the first block is taken for the last.
PutDone_Early == w.count > 0 /\ Stored

PutDone == w.count = w.total /\ Stored

\* and says how it ended.
PutAnswer ==
  /\ w.pc \in {"stored", "failed"}
  /\ \E ok \in BOOLEAN :
       WorkerWrites(Response(IF w.pc = "stored" THEN NO_ERROR_R ELSE PATH_ERROR_R, "PUT"), ok)
  /\ Loop
  /\ UNCHANGED <<files, alive, log, c>>

ServeBye ==
  /\ w.pc = "handle" /\ w.cmd = "BYE"
  /\ \E ok \in BOOLEAN : WorkerWrites(Response(NO_ERROR_R, "BYE"), ok)
  /\ Leave
  /\ UNCHANGED <<files, alive, log, c>>

\* The worker's end is closed, by the program or by the end of the process, and
\* the journal freed.
WorkerCloses ==
  /\ w' = [NoWorker EXCEPT !.unread = w.unread]
  /\ log' = <<>>
  /\ wend' \in IF cend = "open" THEN Ends(c2s) ELSE {wend}
  /\ c2s' = <<>> /\ wrio' = <<>>
  /\ UNCHANGED <<files, c, s2c, crio, cend>>

\* The session is over, and the worker accepts another client.  coherence has
\* nothing to send: its journal is empty.
CloseSession ==
  /\ w.pc = "close"
  /\ WorkerCloses
  /\ UNCHANGED alive

WorkerDies == WorkerCloses /\ alive' = alive - 1

\* list_dir gives nothing for a directory (update does not return what it
\* allocates) nor for a missing path, and strlen(NULL) kills the worker.
LsCrash ==
  /\ w.pc = "handle" /\ w.cmd = "LS"
  /\ srv[w.path] = NONE
  /\ WorkerDies

\* read(2) fails on a reset connection: Rio_readnb exits.
WorkerReset == WorkerReadsEnd("reset") /\ WorkerDies

\* The process is killed.
WorkerKilled == "worker" \in Killable /\ w.pc # "accept" /\ WorkerDies

-----------------------------------------------------------------------------
(* The other clients, and the user's own files. *)

InUse(p) == w.pc # "accept" /\ w.path = p

\* Another worker completes a put of p, which it opened with O_TRUNC.
OtherPut(p, s) ==
  /\ p \notin Dir
  /\ ~InUse(p) \/ (SharedTransfer /\ w.pc = "send")
  /\ srv' = [srv EXCEPT ![p] = s]
  /\ UNCHANGED <<local, alive, w, log, c, up, down>>

OtherRm(p) ==
  /\ ~InUse(p)
  /\ srv' = [srv EXCEPT ![p] = NONE]
  /\ UNCHANGED <<local, alive, w, log, c, up, down>>

\* The user cuts a file of the client's short.
LocalShrink(p) ==
  /\ c.path # p \/ (SharedTransfer /\ c.pc = "sending")
  /\ local[p] # NONE
  /\ local[p] # <<>>
  /\ local' = [local EXCEPT ![p] = SubSeq(@, 1, Len(@) - 1)]
  /\ UNCHANGED <<srv, alive, w, log, c, up, down>>

-----------------------------------------------------------------------------
ClientStep ==
  \/ ReadHeader \/ ReadBlock \/ Received
  \/ ReadResponse \/ ReadReady \/ ReadBye
  \/ UploadHeader \/ UploadBlock \/ UploadFails
  \/ AnswerLost \/ ClientReset

WorkerStep ==
  \/ ReadRequest \/ RequestLost \/ CloseSession
  \/ ServeGet \/ ServeLs \/ SendBlock \/ ServeRm
  \/ ServePut \/ PutHeader \/ PutOpen \/ PutRefused \/ PutBlock \/ PutDone \/ PutAnswer
  \/ ServeBye
  \/ LsCrash \/ WorkerReset

Next ==
  \/ Connect
  \/ \E type \in Commands, p \in Path : Ask(type, p)
  \/ AskReset
  \/ ClientStep
  \/ ClientKilled
  \/ WorkerStep
  \/ WorkerKilled
  \/ \E p \in Path :
       \/ \E s \in Others : OtherPut(p, s)
       \/ OtherRm(p)
       \/ LocalShrink(p)

Spec == Init /\ [][Next]_vars

\* A process that can take a step takes it; nobody has to connect, to type a
\* command or to kill a process.
FairSpec == Spec /\ WF_vars(ClientStep) /\ WF_vars(WorkerStep)

-----------------------------------------------------------------------------
(* Properties. *)

Message ==
  [kind : {"request"}, type : Commands, path : Path]
    \cup [kind : {"header"}, error : {NO_ERROR_R, PATH_ERROR_R}, total_size : Nat]
    \cup [kind : {"block"}, data : Value \cup {NONE}]
    \cup [kind : {"response"}, error : {NO_ERROR_R, PATH_ERROR_R},
          content : {"READY_PUT", "PUT", "REMOVED", "NOT_REMOVED", "BYE"}]

WorkerState ==
  [pc : {"accept", "request", "handle", "send", "header", "blocks", "open", "stored",
         "failed", "close"},
   cmd : Commands \cup {NONE}, path : Path \cup {NONE},
   total : Nat, count : Nat, unread : Nat]

ClientState ==
  [pc : {"down", "prompt", "header", "blocks", "response", "ready", "upload", "sending",
         "result", "bye"},
   cmd : Commands \cup {NONE}, path : Path \cup {NONE},
   total : Nat, count : Nat, got : Seq(Value \cup {NONE})]

\* The type invariant.
TypeOK ==
  /\ srv \in [Path -> File]
  /\ local \in [Path -> File]
  /\ alive \in 0..POOL_SIZE
  /\ w \in WorkerState
  /\ log \in Seq([type : {"RM", "PUT"}, path : Path])
  /\ c \in ClientState
  /\ c2s \in Seq(Message) /\ s2c \in Seq(Message)
  /\ wrio \in Seq(Message) /\ crio \in Seq(Message)
  /\ cend \in {"open", "eof", "reset"} /\ wend \in {"open", "eof", "reset"}

\* What a message must be for the side that reads it to stay in step.
WorkerExpects(m) ==
  \/ w.pc = "request" /\ m.kind = "request"
  \/ w.pc = "header" /\ m.kind = "header"
  \/ w.pc = "open" /\ m.kind = "block"
  \/ w.pc = "blocks" /\ w.count < w.total /\ m.kind = "block"

ClientExpects(m) ==
  \/ c.pc = "header" /\ m.kind = "header"
  \/ c.pc = "blocks" /\ Len(c.got) < c.total /\ m.kind = "block"
  \/ /\ m.kind = "response"
     /\ \/ c.pc = "ready" /\ m.content = "READY_PUT"
        \/ c.pc = "result" /\ m.content = "PUT"
        \/ c.pc = "response" /\ m.content \in {"REMOVED", "NOT_REMOVED"}
        \/ c.pc = "bye" /\ m.content = "BYE"

\* Client and worker are in step: what either reads next is what the other sent
\* for the command in progress, and nothing of a command is left unread when the
\* next one begins.
InStep ==
  /\ c2s # <<>> => WorkerExpects(Head(c2s))
  /\ s2c # <<>> => ClientExpects(Head(s2c))

\* No message says which command it answers: only the order of the reads and the
\* writes of the two loops keeps them in step, whoever is killed and whatever fails
\* but one thing.  A put that is refused when blocks have been announced leaves them
\* unread, and nothing is said from there on: see PathErrorHandled.
StaysInStep == w.unread = 0 => InStep

\* No byte is lost in a rio_t: whenever a function that reads with a rio_t of its
\* own returns, that rio_t is empty.  A reader may take whatever the stream
\* holds, so that the two loops must never let more than one answer be on its
\* way.
NoReadAheadLost ==
  /\ wrio # <<>> => \/ w.pc = "open"
                    \/ w.pc = "blocks" /\ w.count < w.total
                    \/ w.unread > 0 \* the blocks a refused put left behind
  /\ crio # <<>> => c.pc = "blocks" /\ Len(c.got) < c.total

\* An answer is true when it is given: a put that is acknowledged has stored the
\* client's file, whole; a path said to be removed is; and a get that ends has
\* the slave's file.
AnswersAreTrue ==
  /\ \A i \in 1..Len(s2c) :
       /\ s2c[i] = Response(NO_ERROR_R, "PUT") /\ InUse(c.path)
            => srv[c.path] = local[c.path]
       /\ s2c[i] = Response(NO_ERROR_R, "REMOVED") /\ InUse(c.path)
            => srv[c.path] = NONE
  /\ c.pc = "blocks" /\ c.cmd = "GET" /\ Len(c.got) = c.total /\ InUse(c.path)
       => srv[c.path] = c.got

\* Every command ends: the client prompts again, or its process has ended.
\* Unless, again, a put is refused with its blocks unread.
CommandEnds ==
  c.pc \notin {"prompt", "down"} ~> c.pc \in {"prompt", "down"} \/ w.unread > 0

\* A client that has gone, however and whenever, does not hold a worker.
WorkerFreed == cend # "open" ~> w.pc = "accept" \/ w.unread > 0

\* README.md: "Gestion explicite des erreurs de protocole (types, chemins,
\* deconnexion client, etc.)".  Client and worker stay in step, then, when the
\* slave refuses the path of a put; it leaves unread the blocks that the client
\* sends all the same.
PathErrorHandled == InStep

\* README.md: "ls <chemin> : liste le contenu d'un dossier serveur".  An ls of a
\* directory, when nobody kills a process, is answered by a listing: it does not
\* end the session.
LsListsDirectories ==
  [][w.pc = "handle" /\ w.cmd = "LS" /\ w.path \in Dir => w.pc' # "accept"]_vars

\* README.md: "Replication faiblement coherente des operations RM / PUT entre
\* esclaves via UPDATE".  What a session changes must then be in its journal,
\* which is all that coherence sends.
ChangesAreLogged ==
  \A i \in 1..Len(s2c) :
    s2c[i].kind = "response" /\ s2c[i].content = "REMOVED"
      => \E k \in 1..Len(log) : log[k].path = c.path
=============================================================================

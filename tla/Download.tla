------------------------------ MODULE Download ------------------------------
(***************************************************************************)
(* The resumable download of client.c: one client process, the files it    *)
(* keeps on its disk (.part, .part.meta and the final name), and the slave *)
(* worker that serves GET and RESUME over one TCP connection.              *)
(*                                                                         *)
(* What survives the end of the client process is `part', `meta', `have'   *)
(* and `final'; everything else is volatile.  Every write to the disk, and *)
(* every unlink, is a step of its own, so that the process may end between *)
(* any two of them.                                                        *)
(*                                                                         *)
(* The client may lose its place in the stream: it gives up a transfer     *)
(* whose blocks it has not read, and takes them for the next header.  What *)
(* it reads from then on, on that connection, is `noise': any header and   *)
(* any blocks, chosen in Noise.                                            *)
(*                                                                         *)
(* Abstractions.  A byte of the server's file is the pair <<version,       *)
(* position>>, so that a displaced byte or a byte of another version is    *)
(* visible.  An empty .part and a missing one are both <<>>: O_CREAT in    *)
(* receive_file_by_blocks_resume and the size test in                      *)
(* maybe_get_resume_offset treat them alike.  write_part_meta writes a     *)
(* .tmp that nobody reads and renames it, so it is one step.  The block    *)
(* number is sent but never read, and is left out.  One user path names    *)
(* one local file.                                                         *)
(***************************************************************************)
EXTENDS Integers, Sequences

CONSTANTS
  File,             \* the paths the user downloads
  Nested,           \* those with a '/': their .part.meta is in a subdirectory
  Version,          \* the contents the server's file may have
  Size,             \* Size[v] is the number of bytes of version v
  BLOCK_SIZE,       \* bytes in a data block
  NONE,             \* no file, no version
  RemoteMayChange,  \* whether the server's files change between transfers
  Noise             \* the headers and blocks that noise may be taken for

ASSUME DownloadAssumption ==
  /\ Nested \subseteq File
  /\ NONE \notin File
  /\ NONE \notin Version
  /\ Size \in [Version -> Nat]
  /\ BLOCK_SIZE \in Nat \ {0}
  /\ RemoteMayChange \in BOOLEAN

VARIABLES
  part,     \* part[f]: content of f.part
  meta,     \* meta[f]: offset recorded in f.part.meta, or NO_META
  have,     \* the files present under their final name
  final,    \* final[f]: content of f, when f \in have
  remote,   \* remote[f]: version the slave holds, or NONE
  worker,   \* the slave worker: what it is sending
  conn,     \* "none", "up", "noise" once the client has lost its place in
            \* the stream, or "eof" once the slave has closed
  req,      \* requests on their way to the slave
  net,      \* headers and blocks on their way to the client
  pc,       \* where the client is
  todo,     \* .part.meta files auto_resume_downloads has yet to visit
  caller,   \* where perform_download returns to
  cur,      \* its remote_path
  start,    \* its start_offset
  total,    \* header.total_size
  recvd,    \* total_received
  torn      \* history: the files whose partial files were being removed
            \* when the process ended

disk   == <<part, meta, have, final>>
call   == <<caller, cur, start, total, recvd>>
server == <<remote, worker>>
wire   == <<conn, req, net>>
vars   == <<part, meta, have, final, remote, worker, conn, req, net,
            pc, todo, caller, cur, start, total, recvd, torn>>

-----------------------------------------------------------------------------
NO_META == -1

\* The error codes of response.h that a download meets.
NO_ERROR_R     == 0
PATH_ERROR_R   == 1
TYPE_ERROR_R   == 2
DISCONNECTED_R == 4   \* CLIENT_DISCONNECTED_R
OFFSET_ERROR_R == 5

Byte == Version \X Nat

\* The whole content of version v.
Content(v) == [i \in 1..Size[v] |-> <<v, i>>]

Header(e, t)      == [kind |-> "header", error |-> e, total_size |-> t]
Block(v, from, n) == [kind |-> "block", ver |-> v, from |-> from, data_size |-> n]

Message ==
  [kind : {"header"}, error : Nat, total_size : Nat]
    \cup [kind : {"block"}, ver : Version, from : Nat, data_size : Nat]

ASSUME NoiseAssumption == Noise \subseteq Message

\* The bytes a data block carries.
Data(b) == [i \in 1..b.data_size |-> <<b.ver, b.from + i>>]

Least(a, b) == IF a <= b THEN a ELSE b
Most(a, b)  == IF a <= b THEN b ELSE a

\* write(2) of data at position pos of s, where pos <= Len(s).
WriteAt(s, pos, data) ==
  [i \in 1..Most(Len(s), pos + Len(data)) |->
     IF i \in pos+1 .. pos+Len(data) THEN data[i - pos] ELSE s[i]]

\* ftruncate(2) to n bytes, where n <= Len(s).
Truncate(s, n) == [i \in 1..n |-> s[i]]

Idle == [file |-> NONE, total_sent |-> 0, file_size |-> 0]

\* Mutant: a missing meta is not told from a recorded offset.
maybe_get_resume_offset_NoMetaCheck(f) ==
  IF Len(part[f]) >= meta[f] THEN meta[f] ELSE 0

\* The offset a `get f' resumes from: the recorded one, provided that it is
\* positive and that the .part still covers it; otherwise 0.
maybe_get_resume_offset(f) ==
  IF meta[f] > 0 /\ Len(part[f]) >= meta[f] THEN meta[f] ELSE 0

-----------------------------------------------------------------------------
Init ==
  /\ part = [f \in File |-> <<>>]
  /\ meta = [f \in File |-> NO_META]
  /\ have = {}
  /\ final = [f \in File |-> <<>>]
  /\ remote \in [File -> Version \cup {NONE}]
  /\ worker = Idle
  /\ conn = "none"
  /\ req = <<>>
  /\ net = <<>>
  /\ pc = "down"
  /\ todo = {}
  /\ caller = "prompt"
  /\ cur = NONE
  /\ start = 0
  /\ total = 0
  /\ recvd = 0
  /\ torn = {}

-----------------------------------------------------------------------------
(* The client: starting, scanning, asking. *)

\* main connects to the slave; auto_resume_downloads opens the client
\* directory, and only that one: the metas of nested paths are not listed.
Start ==
  /\ pc = "down"
  /\ pc' = "scan"
  /\ todo' = {f \in File \ Nested : meta[f] # NO_META}
  /\ conn' = "up"
  /\ UNCHANGED <<disk, server, req, net, call, torn>>

\* perform_download up to its request.  Writing on a connection the slave has
\* closed either kills the process (Exit) or goes nowhere.
Ask(f, offset, from) ==
  /\ cur' = f
  /\ start' = offset
  /\ caller' = from
  /\ req' = IF conn = "up" THEN Append(req, [file |-> f, start_offset |-> offset])
                           ELSE req
  /\ pc' = "header"
  /\ UNCHANGED <<total, recvd, conn, net, torn>>

\* A meta that records no progress is deleted.
ScanDiscard(f) ==
  /\ pc = "scan"
  /\ f \in todo
  /\ meta[f] = 0
  /\ meta' = [meta EXCEPT ![f] = NO_META]
  /\ todo' = todo \ {f}
  /\ UNCHANGED <<part, have, final, server, wire, pc, call, torn>>

\* Any other one is resumed, whatever the size of its .part.
ScanResume(f) ==
  /\ pc = "scan"
  /\ f \in todo
  /\ meta[f] > 0
  /\ todo' = todo \ {f}
  /\ Ask(f, meta[f], "scan")
  /\ UNCHANGED <<disk, server>>

LeaveScan ==
  /\ pc = "scan"
  /\ pc' = "prompt"
  /\ UNCHANGED <<disk, server, wire, todo, call, torn>>

\* Mutant: the scan ends at the first entry.
ScanDone_AtFirstEntry == LeaveScan

ScanDone ==
  /\ todo = {}
  /\ LeaveScan

\* The user types `get f'.
Get(f) ==
  /\ pc = "prompt"
  /\ Ask(f, maybe_get_resume_offset(f), "prompt")
  /\ UNCHANGED <<disk, server, todo>>

-----------------------------------------------------------------------------
(* The client: receive_file_by_blocks_resume, step by step. *)

Leave ==
  /\ pc' = caller
  /\ cur' = NONE /\ start' = 0 /\ total' = 0 /\ recvd' = 0
  /\ UNCHANGED caller

\* perform_download returns to its caller, unless it has partial files to remove:
\* remove_partial_files then unlinks the .part, and next the .part.meta.
ReturnOrRemove(drop) ==
  /\ \/ /\ drop
        /\ part' = [part EXCEPT ![cur] = <<>>]
        /\ pc' = "remove"
        /\ UNCHANGED call
     \/ /\ ~drop
        /\ Leave
        /\ UNCHANGED part
  /\ UNCHANGED <<meta, have, final, todo, torn>>

\* Mutant: any error removes them.
Return_DropAlways(result) == ReturnOrRemove(result # NO_ERROR_R)

\* On PATH_ERROR_R a resumed download loses its partial files.
Return(result) == ReturnOrRemove(result = PATH_ERROR_R /\ start > 0)

\* unlink(meta_path)
DropMeta ==
  /\ meta' = [meta EXCEPT ![cur] = NO_META]
  /\ Leave
  /\ UNCHANGED <<part, have, final, server, wire, todo, torn>>

\* The second unlink of remove_partial_files.
RemoveMeta == pc = "remove" /\ DropMeta

\* The slave closed before the header: receive_transfer_header fails and
\* receive_file_by_blocks_resume returns 1.
HeaderLost ==
  /\ pc = "header"
  /\ conn = "eof"
  /\ net = <<>>
  /\ Return(PATH_ERROR_R)   \* the value 1 that it returns
  /\ UNCHANGED <<server, wire>>

ReceiveHeader ==
  /\ pc = "header"
  /\ net # <<>>
  /\ Head(net).kind = "header"
  /\ UNCHANGED <<server, conn, req>>

\* Mutant: a .part that ends exactly at the offset is taken for a short one.
HeaderResult_OffByOne(h) ==
  IF h.error # NO_ERROR_R THEN h.error
  ELSE IF start > h.total_size \/ Len(part[cur]) <= start THEN OFFSET_ERROR_R
  ELSE NO_ERROR_R

\* What the header leads the client to answer: the slave's error, or an offset
\* beyond the file or beyond the .part.
HeaderResult(h) ==
  IF h.error # NO_ERROR_R THEN h.error
  ELSE IF start > h.total_size \/ Len(part[cur]) < start THEN OFFSET_ERROR_R
  ELSE NO_ERROR_R

\* The blocks that follow are not read, but for those that the read of the header
\* has taken along into the rio_t that is dropped here.
HeaderRefused ==
  /\ ReceiveHeader
  /\ HeaderResult(Head(net)) # NO_ERROR_R
  /\ \E n \in 1..Len(net) : net' = SubSeq(net, n + 1, Len(net))
  /\ Return(HeaderResult(Head(net)))

\* A block left by a transfer that was given up is read as the header of another:
\* the client has lost its place in the stream.
Misread ==
  /\ pc = "header"
  /\ net # <<>>
  /\ Head(net).kind = "block"
  /\ conn' = "noise"
  /\ req' = <<>> /\ net' = <<>> /\ worker' = Idle
  /\ UNCHANGED <<disk, remote, pc, todo, call, torn>>

\* From then on it reads whatever the bytes happen to mean.
ReadNoise(m) ==
  /\ conn = "noise"
  /\ net = <<>>
  /\ m.kind = IF pc = "header" THEN "header" ELSE "block"
  /\ pc = "header" \/ (pc = "receive" /\ recvd < total)
  /\ net' = <<m>>
  /\ UNCHANGED <<disk, server, conn, req, pc, todo, call, torn>>

\* The header is accepted, and the .part holds `kept' before the first block.
Accept(kept) ==
  /\ ReceiveHeader
  /\ HeaderResult(Head(net)) = NO_ERROR_R
  /\ net' = Tail(net)
  /\ part' = [part EXCEPT ![cur] = kept]
  /\ total' = Head(net).total_size
  /\ recvd' = start
  /\ pc' = "initmeta"
  /\ UNCHANGED <<meta, have, final, todo, caller, cur, start, torn>>

\* Mutants: the .part opened with O_TRUNC; or never truncated.
HeaderAccepted_OpenTruncates == Accept(<<>>)
HeaderAccepted_NoTruncate    == Accept(part[cur])

\* The .part is cut at start_offset.
HeaderAccepted == Accept(Truncate(part[cur], start))

\* write_part_meta with start_offset, before the first block.
InitMeta ==
  /\ pc = "initmeta"
  /\ meta' = [meta EXCEPT ![cur] = start]
  /\ pc' = "receive"
  /\ UNCHANGED <<part, have, final, server, wire, todo, call, torn>>

BlockArrived ==
  /\ pc = "receive"
  /\ recvd < total
  /\ net # <<>>
  /\ Head(net).kind = "block"

\* The block would not fit: in a data_block_t, or before the end of the file.
Oversized(b) == b.data_size > BLOCK_SIZE \/ recvd + b.data_size > total

\* A block is received and its bytes written to the .part.
ReceiveBlock ==
  /\ BlockArrived
  /\ LET b == Head(net)
     IN /\ ~Oversized(b)
        /\ part' = [part EXCEPT ![cur] = WriteAt(@, recvd, Data(b))]
        /\ recvd' = recvd + b.data_size
  /\ net' = Tail(net)
  /\ pc' = "savemeta"
  /\ UNCHANGED <<meta, have, final, server, conn, req, todo, caller, cur, start, total, torn>>

\* on_meta_progress_cb: only then is the new offset recorded.
SaveMeta ==
  /\ pc = "savemeta"
  /\ meta' = [meta EXCEPT ![cur] = recvd]
  /\ pc' = "receive"
  /\ UNCHANGED <<part, have, final, server, wire, todo, call, torn>>

\* Only noise can: TYPE_ERROR_R, partial files kept.
BlockRefused ==
  /\ BlockArrived
  /\ Oversized(Head(net))
  /\ net' = Tail(net)
  /\ Return(TYPE_ERROR_R)
  /\ UNCHANGED <<server, conn, req>>

\* The slave closed in the middle: partial files kept.
BlockLost ==
  /\ pc = "receive"
  /\ recvd < total
  /\ conn = "eof"
  /\ net = <<>>
  /\ Return(DISCONNECTED_R)
  /\ UNCHANGED <<server, wire>>

MoveToFinal ==
  /\ pc = "receive"
  /\ final' = [final EXCEPT ![cur] = part[cur]]
  /\ have' = have \cup {cur}
  /\ part' = [part EXCEPT ![cur] = <<>>]
  /\ pc' = "unlink"
  /\ UNCHANGED <<meta, server, wire, todo, call, torn>>

\* Mutant: renamed without waiting for the last block.
Rename_Early == MoveToFinal

\* rename(part_path, final_path)
Rename == recvd >= total /\ MoveToFinal

\* unlink(meta_path), and perform_download succeeds.
Unlink == pc = "unlink" /\ DropMeta

\* The process ends at any point: bye, end of input, SIGPIPE or the exit of
\* unix_error on a reset connection, a signal, a crash.  Between the two unlinks
\* of remove_partial_files it leaves an offset with no .part behind it.
Exit ==
  /\ pc # "down"
  /\ pc' = "down"
  /\ conn' = "none"
  /\ req' = <<>> /\ net' = <<>>
  /\ worker' = Idle
  /\ todo' = {}
  /\ caller' = "prompt"
  /\ cur' = NONE /\ start' = 0 /\ total' = 0 /\ recvd' = 0
  /\ torn' = IF pc = "remove" THEN torn \cup {cur} ELSE torn
  /\ UNCHANGED <<disk, remote>>

-----------------------------------------------------------------------------
(* The slave: send_file_by_blocks_from_offset. *)

\* The worker reads a GET or RESUME request, opens the file and sends the
\* header: an error one when it cannot serve the request.
ServeRequest ==
  /\ conn = "up"
  /\ worker = Idle
  /\ req # <<>>
  /\ req' = Tail(req)
  /\ LET r == Head(req)
         v == remote[r.file]
     IN IF v = NONE
        THEN /\ net' = Append(net, Header(PATH_ERROR_R, 0))
             /\ UNCHANGED worker
        ELSE IF r.start_offset > Size[v]
        THEN /\ net' = Append(net, Header(OFFSET_ERROR_R, 0))
             /\ UNCHANGED worker
        ELSE /\ net' = Append(net, Header(NO_ERROR_R, Size[v]))
             /\ worker' = IF r.start_offset < Size[v]
                          THEN [file |-> r.file, total_sent |-> r.start_offset,
                                file_size |-> Size[v]]
                          ELSE Idle
  /\ UNCHANGED <<disk, remote, conn, pc, todo, call, torn>>

\* One block read from the file and sent.
SendBlock ==
  /\ conn = "up"
  /\ worker # Idle
  /\ LET to_read == Least(BLOCK_SIZE, worker.file_size - worker.total_sent)
         sent    == worker.total_sent + to_read
     IN /\ net' = Append(net, Block(remote[worker.file], worker.total_sent, to_read))
        /\ worker' = IF sent < worker.file_size
                     THEN [worker EXCEPT !.total_sent = sent]
                     ELSE Idle
  /\ UNCHANGED <<disk, remote, conn, req, pc, todo, call, torn>>

\* The slave's end of the connection closes: the worker exited or was killed.
\* What it had already sent is still delivered.
ServerClose ==
  /\ conn \in {"up", "noise"}
  /\ conn' = "eof"
  /\ worker' = Idle
  /\ req' = <<>>
  /\ UNCHANGED <<disk, remote, net, pc, todo, call, torn>>

\* Another client's put or rm, or a session with another slave: the file the
\* next request meets is another version, or none.
RemoteChange(f, v) ==
  /\ RemoteMayChange
  /\ worker.file # f
  /\ remote' = [remote EXCEPT ![f] = v]
  /\ UNCHANGED <<disk, worker, wire, pc, todo, call, torn>>

-----------------------------------------------------------------------------
\* What the client does on its own, between two commands of the user.
ClientStep ==
  \/ \E f \in File : ScanDiscard(f) \/ ScanResume(f)
  \/ ScanDone
  \/ HeaderLost \/ HeaderRefused \/ HeaderAccepted \/ Misread
  \/ InitMeta \/ ReceiveBlock \/ SaveMeta \/ BlockLost \/ BlockRefused
  \/ Rename \/ Unlink \/ RemoveMeta

ServerStep == ServeRequest \/ SendBlock

Next ==
  \/ Start
  \/ \E f \in File : Get(f)
  \/ ClientStep
  \/ Exit
  \/ ServerStep
  \/ ServerClose
  \/ \E m \in Noise : ReadNoise(m)
  \/ \E f \in File, v \in Version \cup {NONE} : RemoteChange(f, v)

Spec == Init /\ [][Next]_vars

\* A process that can take a step takes it; the user, the end of a process, the
\* changes of the server's files and the noise are not obliged to happen.
FairSpec == Spec /\ WF_vars(ClientStep) /\ WF_vars(ServerStep)
-----------------------------------------------------------------------------
(* Properties. *)

\* The type invariant.
TypeOK ==
  /\ part \in [File -> Seq(Byte)]
  /\ meta \in [File -> Nat \cup {NO_META}]
  /\ have \subseteq File
  /\ final \in [File -> Seq(Byte)]
  /\ remote \in [File -> Version \cup {NONE}]
  /\ worker \in [file : File \cup {NONE}, total_sent : Nat, file_size : Nat]
  /\ conn \in {"none", "up", "noise", "eof"}
  /\ req \in Seq([file : File, start_offset : Nat])
  /\ net \in Seq(Message)
  /\ pc \in {"down", "scan", "prompt", "header", "initmeta", "receive",
            "savemeta", "unlink", "remove"}
  /\ todo \subseteq File
  /\ caller \in {"scan", "prompt"}
  /\ cur \in File \cup {NONE}
  /\ start \in Nat /\ total \in Nat /\ recvd \in Nat
  /\ torn \subseteq File

\* As long as no removal of partial files has been interrupted by the end of the
\* process, a file present under its final name is, whole, one version the server
\* had: neither cut short, nor patched together.  Several sessions, each killed
\* anywhere else, may have contributed to it (rename only after the last block,
\* ftruncate and lseek to the recorded offset).  It needs the server's file to
\* stay the same between the sessions: nothing in RESUME identifies a version.
FinalIsAVersion ==
  torn = {} => \A f \in have : \E v \in Version : final[f] = Content(v)

\* A final file has as many bytes as the header of its last session announced,
\* even when the server's file grew or shrank since the first session: no tail
\* of an older, longer .part survives in it (ftruncate before the first block).
FinalAsLongAsAnnounced ==
  pc = "unlink" => Len(final[cur]) = total

\* Wherever the client is killed, the offset its .part.meta records is covered
\* by the .part, so that the next session can resume, but for two moments.  An
\* offset that is not covered is a leftover of a file that was completed (killed
\* between rename and unlink), or of one whose partial files were being removed
\* (killed between the two unlinks of remove_partial_files).  No error path, no
\* lost place in the stream and no change of the server's file adds a third.
CrashLosesNoDownload ==
  \A f \in File : meta[f] > Len(part[f]) =>
    \/ f \in have
    \/ pc = "remove" /\ cur = f
    \/ f \in torn

\* The client and the slave agree on what comes next on the connection: when
\* the client waits for the header of a new transfer, no block of an earlier
\* one is left before it.  The error returns of
\* receive_file_by_blocks_resume leave what follows the header unread, and it is
\* only because of what the client's disk can hold that nothing does.  A removal
\* interrupted between its two unlinks breaks that: at the next start the slave
\* accepts a RESUME that the client then refuses, with its blocks on their way.
InSync ==
  torn = {} /\ pc = "header" /\ net # <<>> => Head(net).kind = "header"

\* What a `get' could resume from is given up at three points only, all of them
\* in a transfer of that very file: its rename, once the file is complete; a
\* PATH_ERROR_R from the slave, in the answer to a RESUME; and a connection that
\* ends before that answer (which PartialKeptIfRemoteExists is about).  A death of
\* the client, a connection that ends later, an offset or a block that is refused
\* and a transfer of another file do not lower it.
ProgressKept ==
  [][\A f \in File :
       maybe_get_resume_offset(f)' < maybe_get_resume_offset(f)
         => /\ cur = f
            /\ \/ pc = "receive" /\ recvd >= total
               \/ /\ pc = "header" /\ start > 0
                  /\ IF net = <<>> THEN conn = "eof"
                                   ELSE Head(net).error = PATH_ERROR_R]_vars

\* The download implements the copy a user expects, as long as the server's files
\* stay what they are: what is kept is what a `get' would resume from, and the
\* promise is void once a removal of partial files has been interrupted.
Original ==
  [f \in File |-> IF remote[f] = NONE THEN <<>> ELSE Content(remote[f])]

Kept == [f \in File |-> Truncate(part[f], maybe_get_resume_offset(f))]

Copy == INSTANCE ResumableCopy WITH
          original  <- Original,
          kept      <- Kept,
          delivered <- have,
          copy      <- final,
          void      <- torn # {}

\* Every step of the client, of the slave and of the network maps to a step of
\* the copy or to none: a rename delivers what is wholly kept, a recorded offset
\* never covers a byte that is not the server's.  The first unlink of a removal
\* gives up what was kept, and the second changes nothing that a `get' sees.
ImplementsCopy == Copy!Spec

\* A partial download that the client finds at its start, in its top directory,
\* is completed on its own, unless the connection is lost or the process ends, and
\* provided that no earlier removal of partial files was interrupted.
AutoResumeCompletes ==
  \A f \in File :
    (torn = {} /\ pc = "scan" /\ f \in todo /\ meta[f] > 0)
      ~> (f \in have \/ conn # "up")

\* README.md promises that an interrupted download is resumed: the partial file
\* of a file the slave still has must not be thrown away.  A connection lost
\* before the header makes receive_file_by_blocks_resume return 1, which
\* perform_download takes for PATH_ERROR_R.
PartialKeptIfRemoteExists ==
  [][\A f \in File :
       remote[f] # NONE /\ maybe_get_resume_offset(f)' < maybe_get_resume_offset(f)
         => f \in have']_vars
=============================================================================

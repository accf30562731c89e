# Specifications of the FTP client, slave and master

TLA+ models of the distributed FTP system in `src/`: a client (`client.c`), slave
servers with a pool of worker processes (`serveur_ftp.c`), a master that hands
out slaves (`master_dns.c`), and the transfer protocol they share (`request.c`,
`response.c`, `csapp.c`). TLC checks the models on small instances; TLAPS proves
theorems about each of them for every value of its constants. `PROJECT.json` lists
the runs, the correspondence with the lines of the source, the findings, the
hazards and the theorems.

    tlc -config DownloadStable.cfg MCDownload.tla    # any run: its cfg, its MC module
    tlapm DownloadProof.tla    # the proofs, and likewise the other *Proof modules,
    tlapm DownloadRefinement.tla

## 1. The system

| part | state | operations | talks to |
|---|---|---|---|
| client, command loop (`client.c` 353-660) | connection, current command | `get`, `put`, `ls`, `rm`, `bye`, end of input | master once, then one slave |
| client, resumable download (`client.c` 60-330, `response.c` 896-1002) | `.part`, `.part.meta`, final file on disk; offset, announced size | `perform_download`, `auto_resume_downloads`, `receive_file_by_blocks_resume` | the slave's GET/RESUME handler |
| slave, pool (`serveur_ftp.c` 37-240) | POOL_SIZE forked workers, never replaced; two signal handlers | fork, reap, kill | workers share only the listening socket and the disk |
| slave, worker (`serveur_ftp.c` 239-320, `response.c` 476-700) | connection, request, journal of the session, server files | GET, RESUME, PUT, LS, RM, BYE, UPDATE | one client at a time; at the end of a session, the other slaves |
| transfer protocol (`response.c`, `request.c`, `csapp.c`) | one `rio_t` per reading function | headers, data blocks, `response_t`, contents | both sides |
| journal and coherence (`logs.c`, `serveur_ftp.c` 41-208) | a list of RM/PUT per session | `add`, `follow`, `coherence`, UPDATE | master (list of peers), peers |
| master (`master_dns.c`) | slaves' addresses, round-robin index | password check, next slave, list for coherence | clients, slaves |
| files of a slave (`utils.c`, `response.c`) | names and files, shared by all workers, unlocked | `open_file_w` (O_TRUNC), blocks, `open_file_r`, `remove_file` | the workers of a slave |
| paths (`path.c`, `utils.c`) | the tree of directories | resolve by `realpath` or by hand, make parents, open, unlink | every request |
| configuration (`config_loader.c`) | - | one read at start | client, slave |

The parts interact by messages over TCP (client/slave, client/master,
slave/slave), and through the disk (workers of one slave, two runs of one
client). No memory is shared. What is hard here:

- *crashes*: the client keeps a download in three names on its disk, each
  changed by a system call of its own; it may be killed between any two of them
  and must find its way at the next start;
- *ordering*: no message says which command or which transfer it belongs to, and
  every function reads through a fresh `rio_t`; client and worker agree on what
  comes next only because both loops read and write in matching order, on the
  error paths too;
- *interleaving*: another worker may truncate, rewrite or remove the file a
  worker is sending;
- *disconnection*: either side may go at any point, and the other must notice
  from whichever read or write it is in;
- *liveness*: a worker serves one client; a session that never ends costs a
  worker, and a worker that dies is not replaced.

What makes each part correct: a delivered file is the server's file; progress
survives a crash; a command ends, and its answer is true; both sides stay in
step; a gone client frees its worker; a change is replicated; the master spreads
clients over its slaves; whoever waits in a queue is served while a worker is
left; files under several workers hold nothing out of place; one path is one file.

## 2. Modules

| module | what it is |
|---|---|
| `Download` | the resumable download: client disk, client process, slave worker, connection |
| `ResumableCopy` | what a resumable download promises; abstract specification of `Download` |
| `MCDownload` | its small instances |
| `DownloadProof` | theorems about `Download` and their proofs |
| `DownloadRefinement` | the proof that `Download` implements `ResumableCopy` |
| `Session` | the whole command loop of a client against the loop of a worker |
| `MCSession` | its small instances |
| `SessionProof`, `AnswersProof` | theorems about `Session` and their proofs: staying in step, and the truth of answers |
| `Store` | the files of one slave under several workers that put, get and remove |
| `MCStore`, `StoreProof` | an instance; theorems about `Store` and their proofs |
| `Cluster` | master, clients, pools of workers and their parents |
| `MCCluster`, `ClusterProof` | an instance; theorems about `Cluster` and their proofs |
| `Coherence` | the replay of journals between slaves, and UPDATE |
| `MCCoherence`, `CoherenceProof` | an instance; theorems about `Coherence` and their proofs |
| `Paths` | from the path of a request to a file: two ways to resolve, open, make, remove |
| `MCPaths`, `PathsProof` | an instance; theorems about `Paths` and their proofs |

The modules cut the system so that each can be checked on its own, at the
places where the code has a narrow interface. `Download` and `Session` take one
client and one worker and look at the connection and the disk of the client;
`Store` takes the workers of a slave and looks at what their system calls do to
the same files; `Cluster` takes all the processes and looks at who is connected
to whom; `Coherence` composes the files of several slaves with their pools. What
one of them assumes of another is in its header: `Session` lets other workers
change files between its steps (`OtherPut`, `OtherRm`), which is `Store`;
`Cluster` lets a session last as long as its client, which is `Session`.

### Download

One client, its disk (`part`, `meta`, `have`/`final`), and the worker that
serves it. `part`, `meta`, `have`, `final` survive `Exit`; nothing else does.
Each write to the disk in `receive_file_by_blocks_resume`, and each unlink, is an
action: `HeaderAccepted` (open, `ftruncate`, `lseek`), `InitMeta`
(`write_part_meta`), `ReceiveBlock` (`rio_writen`), `SaveMeta`
(`on_meta_progress_cb`), `Rename`, `Unlink`, so that `Exit` can come between any
two. `Start`, `ScanDiscard`, `ScanResume`, `ScanDone` are `auto_resume_downloads`;
`Get` is the command; `HeaderLost`, `HeaderRefused`, `BlockRefused`, `BlockLost` are
the error returns, of which `Return` does what `perform_download` does with the
result. Its `remove_partial_files` is two steps: `Return` unlinks the `.part`,
`RemoveMeta` the `.part.meta`. `torn` is history: the files of which only the first
of the two was done when the process ended. `ServeRequest` and `SendBlock` are
`send_file_by_blocks_from_offset`; `ServerClose` the end of the worker;
`RemoteChange` a put or rm by somebody else, between transfers of that file.

A client that gives up a transfer after its header leaves blocks in the stream
(`HeaderRefused`: all, or what the dropped `rio_t` had not taken along), and reads
them as the next header (`Misread`). From then on nothing relates what it reads to
what the slave meant: `ReadNoise` gives it any header and any block of `Noise`, in
the runs an acceptable header, an error, and blocks that are displaced, empty or too
large.

A byte is the pair of a version and a position, so that a wrong, missing or
displaced byte shows. An absent and an empty `.part` are one value, because the
code treats them alike. `write_part_meta` writes a temporary file and renames
it, and is one step. The block number is left out: no reader looks at it.

### Session

One client after another against one worker after another, over a connection
that is two streams. `Refill` is a read into a fresh `rio_t`: it takes any
non-empty prefix of what the stream holds and delivers the first message; the
rest stays in `wrio`/`crio`, and is lost when the next function starts with a
fresh one. `Ask` .. `ReadBye` are the command loop of `client.c`; `ReadRequest`
.. `CloseSession` the loop of `serveur_ftp.c` with the cases of
`send_server_response`. `ClientKilled`, `WorkerKilled` are the end of a process
anywhere; a close with unread input may reach the peer as a reset (`Ends`), and
the csapp wrappers exit on a reset (`ClientReset`, `AskReset`, `WorkerReset`), while
an upload, which writes with `socket_write_all`, only fails (`UploadFails`).
`OtherPut`, `OtherRm` are other workers acting on the same files, `LocalShrink`
the user acting on the client's. `alive` counts the workers left: `main` forks
POOL_SIZE once.

`log` is the journal of the session. `add` returns before creating the first
entry of a list (logs.c:11), so it stays empty, `coherence` returns at once, and
`CloseSession` has nothing to send.

Abstractions: a message is read and written whole (`rio_readnb` and `rio_writen`
loop until it is); a file is a sequence of blocks; `get` is the plain GET, its
RESUME and `.part` being `Download`; a socket buffer never fills up; after a
message of a kind nobody expects, the session is not followed; a path is short
enough for the buffer `list_dir` allocates for the name of a single file.
Undefined behaviour that stays in the model: `open_file_w` looks at a
`struct stat` nobody has written when the file does not exist
(utils.c:110-113), so that a put of a new file may be refused (`PutRefused`).
`unread` remembers that blocks of a refused put were left in the stream.

### Store

Names and inodes, as the system has: `dir` and `disk`. `PutOpen` is
`open_file_w` with its O_TRUNC, `PutBlock` one turn of
`receive_file_by_blocks_to_fd_internal`, `PutDone` and `PutCut` its returns;
`GetOpen` and `SendBlock` are `send_file_by_blocks_from_offset`, with the
read-ahead of its `rio_t` (`ReadAhead`: BLOCK_SIZE is 512, RIO_BUFSIZE 8192);
`Rm` is `unlink`. A block remembers the content it comes from and its place.
`mix`, `spoiled` and `calm` are history, for the properties: which puts a file
may hold blocks of, whether puts of it overlapped or were cut, which gets ran
without a writer.

### Cluster

`Connect` .. `CredLost` are `get_cred` and the connection to the slave,
`MasterAccept` .. `MasterEnds` the loop of `master_dns.c` on the client side,
`Accept`, `EndSession` the loop of a worker, `Die`, `HandlerChld`, `Wait` the end
of a child and what its parent does. `StopOrContinue` is a worker that is stopped
(Ctrl-Z) or continued: `Signal` does not set SA_NOCLDSTOP (csapp.c:132-134), so that
this raises SIGCHLD too, and `wait(NULL)` then finds no dead child and blocks the
parent until one dies. A stopped worker is otherwise a slow one: it is continued
some day, or killed. Two queues stand between: the kernel
accepts connections for a process that listens. `Line` is a line of
config_master; an empty one is read, counted and given out like any other
(`connected++`, master_dns.c:124). The parent of a pool never accepts and never
forks again, but keeps the socket open: clients of a slave without workers
connect, and wait for ever. `handed`, `cut` and `stopped` are history.

### Coherence

A worker whose session ends (`EndSession`) becomes a replayer: `GetList`, then
for each peer `Dial`, and for each entry `SendUpdate`, `ReadAck` and, for a PUT,
`SendHeader`, `SendBlock`, `ReadStored`; `SayBye` at the end. On the other slave
any free worker accepts and serves (`ServeRm`, `ServePut`, `OpenFile`,
`StoreBlock`, ...). Files are opened, so that one can be truncated, removed or
replaced between the header and the block. Journals and the lines of
config_master are constants, because the program as built has neither: `add`
returns before the first entry of a list (run `session_journal`), and `update`
(utils.c:157) drops the list of the master. With `Journal = {<<>>}` the module is
the built program, and does nothing; with the journals that the unit tests build
it says what the rest of the code would do, which is what somebody who repairs
`add` has to know. A new file may be refused because of the unset `struct stat` (utils.c:107). When
that happens to a replay (`RefuseFile`), the peer answers with an error that nobody
looks at, and the replay goes on with its next entry, as in the code: this slave
lacks the file for good, and `refused` remembers which. The block of the file, if it
has one and the read of its header had not taken it along, is still in the stream;
when the peer reads it as a request (`Stray`; `StrayPut` for a client's put), the two
ends are `astray`, and are not followed further. An empty file leaves nothing
behind.
`Listed` is the loop of the master over its lines, as a recursive
function of how many it has read. `RightList` says what the list is for, that it
leads from each slave to all the others and not to itself; `ByAddress` what
config_master has to hold for that, the address of each slave and nothing else
but empty lines. A slave that is listed by its name finds itself in its list.

### Paths

A path is the sequence of what stands between its slashes. `Existing` is the
branch of `get_abs_path_from_src_path` that calls `realpath`, `New` the one that
walks over the components by hand; `Suffix` is what both do to leading slashes.
`Walked` and `Joined` are the two loops over the components, as recursive
functions of how many of them have been read.
`Get`, `GetStat`, `GetOpen` are the calls of `open_file_r`; `Put`, `Mkdir`,
`PutStat`, `PutOpen` those of `open_file_w`, one step each, since other workers
run in between. `met` is history: what a job has met, since it began, that
excuses its failure; `unset` in a job says that its put was refused for what the
`struct stat` that `stat` had not set happened to hold.

## 3. What the runs check

| run | instance | shows |
|---|---|---|
| `download_stable` | two files, one nested, three blocks of which the last is short, content constant; fairness | `TypeOK`; `FinalIsAVersion`; `InSync`; `ProgressKept`; `ImplementsCopy` (refinement of `ResumableCopy`); `AutoResumeCompletes` |
| `download_changing` | one file, versions of 5 and 2 bytes, changing between transfers | `CrashLosesNoDownload`, `FinalAsLongAsAnnounced` |
| `download_lost` | one file | violated: `PartialKeptIfRemoteExists` |
| `session_alone` | one file, one directory, two workers; files change between commands; both processes may be killed; fairness | `TypeOK`, `AnswersAreTrue`, `CommandEnds` |
| `session_shared` | the same, files change under transfers too | `StaysInStep`, `NoReadAheadLost`, `WorkerFreed` |
| `session_refused`, `session_ls`, `session_journal` | the same, nobody killed but in the first | violated: `PathErrorHandled`, `LsListsDirectories`, `ChangesAreLogged` |
| `store` | three workers, one name, three inodes, contents of two blocks and of one; a read takes two blocks | `TypeOK`, `NothingMisplaced`, `UnspoiledIsWhole`, `CalmGetIsExact` |
| `cluster` | three clients, two lines of which one is empty, two workers that may both die, be stopped or continued; fairness | `TypeOK`, `Balanced`, `WaitFindsAZombie`, `EndedByACut`, `MasterAnswers`, `WaitingIsServed` |
| `coherence` | two slaves, of two workers and of one; two sessions, each with one of three journals that remove and put; one worker killed; fairness | `TypeOK`, `Delivered`, `Converges`, `WaitsForAReason`, `ReplaysEnd` |
| `paths` | two workers, fifteen ways to write paths, a directory beside the slave's whose name begins alike | `TypeOK`, `Confined`, `OneFilePerPath`, `RefusedForAReason`, `OpensAFile` |

**Bounds.** The download actions touch one file at a time, and two files are
enough for one to be disturbed by steps for the other, for a scan with more
than one entry, and for a nested one to be skipped. Five bytes with blocks of
two give a first, a middle and a short last block, so that a crash can fall
before, between and after them; a second version of two bytes gives files that
shrink below and grow past a recorded offset. A session has no state that
outlives it but the files and `alive`; blocks are one value each, two blocks
make a transfer that can be cut in its middle, and two workers let a session
start after a worker has died. All variables are bounded by these constants. The one
state constraint is `InOrder` of `MCCluster`: its clients are named in the order in
which they connect. It loses nothing, since every behaviour is one of these with the
clients renamed, and no property names a client; and as nothing obliges a client to
connect, no fairness asks for a step that it rules out.

`Store`: a put that overlaps another, while a third worker sends the file, needs
three workers; two blocks let a put be cut, or a get be overtaken, in its
middle, and the shorter content makes a file shrink; three inodes are
enough for one name, since a worker that creates a file leaves at most two others
open. Workers
and inodes are interchangeable there, and the properties are invariants, so
`Permutations` of them are the symmetry of the run; likewise for the workers of
`Paths`. `Cluster`: of two lines one is empty, so that the turn goes round with three clients,
one of which gets no slave. Two come to the slave: one waits in the queue while the
other is served when a worker has died, or before a worker accepts; and two workers
may die before one signal is delivered. The theorems cover every number.
`Coherence`: two sessions, one on each slave, and a worker killed are what it takes
for slaves to wait for each other with no worker left; one journal
removes and puts a path, another puts and removes one, the third puts both, so that
the file to be sent is there, is not there any more, or is being written by the other
session or replay. That slaves wait for each other, that a file is cut short under a
replay, and that quiet slaves differ because one has refused a file, all occur in the
run. `MaxSessions` and `MaxDeaths` are the bounds in its guards, `Conn` is as
large as the number of replays. The paths of `MCPaths` have up to four
components, of every kind that either resolving function treats as special.

**Deadlock** is checked in the runs of Download, Store and Paths. The Session and
Cluster cfgs turn it off, because the system really stops when every worker has
died or every client has left; so does that of Coherence, where slaves may
wait for each other.

**Fairness.** `WF` of the client's own steps and of the worker's: each is a
sequential process that the operating system schedules, whose reads return when
there is something to read. Nothing is assumed of the user (who need not type,
nor connect), of the network (`ServerClose`) or of whoever kills processes. In
`Cluster` clients that have connected go on by themselves until their session begins;
nothing makes one leave, so that `WaitingIsServed` has the end of sessions as its
hypothesis. The parent of a pool need not go on: no client depends on it, and a worker that is stopped may
block it. That a worker which is stopped is continued some day is part of `WF`. In
`Coherence` the sessions are as long as their journals, and the client of a
session goes on to its end. No strong fairness is used.

`CommandEnds` is checked when files do not change under a transfer: a file that
a concurrent put truncates makes the sender stop in the middle with the
connection open (section 4). `ReplaysEnd` names that case, and the slaves that
wait for each other, as the only two in which a replay does not end (or go astray);
both occur in its run. `StaysInStep`,
`CommandEnds` and `WorkerFreed` except the state after a put that was refused with
blocks left (`unread > 0`), which is what `session_refused` exhibits.

## 4. What the code does that its documents do not say

- `download_lost`: `receive_file_by_blocks_resume` returns 1 when the header does
  not come, and `PATH_ERROR_R` is 1, so `perform_download` deletes the partial
  files of a file that is still there.
- `session_refused`: a put whose path the slave refuses answers
  `PATH_ERROR_R` without reading the blocks announced by the accepted header;
  they are then read as requests.
- `session_ls`: `update` never stores the pointer it allocates, `list_dir` returns
  NULL for a directory, and `strlen(NULL)` kills the worker.
- `session_journal`: the journal stays empty, and nothing is ever replicated.

Met while modelling and without a run of their own:

- `auto_resume_downloads` reads one directory; the `.meta` of `get dir/file` is in
  another, and that download is not resumed at start (README.md:137 promises it).
  `AutoResumeCompletes` is about what is in the top directory (`todo`);
- a client killed between the two unlinks of `remove_partial_files` (client.c:172-173)
  leaves an offset without a `.part`. If the slave has the file, the next start sends
  a RESUME that the slave accepts and the client then refuses (response.c:955); the
  blocks stay in the stream, and the downloads that follow on this connection read
  them as headers. Hence the hypothesis `torn = {}` in `FinalIsAVersion`, `InSync`,
  `AutoResumeCompletes` and (as `void`) in `ResumableCopy`: without it, `InSync` and
  `AutoResumeCompletes` fail of the code, and of what is stored from such a stream
  nothing can be said. `CrashLosesNoDownload` and `ProgressKept` need no such hypothesis;
  the former names the leftover;
- RESUME carries a path and an offset; a file replaced in between gives a
  delivered file with the head of one and the tail of the other. `FinalIsAVersion`
  fails in the instance of `download_changing`, and `Integrity` has the
  hypothesis that rules this out;
- a get of a file that is truncated meanwhile: the worker returns to
  `read_request`, the client waits for a block, for ever (`CutShort` in `Coherence`
  is the same between two slaves);
- the master ends for all clients when one of them closes its connection without
  a request (`EndedByACut`; master_dns.c:172);
- a slave whose workers have all died still takes connections;
- the handler of SIGCHLD may block the parent of a pool once a worker was stopped or
  continued (csapp.c:132-134, serveur_ftp.c:37-40); clients do not notice, but workers
  that die then stay zombies;
- a slave that refuses an update lacks the file for good, and the replay goes on as
  if it had it (response.c:881, serveur_ftp.c:178-187);
- slaves that replay to each other wait for each other when all their workers do;
- of two puts of one path at the same time, each is acknowledged, and the file is
  a mixture: `UnspoiledIsWhole` holds for the others, `NothingMisplaced` for all;
- `init_config_slave` fills memory of its own, so that the address of the master is
  never set (config_loader.c:27); `decode_request` clears what lies after the array
  of `master_dns.c`:177; a file `f.part` and the partial file of `f` have one name.

Further: after `OFFSET_ERROR_R` the partial files
stay, so that a get of a file that shrank is refused until they are deleted by
hand; the same error met by the client itself (response.c:955) leaves the
blocks that follow an accepting header unread; a client that closes with an
answer unread may reset the connection, and the worker that then reads exits
in `Rio_readnb`.

## 5. What is proved

The proofs are checked by TLAPS with no assumption but those of the modules
(`DownloadAssumption`, `StoreAssumption`, `ClusterAssumption`, `SessionAssumption`,
`PathsAssumption`, `CoherenceAssumption`): any files, versions and sizes, any
positive block size; any number of workers, names, contents and blocks; any
clients, slaves and configuration; any paths and any tree; any pools and any
journals. They ask no more than that `NONE` is none of the values it stands
beside, that a line of config_master which is not empty leads to a slave, and that
what is there at the start is what the program can find: a tree, with the directory
of the slave in it.

In `DownloadProof` and `DownloadRefinement`:

| theorem | says |
|---|---|
| `TypeCorrect` | `Spec => []TypeOK` |
| `CrashSafety` | `Spec => []CrashLosesNoDownload`, with its two leftovers |
| `LengthCorrect` | `Spec => []FinalAsLongAsAnnounced` |
| `ProgressSafety` | `Spec => ProgressKept`, an action property: three points, of which one is the connection lost before the header |
| `StableInvariant` | the inductive invariant of the stable case, while `torn = {}` |
| `Integrity` | if the server's files do not change, `Spec => []FinalIsAVersion` (while `torn = {}`) |
| `Framing` | if they do not change, `Spec => []InSync` (while `torn = {}`) |
| `Refinement` | if they do not change, `Spec => ImplementsCopy`: `Download` implements `ResumableCopy`, which is void once `torn` is not empty |

The argument. None of the invariants is inductive alone. `CrashLosesNoDownload`
needs to know what the client is about to do: between `HeaderAccepted` and
`InitMeta`, and between `ReceiveBlock` and `SaveMeta`, the `.part` and its meta
disagree, and what makes that harmless is that the `.part` always covers `recvd`
and that the recorded offset never runs ahead of it. That is `ProgressInv`; with
`TypeOK` and `WorkerInv` it makes `DiskInv`, inductive without any hypothesis on
the server, on interrupted removals or on what is read from a stream that is out of
step: the leftover of a removal is never resumed into, since an offset beyond the
`.part` is refused.

`FinalIsAVersion` needs the bytes in flight as well. `WireInv` says that what the
client has received, the blocks in `net`, and what the worker has yet to send
follow one another without a gap and are of one version (`Chain`, `Stream`), and
that the wire is empty when no transfer is going on. `DataInv` says that every
byte kept on the disk is the server's byte at that place. `StableInv` is the
conjunction of the three; the lemmas on chains of blocks (one appended, one taken,
all taken) carry its induction. As long as no removal was interrupted, an offset
beyond the `.part` is the size of a file that was completed, whose RESUME the slave
answers without a block: what the client refuses leaves nothing behind, and `conn` is
never "noise". It needs `RemoteMayChange = FALSE`, and
section 4 says how
`FinalIsAVersion` fails without it.

`Refinement` rests on the same invariant. The mapping takes the offset a `get`
would resume from as the length of what is kept; `DataInv` makes the head of the
`.part` of that length a prefix of the server's file. `SaveMeta` maps to `Extend`,
the first unlink of an error return that removes the partial files to `GiveUp` (a
`get` would start anew from there on, and the second unlink is a stutter), `Rename` to `Deliver`
(the whole `.part` is then the whole file), and every other step to a stutter: in
particular the truncation, the first meta and the write of a block leave the
resumable offset where it is.

In `StoreProof`:

| theorem | says |
|---|---|
| `TypeCorrect` | `Spec => []TypeOK` |
| `NothingIsMisplaced` | `Spec => []NothingMisplaced` |
| `UnspoiledStaysWhole` | `Spec => []UnspoiledIsWhole` |
| `CalmGetExact` | `Spec => []CalmGetIsExact` |

The inductive invariant is `StoreInv`. To the three properties it adds `MixInv`,
that the content of a put under way is in the `mix` of its file (or the next block
would not be of one of them), and makes of `CalmGetIsExact` the stronger `CalmInv`:
not only what a calm get has sent, but also what it holds ready in its `rio_t` is
what the file holds at that place, because the file may lose its name, and the next
blocks are sent from there. The step of each conjunct is a lemma of its own
(`MisplacedNext`, `MixNext`, `FineNext`, `CalmNext`); those on `UsedSame`,
`FewerWriters` and `Released` say that the reuse of an inode disturbs nobody.

In `ClusterProof`:

| theorem | says |
|---|---|
| `TypeCorrect` | `Spec => []TypeOK` |
| `SharesEvenly` | `Spec => []Balanced` |
| `HandlerFindsAZombie` | `Spec => []WaitFindsAZombie`, of the slaves no worker of which was stopped or continued |
| `OnlyACutEnds` | `Spec => []EndedByACut` |

`Balanced` is not inductive: `Round` says that there is a number of rounds such that
the lines 1 to `i` have been given out once more than the others (line 0 is the last
of a round). `WaitFindsAZombie` follows from `Signalled`: of the slaves
that are not in `stopped`, one with a pending signal or a parent in its handler has a
zombie, and one with both has two.
`EndedByACut` needs `CutInv`: a client that is gone without a request has set `cut`,
and whoever is further on, in a queue or at a worker, has sent its request.

In `SessionProof` and `AnswersProof`:

| theorem | says |
|---|---|
| `TypeCorrect` | `Spec => []TypeOK` |
| `StaysInStepAlways` | `Spec => []StaysInStep`, which says nothing after a put refused with blocks left (`unread > 0`) |
| `NothingReadAheadIsLost` | `Spec => []NoReadAheadLost` |
| `AnswersAreTrueAlways` | if files do not change under a transfer, `Spec => []AnswersAreTrue` |

`StaysInStep` says which messages a process may find when it reads; nothing in a
message says what it belongs to, so that this can only follow from where the two
processes are. `SessionInv` says it for each pair of places (`Joint`): which of them
go together, and what each stream, with what the reader holds in its `rio_t`, then
contains - how many blocks, the announced number of them or those that are left.
`ClientInv` and `WorkerInv` add what each can find by itself, `EndsInv` which ends are
open. `Strayed` is what can still be said after a refused put; of what is on its way
to a process that has gone, nothing is. `NoReadAheadLost` is the same invariant, read
at the moments when a `rio_t` is dropped: it is empty then, because whoever would send
more waits for the answer.

`AnswersInv` adds the contents: `Getting`, that what the client has, what is in the
streams and what the worker has still to read are the file of the slave, one after
the other; `Putting`, the same in the other direction; `Said`, that an answer on its
way is still true when it is read. The last needs `~SharedTransfer`: with other
workers in between, the file may change between the answer and its reading, and
`AnswersAreTrue` fails, as it must.

In `PathsProof`:

| theorem | says |
|---|---|
| `TypeCorrect` | `Spec => []TypeOK` |
| `StaysConfined` | `Spec => []Confined` |
| `OneFileForEachPath` | `Spec => []OneFilePerPath` |
| `PutsDoNotHinder` | `Spec => []RefusedForAReason`: something in its way, or the unset `struct stat` |
| `GetsOpenFiles` | `Spec => []OpensAFile` |

What is needed here is that two loops over the components of a path agree, for every
path and every tree: `SameWay` says that where `realpath` has come to after `k`
components, if anywhere, is what the other function has made of them, as long as
there is no dot among them; `AllTheWay` that `realpath` comes to the end if what the
other has made is there. Both are inductions on `k`. The induction theorems of
the library take a predicate as a parameter, which no prover here can instantiate;
`SetInduction` and `UpTo` take a set of numbers instead, and are proved from `WFMin`,
by the least number that is not in it. `PathsInv` is the inductive invariant: the
tree is a tree (`Tree`), nothing outside the directory of the slave has come or
gone (`Kept`), and each worker is where its request has brought it - a put has the
directory it has made last, unless another worker was in its way since (`PutInv`).

In `CoherenceProof`:

| theorem | says |
|---|---|
| `TypeCorrect` | `Spec => []TypeOK` |
| `DeliveredInOrder` | `Spec => []Delivered`, whichever workers die; but for what a slave refused |
| `WaitsOnlyForAReason` | `Spec => []WaitsForAReason`, whichever workers die |
| `SlavesConverge` | if `RightList`, `Spec => []Converges`; but for what a slave refused |
| `AddressesDo` | `ByAddress => RightList` |

That the slaves are alike in the end rests on everything that happened before, and
on workers that replay to each other at the same time. The inductive invariant is
built in seven layers, each of which uses those before it. `TypeInv`: the types, and
what a worker has at each place (`Fits`). `ConnInv`: a connection has one worker that
replays over it, and one that serves it or a place in one queue. `ProtoInv`: for each
place of the one that replays (`Step`), what is on its way in either direction and
what the one that serves does; it stands for the reading order of the two loops.
`OwnInv`: a file that not more than one session has changed is written only on behalf
of that session - by its worker, or by one that serves its replay. `ValueInv`: what such
a file is, on the slave of the session and, entry by entry, on the slave that the
replay is connected to; `Delivered` is a part of it. `CalmInv`: while no worker has been
killed or gone astray, nobody has lost the other end of its connection. `ConvInv`:
the slaves that a replay has left behind, which are those of the list that are not in
`peers` any more, have the file; when it returns, these are all the others, by `RightList`.

`WaitsForAReason` is the safety part of `ReplaysEnd`: a replay that has nothing to read
has been heard, or cannot be. It follows from `ProtoInv`, `QueuedThere` and one more
invariant, `Heard`: over a connection that is open at the other end, there is a
worker that serves it or a place in a queue. What is left to fairness is that the
worker answers and that the queue moves.

`Delivered` needs no hypothesis on deaths or on the list: an entry is only left after
its last answer has been read, and that answer comes after the write, or after the
refusal, which puts the path in `refused`. Both properties leave out the paths in
`refused`, because the code leaves the slaves different there, and say nothing with
a worker astray. `Converges` has
the hypothesis `killed = 0` in itself, and needs `RightList`, since a slave that is in no
list is never told. `MCCoherence` checks that its lines are of that kind. `AddressesDo`
is the loop of the master, by induction on the lines that it has read (`ListedIs`,
`LeadsToNamed`).

Only model-checked: liveness (`AutoResumeCompletes`, `CommandEnds`, `WorkerFreed`,
`MasterAnswers`, `WaitingIsServed`, `ReplaysEnd`), as TLAPS cannot reason about
fairness here. Every invariant and every action property that a passing run checks is
stated by a theorem.

## 6. What is not modelled

The parsing of the command line (`command_parser`), the names that the client
gives to its own files, byte order and the widths of the block number (which no
reader looks at) and of sizes, the failure of `malloc` and of writes to the disk,
buffers that are too small for a path, `ls` of a file (a descriptor is lost each
time), the CuTest library. SIGINT kills the whole group of processes
(`Kill(0, SIGKILL)`), so that nothing of the program runs after it: for a client
or another slave that is the end of the workers, which is modelled. The process of
the master that serves slaves is its list in `Coherence` (`Peers`); that it ends
like the other one when a read fails is left out there, because a slave without
the list replays nothing and a worker that cannot connect exits (`Kill`).
`init_config_slave` is left out with its effect, which is none;
`init_config_master` is never called.

## 7. Plan

Done: `Download`, `ResumableCopy`, `Session`, `Store`, `Cluster`, `Coherence`,
`Paths`; theorems about all of them, which state every safety property of the runs.

Next:

1. the safety part of the other liveness properties, as `WaitsForAReason` is of
   `ReplaysEnd`: what a client, a worker or the master that waits is waiting for;
2. the names of the client's files (`build_client_dest_path`,
   `build_partial_paths`, `write_part_meta`) and what happens when two of them
   are the same.

-------------------------------- MODULE Store --------------------------------
(***************************************************************************)
(* The files of one slave, and the workers that read and write them at the *)
(* same time.  Nothing is locked: a put opens with O_TRUNC, which empties  *)
(* the file in place, under those who are sending it, and writes each      *)
(* block where its own descriptor is, whatever others wrote meanwhile; an  *)
(* rm takes the name away and leaves the file to those who have it open.   *)
(* So the model has names and inodes, as the system has.                   *)
(*                                                                         *)
(* Abstractions.  A file is a sequence of blocks, each of which remembers  *)
(* the content it comes from and its place in it; a file whose tail is     *)
(* written first has a hole, which reads as zeros.  That the path is       *)
(* resolved, that the client follows the protocol and what it is answered  *)
(* are the subject of Paths and Session.                                   *)
(***************************************************************************)
EXTENDS Integers, Sequences

CONSTANTS
  Worker,   \* the workers of the slave
  Path,     \* the names of its files
  Inode,    \* the files themselves, named or still open
  Content,  \* what clients put
  Blocks,   \* Blocks[c]: the number of blocks of c
  CHUNK,    \* RIO_BUFSIZE / BLOCK_SIZE: the blocks that one read(2) may take
  NONE      \* no file, no content

ASSUME StoreAssumption ==
  /\ Blocks \in [Content -> Nat]
  /\ CHUNK \in Nat \ {0}
  /\ NONE \notin Inode
  /\ NONE \notin Content

VARIABLES
  dir,      \* dir[p]: the file that p names, or NONE
  disk,     \* disk[n]: what file n holds
  job,      \* job[w]: what worker w has open, and how far it is
  \* and what only the properties look at:
  mix,      \* mix[n]: the contents being written at the last O_TRUNC of n
  spoiled,  \* the files whose puts overlapped, or were cut short
  calm      \* the workers whose file no put has opened while they send it

vars == <<dir, disk, job, mix, spoiled, calm>>

-----------------------------------------------------------------------------
Cell == [of : Content \cup {NONE}, at : Nat]
HOLE == [of |-> NONE, at |-> 0]

\* The first k blocks of c.
Part(c, k) == [i \in 1..k |-> [of |-> c, at |-> i]]
Whole(c)   == Part(c, Blocks[c])

Idle      == [op |-> "accept"]
PutJob(n, c, k) == [op |-> "put", ino |-> n, content |-> c, pos |-> k]
GetJob(n, size, buf, got) ==
  [op |-> "get", ino |-> n, size |-> size, buf |-> buf, got |-> got]

Putting(w, n) == job[w].op = "put" /\ job[w].ino = n
Getting(w, n) == job[w].op = "get" /\ job[w].ino = n
Writers(n)    == {w \in Worker : Putting(w, n)}

\* A file lives as long as a name or a descriptor; then its inode is free again.
Used(n) == \/ \E p \in Path : dir[p] = n
           \/ \E w \in Worker : Putting(w, n) \/ Getting(w, n)
Free    == {n \in Inode : ~Used(n)}

\* write(2) of a block at place k.
WriteBlock(data, k, cell) ==
  [i \in 1..(IF k > Len(data) THEN k ELSE Len(data)) |->
     IF i = k THEN cell ELSE IF i <= Len(data) THEN data[i] ELSE HOLE]

\* Mutant: a read begins one block too far.
ReadAhead_Late(data, buf, k) ==
  IF buf # <<>> THEN buf ELSE SubSeq(data, k + 1, Len(data))

\* What a rio_t that holds buf can deliver at place k: what it holds or, when it
\* is empty, what one read(2) takes from the file.
ReadAhead(data, buf, k) ==
  IF buf # <<>> THEN buf
  ELSE SubSeq(data, k, IF k + CHUNK - 1 > Len(data) THEN Len(data) ELSE k + CHUNK - 1)

-----------------------------------------------------------------------------
Init ==
  /\ dir = [p \in Path |-> NONE]
  /\ disk = [n \in Inode |-> <<>>]
  /\ job = [w \in Worker |-> Idle]
  /\ mix = [n \in Inode |-> {}]
  /\ spoiled = {}
  /\ calm = {}

\* Of the files that a step leaves without name and descriptor, nothing is kept.
Release(cut) ==
  /\ disk' = [n \in Inode |-> IF Used(n)' THEN disk[n] ELSE <<>>]
  /\ mix' = [n \in Inode |-> IF Used(n)' THEN mix[n] ELSE {}]
  /\ spoiled' = {n \in spoiled \cup cut : Used(n)'}

\* Mutant: a missing file is not created, and the failure of open goes unseen.
Target_NoCreate(p) == {dir[p]}

\* The file a put writes: the one the name has, or a new one.
Target(p) == IF dir[p] = NONE THEN Free ELSE {dir[p]}

\* Opened, for w to put c.
Opened(w, p, n, c) ==
  /\ dir' = [dir EXCEPT ![p] = n]
  /\ job' = [job EXCEPT ![w] = PutJob(n, c, 0)]
  /\ mix' = [mix EXCEPT ![n] = {job[x].content : x \in Writers(n)} \cup {c}]
  /\ spoiled' = IF Writers(n) = {} THEN spoiled \ {n} ELSE spoiled \cup {n}
  /\ calm' = {x \in calm : ~Getting(x, n)}

\* Mutant: open_file_w without O_TRUNC.
PutOpen_Keeps(w, p, c) ==
  /\ job[w] = Idle
  /\ \E n \in Target(p) : Opened(w, p, n, c) /\ UNCHANGED disk

\* A put whose header has come: open_file_w.
PutOpen(w, p, c) ==
  /\ job[w] = Idle
  /\ \E n \in Target(p) :
       /\ Opened(w, p, n, c)
       /\ disk' = [disk EXCEPT ![n] = <<>>]

\* Mutant: each block is appended to the file.
PutBlock_Appends(w) ==
  /\ job[w].op = "put"
  /\ job[w].pos < Blocks[job[w].content]
  /\ LET j == job[w]
         cell == [of |-> j.content, at |-> j.pos + 1]
     IN /\ disk' = [disk EXCEPT ![j.ino] = Append(@, cell)]
        /\ job' = [job EXCEPT ![w] = PutJob(j.ino, j.content, j.pos + 1)]
  /\ UNCHANGED <<dir, mix, spoiled, calm>>

\* A block has come, and is written where the descriptor is.
PutBlock(w) ==
  /\ job[w].op = "put"
  /\ job[w].pos < Blocks[job[w].content]
  /\ LET j == job[w]
         cell == [of |-> j.content, at |-> j.pos + 1]
     IN /\ disk' = [disk EXCEPT ![j.ino] = WriteBlock(@, j.pos + 1, cell)]
        /\ job' = [job EXCEPT ![w] = PutJob(j.ino, j.content, j.pos + 1)]
  /\ UNCHANGED <<dir, mix, spoiled, calm>>

\* All the blocks have come: the put is acknowledged.
PutDone(w) ==
  /\ job[w].op = "put"
  /\ job[w].pos = Blocks[job[w].content]
  /\ job' = [job EXCEPT ![w] = Idle]
  /\ UNCHANGED <<dir, calm>>
  /\ Release({})

\* The next one never does (the client or the worker has gone, or what comes is
\* no block of that file): the file is closed as it is.
PutCut(w) ==
  /\ job[w].op = "put"
  /\ job[w].pos < Blocks[job[w].content]
  /\ job' = [job EXCEPT ![w] = Idle]
  /\ UNCHANGED <<dir, calm>>
  /\ Release({job[w].ino})

\* A get: the file is opened, and its size at that moment announced.
GetOpen(w, p) ==
  /\ job[w] = Idle
  /\ dir[p] # NONE
  /\ LET n == dir[p]
     IN /\ job' = [job EXCEPT ![w] = GetJob(n, Len(disk[n]), <<>>, <<>>)]
        /\ calm' = IF Writers(n) = {} THEN calm \cup {w} ELSE calm
  /\ UNCHANGED <<dir, disk, mix, spoiled>>

\* A block is sent, out of what was read ahead or is read now.
SendBlock(w) ==
  /\ job[w].op = "get"
  /\ Len(job[w].got) < job[w].size
  /\ LET j == job[w]
         ahead == ReadAhead(disk[j.ino], j.buf, Len(j.got) + 1)
     IN /\ ahead # <<>>
        /\ job' = [job EXCEPT ![w] =
                     GetJob(j.ino, j.size, Tail(ahead), Append(j.got, Head(ahead)))]
  /\ UNCHANGED <<dir, disk, mix, spoiled, calm>>

\* The file is closed: all was sent, or the file is shorter than announced, or
\* the client has gone, before any block.
GetClose(w) ==
  /\ job[w].op = "get"
  /\ job' = [job EXCEPT ![w] = Idle]
  /\ calm' = calm \ {w}
  /\ UNCHANGED dir
  /\ Release({})

\* An rm: unlink.
Rm(w, p) ==
  /\ job[w] = Idle
  /\ dir[p] # NONE
  /\ dir' = [dir EXCEPT ![p] = NONE]
  /\ UNCHANGED <<job, calm>>
  /\ Release({})

Next ==
  \E w \in Worker :
    \/ PutBlock(w) \/ PutDone(w) \/ PutCut(w)
    \/ SendBlock(w) \/ GetClose(w)
    \/ \E p \in Path : GetOpen(w, p) \/ Rm(w, p) \/ \E c \in Content : PutOpen(w, p, c)

Spec == Init /\ [][Next]_vars

-----------------------------------------------------------------------------
(* Properties. *)

Jobs ==
  {Idle} \cup [op : {"put"}, ino : Inode, content : Content, pos : Nat]
         \cup [op : {"get"}, ino : Inode, size : Nat, buf : Seq(Cell), got : Seq(Cell)]

\* The type invariant.
TypeOK ==
  /\ dir \in [Path -> Inode \cup {NONE}]
  /\ disk \in [Inode -> Seq(Cell)]
  /\ job \in [Worker -> Jobs]
  /\ mix \in [Inode -> SUBSET Content]
  /\ spoiled \subseteq Inode
  /\ calm \subseteq Worker

\* Every block of s is at its own place, and of one of the contents M, or a hole.
InPlace(s, M) ==
  \A k \in DOMAIN s : s[k] = HOLE \/ (s[k].at = k /\ s[k].of \in M)

\* However puts overlap, are cut short or lose their name, a file holds no block
\* out of its place, and nothing that was there before the last put opened it:
\* only blocks of the puts that were open then, and holes.  And what a get sends
\* has each block in its place too, whatever happens to the file meanwhile.
NothingMisplaced ==
  /\ \A n \in Inode : InPlace(disk[n], mix[n])
  /\ \A w \in Worker :
       job[w].op = "get" => InPlace(job[w].got \o job[w].buf, Content)

\* A file whose puts did not overlap and were not cut is what the last put sends,
\* as far as it is: once it is done, its content, whole.  So what a put is
\* acknowledged for is stored, unless another one was open at the same time.
UnspoiledIsWhole ==
  \A n \in Inode \ (spoiled \cup Free) :
    \E c \in Content :
      \/ Writers(n) = {} /\ disk[n] = Whole(c)
      \/ \E w \in Worker :
           /\ Writers(n) = {w}
           /\ job[w].content = c
           /\ disk[n] = Part(c, job[w].pos)

\* A get during which no put opens the file never finds it shorter than it has
\* announced, and sends what is in it: the file as it is on the disk, even if an
\* rm takes its name away and a put gives that name to another one.
CalmGetIsExact ==
  \A w \in calm :
    /\ job[w].op = "get"
    /\ Writers(job[w].ino) = {}
    /\ Len(disk[job[w].ino]) = job[w].size
    /\ \A k \in 1..Len(job[w].got) : job[w].got[k] = disk[job[w].ino][k]
=============================================================================

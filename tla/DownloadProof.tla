---------------------------- MODULE DownloadProof ----------------------------
(***************************************************************************)
(* Proofs about the resumable download, for any set of files, any sizes    *)
(* and any block size.                                                     *)
(*                                                                         *)
(* DiskInv is inductive whatever the server's files do; it relates the     *)
(* three numbers that describe a partial download, the length of the       *)
(* .part, the offset in the .part.meta and total_received, at each point   *)
(* of receive_file_by_blocks_resume.  WireInv and DataInv need the         *)
(* server's files to stay what they are, and hold until a removal of       *)
(* partial files is interrupted; they say which blocks are on their way at *)
(* each point, and what the bytes of a .part are.                          *)
(***************************************************************************)
EXTENDS Download, FiniteSetTheorems, SequenceTheorems, TLAPS

-----------------------------------------------------------------------------
(* The inductive invariants. *)

\* What `worker' may be.
Sender == [file : File \cup {NONE}, total_sent : Nat, file_size : Nat]

\* The points of receive_file_by_blocks_resume where the .part is open.
Receiving == pc \in {"initmeta", "receive", "savemeta"}

\* What the worker is sending exists, and something of it is left to send.
WorkerInv ==
  worker # Idle =>
    /\ worker.file \in File
    /\ remote[worker.file] \in Version
    /\ worker.total_sent < worker.file_size

\* The .part ends at total_received from the truncation to the rename, and the
\* meta follows it, one write behind.
ProgressInv ==
  /\ pc \in {"header", "unlink", "remove"} \/ Receiving => cur \in File
  /\ Receiving => Len(part[cur]) = recvd /\ recvd <= total
  /\ pc = "header" =>
       \/ start = 0 /\ (meta[cur] <= 0 \/ meta[cur] > Len(part[cur]))
       \/ start > 0 /\ start = meta[cur]
  /\ pc = "initmeta" =>
       /\ recvd = start
       /\ \/ start = 0 /\ (meta[cur] <= 0 \/ meta[cur] > Len(part[cur]))
          \/ start > 0 /\ start = meta[cur]
  /\ pc = "receive" => meta[cur] = recvd
  /\ pc = "savemeta" => meta[cur] >= 0 /\ meta[cur] <= recvd
  /\ pc = "unlink" => Len(final[cur]) = total /\ part[cur] = <<>>
  /\ pc = "remove" => part[cur] = <<>>

DiskInv == TypeOK /\ WorkerInv /\ ProgressInv /\ CrashLosesNoDownload

\* The blocks of q carry the bytes of version v from offset a to offset b, in
\* order and without a gap.
Chain(q, v, a, b) ==
  /\ a <= b
  /\ q = <<>> => a = b
  /\ q # <<>> => q[1].from = a /\ q[Len(q)].from + q[Len(q)].data_size = b
  /\ \A i \in 1..Len(q) :
       /\ q[i].kind = "block" /\ q[i].ver = v
       /\ q[i].from \in Nat /\ q[i].data_size \in 1..BLOCK_SIZE
       /\ q[i].from + q[i].data_size <= b
  /\ \A i \in 1..Len(q)-1 : q[i+1].from = q[i].from + q[i].data_size
  /\ \A i, j \in 1..Len(q) : i < j => q[i].from + q[i].data_size <= q[j].from

Sending(f, b, size) == [file |-> f, total_sent |-> b, file_size |-> size]

\* q is what is left of the transfer of file f, in version v, from offset a, and
\* worker w is sending what follows, unless it is gone.
Stream(q, v, f, w, a) ==
  \E b \in a..Size[v] :
    /\ Chain(q, v, a, b)
    /\ w = Idle \/ (b < Size[v] /\ w = Sending(f, b, Size[v]))

\* What is on the wire when the client waits for the header: nothing or its own
\* request; an error header; the header and the first blocks.
HeaderWire ==
  \/ /\ net = <<>> /\ worker = Idle
     /\ req = <<>> \/ req = <<[file |-> cur, start_offset |-> start]>>
  \/ /\ req = <<>> /\ worker = Idle
     /\ \E e \in {PATH_ERROR_R, OFFSET_ERROR_R} : net = <<Header(e, 0)>>
  \/ /\ req = <<>> /\ remote[cur] \in Version
     /\ start <= Size[remote[cur]]
     /\ net # <<>> /\ Head(net) = Header(NO_ERROR_R, Size[remote[cur]])
     /\ Stream(Tail(net), remote[cur], cur, worker, start)

\* What is on the wire while it receives.
BlockWire ==
  /\ req = <<>> /\ remote[cur] \in Version
  /\ total = Size[remote[cur]]
  /\ Stream(net, remote[cur], cur, worker, recvd)

WireInv ==
  /\ conn # "noise"
  /\ pc \in {"down", "scan", "prompt", "unlink", "remove"} =>
       req = <<>> /\ net = <<>> /\ worker = Idle
  /\ pc = "header" => HeaderWire
  /\ Receiving => BlockWire
  /\ conn # "up" => req = <<>> /\ worker = Idle

\* The bytes on the client's disk are those of the server's file, at their place.
DataInv ==
  /\ \A f \in File : part[f] # <<>> =>
       /\ remote[f] \in Version
       /\ Len(part[f]) <= Size[remote[f]]
       /\ \A i \in 1..Len(part[f]) : part[f][i] = <<remote[f], i>>
  /\ \A f \in File : meta[f] > Len(part[f]) =>
       \/ remote[f] \in Version /\ meta[f] = Size[remote[f]]
       \/ pc = "remove" /\ cur = f
  /\ \A f \in have : remote[f] \in Version /\ final[f] = Content(remote[f])

\* What holds as long as no removal has been interrupted.
CleanInv == DiskInv /\ WireInv /\ DataInv

StableInv == DiskInv /\ (torn = {} => WireInv /\ DataInv)
-----------------------------------------------------------------------------
(* The content of a file, as a sequence. *)

\* A function on 1..n is a sequence of n elements.
LEMMA FunctionIsSeq ==
  ASSUME NEW S, NEW n \in Nat, NEW g \in [1..n -> S]
  PROVE  g \in Seq(S) /\ Len(g) = n
  OBVIOUS

\* ftruncate keeps the first n bytes.
LEMMA TruncateProps ==
  ASSUME NEW s \in Seq(Byte), NEW n \in 0..Len(s)
  PROVE  /\ Truncate(s, n) \in Seq(Byte)
         /\ Len(Truncate(s, n)) = n
         /\ \A i \in 1..n : Truncate(s, n)[i] = s[i]
  BY FunctionIsSeq, ElementOfSeq DEF Truncate

\* Writing at the end of a file extends it.
LEMMA WriteAtEnd ==
  ASSUME NEW s \in Seq(Byte), NEW d \in Seq(Byte)
  PROVE  /\ WriteAt(s, Len(s), d) \in Seq(Byte)
         /\ Len(WriteAt(s, Len(s), d)) = Len(s) + Len(d)
         /\ \A i \in 1..Len(s) : WriteAt(s, Len(s), d)[i] = s[i]
         /\ \A i \in 1..Len(d) : WriteAt(s, Len(s), d)[Len(s) + i] = d[i]
<1>. DEFINE w == WriteAt(s, Len(s), d)
<1>1. Most(Len(s), Len(s) + Len(d)) = Len(s) + Len(d)
  BY DEF Most
<1>2. w \in [1..Len(s) + Len(d) -> Byte]
  BY <1>1, ElementOfSeq DEF WriteAt
<1>3. w \in Seq(Byte) /\ Len(w) = Len(s) + Len(d)
  <2>1. Len(s) + Len(d) \in Nat
    OBVIOUS
  <2>. QED BY <1>2, <2>1, FunctionIsSeq
<1>4. \A i \in 1..Len(s) : w[i] = s[i]
  BY <1>1 DEF WriteAt
<1>5. \A i \in 1..Len(d) : w[Len(s) + i] = d[i]
  BY <1>1 DEF WriteAt
<1>. QED BY <1>3, <1>4, <1>5

\* The bytes of a block.
LEMMA DataProps ==
  ASSUME NEW b \in Message, b.kind = "block"
  PROVE  /\ b.data_size \in Nat
         /\ Data(b) \in Seq(Byte)
         /\ Len(Data(b)) = b.data_size
         /\ \A i \in 1..b.data_size : Data(b)[i] = <<b.ver, b.from + i>>
<1>1. b.ver \in Version /\ b.from \in Nat /\ b.data_size \in Nat
  BY DEF Message
<1>2. Data(b) \in [1..b.data_size -> Byte]
  BY <1>1 DEF Data, Byte
<1>. QED BY <1>1, <1>2, FunctionIsSeq DEF Data

-----------------------------------------------------------------------------
(* DiskInv is inductive. *)

LEMMA IdleType == Idle.file = NONE /\ Idle \in Sender
  BY DEF Sender, Idle

LEMMA DiskInvInit == Init => DiskInv
<1>. SUFFICES ASSUME Init PROVE DiskInv
  OBVIOUS
<1>1. TypeOK
  BY IdleType DEF Sender, Init, TypeOK, NO_META
<1>2. WorkerInv /\ ProgressInv
  BY DEF Init, WorkerInv, ProgressInv, Receiving
<1>3. CrashLosesNoDownload
  BY DEF Init, CrashLosesNoDownload, NO_META
<1>. QED BY <1>1, <1>2, <1>3 DEF DiskInv

\* What the arrival of a header leaves.
LEMMA ReceiveHeaderType ==
  ASSUME TypeOK, ReceiveHeader
  PROVE  /\ Tail(net) \in Seq(Message)
         /\ \A n \in 1..Len(net) : SubSeq(net, n + 1, Len(net)) \in Seq(Message)
         /\ Head(net).error \in Nat /\ Head(net).total_size \in Nat
<1>1. Head(net) \in Message /\ Tail(net) \in Seq(Message)
  BY DEF TypeOK, ReceiveHeader
<1>2. \A n \in 1..Len(net) : SubSeq(net, n + 1, Len(net)) \in Seq(Message)
  BY SubSeqProperties DEF TypeOK
<1>. QED BY <1>1, <1>2 DEF ReceiveHeader, Message

\* The end of perform_download, or the first unlink of remove_partial_files.
LEMMA ReturnDiskInv ==
  ASSUME DiskInv, NEW r, Return(r), net' \in Seq(Message),
         pc = "header" \/ Receiving,
         UNCHANGED <<server, conn, req>>
  PROVE  DiskInv'
<1>. USE DEF DiskInv
<1>1. cur \in File
  BY DEF ProgressInv
<1>2. CASE pc' = "remove" /\ part' = [part EXCEPT ![cur] = <<>>] /\ UNCHANGED call
  <2>. USE <1>2 DEF call
  <2>1. UNCHANGED <<meta, have, final, todo, torn>>
    BY DEF Return, ReturnOrRemove
  <2>2. part' \in [File -> Seq(Byte)] /\ part'[cur] = <<>>
    BY <1>1 DEF TypeOK
  <2>3. TypeOK'
    BY <2>1, <2>2 DEF TypeOK, server
  <2>4. WorkerInv' /\ ProgressInv'
    BY <1>1, <2>1, <2>2 DEF WorkerInv, ProgressInv, Receiving, server
  <2>5. CrashLosesNoDownload'
    BY <1>1, <2>1 DEF CrashLosesNoDownload, TypeOK
  <2>. QED BY <2>3, <2>4, <2>5
<1>3. CASE Leave /\ UNCHANGED part
  <2>. USE <1>3 DEF Leave
  <2>1. UNCHANGED <<meta, have, final, todo, torn>> /\ pc' \in {"scan", "prompt"}
    BY DEF Return, ReturnOrRemove, TypeOK
  <2>2. TypeOK'
    BY <2>1 DEF TypeOK, server
  <2>3. WorkerInv' /\ ProgressInv'
    BY <2>1 DEF WorkerInv, ProgressInv, Receiving, server
  <2>4. CrashLosesNoDownload'
    BY <2>1 DEF CrashLosesNoDownload, Receiving
  <2>. QED BY <2>2, <2>3, <2>4
<1>. QED BY <1>2, <1>3 DEF Return, ReturnOrRemove

\* The unlink of a .part.meta.
LEMMA DropMetaDiskInv ==
  ASSUME DiskInv, DropMeta, pc \in {"unlink", "remove"}
  PROVE  DiskInv'
<1>. USE DEF DiskInv, DropMeta, Leave, server, wire
<1>1. cur \in File /\ meta' = [meta EXCEPT ![cur] = NO_META] /\ part' = part
  BY DEF ProgressInv
<1>2. meta'[cur] = NO_META /\ (\A g \in File : g # cur => meta'[g] = meta[g])
  BY <1>1 DEF TypeOK
<1>3. TypeOK'
  BY <1>1 DEF TypeOK, NO_META
<1>4. WorkerInv' /\ ProgressInv'
  BY DEF WorkerInv, ProgressInv, Receiving, TypeOK
<1>5. CrashLosesNoDownload'
  <2>1. \A g \in File : Len(part[g]) \in Nat
    BY DEF TypeOK
  <2>. QED BY <1>1, <1>2, <2>1 DEF CrashLosesNoDownload, NO_META
<1>. QED BY <1>3, <1>4, <1>5

\* perform_download sends its request.
LEMMA AskDiskInv ==
  ASSUME DiskInv, NEW f \in File, NEW offset \in Nat, NEW from \in {"scan", "prompt"},
         Ask(f, offset, from), pc \in {"scan", "prompt"}, todo' \subseteq File,
         UNCHANGED <<disk, server>>,
         \/ offset = 0 /\ (meta[f] <= 0 \/ meta[f] > Len(part[f]))
         \/ offset > 0 /\ offset = meta[f]
  PROVE  DiskInv'
<1>. USE DEF DiskInv, disk, server
<1>1. TypeOK'
  <2>1. req' \in Seq([file : File, start_offset : Nat])
    <3>1. [file |-> f, start_offset |-> offset] \in [file : File, start_offset : Nat]
      OBVIOUS
    <3>. QED BY <3>1, AppendProperties DEF Ask, TypeOK
  <2>. QED BY <2>1 DEF Ask, TypeOK
<1>2. WorkerInv'
  BY DEF WorkerInv
<1>3. ProgressInv'
  BY DEF ProgressInv, Receiving, Ask
<1>4. CrashLosesNoDownload'
  BY DEF CrashLosesNoDownload, Ask
<1>. QED BY <1>1, <1>2, <1>3, <1>4

LEMMA DiskInvNext == DiskInv /\ [Next]_vars => DiskInv'
<1>. SUFFICES ASSUME DiskInv, [Next]_vars PROVE DiskInv'
  OBVIOUS
<1>. USE DEF DiskInv
<1>1. CASE Start
  <2>1. TypeOK'
    BY <1>1 DEF Start, TypeOK, disk, server, call
  <2>2. WorkerInv' /\ ProgressInv' /\ CrashLosesNoDownload'
    BY <1>1 DEF Start, disk, server, call, WorkerInv, ProgressInv, Receiving, CrashLosesNoDownload
  <2>. QED BY <2>1, <2>2
<1>2. ASSUME NEW f \in File, Get(f) PROVE DiskInv'
  <2>1. maybe_get_resume_offset(f) \in Nat
    <3>1. meta[f] \in Nat \cup {NO_META}
      BY DEF TypeOK
    <3>. QED BY <3>1 DEF maybe_get_resume_offset, NO_META
  <2>2. LET o == maybe_get_resume_offset(f)
        IN  \/ o = 0 /\ (meta[f] <= 0 \/ meta[f] > Len(part[f]))
            \/ o > 0 /\ o = meta[f]
    <3>1. meta[f] \in Nat \cup {NO_META} /\ Len(part[f]) \in Nat
      BY DEF TypeOK
    <3>. QED BY <3>1 DEF maybe_get_resume_offset, NO_META
  <2>. QED BY <1>2, <2>1, <2>2, AskDiskInv DEF Get, TypeOK
<1>3. ASSUME NEW f \in File, ScanDiscard(f) PROVE DiskInv'
  <2>1. TypeOK'
    BY <1>3 DEF ScanDiscard, TypeOK, server, wire, call
  <2>2. WorkerInv' /\ ProgressInv'
    BY <1>3 DEF ScanDiscard, server, wire, call, WorkerInv, ProgressInv, Receiving
  <2>3. CrashLosesNoDownload'
    BY <1>3 DEF ScanDiscard, CrashLosesNoDownload, TypeOK, NO_META
  <2>. QED BY <2>1, <2>2, <2>3
<1>4. ASSUME NEW f \in File, ScanResume(f) PROVE DiskInv'
  <2>1. meta[f] \in Nat /\ meta[f] > 0
    BY <1>4 DEF ScanResume, TypeOK, NO_META
  <2>2. todo' \subseteq File
    BY <1>4 DEF ScanResume, TypeOK
  <2>. QED BY <1>4, <2>1, <2>2, AskDiskInv DEF ScanResume
<1>5. CASE ScanDone
  <2>1. TypeOK'
    BY <1>5 DEF ScanDone, LeaveScan, TypeOK, disk, server, wire, call
  <2>2. WorkerInv' /\ ProgressInv' /\ CrashLosesNoDownload'
    BY <1>5 DEF ScanDone, LeaveScan, disk, server, call, WorkerInv, ProgressInv,
                Receiving, CrashLosesNoDownload
  <2>. QED BY <2>1, <2>2
<1>6. CASE HeaderLost
  BY <1>6, ReturnDiskInv DEF HeaderLost, wire, TypeOK, server
<1>7. CASE HeaderRefused
  <2>1. net' \in Seq(Message) /\ pc = "header" /\ UNCHANGED <<server, conn, req>>
    BY <1>7, ReceiveHeaderType DEF HeaderRefused, ReceiveHeader
  <2>. QED BY <1>7, <2>1, ReturnDiskInv DEF HeaderRefused
<1>8. CASE HeaderAccepted
  <2>1. /\ pc = "header" /\ cur \in File /\ pc' = "initmeta"
        /\ net' \in Seq(Message) /\ total' \in Nat
        /\ start \in Nat /\ recvd' = start
        /\ UNCHANGED <<meta, have, final, todo, caller, cur, start, server, conn, req, torn>>
    BY <1>8, ReceiveHeaderType
    DEF HeaderAccepted, Accept, ReceiveHeader, ProgressInv, TypeOK
  <2>2. start <= total' /\ start \in 0..Len(part[cur])
    <3>1. start <= Head(net).total_size /\ ~(Len(part[cur]) < start)
      BY <1>8, <2>1, ReceiveHeaderType
      DEF HeaderAccepted, Accept, HeaderResult, NO_ERROR_R, OFFSET_ERROR_R
    <3>. QED BY <1>8, <2>1, <3>1 DEF HeaderAccepted, Accept, TypeOK
  <2>3. /\ part' = [part EXCEPT ![cur] = Truncate(part[cur], start)]
        /\ Truncate(part[cur], start) \in Seq(Byte)
        /\ Len(Truncate(part[cur], start)) = start
    BY <1>8, <2>1, <2>2, TruncateProps DEF HeaderAccepted, Accept, TypeOK
  <2>4. TypeOK'
    BY <2>1, <2>3 DEF TypeOK, server
  <2>5. WorkerInv'
    BY <2>1 DEF WorkerInv, server
  <2>6. Len(part'[cur]) = start
    BY <2>1, <2>3 DEF TypeOK
  <2>7. meta[cur] \in Nat \cup {NO_META} /\ Len(part[cur]) \in Nat
    BY <2>1 DEF TypeOK
  <2>8. \/ start = 0 /\ (meta[cur] <= 0 \/ meta[cur] > Len(part[cur]))
        \/ start > 0 /\ start = meta[cur]
    BY <2>1 DEF ProgressInv
  <2>9. ProgressInv'
    BY <2>1, <2>2, <2>6, <2>7, <2>8 DEF ProgressInv, Receiving, NO_META
  <2>10. CrashLosesNoDownload'
    <3>1. ASSUME NEW g \in File, g # cur PROVE part'[g] = part[g]
      BY <2>1, <2>3, <3>1 DEF TypeOK
    <3>2. meta[cur] > start => cur \in have \cup torn
      BY <2>1, <2>2, <2>7, <2>8 DEF CrashLosesNoDownload, NO_META
    <3>. QED BY <2>1, <2>6, <3>1, <3>2 DEF CrashLosesNoDownload
  <2>. QED BY <2>4, <2>5, <2>9, <2>10
<1>9. CASE InitMeta
  <2>. USE <1>9 DEF InitMeta, disk, server, wire, call
  <2>1. TypeOK'
    BY DEF TypeOK
  <2>2. WorkerInv'
    BY DEF WorkerInv
  <2>3. ProgressInv'
    BY DEF ProgressInv, Receiving, TypeOK
  <2>4. CrashLosesNoDownload'
    BY DEF CrashLosesNoDownload, ProgressInv, Receiving, TypeOK
  <2>. QED BY <2>1, <2>2, <2>3, <2>4
<1>10. CASE ReceiveBlock
  <2>. DEFINE b == Head(net)
  <2>1. /\ pc = "receive" /\ cur \in File /\ Len(part[cur]) = recvd /\ meta[cur] = recvd
        /\ pc' = "savemeta"
        /\ recvd \in Nat /\ total \in Nat
        /\ UNCHANGED <<meta, have, final, server, conn, req, todo, caller, cur, start, total,
                       torn>>
    BY <1>10 DEF ReceiveBlock, BlockArrived, ProgressInv, Receiving, TypeOK
  <2>2. b \in Message /\ b.kind = "block" /\ net' \in Seq(Message)
    BY <1>10 DEF ReceiveBlock, BlockArrived, TypeOK
  <2>3. /\ recvd' = recvd + b.data_size /\ recvd' <= total
        /\ part' = [part EXCEPT ![cur] = WriteAt(part[cur], recvd, Data(b))]
    BY <1>10, <2>2 DEF ReceiveBlock, Oversized, Message, TypeOK
  <2>4. /\ WriteAt(part[cur], recvd, Data(b)) \in Seq(Byte)
        /\ Len(WriteAt(part[cur], recvd, Data(b))) = recvd'
        /\ recvd' \in Nat /\ recvd <= recvd'
    <3>1. part[cur] \in Seq(Byte) /\ recvd = Len(part[cur])
      BY <2>1 DEF TypeOK
    <3>2. Data(b) \in Seq(Byte) /\ Len(Data(b)) = b.data_size
          /\ b.data_size \in Nat
      BY <2>2, DataProps
    <3>. DEFINE old == part[cur]
                dat == Data(b)
    <3>3. WriteAt(old, Len(old), dat) \in Seq(Byte)
          /\ Len(WriteAt(old, Len(old), dat)) = Len(old) + Len(dat)
      <4>. HIDE DEF old, dat
      <4>. SUFFICES old \in Seq(Byte) /\ dat \in Seq(Byte)
        BY WriteAtEnd
      <4>. QED BY <3>1, <3>2 DEF old, dat
    <3>. QED BY <2>1, <2>3, <3>1, <3>2, <3>3
  <2>5. TypeOK'
    BY <2>1, <2>2, <2>3, <2>4 DEF TypeOK, server
  <2>6. WorkerInv'
    BY <2>1 DEF WorkerInv, server
  <2>7. Len(part'[cur]) = recvd'
    BY <2>1, <2>3, <2>4 DEF TypeOK
  <2>8. ProgressInv'
    BY <2>1, <2>3, <2>4, <2>7 DEF ProgressInv, Receiving
  <2>9. CrashLosesNoDownload'
    BY <2>1, <2>3, <2>4, <2>7 DEF CrashLosesNoDownload, TypeOK
  <2>. QED BY <2>5, <2>6, <2>8, <2>9
<1>11. CASE SaveMeta
  <2>. USE <1>11 DEF SaveMeta, disk, server, wire, call
  <2>1. TypeOK'
    BY DEF TypeOK
  <2>2. WorkerInv'
    BY DEF WorkerInv
  <2>3. ProgressInv'
    BY DEF ProgressInv, Receiving, TypeOK
  <2>4. CrashLosesNoDownload'
    BY DEF CrashLosesNoDownload, ProgressInv, Receiving, TypeOK
  <2>. QED BY <2>1, <2>2, <2>3, <2>4
<1>12. CASE BlockLost
  BY <1>12, ReturnDiskInv DEF BlockLost, wire, TypeOK, server, Receiving
<1>13. CASE Rename
  <2>. USE <1>13 DEF Rename, MoveToFinal, disk, server, wire, call
  <2>1. TypeOK'
    BY DEF TypeOK, ProgressInv, Receiving
  <2>2. WorkerInv'
    BY DEF WorkerInv
  <2>3. ProgressInv'
    BY DEF ProgressInv, Receiving, TypeOK
  <2>4. CrashLosesNoDownload'
    BY DEF CrashLosesNoDownload, TypeOK
  <2>. QED BY <2>1, <2>2, <2>3, <2>4
<1>14. CASE Unlink \/ RemoveMeta
  BY <1>14, DropMetaDiskInv DEF Unlink, RemoveMeta
<1>15. CASE Exit
  <2>. USE <1>15 DEF Exit, disk
  <2>1. TypeOK'
    BY IdleType DEF Sender, TypeOK, ProgressInv
  <2>2. WorkerInv' /\ ProgressInv' /\ CrashLosesNoDownload'
    BY DEF WorkerInv, ProgressInv, Receiving, CrashLosesNoDownload
  <2>. QED BY <2>1, <2>2
<1>16. CASE ServeRequest
  <2>. DEFINE r == Head(req)
              v == remote[r.file]
  <2>. USE DEF disk, call
  <2>1. r \in [file : File, start_offset : Nat] /\ req' \in Seq([file : File, start_offset : Nat])
    <3>1. req \in Seq([file : File, start_offset : Nat]) /\ req # <<>> /\ req' = Tail(req)
      BY <1>16 DEF ServeRequest, TypeOK
    <3>. QED BY <3>1, HeadTailProperties
  <2>2. \A e, t \in Nat : Header(e, t) \in Message
    BY DEF Header, Message
  <2>3. CASE v = NONE \/ r.start_offset > Size[v]
    <3>1. worker' = worker
      BY <1>16, <2>3 DEF ServeRequest
    <3>2. net' \in Seq(Message)
      <4>1. net' \in {Append(net, Header(PATH_ERROR_R, 0)), Append(net, Header(OFFSET_ERROR_R, 0))}
        BY <1>16, <2>3 DEF ServeRequest
      <4>2. Header(PATH_ERROR_R, 0) \in Message /\ Header(OFFSET_ERROR_R, 0) \in Message
        BY <2>2 DEF PATH_ERROR_R, OFFSET_ERROR_R
      <4>3. \A m \in Message : Append(net, m) \in Seq(Message)
        BY AppendProperties DEF TypeOK
      <4>. QED BY <4>1, <4>2, <4>3
    <3>3. TypeOK'
      BY <1>16, <2>1, <3>1, <3>2 DEF ServeRequest, TypeOK
    <3>. QED BY <1>16, <3>1, <3>3
         DEF ServeRequest, WorkerInv, ProgressInv, Receiving, CrashLosesNoDownload
  <2>4. CASE v # NONE /\ ~(r.start_offset > Size[v])
    <3>1. v \in Version /\ Size[v] \in Nat
      BY <2>1, <2>4, DownloadAssumption DEF TypeOK
    <3>2. net' \in Seq(Message)
      <4>1. net' = Append(net, Header(NO_ERROR_R, Size[v]))
        BY <1>16, <2>4 DEF ServeRequest
      <4>2. Header(NO_ERROR_R, Size[v]) \in Message
        BY <2>2, <3>1 DEF NO_ERROR_R
      <4>3. \A m \in Message : Append(net, m) \in Seq(Message)
        BY AppendProperties DEF TypeOK
      <4>. QED BY <4>1, <4>2, <4>3
    <3>3. \/ worker' = Idle
          \/ /\ r.start_offset < Size[v]
             /\ worker' = [file |-> r.file, total_sent |-> r.start_offset, file_size |-> Size[v]]
      BY <1>16, <2>4 DEF ServeRequest
    <3>4. worker' \in Sender
      BY <2>1, <3>1, <3>3, IdleType DEF Sender
    <3>5. TypeOK'
      BY <1>16, <2>1, <3>2, <3>4 DEF Sender, ServeRequest, TypeOK
    <3>6. WorkerInv'
      BY <1>16, <2>1, <3>1, <3>3 DEF ServeRequest, WorkerInv
    <3>. QED BY <1>16, <3>5, <3>6
         DEF ServeRequest, ProgressInv, Receiving, CrashLosesNoDownload
  <2>. QED BY <2>3, <2>4
<1>17. CASE SendBlock
  <2>. DEFINE to_read == Least(BLOCK_SIZE, worker.file_size - worker.total_sent)
              sent == worker.total_sent + to_read
  <2>. USE DEF disk, call
  <2>1. /\ worker # Idle /\ worker.file \in File /\ remote[worker.file] \in Version
        /\ worker.total_sent \in Nat /\ worker.file_size \in Nat
        /\ worker.total_sent < worker.file_size
    BY <1>17 DEF SendBlock, WorkerInv, TypeOK
  <2>2. to_read \in 1..BLOCK_SIZE /\ sent \in Nat
    BY <2>1, DownloadAssumption DEF Least
  <2>3. Block(remote[worker.file], worker.total_sent, to_read) \in Message
    BY <2>1, <2>2 DEF Block, Message
  <2>4. net' \in Seq(Message)
    BY <1>17, <2>3 DEF SendBlock, TypeOK
  <2>5. worker' = Idle \/ (worker' = [worker EXCEPT !.total_sent = sent] /\ sent < worker.file_size)
    BY <1>17 DEF SendBlock
  <2>6. worker' \in Sender
    BY <2>2, <2>5, IdleType DEF Sender, TypeOK
  <2>7. TypeOK'
    BY <1>17, <2>4, <2>6 DEF Sender, SendBlock, TypeOK
  <2>8. WorkerInv'
    BY <1>17, <2>1, <2>5 DEF SendBlock, WorkerInv, TypeOK
  <2>. QED BY <1>17, <2>7, <2>8
       DEF SendBlock, ProgressInv, Receiving, CrashLosesNoDownload
<1>18. CASE ServerClose
  <2>. USE <1>18 DEF ServerClose, disk, call
  <2>1. TypeOK'
    BY IdleType DEF Sender, TypeOK
  <2>2. WorkerInv' /\ ProgressInv' /\ CrashLosesNoDownload'
    BY DEF WorkerInv, ProgressInv, Receiving, CrashLosesNoDownload
  <2>. QED BY <2>1, <2>2
<1>19. ASSUME NEW f \in File, NEW v \in Version \cup {NONE}, RemoteChange(f, v) PROVE DiskInv'
  <2>. USE <1>19 DEF RemoteChange, disk, wire, call
  <2>1. TypeOK'
    BY DEF TypeOK
  <2>2. WorkerInv'
    BY DEF WorkerInv, TypeOK
  <2>3. ProgressInv' /\ CrashLosesNoDownload'
    BY DEF ProgressInv, Receiving, CrashLosesNoDownload
  <2>. QED BY <2>1, <2>2, <2>3
<1>21. CASE BlockRefused
  <2>1. net' \in Seq(Message) /\ Receiving /\ UNCHANGED <<server, conn, req>>
    BY <1>21 DEF BlockRefused, BlockArrived, Receiving, TypeOK
  <2>. QED BY <1>21, <2>1, ReturnDiskInv DEF BlockRefused
<1>22. CASE Misread
  <2>. USE <1>22 DEF Misread, disk, call
  <2>1. TypeOK'
    BY IdleType DEF Sender, TypeOK
  <2>2. WorkerInv' /\ ProgressInv' /\ CrashLosesNoDownload'
    BY DEF WorkerInv, ProgressInv, Receiving, CrashLosesNoDownload
  <2>. QED BY <2>1, <2>2
<1>23. ASSUME NEW m \in Noise, ReadNoise(m) PROVE DiskInv'
  <2>. USE <1>23 DEF ReadNoise, disk, server, call
  <2>1. net' \in Seq(Message)
    BY NoiseAssumption
  <2>2. TypeOK'
    BY <2>1 DEF TypeOK
  <2>3. WorkerInv' /\ ProgressInv' /\ CrashLosesNoDownload'
    BY DEF WorkerInv, ProgressInv, Receiving, CrashLosesNoDownload
  <2>. QED BY <2>2, <2>3
<1>20. CASE UNCHANGED vars
  BY <1>20 DEF vars, TypeOK, WorkerInv, ProgressInv, Receiving, CrashLosesNoDownload
<1>. QED
  BY <1>1, <1>2, <1>3, <1>4, <1>5, <1>6, <1>7, <1>8, <1>9, <1>10, <1>11, <1>12, <1>13,
     <1>14, <1>15, <1>16, <1>17, <1>18, <1>19, <1>20, <1>21, <1>22, <1>23
  DEF Next, ClientStep, ServerStep

THEOREM DiskInvariant == Spec => []DiskInv
  BY DiskInvInit, DiskInvNext, PTL DEF Spec

\* The type invariant, for any files, sizes and block size.
THEOREM TypeCorrect == Spec => []TypeOK
  BY DiskInvariant, PTL DEF DiskInv

\* Wherever the client dies, the offset a .part.meta records is covered by the
\* .part, or is one of two leftovers: of a file already complete (killed between
\* rename and unlink), or of a removal killed between the two unlinks of
\* remove_partial_files.  It holds at every point of
\* receive_file_by_blocks_resume, and whatever the slave's files become.
THEOREM CrashSafety == Spec => []CrashLosesNoDownload
  BY DiskInvariant, PTL DEF DiskInv

\* A file renamed to its final name has the length the slave announced.
THEOREM LengthCorrect == Spec => []FinalAsLongAsAnnounced
<1>1. DiskInv => FinalAsLongAsAnnounced
  BY DEF DiskInv, ProgressInv, FinalAsLongAsAnnounced
<1>. QED BY <1>1, DiskInvariant, PTL

-----------------------------------------------------------------------------
(* Sequences of blocks. *)

LEMMA ChainEmpty ==
  ASSUME NEW v, NEW a \in Nat
  PROVE  Chain(<<>>, v, a, a)
  BY DEF Chain

\* The worker sends the block at the end of what it has sent.
LEMMA ChainAppend ==
  ASSUME NEW q \in Seq(Message), NEW v \in Version, NEW a \in Nat, NEW b \in Nat,
         Chain(q, v, a, b), NEW n \in 1..BLOCK_SIZE
  PROVE  Chain(Append(q, Block(v, b, n)), v, a, b + n)
<1>. DEFINE m == Block(v, b, n)
            r == Append(q, m)
<1>1. n \in Nat /\ n > 0
  BY DownloadAssumption
<1>2. m.kind = "block" /\ m.ver = v /\ m.from = b /\ m.data_size = n
  BY DEF Block
<1>3. m \in Message
  BY DEF Block, Message
<1>4. /\ r # <<>> /\ Len(r) = Len(q) + 1 /\ Len(q) \in Nat
      /\ \A i \in 1..Len(q) : r[i] = q[i]
      /\ r[Len(q) + 1] = m
  BY <1>3, AppendProperties
<1>5. q # <<>> => Len(q) > 0
  BY EmptySeq
<1>6. q = <<>> => Len(q) = 0
  OBVIOUS
<1>. HIDE DEF r, m
<1>7. a <= b + n
  BY <1>1 DEF Chain
<1>8. r[1].from = a
  BY <1>2, <1>4, <1>5, <1>6 DEF Chain
<1>9. r[Len(r)].from + r[Len(r)].data_size = b + n
  BY <1>2, <1>4
<1>10. ASSUME NEW i \in 1..Len(r)
       PROVE  /\ r[i].kind = "block" /\ r[i].ver = v
              /\ r[i].from \in Nat /\ r[i].data_size \in 1..BLOCK_SIZE
              /\ r[i].from + r[i].data_size <= b + n
  <2>1. CASE i = Len(q) + 1
    BY <1>2, <1>4, <2>1
  <2>2. CASE i \in 1..Len(q)
    <3>1. q[i].data_size \in Nat
      BY <2>2, DownloadAssumption DEF Chain
    <3>. QED BY <1>1, <1>4, <2>2, <3>1 DEF Chain
  <2>. QED BY <1>4, <2>1, <2>2
<1>11. ASSUME NEW i \in 1..Len(r)-1 PROVE r[i+1].from = r[i].from + r[i].data_size
  <2>1. CASE i = Len(q)
    BY <1>2, <1>4, <1>5, <1>6, <2>1 DEF Chain
  <2>2. CASE i \in 1..Len(q)-1
    BY <1>4, <2>2 DEF Chain
  <2>. QED BY <1>4, <2>1, <2>2
<1>12. ASSUME NEW i \in 1..Len(r), NEW j \in 1..Len(r), i < j
       PROVE  r[i].from + r[i].data_size <= r[j].from
  <2>1. i \in 1..Len(q)
    BY <1>4, <1>12
  <2>2. CASE j = Len(q) + 1
    BY <1>2, <1>4, <2>1, <2>2 DEF Chain
  <2>3. CASE j \in 1..Len(q)
    BY <1>4, <1>12, <2>1, <2>3 DEF Chain
  <2>. QED BY <1>4, <2>2, <2>3
<1>13. Chain(r, v, a, b + n)
  BY <1>4, <1>7, <1>8, <1>9, <1>10, <1>11, <1>12 DEF Chain
<1>. QED BY <1>13 DEF r, m

\* The client reads the first of them.
LEMMA ChainTail ==
  ASSUME NEW q \in Seq(Message), NEW v \in Version, NEW a \in Nat, NEW b \in Nat,
         Chain(q, v, a, b), q # <<>>
  PROVE  /\ Head(q).kind = "block" /\ Head(q).ver = v /\ Head(q).from = a
         /\ Head(q).data_size \in 1..BLOCK_SIZE
         /\ a + Head(q).data_size <= b
         /\ Chain(Tail(q), v, a + Head(q).data_size, b)
<1>. DEFINE t == Tail(q)
            n == q[1].data_size
<1>1. /\ t \in Seq(Message) /\ Len(t) = Len(q) - 1 /\ Len(q) \in Nat /\ Len(q) > 0
      /\ \A i \in 1..Len(t) : t[i] = q[i+1]
  BY HeadTailProperties, EmptySeq
<1>2. Head(q) = q[1]
  OBVIOUS
<1>3. /\ q[1].kind = "block" /\ q[1].ver = v /\ q[1].from = a
      /\ n \in 1..BLOCK_SIZE /\ n \in Nat /\ a + n <= b
  BY <1>1, DownloadAssumption DEF Chain
<1>. HIDE DEF t, n
<1>4. CASE t = <<>>
  <2>1. Len(q) = 1
    BY <1>1, <1>4
  <2>2. a + n = b
    BY <1>3, <2>1 DEF Chain, n
  <2>. QED BY <1>2, <1>3, <1>4, <2>2, ChainEmpty DEF t, n
<1>5. CASE t # <<>>
  <2>1. Len(t) \in Nat /\ Len(t) > 0
    BY <1>1, <1>5, EmptySeq
  <2>0. \A i \in 1..Len(t) : i \in Nat /\ i + 1 \in 1..Len(q) /\ t[i] = q[i+1]
    BY <1>1, <2>1
  <2>2. t[1].from = a + n
    <3>1. 1 \in 1..Len(q)-1 /\ t[1] = q[1+1]
      BY <1>1, <2>0, <2>1
    <3>2. q[1+1].from = q[1].from + q[1].data_size
      BY <3>1 DEF Chain
    <3>. QED BY <1>3, <3>1, <3>2 DEF n
  <2>3. t[Len(t)].from + t[Len(t)].data_size = b
    BY <1>1, <2>1 DEF Chain
  <2>4. ASSUME NEW i \in 1..Len(t)
        PROVE  /\ t[i].kind = "block" /\ t[i].ver = v
               /\ t[i].from \in Nat /\ t[i].data_size \in 1..BLOCK_SIZE
               /\ t[i].from + t[i].data_size <= b
    <3>1. i + 1 \in 1..Len(q) /\ t[i] = q[i+1]
      BY <2>0
    <3>. QED BY <3>1 DEF Chain
  <2>5. ASSUME NEW i \in 1..Len(t)-1 PROVE t[i+1].from = t[i].from + t[i].data_size
    <3>1. i + 1 \in 1..Len(q)-1 /\ t[i] = q[i+1] /\ t[i+1] = q[(i+1)+1]
      BY <1>1, <2>0, <2>1
    <3>. QED BY <3>1 DEF Chain
  <2>6. ASSUME NEW i \in 1..Len(t), NEW j \in 1..Len(t), i < j
        PROVE  t[i].from + t[i].data_size <= t[j].from
    <3>1. /\ i + 1 \in 1..Len(q) /\ j + 1 \in 1..Len(q) /\ i + 1 < j + 1
          /\ t[i] = q[i+1] /\ t[j] = q[j+1]
      BY <2>0, <2>6
    <3>. QED BY <3>1 DEF Chain
  <2>7. Chain(t, v, a + n, b)
    BY <1>3, <1>5, <2>2, <2>3, <2>4, <2>5, <2>6 DEF Chain
  <2>. QED BY <1>2, <1>3, <2>7 DEF t, n
<1>. QED BY <1>4, <1>5

-----------------------------------------------------------------------------
(* The life of a stream. *)

\* It starts when the header has been sent.
LEMMA StreamStart ==
  ASSUME NEW v \in Version, NEW f, NEW a \in Nat, a <= Size[v]
  PROVE  Stream(<<>>, v, f, IF a < Size[v] THEN Sending(f, a, Size[v]) ELSE Idle, a)
<1>1. a \in a..Size[v] /\ Size[v] \in Nat
  BY DownloadAssumption
<1>2. Chain(<<>>, v, a, a)
  BY ChainEmpty
<1>. QED BY <1>1, <1>2 DEF Stream

\* It grows when the worker sends a block.
LEMMA StreamSend ==
  ASSUME NEW q \in Seq(Message), NEW v \in Version, NEW f, NEW a \in Nat,
         NEW w \in Sender, w # Idle, Stream(q, v, f, w, a),
         NEW n \in Nat, n = Least(BLOCK_SIZE, w.file_size - w.total_sent),
         NEW u \in Sender,
         \/ u = Idle /\ w.total_sent + n >= w.file_size
         \/ u = Sending(w.file, w.total_sent + n, w.file_size) /\ w.total_sent + n < w.file_size
  PROVE  /\ w.file = f
         /\ Stream(Append(q, Block(v, w.total_sent, n)), v, f, u, a)
<1>1. PICK b \in a..Size[v] : Chain(q, v, a, b) /\ b < Size[v] /\ w = Sending(f, b, Size[v])
  BY DEF Stream
<1>2. w.file = f /\ w.total_sent = b /\ w.file_size = Size[v]
  BY <1>1 DEF Sending
<1>3. b \in Nat /\ Size[v] \in Nat
  BY <1>1, DownloadAssumption
<1>4. n \in 1..BLOCK_SIZE /\ b + n <= Size[v] /\ n \in Nat
  BY <1>1, <1>2, <1>3, DownloadAssumption DEF Least
<1>5. Chain(Append(q, Block(v, b, n)), v, a, b + n)
  BY <1>1, <1>3, <1>4, ChainAppend
<1>6. b + n \in a..Size[v]
  BY <1>1, <1>3, <1>4
<1>. QED BY <1>2, <1>5, <1>6 DEF Stream

\* It is cut short when the worker is gone.
LEMMA StreamCut ==
  ASSUME NEW q, NEW v, NEW f, NEW w, NEW a, Stream(q, v, f, w, a)
  PROVE  Stream(q, v, f, Idle, a)
  BY DEF Stream

\* It shrinks when the client reads a block.
LEMMA StreamTail ==
  ASSUME NEW q \in Seq(Message), NEW v \in Version, NEW f, NEW w, NEW a \in Nat,
         Stream(q, v, f, w, a), q # <<>>
  PROVE  /\ Head(q).ver = v /\ Head(q).from = a
         /\ Head(q).data_size \in Nat /\ a + Head(q).data_size <= Size[v]
         /\ Head(q).data_size > 0 /\ Head(q).data_size <= BLOCK_SIZE
         /\ Stream(Tail(q), v, f, w, a + Head(q).data_size)
<1>1. PICK b \in a..Size[v] :
        Chain(q, v, a, b) /\ (w = Idle \/ (b < Size[v] /\ w = Sending(f, b, Size[v])))
  BY DEF Stream
<1>2. b \in Nat /\ b <= Size[v] /\ Size[v] \in Nat
  BY <1>1, DownloadAssumption
<1>3. /\ Head(q).ver = v /\ Head(q).from = a
      /\ Head(q).data_size \in 1..BLOCK_SIZE /\ a + Head(q).data_size <= b
      /\ Chain(Tail(q), v, a + Head(q).data_size, b)
  BY <1>1, <1>2, ChainTail
<1>4. Head(q).data_size \in Nat
  BY <1>3, DownloadAssumption
<1>5. b \in (a + Head(q).data_size)..Size[v]
  BY <1>2, <1>3, <1>4
<1>. QED BY <1>1, <1>2, <1>3, <1>4, <1>5 DEF Stream

\* Nothing is left of it at the end of the file.
LEMMA StreamEnd ==
  ASSUME NEW q \in Seq(Message), NEW v \in Version, NEW f, NEW w \in Sender,
         NEW a \in Nat, a = Size[v], Stream(q, v, f, w, a)
  PROVE  q = <<>> /\ w = Idle
<1>1. Size[v] \in Nat
  BY DownloadAssumption
<1>2. PICK b \in Size[v]..Size[v] :
        Chain(q, v, Size[v], b) /\ (w = Idle \/ (b < Size[v] /\ w = Sending(f, b, Size[v])))
  BY DEF Stream
<1>3. b = Size[v]
  BY <1>1, <1>2
<1>4. q = <<>>
  <2>1. q # <<>> => Head(q).data_size \in 1..BLOCK_SIZE /\ Size[v] + Head(q).data_size <= Size[v]
    BY <1>1, <1>2, <1>3, ChainTail
  <2>. QED BY <1>1, <2>1, DownloadAssumption
<1>. QED BY <1>1, <1>2, <1>3, <1>4

-----------------------------------------------------------------------------
(* StableInv is inductive when the server's files do not change. *)

LEMMA CleanInvInit == Init => CleanInv
<1>. SUFFICES ASSUME Init PROVE CleanInv
  OBVIOUS
<1>1. DiskInv
  BY DiskInvInit
<1>2. WireInv
  BY DEF Init, WireInv, Receiving
<1>3. DataInv
  BY DEF Init, DataInv, NO_META
<1>. QED BY <1>1, <1>2, <1>3 DEF CleanInv

\* When a download ends before its last block, nothing is left on the wire: the
\* header was an error, or its blocks would have been beyond the end of the file.
LEMMA ReturnInSync ==
  ASSUME CleanInv, HeaderLost \/ HeaderRefused \/ BlockLost
  PROVE  req' = <<>> /\ net' = <<>> /\ worker' = Idle
<1>. USE DEF CleanInv, DiskInv
<1>1. CASE HeaderLost \/ BlockLost
  <2>1. UNCHANGED <<req, net, worker>> /\ net = <<>> /\ conn # "up"
    BY <1>1 DEF HeaderLost, BlockLost, wire, server
  <2>. QED BY <2>1 DEF WireInv
<1>2. CASE HeaderRefused
  <2>1. /\ pc = "header" /\ net # <<>> /\ UNCHANGED <<req, worker>>
        /\ Tail(net) = <<>> => net' = <<>>
        /\ net \in Seq(Message) /\ cur \in File /\ start \in Nat /\ worker \in Sender
        /\ HeaderResult(Head(net)) # NO_ERROR_R
    <3>1. PICK n \in 1..Len(net) : net' = SubSeq(net, n + 1, Len(net))
      BY <1>2 DEF HeaderRefused
    <3>2. ASSUME net # <<>>, Tail(net) = <<>> PROVE net' = <<>>
      <4>1. Len(net) = 1
        <5>1. net \in Seq(Message)
          BY DEF TypeOK
        <5>2. Len(Tail(net)) = Len(net) - 1 /\ Len(Tail(net)) = 0
          BY <3>2, <5>1, HeadTailProperties
        <5>. QED BY <5>1, <5>2
      <4>. QED BY <3>1, <4>1
    <3>. QED BY <1>2, <3>2 DEF HeaderRefused, ReceiveHeader, server, TypeOK, Sender, ProgressInv
  <2>2. HeaderWire
    BY <2>1 DEF WireInv
  <2>3. CASE \E e \in {PATH_ERROR_R, OFFSET_ERROR_R} : net = <<Header(e, 0)>>
    <3>1. Tail(net) = <<>>
      BY <2>3
    <3>2. net # <<>> /\ Head(net).error # NO_ERROR_R
      BY <2>3 DEF Header, NO_ERROR_R, PATH_ERROR_R, OFFSET_ERROR_R
    <3>3. req = <<>> /\ worker = Idle
      BY <2>2, <3>2 DEF HeaderWire, Header
    <3>. QED BY <2>1, <3>1, <3>3
  <2>4. CASE ~(\E e \in {PATH_ERROR_R, OFFSET_ERROR_R} : net = <<Header(e, 0)>>)
    <3>. DEFINE v == remote[cur]
    <3>1. /\ req = <<>> /\ v \in Version /\ start <= Size[v]
          /\ Head(net) = Header(NO_ERROR_R, Size[v])
          /\ Stream(Tail(net), v, cur, worker, start)
      BY <2>1, <2>2, <2>4 DEF HeaderWire
    <3>2. Head(net).error = NO_ERROR_R /\ Head(net).total_size = Size[v]
      BY <3>1 DEF Header
    <3>3. Len(part[cur]) < start
      BY <2>1, <3>1, <3>2, DownloadAssumption DEF HeaderResult, TypeOK
    <3>4. Len(part[cur]) \in Nat
      BY <2>1 DEF TypeOK
    <3>5. start = meta[cur] /\ meta[cur] > Len(part[cur])
      BY <2>1, <3>3, <3>4 DEF ProgressInv, TypeOK
    <3>6. start = Size[v]
      BY <2>1, <3>5 DEF DataInv
    <3>7. Tail(net) \in Seq(Message)
      BY <2>1, HeadTailProperties
    <3>8. Tail(net) = <<>> /\ worker = Idle
      BY <2>1, <3>1, <3>6, <3>7, StreamEnd
    <3>. QED BY <2>1, <3>1, <3>8
  <2>. QED BY <2>3, <2>4
<1>. QED BY <1>1, <1>2

\* While nothing is on the wire, it stays so.
LEMMA QuietWire ==
  ASSUME TypeOK', req' = <<>>, net' = <<>>, worker' = Idle, conn' # "noise",
         pc' \in {"down", "scan", "prompt", "unlink", "remove"}
  PROVE  WireInv'
  BY DEF WireInv, Receiving

\* A request leaves on a quiet wire.
LEMMA AskWire ==
  ASSUME CleanInv, pc \in {"scan", "prompt"}, NEW f \in File, NEW offset, NEW from,
         Ask(f, offset, from), UNCHANGED server
  PROVE  WireInv'
<1>1. req = <<>> /\ net = <<>> /\ worker = Idle /\ conn # "noise"
  BY DEF CleanInv, WireInv
<1>2. /\ cur' = f /\ start' = offset /\ pc' = "header" /\ net' = <<>> /\ worker' = Idle
      /\ conn' = conn /\ conn' # "noise"
      /\ req' = IF conn = "up" THEN <<[file |-> f, start_offset |-> offset]>> ELSE <<>>
  BY <1>1 DEF Ask, server
<1>3. HeaderWire'
  BY <1>2 DEF HeaderWire
<1>. QED BY <1>2, <1>3 DEF WireInv, Receiving

LEMMA WireInvNext ==
  ASSUME CleanInv, RemoteMayChange = FALSE, [Next]_vars, DiskInv'
  PROVE  WireInv'
<1>. USE DEF CleanInv, DiskInv
<1>. DEFINE v == remote[cur]
<1>1. CASE Start
  BY <1>1 DEF Start, WireInv, Receiving, disk, server
<1>2. ASSUME NEW f \in File, Get(f) PROVE WireInv'
  BY <1>2, AskWire DEF Get
<1>3. ASSUME NEW f \in File, ScanDiscard(f) PROVE WireInv'
  <2>1. pc = "scan" /\ pc' = pc /\ UNCHANGED <<conn, req, net, worker>>
    BY <1>3 DEF ScanDiscard, wire, server
  <2>. QED BY <2>1, QuietWire DEF WireInv
<1>4. ASSUME NEW f \in File, ScanResume(f) PROVE WireInv'
  BY <1>4, AskWire DEF ScanResume
<1>5. CASE ScanDone
  BY <1>5, QuietWire DEF ScanDone, LeaveScan, WireInv, wire, server
<1>6. CASE HeaderLost \/ HeaderRefused \/ BlockLost
  <2>1. pc' \in {"scan", "prompt", "remove"}
    BY <1>6 DEF HeaderLost, HeaderRefused, BlockLost, Return, ReturnOrRemove, Leave, TypeOK
  <2>2. conn' = conn /\ conn # "noise"
    BY <1>6 DEF HeaderLost, HeaderRefused, ReceiveHeader, BlockLost, wire, WireInv
  <2>. QED BY <1>6, <2>1, <2>2, ReturnInSync, QuietWire
<1>7. CASE HeaderAccepted
  <2>1. /\ pc = "header" /\ pc' = "initmeta" /\ net # <<>> /\ net' = Tail(net)
        /\ recvd' = start /\ total' = Head(net).total_size
        /\ UNCHANGED <<req, conn, worker, remote, cur>>
        /\ HeaderResult(Head(net)) = NO_ERROR_R
    BY <1>7 DEF HeaderAccepted, Accept, ReceiveHeader, server
  <2>2. HeaderWire
    BY <2>1 DEF WireInv
  <2>3. Head(net).error = NO_ERROR_R
    BY <2>1 DEF HeaderResult, OFFSET_ERROR_R, NO_ERROR_R
  <2>4. ~(\E e \in {PATH_ERROR_R, OFFSET_ERROR_R} : net = <<Header(e, 0)>>)
    BY <2>3 DEF Header, NO_ERROR_R, PATH_ERROR_R, OFFSET_ERROR_R
  <2>5. /\ req = <<>> /\ v \in Version
        /\ Head(net) = Header(NO_ERROR_R, Size[v])
        /\ Stream(Tail(net), v, cur, worker, start)
    BY <2>1, <2>2, <2>4 DEF HeaderWire
  <2>6. Head(net).total_size = Size[v]
    BY <2>5 DEF Header
  <2>7. BlockWire'
    BY <2>1, <2>5, <2>6 DEF BlockWire
  <2>. QED BY <2>1, <2>7 DEF WireInv, Receiving
<1>8. CASE InitMeta \/ SaveMeta
  <2>1. /\ Receiving /\ pc' = "receive"
        /\ UNCHANGED <<req, net, conn, worker, remote, cur, total, recvd>>
    BY <1>8 DEF InitMeta, SaveMeta, Receiving, wire, server, call
  <2>2. BlockWire'
    BY <2>1 DEF WireInv, BlockWire
  <2>. QED BY <2>1, <2>2 DEF WireInv, Receiving
<1>9. CASE ReceiveBlock
  <2>1. /\ pc = "receive" /\ pc' = "savemeta" /\ net # <<>> /\ net' = Tail(net)
        /\ recvd' = recvd + Head(net).data_size
        /\ UNCHANGED <<req, conn, worker, remote, cur, total>>
        /\ net \in Seq(Message) /\ recvd \in Nat
    BY <1>9 DEF ReceiveBlock, BlockArrived, server, TypeOK
  <2>2. BlockWire
    BY <2>1 DEF WireInv, Receiving
  <2>3. Stream(Tail(net), v, cur, worker, recvd')
    BY <2>1, <2>2, StreamTail DEF BlockWire
  <2>4. BlockWire'
    BY <2>1, <2>2, <2>3 DEF BlockWire
  <2>. QED BY <2>1, <2>4 DEF WireInv, Receiving
<1>10. CASE Rename
  <2>1. /\ pc = "receive" /\ pc' = "unlink" /\ recvd >= total
        /\ UNCHANGED <<conn, req, net, worker>>
        /\ net \in Seq(Message) /\ recvd \in Nat /\ total \in Nat /\ recvd <= total
        /\ worker \in Sender
    BY <1>10 DEF Rename, MoveToFinal, wire, server, TypeOK, Sender, ProgressInv, Receiving
  <2>2. BlockWire /\ recvd = total
    BY <2>1 DEF WireInv, Receiving
  <2>3. net = <<>> /\ worker = Idle
    <3>1. v \in Version /\ recvd = Size[v] /\ Stream(net, v, cur, worker, recvd)
      BY <2>2 DEF BlockWire
    <3>2. net \in Seq(Message)
      BY <2>1
    <3>. QED BY <2>1, <3>1, <3>2, StreamEnd
  <2>. QED BY <2>1, <2>2, <2>3, QuietWire DEF BlockWire, WireInv
<1>11. CASE Unlink \/ RemoveMeta
  <2>1. /\ pc \in {"unlink", "remove"} /\ pc' \in {"scan", "prompt"}
        /\ UNCHANGED <<conn, req, net, worker>>
    BY <1>11 DEF Unlink, RemoveMeta, DropMeta, Leave, wire, server, TypeOK
  <2>. QED BY <2>1, QuietWire DEF WireInv
<1>12. CASE Exit
  BY <1>12, QuietWire DEF Exit
<1>13. CASE ServeRequest
  <2>. DEFINE r == Head(req)
              u == remote[r.file]
  <2>1. /\ conn = "up" /\ conn' = conn /\ req # <<>> /\ req' = Tail(req) /\ worker = Idle
        /\ UNCHANGED <<remote, pc, cur, start>>
    BY <1>13 DEF ServeRequest, call
  <2>2. pc = "header" /\ cur \in File /\ start \in Nat
    <3>1. pc \notin {"down", "scan", "prompt", "unlink", "remove"} /\ ~Receiving
      BY <2>1 DEF WireInv, BlockWire
    <3>. QED BY <3>1 DEF TypeOK, Receiving, ProgressInv
  <2>3. net = <<>> /\ req = <<[file |-> cur, start_offset |-> start]>>
    BY <2>1, <2>2 DEF WireInv, HeaderWire
  <2>4. req' = <<>> /\ r.file = cur /\ r.start_offset = start
    BY <2>1, <2>3
  <2>5. CASE u = NONE \/ r.start_offset > Size[u]
    <3>1. net' \in {Append(net, Header(PATH_ERROR_R, 0)), Append(net, Header(OFFSET_ERROR_R, 0))}
          /\ worker' = Idle
      BY <1>13, <2>1, <2>5 DEF ServeRequest
    <3>2. \E e \in {PATH_ERROR_R, OFFSET_ERROR_R} : net' = <<Header(e, 0)>>
      BY <2>3, <3>1
    <3>3. HeaderWire'
      BY <2>4, <3>1, <3>2 DEF HeaderWire
    <3>. QED BY <2>1, <2>2, <2>4, <3>1, <3>3 DEF WireInv, Receiving
  <2>6. CASE u # NONE /\ ~(r.start_offset > Size[u])
    <3>1. u = v /\ v \in Version /\ Size[v] \in Nat /\ start <= Size[v]
      BY <2>2, <2>4, <2>6, DownloadAssumption DEF TypeOK
    <3>2. net' = <<Header(NO_ERROR_R, Size[v])>>
      BY <1>13, <2>3, <2>4, <2>6, <3>1 DEF ServeRequest
    <3>3. worker' = IF start < Size[v] THEN Sending(cur, start, Size[v]) ELSE Idle
      BY <1>13, <2>4, <2>6, <3>1 DEF ServeRequest, Sending
    <3>4. /\ net' # <<>> /\ Head(net') = Header(NO_ERROR_R, Size[v])
          /\ Tail(net') = <<>>
      BY <3>2
    <3>5. Stream(Tail(net'), v, cur, worker', start)
      BY <2>2, <3>1, <3>3, <3>4, StreamStart
    <3>6. HeaderWire'
      BY <2>1, <2>4, <3>1, <3>4, <3>5 DEF HeaderWire
    <3>. QED BY <2>1, <2>2, <2>4, <3>6 DEF WireInv, Receiving
  <2>. QED BY <2>5, <2>6
<1>14. CASE SendBlock
  <2>. DEFINE n == Least(BLOCK_SIZE, worker.file_size - worker.total_sent)
              m == Block(remote[worker.file], worker.total_sent, n)
              w == IF worker.total_sent + n < worker.file_size
                   THEN [worker EXCEPT !.total_sent = worker.total_sent + n] ELSE Idle
  <2>1. /\ conn = "up" /\ conn' = conn /\ worker # Idle
        /\ net' = Append(net, m) /\ worker' = w
        /\ UNCHANGED <<remote, req, pc, cur, start, total, recvd>>
        /\ net \in Seq(Message)
    BY <1>14 DEF SendBlock, call, TypeOK
  <2>0. n = Least(BLOCK_SIZE, worker.file_size - worker.total_sent)
    OBVIOUS
  <2>. HIDE DEF n
  <2>2. pc = "header" \/ Receiving
    BY <2>1 DEF WireInv, TypeOK, Receiving
  <2>5. worker \in Sender /\ worker' \in Sender
    BY DEF TypeOK, Sender
  <2>6. /\ n \in Nat
        /\ \/ worker' = Idle /\ worker.total_sent + n >= worker.file_size
           \/ /\ worker' = Sending(worker.file, worker.total_sent + n, worker.file_size)
              /\ worker.total_sent + n < worker.file_size
    <3>1. worker.total_sent < worker.file_size
      BY <2>1 DEF WorkerInv
    <3>2. n \in Nat
      BY <2>0, <2>5, <3>1, DownloadAssumption DEF Least, Sender
    <3>3. [worker EXCEPT !.total_sent = worker.total_sent + n]
            = Sending(worker.file, worker.total_sent + n, worker.file_size)
      BY <2>5 DEF Sending, Sender
    <3>. QED BY <2>1, <2>5, <3>2, <3>3 DEF Sender
  <2>3. CASE pc = "header"
    <3>1. /\ req = <<>> /\ v \in Version
          /\ start <= Size[v]
          /\ net # <<>> /\ Head(net) = Header(NO_ERROR_R, Size[v])
          /\ Stream(Tail(net), v, cur, worker, start)
      BY <2>1, <2>3 DEF WireInv, HeaderWire
    <3>2. start \in Nat /\ Tail(net) \in Seq(Message)
      BY <2>1, <3>1, HeadTailProperties DEF TypeOK
    <3>3. /\ worker.file = cur
          /\ Stream(Append(Tail(net), Block(v, worker.total_sent, n)), v, cur, worker', start)
      <4>. DEFINE t == Tail(net)
      <4>1. /\ worker # Idle /\ t \in Seq(Message) /\ start \in Nat
            /\ v \in Version /\ Stream(t, v, cur, worker, start)
        BY <2>1, <3>1, <3>2
      <4>. HIDE DEF t
      <4>2. /\ worker.file = cur
            /\ Stream(Append(t, Block(v, worker.total_sent, n)), v, cur, worker', start)
        BY <2>0, <2>5, <2>6, <4>1, StreamSend
      <4>. QED BY <4>2 DEF t
    <3>4. Stream(Append(Tail(net), m), v, cur, worker', start)
      BY <3>3
    <3>5. net' # <<>> /\ Head(net') = Head(net) /\ Tail(net') = Append(Tail(net), m)
      BY <2>1, <3>1
    <3>6. HeaderWire'
      BY <2>1, <3>1, <3>4, <3>5 DEF HeaderWire
    <3>. QED BY <2>1, <2>3, <3>6 DEF WireInv, Receiving
  <2>4. CASE Receiving
    <3>1. BlockWire
      BY <2>4 DEF WireInv
    <3>2. recvd \in Nat
      BY DEF TypeOK
    <3>3. /\ worker.file = cur
          /\ Stream(Append(net, Block(v, worker.total_sent, n)), v, cur, worker', recvd)
      <4>1. v \in Version /\ Stream(net, v, cur, worker, recvd)
        BY <3>1 DEF BlockWire
      <4>. QED BY <2>0, <2>1, <2>5, <2>6, <3>2, <4>1, StreamSend
    <3>4. Stream(Append(net, m), v, cur, worker', recvd)
      BY <3>3
    <3>5. BlockWire'
      BY <2>1, <3>1, <3>4 DEF BlockWire
    <3>. QED BY <2>1, <2>4, <3>5 DEF WireInv, Receiving
  <2>. QED BY <2>2, <2>3, <2>4
<1>15. CASE ServerClose
  <2>1. /\ conn' = "eof" /\ worker' = Idle /\ req' = <<>>
        /\ UNCHANGED <<remote, net, pc, cur, start, total, recvd>>
    BY <1>15 DEF ServerClose, call
  <2>2. CASE pc \notin {"header"} /\ ~Receiving
    BY <2>1, <2>2, QuietWire DEF WireInv, Receiving, TypeOK
  <2>3. CASE pc = "header"
    <3>1. HeaderWire
      BY <2>3 DEF WireInv
    <3>2. HeaderWire'
      BY <2>1, <3>1, StreamCut DEF HeaderWire
    <3>. QED BY <2>1, <2>3, <3>2 DEF WireInv, Receiving
  <2>4. CASE Receiving
    <3>1. BlockWire'
      BY <2>1, <2>4, StreamCut DEF WireInv, BlockWire
    <3>. QED BY <2>1, <2>4, <3>1 DEF WireInv, Receiving
  <2>. QED BY <2>2, <2>3, <2>4
<1>16. ASSUME NEW f \in File, NEW u \in Version \cup {NONE}, RemoteChange(f, u) PROVE WireInv'
  BY <1>16 DEF RemoteChange
<1>18. CASE BlockRefused
  <2>1. pc = "receive" /\ net # <<>> /\ net \in Seq(Message) /\ recvd \in Nat
        /\ Oversized(Head(net))
    BY <1>18 DEF BlockRefused, BlockArrived, TypeOK
  <2>2. BlockWire
    BY <2>1 DEF WireInv, Receiving
  <2>3. /\ Head(net).data_size \in Nat /\ recvd + Head(net).data_size <= total
        /\ Head(net).data_size <= BLOCK_SIZE
    <3>1. v \in Version /\ Stream(net, v, cur, worker, recvd) /\ total = Size[v]
      BY <2>2 DEF BlockWire
    <3>. QED BY <2>1, <3>1, StreamTail
  <2>. QED BY <2>1, <2>3, DownloadAssumption DEF Oversized, TypeOK
<1>19. CASE Misread
  <2>1. pc = "header" /\ net # <<>> /\ Head(net).kind = "block"
    BY <1>19 DEF Misread
  <2>. QED BY <2>1 DEF WireInv, HeaderWire, Header
<1>20. ASSUME NEW m \in Noise, ReadNoise(m) PROVE WireInv'
  BY <1>20 DEF ReadNoise, WireInv
<1>17. CASE UNCHANGED vars
  BY <1>17 DEF vars, WireInv, HeaderWire, BlockWire, Receiving
<1>. QED
  BY <1>1, <1>2, <1>3, <1>4, <1>5, <1>6, <1>7, <1>8, <1>9, <1>10, <1>11, <1>12, <1>13,
     <1>14, <1>15, <1>16, <1>17, <1>18, <1>19, <1>20 DEF Next, ClientStep, ServerStep

\* The steps that write to the client's disk.
DiskStep ==
  \/ \E f \in File : ScanDiscard(f)
  \/ HeaderLost \/ HeaderRefused \/ BlockLost
  \/ HeaderAccepted \/ InitMeta \/ ReceiveBlock \/ BlockRefused \/ SaveMeta
  \/ Rename \/ Unlink \/ RemoveMeta

LEMMA OtherSteps ==
  ASSUME RemoteMayChange = FALSE, [Next]_vars
  PROVE  UNCHANGED remote /\ (DiskStep \/ UNCHANGED disk)
<1>1. CASE Start \/ ScanDone \/ Exit \/ ServerClose \/ ServerStep
  BY <1>1 DEF Start, ScanDone, LeaveScan, Exit, ServerClose, ServerStep, ServeRequest,
              SendBlock, server, disk
<1>2. ASSUME NEW f \in File, Get(f) \/ ScanResume(f)
      PROVE  UNCHANGED remote /\ UNCHANGED disk
  BY <1>2 DEF Get, ScanResume, server, disk
<1>3. ASSUME NEW f \in File, NEW v \in Version \cup {NONE}, RemoteChange(f, v) PROVE FALSE
  BY <1>3 DEF RemoteChange
<1>4. CASE DiskStep
  BY <1>4 DEF DiskStep, ScanDiscard, HeaderLost, HeaderRefused, BlockLost, HeaderAccepted,
              Accept, ReceiveHeader, InitMeta, ReceiveBlock, SaveMeta, Rename,
              MoveToFinal, Unlink, RemoveMeta, DropMeta, BlockRefused, server
<1>5. CASE UNCHANGED vars
  BY <1>5 DEF vars, disk
<1>6. CASE Misread
  BY <1>6 DEF Misread, disk
<1>7. ASSUME NEW m \in Noise, ReadNoise(m) PROVE UNCHANGED remote /\ UNCHANGED disk
  BY <1>7 DEF ReadNoise, server, disk
<1>. QED BY <1>1, <1>2, <1>3, <1>4, <1>5, <1>6, <1>7 DEF Next, ClientStep, DiskStep

\* What a received block adds to the .part.
LEMMA BlockBytes ==
  ASSUME CleanInv, ReceiveBlock
  PROVE  /\ cur \in File /\ remote[cur] \in Version
         /\ recvd \in Nat /\ recvd' \in Nat /\ recvd < recvd' /\ recvd' <= Size[remote[cur]]
         /\ part' = [part EXCEPT ![cur] = part'[cur]]
         /\ Len(part[cur]) = recvd /\ Len(part'[cur]) = recvd'
         /\ \A i \in 1..recvd : part'[cur][i] = part[cur][i]
         /\ \A i \in recvd+1..recvd' : part'[cur][i] = <<remote[cur], i>>
<1>. USE DEF CleanInv, DiskInv
<1>. DEFINE b == Head(net)
            s == part[cur]
            d == Data(b)
            v == remote[cur]
<1>1. /\ cur \in File /\ Len(s) = recvd /\ recvd \in Nat /\ s \in Seq(Byte)
      /\ pc = "receive" /\ net # <<>> /\ net \in Seq(Message)
  BY DEF ReceiveBlock, BlockArrived, ProgressInv, Receiving, TypeOK
<1>2. /\ b.kind = "block" /\ b \in Message
      /\ recvd' = recvd + b.data_size
      /\ part' = [part EXCEPT ![cur] = WriteAt(s, recvd, d)]
  BY <1>1, HeadTailProperties DEF ReceiveBlock, BlockArrived
<1>3. v \in Version /\ Stream(net, v, cur, worker, recvd)
  BY <1>1 DEF WireInv, BlockWire, Receiving
<1>4. /\ b.ver = v /\ b.from = recvd
      /\ recvd + b.data_size <= Size[v] /\ b.data_size > 0
  BY <1>1, <1>3, StreamTail
<1>5. /\ b.data_size \in Nat /\ b.data_size > 0
      /\ d \in Seq(Byte) /\ Len(d) = b.data_size
      /\ \A i \in 1..b.data_size : d[i] = <<v, recvd + i>>
  BY <1>2, <1>4, DataProps
<1>. HIDE DEF s, d, b
<1>6. /\ Len(WriteAt(s, Len(s), d)) = Len(s) + Len(d)
      /\ \A i \in 1..Len(s) : WriteAt(s, Len(s), d)[i] = s[i]
      /\ \A i \in 1..Len(d) : WriteAt(s, Len(s), d)[Len(s) + i] = d[i]
  <2>1. s \in Seq(Byte) /\ d \in Seq(Byte)
    BY <1>1, <1>5
  <2>. QED BY <2>1, WriteAtEnd
<1>7. part'[cur] = WriteAt(s, Len(s), d)
  BY <1>1, <1>2 DEF TypeOK
<1>8. ASSUME NEW i \in recvd+1..recvd' PROVE part'[cur][i] = <<v, i>>
  <2>1. i - recvd \in 1..Len(d) /\ recvd + (i - recvd) = i
    BY <1>1, <1>2, <1>5
  <2>2. part'[cur][recvd + (i - recvd)] = d[i - recvd]
    BY <1>1, <1>6, <1>7, <2>1
  <2>3. d[i - recvd] = <<v, recvd + (i - recvd)>>
    BY <1>5, <2>1
  <2>. QED BY <2>1, <2>2, <2>3
<1>9. Len(part'[cur]) = recvd' /\ (\A i \in 1..recvd : part'[cur][i] = part[cur][i])
  BY <1>1, <1>2, <1>5, <1>6, <1>7 DEF s
<1>10. part' = [part EXCEPT ![cur] = part'[cur]]
  BY <1>1, <1>2, <1>7
<1>. QED BY <1>1, <1>2, <1>3, <1>4, <1>5, <1>8, <1>9, <1>10 DEF s

\* When the last block has been received, the .part is the server's file.
LEMMA WholePart ==
  ASSUME CleanInv, Rename
  PROVE  /\ cur \in File /\ remote[cur] \in Version
         /\ part[cur] = Content(remote[cur])
         /\ meta[cur] = Len(part[cur]) /\ meta[cur] = Size[remote[cur]]
<1>. USE DEF CleanInv, DiskInv
<1>. DEFINE v == remote[cur]
<1>1. /\ cur \in File /\ pc = "receive" /\ part[cur] \in Seq(Byte)
      /\ Len(part[cur]) = recvd /\ meta[cur] = recvd /\ recvd = total /\ recvd \in Nat
  BY DEF Rename, MoveToFinal, ProgressInv, Receiving, TypeOK
<1>2. v \in Version /\ total = Size[v]
  BY <1>1 DEF WireInv, BlockWire, Receiving
<1>3. Content(v) \in [1..Size[v] -> Byte] /\ Size[v] \in Nat
  BY <1>2, DownloadAssumption DEF Content, Byte
<1>4. Content(v) \in Seq(Byte) /\ Len(Content(v)) = Size[v]
  BY <1>3, FunctionIsSeq
<1>5. ASSUME NEW i \in 1..Len(part[cur]) PROVE part[cur][i] = Content(v)[i]
  <2>1. part[cur] # <<>>
    BY <1>1
  <2>2. part[cur][i] = <<v, i>>
    BY <1>1, <2>1 DEF DataInv
  <2>3. i \in 1..Size[v]
    BY <1>1, <1>2
  <2>. QED BY <2>2, <2>3 DEF Content
<1>6. part[cur] = Content(v)
  BY <1>1, <1>2, <1>4, <1>5, SeqEqual
<1>. QED BY <1>1, <1>2, <1>6

\* Between the two unlinks, only the slave takes steps.
LEMMA BetweenUnlinks ==
  ASSUME [Next]_vars, pc = "remove", torn' = {}
  PROVE  RemoveMeta \/ (pc' = pc /\ cur' = cur)
<1>1. CASE Exit
  BY <1>1 DEF Exit
<1>2. CASE ServerClose \/ ServerStep
  BY <1>2 DEF ServerClose, ServerStep, ServeRequest, SendBlock, call
<1>3. ASSUME NEW f \in File, NEW v \in Version \cup {NONE}, RemoteChange(f, v)
      PROVE  pc' = pc /\ cur' = cur
  BY <1>3 DEF RemoteChange, call
<1>4. ASSUME NEW m \in Noise, ReadNoise(m) PROVE pc' = pc /\ cur' = cur
  BY <1>4 DEF ReadNoise, call
<1>5. CASE UNCHANGED vars
  BY <1>5 DEF vars
<1>6. CASE Start \/ (\E f \in File : Get(f))
  BY <1>6 DEF Start, Get
<1>7. CASE ClientStep
  BY <1>7 DEF ClientStep, ScanDiscard, ScanResume, ScanDone, LeaveScan, HeaderLost,
              HeaderRefused, HeaderAccepted, Accept, ReceiveHeader, Misread, InitMeta,
              ReceiveBlock, BlockRefused, BlockArrived, SaveMeta, BlockLost, Rename,
              MoveToFinal, Unlink
<1>. QED BY <1>1, <1>2, <1>3, <1>4, <1>5, <1>6, <1>7 DEF Next

LEMMA DataInvNext ==
  ASSUME CleanInv, RemoteMayChange = FALSE, [Next]_vars, DiskInv', torn' = {}
  PROVE  DataInv'
<1>. USE DEF CleanInv, DiskInv
<1>1. UNCHANGED remote /\ (DiskStep \/ UNCHANGED disk)
  BY OtherSteps
<1>2. CASE UNCHANGED disk /\ ~RemoveMeta
  <2>1. pc = "remove" => pc' = pc /\ cur' = cur
    BY <1>2, BetweenUnlinks
  <2>. QED BY <1>1, <1>2, <2>1 DEF disk, DataInv
<1>3. ASSUME NEW f \in File, ScanDiscard(f) PROVE DataInv'
  <2>1. /\ UNCHANGED <<part, have, final, remote>> /\ meta' = [meta EXCEPT ![f] = NO_META]
        /\ pc # "remove"
    BY <1>3 DEF ScanDiscard, server
  <2>2. meta'[f] = NO_META /\ (\A g \in File : g # f => meta'[g] = meta[g])
    BY <2>1 DEF TypeOK
  <2>3. \A g \in File : Len(part[g]) \in Nat
    BY DEF TypeOK
  <2>. QED BY <2>1, <2>2, <2>3 DEF DataInv, NO_META
<1>4. CASE HeaderLost \/ HeaderRefused \/ BlockLost \/ BlockRefused
  <2>1. PICK drop \in BOOLEAN : ReturnOrRemove(drop)
    BY <1>4 DEF HeaderLost, HeaderRefused, BlockLost, BlockRefused, Return
  <2>2. cur \in File /\ pc # "remove"
    BY <1>4 DEF HeaderLost, HeaderRefused, BlockLost, BlockRefused, BlockArrived,
                ReceiveHeader, ProgressInv, Receiving
  <2>3. CASE drop
    <3>1. /\ part' = [part EXCEPT ![cur] = <<>>] /\ pc' = "remove" /\ cur' = cur
          /\ UNCHANGED <<meta, have, final, remote>>
      BY <1>1, <2>1, <2>3 DEF ReturnOrRemove, call
    <3>2. part'[cur] = <<>>
      BY <2>2, <3>1 DEF TypeOK
    <3>3. \A f \in File : f # cur => part'[f] = part[f]
      BY <2>2, <3>1 DEF TypeOK
    <3>. QED BY <2>2, <3>1, <3>2, <3>3 DEF DataInv
  <2>4. CASE ~drop
    BY <1>1, <2>1, <2>2, <2>4 DEF ReturnOrRemove, DataInv
  <2>. QED BY <2>3, <2>4
<1>5. CASE HeaderAccepted
  <2>1. /\ cur \in File /\ part' = [part EXCEPT ![cur] = Truncate(part[cur], start)]
        /\ UNCHANGED <<meta, have, final, remote>>
        /\ part[cur] \in Seq(Byte) /\ start \in Nat
    BY <1>1, <1>5 DEF HeaderAccepted, Accept, ReceiveHeader, ProgressInv, TypeOK
  <2>2. start \in 0..Len(part[cur])
    <3>1. ~(Len(part[cur]) < start)
      BY <1>5 DEF HeaderAccepted, Accept, HeaderResult, NO_ERROR_R, OFFSET_ERROR_R
    <3>. QED BY <2>1, <3>1
  <2>3. /\ Len(part'[cur]) = start
        /\ \A i \in 1..start : part'[cur][i] = part[cur][i]
    <3>1. part'[cur] = Truncate(part[cur], start)
      BY <2>1 DEF TypeOK
    <3>. QED BY <2>1, <2>2, <3>1, TruncateProps
  <2>4. \A f \in File : f # cur => part'[f] = part[f]
    BY <2>1 DEF TypeOK
  <2>5. part'[cur] # <<>> =>
          /\ remote[cur] \in Version /\ start <= Size[remote[cur]]
          /\ \A i \in 1..start : part'[cur][i] = <<remote[cur], i>>
    <3>. SUFFICES ASSUME part'[cur] # <<>>
                  PROVE  /\ remote[cur] \in Version /\ start <= Size[remote[cur]]
                         /\ \A i \in 1..start : part'[cur][i] = <<remote[cur], i>>
      OBVIOUS
    <3>1. start > 0
      <4>1. part'[cur] \in Seq(Byte)
        BY <2>1 DEF TypeOK
      <4>. QED BY <2>1, <2>3, <4>1, EmptySeq
    <3>2. part[cur] # <<>> /\ start <= Len(part[cur])
      BY <2>1, <2>2, <3>1
    <3>3. /\ remote[cur] \in Version /\ Len(part[cur]) <= Size[remote[cur]]
          /\ \A i \in 1..Len(part[cur]) : part[cur][i] = <<remote[cur], i>>
      BY <2>1, <3>2 DEF DataInv
    <3>4. Size[remote[cur]] \in Nat
      BY <3>3, DownloadAssumption
    <3>. QED BY <2>1, <2>2, <2>3, <3>2, <3>3, <3>4
  <2>6. meta[cur] > start => remote[cur] \in Version /\ meta[cur] = Size[remote[cur]]
    <3>1. pc = "header" /\ meta[cur] \in Nat \cup {NO_META}
      BY <1>5, <2>1 DEF HeaderAccepted, Accept, ReceiveHeader, TypeOK
    <3>2. \/ start = 0 /\ (meta[cur] <= 0 \/ meta[cur] > Len(part[cur]))
          \/ start > 0 /\ start = meta[cur]
      BY <3>1 DEF ProgressInv
    <3>. QED BY <2>1, <3>1, <3>2 DEF DataInv, NO_META
  <2>. QED BY <2>1, <2>3, <2>4, <2>5, <2>6 DEF DataInv
<1>6. CASE InitMeta \/ SaveMeta
  <2>1. /\ cur \in File /\ meta' = [meta EXCEPT ![cur] = recvd]
        /\ Len(part[cur]) = recvd /\ recvd \in Nat
        /\ UNCHANGED <<part, have, final, remote>>
    BY <1>1, <1>6 DEF InitMeta, SaveMeta, ProgressInv, Receiving, TypeOK
  <2>2. meta'[cur] = recvd /\ (\A g \in File : g # cur => meta'[g] = meta[g])
    BY <2>1 DEF TypeOK
  <2>. QED BY <2>1, <2>2 DEF DataInv
<1>7. CASE ReceiveBlock
  <2>1. UNCHANGED <<meta, have, final, remote>> /\ meta[cur] = recvd /\ pc # "remove"
    BY <1>1, <1>7 DEF ReceiveBlock, BlockArrived, ProgressInv
  <2>2. \A f \in File : f # cur => part'[f] = part[f]
    BY <1>7, BlockBytes DEF TypeOK
  <2>3. \A i \in 1..recvd' : part'[cur][i] = <<remote[cur], i>>
    <3>. SUFFICES ASSUME NEW i \in 1..recvd' PROVE part'[cur][i] = <<remote[cur], i>>
      OBVIOUS
    <3>1. CASE i \in 1..recvd
      <4>1. part[cur] # <<>> /\ i \in 1..Len(part[cur]) /\ part'[cur][i] = part[cur][i]
        BY <1>7, <3>1, BlockBytes
      <4>. QED BY <1>7, <4>1, BlockBytes DEF DataInv
    <3>2. CASE i \in recvd+1..recvd'
      BY <1>7, <3>2, BlockBytes
    <3>. QED BY <1>7, <3>1, <3>2, BlockBytes
  <2>. QED BY <1>7, <2>1, <2>2, <2>3, BlockBytes DEF DataInv
<1>8. CASE Rename
  <2>1. /\ final' = [final EXCEPT ![cur] = part[cur]] /\ have' = have \cup {cur}
        /\ part' = [part EXCEPT ![cur] = <<>>]
        /\ UNCHANGED <<meta, remote>>
    BY <1>1, <1>8 DEF Rename, MoveToFinal
  <2>2. part'[cur] = <<>> /\ final'[cur] = Content(remote[cur])
    BY <1>8, <2>1, WholePart DEF TypeOK
  <2>3. \A f \in File : f # cur => part'[f] = part[f] /\ final'[f] = final[f]
    BY <2>1 DEF TypeOK
  <2>4. \A f \in have : f \in File
    BY DEF TypeOK
  <2>. QED BY <1>8, <2>1, <2>2, <2>3, <2>4, WholePart DEF DataInv
<1>9. CASE Unlink \/ RemoveMeta
  <2>1. /\ meta' = [meta EXCEPT ![cur] = NO_META]
        /\ UNCHANGED <<part, have, final, remote>> /\ cur \in File
    BY <1>1, <1>9 DEF Unlink, RemoveMeta, DropMeta, ProgressInv
  <2>2. meta'[cur] = NO_META /\ (\A g \in File : g # cur => meta'[g] = meta[g])
    BY <2>1 DEF TypeOK
  <2>3. \A g \in File : Len(part[g]) \in Nat
    BY DEF TypeOK
  <2>. QED BY <2>1, <2>2, <2>3 DEF DataInv, NO_META
<1>. QED BY <1>1, <1>2, <1>3, <1>4, <1>5, <1>6, <1>7, <1>8, <1>9 DEF DiskStep

\* A removal that was interrupted stays so.
LEMMA TornForEver == [Next]_vars /\ torn' = {} => torn = {}
<1>. SUFFICES ASSUME [Next]_vars, torn' = {} PROVE torn = {}
  OBVIOUS
<1>1. CASE Exit
  BY <1>1 DEF Exit
<1>2. CASE UNCHANGED torn
  BY <1>2
<1>3. CASE ClientStep
  BY <1>2, <1>3
  DEF ClientStep, ScanDiscard, ScanResume, Ask, ScanDone, LeaveScan, HeaderLost,
      HeaderRefused, Return, ReturnOrRemove, HeaderAccepted, Accept, Misread, InitMeta,
      ReceiveBlock, BlockRefused, SaveMeta, BlockLost, Rename, MoveToFinal, Unlink,
      RemoveMeta, DropMeta
<1>4. CASE Start \/ ServerStep \/ ServerClose \/ UNCHANGED vars
  BY <1>2, <1>4 DEF Start, ServerStep, ServeRequest, SendBlock, ServerClose, vars
<1>5. ASSUME NEW f \in File, Get(f) PROVE torn = {}
  BY <1>2, <1>5 DEF Get, Ask
<1>6. ASSUME NEW m \in Noise, ReadNoise(m) PROVE torn = {}
  BY <1>2, <1>6 DEF ReadNoise
<1>7. ASSUME NEW f \in File, NEW v \in Version \cup {NONE}, RemoteChange(f, v)
      PROVE  torn = {}
  BY <1>2, <1>7 DEF RemoteChange
<1>. QED BY <1>1, <1>3, <1>4, <1>5, <1>6, <1>7 DEF Next

LEMMA StableInvNext ==
  ASSUME RemoteMayChange = FALSE, StableInv, [Next]_vars
  PROVE  StableInv'
<1>1. DiskInv'
  BY DiskInvNext DEF StableInv
<1>2. ASSUME torn' = {} PROVE WireInv' /\ DataInv'
  <2>1. CleanInv
    BY <1>2, TornForEver DEF StableInv, CleanInv
  <2>. QED BY <1>1, <1>2, <2>1, WireInvNext, DataInvNext
<1>. QED BY <1>1, <1>2 DEF StableInv

\* While the server's files stay what they are and no removal of partial files has
\* been interrupted, what is on the wire and on the client's disk is what is left,
\* and what there is already, of the server's files.
THEOREM StableInvariant == RemoteMayChange = FALSE => (Spec => []StableInv)
<1>. SUFFICES ASSUME RemoteMayChange = FALSE PROVE Spec => []StableInv
  OBVIOUS
<1>1. Init => StableInv
  BY CleanInvInit DEF CleanInv, StableInv
<1>2. StableInv /\ [Next]_vars => StableInv'
  BY StableInvNext
<1>. QED BY <1>1, <1>2, PTL DEF Spec

\* A file the user has is, whole, the file of the server, whatever number of
\* sessions, each cut anywhere but between the two unlinks of
\* remove_partial_files, it took to get it.
THEOREM Integrity == RemoteMayChange = FALSE => (Spec => []FinalIsAVersion)
<1>1. StableInv => FinalIsAVersion
  BY DEF StableInv, DataInv, FinalIsAVersion
<1>. QED BY <1>1, StableInvariant, PTL

\* The client never takes a block of an earlier transfer for a header, provided
\* that no removal of partial files has been interrupted.
THEOREM Framing == RemoteMayChange = FALSE => (Spec => []InSync)
<1>1. StableInv => InSync
  <2>. SUFFICES ASSUME StableInv, torn = {}, pc = "header", net # <<>>
                PROVE  Head(net).kind = "header"
    BY DEF InSync
  <2>1. HeaderWire
    BY DEF StableInv, WireInv
  <2>. QED BY <2>1 DEF HeaderWire, Header
<1>. QED BY <1>1, StableInvariant, PTL

-----------------------------------------------------------------------------
(* What a `get' would resume from. *)

LEMMA OffsetProps ==
  ASSUME TypeOK, NEW f \in File
  PROVE  /\ maybe_get_resume_offset(f) \in 0..Len(part[f])
         /\ meta[f] \in Nat \cup {NO_META} /\ Len(part[f]) \in Nat
         /\ meta[f] <= 0 \/ meta[f] > Len(part[f]) => maybe_get_resume_offset(f) = 0
         /\ meta[f] >= 0 /\ meta[f] <= Len(part[f]) => maybe_get_resume_offset(f) = meta[f]
<1>1. meta[f] \in Nat \cup {NO_META} /\ Len(part[f]) \in Nat
  BY DEF TypeOK
<1>. QED BY <1>1 DEF maybe_get_resume_offset, NO_META

LEMMA SameOffset ==
  ASSUME NEW f \in File, part'[f] = part[f], meta'[f] = meta[f]
  PROVE  maybe_get_resume_offset(f)' = maybe_get_resume_offset(f)
  BY DEF maybe_get_resume_offset

\* The truncation and the first meta leave it as it is: the transfer starts from
\* there.
LEMMA StartOffset ==
  ASSUME DiskInv, DiskInv', HeaderAccepted \/ InitMeta, NEW f \in File, f = cur
  PROVE  /\ maybe_get_resume_offset(f)' = maybe_get_resume_offset(f)
         /\ maybe_get_resume_offset(f) = start
<1>. USE DEF DiskInv
<1>1. /\ start \in Nat /\ cur' = cur
      /\ start <= Len(part[f]) /\ start <= Len(part'[f])
      /\ \/ start = 0 /\ (meta[f] <= 0 \/ meta[f] > Len(part[f]))
         \/ start > 0 /\ start = meta[f]
  <2>1. CASE HeaderAccepted
    <3>1. cur \in File /\ start \in Nat /\ cur' = cur /\ start' = start /\ pc' = "initmeta"
          /\ pc = "header"
      BY <2>1 DEF HeaderAccepted, Accept, ReceiveHeader, ProgressInv, TypeOK
    <3>2. ~(Len(part[f]) < start) /\ Len(part[f]) \in Nat
      BY <2>1, <3>1 DEF HeaderAccepted, Accept, HeaderResult, NO_ERROR_R, OFFSET_ERROR_R, TypeOK
    <3>3. Len(part'[f]) = start
      BY <3>1 DEF ProgressInv, Receiving
    <3>. QED BY <3>1, <3>2, <3>3 DEF ProgressInv
  <2>2. CASE InitMeta
    <3>1. cur \in File /\ start \in Nat /\ cur' = cur /\ part' = part /\ pc = "initmeta"
      BY <2>2 DEF InitMeta, disk, call, ProgressInv, Receiving, TypeOK
    <3>. QED BY <3>1 DEF ProgressInv, Receiving
  <2>. QED BY <2>1, <2>2
<1>2. maybe_get_resume_offset(f) = start
  BY <1>1, OffsetProps
<1>3. /\ meta'[f] <= 0 \/ meta'[f] > Len(part'[f]) => maybe_get_resume_offset(f)' = 0
      /\ meta'[f] >= 0 /\ meta'[f] <= Len(part'[f]) =>
           maybe_get_resume_offset(f)' = meta'[f]
      /\ meta'[f] \in Nat \cup {NO_META} /\ Len(part'[f]) \in Nat
  <2>1. meta'[f] \in Nat \cup {NO_META} /\ Len(part'[f]) \in Nat
    BY <1>1 DEF TypeOK
  <2>2. maybe_get_resume_offset(f)' =
          IF meta'[f] > 0 /\ Len(part'[f]) >= meta'[f] THEN meta'[f] ELSE 0
    BY <1>1 DEF maybe_get_resume_offset
  <2>. QED BY <2>1, <2>2 DEF NO_META
<1>4. CASE HeaderAccepted
  <2>1. meta' = meta /\ Len(part'[f]) = start
    BY <1>1, <1>4 DEF HeaderAccepted, Accept, ProgressInv, Receiving
  <2>. QED BY <1>1, <1>2, <1>3, <2>1 DEF NO_META
<1>5. CASE InitMeta
  <2>1. meta'[f] = start
    BY <1>1, <1>5 DEF InitMeta, TypeOK
  <2>. QED BY <1>1, <1>2, <1>3, <2>1
<1>. QED BY <1>1, <1>2, <1>4, <1>5

\* No step but the end of a transfer lowers it.
LEMMA ProgressStep ==
  ASSUME DiskInv, DiskInv', [Next]_vars, NEW f \in File,
         maybe_get_resume_offset(f)' < maybe_get_resume_offset(f)
  PROVE  /\ cur = f
         /\ \/ pc = "receive" /\ recvd >= total
            \/ /\ pc = "header" /\ start > 0
               /\ IF net = <<>> THEN conn = "eof"
                                ELSE Head(net).error = PATH_ERROR_R
<1>. USE DEF DiskInv
<1>. DEFINE o == maybe_get_resume_offset(f)
<1>0. o \in Nat /\ o' \in Nat /\ o' # o
  <2>1. o \in 0..Len(part[f]) /\ Len(part[f]) \in Nat
    BY OffsetProps
  <2>2. o' \in Nat
    <3>1. meta'[f] \in Nat \cup {NO_META}
      BY DEF TypeOK
    <3>. QED BY <3>1 DEF maybe_get_resume_offset, NO_META
  <2>. QED BY <2>1, <2>2
<1>1. ~(part'[f] = part[f] /\ meta'[f] = meta[f])
  BY <1>0, SameOffset
<1>2. CASE UNCHANGED <<part, meta>>
  BY <1>1, <1>2
<1>3. ASSUME NEW g \in File, ScanDiscard(g) PROVE FALSE
  <2>1. g = f /\ meta[f] = 0 /\ meta'[f] = NO_META
    BY <1>1, <1>3 DEF ScanDiscard, TypeOK
  <2>2. o = 0
    BY <2>1, OffsetProps
  <2>. QED BY <1>0, <2>2
<1>4. CASE HeaderLost \/ HeaderRefused \/ BlockLost \/ BlockRefused
  <2>1. PICK r : Return(r)
    BY <1>4 DEF HeaderLost, HeaderRefused, BlockLost, BlockRefused
  <2>2. meta' = meta /\ r = PATH_ERROR_R /\ start > 0 /\ part' = [part EXCEPT ![cur] = <<>>]
    BY <1>1, <2>1 DEF Return, ReturnOrRemove
  <2>3. cur = f
    BY <1>1, <2>2 DEF TypeOK
  <2>4. CASE BlockLost
    BY <1>1, <2>4 DEF BlockLost, Return, ReturnOrRemove, PATH_ERROR_R, DISCONNECTED_R
  <2>5. CASE BlockRefused
    BY <1>1, <2>5 DEF BlockRefused, Return, ReturnOrRemove, PATH_ERROR_R, TYPE_ERROR_R
  <2>6. CASE HeaderLost
    BY <2>2, <2>3, <2>6 DEF HeaderLost
  <2>7. CASE HeaderRefused
    <3>1. HeaderResult(Head(net)) = PATH_ERROR_R /\ net # <<>> /\ pc = "header"
      <4>1. HeaderResult(Head(net)) = PATH_ERROR_R
        BY <1>1, <2>7 DEF HeaderRefused, Return, ReturnOrRemove
      <4>. QED BY <2>7, <4>1 DEF HeaderRefused, ReceiveHeader
    <3>2. Head(net).error = PATH_ERROR_R
      BY <3>1 DEF HeaderResult, NO_ERROR_R, PATH_ERROR_R, OFFSET_ERROR_R
    <3>. QED BY <2>2, <2>3, <3>1, <3>2
  <2>. QED BY <1>4, <2>4, <2>5, <2>6, <2>7
<1>5. CASE HeaderAccepted \/ InitMeta
  <2>1. cur = f
    BY <1>1, <1>5, StartOffset DEF HeaderAccepted, Accept, InitMeta, disk, TypeOK
  <2>. QED BY <1>0, <1>5, <2>1, StartOffset
<1>6. CASE ReceiveBlock
  <2>1. /\ cur \in File /\ meta' = meta /\ meta[cur] = recvd /\ Len(part[cur]) = recvd
        /\ cur' = cur /\ pc' = "savemeta"
        /\ part' = [part EXCEPT ![cur] = WriteAt(part[cur], recvd, Data(Head(net)))]
    BY <1>6 DEF ReceiveBlock, BlockArrived, ProgressInv, Receiving
  <2>2. cur = f
    BY <1>1, <2>1 DEF TypeOK
  <2>3. Len(part'[f]) = recvd' /\ meta'[f] <= recvd' /\ recvd' \in Nat /\ recvd \in Nat
    BY <2>1, <2>2 DEF ProgressInv, Receiving, TypeOK
  <2>4. o' = recvd /\ o = recvd
    BY <2>1, <2>2, <2>3 DEF maybe_get_resume_offset
  <2>. QED BY <1>0, <2>4
<1>7. CASE SaveMeta
  <2>1. /\ cur \in File /\ meta[cur] <= recvd /\ Len(part[cur]) = recvd /\ part' = part
        /\ meta' = [meta EXCEPT ![cur] = recvd] /\ recvd \in Nat
    BY <1>7 DEF SaveMeta, ProgressInv, Receiving, TypeOK
  <2>2. cur = f
    BY <1>1, <2>1 DEF TypeOK
  <2>3. meta'[f] = recvd /\ Len(part'[f]) = recvd
    BY <2>1, <2>2 DEF TypeOK
  <2>4. o' = recvd /\ o <= recvd
    BY <2>1, <2>2, <2>3, OffsetProps DEF maybe_get_resume_offset
  <2>. QED BY <1>0, <2>1, <2>4
<1>8. CASE Rename
  <2>1. cur = f
    BY <1>1, <1>8 DEF Rename, MoveToFinal, TypeOK
  <2>. QED BY <1>8, <2>1 DEF Rename, MoveToFinal
<1>9. CASE Unlink \/ RemoveMeta
  <2>1. cur = f /\ part[cur] = <<>>
    BY <1>1, <1>9 DEF Unlink, RemoveMeta, DropMeta, ProgressInv, TypeOK
  <2>2. o = 0
    BY <2>1, OffsetProps
  <2>. QED BY <1>0, <2>2
<1>10. CASE UNCHANGED vars
  BY <1>2, <1>10 DEF vars
<1>11. CASE Start \/ ScanDone \/ Exit \/ ServerClose \/ ServerStep \/ Misread
  BY <1>2, <1>11 DEF Start, ScanDone, LeaveScan, Exit, ServerClose, ServerStep,
                     ServeRequest, SendBlock, Misread, disk
<1>14. ASSUME NEW m \in Noise, ReadNoise(m) PROVE FALSE
  BY <1>1, <1>14 DEF ReadNoise, disk
<1>12. ASSUME NEW g \in File, Get(g) \/ ScanResume(g) PROVE FALSE
  BY <1>1, <1>12 DEF Get, ScanResume, disk
<1>13. ASSUME NEW g \in File, NEW v \in Version \cup {NONE}, RemoteChange(g, v) PROVE FALSE
  BY <1>1, <1>13 DEF RemoteChange, disk
<1>. QED
  BY <1>3, <1>4, <1>5, <1>6, <1>7, <1>8, <1>9, <1>10, <1>11, <1>12, <1>13, <1>14
  DEF Next, ClientStep

\* What a `get' would resume from is lowered only by the rename of that very file,
\* by a PATH_ERROR_R that answers its RESUME, and by a connection that ends before
\* that answer, whatever the server's files become and wherever the processes die.
THEOREM ProgressSafety == Spec => ProgressKept
<1>1. DiskInv /\ DiskInv' /\ [Next]_vars =>
        [\A f \in File :
           maybe_get_resume_offset(f)' < maybe_get_resume_offset(f)
             => /\ cur = f
                /\ \/ pc = "receive" /\ recvd >= total
                   \/ /\ pc = "header" /\ start > 0
                      /\ IF net = <<>> THEN conn = "eof"
                                       ELSE Head(net).error = PATH_ERROR_R]_vars
  BY ProgressStep
<1>. QED BY <1>1, DiskInvariant, PTL DEF Spec, ProgressKept
=============================================================================

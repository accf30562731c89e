------------------------- MODULE DownloadRefinement --------------------------
(***************************************************************************)
(* The download implements ResumableCopy, for any set of files, any sizes  *)
(* and any block size, as long as the server's files stay what they are.   *)
(*                                                                         *)
(* Under the refinement mapping of Download a recorded offset is a prefix  *)
(* that is safely kept.  A SaveMeta extends it, the first unlink of a      *)
(* removal gives it up, a Rename delivers it, an Exit between the two      *)
(* unlinks of a removal makes the promise void, and every other step is a  *)
(* stutter.                                                                *)
(***************************************************************************)
EXTENDS DownloadProof

-----------------------------------------------------------------------------
(* The mapping, one file at a time. *)

LEMMA EmptyFunction ==
  ASSUME NEW S, NEW g \in [1..0 -> S]
  PROVE  g = <<>>
<1>1. g \in Seq(S) /\ Len(g) = 0
  BY FunctionIsSeq
<1>. QED BY <1>1, EmptySeq

\* What is kept of f is the head of the server's file.
LEMMA KeptIsPrefix ==
  ASSUME CleanInv, NEW f \in File
  PROVE  /\ Kept[f] = [i \in 1..maybe_get_resume_offset(f) |-> part[f][i]]
         /\ Kept[f] \in [1..maybe_get_resume_offset(f) -> Byte]
         /\ Kept[f] \in Seq(Byte) /\ Len(Kept[f]) = maybe_get_resume_offset(f)
         /\ \A i \in 1..maybe_get_resume_offset(f) : Kept[f][i] = <<remote[f], i>>
<1>. DEFINE o == maybe_get_resume_offset(f)
<1>1. part[f] \in Seq(Byte) /\ o \in 0..Len(part[f]) /\ Len(part[f]) \in Nat
  BY OffsetProps DEF CleanInv, DiskInv, TypeOK
<1>2. Kept[f] = Truncate(part[f], o)
  BY DEF Kept
<1>. HIDE DEF o
<1>3. Kept[f] = [i \in 1..o |-> part[f][i]]
  BY <1>2 DEF Truncate
<1>4. ASSUME NEW i \in 1..o PROVE part[f][i] \in Byte
  BY <1>1, ElementOfSeq
<1>5. Kept[f] \in [1..o -> Byte]
  BY <1>3, <1>4
<1>6. o \in Nat
  BY <1>1
<1>7. Kept[f] \in Seq(Byte) /\ Len(Kept[f]) = o
  BY <1>5, <1>6, FunctionIsSeq
<1>8. ASSUME NEW i \in 1..o PROVE Kept[f][i] = <<remote[f], i>>
  <2>1. i \in 1..Len(part[f]) /\ part[f] # <<>>
    BY <1>1
  <2>2. part[f][i] = <<remote[f], i>>
    BY <2>1 DEF CleanInv, DataInv
  <2>. QED BY <1>3, <2>2
<1>. QED BY <1>3, <1>5, <1>7, <1>8 DEF o

\* The server's file, as a sequence of bytes.
LEMMA OriginalProps ==
  ASSUME TypeOK, NEW f \in File
  PROVE  /\ Original[f] \in Seq(Byte)
         /\ remote[f] \in Version =>
              /\ Original[f] = Content(remote[f])
              /\ Size[remote[f]] \in Nat
              /\ Len(Original[f]) = Size[remote[f]]
              /\ \A i \in 1..Size[remote[f]] : Original[f][i] = <<remote[f], i>>
<1>1. CASE remote[f] = NONE
  <2>1. Original[f] = <<>> /\ remote[f] \notin Version
    BY <1>1, DownloadAssumption DEF Original
  <2>2. <<>> \in Seq(Byte)
    BY EmptySeq
  <2>. QED BY <2>1, <2>2
<1>2. CASE remote[f] \in Version
  <2>. DEFINE v == remote[f]
  <2>1. Original[f] = Content(v) /\ Size[v] \in Nat
    BY <1>2, DownloadAssumption DEF Original
  <2>2. Content(v) \in [1..Size[v] -> Byte]
    BY <1>2, <2>1 DEF Content, Byte
  <2>3. Content(v) \in Seq(Byte) /\ Len(Content(v)) = Size[v]
    BY <2>1, <2>2, FunctionIsSeq
  <2>4. \A i \in 1..Size[v] : Content(v)[i] = <<v, i>>
    BY DEF Content
  <2>. QED BY <2>1, <2>3, <2>4
<1>. QED BY <1>1, <1>2 DEF TypeOK

\* The same of every file, by a name, so as to have it of the next state too.
KeptInv ==
  \A f \in File :
    /\ maybe_get_resume_offset(f) \in Nat
    /\ Kept[f] \in [1..maybe_get_resume_offset(f) -> Byte]
    /\ \A i \in 1..maybe_get_resume_offset(f) : Kept[f][i] = <<remote[f], i>>

LEMMA AllKept == CleanInv => KeptInv
<1>. SUFFICES ASSUME CleanInv, NEW f \in File
              PROVE  /\ maybe_get_resume_offset(f) \in Nat
                     /\ Kept[f] \in [1..maybe_get_resume_offset(f) -> Byte]
                     /\ \A i \in 1..maybe_get_resume_offset(f) : Kept[f][i] = <<remote[f], i>>
  BY DEF KeptInv
<1>1. maybe_get_resume_offset(f) \in Nat
  BY OffsetProps DEF CleanInv, DiskInv
<1>. QED BY <1>1, KeptIsPrefix

LEMMA AllKeptNext == CleanInv' => KeptInv'
  BY AllKept, PTL

\* A file whose offset stays is kept as it was.
LEMMA KeptSame ==
  ASSUME CleanInv, CleanInv', remote' = remote, NEW f \in File,
         maybe_get_resume_offset(f)' = maybe_get_resume_offset(f)
  PROVE  Kept'[f] = Kept[f]
<1>. DEFINE n == maybe_get_resume_offset(f)
            s == Kept[f]
            t == Kept'[f]
<1>1. /\ n \in Nat /\ s \in [1..n -> Byte]
      /\ \A i \in 1..n : s[i] = <<remote[f], i>>
  BY AllKept DEF KeptInv
<1>2. /\ t \in [1..n -> Byte]
      /\ \A i \in 1..n : t[i] = <<remote[f], i>>
  BY AllKeptNext DEF KeptInv
<1>. HIDE DEF n, s, t
<1>3. s = t
  <2>1. \A i \in 1..n : s[i] = t[i]
    BY <1>1, <1>2
  <2>2. s = [i \in 1..n |-> s[i]] /\ t = [i \in 1..n |-> t[i]]
    BY <1>1, <1>2
  <2>3. [i \in 1..n |-> s[i]] = [i \in 1..n |-> t[i]]
    BY <2>1
  <2>. QED BY <2>2, <2>3
<1>. QED BY <1>3 DEF s, t

-----------------------------------------------------------------------------
(* The steps. *)

\* A step that leaves alone the offsets of all files but f changes nothing else
\* of what is kept.
LEMMA KeptExcept ==
  ASSUME CleanInv, CleanInv', remote' = remote, NEW f \in File,
         \A g \in File \ {f} : maybe_get_resume_offset(g)' = maybe_get_resume_offset(g)
  PROVE  Original' = Original /\ Kept' = [Kept EXCEPT ![f] = Kept'[f]]
<1>1. Original' = Original
  BY DEF Original
<1>2. \A g \in File \ {f} : Kept'[g] = Kept[g]
  BY KeptSame
<1>3. Kept = [g \in File |-> Kept[g]] /\ Kept' = [g \in File |-> Kept'[g]]
  BY DEF Kept
<1>4. [g \in File |-> Kept'[g]] = [g \in File |-> IF g = f THEN Kept'[f] ELSE Kept[g]]
  BY <1>2
<1>5. [Kept EXCEPT ![f] = Kept'[f]] = [g \in File |-> IF g = f THEN Kept'[f] ELSE Kept[g]]
  BY <1>3
<1>. QED BY <1>1, <1>3, <1>4, <1>5

\* A step that changes no offset, and delivers nothing, is a stutter.
LEMMA Stutter ==
  ASSUME CleanInv, CleanInv', remote' = remote, have' = have, final' = final,
         \A g \in File : maybe_get_resume_offset(g)' = maybe_get_resume_offset(g)
  PROVE  UNCHANGED <<Original, Kept, have, final>>
<1>1. Original' = Original
  BY DEF Original
<1>2. \A g \in File : Kept'[g] = Kept[g]
  BY KeptSame
<1>3. Kept = [g \in File |-> Kept[g]] /\ Kept' = [g \in File |-> Kept'[g]]
  BY DEF Kept
<1>4. [g \in File |-> Kept'[g]] = [g \in File |-> Kept[g]]
  BY <1>2
<1>. QED BY <1>1, <1>3, <1>4

\* A step after which f has no offset left, and that delivers nothing, gives up
\* what was kept of f.
LEMMA DropGivesUp ==
  ASSUME CleanInv, CleanInv', remote' = remote, have' = have, final' = final,
         NEW f \in File, maybe_get_resume_offset(f)' = 0,
         \A g \in File \ {f} : maybe_get_resume_offset(g)' = maybe_get_resume_offset(g)
  PROVE  Copy!GiveUp(f)
<1>1. Kept'[f] \in [1..0 -> Byte]
  BY AllKeptNext DEF KeptInv
<1>2. Kept'[f] = <<>>
  BY <1>1, EmptyFunction
<1>3. Original' = Original /\ Kept' = [Kept EXCEPT ![f] = Kept'[f]]
  BY KeptExcept
<1>. QED BY <1>2, <1>3 DEF Copy!GiveUp

\* A step that raises the offset of f, and delivers nothing, extends what is kept
\* of f.
LEMMA RiseExtends ==
  ASSUME CleanInv, CleanInv', remote' = remote, have' = have, final' = final,
         NEW f \in File, remote[f] \in Version,
         maybe_get_resume_offset(f) < maybe_get_resume_offset(f)',
         maybe_get_resume_offset(f)' <= Size[remote[f]],
         \A g \in File \ {f} : maybe_get_resume_offset(g)' = maybe_get_resume_offset(g)
  PROVE  Copy!Extend(f)
<1>. DEFINE m == maybe_get_resume_offset(f)
            n == maybe_get_resume_offset(f)'
            t == Kept'[f]
<1>1. /\ n \in Nat /\ t \in [1..n -> Byte]
      /\ \A i \in 1..n : t[i] = <<remote[f], i>>
  BY AllKeptNext DEF KeptInv
<1>2. m \in Nat /\ Len(Kept[f]) = m
  BY AllKept, KeptIsPrefix DEF KeptInv
<1>3. /\ Size[remote[f]] \in Nat /\ Len(Original[f]) = Size[remote[f]]
      /\ \A i \in 1..Size[remote[f]] : Original[f][i] = <<remote[f], i>>
  BY OriginalProps DEF CleanInv, DiskInv
<1>4. Original' = Original /\ Kept' = [Kept EXCEPT ![f] = t]
  BY KeptExcept
<1>5. m < n /\ n <= Size[remote[f]]
  OBVIOUS
<1>. HIDE DEF m, n, t
<1>6. t = [i \in 1..n |-> Original[f][i]]
  <2>1. \A i \in 1..n : t[i] = Original[f][i]
    BY <1>1, <1>3, <1>5
  <2>2. t = [i \in 1..n |-> t[i]]
    BY <1>1
  <2>3. [i \in 1..n |-> t[i]] = [i \in 1..n |-> Original[f][i]]
    BY <2>1
  <2>. QED BY <2>2, <2>3
<1>7. n \in Len(Kept[f])+1 .. Len(Original[f])
  BY <1>1, <1>2, <1>3, <1>5
<1>8. Kept' = [Kept EXCEPT ![f] = [i \in 1..n |-> Original[f][i]]]
  BY <1>4, <1>6
<1>. QED BY <1>4, <1>7, <1>8 DEF Copy!Extend

\* A rename delivers.
LEMMA RenameDelivers ==
  ASSUME CleanInv, CleanInv', remote' = remote, Rename
  PROVE  Copy!Deliver(cur)
<1>. DEFINE v == remote[cur]
<1>1. /\ cur \in File /\ v \in Version /\ part[cur] = Content(v)
      /\ meta[cur] = Len(part[cur]) /\ meta[cur] = Size[v]
  BY WholePart
<1>2. /\ part' = [part EXCEPT ![cur] = <<>>] /\ meta' = meta
      /\ final' = [final EXCEPT ![cur] = part[cur]] /\ have' = have \cup {cur}
  BY DEF Rename, MoveToFinal
<1>3. maybe_get_resume_offset(cur) = Size[v]
  <2>1. part[cur] \in Seq(Byte)
    BY <1>1 DEF CleanInv, DiskInv, TypeOK
  <2>. HIDE DEF v
  <2>2. meta[cur] >= 0 /\ meta[cur] <= Len(part[cur]) /\ meta[cur] = Size[v]
    <3>1. Len(part[cur]) \in Nat
      BY <2>1
    <3>2. meta[cur] = Len(part[cur]) /\ meta[cur] = Size[v]
      BY <1>1
    <3>. QED BY <3>1, <3>2
  <2>3. cur \in File /\ TypeOK
    BY <1>1 DEF CleanInv, DiskInv
  <2>4. meta[cur] >= 0 /\ meta[cur] <= Len(part[cur]) => maybe_get_resume_offset(cur) = meta[cur]
    BY <2>3, OffsetProps
  <2>. QED BY <2>2, <2>4
<1>4. Original[cur] = Content(v) /\ Content(v) = part[cur]
  BY <1>1, OriginalProps DEF CleanInv, DiskInv
<1>5. Kept[cur] = Original[cur]
  <2>1. Kept[cur] \in Seq(Byte) /\ Len(Kept[cur]) = Size[v]
        /\ \A i \in 1..Size[v] : Kept[cur][i] = <<v, i>>
    BY <1>1, <1>3, KeptIsPrefix
  <2>2. Original[cur] \in Seq(Byte) /\ Len(Original[cur]) = Size[v]
        /\ \A i \in 1..Size[v] : Original[cur][i] = <<v, i>>
    BY <1>1, OriginalProps DEF CleanInv, DiskInv
  <2>. HIDE DEF v
  <2>3. \A i \in 1..Len(Kept[cur]) : Kept[cur][i] = Original[cur][i]
    BY <2>1, <2>2
  <2>4. Len(Kept[cur]) = Len(Original[cur])
    BY <2>1, <2>2
  <2>. QED BY <2>1, <2>2, <2>3, <2>4, SeqEqual
<1>6. maybe_get_resume_offset(cur)' = 0
  <2>1. meta'[cur] = meta[cur] /\ part'[cur] = <<>>
    BY <1>1, <1>2 DEF CleanInv, DiskInv, TypeOK
  <2>2. cur' = cur /\ meta[cur] \in Nat \cup {NO_META}
    BY <1>1 DEF Rename, MoveToFinal, call, CleanInv, DiskInv, TypeOK
  <2>. QED BY <2>1, <2>2 DEF maybe_get_resume_offset, NO_META
<1>7. \A g \in File \ {cur} : maybe_get_resume_offset(g)' = maybe_get_resume_offset(g)
  <2>. SUFFICES ASSUME NEW g \in File \ {cur}
                PROVE  maybe_get_resume_offset(g)' = maybe_get_resume_offset(g)
    OBVIOUS
  <2>1. part'[g] = part[g] /\ meta'[g] = meta[g]
    BY <1>2 DEF CleanInv, DiskInv, TypeOK
  <2>. QED BY <2>1, SameOffset
<1>8. Original' = Original /\ Kept' = [Kept EXCEPT ![cur] = Kept'[cur]]
  BY <1>1, <1>7, KeptExcept
<1>9. Kept'[cur] = <<>>
  <2>1. Kept'[cur] \in [1..0 -> Byte]
    <3>1. PICK f \in File : f = cur
      BY <1>1
    <3>2. maybe_get_resume_offset(f)' = 0
      BY <1>6, <3>1 DEF Rename, MoveToFinal, call, maybe_get_resume_offset
    <3>. QED BY <3>1, <3>2, AllKeptNext DEF KeptInv
  <2>. QED BY <2>1, EmptyFunction
<1>. QED BY <1>1, <1>2, <1>4, <1>5, <1>8, <1>9 DEF Copy!Deliver

\* The error return of perform_download gives up what was kept, or nothing.
LEMMA ReturnMaps ==
  ASSUME CleanInv, CleanInv', remote' = remote, cur \in File, NEW r, Return(r)
  PROVE  Copy!GiveUp(cur) \/ UNCHANGED <<Original, Kept, have, final>>
<1>1. have' = have /\ final' = final
  BY DEF Return, ReturnOrRemove
<1>2. PICK f \in File : f = cur
  OBVIOUS
<1>3. \A g \in File \ {f} : maybe_get_resume_offset(g)' = maybe_get_resume_offset(g)
  <2>. SUFFICES ASSUME NEW g \in File \ {f}
                PROVE  maybe_get_resume_offset(g)' = maybe_get_resume_offset(g)
    OBVIOUS
  <2>1. part'[g] = part[g] /\ meta'[g] = meta[g]
    BY <1>2 DEF Return, ReturnOrRemove, CleanInv, DiskInv, TypeOK
  <2>. QED BY <2>1, SameOffset
<1>4. CASE part' = part /\ meta' = meta
  <2>1. maybe_get_resume_offset(f)' = maybe_get_resume_offset(f)
    BY <1>4, SameOffset
  <2>2. \A g \in File : maybe_get_resume_offset(g)' = maybe_get_resume_offset(g)
    BY <1>3, <2>1
  <2>. QED BY <1>1, <2>2, Stutter
<1>5. CASE part' = [part EXCEPT ![cur] = <<>>] /\ meta' = meta
  <2>1. part'[f] = <<>> /\ Len(part'[f]) = 0 /\ meta'[f] \in Nat \cup {NO_META}
    BY <1>2, <1>5 DEF CleanInv, DiskInv, TypeOK
  <2>2. maybe_get_resume_offset(f)' = 0
    BY <2>1 DEF maybe_get_resume_offset, NO_META
  <2>3. Copy!GiveUp(f)
    BY <1>1, <1>3, <2>2, DropGivesUp
  <2>. QED BY <1>2, <2>3
<1>. QED BY <1>4, <1>5 DEF Return, ReturnOrRemove

\* A recorded offset extends what is kept, unless it was recorded before.
LEMMA SaveMetaExtends ==
  ASSUME CleanInv, CleanInv', remote' = remote, SaveMeta
  PROVE  Copy!Extend(cur) \/ UNCHANGED <<Original, Kept, have, final>>
<1>1. /\ cur \in File /\ cur' = cur /\ have' = have /\ final' = final /\ part' = part
      /\ meta' = [meta EXCEPT ![cur] = recvd] /\ recvd \in Nat /\ recvd <= total
      /\ meta[cur] >= 0 /\ meta[cur] <= recvd /\ Len(part[cur]) = recvd
  BY DEF SaveMeta, call, CleanInv, DiskInv, ProgressInv, Receiving, TypeOK
<1>2. remote[cur] \in Version /\ total = Size[remote[cur]]
  BY DEF SaveMeta, CleanInv, WireInv, BlockWire, Receiving
<1>3. PICK f \in File : f = cur
  BY <1>1
<1>4. meta'[f] = recvd /\ Len(part'[f]) = recvd
  BY <1>1, <1>3 DEF CleanInv, DiskInv, TypeOK
<1>5. maybe_get_resume_offset(f)' = recvd
  BY <1>1, <1>4 DEF maybe_get_resume_offset
<1>6. maybe_get_resume_offset(f) <= recvd /\ maybe_get_resume_offset(f) \in Nat
  <2>1. /\ meta[f] \in Nat \cup {NO_META} /\ meta[f] >= 0 /\ meta[f] <= recvd
        /\ Len(part[f]) = recvd
    BY <1>1, <1>3 DEF CleanInv, DiskInv, TypeOK
  <2>. QED BY <1>1, <2>1 DEF maybe_get_resume_offset, NO_META
<1>7. \A g \in File \ {f} : maybe_get_resume_offset(g)' = maybe_get_resume_offset(g)
  <2>. SUFFICES ASSUME NEW g \in File \ {f}
                PROVE  maybe_get_resume_offset(g)' = maybe_get_resume_offset(g)
    OBVIOUS
  <2>1. part'[g] = part[g] /\ meta'[g] = meta[g]
    BY <1>1, <1>3 DEF CleanInv, DiskInv, TypeOK
  <2>. QED BY <2>1, SameOffset
<1>8. remote[f] \in Version /\ recvd <= Size[remote[f]]
  BY <1>1, <1>2, <1>3
<1>9. CASE maybe_get_resume_offset(f) < recvd
  <2>1. maybe_get_resume_offset(f) < maybe_get_resume_offset(f)'
        /\ maybe_get_resume_offset(f)' <= Size[remote[f]]
    BY <1>5, <1>8, <1>9
  <2>2. Copy!Extend(f)
    BY <1>1, <1>7, <1>8, <2>1, RiseExtends
  <2>. QED BY <1>3, <2>2
<1>10. CASE maybe_get_resume_offset(f) = recvd
  <2>1. \A g \in File : maybe_get_resume_offset(g)' = maybe_get_resume_offset(g)
    BY <1>5, <1>7, <1>10
  <2>. QED BY <1>1, <2>1, Stutter
<1>11. maybe_get_resume_offset(f) < recvd \/ maybe_get_resume_offset(f) = recvd
  BY <1>1, <1>6
<1>. QED BY <1>9, <1>10, <1>11

\* The other steps of the client that touch its disk leave the offsets alone.
LEMMA QuietStep ==
  ASSUME CleanInv, CleanInv',
         \/ \E g \in File : ScanDiscard(g)
         \/ HeaderAccepted \/ InitMeta \/ ReceiveBlock \/ Unlink \/ RemoveMeta,
         NEW f \in File
  PROVE  maybe_get_resume_offset(f)' = maybe_get_resume_offset(f)
<1>. USE DEF CleanInv, DiskInv
<1>1. CASE part'[f] = part[f] /\ meta'[f] = meta[f]
  BY <1>1, SameOffset
<1>2. ASSUME NEW g \in File, ScanDiscard(g), ~(part'[f] = part[f] /\ meta'[f] = meta[f])
      PROVE  maybe_get_resume_offset(f)' = maybe_get_resume_offset(f)
  <2>1. meta[f] = 0 /\ meta'[f] = NO_META
    BY <1>2 DEF ScanDiscard, TypeOK
  <2>. QED BY <2>1 DEF maybe_get_resume_offset, NO_META
<1>3. CASE HeaderAccepted \/ InitMeta
  <2>1. CASE f = cur
    BY <1>3, <2>1, StartOffset
  <2>2. CASE f # cur
    <3>1. part'[f] = part[f] /\ meta'[f] = meta[f]
      BY <1>3, <2>2 DEF HeaderAccepted, Accept, InitMeta, TypeOK
    <3>. QED BY <1>1, <3>1
  <2>. QED BY <2>1, <2>2
<1>4. CASE ReceiveBlock
  <2>1. /\ meta' = meta /\ meta[cur] = recvd /\ Len(part[cur]) = recvd
        /\ part' = [part EXCEPT ![cur] = part'[cur]] /\ cur \in File
        /\ recvd \in Nat /\ recvd < recvd' /\ recvd' \in Nat /\ Len(part'[cur]) = recvd'
    BY <1>4, BlockBytes DEF ReceiveBlock, BlockArrived, ProgressInv, Receiving
  <2>2. CASE f = cur
    <3>1. /\ meta[f] = recvd /\ meta'[f] = recvd
          /\ Len(part[f]) = recvd /\ Len(part'[f]) = recvd'
      BY <2>1, <2>2
    <3>. QED BY <2>1, <3>1 DEF maybe_get_resume_offset
  <2>3. CASE f # cur
    <3>1. part'[f] = part[f] /\ meta'[f] = meta[f]
      BY <2>1, <2>3 DEF TypeOK
    <3>. QED BY <1>1, <3>1
  <2>. QED BY <2>2, <2>3
<1>5. CASE Unlink \/ RemoveMeta
  <2>1. /\ cur \in File /\ part' = part /\ meta' = [meta EXCEPT ![cur] = NO_META]
        /\ part[cur] = <<>>
    BY <1>5 DEF Unlink, RemoveMeta, DropMeta, ProgressInv
  <2>2. CASE f = cur
    <3>1. meta'[f] = NO_META /\ Len(part[f]) = 0 /\ meta[f] \in Nat \cup {NO_META}
      BY <2>1, <2>2 DEF TypeOK
    <3>. QED BY <3>1 DEF maybe_get_resume_offset, NO_META
  <2>3. CASE f # cur
    <3>1. part'[f] = part[f] /\ meta'[f] = meta[f]
      BY <2>1, <2>3 DEF TypeOK
    <3>. QED BY <1>1, <3>1
  <2>. QED BY <2>2, <2>3
<1>. QED BY <1>1, <1>2, <1>3, <1>4, <1>5

-----------------------------------------------------------------------------
\* The initial states map to initial states.
LEMMA CopyInit ==
  ASSUME Init
  PROVE  Copy!Init
<1>1. CleanInv
  BY CleanInvInit
<1>2. Original \in [File -> Seq(Byte)]
  <2>1. \A f \in File : Original[f] \in Seq(Byte)
    BY <1>1, OriginalProps DEF CleanInv, DiskInv
  <2>. QED BY <2>1 DEF Original
<1>3. \A f \in File : Kept[f] = <<>>
  <2>. SUFFICES ASSUME NEW f \in File PROVE Kept[f] = <<>>
    OBVIOUS
  <2>1. maybe_get_resume_offset(f) = 0
    BY DEF Init, maybe_get_resume_offset, NO_META
  <2>2. Kept[f] \in [1..0 -> Byte]
    BY <1>1, <2>1, AllKept DEF KeptInv
  <2>. QED BY <2>2, EmptyFunction
<1>4. Kept = [f \in File |-> <<>>]
  <2>1. Kept = [f \in File |-> Kept[f]]
    BY DEF Kept
  <2>2. [f \in File |-> Kept[f]] = [f \in File |-> <<>>]
    BY <1>3
  <2>. QED BY <2>1, <2>2
<1>5. (torn # {}) = FALSE
  BY DEF Init
<1>. QED BY <1>2, <1>4, <1>5 DEF Copy!Init, Init

\* As long as no removal is interrupted, every step maps to a step or a stutter.
LEMMA CleanStep ==
  ASSUME CleanInv, CleanInv', RemoteMayChange = FALSE, [Next]_vars
  PROVE  Copy!Promised \/ UNCHANGED <<Original, Kept, have, final>>
<1>1. remote' = remote /\ (DiskStep \/ UNCHANGED disk)
  BY OtherSteps
<1>2. CASE UNCHANGED disk
  <2>1. have' = have /\ final' = final /\ part' = part /\ meta' = meta
    BY <1>2 DEF disk
  <2>2. \A g \in File : maybe_get_resume_offset(g)' = maybe_get_resume_offset(g)
    BY <2>1, SameOffset
  <2>. QED BY <1>1, <2>1, <2>2, Stutter
<1>3. CASE \/ \E g \in File : ScanDiscard(g)
           \/ HeaderAccepted \/ InitMeta \/ ReceiveBlock \/ Unlink \/ RemoveMeta
  <2>1. have' = have /\ final' = final
    BY <1>3 DEF ScanDiscard, HeaderAccepted, Accept, InitMeta, ReceiveBlock, Unlink,
                RemoveMeta, DropMeta
  <2>2. \A g \in File : maybe_get_resume_offset(g)' = maybe_get_resume_offset(g)
    BY <1>3, QuietStep
  <2>. QED BY <1>1, <2>1, <2>2, Stutter
<1>4. CASE HeaderLost \/ HeaderRefused \/ BlockLost \/ BlockRefused
  <2>1. PICK r : Return(r)
    BY <1>4 DEF HeaderLost, HeaderRefused, BlockLost, BlockRefused
  <2>2. cur \in File
    BY <1>4 DEF HeaderLost, HeaderRefused, BlockLost, BlockRefused, BlockArrived,
                ReceiveHeader, CleanInv, DiskInv, ProgressInv, Receiving
  <2>3. Copy!GiveUp(cur) \/ UNCHANGED <<Original, Kept, have, final>>
    BY <1>1, <2>1, <2>2, ReturnMaps
  <2>. QED BY <2>2, <2>3 DEF Copy!Promised
<1>5. CASE SaveMeta
  <2>1. cur \in File
    BY <1>5 DEF SaveMeta, CleanInv, DiskInv, ProgressInv, Receiving
  <2>. QED BY <1>1, <1>5, <2>1, SaveMetaExtends DEF Copy!Promised
<1>6. CASE Rename
  <2>1. cur \in File
    BY <1>6, WholePart
  <2>. QED BY <1>1, <1>6, <2>1, RenameDelivers DEF Copy!Promised
<1>. QED BY <1>1, <1>2, <1>3, <1>4, <1>5, <1>6 DEF DiskStep

LEMMA CopyNext ==
  ASSUME StableInv, StableInv', RemoteMayChange = FALSE, [Next]_vars
  PROVE  [Copy!Next]_<<Original, Kept, have, final, torn # {}>>
<1>1. CASE torn' # {}
  BY <1>1 DEF Copy!Next
<1>2. CASE torn' = {}
  <2>1. torn = {}
    BY <1>2, TornForEver
  <2>2. CleanInv /\ CleanInv'
    BY <1>2, <2>1 DEF StableInv, CleanInv
  <2>3. Copy!Promised \/ UNCHANGED <<Original, Kept, have, final>>
    BY <2>2, CleanStep
  <2>. QED BY <1>2, <2>1, <2>3 DEF Copy!Next
<1>. QED BY <1>1, <1>2

\* The resumable download implements the copy that its user expects: what a `get'
\* can resume from is always a prefix of the server's file, and what is renamed
\* into place is the whole of it, for any files, sizes and sessions, as long as
\* the process has not ended between the two unlinks of remove_partial_files.
THEOREM Refinement == RemoteMayChange = FALSE => (Spec => ImplementsCopy)
<1>. SUFFICES ASSUME RemoteMayChange = FALSE PROVE Spec => ImplementsCopy
  OBVIOUS
<1>1. Init => Copy!Init
  BY CopyInit
<1>2. StableInv /\ StableInv' /\ [Next]_vars
        => [Copy!Next]_<<Original, Kept, have, final, torn # {}>>
  BY CopyNext
<1>3. Spec => []StableInv
  BY StableInvariant
<1>. QED BY <1>1, <1>2, <1>3, PTL DEF Spec, ImplementsCopy, Copy!Spec
=============================================================================

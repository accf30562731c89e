------------------------------ MODULE StoreProof ------------------------------
(***************************************************************************)
(* Theorems about Store, for any number of workers, names and inodes, any  *)
(* contents and any CHUNK.                                                 *)
(***************************************************************************)
EXTENDS Store, SequenceTheorems, TLAPS

-----------------------------------------------------------------------------
(* The operators. *)

LEMMA WriteBlockFacts ==
  ASSUME NEW data \in Seq(Cell), NEW k \in Nat \ {0}, NEW cell \in Cell
  PROVE  /\ WriteBlock(data, k, cell) \in Seq(Cell)
         /\ Len(WriteBlock(data, k, cell)) = (IF k > Len(data) THEN k ELSE Len(data))
         /\ \A i \in 1..Len(WriteBlock(data, k, cell)) :
              \/ i = k /\ WriteBlock(data, k, cell)[i] = cell
              \/ i # k /\ i <= Len(data) /\ WriteBlock(data, k, cell)[i] = data[i]
              \/ i # k /\ i > Len(data) /\ WriteBlock(data, k, cell)[i] = HOLE
<1> DEFINE n == IF k > Len(data) THEN k ELSE Len(data)
           F(i) == IF i = k THEN cell ELSE IF i <= Len(data) THEN data[i] ELSE HOLE
<1>1. n \in Nat
  OBVIOUS
<1>2. HOLE \in Cell
  BY DEF HOLE, Cell
<1>3. \A i \in 1..n : F(i) \in Cell
  BY <1>2
<1>4. WriteBlock(data, k, cell) = [i \in 1..n |-> F(i)]
  BY DEF WriteBlock
<1> HIDE DEF n, F
<1>5. /\ [i \in 1..n |-> F(i)] \in Seq(Cell)
      /\ Len([i \in 1..n |-> F(i)]) = n
  BY <1>1, <1>3
<1>6. \A i \in 1..n : [j \in 1..n |-> F(j)][i] = F(i)
  OBVIOUS
<1> QED
  BY <1>4, <1>5, <1>6 DEF n, F

LEMMA ReadAheadFacts ==
  ASSUME NEW data \in Seq(Cell), NEW buf \in Seq(Cell), NEW k \in Nat \ {0}
  PROVE  /\ ReadAhead(data, buf, k) \in Seq(Cell)
         /\ buf # <<>> => ReadAhead(data, buf, k) = buf
         /\ buf = <<>> => \A i \in 1..Len(ReadAhead(data, buf, k)) :
              /\ k + i - 1 <= Len(data)
              /\ ReadAhead(data, buf, k)[i] = data[k + i - 1]
<1> DEFINE m == IF k + CHUNK - 1 > Len(data) THEN Len(data) ELSE k + CHUNK - 1
<1>1. m \in Nat /\ m <= Len(data)
  BY StoreAssumption
<1>2. ReadAhead(data, buf, k) = IF buf # <<>> THEN buf ELSE SubSeq(data, k, m)
  BY DEF ReadAhead
<1> HIDE DEF m
<1>3. /\ SubSeq(data, k, m) \in Seq(Cell)
      /\ \A i \in 1..Len(SubSeq(data, k, m)) :
           k + i - 1 <= Len(data) /\ SubSeq(data, k, m)[i] = data[k + i - 1]
  BY <1>1
<1> QED
  BY <1>2, <1>3

\* A block written at its own place leaves every block at its place.
LEMMA WriteInPlace ==
  ASSUME NEW data \in Seq(Cell), NEW k \in Nat \ {0}, NEW cell \in Cell, NEW M,
         InPlace(data, M), cell.at = k, cell.of \in M
  PROVE  InPlace(WriteBlock(data, k, cell), M)
<1>1. LET s == WriteBlock(data, k, cell)
      IN  /\ s \in Seq(Cell)
          /\ \A i \in 1..Len(s) :
               \/ i = k /\ s[i] = cell
               \/ i <= Len(data) /\ s[i] = data[i]
               \/ s[i] = HOLE
  BY WriteBlockFacts
<1>2. \A i \in 1..Len(data) : data[i] = HOLE \/ (data[i].at = i /\ data[i].of \in M)
  BY DEF InPlace
<1> DEFINE s == WriteBlock(data, k, cell)
<1> HIDE DEF s
<1>3. s \in Seq(Cell) /\ DOMAIN s = 1..Len(s)
  BY <1>1 DEF s
<1>4. \A i \in 1..Len(s) : s[i] = HOLE \/ (s[i].at = i /\ s[i].of \in M)
  BY <1>1, <1>2 DEF s
<1> QED
  BY <1>3, <1>4 DEF InPlace, s

LEMMA PartFacts ==
  ASSUME NEW c \in Content, NEW k \in Nat
  PROVE  /\ Part(c, k) \in Seq(Cell)
         /\ Len(Part(c, k)) = k
         /\ \A i \in 1..k : Part(c, k)[i] = [of |-> c, at |-> i]
<1>1. \A i \in 1..k : [of |-> c, at |-> i] \in Cell
  BY DEF Cell
<1> QED
  BY <1>1 DEF Part

LEMMA PartGrows ==
  ASSUME NEW c \in Content, NEW k \in Nat
  PROVE  WriteBlock(Part(c, k), k + 1, [of |-> c, at |-> k + 1]) = Part(c, k + 1)
<1>1. Len(Part(c, k)) = k /\ \A i \in 1..k : Part(c, k)[i] = [of |-> c, at |-> i]
  BY PartFacts
<1>2. WriteBlock(Part(c, k), k + 1, [of |-> c, at |-> k + 1])
        = [i \in 1..(k + 1) |-> IF i = k + 1 THEN [of |-> c, at |-> k + 1]
                                ELSE IF i <= k THEN Part(c, k)[i] ELSE HOLE]
  BY <1>1 DEF WriteBlock
<1>3. \A i \in 1..(k + 1) : (IF i = k + 1 THEN [of |-> c, at |-> k + 1]
                             ELSE IF i <= k THEN Part(c, k)[i] ELSE HOLE)
                            = [of |-> c, at |-> i]
  BY <1>1
<1> QED
  BY <1>2, <1>3 DEF Part

\* A read-ahead moves one block from what is held to what is sent.
LEMMA SendFacts ==
  ASSUME NEW got \in Seq(Cell), NEW ahead \in Seq(Cell), ahead # <<>>
  PROVE  /\ Tail(ahead) \in Seq(Cell)
         /\ Append(got, Head(ahead)) \in Seq(Cell)
         /\ Append(got, Head(ahead)) \o Tail(ahead) = got \o ahead
<1>1. Append(got, Head(ahead)) \o Tail(ahead) = got \o ahead
  <2>1. /\ Append(got, Head(ahead)) \in Seq(Cell)
        /\ Tail(ahead) \in Seq(Cell)
        /\ Len(Tail(ahead)) = Len(ahead) - 1
        /\ Len(ahead) \in Nat \ {0}
    BY HeadTailProperties, EmptySeq
  <2>2. Len(Append(got, Head(ahead)) \o Tail(ahead)) = Len(got \o ahead)
    BY <2>1, AppendProperties, ConcatProperties
  <2>3. \A i \in 1..Len(got \o ahead) :
          (Append(got, Head(ahead)) \o Tail(ahead))[i] = (got \o ahead)[i]
    BY <2>1
  <2> QED
    BY <2>1, <2>2, <2>3, SeqEqual, ConcatProperties
<1> QED
  BY <1>1, HeadTailProperties

-----------------------------------------------------------------------------
(* The types. *)

LEMMA JobShape ==
  ASSUME NEW j \in Jobs
  PROVE  /\ j = Idle \/ j.op \in {"put", "get"}
         /\ j = Idle => j.op = "accept"
         /\ j.op = "put" => j.ino \in Inode /\ j.content \in Content /\ j.pos \in Nat
         /\ j.op = "get" => /\ j.ino \in Inode /\ j.size \in Nat
                            /\ j.buf \in Seq(Cell) /\ j.got \in Seq(Cell)
BY DEF Jobs, Idle

LEMMA JobsMade ==
  /\ Idle \in Jobs
  /\ \A n \in Inode, c \in Content, k \in Nat : PutJob(n, c, k) \in Jobs
  /\ \A n \in Inode, size \in Nat, buf, got \in Seq(Cell) : GetJob(n, size, buf, got) \in Jobs
BY DEF Jobs, PutJob, GetJob

LEMMA ReleaseTyped ==
  ASSUME TypeOK, NEW cut \in SUBSET Inode, Release(cut)
  PROVE  /\ disk' \in [Inode -> Seq(Cell)]
         /\ mix' \in [Inode -> SUBSET Content]
         /\ spoiled' \subseteq Inode
<1>1. \A n \in Inode : (IF Used(n)' THEN disk[n] ELSE <<>>) \in Seq(Cell)
  BY DEF TypeOK
<1>2. \A n \in Inode : (IF Used(n)' THEN mix[n] ELSE {}) \in SUBSET Content
  BY DEF TypeOK
<1> QED
  BY <1>1, <1>2 DEF TypeOK, Release

LEMMA TypeInit == Init => TypeOK
BY JobsMade DEF Init, TypeOK

LEMMA TypeNext == TypeOK /\ [Next]_vars => TypeOK'
<1> SUFFICES ASSUME TypeOK, [Next]_vars PROVE TypeOK'
  OBVIOUS
<1> USE DEF TypeOK
<1>1. CASE UNCHANGED vars
  BY <1>1 DEF vars
<1>2. ASSUME NEW w \in Worker, PutBlock(w) PROVE TypeOK'
  <2> DEFINE j == job[w]
             cell == [of |-> j.content, at |-> j.pos + 1]
  <2>1. j.ino \in Inode /\ j.content \in Content /\ j.pos \in Nat
    BY <1>2, JobShape DEF PutBlock
  <2>2. cell \in Cell /\ WriteBlock(disk[j.ino], j.pos + 1, cell) \in Seq(Cell)
    <3>1. cell \in Cell
      BY <2>1 DEF Cell
    <3>2. disk[j.ino] \in Seq(Cell) /\ j.pos + 1 \in Nat \ {0}
      BY <2>1
    <3> HIDE DEF j, cell
    <3> QED
      BY <3>1, <3>2, WriteBlockFacts
  <2>3. PutJob(j.ino, j.content, j.pos + 1) \in Jobs
    BY <2>1, JobsMade
  <2> QED
    BY <1>2, <2>2, <2>3 DEF PutBlock
<1>3. ASSUME NEW w \in Worker, PutDone(w) PROVE TypeOK'
  BY <1>3, ReleaseTyped, JobsMade DEF PutDone
<1>4. ASSUME NEW w \in Worker, PutCut(w) PROVE TypeOK'
  <2>1. {job[w].ino} \in SUBSET Inode
    BY <1>4, JobShape DEF PutCut
  <2> QED
    BY <1>4, <2>1, ReleaseTyped, JobsMade DEF PutCut
<1>5. ASSUME NEW w \in Worker, SendBlock(w) PROVE TypeOK'
  <2> DEFINE j == job[w]
             ahead == ReadAhead(disk[j.ino], j.buf, Len(j.got) + 1)
  <2>1. j.ino \in Inode /\ j.size \in Nat /\ j.buf \in Seq(Cell) /\ j.got \in Seq(Cell)
    BY <1>5, JobShape DEF SendBlock
  <2>2. ahead \in Seq(Cell)
    <3>1. disk[j.ino] \in Seq(Cell) /\ Len(j.got) + 1 \in Nat \ {0}
      BY <2>1
    <3> QED
      BY <2>1, <3>1, ReadAheadFacts
  <2>3. Tail(ahead) \in Seq(Cell) /\ Append(j.got, Head(ahead)) \in Seq(Cell)
    BY <1>5, <2>1, <2>2, SendFacts DEF SendBlock
  <2>4. GetJob(j.ino, j.size, Tail(ahead), Append(j.got, Head(ahead))) \in Jobs
    BY <2>1, <2>3, JobsMade
  <2> QED
    BY <1>5, <2>4 DEF SendBlock
<1>6. ASSUME NEW w \in Worker, GetClose(w) PROVE TypeOK'
  BY <1>6, ReleaseTyped, JobsMade DEF GetClose
<1>7. ASSUME NEW w \in Worker, NEW p \in Path, GetOpen(w, p) PROVE TypeOK'
  <2>1. dir[p] \in Inode /\ Len(disk[dir[p]]) \in Nat /\ <<>> \in Seq(Cell)
    BY <1>7 DEF GetOpen
  <2>2. GetJob(dir[p], Len(disk[dir[p]]), <<>>, <<>>) \in Jobs
    BY <2>1, JobsMade
  <2> QED
    BY <1>7, <2>2 DEF GetOpen
<1>8. ASSUME NEW w \in Worker, NEW p \in Path, Rm(w, p) PROVE TypeOK'
  BY <1>8, ReleaseTyped DEF Rm
<1>9. ASSUME NEW w \in Worker, NEW p \in Path, NEW c \in Content, PutOpen(w, p, c)
      PROVE  TypeOK'
  <2>1. PICK n \in Target(p) : Opened(w, p, n, c) /\ disk' = [disk EXCEPT ![n] = <<>>]
    BY <1>9 DEF PutOpen
  <2>2. n \in Inode
    BY <2>1 DEF Target, Free
  <2>3. \A x \in Writers(n) : job[x].content \in Content
    BY JobShape DEF Writers, Putting
  <2>4. {job[x].content : x \in Writers(n)} \cup {c} \in SUBSET Content
    BY <2>3
  <2>5. PutJob(n, c, 0) \in Jobs
    BY <2>2, JobsMade
  <2>6. disk' \in [Inode -> Seq(Cell)]
    BY <2>1, <2>2
  <2> QED
    BY <2>1, <2>2, <2>4, <2>5, <2>6 DEF Opened
<1> QED
  BY <1>1, <1>2, <1>3, <1>4, <1>5, <1>6, <1>7, <1>8, <1>9 DEF Next

\* Names, descriptors, contents and journals keep their types: in particular an
\* inode is named or open only if it exists.
THEOREM TypeCorrect == Spec => []TypeOK
BY TypeInit, TypeNext, PTL DEF Spec

-----------------------------------------------------------------------------
(* The inductive invariant. *)

\* The blocks of a put under way are among those its file may hold.
MixInv ==
  \A w \in Worker : job[w].op = "put" => job[w].content \in mix[job[w].ino]

\* What a calm get has sent or holds is what the file holds.
CalmOf(w) ==
  /\ job[w].op = "get"
  /\ Writers(job[w].ino) = {}
  /\ Len(disk[job[w].ino]) = job[w].size
  /\ \A k \in 1..Len(job[w].got \o job[w].buf) :
       /\ k <= Len(disk[job[w].ino])
       /\ (job[w].got \o job[w].buf)[k] = disk[job[w].ino][k]
CalmInv == \A w \in calm : CalmOf(w)

StoreInv == TypeOK /\ NothingMisplaced /\ MixInv /\ UnspoiledIsWhole /\ CalmInv

\* A file is whole, or the only put it has is writing it.
Fine(n) ==
  \E c \in Content :
    \/ Writers(n) = {} /\ disk[n] = Whole(c)
    \/ \E w \in Worker :
         /\ Writers(n) = {w}
         /\ job[w].content = c
         /\ disk[n] = Part(c, job[w].pos)

LEMMA FineDef == UnspoiledIsWhole <=> \A n \in Inode : n \in spoiled \/ ~Used(n) \/ Fine(n)
BY DEF UnspoiledIsWhole, Fine, Free

\* A worker that changes from one job to another, of which neither is a put of
\* n, or both are, leaves the writers of n as they were.
LEMMA SameWriters ==
  ASSUME TypeOK, NEW w \in Worker, NEW j \in Jobs, job' = [job EXCEPT ![w] = j],
         NEW n \in Inode,
         (j.op = "put" /\ j.ino = n) <=> Putting(w, n)
  PROVE  Writers(n)' = Writers(n)
BY DEF TypeOK, Writers, Putting

\* A put that ends.
LEMMA FewerWriters ==
  ASSUME TypeOK, NEW w \in Worker, job' = [job EXCEPT ![w] = Idle], NEW n \in Inode
  PROVE  Writers(n)' = Writers(n) \ {w}
BY JobShape DEF TypeOK, Writers, Putting, Idle

\* A step that only drops a name or a descriptor keeps what is still used.
LEMMA Released ==
  ASSUME TypeOK, NEW cut \in SUBSET Inode, Release(cut), NEW n \in Inode
  PROVE  /\ Used(n)' => disk'[n] = disk[n] /\ mix'[n] = mix[n]
         /\ ~Used(n)' => disk'[n] = <<>>
         /\ Used(n)' => (n \in spoiled' <=> n \in spoiled \/ n \in cut)
BY DEF TypeOK, Release

LEMMA UsedByWorker ==
  ASSUME NEW w \in Worker, NEW n \in Inode, Putting(w, n) \/ Getting(w, n)
  PROVE  Used(n)
BY DEF Used

\* A job dropped, or a name, uses no inode that was not used before.
LEMMA UsedBefore ==
  ASSUME TypeOK, NEW n \in Inode, Used(n)',
         \/ dir' = dir /\ \E w \in Worker : job' = [job EXCEPT ![w] = Idle]
         \/ job' = job /\ \E p \in Path : dir' = [dir EXCEPT ![p] = NONE]
  PROVE  Used(n)
<1>1. CASE dir' = dir /\ \E w \in Worker : job' = [job EXCEPT ![w] = Idle]
  <2>1. PICK w \in Worker : job' = [job EXCEPT ![w] = Idle]
    BY <1>1
  <2>2. \A x \in Worker : Putting(x, n)' \/ Getting(x, n)' => Putting(x, n) \/ Getting(x, n)
    BY <2>1, JobsMade DEF TypeOK, Putting, Getting, Idle
  <2> QED
    BY <1>1, <2>2 DEF Used
<1>2. CASE job' = job /\ \E p \in Path : dir' = [dir EXCEPT ![p] = NONE]
  <2>1. \A p \in Path : dir'[p] = n => dir[p] = n
    BY <1>2, StoreAssumption DEF TypeOK
  <2> QED
    BY <1>2, <2>1 DEF Used, Putting, Getting
<1> QED
  BY <1>1, <1>2

LEMMA InvInit == Init => StoreInv
<1> SUFFICES ASSUME Init PROVE StoreInv
  OBVIOUS
<1>1. TypeOK
  BY TypeInit
<1>2. \A w \in Worker : job[w] = Idle /\ job[w].op = "accept"
  BY DEF Init, Idle
<1>3. NothingMisplaced
  <2>1. \A n \in Inode : InPlace(disk[n], mix[n])
    <3>1. \A n \in Inode : disk[n] = <<>>
      BY DEF Init
    <3> QED
      BY <3>1 DEF InPlace
  <2> QED
    BY <1>2, <2>1 DEF NothingMisplaced
<1>4. \A n \in Inode : ~Used(n)
  BY <1>2, StoreAssumption DEF Init, Used, Putting, Getting
<1> QED
  BY <1>1, <1>2, <1>3, <1>4 DEF Init, StoreInv, MixInv, UnspoiledIsWhole, CalmInv, Free

\* No block is misplaced: a put writes at its own place, a get reads where it is.
LEMMA MisplacedNext == StoreInv /\ [Next]_vars => NothingMisplaced'
<1> SUFFICES ASSUME StoreInv, [Next]_vars PROVE NothingMisplaced'
  OBVIOUS
<1>0. TypeOK /\ TypeOK' /\ NothingMisplaced /\ MixInv
  BY TypeNext DEF StoreInv
<1> DEFINE Sent(w) == job[w].op = "get" => InPlace(job[w].got \o job[w].buf, Content)
           Kept(n) == InPlace(disk[n], mix[n])
<1>a. /\ \A n \in Inode : Kept(n)
      /\ \A w \in Worker : Sent(w)
  BY <1>0 DEF NothingMisplaced
<1>b. SUFFICES (\A n \in Inode : Kept(n)') /\ (\A w \in Worker : Sent(w)')
  BY DEF NothingMisplaced
<1>c. ASSUME NEW cut \in SUBSET Inode, Release(cut) PROVE \A n \in Inode : Kept(n)'
  <2> TAKE n \in Inode
  <2>1. CASE Used(n)'
    BY <1>0, <1>a, <1>c, <2>1, Released
  <2>2. CASE ~Used(n)'
    BY <1>0, <1>c, <2>2, Released DEF InPlace
  <2> QED
    BY <2>1, <2>2
<1>d. ASSUME NEW w \in Worker, job' = [job EXCEPT ![w] = Idle] PROVE \A x \in Worker : Sent(x)'
  BY <1>0, <1>a, <1>d DEF TypeOK, Idle
<1>1. CASE UNCHANGED vars
  BY <1>1, <1>a DEF vars
<1>2. ASSUME NEW w \in Worker, PutBlock(w)
      PROVE  (\A n \in Inode : Kept(n)') /\ (\A x \in Worker : Sent(x)')
  <2> DEFINE j == job[w]
  <2>1. j.ino \in Inode /\ j.content \in Content /\ j.pos \in Nat /\ j.content \in mix[j.ino]
    BY <1>0, <1>2, JobShape DEF TypeOK, PutBlock, MixInv
  <2>2. PICK n \in Inode, k \in Nat \ {0}, cell \in Cell :
          n = j.ino /\ k = j.pos + 1 /\ cell = [of |-> j.content, at |-> j.pos + 1]
    <3>1. j.pos + 1 \in Nat \ {0} /\ [of |-> j.content, at |-> j.pos + 1] \in Cell
      BY <2>1 DEF Cell
    <3> QED
      BY <2>1, <3>1
  <2>3. disk' = [disk EXCEPT ![n] = WriteBlock(disk[n], k, cell)] /\ mix' = mix
    BY <1>2, <2>2 DEF PutBlock
  <2>4. Kept(n)'
    <3>1. disk'[n] = WriteBlock(disk[n], k, cell)
      BY <1>0, <2>3 DEF TypeOK
    <3>2. cell.at = k /\ cell.of \in mix[n]
      BY <2>1, <2>2
    <3>3. disk[n] \in Seq(Cell)
      BY <1>0 DEF TypeOK
    <3> QED
      BY <1>a, <2>3, <3>1, <3>2, <3>3, WriteInPlace
  <2>5. \A m \in Inode : m # n => disk'[m] = disk[m]
    BY <1>0, <2>3 DEF TypeOK
  <2>6. \A m \in Inode : Kept(m)'
    BY <1>a, <2>3, <2>4, <2>5
  <2>7. \A x \in Worker : Sent(x)'
    BY <1>0, <1>2, <1>a DEF TypeOK, PutBlock, PutJob
  <2> QED
    BY <2>6, <2>7
<1>3. ASSUME NEW w \in Worker, PutDone(w)
      PROVE  (\A n \in Inode : Kept(n)') /\ (\A x \in Worker : Sent(x)')
  BY <1>3, <1>c, <1>d DEF PutDone
<1>4. ASSUME NEW w \in Worker, PutCut(w)
      PROVE  (\A n \in Inode : Kept(n)') /\ (\A x \in Worker : Sent(x)')
  <2>1. {job[w].ino} \in SUBSET Inode
    BY <1>0, <1>4, JobShape DEF PutCut, TypeOK
  <2> QED
    BY <1>4, <2>1, <1>c, <1>d DEF PutCut
<1>5. ASSUME NEW w \in Worker, SendBlock(w)
      PROVE  (\A n \in Inode : Kept(n)') /\ (\A x \in Worker : Sent(x)')
  <2> DEFINE j == job[w]
             k == Len(j.got) + 1
             ahead == ReadAhead(disk[j.ino], j.buf, k)
  <2>1. /\ j.ino \in Inode /\ j.size \in Nat /\ j.buf \in Seq(Cell) /\ j.got \in Seq(Cell)
        /\ j.op = "get"
    BY <1>0, <1>5, JobShape DEF SendBlock, TypeOK
  <2>2. disk[j.ino] \in Seq(Cell) /\ k \in Nat \ {0}
    BY <1>0, <2>1 DEF TypeOK
  <2>3. ahead # <<>> /\ job' = [job EXCEPT ![w] = GetJob(j.ino, j.size, Tail(ahead), Append(j.got, Head(ahead)))]
    BY <1>5 DEF SendBlock
  <2>4. ahead \in Seq(Cell)
    BY <2>1, <2>2, ReadAheadFacts
  <2>5. job'[w].got \o job'[w].buf = j.got \o ahead
    BY <1>0, <2>1, <2>3, <2>4, SendFacts DEF TypeOK, GetJob
  <2>6. InPlace(j.got \o ahead, Content)
    <3>1. CASE j.buf # <<>>
      BY <1>a, <2>1, <2>2, <3>1, ReadAheadFacts
    <3>2. CASE j.buf = <<>>
      <4>1. \A i \in 1..Len(ahead) : Len(j.got) + i <= Len(disk[j.ino]) /\ ahead[i] = disk[j.ino][Len(j.got) + i]
        <5>1. \A i \in 1..Len(ahead) : k + i - 1 <= Len(disk[j.ino]) /\ ahead[i] = disk[j.ino][k + i - 1]
          BY <2>1, <2>2, <3>2, ReadAheadFacts
        <5> QED
          BY <2>1, <2>4, <5>1
      <4>2. j.got \o j.buf = j.got
        BY <2>1, <3>2
      <4>3. InPlace(j.got, Content)
        BY <1>a, <2>1, <4>2
      <4>4. ASSUME NEW i \in 1..Len(disk[j.ino])
            PROVE  disk[j.ino][i] = HOLE \/ (disk[j.ino][i].at = i /\ disk[j.ino][i].of \in Content)
        <5>1. InPlace(disk[j.ino], mix[j.ino]) /\ mix[j.ino] \subseteq Content
          BY <1>0, <1>a, <2>1 DEF TypeOK
        <5> QED
          BY <2>2, <5>1 DEF InPlace
      <4> HIDE DEF ahead, j
      <4>5. ASSUME NEW i \in 1..Len(j.got \o ahead)
            PROVE  LET s == j.got \o ahead
                   IN  s[i] = HOLE \/ (s[i].at = i /\ s[i].of \in Content)
        <5>1. CASE i <= Len(j.got)
          <6>1. (j.got \o ahead)[i] = j.got[i] /\ i \in DOMAIN j.got
            BY <2>1, <2>4, <5>1
          <6> QED
            BY <4>3, <6>1 DEF InPlace
        <5>2. CASE i > Len(j.got)
          <6>1. /\ (j.got \o ahead)[i] = ahead[i - Len(j.got)]
                /\ i - Len(j.got) \in 1..Len(ahead)
            BY <2>1, <2>4, <5>2
          <6>2. /\ (j.got \o ahead)[i] = disk[j.ino][i]
                /\ i \in 1..Len(disk[j.ino])
            <7>1. Len(j.got) + (i - Len(j.got)) = i
              BY <2>1
            <7>2. Len(disk[j.ino]) \in Nat /\ i \in Nat /\ i >= 1
              BY <2>2
            <7>3. i <= Len(disk[j.ino]) /\ ahead[i - Len(j.got)] = disk[j.ino][i]
              BY <4>1, <6>1, <7>1
            <7> QED
              BY <6>1, <7>2, <7>3
          <6> QED
            BY <4>4, <6>2
        <5> QED
          BY <2>1, <5>1, <5>2
      <4>6. DOMAIN (j.got \o ahead) = 1..Len(j.got \o ahead)
        BY <2>1, <2>4
      <4> QED
        BY <4>5, <4>6 DEF InPlace
    <3> QED
      BY <3>1, <3>2
  <2>7. \A x \in Worker : Sent(x)'
    BY <1>0, <1>a, <2>3, <2>5, <2>6 DEF TypeOK
  <2> QED
    BY <1>5, <1>a, <2>7 DEF SendBlock
<1>6. ASSUME NEW w \in Worker, GetClose(w)
      PROVE  (\A n \in Inode : Kept(n)') /\ (\A x \in Worker : Sent(x)')
  BY <1>6, <1>c, <1>d DEF GetClose
<1>7. ASSUME NEW w \in Worker, NEW p \in Path, GetOpen(w, p)
      PROVE  (\A n \in Inode : Kept(n)') /\ (\A x \in Worker : Sent(x)')
  <2>1. job' = [job EXCEPT ![w] = GetJob(dir[p], Len(disk[dir[p]]), <<>>, <<>>)]
    BY <1>7 DEF GetOpen
  <2>2. job'[w].got \o job'[w].buf = <<>>
    BY <1>0, <2>1 DEF TypeOK, GetJob
  <2>3. Sent(w)'
    BY <2>2 DEF InPlace
  <2>4. \A x \in Worker : x # w => job'[x] = job[x]
    BY <1>0, <2>1 DEF TypeOK
  <2> QED
    BY <1>7, <1>a, <2>3, <2>4 DEF GetOpen
<1>8. ASSUME NEW w \in Worker, NEW p \in Path, Rm(w, p)
      PROVE  (\A n \in Inode : Kept(n)') /\ (\A x \in Worker : Sent(x)')
  BY <1>8, <1>a, <1>c DEF Rm
<1>9. ASSUME NEW w \in Worker, NEW p \in Path, NEW c \in Content, PutOpen(w, p, c)
      PROVE  (\A n \in Inode : Kept(n)') /\ (\A x \in Worker : Sent(x)')
  <2>1. PICK n \in Target(p) : Opened(w, p, n, c) /\ disk' = [disk EXCEPT ![n] = <<>>]
    BY <1>9 DEF PutOpen
  <2>2. \A m \in Inode : Kept(m)'
    <3> TAKE m \in Inode
    <3>1. CASE m = n
      <4>1. disk'[m] = <<>>
        BY <1>0, <2>1, <3>1 DEF TypeOK
      <4> QED
        BY <4>1 DEF InPlace
    <3>2. CASE m # n
      <4>1. disk'[m] = disk[m] /\ mix'[m] = mix[m]
        BY <1>0, <2>1, <3>2 DEF TypeOK, Opened
      <4> QED
        BY <1>a, <4>1
    <3> QED
      BY <3>1, <3>2
  <2>3. \A x \in Worker : Sent(x)'
    BY <1>0, <1>a, <2>1 DEF TypeOK, Opened, PutJob
  <2> QED
    BY <2>2, <2>3
<1> QED
  BY <1>1, <1>2, <1>3, <1>4, <1>5, <1>6, <1>7, <1>8, <1>9 DEF Next

LEMMA MixNext == StoreInv /\ [Next]_vars => MixInv'
<1> SUFFICES ASSUME StoreInv, [Next]_vars PROVE MixInv'
  OBVIOUS
<1>0. TypeOK /\ TypeOK' /\ MixInv
  BY TypeNext DEF StoreInv
<1>a. ASSUME NEW cut \in SUBSET Inode, Release(cut),
             NEW w \in Worker, job' = job \/ job' = [job EXCEPT ![w] = Idle]
      PROVE  MixInv'
  <2>1. ASSUME NEW x \in Worker, job'[x].op = "put"
        PROVE  job'[x].content \in mix'[job'[x].ino]
    <3>1. job'[x] = job[x]
      BY <1>0, <1>a, <2>1 DEF TypeOK, Idle
    <3>2. PICK n \in Inode : n = job[x].ino
      BY <1>0, <2>1, <3>1, JobShape DEF TypeOK
    <3>3. Used(n)'
      BY <2>1, <3>1, <3>2 DEF Used, Putting
    <3>4. mix'[n] = mix[n]
      BY <1>0, <1>a, <3>3, Released
    <3> QED
      BY <1>0, <2>1, <3>1, <3>2, <3>4 DEF MixInv
  <2> QED
    BY <2>1 DEF MixInv
<1>1. CASE UNCHANGED vars
  BY <1>0, <1>1 DEF vars, MixInv
<1>2. ASSUME NEW w \in Worker, PutBlock(w) PROVE MixInv'
  BY <1>0, <1>2 DEF TypeOK, MixInv, PutBlock, PutJob
<1>3. ASSUME NEW w \in Worker, PutDone(w) PROVE MixInv'
  BY <1>3, <1>a DEF PutDone
<1>4. ASSUME NEW w \in Worker, PutCut(w) PROVE MixInv'
  <2>1. {job[w].ino} \in SUBSET Inode
    BY <1>0, <1>4, JobShape DEF PutCut, TypeOK
  <2> QED
    BY <1>4, <1>a, <2>1 DEF PutCut
<1>5. ASSUME NEW w \in Worker, SendBlock(w) PROVE MixInv'
  BY <1>0, <1>5 DEF TypeOK, MixInv, SendBlock, GetJob
<1>6. ASSUME NEW w \in Worker, GetClose(w) PROVE MixInv'
  BY <1>6, <1>a DEF GetClose
<1>7. ASSUME NEW w \in Worker, NEW p \in Path, GetOpen(w, p) PROVE MixInv'
  BY <1>0, <1>7 DEF TypeOK, MixInv, GetOpen, GetJob
<1>8. ASSUME NEW w \in Worker, NEW p \in Path, Rm(w, p) PROVE MixInv'
  BY <1>8, <1>a DEF Rm
<1>9. ASSUME NEW w \in Worker, NEW p \in Path, NEW c \in Content, PutOpen(w, p, c)
      PROVE  MixInv'
  <2>1. PICK n \in Target(p) : Opened(w, p, n, c)
    BY <1>9 DEF PutOpen
  <2>2. n \in Inode
    BY <1>0, <1>9, <2>1 DEF Target, Free, TypeOK
  <2>3. mix'[n] = {job[x].content : x \in Writers(n)} \cup {c}
    BY <1>0, <2>1, <2>2 DEF TypeOK, Opened
  <2>4. \A m \in Inode : m # n => mix'[m] = mix[m]
    BY <1>0, <2>1 DEF TypeOK, Opened
  <2>5. /\ job'[w] = PutJob(n, c, 0)
        /\ \A x \in Worker : x # w => job'[x] = job[x]
    BY <1>0, <2>1 DEF TypeOK, Opened
  <2>6. ASSUME NEW x \in Worker, job'[x].op = "put"
        PROVE  job'[x].content \in mix'[job'[x].ino]
    <3>1. CASE x = w
      BY <2>3, <2>5, <3>1 DEF PutJob
    <3>2. CASE x # w
      <4>1. job'[x] = job[x] /\ job[x].ino \in Inode /\ job[x].content \in mix[job[x].ino]
        BY <1>0, <2>5, <2>6, <3>2, JobShape DEF TypeOK, MixInv
      <4>2. CASE job[x].ino = n
        BY <2>3, <2>6, <4>1, <4>2 DEF Writers, Putting
      <4>3. CASE job[x].ino # n
        BY <2>4, <4>1, <4>3
      <4> QED
        BY <4>2, <4>3
    <3> QED
      BY <3>1, <3>2
  <2> QED
    BY <2>6 DEF MixInv
<1> QED
  BY <1>1, <1>2, <1>3, <1>4, <1>5, <1>6, <1>7, <1>8, <1>9 DEF Next

LEMMA StillFine ==
  ASSUME NEW n \in Inode, Fine(n), disk'[n] = disk[n], Writers(n)' = Writers(n),
         \A x \in Writers(n) : job'[x] = job[x]
  PROVE  Fine(n)'
BY DEF Fine

LEMMA FineAfter ==
  ASSUME TypeOK, NEW n \in Inode, Fine(n), disk'[n] = disk[n],
         NEW w \in Worker, job' = [job EXCEPT ![w] = Idle],
         Writers(n) = {w} /\ disk[n] = Part(job[w].content, job[w].pos)
           => job[w].content \in Content /\ disk[n] = Whole(job[w].content)
  PROVE  Fine(n)'
<1>1. Writers(n)' = Writers(n) \ {w}
  BY FewerWriters
<1>2. \A x \in Worker : x # w => job'[x] = job[x]
  BY DEF TypeOK
<1>3. CASE \E c \in Content : Writers(n) = {} /\ disk[n] = Whole(c)
  BY <1>1, <1>3 DEF Fine
<1>4. CASE \E c \in Content, x \in Worker :
             /\ Writers(n) = {x}
             /\ job[x].content = c
             /\ disk[n] = Part(c, job[x].pos)
  <2>1. PICK c \in Content, x \in Worker :
               /\ Writers(n) = {x}
               /\ job[x].content = c
               /\ disk[n] = Part(c, job[x].pos)
    BY <1>4
  <2>2. CASE x = w
    BY <1>1, <2>1, <2>2 DEF Fine
  <2>3. CASE x # w
    <3>1. Writers(n)' = {x} /\ job'[x] = job[x] /\ disk'[n] = Part(c, job'[x].pos)
      BY <1>1, <1>2, <2>1, <2>3
    <3> QED
      BY <2>1, <3>1 DEF Fine
  <2> QED
    BY <2>2, <2>3
<1> QED
  BY <1>3, <1>4 DEF Fine

\* What is used after a step that only opens was used before it, but for what
\* it opens.
LEMMA UsedSame ==
  ASSUME TypeOK, NEW n \in Inode, Used(n)', dir' = dir,
         NEW w \in Worker, NEW j \in Jobs, job' = [job EXCEPT ![w] = j],
         j.ino = n => Used(n)
  PROVE  Used(n)
BY DEF Used, TypeOK, Putting, Getting

LEMMA FineNext == StoreInv /\ [Next]_vars => UnspoiledIsWhole'
<1> SUFFICES ASSUME StoreInv, [Next]_vars PROVE UnspoiledIsWhole'
  OBVIOUS
<1>0. TypeOK /\ TypeOK'
  BY TypeNext DEF StoreInv
<1> DEFINE Good(n) == n \in spoiled \/ ~Used(n) \/ Fine(n)
<1>a. \A n \in Inode : Good(n)
  BY FineDef DEF StoreInv
<1>b. SUFFICES \A n \in Inode : Good(n)'
  BY DEF UnspoiledIsWhole, Fine, Free
<1>c. ASSUME NEW w \in Worker, job' = [job EXCEPT ![w] = Idle], dir' = dir,
             NEW cut \in SUBSET Inode, Release(cut),
             \A n \in Inode \ cut :
               Writers(n) = {w} /\ disk[n] = Part(job[w].content, job[w].pos)
                 => job[w].content \in Content /\ disk[n] = Whole(job[w].content)
      PROVE  \A n \in Inode : Good(n)'
  <2> SUFFICES ASSUME NEW n \in Inode, Used(n)', n \notin spoiled' PROVE Fine(n)'
    OBVIOUS
  <2>1. n \notin spoiled /\ n \notin cut /\ disk'[n] = disk[n]
    BY <1>0, <1>c, Released
  <2>2. Used(n)
    BY <1>0, <1>c, UsedBefore
  <2>3. Fine(n)
    BY <1>a, <2>1, <2>2
  <2> QED
    BY <1>0, <1>c, <2>1, <2>3, FineAfter
<1>1. CASE UNCHANGED vars
  BY <1>a, <1>1 DEF vars, Fine, Used, Writers, Putting, Getting
<1>2. ASSUME NEW w \in Worker, PutBlock(w) PROVE \A n \in Inode : Good(n)'
  <2>1. /\ job[w].op = "put" /\ job[w].ino \in Inode
        /\ job[w].content \in Content /\ job[w].pos \in Nat
    BY <1>0, <1>2, JobShape DEF PutBlock, TypeOK
  <2>2. PICK n \in Inode, c \in Content, k \in Nat :
          n = job[w].ino /\ c = job[w].content /\ k = job[w].pos
    BY <2>1
  <2>3. /\ job' = [job EXCEPT ![w] = PutJob(n, c, k + 1)]
        /\ disk' = [disk EXCEPT ![n] = WriteBlock(@, k + 1, [of |-> c, at |-> k + 1])]
        /\ dir' = dir /\ spoiled' = spoiled
    BY <1>2, <2>2 DEF PutBlock
  <2>4. PutJob(n, c, k + 1) \in Jobs
    BY JobsMade
  <2> DEFINE q == PutJob(n, c, k + 1)
  <2>5. q.op = "put" /\ q.ino = n /\ q.content = c /\ q.pos = k + 1
    BY DEF PutJob
  <2>6. job' = [job EXCEPT ![w] = q]
    BY <2>3
  <2> HIDE DEF q
  <2>7. \A m \in Inode : Writers(m)' = Writers(m)
    <3> TAKE m \in Inode
    <3>1. (q.op = "put" /\ q.ino = m) <=> Putting(w, m)
      BY <2>1, <2>2, <2>5 DEF Putting
    <3> QED
      BY <1>0, <2>4, <2>6, <3>1, SameWriters DEF q
  <2>8. \A m \in Inode : Used(m)' => Used(m)
    <3> TAKE m \in Inode
    <3>1. q.ino = m => Used(m)
      BY <2>1, <2>2, <2>5 DEF Used, Putting
    <3> QED
      BY <1>0, <2>3, <2>4, <2>6, <3>1, UsedSame DEF q
  <2>9. w \in Writers(n)
    BY <2>1, <2>2 DEF Writers, Putting
  <2>10. Fine(n) => Fine(n)'
    <3> SUFFICES ASSUME Fine(n) PROVE Fine(n)'
      OBVIOUS
    <3>1. Writers(n) = {w} /\ disk[n] = Part(c, k)
      BY <2>2, <2>9 DEF Fine
    <3>2. disk'[n] = Part(c, k + 1)
      BY <1>0, <2>3, <3>1, PartGrows DEF TypeOK
    <3>3. job'[w] = q
      BY <1>0, <2>6 DEF TypeOK
    <3> QED
      BY <2>5, <2>7, <3>1, <3>2, <3>3 DEF Fine
  <2>11. ASSUME NEW m \in Inode, m # n, Fine(m) PROVE Fine(m)'
    <3>1. disk'[m] = disk[m]
      BY <1>0, <2>3, <2>11 DEF TypeOK
    <3>2. w \notin Writers(m)
      BY <2>2, <2>11 DEF Writers, Putting
    <3>3. \A x \in Writers(m) : job'[x] = job[x]
      BY <1>0, <2>6, <3>2 DEF TypeOK, Writers
    <3> QED
      BY <2>7, <2>11, <3>1, <3>3, StillFine
  <2> QED
    BY <1>a, <2>3, <2>8, <2>10, <2>11
<1>3. ASSUME NEW w \in Worker, PutDone(w) PROVE \A n \in Inode : Good(n)'
  <2>1. job[w].content \in Content /\ job[w].pos = Blocks[job[w].content]
    BY <1>0, <1>3, JobShape DEF PutDone, TypeOK
  <2> QED
    BY <1>3, <1>c, <2>1 DEF PutDone, Whole
<1>4. ASSUME NEW w \in Worker, PutCut(w) PROVE \A n \in Inode : Good(n)'
  <2>1. {job[w].ino} \in SUBSET Inode
    BY <1>0, <1>4, JobShape DEF PutCut, TypeOK
  <2>2. \A n \in Inode \ {job[w].ino} : Writers(n) # {w}
    BY DEF Writers, Putting
  <2> QED
    BY <1>4, <1>c, <2>1, <2>2 DEF PutCut
<1>5. ASSUME NEW w \in Worker, SendBlock(w) PROVE \A n \in Inode : Good(n)'
  <2>1. PICK q : q = job'[w]
    OBVIOUS
  <2>2. /\ q \in Jobs /\ job' = [job EXCEPT ![w] = q]
        /\ q.op = "get" /\ q.ino = job[w].ino /\ job[w].op = "get"
        /\ dir' = dir /\ disk' = disk /\ spoiled' = spoiled
    BY <1>0, <1>5, <2>1 DEF SendBlock, GetJob, TypeOK
  <2> TAKE n \in Inode
  <2>3. Writers(n)' = Writers(n)
    BY <1>0, <2>2, SameWriters DEF Putting
  <2>4. Used(n)' => Used(n)
    <3>1. q.ino = n => Used(n)
      BY <2>2 DEF Used, Getting
    <3> QED
      BY <1>0, <2>2, <3>1, UsedSame
  <2>5. \A x \in Writers(n) : job'[x] = job[x]
    BY <1>0, <2>2 DEF TypeOK, Writers, Putting
  <2> QED
    BY <1>a, <2>2, <2>3, <2>4, <2>5, StillFine
<1>6. ASSUME NEW w \in Worker, GetClose(w) PROVE \A n \in Inode : Good(n)'
  <2>1. \A n \in Inode : w \notin Writers(n)
    BY <1>6 DEF GetClose, Writers, Putting
  <2> QED
    BY <1>6, <1>c, <2>1 DEF GetClose
<1>7. ASSUME NEW w \in Worker, NEW p \in Path, GetOpen(w, p) PROVE \A n \in Inode : Good(n)'
  <2>1. PICK q : q = job'[w]
    OBVIOUS
  <2>2. /\ q \in Jobs /\ job' = [job EXCEPT ![w] = q]
        /\ q.op = "get" /\ q.ino = dir[p] /\ job[w] = Idle
        /\ dir' = dir /\ disk' = disk /\ spoiled' = spoiled
    BY <1>0, <1>7, <2>1 DEF GetOpen, GetJob, TypeOK
  <2> TAKE n \in Inode
  <2>3. Writers(n)' = Writers(n)
    <3>1. (q.op = "put" /\ q.ino = n) <=> Putting(w, n)
      BY <2>2 DEF Putting, Idle
    <3> QED
      BY <1>0, <2>2, <3>1, SameWriters
  <2>4. Used(n)' => Used(n)
    <3>1. q.ino = n => Used(n)
      BY <2>2 DEF Used
    <3> QED
      BY <1>0, <2>2, <3>1, UsedSame
  <2>5. \A x \in Writers(n) : job'[x] = job[x]
    BY <1>0, <2>2 DEF TypeOK, Writers, Putting, Idle
  <2> QED
    BY <1>a, <2>2, <2>3, <2>4, <2>5, StillFine
<1>8. ASSUME NEW w \in Worker, NEW p \in Path, Rm(w, p) PROVE \A n \in Inode : Good(n)'
  <2> TAKE n \in Inode
  <2>1. Writers(n)' = Writers(n) /\ \A x \in Writers(n) : job'[x] = job[x]
    BY <1>8 DEF Rm, Writers, Putting
  <2>2. Used(n)' => Used(n) /\ disk'[n] = disk[n] /\ (n \in spoiled' <=> n \in spoiled)
    <3>1. Release({}) /\ job' = job /\ dir' = [dir EXCEPT ![p] = NONE]
      BY <1>8 DEF Rm
    <3>2. Used(n)' => disk'[n] = disk[n] /\ (n \in spoiled' <=> n \in spoiled \/ n \in {})
      BY <1>0, <3>1, Released
    <3>3. Used(n)' => Used(n)
      BY <1>0, <3>1, UsedBefore
    <3> QED
      BY <3>2, <3>3
  <2> QED
    BY <1>a, <2>1, <2>2, StillFine
<1>9. ASSUME NEW w \in Worker, NEW p \in Path, NEW c \in Content, PutOpen(w, p, c)
      PROVE  \A n \in Inode : Good(n)'
  <2>1. PICK n \in Target(p) : Opened(w, p, n, c) /\ disk' = [disk EXCEPT ![n] = <<>>]
    BY <1>9 DEF PutOpen
  <2>2. n \in Inode
    BY <1>0, <1>9, <2>1 DEF Target, Free, TypeOK
  <2>3. PICK q \in Jobs : q = PutJob(n, c, 0)
    BY <2>2, JobsMade
  <2>4. /\ q.op = "put" /\ q.ino = n /\ q.content = c /\ q.pos = 0 /\ job[w] = Idle
        /\ job' = [job EXCEPT ![w] = q]
    <3>1. job[w] = Idle /\ job' = [job EXCEPT ![w] = q]
      BY <1>9, <2>1, <2>3 DEF PutOpen, Opened
    <3> QED
      BY <2>3, <3>1 DEF PutJob
  <2>5. ~\E m \in Inode : Putting(w, m) \/ Getting(w, m)
    BY <2>4 DEF Putting, Getting, Idle
  <2>6. Good(n)'
    <3>1. CASE Writers(n) # {}
      BY <2>1, <3>1 DEF Opened
    <3>2. CASE Writers(n) = {}
      <4>1. Writers(n)' = {w}
        <5>1. job'[w] = q /\ \A x \in Worker : x # w => job'[x] = job[x]
          BY <1>0, <2>4 DEF TypeOK
        <5>2. \A x \in Worker : ~(job[x].op = "put" /\ job[x].ino = n)
          BY <3>2 DEF Writers, Putting
        <5> QED
          BY <2>4, <5>1, <5>2 DEF Writers, Putting
      <4>2. disk'[n] = Part(c, 0) /\ job'[w] = q
        BY <1>0, <2>1, <2>2, <2>4 DEF Part, TypeOK
      <4> QED
        BY <2>4, <4>1, <4>2 DEF Fine
    <3> QED
      BY <3>1, <3>2
  <2>7. ASSUME NEW m \in Inode, m # n PROVE Good(m)'
    <3>1. Writers(m)' = Writers(m)
      BY <1>0, <2>4, <2>5, <2>7, SameWriters
    <3>2. \A x \in Writers(m) : job'[x] = job[x]
      BY <1>0, <2>4, <2>5 DEF TypeOK, Writers
    <3>3. disk'[m] = disk[m] /\ (m \in spoiled' <=> m \in spoiled)
      BY <1>0, <2>1, <2>7 DEF TypeOK, Opened
    <3>4. Used(m)' => Used(m)
      BY <1>0, <2>1, <2>4, <2>7 DEF TypeOK, Opened, Used, Putting, Getting
    <3> QED
      BY <1>a, <3>1, <3>2, <3>3, <3>4, StillFine
  <2> QED
    BY <2>6, <2>7
<1> QED
  BY <1>1, <1>2, <1>3, <1>4, <1>5, <1>6, <1>7, <1>8, <1>9 DEF Next

\* A calm get whose file and writers a step leaves alone stays exact.
LEMMA StillCalm ==
  ASSUME CalmInv, NEW x \in calm, job'[x] = job[x], NEW n, n = job[x].ino,
         disk'[n] = disk[n], Writers(n)' = {}
  PROVE  CalmOf(x)'
BY DEF CalmInv, CalmOf

LEMMA CalmNext == StoreInv /\ [Next]_vars => CalmInv'
<1> SUFFICES ASSUME StoreInv, [Next]_vars PROVE CalmInv'
  OBVIOUS
<1>0. TypeOK /\ TypeOK' /\ CalmInv
  BY TypeNext DEF StoreInv
<1>a. SUFFICES \A x \in calm' : CalmOf(x)'
  BY DEF CalmInv
<1>b. \A x \in calm : /\ x \in Worker /\ job[x].op = "get" /\ job[x].ino \in Inode
                      /\ Writers(job[x].ino) = {} /\ job[x] # Idle
                      /\ Getting(x, job[x].ino)
  BY <1>0, JobShape DEF TypeOK, CalmInv, CalmOf, Getting, Idle
<1>c. ASSUME NEW w \in Worker, job' = job \/ job' = [job EXCEPT ![w] = Idle],
             w \notin calm' \/ job' = job, calm' \subseteq calm,
             NEW cut \in SUBSET Inode, Release(cut)
      PROVE  \A x \in calm' : CalmOf(x)'
  <2> TAKE x \in calm'
  <2>1. x \in calm /\ x \in Worker /\ job'[x] = job[x]
    BY <1>0, <1>b, <1>c DEF TypeOK
  <2>2. PICK n \in Inode : n = job[x].ino
    BY <1>b, <2>1
  <2>3. Used(n)'
    BY <1>b, <2>1, <2>2 DEF Used, Getting
  <2>4. disk'[n] = disk[n]
    BY <1>0, <1>c, <2>3, Released
  <2>5. Writers(n)' = {}
    <3>1. Writers(n) = {}
      BY <1>b, <2>1, <2>2
    <3>2. CASE job' = job
      BY <3>1, <3>2 DEF Writers, Putting
    <3>3. CASE job' = [job EXCEPT ![w] = Idle]
      BY <1>0, <3>1, <3>3, FewerWriters
    <3> QED
      BY <1>c, <3>2, <3>3
  <2> QED
    BY <1>0, <2>1, <2>2, <2>4, <2>5, StillCalm
<1>1. CASE UNCHANGED vars
  BY <1>0, <1>1 DEF vars, CalmInv, CalmOf, Writers, Putting
<1>2. ASSUME NEW w \in Worker, PutBlock(w) PROVE \A x \in calm' : CalmOf(x)'
  <2>1. PICK n \in Inode, q \in Jobs : n = job[w].ino /\ q = job'[w]
    BY <1>0, <1>2, JobShape DEF TypeOK, PutBlock
  <2>2. /\ calm' = calm /\ job' = [job EXCEPT ![w] = q]
        /\ q.op = "put" /\ q.ino = n /\ job[w].op = "put"
        /\ \A m \in Inode : m # n => disk'[m] = disk[m]
    BY <1>0, <1>2, <2>1 DEF TypeOK, PutBlock, PutJob
  <2>3. w \in Writers(n)
    BY <2>1, <2>2 DEF Writers, Putting
  <2> TAKE x \in calm'
  <2>4. x \in calm /\ job'[x] = job[x]
    BY <1>0, <1>b, <2>2 DEF TypeOK
  <2>5. PICK m \in Inode : m = job[x].ino
    BY <1>b, <2>4
  <2>6. Writers(m) = {} /\ m # n
    BY <1>b, <2>3, <2>4, <2>5
  <2>7. (q.op = "put" /\ q.ino = m) <=> Putting(w, m)
    BY <2>1, <2>2 DEF Putting
  <2>8. Writers(m)' = Writers(m)
    BY <1>0, <2>2, <2>7, SameWriters
  <2> QED
    BY <1>0, <2>2, <2>4, <2>5, <2>6, <2>8, StillCalm
<1>3. ASSUME NEW w \in Worker, PutDone(w) PROVE \A x \in calm' : CalmOf(x)'
  BY <1>3, <1>b, <1>c DEF PutDone
<1>4. ASSUME NEW w \in Worker, PutCut(w) PROVE \A x \in calm' : CalmOf(x)'
  <2>1. {job[w].ino} \in SUBSET Inode
    BY <1>0, <1>4, JobShape DEF PutCut, TypeOK
  <2> QED
    BY <1>4, <1>b, <1>c, <2>1 DEF PutCut
<1>5. ASSUME NEW w \in Worker, SendBlock(w) PROVE \A x \in calm' : CalmOf(x)'
  <2>1. PICK n \in Inode, q \in Jobs, got \in Seq(Cell), buf \in Seq(Cell), size \in Nat :
          /\ n = job[w].ino /\ q = job'[w] /\ size = job[w].size
          /\ got = job[w].got /\ buf = job[w].buf
    BY <1>0, <1>5, JobShape DEF TypeOK, SendBlock
  <2>2. PICK ahead : ahead = ReadAhead(disk[n], buf, Len(got) + 1)
    OBVIOUS
  <2>3. /\ ahead # <<>> /\ job[w].op = "get"
        /\ job' = [job EXCEPT ![w] = q]
        /\ q = GetJob(n, size, Tail(ahead), Append(got, Head(ahead)))
        /\ calm' = calm /\ disk' = disk
    BY <1>0, <1>5, <2>1, <2>2 DEF TypeOK, SendBlock
  <2>4. /\ q.op = "get" /\ q.ino = n /\ q.size = size
        /\ q.buf = Tail(ahead) /\ q.got = Append(got, Head(ahead))
    BY <2>3 DEF GetJob
  <2>5. \A m \in Inode : Writers(m)' = Writers(m)
    <3> TAKE m \in Inode
    <3>1. (q.op = "put" /\ q.ino = m) <=> Putting(w, m)
      BY <2>3, <2>4 DEF Putting
    <3> QED
      BY <1>0, <2>3, <3>1, SameWriters
  <2> TAKE x \in calm'
  <2>6. x \in calm /\ x \in Worker
    BY <1>b, <2>3
  <2>7. CASE x # w
    <3>1. job'[x] = job[x]
      BY <1>0, <2>3, <2>6, <2>7 DEF TypeOK
    <3>2. PICK m \in Inode : m = job[x].ino
      BY <1>b, <2>6
    <3>3. Writers(m)' = {}
      BY <1>b, <2>5, <2>6, <3>2
    <3> QED
      BY <1>0, <2>3, <2>6, <3>1, <3>2, <3>3, StillCalm
  <2>8. CASE x = w
    <3>1. /\ Writers(n) = {} /\ Len(disk[n]) = size
          /\ \A k \in 1..Len(got \o buf) : k <= Len(disk[n]) /\ (got \o buf)[k] = disk[n][k]
      BY <1>0, <2>1, <2>6, <2>8 DEF CalmInv, CalmOf
    <3>2. disk[n] \in Seq(Cell) /\ Len(got) + 1 \in Nat \ {0} /\ Len(got) \in Nat
      BY <1>0, <2>1 DEF TypeOK
    <3>3. /\ ahead \in Seq(Cell)
          /\ buf # <<>> => ahead = buf
          /\ buf = <<>> => \A i \in 1..Len(ahead) :
                             /\ (Len(got) + 1) + i - 1 <= Len(disk[n])
                             /\ ahead[i] = disk[n][(Len(got) + 1) + i - 1]
      BY <2>2, <3>2, ReadAheadFacts
    <3>4. \A k \in 1..Len(got \o ahead) : k <= Len(disk[n]) /\ (got \o ahead)[k] = disk[n][k]
      <4>1. CASE buf # <<>>
        BY <3>1, <3>3, <4>1
      <4>2. CASE buf = <<>>
        <5>1. got \o buf = got
          BY <4>2
        <5> TAKE k \in 1..Len(got \o ahead)
        <5>2. CASE k <= Len(got)
          <6>1. (got \o ahead)[k] = got[k] /\ k \in 1..Len(got)
            BY <3>3, <5>2
          <6> QED
            BY <3>1, <5>1, <6>1
        <5>3. CASE k > Len(got)
          <6>1. PICK i \in 1..Len(ahead) : k = Len(got) + i /\ (got \o ahead)[k] = ahead[i]
            BY <3>2, <3>3, <5>3
          <6>2. /\ (Len(got) + 1) + i - 1 <= Len(disk[n])
                /\ ahead[i] = disk[n][(Len(got) + 1) + i - 1]
            BY <3>3, <4>2
          <6>3. (Len(got) + 1) + i - 1 = k
            BY <3>2, <6>1
          <6> QED
            BY <6>1, <6>2, <6>3
        <5> QED
          BY <3>2, <5>2, <5>3
      <4> QED
        BY <4>1, <4>2
    <3>5. q.got \o q.buf = got \o ahead
      <4>1. Append(got, Head(ahead)) \o Tail(ahead) = got \o ahead
        BY <2>3, <3>3, SendFacts
      <4> QED
        BY <2>4, <4>1
    <3>6. job'[w] = q /\ Writers(n)' = {}
      BY <1>0, <2>3, <2>5, <3>1 DEF TypeOK
    <3> QED
      BY <2>3, <2>4, <2>8, <3>1, <3>4, <3>5, <3>6 DEF CalmOf
  <2> QED
    BY <2>7, <2>8
<1>6. ASSUME NEW w \in Worker, GetClose(w) PROVE \A x \in calm' : CalmOf(x)'
  BY <1>6, <1>c DEF GetClose
<1>7. ASSUME NEW w \in Worker, NEW p \in Path, GetOpen(w, p)
      PROVE  \A x \in calm' : CalmOf(x)'
  <2>1. PICK n \in Inode, q \in Jobs : n = dir[p] /\ q = job'[w]
    BY <1>0, <1>7, StoreAssumption DEF TypeOK, GetOpen
  <2>2. /\ job' = [job EXCEPT ![w] = q] /\ job[w] = Idle
        /\ q = GetJob(n, Len(disk[n]), <<>>, <<>>)
        /\ calm' = (IF Writers(n) = {} THEN calm \cup {w} ELSE calm) /\ disk' = disk
    BY <1>0, <1>7, <2>1 DEF TypeOK, GetOpen
  <2>3. /\ q.op = "get" /\ q.ino = n /\ q.size = Len(disk[n]) /\ q.buf = <<>> /\ q.got = <<>>
        /\ job[w].op = "accept"
    BY <2>2 DEF GetJob, Idle
  <2>4. \A m \in Inode : Writers(m)' = Writers(m)
    <3> TAKE m \in Inode
    <3>1. (q.op = "put" /\ q.ino = m) <=> Putting(w, m)
      BY <2>3 DEF Putting
    <3> QED
      BY <1>0, <2>2, <3>1, SameWriters
  <2> TAKE x \in calm'
  <2>5. CASE x # w
    <3>1. x \in calm
      BY <2>2, <2>5
    <3>2. job'[x] = job[x]
      BY <1>0, <1>b, <2>2, <2>5, <3>1 DEF TypeOK
    <3>3. PICK m \in Inode : m = job[x].ino
      BY <1>b, <3>1
    <3>4. Writers(m)' = {}
      BY <1>b, <2>4, <3>1, <3>3
    <3> QED
      BY <1>0, <2>2, <3>1, <3>2, <3>3, <3>4, StillCalm
  <2>6. CASE x = w
    <3>1. Writers(n)' = {}
      BY <1>b, <2>2, <2>3, <2>4, <2>6
    <3>2. q.got \o q.buf = <<>> /\ job'[w] = q
      BY <1>0, <2>2, <2>3 DEF TypeOK
    <3>3. ~\E k \in 1..Len(q.got \o q.buf) : TRUE
      BY <3>2
    <3>4. disk'[n] = disk[n]
      BY <2>2
    <3> QED
      BY <2>3, <2>6, <3>1, <3>2, <3>3, <3>4 DEF CalmOf
  <2> QED
    BY <2>5, <2>6
<1>8. ASSUME NEW w \in Worker, NEW p \in Path, Rm(w, p) PROVE \A x \in calm' : CalmOf(x)'
  BY <1>8, <1>c DEF Rm
<1>9. ASSUME NEW w \in Worker, NEW p \in Path, NEW c \in Content, PutOpen(w, p, c)
      PROVE  \A x \in calm' : CalmOf(x)'
  <2>1. PICK n \in Target(p) : Opened(w, p, n, c) /\ disk' = [disk EXCEPT ![n] = <<>>]
    BY <1>9 DEF PutOpen
  <2>2. n \in Inode
    BY <1>0, <1>9, <2>1 DEF Target, Free, TypeOK
  <2>3. PICK q \in Jobs : q = PutJob(n, c, 0)
    BY <2>2, JobsMade
  <2>4. job[w] = Idle /\ job' = [job EXCEPT ![w] = q] /\ calm' = {x \in calm : ~Getting(x, n)}
    BY <1>9, <2>1, <2>3 DEF PutOpen, Opened
  <2>5. q.op = "put" /\ q.ino = n /\ job[w].op = "accept"
    BY <2>3, <2>4 DEF PutJob, Idle
  <2> TAKE x \in calm'
  <2>6. x \in calm /\ x # w /\ job'[x] = job[x]
    BY <1>0, <1>b, <2>4 DEF TypeOK
  <2>7. PICK m \in Inode : m = job[x].ino
    BY <1>b, <2>6
  <2>8. m # n /\ Writers(m) = {}
    BY <1>b, <2>4, <2>6, <2>7
  <2>9. disk'[m] = disk[m]
    BY <1>0, <2>1, <2>8 DEF TypeOK
  <2>10. (q.op = "put" /\ q.ino = m) <=> Putting(w, m)
    BY <2>5, <2>8 DEF Putting
  <2>11. Writers(m)' = {}
    BY <1>0, <2>4, <2>8, <2>10, SameWriters
  <2> QED
    BY <1>0, <2>6, <2>7, <2>9, <2>11, StillCalm
<1> QED
  BY <1>1, <1>2, <1>3, <1>4, <1>5, <1>6, <1>7, <1>8, <1>9 DEF Next

LEMMA Inductive == Spec => []StoreInv
<1>1. StoreInv /\ [Next]_vars => StoreInv'
  BY TypeNext, MisplacedNext, MixNext, FineNext, CalmNext DEF StoreInv
<1> QED
  BY <1>1, InvInit, PTL DEF Spec

\* No block is ever stored or sent out of its place, nor one that was there before
\* the put that last opened the file (open_file_w, receive_file_by_blocks_to_path).
THEOREM NothingIsMisplaced == Spec => []NothingMisplaced
<1>1. StoreInv => NothingMisplaced
  BY DEF StoreInv
<1> QED
  BY <1>1, Inductive, PTL

\* What a put stores is there, whole, until another put or an rm of that file,
\* whatever the other workers do meanwhile (receive_file_by_blocks_to_path).
THEOREM UnspoiledStaysWhole == Spec => []UnspoiledIsWhole
<1>1. StoreInv => UnspoiledIsWhole
  BY DEF StoreInv
<1> QED
  BY <1>1, Inductive, PTL

\* A get that no put disturbs sends the file, read ahead or not
\* (send_file_by_blocks_with_filesize, rio_read).
THEOREM CalmGetExact == Spec => []CalmGetIsExact
<1>1. StoreInv => CalmGetIsExact
  <2> SUFFICES ASSUME StoreInv, NEW w \in calm
               PROVE  /\ job[w].op = "get"
                      /\ Writers(job[w].ino) = {}
                      /\ Len(disk[job[w].ino]) = job[w].size
                      /\ \A k \in 1..Len(job[w].got) : job[w].got[k] = disk[job[w].ino][k]
    BY DEF CalmGetIsExact
  <2>1. CalmOf(w) /\ w \in Worker
    BY DEF StoreInv, CalmInv, TypeOK
  <2>2. job[w].got \in Seq(Cell) /\ job[w].buf \in Seq(Cell)
    BY <2>1, JobShape DEF StoreInv, TypeOK, CalmOf
  <2>3. \A k \in 1..Len(job[w].got) : /\ k \in 1..Len(job[w].got \o job[w].buf)
                                      /\ (job[w].got \o job[w].buf)[k] = job[w].got[k]
    <3>1. PICK got \in Seq(Cell), buf \in Seq(Cell) : got = job[w].got /\ buf = job[w].buf
      BY <2>2
    <3>2. \A k \in 1..Len(got) : k \in 1..Len(got \o buf) /\ (got \o buf)[k] = got[k]
      OBVIOUS
    <3> QED
      BY <3>1, <3>2
  <2> QED
    BY <2>1, <2>3 DEF CalmOf
<1> QED
  BY <1>1, Inductive, PTL
===============================================================================

---------------------------- MODULE CoherenceProof ----------------------------
(***************************************************************************)
(* A replay delivers in order, slaves converge, and a replay waits only    *)
(* for what may come (Coherence), for any slaves, pools, journals and      *)
(* contents; whichever workers die, but for the second.                    *)
(*                                                                         *)
(* The argument goes in seven layers, each of which rests on those before: *)
(* the types and places of the workers; who has which connection; what is  *)
(* on its way on it, that may be the block of a file that was refused; who *)
(* may still change a file; what that file is, where it was not refused;   *)
(* if no worker is lost, who listens to whom; and which slaves have the    *)
(* file.  What a replay waits for needs the first three, and Heard.        *)
(***************************************************************************)
EXTENDS Coherence, SequenceTheorems, WellFoundedInduction, TLAPS

-----------------------------------------------------------------------------
(* The list of the master, by induction on the lines read. *)

LEMMA SetInduction ==
  ASSUME NEW S \in SUBSET Nat, 0 \in S, \A n \in Nat : n \in S => n + 1 \in S
  PROVE  \A n \in Nat : n \in S
<1>1. SUFFICES ASSUME Nat \ S # {} PROVE FALSE
  OBVIOUS
<1>2. PICK n \in Nat \ S : \A m \in Nat \ S : ~ (<<m, n>> \in OpToRel(<, Nat))
  BY <1>1, WFMin, NatLessThanWellFounded, Zenon
<1>3. n # 0
  OBVIOUS
<1>4. n - 1 \in Nat /\ (n - 1) + 1 = n
  BY <1>3
<1>5. n - 1 \notin S
  BY <1>4
<1>6. n - 1 < n
  BY <1>4
<1>7. <<n - 1, n>> \in OpToRel(<, Nat)
  BY <1>4, <1>6, Zenon DEF OpToRel
<1> QED
  BY <1>2, <1>4, <1>5, <1>7, Zenon

LEMMA UpTo ==
  ASSUME NEW m \in Nat, NEW S, 0 \in S, \A n \in 0..(m - 1) : n \in S => n + 1 \in S
  PROVE  \A n \in 0..m : n \in S
<1> DEFINE T == {n \in Nat : n <= m => n \in S}
<1>1. 0 \in T
  OBVIOUS
<1>2. \A n \in Nat : n \in T => n + 1 \in T
  OBVIOUS
<1>3. \A n \in Nat : n \in T
  <2> HIDE DEF T
  <2> T \in SUBSET Nat
    BY DEF T
  <2> QED
    BY <1>1, <1>2, SetInduction
<1> QED
  BY <1>3

LEMMA ListedDef ==
  ASSUME NEW s \in Slave
  PROVE  Listed(s) = [k \in 0..Len(Config) |->
           IF k = 0 THEN <<>>
           ELSE IF Config[k] \in {BLANK, Ip[s]} THEN Listed(s)[k - 1]
           ELSE Append(Listed(s)[k - 1], Host[Config[k]])]
<1> DEFINE Def(f, n) == f = [k \in 0..n |->
             IF k = 0 THEN <<>>
             ELSE IF Config[k] \in {BLANK, Ip[s]} THEN f[k - 1]
             ELSE Append(f[k - 1], Host[Config[k]])]
           S == {n \in Nat : \E f : Def(f, n)}
<1>1. 0 \in S
  <2> DEFINE f == [k \in 0..0 |-> <<>>]
  <2>1. Def(f, 0)
    OBVIOUS
  <2> QED
    BY <2>1
<1>2. ASSUME NEW n \in 0..(Len(Config) - 1), n \in S PROVE n + 1 \in S
  <2>1. PICK f : Def(f, n)
    BY <1>2
  <2> DEFINE next == IF Config[n + 1] \in {BLANK, Ip[s]} THEN f[n] ELSE Append(f[n], Host[Config[n + 1]])
             g == [k \in 0..(n + 1) |-> IF k = n + 1 THEN next ELSE f[k]]
  <2>2. ASSUME NEW k \in 0..(n + 1)
        PROVE  g[k] = IF k = 0 THEN <<>>
                      ELSE IF Config[k] \in {BLANK, Ip[s]} THEN g[k - 1]
                      ELSE Append(g[k - 1], Host[Config[k]])
    <3>1. CASE k = n + 1
      <4>1. g[k] = next /\ g[k - 1] = f[n] /\ k # 0
        BY <3>1, CoherenceAssumption
      <4> QED
        BY <3>1, <4>1
    <3>2. CASE k \in 1..n
      <4>1. g[k] = f[k] /\ g[k - 1] = f[k - 1] /\ k # 0 /\ k \in 0..n
        BY <3>2
      <4>2. f[k] = IF Config[k] \in {BLANK, Ip[s]} THEN f[k - 1] ELSE Append(f[k - 1], Host[Config[k]])
        BY <2>1, <4>1
      <4> HIDE DEF g, next
      <4> QED
        BY <4>1, <4>2
    <3>3. CASE k = 0
      BY <2>1, <3>3
    <3> QED
      BY <3>1, <3>2, <3>3
  <2>3. Def(g, n + 1)
    BY <2>2
  <2> HIDE DEF Def, g
  <2>4. \E h : Def(h, n + 1)
    BY <2>3
  <2> QED
    BY <2>4
<1>3. \A n \in 0..Len(Config) : n \in S
  <2> HIDE DEF S
  <2> QED
    BY <1>1, <1>2, UpTo, CoherenceAssumption
<1>4. \E f : Def(f, Len(Config))
  <2>1. Len(Config) \in 0..Len(Config)
    BY CoherenceAssumption
  <2> HIDE DEF Def
  <2> QED
    BY <1>3, <2>1
<1>5. Listed(s) = CHOOSE f : Def(f, Len(Config))
  BY DEF Listed
<1> HIDE DEF Def
<1>6. Def(Listed(s), Len(Config))
  BY <1>4, <1>5
<1> QED
  BY <1>6 DEF Def

LEMMA PeersType ==
  ASSUME NEW s \in Slave
  PROVE  Peers(s) \in Seq(Slave)
<1> DEFINE S == {k \in Nat : Listed(s)[k] \in Seq(Slave)}
<1>0. Len(Config) \in Nat
  BY CoherenceAssumption
<1> DEFINE Line(k) == IF k = 0 THEN <<>>
                    ELSE IF Config[k] \in {BLANK, Ip[s]} THEN Listed(s)[k - 1]
                    ELSE Append(Listed(s)[k - 1], Host[Config[k]])
<1>4. Listed(s) = [k \in 0..Len(Config) |-> Line(k)]
  BY ListedDef
<1>5. \A k \in 0..Len(Config) : Listed(s)[k] = Line(k)
  <2> HIDE DEF Line
  <2> QED
    BY <1>4
<1>1. 0 \in S
  <2>1. Listed(s)[0] = <<>>
    BY <1>0, <1>5
  <2>2. Listed(s)[0] \in Seq(Slave)
    BY <2>1
  <2> QED
    BY <2>2
<1>2. ASSUME NEW k \in 0..(Len(Config) - 1), k \in S PROVE k + 1 \in S
  <2>1. k + 1 \in 1..Len(Config) /\ k + 1 \in 0..Len(Config) /\ k + 1 # 0 /\ (k + 1) - 1 = k
    BY <1>0
  <2>2. Listed(s)[k + 1] = IF Config[k + 1] \in {BLANK, Ip[s]} THEN Listed(s)[k]
                           ELSE Append(Listed(s)[k], Host[Config[k + 1]])
    BY <2>1, <1>5
  <2>3. Listed(s)[k] \in Seq(Slave)
    BY <1>2
  <2>4. Config[k + 1] # BLANK => Host[Config[k + 1]] \in Slave
    BY <2>1, CoherenceAssumption
  <2>5. Listed(s)[k + 1] \in Seq(Slave)
    BY <2>2, <2>3, <2>4
  <2> QED
    BY <2>1, <2>5
<1>3. \A k \in 0..Len(Config) : k \in S
  <2> HIDE DEF S
  <2> QED
    BY <1>0, <1>1, <1>2, UpTo
<1> QED
  BY <1>0, <1>3 DEF Peers

-----------------------------------------------------------------------------
(* The first layer: types, and what a worker has where. *)

Calling(a) == job[a].at \in {"entry", "ack", "open", "block", "stored", "bye"}

IsJob(j) == j = [at |-> j.at, log |-> j.log, k |-> j.k, peers |-> j.peers, conn |-> j.conn,
                 path |-> j.path, open |-> j.open, held |-> j.held]

Place == {"accept", "session", "receive", "list", "peer", "entry", "ack", "open", "block",
          "stored", "bye", "serve", "header", "storing", "dead", "astray"}

\* The job j of a worker whose slave has the files d.
Fits(j, d) ==
  /\ IsJob(j)
  /\ j.at \in Place
  /\ j.log \in Seq(Entry) /\ j.k \in 1..(Len(j.log) + 1) /\ j.peers \in Seq(Slave)
  /\ j.conn \in Conn \cup {NONE} /\ j.path \in Path \cup {NONE} /\ j.held \in File
  /\ j.open \in BOOLEAN
  /\ j.conn # NONE <=>
       j.at \in {"entry", "ack", "open", "block", "stored", "bye", "serve", "header", "storing"}
  /\ j.at \in {"accept", "dead", "astray", "serve", "header", "storing"} => j.log = <<>>
  /\ j.at \in {"entry", "ack", "open", "block", "stored", "bye"} => j.peers # <<>>
  /\ j.at \in {"receive", "ack", "open", "block", "stored"} => j.k <= Len(j.log)
  /\ j.at \in {"receive", "open", "block", "stored"} => j.log[j.k].type = "PUT"
  /\ j.at \in {"receive", "block"} => j.path = j.log[j.k].path
  /\ j.at \in {"header", "storing"} => j.path \in Path
  /\ j.open <=> j.at \in {"receive", "block", "storing"}
  /\ ~j.open => j.held = NONE
  /\ j.open /\ j.held = NONE => d[j.path] # NONE

JobInv(a) == Fits(job[a], disk[SlaveOf(a)])

DiskOK  == disk \in [Slave -> [Path -> File]]
LinkOK  == link \in [Conn -> [out : Seq(Message), back : Seq({"ready", "done"}),
                              ends : SUBSET {"replayer", "server"}]]
QueueOK == queue \in [Slave -> Seq(Conn)]
CountOK == /\ sessions \in 0..MaxSessions /\ killed \in 0..MaxDeaths
           /\ changed \in [Path -> 0..MaxSessions] /\ \A p \in Path : changed[p] <= sessions
           /\ refused \subseteq Slave \X Path

TypeInv ==
  /\ DiskOK /\ LinkOK /\ QueueOK /\ CountOK
  /\ job = [a \in Pool |-> job[a]]
  /\ \A a \in Pool : JobInv(a)

LEMMA EntryType ==
  ASSUME NEW L \in Seq(Entry), NEW k \in 1..Len(L)
  PROVE  L[k] \in Entry /\ L[k].path \in Path /\ L[k].type \in {"RM", "PUT"}
<1>1. L[k] \in Entry
  OBVIOUS
<1> QED
  BY <1>1 DEF Entry

LEMMA TypeInvOK ==
  ASSUME TypeInv
  PROVE  TypeOK
<1>1. ASSUME NEW a \in Pool
      PROVE  /\ job[a].log \in Seq(Entry)
             /\ job[a].k \in 1..(Len(job[a].log) + 1)
             /\ job[a].peers \in Seq(Slave)
             /\ job[a].conn \in Conn \cup {NONE}
             /\ job[a].path \in Path \cup {NONE}
             /\ job[a].open => job[a].path \in Path
             /\ job[a].held \in File
  <2>1. Fits(job[a], disk[SlaveOf(a)])
    BY DEF TypeInv, JobInv
  <2>2. job[a].at \in {"receive", "block"} => job[a].path \in Path
    <3>1. job[a].at \in {"receive", "block"} => job[a].k \in 1..Len(job[a].log)
      BY <2>1 DEF Fits
    <3> QED
      BY <2>1, <3>1, EntryType DEF Fits
  <2> QED
    BY <2>1, <2>2 DEF Fits
<1> QED
  BY <1>1 DEF TypeInv, TypeOK, DiskOK, LinkOK, QueueOK, CountOK

LEMMA SlaveType ==
  ASSUME NEW a \in Pool
  PROVE  SlaveOf(a) \in Slave
BY CoherenceAssumption DEF SlaveOf

\* What a worker does next.
LEMMA BecomesIs ==
  ASSUME TypeInv, NEW a \in Pool, NEW j, Becomes(a, j)
  PROVE  /\ job' = [b \in Pool |-> job'[b]]
         /\ job'[a] = j
         /\ \A b \in Pool \ {a} : job'[b] = job[b]
BY DEF Becomes, TypeInv

\* The others fit as before, if no file has gone.
LEMMA OthersFit ==
  ASSUME TypeInv, NEW a \in Pool, \A b \in Pool \ {a} : job'[b] = job[b],
         \A s \in Slave, p \in Path : disk'[s][p] = NONE => disk[s][p] = NONE
  PROVE  \A b \in Pool \ {a} : JobInv(b)'
<1> SUFFICES ASSUME NEW b \in Pool \ {a} PROVE JobInv(b)'
  OBVIOUS
<1>1. Fits(job[b], disk[SlaveOf(b)]) /\ job'[b] = job[b] /\ SlaveOf(b) \in Slave
  BY SlaveType DEF TypeInv, JobInv
<1>2. job[b].open => job[b].path \in Path
  BY TypeInvOK DEF TypeOK
<1> QED
  BY <1>1, <1>2 DEF JobInv, Fits, SlaveOf

LEMMA TypeStep ==
  ASSUME TypeInv, NEW a \in Pool, NEW j, Becomes(a, j), Fits(j, disk'[SlaveOf(a)]),
         DiskOK', LinkOK', QueueOK', CountOK',
         \A s \in Slave, p \in Path : disk'[s][p] = NONE => disk[s][p] = NONE
  PROVE  TypeInv'
<1>1. /\ job' = [b \in Pool |-> job'[b]] /\ job'[a] = j
      /\ \A b \in Pool \ {a} : job'[b] = job[b]
  BY BecomesIs
<1>2. \A b \in Pool \ {a} : JobInv(b)'
  BY <1>1, OthersFit
<1>3. JobInv(a)'
  BY <1>1 DEF JobInv, SlaveOf
<1> QED
  BY <1>1, <1>2, <1>3 DEF TypeInv

\* A worker that removes a file does to those that have it open what unlink does.
LEMMA RemoveIs ==
  ASSUME TypeInv, NEW a \in Pool, NEW p \in Path, NEW j, Remove(a, p, j)
  PROVE  /\ disk' = [disk EXCEPT ![SlaveOf(a)][p] = NONE]
         /\ job' = [b \in Pool |-> job'[b]]
         /\ job'[a] = j
         /\ \A b \in Pool \ {a} :
              IF SlaveOf(b) = SlaveOf(a) /\ job[b].open /\ job[b].path = p /\ job[b].held = NONE
              THEN job'[b] = [job[b] EXCEPT !.held = disk[SlaveOf(a)][p]]
              ELSE job'[b] = job[b]
BY DEF Remove

LEMMA RemoveFits ==
  ASSUME TypeInv, NEW a \in Pool, NEW p \in Path, NEW j, Remove(a, p, j)
  PROVE  \A b \in Pool \ {a} : JobInv(b)'
<1> SUFFICES ASSUME NEW b \in Pool \ {a} PROVE JobInv(b)'
  OBVIOUS
<1>1. /\ Fits(job[b], disk[SlaveOf(b)]) /\ SlaveOf(b) \in Slave /\ SlaveOf(a) \in Slave
      /\ disk \in [Slave -> [Path -> File]]
  BY SlaveType DEF TypeInv, JobInv, DiskOK
<1>2. job[b].open => job[b].path \in Path
  BY TypeInvOK DEF TypeOK
<1>3. CASE SlaveOf(b) = SlaveOf(a) /\ job[b].open /\ job[b].path = p /\ job[b].held = NONE
  <2> DEFINE v == disk[SlaveOf(a)][p]
  <2>1. job'[b] = [job[b] EXCEPT !.held = v]
    BY <1>3, RemoveIs
  <2>2. v \in File /\ v # NONE
    BY <1>1, <1>3 DEF Fits
  <2> HIDE DEF v
  <2>3. job'[b] = [at |-> job[b].at, log |-> job[b].log, k |-> job[b].k, peers |-> job[b].peers,
                   conn |-> job[b].conn, path |-> job[b].path, open |-> job[b].open, held |-> v]
    BY <1>1, <2>1 DEF Fits, IsJob
  <2> QED
    BY <1>1, <1>3, <2>2, <2>3 DEF JobInv, Fits, IsJob, SlaveOf
<1>4. CASE ~(SlaveOf(b) = SlaveOf(a) /\ job[b].open /\ job[b].path = p /\ job[b].held = NONE)
  <2>1. job'[b] = job[b]
    BY <1>4, RemoveIs
  <2>2. disk'[SlaveOf(b)] = IF SlaveOf(b) = SlaveOf(a) THEN [disk[SlaveOf(b)] EXCEPT ![p] = NONE]
                            ELSE disk[SlaveOf(b)]
    BY <1>1, RemoveIs
  <2>3. job[b].open /\ job[b].held = NONE => disk'[SlaveOf(b)][job[b].path] # NONE
    BY <1>1, <1>2, <1>4, <2>2 DEF Fits
  <2> QED
    BY <1>1, <2>1, <2>3 DEF JobInv, Fits, SlaveOf
<1> QED
  BY <1>3, <1>4

LEMMA RemoveType ==
  ASSUME TypeInv, NEW a \in Pool, NEW p \in Path, NEW j, Remove(a, p, j), Fits(j, disk'[SlaveOf(a)]),
         LinkOK', QueueOK', CountOK'
  PROVE  TypeInv'
<1>1. /\ disk' = [disk EXCEPT ![SlaveOf(a)][p] = NONE]
      /\ job' = [b \in Pool |-> job'[b]]
      /\ job'[a] = j
  BY RemoveIs
<1>2. DiskOK'
  BY <1>1, SlaveType DEF TypeInv, DiskOK, File
<1>3. JobInv(a)'
  BY <1>1 DEF JobInv, SlaveOf
<1>4. \A b \in Pool \ {a} : JobInv(b)'
  BY RemoveFits
<1> QED
  BY <1>1, <1>2, <1>3, <1>4 DEF TypeInv

\* What is sent, read and answered is of its type.
LEMMA LinkIs ==
  ASSUME LinkOK, NEW n \in Conn
  PROVE  /\ link[n].out \in Seq(Message) /\ link[n].back \in Seq({"ready", "done"})
         /\ link[n].ends \in SUBSET {"replayer", "server"}
         /\ link[n] \in [out : Seq(Message), back : Seq({"ready", "done"}),
                         ends : SUBSET {"replayer", "server"}]
BY DEF LinkOK

LEMMA LinkBecomes ==
  ASSUME LinkOK, NEW n \in Conn, NEW l,
         l \in [out : Seq(Message), back : Seq({"ready", "done"}), ends : SUBSET {"replayer", "server"}],
         link' = [link EXCEPT ![n] = l]
  PROVE  LinkOK'
BY DEF LinkOK

LEMMA SaysOK ==
  ASSUME LinkOK, NEW n \in Conn, NEW m \in Message, Says(n, m)
  PROVE  LinkOK' /\ link' = [link EXCEPT ![n] = [link[n] EXCEPT !.out = Append(link[n].out, m)]]
<1>1. link' = [link EXCEPT ![n] = [link[n] EXCEPT !.out = Append(link[n].out, m)]]
  BY DEF Says
<1>2. Append(link[n].out, m) \in Seq(Message)
  BY LinkIs
<1>3. [link[n] EXCEPT !.out = Append(link[n].out, m)]
        \in [out : Seq(Message), back : Seq({"ready", "done"}), ends : SUBSET {"replayer", "server"}]
  BY <1>2, LinkIs
<1> QED
  BY <1>1, <1>3, LinkBecomes

LEMMA HearsOK ==
  ASSUME LinkOK, NEW n \in Conn, link[n].back # <<>>, Hears(n)
  PROVE  LinkOK' /\ link' = [link EXCEPT ![n] = [link[n] EXCEPT !.back = Tail(link[n].back)]]
<1>1. link' = [link EXCEPT ![n] = [link[n] EXCEPT !.back = Tail(link[n].back)]]
  BY DEF Hears
<1>2. Tail(link[n].back) \in Seq({"ready", "done"})
  BY LinkIs
<1>3. [link[n] EXCEPT !.back = Tail(link[n].back)]
        \in [out : Seq(Message), back : Seq({"ready", "done"}), ends : SUBSET {"replayer", "server"}]
  BY <1>2, LinkIs
<1> QED
  BY <1>1, <1>3, LinkBecomes

LEMMA TakesOK ==
  ASSUME LinkOK, NEW b \in Pool, job[b].conn \in Conn, link[job[b].conn].out # <<>>, Takes(b)
  PROVE  LET n == job[b].conn
         IN LinkOK' /\ link' = [link EXCEPT ![n] = [link[n] EXCEPT !.out = Tail(link[n].out)]]
<1> DEFINE n == job[b].conn
<1>1. link' = [link EXCEPT ![n] = [link[n] EXCEPT !.out = Tail(link[n].out)]]
  BY DEF Takes
<1>2. Tail(link[n].out) \in Seq(Message)
  BY LinkIs
<1>3. [link[n] EXCEPT !.out = Tail(link[n].out)]
        \in [out : Seq(Message), back : Seq({"ready", "done"}), ends : SUBSET {"replayer", "server"}]
  BY <1>2, LinkIs
<1> QED
  BY <1>1, <1>3, LinkBecomes

LEMMA AnswersOK ==
  ASSUME LinkOK, NEW b \in Pool, job[b].conn \in Conn, link[job[b].conn].out # <<>>,
         NEW m \in {"ready", "done"}, Answers(b, m)
  PROVE  LET n == job[b].conn
         IN LinkOK' /\ link' = [link EXCEPT ![n] = [link[n] EXCEPT !.out = Tail(link[n].out),
                                                                  !.back = Append(link[n].back, m)]]
<1> DEFINE n == job[b].conn
<1>1. link' = [link EXCEPT ![n] = [link[n] EXCEPT !.out = Tail(link[n].out),
                                                  !.back = Append(link[n].back, m)]]
  BY DEF Answers
<1>2. Tail(link[n].out) \in Seq(Message) /\ Append(link[n].back, m) \in Seq({"ready", "done"})
  BY LinkIs
<1>3. [link[n] EXCEPT !.out = Tail(link[n].out), !.back = Append(link[n].back, m)]
        \in [out : Seq(Message), back : Seq({"ready", "done"}), ends : SUBSET {"replayer", "server"}]
  BY <1>2, LinkIs
<1> QED
  BY <1>1, <1>3, LinkBecomes

LEMMA FirstIs ==
  ASSUME LinkOK, NEW b \in Pool, job[b].conn \in Conn, NEW kind, Reads(b, kind)
  PROVE  /\ link[job[b].conn].out # <<>> /\ First(b) \in Message /\ First(b).kind = kind
         /\ kind = "update" => First(b).entry \in Entry /\ First(b).entry.path \in Path
         /\ kind = "header" => First(b).found \in BOOLEAN /\ First(b).blocks \in 0..1
         /\ kind = "block" => First(b).data \in Content \cup {OLD}
<1>1. link[job[b].conn].out # <<>> /\ First(b) \in Message /\ First(b).kind = kind
  BY DEF LinkOK, Reads, First
<1> QED
  BY <1>1 DEF Message, Bye, Entry

LEMMA HeaderIs ==
  ASSUME NEW v \in File
  PROVE  /\ Header(v) \in Message /\ Header(v).kind = "header"
         /\ Header(v).found = (v # NONE)
         /\ Header(v).blocks = (IF v \in {NONE, EMPTY} THEN 0 ELSE 1)
BY DEF Header, Message

LEMMA OtherMessages ==
  /\ \A e \in Entry : Update(e) \in Message /\ Update(e).kind = "update" /\ Update(e).entry = e
  /\ Bye \in Message /\ Bye.kind = "bye"
  /\ \A v \in Content \cup {OLD} : Block(v) \in Message /\ Block(v).kind = "block" /\ Block(v).data = v
BY DEF Update, Bye, Block, Message

\* The jobs that steps leave behind.
LEMMA IdleIs ==
  ASSUME NEW log, NEW n, NEW ps
  PROVE  /\ Idle
             = [at |-> "accept", log |-> <<>>, k |-> 1, peers |-> <<>>, conn |-> NONE,
                path |-> NONE, open |-> FALSE, held |-> NONE]
         /\ Dead
             = [at |-> "dead", log |-> <<>>, k |-> 1, peers |-> <<>>, conn |-> NONE,
                path |-> NONE, open |-> FALSE, held |-> NONE]
         /\ Astray
             = [at |-> "astray", log |-> <<>>, k |-> 1, peers |-> <<>>, conn |-> NONE,
                path |-> NONE, open |-> FALSE, held |-> NONE]
         /\ [Idle EXCEPT !.at = "session", !.log = log]
             = [at |-> "session", log |-> log, k |-> 1, peers |-> <<>>, conn |-> NONE,
                path |-> NONE, open |-> FALSE, held |-> NONE]
         /\ [Idle EXCEPT !.at = "serve", !.conn = n]
             = [at |-> "serve", log |-> <<>>, k |-> 1, peers |-> <<>>, conn |-> n,
                path |-> NONE, open |-> FALSE, held |-> NONE]
         /\ [Idle EXCEPT !.at = "peer", !.log = log, !.peers = ps]
             = [at |-> "peer", log |-> log, k |-> 1, peers |-> ps, conn |-> NONE,
                path |-> NONE, open |-> FALSE, held |-> NONE]
<1>1. Idle
      = [at |-> "accept", log |-> <<>>, k |-> 1, peers |-> <<>>, conn |-> NONE,
         path |-> NONE, open |-> FALSE, held |-> NONE]
  BY DEF Idle, Dead
<1>2. Dead
      = [at |-> "dead", log |-> <<>>, k |-> 1, peers |-> <<>>, conn |-> NONE,
         path |-> NONE, open |-> FALSE, held |-> NONE]
  <2>1. ASSUME NEW r, r = Dead
        PROVE  r = [at |-> "dead", log |-> <<>>, k |-> 1, peers |-> <<>>, conn |-> NONE,
                    path |-> NONE, open |-> FALSE, held |-> NONE]
    BY <2>1 DEF Idle, Dead
  <2> QED
    BY <2>1
<1>3. Astray
      = [at |-> "astray", log |-> <<>>, k |-> 1, peers |-> <<>>, conn |-> NONE,
         path |-> NONE, open |-> FALSE, held |-> NONE]
  <2>1. ASSUME NEW r, r = Astray
        PROVE  r = [at |-> "astray", log |-> <<>>, k |-> 1, peers |-> <<>>, conn |-> NONE,
                    path |-> NONE, open |-> FALSE, held |-> NONE]
    BY <2>1 DEF Idle, Astray
  <2> QED
    BY <2>1
<1>4. [Idle EXCEPT !.at = "session", !.log = log]
      = [at |-> "session", log |-> log, k |-> 1, peers |-> <<>>, conn |-> NONE,
         path |-> NONE, open |-> FALSE, held |-> NONE]
  <2>1. ASSUME NEW r, r = [Idle EXCEPT !.at = "session", !.log = log]
        PROVE  r = [at |-> "session", log |-> log, k |-> 1, peers |-> <<>>, conn |-> NONE,
                    path |-> NONE, open |-> FALSE, held |-> NONE]
    BY <2>1 DEF Idle, Dead
  <2> QED
    BY <2>1
<1>5. [Idle EXCEPT !.at = "serve", !.conn = n]
      = [at |-> "serve", log |-> <<>>, k |-> 1, peers |-> <<>>, conn |-> n,
         path |-> NONE, open |-> FALSE, held |-> NONE]
  <2>1. ASSUME NEW r, r = [Idle EXCEPT !.at = "serve", !.conn = n]
        PROVE  r = [at |-> "serve", log |-> <<>>, k |-> 1, peers |-> <<>>, conn |-> n,
                    path |-> NONE, open |-> FALSE, held |-> NONE]
    BY <2>1 DEF Idle, Dead
  <2> QED
    BY <2>1
<1>6. [Idle EXCEPT !.at = "peer", !.log = log, !.peers = ps]
      = [at |-> "peer", log |-> log, k |-> 1, peers |-> ps, conn |-> NONE,
         path |-> NONE, open |-> FALSE, held |-> NONE]
  <2>1. ASSUME NEW r, r = [Idle EXCEPT !.at = "peer", !.log = log, !.peers = ps]
        PROVE  r = [at |-> "peer", log |-> log, k |-> 1, peers |-> ps, conn |-> NONE,
                    path |-> NONE, open |-> FALSE, held |-> NONE]
    BY <2>1 DEF Idle, Dead
  <2> QED
    BY <2>1
<1> QED
  BY <1>1, <1>2, <1>3, <1>4, <1>5, <1>6

LEMMA RestFits ==
  ASSUME NEW d, NEW at \in {"accept", "session", "peer", "dead", "astray"}, NEW log \in Seq(Entry),
         at \in {"accept", "dead", "astray"} => log = <<>>, NEW ps \in Seq(Slave),
         NEW j, j = [at |-> at, log |-> log, k |-> 1, peers |-> ps, conn |-> NONE,
                     path |-> NONE, open |-> FALSE, held |-> NONE]
  PROVE  Fits(j, d)
<1>1. Len(log) \in Nat /\ 1 \in 1..(Len(log) + 1)
  OBVIOUS
<1> QED
  BY <1>1 DEF Fits, IsJob, Place, File

LEMMA IdleFits ==
  ASSUME NEW d
  PROVE  /\ Fits(Idle, d) /\ Fits(Dead, d) /\ Fits(Astray, d)
         /\ \A log \in Seq(Entry) : Fits([Idle EXCEPT !.at = "session", !.log = log], d)
         /\ \A n \in Conn : Fits([Idle EXCEPT !.at = "serve", !.conn = n], d)
         /\ \A log \in Seq(Entry), ps \in Seq(Slave) :
              Fits([Idle EXCEPT !.at = "peer", !.log = log, !.peers = ps], d)
<1>1. <<>> \in Seq(Entry) /\ <<>> \in Seq(Slave)
  OBVIOUS
<1>2. Len(<<>>) = 0
  OBVIOUS
<1>3. Fits(Idle, d)
  <2>1. Idle = [at |-> "accept", log |-> <<>>, k |-> 1, peers |-> <<>>, conn |-> NONE,
                path |-> NONE, open |-> FALSE, held |-> NONE]
    BY IdleIs, Zenon
  <2> QED
    BY <1>1, <2>1, RestFits
<1>4. Fits(Dead, d)
  <2>1. Dead = [at |-> "dead", log |-> <<>>, k |-> 1, peers |-> <<>>, conn |-> NONE,
                path |-> NONE, open |-> FALSE, held |-> NONE]
    BY IdleIs, Zenon
  <2> QED
    BY <1>1, <2>1, RestFits
<1>6. Fits(Astray, d)
  <2>1. Astray
             = [at |-> "astray", log |-> <<>>, k |-> 1, peers |-> <<>>, conn |-> NONE,
                path |-> NONE, open |-> FALSE, held |-> NONE]
    BY IdleIs, Zenon
  <2> QED
    BY <1>1, <2>1, RestFits
<1>7. ASSUME NEW log \in Seq(Entry) PROVE Fits([Idle EXCEPT !.at = "session", !.log = log], d)
  <2>1. [Idle EXCEPT !.at = "session", !.log = log]
             = [at |-> "session", log |-> log, k |-> 1, peers |-> <<>>, conn |-> NONE,
                path |-> NONE, open |-> FALSE, held |-> NONE]
    BY IdleIs, Zenon
  <2> QED
    BY <1>1, <2>1, RestFits
<1>8. ASSUME NEW log \in Seq(Entry), NEW ps \in Seq(Slave)
      PROVE  Fits([Idle EXCEPT !.at = "peer", !.log = log, !.peers = ps], d)
  <2>1. [Idle EXCEPT !.at = "peer", !.log = log, !.peers = ps]
             = [at |-> "peer", log |-> log, k |-> 1, peers |-> ps, conn |-> NONE,
                path |-> NONE, open |-> FALSE, held |-> NONE]
    BY IdleIs, Zenon
  <2> QED
    BY <2>1, RestFits
<1>5. ASSUME NEW n \in Conn PROVE Fits([Idle EXCEPT !.at = "serve", !.conn = n], d)
  <2>1. n # NONE
    BY CoherenceAssumption
  <2>2. Fits([at |-> "serve", log |-> <<>>, k |-> 1, peers |-> <<>>, conn |-> n,
              path |-> NONE, open |-> FALSE, held |-> NONE], d)
    BY <1>1, <1>2, <2>1 DEF Fits, IsJob, Place, File
  <2> QED
    BY <2>2, IdleIs, Zenon
<1> QED
  BY <1>3, <1>4, <1>5, <1>6, <1>7, <1>8, Zenon

\* A worker that is at another place with the rest of its job.
LEMMA JobIs ==
  ASSUME TypeInv, NEW a \in Pool
  PROVE  job[a] = [at |-> job[a].at, log |-> job[a].log, k |-> job[a].k, peers |-> job[a].peers,
                   conn |-> job[a].conn, path |-> job[a].path, open |-> job[a].open, held |-> job[a].held]
<1>1. IsJob(job[a])
  BY DEF TypeInv, JobInv, Fits
<1> QED
  BY <1>1 DEF IsJob

LEMMA ElsewhereIs ==
  ASSUME NEW j, IsJob(j), NEW at
  PROVE  [j EXCEPT !.at = at] = [at |-> at, log |-> j.log, k |-> j.k, peers |-> j.peers, conn |-> j.conn,
                                 path |-> j.path, open |-> j.open, held |-> j.held]
<1>1. ASSUME NEW r, r = [j EXCEPT !.at = at]
      PROVE  r = [at |-> at, log |-> j.log, k |-> j.k, peers |-> j.peers, conn |-> j.conn,
                  path |-> j.path, open |-> j.open, held |-> j.held]
  BY <1>1 DEF IsJob
<1> QED
  BY <1>1

LEMMA ListIs ==
  ASSUME NEW j, IsJob(j), NEW at
  PROVE  [j EXCEPT !.at = at, !.k = 1]
           = [at |-> at, log |-> j.log, k |-> 1, peers |-> j.peers, conn |-> j.conn,
              path |-> j.path, open |-> j.open, held |-> j.held]
<1>1. ASSUME NEW r, r = [j EXCEPT !.at = at, !.k = 1]
      PROVE  r = [at |-> at, log |-> j.log, k |-> 1, peers |-> j.peers, conn |-> j.conn,
                  path |-> j.path, open |-> j.open, held |-> j.held]
  BY <1>1 DEF IsJob
<1> QED
  BY <1>1

LEMMA LetGoIs ==
  ASSUME NEW j, IsJob(j), NEW at
  PROVE  [j EXCEPT !.at = at, !.open = FALSE, !.held = NONE, !.path = NONE]
           = [at |-> at, log |-> j.log, k |-> j.k, peers |-> j.peers, conn |-> j.conn,
              path |-> NONE, open |-> FALSE, held |-> NONE]
<1>1. ASSUME NEW r, r = [j EXCEPT !.at = at, !.open = FALSE, !.held = NONE, !.path = NONE]
      PROVE  r = [at |-> at, log |-> j.log, k |-> j.k, peers |-> j.peers, conn |-> j.conn,
                  path |-> NONE, open |-> FALSE, held |-> NONE]
  BY <1>1 DEF IsJob
<1> QED
  BY <1>1

LEMMA OpenIs ==
  ASSUME NEW j, IsJob(j), NEW at
  PROVE  [j EXCEPT !.at = at, !.open = TRUE]
           = [at |-> at, log |-> j.log, k |-> j.k, peers |-> j.peers, conn |-> j.conn,
              path |-> j.path, open |-> TRUE, held |-> j.held]
<1>1. ASSUME NEW r, r = [j EXCEPT !.at = at, !.open = TRUE]
      PROVE  r = [at |-> at, log |-> j.log, k |-> j.k, peers |-> j.peers, conn |-> j.conn,
                  path |-> j.path, open |-> TRUE, held |-> j.held]
  BY <1>1 DEF IsJob
<1> QED
  BY <1>1

LEMMA WithPeersIs ==
  ASSUME NEW j, IsJob(j), NEW at, NEW x
  PROVE  [j EXCEPT !.at = at, !.peers = x]
           = [at |-> at, log |-> j.log, k |-> j.k, peers |-> x, conn |-> j.conn,
              path |-> j.path, open |-> j.open, held |-> j.held]
<1>1. ASSUME NEW r, r = [j EXCEPT !.at = at, !.peers = x]
      PROVE  r = [at |-> at, log |-> j.log, k |-> j.k, peers |-> x, conn |-> j.conn,
                  path |-> j.path, open |-> j.open, held |-> j.held]
  BY <1>1 DEF IsJob
<1> QED
  BY <1>1

LEMMA WithPathIs ==
  ASSUME NEW j, IsJob(j), NEW at, NEW x
  PROVE  [j EXCEPT !.at = at, !.path = x]
           = [at |-> at, log |-> j.log, k |-> j.k, peers |-> j.peers, conn |-> j.conn,
              path |-> x, open |-> j.open, held |-> j.held]
<1>1. ASSUME NEW r, r = [j EXCEPT !.at = at, !.path = x]
      PROVE  r = [at |-> at, log |-> j.log, k |-> j.k, peers |-> j.peers, conn |-> j.conn,
                  path |-> x, open |-> j.open, held |-> j.held]
  BY <1>1 DEF IsJob
<1> QED
  BY <1>1

LEMMA OpenedIs ==
  ASSUME NEW j, IsJob(j), NEW at, NEW x
  PROVE  [j EXCEPT !.at = at, !.path = x, !.open = TRUE]
           = [at |-> at, log |-> j.log, k |-> j.k, peers |-> j.peers, conn |-> j.conn,
              path |-> x, open |-> TRUE, held |-> j.held]
<1>1. ASSUME NEW r, r = [j EXCEPT !.at = at, !.path = x, !.open = TRUE]
      PROVE  r = [at |-> at, log |-> j.log, k |-> j.k, peers |-> j.peers, conn |-> j.conn,
                  path |-> x, open |-> TRUE, held |-> j.held]
  BY <1>1 DEF IsJob
<1> QED
  BY <1>1

LEMMA DialedIs ==
  ASSUME NEW j, IsJob(j), NEW at, NEW x
  PROVE  [j EXCEPT !.at = at, !.k = 1, !.conn = x]
           = [at |-> at, log |-> j.log, k |-> 1, peers |-> j.peers, conn |-> x,
              path |-> j.path, open |-> j.open, held |-> j.held]
<1>1. ASSUME NEW r, r = [j EXCEPT !.at = at, !.k = 1, !.conn = x]
      PROVE  r = [at |-> at, log |-> j.log, k |-> 1, peers |-> j.peers, conn |-> x,
                  path |-> j.path, open |-> j.open, held |-> j.held]
  BY <1>1 DEF IsJob
<1> QED
  BY <1>1

LEMMA NextEntryIs ==
  ASSUME TypeInv, NEW a \in Pool
  PROVE  /\ NextEntry(a) = [at |-> job[a].at, log |-> job[a].log, k |-> job[a].k + 1,
                            peers |-> job[a].peers, conn |-> job[a].conn,
                            path |-> NONE, open |-> FALSE, held |-> NONE]
         /\ \A at : [NextEntry(a) EXCEPT !.at = at]
                      = [at |-> at, log |-> job[a].log, k |-> job[a].k + 1,
                         peers |-> job[a].peers, conn |-> job[a].conn,
                         path |-> NONE, open |-> FALSE, held |-> NONE]
<1>1. NextEntry(a) = [at |-> job[a].at, log |-> job[a].log, k |-> job[a].k + 1,
                      peers |-> job[a].peers, conn |-> job[a].conn,
                      path |-> NONE, open |-> FALSE, held |-> NONE]
  <2>1. ASSUME NEW r, r = NextEntry(a), NEW j, j = job[a],
               j = [at |-> j.at, log |-> j.log, k |-> j.k, peers |-> j.peers, conn |-> j.conn,
                    path |-> j.path, open |-> j.open, held |-> j.held]
        PROVE  r = [at |-> j.at, log |-> j.log, k |-> j.k + 1, peers |-> j.peers, conn |-> j.conn,
                    path |-> NONE, open |-> FALSE, held |-> NONE]
    <3>1. r = [j EXCEPT !.k = @ + 1, !.open = FALSE, !.held = NONE, !.path = NONE]
      BY <2>1 DEF NextEntry
    <3> QED
      BY <2>1, <3>1
  <2> QED
    BY <2>1, JobIs
<1>2. ASSUME NEW at
      PROVE  [NextEntry(a) EXCEPT !.at = at]
               = [at |-> at, log |-> job[a].log, k |-> job[a].k + 1,
                  peers |-> job[a].peers, conn |-> job[a].conn,
                  path |-> NONE, open |-> FALSE, held |-> NONE]
  <2>1. IsJob(NextEntry(a))
    BY <1>1 DEF IsJob
  <2>2. /\ NextEntry(a).log = job[a].log /\ NextEntry(a).k = job[a].k + 1
        /\ NextEntry(a).peers = job[a].peers /\ NextEntry(a).conn = job[a].conn
        /\ NextEntry(a).path = NONE /\ NextEntry(a).open = FALSE /\ NextEntry(a).held = NONE
    BY <1>1
  <2>3. [NextEntry(a) EXCEPT !.at = at]
          = [at |-> at, log |-> NextEntry(a).log, k |-> NextEntry(a).k, peers |-> NextEntry(a).peers,
             conn |-> NextEntry(a).conn, path |-> NextEntry(a).path, open |-> NextEntry(a).open,
             held |-> NextEntry(a).held]
    BY <2>1, ElsewhereIs
  <2> QED
    BY <2>2, <2>3, Zenon
<1> QED
  BY <1>1, <1>2

LEMMA AtIs ==
  ASSUME TypeInv, NEW a \in Pool, NEW at
  PROVE  [job[a] EXCEPT !.at = at]
           = [at |-> at, log |-> job[a].log, k |-> job[a].k, peers |-> job[a].peers,
              conn |-> job[a].conn, path |-> job[a].path, open |-> job[a].open, held |-> job[a].held]
<1>1. IsJob(job[a])
  BY DEF TypeInv, JobInv, Fits
<1> QED
  BY <1>1, ElsewhereIs

LEMMA FitsNow ==
  ASSUME TypeInv, NEW a \in Pool
  PROVE  Fits(job[a], disk[SlaveOf(a)])
BY DEF TypeInv, JobInv

LEMMA SameFiles ==
  ASSUME TypeInv, disk' = disk
  PROVE  /\ DiskOK'
         /\ \A s \in Slave, p \in Path : disk'[s][p] = NONE => disk[s][p] = NONE
BY DEF TypeInv, DiskOK

\* Steps of a worker by itself: the next job fits, and no file changes.
LEMMA LooksType ==
  ASSUME TypeInv, NEW a \in Pool, NEW j, Becomes(a, j), Fits(j, disk[SlaveOf(a)]),
         UNCHANGED disk, LinkOK', QueueOK', CountOK'
  PROVE  TypeInv'
BY SameFiles, TypeStep

LEMMA SameLinks ==
  ASSUME TypeInv
  PROVE  /\ UNCHANGED link => LinkOK'
         /\ UNCHANGED queue => QueueOK'
         /\ UNCHANGED <<sessions, killed, changed, refused>> => CountOK'
BY DEF TypeInv, LinkOK, QueueOK, CountOK

\* Files that are written are there.
LEMMA WrittenOK ==
  ASSUME TypeInv, NEW s \in Slave, NEW p \in Path, NEW v \in File \ {NONE},
         disk' = [disk EXCEPT ![s][p] = v]
  PROVE  /\ DiskOK' /\ disk'[s][p] = v
         /\ \A t \in Slave, q \in Path : disk'[t][q] = NONE => disk[t][q] = NONE
BY DEF TypeInv, DiskOK


LEMMA ConnType ==
  ASSUME TypeInv, NEW a \in Pool,
         job[a].at \in {"entry", "ack", "open", "block", "stored", "bye", "serve", "header", "storing"}
  PROVE  job[a].conn \in Conn
BY FitsNow DEF Fits

LEMMA EntryNow ==
  ASSUME TypeInv, NEW a \in Pool, job[a].k <= Len(job[a].log)
  PROVE  /\ job[a].k \in 1..Len(job[a].log) /\ EntryOf(a) \in Entry
         /\ EntryOf(a).path \in Path /\ EntryOf(a).type \in {"RM", "PUT"}
<1>1. job[a].log \in Seq(Entry) /\ job[a].k \in 1..(Len(job[a].log) + 1)
  BY FitsNow DEF Fits
<1>2. job[a].k \in 1..Len(job[a].log)
  BY <1>1
<1> QED
  BY <1>1, <1>2, EntryType DEF EntryOf

\* The next step of a worker is a job that fits.
LEMMA NextEntryFits ==
  ASSUME TypeInv, NEW a \in Pool, job[a].k <= Len(job[a].log),
         NEW at \in {"session", "entry"}, NEW d,
         at = "entry" <=> job[a].conn # NONE,
         at = "entry" => job[a].peers # <<>>
  PROVE  Fits([NextEntry(a) EXCEPT !.at = at], d)
<1>1. Fits(job[a], disk[SlaveOf(a)])
  BY FitsNow
<1>2. [NextEntry(a) EXCEPT !.at = at]
        = [at |-> at, log |-> job[a].log, k |-> job[a].k + 1,
           peers |-> job[a].peers, conn |-> job[a].conn,
           path |-> NONE, open |-> FALSE, held |-> NONE]
  BY NextEntryIs
<1>3. /\ job[a].log \in Seq(Entry) /\ job[a].k \in 1..(Len(job[a].log) + 1) /\ Len(job[a].log) \in Nat
      /\ job[a].peers \in Seq(Slave) /\ job[a].conn \in Conn \cup {NONE}
  BY <1>1 DEF Fits
<1>4. job[a].k + 1 \in 1..(Len(job[a].log) + 1)
  BY <1>3
<1>5. ASSUME NEW j, j = [at |-> at, log |-> job[a].log, k |-> job[a].k + 1,
                         peers |-> job[a].peers, conn |-> job[a].conn,
                         path |-> NONE, open |-> FALSE, held |-> NONE]
      PROVE  Fits(j, d)
  BY <1>3, <1>4, <1>5 DEF Fits, IsJob, Place, File
<1> QED
  BY <1>2, <1>5

LEMMA SessionType ==
  ASSUME TypeInv, NEW a \in Pool, NEW log \in Journal, Session(a, log)
  PROVE  TypeInv'
<1>1. log \in Seq(Entry)
  BY CoherenceAssumption
<1>2. /\ sessions < MaxSessions /\ sessions' = sessions + 1
      /\ changed' = [p \in Path |->
           IF \E k \in DOMAIN log : log[k].path = p THEN changed[p] + 1 ELSE changed[p]]
      /\ Becomes(a, [Idle EXCEPT !.at = "session", !.log = log])
      /\ UNCHANGED disk /\ UNCHANGED link /\ UNCHANGED queue /\ UNCHANGED killed /\ UNCHANGED refused
  BY DEF Session
<1>3. CountOK'
  <2>1. CountOK /\ MaxSessions \in Nat
    BY CoherenceAssumption DEF TypeInv
  <2>2. sessions' \in 0..MaxSessions /\ killed' \in 0..MaxDeaths
    BY <1>2, <2>1 DEF CountOK
  <2>3. ASSUME NEW p \in Path
        PROVE  changed'[p] \in 0..MaxSessions /\ changed'[p] <= sessions'
    <3>1. changed'[p] \in {changed[p] + 1, changed[p]}
      BY <1>2
    <3>2. changed[p] \in 0..MaxSessions /\ changed[p] <= sessions /\ sessions \in 0..MaxSessions
      BY <2>1 DEF CountOK
    <3> QED
      BY <1>2, <2>1, <3>1, <3>2
  <2>4. changed' \in [Path -> 0..MaxSessions]
    BY <1>2, <2>3
  <2>5. refused' \subseteq Slave \X Path
    BY <1>2, <2>1 DEF CountOK
  <2> QED
    BY <2>2, <2>3, <2>4, <2>5 DEF CountOK
<1>4. Fits([Idle EXCEPT !.at = "session", !.log = log], disk[SlaveOf(a)])
  BY <1>1, IdleFits, Zenon
<1> QED
  BY <1>2, <1>3, <1>4, LooksType, SameLinks

LEMMA OperationType ==
  ASSUME TypeInv, NEW a \in Pool, Operation(a)
  PROVE  TypeInv'
<1> DEFINE p == EntryOf(a).path
<1>1. /\ job[a].at = "session" /\ job[a].k <= Len(job[a].log)
      /\ UNCHANGED link /\ UNCHANGED queue /\ UNCHANGED <<sessions, killed, changed, refused>>
  BY DEF Operation, At
<1>2. p \in Path
  BY <1>1, EntryNow
<1>3. LinkOK' /\ QueueOK' /\ CountOK'
  BY <1>1, SameLinks
<1>4. Fits(job[a], disk[SlaveOf(a)]) /\ SlaveOf(a) \in Slave
  BY FitsNow, SlaveType
<1>5. job[a].conn = NONE
  BY <1>1, <1>4 DEF Fits
<1>6. \A d : Fits(NextEntry(a), d)
  <2>1. NextEntry(a) = [NextEntry(a) EXCEPT !.at = "session"]
    BY <1>1, NextEntryIs
  <2> QED
    BY <1>1, <1>5, <2>1, NextEntryFits
<1>7. CASE Remove(a, p, NextEntry(a))
  BY <1>2, <1>3, <1>6, <1>7, RemoveType
<1>8. CASE EntryOf(a).type = "PUT" /\ Truncate(a, p, [job[a] EXCEPT !.at = "receive", !.path = p, !.open = TRUE])
  <2>1. disk' = [disk EXCEPT ![SlaveOf(a)][p] = EMPTY]
    BY <1>8 DEF Truncate
  <2>2. EMPTY \in File \ {NONE}
    BY CoherenceAssumption DEF File
  <2>3. DiskOK' /\ disk'[SlaveOf(a)][p] = EMPTY
        /\ \A t \in Slave, q \in Path : disk'[t][q] = NONE => disk[t][q] = NONE
    BY <1>2, <1>4, <2>1, <2>2, WrittenOK, ZenonT(30)
  <2>4. ASSUME NEW j, j = [job[a] EXCEPT !.at = "receive", !.path = p, !.open = TRUE]
        PROVE  Fits(j, disk'[SlaveOf(a)])
    <3>1. j = [at |-> "receive", log |-> job[a].log, k |-> job[a].k, peers |-> job[a].peers,
               conn |-> job[a].conn, path |-> p, open |-> TRUE, held |-> job[a].held]
      <4>1. IsJob(job[a])
        BY <1>4 DEF Fits
      <4> HIDE DEF p
      <4> QED
        BY <2>4, <4>1, OpenedIs, Zenon
    <3>2. EntryOf(a) = job[a].log[job[a].k]
      BY DEF EntryOf
    <3>3. job[a].held = NONE
      BY <1>1, <1>4 DEF Fits
    <3> HIDE DEF p
    <3> QED
      BY <1>1, <1>2, <1>4, <1>5, <1>8, <2>2, <2>3, <3>1, <3>2, <3>3 DEF Fits, IsJob, Place, p
  <2>5. Becomes(a, [job[a] EXCEPT !.at = "receive", !.path = p, !.open = TRUE])
    BY <1>8 DEF Truncate
  <2> QED
    BY <1>3, <2>3, <2>4, <2>5, TypeStep
<1>9. CASE Becomes(a, NextEntry(a)) /\ UNCHANGED disk
  BY <1>3, <1>6, <1>9, LooksType
<1> QED
  BY <1>7, <1>8, <1>9 DEF Operation

LEMMA StrayPutType ==
  ASSUME TypeInv, NEW a \in Pool, StrayPut(a)
  PROVE  TypeInv'
<1>1. /\ Becomes(a, Astray) /\ UNCHANGED disk /\ UNCHANGED link /\ UNCHANGED queue
      /\ UNCHANGED <<sessions, killed, changed, refused>>
  BY DEF StrayPut
<1>2. Fits(Astray, disk[SlaveOf(a)])
  BY IdleFits, Zenon
<1> QED
  BY <1>1, <1>2, LooksType, SameLinks

LEMMA ReceivedType ==
  ASSUME TypeInv, NEW a \in Pool, NEW v \in Content, Received(a, v)
  PROVE  TypeInv'
<1>1. /\ job[a].at = "receive" /\ Store(a, v, [NextEntry(a) EXCEPT !.at = "session"])
      /\ UNCHANGED link /\ UNCHANGED queue /\ UNCHANGED <<sessions, killed, changed, refused>>
  BY DEF Received, At
<1>2. Fits(job[a], disk[SlaveOf(a)]) /\ SlaveOf(a) \in Slave
  BY FitsNow, SlaveType
<1>3. job[a].k <= Len(job[a].log) /\ job[a].conn = NONE /\ job[a].path = EntryOf(a).path
  BY <1>1, <1>2 DEF Fits, EntryOf
<1>4. \A d : Fits([NextEntry(a) EXCEPT !.at = "session"], d)
  BY <1>3, NextEntryFits
<1>5. v \in File \ {NONE} /\ job[a].path \in Path
  BY <1>3, EntryNow, CoherenceAssumption DEF File
<1>6. DiskOK' /\ \A s \in Slave, p \in Path : disk'[s][p] = NONE => disk[s][p] = NONE
  <2>1. CASE job[a].held = NONE
    <3>1. disk' = [disk EXCEPT ![SlaveOf(a)][job[a].path] = v]
      BY <1>1, <2>1 DEF Store
    <3> QED
      BY <1>2, <1>5, <3>1, WrittenOK
  <2>2. CASE job[a].held # NONE
    BY <1>1, <2>2, SameFiles DEF Store
  <2> QED
    BY <2>1, <2>2
<1>7. Becomes(a, [NextEntry(a) EXCEPT !.at = "session"])
  BY <1>1 DEF Store
<1> QED
  BY <1>1, <1>4, <1>6, <1>7, SameLinks, TypeStep

LEMMA EndSessionType ==
  ASSUME TypeInv, NEW a \in Pool, EndSession(a)
  PROVE  TypeInv'
<1>1. /\ job[a].at = "session" /\ job[a].k > Len(job[a].log)
      /\ Becomes(a, IF job[a].log = <<>> THEN Idle ELSE [job[a] EXCEPT !.at = "list", !.k = 1])
      /\ UNCHANGED disk /\ UNCHANGED link /\ UNCHANGED queue /\ UNCHANGED <<sessions, killed, changed, refused>>
  BY DEF EndSession, At
<1>2. Fits(job[a], disk[SlaveOf(a)])
  BY FitsNow
<1>3. ASSUME NEW j, j = [job[a] EXCEPT !.at = "list", !.k = 1] PROVE Fits(j, disk[SlaveOf(a)])
  <2>1. j = [at |-> "list", log |-> job[a].log, k |-> 1, peers |-> job[a].peers, conn |-> job[a].conn,
             path |-> job[a].path, open |-> job[a].open, held |-> job[a].held]
    <3>1. IsJob(job[a])
      BY <1>2 DEF Fits
    <3> QED
      BY <3>1, <1>3, ListIs, Zenon
  <2>2. Len(job[a].log) \in Nat /\ 1 \in 1..(Len(job[a].log) + 1)
    BY <1>2 DEF Fits
  <2> QED
    BY <1>1, <1>2, <2>1, <2>2 DEF Fits, IsJob, Place
<1> QED
  BY <1>1, <1>3, IdleFits, LooksType, SameLinks, Zenon

LEMMA GetListType ==
  ASSUME TypeInv, NEW a \in Pool, GetList(a)
  PROVE  TypeInv'
<1>1. /\ job[a].at = "list" /\ Becomes(a, [job[a] EXCEPT !.at = "peer", !.peers = Peers(SlaveOf(a))])
      /\ UNCHANGED disk /\ UNCHANGED link /\ UNCHANGED queue /\ UNCHANGED <<sessions, killed, changed, refused>>
  BY DEF GetList, At
<1>2. Fits(job[a], disk[SlaveOf(a)]) /\ Peers(SlaveOf(a)) \in Seq(Slave)
  BY FitsNow, SlaveType, PeersType
<1>3. ASSUME NEW j, j = [job[a] EXCEPT !.at = "peer", !.peers = Peers(SlaveOf(a))]
      PROVE  Fits(j, disk[SlaveOf(a)])
  <2>1. j = [at |-> "peer", log |-> job[a].log, k |-> job[a].k, peers |-> Peers(SlaveOf(a)),
             conn |-> job[a].conn, path |-> job[a].path, open |-> job[a].open, held |-> job[a].held]
    <3>1. IsJob(job[a])
      BY <1>2 DEF Fits
    <3> QED
      BY <3>1, <1>3, WithPeersIs, Zenon
  <2> QED
    BY <1>1, <1>2, <2>1 DEF Fits, IsJob, Place
<1> QED
  BY <1>1, <1>3, LooksType, SameLinks

LEMMA ReturnType ==
  ASSUME TypeInv, NEW a \in Pool, Return(a)
  PROVE  TypeInv'
BY IdleFits, LooksType, SameLinks, Zenon DEF Return

LEMMA NewLinkIs ==
  [Closed EXCEPT !.ends = {"replayer", "server"}]
    = [out |-> <<>>, back |-> <<>>, ends |-> {"replayer", "server"}]
<1>1. ASSUME NEW r, r = [Closed EXCEPT !.ends = {"replayer", "server"}]
      PROVE  r = [out |-> <<>>, back |-> <<>>, ends |-> {"replayer", "server"}]
  BY <1>1 DEF Closed
<1> QED
  BY <1>1

LEMMA DialType ==
  ASSUME TypeInv, NEW a \in Pool, Dial(a)
  PROVE  TypeInv'
<1>1. job[a].at = "peer" /\ job[a].peers # <<>> /\ UNCHANGED disk /\ UNCHANGED <<sessions, killed, changed, refused>>
  BY DEF Dial, At
<1>2. PICK n \in Conn :
        /\ link' = [link EXCEPT ![n] = [Closed EXCEPT !.ends = {"replayer", "server"}]]
        /\ queue' = [queue EXCEPT ![Head(job[a].peers)] = Append(@, n)]
        /\ Becomes(a, [job[a] EXCEPT !.at = "entry", !.k = 1, !.conn = n])
  BY Zenon DEF Dial
<1>3. Fits(job[a], disk[SlaveOf(a)]) /\ n # NONE
  BY FitsNow, CoherenceAssumption
<1>4. ASSUME NEW j, j = [job[a] EXCEPT !.at = "entry", !.k = 1, !.conn = n]
      PROVE  Fits(j, disk[SlaveOf(a)])
  <2>1. j = [at |-> "entry", log |-> job[a].log, k |-> 1, peers |-> job[a].peers,
             conn |-> n, path |-> job[a].path, open |-> job[a].open, held |-> job[a].held]
    <3>1. IsJob(job[a])
      BY <1>3 DEF Fits
    <3> QED
      BY <3>1, <1>4, DialedIs, Zenon
  <2>2. Len(job[a].log) \in Nat /\ 1 \in 1..(Len(job[a].log) + 1)
    BY <1>3 DEF Fits
  <2> QED
    BY <1>1, <1>3, <2>1, <2>2 DEF Fits, IsJob, Place
<1>5. LinkOK'
  <2>1. <<>> \in Seq(Message) /\ <<>> \in Seq({"ready", "done"})
    OBVIOUS
  <2>2. [Closed EXCEPT !.ends = {"replayer", "server"}]
          = [out |-> <<>>, back |-> <<>>, ends |-> {"replayer", "server"}]
    BY NewLinkIs
  <2>3. [out |-> <<>>, back |-> <<>>, ends |-> {"replayer", "server"}]
          \in [out : Seq(Message), back : Seq({"ready", "done"}), ends : SUBSET {"replayer", "server"}]
    BY <2>1
  <2> QED
    BY <1>2, <2>2, <2>3, LinkBecomes DEF TypeInv
<1>6. QueueOK'
  <2>1. Head(job[a].peers) \in Slave
    BY <1>1, <1>3 DEF Fits
  <2>2. queue[Head(job[a].peers)] \in Seq(Conn)
    BY <2>1 DEF TypeInv, QueueOK
  <2>3. Append(queue[Head(job[a].peers)], n) \in Seq(Conn)
    BY <2>2
  <2> QED
    BY <1>2, <2>3 DEF TypeInv, QueueOK
<1> QED
  BY <1>1, <1>2, <1>4, <1>5, <1>6, LooksType, SameLinks

LEMMA SendUpdateType ==
  ASSUME TypeInv, NEW a \in Pool, SendUpdate(a)
  PROVE  TypeInv'
<1>1. /\ job[a].at = "entry" /\ job[a].k <= Len(job[a].log)
      /\ Says(job[a].conn, Update(EntryOf(a))) /\ Becomes(a, [job[a] EXCEPT !.at = "ack"])
      /\ UNCHANGED disk /\ UNCHANGED queue /\ UNCHANGED <<sessions, killed, changed, refused>>
  BY DEF SendUpdate, At
<1>2. Fits(job[a], disk[SlaveOf(a)]) /\ job[a].conn \in Conn
  BY <1>1, FitsNow, ConnType
<1>3. LinkOK'
  BY <1>1, <1>2, EntryNow, OtherMessages, SaysOK DEF TypeInv
<1>4. ASSUME NEW j, j = [job[a] EXCEPT !.at = "ack"] PROVE Fits(j, disk[SlaveOf(a)])
  <2>1. j = [at |-> "ack", log |-> job[a].log, k |-> job[a].k, peers |-> job[a].peers,
             conn |-> job[a].conn, path |-> job[a].path, open |-> job[a].open, held |-> job[a].held]
    BY <1>4, AtIs
  <2> QED
    BY <1>1, <1>2, <2>1 DEF Fits, IsJob, Place
<1> QED
  BY <1>1, <1>3, <1>4, LooksType, SameLinks

LEMMA ReadAckType ==
  ASSUME TypeInv, NEW a \in Pool, ReadAck(a)
  PROVE  TypeInv'
<1>1. /\ job[a].at = "ack" /\ link[job[a].conn].back # <<>> /\ Hears(job[a].conn)
      /\ Becomes(a,
           IF EntryOf(a).type = "RM" THEN [NextEntry(a) EXCEPT !.at = "entry"]
           ELSE [job[a] EXCEPT !.at = IF Head(link[job[a].conn].back) = "ready" THEN "open" ELSE "bye"])
      /\ UNCHANGED disk /\ UNCHANGED queue /\ UNCHANGED <<sessions, killed, changed, refused>>
  BY DEF ReadAck, At
<1>2. Fits(job[a], disk[SlaveOf(a)]) /\ job[a].conn \in Conn
  BY <1>1, FitsNow, ConnType
<1>3. LinkOK'
  BY <1>1, <1>2, HearsOK DEF TypeInv
<1>4. job[a].k <= Len(job[a].log) /\ job[a].conn # NONE /\ job[a].peers # <<>>
  BY <1>1, <1>2 DEF Fits
<1>5. Fits([NextEntry(a) EXCEPT !.at = "entry"], disk[SlaveOf(a)])
  BY <1>4, NextEntryFits
<1>6. ASSUME EntryOf(a).type # "RM", NEW at \in {"open", "bye"}, NEW j, j = [job[a] EXCEPT !.at = at]
      PROVE  Fits(j, disk[SlaveOf(a)])
  <2>1. j = [at |-> at, log |-> job[a].log, k |-> job[a].k, peers |-> job[a].peers,
             conn |-> job[a].conn, path |-> job[a].path, open |-> job[a].open, held |-> job[a].held]
    BY <1>6, AtIs
  <2>2. job[a].log[job[a].k].type = "PUT"
    BY <1>4, <1>6, EntryNow DEF EntryOf
  <2> QED
    BY <1>1, <1>2, <1>4, <1>6, <2>1, <2>2 DEF Fits, IsJob, Place
<1>7. CASE EntryOf(a).type = "RM"
  BY <1>1, <1>3, <1>5, <1>7, LooksType, SameLinks
<1>8. CASE EntryOf(a).type # "RM"
  <2>1. PICK at \in {"open", "bye"} : Becomes(a, [job[a] EXCEPT !.at = at])
    BY <1>1, <1>8
  <2>2. Fits([job[a] EXCEPT !.at = at], disk[SlaveOf(a)])
    BY <1>6, <1>8
  <2> QED
    BY <1>1, <1>3, <2>1, <2>2, LooksType, SameLinks
<1> QED
  BY <1>7, <1>8

LEMMA SendHeaderType ==
  ASSUME TypeInv, NEW a \in Pool, SendHeader(a)
  PROVE  TypeInv'
<1> DEFINE p == EntryOf(a).path
           v == disk[SlaveOf(a)][p]
<1>1. /\ job[a].at = "open" /\ Says(job[a].conn, Header(v))
      /\ Becomes(a, IF v \in {NONE, EMPTY} THEN [job[a] EXCEPT !.at = "stored"]
                    ELSE [job[a] EXCEPT !.at = "block", !.path = p, !.open = TRUE])
      /\ UNCHANGED disk /\ UNCHANGED queue /\ UNCHANGED <<sessions, killed, changed, refused>>
  BY DEF SendHeader, At
<1>2. Fits(job[a], disk[SlaveOf(a)]) /\ job[a].conn \in Conn /\ SlaveOf(a) \in Slave
  BY <1>1, FitsNow, ConnType, SlaveType
<1>3. job[a].k <= Len(job[a].log) /\ job[a].held = NONE /\ job[a].log[job[a].k].type = "PUT"
  BY <1>1, <1>2 DEF Fits
<1>4. p \in Path
  BY <1>3, EntryNow
<1>5. v \in File
  BY <1>2, <1>4 DEF TypeInv, DiskOK
<1>6. p = job[a].log[job[a].k].path
  BY DEF EntryOf
<1>7. v = disk[SlaveOf(a)][p]
  OBVIOUS
<1> HIDE DEF p, v
<1>8. LinkOK'
  BY <1>1, <1>2, <1>5, HeaderIs, SaysOK DEF TypeInv
<1>9. CASE v \in {NONE, EMPTY}
  <2>1. ASSUME NEW j, j = [job[a] EXCEPT !.at = "stored"] PROVE Fits(j, disk[SlaveOf(a)])
    <3>1. j = [at |-> "stored", log |-> job[a].log, k |-> job[a].k, peers |-> job[a].peers,
               conn |-> job[a].conn, path |-> job[a].path, open |-> job[a].open, held |-> job[a].held]
      BY <2>1, AtIs
    <3> QED
      BY <1>1, <1>2, <1>3, <3>1 DEF Fits, IsJob, Place
  <2> QED
    BY <1>1, <1>8, <1>9, <2>1, LooksType, SameLinks
<1>10. CASE v \notin {NONE, EMPTY}
  <2>1. ASSUME NEW j, j = [job[a] EXCEPT !.at = "block", !.path = p, !.open = TRUE]
        PROVE  Fits(j, disk[SlaveOf(a)])
    <3>1. j = [at |-> "block", log |-> job[a].log, k |-> job[a].k, peers |-> job[a].peers,
               conn |-> job[a].conn, path |-> p, open |-> TRUE, held |-> job[a].held]
      <4>1. IsJob(job[a])
        BY <1>2 DEF Fits
      <4> QED
        BY <2>1, <4>1, OpenedIs, Zenon
    <3> QED
      BY <1>1, <1>2, <1>3, <1>4, <1>6, <1>7, <1>10, <3>1, Zenon DEF Fits, IsJob, Place
  <2> QED
    BY <1>1, <1>8, <1>10, <2>1, LooksType, SameLinks
<1> QED
  BY <1>9, <1>10

LEMMA ReadableIs ==
  ASSUME TypeInv, NEW a \in Pool, job[a].at = "block"
  PROVE  Readable(a) \subseteq Content \cup {OLD, EMPTY}
<1>1. Fits(job[a], disk[SlaveOf(a)]) /\ SlaveOf(a) \in Slave
  BY FitsNow, SlaveType
<1>2. job[a].path = EntryOf(a).path /\ job[a].k <= Len(job[a].log)
  BY <1>1 DEF Fits, EntryOf
<1>3. job[a].path \in Path
  BY <1>2, EntryNow
<1>4. disk[SlaveOf(a)][job[a].path] \in File /\ job[a].held \in File
  BY <1>1, <1>3 DEF TypeInv, DiskOK, Fits
<1>5. job[a].held = NONE => disk[SlaveOf(a)][job[a].path] # NONE
  BY <1>1 DEF Fits
<1> QED
  BY <1>4, <1>5 DEF Readable, File

LEMMA SendBlockType ==
  ASSUME TypeInv, NEW a \in Pool, SendBlock(a)
  PROVE  TypeInv'
<1>1. /\ job[a].at = "block"
      /\ Becomes(a, [job[a] EXCEPT !.at = "stored", !.open = FALSE, !.held = NONE, !.path = NONE])
      /\ UNCHANGED disk /\ UNCHANGED queue /\ UNCHANGED <<sessions, killed, changed, refused>>
  BY DEF SendBlock, At
<1>2. PICK v \in Readable(a) : IF v = EMPTY THEN UNCHANGED link ELSE Says(job[a].conn, Block(v))
  BY DEF SendBlock
<1>3. v \in Content \cup {OLD, EMPTY}
  BY <1>1, ReadableIs
<1>4. Fits(job[a], disk[SlaveOf(a)]) /\ job[a].conn \in Conn
  BY <1>1, FitsNow, ConnType
<1>5. LinkOK'
  <2>1. CASE v = EMPTY
    BY <1>2, <2>1, SameLinks
  <2>2. CASE v # EMPTY
    <3>1. Block(v) \in Message
      BY <1>3, <2>2, OtherMessages
    <3> QED
      BY <1>2, <1>4, <2>2, <3>1, SaysOK DEF TypeInv
  <2> QED
    BY <2>1, <2>2
<1>6. ASSUME NEW j, j = [job[a] EXCEPT !.at = "stored", !.open = FALSE, !.held = NONE, !.path = NONE]
      PROVE  Fits(j, disk[SlaveOf(a)])
  <2>1. j = [at |-> "stored", log |-> job[a].log, k |-> job[a].k, peers |-> job[a].peers,
             conn |-> job[a].conn, path |-> NONE, open |-> FALSE, held |-> NONE]
    <3>1. IsJob(job[a])
      BY <1>4 DEF Fits
    <3> QED
      BY <3>1, <1>6, LetGoIs, Zenon
  <2> QED
    BY <1>1, <1>4, <2>1 DEF Fits, IsJob, Place, File
<1> QED
  BY <1>1, <1>5, <1>6, LooksType, SameLinks

LEMMA ReadStoredType ==
  ASSUME TypeInv, NEW a \in Pool, ReadStored(a)
  PROVE  TypeInv'
<1>1. /\ job[a].at = "stored" /\ link[job[a].conn].back # <<>> /\ Hears(job[a].conn)
      /\ Becomes(a, [NextEntry(a) EXCEPT !.at = "entry"])
      /\ UNCHANGED disk /\ UNCHANGED queue /\ UNCHANGED <<sessions, killed, changed, refused>>
  BY DEF ReadStored, At
<1>2. Fits(job[a], disk[SlaveOf(a)]) /\ job[a].conn \in Conn
  BY <1>1, FitsNow, ConnType
<1>3. LinkOK'
  BY <1>1, <1>2, HearsOK DEF TypeInv
<1>4. job[a].k <= Len(job[a].log) /\ job[a].conn # NONE /\ job[a].peers # <<>>
  BY <1>1, <1>2 DEF Fits
<1>5. Fits([NextEntry(a) EXCEPT !.at = "entry"], disk[SlaveOf(a)])
  BY <1>4, NextEntryFits
<1> QED
  BY <1>1, <1>3, <1>5, LooksType, SameLinks

LEMMA NextPeerFits ==
  ASSUME TypeInv, NEW a \in Pool, job[a].peers # <<>>, NEW d
  PROVE  Fits(NextPeer(a), d)
<1>1. job[a].log \in Seq(Entry) /\ Tail(job[a].peers) \in Seq(Slave)
  BY FitsNow DEF Fits
<1> QED
  BY <1>1, IdleFits, Zenon DEF NextPeer

LEMMA SayByeType ==
  ASSUME TypeInv, NEW a \in Pool, SayBye(a)
  PROVE  TypeInv'
<1> DEFINE n == job[a].conn
           l == [link[n] EXCEPT !.out = Append(link[n].out, Bye), !.ends = link[n].ends \ {"replayer"}]
<1>1. /\ job[a].at \in {"bye", "entry"} /\ Becomes(a, NextPeer(a))
      /\ UNCHANGED disk /\ UNCHANGED queue /\ UNCHANGED <<sessions, killed, changed, refused>>
  BY DEF SayBye, At
<1>2. n \in Conn /\ job[a].peers # <<>>
  BY <1>1, ConnType, FitsNow DEF Fits
<1>3. link' = [link EXCEPT ![n] = l]
  <2>1. link' = [link EXCEPT ![n].out = Append(@, Bye), ![n].ends = @ \ {"replayer"}]
    BY DEF SayBye
  <2> QED
    BY <1>2, <2>1 DEF TypeInv, LinkOK
<1>4. l \in [out : Seq(Message), back : Seq({"ready", "done"}), ends : SUBSET {"replayer", "server"}]
  <2>1. Append(link[n].out, Bye) \in Seq(Message)
    BY <1>2, LinkIs, OtherMessages DEF TypeInv
  <2> QED
    BY <1>2, <2>1, LinkIs DEF TypeInv
<1> HIDE DEF l
<1>5. LinkOK'
  BY <1>2, <1>3, <1>4, LinkBecomes DEF TypeInv
<1> QED
  BY <1>1, <1>2, <1>5, NextPeerFits, LooksType, SameLinks

LEMMA ServingFits ==
  ASSUME TypeInv, NEW b \in Pool, job[b].conn \in Conn, NEW d
  PROVE  Fits(Serving(b), d)
BY IdleFits, Zenon DEF Serving

LEMMA AcceptType ==
  ASSUME TypeInv, NEW b \in Pool, Accept(b)
  PROVE  TypeInv'
<1> DEFINE q == queue[SlaveOf(b)]
<1>1. /\ q # <<>> /\ Becomes(b, [Idle EXCEPT !.at = "serve", !.conn = Head(q)])
      /\ queue' = [queue EXCEPT ![SlaveOf(b)] = Tail(q)]
      /\ UNCHANGED disk /\ UNCHANGED link /\ UNCHANGED <<sessions, killed, changed, refused>>
  BY DEF Accept
<1>2. q \in Seq(Conn) /\ SlaveOf(b) \in Slave
  BY SlaveType DEF TypeInv, QueueOK
<1> HIDE DEF q
<1>3. Head(q) \in Conn /\ Tail(q) \in Seq(Conn)
  BY <1>1, <1>2
<1>4. QueueOK'
  BY <1>1, <1>3 DEF TypeInv, QueueOK
<1> QED
  BY <1>1, <1>3, <1>4, IdleFits, LooksType, SameLinks, Zenon

LEMMA ServeRmType ==
  ASSUME TypeInv, NEW b \in Pool, ServeRm(b)
  PROVE  TypeInv'
<1>1. /\ job[b].at = "serve" /\ Reads(b, "update") /\ Remove(b, First(b).entry.path, Serving(b))
      /\ Answers(b, "done") /\ UNCHANGED queue /\ UNCHANGED <<sessions, killed, changed, refused>>
  BY DEF ServeRm, At
<1>2. job[b].conn \in Conn /\ LinkOK
  BY <1>1, ConnType DEF TypeInv
<1>3. link[job[b].conn].out # <<>> /\ First(b).entry.path \in Path
  BY <1>1, <1>2, FirstIs
<1>4. LinkOK'
  BY <1>1, <1>2, <1>3, AnswersOK, Zenon
<1>5. Fits(Serving(b), disk'[SlaveOf(b)])
  BY <1>2, ServingFits
<1> QED
  BY <1>1, <1>3, <1>4, <1>5, RemoveType, SameLinks

LEMMA ServePutType ==
  ASSUME TypeInv, NEW b \in Pool, ServePut(b)
  PROVE  TypeInv'
<1> DEFINE p == First(b).entry.path
<1>1. /\ job[b].at = "serve" /\ Reads(b, "update") /\ Answers(b, "ready")
      /\ Becomes(b, [job[b] EXCEPT !.at = "header", !.path = p])
      /\ UNCHANGED disk /\ UNCHANGED queue /\ UNCHANGED <<sessions, killed, changed, refused>>
  BY DEF ServePut, At
<1>2. Fits(job[b], disk[SlaveOf(b)]) /\ job[b].conn \in Conn /\ LinkOK
  BY <1>1, FitsNow, ConnType DEF TypeInv
<1>3. link[job[b].conn].out # <<>> /\ p \in Path
  BY <1>1, <1>2, FirstIs
<1>4. LinkOK'
  BY <1>1, <1>2, <1>3, AnswersOK, Zenon
<1> HIDE DEF p
<1>5. ASSUME NEW j, j = [job[b] EXCEPT !.at = "header", !.path = p] PROVE Fits(j, disk[SlaveOf(b)])
  <2>1. IsJob(job[b])
    BY <1>2 DEF Fits
  <2>2. j = [at |-> "header", log |-> job[b].log, k |-> job[b].k, peers |-> job[b].peers,
             conn |-> job[b].conn, path |-> p, open |-> job[b].open, held |-> job[b].held]
    BY <1>5, <2>1, WithPathIs, Zenon
  <2> QED
    BY <1>1, <1>2, <1>3, <2>2 DEF Fits, IsJob, Place
<1> QED
  BY <1>1, <1>4, <1>5, LooksType, SameLinks

LEMMA NoSuchFileType ==
  ASSUME TypeInv, NEW b \in Pool, NoSuchFile(b)
  PROVE  TypeInv'
<1>1. /\ job[b].at = "header" /\ Reads(b, "header") /\ Answers(b, "done") /\ Becomes(b, Serving(b))
      /\ UNCHANGED disk /\ UNCHANGED queue /\ UNCHANGED <<sessions, killed, changed, refused>>
  BY DEF NoSuchFile, At
<1>2. job[b].conn \in Conn /\ LinkOK
  BY <1>1, ConnType DEF TypeInv
<1>3. LinkOK'
  BY <1>1, <1>2, FirstIs, AnswersOK, Zenon
<1> QED
  BY <1>1, <1>2, <1>3, ServingFits, LooksType, SameLinks

LEMMA OpenFileType ==
  ASSUME TypeInv, NEW b \in Pool, OpenFile(b)
  PROVE  TypeInv'
<1> DEFINE p == job[b].path
<1>1. /\ job[b].at = "header" /\ Reads(b, "header")
      /\ UNCHANGED queue /\ UNCHANGED <<sessions, killed, changed, refused>>
  BY DEF OpenFile, At
<1>2. Fits(job[b], disk[SlaveOf(b)]) /\ job[b].conn \in Conn /\ LinkOK /\ SlaveOf(b) \in Slave
  BY <1>1, FitsNow, ConnType, SlaveType DEF TypeInv
<1>3. p \in Path /\ job[b].held = NONE
  BY <1>1, <1>2 DEF Fits
<1>4. PICK j : /\ Truncate(b, p, j)
               /\ \/ j = Serving(b) /\ Answers(b, "done")
                  \/ j = [job[b] EXCEPT !.at = "storing", !.open = TRUE] /\ Takes(b)
  BY DEF OpenFile
<1>5. disk' = [disk EXCEPT ![SlaveOf(b)][p] = EMPTY] /\ Becomes(b, j)
  BY <1>4 DEF Truncate
<1>6. EMPTY \in File \ {NONE}
  BY CoherenceAssumption DEF File
<1>7. DiskOK' /\ disk'[SlaveOf(b)][p] = EMPTY
      /\ \A t \in Slave, q \in Path : disk'[t][q] = NONE => disk[t][q] = NONE
  BY <1>2, <1>3, <1>5, <1>6, WrittenOK, Zenon
<1>8. LinkOK'
  BY <1>1, <1>2, <1>4, FirstIs, AnswersOK, TakesOK, Zenon
<1> HIDE DEF p
<1>9. Fits(j, disk'[SlaveOf(b)])
  <2>1. CASE j = Serving(b)
    BY <1>2, <2>1, ServingFits
  <2>2. CASE j = [job[b] EXCEPT !.at = "storing", !.open = TRUE]
    <3>1. IsJob(job[b])
      BY <1>2 DEF Fits
    <3>2. j = [at |-> "storing", log |-> job[b].log, k |-> job[b].k, peers |-> job[b].peers,
               conn |-> job[b].conn, path |-> job[b].path, open |-> TRUE, held |-> job[b].held]
      BY <2>2, <3>1, OpenIs, Zenon
    <3> QED
      BY <1>1, <1>2, <1>3, <1>6, <1>7, <3>2 DEF Fits, IsJob, Place, p
  <2> QED
    BY <1>4, <2>1, <2>2
<1> QED
  BY <1>1, <1>5, <1>7, <1>8, <1>9, TypeStep, SameLinks

\* What is left of a stream is of its type, whatever is dropped of it.
LEMMA DropsOK ==
  ASSUME LinkOK, NEW n \in Conn, link[n].out # <<>>, NEW rest \in {Tail(link[n].out), <<>>},
         link' = [link EXCEPT ![n].out = rest, ![n].back = Append(@, "done")]
  PROVE  LinkOK' /\ link' = [link EXCEPT ![n] = [link[n] EXCEPT !.out = rest,
                                                            !.back = Append(link[n].back, "done")]]
<1>1. rest \in Seq(Message) /\ Append(link[n].back, "done") \in Seq({"ready", "done"})
  <2>1. link[n].out \in Seq(Message) /\ link[n].back \in Seq({"ready", "done"})
    BY LinkIs
  <2>2. Tail(link[n].out) \in Seq(Message) /\ <<>> \in Seq(Message)
    BY <2>1
  <2>3. rest \in Seq(Message)
    BY <2>2
  <2> QED
    BY <2>1, <2>3
<1>2. link' = [link EXCEPT ![n] = [link[n] EXCEPT !.out = rest, !.back = Append(link[n].back, "done")]]
  BY DEF LinkOK
<1>3. [link[n] EXCEPT !.out = rest, !.back = Append(link[n].back, "done")]
        \in [out : Seq(Message), back : Seq({"ready", "done"}), ends : SUBSET {"replayer", "server"}]
  BY <1>1, LinkIs
<1> QED
  BY <1>2, <1>3, LinkBecomes

LEMMA RefuseFileType ==
  ASSUME TypeInv, NEW b \in Pool, RefuseFile(b)
  PROVE  TypeInv'
<1>1. /\ job[b].at = "header" /\ Reads(b, "header") /\ Becomes(b, Serving(b))
      /\ UNCHANGED disk /\ UNCHANGED queue /\ UNCHANGED <<sessions, killed, changed>>
      /\ refused' = refused \cup {<<SlaveOf(b), job[b].path>>}
  BY DEF RefuseFile, At
<1>2. job[b].conn \in Conn /\ LinkOK /\ job[b].path \in Path /\ SlaveOf(b) \in Slave
  BY <1>1, ConnType, FitsNow, SlaveType DEF TypeInv, Fits
<1>3. PICK n \in Conn : n = job[b].conn
  BY <1>2
<1>4. PICK rest \in {Tail(link[n].out), <<>>} :
        link' = [link EXCEPT ![n].out = rest, ![n].back = Append(@, "done")]
  BY <1>3 DEF RefuseFile
<1>5. link[n].out # <<>>
  BY <1>1, <1>2, <1>3, FirstIs
<1>6. LinkOK'
  BY <1>2, <1>4, <1>5, DropsOK
<1>7. CountOK'
  BY <1>1, <1>2 DEF TypeInv, CountOK
<1> QED
  BY <1>1, <1>2, <1>6, <1>7, ServingFits, LooksType, SameLinks

LEMMA StrayType ==
  ASSUME TypeInv, NEW b \in Pool, Stray(b)
  PROVE  TypeInv'
<1>1. /\ job' = [a \in Pool |-> IF job[a].conn = job[b].conn THEN Astray ELSE job[a]]
      /\ UNCHANGED disk /\ UNCHANGED link /\ UNCHANGED queue /\ UNCHANGED <<sessions, killed, changed, refused>>
  BY DEF Stray
<1>2. LinkOK' /\ QueueOK' /\ CountOK' /\ DiskOK'
  BY <1>1, SameLinks, SameFiles
<1>3. ASSUME NEW a \in Pool PROVE JobInv(a)'
  <2>1. job'[a] \in {Astray, job[a]}
    BY <1>1
  <2>2. Fits(job[a], disk[SlaveOf(a)]) /\ Fits(Astray, disk[SlaveOf(a)])
    BY FitsNow, IdleFits, Zenon
  <2>3. Fits(job'[a], disk'[SlaveOf(a)])
    BY <1>1, <2>1, <2>2
  <2> QED
    BY <2>3 DEF JobInv, SlaveOf
<1>4. job' = [a \in Pool |-> job'[a]]
  BY <1>1
<1> QED
  BY <1>2, <1>3, <1>4 DEF TypeInv

LEMMA StoreBlockType ==
  ASSUME TypeInv, NEW b \in Pool, StoreBlock(b)
  PROVE  TypeInv'
<1> DEFINE v == First(b).data
<1>1. /\ job[b].at = "storing" /\ Reads(b, "block") /\ Store(b, v, Serving(b)) /\ Answers(b, "done")
      /\ UNCHANGED queue /\ UNCHANGED <<sessions, killed, changed, refused>>
  BY DEF StoreBlock, At
<1>2. Fits(job[b], disk[SlaveOf(b)]) /\ job[b].conn \in Conn /\ LinkOK /\ SlaveOf(b) \in Slave
  BY <1>1, FitsNow, ConnType, SlaveType DEF TypeInv
<1>3. link[job[b].conn].out # <<>> /\ v \in File \ {NONE}
  BY <1>1, <1>2, FirstIs, CoherenceAssumption DEF File
<1>4. LinkOK'
  BY <1>1, <1>2, <1>3, AnswersOK, Zenon
<1> HIDE DEF v
<1>5. job[b].path \in Path
  BY <1>1, <1>2 DEF Fits
<1>6. DiskOK' /\ \A s \in Slave, p \in Path : disk'[s][p] = NONE => disk[s][p] = NONE
  <2>1. CASE job[b].held = NONE
    <3>1. disk' = [disk EXCEPT ![SlaveOf(b)][job[b].path] = v]
      BY <1>1, <2>1 DEF Store
    <3> QED
      BY <1>2, <1>3, <1>5, <3>1, WrittenOK
  <2>2. CASE job[b].held # NONE
    BY <1>1, <2>2, SameFiles DEF Store
  <2> QED
    BY <2>1, <2>2
<1>7. Becomes(b, Serving(b))
  BY <1>1 DEF Store
<1> QED
  BY <1>1, <1>2, <1>4, <1>6, <1>7, ServingFits, SameLinks, TypeStep

LEMMA ServeByeType ==
  ASSUME TypeInv, NEW b \in Pool, ServeBye(b)
  PROVE  TypeInv'
<1>1. /\ job[b].at = "serve" /\ link' = [link EXCEPT ![job[b].conn] = Closed] /\ Becomes(b, Idle)
      /\ UNCHANGED disk /\ UNCHANGED queue /\ UNCHANGED <<sessions, killed, changed, refused>>
  BY DEF ServeBye, At
<1>2. <<>> \in Seq(Message) /\ <<>> \in Seq({"ready", "done"})
  OBVIOUS
<1>3. Closed \in [out : Seq(Message), back : Seq({"ready", "done"}), ends : SUBSET {"replayer", "server"}]
  BY <1>2 DEF Closed
<1>4. LinkOK'
  BY <1>1, <1>3, ConnType, LinkBecomes DEF TypeInv
<1> QED
  BY <1>1, <1>4, IdleFits, LooksType, SameLinks, Zenon

LEMMA HangsUpOK ==
  ASSUME TypeInv, NEW a \in Pool, NEW end, HangsUp(a, end)
  PROVE  /\ LinkOK'
         /\ IF job[a].conn = NONE THEN link' = link
            ELSE link' = [link EXCEPT ![job[a].conn] =
                   [link[job[a].conn] EXCEPT !.ends = link[job[a].conn].ends \ {end}]]
<1>1. CASE job[a].conn = NONE
  BY <1>1, SameLinks DEF HangsUp
<1>2. CASE job[a].conn # NONE
  <2> DEFINE n == job[a].conn
             l == [link[n] EXCEPT !.ends = link[n].ends \ {end}]
  <2>1. n \in Conn
    BY <1>2, FitsNow DEF Fits
  <2>2. link' = [link EXCEPT ![n] = l]
    BY <1>2 DEF HangsUp
  <2>3. l \in [out : Seq(Message), back : Seq({"ready", "done"}), ends : SUBSET {"replayer", "server"}]
    BY <2>1, LinkIs DEF TypeInv
  <2> HIDE DEF l
  <2>4. LinkOK'
    BY <2>1, <2>2, <2>3, LinkBecomes DEF TypeInv
  <2> QED
    BY <1>2, <2>2, <2>4 DEF l
<1> QED
  BY <1>1, <1>2

LEMMA KillType ==
  ASSUME TypeInv, NEW a \in Pool, Kill(a)
  PROVE  TypeInv'
<1>1. /\ killed < MaxDeaths /\ killed' = killed + 1 /\ Becomes(a, Dead)
      /\ UNCHANGED disk /\ UNCHANGED queue /\ UNCHANGED <<sessions, changed, refused>>
  BY DEF Kill
<1>2. LinkOK' /\ QueueOK'
  BY <1>1, HangsUpOK, SameLinks DEF Kill
<1>3. CountOK'
  BY <1>1, CoherenceAssumption DEF TypeInv, CountOK
<1> QED
  BY <1>1, <1>2, <1>3, IdleFits, LooksType, Zenon

LEMMA PeerLostType ==
  ASSUME TypeInv, NEW a \in Pool, PeerLost(a)
  PROVE  TypeInv'
<1>1. /\ Replaying(a) /\ job[a].conn # NONE /\ \E j \in {Dead, NextPeer(a)} : Becomes(a, j)
      /\ UNCHANGED disk /\ UNCHANGED queue /\ UNCHANGED <<sessions, killed, changed, refused>>
  BY DEF PeerLost
<1>2. job[a].peers # <<>>
  BY <1>1, FitsNow DEF Fits, Replaying
<1>3. LinkOK'
  BY HangsUpOK DEF PeerLost
<1>4. Fits(Dead, disk[SlaveOf(a)]) /\ Fits(NextPeer(a), disk[SlaveOf(a)])
  BY <1>2, IdleFits, NextPeerFits, Zenon
<1> QED
  BY <1>1, <1>3, <1>4, LooksType, SameLinks

LEMMA ReplayerLostType ==
  ASSUME TypeInv, NEW b \in Pool, ReplayerLost(b)
  PROVE  TypeInv'
<1>1. /\ \E j \in {Dead, Idle} : Becomes(b, j)
      /\ UNCHANGED disk /\ UNCHANGED queue /\ UNCHANGED <<sessions, killed, changed, refused>>
  BY DEF ReplayerLost
<1>2. LinkOK'
  BY HangsUpOK DEF ReplayerLost
<1>3. Fits(Dead, disk[SlaveOf(b)]) /\ Fits(Idle, disk[SlaveOf(b)])
  BY IdleFits, Zenon
<1> QED
  BY <1>1, <1>2, <1>3, LooksType, SameLinks

LEMMA TypeInit ==
  ASSUME Init
  PROVE  TypeInv
<1>1. <<>> \in Seq(Message) /\ <<>> \in Seq({"ready", "done"}) /\ <<>> \in Seq(Conn)
  OBVIOUS
<1>2. DiskOK /\ QueueOK
  BY <1>1 DEF Init, DiskOK, QueueOK, File
<1>3. LinkOK
  <2>1. Closed \in [out : Seq(Message), back : Seq({"ready", "done"}), ends : SUBSET {"replayer", "server"}]
    BY <1>1 DEF Closed
  <2> QED
    BY <2>1 DEF Init, LinkOK
<1>4. CountOK
  BY CoherenceAssumption DEF Init, CountOK
<1>5. ASSUME NEW a \in Pool PROVE JobInv(a)
  <2>1. job[a] = Idle
    BY DEF Init
  <2> QED
    BY <2>1, IdleFits, Zenon DEF JobInv
<1>6. job = [a \in Pool |-> job[a]]
  BY DEF Init
<1> QED
  BY <1>2, <1>3, <1>4, <1>5, <1>6 DEF TypeInv

LEMMA TypeNext ==
  ASSUME TypeInv, [Next]_vars
  PROVE  TypeInv'
<1>1. CASE UNCHANGED vars
  <2>1. UNCHANGED disk /\ UNCHANGED job /\ UNCHANGED link /\ UNCHANGED queue
        /\ UNCHANGED <<sessions, killed, changed, refused>>
    BY <1>1 DEF vars
  <2>2. LinkOK' /\ QueueOK' /\ CountOK' /\ DiskOK'
    BY <2>1, SameLinks, SameFiles
  <2> QED
    BY <2>1, <2>2 DEF TypeInv, JobInv, SlaveOf
<1>2. CASE Next
  <2>1. PICK a \in Pool : GoOn(a) \/ Kill(a) \/ \E log \in Journal : Session(a, log)
    BY <1>2 DEF Next
  <2>2. CASE Operation(a) \/ StrayPut(a) \/ (\E v \in Content : Received(a, v)) \/ EndSession(a)
    BY <2>2, OperationType, StrayPutType, ReceivedType, EndSessionType
  <2>3. CASE Replay(a)
    BY <2>3, GetListType, ReturnType, DialType, SendUpdateType, ReadAckType, SendHeaderType,
       SendBlockType, ReadStoredType, SayByeType, PeerLostType DEF Replay
  <2>4. CASE Serve(a)
    BY <2>4, AcceptType, ServeRmType, ServePutType, NoSuchFileType, OpenFileType, RefuseFileType,
       StrayType, StoreBlockType, ServeByeType, ReplayerLostType DEF Serve
  <2>5. CASE Kill(a) \/ \E log \in Journal : Session(a, log)
    BY <2>5, KillType, SessionType
  <2> QED
    BY <2>1, <2>2, <2>3, <2>4, <2>5 DEF GoOn
<1> QED
  BY <1>1, <1>2

\* Files, workers, streams and counters are what they should be (TypeOK of Coherence).
THEOREM TypeCorrect == Spec => []TypeOK
<1>1. Init => TypeInv
  BY TypeInit
<1>2. TypeInv /\ [Next]_vars => TypeInv'
  BY TypeNext
<1>3. TypeInv => TypeOK
  BY TypeInvOK
<1> QED
  BY <1>1, <1>2, <1>3, PTL DEF Spec

-----------------------------------------------------------------------------
(* What each step does, field by field. *)

Others(a) == \A b \in Pool \ {a} : job'[b] = job[b]

Goes(a, at, k) ==
  /\ job'[a].at = at /\ job'[a].k = k
  /\ job'[a].log = job[a].log /\ job'[a].peers = job[a].peers /\ job'[a].conn = job[a].conn
  /\ Others(a)

Opens(a, path, open, held) == job'[a].path = path /\ job'[a].open = open /\ job'[a].held = held

Carries(n, out, back, ends) ==
  /\ link'[n].out = out /\ link'[n].back = back /\ link'[n].ends = ends
  /\ \A m \in Conn \ {n} : link'[m] = link[m]

Counts == UNCHANGED sessions /\ UNCHANGED killed /\ UNCHANGED changed /\ UNCHANGED refused

LEMMA GoesIs ==
  ASSUME TypeInv, NEW a \in Pool, NEW j, Becomes(a, j)
  PROVE  job'[a] = j /\ Others(a)
BY BecomesIs DEF Others

LEMMA ElsewhereGoes ==
  ASSUME TypeInv, NEW a \in Pool, NEW at, Becomes(a, [job[a] EXCEPT !.at = at])
  PROVE  Goes(a, at, job[a].k) /\ Opens(a, job[a].path, job[a].open, job[a].held)
<1>1. [job[a] EXCEPT !.at = at]
           = [at |-> at, log |-> job[a].log, k |-> job[a].k, peers |-> job[a].peers,
              conn |-> job[a].conn, path |-> job[a].path, open |-> job[a].open, held |-> job[a].held]
  BY AtIs
<1> QED
  BY <1>1, GoesIs DEF Goes, Opens

LEMMA NextEntryGoes ==
  ASSUME TypeInv, NEW a \in Pool, NEW at, Becomes(a, [NextEntry(a) EXCEPT !.at = at])
  PROVE  Goes(a, at, job[a].k + 1) /\ Opens(a, NONE, FALSE, NONE)
<1>1. [NextEntry(a) EXCEPT !.at = at]
           = [at |-> at, log |-> job[a].log, k |-> job[a].k + 1, peers |-> job[a].peers,
              conn |-> job[a].conn, path |-> NONE, open |-> FALSE, held |-> NONE]
  BY NextEntryIs
<1> QED
  BY <1>1, GoesIs DEF Goes, Opens

LEMMA SaysCarries ==
  ASSUME LinkOK, NEW n \in Conn, NEW m \in Message, Says(n, m)
  PROVE  Carries(n, Append(link[n].out, m), link[n].back, link[n].ends)
BY SaysOK, LinkIs DEF Carries, LinkOK

LEMMA HearsCarries ==
  ASSUME LinkOK, NEW n \in Conn, link[n].back # <<>>, Hears(n)
  PROVE  Carries(n, link[n].out, Tail(link[n].back), link[n].ends)
<1> DEFINE l == [link[n] EXCEPT !.back = Tail(link[n].back)]
<1>1. link' = [link EXCEPT ![n] = l]
  BY HearsOK
<1>2. l.out = link[n].out /\ l.back = Tail(link[n].back) /\ l.ends = link[n].ends
  BY LinkIs
<1> HIDE DEF l
<1> QED
  BY <1>1, <1>2 DEF Carries, LinkOK

LEMMA TakesCarries ==
  ASSUME LinkOK, NEW b \in Pool, job[b].conn \in Conn, link[job[b].conn].out # <<>>, Takes(b)
  PROVE  LET n == job[b].conn IN Carries(n, Tail(link[n].out), link[n].back, link[n].ends)
<1> DEFINE n == job[b].conn
           l == [link[n] EXCEPT !.out = Tail(link[n].out)]
<1>1. link' = [link EXCEPT ![n] = l]
  BY TakesOK
<1>2. l.out = Tail(link[n].out) /\ l.back = link[n].back /\ l.ends = link[n].ends
  BY LinkIs
<1> HIDE DEF l
<1> QED
  BY <1>1, <1>2 DEF Carries, LinkOK

LEMMA AnswersCarries ==
  ASSUME LinkOK, NEW b \in Pool, job[b].conn \in Conn, link[job[b].conn].out # <<>>,
         NEW m \in {"ready", "done"}, Answers(b, m)
  PROVE  LET n == job[b].conn
         IN Carries(n, Tail(link[n].out), Append(link[n].back, m), link[n].ends)
<1> DEFINE n == job[b].conn
           l == [link[n] EXCEPT !.out = Tail(link[n].out), !.back = Append(link[n].back, m)]
<1>1. link' = [link EXCEPT ![n] = l]
  BY AnswersOK, Zenon
<1>2. l.out = Tail(link[n].out) /\ l.back = Append(link[n].back, m) /\ l.ends = link[n].ends
  BY LinkIs
<1> HIDE DEF l
<1> QED
  BY <1>1, <1>2 DEF Carries, LinkOK

LEMMA SessionDoes ==
  ASSUME TypeInv, NEW a \in Pool, NEW log \in Journal, Session(a, log)
  PROVE  /\ job[a].at = "accept" /\ job'[a].at = "session" /\ job'[a].log = log /\ job'[a].k = 1
         /\ job'[a].conn = NONE /\ Others(a) /\ log \in Seq(Entry)
         /\ UNCHANGED disk /\ UNCHANGED link /\ UNCHANGED queue /\ UNCHANGED killed /\ UNCHANGED refused
         /\ changed' = [p \in Path |->
              IF \E k \in DOMAIN log : log[k].path = p THEN changed[p] + 1 ELSE changed[p]]
<1>1. Becomes(a, [Idle EXCEPT !.at = "session", !.log = log])
  BY DEF Session
<1>2. [Idle EXCEPT !.at = "session", !.log = log]
        = [at |-> "session", log |-> log, k |-> 1, peers |-> <<>>, conn |-> NONE,
           path |-> NONE, open |-> FALSE, held |-> NONE]
  BY IdleIs, Zenon
<1>3. job'[a] = [at |-> "session", log |-> log, k |-> 1, peers |-> <<>>, conn |-> NONE,
                 path |-> NONE, open |-> FALSE, held |-> NONE] /\ Others(a)
  BY <1>1, <1>2, GoesIs
<1> QED
  BY <1>3, CoherenceAssumption DEF Session, At

LEMMA RmDoes ==
  ASSUME TypeInv, NEW a \in Pool, Operation(a), EntryOf(a).type = "RM"
  PROVE  LET p == EntryOf(a).path
         IN /\ job[a].at = "session" /\ job[a].k <= Len(job[a].log) /\ p \in Path
            /\ Remove(a, p, NextEntry(a))
            /\ job'[a].at = "session" /\ job'[a].k = job[a].k + 1
            /\ job'[a].log = job[a].log /\ job'[a].conn = job[a].conn /\ job'[a].peers = job[a].peers
            /\ disk' = [disk EXCEPT ![SlaveOf(a)][p] = NONE]
            /\ UNCHANGED link /\ UNCHANGED queue /\ Counts
<1> DEFINE p == EntryOf(a).path
<1>1. /\ job[a].at = "session" /\ job[a].k <= Len(job[a].log) /\ Remove(a, p, NextEntry(a))
      /\ UNCHANGED link /\ UNCHANGED queue /\ Counts
  BY DEF Operation, At, Counts
<1>2. p \in Path
  BY <1>1, EntryNow
<1> HIDE DEF p
<1>3. job'[a] = NextEntry(a) /\ disk' = [disk EXCEPT ![SlaveOf(a)][p] = NONE]
  BY <1>1, <1>2, RemoveIs
<1>4. /\ job'[a].at = "session" /\ job'[a].k = job[a].k + 1
      /\ job'[a].log = job[a].log /\ job'[a].conn = job[a].conn /\ job'[a].peers = job[a].peers
  BY <1>1, <1>3, NextEntryIs
<1> QED
  BY <1>1, <1>2, <1>3, <1>4 DEF p

LEMMA PutDoes ==
  ASSUME TypeInv, NEW a \in Pool, Operation(a), EntryOf(a).type # "RM"
  PROVE  LET p == EntryOf(a).path
         IN /\ job[a].at = "session" /\ job[a].k <= Len(job[a].log) /\ p \in Path
            /\ EntryOf(a).type = "PUT"
            /\ UNCHANGED link /\ UNCHANGED queue /\ Counts
            /\ \/ /\ Goes(a, "receive", job[a].k) /\ job'[a].held = NONE
                  /\ disk' = [disk EXCEPT ![SlaveOf(a)][p] = EMPTY]
               \/ /\ Goes(a, "session", job[a].k + 1)
                  /\ disk[SlaveOf(a)][p] = NONE /\ UNCHANGED disk
<1> DEFINE p == EntryOf(a).path
<1>1. /\ job[a].at = "session" /\ job[a].k <= Len(job[a].log)
      /\ UNCHANGED link /\ UNCHANGED queue /\ Counts
  BY DEF Operation, At, Counts
<1>2. p \in Path /\ EntryOf(a).type = "PUT"
  BY <1>1, EntryNow
<1>3. Fits(job[a], disk[SlaveOf(a)])
  BY FitsNow
<1>4. job[a].held = NONE /\ IsJob(job[a])
  BY <1>1, <1>3 DEF Fits
<1>5. \/ Truncate(a, p, [job[a] EXCEPT !.at = "receive", !.path = p, !.open = TRUE])
      \/ disk[SlaveOf(a)][p] = NONE /\ Becomes(a, NextEntry(a)) /\ UNCHANGED disk
  BY <1>2 DEF Operation
<1>6. p = EntryOf(a).path
  OBVIOUS
<1> HIDE DEF p
<1>7. CASE Truncate(a, p, [job[a] EXCEPT !.at = "receive", !.path = p, !.open = TRUE])
  <2>1. /\ disk' = [disk EXCEPT ![SlaveOf(a)][p] = EMPTY]
        /\ Becomes(a, [job[a] EXCEPT !.at = "receive", !.path = p, !.open = TRUE])
    BY <1>7 DEF Truncate
  <2>2. [job[a] EXCEPT !.at = "receive", !.path = p, !.open = TRUE]
          = [at |-> "receive", log |-> job[a].log, k |-> job[a].k, peers |-> job[a].peers,
             conn |-> job[a].conn, path |-> p, open |-> TRUE, held |-> job[a].held]
    BY <1>4, OpenedIs, Zenon
  <2>3. Goes(a, "receive", job[a].k) /\ job'[a].held = NONE
    BY <1>4, <2>1, <2>2, GoesIs DEF Goes
  <2> QED
    BY <1>1, <1>2, <1>6, <2>1, <2>3
<1>8. CASE disk[SlaveOf(a)][p] = NONE /\ Becomes(a, NextEntry(a)) /\ UNCHANGED disk
  <2>1. Goes(a, "session", job[a].k + 1)
    BY <1>1, <1>8, GoesIs, NextEntryIs DEF Goes
  <2> QED
    BY <1>1, <1>2, <1>6, <1>8, <2>1
<1> QED
  BY <1>5, <1>7, <1>8

LEMMA StrayPutDoes ==
  ASSUME TypeInv, NEW a \in Pool, StrayPut(a)
  PROVE  /\ job[a].at = "session" /\ job'[a] = Astray /\ Others(a)
         /\ UNCHANGED disk /\ UNCHANGED link /\ UNCHANGED queue /\ Counts
BY GoesIs DEF StrayPut, At, Counts

LEMMA ReceivedDoes ==
  ASSUME TypeInv, NEW a \in Pool, NEW v \in Content, Received(a, v)
  PROVE  LET p == EntryOf(a).path
         IN /\ job[a].at = "receive" /\ job[a].k <= Len(job[a].log) /\ p \in Path
            /\ job[a].path = p /\ EntryOf(a).type = "PUT"
            /\ Goes(a, "session", job[a].k + 1)
            /\ disk' = IF job[a].held = NONE THEN [disk EXCEPT ![SlaveOf(a)][p] = v] ELSE disk
            /\ UNCHANGED link /\ UNCHANGED queue /\ Counts
<1>1. /\ job[a].at = "receive" /\ Store(a, v, [NextEntry(a) EXCEPT !.at = "session"])
      /\ UNCHANGED link /\ UNCHANGED queue /\ Counts
  BY DEF Received, At, Counts
<1>2. job[a].k <= Len(job[a].log) /\ job[a].path = EntryOf(a).path /\ EntryOf(a).type = "PUT"
  BY <1>1, FitsNow DEF Fits, EntryOf
<1>3. EntryOf(a).path \in Path
  BY <1>2, EntryNow
<1>4. Goes(a, "session", job[a].k + 1)
  BY <1>1, NextEntryGoes DEF Store
<1> QED
  BY <1>1, <1>2, <1>3, <1>4 DEF Store

LEMMA EndSessionDoes ==
  ASSUME TypeInv, NEW a \in Pool, EndSession(a)
  PROVE  /\ job[a].at = "session" /\ job[a].k > Len(job[a].log) /\ job'[a].conn = NONE
         /\ job'[a].log = job[a].log /\ Others(a)
         /\ job'[a].at = IF job[a].log = <<>> THEN "accept" ELSE "list"
         /\ UNCHANGED disk /\ UNCHANGED link /\ UNCHANGED queue /\ Counts
<1>1. /\ job[a].at = "session" /\ job[a].k > Len(job[a].log)
      /\ Becomes(a, IF job[a].log = <<>> THEN Idle ELSE [job[a] EXCEPT !.at = "list", !.k = 1])
      /\ UNCHANGED disk /\ UNCHANGED link /\ UNCHANGED queue /\ Counts
  BY DEF EndSession, At, Counts
<1>2. Others(a) /\ job'[a] = IF job[a].log = <<>> THEN Idle ELSE [job[a] EXCEPT !.at = "list", !.k = 1]
  BY <1>1, GoesIs
<1>3. job[a].conn = NONE /\ IsJob(job[a])
  BY <1>1, FitsNow DEF Fits
<1>4. [job[a] EXCEPT !.at = "list", !.k = 1]
        = [at |-> "list", log |-> job[a].log, k |-> 1, peers |-> job[a].peers, conn |-> job[a].conn,
           path |-> job[a].path, open |-> job[a].open, held |-> job[a].held]
  BY <1>3, ListIs, Zenon
<1>5. Idle.at = "accept" /\ Idle.log = <<>> /\ Idle.conn = NONE
  BY DEF Idle
<1>6. CASE job[a].log = <<>>
  BY <1>1, <1>2, <1>5, <1>6
<1>7. CASE job[a].log # <<>>
  BY <1>1, <1>2, <1>3, <1>4, <1>7
<1> QED
  BY <1>6, <1>7

LEMMA GetListDoes ==
  ASSUME TypeInv, NEW a \in Pool, GetList(a)
  PROVE  /\ job[a].at = "list" /\ job'[a].at = "peer" /\ job'[a].conn = NONE
         /\ job'[a].log = job[a].log /\ job'[a].peers = Peers(SlaveOf(a)) /\ Others(a)
         /\ UNCHANGED disk /\ UNCHANGED link /\ UNCHANGED queue /\ Counts
<1>1. /\ job[a].at = "list" /\ Becomes(a, [job[a] EXCEPT !.at = "peer", !.peers = Peers(SlaveOf(a))])
      /\ UNCHANGED disk /\ UNCHANGED link /\ UNCHANGED queue /\ Counts
  BY DEF GetList, At, Counts
<1>2. IsJob(job[a]) /\ job[a].conn = NONE
  BY <1>1, FitsNow DEF Fits
<1>3. [job[a] EXCEPT !.at = "peer", !.peers = Peers(SlaveOf(a))]
        = [at |-> "peer", log |-> job[a].log, k |-> job[a].k, peers |-> Peers(SlaveOf(a)),
           conn |-> job[a].conn, path |-> job[a].path, open |-> job[a].open, held |-> job[a].held]
  BY <1>2, WithPeersIs, Zenon
<1> QED
  BY <1>1, <1>2, <1>3, GoesIs

LEMMA ReturnDoes ==
  ASSUME TypeInv, NEW a \in Pool, Return(a)
  PROVE  /\ job[a].at = "peer" /\ job[a].peers = <<>> /\ job'[a] = Idle /\ Others(a)
         /\ UNCHANGED disk /\ UNCHANGED link /\ UNCHANGED queue /\ Counts
BY GoesIs DEF Return, At, Counts

LEMMA DialDoes ==
  ASSUME TypeInv, NEW a \in Pool, Dial(a)
  PROVE  /\ job[a].at = "peer" /\ job[a].peers # <<>> /\ Head(job[a].peers) \in Slave
         /\ job'[a].at = "entry" /\ job'[a].k = 1
         /\ job'[a].log = job[a].log /\ job'[a].peers = job[a].peers /\ Others(a)
         /\ job'[a].conn \in Conn /\ Unused(job'[a].conn)
         /\ queue' = [queue EXCEPT ![Head(job[a].peers)] = Append(queue[Head(job[a].peers)], job'[a].conn)]
         /\ Carries(job'[a].conn, <<>>, <<>>, {"replayer", "server"})
         /\ UNCHANGED disk /\ Counts
<1>1. job[a].at = "peer" /\ job[a].peers # <<>> /\ UNCHANGED disk /\ Counts
  BY DEF Dial, At, Counts
<1>2. PICK n \in Conn :
        /\ Unused(n)
        /\ link' = [link EXCEPT ![n] = [Closed EXCEPT !.ends = {"replayer", "server"}]]
        /\ queue' = [queue EXCEPT ![Head(job[a].peers)] = Append(@, n)]
        /\ Becomes(a, [job[a] EXCEPT !.at = "entry", !.k = 1, !.conn = n])
  BY Zenon DEF Dial
<1>3. IsJob(job[a]) /\ job[a].peers \in Seq(Slave)
  BY FitsNow DEF Fits
<1>4. Head(job[a].peers) \in Slave
  BY <1>1, <1>3
<1>5. [job[a] EXCEPT !.at = "entry", !.k = 1, !.conn = n]
        = [at |-> "entry", log |-> job[a].log, k |-> 1, peers |-> job[a].peers,
           conn |-> n, path |-> job[a].path, open |-> job[a].open, held |-> job[a].held]
  BY <1>3, DialedIs, Zenon
<1>6. Others(a) /\ job'[a] = [at |-> "entry", log |-> job[a].log, k |-> 1, peers |-> job[a].peers,
           conn |-> n, path |-> job[a].path, open |-> job[a].open, held |-> job[a].held]
  BY <1>2, <1>5, GoesIs
<1>7. /\ job'[a].at = "entry" /\ job'[a].k = 1 /\ job'[a].conn = n
      /\ job'[a].log = job[a].log /\ job'[a].peers = job[a].peers
  BY <1>6
<1>8. Carries(n, <<>>, <<>>, {"replayer", "server"})
  <2>1. link' = [link EXCEPT ![n] = [out |-> <<>>, back |-> <<>>, ends |-> {"replayer", "server"}]]
    BY <1>2, NewLinkIs
  <2> QED
    BY <2>1 DEF TypeInv, LinkOK, Carries
<1> QED
  BY <1>1, <1>2, <1>4, <1>6, <1>7, <1>8

LEMMA SendUpdateDoes ==
  ASSUME TypeInv, NEW a \in Pool, SendUpdate(a)
  PROVE  LET n == job[a].conn
         IN /\ n \in Conn /\ job[a].at = "entry" /\ job[a].k <= Len(job[a].log)
            /\ Goes(a, "ack", job[a].k)
            /\ Carries(n, Append(link[n].out, Update(EntryOf(a))), link[n].back, link[n].ends)
            /\ EntryOf(a) \in Entry
            /\ UNCHANGED disk /\ UNCHANGED queue /\ Counts
<1>1. /\ job[a].at = "entry" /\ job[a].k <= Len(job[a].log)
      /\ Says(job[a].conn, Update(EntryOf(a))) /\ Becomes(a, [job[a] EXCEPT !.at = "ack"])
      /\ UNCHANGED disk /\ UNCHANGED queue /\ Counts
  BY DEF SendUpdate, At, Counts
<1>2. job[a].conn \in Conn /\ Update(EntryOf(a)) \in Message /\ EntryOf(a) \in Entry
  BY <1>1, ConnType, EntryNow, OtherMessages
<1> QED
  BY <1>1, <1>2, ElsewhereGoes, SaysCarries DEF TypeInv

LEMMA ReadAckDoes ==
  ASSUME TypeInv, NEW a \in Pool, ReadAck(a)
  PROVE  LET n == job[a].conn
         IN /\ n \in Conn /\ job[a].at = "ack" /\ job[a].k <= Len(job[a].log) /\ link[n].back # <<>>
            /\ \/ EntryOf(a).type = "RM" /\ Goes(a, "entry", job[a].k + 1)
               \/ /\ EntryOf(a).type = "PUT"
                  /\ Goes(a, IF Head(link[n].back) = "ready" THEN "open" ELSE "bye", job[a].k)
            /\ Carries(n, link[n].out, Tail(link[n].back), link[n].ends)
            /\ UNCHANGED disk /\ UNCHANGED queue /\ Counts
<1>1. /\ job[a].at = "ack" /\ link[job[a].conn].back # <<>> /\ Hears(job[a].conn)
      /\ Becomes(a,
           IF EntryOf(a).type = "RM" THEN [NextEntry(a) EXCEPT !.at = "entry"]
           ELSE [job[a] EXCEPT !.at = IF Head(link[job[a].conn].back) = "ready" THEN "open" ELSE "bye"])
      /\ UNCHANGED disk /\ UNCHANGED queue /\ Counts
  BY DEF ReadAck, At, Counts
<1>2. job[a].conn \in Conn /\ job[a].k <= Len(job[a].log)
  BY <1>1, ConnType, FitsNow DEF Fits
<1>3. EntryOf(a).type \in {"RM", "PUT"}
  BY <1>2, EntryNow
<1>4. CASE EntryOf(a).type = "RM"
  BY <1>1, <1>2, <1>4, NextEntryGoes, HearsCarries DEF TypeInv
<1>5. CASE EntryOf(a).type = "PUT"
  BY <1>1, <1>2, <1>5, ElsewhereGoes, HearsCarries DEF TypeInv
<1> QED
  BY <1>3, <1>4, <1>5

LEMMA SendHeaderDoes ==
  ASSUME TypeInv, NEW a \in Pool, SendHeader(a)
  PROVE  LET n == job[a].conn
             p == EntryOf(a).path
             v == disk[SlaveOf(a)][p]
         IN /\ n \in Conn /\ job[a].at = "open" /\ job[a].k <= Len(job[a].log)
            /\ p \in Path /\ v \in File /\ EntryOf(a).type = "PUT"
            /\ Goes(a, IF v \in {NONE, EMPTY} THEN "stored" ELSE "block", job[a].k)
            /\ job'[a].held = NONE
            /\ Carries(n, Append(link[n].out, Header(v)), link[n].back, link[n].ends)
            /\ UNCHANGED disk /\ UNCHANGED queue /\ Counts
<1> DEFINE p == EntryOf(a).path
           v == disk[SlaveOf(a)][p]
<1>1. /\ job[a].at = "open" /\ Says(job[a].conn, Header(v))
      /\ Becomes(a, IF v \in {NONE, EMPTY} THEN [job[a] EXCEPT !.at = "stored"]
                    ELSE [job[a] EXCEPT !.at = "block", !.path = p, !.open = TRUE])
      /\ UNCHANGED disk /\ UNCHANGED queue /\ Counts
  BY DEF SendHeader, At, Counts
<1>2. /\ Fits(job[a], disk[SlaveOf(a)]) /\ job[a].conn \in Conn /\ SlaveOf(a) \in Slave
  BY <1>1, FitsNow, ConnType, SlaveType
<1>3. job[a].k <= Len(job[a].log) /\ job[a].held = NONE /\ EntryOf(a).type = "PUT" /\ IsJob(job[a])
  <2>1. IsJob(job[a])
    BY <1>2 DEF Fits
  <2>2. job[a].k <= Len(job[a].log) /\ job[a].held = NONE /\ job[a].log[job[a].k].type = "PUT"
    BY <1>1, <1>2 DEF Fits
  <2> QED
    BY <2>1, <2>2 DEF EntryOf
<1>4. p \in Path
  BY <1>3, EntryNow
<1>5. v \in File
  BY <1>2, <1>4 DEF TypeInv, DiskOK
<1>6. v = disk[SlaveOf(a)][EntryOf(a).path] /\ p = EntryOf(a).path
  OBVIOUS
<1> HIDE DEF v, p
<1>7. Carries(job[a].conn, Append(link[job[a].conn].out, Header(v)), link[job[a].conn].back, link[job[a].conn].ends)
  BY <1>1, <1>2, <1>5, HeaderIs, SaysCarries DEF TypeInv
<1>8. Goes(a, IF v \in {NONE, EMPTY} THEN "stored" ELSE "block", job[a].k) /\ job'[a].held = NONE
  <2>1. CASE v \in {NONE, EMPTY}
    BY <1>1, <1>3, <2>1, ElsewhereGoes DEF Opens
  <2>2. CASE v \notin {NONE, EMPTY}
    <3>1. [job[a] EXCEPT !.at = "block", !.path = p, !.open = TRUE]
            = [at |-> "block", log |-> job[a].log, k |-> job[a].k, peers |-> job[a].peers,
               conn |-> job[a].conn, path |-> p, open |-> TRUE, held |-> job[a].held]
      BY <1>3, OpenedIs, Zenon
    <3> QED
      BY <1>1, <1>3, <2>2, <3>1, GoesIs DEF Goes
  <2> QED
    BY <2>1, <2>2
<1> QED
  BY <1>1, <1>2, <1>3, <1>4, <1>5, <1>6, <1>7, <1>8

LEMMA SendBlockDoes ==
  ASSUME TypeInv, NEW a \in Pool, SendBlock(a)
  PROVE  LET n == job[a].conn
         IN /\ n \in Conn /\ job[a].at = "block" /\ job[a].k <= Len(job[a].log)
            /\ job[a].path = EntryOf(a).path /\ EntryOf(a).type = "PUT"
            /\ Goes(a, "stored", job[a].k)
            /\ \E v \in Readable(a) :
                 \/ v = EMPTY /\ UNCHANGED link
                 \/ /\ v # EMPTY /\ v \in Content \cup {OLD}
                    /\ Carries(n, Append(link[n].out, Block(v)), link[n].back, link[n].ends)
            /\ UNCHANGED disk /\ UNCHANGED queue /\ Counts
<1>1. /\ job[a].at = "block"
      /\ Becomes(a, [job[a] EXCEPT !.at = "stored", !.open = FALSE, !.held = NONE, !.path = NONE])
      /\ UNCHANGED disk /\ UNCHANGED queue /\ Counts
  BY DEF SendBlock, At, Counts
<1>2. PICK v \in Readable(a) : IF v = EMPTY THEN UNCHANGED link ELSE Says(job[a].conn, Block(v))
  BY DEF SendBlock
<1>3. v \in Content \cup {OLD, EMPTY}
  BY <1>1, ReadableIs
<1>4. Fits(job[a], disk[SlaveOf(a)]) /\ job[a].conn \in Conn
  BY <1>1, FitsNow, ConnType
<1>5. IsJob(job[a]) /\ job[a].k <= Len(job[a].log) /\ job[a].path = EntryOf(a).path /\ EntryOf(a).type = "PUT"
  BY <1>1, <1>4 DEF Fits, EntryOf
<1>6. [job[a] EXCEPT !.at = "stored", !.open = FALSE, !.held = NONE, !.path = NONE]
        = [at |-> "stored", log |-> job[a].log, k |-> job[a].k, peers |-> job[a].peers,
           conn |-> job[a].conn, path |-> NONE, open |-> FALSE, held |-> NONE]
  BY <1>5, LetGoIs, Zenon
<1>7. Goes(a, "stored", job[a].k)
  BY <1>1, <1>6, GoesIs DEF Goes
<1>8. v = EMPTY => UNCHANGED link
  BY <1>2
<1>9. v # EMPTY => /\ v \in Content \cup {OLD}
                   /\ Carries(job[a].conn, Append(link[job[a].conn].out, Block(v)),
                              link[job[a].conn].back, link[job[a].conn].ends)
  <2>1. SUFFICES ASSUME v # EMPTY
                 PROVE  /\ v \in Content \cup {OLD}
                        /\ Carries(job[a].conn, Append(link[job[a].conn].out, Block(v)),
                                   link[job[a].conn].back, link[job[a].conn].ends)
    OBVIOUS
  <2>2. Says(job[a].conn, Block(v)) /\ v \in Content \cup {OLD}
    BY <1>2, <1>3, <2>1
  <2> QED
    BY <1>4, <2>2, OtherMessages, SaysCarries DEF TypeInv
<1> QED
  BY <1>1, <1>4, <1>5, <1>7, <1>8, <1>9

LEMMA ReadStoredDoes ==
  ASSUME TypeInv, NEW a \in Pool, ReadStored(a)
  PROVE  LET n == job[a].conn
         IN /\ n \in Conn /\ job[a].at = "stored" /\ job[a].k <= Len(job[a].log) /\ link[n].back # <<>>
            /\ Goes(a, "entry", job[a].k + 1) /\ EntryOf(a).type = "PUT"
            /\ Carries(n, link[n].out, Tail(link[n].back), link[n].ends)
            /\ UNCHANGED disk /\ UNCHANGED queue /\ Counts
<1>1. /\ job[a].at = "stored" /\ link[job[a].conn].back # <<>> /\ Hears(job[a].conn)
      /\ Becomes(a, [NextEntry(a) EXCEPT !.at = "entry"])
      /\ UNCHANGED disk /\ UNCHANGED queue /\ Counts
  BY DEF ReadStored, At, Counts
<1>2. job[a].conn \in Conn /\ job[a].k <= Len(job[a].log) /\ EntryOf(a).type = "PUT"
  BY <1>1, ConnType, FitsNow DEF Fits, EntryOf
<1> QED
  BY <1>1, <1>2, NextEntryGoes, HearsCarries DEF TypeInv

LEMMA NextPeerIs ==
  ASSUME NEW a \in Pool
  PROVE  NextPeer(a) = [at |-> "peer", log |-> job[a].log, k |-> 1, peers |-> Tail(job[a].peers),
                        conn |-> NONE, path |-> NONE, open |-> FALSE, held |-> NONE]
BY IdleIs, Zenon DEF NextPeer

LEMMA SayByeDoes ==
  ASSUME TypeInv, NEW a \in Pool, SayBye(a)
  PROVE  LET n == job[a].conn
         IN /\ n \in Conn
            /\ job[a].at = "bye" \/ (job[a].at = "entry" /\ job[a].k > Len(job[a].log))
            /\ job[a].peers # <<>> /\ job'[a] = NextPeer(a) /\ Others(a)
            /\ Carries(n, Append(link[n].out, Bye), link[n].back, link[n].ends \ {"replayer"})
            /\ UNCHANGED disk /\ UNCHANGED queue /\ Counts
<1> DEFINE n == job[a].conn
           l == [link[n] EXCEPT !.out = Append(link[n].out, Bye), !.ends = link[n].ends \ {"replayer"}]
<1>1. /\ job[a].at = "bye" \/ (job[a].at = "entry" /\ job[a].k > Len(job[a].log))
      /\ Becomes(a, NextPeer(a)) /\ UNCHANGED disk /\ UNCHANGED queue /\ Counts
  BY DEF SayBye, At, Counts
<1>2. n \in Conn /\ job[a].peers # <<>>
  BY <1>1, ConnType, FitsNow DEF Fits
<1>3. link' = [link EXCEPT ![n] = l]
  <2>1. link' = [link EXCEPT ![n].out = Append(@, Bye), ![n].ends = @ \ {"replayer"}]
    BY DEF SayBye
  <2> QED
    BY <1>2, <2>1 DEF TypeInv, LinkOK
<1>4. /\ l.out = Append(link[n].out, Bye) /\ l.back = link[n].back
      /\ l.ends = link[n].ends \ {"replayer"}
  BY <1>2, LinkIs DEF TypeInv
<1> HIDE DEF l
<1>5. Carries(n, Append(link[n].out, Bye), link[n].back, link[n].ends \ {"replayer"})
  BY <1>2, <1>3, <1>4 DEF Carries, TypeInv, LinkOK
<1> QED
  BY <1>1, <1>2, <1>5, GoesIs

LEMMA ServingIs ==
  ASSUME NEW b \in Pool
  PROVE  Serving(b) = [at |-> "serve", log |-> <<>>, k |-> 1, peers |-> <<>>, conn |-> job[b].conn,
                       path |-> NONE, open |-> FALSE, held |-> NONE]
BY IdleIs, Zenon DEF Serving

LEMMA AcceptDoes ==
  ASSUME TypeInv, NEW b \in Pool, Accept(b)
  PROVE  LET s == SlaveOf(b)
         IN /\ job[b].at = "accept" /\ s \in Slave /\ queue[s] # <<>> /\ Head(queue[s]) \in Conn
            /\ job'[b].at = "serve" /\ job'[b].conn = Head(queue[s]) /\ job'[b].log = <<>>
            /\ job'[b].held = NONE /\ Others(b)
            /\ queue' = [queue EXCEPT ![s] = Tail(queue[s])]
            /\ UNCHANGED disk /\ UNCHANGED link /\ Counts
<1> DEFINE s == SlaveOf(b)
           j == [Idle EXCEPT !.at = "serve", !.conn = Head(queue[s])]
<1>1. /\ job[b].at = "accept" /\ queue[s] # <<>> /\ Becomes(b, j)
      /\ queue' = [queue EXCEPT ![s] = Tail(queue[s])]
      /\ UNCHANGED disk /\ UNCHANGED link /\ Counts
  BY DEF Accept, At, Counts
<1>2. queue[s] \in Seq(Conn) /\ s \in Slave
  BY SlaveType DEF TypeInv, QueueOK
<1>3. Head(queue[s]) \in Conn
  BY <1>1, <1>2
<1>4. j = [at |-> "serve", log |-> <<>>, k |-> 1, peers |-> <<>>, conn |-> Head(queue[s]),
           path |-> NONE, open |-> FALSE, held |-> NONE]
  BY IdleIs, Zenon
<1>5. j.at = "serve" /\ j.conn = Head(queue[s]) /\ j.log = <<>> /\ j.held = NONE
  BY <1>4
<1> HIDE DEF j
<1> QED
  BY <1>1, <1>2, <1>3, <1>5, GoesIs

\* What a worker that has read a message can be.
LEMMA ServerIs ==
  ASSUME TypeInv, NEW b \in Pool, job[b].at \in {"serve", "header", "storing"}
  PROVE  /\ job[b].conn \in Conn /\ SlaveOf(b) \in Slave
         /\ job[b].at # "serve" => job[b].path \in Path
         /\ job[b].at # "storing" => job[b].held = NONE
         /\ job[b].log = <<>>
BY ConnType, FitsNow, SlaveType DEF Fits

LEMMA ServeRmDoes ==
  ASSUME TypeInv, NEW b \in Pool, ServeRm(b)
  PROVE  LET n == job[b].conn
             p == First(b).entry.path
         IN /\ n \in Conn /\ job[b].at = "serve" /\ SlaveOf(b) \in Slave
            /\ link[n].out # <<>> /\ First(b).kind = "update" /\ First(b).entry.type = "RM" /\ p \in Path
            /\ Remove(b, p, Serving(b)) /\ job'[b] = Serving(b)
            /\ disk' = [disk EXCEPT ![SlaveOf(b)][p] = NONE]
            /\ Carries(n, Tail(link[n].out), Append(link[n].back, "done"), link[n].ends)
            /\ UNCHANGED queue /\ Counts
<1>1. /\ job[b].at = "serve" /\ Reads(b, "update") /\ First(b).entry.type = "RM"
      /\ Remove(b, First(b).entry.path, Serving(b))
      /\ Answers(b, "done") /\ UNCHANGED queue /\ Counts
  BY DEF ServeRm, At, Counts
<1>2. job[b].conn \in Conn /\ LinkOK /\ SlaveOf(b) \in Slave
  BY <1>1, ServerIs DEF TypeInv
<1>3. link[job[b].conn].out # <<>> /\ First(b).kind = "update" /\ First(b).entry.path \in Path
  BY <1>1, <1>2, FirstIs
<1>4. LET n == job[b].conn
      IN Carries(n, Tail(link[n].out), Append(link[n].back, "done"), link[n].ends)
  BY <1>1, <1>2, <1>3, AnswersCarries
<1>5. job'[b] = Serving(b) /\ disk' = [disk EXCEPT ![SlaveOf(b)][First(b).entry.path] = NONE]
  BY <1>1, <1>3, RemoveIs
<1> QED
  BY <1>1, <1>2, <1>3, <1>4, <1>5

LEMMA ServePutDoes ==
  ASSUME TypeInv, NEW b \in Pool, ServePut(b)
  PROVE  LET n == job[b].conn
             p == First(b).entry.path
         IN /\ n \in Conn /\ job[b].at = "serve"
            /\ link[n].out # <<>> /\ First(b).kind = "update" /\ First(b).entry.type = "PUT" /\ p \in Path
            /\ job'[b].at = "header" /\ job'[b].path = p /\ job'[b].conn = n
            /\ job'[b].log = <<>> /\ job'[b].held = NONE /\ Others(b)
            /\ Carries(n, Tail(link[n].out), Append(link[n].back, "ready"), link[n].ends)
            /\ UNCHANGED disk /\ UNCHANGED queue /\ Counts
<1> DEFINE p == First(b).entry.path
<1>1. /\ job[b].at = "serve" /\ Reads(b, "update") /\ First(b).entry.type = "PUT"
      /\ Becomes(b, [job[b] EXCEPT !.at = "header", !.path = p])
      /\ Answers(b, "ready") /\ UNCHANGED disk /\ UNCHANGED queue /\ Counts
  BY DEF ServePut, At, Counts
<1>2. job[b].conn \in Conn /\ LinkOK /\ job[b].log = <<>> /\ job[b].held = NONE
  BY <1>1, ServerIs DEF TypeInv
<1>3. link[job[b].conn].out # <<>> /\ First(b).kind = "update" /\ p \in Path
  BY <1>1, <1>2, FirstIs
<1>4. LET n == job[b].conn
      IN Carries(n, Tail(link[n].out), Append(link[n].back, "ready"), link[n].ends)
  BY <1>1, <1>2, <1>3, AnswersCarries
<1>5. IsJob(job[b])
  BY FitsNow DEF Fits
<1>6. p = First(b).entry.path
  OBVIOUS
<1> HIDE DEF p
<1>7. [job[b] EXCEPT !.at = "header", !.path = p]
        = [at |-> "header", log |-> job[b].log, k |-> job[b].k, peers |-> job[b].peers,
           conn |-> job[b].conn, path |-> p, open |-> job[b].open, held |-> job[b].held]
  BY <1>5, WithPathIs, Zenon
<1>8. /\ job'[b].at = "header" /\ job'[b].path = p /\ job'[b].conn = job[b].conn
      /\ job'[b].log = <<>> /\ job'[b].held = NONE /\ Others(b)
  BY <1>1, <1>2, <1>7, GoesIs
<1> QED
  BY <1>1, <1>2, <1>3, <1>4, <1>6, <1>8

LEMMA NoSuchFileDoes ==
  ASSUME TypeInv, NEW b \in Pool, NoSuchFile(b)
  PROVE  LET n == job[b].conn
         IN /\ n \in Conn /\ job[b].at = "header"
            /\ link[n].out # <<>> /\ First(b).kind = "header" /\ ~First(b).found
            /\ job'[b] = Serving(b) /\ Others(b)
            /\ Carries(n, Tail(link[n].out), Append(link[n].back, "done"), link[n].ends)
            /\ UNCHANGED disk /\ UNCHANGED queue /\ Counts
<1>1. /\ job[b].at = "header" /\ Reads(b, "header") /\ ~First(b).found /\ Answers(b, "done")
      /\ Becomes(b, Serving(b)) /\ UNCHANGED disk /\ UNCHANGED queue /\ Counts
  BY DEF NoSuchFile, At, Counts
<1>2. job[b].conn \in Conn /\ LinkOK
  BY <1>1, ServerIs DEF TypeInv
<1>3. link[job[b].conn].out # <<>> /\ First(b).kind = "header"
  BY <1>1, <1>2, FirstIs
<1>4. LET n == job[b].conn
      IN Carries(n, Tail(link[n].out), Append(link[n].back, "done"), link[n].ends)
  BY <1>1, <1>2, <1>3, AnswersCarries
<1> QED
  BY <1>1, <1>2, <1>3, <1>4, GoesIs

LEMMA OpenFileDoes ==
  ASSUME TypeInv, NEW b \in Pool, OpenFile(b)
  PROVE  LET n == job[b].conn
             p == job[b].path
         IN /\ n \in Conn /\ job[b].at = "header" /\ p \in Path /\ SlaveOf(b) \in Slave
            /\ link[n].out # <<>> /\ First(b).kind = "header" /\ First(b).found
            /\ Others(b)
            /\ \/ /\ First(b).blocks = 0 /\ job'[b] = Serving(b)
                  /\ Carries(n, Tail(link[n].out), Append(link[n].back, "done"), link[n].ends)
               \/ /\ First(b).blocks = 1 /\ job'[b].at = "storing" /\ job'[b].path = p
                  /\ job'[b].conn = n /\ job'[b].log = <<>> /\ job'[b].held = NONE
                  /\ Carries(n, Tail(link[n].out), link[n].back, link[n].ends)
            /\ disk' = [disk EXCEPT ![SlaveOf(b)][p] = EMPTY]
            /\ UNCHANGED queue /\ Counts
<1>1. /\ job[b].at = "header" /\ Reads(b, "header") /\ First(b).found /\ UNCHANGED queue /\ Counts
  BY DEF OpenFile, At, Counts
<1>2. /\ job[b].conn \in Conn /\ LinkOK /\ job[b].path \in Path /\ SlaveOf(b) \in Slave
      /\ job[b].log = <<>> /\ job[b].held = NONE
  BY <1>1, ServerIs DEF TypeInv
<1>3. link[job[b].conn].out # <<>> /\ First(b).kind = "header" /\ First(b).blocks \in 0..1
  BY <1>1, <1>2, FirstIs
<1>4. CASE First(b).blocks = 0
  <2>1. Truncate(b, job[b].path, Serving(b)) /\ Answers(b, "done")
    BY <1>4 DEF OpenFile
  <2>2. job'[b] = Serving(b) /\ Others(b) /\ disk' = [disk EXCEPT ![SlaveOf(b)][job[b].path] = EMPTY]
    BY <2>1, GoesIs DEF Truncate
  <2>3. LET n == job[b].conn
        IN Carries(n, Tail(link[n].out), Append(link[n].back, "done"), link[n].ends)
    BY <1>2, <1>3, <2>1, AnswersCarries
  <2> QED
    BY <1>1, <1>2, <1>3, <1>4, <2>2, <2>3
<1>5. CASE First(b).blocks = 1
  <2>1. Truncate(b, job[b].path, [job[b] EXCEPT !.at = "storing", !.open = TRUE]) /\ Takes(b)
    BY <1>5 DEF OpenFile
  <2>2. [job[b] EXCEPT !.at = "storing", !.open = TRUE]
          = [at |-> "storing", log |-> job[b].log, k |-> job[b].k, peers |-> job[b].peers,
             conn |-> job[b].conn, path |-> job[b].path, open |-> TRUE, held |-> job[b].held]
    <3>1. IsJob(job[b])
      BY FitsNow DEF Fits
    <3> QED
      BY <3>1, OpenIs, Zenon
  <2>3. /\ job'[b].at = "storing" /\ job'[b].path = job[b].path /\ job'[b].conn = job[b].conn
        /\ job'[b].log = <<>> /\ job'[b].held = NONE
        /\ Others(b) /\ disk' = [disk EXCEPT ![SlaveOf(b)][job[b].path] = EMPTY]
    BY <1>2, <2>1, <2>2, GoesIs DEF Truncate
  <2>4. LET n == job[b].conn IN Carries(n, Tail(link[n].out), link[n].back, link[n].ends)
    BY <1>2, <1>3, <2>1, TakesCarries
  <2> QED
    BY <1>1, <1>2, <1>3, <1>5, <2>3, <2>4
<1> QED
  BY <1>3, <1>4, <1>5

LEMMA RefuseFileDoes ==
  ASSUME TypeInv, NEW b \in Pool, RefuseFile(b)
  PROVE  LET n == job[b].conn
             p == job[b].path
         IN /\ n \in Conn /\ job[b].at = "header" /\ p \in Path /\ SlaveOf(b) \in Slave
            /\ link[n].out # <<>> /\ First(b).kind = "header" /\ First(b).found
            /\ disk[SlaveOf(b)][p] = NONE
            /\ job'[b] = Serving(b) /\ Others(b)
            /\ \E rest \in {Tail(link[n].out), <<>>} :
                 Carries(n, rest, Append(link[n].back, "done"), link[n].ends)
            /\ refused' = refused \cup {<<SlaveOf(b), p>>}
            /\ UNCHANGED disk /\ UNCHANGED queue
            /\ UNCHANGED sessions /\ UNCHANGED killed /\ UNCHANGED changed
<1>1. /\ job[b].at = "header" /\ Reads(b, "header") /\ First(b).found
      /\ disk[SlaveOf(b)][job[b].path] = NONE /\ Becomes(b, Serving(b))
      /\ refused' = refused \cup {<<SlaveOf(b), job[b].path>>}
      /\ UNCHANGED disk /\ UNCHANGED queue
      /\ UNCHANGED sessions /\ UNCHANGED killed /\ UNCHANGED changed
  BY DEF RefuseFile, At
<1>2. job[b].conn \in Conn /\ LinkOK /\ job[b].path \in Path /\ SlaveOf(b) \in Slave
  BY <1>1, ServerIs DEF TypeInv
<1>3. link[job[b].conn].out # <<>> /\ First(b).kind = "header"
  BY <1>1, <1>2, FirstIs
<1>4. PICK n \in Conn : n = job[b].conn
  BY <1>2
<1>5. PICK rest \in {Tail(link[n].out), <<>>} :
        link' = [link EXCEPT ![n].out = rest, ![n].back = Append(@, "done")]
  BY <1>4 DEF RefuseFile
<1>6. Carries(n, rest, Append(link[n].back, "done"), link[n].ends)
  <2> DEFINE l == [link[n] EXCEPT !.out = rest, !.back = Append(link[n].back, "done")]
  <2>1. link' = [link EXCEPT ![n] = l]
    BY <1>2, <1>3, <1>4, <1>5, DropsOK
  <2>2. l.out = rest /\ l.back = Append(link[n].back, "done") /\ l.ends = link[n].ends
    BY <1>2, LinkIs
  <2> HIDE DEF l
  <2> QED
    BY <1>2, <2>1, <2>2 DEF Carries, LinkOK
<1>7. job'[b] = Serving(b) /\ Others(b)
  BY <1>1, GoesIs
<1> QED
  BY <1>1, <1>2, <1>3, <1>4, <1>5, <1>6, <1>7

LEMMA StrayDoes ==
  ASSUME TypeInv, NEW b \in Pool, Stray(b)
  PROVE  /\ job[b].at = "serve" /\ job[b].conn \in Conn
         /\ link[job[b].conn].out # <<>> /\ First(b).kind = "block"
         /\ \A a \in Pool : IF job[a].conn = job[b].conn
                            THEN job'[a] = Astray ELSE job'[a] = job[a]
         /\ UNCHANGED disk /\ UNCHANGED link /\ UNCHANGED queue /\ Counts
<1>1. job[b].at = "serve" /\ Reads(b, "block")
  BY DEF Stray, At
<1>2. job[b].conn \in Conn /\ LinkOK
  BY <1>1, ServerIs DEF TypeInv
<1>3. link[job[b].conn].out # <<>> /\ First(b).kind = "block"
  BY <1>1, <1>2, FirstIs
<1> QED
  BY <1>1, <1>2, <1>3 DEF Stray, Counts

LEMMA StoreBlockDoes ==
  ASSUME TypeInv, NEW b \in Pool, StoreBlock(b)
  PROVE  LET n == job[b].conn
             p == job[b].path
         IN /\ n \in Conn /\ job[b].at = "storing" /\ p \in Path /\ SlaveOf(b) \in Slave
            /\ link[n].out # <<>> /\ First(b).kind = "block" /\ First(b).data \in Content \cup {OLD}
            /\ job'[b] = Serving(b) /\ Others(b)
            /\ Carries(n, Tail(link[n].out), Append(link[n].back, "done"), link[n].ends)
            /\ disk' = IF job[b].held = NONE THEN [disk EXCEPT ![SlaveOf(b)][p] = First(b).data] ELSE disk
            /\ UNCHANGED queue /\ Counts
<1>1. /\ job[b].at = "storing" /\ Reads(b, "block") /\ Store(b, First(b).data, Serving(b))
      /\ Answers(b, "done") /\ UNCHANGED queue /\ Counts
  BY DEF StoreBlock, At, Counts
<1>2. job[b].conn \in Conn /\ LinkOK /\ job[b].path \in Path /\ SlaveOf(b) \in Slave
  BY <1>1, ServerIs DEF TypeInv
<1>3. link[job[b].conn].out # <<>> /\ First(b).kind = "block" /\ First(b).data \in Content \cup {OLD}
  BY <1>1, <1>2, FirstIs
<1>4. LET n == job[b].conn
      IN Carries(n, Tail(link[n].out), Append(link[n].back, "done"), link[n].ends)
  BY <1>1, <1>2, <1>3, AnswersCarries
<1>5. job'[b] = Serving(b) /\ Others(b)
  BY <1>1, GoesIs DEF Store
<1> QED
  BY <1>1, <1>2, <1>3, <1>4, <1>5 DEF Store

LEMMA ServeByeDoes ==
  ASSUME TypeInv, NEW b \in Pool, ServeBye(b)
  PROVE  LET n == job[b].conn
         IN /\ n \in Conn /\ job[b].at = "serve" /\ link[n].out # <<>> /\ First(b).kind = "bye"
            /\ job'[b] = Idle /\ Others(b) /\ Carries(n, <<>>, <<>>, {})
            /\ UNCHANGED disk /\ UNCHANGED queue /\ Counts
<1>1. /\ job[b].at = "serve" /\ Reads(b, "bye") /\ link' = [link EXCEPT ![job[b].conn] = Closed]
      /\ Becomes(b, Idle) /\ UNCHANGED disk /\ UNCHANGED queue /\ Counts
  BY DEF ServeBye, At, Counts
<1>2. job[b].conn \in Conn /\ LinkOK
  BY <1>1, ServerIs DEF TypeInv
<1>3. Carries(job[b].conn, <<>>, <<>>, {})
  BY <1>1, <1>2 DEF Carries, LinkOK, Closed
<1>4. link[job[b].conn].out # <<>> /\ First(b).kind = "bye"
  BY <1>1, <1>2, FirstIs
<1> QED
  BY <1>1, <1>2, <1>3, <1>4, GoesIs

\* An end is closed, and no more.
Closes(n, end) ==
  /\ \A m \in Conn : link'[m].out = link[m].out /\ link'[m].back = link[m].back
  /\ \A m \in Conn \ {n} : link'[m].ends = link[m].ends
  /\ n \in Conn => link'[n].ends = link[n].ends \ {end}

LEMMA HangsUpCloses ==
  ASSUME TypeInv, NEW a \in Pool, NEW end, HangsUp(a, end)
  PROVE  Closes(job[a].conn, end)
<1> DEFINE n == job[a].conn
<1>1. CASE n = NONE
  BY <1>1, HangsUpOK, CoherenceAssumption DEF Closes
<1>2. CASE n # NONE
  <2> DEFINE l == [link[n] EXCEPT !.ends = link[n].ends \ {end}]
  <2>1. n \in Conn
    BY <1>2, FitsNow DEF Fits
  <2>2. link' = [link EXCEPT ![n] = l]
    BY <1>2, HangsUpOK
  <2>3. l.out = link[n].out /\ l.back = link[n].back /\ l.ends = link[n].ends \ {end}
    BY <2>1, LinkIs DEF TypeInv
  <2> HIDE DEF l
  <2> QED
    BY <2>1, <2>2, <2>3 DEF Closes, TypeInv, LinkOK
<1> QED
  BY <1>1, <1>2

LEMMA DeadIs ==
  /\ Idle.at = "accept" /\ Idle.log = <<>> /\ Idle.conn = NONE
  /\ Dead.at = "dead" /\ Dead.log = <<>> /\ Dead.conn = NONE
  /\ Astray.at = "astray" /\ Astray.log = <<>>
  /\ Astray.conn = NONE
<1>1. Dead = [at |-> "dead", log |-> <<>>, k |-> 1, peers |-> <<>>, conn |-> NONE,
              path |-> NONE, open |-> FALSE, held |-> NONE]
  BY IdleIs, Zenon
<1>2. Astray
           = [at |-> "astray", log |-> <<>>, k |-> 1, peers |-> <<>>, conn |-> NONE,
              path |-> NONE, open |-> FALSE, held |-> NONE]
  BY IdleIs, Zenon
<1>3. Dead.at = "dead" /\ Dead.log = <<>> /\ Dead.conn = NONE
  BY <1>1
<1>4. /\ Astray.at = "astray" /\ Astray.log = <<>>
      /\ Astray.conn = NONE
  BY <1>2
<1> QED
  BY <1>3, <1>4 DEF Idle

LEMMA KillDoes ==
  ASSUME TypeInv, NEW a \in Pool, Kill(a)
  PROVE  /\ job[a].at = "accept" \/ Replaying(a) \/ Served(a)
         /\ killed \in Nat /\ killed' = killed + 1 /\ job'[a] = Dead /\ Others(a)
         /\ Closes(job[a].conn, IF Replaying(a) THEN "replayer" ELSE "server")
         /\ UNCHANGED disk /\ UNCHANGED queue /\ UNCHANGED changed /\ UNCHANGED refused
<1>1. /\ job[a].at = "accept" \/ Replaying(a) \/ Served(a)
      /\ killed' = killed + 1 /\ Becomes(a, Dead)
      /\ HangsUp(a, IF Replaying(a) THEN "replayer" ELSE "server")
      /\ UNCHANGED disk /\ UNCHANGED queue /\ UNCHANGED changed /\ UNCHANGED refused
  BY DEF Kill, At
<1>2. Closes(job[a].conn, IF Replaying(a) THEN "replayer" ELSE "server")
  BY <1>1, HangsUpCloses
<1>3. killed \in Nat
  BY DEF TypeInv, CountOK
<1> QED
  BY <1>1, <1>2, <1>3, GoesIs

LEMMA PeerLostDoes ==
  ASSUME TypeInv, NEW a \in Pool, PeerLost(a)
  PROVE  /\ Replaying(a) /\ job[a].conn \in Conn /\ "server" \notin link[job[a].conn].ends
         /\ job[a].peers # <<>>
         /\ job'[a] \in {Dead, NextPeer(a)} /\ Others(a)
         /\ Closes(job[a].conn, "replayer")
         /\ UNCHANGED disk /\ UNCHANGED queue /\ Counts
<1>1. /\ Replaying(a) /\ job[a].conn # NONE /\ "server" \notin link[job[a].conn].ends
      /\ HangsUp(a, "replayer")
      /\ UNCHANGED disk /\ UNCHANGED queue /\ Counts
  BY DEF PeerLost, Counts
<1>2. PICK j \in {Dead, NextPeer(a)} : Becomes(a, j)
  BY DEF PeerLost
<1>3. job[a].conn \in Conn /\ job[a].peers # <<>>
  BY <1>1, FitsNow DEF Fits, Replaying
<1> QED
  BY <1>1, <1>2, <1>3, GoesIs, HangsUpCloses

LEMMA ReplayerLostDoes ==
  ASSUME TypeInv, NEW b \in Pool, ReplayerLost(b)
  PROVE  /\ Served(b) /\ job[b].conn \in Conn /\ "replayer" \notin link[job[b].conn].ends
         /\ \A k \in 1..Len(link[job[b].conn].out) : link[job[b].conn].out[k] # Bye
         /\ job'[b] \in {Dead, Idle} /\ Others(b)
         /\ Closes(job[b].conn, "server")
         /\ UNCHANGED disk /\ UNCHANGED queue /\ Counts
<1>1. /\ Served(b) /\ "replayer" \notin link[job[b].conn].ends
      /\ HangsUp(b, "server")
      /\ UNCHANGED disk /\ UNCHANGED queue /\ Counts
  BY DEF ReplayerLost, Counts
<1>2. PICK j \in {Dead, Idle} : Becomes(b, j)
  BY DEF ReplayerLost
<1>3. job[b].conn \in Conn
  BY <1>1, ServerIs DEF Served
<1>4. \A k \in 1..Len(link[job[b].conn].out) : link[job[b].conn].out[k] # Bye
  BY DEF ReplayerLost
<1> QED
  BY <1>1, <1>2, <1>3, <1>4, GoesIs, HangsUpCloses

AlmostSame(b) ==
  /\ job'[b].at = job[b].at /\ job'[b].log = job[b].log /\ job'[b].k = job[b].k
  /\ job'[b].peers = job[b].peers /\ job'[b].conn = job[b].conn /\ job'[b].path = job[b].path

\* Who removes a file changes what others hold of it, and nothing else of them.
LEMMA RemoveDoes ==
  ASSUME TypeInv, NEW a \in Pool, NEW p \in Path, NEW j, Remove(a, p, j)
  PROVE  \A b \in Pool \ {a} :
           /\ AlmostSame(b)
           /\ job[b].path # p \/ SlaveOf(b) # SlaveOf(a) => job'[b].held = job[b].held
<1> SUFFICES ASSUME NEW b \in Pool \ {a}
             PROVE  /\ AlmostSame(b)
                    /\ job[b].path # p \/ SlaveOf(b) # SlaveOf(a) => job'[b].held = job[b].held
  OBVIOUS
<1>1. IF SlaveOf(b) = SlaveOf(a) /\ job[b].open /\ job[b].path = p /\ job[b].held = NONE
      THEN job'[b] = [job[b] EXCEPT !.held = disk[SlaveOf(a)][p]]
      ELSE job'[b] = job[b]
  BY RemoveIs
<1>2. IsJob(job[b])
  BY FitsNow DEF Fits
<1>3. ASSUME NEW v, job'[b] = [job[b] EXCEPT !.held = v] PROVE AlmostSame(b)
  <2>1. job'[b] = [at |-> job[b].at, log |-> job[b].log, k |-> job[b].k, peers |-> job[b].peers,
                   conn |-> job[b].conn, path |-> job[b].path, open |-> job[b].open, held |-> v]
    BY <1>2, <1>3 DEF IsJob
  <2> QED
    BY <2>1 DEF AlmostSame
<1>4. CASE SlaveOf(b) = SlaveOf(a) /\ job[b].open /\ job[b].path = p /\ job[b].held = NONE
  BY <1>1, <1>3, <1>4
<1>5. CASE ~(SlaveOf(b) = SlaveOf(a) /\ job[b].open /\ job[b].path = p /\ job[b].held = NONE)
  BY <1>1, <1>5 DEF AlmostSame
<1> QED
  BY <1>4, <1>5

-----------------------------------------------------------------------------
(* The second layer: who has which connection. *)

Entered(a, n) == Calling(a) /\ job[a].conn = n
Serves(b, n)  == Served(b) /\ job[b].conn = n
In(n, s)      == \E k \in 1..Len(queue[s]) : queue[s][k] = n
Live(n)       == (\E b \in Pool : Serves(b, n)) \/ (\E s \in Slave : In(n, s))
Peer(a)       == Head(job[a].peers)

OneCaller   == \A n \in Conn : \A a, b \in Pool : Entered(a, n) /\ Entered(b, n) => a = b
OneServer   == \A n \in Conn : \A a, b \in Pool : Serves(a, n) /\ Serves(b, n) => a = b
NotBoth     == \A n \in Conn : \A s \in Slave : \A b \in Pool : ~(Serves(b, n) /\ In(n, s))
OneQueue    == \A n \in Conn : \A s, t \in Slave : In(n, s) /\ In(n, t) => s = t
OneTurn     == \A s \in Slave : \A i, j \in 1..Len(queue[s]) : queue[s][i] = queue[s][j] => i = j
ServedThere == \A n \in Conn : \A a, b \in Pool : Entered(a, n) /\ Serves(b, n) => SlaveOf(b) = Peer(a)
QueuedThere == \A n \in Conn : \A s \in Slave : \A a \in Pool : Entered(a, n) /\ In(n, s) => s = Peer(a)
StillOpen   == \A n \in Conn : Live(n) => "server" \in link[n].ends

ConnInv == /\ OneCaller /\ OneServer /\ NotBoth /\ OneQueue /\ OneTurn
           /\ ServedThere /\ QueuedThere /\ StillOpen

\* A worker that keeps its connection, or has none any more.
Stays(a) == /\ job'[a].conn = job[a].conn
            /\ Calling(a)' <=> Calling(a)
            /\ Served(a)' <=> Served(a)
            /\ Calling(a) => job'[a].peers = job[a].peers

Rests(a) == ~Calling(a)' /\ ~Served(a)'

LEMMA AlmostStays ==
  ASSUME NEW b \in Pool, AlmostSame(b)
  PROVE  Stays(b)
BY DEF AlmostSame, Stays, Calling, Served

LEMMA OthersStay ==
  ASSUME NEW a \in Pool, Others(a)
  PROVE  \A b \in Pool \ {a} : AlmostSame(b) /\ Stays(b) /\ job'[b].held = job[b].held
BY DEF Others, AlmostSame, Stays, Calling, Served

LEMMA Fewer ==
  ASSUME \A a \in Pool : Stays(a) \/ Rests(a), UNCHANGED queue
  PROVE  /\ \A n : \A a \in Pool : Entered(a, n)' => Entered(a, n) /\ job'[a].peers = job[a].peers
         /\ \A n : \A b \in Pool : Serves(b, n)' => Serves(b, n) /\ Stays(b)
         /\ \A n, s : In(n, s)' <=> In(n, s)
         /\ \A n : Live(n)' => Live(n)
<1>1. \A n : \A a \in Pool : Entered(a, n)' => Entered(a, n) /\ job'[a].peers = job[a].peers
  BY DEF Stays, Rests, Entered
<1>2. \A n : \A b \in Pool : Serves(b, n)' => Serves(b, n) /\ Stays(b)
  BY DEF Stays, Rests, Serves
<1>3. \A n, s : In(n, s)' <=> In(n, s)
  BY DEF In
<1>4. \A n : Live(n)' => Live(n)
  BY <1>2, <1>3 DEF Live
<1> QED
  BY <1>1, <1>2, <1>3, <1>4

LEMMA ConnSame ==
  ASSUME ConnInv, \A a \in Pool : Stays(a) \/ Rests(a), UNCHANGED queue,
         \A n \in Conn : "server" \in link[n].ends /\ Live(n)' => "server" \in link'[n].ends
  PROVE  ConnInv'
<1>1. /\ \A n : \A a \in Pool : Entered(a, n)' => Entered(a, n) /\ job'[a].peers = job[a].peers
      /\ \A n : \A b \in Pool : Serves(b, n)' => Serves(b, n)
      /\ \A n, s : In(n, s)' <=> In(n, s)
      /\ \A n : Live(n)' => Live(n)
  BY Fewer
<1>2. OneCaller' /\ OneServer' /\ NotBoth' /\ OneQueue'
  BY <1>1 DEF ConnInv, OneCaller, OneServer, NotBoth, OneQueue
<1>3. OneTurn'
  BY DEF ConnInv, OneTurn
<1>4. ServedThere' /\ QueuedThere'
  BY <1>1 DEF ConnInv, ServedThere, QueuedThere, Peer, SlaveOf
<1>5. StillOpen'
  BY <1>1 DEF ConnInv, StillOpen
<1> QED
  BY <1>2, <1>3, <1>4, <1>5 DEF ConnInv

\* The ends of the connections after what is sent.
LEMMA CarriesEnds ==
  ASSUME NEW n \in Conn, NEW out, NEW back, Carries(n, out, back, link[n].ends)
  PROVE  \A m \in Conn : link'[m].ends = link[m].ends
BY DEF Carries

\* What a worker that serves nobody any more may close.
LEMMA LastOne ==
  ASSUME ConnInv, NEW b \in Pool, NEW n \in Conn, Serves(b, n), Rests(b), UNCHANGED queue,
         \A c \in Pool : Stays(c) \/ Rests(c)
  PROVE  ~Live(n)'
<1>1. \A c \in Pool : Serves(c, n)' => Serves(c, n) /\ c # b
  BY Fewer DEF Rests, Serves
<1>2. \A c \in Pool : ~Serves(c, n)'
  BY <1>1 DEF ConnInv, OneServer
<1>3. \A s \in Slave : ~In(n, s)'
  BY Fewer DEF ConnInv, NotBoth
<1> QED
  BY <1>2, <1>3 DEF Live

LEMMA DialConn ==
  ASSUME TypeInv, ConnInv, NEW a \in Pool, Dial(a)
  PROVE  ConnInv'
<1>a. PICK n \in Conn : n = job'[a].conn
  BY DialDoes
<1>b. PICK s \in Slave : s = Peer(a)
  BY DialDoes DEF Peer
<1>1. /\ job[a].at = "peer" /\ job'[a].at = "entry" /\ job'[a].conn = n /\ job'[a].peers = job[a].peers
      /\ Others(a) /\ Unused(n)
      /\ queue' = [queue EXCEPT ![s] = Append(queue[s], n)]
      /\ Carries(n, <<>>, <<>>, {"replayer", "server"})
  BY <1>a, <1>b, DialDoes DEF Peer
<1>2. \A m : \A b \in Pool : Entered(b, m)' <=> (Entered(b, m) \/ (b = a /\ m = n))
  BY <1>1, OthersStay DEF Entered, Calling, Stays
<1>3. \A m : \A b \in Pool : Serves(b, m)' <=> Serves(b, m)
  BY <1>1, OthersStay DEF Serves, Served, Stays
<1>4. \A b \in Pool : job'[b].peers = job[b].peers
  BY <1>1 DEF Others
<1>5. \A b \in Pool : ~Entered(b, n) /\ ~Serves(b, n)
  BY <1>1 DEF Entered, Serves, Unused
<1>6. \A t \in Slave : ~In(n, t)
  BY <1>1 DEF In, Unused
<1>7. queue[s] \in Seq(Conn) /\ queue'[s] = Append(queue[s], n) /\ \A t \in Slave \ {s} : queue'[t] = queue[t]
  BY <1>1 DEF TypeInv, QueueOK
<1>8. \A m : \A t \in Slave : In(m, t)' <=> (In(m, t) \/ (m = n /\ t = s))
  <2>1. \A m : In(m, s)' <=> (In(m, s) \/ m = n)
    <3>1. /\ Len(queue'[s]) = Len(queue[s]) + 1 /\ queue'[s][Len(queue[s]) + 1] = n
          /\ Len(queue[s]) \in Nat
          /\ \A k \in 1..Len(queue[s]) : queue'[s][k] = queue[s][k]
      BY <1>7
    <3> QED
      BY <3>1 DEF In
  <2>2. \A m : \A t \in Slave \ {s} : In(m, t)' <=> In(m, t)
    BY <1>7 DEF In
  <2> QED
    BY <1>1, <2>1, <2>2
<1>9. Peer(a)' = s /\ \A b \in Pool : Peer(b)' = Peer(b)
  BY <1>4, <1>b DEF Peer
<1>10. OneCaller' /\ OneServer'
  BY <1>1, <1>2, <1>3, <1>5 DEF ConnInv, OneCaller, OneServer
<1>11. NotBoth' /\ OneQueue'
  BY <1>3, <1>5, <1>6, <1>8 DEF ConnInv, NotBoth, OneQueue
<1>12. OneTurn'
  <2>1. \A i, j \in 1..Len(queue'[s]) : queue'[s][i] = queue'[s][j] => i = j
    <3>1. /\ Len(queue'[s]) = Len(queue[s]) + 1 /\ queue'[s][Len(queue[s]) + 1] = n
          /\ Len(queue[s]) \in Nat
          /\ \A k \in 1..Len(queue[s]) : queue'[s][k] = queue[s][k]
      BY <1>7
    <3>2. \A k \in 1..Len(queue[s]) : queue[s][k] # n
      BY <1>1, <1>6 DEF In
    <3>3. \A i, j \in 1..Len(queue[s]) : queue[s][i] = queue[s][j] => i = j
      BY <1>1 DEF ConnInv, OneTurn
    <3> QED
      BY <3>1, <3>2, <3>3, SMTT(30)
  <2> QED
    BY <1>7, <2>1 DEF ConnInv, OneTurn
<1>13. ServedThere'
  BY <1>2, <1>3, <1>5, <1>9 DEF ConnInv, ServedThere, SlaveOf
<1>14. QueuedThere'
  BY <1>2, <1>5, <1>6, <1>8, <1>9 DEF ConnInv, QueuedThere
<1>15. StillOpen'
  <2>1. "server" \in link'[n].ends /\ \A m \in Conn \ {n} : link'[m].ends = link[m].ends
    BY <1>1 DEF Carries
  <2>2. \A m \in Conn : Live(m)' => Live(m) \/ m = n
    BY <1>3, <1>8 DEF Live
  <2> QED
    BY <2>1, <2>2 DEF ConnInv, StillOpen
<1> QED
  BY <1>10, <1>11, <1>12, <1>13, <1>14, <1>15 DEF ConnInv

LEMMA AcceptConn ==
  ASSUME TypeInv, ConnInv, NEW b \in Pool, Accept(b)
  PROVE  /\ ConnInv'
         /\ LET n == Head(queue[SlaveOf(b)])
            IN /\ In(n, SlaveOf(b))
               /\ \A m : \A c \in Pool : Serves(c, m)' <=> (Serves(c, m) \/ (c = b /\ m = n))
               /\ \A m : \A c \in Pool : Entered(c, m)' <=> Entered(c, m)
               /\ \A m \in Conn : \A t \in Slave : In(m, t)' <=> (In(m, t) /\ m # n)
<1>a. PICK s \in Slave : s = SlaveOf(b)
  BY SlaveType
<1>b. PICK n \in Conn : n = Head(queue[s])
  BY <1>a, AcceptDoes
<1>1. /\ job[b].at = "accept" /\ queue[s] # <<>>
      /\ job'[b].at = "serve" /\ job'[b].conn = n /\ Others(b)
      /\ queue' = [queue EXCEPT ![s] = Tail(queue[s])]
      /\ UNCHANGED link
  BY <1>a, <1>b, AcceptDoes
<1>2. \A m : \A c \in Pool : Serves(c, m)' <=> (Serves(c, m) \/ (c = b /\ m = n))
  BY <1>1, OthersStay DEF Serves, Served, Stays
<1>3. \A m : \A c \in Pool : Entered(c, m)' <=> Entered(c, m)
  BY <1>1, OthersStay DEF Entered, Calling, Stays
<1>4. \A c \in Pool : Calling(c)' => Peer(c)' = Peer(c)
  BY <1>1 DEF Others, Calling, Peer
<1>5. queue[s] \in Seq(Conn) /\ queue'[s] = Tail(queue[s]) /\ \A t \in Slave \ {s} : queue'[t] = queue[t]
  BY <1>1 DEF TypeInv, QueueOK
<1>6. /\ Len(queue[s]) \in Nat \ {0} /\ n = queue[s][1] /\ Len(queue'[s]) = Len(queue[s]) - 1
      /\ \A k \in 1..Len(queue'[s]) : queue'[s][k] = queue[s][k + 1] /\ k + 1 \in 1..Len(queue[s])
  <2>1. ASSUME NEW q \in Seq(Conn), q # <<>>, NEW r, r = Tail(q)
        PROVE  /\ Len(q) \in Nat \ {0} /\ Head(q) = q[1] /\ Len(r) = Len(q) - 1
               /\ \A k \in 1..Len(r) : r[k] = q[k + 1] /\ k + 1 \in 1..Len(q)
    BY <2>1
  <2> QED
    BY <1>1, <1>5, <1>b, <2>1
<1>7. In(n, s)
  BY <1>6 DEF In
<1>8. \A t \in Slave : In(n, t) => t = s
  BY <1>1, <1>7 DEF ConnInv, OneQueue
<1>9. \A i, j \in 1..Len(queue[s]) : queue[s][i] = queue[s][j] => i = j
  BY <1>1 DEF ConnInv, OneTurn
<1>10. \A m \in Conn : In(m, s)' <=> (In(m, s) /\ m # n)
  <2> SUFFICES ASSUME NEW m \in Conn PROVE In(m, s)' <=> (In(m, s) /\ m # n)
    OBVIOUS
  <2>1. In(m, s)' <=> \E k \in 1..Len(queue'[s]) : queue'[s][k] = m
    BY DEF In
  <2>2. ASSUME NEW k \in 1..Len(queue'[s]), queue'[s][k] = m PROVE In(m, s) /\ m # n
    <3>1. queue[s][k + 1] = m /\ k + 1 \in 1..Len(queue[s])
      BY <1>6, <2>2
    <3>2. k + 1 # 1 /\ 1 \in 1..Len(queue[s])
      BY <1>6
    <3> QED
      BY <1>6, <1>9, <3>1, <3>2 DEF In
  <2>3. ASSUME NEW k \in 1..Len(queue[s]), queue[s][k] = m, m # n PROVE In(m, s)'
    <3>1. k # 1
      BY <1>6, <2>3
    <3>2. k - 1 \in 1..Len(queue'[s]) /\ (k - 1) + 1 = k
      BY <1>6, <3>1
    <3> QED
      BY <1>6, <2>1, <2>3, <3>2
  <2> QED
    BY <2>1, <2>2, <2>3 DEF In
<1>11. \A m \in Conn : \A t \in Slave \ {s} : In(m, t)' <=> In(m, t)
  BY <1>5 DEF In
<1>12. \A m \in Conn : \A t \in Slave : In(m, t)' <=> (In(m, t) /\ m # n)
  BY <1>8, <1>10, <1>11
<1>13. OneCaller'
  BY <1>3 DEF ConnInv, OneCaller
<1>14. OneServer' /\ NotBoth' /\ OneQueue'
  BY <1>1, <1>2, <1>7, <1>12 DEF ConnInv, OneServer, NotBoth, OneQueue
<1>15. OneTurn'
  <2>1. \A i, j \in 1..Len(queue'[s]) : queue'[s][i] = queue'[s][j] => i = j
    <3> SUFFICES ASSUME NEW i \in 1..Len(queue'[s]), NEW j \in 1..Len(queue'[s]), queue'[s][i] = queue'[s][j]
                 PROVE  i = j
      OBVIOUS
    <3>1. queue[s][i + 1] = queue[s][j + 1] /\ i + 1 \in 1..Len(queue[s]) /\ j + 1 \in 1..Len(queue[s])
      BY <1>6
    <3>2. i + 1 = j + 1
      BY <1>9, <3>1
    <3> QED
      BY <3>2
  <2> QED
    BY <1>5, <2>1 DEF ConnInv, OneTurn
<1>16. ServedThere'
  <2> SUFFICES ASSUME NEW m \in Conn, NEW a \in Pool, NEW c \in Pool, Entered(a, m)', Serves(c, m)'
               PROVE  SlaveOf(c) = Peer(a)'
    BY DEF ServedThere, SlaveOf
  <2>1. Entered(a, m) /\ Peer(a)' = Peer(a)
    BY <1>3, <1>4 DEF Entered
  <2>2. CASE Serves(c, m)
    BY <2>1, <2>2 DEF ConnInv, ServedThere
  <2>3. CASE c = b /\ m = n
    BY <1>1, <1>7, <2>1, <2>3, <1>a DEF ConnInv, QueuedThere
  <2> QED
    BY <1>2, <2>2, <2>3
<1>17. QueuedThere'
  BY <1>3, <1>4, <1>12 DEF ConnInv, QueuedThere, Entered
<1>18. StillOpen'
  BY <1>1, <1>2, <1>7, <1>12 DEF ConnInv, StillOpen, Live
<1> QED
  BY <1>2, <1>3, <1>7, <1>12, <1>13, <1>14, <1>15, <1>16, <1>17, <1>18, <1>a, <1>b DEF ConnInv

\* A step of one worker that leaves the ends of connections to servers alone.
LEMMA ConnQuiet ==
  ASSUME ConnInv, NEW a \in Pool, \A b \in Pool \ {a} : AlmostSame(b), Stays(a) \/ Rests(a), UNCHANGED queue,
         \A m \in Conn : "server" \in link[m].ends => "server" \in link'[m].ends
  PROVE  ConnInv'
<1>1. \A b \in Pool : Stays(b) \/ Rests(b)
  BY AlmostStays
<1> QED
  BY <1>1, ConnSame

\* Or closes the one that it has served.
LEMMA ConnCloses ==
  ASSUME ConnInv, NEW b \in Pool, NEW n \in Conn, Serves(b, n), Others(b), Rests(b), UNCHANGED queue,
         \A m \in Conn \ {n} : link'[m].ends = link[m].ends
  PROVE  ConnInv' /\ ~Live(n)'
<1>1. \A c \in Pool : Stays(c) \/ Rests(c)
  BY OthersStay
<1>2. ~Live(n)'
  BY <1>1, LastOne
<1>3. \A m \in Conn : "server" \in link[m].ends /\ Live(m)' => "server" \in link'[m].ends
  BY <1>2
<1> QED
  BY <1>1, <1>2, <1>3, ConnSame

LEMMA GoesStays ==
  ASSUME NEW a \in Pool, NEW at, NEW k, Goes(a, at, k)
  PROVE  /\ \A b \in Pool \ {a} : AlmostSame(b)
         /\ Calling(a) /\ at \in {"entry", "ack", "open", "block", "stored", "bye"} => Stays(a)
         /\ at \in {"session", "receive"} => Rests(a)
<1>1. \A b \in Pool \ {a} : AlmostSame(b)
  BY OthersStay DEF Goes
<1>2. Calling(a) /\ at \in {"entry", "ack", "open", "block", "stored", "bye"} => Stays(a)
  BY DEF Goes, Stays, Calling, Served
<1>3. at \in {"session", "receive"} => Rests(a)
  BY DEF Goes, Rests, Calling, Served
<1> QED
  BY <1>1, <1>2, <1>3

\* What a worker does next, in the groups that the layers below go by.
AtHome(a)  == \/ Operation(a) \/ (\E v \in Content : Received(a, v)) \/ EndSession(a) \/ GetList(a) \/ Return(a)
             \/ \E log \in Journal : Session(a, log)
Calls(a)  == SendUpdate(a) \/ ReadAck(a) \/ SendHeader(a) \/ SendBlock(a) \/ ReadStored(a) \/ SayBye(a)
Helps(b)  == \/ ServeRm(b) \/ ServePut(b) \/ NoSuchFile(b) \/ OpenFile(b) \/ RefuseFile(b) \/ StoreBlock(b)
             \/ ServeBye(b)
Loses(a)  == Kill(a) \/ PeerLost(a) \/ ReplayerLost(a) \/ Stray(a) \/ StrayPut(a)

\* What a worker does at its own slave is of no concern to any connection.
Aside(a) == /\ \A b \in Pool \ {a} : AlmostSame(b)
            /\ ~Calling(a) /\ ~Served(a) /\ Rests(a)
            /\ UNCHANGED queue /\ UNCHANGED link /\ UNCHANGED killed

LEMMA LocalIs ==
  ASSUME TypeInv, NEW a \in Pool, AtHome(a)
  PROVE  Aside(a)
<1>1. CASE Operation(a) /\ EntryOf(a).type = "RM"
  <2>1. \A b \in Pool \ {a} : AlmostSame(b)
    BY <1>1, RmDoes, RemoveDoes
  <2>2. job[a].at = "session" /\ job'[a].at = "session" /\ UNCHANGED queue /\ UNCHANGED link /\ UNCHANGED killed
    BY <1>1, RmDoes DEF Counts
  <2> QED
    BY <2>1, <2>2 DEF Aside, Rests, Calling, Served
<1>2. CASE Operation(a) /\ EntryOf(a).type # "RM"
  <2>1. PICK at \in {"session", "receive"}, k \in {job[a].k, job[a].k + 1} : Goes(a, at, k)
    BY <1>2, PutDoes
  <2>2. job[a].at = "session" /\ UNCHANGED queue /\ UNCHANGED link /\ UNCHANGED killed
    BY <1>2, PutDoes DEF Counts
  <2>3. (\A b \in Pool \ {a} : AlmostSame(b)) /\ Rests(a)
    BY <2>1, GoesStays
  <2> QED
    BY <2>2, <2>3 DEF Aside, Calling, Served
<1>3. CASE \E v \in Content : Received(a, v)
  <2>1. Goes(a, "session", job[a].k + 1)
    BY <1>3, ReceivedDoes
  <2>2. job[a].at = "receive" /\ UNCHANGED queue /\ UNCHANGED link /\ UNCHANGED killed
    BY <1>3, ReceivedDoes DEF Counts
  <2>3. (\A b \in Pool \ {a} : AlmostSame(b)) /\ Rests(a)
    BY <2>1, GoesStays
  <2> QED
    BY <2>2, <2>3 DEF Aside, Calling, Served
<1>4. CASE EndSession(a)
  <2>1. /\ job[a].at = "session" /\ job'[a].at \in {"accept", "list"} /\ Others(a)
        /\ UNCHANGED queue /\ UNCHANGED link /\ UNCHANGED killed
    BY <1>4, EndSessionDoes DEF Counts
  <2> QED
    BY <2>1, OthersStay DEF Aside, Rests, Calling, Served
<1>5. CASE GetList(a)
  <2>1. /\ job[a].at = "list" /\ job'[a].at = "peer" /\ Others(a)
        /\ UNCHANGED queue /\ UNCHANGED link /\ UNCHANGED killed
    BY <1>5, GetListDoes DEF Counts
  <2> QED
    BY <2>1, OthersStay DEF Aside, Rests, Calling, Served
<1>6. CASE Return(a)
  <2>1. /\ job[a].at = "peer" /\ job'[a].at = "accept" /\ Others(a)
        /\ UNCHANGED queue /\ UNCHANGED link /\ UNCHANGED killed
    BY <1>6, ReturnDoes, DeadIs DEF Counts
  <2> QED
    BY <2>1, OthersStay DEF Aside, Rests, Calling, Served
<1>7. CASE \E log \in Journal : Session(a, log)
  <2>1. /\ job[a].at = "accept" /\ job'[a].at = "session" /\ Others(a)
        /\ UNCHANGED queue /\ UNCHANGED link /\ UNCHANGED killed
    BY <1>7, SessionDoes
  <2> QED
    BY <2>1, OthersStay DEF Aside, Rests, Calling, Served
<1> QED
  BY <1>1, <1>2, <1>3, <1>4, <1>5, <1>6, <1>7 DEF AtHome

LEMMA LocalConn ==
  ASSUME TypeInv, ConnInv, NEW a \in Pool, AtHome(a)
  PROVE  ConnInv'
<1>1. Aside(a)
  BY LocalIs
<1> QED
  BY <1>1, ConnQuiet DEF Aside

LEMMA CarriesServer ==
  ASSUME NEW n \in Conn, NEW out, NEW back, NEW ends, Carries(n, out, back, ends),
         "server" \in link[n].ends => "server" \in ends
  PROVE  \A m \in Conn : "server" \in link[m].ends => "server" \in link'[m].ends
BY DEF Carries

LEMMA CallerConn ==
  ASSUME TypeInv, ConnInv, NEW a \in Pool,
         SendUpdate(a) \/ ReadAck(a) \/ SendHeader(a) \/ SendBlock(a) \/ ReadStored(a) \/ SayBye(a)
  PROVE  ConnInv'
<1>1. CASE SendUpdate(a)
  <2>1. Goes(a, "ack", job[a].k) /\ Calling(a) /\ UNCHANGED queue
    BY <1>1, SendUpdateDoes DEF Calling
  <2>2. \A m \in Conn : "server" \in link[m].ends => "server" \in link'[m].ends
    BY <1>1, SendUpdateDoes, CarriesServer
  <2> QED
    BY <2>1, <2>2, GoesStays, ConnQuiet
<1>2. CASE ReadAck(a)
  <2>1. PICK at \in {"entry", "open", "bye"}, k \in {job[a].k, job[a].k + 1} : Goes(a, at, k)
    BY <1>2, ReadAckDoes
  <2>2. Calling(a) /\ UNCHANGED queue
    BY <1>2, ReadAckDoes DEF Calling
  <2>3. \A m \in Conn : "server" \in link[m].ends => "server" \in link'[m].ends
    BY <1>2, ReadAckDoes, CarriesServer
  <2> QED
    BY <2>1, <2>2, <2>3, GoesStays, ConnQuiet
<1>3. CASE SendHeader(a)
  <2>1. PICK at \in {"block", "stored"} : Goes(a, at, job[a].k)
    BY <1>3, SendHeaderDoes
  <2>2. Calling(a) /\ UNCHANGED queue
    BY <1>3, SendHeaderDoes DEF Calling
  <2>3. \A m \in Conn : "server" \in link[m].ends => "server" \in link'[m].ends
    BY <1>3, SendHeaderDoes, CarriesServer
  <2> QED
    BY <2>1, <2>2, <2>3, GoesStays, ConnQuiet
<1>4. CASE SendBlock(a)
  <2>1. Goes(a, "stored", job[a].k) /\ Calling(a) /\ UNCHANGED queue
    BY <1>4, SendBlockDoes DEF Calling
  <2>2. \A m \in Conn : "server" \in link[m].ends => "server" \in link'[m].ends
    <3>1. CASE UNCHANGED link
      BY <3>1
    <3>2. CASE ~UNCHANGED link
      BY <1>4, <3>2, SendBlockDoes, CarriesServer
    <3> QED
      BY <3>1, <3>2
  <2> QED
    BY <2>1, <2>2, GoesStays, ConnQuiet
<1>5. CASE ReadStored(a)
  <2>1. Goes(a, "entry", job[a].k + 1) /\ Calling(a) /\ UNCHANGED queue
    BY <1>5, ReadStoredDoes DEF Calling
  <2>2. \A m \in Conn : "server" \in link[m].ends => "server" \in link'[m].ends
    BY <1>5, ReadStoredDoes, CarriesServer
  <2> QED
    BY <2>1, <2>2, GoesStays, ConnQuiet
<1>6. CASE SayBye(a)
  <2>1. job'[a].at = "peer" /\ Others(a) /\ UNCHANGED queue
    <3>1. NextPeer(a).at = "peer"
      BY NextPeerIs
    <3> QED
      BY <1>6, <3>1, SayByeDoes
  <2>2. \A m \in Conn : "server" \in link[m].ends => "server" \in link'[m].ends
    <3>1. ASSUME NEW E, "server" \in E PROVE "server" \in E \ {"replayer"}
      BY <3>1
    <3> QED
      BY <1>6, <3>1, SayByeDoes DEF Carries
  <2> QED
    BY <2>1, <2>2, OthersStay, ConnQuiet DEF Rests, Calling, Served
<1> QED
  BY <1>1, <1>2, <1>3, <1>4, <1>5, <1>6

LEMMA ServerConn ==
  ASSUME TypeInv, ConnInv, NEW b \in Pool,
         \/ ServeRm(b) \/ ServePut(b) \/ NoSuchFile(b) \/ OpenFile(b) \/ RefuseFile(b) \/ StoreBlock(b)
         \/ ServeBye(b)
  PROVE  ConnInv'
<1>1. ASSUME job'[b] = Serving(b), Served(b) PROVE Stays(b)
  BY <1>1, ServingIs DEF Stays, Calling, Served
<1>2. CASE ServeRm(b)
  <2>1. (\A c \in Pool \ {b} : AlmostSame(c)) /\ UNCHANGED queue
    BY <1>2, ServeRmDoes, RemoveDoes
  <2>2. Stays(b)
    BY <1>1, <1>2, ServeRmDoes DEF Served
  <2>3. \A m \in Conn : "server" \in link[m].ends => "server" \in link'[m].ends
    BY <1>2, ServeRmDoes, CarriesServer
  <2> QED
    BY <2>1, <2>2, <2>3, ConnQuiet
<1>3. CASE ServePut(b)
  <2>1. Others(b) /\ UNCHANGED queue
    BY <1>3, ServePutDoes
  <2>2. Stays(b)
    BY <1>3, ServePutDoes DEF Stays, Served, Calling
  <2>3. \A m \in Conn : "server" \in link[m].ends => "server" \in link'[m].ends
    BY <1>3, ServePutDoes, CarriesServer
  <2> QED
    BY <2>1, <2>2, <2>3, OthersStay, ConnQuiet
<1>4. CASE NoSuchFile(b)
  <2>1. Others(b) /\ UNCHANGED queue
    BY <1>4, NoSuchFileDoes
  <2>2. Stays(b)
    BY <1>1, <1>4, NoSuchFileDoes DEF Served
  <2>3. \A m \in Conn : "server" \in link[m].ends => "server" \in link'[m].ends
    BY <1>4, NoSuchFileDoes, CarriesServer
  <2> QED
    BY <2>1, <2>2, <2>3, OthersStay, ConnQuiet
<1>5. CASE OpenFile(b)
  <2>1. Others(b) /\ UNCHANGED queue
    BY <1>5, OpenFileDoes
  <2>2. Stays(b)
    <3>1. CASE job'[b] = Serving(b)
      BY <1>1, <1>5, <3>1, OpenFileDoes DEF Served
    <3>2. CASE job'[b].at = "storing" /\ job'[b].conn = job[b].conn
      BY <1>5, <3>2, OpenFileDoes DEF Stays, Served, Calling
    <3> QED
      BY <1>5, <3>1, <3>2, OpenFileDoes
  <2>3. \A m \in Conn : "server" \in link[m].ends => "server" \in link'[m].ends
    BY <1>5, OpenFileDoes, CarriesServer
  <2> QED
    BY <2>1, <2>2, <2>3, OthersStay, ConnQuiet
<1>6. CASE StoreBlock(b)
  <2>1. Others(b) /\ UNCHANGED queue
    BY <1>6, StoreBlockDoes
  <2>2. Stays(b)
    BY <1>1, <1>6, StoreBlockDoes DEF Served
  <2>3. \A m \in Conn : "server" \in link[m].ends => "server" \in link'[m].ends
    BY <1>6, StoreBlockDoes, CarriesServer
  <2> QED
    BY <2>1, <2>2, <2>3, OthersStay, ConnQuiet
<1>7. CASE ServeBye(b)
  <2>1. Others(b) /\ UNCHANGED queue /\ job'[b].at = "accept" /\ job[b].conn \in Conn
    BY <1>7, ServeByeDoes, DeadIs
  <2>2. Serves(b, job[b].conn)
    BY <1>7, ServeByeDoes DEF Serves, Served
  <2>3. \A m \in Conn \ {job[b].conn} : link'[m].ends = link[m].ends
    BY <1>7, ServeByeDoes DEF Carries
  <2> QED
    BY <2>1, <2>2, <2>3, ConnCloses DEF Rests, Calling, Served
<1>8. CASE RefuseFile(b)
  <2>1. Others(b) /\ UNCHANGED queue
    BY <1>8, RefuseFileDoes
  <2>2. Stays(b)
    BY <1>1, <1>8, RefuseFileDoes DEF Served
  <2>3. \A m \in Conn : "server" \in link[m].ends => "server" \in link'[m].ends
    BY <1>8, RefuseFileDoes, CarriesServer
  <2> QED
    BY <2>1, <2>2, <2>3, OthersStay, ConnQuiet
<1> QED
  BY <1>2, <1>3, <1>4, <1>5, <1>6, <1>7, <1>8

LEMMA LostConn ==
  ASSUME TypeInv, ConnInv, NEW a \in Pool,
         Kill(a) \/ PeerLost(a) \/ ReplayerLost(a) \/ Stray(a) \/ StrayPut(a)
  PROVE  ConnInv'
<1>1. CASE Kill(a)
  <2>1. Others(a) /\ UNCHANGED queue /\ job'[a].at = "dead" /\ Rests(a)
    BY <1>1, KillDoes, DeadIs DEF Rests, Calling, Served
  <2>2. CASE Replaying(a)
    <3>1. \A m \in Conn : "server" \in link[m].ends => "server" \in link'[m].ends
      BY <1>1, <2>2, KillDoes DEF Closes
    <3> QED
      BY <2>1, <3>1, OthersStay, ConnQuiet
  <2>3. CASE Served(a)
    <3>1. Serves(a, job[a].conn) /\ job[a].conn \in Conn
      BY <2>3, ServerIs DEF Serves, Served
    <3>2. \A m \in Conn \ {job[a].conn} : link'[m].ends = link[m].ends
      BY <1>1, KillDoes DEF Closes
    <3> QED
      BY <2>1, <3>1, <3>2, ConnCloses
  <2>4. CASE job[a].at = "accept"
    <3>1. job[a].conn = NONE
      BY <2>4, FitsNow DEF Fits
    <3>2. \A m \in Conn : "server" \in link[m].ends => "server" \in link'[m].ends
      BY <1>1, <3>1, KillDoes, CoherenceAssumption DEF Closes
    <3> QED
      BY <2>1, <3>2, OthersStay, ConnQuiet
  <2> QED
    BY <1>1, <2>2, <2>3, <2>4, KillDoes
<1>2. CASE PeerLost(a)
  <2>1. Others(a) /\ UNCHANGED queue /\ job'[a].at \in {"dead", "peer"}
    BY <1>2, PeerLostDoes, DeadIs, NextPeerIs
  <2>2. \A m \in Conn : "server" \in link[m].ends => "server" \in link'[m].ends
    BY <1>2, PeerLostDoes DEF Closes
  <2> QED
    BY <2>1, <2>2, OthersStay, ConnQuiet DEF Rests, Calling, Served
<1>3. CASE ReplayerLost(a)
  <2>1. Others(a) /\ UNCHANGED queue /\ job'[a].at \in {"dead", "accept"} /\ job[a].conn \in Conn
    BY <1>3, ReplayerLostDoes, DeadIs
  <2>2. Serves(a, job[a].conn)
    BY <1>3, ReplayerLostDoes DEF Serves
  <2>3. \A m \in Conn \ {job[a].conn} : link'[m].ends = link[m].ends
    BY <1>3, ReplayerLostDoes DEF Closes
  <2> QED
    BY <2>1, <2>2, <2>3, ConnCloses DEF Rests, Calling, Served
<1>4. CASE Stray(a)
  <2>1. \A b \in Pool : Stays(b) \/ Rests(b)
    BY <1>4, StrayDoes, DeadIs DEF Stays, Rests, Calling, Served
  <2>2. UNCHANGED queue /\ UNCHANGED link
    BY <1>4, StrayDoes
  <2> QED
    BY <2>1, <2>2, ConnSame
<1>5. CASE StrayPut(a)
  <2>1. \A b \in Pool : Stays(b) \/ Rests(b)
    BY <1>5, StrayPutDoes, DeadIs DEF Others, Stays, Rests, Calling, Served
  <2>2. UNCHANGED queue /\ UNCHANGED link
    BY <1>5, StrayPutDoes
  <2> QED
    BY <2>1, <2>2, ConnSame
<1> QED
  BY <1>1, <1>2, <1>3, <1>4, <1>5

LEMMA ConnInit ==
  ASSUME Init
  PROVE  ConnInv
<1>1. \A a \in Pool : ~Calling(a) /\ ~Served(a)
  BY DeadIs DEF Init, Calling, Served
<1>2. \A n : \A s \in Slave : ~In(n, s)
  BY DEF Init, In
<1>3. OneTurn
  BY DEF Init, OneTurn
<1>4. \A n : \A a \in Pool : ~Entered(a, n) /\ ~Serves(a, n)
  BY <1>1 DEF Entered, Serves
<1>5. \A n : ~Live(n)
  BY <1>2, <1>4 DEF Live
<1>6. OneCaller /\ OneServer /\ ServedThere
  BY <1>4 DEF OneCaller, OneServer, ServedThere
<1>7. NotBoth /\ OneQueue /\ QueuedThere
  BY <1>2, <1>4 DEF NotBoth, OneQueue, QueuedThere
<1> QED
  BY <1>3, <1>5, <1>6, <1>7 DEF ConnInv, StillOpen

LEMMA NextIs ==
  ASSUME Next
  PROVE  \E a \in Pool : AtHome(a) \/ Dial(a) \/ Accept(a) \/ Calls(a) \/ Helps(a) \/ Loses(a)
BY DEF Next, GoOn, Replay, Serve, AtHome, Calls, Helps, Loses

LEMMA ConnNext ==
  ASSUME TypeInv, ConnInv, [Next]_vars
  PROVE  ConnInv'
<1>1. CASE UNCHANGED vars
  BY <1>1 DEF vars, ConnInv, OneCaller, OneServer, NotBoth, OneQueue, OneTurn, ServedThere, QueuedThere,
     StillOpen, Live, Entered, Serves, In, Calling, Served, Peer
<1>2. CASE Next
  BY <1>2, NextIs, LocalConn, DialConn, AcceptConn, CallerConn, ServerConn, LostConn
     DEF AtHome, Calls, Helps, Loses
<1> QED
  BY <1>1, <1>2

-----------------------------------------------------------------------------
(* The third layer: what is on its way on a connection, and what the worker   *)
(* that serves it does, while the one that replays is at one place.           *)

Waits(n)     == \A b \in Pool : Serves(b, n) => job[b].at = "serve"
Heads(n, p)  == /\ \A s \in Slave : ~In(n, s)
                /\ \A b \in Pool : Serves(b, n) => job[b].at = "header" /\ job[b].path = p
Stores(n, p) == /\ \A s \in Slave : ~In(n, s)
                /\ \A b \in Pool : Serves(b, n) => job[b].at = "storing" /\ job[b].path = p

Full == Content \cup {OLD}

Quiets(n)  == link[n].out = <<>> /\ link[n].back = <<>>
Sent(n, m) == link[n].out = <<m>> /\ link[n].back = <<>>
Told(n, m) == link[n].out = <<>> /\ link[n].back = <<m>>

\* What was sent of a file that was refused is left, and then what follows it.
Left(n, back) == \E w \in Full : link[n].out = <<Block(w)>> /\ link[n].back = back
LeftTo(n, e)  == \E w \in Full : link[n].out = <<Block(w), Update(e)>> /\ link[n].back = <<>>
ByeLeft(n)    == link[n].out = <<Bye>> \/ \E w \in Full : link[n].out = <<Block(w), Bye>>

\* The worker that replays entry e over n is at a place.
AtAck(n, e)    == \/ (Sent(n, Update(e)) \/ LeftTo(n, e)) /\ Waits(n)
                  \/ Told(n, "done") /\ e.type = "RM" /\ Waits(n)
                  \/ Told(n, "ready") /\ e.type = "PUT" /\ Heads(n, e.path)
AtBlock(n, e)  == \/ (\E v \in Full : Sent(n, Header(v))) /\ Heads(n, e.path)
                  \/ Quiets(n) /\ Stores(n, e.path)
                  \/ Told(n, "done") /\ Waits(n)
Both(n)        == \E v, w \in Full : link[n].out = <<Header(v), Block(w)>> /\ link[n].back = <<>>
AtStored(n, e) == \/ (\E v \in File : Sent(n, Header(v))) /\ Heads(n, e.path)
                  \/ Both(n) /\ Heads(n, e.path)
                  \/ (\E w \in Full : Sent(n, Block(w))) /\ Stores(n, e.path)
                  \/ Quiets(n) /\ Stores(n, e.path)
                  \/ (Told(n, "done") \/ Left(n, <<"done">>)) /\ Waits(n)

Step(at, n, e) ==
  \/ at = "entry" /\ (Quiets(n) \/ Left(n, <<>>)) /\ Waits(n)
  \/ at = "ack" /\ AtAck(n, e)
  \/ at = "open" /\ Quiets(n) /\ Heads(n, e.path)
  \/ at = "block" /\ AtBlock(n, e)
  \/ at = "stored" /\ AtStored(n, e)

ProtoInv == \A a \in Pool : Calling(a) => Step(job[a].at, job[a].conn, EntryOf(a))

\* Nobody comes to connection n, and who serves it does what it did.
NoNews(n) == /\ \A b \in Pool : Serves(b, n)' => /\ Serves(b, n)
                                                 /\ job'[b].at = job[b].at /\ job'[b].path = job[b].path
             /\ \A s \in Slave : In(n, s)' => In(n, s)

LEMMA NoNewsKeeps ==
  ASSUME NEW n \in Conn, NoNews(n)
  PROVE  /\ Waits(n) => Waits(n)'
         /\ \A p : Heads(n, p) => Heads(n, p)'
         /\ \A p : Stores(n, p) => Stores(n, p)'
BY DEF NoNews, Waits, Heads, Stores

SameWords(n) == link'[n].out = link[n].out /\ link'[n].back = link[n].back

LEMMA StepKeeps ==
  ASSUME NEW n \in Conn, NoNews(n), SameWords(n), NEW at, NEW e, Step(at, n, e)
  PROVE  Step(at, n, e)'
<1>1. /\ Waits(n) => Waits(n)'
      /\ Heads(n, e.path) => Heads(n, e.path)'
      /\ Stores(n, e.path) => Stores(n, e.path)'
  BY NoNewsKeeps
<1>2. /\ Quiets(n)' <=> Quiets(n)
      /\ \A m : Sent(n, m)' <=> Sent(n, m)
      /\ \A m : Told(n, m)' <=> Told(n, m)
      /\ \A x : Left(n, x)' <=> Left(n, x)
      /\ LeftTo(n, e)' <=> LeftTo(n, e)
      /\ Both(n)' <=> Both(n)
  BY DEF SameWords, Quiets, Sent, Told, Left, LeftTo, Both
<1>3. AtAck(n, e) => AtAck(n, e)'
  BY <1>1, <1>2 DEF AtAck
<1>4. AtBlock(n, e) => AtBlock(n, e)'
  BY <1>1, <1>2 DEF AtBlock
<1>5. AtStored(n, e) => AtStored(n, e)'
  BY <1>1, <1>2 DEF AtStored
<1> QED
  BY <1>1, <1>2, <1>3, <1>4, <1>5 DEF Step

\* A worker that replays and stays where it is.
Same(a) == /\ job'[a].at = job[a].at /\ job'[a].log = job[a].log /\ job'[a].k = job[a].k
           /\ job'[a].conn = job[a].conn

LEMMA ProtoKeeps ==
  ASSUME TypeInv, ProtoInv, NEW a \in Pool, Calling(a)', Same(a), NoNews(job[a].conn), SameWords(job[a].conn)
  PROVE  Step(job[a].at, job[a].conn, EntryOf(a))'
<1>1. Calling(a)
  BY DEF Same, Calling
<1>2. PICK n \in Conn : n = job[a].conn
  BY <1>1, ConnType DEF Calling
<1>3. PICK at : at = job[a].at
  OBVIOUS
<1>4. PICK e : e = EntryOf(a)
  OBVIOUS
<1>5. Step(at, n, e)
  BY <1>1, <1>2, <1>3, <1>4 DEF ProtoInv
<1>6. Step(at, n, e)'
  BY <1>2, <1>5, StepKeeps
<1>7. job'[a].at = at /\ job'[a].conn = n /\ EntryOf(a)' = e
  BY <1>2, <1>3, <1>4 DEF Same, EntryOf
<1> QED
  BY <1>6, <1>7 DEF Step, AtAck, AtBlock, AtStored, Quiets, Sent, Told, Left, LeftTo, Both,
     Waits, Heads, Stores


LEMMA NoNewsWhen ==
  ASSUME UNCHANGED queue, NEW a \in Pool, Others(a), ~Served(a), ~Served(a)'
  PROVE  \A n : NoNews(n)
<1>1. \A n : \A b \in Pool : Serves(b, n)' => b # a
  BY DEF Serves
<1>2. \A b \in Pool \ {a} : job'[b] = job[b]
  BY DEF Others
<1>3. \A n : \A b \in Pool : Serves(b, n)' => /\ Serves(b, n)
                                             /\ job'[b].at = job[b].at /\ job'[b].path = job[b].path
  BY <1>1, <1>2 DEF Serves, Served
<1>4. \A n, s : In(n, s)' => In(n, s)
  BY DEF In
<1> QED
  BY <1>3, <1>4 DEF NoNews

\* The step of one that replays is of no concern to the others that do.
LEMMA OthersProto ==
  ASSUME TypeInv, ConnInv, ProtoInv, NEW a \in Pool, NEW n \in Conn, Entered(a, n),
         Others(a), \A m \in Conn \ {n} : SameWords(m), \A m : NoNews(m)
  PROVE  \A b \in Pool \ {a} : Calling(b)' => Step(job[b].at, job[b].conn, EntryOf(b))'
<1> SUFFICES ASSUME NEW b \in Pool \ {a}, Calling(b)'
             PROVE  Step(job[b].at, job[b].conn, EntryOf(b))'
  OBVIOUS
<1>1. Same(b)
  BY DEF Others, Same
<1>2. Calling(b)
  BY <1>1 DEF Same, Calling
<1>3. job[b].conn \in Conn
  BY <1>2, ConnType DEF Calling
<1>4. job[b].conn # n
  BY <1>2 DEF ConnInv, OneCaller, Entered
<1> QED
  BY <1>1, <1>3, <1>4, ProtoKeeps

\* What there is after each step of one that replays.
LEMMA AppendOne ==
  \A m : Append(<<>>, m) = <<m>>
OBVIOUS

LEMMA AppendTwo ==
  \A x, y : Append(<<x>>, y) = <<x, y>>
<1> SUFFICES ASSUME NEW x, NEW y PROVE Append(<<x>>, y) = <<x, y>>
  OBVIOUS
<1>1. <<x>> \in Seq({x, y}) /\ <<x, y>> \in Seq({x, y})
  OBVIOUS
<1>2. /\ Append(<<x>>, y) \in Seq({x, y}) /\ Len(Append(<<x>>, y)) = 2
      /\ Append(<<x>>, y)[1] = x /\ Append(<<x>>, y)[2] = y
  BY <1>1
<1>3. Len(<<x, y>>) = 2 /\ <<x, y>>[1] = x /\ <<x, y>>[2] = y
  OBVIOUS
<1>4. PICK s \in Seq({x, y}) : s = Append(<<x>>, y)
  BY <1>2
<1>5. PICK t \in Seq({x, y}) : t = <<x, y>>
  BY <1>1
<1>6. Len(s) = Len(t) /\ \A i \in 1..Len(s) : s[i] = t[i]
  BY <1>2, <1>3, <1>4, <1>5
<1>7. s = t
  BY <1>6, SeqEqual
<1> QED
  BY <1>4, <1>5, <1>7

LEMMA HeadTail ==
  /\ \A x : Head(<<x>>) = x /\ Tail(<<x>>) = <<>> /\ <<x>> # <<>>
  /\ \A x, y : Head(<<x, y>>) = x /\ Tail(<<x, y>>) = <<y>> /\ <<x, y>> # <<>>
<1>1. \A x : Head(<<x>>) = x /\ Tail(<<x>>) = <<>> /\ <<x>> # <<>>
  OBVIOUS
<1>2. \A x, y : Head(<<x, y>>) = x /\ <<x, y>> # <<>>
  OBVIOUS
<1>3. ASSUME NEW x, NEW y PROVE Tail(<<x, y>>) = <<y>>
  <2>1. <<x, y>> \in Seq({x, y}) /\ <<y>> \in Seq({x, y})
    OBVIOUS
  <2>2. /\ Tail(<<x, y>>) \in Seq({x, y}) /\ Len(Tail(<<x, y>>)) = 1
        /\ Tail(<<x, y>>)[1] = y
    BY <2>1
  <2>3. Len(<<y>>) = 1 /\ <<y>>[1] = y
    OBVIOUS
  <2>4. PICK s \in Seq({x, y}) : s = Tail(<<x, y>>)
    BY <2>2
  <2>5. PICK t \in Seq({x, y}) : t = <<y>>
    BY <2>1
  <2>6. Len(s) = Len(t) /\ \A i \in 1..Len(s) : s[i] = t[i]
    BY <2>2, <2>3, <2>4, <2>5
  <2>7. s = t
    BY <2>6, SeqEqual
  <2> QED
    BY <2>4, <2>5, <2>7
<1> QED
  BY <1>1, <1>2, <1>3

LEMMA SendUpdateProto ==
  ASSUME TypeInv, ConnInv, ProtoInv, NEW a \in Pool, SendUpdate(a)
  PROVE  ProtoInv'
<1>a. PICK n \in Conn : n = job[a].conn
  BY SendUpdateDoes
<1>b. PICK e : e = EntryOf(a)
  OBVIOUS
<1>1. /\ job[a].at = "entry" /\ Goes(a, "ack", job[a].k) /\ UNCHANGED queue
      /\ Carries(n, Append(link[n].out, Update(e)), link[n].back, link[n].ends)
  BY <1>a, <1>b, SendUpdateDoes
<1>2. Entered(a, n) /\ Calling(a) /\ ~Served(a) /\ ~Served(a)'
  BY <1>1, <1>a DEF Entered, Calling, Served, Goes
<1>3. \A m : NoNews(m)
  BY <1>1, <1>2, NoNewsWhen DEF Goes
<1>4. \A b \in Pool \ {a} : Calling(b)' => Step(job[b].at, job[b].conn, EntryOf(b))'
  BY <1>1, <1>2, <1>3, OthersProto DEF Goes, Carries, SameWords
<1>5. Step("entry", n, e)
  BY <1>1, <1>2, <1>a, <1>b DEF ProtoInv
<1>6. (Quiets(n) \/ Left(n, <<>>)) /\ Waits(n)
  BY <1>5 DEF Step
<1>7. (Sent(n, Update(e)) \/ LeftTo(n, e))' /\ Waits(n)'
  <2>1. Waits(n)'
    BY <1>3, <1>6, NoNewsKeeps
  <2>2. CASE Quiets(n)
    BY <1>1, <2>1, <2>2 DEF Quiets, Sent, Carries
  <2>3. CASE Left(n, <<>>)
    <3>1. PICK w \in Full : link[n].out = <<Block(w)>> /\ link[n].back = <<>>
      BY <2>3 DEF Left
    <3>2. link'[n].out = <<Block(w), Update(e)>> /\ link'[n].back = <<>>
      BY <1>1, <3>1, AppendTwo DEF Carries
    <3>3. LeftTo(n, e)'
      BY <3>2 DEF LeftTo, Block, Update
    <3> QED
      BY <2>1, <3>3
  <2> QED
    BY <1>6, <2>2, <2>3
<1>8. job'[a].at = "ack" /\ job'[a].conn = n /\ EntryOf(a)' = e
  BY <1>1, <1>a, <1>b DEF Goes, EntryOf
<1>9. Step(job[a].at, job[a].conn, EntryOf(a))'
  BY <1>7, <1>8 DEF Step, AtAck, Sent, LeftTo, Waits
<1> QED
  BY <1>4, <1>9 DEF ProtoInv

LEMMA ReadAckProto ==
  ASSUME TypeInv, ConnInv, ProtoInv, NEW a \in Pool, ReadAck(a)
  PROVE  ProtoInv'
<1>a. PICK n \in Conn : n = job[a].conn
  BY ReadAckDoes
<1>b. PICK e : e = EntryOf(a)
  OBVIOUS
<1>1. /\ job[a].at = "ack" /\ link[n].back # <<>> /\ UNCHANGED queue
      /\ \/ e.type = "RM" /\ Goes(a, "entry", job[a].k + 1)
         \/ /\ e.type = "PUT"
            /\ Goes(a, IF Head(link[n].back) = "ready" THEN "open" ELSE "bye", job[a].k)
      /\ Carries(n, link[n].out, Tail(link[n].back), link[n].ends)
  BY <1>a, <1>b, ReadAckDoes
<1>2. Step("ack", n, e) /\ Entered(a, n) /\ ~Served(a)
  BY <1>1, <1>a, <1>b DEF ProtoInv, Calling, Entered, Served
<1>3. \/ Told(n, "done") /\ e.type = "RM" /\ Waits(n)
      \/ Told(n, "ready") /\ e.type = "PUT" /\ Heads(n, e.path)
  BY <1>1, <1>2 DEF Step, AtAck, Sent, LeftTo
<1>4. Others(a) /\ job'[a].conn = n /\ job'[a].log = job[a].log
  BY <1>1, <1>a DEF Goes
<1>5. CASE Told(n, "done") /\ e.type = "RM" /\ Waits(n)
  <2>1. job'[a].at = "entry" /\ ~Served(a)'
    BY <1>1, <1>5 DEF Goes, Served
  <2>2. \A m : NoNews(m)
    BY <1>1, <1>2, <1>4, <2>1, NoNewsWhen
  <2>3. \A b \in Pool \ {a} : Calling(b)' => Step(job[b].at, job[b].conn, EntryOf(b))'
    BY <1>1, <1>2, <1>4, <2>2, OthersProto DEF Carries, SameWords
  <2>4. Quiets(n)' /\ Waits(n)'
    BY <1>1, <1>5, <2>2, NoNewsKeeps DEF Quiets, Told, Carries
  <2>5. Step(job[a].at, job[a].conn, EntryOf(a))'
    BY <1>4, <2>1, <2>4 DEF Step, Quiets, Waits
  <2> QED
    BY <2>3, <2>5 DEF ProtoInv
<1>6. CASE Told(n, "ready") /\ e.type = "PUT" /\ Heads(n, e.path)
  <2>1. job'[a].at = "open" /\ job'[a].k = job[a].k /\ ~Served(a)'
    BY <1>1, <1>6 DEF Goes, Served, Told
  <2>2. \A m : NoNews(m)
    BY <1>1, <1>2, <1>4, <2>1, NoNewsWhen
  <2>3. \A b \in Pool \ {a} : Calling(b)' => Step(job[b].at, job[b].conn, EntryOf(b))'
    BY <1>1, <1>2, <1>4, <2>2, OthersProto DEF Carries, SameWords
  <2>4. Quiets(n)' /\ Heads(n, e.path)'
    BY <1>1, <1>6, <2>2, NoNewsKeeps DEF Quiets, Told, Carries
  <2>5. EntryOf(a)' = e
    BY <1>4, <2>1, <1>b DEF EntryOf
  <2>6. Step(job[a].at, job[a].conn, EntryOf(a))'
    BY <1>4, <2>1, <2>4, <2>5 DEF Step, Quiets, Heads
  <2> QED
    BY <2>3, <2>6 DEF ProtoInv
<1> QED
  BY <1>3, <1>5, <1>6

\* One that replays goes from one place to the next.
LEMMA CallerMoves ==
  ASSUME TypeInv, ConnInv, ProtoInv, NEW a \in Pool, NEW n \in Conn, NEW at \in Place, NEW k, Entered(a, n),
         Goes(a, at, k), at \in {"entry", "ack", "open", "block", "stored"}, UNCHANGED queue,
         \A m \in Conn \ {n} : SameWords(m)
  PROVE  /\ \A m : NoNews(m)
         /\ k = job[a].k /\ Step(at, n, EntryOf(a))' => ProtoInv'
         /\ at = "entry" /\ (Quiets(n) \/ Left(n, <<>>))' /\ Waits(n)' => ProtoInv'
<1>1. Others(a) /\ ~Served(a) /\ ~Served(a)' /\ job'[a].at = at /\ job'[a].conn = n /\ job'[a].log = job[a].log
  BY DEF Goes, Served, Entered, Calling
<1>2. \A m : NoNews(m)
  BY <1>1, NoNewsWhen
<1>3. \A b \in Pool \ {a} : Calling(b)' => Step(job[b].at, job[b].conn, EntryOf(b))'
  BY <1>1, <1>2, OthersProto
<1>4. ASSUME k = job[a].k, Step(at, n, EntryOf(a))' PROVE ProtoInv'
  <2>1. Step(job[a].at, job[a].conn, EntryOf(a))'
    BY <1>1, <1>4 DEF Step, AtAck, AtBlock, AtStored, Quiets, Sent, Told, Left, LeftTo, Both,
     Waits, Heads, Stores
  <2> QED
    BY <1>3, <2>1 DEF ProtoInv
<1>5. ASSUME at = "entry", (Quiets(n) \/ Left(n, <<>>))', Waits(n)' PROVE ProtoInv'
  <2>1. Step(job[a].at, job[a].conn, EntryOf(a))'
    BY <1>1, <1>5 DEF Step, Quiets, Left, Waits
  <2> QED
    BY <1>3, <2>1 DEF ProtoInv
<1> QED
  BY <1>2, <1>4, <1>5

LEMMA CarriesWords ==
  ASSUME NEW n \in Conn, NEW out, NEW back, NEW ends, Carries(n, out, back, ends)
  PROVE  \A m \in Conn \ {n} : SameWords(m)
BY DEF Carries, SameWords

LEMMA SendHeaderProto ==
  ASSUME TypeInv, ConnInv, ProtoInv, NEW a \in Pool, SendHeader(a)
  PROVE  ProtoInv'
<1>a. PICK n \in Conn : n = job[a].conn
  BY SendHeaderDoes
<1>b. PICK e : e = EntryOf(a)
  OBVIOUS
<1>c. PICK v \in File : v = disk[SlaveOf(a)][e.path]
  BY <1>b, SendHeaderDoes
<1>1. /\ job[a].at = "open" /\ UNCHANGED queue
      /\ Goes(a, IF v \in {NONE, EMPTY} THEN "stored" ELSE "block", job[a].k)
      /\ Carries(n, Append(link[n].out, Header(v)), link[n].back, link[n].ends)
  BY <1>a, <1>b, <1>c, SendHeaderDoes
<1>2. Step("open", n, e) /\ Entered(a, n)
  BY <1>1, <1>a, <1>b DEF ProtoInv, Calling, Entered
<1>3. Quiets(n) /\ Heads(n, e.path)
  BY <1>2 DEF Step
<1>4. PICK at \in Place : at = IF v \in {NONE, EMPTY} THEN "stored" ELSE "block"
  BY DEF Place
<1>5. Goes(a, at, job[a].k) /\ EntryOf(a)' = e
  BY <1>1, <1>4, <1>b DEF Goes, EntryOf
<1>6. \A m : NoNews(m)
  BY <1>1, <1>2, <1>4, <1>5, CallerMoves, CarriesWords
<1>7. Sent(n, Header(v))' /\ Heads(n, e.path)'
  BY <1>1, <1>3, <1>6, NoNewsKeeps DEF Quiets, Sent, Carries, Header
<1>8. Step(at, n, e)'
  <2>1. CASE v \in {NONE, EMPTY}
    BY <1>4, <1>7, <2>1 DEF Step, AtStored
  <2>2. CASE v \notin {NONE, EMPTY}
    <3>1. v \in Full
      BY <2>2 DEF File, Full
    <3> QED
      BY <1>4, <1>7, <2>2, <3>1 DEF Step, AtBlock
  <2> QED
    BY <2>1, <2>2
<1>9. Step(at, n, EntryOf(a))'
  BY <1>5, <1>8 DEF Step, AtAck, AtBlock, AtStored, Quiets, Sent, Told, Left, LeftTo, Both,
     Waits, Heads, Stores
<1> QED
  BY <1>1, <1>2, <1>4, <1>5, <1>9, CallerMoves, CarriesWords

LEMMA SendBlockProto ==
  ASSUME TypeInv, ConnInv, ProtoInv, NEW a \in Pool, SendBlock(a)
  PROVE  ProtoInv'
<1>a. PICK n \in Conn : n = job[a].conn
  BY SendBlockDoes
<1>b. PICK e : e = EntryOf(a)
  OBVIOUS
<1>1. /\ job[a].at = "block" /\ UNCHANGED queue /\ Goes(a, "stored", job[a].k)
      /\ \/ UNCHANGED link
         \/ \E v \in Full : Carries(n, Append(link[n].out, Block(v)), link[n].back, link[n].ends)
  <2>1. PICK v : \/ UNCHANGED link
                 \/ /\ v \in Full
                    /\ Carries(n, Append(link[n].out, Block(v)), link[n].back, link[n].ends)
    BY <1>a, SendBlockDoes DEF Full
  <2> QED
    BY <2>1, SendBlockDoes
<1>2. Step("block", n, e) /\ Entered(a, n)
  BY <1>1, <1>a, <1>b DEF ProtoInv, Calling, Entered
<1>3. \/ (\E v \in Full : Sent(n, Header(v))) /\ Heads(n, e.path)
      \/ Quiets(n) /\ Stores(n, e.path)
      \/ Told(n, "done") /\ Waits(n)
  BY <1>2 DEF Step, AtBlock
<1>4. \A m \in Conn \ {n} : SameWords(m)
  BY <1>1, CarriesWords DEF SameWords
<1>5. \A m : NoNews(m)
  BY <1>1, <1>2, <1>4, CallerMoves DEF Place
<1>6. EntryOf(a)' = e
  BY <1>1, <1>b DEF Goes, EntryOf
<1>7. ASSUME AtStored(n, e)' PROVE ProtoInv'
  <2>1. Step("stored", n, EntryOf(a))'
    BY <1>6, <1>7 DEF Step, AtAck, AtBlock, AtStored, Quiets, Sent, Told, Left, LeftTo, Both,
     Waits, Heads, Stores
  <2> QED
    BY <1>1, <1>2, <1>4, <2>1, CallerMoves DEF Place
<1>8. CASE UNCHANGED link
  <2>1. SameWords(n)
    BY <1>8 DEF SameWords
  <2>a. Step("block", n, e)'
    BY <1>2, <1>5, <2>1, StepKeeps
  <2>2. AtBlock(n, e)'
    BY <2>a DEF Step
  <2>3. \A v \in Full : v \in File
    BY DEF Full, File
  <2>4. AtStored(n, e)'
    BY <2>2, <2>3 DEF AtBlock, AtStored
  <2> QED
    BY <1>7, <2>4
<1>9. ASSUME NEW w \in Full, Carries(n, Append(link[n].out, Block(w)), link[n].back, link[n].ends)
      PROVE  ProtoInv'
  <2>1. ASSUME NEW v \in Full, Sent(n, Header(v)), Heads(n, e.path) PROVE AtStored(n, e)'
    <3>1. Heads(n, e.path)'
      BY <1>5, <2>1, NoNewsKeeps
    <3>2. link'[n].out = Append(link[n].out, Block(w)) /\ link[n].out = <<Header(v)>>
          /\ link[n].back = <<>> /\ link'[n].back = link[n].back
      BY <1>9, <2>1 DEF Carries, Sent
    <3>4. link'[n].out = <<Header(v), Block(w)>> /\ link'[n].back = <<>>
      BY <3>2, AppendTwo
    <3>5. Both(n)'
      BY <3>4 DEF Both, Header, Block
    <3> QED
      BY <3>1, <3>5 DEF AtStored
  <2>2. ASSUME Quiets(n), Stores(n, e.path) PROVE AtStored(n, e)'
    <3>1. Stores(n, e.path)'
      BY <1>5, <2>2, NoNewsKeeps
    <3>2. link'[n].out = <<Block(w)>> /\ link'[n].back = <<>>
      BY <1>9, <2>2, AppendOne DEF Carries, Quiets
    <3>3. Sent(n, Block(w))'
      BY <3>2 DEF Sent, Block
    <3> QED
      BY <3>1, <3>3 DEF AtStored
  <2>3. ASSUME Told(n, "done"), Waits(n) PROVE AtStored(n, e)'
    <3>1. Waits(n)'
      BY <1>5, <2>3, NoNewsKeeps
    <3>2. link'[n].out = <<Block(w)>> /\ link'[n].back = <<"done">>
      BY <1>9, <2>3, AppendOne DEF Carries, Told
    <3>3. Left(n, <<"done">>)'
      BY <3>2 DEF Left, Block
    <3> QED
      BY <3>1, <3>3 DEF AtStored
  <2> QED
    BY <1>3, <1>7, <2>1, <2>2, <2>3
<1> QED
  BY <1>1, <1>8, <1>9

LEMMA ReadStoredProto ==
  ASSUME TypeInv, ConnInv, ProtoInv, NEW a \in Pool, ReadStored(a)
  PROVE  ProtoInv'
<1>a. PICK n \in Conn : n = job[a].conn
  BY ReadStoredDoes
<1>b. PICK e : e = EntryOf(a)
  OBVIOUS
<1>1. /\ job[a].at = "stored" /\ UNCHANGED queue /\ Goes(a, "entry", job[a].k + 1) /\ link[n].back # <<>>
      /\ Carries(n, link[n].out, Tail(link[n].back), link[n].ends)
  BY <1>a, ReadStoredDoes
<1>2. Step("stored", n, e) /\ Entered(a, n)
  BY <1>1, <1>a, <1>b DEF ProtoInv, Calling, Entered
<1>3. (Told(n, "done") \/ Left(n, <<"done">>)) /\ Waits(n)
  BY <1>1, <1>2 DEF Step, AtStored, Sent, Both, Quiets
<1>4. \A m : NoNews(m)
  BY <1>1, <1>2, CallerMoves, CarriesWords DEF Place
<1>5. (Quiets(n) \/ Left(n, <<>>))' /\ Waits(n)'
  <2>1. Waits(n)'
    BY <1>3, <1>4, NoNewsKeeps
  <2>2. link'[n].out = link[n].out /\ link'[n].back = Tail(link[n].back)
    BY <1>1 DEF Carries
  <2>3. CASE Told(n, "done")
    BY <2>1, <2>2, <2>3, HeadTail DEF Quiets, Told
  <2>4. CASE Left(n, <<"done">>)
    <3>1. PICK w \in Full : link[n].out = <<Block(w)>> /\ link[n].back = <<"done">>
      BY <2>4 DEF Left
    <3>2. link'[n].out = <<Block(w)>> /\ link'[n].back = <<>>
      BY <2>2, <3>1, HeadTail
    <3>3. Left(n, <<>>)'
      BY <3>2 DEF Left, Block
    <3> QED
      BY <2>1, <3>3
  <2> QED
    BY <1>3, <2>1, <2>3, <2>4
<1> QED
  BY <1>1, <1>2, <1>5, CallerMoves, CarriesWords DEF Place

LEMMA SayByeProto ==
  ASSUME TypeInv, ConnInv, ProtoInv, NEW a \in Pool, SayBye(a)
  PROVE  /\ ProtoInv'
         /\ job[a].at = "entry" /\ job[a].k > Len(job[a].log)
         /\ \A n \in Conn : n = job[a].conn => Waits(n) /\ ByeLeft(n)' /\ Waits(n)'
<1>a. PICK n \in Conn : n = job[a].conn
  BY SayByeDoes
<1>b. PICK e : e = EntryOf(a)
  OBVIOUS
<1>1. /\ job[a].at = "bye" \/ (job[a].at = "entry" /\ job[a].k > Len(job[a].log))
      /\ UNCHANGED queue /\ job'[a] = NextPeer(a) /\ Others(a)
      /\ Carries(n, Append(link[n].out, Bye), link[n].back, link[n].ends \ {"replayer"})
  BY <1>a, SayByeDoes
<1>2. Step(job[a].at, n, e) /\ Entered(a, n) /\ ~Served(a)
  BY <1>1, <1>a, <1>b DEF ProtoInv, Calling, Entered, Served
<1>3. job[a].at = "entry" /\ job[a].k > Len(job[a].log) /\ (Quiets(n) \/ Left(n, <<>>)) /\ Waits(n)
  BY <1>1, <1>2 DEF Step
<1>4. job'[a].at = "peer"
  <2>1. NextPeer(a).at = "peer"
    BY NextPeerIs
  <2> QED
    BY <1>1, <2>1
<1>5. ~Served(a)' /\ ~Calling(a)'
  BY <1>4 DEF Served, Calling
<1>6. \A m : NoNews(m)
  BY <1>1, <1>2, <1>5, NoNewsWhen
<1>7. \A b \in Pool \ {a} : Calling(b)' => Step(job[b].at, job[b].conn, EntryOf(b))'
  BY <1>1, <1>2, <1>6, OthersProto, CarriesWords
<1>8. ProtoInv'
  BY <1>5, <1>7 DEF ProtoInv
<1>9. ByeLeft(n)' /\ Waits(n)'
  <2>1. Waits(n)'
    BY <1>3, <1>6, NoNewsKeeps
  <2>2. CASE Quiets(n)
    BY <1>1, <2>1, <2>2, AppendOne DEF Quiets, ByeLeft, Carries
  <2>3. CASE Left(n, <<>>)
    <3>1. PICK w \in Full : link[n].out = <<Block(w)>>
      BY <2>3 DEF Left
    <3>2. link'[n].out = <<Block(w), Bye>>
      BY <1>1, <3>1, AppendTwo DEF Carries
    <3>3. ByeLeft(n)'
      BY <3>2 DEF ByeLeft, Block, Bye
    <3> QED
      BY <2>1, <3>3
  <2> QED
    BY <1>3, <2>2, <2>3
<1> QED
  BY <1>3, <1>8, <1>9, <1>a

\* There is one that serves n, so that the others are as it is.
LEMMA OnlyServer ==
  ASSUME ConnInv, NEW n \in Conn, NEW b \in Pool, Serves(b, n)
  PROVE  /\ Waits(n) <=> job[b].at = "serve"
         /\ \A p : Heads(n, p) <=> job[b].at = "header" /\ job[b].path = p
         /\ \A p : Stores(n, p) <=> job[b].at = "storing" /\ job[b].path = p
<1>1. \A c \in Pool : Serves(c, n) <=> c = b
  BY DEF ConnInv, OneServer
<1>2. \A s \in Slave : ~In(n, s)
  BY DEF ConnInv, NotBoth
<1> QED
  BY <1>1, <1>2 DEF Waits, Heads, Stores

LEMMA OnlyServerThen ==
  ASSUME ConnInv', NEW n \in Conn, NEW b \in Pool, Serves(b, n)'
  PROVE  /\ Waits(n)' <=> job'[b].at = "serve"
         /\ \A p : Heads(n, p)' <=> job'[b].at = "header" /\ job'[b].path = p
         /\ \A p : Stores(n, p)' <=> job'[b].at = "storing" /\ job'[b].path = p
<1>1. \A c \in Pool : Serves(c, n)' <=> c = b
  BY DEF ConnInv, OneServer
<1>2. \A s \in Slave : ~In(n, s)'
  BY DEF ConnInv, NotBoth
<1> QED
  BY <1>1, <1>2 DEF Waits, Heads, Stores

\* Where the one that replays is, when the one that serves has something to read.
LEMMA CallerOfServe ==
  ASSUME ConnInv, ProtoInv, NEW n \in Conn, NEW a \in Pool, NEW b \in Pool,
         Entered(a, n), Serves(b, n), job[b].at = "serve", link[n].out # <<>>,
         Head(link[n].out).kind # "block"
  PROVE  job[a].at = "ack" /\ Sent(n, Update(EntryOf(a)))
<1>1. Step(job[a].at, n, EntryOf(a))
  BY DEF ProtoInv, Entered
<1>2. ~Heads(n, EntryOf(a).path) /\ ~Stores(n, EntryOf(a).path)
  BY OnlyServer
<1>3. \A w, x : Head(<<Block(w)>>).kind = "block" /\ Head(<<Block(w), x>>).kind = "block"
  BY HeadTail DEF Block
<1>4. ~Left(n, <<>>) /\ ~Left(n, <<"done">>) /\ ~LeftTo(n, EntryOf(a))
  BY <1>3 DEF Left, LeftTo
<1> QED
  BY <1>1, <1>2, <1>4 DEF Step, AtAck, AtBlock, AtStored, Quiets, Told

LEMMA CallerOfHeader ==
  ASSUME ConnInv, ProtoInv, NEW n \in Conn, NEW a \in Pool, NEW b \in Pool,
         Entered(a, n), Serves(b, n), job[b].at = "header", link[n].out # <<>>
  PROVE  /\ job[b].path = EntryOf(a).path
         /\ \/ job[a].at = "block" /\ \E v \in Full : Sent(n, Header(v))
            \/ job[a].at = "stored" /\ \E v \in File : Sent(n, Header(v))
            \/ job[a].at = "stored" /\ Both(n)
<1>1. Step(job[a].at, n, EntryOf(a))
  BY DEF ProtoInv, Entered
<1>2. ~Waits(n) /\ ~Stores(n, EntryOf(a).path)
  BY OnlyServer
<1>3. \/ job[a].at = "block" /\ (\E v \in Full : Sent(n, Header(v))) /\ Heads(n, EntryOf(a).path)
      \/ job[a].at = "stored" /\ (\E v \in File : Sent(n, Header(v))) /\ Heads(n, EntryOf(a).path)
      \/ job[a].at = "stored" /\ Both(n) /\ Heads(n, EntryOf(a).path)
  BY <1>1, <1>2 DEF Step, AtAck, AtBlock, AtStored, Quiets, Told
<1> QED
  BY <1>3, OnlyServer

LEMMA CallerOfStoring ==
  ASSUME ConnInv, ProtoInv, NEW n \in Conn, NEW a \in Pool, NEW b \in Pool,
         Entered(a, n), Serves(b, n), job[b].at = "storing", link[n].out # <<>>
  PROVE  /\ job[b].path = EntryOf(a).path
         /\ job[a].at = "stored" /\ \E w \in Full : Sent(n, Block(w))
<1>1. Step(job[a].at, n, EntryOf(a))
  BY DEF ProtoInv, Entered
<1>2. ~Waits(n) /\ ~Heads(n, EntryOf(a).path)
  BY OnlyServer
<1>3. /\ job[a].at = "stored" /\ (\E w \in Full : Sent(n, Block(w))) /\ Stores(n, EntryOf(a).path)
  BY <1>1, <1>2 DEF Step, AtAck, AtBlock, AtStored, Quiets, Told
<1> QED
  BY <1>3, OnlyServer

\* The step of the one that serves n is of no concern to those that replay over others.
LEMMA HelperMoves ==
  ASSUME TypeInv, ConnInv, ProtoInv, NEW b \in Pool, NEW n \in Conn, Serves(b, n),
         \A c \in Pool \ {b} : AlmostSame(c), UNCHANGED queue, job'[b].conn = n \/ ~Served(b)', ~Calling(b)',
         \A m \in Conn \ {n} : SameWords(m),
         \A a \in Pool : Entered(a, n) => Step(job[a].at, job[a].conn, EntryOf(a))'
  PROVE  ProtoInv'
<1> SUFFICES ASSUME NEW a \in Pool, Calling(a)' PROVE Step(job[a].at, job[a].conn, EntryOf(a))'
  BY DEF ProtoInv
<1>1. a # b
  OBVIOUS
<1>2. Same(a) /\ Calling(a)
  BY <1>1 DEF AlmostSame, Same, Calling
<1>3. PICK m \in Conn : m = job[a].conn
  BY <1>2, ConnType DEF Calling
<1>4. CASE m = n
  BY <1>2, <1>3, <1>4 DEF Entered
<1>5. CASE m # n
  <2>1. \A c \in Pool : Serves(c, m)' => c # b
    BY <1>5 DEF Serves
  <2>2. NoNews(m)
    BY <2>1 DEF NoNews, Serves, Served, AlmostSame, In
  <2> QED
    BY <1>2, <1>3, <1>5, <2>2, ProtoKeeps
<1> QED
  BY <1>4, <1>5

\* The entry of one that replays, while another moves.
LEMMA EntryStays ==
  ASSUME NEW a \in Pool, AlmostSame(a)
  PROVE  job'[a].at = job[a].at /\ job'[a].conn = job[a].conn /\ EntryOf(a)' = EntryOf(a)
BY DEF AlmostSame, EntryOf

\* The step to be shown, when the place and the entry are known.
LEMMA StepIs ==
  ASSUME NEW a \in Pool, NEW at, NEW n, NEW e,
         job'[a].at = at, job'[a].conn = n, EntryOf(a)' = e, Step(at, n, e)'
  PROVE  Step(job[a].at, job[a].conn, EntryOf(a))'
BY DEF Step, AtAck, AtBlock, AtStored, Quiets, Sent, Told, Left, LeftTo, Both,
     Waits, Heads, Stores

LEMMA ServeRmProto ==
  ASSUME TypeInv, ConnInv, ConnInv', ProtoInv, NEW b \in Pool, ServeRm(b)
  PROVE  ProtoInv'
<1>a. PICK n \in Conn : n = job[b].conn
  BY ServeRmDoes
<1>1. /\ job[b].at = "serve" /\ link[n].out # <<>> /\ First(b).kind = "update" /\ First(b).entry.type = "RM"
      /\ job'[b] = Serving(b) /\ UNCHANGED queue
      /\ Carries(n, Tail(link[n].out), Append(link[n].back, "done"), link[n].ends)
  BY <1>a, ServeRmDoes
<1>2. \A c \in Pool \ {b} : AlmostSame(c)
  BY ServeRmDoes, RemoveDoes
<1>3. job'[b].at = "serve" /\ job'[b].conn = n
  BY <1>1, <1>a, ServingIs
<1>4. Serves(b, n) /\ Serves(b, n)' /\ ~Calling(b)'
  BY <1>1, <1>3, <1>a DEF Serves, Served, Calling
<1>5. ASSUME NEW a \in Pool, Entered(a, n) PROVE Step(job[a].at, job[a].conn, EntryOf(a))'
  <2>1. a # b /\ job[a].conn = n
    BY <1>1, <1>5 DEF Entered, Calling
  <2>2. PICK e : e = EntryOf(a)
    OBVIOUS
  <2>3. job[a].at = "ack" /\ Sent(n, Update(e))
    BY <1>1, <1>4, <1>5, <1>a, <2>2, CallerOfServe DEF First
  <2>4. First(b) = Update(e)
    BY <1>a, <2>3, HeadTail DEF First, Sent
  <2>5. e.type = "RM"
    BY <1>1, <2>4 DEF Update
  <2>6. Told(n, "done")'
    BY <1>1, <2>3, HeadTail, AppendOne DEF Sent, Told, Carries
  <2>7. Waits(n)'
    BY <1>3, <1>4, OnlyServerThen
  <2>8. Step("ack", n, e)'
    BY <2>5, <2>6, <2>7 DEF Step, AtAck
  <2>9. job'[a].at = "ack" /\ job'[a].conn = n /\ EntryOf(a)' = e
    BY <1>2, <2>1, <2>2, <2>3, EntryStays
  <2> QED
    BY <2>8, <2>9, StepIs
<1> QED
  BY <1>1, <1>2, <1>3, <1>4, <1>5, HelperMoves, CarriesWords

LEMMA ServePutProto ==
  ASSUME TypeInv, ConnInv, ConnInv', ProtoInv, NEW b \in Pool, ServePut(b)
  PROVE  ProtoInv'
<1>a. PICK n \in Conn : n = job[b].conn
  BY ServePutDoes
<1>b. PICK p : p = First(b).entry.path
  OBVIOUS
<1>1. /\ job[b].at = "serve" /\ link[n].out # <<>> /\ First(b).kind = "update" /\ First(b).entry.type = "PUT"
      /\ job'[b].at = "header" /\ job'[b].conn = n /\ job'[b].path = p /\ UNCHANGED queue /\ Others(b)
      /\ Carries(n, Tail(link[n].out), Append(link[n].back, "ready"), link[n].ends)
  BY <1>a, <1>b, ServePutDoes
<1>2. \A c \in Pool \ {b} : AlmostSame(c)
  BY <1>1, OthersStay
<1>4. Serves(b, n) /\ Serves(b, n)' /\ ~Calling(b)'
  BY <1>1, <1>a DEF Serves, Served, Calling
<1>5. ASSUME NEW a \in Pool, Entered(a, n) PROVE Step(job[a].at, job[a].conn, EntryOf(a))'
  <2>1. a # b /\ job[a].conn = n
    BY <1>1, <1>5 DEF Entered, Calling
  <2>2. PICK e : e = EntryOf(a)
    OBVIOUS
  <2>3. job[a].at = "ack" /\ Sent(n, Update(e))
    BY <1>1, <1>4, <1>5, <1>a, <2>2, CallerOfServe DEF First
  <2>4. First(b) = Update(e)
    BY <1>a, <2>3, HeadTail DEF First, Sent
  <2>5. e.type = "PUT" /\ e.path = p
    BY <1>1, <1>b, <2>4 DEF Update
  <2>6. Told(n, "ready")'
    BY <1>1, <2>3, HeadTail, AppendOne DEF Sent, Told, Carries
  <2>7. Heads(n, e.path)'
    BY <1>1, <1>4, <2>5, OnlyServerThen
  <2>8. Step("ack", n, e)'
    BY <2>5, <2>6, <2>7 DEF Step, AtAck
  <2>9. job'[a].at = "ack" /\ job'[a].conn = n /\ EntryOf(a)' = e
    BY <1>2, <2>1, <2>2, <2>3, EntryStays
  <2> QED
    BY <2>8, <2>9, StepIs
<1> QED
  BY <1>1, <1>2, <1>4, <1>5, HelperMoves, CarriesWords

\* A header that announces no block, or a block.
LEMMA HeaderTells ==
  ASSUME NEW v \in File
  PROVE  /\ (~Header(v).found) <=> (v = NONE)
         /\ (Header(v).found /\ Header(v).blocks = 0) <=> (v = EMPTY)
         /\ (Header(v).found /\ Header(v).blocks = 1) <=> (v \in Full)
<1>1. NONE # EMPTY /\ NONE \notin Full /\ EMPTY \notin Full /\ (v \in Full \/ v = NONE \/ v = EMPTY)
  BY CoherenceAssumption DEF File, Full
<1>2. Header(v).found = (v # NONE) /\ Header(v).blocks = IF v \in {NONE, EMPTY} THEN 0 ELSE 1
  BY HeaderIs
<1>3. CASE v = NONE
  BY <1>1, <1>2, <1>3
<1>4. CASE v = EMPTY
  <2>1. Header(v).found = TRUE /\ Header(v).blocks = 0 /\ v # NONE /\ v \notin Full
    BY <1>1, <1>2, <1>4
  <2> QED
    BY <1>4, <2>1
<1>5. CASE v \in Full
  <2>1. Header(v).found = TRUE /\ Header(v).blocks = 1 /\ v # NONE /\ v # EMPTY
    BY <1>1, <1>2, <1>5
  <2> QED
    BY <1>5, <2>1
<1> QED
  BY <1>1, <1>3, <1>4, <1>5

\* What has been sent, when a header is the first to be read.
LEMMA HeaderRead ==
  ASSUME TypeInv, ConnInv, ProtoInv, NEW a \in Pool, NEW b \in Pool, NEW n \in Conn,
         Entered(a, n), Serves(b, n), job[b].at = "header", link[n].out # <<>>
  PROVE  /\ job[b].path = EntryOf(a).path
         /\ link[n].back = <<>>
         /\ \E v \in File :
              /\ First(b) = Header(v)
              /\ \/ job[a].at = "stored" /\ Sent(n, Header(v))
                 \/ v \in Full /\ job[a].at = "block" /\ Sent(n, Header(v))
                 \/ v \in Full /\ job[a].at = "stored" /\ \E w \in Full : link[n].out = <<Header(v), Block(w)>>
<1>0. \A v \in Full : v \in File
  BY DEF Full, File
<1>1. job[b].conn = n
  BY DEF Serves
<1>2. job[b].path = EntryOf(a).path
  BY CallerOfHeader
<1>3. CASE job[a].at = "block" /\ \E v \in Full : Sent(n, Header(v))
  BY <1>0, <1>1, <1>2, <1>3, HeadTail DEF First, Sent
<1>4. CASE job[a].at = "stored" /\ \E v \in File : Sent(n, Header(v))
  BY <1>1, <1>2, <1>4, HeadTail DEF First, Sent
<1>5. CASE job[a].at = "stored" /\ Both(n)
  <2>1. PICK v \in Full, w \in Full : link[n].out = <<Header(v), Block(w)>> /\ link[n].back = <<>>
    BY <1>5 DEF Both
  <2>2. First(b) = Header(v)
    BY <1>1, <2>1, HeadTail DEF First
  <2> QED
    BY <1>0, <1>2, <1>5, <2>1, <2>2
<1> QED
  BY <1>3, <1>4, <1>5, CallerOfHeader

LEMMA NoSuchFileProto ==
  ASSUME TypeInv, ConnInv, ConnInv', ProtoInv, NEW b \in Pool, NoSuchFile(b)
  PROVE  ProtoInv'
<1>a. PICK n \in Conn : n = job[b].conn
  BY NoSuchFileDoes
<1>1. /\ job[b].at = "header" /\ link[n].out # <<>> /\ ~First(b).found
      /\ job'[b] = Serving(b) /\ UNCHANGED queue /\ Others(b)
      /\ Carries(n, Tail(link[n].out), Append(link[n].back, "done"), link[n].ends)
  BY <1>a, NoSuchFileDoes
<1>2. \A c \in Pool \ {b} : AlmostSame(c)
  BY <1>1, OthersStay
<1>3. job'[b].at = "serve" /\ job'[b].conn = n
  BY <1>1, <1>a, ServingIs
<1>4. Serves(b, n) /\ Serves(b, n)' /\ ~Calling(b)'
  BY <1>1, <1>3, <1>a DEF Serves, Served, Calling
<1>5. ASSUME NEW a \in Pool, Entered(a, n) PROVE Step(job[a].at, job[a].conn, EntryOf(a))'
  <2>1. a # b /\ job[a].conn = n
    BY <1>1, <1>5 DEF Entered, Calling
  <2>2. PICK e : e = EntryOf(a)
    OBVIOUS
  <2>3. PICK v \in File :
          /\ First(b) = Header(v)
          /\ \/ job[a].at = "stored" /\ Sent(n, Header(v))
             \/ v \in Full
    BY <1>1, <1>4, <1>5, HeaderRead
  <2>4. v = NONE /\ v \notin Full
    BY <1>1, <2>3, HeaderTells, CoherenceAssumption DEF Full
  <2>5. job[a].at = "stored" /\ Sent(n, Header(v))
    BY <2>3, <2>4
  <2>6. Told(n, "done")'
    BY <1>1, <2>5, HeadTail, AppendOne DEF Sent, Told, Carries
  <2>7. Waits(n)'
    BY <1>3, <1>4, OnlyServerThen
  <2>8. Step("stored", n, e)'
    BY <2>6, <2>7 DEF Step, AtStored
  <2>9. job'[a].at = "stored" /\ job'[a].conn = n /\ EntryOf(a)' = e
    BY <1>2, <2>1, <2>2, <2>5, EntryStays
  <2> QED
    BY <2>8, <2>9, StepIs
<1> QED
  BY <1>1, <1>2, <1>3, <1>4, <1>5, HelperMoves, CarriesWords

LEMMA OpenFileProto ==
  ASSUME TypeInv, ConnInv, ConnInv', ProtoInv, NEW b \in Pool, OpenFile(b)
  PROVE  ProtoInv'
<1>a. PICK n \in Conn : n = job[b].conn
  BY OpenFileDoes
<1>b. PICK p : p = job[b].path
  OBVIOUS
<1>1. /\ job[b].at = "header" /\ link[n].out # <<>> /\ First(b).found
      /\ UNCHANGED queue /\ Others(b)
      /\ \/ /\ First(b).blocks = 0 /\ job'[b] = Serving(b)
            /\ Carries(n, Tail(link[n].out), Append(link[n].back, "done"), link[n].ends)
         \/ /\ First(b).blocks = 1 /\ job'[b].at = "storing" /\ job'[b].path = p /\ job'[b].conn = n
            /\ Carries(n, Tail(link[n].out), link[n].back, link[n].ends)
  BY <1>a, <1>b, OpenFileDoes
<1>2. \A c \in Pool \ {b} : AlmostSame(c)
  BY <1>1, OthersStay
<1>3. job'[b] = Serving(b) => job'[b].at = "serve" /\ job'[b].conn = n
  BY <1>a, ServingIs
<1>4. Serves(b, n) /\ Serves(b, n)' /\ ~Calling(b)' /\ job'[b].conn = n
  BY <1>1, <1>3, <1>a DEF Serves, Served, Calling
<1>5. ASSUME NEW a \in Pool, Entered(a, n) PROVE Step(job[a].at, job[a].conn, EntryOf(a))'
  <2>1. a # b /\ job[a].conn = n
    BY <1>1, <1>5 DEF Entered, Calling
  <2>2. PICK e : e = EntryOf(a)
    OBVIOUS
  <2>3. PICK v \in File :
          /\ First(b) = Header(v)
          /\ \/ job[a].at = "stored" /\ Sent(n, Header(v))
             \/ v \in Full /\ job[a].at = "block" /\ Sent(n, Header(v))
             \/ v \in Full /\ job[a].at = "stored" /\ \E w \in Full : link[n].out = <<Header(v), Block(w)>>
    BY <1>1, <1>4, <1>5, HeaderRead
  <2>4. e.path = p /\ link[n].back = <<>>
    BY <1>1, <1>b, <1>4, <1>5, <2>2, HeaderRead
  <2>5. job'[a].at = job[a].at /\ job'[a].conn = n /\ EntryOf(a)' = e
    BY <1>2, <2>1, <2>2, EntryStays
  <2>6. CASE First(b).blocks = 0
    <3>1. /\ job'[b] = Serving(b)
          /\ Carries(n, Tail(link[n].out), Append(link[n].back, "done"), link[n].ends)
      BY <1>1, <2>6
    <3>2. v \notin Full
      BY <1>1, <2>3, <2>6, HeaderTells
    <3>3. job[a].at = "stored" /\ Sent(n, Header(v))
      BY <2>3, <3>2
    <3>4. Told(n, "done")'
      BY <3>1, <3>3, HeadTail, AppendOne DEF Sent, Told, Carries
    <3>5. Waits(n)'
      BY <1>3, <1>4, <3>1, OnlyServerThen
    <3>6. Step("stored", n, e)'
      BY <3>4, <3>5 DEF Step, AtStored
    <3> QED
      BY <2>5, <3>3, <3>6, StepIs
  <2>7. CASE First(b).blocks = 1
    <3>1. /\ job'[b].at = "storing" /\ job'[b].path = p
          /\ Carries(n, Tail(link[n].out), link[n].back, link[n].ends)
      BY <1>1, <2>7
    <3>2. v \in Full
      BY <1>1, <2>3, <2>7, HeaderTells
    <3>3. Stores(n, e.path)'
      BY <1>4, <2>4, <3>1, OnlyServerThen
    <3>4. CASE job[a].at \in {"block", "stored"} /\ Sent(n, Header(v))
      <4>1. Quiets(n)'
        BY <3>1, <3>4, HeadTail DEF Sent, Quiets, Carries
      <4>2. Step("block", n, e)' /\ Step("stored", n, e)'
        BY <3>3, <4>1 DEF Step, AtBlock, AtStored
      <4> QED
        BY <2>5, <3>4, <4>2, StepIs
    <3>5. ASSUME job[a].at = "stored", NEW w \in Full, link[n].out = <<Header(v), Block(w)>>
          PROVE  Step(job[a].at, job[a].conn, EntryOf(a))'
      <4>1. link'[n].out = <<Block(w)>> /\ link'[n].back = <<>>
        BY <2>4, <3>1, <3>5, HeadTail DEF Carries
      <4>2. Sent(n, Block(w))'
        BY <4>1 DEF Sent, Block
      <4>3. Step("stored", n, e)'
        BY <3>3, <4>2 DEF Step, AtStored
      <4> QED
        BY <2>5, <3>5, <4>3, StepIs
    <3> QED
      BY <2>3, <3>4, <3>5
  <2> QED
    BY <1>1, <2>6, <2>7
<1>6. \A m \in Conn \ {n} : SameWords(m)
  BY <1>1, CarriesWords
<1> QED
  BY <1>1, <1>2, <1>4, <1>5, <1>6, HelperMoves

LEMMA RefuseFileProto ==
  ASSUME TypeInv, ConnInv, ConnInv', ProtoInv, NEW b \in Pool, RefuseFile(b)
  PROVE  ProtoInv'
<1>a. PICK n \in Conn : n = job[b].conn
  BY RefuseFileDoes
<1>b. PICK rest \in {Tail(link[n].out), <<>>} :
        Carries(n, rest, Append(link[n].back, "done"), link[n].ends)
  BY <1>a, RefuseFileDoes
<1>1. /\ job[b].at = "header" /\ link[n].out # <<>> /\ First(b).found
      /\ job'[b] = Serving(b) /\ UNCHANGED queue /\ Others(b)
  BY <1>a, RefuseFileDoes
<1>2. \A c \in Pool \ {b} : AlmostSame(c)
  BY <1>1, OthersStay
<1>3. job'[b].at = "serve" /\ job'[b].conn = n
  BY <1>1, <1>a, ServingIs
<1>4. Serves(b, n) /\ Serves(b, n)' /\ ~Calling(b)'
  BY <1>1, <1>3, <1>a DEF Serves, Served, Calling
<1>5. ASSUME NEW a \in Pool, Entered(a, n) PROVE Step(job[a].at, job[a].conn, EntryOf(a))'
  <2>1. a # b /\ job[a].conn = n
    BY <1>1, <1>5 DEF Entered, Calling
  <2>2. PICK e : e = EntryOf(a)
    OBVIOUS
  <2>3. PICK v \in File :
          /\ First(b) = Header(v)
          /\ \/ job[a].at = "stored" /\ Sent(n, Header(v))
             \/ v \in Full /\ job[a].at = "block" /\ Sent(n, Header(v))
             \/ v \in Full /\ job[a].at = "stored" /\ \E w \in Full : link[n].out = <<Header(v), Block(w)>>
    BY <1>1, <1>4, <1>5, HeaderRead
  <2>4. link[n].back = <<>>
    BY <1>1, <1>4, <1>5, HeaderRead
  <2>5. job'[a].at = job[a].at /\ job'[a].conn = n /\ EntryOf(a)' = e
    BY <1>2, <2>1, <2>2, EntryStays
  <2>6. Waits(n)' /\ link'[n].back = <<"done">> /\ link'[n].out = rest
    BY <1>b, <1>3, <1>4, <2>4, OnlyServerThen, AppendOne DEF Carries
  <2>7. CASE job[a].at \in {"block", "stored"} /\ Sent(n, Header(v))
    <3>1. Told(n, "done")'
      BY <1>b, <2>6, <2>7, HeadTail DEF Sent, Told
    <3>2. AtBlock(n, e)' /\ AtStored(n, e)'
      BY <2>6, <3>1 DEF AtBlock, AtStored
    <3>3. Step("block", n, e)' /\ Step("stored", n, e)'
      BY <3>2 DEF Step
    <3> QED
      BY <2>5, <2>7, <3>3, StepIs
  <2>8. ASSUME job[a].at = "stored", NEW w \in Full, link[n].out = <<Header(v), Block(w)>>
        PROVE  Step(job[a].at, job[a].conn, EntryOf(a))'
    <3>1. rest = <<Block(w)>> \/ rest = <<>>
      BY <1>b, <2>8, HeadTail
    <3>2. (Told(n, "done") \/ Left(n, <<"done">>))'
      BY <2>6, <3>1 DEF Told, Left, Block
    <3>3. AtStored(n, e)'
      BY <2>6, <3>2 DEF AtStored
    <3>4. Step("stored", n, e)'
      BY <3>3 DEF Step
    <3> QED
      BY <2>5, <2>8, <3>4, StepIs
  <2> QED
    BY <2>3, <2>7, <2>8
<1> QED
  BY <1>b, <1>1, <1>2, <1>3, <1>4, <1>5, HelperMoves, CarriesWords

LEMMA StoreBlockProto ==
  ASSUME TypeInv, ConnInv, ConnInv', ProtoInv, NEW b \in Pool, StoreBlock(b)
  PROVE  ProtoInv'
<1>a. PICK n \in Conn : n = job[b].conn
  BY StoreBlockDoes
<1>1. /\ job[b].at = "storing" /\ link[n].out # <<>>
      /\ job'[b] = Serving(b) /\ UNCHANGED queue /\ Others(b)
      /\ Carries(n, Tail(link[n].out), Append(link[n].back, "done"), link[n].ends)
  BY <1>a, StoreBlockDoes
<1>2. \A c \in Pool \ {b} : AlmostSame(c)
  BY <1>1, OthersStay
<1>3. job'[b].at = "serve" /\ job'[b].conn = n
  BY <1>1, <1>a, ServingIs
<1>4. Serves(b, n) /\ Serves(b, n)' /\ ~Calling(b)'
  BY <1>1, <1>3, <1>a DEF Serves, Served, Calling
<1>5. ASSUME NEW a \in Pool, Entered(a, n) PROVE Step(job[a].at, job[a].conn, EntryOf(a))'
  <2>1. a # b /\ job[a].conn = n
    BY <1>1, <1>5 DEF Entered, Calling
  <2>2. PICK e : e = EntryOf(a)
    OBVIOUS
  <2>3. PICK w \in Full : job[a].at = "stored" /\ Sent(n, Block(w))
    BY <1>1, <1>4, <1>5, CallerOfStoring
  <2>4. Told(n, "done")'
    BY <1>1, <2>3, HeadTail, AppendOne DEF Sent, Told, Carries
  <2>5. Waits(n)'
    BY <1>3, <1>4, OnlyServerThen
  <2>6. Step("stored", n, e)'
    BY <2>4, <2>5 DEF Step, AtStored
  <2>7. job'[a].at = "stored" /\ job'[a].conn = n /\ EntryOf(a)' = e
    BY <1>2, <2>1, <2>2, <2>3, EntryStays
  <2> QED
    BY <2>6, <2>7, StepIs
<1> QED
  BY <1>1, <1>2, <1>3, <1>4, <1>5, HelperMoves, CarriesWords

\* Who says bye has gone.
LEMMA ServeByeProto ==
  ASSUME TypeInv, ConnInv, ConnInv', ProtoInv, NEW b \in Pool, ServeBye(b)
  PROVE  ProtoInv'
<1>a. PICK n \in Conn : n = job[b].conn
  BY ServeByeDoes
<1>1. /\ job[b].at = "serve" /\ link[n].out # <<>> /\ First(b).kind = "bye"
      /\ job'[b] = Idle /\ UNCHANGED queue /\ Others(b) /\ Carries(n, <<>>, <<>>, {})
  BY <1>a, ServeByeDoes
<1>2. \A c \in Pool \ {b} : AlmostSame(c)
  BY <1>1, OthersStay
<1>3. ~Served(b)' /\ ~Calling(b)'
  BY <1>1, DeadIs DEF Served, Calling
<1>4. Serves(b, n)
  BY <1>1, <1>a DEF Serves, Served
<1>5. ASSUME NEW a \in Pool, Entered(a, n) PROVE FALSE
  <2>1. Sent(n, Update(EntryOf(a)))
    BY <1>1, <1>4, <1>5, <1>a, CallerOfServe DEF First
  <2>2. First(b) = Update(EntryOf(a))
    BY <1>a, <2>1, HeadTail DEF First, Sent
  <2> QED
    BY <1>1, <2>2 DEF Update
<1> QED
  BY <1>1, <1>2, <1>3, <1>4, <1>5, HelperMoves, CarriesWords

LEMMA AsideQuiet ==
  ASSUME NEW a \in Pool, Aside(a)
  PROVE  \A n : NoNews(n) /\ SameWords(n)
<1>1. \A n : SameWords(n)
  BY DEF Aside, SameWords
<1>2. \A n : NoNews(n)
  BY DEF Aside, Rests, NoNews, AlmostSame, Serves, Served, In
<1> QED
  BY <1>1, <1>2

LEMMA LocalProto ==
  ASSUME TypeInv, ConnInv, ProtoInv, NEW a \in Pool, AtHome(a)
  PROVE  ProtoInv'
<1>1. Aside(a)
  BY LocalIs
<1>2. \A n : SameWords(n)
  BY <1>1, AsideQuiet
<1>3. \A n : NoNews(n)
  BY <1>1, AsideQuiet
<1>4. ASSUME NEW b \in Pool, Calling(b)' PROVE Step(job[b].at, job[b].conn, EntryOf(b))'
  <2>1. b # a
    BY <1>1, <1>4 DEF Aside, Rests
  <2>2. Same(b)
    BY <1>1, <2>1 DEF Aside, AlmostSame, Same
  <2> QED
    BY <1>2, <1>3, <1>4, <2>2, ProtoKeeps
<1> QED
  BY <1>4 DEF ProtoInv

LEMMA DialIs ==
  ASSUME TypeInv, NEW a \in Pool, Dial(a)
  PROVE  /\ \A m : \A b \in Pool : Serves(b, m)' => b # a /\ Serves(b, m) /\ job'[b] = job[b]
         /\ \A m \in Conn : m # job'[a].conn => NoNews(m) /\ SameWords(m)
<1>a. PICK n \in Conn : n = job'[a].conn
  BY DialDoes
<1>b. PICK s \in Slave : s = Head(job[a].peers)
  BY DialDoes
<1>1. /\ job[a].at = "peer" /\ job'[a].at = "entry" /\ job'[a].conn = n /\ Others(a) /\ Unused(n)
      /\ queue' = [queue EXCEPT ![s] = Append(queue[s], n)]
      /\ Carries(n, <<>>, <<>>, {"replayer", "server"})
  BY <1>a, <1>b, DialDoes
<1>2. \A m : \A b \in Pool : Serves(b, m)' => b # a /\ Serves(b, m) /\ job'[b] = job[b]
  BY <1>1 DEF Others, Serves, Served
<1>3. \A m \in Conn \ {n} : \A t \in Slave : In(m, t)' => In(m, t)
  <2>1. queue[s] \in Seq(Conn) /\ queue'[s] = Append(queue[s], n) /\ \A t \in Slave \ {s} : queue'[t] = queue[t]
    BY <1>1 DEF TypeInv, QueueOK
  <2>2. /\ Len(queue'[s]) = Len(queue[s]) + 1 /\ queue'[s][Len(queue[s]) + 1] = n
        /\ Len(queue[s]) \in Nat
        /\ \A k \in 1..Len(queue[s]) : queue'[s][k] = queue[s][k]
    BY <2>1
  <2>3. \A m \in Conn \ {n} : In(m, s)' => In(m, s)
    BY <2>2 DEF In
  <2>4. \A m : \A t \in Slave \ {s} : In(m, t)' => In(m, t)
    BY <2>1 DEF In
  <2> QED
    BY <2>3, <2>4
<1>4. \A m \in Conn \ {n} : NoNews(m) /\ SameWords(m)
  BY <1>1, <1>2, <1>3 DEF NoNews, SameWords, Carries
<1> QED
  BY <1>1, <1>2, <1>4

LEMMA DialProto ==
  ASSUME TypeInv, ConnInv, ProtoInv, NEW a \in Pool, Dial(a)
  PROVE  ProtoInv'
<1>a. PICK n \in Conn : n = job'[a].conn
  BY DialDoes
<1>1. /\ job[a].at = "peer" /\ job'[a].at = "entry" /\ job'[a].conn = n /\ Others(a) /\ Unused(n)
      /\ Carries(n, <<>>, <<>>, {"replayer", "server"})
  BY <1>a, DialDoes
<1>2. \A m : \A b \in Pool : Serves(b, m)' => b # a /\ Serves(b, m) /\ job'[b] = job[b]
  BY DialIs
<1>4. \A m \in Conn \ {n} : NoNews(m) /\ SameWords(m)
  BY <1>a, DialIs
<1>5. Step(job[a].at, job[a].conn, EntryOf(a))'
  <2>1. Quiets(n)'
    BY <1>1 DEF Quiets, Carries
  <2>2. \A b \in Pool : ~Serves(b, n)
    BY <1>1 DEF Unused, Serves
  <2>3. Waits(n)'
    BY <1>2, <2>2 DEF Waits
  <2> QED
    BY <1>1, <2>1, <2>3 DEF Step, Quiets, Waits
<1>6. ASSUME NEW b \in Pool \ {a}, Calling(b)' PROVE Step(job[b].at, job[b].conn, EntryOf(b))'
  <2>1. Same(b) /\ Calling(b)
    BY <1>1, <1>6 DEF Others, Same, Calling
  <2>2. job[b].conn \in Conn /\ job[b].conn # n
    BY <1>1, <2>1, ConnType DEF Calling, Unused
  <2> QED
    BY <1>4, <1>6, <2>1, <2>2, ProtoKeeps
<1> QED
  BY <1>5, <1>6 DEF ProtoInv

\* Who is accepted was in the queue, so that nothing has been read of it.
LEMMA AcceptProto ==
  ASSUME TypeInv, ConnInv, ConnInv', ProtoInv, NEW b \in Pool, Accept(b)
  PROVE  ProtoInv'
<1>a. PICK s \in Slave : s = SlaveOf(b)
  BY SlaveType
<1>b. PICK n \in Conn : n = Head(queue[s])
  BY <1>a, AcceptDoes
<1>1. job[b].at = "accept" /\ job'[b].at = "serve" /\ job'[b].conn = n /\ Others(b) /\ UNCHANGED link
  BY <1>a, <1>b, AcceptDoes
<1>2. /\ In(n, s)
      /\ \A m : \A c \in Pool : Serves(c, m)' <=> (Serves(c, m) \/ (c = b /\ m = n))
      /\ \A m \in Conn : \A t \in Slave : In(m, t)' <=> (In(m, t) /\ m # n)
  BY <1>a, <1>b, AcceptConn
<1>3. \A m : SameWords(m)
  BY <1>1 DEF SameWords
<1>4. \A m \in Conn \ {n} : NoNews(m)
  BY <1>1, <1>2 DEF NoNews, Others, Serves, Served
<1>5. ASSUME NEW a \in Pool, Calling(a)' PROVE Step(job[a].at, job[a].conn, EntryOf(a))'
  <2>1. a # b
    BY <1>1, <1>5 DEF Calling
  <2>2. Same(a) /\ Calling(a) /\ AlmostSame(a)
    BY <1>1, <1>5, <2>1 DEF Others, Same, AlmostSame, Calling
  <2>3. PICK m \in Conn : m = job[a].conn
    BY <2>2, ConnType DEF Calling
  <2>4. CASE m # n
    BY <1>3, <1>4, <1>5, <2>2, <2>3, <2>4, ProtoKeeps
  <2>5. CASE m = n
    <3>1. PICK e : e = EntryOf(a)
      OBVIOUS
    <3>2. PICK at : at = job[a].at
      OBVIOUS
    <3>3. Step(at, n, e)
      BY <2>2, <2>3, <2>5, <3>1, <3>2 DEF ProtoInv
    <3>4. \A p : ~Heads(n, p) /\ ~Stores(n, p)
      BY <1>2 DEF Heads, Stores
    <3>5. Serves(b, n)'
      BY <1>2
    <3>6. Waits(n)'
      BY <1>1, <3>5, OnlyServerThen
    <3>7. Step(at, n, e)'
      <4>1. /\ Quiets(n)' <=> Quiets(n)
            /\ \A x : Sent(n, x)' <=> Sent(n, x)
            /\ \A x : Told(n, x)' <=> Told(n, x)
            /\ \A x : Left(n, x)' <=> Left(n, x)
            /\ LeftTo(n, e)' <=> LeftTo(n, e)
        BY <1>3 DEF SameWords, Quiets, Sent, Told, Left, LeftTo
      <4>2. \/ at = "entry" /\ (Quiets(n) \/ Left(n, <<>>))
            \/ at = "ack" /\ (Sent(n, Update(e)) \/ LeftTo(n, e) \/ (Told(n, "done") /\ e.type = "RM"))
            \/ at = "block" /\ Told(n, "done")
            \/ at = "stored" /\ (Told(n, "done") \/ Left(n, <<"done">>))
        BY <3>3, <3>4 DEF Step, AtAck, AtBlock, AtStored
      <4>3. CASE at = "entry" /\ (Quiets(n) \/ Left(n, <<>>))
        BY <3>6, <4>1, <4>3 DEF Step
      <4>4. CASE at = "ack" /\ (Sent(n, Update(e)) \/ LeftTo(n, e) \/ (Told(n, "done") /\ e.type = "RM"))
        <5>1. AtAck(n, e)'
          BY <3>6, <4>1, <4>4 DEF AtAck
        <5> QED
          BY <4>4, <5>1 DEF Step
      <4>5. CASE at = "stored" /\ (Told(n, "done") \/ Left(n, <<"done">>))
        <5>1. AtStored(n, e)'
          BY <3>6, <4>1, <4>5 DEF AtStored
        <5> QED
          BY <4>5, <5>1 DEF Step
      <4>6. CASE at = "block" /\ Told(n, "done")
        <5>1. AtBlock(n, e)'
          BY <3>6, <4>1, <4>6 DEF AtBlock
        <5> QED
          BY <4>6, <5>1 DEF Step
      <4> QED
        BY <4>2, <4>3, <4>4, <4>5, <4>6
    <3>8. job'[a].at = at /\ job'[a].conn = n /\ EntryOf(a)' = e
      BY <2>2, <2>3, <2>5, <3>1, <3>2, EntryStays
    <3> QED
      BY <3>7, <3>8, StepIs
  <2> QED
    BY <2>4, <2>5
<1> QED
  BY <1>5 DEF ProtoInv

LEMMA LostIs ==
  ASSUME TypeInv, NEW x \in Pool, Loses(x)
  PROVE  /\ UNCHANGED queue
         /\ \A n \in Conn : SameWords(n)
         /\ \A b \in Pool : job'[b] = job[b] \/ Rests(b)
         /\ \A n : NoNews(n)
<1>1. /\ UNCHANGED queue
      /\ \A n \in Conn : SameWords(n)
      /\ \A b \in Pool : job'[b] = job[b] \/ Rests(b)
  <2>1. CASE Kill(x)
    <3>1. job'[x] = Dead /\ Others(x) /\ UNCHANGED queue /\ \A n \in Conn : SameWords(n)
      BY <2>1, KillDoes DEF Closes, SameWords
    <3> QED
      BY <3>1, DeadIs DEF Others, Rests, Calling, Served
  <2>2. CASE PeerLost(x)
    <3>1. job'[x] \in {Dead, NextPeer(x)} /\ Others(x) /\ UNCHANGED queue /\ \A n \in Conn : SameWords(n)
      BY <2>2, PeerLostDoes DEF Closes, SameWords
    <3>2. job'[x].at \in {"dead", "peer"}
      BY <3>1, DeadIs, NextPeerIs
    <3> QED
      BY <3>1, <3>2 DEF Others, Rests, Calling, Served
  <2>3. CASE ReplayerLost(x)
    <3>1. job'[x] \in {Dead, Idle} /\ Others(x) /\ UNCHANGED queue /\ \A n \in Conn : SameWords(n)
      BY <2>3, ReplayerLostDoes DEF Closes, SameWords
    <3>2. job'[x].at \in {"dead", "accept"}
      BY <3>1, DeadIs
    <3> QED
      BY <3>1, <3>2 DEF Others, Rests, Calling, Served
  <2>4. CASE Stray(x) \/ StrayPut(x)
    <3>1. /\ \A b \in Pool : job'[b] = job[b] \/ job'[b].at = "astray"
          /\ UNCHANGED queue /\ \A n \in Conn : SameWords(n)
      BY <2>4, StrayDoes, StrayPutDoes, DeadIs DEF SameWords, Others
    <3> QED
      BY <3>1 DEF Rests, Calling, Served
  <2> QED
    BY <2>1, <2>2, <2>3, <2>4 DEF Loses
<1>2. \A n : NoNews(n)
  BY <1>1 DEF Rests, NoNews, Serves, Served, In
<1> QED
  BY <1>1, <1>2

LEMMA LostProto ==
  ASSUME TypeInv, ConnInv, ProtoInv, NEW x \in Pool, Loses(x)
  PROVE  ProtoInv'
<1>1. /\ \A n \in Conn : SameWords(n)
      /\ \A b \in Pool : job'[b] = job[b] \/ Rests(b)
  BY LostIs
<1>2. \A n : NoNews(n)
  BY LostIs
<1>3. ASSUME NEW b \in Pool, Calling(b)' PROVE Step(job[b].at, job[b].conn, EntryOf(b))'
  <2>1. Same(b) /\ Calling(b)
    BY <1>1, <1>3 DEF Rests, Same, Calling
  <2>2. job[b].conn \in Conn
    BY <2>1, ConnType DEF Calling
  <2> QED
    BY <1>1, <1>2, <1>3, <2>1, <2>2, ProtoKeeps
<1> QED
  BY <1>3 DEF ProtoInv

LEMMA ProtoInit ==
  ASSUME Init
  PROVE  ProtoInv
BY DeadIs DEF Init, ProtoInv, Calling

LEMMA ProtoNext ==
  ASSUME TypeInv, ConnInv, ConnInv', ProtoInv, [Next]_vars
  PROVE  ProtoInv'
<1>1. CASE UNCHANGED vars
  <2>1. job' = job /\ link' = link /\ queue' = queue
    BY <1>1 DEF vars
  <2>2. \A n : NoNews(n) /\ SameWords(n)
    BY <2>1 DEF NoNews, SameWords, Serves, Served, In
  <2>3. \A b \in Pool : Same(b) /\ (Calling(b)' => Calling(b))
    BY <2>1 DEF Same, Calling
  <2>4. \A b \in Pool : Calling(b) => job[b].conn \in Conn
    BY ConnType DEF Calling
  <2> QED
    BY <2>2, <2>3, <2>4, ProtoKeeps DEF ProtoInv
<1>2. CASE Next
  <2>1. PICK a \in Pool : AtHome(a) \/ Dial(a) \/ Accept(a) \/ Calls(a) \/ Helps(a) \/ Loses(a)
    BY <1>2, NextIs
  <2>2. CASE Calls(a)
    BY <2>2, SendUpdateProto, ReadAckProto, SendHeaderProto, SendBlockProto, ReadStoredProto, SayByeProto
       DEF Calls
  <2>3. CASE Helps(a)
    BY <2>3, ServeRmProto, ServePutProto, NoSuchFileProto, OpenFileProto, RefuseFileProto,
       StoreBlockProto, ServeByeProto
       DEF Helps
  <2> QED
    BY <2>1, <2>2, <2>3, LocalProto, DialProto, AcceptProto, LostProto
<1> QED
  BY <1>1, <1>2

-----------------------------------------------------------------------------
(* The fourth layer: who may still change a file.                             *)

Holds(a, p)   == \E k \in 1..Len(job[a].log) : job[a].log[k].path = p
AsksIn(out, p) == \E i \in 1..Len(out) : out[i].kind = "update" /\ out[i].entry.path = p
Asks(n, p)    == AsksIn(link[n].out, p)
About(n, p)   == \/ Asks(n, p)
                 \/ \E b \in Pool : Serves(b, n) /\ job[b].at \in {"header", "storing"} /\ job[b].path = p
Touches(n, p) == Live(n) /\ About(n, p)

OneHolder(p) == changed[p] <= 1 => \A a, b \in Pool : Holds(a, p) /\ Holds(b, p) => a = b
NobodyYet(p) == changed[p] = 0 => /\ \A a \in Pool : ~Holds(a, p)
                                  /\ \A n \in Conn : ~Touches(n, p)
                                  /\ \A s \in Slave : disk[s][p] = OLD
ByHolder(p)  == changed[p] = 1 => \A n \in Conn : \A a \in Pool : Touches(n, p) /\ Holds(a, p) => Entered(a, n)

OwnInv == \A p \in Path : OneHolder(p) /\ NobodyYet(p) /\ ByHolder(p)

\* What is on its way is about the entry of the one that replays.
LEMMA NoUpdate ==
  /\ \A p : ~AsksIn(<<>>, p)
  /\ \A p, m : AsksIn(<<m>>, p) => m.kind = "update" /\ m.entry.path = p
  /\ \A p, x, y : AsksIn(<<x, y>>, p) => \/ x.kind = "update" /\ x.entry.path = p
                                         \/ y.kind = "update" /\ y.entry.path = p
<1>1. \A p : ~AsksIn(<<>>, p)
  BY DEF AsksIn
<1>2. \A p, m : AsksIn(<<m>>, p) => m.kind = "update" /\ m.entry.path = p
  BY DEF AsksIn
<1>3. ASSUME NEW p, NEW x, NEW y, AsksIn(<<x, y>>, p)
      PROVE  \/ x.kind = "update" /\ x.entry.path = p
             \/ y.kind = "update" /\ y.entry.path = p
  <2>1. PICK i \in 1..2 : <<x, y>>[i].kind = "update" /\ <<x, y>>[i].entry.path = p
    BY <1>3 DEF AsksIn
  <2>2. i = 1 \/ i = 2
    BY <2>1
  <2> QED
    BY <2>1, <2>2
<1> QED
  BY <1>1, <1>2, <1>3

LEMMA KindsAre ==
  /\ \A v \in File : Header(v).kind = "header"
  /\ \A v : Block(v).kind = "block"
  /\ \A e : Update(e).kind = "update" /\ Update(e).entry = e
  /\ Bye.kind = "bye"
BY DEF Header, Block, Update, Bye

LEMMA StepAbout ==
  \A n \in Conn : \A at, e, p : Step(at, n, e) /\ About(n, p) => e.path = p /\ at # "entry"
<1> SUFFICES ASSUME NEW n \in Conn, NEW at, NEW e, NEW p, Step(at, n, e), About(n, p)
             PROVE  e.path = p /\ at # "entry"
  OBVIOUS
<1>0. Full \subseteq File
  BY DEF Full, File
<1>1. Asks(n, p) => e.path = p /\ at = "ack"
  <2>1. Quiets(n) => ~Asks(n, p)
    BY NoUpdate DEF Quiets, Asks
  <2>2. \A m : Told(n, m) => ~Asks(n, p)
    BY NoUpdate DEF Told, Asks
  <2>3. \A v \in File : Sent(n, Header(v)) => ~Asks(n, p)
    BY NoUpdate, KindsAre DEF Sent, Asks
  <2>4. \A v : Sent(n, Block(v)) => ~Asks(n, p)
    BY NoUpdate, KindsAre DEF Sent, Asks
  <2>5. Both(n) => ~Asks(n, p)
    BY <1>0, NoUpdate, KindsAre DEF Both, Asks
  <2>6. Sent(n, Update(e)) /\ Asks(n, p) => e.path = p
    BY NoUpdate, KindsAre DEF Sent, Asks
  <2>7. \A x : Left(n, x) => ~Asks(n, p)
    BY NoUpdate, KindsAre DEF Left, Asks
  <2>8. LeftTo(n, e) /\ Asks(n, p) => e.path = p
    BY NoUpdate, KindsAre DEF LeftTo, Asks
  <2> QED
    BY <1>0, <2>1, <2>2, <2>3, <2>4, <2>5, <2>6, <2>7, <2>8 DEF Step, AtAck, AtBlock, AtStored
<1>2. ASSUME NEW b \in Pool, Serves(b, n), job[b].at \in {"header", "storing"}, job[b].path = p
      PROVE  e.path = p /\ at # "entry"
  <2>1. ~Waits(n)
    BY <1>2 DEF Waits
  <2>2. \A q : Heads(n, q) \/ Stores(n, q) => q = p
    BY <1>2 DEF Heads, Stores
  <2> QED
    BY <2>1, <2>2 DEF Step, AtAck, AtBlock, AtStored
<1> QED
  BY <1>1, <1>2 DEF About

\* A connection over which one replays is about the entry that it replays.
LEMMA CallerAbout ==
  \A n \in Conn : \A a \in Pool : \A p :
    TypeInv /\ ProtoInv /\ Entered(a, n) /\ About(n, p)
      => EntryOf(a).path = p /\ job[a].k \in 1..Len(job[a].log) /\ Holds(a, p)
<1> SUFFICES ASSUME NEW n \in Conn, NEW a \in Pool, NEW p, TypeInv, ProtoInv, Entered(a, n), About(n, p)
             PROVE  EntryOf(a).path = p /\ job[a].k \in 1..Len(job[a].log) /\ Holds(a, p)
  OBVIOUS
<1>1. Step(job[a].at, n, EntryOf(a))
  BY DEF ProtoInv, Entered
<1>2. EntryOf(a).path = p /\ job[a].at # "entry"
  BY <1>1, StepAbout
<1>3. job[a].at \in {"ack", "open", "block", "stored"}
  BY <1>1, <1>2 DEF Step
<1>4. job[a].k <= Len(job[a].log)
  BY <1>3, FitsNow DEF Fits
<1>5. job[a].k \in 1..Len(job[a].log)
  BY <1>4, EntryNow
<1> QED
  BY <1>2, <1>5 DEF Holds, EntryOf

LEMMA CallerAboutThen ==
  (\A n \in Conn : \A a \in Pool : \A p :
    TypeInv /\ ProtoInv /\ Entered(a, n) /\ About(n, p)
      => EntryOf(a).path = p /\ job[a].k \in 1..Len(job[a].log) /\ Holds(a, p))'
BY CallerAbout, PTL

\* A step that is not the first of a session records nothing.
Keeps == /\ \A b \in Pool : job'[b].log = job[b].log \/ job'[b].log = <<>>
         /\ UNCHANGED changed

LEMMA KeepsWhen ==
  ASSUME NEW a \in Pool, \A b \in Pool \ {a} : AlmostSame(b), job'[a].log = job[a].log \/ job'[a].log = <<>>,
         UNCHANGED changed
  PROVE  Keeps
BY DEF Keeps, AlmostSame

LEMMA LocalKeeps ==
  ASSUME TypeInv, NEW a \in Pool, AtHome(a)
  PROVE  Keeps \/ \E log \in Journal : Session(a, log)
<1>1. \A b \in Pool \ {a} : AlmostSame(b)
  BY LocalIs DEF Aside
<1>2. CASE Operation(a)
  <2>1. (job'[a].log = job[a].log) /\ UNCHANGED changed
    <3>1. CASE EntryOf(a).type = "RM"
      BY <1>2, <3>1, RmDoes DEF Counts
    <3>2. CASE EntryOf(a).type # "RM"
      BY <1>2, <3>2, PutDoes DEF Counts, Goes
    <3> QED
      BY <3>1, <3>2
  <2> QED
    BY <1>1, <2>1, KeepsWhen
<1>3. CASE \E v \in Content : Received(a, v)
  BY <1>1, <1>3, ReceivedDoes, KeepsWhen DEF Counts, Goes
<1>4. CASE EndSession(a)
  BY <1>1, <1>4, EndSessionDoes, KeepsWhen DEF Counts
<1>5. CASE GetList(a)
  BY <1>1, <1>5, GetListDoes, KeepsWhen DEF Counts
<1>6. CASE Return(a)
  <2>1. job'[a].log = <<>> /\ UNCHANGED changed
    BY <1>6, ReturnDoes, DeadIs DEF Counts
  <2> QED
    BY <1>1, <2>1, KeepsWhen
<1> QED
  BY <1>2, <1>3, <1>4, <1>5, <1>6 DEF AtHome

LEMMA CallsKeeps ==
  ASSUME TypeInv, NEW a \in Pool, Calls(a) \/ Dial(a)
  PROVE  Keeps /\ UNCHANGED disk /\ Others(a)
<1>1. CASE SayBye(a)
  <2>1. NextPeer(a).log = job[a].log
    BY NextPeerIs
  <2>2. job'[a].log = job[a].log /\ UNCHANGED disk /\ UNCHANGED changed /\ Others(a)
    BY <1>1, <2>1, SayByeDoes DEF Counts
  <2> QED
    BY <2>2, OthersStay, KeepsWhen
<1>2. CASE Dial(a)
  BY <1>2, DialDoes, OthersStay, KeepsWhen DEF Counts
<1>3. ASSUME NEW at, NEW k, Goes(a, at, k), UNCHANGED disk, Counts
      PROVE  Keeps /\ UNCHANGED disk /\ Others(a)
  BY <1>3, OthersStay, KeepsWhen DEF Counts, Goes
<1>4. CASE SendUpdate(a)
  BY <1>3, <1>4, SendUpdateDoes
<1>5. CASE ReadAck(a)
  BY <1>3, <1>5, ReadAckDoes
<1>6. CASE SendHeader(a)
  BY <1>3, <1>6, SendHeaderDoes
<1>7. CASE SendBlock(a)
  BY <1>3, <1>7, SendBlockDoes
<1>8. CASE ReadStored(a)
  BY <1>3, <1>8, ReadStoredDoes
<1> QED
  BY <1>1, <1>2, <1>4, <1>5, <1>6, <1>7, <1>8 DEF Calls

LEMMA HelpsKeeps ==
  ASSUME TypeInv, NEW b \in Pool, Helps(b) \/ Accept(b)
  PROVE  Keeps
<1>1. ASSUME \A c \in Pool \ {b} : AlmostSame(c), job'[b].log = <<>>, Counts PROVE Keeps
  BY <1>1, KeepsWhen DEF Counts
<1>2. Serving(b).log = <<>> /\ Idle.log = <<>>
  BY ServingIs, DeadIs
<1>3. CASE ServeRm(b)
  BY <1>1, <1>2, <1>3, ServeRmDoes, RemoveDoes
<1>4. CASE ServePut(b)
  BY <1>1, <1>4, ServePutDoes, OthersStay
<1>5. CASE NoSuchFile(b)
  BY <1>1, <1>2, <1>5, NoSuchFileDoes, OthersStay
<1>6. CASE OpenFile(b)
  BY <1>1, <1>2, <1>6, OpenFileDoes, OthersStay
<1>7. CASE StoreBlock(b)
  BY <1>1, <1>2, <1>7, StoreBlockDoes, OthersStay
<1>8. CASE ServeBye(b)
  BY <1>1, <1>2, <1>8, ServeByeDoes, OthersStay
<1>9. CASE Accept(b)
  BY <1>1, <1>9, AcceptDoes, OthersStay
<1>10. CASE RefuseFile(b)
  BY <1>2, <1>10, RefuseFileDoes, OthersStay, KeepsWhen
<1> QED
  BY <1>3, <1>4, <1>5, <1>6, <1>7, <1>8, <1>9, <1>10 DEF Helps

LEMMA LosesKeeps ==
  ASSUME TypeInv, NEW a \in Pool, Loses(a)
  PROVE  Keeps /\ UNCHANGED disk
<1>1. Dead.log = <<>> /\ Idle.log = <<>> /\ Astray.log = <<>> /\ NextPeer(a).log = job[a].log
  BY DeadIs, NextPeerIs
<1>2. CASE Kill(a)
  BY <1>1, <1>2, KillDoes, OthersStay, KeepsWhen
<1>3. CASE PeerLost(a)
  <2>1. job'[a].log = job[a].log \/ job'[a].log = <<>>
    BY <1>1, <1>3, PeerLostDoes
  <2> QED
    BY <1>3, <2>1, PeerLostDoes, OthersStay, KeepsWhen DEF Counts
<1>4. CASE ReplayerLost(a)
  <2>1. job'[a].log = <<>>
    BY <1>1, <1>4, ReplayerLostDoes
  <2> QED
    BY <1>4, <2>1, ReplayerLostDoes, OthersStay, KeepsWhen DEF Counts
<1>5. CASE Stray(a)
  BY <1>1, <1>5, StrayDoes DEF Keeps, Counts
<1>6. CASE StrayPut(a)
  BY <1>1, <1>6, StrayPutDoes, OthersStay, KeepsWhen DEF Counts
<1> QED
  BY <1>2, <1>3, <1>4, <1>5, <1>6 DEF Loses

LEMMA HoldsKeeps ==
  ASSUME Keeps
  PROVE  \A a \in Pool : \A p : Holds(a, p)' => Holds(a, p) /\ job'[a].log = job[a].log
<1> SUFFICES ASSUME NEW a \in Pool, NEW p, Holds(a, p)'
             PROVE  Holds(a, p) /\ job'[a].log = job[a].log
  OBVIOUS
<1>1. job'[a].log # <<>>
  BY DEF Holds
<1> QED
  BY <1>1 DEF Keeps, Holds

LEMMA SessionHolds ==
  ASSUME TypeInv, NEW x \in Pool, NEW log \in Journal, Session(x, log)
  PROVE  \A p \in Path :
           /\ \A b \in Pool \ {x} : Holds(b, p)' <=> Holds(b, p)
           /\ ~Holds(x, p)
           /\ Holds(x, p)' => changed'[p] = changed[p] + 1
           /\ ~Holds(x, p)' => changed'[p] = changed[p]
           /\ changed[p] \in Nat
<1> SUFFICES ASSUME NEW p \in Path
             PROVE  /\ \A b \in Pool \ {x} : Holds(b, p)' <=> Holds(b, p)
                    /\ ~Holds(x, p)
                    /\ Holds(x, p)' => changed'[p] = changed[p] + 1
                    /\ ~Holds(x, p)' => changed'[p] = changed[p]
                    /\ changed[p] \in Nat
  OBVIOUS
<1>1. \A b \in Pool \ {x} : Holds(b, p)' <=> Holds(b, p)
  BY SessionDoes DEF Others, Holds
<1>2. job[x].log = <<>>
  BY SessionDoes, FitsNow DEF Fits
<1>3. ~Holds(x, p)
  BY <1>2 DEF Holds
<1>4. log \in Seq(Entry) /\ job'[x].log = log
  BY SessionDoes
<1>5. Holds(x, p)' <=> \E k \in DOMAIN log : log[k].path = p
  BY <1>4 DEF Holds
<1>6. changed'[p] = IF \E k \in DOMAIN log : log[k].path = p THEN changed[p] + 1 ELSE changed[p]
  BY SessionDoes
<1>7. changed[p] \in Nat
  BY DEF TypeInv, CountOK
<1> QED
  BY <1>1, <1>3, <1>5, <1>6, <1>7

LEMMA NothingNew ==
  ASSUME NEW n \in Conn, NoNews(n), SameWords(n)
  PROVE  \A p : Touches(n, p)' => Touches(n, p)
<1>1. Live(n)' => Live(n)
  BY DEF NoNews, Live
<1>2. \A p : Asks(n, p)' <=> Asks(n, p)
  BY DEF SameWords, Asks
<1>3. \A p : About(n, p)' => About(n, p)
  BY <1>2 DEF About, NoNews
<1> QED
  BY <1>1, <1>3 DEF Touches

\* What the one that serves does, whatever it is.
LEMMA HelpsIs ==
  ASSUME TypeInv, NEW b \in Pool, Helps(b)
  PROVE  /\ job[b].conn \in Conn /\ Serves(b, job[b].conn) /\ UNCHANGED queue
         /\ \A c \in Pool \ {b} : AlmostSame(c)
         /\ Served(b)' => job'[b].conn = job[b].conn
         /\ job[b].at = "serve" => First(b).kind # "block"
         /\ job'[b].at \in {"serve", "header", "storing", "accept"}
         /\ job'[b].at = "header" => /\ job[b].at = "serve" /\ First(b).kind = "update"
                                     /\ First(b).entry.path = job'[b].path
         /\ job'[b].at = "storing" => job[b].at = "header" /\ job'[b].path = job[b].path
         /\ link[job[b].conn].out # <<>>
         /\ \A m \in Conn : m # job[b].conn => SameWords(m)
         /\ \A m \in Conn : m = job[b].conn =>
              \/ link'[m].out = Tail(link[m].out)
              \/ link'[m].out = <<>>
<1>a. PICK n : n = job[b].conn
  OBVIOUS
<1>1. ASSUME NEW back, NEW ends, NEW out, out \in {Tail(link[n].out), <<>>}, n \in Conn, Carries(n, out, back, ends)
      PROVE  /\ \A m \in Conn : m # n => SameWords(m)
             /\ \A m \in Conn : m = n => \/ link'[m].out = Tail(link[m].out)
                                         \/ link'[m].out = <<>>
  BY <1>1 DEF Carries, SameWords
<1>2. ASSUME job'[b] = Serving(b) PROVE job'[b].at = "serve" /\ job'[b].conn = n
  BY <1>2, <1>a, ServingIs
<1>3. CASE ServeRm(b)
  BY <1>a, <1>1, <1>2, <1>3, ServeRmDoes, RemoveDoes DEF Serves, Served
<1>4. CASE ServePut(b)
  BY <1>a, <1>1, <1>4, ServePutDoes, OthersStay DEF Serves, Served
<1>5. CASE NoSuchFile(b)
  BY <1>a, <1>1, <1>2, <1>5, NoSuchFileDoes, OthersStay DEF Serves, Served
<1>6. CASE OpenFile(b)
  <2>1. /\ n \in Conn /\ job[b].at = "header" /\ link[n].out # <<>> /\ Others(b) /\ UNCHANGED queue
        /\ \/ job'[b] = Serving(b)
           \/ job'[b].at = "storing" /\ job'[b].path = job[b].path /\ job'[b].conn = n
        /\ \E back, ends : Carries(n, Tail(link[n].out), back, ends)
    BY <1>a, <1>6, OpenFileDoes
  <2> QED
    BY <1>a, <1>1, <1>2, <2>1, OthersStay DEF Serves, Served
<1>7. CASE StoreBlock(b)
  BY <1>a, <1>1, <1>2, <1>7, StoreBlockDoes, OthersStay DEF Serves, Served
<1>8. CASE ServeBye(b)
  <2>1. job'[b].at = "accept"
    BY <1>8, ServeByeDoes, DeadIs
  <2> QED
    BY <1>a, <1>1, <1>8, <2>1, ServeByeDoes, OthersStay DEF Serves, Served
<1>9. CASE RefuseFile(b)
  <2>1. PICK out \in {Tail(link[n].out), <<>>} :
          Carries(n, out, Append(link[n].back, "done"), link[n].ends)
    BY <1>a, <1>9, RefuseFileDoes
  <2> QED
    BY <1>a, <1>1, <1>2, <1>9, <2>1, RefuseFileDoes, OthersStay DEF Serves, Served
<1> QED
  BY <1>3, <1>4, <1>5, <1>6, <1>7, <1>8, <1>9 DEF Helps

\* And the one that replays.
LEMMA CallsIs ==
  ASSUME TypeInv, NEW a \in Pool, Calls(a)
  PROVE  /\ job[a].conn \in Conn /\ Entered(a, job[a].conn) /\ UNCHANGED queue /\ Others(a)
         /\ ~Served(a) /\ ~Served(a)'
         /\ ~SayBye(a) => Calling(a)' /\ job'[a].conn = job[a].conn /\ job'[a].peers = job[a].peers
         /\ \A n : NoNews(n)
         /\ \A m \in Conn : m # job[a].conn => SameWords(m)
<1>a. PICK n : n = job[a].conn
  OBVIOUS
<1>1. ASSUME NEW out, NEW back, NEW ends, n \in Conn, Carries(n, out, back, ends)
      PROVE  \A m \in Conn : m # n => SameWords(m)
  BY <1>1, CarriesWords
<1>2. ASSUME NEW at \in {"entry", "ack", "open", "block", "stored", "bye"}, NEW k, Goes(a, at, k)
      PROVE  /\ Others(a) /\ Calling(a)' /\ ~Served(a)' /\ job'[a].conn = n
             /\ job'[a].peers = job[a].peers
  BY <1>2, <1>a DEF Goes, Calling, Served
<1>3. /\ n \in Conn /\ Calling(a) /\ UNCHANGED queue /\ Others(a) /\ ~Served(a)'
      /\ ~SayBye(a) => Calling(a)' /\ job'[a].conn = n /\ job'[a].peers = job[a].peers
      /\ \A m \in Conn : m # n => SameWords(m)
  <2>1. CASE SendUpdate(a)
    BY <1>a, <1>1, <1>2, <2>1, SendUpdateDoes DEF Calling
  <2>2. CASE ReadAck(a)
    <3>1. PICK at \in {"entry", "open", "bye"}, k \in {job[a].k, job[a].k + 1} : Goes(a, at, k)
      BY <2>2, ReadAckDoes
    <3> QED
      BY <1>a, <1>1, <1>2, <2>2, <3>1, ReadAckDoes DEF Calling
  <2>3. CASE SendHeader(a)
    <3>1. PICK at \in {"block", "stored"} : Goes(a, at, job[a].k)
      BY <2>3, SendHeaderDoes
    <3> QED
      BY <1>a, <1>1, <1>2, <2>3, <3>1, SendHeaderDoes DEF Calling
  <2>4. CASE SendBlock(a)
    <3>1. \A m \in Conn : m # n => SameWords(m)
      BY <1>a, <1>1, <2>4, SendBlockDoes DEF SameWords
    <3> QED
      BY <1>a, <1>2, <2>4, <3>1, SendBlockDoes DEF Calling
  <2>5. CASE ReadStored(a)
    BY <1>a, <1>1, <1>2, <2>5, ReadStoredDoes DEF Calling
  <2>6. CASE SayBye(a)
    <3>1. NextPeer(a).at = "peer"
      BY NextPeerIs
    <3>2. job'[a].at = "peer"
      BY <2>6, <3>1, SayByeDoes
    <3>3. ~Served(a)'
      BY <3>2 DEF Served
    <3> QED
      BY <1>a, <1>1, <2>6, <3>3, SayByeDoes DEF Calling
  <2> QED
    BY <2>1, <2>2, <2>3, <2>4, <2>5, <2>6 DEF Calls
<1>4. ~Served(a)
  BY <1>3 DEF Served, Calling
<1>5. \A m : NoNews(m)
  BY <1>3, <1>4, NoNewsWhen
<1> QED
  BY <1>a, <1>3, <1>4, <1>5 DEF Entered

\* Nothing comes to be about a file but by those that replay an entry about it.
LEMMA TouchesKeeps ==
  ASSUME TypeInv, ConnInv, ProtoInv, TypeInv', ConnInv', ProtoInv', Next
  PROVE  \A n \in Conn : \A p :
           Touches(n, p)' => Touches(n, p) \/ \E x \in Pool : Entered(x, n)' /\ Holds(x, p)'
<1> SUFFICES ASSUME NEW n \in Conn, NEW p, Touches(n, p)', \A x \in Pool : ~(Entered(x, n)' /\ Holds(x, p)')
             PROVE  Touches(n, p)
  OBVIOUS
<1>1. Live(n)' /\ About(n, p)'
  BY DEF Touches
<1>2. \A x \in Pool : ~Entered(x, n)'
  BY <1>1, CallerAboutThen
<1>3. PICK a \in Pool : AtHome(a) \/ Dial(a) \/ Accept(a) \/ Calls(a) \/ Helps(a) \/ Loses(a)
  BY NextIs
<1>4. CASE AtHome(a)
  BY <1>4, LocalIs, AsideQuiet, NothingNew
<1>5. CASE Dial(a)
  <2>1. Calling(a)'
    BY <1>5, DialDoes DEF Calling
  <2>2. n # job'[a].conn
    BY <1>2, <2>1 DEF Entered
  <2> QED
    BY <1>5, <2>2, DialIs, NothingNew
<1>6. CASE Accept(a)
  <2>a. PICK s \in Slave : s = SlaveOf(a)
    BY SlaveType
  <2>b. PICK m \in Conn : m = Head(queue[s])
    BY <1>6, <2>a, AcceptDoes
  <2>1. job'[a].at = "serve" /\ Others(a) /\ UNCHANGED link
    BY <1>6, AcceptDoes
  <2>2. /\ In(m, s)
        /\ \A l : \A c \in Pool : Serves(c, l)' <=> (Serves(c, l) \/ (c = a /\ l = m))
        /\ \A l \in Conn : \A t \in Slave : In(l, t)' <=> (In(l, t) /\ l # m)
    BY <1>6, <2>a, <2>b, AcceptConn
  <2>3. Live(n)
    BY <1>1, <2>2 DEF Live
  <2>4. Asks(n, p)' <=> Asks(n, p)
    BY <2>1 DEF Asks
  <2>5. ASSUME NEW b \in Pool, Serves(b, n)', job'[b].at \in {"header", "storing"}, job'[b].path = p
        PROVE  About(n, p)
    <3>1. b # a
      BY <2>1, <2>5
    <3> QED
      BY <2>1, <2>2, <2>5, <3>1 DEF Others, About
  <2>6. About(n, p)
    BY <1>1, <2>4, <2>5 DEF About
  <2> QED
    BY <2>3, <2>6 DEF Touches
<1>7. CASE Calls(a)
  <2>1. CASE n # job[a].conn
    BY <1>7, <2>1, CallsIs, NothingNew
  <2>2. CASE n = job[a].conn /\ ~SayBye(a)
    BY <1>2, <1>7, <2>2, CallsIs DEF Entered
  <2>3. CASE n = job[a].conn /\ SayBye(a)
    <3>1. ByeLeft(n)' /\ Waits(n)'
      BY <2>3, SayByeProto
    <3>2. ~Asks(n, p)'
      <4>1. link'[n].out = <<Bye>> \/ \E w : link'[n].out = <<Block(w), Bye>>
        BY <3>1 DEF ByeLeft, Block, Bye
      <4>2. ~AsksIn(<<Bye>>, p) /\ \A w : ~AsksIn(<<Block(w), Bye>>, p)
        BY NoUpdate, KindsAre
      <4>3. ~AsksIn(link'[n].out, p)
        BY <4>1, <4>2
      <4> QED
        BY <4>3 DEF Asks, AsksIn
    <3> QED
      BY <1>1, <3>1, <3>2 DEF About, Waits
  <2> QED
    BY <2>1, <2>2, <2>3
<1>8. CASE Helps(a)
  <2>1. CASE n # job[a].conn
    <3>1. SameWords(n)
      BY <1>8, <2>1, HelpsIs
    <3>2. \A c \in Pool : Serves(c, n)' => c # a
      BY <1>8, <2>1, HelpsIs DEF Serves
    <3>3. NoNews(n)
      BY <1>8, <3>2, HelpsIs DEF NoNews, Serves, Served, AlmostSame, In
    <3> QED
      BY <3>1, <3>3, NothingNew
  <2>2. CASE n = job[a].conn
    <3>1. Serves(a, n) /\ Live(n)
      BY <1>8, <2>2, HelpsIs DEF Live
    <3>2. Asks(n, p)' => Asks(n, p)
      <4>1. link[n].out \in Seq(Message) /\ link[n].out # <<>>
        BY <1>8, <2>2, HelpsIs, LinkIs DEF TypeInv
      <4>2. PICK out : out = link[n].out
        OBVIOUS
      <4>3. AsksIn(Tail(out), p) => AsksIn(out, p)
        <5> SUFFICES ASSUME NEW i \in 1..Len(Tail(out)), Tail(out)[i].kind = "update", Tail(out)[i].entry.path = p
                     PROVE  AsksIn(out, p)
          BY DEF AsksIn
        <5>1. i + 1 \in 1..Len(out) /\ Tail(out)[i] = out[i + 1]
          BY <4>1, <4>2
        <5> QED
          BY <5>1 DEF AsksIn
      <4>4. link'[n].out = Tail(out) \/ link'[n].out = <<>>
        BY <1>8, <2>2, <4>2, HelpsIs
      <4> QED
        BY <4>2, <4>3, <4>4, NoUpdate DEF Asks
    <3>3. ASSUME NEW c \in Pool, Serves(c, n)', job'[c].at \in {"header", "storing"}, job'[c].path = p
          PROVE  About(n, p)
      <4>1. CASE c # a
        BY <1>8, <3>3, <4>1, HelpsIs DEF AlmostSame, Serves, Served, About
      <4>2. CASE c = a /\ job'[a].at = "header"
        <5>1. First(a).kind = "update" /\ First(a).entry.path = p
          BY <1>8, <3>3, <4>2, HelpsIs
        <5>2. link[n].out \in Seq(Message) /\ link[n].out # <<>>
          BY <1>8, <2>2, HelpsIs, LinkIs DEF TypeInv
        <5>3. 1 \in 1..Len(link[n].out) /\ First(a) = link[n].out[1]
          BY <2>2, <5>2 DEF First
        <5> QED
          BY <5>1, <5>3 DEF About, Asks, AsksIn
      <4>3. CASE c = a /\ job'[a].at = "storing"
        <5>1. job[a].at = "header" /\ job[a].path = p
          BY <1>8, <3>3, <4>3, HelpsIs
        <5> QED
          BY <3>1, <5>1 DEF About
      <4> QED
        BY <3>3, <4>1, <4>2, <4>3
    <3> QED
      BY <1>1, <3>1, <3>2, <3>3 DEF About, Touches
  <2> QED
    BY <2>1, <2>2
<1>9. CASE Loses(a)
  BY <1>9, LostIs, NothingNew
<1> QED
  BY <1>3, <1>4, <1>5, <1>6, <1>7, <1>8, <1>9

\* One that leaves a connection leaves nothing on it about what it replays.
LEMMA EnteredKeeps ==
  ASSUME TypeInv, ConnInv, ProtoInv, TypeInv', ConnInv', ProtoInv', Next
  PROVE  \A n \in Conn : \A a \in Pool : \A p :
           Entered(a, n) /\ Touches(n, p)' /\ Holds(a, p)' => Entered(a, n)'
<1> SUFFICES ASSUME NEW n \in Conn, NEW a \in Pool, NEW p, Entered(a, n), Touches(n, p)', Holds(a, p)'
             PROVE  Entered(a, n)'
  OBVIOUS
<1>1. PICK x \in Pool : AtHome(x) \/ Dial(x) \/ Accept(x) \/ Calls(x) \/ Helps(x) \/ Loses(x)
  BY NextIs
<1>2. ASSUME AlmostSame(a) PROVE Entered(a, n)'
  BY <1>2 DEF AlmostSame, Entered, Calling
<1>3. CASE AtHome(x)
  <2>1. x # a
    BY <1>3, LocalIs DEF Aside, Entered
  <2> QED
    BY <1>2, <1>3, <2>1, LocalIs DEF Aside
<1>4. CASE Dial(x)
  <2>1. x # a
    BY <1>4, DialDoes DEF Entered, Calling
  <2> QED
    BY <1>2, <1>4, <2>1, DialDoes, OthersStay
<1>5. CASE Accept(x)
  <2>1. x # a
    BY <1>5, AcceptDoes DEF Entered, Calling
  <2> QED
    BY <1>2, <1>5, <2>1, AcceptDoes, OthersStay
<1>6. CASE Helps(x)
  <2>1. x # a
    BY <1>6, HelpsIs DEF Entered, Calling, Serves, Served
  <2> QED
    BY <1>2, <1>6, <2>1, HelpsIs
<1>7. CASE Calls(x)
  <2>1. CASE x # a
    BY <1>2, <1>7, <2>1, CallsIs, OthersStay
  <2>2. CASE x = a /\ ~SayBye(a)
    BY <1>7, <2>2, CallsIs DEF Entered
  <2>3. CASE x = a /\ SayBye(a)
    <3>1. ByeLeft(n)' /\ Waits(n)'
      BY <2>3, SayByeProto DEF Entered
    <3>2. ~Asks(n, p)'
      <4>1. link'[n].out = <<Bye>> \/ \E w : link'[n].out = <<Block(w), Bye>>
        BY <3>1 DEF ByeLeft, Block, Bye
      <4>2. ~AsksIn(<<Bye>>, p) /\ \A w : ~AsksIn(<<Block(w), Bye>>, p)
        BY NoUpdate, KindsAre
      <4>3. ~AsksIn(link'[n].out, p)
        BY <4>1, <4>2
      <4> QED
        BY <4>3 DEF Asks, AsksIn
    <3> QED
      BY <3>1, <3>2 DEF About, Waits, Touches
  <2> QED
    BY <2>1, <2>2, <2>3
<1>8. CASE Loses(x)
  <2>0. job'[a].log # <<>>
    BY DEF Holds
  <2>1. CASE Kill(x)
    <3>1. x # a
      BY <2>0, <2>1, KillDoes, DeadIs
    <3> QED
      BY <1>2, <2>1, <3>1, KillDoes, OthersStay
  <2>2. CASE ReplayerLost(x)
    <3>1. x # a
      BY <2>2, ReplayerLostDoes DEF Served, Entered, Calling
    <3> QED
      BY <1>2, <2>2, <3>1, ReplayerLostDoes, OthersStay
  <2>3. CASE Stray(x) \/ StrayPut(x)
    <3>1. job'[a] = job[a]
      BY <2>0, <2>3, StrayDoes, StrayPutDoes, DeadIs DEF Others
    <3> QED
      BY <1>2, <3>1 DEF AlmostSame
  <2>4. CASE PeerLost(x)
    <3>1. CASE x # a
      BY <1>2, <2>4, <3>1, PeerLostDoes, OthersStay
    <3>2. CASE x = a
      <4>1. "server" \notin link[n].ends
        BY <2>4, <3>2, PeerLostDoes DEF Entered
      <4>2. ~Live(n)
        BY <4>1 DEF ConnInv, StillOpen
      <4>3. NoNews(n)
        BY <1>8, LostIs
      <4>4. ~Live(n)'
        BY <4>2, <4>3 DEF NoNews, Live
      <4> QED
        BY <4>4 DEF Touches
    <3> QED
      BY <3>1, <3>2
  <2> QED
    BY <1>8, <2>1, <2>2, <2>3, <2>4 DEF Loses
<1> QED
  BY <1>1, <1>3, <1>4, <1>5, <1>6, <1>7, <1>8

\* Who writes a file: the session that records it, or who serves a connection
\* that is about it.
LEMMA WrittenHere ==
  ASSUME TypeInv, NEW s \in Slave, NEW p \in Path, NEW v, disk' = [disk EXCEPT ![s][p] = v]
  PROVE  /\ disk'[s][p] = v
         /\ \A t \in Slave, q \in Path : t # s \/ q # p => disk'[t][q] = disk[t][q]
BY DEF TypeInv, DiskOK

\* s and p are where it is written.
LEMMA WrittenThere ==
  ASSUME TypeInv, NEW s \in Slave, NEW p \in Path, disk'[s][p] # disk[s][p],
         NEW t \in Slave, NEW q \in Path, NEW v, disk' = [disk EXCEPT ![t][q] = v]
  PROVE  s = t /\ p = q
BY WrittenHere

LEMMA LocalWrites ==
  ASSUME TypeInv, NEW a \in Pool, AtHome(a)
  PROVE  \A s \in Slave, p \in Path : disk'[s][p] # disk[s][p] =>
           /\ s = SlaveOf(a) /\ job[a].at \in {"session", "receive"}
           /\ job[a].k <= Len(job[a].log) /\ EntryOf(a).path = p /\ Holds(a, p)
<1> SUFFICES ASSUME NEW s \in Slave, NEW p \in Path, disk'[s][p] # disk[s][p]
             PROVE  /\ s = SlaveOf(a) /\ job[a].at \in {"session", "receive"}
                    /\ job[a].k <= Len(job[a].log) /\ EntryOf(a).path = p /\ Holds(a, p)
  OBVIOUS
<1>1. ASSUME job[a].k <= Len(job[a].log), EntryOf(a).path = p PROVE Holds(a, p)
  BY <1>1, EntryNow DEF Holds, EntryOf
<1>2. SlaveOf(a) \in Slave
  BY SlaveType
<1>3. CASE Operation(a) /\ EntryOf(a).type = "RM"
  <2>1. /\ job[a].at = "session" /\ job[a].k <= Len(job[a].log) /\ EntryOf(a).path \in Path
        /\ disk' = [disk EXCEPT ![SlaveOf(a)][EntryOf(a).path] = NONE]
    BY <1>3, RmDoes
  <2>2. s = SlaveOf(a) /\ p = EntryOf(a).path
    BY <1>2, <2>1, WrittenThere
  <2> QED
    BY <1>1, <2>1, <2>2
<1>4. CASE Operation(a) /\ EntryOf(a).type # "RM"
  <2>1. /\ job[a].at = "session" /\ job[a].k <= Len(job[a].log) /\ EntryOf(a).path \in Path
        /\ disk' = [disk EXCEPT ![SlaveOf(a)][EntryOf(a).path] = EMPTY]
    BY <1>4, PutDoes
  <2>2. s = SlaveOf(a) /\ p = EntryOf(a).path
    BY <1>2, <2>1, WrittenThere
  <2> QED
    BY <1>1, <2>1, <2>2
<1>5. CASE \E v \in Content : Received(a, v)
  <2>1. PICK v : /\ job[a].at = "receive" /\ job[a].k <= Len(job[a].log) /\ EntryOf(a).path \in Path
                 /\ disk' = [disk EXCEPT ![SlaveOf(a)][EntryOf(a).path] = v]
    BY <1>5, ReceivedDoes
  <2>2. s = SlaveOf(a) /\ p = EntryOf(a).path
    BY <1>2, <2>1, WrittenThere
  <2> QED
    BY <1>1, <2>1, <2>2
<1>6. UNCHANGED disk => FALSE
  OBVIOUS
<1> QED
  BY <1>3, <1>4, <1>5, <1>6, EndSessionDoes, GetListDoes, ReturnDoes, SessionDoes DEF AtHome

LEMMA FirstOne ==
  ASSUME TypeInv, NEW b \in Pool, job[b].conn \in Conn, link[job[b].conn].out # <<>>
  PROVE  1 \in 1..Len(link[job[b].conn].out) /\ First(b) = link[job[b].conn].out[1]
<1>1. PICK q : q = link[job[b].conn].out
  OBVIOUS
<1>2. q \in Seq(Message)
  <2>1. LinkOK
    BY DEF TypeInv
  <2> QED
    BY <1>1, <2>1, LinkIs
<1>3. q # <<>> /\ First(b) = Head(q)
  BY <1>1 DEF First
<1>4. 1 \in 1..Len(q) /\ Head(q) = q[1]
  BY <1>2, <1>3
<1> QED
  BY <1>1, <1>3, <1>4

LEMMA HelpsWrites ==
  ASSUME TypeInv, NEW b \in Pool, Helps(b)
  PROVE  \A s \in Slave, p \in Path : disk'[s][p] # disk[s][p] =>
           s = SlaveOf(b) /\ About(job[b].conn, p)
<1> SUFFICES ASSUME NEW s \in Slave, NEW p \in Path, disk'[s][p] # disk[s][p]
             PROVE  s = SlaveOf(b) /\ About(job[b].conn, p)
  OBVIOUS
<1>1. Serves(b, job[b].conn) /\ job[b].conn \in Conn
  BY HelpsIs
<1>2. SlaveOf(b) \in Slave
  BY SlaveType
<1>3. CASE ServeRm(b)
  <2>1. s = SlaveOf(b) /\ p = First(b).entry.path /\ First(b).kind = "update" /\ link[job[b].conn].out # <<>>
    <3>1. /\ First(b).entry.path \in Path /\ First(b).kind = "update" /\ link[job[b].conn].out # <<>>
          /\ disk' = [disk EXCEPT ![SlaveOf(b)][First(b).entry.path] = NONE]
      BY <1>3, ServeRmDoes
    <3> QED
      BY <1>2, <3>1, WrittenThere
  <2>2. 1 \in 1..Len(link[job[b].conn].out) /\ First(b) = link[job[b].conn].out[1]
    BY <1>1, <2>1, FirstOne
  <2> QED
    BY <2>1, <2>2, Zenon DEF About, Asks, AsksIn
<1>4. CASE OpenFile(b)
  <2>1. s = SlaveOf(b) /\ p = job[b].path /\ job[b].at = "header"
    <3>1. /\ job[b].path \in Path /\ job[b].at = "header"
          /\ disk' = [disk EXCEPT ![SlaveOf(b)][job[b].path] = EMPTY]
      BY <1>4, OpenFileDoes
    <3> QED
      BY <1>2, <3>1, WrittenThere
  <2> QED
    BY <1>1, <2>1 DEF About
<1>5. CASE StoreBlock(b)
  <2>1. s = SlaveOf(b) /\ p = job[b].path /\ job[b].at = "storing"
    <3>1. PICK v : /\ job[b].path \in Path /\ job[b].at = "storing"
                   /\ disk' = [disk EXCEPT ![SlaveOf(b)][job[b].path] = v]
      BY <1>5, StoreBlockDoes
    <3> QED
      BY <1>2, <3>1, WrittenThere
  <2> QED
    BY <1>1, <2>1 DEF About
<1>6. UNCHANGED disk => FALSE
  OBVIOUS
<1> QED
  BY <1>3, <1>4, <1>5, <1>6, ServePutDoes, NoSuchFileDoes, RefuseFileDoes, ServeByeDoes DEF Helps

LEMMA NextWrites ==
  ASSUME TypeInv, NEW x \in Pool, AtHome(x) \/ Dial(x) \/ Accept(x) \/ Calls(x) \/ Helps(x) \/ Loses(x)
  PROVE  \A s \in Slave, p \in Path : disk'[s][p] # disk[s][p] =>
           /\ s = SlaveOf(x)
           /\ \/ /\ AtHome(x) /\ job[x].at \in {"session", "receive"} /\ Holds(x, p)
                 /\ job[x].k <= Len(job[x].log) /\ EntryOf(x).path = p
              \/ /\ Helps(x) /\ job[x].conn \in Conn /\ Serves(x, job[x].conn)
                 /\ Touches(job[x].conn, p)
<1> SUFFICES ASSUME NEW s \in Slave, NEW p \in Path, disk'[s][p] # disk[s][p]
             PROVE  /\ s = SlaveOf(x)
                    /\ \/ /\ AtHome(x) /\ job[x].at \in {"session", "receive"} /\ Holds(x, p)
                          /\ job[x].k <= Len(job[x].log) /\ EntryOf(x).path = p
                       \/ /\ Helps(x) /\ job[x].conn \in Conn /\ Serves(x, job[x].conn)
                          /\ Touches(job[x].conn, p)
  OBVIOUS
<1>1. UNCHANGED disk => FALSE
  OBVIOUS
<1>2. CASE AtHome(x)
  BY <1>2, LocalWrites
<1>3. CASE Helps(x)
  BY <1>3, HelpsWrites, HelpsIs DEF Touches, Live
<1> QED
  BY <1>1, <1>2, <1>3, CallsKeeps, AcceptDoes, LosesKeeps

LEMMA OwnInit ==
  ASSUME Init
  PROVE  OwnInv
<1>1. \A a \in Pool : job[a].log = <<>> /\ ~Served(a)
  BY DeadIs DEF Init, Served
<1>2. \A n : \A s \in Slave : ~In(n, s)
  BY DEF Init, In
<1>3. \A a \in Pool : \A p : ~Holds(a, p)
  BY <1>1 DEF Holds
<1>4. \A n, p : ~Touches(n, p)
  BY <1>1, <1>2 DEF Touches, Live, Serves
<1>5. \A p \in Path : \A s \in Slave : disk[s][p] = OLD
  BY DEF Init
<1> QED
  BY <1>3, <1>4, <1>5 DEF OwnInv, OneHolder, NobodyYet, ByHolder

LEMMA OwnSession ==
  ASSUME TypeInv, OwnInv, NEW x \in Pool, NEW log \in Journal, Session(x, log)
  PROVE  OwnInv'
<1> SUFFICES ASSUME NEW p \in Path PROVE (OneHolder(p) /\ NobodyYet(p) /\ ByHolder(p))'
  BY DEF OwnInv
<1>1. /\ \A b \in Pool \ {x} : Holds(b, p)' <=> Holds(b, p)
      /\ ~Holds(x, p)
      /\ Holds(x, p)' => changed'[p] = changed[p] + 1
      /\ ~Holds(x, p)' => changed'[p] = changed[p]
      /\ changed[p] \in Nat
  BY SessionHolds
<1>2. AtHome(x)
  BY DEF AtHome
<1>3. \A n \in Conn : Touches(n, p)' => Touches(n, p)
  BY <1>2, LocalIs, AsideQuiet, NothingNew
<1>4. \A n \in Conn : \A a \in Pool : Entered(a, n) => Entered(a, n)'
  BY <1>2, LocalIs DEF Aside, AlmostSame, Entered, Calling
<1>5. UNCHANGED disk
  BY SessionDoes
<1>6. OneHolder(p) /\ NobodyYet(p) /\ ByHolder(p)
  BY DEF OwnInv
<1>7. CASE Holds(x, p)'
  <2>1. changed'[p] = changed[p] + 1 /\ changed'[p] # 0 /\ (changed'[p] <= 1 => changed[p] = 0)
    BY <1>1, <1>7
  <2>2. OneHolder(p)'
    BY <1>1, <1>6, <2>1 DEF OneHolder, NobodyYet
  <2>3. NobodyYet(p)'
    BY <2>1 DEF NobodyYet
  <2>4. ByHolder(p)'
    <3>1. changed'[p] = 1 => \A n \in Conn : ~Touches(n, p)'
      BY <1>3, <1>6, <2>1 DEF NobodyYet
    <3> QED
      BY <3>1 DEF ByHolder
  <2> QED
    BY <2>2, <2>3, <2>4
<1>8. CASE ~Holds(x, p)'
  <2>1. changed'[p] = changed[p] /\ \A b \in Pool : Holds(b, p)' => Holds(b, p)
    BY <1>1, <1>8
  <2>2. OneHolder(p)'
    BY <1>6, <2>1 DEF OneHolder
  <2>3. NobodyYet(p)'
    BY <1>3, <1>5, <1>6, <2>1 DEF NobodyYet
  <2>4. ByHolder(p)'
    BY <1>3, <1>4, <1>6, <2>1 DEF ByHolder
  <2> QED
    BY <2>2, <2>3, <2>4
<1> QED
  BY <1>7, <1>8

LEMMA OwnNext ==
  ASSUME TypeInv, ConnInv, ProtoInv, OwnInv, TypeInv', ConnInv', ProtoInv', Next
  PROVE  OwnInv'
<1>1. PICK x \in Pool : AtHome(x) \/ Dial(x) \/ Accept(x) \/ Calls(x) \/ Helps(x) \/ Loses(x)
  BY NextIs
<1>2. Keeps \/ \E log \in Journal : Session(x, log)
  BY <1>1, LocalKeeps, CallsKeeps, HelpsKeeps, LosesKeeps
<1>3. CASE \E log \in Journal : Session(x, log)
  BY <1>3, OwnSession
<1>4. CASE Keeps
  <2> SUFFICES ASSUME NEW p \in Path PROVE (OneHolder(p) /\ NobodyYet(p) /\ ByHolder(p))'
    BY DEF OwnInv
  <2>1. OneHolder(p) /\ NobodyYet(p) /\ ByHolder(p)
    BY DEF OwnInv
  <2>2. changed'[p] = changed[p]
    BY <1>4 DEF Keeps
  <2>3. \A a \in Pool : Holds(a, p)' => Holds(a, p)
    BY <1>4, HoldsKeeps
  <2>4. \A n \in Conn : Touches(n, p)' => Touches(n, p) \/ \E a \in Pool : Entered(a, n)' /\ Holds(a, p)'
    BY TouchesKeeps
  <2>5. OneHolder(p)'
    BY <2>1, <2>2, <2>3 DEF OneHolder
  <2>6. NobodyYet(p)'
    <3> SUFFICES ASSUME changed'[p] = 0
                 PROVE  /\ \A a \in Pool : ~Holds(a, p)'
                        /\ \A n \in Conn : ~Touches(n, p)'
                        /\ \A s \in Slave : disk'[s][p] = OLD
      BY DEF NobodyYet
    <3>1. /\ \A a \in Pool : ~Holds(a, p)
          /\ \A n \in Conn : ~Touches(n, p)
          /\ \A s \in Slave : disk[s][p] = OLD
      BY <2>1, <2>2 DEF NobodyYet
    <3>2. \A s \in Slave : disk'[s][p] = disk[s][p]
      BY <1>1, <3>1, NextWrites
    <3> QED
      BY <2>3, <2>4, <3>1, <3>2
  <2>7. ByHolder(p)'
    <3> SUFFICES ASSUME changed'[p] = 1, NEW n \in Conn, NEW a \in Pool, Touches(n, p)', Holds(a, p)'
                 PROVE  Entered(a, n)'
      BY DEF ByHolder
    <3>1. CASE Touches(n, p)
      <4>1. Entered(a, n)
        BY <2>1, <2>2, <2>3, <3>1 DEF ByHolder
      <4> QED
        BY <4>1, EnteredKeeps
    <3>2. ASSUME NEW b \in Pool, Entered(b, n)', Holds(b, p)' PROVE Entered(a, n)'
      <4>1. a = b
        BY <2>1, <2>2, <2>3, <3>2 DEF OneHolder
      <4> QED
        BY <3>2, <4>1
    <3> QED
      BY <2>4, <3>1, <3>2
  <2> QED
    BY <2>5, <2>6, <2>7
<1> QED
  BY <1>2, <1>3, <1>4

-----------------------------------------------------------------------------
(* The fifth layer: what the files are that one session, at most, has changed. *)

HasIn(L, m, p)  == \E i \in 1..m : L[i].path = p
HasRm(L, m, p)  == \E i \in 1..m : L[i].path = p /\ L[i].type = "RM"
RmLast(L, m, p) == \E i \in 1..m : /\ L[i].path = p /\ L[i].type = "RM"
                                   /\ \A j \in (i + 1)..m : L[j].path # p
Later(L, k, p)  == \E i \in k..Len(L) : L[i].path = p

\* What the first m entries of L leave of file p.
Result(L, m, p, v) == /\ ~HasIn(L, m, p) => v = OLD
                      /\ RmLast(L, m, p) => v = NONE
                      /\ v = NONE => HasRm(L, m, p)

Here(a, p) == job[a].k <= Len(job[a].log) /\ EntryOf(a).path = p
Done(a)    == IF job[a].at \in {"session", "receive"} THEN job[a].k - 1 ELSE Len(job[a].log)

Mine(a, p) == IF job[a].at = "receive" /\ Here(a, p)
              THEN disk[SlaveOf(a)][p] # NONE /\ job[a].held = NONE
              ELSE Result(job[a].log, Done(a), p, disk[SlaveOf(a)][p])

\* What is on its way is file d; one that sends a file to its own slave cuts it short.
Fresh(out, d, s, t) == \A i \in 1..Len(out) : /\ out[i].kind = "header" => out[i] = Header(d)
                                              /\ out[i].kind = "block" /\ s # t => out[i].data = d

\* a replays an entry about p over n, and the file is d at its slave and v at the other.
During(a, n, d, v) ==
  /\ job[a].at = "ack" /\ link[n].back = <<"done">> => v = NONE
  /\ job[a].at = "stored" /\ link[n].back = <<"done">> /\ d # NONE => v = d
  /\ job[a].at = "block" => job[a].held = NONE /\ link[n].back = <<>>
  /\ job[a].at \in {"block", "stored"} => Fresh(link[n].out, d, SlaveOf(a), Peer(a))
  /\ \A b \in Pool : Serves(b, n) => job[b].held = NONE

After(L, k, p, d, v) == /\ d = NONE /\ HasRm(L, k - 1, p) => v = NONE
                        /\ HasIn(L, k - 1, p) /\ ~Later(L, k, p) => v = d

\* The slave that a replays to has refused the file.
Lacks(a, p) == Peer(a) # SlaveOf(a) /\ <<Peer(a), p>> \in refused

Theirs(a, p) == Calling(a) /\ ~Lacks(a, p) =>
  /\ After(job[a].log, job[a].k, p, disk[SlaveOf(a)][p], disk[Peer(a)][p])
  /\ Here(a, p) => During(a, job[a].conn, disk[SlaveOf(a)][p], disk[Peer(a)][p])

ValueInv == \A p \in Path : changed[p] = 1 => \A a \in Pool : Holds(a, p) => Mine(a, p) /\ Theirs(a, p)

LEMMA UpToNext ==
  ASSUME NEW m \in Nat
  PROVE  1..(m + 1) = (1..m) \cup {m + 1}
OBVIOUS

LEMMA ResultNext ==
  ASSUME NEW L, NEW m \in Nat, NEW p, NEW v, L[m + 1].path # p, Result(L, m, p, v)
  PROVE  Result(L, m + 1, p, v)
<1>1. HasIn(L, m + 1, p) <=> HasIn(L, m, p)
  BY UpToNext DEF HasIn
<1>2. HasRm(L, m, p) => HasRm(L, m + 1, p)
  BY UpToNext DEF HasRm
<1>3. RmLast(L, m + 1, p) => RmLast(L, m, p)
  <2> SUFFICES ASSUME NEW i \in 1..(m + 1), L[i].path = p, L[i].type = "RM",
                      \A j \in (i + 1)..(m + 1) : L[j].path # p
               PROVE  RmLast(L, m, p)
    BY DEF RmLast
  <2>1. i \in 1..m
    OBVIOUS
  <2>2. \A j \in (i + 1)..m : j \in (i + 1)..(m + 1)
    OBVIOUS
  <2> QED
    BY <2>1, <2>2 DEF RmLast
<1> QED
  BY <1>1, <1>2, <1>3 DEF Result

LEMMA ResultRm ==
  ASSUME NEW L, NEW m \in Nat, NEW p, L[m + 1].path = p,
         L[m + 1].type = "RM" \/ Result(L, m, p, NONE)
  PROVE  Result(L, m + 1, p, NONE)
<1>1. m + 1 \in 1..(m + 1)
  OBVIOUS
<1>2. HasIn(L, m + 1, p)
  BY <1>1 DEF HasIn
<1>3. HasRm(L, m + 1, p)
  BY <1>1, UpToNext DEF HasRm, Result
<1> QED
  BY <1>2, <1>3 DEF Result

LEMMA ResultPut ==
  ASSUME NEW L, NEW m \in Nat, NEW p, NEW v, L[m + 1].path = p, L[m + 1].type = "PUT", v # NONE
  PROVE  Result(L, m + 1, p, v)
<1>1. m + 1 \in 1..(m + 1)
  OBVIOUS
<1>2. HasIn(L, m + 1, p)
  BY <1>1 DEF HasIn
<1>3. ~RmLast(L, m + 1, p)
  <2> SUFFICES ASSUME NEW i \in 1..(m + 1), L[i].path = p, L[i].type = "RM",
                      \A j \in (i + 1)..(m + 1) : L[j].path # p
               PROVE  FALSE
    BY DEF RmLast
  <2>1. i # m + 1
    OBVIOUS
  <2>2. m + 1 \in (i + 1)..(m + 1)
    BY <2>1
  <2> QED
    BY <2>2
<1> QED
  BY <1>2, <1>3 DEF Result

LEMMA AfterFirst ==
  ASSUME NEW L, NEW p, NEW d, NEW v
  PROVE  After(L, 1, p, d, v)
BY DEF After, HasRm, HasIn

LEMMA AfterNext ==
  ASSUME NEW L, NEW k \in Nat \ {0}, Len(L) \in Nat, NEW p, NEW d, NEW v, L[k].path # p, After(L, k, p, d, v)
  PROVE  After(L, k + 1, p, d, v)
<1>1. PICK m \in Nat : k = m + 1
  <2>1. k - 1 \in Nat /\ k = (k - 1) + 1
    OBVIOUS
  <2> QED
    BY <2>1
<1>2. k - 1 = m /\ (k + 1) - 1 = m + 1
  BY <1>1
<1>3. HasIn(L, m + 1, p) => HasIn(L, m, p)
  BY <1>1, UpToNext DEF HasIn
<1>4. HasRm(L, m + 1, p) => HasRm(L, m, p)
  BY <1>1, UpToNext DEF HasRm
<1>5. Later(L, k, p) => Later(L, k + 1, p)
  <2> SUFFICES ASSUME NEW i \in k..Len(L), L[i].path = p PROVE Later(L, k + 1, p)
    BY DEF Later
  <2>1. i # k
    OBVIOUS
  <2>2. i \in (k + 1)..Len(L)
    BY <2>1
  <2> QED
    BY <2>2 DEF Later
<1> QED
  BY <1>2, <1>3, <1>4, <1>5 DEF After

\* Who has replayed an RM, which has left no file.
LEMMA AfterRm ==
  ASSUME NEW L, Len(L) \in Nat, NEW k \in 1..Len(L), NEW p, NEW d, L[k].path = p, L[k].type = "RM",
         Result(L, Len(L), p, d)
  PROVE  After(L, k + 1, p, d, NONE)
<1>1. ASSUME ~Later(L, k + 1, p) PROVE d = NONE
  <2>1. \A j \in (k + 1)..Len(L) : L[j].path # p
    BY <1>1 DEF Later
  <2>2. RmLast(L, Len(L), p)
    BY <2>1 DEF RmLast
  <2> QED
    BY <2>2 DEF Result
<1> QED
  BY <1>1 DEF After

\* Who has replayed a PUT, of a file that may be gone.
LEMMA AfterPut ==
  ASSUME NEW L, Len(L) \in Nat, NEW k \in 1..Len(L), NEW p, NEW d, NEW v, L[k].type = "PUT",
         Result(L, Len(L), p, d), After(L, k, p, d, v), d # NONE => v = d
  PROVE  After(L, k + 1, p, d, v)
<1>1. PICK m \in Nat : k = m + 1
  <2>1. k - 1 \in Nat /\ k = (k - 1) + 1
    OBVIOUS
  <2> QED
    BY <2>1
<1>2. k - 1 = m /\ (k + 1) - 1 = m + 1
  BY <1>1
<1>3. HasRm(L, m + 1, p) => HasRm(L, m, p)
  BY <1>1, UpToNext DEF HasRm
<1>4. d = NONE /\ HasRm(L, (k + 1) - 1, p) => v = NONE
  BY <1>2, <1>3 DEF After
<1>5. ASSUME d = NONE, ~Later(L, k + 1, p) PROVE v = NONE
  <2>1. PICK i \in 1..Len(L) : L[i].path = p /\ L[i].type = "RM"
    BY <1>5 DEF Result, HasRm
  <2>2. i \notin (k + 1)..Len(L) /\ i # k
    BY <1>5, <2>1 DEF Later
  <2>3. i \in 1..(k - 1)
    BY <2>2
  <2> QED
    BY <1>5, <2>1, <2>3 DEF After, HasRm
<1> QED
  BY <1>4, <1>5 DEF After

\* What is to be shown of a worker once it is known where it is.
LEMMA MineThen ==
  ASSUME NEW a \in Pool, NEW p, NEW at, NEW L, NEW k, NEW d,
         job'[a].at = at, job'[a].log = L, job'[a].k = k, disk'[SlaveOf(a)][p] = d,
         at = "receive" /\ k <= Len(L) /\ L[k].path = p => d # NONE /\ job'[a].held = NONE,
         at \in {"session", "receive"} /\ ~(at = "receive" /\ k <= Len(L) /\ L[k].path = p)
           => Result(L, k - 1, p, d),
         at \notin {"session", "receive"} => Result(L, Len(L), p, d)
  PROVE  Mine(a, p)'
BY DEF Mine, Here, Done, EntryOf, SlaveOf, Result, HasIn, HasRm, RmLast

LEMMA MineNow ==
  ASSUME NEW a \in Pool, NEW p, Mine(a, p)
  PROVE  /\ job[a].at = "receive" /\ Here(a, p) => disk[SlaveOf(a)][p] # NONE /\ job[a].held = NONE
         /\ job[a].at \in {"session", "receive"} /\ ~(job[a].at = "receive" /\ Here(a, p))
              => Result(job[a].log, job[a].k - 1, p, disk[SlaveOf(a)][p])
         /\ job[a].at \notin {"session", "receive"}
              => Result(job[a].log, Len(job[a].log), p, disk[SlaveOf(a)][p])
BY DEF Mine, Done

\* One that is, or comes to be, where all its operations are over.
LEMMA MineStays ==
  ASSUME NEW a \in Pool, NEW p, NEW L, L = job[a].log, NEW d, Result(L, Len(L), p, d),
         d = disk[SlaveOf(a)][p], UNCHANGED disk, job'[a].log = L,
         job'[a].at \notin {"session", "receive"}
  PROVE  Mine(a, p)'
<1>1. PICK at, k : at = job'[a].at /\ k = job'[a].k
  OBVIOUS
<1>2. disk'[SlaveOf(a)][p] = d
  OBVIOUS
<1> QED
  BY <1>1, <1>2, MineThen

LEMMA DuringThen ==
  ASSUME NEW a \in Pool, NEW n, NEW d, NEW v, NEW at, NEW s, NEW t,
         job'[a].at = at, SlaveOf(a) = s, Peer(a)' = t,
         at = "ack" /\ link'[n].back = <<"done">> => v = NONE,
         at = "stored" /\ link'[n].back = <<"done">> /\ d # NONE => v = d,
         at = "block" => job'[a].held = NONE /\ link'[n].back = <<>>,
         at \in {"block", "stored"} => Fresh(link'[n].out, d, s, t),
         \A b \in Pool : Serves(b, n)' => job'[b].held = NONE
  PROVE  During(a, n, d, v)'
<1>1. at \in {"block", "stored"} => Fresh(link[n].out, d, SlaveOf(a), Peer(a))'
  BY DEF Fresh, Header, SlaveOf
<1> QED
  BY <1>1 DEF During

LEMMA TheirsThen ==
  ASSUME NEW a \in Pool, NEW p, NEW L, NEW k, NEW n, NEW t, NEW d, NEW v,
         job'[a].log = L, job'[a].k = k, job'[a].conn = n, Peer(a)' = t,
         disk'[SlaveOf(a)][p] = d, disk'[t][p] = v, After(L, k, p, d, v),
         k <= Len(L) /\ L[k].path = p => During(a, n, d, v)'
  PROVE  Theirs(a, p)'
<1>1. After(job[a].log, job[a].k, p, disk[SlaveOf(a)][p], disk[Peer(a)][p])'
  BY DEF After, HasRm, HasIn, Later, SlaveOf
<1>2. ASSUME Here(a, p)' PROVE During(a, job[a].conn, disk[SlaveOf(a)][p], disk[Peer(a)][p])'
  <2>1. During(a, n, d, v)'
    BY <1>2 DEF Here, EntryOf
  <2> QED
    BY <2>1 DEF During, SlaveOf, Serves
<1> QED
  BY <1>1, <1>2 DEF Theirs

LEMMA TheirsNot ==
  ASSUME NEW a \in Pool, NEW p, ~Calling(a)'
  PROVE  Theirs(a, p)'
BY DEF Theirs

LEMMA TheirsLacks ==
  ASSUME NEW a \in Pool, NEW p, Lacks(a, p)'
  PROVE  Theirs(a, p)'
BY DEF Theirs

LEMMA LacksStays ==
  ASSUME NEW a \in Pool, NEW p, Lacks(a, p), Peer(a)' = Peer(a), refused \subseteq refused'
  PROVE  Lacks(a, p)'
BY DEF Lacks, SlaveOf

LEMMA TheirsNow ==
  ASSUME NEW a \in Pool, NEW p, Theirs(a, p), Calling(a), ~Lacks(a, p)
  PROVE  /\ After(job[a].log, job[a].k, p, disk[SlaveOf(a)][p], disk[Peer(a)][p])
         /\ Here(a, p) =>
              LET n == job[a].conn
                  d == disk[SlaveOf(a)][p]
                  v == disk[Peer(a)][p]
              IN /\ job[a].at = "ack" /\ link[n].back = <<"done">> => v = NONE
                 /\ job[a].at = "stored" /\ link[n].back = <<"done">> /\ d # NONE => v = d
                 /\ job[a].at = "block" => job[a].held = NONE /\ link[n].back = <<>>
                 /\ job[a].at \in {"block", "stored"} => Fresh(link[n].out, d, SlaveOf(a), Peer(a))
                 /\ \A b \in Pool : Serves(b, n) => job[b].held = NONE
BY DEF Theirs, During

LEMMA FreshIs ==
  /\ \A d, s, t : Fresh(<<>>, d, s, t)
  /\ \A m, d, s, t : Fresh(<<m>>, d, s, t) <=> /\ m.kind = "header" => m = Header(d)
                                               /\ m.kind = "block" /\ s # t => m.data = d
  /\ \A x, y, d, s, t : Fresh(<<x, y>>, d, s, t) <=> /\ Fresh(<<x>>, d, s, t)
                                                     /\ Fresh(<<y>>, d, s, t)
<1>1. \A d, s, t : Fresh(<<>>, d, s, t)
  BY DEF Fresh
<1>2. \A m, d, s, t : Fresh(<<m>>, d, s, t) <=> ( /\ m.kind = "header" => m = Header(d)
                                                  /\ m.kind = "block" /\ s # t => m.data = d)
  <2> TAKE m, d, s, t
  <2>1. Len(<<m>>) = 1 /\ <<m>>[1] = m /\ \A i \in 1..1 : i = 1
    OBVIOUS
  <2> QED
    BY <2>1 DEF Fresh
<1>3. \A x, y, d, s, t : Fresh(<<x, y>>, d, s, t) <=> (Fresh(<<x>>, d, s, t) /\ Fresh(<<y>>, d, s, t))
  <2> TAKE x, y, d, s, t
  <2>1. Len(<<x, y>>) = 2 /\ <<x, y>>[1] = x /\ <<x, y>>[2] = y /\ 1..2 = {1, 2}
    OBVIOUS
  <2>2. Fresh(<<x, y>>, d, s, t) <=>
          \A i \in {1, 2} : /\ <<x, y>>[i].kind = "header" => <<x, y>>[i] = Header(d)
                            /\ <<x, y>>[i].kind = "block" /\ s # t => <<x, y>>[i].data = d
    BY <2>1 DEF Fresh
  <2>3. Fresh(<<x, y>>, d, s, t) <=>
          ( /\ (x.kind = "header" => x = Header(d)) /\ (x.kind = "block" /\ s # t => x.data = d)
            /\ (y.kind = "header" => y = Header(d)) /\ (y.kind = "block" /\ s # t => y.data = d) )
    BY <2>1, <2>2
  <2> QED
    BY <1>2, <2>3
<1> QED
  BY <1>1, <1>2, <1>3

\* Headers tell files that are there from those that are not, and from empty ones.
LEMMA SameHeader ==
  ASSUME NEW v \in File, NEW w \in File, Header(v) = Header(w)
  PROVE  (v = NONE <=> w = NONE) /\ (v = EMPTY <=> w = EMPTY)
<1>1. NONE # EMPTY
  BY CoherenceAssumption
<1> QED
  BY <1>1, HeaderTells

LEMMA FreshTwo ==
  ASSUME NEW out, NEW x, NEW y, NEW d, NEW s, NEW t, out = <<x, y>>, Fresh(out, d, s, t)
  PROVE  Fresh(<<x>>, d, s, t) /\ Fresh(<<y>>, d, s, t)
<1>1. Fresh(<<x, y>>, d, s, t)
  OBVIOUS
<1> QED
  BY <1>1, FreshIs

-----------------------------------------------------------------------------
(* The steps of the others. *)

Moves(x) == AtHome(x) \/ Dial(x) \/ Accept(x) \/ Calls(x) \/ Helps(x) \/ Loses(x)

\* x may do something to file p.
Meddles(x, p) == \/ AtHome(x) /\ Holds(x, p)
                 \/ Helps(x) /\ job[x].conn \in Conn /\ Serves(x, job[x].conn) /\ Touches(job[x].conn, p)

LEMMA RefusedGrows ==
  ASSUME TypeInv, NEW x \in Pool, Moves(x)
  PROVE  refused \subseteq refused'
<1>1. AtHome(x) \/ Dial(x) \/ Accept(x) \/ Calls(x) \/ Loses(x) => UNCHANGED refused
  BY DEF AtHome, Calls, Loses, Operation, StrayPut, Received, EndSession, GetList, Return, Session, Dial, Accept,
         SendUpdate, ReadAck, SendHeader, SendBlock, ReadStored, SayBye, Kill, PeerLost, ReplayerLost, Stray
<1>2. Helps(x) => refused \subseteq refused'
  BY DEF Helps, ServeRm, ServePut, NoSuchFile, OpenFile, RefuseFile, StoreBlock, ServeBye
<1> QED
  BY <1>1, <1>2 DEF Moves

LEMMA MovesLeave ==
  ASSUME TypeInv, NEW x \in Pool, Moves(x)
  PROVE  \A b \in Pool \ {x} : AlmostSame(b) \/ (job'[b].log = <<>> /\ Rests(b))
<1>1. CASE Loses(x)
  <2>1. \A b \in Pool : Others(x) => b = x \/ AlmostSame(b)
    BY OthersStay
  <2>2. Stray(x) => \A b \in Pool : AlmostSame(b) \/ (job'[b].log = <<>> /\ Rests(b))
    BY StrayDoes, DeadIs DEF AlmostSame, Rests, Calling, Served
  <2> QED
    BY <1>1, <2>1, <2>2, KillDoes, PeerLostDoes, ReplayerLostDoes, StrayPutDoes DEF Loses
<1>2. CASE AtHome(x)
  BY <1>2, LocalIs DEF Aside
<1>3. CASE Helps(x)
  BY <1>3, HelpsIs
<1>4. CASE Dial(x) \/ Accept(x) \/ Calls(x)
  BY <1>4, OthersStay, DialDoes, AcceptDoes, CallsIs
<1> QED
  BY <1>1, <1>2, <1>3, <1>4 DEF Moves

\* Who has a file open holds what it held, unless somebody removes it.
LEMMA HeldKeeps ==
  ASSUME TypeInv, NEW x \in Pool, NEW p \in Path, Moves(x), ~Meddles(x, p)
  PROVE  \A b \in Pool \ {x} : job[b].path = p =>
           job'[b].held = job[b].held \/ (job'[b].log = <<>> /\ Rests(b))
<1>1. Others(x) => \A b \in Pool \ {x} : job'[b].held = job[b].held
  BY OthersStay
<1>2. CASE AtHome(x)
  <2>1. CASE Operation(x) /\ EntryOf(x).type = "RM"
    <3>1. /\ EntryOf(x).path \in Path /\ Remove(x, EntryOf(x).path, NextEntry(x))
          /\ job[x].k <= Len(job[x].log)
      BY <2>1, RmDoes
    <3>2. Holds(x, EntryOf(x).path)
      BY <3>1, EntryNow DEF Holds, EntryOf
    <3>3. EntryOf(x).path # p
      BY <1>2, <3>2 DEF Meddles
    <3> QED
      BY <3>1, <3>3, RemoveDoes
  <2>2. CASE Operation(x) /\ EntryOf(x).type # "RM"
    BY <1>1, <2>2, PutDoes DEF Goes, Others
  <2>3. CASE ~Operation(x)
    BY <1>1, <1>2, <2>3, ReceivedDoes, EndSessionDoes, GetListDoes, ReturnDoes, SessionDoes DEF AtHome, Goes
  <2> QED
    BY <2>1, <2>2, <2>3
<1>3. CASE Helps(x)
  <2>1. CASE ServeRm(x)
    <3>1. /\ First(x).entry.path \in Path /\ Remove(x, First(x).entry.path, Serving(x))
          /\ First(x).kind = "update" /\ link[job[x].conn].out # <<>>
      BY <2>1, ServeRmDoes
    <3>2. job[x].conn \in Conn /\ Serves(x, job[x].conn)
      BY <1>3, HelpsIs
    <3>3. 1 \in 1..Len(link[job[x].conn].out) /\ First(x) = link[job[x].conn].out[1]
      BY <3>1, <3>2, FirstOne
    <3>4. Touches(job[x].conn, First(x).entry.path)
      BY <3>1, <3>2, <3>3, Zenon DEF Touches, Live, About, Asks, AsksIn
    <3>5. First(x).entry.path # p
      BY <1>3, <3>2, <3>4 DEF Meddles
    <3> QED
      BY <3>1, <3>5, RemoveDoes
  <2>2. CASE ~ServeRm(x)
    BY <1>1, <1>3, <2>2, ServePutDoes, NoSuchFileDoes, OpenFileDoes, RefuseFileDoes, StoreBlockDoes, ServeByeDoes
       DEF Helps
  <2> QED
    BY <2>1, <2>2
<1>4. CASE Loses(x)
  <2>1. Stray(x) => \A b \in Pool : job'[b].held = job[b].held \/ (job'[b].log = <<>> /\ Rests(b))
    BY StrayDoes, DeadIs DEF Rests, Calling, Served
  <2> QED
    BY <1>1, <1>4, <2>1, KillDoes, PeerLostDoes, ReplayerLostDoes, StrayPutDoes DEF Loses
<1>5. CASE Dial(x) \/ Accept(x) \/ Calls(x)
  BY <1>1, <1>5, DialDoes, AcceptDoes, CallsIs
<1> QED
  BY <1>2, <1>3, <1>4, <1>5 DEF Moves

\* Who may do something to a file that one session has changed.
LEMMA Meddlers ==
  ASSUME OwnInv, NEW p \in Path, changed[p] = 1, NEW a \in Pool, Holds(a, p), NEW x \in Pool, Meddles(x, p)
  PROVE  \/ x = a
         \/ /\ Helps(x) /\ job[x].conn \in Conn /\ Serves(x, job[x].conn)
            /\ Entered(a, job[x].conn) /\ Touches(job[x].conn, p)
<1>1. OneHolder(p) /\ ByHolder(p)
  BY DEF OwnInv
<1> QED
  BY <1>1 DEF Meddles, OneHolder, ByHolder

\* Who serves a connection over which an entry about p is replayed does something to p.
LEMMA HelperMeddles ==
  ASSUME TypeInv, ConnInv, ProtoInv, NEW x \in Pool, Helps(x), NEW a \in Pool, Entered(a, job[x].conn),
         NEW p, Here(a, p)
  PROVE  Meddles(x, p)
<1>1. PICK n \in Conn : n = job[x].conn
  BY HelpsIs
<1>2. Serves(x, n) /\ link[n].out # <<>> /\ Entered(a, n) /\ EntryOf(a).path = p
  BY <1>1, HelpsIs DEF Here
<1>3. CASE job[x].at = "serve"
  <2>1. Sent(n, Update(EntryOf(a)))
    BY <1>1, <1>2, <1>3, CallerOfServe, HelpsIs DEF First
  <2>2. link[n].out = <<Update(EntryOf(a))>>
    BY <2>1 DEF Sent
  <2>3. 1 \in 1..Len(link[n].out) /\ link[n].out[1].kind = "update" /\ link[n].out[1].entry.path = p
    BY <1>2, <2>2, KindsAre
  <2> QED
    BY <1>1, <1>2, <2>3 DEF Meddles, Touches, Live, About, Asks, AsksIn
<1>4. CASE job[x].at \in {"header", "storing"}
  <2>1. job[x].path = p
    BY <1>2, <1>4, CallerOfHeader, CallerOfStoring
  <2> QED
    BY <1>1, <1>2, <1>4, <2>1 DEF Meddles, Touches, Live, About
<1> QED
  BY <1>2, <1>3, <1>4 DEF Serves, Served

\* Who stores a file for one that replays an entry stores the file of that entry.
LEMMA StoresHere ==
  ASSUME ConnInv, ProtoInv, NEW a \in Pool, NEW n \in Conn, Entered(a, n), NEW b \in Pool, Serves(b, n),
         job[b].at = "storing"
  PROVE  job[b].path = EntryOf(a).path
<1>1. Step(job[a].at, n, EntryOf(a))
  BY DEF ProtoInv, Entered
<1>2. ~Waits(n) /\ \A p : ~Heads(n, p)
  BY OnlyServer
<1>3. Stores(n, EntryOf(a).path)
  BY <1>1, <1>2 DEF Step, AtAck, AtBlock, AtStored
<1> QED
  BY <1>3, OnlyServer

\* Who serves, and does not store, holds nothing.
LEMMA ServersHold ==
  \A b \in Pool : TypeInv /\ Served(b) /\ job[b].at # "storing" => job[b].held = NONE
BY ServerIs DEF Served

LEMMA ServersHoldThen ==
  (\A b \in Pool : TypeInv /\ Served(b) /\ job[b].at # "storing" => job[b].held = NONE)'
BY ServersHold, PTL

\* What is on the way to and from one that replays an entry about p, after a
\* step of another that does nothing to p.
LEMMA OtherWords ==
  ASSUME TypeInv, ConnInv, ProtoInv, NEW x \in Pool, NEW p \in Path, Moves(x), ~Meddles(x, p),
         NEW a \in Pool \ {x}, NEW n \in Conn, Entered(a, n), Here(a, p)
  PROVE  SameWords(n)
<1>1. CASE AtHome(x)
  BY <1>1, LocalIs, AsideQuiet
<1>2. CASE Dial(x)
  <2>1. n # job'[x].conn
    BY <1>2, DialDoes DEF Unused, Entered
  <2> QED
    BY <1>2, <2>1, DialIs
<1>3. CASE Accept(x)
  BY <1>3, AcceptDoes DEF SameWords
<1>4. CASE Calls(x)
  <2>1. n # job[x].conn
    BY <1>4, CallsIs DEF ConnInv, OneCaller
  <2> QED
    BY <1>4, <2>1, CallsIs
<1>5. CASE Helps(x)
  <2>1. n # job[x].conn
    BY <1>5, HelperMeddles
  <2> QED
    BY <1>5, <2>1, HelpsIs
<1>6. CASE Loses(x)
  BY <1>6, LostIs
<1> QED
  BY <1>1, <1>2, <1>3, <1>4, <1>5, <1>6 DEF Moves

\* And the one that serves it.
LEMMA OtherServers ==
  ASSUME TypeInv, ConnInv, ProtoInv, TypeInv', NEW x \in Pool, NEW p \in Path, Moves(x), ~Meddles(x, p),
         NEW a \in Pool \ {x}, NEW n \in Conn, Entered(a, n), Here(a, p),
         \A b \in Pool : Serves(b, n) => job[b].held = NONE,
         NEW b \in Pool, Serves(b, n)'
  PROVE  job'[b].held = NONE
<1>1. CASE job'[b].at # "storing"
  BY <1>1, ServersHoldThen DEF Serves
<1>2. CASE job'[b].at = "storing" /\ b # x
  <2>1. AlmostSame(b)
    BY <1>2, MovesLeave DEF Serves, Rests
  <2>2. Serves(b, n) /\ job[b].at = "storing"
    BY <1>2, <2>1 DEF AlmostSame, Serves, Served
  <2>3. job[b].path = p
    BY <2>2, StoresHere DEF Here
  <2> QED
    BY <1>2, <2>2, <2>3, HeldKeeps DEF Serves, Rests
<1>3. CASE job'[b].at = "storing" /\ b = x
  <2>1. CASE AtHome(x)
    BY <1>3, <2>1, LocalIs DEF Aside, Rests, Serves
  <2>2. CASE Dial(x) \/ Accept(x)
    BY <1>3, <2>2, DialDoes, AcceptDoes
  <2>3. CASE Calls(x)
    BY <1>3, <2>3, CallsIs DEF Serves
  <2>4. CASE Helps(x)
    <3>1. job[x].conn = n
      BY <1>3, <2>4, HelpsIs DEF Serves
    <3> QED
      BY <2>4, <3>1, HelperMeddles
  <2>5. CASE Loses(x)
    BY <1>3, <2>5, LostIs DEF Serves, Rests, NoNews
  <2> QED
    BY <2>1, <2>2, <2>3, <2>4, <2>5 DEF Moves
<1> QED
  BY <1>1, <1>2, <1>3

LEMMA OtherValue ==
  ASSUME TypeInv, ConnInv, ProtoInv, TypeInv', NEW x \in Pool, NEW p \in Path, Moves(x), ~Meddles(x, p),
         NEW a \in Pool \ {x}, Holds(a, p)', Mine(a, p), Theirs(a, p)
  PROVE  (Mine(a, p) /\ Theirs(a, p))'
<1>1. AlmostSame(a)
  BY MovesLeave DEF Holds
<1>2. \A s \in Slave : disk'[s][p] = disk[s][p]
  BY NextWrites DEF Moves, Meddles
<1>0. PICK s \in Slave : s = SlaveOf(a)
  BY SlaveType
<1>3. PICK at, L, k, n : at = job[a].at /\ L = job[a].log /\ k = job[a].k /\ n = job[a].conn
  OBVIOUS
<1>4. job'[a].at = at /\ job'[a].log = L /\ job'[a].k = k /\ job'[a].conn = n /\ job'[a].peers = job[a].peers
  BY <1>1, <1>3 DEF AlmostSame
<1>5. PICK d : d = disk[s][p]
  OBVIOUS
<1>6. disk'[SlaveOf(a)][p] = d
  BY <1>0, <1>2, <1>5
<1>7. Here(a, p) <=> (k <= Len(L) /\ L[k].path = p)
  BY <1>3 DEF Here, EntryOf
<1>8. ASSUME at \in {"receive", "block"}, Here(a, p) PROVE job'[a].held = job[a].held
  <2>1. job[a].path = p
    BY <1>3, <1>8, FitsNow DEF Fits, Here, EntryOf
  <2> QED
    BY <1>4, <2>1, HeldKeeps DEF Holds
<1>9. Mine(a, p)'
  BY <1>0, <1>3, <1>4, <1>5, <1>6, <1>7, <1>8, MineNow, MineThen
<1>10. CASE Calling(a)
  <2>1. n \in Conn /\ Entered(a, n)
    BY <1>3, <1>10, ConnType DEF Entered, Calling
  <2>2. PICK t \in Slave : t = Peer(a)
    BY <1>10, FitsNow DEF Fits, Calling, Peer
  <2>3. PICK v : v = disk[t][p]
    OBVIOUS
  <2>4. Peer(a)' = t /\ disk'[t][p] = v
    BY <1>2, <1>4, <2>2, <2>3 DEF Peer
  <2>a. CASE Lacks(a, p)
    <3>1. Lacks(a, p)'
      BY <2>2, <2>4, <2>a, RefusedGrows, LacksStays
    <3> QED
      BY <1>9, <3>1, TheirsLacks
  <2>b. SUFFICES ASSUME ~Lacks(a, p) PROVE (Mine(a, p) /\ Theirs(a, p))'
    BY <2>a
  <2>5. After(L, k, p, d, v)
    BY <1>0, <1>3, <1>5, <1>10, <2>2, <2>3, <2>b, TheirsNow
  <2>6. ASSUME Here(a, p) PROVE During(a, n, d, v)'
    <3>1. link'[n].out = link[n].out /\ link'[n].back = link[n].back
      BY <2>1, <2>6, OtherWords DEF SameWords
    <3>2. /\ at = "ack" /\ link[n].back = <<"done">> => v = NONE
          /\ at = "stored" /\ link[n].back = <<"done">> /\ d # NONE => v = d
          /\ at = "block" => job[a].held = NONE /\ link[n].back = <<>>
          /\ at \in {"block", "stored"} => Fresh(link[n].out, d, s, t)
          /\ \A b \in Pool : Serves(b, n) => job[b].held = NONE
      BY <1>0, <1>3, <1>5, <1>10, <2>2, <2>3, <2>6, <2>b, TheirsNow
    <3>3. \A b \in Pool : Serves(b, n)' => job'[b].held = NONE
      BY <2>1, <2>6, <3>2, OtherServers
    <3>4. at = "block" => job'[a].held = NONE /\ link'[n].back = <<>>
      BY <1>8, <2>6, <3>1, <3>2
    <3>5. /\ at = "ack" /\ link'[n].back = <<"done">> => v = NONE
          /\ at = "stored" /\ link'[n].back = <<"done">> /\ d # NONE => v = d
          /\ at \in {"block", "stored"} => Fresh(link'[n].out, d, s, t)
      BY <3>1, <3>2
    <3> QED
      BY <1>0, <1>4, <2>4, <3>3, <3>4, <3>5, DuringThen
  <2> QED
    BY <1>4, <1>6, <1>7, <1>9, <2>4, <2>5, <2>6, TheirsThen
<1>11. CASE ~Calling(a)
  BY <1>1, <1>9, <1>11, TheirsNot DEF AlmostSame, Calling
<1> QED
  BY <1>9, <1>10, <1>11

-----------------------------------------------------------------------------
(* The steps of the one that serves what is replayed. *)

\* An entry that is replayed is still to come.
LEMMA AfterNow ==
  ASSUME NEW L \in Seq(Entry), NEW k \in 1..Len(L), NEW p, L[k].path = p, NEW d, NEW v, d = NONE => v = NONE
  PROVE  After(L, k, p, d, v)
<1>1. Later(L, k, p)
  <2>1. k \in k..Len(L)
    OBVIOUS
  <2> QED
    BY <2>1 DEF Later
<1> QED
  BY <1>1 DEF After

\* What is to be shown, with d at the slave of a and v at the other one.
LEMMA HelperThen ==
  ASSUME TypeInv, ConnInv, ProtoInv, ConnInv', NEW x \in Pool, Helps(x), NEW n \in Conn, n = job[x].conn,
         NEW a \in Pool, Entered(a, n), NEW p \in Path, NEW d, NEW v, NEW s, NEW t,
         s = SlaveOf(a), t = Peer(a),
         disk'[s][p] = d, disk'[t][p] = v,
         After(job[a].log, job[a].k, p, d, v),
         Result(job[a].log, Len(job[a].log), p, d),
         job[a].at = "ack" /\ link'[n].back = <<"done">> => v = NONE,
         job[a].at = "stored" /\ link'[n].back = <<"done">> /\ d # NONE => v = d,
         job[a].at = "block" => job'[a].held = NONE /\ link'[n].back = <<>>,
         Fresh(link'[n].out, d, s, t),
         job'[x].held = NONE
  PROVE  (Mine(a, p) /\ Theirs(a, p))'
<1>1. Serves(x, n)
  BY HelpsIs
<1>2. x # a
  BY <1>1 DEF Serves, Served, Entered, Calling
<1>3. AlmostSame(a)
  BY <1>2, HelpsIs
<1>5. PICK L, k : L = job[a].log /\ k = job[a].k
  OBVIOUS
<1>7. After(L, k, p, d, v)
  BY <1>5
<1>8. \A b \in Pool : Serves(b, n)' => job'[b].held = NONE
  <2> SUFFICES ASSUME NEW b \in Pool, Serves(b, n)' PROVE job'[b].held = NONE
    OBVIOUS
  <2>1. b = x
    <3>1. AlmostSame(b) => Serves(b, n)
      BY DEF AlmostSame, Serves, Served
    <3> QED
      BY <1>1, <3>1, HelpsIs DEF ConnInv, OneServer
  <2> QED
    BY <2>1
<1>9. /\ job'[a].log = L /\ job'[a].k = k /\ job'[a].conn = n /\ Peer(a)' = t /\ job'[a].at = job[a].at
  BY <1>3, <1>5 DEF AlmostSame, Entered, Peer
<1>10. During(a, n, d, v)'
  BY <1>8, <1>9, DuringThen
<1>11. Theirs(a, p)'
  BY <1>7, <1>9, <1>10, TheirsThen
<1>12. job[a].at \notin {"session", "receive"}
  BY DEF Entered, Calling
<1>13. Mine(a, p)'
  <2>1. PICK at : at = job[a].at
    OBVIOUS
  <2> QED
    BY <1>5, <1>9, <1>12, <2>1, MineThen
<1> QED
  BY <1>11, <1>13

\* What is known before.
LEMMA HelperNow ==
  ASSUME TypeInv, ProtoInv, NEW n \in Conn, NEW a \in Pool, Entered(a, n), NEW p \in Path, About(n, p),
         NEW d, NEW v, NEW s, NEW t, s = SlaveOf(a), t = Peer(a), d = disk[s][p], v = disk[t][p],
         Mine(a, p), Theirs(a, p), ~Lacks(a, p)
  PROVE  /\ Result(job[a].log, Len(job[a].log), p, d) /\ Here(a, p)
         /\ job[a].log \in Seq(Entry) /\ job[a].k \in 1..Len(job[a].log)
         /\ EntryOf(a) = job[a].log[job[a].k] /\ EntryOf(a).path = p
         /\ s \in Slave /\ t \in Slave /\ d \in File /\ v \in File
         /\ After(job[a].log, job[a].k, p, d, v)
         /\ job[a].at = "block" => job[a].held = NONE
         /\ job[a].at \in {"block", "stored"} => Fresh(link[n].out, d, s, t)
         /\ \A b \in Pool : Serves(b, n) => job[b].held = NONE
<1>1. Calling(a) /\ job[a].conn = n /\ job[a].at \notin {"session", "receive"}
  BY DEF Entered, Calling
<1>2. EntryOf(a).path = p /\ job[a].k \in 1..Len(job[a].log) /\ EntryOf(a) = job[a].log[job[a].k]
  BY CallerAbout DEF EntryOf
<1>3. Here(a, p)
  BY <1>2 DEF Here
<1>4. job[a].log \in Seq(Entry) /\ t \in Slave /\ s \in Slave
  BY <1>1, FitsNow, SlaveType DEF Fits, Peer, Calling
<1>5. d \in File /\ v \in File
  BY <1>4 DEF TypeInv, DiskOK
<1>6. Result(job[a].log, Len(job[a].log), p, d)
  BY <1>1, MineNow
<1> QED
  BY <1>1, <1>2, <1>3, <1>4, <1>5, <1>6, TheirsNow

LEMMA ServeRmValue ==
  ASSUME TypeInv, ConnInv, ProtoInv, ConnInv', NEW x \in Pool, ServeRm(x), NEW n \in Conn, n = job[x].conn,
         NEW a \in Pool, Entered(a, n), NEW p \in Path, Touches(n, p), Mine(a, p), Theirs(a, p),
         ~Lacks(a, p)
  PROVE  (Mine(a, p) /\ Theirs(a, p))'
<1>1. PICK s, t : s = SlaveOf(a) /\ t = Peer(a)
  OBVIOUS
<1>2. PICK d, v : d = disk[s][p] /\ v = disk[t][p]
  OBVIOUS
<1>3. /\ Result(job[a].log, Len(job[a].log), p, d)
      /\ job[a].k \in 1..Len(job[a].log) /\ EntryOf(a) = job[a].log[job[a].k] /\ EntryOf(a).path = p
      /\ s \in Slave /\ t \in Slave /\ job[a].log \in Seq(Entry)
  BY <1>1, <1>2, HelperNow DEF Touches
<1>4. Helps(x)
  BY DEF Helps
<1>5. Serves(x, n) /\ SlaveOf(x) = t
  BY <1>1, <1>4, HelpsIs DEF ConnInv, ServedThere
<1>6. /\ job[x].at = "serve" /\ link[n].out # <<>> /\ First(x).kind = "update" /\ First(x).entry.type = "RM"
      /\ job'[x] = Serving(x)
      /\ disk' = [disk EXCEPT ![SlaveOf(x)][First(x).entry.path] = NONE]
      /\ Carries(n, Tail(link[n].out), Append(link[n].back, "done"), link[n].ends)
  BY ServeRmDoes
<1>7. job[a].at = "ack" /\ link[n].out = <<Update(EntryOf(a))>>
  BY <1>5, <1>6, CallerOfServe DEF Sent, First
<1>8. First(x).entry = EntryOf(a) /\ Tail(link[n].out) = <<>>
  <2>1. First(x) = Update(EntryOf(a))
    BY <1>7, HeadTail DEF First
  <2> QED
    BY <1>7, <2>1, HeadTail, KindsAre
<1>9. /\ First(x).entry.path = p /\ SlaveOf(x) \in Slave
      /\ disk'[SlaveOf(x)][First(x).entry.path] = NONE
      /\ \A r \in Slave, q \in Path : r # SlaveOf(x) \/ q # First(x).entry.path => disk'[r][q] = disk[r][q]
  <2>1. First(x).entry.path = p /\ First(x).entry.path \in Path /\ SlaveOf(x) \in Slave
    BY <1>3, <1>5, <1>8
  <2>2. disk' = [disk EXCEPT ![SlaveOf(x)][First(x).entry.path] = NONE]
    BY <1>6
  <2> QED
    BY <2>1, <2>2 DEF TypeInv, DiskOK
<1>10. disk'[t][p] = NONE /\ (s # t => disk'[s][p] = d)
  BY <1>2, <1>3, <1>5, <1>9
<1>11. PICK e : e = disk'[s][p]
  OBVIOUS
<1>12. Result(job[a].log, Len(job[a].log), p, e)
  <2>1. CASE s # t
    BY <1>3, <1>10, <1>11, <2>1
  <2>2. CASE s = t
    <3>1. HasRm(job[a].log, Len(job[a].log), p) /\ HasIn(job[a].log, Len(job[a].log), p)
      BY <1>3, <1>6, <1>8 DEF HasRm, HasIn
    <3> QED
      BY <1>10, <1>11, <2>2, <3>1 DEF Result
  <2> QED
    BY <2>1, <2>2
<1>13. link'[n].out = <<>>
  BY <1>6, <1>8 DEF Carries
<1>14. Fresh(link'[n].out, e, s, t)
  BY <1>13, FreshIs
<1>16. After(job[a].log, job[a].k, p, e, NONE)
  BY <1>3, AfterNow
<1>15. job'[x].held = NONE
  BY <1>6, ServingIs
<1> QED
  BY <1>1, <1>4, <1>7, <1>10, <1>11, <1>12, <1>14, <1>15, <1>16, HelperThen

LEMMA ServePutValue ==
  ASSUME TypeInv, ConnInv, ProtoInv, ConnInv', NEW x \in Pool, ServePut(x), NEW n \in Conn, n = job[x].conn,
         NEW a \in Pool, Entered(a, n), NEW p \in Path, Touches(n, p), Mine(a, p), Theirs(a, p),
         ~Lacks(a, p)
  PROVE  (Mine(a, p) /\ Theirs(a, p))'
<1>1. PICK s, t : s = SlaveOf(a) /\ t = Peer(a)
  OBVIOUS
<1>2. PICK d, v : d = disk[s][p] /\ v = disk[t][p]
  OBVIOUS
<1>3. Result(job[a].log, Len(job[a].log), p, d) /\ After(job[a].log, job[a].k, p, d, v)
  BY <1>1, <1>2, HelperNow DEF Touches
<1>4. Helps(x)
  BY DEF Helps
<1>5. Serves(x, n)
  BY <1>4, HelpsIs
<1>6. /\ job[x].at = "serve" /\ link[n].out # <<>> /\ First(x).kind = "update" /\ job'[x].held = NONE /\ UNCHANGED disk
      /\ Carries(n, Tail(link[n].out), Append(link[n].back, "ready"), link[n].ends)
  BY ServePutDoes
<1>7. job[a].at = "ack" /\ link[n].out = <<Update(EntryOf(a))>> /\ link[n].back = <<>>
  BY <1>5, <1>6, CallerOfServe DEF Sent, First
<1>8. link'[n].out = <<>> /\ link'[n].back = <<"ready">>
  BY <1>6, <1>7, HeadTail, AppendOne DEF Carries
<1>9. link'[n].back # <<"done">> /\ Fresh(link'[n].out, d, s, t)
  BY <1>8, FreshIs
<1>10. disk'[s][p] = d /\ disk'[t][p] = v
  BY <1>2, <1>6
<1> QED
  BY <1>1, <1>3, <1>4, <1>6, <1>7, <1>9, <1>10, HelperThen

LEMMA NoSuchFileValue ==
  ASSUME TypeInv, ConnInv, ProtoInv, ConnInv', NEW x \in Pool, NoSuchFile(x), NEW n \in Conn, n = job[x].conn,
         NEW a \in Pool, Entered(a, n), NEW p \in Path, Touches(n, p), Mine(a, p), Theirs(a, p),
         ~Lacks(a, p)
  PROVE  (Mine(a, p) /\ Theirs(a, p))'
<1>1. PICK s, t : s = SlaveOf(a) /\ t = Peer(a)
  OBVIOUS
<1>2. PICK d, v : d = disk[s][p] /\ v = disk[t][p]
  OBVIOUS
<1>3. /\ Result(job[a].log, Len(job[a].log), p, d) /\ After(job[a].log, job[a].k, p, d, v)
      /\ job[a].at \in {"block", "stored"} => Fresh(link[n].out, d, s, t)
      /\ d \in File
  BY <1>1, <1>2, HelperNow DEF Touches
<1>4. Helps(x)
  BY DEF Helps
<1>5. Serves(x, n)
  BY <1>4, HelpsIs
<1>6. /\ job[x].at = "header" /\ link[n].out # <<>> /\ ~First(x).found /\ UNCHANGED disk /\ job'[x] = Serving(x)
      /\ Carries(n, Tail(link[n].out), Append(link[n].back, "done"), link[n].ends)
  BY NoSuchFileDoes
<1>7. /\ link[n].back = <<>>
      /\ \E w \in File : /\ First(x) = Header(w)
                         /\ \/ job[a].at = "stored" /\ Sent(n, Header(w))
                            \/ w \in Full
  BY <1>5, <1>6, HeaderRead
<1>8. PICK w \in File : First(x) = Header(w) /\ ((job[a].at = "stored" /\ Sent(n, Header(w))) \/ w \in Full)
  BY <1>7
<1>9. w = NONE /\ w \notin Full
  BY <1>6, <1>8, HeaderTells, CoherenceAssumption DEF Full
<1>10. job[a].at = "stored" /\ link[n].out = <<Header(w)>>
  BY <1>8, <1>9 DEF Sent
<1>11. d = NONE
  <2>1. Header(w) = Header(d)
    BY <1>3, <1>10, FreshIs, HeaderIs
  <2> QED
    BY <1>3, <1>9, <2>1, SameHeader
<1>12. link'[n].out = <<>>
  BY <1>6, <1>10, HeadTail DEF Carries
<1>13. Fresh(link'[n].out, d, s, t)
  BY <1>12, FreshIs
<1>14. disk'[s][p] = d /\ disk'[t][p] = v
  BY <1>2, <1>6
<1>15. job'[x].held = NONE
  BY <1>6, ServingIs
<1> QED
  BY <1>1, <1>3, <1>4, <1>10, <1>11, <1>13, <1>14, <1>15, HelperThen

\* A file that is there stays there: no RM is the last entry about it.
LEMMA ResultThere ==
  ASSUME NEW L, NEW m, NEW p, NEW d, Result(L, m, p, d), d # NONE, NEW e, e # NONE, HasIn(L, m, p)
  PROVE  Result(L, m, p, e)
BY DEF Result

LEMMA HasNow ==
  ASSUME NEW L, NEW k \in 1..Len(L), NEW p, L[k].path = p
  PROVE  HasIn(L, Len(L), p)
BY DEF HasIn

LEMMA OpenFileValue ==
  ASSUME TypeInv, ConnInv, ProtoInv, ConnInv', NEW x \in Pool, OpenFile(x), NEW n \in Conn, n = job[x].conn,
         NEW a \in Pool, Entered(a, n), NEW p \in Path, Touches(n, p), Mine(a, p), Theirs(a, p),
         ~Lacks(a, p)
  PROVE  (Mine(a, p) /\ Theirs(a, p))'
<1>1. PICK s, t : s = SlaveOf(a) /\ t = Peer(a)
  OBVIOUS
<1>2. PICK d, v : d = disk[s][p] /\ v = disk[t][p]
  OBVIOUS
<1>3. /\ Result(job[a].log, Len(job[a].log), p, d) /\ s \in Slave /\ t \in Slave
      /\ job[a].log \in Seq(Entry) /\ job[a].k \in 1..Len(job[a].log)
      /\ EntryOf(a) = job[a].log[job[a].k] /\ EntryOf(a).path = p
      /\ job[a].at = "block" => job[a].held = NONE
      /\ job[a].at \in {"block", "stored"} => Fresh(link[n].out, d, s, t)
      /\ d \in File
  BY <1>1, <1>2, HelperNow DEF Touches
<1>4. Helps(x)
  BY DEF Helps
<1>5. Serves(x, n) /\ SlaveOf(x) = t
  BY <1>1, <1>4, HelpsIs DEF ConnInv, ServedThere
<1>6. /\ job[x].at = "header" /\ link[n].out # <<>> /\ First(x).found /\ Others(x)
      /\ \/ /\ First(x).blocks = 0 /\ job'[x] = Serving(x)
            /\ Carries(n, Tail(link[n].out), Append(link[n].back, "done"), link[n].ends)
         \/ /\ First(x).blocks = 1 /\ job'[x].held = NONE
            /\ Carries(n, Tail(link[n].out), link[n].back, link[n].ends)
      /\ job[x].path \in Path /\ SlaveOf(x) \in Slave
      /\ disk' = [disk EXCEPT ![SlaveOf(x)][job[x].path] = EMPTY]
  BY OpenFileDoes
<1>7. /\ job[x].path = p /\ link[n].back = <<>>
      /\ \E w \in File : /\ First(x) = Header(w)
                         /\ job[a].at \in {"block", "stored"}
                         /\ \/ job[a].at = "stored" /\ Sent(n, Header(w))
                            \/ w \in Full /\ Sent(n, Header(w))
                            \/ w \in Full /\ \E u \in Full : link[n].out = <<Header(w), Block(u)>>
  BY <1>3, <1>5, <1>6, HeaderRead
<1>8. PICK w \in File : /\ First(x) = Header(w)
                        /\ job[a].at \in {"block", "stored"}
                        /\ \/ job[a].at = "stored" /\ Sent(n, Header(w))
                           \/ w \in Full /\ Sent(n, Header(w))
                           \/ w \in Full /\ \E u \in Full : link[n].out = <<Header(w), Block(u)>>
  BY <1>7
<1>9. Header(w) = Header(d)
  <2>1. CASE link[n].out = <<Header(w)>>
    BY <1>3, <1>8, <2>1, FreshIs, HeaderIs
  <2>2. CASE \E u \in Full : link[n].out = <<Header(w), Block(u)>>
    <3>1. Fresh(<<Header(w)>>, d, s, t)
      BY <1>3, <1>8, <2>2, FreshTwo
    <3> QED
      BY <3>1, FreshIs, HeaderIs
  <2> QED
    BY <1>8, <2>1, <2>2 DEF Sent
<1>10. w # NONE /\ d # NONE /\ (w = EMPTY <=> d = EMPTY) /\ EMPTY # NONE
  BY <1>3, <1>6, <1>8, <1>9, SameHeader, HeaderTells, CoherenceAssumption
<1>11. disk'[t][p] = EMPTY /\ (s # t => disk'[s][p] = d)
  <2>1. /\ disk'[SlaveOf(x)][job[x].path] = EMPTY
        /\ \A r \in Slave, q \in Path : r # SlaveOf(x) \/ q # job[x].path => disk'[r][q] = disk[r][q]
    BY <1>6 DEF TypeInv, DiskOK
  <2> QED
    BY <1>2, <1>3, <1>5, <1>7, <2>1
<1>12. PICK e : e = disk'[s][p]
  OBVIOUS
<1>13. e # NONE /\ (s # t => e = d) /\ (s = t => e = EMPTY)
  BY <1>10, <1>11, <1>12
<1>14. Result(job[a].log, Len(job[a].log), p, e) /\ After(job[a].log, job[a].k, p, e, EMPTY)
  BY <1>3, <1>10, <1>13, ResultThere, HasNow, AfterNow
<1>15. job'[x].held = NONE
  BY <1>6, ServingIs
<1>16. job[a].at = "block" => job'[a].held = NONE
  <2>1. x # a
    BY <1>5 DEF Serves, Served, Entered, Calling
  <2> QED
    BY <1>3, <1>6, <2>1 DEF Others
<1>17. CASE First(x).blocks = 0
  <2>1. w = EMPTY /\ w \notin Full
    BY <1>6, <1>8, <1>10, <1>17, HeaderTells, CoherenceAssumption, SMTT(30) DEF Full
  <2>2. job[a].at = "stored" /\ link[n].out = <<Header(w)>>
    BY <1>8, <2>1, SMTT(30) DEF Sent
  <2>3. link'[n].out = <<>>
    BY <1>6, <2>2, HeadTail DEF Carries
  <2>4. Fresh(link'[n].out, e, s, t)
    BY <2>3, FreshIs
  <2>5. e = EMPTY
    BY <1>10, <1>13, <2>1
  <2> QED
    BY <1>1, <1>4, <1>11, <1>12, <1>14, <1>15, <1>16, <2>2, <2>4, <2>5, HelperThen
<1>18. CASE First(x).blocks = 1
  <2>1. link'[n].out = Tail(link[n].out) /\ link'[n].back = <<>>
    BY <1>6, <1>7, <1>18 DEF Carries
  <2>2. Fresh(link'[n].out, e, s, t)
    <3>1. CASE link[n].out = <<Header(w)>>
      <4>1. link'[n].out = <<>>
        BY <2>1, <3>1, HeadTail
      <4> QED
        BY <4>1, FreshIs
    <3>2. ASSUME NEW u \in Full, link[n].out = <<Header(w), Block(u)>> PROVE Fresh(link'[n].out, e, s, t)
      <4>1. link'[n].out = <<Block(u)>>
        BY <2>1, <3>2, HeadTail
      <4>2. Fresh(<<Block(u)>>, d, s, t)
        BY <1>3, <1>8, <3>2, FreshTwo
      <4>3. Block(u).kind = "block" /\ (s # t => Block(u).data = e)
        BY <1>13, <4>2, FreshIs, KindsAre
      <4>4. Fresh(<<Block(u)>>, e, s, t)
        BY <4>3, FreshIs
      <4> QED
        BY <4>1, <4>4
    <3> QED
      BY <1>8, <3>1, <3>2 DEF Sent
  <2>3. link'[n].back # <<"done">> /\ link'[n].back = <<>>
    BY <2>1
  <2> QED
    BY <1>1, <1>4, <1>11, <1>12, <1>14, <1>15, <1>16, <2>2, <2>3, HelperThen
<1> QED
  BY <1>6, <1>17, <1>18

LEMMA StoreBlockValue ==
  ASSUME TypeInv, ConnInv, ProtoInv, ConnInv', NEW x \in Pool, StoreBlock(x), NEW n \in Conn, n = job[x].conn,
         NEW a \in Pool, Entered(a, n), NEW p \in Path, Touches(n, p), Mine(a, p), Theirs(a, p),
         ~Lacks(a, p)
  PROVE  (Mine(a, p) /\ Theirs(a, p))'
<1>1. PICK s, t : s = SlaveOf(a) /\ t = Peer(a)
  OBVIOUS
<1>2. PICK d, v : d = disk[s][p] /\ v = disk[t][p]
  OBVIOUS
<1>3. /\ Result(job[a].log, Len(job[a].log), p, d) /\ s \in Slave /\ t \in Slave
      /\ job[a].log \in Seq(Entry) /\ job[a].k \in 1..Len(job[a].log)
      /\ EntryOf(a) = job[a].log[job[a].k] /\ EntryOf(a).path = p
      /\ job[a].at \in {"block", "stored"} => Fresh(link[n].out, d, s, t)
      /\ \A b \in Pool : Serves(b, n) => job[b].held = NONE
  BY <1>1, <1>2, HelperNow DEF Touches
<1>4. Helps(x)
  BY DEF Helps
<1>5. Serves(x, n) /\ SlaveOf(x) = t
  BY <1>1, <1>4, HelpsIs DEF ConnInv, ServedThere
<1>6. /\ job[x].at = "storing" /\ link[n].out # <<>> /\ job'[x] = Serving(x)
      /\ Carries(n, Tail(link[n].out), Append(link[n].back, "done"), link[n].ends)
      /\ job[x].path \in Path /\ SlaveOf(x) \in Slave
      /\ disk' = IF job[x].held = NONE THEN [disk EXCEPT ![SlaveOf(x)][job[x].path] = First(x).data] ELSE disk
  BY StoreBlockDoes
<1>7. job[x].path = p /\ job[a].at = "stored" /\ \E w \in Full : Sent(n, Block(w))
  BY <1>3, <1>5, <1>6, CallerOfStoring
<1>8. PICK w \in Full : link[n].out = <<Block(w)>>
  BY <1>7 DEF Sent
<1>9. First(x).data = w /\ (s # t => w = d)
  <2>1. First(x) = Block(w)
    BY <1>8, HeadTail DEF First
  <2>2. Block(w).kind = "block" /\ Block(w).data = w
    BY DEF Block
  <2>3. s # t => w = d
    BY <1>3, <1>7, <1>8, <2>2, FreshIs
  <2> QED
    BY <2>1, <2>2, <2>3
<1>10. job[x].held = NONE
  BY <1>3, <1>5
<1>11. disk'[t][p] = w /\ (s # t => disk'[s][p] = d)
  <2>1. disk' = [disk EXCEPT ![SlaveOf(x)][job[x].path] = First(x).data]
    BY <1>6, <1>10
  <2>2. /\ disk'[SlaveOf(x)][job[x].path] = First(x).data
        /\ \A r \in Slave, q \in Path : r # SlaveOf(x) \/ q # job[x].path => disk'[r][q] = disk[r][q]
    BY <1>6, <2>1 DEF TypeInv, DiskOK
  <2> QED
    BY <1>2, <1>3, <1>5, <1>7, <1>9, <2>2
<1>12. PICK e : e = disk'[s][p]
  OBVIOUS
<1>13. w # NONE /\ e = w
  <2>1. w # NONE
    BY CoherenceAssumption DEF Full
  <2> QED
    BY <1>9, <1>11, <1>12, <2>1
<1>14. d # NONE
  <2>1. CASE s # t
    BY <1>9, <1>13, <2>1
  <2>2. CASE s = t
    BY <1>2, <1>5, <1>6, <1>7, <1>10, <2>2, FitsNow DEF Fits
  <2> QED
    BY <2>1, <2>2
<1>15. Result(job[a].log, Len(job[a].log), p, e) /\ After(job[a].log, job[a].k, p, e, w)
  BY <1>3, <1>13, <1>14, ResultThere, HasNow, AfterNow
<1>16. job'[x].held = NONE
  BY <1>6, ServingIs
<1>17. link'[n].out = <<>>
  BY <1>6, <1>8, HeadTail DEF Carries
<1>18. Fresh(link'[n].out, e, s, t)
  BY <1>17, FreshIs
<1> QED
  BY <1>1, <1>4, <1>7, <1>11, <1>12, <1>13, <1>15, <1>16, <1>18, HelperThen

\* Who serves refuses no file that its own slave replays; another slave lacks it then.
LEMMA RefuseFileValue ==
  ASSUME TypeInv, ConnInv, ProtoInv, ConnInv', NEW x \in Pool, RefuseFile(x), NEW n \in Conn, n = job[x].conn,
         NEW a \in Pool, Entered(a, n), NEW p \in Path, Touches(n, p), Mine(a, p), Theirs(a, p),
         ~Lacks(a, p)
  PROVE  (Mine(a, p) /\ Theirs(a, p))'
<1>1. PICK s, t : s = SlaveOf(a) /\ t = Peer(a)
  OBVIOUS
<1>2. PICK d, v : d = disk[s][p] /\ v = disk[t][p]
  OBVIOUS
<1>3. /\ Result(job[a].log, Len(job[a].log), p, d) /\ EntryOf(a).path = p
      /\ job[a].at \in {"block", "stored"} => Fresh(link[n].out, d, s, t)
      /\ d \in File
  BY <1>1, <1>2, HelperNow DEF Touches
<1>4. Helps(x)
  BY DEF Helps
<1>5. Serves(x, n) /\ SlaveOf(x) = t /\ AlmostSame(a)
  <2>1. Serves(x, n)
    BY <1>4, HelpsIs
  <2>2. x # a
    BY <2>1 DEF Serves, Served, Entered, Calling
  <2> QED
    BY <1>1, <1>4, <2>1, <2>2, HelpsIs DEF ConnInv, ServedThere
<1>6. /\ job[x].at = "header" /\ link[n].out # <<>> /\ First(x).found /\ UNCHANGED disk
      /\ disk[SlaveOf(x)][job[x].path] = NONE
      /\ refused' = refused \cup {<<SlaveOf(x), job[x].path>>}
  BY RefuseFileDoes
<1>7. /\ job[x].path = p
      /\ \E w \in File : /\ First(x) = Header(w)
                         /\ job[a].at \in {"block", "stored"}
                         /\ \/ Sent(n, Header(w))
                            \/ \E u \in Full : link[n].out = <<Header(w), Block(u)>>
  BY <1>3, <1>5, <1>6, HeaderRead
<1>8. PICK w \in File : /\ First(x) = Header(w)
                        /\ job[a].at \in {"block", "stored"}
                        /\ \/ Sent(n, Header(w))
                           \/ \E u \in Full : link[n].out = <<Header(w), Block(u)>>
  BY <1>7
<1>9. Header(w) = Header(d)
  <2>1. CASE link[n].out = <<Header(w)>>
    BY <1>3, <1>8, <2>1, FreshIs, HeaderIs
  <2>2. CASE \E u \in Full : link[n].out = <<Header(w), Block(u)>>
    <3>1. Fresh(<<Header(w)>>, d, s, t)
      BY <1>3, <1>8, <2>2, FreshTwo
    <3> QED
      BY <3>1, FreshIs, HeaderIs
  <2> QED
    BY <1>8, <2>1, <2>2 DEF Sent
<1>10. d # NONE
  BY <1>3, <1>6, <1>8, <1>9, SameHeader, HeaderTells
<1>11. s # t
  BY <1>2, <1>5, <1>6, <1>7, <1>10
<1>12. Lacks(a, p)'
  <2>1. Peer(a)' = t
    BY <1>1, <1>5 DEF AlmostSame, Peer
  <2>2. <<t, p>> \in refused'
    BY <1>5, <1>6, <1>7
  <2> QED
    BY <1>1, <1>11, <2>1, <2>2 DEF Lacks, SlaveOf
<1>13. Mine(a, p)'
  BY <1>1, <1>2, <1>3, <1>5, <1>6, MineStays DEF AlmostSame, Entered, Calling
<1> QED
  BY <1>12, <1>13, TheirsLacks

\* And when the other slave lacks the file.
LEMMA LacksValue ==
  ASSUME TypeInv, ConnInv, NEW x \in Pool, Helps(x), NEW n \in Conn, n = job[x].conn,
         NEW a \in Pool, Entered(a, n), NEW p \in Path, Mine(a, p), Lacks(a, p)
  PROVE  (Mine(a, p) /\ Theirs(a, p))'
<1>1. PICK s \in Slave : s = SlaveOf(a)
  BY SlaveType
<1>2. PICK d : d = disk[s][p]
  OBVIOUS
<1>3. Serves(x, n)
  BY HelpsIs
<1>4. AlmostSame(a) /\ SlaveOf(x) # s
  <2>1. x # a
    BY <1>3 DEF Serves, Served, Entered, Calling
  <2>2. SlaveOf(x) = Peer(a)
    BY <1>3 DEF ConnInv, ServedThere
  <2> QED
    BY <1>1, <2>1, <2>2, HelpsIs DEF Lacks
<1>5. disk'[s][p] = d
  BY <1>1, <1>2, <1>4, HelpsWrites
<1>6. Mine(a, p)'
  <2>1. PICK L, k, at : L = job[a].log /\ k = job[a].k /\ at = job[a].at
    OBVIOUS
  <2>2. at \notin {"session", "receive"}
    BY <2>1 DEF Entered, Calling
  <2>3. Result(L, Len(L), p, d)
    BY <1>1, <1>2, <2>1, <2>2, MineNow
  <2>4. job'[a].log = L /\ job'[a].k = k /\ job'[a].at = at
    BY <1>4, <2>1 DEF AlmostSame
  <2> QED
    BY <1>1, <1>5, <2>2, <2>3, <2>4, MineThen
<1>7. Lacks(a, p)'
  <2>1. Peer(a)' = Peer(a)
    BY <1>4 DEF AlmostSame, Peer
  <2>2. refused \subseteq refused'
    BY RefusedGrows DEF Moves
  <2> QED
    BY <2>1, <2>2, LacksStays
<1> QED
  BY <1>6, <1>7, TheirsLacks

\* Whatever the one that serves does.
LEMMA HelpsValue ==
  ASSUME TypeInv, ConnInv, ProtoInv, ConnInv', NEW x \in Pool, Helps(x), job[x].conn \in Conn,
         NEW a \in Pool, Entered(a, job[x].conn), NEW p \in Path, Touches(job[x].conn, p),
         Mine(a, p), Theirs(a, p)
  PROVE  (Mine(a, p) /\ Theirs(a, p))'
<1>1. PICK n \in Conn : n = job[x].conn
  OBVIOUS
<1>2. ~ServeBye(x)
  <2> SUFFICES ASSUME ServeBye(x) PROVE FALSE
    OBVIOUS
  <2>1. job[x].at = "serve" /\ link[n].out # <<>> /\ First(x).kind = "bye"
    BY <1>1, ServeByeDoes
  <2>2. link[n].out = <<Update(EntryOf(a))>>
    BY <1>1, <2>1, CallerOfServe, HelpsIs DEF Sent, First
  <2>3. First(x) = Update(EntryOf(a))
    BY <1>1, <2>2, HeadTail DEF First
  <2> QED
    BY <2>1, <2>3, KindsAre
<1>3. CASE Lacks(a, p)
  BY <1>1, <1>3, LacksValue
<1>4. CASE ~Lacks(a, p)
  BY <1>1, <1>2, <1>4, ServeRmValue, ServePutValue, NoSuchFileValue, OpenFileValue, RefuseFileValue,
     StoreBlockValue DEF Helps
<1> QED
  BY <1>3, <1>4

-----------------------------------------------------------------------------
(* The steps of the one whose session has changed the file. *)

LEMMA RmValue ==
  ASSUME TypeInv, NEW a \in Pool, Operation(a), EntryOf(a).type = "RM", NEW p \in Path, Mine(a, p)
  PROVE  Mine(a, p)'
<1>1. PICK s, L, k : s = SlaveOf(a) /\ L = job[a].log /\ k = job[a].k
  OBVIOUS
<1>2. PICK d : d = disk[s][p]
  OBVIOUS
<1>3. /\ job[a].at = "session" /\ k <= Len(L) /\ EntryOf(a).path \in Path
      /\ job'[a].at = "session" /\ job'[a].k = k + 1 /\ job'[a].log = L
      /\ disk' = [disk EXCEPT ![SlaveOf(a)][EntryOf(a).path] = NONE]
  BY <1>1, RmDoes
<1>4. /\ disk'[SlaveOf(a)][EntryOf(a).path] = NONE
      /\ \A r \in Slave, q \in Path : r # SlaveOf(a) \/ q # EntryOf(a).path => disk'[r][q] = disk[r][q]
  BY <1>3, SlaveType DEF TypeInv, DiskOK
<1>5. PICK m \in Nat : k = m + 1
  <2>1. k - 1 \in Nat /\ k = (k - 1) + 1
    BY <1>1, FitsNow DEF Fits
  <2> QED
    BY <2>1
<1>6. EntryOf(a) = L[m + 1] /\ (k + 1) - 1 = m + 1 /\ k - 1 = m
  BY <1>1, <1>5 DEF EntryOf
<1>7. Result(L, m, p, d)
  BY <1>1, <1>2, <1>3, <1>6, MineNow
<1>8. PICK e : e = disk'[s][p]
  OBVIOUS
<1>9. Result(L, m + 1, p, e)
  <2>1. CASE EntryOf(a).path = p
    <3>1. e = NONE
      BY <1>1, <1>4, <1>8, <2>1
    <3> QED
      BY <1>6, <2>1, <3>1, ResultRm
  <2>2. CASE EntryOf(a).path # p
    <3>1. e = d
      BY <1>1, <1>2, <1>4, <1>8, <2>2, SlaveType
    <3> QED
      BY <1>6, <1>7, <2>2, <3>1, ResultNext
  <2> QED
    BY <2>1, <2>2
<1> QED
  BY <1>1, <1>3, <1>6, <1>8, <1>9, MineThen

LEMMA PutValue ==
  ASSUME TypeInv, NEW a \in Pool, Operation(a), EntryOf(a).type # "RM", NEW p \in Path, Mine(a, p)
  PROVE  Mine(a, p)'
<1>1. PICK s, L, k : s = SlaveOf(a) /\ L = job[a].log /\ k = job[a].k
  OBVIOUS
<1>2. PICK d : d = disk[s][p]
  OBVIOUS
<1>3. /\ job[a].at = "session" /\ k <= Len(L) /\ EntryOf(a).path \in Path
      /\ job'[a].log = L
      /\ \/ /\ job'[a].at = "receive" /\ job'[a].k = k /\ job'[a].held = NONE
            /\ disk' = [disk EXCEPT ![SlaveOf(a)][EntryOf(a).path] = EMPTY]
         \/ /\ job'[a].at = "session" /\ job'[a].k = k + 1
            /\ disk[SlaveOf(a)][EntryOf(a).path] = NONE /\ UNCHANGED disk
  BY <1>1, PutDoes DEF Goes
<1>5. PICK m \in Nat : k = m + 1
  <2>1. k - 1 \in Nat /\ k = (k - 1) + 1
    BY <1>1, FitsNow DEF Fits
  <2> QED
    BY <2>1
<1>6. EntryOf(a) = L[m + 1] /\ (k + 1) - 1 = m + 1 /\ k - 1 = m /\ L[k] = EntryOf(a)
  BY <1>1, <1>5 DEF EntryOf
<1>7. Result(L, m, p, d)
  BY <1>1, <1>2, <1>3, <1>6, MineNow
<1>8. PICK e : e = disk'[s][p]
  OBVIOUS
<1>9. CASE /\ job'[a].at = "receive" /\ job'[a].k = k /\ job'[a].held = NONE
           /\ disk' = [disk EXCEPT ![SlaveOf(a)][EntryOf(a).path] = EMPTY]
  <2>1. /\ disk'[SlaveOf(a)][EntryOf(a).path] = EMPTY
        /\ \A r \in Slave, q \in Path : r # SlaveOf(a) \/ q # EntryOf(a).path => disk'[r][q] = disk[r][q]
    BY <1>3, <1>9, SlaveType DEF TypeInv, DiskOK
  <2>2. EntryOf(a).path = p => e # NONE
    BY <1>1, <1>8, <2>1, CoherenceAssumption
  <2>3. EntryOf(a).path # p => Result(L, k - 1, p, e)
    BY <1>1, <1>2, <1>6, <1>7, <1>8, <2>1, SlaveType
  <2> QED
    BY <1>1, <1>3, <1>6, <1>8, <1>9, <2>2, <2>3, MineThen
<1>10. CASE /\ job'[a].at = "session" /\ job'[a].k = k + 1
            /\ disk[SlaveOf(a)][EntryOf(a).path] = NONE /\ UNCHANGED disk
  <2>1. e = d
    BY <1>2, <1>8, <1>10
  <2>2. Result(L, m + 1, p, e)
    <3>1. CASE EntryOf(a).path = p
      <4>1. e = NONE
        BY <1>1, <1>8, <1>10, <3>1
      <4> QED
        BY <1>6, <1>7, <2>1, <3>1, <4>1, ResultRm
    <3>2. CASE EntryOf(a).path # p
      BY <1>6, <1>7, <2>1, <3>2, ResultNext
    <3> QED
      BY <3>1, <3>2
  <2> QED
    BY <1>1, <1>3, <1>6, <1>8, <1>10, <2>2, MineThen
<1> QED
  BY <1>3, <1>9, <1>10

LEMMA ReceivedValue ==
  ASSUME TypeInv, NEW a \in Pool, NEW v \in Content, Received(a, v), NEW p \in Path, Mine(a, p)
  PROVE  Mine(a, p)'
<1>1. PICK s, L, k : s = SlaveOf(a) /\ L = job[a].log /\ k = job[a].k
  OBVIOUS
<1>2. PICK d : d = disk[s][p]
  OBVIOUS
<1>3. /\ job[a].at = "receive" /\ k <= Len(L) /\ EntryOf(a).path \in Path /\ EntryOf(a).type = "PUT"
      /\ job'[a].at = "session" /\ job'[a].k = k + 1 /\ job'[a].log = L
      /\ disk' = IF job[a].held = NONE THEN [disk EXCEPT ![SlaveOf(a)][EntryOf(a).path] = v] ELSE disk
  BY <1>1, ReceivedDoes DEF Goes
<1>4. /\ job[a].held = NONE => disk'[SlaveOf(a)][EntryOf(a).path] = v
      /\ \A r \in Slave, q \in Path : r # SlaveOf(a) \/ q # EntryOf(a).path => disk'[r][q] = disk[r][q]
  <2>1. CASE job[a].held = NONE
    <3>1. disk' = [disk EXCEPT ![SlaveOf(a)][EntryOf(a).path] = v]
      BY <1>3, <2>1
    <3> QED
      BY <1>3, <3>1, SlaveType DEF TypeInv, DiskOK
  <2>2. CASE job[a].held # NONE
    BY <1>3, <2>2
  <2> QED
    BY <2>1, <2>2
<1>5. PICK m \in Nat : k = m + 1
  <2>1. k - 1 \in Nat /\ k = (k - 1) + 1
    BY <1>1, FitsNow DEF Fits
  <2> QED
    BY <2>1
<1>6. EntryOf(a) = L[m + 1] /\ (k + 1) - 1 = m + 1 /\ k - 1 = m /\ L[k] = EntryOf(a)
  BY <1>1, <1>5 DEF EntryOf
<1>7. Here(a, p) <=> EntryOf(a).path = p
  BY <1>1, <1>3 DEF Here
<1>8. PICK e : e = disk'[s][p]
  OBVIOUS
<1>9. Result(L, m + 1, p, e)
  <2>1. CASE EntryOf(a).path = p
    <3>1. job[a].held = NONE
      BY <1>3, <1>7, <2>1, MineNow
    <3>2. e = v /\ v # NONE
      BY <1>1, <1>4, <1>8, <2>1, <3>1, CoherenceAssumption
    <3> QED
      BY <1>3, <1>6, <2>1, <3>2, ResultPut
  <2>2. CASE EntryOf(a).path # p
    <3>1. e = d
      BY <1>1, <1>2, <1>4, <1>8, <2>2, SlaveType
    <3>2. Result(L, m, p, d)
      BY <1>1, <1>2, <1>3, <1>6, <1>7, <2>2, MineNow
    <3> QED
      BY <1>6, <2>2, <3>1, <3>2, ResultNext
  <2> QED
    BY <2>1, <2>2
<1> QED
  BY <1>1, <1>3, <1>6, <1>8, <1>9, MineThen

LEMMA LocalValue ==
  ASSUME TypeInv, NEW a \in Pool, AtHome(a), Keeps, NEW p \in Path, Holds(a, p)', Mine(a, p)
  PROVE  (Mine(a, p) /\ Theirs(a, p))'
<1>1. Theirs(a, p)'
  BY LocalIs, TheirsNot DEF Aside, Rests
<1>2. job'[a].log = job[a].log /\ job'[a].log # <<>>
  <2>1. job'[a].log # <<>>
    BY DEF Holds
  <2> QED
    BY <2>1, HoldsKeeps
<1>3. PICK L, d : L = job[a].log /\ d = disk[SlaveOf(a)][p]
  OBVIOUS
<1>4. CASE EndSession(a)
  <2>1. job[a].at = "session" /\ job[a].k > Len(L) /\ job'[a].at = "list" /\ UNCHANGED disk
    BY <1>2, <1>3, <1>4, EndSessionDoes
  <2>2. job[a].k - 1 = Len(L)
    BY <1>3, <2>1, FitsNow, SMTT(30) DEF Fits
  <2>3. Result(L, Len(L), p, d)
    BY <1>3, <2>1, <2>2, MineNow
  <2> QED
    BY <1>1, <1>2, <1>3, <2>1, <2>3, MineStays
<1>5. CASE GetList(a)
  <2>1. job[a].at = "list" /\ job'[a].at = "peer" /\ UNCHANGED disk
    BY <1>5, GetListDoes
  <2>2. Result(L, Len(L), p, d)
    BY <1>3, <2>1, MineNow
  <2> QED
    BY <1>1, <1>2, <1>3, <2>1, <2>2, MineStays
<1>6. ~Return(a)
  BY <1>2, ReturnDoes, DeadIs
<1>7. ASSUME NEW log \in Journal, Session(a, log) PROVE FALSE
  <2>1. Holds(a, p)
    BY HoldsKeeps
  <2> QED
    BY <1>7, <2>1, SessionHolds
<1> QED
  BY <1>1, <1>4, <1>5, <1>6, <1>7, RmValue, PutValue, ReceivedValue DEF AtHome

\* And one that a slave, or its own, leaves.
LEMMA LostValue ==
  ASSUME TypeInv, NEW a \in Pool, Loses(a), NEW p \in Path, Holds(a, p)', Mine(a, p)
  PROVE  (Mine(a, p) /\ Theirs(a, p))'
<1>1. job'[a].log # <<>>
  BY DEF Holds
<1>2. PeerLost(a) /\ job'[a] = NextPeer(a)
  <2>1. ~Kill(a) /\ ~ReplayerLost(a) /\ (PeerLost(a) => job'[a] = NextPeer(a))
    BY <1>1, KillDoes, ReplayerLostDoes, PeerLostDoes, DeadIs
  <2>2. ~Stray(a) /\ ~StrayPut(a)
    BY <1>1, StrayDoes, StrayPutDoes, DeadIs
  <2> QED
    BY <2>1, <2>2 DEF Loses
<1>3. Replaying(a) /\ UNCHANGED disk
  BY <1>2, PeerLostDoes
<1>4. job'[a].at = "peer" /\ job'[a].log = job[a].log
  BY <1>2, NextPeerIs
<1>5. PICK L, d : L = job[a].log /\ d = disk[SlaveOf(a)][p]
  OBVIOUS
<1>6. Result(L, Len(L), p, d)
  BY <1>3, <1>5, MineNow DEF Replaying
<1>7. Mine(a, p)'
  BY <1>3, <1>4, <1>5, <1>6, MineStays
<1>8. Theirs(a, p)'
  BY <1>4, TheirsNot DEF Calling
<1> QED
  BY <1>7, <1>8

LEMMA DialValue ==
  ASSUME TypeInv, NEW a \in Pool, Dial(a), NEW p \in Path, Mine(a, p)
  PROVE  (Mine(a, p) /\ Theirs(a, p))'
<1>1. /\ job[a].at = "peer" /\ job'[a].at = "entry" /\ job'[a].k = 1 /\ job'[a].log = job[a].log
      /\ UNCHANGED disk
  BY DialDoes
<1>2. PICK n \in Conn : n = job'[a].conn
  BY DialDoes
<1>3. Unused(n) /\ link'[n].out = <<>>
  BY <1>2, DialDoes DEF Carries
<1>4. PICK L, d : L = job[a].log /\ d = disk[SlaveOf(a)][p]
  OBVIOUS
<1>5. PICK s, t : s = SlaveOf(a) /\ t = Peer(a)'
  OBVIOUS
<1>6. PICK v : v = disk'[t][p]
  OBVIOUS
<1>7. Mine(a, p)'
  <2>1. Result(L, Len(L), p, d)
    BY <1>1, <1>4, MineNow
  <2> QED
    BY <1>1, <1>4, <2>1, MineStays
<1>8. \A b \in Pool : ~Serves(b, n)'
  BY <1>3, DialIs DEF Unused, Serves
<1>9. Fresh(link'[n].out, d, s, t)
  BY <1>3, FreshIs
<1>10. During(a, n, d, v)'
  BY <1>1, <1>5, <1>8, <1>9, DuringThen
<1>11. Theirs(a, p)'
  BY <1>1, <1>2, <1>4, <1>5, <1>6, <1>10, AfterFirst, TheirsThen
<1> QED
  BY <1>7, <1>11

\* What is on its way, from where the one that replays is.
LEMMA CallerIs ==
  ASSUME ProtoInv, NEW a \in Pool, NEW n \in Conn, Entered(a, n)
  PROVE  /\ job[a].at = "open" => Quiets(n)
         /\ job[a].at = "entry" => Quiets(n) \/ Left(n, <<>>)
         /\ job[a].at = "ack" /\ link[n].back # <<>> =>
              \/ Told(n, "done") /\ EntryOf(a).type = "RM"
              \/ Told(n, "ready") /\ EntryOf(a).type = "PUT"
         /\ job[a].at = "stored" /\ link[n].back # <<>> => link[n].back = <<"done">>
<1>1. Step(job[a].at, n, EntryOf(a))
  BY DEF ProtoInv, Entered
<1>2. /\ job[a].at = "open" => Quiets(n)
      /\ job[a].at = "entry" => Quiets(n) \/ Left(n, <<>>)
  BY <1>1 DEF Step
<1>3. job[a].at = "ack" /\ link[n].back # <<>> =>
        \/ Told(n, "done") /\ EntryOf(a).type = "RM"
        \/ Told(n, "ready") /\ EntryOf(a).type = "PUT"
  BY <1>1 DEF Step, AtAck, Sent, LeftTo
<1>4. job[a].at = "stored" /\ link[n].back # <<>> => link[n].back = <<"done">>
  BY <1>1 DEF Step, AtStored, Sent, Both, Quiets, Told, Left
<1> QED
  BY <1>2, <1>3, <1>4

LEMMA EntryWaits ==
  \A a \in Pool : \A n \in Conn : ProtoInv /\ Calling(a) /\ job[a].conn = n /\ job[a].at = "entry" => Waits(n)
BY DEF ProtoInv, Step

LEMMA EntryWaitsThen ==
  (\A a \in Pool : \A n \in Conn : ProtoInv /\ Calling(a) /\ job[a].conn = n /\ job[a].at = "entry" => Waits(n))'
BY EntryWaits, PTL

\* One that replays goes from one place to the next, with at and k those of the next.
LEMMA CallerThen ==
  ASSUME TypeInv, ProtoInv, TypeInv', ProtoInv', NEW a \in Pool, Calls(a), ~SayBye(a),
         NEW n \in Conn, n = job[a].conn, NEW p \in Path, NEW at, NEW k, Goes(a, at, k), UNCHANGED disk,
         NEW L, NEW s, NEW t, NEW d, NEW v, L = job[a].log, s = SlaveOf(a), t = Peer(a),
         d = disk[s][p], v = disk[t][p],
         Mine(a, p), Theirs(a, p), ~Lacks(a, p), After(L, k, p, d, v), k = job[a].k \/ at = "entry",
         k <= Len(L) /\ L[k].path = p =>
           /\ at \in {"ack", "block", "stored"} => link'[n].back = <<>>
           /\ at = "block" => job'[a].held = NONE
           /\ at \in {"block", "stored"} => Fresh(link'[n].out, d, s, t)
  PROVE  (Mine(a, p) /\ Theirs(a, p))'
<1>1. /\ Entered(a, n) /\ Calling(a) /\ Calling(a)' /\ ~Served(a)' /\ Others(a) /\ NoNews(n)
      /\ job'[a].conn = n /\ Peer(a)' = t
  BY CallsIs DEF Entered, Goes, Peer
<1>2. job'[a].at = at /\ job'[a].k = k /\ job'[a].log = L /\ disk'[s][p] = d /\ disk'[t][p] = v
  BY DEF Goes
<1>3. Mine(a, p)'
  <2>1. Result(L, Len(L), p, d)
    BY <1>1, MineNow DEF Calling
  <2>2. at \notin {"session", "receive"}
    BY <1>1, <1>2 DEF Calling
  <2> QED
    BY <1>2, <2>1, <2>2, MineStays
<1>4. ASSUME k <= Len(L), L[k].path = p PROVE During(a, n, d, v)'
  <2>1. \A b \in Pool : Serves(b, n)' => job'[b].held = NONE
    <3> SUFFICES ASSUME NEW b \in Pool, Serves(b, n)' PROVE job'[b].held = NONE
      OBVIOUS
    <3>1. CASE at = "entry"
      <4>1. Waits(n)'
        BY <1>1, <1>2, <3>1, EntryWaitsThen
      <4>2. Served(b)' /\ job'[b].at = "serve"
        BY <4>1 DEF Waits, Serves
      <4> QED
        BY <4>2, ServersHoldThen
    <3>2. CASE k = job[a].k
      <4>1. Here(a, p)
        BY <1>4, <3>2 DEF Here, EntryOf
      <4>2. b # a /\ Serves(b, n)
        BY <1>1 DEF NoNews, Serves
      <4>3. job[b].held = NONE
        BY <1>1, <4>1, <4>2, TheirsNow
      <4> QED
        BY <1>1, <4>2, <4>3 DEF Others
    <3> QED
      BY <3>1, <3>2
  <2>2. (at = "ack" \/ at = "stored") => link'[n].back # <<"done">>
    <3>1. at \in {"ack", "stored"} => link'[n].back = <<>>
      BY <1>4
    <3>2. <<>> # <<"done">>
      OBVIOUS
    <3> QED
      BY <3>1, <3>2
  <2>3. /\ at = "block" => job'[a].held = NONE /\ link'[n].back = <<>>
        /\ at \in {"block", "stored"} => Fresh(link'[n].out, d, s, t)
    BY <1>4
  <2> QED
    BY <1>1, <1>2, <2>1, <2>2, <2>3, DuringThen
<1>5. Theirs(a, p)'
  BY <1>1, <1>2, <1>4, TheirsThen
<1> QED
  BY <1>3, <1>5

\* What is known before.
LEMMA CallerNow ==
  ASSUME TypeInv, NEW a \in Pool, NEW n \in Conn, Entered(a, n), NEW p \in Path, Mine(a, p), Theirs(a, p),
         ~Lacks(a, p),
         NEW L, NEW k, NEW s, NEW t, NEW d, NEW v, L = job[a].log, k = job[a].k, s = SlaveOf(a), t = Peer(a),
         d = disk[s][p], v = disk[t][p]
  PROVE  /\ L \in Seq(Entry) /\ k \in Nat \ {0} /\ Len(L) \in Nat
         /\ s \in Slave /\ t \in Slave /\ d \in File /\ v \in File
         /\ Result(L, Len(L), p, d) /\ After(L, k, p, d, v)
         /\ EntryOf(a) = L[k]
         /\ k <= Len(L) /\ L[k].path = p =>
              /\ job[a].at = "ack" /\ link[n].back = <<"done">> => v = NONE
              /\ job[a].at = "stored" /\ link[n].back = <<"done">> /\ d # NONE => v = d
              /\ job[a].at = "block" => job[a].held = NONE /\ link[n].back = <<>>
              /\ job[a].at \in {"block", "stored"} => Fresh(link[n].out, d, s, t)
<1>1. Calling(a) /\ job[a].conn = n /\ job[a].at \notin {"session", "receive"}
  BY DEF Entered, Calling
<1>2. L \in Seq(Entry) /\ k \in Nat \ {0} /\ Len(L) \in Nat /\ t \in Slave /\ s \in Slave
  BY <1>1, FitsNow, SlaveType DEF Fits, Peer, Calling
<1>3. d \in File /\ v \in File
  BY <1>2 DEF TypeInv, DiskOK
<1>4. Result(L, Len(L), p, d)
  BY <1>1, MineNow
<1>5. EntryOf(a) = L[k] /\ (k <= Len(L) /\ L[k].path = p => Here(a, p))
  BY DEF Here, EntryOf
<1> QED
  BY <1>1, <1>2, <1>3, <1>4, <1>5, TheirsNow

LEMMA SendUpdateValue ==
  ASSUME TypeInv, ConnInv, ProtoInv, TypeInv', ProtoInv', NEW a \in Pool, SendUpdate(a), NEW p \in Path,
         Mine(a, p), Theirs(a, p), ~Lacks(a, p)
  PROVE  (Mine(a, p) /\ Theirs(a, p))'
<1>1. PICK n \in Conn : n = job[a].conn
  BY SendUpdateDoes
<1>2. PICK L, k, s, t : L = job[a].log /\ k = job[a].k /\ s = SlaveOf(a) /\ t = Peer(a)
  OBVIOUS
<1>3. PICK d, v : d = disk[s][p] /\ v = disk[t][p]
  OBVIOUS
<1>4. Calls(a) /\ Entered(a, n)
  BY <1>1, CallsIs DEF Calls
<1>5. /\ job[a].at = "entry" /\ Goes(a, "ack", k) /\ EntryOf(a) \in Entry /\ UNCHANGED disk
      /\ link'[n].out = Append(link[n].out, Update(EntryOf(a))) /\ link'[n].back = link[n].back
  BY <1>1, <1>2, SendUpdateDoes DEF Carries
<1>6. ~SayBye(a)
  <2>1. k <= Len(L) /\ k \in Nat /\ Len(L) \in Nat
    BY <1>2, <1>4, SendUpdateDoes, FitsNow DEF Fits
  <2>2. ~(k > Len(L))
    BY <2>1
  <2>3. ASSUME SayBye(a) PROVE job[a].k > Len(job[a].log)
    BY <1>5, <2>3, SayByeDoes
  <2> QED
    BY <1>2, <2>2, <2>3
<1>7. link'[n].back = <<>>
  BY <1>4, <1>5, CallerIs DEF Quiets, Left
<1>8. After(L, k, p, d, v)
  BY <1>2, <1>3, <1>4, CallerNow
<1> QED
  BY <1>1, <1>2, <1>3, <1>4, <1>5, <1>6, <1>7, <1>8, CallerThen

LEMMA ReadAckValue ==
  ASSUME TypeInv, ConnInv, ProtoInv, TypeInv', ProtoInv', NEW a \in Pool, ReadAck(a), NEW p \in Path,
         Mine(a, p), Theirs(a, p), ~Lacks(a, p)
  PROVE  (Mine(a, p) /\ Theirs(a, p))'
<1>1. PICK n \in Conn : n = job[a].conn
  BY ReadAckDoes
<1>2. PICK L, k, s, t : L = job[a].log /\ k = job[a].k /\ s = SlaveOf(a) /\ t = Peer(a)
  OBVIOUS
<1>3. PICK d, v : d = disk[s][p] /\ v = disk[t][p]
  OBVIOUS
<1>4. Calls(a) /\ Entered(a, n)
  BY <1>1, CallsIs DEF Calls
<1>5. /\ job[a].at = "ack" /\ k <= Len(L) /\ link[n].back # <<>> /\ UNCHANGED disk
      /\ \/ EntryOf(a).type = "RM" /\ Goes(a, "entry", k + 1)
         \/ EntryOf(a).type = "PUT" /\ Goes(a, IF Head(link[n].back) = "ready" THEN "open" ELSE "bye", k)
      /\ link'[n].out = link[n].out
  BY <1>1, <1>2, ReadAckDoes DEF Carries
<1>6. ~SayBye(a)
  BY <1>5, SayByeDoes
<1>7. \/ link[n].back = <<"done">> /\ EntryOf(a).type = "RM"
      \/ link[n].back = <<"ready">> /\ EntryOf(a).type = "PUT"
  BY <1>4, <1>5, CallerIs DEF Told
<1>9. /\ L \in Seq(Entry) /\ k \in Nat \ {0} /\ Len(L) \in Nat
      /\ Result(L, Len(L), p, d) /\ After(L, k, p, d, v) /\ EntryOf(a) = L[k]
      /\ L[k].path = p /\ link[n].back = <<"done">> => v = NONE
  BY <1>2, <1>3, <1>4, <1>5, CallerNow
<1>10. CASE EntryOf(a).type = "RM"
  <2>1. Goes(a, "entry", k + 1)
    BY <1>5, <1>10
  <2>2. link[n].back = <<"done">>
    BY <1>7, <1>10
  <2>3. After(L, k + 1, p, d, v)
    <3>1. CASE L[k].path = p
      <4>1. v = NONE /\ k \in 1..Len(L)
        BY <1>5, <1>9, <2>2, <3>1
      <4> QED
        BY <1>9, <1>10, <3>1, <4>1, AfterRm
    <3>2. CASE L[k].path # p
      BY <1>9, <3>2, AfterNext
    <3> QED
      BY <3>1, <3>2
  <2> QED
    BY <1>1, <1>2, <1>3, <1>4, <1>5, <1>6, <2>1, <2>3, CallerThen
<1>11. CASE EntryOf(a).type = "PUT"
  <2>1. Head(link[n].back) = "ready"
    BY <1>7, <1>11, HeadTail
  <2>2. Goes(a, "open", k)
    BY <1>5, <1>11, <2>1
  <2> QED
    BY <1>1, <1>2, <1>3, <1>4, <1>5, <1>6, <1>9, <2>2, CallerThen
<1> QED
  BY <1>7, <1>10, <1>11

LEMMA SendHeaderValue ==
  ASSUME TypeInv, ConnInv, ProtoInv, TypeInv', ProtoInv', NEW a \in Pool, SendHeader(a), NEW p \in Path,
         Mine(a, p), Theirs(a, p), ~Lacks(a, p)
  PROVE  (Mine(a, p) /\ Theirs(a, p))'
<1>1. PICK n \in Conn : n = job[a].conn
  BY SendHeaderDoes
<1>2. PICK L, k, s, t : L = job[a].log /\ k = job[a].k /\ s = SlaveOf(a) /\ t = Peer(a)
  OBVIOUS
<1>3. PICK d, v : d = disk[s][p] /\ v = disk[t][p]
  OBVIOUS
<1>4. Calls(a) /\ Entered(a, n)
  BY <1>1, CallsIs DEF Calls
<1>5. PICK w : w = disk[SlaveOf(a)][EntryOf(a).path]
  OBVIOUS
<1>6. /\ job[a].at = "open" /\ k <= Len(L) /\ UNCHANGED disk
      /\ Goes(a, IF w \in {NONE, EMPTY} THEN "stored" ELSE "block", k) /\ job'[a].held = NONE
      /\ link'[n].out = Append(link[n].out, Header(w)) /\ link'[n].back = link[n].back /\ w \in File
  BY <1>1, <1>2, <1>5, SendHeaderDoes DEF Carries
<1>7. ~SayBye(a)
  BY <1>6, SayByeDoes
<1>8. link'[n].out = <<Header(w)>> /\ link'[n].back = <<>>
  BY <1>4, <1>6, CallerIs, AppendOne DEF Quiets
<1>9. After(L, k, p, d, v) /\ EntryOf(a) = L[k]
  BY <1>2, <1>3, <1>4, CallerNow
<1>10. L[k].path = p => Fresh(link'[n].out, d, s, t)
  <2> SUFFICES ASSUME L[k].path = p PROVE Fresh(<<Header(w)>>, d, s, t)
    BY <1>8
  <2>1. w = d
    BY <1>2, <1>3, <1>5, <1>9
  <2>2. Header(w).kind # "block" /\ Header(w) = Header(d)
    BY <1>6, <2>1, HeaderIs
  <2> QED
    BY <2>2, FreshIs
<1>11. PICK at : at = IF w \in {NONE, EMPTY} THEN "stored" ELSE "block"
  OBVIOUS
<1>12. Goes(a, at, k) /\ at # "ack"
  BY <1>6, <1>11, SMTT(30)
<1> QED
  BY <1>1, <1>2, <1>3, <1>4, <1>6, <1>7, <1>8, <1>9, <1>10, <1>12, CallerThen

LEMMA SendBlockValue ==
  ASSUME TypeInv, ConnInv, ProtoInv, TypeInv', ProtoInv', NEW a \in Pool, SendBlock(a), NEW p \in Path,
         Mine(a, p), Theirs(a, p), ~Lacks(a, p)
  PROVE  (Mine(a, p) /\ Theirs(a, p))'
<1>1. PICK n \in Conn : n = job[a].conn
  BY SendBlockDoes
<1>2. PICK L, k, s, t : L = job[a].log /\ k = job[a].k /\ s = SlaveOf(a) /\ t = Peer(a)
  OBVIOUS
<1>3. PICK d, v : d = disk[s][p] /\ v = disk[t][p]
  OBVIOUS
<1>4. Calls(a) /\ Entered(a, n)
  BY <1>1, CallsIs DEF Calls
<1>5. /\ job[a].at = "block" /\ k <= Len(L) /\ job[a].path = EntryOf(a).path /\ UNCHANGED disk
      /\ Goes(a, "stored", k)
      /\ \E w \in Readable(a) :
           \/ w = EMPTY /\ UNCHANGED link
           \/ /\ w # EMPTY
              /\ link'[n].out = Append(link[n].out, Block(w)) /\ link'[n].back = link[n].back
  BY <1>1, <1>2, SendBlockDoes DEF Carries
<1>6. ~SayBye(a)
  BY <1>5, SayByeDoes
<1>7. /\ After(L, k, p, d, v) /\ EntryOf(a) = L[k]
      /\ L[k].path = p => job[a].held = NONE /\ link[n].back = <<>> /\ Fresh(link[n].out, d, s, t)
  BY <1>2, <1>3, <1>4, <1>5, CallerNow
<1>8. L[k].path = p => link'[n].back = <<>>
  BY <1>5, <1>7
<1>9. L[k].path = p => Fresh(link'[n].out, d, s, t)
  <2> SUFFICES ASSUME L[k].path = p PROVE Fresh(link'[n].out, d, s, t)
    OBVIOUS
  <2>1. Readable(a) = {d}
    <3>1. job[a].held = NONE /\ job[a].path = p
      BY <1>5, <1>7
    <3>2. Readable(a) = {disk[SlaveOf(a)][job[a].path]}
      <4>1. NONE # EMPTY
        BY CoherenceAssumption
      <4> QED
        BY <3>1, <4>1 DEF Readable
    <3> QED
      BY <1>2, <1>3, <3>1, <3>2
  <2>2. CASE UNCHANGED link
    BY <1>7, <2>2
  <2>3. CASE link'[n].out = Append(link[n].out, Block(d))
    <3>1. PICK out, m : out = link[n].out /\ m = Block(d)
      OBVIOUS
    <3>2. out \in Seq(Message) /\ link'[n].out = Append(out, m)
      BY <2>3, <3>1, LinkIs DEF TypeInv
    <3>3. m.kind = "block" /\ m.data = d
      BY <3>1 DEF Block
    <3>4. Fresh(out, d, s, t)
      BY <1>7, <3>1
    <3>5. /\ Len(Append(out, m)) = Len(out) + 1 /\ Len(out) \in Nat
          /\ Append(out, m)[Len(out) + 1] = m /\ \A i \in 1..Len(out) : Append(out, m)[i] = out[i]
      BY <3>2
    <3>6. \A i \in 1..(Len(out) + 1) : i \in 1..Len(out) \/ i = Len(out) + 1
      BY <3>5
    <3> QED
      BY <3>2, <3>3, <3>4, <3>5, <3>6 DEF Fresh
  <2> QED
    BY <1>5, <2>1, <2>2, <2>3
<1> QED
  BY <1>1, <1>2, <1>3, <1>4, <1>5, <1>6, <1>7, <1>8, <1>9, CallerThen

LEMMA ReadStoredValue ==
  ASSUME TypeInv, ConnInv, ProtoInv, TypeInv', ProtoInv', NEW a \in Pool, ReadStored(a), NEW p \in Path,
         Mine(a, p), Theirs(a, p), ~Lacks(a, p)
  PROVE  (Mine(a, p) /\ Theirs(a, p))'
<1>1. PICK n \in Conn : n = job[a].conn
  BY ReadStoredDoes
<1>2. PICK L, k, s, t : L = job[a].log /\ k = job[a].k /\ s = SlaveOf(a) /\ t = Peer(a)
  OBVIOUS
<1>3. PICK d, v : d = disk[s][p] /\ v = disk[t][p]
  OBVIOUS
<1>4. Calls(a) /\ Entered(a, n)
  BY <1>1, CallsIs DEF Calls
<1>5. /\ job[a].at = "stored" /\ k <= Len(L) /\ link[n].back # <<>> /\ UNCHANGED disk
      /\ Goes(a, "entry", k + 1) /\ EntryOf(a).type = "PUT" /\ link'[n].out = link[n].out
  BY <1>1, <1>2, ReadStoredDoes DEF Carries
<1>6. ~SayBye(a)
  BY <1>5, SayByeDoes
<1>7. link[n].back = <<"done">>
  BY <1>4, <1>5, CallerIs
<1>9. /\ L \in Seq(Entry) /\ k \in Nat \ {0} /\ Len(L) \in Nat
      /\ Result(L, Len(L), p, d) /\ After(L, k, p, d, v) /\ EntryOf(a) = L[k]
      /\ L[k].path = p /\ link[n].back = <<"done">> /\ d # NONE => v = d
  BY <1>2, <1>3, <1>4, <1>5, CallerNow
<1>10. After(L, k + 1, p, d, v)
  <2>1. CASE L[k].path = p
    <3>1. (d # NONE => v = d) /\ k \in 1..Len(L)
      BY <1>5, <1>7, <1>9, <2>1
    <3> QED
      BY <1>5, <1>9, <3>1, AfterPut
  <2>2. CASE L[k].path # p
    BY <1>9, <2>2, AfterNext
  <2> QED
    BY <2>1, <2>2
<1> QED
  BY <1>1, <1>2, <1>3, <1>4, <1>5, <1>6, <1>10, CallerThen

LEMMA SayByeValue ==
  ASSUME TypeInv, ProtoInv, NEW a \in Pool, SayBye(a), NEW p \in Path, Mine(a, p)
  PROVE  (Mine(a, p) /\ Theirs(a, p))'
<1>1. /\ job[a].at \in {"bye", "entry"} /\ UNCHANGED disk
      /\ job'[a].at = "peer" /\ job'[a].log = job[a].log
  <2>1. job'[a] = NextPeer(a) /\ job[a].at \in {"bye", "entry"} /\ UNCHANGED disk
    BY SayByeDoes
  <2> QED
    BY <2>1, NextPeerIs
<1>2. PICK L, d : L = job[a].log /\ d = disk[SlaveOf(a)][p]
  OBVIOUS
<1>3. Result(L, Len(L), p, d)
  BY <1>1, <1>2, MineNow
<1>4. Mine(a, p)'
  BY <1>1, <1>2, <1>3, MineStays
<1>5. Theirs(a, p)'
  BY <1>1, TheirsNot DEF Calling
<1> QED
  BY <1>4, <1>5

LEMMA CallsValue ==
  ASSUME TypeInv, ConnInv, ProtoInv, TypeInv', ProtoInv', NEW a \in Pool, Calls(a), NEW p \in Path,
         Mine(a, p), Theirs(a, p)
  PROVE  (Mine(a, p) /\ Theirs(a, p))'
<1>1. CASE SayBye(a)
  BY <1>1, SayByeValue
<1>2. CASE ~SayBye(a) /\ Lacks(a, p)
  <2>1. PICK L, d : L = job[a].log /\ d = disk[SlaveOf(a)][p]
    OBVIOUS
  <2>2. Calling(a) /\ Calling(a)' /\ Peer(a)' = Peer(a)
    BY <1>2, CallsIs DEF Entered, Peer
  <2>3. UNCHANGED disk /\ job'[a].log = job[a].log
    BY <1>2, SendUpdateDoes, ReadAckDoes, SendHeaderDoes, SendBlockDoes, ReadStoredDoes DEF Calls, Goes
  <2>4. Result(L, Len(L), p, d)
    BY <2>1, <2>2, MineNow DEF Calling
  <2>5. Mine(a, p)'
    BY <2>1, <2>2, <2>3, <2>4, MineStays DEF Calling
  <2>6. refused \subseteq refused'
    BY RefusedGrows DEF Moves
  <2>7. Lacks(a, p)'
    BY <1>2, <2>2, <2>6, LacksStays
  <2> QED
    BY <2>5, <2>7, TheirsLacks
<1>3. CASE ~SayBye(a) /\ ~Lacks(a, p)
  BY <1>3, SendUpdateValue, ReadAckValue, SendHeaderValue, SendBlockValue, ReadStoredValue DEF Calls
<1> QED
  BY <1>1, <1>2, <1>3

\* The first session to record a file finds what was there at first.
LEMMA SessionValue ==
  ASSUME TypeInv, OwnInv, NEW x \in Pool, NEW log \in Journal, Session(x, log), NEW p \in Path,
         changed'[p] = 1, Holds(x, p)'
  PROVE  (Mine(x, p) /\ Theirs(x, p))'
<1>1. changed[p] = 0
  <2>1. changed'[p] = changed[p] + 1 /\ changed[p] \in Nat
    BY SessionHolds
  <2> QED
    BY <2>1
<1>2. \A s \in Slave : disk[s][p] = OLD
  BY <1>1 DEF OwnInv, NobodyYet
<1>3. job'[x].at = "session" /\ job'[x].k = 1 /\ UNCHANGED disk
  BY SessionDoes
<1>4. disk'[SlaveOf(x)][p] = OLD
  BY <1>2, <1>3, SlaveType
<1>5. PICK L : L = job'[x].log
  OBVIOUS
<1>6. Result(L, 1 - 1, p, OLD)
  <2>1. OLD # NONE
    BY CoherenceAssumption
  <2> QED
    BY <2>1 DEF Result, HasIn, RmLast
<1>7. Mine(x, p)'
  BY <1>3, <1>4, <1>5, <1>6, MineThen
<1>8. Theirs(x, p)'
  BY <1>3, TheirsNot DEF Calling
<1> QED
  BY <1>7, <1>8

LEMMA ValueInit ==
  ASSUME Init
  PROVE  ValueInv
BY DEF Init, ValueInv

\* What the one whose session it was does.
LEMMA OwnerValue ==
  ASSUME TypeInv, ConnInv, ProtoInv, TypeInv', ProtoInv', NEW a \in Pool, Moves(a), Keeps, NEW p \in Path,
         Holds(a, p)', Mine(a, p), Theirs(a, p)
  PROVE  (Mine(a, p) /\ Theirs(a, p))'
<1>1. job[a].log # <<>> /\ job'[a].log # <<>>
  <2>1. Holds(a, p)
    BY HoldsKeeps
  <2> QED
    BY <2>1 DEF Holds
<1>2. ~Accept(a)
  BY <1>1, AcceptDoes
<1>3. ~Helps(a)
  BY <1>1, HelpsIs, ServerIs DEF Serves, Served
<1> QED
  BY <1>2, <1>3, LocalValue, DialValue, CallsValue, LostValue DEF Moves

LEMMA ValueNext ==
  ASSUME TypeInv, ConnInv, ProtoInv, OwnInv, ValueInv, TypeInv', ConnInv', ProtoInv', Next
  PROVE  ValueInv'
<1> SUFFICES ASSUME NEW p \in Path, changed'[p] = 1, NEW a \in Pool, Holds(a, p)'
             PROVE  (Mine(a, p) /\ Theirs(a, p))'
  BY DEF ValueInv
<1>1. PICK x \in Pool : Moves(x)
  BY NextIs DEF Moves
<1>2. CASE Keeps
  <2>1. changed[p] = 1 /\ Holds(a, p)
    BY <1>2, HoldsKeeps DEF Keeps
  <2>2. Mine(a, p) /\ Theirs(a, p)
    BY <2>1 DEF ValueInv
  <2>3. CASE x = a
    BY <1>1, <1>2, <2>2, <2>3, OwnerValue
  <2>4. CASE x # a /\ ~Meddles(x, p)
    BY <1>1, <2>2, <2>4, OtherValue
  <2>5. CASE x # a /\ Meddles(x, p)
    <3>1. Helps(x) /\ job[x].conn \in Conn /\ Entered(a, job[x].conn) /\ Touches(job[x].conn, p)
      BY <2>1, <2>5, Meddlers
    <3> QED
      BY <2>2, <3>1, HelpsValue
  <2> QED
    BY <2>3, <2>4, <2>5
<1>3. ASSUME NEW y \in Pool, NEW log \in Journal, Session(y, log) PROVE (Mine(a, p) /\ Theirs(a, p))'
  <2>1. /\ \A b \in Pool \ {y} : Holds(b, p)' <=> Holds(b, p)
        /\ ~Holds(y, p)
        /\ Holds(y, p)' => changed'[p] = changed[p] + 1
        /\ ~Holds(y, p)' => changed'[p] = changed[p]
        /\ changed[p] \in Nat
    BY <1>3, SessionHolds
  <2>2. AtHome(y) /\ Moves(y)
    BY <1>3 DEF AtHome, Moves
  <2>3. CASE a = y
    BY <1>3, <2>3, SessionValue
  <2>4. CASE a # y
    <3>1. Holds(a, p)
      BY <2>1, <2>4
    <3>2. changed[p] # 0
      BY <3>1 DEF OwnInv, NobodyYet
    <3>3. changed[p] = 1
      BY <2>1, <3>2
    <3>4. Mine(a, p) /\ Theirs(a, p)
      BY <3>1, <3>3 DEF ValueInv
    <3>5. ~Helps(y)
      BY <2>2, LocalIs, HelpsIs DEF Aside, Serves
    <3>6. ~Meddles(y, p)
      BY <2>1, <3>5 DEF Meddles
    <3> QED
      BY <2>2, <2>4, <3>4, <3>6, OtherValue
  <2> QED
    BY <2>3, <2>4
<1>4. Keeps \/ \E log \in Journal : Session(x, log)
  BY <1>1, LocalKeeps, CallsKeeps, HelpsKeeps, LosesKeeps DEF Moves
<1> QED
  BY <1>2, <1>3, <1>4

-----------------------------------------------------------------------------
(* The five layers together.                                                  *)

DeliverInv == TypeInv /\ ConnInv /\ ProtoInv /\ OwnInv /\ ValueInv

LEMMA Stutters ==
  ASSUME TypeInv, ConnInv, ProtoInv, OwnInv, ValueInv, UNCHANGED vars
  PROVE  OwnInv' /\ ValueInv'
<1>1. OwnInv'
  BY DEF vars, OwnInv, OneHolder, NobodyYet, ByHolder, Holds, Touches, Live, About, Asks, Serves, Served, In,
         Entered, Calling
<1>2. ValueInv'
  BY DEF vars, ValueInv, Holds, Mine, Theirs, Here, EntryOf, Done, Calling, During, Peer, Serves, Served,
         Lacks
<1> QED
  BY <1>1, <1>2

LEMMA DeliverInit ==
  ASSUME Init
  PROVE  DeliverInv
BY TypeInit, ConnInit, ProtoInit, OwnInit, ValueInit DEF DeliverInv

LEMMA DeliverNext ==
  ASSUME DeliverInv, [Next]_vars
  PROVE  DeliverInv'
<1>1. TypeInv /\ ConnInv /\ ProtoInv /\ OwnInv /\ ValueInv
  BY DEF DeliverInv
<1>2. TypeInv'
  BY <1>1, TypeNext
<1>3. ConnInv'
  BY <1>1, ConnNext
<1>4. ProtoInv'
  BY <1>1, <1>3, ProtoNext
<1>5. CASE Next
  BY <1>1, <1>2, <1>3, <1>4, <1>5, OwnNext, ValueNext DEF DeliverInv
<1>6. CASE UNCHANGED vars
  BY <1>1, <1>2, <1>3, <1>4, <1>6, Stutters DEF DeliverInv
<1> QED
  BY <1>5, <1>6

LEMMA DeliverWhy ==
  ASSUME DeliverInv
  PROVE  Delivered
<1> SUFFICES ASSUME NEW a \in Pool, At(a, "entry"), NEW p \in Path, changed[p] = 1,
                    <<Head(job[a].peers), p>> \notin refused,
                    \E k \in 1..(job[a].k - 1) : job[a].log[k].path = p,
                    \A k \in (job[a].k)..Len(job[a].log) : job[a].log[k].path # p
             PROVE  disk[Head(job[a].peers)][p] = disk[SlaveOf(a)][p]
  BY DEF Delivered
<1>1. job[a].k \in 1..(Len(job[a].log) + 1) /\ Len(job[a].log) \in Nat
  BY FitsNow DEF Fits, DeliverInv
<1>2. Holds(a, p)
  <2>1. \A k \in 1..(job[a].k - 1) : k \in 1..Len(job[a].log)
    BY <1>1
  <2> QED
    BY <2>1 DEF Holds
<1>3. Calling(a)
  BY DEF At, Calling
<1>4. After(job[a].log, job[a].k, p, disk[SlaveOf(a)][p], disk[Peer(a)][p])
  <2>1. Theirs(a, p)
    BY <1>2 DEF DeliverInv, ValueInv
  <2>2. ~Lacks(a, p)
    BY DEF Lacks, Peer
  <2> QED
    BY <1>3, <2>1, <2>2, TheirsNow
<1> QED
  BY <1>4 DEF After, HasIn, Later, Peer

\* A replay delivers in order (Delivered of Coherence): of the paths that no other
\* session has changed, the slave it is connected to has, after each entry, what the
\* slave of the session has, whoever dies.  With two exceptions, that are those of the
\* code: a file whose update this slave has refused, which it lacks from there on (the
\* error that it answers is not looked at), and a state in which a block was read as a
\* request (~InStep).
THEOREM DeliveredInOrder == Spec => []Delivered
<1>1. Init => DeliverInv
  BY DeliverInit
<1>2. DeliverInv /\ [Next]_vars => DeliverInv'
  BY DeliverNext
<1>3. DeliverInv => Delivered
  BY DeliverWhy
<1> QED
  BY <1>1, <1>2, <1>3, PTL DEF Spec

-----------------------------------------------------------------------------
(* The sixth layer, if no worker is killed and none goes astray: who replays   *)
(* is listened to, and who has nobody that replays to it any more has been     *)
(* told so.                                                                    *)

Calm == killed = 0 /\ InStep

ToBoth == \A a \in Pool : \A n \in Conn :
            Entered(a, n) => Live(n) /\ "server" \in link[n].ends /\ "replayer" \in link[n].ends
Goodbye == \A n \in Conn :
             Live(n) /\ (\A a \in Pool : ~Entered(a, n)) => ByeLeft(n) /\ Waits(n)

CalmInv == Calm => (\A a \in Pool : ~At(a, "dead")) /\ ToBoth /\ Goodbye

\* Who has gone astray does not come back.
LEMMA CalmBack ==
  ASSUME TypeInv, NEW x \in Pool, Moves(x), Calm'
  PROVE  Calm /\ ~Kill(x) /\ ~Stray(x) /\ ~StrayPut(x)
<1>1. killed' = 0 /\ \A b \in Pool : job'[b].at # "astray"
  BY DEF Calm, InStep, At
<1>2. ~Kill(x)
  <2>1. ASSUME Kill(x) PROVE killed \in Nat /\ killed' = killed + 1
    BY <2>1, KillDoes
  <2> QED
    BY <1>1, <2>1
<1>3. ~Stray(x) /\ ~StrayPut(x)
  <2>1. ASSUME Stray(x) \/ StrayPut(x) PROVE job'[x].at = "astray"
    BY <2>1, StrayDoes, StrayPutDoes, DeadIs
  <2> QED
    BY <1>1, <2>1
<1>4. UNCHANGED killed
  <2>1. AtHome(x) => UNCHANGED killed
    BY LocalIs DEF Aside
  <2>2. Calls(x) => UNCHANGED killed
    BY SendUpdateDoes, ReadAckDoes, SendHeaderDoes, SendBlockDoes, ReadStoredDoes, SayByeDoes DEF Calls, Counts
  <2>3. Helps(x) => UNCHANGED killed
    BY ServeRmDoes, ServePutDoes, NoSuchFileDoes, OpenFileDoes, RefuseFileDoes, StoreBlockDoes, ServeByeDoes
       DEF Helps, Counts
  <2>4. Dial(x) \/ Accept(x) => UNCHANGED killed
    BY DialDoes, AcceptDoes DEF Counts
  <2>5. Loses(x) => UNCHANGED killed
    BY <1>2, <1>3, PeerLostDoes, ReplayerLostDoes DEF Loses, Counts
  <2> QED
    BY <2>1, <2>2, <2>3, <2>4, <2>5 DEF Moves
<1>5. ASSUME NEW b \in Pool, job[b].at = "astray" PROVE FALSE
  <2>1. CASE b # x
    <3>1. CASE AlmostSame(b)
      BY <1>1, <1>5, <3>1 DEF AlmostSame
    <3>2. CASE ~AlmostSame(b)
      <4>1. ~AtHome(x) /\ ~Dial(x) /\ ~Accept(x) /\ ~Calls(x) /\ ~Helps(x)
        BY <2>1, <3>2, LocalIs, DialDoes, AcceptDoes, CallsIs, HelpsIs, OthersStay DEF Aside
      <4>2. PeerLost(x) \/ ReplayerLost(x)
        BY <1>2, <1>3, <4>1 DEF Moves, Loses
      <4> QED
        BY <2>1, <3>2, <4>2, PeerLostDoes, ReplayerLostDoes, OthersStay
    <3> QED
      BY <3>1, <3>2
  <2>2. CASE b = x
    <3>1. ~AtHome(x)
      BY <1>5, <2>2, SessionDoes, RmDoes, PutDoes, ReceivedDoes, EndSessionDoes, GetListDoes, ReturnDoes DEF AtHome
    <3>2. ~Dial(x) /\ ~Accept(x)
      BY <1>5, <2>2, DialDoes, AcceptDoes
    <3>3. ~Calls(x)
      BY <1>5, <2>2, CallsIs DEF Entered, Calling
    <3>4. ~Helps(x)
      BY <1>5, <2>2, HelpsIs DEF Serves, Served
    <3>5. ~Loses(x)
      BY <1>2, <1>3, <1>5, <2>2, PeerLostDoes, ReplayerLostDoes DEF Loses, Replaying, Served
    <3> QED
      BY <3>1, <3>2, <3>3, <3>4, <3>5 DEF Moves
  <2> QED
    BY <2>1, <2>2
<1> QED
  BY <1>1, <1>2, <1>3, <1>4, <1>5 DEF Calm, InStep, At

\* Nobody is lost.
LEMMA NoneLost ==
  ASSUME TypeInv, CalmInv, NEW x \in Pool, Moves(x), Calm'
  PROVE  Calm /\ ~Loses(x)
<1>1. Calm /\ ~Kill(x) /\ ~Stray(x) /\ ~StrayPut(x)
  BY CalmBack
<1>2. ToBoth /\ Goodbye
  BY <1>1 DEF CalmInv
<1>3. ~PeerLost(x)
  <2> SUFFICES ASSUME PeerLost(x) PROVE FALSE
    OBVIOUS
  <2>1. Replaying(x) /\ job[x].conn \in Conn /\ "server" \notin link[job[x].conn].ends
    BY PeerLostDoes
  <2>2. Entered(x, job[x].conn)
    <3>1. job[x].conn # NONE
      BY <2>1, CoherenceAssumption
    <3> QED
      BY <2>1, <3>1, FitsNow DEF Fits, Entered, Calling, Replaying
  <2> QED
    BY <1>2, <2>1, <2>2 DEF ToBoth
<1>4. ~ReplayerLost(x)
  <2> SUFFICES ASSUME ReplayerLost(x) PROVE FALSE
    OBVIOUS
  <2>1. PICK n \in Conn : n = job[x].conn
    BY ReplayerLostDoes
  <2>2. Serves(x, n) /\ "replayer" \notin link[n].ends /\ ~ByeLeft(n)
    <3>1. \A w : Len(<<Bye>>) = 1 /\ <<Bye>>[1] = Bye /\ Len(<<w, Bye>>) = 2 /\ <<w, Bye>>[2] = Bye
      OBVIOUS
    <3>2. \A k \in 1..Len(link[n].out) : link[n].out[k] # Bye
      BY <2>1, ReplayerLostDoes
    <3>3. link[n].out # <<Bye>>
      <4>1. ASSUME link[n].out = <<Bye>> PROVE 1 \in 1..Len(link[n].out) /\ link[n].out[1] = Bye
        BY <3>1, <4>1
      <4> QED
        BY <3>2, <4>1
    <3>4. ASSUME NEW w \in Full, link[n].out = <<Block(w), Bye>> PROVE FALSE
      <4>1. PICK m : m = Block(w)
        OBVIOUS
      <4>2. Len(link[n].out) = 2 /\ link[n].out[2] = Bye
        BY <3>1, <3>4, <4>1
      <4> QED
        BY <3>2, <4>2
    <3>5. ~ByeLeft(n)
      BY <3>3, <3>4 DEF ByeLeft
    <3> QED
      BY <2>1, <3>5, ReplayerLostDoes DEF Serves
  <2>3. Live(n)
    BY <2>2 DEF Live
  <2> QED
    BY <1>2, <2>2, <2>3 DEF ToBoth, Goodbye
<1> QED
  BY <1>1, <1>3, <1>4 DEF Loses

LEMMA CalmInit ==
  ASSUME Init
  PROVE  CalmInv
<1>1. \A a \in Pool : job[a].at = "accept"
  BY DEF Init, Idle
<1>2. \A s \in Slave : queue[s] = <<>>
  BY DEF Init
<1>3. \A n : \A s \in Slave : ~In(n, s)
  BY <1>2 DEF In
<1>4. \A n : \A a \in Pool : ~Entered(a, n) /\ ~Serves(a, n)
  BY <1>1 DEF Entered, Calling, Serves, Served
<1> QED
  BY <1>1, <1>3, <1>4 DEF CalmInv, ToBoth, Goodbye, At, Live

LEMMA SameBye ==
  \A m : SameWords(m) /\ ByeLeft(m) => ByeLeft(m)'
BY DEF SameWords, ByeLeft, Block

\* Who serves and who replays as before.
LEMMA CalmSame ==
  ASSUME ToBoth, Goodbye,
         \A a \in Pool : \A m \in Conn : Entered(a, m)' <=> Entered(a, m),
         \A m \in Conn : (Live(m) => Live(m)') /\ link'[m].ends = link[m].ends,
         \A m \in Conn : (\A a \in Pool : ~Entered(a, m)) /\ Live(m)' =>
                            Live(m) /\ SameWords(m) /\ (Waits(m) => Waits(m)')
  PROVE  (ToBoth /\ Goodbye)'
<1>1. ToBoth'
  BY DEF ToBoth
<1>2. Goodbye'
  BY SameBye DEF Goodbye
<1> QED
  BY <1>1, <1>2

LEMMA LocalCalm ==
  ASSUME TypeInv, NEW x \in Pool, AtHome(x), ToBoth, Goodbye
  PROVE  (ToBoth /\ Goodbye)' /\ job'[x].at # "dead" /\ \A b \in Pool \ {x} : job'[b].at = job[b].at
<1>1. Aside(x)
  BY LocalIs
<1>2. job'[x].at # "dead"
  BY SessionDoes, RmDoes, PutDoes, ReceivedDoes, EndSessionDoes, GetListDoes, ReturnDoes, DeadIs DEF AtHome, Goes
<1>3. \A b \in Pool \ {x} : job'[b].at = job[b].at /\ job'[b].conn = job[b].conn
  BY <1>1 DEF Aside, AlmostSame
<1>4. \A n : \A b \in Pool : (Entered(b, n)' <=> Entered(b, n)) /\ (Serves(b, n)' <=> Serves(b, n))
  BY <1>1, <1>3 DEF Aside, Rests, Entered, Calling, Serves, Served
<1>5. \A n : \A s : In(n, s)' <=> In(n, s)
  BY <1>1 DEF Aside, In
<1>6. \A n : Live(n)' <=> Live(n)
  BY <1>4, <1>5 DEF Live
<1>7. \A n : Waits(n) => Waits(n)'
  <2>1. \A b \in Pool : \A n : Serves(b, n)' => Serves(b, n) /\ job'[b].at = job[b].at
    BY <1>1, <1>3, <1>4 DEF Aside, Serves
  <2> QED
    BY <2>1 DEF Waits
<1>8. \A n \in Conn : SameWords(n) /\ link'[n].ends = link[n].ends
  BY <1>1 DEF Aside, SameWords
<1>9. (ToBoth /\ Goodbye)'
  BY <1>4, <1>6, <1>7, <1>8, CalmSame
<1> QED
  BY <1>2, <1>3, <1>9

LEMMA AcceptCalm ==
  ASSUME TypeInv, ConnInv, NEW x \in Pool, Accept(x), ToBoth, Goodbye
  PROVE  (ToBoth /\ Goodbye)'
<1> DEFINE n == Head(queue[SlaveOf(x)])
<1>1. /\ In(n, SlaveOf(x))
      /\ \A m : \A c \in Pool : Serves(c, m)' <=> (Serves(c, m) \/ (c = x /\ m = n))
      /\ \A m : \A c \in Pool : Entered(c, m)' <=> Entered(c, m)
      /\ \A m \in Conn : \A t \in Slave : In(m, t)' <=> (In(m, t) /\ m # n)
  BY AcceptConn
<1>2. SlaveOf(x) \in Slave /\ job'[x].at = "serve" /\ Others(x) /\ UNCHANGED link
  BY AcceptDoes
<1>3. \A m \in Conn : Live(m)' <=> Live(m)
  BY <1>1, <1>2 DEF Live
<1>4. \A m \in Conn : Waits(m) => Waits(m)'
  <2>1. \A m \in Conn : \A c \in Pool : Serves(c, m)' => job'[c].at = "serve" \/ (Serves(c, m) /\ job'[c].at = job[c].at)
    BY <1>1, <1>2 DEF Others
  <2> QED
    BY <2>1 DEF Waits
<1>5. \A m \in Conn : SameWords(m) /\ link'[m].ends = link[m].ends
  BY <1>2 DEF SameWords
<1> QED
  BY <1>1, <1>3, <1>4, <1>5, CalmSame

LEMMA DialCalm ==
  ASSUME TypeInv, NEW x \in Pool, Dial(x), ToBoth, Goodbye
  PROVE  (ToBoth /\ Goodbye)'
<1>1. PICK n \in Conn : n = job'[x].conn
  BY DialDoes
<1>2. PICK s \in Slave : s = Head(job[x].peers)
  BY DialDoes
<1>3. /\ job[x].at = "peer" /\ job'[x].at = "entry" /\ Others(x) /\ Unused(n)
      /\ queue' = [queue EXCEPT ![s] = Append(queue[s], n)]
      /\ Carries(n, <<>>, <<>>, {"replayer", "server"})
  BY <1>1, <1>2, DialDoes
<1>4. \A m \in Conn \ {n} : NoNews(m) /\ SameWords(m) /\ link'[m].ends = link[m].ends
  BY <1>1, <1>3, DialIs DEF Carries
<1>5. \A t \in Slave : queue[t] \in Seq(Conn)
  BY DEF TypeInv, QueueOK
<1>6. \A m \in Conn : \A t \in Slave : In(m, t) => In(m, t)'
  <2> SUFFICES ASSUME NEW m \in Conn, NEW t \in Slave, NEW k \in 1..Len(queue[t]), queue[t][k] = m
               PROVE  In(m, t)'
    BY DEF In
  <2>1. CASE t = s
    <3>1. queue'[t] = Append(queue[t], n)
      BY <1>3, <2>1 DEF TypeInv, QueueOK
    <3>2. k \in 1..Len(queue'[t]) /\ queue'[t][k] = m
      BY <1>5, <3>1
    <3> QED
      BY <3>2 DEF In
  <2>2. CASE t # s
    BY <1>3, <2>2 DEF TypeInv, QueueOK, In
  <2> QED
    BY <2>1, <2>2
<1>7. In(n, s)'
  <2>1. queue'[s] = Append(queue[s], n)
    BY <1>3 DEF TypeInv, QueueOK
  <2>2. Len(queue'[s]) \in 1..Len(queue'[s]) /\ queue'[s][Len(queue'[s])] = n
    BY <1>5, <2>1
  <2> QED
    BY <2>2 DEF In
<1>8. \A b \in Pool : \A m \in Conn : Serves(b, m) => Serves(b, m)'
  BY <1>3 DEF Others, Serves, Served
<1>9. \A m \in Conn : Live(m) => Live(m)'
  BY <1>6, <1>8 DEF Live
<1>10. \A b \in Pool : \A m \in Conn : Entered(b, m)' => (b = x /\ m = n) \/ (Entered(b, m) /\ m # n)
  BY <1>1, <1>3 DEF Others, Entered, Calling, Unused
<1>11. ToBoth'
  <2>1. Live(n)' /\ link'[n].ends = {"replayer", "server"}
    BY <1>3, <1>7 DEF Live, Carries
  <2> QED
    BY <1>4, <1>9, <1>10, <2>1 DEF ToBoth
<1>12. Goodbye'
  <2> SUFFICES ASSUME NEW m \in Conn, Live(m)', \A a \in Pool : ~Entered(a, m)'
               PROVE  ByeLeft(m)' /\ Waits(m)'
    BY DEF Goodbye
  <2>1. m # n
    BY <1>1, <1>3 DEF Entered, Calling
  <2>2. \A a \in Pool : ~Entered(a, m)
    BY <1>3 DEF Others, Entered, Calling
  <2>3. Live(m)
    BY <1>4, <2>1 DEF Live, NoNews
  <2>4. ByeLeft(m) /\ Waits(m)
    BY <2>2, <2>3 DEF Goodbye
  <2> QED
    BY <1>4, <2>1, <2>4, NoNewsKeeps, SameBye
<1> QED
  BY <1>11, <1>12

LEMMA SaidBye ==
  ASSUME TypeInv, NEW x \in Pool, SayBye(x)
  PROVE  job'[x].at = "peer" /\ job'[x].peers = Tail(job[x].peers) /\ job'[x].log = job[x].log
<1>1. job'[x] = NextPeer(x)
  BY SayByeDoes
<1>2. PICK ps : ps = Tail(job[x].peers)
  OBVIOUS
<1>3. NextPeer(x) = [at |-> "peer", log |-> job[x].log, k |-> 1, peers |-> ps,
                     conn |-> NONE, path |-> NONE, open |-> FALSE, held |-> NONE]
  BY <1>2, NextPeerIs
<1> QED
  BY <1>1, <1>2, <1>3

LEMMA CallsCalm ==
  ASSUME TypeInv, ConnInv, ProtoInv, NEW x \in Pool, Calls(x), ToBoth, Goodbye
  PROVE  (ToBoth /\ Goodbye)'
<1>1. PICK n \in Conn : n = job[x].conn
  BY CallsIs
<1>2. /\ Entered(x, n) /\ UNCHANGED queue /\ Others(x) /\ ~Served(x) /\ ~Served(x)'
      /\ ~SayBye(x) => Calling(x)' /\ job'[x].conn = n
      /\ \A m : NoNews(m)
      /\ \A m \in Conn \ {n} : SameWords(m)
  BY <1>1, CallsIs
<1>3. \A m : \A b \in Pool : Serves(b, m)' <=> Serves(b, m)
  BY <1>2 DEF Others, Serves, Served
<1>4. \A m : Live(m)' <=> Live(m)
  BY <1>2, <1>3 DEF Live, In
<1>5. \A m : Waits(m) => Waits(m)'
  <2>1. \A m : \A b \in Pool : Serves(b, m)' => Serves(b, m) /\ job'[b].at = job[b].at
    BY <1>2 DEF NoNews
  <2> QED
    BY <2>1 DEF Waits
<1>6. CASE ~SayBye(x)
  <2>1. \A b \in Pool : \A m : Entered(b, m)' <=> Entered(b, m)
    BY <1>2, <1>6 DEF Others, Entered, Calling
  <2>2. \A m \in Conn : link'[m].ends = link[m].ends
    BY <1>1, <1>6, SendUpdateDoes, ReadAckDoes, SendHeaderDoes, SendBlockDoes, ReadStoredDoes, CarriesEnds DEF Calls
  <2> QED
    BY <1>2, <1>4, <1>5, <2>1, <2>2, CalmSame
<1>7. CASE SayBye(x)
  <2>1. ~Calling(x)'
    BY <1>7, SaidBye DEF Calling
  <2>2. \A b \in Pool : \A m \in Conn : Entered(b, m)' => Entered(b, m) /\ m # n
    BY <1>2, <2>1 DEF Others, Entered, Calling, ConnInv, OneCaller
  <2>3. \A b \in Pool : \A m \in Conn : Entered(b, m) => m = n \/ Entered(b, m)'
    BY <1>2 DEF Others, Entered, Calling
  <2>4. \A m \in Conn \ {n} : link'[m].ends = link[m].ends
    BY <1>1, <1>7, SayByeDoes DEF Carries
  <2>5. ToBoth'
    BY <1>4, <2>2, <2>4 DEF ToBoth
  <2>6. ByeLeft(n)' /\ Waits(n)'
    BY <1>1, <1>7, SayByeProto
  <2>7. Goodbye'
    BY <1>2, <1>4, <1>5, <2>3, <2>6, SameBye DEF Goodbye
  <2> QED
    BY <2>5, <2>7
<1> QED
  BY <1>6, <1>7

\* Who says bye is read when it has gone, and nothing else is read then.
LEMMA ByeIs ==
  ASSUME TypeInv, ConnInv, ProtoInv, Goodbye, NEW x \in Pool, Helps(x), NEW n \in Conn, n = job[x].conn
  PROVE  ServeBye(x) <=> \A a \in Pool : ~Entered(a, n)
<1>1. Serves(x, n) /\ link[n].out # <<>>
  BY HelpsIs
<1>2. ASSUME ServeBye(x), NEW a \in Pool, Entered(a, n) PROVE FALSE
  <2>1. job[x].at = "serve" /\ First(x).kind = "bye"
    BY <1>2, ServeByeDoes
  <2>2. Sent(n, Update(EntryOf(a)))
    BY <1>1, <1>2, <2>1, CallerOfServe, KindsAre, HelpsIs DEF First
  <2>3. First(x) = Update(EntryOf(a))
    BY <2>2, HeadTail DEF Sent, First
  <2> QED
    BY <2>1, <2>3, KindsAre
<1>3. ASSUME \A a \in Pool : ~Entered(a, n) PROVE ServeBye(x)
  <2>1. Live(n)
    BY <1>1 DEF Live
  <2>2. ByeLeft(n) /\ job[x].at = "serve"
    BY <1>1, <1>3, <2>1 DEF Goodbye, Waits
  <2>3. First(x).kind # "block"
    BY <2>2, HelpsIs
  <2>4. First(x).kind = "bye"
    <3>1. Head(<<Bye>>).kind = "bye" /\ \A w : Head(<<Block(w), Bye>>).kind = "block"
      BY HeadTail, KindsAre DEF Block
    <3> QED
      BY <2>2, <2>3, <3>1 DEF First, ByeLeft
  <2> QED
    BY <2>2, <2>4, ServeRmDoes, ServePutDoes, NoSuchFileDoes, OpenFileDoes, RefuseFileDoes, StoreBlockDoes DEF Helps
<1> QED
  BY <1>2, <1>3

LEMMA HelpsCalm ==
  ASSUME TypeInv, ConnInv, ProtoInv, NEW x \in Pool, Helps(x), ToBoth, Goodbye
  PROVE  (ToBoth /\ Goodbye)'
<1>1. PICK n \in Conn : n = job[x].conn
  BY HelpsIs
<1>2. /\ Serves(x, n) /\ UNCHANGED queue
      /\ \A c \in Pool \ {x} : AlmostSame(c)
      /\ Served(x)' => job'[x].conn = n
      /\ job'[x].at \in {"serve", "header", "storing", "accept"}
      /\ \A m \in Conn \ {n} : SameWords(m)
  BY <1>1, HelpsIs
<1>3. \A b \in Pool : \A m : Entered(b, m)' <=> Entered(b, m)
  BY <1>2 DEF AlmostSame, Entered, Calling, Serves, Served
<1>4. \A b \in Pool : \A m \in Conn \ {n} : /\ Serves(b, m)' <=> Serves(b, m)
                                            /\ Serves(b, m)' => job'[b].at = job[b].at
  BY <1>2 DEF AlmostSame, Serves, Served
<1>5. \A m \in Conn \ {n} : (Live(m)' <=> Live(m)) /\ (Waits(m) => Waits(m)')
  BY <1>2, <1>4, SMTT(30) DEF Live, In, Waits
<1>6. \A m \in Conn \ {n} : link'[m].ends = link[m].ends
  BY <1>1, ServeRmDoes, ServePutDoes, NoSuchFileDoes, OpenFileDoes, RefuseFileDoes, StoreBlockDoes, ServeByeDoes
     DEF Helps, Carries
<1>7. CASE ServeBye(x)
  <2>1. \A a \in Pool : ~Entered(a, n)
    BY <1>1, <1>7, ByeIs
  <2>2. ~Live(n)'
    <3>1. Others(x) /\ Rests(x)
      BY <1>7, ServeByeDoes, DeadIs DEF Rests, Calling, Served
    <3> QED
      BY <1>2, <1>6, <3>1, ConnCloses
  <2>3. ToBoth'
    BY <1>3, <1>5, <1>6, <2>1 DEF ToBoth
  <2>4. Goodbye'
    BY <1>2, <1>3, <1>5, <2>2, SameBye DEF Goodbye
  <2> QED
    BY <2>3, <2>4
<1>8. CASE ~ServeBye(x)
  <2>1. PICK a \in Pool : Entered(a, n)
    BY <1>1, <1>8, ByeIs, SMTT(30)
  <2>2. link'[n].ends = link[n].ends
    BY <1>1, <1>8, ServeRmDoes, ServePutDoes, NoSuchFileDoes, OpenFileDoes, RefuseFileDoes, StoreBlockDoes
       DEF Helps, Carries
  <2>3. Serves(x, n)'
    <3>1. job'[x].at \in {"serve", "header", "storing"}
      BY <1>8, ServeRmDoes, ServePutDoes, NoSuchFileDoes, OpenFileDoes, RefuseFileDoes, StoreBlockDoes, ServingIs
         DEF Helps
    <3> QED
      BY <1>2, <3>1 DEF Serves, Served
  <2>4. Live(n)'
    BY <2>3 DEF Live
  <2>5. ToBoth'
    BY <1>3, <1>5, <1>6, <2>2, <2>4 DEF ToBoth
  <2>6. Goodbye'
    BY <1>2, <1>3, <1>5, <2>1, SameBye DEF Goodbye
  <2> QED
    BY <2>5, <2>6
<1> QED
  BY <1>7, <1>8

LEMMA CalmNext ==
  ASSUME TypeInv, ConnInv, ProtoInv, CalmInv, Next
  PROVE  CalmInv'
<1> SUFFICES ASSUME Calm' PROVE (\A a \in Pool : job'[a].at # "dead") /\ (ToBoth /\ Goodbye)'
  BY DEF CalmInv, At
<1>1. PICK x \in Pool : Moves(x)
  BY NextIs DEF Moves
<1>2. Calm /\ ~Loses(x)
  BY <1>1, NoneLost
<1>3. ToBoth /\ Goodbye /\ \A a \in Pool : job[a].at # "dead"
  BY <1>2 DEF CalmInv, At
<1>4. CASE AtHome(x)
  BY <1>3, <1>4, LocalCalm
<1>5. CASE Dial(x)
  <2>1. \A a \in Pool : job'[a].at # "dead"
    BY <1>3, <1>5, DialDoes DEF Others
  <2> QED
    BY <1>3, <1>5, <2>1, DialCalm
<1>6. CASE Accept(x)
  <2>1. \A a \in Pool : job'[a].at # "dead"
    BY <1>3, <1>6, AcceptDoes DEF Others
  <2> QED
    BY <1>3, <1>6, <2>1, AcceptCalm
<1>7. CASE Calls(x)
  <2>1. Others(x)
    BY <1>7, CallsIs
  <2>2. job'[x].at # "dead"
    <3>1. Calling(x)' => job'[x].at # "dead"
      BY DEF Calling
    <3>2. SayBye(x) => job'[x].at # "dead"
      BY SaidBye
    <3> QED
      BY <1>7, <3>1, <3>2, CallsIs
  <2> QED
    BY <1>3, <1>7, <2>1, <2>2, CallsCalm DEF Others
<1>8. CASE Helps(x)
  <2>1. \A a \in Pool : job'[a].at # "dead"
    BY <1>3, <1>8, HelpsIs DEF AlmostSame
  <2> QED
    BY <1>3, <1>8, <2>1, HelpsCalm
<1> QED
  BY <1>1, <1>2, <1>4, <1>5, <1>6, <1>7, <1>8 DEF Moves

-----------------------------------------------------------------------------
(* The seventh layer: which slaves have what a session has made of a file.     *)

Due(a, t)   == \E i \in 1..Len(job[a].peers) : job[a].peers[i] = t
Replays(a)  == job[a].at = "peer" \/ Calling(a)
NotSelf     == \A a \in Pool : Replays(a) => ~Due(a, SlaveOf(a))

\* Nobody has begun to replay what a has done to file p, or all but those that
\* are still to come have it, or have refused it.
Spreads(a, p) ==
  /\ job[a].at \in {"session", "receive", "list"} => \A t \in Slave \ {SlaveOf(a)} : disk[t][p] = OLD
  /\ Replays(a) => \A t \in Slave : ~Due(a, t) /\ <<t, p>> \notin refused => disk[t][p] = disk[SlaveOf(a)][p]

Alike(p) == \A s, t \in Slave : <<s, p>> \notin refused /\ <<t, p>> \notin refused => disk[s][p] = disk[t][p]

Conv(p) == changed[p] <= 1 =>
             /\ (\A a \in Pool : ~Holds(a, p)) => Alike(p)
             /\ \A a \in Pool : Holds(a, p) => Spreads(a, p)

ConvInv == Calm => NotSelf /\ \A p \in Path : Conv(p)

\* Who writes a file: one that records it, or one that serves one that does.
LEMMA WritesFor ==
  ASSUME TypeInv, ConnInv, ProtoInv, Goodbye, NEW x \in Pool, Moves(x),
         NEW p \in Path, NEW s \in Slave, disk'[s][p] # disk[s][p]
  PROVE  /\ s = SlaveOf(x)
         /\ \/ AtHome(x) /\ job[x].at \in {"session", "receive"} /\ Holds(x, p)
            \/ Helps(x) /\ \E a \in Pool : Calling(a) /\ Holds(a, p) /\ s = Peer(a)
<1>1. /\ s = SlaveOf(x)
      /\ \/ AtHome(x) /\ job[x].at \in {"session", "receive"} /\ Holds(x, p)
         \/ /\ Helps(x) /\ job[x].conn \in Conn /\ Serves(x, job[x].conn)
            /\ Touches(job[x].conn, p)
  BY NextWrites DEF Moves
<1>2. ASSUME Helps(x), job[x].conn \in Conn, Serves(x, job[x].conn), Touches(job[x].conn, p)
      PROVE  \E a \in Pool : Calling(a) /\ Holds(a, p) /\ s = Peer(a)
  <2>1. PICK n \in Conn : n = job[x].conn
    BY <1>2
  <2>2. ~ServeBye(x)
    BY ServeByeDoes
  <2>3. PICK a \in Pool : Entered(a, n)
    BY <1>2, <2>1, <2>2, ByeIs
  <2>4. Holds(a, p)
    BY <1>2, <2>1, <2>3, CallerAbout DEF Touches
  <2>5. SlaveOf(x) = Peer(a)
    BY <1>2, <2>1, <2>3 DEF ConnInv, ServedThere
  <2> QED
    BY <1>1, <2>3, <2>4, <2>5 DEF Entered
<1> QED
  BY <1>1, <1>2

LEMMA PeerDue ==
  ASSUME TypeInv, NEW a \in Pool, Calling(a)
  PROVE  Due(a, Peer(a)) /\ Peer(a) \in Slave
<1>1. job[a].peers # <<>> /\ job[a].peers \in Seq(Slave)
  BY FitsNow DEF Fits, Calling
<1>2. 1 \in 1..Len(job[a].peers) /\ job[a].peers[1] = Peer(a)
  BY <1>1 DEF Peer
<1> QED
  BY <1>1, <1>2 DEF Due

\* Who is still to come, after a slave has been left.
LEMMA TailDue ==
  ASSUME NEW P \in Seq(Slave), P # <<>>, NEW i \in 1..Len(P)
  PROVE  P[i] = Head(P) \/ \E j \in 1..Len(Tail(P)) : Tail(P)[j] = P[i]
<1>1. CASE i = 1
  BY <1>1
<1>2. CASE i # 1
  <2>1. i - 1 \in 1..Len(Tail(P)) /\ Tail(P)[i - 1] = P[i]
    BY <1>2
  <2> QED
    BY <2>1
<1> QED
  BY <1>1, <1>2

LEMMA TailOld ==
  ASSUME NEW P \in Seq(Slave), P # <<>>, NEW j \in 1..Len(Tail(P))
  PROVE  \E i \in 1..Len(P) : P[i] = Tail(P)[j]
<1>1. j + 1 \in 1..Len(P) /\ P[j + 1] = Tail(P)[j]
  OBVIOUS
<1> QED
  BY <1>1

\* After the first session to record a file.
LEMMA SessionConv ==
  ASSUME TypeInv, OwnInv, NEW x \in Pool, NEW log \in Journal, Session(x, log), NEW p \in Path, Conv(p)
  PROVE  Conv(p)'
<1>1. /\ job[x].at = "accept" /\ job'[x].at = "session" /\ Others(x) /\ UNCHANGED disk
  BY SessionDoes
<1>2. /\ \A b \in Pool \ {x} : Holds(b, p)' <=> Holds(b, p)
      /\ ~Holds(x, p)
      /\ Holds(x, p)' => changed'[p] = changed[p] + 1
      /\ ~Holds(x, p)' => changed'[p] = changed[p]
      /\ changed[p] \in Nat
  BY SessionHolds
<1>3. CASE Holds(x, p)'
  <2> SUFFICES ASSUME changed'[p] <= 1 PROVE \A a \in Pool : Holds(a, p)' => Spreads(a, p)'
    BY <1>3 DEF Conv
  <2>1. changed[p] = 0
    BY <1>2, <1>3
  <2>2. (\A a \in Pool : ~Holds(a, p)) /\ \A s \in Slave : disk[s][p] = OLD
    BY <2>1 DEF OwnInv, NobodyYet
  <2>3. Spreads(x, p)'
    BY <1>1, <2>2 DEF Spreads, Replays, Calling
  <2> QED
    BY <1>2, <2>2, <2>3
<1>4. CASE ~Holds(x, p)'
  <2>0. UNCHANGED refused
    BY DEF Session
  <2>1. \A b \in Pool \ {x} : Spreads(b, p)' <=> Spreads(b, p)
    BY <1>1, <2>0 DEF Others, Spreads, Replays, Calling, Due
  <2>2. Alike(p)' <=> Alike(p)
    BY <1>1, <2>0 DEF Alike
  <2> QED
    BY <1>2, <1>4, <2>1, <2>2 DEF Conv
<1> QED
  BY <1>3, <1>4

\* A step of another, or of one of those that serve.
LEMMA OtherConv ==
  ASSUME TypeInv, ConnInv, ProtoInv, Goodbye, NotSelf, NEW x \in Pool, Moves(x),
         NEW p \in Path, NEW a \in Pool \ {x}, AlmostSame(a), Holds(a, p), Spreads(a, p),
         \A b \in Pool : Holds(b, p) => b = a
  PROVE  Spreads(a, p)'
<1>1. SlaveOf(a) \in Slave
  BY SlaveType
<1>2. \A t \in Slave : disk'[t][p] # disk[t][p] => Calling(a) /\ t = Peer(a)
  BY WritesFor
<1>3. Replays(a)' <=> Replays(a)
  BY DEF AlmostSame, Replays, Calling
<1>4. \A t : Due(a, t)' <=> Due(a, t)
  BY DEF AlmostSame, Due
<1>5. job'[a].at = job[a].at
  BY DEF AlmostSame
<1>6. Calling(a) => Due(a, Peer(a)) /\ ~Due(a, SlaveOf(a)) /\ job[a].at \notin {"session", "receive", "list"}
  BY PeerDue DEF NotSelf, Replays, Calling
<1>7. ASSUME job'[a].at \in {"session", "receive", "list"}, NEW t \in Slave \ {SlaveOf(a)} PROVE disk'[t][p] = OLD
  BY <1>2, <1>5, <1>6, <1>7 DEF Spreads
<1>8. ASSUME Replays(a)', NEW t \in Slave, ~Due(a, t)', <<t, p>> \notin refused'
      PROVE  disk'[t][p] = disk'[SlaveOf(a)][p]
  <2>1. disk'[SlaveOf(a)][p] = disk[SlaveOf(a)][p]
    BY <1>1, <1>2, <1>6
  <2>2. disk'[t][p] = disk[t][p]
    BY <1>2, <1>4, <1>6, <1>8
  <2>3. disk[t][p] = disk[SlaveOf(a)][p]
    BY <1>3, <1>4, <1>8, RefusedGrows DEF Spreads
  <2> QED
    BY <2>1, <2>2, <2>3
<1> QED
  BY <1>7, <1>8 DEF Spreads

\* The steps of the one whose session it was, at its slave.
LEMMA OwnFiles ==
  ASSUME TypeInv, ConnInv, ProtoInv, Goodbye, NEW a \in Pool, Moves(a), ~Helps(a), NEW p \in Path
  PROVE  \A t \in Slave \ {SlaveOf(a)} : disk'[t][p] = disk[t][p]
BY WritesFor

LEMMA WorkConv ==
  ASSUME TypeInv, ConnInv, ProtoInv, Goodbye, NEW a \in Pool, AtHome(a), NEW p \in Path, Spreads(a, p),
         job[a].at \in {"session", "receive", "list"}, job'[a].at \in {"session", "receive", "list"}
  PROVE  Spreads(a, p)'
<1>1. ~Replays(a)'
  BY DEF Replays, Calling
<1>2. ~Helps(a)
  BY HelpsIs DEF Serves, Served
<1>3. \A t \in Slave \ {SlaveOf(a)} : disk'[t][p] = disk[t][p]
  BY <1>2, OwnFiles DEF Moves
<1> QED
  BY <1>1, <1>3 DEF Spreads

LEMMA GetListConv ==
  ASSUME RightList, TypeInv, NEW a \in Pool, GetList(a)
  PROVE  (\A p : Spreads(a, p)') /\ ~Due(a, SlaveOf(a))'
<1>1. job'[a].at = "peer" /\ job'[a].peers = Peers(SlaveOf(a))
  BY GetListDoes
<1>2. PICK s \in Slave : s = SlaveOf(a)
  BY SlaveType
<1>3. PICK P : P = Peers(s)
  OBVIOUS
<1>4. {P[k] : k \in 1..Len(P)} = Slave \ {s}
  BY <1>3 DEF RightList
<1>5. \A t \in Slave \ {s} : \E k \in 1..Len(P) : P[k] = t
  BY <1>4
<1>6. \A k \in 1..Len(P) : P[k] # s
  BY <1>4
<1>7. \A t : Due(a, t)' <=> \E k \in 1..Len(P) : P[k] = t
  BY <1>1, <1>2, <1>3 DEF Due
<1> QED
  BY <1>1, <1>2, <1>5, <1>6, <1>7 DEF Spreads

\* Who has been to all the slaves.
LEMMA ReturnConv ==
  ASSUME TypeInv, NEW a \in Pool, Return(a), NEW p \in Path, Spreads(a, p)
  PROVE  Alike(p)' /\ ~Holds(a, p)'
<1>1. job[a].at = "peer" /\ job[a].peers = <<>> /\ job'[a] = Idle /\ UNCHANGED disk
  BY ReturnDoes
<1>2. UNCHANGED refused /\ \A t \in Slave : <<t, p>> \notin refused => disk[t][p] = disk[SlaveOf(a)][p]
  <2>1. \A t : ~Due(a, t)
    BY <1>1 DEF Due
  <2> QED
    BY <1>1, <2>1 DEF Spreads, Replays, Return
<1>4. Alike(p)'
  BY <1>1, <1>2 DEF Alike
<1>5. job'[a].log = <<>>
  BY <1>1, DeadIs
<1> QED
  BY <1>4, <1>5 DEF Holds

\* Whoever goes on with the same slaves to come.
LEMMA GoesConv ==
  ASSUME NEW a \in Pool, NEW p \in Path, Spreads(a, p), UNCHANGED disk, refused \subseteq refused', Replays(a), Replays(a)',
         job'[a].peers = job[a].peers
  PROVE  Spreads(a, p)'
<1>1. \A t : Due(a, t)' <=> Due(a, t)
  BY DEF Due
<1>2. job'[a].at \notin {"session", "receive", "list"}
  BY DEF Replays, Calling
<1> QED
  BY <1>1, <1>2 DEF Spreads

\* And who has been to one more.
LEMMA SayByeConv ==
  ASSUME TypeInv, ConnInv, ProtoInv, NEW a \in Pool, SayBye(a), NEW p \in Path, Holds(a, p),
         Theirs(a, p), Spreads(a, p)
  PROVE  Spreads(a, p)'
<1>1. job'[a].at = "peer" /\ job'[a].peers = Tail(job[a].peers)
  BY SaidBye
<1>2. /\ UNCHANGED disk /\ job[a].peers # <<>> /\ job[a].at = "entry"
      /\ job[a].k > Len(job[a].log) /\ Calling(a)
  BY SayByeDoes, SayByeProto DEF Calling
<1>3. PICK P \in Seq(Slave) : P = job[a].peers
  BY FitsNow DEF Fits
<1>4. PICK L \in Seq(Entry) : L = job[a].log
  BY FitsNow DEF Fits
<1>5. job[a].k = Len(L) + 1 /\ Len(L) \in Nat
  BY <1>2, <1>4, FitsNow DEF Fits
<1>6. ASSUME <<Peer(a), p>> \notin refused PROVE disk[Peer(a)][p] = disk[SlaveOf(a)][p]
  <2>0. ~Lacks(a, p)
    BY <1>6 DEF Lacks
  <2>1. After(L, Len(L) + 1, p, disk[SlaveOf(a)][p], disk[Peer(a)][p])
    BY <1>2, <1>4, <1>5, <2>0, TheirsNow
  <2>2. HasIn(L, Len(L), p)
    BY <1>4 DEF Holds, HasIn
  <2>3. ~Later(L, Len(L) + 1, p)
    BY <1>5 DEF Later
  <2>4. (Len(L) + 1) - 1 = Len(L)
    BY <1>5
  <2> QED
    BY <2>1, <2>2, <2>3, <2>4 DEF After
<1>7. \A t : Due(a, t) => t = Peer(a) \/ Due(a, t)'
  <2>1. \A t : Due(a, t) => \E i \in 1..Len(P) : P[i] = t
    BY <1>3 DEF Due
  <2>2. \A t : (\E j \in 1..Len(Tail(P)) : Tail(P)[j] = t) => Due(a, t)'
    BY <1>1, <1>3 DEF Due
  <2>3. Peer(a) = Head(P)
    BY <1>3 DEF Peer
  <2> QED
    BY <1>2, <1>3, <2>1, <2>2, <2>3, TailDue
<1>8. ASSUME NEW t \in Slave, ~Due(a, t)', <<t, p>> \notin refused PROVE disk[t][p] = disk[SlaveOf(a)][p]
  <2>1. CASE t = Peer(a)
    BY <1>6, <1>8, <2>1
  <2>2. CASE ~Due(a, t)
    BY <1>2, <1>8, <2>2 DEF Spreads, Replays
  <2> QED
    BY <1>7, <1>8, <2>1, <2>2
<1>9. UNCHANGED refused
  BY DEF SayBye
<1> QED
  BY <1>1, <1>2, <1>8, <1>9 DEF Spreads

\* Whatever it does.
LEMMA OwnerConv ==
  ASSUME RightList, TypeInv, ConnInv, ProtoInv, Goodbye, NEW a \in Pool, Moves(a), ~Loses(a), Keeps,
         NEW p \in Path, Holds(a, p), Theirs(a, p), Spreads(a, p)
  PROVE  IF Return(a) THEN Alike(p)' /\ ~Holds(a, p)' ELSE Spreads(a, p)' /\ Holds(a, p)'
<1>1. job[a].log # <<>>
  BY DEF Holds
<1>2. ~Helps(a) /\ ~Accept(a)
  <2>1. Served(a) => job[a].log = <<>>
    BY ServerIs DEF Served
  <2>2. job[a].at = "accept" => job[a].log = <<>>
    BY FitsNow DEF Fits
  <2> QED
    BY <1>1, <2>1, <2>2, HelpsIs, AcceptDoes DEF Serves
<1>3. CASE AtHome(a)
  <2>1. CASE Return(a)
    BY <2>1, ReturnConv
  <2>2. CASE GetList(a)
    <3>1. job'[a].log = job[a].log /\ job[a].at = "list"
      BY <2>2, GetListDoes
    <3>2. ~Return(a)
      BY <3>1, ReturnDoes
    <3> QED
      BY <2>2, <3>1, <3>2, GetListConv DEF Holds
  <2>3. CASE ~Return(a) /\ ~GetList(a)
    <3>1. ~\E log \in Journal : Session(a, log)
      <4>1. job[a].at = "accept" => job[a].log = <<>>
        BY FitsNow DEF Fits
      <4> QED
        BY <1>1, <4>1, SessionDoes
    <3>2. Operation(a) \/ (\E v \in Content : Received(a, v)) \/ EndSession(a)
      BY <1>3, <2>3, <3>1 DEF AtHome
    <3>3. /\ job[a].at \in {"session", "receive", "list"} /\ job'[a].at \in {"session", "receive", "list"}
          /\ job'[a].log = job[a].log
      BY <1>1, <3>2, RmDoes, PutDoes, ReceivedDoes, EndSessionDoes DEF Goes
    <3> QED
      BY <1>3, <2>3, <3>3, WorkConv DEF Holds
  <2> QED
    BY <2>1, <2>2, <2>3
<1>4. CASE Dial(a)
  <2>1. /\ job[a].at = "peer" /\ job'[a].at = "entry" /\ job'[a].peers = job[a].peers
        /\ job'[a].log = job[a].log /\ job[a].peers # <<>> /\ UNCHANGED disk
    BY <1>4, DialDoes
  <2>2. ~Return(a)
    BY <2>1, ReturnDoes
  <2> QED
    BY <2>1, <2>2, GoesConv, RefusedGrows DEF Holds, Replays, Calling
<1>5. CASE Calls(a)
  <2>1. Calling(a) /\ UNCHANGED disk
    BY <1>5, CallsIs, CallsKeeps DEF Entered
  <2>2. ~Return(a)
    BY <2>1, ReturnDoes DEF Calling
  <2>3. CASE SayBye(a)
    BY <2>2, <2>3, SaidBye, SayByeConv DEF Holds
  <2>4. CASE ~SayBye(a)
    <3>1. Calling(a)' /\ job'[a].peers = job[a].peers
      BY <1>5, <2>4, CallsIs
    <3>2. Spreads(a, p)'
      BY <2>1, <3>1, GoesConv, RefusedGrows DEF Replays
    <3>3. job'[a].log = job[a].log
      BY <1>5, <2>4, SendUpdateDoes, ReadAckDoes, SendHeaderDoes, SendBlockDoes, ReadStoredDoes DEF Calls, Goes
    <3> QED
      BY <2>2, <3>2, <3>3 DEF Holds
  <2> QED
    BY <2>3, <2>4
<1> QED
  BY <1>2, <1>3, <1>4, <1>5 DEF Moves

LEMMA MovesSame ==
  ASSUME TypeInv, NEW x \in Pool, Moves(x), ~Loses(x)
  PROVE  \A b \in Pool \ {x} : AlmostSame(b)
<1>1. AtHome(x) => \A b \in Pool \ {x} : AlmostSame(b)
  BY LocalIs DEF Aside
<1>2. Dial(x) \/ Accept(x) \/ Calls(x) => Others(x)
  BY DialDoes, AcceptDoes, CallsIs
<1>3. Helps(x) => \A b \in Pool \ {x} : AlmostSame(b)
  BY HelpsIs
<1> QED
  BY <1>1, <1>2, <1>3, OthersStay DEF Moves

\* Nobody replays to its own slave.
LEMMA NotSelfNext ==
  ASSUME RightList, TypeInv, NotSelf, NEW x \in Pool, Moves(x), ~Loses(x)
  PROVE  NotSelf'
<1>1. \A b \in Pool \ {x} : Replays(b)' => ~Due(b, SlaveOf(b))'
  BY MovesSame DEF AlmostSame, NotSelf, Replays, Calling, Due
<1>2. ASSUME Replays(x), \A i \in 1..Len(job'[x].peers) : Due(x, job'[x].peers[i]) PROVE ~Due(x, SlaveOf(x))'
  <2>1. \A i \in 1..Len(job'[x].peers) : job'[x].peers[i] # SlaveOf(x)
    BY <1>2 DEF NotSelf
  <2> QED
    BY <2>1 DEF Due
<1>3. ASSUME Replays(x), job'[x].peers = job[x].peers PROVE ~Due(x, SlaveOf(x))'
  <2>1. \A i \in 1..Len(job'[x].peers) : Due(x, job'[x].peers[i])
    BY <1>3 DEF Due
  <2> QED
    BY <1>2, <1>3, <2>1
<1>4. CASE AtHome(x)
  <2>1. ~Calling(x)'
    BY <1>4, LocalIs DEF Aside, Rests
  <2>2. ~GetList(x) => job'[x].at # "peer"
    BY <1>4, SessionDoes, RmDoes, PutDoes, ReceivedDoes, EndSessionDoes, ReturnDoes, DeadIs DEF AtHome, Goes
  <2>3. GetList(x) => ~Due(x, SlaveOf(x))'
    BY GetListConv
  <2> QED
    BY <1>1, <2>1, <2>2, <2>3 DEF NotSelf, Replays
<1>5. CASE Dial(x)
  <2>1. Replays(x) /\ job'[x].peers = job[x].peers
    BY <1>5, DialDoes DEF Replays
  <2> QED
    BY <1>1, <1>3, <2>1 DEF NotSelf
<1>6. CASE Accept(x)
  <2>1. ~Replays(x)'
    BY <1>6, AcceptDoes DEF Replays, Calling
  <2> QED
    BY <1>1, <2>1 DEF NotSelf
<1>7. CASE Calls(x)
  <2>1. Replays(x)
    BY <1>7, CallsIs DEF Entered, Replays
  <2>2. CASE ~SayBye(x)
    BY <1>1, <1>3, <1>7, <2>1, <2>2, CallsIs DEF NotSelf
  <2>3. CASE SayBye(x)
    <3>1. PICK P \in Seq(Slave) : P = job[x].peers
      BY FitsNow DEF Fits
    <3>2. P # <<>> /\ job'[x].peers = Tail(P)
      BY <2>3, <3>1, SayByeDoes, SaidBye
    <3>3. \A t : (\E i \in 1..Len(P) : P[i] = t) => Due(x, t)
      BY <3>1 DEF Due
    <3>4. \A j \in 1..Len(Tail(P)) : Due(x, Tail(P)[j])
      BY <3>2, <3>3, TailOld
    <3>5. \A i \in 1..Len(job'[x].peers) : Due(x, job'[x].peers[i])
      BY <3>2, <3>4
    <3> QED
      BY <1>1, <1>2, <2>1, <3>5 DEF NotSelf
  <2> QED
    BY <2>2, <2>3
<1>8. CASE Helps(x)
  <2>1. ~Replays(x)'
    BY <1>8, HelpsIs DEF Replays, Calling
  <2> QED
    BY <1>1, <2>1 DEF NotSelf
<1> QED
  BY <1>4, <1>5, <1>6, <1>7, <1>8 DEF Moves

LEMMA ConvInit ==
  ASSUME Init
  PROVE  ConvInv
<1>1. \A a \in Pool : job[a].at = "accept" /\ job[a].log = <<>>
  BY DEF Init, Idle
<1>2. \A s \in Slave, p \in Path : disk[s][p] = OLD
  BY DEF Init
<1>3. \A a \in Pool : ~Replays(a) /\ \A p : ~Holds(a, p)
  BY <1>1 DEF Replays, Calling, Holds
<1> QED
  BY <1>2, <1>3 DEF ConvInv, NotSelf, Conv, Alike

\* A file that nobody has recorded stays as it is.
LEMMA NobodyConv ==
  ASSUME TypeInv, ConnInv, ProtoInv, Goodbye, NEW x \in Pool, Moves(x), Keeps, NEW p \in Path,
         \A a \in Pool : ~Holds(a, p), Conv(p)
  PROVE  Conv(p)'
<1>1. \A s \in Slave : disk'[s][p] = disk[s][p]
  BY WritesFor
<1>2. \A a \in Pool : ~Holds(a, p)'
  BY HoldsKeeps
<1>3. changed' = changed
  BY DEF Keeps
<1> QED
  BY <1>1, <1>2, <1>3, RefusedGrows DEF Conv, Alike

LEMMA SomebodyConv ==
  ASSUME RightList, TypeInv, ConnInv, ProtoInv, OwnInv, ValueInv, Goodbye, NotSelf,
         NEW x \in Pool, Moves(x), ~Loses(x), Keeps, NEW p \in Path, NEW a \in Pool, Holds(a, p), Conv(p)
  PROVE  Conv(p)'
<1>1. changed' = changed
  BY DEF Keeps
<1> SUFFICES ASSUME changed[p] <= 1
             PROVE  /\ (\A b \in Pool : ~Holds(b, p)') => Alike(p)'
                    /\ \A b \in Pool : Holds(b, p)' => Spreads(b, p)'
  BY <1>1 DEF Conv
<1>2. \A b \in Pool : Holds(b, p) => b = a
  BY DEF OwnInv, OneHolder
<1>3. \A b \in Pool : Holds(b, p)' => b = a
  BY <1>2, HoldsKeeps
<1>4. Spreads(a, p)
  BY DEF Conv
<1>5. changed[p] = 1
  <2>1. changed[p] # 0
    BY DEF OwnInv, NobodyYet
  <2>2. changed[p] \in Nat
    BY DEF TypeInv, CountOK
  <2> QED
    BY <2>1, <2>2
<1>6. Theirs(a, p)
  BY <1>5 DEF ValueInv
<1>7. CASE x = a
  <2>1. IF Return(a) THEN Alike(p)' /\ ~Holds(a, p)' ELSE Spreads(a, p)' /\ Holds(a, p)'
    BY <1>4, <1>6, <1>7, OwnerConv
  <2> QED
    BY <1>3, <2>1
<1>8. CASE x # a
  <2>1. AlmostSame(a)
    BY <1>8, MovesSame
  <2>2. Spreads(a, p)'
    BY <1>2, <1>4, <1>8, <2>1, OtherConv
  <2>3. Holds(a, p)'
    BY <2>1 DEF AlmostSame, Holds
  <2> QED
    BY <1>3, <2>2, <2>3
<1> QED
  BY <1>7, <1>8

LEMMA ConvNext ==
  ASSUME RightList, TypeInv, ConnInv, ProtoInv, OwnInv, ValueInv, CalmInv, ConvInv, Next
  PROVE  ConvInv'
<1> SUFFICES ASSUME Calm' PROVE NotSelf' /\ \A p \in Path : Conv(p)'
  BY DEF ConvInv
<1>1. PICK x \in Pool : Moves(x)
  BY NextIs DEF Moves
<1>2. Calm /\ ~Loses(x)
  BY <1>1, NoneLost
<1>3. Goodbye /\ NotSelf /\ \A p \in Path : Conv(p)
  BY <1>2 DEF CalmInv, ConvInv
<1>4. NotSelf'
  BY <1>1, <1>2, <1>3, NotSelfNext
<1>5. Keeps \/ \E log \in Journal : Session(x, log)
  BY <1>1, LocalKeeps, CallsKeeps, HelpsKeeps, LosesKeeps DEF Moves
<1>6. ASSUME NEW p \in Path PROVE Conv(p)'
  <2>1. CASE Keeps
    BY <1>1, <1>2, <1>3, <2>1, NobodyConv, SomebodyConv
  <2>2. CASE \E log \in Journal : Session(x, log)
    BY <1>3, <2>2, SessionConv
  <2> QED
    BY <1>5, <2>1, <2>2
<1> QED
  BY <1>4, <1>6

-----------------------------------------------------------------------------
(* The seven layers together.                                                 *)

SpreadInv == DeliverInv /\ CalmInv /\ ConvInv

LEMMA CalmStutters ==
  ASSUME CalmInv, ConvInv, UNCHANGED vars
  PROVE  CalmInv' /\ ConvInv'
<1>1. CalmInv'
  BY DEF vars, CalmInv, Calm, InStep, At, ToBoth, Goodbye, Entered, Calling, Live, Serves, Served, In, Waits,
         ByeLeft
<1>2. ConvInv'
  BY DEF vars, ConvInv, Calm, InStep, At, NotSelf, Conv, Alike, Spreads, Replays, Calling, Due, Holds
<1> QED
  BY <1>1, <1>2

LEMMA SpreadInit ==
  ASSUME Init
  PROVE  SpreadInv
BY DeliverInit, CalmInit, ConvInit DEF SpreadInv

LEMMA SpreadNext ==
  ASSUME RightList, SpreadInv, [Next]_vars
  PROVE  SpreadInv'
<1>1. DeliverInv /\ CalmInv /\ ConvInv
  BY DEF SpreadInv
<1>2. DeliverInv'
  BY <1>1, DeliverNext
<1>3. TypeInv /\ ConnInv /\ ProtoInv /\ OwnInv /\ ValueInv
  BY <1>1 DEF DeliverInv
<1>4. CASE Next
  BY <1>1, <1>2, <1>3, <1>4, CalmNext, ConvNext DEF SpreadInv
<1>5. CASE UNCHANGED vars
  BY <1>1, <1>2, <1>5, CalmStutters DEF SpreadInv
<1> QED
  BY <1>4, <1>5

\* When nothing is going on, nobody holds a journal.
LEMMA SpreadWhy ==
  ASSUME SpreadInv
  PROVE  Converges
<1> SUFFICES ASSUME Quiet, killed = 0, NEW p \in Path, changed[p] <= 1
             PROVE  Alike(p)
  BY DEF Converges, Alike
<1>1. TypeInv /\ ConvInv
  BY DEF SpreadInv, DeliverInv
<1>2. \A a \in Pool : job[a].at \in {"accept", "dead"}
  BY DEF Quiet
<1>3. Calm
  BY <1>2 DEF Calm, InStep, At
<1>4. \A a \in Pool : job[a].log = <<>>
  BY <1>1, <1>2, FitsNow DEF Fits
<1>5. \A a \in Pool : ~Holds(a, p)
  BY <1>4 DEF Holds
<1> QED
  BY <1>1, <1>3, <1>5 DEF ConvInv, Conv

\* Weak coherence (Converges of Coherence): if the list of the master is right, then
\* once nothing is going on, the slaves have the same file under every path that not
\* more than one session has changed, whatever was replayed at the same time, to whom
\* and in which order.  The exceptions are those of the code: a slave that has refused
\* a file (it lacks it for good, and nobody was killed), a worker that was killed, and
\* a block that was read as a request (its workers never are as in Quiet again).
THEOREM SlavesConverge == ASSUME RightList PROVE Spec => []Converges
<1>1. Init => SpreadInv
  BY SpreadInit
<1>2. SpreadInv /\ [Next]_vars => SpreadInv'
  BY SpreadNext
<1>3. SpreadInv => Converges
  BY SpreadWhy
<1> QED
  BY <1>1, <1>2, <1>3, PTL DEF Spec

-----------------------------------------------------------------------------
(* The list is right if the lines are addresses, by induction on the lines.   *)

Given(s, i) == Config[i] \notin {BLANK, Ip[s]}

LEMMA ListedIs ==
  ASSUME NEW s \in Slave
  PROVE  /\ Listed(s)[0] = <<>>
         /\ \A k \in 1..Len(Config) :
              Listed(s)[k] = IF Given(s, k) THEN Append(Listed(s)[k - 1], Host[Config[k]]) ELSE Listed(s)[k - 1]
<1>1. Len(Config) \in Nat
  BY CoherenceAssumption
<1> DEFINE Line(k) == IF k = 0 THEN <<>>
                      ELSE IF Config[k] \in {BLANK, Ip[s]} THEN Listed(s)[k - 1]
                      ELSE Append(Listed(s)[k - 1], Host[Config[k]])
<1>2. Listed(s) = [k \in 0..Len(Config) |-> Line(k)]
  BY ListedDef
<1>3. \A k \in 0..Len(Config) : Listed(s)[k] = Line(k)
  <2> HIDE DEF Line
  <2> QED
    BY <1>2
<1>4. Listed(s)[0] = <<>>
  BY <1>1, <1>3
<1>5. ASSUME NEW k \in 1..Len(Config)
      PROVE  Listed(s)[k] = IF Given(s, k) THEN Append(Listed(s)[k - 1], Host[Config[k]]) ELSE Listed(s)[k - 1]
  <2>1. k \in 0..Len(Config) /\ k # 0
    BY <1>1
  <2> QED
    BY <1>3, <2>1 DEF Given
<1> QED
  BY <1>4, <1>5

\* Where the list leads to, from the first k lines.
LeadsTo(P, t) == \E i \in 1..Len(P) : P[i] = t
Names(s, k, t) == \E i \in 1..k : Given(s, i) /\ Host[Config[i]] = t

LEMMA LeadsAppend ==
  ASSUME NEW P \in Seq(Slave), NEW u \in Slave, NEW t
  PROVE  LeadsTo(Append(P, u), t) <=> (LeadsTo(P, t) \/ u = t)
<1>1. Len(P) \in Nat /\ Len(Append(P, u)) = Len(P) + 1
  OBVIOUS
<1>2. \A i \in 1..Len(P) : Append(P, u)[i] = P[i]
  OBVIOUS
<1>3. Append(P, u)[Len(P) + 1] = u
  OBVIOUS
<1>4. 1..(Len(P) + 1) = (1..Len(P)) \cup {Len(P) + 1}
  BY <1>1, UpToNext
<1> QED
  BY <1>1, <1>2, <1>3, <1>4 DEF LeadsTo

LEMMA LeadsToNamed ==
  ASSUME NEW s \in Slave
  PROVE  \A t : LeadsTo(Peers(s), t) <=> Names(s, Len(Config), t)
<1>1. Len(Config) \in Nat
  BY CoherenceAssumption
<1> DEFINE S == {k \in Nat : /\ Listed(s)[k] \in Seq(Slave)
                             /\ \A t : LeadsTo(Listed(s)[k], t) <=> Names(s, k, t)}
<1>2. 0 \in S
  <2>1. Listed(s)[0] = <<>>
    BY ListedIs
  <2>2. \A t : ~LeadsTo(<<>>, t) /\ ~Names(s, 0, t)
    BY DEF LeadsTo, Names
  <2>3. \A t : LeadsTo(Listed(s)[0], t) <=> Names(s, 0, t)
    BY <2>1, <2>2, Zenon
  <2>4. Listed(s)[0] \in Seq(Slave)
    BY <2>1
  <2> QED
    BY <2>3, <2>4
<1>3. ASSUME NEW k \in 0..(Len(Config) - 1), k \in S PROVE k + 1 \in S
  <2>1. k \in Nat /\ k + 1 \in 1..Len(Config) /\ (k + 1) - 1 = k
    BY <1>1
  <2>2. Listed(s)[k + 1] = IF Given(s, k + 1) THEN Append(Listed(s)[k], Host[Config[k + 1]]) ELSE Listed(s)[k]
    BY <2>1, ListedIs
  <2>3. 1..(k + 1) = (1..k) \cup {k + 1}
    BY <2>1, UpToNext
  <2>4. \A t : Names(s, k + 1, t) <=> (Names(s, k, t) \/ (Given(s, k + 1) /\ Host[Config[k + 1]] = t))
    BY <2>3 DEF Names
  <2>5. CASE Given(s, k + 1)
    <3>1. PICK P \in Seq(Slave) : P = Listed(s)[k]
      BY <1>3
    <3>2. PICK u \in Slave : u = Host[Config[k + 1]]
      BY <2>1, <2>5, CoherenceAssumption DEF Given
    <3>3. Listed(s)[k + 1] = Append(P, u)
      BY <2>2, <2>5, <3>1, <3>2
    <3>4. \A t : LeadsTo(Append(P, u), t) <=> (LeadsTo(P, t) \/ u = t)
      BY LeadsAppend
    <3>5. \A t : LeadsTo(P, t) <=> Names(s, k, t)
      BY <1>3, <3>1
    <3>6. \A t : LeadsTo(Append(P, u), t) <=> Names(s, k + 1, t)
      BY <2>4, <2>5, <3>2, <3>4, <3>5
    <3>7. Append(P, u) \in Seq(Slave)
      OBVIOUS
    <3>8. \A t : LeadsTo(Listed(s)[k + 1], t) <=> Names(s, k + 1, t)
      BY <3>3, <3>6, Zenon
    <3>9. k + 1 \in Nat /\ Listed(s)[k + 1] \in Seq(Slave)
      BY <2>1, <3>3, <3>7
    <3> QED
      BY <3>8, <3>9
  <2>6. CASE ~Given(s, k + 1)
    BY <1>3, <2>1, <2>2, <2>4, <2>6
  <2> QED
    BY <2>5, <2>6
<1>4. Len(Config) \in S
  <2> HIDE DEF S
  <2>1. \A k \in 0..Len(Config) : k \in S
    BY <1>1, <1>2, <1>3, UpTo
  <2> QED
    BY <1>1, <2>1
<1> QED
  BY <1>4 DEF Peers

\* What coherence needs of config_master: if its lines are the addresses of the
\* slaves, the list of each leads to all the others and not to itself (RightList).
THEOREM AddressesDo == ByAddress => RightList
<1> SUFFICES ASSUME ByAddress, NEW s \in Slave
             PROVE  {Peers(s)[k] : k \in 1..Len(Peers(s))} = Slave \ {s}
  BY DEF RightList
<1>1. \A t : Names(s, Len(Config), t) <=> t \in Slave \ {s}
  <2>1. ASSUME NEW i \in 1..Len(Config), Given(s, i) PROVE Host[Config[i]] \in Slave \ {s}
    BY <2>1 DEF ByAddress, Given
  <2>2. ASSUME NEW t \in Slave \ {s} PROVE \E i \in 1..Len(Config) : Given(s, i) /\ Host[Config[i]] = t
    BY <2>2 DEF ByAddress, Given
  <2> QED
    BY <2>1, <2>2 DEF Names
<1>2. \A t : LeadsTo(Peers(s), t) <=> t \in Slave \ {s}
  BY <1>1, LeadsToNamed
<1> QED
  BY <1>2 DEF LeadsTo

-----------------------------------------------------------------------------
(* What a replay that has nothing to read waits for.                           *)

\* Who replays over a connection that is open at the other end has, there, a
\* worker that serves it, or a place in a queue; whichever workers have died.
Heard == \A a \in Pool : \A n \in Conn : Entered(a, n) /\ "server" \in link[n].ends => Live(n)

\* Who is still there was there before, and who listened to it still does.
LEMMA HeardSame ==
  ASSUME Heard,
         \A m \in Conn : \A a \in Pool : Entered(a, m)' /\ "server" \in link'[m].ends =>
           Entered(a, m) /\ "server" \in link[m].ends /\ (Live(m) => Live(m)')
  PROVE  Heard'
BY DEF Heard

LEMMA HeardInit ==
  ASSUME Init
  PROVE  Heard
BY DeadIs DEF Init, Heard, Entered, Calling

\* The others, when one worker goes on.
LEMMA OthersHeard ==
  ASSUME NEW x \in Pool, \A b \in Pool \ {x} : AlmostSame(b), UNCHANGED queue
  PROVE  /\ \A m : \A b \in Pool \ {x} : Entered(b, m)' <=> Entered(b, m)
         /\ \A m : Live(m) => Serves(x, m) \/ Live(m)'
<1>1. \A m : \A b \in Pool \ {x} : (Entered(b, m)' <=> Entered(b, m)) /\ (Serves(b, m)' <=> Serves(b, m))
  BY DEF AlmostSame, Entered, Calling, Serves, Served
<1>2. \A m : \A s : In(m, s)' <=> In(m, s)
  BY DEF In
<1> QED
  BY <1>1, <1>2 DEF Live

LEMMA LocalHeard ==
  ASSUME TypeInv, NEW x \in Pool, AtHome(x), Heard
  PROVE  Heard'
<1>1. Aside(x)
  BY LocalIs
<1>2. \A m : ~Entered(x, m)' /\ ~Serves(x, m)
  BY <1>1 DEF Aside, Rests, Entered, Serves
<1>3. UNCHANGED link /\ UNCHANGED queue /\ \A b \in Pool \ {x} : AlmostSame(b)
  BY <1>1 DEF Aside
<1>4. /\ \A m : \A b \in Pool \ {x} : Entered(b, m)' <=> Entered(b, m)
      /\ \A m : Live(m) => Serves(x, m) \/ Live(m)'
  BY <1>3, OthersHeard
<1> QED
  BY <1>2, <1>3, <1>4, HeardSame

LEMMA AcceptHeard ==
  ASSUME TypeInv, ConnInv, NEW x \in Pool, Accept(x), Heard
  PROVE  Heard'
<1> DEFINE n == Head(queue[SlaveOf(x)])
<1>1. /\ \A m : \A c \in Pool : Serves(c, m)' <=> (Serves(c, m) \/ (c = x /\ m = n))
      /\ \A m : \A c \in Pool : Entered(c, m)' <=> Entered(c, m)
      /\ \A m \in Conn : \A t \in Slave : In(m, t)' <=> (In(m, t) /\ m # n)
  BY AcceptConn
<1>2. UNCHANGED link
  BY AcceptDoes
<1>3. \A m \in Conn : Live(m) => Live(m)'
  BY <1>1 DEF Live
<1> QED
  BY <1>1, <1>2, <1>3, HeardSame

LEMMA DialHeard ==
  ASSUME TypeInv, NEW x \in Pool, Dial(x), Heard
  PROVE  Heard'
<1>1. PICK n \in Conn : n = job'[x].conn
  BY DialDoes
<1>2. PICK s \in Slave : s = Head(job[x].peers)
  BY DialDoes
<1>3. /\ job[x].at = "peer" /\ job'[x].at = "entry" /\ Others(x) /\ Unused(n)
      /\ queue' = [queue EXCEPT ![s] = Append(queue[s], n)]
      /\ Carries(n, <<>>, <<>>, {"replayer", "server"})
  BY <1>1, <1>2, DialDoes
<1>4. /\ \A t \in Slave : queue[t] \in Seq(Conn)
      /\ queue'[s] = Append(queue[s], n) /\ \A t \in Slave \ {s} : queue'[t] = queue[t]
  BY <1>3 DEF TypeInv, QueueOK
<1>5. \A m \in Conn : \A t \in Slave : In(m, t) => In(m, t)'
  <2> SUFFICES ASSUME NEW m \in Conn, NEW t \in Slave, NEW k \in 1..Len(queue[t]), queue[t][k] = m
               PROVE  In(m, t)'
    BY DEF In
  <2>1. k \in 1..Len(queue'[t]) /\ queue'[t][k] = m
    BY <1>4
  <2> QED
    BY <2>1 DEF In
<1>6. In(n, s)'
  <2>1. Len(queue'[s]) \in 1..Len(queue'[s]) /\ queue'[s][Len(queue'[s])] = n
    BY <1>4
  <2> QED
    BY <2>1 DEF In
<1>7. \A b \in Pool : \A m \in Conn : Serves(b, m) => Serves(b, m)'
  BY <1>3 DEF Others, Serves, Served
<1>8. \A m \in Conn : Live(m) => Live(m)'
  BY <1>5, <1>7 DEF Live
<1>9. \A b \in Pool : \A m \in Conn : Entered(b, m)' => m = n \/ Entered(b, m)
  BY <1>1, <1>3 DEF Others, Entered, Calling
<1>10. \A m \in Conn \ {n} : link'[m] = link[m]
  BY <1>3 DEF Carries
<1>11. Live(n)'
  BY <1>6 DEF Live
<1> QED
  BY <1>8, <1>9, <1>10, <1>11 DEF Heard

LEMMA CallsHeard ==
  ASSUME TypeInv, NEW x \in Pool, Calls(x), Heard
  PROVE  Heard'
<1>1. PICK n \in Conn : n = job[x].conn
  BY CallsIs
<1>2. /\ Entered(x, n) /\ UNCHANGED queue /\ Others(x) /\ ~Served(x)
      /\ ~SayBye(x) => Calling(x)' /\ job'[x].conn = n
  BY <1>1, CallsIs
<1>3. \A m \in Conn : "server" \in link'[m].ends => "server" \in link[m].ends
  <2>1. ~SayBye(x) => \A m \in Conn : link'[m].ends = link[m].ends
    BY <1>1, SendUpdateDoes, ReadAckDoes, SendHeaderDoes, SendBlockDoes, ReadStoredDoes, CarriesEnds DEF Calls
  <2>2. SayBye(x) => /\ link'[n].ends = link[n].ends \ {"replayer"}
                     /\ \A m \in Conn \ {n} : link'[m] = link[m]
    BY <1>1, SayByeDoes DEF Carries
  <2> QED
    BY <2>1, <2>2
<1>4. /\ \A m : \A b \in Pool \ {x} : Entered(b, m)' <=> Entered(b, m)
      /\ \A m : Live(m) => Serves(x, m) \/ Live(m)'
  BY <1>2, OthersStay, OthersHeard
<1>5. \A m : Entered(x, m)' => Entered(x, m)
  <2>1. SayBye(x) => ~Calling(x)'
    BY SaidBye DEF Calling
  <2> QED
    BY <1>2, <2>1 DEF Entered
<1>6. \A m : ~Serves(x, m)
  BY <1>2 DEF Serves
<1> QED
  BY <1>3, <1>4, <1>5, <1>6, HeardSame

LEMMA HelpsHeard ==
  ASSUME TypeInv, NEW x \in Pool, Helps(x), Heard
  PROVE  Heard'
<1>1. PICK n \in Conn : n = job[x].conn
  BY HelpsIs
<1>2. /\ Serves(x, n) /\ UNCHANGED queue
      /\ \A c \in Pool \ {x} : AlmostSame(c)
      /\ job'[x].at \in {"serve", "header", "storing", "accept"}
      /\ Served(x)' => job'[x].conn = n
  BY <1>1, HelpsIs
<1>3. /\ \A m : \A b \in Pool \ {x} : Entered(b, m)' <=> Entered(b, m)
      /\ \A m : Live(m) => Serves(x, m) \/ Live(m)'
  BY <1>2, OthersHeard
<1>4. \A m : ~Entered(x, m)'
  BY <1>2 DEF Entered, Calling
<1>5. \A m : Serves(x, m) => m = n
  BY <1>2 DEF Serves
<1>6. CASE ServeBye(x)
  <2>1. link'[n].ends = {} /\ \A m \in Conn \ {n} : link'[m] = link[m]
    BY <1>1, <1>6, ServeByeDoes DEF Carries
  <2> QED
    BY <1>3, <1>4, <1>5, <2>1, HeardSame
<1>7. CASE ~ServeBye(x)
  <2>1. \A m \in Conn : link'[m].ends = link[m].ends
    BY <1>1, <1>7, ServeRmDoes, ServePutDoes, NoSuchFileDoes, OpenFileDoes, RefuseFileDoes, StoreBlockDoes,
       CarriesEnds DEF Helps
  <2>2. job'[x].at \in {"serve", "header", "storing"}
    BY <1>7, ServeRmDoes, ServePutDoes, NoSuchFileDoes, OpenFileDoes, RefuseFileDoes, StoreBlockDoes, ServingIs
       DEF Helps
  <2>3. Serves(x, n)'
    BY <1>2, <2>2 DEF Serves, Served
  <2>4. Live(n)'
    BY <2>3 DEF Live
  <2> QED
    BY <1>3, <1>4, <1>5, <2>1, <2>4, HeardSame
<1> QED
  BY <1>6, <1>7

\* Who is lost takes its end of the connection with it.
LEMMA LosesHeard ==
  ASSUME TypeInv, NEW x \in Pool, Loses(x), Heard
  PROVE  Heard'
<1>1. ASSUME NEW end, Others(x), UNCHANGED queue, \A m : ~Entered(x, m)', Closes(job[x].conn, end),
             Served(x) => end = "server" /\ job[x].conn \in Conn
      PROVE  Heard'
  <2>1. /\ \A m : \A b \in Pool \ {x} : Entered(b, m)' <=> Entered(b, m)
        /\ \A m : Live(m) => Serves(x, m) \/ Live(m)'
    BY <1>1, OthersStay, OthersHeard
  <2>2. \A m \in Conn : "server" \in link'[m].ends => "server" \in link[m].ends
    BY <1>1 DEF Closes
  <2>3. \A m \in Conn : Serves(x, m) => "server" \notin link'[m].ends
    BY <1>1 DEF Closes, Serves
  <2> QED
    BY <1>1, <2>1, <2>2, <2>3, HeardSame
<1>2. CASE Kill(x)
  <2>1. Others(x) /\ UNCHANGED queue /\ job'[x] = Dead
        /\ Closes(job[x].conn, IF Replaying(x) THEN "replayer" ELSE "server")
    BY <1>2, KillDoes
  <2>2. \A m : ~Entered(x, m)'
    BY <2>1, DeadIs DEF Entered, Calling
  <2>3. Served(x) => ~Replaying(x) /\ job[x].conn \in Conn
    BY ServerIs DEF Served, Replaying
  <2> QED
    BY <1>1, <2>1, <2>2, <2>3
<1>3. CASE PeerLost(x)
  <2>1. Others(x) /\ UNCHANGED queue /\ Closes(job[x].conn, "replayer") /\ ~Served(x)
    BY <1>3, PeerLostDoes DEF Replaying, Served
  <2>2. job'[x].at \in {"dead", "peer"}
    BY <1>3, PeerLostDoes, DeadIs, NextPeerIs
  <2> QED
    BY <1>1, <2>1, <2>2 DEF Entered, Calling
<1>4. CASE ReplayerLost(x)
  <2>1. Others(x) /\ UNCHANGED queue /\ Closes(job[x].conn, "server") /\ job[x].conn \in Conn
    BY <1>4, ReplayerLostDoes
  <2>2. job'[x].at \in {"dead", "accept"}
    BY <1>4, ReplayerLostDoes, DeadIs
  <2> QED
    BY <1>1, <2>1, <2>2 DEF Entered, Calling
<1>5. CASE Stray(x)
  <2>1. PICK n \in Conn : n = job[x].conn
    BY <1>5, StrayDoes
  <2>2. /\ \A b \in Pool : IF job[b].conn = n THEN job'[b].at = "astray" ELSE job'[b] = job[b]
        /\ UNCHANGED link /\ UNCHANGED queue
    BY <1>5, <2>1, StrayDoes, DeadIs
  <2>3. \A m : \A b \in Pool : Entered(b, m)' => Entered(b, m) /\ m # n
    BY <2>2 DEF Entered, Calling
  <2>4. \A m : \A b \in Pool : Serves(b, m) => m = n \/ Serves(b, m)'
    BY <2>2 DEF Serves, Served
  <2>5. \A m : Live(m) => m = n \/ Live(m)'
    BY <2>2, <2>4 DEF Live, In
  <2> QED
    BY <2>2, <2>3, <2>5, HeardSame
<1>6. CASE StrayPut(x)
  <2>1. Others(x) /\ UNCHANGED link /\ UNCHANGED queue
    BY <1>6 DEF StrayPut, Becomes, Others
  <2>2. \A m : ~Entered(x, m)' /\ ~Serves(x, m)
    BY <1>6, StrayPutDoes, DeadIs DEF Entered, Calling, Serves, Served
  <2>3. /\ \A m : \A b \in Pool \ {x} : Entered(b, m)' <=> Entered(b, m)
        /\ \A m : Live(m) => Serves(x, m) \/ Live(m)'
    BY <2>1, OthersStay, OthersHeard
  <2> QED
    BY <2>1, <2>2, <2>3, HeardSame
<1> QED
  BY <1>2, <1>3, <1>4, <1>5, <1>6 DEF Loses

LEMMA HeardNext ==
  ASSUME TypeInv, ConnInv, Heard, [Next]_vars
  PROVE  Heard'
<1>1. CASE Next
  <2>1. PICK x \in Pool : Moves(x)
    BY <1>1, NextIs DEF Moves
  <2> QED
    BY <2>1, LocalHeard, DialHeard, AcceptHeard, CallsHeard, HelpsHeard, LosesHeard DEF Moves
<1>2. CASE UNCHANGED vars
  BY <1>2 DEF vars, Heard, Entered, Calling, Live, Serves, Served, In
<1> QED
  BY <1>1, <1>2

\* Of what is on its way to the one that serves, and where that one is then.
LEMMA WaitsWhy ==
  ASSUME TypeInv, ConnInv, ProtoInv, Heard
  PROVE  WaitsForAReason
<1> SUFFICES ASSUME NEW a \in Pool, At(a, "ack") \/ At(a, "stored"), link[job[a].conn].back = <<>>,
                    "server" \in link[job[a].conn].ends, ~Queued(a), ~CutShort(a)
             PROVE  \E b \in Pool : Served(b) /\ job[b].conn = job[a].conn /\ HasItsMessage(b)
  BY DEF WaitsForAReason
<1>1. Calling(a)
  BY DEF Calling, At
<1>2. PICK n \in Conn : n = job[a].conn
  BY <1>1, ConnType DEF Calling
<1>3. PICK e : e = EntryOf(a)
  OBVIOUS
<1>4. Entered(a, n)
  BY <1>1, <1>2 DEF Entered
<1>5. \A s \in Slave : ~In(n, s)
  BY <1>2, <1>4 DEF ConnInv, QueuedThere, In, Queued, Peer
<1>6. PICK b \in Pool : Serves(b, n)
  BY <1>2, <1>4, <1>5 DEF Heard, Live
<1>7. Step(job[a].at, n, e) /\ link[n].back = <<>>
  BY <1>1, <1>2, <1>3 DEF ProtoInv
<1>8. \A m : link[n].back # <<m>>
  BY <1>7
<1>9. CASE At(a, "ack")
  <2>1. (Sent(n, Update(e)) \/ LeftTo(n, e)) /\ Waits(n)
    BY <1>7, <1>8, <1>9 DEF Step, AtAck, Told, At
  <2>2. job[b].at = "serve" /\ job[b].conn = n
    BY <1>6, <2>1 DEF Waits, Serves
  <2>3. link[n].out # <<>> /\ Head(link[n].out).kind \in {"update", "block"}
    <3>1. Head(<<Update(e)>>).kind = "update" /\ <<Update(e)>> # <<>>
      BY HeadTail DEF Update
    <3>2. \A w : Head(<<Block(w), Update(e)>>).kind = "block" /\ <<Block(w), Update(e)>> # <<>>
      BY HeadTail DEF Block
    <3> QED
      BY <2>1, <3>1, <3>2 DEF Sent, LeftTo
  <2> QED
    BY <1>2, <1>6, <2>2, <2>3 DEF HasItsMessage, Reads, At, Serves
<1>10. CASE At(a, "stored")
  <2>1. AtStored(n, e)
    BY <1>7, <1>10 DEF Step, At
  <2>2. CASE \E v \in File : Sent(n, Header(v)) /\ Heads(n, e.path)
    <3>1. job[b].at = "header" /\ job[b].conn = n
      BY <1>6, <2>2 DEF Heads, Serves
    <3>2. link[n].out # <<>> /\ Head(link[n].out).kind = "header"
      BY <2>2, HeadTail, KindsAre DEF Sent
    <3> QED
      BY <1>2, <1>6, <3>1, <3>2 DEF HasItsMessage, Reads, At, Serves
  <2>3. CASE Both(n) /\ Heads(n, e.path)
    <3>1. job[b].at = "header" /\ job[b].conn = n
      BY <1>6, <2>3 DEF Heads, Serves
    <3>2. link[n].out # <<>> /\ Head(link[n].out).kind = "header"
      <4>1. PICK v \in Full, w \in Full : link[n].out = <<Header(v), Block(w)>>
        BY <2>3 DEF Both
      <4>2. v \in File
        BY DEF Full, File
      <4>3. link[n].out # <<>> /\ Head(link[n].out) = Header(v)
        BY <4>1, HeadTail, Zenon
      <4> QED
        BY <4>2, <4>3, KindsAre
    <3> QED
      BY <1>2, <1>6, <3>1, <3>2 DEF HasItsMessage, Reads, At, Serves
  <2>4. CASE \E w \in Full : Sent(n, Block(w)) /\ Stores(n, e.path)
    <3>1. job[b].at = "storing" /\ job[b].conn = n
      BY <1>6, <2>4 DEF Stores, Serves
    <3>2. link[n].out # <<>> /\ Head(link[n].out).kind = "block"
      BY <2>4, HeadTail, KindsAre DEF Sent
    <3> QED
      BY <1>2, <1>6, <3>1, <3>2 DEF HasItsMessage, Reads, At, Serves
  <2>5. CASE Quiets(n) /\ Stores(n, e.path)
    <3>1. job[b].at = "storing" /\ job[b].conn = n /\ link[n].out = <<>>
      BY <1>6, <2>5 DEF Stores, Serves, Quiets
    <3>2. CutShort(a)
      BY <1>2, <1>10, <3>1 DEF CutShort, At
    <3> QED
      BY <3>2
  <2> QED
    BY <1>8, <2>1, <2>2, <2>3, <2>4, <2>5 DEF AtStored, Told, Left
<1> QED
  BY <1>9, <1>10

\* What a replay that has nothing to read waits for: a worker of the other slave
\* that has its message to read, or the block of a file that it refused, or has
\* gone, or has not accepted the connection; or the rest of a file that was cut
\* short (coherence and the case UPDATE).
THEOREM WaitsOnlyForAReason == Spec => []WaitsForAReason
<1>1. Init => TypeInv /\ ConnInv /\ ProtoInv /\ Heard
  BY DeliverInit, HeardInit DEF DeliverInv
<1>2. TypeInv /\ ConnInv /\ ProtoInv /\ Heard /\ [Next]_vars => (TypeInv /\ ConnInv /\ ProtoInv /\ Heard)'
  BY TypeNext, ConnNext, ProtoNext, HeardNext
<1>3. TypeInv /\ ConnInv /\ ProtoInv /\ Heard => WaitsForAReason
  BY WaitsWhy
<1> QED
  BY <1>1, <1>2, <1>3, PTL DEF Spec
=============================================================================

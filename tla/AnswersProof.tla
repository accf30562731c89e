------------------------------ MODULE AnswersProof ------------------------------
(***************************************************************************)
(* An answer of the slave is true when it is given (Session), for any      *)
(* paths, files and contents, when no file changes under a transfer.  The  *)
(* rest of the session is in SessionProof.                                 *)
(***************************************************************************)
EXTENDS SessionProof

-----------------------------------------------------------------------------
\* The file of the command, at the slave and at the client.
Theirs == srv[c.path]
Mine   == local[c.path]

Live == w.pc # "accept" /\ c.pc # "down"

\* What has come of a get, and what is on its way, is the file of the slave.
Getting ==
  c.cmd = "GET" =>
    /\ c.pc = "header" /\ s2c # <<>> /\ s2c[1].error = NO_ERROR_R =>
         /\ w.path = c.path /\ Theirs # NONE /\ s2c[1].total_size = Len(Theirs)
         /\ \A i \in 2..Len(s2c) : s2c[i].data = Theirs[i - 1]
    /\ c.pc = "blocks" =>
         /\ w.path = c.path /\ Theirs # NONE /\ c.total = Len(Theirs)
         /\ \A i \in 1..Len(c.got) : c.got[i] = Theirs[i]
         /\ \A i \in 1..Len(Out) : Out[i].data = Theirs[Len(c.got) + i]

\* What has come of a put, and what is on its way, is the file of the client.
Putting ==
  /\ c.pc = "sending" => c.total = Len(Mine)
  /\ w.pc = "header" /\ c2s # <<>> /\ c2s[1].error = NO_ERROR_R =>
       /\ Mine # NONE /\ c2s[1].total_size = Len(Mine)
       /\ \A i \in 2..Len(c2s) : c2s[i].data = Mine[i - 1]
  /\ w.pc \in {"open", "blocks"} =>
       /\ Mine # NONE /\ w.total = Len(Mine)
       /\ \A i \in 1..Len(In) : In[i].data = Mine[w.count + i]
  /\ w.pc = "blocks" =>
       /\ Len(Theirs) = w.count
       /\ \A i \in 1..w.count : Theirs[i] = Mine[i]
  /\ w.pc = "stored" => Theirs = Mine

\* What an answer on its way says is so.
Said ==
  s2c # <<>> /\ w.path = c.path =>
    /\ c.pc \in {"sending", "result"} /\ s2c[1].error = NO_ERROR_R => Theirs = Mine
    /\ c.pc = "response" /\ s2c[1].content = "REMOVED" => Theirs = NONE

AnswersInv == Live => Getting /\ Putting /\ Said

LEMMA Links ==
  ASSUME SessionInv, Live
  PROVE  wend = "open" /\ cend = "open"
BY DEF SessionInv, EndsInv, TypeOK, Live

\* Nothing of a file is on its way.
LEMMA Quiet ==
  ASSUME c'.pc \notin {"blocks", "sending"}, w'.pc \notin {"header", "open", "blocks", "stored"},
         s2c' = <<>> \/ c'.pc \notin {"header", "result", "response"}
  PROVE  AnswersInv'
BY DEF AnswersInv, Getting, Putting, Said

\* The command is not a get, the other two parts remain to be seen.
LEMMA NotGetting ==
  ASSUME c.pc \notin {"header", "blocks"} \/ c.cmd # "GET", UNCHANGED c
  PROVE  Getting'
BY DEF Getting

\* Nor is it a put.
LEMMA NotPutting ==
  ASSUME c'.pc # "sending", w'.pc \notin {"header", "open", "blocks", "stored"}
  PROVE  Putting'
BY DEF Putting

LEMMA NotSaid ==
  ASSUME s2c' = <<>> \/ c'.pc \notin {"sending", "result", "response"}
  PROVE  Said'
BY DEF Said

LEMMA TrueAccepted ==
  ASSUME Accepted
  PROVE  AnswersInv'
<1>1. c'.pc = "prompt" /\ w'.pc = "request"
  BY DEF Accepted, NoClient, NoWorker
<1> QED
  BY <1>1, Quiet

LEMMA TrueAsk ==
  ASSUME SessionInv, NEW type \in Commands, NEW p \in Path, Ask(type, p)
  PROVE  AnswersInv'
<1>1. c.pc = "prompt" /\ UNCHANGED <<w, s2c>> /\ c' = [c EXCEPT !.pc = Awaits[type], !.cmd = type, !.path = p]
  BY DEF Ask, ClientWrites, down
<1>2. c'.pc \in {"header", "response", "ready", "bye"}
  BY <1>1 DEF SessionInv, TypeOK, ClientState, Awaits, Commands
<1>3. s2c = <<>>
  BY <1>1 DEF SessionInv, ClientInv, AtMost, Answers
<1>4. Live => w.pc = "request"
  <2>1. Live => wend = "open"
    BY Links
  <2> QED
    BY <1>1, <2>1, SessionAssumption DEF SessionInv, Live, Joint, ClientPlace, CmdOf, WorkerPlace, Commands, Awaits, Same, TypeOK, WorkerState
<1>5. CASE w.pc = "accept"
  BY <1>1, <1>5 DEF AnswersInv, Live
<1>6. CASE w.pc = "request"
  BY <1>1, <1>2, <1>3, <1>6, Quiet
<1> QED
  BY <1>1, <1>4, <1>5, <1>6 DEF Live

\* The client is back at its prompt.
LEMMA TruePrompt ==
  ASSUME SessionInv', c'.pc = "prompt"
  PROVE  AnswersInv'
<1>1. CASE w'.pc = "accept"
  BY <1>1 DEF AnswersInv, Live
<1>2. CASE w'.pc # "accept"
  <2>1. wend' = "open"
    BY <1>2 DEF SessionInv, EndsInv
  <2>2. w'.pc = "request"
    BY <2>1, <1>2, SessionAssumption DEF SessionInv, Joint, ClientPlace, CmdOf, WorkerPlace, Commands, Awaits, Same, TypeOK, WorkerState
  <2> QED
    BY <2>2, Quiet
<1> QED
  BY <1>1, <1>2

LEMMA TrueReadHeader ==
  ASSUME SessionInv, SessionInv', AnswersInv, ReadHeader
  PROVE  AnswersInv'
<1>1. /\ c.pc = "header" /\ ClientReads /\ UNCHANGED <<srv, local, w>>
      /\ s2c # <<>> /\ Head(s2c) = s2c[1] /\ Announced(s2c, Sent)
      /\ Len(Out') = Len(s2c) - 1
      /\ \A i \in 1..Len(Out') : Out'[i] = s2c[i + 1]
  BY ClientReadsFacts DEF ReadHeader, SessionInv, ClientInv, files
<1>2. CASE s2c[1].error # NO_ERROR_R
  <2>1. c'.pc = "prompt"
    BY <1>1, <1>2 DEF ReadHeader, Prompt, NoClient
  <2> QED
    BY <2>1, TruePrompt
<1>3. CASE s2c[1].error = NO_ERROR_R
  <2>1. c' = [c EXCEPT !.pc = "blocks", !.total = s2c[1].total_size]
    BY <1>1, <1>3 DEF ReadHeader
  <2>2. /\ c'.pc = "blocks" /\ c'.cmd = c.cmd /\ c'.path = c.path
        /\ c'.total = s2c[1].total_size /\ c'.got = <<>>
    BY <1>1, <2>1 DEF SessionInv, TypeOK, ClientState, ClientPlace
  <2> SUFFICES ASSUME Live' PROVE AnswersInv'
    BY DEF AnswersInv
  <2>3. Live /\ Getting
    BY <1>1 DEF AnswersInv, Live
  <2>4. w.pc \in {"request", "send"}
    BY <1>1, <2>3, Links, SessionAssumption DEF SessionInv, Joint, Strayed, Awaits, Commands, Live, TypeOK, WorkerState
  <2>5. Getting'
    <3> SUFFICES ASSUME c.cmd = "GET" PROVE Getting'
      BY <2>2 DEF Getting
    <3>1. /\ w.path = c.path /\ Theirs # NONE /\ s2c[1].total_size = Len(Theirs)
          /\ \A i \in 2..Len(s2c) : s2c[i].data = Theirs[i - 1]
      BY <1>1, <1>3, <2>3 DEF Getting
    <3>2. Theirs' = Theirs /\ Len(c'.got) = 0
      BY <1>1, <2>2 DEF Theirs
    <3>3. Len(s2c) \in Nat
      BY DEF SessionInv, TypeOK
    <3>4. \A i \in 1..Len(Out') : Out'[i].data = Theirs[i]
      <4> SUFFICES ASSUME NEW i \in 1..Len(Out') PROVE Out'[i].data = Theirs[i]
        OBVIOUS
      <4>1. i + 1 \in 2..Len(s2c) /\ (i + 1) - 1 = i
        BY <1>1, <3>3
      <4> QED
        BY <1>1, <3>1, <4>1
    <3>5. \A i \in 1..Len(Out') : Out'[i].data = Theirs[Len(c'.got) + i]
      BY <1>1, <3>2, <3>3, <3>4
    <3>6. \A i \in 1..Len(c'.got) : c'.got[i] = Theirs[i]
      BY <3>2
    <3> QED
      BY <1>1, <2>2, <3>1, <3>2, <3>5, <3>6 DEF Getting
  <2>6. Putting' /\ Said'
    BY <1>1, <2>2, <2>4, NotPutting, NotSaid
  <2> QED
    BY <2>5, <2>6 DEF AnswersInv
<1> QED
  BY <1>2, <1>3

LEMMA TrueReadBlock ==
  ASSUME SessionInv, AnswersInv, ReadBlock
  PROVE  AnswersInv'
<1>1. /\ c.pc = "blocks" /\ UNCHANGED <<srv, local, w>>
      /\ Len(Out) \in Nat \ {0}
      /\ Len(Out') = Len(Out) - 1
      /\ \A i \in 1..Len(Out') : Out'[i] = Out[i + 1]
  BY ClientReadsOnFacts DEF ReadBlock, SessionInv, files
<1>2. c' = [c EXCEPT !.got = Append(c.got, Out[1].data)]
  BY ClientReadsOnFacts DEF ReadBlock, Out, SessionInv
<1>3. c \in ClientState /\ c.got \in Seq(Value \cup {NONE})
  BY DEF SessionInv, TypeOK, ClientState
<1>4. /\ c'.pc = "blocks" /\ c'.cmd = c.cmd /\ c'.path = c.path /\ c'.total = c.total
      /\ c'.got = Append(c.got, Out[1].data)
  BY <1>1, <1>2, <1>3 DEF ClientState
<1> SUFFICES ASSUME Live' PROVE AnswersInv'
  BY DEF AnswersInv
<1>5. Live /\ Getting
  BY <1>1 DEF AnswersInv, Live
<1>6. w.pc \in {"request", "send"}
  BY <1>1, <1>5, Links DEF SessionInv, Joint, Strayed, Awaits, ClientPlace, CmdOf, Live, TypeOK, WorkerState
<1>7. Getting'
  <2> SUFFICES ASSUME c.cmd = "GET" PROVE Getting'
    BY <1>4 DEF Getting
  <2>1. /\ w.path = c.path /\ Theirs # NONE /\ c.total = Len(Theirs)
        /\ \A i \in 1..Len(c.got) : c.got[i] = Theirs[i]
        /\ \A i \in 1..Len(Out) : Out[i].data = Theirs[Len(c.got) + i]
    BY <1>1, <1>5 DEF Getting
  <2>2. Theirs' = Theirs
    BY <1>1, <1>4 DEF Theirs
  <2> DEFINE d == Out[1].data
  <2>3. PICK n \in Nat : n = Len(c.got)
    BY <1>3
  <2>4. d = Theirs[n + 1]
    BY <1>1, <2>1, <2>3
  <2>5. d \in Value \cup {NONE}
    <3>1. Blocks(Out, Sent)
      BY <1>1 DEF SessionInv, ClientInv
    <3> QED
      BY <1>1, <3>1 DEF Blocks, Sent
  <2> HIDE DEF d
  <2>6. /\ Len(Append(c.got, d)) = n + 1
        /\ \A i \in 1..n : Append(c.got, d)[i] = c.got[i]
        /\ Append(c.got, d)[n + 1] = d
    BY <1>3, <2>3, <2>5
  <2>7. c'.got = Append(c.got, d)
    BY <1>4 DEF d
  <2>8. Len(c'.got) = n + 1 /\ \A i \in 1..(n + 1) : c'.got[i] = Theirs[i]
    <3>1. \A i \in 1..n : c'.got[i] = Theirs[i]
      BY <2>1, <2>3, <2>6, <2>7
    <3>2. c'.got[n + 1] = Theirs[n + 1]
      BY <2>4, <2>6, <2>7
    <3>3. \A i \in 1..(n + 1) : i \in 1..n \/ i = n + 1
      OBVIOUS
    <3> QED
      BY <2>6, <2>7, <3>1, <3>2, <3>3
  <2>9. \A i \in 1..Len(Out') : Out'[i].data = Theirs[(n + 1) + i]
    <3> SUFFICES ASSUME NEW i \in 1..Len(Out') PROVE Out'[i].data = Theirs[(n + 1) + i]
      OBVIOUS
    <3>1. i \in Nat /\ i + 1 \in 1..Len(Out) /\ n + (i + 1) = (n + 1) + i
      BY <1>1
    <3> QED
      BY <1>1, <2>1, <2>3, <3>1
  <2> QED
    BY <1>1, <1>4, <2>1, <2>2, <2>8, <2>9 DEF Getting
<1>8. Putting' /\ Said'
  BY <1>1, <1>4, <1>6, NotPutting, NotSaid
<1> QED
  BY <1>7, <1>8 DEF AnswersInv

LEMMA TrueReadReady ==
  ASSUME SessionInv, ReadReady
  PROVE  AnswersInv'
<1>1. /\ c.pc = "ready" /\ UNCHANGED <<srv, local, w>>
      /\ ClientReads /\ UNCHANGED <<c2s, wend>> /\ s2c # <<>>
      /\ c' = [c EXCEPT !.pc = "upload"]
  BY ClientReadsFacts DEF ReadReady, SessionInv, files
<1>2. c'.pc = "upload"
  BY <1>1 DEF SessionInv, TypeOK, ClientState
<1> SUFFICES ASSUME Live' PROVE AnswersInv'
  BY DEF AnswersInv
<1>3. Live
  BY <1>1 DEF Live
<1>4. w.pc = "header" /\ c2s = <<>>
  BY <1>1, <1>3, Links DEF SessionInv, Joint, Strayed, Live, TypeOK, WorkerState
<1> QED
  BY <1>1, <1>2, <1>4 DEF AnswersInv, Getting, Putting, Said

LEMMA TrueUploadHeader ==
  ASSUME SessionInv, UploadHeader
  PROVE  AnswersInv'
<1>1. c.pc = "upload" /\ UNCHANGED <<srv, local, w>>
  BY DEF UploadHeader, files
<1>2. /\ c.path \in Path /\ c \in ClientState /\ s2c = <<>>
  BY <1>1 DEF SessionInv, ClientPlace, ClientInv, AtMost, Answers, TypeOK
<1>3. PICK m \in Message :
        /\ ClientWrites(m)
        /\ c'.pc \in {"result", "sending"} /\ c'.path = c.path
        /\ c'.pc = "sending" => c'.total = Len(Mine)
        /\ m.error = NO_ERROR_R => Mine # NONE /\ m.total_size = Len(Mine)
  <2>1. CASE Mine = NONE
    <3>1. ClientWrites(Header(PATH_ERROR_R, 0)) /\ c' = [c EXCEPT !.pc = "result"]
      BY <2>1 DEF UploadHeader, Mine
    <3>2. Header(PATH_ERROR_R, 0) \in Message
      BY DEF Header, Message
    <3>3. c'.pc = "result" /\ c'.path = c.path
      BY <1>2, <3>1 DEF ClientState
    <3>4. Header(PATH_ERROR_R, 0).error # NO_ERROR_R
      BY DEF Header, PATH_ERROR_R, NO_ERROR_R
    <3> QED
      BY <3>1, <3>2, <3>3, <3>4
  <2>2. CASE Mine # NONE
    <3> DEFINE n == Len(Mine)
    <3>1. /\ ClientWrites(Header(NO_ERROR_R, n))
          /\ c' = [c EXCEPT !.pc = IF Mine = <<>> THEN "result" ELSE "sending", !.total = n]
      BY <2>2 DEF UploadHeader, Mine
    <3>2. n \in Nat
      BY <1>2, <2>2 DEF SessionInv, TypeOK, File, Mine
    <3>3. Header(NO_ERROR_R, n) \in Message
      BY <3>2 DEF Header, Message
    <3>4. c'.pc \in {"result", "sending"} /\ c'.path = c.path /\ c'.total = n
      BY <1>2, <3>1, <3>2 DEF ClientState
    <3>5. Header(NO_ERROR_R, n).total_size = n
      BY DEF Header
    <3> QED
      BY <2>2, <3>1, <3>3, <3>4, <3>5
  <2> QED
    BY <2>1, <2>2
<1> SUFFICES ASSUME Live' PROVE AnswersInv'
  BY DEF AnswersInv
<1>4. Live
  BY <1>1 DEF Live
<1>5. w.pc = "header" /\ c2s = <<>>
  BY <1>1, <1>4, Links, SessionAssumption DEF SessionInv, Joint, Strayed, Awaits, TypeOK, WorkerState, ClientPlace, CmdOf, Live
<1>6. s2c' = <<>> /\ Len(c2s') = 1 /\ c2s'[1] = m
  <2>1. Len(c2s) = 0 /\ TypeOK /\ wend = "open"
    BY <1>4, <1>5, Links DEF SessionInv
  <2> QED
    BY <1>2, <1>3, <2>1, ClientWritesFacts
<1>7. Mine' = Mine
  BY <1>1, <1>3 DEF Mine
<1>8. Putting'
  <2>1. 2..Len(c2s') = {}
    BY <1>6
  <2>2. \A i \in 2..Len(c2s') : c2s'[i].data = Mine[i - 1]
    BY <2>1
  <2> QED
    BY <1>1, <1>3, <1>5, <1>6, <1>7, <2>2 DEF Putting
<1>9. Getting' /\ Said'
  BY <1>3, <1>6, NotSaid DEF Getting
<1> QED
  BY <1>8, <1>9 DEF AnswersInv

LEMMA TrueUploadBlock ==
  ASSUME SessionInv, AnswersInv, UploadBlock
  PROVE  AnswersInv'
<1>1. c.pc = "sending" /\ UNCHANGED <<srv, local, w>>
  BY DEF UploadBlock, files
<1>2. /\ c.path \in Path /\ c \in ClientState
      /\ Mine \in Seq(Value) /\ Len(Mine) \in Nat
      /\ c.count \in Nat /\ c.total \in Nat /\ c.count < c.total
  BY <1>1 DEF SessionInv, ClientPlace, TypeOK, ClientState, File, Mine
<1> SUFFICES ASSUME Live' PROVE AnswersInv'
  BY DEF AnswersInv
<1>3. Live /\ Putting /\ Said /\ TypeOK /\ wend = "open"
  BY <1>1, Links DEF AnswersInv, Live, SessionInv
<1>4. c.total = Len(Mine)
  BY <1>1, <1>3 DEF Putting
<1> DEFINE v == Mine[c.count + 1]
<1>5. /\ ClientWrites(Block(v))
      /\ c' = [c EXCEPT !.pc = IF c.count + 1 = c.total THEN "result" ELSE "sending",
                        !.count = c.count + 1]
  <2>1. c.count < Len(Mine)
    BY <1>2, <1>4
  <2> QED
    BY <2>1 DEF UploadBlock, Mine
<1>6. /\ c'.pc \in {"sending", "result"} /\ c'.path = c.path /\ c'.total = c.total
  BY <1>2, <1>5 DEF ClientState
<1>7. v \in Value
  BY <1>2, <1>4
<1> HIDE DEF v
<1>8. Block(v) \in Message /\ Block(v).data = v
  BY <1>7 DEF Block, Message
<1>9. /\ UNCHANGED <<s2c, wend>>
      /\ c2s' # <<>> /\ Len(c2s') = Len(c2s) + 1 /\ c2s'[Len(c2s) + 1] = Block(v)
      /\ \A i \in 1..Len(c2s) : c2s'[i] = c2s[i]
      /\ Len(In') = Len(In) + 1 /\ In'[Len(In) + 1] = Block(v)
      /\ \A i \in 1..Len(In) : In'[i] = In[i]
  BY <1>3, <1>5, <1>8, ClientWritesFacts
<1>10. Mine' = Mine /\ Theirs' = Theirs
  BY <1>1, <1>6 DEF Mine, Theirs
<1>11. /\ Len(c2s) \in Nat /\ Len(In) \in Nat /\ (c2s = <<>> <=> Len(c2s) = 0)
  BY <1>3, Streams
<1>12. ASSUME w.pc = "header"
       PROVE  /\ Mine # NONE /\ c2s'[1].total_size = Len(Mine)
              /\ \A i \in 2..Len(c2s') : c2s'[i].data = Mine[i - 1]
  <2>1. c2s # <<>> /\ c2s[1] = Header(NO_ERROR_R, c.total) /\ Len(c2s) - 1 = c.count
    BY <1>1, <1>3, <1>12 DEF SessionInv, Joint
  <2>2. c2s[1].error = NO_ERROR_R
    BY <2>1 DEF Header
  <2>3. /\ Mine # NONE /\ c2s[1].total_size = Len(Mine)
        /\ \A i \in 2..Len(c2s) : c2s[i].data = Mine[i - 1]
    BY <1>3, <1>12, <2>1, <2>2 DEF Putting
  <2>4. Len(c2s) \in Nat \ {0} /\ c2s'[1] = c2s[1]
    BY <1>9, <1>11, <2>1
  <2>5. \A i \in 2..Len(c2s') : c2s'[i].data = Mine[i - 1]
    <3> SUFFICES ASSUME NEW i \in 2..Len(c2s') PROVE c2s'[i].data = Mine[i - 1]
      OBVIOUS
    <3>1. CASE i <= Len(c2s)
      BY <1>9, <1>11, <2>3, <3>1
    <3>2. CASE i = Len(c2s) + 1
      <4>1. i - 1 = c.count + 1
        BY <1>2, <2>1, <2>4, <3>2
      <4> QED
        BY <1>8, <1>9, <3>2, <4>1 DEF v
    <3>3. i <= Len(c2s) \/ i = Len(c2s) + 1
      BY <1>9, <1>11
    <3> QED
      BY <3>1, <3>2, <3>3
  <2> QED
    BY <2>3, <2>4, <2>5
<1>13. ASSUME w.pc \in {"open", "blocks"}
       PROVE  /\ Mine # NONE /\ w.total = Len(Mine)
              /\ \A i \in 1..Len(In') : In'[i].data = Mine[w.count + i]
  <2>1. w.count + Len(In) = c.count /\ w.count \in Nat
    BY <1>1, <1>3, <1>13 DEF SessionInv, Joint, TypeOK, WorkerState
  <2>2. /\ Mine # NONE /\ w.total = Len(Mine)
        /\ \A i \in 1..Len(In) : In[i].data = Mine[w.count + i]
    BY <1>3, <1>13 DEF Putting
  <2>3. \A i \in 1..Len(In') : In'[i].data = Mine[w.count + i]
    <3> SUFFICES ASSUME NEW i \in 1..Len(In') PROVE In'[i].data = Mine[w.count + i]
      OBVIOUS
    <3>1. CASE i <= Len(In)
      BY <1>9, <1>11, <2>2, <3>1
    <3>2. CASE i = Len(In) + 1
      <4>1. w.count + i = c.count + 1
        BY <1>2, <1>11, <2>1, <3>2
      <4> QED
        BY <1>8, <1>9, <3>2, <4>1 DEF v
    <3>3. i <= Len(In) \/ i = Len(In) + 1
      BY <1>9, <1>11
    <3> QED
      BY <3>1, <3>2, <3>3
  <2> QED
    BY <2>2, <2>3
<1>14. Putting'
  <2>1. c'.pc = "sending" => c'.total = Len(Mine')
    BY <1>4, <1>6, <1>10
  <2>2. /\ w.pc = "blocks" => /\ Len(Theirs) = w.count
                              /\ \A i \in 1..w.count : Theirs[i] = Mine[i]
        /\ w.pc = "stored" => Theirs = Mine
    BY <1>3 DEF Putting
  <2> QED
    BY <1>1, <1>10, <1>12, <1>13, <2>1, <2>2 DEF Putting
<1>15. Getting'
  BY <1>6 DEF Getting
<1>16. Said'
  BY <1>1, <1>3, <1>6, <1>9, <1>10 DEF Said
<1> QED
  BY <1>14, <1>15, <1>16 DEF AnswersInv

-----------------------------------------------------------------------------
(* The worker. *)

\* The first message of an answer.
LEMMA FirstOfAnswer ==
  ASSUME SessionInv, NEW m \in Message, WorkerWrote(m), Live, s2c = <<>>
  PROVE  c2s' = c2s /\ In' = In /\ s2c' # <<>> /\ Len(s2c') = 1 /\ s2c'[1] = m
<1>1. TypeOK /\ cend = "open" /\ Len(s2c) = 0
  BY Links DEF SessionInv
<1> QED
  BY <1>1, WorkerWritesFacts

LEMMA TrueReadRequest ==
  ASSUME SessionInv', ReadRequest
  PROVE  AnswersInv'
<1>1. w'.pc = "handle"
  <2>1. w' = [w EXCEPT !.pc = "handle", !.cmd = Head(c2s).type, !.path = Head(c2s).path]
    BY DEF ReadRequest
  <2>2. w' \in WorkerState
    BY DEF SessionInv, TypeOK
  <2> QED
    BY <2>1, <2>2 DEF WorkerState
<1> SUFFICES ASSUME Live' PROVE AnswersInv'
  BY DEF AnswersInv
<1>2. wend' = "open"
  BY <1>1 DEF SessionInv, EndsInv, Live
<1>3. s2c' = <<>> /\ c'.pc = Awaits[c'.cmd] /\ c'.cmd \in Commands
  BY <1>1, <1>2 DEF SessionInv, Joint, WorkerPlace, Same
<1>4. c'.pc \in {"header", "response", "ready", "bye"}
  BY <1>3 DEF Awaits, Commands
<1> QED
  BY <1>1, <1>3, <1>4, Quiet

LEMMA TrueServeGet ==
  ASSUME SessionInv, ServeGet
  PROVE  AnswersInv'
<1>1. w.pc = "handle" /\ w.cmd = "GET" /\ UNCHANGED <<srv, local, c>> /\ w \in WorkerState
  BY DEF ServeGet, files, SessionInv, TypeOK
<1> SUFFICES ASSUME Live' PROVE AnswersInv'
  BY DEF AnswersInv
<1>2. Live
  BY <1>1 DEF Live
<1>3. Same /\ c.pc = "header" /\ s2c = <<>>
  BY <1>1, <1>2, Links DEF SessionInv, Joint, Awaits, Same
<1>4. PICK m \in Message :
        /\ WorkerWrote(m)
        /\ w'.pc \in {"request", "close", "send"} /\ w'.path = w.path
        /\ m.error = NO_ERROR_R => Theirs # NONE /\ m.total_size = Len(Theirs)
  <2>1. CASE Theirs = NONE
    <3>1. PICK ok \in BOOLEAN : /\ WorkerWrites(Header(PATH_ERROR_R, 0), ok)
                                /\ IF ok THEN Loop ELSE Leave
      BY <1>3, <2>1 DEF ServeGet, Theirs, Same
    <3>2. Header(PATH_ERROR_R, 0) \in Message /\ Header(PATH_ERROR_R, 0).error # NO_ERROR_R
      BY DEF Header, Message, PATH_ERROR_R, NO_ERROR_R
    <3>3. Loop \/ Leave
      BY <3>1
    <3>4. w'.pc \in {"request", "close"} /\ w'.path = w.path
      BY <1>1, <3>3 DEF Loop, Leave, WorkerState
    <3>5. WorkerWrote(Header(PATH_ERROR_R, 0))
      BY <3>1, Wrote
    <3> QED
      BY <3>2, <3>4, <3>5
  <2>2. CASE Theirs # NONE
    <3> DEFINE n == Len(Theirs)
    <3>1. n \in Nat
      BY <1>1, <1>3, <2>2 DEF SessionInv, TypeOK, WorkerPlace, File, Theirs, Same
    <3>2. PICK ok \in BOOLEAN :
            /\ WorkerWrites(Header(NO_ERROR_R, n), ok)
            /\ IF ~ok THEN Leave
               ELSE IF Theirs = <<>> THEN Loop
               ELSE w' = [w EXCEPT !.pc = "send", !.total = n]
      BY <1>3, <2>2 DEF ServeGet, Theirs, Same
    <3>3. Header(NO_ERROR_R, n) \in Message /\ Header(NO_ERROR_R, n).total_size = n
      BY <3>1 DEF Header, Message
    <3>4. Loop \/ Leave \/ w' = [w EXCEPT !.pc = "send", !.total = n]
      BY <3>2
    <3>5. w'.pc \in {"request", "close", "send"} /\ w'.path = w.path
      BY <1>1, <3>4 DEF Loop, Leave, WorkerState
    <3>6. WorkerWrote(Header(NO_ERROR_R, n))
      BY <3>2, Wrote
    <3> QED
      BY <2>2, <3>3, <3>5, <3>6
  <2> QED
    BY <2>1, <2>2
<1>5. Len(s2c') = 1 /\ s2c'[1] = m
  BY <1>2, <1>3, <1>4, FirstOfAnswer
<1>6. Theirs' = Theirs
  BY <1>1 DEF Theirs
<1>7. Getting'
  <2>1. 2..Len(s2c') = {}
    BY <1>5
  <2>2. \A i \in 2..Len(s2c') : s2c'[i].data = Theirs[i - 1]
    BY <2>1
  <2> QED
    BY <1>1, <1>3, <1>4, <1>5, <1>6, <2>2 DEF Getting, Same
<1>8. Putting' /\ Said'
  BY <1>1, <1>3, <1>4, NotPutting, NotSaid
<1> QED
  BY <1>7, <1>8 DEF AnswersInv

LEMMA TrueServeLs ==
  ASSUME SessionInv, ServeLs
  PROVE  AnswersInv'
<1>1. w.pc = "handle" /\ w.cmd = "LS" /\ UNCHANGED <<srv, local, c>> /\ w \in WorkerState
  BY DEF ServeLs, files, SessionInv, TypeOK
<1> SUFFICES ASSUME Live' PROVE AnswersInv'
  BY DEF AnswersInv
<1>2. Live
  BY <1>1 DEF Live
<1>3. c.cmd = "LS" /\ c.pc = "header"
  BY <1>1, <1>2, Links DEF SessionInv, Joint, Awaits, Same
<1>4. w'.pc \in {"request", "send"}
  <2>1. \/ w' = [w EXCEPT !.pc = "request", !.total = 0, !.count = 0]
        \/ w' = [w EXCEPT !.pc = "send", !.total = 1]
    BY DEF ServeLs, Loop
  <2> QED
    BY <1>1, <2>1 DEF WorkerState
<1>5. Getting'
  BY <1>1, <1>3, NotGetting
<1>6. Putting' /\ Said'
  BY <1>1, <1>3, <1>4, NotPutting, NotSaid
<1> QED
  BY <1>5, <1>6 DEF AnswersInv

LEMMA TrueSendBlock ==
  ASSUME SessionInv, AnswersInv, SendBlock
  PROVE  AnswersInv'
<1>1. w.pc = "send" /\ UNCHANGED <<srv, local, c>> /\ w \in WorkerState
      /\ w.count \in Nat
  BY DEF SendBlock, files, SessionInv, TypeOK, WorkerState
<1> SUFFICES ASSUME Live' PROVE AnswersInv'
  BY DEF AnswersInv
<1>2. Live /\ Getting /\ wend = "open" /\ cend = "open" /\ TypeOK
  BY <1>1, Links DEF Live, AnswersInv, SessionInv
<1>3. /\ Same /\ c.pc \in {"header", "blocks"}
      /\ c.pc = "header" => /\ s2c # <<>>
                            /\ s2c[1] = Header(NO_ERROR_R, w.total) /\ Len(s2c) - 1 = w.count
      /\ c.pc = "blocks" => Len(c.got) + Len(Out) = w.count
  BY <1>1, <1>2 DEF SessionInv, Joint
<1>4. Theirs' = Theirs
  BY <1>1 DEF Theirs
<1>5. Getting'
  <2> SUFFICES ASSUME c.cmd = "GET" PROVE Getting'
    BY <1>1 DEF Getting
  <2>1. w.cmd = "GET" /\ srv[w.path] = Theirs /\ Theirs \in Seq(Value) /\ w.path = c.path
    BY <1>1, <1>3 DEF Same, Theirs, SessionInv, TypeOK, WorkerPlace, File
  <2>2. CASE w.count < Len(Theirs)
    <3> DEFINE v == Theirs[w.count + 1]
    <3>1. v \in Value
      BY <1>1, <2>1, <2>2
    <3>2. PICK ok \in BOOLEAN :
            /\ WorkerWrites(Block(v), ok)
            /\ IF ~ok THEN (IF w.cmd = "GET" THEN Leave ELSE Loop)
               ELSE IF w.count + 1 = w.total THEN Loop
               ELSE w' = [w EXCEPT !.count = w.count + 1]
      BY <2>1, <2>2 DEF SendBlock
    <3> HIDE DEF v
    <3>3. Leave \/ Loop \/ w' = [w EXCEPT !.count = w.count + 1]
      BY <3>2
    <3>4. w'.path = w.path
      BY <1>1, <3>3 DEF Loop, Leave, WorkerState
    <3>5. Block(v) \in Message /\ Block(v).data = v
      BY <3>1 DEF Block, Message
    <3>6. WorkerWrote(Block(v))
      BY <3>2, Wrote
    <3>7. /\ s2c' # <<>> /\ Len(s2c') = Len(s2c) + 1 /\ s2c'[Len(s2c) + 1] = Block(v)
          /\ \A i \in 1..Len(s2c) : s2c'[i] = s2c[i]
          /\ Len(Out') = Len(Out) + 1 /\ Out'[Len(Out) + 1] = Block(v)
          /\ \A i \in 1..Len(Out) : Out'[i] = Out[i]
      BY <1>2, <3>5, <3>6, WorkerWritesFacts
    <3>8. Len(s2c) \in Nat /\ Len(Out) \in Nat /\ Len(c.got) \in Nat
      BY <1>2, Streams DEF TypeOK, ClientState
    <3>9. CASE c.pc = "header"
      <4>1. s2c # <<>> /\ s2c[1] = Header(NO_ERROR_R, w.total) /\ Len(s2c) - 1 = w.count
        BY <1>3, <3>9
      <4>2. s2c[1].error = NO_ERROR_R
        BY <4>1 DEF Header
      <4>3. /\ Theirs # NONE /\ s2c[1].total_size = Len(Theirs)
            /\ \A i \in 2..Len(s2c) : s2c[i].data = Theirs[i - 1]
        BY <1>2, <3>9, <4>1, <4>2 DEF Getting
      <4>4. Len(s2c) \in Nat \ {0} /\ s2c'[1] = s2c[1]
        BY <1>2, <3>7, <3>8, <4>1, Streams
      <4>5. \A i \in 2..Len(s2c') : s2c'[i].data = Theirs[i - 1]
        <5> SUFFICES ASSUME NEW i \in 2..Len(s2c') PROVE s2c'[i].data = Theirs[i - 1]
          OBVIOUS
        <5>1. CASE i <= Len(s2c)
          BY <3>7, <3>8, <4>3, <5>1
        <5>2. CASE i = Len(s2c) + 1
          <6>1. i - 1 = w.count + 1
            BY <1>1, <4>1, <4>4, <5>2
          <6> QED
            BY <3>5, <3>7, <5>2, <6>1 DEF v
        <5>3. i <= Len(s2c) \/ i = Len(s2c) + 1
          BY <3>7, <3>8
        <5> QED
          BY <5>1, <5>2, <5>3
      <4> QED
        BY <1>1, <1>4, <2>1, <3>4, <3>9, <4>3, <4>4, <4>5 DEF Getting
    <3>10. CASE c.pc = "blocks"
      <4>1. /\ Theirs # NONE /\ c.total = Len(Theirs)
            /\ \A i \in 1..Len(c.got) : c.got[i] = Theirs[i]
            /\ \A i \in 1..Len(Out) : Out[i].data = Theirs[Len(c.got) + i]
        BY <1>2, <3>10 DEF Getting
      <4>2. PICK g \in Nat, o \in Nat : g = Len(c.got) /\ o = Len(Out)
        BY <3>8
      <4>3. g + o = w.count
        BY <1>3, <3>10, <4>2
      <4>4. \A i \in 1..Len(Out') : Out'[i].data = Theirs[Len(c.got) + i]
        <5> SUFFICES ASSUME NEW i \in 1..Len(Out') PROVE Out'[i].data = Theirs[g + i]
          BY <4>2
        <5>1. CASE i <= o
          <6>1. i \in 1..Len(Out)
            BY <4>2, <5>1
          <6> QED
            BY <3>7, <4>1, <4>2, <6>1
        <5>2. CASE i = o + 1
          <6>1. g + i = w.count + 1
            <7>1. i = o + 1
              BY <5>2
            <7>2. g + (o + 1) = (g + o) + 1
              OBVIOUS
            <7> QED
              BY <7>1, <7>2, <4>3
          <6>2. Out'[i] = Block(v)
            BY <3>7, <4>2, <5>2
          <6> QED
            BY <3>5, <6>1, <6>2 DEF v
        <5>3. i <= o \/ i = o + 1
          BY <3>7, <4>2
        <5> QED
          BY <5>1, <5>2, <5>3
      <4> QED
        BY <1>1, <1>4, <2>1, <3>4, <3>10, <4>1, <4>4 DEF Getting
    <3> QED
      BY <1>3, <3>9, <3>10
  <2>3. CASE ~(w.count < Len(Theirs))
    <3>1. Loop /\ UNCHANGED <<s2c, crio>>
      BY <2>1, <2>3 DEF SendBlock, down
    <3>2. w'.path = w.path
      BY <1>1, <3>1 DEF Loop, WorkerState
    <3>3. Out' = Out
      BY <3>1 DEF Out
    <3> QED
      BY <1>1, <1>2, <1>4, <3>1, <3>2, <3>3 DEF Getting
  <2> QED
    BY <2>2, <2>3
<1>6. w'.pc \in {"send", "request", "close"}
  <2>1. Leave \/ Loop \/ w' = [w EXCEPT !.count = w.count + 1]
    BY DEF SendBlock
  <2> QED
    BY <1>1, <2>1 DEF Loop, Leave, WorkerState
<1>7. Putting' /\ Said'
  BY <1>1, <1>3, <1>6, NotPutting, NotSaid
<1> QED
  BY <1>5, <1>7 DEF AnswersInv

LEMMA TrueServeRm ==
  ASSUME SessionInv, ServeRm
  PROVE  AnswersInv'
<1>1. /\ w.pc = "handle" /\ w.cmd = "RM" /\ Loop /\ UNCHANGED c
      /\ srv' = [srv EXCEPT ![w.path] = NONE]
      /\ w \in WorkerState /\ srv \in [Path -> File] /\ w.path \in Path
  BY DEF ServeRm, SessionInv, TypeOK, WorkerPlace
<1> SUFFICES ASSUME Live' PROVE AnswersInv'
  BY DEF AnswersInv
<1>2. Live
  BY <1>1 DEF Live
<1>3. w'.pc = "request"
  BY <1>1 DEF Loop, WorkerState
<1>4. c.pc = "response" /\ Same
  BY <1>1, <1>2, Links DEF SessionInv, Joint, Awaits, Same
<1>5. Theirs' = NONE
  BY <1>1, <1>4 DEF Theirs, Same
<1>6. Getting'
  BY <1>1, <1>4, NotGetting
<1>7. Putting'
  BY <1>1, <1>3, <1>4, NotPutting
<1>8. Said'
  BY <1>1, <1>4, <1>5 DEF Said
<1> QED
  BY <1>6, <1>7, <1>8 DEF AnswersInv

LEMMA TrueServePut ==
  ASSUME SessionInv, ServePut
  PROVE  AnswersInv'
<1>1. /\ w.pc = "handle" /\ w.cmd = "PUT" /\ UNCHANGED c
      /\ w' = [w EXCEPT !.pc = "header"] /\ w \in WorkerState
  BY DEF ServePut, SessionInv, TypeOK
<1>2. PICK ok \in BOOLEAN : WorkerWrites(Response(NO_ERROR_R, "READY_PUT"), ok)
  BY DEF ServePut
<1> SUFFICES ASSUME Live' PROVE AnswersInv'
  BY DEF AnswersInv
<1>3. Live
  BY <1>1 DEF Live
<1>4. c.pc = "ready" /\ c2s = <<>>
  BY <1>1, <1>3, Links DEF SessionInv, Joint, Awaits, Same, WorkerInv
<1>5. c2s' = c2s
  BY <1>2, Wrote DEF WorkerWrote
<1>6. w'.pc = "header"
  BY <1>1 DEF WorkerState
<1> QED
  BY <1>1, <1>4, <1>5, <1>6 DEF AnswersInv, Getting, Putting, Said

LEMMA TrueServeBye ==
  ASSUME SessionInv, ServeBye
  PROVE  AnswersInv'
<1>1. /\ w.pc = "handle" /\ w.cmd = "BYE" /\ UNCHANGED c
      /\ w' = [w EXCEPT !.pc = "close"] /\ w \in WorkerState
  BY DEF ServeBye, Leave, SessionInv, TypeOK
<1> SUFFICES ASSUME Live' PROVE AnswersInv'
  BY DEF AnswersInv
<1>2. c.pc = "bye"
  <2>1. Live
    BY <1>1 DEF Live
  <2> QED
    BY <1>1, <2>1, Links DEF SessionInv, Joint, Awaits, Same
<1>3. w'.pc = "close"
  BY <1>1 DEF WorkerState
<1> QED
  BY <1>1, <1>2, <1>3, Quiet

\* Between the steps of a put, no answer is on its way.
LEMMA WithinPut ==
  ASSUME SessionInv, Live, w.pc \in {"header", "open", "blocks"}, UNCHANGED <<c, s2c>>,
         w.pc = "header" => c2s # <<>>
  PROVE  /\ Getting' /\ Said'
         /\ Same /\ c.path \in Path /\ w.path \in Path /\ c.pc \in {"sending", "result"}
<1>1. Same /\ c.pc \in {"sending", "result"} /\ s2c = <<>>
  BY Links DEF SessionInv, Joint
<1>2. c.path \in Path /\ w.path \in Path
  BY <1>1 DEF SessionInv, ClientPlace, WorkerPlace
<1>3. Getting' /\ Said'
  BY <1>1, NotGetting, NotSaid
<1> QED
  BY <1>1, <1>2, <1>3

LEMMA TruePutHeader ==
  ASSUME SessionInv, AnswersInv, PutHeader
  PROVE  AnswersInv'
<1>1. /\ w.pc = "header" /\ UNCHANGED <<srv, local, c, s2c>> /\ w \in WorkerState
      /\ c2s # <<>> /\ Head(c2s) = c2s[1] /\ c2s[1] \in Message
      /\ Len(In') = Len(c2s) - 1
      /\ \A i \in 1..Len(In') : In'[i] = c2s[i + 1]
  BY WorkerReadsFacts DEF PutHeader, SessionInv, TypeOK, files
<1> SUFFICES ASSUME Live' PROVE AnswersInv'
  BY DEF AnswersInv
<1>2. Live /\ Putting
  BY <1>1 DEF Live, AnswersInv
<1>3. Getting' /\ Said'
  BY <1>1, <1>2, WithinPut
<1>4. Mine' = Mine /\ (c.pc = "sending" => c.total = Len(Mine))
  BY <1>1, <1>2 DEF Mine, Putting
<1>5. CASE c2s[1].error # NO_ERROR_R
  <2>1. w' = [w EXCEPT !.pc = "failed"]
    BY <1>1, <1>5 DEF PutHeader
  <2>2. w'.pc = "failed"
    BY <1>1, <2>1 DEF WorkerState
  <2> QED
    BY <1>1, <1>3, <1>4, <2>2 DEF AnswersInv, Putting
<1>6. CASE c2s[1].error = NO_ERROR_R
  <2>1. w' = [w EXCEPT !.pc = "open", !.total = c2s[1].total_size]
    BY <1>1, <1>6 DEF PutHeader
  <2>2. w'.pc = "open" /\ w'.total = c2s[1].total_size /\ w'.count = w.count
    BY <1>1, <2>1 DEF WorkerState
  <2>3. w.count = 0 /\ Len(c2s) \in Nat
    BY <1>1 DEF SessionInv, WorkerPlace, TypeOK
  <2>4. /\ Mine # NONE /\ c2s[1].total_size = Len(Mine)
        /\ \A i \in 2..Len(c2s) : c2s[i].data = Mine[i - 1]
    BY <1>1, <1>2, <1>6 DEF Putting
  <2>5. \A i \in 1..Len(In') : In'[i].data = Mine[w'.count + i]
    <3> SUFFICES ASSUME NEW i \in 1..Len(In') PROVE In'[i].data = Mine[w'.count + i]
      OBVIOUS
    <3>1. i \in Nat /\ i + 1 \in 2..Len(c2s) /\ (i + 1) - 1 = i /\ 0 + i = i
      BY <1>1, <2>3
    <3>2. In'[i].data = Mine[i]
      BY <1>1, <2>4, <3>1
    <3> QED
      BY <2>2, <2>3, <3>1, <3>2
  <2> QED
    BY <1>1, <1>3, <1>4, <2>2, <2>4, <2>5 DEF AnswersInv, Putting
<1> QED
  BY <1>5, <1>6

LEMMA TruePutOpen ==
  ASSUME SessionInv, AnswersInv, PutOpen
  PROVE  AnswersInv'
<1>1. /\ w.pc = "open" /\ UNCHANGED <<local, c, s2c, c2s, wrio>>
      /\ srv' = [srv EXCEPT ![w.path] = <<>>] /\ w' = [w EXCEPT !.pc = "blocks"]
      /\ w \in WorkerState /\ srv \in [Path -> File]
  BY DEF PutOpen, up, down, SessionInv, TypeOK
<1> SUFFICES ASSUME Live' PROVE AnswersInv'
  BY DEF AnswersInv
<1>2. Live /\ Putting
  BY <1>1 DEF Live, AnswersInv
<1>3. Getting' /\ Said' /\ Same /\ c.path \in Path
  BY <1>1, <1>2, WithinPut
<1>4. Mine' = Mine /\ In' = In /\ Theirs' = <<>>
  BY <1>1, <1>3 DEF Mine, Theirs, In, Same
<1>5. w'.pc = "blocks" /\ w'.count = w.count /\ w'.total = w.total /\ w.count = 0
  BY <1>1 DEF WorkerState, SessionInv, WorkerPlace
<1>6. Len(Theirs') = 0
  BY <1>4
<1>7. \A i \in 1..w'.count : Theirs'[i] = Mine'[i]
  BY <1>5
<1> QED
  BY <1>1, <1>2, <1>3, <1>4, <1>5, <1>6, <1>7 DEF AnswersInv, Putting

LEMMA TruePutRefused ==
  ASSUME SessionInv, AnswersInv, PutRefused
  PROVE  AnswersInv'
<1>1. /\ w.pc = "open" /\ UNCHANGED <<srv, local, c, s2c>>
      /\ w' = [w EXCEPT !.pc = "failed", !.unread = w.total] /\ w \in WorkerState
  BY DEF PutRefused, files, down, SessionInv, TypeOK
<1> SUFFICES ASSUME Live' PROVE AnswersInv'
  BY DEF AnswersInv
<1>2. Live /\ Putting
  BY <1>1 DEF Live, AnswersInv
<1>3. Getting' /\ Said'
  BY <1>1, <1>2, WithinPut
<1>4. Mine' = Mine /\ w'.pc = "failed"
  BY <1>1 DEF Mine, WorkerState
<1> QED
  BY <1>1, <1>2, <1>3, <1>4 DEF AnswersInv, Putting

LEMMA TruePutBlock ==
  ASSUME SessionInv, AnswersInv, PutBlock
  PROVE  AnswersInv'
<1>1. /\ w.pc = "blocks" /\ UNCHANGED <<local, c, s2c>>
      /\ Len(In) \in Nat \ {0} /\ Head(In) = In[1]
      /\ Len(In') = Len(In) - 1
      /\ \A i \in 1..Len(In') : In'[i] = In[i + 1]
  BY WorkerReadsOnFacts DEF PutBlock, SessionInv
<1> DEFINE d == In[1].data
<1>2. /\ srv' = [srv EXCEPT ![w.path] = Append(srv[w.path], d)]
      /\ w' = [w EXCEPT !.count = w.count + 1]
  BY <1>1 DEF PutBlock, In
<1>3. w \in WorkerState /\ srv \in [Path -> File] /\ w.count \in Nat
  BY DEF SessionInv, TypeOK, WorkerState
<1> SUFFICES ASSUME Live' PROVE AnswersInv'
  BY DEF AnswersInv
<1>4. Live /\ Putting
  BY <1>1 DEF Live, AnswersInv
<1>5. Getting' /\ Said' /\ Same /\ c.path \in Path /\ w.path \in Path
  BY <1>1, <1>4, WithinPut
<1>6. /\ Mine # NONE /\ w.total = Len(Mine)
      /\ \A i \in 1..Len(In) : In[i].data = Mine[w.count + i]
      /\ Len(Theirs) = w.count
      /\ \A i \in 1..w.count : Theirs[i] = Mine[i]
      /\ c.pc = "sending" => c.total = Len(Mine)
  BY <1>1, <1>4 DEF Putting
<1>7. w'.pc = "blocks" /\ w'.count = w.count + 1 /\ w'.total = w.total
  <2>1. w.count + 1 \in Nat
    BY <1>3
  <2> QED
    BY <1>1, <1>2, <1>3, <2>1 DEF WorkerState
<1>8. Mine' = Mine
  BY <1>1 DEF Mine
<1>9. d \in Value /\ Theirs \in Seq(Value)
  <2>1. Blocks(In, Value) /\ srv[w.path] # NONE
    BY <1>1 DEF SessionInv, WorkerInv, WorkerPlace
  <2>2. d \in Value
    BY <1>1, <2>1 DEF Blocks
  <2>3. Theirs \in Seq(Value)
    BY <1>3, <1>5, <2>1 DEF Theirs, Same, File
  <2> QED
    BY <2>2, <2>3
<1>10. d = Mine[w.count + 1]
  BY <1>1, <1>6
<1>11. Theirs' = Append(Theirs, d)
  BY <1>1, <1>2, <1>3, <1>5 DEF Theirs, Same
<1> HIDE DEF d
<1>12. /\ Len(Theirs') = w.count + 1
       /\ \A i \in 1..(w.count + 1) : Theirs'[i] = Mine[i]
  <2>1. /\ Len(Append(Theirs, d)) = Len(Theirs) + 1
        /\ \A i \in 1..Len(Theirs) : Append(Theirs, d)[i] = Theirs[i]
        /\ Append(Theirs, d)[Len(Theirs) + 1] = d
    BY <1>9
  <2>2. \A i \in 1..(w.count + 1) : i \in 1..w.count \/ i = w.count + 1
    BY <1>3
  <2>3. \A i \in 1..w.count : Theirs'[i] = Mine[i]
    BY <1>6, <1>11, <2>1
  <2>4. Theirs'[w.count + 1] = Mine[w.count + 1]
    BY <1>6, <1>10, <1>11, <2>1
  <2> QED
    BY <1>6, <1>11, <2>1, <2>2, <2>3, <2>4
<1>13. \A i \in 1..Len(In') : In'[i].data = Mine[(w.count + 1) + i]
  <2> SUFFICES ASSUME NEW i \in 1..Len(In') PROVE In'[i].data = Mine[(w.count + 1) + i]
    OBVIOUS
  <2>1. i \in Nat /\ i + 1 \in 1..Len(In) /\ w.count + (i + 1) = (w.count + 1) + i
    BY <1>1, <1>3
  <2> QED
    BY <1>1, <1>6, <2>1
<1>14. Putting'
  BY <1>1, <1>6, <1>7, <1>8, <1>12, <1>13 DEF Putting
<1> QED
  BY <1>5, <1>14 DEF AnswersInv

LEMMA TruePutDone ==
  ASSUME SessionInv, AnswersInv, PutDone
  PROVE  AnswersInv'
<1>1. /\ w.pc = "blocks" /\ w.count = w.total /\ w' = [w EXCEPT !.pc = "stored"]
      /\ UNCHANGED <<srv, local, c, s2c>> /\ w \in WorkerState /\ w.count \in Nat
  BY DEF PutDone, Stored, files, down, SessionInv, TypeOK, WorkerState
<1> SUFFICES ASSUME Live' PROVE AnswersInv'
  BY DEF AnswersInv
<1>2. Live /\ Putting
  BY <1>1 DEF Live, AnswersInv
<1>3. Getting' /\ Said' /\ Same /\ c.path \in Path /\ w.path \in Path
  BY <1>1, <1>2, WithinPut
<1>4. /\ Mine # NONE /\ w.total = Len(Mine) /\ Len(Theirs) = w.count
      /\ \A i \in 1..w.count : Theirs[i] = Mine[i]
      /\ c.pc = "sending" => c.total = Len(Mine)
  BY <1>1, <1>2 DEF Putting
<1>5. Theirs \in Seq(Value) /\ Mine \in Seq(Value)
  <2>1. srv[w.path] # NONE
    BY <1>1 DEF SessionInv, WorkerPlace
  <2> QED
    BY <1>3, <1>4, <2>1 DEF Theirs, Mine, Same, SessionInv, TypeOK, File
<1>6. Theirs = Mine
  <2>1. Len(Theirs) = Len(Mine) /\ \A i \in 1..Len(Theirs) : Theirs[i] = Mine[i]
    BY <1>1, <1>4
  <2> QED
    BY <1>5, <2>1, SeqEqual
<1>7. w'.pc = "stored" /\ Mine' = Mine /\ Theirs' = Theirs
  BY <1>1 DEF Mine, Theirs, WorkerState
<1> QED
  BY <1>1, <1>3, <1>4, <1>6, <1>7 DEF AnswersInv, Putting

LEMMA TruePutAnswer ==
  ASSUME SessionInv, AnswersInv, PutAnswer
  PROVE  AnswersInv'
<1>1. /\ w.pc \in {"stored", "failed"} /\ Loop /\ UNCHANGED <<srv, local, c>> /\ w \in WorkerState
  BY DEF PutAnswer, files, SessionInv, TypeOK
<1> SUFFICES ASSUME Live' PROVE AnswersInv'
  BY DEF AnswersInv
<1>2. Live /\ Putting
  BY <1>1 DEF Live, AnswersInv
<1>3. c.pc \in {"sending", "result"} /\ s2c = <<>>
  BY <1>1, <1>2, Links DEF SessionInv, Joint
<1>4. PICK m \in Message : WorkerWrote(m) /\ (m.error = NO_ERROR_R => w.pc = "stored")
  <2> DEFINE m == Response(IF w.pc = "stored" THEN NO_ERROR_R ELSE PATH_ERROR_R, "PUT")
  <2>1. WorkerWrote(m)
    BY Wrote DEF PutAnswer
  <2>2. m \in Message /\ (m.error = NO_ERROR_R => w.pc = "stored")
    BY DEF Response, Message, PATH_ERROR_R, NO_ERROR_R
  <2> HIDE DEF m
  <2> QED
    BY <2>1, <2>2
<1>5. s2c'[1] = m
  BY <1>2, <1>3, <1>4, FirstOfAnswer
<1>6. w.pc = "stored" => Theirs = Mine
  BY <1>2 DEF Putting
<1>7. Theirs' = Theirs /\ Mine' = Mine /\ w'.pc = "request"
  BY <1>1 DEF Theirs, Mine, Loop, WorkerState
<1>8. Said'
  BY <1>1, <1>3, <1>4, <1>5, <1>6, <1>7 DEF Said
<1>9. Getting'
  BY <1>1, <1>3, NotGetting
<1>10. Putting'
  BY <1>1, <1>2, <1>7 DEF Putting
<1> QED
  BY <1>8, <1>9, <1>10 DEF AnswersInv

-----------------------------------------------------------------------------
(* The others, when no file changes under a transfer. *)

\* The files of the command stay as they are.
LEMMA TrueFrame ==
  ASSUME AnswersInv, UNCHANGED <<w, c, c2s, s2c, wrio, crio>>,
         Live /\ w.path = c.path => Theirs' = Theirs,
         Live /\ w.pc \in {"blocks", "stored"} => Theirs' = Theirs,
         Live /\ (c.pc \in {"sending", "result"} \/ w.pc \in {"header", "open", "blocks", "stored"}) => Mine' = Mine
  PROVE  AnswersInv'
<1> SUFFICES ASSUME Live' PROVE AnswersInv'
  BY DEF AnswersInv
<1>1. Live /\ Getting /\ Putting /\ Said /\ In' = In /\ Out' = Out
  BY DEF Live, AnswersInv, In, Out
<1>2. Getting'
  BY <1>1 DEF Getting
<1>3. Putting'
  BY <1>1 DEF Putting
<1>4. Said'
  BY <1>1 DEF Said
<1> QED
  BY <1>2, <1>3, <1>4 DEF AnswersInv

LEMMA TrueOtherStep ==
  ASSUME SessionInv, AnswersInv, ~SharedTransfer, NEW p \in Path,
         (\E s \in Others : OtherPut(p, s)) \/ OtherRm(p)
  PROVE  AnswersInv'
<1>1. /\ UNCHANGED <<local, w, c, c2s, s2c, wrio, crio>>
      /\ \E f : srv' = [srv EXCEPT ![p] = f]
  BY DEF OtherPut, OtherRm, up, down
<1>2. ~(w.pc # "accept" /\ w.path = p)
  BY DEF OtherPut, OtherRm, InUse
<1>3. srv \in [Path -> File]
  BY DEF SessionInv, TypeOK
<1>4. Live /\ w.path = c.path => Theirs' = Theirs
  <2> SUFFICES ASSUME Live, w.path = c.path PROVE srv'[c.path] = srv[c.path]
    BY <1>1 DEF Theirs
  <2>1. c.path # p
    BY <1>2 DEF Live
  <2> QED
    BY <1>1, <1>3, <2>1
<1>5. Live /\ w.pc \in {"blocks", "stored"} => w.path = c.path
  BY Links DEF SessionInv, Joint, Same
<1>6. Mine' = Mine
  BY <1>1 DEF Mine
<1> QED
  BY <1>1, <1>4, <1>5, <1>6, TrueFrame

LEMMA TrueLocalShrink ==
  ASSUME SessionInv, AnswersInv, ~SharedTransfer, NEW p \in Path, LocalShrink(p)
  PROVE  AnswersInv'
<1>1. /\ UNCHANGED <<srv, w, c, c2s, s2c, wrio, crio>> /\ c.path # p
      /\ local' = [local EXCEPT ![p] = SubSeq(local[p], 1, Len(local[p]) - 1)]
  BY DEF LocalShrink, up, down
<1>2. Mine' = Mine
  <2>1. local \in [Path -> File]
    BY DEF SessionInv, TypeOK
  <2> QED
    BY <1>1, <2>1 DEF Mine
<1>3. Theirs' = Theirs
  BY <1>1 DEF Theirs
<1> QED
  BY <1>1, <1>2, <1>3, TrueFrame

LEMMA TrueNext ==
  ASSUME SessionInv, SessionInv', AnswersInv, ~SharedTransfer, [Next]_vars
  PROVE  AnswersInv'
<1>1. CASE Connect
  BY <1>1, TrueAccepted DEF Connect
<1>2. ASSUME NEW type \in Commands, NEW p \in Path, Ask(type, p) PROVE AnswersInv'
  BY <1>2, TrueAsk
<1>3. CASE ReadBye \/ ClientReset \/ AskReset \/ ClientKilled
  <2>1. c' = NoClient
    BY <1>3 DEF ReadBye, ClientReset, AskReset, ClientKilled, ClientCloses
  <2> QED
    BY <2>1 DEF AnswersInv, Live, NoClient
<1>4. CASE Received \/ ReadResponse \/ AnswerLost
  <2>1. c'.pc = "prompt"
    BY <1>4 DEF Received, ReadResponse, AnswerLost, Prompt, NoClient
  <2> QED
    BY <2>1, TruePrompt
<1>5. CASE ReadHeader \/ ReadBlock \/ ReadReady \/ UploadHeader \/ UploadBlock
  BY <1>5, TrueReadHeader, TrueReadBlock, TrueReadReady, TrueUploadHeader, TrueUploadBlock
<1>a. CASE UploadFails
  <2>1. wend' = "eof" /\ c'.pc = "result"
    BY <1>a DEF UploadFails, SessionInv, TypeOK, ClientState
  <2>2. w'.pc = "accept"
    BY <2>1 DEF SessionInv, EndsInv
  <2> QED
    BY <2>2 DEF AnswersInv, Live
<1>6. CASE RequestLost
  <2>1. c.pc = "down" /\ c' = c
    BY <1>6 DEF RequestLost, WorkerReadsEnd, SessionInv, EndsInv
  <2> QED
    BY <2>1 DEF AnswersInv, Live
<1>7. CASE ReadRequest \/ ServeGet \/ ServeLs \/ SendBlock \/ ServeRm \/ ServeBye
  BY <1>7, TrueReadRequest, TrueServeGet, TrueServeLs, TrueSendBlock, TrueServeRm, TrueServeBye
<1>8. CASE ServePut \/ PutHeader \/ PutOpen \/ PutRefused \/ PutBlock \/ PutDone \/ PutAnswer
  BY <1>8, TrueServePut, TruePutHeader, TruePutOpen, TruePutRefused, TruePutBlock, TruePutDone, TruePutAnswer
<1>9. CASE CloseSession \/ LsCrash \/ WorkerReset \/ WorkerKilled
  <2>1. w' = [NoWorker EXCEPT !.unread = w.unread]
    BY <1>9 DEF CloseSession, LsCrash, WorkerReset, WorkerKilled, WorkerDies, WorkerCloses
  <2> QED
    BY <2>1 DEF AnswersInv, Live, NoWorker
<1>10. ASSUME NEW p \in Path, (\E s \in Others : OtherPut(p, s)) \/ OtherRm(p) \/ LocalShrink(p)
       PROVE  AnswersInv'
  BY <1>10, TrueOtherStep, TrueLocalShrink
<1>11. CASE UNCHANGED vars
  <2>1. UNCHANGED <<srv, local, w, c, c2s, s2c, wrio, crio>>
    BY <1>11 DEF vars
  <2> QED
    BY <2>1, TrueFrame DEF Theirs, Mine
<1> QED
  BY <1>1, <1>2, <1>3, <1>4, <1>5, <1>6, <1>7, <1>8, <1>9, <1>10, <1>11, <1>a DEF Next, ClientStep, WorkerStep

\* When no file changes under a transfer: a put that is acknowledged has stored
\* the client's file, whole; a path said to be removed is; a get that ends has
\* the slave's file.  This is so as long as the worker serves the command, and
\* whatever is killed.
THEOREM AnswersAreTrueAlways == ~SharedTransfer /\ Spec => []AnswersAreTrue
<1>1. Init => AnswersInv
  BY DEF Init, NoWorker, AnswersInv, Live
<1>2. ASSUME SessionInv, AnswersInv PROVE AnswersAreTrue
  <2>1. ASSUME NEW i \in 1..Len(s2c), s2c[i].kind = "response", InUse(c.path)
        PROVE  Said /\ s2c # <<>> /\ w.path = c.path /\ s2c[i] = s2c[1] /\ s2c[1] \in Answers
    <3>1. w.pc # "accept" /\ w.path = c.path /\ s2c # <<>> /\ s2c \in Seq(Message)
      BY <1>2, <2>1 DEF InUse, SessionInv, TypeOK
    <3>2. c.pc # "header"
      BY <1>2, <2>1, <3>1 DEF SessionInv, ClientInv, Announced
    <3>3. c.pc # "blocks"
      <4> SUFFICES ASSUME c.pc = "blocks" PROVE FALSE
        OBVIOUS
      <4>1. Blocks(Out, Sent)
        BY <1>2 DEF SessionInv, ClientInv
      <4>2. crio \in Seq(Message) /\ Len(crio) \in Nat
        BY <1>2 DEF SessionInv, TypeOK
      <4>3. /\ Len(crio \o s2c) = Len(crio) + Len(s2c)
            /\ (crio \o s2c)[Len(crio) + i] = s2c[i]
        BY <3>1, <4>2
      <4>4. Len(crio) + i \in 1..Len(Out)
        BY <3>1, <4>2, <4>3 DEF Out
      <4> QED
        BY <2>1, <4>1, <4>3, <4>4 DEF Blocks, Out
    <3>4. Len(s2c) = 1 /\ s2c[1] \in Answers
      BY <1>2, <3>1, <3>2, <3>3 DEF SessionInv, ClientInv, AtMost
    <3>5. c.pc # "down"
      BY <3>4 DEF Answers
    <3>6. Said
      BY <1>2, <3>1, <3>5 DEF AnswersInv, Live
    <3>7. i = 1
      BY <3>4
    <3> QED
      BY <3>1, <3>4, <3>6, <3>7
  <2>2. ASSUME NEW i \in 1..Len(s2c), s2c[i] = Response(NO_ERROR_R, "PUT"), InUse(c.path)
        PROVE  srv[c.path] = local[c.path]
    <3>1. s2c[i].kind = "response" /\ s2c[i].error = NO_ERROR_R /\ s2c[i].content = "PUT"
      BY <2>2 DEF Response
    <3>2. Said /\ s2c # <<>> /\ w.path = c.path /\ s2c[i] = s2c[1] /\ s2c[1] \in Answers
      BY <2>1, <2>2, <3>1
    <3>3. c.pc \in {"sending", "result"}
      BY <3>1, <3>2 DEF Answers
    <3> QED
      BY <3>1, <3>2, <3>3 DEF Said, Theirs, Mine
  <2>3. ASSUME NEW i \in 1..Len(s2c), s2c[i] = Response(NO_ERROR_R, "REMOVED"), InUse(c.path)
        PROVE  srv[c.path] = NONE
    <3>1. s2c[i].kind = "response" /\ s2c[i].content = "REMOVED"
      BY <2>3 DEF Response
    <3>2. Said /\ s2c # <<>> /\ w.path = c.path /\ s2c[i] = s2c[1] /\ s2c[1] \in Answers
      BY <2>1, <2>3, <3>1
    <3>3. c.pc = "response"
      BY <3>1, <3>2 DEF Answers
    <3> QED
      BY <3>1, <3>2, <3>3 DEF Said, Theirs
  <2>4. ASSUME c.pc = "blocks", c.cmd = "GET", Len(c.got) = c.total, InUse(c.path)
        PROVE  srv[c.path] = c.got
    <3>1. Getting
      BY <1>2, <2>4 DEF AnswersInv, Live, InUse
    <3>2. /\ Theirs # NONE /\ c.total = Len(Theirs)
          /\ \A i \in 1..Len(c.got) : c.got[i] = Theirs[i]
      BY <2>4, <3>1 DEF Getting
    <3>3. c.got \in Seq(Value) /\ Theirs \in Seq(Value)
      BY <1>2, <2>4, <3>2 DEF SessionInv, ClientPlace, TypeOK, File, Theirs
    <3>4. Len(c.got) = Len(Theirs)
      BY <2>4, <3>2
    <3> QED
      BY <3>2, <3>3, <3>4, SeqEqual DEF Theirs
  <2> QED
    BY <2>2, <2>3, <2>4 DEF AnswersAreTrue
<1>3. ~SharedTransfer /\ SessionInv /\ SessionInv' /\ AnswersInv /\ [Next]_vars => AnswersInv'
  BY TrueNext
<1>4. SessionInv /\ AnswersInv => AnswersAreTrue
  BY <1>2
<1>5. CASE ~SharedTransfer
  <2>1. SessionInv /\ SessionInv' /\ AnswersInv /\ [Next]_vars => AnswersInv'
    BY <1>3, <1>5
  <2> QED
    BY <1>1, <2>1, <1>4, SessionInvariant, PTL DEF Spec
<1>6. CASE SharedTransfer
  BY <1>6
<1> QED
  BY <1>5, <1>6
=============================================================================

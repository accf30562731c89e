---------------------------- MODULE SessionProof ----------------------------
(***************************************************************************)
(* Theorems about Session, for any paths, files and contents, any number   *)
(* of workers, and whoever may be killed.                                  *)
(***************************************************************************)
EXTENDS Session, SequenceTheorems, TLAPS

-----------------------------------------------------------------------------
(* Reading and writing. *)

LEMMA RefillFacts ==
  ASSUME NEW T, NEW s \in Seq(T), NEW s2, NEW r2, Refill(s, s2, r2)
  PROVE  /\ s # <<>> /\ Len(s) \in Nat \ {0} /\ s[1] \in T /\ Head(s) = s[1]
         /\ s2 \in Seq(T) /\ r2 \in Seq(T) /\ r2 \o s2 \in Seq(T)
         /\ Len(r2 \o s2) = Len(s) - 1
         /\ \A i \in 1..(Len(s) - 1) : (r2 \o s2)[i] = s[i + 1]
         /\ Len(s) = 1 => r2 = <<>> /\ s2 = <<>>
<1>1. PICK k \in 1..Len(s) : r2 = SubSeq(s, 2, k) /\ s2 = SubSeq(s, k + 1, Len(s))
  BY DEF Refill
<1>2. r2 \in Seq(T) /\ Len(r2) = k - 1 /\ \A i \in 1..(k - 1) : r2[i] = s[i + 1]
  BY <1>1
<1>3. s2 \in Seq(T) /\ Len(s2) = Len(s) - k /\ \A i \in 1..(Len(s) - k) : s2[i] = s[i + k]
  BY <1>1
<1>4. \A i \in 1..(Len(s) - 1) : (r2 \o s2)[i] = s[i + 1]
  BY <1>2, <1>3
<1>5. s # <<>> /\ Len(s) \in Nat \ {0} /\ s[1] \in T /\ Head(s) = s[1]
  BY DEF Refill
<1>6. r2 \o s2 \in Seq(T) /\ Len(r2 \o s2) = Len(s) - 1
  BY <1>2, <1>3
<1>7. Len(s) = 1 => r2 = <<>> /\ s2 = <<>>
  BY <1>2, <1>3
<1> QED
  BY <1>2, <1>3, <1>4, <1>5, <1>6, <1>7

LEMMA ReadOnFacts ==
  ASSUME NEW T, NEW r \in Seq(T), NEW s \in Seq(T), NEW s2, NEW r2, ReadOn(r, s, s2, r2)
  PROVE  /\ r \o s \in Seq(T) /\ r \o s # <<>> /\ Len(r \o s) \in Nat \ {0}
         /\ Head(r \o s) = (r \o s)[1] /\ (r \o s)[1] \in T
         /\ s2 \in Seq(T) /\ r2 \in Seq(T) /\ r2 \o s2 \in Seq(T)
         /\ Len(r2 \o s2) = Len(r \o s) - 1
         /\ \A i \in 1..(Len(r \o s) - 1) : (r2 \o s2)[i] = (r \o s)[i + 1]
<1>1. CASE r = <<>>
  <2>1. Refill(s, s2, r2)
    BY <1>1 DEF ReadOn
  <2>2. r \o s = s
    BY <1>1
  <2> QED
    BY <2>1, <2>2, RefillFacts
<1>2. CASE r # <<>>
  <2>1. r2 = Tail(r) /\ s2 = s
    BY <1>2 DEF ReadOn
  <2>2. r2 \in Seq(T) /\ Len(r2) = Len(r) - 1 /\ \A i \in 1..(Len(r) - 1) : r2[i] = r[i + 1]
    BY <1>2, <2>1
  <2>3. r \o s \in Seq(T) /\ Len(r \o s) = Len(r) + Len(s) /\ Len(r) \in Nat \ {0}
    BY <1>2
  <2>4. r2 \o s2 \in Seq(T) /\ Len(r2 \o s2) = Len(r) - 1 + Len(s)
    BY <2>1, <2>2
  <2>5. \A i \in 1..(Len(r \o s) - 1) : (r2 \o s2)[i] = (r \o s)[i + 1]
    BY <2>1, <2>2, <2>3
  <2>6. r \o s # <<>> /\ Head(r \o s) = (r \o s)[1] /\ (r \o s)[1] \in T
    BY <2>3
  <2> QED
    BY <2>1, <2>2, <2>3, <2>4, <2>5, <2>6
<1> QED
  BY <1>1, <1>2

LEMMA AppendFacts ==
  ASSUME NEW T, NEW r \in Seq(T), NEW s \in Seq(T), NEW m \in T
  PROVE  /\ Append(s, m) \in Seq(T) /\ Append(s, m) # <<>>
         /\ Len(Append(s, m)) = Len(s) + 1
         /\ \A i \in 1..Len(s) : Append(s, m)[i] = s[i]
         /\ Append(s, m)[Len(s) + 1] = m
         /\ r \o Append(s, m) \in Seq(T)
         /\ Len(r \o Append(s, m)) = Len(r \o s) + 1
         /\ \A i \in 1..Len(r \o s) : (r \o Append(s, m))[i] = (r \o s)[i]
         /\ (r \o Append(s, m))[Len(r \o s) + 1] = m
<1>1. r \o Append(s, m) = Append(r \o s, m) /\ r \o s \in Seq(T)
  OBVIOUS
<1> QED
  BY <1>1

LEMMA ConcatEmpty ==
  ASSUME NEW T, NEW r \in Seq(T), NEW s \in Seq(T)
  PROVE  /\ r = <<>> => r \o s = s
         /\ s = <<>> => r \o s = r
         /\ r \o s \in Seq(T) /\ Len(r \o s) = Len(r) + Len(s)
         /\ r \o s = <<>> <=> r = <<>> /\ s = <<>>
OBVIOUS

-----------------------------------------------------------------------------
(* The inductive invariant. *)

In  == wrio \o c2s
Out == crio \o s2c

\* Blocks only, of the values V.
Blocks(s, V) == \A i \in 1..Len(s) : s[i].kind = "block" /\ s[i].data \in V

\* A header, and not more blocks than it announces.
Announced(s, V) ==
  /\ s # <<>>
  /\ s[1].kind = "header"
  /\ s[1].error # NO_ERROR_R => Len(s) = 1
  /\ s[1].error = NO_ERROR_R => Len(s) - 1 <= s[1].total_size
  /\ \A i \in 2..Len(s) : s[i].kind = "block" /\ s[i].data \in V

\* One message at most, of M.
AtMost(s, M) == s # <<>> => Len(s) = 1 /\ s[1] \in M

\* What may answer the client where it is.
Answers ==
  {m \in Message :
     /\ m.kind = "response"
     /\ \/ c.pc = "ready" /\ m.content = "READY_PUT"
        \/ c.pc \in {"sending", "result"} /\ m.content = "PUT"
        \/ c.pc = "response" /\ m.content \in {"REMOVED", "NOT_REMOVED"}
        \/ c.pc = "bye" /\ m.content = "BYE"}

\* What blocks hold that answer the command of the client.
Sent == IF c.cmd = "LS" THEN {NONE} ELSE Value

CmdOf ==
  /\ c.pc \in {"header", "blocks"} => c.cmd \in {"GET", "LS"}
  /\ c.pc = "response" => c.cmd = "RM"
  /\ c.pc = "bye" => c.cmd = "BYE"
  /\ c.pc \in {"prompt", "down"} => c.cmd = NONE
  /\ c.pc \in {"ready", "upload", "sending", "result"} => c.cmd = "PUT"

ClientPlace ==
  /\ CmdOf
  /\ c.pc \notin {"prompt", "down"} => c.path \in Path
  /\ c.pc \notin {"blocks"} => c.got = <<>>
  /\ c.pc \notin {"sending", "result"} => c.count = 0
  /\ c.pc = "sending" => local[c.path] # NONE /\ c.count < c.total
  /\ c.cmd = "GET" => c.got \in Seq(Value)

WorkerPlace ==
  /\ w.pc # "accept" => alive > 0
  /\ w.pc = "handle" => w.cmd \in Commands
  /\ w.pc = "send" => /\ w.cmd \in {"GET", "LS"}
                      /\ w.cmd = "GET" => srv[w.path] # NONE
                      /\ w.count < w.total
  /\ w.pc \in {"header", "open", "blocks", "stored", "failed"} => w.cmd = "PUT"
  /\ w.pc \in {"handle", "send", "header", "open", "blocks", "stored", "failed"} => w.path \in Path
  /\ w.pc = "blocks" => srv[w.path] # NONE
  /\ w.pc \notin {"send", "blocks", "stored", "close"} => w.count = 0

EndsInv ==
  /\ c.pc = "down" <=> cend # "open"
  /\ c.pc = "down" => wend = "eof"
  /\ c.pc # "down" /\ wend # "open" => w.pc = "accept"
  /\ w.pc = "accept" => wend # "open"
  /\ w.pc = "accept" => c2s = <<>> /\ wrio = <<>>

ClientInv ==
  /\ c.pc # "blocks" => crio = <<>>
  /\ c.pc = "header" => s2c = <<>> \/ Announced(s2c, Sent)
  /\ c.pc = "blocks" => Blocks(Out, Sent) /\ Len(c.got) + Len(Out) <= c.total
  /\ c.pc \notin {"header", "blocks"} => AtMost(s2c, Answers)
  /\ c.pc = "sending" => s2c = <<>> \/ w.unread > 0

WorkerInv ==
  /\ w.pc = "header" => c2s = <<>> \/ Announced(c2s, Value)
  /\ w.pc \in {"open", "blocks"} => Blocks(In, Value) /\ w.count + Len(In) <= w.total
  /\ w.pc = "request" => (c2s # <<>> /\ c2s[1].kind = "request" => Len(c2s) = 1)
  /\ w.pc = "failed" => \A i \in 1..Len(c2s) : c2s[i].kind = "block"
  /\ w.unread = 0 =>
       /\ w.pc = "request" => (c2s # <<>> => c2s[1].kind = "request")
       /\ w.pc \notin {"request", "header", "open", "blocks"} => c2s = <<>>
       /\ w.pc \notin {"open", "blocks"} => wrio = <<>>
  /\ w.pc \notin {"request", "header", "open", "blocks", "failed"} => c2s = <<>>

Same == w.cmd = c.cmd /\ w.path = c.path

\* The two between commands or within one.
Strayed ==
  /\ w.unread > 0
  /\ c.pc \notin {"blocks", "upload"}
  /\ IF c2s = <<>> THEN c.pc = "sending" ELSE Head(c2s).kind = "block"
  /\ s2c = <<>> \/ c.pc \in {"sending", "result"}

Joint ==
  wend = "open" =>
    /\ w.pc = "request" =>
         \/ c2s = <<>> /\ c.pc \in {"prompt", "header", "blocks", "result", "response"}
         \/ c.pc \notin {"prompt", "down"} /\ c2s = <<Request(c.cmd, c.path)>> /\ c.pc = Awaits[c.cmd] /\ s2c = <<>>
         \/ Strayed
    /\ w.pc = "handle" => Same /\ c.pc = Awaits[c.cmd] /\ s2c = <<>>
    /\ w.pc = "send" =>
         /\ Same
         /\ \/ /\ c.pc = "header"
               /\ s2c # <<>> /\ s2c[1] = Header(NO_ERROR_R, w.total) /\ Len(s2c) - 1 = w.count
            \/ c.pc = "blocks" /\ c.total = w.total /\ Len(c.got) + Len(Out) = w.count
    /\ w.pc = "header" =>
         /\ Same
         /\ \/ c.pc = "ready" /\ s2c # <<>> /\ c2s = <<>>
            \/ c.pc = "upload" /\ c2s = <<>>
            \/ /\ c.pc \in {"sending", "result"} /\ s2c = <<>> /\ c2s # <<>>
               /\ c.pc = "sending" => c2s[1] = Header(NO_ERROR_R, c.total) /\ Len(c2s) - 1 = c.count
    /\ w.pc \in {"open", "blocks"} =>
         /\ Same /\ c.pc \in {"sending", "result"} /\ s2c = <<>>
         /\ c.pc = "sending" => c.total = w.total /\ w.count + Len(In) = c.count
    /\ w.pc = "stored" => Same /\ c.pc = "result" /\ s2c = <<>>
    /\ w.pc = "failed" =>
         /\ Same /\ c.pc \in {"sending", "result"} /\ s2c = <<>>
         /\ c.pc = "sending" => w.unread > 0
         /\ c2s # <<>> => w.unread > 0
    /\ w.pc = "close" => c.pc = "bye" /\ c2s = <<>>


SessionInv == TypeOK /\ ClientPlace /\ WorkerPlace /\ EndsInv /\ ClientInv /\ WorkerInv /\ Joint


-----------------------------------------------------------------------------
(* What a step that reads or writes does to the connection. *)

LEMMA Streams ==
  ASSUME TypeOK
  PROVE  /\ In \in Seq(Message) /\ Len(In) = Len(wrio) + Len(c2s)
         /\ Out \in Seq(Message) /\ Len(Out) = Len(crio) + Len(s2c)
         /\ wrio = <<>> => In = c2s
         /\ c2s = <<>> => In = wrio
         /\ crio = <<>> => Out = s2c
         /\ s2c = <<>> => Out = crio
         /\ (c2s = <<>> <=> Len(c2s) = 0) /\ (s2c = <<>> <=> Len(s2c) = 0)
         /\ (wrio = <<>> <=> Len(wrio) = 0) /\ (crio = <<>> <=> Len(crio) = 0)
         /\ Len(c2s) \in Nat /\ Len(s2c) \in Nat /\ Len(wrio) \in Nat /\ Len(crio) \in Nat
<1>1. wrio \in Seq(Message) /\ c2s \in Seq(Message) /\ crio \in Seq(Message) /\ s2c \in Seq(Message)
  BY DEF TypeOK
<1>2. /\ wrio \o c2s \in Seq(Message) /\ Len(wrio \o c2s) = Len(wrio) + Len(c2s)
      /\ wrio = <<>> => wrio \o c2s = c2s
      /\ c2s = <<>> => wrio \o c2s = wrio
  BY <1>1, ConcatEmpty
<1>3. /\ crio \o s2c \in Seq(Message) /\ Len(crio \o s2c) = Len(crio) + Len(s2c)
      /\ crio = <<>> => crio \o s2c = s2c
      /\ s2c = <<>> => crio \o s2c = crio
  BY <1>1, ConcatEmpty
<1>4. \A s \in Seq(Message) : Len(s) \in Nat /\ (s = <<>> <=> Len(s) = 0)
  OBVIOUS
<1> QED
  BY <1>1, <1>2, <1>3, <1>4 DEF In, Out

LEMMA ClientWritesFacts ==
  ASSUME TypeOK, NEW m \in Message, ClientWrites(m)
  PROVE  /\ UNCHANGED <<wrio, s2c, crio, cend, wend>>
         /\ c2s' \in Seq(Message) /\ Out' = Out
         /\ wend = "open" =>
              /\ c2s' # <<>> /\ Len(c2s') = Len(c2s) + 1 /\ c2s'[Len(c2s) + 1] = m
              /\ \A i \in 1..Len(c2s) : c2s'[i] = c2s[i]
              /\ Len(In') = Len(In) + 1 /\ In'[Len(In) + 1] = m
              /\ \A i \in 1..Len(In) : In'[i] = In[i]
         /\ wend # "open" => wend = "eof" /\ c2s' = c2s /\ In' = In
<1>1. wrio \in Seq(Message) /\ c2s \in Seq(Message)
  BY DEF TypeOK
<1>2. UNCHANGED <<wrio, s2c, crio, cend, wend>>
  BY DEF ClientWrites, down
<1>3. c2s' = IF wend = "open" THEN Append(c2s, m) ELSE c2s
  BY DEF ClientWrites
<1>4. wend # "open" => wend = "eof"
  BY DEF ClientWrites, TypeOK
<1> QED
  BY <1>1, <1>2, <1>3, <1>4, AppendFacts DEF In, Out

\* A write of the worker, whether it fails or not.
WorkerWrote(m) ==
  /\ UNCHANGED <<wrio, c2s, crio, wend>>
  /\ \/ cend = "open" /\ cend' = "open" /\ s2c' = Append(s2c, m)
     \/ cend # "open" /\ cend' = "eof" /\ s2c' = s2c

LEMMA Wrote ==
  ASSUME NEW m, NEW ok \in BOOLEAN, WorkerWrites(m, ok)
  PROVE  WorkerWrote(m)
BY DEF WorkerWrites, WorkerWrote, up, down

LEMMA WorkerWritesFacts ==
  ASSUME TypeOK, NEW m \in Message, WorkerWrote(m)
  PROVE  /\ UNCHANGED <<wrio, c2s, crio, wend>>
         /\ s2c' \in Seq(Message) /\ In' = In
         /\ cend = "open" =>
              /\ cend' = "open"
              /\ s2c' # <<>> /\ Len(s2c') = Len(s2c) + 1 /\ s2c'[Len(s2c) + 1] = m
              /\ \A i \in 1..Len(s2c) : s2c'[i] = s2c[i]
              /\ Len(Out') = Len(Out) + 1 /\ Out'[Len(Out) + 1] = m
              /\ \A i \in 1..Len(Out) : Out'[i] = Out[i]
         /\ cend # "open" => cend' = "eof" /\ s2c' = s2c /\ Out' = Out
<1>1. crio \in Seq(Message) /\ s2c \in Seq(Message)
  BY DEF TypeOK
<1>2. CASE cend = "open"
  <2>1. cend' = "open" /\ s2c' = Append(s2c, m) /\ UNCHANGED <<wrio, c2s, crio, wend>>
    BY <1>2 DEF WorkerWrote
  <2> QED
    BY <1>1, <1>2, <2>1, AppendFacts DEF In, Out
<1>3. CASE cend # "open"
  BY <1>1, <1>3 DEF WorkerWrote, In, Out
<1> QED
  BY <1>2, <1>3

LEMMA WorkerReadsFacts ==
  ASSUME TypeOK, WorkerReads
  PROVE  /\ UNCHANGED <<s2c, crio, cend, wend>> /\ Out' = Out
         /\ c2s # <<>> /\ Head(c2s) = c2s[1] /\ c2s[1] \in Message
         /\ c2s' \in Seq(Message) /\ wrio' \in Seq(Message)
         /\ Len(In') = Len(c2s) - 1
         /\ \A i \in 1..Len(In') : In'[i] = c2s[i + 1]
         /\ Len(c2s) = 1 => c2s' = <<>> /\ wrio' = <<>>
<1>1. c2s \in Seq(Message)
  BY DEF TypeOK
<1>2. Refill(c2s, c2s', wrio') /\ UNCHANGED <<s2c, crio, cend, wend>>
  BY DEF WorkerReads, down
<1>3. /\ c2s # <<>> /\ Len(c2s) \in Nat \ {0} /\ c2s[1] \in Message /\ Head(c2s) = c2s[1]
      /\ c2s' \in Seq(Message) /\ wrio' \in Seq(Message)
      /\ Len(wrio' \o c2s') = Len(c2s) - 1
      /\ \A i \in 1..(Len(c2s) - 1) : (wrio' \o c2s')[i] = c2s[i + 1]
      /\ Len(c2s) = 1 => wrio' = <<>> /\ c2s' = <<>>
  BY <1>1, <1>2, RefillFacts
<1> QED
  BY <1>2, <1>3 DEF In, Out

LEMMA WorkerReadsOnFacts ==
  ASSUME TypeOK, WorkerReadsOn
  PROVE  /\ UNCHANGED <<s2c, crio, cend, wend>> /\ Out' = Out
         /\ In # <<>> /\ Len(In) \in Nat \ {0} /\ Head(In) = In[1] /\ In[1] \in Message
         /\ c2s' \in Seq(Message) /\ wrio' \in Seq(Message)
         /\ Len(In') = Len(In) - 1
         /\ \A i \in 1..Len(In') : In'[i] = In[i + 1]
<1>1. c2s \in Seq(Message) /\ wrio \in Seq(Message)
  BY DEF TypeOK
<1>2. ReadOn(wrio, c2s, c2s', wrio') /\ UNCHANGED <<s2c, crio, cend, wend>>
  BY DEF WorkerReadsOn, down
<1> QED
  BY <1>1, <1>2, ReadOnFacts DEF In, Out

LEMMA ClientReadsFacts ==
  ASSUME TypeOK, ClientReads
  PROVE  /\ UNCHANGED <<c2s, wrio, cend, wend>> /\ In' = In
         /\ s2c # <<>> /\ Head(s2c) = s2c[1] /\ s2c[1] \in Message
         /\ s2c' \in Seq(Message) /\ crio' \in Seq(Message)
         /\ Len(Out') = Len(s2c) - 1
         /\ \A i \in 1..Len(Out') : Out'[i] = s2c[i + 1]
         /\ Len(s2c) = 1 => s2c' = <<>> /\ crio' = <<>>
<1>1. s2c \in Seq(Message)
  BY DEF TypeOK
<1>2. Refill(s2c, s2c', crio') /\ UNCHANGED <<c2s, wrio, cend, wend>>
  BY DEF ClientReads, up
<1>3. /\ s2c # <<>> /\ Len(s2c) \in Nat \ {0} /\ s2c[1] \in Message /\ Head(s2c) = s2c[1]
      /\ s2c' \in Seq(Message) /\ crio' \in Seq(Message)
      /\ Len(crio' \o s2c') = Len(s2c) - 1
      /\ \A i \in 1..(Len(s2c) - 1) : (crio' \o s2c')[i] = s2c[i + 1]
      /\ Len(s2c) = 1 => crio' = <<>> /\ s2c' = <<>>
  BY <1>1, <1>2, RefillFacts
<1> QED
  BY <1>2, <1>3 DEF In, Out

LEMMA ClientReadsOnFacts ==
  ASSUME TypeOK, ClientReadsOn
  PROVE  /\ UNCHANGED <<c2s, wrio, cend, wend>> /\ In' = In
         /\ Out # <<>> /\ Len(Out) \in Nat \ {0} /\ Head(Out) = Out[1] /\ Out[1] \in Message
         /\ s2c' \in Seq(Message) /\ crio' \in Seq(Message)
         /\ Len(Out') = Len(Out) - 1
         /\ \A i \in 1..Len(Out') : Out'[i] = Out[i + 1]
<1>1. s2c \in Seq(Message) /\ crio \in Seq(Message)
  BY DEF TypeOK
<1>2. ReadOn(crio, s2c, s2c', crio') /\ UNCHANGED <<c2s, wrio, cend, wend>>
  BY DEF ClientReadsOn, up
<1> QED
  BY <1>1, <1>2, ReadOnFacts DEF In, Out

LEMMA WriteFails ==
  ASSUME NEW m, WorkerWrites(m, FALSE)
  PROVE  cend # "open"
BY DEF WorkerWrites

-----------------------------------------------------------------------------
(* The steps of the client. *)

LEMMA Frames ==
  /\ ClientPlace /\ UNCHANGED <<c, local>> => ClientPlace'
  /\ WorkerPlace /\ UNCHANGED <<w, srv, alive>> => WorkerPlace'
  /\ ClientInv /\ UNCHANGED <<c, w, s2c, crio>> => ClientInv'
  /\ WorkerInv /\ UNCHANGED <<w, c2s, wrio>> => WorkerInv'
<1>1. ClientPlace /\ UNCHANGED <<c, local>> => ClientPlace'
  BY DEF ClientPlace, CmdOf
<1>2. WorkerPlace /\ UNCHANGED <<w, srv, alive>> => WorkerPlace'
  BY DEF WorkerPlace
<1>3. ClientInv /\ UNCHANGED <<c, w, s2c, crio>> => ClientInv'
  BY DEF ClientInv, AtMost, Answers, Announced, Blocks, Sent, Out
<1>4. WorkerInv /\ UNCHANGED <<w, c2s, wrio>> => WorkerInv'
  BY DEF WorkerInv, Announced, Blocks, In
<1> QED
  BY <1>1, <1>2, <1>3, <1>4

LEMMA NewRecords ==
  /\ NoClient \in ClientState /\ [NoClient EXCEPT !.pc = "prompt"] \in ClientState
  /\ NoWorker \in WorkerState /\ [NoWorker EXCEPT !.pc = "request"] \in WorkerState
<1>1. <<>> \in Seq(Value \cup {NONE})
  OBVIOUS
<1> QED
  BY <1>1 DEF NoClient, NoWorker, ClientState, WorkerState

LEMMA InvAccepted ==
  ASSUME SessionInv, alive > 0, Accepted
  PROVE  SessionInv'
<1> USE DEF SessionInv, Accepted, NoClient, NoWorker, files
<1>1. TypeOK'
  <2>1. w' \in WorkerState /\ c' \in ClientState
    BY NewRecords
  <2>2. /\ UNCHANGED <<srv, local, alive, log>>
        /\ c2s' = <<>> /\ s2c' = <<>> /\ wrio' = <<>> /\ crio' = <<>>
        /\ cend' = "open" /\ wend' = "open"
    OBVIOUS
  <2> HIDE DEF Accepted
  <2> QED
    BY <2>1, <2>2 DEF TypeOK
<1>2. ClientPlace'
  BY DEF ClientPlace, CmdOf
<1>3. WorkerPlace'
  BY DEF WorkerPlace
<1>4. EndsInv'
  BY DEF EndsInv
<1>5. ClientInv'
  BY DEF ClientInv, AtMost
<1>6. WorkerInv'
  BY DEF WorkerInv
<1>7. Joint'
  BY DEF Joint
<1> QED
  BY <1>1, <1>2, <1>3, <1>4, <1>5, <1>6, <1>7

LEMMA InvAsk ==
  ASSUME SessionInv, NEW type \in Commands, NEW p \in Path, Ask(type, p)
  PROVE  SessionInv'
<1> USE DEF SessionInv
<1>a. Request(type, p) \in Message
  BY DEF Message, Request
<1>b. /\ c.pc = "prompt" /\ UNCHANGED <<srv, local, alive, w, log>>
      /\ c' = [c EXCEPT !.pc = Awaits[type], !.cmd = type, !.path = p]
      /\ ClientWrites(Request(type, p))
  BY DEF Ask, files
<1>c. c.got = <<>> /\ c.count = 0 /\ crio = <<>> /\ s2c = <<>>
  BY <1>b DEF ClientPlace, ClientInv, AtMost, Answers
<1>d. wend = "open" => w.pc = "request" /\ (c2s = <<>> \/ Strayed)
  BY <1>b, SessionAssumption DEF Joint, EndsInv, ClientPlace, CmdOf, WorkerPlace, Commands, Awaits, Same, TypeOK, WorkerState
<1>1. TypeOK'
  <2>1. c' \in ClientState
    <3>1. Awaits[type] \in {"header", "response", "ready", "bye"}
      BY DEF Awaits, Commands
    <3> QED
      BY <1>b, <3>1 DEF TypeOK, ClientState
  <2> QED
    BY <2>1, <1>a, <1>b, ClientWritesFacts DEF TypeOK
<1>2. ClientPlace'
  BY <1>b, <1>c, SessionAssumption DEF TypeOK, ClientState, ClientPlace, CmdOf, Awaits, Commands
<1>3. WorkerPlace'
  BY <1>b, Frames
<1>4. EndsInv'
  BY <1>a, <1>b, <1>d, ClientWritesFacts DEF EndsInv, TypeOK, ClientState, Awaits, Commands
<1>5. ClientInv'
  BY <1>a, <1>b, <1>c, ClientWritesFacts DEF ClientInv, AtMost, TypeOK, ClientState, Awaits, Commands
<1>6. WorkerInv'
  <2>1. CASE wend = "open"
    <3>1. /\ w.pc = "request" /\ w' = w /\ wrio' = wrio
          /\ c2s # <<>> => w.unread > 0 /\ Head(c2s).kind = "block"
          /\ w.unread = 0 => wrio = <<>> /\ c2s = <<>>
      BY <2>1, <1>a, <1>b, <1>d, ClientWritesFacts DEF WorkerInv, Strayed, TypeOK, WorkerState
    <3>2. c2s = <<>> => Len(c2s') = 1 /\ c2s'[1] = Request(type, p)
      BY <2>1, <1>a, <1>b, ClientWritesFacts, Streams
    <3>3. c2s # <<>> => c2s'[1].kind = "block"
      <4>1. c2s # <<>> => Len(c2s) \in Nat \ {0} /\ Head(c2s) = c2s[1]
        BY DEF TypeOK
      <4> QED
        BY <2>1, <3>1, <4>1, <1>a, <1>b, ClientWritesFacts
    <3>4. c2s = <<>> => Len(c2s') = 1 /\ c2s'[1].kind = "request"
      BY <3>2 DEF Request
    <3>5. c2s'[1].kind = "request" => Len(c2s') = 1
      BY <3>3, <3>4
    <3>6. w.unread = 0 => c2s'[1].kind = "request"
      BY <3>1, <3>4
    <3> QED
      BY <3>1, <3>5, <3>6 DEF WorkerInv
  <2>2. CASE wend # "open"
    BY <2>2, <1>a, <1>b, ClientWritesFacts, Frames
  <2> QED
    BY <2>1, <2>2
<1>7. Joint'
  <2> SUFFICES ASSUME wend = "open" PROVE Joint'
    BY <1>a, <1>b, ClientWritesFacts DEF Joint
  <2>1. c'.pc = Awaits[type] /\ c'.cmd = type /\ c'.path = p
    BY <1>b DEF TypeOK, ClientState
  <2>2. w'.pc = "request" /\ s2c' = <<>>
    BY <1>a, <1>b, <1>c, <1>d, ClientWritesFacts
  <2>3. CASE c2s = <<>>
    <3>1. c2s' = <<Request(type, p)>>
      BY <2>3, <1>b DEF ClientWrites
    <3> QED
      BY <2>1, <2>2, <3>1 DEF Joint, Awaits, Commands
  <2>4. CASE Strayed /\ c2s # <<>>
    <3>1. c2s' # <<>> /\ Head(c2s') = Head(c2s)
      <4>1. c2s \in Seq(Message) /\ Len(c2s) \in Nat \ {0}
        BY <2>4 DEF TypeOK
      <4>2. c2s' # <<>> /\ c2s'[1] = c2s[1] /\ c2s' \in Seq(Message)
        BY <1>a, <1>b, <4>1, ClientWritesFacts
      <4> QED
        BY <4>1, <4>2
    <3>2. Strayed'
      BY <1>b, <2>1, <2>2, <2>4, <3>1 DEF Strayed, Awaits, Commands
    <3> QED
      BY <2>2, <3>2 DEF Joint
  <2> QED
    BY <1>d, <2>3, <2>4
<1> QED
  BY <1>1, <1>2, <1>3, <1>4, <1>5, <1>6, <1>7

\* The client is back at its prompt, and has read all that there was.
LEMMA InvPrompt ==
  ASSUME SessionInv, Prompt, UNCHANGED <<srv, alive, w, log, c2s, wrio, cend, wend>>,
         local' \in [Path -> File], s2c' = <<>>, crio' = <<>>, c.pc # "down",
         wend = "open" => w.pc = "request" /\ (c2s = <<>> \/ Strayed)
  PROVE  SessionInv'
<1>1. c'.pc = "prompt" /\ c'.cmd = NONE /\ c'.got = <<>> /\ c'.count = 0
  BY DEF Prompt, NoClient
<1>2. TypeOK'
  BY NewRecords DEF SessionInv, TypeOK, Prompt
<1>3. ClientPlace'
  BY <1>1 DEF ClientPlace, CmdOf
<1>4. WorkerPlace'
  BY Frames DEF SessionInv
<1>5. EndsInv'
  BY <1>1 DEF SessionInv, EndsInv
<1>6. ClientInv'
  BY <1>1 DEF ClientInv, AtMost
<1>7. WorkerInv'
  BY Frames DEF SessionInv
<1>8. Joint'
  BY <1>1 DEF Joint, Strayed
<1> QED
  BY <1>2, <1>3, <1>4, <1>5, <1>6, <1>7, <1>8 DEF SessionInv

LEMMA InvReadHeader ==
  ASSUME SessionInv, ReadHeader
  PROVE  SessionInv'
<1> USE DEF SessionInv
<1>1. /\ c.pc = "header" /\ ClientReads /\ UNCHANGED <<srv, local, alive, w, log>>
      /\ UNCHANGED <<c2s, wrio, cend, wend>> /\ In' = In
      /\ s2c # <<>> /\ Head(s2c) = s2c[1] /\ s2c[1] \in Message
      /\ Announced(s2c, Sent) /\ crio = <<>>
  BY ClientReadsFacts DEF ReadHeader, files, ClientInv
<1>2. wend = "open" => \/ w.pc = "request" /\ c2s = <<>>
                       \/ w.pc = "send" /\ s2c[1] = Header(NO_ERROR_R, w.total)
  BY <1>1, SessionAssumption DEF Joint, EndsInv, Strayed, Awaits, Commands, TypeOK, WorkerState
<1>3. CASE s2c[1].error # NO_ERROR_R
  <2>1. s2c' = <<>> /\ crio' = <<>>
    BY <1>1, <1>3, ClientReadsFacts DEF Announced
  <2>2. w.pc = "send" => wend # "open"
    BY <1>2, <1>3 DEF Header
  <2>3. Prompt
    BY <1>1, <1>3 DEF ReadHeader
  <2> QED
    BY <1>1, <1>2, <2>1, <2>2, <2>3, InvPrompt DEF TypeOK
<1>4. CASE s2c[1].error = NO_ERROR_R
  <2>1. c' = [c EXCEPT !.pc = "blocks", !.total = s2c[1].total_size]
    BY <1>1, <1>4 DEF ReadHeader
  <2>2. s2c[1].total_size \in Nat
    BY <1>1 DEF Message, Announced
  <2>3. /\ c' \in ClientState /\ c'.pc = "blocks" /\ c'.cmd = c.cmd /\ c'.path = c.path
        /\ c'.total = s2c[1].total_size /\ c'.count = c.count /\ c'.got = c.got /\ c.got = <<>>
    BY <1>1, <2>1, <2>2 DEF TypeOK, ClientState, ClientPlace
  <2>4. /\ s2c' \in Seq(Message) /\ crio' \in Seq(Message) /\ Len(Out') = Len(s2c) - 1
        /\ \A i \in 1..Len(Out') : Out'[i] = s2c[i + 1]
    BY <1>1, ClientReadsFacts
  <2>5. Len(s2c) \in Nat
    BY DEF TypeOK
  <2>t. TypeOK'
    BY <1>1, <2>3, <2>4 DEF TypeOK
  <2>6. ClientPlace'
    BY <1>1, <2>3 DEF ClientPlace, CmdOf
  <2>7. WorkerPlace'
    BY <1>1, Frames
  <2>8. EndsInv'
    BY <1>1, <2>3 DEF EndsInv
  <2>9. ClientInv'
    <3>1. Blocks(Out, Sent)'
      BY <1>1, <2>3, <2>4, <2>5 DEF Announced, Blocks, Sent
    <3>2. Len(c'.got) + Len(Out') <= c'.total
      BY <1>1, <1>4, <2>2, <2>3, <2>4, <2>5 DEF Announced
    <3> QED
      BY <2>3, <3>1, <3>2 DEF ClientInv
  <2>10. WorkerInv'
    BY <1>1, Frames
  <2>11. Joint'
    <3> SUFFICES ASSUME wend = "open" PROVE Joint'
      BY <1>1 DEF Joint
    <3>1. CASE w.pc = "request"
      BY <1>1, <1>2, <2>3, <3>1 DEF Joint
    <3>2. CASE w.pc = "send"
      <4>1. /\ Same /\ w.total = s2c[1].total_size /\ Len(s2c) - 1 = w.count
        BY <1>1, <1>2, <3>2 DEF Joint, Header
      <4> QED
        BY <1>1, <2>3, <2>4, <2>5, <3>2, <4>1 DEF Joint, Same
    <3> QED
      BY <1>2, <3>1, <3>2
  <2> QED
    BY <2>t, <2>6, <2>7, <2>8, <2>9, <2>10, <2>11
<1> QED
  BY <1>3, <1>4

LEMMA InvReadBlock ==
  ASSUME SessionInv, ReadBlock
  PROVE  SessionInv'
<1> USE DEF SessionInv
<1>1. /\ c.pc = "blocks" /\ Len(c.got) < c.total /\ UNCHANGED <<srv, local, alive, w, log>>
      /\ ClientReadsOn /\ UNCHANGED <<c2s, wrio, cend, wend>> /\ In' = In
      /\ Len(Out) \in Nat \ {0} /\ Out[1] \in Message /\ Out # <<>>
      /\ s2c' \in Seq(Message) /\ crio' \in Seq(Message) /\ Len(Out') = Len(Out) - 1
      /\ \A i \in 1..Len(Out') : Out'[i] = Out[i + 1]
  BY ClientReadsOnFacts DEF ReadBlock, files
<1>2. c' = [c EXCEPT !.got = Append(@, Out[1].data)]
  BY <1>1, ClientReadsOnFacts DEF ReadBlock, Out
<1>3. /\ c.got \in Seq(Value \cup {NONE}) /\ c.total \in Nat
      /\ Blocks(Out, Sent) /\ Len(c.got) + Len(Out) <= c.total
      /\ Out[1].data \in Sent
      /\ c.cmd = "GET" => c.got \in Seq(Value)
  BY <1>1 DEF TypeOK, ClientState, ClientInv, ClientPlace, Blocks
<1>4. /\ c' \in ClientState /\ c'.pc = c.pc /\ c'.cmd = c.cmd /\ c'.path = c.path
      /\ c'.total = c.total /\ c'.count = c.count /\ c'.got = Append(c.got, Out[1].data)
      /\ Len(c'.got) = Len(c.got) + 1
  <2>1. Out[1].data \in Value \cup {NONE}
    BY <1>3 DEF Sent
  <2>2. Append(c.got, Out[1].data) \in Seq(Value \cup {NONE}) /\ Len(Append(c.got, Out[1].data)) = Len(c.got) + 1
    BY <1>3, <2>1
  <2> QED
    BY <1>2, <2>2 DEF TypeOK, ClientState
<1>5. c'.cmd = "GET" => c'.got \in Seq(Value)
  BY <1>3, <1>4 DEF Sent
<1>t. TypeOK'
  BY <1>1, <1>4 DEF TypeOK
<1>6. ClientPlace'
  BY <1>1, <1>4, <1>5 DEF ClientPlace, CmdOf
<1>7. WorkerPlace'
  BY <1>1, Frames
<1>8. EndsInv'
  BY <1>1, <1>4 DEF EndsInv
<1>9. ClientInv'
  <2>0. Sent' = Sent
    BY <1>4 DEF Sent
  <2>1. Blocks(Out, Sent)'
    BY <1>1, <1>3, <2>0 DEF Blocks
  <2>2. Len(c'.got) + Len(Out') <= c'.total
    BY <1>1, <1>3, <1>4
  <2> QED
    BY <1>1, <1>4, <2>1, <2>2 DEF ClientInv
<1>10. WorkerInv'
  BY <1>1, Frames
<1>11. Joint'
  <2> SUFFICES ASSUME wend = "open" PROVE Joint'
    BY <1>1 DEF Joint
  <2>1. \/ w.pc = "request" /\ c2s = <<>>
        \/ /\ w.pc = "send" /\ Same /\ c.total = w.total
           /\ Len(c.got) + Len(Out) = w.count
    BY <1>1 DEF Joint, EndsInv, Strayed, Awaits, ClientPlace, CmdOf, TypeOK, WorkerState
  <2>2. w.pc = "send" => Len(c'.got) + Len(Out') = w.count
    BY <1>1, <1>3, <1>4, <2>1
  <2> QED
    BY <1>1, <1>4, <2>1, <2>2 DEF Joint, Same
<1> QED
  BY <1>t, <1>6, <1>7, <1>8, <1>9, <1>10, <1>11

LEMMA InvReceived ==
  ASSUME SessionInv, Received
  PROVE  SessionInv'
<1> USE DEF SessionInv
<1>1. /\ c.pc = "blocks" /\ Len(c.got) = c.total /\ Prompt
      /\ UNCHANGED <<srv, alive, w, log, c2s, wrio, cend, s2c, crio, wend>>
      /\ local' = IF c.cmd = "GET" THEN [local EXCEPT ![c.path] = c.got] ELSE local
  BY DEF Received, up, down
<1>2. local' \in [Path -> File]
  BY <1>1 DEF TypeOK, ClientPlace, File
<1>3. Len(Out) = 0 /\ s2c = <<>> /\ crio = <<>>
  <2>1. Len(c.got) \in Nat /\ c.total \in Nat
    BY DEF TypeOK, ClientState
  <2>2. Len(c.got) + Len(Out) <= c.total
    BY <1>1 DEF ClientInv
  <2>3. Len(crio) \in Nat /\ Len(s2c) \in Nat /\ Len(Out) = Len(crio) + Len(s2c)
    BY Streams
  <2>4. Len(crio) = 0 /\ Len(s2c) = 0
    BY <1>1, <2>1, <2>2, <2>3
  <2> QED
    BY <2>3, <2>4, Streams
<1>4. wend = "open" => w.pc = "request" /\ c2s = <<>>
  <2>1. w.pc = "send" => w.count < w.total /\ w.count \in Nat /\ w.total \in Nat
    BY DEF WorkerPlace, TypeOK, WorkerState
  <2>2. c.total \in Nat
    BY DEF TypeOK, ClientState
  <2> QED
    BY <1>1, <1>3, <2>1, <2>2 DEF Joint, EndsInv, Strayed, Awaits, ClientPlace, CmdOf, TypeOK, WorkerState
<1> QED
  BY <1>1, <1>2, <1>3, <1>4, InvPrompt

LEMMA InvReadResponse ==
  ASSUME SessionInv, ReadResponse
  PROVE  SessionInv'
<1> USE DEF SessionInv
<1>1. /\ c.pc \in {"response", "result"} /\ Prompt /\ UNCHANGED <<srv, local, alive, w, log>>
      /\ ClientReads /\ UNCHANGED <<c2s, wrio, cend, wend>> /\ s2c # <<>>
  BY ClientReadsFacts DEF ReadResponse, files
<1>2. s2c' = <<>> /\ crio' = <<>>
  <2>1. Len(s2c) = 1
    BY <1>1 DEF ClientInv, AtMost
  <2> QED
    BY <1>1, <2>1, ClientReadsFacts
<1>3. wend = "open" => w.pc = "request" /\ (c2s = <<>> \/ Strayed)
  BY <1>1, SessionAssumption DEF Joint, EndsInv, Awaits, Commands, WorkerPlace, TypeOK, WorkerState, Same
<1> QED
  BY <1>1, <1>2, <1>3, InvPrompt DEF TypeOK

LEMMA InvAnswerLost ==
  ASSUME SessionInv, AnswerLost
  PROVE  SessionInv'
<1> USE DEF SessionInv
<1>1. /\ wend = "eof" /\ s2c = <<>> /\ Prompt
      /\ UNCHANGED <<srv, local, alive, w, log, c2s, wrio, cend, s2c, crio, wend>>
      /\ c.pc \in {"header", "ready", "result", "response", "bye", "blocks"}
      /\ c.pc = "blocks" => crio = <<>>
  BY DEF AnswerLost, ClientReadsEnd, files, up, down
<1>2. crio = <<>>
  BY <1>1 DEF ClientInv
<1> QED
  BY <1>1, <1>2, InvPrompt DEF TypeOK

LEMMA InvReadReady ==
  ASSUME SessionInv, ReadReady
  PROVE  SessionInv'
<1> USE DEF SessionInv
<1>1. /\ c.pc = "ready" /\ UNCHANGED <<srv, local, alive, w, log>>
      /\ ClientReads /\ UNCHANGED <<c2s, wrio, cend, wend>> /\ s2c # <<>>
      /\ c' = [c EXCEPT !.pc = "upload"]
  BY ClientReadsFacts DEF ReadReady, files
<1>2. s2c' = <<>> /\ crio' = <<>>
  <2>1. Len(s2c) = 1
    BY <1>1 DEF ClientInv, AtMost
  <2> QED
    BY <1>1, <2>1, ClientReadsFacts
<1>3. wend = "open" => w.pc = "header" /\ c2s = <<>> /\ Same
  BY <1>1 DEF Joint, EndsInv, Strayed, TypeOK, WorkerState
<1>4. /\ c' \in ClientState /\ c'.pc = "upload" /\ c'.cmd = c.cmd /\ c'.path = c.path
      /\ c'.count = c.count /\ c'.got = c.got
  BY <1>1 DEF TypeOK, ClientState
<1>t. TypeOK'
  BY <1>1, <1>2, <1>4 DEF TypeOK
<1>5. ClientPlace'
  BY <1>1, <1>4 DEF ClientPlace, CmdOf
<1>6. WorkerPlace'
  BY <1>1, Frames
<1>7. EndsInv'
  BY <1>1, <1>4 DEF EndsInv
<1>8. ClientInv'
  BY <1>2, <1>4 DEF ClientInv, AtMost
<1>9. WorkerInv'
  BY <1>1, Frames
<1>10. Joint'
  BY <1>1, <1>3, <1>4 DEF Joint, Same
<1> QED
  BY <1>t, <1>5, <1>6, <1>7, <1>8, <1>9, <1>10

LEMMA InvUploadHeader ==
  ASSUME SessionInv, UploadHeader
  PROVE  SessionInv'
<1> USE DEF SessionInv
<1>1. c.pc = "upload" /\ UNCHANGED <<srv, local, alive, w, log>>
  BY DEF UploadHeader, files
<1>2. c.path \in Path /\ c.cmd = "PUT" /\ c.got = <<>> /\ c.count = 0 /\ crio = <<>> /\ s2c = <<>>
  BY <1>1 DEF ClientPlace, CmdOf, ClientInv, AtMost, Answers
<1>3. PICK m \in Message :
        /\ ClientWrites(m)
        /\ c'.pc \in {"result", "sending"} /\ c'.cmd = c.cmd /\ c'.path = c.path
        /\ c'.count = 0 /\ c'.got = <<>> /\ c' \in ClientState
        /\ m.kind = "header"
        /\ c'.pc = "sending" => m = Header(NO_ERROR_R, c'.total) /\ local[c.path] # NONE /\ 0 < c'.total
        /\ m.total_size \in Nat
  <2>1. CASE local[c.path] = NONE
    <3>1. ClientWrites(Header(PATH_ERROR_R, 0)) /\ c' = [c EXCEPT !.pc = "result"]
      BY <2>1 DEF UploadHeader
    <3>2. Header(PATH_ERROR_R, 0) \in Message
      BY DEF Header, Message
    <3>3. /\ c'.pc = "result" /\ c'.cmd = c.cmd /\ c'.path = c.path
          /\ c'.count = 0 /\ c'.got = <<>> /\ c' \in ClientState
      BY <1>2, <3>1 DEF TypeOK, ClientState
    <3>4. Header(PATH_ERROR_R, 0).kind = "header" /\ Header(PATH_ERROR_R, 0).total_size \in Nat
      BY DEF Header
    <3> QED
      BY <3>1, <3>2, <3>3, <3>4
  <2>2. CASE local[c.path] # NONE
    <3> DEFINE n == Len(local[c.path])
    <3>1. /\ ClientWrites(Header(NO_ERROR_R, n))
          /\ c' = [c EXCEPT !.pc = IF local[c.path] = <<>> THEN "result" ELSE "sending", !.total = n]
      BY <2>2 DEF UploadHeader
    <3>2. n \in Nat /\ (local[c.path] # <<>> => 0 < n)
      BY <1>2, <2>2 DEF TypeOK, File
    <3>3. Header(NO_ERROR_R, n) \in Message
      BY <3>2 DEF Header, Message
    <3>4. /\ c'.pc \in {"result", "sending"} /\ c'.cmd = c.cmd /\ c'.path = c.path
          /\ c'.count = 0 /\ c'.got = <<>> /\ c' \in ClientState /\ c'.total = n
          /\ c'.pc = "sending" => local[c.path] # <<>>
      BY <1>2, <3>1, <3>2 DEF TypeOK, ClientState
    <3>5. Header(NO_ERROR_R, n).kind = "header" /\ Header(NO_ERROR_R, n).total_size = n
      BY DEF Header
    <3> QED
      BY <2>2, <3>1, <3>2, <3>3, <3>4, <3>5
  <2> QED
    BY <2>1, <2>2
<1>4. /\ UNCHANGED <<wrio, s2c, crio, cend, wend>> /\ c2s' \in Seq(Message)
      /\ wend = "open" => c2s' # <<>> /\ Len(c2s') = Len(c2s) + 1 /\ c2s'[Len(c2s) + 1] = m
      /\ wend # "open" => c2s' = c2s
  BY <1>3, ClientWritesFacts
<1>5. wend = "open" => w.pc = "header" /\ c2s = <<>> /\ Same
  BY <1>1, SessionAssumption DEF Joint, EndsInv, Strayed, Awaits, TypeOK, WorkerState, ClientPlace, CmdOf
<1>6. wend = "open" => Len(c2s') = 1 /\ c2s'[1] = m /\ c2s' # <<>>
  BY <1>4, <1>5, Streams
<1>t. TypeOK'
  BY <1>1, <1>3, <1>4 DEF TypeOK
<1>7. ClientPlace'
  BY <1>1, <1>2, <1>3 DEF ClientPlace, CmdOf
<1>8. WorkerPlace'
  BY <1>1, Frames
<1>9. EndsInv'
  BY <1>1, <1>3, <1>4, <1>5 DEF EndsInv
<1>10. ClientInv'
  BY <1>2, <1>3, <1>4 DEF ClientInv, AtMost
<1>11. WorkerInv'
  <2>1. CASE wend = "open"
    <3>1. Announced(c2s', Value)
      <4>1. \A i \in 2..Len(c2s') : c2s'[i].kind = "block" /\ c2s'[i].data \in Value
        BY <1>6, <2>1
      <4>2. Len(c2s') - 1 = 0 /\ 0 <= m.total_size
        BY <1>3, <1>6, <2>1
      <4>3. c2s'[1].kind = "header" /\ c2s'[1].total_size = m.total_size
        BY <1>3, <1>6, <2>1
      <4> QED
        BY <1>6, <2>1, <4>1, <4>2, <4>3 DEF Announced
    <3> QED
      BY <1>1, <1>4, <1>5, <2>1, <3>1 DEF WorkerInv
  <2>2. CASE wend # "open"
    BY <1>1, <1>4, <2>2, Frames
  <2> QED
    BY <2>1, <2>2
<1>12. Joint'
  BY <1>1, <1>2, <1>3, <1>4, <1>5, <1>6 DEF Joint, Same
<1> QED
  BY <1>t, <1>7, <1>8, <1>9, <1>10, <1>11, <1>12

LEMMA InvUploadBlock ==
  ASSUME SessionInv, UploadBlock
  PROVE  SessionInv'
<1> USE DEF SessionInv
<1>1. c.pc = "sending" /\ UNCHANGED <<srv, local, alive, w, log>>
  BY DEF UploadBlock, files
<1>2. /\ c.path \in Path /\ c.cmd = "PUT" /\ c.got = <<>> /\ crio = <<>>
      /\ local[c.path] \in Seq(Value) /\ Len(local[c.path]) \in Nat
      /\ c.count \in Nat /\ c.total \in Nat /\ c.count < c.total
      /\ s2c = <<>> \/ w.unread > 0
  BY <1>1 DEF ClientPlace, CmdOf, ClientInv, TypeOK, ClientState, File
<1>3. wend = "open" => \/ w.pc = "request" /\ Strayed
                       \/ w.pc \in {"header", "open", "blocks", "failed"}
  BY <1>1, <1>2, SessionAssumption DEF Joint, EndsInv, Awaits, TypeOK, WorkerState
<1>4. CASE c.count < Len(local[c.path])
  <2> DEFINE v == local[c.path][c.count + 1]
  <2>1. /\ ClientWrites(Block(v))
        /\ c' = [c EXCEPT !.pc = IF c.count + 1 = c.total THEN "result" ELSE "sending",
                          !.count = c.count + 1]
    BY <1>4 DEF UploadBlock
  <2>2. /\ c' \in ClientState /\ c'.pc \in {"sending", "result"} /\ c'.cmd = c.cmd /\ c'.path = c.path
        /\ c'.total = c.total /\ c'.got = c.got /\ c'.count = c.count + 1
        /\ c'.pc = "sending" => c.count + 1 < c.total
    <3>1. c \in ClientState /\ c.count + 1 \in Nat
      BY <1>2 DEF TypeOK
    <3>2. /\ c'.pc = IF c.count + 1 = c.total THEN "result" ELSE "sending"
          /\ c'.cmd = c.cmd /\ c'.path = c.path
          /\ c'.total = c.total /\ c'.got = c.got /\ c'.count = c.count + 1
      BY <2>1, <3>1 DEF ClientState
    <3>3. c' \in ClientState
      BY <2>1, <3>1 DEF ClientState
    <3> QED
      BY <1>2, <3>2, <3>3
  <2>3. v \in Value
    BY <1>2, <1>4
  <2>4. Block(v) \in Message /\ Block(v).kind = "block" /\ Block(v).data \in Value
    BY <2>3 DEF Block, Message
  <2> HIDE DEF v
  <2>5. /\ UNCHANGED <<wrio, s2c, crio, cend, wend>> /\ c2s' \in Seq(Message)
        /\ wend = "open" =>
              /\ c2s' # <<>> /\ Len(c2s') = Len(c2s) + 1 /\ c2s'[Len(c2s) + 1] = Block(v)
              /\ \A i \in 1..Len(c2s) : c2s'[i] = c2s[i]
              /\ Len(In') = Len(In) + 1 /\ In'[Len(In) + 1] = Block(v)
              /\ \A i \in 1..Len(In) : In'[i] = In[i]
        /\ wend # "open" => c2s' = c2s
    BY <2>1, <2>4, ClientWritesFacts
  <2>6. Len(c2s) \in Nat /\ Len(In) \in Nat
    BY Streams
  <2>s. wend = "open" /\ w.pc = "request" => Head(c2s').kind = "block" /\ Head(c2s') = c2s'[1]
    <3> SUFFICES ASSUME wend = "open", w.pc = "request" PROVE Head(c2s').kind = "block" /\ Head(c2s') = c2s'[1]
      OBVIOUS
    <3>1. c2s' # <<>> /\ c2s' \in Seq(Message) /\ Head(c2s') = c2s'[1]
      BY <2>5
    <3>2. CASE c2s = <<>>
      BY <2>4, <2>5, <2>6, <3>1, <3>2, Streams
    <3>3. CASE c2s # <<>>
      <4>1. Len(c2s) \in Nat \ {0} /\ Head(c2s) = c2s[1] /\ Head(c2s).kind = "block"
          BY <1>3, <3>3 DEF Strayed, TypeOK
      <4> QED
        BY <2>5, <3>1, <4>1
    <3> QED
      BY <3>2, <3>3
  <2>7. Answers' = Answers
    BY <1>1, <2>2 DEF Answers
  <2>t. TypeOK'
    BY <1>1, <2>2, <2>5 DEF TypeOK
  <2>8. ClientPlace'
    BY <1>1, <1>2, <2>2 DEF ClientPlace, CmdOf
  <2>9. WorkerPlace'
    BY <1>1, Frames
  <2>10. EndsInv'
    BY <1>1, <1>3, <2>2, <2>5 DEF EndsInv
  <2>11. ClientInv'
    BY <1>1, <1>2, <2>2, <2>5, <2>7 DEF ClientInv, AtMost
  <2>12. WorkerInv'
    <3>1. CASE wend = "open" /\ w.pc = "request"
      <4>1. c2s' # <<>> /\ c2s'[1].kind = "block" /\ w.unread > 0 /\ w' = w /\ wrio' = wrio
        BY <1>1, <1>3, <2>5, <2>s, <3>1 DEF Strayed
      <4> QED
        BY <3>1, <4>1 DEF WorkerInv, TypeOK, WorkerState
    <3>2. CASE wend = "open" /\ w.pc = "header"
      <4>1. /\ Announced(c2s, Value) /\ c2s[1] = Header(NO_ERROR_R, c.total) /\ Len(c2s) - 1 = c.count
            /\ c2s # <<>>
        BY <1>1, <3>2 DEF Joint, WorkerInv
      <4>2. Len(c2s) \in Nat \ {0} /\ c2s'[1] = c2s[1] /\ c2s'[1].total_size = c.total
            /\ c2s'[1].error = NO_ERROR_R /\ c2s'[1].kind = "header"
        BY <2>5, <2>6, <3>2, <4>1, Streams DEF Header
      <4>3. \A i \in 2..Len(c2s') : c2s'[i].kind = "block" /\ c2s'[i].data \in Value
        BY <2>4, <2>5, <2>6, <3>2, <4>1 DEF Announced
      <4>4. Len(c2s') - 1 <= c2s'[1].total_size
        BY <1>2, <2>5, <2>6, <3>2, <4>1, <4>2
      <4>5. Announced(c2s', Value)
        BY <2>5, <3>2, <4>2, <4>3, <4>4 DEF Announced
      <4> QED
        BY <1>1, <2>5, <3>2, <4>5 DEF WorkerInv
    <3>3. CASE wend = "open" /\ w.pc \in {"open", "blocks"}
      <4>1. Blocks(In, Value) /\ c.total = w.total /\ w.count + Len(In) = c.count
        BY <1>1, <3>3 DEF Joint, WorkerInv
      <4>2. Blocks(In', Value)
        BY <2>4, <2>5, <2>6, <3>3, <4>1 DEF Blocks
      <4>3. w.count + Len(In') <= w.total
        BY <1>2, <2>5, <2>6, <3>3, <4>1 DEF TypeOK, WorkerState
      <4> QED
        BY <1>1, <3>3, <4>2, <4>3 DEF WorkerInv
    <3>4. CASE wend = "open" /\ w.pc = "failed"
      <4>1. w.unread > 0 /\ \A i \in 1..Len(c2s) : c2s[i].kind = "block"
        BY <1>1, <3>4 DEF Joint, WorkerInv
      <4>2. \A i \in 1..Len(c2s') : c2s'[i].kind = "block"
        BY <2>4, <2>5, <2>6, <3>4, <4>1
      <4> QED
        BY <1>1, <3>4, <4>1, <4>2 DEF WorkerInv
    <3>5. CASE wend # "open"
      BY <1>1, <2>5, <3>5, Frames
    <3> QED
      BY <1>3, <3>1, <3>2, <3>3, <3>4, <3>5
  <2>13. Joint'
    <3> SUFFICES ASSUME wend = "open" PROVE Joint'
      BY <2>5 DEF Joint
    <3>1. CASE w.pc = "request"
      <4>2. Strayed'
        BY <1>1, <1>3, <2>2, <2>5, <2>s, <3>1 DEF Strayed
      <4> QED
        BY <1>1, <3>1, <4>2 DEF Joint
    <3>2. CASE w.pc = "header"
      <4>1. Same /\ s2c = <<>> /\ c2s # <<>> /\ c2s[1] = Header(NO_ERROR_R, c.total) /\ Len(c2s) - 1 = c.count
        BY <1>1, <3>2 DEF Joint
      <4>2. Len(c2s) \in Nat \ {0}
        BY <2>6, <4>1, Streams
      <4>3. c2s'[1] = c2s[1] /\ Len(c2s') - 1 = c.count + 1
        BY <1>2, <2>5, <4>1, <4>2
      <4> QED
        BY <1>1, <2>2, <2>5, <3>2, <4>1, <4>3 DEF Joint, Same
    <3>3. CASE w.pc \in {"open", "blocks"}
      <4>1. Same /\ s2c = <<>> /\ c.total = w.total /\ w.count + Len(In) = c.count /\ w.count \in Nat
        BY <1>1, <3>3 DEF Joint, TypeOK, WorkerState
      <4>2. Len(In') = Len(In) + 1
        BY <2>5
      <4>3. w.count + Len(In') = c.count + 1
        BY <1>2, <2>6, <4>1, <4>2
      <4> QED
        BY <1>1, <2>2, <2>5, <3>3, <4>1, <4>3 DEF Joint, Same
    <3>4. CASE w.pc = "failed"
      <4>1. Same /\ s2c = <<>> /\ w.unread > 0
        BY <1>1, <3>4 DEF Joint
      <4> QED
        BY <1>1, <2>2, <2>5, <3>4, <4>1 DEF Joint, Same
    <3> QED
      BY <1>3, <3>1, <3>2, <3>3, <3>4
  <2> QED
    BY <2>t, <2>8, <2>9, <2>10, <2>11, <2>12, <2>13
<1>5. CASE ~(c.count < Len(local[c.path]))
  <2>1. c' = [c EXCEPT !.pc = "result"] /\ UNCHANGED <<c2s, wrio, cend, s2c, crio, wend>>
    BY <1>5 DEF UploadBlock, up, down
  <2>2. /\ c' \in ClientState /\ c'.pc = "result" /\ c'.cmd = c.cmd /\ c'.path = c.path
        /\ c'.total = c.total /\ c'.got = c.got /\ c'.count = c.count
    BY <1>2, <2>1 DEF TypeOK, ClientState
  <2>3. Answers' = Answers
    BY <1>1, <2>2 DEF Answers
  <2>t. TypeOK'
    BY <1>1, <2>1, <2>2 DEF TypeOK
  <2>4. ClientPlace'
    BY <1>1, <1>2, <2>2 DEF ClientPlace, CmdOf
  <2>5. WorkerPlace'
    BY <1>1, Frames
  <2>6. EndsInv'
    BY <1>1, <2>1, <2>2 DEF EndsInv
  <2>7. ClientInv'
    BY <1>1, <1>2, <2>1, <2>2, <2>3 DEF ClientInv, AtMost
  <2>8. WorkerInv'
    BY <1>1, <2>1, Frames
  <2>9. Joint'
    <3> SUFFICES ASSUME wend = "open" PROVE Joint'
      BY <2>1 DEF Joint
    <3>1. CASE w.pc = "request"
      BY <1>1, <1>3, <2>1, <2>2, <3>1 DEF Joint, Strayed
    <3>2. CASE w.pc \in {"header", "open", "blocks", "failed"}
      BY <1>1, <2>1, <2>2, <3>2 DEF Joint, Same, In
    <3> QED
      BY <1>3, <3>1, <3>2
  <2> QED
    BY <2>t, <2>4, <2>5, <2>6, <2>7, <2>8, <2>9
<1> QED
  BY <1>4, <1>5

LEMMA InvUploadFails ==
  ASSUME SessionInv, UploadFails
  PROVE  SessionInv'
<1> USE DEF SessionInv
<1>1. /\ c.pc \in {"upload", "sending"} /\ wend = "reset" /\ wend' = "eof"
      /\ UNCHANGED <<srv, local, alive, w, log, c2s, wrio, cend, s2c, crio>>
      /\ c' = [c EXCEPT !.pc = "result"]
  BY DEF UploadFails, files, up
<1>2. /\ c' \in ClientState /\ c'.pc = "result" /\ c'.cmd = c.cmd /\ c'.path = c.path
      /\ c'.total = c.total /\ c'.got = c.got /\ c'.count = c.count
  BY <1>1 DEF TypeOK, ClientState
<1>3. s2c # <<>> => c.pc = "sending"
  BY <1>1 DEF ClientInv, AtMost, Answers
<1>4. c.pc = "sending" => Answers' = Answers
  BY <1>2 DEF Answers
<1>t. TypeOK'
  BY <1>1, <1>2 DEF TypeOK
<1>5. ClientPlace'
  BY <1>1, <1>2 DEF ClientPlace, CmdOf
<1>6. WorkerPlace'
  BY <1>1, Frames
<1>7. EndsInv'
  BY <1>1, <1>2 DEF EndsInv
<1>8. ClientInv'
  BY <1>1, <1>2, <1>3, <1>4 DEF ClientInv, AtMost
<1>9. WorkerInv'
  BY <1>1, Frames
<1>10. Joint'
  BY <1>1 DEF Joint
<1> QED
  BY <1>t, <1>5, <1>6, <1>7, <1>8, <1>9, <1>10

LEMMA InvClientCloses ==
  ASSUME SessionInv, NEW unread, ClientCloses(unread)
  PROVE  SessionInv'
<1> USE DEF SessionInv
<1>1. /\ c' = NoClient /\ s2c' = <<>> /\ crio' = <<>> /\ wend' = "eof"
      /\ cend' \in {"eof", "reset"}
      /\ UNCHANGED <<srv, local, alive, w, log, c2s, wrio>>
  BY DEF ClientCloses, Ends, files
<1>2. c'.pc = "down" /\ c'.cmd = NONE /\ c'.got = <<>> /\ c'.count = 0
  BY <1>1 DEF NoClient
<1>t. TypeOK'
  <2>1. c' \in ClientState
    BY <1>1, NewRecords
  <2> QED
    BY <1>1, <2>1 DEF TypeOK
<1>3. ClientPlace'
  BY <1>2 DEF ClientPlace, CmdOf
<1>4. WorkerPlace'
  BY <1>1, Frames
<1>5. EndsInv'
  BY <1>1, <1>2 DEF EndsInv
<1>6. ClientInv'
  BY <1>1, <1>2 DEF ClientInv, AtMost
<1>7. WorkerInv'
  BY <1>1, Frames
<1>8. Joint'
  BY <1>1 DEF Joint
<1> QED
  BY <1>t, <1>3, <1>4, <1>5, <1>6, <1>7, <1>8

-----------------------------------------------------------------------------
(* The steps of the worker. *)

\* The message that begins an answer is what the client waits for.
LEMMA Answered ==
  ASSUME SessionInv, NEW m \in Message, WorkerWrote(m),
         w.pc # "accept", w' \in WorkerState, w'.pc # "accept", w'.unread = w.unread,
         UNCHANGED <<c, local, alive, log>>, srv' \in [Path -> File],
         wend = "open" => /\ s2c = <<>>
                          /\ \/ c.pc = "header" /\ m.kind = "header" /\ m.total_size \in Nat
                             \/ c.pc \notin {"header", "blocks"} /\ m \in Answers
                          /\ c.pc = "sending" => w.unread > 0
  PROVE  /\ TypeOK' /\ ClientPlace' /\ EndsInv' /\ ClientInv'
         /\ UNCHANGED <<wrio, c2s, wend>> /\ In' = In
         /\ wend = "open" => cend = "open" /\ s2c' # <<>> /\ Len(s2c') = 1 /\ s2c'[1] = m
         /\ wend # "open" => cend # "open" /\ c.pc = "down"
<1> USE DEF SessionInv
<1>1. /\ UNCHANGED <<wrio, c2s, crio, wend>> /\ s2c' \in Seq(Message) /\ In' = In
      /\ cend = "open" => cend' = "open" /\ s2c' # <<>> /\ Len(s2c') = Len(s2c) + 1
                          /\ s2c'[Len(s2c) + 1] = m
      /\ cend # "open" => cend' = "eof" /\ s2c' = s2c
  BY WorkerWritesFacts
<1>2. /\ wend = "open" <=> cend = "open"
      /\ cend # "open" => c.pc = "down"
  BY DEF EndsInv
<1>3. wend = "open" => s2c' # <<>> /\ Len(s2c') = 1 /\ s2c'[1] = m
  BY <1>1, <1>2, Streams
<1>4. TypeOK'
  BY <1>1 DEF TypeOK
<1>5. ClientPlace'
  BY Frames
<1>6. EndsInv'
  BY <1>1, <1>2 DEF EndsInv
<1>7. ClientInv'
  <2>1. CASE wend # "open"
    BY <1>1, <1>2, <2>1 DEF ClientInv, AtMost, Answers
  <2>2. CASE wend = "open" /\ c.pc = "header"
    <3>1. m.kind = "header" /\ m.total_size \in Nat
      BY <2>2
    <3>2. \A i \in 2..Len(s2c') : s2c'[i].kind = "block" /\ s2c'[i].data \in Sent
      <4>1. Len(s2c') = 1
        BY <1>3, <2>2
      <4>2. 2..Len(s2c') = {}
        BY <4>1
      <4> QED
        BY <4>2
    <3>3. Len(s2c') - 1 = 0 /\ 0 <= m.total_size
      BY <1>3, <2>2, <3>1
    <3>4. Sent' = Sent
      BY DEF Sent
    <3>5. s2c'[1].kind = "header" /\ s2c'[1].total_size = m.total_size
      BY <1>3, <2>2, <3>1
    <3>6. Announced(s2c', Sent)
      BY <1>3, <2>2, <3>2, <3>3, <3>5 DEF Announced
    <3> QED
      BY <1>1, <2>2, <3>4, <3>6 DEF ClientInv
  <2>3. CASE wend = "open" /\ c.pc # "header"
    <3>1. m \in Answers /\ c.pc # "blocks" /\ Answers' = Answers
      BY <2>3 DEF Answers
    <3> QED
      BY <1>1, <1>3, <2>3, <3>1 DEF ClientInv, AtMost
  <2> QED
    BY <2>1, <2>2, <2>3
<1> QED
  BY <1>1, <1>2, <1>3, <1>4, <1>5, <1>6, <1>7

LEMMA InvReadRequest ==
  ASSUME SessionInv, ReadRequest
  PROVE  SessionInv'
<1> USE DEF SessionInv
<1>1. /\ w.pc = "request" /\ WorkerReads /\ UNCHANGED <<srv, local, alive, c>>
      /\ UNCHANGED <<s2c, crio, cend, wend>> /\ Out' = Out
      /\ c2s # <<>> /\ Head(c2s) = c2s[1] /\ c2s[1] \in Message /\ c2s[1].kind = "request"
      /\ w' = [w EXCEPT !.pc = "handle", !.cmd = c2s[1].type, !.path = c2s[1].path]
      /\ log' = IF c2s[1].type \in {"RM", "PUT"} THEN add(log, c2s[1].type, c2s[1].path) ELSE log
  BY WorkerReadsFacts DEF ReadRequest, files
<1>2. c2s' = <<>> /\ wrio' = <<>>
  <2>1. Len(c2s) = 1
    BY <1>1 DEF WorkerInv
  <2> QED
    BY <1>1, <2>1, WorkerReadsFacts
<1>3. c2s[1].type \in Commands /\ c2s[1].path \in Path
  BY <1>1 DEF Message
<1>4. /\ w' \in WorkerState /\ w'.pc = "handle" /\ w'.cmd = c2s[1].type /\ w'.path = c2s[1].path
      /\ w'.count = w.count /\ w'.unread = w.unread
  BY <1>1, <1>3 DEF TypeOK, WorkerState
<1>t. TypeOK'
  <2>1. log' \in Seq([type : {"RM", "PUT"}, path : Path])
    <3>1. CASE c2s[1].type \in {"RM", "PUT"} /\ log # <<>>
      <4>1. log' = Append(log, [type |-> c2s[1].type, path |-> c2s[1].path])
        BY <1>1, <3>1 DEF add
      <4>2. [type |-> c2s[1].type, path |-> c2s[1].path] \in [type : {"RM", "PUT"}, path : Path]
        BY <1>3, <3>1
      <4>3. log \in Seq([type : {"RM", "PUT"}, path : Path])
        BY DEF TypeOK
      <4> HIDE DEF SessionInv
      <4> QED
        BY <4>1, <4>2, <4>3
    <3>2. CASE ~(c2s[1].type \in {"RM", "PUT"} /\ log # <<>>)
      BY <1>1, <3>2 DEF add, TypeOK
    <3> QED
      BY <3>1, <3>2
  <2>2. <<>> \in Seq(Message)
    OBVIOUS
  <2> QED
    BY <1>1, <1>2, <1>4, <2>1, <2>2 DEF TypeOK
<1>5. ClientPlace'
  BY <1>1, Frames
<1>6. WorkerPlace'
  BY <1>1, <1>3, <1>4 DEF WorkerPlace
<1>7. EndsInv'
  BY <1>1, <1>4 DEF EndsInv
<1>8. ClientInv'
  BY <1>1, <1>4 DEF ClientInv, AtMost, Answers, Announced, Blocks, Sent
<1>9. WorkerInv'
  BY <1>2, <1>4 DEF WorkerInv
<1>10. Joint'
  <2> SUFFICES ASSUME wend = "open" PROVE Joint'
    BY <1>1 DEF Joint
  <2>1. c2s = <<Request(c.cmd, c.path)>> /\ c.pc = Awaits[c.cmd] /\ s2c = <<>>
    BY <1>1 DEF Joint, Strayed
  <2>2. w'.cmd = c.cmd /\ w'.path = c.path
    BY <1>4, <2>1 DEF Request
  <2> QED
    BY <1>1, <1>4, <2>1, <2>2 DEF Joint, Same
<1> QED
  BY <1>t, <1>5, <1>6, <1>7, <1>8, <1>9, <1>10

LEMMA InvRequestLost ==
  ASSUME SessionInv, RequestLost
  PROVE  SessionInv'
<1> USE DEF SessionInv
<1>1. /\ w.pc \in {"request", "header", "blocks"} /\ cend = "eof" /\ c2s = <<>>
      /\ w.pc = "blocks" => wrio = <<>>
      /\ w' = [w EXCEPT !.pc = "close"]
      /\ UNCHANGED <<srv, local, alive, log, c, c2s, wrio, cend, s2c, crio, wend>>
  BY DEF RequestLost, WorkerReadsEnd, Leave, files, up, down
<1>2. w' \in WorkerState /\ w'.pc = "close" /\ w'.unread = w.unread
  BY <1>1 DEF TypeOK, WorkerState
<1>3. c.pc = "down" /\ wend = "eof"
  BY <1>1 DEF EndsInv
<1>t. TypeOK'
  BY <1>1, <1>2 DEF TypeOK
<1>4. ClientPlace'
  BY <1>1, Frames
<1>5. WorkerPlace'
  BY <1>1, <1>2 DEF WorkerPlace
<1>6. EndsInv'
  BY <1>1, <1>2, <1>3 DEF EndsInv
<1>7. ClientInv'
  BY <1>1, <1>2, <1>3 DEF ClientInv, AtMost, Answers
<1>8. WorkerInv'
  BY <1>1, <1>2 DEF WorkerInv
<1>9. Joint'
  BY <1>1, <1>3 DEF Joint
<1> QED
  BY <1>t, <1>4, <1>5, <1>6, <1>7, <1>8, <1>9

LEMMA InvServeGet ==
  ASSUME SessionInv, ServeGet
  PROVE  SessionInv'
<1> USE DEF SessionInv
<1>1. w.pc = "handle" /\ w.cmd = "GET" /\ UNCHANGED <<srv, local, alive, log, c>>
  BY DEF ServeGet, files
<1>2. /\ w.path \in Path /\ w.count = 0 /\ c2s = <<>> /\ (w.unread = 0 => wrio = <<>>)
      /\ srv[w.path] = NONE \/ (srv[w.path] \in Seq(Value) /\ Len(srv[w.path]) \in Nat)
  BY <1>1 DEF WorkerPlace, WorkerInv, TypeOK, File
<1>3. wend = "open" => Same /\ c.pc = "header" /\ s2c = <<>>
  BY <1>1 DEF Joint, Awaits, Same
<1>4. PICK ok \in BOOLEAN, m \in Message :
        /\ WorkerWrites(m, ok)
        /\ m.kind = "header" /\ m.total_size \in Nat
        /\ \/ w' = [w EXCEPT !.pc = "request", !.total = 0, !.count = 0]
           \/ w' = [w EXCEPT !.pc = "close"] /\ ok = FALSE
           \/ /\ w' = [w EXCEPT !.pc = "send", !.total = m.total_size]
              /\ m = Header(NO_ERROR_R, m.total_size)
              /\ 0 < m.total_size /\ srv[w.path] # NONE
  <2>1. CASE srv[w.path] = NONE
    <3>1. PICK ok \in BOOLEAN : /\ WorkerWrites(Header(PATH_ERROR_R, 0), ok)
                                /\ IF ok THEN Loop ELSE Leave
      BY <2>1 DEF ServeGet
    <3>2. /\ Header(PATH_ERROR_R, 0) \in Message
          /\ Header(PATH_ERROR_R, 0).kind = "header" /\ Header(PATH_ERROR_R, 0).total_size \in Nat
      BY DEF Header, Message
    <3> QED
      BY <3>1, <3>2 DEF Loop, Leave
  <2>2. CASE srv[w.path] # NONE
    <3> DEFINE n == Len(srv[w.path])
    <3>1. n \in Nat /\ (srv[w.path] # <<>> => 0 < n)
      BY <1>2, <2>2
    <3>2. PICK ok \in BOOLEAN :
            /\ WorkerWrites(Header(NO_ERROR_R, n), ok)
            /\ IF ~ok THEN Leave
               ELSE IF srv[w.path] = <<>> THEN Loop
               ELSE w' = [w EXCEPT !.pc = "send", !.total = n]
      BY <2>2 DEF ServeGet
    <3>3. /\ Header(NO_ERROR_R, n) \in Message
          /\ Header(NO_ERROR_R, n).kind = "header" /\ Header(NO_ERROR_R, n).total_size = n
      BY <3>1 DEF Header, Message
    <3> QED
      BY <2>2, <3>1, <3>2, <3>3 DEF Loop, Leave
  <2> QED
    BY <2>1, <2>2
<1>5. WorkerWrote(m)
  BY <1>4, Wrote
<1>6. /\ w' \in WorkerState /\ w'.pc \in {"request", "close", "send"}
      /\ w'.cmd = w.cmd /\ w'.path = w.path /\ w'.unread = w.unread /\ w'.count = 0
      /\ w'.pc = "send" => w'.total = m.total_size
  BY <1>2, <1>4 DEF TypeOK, WorkerState
<1>7. /\ TypeOK' /\ ClientPlace' /\ EndsInv' /\ ClientInv'
      /\ UNCHANGED <<wrio, c2s, wend>>
      /\ wend = "open" => cend = "open" /\ s2c' # <<>> /\ Len(s2c') = 1 /\ s2c'[1] = m
  <2>1. srv' \in [Path -> File]
    BY <1>1 DEF TypeOK
  <2> QED
    BY <1>1, <1>3, <1>4, <1>5, <1>6, <2>1, Answered
<1>8. /\ w'.pc = "close" => cend # "open"
      /\ w'.pc = "send" => /\ m = Header(NO_ERROR_R, m.total_size) /\ srv[w.path] # NONE
                           /\ 0 < m.total_size
  <2>1. w'.pc = "close" => ok = FALSE
    BY <1>4 DEF TypeOK, WorkerState
  <2>2. w'.pc = "send" => /\ m = Header(NO_ERROR_R, m.total_size) /\ srv[w.path] # NONE
                          /\ 0 < m.total_size
    BY <1>4 DEF TypeOK, WorkerState
  <2> QED
    BY <1>4, <2>1, <2>2, WriteFails
<1>9. WorkerPlace'
  BY <1>1, <1>2, <1>6, <1>8 DEF WorkerPlace
<1>10. WorkerInv'
  BY <1>2, <1>6, <1>7 DEF WorkerInv
<1>11. Joint'
  <2> SUFFICES ASSUME wend = "open" PROVE Joint'
    BY <1>7 DEF Joint
  <2>1. CASE w'.pc = "request"
    BY <1>1, <1>2, <1>3, <1>7, <2>1 DEF Joint
  <2>2. CASE w'.pc = "send"
    <3>1. s2c'[1] = Header(NO_ERROR_R, w'.total) /\ Len(s2c') - 1 = w'.count /\ s2c' # <<>>
      BY <1>6, <1>7, <1>8, <2>2
    <3>2. Same'
      BY <1>1, <1>3, <1>6 DEF Same
    <3> QED
      BY <1>1, <1>3, <2>2, <3>1, <3>2 DEF Joint
  <2> QED
    BY <1>6, <1>7, <1>8, <2>1, <2>2
<1> QED
  BY <1>7, <1>9, <1>10, <1>11

LEMMA InvServeLs ==
  ASSUME SessionInv, ServeLs
  PROVE  SessionInv'
<1> USE DEF SessionInv
<1> DEFINE m == Header(NO_ERROR_R, 1)
<1>1. w.pc = "handle" /\ w.cmd = "LS" /\ UNCHANGED <<srv, local, alive, log, c>>
  BY DEF ServeLs, files
<1>2. w.path \in Path /\ w.count = 0 /\ c2s = <<>> /\ (w.unread = 0 => wrio = <<>>)
  BY <1>1 DEF WorkerPlace, WorkerInv
<1>3. wend = "open" => Same /\ c.pc = "header" /\ s2c = <<>>
  BY <1>1 DEF Joint, Awaits, Same
<1>4. PICK ok \in BOOLEAN :
        /\ WorkerWrites(m, ok)
        /\ \/ w' = [w EXCEPT !.pc = "request", !.total = 0, !.count = 0]
           \/ w' = [w EXCEPT !.pc = "send", !.total = 1]
  BY DEF ServeLs, Loop
<1>5. m \in Message /\ m.kind = "header" /\ m.total_size \in Nat
  BY DEF Header, Message
<1> HIDE DEF m
<1>6. /\ w' \in WorkerState /\ w'.pc \in {"request", "send"}
      /\ w'.cmd = w.cmd /\ w'.path = w.path /\ w'.unread = w.unread /\ w'.count = 0
      /\ w'.pc = "send" => w'.total = 1
  <2>1. CASE w' = [w EXCEPT !.pc = "request", !.total = 0, !.count = 0]
    BY <1>2, <2>1 DEF TypeOK, WorkerState
  <2>2. CASE w' = [w EXCEPT !.pc = "send", !.total = 1]
    BY <1>2, <2>2 DEF TypeOK, WorkerState
  <2> QED
    BY <1>4, <2>1, <2>2
<1>7. /\ TypeOK' /\ ClientPlace' /\ EndsInv' /\ ClientInv'
      /\ UNCHANGED <<wrio, c2s, wend>>
      /\ wend = "open" => cend = "open" /\ s2c' # <<>> /\ Len(s2c') = 1 /\ s2c'[1] = m
  <2>1. srv' \in [Path -> File]
    BY <1>1 DEF TypeOK
  <2>2. WorkerWrote(m)
    BY <1>4, Wrote
  <2> QED
    BY <1>1, <1>3, <1>5, <1>6, <2>1, <2>2, Answered
<1>9. WorkerPlace'
  BY <1>1, <1>2, <1>6 DEF WorkerPlace
<1>10. WorkerInv'
  BY <1>2, <1>6, <1>7 DEF WorkerInv
<1>11. Joint'
  <2> SUFFICES ASSUME wend = "open" PROVE Joint'
    BY <1>7 DEF Joint
  <2>1. CASE w'.pc = "request"
    BY <1>1, <1>2, <1>3, <1>7, <2>1 DEF Joint
  <2>2. CASE w'.pc = "send"
    <3>1. s2c'[1] = Header(NO_ERROR_R, w'.total) /\ Len(s2c') - 1 = w'.count /\ s2c' # <<>>
      BY <1>6, <1>7, <2>2 DEF m
    <3>2. Same'
      BY <1>1, <1>3, <1>6 DEF Same
    <3> QED
      BY <1>1, <1>3, <2>2, <3>1, <3>2 DEF Joint
  <2> QED
    BY <1>6, <2>1, <2>2
<1> QED
  BY <1>7, <1>9, <1>10, <1>11

LEMMA InvSendBlock ==
  ASSUME SessionInv, SendBlock
  PROVE  SessionInv'
<1> USE DEF SessionInv
<1> DEFINE content == IF w.cmd = "LS" THEN <<NONE>> ELSE srv[w.path]
<1>1. w.pc = "send" /\ UNCHANGED <<srv, local, alive, log, c>>
  BY DEF SendBlock, files
<1>2. /\ w.cmd \in {"GET", "LS"} /\ w.path \in Path /\ c2s = <<>> /\ (w.unread = 0 => wrio = <<>>)
      /\ w.cmd = "GET" => srv[w.path] \in Seq(Value)
      /\ w.count \in Nat /\ w.total \in Nat /\ w.count < w.total /\ w \in WorkerState
      /\ w.cmd = "GET" => srv[w.path] # NONE
  BY <1>1 DEF WorkerPlace, WorkerInv, TypeOK, WorkerState, File
<1>a. w.count \in Nat /\ w.total \in Nat /\ w.count < w.total
  BY <1>2
<1>3. wend = "open" =>
        /\ Same
        /\ \/ /\ c.pc = "header" /\ s2c # <<>>
              /\ s2c[1] = Header(NO_ERROR_R, w.total) /\ Len(s2c) - 1 = w.count
           \/ c.pc = "blocks" /\ c.total = w.total /\ Len(c.got) + Len(Out) = w.count
  BY <1>1 DEF Joint
<1>4. /\ wend = "open" <=> cend = "open"
      /\ cend # "open" => c.pc = "down"
  BY <1>1 DEF EndsInv
<1>5. ClientPlace'
  BY <1>1, Frames
<1>6. CASE w.count < Len(content)
  <2> DEFINE v == content[w.count + 1]
  <2>1. PICK ok \in BOOLEAN :
          /\ WorkerWrites(Block(v), ok)
          /\ IF ~ok THEN (IF w.cmd = "GET" THEN Leave ELSE Loop)
             ELSE IF w.count + 1 = w.total THEN Loop
             ELSE w' = [w EXCEPT !.count = w.count + 1]
    BY <1>6 DEF SendBlock
  <2>2. v \in IF w.cmd = "LS" THEN {NONE} ELSE Value
    <3>1. CASE w.cmd = "LS"
      <4>1. content = <<NONE>>
        BY <3>1
      <4>a. Len(<<NONE>>) = 1 /\ <<NONE>>[1] = NONE
        OBVIOUS
      <4>b. w.count < 1
        BY <1>6, <4>1, <4>a
      <4>2. w.count = 0
        BY <1>a, <4>b
      <4> QED
        BY <3>1, <4>1, <4>2, <4>a
    <3>2. CASE w.cmd = "GET"
      <4>1. content = srv[w.path] /\ content \in Seq(Value)
        BY <1>2, <3>2
      <4> QED
        BY <1>2, <1>6, <3>2, <4>1
    <3> QED
      BY <1>2, <3>1, <3>2
  <2> HIDE DEF v, content
  <2>3. v \in Value \cup {NONE}
    BY <2>2
  <2>4. Block(v) \in Message /\ Block(v).kind = "block" /\ Block(v).data = v
    BY <2>3 DEF Block, Message
  <2>5. WorkerWrote(Block(v))
    BY <2>1, Wrote
  <2>6. /\ UNCHANGED <<wrio, c2s, crio, wend>> /\ s2c' \in Seq(Message)
        /\ cend = "open" =>
             /\ cend' = "open"
             /\ s2c' # <<>> /\ Len(s2c') = Len(s2c) + 1 /\ s2c'[Len(s2c) + 1] = Block(v)
             /\ \A i \in 1..Len(s2c) : s2c'[i] = s2c[i]
             /\ Len(Out') = Len(Out) + 1 /\ Out'[Len(Out) + 1] = Block(v)
             /\ \A i \in 1..Len(Out) : Out'[i] = Out[i]
        /\ cend # "open" => cend' = "eof" /\ s2c' = s2c
    BY <2>4, <2>5, WorkerWritesFacts
  <2>7. \/ ok = FALSE /\ w' = [w EXCEPT !.pc = "close"]
        \/ ok = FALSE /\ w' = [w EXCEPT !.pc = "request", !.total = 0, !.count = 0]
        \/ w' = [w EXCEPT !.pc = "request", !.total = 0, !.count = 0] /\ w.count + 1 = w.total
        \/ w' = [w EXCEPT !.count = w.count + 1] /\ w.count + 1 # w.total
    BY <2>1 DEF Loop, Leave
  <2>8. /\ w' \in WorkerState /\ w'.cmd = w.cmd /\ w'.path = w.path /\ w'.unread = w.unread
        /\ \/ w'.pc \in {"close", "request"} /\ ok = FALSE
           \/ w'.pc = "request" /\ w.count + 1 = w.total
           \/ w'.pc = "send" /\ w'.total = w.total /\ w'.count = w.count + 1 /\ w.count + 1 # w.total
        /\ w'.pc = "request" => w'.count = 0
    <3>1. w.count + 1 \in Nat /\ w \in WorkerState
      BY <1>2
    <3>2. CASE w' = [w EXCEPT !.pc = "close"] /\ ok = FALSE
      BY <3>1, <3>2 DEF WorkerState
    <3>3. CASE w' = [w EXCEPT !.pc = "request", !.total = 0, !.count = 0] /\ (ok = FALSE \/ w.count + 1 = w.total)
      BY <3>1, <3>3 DEF WorkerState
    <3>4. CASE w' = [w EXCEPT !.count = w.count + 1] /\ w.count + 1 # w.total
      BY <1>1, <3>1, <3>4 DEF WorkerState
    <3> QED
      BY <2>7, <3>2, <3>3, <3>4
  <2>9. ok = FALSE => cend # "open"
    BY <2>1, WriteFails
  <2>10. Len(s2c) \in Nat /\ Len(Out) \in Nat /\ Len(c.got) \in Nat
    BY Streams DEF TypeOK, ClientState
  <2>t. TypeOK'
    <3> HIDE DEF content, v
    <3>1. /\ srv' \in [Path -> File] /\ local' \in [Path -> File] /\ alive' \in 0..POOL_SIZE
          /\ c' \in ClientState /\ log' \in Seq([type : {"RM", "PUT"}, path : Path])
      BY <1>1 DEF TypeOK
    <3> QED
      BY <1>1, <2>6, <2>8, <3>1 DEF TypeOK
  <2>p. WorkerPlace'
    <3>1. /\ w'.pc = "send" => w'.count < w'.total
          /\ w'.pc \in {"send", "close", "request"}
      BY <1>2, <2>8
    <3> QED
      BY <1>1, <1>2, <2>8, <3>1 DEF WorkerPlace
  <2>e. EndsInv'
    BY <1>1, <1>4, <2>6, <2>8 DEF EndsInv
  <2>c. ClientInv'
    <3>0. Sent' = Sent
      BY <1>1 DEF Sent
    <3>1. CASE cend # "open"
      BY <1>1, <1>4, <2>6, <3>1 DEF ClientInv, AtMost, Answers
    <3>2. CASE cend = "open"
      <4>1. v \in Sent
        BY <1>3, <1>4, <2>2, <3>2 DEF Sent, Same
      <4>2. CASE c.pc = "header"
        <5>1. /\ s2c # <<>> /\ s2c[1] = Header(NO_ERROR_R, w.total) /\ Len(s2c) - 1 = w.count
          BY <1>3, <1>4, <3>2, <4>2
        <5>2. Announced(s2c, Sent)
          BY <4>2, <5>1 DEF ClientInv
        <5>3. Len(s2c) \in Nat \ {0} /\ s2c'[1] = s2c[1]
          BY <2>6, <2>10, <3>2, <5>1, Streams
        <5>4. s2c'[1].kind = "header" /\ s2c'[1].error = NO_ERROR_R /\ s2c'[1].total_size = w.total
          BY <5>1, <5>3 DEF Header
        <5>5. Len(s2c') - 1 <= w.total
          BY <1>2, <2>6, <2>10, <3>2, <5>1
        <5>6. \A i \in 2..Len(s2c') : s2c'[i].kind = "block" /\ s2c'[i].data \in Sent
          BY <2>4, <2>6, <3>2, <4>1, <5>2, <5>3 DEF Announced
        <5>7. Announced(s2c', Sent)
          BY <2>6, <3>2, <5>4, <5>5, <5>6 DEF Announced
        <5> QED
          BY <1>1, <2>6, <3>0, <4>2, <5>7 DEF ClientInv
      <4>3. CASE c.pc = "blocks"
        <5>1. c.total = w.total /\ Len(c.got) + Len(Out) = w.count /\ Blocks(Out, Sent)
          BY <1>3, <1>4, <3>2, <4>3 DEF ClientInv
        <5>2. Blocks(Out', Sent)
          BY <2>4, <2>6, <2>10, <3>2, <4>1, <5>1 DEF Blocks
        <5>3. Len(Out') = Len(Out) + 1
          BY <2>6, <3>2
        <5>a. c.total = w.total /\ Len(c.got) + Len(Out) = w.count
          BY <5>1
        <5>b. Len(c.got) + (Len(Out) + 1) <= c.total
          <6>1. PICK g \in Nat, o \in Nat : g = Len(c.got) /\ o = Len(Out)
            BY <2>10
          <6>2. g + o < w.total /\ w.total \in Nat
            BY <1>a, <5>a, <6>1
          <6>3. g + (o + 1) <= w.total
            BY <6>2
          <6> QED
            BY <5>a, <6>1, <6>3
        <5>4. Len(c.got) + Len(Out') <= c.total
          BY <5>3, <5>b
        <5> QED
          BY <1>1, <2>6, <3>0, <4>3, <5>2, <5>4 DEF ClientInv
      <4> QED
        BY <1>3, <1>4, <3>2, <4>2, <4>3
    <3> QED
      BY <3>1, <3>2
  <2>w. WorkerInv'
    BY <1>2, <2>6, <2>8 DEF WorkerInv
  <2>j. Joint'
    <3> SUFFICES ASSUME wend = "open" PROVE Joint'
      BY <2>6 DEF Joint
    <3>1. CASE w'.pc = "request"
      BY <1>1, <1>2, <1>3, <2>6, <3>1 DEF Joint
    <3>2. CASE w'.pc = "send" /\ w'.total = w.total /\ w'.count = w.count + 1
      <4>1. Same /\ Same'
        BY <1>1, <1>3, <2>8 DEF Same
      <4>2. CASE c.pc = "header"
        <5>1. /\ s2c # <<>> /\ s2c[1] = Header(NO_ERROR_R, w.total) /\ Len(s2c) - 1 = w.count
          BY <1>3, <1>4, <4>2
        <5>2. Len(s2c) \in Nat \ {0} /\ s2c'[1] = s2c[1] /\ s2c' # <<>> /\ Len(s2c') = Len(s2c) + 1
          BY <1>4, <2>6, <2>10, <5>1, Streams
        <5>3. Len(s2c') - 1 = w'.count
          BY <1>2, <3>2, <5>1, <5>2
        <5> QED
          BY <1>1, <3>2, <4>1, <4>2, <5>1, <5>2, <5>3 DEF Joint
      <4>3. CASE c.pc = "blocks"
        <5>1. c.total = w.total /\ Len(c.got) + Len(Out) = w.count
          BY <1>3, <4>3
        <5>2. Len(Out') = Len(Out) + 1
          BY <1>4, <2>6
        <5>a. PICK g \in Nat, o \in Nat : g = Len(c.got) /\ o = Len(Out)
          BY <2>10
        <5>b. g + o = w.count /\ Len(Out') = o + 1
          BY <5>1, <5>2, <5>a
        <5>c. g + Len(Out') = w.count + 1
          BY <1>a, <5>b
        <5>3. Len(c.got) + Len(Out') = w'.count
          BY <3>2, <5>a, <5>c
        <5> QED
          BY <1>1, <3>2, <4>1, <4>3, <5>1, <5>3 DEF Joint
      <4> QED
        BY <1>3, <4>2, <4>3
    <3> QED
      BY <1>4, <2>8, <2>9, <3>1, <3>2
  <2> QED
    BY <1>5, <2>t, <2>p, <2>e, <2>c, <2>w, <2>j
<1>7. CASE ~(w.count < Len(content))
  <2>1. w' = [w EXCEPT !.pc = "request", !.total = 0, !.count = 0]
        /\ UNCHANGED <<c2s, wrio, cend, s2c, crio, wend>>
    BY <1>7 DEF SendBlock, Loop, up, down
  <2> HIDE DEF content
  <2>2. /\ w' \in WorkerState /\ w'.pc = "request" /\ w'.count = 0
        /\ w'.path = w.path /\ w'.cmd = w.cmd /\ w'.unread = w.unread
    BY <1>2, <2>1 DEF WorkerState
  <2>t. TypeOK'
    BY <1>1, <2>1, <2>2 DEF TypeOK
  <2>p. WorkerPlace'
    BY <1>1, <1>2, <2>2 DEF WorkerPlace
  <2>e. EndsInv'
    BY <1>1, <2>1, <2>2 DEF EndsInv
  <2>c. ClientInv'
    BY <1>1, <2>1, <2>2 DEF ClientInv, AtMost, Answers, Announced, Blocks, Sent, Out
  <2>w. WorkerInv'
    BY <1>2, <2>1, <2>2 DEF WorkerInv
  <2>j. Joint'
    BY <1>1, <1>2, <1>3, <2>1, <2>2 DEF Joint
  <2> QED
    BY <1>5, <2>t, <2>p, <2>e, <2>c, <2>w, <2>j
<1> QED
  BY <1>6, <1>7

\* The worker has answered all there was to answer, and reads the next request.
LEMMA InvAnswers ==
  ASSUME SessionInv, NEW m \in Message, WorkerWrote(m), Loop, UNCHANGED <<c, local, alive, log>>,
         w.pc \in {"handle", "stored", "failed"}, srv' \in [Path -> File],
         wend = "open" => /\ s2c = <<>> /\ m \in Answers
                          /\ c.pc \in {"response", "result", "sending"}
                          /\ c.pc = "response" => c2s = <<>>
                          /\ c.pc = "sending" \/ c2s # <<>> => w.unread > 0
  PROVE  SessionInv'
<1> USE DEF SessionInv
<1>1. w' = [w EXCEPT !.pc = "request", !.total = 0, !.count = 0]
  BY DEF Loop
<1>2. /\ w' \in WorkerState /\ w'.pc = "request" /\ w'.count = 0 /\ w'.unread = w.unread
  BY <1>1 DEF TypeOK, WorkerState
<1>3. /\ TypeOK' /\ ClientPlace' /\ EndsInv' /\ ClientInv'
      /\ UNCHANGED <<wrio, c2s, wend>>
      /\ wend = "open" => cend = "open" /\ s2c' # <<>> /\ Len(s2c') = 1 /\ s2c'[1] = m
  BY <1>2, Answered
<1>4. WorkerPlace'
  BY <1>2 DEF WorkerPlace
<1>5. /\ c2s # <<>> => c2s[1].kind = "block" /\ Head(c2s) = c2s[1]
      /\ w.unread = 0 => c2s = <<>> /\ wrio = <<>>
  <2>1. CASE w.pc = "failed"
    <3>1. \A i \in 1..Len(c2s) : c2s[i].kind = "block"
      BY <2>1 DEF WorkerInv
    <3>2. c2s # <<>> => Len(c2s) \in Nat \ {0} /\ Head(c2s) = c2s[1]
      BY DEF TypeOK
    <3> QED
      BY <2>1, <3>1, <3>2 DEF WorkerInv
  <2>2. CASE w.pc \in {"handle", "stored"}
    BY <2>2 DEF WorkerInv
  <2> QED
    BY <2>1, <2>2
<1>6. WorkerInv'
  BY <1>2, <1>3, <1>5 DEF WorkerInv
<1>7. Joint'
  <2> SUFFICES ASSUME wend = "open" PROVE Joint'
    BY <1>3 DEF Joint
  <2>1. CASE c.pc = "sending" \/ c2s # <<>>
    <3>1. c.pc \in {"result", "sending"} /\ w.unread > 0
      BY <2>1
    <3>2. c2s' = c2s /\ (c2s = <<>> => c.pc = "sending") /\ (c2s # <<>> => Head(c2s).kind = "block")
      BY <1>3, <1>5, <2>1
    <3>3. Strayed'
      BY <1>2, <3>1, <3>2 DEF Strayed
    <3> QED
      BY <1>2, <3>3 DEF Joint
  <2>2. CASE ~(c.pc = "sending" \/ c2s # <<>>)
    BY <1>2, <1>3, <2>2 DEF Joint
  <2> QED
    BY <2>1, <2>2
<1> QED
  BY <1>3, <1>4, <1>6, <1>7

LEMMA InvServeRm ==
  ASSUME SessionInv, ServeRm
  PROVE  SessionInv'
<1> USE DEF SessionInv
<1>1. /\ w.pc = "handle" /\ w.cmd = "RM" /\ Loop /\ UNCHANGED <<local, alive, log, c>>
      /\ srv' = [srv EXCEPT ![w.path] = NONE]
  BY DEF ServeRm
<1>2. PICK m \in Message : /\ WorkerWrote(m)
                           /\ m.kind = "response" /\ m.content \in {"REMOVED", "NOT_REMOVED"}
  <2>1. PICK ok \in BOOLEAN :
          WorkerWrites(Response(NO_ERROR_R, IF srv[w.path] = NONE THEN "NOT_REMOVED" ELSE "REMOVED"), ok)
    BY DEF ServeRm
  <2> DEFINE m == Response(NO_ERROR_R, IF srv[w.path] = NONE THEN "NOT_REMOVED" ELSE "REMOVED")
  <2>2. m \in Message /\ m.kind = "response" /\ m.content \in {"REMOVED", "NOT_REMOVED"}
    BY DEF Response, Message
  <2>3. WorkerWrote(m)
    BY <2>1, Wrote
  <2> HIDE DEF m
  <2> QED
    BY <2>2, <2>3
<1>3. srv' \in [Path -> File]
  BY <1>1 DEF TypeOK, File
<1>4. wend = "open" => /\ s2c = <<>> /\ m \in Answers
                       /\ c.pc = "response" /\ c2s = <<>>
  BY <1>1, <1>2 DEF Joint, Awaits, Same, WorkerInv, Answers
<1> QED
  BY <1>1, <1>2, <1>3, <1>4, InvAnswers

LEMMA InvServePut ==
  ASSUME SessionInv, ServePut
  PROVE  SessionInv'
<1> USE DEF SessionInv
<1> DEFINE m == Response(NO_ERROR_R, "READY_PUT")
<1>1. /\ w.pc = "handle" /\ w.cmd = "PUT" /\ UNCHANGED <<srv, local, alive, log, c>>
      /\ w' = [w EXCEPT !.pc = "header"]
  BY DEF ServePut, files
<1>2. WorkerWrote(m)
  BY Wrote DEF ServePut
<1>3. m \in Message /\ m.kind = "response" /\ m.content = "READY_PUT"
  BY DEF Response, Message
<1> HIDE DEF m
<1>4. /\ w' \in WorkerState /\ w'.pc = "header" /\ w'.cmd = w.cmd /\ w'.path = w.path
      /\ w'.count = w.count /\ w'.unread = w.unread /\ w.count = 0 /\ w.path \in Path
  BY <1>1 DEF TypeOK, WorkerState, WorkerPlace
<1>5. srv' \in [Path -> File]
  BY <1>1 DEF TypeOK
<1>6. wend = "open" => s2c = <<>> /\ m \in Answers /\ c.pc = "ready" /\ Same
  BY <1>1, <1>3 DEF Joint, Awaits, Same, Answers
<1>7. c2s = <<>> /\ (w.unread = 0 => wrio = <<>>)
  BY <1>1 DEF WorkerInv
<1>8. /\ TypeOK' /\ ClientPlace' /\ EndsInv' /\ ClientInv'
      /\ UNCHANGED <<wrio, c2s, wend>>
      /\ wend = "open" => s2c' # <<>>
  BY <1>1, <1>2, <1>3, <1>4, <1>5, <1>6, Answered
<1>9. WorkerPlace'
  BY <1>1, <1>4 DEF WorkerPlace
<1>10. WorkerInv'
  BY <1>4, <1>7, <1>8 DEF WorkerInv
<1>11. Joint'
  BY <1>1, <1>4, <1>6, <1>7, <1>8 DEF Joint, Same
<1> QED
  BY <1>8, <1>9, <1>10, <1>11

LEMMA InvServeBye ==
  ASSUME SessionInv, ServeBye
  PROVE  SessionInv'
<1> USE DEF SessionInv
<1> DEFINE m == Response(NO_ERROR_R, "BYE")
<1>1. /\ w.pc = "handle" /\ w.cmd = "BYE" /\ UNCHANGED <<srv, local, alive, log, c>>
      /\ w' = [w EXCEPT !.pc = "close"]
  BY DEF ServeBye, Leave, files
<1>2. WorkerWrote(m)
  BY Wrote DEF ServeBye
<1>3. m \in Message /\ m.kind = "response" /\ m.content = "BYE"
  BY DEF Response, Message
<1> HIDE DEF m
<1>4. w' \in WorkerState /\ w'.pc = "close" /\ w'.unread = w.unread
  BY <1>1 DEF TypeOK, WorkerState
<1>5. srv' \in [Path -> File]
  BY <1>1 DEF TypeOK
<1>6. wend = "open" => s2c = <<>> /\ m \in Answers /\ c.pc = "bye"
  BY <1>1, <1>3 DEF Joint, Awaits, Same, Answers
<1>7. c2s = <<>> /\ (w.unread = 0 => wrio = <<>>)
  BY <1>1 DEF WorkerInv
<1>8. /\ TypeOK' /\ ClientPlace' /\ EndsInv' /\ ClientInv'
      /\ UNCHANGED <<wrio, c2s, wend>>
  BY <1>1, <1>2, <1>3, <1>4, <1>5, <1>6, Answered
<1>9. WorkerPlace'
  BY <1>1, <1>4 DEF WorkerPlace
<1>10. WorkerInv'
  BY <1>4, <1>7, <1>8 DEF WorkerInv
<1>11. Joint'
  BY <1>1, <1>4, <1>6, <1>7, <1>8 DEF Joint
<1> QED
  BY <1>8, <1>9, <1>10, <1>11

LEMMA InvPutAnswer ==
  ASSUME SessionInv, PutAnswer
  PROVE  SessionInv'
<1> USE DEF SessionInv
<1>1. w.pc \in {"stored", "failed"} /\ Loop /\ UNCHANGED <<srv, local, alive, log, c>>
  BY DEF PutAnswer, files
<1>2. PICK m \in Message : WorkerWrote(m) /\ m.kind = "response" /\ m.content = "PUT"
  <2> DEFINE m == Response(IF w.pc = "stored" THEN NO_ERROR_R ELSE PATH_ERROR_R, "PUT")
  <2>1. WorkerWrote(m)
    BY Wrote DEF PutAnswer
  <2>2. m \in Message /\ m.kind = "response" /\ m.content = "PUT"
    BY DEF Response, Message
  <2> HIDE DEF m
  <2> QED
    BY <2>1, <2>2
<1>4. srv' \in [Path -> File]
  BY <1>1 DEF TypeOK
<1>5. wend = "open" => /\ s2c = <<>> /\ c.pc \in {"result", "sending"}
                       /\ c.pc = "sending" \/ c2s # <<>> => w.unread > 0
  <2>1. CASE w.pc = "stored"
    BY <2>1 DEF Joint, WorkerInv
  <2>2. CASE w.pc = "failed"
    BY <2>2 DEF Joint
  <2> QED
    BY <1>1, <2>1, <2>2
<1>6. wend = "open" => m \in Answers
  BY <1>2, <1>5 DEF Answers
<1> QED
  BY <1>1, <1>2, <1>4, <1>5, <1>6, InvAnswers

LEMMA InvPutHeader ==
  ASSUME SessionInv, PutHeader
  PROVE  SessionInv'
<1> USE DEF SessionInv
<1>1. /\ w.pc = "header" /\ WorkerReads /\ UNCHANGED <<srv, local, alive, log, c>>
      /\ UNCHANGED <<s2c, crio, cend, wend>>
      /\ c2s # <<>> /\ Head(c2s) = c2s[1] /\ c2s[1] \in Message
      /\ c2s' \in Seq(Message) /\ wrio' \in Seq(Message)
      /\ Len(In') = Len(c2s) - 1
      /\ \A i \in 1..Len(In') : In'[i] = c2s[i + 1]
  BY WorkerReadsFacts DEF PutHeader, files
<1>2. Announced(c2s, Value) /\ w.path \in Path /\ w.cmd = "PUT" /\ w.count = 0
  BY <1>1 DEF WorkerInv, WorkerPlace
<1>3. wend = "open" =>
        /\ Same /\ c.pc \in {"sending", "result"} /\ s2c = <<>>
        /\ c.pc = "sending" => c2s[1] = Header(NO_ERROR_R, c.total) /\ Len(c2s) - 1 = c.count
  BY <1>1 DEF Joint
<1>4. ClientPlace'
  BY <1>1, Frames
<1>5. CASE c2s[1].error # NO_ERROR_R
  <2>1. w' = [w EXCEPT !.pc = "failed"]
    BY <1>1, <1>5 DEF PutHeader
  <2>2. /\ w' \in WorkerState /\ w'.pc = "failed" /\ w'.cmd = w.cmd /\ w'.path = w.path
        /\ w'.count = w.count /\ w'.unread = w.unread
    BY <2>1 DEF TypeOK, WorkerState
  <2>3. c2s' = <<>> /\ wrio' = <<>>
    <3>1. Len(c2s) = 1
      BY <1>2, <1>5 DEF Announced
    <3> QED
      BY <1>1, <3>1, WorkerReadsFacts
  <2>4. wend = "open" => c.pc = "result"
    BY <1>3, <1>5 DEF Header
  <2>t. TypeOK'
    BY <1>1, <2>2 DEF TypeOK
  <2>5. WorkerPlace'
    BY <1>1, <1>2, <2>2 DEF WorkerPlace
  <2>6. EndsInv'
    BY <1>1, <2>2 DEF EndsInv
  <2>7. ClientInv'
    BY <1>1, <2>2 DEF ClientInv, AtMost, Answers, Announced, Blocks, Sent, Out
  <2>8. WorkerInv'
    <3>1. \A i \in 1..Len(c2s') : c2s'[i].kind = "block"
      BY <2>3
    <3> QED
      BY <2>2, <2>3, <3>1 DEF WorkerInv
  <2>9. Joint'
    BY <1>1, <1>3, <2>2, <2>3, <2>4 DEF Joint, Same
  <2> QED
    BY <1>4, <2>t, <2>5, <2>6, <2>7, <2>8, <2>9
<1>6. CASE c2s[1].error = NO_ERROR_R
  <2>1. w' = [w EXCEPT !.pc = "open", !.total = c2s[1].total_size]
    BY <1>1, <1>6 DEF PutHeader
  <2>2. c2s[1].total_size \in Nat
    BY <1>1, <1>2 DEF Message, Announced
  <2>3. /\ w' \in WorkerState /\ w'.pc = "open" /\ w'.cmd = w.cmd /\ w'.path = w.path
        /\ w'.count = w.count /\ w'.unread = w.unread /\ w'.total = c2s[1].total_size
    BY <2>1, <2>2 DEF TypeOK, WorkerState
  <2>4. Len(c2s) \in Nat
    BY Streams
  <2>5. Blocks(In', Value)
    BY <1>1, <1>2, <2>4 DEF Announced, Blocks
  <2>6. w'.count + Len(In') <= w'.total
    <3>1. Len(c2s) - 1 <= c2s[1].total_size
      BY <1>2, <1>6 DEF Announced
    <3>2. 0 + Len(In') <= c2s[1].total_size
      BY <1>1, <2>2, <2>4, <3>1
    <3> QED
      BY <1>2, <2>3, <3>2
  <2>t. TypeOK'
    BY <1>1, <2>3 DEF TypeOK
  <2>7. WorkerPlace'
    BY <1>1, <1>2, <2>3 DEF WorkerPlace
  <2>8. EndsInv'
    BY <1>1, <2>3 DEF EndsInv
  <2>9. ClientInv'
    BY <1>1, <2>3 DEF ClientInv, AtMost, Answers, Announced, Blocks, Sent, Out
  <2>10. WorkerInv'
    BY <2>3, <2>5, <2>6 DEF WorkerInv
  <2>11. Joint'
    <3> SUFFICES ASSUME wend = "open" PROVE Joint'
      BY <1>1 DEF Joint
    <3>1. c.pc = "sending" => c.total = w'.total /\ w'.count + Len(In') = c.count
      <4>1. c.pc = "sending" => c.total = c2s[1].total_size /\ Len(c2s) - 1 = c.count
        BY <1>3 DEF Header
      <4>2. c.pc = "sending" => 0 + Len(In') = c.count
        BY <1>1, <2>4, <4>1
      <4> QED
        BY <1>2, <2>3, <4>1, <4>2
    <3> QED
      BY <1>1, <1>3, <2>3, <3>1 DEF Joint, Same
  <2> QED
    BY <1>4, <2>t, <2>7, <2>8, <2>9, <2>10, <2>11
<1> QED
  BY <1>5, <1>6

LEMMA InvPutOpen ==
  ASSUME SessionInv, PutOpen
  PROVE  SessionInv'
<1> USE DEF SessionInv
<1>1. /\ w.pc = "open" /\ UNCHANGED <<local, alive, log, c, c2s, wrio, cend, s2c, crio, wend>>
      /\ srv' = [srv EXCEPT ![w.path] = <<>>] /\ w' = [w EXCEPT !.pc = "blocks"]
  BY DEF PutOpen, up, down
<1>2. /\ w' \in WorkerState /\ w'.pc = "blocks" /\ w'.cmd = w.cmd /\ w'.path = w.path
      /\ w'.count = w.count /\ w'.unread = w.unread /\ w'.total = w.total
      /\ w.path \in Path /\ w.cmd = "PUT"
  BY <1>1 DEF TypeOK, WorkerState, WorkerPlace
<1>3. srv' \in [Path -> File] /\ srv'[w.path] # NONE
  <2>1. <<>> \in Seq(Value) /\ srv \in [Path -> File]
    BY DEF TypeOK
  <2>2. <<>> # NONE
    BY <2>1, SessionAssumption
  <2> QED
    BY <1>1, <1>2, <2>1, <2>2 DEF File
<1>t. TypeOK'
  BY <1>1, <1>2, <1>3 DEF TypeOK
<1>4. ClientPlace'
  BY <1>1, Frames
<1>5. WorkerPlace'
  BY <1>1, <1>2, <1>3 DEF WorkerPlace
<1>6. EndsInv'
  BY <1>1, <1>2 DEF EndsInv
<1>7. ClientInv'
  BY <1>1, <1>2 DEF ClientInv, AtMost, Answers, Announced, Blocks, Sent, Out
<1>8. WorkerInv'
  BY <1>1, <1>2 DEF WorkerInv, Blocks, In
<1>9. Joint'
  BY <1>1, <1>2 DEF Joint, Same, In
<1> QED
  BY <1>t, <1>4, <1>5, <1>6, <1>7, <1>8, <1>9

LEMMA InvPutRefused ==
  ASSUME SessionInv, PutRefused
  PROVE  SessionInv'
<1> USE DEF SessionInv
<1>1. /\ w.pc = "open" /\ UNCHANGED <<srv, local, alive, log, c, c2s, wrio, cend, s2c, crio, wend>>
      /\ w' = [w EXCEPT !.pc = "failed", !.unread = w.total]
  BY DEF PutRefused, files, up, down
<1>2. /\ w' \in WorkerState /\ w'.pc = "failed" /\ w'.cmd = w.cmd /\ w'.path = w.path
      /\ w'.count = w.count /\ w'.unread = w.total /\ w.total \in Nat
      /\ w.path \in Path /\ w.cmd = "PUT" /\ w.count = 0
  BY <1>1 DEF TypeOK, WorkerState, WorkerPlace
<1>3. Blocks(In, Value) /\ Len(In) <= w.total
  <2>1. Blocks(In, Value) /\ w.count + Len(In) <= w.total
    BY <1>1 DEF WorkerInv
  <2>2. Len(In) \in Nat
    BY Streams
  <2> QED
    BY <1>2, <2>1, <2>2
<1>4. w.total = 0 => c2s = <<>> /\ wrio = <<>>
  <2>1. Len(c2s) \in Nat /\ Len(wrio) \in Nat /\ Len(In) = Len(wrio) + Len(c2s)
    BY Streams
  <2>2. w.total = 0 => Len(c2s) = 0 /\ Len(wrio) = 0
    BY <1>2, <1>3, <2>1
  <2> QED
    BY <2>1, <2>2, Streams
<1>5. \A i \in 1..Len(c2s) : c2s[i].kind = "block"
  <2>1. c2s \in Seq(Message) /\ wrio \in Seq(Message) /\ Len(wrio) \in Nat /\ Len(c2s) \in Nat
    BY DEF TypeOK
  <2>2. /\ Len(wrio \o c2s) = Len(wrio) + Len(c2s)
        /\ \A i \in 1..Len(c2s) : (wrio \o c2s)[Len(wrio) + i] = c2s[i]
    BY <2>1
  <2>3. \A i \in 1..Len(wrio \o c2s) : (wrio \o c2s)[i].kind = "block"
    BY <1>3 DEF Blocks, In
  <2> SUFFICES ASSUME NEW i \in 1..Len(c2s) PROVE c2s[i].kind = "block"
    OBVIOUS
  <2>4. Len(wrio) + i \in 1..Len(wrio \o c2s)
    BY <2>1, <2>2
  <2> QED
    BY <2>2, <2>3, <2>4
<1>t. TypeOK'
  BY <1>1, <1>2 DEF TypeOK
<1>6. ClientPlace'
  BY <1>1, Frames
<1>7. WorkerPlace'
  BY <1>1, <1>2 DEF WorkerPlace
<1>8. EndsInv'
  BY <1>1, <1>2 DEF EndsInv
<1>a. wend = "open" =>
        /\ Same /\ c.pc \in {"sending", "result"} /\ s2c = <<>>
        /\ c.pc = "sending" => w.total > 0
  <2>1. c.pc = "sending" => c.count < c.total /\ c.count \in Nat /\ c.total \in Nat
    BY DEF ClientPlace, TypeOK, ClientState
  <2>2. wend = "open" => /\ Same /\ c.pc \in {"sending", "result"} /\ s2c = <<>>
                         /\ c.pc = "sending" => c.total = w.total
    BY <1>1 DEF Joint
  <2> QED
    BY <2>1, <2>2
<1>b. wend # "open" => c.pc = "down"
  BY <1>1 DEF EndsInv
<1>9. ClientInv'
  BY <1>1, <1>2, <1>a, <1>b DEF ClientInv, AtMost, Answers, Announced, Blocks, Sent, Out
<1>10. WorkerInv'
  BY <1>1, <1>2, <1>4, <1>5 DEF WorkerInv
<1>11. Joint'
  <2>1. w.total # 0 => w.total > 0
    BY <1>2
  <2> QED
    BY <1>1, <1>2, <1>4, <1>a, <2>1 DEF Joint, Same
<1> QED
  BY <1>t, <1>6, <1>7, <1>8, <1>9, <1>10, <1>11

LEMMA InvPutBlock ==
  ASSUME SessionInv, PutBlock
  PROVE  SessionInv'
<1> USE DEF SessionInv
<1>1. /\ w.pc = "blocks" /\ w.count < w.total /\ UNCHANGED <<local, alive, log, c>>
      /\ UNCHANGED <<s2c, crio, cend, wend>>
      /\ Len(In) \in Nat \ {0} /\ Head(In) = In[1]
      /\ c2s' \in Seq(Message) /\ wrio' \in Seq(Message)
      /\ Len(In') = Len(In) - 1
      /\ \A i \in 1..Len(In') : In'[i] = In[i + 1]
  BY WorkerReadsOnFacts DEF PutBlock
<1>2. /\ srv' = [srv EXCEPT ![w.path] = Append(@, In[1].data)]
      /\ w' = [w EXCEPT !.count = w.count + 1]
  BY <1>1 DEF PutBlock, In
<1>3. /\ Blocks(In, Value) /\ w.count + Len(In) <= w.total
      /\ w.path \in Path /\ w.cmd = "PUT"
      /\ w.count \in Nat /\ w.total \in Nat /\ w \in WorkerState
  BY <1>1 DEF WorkerInv, WorkerPlace, TypeOK, WorkerState
<1>4. /\ w' \in WorkerState /\ w'.pc = "blocks" /\ w'.cmd = w.cmd /\ w'.path = w.path
      /\ w'.count = w.count + 1 /\ w'.unread = w.unread /\ w'.total = w.total
  <2>1. w.count + 1 \in Nat /\ w \in WorkerState
    BY <1>3
  <2> QED
    BY <1>1, <1>2, <2>1 DEF WorkerState
<1>5. srv' \in [Path -> File] /\ srv'[w.path] # NONE
  <2>1. srv \in [Path -> File] /\ srv[w.path] \in Seq(Value)
    BY <1>1, <1>3 DEF TypeOK, WorkerPlace, File
  <2>2. In[1].data \in Value
    BY <1>1, <1>3 DEF Blocks
  <2>3. Append(srv[w.path], In[1].data) \in Seq(Value)
    BY <2>1, <2>2
  <2>4. Append(srv[w.path], In[1].data) # NONE
    BY <2>3, SessionAssumption
  <2>5. srv' = [srv EXCEPT ![w.path] = Append(srv[w.path], In[1].data)]
    BY <1>2
  <2> QED
    BY <1>3, <2>1, <2>3, <2>4, <2>5 DEF File
<1>6. Blocks(In', Value) /\ (w.count + 1) + Len(In') <= w.total
  <2>1. Blocks(In', Value)
    BY <1>1, <1>3 DEF Blocks
  <2>2. (w.count + 1) + Len(In') <= w.total
    BY <1>1, <1>3
  <2> QED
    BY <2>1, <2>2
<1>t. TypeOK'
  BY <1>1, <1>4, <1>5 DEF TypeOK
<1>7. ClientPlace'
  BY <1>1, Frames
<1>8. WorkerPlace'
  BY <1>1, <1>3, <1>4, <1>5 DEF WorkerPlace
<1>9. EndsInv'
  BY <1>1, <1>4 DEF EndsInv
<1>10. ClientInv'
  BY <1>1, <1>4 DEF ClientInv, AtMost, Answers, Announced, Blocks, Sent, Out
<1>11. WorkerInv'
  BY <1>4, <1>6 DEF WorkerInv
<1>12. Joint'
  <2> SUFFICES ASSUME wend = "open" PROVE Joint'
    BY <1>1 DEF Joint
  <2>1. /\ Same /\ c.pc \in {"sending", "result"} /\ s2c = <<>>
        /\ c.pc = "sending" => c.total = w.total /\ w.count + Len(In) = c.count
    BY <1>1 DEF Joint
  <2>2. c.pc = "sending" => (w.count + 1) + Len(In') = c.count
    BY <1>1, <1>3, <2>1
  <2> QED
    BY <1>1, <1>4, <2>1, <2>2 DEF Joint, Same
<1> QED
  BY <1>t, <1>7, <1>8, <1>9, <1>10, <1>11, <1>12

LEMMA InvPutDone ==
  ASSUME SessionInv, PutDone
  PROVE  SessionInv'
<1> USE DEF SessionInv
<1>1. /\ w.pc = "blocks" /\ w.count = w.total /\ w' = [w EXCEPT !.pc = "stored"]
      /\ UNCHANGED <<srv, local, alive, log, c, c2s, wrio, cend, s2c, crio, wend>>
  BY DEF PutDone, Stored, files, up, down
<1>2. /\ w' \in WorkerState /\ w'.pc = "stored" /\ w'.cmd = w.cmd /\ w'.path = w.path
      /\ w'.count = w.count /\ w'.unread = w.unread
      /\ w.path \in Path /\ w.cmd = "PUT"
  BY <1>1 DEF TypeOK, WorkerState, WorkerPlace
<1>3. c2s = <<>> /\ wrio = <<>> /\ Len(In) = 0
  <2>1. Len(c2s) \in Nat /\ Len(wrio) \in Nat /\ Len(In) = Len(wrio) + Len(c2s)
    BY Streams
  <2>2. w.count + Len(In) <= w.total /\ w.count \in Nat
    BY <1>1 DEF WorkerInv, TypeOK, WorkerState
  <2>3. Len(c2s) = 0 /\ Len(wrio) = 0 /\ Len(In) = 0
    BY <1>1, <2>1, <2>2
  <2> QED
    BY <2>3, Streams
<1>4. wend = "open" => Same /\ c.pc = "result" /\ s2c = <<>>
  <2>1. c.pc = "sending" => c.count < c.total /\ c.count \in Nat /\ c.total \in Nat
    BY DEF ClientPlace, TypeOK, ClientState
  <2>2. wend = "open" => /\ Same /\ c.pc \in {"sending", "result"} /\ s2c = <<>>
                         /\ c.pc = "sending" => c.total = w.total /\ w.count + Len(In) = c.count
    BY <1>1 DEF Joint
  <2>3. w.count \in Nat
    BY DEF TypeOK, WorkerState
  <2> QED
    BY <1>1, <1>3, <2>1, <2>2, <2>3
<1>t. TypeOK'
  BY <1>1, <1>2 DEF TypeOK
<1>5. ClientPlace'
  BY <1>1, Frames
<1>6. WorkerPlace'
  BY <1>1, <1>2 DEF WorkerPlace
<1>7. EndsInv'
  BY <1>1, <1>2 DEF EndsInv
<1>8. ClientInv'
  BY <1>1, <1>2 DEF ClientInv, AtMost, Answers, Announced, Blocks, Sent, Out
<1>9. WorkerInv'
  BY <1>1, <1>2, <1>3 DEF WorkerInv
<1>10. Joint'
  BY <1>1, <1>2, <1>4 DEF Joint, Same
<1> QED
  BY <1>t, <1>5, <1>6, <1>7, <1>8, <1>9, <1>10

LEMMA InvWorkerCloses ==
  ASSUME SessionInv, WorkerCloses, alive' \in {alive, alive - 1}, w.pc # "accept"
  PROVE  SessionInv'
<1> USE DEF SessionInv
<1>1. /\ w' = [NoWorker EXCEPT !.unread = w.unread] /\ log' = <<>>
      /\ wend' \in IF cend = "open" THEN {"eof", "reset"} ELSE {wend}
      /\ c2s' = <<>> /\ wrio' = <<>>
      /\ UNCHANGED <<srv, local, c, s2c, crio, cend>>
  BY DEF WorkerCloses, Ends, files
<1>2. /\ w' \in WorkerState /\ w'.pc = "accept" /\ w'.count = 0 /\ w'.unread = w.unread
  <2>1. w.unread \in Nat
    BY DEF TypeOK, WorkerState
  <2> QED
    BY <1>1, <2>1 DEF NoWorker, WorkerState
<1>3. wend' # "open" /\ (c.pc = "down" => wend' = "eof") /\ wend' \in {"eof", "reset"}
  BY <1>1 DEF EndsInv, TypeOK
<1>4. alive' \in 0..POOL_SIZE
  <2>1. alive \in 0..POOL_SIZE /\ alive > 0 /\ POOL_SIZE \in Nat
    BY SessionAssumption DEF TypeOK, WorkerPlace
  <2>2. alive' = alive \/ alive' = alive - 1
    OBVIOUS
  <2> HIDE DEF SessionInv
  <2> QED
    BY <2>1, <2>2
<1>t. TypeOK'
  <2>1. <<>> \in Seq(Message) /\ <<>> \in Seq([type : {"RM", "PUT"}, path : Path])
    OBVIOUS
  <2> QED
    BY <1>1, <1>2, <1>3, <1>4, <2>1 DEF TypeOK
<1>5. ClientPlace'
  BY <1>1, Frames
<1>6. WorkerPlace'
  BY <1>1, <1>2 DEF WorkerPlace
<1>7. EndsInv'
  BY <1>1, <1>2, <1>3 DEF EndsInv
<1>8. ClientInv'
  BY <1>1, <1>2 DEF ClientInv, AtMost, Answers, Announced, Blocks, Sent, Out
<1>9. WorkerInv'
  BY <1>1, <1>2 DEF WorkerInv
<1>10. Joint'
  BY <1>3 DEF Joint
<1> QED
  BY <1>t, <1>5, <1>6, <1>7, <1>8, <1>9, <1>10

-----------------------------------------------------------------------------
(* The other processes, and the whole next-state relation. *)

LEMMA InvOtherPut ==
  ASSUME SessionInv, NEW p \in Path, NEW s \in Others, OtherPut(p, s)
  PROVE  SessionInv'
<1> USE DEF SessionInv
<1>0. srv' = [srv EXCEPT ![p] = s]
  BY DEF OtherPut
<1>1. /\ UNCHANGED <<local, alive, w, log, c, c2s, wrio, cend, s2c, crio, wend>>
  BY DEF OtherPut, up, down
<1>2. s \in Seq(Value) /\ s # NONE
  <2>1. s \in Seq(Value)
    BY SessionAssumption
  <2> QED
    BY <2>1, SessionAssumption
<1>3. srv \in [Path -> File] /\ s \in File /\ srv' = [srv EXCEPT ![p] = s]
  <2>1. srv \in [Path -> File]
    BY DEF TypeOK
  <2>2. s \in File
    BY <1>2 DEF File
  <2> QED
    BY <1>0, <2>1, <2>2
<1>4. srv' \in [Path -> File]
  BY <1>3
<1>t. TypeOK'
  BY <1>1, <1>4 DEF TypeOK
<1>p. WorkerPlace'
  <2>1. w.path \in Path => srv'[w.path] = srv[w.path] \/ srv'[w.path] = s
    BY <1>3
  <2>2. w.path \in Path /\ srv[w.path] # NONE => srv'[w.path] # NONE
    BY <1>2, <2>1
  <2> QED
    BY <1>1, <2>2 DEF WorkerPlace
<1>5. ClientPlace' /\ ClientInv' /\ WorkerInv'
  BY <1>1, Frames
<1>6. EndsInv'
  BY <1>1 DEF EndsInv
<1>7. Joint'
  BY <1>1 DEF Joint, Same, Strayed, In, Out
<1> QED
  BY <1>t, <1>p, <1>5, <1>6, <1>7

LEMMA InvOtherRm ==
  ASSUME SessionInv, NEW p \in Path, OtherRm(p)
  PROVE  SessionInv'
<1> USE DEF SessionInv
<1>1. /\ srv' = [srv EXCEPT ![p] = NONE] /\ ~InUse(p)
      /\ UNCHANGED <<local, alive, w, log, c, c2s, wrio, cend, s2c, crio, wend>>
  BY DEF OtherRm, up, down
<1>2. srv' \in [Path -> File]
  BY <1>1 DEF TypeOK, File
<1>t. TypeOK'
  BY <1>1, <1>2 DEF TypeOK
<1>3. WorkerPlace'
  <2>1. w.pc # "accept" /\ w.path \in Path => srv'[w.path] = srv[w.path]
    BY <1>1 DEF TypeOK, InUse
  <2> QED
    BY <1>1, <2>1 DEF WorkerPlace
<1>4. ClientPlace' /\ ClientInv' /\ WorkerInv'
  BY <1>1, Frames
<1>5. EndsInv'
  BY <1>1 DEF EndsInv
<1>6. Joint'
  BY <1>1 DEF Joint, Same, Strayed, In, Out
<1> QED
  BY <1>t, <1>3, <1>4, <1>5, <1>6

LEMMA InvLocalShrink ==
  ASSUME SessionInv, NEW p \in Path, LocalShrink(p)
  PROVE  SessionInv'
<1> USE DEF SessionInv
<1>1. /\ local' = [local EXCEPT ![p] = SubSeq(local[p], 1, Len(local[p]) - 1)]
      /\ local[p] # NONE /\ local[p] # <<>>
      /\ UNCHANGED <<srv, alive, w, log, c, c2s, wrio, cend, s2c, crio, wend>>
  BY DEF LocalShrink, up, down
<1>2. SubSeq(local[p], 1, Len(local[p]) - 1) \in Seq(Value)
  <2>1. local[p] \in Seq(Value)
    BY <1>1 DEF TypeOK, File
  <2> QED
    BY <1>1, <2>1
<1>3. local' \in [Path -> File]
  BY <1>1, <1>2 DEF TypeOK, File
<1>t. TypeOK'
  BY <1>1, <1>3 DEF TypeOK
<1>4. ClientPlace'
  <2>1. local'[p] # NONE
    BY <1>1, <1>2, SessionAssumption DEF TypeOK
  <2>2. c.path \in Path /\ local[c.path] # NONE => local'[c.path] # NONE
    BY <1>1, <2>1 DEF TypeOK
  <2> QED
    BY <1>1, <2>2 DEF ClientPlace, CmdOf
<1>5. WorkerPlace' /\ ClientInv' /\ WorkerInv'
  BY <1>1, Frames
<1>6. EndsInv'
  BY <1>1 DEF EndsInv
<1>7. Joint'
  BY <1>1 DEF Joint, Same, Strayed, In, Out
<1> QED
  BY <1>t, <1>4, <1>5, <1>6, <1>7

LEMMA InvStutter ==
  ASSUME SessionInv, UNCHANGED vars
  PROVE  SessionInv'
<1> USE DEF SessionInv
<1>1. UNCHANGED <<srv, local, alive, w, log, c, c2s, s2c, wrio, crio, cend, wend>>
  BY DEF vars
<1>2. TypeOK'
  BY <1>1 DEF TypeOK
<1>3. ClientPlace' /\ WorkerPlace' /\ ClientInv' /\ WorkerInv'
  BY <1>1, Frames
<1>4. EndsInv'
  BY <1>1 DEF EndsInv
<1>5. Joint'
  BY <1>1 DEF Joint, Same, Strayed, In, Out
<1> QED
  BY <1>2, <1>3, <1>4, <1>5

LEMMA InvInit == Init => SessionInv
<1> SUFFICES ASSUME Init PROVE SessionInv
  OBVIOUS
<1> USE DEF Init, NoClient, NoWorker
<1>1. TypeOK
  <2>1. c \in ClientState /\ w \in WorkerState
    BY NewRecords
  <2>2. alive \in 0..POOL_SIZE /\ srv \in [Path -> File] /\ local \in [Path -> File]
    BY SessionAssumption
  <2>3. /\ log = <<>> /\ c2s = <<>> /\ wrio = <<>> /\ s2c = <<>> /\ crio = <<>>
        /\ cend = "eof" /\ wend = "eof"
    OBVIOUS
  <2>4. <<>> \in Seq(Message) /\ <<>> \in Seq([type : {"RM", "PUT"}, path : Path])
    OBVIOUS
  <2> HIDE DEF Init
  <2> QED
    BY <2>1, <2>2, <2>3, <2>4 DEF TypeOK
<1>2. ClientPlace /\ WorkerPlace
  BY DEF ClientPlace, CmdOf, WorkerPlace
<1>3. EndsInv /\ ClientInv /\ WorkerInv
  BY DEF EndsInv, ClientInv, WorkerInv, AtMost
<1>4. Joint
  BY DEF Joint
<1> QED
  BY <1>1, <1>2, <1>3, <1>4 DEF SessionInv

LEMMA InvNext == SessionInv /\ [Next]_vars => SessionInv'
<1> SUFFICES ASSUME SessionInv, [Next]_vars PROVE SessionInv'
  OBVIOUS
<1>1. CASE Connect
  BY <1>1, InvAccepted DEF Connect
<1>2. ASSUME NEW type \in Commands, NEW p \in Path, Ask(type, p) PROVE SessionInv'
  BY <1>2, InvAsk
<1>3. CASE ReadBye \/ ClientReset \/ AskReset \/ ClientKilled
  BY <1>3, InvClientCloses DEF ReadBye, ClientReset, AskReset, ClientKilled
<1>4. CASE ReadHeader \/ ReadBlock \/ Received \/ ReadResponse \/ ReadReady \/ AnswerLost
  BY <1>4, InvReadHeader, InvReadBlock, InvReceived, InvReadResponse, InvReadReady, InvAnswerLost
<1>5. CASE UploadHeader \/ UploadBlock \/ UploadFails
  BY <1>5, InvUploadHeader, InvUploadBlock, InvUploadFails
<1>6. CASE ReadRequest \/ RequestLost \/ ServeGet \/ ServeLs \/ SendBlock \/ ServeRm \/ ServeBye
  BY <1>6, InvReadRequest, InvRequestLost, InvServeGet, InvServeLs, InvSendBlock, InvServeRm, InvServeBye
<1>7. CASE ServePut \/ PutHeader \/ PutOpen \/ PutRefused \/ PutBlock \/ PutDone \/ PutAnswer
  BY <1>7, InvServePut, InvPutHeader, InvPutOpen, InvPutRefused, InvPutBlock, InvPutDone, InvPutAnswer
<1>8. CASE CloseSession \/ LsCrash \/ WorkerReset \/ WorkerKilled
  <2>1. WorkerCloses /\ alive' \in {alive, alive - 1} /\ w.pc # "accept"
    BY <1>8 DEF CloseSession, LsCrash, WorkerReset, WorkerKilled, WorkerReadsEnd, WorkerDies
  <2> QED
    BY <2>1, InvWorkerCloses
<1>9. ASSUME NEW p \in Path, (\E s \in Others : OtherPut(p, s)) \/ OtherRm(p) \/ LocalShrink(p)
      PROVE  SessionInv'
  BY <1>9, InvOtherPut, InvOtherRm, InvLocalShrink
<1>10. CASE UNCHANGED vars
  BY <1>10, InvStutter
<1> QED
  BY <1>1, <1>2, <1>3, <1>4, <1>5, <1>6, <1>7, <1>8, <1>9, <1>10 DEF Next, ClientStep, WorkerStep

LEMMA SessionInvariant == Spec => []SessionInv
BY InvInit, InvNext, PTL DEF Spec

\* Every variable keeps its type, however the session goes.
THEOREM TypeCorrect == Spec => []TypeOK
<1>1. SessionInv => TypeOK
  BY DEF SessionInv
<1> QED
  BY <1>1, SessionInvariant, PTL

\* What a client or a worker reads next belongs to the command in progress, in any
\* order of the steps of the two, whoever is killed and whatever file changes under a
\* transfer.  Nothing is said once a put has been refused after its header: w.unread
\* is not 0 then, and the two are out of step (PathErrorHandled, which fails).
THEOREM StaysInStepAlways == Spec => []StaysInStep
<1>1. SessionInv => StaysInStep
  <2> SUFFICES ASSUME SessionInv, w.unread = 0 PROVE InStep
    BY DEF StaysInStep
  <2> USE DEF SessionInv
  <2>1. c2s # <<>> => WorkerExpects(Head(c2s))
    <3> SUFFICES ASSUME c2s # <<>> PROVE WorkerExpects(Head(c2s))
      OBVIOUS
    <3>1. Head(c2s) = c2s[1] /\ Len(c2s) \in Nat \ {0}
      BY DEF TypeOK
    <3>2. w.pc \in {"request", "header", "open", "blocks"}
      BY DEF WorkerInv
    <3>3. CASE w.pc = "request"
      BY <3>1, <3>3 DEF WorkerInv, WorkerExpects
    <3>4. CASE w.pc = "header"
      BY <3>1, <3>4 DEF WorkerInv, Announced, WorkerExpects
    <3>5. CASE w.pc \in {"open", "blocks"}
      <4>1. Blocks(In, Value) /\ w.count + Len(In) <= w.total /\ w.count \in Nat /\ w.total \in Nat
        BY <3>5 DEF WorkerInv, TypeOK, WorkerState
      <4>2. c2s \in Seq(Message) /\ wrio \in Seq(Message) /\ Len(wrio) \in Nat
        BY DEF TypeOK
      <4>3. /\ Len(wrio \o c2s) = Len(wrio) + Len(c2s)
            /\ (wrio \o c2s)[Len(wrio) + 1] = c2s[1]
        BY <3>1, <4>2
      <4>4. Len(wrio) + 1 \in 1..Len(In) /\ Len(In) > 0 /\ Len(In) \in Nat
        BY <3>1, <4>2, <4>3 DEF In
      <4>5. c2s[1].kind = "block"
        BY <4>1, <4>3, <4>4 DEF Blocks, In
      <4>6. w.count < w.total
        BY <4>1, <4>4
      <4> QED
        BY <3>1, <3>5, <4>5, <4>6 DEF WorkerExpects
    <3> QED
      BY <3>2, <3>3, <3>4, <3>5
  <2>2. s2c # <<>> => ClientExpects(Head(s2c))
    <3> SUFFICES ASSUME s2c # <<>> PROVE ClientExpects(Head(s2c))
      OBVIOUS
    <3>1. Head(s2c) = s2c[1] /\ Len(s2c) \in Nat \ {0}
      BY DEF TypeOK
    <3>2. CASE c.pc = "header"
      BY <3>1, <3>2 DEF ClientInv, Announced, ClientExpects
    <3>3. CASE c.pc = "blocks"
      <4>1. Blocks(Out, Sent) /\ Len(c.got) + Len(Out) <= c.total /\ Len(c.got) \in Nat /\ c.total \in Nat
        BY <3>3 DEF ClientInv, TypeOK, ClientState
      <4>2. s2c \in Seq(Message) /\ crio \in Seq(Message) /\ Len(crio) \in Nat
        BY DEF TypeOK
      <4>3. /\ Len(crio \o s2c) = Len(crio) + Len(s2c)
            /\ (crio \o s2c)[Len(crio) + 1] = s2c[1]
        BY <3>1, <4>2
      <4>4. Len(crio) + 1 \in 1..Len(Out) /\ Len(Out) > 0 /\ Len(Out) \in Nat
        BY <3>1, <4>2, <4>3 DEF Out
      <4>5. s2c[1].kind = "block"
        BY <4>1, <4>3, <4>4 DEF Blocks, Out
      <4>6. Len(c.got) < c.total
        BY <4>1, <4>4
      <4> QED
        BY <3>1, <3>3, <4>5, <4>6 DEF ClientExpects
    <3>4. CASE c.pc \notin {"header", "blocks"}
      <4>1. s2c[1] \in Answers /\ c.pc # "sending"
        BY <3>4 DEF ClientInv, AtMost
      <4> QED
        BY <3>1, <4>1 DEF Answers, ClientExpects
    <3> QED
      BY <3>2, <3>3, <3>4
  <2> QED
    BY <2>1, <2>2 DEF InStep
<1> QED
  BY <1>1, SessionInvariant, PTL

\* A rio_t is empty whenever the function that made it returns.
THEOREM NothingReadAheadIsLost == Spec => []NoReadAheadLost
<1>1. SessionInv => NoReadAheadLost
  <2> SUFFICES ASSUME SessionInv PROVE NoReadAheadLost
    OBVIOUS
  <2> USE DEF SessionInv
  <2>0. /\ Len(wrio) \in Nat /\ Len(crio) \in Nat /\ Len(c2s) \in Nat /\ Len(s2c) \in Nat
        /\ wrio # <<>> => Len(wrio) > 0
        /\ crio # <<>> => Len(crio) > 0
        /\ Len(In) = Len(wrio) + Len(c2s) /\ Len(Out) = Len(crio) + Len(s2c)
    BY Streams
  <2>1. ASSUME wrio # <<>> PROVE w.pc = "open" \/ (w.pc = "blocks" /\ w.count < w.total) \/ w.unread > 0
    <3>1. w.unread \in Nat /\ w.count \in Nat /\ w.total \in Nat
      BY DEF TypeOK, WorkerState
    <3>2. CASE w.unread # 0
      BY <3>1, <3>2
    <3>3. CASE w.unread = 0
      <4>1. w.pc \in {"open", "blocks"} /\ w.count + Len(In) <= w.total
        BY <2>1, <3>3 DEF WorkerInv
      <4>2. w.count < w.total
        BY <2>0, <2>1, <3>1, <4>1
      <4> QED
        BY <4>1, <4>2
    <3> QED
      BY <3>2, <3>3
  <2>2. ASSUME crio # <<>> PROVE c.pc = "blocks" /\ Len(c.got) < c.total
    <3>1. c.pc = "blocks" /\ Len(c.got) + Len(Out) <= c.total
      BY <2>2 DEF ClientInv
    <3>2. PICK g \in Nat, o \in Nat : g = Len(c.got) /\ o = Len(Out)
      BY <2>0 DEF TypeOK, ClientState
    <3>3. c.total \in Nat /\ o > 0
      BY <2>0, <2>2, <3>2 DEF TypeOK, ClientState
    <3>4. g + o <= c.total
      BY <3>1, <3>2
    <3>5. g < c.total
      BY <3>3, <3>4
    <3> QED
      BY <3>1, <3>2, <3>5
  <2> QED
    BY <2>1, <2>2 DEF NoReadAheadLost
<1> QED
  BY <1>1, SessionInvariant, PTL
=============================================================================

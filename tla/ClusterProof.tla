----------------------------- MODULE ClusterProof ----------------------------
(***************************************************************************)
(* Theorems about Cluster, for any clients, slaves and workers, any        *)
(* config_master and any number of deaths.                                 *)
(***************************************************************************)
EXTENDS Cluster, TLAPS

\* i = (i + 1) % connected, for a line i.
LEMMA NextLine ==
  ASSUME NEW n \in Nat \ {0}, NEW k \in 0..(n - 1)
  PROVE  (k + 1) % n = (IF k + 1 = n THEN 0 ELSE k + 1)
OBVIOUS

LEMMA ConnectedNat == connected \in Nat /\ connected <= Len(Config)
BY ClusterAssumption DEF connected

LEMMA TypeInit == Init => TypeOK
<1> SUFFICES ASSUME Init PROVE TypeOK
  OBVIOUS
<1>1. queue \in [Slave -> Seq(Client)]
  <2>1. \A s \in Slave : queue[s] = <<>> /\ <<>> \in Seq(Client)
    BY DEF Init
  <2> QED
    BY <2>1 DEF Init
<1>2. serves \in [Slave -> [Worker -> Client \cup {NONE, "dead"}]]
  BY DEF Init
<1>3. i \in 0..(IF connected = 0 THEN 0 ELSE connected - 1) /\ handed \in [Line -> Nat]
  BY ConnectedNat DEF Init
<1>4. backlog \in Seq(Client) /\ conn \in Client \cup {NONE} /\ pc \in {"accept", "read", "ended"}
  BY DEF Init
<1> QED
  BY <1>1, <1>2, <1>3, <1>4 DEF Init, TypeOK

\* The line that is given out, as TypeOK and the balance need it.
LEMMA Given ==
  ASSUME TypeOK, GiveSlave
  PROVE  /\ connected \in Nat \ {0}
         /\ i \in Line /\ i' \in Line
         /\ i' = (IF i + 1 = connected THEN 0 ELSE i + 1)
         /\ handed' = [handed EXCEPT ![i'] = handed[i'] + 1]
<1>1. connected \in Nat \ {0} /\ i \in 0..(connected - 1) /\ i' = (i + 1) % connected
  BY ConnectedNat DEF TypeOK, GiveSlave
<1>2. i' = (IF i + 1 = connected THEN 0 ELSE i + 1)
  BY <1>1, NextLine
<1> QED
  BY <1>1, <1>2 DEF GiveSlave, Line

LEMMA TypeNext == TypeOK /\ [Next]_vars => TypeOK'
<1> SUFFICES ASSUME TypeOK, [Next]_vars PROVE TypeOK'
  OBVIOUS
<1> USE DEF TypeOK, masterVars, parentVars
<1>1. CASE UNCHANGED vars
  BY <1>1 DEF vars
<1>2. CASE MasterAccept
  <2>1. Head(backlog) \in Client /\ Tail(backlog) \in Seq(Client)
    BY <1>2 DEF MasterAccept
  <2> QED
    BY <1>2, <2>1 DEF MasterAccept
<1>3. CASE Refuse
  BY <1>3 DEF Refuse, Answer
<1>4. CASE GiveSlave
  <2>1. handed' \in [Line -> Nat]
    <3>1. PICK k \in Line : handed' = [handed EXCEPT ![k] = handed[k] + 1]
      BY <1>4, Given
    <3> QED
      BY <3>1
  <2>2. i' \in 0..(IF connected = 0 THEN 0 ELSE connected - 1)
    BY <1>4, Given DEF Line
  <2>3. told' \in [Client -> Line \cup {REFUSED, NONE}]
    BY <1>4, Given DEF GiveSlave, Answer
  <2>4. pc' = "accept" /\ conn' = NONE
    BY <1>4 DEF GiveSlave, Answer
  <2>5. UNCHANGED <<backlog, st, sent, right, cut, queue, serves, parentVars>>
    BY <1>4 DEF GiveSlave, Answer
  <2> QED
    BY <2>1, <2>2, <2>3, <2>4, <2>5
<1>5. CASE MasterEnds
  BY <1>5 DEF MasterEnds
<1>6. ASSUME NEW c \in Client, Connect(c) PROVE TypeOK'
  <2>1. Append(backlog, c) \in Seq(Client)
    OBVIOUS
  <2>2. backlog' \in Seq(Client)
    BY <1>6, <2>1 DEF Connect
  <2>3. st' \in [Client -> {"away", "connected", "asked", "waiting", "session", "gone"}]
    BY <1>6 DEF Connect
  <2> QED
    BY <1>6, <2>2, <2>3 DEF Connect
<1>7. ASSUME NEW c \in Client, NEW correct \in BOOLEAN, AskCred(c, correct) PROVE TypeOK'
  <2>1. st' \in [Client -> {"away", "connected", "asked", "waiting", "session", "gone"}]
    BY <1>7 DEF AskCred
  <2>2. sent' \subseteq Client /\ right' \subseteq sent'
    BY <1>7 DEF AskCred
  <2>3. UNCHANGED <<masterVars, cut, queue, serves, parentVars>>
    BY <1>7 DEF AskCred
  <2> QED
    BY <2>1, <2>2, <2>3
<1>8. ASSUME NEW c \in Client, GetCred(c) PROVE TypeOK'
  <2>1. CASE UNCHANGED queue
    BY <1>8, <2>1 DEF GetCred
  <2>2. CASE queue' = [queue EXCEPT ![slave_ip(told[c])] = Append(queue[slave_ip(told[c])], c)]
    <3>1. PICK s : s = slave_ip(told[c])
      OBVIOUS
    <3>2. queue' \in [Slave -> Seq(Client)]
      <4>1. CASE s \in Slave
        <5>1. Append(queue[s], c) \in Seq(Client)
          BY <4>1
        <5> QED
          BY <2>2, <3>1, <5>1
      <4>2. CASE s \notin Slave
        BY <2>2, <3>1, <4>2
      <4> QED
        BY <4>1, <4>2
    <3> QED
      BY <1>8, <3>2 DEF GetCred
  <2> QED
    BY <1>8, <2>1, <2>2 DEF GetCred
<1>9. ASSUME NEW c \in Client, CredLost(c) PROVE TypeOK'
  BY <1>9 DEF CredLost
<1>10. ASSUME NEW c \in Client, Leave(c) PROVE TypeOK'
  BY <1>10 DEF Leave
<1>11. ASSUME NEW s \in Slave, HandlerChld(s) PROVE TypeOK'
  BY <1>11 DEF HandlerChld
<1>12. ASSUME NEW s \in Slave, Wait(s) PROVE TypeOK'
  BY <1>12 DEF Wait
<1>13. ASSUME NEW s \in Slave, NEW w \in Worker, Accept(s, w) PROVE TypeOK'
  <2>1. PICK c \in Client : c = Head(queue[s])
    BY <1>13 DEF Accept
  <2>2. Tail(queue[s]) \in Seq(Client)
    BY <1>13 DEF Accept
  <2> QED
    BY <1>13, <2>1, <2>2 DEF Accept
<1>14. ASSUME NEW s \in Slave, NEW w \in Worker, EndSession(s, w) PROVE TypeOK'
  BY <1>14 DEF EndSession
<1>15. ASSUME NEW s \in Slave, NEW w \in Worker, Die(s, w) PROVE TypeOK'
  BY <1>15 DEF Die
<1>16. ASSUME NEW s \in Slave, NEW w \in Worker, StopOrContinue(s, w) PROVE TypeOK'
  BY <1>16 DEF StopOrContinue
<1> QED
  BY <1>1, <1>2, <1>3, <1>4, <1>5, <1>6, <1>7, <1>8, <1>9, <1>10, <1>11, <1>12, <1>13,
     <1>14, <1>15, <1>16 DEF Next, Master, ClientGoesOn

\* The turn stays within the lines that were read, and the queues hold clients.
THEOREM TypeCorrect == Spec => []TypeOK
BY TypeInit, TypeNext, PTL DEF Spec

-----------------------------------------------------------------------------
\* After each round the lines before i, but for line 0, are one ahead.
Round == \E q \in Nat : \A k \in Line : handed[k] = IF 1 <= k /\ k <= i THEN q + 1 ELSE q

LEMMA RoundInit == Init => Round
<1> SUFFICES ASSUME Init PROVE \A k \in Line : handed[k] = IF 1 <= k /\ k <= i THEN 1 ELSE 0
  BY DEF Round
<1> QED
  BY ConnectedNat DEF Init, Line

LEMMA RoundNext == TypeOK /\ Round /\ [Next]_vars => Round'
<1> SUFFICES ASSUME TypeOK, Round, [Next]_vars PROVE Round'
  OBVIOUS
<1>1. CASE GiveSlave
  <2>1. PICK q \in Nat : \A k \in Line : handed[k] = IF 1 <= k /\ k <= i THEN q + 1 ELSE q
    BY DEF Round
  <2>2. /\ connected \in Nat \ {0} /\ i \in Line /\ i' \in Line
        /\ i' = (IF i + 1 = connected THEN 0 ELSE i + 1)
        /\ handed' = [handed EXCEPT ![i'] = handed[i'] + 1]
        /\ handed \in [Line -> Nat]
    BY <1>1, Given DEF TypeOK
  <2>3. \A k \in Line : handed'[k] = IF k = i' THEN handed[k] + 1 ELSE handed[k]
    BY <2>2
  <2>4. CASE i + 1 = connected
    <3>1. \A k \in Line : k <= i /\ 0 <= k /\ k \in Int
      BY <2>2, <2>4 DEF Line
    <3>2. \A k \in Line : handed'[k] = IF 1 <= k /\ k <= i' THEN q + 2 ELSE q + 1
      BY <2>1, <2>2, <2>3, <2>4, <3>1
    <3> QED
      BY <3>2 DEF Round
  <2>5. CASE i + 1 # connected
    <3>1. \A k \in Line : 0 <= k /\ k \in Int
      BY DEF Line
    <3>2. \A k \in Line : handed'[k] = IF 1 <= k /\ k <= i' THEN q + 1 ELSE q
      BY <2>1, <2>2, <2>3, <2>5, <3>1
    <3> QED
      BY <3>2 DEF Round
  <2> QED
    BY <2>4, <2>5
<1>2. CASE UNCHANGED <<i, handed>>
  BY <1>2 DEF Round
<1>3. GiveSlave \/ UNCHANGED <<i, handed>>
  BY DEF Next, Master, ClientGoesOn, vars, masterVars, MasterAccept, Refuse, MasterEnds,
         Connect, AskCred, GetCred, CredLost, Leave, HandlerChld, Wait, Accept, EndSession, Die,
         StopOrContinue
<1> QED
  BY <1>1, <1>2, <1>3

\* The master shares its clients out evenly over the lines it has read, however
\* many there are (the turn of master_dns.c).
THEOREM SharesEvenly == Spec => []Balanced
<1>1. TypeOK /\ Round => Balanced
  <2> SUFFICES ASSUME TypeOK, Round, NEW k \in Line, NEW m \in Line
               PROVE  handed[k] <= handed[m] + 1
    BY DEF Balanced
  <2>1. PICK q \in Nat : \A x \in Line : handed[x] = IF 1 <= x /\ x <= i THEN q + 1 ELSE q
    BY DEF Round
  <2> QED
    BY <2>1
<1>2. Spec => [](TypeOK /\ Round)
  BY TypeInit, TypeNext, RoundInit, RoundNext, PTL DEF Spec
<1> QED
  BY <1>1, <1>2, PTL

-----------------------------------------------------------------------------
\* For each signal that is pending and each handler that runs there is a zombie,
\* where no worker has been stopped.
Signalled ==
  \A s \in Slave \ stopped :
    /\ s \in pending \/ s \in waiting => zombies[s] >= 1
    /\ s \in pending /\ s \in waiting => zombies[s] >= 2

LEMMA SignalledNext == TypeOK /\ Signalled /\ [Next]_vars => Signalled'
<1> SUFFICES ASSUME TypeOK, Signalled, [Next]_vars PROVE Signalled'
  OBVIOUS
<1> USE DEF TypeOK
<1>1. CASE UNCHANGED parentVars
  BY <1>1 DEF Signalled, parentVars
<1>2. ASSUME NEW s \in Slave, HandlerChld(s) PROVE Signalled'
  BY <1>2 DEF HandlerChld, Signalled
<1>3. ASSUME NEW s \in Slave, Wait(s) PROVE Signalled'
  <2>1. CASE zombies[s] = 0
    BY <1>3, <2>1 DEF Wait, Signalled
  <2>2. CASE zombies[s] > 0
    <3>1. /\ zombies'[s] = zombies[s] - 1
          /\ \A x \in Slave : x # s => zombies'[x] = zombies[x]
      BY <1>3, <2>2 DEF Wait
    <3> QED
      BY <1>3, <3>1 DEF Wait, Signalled
  <2> QED
    BY <2>1, <2>2
<1>4. ASSUME NEW s \in Slave, NEW w \in Worker, Die(s, w) PROVE Signalled'
  <2>1. /\ zombies'[s] = zombies[s] + 1
        /\ \A x \in Slave : x # s => zombies'[x] = zombies[x]
        /\ pending' = pending \cup {s} /\ waiting' = waiting /\ stopped' = stopped
    BY <1>4 DEF Die
  <2> QED
    BY <2>1 DEF Signalled
<1>5. ASSUME NEW s \in Slave, NEW w \in Worker, StopOrContinue(s, w) PROVE Signalled'
  <2>1. zombies' = zombies /\ waiting' = waiting /\ stopped' = stopped \cup {s} /\ pending' = pending \cup {s}
    BY <1>5 DEF StopOrContinue
  <2> QED
    BY <2>1 DEF Signalled
<1>6. \/ UNCHANGED parentVars
      \/ \E s \in Slave : HandlerChld(s) \/ Wait(s)
      \/ \E s \in Slave, w \in Worker : Die(s, w) \/ StopOrContinue(s, w)
  BY DEF Next, Master, ClientGoesOn, vars, MasterAccept, Refuse, GiveSlave, Answer, MasterEnds,
         Connect, AskCred, GetCred, CredLost, Leave, Accept, EndSession
<1> QED
  BY <1>1, <1>2, <1>3, <1>4, <1>5, <1>6

\* The parent of the workers does not block in its handler, however their deaths and
\* the signals interleave (handler_chld), as long as none of them has ever been
\* stopped or continued, which signals the parent as well (Signal of csapp.c).
THEOREM HandlerFindsAZombie == Spec => []WaitFindsAZombie
<1>1. Init => Signalled
  BY DEF Init, Signalled
<1>2. TypeOK /\ Signalled => WaitFindsAZombie
  <2> SUFFICES ASSUME TypeOK, Signalled, NEW s \in waiting \ stopped PROVE zombies[s] > 0
    BY DEF WaitFindsAZombie
  <2>1. s \in Slave \ stopped /\ zombies[s] \in Nat
    BY DEF TypeOK
  <2>2. zombies[s] >= 1
    BY <2>1 DEF Signalled
  <2> QED
    BY <2>1, <2>2
<1> QED
  BY <1>1, <1>2, TypeInit, TypeNext, SignalledNext, PTL DEF Spec

-----------------------------------------------------------------------------
\* A client that has gone without a request has cut the master off, and those that
\* are further on have sent theirs.
Asked(c) == c \in sent
CutInv ==
  /\ pc = "ended" => cut
  /\ pc = "read" => conn \in Client
  /\ \A c \in Client :
       /\ st[c] = "gone" => Asked(c) \/ cut
       /\ st[c] \in {"asked", "waiting", "session"} => Asked(c)
  /\ \A s \in Slave : \A k \in 1..Len(queue[s]) : Asked(queue[s][k])
  /\ \A s \in Slave, w \in Worker : serves[s][w] \in Client => Asked(serves[s][w])

LEMMA CutNext == TypeOK /\ CutInv /\ [Next]_vars => CutInv'
<1> SUFFICES ASSUME TypeOK, CutInv, [Next]_vars PROVE CutInv'
  OBVIOUS
<1> USE DEF Asked
<1>0. \A s \in Slave : queue[s] \in Seq(Client)
  BY DEF TypeOK
<1>1. CASE UNCHANGED vars
  BY <1>1 DEF vars, masterVars, CutInv
<1>2. CASE MasterAccept
  <2>1. conn' \in Client
    BY <1>2 DEF MasterAccept, TypeOK
  <2> QED
    BY <1>2, <2>1 DEF MasterAccept, CutInv
<1>3. CASE Refuse
  BY <1>3 DEF Refuse, Answer, CutInv
<1>4. CASE GiveSlave
  BY <1>4 DEF GiveSlave, Answer, CutInv
<1>5. CASE MasterEnds
  BY <1>5 DEF MasterEnds, CutInv
<1>6. ASSUME NEW c \in Client, Connect(c) PROVE CutInv'
  BY <1>6 DEF Connect, CutInv, TypeOK
<1>7. ASSUME NEW c \in Client, NEW correct \in BOOLEAN, AskCred(c, correct) PROVE CutInv'
  BY <1>7 DEF AskCred, CutInv, TypeOK, masterVars
<1>8. ASSUME NEW c \in Client, GetCred(c) PROVE CutInv'
  <2>1. CASE UNCHANGED queue
    BY <1>8, <2>1 DEF GetCred, CutInv, TypeOK, masterVars
  <2>2. CASE queue' = [queue EXCEPT ![slave_ip(told[c])] = Append(queue[slave_ip(told[c])], c)]
    <3>1. PICK s : s = slave_ip(told[c])
      OBVIOUS
    <3>2. \A x \in Slave : \A k \in 1..Len(queue'[x]) : Asked(queue'[x][k])
      <4> TAKE x \in Slave
      <4>1. CASE x = s
        <5>1. queue'[x] = Append(queue[x], c) /\ queue[x] \in Seq(Client)
          BY <1>0, <2>2, <3>1, <4>1 DEF TypeOK
        <5>2. Asked(c) /\ \A k \in 1..Len(queue[x]) : Asked(queue[x][k])
          BY <1>8 DEF GetCred, CutInv
        <5> QED
          BY <5>1, <5>2
      <4>2. CASE x # s
        BY <2>2, <3>1, <4>2 DEF CutInv, TypeOK
      <4> QED
        BY <4>1, <4>2
    <3> QED
      BY <1>8, <3>2 DEF GetCred, CutInv, TypeOK, masterVars
  <2> QED
    BY <1>8, <2>1, <2>2 DEF GetCred
<1>9. ASSUME NEW c \in Client, CredLost(c) PROVE CutInv'
  BY <1>9 DEF CredLost, CutInv, TypeOK, masterVars
<1>10. ASSUME NEW c \in Client, Leave(c) PROVE CutInv'
  BY <1>10 DEF Leave, CutInv, TypeOK, masterVars
<1>11. ASSUME NEW s \in Slave, HandlerChld(s) PROVE CutInv'
  BY <1>11 DEF HandlerChld, CutInv, masterVars
<1>12. ASSUME NEW s \in Slave, Wait(s) PROVE CutInv'
  BY <1>12 DEF Wait, CutInv, masterVars
<1>13. ASSUME NEW s \in Slave, NEW w \in Worker, Accept(s, w) PROVE CutInv'
  <2>1. PICK c \in Client : c = Head(queue[s]) /\ Asked(c)
    BY <1>0, <1>13 DEF Accept, CutInv
  <2>2. \A x \in Slave : \A k \in 1..Len(queue'[x]) : Asked(queue'[x][k])
    <3> TAKE x \in Slave
    <3>1. CASE x = s
      <4>1. queue'[x] = Tail(queue[x]) /\ queue[x] \in Seq(Client) /\ queue[x] # <<>>
        BY <1>0, <1>13, <3>1 DEF Accept, TypeOK
      <4>2. \A k \in 1..Len(queue[x]) : Asked(queue[x][k])
        BY DEF CutInv
      <4>3. \A k \in 1..Len(Tail(queue[x])) : k + 1 \in 1..Len(queue[x])
                                              /\ Tail(queue[x])[k] = queue[x][k + 1]
        BY <4>1
      <4> QED
        BY <1>13, <4>1, <4>2, <4>3 DEF Accept
    <3>2. CASE x # s
      BY <1>13, <3>2 DEF Accept, CutInv, TypeOK
    <3> QED
      BY <3>1, <3>2
  <2>3. \A x \in Slave, y \in Worker : serves'[x][y] \in Client => Asked(serves'[x][y])
    BY <1>13, <2>1 DEF Accept, CutInv, TypeOK
  <2>4. \A x \in Client : /\ st'[x] = "gone" => Asked(x) \/ cut
                          /\ st'[x] \in {"asked", "waiting", "session"} => Asked(x)
    BY <1>13, <2>1 DEF Accept, CutInv, TypeOK
  <2> QED
    BY <1>13, <2>2, <2>3, <2>4 DEF Accept, CutInv, masterVars
<1>14. ASSUME NEW s \in Slave, NEW w \in Worker, EndSession(s, w) PROVE CutInv'
  BY <1>14, ClusterAssumption DEF EndSession, CutInv, TypeOK, masterVars
<1>15. ASSUME NEW s \in Slave, NEW w \in Worker, Die(s, w) PROVE CutInv'
  BY <1>15, ClusterAssumption DEF Die, CutInv, TypeOK, masterVars
<1>16. ASSUME NEW s \in Slave, NEW w \in Worker, StopOrContinue(s, w) PROVE CutInv'
  BY <1>16 DEF StopOrContinue, CutInv, masterVars
<1> QED
  BY <1>1, <1>2, <1>3, <1>4, <1>5, <1>6, <1>7, <1>8, <1>9, <1>10, <1>11, <1>12, <1>13,
     <1>14, <1>15, <1>16 DEF Next, Master, ClientGoesOn

\* Nothing but a client that goes before its request ends the master (main of
\* master_dns.c).
THEOREM OnlyACutEnds == Spec => []EndedByACut
<1>1. Init => CutInv
  BY ClusterAssumption DEF Init, CutInv
<1>2. CutInv => EndedByACut
  BY DEF CutInv, EndedByACut
<1> QED
  BY <1>1, <1>2, TypeInit, TypeNext, CutNext, PTL DEF Spec
===============================================================================

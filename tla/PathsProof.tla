------------------------------ MODULE PathsProof ------------------------------
(***************************************************************************)
(* What a path leads to (Paths), for any requests, any tree and any number *)
(* of workers.  The two functions that resolve a path are loops over its   *)
(* components, here recursive functions: what is proved of them is proved  *)
(* by induction on the components read.                                    *)
(***************************************************************************)
EXTENDS Paths, SequenceTheorems, WellFoundedInduction, TLAPS

-----------------------------------------------------------------------------
(* Induction, and what it says of the two loops. *)

LEMMA SetInduction ==
  ASSUME NEW S \in SUBSET Nat, 0 \in S, \A n \in Nat : n \in S => n + 1 \in S
  PROVE  \A n \in Nat : n \in S
<1>1. SUFFICES ASSUME Nat \ S # {} PROVE FALSE
  OBVIOUS
<1>2. PICK n \in Nat \ S : \A m \in Nat \ S : ~ (<<m, n>> \in OpToRel(<, Nat))
  BY <1>1, WFMin, NatLessThanWellFounded, Zenon
<1>3. n # 0
  OBVIOUS
<1>4. n - 1 \in Nat /\ (n - 1) + 1 = n
  BY <1>3
<1>5. n - 1 \notin S
  BY <1>4
<1>6. n - 1 < n
  BY <1>4
<1>7. <<n - 1, n>> \in OpToRel(<, Nat)
  BY <1>4, <1>6, Zenon DEF OpToRel
<1> QED
  BY <1>2, <1>4, <1>5, <1>7

\* Up to a bound, as the loops go.
LEMMA UpTo ==
  ASSUME NEW m \in Nat, NEW S, 0 \in S, \A n \in 0..(m - 1) : n \in S => n + 1 \in S
  PROVE  \A n \in 0..m : n \in S
<1> DEFINE T == {n \in Nat : n <= m => n \in S}
<1>1. 0 \in T
  OBVIOUS
<1>2. \A n \in Nat : n \in T => n + 1 \in T
  OBVIOUS
<1>3. \A n \in Nat : n \in T
  <2> HIDE DEF T
  <2> T \in SUBSET Nat
    BY DEF T
  <2> QED
    BY <1>1, <1>2, SetInduction
<1> QED
  BY <1>3

LEMMA DownFrom ==
  ASSUME NEW m \in Nat, NEW S, m \in S, \A n \in 1..m : n \in S => n - 1 \in S
  PROVE  \A n \in 0..m : n \in S
<1> DEFINE T == {n \in 0..m : m - n \in S}
<1>1. 0 \in T
  OBVIOUS
<1>2. ASSUME NEW n \in 0..(m - 1), n \in T PROVE n + 1 \in T
  <2>1. m - n \in 1..m /\ (m - n) - 1 = m - (n + 1) /\ n + 1 \in 0..m
    OBVIOUS
  <2>2. m - (n + 1) \in S
    BY <1>2, <2>1
  <2> QED
    BY <2>1, <2>2
<1>3. \A n \in 0..m : n \in T
  <2> HIDE DEF T
  <2> QED
    BY <1>1, <1>2, UpTo
<1>4. ASSUME NEW n \in 0..m PROVE n \in S
  <2>1. m - n \in 0..m /\ m - (m - n) = n
    OBVIOUS
  <2> QED
    BY <1>3, <2>1
<1> QED
  BY <1>4

-----------------------------------------------------------------------------
(* Where the path of a request begins. *)

LEMMA SuffixType ==
  ASSUME NEW p \in Request
  PROVE  Suffix(p) \in Seq(Component) /\ Suffix(p) # <<>>
<1>1. p \in Seq(Component) /\ Len(p) \in Nat
  BY PathsAssumption
<1>2. CASE \A k \in 1..Len(p) : p[k] = Empty
  BY <1>2, PathsAssumption DEF Suffix
<1>3. CASE ~ \A k \in 1..Len(p) : p[k] = Empty
  <2> DEFINE AllEmpty(k) == \A j \in 1..k : p[j] = Empty
  <2>1. \E k \in 1..Len(p) : p[k] # Empty /\ \A j \in 1..(k - 1) : p[j] = Empty
    <3> SUFFICES ASSUME \A k \in 1..Len(p) : p[k] # Empty => ~ AllEmpty(k - 1) PROVE FALSE
      OBVIOUS
    <3> DEFINE S == {k \in Nat : AllEmpty(k)}
    <3>1. 0 \in S
      OBVIOUS
    <3>2. ASSUME NEW n \in 0..(Len(p) - 1), n \in S PROVE n + 1 \in S
      <4>1. n + 1 \in 1..Len(p) /\ (n + 1) - 1 = n /\ n \in Nat
        BY <1>1
      <4>2. p[n + 1] = Empty
        BY <3>2, <4>1
      <4> QED
        BY <3>2, <4>1, <4>2
    <3>3. \A n \in 0..Len(p) : n \in S
      <4> HIDE DEF S
      <4> QED
        BY <1>1, <3>1, <3>2, UpTo
    <3>4. AllEmpty(Len(p))
      BY <1>1, <3>3
    <3> QED
      BY <1>3, <3>4
  <2> DEFINE k == CHOOSE k \in 1..Len(p) : p[k] # Empty /\ \A j \in 1..(k - 1) : p[j] = Empty
  <2>2. k \in 1..Len(p)
    BY <2>1
  <2>3. Suffix(p) = SubSeq(p, k, Len(p))
    BY <1>3 DEF Suffix
  <2> HIDE DEF k
  <2>4. SubSeq(p, k, Len(p)) \in Seq(Component) /\ Len(SubSeq(p, k, Len(p))) = Len(p) - k + 1
    BY <1>1, <2>2, SubSeqProperties
  <2>5. SubSeq(p, k, Len(p)) # <<>>
    <3>1. Len(p) - k + 1 # 0
      BY <1>1, <2>2
    <3> HIDE DEF k
    <3> QED
      BY <2>4, <3>1
  <2> QED
    BY <2>3, <2>4, <2>5
<1> QED
  BY <1>2, <1>3

-----------------------------------------------------------------------------
(* The loop of a put: what it makes of a path without dots. *)

\* The function that Joined defines by recursion exists.
LEMMA JoinedDef ==
  ASSUME NEW s \in Seq(Component)
  PROVE  Joined(s) = [k \in 0..Len(s) |->
           IF k = 0 THEN Root
           ELSE IF s[k] = Empty THEN Joined(s)[k - 1] ELSE Append(Joined(s)[k - 1], s[k])]
<1> DEFINE Def(f, n) == f = [k \in 0..n |->
             IF k = 0 THEN Root
             ELSE IF s[k] = Empty THEN f[k - 1] ELSE Append(f[k - 1], s[k])]
           S == {n \in Nat : \E f : Def(f, n)}
<1>1. 0 \in S
  <2> DEFINE f == [k \in 0..0 |-> Root]
  <2>1. Def(f, 0)
    OBVIOUS
  <2> QED
    BY <2>1
<1>2. ASSUME NEW n \in 0..(Len(s) - 1), n \in S PROVE n + 1 \in S
  <2>1. PICK f : Def(f, n)
    BY <1>2
  <2> DEFINE next == IF s[n + 1] = Empty THEN f[n] ELSE Append(f[n], s[n + 1])
             g == [k \in 0..(n + 1) |-> IF k = n + 1 THEN next ELSE f[k]]
  <2>2. ASSUME NEW k \in 0..(n + 1)
        PROVE  g[k] = IF k = 0 THEN Root
                      ELSE IF s[k] = Empty THEN g[k - 1] ELSE Append(g[k - 1], s[k])
    <3>1. CASE k = n + 1
      <4>1. g[k] = next /\ g[k - 1] = f[n] /\ k # 0
        BY <3>1
      <4> QED
        BY <3>1, <4>1
    <3>2. CASE k \in 1..n
      <4>1. g[k] = f[k] /\ g[k - 1] = f[k - 1] /\ k # 0 /\ k \in 0..n
        BY <3>2
      <4>2. f[k] = IF s[k] = Empty THEN f[k - 1] ELSE Append(f[k - 1], s[k])
        BY <2>1, <4>1
      <4> HIDE DEF g, next
      <4> QED
        BY <4>1, <4>2
    <3>3. CASE k = 0
      BY <2>1, <3>3
    <3> QED
      BY <3>1, <3>2, <3>3
  <2>3. Def(g, n + 1)
    BY <2>2
  <2> HIDE DEF Def, g
  <2>4. \E h : Def(h, n + 1)
    BY <2>3
  <2> QED
    BY <2>4
<1>3. \A n \in 0..Len(s) : n \in S
  <2> HIDE DEF S
  <2> QED
    BY <1>1, <1>2, UpTo
<1>4. \E f : Def(f, Len(s))
  <2>1. Len(s) \in 0..Len(s)
    OBVIOUS
  <2> HIDE DEF Def
  <2> QED
    BY <1>3, <2>1
<1>5. Joined(s) = CHOOSE f : Def(f, Len(s))
  BY DEF Joined
<1> HIDE DEF Def
<1>6. Def(Joined(s), Len(s))
  BY <1>4, <1>5
<1> QED
  BY <1>6 DEF Def

\* A path under the root, without dots there.
Under(q) ==
  /\ q \in Seq(Component) /\ Len(Root) <= Len(q)
  /\ \A i \in 1..Len(Root) : q[i] = Root[i]
  /\ \A i \in (Len(Root) + 1)..Len(q) : q[i] \notin {".", ".."}

LEMMA UnderIsPrefix ==
  ASSUME NEW q, Under(q)
  PROVE  IsPrefix(Root, q)
<1>1. Root \in Seq(Component) /\ Len(Root) \in Nat /\ Len(q) \in Nat
  BY PathsAssumption DEF Under
<1>2. /\ SubSeq(Root, 1, Len(Root)) \in Seq(Component)
      /\ Len(SubSeq(Root, 1, Len(Root))) = Len(Root)
      /\ \A i \in 1..Len(Root) : SubSeq(Root, 1, Len(Root))[i] = Root[i]
  BY <1>1
<1>3. /\ SubSeq(q, 1, Len(Root)) \in Seq(Component)
      /\ Len(SubSeq(q, 1, Len(Root))) = Len(Root)
      /\ \A i \in 1..Len(Root) : SubSeq(q, 1, Len(Root))[i] = q[i]
  BY <1>1 DEF Under
<1>4. SubSeq(Root, 1, Len(Root)) = SubSeq(q, 1, Len(Root))
  BY <1>1, <1>2, <1>3, SeqEqual DEF Under
<1> QED
  BY <1>4 DEF Under, IsPrefix

LEMMA UnderAppend ==
  ASSUME NEW q, Under(q), NEW name \in Component, name \notin {".", ".."}
  PROVE  Under(Append(q, name)) /\ Parent(Append(q, name)) = q
<1>1. q \in Seq(Component) /\ Len(q) \in Nat /\ Root \in Seq(Component) /\ Len(Root) \in Nat
  BY PathsAssumption DEF Under
<1>2. /\ Append(q, name) \in Seq(Component) /\ Len(Append(q, name)) = Len(q) + 1
      /\ \A i \in 1..Len(q) : Append(q, name)[i] = q[i]
      /\ Append(q, name)[Len(q) + 1] = name
  BY <1>1
<1>3. SubSeq(Append(q, name), 1, Len(q)) = q
  BY <1>1, <1>2
<1> QED
  BY <1>1, <1>2, <1>3 DEF Under, Parent, Front

LEMMA JoinedUnder ==
  ASSUME NEW s \in Seq(Component), \A k \in 1..Len(s) : s[k] \notin {".", ".."}
  PROVE  \A k \in 0..Len(s) : Under(Joined(s)[k])
<1> DEFINE S == {k \in Nat : Under(Joined(s)[k])}
<1>1. 0 \in S
  BY JoinedDef, PathsAssumption DEF Under
<1>2. ASSUME NEW k \in 0..(Len(s) - 1), k \in S PROVE k + 1 \in S
  <2>1. k + 1 \in 1..Len(s) /\ (k + 1) - 1 = k /\ s[k + 1] \in Component /\ s[k + 1] \notin {".", ".."}
    OBVIOUS
  <2>2. Joined(s)[k + 1] \in {Joined(s)[k], Append(Joined(s)[k], s[k + 1])}
    BY <2>1, JoinedDef
  <2>3. Under(Joined(s)[k])
    BY <1>2
  <2>4. Under(Joined(s)[k + 1])
    BY <2>1, <2>2, <2>3, UnderAppend
  <2> QED
    BY <2>4
<1>3. Len(s) \in Nat /\ \A k \in 0..(Len(s) - 1) : k \in S => k + 1 \in S
  BY <1>2
<1>4. \A k \in 0..Len(s) : k \in S
  <2> HIDE DEF S
  <2> QED
    BY <1>1, <1>3, UpTo
<1> QED
  BY <1>4

\* What a put is about: a name that is not empty, in the directory that the path
\* leads to without it.
LEMMA NewFacts ==
  ASSUME NEW p \in Request, New(p) # NONE
  PROVE  LET s == Suffix(p)
             m == Len(s)
         IN /\ s \in Seq(Component) /\ m \in Nat \ {0}
            /\ s[m] # Empty
            /\ \A k \in 1..m : s[k] \notin {".", ".."}
            /\ New(p) = Joined(s)[m]
            /\ New(p) = Append(Joined(s)[m - 1], s[m])
            /\ Parent(New(p)) = Joined(s)[m - 1]
            /\ Under(New(p)) /\ Under(Joined(s)[m - 1])
            /\ Len(Root) <= Len(New(p)) - 1
<1> DEFINE s == Suffix(p)
           m == Len(s)
<1>1. s \in Seq(Component) /\ m \in Nat \ {0}
  BY SuffixType
<1>2. s[m] # Empty /\ (\A k \in 1..m : s[k] \notin {".", ".."}) /\ New(p) = Joined(s)[m]
  BY <1>1 DEF New, Last
<1> HIDE DEF s
<1>3. m \in 0..m /\ m # 0 /\ m - 1 \in 0..m /\ s[m] \in Component /\ s[m] \notin {".", ".."}
  BY <1>1, <1>2
<1>4. New(p) = Append(Joined(s)[m - 1], s[m])
  BY <1>1, <1>2, <1>3, JoinedDef
<1>5. Under(New(p)) /\ Under(Joined(s)[m - 1])
  BY <1>1, <1>2, <1>3, JoinedUnder
<1>6. Parent(New(p)) = Joined(s)[m - 1]
  BY <1>3, <1>4, <1>5, UnderAppend
<1>7. Len(Root) <= Len(New(p)) - 1
  BY <1>4, <1>5, PathsAssumption DEF Under
<1> QED
  BY <1>1, <1>2, <1>4, <1>5, <1>6, <1>7 DEF s

-----------------------------------------------------------------------------
(* The way of the kernel. *)

\* The function that Walked defines by recursion exists.
LEMMA WalkedDef ==
  ASSUME NEW s \in Seq(Component)
  PROVE  Walked(s) = [k \in 0..Len(s) |->
           IF k = 0 THEN Root ELSE Walk(Walked(s)[k - 1], s[k])]
<1> DEFINE Def(f, n) == f = [k \in 0..n |->
             IF k = 0 THEN Root ELSE Walk(f[k - 1], s[k])]
           S == {n \in Nat : \E f : Def(f, n)}
<1>1. 0 \in S
  <2> DEFINE f == [k \in 0..0 |-> Root]
  <2>1. Def(f, 0)
    OBVIOUS
  <2> QED
    BY <2>1
<1>2. ASSUME NEW n \in 0..(Len(s) - 1), n \in S PROVE n + 1 \in S
  <2>1. PICK f : Def(f, n)
    BY <1>2
  <2> DEFINE next == Walk(f[n], s[n + 1])
             g == [k \in 0..(n + 1) |-> IF k = n + 1 THEN next ELSE f[k]]
  <2>2. ASSUME NEW k \in 0..(n + 1)
        PROVE  g[k] = IF k = 0 THEN Root ELSE Walk(g[k - 1], s[k])
    <3>1. CASE k = n + 1
      <4>1. g[k] = next /\ g[k - 1] = f[n] /\ k # 0
        BY <3>1
      <4> QED
        BY <3>1, <4>1
    <3>2. CASE k \in 1..n
      <4>1. g[k] = f[k] /\ g[k - 1] = f[k - 1] /\ k # 0 /\ k \in 0..n
        BY <3>2
      <4>2. f[k] = Walk(f[k - 1], s[k])
        BY <2>1, <4>1
      <4> HIDE DEF g, next
      <4> QED
        BY <4>1, <4>2
    <3>3. CASE k = 0
      BY <2>1, <3>3
    <3> QED
      BY <3>1, <3>2, <3>3
  <2>3. Def(g, n + 1)
    BY <2>2
  <2> HIDE DEF Def, g
  <2>4. \E h : Def(h, n + 1)
    BY <2>3
  <2> QED
    BY <2>4
<1>3. \A n \in 0..Len(s) : n \in S
  <2> HIDE DEF S
  <2> QED
    BY <1>1, <1>2, UpTo
<1>4. \E f : Def(f, Len(s))
  <2>1. Len(s) \in 0..Len(s)
    OBVIOUS
  <2> HIDE DEF Def
  <2> QED
    BY <1>3, <2>1
<1>5. Walked(s) = CHOOSE f : Def(f, Len(s))
  BY DEF Walked
<1> HIDE DEF Def
<1>6. Def(Walked(s), Len(s))
  BY <1>4, <1>5
<1> QED
  BY <1>6 DEF Def

\* The tree: every directory and every file is in a directory.
Tree ==
  /\ \A q \in dirs \cup files : Parent(q) \in dirs
  /\ dirs \cap files = {}
  /\ Root \in dirs
  /\ NONE \notin dirs \cup files

LEMMA WalkFacts ==
  ASSUME Tree, NEW q, NEW name, name \notin {".", ".."}
  PROVE  /\ Walk(NONE, name) = NONE
         /\ Walk(q, name) \in {NONE, IF name = Empty THEN q ELSE Append(q, name)}
         /\ q \in dirs /\ name = Empty => Walk(q, name) = q
         /\ q \in dirs /\ name # Empty /\ Append(q, name) \in dirs \cup files
              => Walk(q, name) = Append(q, name)
BY DEF Tree, Walk

\* As far as the kernel gets on a path without dots, it is where the put is.
LEMMA SameWay ==
  ASSUME Tree, NEW s \in Seq(Component), \A k \in 1..Len(s) : s[k] \notin {".", ".."}
  PROVE  \A k \in 0..Len(s) : Walked(s)[k] \in {NONE, Joined(s)[k]}
<1> DEFINE S == {k \in Nat : Walked(s)[k] \in {NONE, Joined(s)[k]}}
<1>1. 0 \in S
  <2>1. Walked(s)[0] = Root /\ Joined(s)[0] = Root
    BY WalkedDef, JoinedDef
  <2> QED
    BY <2>1
<1>2. ASSUME NEW k \in 0..(Len(s) - 1), k \in S PROVE k + 1 \in S
  <2>1. k + 1 \in 0..Len(s) /\ k + 1 # 0 /\ (k + 1) - 1 = k /\ s[k + 1] \notin {".", ".."}
    OBVIOUS
  <2>2. Walked(s)[k + 1] = Walk(Walked(s)[k], s[k + 1])
    BY <2>1, WalkedDef
  <2>3. Joined(s)[k + 1] = IF s[k + 1] = Empty THEN Joined(s)[k] ELSE Append(Joined(s)[k], s[k + 1])
    BY <2>1, JoinedDef
  <2>4. Walked(s)[k] \in {NONE, Joined(s)[k]}
    BY <1>2
  <2>5. Walked(s)[k + 1] \in {NONE, Joined(s)[k + 1]}
    <3>1. CASE Walked(s)[k] = NONE
      <4>1. Walk(NONE, s[k + 1]) = NONE
        BY <2>1, WalkFacts
      <4> QED
        BY <2>2, <3>1, <4>1
    <3>2. CASE Walked(s)[k] = Joined(s)[k]
      <4>1. Walk(Joined(s)[k], s[k + 1])
              \in {NONE, IF s[k + 1] = Empty THEN Joined(s)[k] ELSE Append(Joined(s)[k], s[k + 1])}
        BY <2>1, WalkFacts
      <4> QED
        BY <2>2, <2>3, <3>2, <4>1
    <3> QED
      BY <2>4, <3>1, <3>2
  <2> QED
    BY <2>1, <2>5
<1>3. \A k \in 0..Len(s) : k \in S
  <2>1. Len(s) \in Nat /\ \A k \in 0..(Len(s) - 1) : k \in S => k + 1 \in S
    BY <1>2
  <2> HIDE DEF S
  <2> QED
    BY <1>1, <2>1, UpTo
<1> QED
  BY <1>3

\* And if the directory of the put is there, so is all the way to it.
LEMMA AllTheWay ==
  ASSUME Tree, NEW s \in Seq(Component), s # <<>>, \A k \in 1..Len(s) : s[k] \notin {".", ".."},
         Joined(s)[Len(s) - 1] \in dirs, Joined(s)[Len(s)] \in dirs \cup files
  PROVE  Walked(s)[Len(s)] = Joined(s)[Len(s)]
<1> DEFINE D == {k \in Nat : Joined(s)[k] \in dirs}
           S == {k \in Nat : Walked(s)[k] = Joined(s)[k]}
<1>0. Len(s) \in Nat \ {0} /\ Len(s) - 1 \in Nat
  OBVIOUS
<1>1. ASSUME NEW k \in 1..(Len(s) - 1), k \in D PROVE k - 1 \in D
  <2>1. k \in 0..Len(s) /\ k # 0 /\ s[k] \in Component /\ k - 1 \in 0..Len(s)
    OBVIOUS
  <2>2. Joined(s)[k] = IF s[k] = Empty THEN Joined(s)[k - 1] ELSE Append(Joined(s)[k - 1], s[k])
    BY <2>1, JoinedDef
  <2>3. Under(Joined(s)[k - 1])
    BY <2>1, JoinedUnder
  <2>4. Parent(Append(Joined(s)[k - 1], s[k])) = Joined(s)[k - 1]
    BY <2>1, <2>3, UnderAppend
  <2>5. Joined(s)[k - 1] \in dirs
    BY <1>1, <2>2, <2>4 DEF Tree
  <2> QED
    BY <2>1, <2>5
<1>2. \A k \in 0..(Len(s) - 1) : k \in D
  <2>1. Len(s) - 1 \in D
    BY <1>0
  <2> HIDE DEF D
  <2> QED
    BY <1>0, <1>1, <2>1, DownFrom
<1>3. 0 \in S
  <2>1. Walked(s)[0] = Root /\ Joined(s)[0] = Root
    BY WalkedDef, JoinedDef
  <2> QED
    BY <2>1
<1>4. ASSUME NEW k \in 0..(Len(s) - 1), k \in S PROVE k + 1 \in S
  <2>1. k + 1 \in 0..Len(s) /\ k + 1 # 0 /\ (k + 1) - 1 = k /\ s[k + 1] \notin {".", ".."}
    OBVIOUS
  <2>2. Walked(s)[k + 1] = Walk(Walked(s)[k], s[k + 1])
    BY <2>1, WalkedDef
  <2>3. Joined(s)[k + 1] = IF s[k + 1] = Empty THEN Joined(s)[k] ELSE Append(Joined(s)[k], s[k + 1])
    BY <2>1, JoinedDef
  <2>4. Joined(s)[k] \in dirs
    BY <1>2
  <2>5. Joined(s)[k + 1] \in dirs \cup files
    <3>1. CASE k + 1 = Len(s)
      BY <3>1
    <3>2. CASE k + 1 \in 0..(Len(s) - 1)
      BY <1>2, <3>2
    <3> QED
      BY <2>1, <3>1, <3>2
  <2>6. Walked(s)[k] = Joined(s)[k]
    BY <1>4
  <2>7. Walked(s)[k + 1] = Joined(s)[k + 1]
    <3>1. CASE s[k + 1] = Empty
      <4>1. Walk(Joined(s)[k], s[k + 1]) = Joined(s)[k]
        BY <2>1, <2>4, <3>1, WalkFacts
      <4> QED
        BY <2>2, <2>3, <2>6, <3>1, <4>1
    <3>2. CASE s[k + 1] # Empty
      <4>1. Joined(s)[k + 1] = Append(Joined(s)[k], s[k + 1])
        BY <2>3, <3>2
      <4>2. Walk(Joined(s)[k], s[k + 1]) = Append(Joined(s)[k], s[k + 1])
        BY <2>1, <2>4, <2>5, <3>2, <4>1, WalkFacts
      <4> QED
        BY <2>2, <2>6, <4>1, <4>2
    <3> QED
      BY <3>1, <3>2
  <2> QED
    BY <2>1, <2>7
<1>5. \A k \in 0..Len(s) : k \in S
  <2>1. Len(s) \in Nat /\ \A k \in 0..(Len(s) - 1) : k \in S => k + 1 \in S
    BY <1>4
  <2> HIDE DEF S
  <2> QED
    BY <1>3, <2>1, UpTo
<1> QED
  BY <1>5

LEMMA TheyAgree ==
  ASSUME Tree
  PROVE  OneFilePerPath
<1> SUFFICES ASSUME NEW p \in Request, New(p) # NONE, {New(p), Existing(p)} \cap files # {}
             PROVE  Existing(p) = New(p)
  BY DEF OneFilePerPath
<1> DEFINE s == Suffix(p)
           m == Len(s)
<1>1. /\ s \in Seq(Component) /\ m \in Nat \ {0}
      /\ \A k \in 1..m : s[k] \notin {".", ".."}
      /\ New(p) = Joined(s)[m]
      /\ Parent(New(p)) = Joined(s)[m - 1]
      /\ Under(New(p))
  BY NewFacts
<1>2. Realpath(p) = Walked(s)[m]
  BY DEF Realpath
<1> HIDE DEF s
<1>3. CASE New(p) \in files
  <2>1. Joined(s)[m - 1] \in dirs
    BY <1>1, <1>3 DEF Tree
  <2>2. s # <<>>
    BY <1>1
  <2>3. Realpath(p) = New(p)
    BY <1>1, <1>2, <1>3, <2>1, <2>2, AllTheWay
  <2>4. IsPrefix(Root, New(p))
    BY <1>1, UnderIsPrefix
  <2> QED
    BY <2>3, <2>4 DEF Existing, is_path_in_dirpath
<1>4. CASE Existing(p) \in files
  <2>1. Existing(p) # NONE
    BY <1>4 DEF Tree
  <2>2. Existing(p) = Walked(s)[m] /\ Walked(s)[m] # NONE
    BY <1>2, <2>1 DEF Existing
  <2>3. m \in 0..m
    BY <1>1
  <2>4. Walked(s)[m] \in {NONE, Joined(s)[m]}
    BY <1>1, <2>3, SameWay
  <2> QED
    BY <1>1, <2>2, <2>4
<1> QED
  BY <1>3, <1>4

-----------------------------------------------------------------------------
(* The inductive invariant. *)

\* What a put still counts on, unless something was in its way: the directory that
\* it has come to, and at last the one of its file.
PutInv(w) ==
  /\ Under(job[w].path)
  /\ job[w].made \in Len(Root)..(Len(job[w].path) - 1)
  /\ job[w].at = "mkdir" => w \in met \/ Above(job[w].path, job[w].made) \in dirs
  /\ job[w].at = "open" => w \in met \/ Parent(job[w].path) \in dirs
  /\ job[w].at = "refused" => w \in met \/ job[w].unset

\* And a get that has looked: that there is a file.
GetInv(w) ==
  job[w].at \in {"open", "opened"} => w \in met \/ job[w].path \in files

IsJob(j) == /\ j = [op |-> j.op, path |-> j.path, at |-> j.at, made |-> j.made, unset |-> j.unset]
            /\ j.unset \in BOOLEAN

WorkerInv(w) ==
  job[w] # Idle =>
    /\ IsJob(job[w])
    /\ job[w].op \in {"get", "rm", "put"}
    /\ job[w].at \in {"stat", "mkdir", "unlink", "open", "opened", "refused"}
    /\ job[w].made \in Nat
    /\ IsPrefix(Root, job[w].path)
    /\ job[w].op = "put" => PutInv(w)
    /\ job[w].op = "get" => GetInv(w)

\* Nothing but what is under the root has come or gone.
Kept ==
  /\ Dirs \subseteq dirs
  /\ \A q \in (dirs \cup files) \ (Dirs \cup Files) : IsPrefix(Root, q)
  /\ \A q \in Files \ files : IsPrefix(Root, q)

PathsInv ==
  /\ Tree /\ Kept
  /\ job = [w \in Worker |-> job[w]]
  /\ \A w \in Worker : WorkerInv(w)
  /\ met \subseteq Worker

LEMMA InvImplies ==
  ASSUME PathsInv
  PROVE  TypeOK /\ Confined /\ RefusedForAReason /\ OpensAFile
<1>1. ASSUME NEW w \in Worker, job[w] # Idle
      PROVE  /\ job[w].op \in {"get", "rm", "put"}
             /\ job[w].at \in {"stat", "mkdir", "unlink", "open", "opened", "refused"}
             /\ job[w].made \in Nat
             /\ job[w].unset \in BOOLEAN
             /\ IsPrefix(Root, job[w].path)
             /\ job[w].op = "put" => /\ job[w].made \in Len(Root)..(Len(job[w].path) - 1)
                                    /\ Under(job[w].path)
  BY <1>1 DEF PathsInv, WorkerInv, PutInv, IsJob
<1>2. TypeOK
  BY <1>1 DEF PathsInv, Tree, TypeOK
<1>3. Confined
  <2>1. \A w \in Worker : job[w].op = "put" => job[w] # Idle
    BY DEF Idle
  <2> QED
    BY <1>1, <2>1 DEF PathsInv, Kept, Confined, Under
<1>4. ASSUME NEW w \in Worker PROVE job[w].op \in {"put", "get"} => job[w] # Idle
  BY DEF Idle
<1>5. RefusedForAReason
  BY <1>4 DEF PathsInv, WorkerInv, PutInv, RefusedForAReason, Doing
<1>6. OpensAFile
  BY <1>4 DEF PathsInv, WorkerInv, GetInv, Tree, OpensAFile, Doing
<1> QED
  BY <1>2, <1>3, <1>5, <1>6

\* The other workers, when w goes on: directories stay, and of a file that has gone
\* no directory has been made.
LEMMA Others ==
  ASSUME PathsInv, NEW w \in Worker, NEW j, Step(w, j),
         dirs \subseteq dirs', \A q \in files \ files' : q \notin dirs'
  PROVE  /\ job' = [x \in Worker |-> job'[x]]
         /\ job'[w] = j
         /\ met' \subseteq Worker
         /\ \A x \in Worker \ {w} : WorkerInv(x)'
<1>1. /\ job' = [x \in Worker |-> IF x = w THEN j ELSE job[x]]
      /\ met' \subseteq Worker
      /\ \A x \in Worker : x \in met /\ job[x] # Idle /\ job'[x] # Idle => x \in met'
      /\ \A x \in Worker : job'[x].op = "get" /\ job'[x].path \notin dirs' \cup files' => x \in met'
  BY DEF Step, PathsInv
<1>2. ASSUME NEW x \in Worker \ {w} PROVE WorkerInv(x)'
  <2>1. job'[x] = job[x] /\ WorkerInv(x)
    BY <1>1 DEF PathsInv
  <2> SUFFICES ASSUME job[x] # Idle PROVE WorkerInv(x)'
    BY <2>1 DEF WorkerInv
  <2>2. x \in met => x \in met'
    BY <1>1, <2>1
  <2>3. ASSUME job[x].op = "put" PROVE PutInv(x)'
    BY <2>1, <2>2, <2>3 DEF WorkerInv, PutInv, Under, Above, Parent
  <2>4. ASSUME job[x].op = "get" PROVE GetInv(x)'
    <3>1. GetInv(x)
      BY <2>1, <2>4 DEF WorkerInv
    <3>2. job[x].path \in files => x \in met' \/ job[x].path \in files'
      BY <1>1, <2>1, <2>4
    <3> QED
      BY <2>1, <2>2, <3>1, <3>2 DEF GetInv
  <2> QED
    BY <2>1, <2>3, <2>4 DEF WorkerInv
<1>3. job' = [x \in Worker |-> job'[x]]
  BY <1>1
<1> QED
  BY <1>1, <1>2, <1>3

LEMMA Begins == Init => PathsInv
<1> SUFFICES ASSUME Init PROVE PathsInv
  OBVIOUS
<1>1. Tree
  BY PathsAssumption DEF Init, Tree
<1>2. Kept
  BY DEF Init, Kept
<1>3. job = [w \in Worker |-> job[w]] /\ met \subseteq Worker /\ \A w \in Worker : job[w] = Idle
  BY DEF Init
<1> QED
  BY <1>1, <1>2, <1>3 DEF PathsInv, WorkerInv

\* A step that changes no file, whose worker goes on with j.
LEMMA Looks ==
  ASSUME PathsInv, NEW w \in Worker, NEW j, Step(w, j), UNCHANGED <<dirs, files>>, WorkerInv(w)'
  PROVE  PathsInv'
<1>1. /\ job' = [x \in Worker |-> job'[x]] /\ met' \subseteq Worker
      /\ \A x \in Worker \ {w} : WorkerInv(x)'
  BY Others
<1>2. Tree' /\ Kept'
  BY DEF PathsInv, Tree, Kept, Parent
<1> QED
  BY <1>1, <1>2 DEF PathsInv

-----------------------------------------------------------------------------
(* One lemma for each action. *)

LEMMA IdleNext ==
  ASSUME PathsInv, NEW w \in Worker, Step(w, Idle)
  PROVE  WorkerInv(w)'
BY DEF Step, PathsInv, WorkerInv

LEMMA DoneKeeps ==
  ASSUME PathsInv, NEW w \in Worker, Done(w)
  PROVE  PathsInv'
BY Looks, IdleNext DEF Done

\* What a job is when it has begun, and when it goes on.
LEMMA Starts ==
  ASSUME PathsInv, NEW w \in Worker, NEW op \in {"get", "rm", "put"}, NEW q, NEW at,
         Step(w, Job(op, q, at))
  PROVE  /\ job'[w].op = op /\ job'[w].path = q /\ job'[w].at = at /\ job'[w].made = Len(Root)
         /\ IsJob(job'[w])
<1>1. job'[w] = Job(op, q, at)
  BY DEF Step, PathsInv
<1> QED
  BY <1>1 DEF Job, IsJob

LEMMA GoesOn ==
  ASSUME PathsInv, NEW w \in Worker, NEW at, Goes(w, at), job[w] # Idle
  PROVE  /\ Step(w, [job[w] EXCEPT !.at = at])
         /\ job'[w].op = job[w].op /\ job'[w].path = job[w].path
         /\ job'[w].made = job[w].made /\ job'[w].at = at
         /\ IsJob(job'[w]) /\ job'[w] # Idle
         /\ w \in met => w \in met'
<1>1. IsJob(job[w]) /\ job[w].op \in {"get", "rm", "put"}
  BY DEF PathsInv, WorkerInv
<1> DEFINE j == [job[w] EXCEPT !.at = at]
<1>2. j = [op |-> job[w].op, path |-> job[w].path, at |-> at, made |-> job[w].made, unset |-> job[w].unset]
  BY <1>1 DEF IsJob
<1>3. Step(w, j) /\ job'[w] = j
  BY DEF Goes, Step, PathsInv
<1>a. j.unset = job[w].unset
  BY <1>2
<1>b. j.unset \in BOOLEAN
  BY <1>1, <1>a, Zenon DEF IsJob
<1>c. /\ j.op = job[w].op /\ j.path = job[w].path /\ j.made = job[w].made /\ j.at = at
      /\ j = [op |-> j.op, path |-> j.path, at |-> j.at, made |-> j.made, unset |-> j.unset]
  BY <1>2
<1>4. j.op = job[w].op /\ j.path = job[w].path /\ j.made = job[w].made /\ j.at = at /\ IsJob(j)
  BY <1>b, <1>c, Zenon DEF IsJob
<1>5. j # Idle
  BY <1>1, <1>4 DEF Idle
<1> HIDE DEF j
<1>6. w \in met => w \in met'
  BY <1>3, <1>5 DEF Step
<1> QED
  BY <1>3, <1>4, <1>5, <1>6 DEF j

LEMMA JobOfFields ==
  ASSUME NEW j, NEW op, NEW q, NEW at, NEW made, NEW unset,
         j = [x \in {"op", "path", "at", "made", "unset"} |-> j[x]],
         j.op = op, j.path = q, j.at = at, j.made = made, j.unset = unset
  PROVE  j = [op |-> op, path |-> q, at |-> at, made |-> made, unset |-> unset]
OBVIOUS

LEMMA Refuses ==
  ASSUME PathsInv, NEW w \in Worker, Step(w, [job[w] EXCEPT !.at = "refused", !.unset = TRUE]), job[w] # Idle
  PROVE  /\ job'[w].op = job[w].op /\ job'[w].path = job[w].path
         /\ job'[w].made = job[w].made /\ job'[w].at = "refused" /\ job'[w].unset
         /\ IsJob(job'[w])
<1>1. IsJob(job[w])
  BY DEF PathsInv, WorkerInv
<1> DEFINE j == [job[w] EXCEPT !.at = "refused", !.unset = TRUE]
<1>2. j = [op |-> job[w].op, path |-> job[w].path, at |-> "refused", made |-> job[w].made, unset |-> TRUE]
  <2>1. job[w] = [op |-> job[w].op, path |-> job[w].path, at |-> job[w].at, made |-> job[w].made,
                  unset |-> job[w].unset]
    BY <1>1, Zenon DEF IsJob
  <2>2. DOMAIN j = {"op", "path", "at", "made", "unset"}
    BY <2>1
  <2>3. j.op = job[w].op /\ j.path = job[w].path /\ j.at = "refused" /\ j.made = job[w].made
    BY <2>1
  <2>4. j.unset = TRUE
    BY <2>1
  <2>5. j = [x \in {"op", "path", "at", "made", "unset"} |-> j[x]]
    BY <2>2
  <2> HIDE DEF j
  <2> QED
    BY <2>3, <2>4, <2>5, JobOfFields
<1>3. job'[w] = j
  BY DEF Step, PathsInv
<1>4. j.unset /\ j.unset \in BOOLEAN
  BY <1>2
<1>5. /\ j.op = job[w].op /\ j.path = job[w].path /\ j.made = job[w].made /\ j.at = "refused"
      /\ j = [op |-> j.op, path |-> j.path, at |-> j.at, made |-> j.made, unset |-> j.unset]
  BY <1>2
<1>6. IsJob(j)
  BY <1>4, <1>5, Zenon DEF IsJob
<1> QED
  BY <1>3, <1>4, <1>5, <1>6, Zenon

LEMMA Makes ==
  ASSUME PathsInv, NEW w \in Worker, Step(w, [job[w] EXCEPT !.made = @ + 1]), job[w] # Idle
  PROVE  /\ job'[w].op = job[w].op /\ job'[w].path = job[w].path
         /\ job'[w].made = job[w].made + 1 /\ job'[w].at = job[w].at
         /\ IsJob(job'[w]) /\ job'[w] # Idle
         /\ w \in met => w \in met'
<1>1. IsJob(job[w]) /\ job[w].op \in {"get", "rm", "put"}
  BY DEF PathsInv, WorkerInv
<1> DEFINE j == [job[w] EXCEPT !.made = @ + 1]
<1>2. j = [op |-> job[w].op, path |-> job[w].path, at |-> job[w].at, made |-> job[w].made + 1, unset |-> job[w].unset]
  BY <1>1 DEF IsJob
<1>3. Step(w, j) /\ job'[w] = j
  BY DEF Step, PathsInv
<1>a. j.unset = job[w].unset
  BY <1>2
<1>b. j.unset \in BOOLEAN
  BY <1>1, <1>a, Zenon DEF IsJob
<1>c. /\ j.op = job[w].op /\ j.path = job[w].path /\ j.made = job[w].made + 1 /\ j.at = job[w].at
      /\ j = [op |-> j.op, path |-> j.path, at |-> j.at, made |-> j.made, unset |-> j.unset]
  BY <1>2
<1>4. j.op = job[w].op /\ j.path = job[w].path /\ j.made = job[w].made + 1 /\ j.at = job[w].at /\ IsJob(j)
  BY <1>b, <1>c, Zenon DEF IsJob
<1>5. j # Idle
  BY <1>1, <1>4 DEF Idle
<1> HIDE DEF j
<1>6. w \in met => w \in met'
  BY <1>3, <1>5 DEF Step
<1> QED
  BY <1>3, <1>4, <1>5, <1>6 DEF j

LEMMA GetKeeps ==
  ASSUME PathsInv, NEW w \in Worker, NEW p \in Request, Get(w, p) \/ Rm(w, p)
  PROVE  PathsInv'
<1>1. PICK op \in {"get", "rm"}, at \in {"stat", "unlink"} :
        /\ Step(w, Job(op, Existing(p), at))
        /\ UNCHANGED <<dirs, files>> /\ Existing(p) # NONE
  BY DEF Get, Rm
<1>2. /\ job'[w].op = op /\ job'[w].path = Existing(p) /\ job'[w].at = at
      /\ job'[w].made = Len(Root) /\ IsJob(job'[w])
  BY <1>1, Starts
<1>3. Len(Root) \in Nat /\ IsPrefix(Root, Existing(p))
  BY <1>1, PathsAssumption DEF Existing, is_path_in_dirpath
<1>4. WorkerInv(w)'
  BY <1>2, <1>3 DEF WorkerInv, GetInv, IsJob
<1> QED
  BY <1>1, <1>4, Looks

LEMMA GetStatKeeps ==
  ASSUME PathsInv, NEW w \in Worker, GetStat(w)
  PROVE  PathsInv'
<1>1. job[w].op = "get" /\ job[w].at = "stat" /\ UNCHANGED <<dirs, files>>
  BY DEF GetStat, Doing
<1>2. job[w] # Idle /\ WorkerInv(w)
  BY <1>1 DEF PathsInv, Idle
<1>3. PICK at \in {"open", "refused"} : Goes(w, at) /\ (at = "open" => job[w].path \notin dirs)
  BY DEF GetStat
<1>4. /\ Step(w, [job[w] EXCEPT !.at = at])
      /\ job'[w].op = job[w].op /\ job'[w].path = job[w].path
      /\ job'[w].made = job[w].made /\ job'[w].at = at
      /\ IsJob(job'[w]) /\ job'[w] # Idle
  BY <1>2, <1>3, GoesOn
<1>5. at = "open" /\ job[w].path \notin files => w \in met'
  BY <1>1, <1>3, <1>4 DEF Step
<1>6. GetInv(w)'
  BY <1>1, <1>4, <1>5 DEF GetInv
<1>7. WorkerInv(w)'
  BY <1>1, <1>2, <1>4, <1>6 DEF WorkerInv, IsJob
<1> QED
  BY <1>1, <1>4, <1>7, Looks

LEMMA GetOpenKeeps ==
  ASSUME PathsInv, NEW w \in Worker, GetOpen(w)
  PROVE  PathsInv'
<1>1. job[w].op = "get" /\ job[w].at = "open" /\ UNCHANGED <<dirs, files>>
  BY DEF GetOpen, Doing
<1>2. job[w] # Idle /\ WorkerInv(w) /\ GetInv(w)
  BY <1>1 DEF PathsInv, WorkerInv, Idle
<1>3. PICK at \in {"opened", "refused"} : Goes(w, at)
  BY DEF GetOpen
<1>4. /\ Step(w, [job[w] EXCEPT !.at = at])
      /\ job'[w].op = job[w].op /\ job'[w].path = job[w].path
      /\ job'[w].made = job[w].made /\ job'[w].at = at
      /\ IsJob(job'[w]) /\ job'[w] # Idle
      /\ w \in met => w \in met'
  BY <1>2, <1>3, GoesOn
<1>5. GetInv(w)'
  BY <1>1, <1>2, <1>4 DEF GetInv
<1>6. WorkerInv(w)'
  BY <1>1, <1>2, <1>4, <1>5 DEF WorkerInv, IsJob
<1> QED
  BY <1>1, <1>4, <1>6, Looks

\* What is removed is a file: nothing is in it, and it is under the root.
LEMMA UnlinkKeeps ==
  ASSUME PathsInv, NEW w \in Worker, Unlink(w)
  PROVE  PathsInv'
<1>1. /\ job[w].op = "rm" /\ files' = files \ {job[w].path} /\ dirs' = dirs
      /\ Step(w, Idle)
  BY DEF Unlink, Doing
<1>2. IsPrefix(Root, job[w].path)
  BY <1>1 DEF PathsInv, WorkerInv, Idle
<1>3. Tree' /\ Kept'
  BY <1>1, <1>2 DEF PathsInv, Tree, Kept, Parent
<1>4. /\ job' = [x \in Worker |-> job'[x]] /\ met' \subseteq Worker
      /\ \A x \in Worker \ {w} : WorkerInv(x)'
  BY <1>1, Others DEF PathsInv, Tree
<1>5. WorkerInv(w)'
  BY <1>1, IdleNext
<1> QED
  BY <1>3, <1>4, <1>5 DEF PathsInv

LEMMA PutKeeps ==
  ASSUME PathsInv, NEW w \in Worker, NEW p \in Request, Put(w, p)
  PROVE  PathsInv'
<1>1. Step(w, Job("put", New(p), "mkdir")) /\ UNCHANGED <<dirs, files>> /\ New(p) # NONE
  BY DEF Put
<1>2. /\ job'[w].op = "put" /\ job'[w].path = New(p) /\ job'[w].at = "mkdir"
      /\ job'[w].made = Len(Root) /\ IsJob(job'[w])
  BY <1>1, Starts
<1>3. Under(New(p)) /\ Len(Root) <= Len(New(p)) - 1
  BY <1>1, NewFacts
<1>4. IsPrefix(Root, New(p))
  BY <1>3, UnderIsPrefix
<1>5. Above(New(p), Len(Root)) = Root
  <2>1. Root \in Seq(Component) /\ Len(Root) \in Nat /\ Len(New(p)) \in Nat
    BY <1>3, PathsAssumption DEF Under
  <2>2. /\ SubSeq(New(p), 1, Len(Root)) \in Seq(Component)
        /\ Len(SubSeq(New(p), 1, Len(Root))) = Len(Root)
        /\ \A i \in 1..Len(Root) : SubSeq(New(p), 1, Len(Root))[i] = New(p)[i]
    BY <1>3, <2>1 DEF Under
  <2> QED
    BY <1>3, <2>1, <2>2, SeqEqual DEF Above, Under
<1>6. Root \in dirs' /\ Len(Root) \in Len(Root)..(Len(New(p)) - 1) /\ Len(Root) \in Nat
  BY <1>1, <1>3, PathsAssumption DEF PathsInv, Tree, Under
<1>7. PutInv(w)'
  BY <1>2, <1>3, <1>5, <1>6 DEF PutInv, Above, Under
<1>8. WorkerInv(w)'
  BY <1>2, <1>4, <1>6, <1>7 DEF WorkerInv, IsJob
<1> QED
  BY <1>1, <1>8, Looks

\* The directories above a path under the root.
LEMMA AboveFacts ==
  ASSUME NEW q, Under(q), NEW k \in Nat, Len(Root) <= k, k < Len(q)
  PROVE  /\ Under(Above(q, k)) /\ q # <<>>
         /\ k = Len(q) - 1 => Above(q, k) = Parent(q)
         /\ k + 1 < Len(q) => Parent(Above(q, k + 1)) = Above(q, k)
<1>1. /\ q \in Seq(Component) /\ Len(q) \in Nat /\ q # <<>>
      /\ Root \in Seq(Component) /\ Len(Root) \in Nat
  BY PathsAssumption DEF Under
<1>2. ASSUME NEW n \in Nat, n <= Len(q)
      PROVE  /\ SubSeq(q, 1, n) \in Seq(Component) /\ Len(SubSeq(q, 1, n)) = n
             /\ \A i \in 1..n : SubSeq(q, 1, n)[i] = q[i]
  BY <1>1, <1>2
<1>3. Under(Above(q, k))
  BY <1>1, <1>2 DEF Under, Above
<1>4. k = Len(q) - 1 => Above(q, k) = Parent(q)
  BY <1>1 DEF Above, Parent, Front
<1>5. ASSUME k + 1 < Len(q) PROVE Parent(Above(q, k + 1)) = Above(q, k)
  <2> DEFINE d == SubSeq(q, 1, k + 1)
  <2>1. d \in Seq(Component) /\ Len(d) = k + 1 /\ \A i \in 1..(k + 1) : d[i] = q[i]
    BY <1>1, <1>2, <1>5
  <2> HIDE DEF d
  <2>2. /\ SubSeq(d, 1, k) \in Seq(Component) /\ Len(SubSeq(d, 1, k)) = k
        /\ \A i \in 1..k : SubSeq(d, 1, k)[i] = d[i]
    BY <2>1
  <2>3. /\ SubSeq(q, 1, k) \in Seq(Component) /\ Len(SubSeq(q, 1, k)) = k
        /\ \A i \in 1..k : SubSeq(q, 1, k)[i] = q[i]
    BY <1>1, <1>2
  <2>4. SubSeq(d, 1, k) = SubSeq(q, 1, k)
    BY <2>1, <2>2, <2>3, SeqEqual
  <2>5. Parent(d) = SubSeq(d, 1, k)
    <3>1. d # <<>> /\ Len(d) - 1 = k
      BY <2>1
    <3> QED
      BY <3>1 DEF Parent, Front
  <2> QED
    BY <2>4, <2>5 DEF Above, d
<1> QED
  BY <1>1, <1>3, <1>4, <1>5

\* What a step of a put finds.
LEMMA PutFacts ==
  ASSUME PathsInv, NEW w \in Worker, job[w].op = "put"
  PROVE  /\ job[w] # Idle /\ WorkerInv(w) /\ PutInv(w)
         /\ Len(Root) \in Nat /\ Len(job[w].path) \in Nat
         /\ job[w].made \in Nat /\ Len(Root) <= job[w].made /\ job[w].made < Len(job[w].path)
<1>1. job[w] # Idle
  BY DEF Idle
<1>2. WorkerInv(w) /\ PutInv(w)
  BY <1>1 DEF PathsInv, WorkerInv
<1>3. Len(Root) \in Nat /\ Len(job[w].path) \in Nat
  BY <1>2, PathsAssumption DEF PutInv, Under
<1> QED
  BY <1>1, <1>2, <1>3 DEF PutInv

\* A put that is blocked, now that it has gone on, has met that.
LEMMA BlockedMet ==
  ASSUME NEW w \in Worker, NEW j, Step(w, j), job'[w].op = "put",
         \/ job'[w].path \in dirs'
         \/ \E k \in 1..(Len(job'[w].path) - 1) : Above(job'[w].path, k) \in files'
  PROVE  w \in met'
BY DEF Step, Blocked

LEMMA MkdirKeeps ==
  ASSUME PathsInv, NEW w \in Worker, Mkdir(w)
  PROVE  PathsInv'
<1> DEFINE q == job[w].path
           m == job[w].made
           d == Above(q, m + 1)
<1>1. /\ job[w].op = "put" /\ job[w].at = "mkdir" /\ m < Len(q) - 1 /\ files' = files
      /\ \/ /\ d \in dirs \cup files /\ dirs' = dirs
            /\ Step(w, [job[w] EXCEPT !.made = @ + 1])
         \/ /\ d \notin dirs \cup files /\ Parent(d) \in dirs /\ dirs' = dirs \cup {d}
            /\ Step(w, [job[w] EXCEPT !.made = @ + 1])
         \/ /\ Parent(d) \notin dirs /\ dirs' = dirs
            /\ Goes(w, "refused")
  BY DEF Mkdir, Doing
<1>2. /\ job[w] # Idle /\ WorkerInv(w) /\ PutInv(w)
      /\ Len(Root) \in Nat /\ Len(q) \in Nat /\ m \in Nat /\ Len(Root) <= m /\ m + 1 < Len(q)
  BY <1>1, PutFacts
<1>3. Under(q) /\ Under(d) /\ Parent(d) = Above(q, m)
  <2>1. Under(q)
    BY <1>2 DEF PutInv
  <2>2. m < Len(q) /\ m + 1 \in Nat /\ Len(Root) <= m + 1
    BY <1>2
  <2>3. Under(d)
    BY <1>2, <2>1, <2>2, AboveFacts
  <2>4. Parent(d) = Above(q, m)
    BY <1>2, <2>1, <2>2, AboveFacts
  <2> QED
    BY <2>1, <2>3, <2>4
<1>4. IsPrefix(Root, q) /\ IsPrefix(Root, d) /\ d # NONE
  BY <1>3, UnderIsPrefix, PathsAssumption DEF Under
<1> HIDE DEF d
<1>5. Tree' /\ Kept'
  BY <1>1, <1>4 DEF PathsInv, Tree, Kept, Parent
<1>6. w \in met \/ Above(q, m) \in dirs
  BY <1>1, <1>2 DEF PutInv
<1>7. CASE Step(w, [job[w] EXCEPT !.made = @ + 1]) /\ d \in dirs' \cup files
  <2>1. /\ job'[w].op = "put" /\ job'[w].path = q
        /\ job'[w].made = m + 1 /\ job'[w].at = "mkdir"
        /\ IsJob(job'[w]) /\ job'[w] # Idle
    BY <1>1, <1>2, <1>7, Makes
  <2>2. d \in files => w \in met'
    <3>1. m + 1 \in 1..(Len(q) - 1)
      BY <1>2
    <3> QED
      BY <1>1, <1>7, <2>1, <3>1, BlockedMet DEF d
  <2>3. w \in met' \/ Above(q, m + 1) \in dirs'
    BY <1>7, <2>2 DEF d
  <2>4. m + 1 \in Len(Root)..(Len(q) - 1) /\ m + 1 \in Nat
    BY <1>2
  <2>5. PutInv(w)'
    BY <1>3, <2>1, <2>3, <2>4 DEF PutInv, Under, Above
  <2>6. WorkerInv(w)'
    BY <1>4, <2>1, <2>4, <2>5 DEF WorkerInv, IsJob
  <2>7. /\ job' = [x \in Worker |-> job'[x]] /\ met' \subseteq Worker
        /\ \A x \in Worker \ {w} : WorkerInv(x)'
    BY <1>1, <1>7, Others
  <2> QED
    BY <1>5, <2>6, <2>7 DEF PathsInv
<1>8. CASE Parent(d) \notin dirs /\ dirs' = dirs /\ Goes(w, "refused")
  <2>1. /\ Step(w, [job[w] EXCEPT !.at = "refused"])
        /\ job'[w].op = "put" /\ job'[w].path = q
        /\ job'[w].made = m /\ job'[w].at = "refused"
        /\ IsJob(job'[w]) /\ job'[w] # Idle
        /\ w \in met => w \in met'
    BY <1>1, <1>2, <1>8, GoesOn
  <2>2. w \in met'
    BY <1>3, <1>6, <1>8, <2>1
  <2>3. m \in Len(Root)..(Len(q) - 1)
    BY <1>2
  <2>4. PutInv(w)'
    BY <1>3, <2>1, <2>2, <2>3 DEF PutInv, Under
  <2>5. WorkerInv(w)'
    BY <1>2, <1>4, <2>1, <2>4 DEF WorkerInv, IsJob
  <2> QED
    BY <1>1, <1>8, <2>1, <2>5, Looks
<1> QED
  BY <1>1, <1>7, <1>8

LEMMA PutStatKeeps ==
  ASSUME PathsInv, NEW w \in Worker, PutStat(w)
  PROVE  PathsInv'
<1> DEFINE q == job[w].path
<1>1. /\ job[w].op = "put" /\ job[w].at = "mkdir" /\ job[w].made = Len(q) - 1
      /\ UNCHANGED <<dirs, files>>
      /\ \/ Goes(w, "open") \/ (q \in dirs /\ Goes(w, "refused"))
         \/ Step(w, [job[w] EXCEPT !.at = "refused", !.unset = TRUE])
  BY DEF PutStat, Doing
<1>2. /\ job[w] # Idle /\ WorkerInv(w) /\ PutInv(w)
      /\ job[w].made \in Nat /\ Len(Root) <= job[w].made /\ job[w].made < Len(q)
  BY <1>1, PutFacts
<1>3. w \in met \/ Parent(q) \in dirs
  <2>1. Above(q, job[w].made) = Parent(q)
    BY <1>1, <1>2, AboveFacts DEF PutInv
  <2> QED
    BY <1>1, <1>2, <2>1 DEF PutInv
<1>4. CASE Goes(w, "open") \/ (q \in dirs /\ Goes(w, "refused"))
  <2>1. PICK at \in {"open", "refused"} : Goes(w, at) /\ (at = "refused" => q \in dirs)
    BY <1>4
  <2>2. /\ Step(w, [job[w] EXCEPT !.at = at])
        /\ job'[w].op = "put" /\ job'[w].path = q
        /\ job'[w].made = job[w].made /\ job'[w].at = at
        /\ IsJob(job'[w]) /\ job'[w] # Idle
        /\ w \in met => w \in met'
    BY <1>1, <1>2, <2>1, GoesOn
  <2>3. at = "refused" => w \in met'
    BY <1>1, <2>1, <2>2, BlockedMet
  <2>4. PutInv(w)'
    BY <1>1, <1>2, <1>3, <2>2, <2>3 DEF PutInv, Under, Parent
  <2>5. WorkerInv(w)'
    BY <1>2, <2>2, <2>4 DEF WorkerInv, IsJob
  <2> QED
    BY <1>1, <2>2, <2>5, Looks
<1>5. CASE Step(w, [job[w] EXCEPT !.at = "refused", !.unset = TRUE])
  <2>1. /\ job'[w].op = "put" /\ job'[w].path = q
        /\ job'[w].made = job[w].made /\ job'[w].at = "refused" /\ job'[w].unset
        /\ IsJob(job'[w])
    BY <1>1, <1>2, <1>5, Refuses
  <2>2. PutInv(w)'
    BY <1>1, <1>2, <2>1 DEF PutInv, Under
  <2>3. WorkerInv(w)'
    BY <1>2, <2>1, <2>2 DEF WorkerInv
  <2> QED
    BY <1>1, <1>5, <2>3, Looks
<1> QED
  BY <1>1, <1>4, <1>5

LEMMA PutOpenKeeps ==
  ASSUME PathsInv, NEW w \in Worker, PutOpen(w)
  PROVE  PathsInv'
<1> DEFINE q == job[w].path
<1>1. /\ job[w].op = "put" /\ job[w].at = "open" /\ dirs' = dirs
      /\ \/ /\ q \notin dirs /\ Parent(q) \in dirs
            /\ files' = files \cup {q} /\ Goes(w, "opened")
         \/ /\ q \in dirs \/ Parent(q) \notin dirs
            /\ files' = files /\ Goes(w, "refused")
  BY DEF PutOpen, Doing
<1>2. job[w] # Idle /\ WorkerInv(w) /\ PutInv(w)
  BY <1>1, PutFacts
<1>3. IsPrefix(Root, q) /\ q # NONE
  BY <1>2, UnderIsPrefix, PathsAssumption DEF PutInv, Under
<1>4. Tree' /\ Kept'
  BY <1>1, <1>3 DEF PathsInv, Tree, Kept, Parent
<1>5. PICK at \in {"opened", "refused"} :
        Goes(w, at) /\ (at = "refused" => q \in dirs \/ Parent(q) \notin dirs)
  BY <1>1
<1>6. /\ Step(w, [job[w] EXCEPT !.at = at])
      /\ job'[w].op = "put" /\ job'[w].path = q
      /\ job'[w].made = job[w].made /\ job'[w].at = at
      /\ IsJob(job'[w]) /\ job'[w] # Idle
      /\ w \in met => w \in met'
  BY <1>1, <1>2, <1>5, GoesOn
<1>7. at = "refused" => w \in met'
  <2>1. q \in dirs => w \in met'
    BY <1>1, <1>6, BlockedMet
  <2> QED
    BY <1>1, <1>2, <1>5, <1>6, <2>1 DEF PutInv
<1>8. PutInv(w)'
  BY <1>1, <1>2, <1>6, <1>7 DEF PutInv, Under, Parent
<1>9. WorkerInv(w)'
  BY <1>2, <1>6, <1>8 DEF WorkerInv, IsJob
<1>10. /\ job' = [x \in Worker |-> job'[x]] /\ met' \subseteq Worker
       /\ \A x \in Worker \ {w} : WorkerInv(x)'
  BY <1>1, <1>6, Others
<1> QED
  BY <1>4, <1>9, <1>10 DEF PathsInv

LEMMA NextKeeps == PathsInv /\ [Next]_vars => PathsInv'
<1> SUFFICES ASSUME PathsInv, [Next]_vars PROVE PathsInv'
  OBVIOUS
<1>1. CASE Next
  BY <1>1, GetKeeps, PutKeeps, GetStatKeeps, GetOpenKeeps, UnlinkKeeps, MkdirKeeps,
     PutStatKeeps, PutOpenKeeps, DoneKeeps DEF Next
<1>2. CASE UNCHANGED vars
  BY <1>2 DEF vars, PathsInv, Tree, Kept, WorkerInv, PutInv, GetInv, Under, Above, Parent, IsJob
<1> QED
  BY <1>1, <1>2

-----------------------------------------------------------------------------
(* What holds of every behaviour. *)

LEMMA PathsInvariant == Spec => []PathsInv
<1>1. Init => PathsInv
  BY Begins
<1>2. PathsInv /\ [Next]_vars => PathsInv'
  BY NextKeeps
<1> QED
  BY <1>1, <1>2, PTL DEF Spec

\* What there is stays a tree, and a put has a name to give under the directory of
\* the slave: path.c and utils.c, for any requests.
THEOREM TypeCorrect == Spec => []TypeOK
<1>1. PathsInv => TypeOK
  BY InvImplies
<1> QED
  BY <1>1, PathsInvariant, PTL

\* Whatever a path is made of, what is read, made or removed is in the directory of
\* the slave: is_path_in_dirpath for what is there, the loop of
\* get_abs_path_from_src_path, that lets no "." or ".." through, for what is not.
THEOREM StaysConfined == Spec => []Confined
<1>1. PathsInv => Confined
  BY InvImplies
<1> QED
  BY <1>1, PathsInvariant, PTL

\* The two functions that resolve a path agree on every file, for paths of any
\* length: by induction on their components.
THEOREM OneFileForEachPath == Spec => []OneFilePerPath
<1>1. PathsInv => OneFilePerPath
  BY TheyAgree DEF PathsInv
<1> QED
  BY <1>1, PathsInvariant, PTL

\* Workers that make the same directories do not hinder each other: a put is
\* refused only if something of the other kind was in its way, or if there was
\* nothing under its name when open_file_w looked: then it may be refused for what
\* its struct stat, that stat(2) has not set, happens to hold
\* (ensure_parent_dirs_for_file, open_file_w).
THEOREM PutsDoNotHinder == Spec => []RefusedForAReason
<1>1. PathsInv => RefusedForAReason
  BY InvImplies
<1> QED
  BY <1>1, PathsInvariant, PTL

\* A get opens a file and no directory, unless the file that it had looked at has
\* gone (open_file_r).
THEOREM GetsOpenFiles == Spec => []OpensAFile
<1>1. PathsInv => OpensAFile
  BY InvImplies
<1> QED
  BY <1>1, PathsInvariant, PTL
=============================================================================

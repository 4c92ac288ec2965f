------------------------- MODULE ConnPoolOwnership -------------------------
(***************************************************************************)
(* The owners of ConnPool's connections, for any number of users and       *)
(* connections and any MinIdle, MaxIdle and MaxActive.                     *)
(***************************************************************************)
EXTENDS ConnPool, TLAPS

\* put and addIdleConn list one more connection, at whichever end.
LEMMA PushType ==
  ASSUME NEW l \in Seq(Conn), NEW c \in Conn
  PROVE  Push(l, c) \in Seq(Conn) /\ Len(Push(l, c)) = Len(l) + 1
  BY DEF Push

\* The elements of a list are connections.
LEMMA ListType ==
  ASSUME NEW l \in Seq(Conn)
  PROVE  Len(l) \in Nat /\ \A i \in 1..Len(l) : l[i] \in Conn
  OBVIOUS

\* The first n connections of a list.
LEMMA Prefix ==
  ASSUME NEW l, NEW n \in Nat, \A i \in 1..n : l[i] \in Conn
  PROVE  /\ SubSeq(l, 1, n) \in Seq(Conn) /\ Len(SubSeq(l, 1, n)) = n
         /\ \A i \in 1..n : SubSeq(l, 1, n)[i] = l[i]
<1>1. SubSeq(l, 1, n) = [i \in 1..n |-> l[i]]
  BY DEF SubSeq
<1>2. SubSeq(l, 1, n) \in Seq(Conn) /\ Len(SubSeq(l, 1, n)) = n
  BY <1>1
<1> QED BY <1>1, <1>2, Zenon

\* Popping the tail leaves a list that is one shorter.
LEMMA FrontType ==
  ASSUME NEW l \in Seq(Conn), Len(l) > 0
  PROVE  /\ Front(l) \in Seq(Conn) /\ Len(Front(l)) = Len(l) - 1
         /\ Last(l) \in Conn
<1> DEFINE n == Len(l) - 1
<1>1. n \in Nat /\ Len(l) = n + 1 /\ \A i \in 1..(n + 1) : l[i] \in Conn
  BY ListType
<1>2. Front(l) = SubSeq(l, 1, n) /\ Last(l) = l[n + 1]
  BY <1>1, Zenon DEF Front, Last
<1> HIDE DEF n
<1> QED
  BY <1>1, <1>2, Prefix

\* Popping the head too.
LEMMA TailType ==
  ASSUME NEW l \in Seq(Conn), l # <<>>
  PROVE  Head(l) \in Conn /\ Tail(l) \in Seq(Conn) /\ Len(Tail(l)) = Len(l) - 1
  OBVIOUS

\* m is l with c behind it.
LEMMA OneMoreLast ==
  ASSUME NEW l, NEW m, NEW c, Len(l) \in Nat, Len(m) = Len(l) + 1, m[Len(l) + 1] = c, \A i \in 1..Len(l) : m[i] = l[i]
  PROVE  /\ Elems(m) = Elems(l) \cup {c}
         /\ NoDup(l) /\ c \notin Elems(l) => NoDup(m)
  BY DEF Elems, NoDup

\* m is l with c before it.
LEMMA OneMoreFirst ==
  ASSUME NEW l, NEW m, NEW c, Len(l) \in Nat, Len(m) = Len(l) + 1, m[1] = c, \A i \in 1..Len(l) : m[i + 1] = l[i]
  PROVE  /\ Elems(m) = Elems(l) \cup {c}
         /\ NoDup(l) /\ c \notin Elems(l) => NoDup(m)
<1>1. \A i \in 1..Len(m) : i = 1 \/ (i - 1 \in 1..Len(l) /\ m[i] = l[i - 1])
  OBVIOUS
<1>2. Elems(m) = Elems(l) \cup {c}
  <2>1. ASSUME NEW x \in Elems(m) PROVE x \in Elems(l) \cup {c}
    BY <1>1 DEF Elems
  <2>2. 1 \in 1..Len(m) /\ \A i \in 1..Len(l) : i + 1 \in 1..Len(m) /\ m[i + 1] = l[i]
    OBVIOUS
  <2>3. c \in Elems(m) /\ \A x \in Elems(l) : x \in Elems(m)
    BY <2>2, Zenon DEF Elems
  <2> QED BY <2>1, <2>3, Zenon
<1>3. ASSUME NoDup(l), c \notin Elems(l), NEW i \in 1..Len(m), NEW j \in 1..Len(m), m[i] = m[j]
      PROVE  i = j
  <2>1. \A k \in 1..Len(l) : l[k] # c
    BY <1>3, Zenon DEF Elems
  <2>2. CASE i # 1 /\ j # 1
    <3>1. i - 1 \in 1..Len(l) /\ j - 1 \in 1..Len(l) /\ l[i - 1] = l[j - 1]
      BY <1>1, <1>3, <2>2, Zenon
    <3>2. i - 1 = j - 1
      BY <1>3, <3>1, Zenon DEF NoDup
    <3> QED BY <3>2
  <2>3. CASE i = 1 /\ j # 1
    BY <1>1, <1>3, <2>1, <2>3, Zenon
  <2>4. CASE i # 1 /\ j = 1
    BY <1>1, <1>3, <2>1, <2>4, Zenon
  <2> QED BY <2>2, <2>3, <2>4, Zenon
<1> QED BY <1>2, <1>3, Zenon DEF NoDup

\* What listing a connection does to a list without duplicates.
LEMMA PushElems ==
  ASSUME NEW l \in Seq(Conn), NEW c \in Conn, NEW m, m = Append(l, c) \/ m = <<c>> \o l
  PROVE  /\ m \in Seq(Conn) /\ Elems(m) = Elems(l) \cup {c}
         /\ NoDup(l) /\ c \notin Elems(l) => NoDup(m)
<1>1. CASE m = Append(l, c)
  <2>1. m \in Seq(Conn) /\ Len(l) \in Nat /\ Len(m) = Len(l) + 1 /\ m[Len(l) + 1] = c
    BY <1>1
  <2>2. \A i \in 1..Len(l) : m[i] = l[i]
    BY <1>1
  <2> QED BY <2>1, <2>2, OneMoreLast, ZenonT(30)
<1>2. CASE m = <<c>> \o l
  <2>1. m \in Seq(Conn) /\ Len(l) \in Nat /\ Len(m) = Len(l) + 1 /\ m[1] = c
    BY <1>2
  <2>2. \A i \in 1..Len(l) : m[i + 1] = l[i]
    BY <1>2
  <2>3. Elems(m) = Elems(l) \cup {c} /\ (NoDup(l) /\ c \notin Elems(l) => NoDup(m))
    BY <2>1, <2>2, OneMoreFirst, SMTT(20)
  <2> QED BY <2>1, <2>3, Zenon
<1> QED BY <1>1, <1>2, Zenon

\* What popping the head does to it.
LEMMA TailElems ==
  ASSUME NEW l \in Seq(Conn), l # <<>>, NoDup(l)
  PROVE  /\ Head(l) \in Elems(l) /\ Elems(Tail(l)) = Elems(l) \ {Head(l)} /\ NoDup(Tail(l))
<1>1. /\ Len(l) \in Nat /\ Len(l) > 0 /\ Tail(l) \in Seq(Conn) /\ Len(Tail(l)) = Len(l) - 1
      /\ Head(l) = l[1] /\ \A i \in 1..Len(Tail(l)) : Tail(l)[i] = l[i + 1]
  OBVIOUS
<1>2. \A i \in 1..Len(l) : i = 1 \/ (i - 1 \in 1..Len(Tail(l)) /\ Tail(l)[i - 1] = l[i])
  BY <1>1
<1>3. \A i \in 1..Len(Tail(l)) : i + 1 \in 1..Len(l) /\ l[i + 1] # l[1]
  BY <1>1 DEF NoDup
<1>4. Elems(Tail(l)) = Elems(l) \ {Head(l)}
  BY <1>1, <1>2, <1>3 DEF Elems
<1> QED BY <1>1, <1>3, <1>4 DEF Elems, NoDup

\* What popping the tail does to it.
LEMMA FrontElems ==
  ASSUME NEW l \in Seq(Conn), l # <<>>, NoDup(l)
  PROVE  /\ Last(l) \in Elems(l) /\ Elems(Front(l)) = Elems(l) \ {Last(l)} /\ NoDup(Front(l))
<1>1. Len(l) \in Nat /\ Len(l) > 0
  OBVIOUS
<1> DEFINE n == Len(l) - 1
<1>2. n \in Nat /\ \A i \in 1..n : l[i] \in Conn
  BY <1>1
<1>4. Last(l) = l[n + 1] /\ Len(l) = n + 1 /\ Front(l) = SubSeq(l, 1, n)
  BY <1>1 DEF Last, Front
<1> HIDE DEF n
<1>3. /\ Len(Front(l)) = n /\ \A i \in 1..n : Front(l)[i] = l[i]
  BY <1>2, <1>4, Prefix
<1>5. \A i \in 1..n : l[i] # l[n + 1]
  BY <1>2, <1>4 DEF NoDup
<1>6. \A i \in 1..Len(l) : i = n + 1 \/ i \in 1..n
  BY <1>2, <1>4
<1>7. Elems(Front(l)) = Elems(l) \ {Last(l)}
  BY <1>2, <1>3, <1>4, <1>5, <1>6 DEF Elems
<1> QED BY <1>2, <1>3, <1>4, <1>7 DEF Elems, NoDup

\* A user that goes from one point to another without a connection in hand.
LEMMA EmptyHanded ==
  ASSUME SizeInv, OwnInv, NEW u \in User, NEW l \in UserPC, GoTo(u, l),
         upc[u] \notin {"fast", "using", "put", "release", "uncount"},
         l \notin {"fast", "using", "put"},
         UNCHANGED <<idle, detached, added, cconn, open, uconn, victim, ioErr>>
  PROVE  OwnInv'
<1> USE DEF SizeInv, TypeOK, UserType
<1>1. UNCHANGED <<Kept, Listed, Detached, NoDup(idle), NoDup(detached)>>
  BY DEF Kept, Listed, Detached, Elems, NoDup
<1>2. upc' = [upc EXCEPT ![u] = l] /\ \A v \in User : Holding(v)' = Holding(v)
  BY DEF GoTo, Holding
<1>3. KeptApart'
  BY <1>1, Zenon DEF OwnInv, KeptApart
<1>4. HeldApart'
  BY <1>1, <1>2, Zenon DEF OwnInv, HeldApart
<1>5. VictimsApart'
  BY <1>1, <1>2, Zenon DEF OwnInv, VictimsApart
<1>6. NoneForgotten'
  BY <1>1, <1>2, Zenon DEF OwnInv, NoneForgotten
<1> QED BY <1>3, <1>4, <1>5, <1>6, Zenon DEF OwnInv

\* A step that leaves the lists and the places of the checker and the top-ups
\* alone.
LEMMA SamePlaces ==
  ASSUME UNCHANGED <<idle, detached, added, cconn>>
  PROVE  /\ Kept' = Kept /\ Listed' = Listed /\ Detached' = Detached
         /\ NoDup(idle)' = NoDup(idle) /\ NoDup(detached)' = NoDup(detached)
  BY Zenon DEF Kept, Listed, Detached, Elems, NoDup

\* Everything open that has an owner is a PoolConn, nil is not.
LEMMA NilIsNotOpen == ASSUME SizeInv PROVE NoConn \notin open /\ open \subseteq Conn
  BY ConstAssumption, Zenon DEF SizeInv, TypeOK, PoolType

\* Get: the connection popped from the list changes owner, one that fails the
\* probe is closed, one just dialed is nobody else's.
LEMMA GetOwn ==
  ASSUME SizeInv, OwnInv, NEW u \in User, PopIdle(u) \/ FastCheck(u) \/ DialForUser(u)
  PROVE  OwnInv'
<1>t. UserType /\ PoolType /\ CheckerType /\ AdderType
  BY Zenon DEF SizeInv, TypeOK
<1>n. NoConn \notin open /\ open \subseteq Conn /\ ioErr \subseteq User
  BY <1>t, NilIsNotOpen, Zenon DEF UserType
<1>1. CASE PopIdle(u)
  <2>1. CASE idle = <<>>
    BY <1>1, <2>1, EmptyHanded, Zenon DEF PopIdle, UserPC, chkVars, addVars
  <2>2. CASE idle # <<>>
    <3> DEFINE c == Head(idle)
    <3>1. /\ upc' = [upc EXCEPT ![u] = "fast"] /\ uconn' = [uconn EXCEPT ![u] = c]
          /\ idle' = Tail(idle) /\ UNCHANGED <<open, ioErr, victim, detached, added, cconn>>
      BY <1>1, <2>2, Zenon DEF PopIdle, GoTo, Hold, chkVars, addVars
    <3>2. /\ c \in Listed /\ Listed' = Listed \ {c} /\ NoDup(idle')
          /\ Detached' = Detached /\ NoDup(detached)' = NoDup(detached)
      <4>1. NoDup(idle) /\ idle \in Seq(Conn)
        BY <1>t, Zenon DEF OwnInv, KeptApart, PoolType
      <4>2. Head(idle) \in Elems(idle) /\ Elems(idle') = Elems(idle) \ {c} /\ NoDup(idle')
        BY <2>2, <3>1, <4>1, TailElems, Zenon
      <4>3. Detached' = Detached /\ NoDup(detached)' = NoDup(detached)
        BY <3>1, Zenon DEF Detached, Elems, NoDup
      <4> QED BY <4>2, <4>3, Zenon DEF Listed
    <3>c. c \in Conn
      BY <1>t, <2>2, TailType, Zenon DEF PoolType
    <3> HIDE DEF c
    <3>3. c \in open /\ c \in Kept /\ c \notin Detached \cup added \cup {cconn}
      BY <3>2, <3>c, ConstAssumption, Zenon DEF OwnInv, KeptApart, Kept
    <3>4. Kept' = Kept \ {c}
      BY <3>1, <3>2, <3>3, Zenon DEF Kept
    <3>5. /\ \A v \in User : v # u => upc'[v] = upc[v] /\ uconn'[v] = uconn[v]
          /\ upc'[u] = "fast" /\ uconn'[u] = c /\ upc[u] = "pop"
      BY <1>1, <1>t, <3>1, Zenon DEF PopIdle, UserType
    <3>6. KeptApart'
      BY <3>1, <3>2, <3>4, Zenon DEF OwnInv, KeptApart
    <3>7. HeldApart'
      BY <3>1, <3>3, <3>4, <3>5 DEF OwnInv, HeldApart, Holding
    <3>8. VictimsApart'
      BY <3>1, <3>3, <3>4, <3>5 DEF OwnInv, VictimsApart, Holding
    <3>9. NoneForgotten'
      BY <3>1, <3>4, <3>5 DEF OwnInv, NoneForgotten, Holding
    <3> QED BY <3>6, <3>7, <3>8, <3>9, Zenon DEF OwnInv
  <2> QED BY <2>1, <2>2, Zenon
<1>2. CASE FastCheck(u)
  <2> DEFINE c == uconn[u]
  <2>0. UNCHANGED <<idle, detached, added, cconn, ioErr, victim>> /\ upc[u] = "fast"
    BY <1>2, Zenon DEF FastCheck, poolVars, chkVars, addVars
  <2>1. CASE GoTo(u, "using") /\ UNCHANGED <<open, uconn>>
    <3>1. /\ upc' = [upc EXCEPT ![u] = "using"] /\ UNCHANGED <<open, uconn>>
          /\ \A v \in User : Holding(v)' = Holding(v)
      BY <1>t, <2>0, <2>1 DEF GoTo, Holding, UserType
    <3>2. KeptApart'
      BY <2>0, <3>1, SamePlaces, Zenon DEF OwnInv, KeptApart
    <3>3. HeldApart'
      BY <1>t, <2>0, <3>1, SamePlaces, Zenon DEF OwnInv, HeldApart, UserType
    <3>4. VictimsApart'
      BY <1>t, <2>0, <3>1, SamePlaces, Zenon DEF OwnInv, VictimsApart, UserType
    <3>5. NoneForgotten'
      BY <1>t, <2>0, <3>1, SamePlaces, Zenon DEF OwnInv, NoneForgotten
    <3> QED BY <3>2, <3>3, <3>4, <3>5 DEF OwnInv
  <2>2. CASE Kill(c) /\ Hold(u, NoConn) /\ GoTo(u, "pop")
    <3>1. /\ open' = open \ {c}
          /\ \A v \in User : v # u => upc'[v] = upc[v] /\ uconn'[v] = uconn[v]
          /\ upc'[u] = "pop" /\ uconn'[u] = NoConn
      BY <1>t, <2>2, Zenon DEF GoTo, Hold, Kill, UserType
    <3>2. c \in open /\ c \notin Kept
      BY <2>0, Zenon DEF OwnInv, HeldApart, Holding
    <3>3. \A v \in User : victim[v] # c /\ (v # u /\ Holding(v) => uconn[v] # c)
      BY <2>0, <3>2, <1>n, Zenon DEF OwnInv, HeldApart, VictimsApart, Holding
    <3>4. KeptApart'
      BY <2>0, <3>1, <3>2, SamePlaces, Zenon DEF OwnInv, KeptApart
    <3>5. HeldApart'
      BY <1>n, <2>0, <3>1, <3>2, <3>3, SamePlaces DEF OwnInv, HeldApart, Holding
    <3>6. VictimsApart'
      BY <1>n, <2>0, <3>1, <3>2, <3>3, SamePlaces DEF OwnInv, VictimsApart, Holding
    <3>7. NoneForgotten'
      BY <2>0, <3>1, SamePlaces DEF OwnInv, NoneForgotten, Holding
    <3> QED BY <3>4, <3>5, <3>6, <3>7 DEF OwnInv
  <2> QED BY <1>2, <2>1, <2>2, Zenon DEF FastCheck
<1>3. CASE DialForUser(u)
  <2>0. UNCHANGED <<idle, detached, added, cconn, ioErr, victim>> /\ upc[u] = "dial"
    BY <1>3, Zenon DEF DialForUser, poolVars, chkVars, addVars
  <2>1. CASE GoTo(u, "undo") /\ UNCHANGED <<open, uconn>>
    BY <2>0, <2>1, EmptyHanded, Zenon DEF UserPC
  <2>2. ASSUME NEW c \in Conn, Fresh(c), Born(c), Hold(u, c), GoTo(u, "using") PROVE OwnInv'
    <3>1. /\ open' = open \cup {c}
          /\ \A v \in User : v # u => upc'[v] = upc[v] /\ uconn'[v] = uconn[v]
          /\ upc'[u] = "using" /\ uconn'[u] = c
      BY <1>t, <2>2, Zenon DEF GoTo, Hold, Born, UserType
    <3>2. c \notin Kept /\ \A v \in User : victim[v] # c /\ uconn[v] # c
      BY <2>2, Zenon DEF Fresh, Referenced, Kept
    <3>4. KeptApart'
      BY <2>0, <3>1, SamePlaces, Zenon DEF OwnInv, KeptApart
    <3>5. HeldApart'
      BY <1>n, <2>0, <3>1, <3>2, SamePlaces DEF OwnInv, HeldApart, Holding
    <3>6. VictimsApart'
      BY <1>n, <2>0, <3>1, <3>2, SamePlaces DEF OwnInv, VictimsApart, Holding
    <3>7. NoneForgotten'
      BY <2>0, <3>1, SamePlaces DEF OwnInv, NoneForgotten, Holding
    <3> QED BY <3>4, <3>5, <3>6, <3>7, Zenon DEF OwnInv
  <2> QED BY <1>3, <2>1, <2>2, Zenon DEF DialForUser
<1> QED BY <1>1, <1>2, <1>3, Zenon

\* put: the connection goes back to the list, or to the victim's place, or the
\* list's last connection does.
LEMMA PutOwn ==
  ASSUME SizeInv, OwnInv, NEW u \in User, PutLocked(u)
  PROVE  OwnInv'
<1>t. UserType /\ PoolType /\ CheckerType /\ AdderType
  BY Zenon DEF SizeInv, TypeOK
<1>n. NoConn \notin open /\ open \subseteq Conn /\ ioErr \subseteq User
  BY <1>t, NilIsNotOpen, Zenon DEF UserType
<1> DEFINE c == uconn[u]
<1>0. /\ UNCHANGED <<open, uconn, ioErr, detached, added, cconn>>
      /\ upc[u] = "put" /\ upc'[u] = "release" /\ \A v \in User : v # u => upc'[v] = upc[v]
  BY <1>t, Zenon DEF PutLocked, GoTo, UserType, chkVars, addVars
<1>1. c \in open /\ c \in Conn /\ c \notin Kept /\ c \notin Listed /\ victim[u] = NoConn
  BY <1>n, <1>0, Zenon DEF OwnInv, HeldApart, Holding, VictimsApart, Kept
<1>2. \A v \in User : victim[v] # c /\ (v # u /\ Holding(v) => uconn[v] # c)
  BY <1>n, <1>0, <1>1, Zenon DEF OwnInv, HeldApart, VictimsApart, Holding
<1>3. CASE closed \/ ForceClose \/ u \in ioErr
  <2>1. idle' = idle /\ victim'[u] = c /\ \A v \in User : v # u => victim'[v] = victim[v]
    BY <1>t, <1>3, Zenon DEF PutLocked, UserType
  <2> HIDE DEF c
  <2>2. KeptApart'
    BY <1>0, <2>1, SamePlaces, Zenon DEF OwnInv, KeptApart
  <2>3. HeldApart'
    <3>1. uconn[u] = c
      BY Zenon DEF c
    <3> QED BY <1>n, <1>0, <2>1, <3>1, SamePlaces DEF OwnInv, HeldApart, Holding
  <2>4. VictimsApart'
    BY <1>n, <1>0, <1>1, <1>2, <2>1, SamePlaces DEF OwnInv, VictimsApart, Holding
  <2>5. NoneForgotten'
    <3>1. uconn[u] = c
      BY DEF c
    <3>2. ASSUME NEW x \in open, x # c, x \notin Kept
          PROVE  \E v \in User : (Holding(v)' /\ uconn[v] = x) \/ victim'[v] = x
      <4>1. PICK v \in User : (Holding(v) /\ uconn[v] = x) \/ victim[v] = x
        BY <3>2, Zenon DEF OwnInv, NoneForgotten
      <4>2. v # u
        BY <1>n, <1>1, <3>1, <3>2, <4>1, Zenon
      <4> QED BY <1>0, <2>1, <4>1, <4>2, Zenon DEF Holding
    <3> QED BY <1>0, <2>1, <3>2, SamePlaces, Zenon DEF NoneForgotten
  <2> QED BY <2>2, <2>3, <2>4, <2>5, Zenon DEF OwnInv
<1>4. CASE ~(closed \/ ForceClose \/ u \in ioErr)
  <2> DEFINE l == Push(idle, c)
             d == IF idleSize >= MaxIdle THEN Last(l) ELSE NoConn
  <2>1. l \in Seq(Conn) /\ Elems(l) = Listed \cup {c} /\ NoDup(l) /\ l # <<>>
    <3>1. idle \in Seq(Conn) /\ NoDup(idle)
      BY <1>t, Zenon DEF PoolType, OwnInv, KeptApart
    <3>2. l = Append(idle, c) \/ l = <<c>> \o idle
      BY Zenon DEF Push
    <3>3. l # <<>>
      BY <1>1, <3>1, <3>2
    <3> HIDE DEF l
    <3> QED BY <1>1, <3>1, <3>2, <3>3, PushElems, Zenon DEF Listed
  <2>2. /\ Listed' = (Listed \cup {c}) \ {d} /\ NoDup(idle') /\ d \in Listed \cup {c, NoConn}
        /\ victim'[u] = d /\ \A v \in User : v # u => victim'[v] = victim[v]
    <3>1. CASE idleSize >= MaxIdle
      <4>1. idle' = Front(l) /\ victim' = [victim EXCEPT ![u] = Last(l)]
        BY <1>4, <3>1, Zenon DEF PutLocked
      <4>2. Last(l) \in Elems(l) /\ Elems(Front(l)) = Elems(l) \ {Last(l)} /\ NoDup(Front(l))
        BY <2>1, FrontElems, Zenon
      <4> HIDE DEF l
      <4> QED BY <1>t, <2>1, <3>1, <4>1, <4>2, Zenon DEF UserType, Listed
    <3>2. CASE ~(idleSize >= MaxIdle)
      <4>1. idle' = l /\ victim' = victim
        BY <1>4, <3>2, Zenon DEF PutLocked
      <4>2. NoConn \notin Listed \cup {c}
        BY <1>1, <1>t, ConstAssumption, ListType, Zenon DEF Listed, Elems, PoolType
      <4> HIDE DEF l
      <4> QED BY <1>1, <1>t, <2>1, <3>2, <4>1, <4>2, Zenon DEF UserType, Listed
    <3> QED BY <3>1, <3>2, Zenon
  <2>3. Detached' = Detached /\ NoDup(detached)' = NoDup(detached)
    BY <1>0, Zenon DEF Detached, Elems, NoDup
  <2>4. uconn[u] = c /\ u \notin ioErr
    BY <1>4, Zenon
  <2> HIDE DEF c, l, d
  <2>5. Kept' = (Kept \cup {c}) \ ({d} \ {NoConn}) /\ (d # NoConn => d \in open)
    <3>1. d # NoConn => d \in open /\ d \notin Detached \cup added \cup {cconn}
      BY <1>1, <2>2, Zenon DEF Kept, OwnInv, KeptApart
    <3>2. NoConn \notin Listed \cup {c}
      BY <1>1, <1>t, ConstAssumption, ListType, Zenon DEF Listed, Elems, PoolType
    <3>3. Listed' = (Listed \cup {c}) \ ({d} \ {NoConn})
      BY <2>2, <3>2, Zenon
    <3> QED BY <1>0, <2>3, <3>1, <3>3, Zenon DEF Kept
  <2>6. KeptApart'
    BY <1>0, <1>1, <2>2, <2>3, <2>5 DEF OwnInv, KeptApart, Kept
  <2>7. HeldApart'
    BY <1>n, <1>0, <1>1, <1>2, <2>2, <2>4, <2>5 DEF OwnInv, HeldApart, Holding
  <2>8. VictimsApart'
    <3>1. d # NoConn => d \notin Kept' /\ \A v \in User : Holding(v)' => uconn[v] # d
      BY <1>0, <1>1, <1>2, <2>2, <2>4, <2>5, Zenon DEF OwnInv, HeldApart, Holding, Kept
    <3>2. d # NoConn => \A v \in User : victim[v] # d
      BY <1>2, <2>2, Zenon DEF OwnInv, VictimsApart, Kept
    <3> QED BY <1>n, <1>0, <1>1, <1>2, <2>2, <2>5, <3>1, <3>2 DEF OwnInv, VictimsApart, Holding
  <2>9. NoneForgotten'
    <3>1. ASSUME NEW x \in open, x \notin Kept, x # c
          PROVE  \E v \in User : (Holding(v)' /\ uconn[v] = x) \/ victim'[v] = x
      <4>1. PICK v \in User : (Holding(v) /\ uconn[v] = x) \/ victim[v] = x
        BY <3>1, Zenon DEF OwnInv, NoneForgotten
      <4>2. v # u
        BY <1>n, <1>1, <2>4, <3>1, <4>1, Zenon
      <4> QED BY <1>0, <2>2, <4>1, <4>2, Zenon DEF Holding
    <3> QED BY <1>0, <2>2, <2>5, <3>1, Zenon DEF NoneForgotten
  <2> QED BY <2>6, <2>7, <2>8, <2>9 DEF OwnInv
<1> QED BY <1>3, <1>4, Zenon

\* The rest of put, and the two ways into it: Close and a failed Read or Write.
LEMMA ReturnOwn ==
  ASSUME SizeInv, OwnInv, NEW u \in User,
         IOFails(u) \/ CloseConn(u) \/ PutRelease(u) \/ PutUncount(u)
  PROVE  OwnInv'
<1>t. UserType /\ PoolType /\ CheckerType /\ AdderType
  BY Zenon DEF SizeInv, TypeOK
<1>n. NoConn \notin open /\ open \subseteq Conn /\ ioErr \subseteq User
  BY <1>t, NilIsNotOpen, Zenon DEF UserType
<1> DEFINE Others == /\ \A v \in User : v # u => /\ upc'[v] = upc[v] /\ uconn'[v] = uconn[v]
                                               /\ victim'[v] = victim[v]
                     /\ UNCHANGED <<idle, detached, added, cconn>>
<1>1. CASE IOFails(u)
  <2>1. /\ Others /\ UNCHANGED <<uconn, victim, open>> /\ uconn[u] \in open
        /\ upc[u] = "using" /\ upc'[u] = "put" /\ ioErr' = ioErr \cup {u}
    BY <1>1, <1>t, Zenon DEF IOFails, GoTo, UserType, poolVars, chkVars, addVars
  <2>2. KeptApart'
    BY <2>1, SamePlaces, Zenon DEF OwnInv, KeptApart
  <2>3. HeldApart'
    BY <1>n, <2>1, SamePlaces DEF OwnInv, HeldApart, Holding
  <2>4. VictimsApart'
    BY <1>n, <2>1, SamePlaces DEF OwnInv, VictimsApart, Holding
  <2>5. NoneForgotten'
    BY <2>1, SamePlaces DEF OwnInv, NoneForgotten, Holding
  <2> QED BY <2>2, <2>3, <2>4, <2>5, Zenon DEF OwnInv
<1>2. CASE CloseConn(u)
  <2>1. /\ Others /\ UNCHANGED <<victim, open, ioErr>> /\ upc[u] = "using"
        /\ \/ upc'[u] = "put" /\ uconn'[u] = uconn[u] /\ uconn[u] \in open
           \/ upc'[u] = "out" /\ uconn'[u] = NoConn /\ uconn[u] \notin open
    <3>1. uconn[u] \in open /\ upc[u] = "using" => uconn[u] \notin Listed
      BY Zenon DEF OwnInv, HeldApart, Holding, Kept
    <3>2. CASE uconn[u] \in open
      BY <1>2, <1>t, <3>1, <3>2, Zenon DEF CloseConn, GoTo, Hold, UserType, poolVars, chkVars, addVars
    <3>3. CASE uconn[u] \notin open
      BY <1>2, <1>t, <3>3, Zenon DEF CloseConn, GoTo, Hold, UserType, poolVars, chkVars, addVars
    <3> QED BY <3>2, <3>3, Zenon
  <2>2. KeptApart'
    BY <2>1, SamePlaces, ZenonT(30) DEF OwnInv, KeptApart
  <2>3. HeldApart'
    BY <1>n, <2>1, SamePlaces, SMTT(30) DEF OwnInv, HeldApart, Holding
  <2>4. VictimsApart'
    BY <1>n, <2>1, SamePlaces DEF OwnInv, VictimsApart, Holding
  <2>5. NoneForgotten'
    BY <2>1, SamePlaces DEF OwnInv, NoneForgotten, Holding
  <2> QED BY <2>2, <2>3, <2>4, <2>5 DEF OwnInv
<1>3. CASE PutRelease(u)
  <2>1. /\ Others /\ UNCHANGED <<ioErr, uconn>> /\ upc[u] = "release" /\ upc'[u] = "uncount"
        /\ victim'[u] = NoConn /\ open' = open \ {victim[u]}
    <3>1. open' = open \ {victim[u]}
      BY <1>3, <1>n, Zenon DEF PutRelease, Kill
    <3> QED BY <1>3, <1>t, <3>1, Zenon DEF PutRelease, GoTo, UserType, chkVars, addVars
  <2>2. uconn[u] \in Conn
    BY <1>t, <2>1, ZenonT(30) DEF UserType
  <2>3. KeptApart'
    BY <1>n, <2>1, SamePlaces, SMTT(30) DEF OwnInv, KeptApart, VictimsApart, Kept
  <2>4. HeldApart'
    BY <1>n, <2>1, <2>2, SamePlaces DEF OwnInv, HeldApart, VictimsApart, Holding
  <2>5. VictimsApart'
    BY <1>n, <2>1, SamePlaces, SMTT(30) DEF OwnInv, VictimsApart, Holding
  <2>6. NoneForgotten'
    BY <2>1, SamePlaces DEF OwnInv, NoneForgotten, Holding
  <2> QED BY <2>3, <2>4, <2>5, <2>6 DEF OwnInv
<1>4. CASE PutUncount(u)
  <2>1. /\ Others /\ UNCHANGED <<victim, open>> /\ upc[u] = "uncount" /\ ioErr' = ioErr \ {u}
        /\ \/ upc'[u] = "using" /\ uconn'[u] = uconn[u] /\ u \in ioErr
           \/ upc'[u] = "out" /\ uconn'[u] = NoConn
    BY <1>4, <1>t, Zenon DEF PutUncount, GoTo, Hold, UserType, chkVars, addVars
  <2>2. KeptApart'
    BY <2>1, SamePlaces, ZenonT(30) DEF OwnInv, KeptApart
  <2>3. HeldApart'
    BY <1>n, <2>1, SamePlaces, SMTT(30) DEF OwnInv, HeldApart, Holding
  <2>4. VictimsApart'
    BY <1>n, <2>1, SamePlaces, SMTT(60) DEF OwnInv, VictimsApart, HeldApart, Holding
  <2>5. NoneForgotten'
    <3>1. \A v \in User : Holding(v) => v # u /\ Holding(v)' /\ uconn'[v] = uconn[v]
      BY <2>1, Zenon DEF Holding
    <3> QED BY <2>1, <3>1, SamePlaces, SMTT(30) DEF OwnInv, NoneForgotten
  <2> QED BY <2>2, <2>3, <2>4, <2>5 DEF OwnInv
<1> QED BY <1>1, <1>2, <1>3, <1>4, Zenon

\* The checker and the top-ups leave the users alone: it is enough that they
\* only keep what they kept or what is new, only close what they kept, and drop
\* nothing that is open.
LEMMA KeepersOwn ==
  ASSUME SizeInv, OwnInv, UNCHANGED userVars, KeptApart',
         \A c \in open : c \notin open' => c \in Kept,
         \A c \in open' : c \in Kept => c \in Kept',
         \A c \in Conn : c \in Kept' \/ c \in open' =>
           \/ c \in open /\ (c \in Kept' => c \in Kept)
           \/ c \in Kept' /\ \A u \in User : uconn[u] # c /\ victim[u] # c,
         open' \subseteq Conn
  PROVE  OwnInv'
<1>n. NoConn \notin open /\ open \subseteq Conn /\ ioErr \subseteq User /\ NoConn \notin open'
  BY NilIsNotOpen, ConstAssumption, Zenon DEF SizeInv, TypeOK, UserType
<1>1. UNCHANGED <<upc, uconn, victim, ioErr>> /\ \A u \in User : Holding(u)' = Holding(u)
  BY Zenon DEF userVars, Holding
<1>2. \A u \in User : Holding(u) /\ uconn[u] \in open => uconn[u] \in open' \ Kept'
  BY <1>n, Zenon DEF OwnInv, HeldApart
<1>3. \A u \in User : victim[u] # NoConn => victim[u] \in open' \ Kept'
  BY <1>n, Zenon DEF OwnInv, VictimsApart
<1>4. \A u \in User : uconn[u] \in open' => uconn[u] \in open
  BY Zenon
<1>5. HeldApart'
  BY <1>n, <1>1, <1>2, <1>4, Zenon DEF OwnInv, HeldApart, Holding
<1>6. VictimsApart'
  BY <1>n, <1>1, <1>3, Zenon DEF OwnInv, VictimsApart
<1>7. NoneForgotten'
  BY <1>1, Zenon DEF OwnInv, NoneForgotten
<1> QED BY <1>5, <1>6, <1>7, Zenon DEF OwnInv

\* addIdleConn: the socket it dialed goes to the list or is closed.
LEMMA AddOwn == ASSUME SizeInv, OwnInv, AddStep PROVE OwnInv'
<1>t. UserType /\ PoolType /\ CheckerType /\ AdderType
  BY Zenon DEF SizeInv, TypeOK
<1>n. NoConn \notin open /\ open \subseteq Conn /\ ioErr \subseteq User
  BY <1>t, NilIsNotOpen, Zenon DEF UserType
<1>1. ASSUME UNCHANGED <<idle, detached, added, cconn, open, userVars>> PROVE OwnInv'
  <2>1. KeptApart'
    BY <1>1, SamePlaces, Zenon DEF OwnInv, KeptApart
  <2>2. open' = open /\ Kept' = Kept /\ (\A c \in Conn : c \in Kept => c \in open)
    BY <1>1, SamePlaces, ConstAssumption, Zenon DEF OwnInv, KeptApart
  <2> QED BY <1>n, <1>1, <2>1, <2>2, KeepersOwn, Zenon
<1>2. CASE FirstTopUp \/ AddStart \/ AddFails
  BY <1>1, <1>2, Zenon DEF FirstTopUp, AddStart, AddFails, poolVars, chkVars
<1>3. CASE AddDial
  <2>1. UNCHANGED <<idle, detached, cconn, userVars>>
    BY <1>3, Zenon DEF AddDial, poolVars, chkVars
  <2>2. CASE MoveAdder("dial", "fail") /\ UNCHANGED <<open, added>>
    BY <1>1, <2>1, <2>2, Zenon
  <2>3. ASSUME NEW c \in Conn, Fresh(c), Born(c), added' = added \cup {c} PROVE OwnInv'
    <3>1. /\ c \notin Kept /\ c \notin Listed \cup Detached \cup {cconn}
          /\ \A u \in User : uconn[u] \notin {c} /\ victim[u] \notin {c}
      BY <2>3, Zenon DEF Fresh, Referenced, Kept
    <3>2. /\ Listed' = Listed /\ Detached' = Detached
          /\ NoDup(idle)' = NoDup(idle) /\ NoDup(detached)' = NoDup(detached)
      BY <2>1, Zenon DEF Listed, Detached, Elems, NoDup
    <3>3. Kept' = Kept \cup {c} /\ open' = open \cup {c}
      BY <2>1, <2>3, <3>2, Zenon DEF Kept, Born
    <3>4. KeptApart'
      BY <2>1, <2>3, <3>1, <3>2, <3>3, Zenon DEF OwnInv, KeptApart
    <3>5. \A x \in Conn : x \in Kept => x \in open
      BY ConstAssumption, Zenon DEF OwnInv, KeptApart
    <3> QED BY <1>n, <2>1, <3>1, <3>3, <3>4, <3>5, KeepersOwn, Zenon
  <2> QED BY <1>3, <2>2, <2>3, Zenon DEF AddDial
<1>4. ASSUME NEW c \in Conn, AddList(c) PROVE OwnInv'
  <2>1. UNCHANGED <<detached, cconn, userVars>> /\ c \in added /\ added' = added \ {c}
    BY <1>4, Zenon DEF AddList, chkVars
  <2>2. Detached' = Detached /\ NoDup(detached)' = NoDup(detached)
    BY <2>1, Zenon DEF Detached, Elems, NoDup
  <2>3. c \in Kept /\ c \notin Listed \cup Detached \cup {cconn} /\ c \in open
    BY <2>1, ConstAssumption, Zenon DEF OwnInv, KeptApart, Kept
  <2>4. CASE closed
    <3>1. open' = open \ {c} /\ idle' = idle
      BY <1>4, <2>4, Zenon DEF AddList, Kill
    <3>2. Listed' = Listed /\ NoDup(idle)' = NoDup(idle)
      BY <3>1, Zenon DEF Listed, Elems, NoDup
    <3>3. Kept' = Kept \ {c}
      BY <2>1, <2>2, <2>3, <3>2, Zenon DEF Kept
    <3>4. KeptApart'
      BY <2>1, <2>2, <2>3, <3>1, <3>2, <3>3, Zenon DEF OwnInv, KeptApart
    <3>5. \A x \in Conn : x \in Kept => x \in open
      BY ConstAssumption DEF OwnInv, KeptApart
    <3> QED BY <1>n, <2>1, <2>3, <3>1, <3>3, <3>4, <3>5, KeepersOwn, Zenon
  <2>5. CASE ~closed
    <3>1. open' = open /\ idle' = Push(idle, c)
      BY <1>4, <2>5, Zenon DEF AddList
    <3>2. Listed' = Listed \cup {c} /\ NoDup(idle')
      <4>1. idle \in Seq(Conn) /\ NoDup(idle) /\ c \notin Elems(idle)
        BY <1>t, <2>3, Zenon DEF PoolType, OwnInv, KeptApart, Listed
      <4>2. idle' = Append(idle, c) \/ idle' = <<c>> \o idle
        BY <3>1, Zenon DEF Push
      <4> QED BY <4>1, <4>2, PushElems, Zenon DEF Listed
    <3>3. Kept' = Kept
      BY <2>1, <2>2, <3>2, Zenon DEF Kept
    <3>4. KeptApart'
      BY <2>1, <2>2, <2>3, <3>1, <3>2, <3>3, Zenon DEF OwnInv, KeptApart
    <3>5. \A x \in Conn : x \in Kept => x \in open
      BY ConstAssumption DEF OwnInv, KeptApart
    <3> QED BY <1>n, <2>1, <3>1, <3>3, <3>4, <3>5, KeepersOwn, Zenon
  <2> QED BY <2>4, <2>5, Zenon
<1> QED BY <1>2, <1>3, <1>4, Zenon DEF AddStep

\* One turn of checkHealthOnce: l is the list with the connection just probed
\* back in it, or closed and gone.
LEMMA LoopOwn ==
  ASSUME SizeInv, OwnInv, UNCHANGED <<userVars, detached, added>>,
         NEW l \in Seq(Conn), NEW s, NEW n, HealthLoop(l, s, n), NoDup(l),
         Elems(l) \subseteq Listed \cup {cconn},
         open' \subseteq open, Listed \subseteq Elems(l),
         open \ open' = ({cconn} \ {NoConn}) \ Elems(l)
  PROVE  OwnInv'
<1>t. UserType /\ PoolType /\ CheckerType /\ AdderType
  BY Zenon DEF SizeInv, TypeOK
<1>n. NoConn \notin open /\ open \subseteq Conn
  BY NilIsNotOpen, Zenon
<1>c. NoConn \notin Conn /\ NoConn \notin Elems(l)
  BY ConstAssumption, ListType, Zenon DEF Elems
<1>1. Detached' = Detached /\ NoDup(detached)' = NoDup(detached) /\ added' = added
  BY DEF Detached, Elems, NoDup
<1>2. /\ NoDup(idle') /\ Listed' \cup {cconn'} \cup {NoConn} = Elems(l) \cup {NoConn}
      /\ cconn' \notin Listed' /\ Listed' \subseteq Elems(l) /\ cconn' \in Elems(l) \cup {NoConn}
  <2>1. CASE n > 0 /\ l # <<>>
    <3>1. cconn' = Head(l) /\ idle' = Tail(l)
      BY <2>1, Zenon DEF HealthLoop
    <3>2. Head(l) \in Elems(l) /\ Elems(Tail(l)) = Elems(l) \ {Head(l)} /\ NoDup(Tail(l))
      BY <2>1, TailElems, Zenon
    <3> QED BY <1>c, <3>1, <3>2, Zenon DEF Listed
  <2>2. CASE ~(n > 0 /\ l # <<>>)
    <3>1. cconn' = NoConn /\ idle' = l
      BY <2>2, Zenon DEF HealthLoop
    <3> QED BY <1>c, <3>1, Zenon DEF Listed
  <2> QED BY <2>1, <2>2, Zenon
<1>3. /\ Elems(l) \cap (Detached \cup added) = {} /\ Elems(l) \subseteq open'
      /\ Detached \cup added \subseteq open' /\ NoConn \notin Detached \cup added
  <2>1. NoConn \notin Detached \cup added
    BY <1>t, ConstAssumption, ListType, Zenon DEF Detached, Elems, CheckerType, AdderType
  <2> QED BY <1>c, <2>1 DEF OwnInv, KeptApart, Kept
<1>4. KeptApart'
  BY <1>1, <1>2, <1>3, Zenon DEF OwnInv, KeptApart, Kept
<1>5. \A c \in Conn : (c \in Kept' <=> c \in Kept /\ c \in open') /\ (c \in Kept => c \in open)
  BY <1>c, <1>1, <1>2, <1>3, Zenon DEF OwnInv, KeptApart, Kept
<1>6. \A c \in open : c \notin open' => c \in Kept
  BY Zenon DEF Kept
<1> QED BY <1>n, <1>4, <1>5, <1>6, KeepersOwn, Zenon

\* The checker and Close: what they take out of the list they give back or close.
LEMMA CheckOwn == ASSUME SizeInv, OwnInv, CheckStep PROVE OwnInv'
<1>t. UserType /\ PoolType /\ CheckerType /\ AdderType
  BY DEF SizeInv, TypeOK
<1>n. NoConn \notin open /\ open \subseteq Conn
  BY NilIsNotOpen, Zenon
<1>k. /\ \A x \in Conn : x \in Kept => x \in open
      /\ NoDup(idle) /\ idle \in Seq(Conn) /\ Listed = Elems(idle)
  BY <1>t, ConstAssumption, Zenon DEF OwnInv, KeptApart, PoolType, Listed
<1>1. ASSUME UNCHANGED <<idle, detached, added, cconn, open, userVars>> PROVE OwnInv'
  <2>1. KeptApart'
    BY <1>1, SamePlaces DEF OwnInv, KeptApart
  <2>2. open' = open /\ Kept' = Kept
    BY <1>1, SamePlaces, Zenon
  <2> QED BY <1>n, <1>k, <1>1, <2>1, <2>2, KeepersOwn, Zenon
<1>2. CASE CheckWake \/ CheckTimeout \/ CheckUnregister \/ CheckMinIdle
  BY <1>1, <1>2, Zenon DEF CheckWake, CheckTimeout, CheckUnregister, CheckMinIdle, poolVars, addVars
<1>3. CASE CheckHealth
  <2>1. cconn = NoConn /\ UNCHANGED <<userVars, detached, added, open>>
    BY <1>3, <1>t, Zenon DEF CheckHealth, CheckerType, addVars
  <2>2. HealthLoop(idle, idleSize, Len(idle))
    BY <1>3, Zenon DEF CheckHealth
  <2> QED BY <1>k, <2>1, <2>2, LoopOwn, Zenon
<1>4. CASE CheckPasses
  <2> DEFINE l == Append(idle, cconn)
  <2>1. cconn \in Conn /\ UNCHANGED <<userVars, detached, added, open>>
    BY <1>4, <1>t, Zenon DEF CheckPasses, CheckerType, addVars
  <2>2. HealthLoop(l, idleSize + 1, cleft)
    BY <1>4, Zenon DEF CheckPasses
  <2>3. l \in Seq(Conn) /\ Elems(l) = Listed \cup {cconn} /\ NoDup(l)
    <3>1. cconn \notin Elems(idle)
      BY <1>k, Zenon DEF OwnInv, KeptApart
    <3> QED BY <1>k, <2>1, <3>1, PushElems, Zenon
  <2> HIDE DEF l
  <2> QED BY <2>1, <2>2, <2>3, LoopOwn, Zenon
<1>5. CASE CheckKills
  <2>1. cconn \in Conn /\ UNCHANGED <<userVars, detached, added>> /\ open' = open \ {cconn}
    BY <1>5, <1>t, Zenon DEF CheckKills, CheckerType, addVars, Kill
  <2>2. HealthLoop(idle, idleSize, cleft)
    BY <1>5, Zenon DEF CheckKills
  <2>3. cconn \in open /\ cconn \notin Listed /\ cconn # NoConn
    BY <1>k, <2>1, ConstAssumption, Zenon DEF OwnInv, KeptApart, Kept
  <2> QED BY <1>k, <2>1, <2>2, <2>3, LoopOwn, Zenon
<1>6. CASE CloseLocked
  <2>1. /\ UNCHANGED <<userVars, added, open, cconn>> /\ idle' = <<>> /\ detached' = idle
        /\ cpc = "close"
    BY <1>6, Zenon DEF CloseLocked, addVars
  <2>2. Listed' = {} /\ Detached' = Listed /\ NoDup(idle') /\ NoDup(detached')
    BY <1>k, <2>1 DEF Listed, Detached, Elems, NoDup
  <2>3. Detached = {}
    BY <1>t, <2>1 DEF CheckerType, Detached, Elems
  <2>4. Kept' = Kept
    BY <2>1, <2>2, <2>3, Zenon DEF Kept
  <2>5. KeptApart'
    BY <2>1, <2>2, <2>3, <2>4, Zenon DEF OwnInv, KeptApart
  <2> QED BY <1>n, <1>k, <2>1, <2>4, <2>5, KeepersOwn, Zenon
<1>7. CASE CloseWalk
  <2>1. UNCHANGED <<userVars, idle, added, cconn>>
    BY <1>7, Zenon DEF CloseWalk, poolVars, addVars
  <2>2. CASE detached = <<>>
    BY <1>1, <1>7, <2>1, <2>2, Zenon DEF CloseWalk
  <2>3. CASE detached # <<>>
    <3> DEFINE c == Head(detached)
    <3>1. open' = open \ {c} /\ detached' = Tail(detached)
      BY <1>7, <2>3, Zenon DEF CloseWalk, Kill
    <3>2. /\ c \in Detached /\ Detached' = Detached \ {c} /\ NoDup(detached')
          /\ Listed' = Listed /\ NoDup(idle)' = NoDup(idle)
      <4>1. NoDup(detached) /\ detached \in Seq(Conn)
        BY <1>t, Zenon DEF OwnInv, KeptApart, CheckerType
      <4>2. /\ c \in Elems(detached) /\ Elems(detached') = Elems(detached) \ {c}
            /\ NoDup(detached')
        BY <2>3, <3>1, <4>1, TailElems, Zenon
      <4>3. Listed' = Listed /\ NoDup(idle)' = NoDup(idle)
        BY <2>1, Zenon DEF Listed, Elems, NoDup
      <4> QED BY <4>2, <4>3, Zenon DEF Detached
    <3> HIDE DEF c
    <3>3. c \in Kept /\ c \notin Listed \cup added \cup {cconn} /\ Kept' = Kept \ {c}
      BY <2>1, <3>2, Zenon DEF Kept, OwnInv, KeptApart
    <3>4. KeptApart'
      BY <2>1, <3>1, <3>2, <3>3, Zenon DEF OwnInv, KeptApart
    <3> QED BY <1>n, <1>k, <2>1, <3>1, <3>3, <3>4, KeepersOwn, Zenon
  <2> QED BY <2>2, <2>3, Zenon
<1> QED BY <1>2, <1>3, <1>4, <1>5, <1>6, <1>7, Zenon DEF CheckStep

\* The steps of a user.
LEMMA UserOwn == ASSUME SizeInv, OwnInv, NEW u \in User, UserStep(u) PROVE OwnInv'
<1>1. CASE Lookup(u) \/ GetTokenFails(u) \/ NewConn(u)
  BY <1>1, EmptyHanded, Zenon DEF Lookup, GetTokenFails, NewConn, UserPC, poolVars, chkVars, addVars
<1>2. CASE AcquireToken(u) \/ CountUsed(u) \/ GetFails(u)
  BY <1>2, EmptyHanded, Zenon DEF AcquireToken, CountUsed, GetFails, UserPC, chkVars, addVars
<1> QED BY <1>1, <1>2, GetOwn, PutOwn, ReturnOwn, Zenon DEF UserStep, GetStep, PutStep

\* A pool that pool.Get has just created owns no connection.
LEMMA InitOwn == Init => OwnInv
<1> SUFFICES ASSUME Init PROVE OwnInv
  BY Zenon
<1>1. Listed = {} /\ Detached = {} /\ NoDup(idle) /\ NoDup(detached)
  BY DEF Init, Listed, Detached, Elems, NoDup
<1>2. KeptApart
  BY <1>1, Zenon DEF Init, KeptApart, Kept
<1>3. \A u \in User : upc[u] = "out" /\ victim[u] = NoConn
  BY Zenon DEF Init
<1> QED BY <1>2, <1>3, Zenon DEF OwnInv, Init, HeldApart, VictimsApart, NoneForgotten, Holding

\* Each connection of the pool has one owner at every moment.
LEMMA StepOwn == SizeInv /\ OwnInv /\ [Next]_vars => OwnInv'
<1> SUFFICES ASSUME SizeInv, OwnInv, [Next]_vars PROVE OwnInv'
  BY Zenon
<1>1. CASE TimePasses \/ UNCHANGED vars
  <2>1. UNCHANGED <<idle, detached, added, cconn, open, userVars>>
    BY <1>1, Zenon DEF TimePasses, vars, poolVars, chkVars, addVars
  <2>2. KeptApart' /\ Kept' = Kept
    BY <2>1, SamePlaces, Zenon DEF OwnInv, KeptApart
  <2>3. (\A x \in Conn : x \in Kept => x \in open) /\ open \subseteq Conn
    BY ConstAssumption, NilIsNotOpen, Zenon DEF OwnInv, KeptApart
  <2> QED BY <2>1, <2>2, <2>3, KeepersOwn, Zenon
<1> QED BY <1>1, UserOwn, AddOwn, CheckOwn, Zenon DEF Next
============================================================================

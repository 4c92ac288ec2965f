--------------------------- MODULE ConnPoolProofs ---------------------------
(***************************************************************************)
(* The size of ConnPool's idle list, its tokens and its counter of         *)
(* connections in use, and with ConnPoolOwnership the inductive invariant. *)
(***************************************************************************)
EXTENDS ConnPoolOwnership, FiniteSetTheorems

\* A pool that pool.Get has just created satisfies the invariant.
LEMMA InitSizeInv == Init => SizeInv
<1> SUFFICES ASSUME Init PROVE SizeInv
  BY Zenon
<1>1. TypeOK
  <2>1. closed \in BOOLEAN /\ registered \in BOOLEAN /\ topUp \in BOOLEAN
    BY Zenon DEF Init
  <2> QED BY <2>1, FS_EmptySet, ConstAssumption
          DEF Init, TypeOK, PoolType, UserType, CheckerType, AdderType, UserPC, CheckerPC
<1>2. Pending = 0
  BY FS_EmptySet DEF Init, Pending
<1> QED
  BY <1>1, <1>2, ConstAssumption DEF Init, SizeInv, SizeAccounted, IdleBounded, Probing, IdleLimit

\* The number of top-ups under way, and how it changes with the dialed set.
LEMMA PendingType ==
  ASSUME AdderType
  PROVE  /\ Pending \in Nat /\ Cardinality(added) \in Nat
         /\ \A c \in Conn : c \notin added =>
              /\ IsFiniteSet(added \cup {c})
              /\ Cardinality(added \cup {c}) = Cardinality(added) + 1
         /\ \A c \in added : /\ IsFiniteSet(added \ {c})
                             /\ Cardinality(added \ {c}) = Cardinality(added) - 1
<1>1. Cardinality(added) \in Nat
  BY FS_CardinalityType, Zenon DEF AdderType
<1> QED
  BY <1>1, FS_AddElement, FS_RemoveElement DEF AdderType, Pending

\* Arithmetic behind the bound on the idle list.
LEMMA SlackArith ==
  ASSUME NEW size \in Int, NEW new \in Int, NEW min \in Nat, NEW max \in Nat,
         NEW limit \in Nat, NEW p \in {0, 1}, limit >= min, limit >= max,
         size + p <= limit + 1, new <= size \/ new <= max \/ new <= min
  PROVE  new + p <= limit + 1
  OBVIOUS

\* What a step has to show when it leaves the checker and the flags alone:
\* types, and idleSize moving with the list and the pending top-ups.
LEMMA Accounts ==
  ASSUME SizeInv, TypeOK', UNCHANGED <<closed, registered, cpc>>,
         closed => idle' = <<>>,
         ~closed => /\ idleSize' - idleSize = (Len(idle') + Pending') - (Len(idle) + Pending)
                    /\ idleSize' <= idleSize \/ idleSize' <= MaxIdle \/ idleSize' <= MinIdle
  PROVE  SizeInv'
<1>1. /\ Len(idle) \in Nat /\ Len(idle') \in Nat /\ Pending \in Nat /\ Pending' \in Nat
      /\ idleSize \in Int /\ idleSize' \in Int /\ MinIdle \in Nat /\ MaxIdle \in Nat
  <2>1. Pending \in Nat
    BY PendingType, Zenon DEF SizeInv, TypeOK
  <2>2. Pending' \in Nat
    <3>1. Cardinality(added') \in Nat
      BY FS_CardinalityType, Zenon DEF TypeOK, AdderType
    <3> QED BY <3>1 DEF TypeOK, AdderType, Pending
  <2> QED BY <2>1, <2>2, ListType, ConstAssumption, Zenon DEF SizeInv, TypeOK, PoolType
<1>2. SizeAccounted'
  BY <1>1, SMTT(30) DEF SizeInv, SizeAccounted
<1>3. IdleBounded'
  <2>1. Probing' = Probing /\ Probing \in {0, 1}
    BY Zenon DEF Probing
  <2>2. IdleLimit \in Nat /\ IdleLimit >= MinIdle /\ IdleLimit >= MaxIdle
    BY <1>1 DEF IdleLimit
  <2>3. CASE closed
    BY <2>3, Zenon DEF IdleBounded
  <2>4. CASE ~closed
    <3>1. idleSize + Probing <= IdleLimit + 1
      BY <2>4, Zenon DEF SizeInv, IdleBounded
    <3>2. idleSize' <= idleSize \/ idleSize' <= MaxIdle \/ idleSize' <= MinIdle
      BY <2>4, Zenon
    <3>3. idleSize' + Probing' <= IdleLimit + 1
      BY <1>1, <2>1, <2>2, <3>1, <3>2, SlackArith, Zenon
    <3> QED BY <3>3, Zenon DEF IdleBounded
  <2> QED BY <2>3, <2>4, Zenon
<1> QED
  BY <1>2, <1>3, Zenon DEF SizeInv

\* A step that leaves the list, its size, the flags, the checker's place and
\* the top-ups alone only has to preserve the types.
LEMMA Quiet ==
  ASSUME SizeInv, TypeOK', UNCHANGED <<closed, registered, idle, idleSize, cpc, adding, added>>
  PROVE  SizeInv'
<1>1. Pending' = Pending
  BY Zenon DEF Pending
<1>2. SizeAccounted'
  BY <1>1, Zenon DEF SizeInv, SizeAccounted
<1>3. IdleBounded'
  BY Zenon DEF SizeInv, IdleBounded, Probing
<1> QED
  BY <1>2, <1>3, Zenon DEF SizeInv

\* The steps of Get and put: all but popping and listing are quiet.
LEMMA UserSizeInv == ASSUME SizeInv, NEW u \in User, UserStep(u) PROVE SizeInv'
<1> USE DEF GoTo, Hold, Kill, Born, FreeToken
<1>t. PoolType /\ UserType /\ CheckerType /\ AdderType
  BY Zenon DEF SizeInv, TypeOK
<1>p. Pending \in Nat /\ Len(idle) \in Nat
  BY <1>t, PendingType, ListType, Zenon DEF PoolType
<1>1. CASE Lookup(u)
  <2>1. PoolType'
    BY <1>1, <1>t, ConstAssumption, Zenon DEF Lookup, PoolType, UserType, poolVars, Referenced, Fresh
  <2>2. UserType'
    BY <1>1, <1>t, Zenon DEF Lookup, UserType, UserPC, Fresh
  <2>3. CheckerType' /\ AdderType'
    BY <1>1, <1>t, Zenon DEF Lookup, CheckerType, AdderType, chkVars, addVars
  <2> QED BY <1>1, <2>1, <2>2, <2>3, Quiet, Zenon DEF Lookup, TypeOK, poolVars, chkVars, addVars
<1>2. CASE AcquireToken(u)
  <2>1. PoolType'
    BY <1>2, <1>t, ConstAssumption DEF AcquireToken, PoolType, UserType, poolVars, Referenced, Fresh
  <2>2. UserType'
    BY <1>2, <1>t, Zenon DEF AcquireToken, UserType, UserPC, Fresh
  <2>3. CheckerType' /\ AdderType'
    BY <1>2, <1>t, Zenon DEF AcquireToken, CheckerType, AdderType, chkVars, addVars
  <2> QED BY <1>2, <2>1, <2>2, <2>3, Quiet, Zenon DEF AcquireToken, TypeOK, poolVars, chkVars, addVars
<1>3. CASE GetTokenFails(u)
  <2>1. PoolType'
    BY <1>3, <1>t, ConstAssumption, Zenon DEF GetTokenFails, PoolType, UserType, poolVars, Referenced, Fresh
  <2>2. UserType'
    BY <1>3, <1>t, Zenon DEF GetTokenFails, UserType, UserPC, Fresh
  <2>3. CheckerType' /\ AdderType'
    BY <1>3, <1>t, Zenon DEF GetTokenFails, CheckerType, AdderType, chkVars, addVars
  <2> QED BY <1>3, <2>1, <2>2, <2>3, Quiet, Zenon DEF GetTokenFails, TypeOK, poolVars, chkVars, addVars
<1>4. CASE CountUsed(u)
  <2>1. PoolType'
    BY <1>4, <1>t, ConstAssumption DEF CountUsed, PoolType, UserType, poolVars, Referenced, Fresh
  <2>2. UserType'
    BY <1>4, <1>t, Zenon DEF CountUsed, UserType, UserPC, Fresh
  <2>3. CheckerType' /\ AdderType'
    BY <1>4, <1>t, Zenon DEF CountUsed, CheckerType, AdderType, chkVars, addVars
  <2> QED BY <1>4, <2>1, <2>2, <2>3, Quiet, Zenon DEF CountUsed, TypeOK, poolVars, chkVars, addVars
<1>5. CASE FastCheck(u)
  <2>1. PoolType'
    BY <1>5, <1>t, ConstAssumption, Zenon DEF FastCheck, PoolType, UserType, poolVars, Referenced, Fresh
  <2>2. UserType'
    BY <1>5, <1>t, Zenon DEF FastCheck, UserType, UserPC, Fresh
  <2>3. CheckerType' /\ AdderType'
    BY <1>5, <1>t, Zenon DEF FastCheck, CheckerType, AdderType, chkVars, addVars
  <2> QED BY <1>5, <2>1, <2>2, <2>3, Quiet, Zenon DEF FastCheck, TypeOK, poolVars, chkVars, addVars
<1>6. CASE NewConn(u)
  <2>1. PoolType'
    BY <1>6, <1>t, ConstAssumption, Zenon DEF NewConn, PoolType, UserType, poolVars, Referenced, Fresh
  <2>2. UserType'
    BY <1>6, <1>t, Zenon DEF NewConn, UserType, UserPC, Fresh
  <2>3. CheckerType' /\ AdderType'
    BY <1>6, <1>t, Zenon DEF NewConn, CheckerType, AdderType, chkVars, addVars
  <2> QED BY <1>6, <2>1, <2>2, <2>3, Quiet, Zenon DEF NewConn, TypeOK, poolVars, chkVars, addVars
<1>7. CASE DialForUser(u)
  <2>1. PoolType'
    BY <1>7, <1>t, ConstAssumption, Zenon DEF DialForUser, PoolType, UserType, poolVars, Referenced, Fresh
  <2>2. UserType'
    BY <1>7, <1>t DEF DialForUser, UserType, UserPC, Fresh
  <2>3. CheckerType' /\ AdderType'
    BY <1>7, <1>t, Zenon DEF DialForUser, CheckerType, AdderType, chkVars, addVars
  <2> QED BY <1>7, <2>1, <2>2, <2>3, Quiet, Zenon DEF DialForUser, TypeOK, poolVars, chkVars, addVars
<1>8. CASE GetFails(u)
  <2>1. PoolType'
    BY <1>8, <1>t, ConstAssumption DEF GetFails, PoolType, UserType, poolVars, Referenced, Fresh
  <2>2. UserType'
    BY <1>8, <1>t, Zenon DEF GetFails, UserType, UserPC, Fresh
  <2>3. CheckerType' /\ AdderType'
    BY <1>8, <1>t, Zenon DEF GetFails, CheckerType, AdderType, chkVars, addVars
  <2> QED BY <1>8, <2>1, <2>2, <2>3, Quiet, Zenon DEF GetFails, TypeOK, poolVars, chkVars, addVars
<1>9. CASE IOFails(u)
  <2>1. PoolType'
    BY <1>9, <1>t, ConstAssumption, Zenon DEF IOFails, PoolType, UserType, poolVars, Referenced, Fresh
  <2>2. UserType'
    BY <1>9, <1>t, Zenon DEF IOFails, UserType, UserPC, Fresh
  <2>3. CheckerType' /\ AdderType'
    BY <1>9, <1>t, Zenon DEF IOFails, CheckerType, AdderType, chkVars, addVars
  <2> QED BY <1>9, <2>1, <2>2, <2>3, Quiet, Zenon DEF IOFails, TypeOK, poolVars, chkVars, addVars
<1>10. CASE CloseConn(u)
  <2>1. PoolType'
    BY <1>10, <1>t, ConstAssumption, Zenon DEF CloseConn, PoolType, UserType, poolVars, Referenced, Fresh
  <2>2. UserType'
    BY <1>10, <1>t DEF CloseConn, UserType, UserPC, Fresh
  <2>3. CheckerType' /\ AdderType'
    BY <1>10, <1>t, Zenon DEF CloseConn, CheckerType, AdderType, chkVars, addVars
  <2> QED BY <1>10, <2>1, <2>2, <2>3, Quiet, Zenon DEF CloseConn, TypeOK, poolVars, chkVars, addVars
<1>11. CASE PutRelease(u)
  <2>1. PoolType'
    BY <1>11, <1>t, ConstAssumption DEF PutRelease, PoolType, UserType, poolVars, Referenced, Fresh
  <2>2. UserType'
    BY <1>11, <1>t, Zenon DEF PutRelease, UserType, UserPC, Fresh
  <2>3. CheckerType' /\ AdderType'
    BY <1>11, <1>t, Zenon DEF PutRelease, CheckerType, AdderType, chkVars, addVars
  <2> QED BY <1>11, <2>1, <2>2, <2>3, Quiet, Zenon DEF PutRelease, TypeOK, poolVars, chkVars, addVars
<1>12. CASE PutUncount(u)
  <2>1. PoolType'
    BY <1>12, <1>t, ConstAssumption DEF PutUncount, PoolType, UserType, poolVars, Referenced, Fresh
  <2>2. UserType'
    BY <1>12, <1>t DEF PutUncount, UserType, UserPC, Fresh
  <2>3. CheckerType' /\ AdderType'
    BY <1>12, <1>t, Zenon DEF PutUncount, CheckerType, AdderType, chkVars, addVars
  <2> QED BY <1>12, <2>1, <2>2, <2>3, Quiet, Zenon DEF PutUncount, TypeOK, poolVars, chkVars, addVars
<1>13. CASE PopIdle(u)
  <2>3. CheckerType' /\ AdderType' /\ Pending' = Pending
    BY <1>13, <1>t, Zenon DEF PopIdle, CheckerType, AdderType, chkVars, addVars, Pending
  <2>4. CASE idle = <<>>
    <3>1. PoolType' /\ UserType'
      BY <1>13, <1>t, <2>4, Zenon DEF PopIdle, PoolType, UserType, UserPC
    <3> QED BY <1>13, <2>3, <2>4, <3>1, Quiet, Zenon DEF PopIdle, TypeOK, chkVars, addVars
  <2>5. CASE idle # <<>>
    <3>1. /\ Head(idle) \in Conn /\ idle' \in Seq(Conn) /\ Len(idle') = Len(idle) - 1
          /\ idleSize' = idleSize - 1
      BY <1>13, <1>t, <2>5, TailType, Zenon DEF PopIdle, PoolType
    <3>2. PoolType' /\ UserType'
      <4>1. PoolType'
        BY <1>13, <1>t, <3>1 DEF PopIdle, PoolType
      <4>2. /\ upc' = [upc EXCEPT ![u] = "fast"] /\ uconn' = [uconn EXCEPT ![u] = Head(idle)]
            /\ UNCHANGED <<ioErr, victim>>
        BY <1>13, <2>5, Zenon DEF PopIdle
      <4>3. UserType'
        BY <1>t, <3>1, <4>2, Zenon DEF UserType, UserPC
      <4> QED BY <4>1, <4>3, Zenon
    <3>3. ~closed /\ UNCHANGED <<closed, registered, cpc>>
      BY <1>13, <2>5, Zenon DEF PopIdle, SizeInv, chkVars
    <3>4. idleSize' <= idleSize
      BY <1>t, <3>1 DEF PoolType
    <3>5. idleSize' - idleSize = (Len(idle') + Pending') - (Len(idle) + Pending)
      BY <1>t, <1>p, <2>3, <3>1 DEF PoolType
    <3> QED BY <2>3, <3>2, <3>3, <3>4, <3>5, Accounts, Zenon DEF TypeOK
  <2> QED BY <2>4, <2>5, Zenon
<1>14. CASE PutLocked(u)
  <2>3. /\ CheckerType' /\ AdderType' /\ Pending' = Pending
        /\ UNCHANGED <<closed, registered, cpc, adding, added>>
    BY <1>14, <1>t, Zenon DEF PutLocked, CheckerType, AdderType, chkVars, addVars, Pending
  <2>4. CASE closed \/ ForceClose \/ u \in ioErr
    <3>1. PoolType' /\ UserType' /\ UNCHANGED <<idle, idleSize>>
      BY <1>14, <1>t, <2>4, Zenon DEF PutLocked, PoolType, UserType, UserPC
    <3> QED BY <2>3, <3>1, Quiet, Zenon DEF TypeOK
  <2>5. CASE ~(closed \/ ForceClose \/ u \in ioErr) /\ uconn[u] \in Conn
    <3> DEFINE l == Push(idle, uconn[u])
    <3>1. l \in Seq(Conn) /\ Len(l) = Len(idle) + 1
      BY <1>t, <2>5, PushType, Zenon DEF PoolType
    <3> HIDE DEF l
    <3>2. Front(l) \in Seq(Conn) /\ Len(Front(l)) = Len(idle) /\ Last(l) \in Conn
      BY <1>p, <3>1, FrontType
    <3>3. CASE idleSize >= MaxIdle
      <4>1. /\ idle' = Front(l) /\ idleSize' = idleSize
            /\ victim' = [victim EXCEPT ![u] = Last(l)]
        BY <1>14, <2>5, <3>3, Zenon DEF PutLocked, l
      <4>2. PoolType' /\ UserType'
        BY <1>14, <1>t, <3>2, <4>1, Zenon DEF PutLocked, PoolType, UserType, UserPC
      <4>3. /\ idleSize' - idleSize = (Len(idle') + Pending') - (Len(idle) + Pending)
            /\ idleSize' <= idleSize
        BY <1>t, <1>p, <2>3, <3>2, <4>1 DEF PoolType
      <4> QED BY <2>3, <2>5, <4>2, <4>3, Accounts, Zenon DEF TypeOK
    <3>4. CASE ~(idleSize >= MaxIdle)
      <4>1. idle' = l /\ idleSize' = idleSize + 1 /\ victim' = victim
        BY <1>14, <2>5, <3>4, Zenon DEF PutLocked, l
      <4>2. PoolType' /\ UserType'
        BY <1>14, <1>t, <3>1, <4>1 DEF PutLocked, PoolType, UserType, UserPC
      <4>3. /\ idleSize' - idleSize = (Len(idle') + Pending') - (Len(idle) + Pending)
            /\ idleSize' <= MaxIdle
        BY <1>t, <1>p, <2>3, <3>1, <3>4, <4>1, ConstAssumption DEF PoolType
      <4> QED BY <2>3, <2>5, <4>2, <4>3, Accounts, Zenon DEF TypeOK
    <3> QED BY <3>3, <3>4, Zenon
  <2>6. uconn[u] \in Conn
    BY <1>14, <1>t, Zenon DEF PutLocked, UserType
  <2> QED BY <2>4, <2>5, <2>6, Zenon
<1> QED
  BY <1>1, <1>2, <1>3, <1>4, <1>5, <1>6, <1>7, <1>8, <1>9, <1>10, <1>11, <1>12, <1>13, <1>14, Zenon DEF UserStep, GetStep, PutStep

\* keepMinIdles raises idleSize by as many as it starts goroutines.
ReserveAccounted ==
  /\ idleSize' - idleSize = Pending' - Pending
  /\ idleSize' <= idleSize \/ idleSize' <= MinIdle

\* keepMinIdles reserves in idleSize what it is going to dial.
LEMMA Reserve ==
  ASSUME SizeInv, KeepMinIdles, UNCHANGED added
  PROVE  /\ adding' \in [{"start", "dial", "fail"} -> Nat]
         /\ idleSize' \in Int /\ ReserveAccounted
<1>t. PoolType /\ AdderType
  BY Zenon DEF SizeInv, TypeOK
<1>p. Pending \in Nat /\ Cardinality(added) \in Nat /\ idleSize \in Int /\ MinIdle \in Nat
  BY <1>t, PendingType, ConstAssumption, Zenon DEF PoolType
<1>1. CASE MinIdle - idleSize > 0
  <2>1. /\ idleSize' = MinIdle
        /\ adding' = [adding EXCEPT !["start"] = @ + (MinIdle - idleSize)]
    BY <1>1, Zenon DEF KeepMinIdles
  <2>2. Pending' = Pending + (MinIdle - idleSize)
    BY <1>t, <1>p, <1>1, <2>1 DEF AdderType, Pending
  <2> QED BY <1>t, <1>p, <1>1, <2>1, <2>2 DEF AdderType, ReserveAccounted
<1>2. CASE ~(MinIdle - idleSize > 0)
  <2>1. UNCHANGED <<idleSize, adding>>
    BY <1>2, Zenon DEF KeepMinIdles
  <2> QED BY <1>t, <1>p, <2>1 DEF AdderType, ReserveAccounted, Pending
<1> QED BY <1>1, <1>2, Zenon

\* An addIdleConn goroutine moving on is still pending.
LEMMA Moved ==
  ASSUME AdderType, NEW from \in {"start", "dial"}, NEW to \in {"dial", "fail"}, from # to,
         adding[from] > 0, MoveAdder(from, to), UNCHANGED <<topUp, added>>
  PROVE  AdderType' /\ Pending' = Pending
<1>1. /\ adding["start"] \in Nat /\ adding["dial"] \in Nat /\ adding["fail"] \in Nat
      /\ adding[from] \in Nat /\ adding[to] \in Nat
  BY Zenon DEF AdderType
<1>2. /\ adding' \in [{"start", "dial", "fail"} -> Nat]
      /\ adding'[from] = adding[from] - 1 /\ adding'[to] = adding[to] + 1
      /\ \A s \in {"start", "dial", "fail"} : s # from /\ s # to => adding'[s] = adding[s]
  BY <1>1 DEF AdderType, MoveAdder
<1>3. Cardinality(added) \in Nat
  BY PendingType, Zenon
<1>4. adding'["start"] + adding'["dial"] + adding'["fail"]
        = adding["start"] + adding["dial"] + adding["fail"]
  <2>1. CASE from = "start" /\ to = "dial"
    BY <1>1, <1>2, <2>1
  <2>2. CASE from = "start" /\ to = "fail"
    BY <1>1, <1>2, <2>2
  <2>3. CASE from = "dial" /\ to = "fail"
    BY <1>1, <1>2, <2>3
  <2> QED BY <2>1, <2>2, <2>3, Zenon
<1> QED BY <1>1, <1>2, <1>3, <1>4, Zenon DEF AdderType, Pending

\* The same number after a step.
LEMMA PendingPrime == ASSUME AdderType' PROVE Pending' \in Nat
<1>1. Cardinality(added') \in Nat
  BY FS_CardinalityType, Zenon DEF AdderType
<1> QED BY <1>1 DEF AdderType, Pending

\* The top-ups: a reservation in idleSize follows each of them to its end.
LEMMA AddSizeInv == ASSUME SizeInv, AddStep PROVE SizeInv'
<1> USE DEF Kill, Born
<1>t. PoolType /\ UserType /\ CheckerType /\ AdderType
  BY Zenon DEF SizeInv, TypeOK
<1>p. /\ Pending \in Nat /\ Len(idle) \in Nat /\ Cardinality(added) \in Nat
      /\ idleSize \in Int /\ MinIdle \in Nat
  BY <1>t, PendingType, ListType, ConstAssumption, Zenon DEF PoolType
<1>1. CASE FirstTopUp
  <2>1. UserType' /\ CheckerType' /\ UNCHANGED <<closed, idle, registered, cpc, added>>
    BY <1>1, <1>t, Zenon DEF FirstTopUp, UserType, CheckerType, userVars, chkVars
  <2>2. PoolType' /\ AdderType' /\ ReserveAccounted
    <3>1. KeepMinIdles
      BY <1>1, Zenon DEF FirstTopUp
    <3>2. topUp' \in BOOLEAN
      BY <1>1, Zenon DEF FirstTopUp
    <3>3. PoolType'
      BY <1>1, <1>t, <1>p, <3>1 DEF FirstTopUp, KeepMinIdles, PoolType
    <3> QED BY <1>1, <1>t, <2>1, <3>1, <3>2, <3>3, Reserve, Zenon DEF AdderType
  <2>3. idleSize' - idleSize = (Len(idle') + Pending') - (Len(idle) + Pending)
    <3>1. Pending' \in Nat /\ idleSize' \in Int
      BY <2>2, PendingPrime, Zenon DEF PoolType
    <3> QED BY <1>p, <2>1, <2>2, <3>1 DEF ReserveAccounted
  <2> QED BY <2>1, <2>2, <2>3, Accounts, Zenon DEF SizeInv, TypeOK, ReserveAccounted
<1>2. CASE AddStart
  <2>1. PoolType' /\ UserType' /\ CheckerType'
    BY <1>2, <1>t, Zenon DEF AddStart, PoolType, UserType, CheckerType, poolVars, userVars, chkVars
  <2>2. AdderType' /\ Pending' = Pending
    <3>1. CASE closed
      BY <1>2, <1>t, <3>1, Moved, Zenon DEF AddStart
    <3>2. CASE ~closed
      BY <1>2, <1>t, <3>2, Moved, Zenon DEF AddStart
    <3> QED BY <3>1, <3>2, Zenon
  <2>3. UNCHANGED <<closed, idle, idleSize, registered, cpc>>
    BY <1>2, Zenon DEF AddStart, poolVars, chkVars
  <2> QED BY <1>p, <2>1, <2>2, <2>3, Accounts DEF SizeInv, TypeOK
<1>3. CASE AddDial
  <2>1. UserType' /\ CheckerType' /\ UNCHANGED <<closed, idle, idleSize, registered, cpc>>
    BY <1>3, <1>t, Zenon DEF AddDial, UserType, CheckerType, poolVars, userVars, chkVars
  <2>2. PoolType' /\ AdderType' /\ Pending' = Pending
    <3>1. CASE MoveAdder("dial", "fail") /\ UNCHANGED <<open, added>>
      <4>1. AdderType' /\ Pending' = Pending
        BY <1>3, <1>t, <3>1, Moved, Zenon DEF AddDial
      <4> QED BY <1>3, <1>t, <3>1, <4>1, Zenon DEF AddDial, PoolType, poolVars
    <3>2. ASSUME NEW c \in Conn, Fresh(c), Born(c), added' = added \cup {c},
                 adding' = [adding EXCEPT !["dial"] = @ - 1]
          PROVE  PoolType' /\ AdderType' /\ Pending' = Pending
      <4>1. c \notin added
        BY <3>2, Zenon DEF Fresh, Referenced
      <4>2. IsFiniteSet(added') /\ Cardinality(added') = Cardinality(added) + 1
        BY <1>t, <3>2, <4>1, PendingType, Zenon
      <4>3. PoolType'
        BY <1>3, <1>t, <3>2, Zenon DEF AddDial, PoolType, poolVars
      <4>4. topUp' = topUp /\ added' \in SUBSET Conn
        BY <1>3, <1>t, <3>2, Zenon DEF AddDial, AdderType
      <4>5. /\ adding["dial"] \in Nat /\ adding["dial"] > 0
            /\ adding' \in [{"start", "dial", "fail"} -> Nat]
            /\ adding'["dial"] = adding["dial"] - 1
            /\ adding'["start"] = adding["start"] /\ adding'["fail"] = adding["fail"]
        BY <1>3, <1>t, <3>2 DEF AddDial, AdderType
      <4>6. AdderType'
        BY <1>t, <4>2, <4>4, <4>5, Zenon DEF AdderType
      <4>7. Pending' = Pending
        BY <1>t, <1>p, <4>2, <4>5 DEF AdderType, Pending
      <4> QED BY <4>3, <4>6, <4>7, Zenon
    <3> QED BY <1>3, <3>1, <3>2, Zenon DEF AddDial
  <2> QED BY <1>p, <2>1, <2>2, Accounts DEF SizeInv, TypeOK
<1>4. ASSUME NEW c \in Conn, AddList(c) PROVE SizeInv'
  <2>1. UserType' /\ CheckerType' /\ UNCHANGED <<closed, idleSize, registered, cpc, adding>>
    BY <1>4, <1>t, Zenon DEF AddList, UserType, CheckerType, userVars, chkVars
  <2>2. IsFiniteSet(added') /\ Cardinality(added') = Cardinality(added) - 1
    BY <1>4, <1>t, PendingType, Zenon DEF AddList
  <2>3. AdderType' /\ Pending' = Pending - 1
    BY <1>4, <1>t, <1>p, <2>1, <2>2 DEF AddList, AdderType, Pending
  <2>4. Push(idle, c) \in Seq(Conn) /\ Len(Push(idle, c)) = Len(idle) + 1
    BY <1>t, PushType, Zenon DEF PoolType
  <2>5. PoolType' /\ (~closed => Len(idle') = Len(idle) + 1) /\ (closed => idle' = idle)
    BY <1>4, <1>t, <2>4, Zenon DEF AddList, PoolType
  <2> QED BY <1>p, <2>1, <2>3, <2>5, Accounts DEF SizeInv, TypeOK
<1>5. CASE AddFails
  <2>1. UserType' /\ CheckerType' /\ UNCHANGED <<closed, idle, registered, cpc, added>>
    BY <1>5, <1>t, Zenon DEF AddFails, UserType, CheckerType, userVars, chkVars
  <2>2. AdderType' /\ Pending' = Pending - 1
    BY <1>5, <1>t, <1>p DEF AddFails, AdderType, Pending
  <2>3. PoolType' /\ idleSize' = idleSize - 1
    BY <1>5, <1>t DEF AddFails, PoolType
  <2>4. idleSize' - idleSize = (Len(idle') + Pending') - (Len(idle) + Pending)
    BY <1>p, <2>1, <2>2, <2>3
  <2>5. idleSize' <= idleSize
    BY <1>p, <2>3
  <2> QED BY <2>1, <2>2, <2>3, <2>4, <2>5, Accounts, Zenon DEF SizeInv, TypeOK
<1> QED
  BY <1>1, <1>2, <1>3, <1>4, <1>5, Zenon DEF AddStep

\* One turn of checkHealthOnce: the connection it takes out is the one unit of
\* slack that IdleBounded grants.
LEMMA Looped ==
  ASSUME SizeInv, cpc \in {"count", "check"}, NEW l \in Seq(Conn), NEW s \in Int, NEW n \in Nat,
         s = Len(l) + Pending, s <= IdleLimit + 1, HealthLoop(l, s, n),
         UNCHANGED <<closed, tokens, used, lastGet, registered, userVars, detached, addVars>>,
         open' \in SUBSET Conn
  PROVE  SizeInv'
<1>t. PoolType /\ UserType /\ CheckerType /\ AdderType /\ ~closed
  BY Zenon DEF SizeInv, TypeOK
<1>1. UserType' /\ AdderType' /\ Pending' = Pending
  BY <1>t, Zenon DEF UserType, AdderType, Pending, userVars, addVars
<1>p. Pending \in Nat /\ Len(l) \in Nat /\ IdleLimit \in Nat
  BY <1>t, PendingType, ListType, ConstAssumption, Zenon DEF IdleLimit
<1>2. CASE n > 0 /\ l # <<>>
  <2>1. /\ cconn' = Head(l) /\ idle' = Tail(l) /\ idleSize' = s - 1
        /\ cleft' = n - 1 /\ cpc' = "check"
    BY <1>2, Zenon DEF HealthLoop
  <2>2. Head(l) \in Conn /\ Tail(l) \in Seq(Conn) /\ Len(Tail(l)) = Len(l) - 1
    BY <1>2, TailType, Zenon
  <2>3. PoolType' /\ CheckerType'
    BY <1>t, <1>2, <2>1, <2>2 DEF PoolType, CheckerType, CheckerPC
  <2>4. SizeAccounted'
    BY <1>1, <1>p, <2>1, <2>2 DEF SizeAccounted
  <2>5. IdleBounded'
    BY <1>p, <2>1 DEF IdleBounded, Probing
  <2> QED BY <1>t, <1>1, <2>1, <2>3, <2>4, <2>5, Zenon DEF SizeInv, TypeOK
<1>3. CASE ~(n > 0 /\ l # <<>>)
  <2>1. /\ cconn' = NoConn /\ idle' = l /\ idleSize' = s
        /\ cleft' = 0 /\ cpc' = "timeout"
    BY <1>3, Zenon DEF HealthLoop
  <2>3. PoolType' /\ CheckerType'
    BY <1>t, <2>1, ConstAssumption, Zenon DEF PoolType, CheckerType, CheckerPC
  <2>4. SizeAccounted'
    BY <1>1, <1>p, <2>1, Zenon DEF SizeAccounted
  <2>5. IdleBounded'
    BY <1>p, <2>1 DEF IdleBounded, Probing
  <2> QED BY <1>t, <1>1, <2>1, <2>3, <2>4, <2>5, Zenon DEF SizeInv, TypeOK
<1> QED BY <1>2, <1>3, Zenon

\* The checker outside its loop: it only moves on, and closes the pool after
\* taking it out of the map.
LEMMA Onward ==
  ASSUME SizeInv, TypeOK', UNCHANGED <<closed, idle, idleSize, adding, added>>,
         cpc # "check", cpc' # "check",
         closed => cpc' \in {"walk", "exit"},
         closed \/ cpc' \in {"close", "walk"} => ~registered'
  PROVE  SizeInv'
<1>1. Pending' = Pending /\ Probing' = Probing
  BY Zenon DEF Pending, Probing
<1>2. SizeAccounted' /\ IdleBounded'
  BY <1>1, Zenon DEF SizeInv, SizeAccounted, IdleBounded
<1> QED BY <1>2, Zenon DEF SizeInv

\* The checker goroutine keeps the accounting: its probes, its top-ups, the close.
LEMMA CheckSizeInv == ASSUME SizeInv, CheckStep PROVE SizeInv'
<1>t. PoolType /\ UserType /\ CheckerType /\ AdderType
  BY DEF SizeInv, TypeOK
<1>p. /\ Pending \in Nat /\ Len(idle) \in Nat /\ idleSize \in Int
      /\ MinIdle \in Nat /\ IdleLimit \in Nat /\ IdleLimit >= MinIdle
  BY <1>t, PendingType, ListType, ConstAssumption DEF PoolType, IdleLimit
<1>1. CASE CheckWake
  <2>1. PoolType' /\ UserType' /\ CheckerType' /\ AdderType'
    BY <1>1, <1>t, Zenon DEF CheckWake, PoolType, UserType, CheckerType, CheckerPC, AdderType,
                      poolVars, userVars, addVars
  <2> QED BY <1>1, <2>1, Onward, Zenon DEF CheckWake, SizeInv, TypeOK, poolVars, addVars
<1>2. CASE CheckHealth
  <2>1. idleSize = Len(idle) + Pending /\ idleSize <= IdleLimit + 1
    BY <1>2, <1>p DEF CheckHealth, SizeInv, SizeAccounted, IdleBounded, Probing
  <2>2. open' \in SUBSET Conn /\ idle \in Seq(Conn)
    BY <1>2, <1>t, Zenon DEF CheckHealth, PoolType
  <2> QED BY <1>2, <1>p, <2>1, <2>2, Looped, Zenon DEF CheckHealth
<1>3. CASE CheckPasses
  <2>1. idleSize = Len(idle) + Pending /\ idleSize + 1 <= IdleLimit + 1
    BY <1>3, <1>p, Zenon DEF CheckPasses, SizeInv, SizeAccounted, IdleBounded, Probing
  <2>2. open' \in SUBSET Conn /\ idle \in Seq(Conn) /\ cconn \in Conn /\ cleft \in Nat
    BY <1>3, <1>t, Zenon DEF CheckPasses, PoolType, CheckerType
  <2>3. Append(idle, cconn) \in Seq(Conn) /\ Len(Append(idle, cconn)) = Len(idle) + 1
    BY <2>2
  <2>4. idleSize + 1 = Len(Append(idle, cconn)) + Pending /\ idleSize + 1 \in Int
    BY <1>p, <2>1, <2>3
  <2> QED BY <1>3, <2>1, <2>2, <2>3, <2>4, Looped, Zenon DEF CheckPasses
<1>4. CASE CheckKills
  <2>1. idleSize = Len(idle) + Pending /\ idleSize <= IdleLimit + 1
    BY <1>4, <1>p DEF CheckKills, SizeInv, SizeAccounted, IdleBounded, Probing
  <2>2. open' \in SUBSET Conn /\ idle \in Seq(Conn) /\ cleft \in Nat
    BY <1>4, <1>t, Zenon DEF CheckKills, Kill, PoolType, CheckerType
  <2> QED BY <1>4, <1>p, <2>1, <2>2, Looped, Zenon DEF CheckKills
<1>5. CASE CheckTimeout
  <2>1. PoolType' /\ UserType' /\ CheckerType' /\ AdderType'
    BY <1>5, <1>t, Zenon DEF CheckTimeout, PoolType, UserType, CheckerType, CheckerPC, AdderType,
                      poolVars, userVars, addVars
  <2> QED BY <1>5, <2>1, Onward, Zenon DEF CheckTimeout, SizeInv, TypeOK, poolVars, addVars
<1>6. CASE CheckUnregister
  <2>1. UserType' /\ CheckerType' /\ AdderType'
    BY <1>6, <1>t, Zenon DEF CheckUnregister, UserType, CheckerType, CheckerPC, AdderType,
                      userVars, addVars
  <2>2. PoolType'
    BY <1>6, <1>t, Zenon DEF CheckUnregister, PoolType
  <2> QED BY <1>6, <2>1, <2>2, Onward, Zenon DEF CheckUnregister, SizeInv, TypeOK, addVars
<1>7. CASE CloseLocked
  <2>1. UserType' /\ AdderType'
    BY <1>7, <1>t, Zenon DEF CloseLocked, UserType, AdderType, userVars, addVars
  <2>2. PoolType' /\ CheckerType'
    BY <1>7, <1>t DEF CloseLocked, PoolType, CheckerType, CheckerPC
  <2>3. closed' /\ idle' = <<>> /\ cpc' = "walk" /\ ~registered'
    BY <1>7, Zenon DEF CloseLocked, SizeInv
  <2> QED BY <2>1, <2>2, <2>3, Zenon DEF SizeInv, TypeOK, SizeAccounted, IdleBounded
<1>8. CASE CloseWalk
  <2>1. UserType' /\ AdderType'
    BY <1>8, <1>t, Zenon DEF CloseWalk, UserType, AdderType, userVars, addVars
  <2>2. PoolType' /\ CheckerType' /\ cpc' \in {"walk", "exit"}
    <3>1. CASE detached = <<>>
      BY <1>8, <1>t, <3>1, Zenon DEF CloseWalk, PoolType, CheckerType, CheckerPC, poolVars
    <3>2. CASE detached # <<>>
      BY <1>8, <1>t, <3>2, TailType, Zenon DEF CloseWalk, PoolType, CheckerType, CheckerPC, poolVars, Kill
    <3> QED BY <3>1, <3>2, Zenon
  <2> QED BY <1>8, <2>1, <2>2, Onward, Zenon DEF CloseWalk, SizeInv, TypeOK, poolVars, addVars
<1>9. CASE CheckMinIdle
  <2>1. UserType' /\ CheckerType' /\ ~closed /\ UNCHANGED <<closed, idle, registered, added>>
    BY <1>9, <1>t, Zenon DEF CheckMinIdle, UserType, CheckerType, CheckerPC, userVars, SizeInv
  <2>2. /\ adding' \in [{"start", "dial", "fail"} -> Nat] /\ idleSize' \in Int
        /\ ReserveAccounted
    <3>1. CASE MinIdle = 0
      <4>1. UNCHANGED <<idleSize, adding, added>>
        BY <1>9, <3>1, Zenon DEF CheckMinIdle
      <4>2. Pending' = Pending
        BY <4>1, Zenon DEF Pending
      <4>3. idleSize' <= idleSize
        BY <1>p, <4>1
      <4>4. idleSize' - idleSize = Pending' - Pending
        BY <1>p, <4>1, <4>2
      <4> QED BY <1>t, <1>p, <4>1, <4>3, <4>4, Zenon DEF ReserveAccounted, AdderType
    <3>2. CASE MinIdle # 0
      BY <1>9, <2>1, <3>2, Reserve, Zenon DEF CheckMinIdle
    <3> QED BY <3>1, <3>2, Zenon
  <2>3. PoolType' /\ AdderType'
    BY <1>9, <1>t, <2>1, <2>2, Zenon DEF CheckMinIdle, PoolType, AdderType
  <2>4. SizeAccounted'
    <3>1. Pending' \in Nat /\ idleSize' \in Int
      BY <2>2, <2>3, PendingPrime, Zenon
    <3>2. idleSize = Len(idle) + Pending
      BY <2>1, Zenon DEF SizeInv, SizeAccounted
    <3>3. idleSize' - idleSize = Pending' - Pending
      BY <2>2, Zenon DEF ReserveAccounted
    <3>4. idleSize' = Len(idle) + Pending'
      BY <1>p, <3>1, <3>2, <3>3, SMTT(60)
    <3>5. Len(idle') = Len(idle)
      BY <2>1, Zenon
    <3> QED BY <3>4, <3>5, Zenon DEF SizeAccounted
  <2>5. IdleBounded'
    <3>1. Probing' = 0 /\ Probing = 0 /\ idleSize <= IdleLimit + 1
      BY <1>9, <1>p, <2>1 DEF CheckMinIdle, Probing, SizeInv, IdleBounded
    <3>2. idleSize' \in Int /\ (idleSize' <= idleSize \/ idleSize' <= MinIdle)
      BY <2>2, Zenon DEF ReserveAccounted
    <3>3. idleSize' <= IdleLimit + 1
      BY <1>p, <3>1, <3>2
    <3>4. idleSize' + Probing' <= IdleLimit + 1
      BY <3>1, <3>2, <3>3
    <3> QED BY <3>4, Zenon DEF IdleBounded
  <2> QED BY <1>9, <2>1, <2>3, <2>4, <2>5 DEF CheckMinIdle, SizeInv, TypeOK
<1> QED
  BY <1>1, <1>2, <1>3, <1>4, <1>5, <1>6, <1>7, <1>8, <1>9, Zenon DEF CheckStep

\* Every step of the pool keeps it.
LEMMA StepSizeInv == SizeInv /\ [Next]_vars => SizeInv'
<1> SUFFICES ASSUME SizeInv, [Next]_vars PROVE SizeInv'
  BY Zenon
<1>1. CASE TimePasses
  <2>1. PoolType' /\ UserType' /\ CheckerType' /\ AdderType'
    BY <1>1, Zenon DEF TimePasses, SizeInv, TypeOK, PoolType, UserType, CheckerType, AdderType,
                userVars, chkVars, addVars
  <2> QED BY <1>1, <2>1, Quiet, Zenon DEF TimePasses, TypeOK, chkVars, addVars
<1>2. CASE UNCHANGED vars
  <2>1. PoolType' /\ UserType' /\ CheckerType' /\ AdderType'
    BY <1>2, Zenon DEF vars, SizeInv, TypeOK, PoolType, UserType, CheckerType, AdderType,
                poolVars, userVars, chkVars, addVars
  <2> QED BY <1>2, <2>1, Quiet, Zenon DEF vars, TypeOK, poolVars, chkVars, addVars
<1> QED
  BY <1>1, <1>2, UserSizeInv, AddSizeInv, CheckSizeInv, Zenon DEF Next
-----------------------------------------------------------------------------
\* 1 for what is true.
Bit(p) == IF p THEN 1 ELSE 0

\* Two sets of users that differ at most in u.
LEMMA CardStep ==
  ASSUME NEW S \in SUBSET User, NEW T \in SUBSET User, NEW u \in User,
         \A v \in User : v # u => (v \in S <=> v \in T)
  PROVE  /\ Cardinality(S) \in Nat /\ Cardinality(T) \in Nat
         /\ Cardinality(T) = Cardinality(S) + Bit(u \in T) - Bit(u \in S)
<1>1. IsFiniteSet(S) /\ IsFiniteSet(T)
  BY ConstAssumption, FS_Subset, Zenon
<1>2. Cardinality(S) \in Nat /\ Cardinality(T) \in Nat
  BY <1>1, FS_CardinalityType, Zenon
<1>3. CASE u \in T <=> u \in S
  <2>1. S = T
    BY <1>3
  <2> QED BY <1>2, <1>3, <2>1 DEF Bit
<1>4. CASE u \in T /\ u \notin S
  <2>1. T = S \cup {u}
    BY <1>4, Zenon
  <2>2. Cardinality(T) = Cardinality(S) + 1
    BY <1>1, <1>4, <2>1, FS_AddElement, Zenon
  <2> QED BY <1>2, <1>4, <2>2 DEF Bit
<1>5. CASE u \notin T /\ u \in S
  <2>1. T = S \ {u}
    BY <1>5, Zenon
  <2>2. Cardinality(T) = Cardinality(S) - 1
    BY <1>1, <1>5, <2>1, FS_RemoveElement, Zenon
  <2> QED BY <1>2, <1>5, <2>2 DEF Bit
<1> QED BY <1>3, <1>4, <1>5, Zenon

\* A step after which nobody holds more or less than before.
LEMMA CountQuiet ==
  ASSUME CountInv, UNCHANGED <<tokens, used, upc, uconn>>,
         \A u \in User : upc[u] = "using" => (uconn[u] \in open' <=> uconn[u] \in open)
  PROVE  CountInv'
<1>1. \A u \in User : HoldsToken(u)' = HoldsToken(u) /\ Counted(u)' = Counted(u)
  BY Zenon DEF HoldsToken, Counted
<1>2. TokenHolders' = TokenHolders /\ {u \in User : Counted(u)}' = {u \in User : Counted(u)}
  BY <1>1, Zenon DEF TokenHolders
<1> QED BY <1>2, Zenon DEF CountInv

\* A step of user u that changes tokens and used by what u gains or gives up.
Pays(u) ==
  /\ MaxActive > 0 => /\ tokens' = tokens + Bit(HoldsToken(u)') - Bit(HoldsToken(u))
                      /\ tokens' <= MaxActive
  /\ used' >= used + Bit(Counted(u)') - Bit(Counted(u))

\* Such a step keeps the counters right.
LEMMA PaysCount ==
  ASSUME SizeInv, TypeOK', CountInv, NEW u \in User, Pays(u),
         \A v \in User : v # u => (HoldsToken(v)' <=> HoldsToken(v)) /\ (Counted(v)' <=> Counted(v))
  PROVE  CountInv'
<1> DEFINE K == {v \in User : Counted(v)}
<1>t. tokens \in Nat /\ tokens' \in Nat /\ used \in Int /\ used' \in Int
  BY Zenon DEF SizeInv, TypeOK, PoolType
<1>1. /\ TokenHolders \in SUBSET User /\ TokenHolders' \in SUBSET User
      /\ K \in SUBSET User /\ K' \in SUBSET User
      /\ \A v \in User : /\ v \in TokenHolders <=> HoldsToken(v)
                         /\ v \in TokenHolders' <=> HoldsToken(v)'
                         /\ v \in K <=> Counted(v)
                         /\ v \in K' <=> Counted(v)'
  BY Zenon DEF TokenHolders
<1> HIDE DEF K
<1>2. /\ Cardinality(TokenHolders) \in Nat /\ Cardinality(TokenHolders') \in Nat
      /\ Cardinality(TokenHolders') =
           Cardinality(TokenHolders) + Bit(u \in TokenHolders') - Bit(u \in TokenHolders)
  <2>1. \A v \in User : v # u => (v \in TokenHolders <=> v \in TokenHolders')
    BY <1>1, Zenon
  <2> QED BY <1>1, <2>1, CardStep, Zenon
<1>3. /\ Cardinality(K) \in Nat /\ Cardinality(K') \in Nat
      /\ Cardinality(K') = Cardinality(K) + Bit(u \in K') - Bit(u \in K)
  <2>1. \A v \in User : v # u => (v \in K <=> v \in K')
    BY <1>1, Zenon
  <2> QED BY <1>1, <2>1, CardStep, Zenon
<1>4. /\ Bit(u \in TokenHolders') = Bit(HoldsToken(u)') /\ Bit(u \in TokenHolders) = Bit(HoldsToken(u))
      /\ Bit(u \in K') = Bit(Counted(u)') /\ Bit(u \in K) = Bit(Counted(u))
  BY <1>1, Zenon DEF Bit
<1>6. /\ Bit(HoldsToken(u)') \in {0, 1} /\ Bit(HoldsToken(u)) \in {0, 1}
      /\ Bit(Counted(u)') \in {0, 1} /\ Bit(Counted(u)) \in {0, 1}
  BY Zenon DEF Bit
<1>7. MaxActive > 0 => tokens' = Cardinality(TokenHolders') /\ tokens' <= MaxActive
  BY <1>t, <1>2, <1>4, <1>6, Zenon DEF CountInv, Pays
<1>8. used' >= Cardinality(K')
  <2>1. used >= Cardinality(K)
    BY Zenon DEF CountInv, K
  <2>2. used' >= used + Bit(Counted(u)') - Bit(Counted(u))
    BY Zenon DEF Pays
  <2> QED BY <1>t, <1>3, <1>4, <1>6, <2>1, <2>2
<1> QED BY <1>7, <1>8, Zenon DEF CountInv, K

\* What u does changes what nobody else holds: the sockets it closes are its
\* own, the socket it dials is new.
LEMMA OthersKeep ==
  ASSUME SizeInv, OwnInv, NEW u \in User, UserStep(u), NEW v \in User, v # u
  PROVE  (HoldsToken(v)' <=> HoldsToken(v)) /\ (Counted(v)' <=> Counted(v))
<1>t. UserType
  BY Zenon DEF SizeInv, TypeOK
<1>n. NoConn \notin open /\ open \subseteq Conn
  BY NilIsNotOpen, Zenon
<1>1. upc'[v] = upc[v] /\ uconn'[v] = uconn[v]
  <2>1. CASE Lookup(u) \/ AcquireToken(u) \/ GetTokenFails(u) \/ CountUsed(u) \/ NewConn(u) \/ GetFails(u)
    BY <1>t, <2>1, Zenon DEF Lookup, AcquireToken, GetTokenFails, CountUsed, NewConn, GetFails, GoTo, UserType
  <2>2. CASE PopIdle(u) \/ FastCheck(u) \/ DialForUser(u)
    BY <1>t, <2>2, Zenon DEF PopIdle, FastCheck, DialForUser, GoTo, Hold, UserType
  <2>3. CASE IOFails(u) \/ CloseConn(u) \/ PutLocked(u) \/ PutRelease(u) \/ PutUncount(u)
    BY <1>t, <2>3, Zenon DEF IOFails, CloseConn, PutLocked, PutRelease, PutUncount, GoTo, Hold, UserType
  <2> QED BY <2>1, <2>2, <2>3, ZenonT(30) DEF UserStep, GetStep, PutStep
<1>2. upc[v] = "using" => (uconn[v] \in open' <=> uconn[v] \in open)
  <2>1. CASE open' = open
    BY <2>1, Zenon
  <2>2. CASE FastCheck(u)
    <3>1. open' = open \ {uconn[u]} \/ open' = open
      BY <2>2, ZenonT(30) DEF FastCheck, Kill
    <3>2. uconn[u] \in open /\ Holding(u)
      BY <2>2, Zenon DEF FastCheck, OwnInv, HeldApart, Holding
    <3> QED BY <3>1, <3>2, Zenon DEF OwnInv, HeldApart, Holding
  <2>3. CASE DialForUser(u)
    <3>1. open' = open \/ \E c \in Conn : Fresh(c) /\ open' = open \cup {c}
      BY <2>3, Zenon DEF DialForUser, Born
    <3> QED BY <3>1 DEF Fresh, Referenced
  <2>4. CASE PutRelease(u)
    <3>1. open' = open \ {victim[u]}
      BY <1>n, <2>4, Zenon DEF PutRelease, Kill
    <3> QED BY <1>n, <3>1, Zenon DEF OwnInv, VictimsApart, Holding
  <2> QED BY <2>1, <2>2, <2>3, <2>4, ZenonT(30) DEF UserStep, GetStep, PutStep, Lookup, AcquireToken, GetTokenFails,
             CountUsed, NewConn, GetFails, PopIdle, IOFails, CloseConn, PutLocked, PutUncount
<1> QED BY <1>1, <1>2, Zenon DEF HoldsToken, Counted

\* Every step of Get and put pays for itself.
LEMMA UserPays ==
  ASSUME SizeInv, OwnInv, CountInv, NEW u \in User, UserStep(u)
  PROVE  Pays(u)
<1>t. UserType /\ used \in Int /\ tokens \in Nat /\ MaxActive \in Nat
  BY ConstAssumption, Zenon DEF SizeInv, TypeOK, PoolType
<1>m. MaxActive > 0 => tokens <= MaxActive
  BY Zenon DEF CountInv
<1>n. NoConn \notin open /\ open \subseteq Conn
  BY NilIsNotOpen, Zenon
<1> USE DEF Pays, Bit, HoldsToken, Counted
<1>1. CASE Lookup(u) \/ GetTokenFails(u)
  BY <1>t, <1>m, <1>1, SMTT(30) DEF Lookup, GetTokenFails, GoTo, UserType, poolVars
<1>2. CASE AcquireToken(u)
  BY <1>t, <1>m, <1>2 DEF AcquireToken, GoTo, UserType
<1>3. CASE CountUsed(u)
  BY <1>t, <1>m, <1>3, SMTT(30) DEF CountUsed, GoTo, UserType
<1>4. CASE PopIdle(u)
  BY <1>t, <1>m, <1>4, SMTT(30) DEF PopIdle, GoTo, Hold, UserType
<1>5. CASE FastCheck(u)
  <2>1. uconn[u] \in open
    BY <1>5, ZenonT(30) DEF FastCheck, OwnInv, HeldApart
  <2> QED BY <1>t, <1>m, <1>5, <2>1, SMTT(30) DEF FastCheck, GoTo, Hold, UserType, poolVars
<1>6. CASE NewConn(u)
  BY <1>t, <1>m, <1>6 DEF NewConn, GoTo, UserType, poolVars
<1>7. CASE DialForUser(u)
  BY <1>t, <1>m, <1>7 DEF DialForUser, GoTo, Hold, Born, UserType, poolVars
<1>8. CASE GetFails(u)
  BY <1>t, <1>m, <1>8 DEF GetFails, FreeToken, GoTo, UserType
<1>9. CASE IOFails(u)
  BY <1>t, <1>m, <1>9 DEF IOFails, GoTo, UserType, poolVars
<1>10. CASE CloseConn(u)
  <2>1. uconn[u] \in open => uconn[u] \notin Listed
    BY <1>10, ZenonT(30) DEF CloseConn, OwnInv, HeldApart, Holding, Kept
  <2> QED BY <1>t, <1>m, <1>10, <2>1, SMTT(30) DEF CloseConn, GoTo, Hold, UserType, poolVars
<1>11. CASE PutLocked(u)
  BY <1>t, <1>m, <1>11, SMTT(30) DEF PutLocked, GoTo, UserType
<1>12. CASE PutRelease(u)
  BY <1>t, <1>m, <1>12, SMTT(30) DEF PutRelease, FreeToken, GoTo, UserType
<1>13. CASE PutUncount(u)
  <2>1. u \in ioErr => uconn[u] \notin open
    BY <1>13, Zenon DEF PutUncount, OwnInv, HeldApart
  <2> QED BY <1>t, <1>m, <1>13, <2>1, SMTT(30) DEF PutUncount, GoTo, Hold, UserType
<1> QED
  BY <1>1, <1>2, <1>3, <1>4, <1>5, <1>6, <1>7, <1>8, <1>9, <1>10, <1>11, <1>12, <1>13, ZenonT(30) DEF UserStep, GetStep, PutStep

\* The checker and the top-ups close only what no user holds, and dial only what
\* nobody refers to.
LEMMA KeepersCount ==
  ASSUME SizeInv, OwnInv, CountInv, AddStep \/ CheckStep
  PROVE  CountInv'
<1>n. NoConn \notin open /\ open \subseteq Conn
  BY NilIsNotOpen, Zenon
<1>1. UNCHANGED <<tokens, used, upc, uconn>>
  <2>1. CASE AddStep
    BY <2>1, ZenonT(30) DEF AddStep, FirstTopUp, AddStart, AddDial, AddFails, AddList, poolVars, userVars
  <2>2. CASE CheckStep
    BY <2>2, ZenonT(30) DEF CheckStep, CheckWake, CheckHealth, CheckPasses, CheckKills, CheckTimeout,
                CheckUnregister, CloseLocked, CloseWalk, CheckMinIdle, poolVars, userVars
  <2> QED BY <2>1, <2>2, Zenon
<1>2. \/ open' = open
      \/ \E c \in Kept : open' = open \ {c}
      \/ \E c \in Conn : Fresh(c) /\ open' = open \cup {c}
  <2>1. CASE AddStep
    BY <2>1, Zenon DEF AddStep, FirstTopUp, AddStart, AddDial, AddFails, AddList, Born, Kill, Kept
  <2>2. CASE CheckKills
    BY <2>2, Zenon DEF CheckKills, Kill, Kept
  <2>3. CASE CloseWalk
    <3>1. CASE detached # <<>>
      <4>1. Head(detached) \in Elems(detached)
        BY <3>1, TailElems, Zenon DEF SizeInv, TypeOK, CheckerType, OwnInv, KeptApart
      <4> QED BY <2>3, <3>1, <4>1, Zenon DEF CloseWalk, Kill, Kept, Detached
    <3> QED BY <2>3, <3>1, Zenon DEF CloseWalk
  <2> QED BY <2>1, <2>2, <2>3, Zenon DEF CheckStep, CheckWake, CheckHealth, CheckPasses, CheckTimeout,
                CheckUnregister, CloseLocked, CheckMinIdle
<1>3. \A u \in User : upc[u] = "using" => (uconn[u] \in open' <=> uconn[u] \in open)
  BY <1>2 DEF OwnInv, HeldApart, Holding, Fresh, Referenced
<1> QED BY <1>1, <1>3, CountQuiet, Zenon

\* A pool that pool.Get has just created has given out no token.
LEMMA InitCount == Init => CountInv
<1> SUFFICES ASSUME Init PROVE CountInv
  OBVIOUS
<1>1. TokenHolders = {} /\ {u \in User : Counted(u)} = {}
  BY Zenon DEF Init, TokenHolders, HoldsToken, Counted
<1>2. Cardinality(TokenHolders) = 0 /\ Cardinality({u \in User : Counted(u)}) = 0
  BY <1>1, FS_EmptySet, Zenon
<1>3. used = 0 /\ tokens = 0 /\ MaxActive \in Nat
  BY ConstAssumption, Zenon DEF Init
<1> QED BY <1>2, <1>3 DEF CountInv

\* Tokens and used are settled by every step of every goroutine.
LEMMA StepCount == IInv /\ SizeInv' /\ [Next]_vars => CountInv'
<1> SUFFICES ASSUME SizeInv, OwnInv, CountInv, TypeOK', [Next]_vars PROVE CountInv'
  BY Zenon DEF IInv, SizeInv
<1>1. ASSUME NEW u \in User, UserStep(u) PROVE CountInv'
  BY <1>1, OthersKeep, UserPays, PaysCount, Zenon
<1>2. CASE TimePasses \/ UNCHANGED vars
  BY <1>2, CountQuiet, Zenon DEF TimePasses, vars, poolVars, userVars
<1> QED BY <1>1, <1>2, KeepersCount, Zenon DEF Next

\* A list without duplicates has c at most once.
LEMMA IndexCount ==
  ASSUME NEW l \in Seq(Conn), NoDup(l), NEW c
  PROVE  Cardinality({i \in 1..Len(l) : l[i] = c}) = Bit(c \in Elems(l))
<1>1. CASE c \in Elems(l)
  <2>1. PICK i \in 1..Len(l) : l[i] = c
    BY <1>1, Zenon DEF Elems
  <2>2. {j \in 1..Len(l) : l[j] = c} = {i}
    BY <2>1, Zenon DEF NoDup
  <2> QED BY <1>1, <2>2, FS_Singleton, Zenon DEF Bit
<1>2. CASE c \notin Elems(l)
  <2>1. {j \in 1..Len(l) : l[j] = c} = {}
    BY <1>2, Zenon DEF Elems
  <2> QED BY <1>2, <2>1, FS_EmptySet, Zenon DEF Bit
<1> QED BY <1>1, <1>2, Zenon

\* At most one user has c.
LEMMA UserCount ==
  ASSUME NEW S \in SUBSET User, \A u, v \in S : u = v
  PROVE  Cardinality(S) = Bit(S # {})
<1>1. CASE S = {}
  BY <1>1, FS_EmptySet, Zenon DEF Bit
<1>2. CASE S # {}
  <2>1. PICK u \in S : S = {u}
    BY <1>2, Zenon
  <2> QED BY <1>2, <2>1, FS_Singleton, Zenon DEF Bit
<1> QED BY <1>1, <1>2, Zenon

\* The places of the inductive invariant are the owners that OneOwner counts.
LEMMA OwnedOnce == SizeInv /\ OwnInv => OneOwner
<1> SUFFICES ASSUME SizeInv, OwnInv, NEW c \in open PROVE Owners(c) = 1
  BY Zenon DEF OneOwner
<1>t. idle \in Seq(Conn) /\ detached \in Seq(Conn) /\ NoDup(idle) /\ NoDup(detached)
  BY Zenon DEF SizeInv, TypeOK, PoolType, CheckerType, OwnInv, KeptApart
<1>n. c # NoConn
  BY NilIsNotOpen, Zenon
<1> DEFINE H == {u \in User : uconn[u] = c /\ upc[u] \in {"fast", "using", "put"}}
           V == {u \in User : victim[u] = c}
<1>1. Cardinality({i \in 1..Len(idle) : idle[i] = c}) = Bit(c \in Listed)
  BY <1>t, IndexCount, Zenon DEF Listed
<1>2. Cardinality({i \in 1..Len(detached) : detached[i] = c}) = Bit(c \in Detached)
  BY <1>t, IndexCount, Zenon DEF Detached
<1>3. Cardinality(H) = Bit(H # {})
  <2>1. \A u, v \in H : u = v
    BY Zenon DEF OwnInv, HeldApart, Holding
  <2> QED BY <2>1, UserCount, Zenon
<1>4. Cardinality(V) = Bit(V # {})
  <2>1. \A u, v \in V : u = v
    BY <1>n, Zenon DEF OwnInv, VictimsApart
  <2> QED BY <2>1, UserCount, Zenon
<1>5. Owners(c) = Bit(c \in Listed) + Bit(c \in Detached) + Bit(H # {}) + Bit(V # {})
                    + Bit(c \in added) + Bit(cconn = c)
  BY <1>1, <1>2, <1>3, <1>4, Zenon DEF Owners, Bit
<1>6. H # {} => c \notin Kept /\ V = {}
  BY <1>n, ZenonT(30) DEF OwnInv, HeldApart, VictimsApart, Holding
<1>7. V # {} => c \notin Kept
  BY <1>n, Zenon DEF OwnInv, VictimsApart
<1>8. c \in Kept \/ H # {} \/ V # {}
  BY Zenon DEF OwnInv, NoneForgotten, Holding
<1>9. /\ c \in Listed => c \notin Detached \cup added \cup {cconn}
      /\ c \in Detached => c \notin added \cup {cconn}
      /\ c \in added => c # cconn
  BY Zenon DEF OwnInv, KeptApart
<1> HIDE DEF H, V
<1> QED BY <1>5, <1>6, <1>7, <1>8, <1>9 DEF Bit, Kept

\* What the inductive invariant says about owners, tokens and used.
LEMMA InvOwned == IInv => ConnectionsOwned
<1> SUFFICES ASSUME SizeInv, OwnInv, CountInv PROVE ConnectionsOwned
  BY Zenon DEF IInv
<1>1. TokensAccounted
  <2> DEFINE S == {u \in User : upc[u] = "using" /\ uconn[u] \in open}
  <2>1. S \subseteq TokenHolders /\ TokenHolders \subseteq User
    BY Zenon DEF TokenHolders, HoldsToken
  <2>2. Cardinality(S) \in Nat /\ Cardinality(TokenHolders) \in Nat /\ Cardinality(S) <= Cardinality(TokenHolders)
    BY <2>1, ConstAssumption, FS_Subset, FS_CardinalityType, Zenon
  <2> QED BY <2>2, ConstAssumption, SMTT(60) DEF TokensAccounted, CountInv
<1>2. UsedCoversUsers
  <2> DEFINE S == {u \in User : /\ upc[u] \in {"pop", "fast", "using", "put", "release"}
                               /\ uconn[u] \in open}
             K == {u \in User : Counted(u)}
  <2>1. S \subseteq K /\ K \subseteq User
    BY Zenon DEF Counted
  <2>2. Cardinality(S) \in Nat /\ Cardinality(K) \in Nat /\ Cardinality(S) <= Cardinality(K)
    BY <2>1, ConstAssumption, FS_Subset, FS_CardinalityType, ZenonT(30)
  <2>3. used \in Int /\ used >= Cardinality(K)
    BY Zenon DEF SizeInv, TypeOK, PoolType, CountInv
  <2> QED BY <2>2, <2>3 DEF UsedCoversUsers
<1>3. ListedIsOpen
  <2>1. NoConn \notin Listed
    BY ConstAssumption, ListType, Zenon DEF SizeInv, TypeOK, PoolType, Listed, Elems
  <2> QED BY <2>1, Zenon DEF ListedIsOpen, OwnInv, KeptApart, Kept
<1> QED BY <1>1, <1>2, <1>3, OwnedOnce, Zenon DEF ConnectionsOwned
-----------------------------------------------------------------------------
\* The types and the accounting of the idle list hold in every reachable state,
\* for every number of users and connections and all options.
THEOREM SizeInvariant == Spec => []SizeInv
  BY InitSizeInv, StepSizeInv, PTL DEF Spec

\* idleSize always equals what is listed plus what is being dialed for the
\* list: put, keepMinIdles and the checker update it consistently.
THEOREM SizeIsAccounted == Spec => []SizeAccounted
<1>1. SizeInv => SizeAccounted
  BY Zenon DEF SizeInv
<1> QED BY <1>1, SizeInvariant, PTL

\* The idle list overshoots max(MinIdle, MaxIdle) by at most one, however many
\* users put connections back while the checker probes.
THEOREM IdleIsBounded == Spec => []IdleBounded
<1>1. SizeInv => IdleBounded
  BY Zenon DEF SizeInv
<1> QED BY <1>1, SizeInvariant, PTL

\* No late put, probe or top-up lists a connection in a closed pool, where
\* nobody would ever close it.
THEOREM NothingListedAfterClose == Spec => []ClosedListsNothing
<1>1. SizeInv => ClosedListsNothing
  BY Zenon DEF SizeInv, ClosedListsNothing
<1> QED BY <1>1, SizeInvariant, PTL

\* The checker takes the pool out of the factory's map before it closes it.
THEOREM NoClosedPoolInMap == Spec => []ClosedIsUnregistered
<1>1. SizeInv => ClosedIsUnregistered
  BY Zenon DEF SizeInv, ClosedIsUnregistered
<1> QED BY <1>1, SizeInvariant, PTL

\* The types, the accounting of the idle list, the ownership of connections and
\* the counters of connection_pool.go hold in every reachable state, for every
\* number of users and connections and all options.
THEOREM InductiveInvariant == Spec => []IInv
<1>1. Init => IInv
  BY InitSizeInv, InitOwn, InitCount, Zenon DEF IInv
<1>2. IInv /\ [Next]_vars => IInv'
  BY StepSizeInv, StepOwn, StepCount, Zenon DEF IInv
<1> QED BY <1>1, <1>2, PTL DEF Spec

\* Every open connection is in exactly one place, listed ones are open, every
\* token belongs to one Get that is under way, and used never undercounts: no
\* interleaving of Get, put, Close, the probes and the top-ups hands out a
\* connection twice, forgets one or leaks a token.
THEOREM ConnectionsHaveOneOwner == Spec => []ConnectionsOwned
  BY InvOwned, InductiveInvariant, PTL
=============================================================================

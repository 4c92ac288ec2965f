------------------------------ MODULE ConnPool ------------------------------
(***************************************************************************)
(* pool/connpool/connection_pool.go: the pool of connections to one        *)
(* address.  Users get a connection, use it and give it back; a checker    *)
(* goroutine probes the idle connections, closes an unused pool and tops   *)
(* up the idle list; top-ups dial in goroutines of their own.  Everything  *)
(* between two Lock/Unlock pairs, and every atomic or channel operation,   *)
(* is a step; probes and dials happen outside the lock and may fail.       *)
(***************************************************************************)
EXTENDS Integers, Sequences, FiniteSets

CONSTANTS User,         \* goroutines that call Get, Read/Write and Close
          Conn,         \* PoolConn objects, reused once nobody refers to them
          NoConn,       \* the nil *PoolConn
          MinIdle, MaxIdle,
          MaxActive,    \* 0 means no limit
          Wait,         \* block when MaxActive is reached
          ForceClose,   \* pool.forceClosed: Close never reuses a connection
          PushToTail,   \* PushIdleConnToTail
          MaxUsed       \* bound: no new Get once used has reached MaxUsed

ASSUME ConstAssumption ==
  /\ MinIdle \in Nat /\ MaxIdle \in Nat /\ MaxActive \in Nat
  /\ MaxUsed \in Nat
  /\ {Wait, ForceClose, PushToTail} \subseteq BOOLEAN
  /\ NoConn \notin Conn
  /\ IsFiniteSet(User)

VARIABLES closed, idle, idleSize, tokens, used,
          lastGet,      \* lastGetTime: "never", "fresh", or "stale" (timed out)
          registered,   \* the factory's map holds this pool
          open,         \* connections whose socket is open; pc.closed is set
                        \* exactly when the socket is closed
          upc, uconn,   \* per user: program counter, connection in hand
          ioErr,        \* the users whose put was called by a failed Read or Write
          victim,       \* per user: the connection put is going to close
          cpc, cconn,   \* the checker: program counter, connection in hand
          cleft,        \* iterations left in checkHealthOnce
          detached,     \* the list that Close took out of the pool
          topUp,        \* first keepMinIdles of the creating Get not run yet
          adding,       \* number of addIdleConn goroutines: before the closed
                        \* test ("start"), dialing ("dial"), failed ("fail")
          added         \* connections dialed by addIdleConn, not yet listed

poolVars == <<closed, idle, idleSize, tokens, used, lastGet, registered>>
userVars == <<upc, uconn, ioErr, victim>>
chkVars == <<cpc, cconn, cleft, detached>>
addVars == <<topUp, adding, added>>
vars == <<poolVars, open, userVars, chkVars, addVars>>

UserPC == {"out", "token", "count", "pop", "fast", "new", "dial", "undo",
           "using", "put", "release", "uncount"}
CheckerPC == {"sleep", "count", "check", "timeout", "destroy", "close", "walk",
              "minidle", "exit"}

Elems(l) == {l[i] : i \in 1..Len(l)}
Listed == Elems(idle)
Detached == Elems(detached)
Pending == adding["start"] + adding["dial"] + adding["fail"] + Cardinality(added)

PoolType ==
  /\ closed \in BOOLEAN /\ registered \in BOOLEAN
  /\ idle \in Seq(Conn) /\ idleSize \in Int /\ used \in Int /\ tokens \in Nat
  /\ lastGet \in {"never", "fresh", "stale"}
  /\ open \in SUBSET Conn
UserType ==
  /\ upc \in [User -> UserPC]
  /\ uconn \in [User -> Conn \cup {NoConn}] /\ victim \in [User -> Conn \cup {NoConn}]
  /\ ioErr \in SUBSET User
  /\ \A u \in User :
       upc[u] \in {"fast", "using", "put", "release", "uncount"} => uconn[u] \in Conn
CheckerType ==
  /\ cpc \in CheckerPC /\ cconn \in Conn \cup {NoConn} /\ cleft \in Nat
  /\ detached \in Seq(Conn)
  /\ (cpc = "check" <=> cconn \in Conn) /\ (cpc # "walk" => detached = <<>>)
AdderType ==
  /\ topUp \in BOOLEAN
  /\ adding \in [{"start", "dial", "fail"} -> Nat]
  /\ added \in SUBSET Conn /\ IsFiniteSet(added)

TypeOK == PoolType /\ UserType /\ CheckerType /\ AdderType

\* pool.Get created the pool, stored it in the map and started the checker.
Init ==
  /\ closed = FALSE /\ idle = <<>> /\ idleSize = 0 /\ tokens = 0 /\ used = 0
  /\ lastGet = "never" /\ registered = TRUE
  /\ open = {}
  /\ upc = [u \in User |-> "out"] /\ uconn = [u \in User |-> NoConn]
  /\ ioErr = {} /\ victim = [u \in User |-> NoConn]
  /\ cpc = "sleep" /\ cconn = NoConn /\ cleft = 0 /\ detached = <<>>
  /\ topUp = TRUE /\ adding = [s \in {"start", "dial", "fail"} |-> 0]
  /\ added = {}
-----------------------------------------------------------------------------
\* connList.pushHead / pushTail, as put and addIdleConn choose between them.
Push(l, c) == IF PushToTail THEN Append(l, c) ELSE <<c>> \o l
Front(l) == SubSeq(l, 1, Len(l) - 1)
Last(l) == l[Len(l)]

\* Every place that still refers to a PoolConn.
Referenced ==
  Listed \cup Detached \cup added \cup {cconn}
    \cup {uconn[u] : u \in User} \cup {victim[u] : u \in User}

\* newPoolConn around a socket that has just been dialed.
Fresh(c) == c \in Conn \ Referenced

GoTo(u, l) == upc' = [upc EXCEPT ![u] = l]
Hold(u, c) == uconn' = [uconn EXCEPT ![u] = c]

\* pc.Conn.Close() and pc.closed = true.
Kill(c) == open' = open \ {c}

\* A dial succeeds: an open socket in a PoolConn that is not closed.
Born(c) == open' = open \cup {c}
-----------------------------------------------------------------------------
\* pool.Get finds the pool in the map.
Lookup(u) ==
  /\ upc[u] = "out" /\ registered /\ used < MaxUsed
  /\ GoTo(u, "token")
  /\ UNCHANGED <<poolVars, open, uconn, ioErr, victim, chkVars, addVars>>

\* getToken: a slot of the token channel, if there is one.
AcquireToken(u) ==
  /\ upc[u] = "token"
  /\ MaxActive = 0 \/ tokens < MaxActive
  /\ tokens' = IF MaxActive = 0 THEN tokens ELSE tokens + 1
  /\ GoTo(u, "count")
  /\ UNCHANGED <<closed, idle, idleSize, used, lastGet, registered, open,
                 uconn, ioErr, victim, chkVars, addVars>>

\* getToken gives up: the context ends while waiting, or ErrPoolLimit.
GetTokenFails(u) ==
  /\ upc[u] = "token" /\ MaxActive > 0
  /\ Wait \/ tokens >= MaxActive
  /\ GoTo(u, "out")
  /\ UNCHANGED <<poolVars, open, uconn, ioErr, victim, chkVars, addVars>>

\* get: record the time and count the connection as used.
CountUsed(u) ==
  /\ upc[u] = "count"
  /\ lastGet' = "fresh" /\ used' = used + 1
  /\ GoTo(u, "pop")
  /\ UNCHANGED <<closed, idle, idleSize, tokens, registered, open,
                 uconn, ioErr, victim, chkVars, addVars>>

\* Mutant: the head is taken and not popped.
PopIdlePeek(u) ==
  /\ upc[u] = "pop"
  /\ IF idle # <<>>
     THEN Hold(u, Head(idle)) /\ GoTo(u, "fast")
     ELSE GoTo(u, "new") /\ UNCHANGED uconn
  /\ UNCHANGED <<poolVars, open, ioErr, victim, chkVars, addVars>>

\* getIdleConn under the lock: the head of the list, or nothing.
PopIdle(u) ==
  /\ upc[u] = "pop"
  /\ IF idle # <<>>
     THEN /\ Hold(u, Head(idle)) /\ idle' = Tail(idle)
          /\ idleSize' = idleSize - 1
          /\ GoTo(u, "fast")
     ELSE GoTo(u, "new") /\ UNCHANGED <<uconn, idle, idleSize>>
  /\ UNCHANGED <<closed, tokens, used, lastGet, registered, open,
                 ioErr, victim, chkVars, addVars>>

\* getIdleConn outside the lock: the fast probe keeps or closes it.
FastCheck(u) ==
  /\ upc[u] = "fast"
  /\ \/ GoTo(u, "using") /\ UNCHANGED <<open, uconn>>
     \/ Kill(uconn[u]) /\ Hold(u, NoConn) /\ GoTo(u, "pop")
  /\ UNCHANGED <<poolVars, ioErr, victim, chkVars, addVars>>

\* getNewConn: refuse on a closed pool.
NewConn(u) ==
  /\ upc[u] = "new"
  /\ GoTo(u, IF closed THEN "undo" ELSE "dial")
  /\ UNCHANGED <<poolVars, open, uconn, ioErr, victim, chkVars, addVars>>

DialForUser(u) ==
  /\ upc[u] = "dial"
  /\ \/ \E c \in Conn : Fresh(c) /\ Born(c) /\ Hold(u, c) /\ GoTo(u, "using")
     \/ GoTo(u, "undo") /\ UNCHANGED <<open, uconn>>
  /\ UNCHANGED <<poolVars, ioErr, victim, chkVars, addVars>>

\* freeToken receives from the token channel: it blocks on an empty one.
FreeToken ==
  IF MaxActive = 0 THEN UNCHANGED tokens ELSE tokens > 0 /\ tokens' = tokens - 1

\* get after getNewConn failed: the token goes back, used stays.
GetFails(u) ==
  /\ upc[u] = "undo"
  /\ FreeToken
  /\ GoTo(u, "out")
  /\ UNCHANGED <<closed, idle, idleSize, used, lastGet, registered, open,
                 uconn, ioErr, victim, chkVars, addVars>>
-----------------------------------------------------------------------------
\* Read, Write or ReadFrame fails on a PoolConn that is not closed: put(pc, true).
IOFails(u) ==
  /\ upc[u] = "using" /\ uconn[u] \in open
  /\ ioErr' = ioErr \cup {u}
  /\ GoTo(u, "put")
  /\ UNCHANGED <<poolVars, open, uconn, victim, chkVars, addVars>>

\* PoolConn.Close: ErrConnClosed, ErrConnInPool, or put(pc, forceClose).
CloseConn(u) ==
  /\ upc[u] = "using"
  /\ IF uconn[u] \notin open \/ uconn[u] \in Listed
     THEN GoTo(u, "out") /\ Hold(u, NoConn)
     ELSE GoTo(u, "put") /\ UNCHANGED uconn
  /\ UNCHANGED <<poolVars, open, ioErr, victim, chkVars, addVars>>

\* Mutant: put lists in a closed pool.
PutLockedUnchecked(u) ==
  /\ upc[u] = "put"
  /\ IF ForceClose \/ u \in ioErr
     THEN /\ victim' = [victim EXCEPT ![u] = uconn[u]]
          /\ UNCHANGED <<idle, idleSize>>
     ELSE /\ idle' = Push(idle, uconn[u]) /\ idleSize' = idleSize + 1
          /\ UNCHANGED victim
  /\ GoTo(u, "release")
  /\ UNCHANGED <<closed, tokens, used, lastGet, registered, open,
                 uconn, ioErr, chkVars, addVars>>

\* put under the lock: list the connection, evict the tail when the pool has
\* MaxIdle idle ones; a closed pool or a forced close lists nothing.
PutLocked(u) ==
  /\ upc[u] = "put"
  /\ IF closed \/ ForceClose \/ u \in ioErr
     THEN /\ victim' = [victim EXCEPT ![u] = uconn[u]]
          /\ UNCHANGED <<idle, idleSize>>
     ELSE LET l == Push(idle, uconn[u]) IN
          IF idleSize >= MaxIdle
          THEN /\ victim' = [victim EXCEPT ![u] = Last(l)]
               /\ idle' = Front(l) /\ UNCHANGED idleSize
          ELSE /\ idle' = l /\ idleSize' = idleSize + 1
               /\ UNCHANGED victim
  /\ GoTo(u, "release")
  /\ UNCHANGED <<closed, tokens, used, lastGet, registered, open,
                 uconn, ioErr, chkVars, addVars>>

\* Mutant: put does not free the token.
PutReleaseKeepsToken(u) ==
  /\ upc[u] = "release"
  /\ IF victim[u] = NoConn THEN UNCHANGED open ELSE Kill(victim[u])
  /\ victim' = [victim EXCEPT ![u] = NoConn]
  /\ GoTo(u, "uncount")
  /\ UNCHANGED <<poolVars, uconn, ioErr, chkVars, addVars>>

\* put after the unlock: close the victim and free the token.
PutRelease(u) ==
  /\ upc[u] = "release"
  /\ IF victim[u] = NoConn THEN UNCHANGED open ELSE Kill(victim[u])
  /\ victim' = [victim EXCEPT ![u] = NoConn]
  /\ FreeToken
  /\ GoTo(u, "uncount")
  /\ UNCHANGED <<closed, idle, idleSize, used, lastGet, registered,
                 uconn, ioErr, chkVars, addVars>>

\* put ends: a failed Read or Write returns to its caller, Close is over.
PutUncount(u) ==
  /\ upc[u] = "uncount"
  /\ used' = used - 1
  /\ IF u \in ioErr THEN GoTo(u, "using") /\ UNCHANGED uconn
                 ELSE GoTo(u, "out") /\ Hold(u, NoConn)
  /\ ioErr' = ioErr \ {u}
  /\ UNCHANGED <<closed, idle, idleSize, tokens, lastGet, registered, open,
                 victim, chkVars, addVars>>
-----------------------------------------------------------------------------
\* keepMinIdles under the lock: reserve the missing connections in idleSize
\* and start one addIdleConn goroutine for each.
KeepMinIdles ==
  LET count == MinIdle - idleSize IN
  IF count > 0
  THEN /\ idleSize' = MinIdle
       /\ adding' = [adding EXCEPT !["start"] = @ + count]
  ELSE UNCHANGED <<idleSize, adding>>

FirstTopUp ==
  /\ topUp /\ topUp' = FALSE
  /\ KeepMinIdles
  /\ UNCHANGED <<closed, idle, tokens, used, lastGet, registered, open,
                 userVars, chkVars, added>>

MoveAdder(from, to) == adding' = [adding EXCEPT ![from] = @ - 1, ![to] = @ + 1]

\* addIdleConn: ErrPoolClosed, or dial.
AddStart ==
  /\ adding["start"] > 0
  /\ MoveAdder("start", IF closed THEN "fail" ELSE "dial")
  /\ UNCHANGED <<poolVars, open, userVars, chkVars, topUp, added>>

AddDial ==
  /\ adding["dial"] > 0
  /\ \/ \E c \in Conn :
          /\ Fresh(c) /\ Born(c) /\ added' = added \cup {c}
          /\ adding' = [adding EXCEPT !["dial"] = @ - 1]
     \/ MoveAdder("dial", "fail") /\ UNCHANGED <<open, added>>
  /\ UNCHANGED <<poolVars, userVars, chkVars, topUp>>

\* Mutant: closed is not tested again after the dial.
AddListUnchecked(c) ==
  /\ c \in added /\ added' = added \ {c}
  /\ idle' = Push(idle, c)
  /\ UNCHANGED <<closed, idleSize, tokens, used, lastGet, registered, open,
                 userVars, chkVars, topUp, adding>>

\* addIdleConn lists what it dialed, or closes it if the pool was closed
\* meanwhile.  idleSize was raised beforehand.
AddList(c) ==
  /\ c \in added /\ added' = added \ {c}
  /\ IF closed THEN Kill(c) /\ UNCHANGED idle
               ELSE idle' = Push(idle, c) /\ UNCHANGED open
  /\ UNCHANGED <<closed, idleSize, tokens, used, lastGet, registered,
                 userVars, chkVars, topUp, adding>>

\* The error branch of the goroutine: give the reservation back.
AddFails ==
  /\ adding["fail"] > 0
  /\ adding' = [adding EXCEPT !["fail"] = @ - 1]
  /\ idleSize' = idleSize - 1
  /\ UNCHANGED <<closed, idle, tokens, used, lastGet, registered, open,
                 userVars, chkVars, topUp, added>>
-----------------------------------------------------------------------------
\* checkRoutine wakes up and reads closed.
CheckWake ==
  /\ cpc = "sleep"
  /\ cpc' = IF closed THEN "exit" ELSE "count"
  /\ UNCHANGED <<poolVars, open, userVars, cconn, cleft, detached, addVars>>

\* The loop head of checkHealthOnce, reached with the lock held, the list l,
\* the size s and n iterations to go: pop the head and unlock, or finish.
HealthLoop(l, s, n) ==
  IF n > 0 /\ l # <<>>
  THEN /\ cconn' = Head(l) /\ idle' = Tail(l) /\ idleSize' = s - 1
       /\ cleft' = n - 1 /\ cpc' = "check"
  ELSE /\ cconn' = NoConn /\ idle' = l /\ idleSize' = s
       /\ cleft' = 0 /\ cpc' = "timeout"

CheckHealth ==
  /\ cpc = "count"
  /\ HealthLoop(idle, idleSize, Len(idle))
  /\ UNCHANGED <<closed, tokens, used, lastGet, registered, open,
                 userVars, detached, addVars>>

\* The probe passes: back to the tail, whatever happened to the pool or the
\* size of its list meanwhile, and on to the next one under the same lock.
CheckPasses ==
  /\ cpc = "check"
  /\ HealthLoop(Append(idle, cconn), idleSize + 1, cleft)
  /\ UNCHANGED <<closed, tokens, used, lastGet, registered, open,
                 userVars, detached, addVars>>

\* The probe fails (peer closed, idle too long, too old): close it.
CheckKills ==
  /\ cpc = "check"
  /\ Kill(cconn)
  /\ HealthLoop(idle, idleSize, cleft)
  /\ UNCHANGED <<closed, tokens, used, lastGet, registered,
                 userVars, detached, addVars>>

\* checkPoolIdleTimeout: nobody called Get for poolIdleTimeout, nothing used.
CheckTimeout ==
  /\ cpc = "timeout"
  /\ cpc' = IF lastGet = "stale" /\ used = 0 THEN "destroy" ELSE "minidle"
  /\ UNCHANGED <<poolVars, open, userVars, cconn, cleft, detached, addVars>>

\* onCloseFunc takes the pool out of the factory's map.
CheckUnregister ==
  /\ cpc = "destroy"
  /\ registered' = FALSE /\ cpc' = "close"
  /\ UNCHANGED <<closed, idle, idleSize, tokens, used, lastGet, open,
                 userVars, cconn, cleft, detached, addVars>>

\* Close under the lock: detach the list.
CloseLocked ==
  /\ cpc = "close" /\ cpc' = "walk"
  /\ closed' = TRUE /\ idle' = <<>> /\ idleSize' = 0
  /\ detached' = idle
  /\ UNCHANGED <<tokens, used, lastGet, registered, open, userVars,
                 cconn, cleft, addVars>>

\* Close after the unlock: walk the detached list.
CloseWalk ==
  /\ cpc = "walk"
  /\ IF detached = <<>>
     THEN cpc' = "exit" /\ UNCHANGED <<open, detached>>
     ELSE Kill(Head(detached)) /\ detached' = Tail(detached) /\ UNCHANGED cpc
  /\ UNCHANGED <<poolVars, userVars, cconn, cleft, addVars>>

CheckMinIdle ==
  /\ cpc = "minidle" /\ cpc' = "sleep"
  /\ IF MinIdle = 0 THEN UNCHANGED <<idleSize, adding>> ELSE KeepMinIdles
  /\ UNCHANGED <<closed, idle, tokens, used, lastGet, registered, open,
                 userVars, cconn, cleft, detached, topUp, added>>

\* poolIdleTimeout elapses since the last Get.
TimePasses ==
  /\ lastGet = "fresh" /\ lastGet' = "stale"
  /\ UNCHANGED <<closed, idle, idleSize, tokens, used, registered, open,
                 userVars, chkVars, addVars>>
-----------------------------------------------------------------------------
GetStep(u) == CountUsed(u) \/ PopIdle(u) \/ FastCheck(u) \/ NewConn(u)
                \/ DialForUser(u) \/ GetFails(u)
PutStep(u) == PutLocked(u) \/ PutRelease(u) \/ PutUncount(u)
UserStep(u) == \/ Lookup(u) \/ AcquireToken(u) \/ GetTokenFails(u)
               \/ GetStep(u) \/ IOFails(u) \/ CloseConn(u) \/ PutStep(u)
AddStep == FirstTopUp \/ AddStart \/ AddDial \/ AddFails \/ \E c \in Conn : AddList(c)
CheckStep == \/ CheckWake \/ CheckHealth \/ CheckPasses \/ CheckKills \/ CheckTimeout
             \/ CheckUnregister \/ CloseLocked \/ CloseWalk \/ CheckMinIdle

Next == (\E u \in User : UserStep(u)) \/ AddStep \/ CheckStep \/ TimePasses

\* Goroutines inside the pool keep running, a user gives its connection back
\* (tcpRoundTrip defers Close under a deadline), time passes, and the runtime
\* serves the senders blocked on the token channel in order.  Nobody is
\* obliged to call Get.
Fairness ==
  /\ \A u \in User : /\ WF_vars(GetStep(u)) /\ WF_vars(PutStep(u))
                     /\ WF_vars(CloseConn(u)) /\ SF_vars(AcquireToken(u))
  /\ WF_vars(AddStep) /\ WF_vars(CheckStep) /\ WF_vars(TimePasses)

Spec == Init /\ [][Next]_vars
FairSpec == Spec /\ Fairness
-----------------------------------------------------------------------------
\* The users between getToken and freeToken, and between the two updates of
\* used.  A connection whose Read or Write failed was already given back.
HoldsToken(u) ==
  \/ upc[u] \in {"count", "pop", "fast", "new", "dial", "undo", "put", "release"}
  \/ upc[u] = "using" /\ uconn[u] \in open
TokenHolders == {u \in User : HoldsToken(u)}

\* Every token in the channel belongs to exactly one Get that has not been
\* undone: failed dials, evictions and forced closes give theirs back once.
\* So MaxActive bounds the connections that are in users' hands at once.
TokensAccounted ==
  MaxActive > 0 =>
    /\ tokens = Cardinality(TokenHolders)
    /\ Cardinality({u \in User : upc[u] = "using" /\ uconn[u] \in open}) <= MaxActive

\* idleSize counts the listed connections and the top-ups still under way, so
\* that neither put nor keepMinIdles decides on a wrong number.
SizeAccounted == ~closed => idleSize = Len(idle) + Pending

Probing == IF cpc = "check" THEN 1 ELSE 0
IdleLimit == IF MinIdle > MaxIdle THEN MinIdle ELSE MaxIdle

\* The idle list overshoots its limit by at most the one connection that the
\* checker took out to probe and lists again without looking at MaxIdle.
IdleBounded == ~closed => idleSize + Probing <= IdleLimit + 1

\* used never undercounts: the pool is not judged unused while somebody holds
\* one of its connections.
UsedCoversUsers ==
  used >= Cardinality({u \in User : upc[u] \in {"pop", "fast", "using", "put", "release"}
                                     /\ uconn[u] \in open})

\* The places a connection can be.
Owners(c) ==
  Cardinality({i \in 1..Len(idle) : idle[i] = c})
  + Cardinality({i \in 1..Len(detached) : detached[i] = c})
  + Cardinality({u \in User : uconn[u] = c /\ upc[u] \in {"fast", "using", "put"}})
  + Cardinality({u \in User : victim[u] = c})
  + (IF c \in added THEN 1 ELSE 0)
  + (IF cconn = c THEN 1 ELSE 0)

\* An open connection is in exactly one place: never listed twice, never
\* listed while a user holds it, never in two users' hands, never forgotten.
OneOwner == \A c \in open : Owners(c) = 1

\* What Get takes from the list, or put and the checker work on, is alive.
ListedIsOpen == Listed \subseteq open

\* A closed pool is never found through the factory's map.
ClosedIsUnregistered == closed => ~registered

\* Close leaves nothing behind: nothing is listed in a closed pool.
ClosedListsNothing == closed => idle = <<>>

\* The inductive strengthening of the three bounds above: who may close the
\* pool, and when, keeps late pushes out of a closed pool.
SizeInv ==
  /\ TypeOK /\ SizeAccounted /\ IdleBounded
  /\ closed => idle = <<>> /\ cpc \in {"walk", "exit"}
  /\ closed \/ cpc \in {"close", "walk"} => ~registered

\* No connection twice in a list.
NoDup(l) == \A i, j \in 1..Len(l) : l[i] = l[j] => i = j

\* The connections that nobody holds: listed, detached, just dialed or probed.
Kept == Listed \cup Detached \cup added \cup {cconn}
Holding(u) == upc[u] \in {"fast", "using", "put"}

\* The strengthening of OneOwner and ListedIsOpen, place by place.  The keeping
\* places hold open connections and share none,
KeptApart ==
  /\ NoDup(idle) /\ NoDup(detached)
  /\ Kept \subseteq open \cup {NoConn}
  /\ Listed \cap Detached = {} /\ (Listed \cup Detached) \cap added = {}
  /\ cconn \notin Listed \cup Detached \cup added

\* an open connection in a user's hands is in no other place, and a user that
\* failed to read or write has its connection closed before it goes on,
HeldApart ==
  /\ \A u \in User : upc[u] \in {"fast", "put"} => uconn[u] \in open
  /\ \A u \in User : Holding(u) /\ uconn[u] \in open => uconn[u] \notin Kept
  /\ \A u, v \in User : Holding(u) /\ Holding(v) /\ uconn[u] \in open /\ uconn[u] = uconn[v] => u = v
  /\ \A u \in ioErr : \/ upc[u] = "put"
                      \/ upc[u] = "release" /\ victim[u] = uconn[u]
                      \/ upc[u] = "uncount" /\ uconn[u] \notin open

\* what put is about to close is open and out of everybody's reach,
VictimsApart ==
  \A u \in User : victim[u] # NoConn =>
    /\ upc[u] = "release" /\ victim[u] \in open \ Kept
    /\ \A v \in User : /\ victim[v] = victim[u] => u = v
                       /\ Holding(v) => uconn[v] # victim[u]

\* and an open connection is in one of these places.
NoneForgotten ==
  \A c \in open : \/ c \in Kept
                  \/ \E u \in User : (Holding(u) /\ uconn[u] = c) \/ victim[u] = c

OwnInv == KeptApart /\ HeldApart /\ VictimsApart /\ NoneForgotten

\* The strengthening of TokensAccounted and UsedCoversUsers: a Get that fails
\* leaves used too high, nothing leaves it too low.
Counted(u) ==
  \/ upc[u] \in {"pop", "fast", "new", "dial", "put", "release", "uncount"}
  \/ upc[u] = "using" /\ uconn[u] \in open
CountInv ==
  /\ MaxActive > 0 => tokens = Cardinality(TokenHolders) /\ tokens <= MaxActive
  /\ used >= Cardinality({u \in User : Counted(u)})

\* The inductive invariant of the pool.
IInv == SizeInv /\ OwnInv /\ CountInv

\* Every token is accounted for, used covers the connections in users' hands, no
\* connection has two owners, and a listed connection is open.
ConnectionsOwned == TokensAccounted /\ UsedCoversUsers /\ OneOwner /\ ListedIsOpen

\* A Get that waits for a token gets one, as long as users give theirs back.
WaiterServed == \A u \in User : upc[u] = "token" ~> upc[u] # "token"

\* After the pool is closed every one of its sockets is closed, whatever dials
\* and probes were under way at that moment.
ClosedPoolDrains == closed ~> open = {}
-----------------------------------------------------------------------------
\* The users are interchangeable, and so are the connections.
Permuted(S) == {p : p \in {f \in [S -> S] : \A x \in S : \E y \in S : f[y] = x}}
Symmetry == Permuted(User) \cup Permuted(Conn)
=============================================================================

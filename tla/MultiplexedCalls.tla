-------------------------- MODULE MultiplexedCalls --------------------------
(***************************************************************************)
(* Lemmas about Multiplexed for any number of calls, connections and       *)
(* failures and all options of the pool: the steps of calls that only     *)
(* look, those of reading and writing goroutines, and those that make      *)
(* Connections keep MuxInv.                                                *)
(***************************************************************************)
EXTENDS Multiplexed, TLAPS

\* The ids of two calls differ, as those that a client's codec gives out do.
DistinctIds == \A u, v \in Call : Vid[u] = Vid[v] => u = v
\* Idle connections are only removed where closing them ends their socket.
IdleRemovalOnStreams == Streams \subseteq {TRUE} \/ MaxIdle = 0 \/ MaxVirConns = 0

\* An update of one entry of a table of tables.
LEMMA Update2 ==
  ASSUME NEW A, NEW B, NEW T, NEW f \in [A -> [B -> T]], NEW a \in A, NEW b \in B, NEW x \in T
  PROVE  /\ [f EXCEPT ![a][b] = x] \in [A -> [B -> T]]
         /\ \A d \in A, e \in B : [f EXCEPT ![a][b] = x][d][e] = IF d = a /\ e = b THEN x ELSE f[d][e]
  BY Zenon

\* Sockets are numbered from 0.
LEMMA ZeroGen == 0 \in Gen /\ Gen \subseteq Nat
  BY OptionAssumption DEF Gen

\* A goroutine that has ended, or is at pc with nothing in hand.
LEMMA OffType ==
  ASSUME NEW pcs, NEW pc \in pcs
  PROVE  /\ [Off EXCEPT !.at = pc] = [at |-> pc, s |-> 0, u |-> None]
         /\ [Off EXCEPT !.at = pc] \in Thread(pcs)
         /\ "off" \in pcs => Off \in Thread(pcs)
  BY ZeroGen DEF Off, Thread

\* The bounds are numbers.
LEMMA Bounds ==
  /\ MaxConns \in Nat /\ ConnectNumber \in Nat /\ ConnectNumber > 0 /\ MaxReconnect \in Nat /\ MaxReconnect > 0
  /\ QueueSize \in Nat /\ MaxVirConns \in Nat /\ MaxIdle \in Nat /\ MaxBreak \in Nat
  /\ SlowDial \in BOOLEAN /\ DialMayFail \in BOOLEAN /\ DropFull \in BOOLEAN
  BY OptionAssumption

\* Connections are numbered.
LEMMA ConnNat == Conn \subseteq Nat
  BY Bounds DEF Conn

\* The pool starts with the types.
LEMMA InitType == Init => TypeOK
<1> SUFFICES ASSUME Init PROVE TypeOK
  BY Zenon
<1>1. CsType
  <2>1. /\ registered = FALSE /\ inc = 0 /\ conns = <<>> /\ idle = 0 /\ rr = 0
        /\ expelled = FALSE /\ csmu = None /\ made = 0
    BY Zenon DEF Init
  <2>2. 0 \in 0..MaxConns /\ 0 \in Nat /\ 0 \in Int /\ <<>> \in Seq(Conn)
    BY Bounds
  <2> QED BY <2>1, <2>2, Zenon DEF CsType
<1>5. EndType
  <2>1. 0 \in 0..MaxBreak
    BY Bounds
  <2> QED BY <2>1, Zenon DEF Init, EndType
<1>4. CallType
  BY ZeroGen, Zenon DEF Init, CallType
<1>2. ThreadType
  <2>1. Off \in Thread({"off", "check", "parse", "deliver", "error", "redial"})
    BY OffType, Zenon
  <2>2. Off \in Thread({"off", "loop", "select", "write", "error", "redial"})
    BY OffType, Zenon
  <2>3. rpc = [c \in Conn |-> [g \in Gen |-> Off]] /\ wpc = rpc
    BY Zenon DEF Init
  <2>4. \A c \in Conn, g \in Gen : wpc[c][g].at # "write"
    BY <2>3, Zenon DEF Off
  <2> QED BY <2>1, <2>2, <2>3, <2>4 DEF Init, ThreadType
<1>3. ConnType
  BY Bounds, ZeroGen DEF Init, ConnType
<1> QED BY <1>1, <1>2, <1>3, <1>4, <1>5, Zenon DEF TypeOK

-----------------------------------------------------------------------------
(* What does not touch the variables of an invariant keeps it.             *)

\* MapInv depends on the map, the list and where the Connections stand only.
LEMMA MapFrame ==
  ASSUME MapInv, UNCHANGED <<registered, inc, conns, expelled, made, fate, dial, isIdle, closed>>
  PROVE  MapInv'
  BY DEF MapInv, NoConnectionLost, Listed

\* RedialInv depends on the goroutines, fate and closed only.
LEMMA RedialFrame ==
  ASSUME RedialInv, UNCHANGED <<fate, closed, rpc, wpc>>
  PROVE  RedialInv'
  BY DEF RedialInv, MuFree

\* ShutInv depends on the sockets, the goroutines and the flags only.
LEMMA ShutFrame ==
  ASSUME ShutInv, UNCHANGED <<crashed, shut, gen, isStream, closed, fate, dial, sock, rpc, wpc>>
  PROVE  ShutInv'
  BY Zenon DEF ShutInv

\* SocketInv depends on the counters, fate and the goroutines only.
LEMMA SocketFrame ==
  ASSUME SocketInv, UNCHANGED <<gen, breaks, fate, count, rpc, wpc>>
  PROVE  SocketInv'
  BY Zenon DEF SocketInv, MuFree

\* NoOrphan depends on the calls and their Connections only.
LEMMA OrphanFrame ==
  ASSUME NoOrphan, UNCHANGED <<cpc, cancelled, virs, uconn, closed>>
  PROVE  NoOrphan'
  BY Zenon DEF NoOrphan, InUse

\* CallInv depends on the calls and on what they hold of the pool only.
LEMMA CallFrame ==
  ASSUME CallInv, UNCHANGED <<cpc, uconn, made, ucs, inc, csmu, registered, expelled, idx>>
  PROVE  CallInv'
  BY Zenon DEF CallInv

\* Connections and their goroutines are left alone.
LEMMA ConnFrame ==
  ASSUME MuxInv, UNCHANGED <<registered, inc, conns, expelled, made, connVars, rpc, wpc, breaks, crashed, isStream>>
  PROVE  MapInv' /\ RedialInv' /\ ShutInv' /\ SocketInv' /\ ConnType'
<1>1. MapInv'
  BY MapFrame, Zenon DEF MuxInv, connVars
<1>2. RedialInv'
  BY RedialFrame, Zenon DEF MuxInv, connVars
<1>3. ShutInv'
  BY ShutFrame, Zenon DEF MuxInv, connVars
<1>4. SocketInv'
  BY SocketFrame, Zenon DEF MuxInv, connVars
<1>5. ConnType'
  BY Zenon DEF MuxInv, TypeOK, ConnType, connVars
<1> QED BY <1>1, <1>2, <1>3, <1>4, <1>5, Zenon

-----------------------------------------------------------------------------
(* Steps of a call that leave the Connections alone.                       *)

\* The Connection of a call that has picked one.
LEMMA Picked ==
  ASSUME MuxInv, NEW u \in Call, cpc[u] \in {"new", "open", "send", "reading", "closing"}
  PROVE  uconn[u] \in Conn /\ uconn[u] <= made
<1>1. uconn[u] \in 1..made
  BY Zenon DEF MuxInv, CallInv
<1>2. made \in 0..MaxConns
  BY Zenon DEF MuxInv, TypeOK, CsType
<1> QED BY <1>1, <1>2, Bounds DEF Conn

\* The Connections in the list.
LEMMA ListedMade ==
  ASSUME MuxInv
  PROVE  \A i \in 1..Len(conns) : conns[i] \in 1..made
<1> SUFFICES ASSUME NEW i \in 1..Len(conns) PROVE conns[i] \in 1..made
  BY Zenon
<1>1. conns \in Seq(Conn) /\ conns[i] \in Conn /\ made \in Nat
  BY DEF MuxInv, TypeOK, CsType
<1>2. conns[i] \in Listed
  BY <1>1 DEF Listed
<1>3. ~(conns[i] > made)
  BY <1>1, <1>2, Zenon DEF MuxInv, MapInv, NoConnectionLost
<1> QED BY <1>1, <1>3 DEF Conn

QuietCall(u) ==
  \/ Get(u) \/ Reload(u) \/ PickExpelled(u) \/ PickScan(u) \/ CanGetVirConn(u)
  \/ Write(u) \/ SendQueued(u) \/ SendFails(u) \/ Read(u) \/ Timeout(u)

\* A step of a call that makes and closes nothing keeps the types.
LEMMA QuietCallType ==
  ASSUME MuxInv, NEW u \in Call, QuietCall(u), UNCHANGED isStream
  PROVE  TypeOK'
<1>t. CsType /\ ConnType /\ ThreadType /\ CallType /\ EndType
  BY Zenon DEF MuxInv, TypeOK
<1>1. UNCHANGED <<registered, inc, conns, idle, rr, expelled, made, connVars, rpc, wpc, wire, breaks, crashed, isStream>>
  BY Zenon DEF QuietCall, Get, Reload, PickExpelled, PickScan, CanGetVirConn, Write, SendQueued, SendFails,
         Read, Timeout, csVars, threadVars, endVars
<1>2. CsType'
  <2>1. csmu' \in {csmu, u, None}
    BY Zenon DEF QuietCall, Get, Reload, PickExpelled, PickScan, CanGetVirConn, Write, SendQueued, SendFails,
           Read, Timeout, csVars
  <2> QED BY <1>t, <1>1, <2>1, Zenon DEF CsType
<1>3. ThreadType'
  <2>1. CASE SendQueued(u)
    <3>1. uconn[u] \in Conn => Append(wbuf[uconn[u]], u) \in Seq(Call)
      BY <1>t DEF ThreadType
    <3> QED BY <1>t, <1>1, <2>1, <3>1, Zenon DEF SendQueued, ThreadType
  <2>2. CASE ~SendQueued(u)
    <3>1. UNCHANGED wbuf
      BY <2>2, Zenon DEF QuietCall, Get, Reload, PickExpelled, PickScan, CanGetVirConn, Write, SendFails,
           Read, Timeout, threadVars
    <3> QED BY <1>t, <1>1, <3>1, Zenon DEF ThreadType
  <2> QED BY <2>1, <2>2, Zenon
<1>4. EndType'
  <2>1. cancelled' \in {cancelled, cancelled \ {u}, cancelled \cup {u}} /\ got' \in {got, got \ {u}}
    BY Zenon DEF QuietCall, Get, Reload, PickExpelled, PickScan, CanGetVirConn, Write, SendQueued, SendFails,
           Read, Timeout, Leave, endVars
  <2> QED BY <1>t, <1>1, <2>1, Zenon DEF EndType
<1>5. ConnType'
  BY <1>t, <1>1, Zenon DEF ConnType, connVars
<1>6. CallType'
  <2>1. CASE Get(u) \/ Reload(u) \/ PickExpelled(u) \/ PickScan(u)
    <3>1. cpc' \in [Call -> {"idle", "init", "reload", "pick", "scan", "new", "open", "send", "reading", "closing", "done"}]
      BY <1>t, <2>1, Zenon DEF CallType, Get, Reload, PickExpelled, PickScan, Go, Leave
    <3>2. uconn' \in [Call -> Conn \cup {None}] /\ chan' \in [Call -> Gen]
      BY <1>t, <2>1, ZeroGen DEF CallType, Get, Reload, PickExpelled, PickScan, Leave
    <3>3. ucs' \in [Call -> Nat]
      <4>1. ucs' \in {ucs, [ucs EXCEPT ![u] = inc], [ucs EXCEPT ![u] = 0]}
        BY <2>1, Zenon DEF Get, Reload, PickExpelled, PickScan, Leave
      <4>2. inc \in Nat
        BY <1>t, Zenon DEF CsType
      <4> QED BY <1>t, <4>1, <4>2, SMTT(30) DEF CallType
    <3>4. idx' \in [Call -> Nat]
      BY <1>t, <2>1 DEF CallType, Get, Reload, PickExpelled, PickScan, Leave
    <3> QED BY <3>1, <3>2, <3>3, <3>4, Zenon DEF CallType
  <2>2. CASE CanGetVirConn(u)
    <3>1. idx[u] # 0 /\ idx[u] <= Len(conns) => conns[idx[u]] \in Conn
      BY <1>t DEF CsType, CallType
    <3>2. idx[u] # 0 /\ idx[u] + 1 \in Nat
      BY <1>t, <2>2, SMTT(30) DEF MuxInv, CallInv, CanGetVirConn, CallType
    <3>3. cpc' \in [Call -> {"idle", "init", "reload", "pick", "scan", "new", "open", "send", "reading", "closing", "done"}]
      BY <1>t, <2>2, Zenon DEF CallType, CanGetVirConn, Go
    <3>4. uconn' \in [Call -> Conn \cup {None}] /\ UNCHANGED <<chan, ucs>>
      BY <1>t, <2>2, <3>1, <3>2, Zenon DEF CallType, CanGetVirConn
    <3>5. idx' \in [Call -> Nat]
      BY <1>t, <2>2, <3>2, SMTT(30) DEF CallType, CanGetVirConn
    <3> QED BY <1>t, <3>3, <3>4, <3>5, Zenon DEF CallType
  <2>3. CASE Write(u) \/ SendQueued(u) \/ SendFails(u) \/ Read(u) \/ Timeout(u)
    <3>1. cpc[u] = "open" => gen[uconn[u]] \in Gen
      BY <1>t, Picked, Zenon DEF ConnType
    <3> QED BY <1>t, <2>3, <3>1, ZenonT(30) DEF CallType, Write, SendQueued, SendFails, Read, Timeout, Go, callVars
  <2> QED BY <2>1, <2>2, <2>3, Zenon DEF QuietCall
<1> QED BY <1>2, <1>3, <1>4, <1>5, <1>6, Zenon DEF TypeOK

\* ... and MuxInv (Get to Read, and a deadline).
LEMMA QuietCallInv ==
  ASSUME MuxInv, NEW u \in Call, QuietCall(u), UNCHANGED isStream
  PROVE  MuxInv'
<1>t. CsType /\ ConnType /\ ThreadType /\ CallType /\ EndType /\ CallInv /\ NoOrphan
  BY Zenon DEF MuxInv, TypeOK
<1>1. UNCHANGED <<registered, inc, conns, idle, rr, expelled, made, connVars, rpc, wpc, wire, breaks, crashed, isStream>>
  BY Zenon DEF QuietCall, Get, Reload, PickExpelled, PickScan, CanGetVirConn, Write, SendQueued, SendFails,
         Read, Timeout, csVars, threadVars, endVars
<1>2. MapInv' /\ RedialInv' /\ ShutInv' /\ SocketInv' /\ ConnType'
  BY <1>1, ConnFrame, Zenon
<1>o. \A v \in Call : v # u => UNCHANGED <<cpc[v], uconn[v], ucs[v], idx[v]>> /\ (v \in cancelled' <=> v \in cancelled)
  BY <1>t, ZenonT(30) DEF QuietCall, Get, Reload, PickExpelled, PickScan, CanGetVirConn, Write, SendQueued, SendFails,
         Read, Timeout, callVars, endVars, Go, Leave, CallType
<1>3. CallInv'
  <2>1. CASE Get(u) \/ Reload(u) \/ PickExpelled(u)
    <3>1. registered => inc \in 1..inc
      BY <1>t DEF MuxInv, MapInv, CsType
    <3>2. UNCHANGED csmu /\ (cpc'[u] \in {"init", "done"} \/ (cpc'[u] = "pick" /\ registered /\ ucs'[u] = inc))
      <4>1. CASE Get(u)
        BY <1>t, <4>1, Zenon DEF Get, Go, CallType, csVars
      <4>2. CASE Reload(u)
        BY <1>t, <4>2, Zenon DEF Reload, Go, Leave, CallType, csVars
      <4>3. CASE PickExpelled(u)
        BY <1>t, <4>3, Zenon DEF PickExpelled, Go, Leave, CallType, csVars
      <4> QED BY <2>1, <4>1, <4>2, <4>3, Zenon
    <3> QED BY <1>t, <1>1, <1>o, <3>1, <3>2, ZenonT(30) DEF CallInv
  <2>2. CASE PickScan(u)
    <3>1. registered
      BY <1>t, <2>2 DEF MuxInv, MapInv, PickScan, CallInv, CsType
    <3>2. \A v \in Call : cpc[v] # "scan"
      BY <1>t, <2>2, NoneAssumption, Zenon DEF PickScan, CallInv
    <3>3. cpc'[u] = "scan" /\ csmu' = u /\ ~expelled /\ idx'[u] = 1 /\ ucs'[u] = ucs[u] /\ cpc[u] = "pick"
      BY <1>t, <2>2, Zenon DEF PickScan, Go, CallType
    <3> QED BY <1>t, <1>1, <1>o, <3>1, <3>2, <3>3, SMTT(60) DEF CallInv
  <2>3. CASE CanGetVirConn(u)
    <3>1. cpc[u] = "scan" /\ csmu = u /\ idx[u] \in Nat /\ idx[u] # 0
      BY <1>t, <2>3, Zenon DEF CanGetVirConn, CallInv, CallType
    <3>2. \A v \in Call : v # u => cpc[v] # "scan"
      BY <1>t, <3>1, Zenon DEF CallInv
    <3>3. CASE cpc'[u] = "new"
      <4>1. uconn'[u] = conns[idx[u]] /\ idx[u] \in 1..Len(conns)
        BY <1>t, <2>3, <3>1, <3>3 DEF CanGetVirConn, CallType, CsType
      <4>2. uconn'[u] \in 1..made
        BY <4>1, ListedMade, Zenon
      <4> QED BY <1>t, <1>1, <1>o, <3>2, <3>3, <4>2, Zenon DEF CallInv
    <3>4. CASE cpc'[u] # "new"
      <4>1. UNCHANGED <<cpc, csmu>> /\ ucs'[u] = ucs[u] /\ idx'[u] = idx[u] + 1
        BY <1>t, <2>3, <3>4, Zenon DEF CanGetVirConn, Go, CallType
      <4> QED BY <1>t, <1>1, <1>o, <3>1, <4>1, SMTT(60) DEF CallInv
    <3> QED BY <3>3, <3>4, Zenon
  <2>4. CASE Write(u) \/ SendQueued(u) \/ SendFails(u) \/ Read(u) \/ Timeout(u)
    <3>1. UNCHANGED <<csmu, uconn, ucs, idx>> /\ cpc[u] \in {"open", "send", "reading"} /\ cpc'[u] \in {"open", "send", "reading", "closing"}
      BY <1>t, <2>4, Zenon DEF Write, SendQueued, SendFails, Read, Timeout, Go, CallType, csVars, callVars
    <3> QED BY <1>t, <1>1, <1>o, <3>1, Zenon DEF CallInv
  <2> QED BY <2>1, <2>2, <2>3, <2>4, Zenon DEF QuietCall
<1>4. NoOrphan'
  <2>1. \/ ~InUse(u)'
        \/ UNCHANGED uconn[u] /\ InUse(u) /\ (u \in cancelled => u \in cancelled')
    BY <1>t, Zenon DEF QuietCall, Get, Reload, PickExpelled, PickScan, CanGetVirConn, Write, SendQueued, SendFails,
         Read, Timeout, callVars, endVars, Go, Leave, CallType, InUse
  <2> QED BY <1>t, <1>1, <1>o, <2>1, Zenon DEF NoOrphan, InUse, connVars
<1> QED BY <1>2, <1>3, <1>4, QuietCallType, Zenon DEF MuxInv

-----------------------------------------------------------------------------
(* Steps of a reading or writing goroutine that does not close.            *)

ReaderPC == {"off", "check", "parse", "deliver", "error", "redial"}
WriterPC == {"off", "loop", "select", "write", "error", "redial"}
QuietReader(c, g) == ReaderCheck(c, g) \/ Parse(c, g) \/ Deliver(c, g) \/ ParseFails(c, g)
QuietWriter(c, g) ==
  WriterLoop(c, g) \/ WriterDone(c, g) \/ WriterTakes(c, g) \/ WriteAll(c, g) \/ WriteFails(c, g)

\* A reader moves on; it meets an error only where sockets break.
LEMMA ReaderMoves ==
  ASSUME MuxInv, NEW c \in Conn, NEW g \in Gen, QuietReader(c, g)
  PROVE  \E x \in Thread(ReaderPC) :
           /\ rpc' = [rpc EXCEPT ![c][g] = x] /\ x.at # "redial" /\ rpc[c][g].at \notin {"off", "redial"}
           /\ x.at = "error" => isStream
<1>t. /\ rpc[c][g] \in Thread(ReaderPC) /\ gen[c] \in Gen
      /\ \A s \in Gen : sock[c][s] \in {"none", "open", "broken", "closed"} /\ wire[c][s] \subseteq Call
  BY DEF MuxInv, TypeOK, ThreadType, ConnType, ReaderPC
<1>1. CASE ReaderCheck(c, g)
  <2>1. Off \in Thread(ReaderPC) /\ Off.at = "off" /\ [at |-> "parse", s |-> gen[c], u |-> None] \in Thread(ReaderPC)
    BY <1>t, ZeroGen, Zenon DEF Off, Thread, ReaderPC
  <2> QED BY <1>1, <2>1, Zenon DEF ReaderCheck
<1>2. CASE Parse(c, g)
  <2>1. PICK u \in wire[c][rpc[c][g].s] : rpc' = [rpc EXCEPT ![c][g] = [at |-> "deliver", s |-> rpc[c][g].s, u |-> u]]
    BY <1>2, Zenon DEF Parse
  <2>2. [at |-> "deliver", s |-> rpc[c][g].s, u |-> u] \in Thread(ReaderPC)
    BY <1>t, Zenon DEF Thread, ReaderPC
  <2> QED BY <1>2, <2>1, <2>2, Zenon DEF Parse
<1>3. CASE Deliver(c, g)
  <2>1. [Off EXCEPT !.at = "check"] \in Thread(ReaderPC) /\ [Off EXCEPT !.at = "check"].at = "check"
    BY OffType, Zenon DEF ReaderPC
  <2> QED BY <1>3, <2>1, Zenon DEF Deliver
<1>4. CASE ParseFails(c, g)
  <2>1. [Off EXCEPT !.at = "error"] \in Thread(ReaderPC) /\ [Off EXCEPT !.at = "error"].at = "error"
    BY OffType, Zenon DEF ReaderPC
  <2>2. rpc[c][g].s \in Gen
    BY <1>t, Zenon DEF Thread
  <2>3. isStream
    BY <1>4, <2>2 DEF ParseFails, MuxInv, ShutInv
  <2> QED BY <1>4, <2>1, <2>3, Zenon DEF ParseFails
<1> QED BY <1>1, <1>2, <1>3, <1>4, Zenon DEF QuietReader

\* So does a writer.
LEMMA WriterMoves ==
  ASSUME MuxInv, NEW c \in Conn, NEW g \in Gen, QuietWriter(c, g)
  PROVE  \E x \in Thread(WriterPC) :
           /\ wpc' = [wpc EXCEPT ![c][g] = x] /\ x.at # "redial" /\ wpc[c][g].at \notin {"off", "redial"}
           /\ x.at = "error" => isStream
           /\ x.at = "write" => x.u \in Call
<1>t. /\ wpc[c][g] \in Thread(WriterPC) /\ gen[c] \in Gen /\ wbuf[c] \in Seq(Call)
  BY Zenon DEF MuxInv, TypeOK, ThreadType, ConnType, WriterPC
<1>1. CASE WriterLoop(c, g)
  <2>1. [at |-> "select", s |-> gen[c], u |-> None] \in Thread(WriterPC)
    BY <1>t, Zenon DEF Thread, WriterPC
  <2> QED BY <1>1, <2>1, Zenon DEF WriterLoop
<1>2. CASE WriterDone(c, g)
  <2>1. Off \in Thread(WriterPC) /\ Off.at = "off"
    BY ZeroGen, Zenon DEF Off, Thread, WriterPC
  <2> QED BY <1>2, <2>1, Zenon DEF WriterDone
<1>3. CASE WriterTakes(c, g)
  <2>1. Head(wbuf[c]) \in Call
    BY <1>3, <1>t DEF WriterTakes
  <2>2. [at |-> "write", s |-> gen[c], u |-> Head(wbuf[c])] \in Thread(WriterPC)
    BY <1>t, <2>1, Zenon DEF Thread, WriterPC
  <2> QED BY <1>3, <2>1, <2>2, Zenon DEF WriterTakes
<1>4. CASE WriteAll(c, g)
  <2>1. [Off EXCEPT !.at = "loop"] \in Thread(WriterPC) /\ [Off EXCEPT !.at = "loop"].at = "loop"
    BY OffType, Zenon DEF WriterPC
  <2> QED BY <1>4, <2>1, Zenon DEF WriteAll
<1>5. CASE WriteFails(c, g)
  <2>1. [Off EXCEPT !.at = "error"] \in Thread(WriterPC) /\ [Off EXCEPT !.at = "error"].at = "error"
    BY OffType, Zenon DEF WriterPC
  <2>2. wpc[c][g].s \in Gen
    BY <1>t, Zenon DEF Thread
  <2>3. isStream
    BY <1>5, <2>2, SMTT(30) DEF WriteFails, MuxInv, ShutInv
  <2> QED BY <1>5, <2>1, <2>3, Zenon DEF WriteFails
<1> QED BY <1>1, <1>2, <1>3, <1>4, <1>5, Zenon DEF QuietWriter

\* Goroutines move, and none starts or ends a reconnection.
LEMMA ThreadFrame ==
  ASSUME MuxInv, UNCHANGED <<csVars, connVars, callVars, cancelled, breaks, crashed, isStream>>,
         \A c \in Conn, g \in Gen :
           /\ \/ rpc'[c][g] = rpc[c][g]
              \/ /\ rpc'[c][g].at # "redial" /\ rpc[c][g].at \notin {"off", "redial"}
                 /\ rpc'[c][g].at = "error" => isStream
           /\ \/ wpc'[c][g] = wpc[c][g]
              \/ /\ wpc'[c][g].at # "redial" /\ wpc[c][g].at \notin {"off", "redial"}
                 /\ wpc'[c][g].at = "error" => isStream,
         got' \subseteq Call, ThreadType'
  PROVE  MuxInv'
<1>1. TypeOK'
  BY ZenonT(30) DEF MuxInv, TypeOK, CsType, ConnType, CallType, EndType, csVars, connVars, callVars
<1>2. CallInv' /\ NoOrphan'
  BY CallFrame, OrphanFrame, ZenonT(30) DEF MuxInv, csVars, connVars, callVars
<1>3. MapInv'
  BY MapFrame, Zenon DEF MuxInv, csVars, connVars
<1>r. /\ \A c \in Conn, g \in Gen : /\ rpc'[c][g].at = "redial" <=> rpc[c][g].at = "redial"
                                    /\ wpc'[c][g].at = "redial" <=> wpc[c][g].at = "redial"
  BY Zenon
<1>m. \A c \in Conn : MuFree(c)' = MuFree(c)
  BY <1>r, Zenon DEF MuFree
<1>4. RedialInv'
  <2>1. RedialInv /\ UNCHANGED <<fate, closed>>
    BY Zenon DEF MuxInv, connVars
  <2>2. \A c \in Conn, g \in Gen : fate[c] = "unused" => rpc'[c][g].at = "off" /\ wpc'[c][g].at = "off"
    BY <2>1, Zenon DEF RedialInv
  <2> QED BY <1>r, <1>m, <2>1, <2>2, SMTT(30) DEF RedialInv
<1>5. ShutInv'
  <2>1. ShutInv /\ UNCHANGED <<shut, gen, dial, closed, fate, sock>>
    BY Zenon DEF MuxInv, connVars
  <2>2. ~isStream => \A c \in Conn, g \in Gen : /\ rpc'[c][g].at \notin {"error", "redial"}
                                                /\ wpc'[c][g].at \notin {"error", "redial"}
    <3> SUFFICES ASSUME ~isStream, NEW c \in Conn, NEW g \in Gen
                 PROVE  rpc'[c][g].at \notin {"error", "redial"} /\ wpc'[c][g].at \notin {"error", "redial"}
      OBVIOUS
    <3>1. {rpc[c][g].at, wpc[c][g].at} \cap {"error", "redial"} = {}
      BY <2>1, Zenon DEF ShutInv
    <3>2. rpc[c][g].at \notin {"error", "redial"} /\ wpc[c][g].at \notin {"error", "redial"}
      BY <3>1, Zenon
    <3> QED BY <1>r, <3>2, Zenon
  <2> QED BY <2>1, <2>2, SMTT(30) DEF ShutInv
<1>6. SocketInv'
  BY <1>m, Zenon DEF MuxInv, SocketInv, connVars
<1> QED BY <1>1, <1>2, <1>3, <1>4, <1>5, <1>6, Zenon DEF MuxInv

\* A goroutine that reads or writes keeps MuxInv (reading, writing).
LEMMA QuietThreadInv ==
  ASSUME MuxInv, NEW c \in Conn, NEW g \in Gen, QuietReader(c, g) \/ QuietWriter(c, g), UNCHANGED isStream
  PROVE  MuxInv'
<1>t. /\ rpc \in [Conn -> [Gen -> Thread(ReaderPC)]] /\ wpc \in [Conn -> [Gen -> Thread(WriterPC)]]
      /\ wbuf \in [Conn -> Seq(Call)] /\ wire \in [Conn -> [Gen -> SUBSET Call]] /\ got \subseteq Call
      /\ virs \in [Conn -> SUBSET Call]
      /\ \A d \in Conn, h \in Gen : wpc[d][h].at = "write" => wpc[d][h].u \in Call
  BY Zenon DEF MuxInv, TypeOK, ThreadType, ReaderPC, WriterPC, EndType, ConnType
<1>1. CASE QuietReader(c, g)
  <2>1. PICK x \in Thread(ReaderPC) :
           /\ rpc' = [rpc EXCEPT ![c][g] = x] /\ x.at # "redial" /\ rpc[c][g].at \notin {"off", "redial"}
           /\ x.at = "error" => isStream
    BY <1>1, ReaderMoves, Zenon
  <2>2. /\ rpc' \in [Conn -> [Gen -> Thread(ReaderPC)]]
        /\ \A d \in Conn, h \in Gen : rpc'[d][h] = IF d = c /\ h = g THEN x ELSE rpc[d][h]
    BY <1>t, <2>1, Update2, SMTT(30)
  <2>3. UNCHANGED <<csVars, connVars, callVars, cancelled, breaks, crashed, wpc, wbuf>>
    BY <1>1, ZenonT(30) DEF QuietReader, ReaderCheck, Parse, Deliver, ParseFails, endVars
  <2>4. got' \subseteq Call
    BY <1>1, <1>t, Zenon DEF QuietReader, ReaderCheck, Parse, Deliver, ParseFails, SameVid, endVars
  <2>5. wire' \in [Conn -> [Gen -> SUBSET Call]]
    <3>1. CASE Parse(c, g)
      <4>1. rpc[c][g].s \in Gen
        BY <1>t DEF Thread
      <4>2. PICK u : wire' = [wire EXCEPT ![c][rpc[c][g].s] = @ \ {u}]
        BY <3>1, Zenon DEF Parse
      <4>3. wire' = [wire EXCEPT ![c][rpc[c][g].s] = wire[c][rpc[c][g].s] \ {u}]
        BY <4>1, <4>2, <1>t, Zenon
      <4>4. wire[c][rpc[c][g].s] \ {u} \in SUBSET Call
        BY <4>1, <1>t, Zenon
      <4> QED BY <4>1, <4>3, <4>4, <1>t, Update2, ZenonT(30)
    <3>2. CASE ~Parse(c, g)
      BY <1>1, <1>t, <3>2, Zenon DEF QuietReader, ReaderCheck, Deliver, ParseFails
    <3> QED BY <3>1, <3>2, Zenon
  <2>6. ThreadType'
    BY <1>t, <2>2, <2>3, <2>5, Zenon DEF ThreadType, ReaderPC, WriterPC
  <2> QED BY <2>1, <2>2, <2>3, <2>4, <2>6, ThreadFrame, Zenon
<1>2. CASE QuietWriter(c, g)
  <2>1. PICK x \in Thread(WriterPC) :
           /\ wpc' = [wpc EXCEPT ![c][g] = x] /\ x.at # "redial" /\ wpc[c][g].at \notin {"off", "redial"}
           /\ x.at = "error" => isStream
           /\ x.at = "write" => x.u \in Call
    BY <1>2, WriterMoves, Zenon
  <2>2. /\ wpc' \in [Conn -> [Gen -> Thread(WriterPC)]]
        /\ \A d \in Conn, h \in Gen : wpc'[d][h] = IF d = c /\ h = g THEN x ELSE wpc[d][h]
    <3>1. wpc' = [wpc EXCEPT ![c][g] = x]
      BY <2>1, Zenon
    <3>2. wpc \in [Conn -> [Gen -> Thread(WriterPC)]]
      BY <1>t, Zenon
    <3> QED BY <3>1, <3>2, Update2
  <2>3. UNCHANGED <<csVars, connVars, callVars, endVars, rpc>>
    BY <1>2, ZenonT(30) DEF QuietWriter, WriterLoop, WriterDone, WriterTakes, WriteAll, WriteFails
  <2>4. wire' \in [Conn -> [Gen -> SUBSET Call]]
    <3>1. CASE WriteAll(c, g)
      <4>1. wpc[c][g].u \in Call /\ wpc[c][g].s \in Gen
        BY <3>1, <1>t DEF WriteAll, Thread
      <4>2. wire' = [wire EXCEPT ![c][wpc[c][g].s] = wire[c][wpc[c][g].s] \cup {wpc[c][g].u}]
        BY <3>1, <4>1, <1>t, Zenon DEF WriteAll
      <4>3. wire[c][wpc[c][g].s] \cup {wpc[c][g].u} \in SUBSET Call
        BY <4>1, <1>t, Zenon
      <4> QED BY <4>1, <4>2, <4>3, <1>t, Update2, ZenonT(30)
    <3>2. CASE ~WriteAll(c, g)
      BY <1>2, <1>t, <3>2, Zenon DEF QuietWriter, WriterLoop, WriterDone, WriterTakes, WriteFails
    <3> QED BY <3>1, <3>2
  <2>5. wbuf' \in [Conn -> Seq(Call)]
    <3>1. WriterTakes(c, g) => Tail(wbuf[c]) \in Seq(Call)
      BY <1>t, SMTT(30) DEF WriterTakes
    <3> QED BY <1>2, <1>t, <3>1, ZenonT(30) DEF QuietWriter, WriterLoop, WriterDone, WriterTakes, WriteAll, WriteFails
  <2>6. ThreadType'
    BY <1>t, <2>1, <2>2, <2>3, <2>4, <2>5, SMTT(30) DEF ThreadType, ReaderPC, WriterPC
  <2> QED BY <1>t, <2>1, <2>2, <2>3, <2>6, ThreadFrame, Zenon DEF endVars
<1> QED BY <1>1, <1>2, Zenon

-----------------------------------------------------------------------------
(* Steps that make Connections.                                            *)

\* What NewConns makes: the list grows by Connections not in it yet.
LEMMA Grown ==
  ASSUME MuxInv, NEW n \in Nat \ {0}, NEW i0 \in Int, NewConns(n, conns, i0)
  PROVE  /\ conns' \in Seq(Conn) /\ made' \in 0..MaxConns /\ made' = made + n /\ idle' \in Int
         /\ made + n \in Conn
         /\ \A i, j \in DOMAIN conns' : conns'[i] = conns'[j] => i = j
         /\ \A c \in Conn : c \in Listed' <=> c \in Listed \/ c \in made + 1 .. made + n
         /\ fate' \in [Conn -> {"unused", "live", "expel", "destruct", "gone"}]
         /\ dial' \in [Conn -> {"none", "dialing", "failed", "ended"}]
         /\ \A c \in Conn : IF c \in made + 1 .. made + n THEN fate'[c] = "live" /\ dial'[c] = "dialing"
                                                       ELSE UNCHANGED <<fate[c], dial[c]>>
<1>t. conns \in Seq(Conn) /\ made \in Nat /\ made \in 0..MaxConns /\ MaxConns \in Nat
  BY Bounds DEF MuxInv, TypeOK, CsType
<1> DEFINE new == [i \in 1..n |-> made + i]
<1>n. made + n <= MaxConns /\ made' = made + n /\ conns' = conns \o new
  BY Zenon DEF NewConns
<1>1. new \in Seq(Conn) /\ Len(new) = n
  BY <1>t, <1>n DEF Conn
<1>2. /\ conns' \in Seq(Conn) /\ Len(conns') = Len(conns) + n
      /\ \A i \in 1..Len(conns) : conns'[i] = conns[i]
      /\ \A i \in 1..n : conns'[Len(conns) + i] = made + i
  BY <1>t, <1>n, <1>1
<1>3. \A i \in 1..Len(conns') : (i \in 1..Len(conns) /\ conns'[i] = conns[i] /\ conns'[i] \in 1..made)
                                \/ (i > Len(conns) /\ i - Len(conns) \in 1..n /\ conns'[i] = made + (i - Len(conns)))
  <2> SUFFICES ASSUME NEW i \in 1..Len(conns'), i \notin 1..Len(conns)
               PROVE  i > Len(conns) /\ i - Len(conns) \in 1..n /\ conns'[i] = made + (i - Len(conns))
    BY <1>2, ListedMade, Zenon
  <2>1. i - Len(conns) \in 1..n /\ i = Len(conns) + (i - Len(conns)) /\ i > Len(conns)
    BY <1>2, <1>t
  <2> QED BY <2>1, <1>2, Zenon
<1>4. \A i, j \in DOMAIN conns' : conns'[i] = conns'[j] => i = j
  <2> SUFFICES ASSUME NEW i \in 1..Len(conns'), NEW j \in 1..Len(conns'), conns'[i] = conns'[j] PROVE i = j
    BY <1>2
  <2>1. CASE i \in 1..Len(conns) /\ j \in 1..Len(conns)
    BY <2>1, <1>2, <1>t, SMTT(30) DEF MuxInv, MapInv, NoConnectionLost
  <2>2. CASE i > Len(conns) /\ j > Len(conns)
    BY <2>2, <1>3, <1>t, SMTT(30)
  <2> QED BY <2>1, <2>2, <1>3, <1>t
<1>5. \A c \in Conn : c \in Listed' <=> c \in Listed \/ c \in made + 1 .. made + n
  <2> SUFFICES ASSUME NEW c \in Conn PROVE c \in Listed' <=> c \in Listed \/ c \in made + 1 .. made + n
    BY Zenon
  <2>0. Listed' = {conns'[i] : i \in 1..Len(conns')} /\ Listed = {conns[i] : i \in 1..Len(conns)}
    <3>1. DOMAIN conns = 1..Len(conns) /\ DOMAIN conns' = 1..Len(conns')
      BY <1>2, <1>t
    <3> QED BY <3>1, Zenon DEF Listed
  <2>1. ASSUME c \in Listed' PROVE c \in Listed \/ c \in made + 1 .. made + n
    <3>1. PICK i \in 1..Len(conns') : c = conns'[i]
      BY <2>0, <2>1, Zenon
    <3> QED BY <3>1, <2>0, <1>3, <1>t, SMTT(30)
  <2>2. ASSUME c \in Listed PROVE c \in Listed'
    <3>1. PICK i \in 1..Len(conns) : c = conns[i]
      BY <2>0, <2>2, Zenon
    <3>2. i \in 1..Len(conns')
      BY <1>2, <1>t
    <3> QED BY <3>1, <3>2, <2>0, <1>2, Zenon
  <2>3. ASSUME c \in made + 1 .. made + n PROVE c \in Listed'
    <3>1. c - made \in 1..n /\ Len(conns) + (c - made) \in 1..Len(conns') /\ made + (c - made) = c
      BY <2>3, <1>2, <1>t DEF Conn
    <3> QED BY <3>1, <2>0, <1>2, Zenon
  <2> QED BY <2>1, <2>2, <2>3, Zenon
<1>6. idle' \in Int
  BY SMTT(30) DEF NewConns, Plus
<1>7. /\ fate' \in [Conn -> {"unused", "live", "expel", "destruct", "gone"}]
      /\ dial' \in [Conn -> {"none", "dialing", "failed", "ended"}]
      /\ \A c \in Conn : IF c \in made + 1 .. made + n THEN fate'[c] = "live" /\ dial'[c] = "dialing"
                                                    ELSE UNCHANGED <<fate[c], dial[c]>>
  BY Zenon DEF NewConns, MuxInv, TypeOK, ConnType
<1>8. made + n \in Conn /\ made' \in 0..MaxConns
  BY <1>t, <1>n DEF Conn
<1> QED BY <1>2, <1>4, <1>5, <1>6, <1>7, <1>8, <1>n, Zenon

\* The Connections stay in order when the object in the map, or a new one, grows.
LEMMA GrownInv ==
  ASSUME MuxInv, NEW n \in Nat \ {0}, NEW i0 \in Int, NewConns(n, conns, i0),
         ~(registered /\ expelled), registered', ~expelled', inc' # 0,
         UNCHANGED <<closed, err, isIdle, virs, count, gen, sock, shut, threadVars, breaks, crashed, isStream>>
  PROVE  MapInv' /\ RedialInv' /\ ShutInv' /\ SocketInv' /\ ConnType' /\ ThreadType'
<1>t. made \in Nat /\ Conn \subseteq Nat
  BY Bounds DEF MuxInv, TypeOK, CsType, Conn
<1>m. \A c \in Conn : MuFree(c)' = MuFree(c)
  BY Zenon DEF MuFree, threadVars
<1>f. \A c \in Conn : \/ UNCHANGED <<fate[c], dial[c]>> /\ c \notin made + 1 .. made + n
                      \/ /\ c \in made + 1 .. made + n /\ fate[c] = "unused" /\ dial[c] = "none"
                         /\ fate'[c] = "live" /\ dial'[c] = "dialing"
  <2>1. \A c \in Conn : c \in made + 1 .. made + n => c > made
    BY <1>t
  <2> QED BY <2>1, Grown, Zenon DEF MuxInv, MapInv
<1>1. MapInv'
  <2>1. NoConnectionLost'
    <3>1. \A c \in Conn : (fate[c] \in {"live", "expel"})' <=> (c \in Listed)'
      BY <1>f, Grown, Zenon DEF MuxInv, MapInv, NoConnectionLost
    <3>2. (\A i, j \in DOMAIN conns : conns[i] = conns[j] => i = j)'
      BY Grown, Zenon
    <3>3. made + n \in Listed'
      BY Grown, <1>t, SMTT(30)
    <3>4. \A c \in Conn : fate'[c] # "destruct"
      BY <1>f, Zenon DEF MuxInv, MapInv, NoConnectionLost
    <3> QED BY <3>1, <3>2, <3>3, <3>4, Zenon DEF NoConnectionLost
  <2>2. \A c \in Conn : fate'[c] = "unused" <=> c > made'
    <3>1. made' = made + n /\ \A c \in Conn : fate[c] = "unused" <=> c > made
      BY Grown, Zenon DEF MuxInv, MapInv
    <3> QED BY <1>f, <1>t, <3>1, SMTT(30)
  <2>3. \A c \in Conn : c > made' => isIdle'[c] /\ ~closed'[c] /\ dial'[c] = "none"
    BY <1>f, <1>t, Grown, SMTT(30) DEF MuxInv, MapInv
  <2> QED BY <2>1, <2>2, <2>3, Zenon DEF MapInv
<1>2. RedialInv'
  BY <1>m, <1>f, SMTT(60) DEF MuxInv, RedialInv, threadVars
<1>3. ShutInv'
  BY <1>f, SMTT(60) DEF MuxInv, ShutInv, threadVars
<1>4. SocketInv'
  BY <1>m, <1>f, ZenonT(30) DEF MuxInv, SocketInv
<1>5. ConnType'
  BY Grown, ZenonT(30) DEF MuxInv, TypeOK, ConnType
<1>6. ThreadType'
  BY Zenon DEF MuxInv, TypeOK, ThreadType, threadVars
<1> QED BY <1>1, <1>2, <1>3, <1>4, <1>5, <1>6, Zenon

\* A list without members is empty.
LEMMA EmptyList ==
  ASSUME conns \in Seq(Conn), Listed = {}
  PROVE  conns = <<>>
<1>1. DOMAIN conns = 1..Len(conns) /\ Len(conns) \in Nat
  OBVIOUS
<1>2. 1 \in DOMAIN conns => conns[1] \in Listed
  BY Zenon DEF Listed
<1>3. Len(conns) = 0
  BY <1>1, <1>2
<1> QED BY <1>3

\* The first Connections, or another call made them (initPoolForNode).
LEMMA InitPoolInv ==
  ASSUME MuxInv, NEW u \in Call, InitPoolForNode(u), UNCHANGED isStream
  PROVE  MuxInv'
<1>t. CsType /\ ConnType /\ ThreadType /\ CallType /\ EndType /\ CallInv /\ NoOrphan /\ MapInv
  BY Zenon DEF MuxInv, TypeOK
<1>c. /\ cpc' = [cpc EXCEPT ![u] = "reload"] /\ cpc[u] = "init"
      /\ UNCHANGED <<csmu, closed, err, isIdle, virs, count, gen, sock, shut, threadVars, ucs, uconn, idx, chan,
                     endVars>>
  BY Zenon DEF InitPoolForNode, Go
<1>o. cpc'[u] = "reload" /\ \A v \in Call : v # u => cpc'[v] = cpc[v]
  BY <1>t, <1>c, Zenon DEF CallType
<1>1. CallType' /\ EndType'
  BY <1>t, <1>c, Zenon DEF CallType, EndType, endVars
<1>2. NoOrphan'
  BY <1>t, <1>c, <1>o, Zenon DEF NoOrphan, InUse, endVars
<1>3. CASE registered
  <2>1. UNCHANGED <<registered, inc, conns, idle, rr, expelled, made, connVars, rpc, wpc, breaks, crashed>>
    BY <1>3, <1>c, Zenon DEF InitPoolForNode, connVars, threadVars, endVars
  <2>2. MapInv' /\ RedialInv' /\ ShutInv' /\ SocketInv' /\ ConnType'
    BY <2>1, ConnFrame, Zenon
  <2>3. CsType' /\ ThreadType'
    BY <1>t, <1>c, <2>1, Zenon DEF CsType, ThreadType, threadVars
  <2>4. CallInv'
    BY <1>t, <1>c, <1>o, <2>1, ZenonT(30) DEF CallInv
  <2> QED BY <1>1, <1>2, <2>2, <2>3, <2>4, Zenon DEF MuxInv, TypeOK
<1>4. CASE ~registered
  <2>1. /\ NewConns(ConnectNumber, <<>>, 0)
        /\ registered' = TRUE /\ inc' = inc + 1 /\ rr' = 0 /\ expelled' = FALSE
    BY <1>4, Zenon DEF InitPoolForNode
  <2>2. inc \in Nat /\ conns = <<>>
    <3>1. Listed = {} /\ conns \in Seq(Conn) /\ inc \in Nat
      BY <1>t, <1>4, Zenon DEF MapInv, CsType
    <3> QED BY <3>1, EmptyList
  <2>3. NewConns(ConnectNumber, conns, 0) /\ ConnectNumber \in Nat \ {0} /\ 0 \in Int
    BY <2>1, <2>2, Bounds, SMTT(30)
  <2>4. MapInv' /\ RedialInv' /\ ShutInv' /\ SocketInv' /\ ConnType' /\ ThreadType'
    <3>1. UNCHANGED <<closed, err, isIdle, virs, count, gen, sock, shut, threadVars, breaks, crashed, isStream>>
      BY <1>c, Zenon DEF endVars
    <3>2. ~(registered /\ expelled) /\ registered' /\ ~expelled' /\ inc' # 0
      BY <1>4, <2>1, <2>2, SMTT(30)
    <3> QED BY <2>3, <3>1, <3>2, GrownInv, Zenon
  <2>5. conns' \in Seq(Conn) /\ made' \in 0..MaxConns /\ made' = made + ConnectNumber /\ idle' \in Int
    BY <2>3, Grown, Zenon
  <2>6. CsType'
    <3>1. inc' \in Nat /\ rr' \in Nat
      BY <2>1, <2>2
    <3>3. registered' \in BOOLEAN /\ expelled' \in BOOLEAN
      BY <2>1, Zenon
    <3>2. csmu' \in Call \cup {None}
      BY <1>t, <1>c, Zenon DEF CsType
    <3> QED BY <2>5, <3>1, <3>2, <3>3, Zenon DEF CsType
  <2>7. CallInv'
    <3>1. \A v \in Call : cpc[v] # "scan"
      BY <1>t, <1>4, Zenon DEF CallInv
    <3>2. made \in Nat /\ ConnectNumber \in Nat
      BY <1>t, Bounds DEF CsType
    <3>3. 1..made \subseteq 1..made' /\ 1..inc \subseteq 1..inc'
      BY <2>1, <2>2, <2>5, <3>2, SMTT(30)
    <3> QED BY <1>t, <1>c, <1>o, <3>1, <3>3, ZenonT(30) DEF CallInv
  <2> QED BY <1>1, <1>2, <2>4, <2>6, <2>7, Zenon DEF MuxInv, TypeOK
<1> QED BY <1>3, <1>4, Zenon

\* A call takes a Connection, which may be a new one.
LEMMA PickInv ==
  ASSUME MuxInv, NEW u \in Call, PickRoundRobin(u) \/ PickNew(u), UNCHANGED isStream
  PROVE  MuxInv'
<1>t. CsType /\ ConnType /\ ThreadType /\ CallType /\ EndType /\ CallInv /\ NoOrphan /\ MapInv
  BY Zenon DEF MuxInv, TypeOK
<1>c. /\ cpc' = [cpc EXCEPT ![u] = "new"] /\ cpc[u] \in {"pick", "scan"}
      /\ UNCHANGED <<registered, inc, expelled, closed, err, isIdle, virs, count, gen, sock, shut, threadVars,
                     ucs, chan, endVars>>
  BY Zenon DEF PickRoundRobin, PickNew, Go
<1>r. registered /\ ~expelled /\ inc \in Nat /\ inc # 0
  <2>1. ucs[u] \in 1..inc /\ inc \in Nat
    BY <1>t, <1>c, ZenonT(30) DEF CallInv, CsType
  <2>2. CASE PickNew(u)
    BY <1>t, <2>1, <2>2, SMTT(30) DEF PickNew, CallInv
  <2>3. CASE PickRoundRobin(u)
    BY <1>t, <2>1, <2>3, SMTT(60) DEF PickRoundRobin, MapInv
  <2> QED BY <2>1, <2>2, <2>3, Zenon
<1>o. cpc'[u] = "new" /\ \A v \in Call : v # u => cpc'[v] = cpc[v]
  BY <1>t, <1>c, Zenon DEF CallType
<1>2. NoOrphan'
  <2>1. \A v \in Call : v # u => uconn'[v] = uconn[v]
    BY <1>t, Zenon DEF PickRoundRobin, PickNew, CallType
  <2> QED BY <1>t, <1>c, <1>o, <2>1, Zenon DEF NoOrphan, InUse, endVars
<1>3. /\ idx' \in {idx, [idx EXCEPT ![u] = 0]} /\ rr' \in Nat
      /\ csmu' = None /\ \A v \in Call : v # u => cpc[v] # "scan"
  <2>1. CASE PickRoundRobin(u)
    <3>1. UNCHANGED <<idx, csmu>> /\ csmu = None
      BY <2>1, ZenonT(30) DEF PickRoundRobin
    <3>2. rr' \in Nat
      <4>1. rr \in Nat /\ conns \in Seq(Conn) /\ ConnectNumber \in Nat \ {0}
        BY <1>t, Bounds DEF CsType
      <4>2. (rr + 1) % ConnectNumber \in Nat /\ Len(conns) \in Nat
        BY <4>1, SMTT(30)
      <4> QED BY <2>1, <4>2, Zenon DEF PickRoundRobin
    <3> QED BY <1>t, <3>1, <3>2, NoneAssumption, Zenon DEF CallInv
  <2>2. CASE PickNew(u)
    BY <1>t, <2>2, NoneAssumption, Zenon DEF PickNew, CallInv, CsType
  <2> QED BY <2>1, <2>2, Zenon
<1>4. CASE NewConns(1, conns, idle) /\ uconn' = [uconn EXCEPT ![u] = made + 1]
  <2>0. 1 \in Nat \ {0} /\ idle \in Int
    BY <1>t, SMTT(30) DEF CsType
  <2>1. MapInv' /\ RedialInv' /\ ShutInv' /\ SocketInv' /\ ConnType' /\ ThreadType'
    <3>1. UNCHANGED <<closed, err, isIdle, virs, count, gen, sock, shut, threadVars, breaks, crashed, isStream>>
      BY <1>c, Zenon DEF endVars
    <3>2. ~(registered /\ expelled) /\ registered' /\ ~expelled' /\ inc' # 0
      BY <1>c, <1>r, Zenon
    <3>3. NewConns(1, conns, idle)
      BY <1>4, Zenon
    <3> QED BY <2>0, <3>1, <3>2, <3>3, GrownInv, Zenon
  <2>2. conns' \in Seq(Conn) /\ made' \in 0..MaxConns /\ made' = made + 1 /\ idle' \in Int /\ made + 1 \in Conn
    BY <1>4, <2>0, Grown, Zenon
  <2>3. CsType'
    BY <1>t, <1>c, <1>3, <2>2, Zenon DEF CsType
  <2>4. CallType' /\ EndType'
    BY <1>t, <1>c, <1>3, <1>4, <2>2, SMTT(30) DEF CallType, EndType, endVars
  <2>5. CallInv'
    <3>1. made \in Nat
      BY <1>t DEF CsType
    <3>2. 1..made \subseteq 1..made' /\ made + 1 \in 1..made'
      BY <2>2, <3>1
    <3>3. uconn'[u] = made + 1 /\ \A v \in Call : v # u => UNCHANGED <<uconn[v], idx[v]>>
      BY <1>t, <1>3, <1>4, Zenon DEF CallType
    <3> QED BY <1>t, <1>c, <1>o, <1>3, <3>2, <3>3, ZenonT(30) DEF CallInv
  <2> QED BY <1>2, <2>1, <2>3, <2>4, <2>5, Zenon DEF MuxInv, TypeOK
<1>5. CASE PickRoundRobin(u) /\ ~((rr + 1) % ConnectNumber >= Len(conns))
  <2> DEFINE next == (rr + 1) % ConnectNumber
  <2>0. next \in Nat /\ ~(next >= Len(conns)) /\ Len(conns) \in Nat
    <3>1. rr \in Nat /\ conns \in Seq(Conn) /\ ConnectNumber \in Nat \ {0}
      BY <1>t, Bounds DEF CsType
    <3> QED BY <1>5, <3>1, SMTT(60) DEF PickRoundRobin
  <2>1. /\ uconn' = [uconn EXCEPT ![u] = conns[next + 1]]
        /\ UNCHANGED <<conns, idle, made, fate, dial, idx, csmu>>
    BY <1>5, <2>0, Zenon DEF PickRoundRobin
  <2>2. conns[next + 1] \in 1..made /\ conns[next + 1] \in Conn
    <3>1. next + 1 \in 1..Len(conns) /\ conns \in Seq(Conn)
      BY <1>t, <2>0, SMTT(30) DEF CsType
    <3> QED BY <3>1, ListedMade
  <2>3. MapInv' /\ RedialInv' /\ ShutInv' /\ SocketInv' /\ ConnType'
    BY <1>c, <2>1, ConnFrame, Zenon DEF connVars, threadVars, endVars
  <2>4. CsType' /\ ThreadType'
    BY <1>t, <1>c, <1>3, <2>1, ZenonT(30) DEF CsType, ThreadType, threadVars
  <2>5. CallType' /\ EndType'
    BY <1>t, <1>c, <2>1, <2>2, Zenon DEF CallType, EndType, endVars
  <2>6. CallInv'
    <3>1. uconn'[u] \in 1..made /\ \A v \in Call : v # u => UNCHANGED <<uconn[v]>>
      BY <1>t, <2>1, <2>2, Zenon DEF CallType
    <3> QED BY <1>t, <1>c, <1>o, <1>3, <2>1, <3>1, Zenon DEF CallInv
  <2> QED BY <1>2, <2>3, <2>4, <2>5, <2>6, Zenon DEF MuxInv, TypeOK
<1> QED BY <1>4, <1>5, Zenon DEF PickRoundRobin, PickNew
=============================================================================

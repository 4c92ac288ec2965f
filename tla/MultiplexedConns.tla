-------------------------- MODULE MultiplexedConns --------------------------
(***************************************************************************)
(* Lemmas about Multiplexed: taking and closing a virtual connection,      *)
(* connecting, and the way a Connection leaves the pool keep MuxInv.       *)
(***************************************************************************)
EXTENDS MultiplexedCalls

-----------------------------------------------------------------------------
(* The virtual connection: newVirConn and Close.                           *)

\* newVirConn keeps MuxInv, on a closed Connection too.
LEMMA NewVirConnInv ==
  ASSUME MuxInv, NEW u \in Call, NewVirConn(u), UNCHANGED isStream
  PROVE  MuxInv'
<1>t. CsType /\ ConnType /\ ThreadType /\ CallType /\ EndType /\ CallInv /\ NoOrphan /\ MapInv
  BY Zenon DEF MuxInv, TypeOK
<1> DEFINE c == uconn[u]
<1>c. c \in Conn /\ c <= made /\ cpc[u] = "new" /\ virs[c] \subseteq Call
  BY <1>t, Picked, Zenon DEF NewVirConn, ConnType
<1>1. /\ UNCHANGED <<registered, inc, conns, rr, expelled, csmu, made, fate, dial, closed, err, count, gen, sock, shut,
                     threadVars, ucs, uconn, idx, chan, got, breaks, crashed>>
      /\ cancelled' = cancelled \cup SameVid(c, u) \cup (IF closed[c] THEN {u} ELSE {})
      /\ virs' = [virs EXCEPT ![c] = (@ \ SameVid(c, u)) \cup {u}]
      /\ isIdle' = [isIdle EXCEPT ![c] = FALSE]
      /\ idle' = IF isIdle[c] THEN idle - Plus(1) ELSE idle
      /\ cpc' = [cpc EXCEPT ![u] = "open"]
  BY Zenon DEF NewVirConn, Go
<1>s. SameVid(c, u) \subseteq virs[c]
  BY Zenon DEF SameVid
<1>v. /\ virs'[c] = (virs[c] \ SameVid(c, u)) \cup {u} /\ isIdle'[c] = FALSE
      /\ \A d \in Conn : d # c => virs'[d] = virs[d] /\ isIdle'[d] = isIdle[d]
      /\ cpc'[u] = "open" /\ \A v \in Call : v # u => cpc'[v] = cpc[v]
  BY <1>t, <1>1, <1>c, Zenon DEF ConnType, CallType
<1>2. TypeOK'
  <2>1. CsType'
    <3>1. idle' \in Int
      BY <1>t, <1>1 DEF CsType, Plus
    <3> QED BY <1>t, <1>1, <3>1, Zenon DEF CsType
  <2>2. ConnType'
    <3>1. virs' \in [Conn -> SUBSET Call] /\ isIdle' \in [Conn -> BOOLEAN]
      BY <1>t, <1>1, <1>c, Zenon DEF ConnType
    <3> QED BY <1>t, <1>1, <3>1 DEF ConnType
  <2>3. ThreadType'
    BY <1>t, <1>1, Zenon DEF ThreadType, threadVars
  <2>4. CallType' /\ EndType'
    BY <1>t, <1>1, <1>c, <1>s, Zenon DEF CallType, EndType
  <2> QED BY <2>1, <2>2, <2>3, <2>4, Zenon DEF TypeOK
<1>3. CallInv'
  BY <1>t, <1>1, <1>v, <1>c, Zenon DEF CallInv
<1>4. MapInv'
  <2>1. \A d \in Conn : d > made => isIdle'[d] = isIdle[d]
    <3>1. made \in Nat /\ c \in Nat
      BY <1>t, <1>c DEF CsType, Conn
    <3> QED BY <1>v, <1>c, <3>1
  <2>2. NoConnectionLost' /\ Listed' = Listed
    BY <1>t, <1>1 DEF MapInv, NoConnectionLost, Listed
  <2> QED BY <1>t, <1>1, <2>1, <2>2, ZenonT(30) DEF MapInv
<1>5. RedialInv' /\ ShutInv' /\ SocketInv'
  BY <1>1, RedialFrame, ShutFrame, SocketFrame, Zenon DEF MuxInv, threadVars
<1>6. NoOrphan'
  BY <1>t, <1>1, <1>v, <1>c DEF NoOrphan, InUse, CallType
<1> QED BY <1>2, <1>3, <1>4, <1>5, <1>6, Zenon DEF MuxInv

\* A Connection of a stream is closed for good: it stays in the list until
\* expel takes it out.
LEMMA ClosedInv ==
  ASSUME MuxInv, NEW c \in Conn, isStream, ~closed[c], c <= made,
         UNCHANGED <<registered, inc, conns, expelled, made, gen, breaks, isStream>>, ~crashed',
         fate'[c] = "expel", dial'[c] # "failed", closed'[c], shut'[c] = shut[c] \cup {gen[c]},
         \A d \in Conn : d # c => UNCHANGED <<fate[d], closed[d], shut[d], count[d], dial[d], isIdle[d]>>,
         \A d \in Conn, g \in Gen : /\ (rpc'[d][g].at = "redial" <=> rpc[d][g].at = "redial")
                                    /\ (wpc'[d][g].at = "redial" <=> wpc[d][g].at = "redial")
                                    /\ d # c => UNCHANGED <<rpc[d][g], wpc[d][g]>>
  PROVE  MapInv' /\ RedialInv' /\ ShutInv' /\ SocketInv'
<1>t. made \in Nat /\ Conn \subseteq Nat /\ gen[c] \in Nat
  <2>1. made \in Nat /\ gen[c] \in Gen
    BY DEF MuxInv, TypeOK, CsType, ConnType
  <2> QED BY <2>1, ZeroGen, ConnNat, Zenon
<1>l. fate[c] = "live"
  <2>1. fate[c] # "unused"
    BY <1>t DEF MuxInv, MapInv
  <2>2. fate[c] \notin {"expel", "destruct", "gone"}
    BY Zenon DEF MuxInv, ShutInv
  <2> QED BY <2>1, <2>2, Zenon DEF MuxInv, TypeOK, ConnType
<1>m. MuFree(c) /\ \A d \in Conn : MuFree(d)' = MuFree(d)
  BY SMTT(30) DEF MuxInv, RedialInv, MuFree
<1>1. MapInv'
  <2>1. NoConnectionLost'
    BY <1>l DEF MuxInv, MapInv, NoConnectionLost, Listed
  <2>2. \A d \in Conn : fate'[d] = "unused" <=> d > made
    BY <1>l, <1>t DEF MuxInv, MapInv
  <2>3. \A d \in Conn : d > made => isIdle'[d] /\ ~closed'[d] /\ dial'[d] = "none"
    BY <1>t DEF MuxInv, MapInv
  <2>4. Listed' = Listed
    BY DEF Listed
  <2> QED BY <2>1, <2>2, <2>3, <2>4, Zenon DEF MuxInv, MapInv
<1>2. RedialInv'
  BY <1>m DEF MuxInv, RedialInv
<1>3. ShutInv'
  <2>1. shut'[c] \subseteq 0..gen[c]
    BY <1>t DEF MuxInv, ShutInv
  <2> QED BY <2>1 DEF MuxInv, ShutInv
<1>4. SocketInv'
  BY <1>m DEF MuxInv, SocketInv
<1> QED BY <1>1, <1>2, <1>3, <1>4, Zenon

\* Close keeps MuxInv, whether it removes an idle Connection or not.
LEMMA CloseInv ==
  ASSUME DistinctIds, IdleRemovalOnStreams, MuxInv, NEW u \in Call, Close(u), UNCHANGED isStream
  PROVE  MuxInv'
<1>t. CsType /\ ConnType /\ ThreadType /\ CallType /\ EndType /\ CallInv /\ NoOrphan /\ MapInv /\ ShutInv
  BY Zenon DEF MuxInv, TypeOK
<1> DEFINE c == uconn[u]
           idles == MaxIdle > 0 /\ MaxVirConns > 0 /\ SameVid(c, u) = virs[c] /\ ~closed[c]
           idle1 == IF idles /\ ~isIdle[c] THEN idle + Plus(1) ELSE idle
           evict == idles /\ idle1 > MaxIdle
<1>c. c \in Conn /\ c <= made /\ cpc[u] = "closing" /\ gen[c] \in Gen
  BY <1>t, Picked, ZenonT(30) DEF Close, ConnType
<1>1. /\ UNCHANGED <<registered, inc, conns, rr, expelled, csmu, made, dial, err, count, gen, threadVars, breaks, crashed>>
      /\ virs' = [virs EXCEPT ![c] = @ \ SameVid(c, u)] /\ isIdle' = [isIdle EXCEPT ![c] = @ \/ idles]
      /\ idle' = idle1 /\ closed' = [closed EXCEPT ![c] = @ \/ evict]
      /\ shut' = IF evict THEN [shut EXCEPT ![c] = @ \cup {gen[c]}] ELSE shut
      /\ sock' = IF evict /\ isStream /\ sock[c][gen[c]] # "none"
                 THEN [sock EXCEPT ![c][gen[c]] = "closed"] ELSE sock
      /\ fate' = IF evict THEN [fate EXCEPT ![c] = "expel"] ELSE fate
      /\ Leave(u)
  BY Zenon DEF Close
<1>b. closed[c] \in BOOLEAN /\ isIdle[c] \in BOOLEAN /\ idles \in BOOLEAN /\ evict \in BOOLEAN
  BY <1>t, <1>c, Zenon DEF ConnType
<1>v. /\ virs'[c] = virs[c] \ SameVid(c, u) /\ isIdle'[c] = (isIdle[c] \/ idles) /\ closed'[c] = (closed[c] \/ evict)
      /\ \A d \in Conn : d # c => UNCHANGED <<virs[d], isIdle[d], closed[d]>>
  BY <1>t, <1>1, <1>c, ZenonT(30) DEF ConnType
<1>o. /\ cpc'[u] = "done" /\ UNCHANGED csmu /\ cancelled' = cancelled \ {u}
      /\ \A v \in Call : v # u => UNCHANGED <<cpc[v], uconn[v], ucs[v], idx[v]>>
  BY <1>t, <1>1, Zenon DEF Leave, Go, CallType
<1>2. CsType'
  <2>1. idle' \in Int
    BY <1>t, <1>1, SMTT(30) DEF CsType, Plus
  <2> QED BY <1>t, <1>1, <2>1, Zenon DEF CsType
<1>3. ConnType'
  <2>1. virs' \in [Conn -> SUBSET Call] /\ isIdle' \in [Conn -> BOOLEAN] /\ closed' \in [Conn -> BOOLEAN]
    BY <1>t, <1>1, <1>c, <1>b, Zenon DEF ConnType
  <2>2. shut' \in [Conn -> SUBSET Gen] /\ fate' \in [Conn -> {"unused", "live", "expel", "destruct", "gone"}]
    BY <1>t, <1>1, <1>c, ZenonT(30) DEF ConnType
  <2>3. sock' \in [Conn -> [Gen -> {"none", "open", "broken", "closed"}]]
    <3>1. sock \in [Conn -> [Gen -> {"none", "open", "broken", "closed"}]]
      BY <1>t, Zenon DEF ConnType
    <3>2. [sock EXCEPT ![c][gen[c]] = "closed"] \in [Conn -> [Gen -> {"none", "open", "broken", "closed"}]]
      BY <1>c, <3>1, Update2, Zenon
    <3> QED BY <1>1, <3>1, <3>2, Zenon
  <2> QED BY <1>t, <1>1, <2>1, <2>2, <2>3, ZenonT(30) DEF ConnType
<1>4. ThreadType'
  BY <1>t, <1>1, ZenonT(30) DEF ThreadType, threadVars
<1>5. CallType' /\ EndType'
  BY <1>t, <1>1, ZeroGen, Zenon DEF CallType, EndType, Leave, Go
<1>6. CallInv'
  BY <1>t, <1>1, <1>o, <1>c, ZenonT(30) DEF CallInv
<1>7. NoOrphan'
  <2> SUFFICES ASSUME NEW v \in Call, InUse(v)', v \notin cancelled'
               PROVE  v \in virs'[uconn'[v]] /\ ~closed'[uconn'[v]]
    BY Zenon DEF NoOrphan
  <2>1. v # u /\ InUse(v) /\ v \notin cancelled /\ uconn'[v] = uconn[v]
    BY <1>o, Zenon DEF InUse
  <2>2. v \in virs[uconn[v]] /\ ~closed[uconn[v]] /\ uconn[v] \in Conn
    BY <1>t, <2>1, Picked, Zenon DEF NoOrphan, InUse
  <2>3. v \notin SameVid(c, u)
    BY <2>1, Zenon DEF SameVid, DistinctIds
  <2>4. CASE uconn[v] = c
    <3>1. ~evict
      BY <2>2, <2>3, <2>4, Zenon
    <3> QED BY <1>v, <2>1, <2>2, <2>3, <2>4, <3>1, ZenonT(30)
  <2>5. CASE uconn[v] # c
    BY <1>v, <2>1, <2>2, <2>5, SMTT(30)
  <2> QED BY <2>4, <2>5, Zenon
<1>8. MapInv' /\ RedialInv' /\ ShutInv' /\ SocketInv'
  <2>1. CASE evict
    <3>1. isStream /\ ~closed[c]
      <4>1. MaxIdle # 0 /\ MaxVirConns # 0
        BY <2>1, Bounds
      <4>2. isStream \in {TRUE}
        BY <1>t, <4>1, ZenonT(30) DEF IdleRemovalOnStreams, EndType
      <4> QED BY <2>1, <4>2, Zenon
    <3>5. dial'[c] # "failed"
      BY <1>1, <1>t, <1>c, <3>1, Zenon DEF ShutInv
    <3>2. fate'[c] = "expel" /\ closed'[c] /\ shut'[c] = shut[c] \cup {gen[c]}
      BY <1>t, <1>1, <1>v, <1>c, <2>1, ZenonT(30) DEF ConnType
    <3>3. \A d \in Conn : d # c => UNCHANGED <<fate[d], closed[d], shut[d], count[d], dial[d], isIdle[d]>>
      BY <1>t, <1>1, <1>v, <2>1, ZenonT(30) DEF ConnType
    <3>4. /\ UNCHANGED <<registered, inc, conns, expelled, made, gen, breaks, isStream>> /\ ~crashed'
          /\ UNCHANGED <<rpc, wpc>>
      BY <1>t, <1>1, Zenon DEF ShutInv, threadVars
    <3> QED BY <1>c, <3>1, <3>2, <3>3, <3>4, <3>5, ClosedInv, ZenonT(30)
  <2>2. CASE ~evict
    <3>1. UNCHANGED <<shut, sock, fate>> /\ closed' = closed
      <4>1. closed' = closed
        <5>1. (closed[c] \/ evict) = closed[c]
          BY <1>b, <2>2, Zenon
        <5>2. closed' = [closed EXCEPT ![c] = closed[c] \/ evict] /\ closed \in [Conn -> BOOLEAN]
          BY <1>t, <1>1, ZenonT(30) DEF ConnType
        <5> QED BY <1>c, <5>1, <5>2, Zenon
      <4> QED BY <1>1, <2>2, <4>1, ZenonT(30)
    <3>2. RedialInv' /\ ShutInv' /\ SocketInv'
      BY <1>1, <3>1, RedialFrame, ShutFrame, SocketFrame, Zenon DEF MuxInv, threadVars
    <3>3. \A d \in Conn : d > made => isIdle'[d] = isIdle[d]
      <4>1. made \in Nat /\ c \in Nat
        BY <1>t, <1>c, SMTT(30) DEF CsType, Conn
      <4>2. \A d \in Conn : d # c => isIdle'[d] = isIdle[d]
        BY <1>v, ZenonT(30)
      <4> QED BY <1>c, <4>1, <4>2, ConnNat, SMTT(30)
    <3>4. NoConnectionLost' /\ Listed' = Listed
      <4>1. UNCHANGED <<conns, fate, registered, expelled>>
        BY <1>1, <3>1, Zenon
      <4>2. NoConnectionLost
        BY <1>t, Zenon DEF MapInv
      <4> QED BY <4>1, <4>2, SMTT(30) DEF NoConnectionLost, Listed
    <3>5. MapInv'
      BY <1>t, <1>1, <3>1, <3>3, <3>4, Zenon DEF MapInv
    <3> QED BY <3>2, <3>5, Zenon
  <2> QED BY <2>1, <2>2, Zenon
<1> QED BY <1>2, <1>3, <1>4, <1>5, <1>6, <1>7, <1>8, Zenon DEF MuxInv, TypeOK

-----------------------------------------------------------------------------
(* Connecting, and the end of a Connection.                                *)

\* The counters of a Connection.
LEMMA Counters ==
  ASSUME MuxInv
  PROVE  /\ \A c \in Conn : gen[c] \in Nat /\ count[c] \in Nat
         /\ breaks \in Nat /\ MaxReconnect * breaks \in Nat
<1>1. \A c \in Conn : gen[c] \in Gen /\ count[c] \in 0..MaxReconnect + 1
  BY Zenon DEF MuxInv, TypeOK, ConnType
<1>2. breaks \in Nat
  BY DEF MuxInv, TypeOK, EndType
<1>3. \A c \in Conn : gen[c] \in Nat
  BY <1>1, ZeroGen, Zenon
<1>4. \A c \in Conn : count[c] \in Nat
  BY <1>1, Bounds
<1>5. MaxReconnect * breaks \in Nat
  BY <1>2, Bounds
<1> QED BY <1>2, <1>3, <1>4, <1>5, Zenon

\* Connections that have a dial, a socket or goroutines were made.
LEMMA Made ==
  ASSUME MuxInv, NEW c \in Conn, dial[c] # "none" \/ closed[c] \/ fate[c] # "unused"
  PROVE  c <= made /\ fate[c] # "unused"
<1>1. made \in Nat /\ c \in Nat
  BY ConnNat DEF MuxInv, TypeOK, CsType
<1>2. (fate[c] = "unused" <=> c > made) /\ (c > made => ~closed[c] /\ dial[c] = "none")
  BY Zenon DEF MuxInv, MapInv
<1> QED BY <1>1, <1>2

\* A step of Connection c that keeps it in the list or out of it.
LEMMA MapStep ==
  ASSUME MuxInv, NEW c \in Conn, c <= made,
         UNCHANGED <<registered, inc, conns, expelled, made>>,
         fate'[c] = fate[c] \/ (fate[c] = "live" /\ fate'[c] = "expel"),
         \A d \in Conn : d # c => UNCHANGED <<fate[d], dial[d], isIdle[d], closed[d]>>
  PROVE  MapInv'
<1>t. made \in Nat /\ Conn \subseteq Nat
  BY ConnNat, SMTT(30) DEF MuxInv, TypeOK, CsType
<1>1. Listed' = Listed
  BY Zenon DEF Listed
<1>2. NoConnectionLost'
  BY <1>1, SMTT(30) DEF MuxInv, MapInv, NoConnectionLost
<1>3. \A d \in Conn : (fate'[d] = "unused" <=> d > made) /\ (d > made => isIdle'[d] /\ ~closed'[d] /\ dial'[d] = "none")
  BY <1>t DEF MuxInv, MapInv
<1> QED BY <1>1, <1>2, <1>3, Zenon DEF MuxInv, MapInv

\* startConnect succeeds.
LEMMA DialOkInv ==
  ASSUME MuxInv, NEW c \in Conn, DialOk(c), UNCHANGED isStream
  PROVE  MuxInv'
<1>t. CsType /\ ConnType /\ ThreadType /\ CallType /\ EndType
  BY Zenon DEF MuxInv, TypeOK
<1>1. /\ UNCHANGED <<csVars, fate, closed, err, isIdle, virs, count, gen, shut, wbuf, wire, callVars, endVars>>
      /\ dial[c] = "dialing" /\ dial' = [dial EXCEPT ![c] = "ended"] /\ sock' = [sock EXCEPT ![c][0] = "open"]
  BY Zenon DEF DialOk
<1>0. 0 \in Gen
  BY ZeroGen, Zenon
<1>d. dial'[c] = "ended" /\ \A d \in Conn : d # c => dial'[d] = dial[d]
  BY <1>t, <1>1, Zenon DEF ConnType
<1>s. /\ sock' \in [Conn -> [Gen -> {"none", "open", "broken", "closed"}]]
      /\ \A d \in Conn, g \in Gen : sock'[d][g] = IF d = c /\ g = 0 THEN "open" ELSE sock[d][g]
  <2>1. sock \in [Conn -> [Gen -> {"none", "open", "broken", "closed"}]]
    BY <1>t, Zenon DEF ConnType
  <2> QED BY <1>0, <1>1, <2>1, Update2
<1>r. /\ rpc' \in [Conn -> [Gen -> Thread(ReaderPC)]]
      /\ \A d \in Conn, g \in Gen : rpc'[d][g] = IF d = c /\ g = 0 THEN [at |-> "check", s |-> 0, u |-> None] ELSE rpc[d][g]
  <2>1. rpc \in [Conn -> [Gen -> Thread(ReaderPC)]] /\ "check" \in ReaderPC
    BY <1>t, Zenon DEF ThreadType, ReaderPC
  <2>2. rpc' = [rpc EXCEPT ![c][0] = [at |-> "check", s |-> 0, u |-> None]]
    BY <2>1, OffType, Zenon DEF DialOk, Spawn
  <2>3. [at |-> "check", s |-> 0, u |-> None] \in Thread(ReaderPC)
    BY <1>0, <2>1, Zenon DEF Thread
  <2> QED BY <1>0, <2>1, <2>2, <2>3, Update2
<1>w. /\ wpc' \in [Conn -> [Gen -> Thread(WriterPC)]]
      /\ \A d \in Conn, g \in Gen : wpc'[d][g] = IF d = c /\ g = 0 THEN [at |-> "loop", s |-> 0, u |-> None] ELSE wpc[d][g]
  <2>1. wpc \in [Conn -> [Gen -> Thread(WriterPC)]] /\ "loop" \in WriterPC
    BY <1>t, Zenon DEF ThreadType, WriterPC
  <2>2. wpc' = [wpc EXCEPT ![c][0] = [at |-> "loop", s |-> 0, u |-> None]]
    BY <2>1, OffType, Zenon DEF DialOk, Spawn
  <2>3. [at |-> "loop", s |-> 0, u |-> None] \in Thread(WriterPC)
    BY <1>0, <2>1, Zenon DEF Thread
  <2> QED BY <1>0, <2>1, <2>2, <2>3, Update2
<1>m. c <= made /\ fate[c] # "unused"
  BY <1>1, Made, Zenon
<1>2. TypeOK'
  <2>1. CsType' /\ CallType' /\ EndType'
    BY <1>t, <1>1, Zenon DEF CsType, CallType, EndType, csVars, callVars, endVars
  <2>2. ConnType'
    BY <1>t, <1>1, <1>s, Zenon DEF ConnType
  <2>3. ThreadType'
    <3>1. \A d \in Conn, g \in Gen : wpc'[d][g].at = "write" => wpc'[d][g].u \in Call
      <4>1. \A d \in Conn, g \in Gen : wpc[d][g].at = "write" => wpc[d][g].u \in Call
        BY <1>t, Zenon DEF ThreadType
      <4>2. \A d \in Conn, g \in Gen : wpc'[d][g].at = "write" => wpc'[d][g] = wpc[d][g]
        BY <1>w, SMTT(60)
      <4> QED BY <4>1, <4>2, Zenon
    <3> QED BY <1>t, <1>1, <1>r, <1>w, <3>1, Zenon DEF ThreadType, ReaderPC, WriterPC
  <2> QED BY <2>1, <2>2, <2>3, Zenon DEF TypeOK
<1>3. CallInv' /\ NoOrphan'
  BY <1>1, CallFrame, OrphanFrame, Zenon DEF MuxInv, csVars, callVars, endVars
<1>4. MapInv'
  BY <1>1, <1>d, <1>m, MapStep, Zenon DEF csVars
<1>f. \A d \in Conn : MuFree(d) => MuFree(d)'
  BY <1>r, <1>w, SMTT(60) DEF MuFree
<1>5. RedialInv'
  <2>1. \A d \in Conn, g \in Gen : /\ rpc'[d][g].at = "redial" => rpc[d][g].at = "redial"
                                   /\ wpc'[d][g].at = "redial" => wpc[d][g].at = "redial"
                                   /\ d # c => UNCHANGED <<rpc[d][g], wpc[d][g]>>
    BY <1>r, <1>w, SMTT(60)
  <2> QED BY <1>1, <1>m, <1>f, <2>1, SMTT(60) DEF MuxInv, RedialInv
<1>6. ShutInv'
  BY <1>1, <1>r, <1>w, <1>d, <1>s, SMTT(60) DEF MuxInv, ShutInv, endVars
<1>7. SocketInv'
  <2>1. \A d \in Conn : gen[d] \in Int /\ count[d] \in Int
    BY Counters
  <2>2. MaxReconnect * breaks \in Int
    BY Counters, SMTT(30)
  <2> QED BY <1>1, <1>f, <2>1, <2>2 DEF MuxInv, SocketInv, endVars
<1> QED BY <1>2, <1>3, <1>4, <1>5, <1>6, <1>7, Zenon DEF MuxInv

\* doClose up to the reconnection: all calls on the Connection are cancelled.
LEMMA Shut ==
  ASSUME MuxInv, NEW c \in Conn, isStream, ~closed[c], Shutdown(c), UNCHANGED <<cpc, uconn>>
  PROVE  /\ crashed' = FALSE /\ closed'[c] /\ shut'[c] = shut[c] \cup {gen[c]}
         /\ \A d \in Conn : d # c => UNCHANGED <<closed[d], shut[d]>>
         /\ {closed', err'} \subseteq [Conn -> BOOLEAN] /\ virs' \in [Conn -> SUBSET Call]
         /\ shut' \in [Conn -> SUBSET Gen]
         /\ sock' \in [Conn -> [Gen -> {"none", "open", "broken", "closed"}]]
         /\ cancelled' \subseteq Call
         /\ NoOrphan'
<1>t. ConnType /\ EndType /\ ShutInv /\ NoOrphan
  BY Zenon DEF MuxInv, TypeOK
<1>g. gen[c] \in Gen
  BY <1>t, Zenon DEF ConnType
<1>1. crashed' = FALSE
  <2>1. ~crashed /\ gen[c] \notin shut[c]
    BY <1>t, Zenon DEF ShutInv
  <2> QED BY <2>1, ZenonT(30) DEF Shutdown
<1>2. /\ closed'[c] /\ shut'[c] = shut[c] \cup {gen[c]} /\ virs'[c] = {}
      /\ \A d \in Conn : d # c => UNCHANGED <<closed[d], shut[d], virs[d]>>
  BY <1>t, Zenon DEF Shutdown, ConnType
<1>3. /\ {closed', err'} \subseteq [Conn -> BOOLEAN] /\ virs' \in [Conn -> SUBSET Call]
      /\ shut' \in [Conn -> SUBSET Gen] /\ cancelled' \subseteq Call
  BY <1>t, <1>g, Zenon DEF Shutdown, ConnType, EndType
<1>4. sock' \in [Conn -> [Gen -> {"none", "open", "broken", "closed"}]]
  <2>1. sock \in [Conn -> [Gen -> {"none", "open", "broken", "closed"}]]
    BY <1>t, Zenon DEF ConnType
  <2>2. PICK x \in {"none", "open", "broken", "closed"} : sock' = [sock EXCEPT ![c][gen[c]] = x]
    BY <1>g, <2>1, ZenonT(30) DEF Shutdown
  <2> QED BY <1>g, <2>1, <2>2, Update2, Zenon
<1>5. NoOrphan'
  <2> SUFFICES ASSUME NEW v \in Call, InUse(v)', v \notin cancelled'
               PROVE  v \in virs'[uconn'[v]] /\ ~closed'[uconn'[v]]
    BY Zenon DEF NoOrphan
  <2>1. InUse(v) /\ v \notin cancelled /\ v \notin virs[c] /\ uconn'[v] = uconn[v]
    BY Zenon DEF Shutdown, InUse
  <2>2. v \in virs[uconn[v]] /\ ~closed[uconn[v]] /\ uconn[v] \in Conn
    BY <1>t, <2>1, Picked, Zenon DEF NoOrphan, InUse
  <2> QED BY <1>2, <2>1, <2>2, Zenon
<1> QED BY <1>1, <1>2, <1>3, <1>4, <1>5, Zenon

\* startConnect fails on a stream.
LEMMA DialFailsInv ==
  ASSUME MuxInv, NEW c \in Conn, DialFails(c), UNCHANGED isStream
  PROVE  MuxInv'
<1>t. CsType /\ ConnType /\ ThreadType /\ CallType /\ EndType
  BY DEF MuxInv, TypeOK
<1>1. /\ UNCHANGED <<csVars, isIdle, count, gen, threadVars, callVars, got, breaks>>
      /\ dial[c] = "dialing" /\ isStream /\ dial' = [dial EXCEPT ![c] = "ended"]
  BY Zenon DEF DialFails
<1>d. dial'[c] = "ended" /\ \A d \in Conn : d # c => dial'[d] = dial[d]
  BY <1>t, <1>1, Zenon DEF ConnType
<1>m. c <= made /\ fate[c] # "unused"
  BY <1>1, Made, Zenon
<1>2. CsType' /\ CallType' /\ ThreadType'
  BY <1>t, <1>1, Zenon DEF CsType, CallType, ThreadType, csVars, callVars, threadVars
<1>3. CallInv'
  BY <1>1, CallFrame, Zenon DEF MuxInv, csVars, callVars
<1>4. CASE closed[c]
  <2>1. UNCHANGED <<fate, closed, err, virs, shut, sock, cancelled, crashed>>
    BY <1>4, Zenon DEF DialFails
  <2>2. MapInv'
    BY <1>1, <1>d, <1>m, <2>1, MapStep, Zenon DEF csVars
  <2>3. ShutInv'
    BY <1>1, <1>d, <2>1, Zenon DEF MuxInv, ShutInv, threadVars
  <2>4. RedialInv' /\ SocketInv' /\ NoOrphan'
    BY <1>1, <2>1, RedialFrame, SocketFrame, OrphanFrame, Zenon DEF MuxInv, threadVars, callVars
  <2>5. ConnType' /\ EndType'
    BY <1>t, <1>1, <2>1, ZenonT(30) DEF ConnType, EndType
  <2> QED BY <1>2, <1>3, <2>2, <2>3, <2>4, <2>5, Zenon DEF MuxInv, TypeOK
<1>5. CASE ~closed[c]
  <2>1. Shutdown(c) /\ fate' = [fate EXCEPT ![c] = "expel"]
    BY <1>5, Zenon DEF DialFails
  <2>2. fate'[c] = "expel" /\ \A d \in Conn : d # c => fate'[d] = fate[d]
    BY <1>t, <2>1, Zenon DEF ConnType
  <2>3. ConnType' /\ EndType' /\ NoOrphan'
    BY <1>t, <1>1, <1>5, <2>1, Shut, ZenonT(30) DEF ConnType, EndType, callVars
  <2>4. MapInv' /\ RedialInv' /\ ShutInv' /\ SocketInv'
    <3>1. /\ UNCHANGED <<registered, inc, conns, expelled, made, gen, breaks, isStream>>
          /\ dial'[c] # "failed" /\ UNCHANGED <<rpc, wpc>>
      BY <1>1, <1>d, Zenon DEF csVars, threadVars
    <3>2. ~crashed' /\ closed'[c] /\ shut'[c] = shut[c] \cup {gen[c]}
      BY <1>1, <1>5, <2>1, Shut, ZenonT(30) DEF callVars
    <3>3. \A d \in Conn : d # c => UNCHANGED <<fate[d], closed[d], shut[d], count[d], dial[d], isIdle[d]>>
      BY <1>1, <1>d, <1>5, <2>1, <2>2, Shut, ZenonT(30) DEF callVars
    <3> QED BY <1>1, <1>m, <1>5, <2>2, <3>1, <3>2, <3>3, ClosedInv, ZenonT(30)
  <2> QED BY <1>2, <1>3, <2>3, <2>4, Zenon DEF MuxInv, TypeOK
<1> QED BY <1>4, <1>5, Zenon

\* startConnect fails for UDP: destroy ...
LEMMA DialFailsUDPInv ==
  ASSUME MuxInv, NEW c \in Conn, DialFailsUDP(c), UNCHANGED isStream
  PROVE  MuxInv'
<1>t. CsType /\ ConnType /\ ThreadType /\ CallType /\ EndType
  BY DEF MuxInv, TypeOK
<1>1. /\ UNCHANGED <<registered, inc, conns, rr, expelled, csmu, made, closed, err, isIdle, virs, count, gen, sock, shut,
                     threadVars, callVars, endVars>>
      /\ dial[c] = "dialing" /\ ~isStream /\ dial' = [dial EXCEPT ![c] = "failed"]
      /\ idle' \in {idle, idle - Plus(1)}
      /\ fate' = IF fate[c] = "live" THEN [fate EXCEPT ![c] = "expel"] ELSE fate
  BY Zenon DEF DialFailsUDP
<1>d. /\ dial'[c] = "failed" /\ \A d \in Conn : d # c => UNCHANGED <<dial[d], fate[d]>>
      /\ fate'[c] = fate[c] \/ (fate[c] = "live" /\ fate'[c] = "expel")
  BY <1>t, <1>1, Zenon DEF ConnType
<1>m. c <= made /\ fate[c] # "unused"
  BY <1>1, Made, Zenon
<1>2. CsType' /\ ConnType' /\ ThreadType' /\ CallType' /\ EndType'
  <2>1. idle' \in Int
    BY <1>t, <1>1, SMTT(30) DEF CsType, Plus
  <2>2. CsType' /\ CallType' /\ ThreadType' /\ EndType'
    BY <1>t, <1>1, <2>1, Zenon DEF CsType, CallType, ThreadType, EndType, callVars, threadVars, endVars
  <2>3. ConnType'
    BY <1>t, <1>1, Zenon DEF ConnType
  <2> QED BY <2>2, <2>3, Zenon
<1>3. CallInv' /\ NoOrphan'
  BY <1>1, CallFrame, OrphanFrame, Zenon DEF MuxInv, callVars, endVars
<1>4. MapInv'
  BY <1>1, <1>d, <1>m, MapStep, Zenon
<1>f. MuFree(c) /\ \A d \in Conn : MuFree(d)' = MuFree(d)
  BY <1>1, ZenonT(30) DEF MuxInv, ShutInv, MuFree, threadVars
<1>5. RedialInv'
  BY <1>1, <1>d, <1>m, <1>f, SMTT(60) DEF MuxInv, RedialInv, threadVars
<1>6. ShutInv'
  BY <1>1, <1>d, SMTT(60) DEF MuxInv, ShutInv, threadVars, endVars
<1>7. SocketInv'
  BY <1>1, <1>d, <1>f, Zenon DEF MuxInv, SocketInv, endVars
<1> QED BY <1>2, <1>3, <1>4, <1>5, <1>6, <1>7, Zenon DEF MuxInv, TypeOK

\* ... and the rest of closeUDP.
LEMMA CloseUDPInv ==
  ASSUME MuxInv, NEW c \in Conn, CloseUDP(c), UNCHANGED isStream
  PROVE  MuxInv'
<1>t. CsType /\ ConnType /\ ThreadType /\ CallType /\ EndType /\ ShutInv /\ NoOrphan
  BY Zenon DEF MuxInv, TypeOK
<1>1. /\ UNCHANGED <<csVars, fate, closed, isIdle, virs, count, gen, sock, threadVars, callVars, got, breaks>>
      /\ dial[c] = "failed" /\ dial' = [dial EXCEPT ![c] = "ended"] /\ err' = [err EXCEPT ![c] = TRUE]
      /\ crashed' = (crashed \/ 0 \in shut[c]) /\ shut' = [shut EXCEPT ![c] = @ \cup {0}]
      /\ cancelled' = cancelled \cup virs[c]
  BY Zenon DEF CloseUDP
<1>s. ~isStream /\ shut[c] = {} /\ ~crashed
  BY <1>t, <1>1, Zenon DEF ShutInv
<1>d. /\ dial'[c] = "ended" /\ shut'[c] = {0} /\ crashed' = FALSE
      /\ \A d \in Conn : d # c => UNCHANGED <<dial[d], shut[d]>>
  BY <1>t, <1>1, <1>s, ZenonT(30) DEF ConnType
<1>m. c <= made
  BY <1>1, Made, Zenon
<1>2. CsType' /\ ConnType' /\ ThreadType' /\ CallType' /\ EndType'
  <2>1. CsType' /\ CallType' /\ ThreadType' /\ EndType'
    BY <1>t, <1>1, <1>d, Zenon DEF CsType, CallType, ThreadType, EndType, ConnType, csVars, callVars, threadVars
  <2>2. ConnType'
    BY <1>t, <1>1, ZeroGen, SMTT(30) DEF ConnType
  <2> QED BY <2>1, <2>2
<1>3. CallInv'
  BY <1>1, CallFrame, ZenonT(30) DEF MuxInv, csVars, callVars
<1>4. NoOrphan'
  BY <1>t, <1>1, Zenon DEF NoOrphan, InUse, callVars
<1>5. MapInv'
  BY <1>1, <1>d, <1>m, MapStep, ZenonT(30) DEF csVars
<1>6. RedialInv' /\ SocketInv'
  BY <1>1, RedialFrame, SocketFrame, Zenon DEF MuxInv, threadVars
<1>7. ShutInv'
  <2>1. shut'[c] \subseteq 0..gen[c]
    BY <1>d, Counters
  <2> QED BY <1>t, <1>1, <1>d, <1>s, <2>1, SMTT(60) DEF ShutInv, threadVars
<1> QED BY <1>2, <1>3, <1>4, <1>5, <1>6, <1>7, Zenon DEF MuxInv, TypeOK

\* The network breaks a socket.
LEMMA BreakInv ==
  ASSUME MuxInv, NEW c \in Conn, Break(c), UNCHANGED isStream
  PROVE  MuxInv'
<1>t. CsType /\ ConnType /\ ThreadType /\ CallType /\ EndType
  BY DEF MuxInv, TypeOK
<1>1. /\ UNCHANGED <<csVars, fate, dial, closed, err, isIdle, virs, gen, shut, threadVars, callVars, cancelled, got, crashed>>
      /\ isStream /\ breaks < MaxBreak /\ breaks' = breaks + 1 /\ sock' = [sock EXCEPT ![c][gen[c]] = "broken"]
  BY Zenon DEF Break
<1>c. PICK n \in {0, count[c]} : count' = [count EXCEPT ![c] = n]
  BY Zenon DEF Break
<1>2. TypeOK'
  <2>1. CsType' /\ CallType' /\ ThreadType'
    BY <1>t, <1>1, Zenon DEF CsType, CallType, ThreadType, csVars, callVars, threadVars
  <2>2. EndType'
    <3>1. breaks' \in 0..MaxBreak
      BY <1>1, Counters, Bounds
    <3> QED BY <1>t, <1>1, <3>1, Zenon DEF EndType
  <2>3. count' \in [Conn -> 0..MaxReconnect + 1]
    <3>1. n \in 0..MaxReconnect + 1
      BY <1>t, Bounds DEF ConnType
    <3> QED BY <1>t, <1>c, <3>1, Zenon DEF ConnType
  <2>4. sock' \in [Conn -> [Gen -> {"none", "open", "broken", "closed"}]]
    <3>1. sock \in [Conn -> [Gen -> {"none", "open", "broken", "closed"}]] /\ gen[c] \in Gen
      BY <1>t, Zenon DEF ConnType
    <3> QED BY <1>1, <3>1, Update2, Zenon
  <2>5. ConnType'
    BY <1>t, <1>1, <2>3, <2>4, Zenon DEF ConnType
  <2> QED BY <2>1, <2>2, <2>5, Zenon DEF TypeOK
<1>3. CallInv' /\ NoOrphan' /\ MapInv' /\ RedialInv'
  BY <1>1, CallFrame, OrphanFrame, MapFrame, RedialFrame, Zenon DEF MuxInv, csVars, callVars, threadVars
<1>4. ShutInv'
  BY <1>1, Zenon DEF MuxInv, ShutInv, threadVars
<1>5. SocketInv'
  <2> SUFFICES ASSUME NEW d \in Conn
               PROVE /\ gen[d] <= MaxReconnect * breaks' + MaxReconnect
                     /\ fate[d] \in {"unused", "live"} =>
                          /\ count'[d] <= MaxReconnect
                          /\ gen[d] + (IF MuFree(d) THEN 0 ELSE 1) <= MaxReconnect * breaks' + count'[d]
                     /\ SlowDial => gen[d] = 0
    BY <1>1, Zenon DEF SocketInv, MuFree, threadVars
  <2>1. count'[d] = count[d] \/ count'[d] = 0
    BY <1>t, <1>c, Zenon DEF ConnType
  <2>2. MaxReconnect * breaks' = MaxReconnect * breaks + MaxReconnect
    BY <1>1, Counters, Bounds
  <2>3. gen[d] \in Nat /\ count[d] \in Nat /\ MaxReconnect * breaks \in Nat /\ MaxReconnect \in Nat
    BY Counters, Bounds, Zenon
  <2>4. /\ gen[d] <= MaxReconnect * breaks + MaxReconnect
        /\ fate[d] \in {"unused", "live"} =>
              /\ count[d] <= MaxReconnect
              /\ gen[d] + (IF MuFree(d) THEN 0 ELSE 1) <= MaxReconnect * breaks + count[d]
        /\ SlowDial => gen[d] = 0
    BY Zenon DEF MuxInv, SocketInv
  <2> QED BY <2>1, <2>2, <2>3, <2>4, SMTT(60)
<1> QED BY <1>2, <1>3, <1>4, <1>5, Zenon DEF MuxInv

\* filterOutConnection takes one Connection out of a list that has each once.
LEMMA Filtered ==
  ASSUME conns \in Seq(Conn), \A i, j \in DOMAIN conns : conns[i] = conns[j] => i = j, NEW p \in DOMAIN conns,
         conns' = filterOutConnection(conns, conns[p])
  PROVE  /\ conns' \in Seq(Conn)
         /\ \A i, j \in DOMAIN conns' : conns'[i] = conns'[j] => i = j
         /\ {conns'[i] : i \in DOMAIN conns'} = {conns[i] : i \in DOMAIN conns} \ {conns[p]}
<1>1. (CHOOSE i \in DOMAIN conns : conns[i] = conns[p]) = p
  BY Zenon
<1>l. p \in 1..Len(conns) /\ Len(conns) \in Nat /\ DOMAIN conns = 1..Len(conns) /\ \A i \in 1..Len(conns) : conns[i] \in Conn
  OBVIOUS
<1>2. conns' = [i \in 1..(Len(conns) - 1) |-> IF i < p THEN conns[i] ELSE conns[i + 1]]
  BY <1>1, Zenon DEF filterOutConnection
<1>3. /\ conns' \in Seq(Conn) /\ DOMAIN conns' = 1..(Len(conns) - 1)
      /\ \A i \in 1..(Len(conns) - 1) : IF i < p THEN conns'[i] = conns[i] /\ i \in 1..Len(conns) /\ i # p
                                              ELSE conns'[i] = conns[i + 1] /\ i + 1 \in 1..Len(conns) /\ i + 1 # p
  BY <1>2, <1>l, SMTT(30)
<1>4. \A i, j \in DOMAIN conns' : conns'[i] = conns'[j] => i = j
  <2> SUFFICES ASSUME NEW i \in 1..(Len(conns) - 1), NEW j \in 1..(Len(conns) - 1), conns'[i] = conns'[j] PROVE i = j
    BY <1>3, Zenon
  <2>1. \A a, b \in 1..Len(conns) : conns[a] = conns[b] => a = b
    BY <1>l, Zenon
  <2> QED BY <1>l, <1>3, <2>1, SMTT(30)
<1>5. \A x : x \in {conns'[i] : i \in DOMAIN conns'} => x \in {conns[i] : i \in DOMAIN conns} \ {conns[p]}
  <2> SUFFICES ASSUME NEW i \in 1..(Len(conns) - 1) PROVE conns'[i] \in {conns[k] : k \in DOMAIN conns} \ {conns[p]}
    BY <1>3, Zenon
  <2>1. PICK k \in 1..Len(conns) : conns'[i] = conns[k] /\ k # p
    BY <1>3, Zenon
  <2> QED BY <1>l, <2>1, Zenon
<1>6. \A x : x \in {conns[i] : i \in DOMAIN conns} \ {conns[p]} => x \in {conns'[i] : i \in DOMAIN conns'}
  <2> SUFFICES ASSUME NEW k \in 1..Len(conns), k # p PROVE conns[k] \in {conns'[i] : i \in DOMAIN conns'}
    BY <1>l, SMTT(30)
  <2>1. CASE k < p
    <3>1. k \in 1..(Len(conns) - 1) /\ conns'[k] = conns[k]
      BY <1>l, <1>3, <2>1, SMTT(30)
    <3> QED BY <1>3, <3>1, Zenon
  <2>2. CASE ~(k < p)
    <3>1. k - 1 \in 1..(Len(conns) - 1) /\ ~(k - 1 < p) /\ (k - 1) + 1 = k
      BY <1>l, <2>2
    <3>2. conns'[k - 1] = conns[k]
      BY <1>3, <3>1, Zenon
    <3> QED BY <1>3, <3>1, <3>2, Zenon
  <2> QED BY <2>1, <2>2, Zenon
<1> QED BY <1>3, <1>4, <1>5, <1>6, Zenon

\* What expel does to the list and to the object.
LEMMA Expelled ==
  ASSUME MuxInv, NEW c \in Conn, Expel(c)
  PROVE  /\ registered /\ ~expelled /\ c \in Listed
         /\ conns' \in Seq(Conn) /\ Listed' = Listed \ {c}
         /\ \A i, j \in DOMAIN conns' : conns'[i] = conns'[j] => i = j
         /\ expelled' = (conns' = <<>>) /\ (expelled' <=> Listed' = {})
         /\ fate'[c] = (IF expelled' THEN "destruct" ELSE "gone")
         /\ \A d \in Conn : d # c => fate'[d] = fate[d]
         /\ fate' \in [Conn -> {"unused", "live", "expel", "destruct", "gone"}]
<1>t. CsType /\ ConnType /\ MapInv
  BY Zenon DEF MuxInv, TypeOK
<1>1. fate[c] = "expel" /\ c \in Listed
  BY <1>t, Zenon DEF Expel, MapInv, NoConnectionLost
<1>2. registered /\ expelled = FALSE
  BY <1>t, <1>1, Zenon DEF MapInv, NoConnectionLost, CsType
<1>3. PICK p \in DOMAIN conns : c = conns[p]
  BY <1>1, Zenon DEF Listed
<1>4. conns' = filterOutConnection(conns, c)
  BY Zenon DEF Expel
<1>5. /\ conns' \in Seq(Conn) /\ \A i, j \in DOMAIN conns' : conns'[i] = conns'[j] => i = j
      /\ Listed' = Listed \ {c}
  <2>1. conns \in Seq(Conn) /\ \A i, j \in DOMAIN conns : conns[i] = conns[j] => i = j
    BY <1>t, Zenon DEF CsType, MapInv, NoConnectionLost
  <2>2. conns' = filterOutConnection(conns, conns[p])
    BY <1>3, <1>4, Zenon
  <2>3. /\ conns' \in Seq(Conn) /\ \A i, j \in DOMAIN conns' : conns'[i] = conns'[j] => i = j
        /\ {conns'[i] : i \in DOMAIN conns'} = {conns[i] : i \in DOMAIN conns} \ {conns[p]}
    BY <2>1, <2>2, Filtered, Zenon
  <2> QED BY <1>3, <2>3, Zenon DEF Listed
<1>6. expelled' = (conns' = <<>>)
  BY <1>2, Zenon DEF Expel
<1>7. conns' = <<>> <=> Listed' = {}
  <2>1. Len(conns') \in Nat /\ DOMAIN conns' = 1..Len(conns') /\ (Len(conns') = 0 <=> conns' = <<>>)
    BY <1>5
  <2>2. 1 \in DOMAIN conns' => conns'[1] \in Listed'
    BY Zenon DEF Listed
  <2>3. conns' = <<>> => Listed' = {}
    BY DEF Listed
  <2> QED BY <2>1, <2>2, <2>3
<1>8. /\ fate'[c] = (IF expelled' THEN "destruct" ELSE "gone") /\ \A d \in Conn : d # c => fate'[d] = fate[d]
      /\ fate' \in [Conn -> {"unused", "live", "expel", "destruct", "gone"}]
  <2>1. expelled' \in BOOLEAN
    BY <1>6, Zenon
  <2>2. fate' = [fate EXCEPT ![c] = IF expelled' = expelled THEN "gone" ELSE "destruct"]
    BY Zenon DEF Expel
  <2>3. (IF expelled' = expelled THEN "gone" ELSE "destruct") = (IF expelled' THEN "destruct" ELSE "gone")
    BY <1>2, <2>1, Zenon
  <2> QED BY <1>t, <2>2, <2>3, Zenon DEF ConnType
<1> QED BY <1>1, <1>2, <1>5, <1>6, <1>7, <1>8, Zenon

\* expel takes a Connection out of the list.
LEMMA ExpelInv ==
  ASSUME MuxInv, NEW c \in Conn, Expel(c), UNCHANGED isStream
  PROVE  MuxInv'
<1>t. CsType /\ ConnType /\ ThreadType /\ CallType /\ EndType /\ CallInv /\ MapInv
  BY Zenon DEF MuxInv, TypeOK
<1>1. /\ UNCHANGED <<registered, inc, rr, csmu, made, dial, closed, err, isIdle, virs, count, gen, sock, shut,
                     threadVars, callVars, endVars>>
      /\ fate[c] = "expel" /\ csmu = None /\ idle' = idle - Plus(1)
  BY Zenon DEF Expel
<1>m. c <= made /\ made \in Nat /\ Conn \subseteq Nat
  BY <1>t, <1>1, Made, ConnNat DEF CsType
<1>2. CsType' /\ ConnType' /\ ThreadType' /\ CallType' /\ EndType'
  <2>1. idle' \in Int
    BY <1>t, <1>1, SMTT(30) DEF CsType, Plus
  <2>2. conns' \in Seq(Conn) /\ expelled' \in BOOLEAN /\ fate' \in [Conn -> {"unused", "live", "expel", "destruct", "gone"}]
    BY Expelled, Zenon
  <2>3. CsType'
    BY <1>t, <1>1, <2>1, <2>2, Zenon DEF CsType
  <2>4. CallType' /\ ThreadType' /\ EndType'
    BY <1>t, <1>1, Zenon DEF CallType, ThreadType, EndType, callVars, threadVars, endVars
  <2>5. ConnType'
    BY <1>t, <1>1, <2>2, Zenon DEF ConnType
  <2> QED BY <2>3, <2>4, <2>5, Zenon
<1>3. CallInv'
  <2>1. \A u \in Call : cpc[u] # "scan"
    BY <1>t, <1>1, NoneAssumption, Zenon DEF CallInv
  <2> QED BY <1>t, <1>1, <2>1, ZenonT(30) DEF CallInv, callVars
<1>4. NoOrphan'
  BY <1>1, OrphanFrame, Zenon DEF MuxInv, callVars, endVars
<1>5. MapInv'
  <2>0. registered /\ \A d \in Conn : fate[d] # "destruct"
    BY <1>t, Expelled, Zenon DEF MapInv, NoConnectionLost
  <2>1. NoConnectionLost'
    <3>1. \A d \in Conn : (fate'[d] \in {"live", "expel"} <=> d \in Listed')
      BY <1>t, Expelled DEF MapInv, NoConnectionLost
    <3>2. \A d \in Conn : fate'[d] = "destruct" <=> d = c /\ expelled'
      BY <2>0, Expelled, Zenon
    <3> QED BY <1>1, <2>0, <3>1, <3>2, Expelled, SMTT(30) DEF NoConnectionLost
  <2>2. \A d \in Conn : fate'[d] = "unused" <=> d > made
    BY <1>t, <1>1, <1>m, Expelled, SMTT(30) DEF MapInv
  <2> QED BY <1>t, <1>1, <2>0, <2>1, <2>2, Zenon DEF MapInv
<1>f. MuFree(c) /\ \A d \in Conn : MuFree(d)' = MuFree(d)
  BY <1>1, Zenon DEF MuxInv, RedialInv, MuFree, threadVars
<1>e. fate'[c] \in {"destruct", "gone"} /\ \A d \in Conn : d # c => fate'[d] = fate[d]
  BY Expelled, Zenon
<1>6. RedialInv'
  BY <1>1, <1>e, <1>f, SMTT(60) DEF MuxInv, RedialInv, threadVars
<1>7. ShutInv'
  BY <1>1, <1>e, ZenonT(30) DEF MuxInv, ShutInv, threadVars, endVars
<1>8. SocketInv'
  BY <1>1, <1>e, <1>f, ZenonT(30) DEF MuxInv, SocketInv, endVars
<1> QED BY <1>2, <1>3, <1>4, <1>5, <1>6, <1>7, <1>8, Zenon DEF MuxInv, TypeOK

\* The destructor deletes the key, and no newer object with it.
LEMMA DestructInv ==
  ASSUME MuxInv, NEW c \in Conn, Destruct(c), UNCHANGED isStream
  PROVE  MuxInv'
<1>t. CsType /\ ConnType /\ ThreadType /\ CallType /\ EndType /\ CallInv /\ MapInv
  BY DEF MuxInv, TypeOK
<1>1. /\ UNCHANGED <<inc, conns, idle, rr, expelled, csmu, made, dial, closed, err, isIdle, virs, count, gen, sock, shut,
                     threadVars, callVars, endVars>>
      /\ fate[c] = "destruct" /\ registered' = FALSE /\ fate' = [fate EXCEPT ![c] = "gone"]
  BY Zenon DEF Destruct
<1>e. fate'[c] = "gone" /\ \A d \in Conn : d # c => fate'[d] = fate[d]
  BY <1>t, <1>1, Zenon DEF ConnType
<1>r. registered /\ expelled /\ Listed = {}
  BY <1>t, <1>1, Zenon DEF MapInv, NoConnectionLost
<1>2. CsType' /\ ConnType' /\ ThreadType' /\ CallType' /\ EndType'
  <2>1. CsType'
    BY <1>t, <1>1, Zenon DEF CsType
  <2>2. CallType' /\ ThreadType' /\ EndType'
    BY <1>t, <1>1, ZenonT(30) DEF CallType, ThreadType, EndType, callVars, threadVars, endVars
  <2>3. ConnType'
    BY <1>t, <1>1, Zenon DEF ConnType
  <2> QED BY <2>1, <2>2, <2>3
<1>3. CallInv'
  BY <1>t, <1>1, <1>r, Zenon DEF CallInv, callVars
<1>4. NoOrphan'
  BY <1>1, OrphanFrame, Zenon DEF MuxInv, callVars, endVars
<1>5. MapInv'
  <2>0. Listed' = {}
    BY <1>1, <1>r, ZenonT(30) DEF Listed
  <2>1. \A d \in Conn : fate'[d] # "destruct"
    BY <1>t, <1>1, <1>e, SMTT(30) DEF MapInv, NoConnectionLost
  <2>2. NoConnectionLost'
    BY <1>t, <1>1, <1>e, <1>r, <2>0, <2>1, Zenon DEF MapInv, NoConnectionLost
  <2> QED BY <1>t, <1>1, <1>e, <1>r, <2>0, <2>2, Zenon DEF MapInv
<1>f. MuFree(c) /\ \A d \in Conn : MuFree(d)' = MuFree(d)
  BY <1>1, ZenonT(30) DEF MuxInv, RedialInv, MuFree, threadVars
<1>6. RedialInv'
  BY <1>1, <1>e, <1>f, SMTT(60) DEF MuxInv, RedialInv, threadVars
<1>7. ShutInv'
  BY <1>1, <1>e, ZenonT(30) DEF MuxInv, ShutInv, threadVars, endVars
<1>8. SocketInv'
  BY <1>1, <1>e, <1>f, Zenon DEF MuxInv, SocketInv, endVars
<1> QED BY <1>2, <1>3, <1>4, <1>5, <1>6, <1>7, <1>8 DEF MuxInv, TypeOK
=============================================================================

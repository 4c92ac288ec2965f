------------------------- MODULE MultiplexedProofs --------------------------
(***************************************************************************)
(* Theorems about Multiplexed for any number of calls, connections and     *)
(* failures and all options of the pool: MuxInv is kept when a goroutine   *)
(* closes a Connection and reconnects as well, so it is an invariant.      *)
(***************************************************************************)
EXTENDS MultiplexedConns, FiniteSetTheorems

-----------------------------------------------------------------------------
(* A goroutine that met an error closes the Connection and reconnects.     *)

\* Errors are met on streams only: nobody breaks or closes a UDP socket.
LEMMA OnStream ==
  ASSUME MuxInv, NEW c \in Conn, NEW g \in Gen,
         rpc[c][g].at \in {"error", "redial"} \/ wpc[c][g].at \in {"error", "redial"}
  PROVE  isStream
<1>1. ~isStream => {rpc[c][g].at, wpc[c][g].at} \cap {"error", "redial"} = {}
  BY Zenon DEF MuxInv, ShutInv
<1>2. {rpc[c][g].at, wpc[c][g].at} \cap {"error", "redial"} # {}
  BY Zenon
<1> QED BY <1>1, <1>2, Zenon

\* The goroutine that closes moves, and no other does.
LEMMA Moved ==
  ASSUME MuxInv, NEW c \in Conn, NEW g \in Gen, NEW who \in {"r", "w"}, NEW pc \in {"off", "redial"},
         Move(c, g, who, pc), UNCHANGED <<wbuf, wire>>
  PROVE  /\ ThreadType'
         /\ \A d \in Conn, h \in Gen : /\ ~(who = "r" /\ d = c /\ h = g) => rpc'[d][h] = rpc[d][h]
                                       /\ ~(who = "w" /\ d = c /\ h = g) => wpc'[d][h] = wpc[d][h]
         /\ who = "r" => rpc'[c][g].at = pc
         /\ who = "w" => wpc'[c][g].at = pc
<1>t. /\ rpc \in [Conn -> [Gen -> Thread(ReaderPC)]] /\ wpc \in [Conn -> [Gen -> Thread(WriterPC)]]
      /\ wbuf \in [Conn -> Seq(Call)] /\ wire \in [Conn -> [Gen -> SUBSET Call]]
      /\ \A d \in Conn, h \in Gen : wpc[d][h].at = "write" => wpc[d][h].u \in Call
  BY Zenon DEF MuxInv, TypeOK, ThreadType, ReaderPC, WriterPC
<1> DEFINE to == IF pc = "off" THEN Off ELSE [Off EXCEPT !.at = pc]
<1>1. to \in Thread(ReaderPC) /\ to \in Thread(WriterPC) /\ to.at = pc
  <2>1. pc \in ReaderPC /\ pc \in WriterPC /\ "off" \in ReaderPC /\ "off" \in WriterPC
    BY Zenon DEF ReaderPC, WriterPC
  <2>2. [Off EXCEPT !.at = pc] = [at |-> pc, s |-> 0, u |-> None] /\ Off = [at |-> "off", s |-> 0, u |-> None]
    BY <2>1, OffType, Zenon DEF Off
  <2>3. to = [at |-> pc, s |-> 0, u |-> None]
    BY <2>2, Zenon
  <2> QED BY <2>1, <2>3, ZeroGen DEF Thread
<1>m. /\ rpc' = IF who = "r" THEN [rpc EXCEPT ![c][g] = to] ELSE rpc
      /\ wpc' = IF who = "w" THEN [wpc EXCEPT ![c][g] = to] ELSE wpc
  BY Zenon DEF Move
<1> HIDE DEF to
<1>2. CASE who = "r"
  <2>1. /\ rpc' \in [Conn -> [Gen -> Thread(ReaderPC)]]
        /\ \A d \in Conn, h \in Gen : rpc'[d][h] = IF d = c /\ h = g THEN to ELSE rpc[d][h]
    BY <1>2, <1>t, <1>1, <1>m, Update2, SMTT(30)
  <2> QED BY <1>2, <1>t, <1>1, <1>m, <2>1, Zenon DEF ThreadType, ReaderPC, WriterPC
<1>3. CASE who = "w"
  <2>1. /\ wpc' \in [Conn -> [Gen -> Thread(WriterPC)]]
        /\ \A d \in Conn, h \in Gen : wpc'[d][h] = IF d = c /\ h = g THEN to ELSE wpc[d][h]
    BY <1>3, <1>t, <1>1, <1>m, Update2, SMTT(30)
  <2>2. \A d \in Conn, h \in Gen : wpc'[d][h].at = "write" => wpc'[d][h].u \in Call
    BY <1>t, <1>1, <2>1, ZenonT(30)
  <2> QED BY <1>3, <1>t, <1>1, <1>m, <2>1, <2>2, Zenon DEF ThreadType, ReaderPC, WriterPC
<1> QED BY <1>2, <1>3, Zenon

\* doClose up to the reconnection.
LEMMA DoCloseInv ==
  ASSUME MuxInv, NEW c \in Conn, NEW g \in Gen, NEW who \in {"r", "w"}, DoClose(c, g, who), UNCHANGED isStream
  PROVE  MuxInv'
<1>t. CsType /\ ConnType /\ ThreadType /\ CallType /\ EndType
  BY Zenon DEF MuxInv, TypeOK
<1>1. /\ UNCHANGED <<csVars, dial, isIdle, gen, wbuf, wire, callVars, got, breaks>>
      /\ IF who = "r" THEN rpc[c][g].at = "error" ELSE wpc[c][g].at = "error"
      /\ MuFree(c)
  BY Zenon DEF DoClose, At
<1>s. isStream /\ fate[c] # "unused" /\ dial[c] # "failed"
  <2>1. isStream
    BY <1>1, OnStream, Zenon
  <2>2. fate[c] # "unused"
    BY <1>1, Zenon DEF MuxInv, RedialInv
  <2> QED BY <2>1, <2>2, Zenon DEF MuxInv, ShutInv
<1>m. c <= made
  BY <1>s, Made, Zenon
<1>2. CsType' /\ CallType'
  BY <1>t, <1>1, Zenon DEF CsType, CallType, csVars, callVars
<1>3. CallInv'
  BY <1>1, CallFrame, Zenon DEF MuxInv, csVars, callVars
<1>4. CASE closed[c]
  <2>1. Move(c, g, who, "off") /\ UNCHANGED <<fate, closed, err, virs, count, shut, sock, cancelled, crashed>>
    BY <1>4, Zenon DEF DoClose
  <2>2. /\ ThreadType'
        /\ \A d \in Conn, h \in Gen : /\ rpc'[d][h] = rpc[d][h] \/ (rpc'[d][h].at = "off" /\ d = c)
                                      /\ wpc'[d][h] = wpc[d][h] \/ (wpc'[d][h].at = "off" /\ d = c)
    BY <1>1, <2>1, Moved
  <2>3. ConnType' /\ EndType'
    BY <1>t, <1>1, <2>1, Zenon DEF ConnType, EndType
  <2>4. MapInv' /\ NoOrphan'
    BY <1>1, <2>1, MapFrame, OrphanFrame, Zenon DEF MuxInv, csVars, callVars
  <2>f. \A d \in Conn : MuFree(d)' = MuFree(d)
    BY <1>1, <2>2, SMTT(30) DEF MuFree
  <2>5. RedialInv'
    BY <2>1, <2>2, <2>f, <1>1, <1>s, SMTT(30) DEF MuxInv, RedialInv
  <2>6. ShutInv'
    BY <1>1, <1>s, <2>1, Zenon DEF MuxInv, ShutInv
  <2>7. SocketInv'
    BY <1>1, <2>1, <2>f, Zenon DEF MuxInv, SocketInv
  <2> QED BY <1>2, <1>3, <2>2, <2>3, <2>4, <2>5, <2>6, <2>7, Zenon DEF MuxInv, TypeOK
<1>5. CASE ~closed[c]
  <2>1. Shutdown(c) /\ count' = [count EXCEPT ![c] = @ + 1]
    BY <1>5, Zenon DEF DoClose
  <2>l. fate[c] = "live"
    <3>1. fate[c] \notin {"expel", "destruct", "gone"}
      BY <1>s, <1>5, Zenon DEF MuxInv, ShutInv
    <3> QED BY <1>t, <1>s, <3>1, Zenon DEF ConnType
  <2>c. /\ count[c] \in Nat /\ count[c] <= MaxReconnect /\ gen[c] <= MaxReconnect * breaks + count[c]
        /\ MaxReconnect * breaks \in Nat /\ gen[c] \in Nat
    BY <2>l, <1>1, Counters DEF MuxInv, SocketInv
  <2>n. /\ count' \in [Conn -> 0..MaxReconnect + 1] /\ count'[c] = count[c] + 1
        /\ \A d \in Conn : d # c => count'[d] = count[d]
    <3>1. count[c] + 1 \in 0..MaxReconnect + 1
      BY <2>c, Bounds
    <3> QED BY <1>t, <2>1, <3>1, Zenon DEF ConnType
  <2>2. /\ ~crashed' /\ closed'[c] /\ shut'[c] = shut[c] \cup {gen[c]} /\ NoOrphan'
        /\ \A d \in Conn : d # c => UNCHANGED <<closed[d], shut[d]>>
    BY <1>1, <1>s, <1>5, <2>1, Shut, Zenon DEF callVars
  <2>3. fate' \in [Conn -> {"unused", "live", "expel", "destruct", "gone"}] => ConnType' /\ EndType'
    <3>1. /\ crashed' = FALSE
          /\ {closed', err'} \subseteq [Conn -> BOOLEAN] /\ virs' \in [Conn -> SUBSET Call]
          /\ shut' \in [Conn -> SUBSET Gen]
          /\ sock' \in [Conn -> [Gen -> {"none", "open", "broken", "closed"}]]
          /\ cancelled' \subseteq Call
      BY <1>1, <1>s, <1>5, <2>1, Shut, Zenon DEF callVars
    <3> QED BY <1>t, <1>1, <2>n, <3>1, Zenon DEF ConnType, EndType
  <2>4. CASE Backoff(count[c])
    <3>1. Move(c, g, who, "redial") /\ UNCHANGED fate
      BY <1>5, <2>4, Zenon DEF DoClose
    <3>2. /\ ThreadType'
          /\ \A d \in Conn, h \in Gen : /\ ~(who = "r" /\ d = c /\ h = g) => rpc'[d][h] = rpc[d][h]
                                        /\ ~(who = "w" /\ d = c /\ h = g) => wpc'[d][h] = wpc[d][h]
          /\ who = "r" => rpc'[c][g].at = "redial"
          /\ who = "w" => wpc'[c][g].at = "redial"
      BY <1>1, <3>1, Moved, Zenon
    <3>3. ConnType' /\ EndType'
      BY <1>t, <2>3, <3>1, Zenon DEF ConnType
    <3>4. MapInv'
      BY <1>1, <1>m, <2>2, <3>1, MapStep, Zenon DEF csVars
    <3>f. \A d \in Conn : d # c => MuFree(d)' = MuFree(d)
      BY <3>2, SMTT(30) DEF MuFree
    <3>5. RedialInv'
      <4>1. \A h \in Gen : rpc[c][h].at # "redial" /\ wpc[c][h].at # "redial"
        BY <1>1, Zenon DEF MuFree
      <4>2. \A h \in Gen : /\ rpc'[c][h].at = "redial" <=> who = "r" /\ h = g
                           /\ wpc'[c][h].at = "redial" <=> who = "w" /\ h = g
        BY <3>2, <4>1, Zenon
      <4> QED BY <2>2, <2>l, <3>1, <3>2, <3>f, <4>2, SMTT(30) DEF MuxInv, RedialInv
    <3>6. ShutInv'
      <4>1. shut'[c] \subseteq 0..gen[c]
        BY <2>2, <2>c, SMTT(30) DEF MuxInv, ShutInv
      <4> QED BY <1>1, <1>s, <2>2, <3>1, <4>1, Zenon DEF MuxInv, ShutInv
    <3>7. SocketInv'
      <4>1. count[c] + 1 <= MaxReconnect
        BY <2>4, Zenon DEF Backoff
      <4>2. /\ gen'[c] + (IF MuFree(c)' THEN 0 ELSE 1) <= MaxReconnect * breaks' + count'[c]
            /\ count'[c] <= MaxReconnect
        <5>1. gen'[c] = gen[c] /\ MaxReconnect * breaks' = MaxReconnect * breaks
          BY <1>1, ZenonT(30)
        <5> QED BY <2>c, <2>n, <4>1, <5>1, Bounds, SMTT(30)
      <4> QED BY <1>1, <2>n, <3>1, <3>f, <4>2, Zenon DEF MuxInv, SocketInv
    <3> QED BY <1>2, <1>3, <2>2, <3>2, <3>3, <3>4, <3>5, <3>6, <3>7, Zenon DEF MuxInv, TypeOK
  <2>5. CASE ~Backoff(count[c])
    <3>1. Move(c, g, who, "off") /\ fate' = [fate EXCEPT ![c] = "expel"]
      BY <1>5, <2>5, Zenon DEF DoClose
    <3>2. /\ ThreadType'
          /\ \A d \in Conn, h \in Gen : /\ (rpc'[d][h].at = "redial" <=> rpc[d][h].at = "redial")
                                        /\ (wpc'[d][h].at = "redial" <=> wpc[d][h].at = "redial")
                                        /\ d # c => UNCHANGED <<rpc[d][h], wpc[d][h]>>
      <4>1. /\ ThreadType'
            /\ \A d \in Conn, h \in Gen : /\ ~(who = "r" /\ d = c /\ h = g) => rpc'[d][h] = rpc[d][h]
                                          /\ ~(who = "w" /\ d = c /\ h = g) => wpc'[d][h] = wpc[d][h]
            /\ who = "r" => rpc'[c][g].at = "off"
            /\ who = "w" => wpc'[c][g].at = "off"
        BY <1>1, <3>1, Moved, Zenon
      <4> QED BY <1>1, <4>1, ZenonT(30)
    <3>3. /\ fate' \in [Conn -> {"unused", "live", "expel", "destruct", "gone"}]
          /\ fate'[c] = "expel" /\ \A d \in Conn : d # c => fate'[d] = fate[d]
      BY <1>t, <3>1, Zenon DEF ConnType
    <3>4. /\ UNCHANGED <<registered, inc, conns, expelled, made, gen, breaks, isStream>> /\ dial'[c] # "failed"
          /\ \A d \in Conn : d # c => UNCHANGED <<fate[d], closed[d], shut[d], count[d], dial[d], isIdle[d]>>
      BY <1>1, <1>s, <2>n, <2>2, <3>3, Zenon DEF csVars
    <3>5. MapInv' /\ RedialInv' /\ ShutInv' /\ SocketInv'
      BY <1>s, <1>m, <1>5, <2>2, <3>2, <3>3, <3>4, ClosedInv, Zenon
    <3> QED BY <1>2, <1>3, <2>2, <2>3, <3>2, <3>3, <3>5, ZenonT(30) DEF MuxInv, TypeOK
  <2> QED BY <2>4, <2>5, Zenon
<1> QED BY <1>4, <1>5, Zenon

\* While a goroutine reconnects it is the only one, and its Connection is live.
LEMMA Redialing ==
  ASSUME MuxInv, NEW c \in Conn, NEW g \in Gen, NEW who \in {"r", "w"}, At(c, g, who, "redial")
  PROVE  /\ isStream /\ fate[c] = "live" /\ closed[c] /\ ~MuFree(c) /\ c <= made
         /\ \A h \in Gen : /\ rpc[c][h].at = "redial" <=> who = "r" /\ h = g
                           /\ wpc[c][h].at = "redial" <=> who = "w" /\ h = g
         /\ count[c] \in Nat /\ count[c] <= MaxReconnect /\ gen[c] \in Nat /\ gen[c] + 1 <= MaxReconnect * breaks + count[c]
<1>1. IF who = "r" THEN rpc[c][g].at = "redial" ELSE wpc[c][g].at = "redial"
  BY Zenon DEF At
<1>2. ~MuFree(c)
  BY <1>1, Zenon DEF MuFree
<1>3. fate[c] = "live" /\ closed[c]
  BY <1>2, Zenon DEF MuxInv, RedialInv
<1>4. isStream
  BY <1>1, OnStream, Zenon
<1>5. \A h \in Gen : /\ rpc[c][h].at = "redial" <=> who = "r" /\ h = g
                     /\ wpc[c][h].at = "redial" <=> who = "w" /\ h = g
  BY <1>1, Zenon DEF MuxInv, RedialInv
<1>6. c <= made
  BY <1>3, Made, Zenon
<1>7. count[c] <= MaxReconnect /\ gen[c] + 1 <= MaxReconnect * breaks + count[c]
  BY <1>2, <1>3, Zenon DEF MuxInv, SocketInv
<1> QED BY <1>2, <1>3, <1>4, <1>5, <1>6, <1>7, Counters, Zenon

\* reconnect's dial fails, for the last time or not.
LEMMA RedialFailsInv ==
  ASSUME MuxInv, NEW c \in Conn, NEW g \in Gen, NEW who \in {"r", "w"}, RedialFails(c, g, who), UNCHANGED isStream
  PROVE  MuxInv'
<1>t. CsType /\ ConnType /\ ThreadType /\ CallType /\ EndType
  BY DEF MuxInv, TypeOK
<1> DEFINE n == IF SlowDial THEN 0 ELSE count[c]
<1>1. /\ UNCHANGED <<csVars, dial, closed, err, isIdle, virs, gen, sock, shut, wbuf, wire, callVars, endVars>>
      /\ At(c, g, who, "redial") /\ count' = [count EXCEPT ![c] = n + 1]
  BY Zenon DEF RedialFails
<1>r. /\ isStream /\ fate[c] = "live" /\ closed[c] /\ ~MuFree(c) /\ c <= made
      /\ count[c] \in Nat /\ count[c] <= MaxReconnect /\ gen[c] \in Nat /\ gen[c] + 1 <= MaxReconnect * breaks + count[c]
  BY <1>1, Redialing, SMTT(60)
<1>n. n \in Nat /\ n <= MaxReconnect /\ gen[c] + 1 <= MaxReconnect * breaks + n + 1
  <2>1. SlowDial => gen[c] = 0
    BY Zenon DEF MuxInv, SocketInv
  <2>2. MaxReconnect * breaks \in Nat
    BY Counters, Zenon
  <2> QED BY <1>r, <2>1, <2>2, Bounds
<1> HIDE DEF n
<1>c. /\ count' \in [Conn -> 0..MaxReconnect + 1] /\ count'[c] = n + 1
      /\ \A d \in Conn : d # c => count'[d] = count[d]
  <2>1. n + 1 \in 0..MaxReconnect + 1
    BY <1>n, Bounds
  <2> QED BY <1>t, <1>1, <2>1, Zenon DEF ConnType
<1>2. CsType' /\ CallType' /\ EndType'
  BY <1>t, <1>1, Zenon DEF CsType, CallType, EndType, csVars, callVars, endVars
<1>3. CallInv' /\ NoOrphan'
  BY <1>1, CallFrame, OrphanFrame, Zenon DEF MuxInv, csVars, callVars, endVars
<1>4. CASE Backoff(n)
  <2>1. UNCHANGED <<rpc, wpc, fate>>
    BY <1>4, Zenon DEF RedialFails, n
  <2>2. ConnType' /\ ThreadType'
    BY <1>t, <1>1, <1>c, <2>1, Zenon DEF ConnType, ThreadType
  <2>3. MapInv' /\ RedialInv' /\ ShutInv'
    BY <1>1, <2>1, MapFrame, RedialFrame, ShutFrame, Zenon DEF MuxInv, csVars, endVars
  <2>4. SocketInv'
    <3>1. \A d \in Conn : MuFree(d)' = MuFree(d)
      BY <2>1, Zenon DEF MuFree
    <3>2. count'[c] <= MaxReconnect /\ gen[c] + 1 <= MaxReconnect * breaks + count'[c]
      BY <1>4, <1>n, <1>c, Counters, SMTT(30) DEF Backoff
    <3> QED BY <1>1, <1>r, <1>c, <2>1, <3>1, <3>2, Zenon DEF MuxInv, SocketInv, endVars
  <2> QED BY <1>2, <1>3, <2>2, <2>3, <2>4, Zenon DEF MuxInv, TypeOK
<1>5. CASE ~Backoff(n)
  <2>1. Move(c, g, who, "off") /\ fate' = [fate EXCEPT ![c] = "expel"]
    BY <1>5, Zenon DEF RedialFails, n
  <2>2. /\ ThreadType'
        /\ \A d \in Conn, h \in Gen : /\ ~(who = "r" /\ d = c /\ h = g) => rpc'[d][h] = rpc[d][h]
                                      /\ ~(who = "w" /\ d = c /\ h = g) => wpc'[d][h] = wpc[d][h]
        /\ who = "r" => rpc'[c][g].at = "off"
        /\ who = "w" => wpc'[c][g].at = "off"
    BY <1>1, <2>1, Moved, Zenon
  <2>3. /\ fate' \in [Conn -> {"unused", "live", "expel", "destruct", "gone"}]
        /\ fate'[c] = "expel" /\ \A d \in Conn : d # c => fate'[d] = fate[d]
    BY <1>t, <2>1 DEF ConnType
  <2>4. ConnType'
    BY <1>t, <1>1, <1>c, <2>3, Zenon DEF ConnType
  <2>5. MapInv'
    BY <1>1, <1>r, <2>3, MapStep, Zenon DEF csVars
  <2>f. MuFree(c)' /\ \A d \in Conn : d # c => MuFree(d)' = MuFree(d)
    <3>1. \A h \in Gen : rpc'[c][h].at # "redial" /\ wpc'[c][h].at # "redial"
      BY <1>1, <2>2, Redialing, SMTT(30)
    <3> QED BY <2>2, <3>1, SMTT(30) DEF MuFree
  <2>6. RedialInv'
    <3>1. \A h \in Gen : rpc'[c][h].at # "redial" /\ wpc'[c][h].at # "redial"
      BY <2>f, Zenon DEF MuFree
    <3> QED BY <1>1, <2>2, <2>3, <2>f, <3>1, SMTT(60) DEF MuxInv, RedialInv
  <2>7. ShutInv'
    BY <1>1, <1>r, <2>3, ZenonT(30) DEF MuxInv, ShutInv, endVars
  <2>8. SocketInv'
    BY <1>1, <1>c, <2>3, <2>f, Zenon DEF MuxInv, SocketInv, endVars
  <2> QED BY <1>2, <1>3, <2>2, <2>4, <2>5, <2>6, <2>7, <2>8, Zenon DEF MuxInv, TypeOK
<1> QED BY <1>4, <1>5, Zenon

\* The numbers of sockets last: a reconnection finds a free one.
LEMMA NextSocket ==
  ASSUME MuxInv, NEW c \in Conn, NEW g \in Gen, NEW who \in {"r", "w"}, At(c, g, who, "redial")
  PROVE  gen[c] + 1 \in Gen
<1>1. gen[c] \in Nat /\ gen[c] + 1 <= MaxReconnect * breaks + MaxReconnect
  BY Redialing, Counters, Bounds, SMTT(60)
<1>2. breaks \in 0..MaxBreak
  BY Zenon DEF MuxInv, TypeOK, EndType
<1>3. MaxReconnect * breaks + MaxReconnect <= MaxReconnect * (MaxBreak + 1)
  <2>1. \A m, b, x \in Nat : b <= x => m * b + m <= m * (x + 1)
    OBVIOUS
  <2> QED BY <1>2, <2>1, Bounds
<1>4. MaxReconnect * (MaxBreak + 1) \in Nat /\ MaxReconnect * breaks + MaxReconnect \in Nat
  BY <1>2, Bounds
<1> QED BY <1>1, <1>3, <1>4, SMTT(30) DEF Gen

\* reconnect succeeds.
LEMMA ReconnectInv ==
  ASSUME MuxInv, NEW c \in Conn, NEW g \in Gen, NEW who \in {"r", "w"}, Reconnect(c, g, who), UNCHANGED isStream
  PROVE  MuxInv'
<1>t. CsType /\ ConnType /\ ThreadType /\ CallType /\ EndType /\ NoOrphan
  BY Zenon DEF MuxInv, TypeOK
<1> DEFINE h == gen[c] + 1
           R == [at |-> "check", s |-> 0, u |-> None]
           W == [at |-> "loop", s |-> 0, u |-> None]
<1>1. /\ UNCHANGED <<registered, inc, conns, rr, expelled, csmu, made, fate, dial, virs, count, shut, wbuf, wire,
                     callVars, endVars>>
      /\ At(c, g, who, "redial") /\ ~SlowDial
      /\ gen' = [gen EXCEPT ![c] = h] /\ sock' = [sock EXCEPT ![c][h] = "open"]
      /\ isIdle' = [isIdle EXCEPT ![c] = TRUE]
      /\ idle' \in {idle, idle + Plus(1)}
      /\ err' = [err EXCEPT ![c] = FALSE] /\ closed' = [closed EXCEPT ![c] = FALSE]
  BY Zenon DEF Reconnect
<1>h. h \in Gen
  BY <1>1, NextSocket, Zenon
<1>r. /\ isStream /\ fate[c] = "live" /\ closed[c] /\ c <= made
      /\ \A k \in Gen : /\ rpc[c][k].at = "redial" <=> who = "r" /\ k = g
                        /\ wpc[c][k].at = "redial" <=> who = "w" /\ k = g
      /\ count[c] \in Nat /\ count[c] <= MaxReconnect /\ gen[c] \in Nat /\ gen[c] + 1 <= MaxReconnect * breaks + count[c]
  BY <1>1, Redialing
<1> HIDE DEF h
<1>p. /\ rpc' = [[rpc EXCEPT ![c][h] = R] EXCEPT ![c][g] = IF who = "r" THEN Off ELSE @]
      /\ wpc' = [[wpc EXCEPT ![c][h] = W] EXCEPT ![c][g] = IF who = "w" THEN Off ELSE @]
  <2>1. [Off EXCEPT !.at = "check"] = R /\ [Off EXCEPT !.at = "loop"] = W
    BY OffType, Zenon DEF ReaderPC, WriterPC
  <2>2. rpc' = [[rpc EXCEPT ![c][h] = [Off EXCEPT !.at = "check"]] EXCEPT ![c][g] = IF who = "r" THEN Off ELSE @]
    BY Zenon DEF Reconnect, h
  <2>3. wpc' = [[wpc EXCEPT ![c][h] = [Off EXCEPT !.at = "loop"]] EXCEPT ![c][g] = IF who = "w" THEN Off ELSE @]
    BY Zenon DEF Reconnect, h
  <2> HIDE DEF R, W
  <2> QED BY <2>1, <2>2, <2>3, Zenon
<1>o. Off \in Thread(ReaderPC) /\ Off \in Thread(WriterPC) /\ Off.at = "off" /\ R \in Thread(ReaderPC) /\ W \in Thread(WriterPC)
  BY ZeroGen, Zenon DEF Off, Thread, ReaderPC, WriterPC
<1>x. /\ rpc' \in [Conn -> [Gen -> Thread(ReaderPC)]]
      /\ \A d \in Conn, k \in Gen : rpc'[d][k] = IF d = c /\ k = g /\ who = "r" THEN Off
                                                 ELSE IF d = c /\ k = h THEN R ELSE rpc[d][k]
  <2> DEFINE f == [rpc EXCEPT ![c][h] = R]
  <2>1. rpc \in [Conn -> [Gen -> Thread(ReaderPC)]]
    BY <1>t, Zenon DEF ThreadType, ReaderPC
  <2>2. /\ f \in [Conn -> [Gen -> Thread(ReaderPC)]]
        /\ \A d \in Conn, k \in Gen : f[d][k] = IF d = c /\ k = h THEN R ELSE rpc[d][k]
    BY <1>h, <1>o, <2>1, Update2, SMTT(30)
  <2> HIDE DEF f
  <2>3. rpc' = [f EXCEPT ![c][g] = IF who = "r" THEN Off ELSE f[c][g]]
    BY <1>p, <2>2, Zenon DEF f
  <2>4. (IF who = "r" THEN Off ELSE f[c][g]) \in Thread(ReaderPC)
    BY <1>o, <2>2, Zenon
  <2>5. /\ rpc' \in [Conn -> [Gen -> Thread(ReaderPC)]]
        /\ \A d \in Conn, k \in Gen : rpc'[d][k] = IF d = c /\ k = g THEN (IF who = "r" THEN Off ELSE f[c][g]) ELSE f[d][k]
    BY <2>2, <2>3, <2>4, Update2, SMTT(30)
  <2> QED BY <2>2, <2>5, SMTT(60)
<1>y. /\ wpc' \in [Conn -> [Gen -> Thread(WriterPC)]]
      /\ \A d \in Conn, k \in Gen : wpc'[d][k] = IF d = c /\ k = g /\ who = "w" THEN Off
                                                 ELSE IF d = c /\ k = h THEN W ELSE wpc[d][k]
  <2> DEFINE f == [wpc EXCEPT ![c][h] = W]
  <2>1. wpc \in [Conn -> [Gen -> Thread(WriterPC)]]
    BY <1>t, Zenon DEF ThreadType, WriterPC
  <2>2. /\ f \in [Conn -> [Gen -> Thread(WriterPC)]]
        /\ \A d \in Conn, k \in Gen : f[d][k] = IF d = c /\ k = h THEN W ELSE wpc[d][k]
    BY <1>h, <1>o, <2>1, Update2, SMTT(30)
  <2> HIDE DEF f
  <2>3. wpc' = [f EXCEPT ![c][g] = IF who = "w" THEN Off ELSE f[c][g]]
    BY <1>p, <2>2, Zenon DEF f
  <2>4. (IF who = "w" THEN Off ELSE f[c][g]) \in Thread(WriterPC)
    BY <1>o, <2>2, Zenon
  <2>5. /\ wpc' \in [Conn -> [Gen -> Thread(WriterPC)]]
        /\ \A d \in Conn, k \in Gen : wpc'[d][k] = IF d = c /\ k = g THEN (IF who = "w" THEN Off ELSE f[c][g]) ELSE f[d][k]
    BY <2>2, <2>3, <2>4, Update2, SMTT(60)
  <2> QED BY <2>2, <2>5, SMTT(60)
<1>v. /\ gen'[c] = h /\ isIdle'[c] /\ ~closed'[c]
      /\ \A d \in Conn : d # c => UNCHANGED <<gen[d], isIdle[d], closed[d]>>
  BY <1>t, <1>1, Zenon DEF ConnType
<1>2. CsType' /\ ConnType' /\ ThreadType' /\ CallType' /\ EndType'
  <2>1. idle' \in Int
    BY <1>t, <1>1 DEF CsType, Plus
  <2>2. CsType' /\ CallType' /\ EndType'
    BY <1>t, <1>1, <2>1, Zenon DEF CsType, CallType, EndType, callVars, endVars
  <2>3. sock' \in [Conn -> [Gen -> {"none", "open", "broken", "closed"}]]
    <3>1. sock \in [Conn -> [Gen -> {"none", "open", "broken", "closed"}]]
      BY <1>t, Zenon DEF ConnType
    <3> QED BY <1>1, <1>h, <3>1, Update2, Zenon
  <2>4. ConnType'
    BY <1>t, <1>1, <1>h, <2>3, SMTT(30) DEF ConnType
  <2>5. \A d \in Conn, k \in Gen : wpc'[d][k].at = "write" => wpc'[d][k].u \in Call
    <3>1. \A d \in Conn, k \in Gen : wpc[d][k].at = "write" => wpc[d][k].u \in Call
      BY <1>t, Zenon DEF ThreadType
    <3>2. \A d \in Conn, k \in Gen : wpc'[d][k].at = "write" => wpc'[d][k] = wpc[d][k]
      BY <1>y, <1>o, SMTT(30)
    <3> QED BY <3>1, <3>2, Zenon
  <2>6. ThreadType'
    BY <1>t, <1>1, <1>x, <1>y, <2>5, Zenon DEF ThreadType, ReaderPC, WriterPC
  <2> QED BY <2>2, <2>4, <2>6, Zenon
<1>3. CallInv'
  BY <1>1, CallFrame, Zenon DEF MuxInv, callVars
<1>4. NoOrphan'
  <2>1. \A u \in Call : InUse(u) => uconn[u] \in Conn
    BY Picked, ZenonT(30) DEF InUse
  <2> QED BY <1>t, <1>1, <1>v, <2>1, Zenon DEF NoOrphan, InUse, callVars, endVars
<1>5. MapInv'
  BY <1>1, <1>r, <1>v, MapStep, ZenonT(30)
<1>f. /\ MuFree(c)' /\ \A d \in Conn : d # c => MuFree(d)' = MuFree(d)
      /\ \A k \in Gen : rpc'[c][k].at # "redial" /\ wpc'[c][k].at # "redial"
  <2>1. \A k \in Gen : rpc'[c][k].at # "redial" /\ wpc'[c][k].at # "redial"
    BY <1>r, <1>x, <1>y, <1>o, SMTT(60)
  <2> QED BY <1>x, <1>y, <2>1, ZenonT(30) DEF MuFree
<1>6. RedialInv'
  <2>1. \A d \in Conn, k \in Gen : d # c => rpc'[d][k] = rpc[d][k] /\ wpc'[d][k] = wpc[d][k]
    BY <1>x, <1>y, ZenonT(30)
  <2> QED BY <1>1, <1>r, <1>v, <1>f, <2>1, SMTT(60) DEF MuxInv, RedialInv
<1>7. ShutInv'
  <2>1. shut[c] \subseteq 0..gen[c]
    BY ZenonT(30) DEF MuxInv, ShutInv
  <2>2. shut[c] \subseteq 0..h /\ h \notin shut[c]
    BY <1>r, <2>1, SMTT(60) DEF h
  <2> QED BY <1>1, <1>r, <1>v, <2>2, SMTT(30) DEF MuxInv, ShutInv, endVars
<1>8. SocketInv'
  <2>1. /\ h <= MaxReconnect * breaks + MaxReconnect
        /\ h + 0 <= MaxReconnect * breaks + count[c]
    BY <1>r, Counters, Bounds, SMTT(60) DEF h
  <2> QED BY <1>1, <1>r, <1>v, <1>f, <2>1, SMTT(60) DEF MuxInv, SocketInv, endVars
<1> QED BY <1>2, <1>3, <1>4, <1>5, <1>6, <1>7, <1>8, Zenon DEF MuxInv, TypeOK

-----------------------------------------------------------------------------
(* MuxInv holds of every state the pool can reach.                         *)

\* The empty pool satisfies MuxInv.
LEMMA InitInv == Init => MuxInv
<1> SUFFICES ASSUME Init PROVE MuxInv
  BY Zenon
<1>1. CallInv /\ NoOrphan
  BY Zenon DEF Init, CallInv, NoOrphan, InUse
<1>0. conns = <<>> /\ made = 0 /\ registered = FALSE /\ expelled = FALSE /\ inc = 0
  BY Zenon DEF Init
<1>f. \A c \in Conn : fate[c] = "unused" /\ isIdle[c] /\ ~closed[c] /\ dial[c] = "none" /\ c > 0 /\ c \in Nat
  BY ConnNat DEF Init, Conn
<1>2. MapInv
  <2>1. Listed = {}
    BY <1>0 DEF Listed
  <2>2. NoConnectionLost
    BY <1>0, <1>f, <2>1, SMTT(30) DEF NoConnectionLost
  <2> QED BY <1>0, <1>f, <2>1, <2>2, Zenon DEF MapInv
<1>o. \A c \in Conn, g \in Gen : rpc[c][g].at = "off" /\ wpc[c][g].at = "off"
  BY Zenon DEF Init, Off
<1>3. RedialInv
  BY <1>o, Zenon DEF RedialInv, MuFree
<1>4. ShutInv
  BY <1>o, <1>f, Zenon DEF Init, ShutInv
<1>5. SocketInv
  <2>1. \A c \in Conn : gen[c] = 0 /\ count[c] = 0 /\ MuFree(c)
    BY <1>o, Zenon DEF Init, MuFree
  <2>2. breaks = 0
    BY Zenon DEF Init
  <2> QED BY <2>1, <2>2, Bounds, SMTT(30) DEF SocketInv
<1> QED BY <1>1, <1>2, <1>3, <1>4, <1>5, InitType, Zenon DEF MuxInv

\* A step that changes nothing keeps MuxInv.
LEMMA StutterInv == MuxInv /\ UNCHANGED vars => MuxInv'
<1> SUFFICES ASSUME MuxInv, UNCHANGED vars PROVE MuxInv'
  BY Zenon
<1> USE DEF vars, csVars, connVars, threadVars, callVars, endVars
<1>1. TypeOK'
  BY Zenon DEF MuxInv, TypeOK, CsType, ConnType, ThreadType, CallType, EndType
<1>2. MapInv' /\ RedialInv' /\ ShutInv' /\ SocketInv'
  BY ConnFrame, Zenon
<1>3. CallInv' /\ NoOrphan'
  BY CallFrame, OrphanFrame, Zenon DEF MuxInv
<1> QED BY <1>1, <1>2, <1>3, Zenon DEF MuxInv

\* Every step keeps MuxInv.
LEMMA NextInv ==
  ASSUME DistinctIds, IdleRemovalOnStreams, MuxInv, Next
  PROVE  MuxInv'
<1>0. UNCHANGED isStream
  BY Zenon DEF Next
<1>1. ASSUME NEW u \in Call, CallStep(u) \/ Timeout(u) PROVE MuxInv'
  BY <1>0, <1>1, QuietCallInv, InitPoolInv, PickInv, NewVirConnInv, CloseInv, Zenon DEF CallStep, QuietCall
<1>2. ASSUME NEW c \in Conn, DialStep(c) \/ ExpelStep(c) \/ Break(c) PROVE MuxInv'
  BY <1>0, <1>2, DialOkInv, DialFailsInv, DialFailsUDPInv, CloseUDPInv, ExpelInv, DestructInv, BreakInv, Zenon
     DEF DialStep, ExpelStep
<1>3. ASSUME NEW c \in Conn, NEW g \in Gen, ReaderStep(c, g) \/ WriterStep(c, g) \/ Parse(c, g) PROVE MuxInv'
  BY <1>0, <1>3, QuietThreadInv, DoCloseInv, ReconnectInv, RedialFailsInv, Zenon
     DEF ReaderStep, WriterStep, QuietReader, QuietWriter
<1> QED BY <1>1, <1>2, <1>3, Zenon DEF Next, SystemStep

\* With ids that differ, and idle Connections removed on streams only, every
\* state of the pool satisfies the strengthened invariant.
THEOREM MuxInvariant ==
  ASSUME DistinctIds, IdleRemovalOnStreams
  PROVE  Spec => []MuxInv
<1>1. MuxInv /\ [Next]_vars => MuxInv'
  BY NextInv, StutterInv, Zenon
<1> QED BY <1>1, InitInv, PTL DEF Spec

\* A virtual connection in use is in the hands of a Connection that will answer
\* or fail it (newVirConn, Close, doClose, reconnect in every interleaving).
THEOREM NobodyOrphaned ==
  ASSUME DistinctIds, IdleRemovalOnStreams
  PROVE  Spec => []NoOrphan
<1>1. MuxInv => NoOrphan
  BY Zenon DEF MuxInv
<1> QED BY <1>1, MuxInvariant, PTL

-----------------------------------------------------------------------------
(* The count of idle Connections.                                          *)

\* The idle Connections of the list.
Idlers == {c \in Listed : isIdle[c]}

\* There are finitely many idle Connections.
LEMMA IdlersFinite ==
  ASSUME MuxInv
  PROVE  IsFiniteSet(Idlers) /\ Cardinality(Idlers) \in Nat /\ Idlers \subseteq Conn /\ idle \in Int
<1>1. conns \in Seq(Conn) /\ idle \in Int
  BY Zenon DEF MuxInv, TypeOK, CsType
<1>2. Idlers \in SUBSET Conn
  BY <1>1 DEF Idlers, Listed
<1>3. IsFiniteSet(Conn)
  BY FS_Interval, Bounds DEF Conn
<1>4. IsFiniteSet(Idlers)
  BY <1>2, <1>3, FS_Subset, Zenon
<1> QED BY <1>1, <1>2, <1>4, FS_CardinalityType, Zenon

\* Nothing idle is made, taken or lost.
LEMMA IdleKept ==
  ASSUME MuxInv, IdleNotOvercounted, UNCHANGED <<conns, isIdle>>, idle' \in {idle, idle - Plus(1)}
  PROVE  IdleNotOvercounted'
<1>1. Idlers' = Idlers
  BY Zenon DEF Idlers, Listed
<1>2. idle' <= idle
  BY IdlersFinite DEF Plus
<1>3. MaxIdle > 0 => idle' <= Cardinality(Idlers)
  BY <1>2, IdlersFinite DEF IdleNotOvercounted, Idlers, Plus
<1> QED BY <1>1, <1>3, Zenon DEF IdleNotOvercounted, Idlers

\* New Connections are idle.
LEMMA IdleGrown ==
  ASSUME MuxInv, NEW n \in Nat \ {0}, NEW i0 \in Int, MaxIdle > 0 => i0 <= Cardinality(Idlers),
         NewConns(n, conns, i0), UNCHANGED isIdle
  PROVE  IdleNotOvercounted'
<1> DEFINE fresh == made + 1 .. made + n
<1>t. made \in Nat /\ Conn \subseteq Nat /\ made + n \in Conn
  BY ConnNat, Grown DEF MuxInv, TypeOK, CsType
<1>1. fresh \subseteq Conn
  BY <1>t, Bounds DEF Conn
<1>2. \A c \in fresh : isIdle[c] /\ c \notin Listed
  <2>1. \A c \in fresh : c > made
    BY <1>t
  <2> QED BY <1>1, <2>1, Zenon DEF MuxInv, MapInv, NoConnectionLost
<1>3. Listed' \subseteq Conn /\ Listed \subseteq Conn
  <2>1. conns \in Seq(Conn) /\ conns' \in Seq(Conn)
    BY Grown, Zenon DEF MuxInv, TypeOK, CsType
  <2> QED BY <2>1 DEF Listed
<1>4. Idlers' = Idlers \cup fresh
  BY <1>1, <1>2, <1>3, Grown, Zenon DEF Idlers
<1>5. IsFiniteSet(fresh) /\ Cardinality(fresh) = n
  <2>1. PICK a, b \in Int : a = made + 1 /\ b = made + n /\ ~(a > b) /\ b - a + 1 = n
    BY <1>t
  <2>2. IsFiniteSet(a..b) /\ Cardinality(a..b) = n
    BY <2>1, FS_Interval, Zenon
  <2> QED BY <2>1, <2>2, Zenon
<1>6. Idlers \cap fresh = {}
  BY <1>2, Zenon DEF Idlers
<1>7. Cardinality(Idlers') = Cardinality(Idlers) + n
  <2>1. Cardinality({}) = 0
    BY FS_EmptySet, Zenon
  <2> HIDE DEF fresh
  <2>2. Cardinality(Idlers \cup fresh) = Cardinality(Idlers) + Cardinality(fresh) - Cardinality(Idlers \cap fresh)
    BY <1>5, IdlersFinite, FS_Union, Zenon
  <2> QED BY <1>4, <1>5, <1>6, <2>1, <2>2, IdlersFinite
<1>8. MaxIdle > 0 => idle' <= Cardinality(Idlers')
  BY <1>7, IdlersFinite DEF NewConns, Plus
<1> QED BY <1>8, Zenon DEF IdleNotOvercounted, Idlers

\* One Connection ceases to be idle, or to be listed.
LEMMA IdleLess ==
  ASSUME MuxInv, IdleNotOvercounted, NEW c, Idlers' = Idlers \ {c}, idle' \in Int,
         MaxIdle > 0 => idle' = idle - 1 \/ (idle' = idle /\ c \notin Idlers)
  PROVE  IdleNotOvercounted'
<1>1. Cardinality(Idlers \ {c}) = IF c \in Idlers THEN Cardinality(Idlers) - 1 ELSE Cardinality(Idlers)
  BY IdlersFinite, FS_RemoveElement, Zenon
<1>2. MaxIdle > 0 => idle <= Cardinality(Idlers)
  BY Zenon DEF IdleNotOvercounted, Idlers
<1>3. MaxIdle > 0 => idle' <= Cardinality(Idlers')
  BY <1>1, <1>2, IdlersFinite
<1> QED BY <1>3, Zenon DEF IdleNotOvercounted, Idlers

\* One Connection becomes idle.
LEMMA IdleMore ==
  ASSUME MuxInv, IdleNotOvercounted, NEW c, Idlers' = Idlers \cup {c}, idle' \in Int,
         MaxIdle > 0 => idle' = idle \/ (idle' = idle + 1 /\ c \notin Idlers)
  PROVE  IdleNotOvercounted'
<1>1. Cardinality(Idlers \cup {c}) = IF c \in Idlers THEN Cardinality(Idlers) ELSE Cardinality(Idlers) + 1
  BY IdlersFinite, FS_AddElement, Zenon
<1>2. MaxIdle > 0 => idle <= Cardinality(Idlers)
  BY Zenon DEF IdleNotOvercounted, Idlers
<1>3. MaxIdle > 0 => idle' <= Cardinality(Idlers')
  BY <1>1, <1>2, IdlersFinite
<1> QED BY <1>3, Zenon DEF IdleNotOvercounted, Idlers

\* The steps of calls keep the count low enough.
LEMMA IdleCall ==
  ASSUME IdleRemovalOnStreams, MuxInv, IdleNotOvercounted, NEW u \in Call, CallStep(u) \/ Timeout(u)
  PROVE  IdleNotOvercounted'
<1>0. 1 \in Nat \ {0} /\ idle \in Int /\ (MaxIdle > 0 => idle <= Cardinality(Idlers))
  BY IdlersFinite DEF IdleNotOvercounted, Idlers
<1>1. CASE QuietCall(u)
  BY <1>1, IdleKept, Zenon DEF QuietCall, Get, Reload, PickExpelled, PickScan, CanGetVirConn, Write, SendQueued, SendFails,
     Read, Timeout, csVars, connVars
<1>2. CASE InitPoolForNode(u)
  <2>1. CASE registered
    BY <1>2, <2>1, IdleKept, Zenon DEF InitPoolForNode
  <2>2. CASE ~registered
    <3>1. NewConns(ConnectNumber, <<>>, 0) /\ UNCHANGED isIdle
      BY <1>2, <2>2, Zenon DEF InitPoolForNode
    <3>2. Listed = {} /\ conns \in Seq(Conn)
      BY <2>2, Zenon DEF MuxInv, MapInv, TypeOK, CsType
    <3>3. conns = <<>>
      BY <3>2, EmptyList, Zenon
    <3>4. 0 <= Cardinality(Idlers)
      BY IdlersFinite
    <3> QED BY <3>1, <3>3, <3>4, Bounds, IdleGrown
  <2> QED BY <2>1, <2>2, Zenon
<1>3. CASE PickRoundRobin(u)
  <2>1. CASE NewConns(1, conns, idle)
    BY <1>0, <1>3, <2>1, IdleGrown, Zenon DEF PickRoundRobin
  <2>2. CASE ~NewConns(1, conns, idle)
    BY <1>3, <2>2, IdleKept, Zenon DEF PickRoundRobin
  <2> QED BY <2>1, <2>2, Zenon
<1>4. CASE PickNew(u)
  BY <1>0, <1>4, IdleGrown, Zenon DEF PickNew
<1>5. CASE NewVirConn(u)
  <2> DEFINE c == uconn[u]
  <2>1. c \in Conn /\ isIdle \in [Conn -> BOOLEAN]
    BY <1>5, Picked, Zenon DEF NewVirConn, MuxInv, TypeOK, ConnType
  <2>2. /\ isIdle' = [isIdle EXCEPT ![c] = FALSE] /\ UNCHANGED conns
        /\ idle' = IF isIdle[c] THEN idle - Plus(1) ELSE idle
    BY <1>5, Zenon DEF NewVirConn
  <2>3. Listed' = Listed /\ Listed \subseteq Conn
    <3>1. conns \in Seq(Conn)
      BY Zenon DEF MuxInv, TypeOK, CsType
    <3> QED BY <2>2, <3>1 DEF Listed
  <2>4. Idlers' = Idlers \ {c}
    BY <2>1, <2>2, <2>3, Zenon DEF Idlers
  <2>5. c \in Idlers => isIdle[c]
    BY Zenon DEF Idlers
  <2>6. idle' \in Int /\ (MaxIdle > 0 => idle' = idle - 1 \/ (idle' = idle /\ c \notin Idlers))
    BY <1>0, <2>2, <2>5 DEF Plus
  <2> QED BY <2>4, <2>6, IdleLess, Zenon
<1>6. CASE Close(u)
  <2> DEFINE c == uconn[u]
             idles == MaxIdle > 0 /\ MaxVirConns > 0 /\ SameVid(c, u) = virs[c] /\ ~closed[c]
  <2>1. c \in Conn /\ c <= made /\ isIdle \in [Conn -> BOOLEAN]
    BY <1>6, Picked, Zenon DEF Close, MuxInv, TypeOK, ConnType
  <2>2. /\ isIdle' = [isIdle EXCEPT ![c] = isIdle[c] \/ idles] /\ UNCHANGED conns
        /\ idle' = IF idles /\ ~isIdle[c] THEN idle + Plus(1) ELSE idle
    BY <1>6, <2>1, Zenon DEF Close
  <2>3. Listed' = Listed /\ Listed \subseteq Conn
    <3>1. conns \in Seq(Conn)
      BY DEF MuxInv, TypeOK, CsType
    <3> QED BY <2>2, <3>1 DEF Listed
  <2>4. CASE idles
    <3>1. MaxIdle # 0 /\ MaxVirConns # 0
      BY <2>4, Bounds
    <3>2. isStream \in {TRUE}
      BY <3>1, Zenon DEF IdleRemovalOnStreams, MuxInv, TypeOK, EndType
    <3>3. fate[c] \notin {"destruct", "gone"}
      BY <2>1, <2>4, <3>2, Zenon DEF MuxInv, ShutInv
    <3>4. fate[c] # "unused"
      <4>1. \A d \in Conn : fate[d] = "unused" => d > made
        BY Zenon DEF MuxInv, MapInv
      <4>2. made \in Nat
        BY DEF MuxInv, TypeOK, CsType
      <4> HIDE DEF c
      <4> QED BY <2>1, <4>1, <4>2, ConnNat
    <3>5. c \in Listed
      BY <2>1, <3>3, <3>4 DEF MuxInv, MapInv, NoConnectionLost, TypeOK, ConnType
    <3>6. Idlers' = Idlers \cup {c}
      BY <2>1, <2>2, <2>3, <2>4, <3>5, Zenon DEF Idlers
    <3>7. idle' \in Int /\ (MaxIdle > 0 => idle' = idle \/ (idle' = idle + 1 /\ c \notin Idlers))
      BY <1>0, <2>2, <2>4 DEF Plus, Idlers
    <3> QED BY <3>6, <3>7, IdleMore, Zenon
  <2>5. CASE ~idles
    <3>1. (isIdle[c] \/ idles) = isIdle[c]
      BY <2>1, <2>5, Zenon
    <3>2. UNCHANGED isIdle
      BY <2>1, <2>2, <3>1, Zenon
    <3> QED BY <2>2, <2>5, <3>2, IdleKept, Zenon
  <2> QED BY <2>4, <2>5, Zenon
<1> QED BY <1>1, <1>2, <1>3, <1>4, <1>5, <1>6, Zenon DEF CallStep, QuietCall

\* So do dials, expulsions and breaks: expel's subIdle may undercount.
LEMMA IdleConn ==
  ASSUME MuxInv, IdleNotOvercounted, NEW c \in Conn, DialStep(c) \/ ExpelStep(c) \/ Break(c)
  PROVE  IdleNotOvercounted'
<1>1. CASE DialOk(c) \/ DialFails(c) \/ DialFailsUDP(c) \/ CloseUDP(c) \/ Destruct(c) \/ Break(c)
  BY <1>1, IdleKept, Zenon DEF DialOk, DialFails, DialFailsUDP, CloseUDP, Destruct, Break, csVars
<1>2. CASE Expel(c)
  <2>1. /\ conns' = filterOutConnection(conns, c) /\ UNCHANGED isIdle /\ idle' = idle - Plus(1)
        /\ fate[c] = "expel"
    BY <1>2, Zenon DEF Expel
  <2>2. c \in Listed
    BY <2>1, Zenon DEF MuxInv, MapInv, NoConnectionLost
  <2>3. Listed' = Listed \ {c}
    <3>1. conns \in Seq(Conn) /\ \A i, j \in DOMAIN conns : conns[i] = conns[j] => i = j
      BY Zenon DEF MuxInv, TypeOK, CsType, MapInv, NoConnectionLost
    <3>2. PICK p \in DOMAIN conns : c = conns[p]
      BY <2>2, Zenon DEF Listed
    <3> QED BY <2>1, <3>1, <3>2, Filtered, Zenon DEF Listed
  <2>4. Idlers' = Idlers \ {c}
    BY <2>1, <2>3, Zenon DEF Idlers
  <2>5. idle' \in Int /\ (MaxIdle > 0 => idle' = idle - 1)
    BY <2>1, IdlersFinite DEF Plus
  <2> QED BY <2>4, <2>5, IdleLess, Zenon
<1> QED BY <1>1, <1>2, Zenon DEF DialStep, ExpelStep

\* So do the goroutines: only reconnect adds to the count.
LEMMA IdleThread ==
  ASSUME MuxInv, IdleNotOvercounted, NEW c \in Conn, NEW g \in Gen, ReaderStep(c, g) \/ WriterStep(c, g) \/ Parse(c, g)
  PROVE  IdleNotOvercounted'
<1>1. ASSUME NEW who \in {"r", "w"}, Reconnect(c, g, who) PROVE IdleNotOvercounted'
  <2>1. /\ UNCHANGED conns /\ isIdle' = [isIdle EXCEPT ![c] = TRUE]
        /\ idle' = IF isIdle[c] THEN idle ELSE idle + Plus(1)
        /\ At(c, g, who, "redial")
    BY <1>1, Zenon DEF Reconnect
  <2>2. c \in Listed
    BY <2>1, Redialing DEF MuxInv, MapInv, NoConnectionLost
  <2>3. Listed' = Listed /\ Listed \subseteq Conn /\ isIdle \in [Conn -> BOOLEAN]
    <3>1. conns \in Seq(Conn) /\ isIdle \in [Conn -> BOOLEAN]
      BY Zenon DEF MuxInv, TypeOK, CsType, ConnType
    <3> QED BY <2>1, <3>1 DEF Listed
  <2>4. Idlers' = Idlers \cup {c}
    BY <2>1, <2>2, <2>3, Zenon DEF Idlers
  <2>5. idle' \in Int /\ (MaxIdle > 0 => idle' = idle \/ (idle' = idle + 1 /\ c \notin Idlers))
    BY <2>1, IdlersFinite DEF Plus, Idlers
  <2> QED BY <2>4, <2>5, IdleMore, Zenon
<1>2. CASE UNCHANGED <<conns, isIdle, idle>>
  BY <1>2, IdleKept, Zenon
<1>3. CASE Parse(c, g) \/ ReaderCheck(c, g) \/ Deliver(c, g) \/ ParseFails(c, g)
  BY <1>2, <1>3, Zenon DEF Parse, ReaderCheck, Deliver, ParseFails, csVars, connVars
<1>4. CASE WriterLoop(c, g) \/ WriterDone(c, g) \/ WriterTakes(c, g) \/ WriteAll(c, g) \/ WriteFails(c, g)
  BY <1>2, <1>4, Zenon DEF WriterLoop, WriterDone, WriterTakes, WriteAll, WriteFails, csVars, connVars
<1>5. ASSUME NEW who \in {"r", "w"}, DoClose(c, g, who) \/ RedialFails(c, g, who) PROVE IdleNotOvercounted'
  BY <1>2, <1>5, Zenon DEF DoClose, RedialFails, csVars
<1> QED BY <1>1, <1>3, <1>4, <1>5, Zenon DEF ReaderStep, WriterStep

\* So does every step.
LEMMA IdleNext ==
  ASSUME IdleRemovalOnStreams, IInv, [Next]_vars
  PROVE  IdleNotOvercounted'
<1>0. MuxInv /\ IdleNotOvercounted
  BY Zenon DEF IInv
<1>1. CASE UNCHANGED vars
  BY <1>0, <1>1, IdleKept, Zenon DEF vars, csVars, connVars
<1>2. CASE Next
  BY <1>0, <1>2, IdleCall, IdleConn, IdleThread, Zenon DEF Next, SystemStep
<1> QED BY <1>1, <1>2, Zenon

\* With ids that differ, and idle Connections removed on streams only, every
\* state of the pool satisfies the inductive invariant: MuxInv, and a count of
\* idle Connections that is never too high.
THEOREM InductiveInvariant ==
  ASSUME DistinctIds, IdleRemovalOnStreams
  PROVE  Spec => []IInv
<1>1. Init => IInv
  <2>1. Init /\ MaxIdle > 0 => idle <= Cardinality(Idlers)
    <3> SUFFICES ASSUME Init PROVE idle <= Cardinality(Idlers)
      BY Zenon
    <3> QED BY InitInv, IdlersFinite DEF Init
  <2> QED BY <2>1, InitInv, Zenon DEF IInv, IdleNotOvercounted, Idlers
<1>2. IInv /\ [Next]_vars => IInv'
  BY NextInv, StutterInv, IdleNext, Zenon DEF IInv
<1> QED BY <1>1, <1>2, PTL DEF Spec

\* No Connection is lost between the list, the map and its destructor, none is
\* closed twice, and none is removed as idle while the limit is kept
\* (initPoolForNode, expel, doClose, idleRemove in every interleaving).
THEOREM PoolIsSound ==
  ASSUME DistinctIds, IdleRemovalOnStreams
  PROVE  Spec => []MuxSafe
<1>1. IInv => MuxSafe
  BY Zenon DEF IInv, MuxInv, MuxSafe, MapInv, ShutInv, NeverClosedTwice
<1> QED BY <1>1, InductiveInvariant, PTL
=============================================================================

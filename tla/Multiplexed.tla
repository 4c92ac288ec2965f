---------------------------- MODULE Multiplexed ----------------------------
(***************************************************************************)
(* pool/multiplexed/multiplexed.go for one node key: the Connections       *)
(* object in the map, its Connections' sockets with their reading and      *)
(* writing goroutines, reconnection, idle removal and expulsion, and the   *)
(* calls that get a virtual connection, write, read and close it.          *)
(*                                                                         *)
(* Connection.mu is held over several steps only while doClose reconnects; *)
(* every other critical section under it is one step that waits for        *)
(* MuFree.  Connections.mu is held over several steps while                *)
(* pickSingleConcrete scans.  expel runs after Connection.mu is released,  *)
(* as the last thing its goroutine does: it is a thread of the connection. *)
(***************************************************************************)
EXTENDS Integers, Sequences, FiniteSets

CONSTANTS Call,          \* calls of GetMuxConn, each with its virtual connection
          Vid,           \* the request or stream id of each call
          MaxConns,      \* bound: Connection objects ever created
          ConnectNumber, MaxVirConns, MaxIdle,   \* PoolOptions, as New leaves them
          QueueSize, DropFull,                   \* capacity of writeBuffer
          MaxReconnect,  \* maxReconnectCount
          MaxBreak,      \* bound: sockets the network breaks
          DialMayFail,   \* whether dials may fail
          SlowDial,      \* the peer is out of reach once a socket broke: every
                         \* dial times out, after reconnectCountResetInterval
          Streams        \* the networks of a run: TRUE for TCP and unix sockets, FALSE for UDP

ASSUME OptionAssumption ==
  /\ {MaxConns, ConnectNumber, MaxReconnect, QueueSize} \subseteq Nat \ {0}
  /\ {MaxVirConns, MaxIdle, MaxBreak} \subseteq Nat
  /\ {DropFull, DialMayFail, SlowDial} \subseteq BOOLEAN
  /\ Streams \subseteq BOOLEAN
  /\ MaxIdle = 0 \/ MaxIdle >= ConnectNumber
  /\ DOMAIN Vid = Call

None == 0
ASSUME NoneAssumption == None \notin Call

Conn == 1..MaxConns
Gen == 0..(MaxReconnect * (MaxBreak + 1))   \* sockets of one Connection, in order

VARIABLES
  registered, inc, conns, idle, rr, expelled, csmu,  \* the map entry and its Connections
  made,                                              \* Connection objects created
  fate, dial, closed, err, isIdle, virs, count,      \* per Connection; err: c.err # nil
  gen, sock, shut,     \* current socket and done channel, state of each socket,
                       \* the done channels closed
  rpc, wpc,            \* reading and writing goroutines, one of each per socket
  wbuf, wire,          \* writeBuffer; frames the peer has not answered yet
  cpc, ucs, uconn, idx, chan,   \* per call: position, Connections, Connection, scan index,
                                \* the done channel send selects on
  cancelled, got,      \* virtual connections cancelled; with a response queued
  breaks, crashed,     \* sockets broken so far; a done channel was closed twice
  isStream             \* of the node's network, the same for all its Connections

csVars == <<registered, inc, conns, idle, rr, expelled, csmu, made>>
connVars == <<fate, dial, closed, err, isIdle, virs, count, gen, sock, shut>>
threadVars == <<rpc, wpc, wbuf, wire>>
callVars == <<cpc, ucs, uconn, idx, chan>>
endVars == <<cancelled, got, breaks, crashed>>
vars == <<csVars, connVars, threadVars, callVars, endVars, isStream>>

Off == [at |-> "off", s |-> 0, u |-> None]

Thread(pcs) == [at : pcs, s : Gen, u : Call \cup {None}]

CsType ==
  /\ registered \in BOOLEAN /\ expelled \in BOOLEAN
  /\ inc \in Nat /\ idle \in Int /\ rr \in Nat /\ made \in 0..MaxConns
  /\ conns \in Seq(Conn) /\ csmu \in Call \cup {None}
ConnType ==
  /\ fate \in [Conn -> {"unused", "live", "expel", "destruct", "gone"}]
  /\ dial \in [Conn -> {"none", "dialing", "failed", "ended"}]
  /\ {closed, err, isIdle} \subseteq [Conn -> BOOLEAN]
  /\ virs \in [Conn -> SUBSET Call] /\ count \in [Conn -> 0..MaxReconnect + 1]
  /\ gen \in [Conn -> Gen] /\ shut \in [Conn -> SUBSET Gen]
  /\ sock \in [Conn -> [Gen -> {"none", "open", "broken", "closed"}]]
ThreadType ==
  /\ rpc \in [Conn -> [Gen -> Thread({"off", "check", "parse", "deliver", "error", "redial"})]]
  /\ wpc \in [Conn -> [Gen -> Thread({"off", "loop", "select", "write", "error", "redial"})]]
  /\ \A c \in Conn, g \in Gen : wpc[c][g].at = "write" => wpc[c][g].u \in Call
  /\ wbuf \in [Conn -> Seq(Call)] /\ wire \in [Conn -> [Gen -> SUBSET Call]]
CallType ==
  /\ cpc \in [Call -> {"idle", "init", "reload", "pick", "scan", "new", "open", "send",
                       "reading", "closing", "done"}]
  /\ uconn \in [Call -> Conn \cup {None}]
  /\ ucs \in [Call -> Nat] /\ idx \in [Call -> Nat] /\ chan \in [Call -> Gen]
EndType ==
  /\ cancelled \subseteq Call /\ got \subseteq Call /\ breaks \in 0..MaxBreak
  /\ crashed \in BOOLEAN /\ isStream \in Streams
TypeOK == CsType /\ ConnType /\ ThreadType /\ CallType /\ EndType

Init ==
  /\ registered = FALSE /\ inc = 0 /\ conns = <<>> /\ idle = 0 /\ rr = 0
  /\ expelled = FALSE /\ csmu = None /\ made = 0
  /\ fate = [c \in Conn |-> "unused"] /\ dial = [c \in Conn |-> "none"]
  /\ closed = [c \in Conn |-> FALSE] /\ err = closed /\ isIdle = [c \in Conn |-> TRUE]
  /\ virs = [c \in Conn |-> {}] /\ count = [c \in Conn |-> 0]
  /\ gen = [c \in Conn |-> 0] /\ sock = [c \in Conn |-> [g \in Gen |-> "none"]]
  /\ shut = [c \in Conn |-> {}]
  /\ rpc = [c \in Conn |-> [g \in Gen |-> Off]] /\ wpc = rpc
  /\ wbuf = [c \in Conn |-> <<>>] /\ wire = [c \in Conn |-> [g \in Gen |-> {}]]
  /\ cpc = [u \in Call |-> "idle"] /\ ucs = [u \in Call |-> 0]
  /\ uconn = [u \in Call |-> None] /\ idx = [u \in Call |-> 0]
  /\ chan = [u \in Call |-> 0]
  /\ cancelled = {} /\ got = {} /\ breaks = 0 /\ crashed = FALSE
  /\ isStream \in Streams

\* No goroutine holds c.mu over a reconnection.
MuFree(c) == \A g \in Gen : rpc[c][g].at # "redial" /\ wpc[c][g].at # "redial"
Go(u, pc) == cpc' = [cpc EXCEPT ![u] = pc]
\* The call is over; nothing of it or of its virtual connection is used again.
Leave(u) ==
  /\ Go(u, "done") /\ ucs' = [ucs EXCEPT ![u] = 0] /\ uconn' = [uconn EXCEPT ![u] = None]
  /\ idx' = [idx EXCEPT ![u] = 0] /\ chan' = [chan EXCEPT ![u] = 0]
  /\ cancelled' = cancelled \ {u} /\ got' = got \ {u}
-----------------------------------------------------------------------------
(* Connections: creation, picking, expulsion.                              *)

\* addIdle and subIdle do nothing without a limit.
Plus(n) == IF MaxIdle > 0 THEN n ELSE 0

\* newConn, n times: appended, idle, and startConnect under way.
NewConns(n, old, oldIdle) ==
  LET fresh == made + 1 .. made + n
  IN /\ made + n <= MaxConns
     /\ made' = made + n
     /\ conns' = old \o [i \in 1..n |-> made + i]
     /\ idle' = oldIdle + Plus(n)
     /\ fate' = [c \in Conn |-> IF c \in fresh THEN "live" ELSE fate[c]]
     /\ dial' = [c \in Conn |-> IF c \in fresh THEN "dialing" ELSE dial[c]]

\* GetMuxConn and the first Load of get.
Get(u) ==
  /\ cpc[u] = "idle"
  /\ IF registered THEN Go(u, "pick") /\ ucs' = [ucs EXCEPT ![u] = inc]
                   ELSE Go(u, "init") /\ UNCHANGED ucs
  /\ UNCHANGED <<csVars, connVars, threadVars, uconn, idx, chan, endVars>>

\* Mutant: initPoolForNode without its second lookup.
InitPoolForNodeUnchecked(u) ==
  /\ cpc[u] = "init"
  /\ Go(u, "reload")
  /\ NewConns(ConnectNumber, <<>>, 0)
  /\ registered' = TRUE /\ inc' = inc + 1 /\ rr' = 0 /\ expelled' = FALSE
  /\ UNCHANGED <<csmu, closed, err, isIdle, virs, count, gen, sock, shut, threadVars,
                 ucs, uconn, idx, chan, endVars>>

\* initPoolForNode under p.mu, which looks the entry up again.
InitPoolForNode(u) ==
  /\ cpc[u] = "init"
  /\ Go(u, "reload")
  /\ IF registered
     THEN UNCHANGED <<registered, inc, conns, idle, rr, expelled, made, fate, dial>>
     ELSE /\ NewConns(ConnectNumber, <<>>, 0)
          /\ registered' = TRUE /\ inc' = inc + 1 /\ rr' = 0 /\ expelled' = FALSE
  /\ UNCHANGED <<csmu, closed, err, isIdle, virs, count, gen, sock, shut, threadVars,
                 ucs, uconn, idx, chan, endVars>>

\* The second Load; ErrInitPoolFail when the entry is gone already.
Reload(u) ==
  /\ cpc[u] = "reload"
  /\ IF registered
     THEN /\ Go(u, "pick") /\ ucs' = [ucs EXCEPT ![u] = inc]
          /\ UNCHANGED <<uconn, idx, chan, cancelled, got>>
     ELSE Leave(u)
  /\ UNCHANGED <<csVars, connVars, threadVars, breaks, crashed>>

\* pickSingleConcrete on Connections expelled meanwhile.
PickExpelled(u) ==
  /\ cpc[u] = "pick" /\ csmu = None
  /\ ucs[u] # inc \/ expelled
  /\ Leave(u)
  /\ UNCHANGED <<csVars, connVars, threadVars, breaks, crashed>>

\* pickSingleConcrete without a limit on virtual connections: round robin.
PickRoundRobin(u) ==
  LET next == (rr + 1) % ConnectNumber
  IN /\ cpc[u] = "pick" /\ csmu = None
     /\ ucs[u] = inc /\ ~expelled
     /\ MaxVirConns = 0
     /\ Go(u, "new")
     /\ IF next >= Len(conns)
        THEN /\ rr' = Len(conns) /\ NewConns(1, conns, idle)
             /\ uconn' = [uconn EXCEPT ![u] = made + 1]
        ELSE /\ rr' = next /\ uconn' = [uconn EXCEPT ![u] = conns[next + 1]]
             /\ UNCHANGED <<conns, idle, made, fate, dial>>
     /\ UNCHANGED <<registered, inc, expelled, csmu, closed, err, isIdle, virs, count, gen, sock,
                    shut, threadVars, ucs, idx, chan, endVars>>

\* pickSingleConcrete with a limit: takes cs.mu for the scan.
PickScan(u) ==
  /\ cpc[u] = "pick" /\ csmu = None
  /\ ucs[u] = inc /\ ~expelled
  /\ MaxVirConns > 0
  /\ csmu' = u /\ Go(u, "scan") /\ idx' = [idx EXCEPT ![u] = 1]
  /\ UNCHANGED <<registered, inc, conns, idle, rr, expelled, made, connVars, threadVars,
                 ucs, uconn, chan, endVars>>

\* canGetVirConn of the next Connection, under its lock.
CanGetVirConn(u) ==
  LET c == conns[idx[u]]
  IN /\ cpc[u] = "scan" /\ idx[u] <= Len(conns)
     /\ MuFree(c)
     /\ IF Cardinality(virs[c]) < MaxVirConns
        THEN /\ uconn' = [uconn EXCEPT ![u] = c] /\ Go(u, "new")
             /\ csmu' = None /\ idx' = [idx EXCEPT ![u] = 0]
        ELSE /\ idx' = [idx EXCEPT ![u] = @ + 1] /\ UNCHANGED <<uconn, cpc, csmu>>
     /\ UNCHANGED <<registered, inc, conns, idle, rr, expelled, made, connVars, threadVars,
                    ucs, chan, endVars>>

\* The scan found none: one more Connection.
PickNew(u) ==
  /\ cpc[u] = "scan" /\ idx[u] > Len(conns)
  /\ NewConns(1, conns, idle)
  /\ uconn' = [uconn EXCEPT ![u] = made + 1] /\ Go(u, "new") /\ csmu' = None
  /\ idx' = [idx EXCEPT ![u] = 0]
  /\ UNCHANGED <<registered, inc, rr, expelled, closed, err, isIdle, virs, count, gen, sock,
                 shut, threadVars, ucs, chan, endVars>>

\* filterOutConnection: a Connection is listed once, see NoConnectionLost.
filterOutConnection(in, exclude) ==
  LET at == CHOOSE i \in DOMAIN in : in[i] = exclude
  IN IF \E i \in DOMAIN in : in[i] = exclude
     THEN [i \in 1..(Len(in) - 1) |-> IF i < at THEN in[i] ELSE in[i + 1]] ELSE in

\* expel, under cs.mu; the last one out runs the destructor after the unlock.
Expel(c) ==
  /\ fate[c] = "expel" /\ csmu = None
  /\ idle' = idle - Plus(1)
  /\ conns' = filterOutConnection(conns, c)
  /\ expelled' = (expelled \/ conns' = <<>>)
  /\ fate' = [fate EXCEPT ![c] = IF expelled' = expelled THEN "gone" ELSE "destruct"]
  /\ UNCHANGED <<registered, inc, rr, csmu, made, dial, closed, err, isIdle, virs, count, gen,
                 sock, shut, threadVars, callVars, endVars>>

\* The destructor deletes the key from the map, whatever it holds.
Destruct(c) ==
  /\ fate[c] = "destruct"
  /\ registered' = FALSE /\ fate' = [fate EXCEPT ![c] = "gone"]
  /\ UNCHANGED <<inc, conns, idle, rr, expelled, csmu, made, dial, closed, err, isIdle, virs,
                 count, gen, sock, shut, threadVars, callVars, endVars>>
-----------------------------------------------------------------------------
(* The virtual connection of a call.                                       *)

SameVid(c, u) == {v \in virs[c] : Vid[v] = Vid[u]}

\* Mutant: newVirConn does not look at the closed flag.
NewVirConnOnClosed(u) ==
  LET c == uconn[u]
  IN /\ cpc[u] = "new" /\ MuFree(c)
     /\ cancelled' = cancelled \cup SameVid(c, u)
     /\ virs' = [virs EXCEPT ![c] = (@ \ SameVid(c, u)) \cup {u}]
     /\ isIdle' = [isIdle EXCEPT ![c] = FALSE]
     /\ idle' = IF isIdle[c] THEN idle - Plus(1) ELSE idle
     /\ Go(u, "open")
     /\ UNCHANGED <<registered, inc, conns, rr, expelled, csmu, made, fate, dial, closed, err,
                    count, gen, sock, shut, threadVars, ucs, uconn, idx, chan, got, breaks,
                    crashed>>

\* newVirConn: an entry with the same id is cancelled and replaced; on a closed
\* Connection the new one is cancelled, and registered all the same.
NewVirConn(u) ==
  LET c == uconn[u]
  IN /\ cpc[u] = "new" /\ MuFree(c)
     /\ cancelled' = cancelled \cup SameVid(c, u) \cup (IF closed[c] THEN {u} ELSE {})
     /\ virs' = [virs EXCEPT ![c] = (@ \ SameVid(c, u)) \cup {u}]
     /\ isIdle' = [isIdle EXCEPT ![c] = FALSE]
     /\ idle' = IF isIdle[c] THEN idle - Plus(1) ELSE idle
     /\ Go(u, "open")
     /\ UNCHANGED <<registered, inc, conns, rr, expelled, csmu, made, fate, dial, closed, err,
                    count, gen, sock, shut, threadVars, ucs, uconn, idx, chan, got, breaks,
                    crashed>>

\* Write: refused on a cancelled virtual connection; otherwise send, which
\* evaluates c.done when it starts to select.
Write(u) ==
  /\ cpc[u] = "open"
  /\ Go(u, IF u \in cancelled THEN "closing" ELSE "send")
  /\ chan' = [chan EXCEPT ![u] = gen[uconn[u]]]
  /\ UNCHANGED <<csVars, connVars, threadVars, ucs, uconn, idx, endVars>>

\* send puts the frame into writeBuffer.
SendQueued(u) ==
  LET c == uconn[u]
  IN /\ cpc[u] = "send" /\ Len(wbuf[c]) < QueueSize
     /\ wbuf' = [wbuf EXCEPT ![c] = Append(@, u)]
     /\ Go(u, "reading")
     /\ UNCHANGED <<csVars, connVars, rpc, wpc, wire, ucs, uconn, idx, chan, endVars>>

\* send gives up: the buffer is full and dropFull is set, or done is closed.
\* It then returns c.err, which is nil once a reconnection has succeeded: the
\* caller goes on to Read.
SendFails(u) ==
  LET c == uconn[u]
  IN /\ cpc[u] = "send"
     /\ IF DropFull THEN Len(wbuf[c]) >= QueueSize ELSE chan[u] \in shut[c]
     /\ Go(u, IF DropFull \/ err[c] THEN "closing" ELSE "reading")
     /\ UNCHANGED <<csVars, connVars, threadVars, ucs, uconn, idx, chan, endVars>>

\* Read returns a response, or fails on a cancelled virtual connection.
Read(u) ==
  /\ cpc[u] = "reading"
  /\ u \in got \cup cancelled
  /\ Go(u, "closing")
  /\ UNCHANGED <<csVars, connVars, threadVars, ucs, uconn, idx, chan, endVars>>

\* The deadline of the call's context.
Timeout(u) ==
  /\ cpc[u] \in {"open", "send", "reading"}
  /\ cancelled' = cancelled \cup {u}
  /\ UNCHANGED <<csVars, connVars, threadVars, callVars, got, breaks, crashed>>

\* Close: remove deletes the id, whoever holds it now, and idleRemove may close
\* the Connection.  Only a stream's socket is closed: rawConn is nil for UDP.
Close(u) ==
  LET c == uconn[u]
      empty == SameVid(c, u) = virs[c]
      idles == MaxIdle > 0 /\ MaxVirConns > 0 /\ empty /\ ~closed[c]
      idle1 == IF idles /\ ~isIdle[c] THEN idle + Plus(1) ELSE idle
      evict == idles /\ idle1 > MaxIdle
  IN /\ cpc[u] = "closing" /\ MuFree(c)
     /\ virs' = [virs EXCEPT ![c] = @ \ SameVid(c, u)]
     /\ isIdle' = [isIdle EXCEPT ![c] = @ \/ idles]
     /\ idle' = idle1
     /\ closed' = [closed EXCEPT ![c] = @ \/ evict]
     /\ shut' = IF evict THEN [shut EXCEPT ![c] = @ \cup {gen[c]}] ELSE shut
     /\ sock' = IF evict /\ isStream /\ sock[c][gen[c]] # "none"
                THEN [sock EXCEPT ![c][gen[c]] = "closed"] ELSE sock
     /\ fate' = IF evict THEN [fate EXCEPT ![c] = "expel"] ELSE fate
     /\ Leave(u)
     /\ UNCHANGED <<registered, inc, conns, rr, expelled, csmu, made, dial, err, count, gen,
                    threadVars, breaks, crashed>>
-----------------------------------------------------------------------------
(* A Connection: connecting, reading, writing, closing, reconnecting.      *)

\* Mutant: the calls are dropped from virConns without being cancelled.
ShutdownForgetsCalls(c) ==
  /\ closed' = [closed EXCEPT ![c] = TRUE] /\ err' = [err EXCEPT ![c] = TRUE]
  /\ virs' = [virs EXCEPT ![c] = {}]
  /\ shut' = [shut EXCEPT ![c] = @ \cup {gen[c]}]
  /\ sock' = [sock EXCEPT ![c][gen[c]] = IF @ = "none" THEN @ ELSE "closed"]
  /\ UNCHANGED <<cancelled, crashed>>

\* What doClose does before it reconnects: the calls are cancelled, done and
\* the socket are closed.
Shutdown(c) ==
  /\ closed' = [closed EXCEPT ![c] = TRUE] /\ err' = [err EXCEPT ![c] = TRUE]
  /\ cancelled' = cancelled \cup virs[c] /\ virs' = [virs EXCEPT ![c] = {}]
  /\ shut' = [shut EXCEPT ![c] = @ \cup {gen[c]}]
  /\ crashed' = (crashed \/ gen[c] \in shut[c])
  /\ sock' = [sock EXCEPT ![c][gen[c]] = IF @ = "none" THEN @ ELSE "closed"]

Spawn(c, g) ==
  /\ rpc' = [rpc EXCEPT ![c][g] = [Off EXCEPT !.at = "check"]]
  /\ wpc' = [wpc EXCEPT ![c][g] = [Off EXCEPT !.at = "loop"]]

\* startConnect succeeds.
DialOk(c) ==
  /\ dial[c] = "dialing"
  /\ dial' = [dial EXCEPT ![c] = "ended"]
  /\ sock' = [sock EXCEPT ![c][0] = "open"]
  /\ Spawn(c, 0)
  /\ UNCHANGED <<csVars, fate, closed, err, isIdle, virs, count, gen, shut, wbuf, wire,
                 callVars, endVars>>

\* startConnect fails on a stream: close(err, false).
DialFails(c) ==
  /\ dial[c] = "dialing" /\ DialMayFail /\ isStream
  /\ dial' = [dial EXCEPT ![c] = "ended"]
  /\ IF closed[c]
     THEN UNCHANGED <<fate, closed, err, virs, shut, sock, cancelled, crashed>>
     ELSE Shutdown(c) /\ fate' = [fate EXCEPT ![c] = "expel"]
  /\ UNCHANGED <<csVars, isIdle, count, gen, threadVars, callVars, got, breaks>>

\* startConnect fails for UDP: closeUDP calls destroy first ...
DialFailsUDP(c) ==
  /\ dial[c] = "dialing" /\ DialMayFail /\ ~isStream /\ csmu = None
  /\ dial' = [dial EXCEPT ![c] = "failed"]
  /\ IF fate[c] = "live" THEN fate' = [fate EXCEPT ![c] = "expel"] /\ UNCHANGED idle
                         ELSE idle' = idle - Plus(1) /\ UNCHANGED fate
  /\ UNCHANGED <<registered, inc, conns, rr, expelled, csmu, made, closed, err, isIdle, virs,
                 count, gen, sock, shut, threadVars, callVars, endVars>>

\* ... then closes done and cancels the calls; the closed flag is never set.
CloseUDP(c) ==
  /\ dial[c] = "failed" /\ fate[c] = "gone"
  /\ dial' = [dial EXCEPT ![c] = "ended"] /\ err' = [err EXCEPT ![c] = TRUE]
  /\ crashed' = (crashed \/ 0 \in shut[c])
  /\ shut' = [shut EXCEPT ![c] = @ \cup {0}]
  /\ cancelled' = cancelled \cup virs[c]
  /\ UNCHANGED <<csVars, fate, closed, isIdle, virs, count, gen, sock, threadVars, callVars,
                 got, breaks>>

\* The network breaks the current socket, possibly so late that the next
\* doReconnectBackoff starts counting anew.
Break(c) ==
  /\ isStream /\ breaks < MaxBreak
  /\ sock[c][gen[c]] = "open"
  /\ sock' = [sock EXCEPT ![c][gen[c]] = "broken"]
  /\ breaks' = breaks + 1
  /\ \E n \in {0, count[c]} : count' = [count EXCEPT ![c] = n]
  /\ UNCHANGED <<csVars, fate, dial, closed, err, isIdle, virs, gen, shut, threadVars,
                 callVars, cancelled, got, crashed>>

\* reading: the check of c.done, then parse on the socket current now.
ReaderCheck(c, g) ==
  /\ rpc[c][g].at = "check"
  /\ rpc' = [rpc EXCEPT ![c][g] = IF gen[c] \in shut[c] THEN Off
                                 ELSE [at |-> "parse", s |-> gen[c], u |-> None]]
  /\ UNCHANGED <<csVars, connVars, wpc, wbuf, wire, callVars, endVars>>

\* parse returns the peer's answer to the frame of call u.
Parse(c, g) ==
  LET s == rpc[c][g].s
  IN /\ rpc[c][g].at = "parse" /\ sock[c][s] = "open"
     /\ \E u \in wire[c][s] :
          /\ rpc' = [rpc EXCEPT ![c][g] = [at |-> "deliver", s |-> s, u |-> u]]
          /\ wire' = [wire EXCEPT ![c][s] = @ \ {u}]
     /\ UNCHANGED <<csVars, connVars, wpc, wbuf, callVars, endVars>>

\* The lookup under c.mu by the frame's id; an unknown id is dropped.
Deliver(c, g) ==
  /\ rpc[c][g].at = "deliver" /\ MuFree(c)
  /\ got' = got \cup SameVid(c, rpc[c][g].u)
  /\ rpc' = [rpc EXCEPT ![c][g] = [Off EXCEPT !.at = "check"]]
  /\ UNCHANGED <<csVars, connVars, wpc, wbuf, wire, callVars, cancelled, breaks, crashed>>

ParseFails(c, g) ==
  /\ rpc[c][g].at = "parse" /\ sock[c][rpc[c][g].s] \in {"broken", "closed"}
  /\ rpc' = [rpc EXCEPT ![c][g] = [Off EXCEPT !.at = "error"]]
  /\ UNCHANGED <<csVars, connVars, wpc, wbuf, wire, callVars, endVars>>

\* writing: every turn of the loop evaluates c.done for its select.
WriterLoop(c, g) ==
  /\ wpc[c][g].at = "loop"
  /\ wpc' = [wpc EXCEPT ![c][g] = [at |-> "select", s |-> gen[c], u |-> None]]
  /\ UNCHANGED <<csVars, connVars, rpc, wbuf, wire, callVars, endVars>>

WriterDone(c, g) ==
  /\ wpc[c][g].at = "select" /\ wpc[c][g].s \in shut[c]
  /\ wpc' = [wpc EXCEPT ![c][g] = Off]
  /\ UNCHANGED <<csVars, connVars, rpc, wbuf, wire, callVars, endVars>>

\* A frame from writeBuffer; writeAll fetches the socket current now.
WriterTakes(c, g) ==
  /\ wpc[c][g].at = "select" /\ wbuf[c] # <<>>
  /\ wpc' = [wpc EXCEPT ![c][g] = [at |-> "write", s |-> gen[c], u |-> Head(wbuf[c])]]
  /\ wbuf' = [wbuf EXCEPT ![c] = Tail(@)]
  /\ UNCHANGED <<csVars, connVars, rpc, wire, callVars, endVars>>

WriteAll(c, g) ==
  LET w == wpc[c][g]
  IN /\ w.at = "write" /\ sock[c][w.s] = "open"
     /\ wire' = [wire EXCEPT ![c][w.s] = @ \cup {w.u}]
     /\ wpc' = [wpc EXCEPT ![c][g] = [Off EXCEPT !.at = "loop"]]
     /\ UNCHANGED <<csVars, connVars, rpc, wbuf, callVars, endVars>>

WriteFails(c, g) ==
  /\ wpc[c][g].at = "write" /\ sock[c][wpc[c][g].s] \in {"broken", "closed"}
  /\ wpc' = [wpc EXCEPT ![c][g] = [Off EXCEPT !.at = "error"]]
  /\ UNCHANGED <<csVars, connVars, rpc, wbuf, wire, callVars, endVars>>

\* The goroutine that closes a Connection is its reader or its writer of socket g.
At(c, g, who, pc) == (IF who = "r" THEN rpc[c][g] ELSE wpc[c][g]).at = pc
Move(c, g, who, pc) ==
  LET to == IF pc = "off" THEN Off ELSE [Off EXCEPT !.at = pc]
  IN /\ rpc' = IF who = "r" THEN [rpc EXCEPT ![c][g] = to] ELSE rpc
     /\ wpc' = IF who = "w" THEN [wpc EXCEPT ![c][g] = to] ELSE wpc

\* doReconnectBackoff, when the interval since the last one is short.
Backoff(n) == n + 1 <= MaxReconnect

\* close(lastErr, true) up to the reconnection.  A Connection that is closed is
\* left alone; one that another goroutine reconnected meanwhile is not closed.
DoClose(c, g, who) ==
  /\ At(c, g, who, "error") /\ MuFree(c)
  /\ IF closed[c]
     THEN /\ Move(c, g, who, "off")
          /\ UNCHANGED <<fate, closed, err, virs, count, shut, sock, cancelled, crashed>>
     ELSE /\ Shutdown(c)
          /\ count' = [count EXCEPT ![c] = @ + 1]
          /\ IF Backoff(count[c])
             THEN Move(c, g, who, "redial") /\ UNCHANGED fate
             ELSE Move(c, g, who, "off") /\ fate' = [fate EXCEPT ![c] = "expel"]
  /\ UNCHANGED <<csVars, dial, isIdle, gen, wbuf, wire, callVars, got, breaks>>

\* reconnect succeeds: a new socket and done channel, new goroutines.
Reconnect(c, g, who) ==
  LET h == gen[c] + 1
  IN /\ At(c, g, who, "redial") /\ ~SlowDial
     /\ gen' = [gen EXCEPT ![c] = h] /\ sock' = [sock EXCEPT ![c][h] = "open"]
     /\ isIdle' = [isIdle EXCEPT ![c] = TRUE]
     /\ idle' = IF isIdle[c] THEN idle ELSE idle + Plus(1)
     /\ err' = [err EXCEPT ![c] = FALSE] /\ closed' = [closed EXCEPT ![c] = FALSE]
     /\ rpc' = [[rpc EXCEPT ![c][h] = [Off EXCEPT !.at = "check"]]
                            EXCEPT ![c][g] = IF who = "r" THEN Off ELSE @]
     /\ wpc' = [[wpc EXCEPT ![c][h] = [Off EXCEPT !.at = "loop"]]
                            EXCEPT ![c][g] = IF who = "w" THEN Off ELSE @]
     /\ UNCHANGED <<registered, inc, conns, rr, expelled, csmu, made, fate, dial, virs, count,
                    shut, wbuf, wire, callVars, endVars>>

\* reconnect's dial fails: another attempt, counted from 0 if this one outlasted
\* the reset interval, or the end of the Connection.
RedialFails(c, g, who) ==
  LET n == IF SlowDial THEN 0 ELSE count[c]
  IN /\ At(c, g, who, "redial") /\ (DialMayFail \/ SlowDial)
     /\ count' = [count EXCEPT ![c] = n + 1]
     /\ IF Backoff(n)
        THEN UNCHANGED <<rpc, wpc, fate>>
        ELSE Move(c, g, who, "off") /\ fate' = [fate EXCEPT ![c] = "expel"]
     /\ UNCHANGED <<csVars, dial, closed, err, isIdle, virs, gen, sock, shut, wbuf, wire,
                    callVars, endVars>>
-----------------------------------------------------------------------------
CallStep(u) ==
  \/ Get(u) \/ InitPoolForNode(u) \/ Reload(u)
  \/ PickExpelled(u) \/ PickRoundRobin(u) \/ PickScan(u) \/ CanGetVirConn(u) \/ PickNew(u)
  \/ NewVirConn(u) \/ Write(u) \/ SendQueued(u) \/ SendFails(u) \/ Read(u) \/ Close(u)

DialStep(c) == DialOk(c) \/ DialFails(c) \/ DialFailsUDP(c) \/ CloseUDP(c)
ExpelStep(c) == Expel(c) \/ Destruct(c)
ReaderStep(c, g) ==
  \/ ReaderCheck(c, g) \/ Deliver(c, g) \/ ParseFails(c, g)
  \/ DoClose(c, g, "r") \/ Reconnect(c, g, "r") \/ RedialFails(c, g, "r")
WriterStep(c, g) ==
  \/ WriterLoop(c, g) \/ WriterDone(c, g) \/ WriterTakes(c, g) \/ WriteAll(c, g)
  \/ WriteFails(c, g)
  \/ DoClose(c, g, "w") \/ Reconnect(c, g, "w") \/ RedialFails(c, g, "w")

\* What goroutines of the program can do on their own.
SystemStep ==
  /\ UNCHANGED isStream
  /\ \/ \E u \in Call : CallStep(u)
     \/ \E c \in Conn : DialStep(c) \/ ExpelStep(c)
     \/ \E c \in Conn, g \in Gen : ReaderStep(c, g) \/ WriterStep(c, g)

Next ==
  /\ ~crashed /\ UNCHANGED isStream
  /\ \/ SystemStep
     \/ \E u \in Call : Timeout(u)
     \/ \E c \in Conn : Break(c)
     \/ \E c \in Conn, g \in Gen : Parse(c, g)

Spec == Init /\ [][Next]_vars

\* Some goroutine runs as long as one can.  The peer need not answer and contexts
\* need not expire.
FairSpec == Spec /\ WF_vars(SystemStep)
-----------------------------------------------------------------------------
Listed == {conns[i] : i \in DOMAIN conns}
\* The virtual connection is in its owner's hands.
InUse(u) == cpc[u] \in {"open", "send", "reading"}

\* Connections that still have sockets to serve are in the list of the object
\* in the map, and the map keeps an object without connections only until its
\* destructor has run: two first calls at once, or an expulsion racing a call,
\* lose no connection and delete no newer object (initPoolForNode, expel).
NoConnectionLost ==
  /\ \A c \in Conn : fate[c] \in {"live", "expel"} <=> c \in Listed
  /\ \A i, j \in DOMAIN conns : conns[i] = conns[j] => i = j
  /\ registered => (expelled <=> Listed = {})
  /\ registered /\ expelled <=> \E c \in Conn : fate[c] = "destruct"
  /\ \A c, d \in Conn : fate[c] = "destruct" /\ fate[d] = "destruct" => c = d

\* close(c.done) is never called twice on one channel, which would panic,
\* although the reader, the writer, startConnect and the last virtual connection
\* may all close the Connection (doClose, idleRemove).
NeverClosedTwice == ~crashed

\* A virtual connection in use that was not cancelled is registered in a
\* Connection that is not closed: the next failure cancels it and the answer to
\* its request finds it.  No call is left to wait for its deadline, whether the
\* Connection is removed as idle, fails or reconnects between pickSingleConcrete
\* and newVirConn, or while the call is waiting.
NoOrphan ==
  \A u \in Call : InUse(u) /\ u \notin cancelled
                  => u \in virs[uconn[u]] /\ ~closed[uconn[u]]

\* currentIdle never exceeds the number of idle connections of the list, so no
\* connection is removed while the limit is kept (newConn, newVirConn,
\* idleRemove, reconnect, expel, in every interleaving).
IdleNotOvercounted == MaxIdle > 0 => idle <= Cardinality({c \in Listed : isIdle[c]})

\* GetMuxConn, Write and Close return, whatever fails: nobody waits for ever for
\* Connection.mu, Connections.mu or room in writeBuffer.  A call is made once, so
\* that all of them return if again and again nobody waits.
Waiting(u) == cpc[u] \in {"init", "reload", "pick", "scan", "new", "send", "closing"}
CallsReturn == []<>(\A u \in Call : ~Waiting(u))

\* A call waiting for the answer to a request whose socket broke or was closed
\* gets an error, even if its context never expires (parse fails, doClose cancels
\* the virtual connections).
Unanswerable(u) ==
  cpc[u] = "reading" /\ \E c \in Conn, g \in Gen : u \in wire[c][g] /\ sock[c][g] # "open"
BrokenSocketFailsCalls == []<>(\A u \in Call : ~Unanswerable(u))

\* Every connection the pool made is listed, being dialed or closed, none is closed
\* twice, and the idle ones are never counted twice.
MuxSafe == TypeOK /\ NoConnectionLost /\ NeverClosedTwice /\ IdleNotOvercounted

\* A call returns once its deadline passed, its answer came or its connection broke, and
\* a socket that breaks fails the calls that use it.
CallersServed == CallsReturn /\ BrokenSocketFailsCalls
-----------------------------------------------------------------------------
(* The inductive strengthening of MuxSafe and NoOrphan.                    *)

\* The Connection a call works on was made.  A call that scans holds
\* Connections.mu of the object in the map, which has not been expelled.
CallInv ==
  \A u \in Call :
    /\ cpc[u] \in {"new", "open", "send", "reading", "closing"} => uconn[u] \in 1..made
    /\ cpc[u] \in {"pick", "scan"} => ucs[u] \in 1..inc
    /\ cpc[u] = "scan" => csmu = u /\ registered /\ ~expelled /\ idx[u] # 0

\* An object that left the map left an empty list; Connections not made yet
\* are as newConn will leave them.
MapInv ==
  /\ NoConnectionLost
  /\ registered => inc # 0
  /\ ~registered => Listed = {} /\ (expelled \/ inc = 0)
  /\ \A c \in Conn : fate[c] = "unused" <=> c > made
  /\ \A c \in Conn : c > made => isIdle[c] /\ ~closed[c] /\ dial[c] = "none"

\* One goroutine of a Connection reconnects, and meanwhile the Connection is
\* closed and stays in the list; a Connection not made yet has no goroutines.
RedialInv ==
  \A c \in Conn :
    /\ ~MuFree(c) => fate[c] = "live" /\ closed[c]
    /\ fate[c] = "unused" => \A g \in Gen : rpc[c][g].at = "off" /\ wpc[c][g].at = "off"
    /\ \A g, h \in Gen :
         /\ rpc[c][g].at = "redial" => wpc[c][h].at # "redial"
         /\ rpc[c][g].at = "redial" /\ rpc[c][h].at = "redial" => g = h
         /\ wpc[c][g].at = "redial" /\ wpc[c][h].at = "redial" => g = h

\* Over TCP whoever closes the current done channel sets the closed flag, and a
\* Connection on its way out keeps it; over UDP only closeUDP closes done.
ShutInv ==
  /\ ~crashed
  /\ \A c \in Conn :
       /\ shut[c] \subseteq 0..gen[c]
       /\ isStream => /\ gen[c] \in shut[c] => closed[c]
                      /\ dial[c] # "failed"
                      /\ fate[c] \in {"expel", "destruct", "gone"} => closed[c]
       /\ ~isStream => /\ ~closed[c] /\ (shut[c] # {} => dial[c] = "ended")
                       /\ \A g \in Gen : sock[c][g] \in {"none", "open"}
                       /\ \A g \in Gen : {rpc[c][g].at, wpc[c][g].at} \cap {"error", "redial"} = {}

\* A break of the network costs a Connection at most MaxReconnect sockets.
SocketInv ==
  \A c \in Conn :
    /\ gen[c] <= MaxReconnect * breaks + MaxReconnect
    /\ fate[c] \in {"unused", "live"} =>
         /\ count[c] <= MaxReconnect
         /\ gen[c] + (IF MuFree(c) THEN 0 ELSE 1) <= MaxReconnect * breaks + count[c]
    /\ SlowDial => gen[c] = 0

MuxInv == TypeOK /\ CallInv /\ MapInv /\ RedialInv /\ ShutInv /\ SocketInv /\ NoOrphan
IInv == MuxInv /\ IdleNotOvercounted
-----------------------------------------------------------------------------
\* Ids as the client gives them out: no two calls share one.  The calls are then
\* interchangeable.
UniqueVids == [u \in Call |-> u]
CallSymmetry == {p : p \in {f \in [Call -> Call] : \A u \in Call : \E v \in Call : f[v] = u}}
=============================================================================

------------------------------- MODULE Tnet -------------------------------
(* The tnet transport's multiplex pool (transport/tnet/multiplex) and the  *)
(* calls that use it (clientTransport.multiplex): hosts that close with    *)
(* their last connection, connections dialed once for all the calls that   *)
(* wait for one, and virtual connections found by request id.  Calls, the  *)
(* dialing goroutine and the poller's callbacks interleave at the locks.   *)
EXTENDS Integers, Sequences, FiniteSets, SequencesExt

CONSTANTS
  TnetCalls,               \* the calls; a call is its request id
  MaxHosts, MaxDials,      \* bounds on the hosts and on the connections before no dial starts
  maxConcurrentVirConns,   \* 0 means no limit
  Uint                     \* the number of values of the length counter

VARIABLES
  hosts,    \* every host created; its mutex's closed state, its connections, its dial
  pooled,   \* pool.hosts: the host the address has, or 0
  conns,    \* every connection dialed
  vcs       \* a call: where it is, what it holds, its virtual connection
tnetVars == <<hosts, pooled, conns, vcs>>

\* The dial of singleflight.Group: its step, its connection, the calls that wait for it.
NoDial == [step |-> "none", conn |-> 0, waiters |-> {}]
newHost == [closed |-> FALSE, conns |-> <<>>, dial |-> NoDial]
newConnection(h) ==
  [host |-> h, active |-> TRUE, step |-> "open", closed |-> FALSE, ids |-> {}, len |-> 0, cause |-> "none"]
newCall ==
  [pc |-> "start", host |-> 0, list |-> <<>>, took |-> FALSE, conn |-> 0,
   ctx |-> "live", closed |-> FALSE, cause |-> "none", queue |-> 0, result |-> "none"]

TnetInit ==
  /\ hosts = <<>> /\ pooled = 0 /\ conns = <<>>
  /\ vcs = [c \in TnetCalls |-> newCall]

\* stateRWMutex: who holds a host's lock, or a connection's, follows from where the calls are.
readsHost(h) == \E c \in TnetCalls : vcs[c].host = h /\ vcs[c].pc = "read"
locksHost(h) == \E c \in TnetCalls : vcs[c].host = h /\ vcs[c].pc = "locked"
hostFree(h) == ~readsHost(h) /\ ~locksHost(h)
readsConn(k) ==
  \E c \in TnetCalls : vcs[c].pc \in {"read", "locked", "dialed"} /\ vcs[c].took /\ Head(vcs[c].list) = k

-----------------------------------------------------------------------------
(* pool.GetMuxConn *)

getHost(c) ==
  /\ vcs[c].pc = "start"
  /\ IF pooled # 0
     THEN UNCHANGED <<hosts, pooled>> /\ vcs' = [vcs EXCEPT ![c].pc = "rlock", ![c].host = pooled]
     ELSE /\ Len(hosts) < MaxHosts
          /\ hosts' = Append(hosts, newHost)
          /\ pooled' = Len(hosts')
          /\ vcs' = [vcs EXCEPT ![c].pc = "rlock", ![c].host = Len(hosts')]
  /\ UNCHANGED conns

\* A closed host refuses both locks.
rLock(c) ==
  LET h == vcs[c].host IN
  /\ vcs[c].pc = "rlock" /\ ~locksHost(h)
  /\ vcs' = [vcs EXCEPT ![c] = IF hosts[h].closed THEN [@ EXCEPT !.pc = "end", !.result = "closed"]
                               ELSE [@ EXCEPT !.pc = "read", !.list = hosts[h].conns]]
  /\ UNCHANGED <<hosts, pooled, conns>>

lock(c) ==
  LET h == vcs[c].host IN
  /\ vcs[c].pc = "lock" /\ hostFree(h)
  /\ vcs' = [vcs EXCEPT ![c] = IF hosts[h].closed THEN [@ EXCEPT !.pc = "end", !.result = "closed"]
                               ELSE [@ EXCEPT !.pc = "locked", !.list = hosts[h].conns]]
  /\ UNCHANGED <<hosts, pooled, conns>>

\* isClosedOrFull and isFull: the errors after which the next connection is tried.
isTolerable(pc, err) == err = "full" \/ (err = "closed" /\ pc \in {"read", "locked"})

\* connection.newVirConn up to its two checks, under the connection's read lock.
refuses(k) ==
  CASE conns[k].closed \/ ~conns[k].active -> "closed"
    [] maxConcurrentVirConns # 0 /\ conns[k].len >= maxConcurrentVirConns -> "full"
    [] OTHER -> "none"

Trying(c) == vcs[c].pc \in {"read", "locked", "dialed"} /\ vcs[c].list # <<>>

canTakeNewVirConn(c) ==
  /\ Trying(c) /\ ~vcs[c].took
  /\ LET err == refuses(Head(vcs[c].list)) IN
     vcs' = [vcs EXCEPT ![c] = CASE err = "none" -> [@ EXCEPT !.took = TRUE]
                                 [] isTolerable(@.pc, err) -> [@ EXCEPT !.list = Tail(@)]
                                 [] OTHER -> [@ EXCEPT !.pc = "end", !.result = err, !.list = <<>>]]
  /\ UNCHANGED <<hosts, pooled, conns>>

\* shardMap.loadOrStore; the locks are given back.
loadOrStore(c) ==
  LET k == Head(vcs[c].list) IN
  /\ Trying(c) /\ vcs[c].took
  /\ conns' = [conns EXCEPT ![k].ids = @ \cup {c}, ![k].len = (@ + 1) % Uint]
  /\ vcs' = [vcs EXCEPT ![c].pc = "open", ![c].conn = k, ![c].list = <<>>, ![c].took = FALSE]
  /\ UNCHANGED <<hosts, pooled>>

rUnlock(c) ==
  /\ vcs[c].pc = "read" /\ vcs[c].list = <<>>
  /\ vcs' = [vcs EXCEPT ![c].pc = "lock"]
  /\ UNCHANGED <<hosts, pooled, conns>>

\* host.singleflightDial: DoChan joins the dial under way or starts one.
singleflightDial(c) ==
  LET h == vcs[c].host  d == hosts[h].dial IN
  /\ vcs[c].pc = "locked" /\ vcs[c].list = <<>>
  /\ IF d.step # "none" THEN hosts' = [hosts EXCEPT ![h].dial.waiters = @ \cup {c}]
     ELSE /\ Len(conns) < MaxDials
          /\ hosts' = [hosts EXCEPT ![h].dial = [NoDial EXCEPT !.step = "dial", !.waiters = {c}]]
  /\ vcs' = [vcs EXCEPT ![c].pc = "dialing"]
  /\ UNCHANGED <<pooled, conns>>

\* The dialed connection was full when the call came to it: GetMuxConn goes round its loop.
Again(c) ==
  /\ vcs[c].pc = "dialed" /\ vcs[c].list = <<>>
  /\ vcs' = [vcs EXCEPT ![c].pc = "lock"]
  /\ UNCHANGED <<hosts, pooled, conns>>

-----------------------------------------------------------------------------
(* The dialing goroutine *)

\* waitDialing and expandSFResult: the waiters get the connection, or the error.
Results(h, k) ==
  vcs' = [c \in TnetCalls |->
            IF c \notin hosts[h].dial.waiters \/ vcs[c].pc # "dialing" THEN vcs[c]
            ELSE IF k = 0 THEN [vcs[c] EXCEPT !.pc = "end", !.result = "dialFailed"]
            ELSE [vcs[c] EXCEPT !.pc = "dialed", !.list = <<k>>]]

dialFails(h) ==
  /\ hosts[h].dial.step = "dial"
  /\ Results(h, 0)
  /\ hosts' = [hosts EXCEPT ![h].dial = NoDial]
  /\ UNCHANGED <<pooled, conns>>

\* dialFunc and host.wrapRawConn: from here on the connection's callbacks run.
wrapRawConn(h) ==
  /\ hosts[h].dial.step = "dial"
  /\ conns' = Append(conns, newConnection(h))
  /\ hosts' = [hosts EXCEPT ![h].dial.step = "store", ![h].dial.conn = Len(conns')]
  /\ UNCHANGED <<pooled, vcs>>

\* host.storeConn.
storeConn(h) ==
  /\ hosts[h].dial.step = "store" /\ hostFree(h)
  /\ hosts' = [hosts EXCEPT ![h] =
       IF @.closed THEN [@ EXCEPT !.dial.step = "refused"]
       ELSE [@ EXCEPT !.dial.step = "stored", !.conns = Append(@, hosts[h].dial.conn)]]
  /\ UNCHANGED <<pooled, conns, vcs>>

\* The dial ends; a connection the host no longer takes is closed, and its callback with it.
finishDial(h) ==
  LET k == hosts[h].dial.conn  ok == hosts[h].dial.step = "stored" IN
  /\ hosts[h].dial.step \in {"stored", "refused"}
  /\ Results(h, IF ok THEN k ELSE 0)
  /\ conns' = IF ok THEN conns ELSE [conns EXCEPT ![k].active = FALSE]
  /\ hosts' = [hosts EXCEPT ![h].dial = NoDial]
  /\ UNCHANGED pooled

-----------------------------------------------------------------------------
(* connection.close, once: by the poller when the peer is gone, by onRequest when a frame does not parse *)

PeerCloses(k) ==
  /\ conns[k].active
  /\ conns' = [conns EXCEPT ![k].active = FALSE]
  /\ UNCHANGED <<hosts, pooled, vcs>>

close(k) ==
  /\ conns[k].step = "open"
  /\ \E cause \in (IF conns[k].active THEN {"parse"} ELSE {"closed"}) :
       conns' = [conns EXCEPT ![k].step = "unlist", ![k].cause = cause]
  /\ UNCHANGED <<hosts, pooled, vcs>>

\* Mutant: the last connection leaves its host open.
deleteConnKeeping(k) ==
  LET h == conns[k].host  rest == SelectSeq(hosts[h].conns, LAMBDA x : x # k) IN
  /\ conns[k].step = "unlist" /\ hostFree(h)
  /\ hosts' = [hosts EXCEPT ![h].conns = rest]
  /\ conns' = [conns EXCEPT ![k].step = IF rest = <<>> THEN "unhost" ELSE "drop"]
  /\ UNCHANGED <<pooled, vcs>>
\* host.deleteConn: the last connection closes the host.
deleteConn(k) ==
  LET h == conns[k].host  rest == SelectSeq(hosts[h].conns, LAMBDA x : x # k) IN
  /\ conns[k].step = "unlist" /\ hostFree(h)
  /\ IF hosts[h].closed
     THEN UNCHANGED hosts /\ conns' = [conns EXCEPT ![k].step = "drop"]
     ELSE /\ hosts' = [hosts EXCEPT ![h].conns = rest, ![h].closed = rest = <<>>]
          /\ conns' = [conns EXCEPT ![k].step = IF rest = <<>> THEN "unhost" ELSE "drop"]
  /\ UNCHANGED <<pooled, vcs>>

\* pool.deleteHost: whatever host has the name.
deleteHost(k) ==
  /\ conns[k].step = "unhost"
  /\ pooled' = 0
  /\ conns' = [conns EXCEPT ![k].step = "drop"]
  /\ UNCHANGED <<hosts, vcs>>

\* connection.deleteAllVirConn under the write lock: every reader is told why, the count
\* is zeroed; the shards are emptied one lock at a time after it.
notifyRead(vc, cause) == IF vc.closed THEN vc ELSE [vc EXCEPT !.closed = TRUE, !.cause = cause]
deleteAllVirConn(k) ==
  /\ conns[k].step = "drop" /\ ~readsConn(k)
  /\ conns' = [conns EXCEPT ![k].closed = TRUE, ![k].step = "reset", ![k].len = 0]
  /\ vcs' = [c \in TnetCalls |-> IF c \in conns[k].ids THEN notifyRead(vcs[c], conns[k].cause) ELSE vcs[c]]
  /\ UNCHANGED <<hosts, pooled>>

reset(k) ==
  /\ conns[k].step = "reset"
  /\ conns' = [conns EXCEPT ![k].ids = {}, ![k].step = "shut", ![k].active = FALSE]
  /\ UNCHANGED <<hosts, pooled, vcs>>

\* connection.onRequest: a response for the id, dropped when nobody waits for it any more.
onRequest(k, c) ==
  /\ conns[k].active /\ conns[k].step = "open"
  /\ c \in conns[k].ids
  /\ vcs[c].pc = "sent" /\ vcs[c].queue = 0
  /\ ~vcs[c].closed /\ vcs[c].ctx = "live"
  /\ vcs' = [vcs EXCEPT ![c].queue = 1]
  /\ UNCHANGED <<hosts, pooled, conns>>

-----------------------------------------------------------------------------
(* clientTransport.multiplex with its virtual connection *)

\* virtualConnection.Write, then for a one-way call the end.
Write(c) ==
  LET vc == vcs[c] IN
  /\ vc.pc = "open"
  /\ \E oneway \in BOOLEAN :
       vcs' = [vcs EXCEPT ![c] =
         IF vc.closed \/ ~conns[vc.conn].active THEN [@ EXCEPT !.pc = "close", !.result = "netError"]
         ELSE IF oneway THEN [@ EXCEPT !.pc = "close", !.result = "noResponse"]
         ELSE [@ EXCEPT !.pc = "sent"]]
  /\ UNCHANGED <<hosts, pooled, conns>>

\* virtualConnection.Read: what is queued first, then the end of the context or of the connection.
\* wrapError keeps the context's error only as text, so errors.Is finds neither of its kinds.
Read(c) ==
  LET vc == vcs[c] IN
  /\ vc.pc = "sent"
  /\ vc.queue = 1 \/ vc.closed \/ vc.ctx # "live"
  /\ vcs' = [vcs EXCEPT ![c].pc = "close", ![c].result = IF vc.queue = 1 THEN "response" ELSE "netError"]
  /\ UNCHANGED <<hosts, pooled, conns>>

\* virtualConnection.Close, deferred by multiplex; shardMap.delete counts what it finds.
Close(c) ==
  LET k == vcs[c].conn  listed == c \in conns[k].ids IN
  /\ vcs[c].pc = "close"
  /\ vcs' = [vcs EXCEPT ![c] = [notifyRead(@, "none") EXCEPT !.pc = "end"]]
  /\ conns' = IF listed THEN [conns EXCEPT ![k].ids = @ \ {c}, ![k].len = (@ + Uint - 1) % Uint] ELSE conns
  /\ UNCHANGED <<hosts, pooled>>

\* The context ends; a call that waits for a dial stops waiting.
ContextDone(c) ==
  /\ vcs[c].ctx = "live" /\ vcs[c].pc \in {"dialing", "sent"}
  /\ vcs' = [vcs EXCEPT ![c].ctx = "expired",
                        ![c].result = IF vcs[c].pc = "dialing" THEN "timeout" ELSE @,
                        ![c].pc = IF vcs[c].pc = "dialing" THEN "end" ELSE @]
  /\ UNCHANGED <<hosts, pooled, conns>>

callStep(c) ==
  \/ getHost(c) \/ rLock(c) \/ lock(c) \/ canTakeNewVirConn(c) \/ loadOrStore(c) \/ rUnlock(c)
  \/ singleflightDial(c) \/ Again(c) \/ Write(c) \/ Read(c) \/ Close(c)
dialStep(h) == dialFails(h) \/ wrapRawConn(h) \/ storeConn(h) \/ finishDial(h)
closeStep(k) ==
  deleteConn(k) \/ deleteHost(k) \/ deleteAllVirConn(k) \/ reset(k)
TnetNext ==
  \/ \E c \in TnetCalls : callStep(c) \/ ContextDone(c)
  \/ \E h \in 1..Len(hosts) : dialStep(h)
  \/ \E k \in 1..Len(conns) : PeerCloses(k) \/ close(k) \/ closeStep(k) \/ \E c \in TnetCalls : onRequest(k, c)

-----------------------------------------------------------------------------
(* A call that waits on a connection is never left behind by its end: a    *)
(* virtual connection that is open is in the map of a connection whose end *)
(* has not told its readers yet.  newVirConn takes the connection's read   *)
(* lock so that none is added after deleteAllVirConn has run.              *)
NoneStranded ==
  \A c \in TnetCalls :
    vcs[c].pc \in {"open", "sent"} /\ ~vcs[c].closed =>
      c \in conns[vcs[c].conn].ids /\ ~conns[vcs[c].conn].closed

(* The count of a connection that is still open is the number of its       *)
(* virtual connections: the limit is checked against it.                   *)
CountExact == \A k \in 1..Len(conns) : ~conns[k].closed => conns[k].len = Cardinality(conns[k].ids)

(* A call in a pool hears that its host is closed only while the host is   *)
(* leaving the pool: a closed host is in the pool only between deleteConn  *)
(* and deleteHost, which never takes out another host (deleteHost goes by  *)
(* name).                                                                  *)
PooledIsOpen ==
  /\ pooled # 0 /\ hosts[pooled].closed =>
       \E k \in 1..Len(conns) : conns[k].host = pooled /\ conns[k].step = "unhost"
  /\ \A h \in 1..Len(hosts) : ~hosts[h].closed => h = pooled

(* No connection outlives its host: one that is open in a closed host is   *)
(* about to be closed, by its callback or by the dial that has it in hand. *)
ClosedHostsEnd ==
  \A k \in 1..Len(conns) : hosts[conns[k].host].closed /\ conns[k].step = "open" =>
    ~conns[k].active \/ hosts[conns[k].host].dial.conn = k
=============================================================================

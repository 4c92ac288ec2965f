----------------------------- MODULE Listeners ------------------------------
(***************************************************************************)
(* The listeners of the default server transport                           *)
(* (transport/server_transport.go, serveTCP of server_transport_tcp.go):   *)
(* the services of a process start listening concurrently, a process that  *)
(* was started by a graceful restart takes over the sockets its parent     *)
(* passed to it, by network and address, and every stream listener has a   *)
(* loop that accepts until the listener is closed.  A socket is the number *)
(* under which it was bound; the service's options are in listens.         *)
(***************************************************************************)
EXTENDS Integers, Sequences, FiniteSets, TLC
LOCAL INSTANCE SequencesExt

CONSTANTS
  Listens,      \* scenarios: the options of every service, ReusePort, what may happen
  Generations,  \* processes, each started by a restart of the one before
  Cores,        \* runtime.NumCPU
  FirstDelay,   \* the first pause after a temporary error of Accept
  MaxDelay      \* and the longest

VARIABLES
  listens,   \* the scenario
  sockets,   \* by number: the network and the address a socket is bound to
  processes, \* of every process: its maps of listeners and what it was passed
  starts,    \* how far ListenAndServe is, by process and service
  loops      \* the serving loops, by process

listenerVars == <<listens, sockets, processes, starts, loops>>

Stream == {"tcp", "tcp4", "unix"}
Packet == {"udp"}
Opts(s) == listens.service[s]
ServiceSet == DOMAIN listens.service

\* What the kernel reports of a socket: the network without its version, and the
\* address in its canonical form.
Bound(network, address) ==
  <<IF network = "tcp4" THEN "tcp" ELSE network, IF address = ":1" THEN "[::]:1" ELSE address>>

NotStarted == [at |-> "none", i |-> 1, n |-> 1, taken |-> 0, left |-> <<>>]
NewProcess == [listeners |-> {}, passed |-> <<>>, once |-> FALSE, inherited |-> <<>>, done |-> {}]

ListenersInit ==
  /\ listens \in Listens
  /\ sockets = <<>>
  /\ processes = [p \in 1..Generations |-> NewProcess]
  /\ starts = [p \in 1..Generations |->
                 [s \in DOMAIN listens.service |-> [NotStarted EXCEPT !.at = IF p = 1 THEN "listen" ELSE "none"]]]
  /\ loops = [p \in 1..Generations |-> <<>>]

-----------------------------------------------------------------------------
(* The listeners that a process inherits.                                  *)

\* fileListener: a descriptor becomes a listener of the network and address that its
\* socket is bound to.
fileListener(k) == sockets[k]

\* inheritListeners: the passed descriptors in their order, those of one key in one list.
inheritListeners(fds) ==
  FoldLeft(LAMBDA m, k : LET key == fileListener(k) IN
             (key :> (IF key \in DOMAIN m THEN Append(m[key], k) ELSE <<k>>)) @@ m, <<>>, fds)

InheritedBy(p) == IF processes[p].once THEN processes[p].inherited ELSE inheritListeners(processes[p].passed)

\* getPassedListener, up to the load: the first process-wide call builds the map.
LoadPassed(p, s) ==
  LET m == InheritedBy(p)
      o == Opts(s)
      st == starts[p][s]
      key == <<o.networks[st.i], o.address>>
  IN /\ processes' = [processes EXCEPT ![p].once = TRUE, ![p].inherited = m]
     /\ IF key \in DOMAIN m
        THEN starts' = [starts EXCEPT ![p][s].at = "store", ![p][s].taken = Head(m[key]), ![p][s].left = Tail(m[key])]
        ELSE starts' = [starts EXCEPT ![p][s].at = "failed"]
     /\ UNCHANGED <<listens, sockets, loops>>

\* getPassedListener, the store: the key keeps the other listeners of the list it loaded.
StorePassed(p, s) ==
  LET st == starts[p][s]
      key == <<Opts(s).networks[st.i], Opts(s).address>>
      m == processes[p].inherited
  IN /\ st.at = "store"
     /\ processes' = [processes EXCEPT ![p].inherited =
          IF st.left = <<>> THEN [k \in DOMAIN m \ {key} |-> m[k]] ELSE (key :> st.left) @@ m]
     /\ starts' = [starts EXCEPT ![p][s].at = "serve"]
     /\ UNCHANGED <<listens, sockets, loops>>

-----------------------------------------------------------------------------
(* ListenAndServe: the networks of a service one after the other.          *)

\* A socket of its own: the listener of the options, reuseport.Listen or net.Listen.
Bind(p, s) ==
  /\ sockets' = Append(sockets, Bound(Opts(s).networks[starts[p][s].i], Opts(s).address))
  /\ starts' = [starts EXCEPT ![p][s].at = "serve", ![p][s].taken = Len(sockets')]
  /\ UNCHANGED <<listens, processes, loops>>

Fail(p, s) ==
  starts' = [starts EXCEPT ![p][s].at = "failed"] /\ UNCHANGED <<listens, sockets, processes, loops>>

\* getTCPListener and getUDPListener: a process of a graceful restart looks for a passed
\* listener only; any other binds, which may fail.
getTCPListener(p, s) ==
  \/ Opts(s).given /\ Bind(p, s)
  \/ ~Opts(s).given /\ p > 1 /\ LoadPassed(p, s)
  \/ ~Opts(s).given /\ p = 1 /\ Bind(p, s)
  \/ ~Opts(s).given /\ p = 1 /\ "bind" \in listens.faults /\ Fail(p, s)
getUDPListener(p, s) ==
  \/ p > 1 /\ LoadPassed(p, s)
  \/ p = 1 /\ Bind(p, s)
  \/ p = 1 /\ "bind" \in listens.faults /\ Fail(p, s)

\* The choice of ListenAndServe: a given listener is a stream listener.
Listen(p, s) ==
  LET network == Opts(s).networks[starts[p][s].i] IN
  /\ starts[p][s].at = "listen"
  /\ IF Opts(s).given \/ network \in Stream
     THEN IF Opts(s).framer THEN getTCPListener(p, s) ELSE Fail(p, s)
     ELSE IF network \in Packet THEN getUDPListener(p, s) ELSE Fail(p, s)

\* mayLiftToTLSListener: nothing to do without a certificate and a key.
mayLiftToTLSListener(s) == Opts(s).tls # "bad"

\* How many sockets a network takes: with ReusePort a packet socket for every core.
Wanted(s) == [i \in DOMAIN Opts(s).networks |->
                IF Opts(s).networks[i] \in Packet /\ listens.reusePort THEN Cores ELSE 1]

\* The rest of listenAndServeStream and listenAndServePacket: the raw listener is saved
\* first, TLS put over a stream listener, its loop started, the next one sought.
Serve(p, s) ==
  LET st == starts[p][s]
      stream == Opts(s).given \/ Opts(s).networks[st.i] \in Stream
      loop == [socket |-> st.taken, stream |-> stream, open |-> TRUE, at |-> "accept", delay |-> 0]
  IN /\ st.at = "serve"
     /\ processes' = [processes EXCEPT ![p].listeners = @ \cup {st.taken}]
     /\ IF stream /\ ~mayLiftToTLSListener(s)
        THEN starts' = [starts EXCEPT ![p][s].at = "failed"] /\ UNCHANGED loops
        ELSE /\ loops' = [loops EXCEPT ![p] = (<<s, st.i, st.n>> :> loop) @@ @]
             /\ starts' = [starts EXCEPT ![p][s] =
                  IF st.n < Wanted(s)[st.i] THEN [@ EXCEPT !.at = "listen", !.n = st.n + 1]
                  ELSE IF st.i < Len(Opts(s).networks) /\ ~Opts(s).given
                       THEN [NotStarted EXCEPT !.at = "listen", !.i = st.i + 1]
                       ELSE [NotStarted EXCEPT !.at = "up"]]
     /\ UNCHANGED <<listens, sockets>>

-----------------------------------------------------------------------------
(* The end of a service, and a graceful restart.                           *)

\* The context of a service is done, or it is told to stop listening.
Done(p, s) ==
  /\ starts[p][s].at = "up" /\ s \notin processes[p].done /\ "close" \in listens.faults
  /\ processes' = [processes EXCEPT ![p].done = @ \cup {s}]
  /\ UNCHANGED <<listens, sockets, starts, loops>>

\* The watcher of serveStream closes the listener; packet sockets have no watcher.
CloseListener(p, l) ==
  /\ l[1] \in processes[p].done /\ loops[p][l].stream /\ loops[p][l].open
  /\ loops' = [loops EXCEPT ![p][l].open = FALSE]
  /\ UNCHANGED <<listens, sockets, processes, starts>>

\* getListenerFd, getPacketConnFd and getRawFd: a closed listener has no descriptor.
getRawFd(p, k) == \A l \in DOMAIN loops[p] : loops[p][l].socket = k => loops[p][l].open

\* GetListenersFds: in the order of a sync.Map, which is none.
GetListenersFds(p) == SetToSeqs({k \in processes[p].listeners : getRawFd(p, k)})

StartNewProcess(p) ==
  /\ p < Generations /\ \A s \in ServiceSet : starts[p + 1][s].at = "none"
  /\ \E s \in ServiceSet : starts[p][s].at = "up"
  /\ \E fds \in GetListenersFds(p) : processes' = [processes EXCEPT ![p + 1].passed = fds]
  /\ starts' = [starts EXCEPT ![p + 1] = [s \in ServiceSet |-> [NotStarted EXCEPT !.at = "listen"]]]
  /\ UNCHANGED <<listens, sockets, loops>>

-----------------------------------------------------------------------------
(* serveTCP                                                                *)

\* doTempDelay: it doubles from the first to the longest.
doTempDelay(d) ==
  LET longer == IF d = 0 THEN FirstDelay ELSE 2 * d IN IF longer > MaxDelay THEN MaxDelay ELSE longer

\* The error of a closed listener ends the loop, and so does any other that is not
\* temporary once the context is done; the loop closes its listener as it leaves.
AcceptEnds(p, l) ==
  /\ loops[p][l].stream /\ loops[p][l].at = "accept"
  /\ ~loops[p][l].open \/ ("accept" \in listens.faults /\ l[1] \in processes[p].done)
  /\ loops' = [loops EXCEPT ![p][l].at = "gone", ![p][l].open = FALSE]
  /\ UNCHANGED <<listens, sockets, processes, starts>>

\* A temporary error makes it pause, a connection resets the pause, another error of an
\* open listener is logged only.
Accept(p, l) ==
  /\ loops[p][l].stream /\ loops[p][l].at = "accept" /\ loops[p][l].open
  /\ \E d \in {0, doTempDelay(loops[p][l].delay), loops[p][l].delay} :
       /\ d # 0 => "accept" \in listens.faults
       /\ loops' = [loops EXCEPT ![p][l].delay = d]
  /\ UNCHANGED <<listens, sockets, processes, starts>>

-----------------------------------------------------------------------------
ListenerStep ==
  \E p \in 1..Generations :
    \/ \E s \in ServiceSet : Listen(p, s) \/ StorePassed(p, s) \/ Serve(p, s)
    \/ \E l \in DOMAIN loops[p] : CloseListener(p, l) \/ AcceptEnds(p, l)

ListenersNext ==
  \E p \in 1..Generations :
    \/ StartNewProcess(p)
    \/ \E s \in ServiceSet : Done(p, s)
    \/ \E l \in DOMAIN loops[p] : Accept(p, l)

-----------------------------------------------------------------------------
\* Every socket is served by one loop of a process, and it is bound to what the options of
\* the loop's service name: services that start concurrently never take over each
\* other's listeners.
ServedByOwner ==
  \A p \in 1..Generations : \A l \in DOMAIN loops[p] :
    /\ sockets[loops[p][l].socket] = Bound(Opts(l[1]).networks[l[2]], Opts(l[1]).address)
    /\ loops[p][l].socket \in processes[p].listeners
    /\ \A k \in DOMAIN loops[p] : loops[p][k].socket = loops[p][l].socket => k = l

\* A service whose options the parent could serve comes up in the child as well: it fails
\* only when the parent did not pass a socket for each that it needs (it was restarted
\* before it had them, or had closed them), or when it names the network or the address
\* otherwise than the kernel does.
ChildComesUp ==
  \A p \in 2..Generations : \A s \in ServiceSet :
    starts[p][s].at = "failed" =>
      LET network == Opts(s).networks[starts[p][s].i]
          key == <<network, Opts(s).address>>
      IN \/ ~Opts(s).framer \/ Opts(s).tls = "bad" \/ network \notin Stream \cup Packet
         \/ Bound(network, Opts(s).address) # key
         \/ Cardinality({j \in DOMAIN processes[p].passed : sockets[processes[p].passed[j]] = key})
              < Wanted(s)[starts[p][s].i]

\* A listener that is open is being accepted from, whatever errors Accept has returned:
\* the loop ends only with its service, and leaves no listener open behind it.
AcceptsWhileOpen ==
  \A p \in 1..Generations : \A l \in DOMAIN loops[p] :
    /\ loops[p][l].at = "gone" => ~loops[p][l].open
    /\ ~loops[p][l].open => l[1] \in processes[p].done
    /\ loops[p][l].delay <= MaxDelay

\* The stream listeners of a service that is done are closed and their loops end.
ListenersEnd ==
  \A p \in 1..Generations : \A l \in DOMAIN loops[p] :
    l[1] \in processes[p].done /\ loops[p][l].stream => loops[p][l].at = "gone"

-----------------------------------------------------------------------------
(* Package reuseport: a socket with SO_REUSEPORT is made from a descriptor *)
(* of its own, which os.NewFile and net.FileListener duplicate.  Other     *)
(* goroutines take descriptors at the same time; a file that is no longer  *)
(* referred to closes its descriptor by number when it is collected.       *)

CONSTANTS
  Binders,   \* calls of reuseport.Listen and ListenPacket at once: their kind, version (0: any), ip, zone
  Fds        \* bound: the descriptors of a process, 1..n

VARIABLES
  descriptors, \* a descriptor to who holds it
  binds,   \* how far a call is, its descriptor, its file's and its listener's
  stolen   \* holders whose descriptor another has closed

reuseVars == <<descriptors, binds, stolen>>

NoFd == 0
ReuseInit ==
  /\ descriptors = [k \in Fds |-> "free"] /\ stolen = {}
  /\ \E o \in Binders :
       binds = [b \in DOMAIN o |->
                  [opts |-> o[b], at |-> "new", fd |-> NoFd, file |-> NoFd, listener |-> NoFd, family |-> 0]]

\* determineTCPProto and determineUDPProto: the version of the address before the caller's.
determineProto(o) == CASE o.ip = "v4" -> 4 [] o.ip = "v6" -> 6 [] OTHER -> o.version

\* getSockaddr: an address of the other version does not resolve, a zone must exist, and neither
\* version nor address means IPv4.
getSockaddr(o) ==
  LET resolves == o.ip # "none" => o.version \in {0, determineProto(o)}
      family == IF determineProto(o) = 0 THEN 4 ELSE determineProto(o)
  IN IF o.kind \in {"tcp", "udp"} /\ resolves /\ (family = 6 => o.zone # "unknown") THEN family ELSE 0

Lowest(who) == CHOOSE k \in Fds : descriptors[k] = who /\ \A j \in Fds : descriptors[j] = who => k <= j
Full == \A k \in Fds : descriptors[k] # "free"

\* Closing by number, whoever holds it by now.
CloseFd(k, by) ==
  /\ descriptors' = [descriptors EXCEPT ![k] = "free"]
  /\ stolen' = IF descriptors[k] \in {by, "free"} THEN stolen ELSE stolen \cup {descriptors[k]}

\* NewReusablePortListener and NewReusablePortPacketConn, up to the descriptor.
Socket(b) ==
  LET family == getSockaddr(binds[b].opts) IN
  /\ binds[b].at = "new"
  /\ IF family = 0 \/ Full
     THEN binds' = [binds EXCEPT ![b].at = "failed"] /\ UNCHANGED descriptors
     ELSE /\ descriptors' = [descriptors EXCEPT ![Lowest("free")] = b]
          /\ binds' = [binds EXCEPT ![b].at = "options", ![b].fd = Lowest("free"), ![b].family = family]
  /\ UNCHANGED stolen

\* createReusableFd and setPacketConnSockOpt: an option, the bind or the listen may fail, and the
\* descriptor is closed.
createReusableFd(b) ==
  /\ binds[b].at = "options"
  /\ \/ binds' = [binds EXCEPT ![b].at = "file"] /\ UNCHANGED <<descriptors, stolen>>
     \/ binds' = [binds EXCEPT ![b].at = "failed"] /\ CloseFd(binds[b].fd, b)

\* createReusableListener and createPacketConn: the descriptor is duplicated, and its file closed.
\* Duplicating fails at the limit: then TCP closes the file, and UDP the descriptor, whose file is
\* left to the collector.
createListener(b) ==
  /\ binds[b].at = "file"
  /\ IF Full
     THEN /\ binds' = [binds EXCEPT ![b].at = "failed",
                                    ![b].file = IF binds[b].opts.kind = "udp" THEN binds[b].fd ELSE NoFd]
          /\ CloseFd(binds[b].fd, b)
     ELSE /\ binds' = [binds EXCEPT ![b].at = "close", ![b].listener = Lowest("free")]
          /\ descriptors' = [descriptors EXCEPT ![Lowest("free")] = b] /\ UNCHANGED stolen
closeFile(b) ==
  /\ binds[b].at = "close"
  /\ binds' = [binds EXCEPT ![b].at = "listening"]
  /\ CloseFd(binds[b].fd, b)
Collect(b) ==
  /\ binds[b].at = "failed" /\ binds[b].file # NoFd
  /\ binds' = [binds EXCEPT ![b].file = NoFd]
  /\ CloseFd(binds[b].file, b)

\* Another goroutine of the process opens a file and closes it.
OtherOpens == ~Full /\ descriptors' = [descriptors EXCEPT ![Lowest("free")] = "other"] /\ UNCHANGED <<binds, stolen>>
OtherCloses ==
  /\ \E k \in Fds : descriptors[k] = "other"
  /\ descriptors' = [descriptors EXCEPT ![Lowest("other")] = "free"] /\ UNCHANGED <<binds, stolen>>

ReuseNext ==
  \/ OtherOpens \/ OtherCloses
  \/ \E b \in DOMAIN binds : Socket(b) \/ createReusableFd(b) \/ createListener(b) \/ closeFile(b) \/ Collect(b)

-----------------------------------------------------------------------------
\* A call that failed leaves no descriptor open and one that succeeded leaves its listener's only,
\* of the version of its network and address; and nobody's descriptor is closed by another, unless
\* a duplicate failed for UDP (createReusableFd, createReusableListener, createPacketConn).
DescriptorsOwn ==
  /\ \A b \in DOMAIN binds :
       LET held == {k \in Fds : descriptors[k] = b}
           o == binds[b].opts
       IN stolen = {} =>
            /\ binds[b].at = "failed" => held = {}
            /\ binds[b].at = "listening" =>
                 /\ held = {binds[b].listener}
                 /\ o.version # 0 => binds[b].family = o.version
                 /\ o.ip # "none" => binds[b].family = determineProto(o)
  /\ stolen # {} => \E b \in DOMAIN binds : binds[b].opts.kind = "udp" /\ binds[b].at = "failed"
=============================================================================

--------------------------- MODULE TnetTransport ----------------------------
(***************************************************************************)
(* A unary call over the tnet transports (transport/tnet): the client's    *)
(* round trip on a connection of its own or of a pool, and the server,     *)
(* whose callbacks tnet's event loop runs, one at a time for a connection. *)
(* The service's Handle is reduced to its outcomes.  tnet itself is        *)
(* external: a Write is whole or fails, a connection is opened before its  *)
(* first request and its closing is reported once.  The multiplexed pool   *)
(* is in Tnet.  BootNext is ListenAndServe.                                *)
(***************************************************************************)
EXTENDS Integers, FiniteSets, Sequences

CONSTANTS Calls, Conns,
          TnetPlans,   \* the options of the calls, of the pool and of the server
          Boots        \* the options of ListenAndServe and what fails in it

VARIABLES plan,   \* the options in use
          call,   \* call -> state of the client
          conn,   \* connection -> state of both ends
          job     \* call -> state of its request at the server

tnetTripVars == <<plan, call, conn, job>>

NoCall == "none"
NewCall == [st |-> "start", conn |-> NoCall, err |-> "", late |-> FALSE, canceled |-> FALSE]
NewConn == [client |-> "none", user |-> NoCall, deadline |-> NoCall, up |-> <<>>, down |-> <<>>,
            server |-> "none", buffer |-> NoCall, loop |-> NoCall, listed |-> FALSE, told |-> 0, pushed |-> "none"]
NewJob == [st |-> "none", conn |-> NoCall, saw |-> NoCall, answers |-> 0]

TripInit ==
  /\ plan \in TnetPlans
  /\ call = [c \in Calls |-> NewCall]
  /\ conn = [k \in Conns |-> NewConn]
  /\ job = [c \in Calls |-> NewJob]

Options(c) == plan.calls[c]

-----------------------------------------------------------------------------
(* The client                                                              *)

ContextEnds(c) ==
  /\ call[c].st # "returned" /\ ~call[c].late /\ ~call[c].canceled
  /\ \/ Options(c).deadline /\ call' = [call EXCEPT ![c].late = TRUE]
     \/ Options(c).cancel /\ call' = [call EXCEPT ![c].canceled = TRUE]
  /\ UNCHANGED <<plan, conn, job>>

ContextDone(c) == call[c].canceled \/ call[c].late
\* checkContextErr.
checkContextErr(c) == IF call[c].canceled THEN "Canceled" ELSE "Timeout"
Returned(c, err) == [call EXCEPT ![c] = [@ EXCEPT !.st = "returned", !.err = err]]

\* Close: back to the pool without its deadline, or closed for good when an operation on it failed
\* or it is not pooled.
CloseConn(k, failed) ==
  [conn EXCEPT ![k] = [@ EXCEPT !.client = IF failed \/ ~plan.pooled THEN "closed" ELSE "idle",
                                !.user = NoCall, !.deadline = NoCall]]

\* HealthChecker: only whether the connection is active, not whether something was left to read.
HealthChecker(k) == conn[k].server \notin {"closed", "over"}
Idle == {k \in Conns : conn[k].client = "idle"}

\* dialTCP: the read deadline is set to the context's, or to none.  A pool that dials other
\* connections than tnet's is of no use, and what it gave stays out of it.
dialTCP(c) ==
  LET checked == [k \in Conns |-> IF k \in Idle /\ ~HealthChecker(k) THEN [conn[k] EXCEPT !.client = "closed"] ELSE conn[k]]
      usable == {k \in Idle : HealthChecker(k)}
      Got(k) == [checked[k] EXCEPT !.client = "used", !.user = c, !.deadline = IF Options(c).deadline THEN c ELSE NoCall]
      Takes(k, r) == conn' = [checked EXCEPT ![k] = r] /\ call' = [call EXCEPT ![c].st = "dialed", ![c].conn = k]
  IN /\ call[c].st = "start"
     /\ IF ContextDone(c) THEN call' = Returned(c, checkContextErr(c)) /\ UNCHANGED conn
        ELSE \/ \E k \in usable : Takes(k, Got(k))
             \/ \E k \in Conns :
                  /\ usable = {} /\ conn[k].client = "none"
                  /\ IF plan.gonetPool
                     THEN /\ conn' = [checked EXCEPT ![k] = [@ EXCEPT !.client = "lost", !.server = "opening"]]
                          /\ call' = Returned(c, "ConnectFail")
                     ELSE Takes(k, [Got(k) EXCEPT !.server = "opening"])
             \/ usable = {} /\ conn' = checked /\ call' = Returned(c, "ConnectFail")
     /\ UNCHANGED <<plan, job>>

\* tcpRoundTrip up to tcpWriteFrame: the context is looked at once more, before the write only.
tcpWriteFrame(c) ==
  LET k == call[c].conn
      gone == conn[k].server \in {"closed", "over"}
      Sent(conns) == [conns EXCEPT ![k].up = IF gone THEN @ ELSE Append(@, c)]
  IN /\ call[c].st = "dialed"
     /\ IF ContextDone(c) THEN call' = Returned(c, checkContextErr(c)) /\ conn' = CloseConn(k, FALSE)
        ELSE \/ /\ IF Options(c).sendOnly
                   THEN conn' = Sent(CloseConn(k, FALSE)) /\ call' = Returned(c, "")
                   ELSE conn' = Sent(conn) /\ call' = [call EXCEPT ![c].st = "reading"]
             \/ gone /\ call' = Returned(c, "NetErr") /\ conn' = CloseConn(k, TRUE)
     /\ UNCHANGED <<plan, job>>

\* tcpReadFrame: a frame, the connection's deadline, or its end; decoding compares the request's number.
tcpReadFrame(c) ==
  LET k == call[c].conn
      answer == Head(conn[k].down)
  IN /\ call[c].st = "reading"
     /\ \/ /\ conn[k].down # <<>>
           /\ call' = Returned(c, IF answer.of = c THEN answer.err ELSE "DecodeFail")
           /\ conn' = [CloseConn(k, FALSE) EXCEPT ![k].down = Tail(@)]
        \/ /\ conn[k].deadline # NoCall /\ call[conn[k].deadline].late
           /\ call' = Returned(c, "Timeout") /\ conn' = CloseConn(k, TRUE)
        \/ /\ conn[k].down = <<>> /\ conn[k].server \in {"closed", "over"}
           /\ call' = Returned(c, "NetErr") /\ conn' = CloseConn(k, TRUE)
     /\ UNCHANGED <<plan, job>>

-----------------------------------------------------------------------------
(* The server                                                              *)

onConnOpened(k) ==
  /\ conn[k].server = "opening"
  /\ conn' = [conn EXCEPT ![k].server = "open", ![k].listed = TRUE]
  /\ UNCHANGED <<plan, call, job>>

\* frame.ShouldCopy, with the framer's and the service's options.
copyFrame == ~plan.safe /\ (plan.async \/ plan.copyOption)

\* onRequest up to handleSync or Invoke: a framer that is not safe reads into its own buffer.
onRequest(k) ==
  LET c == Head(conn[k].up) IN
  /\ conn[k].server = "open" /\ conn[k].loop = NoCall /\ conn[k].up # <<>>
  /\ conn' = [conn EXCEPT ![k].up = Tail(@), ![k].buffer = c, ![k].loop = c]
  /\ job' = [job EXCEPT ![c].st = IF plan.async THEN "invoke" ELSE "running", ![c].conn = k]
  /\ UNCHANGED <<plan, call>>

\* pool.Invoke waits for a goroutine of the pool, and the event loop with it.
Working == {c \in Calls : job[c].st = "running"}
Invoke(c) ==
  /\ job[c].st = "invoke" /\ Cardinality(Working) < plan.routines
  /\ job' = [job EXCEPT ![c].st = "running"]
  /\ conn' = [conn EXCEPT ![job[c].conn].loop = NoCall]
  /\ UNCHANGED <<plan, call>>

\* tcpConn.close, or the peer's.
Closed(k) == [conn[k] EXCEPT !.server = IF @ = "open" THEN "closed" ELSE @, !.up = <<>>]
Resumed(c, r) == [r EXCEPT !.loop = IF @ = c THEN NoCall ELSE @]

\* handleWithErr: the handler has read its request by now.  Its answer is written, or none is
\* wanted, or it or the write failed and the connection is closed.
handleWithErr(c) ==
  LET k == job[c].conn
      saw == IF plan.safe \/ copyFrame THEN c ELSE conn[k].buffer
      Done(n) == [job EXCEPT ![c] = [@ EXCEPT !.st = "done", !.saw = saw, !.answers = @ + n]]
      open == conn[k].server = "open"
  IN /\ job[c].st = "running"
     /\ \/ /\ open
           /\ \E e \in {"", "Business"} :
                /\ Options(c).sendOnly => e # ""
                /\ conn' = [conn EXCEPT ![k] = Resumed(c, [@ EXCEPT !.down = Append(@, [of |-> saw, err |-> e])])]
           /\ job' = Done(1)
        \/ /\ Options(c).sendOnly \/ Options(c).deadline
           /\ conn' = [conn EXCEPT ![k] = Resumed(c, @)] /\ job' = Done(0)
        \/ /\ ~open \/ conn[k].client = "closed" \/ plan.fails
           /\ conn' = [conn EXCEPT ![k] = Resumed(c, Closed(k))] /\ job' = Done(0)
     /\ UNCHANGED <<plan, call>>

\* onRequest's ReadFrame fails once the peer has closed, or tnet finds the connection idle too long.
PeerCloses(k) ==
  /\ conn[k].server = "open" /\ conn[k].loop = NoCall
  /\ \/ conn[k].client = "closed" /\ conn[k].up = <<>>
     \/ plan.idles /\ conn[k].client = "idle"
  /\ conn' = [conn EXCEPT ![k] = Closed(k)]
  /\ UNCHANGED <<plan, call, job>>

\* onConnClosed: the handler is told, then the connection is no longer found.
onConnClosed(k) ==
  /\ conn[k].server = "closed"
  /\ conn' = [conn EXCEPT ![k].server = "over", ![k].told = @ + 1, ![k].listed = FALSE]
  /\ UNCHANGED <<plan, call, job>>

\* Send, of a stream's handler: a write that fails closes the connection and forgets it.
Send(k) ==
  /\ plan.streams /\ conn[k].pushed = "none" /\ conn[k].server \notin {"none", "opening"}
  /\ \E outcome \in {"missing", "sent", "failed"} :
       /\ outcome = "missing" <=> ~conn[k].listed
       /\ outcome = "sent" => conn[k].server = "open"
       /\ outcome = "failed" => conn[k].server # "open" \/ conn[k].client = "closed"
       /\ conn' = [conn EXCEPT ![k] =
            [(IF outcome = "failed" THEN [Closed(k) EXCEPT !.listed = FALSE] ELSE @) EXCEPT !.pushed = outcome]]
  /\ UNCHANGED <<plan, call, job>>

TripNext ==
  \/ \E c \in Calls : ContextEnds(c) \/ dialTCP(c) \/ tcpWriteFrame(c) \/ tcpReadFrame(c) \/ Invoke(c) \/ handleWithErr(c)
  \/ \E k \in Conns : onConnOpened(k) \/ onRequest(k) \/ PeerCloses(k) \/ onConnClosed(k) \/ Send(k)

-----------------------------------------------------------------------------
(* ListenAndServe: the networks of a service one after the other, and the  *)
(* default transport for the first that tnet does not serve.               *)

VARIABLES boot

\* A network to what became of its listener: "none", or who accepts from it, or "idle" when nobody does.
BootInit == \E b \in Boots : boot = [opts |-> b, i |-> 1, st |-> "listen", open |-> [i \in DOMAIN b.networks |-> "none"], watched |-> {}]

TCP == {"tcp", "tcp4"}
Network == boot.opts.networks[boot.i]

\* getTCPListener, then SaveListener; a listener of the options is as good as listened to.
listenAndServeTCP ==
  /\ boot.st = "listen" /\ Network \in TCP
  /\ \/ boot' = [boot EXCEPT !.st = "start", !.open[boot.i] = "idle"]
     \/ ~boot.opts.given /\ boot' = [boot EXCEPT !.st = "default"]
UnsupportedNetwork ==
  /\ boot.st = "listen" /\ Network \notin TCP
  /\ boot' = [boot EXCEPT !.st = "default"]

Started == [boot EXCEPT !.open[boot.i] = "tnet", !.i = IF @ = Len(boot.opts.networks) THEN @ ELSE @ + 1,
                        !.st = IF boot.i = Len(boot.opts.networks) THEN "ok" ELSE "listen"]
\* NewTCPService refuses a listener of a kind it does not know; its listener is watched before that.
startService ==
  /\ boot.st = "start" /\ boot.opts.tls = "none"
  /\ boot' = LET next == IF boot.opts.given /\ boot.opts.foreign THEN [boot EXCEPT !.st = "default"] ELSE Started
             IN [next EXCEPT !.watched = @ \cup {boot.i}]
\* With TLS nobody watches StopListening.
startTLSService ==
  /\ boot.st = "start" /\ boot.opts.tls # "none"
  /\ boot' = IF boot.opts.tls = "bad" \/ (boot.opts.given /\ boot.opts.foreign) THEN [boot EXCEPT !.st = "default"] ELSE Started

\* The default transport listens on this network, with the same options, or fails.
ListenAndServe ==
  /\ boot.st = "default"
  /\ \/ boot' = [boot EXCEPT !.st = "error"]
     \/ /\ boot.opts.tls # "bad"
        /\ boot' = [boot EXCEPT !.st = "ok", !.open[boot.i] = "gonet"]

BootNext == listenAndServeTCP \/ UnsupportedNetwork \/ startService \/ startTLSService \/ ListenAndServe

-----------------------------------------------------------------------------
(* A handler reads the request that was sent, even when the event loop has *)
(* read the next one into the framer's buffer meanwhile, and answers it at *)
(* most once; one is left unanswered on an open connection only if none    *)
(* was wanted or its time was over (onRequest, handleWithErr).             *)
HandledAsSent ==
  \A c \in Calls :
    /\ job[c].st = "done" => job[c].saw = c
    /\ job[c].answers <= 1
    /\ job[c].st = "done" /\ job[c].answers = 0 /\ conn[job[c].conn].server = "open"
         => Options(c).sendOnly \/ Options(c).deadline

(* A call returns its own result only, and meets another's answer only when *)
(* that call wanted none: HealthChecker does not see that something was     *)
(* left on a connection.  Without a deadline of its own it never times out. *)
OwnAnswers ==
  \A c \in Calls :
    /\ call[c].st = "returned" /\ call[c].err = "" /\ ~Options(c).sendOnly => job[c].answers = 1
    /\ call[c].err = "DecodeFail" => \E d \in Calls : Options(d).sendOnly /\ job[d].answers = 1
    /\ call[c].err = "Timeout" => Options(c).deadline

(* A connection is found by Send while it is open and never after it was   *)
(* reported closed, which its handler is told once; the client keeps none  *)
(* that nobody uses, unless the pool was not tnet's (onConnOpened,         *)
(* onConnClosed, serverTransport.Send and dialTCP).                        *)
ConnsAccounted ==
  \A k \in Conns :
    /\ conn[k].listed => conn[k].server \in {"open", "closed"}
    /\ conn[k].server = "open" => conn[k].listed
    /\ conn[k].told = (IF conn[k].server = "over" THEN 1 ELSE 0)
    /\ conn[k].client = "lost" => plan.gonetPool
    /\ conn[k].client = "used" <=> \E c \in Calls : conn[k].user = c /\ call[c].conn = k /\ call[c].st \in {"dialed", "reading"}

(* When ListenAndServe has returned no error, every listener it opened is  *)
(* accepted from, by one transport; and all networks are served unless one *)
(* that tnet does not serve came before the last (ListenAndServe).         *)
OpenIsServed ==
  boot.st = "ok" =>
    /\ \A i \in DOMAIN boot.open : boot.open[i] # "idle"
    /\ \A i \in 1..boot.i : boot.open[i] # "none"
    /\ boot.opts.networks[boot.i] \in TCP /\ boot.open[boot.i] = "tnet" => boot.i = Len(boot.opts.networks)
=============================================================================

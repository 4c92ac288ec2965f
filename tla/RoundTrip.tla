----------------------------- MODULE RoundTrip ------------------------------
(***************************************************************************)
(* A unary call over TCP from end to end: the client transport's round     *)
(* trip on a pooled (or unpooled) connection, the server transport's       *)
(* connection loop with its goroutine pool, and the service's Handle.      *)
(* Codec, selector and filters are reduced to their outcomes; the pool is  *)
(* reduced to what Get and Close promise (module ConnPool has its          *)
(* bookkeeping).  IdleNext is the idle timeout of one server connection.   *)
(***************************************************************************)
EXTENDS Integers, FiniteSets, Sequences

CONSTANTS Calls, Conns,
          Plans,        \* the kinds of run: call -> its options, and the options of the server
          Refresh,      \* ticks between two updates of a connection's read deadline (5 s)
          IdleTimeouts, MaxIdleClock

VARIABLES plan,       \* the options in use
          call,       \* call -> state of the client
          conn,       \* connection -> state of both ends
          job,        \* call -> state of its request at the server
          shutdown    \* the context of the service is cancelled

roundTripVars == <<plan, call, conn, job, shutdown>>

NoCall == "none"
NewCall == [st |-> "start", conn |-> NoCall, err |-> "", late |-> FALSE, canceled |-> FALSE]
NewConn == [client |-> "none", user |-> NoCall, deadline |-> NoCall, up |-> <<>>, down |-> <<>>,
            server |-> "none", serving |-> NoCall, after |-> 0]
NewJob == [st |-> "none", conn |-> NoCall, err |-> "", token |-> 0, message |-> 0, answers |-> 0]

Init ==
    /\ plan \in Plans
    /\ call = [c \in Calls |-> NewCall]
    /\ conn = [k \in Conns |-> NewConn]
    /\ job = [c \in Calls |-> NewJob]
    /\ shutdown = FALSE

Options(c) == plan.calls[c]

-----------------------------------------------------------------------------
(* The client                                                               *)

\* The context of a call: its deadline passes, or the caller cancels it.
ContextEnds(c) ==
    /\ call[c].st # "returned"
    /\ \/ Options(c).deadline /\ ~call[c].late /\ call' = [call EXCEPT ![c].late = TRUE]
       \/ Options(c).cancel /\ ~call[c].canceled /\ ~call[c].late /\ call' = [call EXCEPT ![c].canceled = TRUE]
    /\ UNCHANGED <<plan, conn, job, shutdown>>

ContextErr(c) == IF call[c].canceled THEN "Canceled" ELSE "Timeout"
ContextDone(c) == call[c].canceled \/ call[c].late

Returned(c, err) == [call EXCEPT ![c] = [@ EXCEPT !.st = "returned", !.err = err]]

CloseConn(k, failed) ==
    [conn EXCEPT ![k] = [@ EXCEPT !.client = IF failed \/ ~plan.pooled THEN "closed" ELSE "idle",
                                  !.user = NoCall, !.deadline = NoCall]]

\* Get discards the idle connections the peer has closed or has written to.
Stale(k) == conn[k].server = "closed" \/ conn[k].down # <<>>
Idle == {k \in Conns : conn[k].client = "idle"}

dialTCP(c) ==
    LET checked == [k \in Conns |-> IF k \in Idle /\ Stale(k) THEN [conn[k] EXCEPT !.client = "closed"] ELSE conn[k]]
        usable == {k \in Idle : ~Stale(k)}
        got(k) == [checked[k] EXCEPT !.client = "used", !.user = c, !.deadline = IF Options(c).deadline THEN c ELSE @]
    IN  /\ call[c].st = "start"
        /\ \/ /\ ContextDone(c)
              /\ call' = Returned(c, ContextErr(c))
              /\ UNCHANGED conn
           \/ /\ ~ContextDone(c)
              /\ \/ \E k \in usable :
                        /\ conn' = [checked EXCEPT ![k] = got(k)]
                        /\ call' = [call EXCEPT ![c].st = "dialed", ![c].conn = k]
                 \/ \E k \in Conns :
                        /\ usable = {} /\ ~shutdown /\ conn[k].client = "none"
                        /\ conn' = [checked EXCEPT ![k] = [got(k) EXCEPT !.server = "check"]]
                        /\ call' = [call EXCEPT ![c].st = "dialed", ![c].conn = k]
                 \/ /\ usable = {} /\ conn' = checked
                    /\ call' = Returned(c, "ConnectFail")
        /\ UNCHANGED <<plan, job, shutdown>>

\* The checks of the context after the dial and before the write.
finishDialTCP(c) ==
    /\ call[c].st = "dialed" /\ ContextDone(c)
    /\ call' = Returned(c, ContextErr(c))
    /\ conn' = CloseConn(call[c].conn, FALSE)
    /\ UNCHANGED <<plan, job, shutdown>>

Expired(k) == conn[k].deadline # NoCall /\ call[conn[k].deadline].late

tcpWriteFrame(c) ==
    LET k == call[c].conn IN
    /\ call[c].st = "dialed" /\ ~ContextDone(c)
    /\ \/ /\ conn' = [CloseConn(k, FALSE) EXCEPT ![k].up = IF conn[k].server = "closed" THEN @ ELSE Append(@, c)]
          /\ call' = Returned(c, "")
          /\ Options(c).sendOnly
       \/ /\ conn' = [conn EXCEPT ![k].up = IF conn[k].server = "closed" THEN @ ELSE Append(@, c)]
          /\ call' = [call EXCEPT ![c].st = "reading"]
          /\ ~Options(c).sendOnly
       \/ /\ conn[k].server = "closed"
          /\ call' = Returned(c, "NetErr") /\ conn' = CloseConn(k, TRUE)
    /\ UNCHANGED <<plan, job, shutdown>>

\* A frame is there, the deadline of the connection passes, or the server has closed it.  Decode
\* compares the request's number.
tcpReadFrame(c) ==
    LET k == call[c].conn
        answer == Head(conn[k].down)
    IN  /\ call[c].st = "reading"
        /\ \/ /\ conn[k].down # <<>>
              /\ call' = Returned(c, IF answer.of = c THEN answer.err ELSE "DecodeFail")
              /\ conn' = [CloseConn(k, FALSE) EXCEPT ![k].down = Tail(@)]
           \/ /\ Expired(k)
              /\ call' = Returned(c, "Timeout") /\ conn' = CloseConn(k, TRUE)
           \/ /\ conn[k].down = <<>> /\ conn[k].server = "closed"
              /\ call' = Returned(c, "ReadFrameErr") /\ conn' = CloseConn(k, TRUE)
        /\ UNCHANGED <<plan, job, shutdown>>

-----------------------------------------------------------------------------
(* The server                                                               *)

CloseService ==
    /\ plan.mayClose /\ ~shutdown
    /\ shutdown' = TRUE
    /\ UNCHANGED <<plan, call, conn, job>>

\* tcpconn.close: what the peer has not been sent is lost, what it sent is never read.
close(k) == [conn EXCEPT ![k] = [@ EXCEPT !.server = "closed", !.up = <<>>]]

\* The head of the loop: the context is looked at before the read, not during it.
serveCheck(k) ==
    /\ conn[k].server = "check"
    /\ conn' = IF shutdown THEN close(k) ELSE [conn EXCEPT ![k].server = "reading"]
    /\ UNCHANGED <<plan, call, job, shutdown>>

Running == {c \in Calls : job[c].st # "none" /\ job[c].st # "done"}
Start(c, k, err) == [job EXCEPT ![c] = [@ EXCEPT !.st = "received", !.conn = k, !.err = err, !.message = 1]]

\* A request is read and handled in the loop, handed to the goroutine pool, or, when the pool
\* refuses it, handled in the loop with an error.  A closed connection ends the loop.
serve(k) ==
    /\ conn[k].server = "reading"
    /\ \/ /\ conn[k].up # <<>>
          /\ LET c == Head(conn[k].up)
                 full == Cardinality(Running) >= plan.routines
                 read == [conn[k] EXCEPT !.up = Tail(@), !.after = IF shutdown THEN @ + 1 ELSE @]
             IN  \/ /\ ~plan.async \/ full
                    /\ job' = Start(c, k, IF plan.async THEN "Overload" ELSE "")
                    /\ conn' = [conn EXCEPT ![k] = [read EXCEPT !.server = "busy", !.serving = c]]
                 \/ /\ plan.async /\ ~full
                    /\ job' = Start(c, k, "")
                    /\ conn' = [conn EXCEPT ![k] = [read EXCEPT !.server = "check"]]
       \/ /\ conn[k].up = <<>> /\ conn[k].client = "closed"
          /\ conn' = close(k)
          /\ UNCHANGED job
    /\ UNCHANGED <<plan, call, shutdown>>

\* The request is done with: its message goes back and the loop, when it waited, goes on.
Done(c, record) == [job EXCEPT ![c] = [record EXCEPT !.st = "done", !.message = @ - 1]]
Resume(conns, c) ==
    LET k == job[c].conn IN
    [conns EXCEPT ![k] = [@ EXCEPT !.serving = IF @ = c THEN NoCall ELSE @,
                                   !.server = IF @ = "busy" /\ conns[k].serving = c THEN "check" ELSE @]]

\* Handle up to the handler: the head is decoded, an error the transport found is answered, the
\* overload controller is asked.
Handle(c) ==
    /\ job[c].st = "received"
    /\ \/ job' = [job EXCEPT ![c].st = "encode", ![c].err = IF @ = "" THEN "DecodeFail" ELSE @]
       \/ job[c].err = "" /\ job' = [job EXCEPT ![c].st = "encode", ![c].err = "Overload"]
       \/ job[c].err = "" /\ job' = [job EXCEPT ![c].st = "handling", ![c].token = 1]
    /\ UNCHANGED <<plan, call, conn, shutdown>>

\* The handler returns: a result, an error, or no answer (a full-link time-out, or a call that
\* wants none).
handle(c) ==
    /\ job[c].st = "handling"
    /\ \/ /\ ~Options(c).sendOnly
          /\ job' = [job EXCEPT ![c].st = "encode", ![c].err = ""] /\ UNCHANGED conn
       \/ job' = [job EXCEPT ![c].st = "encode", ![c].err = "Business"] /\ UNCHANGED conn
       \/ /\ Options(c).sendOnly \/ Options(c).deadline
          /\ job' = Done(c, [job[c] EXCEPT !.token = 0, !.err = "NoResponse"])
          /\ conn' = Resume(conn, c)
    /\ UNCHANGED <<plan, call, shutdown>>

\* The answer is encoded and written, or the connection is closed: the codec failed, or the
\* connection was closed meanwhile.
handleSyncWithErrAndContext(c) ==
    LET k == job[c].conn
        closed == conn[k].server = "closed" \/ conn[k].client = "closed"
    IN  /\ job[c].st = "encode"
        /\ \/ /\ ~closed
              /\ job' = Done(c, [job[c] EXCEPT !.token = 0, !.answers = @ + 1])
              /\ conn' = Resume([conn EXCEPT ![k].down = Append(@, [of |-> c, err |-> job[c].err])], c)
           \/ /\ closed \/ plan.encodeFails
              /\ job' = Done(c, [job[c] EXCEPT !.token = 0, !.err = "Closed"])
              /\ conn' = Resume(close(k), c)
        /\ UNCHANGED <<plan, call, shutdown>>

RoundTripNext ==
    \/ \E c \in Calls : \/ ContextEnds(c) \/ dialTCP(c) \/ finishDialTCP(c) \/ tcpWriteFrame(c) \/ tcpReadFrame(c)
                        \/ Handle(c) \/ handle(c) \/ handleSyncWithErrAndContext(c)
    \/ \E k \in Conns : serveCheck(k) \/ serve(k)
    \/ CloseService

Spec == Init /\ [][RoundTripNext]_roundTripVars

-----------------------------------------------------------------------------
(* The idle timeout of a server connection                                  *)

VARIABLES idle

IdleInit ==
    \E t \in IdleTimeouts :
        idle = [timeout |-> t, clock |-> Refresh + 1, visited |-> 0, deadline |-> 0,
                frame |-> Refresh + 1, st |-> "check"]

\* The deadline is moved only when the last move is old enough: moving it is expensive.
VisitedLongAgo == idle.clock - idle.visited > Refresh

SetReadDeadline ==
    /\ idle.st = "check"
    /\ idle' = [idle EXCEPT !.st = "reading",
                            !.visited = IF VisitedLongAgo THEN idle.clock ELSE @,
                            !.deadline = IF VisitedLongAgo THEN idle.clock + idle.timeout ELSE @]

ReadFrame ==
    /\ idle.st = "reading"
    /\ \/ idle.clock < idle.deadline /\ idle' = [idle EXCEPT !.st = "check", !.frame = idle.clock]
       \/ idle.clock >= idle.deadline /\ idle' = [idle EXCEPT !.st = "closed"]

IdleTick ==
    /\ idle.clock < MaxIdleClock
    /\ idle.st = "reading" => idle.clock < idle.deadline
    /\ idle' = [idle EXCEPT !.clock = @ + 1]

IdleNext == SetReadDeadline \/ ReadFrame \/ IdleTick

-----------------------------------------------------------------------------
(* The server answers a request at most once, answers none it was told not *)
(* to unless it failed, and leaves one unanswered on an open connection    *)
(* only then; the overload controller's token and the message of a request *)
(* are given back exactly when it is done (service.Handle,                 *)
(* tcpconn.handleSyncWithErrAndContext).                                   *)
AnsweredOnce ==
    \A c \in Calls :
        /\ job[c].answers <= 1
        /\ job[c].st = "done" => /\ job[c].token = 0 /\ job[c].message = 0
                                 /\ job[c].answers = 0 /\ conn[job[c].conn].server # "closed"
                                        => Options(c).sendOnly \/ Options(c).deadline
        /\ job[c].token = 1 => job[c].st \in {"handling", "encode"}

(* A call never returns another call's result, and meets another call's    *)
(* answer only when that one asked for none and was answered with an       *)
(* error: the answers of calls that gave up are never left on a connection *)
(* that is used again (tcpReadFrame, PoolConn.Close and Get).              *)
OthersAnswersNeverRead ==
    \A c \in Calls :
        /\ call[c].st = "returned" /\ call[c].err = "" /\ ~Options(c).sendOnly => job[c].answers = 1
        /\ call[c].err = "DecodeFail" /\ job[c].err # "DecodeFail"
               => \E d \in Calls : Options(d).sendOnly /\ job[d].answers = 1

(* A call without a deadline does not time out, whatever deadline the last *)
(* user of its connection had set on it (finishDialTCP sets one only when  *)
(* it has one, PoolConn.reset takes it away).                              *)
NoDeadlineNoTimeout ==
    \A c \in Calls : ~Options(c).deadline => call[c].err # "Timeout"

(* After the service is closed a connection accepts at most one request    *)
(* more: the one its loop was already waiting for (tcpconn.serve).         *)
LastRequestAfterClose == \A k \in Conns : conn[k].after <= 1

(* A connection is closed for idleness only when no request came for the   *)
(* idle timeout less the five seconds its deadline may lag (tcpconn.serve).*)
IdleClosesOnlyIdle ==
    idle.st = "closed" => idle.clock - idle.frame >= idle.timeout - Refresh
=============================================================================

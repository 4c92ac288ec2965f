------------------------------- MODULE Stream -------------------------------
(***************************************************************************)
(* Streaming RPC over one connection, end to end: stream/client.go with    *)
(* client/stream.go and transport/client_transport_stream.go on one side,  *)
(* stream/server.go with codec_stream.go, service.Handle and the tcpconn   *)
(* of the server transport on the other.                                   *)
(*                                                                         *)
(* Client goroutines of a stream: the caller of NewStream, dispatch, the   *)
(* monitor of the context, and the application's receiver and sender.      *)
(* Server goroutines: the reader of the connection, which handles every    *)
(* frame itself (WithServerAsync(false)), and one handler per stream.      *)
(* Messages are numbers, in the order they are sent.  Whether a message    *)
(* makes feedback due is a free choice, and so is whether GetWindow fails  *)
(* once it may: windows are the subject of FlowControl.                    *)
(***************************************************************************)
EXTENDS Naturals, Sequences, FiniteSets

CONSTANTS Streams,    \* stream ids, unique in a client
          MaxMsgs,    \* bound: messages sent per stream and direction
          FaultSets   \* the sets of kinds of faults ("break", "cancel", "misuse") that a behaviour may meet

VARIABLES
  ipc, dpc, mpc, rpc, spc,   \* invoke, dispatch, monitor, receiver and sender, per stream
  entry,                     \* streamIDToConn
  vconns, cancelled, inq,    \* virtual connections: registered, cancelled, frames to read
  recvQueue, closed, ctxDone,
  held, got,                 \* message in the receiver's hands; what RecvMsg returned
  sent,                      \* messages SendMsg accepted
  c2s, s2c,                  \* frames under way
  broken,                    \* the connection is broken: "no", "yes", and "seen" once a
                             \* write of the server has failed, after which all fail
  conn,                      \* tcpconn.close: "open", "closing", "notified", "closed"
  at, frame,                 \* the server's reader and the frame it handles
  initMetas, serverStreams,  \* of the codec; of the dispatcher
  done, hq, hpc, hgot, hsent, hret,  \* serverStream and its handler
  faults                     \* what may happen: the connection may break, contexts may
                             \* end, SendMsg may be given what does not marshal

clientVars == <<ipc, dpc, mpc, rpc, spc, entry, vconns, cancelled, inq,
                recvQueue, closed, ctxDone, held, got, sent>>
netVars == <<c2s, s2c, broken>>
readerVars == <<conn, at, frame, initMetas, serverStreams>>
handlerVars == <<done, hq, hpc, hgot, hsent, hret>>
vars == <<clientVars, netVars, readerVars, handlerVars, faults>>

F(s, t, n) == [s |-> s, t |-> t, n |-> n]
Types == {"INIT", "DATA", "CLOSE", "RESET", "FEEDBACK"}
Frame == [s : Streams, t : Types, n : 0..MaxMsgs]
EOF == MaxMsgs + 1
Err == MaxMsgs + 2
None == 0
NoFrame == F(None, "none", None)

\* The program counters and the counters are in range, and queues and results
\* are of messages, EOF and errors.
TypeOK ==
  /\ ipc \in [Streams -> {"new", "init", "recv", "up", "failed"}]
  /\ dpc \in [Streams -> {"off", "get", "read", "closeT", "closeF", "end"}]
  /\ mpc \in [Streams -> {"off", "wait", "closeF", "end"}]
  /\ rpc \in [Streams -> {"idle", "feedback", "recheck", "over"}]
  /\ spc \in [Streams -> {"open", "shut"}]
  /\ entry \subseteq Streams /\ vconns \subseteq Streams /\ cancelled \subseteq Streams
  /\ closed \subseteq Streams /\ ctxDone \subseteq Streams
  /\ initMetas \subseteq Streams /\ serverStreams \subseteq Streams /\ done \subseteq Streams
  /\ held \in [Streams -> 0..MaxMsgs] /\ sent \in [Streams -> 0..MaxMsgs]
  /\ hsent \in [Streams -> 0..MaxMsgs]
  /\ \A s \in Streams :
       /\ inq[s] \in Seq(Frame)
       /\ {recvQueue[s], hq[s], got[s], hgot[s]} \subseteq Seq(1..Err)
  /\ c2s \in Seq(Frame) /\ s2c \in Seq(Frame) /\ broken \in {"no", "yes", "seen"}
  /\ conn \in {"open", "closing", "notified", "closed"}
  /\ frame \in Frame \cup {NoFrame}
  /\ at \in {"read", "handle", "store", "accept", "reset", "wait", "end"}
  /\ hpc \in [Streams -> {"off", "run", "wait", "close", "last", "cleanup", "end"}]
  /\ hret \in [Streams -> {"none", "ok", "err"}] /\ faults \in FaultSets

Init ==
  /\ ipc = [s \in Streams |-> "new"] /\ dpc = [s \in Streams |-> "off"] /\ mpc = dpc
  /\ rpc = [s \in Streams |-> "idle"] /\ spc = [s \in Streams |-> "open"]
  /\ entry = {} /\ vconns = {} /\ cancelled = {} /\ closed = {} /\ ctxDone = {}
  /\ inq = [s \in Streams |-> <<>>] /\ recvQueue = inq /\ got = inq
  /\ held = [s \in Streams |-> None] /\ sent = [s \in Streams |-> 0]
  /\ c2s = <<>> /\ s2c = <<>> /\ broken = "no"
  /\ conn = "open" /\ at = "read" /\ frame = NoFrame
  /\ initMetas = {} /\ serverStreams = {} /\ done = {}
  /\ hq = inq /\ hpc = dpc /\ hgot = inq /\ hsent = sent
  /\ hret = [s \in Streams |-> "none"] /\ faults \in FaultSets

Set(f, s, v) == [f EXCEPT ![s] = v]
Put(q, s, v) == [q EXCEPT ![s] = Append(@, v)]
-----------------------------------------------------------------------------
(* The client's transport and its virtual connections.                     *)

\* clientStreamTransport.Close: the virtual connection is removed from its
\* Connection.  A Read that waits on it is not woken.
TransportClose(s) == entry' = entry \ {s} /\ vconns' = vconns \ {s}

\* clientStreamTransport.Send of a frame, ending in the new value of a program
\* counter; the error path of stream.Send closes the transport.
SendOk(s) == s \in entry /\ s \notin cancelled \cup ctxDone
StreamSend(s, f) ==
  IF SendOk(s)
  THEN c2s' = (IF broken = "no" THEN Append(c2s, f) ELSE c2s) /\ UNCHANGED <<entry, vconns>>
  ELSE TransportClose(s) /\ UNCHANGED c2s

\* stream.Invoke: GetMuxConn and the entry, unless the context is over.
Invoke(s) ==
  /\ ipc[s] = "new"
  /\ IF s \in ctxDone
     THEN ipc' = Set(ipc, s, "failed") /\ UNCHANGED <<entry, vconns, cancelled>>
     ELSE /\ ipc' = Set(ipc, s, "init")
          /\ entry' = entry \cup {s} /\ vconns' = vconns \cup {s}
          /\ cancelled' = IF broken = "no" THEN cancelled ELSE cancelled \cup {s}
  /\ UNCHANGED <<dpc, mpc, rpc, spc, inq, recvQueue, closed, ctxDone, held, got, sent,
                 netVars, readerVars, handlerVars>>

\* invoke sends the INIT frame and starts the monitor.
SendInit(s) ==
  /\ ipc[s] = "init"
  /\ StreamSend(s, F(s, "INIT", None))
  /\ IF SendOk(s)
     THEN ipc' = Set(ipc, s, "recv") /\ mpc' = Set(mpc, s, "wait")
     ELSE ipc' = Set(ipc, s, "failed") /\ UNCHANGED mpc
  /\ UNCHANGED <<dpc, rpc, spc, cancelled, inq, recvQueue, closed, ctxDone, held, got, sent,
                 s2c, broken, readerVars, handlerVars>>

\* stream.Recv in invoke: the INIT response, or an error.
RecvInit(s) ==
  /\ ipc[s] = "recv"
  /\ \/ /\ inq[s] # <<>> /\ Head(inq[s]).t = "INIT"
        /\ ipc' = Set(ipc, s, "up") /\ dpc' = Set(dpc, s, "get")
        /\ inq' = Set(inq, s, Tail(inq[s])) /\ UNCHANGED <<entry, vconns>>
     \/ /\ s \in ctxDone \/ (IF inq[s] = <<>> THEN s \in cancelled ELSE Head(inq[s]).t = "RESET")
        /\ ipc' = Set(ipc, s, "failed") /\ TransportClose(s) /\ UNCHANGED <<dpc, inq>>
  /\ UNCHANGED <<mpc, rpc, spc, cancelled, recvQueue, closed, ctxDone, held, got, sent,
                 netVars, readerVars, handlerVars>>

dispatchFrame == <<ipc, mpc, rpc, spc, cancelled, closed, ctxDone, held, got, sent,
                   netVars, readerVars, handlerVars>>

\* The error of stream.Recv is queued for the receiver.
RecvFails(s) == Put(recvQueue, s, Err)

\* dispatch calls stream.Recv: the transport looks the entry up and looks at the
\* context before it reads.
DispatchGet(s) ==
  /\ dpc[s] = "get"
  /\ IF s \in entry \ ctxDone
     THEN dpc' = Set(dpc, s, "read") /\ UNCHANGED <<entry, vconns, recvQueue>>
     ELSE /\ dpc' = Set(dpc, s, "closeT") /\ TransportClose(s)
          /\ recvQueue' = RecvFails(s)
  /\ UNCHANGED <<inq, dispatchFrame>>

\* VirtualConnection.Read returns a frame, which handleFrame queues, or the
\* error of a cancelled connection.  A RESET is an error of stream.Recv.
DispatchRead(s) ==
  /\ dpc[s] = "read"
  /\ IF inq[s] = <<>>
     THEN /\ s \in cancelled \cup ctxDone
          /\ dpc' = Set(dpc, s, "closeT") /\ TransportClose(s)
          /\ recvQueue' = RecvFails(s) /\ UNCHANGED inq
     ELSE LET f == Head(inq[s])
          IN /\ inq' = Set(inq, s, Tail(inq[s]))
             /\ dpc' = Set(dpc, s, IF f.t \in {"CLOSE", "RESET"} THEN "closeT" ELSE "get")
             /\ recvQueue' = CASE f.t = "DATA" -> Put(recvQueue, s, f.n)
                               [] f.t = "CLOSE" -> Put(recvQueue, s, EOF)
                               [] f.t = "RESET" -> RecvFails(s)
                               [] OTHER -> recvQueue
             /\ IF f.t = "RESET" THEN TransportClose(s) ELSE UNCHANGED <<entry, vconns>>
  /\ UNCHANGED dispatchFrame

\* dispatch's deferred function: first the transport, then the closed flag.
DispatchCloseTransport(s) ==
  /\ dpc[s] = "closeT" /\ dpc' = Set(dpc, s, "closeF")
  /\ TransportClose(s) /\ inq' = Set(inq, s, <<>>)
  /\ UNCHANGED <<recvQueue, dispatchFrame>>


\* cs.close().
DispatchClose(s) ==
  /\ dpc[s] = "closeF" /\ dpc' = Set(dpc, s, "end")
  /\ closed' = closed \cup {s}
  /\ UNCHANGED <<ipc, mpc, rpc, spc, entry, vconns, cancelled, inq, recvQueue, ctxDone, held,
                 got, sent, netVars, readerVars, handlerVars>>

\* monitorContextCancellation.
Monitor(s) ==
  /\ \/ /\ mpc[s] = "wait" /\ s \in ctxDone
        /\ mpc' = Set(mpc, s, "closeF") /\ TransportClose(s) /\ UNCHANGED closed
     \/ /\ mpc[s] = "wait" /\ s \in closed
        /\ mpc' = Set(mpc, s, "end") /\ UNCHANGED <<entry, vconns, closed>>
     \/ /\ mpc[s] = "closeF"
        /\ mpc' = Set(mpc, s, "end") /\ closed' = closed \cup {s} /\ UNCHANGED <<entry, vconns>>
  /\ UNCHANGED <<ipc, dpc, rpc, spc, cancelled, inq, recvQueue, ctxDone, held, got, sent,
                 netVars, readerVars, handlerVars>>
-----------------------------------------------------------------------------
(* The client application.                                                 *)

recvFrame == <<ipc, dpc, mpc, spc, cancelled, inq, closed, ctxDone, sent,
               s2c, broken, readerVars, handlerVars>>

\* RecvMsg returns r; the application stops at EOF and at an error.
Return(s, r) ==
  /\ got' = Put(got, s, r) /\ held' = Set(held, s, None)
  /\ rpc' = Set(rpc, s, IF r \in {EOF, Err} THEN "over" ELSE "idle")

\* recvQueue.Get, which returns without a response when the context is over.  For a
\* message recvFlowCtl follows: no feedback once the stream is closed.
RecvGet(s) ==
  /\ ipc[s] = "up" /\ rpc[s] = "idle"
  /\ \/ /\ recvQueue[s] # <<>>
        /\ recvQueue' = Set(recvQueue, s, Tail(recvQueue[s]))
        /\ LET r == Head(recvQueue[s])
           IN \/ Return(s, r)
              \/ /\ r \notin {EOF, Err} /\ s \notin closed
                 /\ held' = Set(held, s, r) /\ rpc' = Set(rpc, s, "feedback") /\ UNCHANGED got
     \/ /\ recvQueue[s] = <<>> /\ s \in ctxDone
        /\ Return(s, Err) /\ UNCHANGED recvQueue
  /\ UNCHANGED <<entry, vconns, c2s, recvFrame>>

\* OnRecv sends feedback.
RecvFeedback(s) ==
  /\ rpc[s] = "feedback"
  /\ StreamSend(s, F(s, "FEEDBACK", None))
  /\ IF SendOk(s) THEN Return(s, held[s])
                  ELSE rpc' = Set(rpc, s, "recheck") /\ UNCHANGED <<held, got>>
  /\ UNCHANGED <<recvQueue, recvFrame>>

\* recvFlowCtl looks at closed again before it returns the error of OnRecv.
RecvRecheck(s) ==
  /\ rpc[s] = "recheck"
  /\ Return(s, IF s \in closed THEN held[s] ELSE Err)
  /\ UNCHANGED <<recvQueue, entry, vconns, c2s, recvFrame>>

sendFrame == <<ipc, dpc, mpc, rpc, cancelled, inq, recvQueue, closed, ctxDone, held, got,
               s2c, broken, readerVars, handlerVars>>

\* SendMsg.  The application stops sending at an error.
SendMsg(s) ==
  /\ ipc[s] = "up" /\ spc[s] = "open" /\ sent[s] < MaxMsgs
  /\ StreamSend(s, F(s, "DATA", sent[s] + 1))
  /\ IF SendOk(s) THEN sent' = Set(sent, s, sent[s] + 1) /\ UNCHANGED spc
                  ELSE spc' = Set(spc, s, "shut") /\ UNCHANGED sent
  /\ UNCHANGED sendFrame

\* SendMsg fails before it reaches the transport: the message does not marshal,
\* or GetWindow returns because the stream is over.
SendMsgFails(s) ==
  /\ ipc[s] = "up" /\ spc[s] = "open"
  /\ "misuse" \in faults \/ s \in closed \cup ctxDone
  /\ TransportClose(s) /\ spc' = Set(spc, s, "shut")
  /\ UNCHANGED <<c2s, sent, sendFrame>>

CloseSend(s) ==
  /\ ipc[s] = "up" /\ spc[s] = "open"
  /\ StreamSend(s, F(s, "CLOSE", None))
  /\ spc' = Set(spc, s, "shut")
  /\ UNCHANGED <<sent, sendFrame>>

\* The context ends: a deadline or a cancellation.
Cancel(s) ==
  /\ "cancel" \in faults /\ s \notin ctxDone
  /\ ctxDone' = ctxDone \cup {s}
  /\ UNCHANGED <<ipc, dpc, mpc, rpc, spc, entry, vconns, cancelled, inq, recvQueue, closed,
                 held, got, sent, netVars, readerVars, handlerVars>>
-----------------------------------------------------------------------------
(* The connection.                                                         *)

\* The multiplexed connection's reader hands a frame to its virtual connection.
Deliver ==
  /\ s2c # <<>> /\ s2c' = Tail(s2c)
  /\ LET f == Head(s2c)
     IN inq' = IF f.s \in vconns THEN Put(inq, f.s, f) ELSE inq
  /\ UNCHANGED <<ipc, dpc, mpc, rpc, spc, entry, vconns, cancelled, recvQueue, closed, ctxDone,
                 held, got, sent, c2s, broken, readerVars, handlerVars>>

Break ==
  /\ "break" \in faults /\ broken = "no" /\ broken' = "yes"
  /\ UNCHANGED <<clientVars, c2s, s2c, readerVars, handlerVars>>

\* The client notices: every virtual connection is cancelled, frames not read
\* from the socket are lost.
Fail ==
  /\ broken # "no" /\ s2c' = <<>>
  /\ vconns \ cancelled # {} /\ cancelled' = cancelled \cup vconns
  /\ UNCHANGED <<ipc, dpc, mpc, rpc, spc, entry, vconns, inq, recvQueue, closed, ctxDone,
                 held, got, sent, c2s, broken, readerVars, handlerVars>>

\* net.Conn.Write of the server: a broken connection may still accept frames,
\* which are lost.  A failed write closes the connection.
WriteOk(f) ==
  /\ conn # "closed" /\ broken # "seen"
  /\ s2c' = IF broken = "no" THEN Append(s2c, f) ELSE s2c
  /\ UNCHANGED <<conn, broken>>
WriteFails ==
  /\ broken # "no" /\ broken' = "seen"
  /\ conn' = IF conn = "open" THEN "closing" ELSE conn
  /\ UNCHANGED s2c

\* Mutant: handleError forgets the streams without closing their done channels.
HandleErrorSilent ==
  /\ conn = "closing" /\ conn' = "notified"
  /\ serverStreams' = {}
  /\ UNCHANGED <<clientVars, netVars, at, frame, initMetas, handlerVars>>

\* tcpconn.close: handleError tells every stream of the address, then the
\* connection leaves addrToConn and the socket is closed.
HandleError ==
  /\ conn = "closing" /\ conn' = "notified"
  /\ done' = done \cup serverStreams /\ serverStreams' = {}
  /\ UNCHANGED <<clientVars, netVars, at, frame, initMetas, hq, hpc, hgot, hsent, hret>>
ConnClose ==
  /\ conn = "notified" /\ conn' = "closed" /\ broken' = "seen" /\ c2s' = <<>>
  /\ UNCHANGED <<clientVars, s2c, at, frame, initMetas, serverStreams, handlerVars>>
-----------------------------------------------------------------------------
(* The server's reader.                                                    *)

\* ServerStreamCodec.Decode: INIT registers the stream, the other frames need
\* their stream registered, or a RESET is built.
Decode(f) ==
  IF f.t = "INIT"
  THEN initMetas' = initMetas \cup {f.s} /\ at' = "store"
  ELSE at' = (IF f.s \in initMetas THEN "handle" ELSE "reset") /\ UNCHANGED initMetas

\* tcpconn.serve: the next frame, decoded by service.Handle, or an error, the idle
\* timeout or the end of the server, after which the connection is closed.
ReadFrame ==
  /\ at = "read"
  /\ \/ /\ conn # "closed" /\ c2s # <<>>
        /\ Decode(Head(c2s)) /\ frame' = Head(c2s) /\ c2s' = Tail(c2s) /\ UNCHANGED conn
     \/ /\ broken # "no" \/ "break" \in faults
        /\ at' = "end" /\ conn' = IF conn = "open" THEN "closing" ELSE conn
        /\ UNCHANGED <<frame, c2s, initMetas>>
  /\ UNCHANGED <<clientVars, s2c, broken, serverStreams, handlerVars>>

\* The reader writes a frame of its own and goes on, or waits for the close.
ReaderWrites(f) ==
  /\ frame' = NoFrame
  /\ \/ WriteOk(f) /\ at' = "read"
     \/ WriteFails /\ at' = "wait"

\* service.encode of the RESET of a failed decode.
Reset ==
  /\ at = "reset"
  /\ ReaderWrites(F(frame.s, "RESET", None))
  /\ UNCHANGED <<clientVars, c2s, initMetas, serverStreams, handlerVars>>

\* handleData, handleClose and handleFeedback.  Without its stream a CLOSE is
\* ignored; the others are answered with a unary response, which no virtual
\* connection of the client waits for.
Handle ==
  /\ at = "handle" /\ frame' = NoFrame
  /\ LET s == frame.s
     IN \/ /\ s \in serverStreams \/ frame.t = "CLOSE"
           /\ hq' = IF s \notin serverStreams THEN hq
                    ELSE CASE frame.t = "DATA" -> Put(hq, s, frame.n)
                           [] frame.t = "CLOSE" -> Put(hq, s, EOF)
                           [] OTHER -> hq
           /\ at' = "read" /\ UNCHANGED <<conn, s2c, broken>>
        \/ /\ s \notin serverStreams /\ frame.t # "CLOSE"
           /\ \/ conn # "closed" /\ broken # "seen" /\ at' = "read" /\ UNCHANGED <<conn, s2c, broken>>
              \/ WriteFails /\ at' = "wait"
           /\ UNCHANGED hq
  /\ UNCHANGED <<clientVars, c2s, initMetas, serverStreams, done, hpc, hgot, hsent, hret>>

\* handleInit stores the stream before it answers.
HandleInit ==
  /\ at = "store" /\ at' = "accept"
  /\ serverStreams' = serverStreams \cup {frame.s}
  /\ UNCHANGED <<clientVars, netVars, conn, frame, initMetas, handlerVars>>

\* The INIT response; only then is the handler started.
Accept ==
  /\ at = "accept"
  /\ ReaderWrites(F(frame.s, "INIT", None))
  /\ hpc' = IF at' = "read" THEN Set(hpc, frame.s, "run") ELSE hpc
  /\ UNCHANGED <<clientVars, c2s, initMetas, serverStreams, done, hq, hgot, hsent, hret>>

\* The caller of a tcpconn.close under way waits for it (closeOnce).
ReaderWait ==
  /\ at = "wait" /\ conn = "closed" /\ at' = "read"
  /\ UNCHANGED <<clientVars, netVars, conn, frame, initMetas, serverStreams, handlerVars>>
-----------------------------------------------------------------------------
(* The server's handlers.                                                  *)

\* serverStream.RecvMsg; the handler stops receiving at EOF and at an error.
Receiving(s) == \A i \in DOMAIN hgot[s] : hgot[s][i] \notin {EOF, Err}
HandlerRecv(s) ==
  /\ hpc[s] = "run" /\ Receiving(s)
  /\ \/ /\ hq[s] # <<>> /\ hq' = Set(hq, s, Tail(hq[s]))
        /\ \/ /\ hgot' = Put(hgot, s, Head(hq[s]))
              /\ UNCHANGED <<hpc, conn, s2c, broken>>
           \/ /\ Head(hq[s]) # EOF    \* OnRecv sends feedback
              /\ \/ /\ WriteOk(F(s, "FEEDBACK", None))
                    /\ hgot' = Put(hgot, s, Head(hq[s])) /\ UNCHANGED hpc
                 \/ /\ WriteFails
                    /\ hgot' = Put(hgot, s, Err) /\ hpc' = Set(hpc, s, "wait")
     \/ /\ hq[s] = <<>> /\ s \in done
        /\ hgot' = Put(hgot, s, Err) /\ UNCHANGED <<hq, hpc, conn, s2c, broken>>
  /\ UNCHANGED <<clientVars, c2s, at, frame, initMetas, serverStreams, done, hsent, hret>>

\* serverStream.SendMsg; it fails at once when the connection is known to be gone.
HandlerSend(s) ==
  /\ hpc[s] = "run" /\ hsent[s] < MaxMsgs /\ s \notin done
  /\ \/ WriteOk(F(s, "DATA", hsent[s] + 1)) /\ hsent' = Set(hsent, s, hsent[s] + 1)
        /\ UNCHANGED hpc
     \/ WriteFails /\ hpc' = Set(hpc, s, "wait") /\ UNCHANGED hsent
  /\ UNCHANGED <<clientVars, c2s, at, frame, initMetas, serverStreams, done, hq, hgot, hret>>

\* Mutant: encodeCloseFrame without its deferred deleteInitMeta.
HandlerReturnKeepsMeta(s) ==
  /\ hpc[s] = "run" /\ hpc' = Set(hpc, s, "close")
  /\ \E r \in {"ok", "err"} : hret' = Set(hret, s, r)
  /\ UNCHANGED <<clientVars, netVars, readerVars, done, hq, hgot, hsent>>

\* The service's function returns, with or without an error; in CloseSend, encoding
\* the CLOSE or RESET frame forgets the stream's InitMeta ...
HandlerReturn(s) ==
  /\ hpc[s] = "run" /\ hpc' = Set(hpc, s, "close")
  /\ \E r \in {"ok", "err"} : hret' = Set(hret, s, r)
  /\ initMetas' = initMetas \ {s}
  /\ UNCHANGED <<clientVars, netVars, conn, at, frame, serverStreams, done, hq, hgot, hsent>>

\* ... and then it is sent.
SendClose(s) ==
  /\ hpc[s] = "close"
  /\ \/ /\ WriteOk(F(s, IF hret[s] = "ok" THEN "CLOSE" ELSE "RESET", None))
        /\ hpc' = Set(hpc, s, "cleanup")
     \/ WriteFails /\ hpc' = Set(hpc, s, "last")
  /\ UNCHANGED <<clientVars, c2s, at, frame, initMetas, serverStreams, done, hq, hgot, hsent, hret>>

HandlerWait(s) ==
  /\ conn = "closed"
  /\ \/ hpc[s] = "wait" /\ hpc' = Set(hpc, s, "run")
     \/ hpc[s] = "last" /\ hpc' = Set(hpc, s, "cleanup")
  /\ UNCHANGED <<clientVars, netVars, readerVars, done, hq, hgot, hsent, hret>>

\* startStreamHandler's deferred function.
Cleanup(s) ==
  /\ hpc[s] = "cleanup" /\ hpc' = Set(hpc, s, "end")
  /\ serverStreams' = serverStreams \ {s} /\ done' = done \cup {s} /\ hq' = Set(hq, s, <<>>)
  /\ UNCHANGED <<clientVars, netVars, conn, at, frame, initMetas, hgot, hsent, hret>>
-----------------------------------------------------------------------------
ClientStep(s) ==
  \/ Invoke(s) \/ SendInit(s) \/ RecvInit(s)
  \/ DispatchGet(s) \/ DispatchRead(s) \/ DispatchCloseTransport(s) \/ DispatchClose(s)
  \/ Monitor(s) \/ RecvGet(s) \/ RecvFeedback(s) \/ RecvRecheck(s)
ReaderStep == ReadFrame \/ Reset \/ Handle \/ HandleInit \/ Accept \/ ReaderWait
HandlerStep(s) ==
  HandlerRecv(s) \/ SendClose(s) \/ HandlerWait(s) \/ Cleanup(s)

\* What goes on by itself: the framework, a client that keeps receiving and a
\* handler that does.
SystemStep ==
  /\ UNCHANGED faults
  /\ \/ \E s \in Streams : ClientStep(s) \/ HandlerStep(s)
     \/ ReaderStep \/ Deliver \/ Fail \/ HandleError \/ ConnClose

\* What the applications and the network choose to do.
FreeStep ==
  /\ UNCHANGED faults
  /\ \/ \E s \in Streams : SendMsg(s) \/ SendMsgFails(s) \/ CloseSend(s) \/ Cancel(s)
                           \/ HandlerSend(s) \/ HandlerReturn(s)
     \/ Break

Next == SystemStep \/ FreeStep
Spec == Init /\ [][Next]_vars

\* Every goroutine that can run does: no step is ever repeated, so that it is
\* enough that some step is taken as long as one is possible.
FairSpec == Spec /\ WF_vars(SystemStep)
-----------------------------------------------------------------------------
Data(q) == SelectSeq(q, LAMBDA r : r \notin {EOF, Err})
Has(q, r) == \E i \in DOMAIN q : q[i] = r

\* Both applications receive what the other one sent, in order and without gaps,
\* and EOF means that this was all of it: the frames of DATA and CLOSE, the two
\* queues on either side and the errors of one goroutine never let EOF overtake a
\* message (dispatch, RecvMsg, handleData, handleClose).
EOFMeansAll ==
  \A s \in Streams :
    /\ Data(got[s]) = [i \in 1..Len(Data(got[s])) |-> i]
    /\ Has(got[s], EOF) => hret[s] = "ok" /\ Len(Data(got[s])) = hsent[s]
    /\ Data(hgot[s]) = [i \in 1..Len(Data(hgot[s])) |-> i]
    /\ Has(hgot[s], EOF) => spc[s] = "shut" /\ Len(Data(hgot[s])) = sent[s]

\* A handler that runs when its connection has been closed was told so, whatever
\* goroutine closed the connection: it never waits for ever in RecvMsg or
\* GetWindow (handleError against handleInit of another stream).
ClosedConnStopsHandlers ==
  conn \in {"notified", "closed"} =>
    \A s \in Streams : hpc[s] \in {"run", "wait"} => s \in done

\* Nothing is left of a stream whose handler is over: neither the codec nor the
\* dispatcher keeps it, whichever of handler, reader and closing connection came
\* last (deleteInitMeta, deleteServerStream).
EndedIsForgotten ==
  \A s \in Streams : hpc[s] = "end" => s \notin initMetas \cup serverStreams

\* The client's RecvMsg returns with EOF or an error once the handler is over, the
\* connection is closed or the context ends: "any blocked Read or Write operations
\* will be unblocked and return errors" (MuxConn.Close).  Neither an end nor the
\* return is ever undone, so that "leads to" is "again and again, if then".
Ended(s) == hpc[s] = "end" \/ conn = "closed" \/ s \in ctxDone \/ s \notin entry
ReceiverReturns ==
  []<>(\A s \in Streams : ipc[s] = "up" /\ Ended(s) => rpc[s] = "over")

\* Every stream that was set up gives back its virtual connection and ends its
\* goroutines once its receiver is over.
ClientReleases ==
  []<>(\A s \in Streams : rpc[s] = "over" => s \notin entry /\ dpc[s] = "end" /\ mpc[s] = "end")

=============================================================================

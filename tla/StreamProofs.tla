---------------------------- MODULE StreamProofs ----------------------------
(***************************************************************************)
(* Theorems about Stream, for any set of streams, any number of messages   *)
(* and any faults: a closed connection stops its handlers, and an ended    *)
(* handler leaves nothing behind.                                          *)
(*                                                                         *)
(* Both rest on the INIT frame of a stream being unique (InitOnce): the    *)
(* reader never stores a stream whose handler has been started.            *)
(***************************************************************************)
EXTENDS Stream, TLAPS, SequenceTheorems

\* A frame of the client: any number, for the bound on messages plays no part.
Msg == [s : Streams, t : Types, n : Nat]

\* The types that the argument uses.
Types1 ==
  /\ ipc \in [Streams -> {"new", "init", "recv", "up", "failed"}]
  /\ hpc \in [Streams -> {"off", "run", "wait", "close", "last", "cleanup", "end"}]
  /\ sent \in [Streams -> Nat]
  /\ c2s \in Seq(Msg)
  /\ at \in {"store", "accept", "handle", "reset"} => frame \in Msg

\* The streams whose INIT frame invoke has sent, or has failed to.
Sent == {s \in Streams : ipc[s] \notin {"new", "init"}}

\* There is at most one INIT frame of a stream, on its way or in the reader's
\* hands, and none once the handler is started.
InitOnce ==
  /\ \A i \in 1..Len(c2s) : c2s[i].t = "INIT" =>
       /\ c2s[i].s \in Sent /\ hpc[c2s[i].s] = "off"
       /\ at \in {"store", "accept"} => frame.s # c2s[i].s
  /\ \A i, j \in 1..Len(c2s) :
       c2s[i].t = "INIT" /\ c2s[j].t = "INIT" /\ c2s[i].s = c2s[j].s => i = j
  /\ at \in {"store", "accept"} => frame.s \in Sent /\ hpc[frame.s] = "off"
  /\ \A s \in Streams : hpc[s] # "off" => s \in Sent

\* What is forgotten stays forgotten.
Forgotten ==
  \A s \in Streams :
    /\ hpc[s] \in {"close", "last", "cleanup", "end"} => s \notin initMetas
    /\ hpc[s] = "end" => s \notin serverStreams

\* A running handler has been told that the connection is closed, or is still
\* where handleError will find it.
Told ==
  /\ conn # "open" => broken = "seen" \/ at = "end"
  /\ at = "accept" /\ conn = "open" => frame.s \in serverStreams
  /\ \A s \in Streams : hpc[s] \in {"run", "wait"} =>
       s \in done \/ (conn \notin {"notified", "closed"} /\ s \in serverStreams)

IInv == Types1 /\ InitOnce /\ Forgotten /\ Told
-----------------------------------------------------------------------------
\* What the steps of clients and of the network may do to the variables of the
\* invariant: append a frame that is no INIT, and move invoke forward.
Effect ==
  /\ UNCHANGED <<broken, conn, at, frame, initMetas, serverStreams, done, hpc>>
  /\ ipc' \in [Streams -> {"new", "init", "recv", "up", "failed"}]
  /\ sent' \in [Streams -> Nat]
  /\ Sent \subseteq Sent'
  /\ c2s' = c2s \/ \E f \in Msg : f.t # "INIT" /\ c2s' = Append(c2s, f)

\* A sequence with a frame appended.
LEMMA Appended ==
  ASSUME NEW q \in Seq(Msg), NEW f \in Msg
  PROVE  /\ Append(q, f) \in Seq(Msg)
         /\ Len(Append(q, f)) = Len(q) + 1
         /\ \A i \in 1..Len(q) : Append(q, f)[i] = q[i]
         /\ Append(q, f)[Len(q) + 1] = f
         /\ Len(q) \in Nat
  BY AppendProperties, LenProperties

\* Such a step keeps the invariant.
LEMMA EffectKeeps == IInv /\ Effect => IInv'
<1> SUFFICES ASSUME IInv, Effect PROVE IInv'
  BY Zenon
<1> USE DEF IInv
<1>1. CASE c2s' = c2s
  <2>1. Types1' BY <1>1, Zenon DEF Effect, Types1
  <2>2. InitOnce'
    <3> QED BY <1>1, Zenon DEF Effect, InitOnce
  <2>3. Forgotten' /\ Told' BY Zenon DEF Effect, Forgotten, Told
  <2> QED BY <2>1, <2>2, <2>3, Zenon
<1>2. CASE \E f \in Msg : f.t # "INIT" /\ c2s' = Append(c2s, f)
  <2> PICK f \in Msg : f.t # "INIT" /\ c2s' = Append(c2s, f)
    BY <1>2, Zenon
  <2>0. c2s \in Seq(Msg) BY Zenon DEF Types1
  <2>a. /\ c2s' \in Seq(Msg)
        /\ Len(c2s') = Len(c2s) + 1 /\ Len(c2s) \in Nat
        /\ \A i \in 1..Len(c2s) : c2s'[i] = c2s[i]
        /\ c2s'[Len(c2s) + 1].t # "INIT"
    BY <2>0, Appended, Zenon
  <2>1. Types1' BY <2>a, Zenon DEF Effect, Types1
  <2>2. InitOnce'
    <3>1. \A i \in 1..Len(c2s') : c2s'[i].t = "INIT" => i \in 1..Len(c2s) /\ c2s'[i] = c2s[i]
      BY <2>a
    <3>2. UNCHANGED <<at, frame, hpc>> /\ Sent \subseteq Sent' BY Zenon DEF Effect
    <3>3. \A i \in 1..Len(c2s') : c2s'[i].t = "INIT" =>
            /\ c2s'[i].s \in Sent' /\ hpc[c2s'[i].s] = "off"
            /\ at \in {"store", "accept"} => frame.s # c2s'[i].s
      BY <3>1, <3>2 DEF InitOnce
    <3>4. \A i, j \in 1..Len(c2s') :
            c2s'[i].t = "INIT" /\ c2s'[j].t = "INIT" /\ c2s'[i].s = c2s'[j].s => i = j
      BY <3>1 DEF InitOnce
    <3> QED BY <3>2, <3>3, <3>4, Zenon DEF InitOnce
  <2>3. Forgotten' /\ Told' BY Zenon DEF Effect, Forgotten, Told
  <2> QED BY <2>1, <2>2, <2>3, Zenon
<1> QED BY <1>1, <1>2, Zenon DEF Effect

\* The steps of clients and of the network, SendInit and Break apart, are such
\* steps.
LEMMA ClientEffect ==
  ASSUME IInv, NEW s \in Streams,
         \/ Invoke(s) \/ RecvInit(s) \/ DispatchGet(s) \/ DispatchRead(s)
         \/ DispatchCloseTransport(s) \/ DispatchClose(s) \/ Monitor(s) \/ RecvGet(s)
         \/ RecvFeedback(s) \/ RecvRecheck(s) \/ SendMsg(s) \/ SendMsgFails(s)
         \/ CloseSend(s) \/ Cancel(s) \/ Deliver \/ Fail
  PROVE  Effect
<1> USE DEF IInv, Types1, readerVars, handlerVars, netVars, clientVars
<1>a. ASSUME UNCHANGED <<readerVars, handlerVars, broken, c2s, ipc, sent>> PROVE Effect
  BY <1>a, Zenon DEF Effect, Sent
<1>1. CASE Invoke(s)
  <2>1. ipc' \in [Streams -> {"new", "init", "recv", "up", "failed"}] /\ Sent \subseteq Sent'
    BY <1>1, Zenon DEF Invoke, Set, Sent
  <2> QED BY <1>1, <2>1, Zenon DEF Invoke, Effect
<1>2. CASE RecvInit(s)
  <2>1. ipc' \in [Streams -> {"new", "init", "recv", "up", "failed"}] /\ Sent \subseteq Sent'
    BY <1>2, Zenon DEF RecvInit, Set, Sent
  <2> QED BY <1>2, <2>1, Zenon DEF RecvInit, Effect
<1>3. CASE DispatchGet(s) \/ DispatchRead(s) \/ DispatchCloseTransport(s)
  BY <1>3, <1>a, Zenon DEF DispatchGet, DispatchRead, DispatchCloseTransport, dispatchFrame
<1>4. CASE DispatchClose(s) \/ Monitor(s) \/ RecvGet(s) \/ RecvRecheck(s)
  BY <1>4, <1>a, Zenon DEF DispatchClose, Monitor, RecvGet, RecvRecheck, recvFrame
<1>5. CASE SendMsgFails(s) \/ Cancel(s) \/ Deliver \/ Fail
  BY <1>5, <1>a, Zenon DEF SendMsgFails, sendFrame, Cancel, Deliver, Fail
<1>b. ASSUME NEW f \in Msg, f.t # "INIT", StreamSend(s, f),
             UNCHANGED <<readerVars, handlerVars, broken, ipc>>, sent' \in [Streams -> Nat]
      PROVE  Effect
  BY <1>b, Zenon DEF Effect, Sent, StreamSend
<1>6. CASE RecvFeedback(s)
  <2>1. F(s, "FEEDBACK", None) \in Msg /\ F(s, "FEEDBACK", None).t # "INIT"
    BY Zenon DEF F, Msg, Types, None
  <2> QED BY <1>6, <2>1, <1>b, Zenon DEF RecvFeedback, recvFrame
<1>7. CASE SendMsg(s)
  <2>1. F(s, "DATA", sent[s] + 1) \in Msg /\ F(s, "DATA", sent[s] + 1).t # "INIT"
    BY DEF F, Msg, Types
  <2>2. sent' \in [Streams -> Nat]
    BY <1>7 DEF SendMsg, Set
  <2> QED BY <1>7, <2>1, <2>2, <1>b, Zenon DEF SendMsg, sendFrame
<1>8. CASE CloseSend(s)
  <2>1. F(s, "CLOSE", None) \in Msg /\ F(s, "CLOSE", None).t # "INIT"
    BY Zenon DEF F, Msg, Types, None
  <2> QED BY <1>8, <2>1, <1>b, Zenon DEF CloseSend, sendFrame
<1> QED BY <1>1, <1>2, <1>3, <1>4, <1>5, <1>6, <1>7, <1>8, Zenon

\* invoke sends the INIT frame of a stream once.
LEMMA SendInitKeeps == \A s \in Streams : IInv /\ SendInit(s) => IInv'
<1> SUFFICES ASSUME NEW s \in Streams, IInv, SendInit(s) PROVE IInv'
  BY Zenon
<1> USE DEF IInv
<1> DEFINE f == F(s, "INIT", None)
<1>1. /\ UNCHANGED <<broken, conn, at, frame, initMetas, serverStreams, done, hpc, sent>>
      /\ s \notin Sent
  BY Zenon DEF SendInit, readerVars, handlerVars, Sent
<1>2. /\ ipc' \in [Streams -> {"new", "init", "recv", "up", "failed"}]
      /\ Sent \subseteq Sent' /\ s \in Sent'
  BY Zenon DEF SendInit, Set, Sent, Types1
<1>3. CASE c2s' = c2s
  BY <1>1, <1>2, <1>3, EffectKeeps, Zenon DEF Effect, Types1
<1>4. CASE c2s' = Append(c2s, f)
  <2>1. f \in Msg /\ f.t = "INIT" /\ f.s = s /\ c2s \in Seq(Msg)
    BY Zenon DEF F, Msg, Types, None, Types1
  <2>2. /\ c2s' \in Seq(Msg)
        /\ Len(c2s') = Len(c2s) + 1 /\ Len(c2s) \in Nat
        /\ \A i \in 1..Len(c2s) : c2s'[i] = c2s[i]
        /\ c2s'[Len(c2s) + 1] = f
    BY <1>4, <2>1, Appended, Zenon
  <2> HIDE DEF f
  <2>3. Types1' BY <1>1, <1>2, <2>2, Zenon DEF Types1
  <2>4. Forgotten' /\ Told' BY <1>1, Zenon DEF Forgotten, Told
  <2>5. \A i \in 1..Len(c2s') :
          \/ i \in 1..Len(c2s) /\ c2s'[i] = c2s[i]
          \/ i = Len(c2s) + 1 /\ c2s'[i] = f
    BY <2>2
  <2>6. hpc[s] = "off" /\ (at \in {"store", "accept"} => frame.s # s)
    BY <1>1, Zenon DEF InitOnce
  <2>7. \A i \in 1..Len(c2s) : c2s[i].t = "INIT" => c2s[i].s # s
    BY <1>1, Zenon DEF InitOnce
  <2>8. \A i \in 1..Len(c2s') : c2s'[i].t = "INIT" =>
          /\ c2s'[i].s \in Sent' /\ hpc[c2s'[i].s] = "off"
          /\ at \in {"store", "accept"} => frame.s # c2s'[i].s
    BY <1>2, <2>1, <2>5, <2>6 DEF InitOnce
  <2>9. \A i, j \in 1..Len(c2s') :
          c2s'[i].t = "INIT" /\ c2s'[j].t = "INIT" /\ c2s'[i].s = c2s'[j].s => i = j
    BY <2>1, <2>5, <2>7 DEF InitOnce
  <2>10. InitOnce' BY <1>1, <1>2, <2>8, <2>9, Zenon DEF InitOnce
  <2> QED BY <2>3, <2>4, <2>10, Zenon
<1> QED BY <1>3, <1>4, Zenon DEF SendInit, StreamSend

-----------------------------------------------------------------------------
HPC == {"off", "run", "wait", "close", "last", "cleanup", "end"}

\* A step of the server that takes no frame and starts no handler keeps InitOnce.
LEMMA ServerKeepsInitOnce ==
  ASSUME IInv,
         UNCHANGED <<c2s, ipc, sent>>,
         at' \in {"store", "accept", "handle", "reset"} =>
           frame' = frame /\ (at' = at \/ (at = "store" /\ at' = "accept")),
         hpc' \in [Streams -> HPC],
         \A s \in Streams : hpc'[s] = "off" <=> hpc[s] = "off"
  PROVE  Types1' /\ InitOnce'
<1> USE DEF IInv
<1>1. Types1' BY Zenon DEF Types1, HPC
<1>2. Sent' = Sent /\ Sent \subseteq Streams BY Zenon DEF Sent
<1>3. \A i \in 1..Len(c2s) : c2s[i].t = "INIT" =>
        /\ c2s[i].s \in Sent /\ hpc'[c2s[i].s] = "off"
        /\ at' \in {"store", "accept"} => frame'.s # c2s[i].s
  BY <1>2, Zenon DEF InitOnce
<1>4. at' \in {"store", "accept"} => frame'.s \in Sent /\ hpc'[frame'.s] = "off"
  BY <1>2, Zenon DEF InitOnce
<1>5. \A s \in Streams : hpc'[s] # "off" => s \in Sent
  BY Zenon DEF InitOnce
<1>6. InitOnce' BY <1>2, <1>3, <1>4, <1>5, Zenon DEF InitOnce
<1> QED BY <1>1, <1>6, Zenon

\* The connection breaks.
LEMMA BreakKeeps == IInv /\ Break => IInv'
<1> SUFFICES ASSUME IInv, Break PROVE IInv'
  BY Zenon
<1>1. /\ UNCHANGED <<c2s, ipc, sent, conn, at, frame, initMetas, serverStreams, done, hpc>>
      /\ broken = "no"
  BY Zenon DEF Break, clientVars, readerVars, handlerVars
<1>2. hpc \in [Streams -> HPC] BY Zenon DEF IInv, Types1, HPC
<1>3. Types1' /\ InitOnce' BY <1>1, <1>2, ServerKeepsInitOnce, Zenon
<1>4. Forgotten' BY <1>1, Zenon DEF IInv, Forgotten
<1>5. Told' BY <1>1, Zenon DEF IInv, Told
<1> QED BY <1>3, <1>4, <1>5, Zenon DEF IInv

\* tcpconn.close tells every stream there is, and then closes.
LEMMA CloseKeeps == IInv /\ (HandleError \/ ConnClose) => IInv'
<1> USE DEF IInv, clientVars, netVars, handlerVars
<1>1. ASSUME IInv, HandleError PROVE IInv'
  <2>0. /\ UNCHANGED <<c2s, ipc, sent, at, frame, hpc>>
        /\ hpc \in [Streams -> HPC]
    BY <1>1, Zenon DEF HandleError, Types1, HPC
  <2>1. Types1' /\ InitOnce' BY <1>1, <2>0, ServerKeepsInitOnce, Zenon
  <2>2. Forgotten' BY <1>1, Zenon DEF HandleError, Forgotten
  <2>3. Told' BY <1>1, Zenon DEF HandleError, Told
  <2> QED BY <2>1, <2>2, <2>3, Zenon
<1>2. ASSUME IInv, ConnClose PROVE IInv'
  <2>1. c2s' \in Seq(Msg) /\ Len(c2s') = 0
    BY <1>2 DEF ConnClose
  <2>2. Types1' BY <1>2, <2>1, Zenon DEF ConnClose, Types1
  <2>3. Sent' = Sent BY <1>2, Zenon DEF ConnClose, Sent
  <2>4. 1..Len(c2s') = {} BY <2>1
  <2>5. InitOnce' BY <1>2, <2>3, <2>4, Zenon DEF ConnClose, InitOnce
  <2>6. Forgotten' BY <1>2, Zenon DEF ConnClose, Forgotten
  <2>7. Told' BY <1>2, Zenon DEF ConnClose, Told
  <2> QED BY <2>2, <2>5, <2>6, <2>7, Zenon
<1> QED BY <1>1, <1>2, Zenon

\* The reader takes a frame, an INIT only before the handler of its stream is
\* started.
LEMMA ReadFrameKeeps == IInv /\ ReadFrame => IInv'
<1> SUFFICES ASSUME IInv, ReadFrame PROVE IInv'
  OBVIOUS
<1> USE DEF IInv
<1>0. /\ UNCHANGED <<ipc, sent, broken, serverStreams, done, hpc>>
      /\ at = "read" /\ Sent' = Sent /\ Sent \subseteq Streams
  BY Zenon DEF ReadFrame, clientVars, handlerVars, Sent
<1>1. CASE at' = "end" /\ UNCHANGED <<frame, c2s, initMetas>>
  <2>1. Types1' /\ InitOnce'
    BY <1>0, <1>1, ServerKeepsInitOnce, Zenon DEF Types1, HPC
  <2>2. Forgotten' BY <1>0, <1>1, Zenon DEF Forgotten
  <2>3. conn' = IF conn = "open" THEN "closing" ELSE conn
    BY <1>1, Zenon DEF ReadFrame, Decode
  <2>4. Told' BY <1>0, <1>1, <2>3, Zenon DEF Told
  <2> QED BY <2>1, <2>2, <2>4
<1>2. CASE c2s # <<>> /\ Decode(Head(c2s)) /\ frame' = Head(c2s) /\ c2s' = Tail(c2s)
           /\ UNCHANGED conn
  <2>1. c2s \in Seq(Msg) BY Zenon DEF Types1
  <2>2. /\ Head(c2s) \in Msg /\ Head(c2s) = c2s[1] /\ Tail(c2s) \in Seq(Msg)
        /\ Len(c2s) \in Nat \ {0} /\ Len(Tail(c2s)) = Len(c2s) - 1
        /\ \A i \in 1..Len(Tail(c2s)) : Tail(c2s)[i] = c2s[i + 1]
    BY <1>2, <2>1, HeadTailProperties, LenProperties, EmptySeq
  <2>3. at' \in {"store", "handle", "reset"} /\ (at' = "store" <=> frame'.t = "INIT")
    BY <1>2, Zenon DEF Decode
  <2>4. Types1' BY <1>0, <1>2, <2>2, <2>3, Zenon DEF Types1
  <2>5. \A i \in 1..Len(c2s') : i + 1 \in 1..Len(c2s) /\ i + 1 # 1 /\ c2s'[i] = c2s[i + 1]
    BY <1>2, <2>2
  <2>6. 1 \in 1..Len(c2s) BY <2>2
  <2>7. at' = "store" => frame'.s \in Sent /\ hpc[frame'.s] = "off"
    BY <1>2, <2>2, <2>3, <2>6, Zenon DEF InitOnce
  <2>8. \A i \in 1..Len(c2s') : c2s'[i].t = "INIT" =>
          /\ c2s'[i].s \in Sent /\ hpc[c2s'[i].s] = "off"
          /\ at' = "store" => frame'.s # c2s'[i].s
    BY <1>2, <2>2, <2>3, <2>5, <2>6 DEF InitOnce
  <2>9. \A i, j \in 1..Len(c2s') :
          c2s'[i].t = "INIT" /\ c2s'[j].t = "INIT" /\ c2s'[i].s = c2s'[j].s => i + 1 = j + 1
    BY <2>5, Zenon DEF InitOnce
  <2>10. \A i, j \in 1..Len(c2s') : i + 1 = j + 1 => i = j
    BY <1>2, <2>2
  <2>11. InitOnce'
    BY <1>0, <2>3, <2>7, <2>8, <2>9, <2>10, Zenon DEF InitOnce
  <2>12. Forgotten'
    BY <1>0, <1>2, <2>3, <2>7, Zenon DEF Forgotten, Decode
  <2>13. Told' BY <1>0, <1>2, <2>3, Zenon DEF Told
  <2> QED BY <2>4, <2>11, <2>12, <2>13, Zenon
<1> QED BY <1>1, <1>2, Zenon DEF ReadFrame

\* The other steps of the reader, Accept apart.
LEMMA ReaderKeeps == IInv /\ (Reset \/ Handle \/ HandleInit \/ ReaderWait) => IInv'
<1> SUFFICES ASSUME IInv, Reset \/ Handle \/ HandleInit \/ ReaderWait PROVE IInv'
  BY Zenon
<1> USE DEF IInv
<1>1. /\ UNCHANGED <<c2s, ipc, sent, done, hpc, initMetas>>
      /\ hpc \in [Streams -> HPC]
  BY Zenon DEF Reset, Handle, HandleInit, ReaderWait, clientVars, netVars, handlerVars, Types1, HPC
<1>2. CASE HandleInit
  <2>1. Types1' /\ InitOnce'
    BY <1>1, <1>2, ServerKeepsInitOnce, Zenon DEF HandleInit
  <2>2. hpc[frame.s] = "off" BY <1>2, Zenon DEF HandleInit, InitOnce
  <2>3. Forgotten' BY <1>1, <1>2, <2>2, Zenon DEF HandleInit, Forgotten
  <2>4. Told' BY <1>1, <1>2, Zenon DEF HandleInit, Told, netVars
  <2> QED BY <2>1, <2>3, <2>4, Zenon
<1>3. CASE Reset \/ Handle \/ ReaderWait
  <2>1. /\ at' \in {"read", "wait"} /\ at # "end" /\ UNCHANGED serverStreams
        /\ \/ UNCHANGED <<conn, broken>>
           \/ broken' = "seen" /\ conn' = IF conn = "open" THEN "closing" ELSE conn
    BY <1>3, Zenon DEF Reset, Handle, ReaderWait, ReaderWrites, WriteOk, WriteFails, netVars
  <2>2. Types1' /\ InitOnce' BY <1>1, <2>1, ServerKeepsInitOnce, Zenon
  <2>3. Forgotten' BY <1>1, <2>1, Zenon DEF Forgotten
  <2>4. Told' BY <1>1, <2>1, Zenon DEF Told
  <2> QED BY <2>2, <2>3, <2>4
<1> QED BY <1>2, <1>3, Zenon

\* The handler is started only if the INIT response was written: nobody has then
\* closed the connection, and handleError will find the stream.
LEMMA AcceptKeeps == IInv /\ Accept => IInv'
<1> SUFFICES ASSUME IInv, Accept PROVE IInv'
  OBVIOUS
<1> USE DEF IInv
<1>1. /\ UNCHANGED <<c2s, ipc, sent, done, initMetas, serverStreams>>
      /\ at = "accept" /\ hpc \in [Streams -> HPC]
      /\ Sent' = Sent /\ Sent \subseteq Streams
  BY Zenon DEF Accept, clientVars, Types1, HPC, Sent
<1>2. frame.s \in Sent /\ hpc[frame.s] = "off"
  BY <1>1, Zenon DEF InitOnce
<1>3. CASE WriteFails /\ at' = "wait"
  <2>1. UNCHANGED hpc BY <1>3, Zenon DEF Accept
  <2>2. Types1' /\ InitOnce' BY <1>1, <1>3, <2>1, ServerKeepsInitOnce, Zenon
  <2>3. Forgotten' BY <1>1, <2>1, Zenon DEF Forgotten
  <2>4. Told' BY <1>1, <1>3, <2>1, Zenon DEF Told, WriteFails
  <2> QED BY <2>2, <2>3, <2>4
<1>4. CASE WriteOk(F(frame.s, "INIT", None)) /\ at' = "read"
  <2>1. hpc' = [hpc EXCEPT ![frame.s] = "run"]
    BY <1>4, Zenon DEF Accept, Set
  <2>2. UNCHANGED <<conn, broken>> /\ broken # "seen"
    BY <1>4, Zenon DEF WriteOk
  <2>3. conn = "open" /\ frame.s \in serverStreams
    BY <1>1, <2>2, Zenon DEF Told
  <2>4. Types1' BY <1>1, <1>2, <1>4, <2>1, Zenon DEF Types1, HPC
  <2>5. InitOnce'
    BY <1>1, <1>2, <1>4, <2>1, Zenon DEF InitOnce
  <2>6. Forgotten' BY <1>1, <2>1, Zenon DEF Forgotten, HPC
  <2>7. Told' BY <1>1, <1>4, <2>1, <2>2, <2>3, Zenon DEF Told, HPC
  <2> QED BY <2>4, <2>5, <2>6, <2>7
<1> QED BY <1>3, <1>4, Zenon DEF Accept, ReaderWrites

\* The steps of a handler.
LEMMA HandlerKeeps ==
  ASSUME IInv, NEW s \in Streams,
         HandlerRecv(s) \/ HandlerSend(s) \/ HandlerReturn(s) \/ SendClose(s)
           \/ HandlerWait(s) \/ Cleanup(s)
  PROVE  IInv'
<1> USE DEF IInv
<1>1. /\ UNCHANGED <<c2s, ipc, sent, at, frame>>
      /\ hpc \in [Streams -> HPC] /\ hpc[s] # "off"
  BY Zenon DEF HandlerRecv, HandlerSend, HandlerReturn, SendClose, HandlerWait, Cleanup,
         clientVars, netVars, readerVars, Types1, HPC
<1> DEFINE To(v) ==
      /\ v \in HPC \ {"off"} /\ hpc' = [hpc EXCEPT ![s] = v]
      /\ v \in {"run", "wait"} => hpc[s] \in {"run", "wait"}
      /\ v \in {"close", "last", "cleanup", "end"} => s \notin initMetas'
      /\ v = "end" => s \notin serverStreams'
<1>2. \E v : To(v)
  <2>1. CASE HandlerRecv(s) \/ HandlerSend(s)
    <3>1. /\ UNCHANGED <<initMetas, serverStreams>> /\ hpc[s] = "run"
          /\ UNCHANGED hpc \/ hpc' = [hpc EXCEPT ![s] = "wait"]
      BY <2>1, Zenon DEF HandlerRecv, HandlerSend, Set
    <3>2. CASE UNCHANGED hpc
      <4>1. hpc' = [hpc EXCEPT ![s] = "run"] BY <1>1, <3>1, <3>2, Zenon
      <4>2. To("run") BY <3>1, <4>1, Zenon DEF HPC
      <4> QED BY <4>2, Zenon
    <3>3. CASE hpc' = [hpc EXCEPT ![s] = "wait"]
      <4>1. To("wait") BY <3>1, <3>3, Zenon DEF HPC
      <4> QED BY <4>1, Zenon
    <3> QED BY <3>1, <3>2, <3>3, Zenon
  <2>2. CASE HandlerWait(s)
    <3>1. /\ UNCHANGED <<initMetas, serverStreams>>
          /\ \/ hpc[s] = "wait" /\ hpc' = [hpc EXCEPT ![s] = "run"]
             \/ hpc[s] = "last" /\ hpc' = [hpc EXCEPT ![s] = "cleanup"]
      BY <2>2, Zenon DEF HandlerWait, readerVars, Set
    <3>2. To("run") \/ To("cleanup") BY <3>1, Zenon DEF HPC, Forgotten
    <3> QED BY <3>2, Zenon
  <2>3. CASE HandlerReturn(s)
    <3>1. To("close") BY <2>3, Zenon DEF HandlerReturn, Set, HPC
    <3> QED BY <3>1, Zenon
  <2>4. CASE SendClose(s)
    <3>1. To("cleanup") \/ To("last") BY <2>4, Zenon DEF SendClose, Set, HPC, Forgotten
    <3> QED BY <3>1, Zenon
  <2>5. CASE Cleanup(s)
    <3>1. To("end") BY <2>5, Zenon DEF Cleanup, Set, HPC, Forgotten
    <3> QED BY <3>1, Zenon
  <2> QED BY <2>1, <2>2, <2>3, <2>4, <2>5, Zenon
<1>3. PICK v : To(v) BY <1>2, Zenon
<1>4. Types1' /\ InitOnce'
  <2>1. hpc' \in [Streams -> HPC] /\ \A r \in Streams : hpc'[r] = "off" <=> hpc[r] = "off"
    BY <1>1, <1>3, Zenon
  <2> QED BY <1>1, <2>1, ServerKeepsInitOnce, Zenon
<1>5. initMetas' \subseteq initMetas /\ serverStreams' \subseteq serverStreams
  BY Zenon DEF HandlerRecv, HandlerSend, HandlerReturn, SendClose, HandlerWait, Cleanup, readerVars
<1>6. Forgotten' BY <1>1, <1>3, <1>5, Zenon DEF Forgotten
<1>7. /\ \/ UNCHANGED <<conn, broken>>
         \/ broken' = "seen" /\ conn' = IF conn = "open" THEN "closing" ELSE conn
      /\ done \subseteq done'
      /\ \A r \in Streams \ {s} : r \in serverStreams => r \in serverStreams'
      /\ s \in serverStreams => s \in serverStreams' \/ s \in done'
  BY Zenon DEF HandlerRecv, HandlerSend, HandlerReturn, SendClose, HandlerWait, Cleanup, readerVars,
         netVars, WriteOk, WriteFails
<1>8. \A r \in Streams : hpc'[r] \in {"run", "wait"} => hpc[r] \in {"run", "wait"}
  BY <1>1, <1>3, Zenon
<1>9. at = "accept" => frame.s \in Streams \ {s}
  BY <1>1, Zenon DEF InitOnce, Sent
<1>10. Told' BY <1>1, <1>7, <1>8, <1>9, Zenon DEF Told
<1> QED BY <1>4, <1>6, <1>10, Zenon
-----------------------------------------------------------------------------
\* The invariant is inductive.
THEOREM Inductive == Spec => []IInv
<1>1. Init => IInv
  <2> SUFFICES ASSUME Init PROVE IInv
    BY Zenon
  <2>1. Len(c2s) = 0 /\ c2s \in Seq(Msg) /\ 1..Len(c2s) = {}
    BY DEF Init
  <2> QED BY <2>1, Zenon DEF Init, IInv, Types1, InitOnce, Forgotten, Told
<1>2. IInv /\ [Next]_vars => IInv'
  <2> SUFFICES ASSUME IInv, [Next]_vars PROVE IInv'
    BY Zenon
  <2>1. CASE UNCHANGED vars
    <3>1. Effect
      BY <2>1, Zenon DEF vars, clientVars, netVars, readerVars, handlerVars, Effect, Sent, IInv, Types1
    <3> QED BY <3>1, EffectKeeps, Zenon
  <2>2. ASSUME NEW s \in Streams, ClientStep(s) PROVE IInv'
    BY <2>2, ClientEffect, EffectKeeps, SendInitKeeps, Zenon DEF ClientStep
  <2>3. ASSUME NEW s \in Streams, HandlerStep(s) PROVE IInv'
    BY <2>3, HandlerKeeps, Zenon DEF HandlerStep
  <2>4. CASE ReaderStep
    BY <2>4, ReadFrameKeeps, ReaderKeeps, AcceptKeeps, Zenon DEF ReaderStep
  <2>5. CASE Fail \/ Deliver
    <3>1. CASE Streams = {}
      <4>1. Effect BY <2>5, Zenon DEF Fail, Deliver, readerVars, handlerVars, Effect, Sent, IInv, Types1
      <4> QED BY <4>1, EffectKeeps
    <3> QED BY <2>5, <3>1, ClientEffect, EffectKeeps, Zenon
  <2>6. CASE HandleError \/ ConnClose \/ Break
    BY <2>6, CloseKeeps, BreakKeeps, Zenon
  <2>7. ASSUME NEW s \in Streams,
               \/ SendMsg(s) \/ SendMsgFails(s) \/ CloseSend(s) \/ Cancel(s)
               \/ HandlerSend(s) \/ HandlerReturn(s)
        PROVE  IInv'
    BY <2>7, ClientEffect, EffectKeeps, HandlerKeeps, Zenon
  <2> QED BY <2>1, <2>2, <2>3, <2>4, <2>5, <2>6, <2>7, Zenon DEF Next, SystemStep, FreeStep
<1> QED BY <1>1, <1>2, PTL DEF Spec

\* Whatever goroutine closes the connection, every handler that runs has been
\* told: handleError and handleInit of other streams never miss each other.
THEOREM HandlersStopped == Spec => []ClosedConnStopsHandlers
<1>1. IInv => ClosedConnStopsHandlers
  BY Zenon DEF IInv, Told, ClosedConnStopsHandlers
<1> QED BY <1>1, Inductive, PTL

\* Neither the codec nor the dispatcher keeps anything of a stream whose handler
\* is over (deleteInitMeta, deleteServerStream).
THEOREM StreamsForgotten == Spec => []EndedIsForgotten
<1>1. IInv => EndedIsForgotten
  BY Zenon DEF IInv, Forgotten, EndedIsForgotten
<1> QED BY <1>1, Inductive, PTL
=============================================================================

---------------------------- MODULE StreamCodec -----------------------------
(***************************************************************************)
(* The frames of streams (codec_stream.go) and the two ends that exchange  *)
(* them over one connection (stream/client.go, stream/server.go): what an  *)
(* INIT frame tells the server, how both ends agree on flow control, which *)
(* frames the server decodes, and what a CLOSE frame tells the client.     *)
(* The goroutines of the ends and the failure of the connection are in     *)
(* Stream, the windows in FlowControl.                                     *)
(***************************************************************************)
EXTENDS Integers, Sequences, TLC

CONSTANTS
  StreamIDs,
  StreamPlans,     \* for each stream: the client's message, the handler and its end
  InitWindow,      \* defaultInitWindowSize
  MaxWindow        \* maxInitWindowSize

VARIABLES
  plans,       \* the plans of this behaviour
  ends,        \* the clientStreams
  serverEnds,  \* the serverStreams of the dispatcher, and their handlers
  initMetas,   \* the table of ServerStreamCodec: the rpc name of each stream
  toServer,    \* frames on their way, in the order they were sent
  toClient

streamCodecVars == <<plans, ends, serverEnds, initMetas, toServer, toClient>>

Off == 0

\* TransInfo maps keys to where their values come from; those of keys are replaced.
NoTrans == <<>>
Merge(trans, keys, v) == [k \in keys |-> v] @@ trans

\* newFrameHead: every frame names its type and its stream.
Frame(type, s) == [type |-> type, id |-> s]

getWindowSize(w) == IF w <= InitWindow THEN InitWindow ELSE IF w >= MaxWindow THEN MaxWindow ELSE w

\* A clientStream before it is invoked, a serverStream before it is created.
NewClientStream == [at |-> "new", sControl |-> Off, rControl |-> Off, err |-> "nil", meta |-> NoTrans,
                    got |-> <<>>, sent |-> 0, fed |-> 0, credit |-> 0, closed |-> FALSE]
NewServerStream == [at |-> "none", sControl |-> Off, rControl |-> Off, msg |-> NoTrans, meta |-> {},
                    got |-> <<>>, sent |-> 0, fed |-> 0, credit |-> 0, eof |-> FALSE]

StreamCodecInit ==
  /\ plans \in StreamPlans
  /\ ends = [s \in StreamIDs |-> NewClientStream]
  /\ serverEnds = [s \in StreamIDs |-> NewServerStream]
  /\ initMetas = NoTrans
  /\ toServer = <<>> /\ toClient = [s \in StreamIDs |-> <<>>]

-----------------------------------------------------------------------------
(* The table of the server's codec *)

storeInitMeta(s, rpc) == [k \in DOMAIN initMetas \cup {s} |-> IF k = s THEN rpc ELSE initMetas[k]]
deleteInitMeta(s) == [k \in DOMAIN initMetas \ {s} |-> initMetas[k]]
\* setInitMeta: frames name no method; they are those of the stream's INIT frame.
setInitMeta(s) == IF s \in DOMAIN initMetas THEN initMetas[s] ELSE "uninitialized"

-----------------------------------------------------------------------------
(* What the client encodes *)

\* setClientTransInfo, for the fresh metadata of an INIT frame: an environment that only
\* the upstream's metadata carries is cleared.
setClientTransInfo(m) ==
  LET dyed == Merge([k \in m.meta |-> "meta"], IF m.dyeingKey THEN {"dyeing"} ELSE {}, "own")
  IN IF m.env THEN Merge(dyed, {"env"}, "own") ELSE Merge(dyed, DOMAIN dyed \cap {"env"}, "nil")

\* ClientStreamCodec.encodeInitFrame with the message of invoke.
encodeInitFrame(s, m, w) ==
  Frame("INIT", s) @@ [caller |-> m.caller, rpc |-> m.rpc, types |-> m.types, dyeing |-> m.dyeing,
                       trans |-> setClientTransInfo(m), window |-> w]
encodeDataFrame(s, types) == Frame("DATA", s) @@ [types |-> types]
encodeFeedbackFrame(s, w) == Frame("FEEDBACK", s) @@ [credit |-> w]
\* TrpcStreamCloseMeta, the content of CLOSE frames of both ends.
CloseMeta(closeType, ret, trans) == [closeType |-> closeType, ret |-> ret, funcRet |-> 0, trans |-> trans]
encodeCloseFrame(s, meta) == Frame("CLOSE", s) @@ meta

\* clientStream.invoke: the receive control has the window that the INIT frame offers.
Invoke(s) ==
  LET w == IF plans[s].disabled THEN 0 ELSE getWindowSize(plans[s].window) IN
  /\ ends[s].at = "new"
  /\ ends' = [ends EXCEPT ![s].at = "init", ![s].rControl = w]
  /\ toServer' = Append(toServer, encodeInitFrame(s, plans[s].msg, w))
  /\ UNCHANGED <<plans, serverEnds, initMetas, toClient>>

\* clientStream.SendMsg: with the types of the stream's message.
SendMsg(s) ==
  /\ ends[s].at = "open" /\ ~ends[s].closed /\ ends[s].sent < plans[s].sends
  /\ ends' = [ends EXCEPT ![s].sent = @ + 1]
  /\ toServer' = Append(toServer, encodeDataFrame(s, plans[s].msg.types))
  /\ UNCHANGED <<plans, serverEnds, initMetas, toClient>>

\* clientStream.CloseSend; a client of another implementation may also reset the stream.
CloseSend(s) ==
  /\ ends[s].at = "open" /\ ~ends[s].closed
  /\ ends' = [ends EXCEPT ![s].closed = TRUE]
  /\ toServer' = Append(toServer, encodeCloseFrame(s, CloseMeta(plans[s].closes, 0, NoTrans)))
  /\ UNCHANGED <<plans, serverEnds, initMetas, toClient>>

\* clientStream.feedback, for what was received since the last one.
Feedback(s) ==
  /\ ends[s].at = "open" /\ ends[s].rControl # Off /\ Len(ends[s].got) > ends[s].fed
  /\ ends' = [ends EXCEPT ![s].fed = Len(ends[s].got)]
  /\ toServer' = Append(toServer, encodeFeedbackFrame(s, Len(ends[s].got) - ends[s].fed))
  /\ UNCHANGED <<plans, serverEnds, initMetas, toClient>>

-----------------------------------------------------------------------------
(* What the server decodes and encodes *)

\* updateMsg of the server: what its handler sees.
updateMsg(f) ==
  [caller |-> f.caller, rpc |-> f.rpc, types |-> f.types, dyeing |-> f.dyeing, meta |-> DOMAIN f.trans,
   dyeingKey |-> "dyeing" \in DOMAIN f.trans,
   env |-> IF "env" \in DOMAIN f.trans THEN f.trans["env"] ELSE "none"]

\* ServerStreamCodec.encodeInitFrame: the error's code, and the window of the frame that
\* getStreamInitMeta finds in the message.
encodeInitRsp(s, window, ret) == Frame("INIT", s) @@ [window |-> window, ret |-> ret]

\* setStreamCloseMetaData: the metadata of the request and of the handler.
setStreamCloseMetaData(s, trans) == Merge(trans, serverEnds[s].meta, "meta")

\* buildResetFrame
buildResetFrame(ret) == CloseMeta("RESET", ret, NoTrans)

\* The dispatcher's setSendControl and handleInit: a client without flow control gets a
\* server without it, else the answer offers the server's window.
handleInit(s, f) ==
  LET w == getWindowSize(plans[s].serverWindow) IN
  [NewServerStream EXCEPT !.at = "live", !.msg = updateMsg(f), !.meta = updateMsg(f).meta,
     !.sControl = f.window, !.rControl = IF f.window = 0 THEN Off ELSE w]

\* decodeInitFrame stores the name before the method is looked up; only a stream whose
\* method exists reaches the dispatcher.
DecodeInit(s, f) ==
  /\ initMetas' = storeInitMeta(s, updateMsg(f).rpc)
  /\ IF plans[s].registered
     THEN /\ serverEnds' = [serverEnds EXCEPT ![s] = handleInit(s, f)]
          /\ toClient' = [toClient EXCEPT ![s] = Append(@, encodeInitRsp(s, serverEnds'[s].rControl, 0))]
     ELSE /\ serverEnds' = [serverEnds EXCEPT ![s].at = "failed"]
          /\ toClient' = [toClient EXCEPT ![s] = Append(@, encodeInitRsp(s, f.window, 12))]

\* Decode of the other frames.  A stream that is not in the table is reset; a CLOSE frame
\* with an error is answered with itself, before the dispatcher sees it.
IsError(f) == f.closeType = "RESET" \/ f.ret # 0
Echo(s, f) == encodeCloseFrame(s, [CloseMeta(f.closeType, f.ret, f.trans) EXCEPT !.funcRet = f.funcRet])
DecodeFrame(s, f) ==
  IF setInitMeta(s) = "uninitialized"
  THEN /\ toClient' = [toClient EXCEPT ![s] = Append(@, encodeCloseFrame(s, buildResetFrame(1)))]
       /\ initMetas' = deleteInitMeta(s) /\ UNCHANGED serverEnds
  ELSE IF f.type = "CLOSE" /\ IsError(f)
  THEN /\ toClient' = [toClient EXCEPT ![s] = Append(@, Echo(s, f))]
       /\ initMetas' = deleteInitMeta(s) /\ UNCHANGED serverEnds
  ELSE /\ serverEnds' = [serverEnds EXCEPT ![s] =
            CASE f.type = "DATA" -> [@ EXCEPT !.got = Append(@, [types |-> f.types, rpc |-> setInitMeta(s)])]
              [] f.type = "CLOSE" -> [@ EXCEPT !.eof = TRUE]
              [] f.type = "FEEDBACK" -> [@ EXCEPT !.credit = IF serverEnds[s].sControl = Off THEN @ ELSE @ + f.credit]]
       /\ UNCHANGED <<initMetas, toClient>>

\* The server reads its connection in order.
ServerReads ==
  /\ toServer # <<>> /\ toServer' = Tail(toServer)
  /\ LET f == Head(toServer) IN IF f.type = "INIT" THEN DecodeInit(f.id, f) ELSE DecodeFrame(f.id, f)
  /\ UNCHANGED <<plans, ends>>

\* serverStream.SendMsg: with the types of the INIT frame.
ServerSend(s) ==
  /\ serverEnds[s].at = "live" /\ serverEnds[s].sent < plans[s].sends
  /\ serverEnds' = [serverEnds EXCEPT ![s].sent = @ + 1]
  /\ toClient' = [toClient EXCEPT ![s] = Append(@, encodeDataFrame(s, serverEnds[s].msg.types))]
  /\ UNCHANGED <<plans, ends, initMetas, toServer>>

\* serverStream.feedback
ServerFeedback(s) ==
  /\ serverEnds[s].at = "live" /\ serverEnds[s].rControl # Off /\ Len(serverEnds[s].got) > serverEnds[s].fed
  /\ serverEnds' = [serverEnds EXCEPT ![s].fed = Len(serverEnds[s].got)]
  /\ toClient' = [toClient EXCEPT ![s] =
       Append(@, encodeFeedbackFrame(s, Len(serverEnds[s].got) - serverEnds[s].fed))]
  /\ UNCHANGED <<plans, ends, initMetas, toServer>>

\* The handler sets metadata of its own, which the CLOSE frame will carry.
SetMetaData(s) ==
  /\ serverEnds[s].at = "live" /\ plans[s].trailer \ serverEnds[s].meta # {}
  /\ serverEnds' = [serverEnds EXCEPT ![s].meta = @ \cup plans[s].trailer]
  /\ UNCHANGED <<plans, ends, initMetas, toServer, toClient>>

\* startStreamHandler once the handler returned: an errs.Error resets with its code, any
\* other error resets without one.  Encoding the frame deletes the entry of the table.
HandlerReturns(s) ==
  /\ serverEnds[s].at = "live"
  /\ serverEnds' = [serverEnds EXCEPT ![s].at = "ended"]
  /\ LET h == plans[s].handler
         meta == CloseMeta(IF h = "nil" THEN "CLOSE" ELSE "RESET", IF h = "errs" THEN 21 ELSE 0, NoTrans)
     IN toClient' = [toClient EXCEPT ![s] = Append(@, encodeCloseFrame(s,
                       [meta EXCEPT !.trans = setStreamCloseMetaData(s, NoTrans)]))]
  /\ initMetas' = deleteInitMeta(s)
  /\ UNCHANGED <<plans, ends, toServer>>

-----------------------------------------------------------------------------
(* What the client decodes *)

\* decodeInitFrame and configSendControl: a window of 0 turns flow control off.
decodeInitFrame(e, f) ==
  IF f.ret # 0 THEN [e EXCEPT !.at = "ended", !.err = "framework"]
  ELSE [e EXCEPT !.at = "open", !.sControl = f.window, !.rControl = IF f.window = 0 THEN Off ELSE @]

\* updateClientStreamCloseMeta: keys of the CLOSE frame replace those of the message.
updateClientStreamCloseMeta(e, f) == Merge(e.meta, DOMAIN f.trans, "close")

\* decodeCloseFrame: a reset or a code is the callee's error, a FuncRet a business error.
decodeCloseFrame(e, f) ==
  [e EXCEPT !.at = "ended", !.meta = updateClientStreamCloseMeta(e, f),
     !.err = CASE IsError(f) -> "framework" [] ~IsError(f) /\ f.funcRet # 0 -> "business" [] OTHER -> "EOF"]

\* stream.Recv and handleFrame, for the next frame of the stream.
ClientReads(s) ==
  /\ toClient[s] # <<>> /\ ends[s].at \in {"init", "open"}
  /\ LET f == Head(toClient[s]) IN
     ends' = [ends EXCEPT ![s] =
       CASE f.type = "INIT" -> decodeInitFrame(@, f)
         [] f.type = "DATA" -> [@ EXCEPT !.got = Append(@, f.types)]
         [] f.type = "FEEDBACK" -> [@ EXCEPT !.credit = IF ends[s].sControl = Off THEN @ ELSE @ + f.credit]
         [] f.type = "CLOSE" -> decodeCloseFrame(@, f)]
  /\ toClient' = [toClient EXCEPT ![s] = Tail(@)]
  /\ UNCHANGED <<plans, serverEnds, initMetas, toServer>>

StreamCodecNext ==
  \/ ServerReads
  \/ \E s \in StreamIDs :
       \/ Invoke(s) \/ SendMsg(s) \/ CloseSend(s) \/ Feedback(s) \/ ClientReads(s)
       \/ ServerSend(s) \/ ServerFeedback(s) \/ SetMetaData(s) \/ HandlerReturns(s)

-----------------------------------------------------------------------------
\* A handler sees the message of its own stream's client, and every DATA frame reaches the
\* other end under that stream's method and with the types that end decodes with, also
\* when two streams share the connection.
FramesNamed ==
  \A s \in StreamIDs :
    LET m == plans[s].msg
        seen == serverEnds[s].msg
    IN /\ serverEnds[s].at \in {"live", "ended"} =>
            /\ seen.rpc = m.rpc /\ seen.caller = m.caller /\ seen.types = m.types /\ seen.dyeing = m.dyeing
            /\ m.meta \subseteq seen.meta /\ (m.dyeingKey => seen.dyeingKey)
            /\ seen.env \in IF m.env THEN {"own"} ELSE {"none", "nil"}
       /\ \A k \in DOMAIN serverEnds[s].got : serverEnds[s].got[k] = [types |-> m.types, rpc |-> m.rpc]
       /\ \A k \in DOMAIN ends[s].got : ends[s].got[k] = m.types

\* Once a stream is open its two ends agree: either neither controls the flow, or each
\* sends within the window that the other receives with; no end gets credit for more
\* than it sent.
FlowControlAgreed ==
  \A s \in StreamIDs :
    /\ ends[s].credit <= ends[s].sent /\ serverEnds[s].credit <= serverEnds[s].sent
    /\ ends[s].at = "open" =>
      /\ ends[s].sControl = serverEnds[s].rControl /\ ends[s].rControl = serverEnds[s].sControl
      /\ ends[s].rControl = Off <=> ends[s].sControl = Off

\* The client learns how the handler ended: EOF only after it returned nil and all its
\* messages arrived, with its metadata; an error otherwise, and always the framework's.
OutcomeArrives ==
  \A s \in StreamIDs :
    ends[s].at = "ended" =>
      /\ ends[s].err = "EOF" =>
           /\ serverEnds[s].at = "ended" /\ plans[s].handler = "nil" /\ Len(ends[s].got) = serverEnds[s].sent
           /\ serverEnds[s].meta \subseteq DOMAIN ends[s].meta
      /\ ends[s].err # "EOF" =>
           /\ ends[s].err = "framework"
           /\ ~plans[s].registered \/ plans[s].handler # "nil" \/ (ends[s].closed /\ plans[s].closes = "RESET")

\* While a handler runs the codec knows its stream, unless the client reset it; afterwards
\* only a stream without a method keeps its entry.
MetasMatchStreams ==
  \A s \in StreamIDs :
    /\ serverEnds[s].at = "live" /\ s \notin DOMAIN initMetas => ends[s].closed /\ plans[s].closes = "RESET"
    /\ s \in DOMAIN initMetas => serverEnds[s].at \in {"live", "failed"}
=============================================================================

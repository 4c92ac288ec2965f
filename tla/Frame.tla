-------------------------------- MODULE Frame -------------------------------
(* The trpc codec (codec.go, internal/attachment): one unary call encoded, *)
(* decoded, answered and decoded again, with retries that reuse the        *)
(* client's message.  Bytes are counted, not spelled: a frame carries its  *)
(* protocol head as a record next to the lengths that the decoder cuts by. *)
EXTENDS Integers, FiniteSets

CONSTANTS
  FrameHeadLen,  \* 16 in the code
  MaxHeader,     \* math.MaxUint16
  MaxFrameSize,  \* DefaultMaxFrameSize
  Word,          \* 2^32, the modulus of lengths and request ids
  Requests,      \* the client messages: [body, attm, meta, env, dyeingKey, dyeing]
  Outcomes,      \* what a handler leaves: [err, body, attm, meta]
  Attempts       \* 1..n, encodings of one message

VARIABLES
  client,    \* the client's message
  exchange,  \* the exchange that each attempt started
  result     \* what Decode made of a response

frameVars == <<client, exchange, result>>

TransKeys == {"k", "env", "dyeing"}
NoExchange == [stage |-> "idle"]

----------------------------------------------------------------------------
(* Frames *)

\* proto.Marshal of a head: a byte and one more for every TransInfo entry.
Size(head) == 1 + Cardinality(DOMAIN head.trans)

\* construct: an error, or the frame with its lengths.
construct(id, head, hlen, body, attm) ==
  LET total == FrameHeadLen + hlen + body + attm IN
  CASE hlen > MaxHeader -> [err |-> "head"]
    [] hlen <= MaxHeader /\ total > MaxFrameSize -> [err |-> "frame"]
    [] OTHER -> [err |-> "none", id |-> id % Word, total |-> total, hlen |-> hlen,
                 head |-> head, body |-> body, attm |-> attm]

\* Where the decoder finds the parts of a frame: reads past the end panic.
\* The offsets are uint32, the lengths in the frame are those it really has.
Cut(f) ==
  LET attachmentBegin == (f.total - f.head.attachmentSize) % Word
      bodyBegin == FrameHeadLen + f.hlen
  IN IF attachmentBegin > f.total \/ bodyBegin > attachmentBegin
     THEN [panic |-> TRUE, body |-> 0, attm |-> 0]
     ELSE [panic |-> FALSE, body |-> attachmentBegin - bodyBegin,
           attm |-> f.total - attachmentBegin]

\* ReadFrame reads what the length in the frame head says, within the limits.
Readable(f) == f.total >= FrameHeadLen /\ f.total <= MaxFrameSize

----------------------------------------------------------------------------
(* The client's request.  TransInfo maps keys to where their values come   *)
(* from.                                                                   *)

NoTrans == [k \in {} |-> ""]

Merge(trans, keys, v) ==
  [k \in DOMAIN trans \cup keys |-> IF k \in keys THEN v ELSE trans[k]]

\* An environment that only the metadata of the upstream call carries is cleared.
setClientTransInfo(m, trans) ==
  LET dyed == Merge(Merge(trans, m.meta, "meta"), IF m.dyeingKey THEN {"dyeing"} ELSE {}, "own")
  IN IF m.env THEN Merge(dyed, {"env"}, "own")
     ELSE Merge(dyed, DOMAIN dyed \cap {"env"}, "nil")

\* loadOrStoreDefaultRequestProtocol: the head of an earlier attempt is reused.
loadRequestProtocol(m) ==
  IF m.head = "none" THEN [trans |-> NoTrans, dyed |-> FALSE] ELSE [trans |-> m.trans, dyed |-> m.dyed]

updateRequestProtocol(m, id, attm) ==
  LET req == loadRequestProtocol(m) IN
  [id |-> id, trans |-> setClientTransInfo(m, req.trans), dyed |-> req.dyed \/ m.dyeing,
   attachmentSize |-> attm % Word, ret |-> "none", funcRet |-> "none"]

\* ClientCodec.Encode: a new request id, the attachment read to its end.
ClientEncode(i) ==
  /\ exchange[i].stage = "idle" /\ \A j \in Attempts : j < i => exchange[j].stage # "idle"
  /\ client.state = "calling"
  /\ LET id == (client.requestID + 1) % Word
         head == updateRequestProtocol(client, id, client.attm)
         f == construct(id, head, Size(head), client.body, client.attm)
     IN /\ client' = [client EXCEPT !.requestID = id, !.head = "stored", !.trans = head.trans,
                        !.dyed = head.dyed, !.attm = 0,
                        !.state = IF f.err = "none" THEN "waiting" ELSE "failed"]
        /\ exchange' = [exchange EXCEPT ![i] =
                          IF f.err = "none" THEN [stage |-> "request", frame |-> f] ELSE [stage |-> "void"]]
  /\ UNCHANGED result

\* The call times out and a filter calls again with the same message.
Retry ==
  /\ client.state = "waiting"
  /\ client' = [client EXCEPT !.state = "calling"]
  /\ UNCHANGED <<exchange, result>>

----------------------------------------------------------------------------
(* The server *)

\* msgWithRequestProtocol: what the handler sees.
ServerMsg(f, cut) ==
  [id |-> f.head.id, body |-> cut.body, attm |-> cut.attm, meta |-> DOMAIN f.head.trans,
   env |-> IF "env" \in DOMAIN f.head.trans THEN f.head.trans["env"] ELSE "none",
   dyeingKey |-> IF "dyeing" \in DOMAIN f.head.trans THEN f.head.trans["dyeing"] ELSE "none",
   dyeing |-> f.head.dyed]

ServerDecode(i) ==
  /\ exchange[i].stage = "request" /\ Readable(exchange[i].frame)
  /\ LET cut == Cut(exchange[i].frame) IN
     exchange' = [exchange EXCEPT ![i] =
       [stage |-> IF cut.panic THEN "panic" ELSE "handling", msg |-> ServerMsg(exchange[i].frame, cut)]]
  /\ UNCHANGED <<client, result>>

\* getAndInitResponseProtocol: the error's code goes to Ret or to FuncRet, the
\* server's metadata (the request's, and what the handler adds) to TransInfo.
getAndInitResponseProtocol(msg, o) ==
  [id |-> msg.id, trans |-> [k \in msg.meta \cup o.meta |-> "meta"], dyed |-> msg.dyeing,
   attachmentSize |-> o.attm % Word,
   ret |-> IF o.err = "framework" THEN "code" ELSE "none",
   funcRet |-> IF o.err = "business" THEN "code" ELSE "none"]

\* Only the attachment itself is dropped, not its size in the head.
handleEncodeErr(rsp, body) ==
  LET head == [rsp EXCEPT !.trans = NoTrans, !.ret = "RetServerEncodeFail"]
  IN construct(rsp.id, head, Size(head), body, 0)

\* Handle and ServerCodec.Encode; a failed handler has no body.
ServerEncode(i) ==
  /\ exchange[i].stage = "handling"
  /\ \E o \in Outcomes :
       LET msg == exchange[i].msg
           body == IF o.err = "none" THEN o.body ELSE 0
           rsp == getAndInitResponseProtocol(msg, o)
           f == construct(msg.id, rsp, Size(rsp), body, o.attm)
           g == CASE f.err = "head" -> handleEncodeErr(rsp, body)
                  [] f.err = "frame" -> handleEncodeErr(rsp, 0)
                  [] OTHER -> f
       IN exchange' = [exchange EXCEPT ![i] =
            IF g.err = "none"
            THEN [stage |-> "response", frame |-> g, msg |-> msg, outcome |-> o, fits |-> f.err = "none"]
            ELSE [stage |-> "void", msg |-> msg]]
  /\ UNCHANGED <<client, result>>

----------------------------------------------------------------------------
(* The response *)

\* updateMsg: Ret before FuncRet, then the request id.
updateMsg(f, cut) ==
  [panic |-> FALSE, id |-> f.head.id, body |-> cut.body, attm |-> cut.attm,
   meta |-> DOMAIN f.head.trans,
   err |-> CASE f.head.ret # "none" -> "framework" [] f.head.ret = "none" /\ f.head.funcRet # "none" -> "business"
             [] OTHER -> "none",
   ret |-> f.head.ret]
IdMatches(f) == f.head.id = client.requestID

\* ClientCodec.Decode of the response to attempt i, which may be a late one.
AcceptedAny(f) == TRUE
Accepted(f) == IdMatches(f)
ClientDecode(i) ==
  /\ client.state = "waiting" /\ exchange[i].stage = "response"
  /\ LET f == exchange[i].frame
         cut == Cut(f)
         got == updateMsg(f, cut)
     IN /\ result' = CASE cut.panic -> [got EXCEPT !.panic = TRUE]
                       [] ~cut.panic /\ ~Accepted(f) -> [got EXCEPT !.err = "decode"]
                       [] OTHER -> got
        /\ client' = [client EXCEPT !.state = "done",
                        !.meta = IF cut.panic THEN @ ELSE @ \cup got.meta]
  /\ UNCHANGED exchange

----------------------------------------------------------------------------

Init ==
  /\ \E r \in Requests, id \in {0, Word - 1} :
       client = [body |-> r.body, attm |-> r.attm, meta |-> r.meta, env |-> r.env,
                 dyeingKey |-> r.dyeingKey, dyeing |-> r.dyeing, want |-> r.attm, sent |-> r.meta,
                 head |-> "none", trans |-> NoTrans, dyed |-> FALSE,
                 requestID |-> id, state |-> "calling"]
  /\ exchange = [i \in Attempts |-> NoExchange]
  /\ result = [err |-> "pending"]

FrameNext ==
  \/ Retry
  \/ \E i \in Attempts : ClientEncode(i) \/ ServerDecode(i) \/ ServerEncode(i) \/ ClientDecode(i)

----------------------------------------------------------------------------
(* Properties *)

\* The handler sees the body, metadata, dyeing and environment of the client's
\* message, never an environment that only the upstream's metadata named, and
\* the first attempt's attachment (a retry finds the reader at its end).
RequestIntact ==
  \A i \in Attempts : exchange[i].stage \in {"handling", "response"} =>
    LET msg == exchange[i].msg IN
    /\ msg.body = client.body /\ msg.dyeing = client.dyeing
    /\ msg.attm = IF i = 1 THEN client.want ELSE 0
    /\ client.sent \subseteq msg.meta
    /\ msg.env \in IF client.env THEN {"own"} ELSE {"none", "nil"}
    /\ client.dyeingKey => msg.dyeingKey = "own"

\* A response that Decode accepts is the one to the last request of this
\* message, with the outcome of its handler: the same kind of error, or the
\* body and the attachment to the byte.  Late responses are refused.
ResponseOwn ==
  result.err # "pending" /\ ~result.panic /\ result.err # "decode" =>
    \E i \in Attempts :
      /\ exchange[i].stage = "response" /\ exchange[i].msg.id = client.requestID
      /\ i < Cardinality(Attempts) => exchange[i + 1].stage = "idle"
      /\ exchange[i].fits =>
           /\ result.err = exchange[i].outcome.err
           /\ result.err = "none" =>
                result.body = exchange[i].outcome.body /\ result.attm = exchange[i].outcome.attm
      /\ ~exchange[i].fits => result.err = "framework"

\* A response that does not fit into a frame reaches the client as the error
\* RetServerEncodeFail, as handleEncodeErr says.
EncodeFailureArrives ==
  result.err # "pending" =>
    \A i \in Attempts :
      exchange[i].stage = "response" /\ ~exchange[i].fits /\ exchange[i].frame.id = client.requestID =>
        ~result.panic /\ result.ret = "RetServerEncodeFail"

\* Decode panics only for a response that did not fit and had an attachment.
PanicsOnlyOnLostAttachment ==
  result.err # "pending" /\ result.panic =>
    \E i \in Attempts : exchange[i].stage = "response" /\ ~exchange[i].fits /\ exchange[i].outcome.attm > 0
=============================================================================

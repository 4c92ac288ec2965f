------------------------------- MODULE Http -------------------------------
(* One call over HTTP, from the client's message to its result: the client *)
(* and server codecs of net/http ("std") and of fasthttp ("fast"), the     *)
(* client transports that build the request, and the (de)serialization of  *)
(* package client and package server around them.                          *)
(*                                                                         *)
(* A body is known by the format it is written in; a header that is absent *)
(* or empty reads as "".                                                   *)
EXTENDS Naturals, FiniteSets

CONSTANTS
  Exchanges,    \* what the caller asks for and what the server does with it
  Mapped,       \* ErrsToHTTPStatus
  OK, Multiple, InternalError,  \* the statuses 200, 300 and 500
  EventCode,    \* the code of an event handler's business error
  Malformed     \* a header that is no number

VARIABLES
  exchange,     \* the exchange under way
  client,       \* the client's message
  request,      \* the request on the wire
  server,       \* the server's message
  response,     \* the response on the wire
  outcome       \* what the caller gets
httpVars == <<exchange, client, request, server, response, outcome>>

NoError == [type |-> "none", code |-> 0]
Failure(type, code) == [type |-> type, code |-> code]
ErrServerNoResponse == Failure("framework", 0)
ServerDecodeFail == 1
ClientTimeout == 101
ClientConnectFail == 111
ClientEncodeFail == 121
ClientDecodeFail == 122
ClientNetErr == 141
ClientCanceled == 161
TransportCodes == {ClientTimeout, ClientCanceled, ClientNetErr}
Empty == [ser |-> "", comp |-> ""]
Nothing == [pc |-> "none"]

-----------------------------------------------------------------------------
(* contentTypeSerializationType and its inverse, as registered by default. *)
contentTypeSerializationType ==
  [json |-> "JSON", protobuf |-> "PB", proto |-> "PB", form |-> "Form", multipart |-> "FormData"]
serializationTypeContentType(t) ==
  CASE t = "JSON" -> "json" [] t = "PB" -> "proto" [] t = "Form" -> "form" [] t = "FormData" -> "multipart"
    [] OTHER -> ""
contentEncodingCompressType(ce) == IF ce = "gzip" THEN "gzip" ELSE "noop"
compressTypeContentEncoding(t) == IF t = "gzip" THEN "gzip" ELSE ""

\* Mutant: the first match only, whatever was sent.
ContentTypeAny(ct) == IF ct = "" THEN {} ELSE {"JSON"}
\* A content type is looked up by the registered names it contains, in no order:
\* application/protobuf contains application/proto.
ContentType(ct) ==
  {contentTypeSerializationType[n] :
     n \in {n \in DOMAIN contentTypeSerializationType : n = ct \/ (ct = "protobuf" /\ n = "proto")}}

\* The serializers: Get and FormData answer in JSON, and all three read a query string.
Marshal(t) == IF t \in {"Get", "FormData"} THEN "JSON" ELSE t
Readable(t, body) ==
  body = Empty \/ t = "Unsupported" \/ body.ser = (IF t \in {"Get", "FormData"} THEN "Form" ELSE t)

\* serializeAndCompress and handleResponse: the format of a body that has content.
Serialized(t, comp) == IF t = "Unsupported" THEN Empty ELSE [ser |-> Marshal(t), comp |-> comp]
\* decompressAndUnmarshal and processResponseBuf: what the reader makes of it.
Unserialized(t, comp, body) ==
  IF body = Empty THEN "empty"
  ELSE IF body.comp = comp /\ Readable(t, body) THEN (IF t = "Unsupported" THEN "empty" ELSE "read")
  ELSE "garbled"

-----------------------------------------------------------------------------
(* Trans-info: values are base64 unless disabled; the reader takes a value *)
(* that does not decode as it is.                                          *)
encodeString(v, disabled) == [raw |-> disabled, value |-> v]
unmarshalTransInfo(m) ==
  [k \in DOMAIN m |-> IF m[k].raw /\ m[k].value = "base64like" THEN "decoded" ELSE m[k].value]

\* setTransInfo of both client transports.
setTransInfo(c) ==
  LET meta == [k \in DOMAIN c.meta |-> encodeString(c.meta[k], c.disable64)]
      dyed == IF c.dyeing THEN [k \in {"dyeing"} |-> encodeString("key", c.disable64)] ELSE <<>>
      env  == IF c.env # "" THEN [k \in {"env"} |-> encodeString(c.env, c.disable64)]
              ELSE IF "env" \in DOMAIN c.meta THEN [k \in {"env"} |-> [raw |-> TRUE, value |-> ""]] ELSE <<>>
  IN [k \in DOMAIN meta \cup DOMAIN dyed \cup DOMAIN env |->
        IF k \in DOMAIN env THEN env[k] ELSE IF k \in DOMAIN dyed THEN dyed[k] ELSE meta[k]]

-----------------------------------------------------------------------------
Init ==
  /\ exchange \in Exchanges
  /\ client = [pc |-> "idle"] /\ request = Nothing /\ server = Nothing /\ response = Nothing
  /\ outcome = Nothing

Fails(e) == outcome' = [pc |-> "done", err |-> e, body |-> "empty"]

\* serializeAndCompress: the body the codec gets.
serializeAndCompress(c) == IF c.hasBody THEN Serialized(c.ser, c.comp) ELSE Empty

\* ClientCodec.Encode: heads of the wrong type are refused, the method follows the body, and an
\* event handler asks for an event stream.
Encoded(c) ==
  LET body == serializeAndCompress(c) IN
  [pc |-> "encoded", body |-> body, ser |-> c.ser, comp |-> c.comp, accept |-> "", cancel |-> "none",
   method |-> IF c.method # "" THEN c.method ELSE IF body = Empty THEN "GET" ELSE "POST"]

tryFillSSEHeaders(m, c) == [m EXCEPT !.accept = IF c.reader = "sse" THEN "events" ELSE @]

Encode ==
  LET c == exchange.client IN
  /\ client.pc = "idle" /\ c.kind = "std"
  /\ IF c.headsFit
     THEN client' = tryFillSSEHeaders(Encoded(c), c) /\ UNCHANGED outcome
     ELSE client' = [pc |-> "done"] /\ Fails(Failure("framework", ClientEncodeFail))
  /\ UNCHANGED <<exchange, request, server, response>>

\* FastHTTPClientCodec.Encode leaves the event stream to the transport.
FastEncode ==
  LET c == exchange.client IN
  /\ client.pc = "idle" /\ c.kind = "fast"
  /\ IF c.headsFit
     THEN client' = Encoded(c) /\ UNCHANGED outcome
     ELSE client' = [pc |-> "done"] /\ Fails(Failure("framework", ClientEncodeFail))
  /\ UNCHANGED <<exchange, request, server, response>>

\* getRequest: what the message says goes into headers.  A serialization type or a compression
\* without a registered name is sent as an empty header.
getRequest(c) ==
  [pc |-> "sent", method |-> client.method, body |-> client.body, accept |-> client.accept,
   contentType |-> IF c.contentType # "" THEN c.contentType
                   ELSE IF c.ser = "Noop" THEN "" ELSE serializationTypeContentType(c.ser),
   encoding |-> compressTypeContentEncoding(c.comp), timeout |-> c.timeout,
   trans |-> setTransInfo(c), dyed |-> c.dyeing, close |-> c.disablePool]

\* FastHTTPClientTransport.getRequest: a request of the caller's is used as it is, another acquired;
\* only the caller's own survives the call.
FastGetRequest(c) == [getRequest(c) EXCEPT !.accept = IF c.reader = "sse" THEN "events" ELSE @]

\* RoundTrip: sent, or failed in one of the ways the transport tells apart.  A body that the caller
\* reads has a deadline of its own, which a failure releases and otherwise the body's Close.
RoundTrip ==
  LET c == exchange.client IN
  /\ client.pc = "encoded" /\ c.kind = "std"
  /\ \/ /\ request' = getRequest(c)
        /\ client' = [client EXCEPT !.pc = "waiting", !.cancel = IF c.reader = "manual" THEN "armed" ELSE @]
        /\ UNCHANGED outcome
     \/ /\ \E code \in TransportCodes : Fails(Failure("framework", code))
        /\ client' = [client EXCEPT !.pc = "done", !.cancel = IF c.reader = "manual" THEN "released" ELSE @]
        /\ UNCHANGED request
  /\ UNCHANGED <<exchange, server, response>>

FastRoundTrip ==
  LET c == exchange.client IN
  /\ client.pc = "encoded" /\ c.kind = "fast"
  /\ \/ /\ request' = FastGetRequest(c)
        /\ client' = [client EXCEPT !.pc = "waiting"]
        /\ UNCHANGED outcome
     \/ /\ \E code \in TransportCodes \cup {ClientConnectFail, ClientEncodeFail} : Fails(Failure("framework", code))
        /\ client' = [client EXCEPT !.pc = "done"]
        /\ UNCHANGED request
  /\ UNCHANGED <<exchange, server, response>>

-----------------------------------------------------------------------------
\* getBody: a multipart body that does not parse is an error, one that does reads as a query.
getBody(t) ==
  IF request.contentType # "multipart" THEN {[ser |-> t, body |-> request.body]}
  ELSE IF request.body.ser # "Noop" THEN {} ELSE {[ser |-> t, body |-> [request.body EXCEPT !.ser = "Form"]]}

\* getReqbody: a GET reads its query; any other method its body, if the content type is known.
getReqbody(s) ==
  IF ~s.autoRead THEN {[ser |-> "PB", body |-> Empty]}
  ELSE IF request.method = "GET" THEN {[ser |-> "Get", body |-> exchange.client.query]}
  ELSE IF ContentType(request.contentType) = {} THEN {[ser |-> "JSON", body |-> Empty]}
  ELSE UNION {getBody(t) : t \in ContentType(request.contentType)}

\* FastHTTPServerCodec.getReqBody may allow POST only.
FastGetReqBody(s) == IF s.autoRead /\ s.postOnly /\ request.method # "POST" THEN {} ELSE getReqbody(s)

NoHead == [timeout |-> 0, dyeing |-> FALSE, meta |-> <<>>, env |-> ""]

\* setReqHeader: a number that does not parse counts as 0.
setReqHeader(s) ==
  LET trans == unmarshalTransInfo(request.trans) IN
  IF ~s.autoHead THEN NoHead
  ELSE [timeout |-> IF request.timeout = Malformed THEN 0 ELSE request.timeout, dyeing |-> request.dyed, meta |-> trans,
        env |-> IF "env" \in DOMAIN trans THEN trans["env"] ELSE ""]

\* FastHTTPServerCodec.setReqHeader: a number that does not parse is an error.
FastSetReqHeader(s) == IF s.autoHead /\ request.timeout = Malformed THEN {} ELSE {setReqHeader(s)}

updateMsg == IF request.encoding # "" THEN contentEncodingCompressType(request.encoding) ELSE "noop"

Undecodable == [pc |-> "failed", err |-> Failure("framework", ServerDecodeFail), ser |-> "PB", comp |-> "noop",
                meta |-> <<>>, head |-> NoHead]
Decoded(b, h) == [pc |-> "decoded", ser |-> b.ser, body |-> b.body, meta |-> h.meta, head |-> h, err |-> NoError,
                  comp |-> updateMsg]

\* ServerCodec.Decode, and FastHTTPServerCodec.Decode.
Decode ==
  LET s == exchange.server IN
  /\ request.pc = "sent" /\ server = Nothing /\ s.kind = "std"
  /\ server' \in IF getReqbody(s) = {} THEN {Undecodable} ELSE {Decoded(b, setReqHeader(s)) : b \in getReqbody(s)}
  /\ UNCHANGED <<exchange, client, request, response, outcome>>

FastDecode ==
  LET s == exchange.server IN
  /\ request.pc = "sent" /\ server = Nothing /\ s.kind = "fast"
  /\ server' \in IF FastGetReqBody(s) = {} \/ FastSetReqHeader(s) = {} THEN {Undecodable}
                 ELSE {Decoded(b, h) : b \in FastGetReqBody(s), h \in FastSetReqHeader(s)}
  /\ UNCHANGED <<exchange, client, request, response, outcome>>

\* service.decompressAndUnmarshal: the body is read in the request's own format.
decompressAndUnmarshal == Unserialized(server.ser, server.comp, server.body)

\* service.handle: the body is read, the handler runs.
Handle ==
  LET read == decompressAndUnmarshal
      err == IF read = "garbled" THEN Failure("framework", ServerDecodeFail) ELSE exchange.server.answers
  IN /\ server.pc = "decoded"
     /\ server' = [pc |-> IF err = NoError THEN "handled" ELSE "failed", err |-> err, ser |-> server.ser,
                   comp |-> server.comp, read |-> read, meta |-> server.meta, head |-> server.head]
     /\ UNCHANGED <<exchange, client, request, response, outcome>>

-----------------------------------------------------------------------------
\* ErrHandler: the code goes into the header of its kind, and decides the status if it is mapped.
ErrHandler(e) ==
  [ret |-> IF e.type = "framework" THEN e.code ELSE 0,
   funcRet |-> IF e.type # "framework" THEN e.code ELSE 0,
   status |-> IF e.code \in DOMAIN Mapped THEN Mapped[e.code] ELSE OK]
FastErrHandler(e) == ErrHandler(e)

\* The response's content type: the handler's, else the request's, JSON for a GET; a multipart
\* request is answered in JSON.
ResponseContentType ==
  LET ct == IF exchange.server.contentType # "" THEN exchange.server.contentType
            ELSE IF request.method = "GET" \/ request.contentType = "" THEN "json" ELSE request.contentType
  IN IF ct = "multipart" THEN "json" ELSE ct
\* fasthttp has a default of its own, which stands for none.
handleContentTypeForCompatibility(ct) == IF ct = "fasthttp's" THEN ResponseContentType ELSE ct

\* service.handleResponse: the answer is marshalled as the request was.
handleResponse == IF exchange.server.hasBody THEN Serialized(server.ser, server.comp) ELSE Empty

Answer(ct, e) ==
  [pc |-> "sent", contentType |-> ct, encoding |-> compressTypeContentEncoding(server.comp),
   trans |-> [k \in DOMAIN server.meta |-> encodeString(server.meta[k], exchange.server.disable64)],
   ret |-> e.ret, funcRet |-> e.funcRet, status |-> e.status, body |-> IF server.pc = "failed" THEN Empty ELSE handleResponse]
Plain(status, body) ==
  [pc |-> "sent", contentType |-> "json", encoding |-> "", trans |-> <<>>, ret |-> 0, funcRet |-> 0, status |-> status,
   body |-> body]

\* ServerCodec.Encode.  A handler that answers nothing is not encoded: serveFunc answers 500.
ServerEncode ==
  /\ server.pc \in {"handled", "failed"} /\ response = Nothing /\ exchange.server.kind = "std"
  /\ response' = IF server.err = ErrServerNoResponse THEN Plain(InternalError, Empty)
                 ELSE Answer(ResponseContentType, ErrHandler(server.err))
  /\ UNCHANGED <<exchange, client, request, server, outcome>>

FastServerEncode ==
  /\ server.pc \in {"handled", "failed"} /\ response = Nothing /\ exchange.server.kind = "fast"
  /\ response' = IF server.err = ErrServerNoResponse THEN Plain(InternalError, Empty)
                 ELSE Answer(handleContentTypeForCompatibility(
                               IF exchange.server.contentType = "" THEN "fasthttp's" ELSE exchange.server.contentType),
                             FastErrHandler(server.err))
  /\ UNCHANGED <<exchange, client, request, server, outcome>>

\* A server that is not this framework's answers a status and a body of its own.
Foreign ==
  LET s == exchange.server IN
  /\ request.pc = "sent" /\ s.kind = "foreign" /\ response = Nothing
  /\ response' = Plain(s.status, IF s.hasBody THEN [ser |-> "JSON", comp |-> "noop"] ELSE Empty)
  /\ UNCHANGED <<exchange, client, request, server, outcome>>

-----------------------------------------------------------------------------
\* handleSSE, and the caller's other handler: an error ends the call, but a business error of an
\* event handler is the call's own.
HandlerError(c) == IF c.reader = "sse" /\ c.readerFails = "business" THEN "business" ELSE c.readerFails

\* handleResponseBody: left to the caller, read by the caller's handlers, or read here.
handleResponseBody(c) ==
  [err |-> IF c.reader \in {"sse", "handler"} THEN HandlerError(c) ELSE "",
   body |-> IF c.reader = "codec" THEN response.body ELSE Empty]
\* handleFastHTTPResponseBody: an empty body is read by nobody.
handleFastHTTPResponseBody(c) == IF response.body = Empty THEN [err |-> "", body |-> Empty] ELSE handleResponseBody(c)

\* The headers tell the framework's error, then the function's, then the status.
ResponseError(own) ==
  IF response.ret # 0 THEN Failure("calleeFramework", response.ret)
  ELSE IF response.funcRet # 0 THEN Failure("business", response.funcRet)
  ELSE IF response.status >= Multiple THEN Failure("business", response.status)
  ELSE own
defaultFastHTTPDecodeErrHandler(own) == IF response.ret # 0 THEN Failure("framework", response.ret) ELSE ResponseError(own)

\* processResponseBuf: the response's own format if it names one, else the request's.
processResponseBuf(body) ==
  LET comp == IF response.encoding # "" THEN contentEncodingCompressType(response.encoding) ELSE client.comp
      types == IF ContentType(response.contentType) = {} THEN {client.ser} ELSE ContentType(response.contentType)
  IN {Unserialized(t, comp, body) : t \in types}

\* cli.RoundTrip and FastHTTPCli.RoundTrip: for a raw client, an error that only repeats the status
\* is none.
RawError(e) == IF exchange.client.raw /\ e.code = response.status THEN NoError ELSE e

Returns(h, err) ==
  IF h.err = "error" THEN Fails(Failure("framework", ClientDecodeFail))
  ELSE IF err # NoError THEN Fails(RawError(err))
  ELSE \E r \in processResponseBuf(h.body) :
         outcome' = [pc |-> "done", body |-> r,
                     err |-> IF r = "garbled" THEN Failure("framework", ClientDecodeFail) ELSE NoError]
EventError(h) == IF h.err = "business" THEN Failure("business", EventCode) ELSE NoError

\* ClientCodec.Decode, and FastHTTPClientCodec.Decode.
ClientDecode ==
  LET h == handleResponseBody(exchange.client) IN
  /\ client.pc = "waiting" /\ response.pc = "sent" /\ exchange.client.kind = "std"
  /\ client' = [client EXCEPT !.pc = "done"]
  /\ Returns(h, ResponseError(EventError(h)))
  /\ UNCHANGED <<exchange, request, server, response>>

FastClientDecode ==
  LET h == handleFastHTTPResponseBody(exchange.client) IN
  /\ client.pc = "waiting" /\ response.pc = "sent" /\ exchange.client.kind = "fast"
  /\ client' = [client EXCEPT !.pc = "done"]
  /\ Returns(h, defaultFastHTTPDecodeErrHandler(EventError(h)))
  /\ UNCHANGED <<exchange, request, server, response>>

\* The caller closes a body that it reads itself: decorateWithCancel.
CloseBody ==
  /\ client.pc = "done" /\ "cancel" \in DOMAIN client /\ client.cancel = "armed"
  /\ client' = [client EXCEPT !.cancel = "released"]
  /\ UNCHANGED <<exchange, request, server, response, outcome>>

HttpNext ==
  \/ Encode \/ RoundTrip \/ ClientDecode \/ FastEncode \/ FastRoundTrip \/ FastClientDecode \/ CloseBody
  \/ Decode \/ FastDecode \/ Handle \/ ServerEncode \/ FastServerEncode \/ Foreign
Spec == Init /\ [][HttpNext]_httpVars

-----------------------------------------------------------------------------
\* The serialization types and compressions with a registered header.
Announced(c) == c.ser \in {"JSON", "PB", "Form"} /\ c.comp \in {"noop", "gzip"} /\ c.contentType = ""
\* A query is never compressed, but the request still names the compression.
CompressedQuery == request.pc = "sent" /\ request.method = "GET" /\ request.encoding # ""

(* A body is read in the format and the compression it was written in, in  *)
(* both directions and between all four pairs of codecs, so long as the    *)
(* type has a registered content type and the compression a content        *)
(* encoding, and no query is announced as compressed (codec.go getReqbody, *)
(* Encode; transport.go getRequest).                                       *)
BodiesReadAsWritten ==
  Announced(exchange.client) /\ ~CompressedQuery /\ exchange.server.contentType = "" =>
    /\ server.pc \in {"handled", "failed"} /\ "read" \in DOMAIN server /\ exchange.server.autoRead =>
         server.read = IF IF request.method = "GET" THEN exchange.client.query # Empty ELSE exchange.client.hasBody
                       THEN "read" ELSE "empty"
    /\ outcome.pc = "done" => outcome.body # "garbled"

(* What the handler reads of the caller's metadata, environment, dyeing    *)
(* and time-out is what the caller sent; base64 protects values that look  *)
(* encoded themselves (setTransInfo, unmarshalTransInfo, setReqHeader).    *)
MetaArrives ==
  server.pc \in {"decoded", "handled"} /\ exchange.server.autoHead =>
    LET c == exchange.client
        h == server.head
        safe(v) == v # "base64like" \/ ~c.disable64
    IN /\ (c.timeout # Malformed => h.timeout = c.timeout) /\ h.dyeing = c.dyeing
       /\ safe(c.env) => h.env = c.env
       /\ \A k \in DOMAIN c.meta : k \notin {"env", "dyeing"} /\ safe(c.meta[k]) => h.meta[k] = c.meta[k]
       /\ DOMAIN h.meta \subseteq DOMAIN c.meta \cup {"env", "dyeing"}

(* The caller gets an error exactly when the server had one to tell, with  *)
(* its code and kind, whatever status it was mapped to; a silent server is *)
(* a status; a raw client hands every plain HTTP answer back as an answer; *)
(* and a caller that reads the body itself holds its deadline until it     *)
(* closes the body, unless nothing was sent (Encode's ErrHandler, Decode,  *)
(* cli.RoundTrip, ClientTransport.RoundTrip).                              *)
ErrorsArrive ==
  /\ outcome.pc = "done" /\ response.pc = "sent" /\ outcome.body # "garbled" /\ exchange.client.readerFails = "" =>
       LET s == exchange.server IN
       IF s.kind = "foreign" \/ server.err = ErrServerNoResponse
       THEN outcome.err = IF response.status >= Multiple /\ ~exchange.client.raw
                          THEN Failure("business", response.status) ELSE NoError
       ELSE /\ outcome.err.code = server.err.code
            /\ (outcome.err.type = "business") = (server.err.type = "business")
  /\ outcome.pc = "done" /\ "cancel" \in DOMAIN client /\ client.cancel = "armed" => response.pc = "sent"
=============================================================================

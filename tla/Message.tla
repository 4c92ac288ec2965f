------------------------------ MODULE Message -------------------------------
(* The pooled message that travels with a call (codec/message.go and       *)
(* codec/message_impl.go).  A string is a sequence of characters, the zero *)
(* value of every field is the empty sequence, and a metadata map is a     *)
(* reference to the place it was made for, so that sharing can be seen.    *)
EXTENDS Integers, Sequences, FiniteSets

CONSTANTS
  Msgs,      \* the message objects
  MaxCalls,  \* bound: calls of setters in a behaviour
  Names      \* the names whose parsing is compared with its description

VARIABLES
  msgs,    \* the fields of every object
  held,    \* objects handed out by the pool and not put back
  setters,   \* calls of setters so far
  copy,    \* <<dst, src>> after CopyMsg, else <<>>
  parsed   \* a name that was parsed

messageVars == <<msgs, held, setters, copy, parsed>>

None == <<>>
Some == <<"v">>
Maps == {"serverMetaData", "clientMetaData", "commonMeta"}
Environment == {"namespace", "envName", "setName", "calleeSetName", "envTransfer",
                "remoteAddr", "localAddr"}
Formats == {"requestTimeout", "frameHead", "serializationType", "compressType"}
Heads == {"serverReqHead", "serverRspHead", "clientReqHead", "clientRspHead",
          "dyeing", "dyeingKey"}
CallerFields == {"callerApp", "callerServer", "callerService", "callerMethod"}
Callees == {"calleeApp", "calleeServer", "calleeService", "calleeMethod"}
Trailer == {"logger", "requestID", "callType"}
Framing == {"calleeContainerName", "streamFrame"}
Results == {"streamID", "clientRspErr"}
Named == {"serverRPCName", "clientRPCName", "callerServiceName", "calleeServiceName",
          "serverRspErr"}
Fields == UNION {Maps, Environment, Formats, Heads, CallerFields, Callees, Trailer,
                 Framing, Results, Named}
Zero == [f \in Fields |-> None]

----------------------------------------------------------------------------
(* Names *)

Positions(s, c) == {i \in DOMAIN s : s[i] = c}
Least(S) == CHOOSE i \in S : \A j \in S : i <= j
Greatest(S) == CHOOSE i \in S : \A j \in S : j <= i

\* strings.Index from position i on: 0 if there is none.
Index(s, c, i) ==
  LET P == {p \in Positions(s, c) : p >= i} IN IF P = {} THEN 0 ELSE Least(P)

\* strings.LastIndex
methodFromRPCName(s) ==
  LET P == Positions(s, "/") IN
  IF P = {} THEN s ELSE SubSeq(s, Greatest(P) + 1, Len(s))

getAppServerService(s) ==
  LET dot1 == Index(s, ".", 1)
      dot2 == Index(s, ".", dot1 + 1)
      dot3 == Index(s, ".", dot2 + 1)
  IN CASE Cardinality(Positions(s, ".")) >= 3 ->
            <<SubSeq(s, dot1 + 1, dot2 - 1), SubSeq(s, dot2 + 1, dot3 - 1),
              SubSeq(s, dot3 + 1, Len(s))>>
       [] dot1 = 0 -> <<s, None, None>>
       [] dot1 > 0 /\ dot2 = 0 -> <<SubSeq(s, 1, dot1 - 1), SubSeq(s, dot1 + 1, Len(s)), None>>
       [] OTHER -> <<SubSeq(s, 1, dot1 - 1), SubSeq(s, dot1 + 1, dot2 - 1),
                     SubSeq(s, dot2 + 1, Len(s))>>

\* Mutant: the test for an empty service after the dot is forgotten.
rpcNameLoose(s) ==
  LET dot == Index(s, ".", 2)
      slash == Index(s, "/", dot)
  IN /\ Len(s) > 0 /\ s[1] = "/" /\ dot > 2
     /\ Index(s, "/", 2) \notin 2..(dot - 1)
     /\ slash > 0 /\ slash < Len(s)
     /\ Positions(s, "/") \cup Positions(s, ".") \subseteq 1..slash
rpcNameIsTRPCForm(s) ==
  LET dot == Index(s, ".", 2)
      slash == Index(s, "/", dot)
  IN /\ Len(s) > 0 /\ s[1] = "/" /\ dot > 2
     /\ Index(s, "/", 2) \notin 2..(dot - 1)
     /\ slash > dot + 1 /\ slash < Len(s)
     /\ Positions(s, "/") \cup Positions(s, ".") \subseteq 1..slash

\* Parsing has no state; the results for s are compared in NamesParsed.
Parse(s) ==
  /\ held = {} /\ setters = 0 /\ parsed = None
  /\ parsed' = s /\ copy' = None /\ UNCHANGED <<msgs, held, setters>>

----------------------------------------------------------------------------
(* Setters, as functions on the fields of one message *)

updateMethodNameUsingRPCName(m, s) ==
  CASE rpcNameIsTRPCForm(s) -> [m EXCEPT !.calleeMethod = methodFromRPCName(s)]
    [] ~rpcNameIsTRPCForm(s) /\ m.calleeMethod = None -> [m EXCEPT !.calleeMethod = s]
    [] OTHER -> m

WithServerRPCName(m, s) ==
  IF m.serverRPCName = s THEN m
  ELSE updateMethodNameUsingRPCName([m EXCEPT !.serverRPCName = s], s)
WithClientRPCName(m, s) ==
  IF m.clientRPCName = s THEN m
  ELSE updateMethodNameUsingRPCName([m EXCEPT !.clientRPCName = s], s)

WithCalleeServiceName(m, s) ==
  LET p == getAppServerService(s)
      n == [m EXCEPT !.calleeServiceName = s]
  IN CASE m.calleeServiceName = s -> m
       [] m.calleeServiceName # s /\ s = <<"*">> -> n
       [] OTHER -> [n EXCEPT !.calleeApp = p[1], !.calleeServer = p[2], !.calleeService = p[3]]
WithCallerServiceName(m, s) ==
  LET p == getAppServerService(s)
      n == [m EXCEPT !.callerServiceName = s]
  IN CASE m.callerServiceName = s -> m
       [] m.callerServiceName # s /\ s = <<"*">> -> n
       [] OTHER -> [n EXCEPT !.callerApp = p[1], !.callerServer = p[2], !.callerService = p[3]]

\* An error that is not an *errs.Error reads as a business error.
ServerRspErr(m) == IF m.serverRspErr = <<"plain">> THEN <<"business">> ELSE m.serverRspErr

\* A map made for field f of message x is <<x, f>>: a field with another value
\* shares the map it names.
Clone(map, x, f) == IF map = None THEN None ELSE <<x, f>>

----------------------------------------------------------------------------
(* The pool *)

resetDefault(m) == Zero

copyCommonMessage(m, n, x) ==
  [f \in Fields |->
     CASE f \in {"frameHead", "requestTimeout", "serializationType", "serverRPCName",
                 "clientRPCName", "serverReqHead", "serverRspHead", "dyeing", "dyeingKey",
                 "logger", "namespace", "envName", "setName", "envTransfer"} -> m[f]
       [] f \in {"serverMetaData", "commonMeta"} -> Clone(m[f], x, f)
       [] OTHER -> n[f]]

\* The server of one call is the caller of the next.
copyServerToClientMessage(m, n, x) ==
  [n EXCEPT !.clientMetaData = Clone(m.serverMetaData, x, "clientMetaData"),
            !.callerServiceName = m.calleeServiceName, !.callerApp = m.calleeApp,
            !.callerServer = m.calleeServer, !.callerService = m.calleeService,
            !.callerMethod = m.calleeMethod]
copyServerToServerMessage(m, n) ==
  [f \in Fields |->
     IF f \in CallerFields \cup Callees \cup {"callerServiceName", "calleeServiceName"}
     THEN m[f] ELSE n[f]]

\* The pool is a sync.Pool: it returns one of the free objects.
Take(x, m) ==
  /\ x \notin held
  /\ held' = held \cup {x}
  /\ msgs' = [msgs EXCEPT ![x] = m]
  /\ copy' = None /\ parsed' = None /\ UNCHANGED setters
WithNewMessage(x) == Take(x, msgs[x])
\* EnsureMessage makes a message for a context that has none.
EnsureMessage(x) == held = {} /\ WithNewMessage(x)
WithCloneMessage(x, m) ==
  /\ m \in held
  /\ Take(x, copyServerToClientMessage(msgs[m], copyCommonMessage(msgs[m], msgs[x], x), x))
WithCloneContextAndMessage(x, m) ==
  /\ m \in held
  /\ Take(x, copyServerToServerMessage(msgs[m], copyCommonMessage(msgs[m], msgs[x], x)))
PutBackMessage(x) ==
  /\ x \in held
  /\ held' = held \ {x}
  /\ msgs' = [msgs EXCEPT ![x] = resetDefault(@)]
  /\ copy' = None /\ parsed' = None /\ UNCHANGED setters

----------------------------------------------------------------------------
(* CopyMsg and the setters as calls *)

CopyNames(d, s) ==
  WithCalleeServiceName(
    WithCallerServiceName(
      WithClientRPCName(WithServerRPCName(d, s.serverRPCName), s.clientRPCName),
      s.callerServiceName),
    s.calleeServiceName)
CopyPlain(d, s, x) ==
  [f \in Fields |->
     CASE f \in {"serverRPCName", "clientRPCName", "callerServiceName", "calleeServiceName"} -> d[f]
       [] f = "serverRspErr" -> ServerRspErr(s)
       [] f \in {"serverMetaData", "clientMetaData"} -> <<x, f>>  \* nil becomes an empty map
       [] f = "commonMeta" -> Clone(s[f], x, f)
       [] OTHER -> s[f]]
CopyAll(d, s, x) == CopyPlain(CopyNames(d, s), s, x)
CopyMsg(d, s) ==
  /\ d \in held /\ s \in held /\ d # s
  /\ msgs' = [msgs EXCEPT ![d] = CopyAll(msgs[d], msgs[s], d)]
  /\ copy' = <<d, s>> /\ parsed' = None /\ UNCHANGED <<held, setters>>

Set(x, m) ==
  /\ x \in held /\ setters < MaxCalls
  /\ msgs' = [msgs EXCEPT ![x] = m]
  /\ setters' = setters + 1 /\ copy' = None /\ parsed' = None /\ UNCHANGED held
\* The plain setters of one kind are called together.
WithField(x, F) == Set(x, [f \in Fields |-> IF f \in F THEN Some ELSE msgs[x][f]])
WithEnvironment(x) == WithField(x, Environment)
WithFormats(x) == WithField(x, Formats)
WithFraming(x) == WithField(x, Framing)
WithResults(x) == WithField(x, Results)
WithHeads(x) == WithField(x, Heads)
WithParties(x) == WithField(x, CallerFields) \/ WithField(x, Callees)
WithTrailer(x) == WithField(x, Trailer)
WithMetaData(x) == \E f \in Maps : Set(x, [msgs[x] EXCEPT ![f] = <<x, f>>])
WithServerRspErr(x) ==
  \E e \in {"framework", "plain"} : Set(x, [msgs[x] EXCEPT !.serverRspErr = <<e>>])
RPCNames == {<<"/", "s", ".", "t", "/", "m">>, <<"n">>}
ServiceNames == {<<"*">>, <<"a">>, <<"t", ".", "a", ".", "s", ".", "x">>}
WithNames(x) ==
  \/ \E s \in RPCNames : Set(x, WithServerRPCName(msgs[x], s)) \/ Set(x, WithClientRPCName(msgs[x], s))
  \/ \E s \in ServiceNames :
       Set(x, WithCalleeServiceName(msgs[x], s)) \/ Set(x, WithCallerServiceName(msgs[x], s))

----------------------------------------------------------------------------

Init ==
  /\ msgs = [x \in Msgs |-> Zero] /\ held = {} /\ setters = 0
  /\ copy = None /\ parsed = None

MessageNext ==
  \/ \E s \in Names : Parse(s)
  \/ \E x \in Msgs :
       \/ WithNewMessage(x) \/ EnsureMessage(x) \/ PutBackMessage(x)
       \/ \E m \in Msgs :
            WithCloneMessage(x, m) \/ WithCloneContextAndMessage(x, m) \/ CopyMsg(x, m)
       \/ WithEnvironment(x) \/ WithFormats(x) \/ WithFraming(x) \/ WithResults(x)
       \/ WithHeads(x) \/ WithParties(x) \/ WithTrailer(x) \/ WithMetaData(x)
       \/ WithServerRspErr(x) \/ WithNames(x)

----------------------------------------------------------------------------
(* Properties *)

TypeOK ==
  /\ held \subseteq Msgs /\ setters \in 0..MaxCalls /\ DOMAIN msgs = Msgs
  /\ \A x \in Msgs : DOMAIN msgs[x] = Fields

\* resetDefault leaves nothing of one call to the next that gets the message
\* from the pool, however it was filled: by setters, a clone or CopyMsg.
RecycledIsFresh == \A x \in Msgs \ held : msgs[x] = Zero

\* No two fields of messages in use share a metadata map, so a filter that
\* writes to one message's metadata never changes another call's.
MapsApart ==
  \A x, y \in held, f, g \in Maps :
    msgs[x][f] = msgs[y][g] /\ msgs[x][f] # None => x = y /\ f = g

\* After CopyMsg the accessors of the two messages agree, whatever was in dst
\* and although the setters for names also write other fields.
CopyAgrees ==
  copy # None =>
    LET d == msgs[copy[1]] s == msgs[copy[2]] IN
    /\ \A f \in Fields \ (Maps \cup {"serverRspErr"}) : d[f] = s[f]
    /\ ServerRspErr(d) = ServerRspErr(s)
    /\ d.commonMeta = None <=> s.commonMeta = None

\* rpcNameIsTRPCForm is the regular expression of its comment, and the parts of
\* a service name, joined, are the name (less its first of four sections).
NamesParsed ==
  LET Plain(t) == t # None /\ Positions(t, "/") \cup Positions(t, ".") = {}
      p == getAppServerService(parsed)
      dots == Cardinality(Positions(parsed, "."))
      tail == SubSeq(parsed, Index(parsed, ".", 1) + 1, Len(parsed))
  IN /\ rpcNameIsTRPCForm(parsed) <=>
          \E i, j \in DOMAIN parsed :
            /\ i < j /\ parsed[1] = "/" /\ parsed[i] = "." /\ parsed[j] = "/"
            /\ Plain(SubSeq(parsed, 2, i - 1)) /\ Plain(SubSeq(parsed, j + 1, Len(parsed)))
            /\ j > i + 1 /\ Positions(parsed, "/") \cap (i + 1)..(j - 1) = {}
     /\ CASE dots = 0 -> p = <<parsed, None, None>>
          [] dots = 1 -> p[1] \o <<".">> \o p[2] = parsed /\ p[3] = None
          [] dots = 2 -> p[1] \o <<".">> \o p[2] \o <<".">> \o p[3] = parsed
          [] OTHER -> p[1] \o <<".">> \o p[2] \o <<".">> \o p[3] = tail
     /\ \A k \in 1..2 : Positions(p[k], ".") = {}
=============================================================================

------------------------------- MODULE MCEdge -------------------------------
(* What surrounds a call: the two HTTP protocols, the RESTful router and   *)
(* transcoder, the spans of rpcz, the loggers and their files, the writev  *)
(* and link buffers, metrics, the UDP transports and pre-warming.  The     *)
(* parts share no state, so a behaviour is about one of them, the one that *)
(* the variable part names, and the variables of the others are off.       *)
EXTENDS Integers, Sequences, FiniteSets, TLC

CONSTANTS Parts, Spans, MaxSpans, Capacity, ChildrenEndFirst,
          MaxLines, MaxSize, MaxBackups, WriteLogSize, LogQueueSize, MaxTicks,
          Contexts, MaxSteps, minMallocSize, Sizes, MaxBytes, MaxBlocks,
          Goroutines, HistSinks, Safe, Routines, MaxPackets, Parallelism

VARIABLES
  part,
  exchange, client, request, server, response, outcome,
  routerTrie, transcoders, req, message, reply,
  text, template, fields, dat,
  spans, array, idSpans, rpcz,
  mode, async, writer, roll, disk, cleaner,
  cells, loggers, default, contexts, trace, line,
  buffer, ring, writers, sender, wire,
  segments, dirty, blocks, content,
  metricsSinks, instruments, histograms, calls, added,
  packets, receiver, jobs, udpCalls,
  warm, tasks, warmCtx, idle

-----------------------------------------------------------------------------
(* Values of the constants *)

OK == 200
Multiple == 300
InternalError == 500
EventCode == 7
Malformed == 99
Mapped == [c \in {1, 21} |-> IF c = 21 THEN 504 ELSE 400]

NoBody == [ser |-> "", comp |-> ""]
Query == [ser |-> "Form", comp |-> "noop"]
C == [kind |-> "std", raw |-> FALSE, headsFit |-> TRUE, hasBody |-> TRUE, ser |-> "JSON", comp |-> "noop", method |-> "", query |-> NoBody,
      contentType |-> "", timeout |-> 0, disable64 |-> FALSE, meta |-> <<>>, env |-> "", dyeing |-> FALSE, disablePool |-> FALSE,
      reader |-> "codec", readerFails |-> ""]
Kinds == {"std", "fast"}
S == [kind |-> "std", autoRead |-> TRUE, autoHead |-> TRUE, postOnly |-> FALSE, disable64 |-> FALSE, contentType |-> "", hasBody |-> TRUE,
      status |-> 200, answers |-> [type |-> "none", code |-> 0]]
Errors == {[type |-> "none", code |-> 0], [type |-> "framework", code |-> 31], [type |-> "framework", code |-> 0],
           [type |-> "business", code |-> 21], [type |-> "business", code |-> 5]}
Metas == {<<>>, [k \in {"k"} |-> "plain"], [k \in {"k", "env"} |-> "base64like"], [k \in {"dyeing"} |-> "plain"]}
Exchanges ==
  {[client |-> [C EXCEPT !.kind = k, !.ser = t, !.comp = z, !.hasBody = b, !.method = m, !.query = q],
    server |-> [S EXCEPT !.kind = l, !.answers = e, !.hasBody = hb]] :
     k \in Kinds, t \in {"JSON", "PB", "Form", "FormData", "Unsupported", "Noop"}, z \in {"noop", "gzip", "snappy"}, b \in BOOLEAN, m \in {"", "GET", "POST"}, q \in {NoBody, Query},
     l \in Kinds, e \in {CHOOSE e \in Errors : e.type = "none"}, hb \in BOOLEAN}
  \cup
  {[client |-> [C EXCEPT !.kind = k, !.meta = md, !.env = v, !.dyeing = d, !.disable64 = x, !.timeout = IF d THEN 3 ELSE 99],
    server |-> [S EXCEPT !.kind = l, !.disable64 = y, !.autoHead = h]] :
     k \in Kinds, md \in Metas, v \in {"", "plain", "base64like"}, d \in BOOLEAN, x \in BOOLEAN, l \in Kinds, y \in BOOLEAN, h \in BOOLEAN}
  \cup
  {[client |-> [C EXCEPT !.kind = k, !.raw = w, !.reader = r, !.readerFails = f, !.disablePool = w, !.headsFit = f = "" \/ r # "codec"],
    server |-> [S EXCEPT !.kind = l, !.status = st, !.answers = e, !.postOnly = f # "", !.autoRead = f # "business", !.contentType = ct]] :
     k \in Kinds, w \in BOOLEAN, r \in {"codec", "sse", "handler", "manual"}, f \in {"", "error", "business"}, l \in Kinds \cup {"foreign"},
     st \in {200, 404}, e \in Errors, ct \in {"", "protobuf"}}
  \cup {[client |-> [C EXCEPT !.contentType = ct, !.ser = "Noop"], server |-> [S EXCEPT !.kind = l]] : ct \in {"multipart", "json"}, l \in Kinds}

La == <<"a">>
Lb == <<"b">>
Lc == <<"c">>
Texts == { <<"/", "a">>, <<"/", "{", "a", "}">>, <<"/", "a", "/", "*">>, <<"/", "a", "/", "{", "b", "}">>, <<"/", "a", "/", "b">>, <<"/", "*", "*">>, <<"/", "*", "/", "b">>,
  <<"/", "{", "b", ".", "a", "=", "a", "/", "*", "*", "}">>, <<"/", "{", "a", "}", ":", "c">>, <<"/", "a", ":", "c">>, <<"/", "{", "c", "=", "*", "/", "b", "}", "/", "{", "a", "}">> }
Paths == { <<"/">>, <<"/", "a">>, <<"/", "b">>, <<"/", "a", "/", "b">>, <<"/", "a", "/">>, <<"/", "a", "/", "c">>, <<"/", "a", "/", "b", "/", "1">>, <<"/", "1", ":", "c">>, <<"/", "a", ":", "c">>, <<"/", "b", "/", "b">> }
B(t, bd, m) == [text |-> t, body |-> bd, method |-> m]
Bindings == {B(t, <<>>, "GET") : t \in Texts} \cup {B(t, bd, "PATCH") : t \in {<<"/", "a">>, <<"/", "{", "a", "}">>, <<"/", "{", "c", "=", "a", "/", "*", "*", "}">>, <<"/", "a", "/", "{", "b", ".", "a", "}">>}, bd \in {<<>>, <<"*">>, La, Lb}}
One == <<"1">>
Q0 == [server |-> "std", method |-> "GET", path |-> <<"/", "a">>, query |-> <<>>, body |-> <<>>, bodyReads |-> TRUE, contentType |-> "", accept |-> "", acceptEncoding |-> "", discard |-> FALSE, encodes |-> TRUE, outcome |-> [code |-> 0, status |-> 0]]
Queries == {<<>>, (<<La>> :> <<One>>) @@ (<<Lb, La>> :> <<One>>), (<<<<"a", "1">>>> :> <<One>>), (<<Lb, Lc>> :> <<One, La>>) @@ (<<Lc>> :> <<One>>), (<<One>> :> <<La>>) @@ (<<La>> :> <<Lb>>), (<<La, Lb>> :> <<La>>)}
Requests == {[Q0 EXCEPT !.path = p, !.server = s] : p \in Paths, s \in {"std", "fast", "wrapped"}}
   \cup {[Q0 EXCEPT !.path = p, !.method = "PATCH", !.query = q, !.body = bd, !.discard = d] : p \in {<<"/", "a">>, <<"/", "a", "/", "1">>}, q \in Queries, bd \in {<<>>, <<La>> :> <<La>>}, d \in BOOLEAN}
   \cup {[Q0 EXCEPT !.bodyReads = d, !.method = "PATCH", !.encodes = e, !.outcome = [code |-> c, status |-> st]] : d, e \in BOOLEAN, c \in {0, 2, 50}, st \in {0, 204}}
MaxBindings == 2
Schema == (<<La>> :> "int") @@ (<<Lb>> :> "message") @@ (<<Lb, La>> :> "int") @@ (<<Lb, Lc>> :> "list") @@ (<<Lc>> :> "string") @@ (<<<<"b", "1">>>> :> "mask")
JSONNames == (<<"a", "1">> :> La)
Ranks == (La :> 1) @@ (<<"a", "1">> :> 2) @@ (Lb :> 3) @@ (<<"b", "1">> :> 4) @@ (Lc :> 5) @@ (<<"1">> :> 0)
Accepted == [k \in {"int", "list", "string", "mask", "map", "message"} |-> IF k = "int" THEN {<<"a">>, <<"1">>} ELSE IF k = "message" THEN {} ELSE {<<"a">>, <<"b">>, <<"c">>, <<"1">>, <<"a", "/", "b">>, <<"a", "/">>}]
httpStatusMap == (1 :> 400) @@ (2 :> 500) @@ (12 :> 404)
NoContent == 204

Characters == {"/", "*", "{", "}", "=", ":", "a", "."}
MaxText == 6
FieldPaths == UNION {[1..n -> 1..3] : n \in 1..2} \cup {<<1, 2, 3>>, <<2, 2, 2>>, <<1, 1, 2>>}
MaxFields == 4

Node(k, v) == [kind |-> k, value |-> v, nodes |-> <<>>]
Configs == {[kind |-> "AND", nodes |-> <<Node("minDuration", 0), Node("minRequestSize", 2),
                                         [kind |-> "NOT", nodes |-> <<Node("errorCode", 1)>>]>>]}
\* Span objects are interchangeable.
SpanSymmetry == Permutations(Spans)
\* Spans, contexts and goroutines are interchangeable: a state and the one with each exchanged
\* for another of its kind stand for each other.
Turn(Set, kept) == CHOOSE f \in Permutations(Set) : \A x \in Set : (f[x] = x <=> kept) /\ f[f[x]] = x
Exchange == {Turn(Spans, kept) @@ Turn(Contexts, kept) @@ Turn(Goroutines, kept) : kept \in BOOLEAN}
Attrs == {("duration" :> 1) @@ ("requestSize" :> 2) @@ ("error" :> [code |-> c, msg |-> <<"u", "n">>]) : c \in {1, 2}}

Mode(a, d, c, f, w) == [async |-> a, drop |-> d, compress |-> c, faults |-> f, writers |-> w]
Modes == {Mode(TRUE, d, c, 0, 1) : d, c \in BOOLEAN}
           \cup {Mode(TRUE, FALSE, FALSE, 1, 1), Mode(FALSE, FALSE, FALSE, 0, 2)}

Names == {"a"}
Output(k, l, w) == [kind |-> k, level |-> l, mode |-> w]
Outputs == {<<>>, <<Output("console", "info", 0), Output("file", "warn", 2)>>, <<Output("file", "bad", 4)>>}
Levels == [trace |-> 0, debug |-> 0, info |-> 1, warn |-> 2, fatal |-> 4]

Writers == {1, 2}
Laps == 3
Buf(n, d, p, f) == [size |-> n, dropFull |-> d, packets |-> p, faults |-> f]
Buffers == {Buf(1, TRUE, 3, {}), Buf(1, FALSE, 3, {}), Buf(3, TRUE, 2, {"break"}), Buf(1, FALSE, 1, {"break", "done"})}

Do(o, n, v) == [op |-> o, name |-> n, value |-> v]
Todo == {Do("sink", "remote", 0), Do("sink", "remote", 1), Do("counter", "a", 1), Do("counter", "a", 2),
         Do("sample", "h", 1), Do("sample", "h", 2), Do("sample", "k", 3)}
Bounds == [h \in {"h", "k"} |-> IF h = "h" THEN <<2, 1, 2>> ELSE <<>>]
Inf == 9

UdpCall(i, n, s) == [id |-> i, connected |-> n, sendOnly |-> s]
UdpCalls == {UdpCall("a", TRUE, FALSE), UdpCall("b", FALSE, FALSE)}
Shapes == {"whole", "long", "empty"}

WarmUp(net, per, mux, par, listed, sel) ==
  [network |-> net, disabled |-> FALSE, perNode |-> per, multiplexed |-> mux, parser |-> par, trpc |-> listed # {},
   listed |-> listed, selected |-> sel]
Inits == {WarmUp("tcp", 2, FALSE, TRUE, {"n1", "n2", "unnamed"}, "n1"), WarmUp("tcp", 3, TRUE, TRUE, {}, "n1"),
          WarmUp("unix", 2, TRUE, FALSE, {}, "n2"), WarmUp("tcp4", 1, FALSE, TRUE, {}, "none"),
          WarmUp("udp", 1, FALSE, TRUE, {"n1"}, "n1"), WarmUp("tcp", 0, FALSE, TRUE, {"n1"}, "n1"),
          [WarmUp("tcp", 1, FALSE, TRUE, {"n1"}, "n1") EXCEPT !.disabled = TRUE]}

-----------------------------------------------------------------------------
Http == INSTANCE Http
Restful == INSTANCE Restful
Rpcz == INSTANCE Rpcz
Logging == INSTANCE Logging
WriteBuffers == INSTANCE WriteBuffers
Metrics == INSTANCE Metrics
Udp == INSTANCE Udp
PreWarm == INSTANCE PreWarm

httpVars == <<exchange, client, request, server, response, outcome>>
restfulVars == <<routerTrie, transcoders, req, message, reply>>
rulesVars == <<text, template, fields, dat>>
rpczVars == <<spans, array, idSpans, rpcz>>
rollVars == <<mode, async, writer, roll, disk, cleaner>>
logVars == <<cells, loggers, default, contexts, trace, line>>
writevVars == <<buffer, ring, writers, sender, wire>>
linkVars == <<segments, dirty, blocks, content>>
metricsVars == <<metricsSinks, instruments, histograms, calls, added>>
udpVars == <<packets, receiver, jobs, udpCalls>>
preWarmVars == <<warm, tasks, warmCtx, idle>>
vars == <<part, httpVars, restfulVars, rulesVars, rpczVars, rollVars, logVars,
          writevVars, linkVars, metricsVars, udpVars, preWarmVars>>

\* Texts are parsed as they grow; sorted field paths are put into a trie.
RulesInit == text = <<>> /\ template = Restful!NoTemplate /\ fields = <<>> /\ dat = <<>>
RulesNext ==
  \/ /\ fields = <<>> /\ Len(text) < MaxText
     /\ \E ch \in Characters : text' = Append(text, ch)
     /\ template' = Restful!Parse(text') /\ UNCHANGED <<fields, dat>>
  \/ /\ text = <<>> /\ Len(fields) < MaxFields
     /\ \E p \in FieldPaths : /\ \A i \in 1..Len(fields) : fields[i] = p \/ Restful!Less(fields[i], p)
                              /\ fields' = Append(fields, p)
     /\ dat' = Restful!Build(fields') /\ UNCHANGED <<text, template>>

Off == 0
HttpOff == exchange = Off /\ client = Off /\ request = Off /\ server = Off /\ response = Off /\ outcome = Off
RestfulOff == routerTrie = Off /\ transcoders = Off /\ req = Off /\ message = Off /\ reply = Off
RulesOff == text = Off /\ template = Off /\ fields = Off /\ dat = Off
RpczOff == spans = Off /\ array = Off /\ idSpans = Off /\ rpcz = Off
RollWriterOff == mode = Off /\ async = Off /\ writer = Off /\ roll = Off /\ disk = Off /\ cleaner = Off
LoggerOff == cells = Off /\ loggers = Off /\ default = Off /\ contexts = Off /\ trace = Off /\ line = Off
WritevOff == buffer = Off /\ ring = Off /\ writers = Off /\ sender = Off /\ wire = Off
LinkBufferOff == segments = Off /\ dirty = Off /\ blocks = Off /\ content = Off
MetricsOff == metricsSinks = Off /\ instruments = Off /\ histograms = Off /\ calls = Off /\ added = Off
UdpOff == packets = Off /\ receiver = Off /\ jobs = Off /\ udpCalls = Off
PreWarmOff == warm = Off /\ tasks = Off /\ warmCtx = Off /\ idle = Off

Init ==
  /\ part \in Parts
  /\ IF part = "http" THEN Http!Init ELSE HttpOff
  /\ IF part = "restful" THEN Restful!Init ELSE RestfulOff
  /\ IF part = "rules" THEN RulesInit ELSE RulesOff
  /\ IF part = "rpcz" THEN Rpcz!Init ELSE RpczOff
  /\ IF part = "roll" THEN Logging!RollInit ELSE RollWriterOff
  /\ IF part = "logger" THEN Logging!LoggerInit ELSE LoggerOff
  /\ IF part = "writev" THEN WriteBuffers!WritevInit ELSE WritevOff
  /\ IF part = "link" THEN WriteBuffers!LinkInit ELSE LinkBufferOff
  /\ IF part = "metrics" THEN Metrics!MetricsInit ELSE MetricsOff
  /\ IF part = "udp" THEN Udp!UdpInit ELSE UdpOff
  /\ IF part = "preWarm" THEN PreWarm!PreWarmInit ELSE PreWarmOff

Next ==
  \/ /\ part = "http" /\ Http!HttpNext
     /\ UNCHANGED <<part, restfulVars, rulesVars, rpczVars, rollVars, logVars,
                    writevVars, linkVars, metricsVars, udpVars, preWarmVars>>
  \/ /\ part = "restful" /\ Restful!RestfulNext
     /\ UNCHANGED <<part, httpVars, rulesVars, rpczVars, rollVars, logVars,
                    writevVars, linkVars, metricsVars, udpVars, preWarmVars>>
  \/ /\ part = "rules" /\ RulesNext
     /\ UNCHANGED <<part, httpVars, restfulVars, rpczVars, rollVars, logVars,
                    writevVars, linkVars, metricsVars, udpVars, preWarmVars>>
  \/ /\ part = "rpcz" /\ Rpcz!RpczNext
     /\ UNCHANGED <<part, httpVars, restfulVars, rulesVars, rollVars, logVars,
                    writevVars, linkVars, metricsVars, udpVars, preWarmVars>>
  \/ /\ part = "roll" /\ Logging!RollNext
     /\ UNCHANGED <<part, httpVars, restfulVars, rulesVars, rpczVars, logVars,
                    writevVars, linkVars, metricsVars, udpVars, preWarmVars>>
  \/ /\ part = "logger" /\ Logging!LoggerNext
     /\ UNCHANGED <<part, httpVars, restfulVars, rulesVars, rpczVars, rollVars,
                    writevVars, linkVars, metricsVars, udpVars, preWarmVars>>
  \/ /\ part = "writev" /\ WriteBuffers!WritevNext
     /\ UNCHANGED <<part, httpVars, restfulVars, rulesVars, rpczVars, rollVars,
                    logVars, linkVars, metricsVars, udpVars, preWarmVars>>
  \/ /\ part = "link" /\ WriteBuffers!LinkNext
     /\ UNCHANGED <<part, httpVars, restfulVars, rulesVars, rpczVars, rollVars,
                    logVars, writevVars, metricsVars, udpVars, preWarmVars>>
  \/ /\ part = "metrics" /\ Metrics!MetricsNext
     /\ UNCHANGED <<part, httpVars, restfulVars, rulesVars, rpczVars, rollVars,
                    logVars, writevVars, linkVars, udpVars, preWarmVars>>
  \/ /\ part = "udp" /\ Udp!UdpNext
     /\ UNCHANGED <<part, httpVars, restfulVars, rulesVars, rpczVars, rollVars,
                    logVars, writevVars, linkVars, metricsVars, preWarmVars>>
  \/ /\ part = "preWarm" /\ PreWarm!PreWarmNext
     /\ UNCHANGED <<part, httpVars, restfulVars, rulesVars, rpczVars, rollVars,
                    logVars, writevVars, linkVars, metricsVars, udpVars>>

Spec == Init /\ [][Next]_vars

-----------------------------------------------------------------------------
\* What one side of an HTTP call writes the other reads as it was meant, between any
\* two of the net/http and fasthttp implementations, and errors arrive, see Http.
ExchangesFaithful ==
  part = "http" => Http!BodiesReadAsWritten /\ Http!MetaArrives /\ Http!ErrorsArrive

\* The text of a template that httprule parsed: its segments and its verb.
TextOf(u) == <<"/">> \o Restful!Text(u.segs) \o (IF u.verb = <<>> THEN <<>> ELSE <<":">> \o u.verb)

\* A request is routed to a binding whose template it matches and becomes the message
\* that its path, body and query say, see Restful; a template reads back as itself, and
\* the double-array trie finds exactly the field paths that are a prefix, see HttpRule.
RequestsTranscoded ==
  /\ part = "restful" => Restful!RoutesAreRight /\ Restful!MessagesAreRight
  /\ part = "rules" =>
       /\ template.ok /\ text[Len(text)] # ":" => Restful!Parse(TextOf(template)) = template
       /\ fields # <<>> =>
            \A q \in UNION {[1..n -> 1..4] : n \in 1..3} :
              Restful!CommonPrefixSearch(dat, q) = \E i \in 1..Len(fields) : Restful!IsPrefix(fields[i], q)

\* The store shows the newest finished spans and every child finds its root, see Rpcz.
SpansKept == part = "rpcz" => Rpcz!StoreShowsNewest /\ Rpcz!EndFindsParent
\* A child that ends is recorded in its parent ("End sets span's endTime and record span
\* to its parent.", rpcz/span.go:160), see Rpcz.
EndFindsParent == part = "rpcz" => Rpcz!EndFindsParent



\* A block is released once and not before its bytes were read, see WriteBuffers.
BlocksReleased == part = "link" => WriteBuffers!BlocksReleasedOnce


\* A UDP call returns the answer to its own request, see Udp.
AnswersAreOwn == part = "udp" => Udp!AnswersAreOwn

\* Init returns after its goroutines, and says so when a node was not warmed, see PreWarm.
WarmedOrToldSo == part = "preWarm" => PreWarm!WarmedOrToldSo
=============================================================================

------------------------------ MODULE Service -------------------------------
(***************************************************************************)
(* A service (server/service.go, server/options.go): it is made from its   *)
(* options, gets the methods of service descriptions, and handles the      *)
(* requests that a connection reads.  Requests with a keep-order key are   *)
(* decoded or unmarshalled ahead (tcpconn.handleKeepOrderPreDecode,        *)
(* handleKeepOrderPreUnmarshal) and handled one after the other; the rest  *)
(* concurrently.  Every request passes the chain of filters                *)
(* (filter/filter.go) on its way to the method.                            *)
(***************************************************************************)
EXTENDS Integers, Sequences, FiniteSets, SequencesExt

CONSTANT ServiceScenarios \* options, descriptions and requests of a behaviour

VARIABLES
  scenario,
  opts,       \* the options of the service, those of its transport included
  handlers,   \* the methods, with the implementation each calls
  registered, \* how many descriptions were registered, the last outcome, the routes
  inputs,     \* every request: where it is and what was done for it
  groups,     \* the keep-order group of each key: requests that wait or run
  out         \* messages taken from the pool

serviceVars == <<scenario, opts, handlers, registered, inputs, groups, out>>

-----------------------------------------------------------------------------
(* Options: a sequence of them is applied in order.                        *)

defaultOptions ==
  [name |-> "empty-name", protocol |-> "unknown-protocol", network |-> "", transport |-> "nil", codec |-> "nil",
   streamTransport |-> "nil", timeout |-> 0, filters |-> <<>>, filterNames |-> <<>>, streamFilters |-> <<>>,
   handlerSet |-> FALSE, serve |-> <<>>]

\* Options that set a field of Options and nothing else.
WithField(o, x) == [o EXCEPT ![x.field] = x.value]
\* WithFilter, WithNamedFilter and WithFilters keep the names beside the filters.
WithFilter(o, x) == [o EXCEPT !.filters = Append(@, x.value), !.filterNames = Append(@, x.field)]
WithStreamFilter(o, x) == [o EXCEPT !.streamFilters = Append(@, x.value)]
\* Options for the transport are kept in order, to be applied when it listens.
WithServeOption(o, x) == [o EXCEPT !.serve = Append(@, <<x.field, x.value>>)]
\* WithServiceName and WithNetwork do both.
WithServiceName(o, x) == [o EXCEPT !.name = x.value, !.serve = Append(@, <<"name", x.value>>)]
WithNetwork(o, x) == [o EXCEPT !.network = x.value, !.serve = Append(@, <<"network", x.value>>)]
WithTransport(o, x) == IF x.value = "nil" THEN o ELSE [o EXCEPT !.transport = x.value]
\* WithProtocol: the codec of the protocol, nil or not; its framer and transport if it has one.
WithProtocol(o, x) ==
  LET p == x.value IN
  [o EXCEPT !.protocol = p, !.codec = IF p = "none" THEN "nil" ELSE p,
            !.serve = IF p = "none" THEN @ ELSE Append(@, <<"framer", p>>),
            !.transport = IF p = "http" THEN p ELSE @]
WithHandler(o, x) == [o EXCEPT !.handlerSet = TRUE, !.serve = Append(@, <<"handler", x.value>>)]

Apply(o, x) ==
  CASE x.kind = "field" -> WithField(o, x)
    [] x.kind = "filter" -> WithFilter(o, x)
    [] x.kind = "streamFilter" -> WithStreamFilter(o, x)
    [] x.kind = "serve" -> WithServeOption(o, x)
    [] x.kind = "name" -> WithServiceName(o, x)
    [] x.kind = "network" -> WithNetwork(o, x)
    [] x.kind = "transport" -> WithTransport(o, x)
    [] x.kind = "protocol" -> WithProtocol(o, x)
    [] x.kind = "handler" -> WithHandler(o, x)

attemptSwitchingTransport(o) ==
  IF o.transport # "nil" THEN o.transport
  ELSE IF o.network = "tcp" /\ o.protocol = "trpc" THEN "tnet" ELSE "go-net"

New(options) ==
  LET o == FoldLeft(Apply, defaultOptions, options) IN
  [o EXCEPT !.transport = attemptSwitchingTransport(o),
            !.serve = IF o.handlerSet THEN @ ELSE Append(@, <<"handler", "service">>)]

\* ListenAndServe applies the transport's options: the last one of a field decides.
Applied(serve) == FoldLeft(LAMBDA l, x : [f \in DOMAIN l \cup {x[1]} |-> IF f = x[1] THEN x[2] ELSE l[f]], <<>>, serve)

\* What an option means for a field of the transport's options, if anything.
Means(x, field) ==
  \/ x.kind = "serve" /\ x.field = field
  \/ x.kind \in {"name", "network"} /\ field = x.kind
  \/ x.kind = "handler" /\ field = "handler"
  \/ x.kind = "protocol" /\ field = "framer" /\ x.value # "none"

ServiceInit ==
  /\ scenario \in ServiceScenarios
  /\ opts = New(scenario.options)
  /\ handlers = {} /\ registered = [count |-> 0, ok |-> TRUE, routes |-> 0]
  /\ inputs = [i \in DOMAIN scenario.requests |->
       [at |-> "none", via |-> "", msg |-> FALSE, info |-> FALSE, unmarshals |-> 0, chain |-> <<>>, fix |-> "none",
        body |-> 0, handled |-> 0, trace |-> <<>>, answer |-> "none"]]
  /\ groups = <<>> /\ out = 0

-----------------------------------------------------------------------------
(* Register: the methods of one description after the other.               *)

HandlerNames == {h[1] : h \in handlers}

\* The methods in order, up to one whose name is taken.
Added(d) ==
  LET taken == {k \in DOMAIN d.methods : d.methods[k] \in HandlerNames \/ \E j \in 1..(k - 1) : d.methods[j] = d.methods[k]}
      end == IF taken = {} THEN Len(d.methods) ELSE (CHOOSE k \in taken : \A j \in taken : k <= j) - 1
  IN SubSeq(d.methods, 1, end)

\* createOrUpdateRouter: the first bindings make a router, which is registered if all of
\* them are good; later ones are added up to one that is not.
createOrUpdateRouter(d) ==
  LET bad == {k \in DOMAIN d.bindings : d.bindings[k] = "bad"}
      good == IF bad = {} THEN Len(d.bindings) ELSE (CHOOSE k \in bad : \A j \in bad : k <= j) - 1
  IN [routes |-> IF registered.routes = 0 /\ bad # {} THEN 0 ELSE registered.routes + good, ok |-> bad = {}]

\* Register: a description with streams takes the stream transport, switches off the idle
\* timeout and may fail to be set up; then the implementation is checked; what comes
\* before a duplicate name stays registered.
Register ==
  LET d == scenario.descs[registered.count + 1]
      added == Added(d)
      all == d.implements /\ Len(added) = Len(d.methods) /\ d.stream # "fails"
      router == createOrUpdateRouter(d)
  IN /\ registered.count < Len(scenario.descs) /\ \A i \in DOMAIN inputs : inputs[i].at = "none"
     /\ opts' = IF d.stream = "none" THEN opts
                ELSE [opts EXCEPT !.serve = Append(@, <<"idleTimeout", 0>>),
                                  !.transport = IF opts.streamTransport = "nil" THEN @ ELSE opts.streamTransport]
     /\ handlers' = IF d.implements /\ d.stream # "fails"
                    THEN handlers \cup {<<added[k], d.impl>> : k \in DOMAIN added} ELSE handlers
     /\ registered' = [count |-> registered.count + 1, ok |-> all /\ router.ok,
                       routes |-> IF all THEN router.routes ELSE registered.routes]
     /\ UNCHANGED <<scenario, inputs, groups, out>>

-----------------------------------------------------------------------------
(* A request is read, and handed to whoever handles it.                    *)

Request(i) == scenario.requests[i]
\* handlers[name], or the wildcard.
Found(i) == Request(i).method \in HandlerNames \/ "*" \in HandlerNames
\* PreDecode: the codec must be there and accept the frame.
PreDecode(i) == opts.codec # "nil" /\ Request(i).frame
\* PreUnmarshal: the method must exist, its stub gets a chain that does nothing.
PreUnmarshal(i) == PreDecode(i) /\ Found(i) /\ Request(i).body = "good"

\* handleKeepOrderPreDecode and handleKeepOrderPreUnmarshal, which fall back when the
\* request cannot be decoded or has no key.
handleKeepOrderPreDecode(i) == "preDecode" \in scenario.extractors /\ PreDecode(i) /\ Request(i).key # ""
handleKeepOrderPreUnmarshal(i) == "preUnmarshal" \in scenario.extractors /\ PreUnmarshal(i) /\ Request(i).key # ""
UnmarshalsAhead(i) == "preUnmarshal" \in scenario.extractors /\ PreUnmarshal(i) /\ ~handleKeepOrderPreDecode(i)

Busy(i) == inputs[i].at \in {"queued", "chain", "handled"}

\* tcpconn.handle: the reader of the connection reads on, unless it handles requests itself.
Read(i) ==
  /\ inputs[i].at = "none" /\ \A j \in 1..(i - 1) : inputs[j].at # "none"
  /\ registered.count = Len(scenario.descs)
  /\ \A j \in 1..(i - 1) : inputs[j].via = "sync" => ~Busy(j)
  /\ LET via == CASE handleKeepOrderPreDecode(i) -> "preDecode"
                  [] ~handleKeepOrderPreDecode(i) /\ handleKeepOrderPreUnmarshal(i) -> "preUnmarshal"
                  [] OTHER -> IF scenario.async THEN "pool" ELSE "sync"
         ahead == via \in {"preDecode", "preUnmarshal"}
     IN /\ inputs' = [inputs EXCEPT ![i].at = "queued", ![i].via = via, ![i].msg = ahead,
                        ![i].info = via = "preUnmarshal", ![i].unmarshals = IF UnmarshalsAhead(i) THEN 1 ELSE 0]
        /\ groups' = IF ahead THEN Append(groups, i) ELSE groups
        /\ out' = IF ahead THEN out + 1 ELSE out
  /\ UNCHANGED <<scenario, opts, handlers, registered>>

\* The turn of a request of a group comes when those of its key before it are done.
Turn(i) ==
  inputs[i].via \in {"preDecode", "preUnmarshal"} =>
    \A k \in DOMAIN groups : groups[k] = i => \A j \in 1..(k - 1) : Request(groups[j]).key # Request(i).key

-----------------------------------------------------------------------------
(* Handle                                                                  *)

\* handle: who converts a timeout of the method, the service or the caller.
fixTimeout(i) ==
  LET r == Request(i).timeout IN
  IF r > 0 /\ (r < opts.timeout \/ opts.timeout = 0) THEN "fulllink"
  ELSE IF opts.timeout > 0 THEN "normal" ELSE "none"

\* The chain of filterFunc: the service's filters, or a copy of them and the converter.
filters(i) ==
  IF fixTimeout(i) = "none" THEN opts.filters ELSE Append(opts.filters, fixTimeout(i))

Error(i) ==
  CASE opts.codec = "nil" -> "closed"
    [] opts.codec # "nil" /\ ~Request(i).frame -> "decode"
    [] PreDecode(i) /\ ~Found(i) -> "nofunc"
    [] PreDecode(i) /\ Found(i) /\ ~inputs[i].info /\ Request(i).body = "bad" -> "decode"
    [] OTHER -> "none"

\* Handle until the stub has its chain: decoded here or before, the method looked up, the
\* body unmarshalled or taken from what was unmarshalled ahead.
Handle(i) ==
  /\ inputs[i].at = "queued" /\ Turn(i)
  /\ IF Error(i) # "none"
     THEN inputs' = [inputs EXCEPT ![i].at = "handled", ![i].msg = TRUE, ![i].answer = Error(i)]
     ELSE inputs' = [inputs EXCEPT ![i].at = "chain", ![i].msg = TRUE, ![i].chain = filters(i),
                          ![i].fix = fixTimeout(i), ![i].body = i, ![i].info = FALSE,
                          ![i].unmarshals = IF inputs[i].info THEN @ ELSE @ + 1]
  /\ out' = IF inputs[i].msg THEN out ELSE out + 1
  /\ UNCHANGED <<scenario, opts, handlers, registered, groups>>

\* ServerChain.Filter: the filters around the method, the first one outermost.
Filter(chain) == chain \o <<"method">> \o Reverse(chain)

\* The method runs within its filters.  A full-link timeout and a call without response
\* answer nothing; a panic is recovered by a keep-order group or a pool, and ends the
\* process when the reader itself handles the request.
Run(i) ==
  /\ inputs[i].at = "chain" /\ ~(Request(i).panics /\ inputs[i].via = "sync")
  /\ inputs' = [inputs EXCEPT ![i].at = "handled", ![i].handled = @ + 1,
          ![i].trace = IF Request(i).panics THEN Append(inputs[i].chain, "method") ELSE Filter(inputs[i].chain),
          ![i].answer = CASE Request(i).sendOnly \/ Request(i).panics -> "none"
                          [] ~(Request(i).sendOnly \/ Request(i).panics) /\ Request(i).late /\ fixTimeout(i) = "fulllink" -> "none"
                          [] OTHER -> "answered"]
  /\ UNCHANGED <<scenario, opts, handlers, registered, groups, out>>

\* handleSyncWithErrAndContext ends, and the message goes back to its pool.
Finish(i) ==
  /\ inputs[i].at = "handled"
  /\ inputs' = [inputs EXCEPT ![i].at = "done", ![i].msg = FALSE]
  /\ groups' = SelectSeq(groups, LAMBDA j : j # i)
  /\ out' = out - 1
  /\ UNCHANGED <<scenario, opts, handlers, registered>>

ServiceNext ==
  \/ Register
  \/ \E i \in DOMAIN inputs : Read(i) \/ Handle(i) \/ Run(i) \/ Finish(i)

-----------------------------------------------------------------------------
\* Every request whose method exists is handled once, with its own body, unmarshalled once
\* in all, whichever way it went (twice only if that was ahead and showed no key); the
\* filters run in their order with the converter of its own timeout next to the method;
\* and a request is dropped in silence only when it asked for no response, was out of its
\* caller's time, or panicked.
HandledOnce ==
  \A i \in DOMAIN inputs :
    /\ inputs[i].handled = 1 =>
         /\ inputs[i].body = i
         /\ inputs[i].unmarshals = IF inputs[i].via # "preUnmarshal" /\ UnmarshalsAhead(i) THEN 2 ELSE 1
         /\ LET trace == Filter(opts.filters \o (IF inputs[i].fix = "none" THEN <<>> ELSE <<inputs[i].fix>>)) IN
            inputs[i].trace = IF Request(i).panics THEN SubSeq(trace, 1, (Len(trace) + 1) \div 2) ELSE trace
    /\ inputs[i].at = "done" /\ PreDecode(i) /\ Found(i) /\ Request(i).body = "good" => inputs[i].handled = 1
    /\ inputs[i].at = "done" /\ inputs[i].answer = "none" =>
         Request(i).sendOnly \/ Request(i).panics \/ (Request(i).late /\ Request(i).timeout > 0)

\* Requests of one key are handled in the order they were read, also when some were
\* decoded and some unmarshalled ahead.
KeysInOrder ==
  \A i, j \in DOMAIN inputs :
    /\ i < j /\ Request(i).key # "" /\ Request(i).key = Request(j).key
    /\ {inputs[i].via, inputs[j].via} \subseteq {"preDecode", "preUnmarshal"}
    => (inputs[j].at \in {"chain", "handled", "done"} => inputs[i].at = "done")

\* A message is out of the pool for exactly the requests that were decoded ahead or are
\* being handled: fallbacks and panics give theirs back.
MessagesReturned == out = Cardinality({i \in DOMAIN inputs : inputs[i].msg})

\* The transport listens with what the last option for a field said, the service as its
\* handler if no other was given, and no idle timeout if it has streams.
LastOptionDecides ==
  LET applied == Applied(opts.serve)
      given(f) == {k \in DOMAIN scenario.options : Means(scenario.options[k], f)}
  IN \A f \in DOMAIN applied :
       \/ f = "handler" /\ given(f) = {} /\ applied[f] = "service"
       \/ f = "idleTimeout" /\ applied[f] = 0 /\ \E k \in 1..registered.count : scenario.descs[k].stream # "none"
       \/ \E k \in given(f) : (\A j \in given(f) : j <= k) /\ scenario.options[k].value = applied[f]

\* A method keeps the implementation it was first registered with.
MethodsKept == handlers \subseteq handlers' /\ \A g, h \in handlers' : g[1] = h[1] => g = h
=============================================================================

----------------------------- MODULE MCServing ------------------------------
(* The serving side: how a process starts, its life as a server, its       *)
(* listeners and those of HTTP, how a service handles requests, the        *)
(* goroutines of handlers, the keep-order groups, the unbounded queue, the *)
(* contexts that are detached from a request, the admin service, the       *)
(* health and precool checks, and the configurations that follow their     *)
(* file.  They share no state, so a behaviour is about one of them, the    *)
(* one that the variable part names.                                       *)
EXTENDS Integers, Sequences, FiniteSets, TLC, Queue, KeepOrder, Health

CONSTANTS
  Parts,
  Services, Procs,
  Requests, limitedCases, incomingChanSize,
  Conns,
  MaxWrites, MaxReloads, Calm,
  Generations, Cores, FirstDelay, MaxDelay,
  Closers, DefaultNum, Tasks, Fds

VARIABLES
  part,
  conf, proc, svc, registry,
  original, detached, inprocess, incoming, ctxs, goroutines,
  start, cfg, plugins, clients, services,
  setup, listener, saved, serving, signals, conns, answered,
  file, provider, calls, set, configs, loader,
  listens, sockets, processes, starts, loops,
  admin, levels, requests, closers,
  scenario, opts, handlers, registered, inputs, groups, out,
  request, tasks, first, pending,
  descriptors, binds, stolen

serverVars == <<conf, proc, svc, registry>>
detachedVars == <<original, detached, inprocess, incoming, ctxs, goroutines>>
startupVars == <<start, cfg, plugins, clients, services>>
httpServerVars == <<setup, listener, saved, serving, signals, conns, answered>>
configVars == <<file, provider, calls, set, configs, loader>>
listenerVars == <<listens, sockets, processes, starts, loops>>
adminVars == <<admin, levels, requests, closers>>
serviceVars == <<scenario, opts, handlers, registered, inputs, groups, out>>
goerVars == <<request, tasks, first, pending>>
reuseVars == <<descriptors, binds, stolen>>
moreVars == <<listenerVars, adminVars, serviceVars, goerVars, reuseVars>>
vars == <<part, serverVars, groupVars, healthVars, queueVars, detachedVars, startupVars, httpServerVars, configVars,
          moreVars>>

-----------------------------------------------------------------------------
Plain == [faults |-> {"usr2", "term"}, closeWait |-> 0, maxCloseWait |-> 0]
ServerOptions ==
  {[Plain EXCEPT !.faults = f] :
     f \in {{"usr2", "term"}, {"usr2", "register"}, {"listen", "register"},
            {"close", "timeout"}, {"close", "usr2"}}}
  \cup {[faults |-> {"request", "term"}, closeWait |-> c, maxCloseWait |-> m] :
          c \in 0..2, m \in 0..2}

\* The host, and the configurations, plugins and clients that a process may start with.
Addr(family, ip) == [family |-> family, ip |-> ip]
Interfaces ==
  <<[name |-> "eth0", addrs |-> <<Addr("6", "ip6"), Addr("none", "x"), Addr("4", "ip4"), Addr("4", "ip5")>>],
    [name |-> "eth1", addrs |-> <<Addr("6", "ip6")>>], [name |-> "eth9", addrs |-> <<Addr("none", "x")>>]>>
defaultIdleTimeout == 2
ServerFilters == {"f", "g"}
NoControl == [builder |-> "", controller |-> 0]
AService ==
  [name |-> "s", ip |-> "", nic |-> "", port |-> 1, address |-> <<>>, protocol |-> "", timeout |-> 0,
   idletime |-> 0, async |-> "", writev |-> "", overloadCtrl |-> NoControl, filter |-> <<>>]
SomeServices ==
  {[AService EXCEPT !.ip = ip, !.nic = n] : ip \in {"", "ip1"}, n \in {"", "eth0", "eth9"}}
  \cup {[AService EXCEPT !.timeout = t, !.idletime = i, !.nic = "eth1"] : t \in {0, 1, 3}, i \in {0, 1}}
  \cup {[AService EXCEPT !.overloadCtrl = [builder |-> b, controller |-> c], !.filter = f] :
          b \in {"own", "unknown"}, c \in {0, 50}, f \in {<<>>, <<"g">>, <<"f", "h">>}}
AClient ==
  [callee |-> "", serviceName |-> "x", namespace |-> "", protocol |-> "", discovery |-> "", target |-> "",
   timeout |-> 0, filter |-> <<>>]
SomeClients ==
  {[AClient EXCEPT !.callee = c, !.target = t, !.timeout = o, !.filter = f] :
     c \in {"", "y"}, t \in {"", "ip://"}, o \in {0, 1}, f \in {<<>>, <<"g", "f">>}}
AConfig ==
  [localIP |-> "", admin |-> [ip |-> "", nic |-> "", port |-> 0], readBufferSize |-> "", builds |-> 0,
   namespace |-> "ns", protocol |-> "trpc", timeout |-> 0, overloadCtrl |-> NoControl, filter |-> <<"f">>,
   service |-> <<>>,
   client |-> [namespace |-> "", protocol |-> "trpc", discovery |-> "d", timeout |-> 3, filter |-> <<"f">>,
               service |-> <<>>]]
SomeConfigs ==
  {[AConfig EXCEPT !.service = <<a, b>>, !.localIP = ip, !.overloadCtrl.builder = oc, !.timeout = t] :
     a \in SomeServices, b \in {AService, [AService EXCEPT !.ip = "ip2", !.filter = <<"g">>]},
     ip \in {"", "ip0"}, oc \in {"", "all"}, t \in {0, 4}}
  \cup {[AConfig EXCEPT !.client.service = <<a, b>>, !.admin.port = p, !.admin.nic = n] :
          a \in SomeClients, b \in {AClient, [AClient EXCEPT !.callee = "z", !.filter = <<"f">>]},
          p \in {0, 1}, n \in {"", "eth0"}}
APlugin ==
  [registered |-> TRUE, dependsOn |-> {}, flexDependsOn |-> {}, setup |-> "ok", finish |-> "", close |-> "ok"]
SomePlugins ==
  {[p \in 1..3 |-> [APlugin EXCEPT !.dependsOn = d[p], !.flexDependsOn = f[p], !.close = IF p = 2 THEN "error" ELSE "ok"]] :
     d \in [1..3 -> {{}, {1}, {2}, {3}}], f \in {<<{}, {}, {}>>, <<{2}, {}, {}>>, <<{4}, {3, 4}, {}>>}}
  \cup {<<[APlugin EXCEPT !.registered = r, !.setup = s, !.finish = f, !.dependsOn = d], [APlugin EXCEPT !.close = ""]>> :
          r \in BOOLEAN, s \in {"ok", "error", "timeout"}, f \in {"", "ok", "error"}, d \in {{}, {5}}}
AStart == [cfg |-> AConfig, plugins |-> <<>>, wildcard |-> FALSE, unreadable |-> FALSE]
Starts ==
  {[AStart EXCEPT !.cfg = c] : c \in SomeConfigs}
  \cup {[AStart EXCEPT !.plugins = p, !.wildcard = w] : p \in SomePlugins, w \in BOOLEAN}
  \cup {[AStart EXCEPT !.unreadable = TRUE]}

\* The HTTP servers.
ASetup ==
  [kind |-> "std", given |-> FALSE, grace |-> FALSE, passed |-> FALSE, binds |-> TRUE, saves |-> TRUE,
   decorates |-> TRUE, tls |-> "none", h2c |-> FALSE, router |-> "none", handler |-> TRUE, keepAlive |-> TRUE,
   reusePort |-> FALSE]
Kinds == {"std", "fast", "rest", "restfast"}
Setups ==
  {[ASetup EXCEPT !.kind = k, !.reusePort = r, !.keepAlive = a] : k \in Kinds, r \in BOOLEAN, a \in BOOLEAN}
  \cup {[ASetup EXCEPT !.kind = k, !.given = l = "given", !.grace = l = "passed", !.passed = s, !.binds = h,
           !.tls = t, !.saves = s, !.h2c = h, !.router = IF s THEN "restful" ELSE "mux", !.handler = h,
           !.decorates = ~h] :
          k \in Kinds, l \in {"given", "passed", "none"}, t \in {"good", "badca", "badkey"}, s \in BOOLEAN, h \in BOOLEAN}

\* The loads of a configuration, and what its file may hold.
Loaders ==
  [a |-> [watch |-> TRUE, codec |-> "yaml"], b |-> [watch |-> FALSE, codec |-> "yaml"],
   c |-> [watch |-> TRUE, codec |-> "yaml"]]
Contents == {"v1", "v2", "bad"}

\* Services that listen, over a restart.
AListener == [networks |-> <<"tcp">>, address |-> "ip:1", tls |-> "none", given |-> FALSE, framer |-> TRUE]
Listening(service, reusePort, faults) == [service |-> service, reusePort |-> reusePort, faults |-> faults]
Listens ==
  {Listening([s1 |-> AListener, s2 |-> [AListener EXCEPT !.networks = n, !.address = "ip:2", !.tls = t]], r, {}) :
     n \in {<<"tcp", "udp">>, <<"udp">>, <<"unix">>}, r \in BOOLEAN, t \in {"none", "bad"}}
  \cup {Listening([s1 |-> [AListener EXCEPT !.networks = n, !.address = a, !.given = g, !.framer = f]], TRUE, {"bind", "close"}) :
          n \in {<<"tcp", "udp">>, <<"tcp4">>, <<"sctp">>}, a \in {"ip:1", ":1"}, g \in BOOLEAN, f \in BOOLEAN}
  \cup {Listening([s1 |-> AListener], TRUE, {"close", "accept"})}

\* Sockets with SO_REUSEPORT, two at once.
Binder(kind, version, ip, zone) == [kind |-> kind, version |-> version, ip |-> ip, zone |-> zone]
Binders ==
  {[b1 |-> Binder("tcp", 0, "v4", ""), b2 |-> Binder("udp", v, ip, "")] : v \in {0, 4, 6}, ip \in {"none", "v4", "v6"}}
  \cup {[b1 |-> Binder("udp", 4, "v4", ""), b2 |-> Binder("tcp", v, ip, "")] : v \in {0, 6}, ip \in {"none", "v6"}}
  \cup {[b1 |-> Binder("unix", 0, "none", ""), b2 |-> Binder("udp", v, "v6", z)] : v \in {0, 6}, z \in {"", "unknown"}}

\* The admin service and its requests.
Ask(path, method, value) ==
  [path |-> path, method |-> method, name |-> "default", value |-> value, form |-> "absent", num |-> 0]
Spans(path, form, num) == [Ask(path, "GET", "") EXCEPT !.form = form, !.num = num]
AdminRequests ==
  [a |-> Ask("/cmds/loglevel", "PUT", "error"), b |-> Ask("/cmds/loglevel", "PUT", "nonsense"),
   c |-> Ask("/cmds/loglevel", "GET", ""), d |-> [Ask("/cmds/loglevel", "GET", "") EXCEPT !.name = "other"],
   e |-> Spans("/cmds/rpcz/spans", "number", 2), f |-> Spans("/cmds/rpcz/spans", "malformed", 0),
   g |-> Spans("/cmds/rpcz/spans", "absent", 0), h |-> Spans("/cmds/rpcz/spans/", "number", 2),
   i |-> Ask("/is_healthy/", "GET", ""), j |-> Ask("/cmds/is_precool/", "GET", ""), k |-> Ask("/cmds/config", "GET", ""),
   l |-> Ask("/cmds", "GET", ""), m |-> Ask("/late", "GET", ""), n |-> Ask("/cmds/loglevel", "POST", "")]
AnAdmin ==
  [skipServe |-> FALSE, enableTLS |-> FALSE, graceful |-> FALSE, passed |-> FALSE, binds |-> TRUE, closeErr |-> "",
   handleFuncs |-> {}, health |-> [default |-> "Serving"], precool |-> "nil", file |-> "f", spans |-> <<1, 2, 3>>,
   requests |-> {}]
AdminConfigs ==
  {[AnAdmin EXCEPT !.skipServe = s, !.enableTLS = t, !.closeErr = IF g THEN "e" ELSE "", !.graceful = g, !.passed = p] :
     s, t, g, p \in BOOLEAN}
  \cup {[AnAdmin EXCEPT !.requests = {"a", "b", "c"}], [AnAdmin EXCEPT !.requests = {"d", "i", "n"}, !.binds = FALSE]}
  \cup {[AnAdmin EXCEPT !.requests = r, !.spans = s, !.handleFuncs = {"/own"}] :
          r \in {{"e", "m"}, {"f", "h"}, {"g", "l"}, {"a", "n"}}, s \in {<<>>, <<1>>, <<1, 2, 3>>}}
  \cup {[AnAdmin EXCEPT !.requests = {"i", "j", "k"}, !.health = [default |-> h], !.precool = p, !.file = f] :
          h \in {"Serving", "NotServing", "Unknown"}, p \in {"nil", "ready"}, f \in {"f", "unreadable", "malformed"}}

\* Services: their options, what is registered with them, and their requests.
Opt(kind, field, value) == [kind |-> kind, field |-> field, value |-> value]
Trpc == Opt("protocol", "", "trpc")
SomeOptions ==
  {Trpc, Opt("protocol", "", "none"), Opt("protocol", "", "http"), Opt("network", "", "tcp"), Opt("network", "", "udp"),
   Opt("transport", "", "nil"), Opt("transport", "", "own"), Opt("serve", "address", "a"), Opt("serve", "address", "b"),
   Opt("handler", "", "h"), Opt("name", "", "n"), Opt("filter", "n", "f"), Opt("streamFilter", "", "s"), Opt("field", "streamTransport", "x")}
Desc(methods, impl, stream) ==
  [methods |-> methods, impl |-> impl, stream |-> stream, implements |-> TRUE, bindings |-> <<>>]
ARequest ==
  [frame |-> TRUE, method |-> "m", body |-> "good", key |-> "k", timeout |-> 0, sendOnly |-> FALSE, late |-> FALSE,
   panics |-> FALSE]
OneService ==
  [options |-> <<Trpc>>, descs |-> <<Desc(<<"m">>, 1, "none")>>, requests |-> <<>>, extractors |-> {}, async |-> FALSE]
Filtered == <<Trpc, Opt("filter", "", "f"), Opt("filter", "", "g"), Opt("field", "timeout", 2)>>
ServiceScenarios ==
  {[OneService EXCEPT !.options = <<a, b, c>>, !.descs = <<Desc(<<"m">>, 1, "ok")>>] : a, b, c \in SomeOptions}
  \cup {[OneService EXCEPT !.descs =
            <<[Desc(a, 1, "none") EXCEPT !.bindings = d],
              [Desc(b, 2, s) EXCEPT !.implements = i, !.bindings = <<"good", "bad">>], Desc(<<"*">>, 3, "none")>>] :
          a \in {<<"m", "n">>, <<"m">>}, b \in {<<"o", "n">>, <<"n", "n">>}, i \in BOOLEAN,
          s \in {"none", "ok", "fails"}, d \in {<<>>, <<"good">>}}
  \cup {[OneService EXCEPT !.options = Filtered, !.extractors = e, !.async = s,
            !.requests = <<[ARequest EXCEPT !.body = b, !.timeout = 1, !.late = TRUE],
                           [ARequest EXCEPT !.key = k, !.timeout = 3],
                           [ARequest EXCEPT !.method = m, !.frame = f, !.panics = TRUE]>>] :
          e \in SUBSET {"preDecode", "preUnmarshal"}, s \in BOOLEAN, b \in {"good", "bad"}, k \in {"", "k"},
          m \in {"m", "x"}, f \in BOOLEAN}

\* Goroutines of a handler.
GoerPlan(kind, workers, recovers, ends) ==
  [kind |-> kind, workers |-> workers, shouldRecover |-> recovers, ends |-> ends]
GoerPlans ==
  {GoerPlan(k, 0, TRUE, e) : k \in {"wait", "sync"}, e \in [Tasks -> {"nil", "error", "panic"}]}
  \cup {GoerPlan("async", w, r, e) : w \in {0, 1}, r \in BOOLEAN, e \in [Tasks -> {"nil", "panic"}]}

-----------------------------------------------------------------------------
Server == INSTANCE Server
Detached == INSTANCE Detached
Startup == INSTANCE Startup
HttpServer == INSTANCE HttpServer
ConfigWatch == INSTANCE ConfigWatch
Listeners == INSTANCE Listeners
Admin == INSTANCE Admin
Service == INSTANCE Service

\* The parts whose scenarios Init chooses have no state in the behaviours of the others.
Off == 0

Init ==
  /\ part \in Parts
  /\ Server!Init /\ (part # "server" => conf = Plain)
  /\ GroupInit /\ (part # "keepOrder" => groupFaults = {})
  /\ HealthInit /\ QueueInit /\ Detached!Init
  /\ ConfigWatch!Init /\ (part # "config" => file.content = "v1")
  /\ IF part = "startup" THEN Startup!Init
     ELSE start = Off /\ cfg = Off /\ plugins = Off /\ clients = Off /\ services = Off
  /\ IF part = "httpServer" THEN HttpServer!Init
     ELSE /\ setup = Off /\ listener = Off /\ saved = Off /\ serving = Off
          /\ signals = Off /\ conns = Off /\ answered = Off
  /\ IF part = "listeners" THEN Listeners!ListenersInit
     ELSE listens = Off /\ sockets = Off /\ processes = Off /\ starts = Off /\ loops = Off
  /\ IF part = "admin" THEN Admin!AdminInit ELSE admin = Off /\ levels = Off /\ requests = Off /\ closers = Off
  /\ IF part = "service" THEN Service!ServiceInit
     ELSE /\ scenario = Off /\ opts = Off /\ handlers = Off /\ registered = Off
          /\ inputs = Off /\ groups = Off /\ out = Off
  /\ IF part = "goer" THEN Detached!GoerInit ELSE request = Off /\ tasks = Off /\ first = Off /\ pending = Off
  /\ IF part = "reuse" THEN Listeners!ReuseInit ELSE descriptors = Off /\ binds = Off /\ stolen = Off

StartupRest == UNCHANGED <<part, serverVars, groupVars, healthVars, queueVars, detachedVars, httpServerVars, configVars, moreVars>>
HttpRest == UNCHANGED <<part, serverVars, groupVars, healthVars, queueVars, detachedVars, startupVars, configVars, moreVars>>
ConfigRest == UNCHANGED <<part, serverVars, groupVars, healthVars, queueVars, detachedVars, startupVars, httpServerVars, moreVars>>
ServerRest == UNCHANGED <<part, groupVars, healthVars, queueVars, detachedVars, startupVars, httpServerVars, configVars, moreVars>>
GroupRest == UNCHANGED <<part, serverVars, healthVars, queueVars, detachedVars, startupVars, httpServerVars, configVars, moreVars>>
HealthRest == UNCHANGED <<part, serverVars, groupVars, queueVars, detachedVars, startupVars, httpServerVars, configVars, moreVars>>
QueueRest == UNCHANGED <<part, serverVars, groupVars, healthVars, detachedVars, startupVars, httpServerVars, configVars, moreVars>>
DetachedRest == UNCHANGED <<part, serverVars, groupVars, healthVars, queueVars, startupVars, httpServerVars, configVars, moreVars>>
MoreRest ==
  UNCHANGED <<part, serverVars, groupVars, healthVars, queueVars, detachedVars, startupVars, httpServerVars, configVars>>
ListenerRest == MoreRest /\ UNCHANGED <<adminVars, serviceVars, goerVars, reuseVars>>
AdminRest == MoreRest /\ UNCHANGED <<listenerVars, serviceVars, goerVars, reuseVars>>
ServiceRest == MoreRest /\ UNCHANGED <<listenerVars, adminVars, goerVars, reuseVars>>
GoerRest == MoreRest /\ UNCHANGED <<listenerVars, adminVars, serviceVars, reuseVars>>
ReuseRest == MoreRest /\ UNCHANGED <<listenerVars, adminVars, serviceVars, goerVars>>

System ==
  \/ part = "server" /\ Server!SystemStep /\ ServerRest
  \/ part = "keepOrder" /\ GroupStep /\ GroupRest
  \/ part = "queue" /\ QueueStep /\ QueueRest
  \/ part = "detached" /\ Detached!DetachedStep /\ DetachedRest
  \/ part = "startup" /\ Startup!StartupNext /\ StartupRest
  \/ part = "httpServer" /\ HttpServer!Closing /\ HttpRest
  \/ part = "config" /\ ConfigWatch!ConfigStep /\ ConfigRest
  \/ part = "listeners" /\ Listeners!ListenerStep /\ ListenerRest
  \/ part = "admin" /\ Admin!AdminStep /\ AdminRest
  \/ part = "goer" /\ Detached!GoerStep /\ GoerRest

\* The handlers of HTTP requests, which may come without end.
Replying == part = "httpServer" /\ HttpServer!Replying /\ HttpRest

Environment ==
  \/ part = "server" /\ Server!Environment /\ ServerRest
  \/ part = "keepOrder" /\ Remove /\ GroupRest
  \/ part = "health" /\ HealthNext /\ HealthRest
  \/ part = "precool" /\ PrecoolNext /\ HealthRest
  \/ part = "queue" /\ QueueNext /\ QueueRest
  \/ part = "detached" /\ Detached!DetachedNext /\ DetachedRest
  \/ part = "httpServer" /\ HttpServer!HttpServerNext /\ HttpRest
  \/ part = "config" /\ ConfigWatch!ConfigNext /\ ConfigRest
  \/ part = "listeners" /\ Listeners!ListenersNext /\ ListenerRest
  \/ part = "admin" /\ Admin!AdminNext /\ AdminRest
  \/ part = "service" /\ Service!ServiceNext /\ ServiceRest
  \/ part = "goer" /\ Detached!GoerNext /\ GoerRest
  \/ part = "reuse" /\ Listeners!ReuseNext /\ ReuseRest

Next == System \/ Environment

\* The goroutines of the program go on; signals, requests and callers need not come.
FairSpec == Init /\ [][Next]_vars /\ WF_vars(System) /\ WF_vars(Replying)

-----------------------------------------------------------------------------
\* A detached context answers as its request's does and is in exactly one place that will
\* let go of it, and the scavenger never waits for too many, see Detached.  A handler's
\* goroutines are waited for, or keep a message and a context of their own, see Detached.
ContextsTracked ==
  /\ Detached!ContextsTracked /\ Detached!ScavengerBounded
  /\ part = "goer" => Detached!WaitsForAll /\ Detached!TasksDetached
\* Plugins are set up after those they need and closed before them, and the services listen
\* where their configuration says, see Startup.  Options take effect in their order, and a
\* service handles each request once, in the order of its key, with its own message, see Service.
StartSound ==
  /\ part = "startup" => Startup!PluginsInOrder /\ Startup!ServicesSound
  /\ part = "service" => /\ Service!LastOptionDecides /\ Service!HandledOnce
                         /\ Service!KeysInOrder /\ Service!MessagesReturned
\* No step closes a service a second time (Server), drops a request that an HTTP server
\* carries (HttpServer), changes a configuration that does not watch (ConfigWatch), repairs
\* the configuration to something else (Startup) or takes a registered method away (Service).
StepsAllowed ==
  [][/\ Server!ClosedOnce
     /\ part = "httpServer" => HttpServer!ShutdownIsGraceful
     /\ ConfigWatch!LoadsDecide
     /\ part = "startup" => Startup!RepairedOnce
     /\ part = "service" => Service!MethodsKept]_vars
\* Serve returns after a signal, a Close or a failure; without idle timeouts every job runs;
\* a Get that has something to return does; a start ends; contexts that end are released;
\* a closed HTTP server lets go of its connections; listeners that are closed are no longer
\* accepted from; a closed admin service returns; goroutines of handlers end, see the modules.
ServingEnds ==
  []<>(/\ part = "server" => Server!ServeReturns
       /\ part = "keepOrder" => JobsRun
       /\ part = "queue" => GetReturned
       /\ part = "startup" => Startup!Started
       /\ part = "detached" => Detached!AllReleased
       /\ part = "httpServer" => HttpServer!ClosedServersEnd
       /\ part = "listeners" => Listeners!ListenersEnd
       /\ part = "admin" => Admin!AdminEnds
       /\ part = "goer" => Detached!GoerEnds)
\* A configuration that watches comes to hold what its file last held, see ConfigWatch.
WatchedStaysCurrent == <>[](part = "config" => ConfigWatch!WatchedCurrent)
=============================================================================

------------------------------ MODULE Startup ------------------------------
(* A server's start (NewServer in trpc.go): the configuration is loaded    *)
(* and repaired, the plugins are set up in the order of their              *)
(* dependencies, the backends' configurations are registered, and the      *)
(* services are made.  On shutdown the plugins are closed.                 *)
EXTENDS Integers, Sequences, SequencesExt, FiniteSetsExt, Functions

CONSTANTS
  Starts,               \* the configurations and plugins a server may start with
  Interfaces,           \* the host's network cards, with their addresses in order
  defaultIdleTimeout,
  ServerFilters         \* the filters that are registered

VARIABLES
  start,       \* what was chosen at the start, the host's addresses, and how far the start has come
  cfg,         \* the configuration
  plugins,     \* the queue of the plugins that wait, and the ones set up
  clients,     \* the backends' registered configurations
  services     \* the services made
startupVars == <<start, cfg, plugins, clients, services>>

None == ""
NoPlugins == [queue |-> <<>>, left |-> 0, num |-> 0, setup |-> <<>>, finished |-> <<>>, closed |-> <<>>]

\* addInterface: a card's addresses by family; others are skipped, and a card whose
\* addresses cannot be read, or that has none of these, has no entry.
addInterface(i) ==
  LET family(f) == LET of(a) == a.family = f IN [k \in DOMAIN SelectSeq(i.addrs, of) |-> SelectSeq(i.addrs, of)[k].ip] IN
  [ipv4 |-> family("4"), ipv6 |-> family("6")]
\* enumAllIP: the host's cards are read once.
enumAllIP ==
  LET listed == {i \in Range(Interfaces) : addInterface(i).ipv4 \o addInterface(i).ipv6 # <<>>} IN
  [name \in {i.name : i \in listed} |-> addInterface(CHOOSE i \in listed : i.name = name)]

Init ==
  /\ start \in [s : Starts, phase : {"load"}, ips : {enumAllIP}]
  /\ cfg = start.s.cfg
  /\ plugins = NoPlugins /\ clients = <<>> /\ services = <<>>

Fail(why) == start' = [start EXCEPT !.phase = why]
Goto(phase) == start' = [start EXCEPT !.phase = phase]

-----------------------------------------------------------------------------
setDefault(v, def) == IF v = None THEN def ELSE v
OrDefault(n, def) == IF n = 0 THEN def ELSE n

\* getIPByNic: a card's first IPv4 address, else its first IPv6 address.
getIPByNic(nic) == IF nic \in DOMAIN start.ips THEN (start.ips[nic].ipv4 \o start.ips[nic].ipv6)[1] ELSE None
IPOf(x) == IF x.ip = None THEN getIPByNic(x.nic) ELSE x.ip
NoSuchNic(x) == x.ip = None /\ x.nic # None /\ getIPByNic(x.nic) = None

\* repairServiceIPWithNic: the first service that has an address gives the host its own.
repairServiceIPWithNic(c) ==
  LET svcs == [i \in DOMAIN c.service |-> [c.service[i] EXCEPT !.ip = IPOf(c.service[i])]] IN
  [c EXCEPT !.service = svcs, !.admin.ip = IPOf(c.admin),
            !.localIP = FoldLeft(LAMBDA ip, s : setDefault(ip, s.ip), c.localIP, svcs)]
NicMissing(c) == NoSuchNic(c.admin) \/ \E i \in DOMAIN c.service : NoSuchNic(c.service[i])

\* Impl.Build: a builder that is set makes a controller, a new one each time.
Build(oc, n) == IF oc.builder = None THEN oc ELSE [oc EXCEPT !.controller = n]
NoBuilder(c) == \E oc \in {c.overloadCtrl} \cup {c.service[i].overloadCtrl : i \in DOMAIN c.service} : oc.builder = "unknown"

deduplicate(a, b) ==
  FoldLeft(LAMBDA acc, f : IF f \in Range(acc) THEN acc ELSE Append(acc, f), <<>>, a \o b)

\* One round of the loop over the services in RepairConfig.
repairService(s, c) ==
  LET ip == setDefault(s.ip, c.localIP)
      timeout == OrDefault(s.timeout, c.timeout)
  IN [s EXCEPT !.protocol = setDefault(@, c.protocol), !.ip = ip,
               !.address = IF @ = <<>> THEN <<ip, s.port>> ELSE @,
               !.async = setDefault(@, "on"), !.writev = setDefault(@, "off"),
               !.timeout = timeout,
               !.overloadCtrl = IF @.builder = None THEN c.overloadCtrl
                                ELSE IF @.controller = 0 THEN Build(@, 100 + c.builds) ELSE @,
               !.idletime = IF @ # 0 THEN @ ELSE IF timeout > defaultIdleTimeout THEN timeout ELSE defaultIdleTimeout]

\* repairClientConfig: a backend with a target of its own does not take the selector's parts.
repairClientConfig(b, cl) ==
  [b EXCEPT !.callee = setDefault(@, b.serviceName),
            !.serviceName = setDefault(@, b.callee),
            !.namespace = setDefault(@, cl.namespace),
            !.protocol = setDefault(@, cl.protocol),
            !.discovery = IF b.target = None THEN setDefault(@, cl.discovery) ELSE @,
            !.timeout = OrDefault(@, cl.timeout),
            !.filter = deduplicate(cl.filter, @)]

RepairConfig(c) ==
  LET nic == repairServiceIPWithNic(repairServiceIPWithNic(c))
      built == [nic EXCEPT !.readBufferSize = setDefault(@, "default"), !.builds = @ + 1,
                           !.overloadCtrl = Build(@, c.builds + 1), !.localIP = setDefault(@, "0.0.0.0")]
      cl == [c.client EXCEPT !.namespace = setDefault(@, c.namespace)]
  IN [built EXCEPT !.admin.ip = setDefault(@, built.localIP),
                   !.service = [i \in DOMAIN @ |-> repairService(@[i], built)],
                   !.client = [cl EXCEPT !.service = [i \in DOMAIN @ |-> repairClientConfig(@[i], cl)]]]
Unrepairable(c) == NicMissing(c) \/ NoBuilder(c)

\* LoadConfig, then SetGlobalConfig.
LoadConfig ==
  /\ start.phase = "load"
  /\ IF start.s.unreadable \/ Unrepairable(cfg) THEN Fail("load config fail") /\ UNCHANGED cfg
     ELSE cfg' = RepairConfig(cfg) /\ Goto("loaded")
  /\ UNCHANGED <<plugins, clients, services>>

-----------------------------------------------------------------------------
\* loadPlugins: the configured plugins, in a map's order.
Plugins == start.s.plugins
loadPlugins ==
  /\ start.phase = "loaded"
  /\ IF \E p \in DOMAIN Plugins : ~Plugins[p].registered THEN Fail("setup plugin fail") /\ UNCHANGED plugins
     ELSE /\ \E order \in SetToSeqs(DOMAIN Plugins) :
               plugins' = [plugins EXCEPT !.queue = order, !.left = Len(order), !.num = Len(order)]
          /\ Goto("plugins")
  /\ UNCHANGED <<cfg, clients, services>>

IsSetup(p) == p \in Range(plugins.setup)
\* hasDependence and checkDependence: the strong ones first, then the flexible ones that exist.
checkDependence(p, deps, flexible) ==
  IF p \in deps THEN "self"
  ELSE IF ~flexible /\ ~(deps \subseteq DOMAIN Plugins) THEN "missing"
  ELSE IF \E d \in deps \cap DOMAIN Plugins : ~IsSetup(d) THEN "wait" ELSE "ready"
\* Mutant: the flexible dependencies are not looked at.
hasDependenceStrong(p) == checkDependence(p, Plugins[p].dependsOn, FALSE)
hasDependence(p) ==
  LET strong == checkDependence(p, Plugins[p].dependsOn, FALSE) IN
  IF strong = "ready" THEN checkDependence(p, Plugins[p].flexDependsOn, TRUE) ELSE strong

\* setup: the factory's Setup, or the end of the time it has.
setup(p) == Plugins[p].setup

\* One round of the loops of setupPlugins: p is set up, or goes to the tail of the queue.
setupPlugin ==
  LET p == Head(plugins.queue)
      dep == hasDependence(p)
  IN /\ start.phase = "plugins" /\ plugins.left > 0
     /\ IF dep \in {"self", "missing"} \/ (dep = "ready" /\ setup(p) # "ok")
        THEN Fail("setup plugin fail") /\ UNCHANGED plugins
        ELSE /\ plugins' = IF dep = "wait" THEN [plugins EXCEPT !.left = @ - 1, !.queue = Append(Tail(@), p)]
                           ELSE [plugins EXCEPT !.left = @ - 1, !.queue = Tail(@), !.setup = Append(@, p)]
             /\ UNCHANGED start
     /\ UNCHANGED <<cfg, clients, services>>

\* The end of a round: nothing set up means a cycle.
nextRound ==
  /\ start.phase = "plugins" /\ plugins.left = 0
  /\ IF plugins.num = 0 THEN Goto("finish") /\ UNCHANGED plugins
     ELSE IF Len(plugins.queue) = plugins.num THEN Fail("cycle depends") /\ UNCHANGED plugins
     ELSE plugins' = [plugins EXCEPT !.left = Len(plugins.queue), !.num = Len(plugins.queue)] /\ UNCHANGED start
  /\ UNCHANGED <<cfg, clients, services>>

\* onFinish: the plugins that want to know are told that all are set up.
onFinish ==
  /\ start.phase = "finish"
  /\ IF \E p \in DOMAIN Plugins : Plugins[p].finish = "error" THEN Fail("setup plugin fail") /\ UNCHANGED plugins
     ELSE Goto("clients") /\ plugins' = [plugins EXCEPT !.finished = SelectSeq(plugins.setup, LAMBDA p : Plugins[p].finish # None)]
  /\ UNCHANGED <<cfg, clients, services>>

\* SetupClients: the backends, then the wildcard unless a plugin registered one.
SetupClients ==
  LET wildcard == [callee |-> None, serviceName |-> None, protocol |-> cfg.client.protocol, namespace |-> cfg.client.namespace,
                   timeout |-> cfg.client.timeout, filter |-> cfg.client.filter, discovery |-> cfg.client.discovery, target |-> None]
  IN /\ start.phase = "clients"
     /\ clients' = [i \in DOMAIN cfg.client.service |-> cfg.client.service[i]] \o (IF start.s.wildcard THEN <<>> ELSE <<wildcard>>)
     /\ Goto("server")
     /\ UNCHANGED <<cfg, plugins, services>>

-----------------------------------------------------------------------------
\* setupAdmin: served only where a port is configured.
setupAdmin(c) == [name |-> "admin", address |-> IF c.admin.port = 0 THEN <<>> ELSE <<c.admin.ip, c.admin.port>>]

\* newServiceWithConfig.
newServiceWithConfig(c, s) ==
  [name |-> s.name, address |-> s.address, protocol |-> s.protocol, filters |-> deduplicate(c.filter, s.filter),
   timeout |-> s.timeout, idletime |-> s.idletime, overloadCtrl |-> s.overloadCtrl]

\* NewServerWithConfig: the configuration is repaired again.
NewServerWithConfig ==
  LET c == RepairConfig(cfg) IN
  /\ start.phase = "server"
  /\ IF \E i \in DOMAIN c.service : ~(Range(deduplicate(c.filter, c.service[i].filter)) \subseteq ServerFilters)
     THEN Fail("filter no registered") /\ UNCHANGED <<cfg, services>>
     ELSE /\ cfg' = c
          /\ services' = <<setupAdmin(c)>> \o [i \in DOMAIN c.service |-> newServiceWithConfig(c, c.service[i])]
          /\ Goto("serving")
  /\ UNCHANGED <<plugins, clients>>

\* Shutdown: the plugins that can be closed are, the last first, up to the first that fails.
ToClose == Reverse(SelectSeq(plugins.setup, LAMBDA p : Plugins[p].close # None))
Shutdown ==
  LET failing == {i \in DOMAIN ToClose : Plugins[ToClose[i]].close = "error"} IN
  /\ start.phase = "serving"
  /\ plugins' = [plugins EXCEPT !.closed = IF failing = {} THEN ToClose ELSE SubSeq(ToClose, 1, Min(failing))]
  /\ Goto("closed")
  /\ UNCHANGED <<cfg, clients, services>>

StartupNext ==
  \/ LoadConfig \/ loadPlugins \/ setupPlugin \/ nextRound \/ onFinish
  \/ SetupClients \/ NewServerWithConfig \/ Shutdown

-----------------------------------------------------------------------------
(* A plugin is set up after every plugin that it depends on, strongly or,  *)
(* where that one is configured, weakly; the set-up fails for a cycle only *)
(* where some plugins do wait for each other; and a server serves with all *)
(* its plugins set up (Config.SetupClosables).                             *)
Needs(p) == Plugins[p].dependsOn \cup (Plugins[p].flexDependsOn \cap DOMAIN Plugins)
PluginsInOrder ==
  /\ \A i \in DOMAIN plugins.setup : Needs(plugins.setup[i]) \subseteq {plugins.setup[j] : j \in 1..(i - 1)}
  /\ start.phase = "cycle depends" =>
       \A p \in DOMAIN Plugins \ Range(plugins.setup) : \E d \in Needs(p) : ~IsSetup(d)
  /\ start.phase \in {"clients", "server", "serving", "closed"} => Range(plugins.setup) = DOMAIN Plugins
  /\ \A i, j \in DOMAIN plugins.closed : i < j => plugins.closed[j] \notin {p \in DOMAIN Plugins : plugins.closed[i] \in Needs(p)}

(* A start ends: a cycle of plugins is found, whatever the order the       *)
(* configuration lists them in.                                            *)
Started == start.phase \notin {"load", "loaded", "plugins", "finish", "clients", "server"}

(* Repairing the configuration twice, as NewServer does, gives what the    *)
(* first repair gave, which the plugins were shown (SetGlobalConfig).      *)
(* Every service has an address to listen on, its own before the host's,   *)
(* and the services without an overload controller of their own share one. *)
Observable(c) == [service |-> c.service, client |-> c.client, admin |-> c.admin, localIP |-> c.localIP]
RepairedOnce == start.phase = "server" => Observable(cfg') = Observable(cfg)
ServicesSound ==
  start.phase = "serving" =>
    \A i \in DOMAIN cfg.service :
      LET s == cfg.service[i]
          given == start.s.cfg.service[i]
      IN /\ s.ip # None
         /\ s.ip = IF given.ip # None THEN given.ip
                   ELSE IF given.nic # None THEN getIPByNic(given.nic)
                   ELSE IF start.s.cfg.localIP # None THEN start.s.cfg.localIP
                   ELSE cfg.localIP
         /\ s.idletime >= s.timeout \/ given.idletime # 0
         /\ \A j \in DOMAIN cfg.service :
              given.overloadCtrl.builder = None /\ start.s.cfg.service[j].overloadCtrl.builder = None =>
                s.overloadCtrl = cfg.service[j].overloadCtrl
=============================================================================

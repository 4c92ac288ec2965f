---------------------------- MODULE ClientOptions ----------------------------
(***************************************************************************)
(* The options of a client call: the registry of configured options        *)
(* (client/config.go), and how a call builds its own options from the      *)
(* configured ones (client/options.go, client/client.go).                  *)
(*                                                                         *)
(* A call copies the configured Options struct, so its slices share their  *)
(* backing arrays with every other call until an append outgrows them.     *)
(* The model keeps the arrays: a slice is a window on one, an append       *)
(* writes into the array when there is room and moves to a new one when    *)
(* there is none.                                                          *)
(***************************************************************************)
EXTENDS Integers, SequencesExt, FiniteSetsExt, TLC

CONSTANTS Calls,            \* concurrent client calls
          Scenarios,        \* per call: its mode ("once", "retry", "hedge" or "stream")
                            \* and its own options, in order
          MaxConfigured,    \* most entries a configured slice has
          Keys, Services,   \* callees with a configuration, and their service names
          MaxRegistrations

VARIABLES heap,             \* backing arrays: id -> elements
          configured,       \* slices of the configured Options
          invoked,            \* per call: its Options and how far it is
          attempts,         \* per call and attempt: its Options, what it used
          registry,         \* configs and options, per callee
          lookups           \* a lookup of the options of a callee and service

optionVars == <<heap, configured, invoked, attempts>>
registryVars == <<registry, lookups>>

Fields == {"select", "call", "filters", "streamFilters"}
Tries == {1, 2}

(* The options a caller may pass, by what they do: append to a slice, or   *)
(* assign a field of the call's own struct.                                *)
NamingOptions == {"WithNamespace", "WithCallerServiceName", "WithCallerNamespace",
  "WithDisableServiceRouter", "WithEnvKey", "WithCallerEnvName", "WithCallerSetName",
  "WithCalleeSetName", "WithCalleeEnvName", "WithCallerMetadata", "WithCalleeMetadata",
  "WithBalancerName", "WithDiscoveryName", "WithServiceRouterName", "WithCircuitBreakerName",
  "WithKey", "WithReplicas"}
ConnectOptions == {"WithNetwork", "WithPassword", "WithPool", "WithMultiplexedPool"}
ProtocolOptions == {"WithProtocol", "WithConnectionMode", "WithSendOnly"}
FilterOptions == {"WithFilter", "WithNamedFilter", "WithFilters"}
StreamFilterOptions == {"WithStreamFilters", "WithStreamFilter"}
DialOptions == {"WithTLS", "WithCertProvider", "WithDisableConnectionPool", "WithLocalAddr",
  "WithDialTimeout", "WithPreWarm"}
CodecOptions == {"WithOverloadCtrl", "WithTimeout", "WithCurrentSerializationType",
  "WithSerializationType", "WithCurrentCompressType", "WithCompressType", "WithTransport"}
StreamOptions == {"WithStreamTransport", "WithMaxWindowSize", "WithDisableStreamFlowControl",
  "WithSendControl", "WithRecvControl", "WithShouldErrReportToSelector"}

AppendsTo(option) ==
  CASE option \in NamingOptions -> "select"
    [] option \in ConnectOptions \cup ProtocolOptions \cup DialOptions -> "call"
    [] option \in FilterOptions -> "filters"
    [] option \in StreamFilterOptions -> "streamFilters"

Item(kind, by, n) == [kind |-> kind, by |-> by, n |-> n]
Nil == Item("nil", "", 0)
Empty == [arr |-> <<"", 0, "", 0>>, len |-> 0, cap |-> 0]

\* append of one element: within the capacity the array is written in place,
\* beyond it the elements move to a new array of twice the capacity, named here
\* after who appended, the field and the size.
append(h, who, n, f, s, e) ==
  LET fits == s.len < s.cap
      cap  == IF fits THEN s.cap ELSE Max({1, 2 * s.cap})
      arr  == IF fits THEN s.arr ELSE <<who, n, f, cap>>
      old  == IF s.cap = 0 THEN <<>> ELSE SubSeq(h[s.arr], 1, s.len)
      new  == IF fits THEN [h[s.arr] EXCEPT ![s.len + 1] = e]
                      ELSE old \o <<e>> \o [i \in 1 .. cap - s.len - 1 |-> Nil]
  IN [heap |-> [a \in DOMAIN h \cup {arr} |-> IF a = arr THEN new ELSE h[a]],
      slice |-> [arr |-> arr, len |-> s.len + 1, cap |-> cap]]

Elements(h, s) == IF s.len = 0 THEN <<>> ELSE SubSeq(h[s.arr], 1, s.len)

\* rebuildSliceCapacity: a slice with room to spare is copied to an array of its
\* length, so that the next append moves away.  StreamFilters is not among them.
\* Mutant: the options are copied, their arrays stay shared.
rebuildSliceCapacityNot(h, who, n, o) == [heap |-> h, opts |-> o]
rebuildSliceCapacity(h, who, n, o) ==
  LET spare == {f \in Fields \ {"streamFilters"} : o[f].len # o[f].cap}
      new   == [f \in spare |-> <<who, n, f, o[f].len>>]
      at(a) == CHOOSE f \in spare : new[f] = a
  IN [heap |-> [a \in DOMAIN h \cup Range(new) |->
                  IF a \in Range(new) THEN Elements(h, o[at(a)]) ELSE h[a]],
      opts |-> [f \in Fields |-> IF f \in spare
                                 THEN [arr |-> new[f], len |-> o[f].len, cap |-> o[f].len]
                                 ELSE o[f]]]


\* genOptions: the configured entries are appended one by one, then rebuilt.
genOptions(lengths) ==
  LET step(acc, p) == LET r == append(acc.heap, "config", 0, p[1], acc.opts[p[1]],
                                      Item("config", p[1], p[2]))
                      IN [heap |-> r.heap, opts |-> [acc.opts EXCEPT ![p[1]] = r.slice]]
      one(f)   == [i \in 1 .. lengths[f] |-> <<f, i>>]
      filled   == FoldLeft(step, [heap |-> <<>>, opts |-> [f \in Fields |-> Empty]],
                           one("select") \o one("call") \o one("filters") \o one("streamFilters"))
  IN rebuildSliceCapacity(filled.heap, "config", 0, filled.opts)

(* Options are applied in the order of the slice: each assigns, the last   *)
(* one wins.                                                               *)
Winner(items, kinds) ==
  LET of == SelectSeq(items, LAMBDA e : e.kind \in kinds) IN IF of = <<>> THEN Nil ELSE Last(of)

selectorOptions(items) ==
  [Ctx |-> Winner(items, {"ctx"}), source |-> Winner(items, {"config", "info", "own"})]

RoundTripOptions(items) ==
  [Address |-> Winner(items, {"addr"}), dial |-> Winner(items, {"config", "own"})]

OptionsInit ==
  /\ \E lengths \in [Fields -> 0 .. MaxConfigured] :
       LET g == genOptions(lengths) IN heap = g.heap /\ configured = g.opts
  /\ \E s \in Scenarios :
       invoked = [c \in Calls |-> [mode |-> s[c].mode, options |-> s[c].options, pc |-> "clone",
                                 opts |-> [f \in Fields |-> Empty], own |-> 0, fields |-> {},
                                 ran |-> <<>>]]
  /\ attempts = [c \in Calls |-> [a \in Tries |->
                   [pc |-> "idle", opts |-> [f \in Fields |-> Empty],
                    selected |-> selectorOptions(<<>>), dialled |-> RoundTripOptions(<<>>)]]]
-----------------------------------------------------------------------------
\* getOptions: the configured options of the callee are copied ...
Clone(c) ==
  /\ invoked[c].pc = "clone"
  /\ invoked' = [invoked EXCEPT ![c].pc = "info", ![c].opts = configured]
  /\ UNCHANGED <<heap, configured, attempts>>

Put(c, f, e, pc, own) ==
  LET r == append(heap, c, 0, f, invoked[c].opts[f], e)
  IN /\ heap' = r.heap
     /\ invoked' = [invoked EXCEPT ![c].opts[f] = r.slice, ![c].pc = pc, ![c].own = own]

\* ... the caller's own naming information is appended ...
getServiceInfoOptions(c) ==
  /\ invoked[c].pc = "info"
  /\ Put(c, "select", Item("info", c, 0), "own", 0)
  /\ UNCHANGED <<configured, attempts>>

\* ... and the options of the call are applied in their order.
WithOption(c) ==
  /\ invoked[c].pc = "own" /\ invoked[c].own < Len(invoked[c].options)
  /\ LET k == invoked[c].own + 1
         o == invoked[c].options[k]
     IN IF o \in CodecOptions \cup StreamOptions
        THEN invoked' = [invoked EXCEPT ![c].own = k, ![c].fields = @ \cup {o}] /\ UNCHANGED heap
        ELSE Put(c, AppendsTo(o), Item("own", c, k), "own", k)
  /\ UNCHANGED <<configured, attempts>>

\* fixFilters: the selector filter goes last (a stream selects in Init, or in a
\* stream filter when EnableStreamSelectInFilter is set).
fixFilters(c) ==
  /\ invoked[c].pc = "own" /\ invoked[c].own = Len(invoked[c].options)
  /\ IF invoked[c].mode = "stream"
     THEN \E inFilter \in BOOLEAN :
            IF inFilter THEN Put(c, "streamFilters", Item("selector", c, 0), "filter", invoked[c].own)
                        ELSE invoked' = [invoked EXCEPT ![c].pc = "filter"] /\ UNCHANGED heap
     ELSE IF invoked[c].opts["filters"].len = 0
          THEN invoked' = [invoked EXCEPT ![c].pc = "filter"] /\ UNCHANGED heap
          ELSE Put(c, "filters", Item("selector", c, 0), "filter", invoked[c].own)
  /\ UNCHANGED <<configured, attempts>>

\* The chain runs the filters its slice holds by now.
RunFilters(c) ==
  /\ invoked[c].pc = "filter"
  /\ invoked' = [invoked EXCEPT ![c].pc = "run", ![c].ran =
       Elements(heap, invoked[c].opts[IF invoked[c].mode = "stream" THEN "streamFilters" ELSE "filters"])]
  /\ UNCHANGED <<heap, configured, attempts>>
-----------------------------------------------------------------------------
\* An attempt works on the options of the call, or on its own copy when a filter
\* made them immutable to run attempts concurrently.
Opts(c, a) == IF invoked[c].mode = "hedge" THEN attempts[c][a].opts ELSE invoked[c].opts

MayStart(c, a) ==
  /\ invoked[c].pc = "run" /\ attempts[c][a].pc = "idle"
  /\ a = 2 => \/ invoked[c].mode = "hedge"
              \/ invoked[c].mode = "retry" /\ attempts[c][1].pc = "done"

PutAttempt(h, o, c, a, f, e, pc) ==
  LET r == append(h, c, IF invoked[c].mode = "hedge" THEN a ELSE 0, f, o[f], e)
      n == [o EXCEPT ![f] = r.slice]
  IN /\ heap' = r.heap
     /\ invoked' = IF invoked[c].mode = "hedge" THEN invoked ELSE [invoked EXCEPT ![c].opts = n]
     /\ attempts' = [attempts EXCEPT ![c][a].pc = pc, ![c][a].opts = n]

\* selectorFilter up to the selector: the copy for an immutable context, and the
\* context of the attempt among the select options.
selectorFilter(c, a) ==
  /\ MayStart(c, a)
  /\ IF invoked[c].mode = "hedge"
     THEN LET r == rebuildSliceCapacity(heap, c, a, invoked[c].opts)
          IN PutAttempt(r.heap, r.opts, c, a, "select", Item("ctx", c, a), "select")
     ELSE PutAttempt(heap, Opts(c, a), c, a, "select", Item("ctx", c, a), "select")
  /\ UNCHANGED configured

\* selectNode: the selector reads the select options; the node it returns is
\* appended to the call options (LoadNodeConfig).
selectNode(c, a) ==
  /\ attempts[c][a].pc = "select"
  /\ LET r == append(heap, c, IF invoked[c].mode = "hedge" THEN a ELSE 0, "call",
                     Opts(c, a)["call"], Item("addr", c, a))
         n == [Opts(c, a) EXCEPT !["call"] = r.slice]
     IN /\ heap' = r.heap
        /\ invoked' = IF invoked[c].mode = "hedge" THEN invoked ELSE [invoked EXCEPT ![c].opts = n]
        /\ attempts' = [attempts EXCEPT ![c][a].pc = "dial", ![c][a].opts = n,
                          ![c][a].selected = selectorOptions(Elements(heap, Opts(c, a)["select"]))]
  /\ UNCHANGED configured

\* callFunc: the transport applies the call options.
callFunc(c, a) ==
  /\ attempts[c][a].pc = "dial"
  /\ attempts' = [attempts EXCEPT ![c][a].pc = "done",
                    ![c][a].dialled = RoundTripOptions(Elements(heap, Opts(c, a)["call"]))]
  /\ UNCHANGED <<heap, configured, invoked>>

OptionsNext ==
  \E c \in Calls :
    \/ Clone(c) \/ getServiceInfoOptions(c) \/ WithOption(c) \/ fixFilters(c) \/ RunFilters(c)
    \/ \E a \in Tries : selectorFilter(c, a) \/ selectNode(c, a) \/ callFunc(c, a)
-----------------------------------------------------------------------------
(* The registry.  Options are named by the callee and the number of the    *)
(* registration their configuration came with.                             *)
Named(key, n) == [key |-> key, n |-> n]
Defaults == Named("default", 0)
Slot(key, service, n) == [fallback |-> Named(key, n), services |-> service :> Named(key, n)]

RegistryInit ==
  /\ registry = [options |-> <<>>, configs |-> <<>>, n |-> 0, since |-> [k \in Keys |-> 0]]
  /\ lookups = [pc |-> "idle", callee |-> "*", service |-> "", found |-> Defaults, missed |-> FALSE]

\* RegisterConfig: an invalid configuration changes nothing; else both maps are
\* replaced as a whole.
RegisterConfig(conf, valid) ==
  /\ registry.n < MaxRegistrations
  /\ LET n   == registry.n + 1
         new == [k \in DOMAIN conf |-> Slot(k, conf[k], n)]
     IN registry' = IF valid
          THEN [options |-> new, configs |-> new, n |-> n,
                since |-> [k \in Keys |-> IF k \in DOMAIN conf THEN n ELSE 0]]
          ELSE [registry EXCEPT !.n = n]
  /\ UNCHANGED lookups

\* One callee's entry of a map: the fallback is replaced, the services of earlier
\* registrations stay.
Updated(map, key, service, n) ==
  LET old == IF key \in DOMAIN map THEN map[key].services ELSE <<>>
  IN (key :> [fallback |-> Named(key, n), services |-> (service :> Named(key, n)) @@ old]) @@ map

\* RegisterClientConfig: the wildcard has no service name.
RegisterClientConfig(key, service, valid) ==
  /\ registry.n < MaxRegistrations
  /\ LET n == registry.n + 1
         s == IF key = "*" THEN "" ELSE service
     IN registry' = IF valid
          THEN [options |-> Updated(registry.options, key, s, n),
                configs |-> Updated(registry.configs, key, s, n), n |-> n,
                since |-> [registry.since EXCEPT ![key] = n]]
          ELSE [registry EXCEPT !.n = n]
  /\ UNCHANGED lookups

\* getOptionsByCalleeAndServiceName: the options of the service, under the read
\* lock; when there are none the lock is released before getOptions takes it again.
LookupService(callee, service) ==
  /\ lookups.pc = "idle"
  /\ lookups' =
       IF service # "" /\ callee \in DOMAIN registry.options
                       /\ service \in DOMAIN registry.options[callee].services
       THEN [pc |-> "done", callee |-> callee, service |-> service, missed |-> FALSE,
             found |-> registry.options[callee].services[service]]
       ELSE [pc |-> "fallback", callee |-> callee, service |-> service, missed |-> TRUE,
             found |-> Defaults]
  /\ UNCHANGED registry

\* getOptions: the callee's fallback, else the wildcard's, else the defaults.
getOptions(map, callee) ==
  CASE callee \in DOMAIN map -> map[callee].fallback
    [] callee \notin DOMAIN map /\ "*" \in DOMAIN map -> map["*"].fallback
    [] OTHER -> Defaults

LookupFallback ==
  /\ lookups.pc = "fallback"
  /\ lookups' = [lookups EXCEPT !.pc = "done", !.found = getOptions(registry.options, lookups.callee)]
  /\ UNCHANGED registry

LookupEnds == lookups.pc = "done" /\ lookups' = [lookups EXCEPT !.pc = "idle"] /\ UNCHANGED registry

RegistryNext ==
  \/ \E ks \in SUBSET Keys, valid \in BOOLEAN :
       \E conf \in [ks -> Services] : RegisterConfig(conf, valid)
  \/ \E k \in Keys, s \in Services, valid \in BOOLEAN : RegisterClientConfig(k, s, valid)
  \/ \E k \in Keys, s \in Services : LookupService(k, s)
  \/ LookupFallback
  \/ LookupEnds
-----------------------------------------------------------------------------
Configured(f) == Elements(heap, configured[f])
OwnItems(c, f) ==
  LET mine == SelectSeq([k \in 1 .. Len(invoked[c].options) |-> k], LAMBDA k :
              invoked[c].options[k] \notin CodecOptions \cup StreamOptions
                /\ AppendsTo(invoked[c].options[k]) = f)
  IN [i \in DOMAIN mine |-> Item("own", c, mine[i])]

\* The configured options are what the configuration says, whatever calls append.
ConfigurationStable ==
  \A f \in Fields : \A i \in 1 .. configured[f].len : Configured(f)[i] = Item("config", f, i)

\* A unary call runs the configured filters, then its own, then the selector,
\* however many calls build their options at the same time.
FiltersOwn ==
  \A c \in Calls :
    invoked[c].pc = "run" /\ invoked[c].mode # "stream" =>
      LET all == Configured("filters") \o OwnItems(c, "filters")
      IN invoked[c].ran = IF all = <<>> THEN <<>> ELSE Append(all, Item("selector", c, 0))

LastOf(items, otherwise) == IF items = <<>> THEN otherwise ELSE Last(items)

\* The selector of an attempt gets the attempt's own context, and the caller's own
\* naming options win over what the message says; the transport dials the node of
\* the attempt, and the call's own dial options win over the configured ones.
AttemptsOwn ==
  \A c \in Calls, a \in Tries :
    LET t == attempts[c][a] IN
    /\ t.pc \in {"dial", "done"} =>
         t.selected = [Ctx |-> Item("ctx", c, a),
                       source |-> LastOf(OwnItems(c, "select"), Item("info", c, 0))]
    /\ t.pc = "done" =>
         t.dialled = [Address |-> Item("addr", c, a),
                      dial |-> LastOf(OwnItems(c, "call"), LastOf(Configured("call"), Nil))]

\* The configuration shown for a callee and the options used for it always come
\* from the same registration, the last valid one that named the callee, and a
\* service keeps its options when another service of the callee is registered.
RegistryAgrees ==
  /\ registry.options = registry.configs
  /\ \A k \in DOMAIN registry.options :
       LET s == registry.options[k] IN
       /\ s.fallback = Named(k, registry.since[k])
       /\ s.fallback \in Range(s.services)
       /\ \A x \in Range(s.services) : x.key = k

\* A lookup ends with options of its callee, or with the wildcard's or the
\* defaults; a service that was found keeps its own.
LookupsOwn ==
  lookups.pc = "done" =>
    /\ lookups.found.key \in {lookups.callee, "*", "default"}
    /\ ~lookups.missed => lookups.found.key = lookups.callee
=============================================================================

------------------------------ MODULE MCCalls -------------------------------
(* One call and what it uses: the message, the frames of the trpc protocol *)
(* and of its streams, the choice of a node, the client's options and      *)
(* their registry, the deadlines of a chain of calls, the round trip over  *)
(* a connection with its idle timeout, the same over the tnet transports   *)
(* and their listening, and the tnet multiplex pool.  The parts share no   *)
(* state, so a behaviour is about one of them, the one that the variable   *)
(* part names, and the variables of the others are off.                    *)
EXTENDS Integers, Sequences, FiniteSets, TLC

CONSTANTS Parts, Msgs, MaxCalls, FrameHeadLen, MaxHeader, MaxFrameSize, Word, Attempts, StreamIDs, InitWindow, MaxWindow,
          Callers, DefaultWeight, Interval, Replicas,
          Calls, MaxConfigured, Keys, Services, MaxRegistrations,
          Hops, Millisecond, MaxClock, Conns, Refresh, IdleTimeouts, MaxIdleClock,
          TnetCalls, MaxHosts, MaxDials, maxConcurrentVirConns, Uint

VARIABLES
  part,
  msgs, held, setters, copy, parsed,
  client, exchange, result,
  plans, ends, serverEnds, initMetas, toServer, toClient,
  setup, listed, picker, bans, breakers, selections, trace,
  heap, configured, invoked, attempts,
  registry, lookups,
  now, chain, root, caller, callee,
  plan, call, conn, job, shutdown,
  idle, boot,
  hosts, pooled, conns, vcs

-----------------------------------------------------------------------------
(* Values of the constants *)

Names == UNION {[1..n -> {"/", ".", "a"}] : n \in 0..6}

Sent == {"k", "env", "dyeing"}
Requests == [body : {1}, attm : {0, 2, 5}, meta : {{}, {"env"}, Sent},
             env : BOOLEAN, dyeingKey : BOOLEAN, dyeing : BOOLEAN]
Outcomes == [err : {"none", "framework", "business"}, body : {0, 2}, attm : {0, 4}, meta : {{}, Sent}]

Opening(rpc, types) ==
  [caller |-> "c", rpc |-> rpc, types |-> types, dyeing |-> TRUE, meta |-> {"k", "env"}, env |-> FALSE, dyeingKey |-> TRUE]
StreamPlan(window, handler, closes) ==
  [msg |-> Opening("m1", "pb"), disabled |-> window = 0, window |-> window, serverWindow |-> 9, registered |-> TRUE,
   handler |-> handler, trailer |-> {"k", "t"}, closes |-> closes, sends |-> 1]
OtherStream(known) ==
  [StreamPlan(3, "nil", "CLOSE") EXCEPT !.sends = 0, !.registered = known,
     !.msg = [Opening("m2", "json") EXCEPT !.env = TRUE, !.dyeing = FALSE, !.meta = {}]]
StreamPlans ==
  {<<p, OtherStream(TRUE)>> : p \in {StreamPlan(1, "nil", "CLOSE"), StreamPlan(0, "plain", "CLOSE"), StreamPlan(9, "errs", "CLOSE")}}
    \cup {<<StreamPlan(1, "nil", "RESET"), OtherStream(FALSE)>>}

Lists == {<<>>, <<"a">>, <<"a", "b">>, <<"c", "a">>, <<"a", "b", "c">>}
Weight == [x \in {"a", "b", "c"} |-> CASE x = "a" -> 1 [] x = "b" -> 0 [] x = "c" -> 2]
Layouts == {<<"a", "b", "c", "a", "b", "c">>, <<"a", "a", "b", "b", "c", "c">>, <<"b", "a", "b", "c", "c", "a">>}
Position(l, p) ==
  CHOOSE k \in DOMAIN l : l[k] = p[1] /\ Cardinality({j \in 1..(k - 1) : l[j] = p[1]}) = p[2]
\* Three hash functions without collisions and one with.
Points == {[p \in {"a", "b", "c"} \X {0, 1} |-> Position(l, p)] : l \in Layouts}
            \cup {[p \in {"a", "b", "c"} \X {0, 1} |-> 1 + p[2]]}
Hashes == [point : Points, key : {4, 7}, inner : {1}]
MaxSelects ==
  [k \in {"random", "round_robin", "weight_round_robin", "consistent_hash", "ip", "passthrough"} |->
     CASE k \in {"consistent_hash", "random", "ip"} -> 3 [] OTHER -> 4]

Pair(m1, o1, m2, o2) ==
  [c \in Calls |-> IF c = "c1" THEN [mode |-> m1, options |-> o1] ELSE [mode |-> m2, options |-> o2]]
Scenarios ==
  {Pair("hedge", <<"WithCallerServiceName", "WithFilter">>, "retry", <<"WithFilter", "WithNetwork">>),
   Pair("stream", <<"WithStreamFilter">>, "stream", <<"WithTimeout", "WithStreamFilter">>)}

Hop(c, s, d) == [client |-> c, server |-> s, disable |-> d]
Configs ==
  {[root |-> r, hops |-> <<Hop(a, b, FALSE), Hop(c, d, d > 0)>>] :
     r \in {0, 3}, a \in {0, 5}, b \in {0, 3}, c \in {0, 2}, d \in {0, 2}}

Wants(s, d, x) == [sendOnly |-> s, deadline |-> d, cancel |-> x]
Plan(a, b, keeps, async, closes, fails) ==
  [calls |-> [c \in Calls |-> IF c = "c1" THEN a ELSE b], pooled |-> keeps, async |-> async,
   routines |-> 1, mayClose |-> closes, encodeFails |-> fails]
Plans ==
  {Plan(Wants(TRUE, FALSE, FALSE), Wants(FALSE, FALSE, TRUE), TRUE, FALSE, TRUE, FALSE),
   Plan(Wants(FALSE, TRUE, FALSE), Wants(FALSE, FALSE, FALSE), TRUE, TRUE, FALSE, TRUE),
   Plan(Wants(TRUE, TRUE, FALSE), Wants(FALSE, TRUE, TRUE), TRUE, TRUE, TRUE, FALSE),
   Plan(Wants(FALSE, TRUE, TRUE), Wants(FALSE, TRUE, FALSE), FALSE, FALSE, TRUE, TRUE)}

TnetPlan(a, b, async, safe) ==
  [calls |-> [c \in Calls |-> IF c = "c1" THEN a ELSE b], pooled |-> TRUE, gonetPool |-> FALSE, async |-> async,
   routines |-> 1, safe |-> safe, copyOption |-> FALSE, fails |-> FALSE, idles |-> FALSE, streams |-> FALSE]
TnetPlans ==
  {TnetPlan(Wants(TRUE, FALSE, FALSE), Wants(FALSE, FALSE, TRUE), TRUE, FALSE),
   [TnetPlan(Wants(FALSE, TRUE, FALSE), Wants(FALSE, FALSE, FALSE), FALSE, FALSE) EXCEPT !.fails = TRUE, !.idles = TRUE, !.copyOption = TRUE],
   [TnetPlan(Wants(FALSE, TRUE, TRUE), Wants(TRUE, TRUE, FALSE), TRUE, TRUE) EXCEPT !.pooled = FALSE, !.streams = TRUE],
   [TnetPlan(Wants(FALSE, FALSE, FALSE), Wants(FALSE, FALSE, FALSE), FALSE, TRUE) EXCEPT !.gonetPool = TRUE]}
Boots ==
  [networks : {<<"tcp">>, <<"tcp", "tcp4">>, <<"tcp", "udp">>, <<"udp", "tcp">>},
   given : BOOLEAN, foreign : BOOLEAN, tls : {"none", "good", "bad"}]

\* The two messages, callers, connections and tnet calls of a part are interchangeable: no
\* module tells them apart, so a state and the one with each pair exchanged stand for each other.
Turn(S, kept) == CHOOSE f \in Permutations(S) : \A x \in S : (f[x] = x) <=> kept
Exchange ==
  {Turn(Msgs, kept) @@ Turn(Callers, kept) @@ Turn(Conns, kept) @@ Turn(TnetCalls, kept) : kept \in BOOLEAN}

-----------------------------------------------------------------------------
Message == INSTANCE Message
Frame == INSTANCE Frame
StreamCodec == INSTANCE StreamCodec
Naming == INSTANCE Naming
Options == INSTANCE ClientOptions
Deadline == INSTANCE Deadline
RoundTrip == INSTANCE RoundTrip
TnetTransport == INSTANCE TnetTransport
Tnet == INSTANCE Tnet

messageVars == <<msgs, held, setters, copy, parsed>>
frameVars == <<client, exchange, result>>
streamCodecVars == <<plans, ends, serverEnds, initMetas, toServer, toClient>>
namingVars == <<setup, listed, picker, bans, breakers, selections, trace>>
optionVars == <<heap, configured, invoked, attempts>>
registryVars == <<registry, lookups>>
deadlineVars == <<now, chain, root, caller, callee>>
tnetVars == <<hosts, pooled, conns, vcs>>
roundTripVars == <<plan, call, conn, job, shutdown>>
vars == <<part, messageVars, frameVars, streamCodecVars, namingVars, optionVars, registryVars, deadlineVars, roundTripVars, idle, boot, tnetVars>>

Off == 0
MessageOff == msgs = Off /\ held = Off /\ setters = Off /\ copy = Off /\ parsed = Off
FrameOff == client = Off /\ exchange = Off /\ result = Off
StreamCodecOff ==
  plans = Off /\ ends = Off /\ serverEnds = Off /\ initMetas = Off /\ toServer = Off /\ toClient = Off
NamingOff ==
  /\ setup = Off /\ listed = Off /\ picker = Off /\ bans = Off
  /\ breakers = Off /\ selections = Off /\ trace = Off
OptionsOff == heap = Off /\ configured = Off /\ invoked = Off /\ attempts = Off
RegistryOff == registry = Off /\ lookups = Off
DeadlineOff == now = Off /\ chain = Off /\ root = Off /\ caller = Off /\ callee = Off
RoundTripOff == plan = Off /\ call = Off /\ conn = Off /\ job = Off /\ shutdown = Off

Init ==
  /\ part \in Parts
  /\ IF part = "message" THEN Message!Init ELSE MessageOff
  /\ IF part = "frame" THEN Frame!Init ELSE FrameOff
  /\ IF part = "streamFrame" THEN StreamCodec!StreamCodecInit ELSE StreamCodecOff
  /\ IF part = "naming" THEN Naming!Init ELSE NamingOff
  /\ IF part = "options" THEN Options!OptionsInit ELSE OptionsOff
  /\ IF part = "registry" THEN Options!RegistryInit ELSE RegistryOff
  /\ IF part = "deadline" THEN Deadline!Init ELSE DeadlineOff
  /\ CASE part = "roundTrip" -> RoundTrip!Init
       [] part = "tnetTrip" -> TnetTransport!TripInit /\ shutdown = Off
       [] OTHER -> RoundTripOff
  /\ IF part = "tnetBoot" THEN TnetTransport!BootInit ELSE boot = Off
  /\ IF part = "idle" THEN RoundTrip!IdleInit ELSE idle = Off
  /\ IF part = "tnet" THEN Tnet!TnetInit ELSE hosts = Off /\ pooled = Off /\ conns = Off /\ vcs = Off

Next ==
  \/ /\ part = "message" /\ Message!MessageNext
     /\ UNCHANGED <<part, frameVars, streamCodecVars, namingVars, optionVars, registryVars, deadlineVars, roundTripVars, idle, boot, tnetVars>>
  \/ /\ part = "frame" /\ Frame!FrameNext
     /\ UNCHANGED <<part, messageVars, streamCodecVars, namingVars, optionVars, registryVars, deadlineVars, roundTripVars, idle, boot, tnetVars>>
  \/ /\ part = "streamFrame" /\ StreamCodec!StreamCodecNext
     /\ UNCHANGED <<part, messageVars, frameVars, namingVars, optionVars, registryVars, deadlineVars, roundTripVars, idle, boot, tnetVars>>
  \/ /\ part = "naming" /\ Naming!NamingNext
     /\ UNCHANGED <<part, messageVars, frameVars, streamCodecVars, optionVars, registryVars, deadlineVars, roundTripVars, idle, boot, tnetVars>>
  \/ /\ part = "options" /\ Options!OptionsNext
     /\ UNCHANGED <<part, messageVars, frameVars, streamCodecVars, namingVars, registryVars, deadlineVars, roundTripVars, idle, boot, tnetVars>>
  \/ /\ part = "registry" /\ Options!RegistryNext
     /\ UNCHANGED <<part, messageVars, frameVars, streamCodecVars, namingVars, optionVars, deadlineVars, roundTripVars, idle, boot, tnetVars>>
  \/ /\ part = "deadline" /\ Deadline!DeadlineNext
     /\ UNCHANGED <<part, messageVars, frameVars, streamCodecVars, namingVars, optionVars, registryVars, roundTripVars, idle, boot, tnetVars>>
  \/ /\ part = "roundTrip" /\ RoundTrip!RoundTripNext
     /\ UNCHANGED <<part, messageVars, frameVars, streamCodecVars, namingVars, optionVars, registryVars, deadlineVars, idle, boot, tnetVars>>
  \/ /\ part = "idle" /\ RoundTrip!IdleNext
     /\ UNCHANGED <<part, messageVars, frameVars, streamCodecVars, namingVars, optionVars, registryVars, deadlineVars, roundTripVars, boot, tnetVars>>
  \/ /\ part = "tnetTrip" /\ TnetTransport!TripNext
     /\ UNCHANGED <<part, messageVars, frameVars, streamCodecVars, namingVars, optionVars, registryVars, deadlineVars, shutdown, idle, boot, tnetVars>>
  \/ /\ part = "tnetBoot" /\ TnetTransport!BootNext
     /\ UNCHANGED <<part, messageVars, frameVars, streamCodecVars, namingVars, optionVars, registryVars, deadlineVars, roundTripVars, idle, tnetVars>>
  \/ /\ part = "tnet" /\ Tnet!TnetNext
     /\ UNCHANGED <<part, messageVars, frameVars, streamCodecVars, namingVars, optionVars, registryVars, deadlineVars, roundTripVars, idle, boot>>

Spec == Init /\ [][Next]_vars

-----------------------------------------------------------------------------
\* A message from the pool is fresh, no two messages in use share a map, a copy agrees
\* with its original and names are parsed as their comment says, see Message.
MessagesOwn ==
  part = "message" => /\ Message!TypeOK /\ Message!RecycledIsFresh /\ Message!MapsApart
                      /\ Message!CopyAgrees /\ Message!NamesParsed

\* The handler sees the request the client meant and the client accepts its own response
\* only, see Frame.  The frames of a stream reach the other end under its method and with
\* its types, the ends agree on flow control and the client learns how the handler ended,
\* see StreamCodec.
FramesArrive ==
  /\ part = "frame" => Frame!RequestIntact /\ Frame!ResponseOwn /\ Frame!PanicsOnlyOnLostAttachment
  /\ part = "streamFrame" => /\ StreamCodec!FramesNamed /\ StreamCodec!FlowControlAgreed
                             /\ StreamCodec!OutcomeArrives /\ StreamCodec!MetasMatchStreams

\* Balancers follow the list and its weights, keys stay with their node, a banned node is
\* a last resort and a report reaches the breaker of its own node, see Naming.
NodesChosenWell ==
  part = "naming" => /\ Naming!TypeOK /\ Naming!StaleNoLongerThanInterval /\ Naming!SharesFollowWeights
                     /\ Naming!KeysStay /\ Naming!BannedOnlyAsLastResort /\ Naming!ReportsReachOwnBreaker

\* Concurrent calls and attempts never see each other's options, and the registry
\* answers with what was registered, see ClientOptions.
OptionsOwn ==
  /\ part = "options" => Options!ConfigurationStable /\ Options!FiltersOwn /\ Options!AttemptsOwn
  /\ part = "registry" => Options!RegistryAgrees /\ Options!LookupsOwn

\* A time-out is blamed on whose time was up, no caller with time left is kept waiting in
\* silence, and time only shrinks down a chain, see Deadline.
TimeoutsBlamedRight ==
  part = "deadline" =>
    Deadline!SilentOnlyWhenCallerIsLate /\ Deadline!BlameIsExact /\ Deadline!TimeOnlyShrinks


\* No call of the tnet transport is left on a connection that ended, its connections'
\* counts are exact, and its hosts leave the pool with their last connection, see Tnet;
\* its server finds a connection while it is open, and accepts from what it listens to,
\* see TnetTransport.
TnetSafe ==
  /\ part = "tnet" => Tnet!NoneStranded /\ Tnet!CountExact /\ Tnet!PooledIsOpen /\ Tnet!ClosedHostsEnd
  /\ part = "tnetTrip" => TnetTransport!ConnsAccounted
  /\ part = "tnetBoot" => TnetTransport!OpenIsServed

\* A response that fails to be encoded reaches the client as RetServerEncodeFail
\* ("returns RetServerEncodeFail", codec.go), see Frame.
EncodeFailureArrives == part = "frame" => Frame!EncodeFailureArrives
=============================================================================

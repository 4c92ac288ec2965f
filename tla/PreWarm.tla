----------------------------- MODULE PreWarm ------------------------------
(* client.Init with pre-warming: the nodes are listed, and for each node    *)
(* ConnsPerNode goroutines, at most Parallelism at a time, take a           *)
(* connection from the pool and give it back.  The pool is external: it     *)
(* reuses an idle connection or dials, and either may fail.                 *)
EXTENDS Integers, FiniteSets

CONSTANTS
  Inits,        \* the options of Init: records, see PreWarmInit
  Parallelism   \* runtime.GOMAXPROCS

VARIABLES
  warm,         \* Init: its options, where it stands, the nodes, what it returned
  tasks,        \* the goroutines of preWarm: by node and number
  warmCtx,      \* whether the context has ended
  idle          \* the pool: the idle connections, by node
preWarmVars == <<warm, tasks, warmCtx, idle>>

\* network, disabled (DisableConnectionPool), perNode (ConnsPerNode), multiplexed, parser (the framer builder parses
\* frames), trpc (the selector is a TrpcSelector), listed (what discovery and router give, {} when they fail),
\* selected (what Select gives: a node, or "none" when it fails).
PreWarmInit ==
  /\ \E i \in Inits : warm = [opts |-> i, pc |-> "init", nodes |-> {}, err |-> {}]
  /\ tasks = [t \in {} |-> "new"]
  /\ warmCtx = "live"
  /\ idle = [n \in UNION {i.listed \cup {i.selected} : i \in Inits} |-> 0]

Returns(e) == [warm EXCEPT !.pc = "returned", !.err = e]

\* Enabled, then ValidateConfig.
Enabled(o) == o.perNode > 0
ValidateConfig(o) == o.network \in {"tcp", "tcp4", "tcp6", "unix"} /\ ~o.disabled /\ o.perNode > 0

init ==
  /\ warm.pc = "init"
  /\ warm' = CASE ~Enabled(warm.opts) -> Returns({})
               [] Enabled(warm.opts) /\ ~ValidateConfig(warm.opts) -> Returns({"config"})
               [] OTHER -> [warm EXCEPT !.pc = "list"]
  /\ UNCHANGED <<tasks, warmCtx, idle>>

\* preWarmNodeList: every node that discovery lists and the router leaves; failing that, the one Select gives.
preWarmNodeList(o) ==
  CASE o.trpc /\ o.listed # {} -> o.listed
    [] (~o.trpc \/ o.listed = {}) /\ o.selected # "none" -> {o.selected}
    [] OTHER -> {}

\* preWarm: ConnsPerNode goroutines for each node with an address.
preWarm ==
  LET nodes == preWarmNodeList(warm.opts) IN
  /\ warm.pc = "list"
  /\ IF warmCtx = "done" THEN warm' = Returns({"context"}) /\ UNCHANGED tasks
     ELSE IF nodes = {} THEN warm' = Returns({"nodes"}) /\ UNCHANGED tasks
     ELSE /\ warm' = [warm EXCEPT !.pc = "wait", !.nodes = nodes \ {"unnamed"}]
          /\ tasks' = [t \in (nodes \ {"unnamed"}) \X (1..warm.opts.perNode) |-> "new"]
  /\ UNCHANGED <<warmCtx, idle>>

Running == {t \in DOMAIN tasks : tasks[t] \in {"establish", "held"}}
Fails(t, e) == tasks' = [tasks EXCEPT ![t] = "failed"] /\ warm' = [warm EXCEPT !.err = @ \cup {e}]

\* sem <- struct{}{}, or the context's end.
Acquire(t) ==
  /\ tasks[t] = "new"
  /\ \/ Cardinality(Running) < Parallelism /\ tasks' = [tasks EXCEPT ![t] = "establish"] /\ UNCHANGED warm
     \/ warmCtx = "done" /\ Fails(t, "canceled")
  /\ UNCHANGED <<warmCtx, idle>>

\* A virtual connection leaves its connection in the pool; a connection is taken out of it.
Left(n) == CASE warm.opts.multiplexed -> IF n = 0 THEN 1 ELSE n
             [] OTHER -> IF n = 0 THEN 0 ELSE n - 1
Back(n) == IF warm.opts.multiplexed THEN n ELSE n + 1

\* connPool.Get takes an idle connection or dials; muxPool.Get needs a FrameParser.
Get(t) ==
  /\ tasks[t] = "establish"
  /\ IF warmCtx = "done" THEN Fails(t, "canceled") /\ UNCHANGED idle
     ELSE \/ Fails(t, "get") /\ UNCHANGED idle
          \/ /\ warm.opts.multiplexed => warm.opts.parser
             /\ tasks' = [tasks EXCEPT ![t] = "held"]
             /\ idle' = [idle EXCEPT ![t[1]] = Left(@)]
             /\ UNCHANGED warm
  /\ UNCHANGED warmCtx

\* The context ended while Get was running: the connection is given back all the same, and the goroutine fails.
GiveBackDropped(t) ==
  /\ tasks[t] = "held"
  /\ IF warmCtx = "done" THEN Fails(t, "canceled") /\ UNCHANGED idle
     ELSE /\ tasks' = [tasks EXCEPT ![t] = "warmed"]
          /\ idle' = [idle EXCEPT ![t[1]] = Back(@)]
          /\ UNCHANGED warm
  /\ UNCHANGED warmCtx
GiveBack(t) ==
  /\ tasks[t] = "held"
  /\ idle' = [idle EXCEPT ![t[1]] = Back(@)]
  /\ IF warmCtx = "done" THEN Fails(t, "canceled")
     ELSE tasks' = [tasks EXCEPT ![t] = "warmed"] /\ UNCHANGED warm
  /\ UNCHANGED warmCtx
\* Close failed: the connection is gone.
CloseFails(t) == tasks[t] = "held" /\ Fails(t, "close") /\ UNCHANGED <<warmCtx, idle>>

\* wg.Wait, then the errors joined.
Collect ==
  /\ warm.pc = "wait"
  /\ \A t \in DOMAIN tasks : tasks[t] \in {"warmed", "failed"}
  /\ warm' = Returns(warm.err)
  /\ UNCHANGED <<tasks, warmCtx, idle>>

Timeout == warmCtx = "live" /\ warm.pc # "returned" /\ warmCtx' = "done" /\ UNCHANGED <<warm, tasks, idle>>

PreWarmNext ==
  \/ init \/ preWarm \/ Collect \/ Timeout
  \/ \E t \in DOMAIN tasks : Acquire(t) \/ Get(t) \/ GiveBack(t) \/ CloseFails(t)

-----------------------------------------------------------------------------
(* When Init has returned, no goroutine still holds a connection.  If it   *)
(* returned no error, pre-warming was off or every goroutine of every node *)
(* came through; and a node at which one did has an idle connection,       *)
(* unless a Close failed: what the context's end overtook went back too.   *)
WarmedOrToldSo ==
  warm.pc = "returned" =>
    /\ Running = {}
    /\ warm.err = {} => \/ ~Enabled(warm.opts)
                        \/ /\ warm.nodes = preWarmNodeList(warm.opts) \ {"unnamed"}
                           /\ \A t \in DOMAIN tasks : tasks[t] = "warmed"
    /\ "close" \notin warm.err => \A t \in DOMAIN tasks : tasks[t] = "warmed" => idle[t[1]] > 0
=============================================================================

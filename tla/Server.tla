------------------------------- MODULE Server -------------------------------
(***************************************************************************)
(* The life of a server process (server/server.go, server/serve_unix.go,   *)
(* Serve and Close of server/service.go) and of the listeners it opens,    *)
(* hands to a child process and closes (transport/server_transport.go).    *)
(*                                                                         *)
(* Process p + 1 is the child that p forks on the graceful restart signal. *)
(* The naming registry is shared by all processes.                         *)
(***************************************************************************)
EXTENDS Integers

CONSTANTS
  Services,
  Procs,
  ServerOptions  \* records: the faults that may happen, the wait times of Close

VARIABLES
  conf,       \* the options of this behaviour
  proc,       \* the processes
  svc,        \* the services of every process
  registry    \* services known to the naming service

vars == <<conf, proc, svc, registry>>

Process == [
  serve : {"off", "select", "fork", "try", "wait", "returned", "exited"},  \* Server.Serve
  user : {"idle", "try", "wait", "returned"},               \* Server.Close of the application
  once : {"no", "hooks", "close", "after", "done"},         \* the function under closeOnce
  closeCh : BOOLEAN,                                        \* closeCh is closed
  env : {"none", "parent", "child"}]                        \* checkProcessStatus

Service == [
  run : {"off", "listen", "register", "serving", "failing", "send", "end"},     \* Serve
  stop : {"no", "deregister", "waitBefore", "cancel", "waitAfter", "closed"},   \* Close
  failed : BOOLEAN,                                         \* in failedServices
  ctx : BOOLEAN,                                            \* the context is cancelled
  listening : BOOLEAN, inherited : BOOLEAN,                 \* its own listener, a passed one
  req : {"none", "queued", "handling", "answered", "cut"},  \* one request
  early : BOOLEAN,       \* the request was in Handle when the closing began
  gaveUp : BOOLEAN,      \* Close stopped waiting for the request
  overtaken : BOOLEAN]   \* Serve registered after a Close had got past deregistering

TypeOK ==
  /\ conf \in ServerOptions
  /\ proc \in [Procs -> Process]
  /\ svc \in [Procs -> [Services -> Service]]
  /\ registry \subseteq Services

\* Process 1 is in Serve, whose goroutines have been started.
Init ==
  /\ conf \in ServerOptions
  /\ proc = [p \in Procs |-> [serve |-> IF p = 1 THEN "select" ELSE "off", user |-> "idle",
                              once |-> "no", closeCh |-> FALSE, env |-> "none"]]
  /\ svc = [p \in Procs |-> [s \in Services |->
             [run |-> IF p = 1 THEN "listen" ELSE "off", stop |-> "no", failed |-> FALSE,
              ctx |-> FALSE, listening |-> FALSE, inherited |-> FALSE, req |-> "none",
              early |-> FALSE, gaveUp |-> FALSE, overtaken |-> FALSE]]]
  /\ registry = {}

May(fault) == fault \in conf.faults
Alive(p) == proc[p].serve \notin {"off", "exited"}
-----------------------------------------------------------------------------
(* service.Serve.                                                          *)

\* getTCPListener: a process of a graceful restart takes over a passed listener, any
\* other process opens one, which may fail.
getTCPListener(p, s, ok) ==
  IF proc[p].env = "none" THEN ok \/ May("listen") ELSE ok = svc[p][s].inherited

ListenAndServe(p, s) ==
  /\ svc[p][s].run = "listen"
  /\ \E ok \in BOOLEAN :
       /\ getTCPListener(p, s, ok)
       /\ svc' = [svc EXCEPT ![p][s].run = IF ok THEN "register" ELSE "failing",
                             ![p][s].listening = ok, ![p][s].inherited = FALSE]
  /\ UNCHANGED <<conf, proc, registry>>

Deregistered(p, s) == svc[p][s].stop \notin {"no", "deregister"}

\* Serve registers the service in the naming service once it listens, which may fail.
Register(p, s) ==
  /\ svc[p][s].run = "register"
  /\ \/ /\ svc' = [svc EXCEPT ![p][s].run = "serving",
                              ![p][s].overtaken = \E q \in Procs : Deregistered(q, s)]
        /\ registry' = registry \cup {s}
     \/ May("register") /\ svc' = [svc EXCEPT ![p][s].run = "failing"] /\ UNCHANGED registry
  /\ UNCHANGED <<conf, proc>>

\* The goroutine of Server.Serve records a service that failed before it signals.
ServeFailed(p, s) ==
  /\ svc[p][s].run = "failing"
  /\ svc' = [svc EXCEPT ![p][s].failed = TRUE, ![p][s].run = "send"]
  /\ UNCHANGED <<conf, proc, registry>>

\* Serve returns when the context of the service is over.
ServeEnds(p, s) ==
  /\ svc[p][s].run = "serving" /\ svc[p][s].ctx
  /\ svc' = [svc EXCEPT ![p][s].run = "end"]
  /\ UNCHANGED <<conf, proc, registry>>
-----------------------------------------------------------------------------
(* Server.Serve and Server.Close.                                          *)

\* The select of Serve: closeCh, a signal of the system (once the services have got
\* past listening), or the SIGTERM that a failed service sends.
Select(p) ==
  /\ proc[p].serve = "select"
  /\ \/ /\ proc[p].closeCh \/ May("term")
        /\ proc' = [proc EXCEPT ![p].serve = "try"] /\ UNCHANGED svc
     \/ /\ May("usr2") /\ p + 1 \in Procs /\ \A s \in Services : svc[p][s].run # "listen"
        /\ proc' = [proc EXCEPT ![p].serve = "fork"] /\ UNCHANGED svc
     \/ \E s \in Services :
          /\ svc[p][s].run = "send" /\ svc' = [svc EXCEPT ![p][s].run = "end"]
          /\ proc' = [proc EXCEPT ![p].serve = "try"]
  /\ UNCHANGED <<conf, registry>>

\* GetListenersFds: the listeners whose descriptor can still be had.
GetListenersFds(p) == {s \in Services : svc[p][s].listening}

\* StartNewProcess marks this process as the parent in its own environment, and
\* forks the child with the descriptors of the listeners.
StartNewProcess(p) ==
  /\ proc[p].serve = "fork"
  /\ proc' = [proc EXCEPT ![p].env = "parent", ![p].serve = "try",
                          ![p + 1].env = "child", ![p + 1].serve = "select"]
  /\ svc' = [svc EXCEPT ![p + 1] =
       [s \in Services |-> [@[s] EXCEPT !.run = "listen", !.inherited = s \in GetListenersFds(p)]]]
  /\ UNCHANGED <<conf, registry>>

\* Server.Close of the application, once: closeCh, then tryClose.
Close(p) ==
  /\ May("close") /\ Alive(p) /\ proc[p].user = "idle"
  /\ proc' = [proc EXCEPT ![p].closeCh = TRUE, ![p].user = "try"]
  /\ UNCHANGED <<conf, svc, registry>>

\* closeOnce.Do: the first caller runs the function, the other one waits for it.
Enter(once) == IF once = "no" THEN "hooks" ELSE once

TryClose(p) ==
  /\ \/ proc[p].serve = "try" /\ proc' = [proc EXCEPT ![p].serve = "wait", ![p].once = Enter(@)]
     \/ proc[p].user = "try" /\ proc' = [proc EXCEPT ![p].user = "wait", ![p].once = Enter(@)]
  /\ UNCHANGED <<conf, svc, registry>>

\* The hooks, and a goroutine for each service that has not failed, which closes it.
CloseServices(p) ==
  /\ proc[p].once = "hooks" /\ proc' = [proc EXCEPT ![p].once = "close"]
  /\ svc' = [svc EXCEPT ![p] = [s \in Services |->
       IF @[s].failed THEN @[s]
       ELSE [@[s] EXCEPT !.stop = "deregister", !.early = @ \/ svc[p][s].req = "handling"]]]
  /\ UNCHANGED <<conf, registry>>

\* The services are closed, or closeWaitTime is over.
CloseWaited(p) ==
  /\ proc[p].once = "close"
  /\ May("timeout") \/ \A s \in Services : svc[p][s].stop \in {"no", "closed"}
  /\ proc' = [proc EXCEPT ![p].once = "after"]
  /\ UNCHANGED <<conf, svc, registry>>

\* The hooks after shutdown, and the return of both callers.
Return(p) ==
  /\ \/ proc[p].once = "after" /\ proc' = [proc EXCEPT ![p].once = "done"]
     \/ /\ proc[p].once = "done" /\ proc[p].serve = "wait"
        /\ proc' = [proc EXCEPT ![p].serve = "returned"]
     \/ /\ proc[p].once = "done" /\ proc[p].user = "wait"
        /\ proc' = [proc EXCEPT ![p].user = "returned"]
  /\ UNCHANGED <<conf, svc, registry>>

\* main returns after Serve: the system closes what the process has open.
Exit(p) ==
  /\ proc[p].serve = "returned" /\ proc' = [proc EXCEPT ![p].serve = "exited"]
  /\ svc' = [svc EXCEPT ![p] = [s \in Services |->
       [@[s] EXCEPT !.listening = FALSE, !.inherited = FALSE, !.run = "end",
                    !.req = IF @ \in {"queued", "handling"} THEN "cut" ELSE @]]]
  /\ UNCHANGED <<conf, registry>>
-----------------------------------------------------------------------------
(* service.Close.  Limit stands for the constant MaxCloseWaitTime.         *)

Limit == 1
\* What the sleep of CloseWaitTime, cut to the limit, leaves of MaxCloseWaitTime.
waitBeforeClose ==
  conf.maxCloseWait - (IF conf.closeWait > Limit THEN Limit ELSE conf.closeWait)

\* Handle counts a request in flight under this condition.
Counted == conf.maxCloseWait > conf.closeWait \/ conf.maxCloseWait > Limit
activeCount(p, s) == IF Counted /\ svc[p][s].req = "handling" THEN 1 ELSE 0

\* waitInactive: whether the time runs out with requests in flight.
waitInactive(p, s, time) == time > 0 /\ activeCount(p, s) > 0

Deregister(p, s) ==
  /\ Alive(p) /\ svc[p][s].stop = "deregister"
  /\ svc' = [svc EXCEPT ![p][s].stop = "waitBefore"]
  /\ registry' = IF proc[p].env = "parent" THEN registry ELSE registry \ {s}
  /\ UNCHANGED <<conf, proc>>

WaitBefore(p, s) ==
  /\ Alive(p) /\ svc[p][s].stop = "waitBefore"
  /\ svc' = [svc EXCEPT ![p][s].stop = "cancel",
                        ![p][s].gaveUp = @ \/ waitInactive(p, s, waitBeforeClose)]
  /\ UNCHANGED <<conf, proc, registry>>

Cancel(p, s) ==
  /\ Alive(p) /\ svc[p][s].stop = "cancel"
  /\ svc' = [svc EXCEPT ![p][s].stop = "waitAfter", ![p][s].ctx = TRUE]
  /\ UNCHANGED <<conf, proc, registry>>

WaitAfter(p, s) ==
  /\ Alive(p) /\ svc[p][s].stop = "waitAfter"
  /\ svc' = [svc EXCEPT ![p][s].stop = "closed"]
  /\ UNCHANGED <<conf, proc, registry>>

\* The goroutine of serveStream closes the listener when the context is over.
CloseListener(p, s) ==
  /\ svc[p][s].ctx /\ svc[p][s].listening
  /\ svc' = [svc EXCEPT ![p][s].listening = FALSE]
  /\ UNCHANGED <<conf, proc, registry>>

\* A request is read by a connection, handled and answered; or its connection ends,
\* because tcpconn.serve looks at the context of the service.
Request(p, s) ==
  /\ May("request") /\ Alive(p)
  /\ \E r \in {<<"none", "queued">>, <<"queued", "handling">>, <<"handling", "answered">>,
               <<"queued", "cut">>, <<"handling", "cut">>} :
       /\ svc[p][s].req = r[1] /\ svc' = [svc EXCEPT ![p][s].req = r[2]]
       /\ r[2] = "queued" => svc[p][s].listening
       /\ r[2] = "cut" => svc[p][s].ctx
  /\ UNCHANGED <<conf, proc, registry>>

ServiceStep(p, s) ==
  \/ ListenAndServe(p, s) \/ Register(p, s) \/ ServeFailed(p, s) \/ ServeEnds(p, s)
  \/ Deregister(p, s) \/ WaitBefore(p, s) \/ Cancel(p, s) \/ WaitAfter(p, s)
  \/ CloseListener(p, s)

SystemStep ==
  \E p \in Procs :
    \/ Select(p) \/ StartNewProcess(p) \/ TryClose(p) \/ CloseServices(p) \/ CloseWaited(p)
    \/ Return(p) \/ \E s \in Services : ServiceStep(p, s)

\* The application, the end of main, and the clients.
Environment ==
  \/ \E p \in Procs : Close(p) \/ Exit(p)
  \/ \E p \in Procs, s \in Services : Request(p, s)

Next == SystemStep \/ Environment

Spec == Init /\ [][Next]_vars
-----------------------------------------------------------------------------
\* A request that Handle had begun when the closing began is cut off only if the wait
\* ran out, when the options make Close wait at all: Handle counts requests under a
\* condition of its own.
EarlyRequestsAnswered ==
  \A p \in Procs, s \in Services :
    svc[p][s].early /\ svc[p][s].req = "cut"
      => svc[p][s].gaveUp \/ waitBeforeClose <= 0 \/ May("timeout")

\* Clients that find a service in the registry find a listener, of this process or of
\* the child of a graceful restart, unless a service failed, Close overtook Serve, or
\* Server.Close did not wait for the services.
NamedIsServed ==
  \A s \in registry :
    \E p \in Procs :
      \/ svc[p][s].listening \/ svc[p][s].inherited
      \/ svc[p][s].overtaken \/ svc[p][s].failed \/ May("timeout")

\* A service that serves and is not being closed can be found in the registry: the parent
\* of a restart, which closes after its child has registered, must leave the name there.
ServedIsNamed ==
  \A p \in Procs, s \in Services :
    svc[p][s].run = "serving" /\ svc[p][s].stop = "no" /\ proc[p].env # "parent" => s \in registry

\* tryClose closes the services once, whoever calls it how often: no service that is
\* being closed or is closed starts over.
ClosedOnce ==
  \A p \in Procs, s \in Services :
    svc[p][s].stop # "no" /\ svc'[p][s].stop = "deregister" => svc[p][s].stop = "deregister"

\* Serve returns once it was signalled or closed, or a service failed.
ServeReturns ==
  \A p \in Procs :
    \/ proc[p].serve \in {"off", "returned", "exited"}
    \/ proc[p].serve = "select" /\ ~proc[p].closeCh /\ \A s \in Services : svc[p][s].run # "send"
=============================================================================

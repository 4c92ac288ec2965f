----------------------------- MODULE Detached -----------------------------
(* Contexts that are cut off from the request they come from.              *)
(*                                                                         *)
(* The contexts of net/http requests: valueDetachedTransport sends each    *)
(* request with a context that keeps the deadline and cancellation of the  *)
(* caller's but none of its values, and one scavenger goroutine lets go of *)
(* the caller's context once that is done.  Beyond limitedCases contexts,  *)
(* each has a goroutine of its own.                                        *)
EXTENDS Integers, Sequences, FiniteSets, SequencesExt

CONSTANTS
  Requests,          \* the requests' contexts
  limitedCases,
  incomingChanSize

VARIABLES
  original,    \* the caller's context of a request: "live", "canceled" or "expired"
  detached,    \* the request's: "none", "counted", "waiting", "original", or the remnant's error
  inprocess,
  incoming,    \* the contexts handed to the scavenger
  ctxs,        \* the contexts the scavenger selects on, beside incoming
  goroutines   \* the contexts that have a goroutine each
detachedVars == <<original, detached, inprocess, incoming, ctxs, goroutines>>

Init ==
  /\ original = [r \in Requests |-> "live"]
  /\ detached = [r \in Requests |-> "none"]
  /\ inprocess = 0
  /\ incoming = <<>> /\ ctxs = <<>> /\ goroutines = {}

Done(r) == original[r] # "live"

\* The caller's context ends.
End(r) ==
  /\ ~Done(r)
  /\ \E why \in {"canceled", "expired"} : original' = [original EXCEPT ![r] = why]
  /\ UNCHANGED <<detached, inprocess, incoming, ctxs, goroutines>>

\* scavenger.collect: the count goes up, and straight down again at the limit.
Count(r) ==
  /\ detached[r] = "none"
  /\ inprocess' = inprocess + 1
  /\ detached' = [detached EXCEPT ![r] = IF inprocess + 1 >= limitedCases THEN "refused" ELSE "counted"]
  /\ UNCHANGED <<original, incoming, ctxs, goroutines>>

Uncount(r) ==
  /\ detached[r] = "refused"
  /\ inprocess' = inprocess - 1
  /\ detached' = [detached EXCEPT ![r] = "original"]
  /\ goroutines' = goroutines \cup {r}
  /\ UNCHANGED <<original, incoming, ctxs>>

HandOver(r) ==
  /\ detached[r] = "counted" /\ Len(incoming) < incomingChanSize
  /\ incoming' = Append(incoming, r)
  /\ detached' = [detached EXCEPT ![r] = "original"]
  /\ UNCHANGED <<original, inprocess, ctxs, goroutines>>

\* collect's goroutine: the remnant keeps the error.
Release(r) ==
  /\ r \in goroutines /\ Done(r)
  /\ detached' = [detached EXCEPT ![r] = original[r]]
  /\ goroutines' = goroutines \ {r}
  /\ UNCHANGED <<original, inprocess, incoming, ctxs>>

-----------------------------------------------------------------------------
\* scavengeValueDetachedCtx: one case at a time, a new context or one that is done.
Receive ==
  /\ incoming # <<>>
  /\ ctxs' = Append(ctxs, Head(incoming))
  /\ incoming' = Tail(incoming)
  /\ UNCHANGED <<original, detached, inprocess, goroutines>>

\* Mutant: the last case takes the chosen one's place before it is released.
ScavengeLast ==
  \E i \in 1..Len(ctxs) :
    /\ Done(ctxs[i])
    /\ detached' = [detached EXCEPT ![ctxs[i]] = original[ctxs[i]]]
    /\ ctxs' = [j \in 1..(Len(ctxs) - 1) |-> ctxs[j]]
    /\ inprocess' = inprocess - 1
    /\ UNCHANGED <<original, incoming, goroutines>>
Scavenge ==
  \E i \in 1..Len(ctxs) :
    /\ Done(ctxs[i])
    /\ detached' = [detached EXCEPT ![ctxs[i]] = original[ctxs[i]]]
    /\ ctxs' = RemoveAt(ctxs, i)
    /\ inprocess' = inprocess - 1
    /\ UNCHANGED <<original, incoming, goroutines>>

\* The scavenger, the goroutines and a call that is under way run.
DetachedStep ==
  \/ Receive \/ Scavenge
  \/ \E r \in Requests : Uncount(r) \/ HandOver(r) \/ Release(r)
DetachedNext == DetachedStep \/ \E r \in Requests : End(r) \/ Count(r)

-----------------------------------------------------------------------------
(* A request's context answers as the caller's: no error while the         *)
(* caller's is live, and the same one ever after it is released; and every *)
(* context that still holds the caller's is in exactly one place that will *)
(* let go of it: "After the original ctx timeout/cancel, valueDetachedCtx  *)
(* must release the original ctx" (value_detached_ctx.go:24).              *)
ContextsTracked ==
  \A r \in Requests :
    /\ detached[r] \in {"canceled", "expired"} => detached[r] = original[r]
    /\ detached[r] = "original" =>
         Cardinality({i \in 1..Len(incoming) : incoming[i] = r}) + Cardinality({i \in 1..Len(ctxs) : ctxs[i] = r})
           + (IF r \in goroutines THEN 1 ELSE 0) = 1

(* The scavenger is never given limitedCases contexts or more, and its     *)
(* count is that of the contexts it has and of those on their way.         *)
ScavengerBounded ==
  LET counted == {r \in Requests : detached[r] \in {"counted", "refused"}} IN
  /\ inprocess = Cardinality(counted) + Len(incoming) + Len(ctxs)
  /\ Len(incoming) + Len(ctxs) < limitedCases

(* Every caller's context that ends is let go of.                          *)
AllReleased == \A r \in Requests : Done(r) => detached[r] \in {"none", "canceled", "expired"}
-----------------------------------------------------------------------------
(* Goroutines that a handler starts (trpc_util.go): GoAndWait runs tasks   *)
(* and waits for them, Go runs one that may outlive the request with a     *)
(* copy of its message and a context of its own, in a goroutine or in one  *)
(* of a pool's workers, or (syncGoer, for tests) in the handler itself.    *)

CONSTANTS
  Tasks,
  GoerPlans   \* [kind, workers (0: no pool), shouldRecover, ends : Tasks -> {"nil", "error", "panic"}]

VARIABLES
  request,  \* the handler, its context and its message, which is recycled after it
  tasks,    \* the goroutines
  first,    \* GoAndWait's err, set through once
  pending   \* its WaitGroup

goerVars == <<request, tasks, first, pending>>

NoMessage == [of |-> "none", meta |-> {}]
GoerInit ==
  /\ \E p \in GoerPlans :
       request = [plan |-> p, at |-> "running", msg |-> [of |-> "request", meta |-> {}], ctx |-> "live", left |-> Tasks]
  /\ tasks = [t \in Tasks |-> [at |-> "none", msg |-> NoMessage, ctx |-> "none", copied |-> {}]]
  /\ first = "nil" /\ pending = 0

Kind(k) == request.plan.kind = k
Outcome(t) == request.plan.ends[t]

-----------------------------------------------------------------------------
(* GoAndWait *)

\* The loop of GoAndWait adds to the group before it starts the goroutine.
Start(t) ==
  /\ Kind("wait") /\ request.at = "running" /\ t \in request.left
  /\ request' = [request EXCEPT !.left = @ \ {t}]
  /\ tasks' = [tasks EXCEPT ![t].at = "running", ![t].ctx = "shared"]
  /\ pending' = pending + 1 /\ UNCHANGED first

\* A handler returns or panics, and its error may be the first.
Report(t) ==
  /\ Kind("wait") /\ tasks[t].at = "running"
  /\ tasks' = [tasks EXCEPT ![t].at = "reported"]
  /\ first' = IF first = "nil" THEN Outcome(t) ELSE first
  /\ UNCHANGED <<request, pending>>
WaitGroupDone(t) ==
  /\ tasks[t].at = "reported"
  /\ tasks' = [tasks EXCEPT ![t].at = "done"]
  /\ pending' = pending - 1 /\ UNCHANGED <<request, first>>

GoAndWait ==
  /\ Kind("wait") /\ request.at = "running" /\ request.left = {} /\ pending = 0
  /\ request' = [request EXCEPT !.at = "waited"]
  /\ UNCHANGED <<tasks, first, pending>>

-----------------------------------------------------------------------------
(* Go *)

\* SetMetaData, in the handler's goroutine.
SetMetaData ==
  /\ ~Kind("wait") /\ request.at = "running" /\ request.msg.meta = {}
  /\ request' = [request EXCEPT !.msg.meta = {"k"}]
  /\ UNCHANGED <<tasks, first, pending>>

\* CopyMsg into a new message; detach keeps the values of the context, not its end.
CloneContext == request.msg

\* The pool's Invoke waits for a worker.
Busy == {t \in Tasks : tasks[t].at = "running"}
Go(t) ==
  /\ Kind("async") /\ request.at = "running" /\ t \in request.left
  /\ request.plan.workers > 0 => Cardinality(Busy) < request.plan.workers
  /\ request' = [request EXCEPT !.left = @ \ {t}]
  /\ tasks' = [tasks EXCEPT ![t] = [at |-> "running", msg |-> CloneContext, ctx |-> "live", copied |-> request.msg.meta]]
  /\ UNCHANGED <<first, pending>>

\* syncGoer.Go runs the task in the handler, on its message.
SyncGo(t) ==
  /\ Kind("sync") /\ request.at = "running" /\ t \in request.left /\ Outcome(t) # "panic"
  /\ request' = [request EXCEPT !.left = @ \ {t}]
  /\ tasks' = [tasks EXCEPT ![t] = [at |-> "done", msg |-> request.msg, ctx |-> "canceled", copied |-> request.msg.meta]]
  /\ UNCHANGED <<first, pending>>

\* asyncGoer.handle: cancel is called also after a panic, which ends the process unless
\* the goer recovers.
handle(t) ==
  /\ Kind("async") /\ request.at # "dead" /\ tasks[t].at = "running"
  /\ IF Outcome(t) = "panic" /\ ~request.plan.shouldRecover
     THEN request' = [request EXCEPT !.at = "dead"] /\ UNCHANGED tasks
     ELSE /\ tasks' = [tasks EXCEPT ![t].at = "done", ![t].ctx = IF @ = "live" THEN "canceled" ELSE @]
          /\ UNCHANGED request
  /\ UNCHANGED <<first, pending>>

\* The task's own timeout, which it need not notice.
Expire(t) ==
  /\ Kind("async") /\ tasks[t].at = "running" /\ tasks[t].ctx = "live"
  /\ tasks' = [tasks EXCEPT ![t].ctx = "expired"]
  /\ UNCHANGED <<request, first, pending>>

\* The handler returns; its context ends, and its message goes back to the pool and to the
\* next request.
Return ==
  /\ request.at = "waited" \/ (request.at = "running" /\ request.left = {} /\ ~Kind("wait"))
  /\ request' = [request EXCEPT !.at = "returned", !.ctx = "canceled", !.msg = NoMessage]
  /\ UNCHANGED <<tasks, first, pending>>
Recycle ==
  /\ request.at = "returned" /\ request.msg.of = "none"
  /\ request' = [request EXCEPT !.msg = [of |-> "another", meta |-> {"x"}]]
  /\ UNCHANGED <<tasks, first, pending>>

GoerStep ==
  \/ GoAndWait \/ Return
  \/ \E t \in Tasks : Start(t) \/ Report(t) \/ WaitGroupDone(t) \/ Go(t) \/ SyncGo(t) \/ handle(t)
GoerNext == SetMetaData \/ Recycle \/ \E t \in Tasks : Expire(t)

-----------------------------------------------------------------------------
\* "waits until all handlers are done ... The returned error is the first non-nil error
\* returned by one of the handlers" (trpc_util.go:145): GoAndWait returns nil exactly if
\* none failed, and never leaves a goroutine behind.
WaitsForAll ==
  /\ pending = Cardinality({t \in Tasks : tasks[t].at \in {"running", "reported"}}) \/ ~Kind("wait")
  /\ Kind("wait") /\ request.at \in {"waited", "returned"} =>
       /\ \A t \in Tasks : tasks[t].at = "done"
       /\ first = "nil" <=> \A t \in Tasks : Outcome(t) = "nil"
       /\ first \in {Outcome(t) : t \in Tasks}

\* A task that outlives its request keeps the message it was started with, whatever the
\* handler or the next request does to theirs; its context ends only by its own timeout
\* or with the task, and then always; a pool runs no more tasks than it has workers.
TasksDetached ==
  /\ \A t \in Tasks :
       ~Kind("wait") /\ tasks[t].at # "none" =>
         /\ tasks[t].msg = [of |-> "request", meta |-> tasks[t].copied]
         /\ tasks[t].at = "running" => tasks[t].ctx \in {"live", "expired"}
         /\ tasks[t].at = "done" => tasks[t].ctx \in {"canceled", "expired"}
  /\ request.plan.workers > 0 => Cardinality(Busy) <= request.plan.workers

\* The handler returns, and all tasks end.
GoerEnds ==
  \/ request.at = "returned" /\ \A t \in Tasks : tasks[t].at = "done"
  \/ request.at = "dead"
  \/ Kind("sync") /\ \E t \in Tasks : Outcome(t) = "panic"
=============================================================================

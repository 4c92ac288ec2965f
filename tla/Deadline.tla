------------------------------ MODULE Deadline ------------------------------
(***************************************************************************)
(* How a deadline travels down a chain of calls and how its expiry travels *)
(* back up.  Hop i is a call from server i - 1 (hop 1: from the program    *)
(* that starts the chain) to server i.  The client takes the smaller of    *)
(* its own timeout and the deadline of its context, tells the server the   *)
(* time left in whole milliseconds, and the server takes the smaller of    *)
(* that and its own timeout.  Which one was smaller decides, on each side, *)
(* under which name an expiry is reported and whether the server answers.  *)
(* A handler calls the next hop at most once and is passive: it returns    *)
(* what that call returned, a result of its own, or, when its context has  *)
(* ended, a framework time-out.                                            *)
(***************************************************************************)
EXTENDS Integers

CONSTANTS Hops,          \* the length of the chain
          Millisecond,   \* clock ticks in a millisecond
          Configs,       \* the configurations of a chain: the deadline it starts with and, per hop, the
                         \* timeout of the client and of the server (0: none) and whether the server
                         \* ignores the request's
          MaxClock

Never == MaxClock + Millisecond
Earlier(a, b) == IF a < b THEN a ELSE b

Error(type, code) == [type |-> type, code |-> code]
None == Error("none", "OK")

VARIABLES now,
          chain,    \* hop -> timeout of the client, of the server, request timeout ignored
          root,     \* the deadline of the context the chain starts with
          caller,   \* hop -> state of the call
          callee    \* hop -> state of the handler

deadlineVars == <<now, chain, root, caller, callee>>

Range1 == 1..Hops
NoClient == [st |-> "idle", from |-> 0, deadline |-> Never, inherited |-> FALSE, sent |-> 0, err |-> None, at |-> 0]
NoServer == [st |-> "none", from |-> 0, deadline |-> Never, fix |-> "none", err |-> None, at |-> 0]

Init ==
    /\ now = 0
    /\ \E c \in Configs : chain = c.hops /\ root = (IF c.root = 0 THEN Never ELSE c.root)
    /\ caller = [i \in Range1 |-> NoClient]
    /\ callee = [i \in Range1 |-> NoServer]

IsTimeout(e, type) ==
    /\ e.type = type
    /\ e.code \in {"ClientTimeout", "ClientFullLinkTimeout", "ServerTimeout", "ServerFullLinkTimeout"}

mayConvertClient(inherited, e) ==
    IF inherited /\ IsTimeout(e, "framework") THEN [e EXCEPT !.code = "ClientFullLinkTimeout"] ELSE e

\* Mutant: every time-out is taken for the caller's.
mayConvertAll(fix, e) ==
    IF fix # "none" /\ IsTimeout(e, "framework") /\ e.code # "ClientTimeout"
    THEN [e EXCEPT !.code = "ServerFullLinkTimeout"] ELSE e
\* The two filters of the server: which one is in place is callee[i].fix.
mayConvertServer(fix, e) ==
    IF fix # "none" /\ IsTimeout(e, "framework") /\ e.code # "ClientTimeout"
    THEN [e EXCEPT !.code = IF fix = "full" THEN "ServerFullLinkTimeout" ELSE "ServerTimeout"]
    ELSE e

Parent(i) == IF i = 1 THEN root ELSE callee[i - 1].deadline

ClientReturns(i, c, e) ==
    caller' = [caller EXCEPT ![i] = [c EXCEPT !.st = "returned", !.at = now,
                                              !.err = mayConvertClient(c.inherited, e)]]

\* An invocation: the deadline, its share of the chain's, and the time left told to the server.
\* A context that has already ended fails before anything is sent.
Invoke(i) ==
    LET own == chain[i].client
        deadline == IF own > 0 THEN Earlier(Parent(i), now + own) ELSE Parent(i)
        c == [NoClient EXCEPT !.st = "waiting", !.from = now, !.deadline = deadline,
                              !.inherited = Parent(i) # Never /\ (own <= 0 \/ Parent(i) - now < own),
                              !.sent = IF deadline = Never THEN 0 ELSE (deadline - now) \div Millisecond]
    IN  /\ caller[i].st = "idle"
        /\ i > 1 => callee[i - 1].st = "handling"
        /\ IF deadline <= now
           THEN ClientReturns(i, c, Error("framework", "ClientTimeout")) /\ UNCHANGED callee
           ELSE /\ caller' = [caller EXCEPT ![i] = c]
                /\ callee' = [callee EXCEPT ![i].st = "flying"]
        /\ UNCHANGED <<now, chain, root>>

\* The request's timeout takes effect when it is smaller than the server's own.
FullLink(request, own) == request > 0 /\ (request < own \/ own = 0)

\* The request reaches the server, however late: the handler starts with a deadline of its own.
handle(i) ==
    LET own == chain[i].server
        request == caller[i].sent * Millisecond
        full == ~chain[i].disable /\ FullLink(request, own)
        timeout == IF full THEN request ELSE own
    IN  /\ callee[i].st = "flying"
        /\ callee' = [callee EXCEPT ![i] =
              [NoServer EXCEPT !.st = "handling", !.from = now,
                               !.deadline = IF timeout > 0 THEN now + timeout ELSE Never,
                               !.fix = IF full THEN "full" ELSE IF own > 0 THEN "normal" ELSE "none"]]
        /\ UNCHANGED <<now, chain, root, caller>>

\* What the handler may return now.
Outcomes(i) ==
    LET below == caller[i + 1] IN
    IF i < Hops /\ below.st = "returned" THEN {below.err}
    ELSE IF i < Hops /\ below.st = "waiting" THEN {}
    ELSE {None} \cup IF now >= callee[i].deadline THEN {Error("framework", "ServerTimeout")} ELSE {}

\* A full-link time-out is not answered.
Finish(i) ==
    \E e \in Outcomes(i) :
        LET r == mayConvertServer(callee[i].fix, e)
            silent == r.type = "framework" /\ r.code = "ServerFullLinkTimeout"
        IN  /\ callee[i].st = "handling"
            /\ callee' = [callee EXCEPT ![i].st = IF silent THEN "silent" ELSE "answered",
                                        ![i].err = r, ![i].at = now]
            /\ UNCHANGED <<now, chain, root, caller>>

\* The answer is read before the deadline: a framework error of the callee's becomes the callee's.
Receive(i) ==
    LET e == callee[i].err IN
    /\ caller[i].st = "waiting" /\ callee[i].st = "answered" /\ now < caller[i].deadline
    /\ ClientReturns(i, caller[i], IF e.type = "framework" THEN Error("callee", e.code)
                                   ELSE IF e.type = "callee" THEN Error("business", e.code) ELSE e)
    /\ UNCHANGED <<now, chain, root, callee>>

\* The blocked read ends with the deadline of the connection.
Expire(i) ==
    /\ caller[i].st = "waiting" /\ now >= caller[i].deadline
    /\ ClientReturns(i, caller[i], Error("framework", "ClientTimeout"))
    /\ UNCHANGED <<now, chain, root, callee>>

Tick ==
    /\ now < MaxClock
    /\ \E i \in Range1 : caller[i].st = "waiting" \/ callee[i].st \in {"flying", "handling"}
    /\ now' = now + 1
    /\ UNCHANGED <<chain, root, caller, callee>>

DeadlineNext ==
    \/ \E i \in Range1 : Invoke(i) \/ handle(i) \/ Finish(i) \/ Receive(i) \/ Expire(i)
    \/ Tick

Spec == Init /\ [][DeadlineNext]_deadlineVars

-----------------------------------------------------------------------------
(* The server keeps silent (service.handle turning a full-link time-out    *)
(* into ErrServerNoResponse) only when its caller's time is up, to within  *)
(* the millisecond the request timeout is rounded down to: no caller that  *)
(* still has time is left without an answer.                               *)
SilentOnlyWhenCallerIsLate ==
    \A i \in Range1 : callee[i].st = "silent" => callee[i].at > caller[i].deadline - Millisecond

(* Every name a time-out is reported under tells whose time was up: the    *)
(* caller's own option (RetClientTimeout), the deadline it inherited       *)
(* (RetClientFullLinkTimeout), the callee's own option (RetServerTimeout). *)
BlameIsExact ==
    \A i \in Range1 :
        /\ caller[i].err = Error("framework", "ClientTimeout") => caller[i].at >= caller[i].from + chain[i].client
        /\ caller[i].err = Error("framework", "ClientFullLinkTimeout") => caller[i].at >= Parent(i)
        /\ callee[i].err = Error("framework", "ServerTimeout") /\ chain[i].server > 0
               => callee[i].at >= callee[i].from + chain[i].server

(* A handler is given no more time than its caller had left when it sent   *)
(* the request, unless request timeouts are disabled or less than a        *)
(* millisecond was left (which the head carries as 0, "no timeout"), and   *)
(* no call further down outlives the handler that makes it.                *)
TimeOnlyShrinks ==
    \A i \in Range1 :
        /\ callee[i].st \notin {"none", "flying"} /\ ~chain[i].disable /\ caller[i].sent > 0
               => callee[i].deadline - callee[i].from <= caller[i].deadline - caller[i].from
        /\ caller[i].st # "idle" => caller[i].deadline <= Parent(i)
=============================================================================

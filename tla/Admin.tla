------------------------------- MODULE Admin --------------------------------
(***************************************************************************)
(* The admin service (admin/admin.go, router.go, config.go, options.go):   *)
(* an HTTP server of its own that shows and sets the levels of the logs,   *)
(* shows the configuration, the health, the precool state and the spans.   *)
(* Requests are handled concurrently with each other, with the start of    *)
(* the service and with Close.                                             *)
(***************************************************************************)
EXTENDS Integers, Sequences

CONSTANTS
  AdminConfigs,   \* scenarios: the options of NewServer, what the handlers find, which requests come
  AdminRequests,  \* requests: their path, method and parameters
  Closers,        \* callers of Close
  DefaultNum      \* spans that are listed when the request names no number

VARIABLES
  admin,     \* the scenario, the patterns, the HTTP server and where Serve is
  levels,    \* every level the output of the logger has had, the last is in force
  requests,  \* where the handling of each request is
  closers    \* what each Close returned

adminVars == <<admin, levels, requests, closers>>

Level == levels[Len(levels)]

\* The patterns that configRouter adds, before those of the package's HandleFunc.
Patterns == {"/cmds", "/version", "/cmds/loglevel", "/cmds/config", "/is_healthy/", "/cmds/is_precool/",
             "/cmds/rpcz/spans", "/cmds/rpcz/spans/"}

\* NewServer, with the defaults of newDefaultConfig under the options.
NewServer(c) ==
  [config |-> c, patterns |-> IF c.skipServe THEN {} ELSE Patterns \cup c.handleFuncs,
   server |-> "nil", listener |-> "none", at |-> "serve", result |-> "", once |-> FALSE, closeErr |-> ""]

\* The answers of newDefaultRes, of ErrorOutput, and of handlers that only set a status.
newDefaultRes == [code |-> 0, text |-> "", spans |-> <<>>, levels |-> <<>>, cmds |-> {}]
ErrorOutput == [newDefaultRes EXCEPT !.code = 1]
Status(code) == [newDefaultRes EXCEPT !.code = code]

AdminInit ==
  /\ \E c \in AdminConfigs : admin = NewServer(c)
  /\ levels = <<"info">>
  /\ requests = [r \in DOMAIN AdminRequests |-> [at |-> "none", since |-> 0, pre |-> "", answer |-> newDefaultRes]]
  /\ closers = [c \in Closers |-> "none"]

-----------------------------------------------------------------------------
(* Serve and Close                                                         *)

Return(result) == admin' = [admin EXCEPT !.at = "returned", !.result = result]

\* obtainListener: after a graceful restart only a passed listener will do.
obtainListener == IF admin.config.graceful THEN admin.config.passed ELSE admin.config.binds

\* Serve, up to a listener that is saved for the next restart.
Listen ==
  /\ admin.at = "serve"
  /\ CASE admin.config.skipServe -> Return("nil")
       [] admin.config.enableTLS -> Return("tls")
       [] ~admin.config.skipServe /\ ~admin.config.enableTLS /\ ~obtainListener -> Return("listen")
       [] OTHER -> admin' = [admin EXCEPT !.at = "listening", !.listener = "open"]
  /\ UNCHANGED <<levels, requests, closers>>

\* The HTTP server exists from here on for Close, which reads the field without a lock.
SetServer ==
  /\ admin.at = "listening" /\ admin' = [admin EXCEPT !.at = "accept", !.server = "open"]
  /\ UNCHANGED <<levels, requests, closers>>

\* http.Server.Serve returns ErrServerClosed once the server is closed, also when that
\* was before it was called; Serve turns it into nil.
ServeReturns ==
  /\ admin.at = "accept" /\ admin.server = "closed"
  /\ admin' = [admin EXCEPT !.at = "returned", !.result = "nil", !.listener = "closed"]
  /\ UNCHANGED <<levels, requests, closers>>

\* close: nothing to do for a server that does not exist (yet).
close ==
  IF admin.server = "nil" THEN [admin EXCEPT !.once = TRUE]
  ELSE [admin EXCEPT !.once = TRUE, !.server = "closed", !.closeErr = admin.config.closeErr,
                     !.listener = IF @ = "open" THEN "closed" ELSE @]

\* Close: the first one closes; all return its error.
Close(c) ==
  /\ closers[c] = "none"
  /\ admin' = IF admin.once THEN admin ELSE close
  /\ closers' = [closers EXCEPT ![c] = IF admin'.closeErr = "" THEN "nil" ELSE admin'.closeErr]
  /\ UNCHANGED <<levels, requests>>

-----------------------------------------------------------------------------
(* The handlers                                                            *)

\* handleHealthCheck: no service in the path asks for the server.
handleHealthCheck(q) ==
  CASE admin.config.health[q.name] = "Serving" -> Status(200)
    [] admin.config.health[q.name] = "NotServing" -> Status(503)
    [] OTHER -> Status(404)

\* handlePrecool: only GET, only with a checker.
handlePrecool(q) ==
  CASE q.method # "GET" -> Status(405)
    [] q.method = "GET" /\ admin.config.precool = "nil" -> ErrorOutput
    [] OTHER -> [newDefaultRes EXCEPT !.text = admin.config.precool]

\* handleConfig: the file as it is now, which must still be YAML.
handleConfig ==
  IF admin.config.file \in {"unreadable", "malformed"} THEN ErrorOutput
  ELSE [newDefaultRes EXCEPT !.text = admin.config.file]

\* parseNumParameter: -1 stands for its error.
parseNumParameter(q) == IF q.form = "absent" THEN DefaultNum ELSE IF q.form = "malformed" THEN -1 ELSE q.num
\* handleRPCZSpansList: at most so many spans.
handleRPCZSpansList(q) ==
  LET num == parseNumParameter(q)
      all == admin.config.spans
  IN IF num < 0 THEN ErrorOutput
     ELSE [newDefaultRes EXCEPT !.spans = SubSeq(all, 1, IF num < Len(all) THEN num ELSE Len(all))]

\* parseIDParameter: a path without a number is malformed.
parseIDParameter(q) == IF q.form # "number" THEN -1 ELSE q.num
\* handleRPCZSpanGet: the span, if it is still kept.
handleRPCZSpanGet(q) ==
  LET id == parseIDParameter(q) IN
  IF id >= 0 /\ \E j \in DOMAIN admin.config.spans : admin.config.spans[j] = id
  THEN [newDefaultRes EXCEPT !.spans = <<id>>] ELSE ErrorOutput

\* handleCmds lists the patterns, handleVersion the version; a handler that was added may
\* panic, which ServeHTTP of the router turns into an answer.
Answer(q) ==
  CASE q.path = "/is_healthy/" -> handleHealthCheck(q)
    [] q.path = "/cmds/is_precool/" -> handlePrecool(q)
    [] q.path = "/cmds/config" -> handleConfig
    [] q.path = "/cmds/rpcz/spans" -> handleRPCZSpansList(q)
    [] q.path = "/cmds/rpcz/spans/" -> handleRPCZSpanGet(q)
    [] q.path = "/cmds" -> [newDefaultRes EXCEPT !.cmds = admin.patterns]
    [] q.path = "/version" -> newDefaultRes
    [] OTHER -> Status(500)

\* A request comes over an open listener; a path that no pattern matches is not found.
\* The form of a loglevel request is read first, and its logger must exist.
Arrive(r) ==
  LET q == AdminRequests[r] IN
  /\ r \in admin.config.requests /\ requests[r].at = "none" /\ admin.at = "accept" /\ admin.server = "open"
  /\ requests' = [requests EXCEPT ![r] =
       IF q.path \notin admin.patterns THEN [@ EXCEPT !.at = "answered", !.answer = Status(404)]
       ELSE IF q.path # "/cmds/loglevel" THEN [@ EXCEPT !.at = "answered", !.answer = Answer(q)]
       ELSE IF q.name # "default" THEN [@ EXCEPT !.at = "answered", !.answer = ErrorOutput]
       ELSE [@ EXCEPT !.at = "read", !.since = Len(levels)]]
  /\ UNCHANGED <<admin, levels, closers>>

\* LevelNames[value]: a name that is none stands for LevelNil, which zap takes for info.
LevelNames(value) == IF value \in {"debug", "info", "error"} THEN value ELSE "info"

\* handleLogLevel reads the level, for a GET to answer it.
ReadLevel(r) ==
  /\ requests[r].at = "read"
  /\ requests' = [requests EXCEPT ![r] =
       CASE AdminRequests[r].method = "GET" -> [@ EXCEPT !.at = "answered", !.answer.levels = <<Level>>]
         [] AdminRequests[r].method = "PUT" -> [@ EXCEPT !.at = "set", !.pre = Level]
         [] OTHER -> [@ EXCEPT !.at = "answered"]]
  /\ UNCHANGED <<admin, levels, closers>>

\* A PUT sets the level and then reads it again, for its answer.
SetLevel(r) ==
  /\ requests[r].at = "set" /\ levels' = Append(levels, LevelNames(AdminRequests[r].value))
  /\ requests' = [requests EXCEPT ![r].at = "again"]
  /\ UNCHANGED <<admin, closers>>
ReadAgain(r) ==
  /\ requests[r].at = "again"
  /\ requests' = [requests EXCEPT ![r].at = "answered", ![r].answer.levels = <<requests[r].pre, Level>>]
  /\ UNCHANGED <<admin, levels, closers>>

\* router.add: a pattern may be added while requests are served; the ServeMux panics on
\* one it has, before the map is changed.
HandleFunc ==
  /\ ~admin.config.skipServe /\ "/late" \notin admin.patterns
  /\ admin' = [admin EXCEPT !.patterns = @ \cup {"/late"}]
  /\ UNCHANGED <<levels, requests, closers>>

-----------------------------------------------------------------------------
AdminStep ==
  \/ Listen \/ SetServer \/ ServeReturns
  \/ \E r \in DOMAIN AdminRequests : ReadLevel(r) \/ SetLevel(r) \/ ReadAgain(r)

AdminNext ==
  \/ \E c \in Closers : Close(c)
  \/ \E r \in DOMAIN AdminRequests : Arrive(r)
  \/ HandleFunc

-----------------------------------------------------------------------------
Since(r) == {levels[k] : k \in requests[r].since..Len(levels)}

\* However the requests interleave, handleLogLevel answers with levels that were in force
\* while it ran: a PUT's last one is its own or one that was set after it.
LevelsHeld ==
  \A r \in DOMAIN AdminRequests :
    requests[r].at = "answered" /\ requests[r].since > 0 =>
      LET a == requests[r].answer.levels IN
      /\ \A j \in DOMAIN a : a[j] \in Since(r)
      /\ Len(a) = 2 => \E k, n \in requests[r].since..Len(levels) :
                          k < n /\ levels[k] = a[1] /\ levels[n] = a[2]

\* Malformed requests are answered with an error and never with spans, and a list of
\* spans is as long as was asked for or holds all.
SpansAsAsked ==
  \A r \in DOMAIN AdminRequests :
    LET q == AdminRequests[r]
        n == Len(requests[r].answer.spans)
    IN requests[r].at = "answered" /\ q.path = "/cmds/rpcz/spans" =>
         IF q.form = "malformed" \/ (q.form = "number" /\ q.num < 0) \/ requests[r].answer.code = 404 THEN n = 0
         ELSE n = Len(admin.config.spans) \/ n = IF q.form = "absent" THEN DefaultNum ELSE q.num

\* Once a Close found the server, the listener is closed for good; all Closes agree on the
\* error; only a Close that came before the server existed leaves it serving.
ClosedReleases ==
  /\ admin.server = "closed" => admin.listener = "closed" /\ admin.once
  /\ admin.at = "returned" => admin.listener # "open"
  /\ \A c, d \in Closers : "none" \notin {closers[c], closers[d]} => closers[c] = closers[d]

\* Serve returns once the server was closed.
AdminEnds == admin.server = "closed" => admin.at = "returned"
=============================================================================

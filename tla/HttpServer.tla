---------------------------- MODULE HttpServer ----------------------------
(* The HTTP server transports: ServerTransport (net/http, "std"),          *)
(* FastHTTPServerTransport ("fast") and RESTServerTransport on either      *)
(* ("rest", "restfast"), from ListenAndServe to the end of the last        *)
(* connection.                                                             *)
EXTENDS Naturals, FiniteSets

CONSTANTS
  Conns,      \* the connections clients open
  Setups      \* kind, options, and what the environment lets succeed

VARIABLES
  setup,
  listener,    \* "none", "open" or "closed"
  saved,       \* SaveListener has it, for a graceful restart
  serving,     \* "no", "failed", "yes", "shutting" or "over"
  signals,     \* of "ctx" (the service is closed) and "stop" (StopListening is closed)
  conns,       \* a connection is "none", "idle", "busy", "replying" (closes after it), "refused" or "closed"
  answered     \* the connections whose current request got its answer
httpServerVars == <<setup, listener, saved, serving, signals, conns, answered>>

Init ==
  /\ setup \in Setups
  /\ listener = "none" /\ saved = FALSE /\ serving = "no" /\ signals = {}
  /\ conns = [c \in Conns |-> "none"] /\ answered = {}

-----------------------------------------------------------------------------
NotStarted == [ln |-> "none", saved |-> FALSE, ok |-> FALSE]
Unsaved == [ln |-> "open", saved |-> FALSE, ok |-> FALSE]

\* getListener: the parent's after a graceful restart, else a new one.
getListener == IF setup.grace THEN setup.passed ELSE setup.binds
getFastHTTPListener == setup.given \/ getListener

\* serve of ServerTransport: a listener that cannot be saved stays open, a decorator may refuse.
stdServe ==
  IF ~setup.given /\ ~getListener THEN NotStarted
  ELSE IF ~setup.saves THEN Unsaved
  ELSE [ln |-> "open", saved |-> TRUE, ok |-> setup.decorates]

\* serve of FastHTTPServerTransport: the key pairs are loaded after the listener is saved.
fastServe ==
  IF ~getFastHTTPListener THEN NotStarted
  ELSE IF ~setup.saves THEN Unsaved
  ELSE [ln |-> "open", saved |-> TRUE, ok |-> setup.tls \in {"none", "good"}]

\* RESTServerTransport: h2c excludes TLS; the router decides whether fasthttp can serve it.
restServes == setup.kind = "restfast" => setup.router \in {"none", "restful"}
restListens ==
  IF (setup.kind = "rest" /\ setup.h2c /\ setup.tls # "none") \/ (~setup.given /\ ~getListener) THEN NotStarted
  ELSE IF ~setup.saves THEN Unsaved
  ELSE [ln |-> "open", saved |-> TRUE, ok |-> setup.tls \in {"none", "good"} /\ restServes]

\* newHTTPServer and configureFastHTTPServer: a TLS configuration that does not load is an error
\* before there is a listener (fasthttp: the authority only).
newHTTPServer == setup.tls \in {"none", "good"}
configureFastHTTPServer == setup.tls # "badca"

\* ListenAndServe of each transport.
stdListenAndServe == IF setup.handler /\ newHTTPServer THEN stdServe ELSE NotStarted
fastListenAndServe == IF setup.handler /\ configureFastHTTPServer THEN fastServe ELSE NotStarted
ListenAndServe ==
  LET s == CASE setup.kind = "std" -> stdListenAndServe [] setup.kind = "fast" -> fastListenAndServe
             [] OTHER -> restListens
  IN /\ serving = "no"
     /\ listener' = s.ln /\ saved' = s.saved
     /\ serving' = IF s.ok THEN "yes" ELSE "failed"
     /\ UNCHANGED <<setup, signals, conns, answered>>

-----------------------------------------------------------------------------
\* The server library (external): Serve accepts while its listener is open; a connection carries one
\* request at a time, and is closed after a reply when keep-alives are off or the server shuts down.
Connect(c) ==
  /\ conns[c] = "none" /\ listener # "none"
  /\ conns' = [conns EXCEPT ![c] = IF listener = "open" /\ serving = "yes" THEN "idle" ELSE "refused"]
  /\ UNCHANGED <<setup, listener, saved, serving, signals, answered>>

Ask(c) ==
  /\ conns[c] = "idle"
  /\ conns' = [conns EXCEPT ![c] = "busy"]
  /\ answered' = answered \ {c}
  /\ UNCHANGED <<setup, listener, saved, serving, signals>>

Reply(c) ==
  /\ conns[c] = "busy"
  /\ conns' = [conns EXCEPT ![c] = IF setup.keepAlive /\ serving = "yes" THEN "idle" ELSE "closed"]
  /\ answered' = answered \cup {c}
  /\ UNCHANGED <<setup, listener, saved, serving, signals>>

\* The service closes: its context is done and StopListening closed, in either order.
Signal(s) ==
  /\ serving # "no" /\ s \notin signals
  /\ signals' = signals \cup {s}
  /\ UNCHANGED <<setup, listener, saved, serving, conns, answered>>

\* The goroutine on StopListening closes the listener.  ListenAndServe of REST starts it before serve
\* can fail; the others start it last.
StopListening ==
  /\ "stop" \in signals /\ listener = "open"
  /\ serving \in {"yes", "shutting"} \/ (setup.kind \in {"rest", "restfast"} /\ saved /\ setup.tls \in {"none", "good"})
  /\ listener' = "closed"
  /\ UNCHANGED <<setup, saved, serving, signals, conns, answered>>

\* The goroutine on ctx.Done shuts the server down: at once for fasthttp, with ReusePort for the rest.
ShutsDown == setup.kind = "fast" \/ setup.reusePort
\* Mutant: Close instead of Shutdown.
ShutdownHard ==
  /\ "ctx" \in signals /\ serving = "yes" /\ ShutsDown
  /\ serving' = "shutting" /\ listener' = "closed"
  /\ conns' = [c \in Conns |-> IF conns[c] \in {"idle", "busy"} THEN "closed" ELSE conns[c]]
  /\ UNCHANGED <<setup, saved, signals, answered>>
Shutdown ==
  /\ "ctx" \in signals /\ serving = "yes" /\ ShutsDown
  /\ serving' = "shutting" /\ listener' = "closed"
  /\ conns' = [c \in Conns |-> IF conns[c] = "idle" THEN "closed" ELSE conns[c]]
  /\ UNCHANGED <<setup, saved, signals, answered>>

\* The goroutines that wait for the service to close go on, and so do the handlers.
Closing == StopListening \/ Shutdown
Replying == \E c \in Conns : Reply(c)
HttpServerNext ==
  \/ ListenAndServe \/ Closing \/ Replying
  \/ \E c \in Conns : Connect(c) \/ Ask(c)
  \/ \E s \in {"ctx", "stop"} : Signal(s)

-----------------------------------------------------------------------------
(* No request that a connection carried is dropped by a shutdown: a        *)
(* connection ends only after its answer or while it is idle; and nothing  *)
(* is served unless the start reported success (serve, Shutdown rather     *)
(* than Close).                                                            *)
ShutdownIsGraceful ==
  \A c \in Conns :
    /\ conns[c] = "busy" /\ conns'[c] = "closed" => c \in answered'
    /\ conns'[c] = "idle" /\ conns[c] = "none" => serving = "yes"

(* A service that is closed ends its listener, and with a shutdown its     *)
(* connections too (the goroutines of serve).                              *)
ClosedServersEnd ==
  serving \in {"yes", "shutting"} =>
    /\ "stop" \in signals => listener = "closed"
    /\ "ctx" \in signals /\ ShutsDown => \A c \in Conns : conns[c] \notin {"idle", "busy"}
=============================================================================

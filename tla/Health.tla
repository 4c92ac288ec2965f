------------------------------- MODULE Health -------------------------------
(***************************************************************************)
(* The health check (healthcheck/health_check.go) and the precool check    *)
(* (internal/precool/precool.go) that the admin service asks.  Every       *)
(* method holds the lock of its object throughout, so each is one step;    *)
(* the update functions that Register returned stay usable for ever.       *)
(***************************************************************************)
EXTENDS Integers, FiniteSets

CONSTANTS Names   \* service names

ASSUME NamesFinite == IsFiniteSet(Names)

VARIABLES
  statuses,   \* serviceStatuses, a map from names
  buckets,    \* statusServices, a set of names for each status
  updaters,   \* names for which some caller holds an update function
  watched,    \* names with a watcher
  told,       \* what the watcher of a name was last told
  funcs       \* precool functions: the status each would return now

healthVars == <<statuses, buckets, updaters, watched, told, funcs>>

Status == {"Unknown", "Serving", "NotServing"}
Precool == {"Unknown", "Success", "Failure", "Ongoing"}
Maps(S) == UNION {[D -> S] : D \in SUBSET Names}

HealthTypeOK ==
  /\ statuses \in Maps(Status) /\ buckets \in [Status -> SUBSET Names]
  /\ updaters \subseteq Names /\ watched \subseteq Names
  /\ told \in [Names -> Status \cup {"nothing"}]
  /\ funcs \in Maps(Precool)

HealthInit ==
  /\ statuses = <<>> /\ buckets = [s \in Status |-> {}]
  /\ updaters = {} /\ watched = {} /\ told = [n \in Names |-> "nothing"]
  /\ funcs = <<>>

\* The map f with f[n] = v, and the map f without n.
With(f, n, v) == [x \in DOMAIN f \cup {n} |-> IF x = n THEN v ELSE f[x]]
Without(f, n) == [x \in DOMAIN f \ {n} |-> f[x]]

\* What the map gives for n: the zero value Unknown when n is not in it.
At(n) == IF n \in DOMAIN statuses THEN statuses[n] ELSE "Unknown"

\* Deleting n from the set of its status before adding it to another.
Rebucket(n, s) == [[buckets EXCEPT ![At(n)] = @ \ {n}] EXCEPT ![s] = @ \cup {n}]

Notify(n, s) == told' = IF n \in watched THEN [told EXCEPT ![n] = s] ELSE told

\* Register fails for a registered name.
Register(n) ==
  /\ n \notin DOMAIN statuses
  /\ statuses' = With(statuses, n, "Unknown")
  /\ buckets' = [buckets EXCEPT !["Unknown"] = @ \cup {n}]
  /\ updaters' = updaters \cup {n} /\ Notify(n, "Unknown")
  /\ UNCHANGED <<watched, funcs>>

\* Mutant: the update leaves the name in the set of its old status.
UpdateKeeps(n, s) ==
  /\ n \in updaters
  /\ buckets' = [buckets EXCEPT ![s] = @ \cup {n}] /\ statuses' = With(statuses, n, s)
  /\ Notify(n, s)
  /\ UNCHANGED <<updaters, watched, funcs>>
\* The function that Register returned, also after Unregister.
Update(n, s) ==
  /\ n \in updaters
  /\ buckets' = Rebucket(n, s) /\ statuses' = With(statuses, n, s)
  /\ Notify(n, s)
  /\ UNCHANGED <<updaters, watched, funcs>>

Unregister(n) ==
  /\ buckets' = [buckets EXCEPT ![At(n)] = @ \ {n}] /\ statuses' = Without(statuses, n)
  /\ UNCHANGED <<updaters, watched, told, funcs>>

Watch(n) ==
  /\ watched' = watched \cup {n}
  /\ UNCHANGED <<statuses, buckets, updaters, told, funcs>>

\* CheckServer compares sizes instead of looking at every service.
CheckServer ==
  IF Cardinality(buckets["Serving"]) = Cardinality(DOMAIN statuses) THEN "Serving"
  ELSE IF buckets["Unknown"] # {} THEN "Unknown" ELSE "NotServing"

\* Register and Unregister of a precool function, and its progress.
PrecoolRegister(n, s) ==
  /\ n \notin DOMAIN funcs /\ funcs' = With(funcs, n, s)
  /\ UNCHANGED <<statuses, buckets, updaters, watched, told>>
PrecoolUnregister(n) ==
  /\ funcs' = Without(funcs, n)
  /\ UNCHANGED <<statuses, buckets, updaters, watched, told>>

Returned == {funcs[n] : n \in DOMAIN funcs}
\* CheckServer of precool.
PrecoolServer ==
  CASE "Failure" \in Returned -> "Unknown"
    [] "Failure" \notin Returned /\ "Ongoing" \in Returned -> "Ongoing"
    [] Returned \subseteq {"Success"} -> "Success"
    [] OTHER -> "Failure"

HealthNext ==
  \E n \in Names :
    Register(n) \/ Unregister(n) \/ Watch(n) \/ \E s \in Status : Update(n, s)

PrecoolNext ==
  \E n \in Names : PrecoolUnregister(n) \/ \E s \in Precool : PrecoolRegister(n, s)


HealthSpec == HealthInit /\ [][HealthNext \/ PrecoolNext]_healthVars
-----------------------------------------------------------------------------
\* The answer for the whole server, which CheckServer takes from the sizes of the sets,
\* is the one that the status of each service gives: a late update, a second Unregister
\* or a registration anew must not leave the two maps apart.
ServerStatusExact ==
  CheckServer =
    CASE \A n \in DOMAIN statuses : statuses[n] = "Serving" -> "Serving"
      [] \E n \in DOMAIN statuses : statuses[n] = "Unknown" -> "Unknown"
      [] OTHER -> "NotServing"

\* A watcher that was told anything knows the status of a service that is registered.
WatcherCurrent ==
  \A n \in DOMAIN statuses : told[n] # "nothing" => told[n] = statuses[n]

\* The server is reported as cooled down only if every service is.
PrecoolDone ==
  PrecoolServer = "Success" => \A n \in DOMAIN funcs : funcs[n] = "Success"

\* The server's health follows from its services', watchers know it, and the precool check
\* is done when all services are.
HealthExact == HealthTypeOK /\ ServerStatusExact /\ WatcherCurrent /\ PrecoolDone

\* The inductive strengthening of HealthExact: the sets are the inverse of the map of
\* statuses, and who was told anything watches.
HealthInv ==
  /\ HealthTypeOK /\ WatcherCurrent
  /\ \A s \in Status : buckets[s] = {n \in DOMAIN statuses : statuses[n] = s}
  /\ \A n \in Names : told[n] # "nothing" => n \in watched
=============================================================================

--------------------------- MODULE ServingProofs ----------------------------
(***************************************************************************)
(* Theorems about three parts of the serving side, for every value of      *)
(* their constants: the unbounded queue, which refines a plain FIFO and    *)
(* loses no wake-up (Queue), the keep-order groups, whose jobs run in the  *)
(* order of their connection (KeepOrder), and the health check, whose sets *)
(* of names stay the inverse of its map of statuses (Health).              *)
(***************************************************************************)
EXTENDS Queue, KeepOrder, Health, FiniteSetTheorems, TLAPS

\* What a queue's and a channel's append and receive do to a list.
LEMMA Appended ==
  ASSUME NEW S, NEW l \in Seq(S), NEW e \in S
  PROVE  /\ Append(l, e) \in Seq(S) /\ Len(l) \in Nat /\ Len(Append(l, e)) = Len(l) + 1
         /\ DOMAIN l = 1..Len(l) /\ DOMAIN Append(l, e) = 1..Len(l) + 1 /\ Append(l, e)[Len(l) + 1] = e
         /\ \A i \in 1..Len(l) : Append(l, e)[i] = l[i] /\ l[i] \in S
  OBVIOUS

\* Taking the first element of a list, as Get and a receiving actor do.
LEMMA Received ==
  ASSUME NEW S, NEW l \in Seq(S), l # <<>>
  PROVE  /\ Head(l) \in S /\ Head(l) = l[1] /\ Tail(l) \in Seq(S)
         /\ Len(l) \in Nat /\ Len(l) > 0 /\ Len(Tail(l)) = Len(l) - 1
         /\ \A i \in 1..Len(l) - 1 : Tail(l)[i] = l[i + 1]
  OBVIOUS
-----------------------------------------------------------------------------
(* The queue: for every set of putters, every set of values and every      *)
(* bound on the list.                                                      *)

\* New builds a queue that satisfies the inductive invariant.
LEMMA QueueInitInv == QueueInit => QueueInv
<1> SUFFICES ASSUME QueueInit PROVE QueueInv
  BY Zenon
<1>1. list \in Seq(Value)
  BY DEF QueueInit
<1>2. notify \in BOOLEAN /\ waiting \in BOOLEAN /\ done \in BOOLEAN
  BY Zenon DEF QueueInit
<1>3. wakeUp \in [Putters -> BOOLEAN]
  BY Zenon DEF QueueInit
<1> QED BY <1>1, <1>2, <1>3, Zenon DEF QueueInit, QueueInv, QueueTypeOK

\* Every critical section, select and channel send of Put and Get keeps it.
LEMMA QueueStepInv == QueueInv /\ [QueueNext]_queueVars => QueueInv'
<1> SUFFICES ASSUME QueueInv, [QueueNext]_queueVars PROVE QueueInv'
  BY Zenon
<1> USE DEF QueueInv, QueueTypeOK
<1>1. ASSUME NEW p \in Putters, NEW v \in Value, PutLocked(p, v) PROVE QueueInv'
  <2>1. list' \in Seq(Value)
    BY <1>1, Appended, Zenon DEF PutLocked
  <2> QED BY <1>1, <2>1, Zenon DEF PutLocked
<1>2. ASSUME NEW p \in Putters, PutNotify(p) PROVE QueueInv'
  BY <1>2, Zenon DEF PutNotify
<1>3. CASE GetCall
  BY <1>3, Zenon DEF GetCall
<1>4. ASSUME TakeFront PROVE QueueInv'
  <2>1. list' \in Seq(Value) /\ result' \in Value
    BY <1>4, Received, Zenon DEF TakeFront
  <2> QED BY <1>4, <2>1, Zenon DEF TakeFront
<1>5. CASE GetLocked
  BY <1>4, <1>5, Zenon DEF GetLocked
<1>6. CASE SelectNotify
  BY <1>6, Zenon DEF SelectNotify
<1>7. CASE SelectDone
  BY <1>7, Zenon DEF SelectDone
<1>8. CASE DrainLocked
  BY <1>4, <1>8, Zenon DEF DrainLocked, NotOk
<1>9. CASE CloseDone
  BY <1>9, Zenon DEF CloseDone
<1>10. CASE UNCHANGED queueVars
  BY <1>10, Zenon DEF queueVars
<1> QED
  BY <1>1, <1>2, <1>3, <1>5, <1>6, <1>7, <1>8, <1>9, <1>10, Zenon DEF QueueNext, Put, Get

\* Type correctness, the announced-or-under-way strengthening, and that Get looks at the
\* list for the last time only after done is closed, hold always.
THEOREM QueueInductive == QueueSpec => []QueueInv
  BY QueueInitInv, QueueStepInv, PTL DEF QueueSpec

\* No wake-up is lost: a Get asleep in its select while something is queued
\* has the notify token in the channel, or a Put about to send it.
THEOREM NoWakeUpIsLost == QueueSpec => []NoLostWakeUp
<1>1. QueueInv => NoLostWakeUp
  BY Zenon DEF QueueInv, NoLostWakeUp
<1> QED BY <1>1, QueueInductive, PTL

\* Every step of the queue is a step of the FIFO or leaves it alone: Put linearises at its
\* append, Get where it takes the front or, with done closed and nothing queued, gives up.
LEMMA QueueStepsRefine == QueueInv /\ [QueueNext]_queueVars => [Abs!ANext]_(Abs!absVars)
<1> SUFFICES ASSUME QueueInv, [QueueNext]_queueVars PROVE Abs!ANext \/ UNCHANGED Abs!absVars
  BY Zenon
<1> USE DEF Abs!ANext, Abs!absVars
<1>1. ASSUME NEW p \in Putters, NEW v \in Value, PutLocked(p, v) PROVE Abs!ANext
  BY <1>1, Zenon DEF PutLocked, Abs!APut
<1>2. ASSUME NEW p \in Putters, PutNotify(p) PROVE UNCHANGED Abs!absVars
  BY <1>2, Zenon DEF PutNotify
<1>3. CASE GetCall
  BY <1>3, Zenon DEF GetCall, Abs!ATake, NoResult, Abs!NoResult
<1>4. ASSUME TakeFront PROVE Abs!ANext
  BY <1>4, Zenon DEF TakeFront, Abs!AGet
<1>5. CASE GetLocked
  BY <1>4, <1>5, Zenon DEF GetLocked
<1>6. CASE SelectNotify \/ SelectDone
  BY <1>6, Zenon DEF SelectNotify, SelectDone
<1>7. CASE DrainLocked
  BY <1>4, <1>7, Zenon DEF DrainLocked, QueueInv, Abs!AGiveUp, NotOk, Abs!NotOk
<1>8. CASE CloseDone
  BY <1>8, Zenon DEF CloseDone, Abs!ADone
<1>9. CASE UNCHANGED queueVars
  BY <1>9, Zenon DEF queueVars
<1> QED
  BY <1>1, <1>2, <1>3, <1>5, <1>6, <1>7, <1>8, <1>9, Zenon DEF QueueNext, Put, Get

\* The queue with its lock, its one-slot notify channel and its announcements is the FIFO
\* that Get's comment promises.
THEOREM QueueIsFIFO == QueueSpec => ImplementsFIFO
<1>1. QueueInit => Abs!AInit
  BY Zenon DEF QueueInit, Abs!AInit, NoResult, Abs!NoResult
<1> QED BY <1>1, QueueStepsRefine, QueueInductive, PTL DEF QueueSpec, ImplementsFIFO, Abs!ASpec
-----------------------------------------------------------------------------
(* The health check: for every finite set of service names.                *)

\* The maps of names are the functions whose domain is a set of names; adding a name and
\* removing one gives such a map again.
LEMMA MapsAre ==
  ASSUME NEW S, NEW f
  PROVE  f \in Maps(S) <=> DOMAIN f \subseteq Names /\ f \in [DOMAIN f -> S]
  BY Zenon DEF Maps

\* A map in which a name was set is a map.
LEMMA WithType ==
  ASSUME NEW S, NEW f \in Maps(S), NEW n \in Names, NEW v \in S
  PROVE  With(f, n, v) \in Maps(S)
<1>1. DOMAIN f \subseteq Names /\ f \in [DOMAIN f -> S]
  BY MapsAre, Zenon
<1>2. With(f, n, v) \in [DOMAIN f \cup {n} -> S] /\ DOMAIN With(f, n, v) = DOMAIN f \cup {n}
  BY <1>1, Zenon DEF With
<1> QED BY <1>1, <1>2, MapsAre, Zenon

\* A map without a name is a map.
LEMMA WithoutType ==
  ASSUME NEW S, NEW f \in Maps(S), NEW n
  PROVE  /\ Without(f, n) \in Maps(S) /\ DOMAIN Without(f, n) = DOMAIN f \ {n}
         /\ \A x \in DOMAIN f \ {n} : Without(f, n)[x] = f[x]
<1>1. DOMAIN f \subseteq Names /\ f \in [DOMAIN f -> S]
  BY MapsAre, Zenon
<1>2. Without(f, n) \in [DOMAIN f \ {n} -> S]
  BY <1>1, Zenon DEF Without
<1>3. DOMAIN Without(f, n) = DOMAIN f \ {n}
  BY Zenon DEF Without
<1>4. \A x \in DOMAIN f \ {n} : Without(f, n)[x] = f[x]
  BY Zenon DEF Without
<1>5. Without(f, n) \in Maps(S)
  BY <1>1, <1>2, <1>3, MapsAre, Zenon
<1> QED BY <1>3, <1>4, <1>5, Zenon

\* A new health check has no service and nothing in its sets.
LEMMA HealthInitInv == HealthInit => HealthInv
<1> SUFFICES ASSUME HealthInit PROVE HealthInv
  OBVIOUS
<1>1. DOMAIN statuses = {} /\ DOMAIN funcs = {}
  BY DEF HealthInit
<1>2. statuses \in [DOMAIN statuses -> Status] /\ funcs \in [DOMAIN funcs -> Precool]
  BY DEF HealthInit
<1>3. statuses \in Maps(Status) /\ funcs \in Maps(Precool)
  BY <1>1, <1>2, MapsAre, Zenon
<1>4. buckets \in [Status -> SUBSET Names] /\ told \in [Names -> Status \cup {"nothing"}]
  BY Zenon DEF HealthInit
<1>5. \A s \in Status : buckets[s] = {n \in DOMAIN statuses : statuses[n] = s}
  BY <1>1, Zenon DEF HealthInit
<1>6. \A n \in Names : told[n] = "nothing"
  BY Zenon DEF HealthInit
<1> QED BY <1>1, <1>3, <1>4, <1>5, <1>6, Zenon DEF HealthInit, HealthInv, HealthTypeOK, WatcherCurrent

\* Register, the update functions (also those kept after Unregister), Unregister and Watch
\* keep the sets and the map together and tell the watcher what they set.
LEMMA HealthStepInv == HealthInv /\ [HealthNext \/ PrecoolNext]_healthVars => HealthInv'
<1> SUFFICES ASSUME HealthInv, [HealthNext \/ PrecoolNext]_healthVars PROVE HealthInv'
  BY Zenon
<1>0. /\ statuses \in Maps(Status) /\ buckets \in [Status -> SUBSET Names]
      /\ updaters \subseteq Names /\ watched \subseteq Names
      /\ told \in [Names -> Status \cup {"nothing"}] /\ funcs \in Maps(Precool)
      /\ \A n \in DOMAIN statuses : told[n] # "nothing" => told[n] = statuses[n]
      /\ \A s \in Status : buckets[s] = {n \in DOMAIN statuses : statuses[n] = s}
      /\ \A n \in Names : told[n] # "nothing" => n \in watched
      /\ DOMAIN statuses \subseteq Names /\ statuses \in [DOMAIN statuses -> Status]
  BY MapsAre, Zenon DEF HealthInv, HealthTypeOK, WatcherCurrent
\* A name n whose status becomes s, and is told so.
<1>1. ASSUME NEW n \in Names, NEW s \in Status, statuses' = With(statuses, n, s), Notify(n, s),
             buckets' = Rebucket(n, s), updaters' \subseteq Names, UNCHANGED <<watched, funcs>>
      PROVE  HealthInv'
  <2>1. /\ statuses' \in Maps(Status) /\ DOMAIN statuses' = DOMAIN statuses \cup {n}
        /\ statuses'[n] = s /\ \A x \in DOMAIN statuses : x # n => statuses'[x] = statuses[x]
    <3>1. statuses \in Maps(Status)
      BY <1>0, Zenon
    <3>2. With(statuses, n, s) \in Maps(Status)
      BY <3>1, WithType, Zenon
    <3>3. DOMAIN With(statuses, n, s) = DOMAIN statuses \cup {n}
      BY Zenon DEF With
    <3>4. With(statuses, n, s)[n] = s
      BY Zenon DEF With
    <3>5. \A x \in DOMAIN statuses : x # n => With(statuses, n, s)[x] = statuses[x]
      BY Zenon DEF With
    <3> QED BY <1>1, <3>2, <3>3, <3>4, <3>5, Zenon
  <2>2. At(n) \in Status /\ (n \in DOMAIN statuses => At(n) = statuses[n])
    BY <1>0, Zenon DEF At, Status
  <2>3. /\ buckets' \in [Status -> SUBSET Names]
        /\ \A t \in Status : buckets'[t] = IF t = s THEN buckets[t] \cup {n} ELSE IF t = At(n) THEN buckets[t] \ {n} ELSE buckets[t]
    BY <1>0, <1>1, <2>2, Zenon DEF Rebucket
  <2>4. \A t \in Status : buckets'[t] = {m \in DOMAIN statuses' : statuses'[m] = t}
    BY <1>0, <2>1, <2>2, <2>3
  <2>5. /\ told' \in [Names -> Status \cup {"nothing"}]
        /\ \A m \in Names : told'[m] = IF m = n /\ n \in watched THEN s ELSE told[m]
    BY <1>0, <1>1, Zenon DEF Notify
  <2>6. \A m \in DOMAIN statuses' : told'[m] # "nothing" => told'[m] = statuses'[m]
    BY <1>0, <2>1, <2>5, Zenon
  <2>7. \A m \in Names : told'[m] # "nothing" => m \in watched'
    BY <1>0, <1>1, <2>5, Zenon
  <2> QED BY <1>0, <1>1, <2>1, <2>3, <2>4, <2>5, <2>6, <2>7, Zenon DEF HealthInv, HealthTypeOK, WatcherCurrent
<1>2. ASSUME NEW n \in Names, Register(n) PROVE HealthInv'
  <2>1. At(n) = "Unknown" /\ "Unknown" \in Status /\ n \notin buckets["Unknown"]
    BY <1>0, <1>2, Zenon DEF Register, At, Status
  <2>2. buckets' = Rebucket(n, "Unknown")
    BY <1>0, <1>2, <2>1, Zenon DEF Register, Rebucket
  <2>3. updaters' \subseteq Names
    BY <1>0, <1>2, Zenon DEF Register
  <2> QED BY <1>1, <1>2, <2>1, <2>2, <2>3, Zenon DEF Register
<1>3. ASSUME NEW n \in Names, NEW s \in Status, Update(n, s) PROVE HealthInv'
  BY <1>0, <1>1, <1>3, Zenon DEF Update
<1>4. ASSUME NEW n \in Names, Unregister(n) PROVE HealthInv'
  <2>1. /\ statuses' \in Maps(Status) /\ DOMAIN statuses' = DOMAIN statuses \ {n}
        /\ \A x \in DOMAIN statuses \ {n} : statuses'[x] = statuses[x]
    <3>1. statuses \in Maps(Status) /\ statuses' = Without(statuses, n)
      BY <1>0, <1>4, Zenon DEF Unregister
    <3>2. /\ Without(statuses, n) \in Maps(Status) /\ DOMAIN Without(statuses, n) = DOMAIN statuses \ {n}
          /\ \A x \in DOMAIN statuses \ {n} : Without(statuses, n)[x] = statuses[x]
      BY <3>1, WithoutType, Zenon
    <3> QED BY <3>1, <3>2, Zenon
  <2>2. At(n) \in Status /\ (n \in DOMAIN statuses => At(n) = statuses[n])
    BY <1>0, Zenon DEF At, Status
  <2>3. /\ buckets' \in [Status -> SUBSET Names]
        /\ \A t \in Status : buckets'[t] = IF t = At(n) THEN buckets[t] \ {n} ELSE buckets[t]
    BY <1>0, <1>4, <2>2, Zenon DEF Unregister
  <2>4. \A t \in Status : buckets'[t] = {m \in DOMAIN statuses' : statuses'[m] = t}
    BY <1>0, <2>1, <2>2, <2>3
  <2>5. UNCHANGED <<updaters, watched, told, funcs>>
    BY <1>4, Zenon DEF Unregister
  <2>6. \A m \in DOMAIN statuses' : told'[m] # "nothing" => told'[m] = statuses'[m]
    BY <1>0, <2>1, <2>5, Zenon
  <2> QED BY <1>0, <2>1, <2>3, <2>4, <2>5, <2>6, Zenon DEF HealthInv, HealthTypeOK, WatcherCurrent
<1>5. ASSUME NEW n \in Names, Watch(n) PROVE HealthInv'
  BY <1>0, <1>5, Zenon DEF Watch, HealthInv, HealthTypeOK, WatcherCurrent
<1>6. ASSUME funcs' \in Maps(Precool), UNCHANGED <<statuses, buckets, updaters, watched, told>> PROVE HealthInv'
  BY <1>0, <1>6, Zenon DEF HealthInv, HealthTypeOK, WatcherCurrent
<1>7. ASSUME NEW n \in Names, PrecoolUnregister(n) PROVE HealthInv'
  BY <1>0, <1>6, <1>7, WithoutType, Zenon DEF PrecoolUnregister
<1>8. ASSUME NEW n \in Names, NEW s \in Precool, PrecoolRegister(n, s) PROVE HealthInv'
  BY <1>0, <1>6, <1>8, WithType, Zenon DEF PrecoolRegister
<1>9. CASE UNCHANGED healthVars
  BY <1>0, <1>6, <1>9, Zenon DEF healthVars
<1> QED BY <1>2, <1>3, <1>4, <1>5, <1>7, <1>8, <1>9, Zenon DEF HealthNext, PrecoolNext

\* The sets of names are the inverse of the map of statuses, always.
THEOREM HealthInductive == HealthSpec => []HealthInv
  BY HealthInitInv, HealthStepInv, PTL DEF HealthSpec

\* CheckServer's comparison of sizes gives the answer that looking at every service would:
\* the set of serving names is part of all names, so they have the same size only if equal.
LEMMA SizesDecide == HealthInv => ServerStatusExact
<1> SUFFICES ASSUME HealthInv PROVE ServerStatusExact
  BY Zenon
<1>0. /\ DOMAIN statuses \subseteq Names
      /\ \A s \in Status : buckets[s] = {n \in DOMAIN statuses : statuses[n] = s}
  BY MapsAre, Zenon DEF HealthInv, HealthTypeOK
<1>1. IsFiniteSet(DOMAIN statuses)
  BY <1>0, NamesFinite, FS_Subset, Zenon
<1>2. /\ buckets["Serving"] = {n \in DOMAIN statuses : statuses[n] = "Serving"}
      /\ buckets["Unknown"] = {n \in DOMAIN statuses : statuses[n] = "Unknown"}
  BY <1>0, Zenon DEF Status
<1>3. Cardinality(buckets["Serving"]) = Cardinality(DOMAIN statuses) <=> buckets["Serving"] = DOMAIN statuses
  <2>1. buckets["Serving"] \subseteq DOMAIN statuses
    BY <1>2, Zenon
  <2> QED BY <1>1, <2>1, FS_Subset, Zenon
<1>4. buckets["Serving"] = DOMAIN statuses <=> \A n \in DOMAIN statuses : statuses[n] = "Serving"
  BY <1>2, Zenon
<1>5. buckets["Unknown"] # {} <=> \E n \in DOMAIN statuses : statuses[n] = "Unknown"
  BY <1>2, Zenon
<1>6. (\A n \in DOMAIN statuses : statuses[n] = "Serving") => ~ \E n \in DOMAIN statuses : statuses[n] = "Unknown"
  BY Zenon
<1> QED BY <1>3, <1>4, <1>5, <1>6, Zenon DEF ServerStatusExact, CheckServer

\* The server's status is exact, watchers are current, and the precool check reports success
\* only when every function does.
THEOREM HealthIsExact == HealthSpec => []HealthExact
<1>1. PrecoolDone
  BY Zenon DEF PrecoolDone, PrecoolServer, Returned
<1>2. HealthInv => HealthExact
  BY <1>1, SizesDecide, Zenon DEF HealthInv, HealthExact
<1> QED BY <1>2, HealthInductive, PTL
-----------------------------------------------------------------------------
(* The keep-order groups: for every set of connections, every number of    *)
(* requests, every capacity of the channels and whatever may go wrong.     *)

\* One actor is replaced by another state of it.
LEMMA ActorReplaced ==
  ASSUME actors \in Seq(Actor), NEW i \in DOMAIN actors, NEW r \in Actor, actors' = [actors EXCEPT ![i] = r]
  PROVE  /\ actors' \in Seq(Actor) /\ DOMAIN actors' = DOMAIN actors /\ Len(actors') = Len(actors)
         /\ actors'[i] = r /\ \A j \in DOMAIN actors : j # i => actors'[j] = actors[j]
  OBVIOUS

\* What is in the channel of an actor.
LEMMA JobsTyped ==
  ASSUME GroupTypeOK, NEW i \in DOMAIN actors
  PROVE  /\ actors[i].jobs \in Seq(Job) /\ actors[i] \in Actor
         /\ \A m \in DOMAIN actors[i].jobs : actors[i].jobs[m] \in Job /\ actors[i].jobs[m][1] \in Adders
<1>1. actors[i] \in Actor
  BY DEF GroupTypeOK
<1>2. actors[i].jobs \in Seq(Job)
  BY <1>1, Zenon DEF Actor
<1>3. \A m \in DOMAIN actors[i].jobs : actors[i].jobs[m] \in Job
  BY <1>2
<1> QED BY <1>1, <1>2, <1>3, Zenon DEF Job

\* No actor and no executed job at first.
LEMMA GroupInitInv == GroupInit => GroupInv
<1> SUFFICES ASSUME GroupInit PROVE GroupInv
  OBVIOUS
<1>1. /\ Len(actors) = 0 /\ DOMAIN actors = {} /\ actors \in Seq(Actor)
      /\ DOMAIN executed = {} /\ executed \in Seq(Job)
  BY DEF GroupInit
<1>2. 1 \in 1..JobsEach + 1 /\ 0 \in Nat
  BY GroupBounds
<1>3. [at |-> "start", actor |-> 0, job |-> 1] \in Adder
  BY <1>2, Zenon DEF Adder
<1>4. adders \in [Adders -> Adder] /\ \A c \in Adders : adders[c].actor = 0 /\ adders[c].at = "start"
  BY <1>3, Zenon DEF GroupInit
<1>5. GroupTypeOK
  BY <1>1, <1>4 DEF GroupInit, GroupTypeOK
<1> QED BY <1>1, <1>4, <1>5, Zenon DEF GroupInv, AddersSound, ActorsSound, JobsSound, InOrder

\* What one adder does without adding a job: it looks an actor up, finds another's actor, or
\* panics on a closed channel.
LEMMA AdderMoves ==
  ASSUME GroupInv, NEW c \in Adders, NEW a \in Adder, adders' = [adders EXCEPT ![c] = a],
         a.job = adders[c].job, a.actor <= Len(actors), a.at = "send" => a.actor # 0,
         a.at \in {"create", "send"} => a.job <= JobsEach,
         UNCHANGED <<groupFaults, current, actors, executed>>
  PROVE  GroupInv'
<1>1. /\ adders' \in [Adders -> Adder] /\ adders'[c] = a
      /\ \A d \in Adders : d # c => adders'[d] = adders[d]
  BY Zenon DEF GroupInv, GroupTypeOK
<1>2. \A d \in Adders : adders'[d].job = adders[d].job
  BY <1>1, Zenon
<1>3. GroupTypeOK' /\ AddersSound'
  BY <1>1, Zenon DEF GroupInv, GroupTypeOK, AddersSound
<1>4. ActorsSound' /\ InOrder'
  BY Zenon DEF GroupInv, ActorsSound, InOrder
<1>5. JobsSound'
  <2>1. \A n \in DOMAIN executed : executed[n][1] \in Adders
    BY DEF GroupInv, GroupTypeOK, Job
  <2>2. \A i \in DOMAIN actors : \A m \in DOMAIN actors[i].jobs : actors[i].jobs[m][1] \in Adders
    BY JobsTyped, Zenon DEF GroupInv
  <2>3. ASSUME NEW i \in DOMAIN actors, QueuedSound(i) PROVE QueuedSound(i)'
    BY <1>2, <2>2, <2>3, Zenon DEF QueuedSound
  <2> QED BY <1>2, <2>1, <2>3, Zenon DEF GroupInv, JobsSound
<1> QED BY <1>3, <1>4, <1>5, Zenon DEF GroupInv

\* What happens to one actor without its jobs: a job ends, its goroutine leaves the loop and
\* the map, or its channel is closed.
LEMMA ActorMoves ==
  ASSUME GroupInv, NEW i \in DOMAIN actors, NEW r \in Actor, actors' = [actors EXCEPT ![i] = r],
         r.jobs = actors[i].jobs, r.at \in {"loop", "run"} => actors[i].at \in {"loop", "run"},
         r.drained => r.closed /\ r.jobs = <<>>,
         \/ current' = current /\ (r.at = "gone" <=> actors[i].at = "gone")
         \/ current' = 0 /\ r.at = "gone" /\ actors[i].at # "gone",
         UNCHANGED <<groupFaults, adders, executed>>
  PROVE  GroupInv'
<1>1. /\ actors' \in Seq(Actor) /\ DOMAIN actors' = DOMAIN actors /\ Len(actors') = Len(actors)
      /\ actors'[i] = r /\ \A j \in DOMAIN actors : j # i => actors'[j] = actors[j]
  BY ActorReplaced, Zenon DEF GroupInv, GroupTypeOK
<1>2. \A j \in DOMAIN actors : actors'[j].jobs = actors[j].jobs /\ (actors'[j].at \in {"loop", "run"} => actors[j].at \in {"loop", "run"})
  BY <1>1, Zenon
<1>3. GroupTypeOK'
  BY <1>1, <1>2 DEF GroupInv, GroupTypeOK
<1>4. AddersSound' /\ InOrder'
  BY Zenon DEF GroupInv, AddersSound, InOrder
<1>5. ActorsSound'
  <2>1. ActorsSound
    BY Zenon DEF GroupInv
  <2>2. ASSUME NEW j \in DOMAIN actors' PROVE actors'[j].at # "gone" => current' = j
    BY <1>1, <2>1, <2>2, Zenon DEF ActorsSound
  <2>3. ASSUME NEW j \in DOMAIN actors' PROVE actors'[j].drained => actors'[j].closed /\ actors'[j].jobs = <<>>
    BY <1>1, <2>1, <2>3, Zenon DEF ActorsSound
  <2> QED BY <2>2, <2>3, Zenon DEF ActorsSound
<1>6. JobsSound'
  <2>1. ASSUME NEW j \in DOMAIN actors, QueuedSound(j) PROVE QueuedSound(j)'
    <3>1. actors'[j].jobs = actors[j].jobs /\ adders' = adders /\ executed' = executed
      BY <1>2, Zenon
    <3> QED BY <2>1, <3>1 DEF QueuedSound, Precedes
  <2> QED BY <1>1, <1>2, <2>1, Zenon DEF GroupInv, JobsSound
<1> QED BY <1>3, <1>4, <1>5, <1>6, Zenon DEF GroupInv

\* A new actor comes into the map only when there is none, so all earlier ones have gone.
LEMMA CreateKeeps ==
  ASSUME GroupInv, NEW c \in Adders, Create(c) PROVE GroupInv'
<1> DEFINE a == [at |-> "send", actor |-> current', job |-> adders[c].job]
<1>0. GroupTypeOK /\ AddersSound /\ ActorsSound /\ JobsSound /\ InOrder /\ adders[c] \in Adder
  BY Zenon DEF GroupInv, GroupTypeOK
<1>1. adders[c].at = "create" /\ adders[c].job \in 1..JobsEach + 1 /\ adders[c].job <= JobsEach
  BY <1>0, Zenon DEF Create, AddersSound, Adder
<1>2. adders' = [adders EXCEPT ![c] = a] /\ groupFaults' = groupFaults /\ executed' = executed
  BY Zenon DEF Create
<1>3. CASE current # 0
  <2>1. current' = current /\ actors' = actors
    BY <1>3, Zenon DEF Create
  <2>2. current \in Nat /\ current <= Len(actors)
    BY <1>0 DEF GroupTypeOK
  <2>3. a \in Adder
    BY <1>1, <2>1, <2>2, Zenon DEF Adder
  <2>4. a.job = adders[c].job /\ a.actor = current /\ a.at = "send"
    BY <2>1, Zenon
  <2> QED BY <1>1, <1>2, <1>3, <2>1, <2>2, <2>3, <2>4, AdderMoves, Zenon
<1>4. CASE current = 0
  <2>1. actors' = Append(actors, NewActor) /\ current' = Len(actors) + 1
    BY <1>4, Zenon DEF Create
  <2>2. NewActor \in Actor /\ Len(NewActor.jobs) = 0 /\ DOMAIN NewActor.jobs = {}
    BY DEF NewActor, Actor
  <2>3. /\ actors' \in Seq(Actor) /\ Len(actors) \in Nat /\ Len(actors') = Len(actors) + 1
        /\ DOMAIN actors' = 1..Len(actors) + 1 /\ DOMAIN actors = 1..Len(actors)
        /\ actors'[Len(actors) + 1] = NewActor
        /\ \A j \in DOMAIN actors : actors'[j] = actors[j]
    BY <1>0, <2>1, <2>2 DEF GroupTypeOK
  <2>4. a \in Adder
    BY <1>1, <2>1, <2>3 DEF Adder
  <2>5. /\ adders' \in [Adders -> Adder] /\ adders'[c] = a
        /\ \A d \in Adders : d # c => adders'[d] = adders[d]
    BY <1>0, <1>2, <2>4, Zenon DEF GroupTypeOK
  <2>6. \A d \in Adders : adders'[d].job = adders[d].job
    BY <2>5
  <2>7. GroupTypeOK'
    <3>1. \A j \in DOMAIN actors' : Len(actors'[j].jobs) <= MaxElements
      <4>1. \A j \in DOMAIN actors : Len(actors'[j].jobs) <= MaxElements
        BY <1>0, <2>3, Zenon DEF GroupTypeOK
      <4>2. Len(NewActor.jobs) <= MaxElements
        BY <2>2, GroupBounds
      <4>3. \A j \in DOMAIN actors' : j \in DOMAIN actors \/ j = Len(actors) + 1
        BY <2>3
      <4> QED BY <2>3, <4>1, <4>2, <4>3, Zenon
    <3>2. \A d \in Adders : adders'[d].actor <= Len(actors')
      <4>1. \A d \in Adders : adders[d].actor <= Len(actors) /\ adders[d].actor \in Nat
        BY <1>0, Zenon DEF GroupTypeOK, Adder
      <4> QED BY <2>1, <2>3, <2>5, <4>1
    <3>3. current' \in 0..Len(actors')
      BY <2>1, <2>3
    <3> QED BY <1>0, <1>2, <2>3, <2>5, <3>1, <3>2, <3>3, Zenon DEF GroupTypeOK
  <2>8. AddersSound'
    BY <1>0, <1>1, <2>1, <2>3, <2>5 DEF AddersSound
  <2>9. ActorsSound'
    <3>1. \A j \in DOMAIN actors : actors[j].at = "gone"
      BY <1>0, <1>4, <2>3 DEF ActorsSound
    <3> QED BY <1>0, <2>1, <2>3, <3>1 DEF ActorsSound, NewActor
  <2>10. JobsSound'
    <3>1. \A j \in DOMAIN actors : actors'[j].at = "gone"
      BY <1>0, <1>4, <2>3 DEF ActorsSound
    <3>2. ASSUME NEW k, k = Len(actors) + 1 PROVE QueuedSound(k)'
      <4>1. DOMAIN actors'[k].jobs = {}
        BY <2>2, <2>3, <3>2, Zenon
      <4> QED BY <4>1, Zenon DEF QueuedSound
    <3>3. \A n \in DOMAIN executed' : executed'[n][2] < adders'[executed'[n][1]].job
      <4>1. \A n \in DOMAIN executed : executed[n][1] \in Adders
        BY <1>0 DEF GroupTypeOK, Job
      <4> QED BY <1>0, <1>2, <2>6, <4>1, Zenon DEF JobsSound
    <3>4. \A j \in DOMAIN actors' : actors'[j].at \in {"loop", "run"} => QueuedSound(j)'
      <4>1. \A j \in DOMAIN actors' : j \in DOMAIN actors \/ j = Len(actors) + 1
        BY <2>3
      <4>2. "gone" \notin {"loop", "run"}
        BY Zenon
      <4> QED BY <3>1, <3>2, <4>1, <4>2, Zenon
    <3> QED BY <3>3, <3>4, Zenon DEF JobsSound
  <2>11. InOrder'
    BY <1>0, <1>2, Zenon DEF InOrder
  <2> QED BY <2>7, <2>8, <2>9, <2>10, <2>11, Zenon DEF GroupInv
<1> QED BY <1>3, <1>4, Zenon

\* A channel in order stays in order with a job that is the next of its connection.
LEMMA QueueGrows ==
  ASSUME NEW i, NEW q \in Seq(Job), NEW b \in Job, actors[i].jobs = q, actors'[i].jobs = Append(q, b),
         executed' = executed, QueuedSound(i), \A n \in DOMAIN executed : Precedes(executed[n], b),
         \A d \in Adders : adders[d].job \in Nat /\ adders'[d].job \in Nat /\ adders[d].job <= adders'[d].job,
         b[2] = adders[b[1]].job, b[2] < adders'[b[1]].job
  PROVE  QueuedSound(i)'
<1> DEFINE l == Append(q, b)
<1>1. /\ l \in Seq(Job) /\ Len(q) \in Nat /\ DOMAIN q = 1..Len(q) /\ DOMAIN l = 1..Len(q) + 1
      /\ l[Len(q) + 1] = b /\ \A m \in 1..Len(q) : l[m] = q[m] /\ q[m] \in Job
  BY Appended
<1>2. \A m \in DOMAIN l : m \in DOMAIN q \/ m = Len(q) + 1
  BY <1>1
<1>3. \A m \in DOMAIN q : q[m][1] \in Adders /\ q[m][2] \in Nat
  BY <1>1 DEF Job
<1>4. /\ \A m \in DOMAIN q : q[m][2] < adders[q[m][1]].job
      /\ \A m, n \in DOMAIN q : m < n => Precedes(q[m], q[n])
      /\ \A n \in DOMAIN executed, m \in DOMAIN q : Precedes(executed[n], q[m])
  BY Zenon DEF QueuedSound
<1>5. ASSUME NEW m \in DOMAIN q PROVE q[m][2] < adders'[q[m][1]].job
  <2>1. PICK d \in Adders : d = q[m][1]
    BY <1>3, Zenon
  <2>2. q[m][2] < adders[d].job /\ q[m][2] \in Nat
    BY <1>3, <1>4, <2>1, Zenon
  <2>3. adders[d].job \in Nat /\ adders'[d].job \in Nat /\ adders[d].job <= adders'[d].job
    BY Zenon
  <2>4. q[m][2] < adders'[d].job
    BY <2>2, <2>3
  <2> QED BY <2>1, <2>4, Zenon
<1>6. \A m \in DOMAIN l : l[m][2] < adders'[l[m][1]].job
  <2>1. \A m \in DOMAIN q : l[m] = q[m]
    BY <1>1, Zenon
  <2>2. l[Len(q) + 1] = b
    BY <1>1, Zenon
  <2> HIDE DEF l
  <2> QED BY <1>2, <1>5, <2>1, <2>2, Zenon
<1>7. ASSUME NEW m \in DOMAIN l, NEW n \in DOMAIN l, m < n PROVE Precedes(l[m], l[n])
  <2>1. m \in DOMAIN q
    BY <1>1, <1>7
  <2>2. Precedes(q[m], b)
    BY <1>4, <2>1, Zenon DEF Precedes
  <2> QED BY <1>1, <1>2, <1>4, <1>7, <2>1, <2>2, Zenon
<1>8. \A n \in DOMAIN executed, m \in DOMAIN l : Precedes(executed[n], l[m])
  BY <1>1, <1>2, <1>4, Zenon
<1> QED BY <1>6, <1>7, <1>8, Zenon DEF QueuedSound

\* A job that is sent is later than all of its connection that were sent before.
LEMMA SendJob ==
  ASSUME GroupInv, NEW c \in Adders, NEW i \in DOMAIN actors, i = adders[c].actor, NEW b, b = <<c, adders[c].job>>,
         adders[c].at = "send", adders[c].job \in 1..JobsEach,
         ~actors[i].closed, Len(actors[i].jobs) < MaxElements,
         actors' = [actors EXCEPT ![i].jobs = Append(@, b)],
         adders' = [adders EXCEPT ![c] = [at |-> "start", actor |-> i, job |-> @.job + 1]],
         groupFaults' = groupFaults, current' = current, executed' = executed
  PROVE  GroupInv'
<1>0. /\ GroupTypeOK /\ AddersSound /\ ActorsSound /\ JobsSound /\ InOrder
        /\ adders[c] \in Adder /\ adders \in [Adders -> Adder] /\ i \in Nat /\ i <= Len(actors)
  BY Zenon DEF GroupInv, GroupTypeOK, Adder
<1> DEFINE q == actors[i].jobs
           r == [actors[i] EXCEPT !.jobs = Append(q, b)]
           a == [at |-> "start", actor |-> i, job |-> adders[c].job + 1]
<1> HIDE DEF q, r, a
<1>1. q \in Seq(Job) /\ actors[i] \in Actor /\ \A m \in DOMAIN q : q[m] \in Job /\ q[m][1] \in Adders
  BY <1>0, JobsTyped, Zenon DEF q
<1>2. b \in Job /\ b[1] = c /\ b[2] = adders[c].job
  BY Zenon DEF Job
<1>3. /\ Append(q, b) \in Seq(Job) /\ Len(q) \in Nat /\ Len(Append(q, b)) = Len(q) + 1
      /\ DOMAIN q = 1..Len(q) /\ DOMAIN Append(q, b) = 1..Len(q) + 1
      /\ Append(q, b)[Len(q) + 1] = b /\ \A m \in 1..Len(q) : Append(q, b)[m] = q[m]
  BY <1>1, <1>2, Appended
<1>4. /\ r \in Actor /\ r.jobs = Append(q, b) /\ r.at = actors[i].at
      /\ r.drained = actors[i].drained /\ r.closed = actors[i].closed
  BY <1>1, <1>3, Zenon DEF Actor, r
<1>5. /\ actors' \in Seq(Actor) /\ DOMAIN actors' = DOMAIN actors /\ Len(actors') = Len(actors)
      /\ actors'[i] = r /\ \A j \in DOMAIN actors : j # i => actors'[j] = actors[j]
  <2>1. actors' = [actors EXCEPT ![i] = r]
    BY Zenon DEF r, q
  <2>2. actors \in Seq(Actor)
    BY <1>0, Zenon DEF GroupTypeOK
  <2>3. r \in Actor
    BY <1>4, Zenon
  <2> QED BY <2>1, <2>2, <2>3, ActorReplaced, Zenon
<1>6. a \in Adder
  <2>1. adders[c].job + 1 \in 1..JobsEach + 1
    BY GroupBounds
  <2> QED BY <1>0, <2>1, Zenon DEF Adder, a
<1>7. /\ adders' \in [Adders -> Adder] /\ adders'[c] = a
      /\ \A d \in Adders : d # c => adders'[d] = adders[d]
  BY <1>0, <1>6, Zenon DEF a
<1>8. /\ adders'[c].job = adders[c].job + 1
      /\ \A d \in Adders : adders[d].job \in Nat /\ adders'[d].job \in Nat /\ adders[d].job <= adders'[d].job
  <2>1. adders'[c].job = adders[c].job + 1
    BY <1>7, Zenon DEF a
  <2>2. \A x \in Adder : x.job \in Nat
    BY GroupBounds DEF Adder
  <2>3. \A d \in Adders : adders[d].job \in Nat /\ adders'[d].job \in Nat
    BY <1>0, <1>7, <2>2, Zenon
  <2>4. \A d \in Adders : adders[d].job <= adders'[d].job
    BY <1>7, <2>1, <2>3
  <2> QED BY <2>1, <2>3, <2>4, Zenon
<1>9. GroupTypeOK'
  <2>1. \A j \in DOMAIN actors' : Len(actors'[j].jobs) <= MaxElements
    <3>1. Len(q) < MaxElements /\ \A j \in DOMAIN actors : Len(actors[j].jobs) <= MaxElements
      BY <1>0, Zenon DEF GroupTypeOK, q
    <3> QED BY <1>3, <1>4, <1>5, <3>1, GroupBounds
  <2>2. \A d \in Adders : adders'[d].actor <= Len(actors')
    BY <1>0, <1>5, <1>7, Zenon DEF GroupTypeOK, a
  <2> QED BY <1>0, <1>5, <1>7, <2>1, <2>2, Zenon DEF GroupTypeOK
<1>10. AddersSound'
  BY <1>0, <1>7, Zenon DEF AddersSound, a
<1>11. ActorsSound'
  BY <1>0, <1>4, <1>5 DEF ActorsSound
<1>12. \A n \in DOMAIN executed : /\ executed[n][1] \in Adders /\ executed[n][2] \in Nat
                                  /\ executed[n][2] < adders[executed[n][1]].job
  BY <1>0 DEF GroupTypeOK, Job, JobsSound
<1>13. \A n \in DOMAIN executed' : executed'[n][2] < adders'[executed'[n][1]].job
  BY <1>8, <1>12
<1>14. ASSUME NEW j \in DOMAIN actors, j # i, QueuedSound(j) PROVE QueuedSound(j)'
  <2>1. actors'[j].jobs = actors[j].jobs
    BY <1>5, <1>14, Zenon
  <2>2. \A m \in DOMAIN actors[j].jobs : actors[j].jobs[m][1] \in Adders /\ actors[j].jobs[m][2] \in Nat
    <3>1. \A m \in DOMAIN actors[j].jobs : actors[j].jobs[m] \in Job
      BY <1>0, <1>14, JobsTyped, Zenon
    <3> QED BY <3>1 DEF Job
  <2> QED BY <1>8, <1>14, <2>1, <2>2 DEF QueuedSound, Precedes
<1>15. ASSUME QueuedSound(i) PROVE QueuedSound(i)'
  <2>1. actors[i].jobs = q /\ actors'[i].jobs = Append(q, b)
    BY <1>4, <1>5, Zenon DEF q
  <2>2. \A n \in DOMAIN executed : Precedes(executed[n], b)
    BY <1>2, <1>12, Zenon DEF Precedes
  <2>3. b[2] = adders[b[1]].job /\ b[2] < adders'[b[1]].job
    <3>1. adders[c].job < adders'[c].job
      BY <1>8
    <3> QED BY <1>2, <3>1, Zenon
  <2> QED BY <1>1, <1>2, <1>8, <1>15, <2>1, <2>2, <2>3, QueueGrows, Zenon
<1>16. JobsSound'
  <2>1. \A j \in DOMAIN actors : actors'[j].at = actors[j].at
    BY <1>4, <1>5, Zenon
  <2>2. \A j \in DOMAIN actors : actors[j].at \in {"loop", "run"} => QueuedSound(j)
    BY <1>0, Zenon DEF JobsSound
  <2> QED BY <1>5, <1>13, <1>14, <1>15, <2>1, <2>2, Zenon DEF JobsSound
<1>17. InOrder'
  BY <1>0, Zenon DEF InOrder
<1> QED BY <1>9, <1>10, <1>11, <1>16, <1>17, Zenon DEF GroupInv

\* The send panics on a closed channel, or queues the job.
LEMMA SendKeeps ==
  ASSUME GroupInv, NEW c \in Adders, Send(c) PROVE GroupInv'
<1> DEFINE i == adders[c].actor
           b == <<c, adders[c].job>>
<1>0. /\ GroupTypeOK /\ AddersSound /\ ActorsSound /\ JobsSound /\ InOrder
      /\ adders[c] \in Adder /\ adders \in [Adders -> Adder]
  BY Zenon DEF GroupInv, GroupTypeOK
<1>1. /\ adders[c].at = "send" /\ adders[c].job \in 1..JobsEach /\ i \in DOMAIN actors
      /\ i \in Nat /\ i # 0 /\ i <= Len(actors)
  BY <1>0, GroupBounds DEF Send, AddersSound, Adder, GroupTypeOK
<1>2. groupFaults' = groupFaults /\ current' = current /\ executed' = executed
  BY Zenon DEF Send
<1>3. CASE actors[i].closed /\ adders' = [adders EXCEPT ![c].at = "panic"] /\ UNCHANGED actors
  <2> DEFINE a == [adders[c] EXCEPT !.at = "panic"]
  <2>1. adders' = [adders EXCEPT ![c] = a]
    BY <1>3, Zenon
  <2>2. a \in Adder /\ a.job = adders[c].job /\ a.actor <= Len(actors) /\ a.at = "panic"
    BY <1>0, <1>1, Zenon DEF Adder
  <2> QED BY <1>2, <1>3, <2>1, <2>2, AdderMoves, Zenon
<1>4. CASE /\ ~actors[i].closed /\ Len(actors[i].jobs) < MaxElements
           /\ actors' = [actors EXCEPT ![i].jobs = Append(@, b)]
           /\ adders' = [adders EXCEPT ![c] = [at |-> "start", actor |-> i, job |-> @.job + 1]]
  BY <1>1, <1>2, <1>4, SendJob, Zenon
<1> QED BY <1>3, <1>4, Zenon DEF Send

\* A job that begins is the first of the one actor whose goroutine is in its loop.
LEMMA RunKeeps ==
  ASSUME GroupInv, NEW i \in DOMAIN actors, Run(i) PROVE GroupInv'
<1> DEFINE q == actors[i].jobs
           r == [[actors[i] EXCEPT !.jobs = Tail(q)] EXCEPT !.at = "run"]
           e == Head(q)
<1>0. /\ GroupTypeOK /\ AddersSound /\ ActorsSound /\ JobsSound /\ InOrder
      /\ actors \in Seq(Actor) /\ executed \in Seq(Job)
  BY Zenon DEF GroupInv, GroupTypeOK
<1>1. /\ actors[i].at = "loop" /\ q # <<>> /\ executed' = Append(executed, e)
      /\ actors' = [actors EXCEPT ![i] = r]
      /\ groupFaults' = groupFaults /\ current' = current /\ adders' = adders
  BY Zenon DEF Run
<1> HIDE DEF q, r, e
<1>2. actors[i] \in Actor /\ q \in Seq(Job) /\ \A m \in DOMAIN q : q[m] \in Job /\ q[m][1] \in Adders
  BY <1>0, JobsTyped, Zenon DEF q
<1>3. /\ e \in Job /\ e = q[1] /\ Tail(q) \in Seq(Job) /\ Len(q) \in Nat /\ Len(q) > 0
      /\ Len(Tail(q)) = Len(q) - 1 /\ DOMAIN q = 1..Len(q) /\ DOMAIN Tail(q) = 1..Len(q) - 1
      /\ \A m \in 1..Len(q) - 1 : Tail(q)[m] = q[m + 1]
  BY <1>1, <1>2, Received DEF e
<1>4. /\ r \in Actor /\ r.jobs = Tail(q) /\ r.at = "run"
      /\ r.drained = actors[i].drained /\ r.closed = actors[i].closed
  BY <1>2, <1>3, Zenon DEF Actor, r
<1>5. /\ actors' \in Seq(Actor) /\ DOMAIN actors' = DOMAIN actors /\ Len(actors') = Len(actors)
      /\ actors'[i] = r /\ \A j \in DOMAIN actors : j # i => actors'[j] = actors[j]
  <2>1. r \in Actor
    BY <1>4, Zenon
  <2>2. actors \in Seq(Actor) /\ actors' = [actors EXCEPT ![i] = r]
    BY <1>0, <1>1, Zenon
  <2> QED BY <2>1, <2>2, ActorReplaced, Zenon
<1>6. /\ executed' \in Seq(Job) /\ Len(executed) \in Nat /\ DOMAIN executed = 1..Len(executed)
      /\ DOMAIN executed' = 1..Len(executed) + 1
      /\ executed'[Len(executed) + 1] = e /\ \A n \in 1..Len(executed) : executed'[n] = executed[n]
  BY <1>0, <1>1, <1>3, Appended
<1>7. QueuedSound(i)
  BY <1>0, <1>1, Zenon DEF JobsSound
<1>8. \A n \in DOMAIN executed' : n \in DOMAIN executed \/ n = Len(executed) + 1
  BY <1>6
<1>9. GroupTypeOK'
  <2>1. \A j \in DOMAIN actors' : Len(actors'[j].jobs) <= MaxElements
    <3>1. \A j \in DOMAIN actors : Len(actors[j].jobs) <= MaxElements
      BY <1>0, Zenon DEF GroupTypeOK
    <3>2. Len(q) <= MaxElements
      BY <3>1, Zenon DEF q
    <3> QED BY <1>3, <1>4, <1>5, <3>1, <3>2, GroupBounds
  <2> QED BY <1>0, <1>1, <1>5, <1>6, <2>1, Zenon DEF GroupTypeOK
<1>10. AddersSound'
  BY <1>0, <1>1, Zenon DEF AddersSound
<1>11. ActorsSound'
  <2>1. ~actors[i].drained
    BY <1>0, <1>1, Zenon DEF ActorsSound, q
  <2> QED BY <1>0, <1>1, <1>4, <1>5, <2>1, Zenon DEF ActorsSound
<1>12. \A n \in DOMAIN executed' : executed'[n][2] < adders'[executed'[n][1]].job
  <2>1. e[2] < adders[e[1]].job
    BY <1>3, <1>7 DEF QueuedSound, q
  <2>2. \A n \in DOMAIN executed : executed[n][2] < adders[executed[n][1]].job
    BY <1>0, Zenon DEF JobsSound
  <2> QED BY <1>1, <1>6, <1>8, <2>1, <2>2, Zenon
<1>13. \A n \in DOMAIN executed : Precedes(executed[n], e)
  BY <1>3, <1>7 DEF QueuedSound, q
<1>14. InOrder'
  <2>1. \A m, n \in DOMAIN executed : m < n => Precedes(executed[m], executed[n])
    BY <1>0, Zenon DEF InOrder, Precedes
  <2>2. ASSUME NEW m \in DOMAIN executed', NEW n \in DOMAIN executed', m < n
        PROVE  Precedes(executed'[m], executed'[n])
    <3>1. m \in DOMAIN executed
      BY <1>6, <2>2
    <3>2. \A k \in DOMAIN executed : executed'[k] = executed[k]
      BY <1>6, Zenon
    <3>3. CASE n \in DOMAIN executed
      BY <2>1, <2>2, <3>1, <3>2, <3>3, Zenon
    <3>4. CASE n = Len(executed) + 1
      BY <1>6, <1>13, <3>1, <3>2, <3>4, Zenon
    <3> QED BY <1>8, <3>3, <3>4, Zenon
  <2> QED BY <2>2, Zenon DEF InOrder, Precedes
<1>15. QueuedSound(i)'
  <2>1. actors'[i].jobs = Tail(q) /\ DOMAIN actors'[i].jobs = 1..Len(q) - 1
    BY <1>3, <1>4, <1>5, Zenon
  <2>2. \A m \in 1..Len(q) - 1 : m + 1 \in DOMAIN q /\ Tail(q)[m] = q[m + 1] /\ 1 \in DOMAIN q /\ 1 < m + 1
    BY <1>3
  <2>3. \A m \in 1..Len(q) - 1 : Tail(q)[m][2] < adders[Tail(q)[m][1]].job
    BY <1>7, <2>2, Zenon DEF QueuedSound, q
  <2>4. \A m, n \in 1..Len(q) - 1 : m < n => Precedes(Tail(q)[m], Tail(q)[n])
    <3>1. \A m, n \in 1..Len(q) - 1 : m < n => m + 1 < n + 1
      BY <1>3
    <3> QED BY <1>7, <2>2, <3>1, Zenon DEF QueuedSound, q
  <2>5. \A n \in DOMAIN executed' : \A m \in 1..Len(q) - 1 : Precedes(executed'[n], Tail(q)[m])
    <3>1. \A m \in 1..Len(q) - 1 : Precedes(e, Tail(q)[m])
      BY <1>3, <1>7, <2>2, Zenon DEF QueuedSound, q
    <3>2. \A n \in DOMAIN executed : \A m \in 1..Len(q) - 1 : Precedes(executed[n], Tail(q)[m])
      BY <1>7, <2>2, Zenon DEF QueuedSound, q
    <3> QED BY <1>6, <1>8, <3>1, <3>2, Zenon
  <2> QED BY <1>1, <2>1, <2>3, <2>4, <2>5, Zenon DEF QueuedSound
<1>16. \A j \in DOMAIN actors : j # i => actors[j].at \notin {"loop", "run"}
  BY <1>0, <1>1, Zenon DEF ActorsSound
<1>17. JobsSound'
  BY <1>5, <1>12, <1>15, <1>16, Zenon DEF JobsSound
<1> QED BY <1>9, <1>10, <1>11, <1>14, <1>17, Zenon DEF GroupInv

\* Add, Remove, Stop and the goroutine of an actor keep the inductive invariant.
LEMMA GroupStepInv == GroupInv /\ [GroupNext]_groupVars => GroupInv'
<1> SUFFICES ASSUME GroupInv, [GroupNext]_groupVars PROVE GroupInv'
  OBVIOUS
<1>0. GroupTypeOK /\ AddersSound /\ ActorsSound /\ current \in 0..Len(actors) /\ Len(actors) \in Nat
  BY DEF GroupInv, GroupTypeOK
<1>1. ASSUME NEW c \in Adders, Lookup(c) PROVE GroupInv'
  <2> DEFINE a == [at |-> IF current = 0 THEN "create" ELSE "send", actor |-> current, job |-> adders[c].job]
  <2>1. adders[c].job \in 1..JobsEach + 1 /\ adders[c].job <= JobsEach /\ current \in Nat /\ current <= Len(actors)
    BY <1>0, <1>1 DEF Lookup, GroupTypeOK, Adder
  <2>2. a \in Adder /\ a.job = adders[c].job /\ a.actor = current /\ (a.at = "send" => current # 0)
    BY <2>1, Zenon DEF Adder
  <2>3. adders' = [adders EXCEPT ![c] = a] /\ UNCHANGED <<groupFaults, current, actors, executed>>
    BY <1>1, Zenon DEF Lookup
  <2> HIDE DEF a
  <2> QED BY <2>1, <2>2, <2>3, AdderMoves, Zenon
<1>2. ASSUME NEW i \in DOMAIN actors, JobEnds(i) \/ Leave(i) \/ Cleanup(i) PROVE GroupInv'
  <2>1. actors[i] \in Actor /\ actors[i].jobs \in Seq(Job)
    BY <1>0, JobsTyped, Zenon
  <2>2. actors[i].drained => actors[i].closed /\ actors[i].jobs = <<>>
    BY <1>0, Zenon DEF ActorsSound
  <2>3. CASE JobEnds(i)
    <3> DEFINE r == [actors[i] EXCEPT !.at = "loop"]
    <3>1. /\ actors' = [actors EXCEPT ![i] = r] /\ actors[i].at = "run"
          /\ UNCHANGED <<groupFaults, current, adders, executed>>
      BY <2>3, Zenon DEF JobEnds
    <3>2. /\ r \in Actor /\ r.jobs = actors[i].jobs /\ r.at = "loop"
          /\ r.drained = actors[i].drained /\ r.closed = actors[i].closed
      BY <2>1, Zenon DEF Actor
    <3> HIDE DEF r
    <3> QED BY <2>2, <3>1, <3>2, ActorMoves, Zenon
  <2>4. CASE Leave(i)
    <3> DEFINE r == [[actors[i] EXCEPT !.at = "cleanup"] EXCEPT !.drained = Closed(i)]
    <3>1. /\ actors' = [actors EXCEPT ![i] = r] /\ actors[i].at = "loop"
          /\ UNCHANGED <<groupFaults, current, adders, executed>>
      BY <2>4, Zenon DEF Leave
    <3>2. actors[i].closed \in BOOLEAN /\ Closed(i) \in BOOLEAN
      BY <2>1, Zenon DEF Actor, Closed
    <3>3. /\ r \in Actor /\ r.jobs = actors[i].jobs /\ r.at = "cleanup"
          /\ r.drained = Closed(i) /\ r.closed = actors[i].closed
      BY <2>1, <3>2, Zenon DEF Actor
    <3>4. r.drained => r.closed /\ r.jobs = <<>>
      BY <3>3, Zenon DEF Closed
    <3> HIDE DEF r
    <3> QED BY <3>1, <3>3, <3>4, ActorMoves, Zenon
  <2>5. CASE Cleanup(i)
    <3> DEFINE r == [actors[i] EXCEPT !.at = "gone"]
    <3>1. /\ actors' = [actors EXCEPT ![i] = r] /\ actors[i].at = "cleanup" /\ current' = 0
          /\ UNCHANGED <<groupFaults, adders, executed>>
      BY <2>5, Zenon DEF Cleanup
    <3>2. /\ r \in Actor /\ r.jobs = actors[i].jobs /\ r.at = "gone"
          /\ r.drained = actors[i].drained /\ r.closed = actors[i].closed
      BY <2>1, Zenon DEF Actor
    <3> HIDE DEF r
    <3> QED BY <2>2, <3>1, <3>2, ActorMoves, Zenon
  <2> QED BY <1>2, <2>3, <2>4, <2>5, Zenon
<1>3. CASE Remove
  <2> DEFINE r == [actors[current] EXCEPT !.closed = TRUE]
  <2>1. current \in DOMAIN actors
    BY <1>0, <1>3 DEF Remove, GroupTypeOK
  <2>2. actors[current] \in Actor
    BY <1>0, <2>1, JobsTyped, Zenon
  <2>3. actors' = [actors EXCEPT ![current] = r] /\ UNCHANGED <<groupFaults, current, adders, executed>>
    BY <1>3, Zenon DEF Remove
  <2>4. /\ r \in Actor /\ r.jobs = actors[current].jobs /\ r.at = actors[current].at
        /\ r.drained = actors[current].drained /\ r.closed
    BY <2>2, Zenon DEF Actor
  <2>5. actors[current].drained => actors[current].jobs = <<>>
    BY <1>0, <2>1, Zenon DEF ActorsSound
  <2> HIDE DEF r
  <2> QED BY <2>1, <2>3, <2>4, <2>5, ActorMoves, Zenon
<1>4. CASE UNCHANGED groupVars
  BY <1>4, Zenon DEF groupVars, GroupInv, GroupTypeOK, AddersSound, ActorsSound, JobsSound, QueuedSound, InOrder
<1> QED
  BY <1>1, <1>2, <1>3, <1>4, CreateKeeps, SendKeeps, RunKeeps, Zenon DEF GroupNext, GroupStep

\* The group's invariant holds whatever interleaving of adders, actors, Remove and Stop.
THEOREM GroupInductive == GroupSpec => []GroupInv
  BY GroupInitInv, GroupStepInv, PTL DEF GroupSpec

\* The jobs of a key never overlap, those of a connection begin in the order it read them,
\* each once, and an actor that was stopped runs all it has taken, also across actors that
\* go and come anew.
THEOREM GroupsKeepOrder == GroupSpec => []OrderKept
<1>1. GroupInv => OrderKept
  <2> SUFFICES ASSUME GroupInv PROVE OrderKept
    OBVIOUS
  <2>1. Serial
    BY Zenon DEF GroupInv, ActorsSound, Serial
  <2>2. StoppedDrains
    BY Zenon DEF GroupInv, ActorsSound, StoppedDrains
  <2> QED BY <2>1, <2>2, Zenon DEF GroupInv, OrderKept
<1> QED BY <1>1, GroupInductive, PTL
=============================================================================

----------------------------- MODULE KeepOrder ------------------------------
(***************************************************************************)
(* The ordered groups of keep-order requests (internal/keeporder/actor):   *)
(* an actor per key, a goroutine that runs the jobs of its channel one     *)
(* after the other and goes away when it is idle or stopped.  Every adder  *)
(* is the reader of a connection, which adds the requests it reads in      *)
(* order (handleKeepOrderPreDecode, handleKeepOrderPreUnmarshal of         *)
(* transport/server_transport_tcp.go).                                     *)
(***************************************************************************)
EXTENDS Integers, Sequences

CONSTANTS
  Adders,      \* connections that read requests of one key
  JobsEach,    \* requests each of them reads
  MaxElements, \* capacity of the channel of jobs
  GroupFaults  \* sets of: "idle" (the timeout passes), "stop" (Remove or Stop)

ASSUME GroupBounds == JobsEach \in Nat /\ MaxElements \in Nat

VARIABLES
  groupFaults, \* what may happen in this behaviour
  current,     \* the actor in the map, 0: none
  actors,      \* all actors ever made, by number
  adders,      \* where each adder is in Add
  executed     \* the jobs that were run, in the order they began

groupVars == <<groupFaults, current, actors, adders, executed>>

Job == Adders \X (1..JobsEach)
Actor == [jobs : Seq(Job), closed : BOOLEAN, at : {"loop", "run", "cleanup", "gone"},
          drained : BOOLEAN]
Adder == [at : {"start", "create", "send", "panic"}, actor : Nat, job : 1..JobsEach + 1]

GroupTypeOK ==
  /\ groupFaults \in GroupFaults
  /\ current \in 0..Len(actors)
  /\ actors \in Seq(Actor) /\ \A i \in DOMAIN actors : Len(actors[i].jobs) <= MaxElements
  /\ adders \in [Adders -> Adder] /\ \A c \in Adders : adders[c].actor <= Len(actors)
  /\ executed \in Seq(Job)

GroupInit ==
  /\ groupFaults \in GroupFaults
  /\ current = 0 /\ actors = <<>> /\ executed = <<>>
  /\ adders = [c \in Adders |-> [at |-> "start", actor |-> 0, job |-> 1]]

NewActor == [jobs |-> <<>>, closed |-> FALSE, at |-> "loop", drained |-> FALSE]
-----------------------------------------------------------------------------
(* Actors.Add: the lookup, the creation under the lock, the send.          *)

Lookup(c) ==
  /\ adders[c].at = "start" /\ adders[c].job <= JobsEach
  /\ adders' = [adders EXCEPT ![c] = [at |-> IF current = 0 THEN "create" ELSE "send", actor |-> current, job |-> @.job]]
  /\ UNCHANGED <<groupFaults, current, actors, executed>>

\* Mutant: without the double check.
CreateUnchecked(c) ==
  /\ adders[c].at = "create"
  /\ actors' = Append(actors, NewActor) /\ current' = Len(actors) + 1
  /\ adders' = [adders EXCEPT ![c] = [at |-> "send", actor |-> current', job |-> @.job]]
  /\ UNCHANGED <<groupFaults, executed>>
Create(c) ==
  /\ adders[c].at = "create"
  /\ IF current # 0 THEN UNCHANGED <<current, actors>>
     ELSE actors' = Append(actors, NewActor) /\ current' = Len(actors) + 1
  /\ adders' = [adders EXCEPT ![c] = [at |-> "send", actor |-> current', job |-> @.job]]
  /\ UNCHANGED <<groupFaults, executed>>

\* The send blocks while the channel is full, and panics when it was closed.
Send(c) ==
  LET i == adders[c].actor IN
  /\ adders[c].at = "send"
  /\ \/ /\ actors[i].closed
        /\ adders' = [adders EXCEPT ![c].at = "panic"] /\ UNCHANGED actors
     \/ /\ ~actors[i].closed /\ Len(actors[i].jobs) < MaxElements
        /\ actors' = [actors EXCEPT ![i].jobs = Append(@, <<c, adders[c].job>>)]
        /\ adders' = [adders EXCEPT ![c] = [at |-> "start", actor |-> i, job |-> @.job + 1]]
  /\ UNCHANGED <<groupFaults, current, executed>>

\* Remove and Stop close the channel of the actor in the map.
Remove ==
  /\ "stop" \in groupFaults /\ current # 0
  /\ actors' = [actors EXCEPT ![current].closed = TRUE]
  /\ UNCHANGED <<groupFaults, current, adders, executed>>
-----------------------------------------------------------------------------
(* The goroutine of an actor.                                              *)

\* It takes a job and runs it.
Run(i) ==
  /\ actors[i].at = "loop" /\ actors[i].jobs # <<>>
  /\ executed' = Append(executed, Head(actors[i].jobs))
  /\ actors' = [actors EXCEPT ![i] = [[actors[i] EXCEPT !.jobs = Tail(actors[i].jobs)] EXCEPT !.at = "run"]]
  /\ UNCHANGED <<groupFaults, current, adders>>

JobEnds(i) ==
  /\ actors[i].at = "run" /\ actors' = [actors EXCEPT ![i].at = "loop"]
  /\ UNCHANGED <<groupFaults, current, adders, executed>>

\* A closed channel still gives the jobs it holds.
Closed(i) == actors[i].closed /\ actors[i].jobs = <<>>

\* It leaves when the channel is closed and empty, or when the idle timer fires, which
\* the select may prefer to a job that has just come.
Leave(i) ==
  /\ actors[i].at = "loop" /\ (Closed(i) \/ "idle" \in groupFaults)
  /\ actors' = [actors EXCEPT ![i] = [[@ EXCEPT !.at = "cleanup"] EXCEPT !.drained = Closed(i)]]
  /\ UNCHANGED <<groupFaults, current, adders, executed>>

\* The cleanup function deletes the key from the map.
Cleanup(i) ==
  /\ actors[i].at = "cleanup"
  /\ actors' = [actors EXCEPT ![i].at = "gone"] /\ current' = 0
  /\ UNCHANGED <<groupFaults, adders, executed>>

GroupStep ==
  \/ \E c \in Adders : Lookup(c) \/ Create(c) \/ Send(c)
  \/ \E i \in DOMAIN actors : Run(i) \/ JobEnds(i) \/ Leave(i) \/ Cleanup(i)

GroupNext == GroupStep \/ Remove

GroupSpec == GroupInit /\ [][GroupNext]_groupVars
-----------------------------------------------------------------------------
\* The jobs of a key never run at the same time: an actor is replaced in the map only
\* after its goroutine has left the loop, though Add and Remove hold no lock while they
\* use the actor they found.
Serial ==
  /\ \A i, j \in DOMAIN actors : i # j => actors[i].at \notin {"loop", "run"} \/ actors[j].at \notin {"loop", "run"}
  /\ \A i \in DOMAIN actors : actors[i].at \in {"loop", "run", "cleanup"} => current = i

\* The requests of a connection begin in the order it read them, even across actors, and
\* none begins twice.
InOrder ==
  \A i, j \in DOMAIN executed :
    i < j /\ executed[i][1] = executed[j][1] => executed[i][2] < executed[j][2]

\* A request is lost only in an actor that left because it was idle: one that was
\* stopped runs all it was given.
StoppedDrains ==
  \A i \in DOMAIN actors : actors[i].drained => actors[i].jobs = <<>>

\* Jobs of a key never overlap and begin in the order of their connection, and a stopped
\* actor runs all it has taken.
OrderKept == GroupTypeOK /\ Serial /\ InOrder /\ StoppedDrains

\* Unless an actor times out, every request that is added is run in the end, however
\* small the channel is: a stop makes the readers panic but loses nothing.
JobsRun ==
  "idle" \notin groupFaults =>
    /\ \A c \in Adders : adders[c].job > JobsEach \/ adders[c].at = "panic"
    /\ \A c \in Adders : \A n \in 1..adders[c].job - 1 : \E i \in DOMAIN executed : executed[i] = <<c, n>>
-----------------------------------------------------------------------------
(* The inductive strengthening of OrderKept.                               *)

\* An adder has an actor when it sends, and one of its jobs in hand.
AddersSound ==
  \A c \in Adders :
    /\ adders[c].at = "send" => adders[c].actor # 0
    /\ adders[c].at \in {"create", "send"} => adders[c].job <= JobsEach

\* The actor in the map is the one whose goroutine has not gone, and one that was stopped
\* and left has nothing and gets nothing.
ActorsSound ==
  \A i \in DOMAIN actors :
    /\ actors[i].at # "gone" => current = i
    /\ actors[i].drained => actors[i].closed /\ actors[i].jobs = <<>>

\* The jobs that an actor will run are later than those that were run and earlier than
\* the one their connection adds next, and they are in order.
Precedes(j, k) == j[1] = k[1] => j[2] < k[2]
QueuedSound(i) ==
  /\ \A m \in DOMAIN actors[i].jobs : actors[i].jobs[m][2] < adders[actors[i].jobs[m][1]].job
  /\ \A m, n \in DOMAIN actors[i].jobs : m < n => Precedes(actors[i].jobs[m], actors[i].jobs[n])
  /\ \A n \in DOMAIN executed, m \in DOMAIN actors[i].jobs : Precedes(executed[n], actors[i].jobs[m])
JobsSound ==
  /\ \A n \in DOMAIN executed : executed[n][2] < adders[executed[n][1]].job
  /\ \A i \in DOMAIN actors : actors[i].at \in {"loop", "run"} => QueuedSound(i)

GroupInv == GroupTypeOK /\ AddersSound /\ ActorsSound /\ JobsSound /\ InOrder
=============================================================================

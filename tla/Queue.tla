------------------------------- MODULE Queue --------------------------------
(***************************************************************************)
(* internal/queue/queue.go: an infinite queue whose Get blocks.  Putters   *)
(* run concurrently with each other and with the one getter the code       *)
(* allows.  A critical section under q.mu is one step; the select on       *)
(* notify and done, and the send on notify after Put has unlocked, are     *)
(* steps of their own.                                                     *)
(***************************************************************************)
EXTENDS Naturals, Sequences

CONSTANTS Putters,   \* goroutines that call Put
          Value,     \* the elements they put
          MaxLen     \* bound: Put is not called while MaxLen elements are queued

VARIABLES list,      \* q.list
          notify,    \* the one slot of q.notify is full
          waiting,   \* q.waiting
          done,      \* q.done is closed
          wakeUp,    \* per putter: its local wakeUp, between unlock and select
          getter,    \* "idle" | "get" | "select" | "drain"
          result     \* what Get returned and the caller has not taken yet

queueVars == <<list, notify, waiting, done, wakeUp, getter, result>>

Abs == INSTANCE QueueAbs WITH items <- list

NoResult == "none"
NotOk == "false"

QueueTypeOK ==
  /\ list \in Seq(Value)
  /\ notify \in BOOLEAN
  /\ waiting \in BOOLEAN
  /\ done \in BOOLEAN
  /\ wakeUp \in [Putters -> BOOLEAN]
  /\ getter \in {"idle", "get", "select", "drain"}
  /\ result \in Value \cup {NoResult, NotOk}

\* New: an empty list, an empty one-slot notify channel, done still open.
QueueInit ==
  /\ list = <<>> /\ notify = FALSE /\ waiting = FALSE /\ done = FALSE
  /\ wakeUp = [p \in Putters |-> FALSE]
  /\ getter = "idle" /\ result = NoResult

\* Put under the lock: remember whether a Get announced that it waits,
\* withdraw the announcement, append.
PutLocked(p, v) ==
  /\ ~wakeUp[p]
  /\ Len(list) < MaxLen
  /\ wakeUp' = [wakeUp EXCEPT ![p] = waiting]
  /\ waiting' = FALSE
  /\ list' = Append(list, v)
  /\ UNCHANGED <<notify, done, getter, result>>

\* Mutant: the send on notify is lost.
PutNotifyDropped(p) ==
  /\ wakeUp[p]
  /\ wakeUp' = [wakeUp EXCEPT ![p] = FALSE]
  /\ UNCHANGED <<list, notify, waiting, done, getter, result>>

\* Put after the unlock: a send on notify that drops the token when full.
PutNotify(p) ==
  /\ wakeUp[p]
  /\ notify' = TRUE
  /\ wakeUp' = [wakeUp EXCEPT ![p] = FALSE]
  /\ UNCHANGED <<list, waiting, done, getter, result>>

GetCall ==
  /\ getter = "idle"
  /\ getter' = "get" /\ result' = NoResult
  /\ UNCHANGED <<list, notify, waiting, done, wakeUp>>

\* Under the lock: take the front element and return it.
TakeFront ==
  /\ list # <<>>
  /\ result' = Head(list) /\ list' = Tail(list)
  /\ getter' = "idle"
  /\ UNCHANGED <<notify, waiting, done, wakeUp>>

\* Mutant: Get goes to its select without announcing itself.
GetLockedUnannounced ==
  /\ getter = "get"
  /\ \/ TakeFront
     \/ /\ list = <<>>
        /\ getter' = "select"
        /\ UNCHANGED <<list, notify, waiting, done, wakeUp, result>>

\* The loop body: an element, or announce that this Get waits.
GetLocked ==
  /\ getter = "get"
  /\ \/ TakeFront
     \/ /\ list = <<>>
        /\ waiting' = TRUE /\ getter' = "select"
        /\ UNCHANGED <<list, notify, done, wakeUp, result>>

SelectNotify ==
  /\ getter = "select" /\ notify
  /\ notify' = FALSE /\ getter' = "get"
  /\ UNCHANGED <<list, waiting, done, wakeUp, result>>

SelectDone ==
  /\ getter = "select" /\ done
  /\ getter' = "drain"
  /\ UNCHANGED <<list, notify, waiting, done, wakeUp, result>>

\* Mutant: done makes Get give up without looking at the list again.
DrainLockedBlindly ==
  /\ getter = "drain"
  /\ waiting' = FALSE /\ getter' = "idle" /\ result' = NotOk
  /\ UNCHANGED <<list, notify, done, wakeUp>>

\* After done: one more look at the list before giving up.
DrainLocked ==
  /\ getter = "drain"
  /\ \/ TakeFront
     \/ /\ list = <<>>
        /\ waiting' = FALSE /\ getter' = "idle" /\ result' = NotOk
        /\ UNCHANGED <<list, notify, done, wakeUp>>

\* The owner closes done (a context is cancelled).
CloseDone ==
  /\ ~done
  /\ done' = TRUE
  /\ UNCHANGED <<list, notify, waiting, wakeUp, getter, result>>

Put == \E p \in Putters : (\E v \in Value : PutLocked(p, v)) \/ PutNotify(p)
Get == GetLocked \/ SelectNotify \/ SelectDone \/ DrainLocked

QueueNext == Put \/ GetCall \/ Get \/ CloseDone

\* A goroutine inside Put or Get keeps running; nobody is obliged to call
\* Put, to call Get again or to close done.
QueueStep == Get \/ \E p \in Putters : PutNotify(p)

QueueSpec == QueueInit /\ [][QueueNext]_queueVars
-----------------------------------------------------------------------------
\* No wake-up is lost: while Get sits in its select and something is queued,
\* the token is in notify or some Put is on its way to send it.
NoLostWakeUp ==
  getter = "select" /\ list # <<>> => notify \/ \E p \in Putters : wakeUp[p]

\* The strengthening that makes NoLostWakeUp inductive: a Get in its select
\* either still stands announced on an empty list, or a token is under way.
\* Get looks at the list for the last time only after done is closed.
QueueInv ==
  /\ QueueTypeOK
  /\ getter = "drain" => done
  /\ getter = "select" =>
       \/ waiting /\ list = <<>>
       \/ notify
       \/ \E p \in Putters : wakeUp[p]

\* The queue is the abstract FIFO: Put and Get linearise at their critical
\* sections, and Get reports false only when done is closed and nothing is
\* queued (the promise in Get's comment).
ImplementsFIFO == Abs!ASpec

\* A Get that runs while something is queued, or after done, returns: it
\* never sleeps in select on a queue that has something for it.
GetReturned == ~(getter # "idle" /\ (list # <<>> \/ done))
=============================================================================

------------------------------ MODULE QueueAbs ------------------------------
(***************************************************************************)
(* What internal/queue promises: an unbounded FIFO.  Put appends, Get      *)
(* takes the oldest element, and Get gives up only after done is closed,   *)
(* and only while nothing is queued.                                       *)
(***************************************************************************)
EXTENDS Naturals, Sequences

CONSTANT Value

VARIABLES items,   \* the queued elements, oldest first
          done,    \* the done channel is closed
          result   \* what the last Get returned: a value, or "none" / "false"

absVars == <<items, done, result>>

NoResult == "none"
NotOk == "false"

AInit == items = <<>> /\ done = FALSE /\ result = NoResult

APut(v) == items' = Append(items, v) /\ UNCHANGED <<done, result>>

AGet ==
  /\ items # <<>>
  /\ result' = Head(items)
  /\ items' = Tail(items)
  /\ UNCHANGED done

AGiveUp ==
  /\ done /\ items = <<>>
  /\ result' = NotOk
  /\ UNCHANGED <<items, done>>

ADone == done' = TRUE /\ UNCHANGED <<items, result>>

\* The caller of Get takes the result away before it calls again.
ATake == result' = NoResult /\ UNCHANGED <<items, done>>

ANext == (\E v \in Value : APut(v)) \/ AGet \/ AGiveUp \/ ADone \/ ATake

ASpec == AInit /\ [][ANext]_absVars
=============================================================================

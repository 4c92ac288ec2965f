----------------------------- MODULE MCWaiting -----------------------------
(* Two places where a caller is made to wait: SendMsg for the window of its *)
(* stream and Get for a token of its connection pool.  They share no state, *)
(* so a behaviour is about one of them, the one that the variable part     *)
(* names.                                                                  *)
EXTENDS FlowControl

CONSTANTS User, Conn, NoConn, MinIdle, MaxIdle, MaxActive, Wait, ForceClose, PushToTail, MaxUsed

VARIABLES
  part,
  closed, idle, idleSize, tokens, used, lastGet, registered, open, upc, uconn, ioErr, victim,
  cpc, cconn, cleft, detached, topUp, adding, added

\* Small and large messages: an empty one, and one larger than the whole window.
MCMsg == {"empty", "small", "big"}
MCWireSize == [m \in MCMsg |-> CASE m = "empty" -> 0 [] m = "small" -> 1 [] m = "big" -> 9]

Pool == INSTANCE ConnPool
connPoolVars ==
  <<closed, idle, idleSize, tokens, used, lastGet, registered, open, upc, uconn, ioErr, victim,
    cpc, cconn, cleft, detached, topUp, adding, added>>
allVars == <<part, vars, connPoolVars>>

WaitingInit ==
  /\ Init /\ Pool!Init
  /\ \/ part = "flow"
     \/ part = "pool" /\ msg = "empty"
Flow(A) == part = "flow" /\ A /\ UNCHANGED <<part, connPoolVars>>
Pooled(A) == part = "pool" /\ A /\ UNCHANGED <<part, vars>>
WaitingNext == Flow(Next) \/ Pooled(Pool!Next)

\* The fairness of FlowControl and of ConnPool, each for its part.
WaitingSpec ==
  /\ WaitingInit /\ [][WaitingNext]_allVars
  /\ WF_allVars(Flow(GetWindow)) /\ WF_allVars(Flow(Transmit))
  /\ WF_allVars(Flow(Receive)) /\ WF_allVars(Flow(HandleFeedback))
  /\ \A u \in User : /\ WF_allVars(Pooled(Pool!GetStep(u))) /\ WF_allVars(Pooled(Pool!PutStep(u)))
                     /\ WF_allVars(Pooled(Pool!CloseConn(u))) /\ SF_allVars(Pooled(Pool!AcquireToken(u)))
  /\ WF_allVars(Pooled(Pool!AddStep)) /\ WF_allVars(Pooled(Pool!CheckStep))
  /\ WF_allVars(Pooled(Pool!TimePasses))

\* A Get that waits for a token gets one, and a closed pool closes all its sockets, see
\* ConnPool.
PoolServes == Pool!WaiterServed /\ Pool!ClosedPoolDrains
=============================================================================

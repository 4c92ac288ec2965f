---------------------------- MODULE FlowControl ----------------------------
(***************************************************************************)
(* stream/flow_control.go with the two ends that use it: one direction of  *)
(* a stream.  The sender takes window for every DATA frame; the receiver   *)
(* counts what the application consumed and returns window in FEEDBACK     *)
(* frames; the goroutine that handles those updates the window and wakes   *)
(* the sender.  Frames travel in order, both ways.                         *)
(***************************************************************************)
EXTENDS Integers, Sequences

CONSTANTS Msg,        \* the messages the application sends
          WireSize,   \* what GetWindow is called with: the compressed length
          RecvSize,   \* what OnRecv is called with.  A server counts the
                      \* compressed length as well; a client counts resp.data,
                      \* which client/stream.go has already decompressed
          Window,     \* InitWindowSize, the receiver's buffer
          MaxSent,    \* bound on the bytes sent over one stream
          MaxFrames   \* bound on the DATA frames under way

ASSUME SizeAssumption ==
  /\ Window \in Nat \ {0} /\ MaxSent \in Nat /\ MaxFrames \in Nat
  /\ WireSize \in [Msg -> Nat] /\ RecvSize \in [Msg -> Nat]

VARIABLES window, signal,   \* sendControl.window and whether ch holds a token
          spc, msg,         \* the sender: program counter, message in hand
          wpc,              \* the goroutine in UpdateWindow: "idle" or "signal"
          data, feedback,   \* DATA and FEEDBACK frames on their way
          unUpdated,        \* receiveControl.unUpdated
          done,             \* the stream has ended
          sent, consumed,   \* history: wire bytes granted by GetWindow and
                            \* received by the application,
          acked, credited   \* returned in feedback, and added to the window

sendVars == <<spc, msg, sent>>
recvVars == <<unUpdated, consumed, acked>>
vars == <<window, signal, sendVars, wpc, data, feedback, recvVars, credited, done>>

\* A frame carries its message or increment; from and to are its place in the
\* history of all frames sent that way.
DataFrame == [m : Msg, from : Nat, to : Nat]
FeedbackFrame == [inc : Nat, from : Nat, to : Nat]

SenderType ==
  /\ window \in Int /\ signal \in {0, 1}
  /\ spc \in {"idle", "load", "sub", "select", "send"} /\ msg \in Msg
  /\ wpc \in {"idle", "signal"}
ReceiverType == unUpdated \in Nat /\ done \in {0, 1}
FrameType == data \in Seq(DataFrame) /\ feedback \in Seq(FeedbackFrame)
HistoryType == {sent, consumed, acked, credited} \subseteq Nat
TypeOK == SenderType /\ ReceiverType /\ FrameType /\ HistoryType

\* newSendControl and newReceiveControl.
Init ==
  /\ window = Window /\ signal = 0
  /\ spc = "idle" /\ msg \in Msg /\ wpc = "idle"
  /\ data = <<>> /\ feedback = <<>>
  /\ unUpdated = 0 /\ done = 0
  /\ sent = 0 /\ consumed = 0 /\ acked = 0 /\ credited = 0
-----------------------------------------------------------------------------
\* SendMsg reaches GetWindow(w).
Call(m) ==
  /\ spc = "idle" /\ done = 0
  /\ sent + WireSize[m] <= MaxSent /\ Len(data) < MaxFrames
  /\ spc' = "load" /\ msg' = m
  /\ UNCHANGED <<window, signal, sent, wpc, data, feedback, recvVars, credited, done>>

\* GetWindow loads the window.
Load ==
  /\ spc = "load"
  /\ spc' = IF window > 0 THEN "sub" ELSE "select"
  /\ UNCHANGED <<window, signal, msg, sent, wpc, data, feedback, recvVars, credited, done>>

\* GetWindow takes w off, below zero if need be, and returns.
Subtract ==
  /\ spc = "sub" /\ spc' = "send"
  /\ window' = window - WireSize[msg] /\ sent' = sent + WireSize[msg]
  /\ UNCHANGED <<signal, msg, wpc, data, feedback, recvVars, credited, done>>

\* reflect.Select: the channel's token, or the end of the stream.
SelectSignal ==
  /\ spc = "select" /\ signal = 1
  /\ signal' = 0 /\ spc' = "load"
  /\ UNCHANGED <<window, msg, sent, wpc, data, feedback, recvVars, credited, done>>

SelectDone ==
  /\ spc = "select" /\ done = 1
  /\ spc' = "idle"
  /\ UNCHANGED <<window, signal, msg, sent, wpc, data, feedback, recvVars, credited, done>>

\* The frame is encoded and handed to the transport, which may refuse it when
\* the stream has ended.
Transmit ==
  /\ spc = "send" /\ spc' = "idle"
  /\ \/ data' = Append(data, [m |-> msg, from |-> sent - WireSize[msg], to |-> sent])
     \/ done = 1 /\ UNCHANGED data
  /\ UNCHANGED <<window, signal, msg, sent, wpc, feedback, recvVars, credited, done>>
-----------------------------------------------------------------------------
\* Mutant: what was consumed is not forgotten once it was returned.
OnRecvCountsTwice(n) ==
  /\ unUpdated' = unUpdated + n
  /\ IF unUpdated + n >= Window \div 4
     THEN /\ feedback' = Append(feedback, [inc |-> unUpdated + n, from |-> acked, to |-> consumed'])
          /\ acked' = consumed'
     ELSE UNCHANGED <<feedback, acked>>

\* receiveControl.OnRecv: a quarter of the buffer was consumed, return it.
OnRecv(n) ==
  IF unUpdated + n >= Window \div 4
  THEN /\ unUpdated' = 0 /\ acked' = consumed'
       /\ feedback' = Append(feedback, [inc |-> unUpdated + n, from |-> acked, to |-> consumed'])
  ELSE unUpdated' = unUpdated + n /\ UNCHANGED <<feedback, acked>>

\* RecvMsg takes the next message out of the receive queue.
Receive ==
  /\ data # <<>> /\ data' = Tail(data)
  /\ consumed' = Head(data).to
  /\ OnRecv(RecvSize[Head(data).m])
  /\ UNCHANGED <<window, signal, sendVars, wpc, credited, done>>

CheckUpdate(updated, increment) == updated - increment <= 0 /\ updated > 0

\* Mutant: the wake-up is skipped when the window was exactly zero.
UpdateWindowStrict ==
  /\ wpc = "idle" /\ feedback # <<>> /\ feedback' = Tail(feedback)
  /\ window' = window + Head(feedback).inc /\ credited' = Head(feedback).to
  /\ wpc' = IF window < 0 /\ window' > 0 THEN "signal" ELSE "idle"
  /\ UNCHANGED <<signal, sendVars, data, recvVars, done>>

\* UpdateWindow adds the increment and compares.
UpdateWindow ==
  /\ wpc = "idle" /\ feedback # <<>> /\ feedback' = Tail(feedback)
  /\ window' = window + Head(feedback).inc /\ credited' = Head(feedback).to
  /\ wpc' = IF CheckUpdate(window', Head(feedback).inc) THEN "signal" ELSE "idle"
  /\ UNCHANGED <<signal, sendVars, data, recvVars, done>>

\* Mutant: nobody is told.
SignalDropped ==
  /\ wpc = "signal" /\ wpc' = "idle"
  /\ UNCHANGED <<window, signal, sendVars, data, feedback, recvVars, credited, done>>

\* UpdateWindow's non-blocking send on ch.
Signal ==
  /\ wpc = "signal" /\ wpc' = "idle" /\ signal' = 1
  /\ UNCHANGED <<window, sendVars, data, feedback, recvVars, credited, done>>

\* The context ends, or a CLOSE frame arrives.
End ==
  /\ done = 0 /\ done' = 1
  /\ UNCHANGED <<window, signal, sendVars, wpc, data, feedback, recvVars, credited>>
-----------------------------------------------------------------------------
GetWindow == Load \/ Subtract \/ SelectSignal \/ SelectDone
SendMsg == (\E m \in Msg : Call(m)) \/ GetWindow \/ Transmit
HandleFeedback == UpdateWindow \/ Signal

Next == SendMsg \/ Receive \/ HandleFeedback \/ End

\* A sender inside SendMsg runs, the dispatcher runs, and the application at
\* the other end keeps calling RecvMsg (without that the sender is meant to
\* block).  Nobody has to send, and the stream need not end.
Fairness == /\ WF_vars(GetWindow) /\ WF_vars(Transmit)
            /\ WF_vars(Receive) /\ WF_vars(HandleFeedback)

Spec == Init /\ [][Next]_vars
FairSpec == Spec /\ Fairness
-----------------------------------------------------------------------------
\* The frames under way are exactly the history between lo and hi.
Chain(s, lo, hi) ==
  /\ s = <<>> => lo = hi
  /\ s # <<>> => s[1].from = lo /\ s[Len(s)].to = hi
  /\ \A i \in 1..Len(s) - 1 : s[i].to = s[i + 1].from

\* What Transmit has still to hand over.
Untransmitted == IF spc = "send" THEN WireSize[msg] ELSE 0

\* While the stream lives, no byte of window is lost or invented: it is in the
\* window, in a DATA frame, with the receiver, or in a FEEDBACK frame.
Conservation ==
  done = 0 =>
    /\ window = Window - sent + credited
    /\ Chain(data, consumed, sent - Untransmitted)
    /\ Chain(feedback, credited, acked)
    /\ unUpdated = consumed - acked

\* The receiver keeps back less than a quarter of the window, so once all that
\* was sent has been consumed and returned the sender is not blocked.
NeverStalls ==
  done = 0 /\ data = <<>> /\ feedback = <<>> /\ spc # "send" => window > 0

\* A sender waiting in Select while the window is open has been signalled, or
\* is about to be: checkUpdate recognises every crossing.
NoLostSignal ==
  spc = "select" /\ window > 0 => signal = 1 \/ wpc = "signal"

\* The inductive invariant behind the three: also, a frame's place in the
\* history is as long as the frame says, and little is kept back.
IInv ==
  /\ TypeOK /\ NoLostSignal /\ Conservation
  /\ done = 0 => \A i \in 1..Len(data) : data[i].to = data[i].from + WireSize[data[i].m]
  /\ done = 0 => \A i \in 1..Len(feedback) : feedback[i].to = feedback[i].from + feedback[i].inc
  /\ spc = "send" => sent >= WireSize[msg]
  /\ unUpdated = 0 \/ unUpdated < Window \div 4

\* A sender gets its window as long as the receiver keeps receiving.
SenderProceeds == spc = "load" ~> spc \in {"sub", "idle"}
=============================================================================

------------------------- MODULE FlowControlProofs -------------------------
\* The window is conserved, the sender never stalls and no signal is lost, for
\* every window, every set of messages and every size they may have.
EXTENDS FlowControl, SequenceTheorems, TLAPS

\* A frame that starts where the frames under way end continues them.
LEMMA ChainAppend ==
  ASSUME NEW F, NEW s \in Seq(F), NEW lo, NEW hi, Chain(s, lo, hi),
         NEW f \in F, f.from = hi
  PROVE  Chain(Append(s, f), lo, f.to)
<1>1. /\ Len(s) \in Nat /\ Append(s, f) \in Seq(F) /\ Len(Append(s, f)) = Len(s) + 1
      /\ \A i \in 1..Len(s) : Append(s, f)[i] = s[i]
      /\ Append(s, f)[Len(s) + 1] = f
  BY AppendProperties, LenProperties
<1>2. s = <<>> <=> Len(s) = 0
  BY LenProperties, EmptySeq
<1>3. Append(s, f) # <<>>
  BY <1>1, EmptySeq
<1>4. Append(s, f)[1].from = lo
  <2>1. CASE s = <<>>
    BY <1>1, <1>2, <2>1 DEF Chain
  <2>2. CASE s # <<>>
    BY <1>1, <1>2, <2>2 DEF Chain
  <2> QED BY <2>1, <2>2
<1>5. ASSUME NEW i \in 1..Len(s) PROVE Append(s, f)[i].to = Append(s, f)[i + 1].from
  <2>1. CASE i = Len(s)
    BY <1>1, <1>2, <2>1 DEF Chain
  <2>2. CASE i < Len(s)
    BY <1>1, <2>2 DEF Chain
  <2> QED BY <1>1, <2>1, <2>2
<1> QED BY <1>1, <1>3, <1>4, <1>5 DEF Chain

\* Without the frame that arrived first the others start where it ended.
LEMMA ChainTail ==
  ASSUME NEW F, NEW s \in Seq(F), s # <<>>, NEW lo, NEW hi, Chain(s, lo, hi)
  PROVE  /\ Head(s) \in F /\ Head(s) = s[1] /\ Tail(s) \in Seq(F)
         /\ Head(s).from = lo /\ Chain(Tail(s), Head(s).to, hi)
<1>1. /\ Head(s) \in F /\ Head(s) = s[1] /\ Tail(s) \in Seq(F)
      /\ Len(s) \in Nat \ {0} /\ Len(Tail(s)) = Len(s) - 1
      /\ \A i \in 1..Len(Tail(s)) : Tail(s)[i] = s[i + 1]
  <2>1. /\ Head(s) \in F /\ Tail(s) \in Seq(F) /\ Len(Tail(s)) = Len(s) - 1
        /\ \A i \in 1..Len(Tail(s)) : Tail(s)[i] = s[i + 1]
    BY HeadTailProperties
  <2>2. Len(s) \in Nat \ {0}
    BY LenProperties, EmptySeq
  <2>3. Head(s) = s[1]
    OBVIOUS
  <2> QED BY <2>1, <2>2, <2>3
<1>2. Tail(s) = <<>> => Head(s).to = hi
  <2> SUFFICES ASSUME Tail(s) = <<>> PROVE Head(s).to = hi
    OBVIOUS
  <2>0. Len(Tail(s)) = 0
    BY EmptySeq
  <2>1. Len(s) = 1
    <3>1. Len(s) \in Nat /\ Len(Tail(s)) = Len(s) - 1
      BY <1>1
    <3> QED BY <2>0, <3>1
  <2> QED BY <1>1, <2>1 DEF Chain
<1>3. Tail(s) # <<>> => Tail(s)[1].from = Head(s).to /\ Tail(s)[Len(Tail(s))].to = hi
  <2> SUFFICES ASSUME Tail(s) # <<>>
               PROVE Tail(s)[1].from = Head(s).to /\ Tail(s)[Len(Tail(s))].to = hi
    OBVIOUS
  <2>1. Len(Tail(s)) > 0
    BY <1>1, EmptySeq, LenProperties
  <2> QED BY <1>1, <2>1 DEF Chain
<1>4. \A i \in 1..Len(Tail(s)) - 1 : Tail(s)[i].to = Tail(s)[i + 1].from
  BY <1>1 DEF Chain
<1> QED BY <1>1, <1>2, <1>3, <1>4 DEF Chain

\* A new stream has its whole window and nothing under way.
LEMMA InitIInv == Init => IInv
<1> SUFFICES ASSUME Init PROVE IInv
  OBVIOUS
<1> USE SizeAssumption
<1>1. TypeOK
  BY DEF Init, TypeOK, SenderType, ReceiverType, FrameType, HistoryType
<1>2. Conservation
  BY DEF Init, Conservation, Chain, Untransmitted
<1> QED BY <1>1, <1>2 DEF Init, IInv, NoLostSignal

\* Facts about the numbers that every step uses.
LEMMA Numbers ==
  ASSUME IInv
  PROVE  /\ SenderType /\ ReceiverType /\ FrameType
         /\ sent \in Nat /\ consumed \in Nat /\ acked \in Nat /\ credited \in Nat
         /\ WireSize[msg] \in Nat /\ Window \in Nat \ {0} /\ Untransmitted \in Nat
         /\ \A m \in Msg : WireSize[m] \in Nat /\ RecvSize[m] \in Nat
<1>1. SenderType /\ ReceiverType /\ FrameType /\ HistoryType
  BY DEF IInv, TypeOK
<1> QED BY <1>1, SizeAssumption DEF HistoryType, SenderType, Untransmitted

\* The sender.
LEMMA SendIInv == ASSUME IInv, SendMsg PROVE IInv'
<1>t. /\ SenderType /\ ReceiverType /\ FrameType
      /\ sent \in Nat /\ consumed \in Nat /\ acked \in Nat /\ credited \in Nat
      /\ WireSize[msg] \in Nat /\ Window \in Nat \ {0}
      /\ \A m \in Msg : WireSize[m] \in Nat
  BY Numbers
<1>1. ASSUME NEW m \in Msg, Call(m) PROVE IInv'
  <2>1. TypeOK'
    BY <1>1, <1>t DEF Call, TypeOK, SenderType, ReceiverType, FrameType, HistoryType, recvVars
  <2>2. Conservation'
    <3>1. Untransmitted = 0 /\ Untransmitted' = 0
      BY <1>1 DEF Call, Untransmitted
    <3> QED BY <1>1, <3>1 DEF Call, IInv, Conservation, recvVars
  <2> QED BY <1>1, <2>1, <2>2 DEF Call, IInv, NoLostSignal, recvVars
<1>2. CASE Load
  <2>1. TypeOK'
    BY <1>2, <1>t DEF Load, TypeOK, SenderType, ReceiverType, FrameType, HistoryType, recvVars
  <2>2. Conservation'
    <3>1. Untransmitted = 0 /\ Untransmitted' = 0
      BY <1>2 DEF Load, Untransmitted
    <3> QED BY <1>2, <3>1 DEF Load, IInv, Conservation, recvVars
  <2>3. NoLostSignal'
    BY <1>2 DEF Load, NoLostSignal
  <2> QED BY <1>2, <2>1, <2>2, <2>3 DEF Load, IInv, recvVars
<1>3. CASE Subtract
  <2>1. TypeOK'
    BY <1>3, <1>t DEF Subtract, TypeOK, SenderType, ReceiverType, FrameType, HistoryType, recvVars
  <2>2. Conservation'
    <3>1. Untransmitted = 0 /\ Untransmitted' = WireSize[msg]
      BY <1>3 DEF Subtract, Untransmitted
    <3>2. /\ sent' - Untransmitted' = sent - Untransmitted
          /\ window = Window - sent + credited => window' = Window - sent' + credited
      BY <1>3, <1>t, <3>1 DEF Subtract, SenderType
    <3> QED BY <1>3, <3>2 DEF Subtract, IInv, Conservation, recvVars
  <2>3. sent' >= WireSize[msg'] /\ NoLostSignal'
    BY <1>3, <1>t DEF Subtract, NoLostSignal
  <2> QED BY <1>3, <2>1, <2>2, <2>3 DEF Subtract, IInv, recvVars
<1>4. CASE SelectSignal
  <2>1. TypeOK'
    BY <1>4, <1>t DEF SelectSignal, TypeOK, SenderType, ReceiverType, FrameType, HistoryType, recvVars
  <2>2. Conservation'
    <3>1. Untransmitted = 0 /\ Untransmitted' = 0
      BY <1>4 DEF SelectSignal, Untransmitted
    <3> QED BY <1>4, <3>1 DEF SelectSignal, IInv, Conservation, recvVars
  <2> QED BY <1>4, <2>1, <2>2 DEF SelectSignal, IInv, NoLostSignal, recvVars
<1>5. CASE SelectDone
  <2>1. TypeOK'
    BY <1>5, <1>t DEF SelectDone, TypeOK, SenderType, ReceiverType, FrameType, HistoryType, recvVars
  <2> QED BY <1>5, <2>1 DEF SelectDone, IInv, NoLostSignal, Conservation, recvVars
<1>6. CASE Transmit
  <2> DEFINE f == [m |-> msg, from |-> sent - WireSize[msg], to |-> sent]
  <2>1. f \in DataFrame /\ f.from = sent - WireSize[msg] /\ f.to = sent /\ f.m = msg
    BY <1>6, <1>t DEF Transmit, IInv, DataFrame, SenderType
  <2> HIDE DEF f
  <2>2. Append(data, f) \in Seq(DataFrame)
    BY <1>t, <2>1, AppendProperties DEF FrameType
  <2>3. TypeOK'
    BY <1>6, <1>t, <2>2, SMTT(30) DEF Transmit, TypeOK, SenderType, ReceiverType, FrameType, HistoryType, recvVars, f
  <2>4. spc' = "idle" /\ UNCHANGED <<window, signal, wpc, unUpdated, sent, msg>>
    BY <1>6 DEF Transmit, recvVars
  <2>5. CASE done = 1
    BY <1>6, <2>3, <2>4, <2>5 DEF Transmit, IInv, NoLostSignal, Conservation
  <2>6. CASE done = 0
    <3>1. data' = Append(data, f) /\ done' = 0
      BY <1>6, <2>6 DEF Transmit, f
    <3>2. Chain(data, consumed, f.from)
      BY <1>6, <2>1, <2>6 DEF Transmit, IInv, Conservation, Untransmitted
    <3>3. Chain(data', consumed, sent)
      BY <1>t, <2>1, <3>1, <3>2, ChainAppend DEF FrameType
    <3>4. Untransmitted' = 0 /\ sent' - Untransmitted' = sent
      BY <1>t, <2>4 DEF Untransmitted
    <3>5. Conservation'
      BY <1>6, <2>4, <2>6, <3>3, <3>4 DEF Transmit, IInv, Conservation, recvVars
    <3>6. \A i \in 1..Len(data') : data'[i].to = data'[i].from + WireSize[data'[i].m]
      <4>1. /\ Len(data) \in Nat /\ Len(data') = Len(data) + 1 /\ data'[Len(data) + 1] = f
            /\ \A i \in 1..Len(data) : data'[i] = data[i]
        BY <1>t, <2>1, <3>1, AppendProperties, LenProperties DEF FrameType
      <4>2. f.to = f.from + WireSize[f.m]
        BY <1>t, <2>1
      <4> QED BY <2>6, <4>1, <4>2 DEF IInv
    <3>7. UNCHANGED feedback
      BY <1>6 DEF Transmit
    <3>8. \A i \in 1..Len(feedback') : feedback'[i].to = feedback'[i].from + feedback'[i].inc
      BY <2>6, <3>7 DEF IInv
    <3>9. spc' # "send" /\ NoLostSignal' /\ (unUpdated' = 0 \/ unUpdated' < Window \div 4)
      BY <2>4 DEF IInv, NoLostSignal
    <3> QED BY <2>3, <3>5, <3>6, <3>8, <3>9 DEF IInv
  <2> QED BY <1>t, <2>5, <2>6 DEF ReceiverType
<1> QED
  BY <1>1, <1>2, <1>3, <1>4, <1>5, <1>6 DEF SendMsg, GetWindow

\* The receiver, for both of whose ends the same length was counted.
LEMMA ReceiveIInv == ASSUME RecvSize = WireSize, IInv, Receive PROVE IInv'
<1> DEFINE h == Head(data)
           n == RecvSize[h.m]
           f == [inc |-> unUpdated + n, from |-> acked, to |-> h.to]
<1>t. /\ SenderType /\ ReceiverType /\ FrameType
      /\ sent \in Nat /\ consumed \in Nat /\ acked \in Nat /\ credited \in Nat
      /\ Window \in Nat \ {0} /\ \A m \in Msg : RecvSize[m] \in Nat
  BY Numbers
<1>1. h \in DataFrame /\ Tail(data) \in Seq(DataFrame)
  BY <1>t, HeadTailProperties DEF Receive, FrameType
<1>2. h.m \in Msg /\ h.from \in Nat /\ h.to \in Nat /\ n \in Nat
  BY <1>1, <1>t DEF DataFrame
<1>3. f \in FeedbackFrame /\ f.inc = unUpdated + n /\ f.from = acked /\ f.to = h.to
  BY <1>2, <1>t DEF FeedbackFrame, ReceiverType
<1>4. /\ data # <<>> /\ data' = Tail(data) /\ consumed' = h.to
      /\ UNCHANGED <<window, signal, spc, msg, sent, wpc, credited, done>>
  BY DEF Receive, sendVars
<1>5. \/ /\ unUpdated + n >= Window \div 4
         /\ unUpdated' = 0 /\ acked' = h.to /\ feedback' = Append(feedback, f)
      \/ /\ ~(unUpdated + n >= Window \div 4)
         /\ unUpdated' = unUpdated + n /\ UNCHANGED <<feedback, acked>>
  BY <1>4 DEF Receive, OnRecv
<1> HIDE DEF h, n, f
<1>6. Append(feedback, f) \in Seq(FeedbackFrame)
  BY <1>t, <1>3, AppendProperties DEF FrameType
<1>7. TypeOK'
  <2>1. SenderType'
    BY <1>t, <1>4 DEF SenderType
  <2>2. ReceiverType' /\ acked' \in Nat
    BY <1>t, <1>2, <1>4, <1>5 DEF ReceiverType
  <2>3. FrameType'
    BY <1>t, <1>1, <1>4, <1>5, <1>6 DEF FrameType
  <2>4. HistoryType'
    BY <1>t, <1>2, <1>4, <2>2 DEF HistoryType
  <2> QED BY <2>1, <2>2, <2>3, <2>4 DEF TypeOK
<1>8. NoLostSignal' /\ (spc' = "send" => sent' >= WireSize[msg'])
  BY <1>4 DEF IInv, NoLostSignal
<1>9. unUpdated' = 0 \/ unUpdated' < Window \div 4
  BY <1>t, <1>2, <1>5 DEF ReceiverType
<1>10. CASE done = 1
  BY <1>4, <1>7, <1>8, <1>9, <1>10 DEF IInv, Conservation
<1>11. CASE done = 0
  <2>1. /\ Chain(data, consumed, sent - Untransmitted) /\ Chain(feedback, credited, acked)
        /\ unUpdated = consumed - acked /\ window = Window - sent + credited
    BY <1>11 DEF IInv, Conservation
  <2>2. /\ h = data[1] /\ h.from = consumed
        /\ Chain(data', h.to, sent - Untransmitted)
    BY <1>t, <1>4, <2>1, ChainTail DEF FrameType, h
  <2>3. h.to = consumed + n
    <3>1. Len(data) >= 1
      BY <1>t, <1>4, EmptySeq, LenProperties DEF FrameType
    <3>2. data[1].to = data[1].from + WireSize[data[1].m]
      BY <1>t, <1>11, <3>1, LenProperties DEF IInv, FrameType
    <3> QED BY <2>2, <3>2 DEF n
  <2>4. Untransmitted' = Untransmitted
    BY <1>4 DEF Untransmitted
  <2>5. f.to = f.from + f.inc
    BY <1>t, <1>2, <1>3, <2>1, <2>3 DEF ReceiverType
  <2>6. Chain(feedback', credited, acked') /\ unUpdated' = consumed' - acked'
    <3>1. CASE unUpdated + n >= Window \div 4
      <4>1. Chain(Append(feedback, f), credited, f.to)
        BY <1>t, <1>3, <2>1, ChainAppend DEF FrameType
      <4>2. unUpdated' = 0 /\ acked' = h.to /\ feedback' = Append(feedback, f)
        BY <1>5, <3>1
      <4>3. unUpdated' = consumed' - acked'
        BY <1>2, <1>4, <4>2
      <4> QED BY <1>3, <4>1, <4>2, <4>3
    <3>2. CASE ~(unUpdated + n >= Window \div 4)
      BY <1>t, <1>2, <1>4, <1>5, <2>1, <2>3, <3>2 DEF ReceiverType
    <3> QED BY <3>1, <3>2
  <2>7. Conservation'
    BY <1>4, <2>1, <2>2, <2>4, <2>6 DEF Conservation
  <2>8. \A i \in 1..Len(data') : data'[i].to = data'[i].from + WireSize[data'[i].m]
    <3>1. /\ Len(data) \in Nat /\ Len(data') = Len(data) - 1
          /\ \A i \in 1..Len(data') : data'[i] = data[i + 1]
      BY <1>t, <1>4, HeadTailProperties, LenProperties DEF FrameType
    <3> QED BY <1>11, <3>1 DEF IInv
  <2>9. \A i \in 1..Len(feedback') : feedback'[i].to = feedback'[i].from + feedback'[i].inc
    <3>0. \A i \in 1..Len(feedback) : feedback[i].to = feedback[i].from + feedback[i].inc
      BY <1>11 DEF IInv
    <3>1. CASE feedback' = Append(feedback, f)
      <4>1. /\ Len(feedback) \in Nat /\ Len(feedback') = Len(feedback) + 1
            /\ feedback'[Len(feedback) + 1] = f
            /\ \A i \in 1..Len(feedback) : feedback'[i] = feedback[i]
        BY <1>t, <1>3, <3>1, AppendProperties, LenProperties DEF FrameType
      <4> QED BY <2>5, <3>0, <4>1
    <3>2. CASE feedback' = feedback
      BY <3>0, <3>2
    <3> QED BY <1>5, <3>1, <3>2
  <2> QED BY <1>7, <1>8, <1>9, <2>7, <2>8, <2>9 DEF IInv
<1> QED BY <1>t, <1>10, <1>11 DEF ReceiverType

\* The goroutine that handles feedback: a crossing is never overlooked.
LEMMA FeedbackIInv == ASSUME IInv, HandleFeedback PROVE IInv'
<1>t. /\ SenderType /\ ReceiverType /\ FrameType
      /\ sent \in Nat /\ consumed \in Nat /\ acked \in Nat /\ credited \in Nat
      /\ Window \in Nat \ {0}
  BY Numbers
<1>1. CASE Signal
  <2>1. TypeOK'
    BY <1>1, <1>t DEF Signal, TypeOK, SenderType, ReceiverType, FrameType, HistoryType, sendVars, recvVars
  <2>2. Conservation'
    BY <1>1 DEF Signal, IInv, Conservation, Untransmitted, sendVars, recvVars
  <2> QED BY <1>1, <2>1, <2>2 DEF Signal, IInv, NoLostSignal, sendVars, recvVars
<1>2. CASE UpdateWindow
  <2> DEFINE h == Head(feedback)
  <2>1. h \in FeedbackFrame /\ Tail(feedback) \in Seq(FeedbackFrame)
    BY <1>2, <1>t, HeadTailProperties DEF UpdateWindow, FrameType
  <2>2. h.inc \in Nat /\ h.from \in Nat /\ h.to \in Nat
    BY <2>1 DEF FeedbackFrame
  <2>3. /\ feedback # <<>> /\ feedback' = Tail(feedback) /\ window' = window + h.inc
        /\ credited' = h.to /\ wpc = "idle"
        /\ wpc' = IF CheckUpdate(window', h.inc) THEN "signal" ELSE "idle"
        /\ UNCHANGED <<signal, spc, msg, sent, data, unUpdated, consumed, acked, done>>
    BY <1>2 DEF UpdateWindow, sendVars, recvVars
  <2> HIDE DEF h
  <2>4. TypeOK'
    BY <1>t, <2>1, <2>2, <2>3 DEF TypeOK, SenderType, ReceiverType, FrameType, HistoryType
  <2>5. NoLostSignal'
    <3> SUFFICES ASSUME spc' = "select", window' > 0 PROVE signal' = 1 \/ wpc' = "signal"
      BY DEF NoLostSignal
    <3>1. CASE window > 0
      BY <2>3, <3>1 DEF IInv, NoLostSignal
    <3>2. CASE ~(window > 0)
      BY <1>t, <2>2, <2>3, <3>2 DEF CheckUpdate, SenderType
    <3> QED BY <3>1, <3>2
  <2>6. Conservation' /\ (done = 0 => \A i \in 1..Len(feedback') :
                             feedback'[i].to = feedback'[i].from + feedback'[i].inc)
    <3>1. CASE done = 1
      BY <2>3, <3>1 DEF Conservation
    <3>2. CASE done = 0
      <4>1. /\ Chain(data, consumed, sent - Untransmitted) /\ Chain(feedback, credited, acked)
            /\ unUpdated = consumed - acked /\ window = Window - sent + credited
        BY <3>2 DEF IInv, Conservation
      <4>2. h = feedback[1] /\ h.from = credited /\ Chain(feedback', h.to, acked)
        BY <1>t, <2>3, <4>1, ChainTail DEF FrameType, h
      <4>3. h.to = credited + h.inc
        <5>1. Len(feedback) >= 1
          BY <1>t, <2>3, EmptySeq, LenProperties DEF FrameType
        <5> QED BY <1>t, <3>2, <4>2, <5>1, LenProperties DEF IInv, FrameType
      <4>4. window' = Window - sent + credited'
        BY <1>t, <2>2, <2>3, <4>1, <4>3 DEF SenderType
      <4>5. /\ Len(feedback) \in Nat /\ Len(feedback') = Len(feedback) - 1
            /\ \A i \in 1..Len(feedback') : feedback'[i] = feedback[i + 1]
        BY <1>t, <2>3, HeadTailProperties, LenProperties DEF FrameType
      <4>6. \A i \in 1..Len(feedback') : feedback'[i].to = feedback'[i].from + feedback'[i].inc
        BY <3>2, <4>5 DEF IInv
      <4>7. Untransmitted' = Untransmitted
        BY <2>3 DEF Untransmitted
      <4> QED BY <2>3, <4>1, <4>2, <4>4, <4>6, <4>7 DEF Conservation
    <3> QED BY <1>t, <3>1, <3>2 DEF ReceiverType
  <2> QED BY <2>3, <2>4, <2>5, <2>6 DEF IInv
<1> QED BY <1>1, <1>2 DEF HandleFeedback

\* Every step of sender, receiver and network keeps the accounts of the window.
LEMMA StepIInv == ASSUME RecvSize = WireSize PROVE IInv /\ [Next]_vars => IInv'
<1> SUFFICES ASSUME IInv, [Next]_vars PROVE IInv'
  OBVIOUS
<1>1. CASE End
  <2>1. TypeOK'
    BY <1>1 DEF End, IInv, TypeOK, SenderType, ReceiverType, FrameType, HistoryType, sendVars, recvVars
  <2> QED BY <1>1, <2>1 DEF End, IInv, NoLostSignal, Conservation, sendVars, recvVars
<1>2. CASE UNCHANGED vars
  <2>1. TypeOK'
    BY <1>2 DEF vars, IInv, TypeOK, SenderType, ReceiverType, FrameType, HistoryType, sendVars, recvVars
  <2>2. Conservation'
    BY <1>2 DEF vars, IInv, Conservation, Untransmitted, sendVars, recvVars
  <2> QED BY <1>2, <2>1, <2>2 DEF vars, IInv, NoLostSignal, sendVars, recvVars
<1> QED BY <1>1, <1>2, SendIInv, ReceiveIInv, FeedbackIInv DEF Next

\* When both ends count the same bytes (a stream towards the server, or an
\* uncompressed one), sendControl and receiveControl conserve the window.
THEOREM WindowConserved == ASSUME RecvSize = WireSize PROVE Spec => []IInv
<1>1. IInv /\ [Next]_vars => IInv'
  BY StepIInv
<1> QED BY <1>1, InitIInv, PTL DEF Spec

\* A blocked sender whose window reopened is always signalled by UpdateWindow.
THEOREM SignalsReachSender == ASSUME RecvSize = WireSize PROVE Spec => []NoLostSignal
<1>1. IInv => NoLostSignal
  BY DEF IInv
<1> QED BY <1>1, WindowConserved, PTL

\* OnRecv may keep up to a quarter of the window back and the sender may have
\* overdrawn it, yet with nothing under way the window is open.
THEOREM SenderNeverStalls == ASSUME RecvSize = WireSize PROVE Spec => []NeverStalls
<1>1. IInv => NeverStalls
  <2> SUFFICES ASSUME IInv, done = 0, data = <<>>, feedback = <<>>, spc # "send"
               PROVE  window > 0
    BY DEF NeverStalls
  <2>1. /\ Chain(data, consumed, sent - Untransmitted) /\ Chain(feedback, credited, acked)
        /\ unUpdated = consumed - acked /\ window = Window - sent + credited
    BY DEF IInv, Conservation
  <2>2. Untransmitted = 0 /\ consumed = sent - Untransmitted /\ credited = acked
    BY <2>1 DEF Chain, Untransmitted
  <2>3. /\ sent \in Nat /\ acked \in Nat /\ consumed \in Nat /\ unUpdated \in Nat
        /\ Window \in Nat \ {0}
    BY Numbers DEF ReceiverType
  <2>4. unUpdated = 0 \/ unUpdated < Window \div 4
    BY DEF IInv
  <2>5. Window \div 4 <= Window
    BY <2>3
  <2>6. window = Window - unUpdated
    BY <2>1, <2>2, <2>3
  <2> QED BY <2>3, <2>4, <2>5, <2>6
<1> QED BY <1>1, WindowConserved, PTL
=============================================================================

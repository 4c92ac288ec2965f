------------------------------- MODULE Udp --------------------------------
(* The UDP transports: serverTransport.serveUDP, one loop that reads        *)
(* packets through a PacketBuffer and gives each frame to the routine pool, *)
(* and clientTransport.udpRoundTrip, a socket for each call.  The network   *)
(* loses, duplicates and reorders packets; other senders send broken ones.  *)
EXTENDS Integers, FiniteSets

CONSTANTS
  UdpCalls,     \* the calls: records of id, connected (ConnectionMode), sendOnly
  Shapes,       \* of the other senders' packets: "whole", "short", "long", "empty"
  Safe,         \* codec.IsSafeFramer of the server's framer
  Routines,     \* the pool's size, 0 when createUDPRoutinePool gave no pool
  MaxPackets    \* bound: packets in flight

VARIABLES
  packets,      \* in flight: records of from, to, shape and body
  receiver,     \* the loop: its PacketBuffer, the framer's buffer, where it stands
  jobs,         \* the udpconns being served
  udpCalls      \* the calls and their sockets
udpVars == <<packets, receiver, jobs, udpCalls>>

Packet(f, t, s, b) == [from |-> f, to |-> t, shape |-> s, body |-> b]
\* A PacketBuffer: r and w as what is left to read, w = 0 as "none".
EmptyBuffer == [holds |-> "none", body |-> "none", raddr |-> "nil"]

UdpInit ==
  /\ packets = {}
  /\ receiver = [buf |-> EmptyBuffer, frame |-> "none", pc |-> "read", closed |-> FALSE,
                conn |-> [from |-> "nil", shared |-> FALSE, body |-> "none"]]
  /\ jobs = {}
  /\ udpCalls = [c \in UdpCalls |-> [pc |-> "new", done |-> "no", answer |-> Packet("nil", "nil", "empty", "none")]]

-----------------------------------------------------------------------------
(* The network and the others on it *)

Lose == \E p \in packets : packets' = packets \ {p} /\ UNCHANGED <<receiver, jobs, udpCalls>>
\* A packet may arrive and stay in flight: a duplicate.
Rest(p) == {packets, packets \ {p}}
Foreign ==
  /\ Cardinality(packets) < MaxPackets
  /\ \E s \in Shapes, to \in {"server"} \cup {c.id : c \in UdpCalls} :
       packets' = packets \cup {Packet("other", to, s, "other")}
  /\ UNCHANGED <<receiver, jobs, udpCalls>>

-----------------------------------------------------------------------------
(* PacketBuffer *)

\* Read, called by a framer until it has its frame: a packet is taken when none is held, then read to its end.
Readable(buf, arrived) == IF buf.holds = "none" THEN arrived ELSE {Packet(buf.raddr, "server", buf.holds, buf.body)}
Read(p) == [holds |-> p.shape, body |-> p.body, raddr |-> p.from]
\* ReadFrame consumes a whole frame, or fails at the packet's end (io.EOF); a long packet leaves bytes.
Framed(buf) == buf.holds \in {"whole", "long"}
Remaining(buf) == buf.holds = "long"
\* Next: an empty packet has w = 0, and keeps its address.
NextBuffer(buf) == IF buf.holds = "empty" THEN [EmptyBuffer EXCEPT !.raddr = buf.raddr] ELSE EmptyBuffer

-----------------------------------------------------------------------------
(* serveUDP *)

\* A frame of a framer that is not safe lies in the framer's own buffer.
\* Mutant: it is not copied out of it.
copyFrameNever == FALSE
copyFrame == ~Safe
Conn(from, body) == [from |-> from, shared |-> ~Safe /\ ~copyFrame, body |-> body]

ReadFrame ==
  /\ receiver.pc = "read"
  /\ ~receiver.closed
  /\ \E p \in Readable(receiver.buf, {q \in packets : q.to = "server"}) :
       LET buf == Read(p) IN
       /\ \E rest \in Rest(p) : packets' = rest
       /\ receiver' = [receiver EXCEPT
            !.buf = NextBuffer(buf),
            !.frame = IF Framed(buf) THEN buf.body ELSE @,
            !.pc = IF Framed(buf) /\ ~Remaining(buf) THEN "invoke" ELSE "read",
            !.conn = IF Framed(buf) /\ ~Remaining(buf) THEN Conn(buf.raddr, buf.body) ELSE @]
  /\ UNCHANGED <<jobs, udpCalls>>

\* ReadFrame failed for the moment: the loop sleeps and reads again.  A closed loop ends at its next look at the context,
\* that is after the packet that ReadFrame was waiting for.
Stop ==
  /\ receiver.pc = "read"
  /\ ~receiver.closed
  /\ receiver' = [receiver EXCEPT !.closed = TRUE]
  /\ UNCHANGED <<packets, jobs, udpCalls>>

\* go c.serve(), or pool.Invoke, which waits for a routine.
Invoke ==
  /\ receiver.pc = "invoke"
  /\ Routines = 0 \/ Cardinality(jobs) < Routines
  /\ jobs' = jobs \cup {receiver.conn}
  /\ receiver' = [receiver EXCEPT !.pc = "read"]
  /\ UNCHANGED <<packets, udpCalls>>

\* udpconn.serve: what the handler reads, now, is what it answers, to the address of the packet.
Seen(j) == IF j.shared THEN receiver.frame ELSE j.body
Serve(j) ==
  /\ j \in jobs
  /\ jobs' = jobs \ {j}
  /\ \/ UNCHANGED packets                      \* no response, a failed handler or write
     \/ /\ Cardinality(packets) < MaxPackets
        /\ packets' = packets \cup {Packet("server", j.from, "whole", Seen(j))}
  /\ UNCHANGED <<receiver, udpCalls>>

-----------------------------------------------------------------------------
(* udpRoundTrip *)

Ends(c, how) == [udpCalls EXCEPT ![c].pc = "closed", ![c].done = how]

\* dialUDP: a socket of the call's own, with the context's deadline.
dialUDP(c) ==
  /\ udpCalls[c].pc = "new"
  /\ udpCalls' \in {[udpCalls EXCEPT ![c].pc = "write"], Ends(c, "connectFail"), Ends(c, "netErr")}
  /\ UNCHANGED <<packets, receiver, jobs>>

\* The context ended before the write, the write failed, or the packet is sent; a SendOnly call does not read.
udpWriteFrame(c) ==
  /\ udpCalls[c].pc = "write"
  /\ \/ UNCHANGED packets /\ udpCalls' \in {Ends(c, how) : how \in {"canceled", "timeout", "netErr"}}
     \/ /\ Cardinality(packets) < MaxPackets
        /\ packets' = packets \cup {Packet(c.id, "server", "whole", c.id)}
        /\ udpCalls' = IF c.sendOnly THEN Ends(c, "noResponse") ELSE [udpCalls EXCEPT ![c].pc = "read"]
  /\ UNCHANGED <<receiver, jobs>>

\* A connected socket takes the packets of its peer only.
mayReceive(c, p) == p.to = c.id /\ (c.connected => p.from = "server")
\* One packet is read: a whole frame is the answer, anything else an error.
udpReadFrame(c) ==
  /\ udpCalls[c].pc = "read"
  /\ \E p \in packets :
       /\ mayReceive(c, p)
       /\ \E rest \in Rest(p) : packets' = rest
       /\ LET buf == Read(p) IN
          udpCalls' = IF Framed(buf) /\ ~Remaining(buf)
                      THEN [Ends(c, "ok") EXCEPT ![c].answer = p] ELSE Ends(c, "readFrameErr")
  /\ UNCHANGED <<receiver, jobs>>
\* The deadline passed, also when the context was only cancelled: after the write, or in ReadFrame; or the socket failed.
udpReadFails(c) ==
  /\ udpCalls[c].pc = "read"
  /\ udpCalls' \in {Ends(c, how) : how \in {"timeout", "netErr"}}
  /\ UNCHANGED <<packets, receiver, jobs>>

UdpNext ==
  \/ Lose \/ Foreign \/ ReadFrame \/ Stop \/ Invoke
  \/ \E j \in jobs : Serve(j)
  \/ \E c \in UdpCalls : dialUDP(c) \/ udpWriteFrame(c) \/ udpReadFrame(c) \/ udpReadFails(c)

-----------------------------------------------------------------------------
(* A call on a connected socket that returns a response returns the one to *)
(* its own request, however packets are lost, repeated and reordered and   *)
(* however the handlers of one socket interleave: the request its handler  *)
(* read was neither that of the next packet nor a broken one's.            *)
AnswersAreOwn ==
  \A c \in UdpCalls : udpCalls[c].done = "ok" /\ c.connected =>
    udpCalls[c].answer = Packet("server", c.id, "whole", c.id)
=============================================================================

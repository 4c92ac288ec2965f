---------------------------- MODULE WriteBuffers ----------------------------
(* The buffers that bytes pass on their way to a connection.  The server's *)
(* batched writes: the lock-free ring of internal/ring and the writev      *)
(* buffer on top of it.  Writers put packets into the ring, one goroutine  *)
(* takes all there is and writes it, and a writer that finds the ring full *)
(* takes and writes packets itself unless dropFull is set.  The sequence   *)
(* numbers wrap around after a few laps of the ring, not at 2^32.          *)
(* And linkbuffer.Buf: a list of segments over blocks of an allocator or   *)
(* over slices of the caller.  A block is given back once, by the segment  *)
(* that holds its release, after that segment was read.  The two share no  *)
(* state.                                                                  *)
EXTENDS Integers, Sequences, FiniteSets, SequencesExt

CONSTANTS
  Writers,
  Buffers,       \* the capacities asked for, dropFull, the packets of each writer, and what may go wrong
  Laps           \* how often the sequence numbers go round the ring before they wrap

VARIABLES
  buffer,     \* its options, isQueueStopped, wakeupCh, errCh, done
  ring,       \* head, tail and the slots
  writers,    \* where each writer is, and what it holds
  sender,     \* the sending goroutine
  wire        \* what the connection has taken, and whether it still takes anything
writevVars == <<buffer, ring, writers, sender, wire>>

NoPacket == <<0, 0>>

\* ring.New: the slots expect the sequence numbers from 1 on.
roundUpToPower2(n) == CHOOSE p \in {1, 2, 4, 8} : p >= n /\ \A q \in {1, 2, 4, 8} : q >= n => p <= q
New(n) ==
  LET cap == IF roundUpToPower2(n) < 2 THEN 2 ELSE roundUpToPower2(n) IN
  [cap |-> cap, head |-> 0, tail |-> 0,
   slots |-> [i \in 0..(cap - 1) |->
                [put |-> IF i = 0 THEN cap ELSE i, get |-> IF i = 0 THEN cap ELSE i, value |-> NoPacket]]]

Uint32 == Laps * ring.cap
quantity(head, tail) == (tail + Uint32 - head) % Uint32
slotOf(seq) == seq % ring.cap
IsEmpty == ring.head = ring.tail

\* Start and NewBuffer; Restart gives the same ring to another one.
WritevInit ==
  \E b \in Buffers :
    /\ buffer = [dropFull |-> b.dropFull, packets |-> b.packets, faults |-> b.faults, stopped |-> FALSE, wakeup |-> FALSE, err |-> FALSE, done |-> FALSE]
    /\ ring = New(b.size)
    /\ writers = [w \in Writers |-> [pc |-> "idle", next |-> 1, head |-> 0, seq |-> 0, seqs |-> <<>>, vals |-> <<>>]]
    /\ sender = [pc |-> "poll", seqs |-> <<>>, vals |-> <<>>]
    /\ wire = [up |-> TRUE, sent |-> <<>>]

-----------------------------------------------------------------------------
(* The ring.  A compare-and-swap that fails starts over, so only the one that succeeds is a step, *)
(* with the head that was loaded before the tail. *)

commit(seq, p) == [ring EXCEPT !.slots[slotOf(seq)] = [@ EXCEPT !.value = p, !.put = (@ + ring.cap) % Uint32]]
mayCommit(seq) == LET s == ring.slots[slotOf(seq)] IN s.put = seq /\ s.get = s.put
consume(seq) == [ring EXCEPT !.slots[slotOf(seq)] = [@ EXCEPT !.value = NoPacket, !.get = (@ + ring.cap) % Uint32]]
mayConsume(seq) == LET s == ring.slots[slotOf(seq)] IN s.get = seq /\ s.get = (s.put + Uint32 - ring.cap) % Uint32

\* acquireGetSequence for as many as there are: the sequence numbers taken.
Acquired(head) == [i \in 1..quantity(head, ring.tail) |-> (head + i) % Uint32]

-----------------------------------------------------------------------------
(* Buffer.Write *)

\* writeNoWait and writeOrWait begin alike; isQueueStopped may be stale.
Write(w) ==
  /\ writers[w].pc \in {"idle", "again"} /\ writers[w].next <= buffer.packets
  /\ writers' = [writers EXCEPT ![w] =
       IF buffer.stopped THEN [@ EXCEPT !.pc = "idle", !.next = @ + 1] ELSE [@ EXCEPT !.pc = "tail", !.head = ring.head]]
  /\ UNCHANGED <<buffer, ring, sender, wire>>

\* acquirePutSequence: full is decided with the head loaded earlier.
acquirePutSequence(w) ==
  LET next == (ring.tail + 1) % Uint32  full == quantity(writers[w].head, next) > ring.cap - 1 IN
  /\ writers[w].pc = "tail"
  /\ IF full
     THEN /\ UNCHANGED ring
          /\ writers' = [writers EXCEPT ![w] =
               IF buffer.dropFull THEN [@ EXCEPT !.pc = "idle", !.next = @ + 1] ELSE [@ EXCEPT !.pc = "direct"]]
     ELSE /\ ring' = [ring EXCEPT !.tail = next]
          /\ writers' = [writers EXCEPT ![w].pc = "commit", ![w].seq = next]
  /\ UNCHANGED <<buffer, sender, wire>>

Commit(w) ==
  /\ writers[w].pc = "commit" /\ mayCommit(writers[w].seq)
  /\ ring' = commit(writers[w].seq, <<w, writers[w].next>>)
  /\ writers' = [writers EXCEPT ![w].pc = "wake"]
  /\ UNCHANGED <<buffer, sender, wire>>

wakeUp(w) ==
  /\ writers[w].pc = "wake"
  /\ buffer' = [buffer EXCEPT !.wakeup = TRUE]
  /\ writers' = [writers EXCEPT ![w].pc = "idle", ![w].next = @ + 1]
  /\ UNCHANGED <<ring, sender, wire>>

\* writeDirectly: takes what the ring holds and writes it itself; then writeOrWait goes round.
writeDirectly(w) ==
  /\ writers[w].pc = "direct"
  /\ LET seqs == Acquired(ring.head) IN
     /\ ring' = [ring EXCEPT !.head = ring.tail]
     /\ writers' = [writers EXCEPT ![w].pc = IF seqs = <<>> THEN "again" ELSE "drain", ![w].seqs = seqs]
  /\ UNCHANGED <<buffer, sender, wire>>

Drain(w) ==
  /\ writers[w].pc = "drain" /\ writers[w].seqs # <<>> /\ mayConsume(Head(writers[w].seqs))
  /\ LET seq == Head(writers[w].seqs) IN
     /\ ring' = consume(seq)
     /\ writers' = [writers EXCEPT ![w].seqs = Tail(@), ![w].vals = Append(@, ring.slots[slotOf(seq)].value)]
  /\ UNCHANGED <<buffer, sender, wire>>

WriteOut(w) ==
  /\ writers[w].pc = "drain" /\ writers[w].seqs = <<>>
  /\ IF wire.up
     THEN /\ wire' = [wire EXCEPT !.sent = @ \o writers[w].vals]
          /\ writers' = [writers EXCEPT ![w].pc = "again", ![w].vals = <<>>]
          /\ UNCHANGED buffer
     ELSE /\ buffer' = [buffer EXCEPT !.err = TRUE]
          /\ writers' = [writers EXCEPT ![w].pc = "idle", ![w].vals = <<>>, ![w].next = @ + 1]
          /\ UNCHANGED wire
  /\ UNCHANGED <<ring, sender>>

-----------------------------------------------------------------------------
(* Buffer.start: the sending goroutine *)

Quits == buffer.done \/ buffer.err
getOrWait ==
  /\ sender.pc = "poll"
  /\ LET seqs == Acquired(ring.head) IN
     CASE Quits -> sender' = [sender EXCEPT !.pc = "quit"] /\ UNCHANGED ring
       [] ~Quits /\ seqs # <<>> ->
            /\ ring' = [ring EXCEPT !.head = ring.tail]
            /\ sender' = [sender EXCEPT !.pc = "take", !.seqs = seqs]
       [] OTHER -> sender' = [sender EXCEPT !.pc = "check"] /\ UNCHANGED ring
  /\ UNCHANGED <<buffer, writers, wire>>

CheckAgain ==
  /\ sender.pc = "check"
  /\ sender' = [sender EXCEPT !.pc = IF IsEmpty THEN "wait" ELSE "poll"]
  /\ UNCHANGED <<buffer, ring, writers, wire>>

Wait ==
  /\ sender.pc = "wait"
  /\ \/ /\ Quits /\ sender' = [sender EXCEPT !.pc = "quit"] /\ UNCHANGED buffer
     \/ /\ buffer.wakeup
        /\ sender' = [sender EXCEPT !.pc = "poll"] /\ buffer' = [buffer EXCEPT !.wakeup = FALSE]
  /\ UNCHANGED <<ring, writers, wire>>

Take ==
  /\ sender.pc = "take" /\ sender.seqs # <<>> /\ mayConsume(Head(sender.seqs))
  /\ LET seq == Head(sender.seqs) IN
     /\ ring' = consume(seq)
     /\ sender' = [sender EXCEPT !.seqs = Tail(@), !.vals = Append(@, ring.slots[slotOf(seq)].value)]
  /\ UNCHANGED <<buffer, writers, wire>>

start ==
  /\ sender.pc = "take" /\ sender.seqs = <<>>
  /\ IF wire.up THEN wire' = [wire EXCEPT !.sent = @ \o sender.vals] ELSE UNCHANGED wire
  /\ sender' = [sender EXCEPT !.vals = <<>>, !.pc = IF wire.up THEN "poll" ELSE "quit"]
  /\ UNCHANGED <<buffer, ring, writers>>

\* The quit handler: SetQueueStopped.
SetQueueStopped ==
  /\ sender.pc = "quit"
  /\ sender' = [sender EXCEPT !.pc = "gone"]
  /\ buffer' = [buffer EXCEPT !.stopped = TRUE]
  /\ UNCHANGED <<ring, writers, wire>>

\* The connection breaks, or its owner closes done.
Breaks ==
  /\ "break" \in buffer.faults /\ wire.up
  /\ wire' = [wire EXCEPT !.up = FALSE]
  /\ UNCHANGED <<buffer, ring, writers, sender>>
CloseDone ==
  /\ "done" \in buffer.faults /\ ~buffer.done
  /\ buffer' = [buffer EXCEPT !.done = TRUE]
  /\ UNCHANGED <<ring, writers, sender, wire>>

writerStep(w) ==
  acquirePutSequence(w) \/ Commit(w) \/ wakeUp(w) \/ writeDirectly(w) \/ Drain(w) \/ WriteOut(w)
senderStep == getOrWait \/ CheckAgain \/ Wait \/ Take \/ start \/ SetQueueStopped
WritevNext ==
  \/ \E w \in Writers : Write(w) \/ writerStep(w)
  \/ senderStep \/ Breaks \/ CloseDone

-----------------------------------------------------------------------------
Held(w) == Range(writers[w].vals)

(* A packet that Write took is sent once at most, it is never lost between *)
(* the ring, the goroutines and the connection while the connection is up, *)
(* and no goroutine takes a slot that is not written yet: the ring's two   *)
(* sequence numbers per slot (ring.go:165), also where they wrap around.   *)
PacketsConserved ==
  LET inRing == {ring.slots[i].value : i \in 0..(ring.cap - 1)} \ {NoPacket}
      all == inRing \cup Range(sender.vals) \cup Range(wire.sent) \cup UNION {Held(w) : w \in Writers} IN
  /\ IsInjective(wire.sent) /\ Range(wire.sent) \cap (inRing \cup Range(sender.vals)) = {}
  /\ NoPacket \notin all
  /\ buffer.dropFull /\ wire.up => \A w \in Writers :
       LET mine == SelectSeq(wire.sent, LAMBDA p : p[1] = w) IN
       \A i \in 1..(Len(mine) - 1) : mine[i][2] < mine[i + 1][2]
  /\ quantity(ring.head, ring.tail) <= ring.cap - 1

(* No wake-up is lost: the sending goroutine sleeps beside packets only if *)
(* a signal is in wakeupCh or a writer is about to put one (buffer.go:141  *)
(* skips the signal when it sees one there).                               *)
NoWakeUpLost ==
  sender.pc = "wait" /\ ~IsEmpty =>
    buffer.wakeup \/ \E w \in Writers : writers[w].pc \in {"commit", "wake"}

-----------------------------------------------------------------------------
(* linkbuffer.Buf.                                                         *)

CONSTANTS
  minMallocSize,
  Sizes,           \* the sizes of a Write, an Alloc and a ReadN
  MaxBytes, MaxBlocks

VARIABLES
  segments,   \* from head to tail: the bytes not read yet, the block and its end, and whether it releases it
  dirty,      \* the segments read since the last Release
  blocks,     \* what the allocator handed out: its size and how often it was freed
  content     \* the numbers of the bytes that a reader should get, in order
linkVars == <<segments, dirty, blocks, content>>

newBytes(bts, block, cap, owns) == [bts |-> bts, block |-> block, cap |-> cap, owns |-> owns]
Empty == newBytes(<<>>, 0, 0, FALSE)

LinkInit == segments = <<Empty>> /\ dirty = {} /\ blocks = <<>> /\ content = [next |-> 1, unread |-> <<>>]

tail == segments[Len(segments)]
SetTail(s, t) == [s EXCEPT ![Len(s)] = t]
Fresh(n) == [i \in 1..n |-> content.next + i - 1]
Malloc(n) == Append(blocks, [size |-> n, freed |-> 0])
\* What the tail's block has left behind its bytes.
available(seg) == seg.cap

\* Buf.Write: fills the tail, and then as many blocks as it takes.
Fill(bts, segs, blks, least) ==
  LET needed == (Len(bts) + minMallocSize - 1) \div minMallocSize
      n == IF needed < least THEN least ELSE needed IN
  <<segs \o [i \in 1..n |->
       LET part == SubSeq(bts, (i - 1) * minMallocSize + 1,
                          IF i * minMallocSize < Len(bts) THEN i * minMallocSize ELSE Len(bts)) IN
       newBytes(part, Len(blks) + i, minMallocSize - Len(part), TRUE)],
    blks \o [i \in 1..n |-> [size |-> minMallocSize, freed |-> 0]]>>
WriteBytes(n) ==
  LET bts == Fresh(n)
      room == IF ~tail.owns THEN 0 ELSE IF available(tail) < n THEN available(tail) ELSE n
      first == SetTail(segments, [tail EXCEPT !.bts = @ \o SubSeq(bts, 1, room), !.cap = @ - room])
      rest == Fill(SubSeq(bts, room + 1, n), IF tail.owns THEN first ELSE segments, blocks,
                   IF tail.owns THEN 0 ELSE 1) IN
  /\ content.next + n - 1 <= MaxBytes /\ Len(rest[2]) <= MaxBlocks
  /\ segments' = rest[1] /\ blocks' = rest[2]
  /\ content' = [next |-> content.next + n, unread |-> content.unread \o bts]
  /\ UNCHANGED dirty

\* Buf.append: the caller's slice goes behind the tail, whose remaining room becomes a segment
\* of its own and takes the release with it.
AppendKeepingRelease(n) ==
  LET own == newBytes(Fresh(n), 0, 0, FALSE) IN
  /\ content.next + n - 1 <= MaxBytes
  /\ segments' = IF ~tail.owns \/ available(tail) = 0 THEN Append(segments, own)
                 ELSE segments \o <<own, newBytes(<<>>, tail.block, tail.cap, TRUE)>>
  /\ content' = [next |-> content.next + n, unread |-> content.unread \o Fresh(n)]
  /\ UNCHANGED <<dirty, blocks>>
AppendBytes(n) ==
  LET own == newBytes(Fresh(n), 0, 0, FALSE) IN
  /\ content.next + n - 1 <= MaxBytes
  /\ segments' = IF ~tail.owns \/ available(tail) = 0 THEN Append(segments, own)
                 ELSE SetTail(segments, [tail EXCEPT !.owns = FALSE, !.cap = 0])
                        \o <<own, newBytes(<<>>, tail.block, tail.cap, TRUE)>>
  /\ content' = [next |-> content.next + n, unread |-> content.unread \o Fresh(n)]
  /\ UNCHANGED <<dirty, blocks>>

Prepend(n) ==
  /\ content.next + n - 1 <= MaxBytes
  /\ segments' = <<newBytes(Fresh(n), 0, 0, FALSE)>> \o segments
  /\ content' = [next |-> content.next + n, unread |-> Fresh(n) \o content.unread]
  /\ UNCHANGED <<dirty, blocks>>

\* Alloc and Prelloc: the caller writes into what it gets.
Alloc(n) ==
  LET fits == tail.owns /\ available(tail) >= n IN
  /\ content.next + n - 1 <= MaxBytes /\ (fits \/ Len(blocks) < MaxBlocks)
  /\ segments' = IF fits THEN SetTail(segments, [tail EXCEPT !.bts = @ \o Fresh(n), !.cap = @ - n])
                 ELSE Append(segments, newBytes(Fresh(n), Len(blocks) + 1, 0, TRUE))
  /\ blocks' = IF fits THEN blocks ELSE Malloc(n)
  /\ content' = [next |-> content.next + n, unread |-> content.unread \o Fresh(n)]
  /\ UNCHANGED dirty

Prelloc(n) ==
  /\ content.next + n - 1 <= MaxBytes /\ Len(blocks) < MaxBlocks
  /\ segments' = <<newBytes(Fresh(n), Len(blocks) + 1, 0, TRUE)>> \o segments
  /\ blocks' = Malloc(n)
  /\ content' = [next |-> content.next + n, unread |-> Fresh(n) \o content.unread]
  /\ UNCHANGED dirty

-----------------------------------------------------------------------------
\* dirtyHead for the first n segments, and ensureNotEmpty.
DirtyHeads(segs, n) == {segs[i].block : i \in {j \in 1..n : segs[j].owns}}
ensureNotEmpty(segs) == IF segs = <<>> THEN <<Empty>> ELSE segs
Leading(segs) == Cardinality({i \in 1..Len(segs) : \A j \in 1..i : segs[j].bts = <<>>})   \* dirtyEmptyHeads
Skip(segs, n) == SubSeq(segs, n + 1, Len(segs))

\* Buf.ReadN: within the first segment that has bytes.
ReadN(n) ==
  LET skipped == Leading(segments)  segs == Skip(segments, skipped) IN
  /\ IF segs = <<>> THEN /\ segments' = <<Empty>> /\ dirty' = dirty \cup DirtyHeads(segments, skipped)
                         /\ UNCHANGED content
     ELSE IF n >= Len(segs[1].bts)
     THEN LET gone == skipped + 1 + Leading(Tail(segs)) IN
          /\ content' = [content EXCEPT !.unread = SubSeq(@, Len(segs[1].bts) + 1, Len(@))]
          /\ dirty' = dirty \cup DirtyHeads(segments, gone)
          /\ segments' = ensureNotEmpty(Skip(segments, gone))
     ELSE /\ content' = [content EXCEPT !.unread = SubSeq(@, n + 1, Len(@))]
          /\ dirty' = dirty \cup DirtyHeads(segments, skipped)
          /\ segments' = [segs EXCEPT ![1].bts = SubSeq(@, n + 1, Len(@))]
  /\ UNCHANGED blocks

\* Buf.Read: copies from as many segments as it takes.
Read(n) ==
  LET bytes[i \in 0..Len(segments)] == IF i = 0 THEN 0 ELSE bytes[i - 1] + Len(segments[i].bts)
      gone == Cardinality({i \in 1..Len(segments) : bytes[i] <= n})
      segs == Skip(segments, gone) IN
  /\ dirty' = dirty \cup DirtyHeads(segments, gone)
  /\ segments' = IF segs = <<>> THEN <<Empty>>
                 ELSE [segs EXCEPT ![1].bts = SubSeq(@, n - bytes[gone] + 1, Len(@))]
  /\ content' = [content EXCEPT !.unread = SubSeq(@, (IF n < Len(@) THEN n ELSE Len(@)) + 1, Len(@))]
  /\ UNCHANGED blocks

ReadNext ==
  LET skipped == Leading(segments)  n == IF skipped = Len(segments) THEN skipped ELSE skipped + 1 IN
  /\ dirty' = dirty \cup DirtyHeads(segments, n)
  /\ segments' = ensureNotEmpty(Skip(segments, n))
  /\ content' = IF n = skipped THEN content
                ELSE [content EXCEPT !.unread = SubSeq(@, Len(segments[n].bts) + 1, Len(@))]
  /\ UNCHANGED blocks

ReadAll ==
  /\ dirty' = dirty \cup DirtyHeads(segments, Len(segments))
  /\ segments' = <<Empty>> /\ content' = [content EXCEPT !.unread = <<>>]
  /\ UNCHANGED blocks

Release ==
  /\ dirty # {}
  /\ blocks' = [i \in 1..Len(blocks) |-> IF i \in dirty THEN [blocks[i] EXCEPT !.freed = @ + 1] ELSE blocks[i]]
  /\ dirty' = {} /\ UNCHANGED <<segments, content>>

LinkNext ==
  \/ \E n \in Sizes : WriteBytes(n) \/ AppendBytes(n) \/ Prepend(n) \/ Alloc(n) \/ Prelloc(n) \/ ReadN(n) \/ Read(n)
  \/ ReadNext \/ ReadAll \/ Release

-----------------------------------------------------------------------------
(* The segments hold the bytes not read yet, in the order in which they    *)
(* were written and prepended; a block is freed at most once, never while  *)
(* a segment still reads or writes it, and a block not freed has exactly   *)
(* one segment that will release it (buffer.go: append moves the release   *)
(* to the remaining room).                                                 *)
BlocksReleasedOnce ==
  LET owners(b) == Cardinality({i \in 1..Len(segments) : segments[i].owns /\ segments[i].block = b})
                     + (IF b \in dirty THEN 1 ELSE 0) IN
  /\ FlattenSeq([i \in 1..Len(segments) |-> segments[i].bts]) = content.unread
  /\ \A b \in 1..Len(blocks) :
       /\ blocks[b].freed <= 1
       /\ owners(b) = 1 - blocks[b].freed
       /\ \A i \in 1..Len(segments) :
            segments[i].block = b => blocks[b].freed = 0 /\ b \notin dirty
=============================================================================

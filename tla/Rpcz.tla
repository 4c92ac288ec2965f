-------------------------------- MODULE Rpcz --------------------------------
(* Package rpcz: spans of running RPCs, their children, the store of the   *)
(* spans that ended, and the pool that spans are taken from and put back   *)
(* to.  RecordWhen (config.go) decides which spans the store keeps.        *)
EXTENDS Integers, Sequences, SequencesExt, FiniteSetsExt, Functions

CONSTANTS
  Spans,             \* the span objects
  MaxSpans,          \* how often a span is started
  Capacity,          \* of the store
  Configs,           \* the record_when conditions
  Attrs,             \* what a root span has come to know when it ends
  ChildrenEndFirst   \* whether every child ends before its root does

VARIABLES
  spans,     \* a span object to what it holds
  array,     \* the store's circular array: data, head, tail, length
  idSpans,   \* the store's index: an id to a span object
  rpcz       \* the condition, the ids given out, the roots recorded, who is ending
rpczVars == <<spans, array, idSpans, rpcz>>

RPCZ == "rpcz"      \* the parent of the roots
Nil == "nil"
Free == [state |-> "pool", id |-> 0, parent |-> Nil, ended |-> FALSE, children |-> <<>>, attr |-> <<>>]
Init ==
  /\ spans = [s \in Spans |-> Free]
  /\ array = [data |-> [i \in 0..(Capacity - 1) |-> Nil], head |-> 0, tail |-> 0, length |-> 0]
  /\ idSpans = <<>>
  /\ rpcz \in [when : Configs, ids : {0}, recorded : {<<>>}, ending : {{}}, panicked : {FALSE}]

-----------------------------------------------------------------------------
\* The nodes of record_when: what each asks of a span.
andNode(held) == held # <<>> /\ \A i \in DOMAIN held : held[i]
orNode(held) == \E i \in DOMAIN held : held[i]
hasAttributeNode(n, attr) == n.key \in DOMAIN attr /\ IsPrefix(n.value, attr[n.key])
minRequestSizeNode(n, attr) == "requestSize" \in DOMAIN attr /\ attr["requestSize"] >= n.value
minResponseSizeNode(n, attr) == "responseSize" \in DOMAIN attr /\ attr["responseSize"] >= n.value
minMinDurationNode(n, attr) == n.value = 0 \/ attr["duration"] >= n.value
rpcNameNode(n, attr) == "rpcName" \in DOMAIN attr /\ IsPrefix(n.value, attr["rpcName"])
errorCodeNode(n, attr) == "error" \in DOMAIN attr /\ attr["error"].code = n.value
\* The condition's text has to hold the error's message, not the other way round.
errorMessageNode(n, attr) == "error" \in DOMAIN attr /\ IsPrefix(attr["error"].msg, n.value)
RECURSIVE shouldRecord(_, _)
shouldRecord(n, attr) ==
  LET held == [i \in DOMAIN n.nodes |-> shouldRecord(n.nodes[i], attr)] IN
  CASE n.kind = "AND" -> andNode(held)
    [] n.kind = "OR" -> orNode(held)
    [] n.kind = "NOT" -> ~held[1]
    [] n.kind = "hasAttribute" -> hasAttributeNode(n, attr)
    [] n.kind = "minRequestSize" -> minRequestSizeNode(n, attr)
    [] n.kind = "minResponseSize" -> minResponseSizeNode(n, attr)
    [] n.kind = "minDuration" -> minMinDurationNode(n, attr)
    [] n.kind = "rpcName" -> rpcNameNode(n, attr)
    [] n.kind = "errorCode" -> errorCodeNode(n, attr)
    [] n.kind = "errorMessage" -> errorMessageNode(n, attr)

-----------------------------------------------------------------------------
Active(s) == spans[s].state = "active"
\* newSpan: a span from the pool, that still has nothing of its last use.
newSpan(all, s, id, parent) == [all EXCEPT ![s] = [Free EXCEPT !.state = "active", !.id = id, !.parent = parent]]
InPool(s) == spans[s].state = "pool"

\* putSpanToPool: a span and those of its children that have ended.
RECURSIVE putSpanToPool(_, _)
putSpanToPool(all, s) ==
  FoldLeft(LAMBDA acc, c : IF all[c].ended THEN putSpanToPool(acc, c) ELSE acc,
           [all EXCEPT ![s] = Free], all[s].children)

\* RPCZ.NewChild: a root, or nothing where the sampler does not take it.
NewRoot(s) ==
  /\ InPool(s) /\ rpcz.ids < MaxSpans /\ ~rpcz.panicked
  /\ spans' = newSpan(spans, s, rpcz.ids + 1, RPCZ)
  /\ rpcz' = [rpcz EXCEPT !.ids = @ + 1]
  /\ UNCHANGED <<array, idSpans>>

\* span.NewChild: a child has its parent's id.
NewChild(p, s) ==
  /\ Active(p) /\ ~spans[p].ended /\ InPool(s) /\ rpcz.ids < MaxSpans /\ ~rpcz.panicked
  /\ spans' = [newSpan(spans, s, spans[p].id, p) EXCEPT ![p].children = Append(@, s)]
  /\ rpcz' = [rpcz EXCEPT !.ids = @ + 1]
  /\ UNCHANGED <<array, idSpans>>

\* End, first half: trySetEndTime.
EndTime(s, attr) ==
  /\ Active(s) /\ ~spans[s].ended /\ ~rpcz.panicked
  /\ ChildrenEndFirst => \A i \in DOMAIN spans[s].children : spans[spans[s].children[i]].ended /\ spans[s].children[i] \notin rpcz.ending
  /\ spans' = [spans EXCEPT ![s].ended = TRUE, ![s].attr = attr]
  /\ rpcz' = [rpcz EXCEPT !.ending = @ \cup {s}]
  /\ UNCHANGED <<array, idSpans>>

nextIndex(i) == (i + 1) % Capacity
previousIndex(i) == (i + Capacity - 1) % Capacity
full == array.length >= Capacity
front == array.data[array.head]
dequeue(a) == [a EXCEPT !.head = nextIndex(@), !.length = @ - 1]
enqueue(a, s) == [a EXCEPT !.data[a.tail] = s, !.tail = nextIndex(@), !.length = @ + 1]
Without(f, x) == [y \in DOMAIN f \ {x} |-> f[y]]
With(f, x, v) == [y \in DOMAIN f \cup {x} |-> IF y = x THEN v ELSE f[y]]

\* spanStore.insert: the oldest gives way.
\* Mutant: the index keeps the span that gave way.
insertKeeping(s) ==
  /\ array' = enqueue(IF full THEN dequeue(array) ELSE array, s)
  /\ idSpans' = With(idSpans, spans[s].id, s)
  /\ spans' = IF full THEN putSpanToPool(spans, front) ELSE spans
insert(s) ==
  /\ array' = enqueue(IF full THEN dequeue(array) ELSE array, s)
  /\ idSpans' = With(IF full THEN Without(idSpans, spans[front].id) ELSE idSpans, spans[s].id, s)
  /\ spans' = IF full THEN putSpanToPool(spans, front) ELSE spans

\* RPCZ.record.
record(s) ==
  IF ~shouldRecord(rpcz.when, spans[s].attr)
  THEN /\ rpcz' = [rpcz EXCEPT !.ending = @ \ {s}]
       /\ spans' = [spans EXCEPT ![s].state = "garbage"]
       /\ UNCHANGED <<array, idSpans>>
  ELSE /\ insert(s)
       /\ rpcz' = [rpcz EXCEPT !.ending = @ \ {s}, !.recorded = Append(@, [id |-> spans[s].id, attr |-> spans[s].attr])]

\* span.record: a child that its parent no longer knows goes back to the pool.
recordChild(s) ==
  /\ spans' = IF s \in Range(spans[spans[s].parent].children) THEN spans ELSE putSpanToPool(spans, s)
  /\ rpcz' = [rpcz EXCEPT !.ending = @ \ {s}]
  /\ UNCHANGED <<array, idSpans>>

\* End, second half: the parent is read again, and records the span.
EndRecord(s) ==
  /\ s \in rpcz.ending /\ ~rpcz.panicked
  /\ IF spans[s].parent = Nil THEN rpcz' = [rpcz EXCEPT !.panicked = TRUE] /\ UNCHANGED <<spans, array, idSpans>>
     ELSE IF spans[s].parent = RPCZ THEN record(s)
     ELSE recordChild(s)

RpczNext ==
  \E s \in Spans :
    \/ NewRoot(s)
    \/ \E p \in Spans : NewChild(p, s)
    \/ \E attr \in Attrs : EndTime(s, attr)
    \/ EndRecord(s)
Spec == Init /\ [][RpczNext]_rpczVars

-----------------------------------------------------------------------------
\* doBackward and batchQuery: the newest first.
batchQuery(num) ==
  LET at[i \in 0..Capacity] == IF i = 0 THEN array.tail ELSE previousIndex(at[i - 1]) IN
  [i \in 1..Min({num, array.length}) |-> array.data[at[i]]]

(* The store shows exactly the spans recorded last, the newest first, each *)
(* under its own id and with what it knew when it ended, whatever was      *)
(* recycled meanwhile (spanStore, spanArray, putSpanToPool).               *)
Newest == LET n == Len(rpcz.recorded) IN
          [i \in 1..Min({n, Capacity}) |-> rpcz.recorded[n + 1 - i]]
StoreShowsNewest ==
  ~rpcz.panicked =>
    LET shown == batchQuery(Capacity) IN
    /\ [i \in DOMAIN shown |-> [id |-> spans[shown[i]].id, attr |-> spans[shown[i]].attr]] = Newest
    /\ DOMAIN idSpans = {Newest[i].id : i \in DOMAIN Newest}
    /\ \A id \in DOMAIN idSpans : idSpans[id] \in Range(shown) /\ spans[idSpans[id]].id = id

(* "End sets span's endTime and record span to its parent" (span.go:160):  *)
(* a span that ends still has its parent.                                  *)
EndFindsParent == ~rpcz.panicked
=============================================================================

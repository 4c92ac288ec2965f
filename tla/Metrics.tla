----------------------------- MODULE Metrics ------------------------------
(* The metrics package: instruments made on first use, sinks that get what *)
(* they report, and histograms whose buckets every histogram sink must     *)
(* know.  Goroutines register sinks, make instruments and report; the five *)
(* mutexes are never held together, so each locked section is a step.      *)
EXTENDS Integers, Sequences, FiniteSets, SequencesExt

CONSTANTS
  Goroutines,
  Todo,         \* what each may do: records of op, name and value
  Bounds,       \* the bounds of a histogram, by name
  HistSinks,    \* the sinks that implement HistogramSink
  Inf           \* beyond every value

VARIABLES
  metricsSinks,   \* the sinks by name: which object it is, and the histograms it was told of
  instruments,    \* for each kind and name the number of the instrument, and how many were made
  histograms,     \* the bucket totals by name
  calls,          \* where each goroutine is
  added           \* what was called: each of Todo at most once
metricsVars == <<metricsSinks, instruments, histograms, calls, added>>

Idle == [pc |-> "idle", op |-> "none", name |-> "", value |-> 0, rest |-> {}]

MetricsInit ==
  /\ metricsSinks = [s \in {} |-> {}]
  /\ instruments = [made |-> 0, of |-> [k \in {} |-> 0], given |-> {}]
  /\ histograms = [h \in {} |-> <<>>]
  /\ calls = [g \in Goroutines |-> Idle]
  /\ added = {}

Begin(g, t) ==
  /\ calls[g] = Idle
  /\ t \notin added
  /\ calls' = [calls EXCEPT ![g] = [Idle EXCEPT !.op = t.op, !.name = t.name, !.value = t.value, !.pc =
                                      CASE t.op = "sink" -> "sink" [] t.op = "sample" -> "find" [] OTHER -> "load"]]
  /\ added' = added \cup {t}
  /\ UNCHANGED <<metricsSinks, instruments, histograms>>

-----------------------------------------------------------------------------
(* Counter, Gauge and Timer: looked up under the read lock, then again under the lock *)

Key(g) == <<calls[g].op, calls[g].name>>
Given(k, i) == [instruments EXCEPT !.given = @ \cup {<<k, i>>}]
Load(g) ==
  /\ calls[g].pc = "load"
  /\ IF Key(g) \in DOMAIN instruments.of
     THEN /\ instruments' = Given(Key(g), instruments.of[Key(g)])
          /\ calls' = [calls EXCEPT ![g].pc = "report"]
     ELSE UNCHANGED instruments /\ calls' = [calls EXCEPT ![g].pc = "create"]
  /\ UNCHANGED <<metricsSinks, histograms, added>>

CreateUnchecked(g) ==
  LET n == instruments.made + 1 IN
  /\ calls[g].pc = "create"
  /\ instruments' = [made |-> n, of |-> [k \in DOMAIN instruments.of \cup {Key(g)} |->
                                          IF k = Key(g) THEN n ELSE instruments.of[k]],
                     given |-> instruments.given \cup {<<Key(g), n>>}]
  /\ calls' = [calls EXCEPT ![g].pc = "report"]
  /\ UNCHANGED <<metricsSinks, histograms, added>>
Create(g) ==
  LET n == instruments.made + 1 IN
  /\ calls[g].pc = "create"
  /\ instruments' =
       IF Key(g) \in DOMAIN instruments.of THEN Given(Key(g), instruments.of[Key(g)])
       ELSE [made |-> n, of |-> [k \in DOMAIN instruments.of \cup {Key(g)} |->
                                   IF k = Key(g) THEN n ELSE instruments.of[k]],
             given |-> instruments.given \cup {<<Key(g), n>>}]
  /\ calls' = [calls EXCEPT ![g].pc = "report"]
  /\ UNCHANGED <<metricsSinks, histograms, added>>

\* counter.IncrBy, gauge.Set, timer.RecordDuration: the sinks of one moment get the record (snapshotMetricsSinks).
Report(g) ==
  /\ calls[g].pc = "report"
  /\ calls' = [calls EXCEPT ![g].pc = "sinks", ![g].rest = DOMAIN metricsSinks]
  /\ UNCHANGED <<metricsSinks, instruments, histograms, added>>

-----------------------------------------------------------------------------
(* RegisterMetricsSink *)

\* A sink of the same name is replaced by one that knows nothing.
RegisterMetricsSink(g) ==
  LET s == calls[g].name IN
  /\ calls[g].pc = "sink"
  /\ metricsSinks' = [x \in DOMAIN metricsSinks \cup {s} |->
                        IF x = s THEN [object |-> calls[g].value, knows |-> {}] ELSE metricsSinks[x]]
  /\ calls' = [calls EXCEPT ![g] = IF s \in HistSinks THEN [@ EXCEPT !.pc = "tell"] ELSE Idle]
  /\ UNCHANGED <<instruments, histograms, added>>

TellSink(g) ==
  /\ calls[g].pc = "tell"
  /\ metricsSinks' = [metricsSinks EXCEPT ![calls[g].name].knows =
                        IF metricsSinks[calls[g].name].object = calls[g].value THEN @ \cup DOMAIN histograms ELSE @]
  /\ calls' = [calls EXCEPT ![g] = Idle]
  /\ UNCHANGED <<instruments, histograms, added>>

-----------------------------------------------------------------------------
(* Histogram, AddSample *)

\* newBucketRanges: from each bound to the next, from below the first and to beyond the last.
sorted(b) == SortSeq(b, <)
newBucketRanges(b) == Append(sorted(b), Inf)   \* LookupByValue: the upper bounds
newHistogram(b) == [i \in 1..Len(newBucketRanges(b)) |-> 0]
\* sort.SearchFloat64s.
Search(upper, v) == CHOOSE i \in 1..Len(upper) : upper[i] >= v /\ \A j \in 1..(i - 1) : upper[j] < v

GetHistogram(g) ==
  /\ calls[g].pc = "find"
  /\ calls' = [calls EXCEPT ![g].pc = IF calls[g].name \in DOMAIN histograms THEN "add" ELSE "make"]
  /\ UNCHANGED <<metricsSinks, instruments, histograms, added>>

Histogram(g) ==
  LET h == calls[g].name IN
  /\ calls[g].pc = "make"
  /\ IF h \in DOMAIN histograms THEN UNCHANGED histograms /\ calls' = [calls EXCEPT ![g].pc = "add"]
     ELSE /\ histograms' = [x \in DOMAIN histograms \cup {h} |->
                              IF x = h THEN newHistogram(Bounds[h]) ELSE histograms[x]]
          /\ calls' = [calls EXCEPT ![g].pc = "announce"]
  /\ UNCHANGED <<metricsSinks, instruments, added>>

Announce(g) ==
  /\ calls[g].pc = "announce"
  /\ metricsSinks' = [s \in DOMAIN metricsSinks |->
                        IF s \in HistSinks THEN [metricsSinks[s] EXCEPT !.knows = @ \cup {calls[g].name}]
                        ELSE metricsSinks[s]]
  /\ calls' = [calls EXCEPT ![g].pc = "add"]
  /\ UNCHANGED <<instruments, histograms, added>>

\* The bucket's own total, then snapshotMetricsSinks.
AddSample(g) ==
  LET h == calls[g].name  i == Search(newBucketRanges(Bounds[h]), calls[g].value) IN
  /\ calls[g].pc = "add"
  /\ histograms' = [histograms EXCEPT ![h][i] = @ + calls[g].value]
  /\ calls' = [calls EXCEPT ![g].pc = "sinks", ![g].rest = DOMAIN metricsSinks]
  /\ UNCHANGED <<metricsSinks, instruments, added>>

\* ConsoleSink.addSample adds the value to the same buckets again; the other sinks have their own.
consoleAddSample(h, v) ==
  [histograms EXCEPT ![h][Search(newBucketRanges(Bounds[h]), v)] = @ + v]
ReportTo(g) ==
  /\ calls[g].pc = "sinks"
  /\ IF calls[g].rest = {} THEN calls' = [calls EXCEPT ![g] = Idle] /\ UNCHANGED histograms
     ELSE \E s \in calls[g].rest :
            /\ calls' = [calls EXCEPT ![g].rest = @ \ {s}]
            /\ histograms' = IF calls[g].op = "sample" /\ s = "console"
                             THEN consoleAddSample(calls[g].name, calls[g].value) ELSE histograms
  /\ UNCHANGED <<metricsSinks, instruments, added>>

MetricsNext ==
  \E g \in Goroutines :
    \/ \E t \in Todo : Begin(g, t)
    \/ Load(g) \/ Create(g) \/ Report(g) \/ RegisterMetricsSink(g) \/ TellSink(g)
    \/ GetHistogram(g) \/ Histogram(g) \/ Announce(g) \/ AddSample(g) \/ ReportTo(g)

-----------------------------------------------------------------------------
(* Every histogram sink knows every histogram once the calls that made     *)
(* either have returned: RegisterMetricsSink and Histogram each add their  *)
(* own first and tell the others' after it, without a common lock.         *)
SinksKnowHistograms ==
  \A s \in DOMAIN metricsSinks, h \in DOMAIN histograms :
    s \in HistSinks /\ h \notin metricsSinks[s].knows =>
      \/ \E g \in Goroutines : calls[g].pc = "tell" /\ calls[g].value = metricsSinks[s].object
      \/ \E g \in Goroutines : calls[g].pc = "announce" /\ calls[g].name = h

(* Counter, Gauge and Timer give the same instrument to every caller of a  *)
(* name, however the calls race.                                           *)
OneInstrument == \A x, y \in instruments.given : x[1] = y[1] => x = y

(* A bucket's total is the sum of the samples between its bounds: every    *)
(* sample counts once ("AddSample records a sample into histogram.",       *)
(* histogram.go:24).                                                       *)
SamplesCountOnce ==
  (\A g \in Goroutines : calls[g] = Idle) =>
    \A h \in DOMAIN histograms : \A i \in 1..Len(histograms[h]) :
      histograms[h][i] =
        FoldSet(LAMBDA t, sum : sum + t.value, 0,
                {t \in added : /\ t.op = "sample" /\ t.name = h
                               /\ Search(newBucketRanges(Bounds[h]), t.value) = i})
=============================================================================

------------------------------- MODULE Naming -------------------------------
(***************************************************************************)
(* Choosing the node of a call: the selectors (TrpcSelector, ipSelector,   *)
(* passthroughSelector) and the load balancers of naming/loadbalance, for  *)
(* one service name, used by several callers at once.                      *)
(*                                                                         *)
(* A selection has two steps.  Begin asks the discovery and the router for *)
(* the list of nodes and takes what the balancer reads under its own lock  *)
(* before it chooses (the banned nodes of the context, the hash ring).     *)
(* Choose makes the choice.  Another caller may run between the two.       *)
(***************************************************************************)
EXTENDS Integers, SequencesExt, FiniteSetsExt

CONSTANTS Callers,          \* goroutines that select at the same time
          Lists,            \* what the discovery may answer: sequences of addresses
          Weight,           \* the weight each address is registered with
          DefaultWeight,    \* what a weight of 0 stands for (1000 in the code)
          Interval,         \* refresh interval of the round robin pickers, in ticks
          Replicas,         \* points a node has on the hash ring
          Hashes,           \* hash functions: positions of the points, the key and its inner hash
          MaxSelects        \* per kind: bound on the selections of a behaviour

VARIABLES setup,            \* the configuration of the client, chosen at the start
          listed,           \* the list the discovery answers now
          picker,           \* the picker of the service name
          bans,             \* addresses banned in the context the callers share
          breakers,         \* Metadata["circuitbreaker"] of the discovery's own nodes
          selections,       \* per caller: the selection under way
          trace             \* what was chosen so far, for the properties

namingVars == <<setup, listed, picker, bans, breakers, selections, trace>>

None == "none"
Kinds == {"random", "round_robin", "weight_round_robin", "consistent_hash",
          "ip", "passthrough"}
Idle == [pc |-> "idle", list |-> <<>>, bans |-> {}, ring |-> <<>>,
         node |-> None, copied |-> FALSE, breaker |-> None]
Addresses == UNION {ToSet(l) : l \in Lists}
NoCounts == [a \in Addresses |-> 0]
NewPicker == [list |-> <<>>, age |-> 0, next |-> 1, ring |-> <<>>]

Init ==
  /\ \E kind \in Kinds, hash \in Hashes, mandatory, banning \in BOOLEAN :
       /\ kind # "consistent_hash" => hash = CHOOSE h \in Hashes : TRUE
       /\ ~banning \/ kind \notin {"random", "ip"} => ~mandatory
       /\ kind \notin {"random", "ip"} => ~banning
       /\ setup = [kind |-> kind, hash |-> hash, mandatory |-> mandatory, banning |-> banning]
  /\ listed \in Lists
  /\ picker = NewPicker
  /\ bans = {}
  /\ breakers = [a \in Addresses |-> None]
  /\ selections = [c \in Callers |-> Idle]
  /\ trace = [selects |-> 0, counts |-> NoCounts, answers |-> {}, repeats |-> {},
              staleAge |-> 0, reports |-> {}]
-----------------------------------------------------------------------------
(* Round robin: the picker takes the list over when it has none, when the  *)
(* length changed, or when it took the last one over an interval ago.      *)
NeedsUpdate(p, list) ==
  \/ Len(p.list) = 0
  \/ Len(p.list) # Len(list)
  \/ p.age > Interval

updateStateRR(p, list) ==
  IF NeedsUpdate(p, list) THEN [p EXCEPT !.list = list, !.age = 0, !.next = 1] ELSE p

\* rrPicker.Pick: the node at next, and next moves on, modulo the length.
PickRR(p, list) ==
  LET u == updateStateRR(p, list) IN
  IF u.list = <<>>
  THEN [picker |-> u, node |-> None]
  ELSE [picker |-> [u EXCEPT !.next = (@ % Len(u.list)) + 1], node |-> u.list[u.next]]

getServers(list) ==
  [i \in DOMAIN list |->
     LET w == IF Weight[list[i]] = 0 THEN DefaultWeight ELSE Weight[list[i]]
     IN [node |-> list[i], weight |-> w, effect |-> w, current |-> 0]]

updateStateWRR(p, list) ==
  IF NeedsUpdate(p, list) THEN [p EXCEPT !.list = getServers(list), !.age = 0] ELSE p

\* Every server gains its effective weight; the first with the most current
\* weight is selected and pays the total.
selectServer(servers) ==
  LET gained == [i \in DOMAIN servers |->
                   [servers[i] EXCEPT !.current = @ + servers[i].effect,
                                      !.effect = IF @ < servers[i].weight THEN @ + 1 ELSE @]]
      total  == FoldLeft(LAMBDA acc, s : acc + s.effect, 0, servers)
      best(i) == \A j \in DOMAIN gained :
                   IF j < i THEN gained[j].current < gained[i].current
                            ELSE gained[j].current <= gained[i].current
      selected == CHOOSE i \in DOMAIN gained : best(i)
  IN [index |-> selected, servers |-> [gained EXCEPT ![selected].current = @ - total]]

PickWRR(p, list) ==
  LET u == updateStateWRR(p, list) IN
  IF u.list = <<>>
  THEN [picker |-> u, node |-> None]
  ELSE LET s == selectServer(u.list)
       IN [picker |-> [u EXCEPT !.list = s.servers], node |-> u.list[s.index].node]
-----------------------------------------------------------------------------
(* Consistent hash.  The ring maps a position to the nodes with a point    *)
(* there, in the order of the list.                                        *)
Points(list) ==
  [k \in 1 .. Len(list) * Replicas |-> <<list[((k - 1) \div Replicas) + 1], (k - 1) % Replicas>>]

Ring(list) ==
  LET points == Points(list)
      at(h)  == SelectSeq(points, LAMBDA p : setup.hash.point[p] = h)
  IN [h \in {setup.hash.point[points[k]] : k \in DOMAIN points} |->
        [k \in DOMAIN at(h) |-> at(h)[k][1]]]

\* chPicker.updateState: the ring is built anew only for another list of addresses.
updateStateCH(p, list) ==
  IF p.list = list THEN p ELSE [p EXCEPT !.list = list, !.ring = Ring(list)]

\* The first position at or after the key's, wrapping to the first of all; the
\* inner hash of the key chooses among nodes that collide there.
Search(ring, hash) ==
  LET after == {h \in DOMAIN ring : h >= hash}
      at    == ring[IF after = {} THEN Min(DOMAIN ring) ELSE Min(after)]
  IN at[(setup.hash.inner % Len(at)) + 1]
-----------------------------------------------------------------------------
(* The banned nodes of a context, and the random choice among the others.  *)
chooseUnbanned(list, banned) == {a \in ToSet(list) : a \notin banned}

\* Addresses Random or ipSelector may return: unbanned ones; when there is none,
\* any node, unless the ban is mandatory.
Eligible(list, banned) ==
  IF chooseUnbanned(list, banned) = {} /\ ~setup.mandatory
  THEN ToSet(list)
  ELSE chooseUnbanned(list, banned)

\* Mutant: the caller gets the discovery's node.
DeepCopyNodeShares(a) == [node |-> a, copied |-> FALSE]
\* DeepCopyNode: the caller gets a node of its own.
DeepCopyNode(a) == [node |-> a, copied |-> TRUE]

-----------------------------------------------------------------------------
Fail(c) == selections' = [selections EXCEPT ![c] = Idle]

RoundRobin == setup.kind \in {"round_robin", "weight_round_robin"}
Direct == setup.kind \in {"ip", "passthrough"}

\* TrpcSelector.Select up to the balancer.  ipSelector and passthroughSelector
\* take the addresses from the target and consult nobody.
Begin(c) ==
  /\ selections[c].pc = "idle"
  /\ trace.selects < MaxSelects[setup.kind]
  /\ Direct => listed # <<>>
  /\ LET u == IF setup.kind = "consistent_hash" /\ listed # <<>>
              THEN updateStateCH(picker, listed) ELSE picker
     IN /\ picker' = u
        /\ selections' = [selections EXCEPT ![c] =
             [Idle EXCEPT !.pc = "picking", !.list = listed, !.bans = bans, !.ring = u.ring]]
  /\ trace' = [trace EXCEPT !.selects = @ + 1]
  /\ UNCHANGED <<setup, listed, bans, breakers>>

\* A missing or failing discovery, router, balancer or circuit breaker: the
\* selection ends before the balancer is asked.
BeginFails(c) ==
  /\ selections[c].pc = "idle"
  /\ trace.selects < MaxSelects[setup.kind]
  /\ ~Direct
  /\ trace' = [trace EXCEPT !.selects = @ + 1]
  /\ UNCHANGED <<setup, listed, picker, bans, breakers, selections>>

\* The selector's result: the node, its breaker in its metadata (TrpcSelector
\* only), and the ban of the node in the context.
Return(c, a, taken) ==
  LET n == DeepCopyNode(a)
      b == IF Direct THEN None ELSE c
      stale == a \notin ToSet(selections[c].list)
  IN /\ selections' = [selections EXCEPT ![c].pc = "chosen", ![c].node = n.node,
                                         ![c].copied = n.copied, ![c].breaker = b]
     /\ breakers' = IF n.copied THEN breakers ELSE [breakers EXCEPT ![a] = b]
     /\ bans' = IF setup.banning THEN bans \cup {a} ELSE bans
     /\ trace' = [trace EXCEPT
          !.counts  = CASE ~RoundRobin -> @
                        [] RoundRobin /\ taken -> [NoCounts EXCEPT ![a] = 1]
                        [] OTHER -> [@ EXCEPT ![a] = @ + 1],
          !.answers = IF setup.kind = "consistent_hash"
                      THEN @ \cup {<<ToSet(selections[c].list), a>>} ELSE @,
          !.repeats = IF a \in bans THEN @ \cup {[node |-> a, seen |-> selections[c].bans,
                                                  list |-> ToSet(selections[c].list)]}
                                    ELSE @,
          !.staleAge = IF ~stale THEN @
                       ELSE Max({@, IF RoundRobin THEN picker.age ELSE Interval + 1})]

\* The balancer has no node to give (ErrNoServerAvailable).
NoServer(c) ==
  /\ Fail(c)
  /\ UNCHANGED <<bans, breakers, trace>>

ChooseRR(c) ==
  /\ RoundRobin
  /\ LET list == selections[c].list
         p == IF setup.kind = "round_robin" THEN PickRR(picker, list) ELSE PickWRR(picker, list)
     IN /\ picker' = p.picker
        /\ IF p.node = None THEN NoServer(c) ELSE Return(c, p.node, NeedsUpdate(picker, list))

ChooseCH(c) ==
  /\ setup.kind = "consistent_hash"
  /\ IF selections[c].list = <<>>
     THEN NoServer(c)
     ELSE Return(c, Search(selections[c].ring, setup.hash.key), FALSE)
  /\ UNCHANGED picker

ChooseRandom(c) ==
  /\ setup.kind \in {"random", "ip"}
  /\ LET choices == IF setup.banning THEN Eligible(selections[c].list, selections[c].bans)
                            ELSE ToSet(selections[c].list)
     IN IF choices = {} THEN NoServer(c) ELSE \E a \in choices : Return(c, a, FALSE)
  /\ UNCHANGED picker

\* passthroughSelector: the service name itself is the address.
ChoosePassthrough(c) ==
  /\ setup.kind = "passthrough"
  /\ Return(c, selections[c].list[1], FALSE)
  /\ UNCHANGED picker

Choose(c) ==
  /\ selections[c].pc = "picking"
  /\ ChooseRR(c) \/ ChooseCH(c) \/ ChooseRandom(c) \/ ChoosePassthrough(c)
  /\ UNCHANGED <<setup, listed>>

\* TrpcSelector.Report: the breaker in the node's metadata is told.
Report(c) ==
  /\ selections[c].pc = "chosen"
  /\ LET s == selections[c]
         b == IF s.copied THEN s.breaker ELSE breakers[s.node]
     IN trace' = [trace EXCEPT !.reports = IF Direct THEN @ ELSE @ \cup {<<c, b>>}]
  /\ Fail(c)
  /\ UNCHANGED <<setup, listed, picker, bans, breakers>>

\* The registered nodes change.
Discover(list) ==
  /\ list # listed
  /\ listed' = list
  /\ UNCHANGED <<setup, picker, bans, breakers, selections, trace>>

\* Time passes, as far as the pickers can tell.
Tick ==
  /\ RoundRobin
  /\ picker.list # <<>> /\ picker.age <= Interval
  /\ picker' = [picker EXCEPT !.age = @ + 1]
  /\ UNCHANGED <<setup, listed, bans, breakers, selections, trace>>

NamingNext ==
  \/ \E c \in Callers : Begin(c) \/ BeginFails(c) \/ Choose(c) \/ Report(c)
  \/ \E list \in Lists : Discover(list)
  \/ Tick
-----------------------------------------------------------------------------
\* The state stays well formed: the round robin index points into the list, and
\* the selected server of the weighted one pays exactly what all gained.
TypeOK ==
  /\ bans \subseteq Addresses
  /\ picker.age \in 0 .. Interval + 1
  /\ setup.kind = "round_robin" /\ picker.list # <<>> => picker.next \in DOMAIN picker.list
  /\ setup.kind = "weight_round_robin" =>
       FoldLeft(LAMBDA acc, s : acc + s.current, 0, picker.list) = 0

\* A node that is not in the list the caller was given is chosen only by a round
\* robin picker, from a list it took over no longer than the interval ago.
StaleNoLongerThanInterval == trace.staleAge <= Interval

\* Between two takeovers of the list, round robin serves every node equally (the
\* counts differ by at most one), and weighted round robin by weight: exactly so
\* whenever the number of choices is a multiple of the total weight, and never a
\* whole round off in between.
SharesFollowWeights ==
  /\ setup.kind = "round_robin" =>
       \A i, j \in DOMAIN picker.list :
         trace.counts[picker.list[i]] <= trace.counts[picker.list[j]] + 1
  /\ setup.kind = "weight_round_robin" =>
       LET total == FoldLeft(LAMBDA acc, s : acc + s.weight, 0, picker.list)
           n     == FoldLeft(LAMBDA acc, s : acc + trace.counts[s.node], 0, picker.list)
       IN \A i \in DOMAIN picker.list :
            LET s   == picker.list[i]
                off == trace.counts[s.node] * total - s.weight * n
            IN /\ off < total /\ -off < total
               /\ n % total = 0 => off = 0

\* Consistent hash: when no two points collide, taking nodes away from the list
\* moves only the keys of those nodes, whoever selects and in whichever order.
KeysStay ==
  (\A p, q \in (Addresses \X (0 .. Replicas - 1)) : setup.hash.point[p] = setup.hash.point[q] => p = q)
    => \A x, y \in trace.answers : y[1] \subseteq x[1] /\ x[2] \in y[1] => x[2] = y[2]

\* A node already banned is chosen again only if it was banned after the caller
\* read the bans, or if every node was banned and the ban is not mandatory.
BannedOnlyAsLastResort ==
  \A r \in trace.repeats :
    \/ r.node \notin r.seen
    \/ ~setup.mandatory /\ r.list \subseteq r.seen

\* The outcome of a call is reported to the circuit breaker of the caller that
\* made it, though callers with other breakers share the discovery's nodes.
ReportsReachOwnBreaker == \A r \in trace.reports : r[1] = r[2]
=============================================================================

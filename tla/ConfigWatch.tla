---------------------------- MODULE ConfigWatch ----------------------------
(* Package config: configurations loaded from a file (TrpcConfigLoader),   *)
(* shared by the loads that ask for the same, and kept up to date by the   *)
(* file provider, which is told of the file's changes.                     *)
EXTENDS Integers, Sequences, SequencesExt, FiniteSetsExt, Functions

CONSTANTS
  Loaders,       \* the goroutines that load: a name to whether it watches and its codec
  Contents,      \* what the file may hold; "bad" does not parse
  MaxWrites,
  MaxReloads,
  Calm           \* the file is written once the last change was seen, in another second; one load at a time

VARIABLES
  file,       \* what the file holds, the second it was written in, the second it is now
  provider,   \* the callbacks, what was read so far, the changes to look at, the one being looked at
  calls,      \* the callbacks under way, each with what the file held
  set,        \* the configurations of this file, by identity
  configs,    \* a configuration's identity to its value
  loader      \* a loader to where it is
configVars == <<file, provider, calls, set, configs, loader>>

Nothing == "nothing"
Init ==
  /\ file \in [content : Contents \ {"bad"}, written : {1}, now : {1}, writes : {0}, good : Contents \ {"bad"}]
  /\ file.good = file.content
  /\ provider = [cbs |-> 0, cached |-> FALSE, modTime |-> 0, events |-> 0, looking |-> 0, asked |-> FALSE]
  /\ calls = <<>>
  /\ set = {} /\ configs = <<>>
  /\ loader = [l \in DOMAIN Loaders |-> [pc |-> "idle", reloads |-> 0, result |-> "none"]]

-----------------------------------------------------------------------------
\* newTrpcConfig: what makes two configurations the same.
idOf(l) == Loaders[l]

\* The file is written.
Quiet == provider.events = 0 /\ provider.looking = 0 /\ calls = <<>> /\ file.now > file.written
WriteFile(c) ==
  /\ file.writes < MaxWrites /\ c # file.content /\ (Calm => Quiet)
  /\ file' = [file EXCEPT !.content = c, !.written = file.now, !.writes = @ + 1, !.good = IF c = "bad" THEN @ ELSE c]
  /\ provider' = IF provider.cached THEN [provider EXCEPT !.events = @ + 1] ELSE provider
  /\ UNCHANGED <<calls, set, configs, loader>>
Second ==
  /\ file.now <= file.written
  /\ file' = [file EXCEPT !.now = @ + 1]
  /\ UNCHANGED <<provider, calls, set, configs, loader>>

\* FileProvider.run: a callback is taken.
TakeCallback ==
  /\ provider.asked /\ provider.looking = 0
  /\ provider' = [provider EXCEPT !.asked = FALSE, !.cbs = @ + 1]
  /\ UNCHANGED <<file, calls, set, configs, loader>>
\* isModified: the file's time is later than the last one, in seconds.
isModified ==
  /\ provider.events > 0 /\ provider.looking = 0
  /\ provider' = [provider EXCEPT !.events = @ - 1, !.looking = IF file.written > provider.modTime THEN file.written ELSE 0]
  /\ UNCHANGED <<file, calls, set, configs, loader>>
\* trigger: each callback on a goroutine of its own.
trigger ==
  /\ provider.looking # 0
  /\ provider' = [provider EXCEPT !.modTime = provider.looking, !.looking = 0]
  /\ calls' = IF provider.cbs > 0 THEN Append(calls, file.content) ELSE calls
  /\ UNCHANGED <<file, set, configs, loader>>

\* TrpcConfig.set: a value that does not parse leaves the last one.
setValue(id, content) == IF content = "bad" THEN configs ELSE [configs EXCEPT ![id] = content]
\* watcher.watch, set.watch and doWatch: those that do not watch are dropped, the others get the value.
\* Mutant: the configurations that watch are dropped too.
watchDropping(content) ==
  /\ set' = {}
  /\ configs' = configs
watch(content) ==
  /\ set' = {id \in set : id.watch}
  /\ configs' = [id \in DOMAIN configs |-> IF id \in set /\ id.watch /\ content # "bad" THEN content ELSE configs[id]]
Callback(i) ==
  /\ watch(calls[i])
  /\ calls' = RemoveAt(calls, i)
  /\ UNCHANGED <<file, provider, loader>>

-----------------------------------------------------------------------------
At(l, pc) == loader[l].pc = pc
Goto(l, pc) == loader' = [loader EXCEPT ![l].pc = pc]

\* Load: the first load for the provider registers the callback, and waits until it is taken.
Load(l) ==
  /\ At(l, "idle") /\ loader[l].result = "none"
  /\ Calm => \A k \in DOMAIN Loaders : At(k, "idle")
  /\ IF \A k \in DOMAIN Loaders : At(k, "idle") /\ loader[k].result = "none"
     THEN provider' = [provider EXCEPT !.asked = TRUE] /\ Goto(l, "watching")
     ELSE UNCHANGED provider /\ Goto(l, "store")
  /\ UNCHANGED <<file, calls, set, configs>>
Watched(l) ==
  /\ At(l, "watching") /\ ~provider.asked
  /\ Goto(l, "store")
  /\ UNCHANGED <<file, provider, calls, set, configs>>
\* getOrCreate and getOrStore.
getOrStore(l) ==
  /\ At(l, "store")
  /\ configs' = IF idOf(l) \in set THEN configs
                ELSE [id \in DOMAIN configs \cup {idOf(l)} |-> IF id = idOf(l) THEN Nothing ELSE configs[id]]
  /\ set' = set \cup {idOf(l)}
  /\ Goto(l, "init")
  /\ UNCHANGED <<file, provider, calls>>
\* init and readAndSet, under the configuration's lock: the read also makes the provider watch the file.
init(l) ==
  /\ At(l, "init")
  /\ LET id == idOf(l)
         reads == ~id.watch \/ configs[id] = Nothing
     IN /\ configs' = IF reads THEN setValue(id, file.content) ELSE configs
        /\ provider' = IF reads THEN [provider EXCEPT !.cached = TRUE] ELSE provider
        /\ loader' = [loader EXCEPT ![l].pc = "idle",
                        ![l].result = IF reads /\ file.content = "bad" THEN "error" ELSE "loaded"]
  /\ UNCHANGED <<file, calls, set>>
\* Reload: of a configuration that is still in the set; the same content is left.
Reload(l) ==
  /\ At(l, "idle") /\ loader[l].result # "none" /\ loader[l].reloads < MaxReloads
  /\ loader' = [loader EXCEPT ![l].reloads = @ + 1]
  /\ configs' = IF idOf(l) \in set THEN setValue(idOf(l), file.content) ELSE configs
  /\ UNCHANGED <<file, provider, calls, set>>

Provider == TakeCallback \/ isModified \/ trigger
\* The provider, the ticks of its clock, the callbacks and the loads under way go on.
ConfigStep ==
  \/ Second \/ Provider
  \/ \E i \in DOMAIN calls : Callback(i)
  \/ \E l \in DOMAIN Loaders : Watched(l) \/ getOrStore(l) \/ init(l)
ConfigNext ==
  \/ ConfigStep
  \/ \E c \in Contents : WriteFile(c)
  \/ \E l \in DOMAIN Loaders : Load(l) \/ Reload(l)

-----------------------------------------------------------------------------
(* A configuration that watches comes to hold what the file last held that *)
(* parses ("Watch watches config changing. The change will be handled by   *)
(* callback function.", provider.go:82).                                   *)
WatchedCurrent == \A id \in DOMAIN configs : id.watch /\ configs[id] # Nothing => configs[id] = file.good

(* Loads that ask for the same share one configuration, and one that does  *)
(* not watch changes only when it is loaded (set.getOrStore, set.watch).   *)
LoadsDecide ==
  \A id \in DOMAIN configs :
    /\ configs'[id] # configs[id] /\ configs[id] # Nothing /\ ~id.watch => loader' # loader
    /\ id.watch /\ id \in set => id \in set'
=============================================================================

------------------------------- MODULE Logging ------------------------------
(* Package log.  Its writers (log/rollwriter): lines are queued for a      *)
(* goroutine that writes them in batches (AsyncRollWriter), or written by  *)
(* the caller itself; the file they go to is rolled when it is full and    *)
(* when its name's time passes, and a cleaner removes and compresses the   *)
(* files left behind (RollWriter).  Its loggers: by name, the default one, *)
(* those derived from them with fields (With, WithContextFields), and the  *)
(* level of each of a logger's outputs, which is set while it is in use.   *)
(* The two share no state.                                                 *)
EXTENDS Integers, Sequences, SequencesExt, FiniteSets, FiniteSetsExt, Functions

CONSTANTS
  Modes,          \* [async, drop, compress, faults, writers]: how the logger is set up
  MaxLines,       \* lines logged
  MaxSize,        \* lines that fill a file
  MaxBackups,
  WriteLogSize,   \* lines that make a batch
  LogQueueSize,
  MaxTicks        \* how often the time moves the file's name on

VARIABLES
  mode,
  async,     \* the queue, the buffer, what waits to be written, Sync and Close
  writer,    \* a writing goroutine to where it is in RollWriter.Write
  roll,      \* the files opened so far, the current one, its name and size, the ones to be closed
  disk,      \* a file's number to its name and lines; a later file has a higher number
  cleaner    \* the goroutine that cleans
rollVars == <<mode, async, writer, roll, disk, cleaner>>

Gone == [period |-> 0, backup |-> -1, gz |-> FALSE]
Idle == [pc |-> "idle", lines |-> <<>>, fd |-> 0]
RollInit ==
  /\ mode \in Modes
  /\ async = [logged |-> 0, queue |-> <<>>, buffer |-> <<>>, out |-> <<>>, dropped |-> {},
              sync |-> "no", upto |-> 0, close |-> "no"]
  /\ writer = [g \in 1..mode.writers |-> Idle]
  /\ roll = [curr |-> 0, opened |-> <<>>, period |-> 0, ticks |-> 0, due |-> FALSE, size |-> 0, backups |-> 0,
             closing |-> <<>>, closed |-> {}, notify |-> FALSE, acked |-> {}, faults |-> mode.faults]
  /\ disk = <<>>
  /\ cleaner = [pc |-> "idle", compress |-> <<>>, src |-> 0, removed |-> {}]

-----------------------------------------------------------------------------
\* A name: the period of the current file, which backup it is (0: none), whether it is compressed.
Name(period, backup) == [period |-> period, backup |-> backup, gz |-> FALSE]
At(name) == {f \in DOMAIN disk : disk[f].name = name}
Dir == {f \in DOMAIN disk : disk[f].name # Gone}

\* notify: one token is enough.
notify(r) == [r EXCEPT !.notify = TRUE]
\* delayCloseAndRenameFile.
delayCloseAndRenameFile(r, f) == IF f = 0 THEN r ELSE [r EXCEPT !.closing = Append(@, f)]

\* doReopenFile: for appending, or for a new file; it may fail, and then the last file stays.
doReopenFile(r, d, fails) ==
  LET name == Name(r.period, 0)
      there == {f \in DOMAIN d : d[f].name = name}
      f == IF there = {} THEN Len(d) + 1 ELSE CHOOSE f \in there : TRUE
  IN IF fails THEN [r |-> [r EXCEPT !.faults = @ - 1], d |-> d]
     ELSE [r |-> [delayCloseAndRenameFile(r, r.curr) EXCEPT
                    !.opened = Append(@, f), !.curr = Len(r.opened) + 1, !.size = IF there = {} THEN 0 ELSE Len(d[f].lines)],
           d |-> IF there = {} THEN Append(d, [name |-> name, lines |-> <<>>]) ELSE d]

\* Time passes: the file is to be reopened, under the name of a later period.
Tick ==
  /\ roll.ticks < MaxTicks
  /\ roll' = [roll EXCEPT !.ticks = @ + 1, !.due = TRUE]
  /\ UNCHANGED <<mode, async, writer, disk, cleaner>>

\* Write up to the load of the current file: reopenFile, under the lock.
Fails == IF roll.faults > 0 THEN {TRUE, FALSE} ELSE {FALSE}
reopenFile(g) ==
  /\ writer[g].pc = "start"
  /\ \E fails \in Fails :
       LET moved == roll.period # roll.ticks
           r == IF moved THEN notify([roll EXCEPT !.period = roll.ticks, !.due = FALSE]) ELSE [roll EXCEPT !.due = FALSE]
           done == doReopenFile(r, disk, fails)
       IN IF roll.curr = 0 \/ roll.due
          THEN /\ roll' = done.r /\ disk' = done.d
               /\ writer' = [writer EXCEPT ![g] = IF done.r.curr = 0 THEN Idle ELSE [@ EXCEPT !.pc = "loaded", !.fd = done.r.curr]]
          ELSE /\ ~fails /\ UNCHANGED <<roll, disk>>
               /\ writer' = [writer EXCEPT ![g].pc = "loaded", ![g].fd = roll.curr]
  /\ UNCHANGED <<mode, async, cleaner>>

\* Write: into the file that was loaded, unless it has been closed meanwhile.
WriteFile(g) ==
  LET shut == writer[g].fd \in roll.closed
      f == roll.opened[writer[g].fd]
  IN /\ writer[g].pc = "loaded"
     /\ disk' = IF shut THEN disk ELSE [disk EXCEPT ![f].lines = @ \o writer[g].lines]
     /\ roll' = IF shut THEN roll
                ELSE [roll EXCEPT !.size = @ + Len(writer[g].lines), !.acked = @ \cup Range(writer[g].lines)]
     /\ writer' = [writer EXCEPT ![g].pc = "wrote"]
     /\ UNCHANGED <<mode, async, cleaner>>

backupFile(g) ==
  /\ writer[g].pc = "wrote"
  /\ IF roll.size < MaxSize THEN UNCHANGED <<roll, disk>>
     ELSE \E fails \in Fails, renamed \in (IF roll.faults > 1 THEN {TRUE, FALSE} ELSE {TRUE}) :
            LET n == roll.backups + 1
                d == IF renamed THEN [f \in DOMAIN disk |-> IF f \in At(Name(roll.period, 0)) THEN [disk[f] EXCEPT !.name = Name(roll.period, n)] ELSE disk[f]]
                     ELSE disk
                r == [roll EXCEPT !.backups = n, !.size = 0, !.faults = IF renamed THEN @ ELSE @ - 1]
                done == doReopenFile(r, d, fails)
            IN roll' = notify(done.r) /\ disk' = done.d
  /\ writer' = [writer EXCEPT ![g] = Idle]
  /\ UNCHANGED <<mode, async, cleaner>>

\* runCloseFiles: a file is closed some time after it was left.
runCloseFiles ==
  /\ roll.closing # <<>>
  /\ roll' = [roll EXCEPT !.closing = Tail(@), !.closed = @ \cup {Head(roll.closing)}]
  /\ UNCHANGED <<mode, async, writer, disk, cleaner>>

-----------------------------------------------------------------------------
\* getOldLogFiles and matchLogFile: all but the current name, the newest first.
getOldLogFiles ==
  SetToSortSeq({f \in Dir : disk[f].name # Name(roll.period, 0)}, LAMBDA a, b : a > b)
Plain(f) == [disk[f].name EXCEPT !.gz = FALSE]

\* filterByMaxBackups: the names beyond the limit, a file and its compressed form being one.
filterByMaxBackups(files) ==
  LET names(i) == {Plain(files[j]) : j \in 1..i} IN
  IF MaxBackups = 0 \/ Len(files) < MaxBackups THEN {}
  ELSE {files[i] : i \in {i \in DOMAIN files : Cardinality(names(i)) > MaxBackups}}
\* filterByCompressExt.
filterByCompressExt(files) == IF mode.compress THEN SelectSeq(files, LAMBDA f : ~disk[f].name.gz) ELSE <<>>

\* runCleanFiles and cleanFiles, with removeFiles: the oldest go, as the files' times tell it.
cleanFiles ==
  LET files == getOldLogFiles
      removed == filterByMaxBackups(files)
  IN /\ cleaner.pc = "idle" /\ roll.notify
     /\ roll' = [roll EXCEPT !.notify = FALSE]
     /\ disk' = [f \in DOMAIN disk |-> IF f \in removed THEN [disk[f] EXCEPT !.name = Gone] ELSE disk[f]]
     /\ cleaner' = [cleaner EXCEPT !.pc = "clean", !.compress = filterByCompressExt(SelectSeq(files, LAMBDA f : f \notin removed)),
                      !.removed = @ \cup removed]
     /\ UNCHANGED <<mode, async, writer>>

\* compressFile: what the file has now is copied, then the file is removed.
compressFile ==
  /\ cleaner.pc = "clean" /\ cleaner.src = 0 /\ cleaner.compress # <<>>
  /\ LET f == Head(cleaner.compress) IN
     IF disk[f].name = Gone THEN cleaner' = [cleaner EXCEPT !.compress = Tail(@)] /\ UNCHANGED disk
     ELSE /\ disk' = Append(disk, [disk[f] EXCEPT !.name.gz = TRUE])
          /\ cleaner' = [cleaner EXCEPT !.src = f]
  /\ UNCHANGED <<mode, async, writer, roll>>
removeSource ==
  /\ cleaner.src # 0
  /\ disk' = [disk EXCEPT ![cleaner.src].name = Gone]
  /\ cleaner' = [cleaner EXCEPT !.src = 0, !.compress = Tail(@)]
  /\ UNCHANGED <<mode, async, writer, roll>>
cleaned ==
  /\ cleaner.pc = "clean" /\ cleaner.compress = <<>>
  /\ cleaner' = [cleaner EXCEPT !.pc = "idle"]
  /\ UNCHANGED <<mode, async, writer, roll, disk>>

-----------------------------------------------------------------------------
\* A caller logs a line: AsyncRollWriter.Write, which drops it or waits where the queue is full.
Write ==
  LET l == async.logged + 1 IN
  /\ async.logged < MaxLines
  /\ IF mode.async
     THEN /\ Len(async.queue) < LogQueueSize \/ mode.drop
          /\ async' = IF Len(async.queue) < LogQueueSize THEN [async EXCEPT !.logged = l, !.queue = Append(@, l)]
                      ELSE [async EXCEPT !.logged = l, !.dropped = @ \cup {l}]
          /\ UNCHANGED writer
     ELSE \E g \in DOMAIN writer :
            /\ writer[g].pc = "idle"
            /\ writer' = [writer EXCEPT ![g] = [pc |-> "start", lines |-> <<l>>, fd |-> 0]]
            /\ async' = [async EXCEPT !.logged = l]
  /\ UNCHANGED <<mode, roll, disk, cleaner>>

\* batchWriteLog between two writes: nothing waits to be written.
Between == mode.async /\ writer[1].pc = "idle" /\ async.out = <<>> /\ async.close # "closed"
Sets(a) == async' = a /\ UNCHANGED <<mode, writer, roll, disk, cleaner>>
batchTick == Between /\ async.sync # "draining" /\ async.buffer # <<>> /\ Sets([async EXCEPT !.out = <<async.buffer>>, !.buffer = <<>>])
batchTake ==
  /\ Between /\ async.sync # "draining" /\ async.queue # <<>>
  /\ LET b == Append(async.buffer, Head(async.queue))
         a == [async EXCEPT !.queue = Tail(@)]
     IN Sets(IF Len(b) >= WriteLogSize THEN [a EXCEPT !.out = <<b>>, !.buffer = <<>>] ELSE [a EXCEPT !.buffer = b])
\* Sync: the buffer, then as many lines as the queue has now.
batchSync ==
  /\ Between /\ async.sync = "asked"
  /\ Sets([async EXCEPT !.sync = "draining", !.buffer = <<>>, !.queue = <<>>,
             !.out = (IF async.buffer = <<>> THEN <<>> ELSE <<async.buffer>>) \o [i \in DOMAIN async.queue |-> <<async.queue[i]>>]])
batchSynced ==
  /\ Between /\ async.sync = "draining"
  /\ Sets([async EXCEPT !.sync = "done", !.close = IF @ = "syncing" THEN "closing" ELSE @])
\* One write of batchWriteLog to the file.
batchWrite ==
  /\ mode.async /\ writer[1].pc = "idle" /\ async.out # <<>>
  /\ writer' = [writer EXCEPT ![1] = [pc |-> "start", lines |-> Head(async.out), fd |-> 0]]
  /\ async' = [async EXCEPT !.out = Tail(@)]
  /\ UNCHANGED <<mode, roll, disk, cleaner>>
Sync ==
  /\ mode.async /\ async.sync \in {"no", "done"} /\ async.close = "no" /\ async.upto < async.logged
  /\ Sets([async EXCEPT !.sync = "asked", !.upto = async.logged])
\* Close: Sync, then the file is closed.
Close ==
  /\ mode.async /\ async.close = "no" /\ async.sync \in {"no", "done"} /\ async.logged = MaxLines
  /\ Sets([async EXCEPT !.sync = "asked", !.upto = async.logged, !.close = "syncing"])
closeLogger ==
  /\ Between /\ async.close = "closing"
  /\ async' = [async EXCEPT !.close = "closed"]
  /\ roll' = [roll EXCEPT !.closed = @ \cup {roll.curr}]
  /\ UNCHANGED <<mode, writer, disk, cleaner>>

RollNext ==
  \/ Tick \/ runCloseFiles \/ cleanFiles \/ compressFile \/ removeSource \/ cleaned
  \/ Write \/ batchTick \/ batchTake \/ batchSync \/ batchSynced \/ batchWrite \/ Sync \/ Close \/ closeLogger
  \/ \E g \in DOMAIN writer : reopenFile(g) \/ WriteFile(g) \/ backupFile(g)
RollSpec == RollInit /\ [][RollNext]_rollVars

-----------------------------------------------------------------------------
(* A line that was written is in a file until the cleaner removes that     *)
(* file: rolling, reopening, closing late and compressing lose none, with  *)
(* one writing goroutine, or with several where nothing is compressed      *)
(* (RollWriter.Write, backupFile, compressFile).                           *)
NothingLost == roll.acked \subseteq UNION {Range(disk[f].lines) : f \in Dir \cup cleaner.removed}

(* After Sync returns, every line logged before it was called and not      *)
(* dropped is in the file (AsyncRollWriter.Sync), and the lines of a file  *)
(* are in the order they were logged.                                      *)
SyncFlushes ==
  mode.async =>
    /\ async.sync = "done" /\ mode.faults = 0 => \A l \in 1..async.upto : l \in roll.acked \cup async.dropped
    /\ \A f \in Dir : \A i, j \in DOMAIN disk[f].lines : i < j => disk[f].lines[i] < disk[f].lines[j]

-----------------------------------------------------------------------------
(* The loggers.                                                            *)

CONSTANTS
  Names,        \* the loggers' names besides "default"
  Contexts,     \* the contexts that may carry a logger
  Outputs,      \* the configurations of a logger: its outputs' levels, kinds and ways to write
  Levels,       \* a level's name to its rank, as zap has it
  MaxSteps

VARIABLES
  cells,      \* the outputs made so far: the level that each lets through, and the one last set
  loggers,    \* a name to its logger
  default,    \* the default logger
  contexts,   \* a context to the logger it carries
  trace,      \* whether TRACE lines are written
  line        \* the last line: who wrote it, and the outputs it went to
logVars == <<cells, loggers, default, contexts, trace, line>>

NoLogger == [cells |-> <<>>, fields |-> 0]
NoLine == [level |-> "none", logger |-> NoLogger, to |-> {}, asked |-> {}, steps |-> 0, exited |-> FALSE]
LoggerInit ==
  /\ cells = <<[level |-> Levels["debug"], set |-> Levels["debug"], kind |-> "console"]>>
  /\ default = [cells |-> <<1>>, fields |-> 0]
  /\ loggers = [n \in {"default"} |-> default]
  /\ contexts = [c \in Contexts |-> NoLogger]
  /\ trace = FALSE /\ line = NoLine

Step == line.steps < MaxSteps /\ ~line.exited
Count == line' = [line EXCEPT !.steps = @ + 1]

-----------------------------------------------------------------------------
\* Levels: a name that is not there is the rank of INFO, the zero value.
levelOf(name) == IF name \in DOMAIN Levels THEN Levels[name] ELSE Levels["info"]

\* newConsoleCore, newFileCore: an output, or an error for a way to write that is none.
newCore(o) == [level |-> levelOf(o.level), set |-> levelOf(o.level), kind |-> o.kind]
Refused(cfg) == cfg = <<>> \/ \E i \in DOMAIN cfg :
  cfg[i].kind \notin {"console", "file"} \/ (cfg[i].kind = "file" /\ cfg[i].mode \notin 0..3)

\* NewZapLogWithCallerSkip: a logger with all the outputs.
NewZapLog(cfg) == [cells |-> [i \in DOMAIN cfg |-> Len(cells) + i], fields |-> 0]

\* Factory.Setup, then Register: a name twice is a panic, save for the default's.
Setup(name, cfg) ==
  /\ Step /\ ~Refused(cfg) /\ (name \in DOMAIN loggers => name = "default")
  /\ cells' = cells \o [i \in DOMAIN cfg |-> newCore(cfg[i])]
  /\ loggers' = [n \in DOMAIN loggers \cup {name} |-> IF n = name THEN NewZapLog(cfg) ELSE loggers[n]]
  /\ default' = IF name = "default" THEN NewZapLog(cfg) ELSE default
  /\ Count /\ UNCHANGED <<contexts, trace>>

SetLogger(name) ==
  /\ Step /\ name \in DOMAIN loggers
  /\ default' = loggers[name]
  /\ Count /\ UNCHANGED <<cells, loggers, contexts, trace>>

\* zapLog.With: the levels are shared with the logger it comes from.
With(l) == [l EXCEPT !.fields = @ + 1]

\* WithContextFields: from the context's logger, else from the default one.
WithContextFields(c) ==
  /\ Step /\ contexts[c].fields < 2
  /\ contexts' = [contexts EXCEPT ![c] = With(IF contexts[c] = NoLogger THEN default ELSE contexts[c])]
  /\ Count /\ UNCHANGED <<cells, loggers, default, trace>>

\* zapLog.SetLevel: of one output; an index that the logger does not have is ignored.
setLevel(l, output, name) ==
  IF output \notin DOMAIN l.cells THEN cells
  ELSE [cells EXCEPT ![l.cells[output]].level = levelOf(name), ![l.cells[output]].set = levelOf(name)]
\* zapLog.GetLevel: DEBUG where there is no such output.
GetLevel(l, output) == IF output \in DOMAIN l.cells THEN cells[l.cells[output]].level ELSE Levels["debug"]
SetLevel(output, name) ==
  /\ Step
  /\ cells' = setLevel(default, output, name)
  /\ Count /\ UNCHANGED <<loggers, default, contexts, trace>>

EnableTrace ==
  /\ Step /\ trace' = ~trace
  /\ Count /\ UNCHANGED <<cells, loggers, default, contexts>>

\* zapLog.Trace to Fatal: the outputs that let the level through; after FATAL the process exits.
emit(l, level) ==
  line' = [level |-> level, logger |-> l, steps |-> line.steps + 1, exited |-> level = "fatal",
           to |-> {c \in Range(l.cells) : levelOf(level) >= cells[c].level},
           asked |-> {c \in Range(l.cells) : levelOf(level) >= cells[c].set}]
\* Trace, Debug, ..., Fatalf.
Log(level) ==
  /\ Step /\ (level = "trace" => trace)
  /\ emit(default, level)
  /\ UNCHANGED <<cells, loggers, default, contexts, trace>>
\* TraceContext, ..., FatalContextf: the context's logger first.
LogContext(c, level) ==
  /\ Step /\ (level = "trace" => trace)
  /\ emit(IF contexts[c] = NoLogger THEN default ELSE contexts[c], level)
  /\ UNCHANGED <<cells, loggers, default, contexts, trace>>

LoggerNext ==
  \/ \E n \in Names \cup {"default"} : SetLogger(n) \/ \E o \in Outputs : Setup(n, o)
  \/ \E c \in Contexts : WithContextFields(c) \/ \E l \in DOMAIN Levels : LogContext(c, l)
  \/ \E l \in DOMAIN Levels : Log(l) \/ \E i \in 0..2 : SetLevel(i, l)
  \/ EnableTrace
LoggerSpec == LoggerInit /\ [][LoggerNext]_logVars

-----------------------------------------------------------------------------
(* Every output lets through what was last set for it, through whichever   *)
(* logger, derived before or after, a line is written, and what GetLevel   *)
(* reports is what decides (zapLog.SetLevel, GetLevel, With).              *)
LevelsAreLive ==
  /\ line.to = line.asked
  /\ \A i \in DOMAIN default.cells : GetLevel(default, i) = cells[default.cells[i]].set
=============================================================================

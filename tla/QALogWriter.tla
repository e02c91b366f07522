---------------------------- MODULE QALogWriter ----------------------------
(***************************************************************************)
(* The deferred Q&A log writer of server/learning/background_writer.py, in *)
(* the process of server/main.py.  The main thread runs the tools one at a *)
(* time; log_qa only puts an entry in a queue.  A daemon thread empties    *)
(* the queue when the machine looks idle, and an atexit callback empties   *)
(* it when the process ends, while the daemon thread is still running.     *)
(*                                                                         *)
(* Entries are numbered in the order of the log_qa calls.  Time is counted *)
(* in steps of Tick; the poll interval has no length of its own: the wait  *)
(* of the daemon ends at any time.                                         *)
(***************************************************************************)
EXTENDS Naturals, Sequences, FiniteSets

CONSTANTS
    MaxEntries,       (* bound: log_qa calls of a behaviour                *)
    IdleActivitySec,  (* idle_activity_sec                                 *)
    UsesStop          (* TRUE: the owner of the writer also calls stop()   *)

ASSUME WriterAssumption ==
    /\ MaxEntries \in Nat \ {0}
    /\ IdleActivitySec \in Nat \ {0}
    /\ UsesStop \in BOOLEAN

Threads == {"main", "daemon"}
NoEntry == 0
Entries == 1..MaxEntries

VARIABLES
    queue,     (* _queue                                                   *)
    held,      (* the entry a thread has taken from the queue              *)
    pc,        (* where each thread is                                     *)
    thread,    (* _thread is not None                                      *)
    stopEvent, (* _stop_event                                              *)
    idle,      (* idle_seconds(), capped at IdleActivitySec                *)
    cpuBusy,   (* cpu_percent() > idle_cpu_threshold                       *)
    file,      (* the lines of the log file                                *)
    failed,    (* entries whose write raised                               *)
    lost,      (* entries that were not written when the process ended     *)
    killed,    (* the process ended without running its atexit callbacks   *)
    created    (* how many entries were put in the queue                   *)

threadVars == <<thread, stopEvent>>
envVars    == <<idle, cpuBusy>>
vars == <<queue, held, pc, thread, stopEvent, idle, cpuBusy,
          file, failed, lost, killed, created>>

Alive == pc["main"] # "dead"

\* The main thread moves from one place to another.
MainGoes(from, to) == pc["main"] = from /\ pc' = [pc EXCEPT !["main"] = to]

DaemonGoes(from, to) ==
    /\ Alive
    /\ pc["daemon"] = from
    /\ pc' = [pc EXCEPT !["daemon"] = to]

-----------------------------------------------------------------------------
(* The main thread: main(), the tools, the end of the process.             *)

\* start(): a thread that finds the stop event set ends at its first wait, so
\* a start() after stop() brings no second flusher to life.  flush_all() is
\* registered with atexit here, once, after close_all() was in main().
Start ==
    /\ pc["main"] = "init" \/ (UsesStop /\ pc["main"] = "serve")
    /\ ~thread
    /\ thread' = TRUE
    /\ pc' = [main |-> "serve",
              daemon |-> IF pc["daemon"] = "off" THEN "wait" ELSE pc["daemon"]]
    /\ UNCHANGED <<queue, held, stopEvent, idle, cpuBusy,
                   file, failed, lost, killed, created>>

\* The wrapper of every tool touches the activity clock before the tool runs.
ToolBegin ==
    /\ MainGoes("serve", "tool")
    /\ idle' = 0
    /\ UNCHANGED <<queue, held, threadVars, cpuBusy,
                   file, failed, lost, killed, created>>

\* A tool other than log_qa returns, with a result or an exception.
ToolReturn ==
    /\ MainGoes("tool", "serve")
    /\ UNCHANGED <<queue, held, threadVars, envVars,
                   file, failed, lost, killed, created>>

\* Mutant: the entry gets the number of the one before it.
LogQAStaleNumber ==
    /\ MainGoes("tool", "serve")
    /\ created < MaxEntries
    /\ created' = created + 1
    /\ queue' = Append(queue, created)
    /\ UNCHANGED <<held, threadVars, envVars, file, failed, lost, killed>>

LogQA ==
    /\ MainGoes("tool", "serve")
    /\ created < MaxEntries
    /\ created' = created + 1
    /\ queue' = Append(queue, created + 1)
    /\ UNCHANGED <<held, threadVars, envVars, file, failed, lost, killed>>

\* stop(): sets the event, then join(timeout).
Stop ==
    /\ UsesStop
    /\ MainGoes("serve", "join")
    /\ stopEvent' = TRUE
    /\ UNCHANGED <<queue, held, thread, envVars,
                   file, failed, lost, killed, created>>

\* The join returns because the thread ended or because it timed out, and
\* stop() does not look which: the thread is forgotten.
Joined ==
    /\ MainGoes("join", "serve")
    /\ thread' = FALSE
    /\ UNCHANGED <<queue, held, stopEvent, envVars,
                   file, failed, lost, killed, created>>

\* Mutant: flush_all() was never registered with atexit.
ExitWithoutFlush ==
    /\ MainGoes("serve", "closing")
    /\ UNCHANGED <<queue, held, threadVars, envVars,
                   file, failed, lost, killed, created>>

\* mcp.run() returns.  Callbacks run in the reverse order of registration:
\* flush_all(), then close_all().
Exit ==
    /\ MainGoes("serve", "drain")
    /\ UNCHANGED <<queue, held, threadVars, envVars,
                   file, failed, lost, killed, created>>

Elements(s) == {s[i] : i \in 1..Len(s)}
Held        == {held[t] : t \in Threads} \ {NoEntry}
Unwritten   == Elements(queue) \cup Held

\* The process ends: after close_all(), or killed at any time.  The daemon
\* thread is not waited for.
Ends(byKill) ==
    /\ IF byKill THEN Alive ELSE pc["main"] = "closing"
    /\ pc' = [pc EXCEPT !["main"] = "dead"]
    /\ killed' = byKill
    /\ lost' = Unwritten
    /\ queue' = <<>>
    /\ held' = [t \in Threads |-> NoEntry]
    /\ UNCHANGED <<threadVars, envVars, file, failed, created>>

-----------------------------------------------------------------------------
(* The daemon thread: _run(), with is_idle() read in two steps.            *)

\* The wait times out and the queue is not empty.
Poll ==
    /\ ~stopEvent
    /\ queue # <<>>
    /\ DaemonGoes("wait", "cpu")
    /\ UNCHANGED <<queue, held, threadVars, envVars,
                   file, failed, lost, killed, created>>

Stopped ==
    /\ stopEvent
    /\ DaemonGoes("wait", "done")
    /\ UNCHANGED <<queue, held, threadVars, envVars,
                   file, failed, lost, killed, created>>

CheckCpu ==
    /\ DaemonGoes("cpu", IF cpuBusy THEN "wait" ELSE "activity")
    /\ UNCHANGED <<queue, held, threadVars, envVars,
                   file, failed, lost, killed, created>>

\* Mutant: _run() returns when the machine is not idle.
CheckActivityOrQuit ==
    /\ DaemonGoes("activity", IF idle >= IdleActivitySec THEN "drain" ELSE "done")
    /\ UNCHANGED <<queue, held, threadVars, envVars,
                   file, failed, lost, killed, created>>

CheckActivity ==
    /\ DaemonGoes("activity", IF idle >= IdleActivitySec THEN "drain" ELSE "wait")
    /\ UNCHANGED <<queue, held, threadVars, envVars,
                   file, failed, lost, killed, created>>

-----------------------------------------------------------------------------
(* _flush_pending(), run by the daemon thread and, as flush_all(), by the  *)
(* main thread at exit.                                                    *)

\* Mutant: the entry is read and not removed.
PeekNowait(t) ==
    /\ Alive
    /\ pc[t] = "drain"
    /\ queue # <<>>
    /\ held' = [held EXCEPT ![t] = Head(queue)]
    /\ pc' = [pc EXCEPT ![t] = "write"]
    /\ UNCHANGED <<queue, threadVars, envVars, file, failed, lost, killed, created>>

\* Mutant: a LifoQueue.
GetNewest(t) ==
    /\ Alive
    /\ pc[t] = "drain"
    /\ queue # <<>>
    /\ held' = [held EXCEPT ![t] = queue[Len(queue)]]
    /\ queue' = SubSeq(queue, 1, Len(queue) - 1)
    /\ pc' = [pc EXCEPT ![t] = "write"]
    /\ UNCHANGED <<threadVars, envVars, file, failed, lost, killed, created>>

GetNowait(t) ==
    /\ Alive
    /\ pc[t] = "drain"
    /\ queue # <<>>
    /\ held' = [held EXCEPT ![t] = Head(queue)]
    /\ queue' = Tail(queue)
    /\ pc' = [pc EXCEPT ![t] = "write"]
    /\ UNCHANGED <<threadVars, envVars, file, failed, lost, killed, created>>

\* Mutant: get() in place of get_nowait(), which blocks on an empty queue.
BlockWhenEmpty(t) ==
    /\ Alive
    /\ pc[t] = "drain"
    /\ queue = <<>>
    /\ UNCHANGED vars

QueueEmpty(t) ==
    /\ Alive
    /\ pc[t] = "drain"
    /\ queue = <<>>
    /\ pc' = [pc EXCEPT ![t] = IF t = "main" THEN "closing" ELSE "wait"]
    /\ UNCHANGED <<queue, held, threadVars, envVars,
                   file, failed, lost, killed, created>>

\* Mutant: a write that raised half way through is tried again.
WriteEntryRetry(t, ok) ==
    /\ Alive
    /\ pc[t] = "write"
    /\ Len(file) <= MaxEntries
    /\ file' = Append(file, held[t])
    /\ IF ok THEN held' = [held EXCEPT ![t] = NoEntry] /\ pc' = [pc EXCEPT ![t] = "drain"]
             ELSE UNCHANGED <<held, pc>>
    /\ UNCHANGED <<queue, threadVars, envVars, failed, lost, killed, created>>

\* _write_entry() appends one line; when it raises, the entry is dropped.
WriteEntry(t, ok) ==
    /\ Alive
    /\ pc[t] = "write"
    /\ IF ok THEN file' = Append(file, held[t]) /\ UNCHANGED failed
             ELSE failed' = failed \cup {held[t]} /\ UNCHANGED file
    /\ held' = [held EXCEPT ![t] = NoEntry]
    /\ pc' = [pc EXCEPT ![t] = "drain"]
    /\ UNCHANGED <<queue, threadVars, envVars, lost, killed, created>>

FlushPending(t) ==
    GetNowait(t) \/ QueueEmpty(t) \/ \E ok \in BOOLEAN : WriteEntry(t, ok)

-----------------------------------------------------------------------------
(* The environment: time passes, the load of the machine changes.          *)

Tick ==
    /\ Alive
    /\ idle < IdleActivitySec
    /\ idle' = idle + 1
    /\ UNCHANGED <<queue, held, pc, threadVars, cpuBusy,
                   file, failed, lost, killed, created>>

CpuChange ==
    /\ Alive
    /\ cpuBusy' = ~cpuBusy
    /\ UNCHANGED <<queue, held, pc, threadVars, idle,
                   file, failed, lost, killed, created>>

-----------------------------------------------------------------------------
Init ==
    /\ queue = <<>>
    /\ held = [t \in Threads |-> NoEntry]
    /\ pc = [main |-> "init", daemon |-> "off"]
    /\ thread = FALSE
    /\ stopEvent = FALSE
    /\ idle = 0
    /\ cpuBusy \in BOOLEAN
    /\ file = <<>>
    /\ failed = {}
    /\ lost = {}
    /\ killed = FALSE
    /\ created = 0

Main   == Start \/ ToolBegin \/ ToolReturn \/ LogQA \/ Stop \/ Joined \/ Exit
          \/ Ends(FALSE)
Daemon == Poll \/ Stopped \/ CheckCpu \/ CheckActivity

Next ==
    \/ Main
    \/ Daemon
    \/ \E t \in Threads : FlushPending(t)
    \/ Tick
    \/ CpuChange
    \/ Ends(TRUE)

Spec == Init /\ [][Next]_vars

\* Each thread keeps running while it has something to do, a tool returns and
\* time passes.  Nobody has to call a tool, to end the process or to keep the
\* CPU idle.
Fairness ==
    /\ WF_vars(Daemon \/ FlushPending("daemon"))
    /\ WF_vars(FlushPending("main") \/ Ends(FALSE))
    /\ WF_vars(Start \/ ToolReturn \/ LogQA \/ Joined)
    /\ WF_vars(Tick)

FairSpec == Spec /\ Fairness

-----------------------------------------------------------------------------
(* Properties.                                                             *)

TypeOK ==
    /\ queue \in Seq(Entries)
    /\ held \in [Threads -> Entries \cup {NoEntry}]
    /\ pc \in [Threads -> {"init", "off", "serve", "tool", "join", "wait", "cpu",
                           "activity", "drain", "write", "closing", "done", "dead"}]
    /\ thread \in BOOLEAN /\ stopEvent \in BOOLEAN
    /\ idle \in 0..IdleActivitySec
    /\ cpuBusy \in BOOLEAN
    /\ file \in Seq(Entries)
    /\ failed \in SUBSET Entries
    /\ lost \in SUBSET Entries
    /\ killed \in BOOLEAN
    /\ created \in 0..MaxEntries

Written == Elements(file)
Queued  == Elements(queue)

\* The queue is always the newest run of entries, in order: what the two
\* flushers have taken out of it is a prefix of what was put in.
QueueIsNewestRun ==
    \A i \in 1..Len(queue) : queue[i] = created - Len(queue) + i

\* An entry is in one place at a time, and in the file at most once.
NeverTwice ==
    /\ \A i, j \in 1..Len(file) : file[i] = file[j] => i = j
    /\ \A t \in Threads : held[t] # NoEntry =>
          /\ held[t] \notin Written \cup Queued \cup failed
          /\ \A u \in Threads : held[u] = held[t] => u = t
    /\ Queued \cap (Written \cup failed) = {}
    /\ lost \cap (Written \cup failed) = {}
    /\ Written \cap failed = {}

\* Every entry is somewhere.
NothingVanishes ==
    1..created = Unwritten \cup Written \cup failed \cup lost

\* Whatever the interleaving of the two flushers, the writes that raise and
\* the way the process ends: each entry that log_qa reported as logged is
\* waiting in the queue, in the hands of one flusher, in the file once,
\* dropped by a write that raised, or lost with the process.
EntriesAccounted == QueueIsNewestRun /\ NeverTwice /\ NothingVanishes

\* An orderly exit empties the queue: what it can lose is the one entry the
\* daemon thread had taken when the process ended.
CleanExitLosesAtMostOne ==
    pc["main"] = "dead" /\ ~killed => Cardinality(lost) <= 1

\* As long as the atexit callback has not started, the file is in the order of
\* the log_qa calls; the second flusher is what can reorder it.
InOrderUntilExit ==
    pc["main"] \notin {"drain", "write", "closing", "dead"} =>
        \A i, j \in 1..Len(file) : i < j => file[i] < file[j]

\* When no tool is called any more and the CPU stays idle, the queue drains,
\* unless stop() ended the thread.
QuietMachineDrains ==
    <>[](pc["main"] = "serve" /\ ~cpuBusy /\ ~stopEvent) => []<>(queue = <<>>)

\* The exit sequence ends: flush_all() does not chase a queue that grows.
ExitTerminates == (pc["main"] = "drain") ~> (pc["main"] = "dead")

\* background_writer.py:12-14 says that the flush at exit keeps log entries
\* from being lost silently.
OrderlyExitLosesNothing ==
    pc["main"] = "dead" /\ ~killed => lost = {}

-----------------------------------------------------------------------------
(* The writer implements the abstract log.                                 *)

Log == INSTANCE QALog WITH pending <- Unwritten, recorded <- file,
                           forgotten <- failed \cup lost, accepted <- created

ImplementsLog == Log!LogSpec
=============================================================================

# TLA+ models of dbExpert

dbExpert (`src/server`) is an MCP server in Python: a client (Claude) calls
tools that look into databases of many kinds, always read-only. Behind the
tools, threads index the schema of the tables a query touches, write a log of
questions and answers when the machine is idle, and summarize that log into
patterns; adapters and SSH tunnels are opened on demand and closed at exit.

This directory models that behaviour in TLA+, checks it with TLC on small
instances, and proves part of it with TLAPS for every value of the constants.

## 1. The system

### How a process runs

`main()` (`main.py:325-334`) registers the adapters, loads the connections,
registers `close_all()` with `atexit`, starts the log writer, which registers
`flush_all()` with `atexit`, and runs the MCP loop.

* **Main thread.** The tools are synchronous functions that the MCP loop calls
  directly, so **one tool runs at a time**. The `atexit` callbacks run in this
  thread too, last registered first: `flush_all()`, then `close_all()`.
* **`qa-log-writer`**, one daemon thread.
* **`ontology-auto-refresh`**, one daemon thread for each call of
  `refresh_stale_tables()`, so many can run at once.
* **Tunnel threads**, one accept loop per SSH tunnel and one thread per
  forwarded connection.

Daemon threads are not waited for: they run on during the callbacks and stop
wherever they are when the process ends. Each client session has a server
process of its own and all of them share `data/`; locks are locks of a process.

### Components

| Component | State | Operations | Interacts with |
|---|---|---|---|
| Q&A log writer (`learning/background_writer.py`, `activity.py`, `qa_logger.py`) | queue, thread, stop event, time of the last tool | `start`, `enqueue`, `stop`, `flush_all`, the poll loop | every tool (`touch`), `log_qa`, `atexit`, the log files |
| Pattern summarizer (`learning/pattern_summarizer.py`) | `patterns.json` and a cursor for each connection | `summarize_query_patterns`, `get_query_patterns` | the log files, written later and by another thread |
| Auto refresh (`catalog/auto_refresh.py`) | a lock per connection, the tracker file | `refresh_stale_tables`, its thread | adapters, index, every tool that runs SQL |
| Index, scan, search (`catalog/rag_index.py`, `ontology_builder.py`, `object_search.py`) | documents of a LanceDB table | `upsert`, `delete`, `search`, `build_ontology_index`, `search_object_catalog` | refresh threads, other processes |
| Connection manager (`connection/manager.py`, `ssh_tunnel.py`) | profiles, adapters, tunnels, a lock | `load`, `get_connection`, `release`, `close_all` | every tool, `atexit`, tunnels |
| SQL adapters (`database/sql_base.py` and five engines) | a connection per thread, the list of all of them; the JVM of Tibero | `execute_readonly`, `explain`, `ping`, `close`, the reads of the catalog | refresh threads, the main thread |
| Document and search adapters (`mongodb.py`, `search_base.py`, `redis.py`) | one shared client | lazy creation, `close`, the reads of the catalog | the same |
| Capabilities (`database/base.py`, `dispatch.py`, `server_common.py`) | none | which engine offers what | every tool |
| Guard and binding (`sql_guard.py`, `param_binding.py`) | none | `assert_readonly_sql`, `convert_named_params` | SQL adapters |
| Query scope, ERD (`query_scope.py`, `erd_builder.py`) | none | table names of a statement, inferred relationships | auto refresh, tools |
| Analyzer, pipeline, query builder | none | advice, profiles, mappings, the masked read-only query | adapters |

What makes them correct, and hard:

* **Log writer.** Two flushers on one queue, the end of the process between
  "taken" and "written", an idle test that is old when it is used. Every
  accepted entry is written once or given up for a known reason; a quiet
  machine drains the queue; the exit ends.
* **Summarizer.** Entries get their timestamp when they are assembled and reach
  the file later; the cursor is a timestamp. A crash can fall between the
  patterns and the cursor. Nothing is skipped, nothing is counted twice.
* **Refresh, scan, search.** The tracker, the index and the database are three
  stores without a transaction; an upsert is a delete and an add; a scan takes
  no lock. What the tracker says was refreshed must be in the index.
* **Connection manager.** Double-checked creation, slow steps under the lock,
  failures between the steps of opening, adapters closed outside the lock. No
  adapter or tunnel is forgotten, and the lock is given back.
* **Adapters.** Connections that belong to threads, sessions with settings that
  must be in force before they are used and restored after, clients created
  without a lock, a JVM that can be started once. No statement runs on a session
  that is not read only, no later query is answered with a plan, a lost session
  costs one call, `close()` reaches every session.
* **Tools.** Nine engines answer the same question from catalogs of nine kinds;
  the answer is put together from several reads of a database that others
  change meanwhile. What is said of a table must be what the catalog says, for
  every engine; declared relationships come before guesses; nothing that must be
  masked leaves.

The list of hazards, each with its line and the properties that cover it, is in
`PROJECT.json`.

## 2. Modules

| Module | Models | State |
|---|---|---|
| `QALog` | what the log promises (abstract) | done |
| `QALogWriter` | `background_writer.py`, `activity.py`, exit order of `main.py` | done |
| `QALogWriterProofs` | theorems about it | done |
| `OntologyRefresh`, `MCOntologyRefresh` | `auto_refresh.py`, `rag_index.py`, `ontology_builder.py`, `object_search.py` | done |
| `ConnectionManager` | `manager.py`, `ssh_tunnel.py` | done |
| `ConnectionManagerProofs`, `OntologyRefreshProofs` | theorems about them | done |
| `PatternSummarizer`, `MCPatternSummarizer` | `pattern_summarizer.py`, `qa_logger.py` | done |
| `PatternSummarizerProofs` | theorems about it | done |
| `NatSets` | lemmas on least and greatest numbers, induction over numbers and finite sets, and sums over finite sets, for the proof modules | done |
| `AdapterSessions` | sessions and clients of the nine adapters in `database/` | done |
| `AdapterSessionsProofs` | theorems about it | done |
| `Introspection` | what each adapter reads from its server, as operators | done |
| `QueryText` | `sql_guard.py`, `query_scope.py`, the texts `index_advisor.py` and `query_rewriter.py` read | done |
| `Erd` | the inference of `erd_builder.py` | done |
| `Tools`, `MCTools` | the tools that answer from a database, composed of the three above | done |
| `CatalogProofs` | lemmas about `Introspection`: what is rebuilt from the rows of a catalog query | done |
| `ToolsProofs` | theorems about the tools | done |

`MC...` modules only give values to constants that a `.cfg` cannot write. A
definition marked as a mutant, by a comment before it or beside it, is a wrong
variant of the definition after it; it takes no part in any specification and
serves to show that a property notices the mistake.

### QALogWriter

`queue`, `thread`, `stopEvent` are the attributes of the writer; `held[t]` is
the local `entry` of `_flush_pending` in the thread `t`; `file` is the log file.
Entries are numbers in the order of the `log_qa` calls. `Start` ... `Exit` are
the main thread; `Poll`, `CheckCpu`, `CheckActivity` are one round of `_run`,
with the two conditions of `is_idle()` read one after the other; `GetNowait`,
`WriteEntry` and `QueueEmpty` are the loop of `_flush_pending`, which both
threads run. `Ends(FALSE)` is the end after the callbacks, `Ends(TRUE)` a kill.
Histories: `failed`, `lost`, `killed`.

The abstract log `QALog` knows four things: pending, recorded, forgotten and how
many were accepted. The refinement maps "pending" to what is queued or held.

### OntologyRefresh

A table's schema is a version number, odd while the table exists, and a
document is the version it was made from; a table's documents are a sequence,
so that two documents with one id can be seen. `pc[w]`, `todo`, `today`,
`loaded`, `doc` are the locals of `_refresh_worker`; `main[p]`, `snap`, `gone`
those of a scan in the main thread of the process `p`, `result[p]` how its last
tool ended. Each call that touches a file, the index or the database is a step,
and each can raise (`MayFail`). What a thread does for one table is inside a
`try`: an exception skips the table. Two things are not, and the model follows
them out:

* `_save_tracker()` (`auto_refresh.py:108`). `mkdir()` and `write_text()` can
  raise before the file is touched, after it was truncated, or after it was
  written (`SaveTruncate`, `SaveWrite`). The thread ends and `with` gives the
  lock back, but the refreshes it made are in no tracker, or the whole tracker is
  gone, and those tables are refreshed again that day without a crash.
* `is_empty()` (`object_search.py:38`) and the `index.search()` of the search
  itself (`:45`), which opens the index and embeds the query. The `try` of the
  search is around its scan only, so `SearchOutlivesScan` says just that: a scan
  that fails is not what fails the search. What made the scan raise may well make
  the search raise too, and then the tool does.

`Crash(p)` ends a process at any point. Histories: `refreshed` (until a crash or
a failed save has lost the record of it), `dayStart`, `alone`, `scanned`. The
names of tables are ASCII: a tracker torn inside a longer character would make
`json.loads` of the bytes raise at each later start of a thread.

### ConnectionManager

The k-th adapter built for a connection is `<<n, k>>`, and so is the k-th SSH
login; `liveA` and `liveT` are those whose `close()` has not run, whoever still
knows them. A tunnel that nobody closes keeps its local server, with its port
and its thread; whether the SSH library frees the login of a forgotten client
is not modelled.
`pc[c]` is "wait" before the lock, "tunnel" and "build" under it, "using" with
an adapter, and "closing" after one was taken out of the cache. `close_all()`
is the `atexit` callback, so no tool is running when it starts. `release()` has
no caller in the repository; it is modelled as the class offers it, and the
class is meant for several threads. Histories: `raised`, `dropped`.

### PatternSummarizer

An entry is its number and the number is its timestamp: the process assembles
entries one after the other. `log` is what has reached the files; `bad` marks a
connection with half a line. A call goes through the connections in the order
of their directories; `patterns.json` and the cursor are each truncated and
written in two steps. An empty cursor file reads as no cursor. Histories:
`counted`, `start`. There is one process; two of them sharing a log is a hazard
that is not modelled yet.

### AdapterSessions

One adapter object, used by the tools in `Main` and by refresh threads that
come and go. `engine` is chosen at the start, so one specification holds all
nine; what differs between them is in actions of their own (`MySQLConnect` ...
`OpenSearchConnect`, `Execute`, `MSSQLExplain`, `TiberoExplain`, `UseClient`).
A session is its number; `sessions[s]` says whether the server still has it
(`open`), dropped it unnoticed (`lost`) or it is `closed`, whether the server
refuses writes on it (`ro`) and whether SHOWPLAN is on (`plan`). `slot[t]` is
what `_local` holds in the thread `t`, `client` the client of the other
engines, `conns` is `_all_conns`, `cur[t]` the local `conn` of the call that
runs. A call is `Call`, then the test whether there is a session, the login, the
hook, the two stores, and the statement; each is a step, because other threads
and `close()` come in between. Every call of a driver may fail; where the code
goes on after a failure (`_ensure_connection` of Tibero, `setReadOnly`, SHOWPLAN
off) the model does. `ServerDrops` is the network. History: `failures`.

What the model shows without a property of its own: ClickHouse and Tibero close
only the session of the thread that calls `close()` (`clickhouse.py:296`), and
Tibero uses a lost session again in every later call of its thread
(`tibero.py:151`); `NoSessionForgotten` and `LostSessionFailsOnce` are therefore
stated of the three engines that extend `SqlAdapterBase`.

### Introspection, QueryText, Erd, Tools

`Introspection` describes a server by what it holds: tables with columns, keys,
indexes and rows, the keys of a key-value store, slow operations per node,
sessions, locks, errors. For every engine there is one operator for each
operation of the adapter: what its SQL template joins, which columns it
orders by, what a missing table yields, and how `_rows_to_schema_objects`
groups the flat rows. An answer is a status and rows; an operation an adapter
does not have is `AttributeError`.

`QueryText` reads statements as tokens (there are no comments in them): the
guard, the names after FROM and JOIN, the candidate columns of the advisor, the
patterns of the rewriter. The regular expressions of the code know neither
strings nor SQL, so a token is a word, a comparison or a sign: each part of a
qualified name and each dot is a token, and so are the words of a literal, with
a mark that only the database looks at (`q`). `Erd` infers relationships from key names, suffixes and comments;
the code iterates over a `set` of names, so the order is an input.

`Tools` has one action for each tool, which makes all reads of the tool and
leaves the answer, so the state is the last answer. What a read raises, a tool
raises, also the `AttributeError` of an operation that is not there. Reads of one call that come
after others may meet a later state of the catalog (`d` and `later`). The
capability test of the tool comes first, as in `dispatch.py`.
`generate_pipeline_plan` and `validate_pipeline` are chained: the second gets
the plan the first returned.

A catalog is one that a server can hold (`IsDatabase`): no two tables of a
namespace have one name and no two columns of a table, types are not empty, an
index has a column, the constraints of a table differ in name, and a foreign key
refers to the primary key of a table that is there. A limit is any integer. A table that a client names is a name
(`IsReference`), never `*`, which the adapters take for all tables; on Redis,
where what is named is a pattern of keys, `*` is asked for too (`Askable`).
These assumptions are `CatalogAssumption`, which TLC evaluates in the runs.

Other abstractions: a name is its words, a plural mark and a case mark, which is what
the code's comparisons see (`lower()`, suffixes, `+ "s"`, singular and plural);
a comment is a set of words; a value is a type and a mark. Servers accept the
statements of the adapters and label the columns as these are written: a real
SQL Server refuses a comparison in a select list, and a Tibero in its default
mode folds labels to upper case, which is outside these models. A query returns
the rows of the first table it names. Samples of MongoDB contain every field.
Source and target of a pipeline are one connection. The scope `related_to` of
the ERD is covered by a list of names.

## 3. Runs

Passing runs:

| Run | Instance | Shows |
|---|---|---|
| `qa_log_writer` | 3 entries, idle time 2, `stop()` in use | accounting, order until exit, at most one entry lost at an orderly exit, the queue drains, the exit ends, refinement of `QALog` |
| `daily_refresh` | 1 process, 2 threads, 2 tables, 2 days, 1 crash, failures of every call, the save included | the tracker follows the index, is fresh, one document per table, refreshed again for a date only when a crash or a failed save lost the record, lock given back |
| `shared_index` | 2 processes, a scanning and searching one and a refreshing one, 1 crash, failures of every call, the search included | a scan that was alone mirrors the schema whatever it found; a search ends, and no failure of its scan fails it |
| `connections` | 2 threads, 3 connections, 2 behind a bastion, 1 that cannot be built, 2 attempts each, late failures, `close()` that raises | no adapter forgotten, a cached adapter has its tunnel, mutual exclusion, the lock is given back, `close_all()` closes everything that no failed operation dropped |
| `patterns` | 3 entries, 2 connections, 3 clusters with 2 identifiers, 1 fault | nothing skipped, nothing counted twice but once per crash, frequencies add up |
| `adapter_sessions` | 9 engines, the tool thread and a refresh thread that comes and goes, 3 sessions, 1 dropped | statements run read only, queries return rows and not plans, a lost session fails once, `close()` forgets no session, a client is there while nobody closed it, one JVM, every call returns |
| `tool_answers` | 8 engines (`opensearch` has the operators of `elasticsearch`), 3 states of the catalog, two reads of a call may see two of them, limits -1, 0, 1 and 3, seven statements | the schema is the catalog's, declared relationships are found and win (on PostgreSQL those within their schema), advice stands in a clause of the statement and is not covered by an index, a plan accounts for every column of the source, samples are masked and kept to a positive limit, cuts are told; no tool reaches a method its engine lacks (`TypeOK`) |

Runs that TLC refutes, each a disagreement between a comment or document and
the code (quoted in `PROJECT.json`, "findings"):

| Run | What the text says | What happens |
|---|---|---|
| `qa_log_exit` | the flush at exit keeps entries from being lost | the daemon thread takes an entry, `flush_all()` finds the queue empty, the process ends before the write |
| `search_first_use` | a search fills an index that was never filled | a refresh thread indexed one table, so the index is not empty and the scan never happens |
| `tunnel_leak` | at exit every SSH tunnel is closed | a tunnel registered before the adapter failed is overwritten by the next attempt, and its `close()` never runs |
| `pipeline_namespace` | a plan is made for a name like `raw_landing.orders_raw` | the namespace is dropped, and the plan is made of the columns of a table of that name in the default schema |
| `patterns_period` | calls without `since` do not count again what was counted | a call for an earlier period moves the cursor back |

Further disagreements TLC confirmed on the way, which have no run:
the writer drains the whole queue after one idle test, so it writes while a
tool runs (`background_writer.py:6-10`); a scan removes the document of a table
that was created and refreshed between its `get_schema` and its `all_ids`; a
scan and a refresh thread can leave two documents for one id; `release()`
does not close the tunnel when the adapter's `close()` raises; PostgreSQL's query
for foreign keys loses those that lead to another schema, because it looks for
the referenced columns in the schema of the table that refers to them
(`postgresql.py:290-291`), although declared keys are said to be always included
(`erd_builder.py:17-18`).

What the models of the adapters and tools make visible, also without a run:

* Tibero's query for locks contains the word LOCK, which the guard refuses
  wherever it stands (`sql_guard.py:41`), so `get_locks` and `db_error_analyze`
  always raise there. An EXPLAIN prefix makes the guard's test of the first
  word pass for every statement; the forbidden words still apply.
* Index columns come back empty from PostgreSQL and Tibero, so
  `index_recommend` suggests columns that have an index; MSSQL puts included
  columns first. What `AdviceIsUncovered` says of the indexes is said of the others.
* What `index_recommend` takes for columns (`index_advisor.py:26-29`, `:52-55`)
  are, after ORDER BY, all words, the `o` of `o.created_at` too; of
  `shop.users.id` in an ON it is `users`; after WHERE also the NOT of `NOT IN`
  and words inside of literals. They come back as missing indexes. The docstring
  admits false hits (`:36-37`), so `AdviceIsUncovered` promises no column, only
  a word that stands after a WHERE, ON or ORDER BY.
* Columns are listed twice in PostgreSQL when two schemas name a primary key
  alike; `SchemaIsCatalog` assumes they do not. The foreign keys PostgreSQL loses
  (above) are left out in `DeclaredAreThere` by `IsJoined`, in the open; on MySQL,
  MSSQL and Tibero a key to another schema must be there, and `tool_answers` has
  one (`RawFk`). On Tibero every
  column counts as a key (`bool("0")`), on MSSQL every indexed one does.
* A limit is cut off at the top only (`min(limit, 1000)`), and the tools take any
  integer (`main.py:317-322`). With -1, `execute_readonly_query` sends all rows
  but the last (`rows[:limit]`, `executor.py:49`), more than `_MAX_LIMIT` if there
  are more, and so do `find_query_pattern`, `get_query_patterns` and the scope of
  the ERD with theirs; MySQL, PostgreSQL, MSSQL and ClickHouse refuse a negative
  LIMIT (MSSQL also FETCH NEXT 0 of the slow queries), Tibero's ROWNUM selects
  nothing, MongoDB refuses a sample of 0 or less and takes the absolute value for
  slow operations, Redis scans until it has one key and sends the whole slow log.
  `RowsAreLimited` says what each kind of limit still bounds: a negative one of a
  query nothing, which is why `CutsAreTold` is stated for every limit.
* MySQL's slow-query template compares milliseconds with seconds; a limit of 0
  means "no limit" to MongoDB and to a Redis scan (`redis.py:291`), so that a
  sample asked for with 0 returns up to 4000 keys where the design document
  says 1000 at most (`src/Doc/01_개발정의서.md:218`); a Redis
  cluster returns the limit once per node; a missing MongoDB collection is
  reported as one without fields; samples of Redis are never masked.
* The ERD of a namespace looks its tables up in the default schema
  (`erd_builder.py:75`, `:136-138`); which of two tables a suffix matches
  depends on the order of a hash set, and names in upper case match none; a
  relationship may name a column `id` that the target does not have.
* `profile_data` raises for a listed name with a namespace on SQL engines and
  is empty on MongoDB; `validate_pipeline` does not notice a target key that no
  source column feeds; the tables of a statement are refreshed before the guard
  refuses it.

Bounds and why they are enough:

* *Entries (3)*: one in each flusher's hands and one in the queue; in the
  summarizer, one before the cursor, one at it, one after it.
* *Threads (2), tables (2)*: one thread waits while another holds the lock, one
  table succeeds while the other fails. Locks, indexes and trackers of
  different connections share nothing.
* *Versions (3), days (2)*: a table appears, changes and disappears; midnight
  falls anywhere in a refresh.
* *Attempts (2 per connection)*: the second one meets what the first one left.
  The bound is in the guard of taking the lock, so that no thread stops with
  the lock in its hands.
* *Faults (1)*: one crash between any two steps; in the summarizer also half a
  line.
* *Sessions (3), drops (1), one refresh thread*: each thread has a session and
  one of them gets a second after a loss; two threads are enough for two that
  connect at once and for `close()` against a thread that goes on. The bound is
  in the guard of `Call`, so no thread stops inside a call.
* *Catalog (3 states, up to 4 tables in 2 namespaces)*: a foreign key that is
  dropped, a table that disappears, two tables whose names match a suffix,
  names in two cases, one name in two namespaces, a key of two columns, a key
  name shared by two schemas, a foreign key to another schema, an index with
  included columns.
* *Statements (7)*: a literal with words that look like clauses, a name in three
  parts, a qualified ORDER BY, a table of another schema, two statements in one,
  a statement that writes, a table that is not there, and none.
* *Limits*: `MaxRows` 2, `MaxSlow` 2, `MaxSample` 2, `MaxScan` 3,
  `KeySampleLimit` 3 stand for 1000, 100, 1000, 4000 and 500: below three rows,
  keys or slow operations so that each is met; limits asked for are -1, 0, 1 and 3, and a table of four rows is cut
  by each.
  A client's session is at most two chained calls deep, since no tool keeps
  anything for the next one but what the client passes on.

Deadlock is not checked where a process that ended, or a bound, stops the
model: all runs but the summarizer's, where a call is always possible.

Fairness: the operating system runs every thread that can run, so each thread
has weak fairness for its own next step, whichever it is; tools, SSH logins and
`close()` calls return. Nobody has to call a tool, end the process, change a
schema or keep the CPU idle: those have none. The locks need no strong fairness
where no property says that a waiting thread gets them. `EveryCallReturns` does
say so of the lock around the start of the JVM, hence the strong fairness of
`TakeJvmLock`: its holder only looks whether the JVM runs and starts it, and a
lock of the runtime does not pass over one waiting thread forever. The weak
fairness of a thread's steps in a driver rests on the timeouts that every
adapter gives its driver.

## 4. Proofs

`QALogWriterProofs` proves, for any number of entries, any idle time and with
or without `stop()` (from `WriterAssumption` alone):

* `TypeCorrect`: `Spec => []TypeOK`;
* `Accounted`: `Spec => []EntriesAccounted`. Every accepted entry is in one
  place, and in the file at most once;
* `CleanExitLoss`: `Spec => []CleanExitLosesAtMostOne`, and `ExitLosesTheHeld`, an
  action property: that exit loses exactly what the daemon thread holds, so
  nothing when it is between two entries. This is all that is left of the promise
  which the run `qa_log_exit` refutes;
* `InOrder`: `Spec => []InOrderUntilExit`. Before the callbacks only one thread
  takes entries, and what is written precedes what is queued (`OrderInv`);
* `Refinement`: `Spec => ImplementsLog`.

The argument is one inductive invariant, `IInv`. `EntriesAccounted` is not
inductive: to write an entry safely one must know that a thread holds one only
while it writes (`HoldsWhileWriting`), and to bound the loss, that entries are
lost only by the end of the process (`LostOnlyAtEnd`) and that the main thread
closes only after its flush (`ClosesAfterFlush`). `QueueIsNewestRun` is what
makes "taken from the queue" mean "not in the file". Each action has a lemma;
`NextIInv` puts them together. For the refinement every step is an `Accept`, a
`Record`, a `Forget` or a stutter.

`ConnectionManagerProofs` proves, for any number of threads, connections and
attempts (from `ManagerAssumption`): `TypeCorrect`, `Mutex`, `Remembered`
(`NoAdapterForgotten`), `AdapterHasTunnel` (`CachedAdapterHasTunnel`) and
`ClosesTheRest` (`CloseAllClosesTheRest`). The invariant says what the lock is
for: the connection a thread opens has no cached adapter from the second lookup
to the store (`Opening`), so the store overwrites nothing. A registered tunnel
is open and nobody closes it (`TunnelsOpen`); one that is open is registered,
being closed or dropped, and a registered one without an adapter was dropped by
a failed build (`NoTunnelForgotten`); after the exit nothing is cached
(`AfterExit`). `ClosesAllTunnels` says when the promise that the run
`tunnel_leak` refutes is kept: `CloseAllLeavesNothing` holds if no adapter behind
a bastion fails to be built, no tunnel fails after its login and no `close()`
raises in `release()`, for then nothing is ever dropped (`NothingDropped`).

`OntologyRefreshProofs` proves (from `RefreshAssumption`), for any number of
processes, threads, tables, schema changes, days and crashes, `TypeCorrect` and
`TrackerBehindIndex` (`TrackerAfterRefresh`), with the ownership of the lock on
the way. When one process refreshes and nobody scans (`OneRefresher`, which is
what the run `daily_refresh` assumes), it proves `TrackerCanBeTrusted`
(`TrackedTodayIsFresh`), `NoDuplicates` (`OneDocumentPerTable`) and
`RefreshedOnce` (`OncePerRecordedDate`), crashes and failed saves of the tracker
included in all three: a refresh whose record they lose may be made again, and
that is the only case (`StillRecorded`).
The argument is that only one thread works at a time; the dates on disk, in its
copy and in its hands are ordered (`DatesInOrder`), what it has still to do has
another date (`TodoIsStale`), so the gap between its delete and its add is
never a table that the tracker vouches for, and what its copy says of today is
in the index when it is saved (`LoadedIsFresh`). `Current` takes the least table
name; that there is one is `HasLeast` of `NatSets`, from the well-foundedness of
strict subsets.

In the same module, again for everything that processes may do,
`ScanMirrorsSchema` (`ScanAloneMirrorsSchema`): `alone[p]` means what it says
while `p` scans (`Exclusive`), and each step of such a scan leaves a known part
of the index in order (`Progress`): what is to go is known after `all_ids`, the
tables of the snapshot are empty after the delete and right after the add.

`PatternSummarizerProofs` proves (from `SummarizerAssumption`) `TypeCorrect` for
any number of entries, connections, clusters and faults, and, when no call gives
a `since` (`NoSinceGiven`, which is what the run `patterns` assumes; the run
`patterns_period` shows that it is needed), `NothingSkipped` (`CursorCovers`),
`CountedOnce` (`CountedOncePerFault`) and `CallCovers` (`ReturnCovers`). The
invariant comes in two parts. `FileInv` is about the files: what is still to be
written is newer than everything in them and than every cursor
(`WrittenInOrder`), which is what makes a timestamp usable as a cursor at all.
`CountInv` is about one batch: it begins beyond the cursor and leaves nothing out
up to its newest entry (`BatchIsNew`, `BatchCovers`), so moving the cursor to
that entry skips nothing; and an entry counted more often than the process died
is behind the cursor or about to be (`OnceUnlessSettled`), so a call counts it no
more. `DefaultOnce` adds the promise that the run `patterns_period` refutes when
an explicit period is given: without one, and without a fault, a batch holds
nothing that was counted.

`FrequencyCounts` (`FrequencyIsCounted`) needs no assumption on the periods. The
frequency in the file is the sum of how often each entry of the pattern was
counted, and `last_seen` the newest of them (`FrequencyInv`); what was counted is
in the log (`OnlyLogged`). Only `WritePatterns` changes either, by one for each
entry of the batch, so the step is a sum over a batch that is added to a sum over
a finite set. `NatSets` proves what that takes: the sum operator of the community
modules picks elements in an order that is not told and its definition is
recursive, so that the recursion has a solution, that its value does not depend
on the order, and that sums of disjoint sets and of changed functions add up are
lemmas of their own.

`AdapterSessionsProofs` proves, for each of the nine engines and any number of
refresh threads, sessions and drops (from `SessionsAssumption`): `TypeCorrect`,
`ReadOnlyInForce` (`StatementsRunReadOnly`), `RowsNotPlans`
(`QueriesReturnRows`), `LostOnce` (`LostSessionFailsOnce`),
`SessionsRemembered` (`NoSessionForgotten`), `ClientUsable` (`ClientIsThere`)
and `OneJvm` (`JvmStartedOnce`). None of them is inductive. The invariant `IInv`
says that a session belongs to one thread, in its slot or in its call
(`OwnSessions`), that its settings are in force before the thread keeps it
(`KeptReadOnly`), that SHOWPLAN is on only while its thread explains
(`PlanIsExplained`), that a session whose call failed is closed and in nobody's
hands (`FailedIsClosed`), that only `close()` in `Main` has sessions to close
(`ClosingInClose`), and that the number of JVMs is read and changed by the
holder of the lock (`JvmUnderLock`). Thirty actions would each disturb the same
parts, so the proof first names six effects a step can have - a thread moves,
takes a session, gets a new one, leaves its call, goes on after a statement, or
sessions end - shows once that each keeps `IInv`, and then, action by action,
which effect it has.

`ToolsProofs` proves all six invariants of the run `tool_answers`, for every
engine, every sequence of catalogs, every statement, argument and limit.
`TypeCorrect` (`TypeOK`) says that no tool reaches an operation its engine lacks
and each call ends in a documented answer or in the error of a read. It rests on
one lemma for each kind of read, which says that it ends on every engine that
offers it, and on one for each tool; `ActionsTell` then says once what every
action does, and `WhoAnswered` which action left the answer that a property
speaks of. `NothingHiddenLeaves` is the masking half of `SamplesAreMasked` and
`GuessesYield` the part of `DeclaredWins` about guesses for declared columns;
these three need nothing of the catalogs. The others need them to be catalogs
(`CatalogAssumption`, section 2):

* `SchemaIsRight` (`SchemaIsCatalog`) and, with it, everything said of a table
  that was read rests on `CatalogProofs`. A query yields one row for each column
  and match of its join, for table after table; the adapter groups the rows by
  table. `FlattenBlocks` says where an element of the flattened sequence comes
  from, `GroupOfBlocks` that grouping gives one object for each block that has
  rows, in order, `ObjectOfTable` that the fields of the object are the columns.
  What the join of an engine adds is a lemma for each engine (`MarkedOnce`,
  `PostgreSQLMarks`, `MSSQLMarks`, `TiberoMarks`): every column has a row, and on
  MySQL, ClickHouse and a PostgreSQL whose key names are unique exactly one, with
  its key rightly told (`PKMatchesCount`). `RowsTell` and `SchemaOfOne` sum up.
* `DeclarationsWin` (`DeclaredWins`): every foreign key of an asked table is
  among the rows of the engine's query for it (`DeclaredIsRead`), the tables
  that were read have names that were asked for (`AreRead`), and a target that
  is inferred is the name of one of them, another one than the table itself, and
  the same for all cells with the column's name (`GuessIsNamed`,
  `GuessesAgree`), whichever order the set of names was tried in. On PostgreSQL
  this is so of the keys that stay in their schema, and the theorem says no more.
* `AdviceCounts` (`AdviceIsUncovered`): a candidate is a word of the statement in
  lower case that stands after a WHERE, ON or ORDER BY (`CandidatesAreNamed`), and
  the indexes read of a table are its own with their first columns
  (`IndexesLead`).
* `PlanIsPartition` (`PlanPartitionsSource`): the dictionary by lower-case names
  has an entry for each column of the table and no other (`LowerNames`), with the
  type the catalog gives (`TypesAreRead`), and the plan takes every entry of the
  source once (`MappingPartitions`). `PlanIsForDefaultSource` adds when the promise
  that the run `pipeline_namespace` refutes is kept: a plan has exactly the columns
  of the table that was named if the name has no namespace or the default one and
  the columns of a table differ in more than case.
* `SamplesAreSafe` (`SamplesAreMasked`), for every integer limit: with
  `NothingHiddenLeaves`, that every adapter's sample ends at what its limit
  allows (`SampleIsLimited`, `Bound`), what a slice of Python leaves out
  (`SliceIsLimited`) and when the tool says so (`QueryAnswer`), and that masking
  keeps the number of rows (`MaskedLength`). It does not say that a query with a
  negative limit is bounded, for it is not.

None of the invariants needs a strengthening other than `TypeOK`, because an
action makes the whole call and the state keeps nothing else; what is hard is in
the operators. So that they can be reasoned about, they select by positions
(`Pick`, with `Nth` for the n-th of a set of positions) where a filter of a
sequence would be a recursive function.

What stays with TLC: liveness (`QuietMachineDrains`, `ExitTerminates`,
`LockIsReleased`, `SearchOutlivesScan`, `LockIsGivenBack`, `EveryCallReturns`), since
fairness and ENABLED are out of the prover's reach. Every safety invariant and
action property of a passing run is stated by a theorem. Of the tools whose
answers no property of the runs compares with the database (sessions, locks,
errors, slow operations, validation of a pipeline, the search of patterns) it is
proved and checked only how they end.

## 5. Plan

In this order:

1. `QALogWriter` with `QALog`: done, with proofs.
2. `OntologyRefresh`: done, with proofs.
3. `ConnectionManager`: done, with proofs.
4. `PatternSummarizer`: done, with proofs. An abstract specification (a counter
   of entries) is worth stating, and a second process that shares the log.
5. `AdapterSessions`: done, with proofs.
6. `Introspection`, `QueryText`, `Erd`, `Tools`: done, with proofs of every
   property.
7. `SshPipe`: the two byte streams of a forwarded connection.
8. Parameter binding: the placeholders of a statement, with the texts as
   sequences of characters.
9. `Server`: the tools, the refresh threads, the writer and the manager in one
   process, from `main()` to the last callback.

## 6. Not modelled

* The bytes that `_pipe` forwards through an SSH tunnel, and what the SSH
  library does for a client nobody closes.
* `convert_named_params`, which works on characters: literals, doubled quotes
  and `::` are skipped, comments are not. The statements of the models carry no
  parameters.
* Embeddings: a lazily loaded model; only its failure matters, and that is an
  input of `OntologyRefresh`.
* Texts: SQL templates beyond what they select, the skills, messages, wording,
  DDL suggestions, the contents of plans and the formats of answers.
* Third-party libraries beyond "returns or raises".
* Scripts, configuration and tests, which served as a reference only.

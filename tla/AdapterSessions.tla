-------------------------- MODULE AdapterSessions --------------------------
(***************************************************************************)
(* The database sessions of one adapter of server/database/: how a thread  *)
(* gets its session, runs a statement on it and loses it, and what close() *)
(* closes.  The tools run in Main; the refresh threads that come and go    *)
(* use the same adapter object.  The drivers (PyMySQL, psycopg, pymssql,   *)
(* JPype, clickhouse_connect, pymongo, redis, elasticsearch, opensearchpy) *)
(* are external: what a call of theirs does is left open.                  *)
(***************************************************************************)
EXTENDS Naturals, Sequences, FiniteSets

CONSTANTS
    Main,        (* the thread of the tools and of the atexit callback     *)
    Workers,     (* the refresh threads                                    *)
    NoThread,    (* the owner of the free lock                             *)
    Engines,     (* the db_types the adapter may be of                     *)
    MaxSessions, (* bound: sessions opened                                 *)
    MaxDrops     (* bound: sessions the server drops                       *)

Threads == {Main} \cup Workers

\* The engines that extend SqlAdapterBase, those with a session for each
\* thread, and those with one client for all threads.
Registering == {"mysql", "postgresql", "mssql"}
PerThread   == Registering \cup {"clickhouse", "tibero"}
Search      == {"elasticsearch", "opensearch"}
OneClient   == Search \cup {"mongodb", "redis"}

ASSUME SessionsAssumption ==
    /\ Main \notin Workers /\ NoThread \notin Threads
    /\ Engines \subseteq PerThread \cup OneClient
    /\ MaxSessions \in Nat /\ MaxDrops \in Nat

None == 0

VARIABLES
    engine,   (* the db_type of the adapter                                *)
    jar,      (* the Tibero driver is where the adapter looks for it       *)
    sessions, (* those opened so far: st is "open", "lost" (the server      *)
              (* dropped it, the driver does not know) or "closed"; ro: the *)
              (* server refuses writes; plan: SHOWPLAN is on               *)
    slot,     (* _local.conn, _local.client of each thread, or None        *)
    client,   (* _client of the engines with one client, or None           *)
    conns,    (* _all_conns                                                *)
    closing,  (* what close() swapped out of it and has still to close     *)
    pc,       (* where each thread is                                      *)
    call,     (* the operation it runs                                     *)
    cur,      (* its local variable conn, client or cursor, or None        *)
    jvmLock,  (* _jvm_lock                                                 *)
    jvms,     (* times the JVM was started                                 *)
    drops,    (* sessions the server dropped                               *)
    failures  (* history: for each session the calls, up to 2, in which a   *)
              (* statement failed because it is gone                       *)

sessionVars == <<sessions, slot, client, conns>>
jvmVars     == <<jvmLock, jvms>>
fixed       == <<engine, jar>>
vars == <<engine, jar, sessions, slot, client, conns, closing, pc, call, cur, jvmLock, jvms, drops, failures>>

Sessions == 1..Len(sessions)
Open(s)  == sessions[s].st = "open"

Goes(t, from, to) == pc[t] = from /\ pc' = [pc EXCEPT ![t] = to]

\* The call of t is over, with an answer or without: ping() reports a failure
\* and get_errors() swallows it, the other operations raise.
Ends(t, failed) ==
    LET s == cur[t]
        gone == failed /\ s # None /\ sessions'[s].st # "open"
    IN
    /\ pc' = [pc EXCEPT ![t] = "idle"]
    /\ cur' = [cur EXCEPT ![t] = None]
    /\ call' = [call EXCEPT ![t] = "none"]
    /\ failures' = IF gone /\ failures[s] < 2 THEN [failures EXCEPT ![s] = @ + 1] ELSE failures

Answers(t) == Ends(t, FALSE)
Fails(t)   == Ends(t, TRUE)

Becomes(s, st) == sessions' = [sessions EXCEPT ![s].st = st]

\* What comes of one statement on s: an answer or an error of the server, or
\* the driver finds out that the session is gone (a timeout, a reset), which
\* is also what close() does to it.
Served(s) == Open(s) /\ UNCHANGED sessions
Gone(s)   == Becomes(s, "closed")

-----------------------------------------------------------------------------
(* A call, up to the session.                                              *)

\* What an operation does with a session: run one statement (a query stands
\* for ping() and for every read of the engines), or explain one, or read the
\* error log past the guard.
Operations ==
    {"query"} \cup (IF engine \in PerThread THEN {"explain"} ELSE {})
              \cup (IF engine = "mssql" THEN {"errors"} ELSE {})

\* A statement that assert_readonly_sql() refuses never comes to the session.
Call(t, op) ==
    /\ Goes(t, "idle", "ensure")
    /\ op \in Operations
    /\ Len(sessions) + Cardinality({u \in Threads : pc[u] \notin {"idle", "off"}}) < MaxSessions
    /\ call' = [call EXCEPT ![t] = op]
    /\ UNCHANGED <<fixed, sessionVars, closing, cur, jvmVars, drops, failures>>

Uses(t, s) == cur' = [cur EXCEPT ![t] = s] /\ Goes(t, "ensure", "run")

Connects(t, to) == Goes(t, "ensure", to) /\ UNCHANGED cur

\* Mutant: the session is used again however it is.
ReuseAny(t) ==
    /\ engine \in Registering
    /\ IF slot[t] = None THEN Connects(t, "connect") ELSE Uses(t, slot[t])
    /\ UNCHANGED <<fixed, sessionVars, closing, call, jvmVars, drops, failures>>

\* _ensure_connection() of SqlAdapterBase: the driver tells whether the session
\* of the thread is closed.
ReuseOpen(t) ==
    /\ engine \in Registering
    /\ IF slot[t] = None \/ sessions[slot[t]].st = "closed"
       THEN Connects(t, "connect")
       ELSE Uses(t, slot[t])
    /\ UNCHANGED <<fixed, sessionVars, closing, call, jvmVars, drops, failures>>

\* _ensure_client() of ClickHouse and _ensure_connection() of Tibero: whatever
\* the thread has is used again.
ReuseClient(t) ==
    /\ engine = "clickhouse"
    /\ IF slot[t] = None THEN Connects(t, "connect") ELSE Uses(t, slot[t])
    /\ UNCHANGED <<fixed, sessionVars, closing, call, jvmVars, drops, failures>>

ReuseJdbc(t) ==
    /\ engine = "tibero"
    /\ IF slot[t] = None THEN Connects(t, "jvm") ELSE Uses(t, slot[t])
    /\ UNCHANGED <<fixed, sessionVars, closing, call, jvmVars, drops, failures>>

\* The test for None of the engines with one client: no lock is taken.
TestClient(t) ==
    /\ engine \in OneClient
    /\ Connects(t, IF client = None THEN "connect" ELSE "fetch")
    /\ UNCHANGED <<fixed, sessionVars, closing, call, jvmVars, drops, failures>>

-----------------------------------------------------------------------------
(* Opening a session.                                                      *)

\* A session is opened for t, or the login fails.
Opens(t, readonly, to) ==
    /\ pc[t] = "connect"
    /\ \/ /\ sessions' = Append(sessions, [st |-> "open", ro |-> readonly, plan |-> FALSE])
          /\ cur' = [cur EXCEPT ![t] = Len(sessions) + 1]
          /\ pc' = [pc EXCEPT ![t] = to]
          /\ failures' = Append(failures, 0)
          /\ UNCHANGED call
       \/ UNCHANGED sessions /\ Fails(t)
    /\ UNCHANGED <<fixed, closing, jvmVars, drops>>

MySQLConnect(t) ==
    engine = "mysql" /\ Opens(t, FALSE, "hook") /\ UNCHANGED <<slot, client, conns>>

\* The options of the login make every transaction of the session read only.
PostgreSQLConnect(t) ==
    engine = "postgresql" /\ Opens(t, TRUE, "store") /\ UNCHANGED <<slot, client, conns>>

MSSQLConnect(t) ==
    engine = "mssql" /\ Opens(t, FALSE, "store") /\ UNCHANGED <<slot, client, conns>>

\* Mutant: the client of the thread is set before the login.
ClickHouseConnectEarly(t) ==
    /\ engine = "clickhouse"
    /\ Opens(t, TRUE, "run")
    /\ slot' = [slot EXCEPT ![t] = Len(sessions) + 1]
    /\ UNCHANGED <<client, conns>>

\* The settings of the client are sent with every query.
ClickHouseConnect(t) ==
    /\ engine = "clickhouse"
    /\ Opens(t, TRUE, "run")
    /\ slot' = [slot EXCEPT ![t] = cur'[t]]
    /\ UNCHANGED <<client, conns>>

\* setReadOnly() is only a hint, and its failure is ignored.
TiberoConnect(t) ==
    /\ engine = "tibero"
    /\ \E readonly \in BOOLEAN : Opens(t, readonly, "run")
    /\ slot' = [slot EXCEPT ![t] = cur'[t]]
    /\ UNCHANGED <<client, conns>>

\* The engines with one client: it is created, stored, and read again for the
\* return value.
MongoDBConnect(t) ==
    /\ engine = "mongodb"
    /\ Opens(t, FALSE, "fetch")
    /\ client' = IF pc'[t] = "fetch" THEN cur'[t] ELSE client
    /\ UNCHANGED <<slot, conns>>

RedisConnect(t) ==
    /\ engine = "redis"
    /\ Opens(t, FALSE, "fetch")
    /\ client' = IF pc'[t] = "fetch" THEN cur'[t] ELSE client
    /\ UNCHANGED <<slot, conns>>

ElasticsearchConnect(t) ==
    /\ engine = "elasticsearch"
    /\ Opens(t, FALSE, "fetch")
    /\ client' = IF pc'[t] = "fetch" THEN cur'[t] ELSE client
    /\ UNCHANGED <<slot, conns>>

OpenSearchConnect(t) ==
    /\ engine = "opensearch"
    /\ Opens(t, FALSE, "fetch")
    /\ client' = IF pc'[t] = "fetch" THEN cur'[t] ELSE client
    /\ UNCHANGED <<slot, conns>>

FetchClient(t) ==
    /\ Goes(t, "fetch", "run")
    /\ cur' = [cur EXCEPT ![t] = client]
    /\ UNCHANGED <<fixed, sessionVars, closing, call, jvmVars, drops, failures>>

\* Mutant: the session is used although the hook failed.
AfterConnectIgnored(t) ==
    /\ Goes(t, "hook", "store")
    /\ \E done \in BOOLEAN : sessions' = [sessions EXCEPT ![cur[t]].ro = done]
    /\ UNCHANGED <<fixed, slot, client, conns, closing, call, cur, jvmVars, drops, failures>>

\* SET SESSION TRANSACTION READ ONLY.  When it fails the call fails, and
\* nothing refers to the session any more.
MySQLAfterConnect(t) ==
    /\ pc[t] = "hook"
    /\ \/ /\ Open(cur[t])
          /\ sessions' = [sessions EXCEPT ![cur[t]].ro = TRUE]
          /\ pc' = [pc EXCEPT ![t] = "store"]
          /\ UNCHANGED <<call, cur, failures>>
       \/ Gone(cur[t]) /\ Fails(t)
    /\ UNCHANGED <<fixed, slot, client, conns, closing, jvmVars, drops>>

\* self._conn = conn, and then _register_conn().
StoreConn(t) ==
    /\ Goes(t, "store", "register")
    /\ slot' = [slot EXCEPT ![t] = cur[t]]
    /\ UNCHANGED <<fixed, sessions, client, conns, closing, call, cur, jvmVars, drops, failures>>

RegisterConn(t) ==
    /\ Goes(t, "register", "run")
    /\ conns' = conns \cup {cur[t]}
    /\ UNCHANGED <<fixed, sessions, slot, client, closing, call, cur, jvmVars, drops, failures>>

\* Mutant: the JVM is looked up and started without the lock.
TakeJvmLockUnguarded(t) ==
    /\ engine = "tibero"
    /\ Goes(t, "jvm", "jvmTest")
    /\ jvmLock' = t
    /\ UNCHANGED <<fixed, sessionVars, closing, call, cur, jvms, drops, failures>>

\* _ensure_jvm_started(): one JVM for the process.
TakeJvmLock(t) ==
    /\ engine = "tibero"
    /\ jvmLock = NoThread
    /\ Goes(t, "jvm", "jvmTest")
    /\ jvmLock' = t
    /\ UNCHANGED <<fixed, sessionVars, closing, call, cur, jvms, drops, failures>>

\* Mutant: acquire() and release() without a `finally`.
TestJvmKeepsLock(t) ==
    /\ pc[t] = "jvmTest"
    /\ \/ /\ jvms > 0
          /\ pc' = [pc EXCEPT ![t] = "connect"]
          /\ jvmLock' = NoThread
          /\ UNCHANGED <<call, cur, failures>>
       \/ /\ jvms = 0 /\ ~jar
          /\ Fails(t)
          /\ UNCHANGED jvmLock
       \/ /\ jvms = 0 /\ jar
          /\ pc' = [pc EXCEPT ![t] = "jvmStart"]
          /\ UNCHANGED <<call, cur, failures, jvmLock>>
    /\ UNCHANGED <<fixed, sessionVars, closing, jvms, drops>>

TestJvm(t) ==
    /\ pc[t] = "jvmTest"
    /\ \/ /\ jvms > 0
          /\ pc' = [pc EXCEPT ![t] = "connect"]
          /\ jvmLock' = NoThread
          /\ UNCHANGED <<call, cur, failures>>
       \/ /\ jvms = 0 /\ ~jar
          /\ Fails(t)
          /\ jvmLock' = NoThread
       \/ /\ jvms = 0 /\ jar
          /\ pc' = [pc EXCEPT ![t] = "jvmStart"]
          /\ UNCHANGED <<call, cur, failures, jvmLock>>
    /\ UNCHANGED <<fixed, sessionVars, closing, jvms, drops>>

\* startJVM(), which raises when there is no JVM to load.
StartJvm(t) ==
    /\ \/ /\ Goes(t, "jvmStart", "connect")
          /\ jvms' = jvms + 1
          /\ UNCHANGED <<call, cur, failures>>
       \/ /\ pc[t] = "jvmStart"
          /\ Fails(t)
          /\ UNCHANGED jvms
    /\ jvmLock' = NoThread
    /\ UNCHANGED <<fixed, sessionVars, closing, drops>>

-----------------------------------------------------------------------------
(* Statements.                                                             *)

\* execute_readonly() and ping() of SqlAdapterBase, and explain() of MySQL and
\* PostgreSQL, which is a statement of its own.  The driver marks a session it
\* lost as closed.
Execute(t) ==
    /\ engine \in Registering /\ ~(engine = "mssql" /\ call[t] \in {"explain", "errors"})
    /\ pc[t] = "run"
    /\ \/ Served(cur[t]) /\ (Answers(t) \/ Fails(t))
       \/ Gone(cur[t]) /\ Fails(t)
    /\ UNCHANGED <<fixed, slot, client, conns, closing, jvmVars, drops>>

\* The error log of MSSQL is read with EXEC, past the guard.
MSSQLReadErrorLog(t) ==
    /\ engine = "mssql" /\ call[t] = "errors"
    /\ pc[t] = "run"
    /\ \/ Served(cur[t]) /\ (Answers(t) \/ Fails(t))
       \/ Gone(cur[t]) /\ Fails(t)
    /\ UNCHANGED <<fixed, slot, client, conns, closing, jvmVars, drops>>

\* SET SHOWPLAN_XML ON or OFF.
ShowPlan(s, on) == sessions' = [sessions EXCEPT ![s].plan = on]

\* Mutant: SHOWPLAN is switched off after the statement, not in a `finally`.
MSSQLExplainUncleaned(t) ==
    /\ engine = "mssql" /\ call[t] = "explain"
    /\ \/ /\ pc[t] \in {"run", "planned"}
          /\ Open(cur[t])
          /\ ShowPlan(cur[t], TRUE)
          /\ pc' = [pc EXCEPT ![t] = IF pc[t] = "run" THEN "planned" ELSE "planOff"]
          /\ UNCHANGED <<call, cur, failures>>
       \/ /\ pc[t] \in {"run", "planned"}
          /\ Served(cur[t]) \/ Gone(cur[t])
          /\ Fails(t)
    /\ UNCHANGED <<fixed, slot, client, conns, closing, jvmVars, drops>>

\* explain() of MSSQL: SHOWPLAN on, then the statement, which is not executed.
MSSQLExplain(t) ==
    /\ engine = "mssql" /\ call[t] = "explain"
    /\ pc[t] \in {"run", "planned"}
    /\ \/ /\ Open(cur[t])
          /\ ShowPlan(cur[t], TRUE)
          /\ pc' = [pc EXCEPT ![t] = IF pc[t] = "run" THEN "planned" ELSE "planOff"]
       \/ /\ Served(cur[t]) \/ Gone(cur[t])
          /\ pc' = [pc EXCEPT ![t] = "planOff"]
    /\ UNCHANGED <<fixed, slot, client, conns, closing, call, cur, jvmVars, drops, failures>>

\* Its `finally`: SHOWPLAN off, which fails only when the session is gone.
MSSQLPlanOff(t) ==
    /\ pc[t] = "planOff"
    /\ \/ Open(cur[t]) /\ ShowPlan(cur[t], FALSE) /\ Answers(t)
       \/ Gone(cur[t]) /\ Fails(t)
    /\ UNCHANGED <<fixed, slot, client, conns, closing, jvmVars, drops>>

\* A client of ClickHouse sends each statement on its own: it is never lost.
ClickHouseExecute(t) ==
    /\ engine = "clickhouse"
    /\ pc[t] = "run"
    /\ UNCHANGED sessions
    /\ \/ Open(cur[t]) /\ Answers(t)
       \/ Fails(t)
    /\ UNCHANGED <<fixed, slot, client, conns, closing, jvmVars, drops>>

\* execute_readonly() of Tibero, and ping().
TiberoExecute(t) ==
    /\ engine = "tibero" /\ call[t] # "explain"
    /\ pc[t] = "run"
    /\ \/ Served(cur[t]) /\ (Answers(t) \/ Fails(t))
       \/ Gone(cur[t]) /\ Fails(t)
    /\ UNCHANGED <<fixed, slot, client, conns, closing, jvmVars, drops>>

\* explain() of Tibero: EXPLAIN PLAN FOR, then a query for the plan, which
\* looks the session of the thread up again.
TiberoExplain(t) ==
    /\ engine = "tibero" /\ call[t] = "explain"
    /\ \/ /\ pc[t] = "run"
          /\ Served(cur[t])
          /\ pc' = [pc EXCEPT ![t] = "display"]
          /\ UNCHANGED <<call, cur, failures>>
       \/ pc[t] = "display" /\ Served(cur[t]) /\ Answers(t)
       \/ pc[t] \in {"run", "display"} /\ (Served(cur[t]) \/ Gone(cur[t])) /\ Fails(t)
    /\ UNCHANGED <<fixed, slot, client, conns, closing, jvmVars, drops>>

\* Mutant: a failed operation forgets the client so that the next one connects.
UseClientForgets(t) ==
    /\ engine \in OneClient
    /\ pc[t] = "run"
    /\ UNCHANGED sessions
    /\ \/ cur[t] # None /\ Open(cur[t]) /\ Answers(t) /\ UNCHANGED client
       \/ Fails(t) /\ client' = None
    /\ UNCHANGED <<fixed, slot, conns, closing, jvmVars, drops>>

\* An operation of an engine with one client; a method of None raises.  These
\* drivers connect again by themselves.
UseClient(t) ==
    /\ engine \in OneClient
    /\ pc[t] = "run"
    /\ UNCHANGED sessions
    /\ \/ cur[t] # None /\ Open(cur[t]) /\ Answers(t)
       \/ Fails(t)
    /\ UNCHANGED <<fixed, slot, client, conns, closing, jvmVars, drops>>

\* The server or the network ends a session; no driver notices until it is used.
ServerDrops(s) ==
    /\ drops < MaxDrops
    /\ engine \in PerThread \ {"clickhouse"}
    /\ Open(s)
    /\ Becomes(s, "lost")
    /\ drops' = drops + 1
    /\ UNCHANGED <<fixed, slot, client, conns, closing, pc, call, cur, jvmVars, failures>>

-----------------------------------------------------------------------------
(* The end of a refresh thread, and of the process.                        *)

\* A refresh thread starts.
WorkerStarts(w) ==
    /\ pc[Main] # "closed"
    /\ Goes(w, "off", "idle")
    /\ UNCHANGED <<fixed, sessionVars, closing, call, cur, jvmVars, drops, failures>>

\* What it had in _local goes with it.
WorkerEnds(w) ==
    /\ Goes(w, "idle", "off")
    /\ slot' = [slot EXCEPT ![w] = None]
    /\ UNCHANGED <<fixed, sessions, client, conns, closing, call, cur, jvmVars, drops, failures>>

\* Mutant: the list is read, and emptied when everything in it is closed.
SwapConnsLate ==
    /\ engine \in Registering
    /\ \/ /\ Goes(Main, "idle", "closing")
          /\ closing' = conns
          /\ UNCHANGED <<sessions, conns>>
       \/ /\ pc[Main] = "closing" /\ closing # {}
          /\ \E s \in closing : Gone(s) /\ closing' = closing \ {s}
          /\ UNCHANGED <<pc, conns>>
       \/ /\ closing = {}
          /\ Goes(Main, "closing", "closed")
          /\ conns' = {}
          /\ UNCHANGED <<sessions, closing>>
    /\ UNCHANGED <<fixed, slot, client, call, cur, jvmVars, drops, failures>>

\* close() of SqlAdapterBase: the list is swapped for an empty one under its
\* lock, and the sessions of all threads in it are closed, one by one.
CloseConns ==
    /\ engine \in Registering
    /\ \/ /\ Goes(Main, "idle", "closing")
          /\ closing' = conns /\ conns' = {}
          /\ UNCHANGED sessions
       \/ /\ pc[Main] = "closing" /\ closing # {}
          /\ \E s \in closing : Gone(s) /\ closing' = closing \ {s}
          /\ UNCHANGED <<pc, conns>>
       \/ /\ closing = {}
          /\ Goes(Main, "closing", "closed")
          /\ UNCHANGED <<sessions, closing, conns>>
    /\ UNCHANGED <<fixed, slot, client, call, cur, jvmVars, drops, failures>>

\* close() of ClickHouse and Tibero: the session of the calling thread only.
CloseClickHouse ==
    /\ engine = "clickhouse"
    /\ Goes(Main, "idle", "closed")
    /\ IF slot[Main] = None THEN UNCHANGED sessions ELSE Gone(slot[Main])
    /\ UNCHANGED <<fixed, slot, client, conns, closing, call, cur, jvmVars, drops, failures>>

CloseTibero ==
    /\ engine = "tibero"
    /\ Goes(Main, "idle", "closed")
    /\ IF slot[Main] = None THEN UNCHANGED sessions ELSE Gone(slot[Main])
    /\ slot' = [slot EXCEPT ![Main] = None]
    /\ UNCHANGED <<fixed, client, conns, closing, call, cur, jvmVars, drops, failures>>

\* close() of the engines with one client: close it, then forget it.  The
\* exception of a MongoDB client is not swallowed, and the client is kept.
CloseClient(raises) ==
    /\ engine \in OneClient
    /\ raises => engine = "mongodb"
    /\ \/ /\ IF client = None \/ raises
             THEN Goes(Main, "idle", "closed") /\ UNCHANGED sessions
             ELSE Goes(Main, "idle", "closing") /\ Gone(client)
          /\ UNCHANGED client
       \/ /\ Goes(Main, "closing", "closed")
          /\ client' = None
          /\ UNCHANGED sessions
    /\ UNCHANGED <<fixed, slot, conns, closing, call, cur, jvmVars, drops, failures>>

Close == CloseConns \/ CloseClickHouse \/ CloseTibero \/ \E raises \in BOOLEAN : CloseClient(raises)

-----------------------------------------------------------------------------
Init ==
    /\ engine \in Engines
    /\ jar \in (IF engine = "tibero" THEN BOOLEAN ELSE {TRUE})
    /\ sessions = << >>
    /\ slot = [t \in Threads |-> None]
    /\ client = None
    /\ conns = {}
    /\ closing = {}
    /\ pc = [t \in Threads |-> IF t = Main THEN "idle" ELSE "off"]
    /\ call = [t \in Threads |-> "none"]
    /\ cur = [t \in Threads |-> None]
    /\ jvmLock = NoThread
    /\ jvms = 0
    /\ drops = 0
    /\ failures = << >>

Ensuring(t) ==
    \/ ReuseOpen(t) \/ ReuseClient(t) \/ ReuseJdbc(t) \/ TestClient(t) \/ FetchClient(t)
    \/ TestJvm(t) \/ StartJvm(t)
    \/ MySQLConnect(t) \/ PostgreSQLConnect(t) \/ MSSQLConnect(t) \/ ClickHouseConnect(t)
    \/ TiberoConnect(t) \/ MongoDBConnect(t) \/ RedisConnect(t) \/ ElasticsearchConnect(t)
    \/ OpenSearchConnect(t) \/ MySQLAfterConnect(t) \/ StoreConn(t) \/ RegisterConn(t)

Running(t) ==
    \/ Execute(t) \/ MSSQLReadErrorLog(t) \/ MSSQLExplain(t) \/ MSSQLPlanOff(t)
    \/ ClickHouseExecute(t) \/ TiberoExecute(t) \/ TiberoExplain(t) \/ UseClient(t)

Next ==
    \/ \E t \in Threads, op \in Operations : Call(t, op)
    \/ \E t \in Threads : Ensuring(t) \/ TakeJvmLock(t) \/ Running(t)
    \/ \E w \in Workers : WorkerStarts(w) \/ WorkerEnds(w)
    \/ \E s \in Sessions : ServerDrops(s)
    \/ Close

Spec == Init /\ [][Next]_vars

\* Every call of a driver returns: each has a timeout.  The JVM lock is held
\* for a moment only, and whoever waits for it gets it in the end.
FairSpec == Spec /\ \A t \in Threads : WF_vars(Ensuring(t) \/ Running(t)) /\ SF_vars(TakeJvmLock(t))

-----------------------------------------------------------------------------
(* Properties.                                                             *)

Labels == {"off", "idle", "ensure", "jvm", "jvmTest", "jvmStart", "connect", "hook", "store", "register",
           "fetch", "run", "planned", "planOff", "display", "closing", "closed"}

States == {"open", "lost", "closed"}
SessionType == [st : States, ro : BOOLEAN, plan : BOOLEAN]

TypeOK ==
    /\ engine \in Engines /\ jar \in BOOLEAN
    /\ sessions \in Seq(SessionType)
    /\ slot \in [Threads -> {None} \cup Sessions]
    /\ client \in {None} \cup Sessions
    /\ conns \in SUBSET Sessions /\ closing \in SUBSET Sessions
    /\ pc \in [Threads -> Labels]
    /\ call \in [Threads -> {"none", "query", "errors", "explain"}]
    /\ cur \in [Threads -> {None} \cup Sessions]
    /\ jvmLock \in Threads \cup {NoThread} /\ jvms \in Nat
    /\ drops \in 0..MaxDrops
    /\ failures \in Seq(0..2) /\ Len(failures) = Len(sessions)

InStatement(t) == pc[t] \in {"run", "planned", "planOff", "display"}

\* sql_guard.py:10-14: MySQL, PostgreSQL and ClickHouse have the server refuse
\* writes as well.  However a session came about, no statement of a caller runs
\* on one where that is not in force.
StatementsRunReadOnly ==
    engine \in {"mysql", "postgresql", "clickhouse"} =>
        \A t \in Threads : InStatement(t) => sessions[cur[t]].ro

\* SHOWPLAN is a setting of the session, and the session is used again: no
\* later statement of the thread is answered with its plan instead of its rows,
\* whatever failed in explain().
QueriesReturnRows ==
    \A t \in Threads : InStatement(t) /\ call[t] # "explain" /\ cur[t] # None => ~sessions[cur[t]].plan

\* A session that was lost costs one failed call: the next one of the thread
\* has a new session.
LostSessionFailsOnce == engine \in Registering => \A s \in Sessions : failures[s] <= 1

\* Whatever the threads do while close() runs, a session that is open is one
\* that a close() closes, or its thread is about to register it.
NoSessionForgotten ==
    engine \in Registering => \A s \in Sessions : sessions[s].st # "closed" =>
        \/ s \in conns \cup closing
        \/ \E t \in Threads : cur[t] = s /\ pc[t] \in {"hook", "store", "register"}

\* The client is tested, and read again later, without a lock: it is None then
\* only when close() came in between.
ClientIsThere ==
    engine \in OneClient => \A t \in Threads : InStatement(t) /\ cur[t] = None => pc[Main] = "closed"

\* JPype can start one JVM in a process: two threads that connect at once do
\* not start it twice.
JvmStartedOnce == jvms <= 1

\* A thread in a call gets its answer, whatever fails on the way and whoever
\* holds the lock of the JVM.
InCall(t) == pc[t] \notin {"off", "idle", "closing", "closed"}

EveryCallReturns == \A t \in Threads : InCall(t) ~> ~InCall(t)
=============================================================================

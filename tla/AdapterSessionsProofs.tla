----------------------- MODULE AdapterSessionsProofs -----------------------
(***************************************************************************)
(* Theorems about AdapterSessions, for any number of refresh threads,      *)
(* sessions and drops: the invariants the run adapter_sessions checks,     *)
(* from one inductive invariant.                                           *)
(***************************************************************************)
EXTENDS AdapterSessions, TLAPS

-----------------------------------------------------------------------------
(* The inductive invariant.                                                *)

\* What its place in the code says of a thread, and of its local variable.
Places ==
    \A t \in Threads :
        /\ pc[t] \in {"closing", "closed"} => t = Main
        /\ pc[t] = "hook" => engine = "mysql"
        /\ pc[t] \in {"store", "register"} => engine \in Registering
        /\ pc[t] \in {"jvm", "jvmTest", "jvmStart", "display"} => engine = "tibero"
        /\ pc[t] = "fetch" => engine \in OneClient
        /\ pc[t] \in {"planned", "planOff"} => engine = "mssql" /\ call[t] = "explain"
        /\ pc[t] \in {"off", "idle", "ensure", "jvm", "jvmTest", "jvmStart", "connect", "closing", "closed"} =>
               cur[t] = None
        /\ pc[t] \in {"hook", "store", "register", "planned", "planOff", "display"} => cur[t] # None
        /\ pc[t] = "run" /\ engine \in PerThread => cur[t] # None

\* A session of a thread is of no other thread.
OwnSessions ==
    engine \in PerThread => \A t, u \in Threads :
        t # u => /\ cur[t] = None \/ (cur[t] # cur[u] /\ cur[t] # slot[u])
                 /\ slot[t] = None \/ slot[t] # slot[u]

\* What a thread keeps, or is about to keep, refuses writes already.
KeptReadOnly ==
    engine \in {"mysql", "postgresql", "clickhouse"} => \A t \in Threads :
        /\ slot[t] # None => sessions[slot[t]].ro
        /\ pc[t] \in {"store", "register"} \/ InStatement(t) => sessions[cur[t]].ro

\* SHOWPLAN is on while its explain() runs, or the session is closed.
PlanIsExplained ==
    \A s \in {x \in Sessions : sessions[x].plan} :
        /\ engine = "mssql"
        /\ \/ sessions[s].st = "closed"
           \/ \E t \in Threads : pc[t] \in {"planned", "planOff"} /\ cur[t] = s

\* SHOWPLAN is not on yet on a session that no statement has come to.
NewIsUnplanned ==
    \A t \in Threads : pc[t] \in {"hook", "store", "register"} => ~sessions[cur[t]].plan

\* A session on which a call failed is closed and in nobody's hands.
FailedIsClosed ==
    engine \in Registering => \A s \in {x \in Sessions : failures[x] # 0} :
        /\ failures[s] = 1
        /\ sessions[s].st = "closed"
        /\ \A t \in Threads : cur[t] # s

\* Only close() in Main has sessions to close.
ClosingInClose == closing # {} => pc[Main] = "closing" /\ engine \in Registering

\* From the first look at jvms to the start the lock is held.
JvmUnderLock ==
    /\ jvms <= 1
    /\ \A t \in Threads : /\ pc[t] \in {"jvmTest", "jvmStart"} => jvmLock = t
                          /\ pc[t] = "jvmStart" => jvms = 0

\* A client that was there is not None when it is read again, but for close().
FetchedIsThere ==
    engine \in OneClient => \A t \in Threads : pc[t] = "fetch" /\ client = None => pc[Main] = "closed"

IInv ==
    /\ TypeOK /\ Places /\ OwnSessions
    /\ KeptReadOnly
    /\ PlanIsExplained /\ NewIsUnplanned /\ QueriesReturnRows
    /\ FailedIsClosed
    /\ ClosingInClose /\ NoSessionForgotten
    /\ JvmUnderLock
    /\ FetchedIsThere /\ ClientIsThere

-----------------------------------------------------------------------------
(* Assigning one field of one session.                                     *)

LEMMA StateOfOne ==
    ASSUME NEW r \in SessionType, NEW x \in States
    PROVE  /\ [r EXCEPT !.st = x] \in SessionType /\ [r EXCEPT !.st = x].st = x
           /\ [r EXCEPT !.st = x].ro = r.ro /\ [r EXCEPT !.st = x].plan = r.plan
BY SMT DEF SessionType, States

LEMMA ReadOnlyOfOne ==
    ASSUME NEW r \in SessionType, NEW x \in BOOLEAN
    PROVE  /\ [r EXCEPT !.ro = x] \in SessionType /\ [r EXCEPT !.ro = x].ro = x
           /\ [r EXCEPT !.ro = x].st = r.st /\ [r EXCEPT !.ro = x].plan = r.plan
BY SMT DEF SessionType, States

LEMMA PlanOfOne ==
    ASSUME NEW r \in SessionType, NEW x \in BOOLEAN
    PROVE  /\ [r EXCEPT !.plan = x] \in SessionType /\ [r EXCEPT !.plan = x].plan = x
           /\ [r EXCEPT !.plan = x].st = r.st /\ [r EXCEPT !.plan = x].ro = r.ro
BY SMT DEF SessionType, States

LEMMA BecomesEffect ==
    ASSUME sessions \in Seq(SessionType), NEW s \in Sessions, NEW x \in States, Becomes(s, x)
    PROVE  /\ sessions' \in Seq(SessionType) /\ Len(sessions') = Len(sessions)
           /\ \A i \in Sessions : /\ i # s => sessions'[i] = sessions[i]
                                  /\ sessions'[i].st = IF i = s THEN x ELSE sessions[i].st
                                  /\ sessions'[i].ro = sessions[i].ro /\ sessions'[i].plan = sessions[i].plan
<1> USE DEF Sessions
<1> DEFINE y == [sessions[s] EXCEPT !.st = x]
<1>1. sessions' = [sessions EXCEPT ![s] = y]
  BY DEF Becomes
<1>2. sessions[s] \in SessionType
  OBVIOUS
<1>3. y \in SessionType /\ y.st = x /\ y.ro = sessions[s].ro /\ y.plan = sessions[s].plan
  BY <1>2, StateOfOne
<1> HIDE DEF y
<1>4. sessions' \in Seq(SessionType) /\ Len(sessions') = Len(sessions)
  BY <1>1, <1>3
<1>5. \A i \in Sessions : sessions'[i] = IF i = s THEN y ELSE sessions[i]
  BY <1>1, <1>3
<1> QED BY <1>3, <1>4, <1>5

LEMMA ShowPlanEffect ==
    ASSUME sessions \in Seq(SessionType), NEW s \in Sessions, NEW on \in BOOLEAN, ShowPlan(s, on)
    PROVE  /\ sessions' \in Seq(SessionType) /\ Len(sessions') = Len(sessions)
           /\ \A i \in Sessions : /\ i # s => sessions'[i] = sessions[i]
                                  /\ sessions'[i].plan = IF i = s THEN on ELSE sessions[i].plan
                                  /\ sessions'[i].st = sessions[i].st /\ sessions'[i].ro = sessions[i].ro
<1> USE DEF Sessions
<1> DEFINE y == [sessions[s] EXCEPT !.plan = on]
<1>1. sessions' = [sessions EXCEPT ![s] = y]
  BY DEF ShowPlan
<1>2. sessions[s] \in SessionType
  OBVIOUS
<1>3. y \in SessionType /\ y.plan = on /\ y.st = sessions[s].st /\ y.ro = sessions[s].ro
  BY <1>2, PlanOfOne
<1> HIDE DEF y
<1>4. sessions' \in Seq(SessionType) /\ Len(sessions') = Len(sessions)
  BY <1>1, <1>3
<1>5. \A i \in Sessions : sessions'[i] = IF i = s THEN y ELSE sessions[i]
  BY <1>1, <1>3
<1> QED BY <1>3, <1>4, <1>5

-----------------------------------------------------------------------------
LEMMA MainIsThread == Main \in Threads /\ Workers \subseteq Threads /\ NoThread \notin Threads
BY SessionsAssumption DEF Threads

LEMMA EndsEffect ==
    ASSUME TypeOK, NEW t \in Threads, NEW failed \in BOOLEAN, Ends(t, failed)
    PROVE  /\ failures' \in Seq(0..2) /\ Len(failures') = Len(failures)
           /\ \A s \in Sessions : \/ failures'[s] = failures[s]
                                  \/ /\ s = cur[t] /\ failed /\ sessions'[s].st # "open"
                                     /\ failures'[s] = failures[s] + 1
<1>1. cur[t] \in {None} \cup Sessions /\ failures \in Seq(0..2) /\ Len(failures) = Len(sessions)
  BY DEF TypeOK
<1>2. CASE failed /\ cur[t] # None /\ sessions'[cur[t]].st # "open" /\ failures[cur[t]] < 2
  <2>1. failures' = [failures EXCEPT ![cur[t]] = failures[cur[t]] + 1]
    BY <1>2, Zenon DEF Ends
  <2>2. cur[t] \in 1..Len(failures) /\ failures[cur[t]] + 1 \in 0..2
    BY <1>1, <1>2 DEF Sessions, None
  <2>3. failures' \in Seq(0..2) /\ Len(failures') = Len(failures)
        /\ \A i \in 1..Len(failures) : failures'[i] = IF i = cur[t] THEN failures[i] + 1 ELSE failures[i]
    BY <1>1, <2>1, <2>2
  <2> QED BY <1>1, <1>2, <2>3 DEF Sessions
<1>3. CASE ~(failed /\ cur[t] # None /\ sessions'[cur[t]].st # "open" /\ failures[cur[t]] < 2)
  <2>1. failures' = failures
    BY <1>3, Zenon DEF Ends
  <2> QED BY <1>1, <2>1
<1> QED BY <1>2, <1>3

-----------------------------------------------------------------------------
(* What the steps have in common, and that each of these effects keeps the  *)
(* invariant once the types are right.                                     *)

KeepsOthers(t) ==
    \A u \in Threads \ {t} : pc'[u] = pc[u] /\ call'[u] = call[u] /\ cur'[u] = cur[u] /\ slot'[u] = slot[u]

\* t comes to x without a session.
Moves(t, x) ==
    /\ UNCHANGED <<engine, sessions, client, conns, closing, failures>>
    /\ pc[t] \in {"off", "idle", "ensure", "jvm", "jvmTest", "jvmStart", "connect"} /\ pc'[t] = x
    /\ x \in {"off", "idle", "ensure", "connect", "jvm", "jvmTest", "jvmStart", "fetch"}
    /\ x \in {"jvm", "jvmTest", "jvmStart"} => engine = "tibero"
    /\ x = "fetch" => engine \in OneClient /\ client # None
    /\ cur'[t] = None /\ slot'[t] \in {slot[t], None}
    /\ KeepsOthers(t)

\* t gets a session that is there.
Takes(t, s) ==
    /\ UNCHANGED <<engine, sessions, slot, client, conns, closing, failures, jvmVars>>
    /\ pc[t] \in {"ensure", "fetch"} /\ pc'[t] = "run" /\ call'[t] = call[t] /\ cur'[t] = s
    /\ \/ /\ engine \in PerThread /\ s = slot[t] /\ s # None
          /\ engine \in Registering => sessions[s].st # "closed"
       \/ engine \in OneClient /\ s = client /\ pc[t] = "fetch"
    /\ KeepsOthers(t)

\* t gets a session that was opened for it.
GetsNew(t, readonly, x) ==
    LET n == Len(sessions) + 1 IN
    /\ UNCHANGED <<engine, conns, closing, jvmVars>>
    /\ Len(sessions') = n /\ \A s \in Sessions : sessions'[s] = sessions[s] /\ failures'[s] = failures[s]
    /\ sessions'[n].st = "open" /\ sessions'[n].ro = readonly /\ ~sessions'[n].plan /\ failures'[n] = 0
    /\ pc[t] = "connect" /\ pc'[t] = x /\ call'[t] = call[t] /\ cur'[t] = n
    /\ \/ x = "hook" /\ engine = "mysql"
       \/ x = "store" /\ engine \in {"postgresql", "mssql"}
       \/ x = "run" /\ engine \in {"clickhouse", "tibero"}
       \/ x = "fetch" /\ engine \in OneClient
    /\ engine \in {"postgresql", "clickhouse"} => readonly
    /\ slot'[t] \in {slot[t], n} /\ (engine \in Registering => slot'[t] = slot[t])
    /\ IF engine \in OneClient THEN client' = n ELSE client' = client
    /\ KeepsOthers(t)

\* The call of t is over, and with it perhaps its session.
Leaves(t) ==
    LET c == cur[t] IN
    /\ UNCHANGED <<engine, slot, client, conns, closing, jvmVars>>
    /\ pc[t] = "hook" \/ InStatement(t)
    /\ pc'[t] = "idle" /\ cur'[t] = None
    /\ Len(sessions') = Len(sessions)
    /\ \A s \in Sessions :
          /\ s # c => sessions'[s] = sessions[s] /\ failures'[s] = failures[s]
          /\ sessions'[s].ro = sessions[s].ro
          /\ sessions'[s].st \in {sessions[s].st, "closed"}
          /\ sessions'[s].plan => sessions[s].plan
    /\ c # None =>
          /\ pc[t] = "hook" => sessions'[c].st = "closed"
          /\ pc[t] \in {"planned", "planOff"} => sessions'[c].st = "closed" \/ ~sessions'[c].plan
          /\ \/ failures'[c] = failures[c]
             \/ failures'[c] = failures[c] + 1 /\ (engine \in Registering => sessions'[c].st = "closed")
    /\ KeepsOthers(t)

\* t goes on with the session it has.
Continues(t, x) ==
    LET c == cur[t] IN
    /\ UNCHANGED <<engine, client, closing, call, cur, failures, jvmVars>>
    /\ Len(sessions') = Len(sessions) /\ \A s \in Sessions \ {c} : sessions'[s] = sessions[s]
    /\ c # None => /\ sessions[c].ro => sessions'[c].ro
                   /\ sessions'[c].st \in {sessions[c].st, "closed"}
                   /\ sessions'[c].plan => sessions[c].plan \/ x \in {"planned", "planOff"}
    /\ \/ pc[t] = "hook" /\ x = "store" /\ sessions'[c].ro
       \/ pc[t] = "store" /\ x = "register"
       \/ pc[t] = "register" /\ x = "run"
       \/ pc[t] \in {"run", "planned"} /\ x \in {"planned", "planOff"} /\ engine = "mssql" /\ call[t] = "explain"
       \/ pc[t] = "run" /\ x = "display" /\ engine = "tibero"
    /\ pc'[t] = x
    /\ slot'[t] = slot[t] \/ (slot'[t] = c /\ pc[t] = "store")
    /\ KeepsOthers(t)

\* The server, or a close() in Main, ends sessions.
EndsSessions ==
    /\ UNCHANGED <<engine, call, cur, failures, jvmVars>>
    /\ Len(sessions') = Len(sessions)
    /\ \A s \in Sessions : /\ sessions'[s].ro = sessions[s].ro /\ sessions'[s].plan = sessions[s].plan
                           /\ sessions[s].st = "closed" => sessions'[s].st = "closed"
    /\ \A t \in Threads \ {Main} : pc'[t] = pc[t] /\ slot'[t] = slot[t]
    /\ slot'[Main] \in {slot[Main], None}
    /\ \/ pc'[Main] = pc[Main]
       \/ pc[Main] \in {"idle", "closing"} /\ pc'[Main] \in {"closing", "closed"}
    /\ client' = client \/ (client' = None /\ pc'[Main] = "closed")

LEMMA MovesInv ==
    ASSUME IInv, TypeOK', JvmUnderLock', NEW t \in Threads, NEW x, Moves(t, x)
    PROVE  IInv'
<1> USE MainIsThread DEF IInv, Moves, jvmVars, Sessions, InStatement, Registering, PerThread, Search, OneClient, None, KeepsOthers
<1>1. Places'
  BY DEF Places
<1>2. OwnSessions'
  BY DEF OwnSessions
<1>3. KeptReadOnly'
  BY DEF TypeOK, KeptReadOnly, Places
<1>4. PlanIsExplained'
  <2>1. \A u \in Threads : pc[u] \in {"planned", "planOff"} => pc'[u] = pc[u] /\ cur'[u] = cur[u]
    OBVIOUS
  <2> QED BY <2>1 DEF PlanIsExplained
<1>5. QueriesReturnRows'
  BY DEF TypeOK, PlanIsExplained, QueriesReturnRows, Places, OwnSessions
<1>6. FailedIsClosed'
  BY DEF TypeOK, FailedIsClosed, Places, OwnSessions
<1>7. ClosingInClose'
  BY DEF TypeOK, ClosingInClose, Places
<1>8. NoSessionForgotten'
  BY DEF TypeOK, NoSessionForgotten, Places
<1>9. FetchedIsThere'
  BY DEF TypeOK, FetchedIsThere, Places
<1>10.  ClientIsThere'
  BY DEF TypeOK, FetchedIsThere, ClientIsThere, Places
<1>11. NewIsUnplanned'
  BY DEF TypeOK, NewIsUnplanned, Places
<1> QED BY <1>1, <1>2, <1>3, <1>4, <1>5, <1>6, <1>7, <1>8, <1>9, <1>10, <1>11

LEMMA TakesInv ==
    ASSUME IInv, TypeOK', NEW t \in Threads, NEW s, Takes(t, s)
    PROVE  IInv'
<1> USE MainIsThread DEF IInv, Takes, jvmVars, Sessions, InStatement, Registering, PerThread, Search, OneClient, None, KeepsOthers
<1>1. Places'
  BY DEF Places
<1>2. OwnSessions'
  BY DEF TypeOK, OwnSessions, Places
<1>3. KeptReadOnly'
  BY DEF TypeOK, KeptReadOnly, Places
<1>4. PlanIsExplained'
  <2> SUFFICES ASSUME NEW s1 \in Sessions, sessions[s1].plan
               PROVE  /\ engine = "mssql"
                      /\ \/ sessions[s1].st = "closed"
                         \/ \E u \in Threads : pc'[u] \in {"planned", "planOff"} /\ cur'[u] = s1
    BY DEF PlanIsExplained
  <2>1. \A u \in Threads : pc[u] \in {"planned", "planOff"} => pc'[u] = pc[u] /\ cur'[u] = cur[u]
    OBVIOUS
  <2> QED BY <2>1 DEF PlanIsExplained
<1>5. QueriesReturnRows'
  BY DEF TypeOK, PlanIsExplained, QueriesReturnRows, Places, OwnSessions
<1>6. FailedIsClosed'
  BY DEF TypeOK, FailedIsClosed, Places, OwnSessions
<1>7. ClosingInClose'
  BY DEF TypeOK, ClosingInClose, Places
<1>8. NoSessionForgotten'
  BY DEF TypeOK, NoSessionForgotten, Places
<1>9. JvmUnderLock'
  BY DEF TypeOK, JvmUnderLock, Places
<1>10. FetchedIsThere'
  BY DEF TypeOK, FetchedIsThere, Places
<1>11.  ClientIsThere'
  BY DEF TypeOK, FetchedIsThere, ClientIsThere, Places
<1>12. NewIsUnplanned'
  BY DEF TypeOK, NewIsUnplanned, Places
<1> QED BY <1>1, <1>2, <1>3, <1>4, <1>5, <1>6, <1>7, <1>8, <1>9, <1>10, <1>11, <1>12

LEMMA GetsNewInv ==
    ASSUME IInv, TypeOK', NEW t \in Threads, NEW readonly \in BOOLEAN, NEW x, GetsNew(t, readonly, x)
    PROVE  IInv'
<1> USE MainIsThread DEF IInv, GetsNew, jvmVars, Sessions, InStatement, Registering, PerThread, Search, OneClient, None, KeepsOthers
<1>1. Places'
  BY DEF Places
<1>2. OwnSessions'
  BY SMTT(30) DEF TypeOK, OwnSessions, Places
<1>3. KeptReadOnly'
  <2> SUFFICES ASSUME engine \in {"mysql", "postgresql", "clickhouse"}
               PROVE  KeptReadOnly'
    BY DEF KeptReadOnly
  <2>1. \A u \in Threads : cur[u] \in {None} \cup Sessions /\ slot[u] \in {None} \cup Sessions
    BY DEF TypeOK
  <2>2. \A u \in Threads : /\ slot'[u] # None => slot'[u] = slot[u] \/ (u = t /\ engine = "clickhouse")
                           /\ pc'[u] \in {"store", "register"} \/ InStatement(u)' => cur'[u] # None
    BY DEF Places
  <2> QED BY <2>1, <2>2 DEF KeptReadOnly, Places
<1>4. PlanIsExplained'
  <2> SUFFICES ASSUME NEW s \in Sessions', sessions'[s].plan
               PROVE  /\ engine = "mssql"
                      /\ \/ sessions'[s].st = "closed"
                         \/ \E u \in Threads : pc'[u] \in {"planned", "planOff"} /\ cur'[u] = s
    BY DEF PlanIsExplained
  <2>1. s \in Sessions /\ sessions[s].plan /\ sessions'[s] = sessions[s]
    BY DEF TypeOK
  <2>2. \A u \in Threads : pc[u] \in {"planned", "planOff"} => pc'[u] = pc[u] /\ cur'[u] = cur[u]
    OBVIOUS
  <2> QED BY <2>1, <2>2 DEF PlanIsExplained
<1>5. QueriesReturnRows'
  BY DEF TypeOK, PlanIsExplained, QueriesReturnRows, Places, OwnSessions
<1>6. FailedIsClosed'
  <2>1. \A s \in Sessions' : failures'[s] # 0 => /\ s \in Sessions /\ failures'[s] = failures[s]
                                                /\ sessions'[s] = sessions[s] /\ s # Len(sessions) + 1
    BY DEF TypeOK
  <2> QED BY <2>1 DEF FailedIsClosed
<1>7. ClosingInClose'
  BY DEF TypeOK, ClosingInClose, Places
<1>8. NoSessionForgotten'
  <2> SUFFICES ASSUME engine \in Registering, NEW s \in Sessions', sessions'[s].st # "closed"
               PROVE  \/ s \in conns \cup closing
                      \/ \E u \in Threads : cur'[u] = s /\ pc'[u] \in {"hook", "store", "register"}
    BY DEF NoSessionForgotten
  <2>1. CASE s = Len(sessions) + 1
    BY <2>1
  <2>2. CASE s # Len(sessions) + 1
    <3>1. s \in Sessions /\ sessions'[s] = sessions[s]
      BY <2>2 DEF TypeOK
    <3>2. \A u \in Threads : pc[u] \in {"hook", "store", "register"} => pc'[u] = pc[u] /\ cur'[u] = cur[u]
      OBVIOUS
    <3> QED BY <3>1, <3>2 DEF NoSessionForgotten
  <2> QED BY <2>1, <2>2
<1>9. JvmUnderLock'
  BY DEF TypeOK, JvmUnderLock, Places
<1>10. FetchedIsThere'
  BY DEF TypeOK, FetchedIsThere, Places
<1>11.  ClientIsThere'
  BY DEF TypeOK, FetchedIsThere, ClientIsThere, Places
<1>12. NewIsUnplanned'
  BY DEF TypeOK, NewIsUnplanned, Places
<1> QED BY <1>1, <1>2, <1>3, <1>4, <1>5, <1>6, <1>7, <1>8, <1>9, <1>10, <1>11, <1>12

LEMMA LeavesInv ==
    ASSUME IInv, TypeOK', NEW t \in Threads, Leaves(t)
    PROVE  IInv'
<1> USE MainIsThread DEF IInv, Leaves, jvmVars, Sessions, InStatement, Registering, PerThread, Search, OneClient, None, KeepsOthers
<1>1. Places'
  BY DEF Places
<1>2. OwnSessions'
  BY DEF TypeOK, OwnSessions, Places
<1>3. KeptReadOnly'
  <2>1. \A u \in Threads : cur[u] \in {None} \cup Sessions /\ slot[u] \in {None} \cup Sessions
    BY DEF TypeOK
  <2>2. \A u \in Threads : engine \in PerThread /\ (pc'[u] \in {"store", "register"} \/ InStatement(u)') =>
                                u # t /\ cur[u] # None
    BY DEF Places
  <2> QED BY <2>1, <2>2 DEF KeptReadOnly
<1>4. PlanIsExplained'
  <2> SUFFICES ASSUME NEW s \in Sessions, sessions'[s].plan
               PROVE  /\ engine = "mssql"
                      /\ \/ sessions'[s].st = "closed"
                         \/ \E u \in Threads : pc'[u] \in {"planned", "planOff"} /\ cur'[u] = s
    BY DEF PlanIsExplained
  <2>1. sessions[s].plan /\ (sessions[s].st = "closed" => sessions'[s].st = "closed")
    OBVIOUS
  <2>2. CASE s = cur[t] /\ pc[t] \in {"planned", "planOff"}
    BY <2>1, <2>2 DEF PlanIsExplained, TypeOK
  <2>3. CASE ~(s = cur[t] /\ pc[t] \in {"planned", "planOff"})
    <3>1. \A u \in Threads : pc[u] \in {"planned", "planOff"} /\ cur[u] = s =>
                                  pc'[u] = pc[u] /\ cur'[u] = cur[u]
      BY <2>3
    <3> QED BY <2>1, <3>1 DEF PlanIsExplained
  <2> QED BY <2>2, <2>3
<1>5. QueriesReturnRows'
  BY DEF TypeOK, PlanIsExplained, QueriesReturnRows, Places, OwnSessions
<1>6. FailedIsClosed'
  <2> SUFFICES ASSUME engine \in Registering, NEW s \in Sessions, failures'[s] # 0
               PROVE  failures'[s] = 1 /\ sessions'[s].st = "closed" /\ \A u \in Threads : cur'[u] # s
    BY DEF FailedIsClosed
  <2>1. failures[s] \in Nat /\ s # None
    BY DEF TypeOK
  <2>2. CASE failures[s] # 0
    BY <2>1, <2>2 DEF FailedIsClosed
  <2>3. CASE failures[s] = 0
    <3>1. s = cur[t] /\ failures'[s] = 1 /\ sessions'[s].st = "closed"
      BY <2>1, <2>3
    <3> QED BY <2>1, <3>1 DEF OwnSessions
  <2> QED BY <2>2, <2>3
<1>7. ClosingInClose'
  BY DEF TypeOK, ClosingInClose, Places
<1>8. NoSessionForgotten'
  <2> SUFFICES ASSUME engine \in Registering, NEW s \in Sessions, sessions'[s].st # "closed"
               PROVE  \/ s \in conns \cup closing
                      \/ \E u \in Threads : cur'[u] = s /\ pc'[u] \in {"hook", "store", "register"}
    BY DEF NoSessionForgotten
  <2>1. sessions[s].st # "closed"
    OBVIOUS
  <2>2. \A u \in Threads : cur[u] = s /\ pc[u] \in {"hook", "store", "register"} =>
                                pc'[u] = pc[u] /\ cur'[u] = cur[u]
    OBVIOUS
  <2> QED BY <2>1, <2>2 DEF NoSessionForgotten
<1>9. JvmUnderLock'
  BY DEF TypeOK, JvmUnderLock, Places
<1>10. FetchedIsThere'
  BY DEF TypeOK, FetchedIsThere, Places
<1>11.  ClientIsThere'
  BY DEF TypeOK, FetchedIsThere, ClientIsThere, Places
<1>12. NewIsUnplanned'
  <2>1. \A u \in Threads : pc[u] \in {"hook", "store", "register"} => cur[u] \in Sessions
    BY DEF TypeOK, Places
  <2>2. \A u \in Threads : pc'[u] \in {"hook", "store", "register"} => pc'[u] = pc[u] /\ cur'[u] = cur[u]
    OBVIOUS
  <2> QED BY <2>1, <2>2 DEF NewIsUnplanned
<1> QED BY <1>1, <1>2, <1>3, <1>4, <1>5, <1>6, <1>7, <1>8, <1>9, <1>10, <1>11, <1>12

LEMMA ContinuesInv ==
    ASSUME IInv, TypeOK', NoSessionForgotten', NEW t \in Threads, NEW x, Continues(t, x)
    PROVE  IInv'
<1> USE MainIsThread DEF IInv, Continues, jvmVars, Sessions, InStatement, Registering, PerThread, Search, OneClient, None, KeepsOthers
<1>1. Places'
  BY DEF Places
<1>2. OwnSessions'
  BY DEF TypeOK, OwnSessions, Places
<1>3. KeptReadOnly'
  <2> SUFFICES ASSUME engine \in {"mysql", "postgresql", "clickhouse"}
               PROVE  KeptReadOnly'
    BY DEF KeptReadOnly
  <2>1. \A s \in Sessions : sessions[s].ro => sessions'[s].ro
    BY DEF TypeOK
  <2>2. \A u \in Threads : /\ cur[u] \in {None} \cup Sessions /\ slot'[u] \in {None} \cup Sessions
                           /\ slot'[u] = slot[u] \/ (u = t /\ pc[t] = "store" /\ slot'[u] = cur[u])
    BY DEF TypeOK
  <2>3. \A u \in Threads : slot'[u] # None => sessions'[slot'[u]].ro
    BY <2>1, <2>2 DEF KeptReadOnly
  <2>4. ASSUME NEW u \in Threads, pc'[u] \in {"store", "register"} \/ InStatement(u)'
        PROVE  sessions'[cur[u]].ro
    <3>1. cur[u] \in Sessions
      BY <2>2, <2>4 DEF Places
    <3>2. \/ pc[u] \in {"store", "register"} \/ InStatement(u)
          \/ u = t /\ pc[t] = "hook"
      BY <2>4
    <3> QED BY <2>1, <3>1, <3>2 DEF KeptReadOnly
  <2> QED BY <2>3, <2>4 DEF KeptReadOnly
<1>4. PlanIsExplained'
  <2> SUFFICES ASSUME NEW s \in Sessions, sessions'[s].plan
               PROVE  /\ engine = "mssql"
                      /\ \/ sessions'[s].st = "closed"
                         \/ \E u \in Threads : pc'[u] \in {"planned", "planOff"} /\ cur'[u] = s
    BY DEF PlanIsExplained
  <2>1. CASE s = cur[t]
    <3>1. CASE x \in {"planned", "planOff"}
      BY <2>1, <3>1
    <3>2. CASE x \notin {"planned", "planOff"}
      <4>1. sessions[s].plan
        BY <2>1, <3>2
      <4>2. pc[t] \notin {"planned", "planOff"}
        BY <3>2
      <4>3. \A u \in Threads : cur[u] = s /\ u # t => pc'[u] = pc[u] /\ cur'[u] = cur[u]
        OBVIOUS
      <4> QED BY <2>1, <4>1, <4>2, <4>3 DEF PlanIsExplained
    <3> QED BY <3>1, <3>2
  <2>2. CASE s # cur[t]
    <3>1. \A u \in Threads : cur[u] = s => pc'[u] = pc[u] /\ cur'[u] = cur[u]
      BY <2>2
    <3> QED BY <2>2, <3>1 DEF PlanIsExplained
  <2> QED BY <2>1, <2>2
<1>5. QueriesReturnRows'
  <2> SUFFICES ASSUME NEW u \in Threads, InStatement(u)', call'[u] # "explain", cur'[u] # None
               PROVE  ~sessions'[cur'[u]].plan
    BY DEF QueriesReturnRows
  <2>1. cur[u] \in Sessions /\ cur'[u] = cur[u] /\ call'[u] = call[u]
    BY DEF TypeOK
  <2>2. CASE u = t
    <3>1. pc[t] = "register" \/ InStatement(t)
      BY <2>2
    <3>2. x \notin {"planned", "planOff"}
      BY <2>1, <2>2, <3>1 DEF Places
    <3> QED BY <2>1, <2>2, <3>1, <3>2 DEF QueriesReturnRows, NewIsUnplanned
  <2>3. CASE u # t
    <3>1. InStatement(u)
      BY <2>3
    <3>2. ~sessions[cur[u]].plan
      BY <2>1, <3>1 DEF QueriesReturnRows
    <3>3. CASE cur[u] # cur[t]
      BY <2>1, <3>2, <3>3
    <3>4. CASE cur[u] = cur[t]
      <4>1. x \notin {"planned", "planOff"}
        BY <2>1, <2>3, <3>4 DEF OwnSessions
      <4> QED BY <2>1, <3>2, <3>4, <4>1
    <3> QED BY <3>3, <3>4
  <2> QED BY <2>2, <2>3
<1>6. FailedIsClosed'
  BY DEF TypeOK, FailedIsClosed, Places, OwnSessions
<1>7. ClosingInClose'
  BY DEF TypeOK, ClosingInClose, Places
<1>8. JvmUnderLock'
  BY DEF TypeOK, JvmUnderLock, Places
<1>9. FetchedIsThere'
  BY DEF TypeOK, FetchedIsThere, Places
<1>10. ClientIsThere'
  BY DEF TypeOK, FetchedIsThere, ClientIsThere, Places
<1>11. NewIsUnplanned'
  <2>1. \A u \in Threads : pc[u] \in {"hook", "store", "register"} => cur[u] \in Sessions
    BY DEF TypeOK, Places
  <2>2. \A u \in Threads : pc'[u] \in {"hook", "store", "register"} =>
            /\ pc[u] \in {"hook", "store", "register"} /\ cur'[u] = cur[u]
            /\ cur[u] = cur[t] => x \notin {"planned", "planOff"}
    BY DEF Places, OwnSessions
  <2> QED BY <2>1, <2>2 DEF NewIsUnplanned
<1> QED BY <1>1, <1>2, <1>3, <1>4, <1>5, <1>6, <1>7, <1>8, <1>9, <1>10, <1>11

LEMMA EndsSessionsInv ==
    ASSUME IInv, TypeOK', ClosingInClose', NoSessionForgotten', EndsSessions
    PROVE  IInv'
<1> USE MainIsThread DEF IInv, EndsSessions, jvmVars, Sessions, InStatement, Registering, PerThread, Search, OneClient, None, KeepsOthers
<1>1. Places'
  BY DEF Places
<1>2. OwnSessions'
  BY DEF TypeOK, OwnSessions, Places
<1>3. KeptReadOnly'
  <2>1. \A u \in Threads : /\ cur[u] \in {None} \cup Sessions /\ slot[u] \in {None} \cup Sessions
                           /\ slot'[u] \in {slot[u], None}
                           /\ pc'[u] = pc[u] \/ pc'[u] \in {"closing", "closed"}
    BY DEF TypeOK
  <2>2. \A u \in Threads : engine \in PerThread /\ (pc[u] \in {"store", "register"} \/ InStatement(u)) => cur[u] # None
    BY DEF Places
  <2> QED BY <2>1, <2>2 DEF KeptReadOnly
<1>4. PlanIsExplained'
  <2> SUFFICES ASSUME NEW s \in Sessions, sessions'[s].plan
               PROVE  /\ engine = "mssql"
                      /\ \/ sessions'[s].st = "closed"
                         \/ \E u \in Threads : pc'[u] \in {"planned", "planOff"} /\ cur'[u] = s
    BY DEF PlanIsExplained
  <2>1. \A u \in Threads : pc[u] \in {"planned", "planOff"} => pc'[u] = pc[u] /\ cur'[u] = cur[u]
    BY DEF TypeOK
  <2> QED BY <2>1 DEF PlanIsExplained
<1>5. QueriesReturnRows'
  <2>1. \A u \in Threads : /\ cur[u] \in {None} \cup Sessions
                           /\ pc'[u] = pc[u] \/ pc'[u] \in {"closing", "closed"}
    BY DEF TypeOK
  <2> QED BY <2>1 DEF QueriesReturnRows
<1>6. FailedIsClosed'
  BY DEF TypeOK, FailedIsClosed, Places, OwnSessions
<1>7. JvmUnderLock'
  BY DEF TypeOK, JvmUnderLock, Places
<1>8. FetchedIsThere'
  BY DEF TypeOK, FetchedIsThere, Places
<1>9. ClientIsThere'
  BY DEF TypeOK, FetchedIsThere, ClientIsThere, Places
<1>10. NewIsUnplanned'
  <2>1. \A u \in Threads : pc[u] \in {"hook", "store", "register"} => cur[u] \in Sessions
    BY DEF TypeOK, Places
  <2>2. \A u \in Threads : pc'[u] \in {"hook", "store", "register"} => pc'[u] = pc[u] /\ cur'[u] = cur[u]
    OBVIOUS
  <2> QED BY <2>1, <2>2 DEF NewIsUnplanned
<1> QED BY <1>1, <1>2, <1>3, <1>4, <1>5, <1>6, <1>7, <1>8, <1>9, <1>10

-----------------------------------------------------------------------------
(* The actions.  Each has one of the effects above.                        *)

LEMMA CallInv ==
    ASSUME IInv, NEW t \in Threads, NEW op \in Operations, Call(t, op)
    PROVE  IInv'
<1> USE MainIsThread DEF IInv, Call, fixed, sessionVars, jvmVars, Goes, Sessions, None
<1>1. TypeOK'
  BY DEF TypeOK, Labels, Operations
<1>2. JvmUnderLock'
  BY DEF TypeOK, JvmUnderLock, Places
<1>3. Moves(t, "ensure")
  BY DEF Moves, KeepsOthers, TypeOK, Places
<1> QED BY <1>1, <1>2, <1>3, MovesInv

LEMMA WorkerStartsInv ==
    ASSUME IInv, NEW t \in Threads, WorkerStarts(t)
    PROVE  IInv'
<1> USE MainIsThread DEF IInv, WorkerStarts, fixed, sessionVars, jvmVars, Goes, Sessions, None
<1>1. TypeOK'
  BY DEF TypeOK, Labels
<1>2. JvmUnderLock'
  BY DEF TypeOK, JvmUnderLock, Places
<1>3. Moves(t, "idle")
  BY DEF Moves, KeepsOthers, TypeOK, Places
<1> QED BY <1>1, <1>2, <1>3, MovesInv

LEMMA WorkerEndsInv ==
    ASSUME IInv, NEW t \in Threads, WorkerEnds(t)
    PROVE  IInv'
<1> USE MainIsThread DEF IInv, WorkerEnds, fixed, sessionVars, jvmVars, Goes, Sessions, None
<1>1. TypeOK'
  BY DEF TypeOK, Labels
<1>2. JvmUnderLock'
  BY DEF TypeOK, JvmUnderLock, Places
<1>3. Moves(t, "off")
  BY DEF Moves, KeepsOthers, TypeOK, Places
<1> QED BY <1>1, <1>2, <1>3, MovesInv

LEMMA TakeJvmLockInv ==
    ASSUME IInv, NEW t \in Threads, TakeJvmLock(t)
    PROVE  IInv'
<1> USE MainIsThread DEF IInv, TakeJvmLock, fixed, sessionVars, jvmVars, Goes, Sessions, None
<1>1. TypeOK'
  BY DEF TypeOK, Labels
<1>2. JvmUnderLock'
  BY DEF TypeOK, JvmUnderLock, Places
<1>3. Moves(t, "jvmTest")
  BY DEF Moves, KeepsOthers, TypeOK, Places
<1> QED BY <1>1, <1>2, <1>3, MovesInv

LEMMA StartJvmInv ==
    ASSUME IInv, NEW t \in Threads, StartJvm(t)
    PROVE  IInv'
<1> USE MainIsThread DEF IInv, StartJvm, fixed, sessionVars, jvmVars, Goes, Sessions, None
<1>1. PICK x \in {"idle", "connect"} :
        /\ pc[t] = "jvmStart" /\ pc' = [pc EXCEPT ![t] = x]
        /\ jvmLock' = NoThread
        /\ jvms' = IF x = "connect" THEN jvms + 1 ELSE jvms
        /\ call' \in {call, [call EXCEPT ![t] = "none"]}
        /\ cur' \in {cur, [cur EXCEPT ![t] = None]}
        /\ failures' = failures
  BY DEF Fails, Ends, Places
<1>2. UNCHANGED <<engine, jar, sessions, slot, client, conns, closing, drops>>
  OBVIOUS
<1> HIDE DEF StartJvm
<1>3. TypeOK'
  <2>1. jvms' \in Nat
    BY <1>1 DEF TypeOK
  <2>2. pc' \in [Threads -> Labels] /\ call' \in [Threads -> {"none", "query", "errors", "explain"}]
    BY <1>1 DEF TypeOK, Labels
  <2>3. cur' \in [Threads -> {None} \cup Sessions]
    BY <1>1 DEF TypeOK
  <2> QED BY <2>1, <2>2, <2>3, <1>1, <1>2 DEF TypeOK
<1>4. JvmUnderLock'
  BY <1>1, <1>2 DEF TypeOK, JvmUnderLock, Places
<1>5. Moves(t, x)
  BY <1>1, <1>2 DEF Moves, KeepsOthers, TypeOK, Places
<1> QED BY <1>3, <1>4, <1>5, MovesInv

\* The failed call of a thread that has no session yet changes no count.
LEMMA TestJvmInv ==
    ASSUME IInv, NEW t \in Threads, TestJvm(t)
    PROVE  IInv'
<1> USE MainIsThread DEF IInv, TestJvm, fixed, sessionVars, jvmVars, Sessions, None
<1>1. PICK x \in {"idle", "connect", "jvmStart"} :
        /\ pc[t] = "jvmTest" /\ pc' = [pc EXCEPT ![t] = x]
        /\ jvmLock' = IF x = "jvmStart" THEN jvmLock ELSE NoThread
        /\ x = "jvmStart" => jvms = 0
        /\ call' \in {call, [call EXCEPT ![t] = "none"]}
        /\ cur' \in {cur, [cur EXCEPT ![t] = None]}
        /\ failures' = failures
  BY DEF Fails, Ends, Places
<1>2. UNCHANGED <<engine, jar, sessions, slot, client, conns, closing, jvms, drops>>
  OBVIOUS
<1> HIDE DEF TestJvm
<1>3. TypeOK'
  BY <1>1, <1>2 DEF TypeOK, Labels
<1>4. JvmUnderLock'
  BY <1>1, <1>2 DEF TypeOK, JvmUnderLock
<1>5. Moves(t, x)
  BY <1>1, <1>2 DEF Moves, KeepsOthers, TypeOK, Places
<1> QED BY <1>3, <1>4, <1>5, MovesInv

LEMMA ReuseOpenInv ==
    ASSUME IInv, NEW t \in Threads, ReuseOpen(t)
    PROVE  IInv'
<1> USE MainIsThread DEF IInv, ReuseOpen, fixed, sessionVars, jvmVars, Goes, Sessions, None
<1>1. CASE slot[t] = None \/ sessions[slot[t]].st = "closed"
  <2> USE <1>1 DEF Connects
  <2>1. TypeOK'
    BY DEF TypeOK, Labels
  <2>2. JvmUnderLock'
    BY DEF TypeOK, JvmUnderLock
  <2>3. Moves(t, "connect")
    BY DEF Moves, KeepsOthers, TypeOK, Places
  <2> QED BY <2>1, <2>2, <2>3, MovesInv
<1>2. CASE ~(slot[t] = None \/ sessions[slot[t]].st = "closed")
  <2> USE <1>2 DEF Uses
  <2>1. TypeOK'
    BY DEF TypeOK, Labels
  <2>2. Takes(t, slot[t])
    BY DEF Takes, KeepsOthers, TypeOK, PerThread, Registering
  <2> QED BY <2>1, <2>2, TakesInv
<1> QED BY <1>1, <1>2

LEMMA ReuseClientInv ==
    ASSUME IInv, NEW t \in Threads, ReuseClient(t)
    PROVE  IInv'
<1> USE MainIsThread DEF IInv, ReuseClient, fixed, sessionVars, jvmVars, Goes, Sessions, None
<1>1. CASE slot[t] = None
  <2> USE <1>1 DEF Connects
  <2>1. TypeOK'
    BY DEF TypeOK, Labels
  <2>2. JvmUnderLock'
    BY DEF TypeOK, JvmUnderLock
  <2>3. Moves(t, "connect")
    BY DEF Moves, KeepsOthers, TypeOK, Places
  <2> QED BY <2>1, <2>2, <2>3, MovesInv
<1>2. CASE ~(slot[t] = None)
  <2> USE <1>2 DEF Uses
  <2>1. TypeOK'
    BY DEF TypeOK, Labels
  <2>2. Takes(t, slot[t])
    BY DEF Takes, KeepsOthers, TypeOK, PerThread, Registering
  <2> QED BY <2>1, <2>2, TakesInv
<1> QED BY <1>1, <1>2

LEMMA ReuseJdbcInv ==
    ASSUME IInv, NEW t \in Threads, ReuseJdbc(t)
    PROVE  IInv'
<1> USE MainIsThread DEF IInv, ReuseJdbc, fixed, sessionVars, jvmVars, Goes, Sessions, None
<1>1. CASE slot[t] = None
  <2> USE <1>1 DEF Connects
  <2>1. TypeOK'
    BY DEF TypeOK, Labels
  <2>2. JvmUnderLock'
    BY DEF TypeOK, JvmUnderLock
  <2>3. Moves(t, "jvm")
    BY DEF Moves, KeepsOthers, TypeOK, Places
  <2> QED BY <2>1, <2>2, <2>3, MovesInv
<1>2. CASE ~(slot[t] = None)
  <2> USE <1>2 DEF Uses
  <2>1. TypeOK'
    BY DEF TypeOK, Labels
  <2>2. Takes(t, slot[t])
    BY DEF Takes, KeepsOthers, TypeOK, PerThread, Registering
  <2> QED BY <2>1, <2>2, TakesInv
<1> QED BY <1>1, <1>2

LEMMA TestClientInv ==
    ASSUME IInv, NEW t \in Threads, TestClient(t)
    PROVE  IInv'
<1> USE MainIsThread DEF IInv, TestClient, Connects, fixed, sessionVars, jvmVars, Goes, Sessions, None
<1>1. TypeOK'
  BY DEF TypeOK, Labels
<1>2. JvmUnderLock'
  BY DEF TypeOK, JvmUnderLock, Places
<1>3. Moves(t, IF client = None THEN "connect" ELSE "fetch")
  BY DEF Moves, KeepsOthers, TypeOK, Places
<1> QED BY <1>1, <1>2, <1>3, MovesInv

LEMMA FetchClientInv ==
    ASSUME IInv, NEW t \in Threads, FetchClient(t)
    PROVE  IInv'
<1> USE MainIsThread DEF IInv, FetchClient, fixed, sessionVars, jvmVars, Goes, Sessions, None
<1>1. TypeOK'
  BY DEF TypeOK, Labels
<1>2. Takes(t, client)
  BY DEF Takes, KeepsOthers, TypeOK, Places
<1> QED BY <1>1, <1>2, TakesInv

\* A login: a session of its own for t, or none.
LEMMA OpensInv ==
    ASSUME IInv, NEW t \in Threads, NEW readonly \in BOOLEAN, NEW x, Opens(t, readonly, x), UNCHANGED conns,
           \/ x = "hook" /\ engine = "mysql"
           \/ x = "store" /\ engine \in {"postgresql", "mssql"}
           \/ x = "run" /\ engine \in {"clickhouse", "tibero"}
           \/ x = "fetch" /\ engine \in OneClient,
           engine \in {"postgresql", "clickhouse"} => readonly,
           slot' = slot \/ (engine \in {"clickhouse", "tibero"} /\ slot' = [slot EXCEPT ![t] = cur'[t]]),
           IF engine \in OneClient THEN client' = IF pc'[t] = "fetch" THEN cur'[t] ELSE client
                                   ELSE client' = client
    PROVE  IInv'
<1> USE MainIsThread DEF IInv, Opens, fixed, jvmVars, Sessions, None
<1>1. pc[t] = "connect" /\ cur[t] = None /\ x \in {"hook", "store", "run", "fetch"}
  BY DEF Places
<1>2. CASE pc' = [pc EXCEPT ![t] = x] /\ UNCHANGED call
  <2> DEFINE n == Len(sessions) + 1
             new == [st |-> "open", ro |-> readonly, plan |-> FALSE]
  <2>1. sessions' = Append(sessions, new) /\ cur' = [cur EXCEPT ![t] = n] /\ failures' = Append(failures, 0)
    <3>1. x # "idle"
      BY <1>1
    <3>2. pc'[t] = x
      BY <1>2 DEF TypeOK
    <3> QED BY <3>1, <3>2 DEF Fails, Ends, TypeOK
  <2>2. new \in SessionType
    BY DEF SessionType, States
  <2>3. /\ new.st = "open" /\ new.ro = readonly /\ ~new.plan
    OBVIOUS
  <2> HIDE DEF new, Opens
  <2>4. /\ sessions \in Seq(SessionType) /\ sessions' \in Seq(SessionType) /\ Len(sessions') = n
        /\ \A s \in Sessions : sessions'[s] = sessions[s]
        /\ sessions'[n] = new
    BY <2>1, <2>2 DEF TypeOK
  <2>5. /\ failures' \in Seq(0..2) /\ Len(failures') = n
        /\ \A s \in Sessions : failures'[s] = failures[s]
        /\ failures'[n] = 0
    BY <2>1 DEF TypeOK
  <2>6. /\ pc'[t] = x /\ cur'[t] = n /\ cur' \in [Threads -> {None} \cup 1..n]
        /\ \A u \in Threads \ {t} : pc'[u] = pc[u] /\ cur'[u] = cur[u]
    BY <1>2, <2>1 DEF TypeOK
  <2>7. /\ slot' \in [Threads -> {None} \cup 1..n] /\ slot'[t] \in {slot[t], n}
        /\ \A u \in Threads \ {t} : slot'[u] = slot[u]
        /\ engine \in Registering => slot'[t] = slot[t]
    BY <2>6, SMTT(30) DEF TypeOK, Registering
  <2>8. /\ client' \in {None} \cup 1..n
        /\ IF engine \in OneClient THEN client' = n ELSE client' = client
    BY <1>1, <2>6 DEF TypeOK, OneClient, Search
  <2>9. UNCHANGED <<engine, jar, conns, closing, jvmLock, jvms, drops>>
    BY DEF Opens
  <2>10. TypeOK'
    <3>1. conns' \in SUBSET (1..n) /\ closing' \in SUBSET (1..n) /\ Sessions' = 1..n
      BY <2>4, <2>9 DEF TypeOK
    <3>2. pc' \in [Threads -> Labels]
      BY <1>1, <1>2 DEF TypeOK, Labels
    <3>3. /\ engine \in Engines /\ jar \in BOOLEAN /\ drops \in 0..MaxDrops
          /\ jvmLock \in Threads \cup {NoThread} /\ jvms \in Nat
          /\ call \in [Threads -> {"none", "query", "errors", "explain"}]
      BY DEF TypeOK
    <3> HIDE DEF n, Sessions
    <3> QED BY <1>2, <2>4, <2>5, <2>6, <2>7, <2>8, <2>9, <3>1, <3>2, <3>3 DEF TypeOK
  <2>11. GetsNew(t, readonly, x)
    BY <1>1, <1>2, <2>3, <2>4, <2>5, <2>6, <2>7, <2>8, <2>9 DEF GetsNew, KeepsOthers
  <2> QED BY <2>10, <2>11, GetsNewInv
<1>3. CASE UNCHANGED sessions /\ Fails(t)
  <2>1. failures' = failures /\ pc' = [pc EXCEPT ![t] = "idle"] /\ cur' = [cur EXCEPT ![t] = None]
        /\ call' = [call EXCEPT ![t] = "none"]
    BY <1>1, <1>3 DEF Fails, Ends
  <2>2. slot' \in {slot, [slot EXCEPT ![t] = None]} /\ client' = client
    BY <2>1 DEF TypeOK
  <2>3. UNCHANGED <<engine, jar, sessions, conns, closing, jvmLock, jvms, drops>>
    BY <1>3
  <2> HIDE DEF Opens
  <2>4. TypeOK'
    BY <2>1, <2>2, <2>3 DEF TypeOK, Labels
  <2>5. JvmUnderLock'
    BY <2>1, <2>3 DEF TypeOK, JvmUnderLock
  <2>6. Moves(t, "idle")
    BY <1>1, <2>1, <2>2, <2>3 DEF Moves, KeepsOthers, TypeOK
  <2> QED BY <2>4, <2>5, <2>6, MovesInv
<1> QED BY <1>2, <1>3

LEMMA ConnectInv ==
    ASSUME IInv, NEW t \in Threads,
           \/ MySQLConnect(t) \/ PostgreSQLConnect(t) \/ MSSQLConnect(t) \/ ClickHouseConnect(t)
           \/ TiberoConnect(t) \/ MongoDBConnect(t) \/ RedisConnect(t) \/ ElasticsearchConnect(t)
           \/ OpenSearchConnect(t)
    PROVE  IInv'
<1> USE DEF OneClient, Search
<1>1. CASE MySQLConnect(t)
  BY <1>1, OpensInv DEF MySQLConnect
<1>2. CASE PostgreSQLConnect(t)
  BY <1>2, OpensInv DEF PostgreSQLConnect
<1>3. CASE MSSQLConnect(t)
  BY <1>3, OpensInv DEF MSSQLConnect
<1>4. CASE ClickHouseConnect(t)
  BY <1>4, OpensInv DEF ClickHouseConnect
<1>5. CASE TiberoConnect(t)
  BY <1>5, OpensInv DEF TiberoConnect
<1>6. CASE MongoDBConnect(t)
  BY <1>6, OpensInv DEF MongoDBConnect
<1>7. CASE RedisConnect(t)
  BY <1>7, OpensInv DEF RedisConnect
<1>8. CASE ElasticsearchConnect(t)
  BY <1>8, OpensInv DEF ElasticsearchConnect
<1>9. CASE OpenSearchConnect(t)
  BY <1>9, OpensInv DEF OpenSearchConnect
<1> QED BY <1>1, <1>2, <1>3, <1>4, <1>5, <1>6, <1>7, <1>8, <1>9

\* The end of a call: its session is as it was, or closed, or SHOWPLAN is off.
LEMMA EndsInv ==
    ASSUME IInv, NEW t \in Threads, NEW failed \in BOOLEAN, Ends(t, failed),
           pc[t] = "hook" \/ InStatement(t),
           UNCHANGED <<fixed, slot, client, conns, closing, jvmVars, drops>>,
           \/ /\ UNCHANGED sessions /\ pc[t] \notin {"hook", "planned", "planOff"}
              /\ engine \in Registering => Open(cur[t])
           \/ cur[t] # None /\ Gone(cur[t])
           \/ cur[t] # None /\ Open(cur[t]) /\ pc[t] = "planOff" /\ ShowPlan(cur[t], FALSE)
    PROVE  IInv'
<1> USE DEF IInv, fixed, jvmVars, Sessions, None
<1> DEFINE c == cur[t]
<1>1. /\ c \in {None} \cup Sessions /\ sessions \in Seq(SessionType)
      /\ failures \in Seq(0..2) /\ Len(failures) = Len(sessions)
  BY DEF TypeOK
<1>2. /\ pc' = [pc EXCEPT ![t] = "idle"] /\ cur' = [cur EXCEPT ![t] = None]
      /\ call' = [call EXCEPT ![t] = "none"]
  BY DEF Ends
<1>3. /\ failures' \in Seq(0..2) /\ Len(failures') = Len(failures)
      /\ \A s \in Sessions : \/ failures'[s] = failures[s]
                             \/ s = c /\ failures'[s] = failures[s] + 1 /\ sessions'[s].st # "open"
  BY EndsEffect
<1>4. /\ sessions' \in Seq(SessionType) /\ Len(sessions') = Len(sessions)
      /\ \A s \in Sessions : /\ s # c => sessions'[s] = sessions[s]
                             /\ sessions'[s].ro = sessions[s].ro
                             /\ sessions'[s].st \in {sessions[s].st, "closed"}
                             /\ sessions'[s].plan => sessions[s].plan
      /\ c # None =>
            /\ pc[t] = "hook" => sessions'[c].st = "closed"
            /\ pc[t] \in {"planned", "planOff"} => sessions'[c].st = "closed" \/ ~sessions'[c].plan
            /\ sessions'[c].st # "open" /\ engine \in Registering => sessions'[c].st = "closed"
  <2>1. CASE UNCHANGED sessions /\ pc[t] \notin {"hook", "planned", "planOff"}
             /\ (engine \in Registering => Open(c))
    BY <1>1, <2>1 DEF Open
  <2>2. CASE c # None /\ Gone(c)
    <3> HIDE DEF c
    <3> QED BY <1>1, <2>2, BecomesEffect DEF Gone, States
  <2>3. CASE c # None /\ Open(c) /\ pc[t] = "planOff" /\ ShowPlan(c, FALSE)
    <3> HIDE DEF c
    <3> QED BY <1>1, <2>3, ShowPlanEffect DEF Open
  <2> QED BY <2>1, <2>2, <2>3
<1>5. TypeOK'
  BY <1>2, <1>3, <1>4 DEF TypeOK, Labels
<1>6. Leaves(t)
  <2>1. /\ UNCHANGED <<engine, slot, client, conns, closing, jvmVars>>
        /\ pc'[t] = "idle" /\ cur'[t] = None
        /\ KeepsOthers(t)
    BY <1>2 DEF TypeOK, KeepsOthers
  <2> QED BY <1>1, <1>3, <1>4, <2>1 DEF Leaves
<1> QED BY <1>5, <1>6, LeavesInv

LEMMA RunningInv ==
    ASSUME IInv, NEW t \in Threads,
           \/ Execute(t) \/ MSSQLReadErrorLog(t) \/ MSSQLPlanOff(t)
           \/ ClickHouseExecute(t) \/ TiberoExecute(t) \/ UseClient(t)
    PROVE  IInv'
<1> USE DEF IInv, Served, Answers, Fails
<1>1. CASE Execute(t) \/ MSSQLReadErrorLog(t)
  <2>1. cur[t] # None /\ pc[t] = "run" /\ InStatement(t)
    BY <1>1 DEF Execute, MSSQLReadErrorLog, Places, PerThread, Registering, InStatement
  <2> QED BY <1>1, <2>1, EndsInv DEF Execute, MSSQLReadErrorLog
<1>2. CASE MSSQLPlanOff(t)
  <2>1. cur[t] # None /\ pc[t] = "planOff" /\ InStatement(t)
    BY <1>2 DEF MSSQLPlanOff, Places, InStatement
  <2> QED BY <1>2, <2>1, EndsInv DEF MSSQLPlanOff
<1>3. CASE ClickHouseExecute(t) \/ UseClient(t)
  <2>1. pc[t] = "run" /\ InStatement(t) /\ engine \notin Registering
    BY <1>3 DEF ClickHouseExecute, UseClient, OneClient, Search, Registering, InStatement
  <2> QED BY <1>3, <2>1, EndsInv DEF ClickHouseExecute, UseClient
<1>4. CASE TiberoExecute(t)
  <2>1. cur[t] # None /\ pc[t] = "run" /\ InStatement(t)
    BY <1>4 DEF TiberoExecute, Places, PerThread, Registering, InStatement
  <2> QED BY <1>4, <2>1, EndsInv DEF TiberoExecute
<1> QED BY <1>1, <1>2, <1>3, <1>4

LEMMA TiberoExplainInv ==
    ASSUME IInv, NEW t \in Threads, TiberoExplain(t)
    PROVE  IInv'
<1> USE DEF IInv
<1>1. /\ cur[t] # None /\ pc[t] \in {"run", "display"} /\ InStatement(t)
      /\ engine = "tibero" /\ UNCHANGED <<fixed, slot, client, conns, closing, jvmVars, drops>>
  BY DEF TiberoExplain, Places, PerThread, Registering, InStatement
<1>2. CASE Answers(t) \/ Fails(t)
  <2>1. Served(cur[t]) \/ Gone(cur[t])
    <3>1. pc'[t] = "idle"
      BY <1>2 DEF Answers, Fails, Ends, TypeOK
    <3> QED BY <3>1 DEF TiberoExplain, TypeOK
  <2> QED BY <1>1, <1>2, <2>1, EndsInv DEF Answers, Fails, Served
<1>3. CASE ~(Answers(t) \/ Fails(t))
  <2>1. /\ pc[t] = "run" /\ pc' = [pc EXCEPT ![t] = "display"]
        /\ UNCHANGED <<sessions, call, cur, failures>>
    BY <1>3 DEF TiberoExplain, Served
  <2> USE <1>1, <2>1, MainIsThread DEF fixed, jvmVars, Sessions, None
  <2>2. TypeOK'
    BY DEF TypeOK, Labels
  <2>3. NoSessionForgotten'
    BY DEF NoSessionForgotten, Registering
  <2>4. Continues(t, "display")
    BY DEF Continues, KeepsOthers, TypeOK
  <2> QED BY <2>2, <2>3, <2>4, ContinuesInv
<1> QED BY <1>2, <1>3

LEMMA MSSQLExplainInv ==
    ASSUME IInv, NEW t \in Threads, MSSQLExplain(t)
    PROVE  IInv'
<1> USE MainIsThread DEF IInv, fixed, jvmVars, Sessions, None
<1> DEFINE c == cur[t]
<1>1. /\ c \in Sessions /\ sessions \in Seq(SessionType)
      /\ pc[t] \in {"run", "planned"} /\ engine = "mssql" /\ call[t] = "explain"
  BY DEF MSSQLExplain, TypeOK, Places, PerThread, Registering
<1>2. PICK x \in {"planned", "planOff"} : pc' = [pc EXCEPT ![t] = x]
  BY DEF MSSQLExplain
<1>3. UNCHANGED <<fixed, slot, client, conns, closing, call, cur, jvmVars, drops, failures>>
  BY DEF MSSQLExplain
<1>4. /\ sessions' \in Seq(SessionType) /\ Len(sessions') = Len(sessions)
      /\ \A s \in Sessions : /\ s # c => sessions'[s] = sessions[s]
                             /\ sessions'[s].ro = sessions[s].ro
                             /\ sessions'[s].st \in {sessions[s].st, "closed"}
  <2>1. CASE ShowPlan(c, TRUE)
    <3> HIDE DEF c
    <3> QED BY <1>1, <2>1, ShowPlanEffect
  <2>2. CASE Gone(c)
    <3> HIDE DEF c
    <3> QED BY <1>1, <2>2, BecomesEffect DEF Gone, States
  <2>3. CASE UNCHANGED sessions
    BY <1>1, <2>3
  <2> QED BY <2>1, <2>2, <2>3 DEF MSSQLExplain, Served
<1>5. TypeOK'
  BY <1>2, <1>3, <1>4 DEF TypeOK, Labels
<1>6. NoSessionForgotten'
  <2>1. \A s \in Sessions : sessions'[s].st # "closed" => sessions[s].st # "closed"
    BY <1>4
  <2>2. \A u \in Threads : pc[u] \in {"hook", "store", "register"} => pc'[u] = pc[u]
    BY <1>1, <1>2 DEF TypeOK
  <2> QED BY <1>3, <1>4, <2>1, <2>2 DEF NoSessionForgotten
<1>7. Continues(t, x)
  BY <1>1, <1>2, <1>3, <1>4 DEF Continues, KeepsOthers, TypeOK
<1> QED BY <1>5, <1>6, <1>7, ContinuesInv

LEMMA AfterConnectInv ==
    ASSUME IInv, NEW t \in Threads, MySQLAfterConnect(t)
    PROVE  IInv'
<1>1. /\ cur[t] \in Sessions /\ sessions \in Seq(SessionType) /\ pc[t] = "hook" /\ cur[t] # None
      /\ UNCHANGED <<fixed, slot, client, conns, closing, jvmVars, drops>>
  BY DEF IInv, MySQLAfterConnect, TypeOK, Places, Sessions, None
<1>2. CASE Gone(cur[t]) /\ Fails(t)
  BY <1>1, <1>2, EndsInv DEF Fails
<1> USE MainIsThread DEF IInv, fixed, jvmVars, Sessions, None
<1>3. CASE /\ sessions' = [sessions EXCEPT ![cur[t]].ro = TRUE]
           /\ pc' = [pc EXCEPT ![t] = "store"] /\ UNCHANGED <<call, cur, failures>>
  <2> DEFINE c == cur[t]
             y == [sessions[c] EXCEPT !.ro = TRUE]
  <2>1. sessions' = [sessions EXCEPT ![c] = y]
    BY <1>3
  <2>2. y \in SessionType /\ y.ro = TRUE /\ y.st = sessions[c].st /\ y.plan = sessions[c].plan
    <3>1. sessions[c] \in SessionType
      BY <1>1
    <3> QED BY <3>1, ReadOnlyOfOne
  <2> HIDE DEF y
  <2>3. /\ sessions' \in Seq(SessionType) /\ Len(sessions') = Len(sessions)
        /\ \A s \in Sessions : /\ s # c => sessions'[s] = sessions[s]
                               /\ sessions'[s].st = sessions[s].st /\ sessions'[s].plan = sessions[s].plan
        /\ sessions'[c].ro
    <3>1. sessions' \in Seq(SessionType) /\ Len(sessions') = Len(sessions)
      BY <1>1, <2>1, <2>2
    <3>2. \A s \in Sessions : sessions'[s] = IF s = c THEN y ELSE sessions[s]
      BY <1>1, <2>1, <2>2
    <3> QED BY <1>1, <2>2, <3>1, <3>2
  <2>4. TypeOK'
    BY <1>1, <1>3, <2>3 DEF TypeOK, Labels
  <2>5. NoSessionForgotten'
    <3>1. \A u \in Threads : pc[u] \in {"hook", "store", "register"} => pc'[u] \in {"hook", "store", "register"}
      BY <1>3 DEF TypeOK
    <3> QED BY <1>1, <1>3, <2>3, <3>1 DEF NoSessionForgotten
  <2>6. Continues(t, "store")
    BY <1>1, <1>3, <2>3 DEF Continues, KeepsOthers, TypeOK
  <2> QED BY <2>4, <2>5, <2>6, ContinuesInv
<1> QED BY <1>2, <1>3 DEF MySQLAfterConnect

LEMMA StoreConnInv ==
    ASSUME IInv, NEW t \in Threads, StoreConn(t)
    PROVE  IInv'
<1> USE MainIsThread DEF IInv, StoreConn, Goes, fixed, jvmVars, Sessions, None
<1>1. TypeOK'
  BY DEF TypeOK, Labels
<1>2. NoSessionForgotten'
  <2>1. \A u \in Threads : pc[u] \in {"hook", "store", "register"} => pc'[u] \in {"hook", "store", "register"}
    BY DEF TypeOK
  <2> QED BY <2>1 DEF NoSessionForgotten
<1>3. Continues(t, "register")
  BY DEF Continues, KeepsOthers, TypeOK
<1> QED BY <1>1, <1>2, <1>3, ContinuesInv

LEMMA RegisterConnInv ==
    ASSUME IInv, NEW t \in Threads, RegisterConn(t)
    PROVE  IInv'
<1> USE MainIsThread DEF IInv, RegisterConn, Goes, fixed, jvmVars, Sessions, None
<1>1. TypeOK'
  BY ZenonT(60) DEF TypeOK, Labels, Places
<1>2. NoSessionForgotten'
  <2>1. \A u \in Threads : u # t => pc'[u] = pc[u]
    BY DEF TypeOK
  <2> QED BY <2>1 DEF NoSessionForgotten
<1>3. Continues(t, "run")
  BY DEF Continues, KeepsOthers, TypeOK
<1> QED BY <1>1, <1>2, <1>3, ContinuesInv

LEMMA ServerDropsInv ==
    ASSUME IInv, NEW s \in Sessions, ServerDrops(s)
    PROVE  IInv'
<1> USE MainIsThread DEF IInv, fixed, jvmVars, None
<1>1. /\ sessions' \in Seq(SessionType) /\ Len(sessions') = Len(sessions)
      /\ \A i \in Sessions : /\ sessions'[i].ro = sessions[i].ro /\ sessions'[i].plan = sessions[i].plan
                             /\ sessions'[i].st = "closed" <=> sessions[i].st = "closed"
  <2>1. Becomes(s, "lost") /\ Open(s) /\ sessions \in Seq(SessionType) /\ "lost" \in States
    BY DEF ServerDrops, TypeOK, States
  <2> QED BY <2>1, BecomesEffect DEF Open
<1>2. /\ UNCHANGED <<fixed, slot, client, conns, closing, pc, call, cur, jvmVars, failures>>
      /\ drops' \in 0..MaxDrops
  BY SessionsAssumption DEF ServerDrops, TypeOK
<1>3. TypeOK' /\ ClosingInClose' /\ NoSessionForgotten'
  BY <1>1, <1>2 DEF Sessions, TypeOK, ClosingInClose, NoSessionForgotten
<1>4. EndsSessions
  BY <1>1, <1>2 DEF Sessions, TypeOK, EndsSessions
<1> QED BY <1>3, <1>4, EndsSessionsInv

\* What the three forms of close() do to the sessions.
LEMMA ClosedOrSame ==
    ASSUME TypeOK, NEW s \in {None} \cup Sessions, IF s = None THEN UNCHANGED sessions ELSE Gone(s)
    PROVE  /\ sessions' \in Seq(SessionType) /\ Len(sessions') = Len(sessions)
           /\ \A i \in Sessions : /\ sessions'[i].ro = sessions[i].ro /\ sessions'[i].plan = sessions[i].plan
                                  /\ sessions'[i].st = IF i = s THEN "closed" ELSE sessions[i].st
<1>1. CASE s = None
  BY <1>1 DEF TypeOK, None, Sessions
<1>2. CASE s # None
  BY <1>2, BecomesEffect DEF Gone, States, TypeOK
<1> QED BY <1>1, <1>2

LEMMA CloseInv ==
    ASSUME IInv, Close
    PROVE  IInv'
<1> USE MainIsThread DEF IInv, fixed, jvmVars, None
<1>1. CASE engine \in Registering /\ Goes(Main, "idle", "closing") /\ CloseConns
  <2>1. /\ UNCHANGED <<fixed, sessions, slot, client, call, cur, jvmVars, drops, failures>>
        /\ pc[Main] = "idle" /\ pc' = [pc EXCEPT ![Main] = "closing"] /\ closing' = conns /\ conns' = {}
        /\ closing = {}
    BY <1>1 DEF CloseConns, Goes, ClosingInClose, TypeOK
  <2>2. TypeOK' /\ ClosingInClose'
    BY <1>1, <2>1 DEF TypeOK, Labels, Sessions, ClosingInClose
  <2>3. NoSessionForgotten'
    <3>1. \A u \in Threads : pc[u] \in {"hook", "store", "register"} => pc'[u] = pc[u]
      BY <2>1 DEF TypeOK
    <3> QED BY <2>1, <3>1 DEF NoSessionForgotten, Sessions
  <2>4. EndsSessions
    BY <2>1 DEF EndsSessions, Sessions, TypeOK
  <2> QED BY <2>2, <2>3, <2>4, EndsSessionsInv
<1>2. CASE engine \in Registering /\ pc[Main] = "closing" /\ closing # {} /\ CloseConns /\ pc' = pc
  <2>1. PICK s \in closing : Gone(s) /\ closing' = closing \ {s}
    BY <1>2 DEF CloseConns, Goes, TypeOK
  <2>2. s \in Sessions /\ s # None
    BY <2>1 DEF TypeOK, Sessions
  <2>3. UNCHANGED <<fixed, slot, client, conns, call, cur, jvmVars, drops, failures>>
    <3>1. pc'[Main] # "closed"
      BY <1>2
    <3> QED BY <1>2, <3>1 DEF CloseConns, Goes, TypeOK
  <2>4. /\ sessions' \in Seq(SessionType) /\ Len(sessions') = Len(sessions)
        /\ \A i \in Sessions : /\ sessions'[i].ro = sessions[i].ro /\ sessions'[i].plan = sessions[i].plan
                               /\ sessions'[i].st = IF i = s THEN "closed" ELSE sessions[i].st
    BY <2>1, <2>2, BecomesEffect DEF Gone, States, TypeOK
  <2>5. TypeOK' /\ ClosingInClose'
    BY <1>2, <2>1, <2>3, <2>4 DEF TypeOK, Sessions, ClosingInClose
  <2>6. NoSessionForgotten'
    BY <1>2, <2>1, <2>3, <2>4 DEF NoSessionForgotten, Sessions
  <2>7. EndsSessions
    BY <1>2, <2>3, <2>4 DEF EndsSessions, Sessions, TypeOK
  <2> QED BY <2>5, <2>6, <2>7, EndsSessionsInv
<1>3. CASE engine \in Registering /\ closing = {} /\ Goes(Main, "closing", "closed") /\ CloseConns
  <2>1. /\ UNCHANGED <<fixed, sessions, slot, client, conns, closing, call, cur, jvmVars, drops, failures>>
        /\ pc[Main] = "closing" /\ pc' = [pc EXCEPT ![Main] = "closed"]
    BY <1>3 DEF CloseConns, Goes, TypeOK
  <2>2. TypeOK' /\ ClosingInClose'
    BY <1>3, <2>1 DEF TypeOK, Labels, Sessions, ClosingInClose
  <2>3. NoSessionForgotten'
    <3>1. \A u \in Threads : pc[u] \in {"hook", "store", "register"} => pc'[u] = pc[u]
      BY <2>1 DEF TypeOK
    <3> QED BY <2>1, <3>1 DEF NoSessionForgotten, Sessions
  <2>4. EndsSessions
    BY <2>1 DEF EndsSessions, Sessions, TypeOK
  <2> QED BY <2>2, <2>3, <2>4, EndsSessionsInv
<1>4. CASE CloseClickHouse \/ CloseTibero
  <2>1. slot[Main] \in {None} \cup Sessions /\ (IF slot[Main] = None THEN UNCHANGED sessions ELSE Gone(slot[Main]))
    BY <1>4 DEF CloseClickHouse, CloseTibero, TypeOK
  <2>2. /\ sessions' \in Seq(SessionType) /\ Len(sessions') = Len(sessions)
        /\ \A i \in Sessions : /\ sessions'[i].ro = sessions[i].ro /\ sessions'[i].plan = sessions[i].plan
                               /\ sessions[i].st = "closed" => sessions'[i].st = "closed"
    BY <2>1, ClosedOrSame
  <2>3. /\ UNCHANGED <<fixed, client, conns, closing, call, cur, jvmVars, drops, failures>>
        /\ pc[Main] = "idle" /\ pc' = [pc EXCEPT ![Main] = "closed"]
        /\ slot' \in {slot, [slot EXCEPT ![Main] = None]} /\ engine \notin Registering
    BY <1>4 DEF CloseClickHouse, CloseTibero, Goes, Registering
  <2>4. TypeOK' /\ ClosingInClose' /\ NoSessionForgotten'
    BY <2>2, <2>3 DEF TypeOK, Labels, Sessions, ClosingInClose, NoSessionForgotten
  <2>5. EndsSessions
    BY <2>2, <2>3 DEF EndsSessions, Sessions, TypeOK
  <2> QED BY <2>4, <2>5, EndsSessionsInv
<1>5. ASSUME NEW raises \in BOOLEAN, CloseClient(raises)
      PROVE  IInv'
  <2>1. /\ engine \notin Registering
        /\ UNCHANGED <<fixed, slot, conns, closing, call, cur, jvmVars, drops, failures>>
    BY <1>5 DEF CloseClient, OneClient, Search, Registering
  <2>2. /\ pc[Main] \in {"idle", "closing"}
        /\ \E x \in {"closing", "closed"} : pc' = [pc EXCEPT ![Main] = x]
        /\ client' = client \/ (client' = None /\ pc'[Main] = "closed")
        /\ \/ UNCHANGED sessions
           \/ client # None /\ Gone(client)
    BY <1>5 DEF CloseClient, Goes, TypeOK
  <2>3. /\ sessions' \in Seq(SessionType) /\ Len(sessions') = Len(sessions)
        /\ \A i \in Sessions : /\ sessions'[i].ro = sessions[i].ro /\ sessions'[i].plan = sessions[i].plan
                               /\ sessions[i].st = "closed" => sessions'[i].st = "closed"
    <3>1. CASE UNCHANGED sessions
      BY <3>1 DEF TypeOK
    <3>2. CASE client # None /\ Gone(client)
      BY <3>2, ClosedOrSame DEF TypeOK
    <3> QED BY <2>2, <3>1, <3>2
  <2>4. TypeOK' /\ ClosingInClose' /\ NoSessionForgotten'
    <3>1. closing = {}
      BY <2>1 DEF ClosingInClose
    <3> QED BY <2>1, <2>2, <2>3, <3>1 DEF TypeOK, Labels, Sessions, ClosingInClose, NoSessionForgotten
  <2>5. EndsSessions
    BY <2>1, <2>2, <2>3 DEF EndsSessions, Sessions, TypeOK
  <2> QED BY <2>4, <2>5, EndsSessionsInv
<1>6. CASE CloseConns
  BY <1>1, <1>2, <1>3, <1>6 DEF CloseConns
<1> QED BY <1>4, <1>5, <1>6 DEF Close

-----------------------------------------------------------------------------
(* The invariant holds from the start and in every step.                   *)

LEMMA InitIInv ==
    ASSUME Init
    PROVE  IInv
<1> USE MainIsThread, SessionsAssumption DEF Init, Sessions, None
<1>1. sessions \in Seq(SessionType) /\ Len(sessions) = 0 /\ failures \in Seq(0..2) /\ Len(failures) = 0
  OBVIOUS
<1>2. TypeOK
  <2>1. engine \in Engines /\ jvmLock \in Threads \cup {NoThread} /\ jvms \in Nat /\ drops \in 0..MaxDrops
    OBVIOUS
  <2>4. jar \in BOOLEAN
    <3>1. jar \in BOOLEAN \/ jar \in {TRUE}
      BY Zenon
    <3> QED BY <3>1
  <2>2. /\ client \in {None} \cup Sessions /\ conns \in SUBSET Sessions /\ closing \in SUBSET Sessions
        /\ slot \in [Threads -> {None} \cup Sessions] /\ cur \in [Threads -> {None} \cup Sessions]
    OBVIOUS
  <2>3. pc \in [Threads -> Labels] /\ call \in [Threads -> {"none", "query", "errors", "explain"}]
    BY DEF Labels
  <2> QED BY <1>1, <2>1, <2>2, <2>3, <2>4 DEF TypeOK
<1>3. Places /\ OwnSessions /\ KeptReadOnly /\ NewIsUnplanned
  BY DEF Places, OwnSessions, KeptReadOnly, NewIsUnplanned, InStatement
<1>4. PlanIsExplained /\ QueriesReturnRows /\ FailedIsClosed /\ ClosingInClose /\ NoSessionForgotten
  BY <1>1 DEF PlanIsExplained, QueriesReturnRows, FailedIsClosed, ClosingInClose, NoSessionForgotten, InStatement
<1>5. JvmUnderLock /\ FetchedIsThere /\ ClientIsThere
  BY DEF JvmUnderLock, FetchedIsThere, ClientIsThere, InStatement
<1> QED BY <1>2, <1>3, <1>4, <1>5 DEF IInv

LEMMA StutterIInv ==
    ASSUME IInv, UNCHANGED vars
    PROVE  IInv'
<1> USE DEF vars, Sessions
<1>1. TypeOK'
  BY DEF IInv, TypeOK
<1>2. Places' /\ OwnSessions' /\ KeptReadOnly' /\ NewIsUnplanned'
  BY DEF IInv, Places, OwnSessions, KeptReadOnly, NewIsUnplanned, InStatement
<1>3. PlanIsExplained' /\ QueriesReturnRows' /\ FailedIsClosed' /\ ClosingInClose' /\ NoSessionForgotten'
  BY DEF IInv, PlanIsExplained, QueriesReturnRows, FailedIsClosed, ClosingInClose, NoSessionForgotten, InStatement
<1>4. JvmUnderLock' /\ FetchedIsThere' /\ ClientIsThere'
  BY DEF IInv, JvmUnderLock, FetchedIsThere, ClientIsThere, InStatement
<1> QED BY <1>1, <1>2, <1>3, <1>4 DEF IInv

LEMMA NextIInv ==
    ASSUME IInv, [Next]_vars
    PROVE  IInv'
<1>1. ASSUME NEW t \in Threads, NEW op \in Operations, Call(t, op)
      PROVE  IInv'
  BY <1>1, CallInv
<1>2. ASSUME NEW t \in Threads, Ensuring(t)
      PROVE  IInv'
  BY <1>2, ReuseOpenInv, ReuseClientInv, ReuseJdbcInv, TestClientInv, FetchClientInv, TestJvmInv,
     StartJvmInv, ConnectInv, AfterConnectInv, StoreConnInv, RegisterConnInv DEF Ensuring
<1>3. ASSUME NEW t \in Threads, TakeJvmLock(t)
      PROVE  IInv'
  BY <1>3, TakeJvmLockInv
<1>4. ASSUME NEW t \in Threads, Running(t)
      PROVE  IInv'
  BY <1>4, RunningInv, MSSQLExplainInv, TiberoExplainInv DEF Running
<1>5. ASSUME NEW w \in Workers, WorkerStarts(w) \/ WorkerEnds(w)
      PROVE  IInv'
  BY <1>5, MainIsThread, WorkerStartsInv, WorkerEndsInv
<1>6. ASSUME NEW s \in Sessions, ServerDrops(s)
      PROVE  IInv'
  BY <1>6, ServerDropsInv
<1> QED BY <1>1, <1>2, <1>3, <1>4, <1>5, <1>6, CloseInv, StutterIInv DEF Next

\* The invariant holds in every state of a behaviour of the adapter.
THEOREM Invariance == Spec => []IInv
<1> QED BY InitIInv, NextIInv, PTL DEF Spec

-----------------------------------------------------------------------------
(* The results.                                                            *)

\* Type correctness, for any number of refresh threads, sessions and drops.
THEOREM TypeCorrect == Spec => []TypeOK
<1>1. IInv => TypeOK
  BY DEF IInv
<1> QED BY <1>1, Invariance, PTL

\* sql_guard.py:10-14: where the server is asked to refuse writes too, it does
\* so on every session a statement of a caller comes to.
THEOREM ReadOnlyInForce == Spec => []StatementsRunReadOnly
<1>1. IInv => StatementsRunReadOnly
  BY DEF IInv, KeptReadOnly, StatementsRunReadOnly
<1> QED BY <1>1, Invariance, PTL

\* explain() of MSSQL leaves no session of a later statement in SHOWPLAN.
THEOREM RowsNotPlans == Spec => []QueriesReturnRows
<1>1. IInv => QueriesReturnRows
  BY DEF IInv
<1> QED BY <1>1, Invariance, PTL

\* A session the server dropped costs one call.
THEOREM LostOnce == Spec => []LostSessionFailsOnce
<1>1. IInv => LostSessionFailsOnce
  <2> SUFFICES ASSUME IInv, engine \in Registering, NEW s \in Sessions
               PROVE  failures[s] <= 1
    BY DEF LostSessionFailsOnce
  <2>1. failures[s] \in 0..2
    BY DEF IInv, TypeOK, Sessions
  <2>2. failures[s] = 0 \/ failures[s] = 1
    BY DEF IInv, FailedIsClosed
  <2> QED BY <2>1, <2>2
<1> QED BY <1>1, Invariance, PTL

\* close() reaches every open session, or its thread is about to register it.
THEOREM SessionsRemembered == Spec => []NoSessionForgotten
<1>1. IInv => NoSessionForgotten
  BY DEF IInv
<1> QED BY <1>1, Invariance, PTL

\* The client that was tested is there when it is used, but for close().
THEOREM ClientUsable == Spec => []ClientIsThere
<1>1. IInv => ClientIsThere
  BY DEF IInv
<1> QED BY <1>1, Invariance, PTL

\* The JVM is started once, however many threads connect at a time.
THEOREM OneJvm == Spec => []JvmStartedOnce
<1>1. IInv => JvmStartedOnce
  BY DEF IInv, JvmUnderLock, JvmStartedOnce
<1> QED BY <1>1, Invariance, PTL
=============================================================================

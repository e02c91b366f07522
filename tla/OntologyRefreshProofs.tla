----------------------- MODULE OntologyRefreshProofs -----------------------
(***************************************************************************)
(* Proofs about OntologyRefresh for any number of processes, threads,      *)
(* tables, schema changes, days and crashes.                               *)
(*                                                                         *)
(* IInv holds whatever the processes do.  OneInv holds as long as one      *)
(* process refreshes and nobody scans: then the lock of the process makes  *)
(* the read-modify-write of tracker and index exclusive, and a date in the *)
(* tracker can be trusted.                                                 *)
(***************************************************************************)
EXTENDS OntologyRefresh, NatSets, TLAPS, FiniteSetTheorems

Refreshing(w) == pc[w] \in {"fetch", "delete", "add", "save"}
Active(w) == pc[w] = "load" \/ Refreshing(w)

Working ==
    \A w \in Workers :
        /\ Active(w) => today[w] \in Days
        /\ pc[w] \in {"delete", "add"} => todo[w] # {}
        /\ ~Refreshing(w) => loaded[w] = EmptyTracker

LockOwnership == \A w \in Workers : Active(w) <=> Lock(w) = w

IInv ==
    /\ TypeOK
    /\ TrackerAfterRefresh
    /\ Working
    /\ LockOwnership

OneRefresher ==
    /\ Builders = {}
    /\ \A v, w \in Workers : Owner[v] = Owner[w]

\* No date is later than the one of the thread that works, or than today's.
DatesInOrder ==
    /\ \A t \in Tables : tracker[t] <= date /\ dayStart[t] <= schema[t]
    /\ \A w \in Workers : Active(w) =>
          /\ today[w] <= date
          /\ \A t \in Tables : tracker[t] <= today[w]
    /\ \A w \in Workers : Refreshing(w) =>
          \A t \in Tables : loaded[w][t] <= today[w]

\* What is still to be refreshed has another date.
TodoIsStale ==
    \A w \in Workers : Refreshing(w) =>
        \A t \in todo[w] : tracker[t] # today[w] /\ loaded[w][t] # today[w]

\* The document a thread writes is of its day, and has no rival in the index.
DocIsFresh ==
    \A w \in Workers :
        /\ pc[w] \in {"delete", "add"} /\ today[w] = date =>
              doc[w] >= dayStart[Current(w)]
        /\ pc[w] = "add" => index[Current(w)] = <<>>

Fresh(t) == Len(index[t]) = 1 /\ index[t][1] >= dayStart[t]

LoadedIsFresh ==
    \A w \in Workers : Refreshing(w) =>
        \A t \in Tables : loaded[w][t] = date => Fresh(t)

\* A refresh that no crash and no failed save has lost is in the copy of the
\* thread that works, or on disk when none does.
Recorded ==
    \A t \in Tables, d \in Days : <<t, d>> \in refreshed =>
        /\ \A w \in Workers : Refreshing(w) => d <= loaded[w][t]
        /\ (\A w \in Workers : ~Refreshing(w)) => d <= tracker[t]

OneInv ==
    /\ IInv
    /\ DatesInOrder
    /\ TodoIsStale
    /\ DocIsFresh
    /\ OneDocumentPerTable
    /\ TrackedTodayIsFresh
    /\ LoadedIsFresh
    /\ Recorded

-----------------------------------------------------------------------------
(* The tables are numbers, and a thread takes the least of those it has     *)
(* left.                                                                    *)
LEMMA CurrentInTodo ==
    ASSUME TypeOK, NEW w \in Workers, todo[w] # {}
    PROVE  Current(w) \in todo[w] /\ Current(w) \in Tables
<1>1. todo[w] \in SUBSET Nat /\ todo[w] \subseteq Tables
  BY RefreshAssumption DEF TypeOK
<1>2. \E t \in todo[w] : \A u \in todo[w] : t <= u
  BY <1>1, HasLeast
<1> QED
  BY <1>1, <1>2 DEF Current

LEMMA VersionTypes ==
    /\ 0 \in Versions
    /\ NoSchema \in [Tables -> Versions]
    /\ EmptyTracker \in [Tables -> Days \cup {Never}]
BY RefreshAssumption DEF Versions, NoSchema, EmptyTracker, Never

LEMMA IndexTypes ==
    ASSUME TypeOK, NEW S
    PROVE  /\ Without(S) \in [Tables -> Seq(Versions)]
           /\ \A f : (\A t \in Tables : f[t] \in Versions) =>
                 WithAdded(S, f) \in [Tables -> Seq(Versions)]
BY DEF TypeOK, Without, WithAdded

-----------------------------------------------------------------------------
(* IInv: every interleaving of processes, scans and crashes.                *)

LEMMA InitIInv == Init => IInv
<1> SUFFICES ASSUME Init PROVE IInv
  OBVIOUS
<1>1. TypeOK
  <2>1. schema \in [Tables -> Versions] /\ dayStart \in [Tables -> Versions]
    BY DEF Init
  <2>2. /\ index \in [Tables -> Seq(Versions)]
        /\ date \in Days /\ crashes \in 0..MaxCrashes
    BY RefreshAssumption DEF Init, Days
  <2>3. /\ lock \in [Procs -> Workers \cup {NoWorker}]
        /\ pc \in [Workers -> {"none", "lock", "load", "fetch", "delete", "add", "save"}]
        /\ todo \in [Workers -> SUBSET Tables]
        /\ today \in [Workers -> Days \cup {Never}]
        /\ doc \in [Workers -> Versions]
    BY VersionTypes DEF Init
  <2>4. /\ tracker \in [Tables -> Days \cup {Never}]
        /\ loaded \in [Workers -> [Tables -> Days \cup {Never}]]
        /\ snap \in [Procs -> [Tables -> Versions]]
    BY VersionTypes DEF Init
  <2>5. /\ main \in [Procs -> {"idle", "ids", "delete", "add", "remove", "built", "search"}]
        /\ gone \in [Procs -> SUBSET Tables]
        /\ searching \in [Procs -> BOOLEAN]
        /\ alone \in [Procs -> BOOLEAN]
    BY DEF Init
  <2> QED
    BY <2>1, <2>2, <2>3, <2>4, <2>5 DEF Init, TypeOK
<1>2. TrackerAfterRefresh
  BY DEF Init, TrackerAfterRefresh, EmptyTracker
<1>3. Working /\ LockOwnership
  BY RefreshAssumption DEF Init, Working, LockOwnership, Active, Refreshing, Lock
<1> QED
  BY <1>1, <1>2, <1>3 DEF IInv

LEMMA RefreshStaleTablesStep ==
    ASSUME IInv, NEW w \in Workers, NEW names \in SUBSET Tables,
           RefreshStaleTables(w, names)
    PROVE  IInv'
<1>1. TypeOK'
  BY DEF IInv, TypeOK, RefreshStaleTables, dbVars, mainVars
<1>2. TrackerAfterRefresh'
  BY DEF IInv, TrackerAfterRefresh, RefreshStaleTables
<1>3. Working' /\ LockOwnership'
  BY DEF IInv, TypeOK, Working, LockOwnership, Active, Refreshing, Lock, RefreshStaleTables
<1> QED
  BY <1>1, <1>2, <1>3 DEF IInv

LEMMA AcquireStep ==
    ASSUME IInv, NEW w \in Workers, Acquire(w)
    PROVE  IInv'
<1>1. Owner[w] \in Procs
  BY RefreshAssumption
<1>2. TypeOK'
  BY <1>1 DEF IInv, TypeOK, Acquire, dbVars, mainVars
<1>3. TrackerAfterRefresh'
  BY DEF IInv, TrackerAfterRefresh, Acquire
<1>4. Working'
  BY DEF IInv, TypeOK, Working, Active, Refreshing, Acquire, dbVars
<1>5. LockOwnership'
  BY <1>1, RefreshAssumption DEF IInv, TypeOK, LockOwnership, Active, Refreshing, Lock, Acquire
<1> QED
  BY <1>2, <1>3, <1>4, <1>5 DEF IInv

\* A thread gives the lock back and ends.
LEMMA LockReturned ==
    ASSUME IInv, NEW w \in Workers, Active(w),
           pc' = [pc EXCEPT ![w] = "none"],
           lock' = [lock EXCEPT ![Owner[w]] = NoWorker]
    PROVE  LockOwnership'
BY RefreshAssumption, ZenonT(60) DEF IInv, TypeOK, LockOwnership, Active, Refreshing, Lock

\* A thread that works goes on and keeps the lock.
LEMMA LockKept ==
    ASSUME IInv, NEW w \in Workers, Active(w),
           NEW to \in {"fetch", "delete", "add", "save"},
           pc' = [pc EXCEPT ![w] = to], lock' = lock
    PROVE  LockOwnership'
BY DEF IInv, TypeOK, LockOwnership, Active, Refreshing, Lock

LEMMA LoadTrackerStep ==
    ASSUME IInv, NEW w \in Workers, LoadTracker(w)
    PROVE  IInv'
<1> DEFINE stale == {t \in todo[w] : tracker[t] # today[w]}
<1>1. /\ pc[w] = "load" /\ Active(w)
      /\ todo' = [todo EXCEPT ![w] = stale]
      /\ UNCHANGED <<dbVars, index, tracker, doc, mainVars, crashes, refreshed, alone, scanned>>
  BY DEF LoadTracker, Active
<1>2. CASE stale = {}
  <2>1. /\ pc' = [pc EXCEPT ![w] = "none"]
        /\ lock' = [lock EXCEPT ![Owner[w]] = NoWorker]
        /\ today' = [today EXCEPT ![w] = Never]
        /\ UNCHANGED loaded
    BY <1>2 DEF LoadTracker
  <2>2. TypeOK'
    BY <1>1, <2>1 DEF IInv, TypeOK, dbVars, mainVars
  <2>3. TrackerAfterRefresh'
    BY <1>1, <2>1 DEF IInv, TrackerAfterRefresh
  <2>4. Working'
    BY <1>1, <2>1 DEF IInv, TypeOK, Working, Active, Refreshing
  <2> QED
    BY <1>1, <2>1, <2>2, <2>3, <2>4, LockReturned DEF IInv
<1>3. CASE stale # {}
  <2>1. /\ pc' = [pc EXCEPT ![w] = "fetch"]
        /\ loaded' = [loaded EXCEPT ![w] = tracker]
        /\ UNCHANGED <<lock, today>>
    BY <1>3 DEF LoadTracker
  <2>2. TypeOK'
    BY <1>1, <2>1 DEF IInv, TypeOK, dbVars, mainVars
  <2>3. TrackerAfterRefresh'
    BY <1>1, <2>1 DEF IInv, TypeOK, TrackerAfterRefresh
  <2>4. Working'
    BY <1>1, <2>1 DEF IInv, TypeOK, Working, Active, Refreshing
  <2> QED
    BY <1>1, <2>1, <2>2, <2>3, <2>4, LockKept DEF IInv
<1> QED
  BY <1>2, <1>3

LEMMA SkipTableTypes ==
    ASSUME TypeOK, NEW w \in Workers, SkipTable(w)
    PROVE  /\ todo' \in [Workers -> SUBSET Tables]
           /\ doc' \in [Workers -> Versions]
           /\ pc' = [pc EXCEPT ![w] = "fetch"]
           /\ \A v \in Workers \ {w} : todo'[v] = todo[v]
BY VersionTypes DEF TypeOK, SkipTable

LEMMA FetchSchemaStep ==
    ASSUME IInv, NEW w \in Workers, NEW raises \in BOOLEAN, FetchSchema(w, raises)
    PROVE  IInv'
<1>1. /\ pc[w] = "fetch" /\ Active(w) /\ todo[w] # {}
      /\ UNCHANGED <<dbVars, index, tracker, lock, today, loaded, mainVars,
                     crashes, refreshed, alone, scanned>>
  BY DEF FetchSchema, Active, Refreshing
<1>2. Current(w) \in Tables
  BY <1>1, CurrentInTodo DEF IInv
<1>3. PICK to \in {"fetch", "delete"} :
         /\ pc' = [pc EXCEPT ![w] = to]
         /\ to = "delete" => UNCHANGED todo
         /\ \A v \in Workers \ {w} : todo'[v] = todo[v]
  BY DEF IInv, TypeOK, FetchSchema, SkipTable
<1>4. todo' \in [Workers -> SUBSET Tables] /\ doc' \in [Workers -> Versions]
  <2>1. CASE SkipTable(w)
    BY <2>1, SkipTableTypes DEF IInv
  <2>2. CASE UNCHANGED todo /\ doc' = [doc EXCEPT ![w] = schema[Current(w)]]
    BY <2>2, <1>2 DEF IInv, TypeOK
  <2> QED
    BY <2>1, <2>2 DEF FetchSchema
<1>5. TypeOK'
  BY <1>1, <1>3, <1>4 DEF IInv, TypeOK, dbVars, mainVars
<1>6. TrackerAfterRefresh'
  BY <1>1 DEF IInv, TrackerAfterRefresh
<1>7. Working'
  BY <1>1, <1>3, <1>4 DEF IInv, TypeOK, Working, Active, Refreshing
<1> QED
  BY <1>1, <1>3, <1>5, <1>6, <1>7, LockKept DEF IInv

LEMMA UpsertDeleteStep ==
    ASSUME IInv, NEW w \in Workers, NEW raises \in BOOLEAN, UpsertDelete(w, raises)
    PROVE  IInv'
<1>1. /\ pc[w] = "delete" /\ Active(w)
      /\ UNCHANGED <<dbVars, tracker, lock, today, loaded, mainVars,
                     crashes, refreshed, alone, scanned>>
  BY DEF UpsertDelete, Active, Refreshing
<1>2. PICK to \in {"fetch", "add"} :
         /\ pc' = [pc EXCEPT ![w] = to]
         /\ to = "add" => UNCHANGED todo
         /\ \A v \in Workers \ {w} : todo'[v] = todo[v]
  BY DEF IInv, TypeOK, UpsertDelete, SkipTable
<1>3. /\ todo' \in [Workers -> SUBSET Tables]
      /\ doc' \in [Workers -> Versions]
      /\ index' \in [Tables -> Seq(Versions)]
  <2>1. CASE SkipTable(w) /\ UNCHANGED index
    BY <2>1, SkipTableTypes DEF IInv, TypeOK
  <2>2. CASE UNCHANGED <<todo, doc>> /\ index' = Without({Current(w)})
    BY <2>2, IndexTypes DEF IInv, TypeOK
  <2> QED
    BY <2>1, <2>2 DEF UpsertDelete
<1>4. TypeOK'
  BY <1>1, <1>2, <1>3 DEF IInv, TypeOK, dbVars, mainVars
<1>5. TrackerAfterRefresh'
  BY <1>1 DEF IInv, TrackerAfterRefresh
<1>6. Working'
  BY <1>1, <1>2 DEF IInv, TypeOK, Working, Active, Refreshing
<1> QED
  BY <1>1, <1>2, <1>4, <1>5, <1>6, LockKept DEF IInv

LEMMA UpsertAddStep ==
    ASSUME IInv, NEW w \in Workers, NEW raises \in BOOLEAN, UpsertAdd(w, raises)
    PROVE  IInv'
<1>1. /\ pc[w] = "add" /\ Active(w) /\ todo[w] # {} /\ today[w] \in Days
      /\ SkipTable(w) /\ pc' = [pc EXCEPT ![w] = "fetch"]
      /\ UNCHANGED <<dbVars, tracker, lock, today, mainVars, crashes, alone, scanned>>
  BY DEF IInv, Working, UpsertAdd, SkipTable, Active, Refreshing
<1>2. Current(w) \in Tables
  BY <1>1, CurrentInTodo DEF IInv
<1>3. /\ todo' \in [Workers -> SUBSET Tables] /\ doc' \in [Workers -> Versions]
      /\ \A v \in Workers \ {w} : todo'[v] = todo[v]
  BY <1>1, SkipTableTypes DEF IInv
<1>4. /\ index' \in [Tables -> Seq(Versions)]
      /\ loaded' \in [Workers -> [Tables -> Days \cup {Never}]]
      /\ refreshed' \in SUBSET (Tables \X Days)
      /\ TrackerAfterRefresh'
  <2>1. CASE UNCHANGED <<index, loaded, refreshed>>
    BY <1>1, <2>1 DEF IInv, TypeOK, TrackerAfterRefresh
  <2>2. CASE /\ index' = WithAdded({Current(w)}, [t \in Tables |-> doc[w]])
             /\ loaded' = [loaded EXCEPT ![w][Current(w)] = today[w]]
             /\ refreshed' = refreshed \cup {<<Current(w), today[w]>>}
    <3>1. \A t \in Tables : [u \in Tables |-> doc[w]][t] \in Versions
      BY DEF IInv, TypeOK
    <3>2. index' \in [Tables -> Seq(Versions)]
      BY <2>2, <3>1, IndexTypes DEF IInv
    <3>3. loaded' \in [Workers -> [Tables -> Days \cup {Never}]]
      BY <1>1, <2>2 DEF IInv, TypeOK
    <3>4. \A v \in Workers, t \in Tables :
             loaded'[v][t] = IF v = w /\ t = Current(w) THEN today[w] ELSE loaded[v][t]
      BY <2>2 DEF IInv, TypeOK
    <3>5. TrackerAfterRefresh'
      BY <1>1, <2>2, <3>4 DEF IInv, TrackerAfterRefresh
    <3>6. refreshed' \in SUBSET (Tables \X Days)
      BY <1>1, <1>2, <2>2 DEF IInv, TypeOK
    <3> QED
      BY <3>2, <3>3, <3>5, <3>6
  <2> QED
    BY <2>1, <2>2 DEF UpsertAdd
<1>5. TypeOK'
  BY <1>1, <1>3, <1>4 DEF IInv, TypeOK, dbVars, mainVars
<1>6. Working'
  <2>1. \A v \in Workers \ {w} : loaded'[v] = loaded[v]
    BY DEF IInv, TypeOK, UpsertAdd
  <2> QED
    BY <1>1, <1>3, <2>1 DEF IInv, TypeOK, Working, Active, Refreshing
<1> QED
  BY <1>1, <1>4, <1>5, <1>6, LockKept DEF IInv

\* A crash or a failed save loses no more than the file and the copies do.
LEMMA LostTogether ==
    ASSUME TrackerAfterRefresh, refreshed' = StillRecorded,
           \A t \in Tables : tracker'[t] \in {tracker[t], Never},
           \A v \in Workers, t \in Tables : loaded'[v][t] \in {loaded[v][t], Never}
    PROVE  TrackerAfterRefresh'
BY DEF TrackerAfterRefresh, StillRecorded

LEMMA SaveRaisesStep ==
    ASSUME IInv, NEW w \in Workers, Active(w), ThreadEnds(w),
           tracker' \in {tracker, EmptyTracker}, refreshed' = StillRecorded,
           UNCHANGED <<dbVars, index, todo, doc, mainVars, crashes, alone, scanned>>
    PROVE  IInv'
<1>1. /\ pc' = [pc EXCEPT ![w] = "none"]
      /\ lock' = [lock EXCEPT ![Owner[w]] = NoWorker]
      /\ loaded' = [loaded EXCEPT ![w] = EmptyTracker]
      /\ today' = [today EXCEPT ![w] = Never]
  BY DEF ThreadEnds
<1>2. refreshed' \in SUBSET (Tables \X Days)
  BY DEF IInv, TypeOK, StillRecorded
<1>3. TypeOK'
  BY <1>1, <1>2, VersionTypes DEF IInv, TypeOK, dbVars, mainVars
<1>4. TrackerAfterRefresh'
  <2>1. /\ \A t \in Tables : tracker'[t] \in {tracker[t], Never}
        /\ \A v \in Workers, t \in Tables : loaded'[v][t] \in {loaded[v][t], Never}
    BY <1>1 DEF IInv, TypeOK, EmptyTracker
  <2> QED
    BY <2>1, LostTogether DEF IInv
<1>5. Working'
  BY <1>1 DEF IInv, TypeOK, Working, Active, Refreshing
<1> QED
  BY <1>1, <1>3, <1>4, <1>5, LockReturned DEF IInv

LEMMA SaveTruncateStep ==
    ASSUME IInv, NEW w \in Workers, NEW raises \in BOOLEAN, SaveTruncate(w, raises)
    PROVE  IInv'
<1>1. /\ pc[w] = "fetch" /\ Active(w)
      /\ UNCHANGED <<dbVars, index, todo, doc, mainVars, crashes, alone, scanned>>
  BY DEF SaveTruncate, Active, Refreshing
<1>2. CASE raises
  BY <1>1, <1>2, SaveRaisesStep DEF SaveTruncate
<1>3. CASE ~raises
  <2>1. /\ pc' = [pc EXCEPT ![w] = "save"]
        /\ tracker' = EmptyTracker
        /\ UNCHANGED <<lock, today, loaded, refreshed>>
    BY <1>3 DEF SaveTruncate
  <2>2. TypeOK'
    BY <1>1, <2>1, VersionTypes DEF IInv, TypeOK, dbVars, mainVars
  <2>3. TrackerAfterRefresh'
    BY <2>1 DEF IInv, TrackerAfterRefresh, EmptyTracker
  <2>4. Working'
    BY <1>1, <2>1 DEF IInv, TypeOK, Working, Active, Refreshing
  <2> QED
    BY <1>1, <2>1, <2>2, <2>3, <2>4, LockKept DEF IInv
<1> QED
  BY <1>2, <1>3

LEMMA SaveWriteStep ==
    ASSUME IInv, NEW w \in Workers, NEW raises \in BOOLEAN, SaveWrite(w, raises)
    PROVE  IInv'
<1>1. /\ pc[w] = "save" /\ Active(w) /\ ThreadEnds(w)
      /\ UNCHANGED <<dbVars, index, todo, doc, mainVars, crashes, alone, scanned>>
  BY DEF SaveWrite, Active, Refreshing
<1>2. CASE raises
  BY <1>1, <1>2, SaveRaisesStep DEF SaveWrite
<1>3. CASE ~raises
  <2>1. /\ pc' = [pc EXCEPT ![w] = "none"]
        /\ lock' = [lock EXCEPT ![Owner[w]] = NoWorker]
        /\ loaded' = [loaded EXCEPT ![w] = EmptyTracker]
        /\ today' = [today EXCEPT ![w] = Never]
        /\ tracker' = loaded[w]
        /\ UNCHANGED refreshed
    BY <1>1, <1>3 DEF SaveWrite, ThreadEnds
  <2>2. TypeOK'
    BY <1>1, <2>1, VersionTypes DEF IInv, TypeOK, dbVars, mainVars
  <2>3. TrackerAfterRefresh'
    BY <2>1 DEF IInv, TypeOK, TrackerAfterRefresh, EmptyTracker
  <2>4. Working'
    BY <1>1, <2>1 DEF IInv, TypeOK, Working, Active, Refreshing
  <2> QED
    BY <1>1, <2>1, <2>2, <2>3, <2>4, LockReturned DEF IInv
<1> QED
  BY <1>2, <1>3

\* The tools of the main thread touch neither the tracker nor the threads.
LEMMA MainStep ==
    ASSUME IInv, NEW p \in Procs, Tool(p) \/ Scan(p)
    PROVE  IInv'
<1>1. UNCHANGED <<tracker, refreshed, threadVars, dbVars, crashes>>
  BY DEF Tool, Scan, BuildOntologyIndex, SearchObjectCatalog, AllIds, ScanDelete, ScanAdd,
     ScanRemove, ScanReturns, ScanRaises, Search
<1>2. index' \in [Tables -> Seq(Versions)]
  <2>1. \A t \in Tables : snap[p][t] \in Versions
    BY DEF IInv, TypeOK
  <2>2. \/ UNCHANGED index
        \/ \E S : index' = Without(S)
        \/ \E S : index' = WithAdded(S, snap[p])
    BY DEF Tool, Scan, BuildOntologyIndex, SearchObjectCatalog, AllIds, ScanDelete,
       ScanAdd, ScanRemove, ScanReturns, ScanRaises, Search
  <2>3. ASSUME NEW S
        PROVE  /\ Without(S) \in [Tables -> Seq(Versions)]
               /\ WithAdded(S, snap[p]) \in [Tables -> Seq(Versions)]
    BY <2>1, IndexTypes DEF IInv
  <2> QED
    BY <2>2, <2>3 DEF IInv, TypeOK
<1>3. main' \in [Procs -> {"idle", "ids", "delete", "add", "remove", "built", "search"}]
  <2>1. \E to \in {"idle", "ids", "delete", "add", "remove", "built", "search"} :
           main' = [main EXCEPT ![p] = to]
    <3>1. CASE \E raises \in BOOLEAN : SearchObjectCatalog(p, raises)
      BY <3>1 DEF SearchObjectCatalog, StartScan
    <3>2. CASE BuildOntologyIndex(p)
      BY <3>2 DEF BuildOntologyIndex, StartScan
    <3>3. CASE Scan(p)
      BY <3>3 DEF Scan, ScanIsOver, AllIds, ScanDelete, ScanAdd, ScanRemove, ScanReturns,
         ScanRaises, Search
    <3> QED
      BY <3>1, <3>2, <3>3 DEF Tool
  <2> QED
    BY <2>1 DEF IInv, TypeOK
<1>4. snap' \in [Procs -> [Tables -> Versions]]
  BY VersionTypes DEF IInv, TypeOK, Tool, Scan, StartScan, ScanIsOver,
     BuildOntologyIndex, SearchObjectCatalog, AllIds, ScanDelete, ScanAdd, ScanRemove,
     ScanReturns, ScanRaises, Search
<1>5. gone' \in [Procs -> SUBSET Tables]
  <2> DEFINE G == {t \in Tables : Indexed(t)} \ Scanned(p)
  <2>1. \/ UNCHANGED gone
        \/ gone' = [gone EXCEPT ![p] = {}]
        \/ gone' = [gone EXCEPT ![p] = G]
    BY DEF Tool, Scan, ScanIsOver, BuildOntologyIndex, SearchObjectCatalog, AllIds,
       ScanDelete, ScanAdd, ScanRemove, ScanReturns, ScanRaises, Search
  <2>2. G \in SUBSET Tables
    OBVIOUS
  <2> HIDE DEF G
  <2> QED
    BY <2>1, <2>2 DEF IInv, TypeOK
<1>6. /\ searching' \in [Procs -> BOOLEAN]
      /\ alone' \in [Procs -> BOOLEAN]
      /\ scanned' \in BOOLEAN
  <2>1. CASE \E raises \in BOOLEAN : SearchObjectCatalog(p, raises)
    <3>1. searching' \in [Procs -> BOOLEAN]
      BY <2>1, Zenon DEF IInv, TypeOK, SearchObjectCatalog
    <3>2. alone' \in [Procs -> BOOLEAN] /\ scanned' \in BOOLEAN
      <4>1. UNCHANGED scanned /\ (StartScan(p) \/ UNCHANGED alone)
        BY <2>1, Zenon DEF SearchObjectCatalog
      <4>2. StartScan(p) => alone' \in [Procs -> BOOLEAN]
        BY Zenon DEF StartScan
      <4> QED
        BY <4>1, <4>2, Zenon DEF IInv, TypeOK
    <3> QED
      BY <3>1, <3>2
  <2>2. CASE BuildOntologyIndex(p)
    BY <2>2, Zenon DEF IInv, TypeOK, BuildOntologyIndex, StartScan
  <2>3. CASE Scan(p)
    BY <2>3, ZenonT(60) DEF IInv, TypeOK, Scan, AllIds, ScanDelete, ScanAdd, ScanRemove,
       ScanReturns, ScanRaises, Search
  <2> QED
    BY <2>1, <2>2, <2>3 DEF Tool
<1>7. result' \in [Procs -> {"none", "returned", "raised"}]
  BY DEF IInv, TypeOK, Tool, Scan, ScanIsOver, BuildOntologyIndex, SearchObjectCatalog,
     AllIds, ScanDelete, ScanAdd, ScanRemove, ScanReturns, ScanRaises, Search
<1>8. TypeOK'
  BY <1>1, <1>2, <1>3, <1>4, <1>5, <1>6, <1>7 DEF IInv, TypeOK, threadVars, dbVars
<1>9. TrackerAfterRefresh' /\ Working' /\ LockOwnership'
  BY <1>1 DEF IInv, TrackerAfterRefresh, Working, LockOwnership, Active, Refreshing, Lock,
     threadVars
<1> QED
  BY <1>8, <1>9 DEF IInv

LEMMA EnvironmentStep ==
    ASSUME IInv, NextDay \/ \E t \in Tables, v \in Versions : ChangeSchema(t, v)
    PROVE  IInv'
<1>1. UNCHANGED <<index, tracker, threadVars, mainVars, crashes, refreshed, alone, scanned>>
  BY DEF NextDay, ChangeSchema
<1>2. /\ schema' \in [Tables -> Versions] /\ dayStart' \in [Tables -> Versions]
      /\ date' \in Days
  BY RefreshAssumption DEF IInv, TypeOK, NextDay, ChangeSchema, Days
<1>3. TypeOK'
  BY <1>1, <1>2 DEF IInv, TypeOK, threadVars, mainVars
<1>4. TrackerAfterRefresh' /\ Working' /\ LockOwnership'
  BY <1>1 DEF IInv, TrackerAfterRefresh, Working, LockOwnership, Active, Refreshing, Lock,
     threadVars
<1> QED
  BY <1>3, <1>4 DEF IInv

LEMMA CrashStep ==
    ASSUME IInv, NEW p \in Procs, Crash(p)
    PROVE  IInv'
<1>1. UNCHANGED <<dbVars, index, tracker, alone, scanned>> /\ refreshed' = StillRecorded
  BY DEF Crash
<1>2. \A w \in Workers :
         IF Owner[w] = p
         THEN pc'[w] = "none" /\ loaded'[w] = EmptyTracker
         ELSE /\ pc'[w] = pc[w] /\ loaded'[w] = loaded[w]
              /\ todo'[w] = todo[w] /\ today'[w] = today[w] /\ doc'[w] = doc[w]
  BY DEF Crash
<1>3. /\ pc' \in [Workers -> {"none", "lock", "load", "fetch", "delete", "add", "save"}]
      /\ todo' \in [Workers -> SUBSET Tables]
      /\ today' \in [Workers -> Days \cup {Never}]
      /\ doc' \in [Workers -> Versions]
      /\ loaded' \in [Workers -> [Tables -> Days \cup {Never}]]
  BY VersionTypes DEF IInv, TypeOK, Crash
<1>4. /\ lock' \in [Procs -> Workers \cup {NoWorker}]
      /\ main' \in [Procs -> {"idle", "ids", "delete", "add", "remove", "built", "search"}]
      /\ searching' \in [Procs -> BOOLEAN]
      /\ snap' \in [Procs -> [Tables -> Versions]]
      /\ gone' \in [Procs -> SUBSET Tables]
      /\ crashes' \in 0..MaxCrashes
      /\ result' \in [Procs -> {"none", "returned", "raised"}]
      /\ refreshed' \in SUBSET (Tables \X Days)
  BY <1>1, VersionTypes, RefreshAssumption DEF IInv, TypeOK, Crash, StillRecorded
<1>5. TypeOK'
  BY <1>1, <1>3, <1>4 DEF IInv, TypeOK, dbVars
<1>6. TrackerAfterRefresh'
  <2>1. \A v \in Workers, t \in Tables : loaded'[v][t] \in {loaded[v][t], Never}
    BY <1>2 DEF EmptyTracker
  <2> QED
    BY <1>1, <2>1, LostTogether DEF IInv
<1>7. Working'
  BY <1>2 DEF IInv, Working, Active, Refreshing
<1>8. LockOwnership'
  <2>1. lock' = [lock EXCEPT ![p] = NoWorker]
    BY DEF Crash
  <2> QED
    BY <1>2, <2>1, RefreshAssumption DEF IInv, TypeOK, LockOwnership, Active, Refreshing, Lock
<1> QED
  BY <1>5, <1>6, <1>7, <1>8 DEF IInv

LEMMA NextIInv == IInv /\ [Next]_vars => IInv'
<1> SUFFICES ASSUME IInv, [Next]_vars PROVE IInv'
  OBVIOUS
<1>1. ASSUME NEW w \in Workers, RefreshWorker(w) PROVE IInv'
  BY <1>1, AcquireStep, LoadTrackerStep, FetchSchemaStep, UpsertDeleteStep, UpsertAddStep,
     SaveTruncateStep, SaveWriteStep DEF RefreshWorker
<1>2. CASE \E p \in Builders : Tool(p) \/ Scan(p)
  BY <1>2, MainStep, RefreshAssumption
<1>3. CASE NextDay \/ \E t \in Changing, v \in Versions : ChangeSchema(t, v)
  BY <1>3, EnvironmentStep, RefreshAssumption
<1>4. CASE UNCHANGED vars
  BY <1>4 DEF IInv, TypeOK, TrackerAfterRefresh, Working, LockOwnership, Active, Refreshing,
     Lock, vars
<1> QED
  BY <1>1, <1>2, <1>3, <1>4, RefreshStaleTablesStep, CrashStep DEF Next

-----------------------------------------------------------------------------
(* OneInv: one process that refreshes, and crashes.                         *)

Fine ==
    /\ DatesInOrder
    /\ TodoIsStale
    /\ DocIsFresh
    /\ OneDocumentPerTable
    /\ TrackedTodayIsFresh
    /\ LoadedIsFresh
    /\ Recorded

LEMMA Numbers ==
    ASSUME TypeOK
    PROVE  /\ date \in Nat
           /\ \A t \in Tables : /\ tracker[t] \in Nat
                                /\ schema[t] \in Nat /\ dayStart[t] \in Nat
           /\ \A w \in Workers : today[w] \in Nat /\ doc[w] \in Nat
           /\ \A w \in Workers, t \in Tables : loaded[w][t] \in Nat
BY RefreshAssumption DEF TypeOK, Days, Never, Versions

LEMMA AloneAtWork ==
    ASSUME OneRefresher, IInv, NEW w \in Workers, Active(w)
    PROVE  \A v \in Workers \ {w} : ~Active(v) /\ ~Refreshing(v)
BY RefreshAssumption DEF OneRefresher, IInv, LockOwnership, Active, Lock

\* A step of the thread that works: what the invariant says of threads needs
\* to be shown for that thread only.
LEMMA OnlyWorker ==
    ASSUME OneRefresher, IInv, NEW w \in Workers, Active(w),
           NEW to, pc' = [pc EXCEPT ![w] = to]
    PROVE  /\ pc'[w] = to
           /\ \A v \in Workers \ {w} : /\ ~Active(v)' /\ ~Refreshing(v)'
                                       /\ pc'[v] \notin {"delete", "add"}
BY AloneAtWork DEF IInv, TypeOK, Active, Refreshing

LEMMA InitFine == Init => Fine
<1> SUFFICES ASSUME Init PROVE Fine
  OBVIOUS
<1>1. \A t \in Tables : schema[t] \in Nat
  BY RefreshAssumption DEF Init, Versions
<1>2. DatesInOrder
  BY <1>1 DEF Init, DatesInOrder, Active, Refreshing, EmptyTracker, Never
<1>3. TodoIsStale /\ DocIsFresh /\ LoadedIsFresh
  BY DEF Init, TodoIsStale, DocIsFresh, LoadedIsFresh, Refreshing
<1>4. OneDocumentPerTable /\ TrackedTodayIsFresh
  BY DEF Init, OneDocumentPerTable, TrackedTodayIsFresh, EmptyTracker, Never
<1>5. Recorded
  BY DEF Init, Recorded
<1> QED
  BY <1>2, <1>3, <1>4, <1>5 DEF Fine

LEMMA RefreshStaleTablesFine ==
    ASSUME IInv, Fine, NEW w \in Workers, NEW names \in SUBSET Tables,
           RefreshStaleTables(w, names)
    PROVE  Fine'
<1>1. /\ UNCHANGED <<schema, date, dayStart, index, tracker, today, loaded, doc,
                     crashes, refreshed>>
      /\ pc[w] = "none" /\ pc' = [pc EXCEPT ![w] = "lock"]
      /\ todo' = [todo EXCEPT ![w] = names]
  BY DEF RefreshStaleTables, dbVars
<1>2. /\ \A v \in Workers : (Active(v)' <=> Active(v)) /\ (Refreshing(v)' <=> Refreshing(v))
      /\ \A v \in Workers : Refreshing(v) => todo'[v] = todo[v] /\ pc'[v] = pc[v]
      /\ ~Refreshing(w)
  BY <1>1 DEF IInv, TypeOK, Active, Refreshing
<1>3. \A v \in Workers : Refreshing(v) => Current(v)' = Current(v)
  BY <1>2 DEF Current
<1>4. DatesInOrder' /\ TodoIsStale' /\ LoadedIsFresh' /\ Recorded'
  BY <1>1, <1>2 DEF Fine, DatesInOrder, TodoIsStale, LoadedIsFresh, Recorded, Fresh
<1>5. DocIsFresh'
  BY <1>1, <1>2, <1>3 DEF Fine, DocIsFresh, Refreshing
<1>6. OneDocumentPerTable' /\ TrackedTodayIsFresh'
  BY <1>1 DEF Fine, OneDocumentPerTable, TrackedTodayIsFresh
<1> QED
  BY <1>4, <1>5, <1>6 DEF Fine

LEMMA AcquireFine ==
    ASSUME OneRefresher, IInv, IInv', Fine, NEW w \in Workers, Acquire(w)
    PROVE  Fine'
<1>1. /\ UNCHANGED <<schema, date, dayStart, index, tracker, loaded, todo, doc,
                     crashes, refreshed>>
      /\ pc[w] = "lock" /\ pc' = [pc EXCEPT ![w] = "load"]
      /\ today' = [today EXCEPT ![w] = date]
      /\ Lock(w) = NoWorker
  BY DEF Acquire, dbVars
<1>2. \A v \in Workers : ~Active(v) /\ ~Refreshing(v)
  BY <1>1, RefreshAssumption DEF OneRefresher, IInv, LockOwnership, Active, Lock
<1>3. /\ today'[w] = date
      /\ \A v \in Workers : ~Refreshing(v)'
      /\ \A v \in Workers \ {w} : ~Active(v)'
  BY <1>1, <1>2 DEF IInv, TypeOK, Active, Refreshing
<1>4. DatesInOrder'
  BY <1>1, <1>3, Numbers DEF IInv, Fine, DatesInOrder
<1>5. TodoIsStale' /\ DocIsFresh' /\ LoadedIsFresh'
  BY <1>3 DEF TodoIsStale, DocIsFresh, LoadedIsFresh, Refreshing
<1>6. OneDocumentPerTable' /\ TrackedTodayIsFresh'
  BY <1>1 DEF Fine, OneDocumentPerTable, TrackedTodayIsFresh
<1>7. Recorded'
  BY <1>1, <1>2, <1>3 DEF Fine, Recorded
<1> QED
  BY <1>4, <1>5, <1>6, <1>7 DEF Fine

LEMMA LoadTrackerFine ==
    ASSUME OneRefresher, IInv, Fine, NEW w \in Workers, LoadTracker(w)
    PROVE  Fine'
<1> DEFINE stale == {t \in todo[w] : tracker[t] # today[w]}
<1>1. /\ UNCHANGED <<schema, date, dayStart, index, tracker, doc, crashes, refreshed>>
      /\ pc[w] = "load" /\ Active(w)
      /\ todo' = [todo EXCEPT ![w] = stale] /\ todo'[w] = stale
  BY DEF IInv, TypeOK, LoadTracker, dbVars, Active
<1>2. OneDocumentPerTable' /\ TrackedTodayIsFresh'
  BY <1>1 DEF Fine, OneDocumentPerTable, TrackedTodayIsFresh
<1>3. \A v \in Workers : ~Refreshing(v)
  BY <1>1, AloneAtWork DEF Refreshing
<1>4. CASE stale = {}
  <2>1. pc' = [pc EXCEPT ![w] = "none"]
    BY <1>4 DEF LoadTracker
  <2>2. \A v \in Workers : ~Active(v)' /\ ~Refreshing(v)'
    BY <1>1, <2>1, OnlyWorker DEF Active, Refreshing
  <2>3. DatesInOrder' /\ TodoIsStale' /\ DocIsFresh' /\ LoadedIsFresh'
    BY <1>1, <2>2 DEF Fine, DatesInOrder, TodoIsStale, DocIsFresh, LoadedIsFresh, Refreshing
  <2>4. Recorded'
    BY <1>1, <1>3, <2>2 DEF Fine, Recorded
  <2> QED
    BY <1>2, <2>3, <2>4 DEF Fine
<1>5. CASE stale # {}
  <2>1. /\ pc' = [pc EXCEPT ![w] = "fetch"]
        /\ loaded' = [loaded EXCEPT ![w] = tracker] /\ loaded'[w] = tracker
        /\ UNCHANGED today
    BY <1>5 DEF LoadTracker, IInv, TypeOK
  <2>2. /\ pc'[w] = "fetch"
        /\ \A v \in Workers \ {w} : /\ ~Active(v)' /\ ~Refreshing(v)'
                                    /\ pc'[v] \notin {"delete", "add"}
    BY <1>1, <2>1, OnlyWorker
  <2>3. DatesInOrder'
    BY <1>1, <2>1, <2>2 DEF Fine, DatesInOrder
  <2>4. TodoIsStale' /\ DocIsFresh'
    BY <1>1, <2>1, <2>2 DEF TodoIsStale, DocIsFresh
  <2>5. LoadedIsFresh'
    BY <1>1, <2>1, <2>2 DEF Fine, TrackedTodayIsFresh, LoadedIsFresh, Fresh
  <2>6. Recorded'
    BY <1>1, <1>3, <2>1, <2>2 DEF Fine, Recorded, Refreshing
  <2> QED
    BY <1>2, <2>3, <2>4, <2>5, <2>6 DEF Fine
<1> QED
  BY <1>4, <1>5

\* A step of a refreshing thread that goes on refreshing, and changes neither
\* the tracker nor its copy nor its date.
LEMMA GoesOn ==
    ASSUME OneRefresher, IInv, Fine, NEW w \in Workers, Refreshing(w),
           NEW to \in {"fetch", "delete", "add"}, pc' = [pc EXCEPT ![w] = to],
           UNCHANGED <<schema, date, dayStart, tracker, loaded, today, crashes, refreshed>>,
           todo'[w] \subseteq todo[w]
    PROVE  DatesInOrder' /\ TodoIsStale' /\ Recorded'
<1>1. /\ pc'[w] = to
      /\ \A v \in Workers \ {w} : ~Active(v)' /\ ~Refreshing(v)'
  BY OnlyWorker DEF Active
<1>2. DatesInOrder'
  BY <1>1 DEF Fine, DatesInOrder, Active
<1>3. TodoIsStale'
  BY <1>1 DEF Fine, TodoIsStale
<1>4. Recorded'
  BY <1>1 DEF Fine, Recorded, Refreshing
<1> QED
  BY <1>2, <1>3, <1>4

LEMMA FetchSchemaFine ==
    ASSUME OneRefresher, IInv, Fine, NEW w \in Workers, NEW raises \in BOOLEAN,
           FetchSchema(w, raises)
    PROVE  Fine'
<1>1. /\ pc[w] = "fetch" /\ Active(w) /\ Refreshing(w) /\ todo[w] # {}
      /\ UNCHANGED <<schema, date, dayStart, index, tracker, loaded, today, crashes, refreshed>>
  BY DEF FetchSchema, Active, Refreshing, dbVars
<1>2. Current(w) \in Tables
  BY <1>1, CurrentInTodo DEF IInv
<1>3. PICK to \in {"fetch", "delete"} :
         /\ pc' = [pc EXCEPT ![w] = to]
         /\ todo'[w] \subseteq todo[w]
         /\ to = "delete" => todo' = todo /\ doc'[w] = schema[Current(w)]
  BY DEF IInv, TypeOK, FetchSchema, SkipTable
<1>4. /\ pc'[w] = to
      /\ \A v \in Workers \ {w} : ~Refreshing(v)' /\ pc'[v] \notin {"delete", "add"}
  BY <1>1, <1>3, OnlyWorker
<1>5. DatesInOrder' /\ TodoIsStale' /\ Recorded'
  BY <1>1, <1>3, GoesOn
<1>6. OneDocumentPerTable' /\ TrackedTodayIsFresh'
  BY <1>1 DEF Fine, OneDocumentPerTable, TrackedTodayIsFresh
<1>7. LoadedIsFresh'
  BY <1>1, <1>4 DEF Fine, LoadedIsFresh, Fresh
<1>8. DocIsFresh'
  <2>1. to = "delete" => Current(w)' = Current(w) /\ doc'[w] >= dayStart[Current(w)]
    BY <1>2, <1>3, Numbers DEF IInv, Fine, DatesInOrder, Current
  <2> QED
    BY <1>1, <1>4, <2>1 DEF DocIsFresh
<1> QED
  BY <1>5, <1>6, <1>7, <1>8 DEF Fine

LEMMA UpsertDeleteFine ==
    ASSUME OneRefresher, IInv, Fine, NEW w \in Workers, NEW raises \in BOOLEAN,
           UpsertDelete(w, raises)
    PROVE  Fine'
<1>1. /\ pc[w] = "delete" /\ Active(w) /\ Refreshing(w)
      /\ UNCHANGED <<schema, date, dayStart, tracker, loaded, today, crashes, refreshed>>
  BY DEF UpsertDelete, Active, Refreshing, dbVars
<1>2. Current(w) \in todo[w] /\ Current(w) \in Tables
  BY <1>1, CurrentInTodo DEF IInv, Working
<1>3. CASE SkipTable(w) /\ UNCHANGED index
  <2>1. pc' = [pc EXCEPT ![w] = "fetch"] /\ todo'[w] \subseteq todo[w]
    BY <1>3 DEF IInv, TypeOK, SkipTable
  <2>2. /\ pc'[w] = "fetch"
        /\ \A v \in Workers \ {w} : ~Refreshing(v)' /\ pc'[v] \notin {"delete", "add"}
    BY <1>1, <2>1, OnlyWorker
  <2>3. DatesInOrder' /\ TodoIsStale' /\ Recorded'
    BY <1>1, <2>1, GoesOn
  <2>4. OneDocumentPerTable' /\ TrackedTodayIsFresh'
    BY <1>1, <1>3 DEF Fine, OneDocumentPerTable, TrackedTodayIsFresh
  <2>5. LoadedIsFresh' /\ DocIsFresh'
    BY <1>1, <1>3, <2>2 DEF Fine, LoadedIsFresh, Fresh, DocIsFresh
  <2> QED
    BY <2>3, <2>4, <2>5 DEF Fine
<1>4. CASE /\ pc' = [pc EXCEPT ![w] = "add"] /\ UNCHANGED <<todo, doc>>
           /\ index' = Without({Current(w)})
  <2>1. /\ pc'[w] = "add"
        /\ \A v \in Workers \ {w} : ~Refreshing(v)' /\ pc'[v] \notin {"delete", "add"}
    BY <1>1, <1>4, OnlyWorker
  <2>2. DatesInOrder' /\ TodoIsStale' /\ Recorded'
    BY <1>1, <1>4, GoesOn
  <2>3. \A t \in Tables : index'[t] = IF t = Current(w) THEN <<>> ELSE index[t]
    BY <1>4 DEF Without
  <2>4. tracker[Current(w)] # date /\ loaded[w][Current(w)] # date
    BY <1>1, <1>2, Numbers DEF IInv, Fine, DatesInOrder, TodoIsStale
  <2>5. OneDocumentPerTable'
    BY <2>3 DEF Fine, OneDocumentPerTable
  <2>6. TrackedTodayIsFresh'
    BY <1>1, <2>3, <2>4 DEF Fine, TrackedTodayIsFresh
  <2>7. LoadedIsFresh'
    BY <1>1, <2>1, <2>3, <2>4 DEF Fine, LoadedIsFresh, Fresh
  <2>8. DocIsFresh'
    <3>1. Current(w)' = Current(w)
      BY <1>4 DEF Current
    <3> QED
      BY <1>1, <1>2, <1>4, <2>1, <2>3, <3>1 DEF Fine, DocIsFresh
  <2> QED
    BY <2>2, <2>5, <2>6, <2>7, <2>8 DEF Fine
<1> QED
  BY <1>3, <1>4 DEF UpsertDelete

LEMMA UpsertAddFine ==
    ASSUME OneRefresher, IInv, Fine, NEW w \in Workers, NEW raises \in BOOLEAN,
           UpsertAdd(w, raises)
    PROVE  Fine'
<1>1. /\ pc[w] = "add" /\ Active(w) /\ Refreshing(w)
      /\ pc' = [pc EXCEPT ![w] = "fetch"]
      /\ todo' = [todo EXCEPT ![w] = @ \ {Current(w)}]
      /\ todo'[w] = todo[w] \ {Current(w)}
      /\ UNCHANGED <<schema, date, dayStart, tracker, today, crashes>>
  BY DEF IInv, TypeOK, UpsertAdd, SkipTable, Active, Refreshing, dbVars
<1>2. Current(w) \in todo[w] /\ Current(w) \in Tables /\ today[w] \in Days
  BY <1>1, CurrentInTodo DEF IInv, Working
<1>3. /\ pc'[w] = "fetch"
      /\ \A v \in Workers \ {w} : /\ ~Active(v)' /\ ~Refreshing(v)'
                                  /\ pc'[v] \notin {"delete", "add"}
  BY <1>1, OnlyWorker
<1>4. DocIsFresh'
  BY <1>3 DEF DocIsFresh
<1>5. CASE UNCHANGED <<index, loaded, refreshed>>
  <2>1. DatesInOrder' /\ TodoIsStale' /\ Recorded'
    BY <1>1, <1>5, GoesOn
  <2>2. OneDocumentPerTable' /\ TrackedTodayIsFresh'
    BY <1>1, <1>5 DEF Fine, OneDocumentPerTable, TrackedTodayIsFresh
  <2>3. LoadedIsFresh'
    BY <1>1, <1>3, <1>5 DEF Fine, LoadedIsFresh, Fresh
  <2> QED
    BY <1>4, <2>1, <2>2, <2>3 DEF Fine
<1>6. CASE /\ index' = WithAdded({Current(w)}, [t \in Tables |-> doc[w]])
           /\ loaded' = [loaded EXCEPT ![w][Current(w)] = today[w]]
           /\ refreshed' = refreshed \cup {<<Current(w), today[w]>>}
  <2>1. \A t \in Tables :
           loaded'[w][t] = IF t = Current(w) THEN today[w] ELSE loaded[w][t]
    BY <1>6 DEF IInv, TypeOK
  <2>2. \A t \in Tables : index'[t] = IF t = Current(w) THEN <<doc[w]>> ELSE index[t]
    <3>1. index[Current(w)] = <<>> /\ doc[w] \in Versions
      BY <1>1 DEF IInv, TypeOK, Fine, DocIsFresh
    <3>2. Append(<<>>, doc[w]) = <<doc[w]>>
      BY <3>1
    <3>3. \A t \in Tables :
             index'[t] = IF t = Current(w) THEN Append(index[t], doc[w]) ELSE index[t]
      BY <1>6 DEF WithAdded
    <3> QED
      BY <3>1, <3>2, <3>3
  <2>3. DatesInOrder'
    BY <1>1, <1>2, <1>3, <2>1, Numbers DEF IInv, Fine, DatesInOrder
  <2>4. TodoIsStale'
    <3>1. \A t \in todo'[w] : t \in Tables /\ t \in todo[w] /\ t # Current(w)
      BY <1>1 DEF IInv, TypeOK
    <3> QED
      BY <1>1, <1>3, <2>1, <3>1 DEF Fine, TodoIsStale
  <2>5. tracker[Current(w)] # date
    BY <1>1, <1>2, Numbers DEF IInv, Fine, DatesInOrder, TodoIsStale
  <2>6. OneDocumentPerTable'
    <3>1. SUFFICES ASSUME NEW t \in Tables PROVE Len(index'[t]) <= 1
      BY DEF OneDocumentPerTable
    <3>2. CASE t = Current(w)
      <4>1. Len(index'[t]) = 1
        BY <2>2, <3>2
      <4> QED
        BY <4>1
    <3>3. CASE t # Current(w)
      BY <2>2, <3>3 DEF Fine, OneDocumentPerTable
    <3> QED
      BY <3>2, <3>3
  <2>7. TrackedTodayIsFresh'
    BY <1>1, <2>2, <2>5 DEF Fine, TrackedTodayIsFresh
  <2>8. LoadedIsFresh'
    <3>1. today[w] = date => doc[w] >= dayStart[Current(w)]
      BY <1>1 DEF Fine, DocIsFresh
    <3>2. SUFFICES ASSUME NEW t \in Tables, loaded'[w][t] = date
                   PROVE  Fresh(t)'
      BY <1>1, <1>3 DEF LoadedIsFresh
    <3>3. CASE t = Current(w)
      BY <1>1, <2>1, <2>2, <3>1, <3>2, <3>3 DEF Fresh
    <3>4. CASE t # Current(w)
      BY <1>1, <2>1, <2>2, <3>2, <3>4 DEF Fine, LoadedIsFresh, Fresh
    <3> QED
      BY <3>3, <3>4
  <2>9. Recorded'
    <3>1. \A t \in Tables : loaded[w][t] <= loaded'[w][t]
      BY <1>1, <1>2, <2>1, Numbers DEF IInv, Fine, DatesInOrder
    <3>2. SUFFICES ASSUME NEW t \in Tables, NEW d \in Days, <<t, d>> \in refreshed'
                   PROVE  d <= loaded'[w][t]
      BY <1>1, <1>3 DEF Recorded, Refreshing
    <3>3. CASE <<t, d>> \in refreshed
      <4>1. d <= loaded[w][t] /\ d \in Nat
        BY <1>1, <3>2, <3>3 DEF Fine, Recorded, Days
      <4>2. loaded[w][t] \in Nat /\ loaded'[w][t] \in Nat
        BY <1>2, <2>1, Numbers DEF IInv, Days
      <4> QED
        BY <3>1, <4>1, <4>2
    <3>4. CASE t = Current(w) /\ d = today[w]
      BY <2>1, <3>4, Numbers DEF IInv
    <3> QED
      BY <1>6, <3>2, <3>3, <3>4
  <2> QED
    BY <1>4, <2>3, <2>4, <2>6, <2>7, <2>8, <2>9 DEF Fine
<1> QED
  BY <1>5, <1>6 DEF UpsertAdd

LEMMA SaveRaisesFine ==
    ASSUME OneRefresher, IInv, Fine, NEW w \in Workers, Active(w), ThreadEnds(w),
           tracker' \in {tracker, EmptyTracker}, refreshed' = StillRecorded,
           UNCHANGED <<schema, date, dayStart, index>>
    PROVE  Fine'
<1>1. /\ pc' = [pc EXCEPT ![w] = "none"]
      /\ loaded' = [loaded EXCEPT ![w] = EmptyTracker]
  BY DEF ThreadEnds
<1>2. \A v \in Workers : ~Active(v)' /\ ~Refreshing(v)'
  BY <1>1, OnlyWorker DEF Active, Refreshing
<1>3. \A t \in Tables : tracker'[t] \in {tracker[t], 0}
  BY DEF EmptyTracker, Never
<1>4. DatesInOrder'
  BY <1>2, <1>3, Numbers DEF IInv, Fine, DatesInOrder
<1>5. TodoIsStale' /\ DocIsFresh' /\ LoadedIsFresh'
  BY <1>2 DEF TodoIsStale, DocIsFresh, LoadedIsFresh, Refreshing
<1>6. OneDocumentPerTable' /\ TrackedTodayIsFresh'
  BY <1>3, RefreshAssumption DEF IInv, TypeOK, Days, Fine, OneDocumentPerTable,
     TrackedTodayIsFresh
<1>7. \A v \in Workers, t \in Tables : loaded'[v][t] = 0
  BY <1>1, AloneAtWork DEF IInv, TypeOK, Working, EmptyTracker, Never
<1>8. Recorded'
  BY <1>2, <1>7 DEF Recorded, StillRecorded, Days
<1> QED
  BY <1>4, <1>5, <1>6, <1>8 DEF Fine

LEMMA SaveTruncateFine ==
    ASSUME OneRefresher, IInv, Fine, NEW w \in Workers, NEW raises \in BOOLEAN,
           SaveTruncate(w, raises)
    PROVE  Fine'
<1>1. /\ Active(w) /\ Refreshing(w) /\ todo[w] = {}
      /\ UNCHANGED <<schema, date, dayStart, index, todo, doc>>
  BY DEF SaveTruncate, Active, Refreshing, dbVars
<1>2. CASE raises
  BY <1>1, <1>2, SaveRaisesFine DEF SaveTruncate
<1>3. CASE ~raises
  <2>1. /\ pc' = [pc EXCEPT ![w] = "save"]
        /\ tracker' = EmptyTracker
        /\ UNCHANGED <<today, loaded, refreshed>>
    BY <1>3 DEF SaveTruncate
  <2>2. /\ pc'[w] = "save"
        /\ \A v \in Workers \ {w} : /\ ~Active(v)' /\ ~Refreshing(v)'
                                    /\ pc'[v] \notin {"delete", "add"}
    BY <1>1, <2>1, OnlyWorker
  <2>3. \A t \in Tables : tracker'[t] = 0
    BY <2>1 DEF EmptyTracker, Never
  <2>4. DatesInOrder'
    BY <1>1, <2>1, <2>2, <2>3, Numbers DEF IInv, Fine, DatesInOrder
  <2>5. TodoIsStale' /\ DocIsFresh'
    BY <1>1, <2>1, <2>2 DEF TodoIsStale, DocIsFresh
  <2>6. OneDocumentPerTable' /\ LoadedIsFresh'
    BY <1>1, <2>1, <2>2 DEF Fine, OneDocumentPerTable, LoadedIsFresh, Fresh
  <2>7. TrackedTodayIsFresh'
    BY <1>1, <2>3, RefreshAssumption DEF IInv, TypeOK, Days, TrackedTodayIsFresh
  <2>8. Recorded'
    BY <1>1, <2>1, <2>2 DEF Fine, Recorded, Refreshing
  <2> QED
    BY <2>4, <2>5, <2>6, <2>7, <2>8 DEF Fine
<1> QED
  BY <1>2, <1>3

LEMMA SaveWriteFine ==
    ASSUME OneRefresher, IInv, Fine, NEW w \in Workers, NEW raises \in BOOLEAN,
           SaveWrite(w, raises)
    PROVE  Fine'
<1>1. /\ Active(w) /\ Refreshing(w) /\ ThreadEnds(w)
      /\ UNCHANGED <<schema, date, dayStart, index>>
  BY DEF SaveWrite, Active, Refreshing, dbVars
<1>2. CASE raises
  BY <1>1, <1>2, SaveRaisesFine DEF SaveWrite
<1>3. CASE ~raises
  <2>1. pc' = [pc EXCEPT ![w] = "none"] /\ tracker' = loaded[w] /\ UNCHANGED refreshed
    BY <1>1, <1>3 DEF SaveWrite, ThreadEnds
  <2>2. \A v \in Workers : ~Active(v)' /\ ~Refreshing(v)'
    BY <1>1, <2>1, OnlyWorker DEF Active, Refreshing
  <2>3. DatesInOrder'
    BY <1>1, <2>1, <2>2, Numbers DEF IInv, Fine, DatesInOrder
  <2>4. TodoIsStale' /\ DocIsFresh' /\ LoadedIsFresh'
    BY <2>2 DEF TodoIsStale, DocIsFresh, LoadedIsFresh, Refreshing
  <2>5. OneDocumentPerTable'
    BY <1>1 DEF Fine, OneDocumentPerTable
  <2>6. TrackedTodayIsFresh'
    BY <1>1, <2>1 DEF Fine, LoadedIsFresh, Fresh, TrackedTodayIsFresh
  <2>7. Recorded'
    BY <1>1, <2>1, <2>2 DEF Fine, Recorded
  <2> QED
    BY <2>3, <2>4, <2>5, <2>6, <2>7 DEF Fine
<1> QED
  BY <1>2, <1>3

LEMMA ChangeSchemaFine ==
    ASSUME IInv, Fine, NEW t \in Tables, NEW v \in Versions, ChangeSchema(t, v)
    PROVE  Fine'
<1>1. /\ UNCHANGED <<date, dayStart, index, tracker, pc, todo, today, loaded, doc,
                     crashes, refreshed>>
      /\ \A u \in Tables : schema[u] <= schema'[u] /\ schema'[u] \in Nat
  BY RefreshAssumption DEF IInv, TypeOK, ChangeSchema, threadVars, Versions
<1>2. DatesInOrder'
  BY <1>1, Numbers DEF IInv, Fine, DatesInOrder, Active, Refreshing
<1>3. TodoIsStale' /\ LoadedIsFresh' /\ Recorded'
  BY <1>1 DEF Fine, TodoIsStale, LoadedIsFresh, Recorded, Refreshing, Fresh
<1>4. DocIsFresh'
  BY <1>1 DEF Fine, DocIsFresh, Current
<1>5. OneDocumentPerTable' /\ TrackedTodayIsFresh'
  BY <1>1 DEF Fine, OneDocumentPerTable, TrackedTodayIsFresh
<1> QED
  BY <1>2, <1>3, <1>4, <1>5 DEF Fine

LEMMA NextDayFine ==
    ASSUME IInv, Fine, NextDay
    PROVE  Fine'
<1>1. /\ UNCHANGED <<schema, index, tracker, pc, todo, today, loaded, doc,
                     crashes, refreshed>>
      /\ date' = date + 1 /\ dayStart' = schema
  BY DEF NextDay, threadVars
<1>2. /\ \A t \in Tables : tracker[t] # date'
      /\ \A w \in Workers : Active(w) => today[w] # date'
      /\ \A w \in Workers, t \in Tables : Refreshing(w) => loaded[w][t] # date'
  BY <1>1, Numbers DEF IInv, Fine, DatesInOrder, Active
<1>3. DatesInOrder'
  BY <1>1, Numbers DEF IInv, Fine, DatesInOrder, Active, Refreshing
<1>4. TodoIsStale' /\ Recorded' /\ OneDocumentPerTable'
  BY <1>1 DEF Fine, TodoIsStale, Recorded, OneDocumentPerTable, Refreshing
<1>5. TrackedTodayIsFresh' /\ LoadedIsFresh'
  BY <1>1, <1>2 DEF TrackedTodayIsFresh, LoadedIsFresh, Refreshing
<1>6. DocIsFresh'
  BY <1>1, <1>2 DEF Fine, DocIsFresh, Current, Active, Refreshing
<1> QED
  BY <1>3, <1>4, <1>5, <1>6 DEF Fine

LEMMA CrashFine ==
    ASSUME OneRefresher, IInv, Fine, NEW p \in Procs, Crash(p)
    PROVE  Fine'
<1>1. /\ UNCHANGED <<schema, date, dayStart, index, tracker>>
      /\ refreshed' = StillRecorded
  BY DEF Crash, dbVars
<1>2. \A w \in Workers :
         IF Owner[w] = p
         THEN pc'[w] = "none" /\ loaded'[w] = EmptyTracker
         ELSE /\ pc'[w] = pc[w] /\ loaded'[w] = loaded[w]
              /\ todo'[w] = todo[w] /\ today'[w] = today[w] /\ doc'[w] = doc[w]
  BY DEF Crash
<1>3. DatesInOrder' /\ TodoIsStale' /\ LoadedIsFresh'
  BY <1>1, <1>2 DEF Fine, DatesInOrder, TodoIsStale, LoadedIsFresh, Active, Refreshing, Fresh
<1>4. DocIsFresh'
  <2>1. \A w \in Workers : Owner[w] # p => Current(w)' = Current(w)
    BY <1>2 DEF Current
  <2> QED
    BY <1>1, <1>2, <2>1 DEF Fine, DocIsFresh
<1>5. OneDocumentPerTable' /\ TrackedTodayIsFresh'
  BY <1>1 DEF Fine, OneDocumentPerTable, TrackedTodayIsFresh
<1>6. Recorded'
  <2>1. CASE \A w \in Workers : Owner[w] = p
    <3>1. \A w \in Workers, t \in Tables : ~Refreshing(w)' /\ loaded'[w][t] = 0
      BY <1>2, <2>1 DEF Refreshing, EmptyTracker, Never
    <3> QED
      BY <1>1, <3>1 DEF Recorded, StillRecorded, Days
  <2>2. CASE \A w \in Workers : Owner[w] # p
    <3>1. \A w \in Workers : (Refreshing(w)' <=> Refreshing(w)) /\ loaded'[w] = loaded[w]
      BY <1>2, <2>2 DEF Refreshing
    <3> QED
      BY <1>1, <3>1 DEF Fine, Recorded, StillRecorded
  <2> QED
    BY <2>1, <2>2 DEF OneRefresher
<1> QED
  BY <1>3, <1>4, <1>5, <1>6 DEF Fine

LEMMA OneInvIsInductive ==
    ASSUME OneRefresher
    PROVE  (Init => OneInv) /\ (OneInv /\ [Next]_vars => OneInv')
<1>1. OneInv <=> IInv /\ Fine
  BY DEF OneInv, Fine
<1>2. OneInv' <=> IInv' /\ Fine'
  BY DEF OneInv, Fine
<1>3. ASSUME IInv, Fine, [Next]_vars PROVE IInv' /\ Fine'
  <2>1. IInv'
    BY <1>3, NextIInv
  <2>2. ASSUME NEW w \in Workers, RefreshWorker(w) PROVE Fine'
    BY <1>3, <2>1, <2>2, AcquireFine, LoadTrackerFine, FetchSchemaFine, UpsertDeleteFine,
       UpsertAddFine, SaveTruncateFine, SaveWriteFine DEF RefreshWorker
  <2>3. ASSUME NEW t \in Changing, NEW v \in Versions, ChangeSchema(t, v) PROVE Fine'
    <3>1. t \in Tables
      BY RefreshAssumption
    <3> QED
      BY <1>3, <2>3, <3>1, ChangeSchemaFine
  <2>4. CASE UNCHANGED vars
    <3>1. \A w \in Workers : Current(w)' = Current(w)
      BY <2>4 DEF vars, Current
    <3>2. DocIsFresh'
      BY <1>3, <2>4, <3>1 DEF vars, Fine, DocIsFresh
    <3>3. DatesInOrder' /\ TodoIsStale' /\ LoadedIsFresh' /\ Recorded'
      BY <1>3, <2>4 DEF vars, Fine, DatesInOrder, TodoIsStale, LoadedIsFresh, Recorded,
         Active, Refreshing, Fresh
    <3>4. OneDocumentPerTable' /\ TrackedTodayIsFresh'
      BY <1>3, <2>4 DEF vars, Fine, OneDocumentPerTable, TrackedTodayIsFresh
    <3> QED
      BY <2>1, <3>2, <3>3, <3>4 DEF Fine
  <2> QED
    BY <1>3, <2>1, <2>2, <2>3, <2>4, RefreshStaleTablesFine, NextDayFine, CrashFine
       DEF Next, OneRefresher
<1> QED
  BY <1>1, <1>2, <1>3, InitIInv, InitFine

\* A thread never notes a date again that is still recorded.
LEMMA NoDoubleRefresh ==
    ASSUME OneInv, NEW w \in Workers, Next, Refreshes(w)
    PROVE  <<Current(w), today[w]>> \notin refreshed
<1>1. /\ Refreshing(w) /\ Active(w)
      /\ Current(w) \in todo[w] /\ Current(w) \in Tables /\ today[w] \in Days
  BY CurrentInTodo DEF OneInv, IInv, Working, Refreshes, Active, Refreshing
<1>2. /\ loaded[w][Current(w)] # today[w]
      /\ loaded[w][Current(w)] <= today[w]
      /\ loaded[w][Current(w)] \in Nat /\ today[w] \in Nat
  BY <1>1, Numbers DEF OneInv, IInv, TodoIsStale, DatesInOrder
<1>3. <<Current(w), today[w]>> \in refreshed => today[w] <= loaded[w][Current(w)]
  BY <1>1 DEF OneInv, Recorded
<1> QED
  BY <1>2, <1>3

-----------------------------------------------------------------------------
(* A scan that has the index for itself.                                    *)

Scanning(p) == main[p] \in {"ids", "delete", "add", "remove", "built"}

\* alone[p] means what it says: the others do not touch the index.
Exclusive ==
    \A p \in Procs : alone[p] /\ Scanning(p) =>
        /\ \A w \in Workers : pc[w] \in {"none", "lock"}
        /\ \A q \in Procs \ {p} : ~Scanning(q)

\* What the index holds besides the tables of the scan is to be removed.
LeftoversAreGone(p) == \A t \in Tables \ Scanned(p) : Indexed(t) => t \in gone[p]

HoldsSnapshot(p) == \A t \in Scanned(p) : index[t] = <<snap[p][t]>>

\* How far a scan has come, step by step.
Progress(p) ==
    /\ main[p] \in {"delete", "add", "remove"} =>
          LeftoversAreGone(p) /\ gone[p] \cap Scanned(p) = {}
    /\ main[p] = "add" => \A t \in Scanned(p) : ~Indexed(t)
    /\ main[p] \in {"remove", "built"} => HoldsSnapshot(p)
    /\ main[p] = "built" => \A t \in Tables \ Scanned(p) : ~Indexed(t)

ScanInv ==
    /\ Exclusive
    /\ \A p \in Procs : alone[p] /\ Scanning(p) => Progress(p)

\* When nobody is alone there is nothing to show.
LEMMA NobodyAlone ==
    ASSUME \A p \in Procs : ~(alone'[p] /\ Scanning(p)')
    PROVE  ScanInv'
BY DEF ScanInv, Exclusive

\* A step that leaves the index alone, and starts or advances no scan.
LEMMA ScanUndisturbed ==
    ASSUME ScanInv, index' = index,
           \A p \in Procs : alone'[p] => alone[p],
           \A p \in Procs : Scanning(p)' =>
               main'[p] = main[p] /\ snap'[p] = snap[p] /\ gone'[p] = gone[p],
           \A w \in Workers : pc[w] \in {"none", "lock"} => pc'[w] \in {"none", "lock"}
    PROVE  ScanInv'
<1>1. \A p \in Procs : Scanning(p)' => Scanning(p)
  BY DEF Scanning
<1>2. Exclusive'
  BY <1>1 DEF ScanInv, Exclusive
<1>3. ASSUME NEW p \in Procs, alone'[p], Scanning(p)'
      PROVE  Progress(p)'
  <2>1. Progress(p)
    BY <1>1, <1>3 DEF ScanInv
  <2>2. main'[p] = main[p] /\ Scanned(p)' = Scanned(p) /\ gone'[p] = gone[p]
    BY <1>3 DEF Scanned
  <2>3. LeftoversAreGone(p)' = LeftoversAreGone(p) /\ HoldsSnapshot(p)' = HoldsSnapshot(p)
    BY <1>3, <2>2 DEF LeftoversAreGone, HoldsSnapshot, Indexed
  <2> QED
    BY <2>1, <2>2, <2>3 DEF Progress, Indexed
<1> QED
  BY <1>2, <1>3 DEF ScanInv

LEMMA WorkerScan ==
    ASSUME TypeOK, ScanInv, NEW w \in Workers, RefreshWorker(w)
    PROVE  ScanInv'
<1>1. CASE Acquire(w)
  BY <1>1, NobodyAlone DEF Acquire
<1>2. ASSUME NEW raises \in BOOLEAN, UpsertDelete(w, raises) \/ UpsertAdd(w, raises)
      PROVE  ScanInv'
  <2>1. pc[w] \in {"delete", "add"} /\ UNCHANGED <<main, alone>>
    BY <1>2 DEF UpsertDelete, UpsertAdd, mainVars
  <2>2. \A p \in Procs : ~(alone[p] /\ Scanning(p))
    BY <2>1 DEF ScanInv, Exclusive
  <2> QED
    BY <2>1, <2>2, NobodyAlone DEF Scanning
<1>3. CASE \/ LoadTracker(w)
           \/ \E raises \in BOOLEAN :
                 FetchSchema(w, raises) \/ SaveTruncate(w, raises) \/ SaveWrite(w, raises)
  <2>1. UNCHANGED <<index, alone, main, snap, gone>>
    BY <1>3 DEF LoadTracker, SaveTruncate, SaveWrite, FetchSchema, mainVars
  <2>2. /\ pc[w] \notin {"none", "lock"}
        /\ \A v \in Workers \ {w} : pc'[v] = pc[v]
    BY <1>3 DEF TypeOK, LoadTracker, SaveTruncate, SaveWrite, FetchSchema, SkipTable, ThreadEnds
  <2> QED
    BY <2>1, <2>2, ScanUndisturbed
<1> QED
  BY <1>1, <1>2, <1>3 DEF RefreshWorker

\* A scan that begins knows whether it is alone.
LEMMA StartScanScan ==
    ASSUME TypeOK, ScanInv, NEW p \in Procs, StartScan(p), index' = index, pc' = pc
    PROVE  ScanInv'
<1>1. /\ main' = [main EXCEPT ![p] = "ids"]
      /\ alone'[p] => /\ \A w \in Workers : pc[w] \in {"none", "lock"}
                      /\ \A q \in Procs \ {p} : ~Scanning(q)
      /\ \A q \in Procs \ {p} : ~alone'[q]
  BY DEF StartScan, Scanning
<1>2. main'[p] = "ids" /\ \A q \in Procs \ {p} : main'[q] = main[q]
  BY <1>1 DEF TypeOK
<1>3. Exclusive'
  BY <1>1, <1>2 DEF Exclusive, Scanning
<1>4. Progress(p)'
  BY <1>2 DEF Progress
<1> QED
  BY <1>1, <1>3, <1>4 DEF ScanInv

\* The process that scans goes on, and no other process is alone.
LEMMA ScanAdvances ==
    ASSUME TypeOK, ScanInv, NEW p \in Procs, Scanning(p),
           NEW to \in {"delete", "add", "remove", "built"},
           main' = [main EXCEPT ![p] = to], UNCHANGED <<pc, alone>>,
           alone[p] => Progress(p)'
    PROVE  ScanInv'
<1>1. main'[p] = to /\ \A q \in Procs \ {p} : main'[q] = main[q]
  BY DEF TypeOK
<1>2. \A q \in Procs \ {p} : ~(alone[q] /\ Scanning(q))
  BY DEF ScanInv, Exclusive
<1>3. Exclusive'
  BY <1>1, <1>2 DEF ScanInv, Exclusive, Scanning
<1> QED
  BY <1>1, <1>2, <1>3 DEF ScanInv, Scanning

LEMMA AllIdsScan ==
    ASSUME TypeOK, ScanInv, NEW p \in Procs, AllIds(p)
    PROVE  ScanInv'
<1>1. /\ main[p] = "ids" /\ UNCHANGED <<index, snap, pc, alone>>
      /\ gone'[p] = {t \in Tables : Indexed(t)} \ Scanned(p)
      /\ main' = [main EXCEPT ![p] = IF Scanned(p) = {} THEN "remove" ELSE "delete"]
      /\ main'[p] = IF Scanned(p) = {} THEN "remove" ELSE "delete"
  BY DEF AllIds, TypeOK, threadVars
<1>2. Scanned(p)' = Scanned(p)
  BY <1>1 DEF Scanned
<1>3. LeftoversAreGone(p)' /\ gone'[p] \cap Scanned(p)' = {}
  BY <1>1, <1>2 DEF LeftoversAreGone, Indexed
<1>4. main'[p] = "remove" => HoldsSnapshot(p)'
  BY <1>1, <1>2 DEF HoldsSnapshot
<1>5. Progress(p)'
  BY <1>1, <1>3, <1>4 DEF Progress
<1> QED
  BY <1>1, <1>5, ScanAdvances DEF Scanning

LEMMA ScanDeleteScan ==
    ASSUME TypeOK, ScanInv, NEW p \in Procs, ScanDelete(p)
    PROVE  ScanInv'
<1>1. /\ main[p] = "delete" /\ main'[p] = "add" /\ UNCHANGED <<snap, gone, pc, alone>>
      /\ main' = [main EXCEPT ![p] = "add"]
      /\ index' = Without(Scanned(p))
  BY DEF ScanDelete, TypeOK, threadVars
<1>2. Scanned(p)' = Scanned(p) /\ Scanned(p) \subseteq Tables
  BY <1>1 DEF Scanned
<1>3. ASSUME alone[p] PROVE Progress(p)'
  <2>1. LeftoversAreGone(p) /\ gone[p] \cap Scanned(p) = {}
    BY <1>1, <1>3 DEF ScanInv, Progress, Scanning
  <2>2. LeftoversAreGone(p)' /\ gone'[p] \cap Scanned(p)' = {}
    BY <1>1, <1>2, <2>1 DEF LeftoversAreGone, Indexed, Without
  <2>3. \A t \in Scanned(p)' : ~Indexed(t)'
    BY <1>1, <1>2 DEF Indexed, Without
  <2> QED
    BY <1>1, <2>2, <2>3 DEF Progress
<1> QED
  BY <1>1, <1>3, ScanAdvances DEF Scanning

LEMMA ScanAddScan ==
    ASSUME TypeOK, ScanInv, NEW p \in Procs, ScanAdd(p)
    PROVE  ScanInv'
<1>1. /\ main[p] = "add" /\ main'[p] = "remove" /\ UNCHANGED <<snap, gone, pc, alone>>
      /\ main' = [main EXCEPT ![p] = "remove"]
      /\ index' = WithAdded(Scanned(p), snap[p])
  BY DEF ScanAdd, TypeOK, threadVars
<1>2. Scanned(p)' = Scanned(p) /\ Scanned(p) \subseteq Tables
  BY <1>1 DEF Scanned
<1>3. ASSUME alone[p] PROVE Progress(p)'
  <2>1. /\ LeftoversAreGone(p) /\ gone[p] \cap Scanned(p) = {}
        /\ \A t \in Scanned(p) : index[t] = <<>>
    BY <1>1, <1>3 DEF ScanInv, Progress, Scanning, Indexed
  <2>2. LeftoversAreGone(p)' /\ gone'[p] \cap Scanned(p)' = {}
    BY <1>1, <1>2, <2>1 DEF LeftoversAreGone, Indexed, WithAdded
  <2>3. HoldsSnapshot(p)'
    <3>1. ASSUME NEW t \in Scanned(p) PROVE index'[t] = <<snap[p][t]>>
      <4>1. index'[t] = Append(<<>>, snap[p][t])
        BY <1>1, <1>2, <2>1 DEF WithAdded
      <4> QED
        BY <4>1
    <3> QED
      BY <1>1, <1>2, <3>1 DEF HoldsSnapshot
  <2> QED
    BY <1>1, <2>2, <2>3 DEF Progress
<1> QED
  BY <1>1, <1>3, ScanAdvances DEF Scanning

LEMMA ScanRemoveScan ==
    ASSUME TypeOK, ScanInv, NEW p \in Procs, ScanRemove(p)
    PROVE  ScanInv'
<1>1. /\ main[p] = "remove" /\ main'[p] = "built" /\ UNCHANGED <<snap, gone, pc, alone>>
      /\ main' = [main EXCEPT ![p] = "built"]
      /\ index' = Without(gone[p])
  BY DEF ScanRemove, TypeOK, threadVars
<1>2. Scanned(p)' = Scanned(p) /\ Scanned(p) \subseteq Tables
  BY <1>1 DEF Scanned
<1>3. ASSUME alone[p] PROVE Progress(p)'
  <2>1. LeftoversAreGone(p) /\ gone[p] \cap Scanned(p) = {} /\ HoldsSnapshot(p)
    BY <1>1, <1>3 DEF ScanInv, Progress, Scanning
  <2>2. \A t \in Tables \ Scanned(p)' : ~Indexed(t)'
    BY <1>1, <1>2, <2>1 DEF LeftoversAreGone, Indexed, Without
  <2>3. HoldsSnapshot(p)'
    BY <1>1, <1>2, <2>1 DEF HoldsSnapshot, Without
  <2> QED
    BY <1>1, <2>2, <2>3 DEF Progress
<1> QED
  BY <1>1, <1>3, ScanAdvances DEF Scanning

LEMMA NextScanInv == TypeOK /\ ScanInv /\ [Next]_vars => ScanInv'
<1> SUFFICES ASSUME TypeOK, ScanInv, [Next]_vars PROVE ScanInv'
  OBVIOUS
<1> USE RefreshAssumption
<1>1. ASSUME NEW w \in Workers, NEW names \in SUBSET Tables, RefreshStaleTables(w, names)
      PROVE  ScanInv'
  <2>1. UNCHANGED <<index, alone, main, snap, gone>>
    BY <1>1 DEF RefreshStaleTables, mainVars
  <2>2. \A v \in Workers : pc[v] \in {"none", "lock"} => pc'[v] \in {"none", "lock"}
    BY <1>1 DEF TypeOK, RefreshStaleTables
  <2> QED
    BY <2>1, <2>2, ScanUndisturbed
<1>2. ASSUME NEW w \in Workers, RefreshWorker(w) PROVE ScanInv'
  BY <1>2, WorkerScan
<1>3. ASSUME NEW p \in Procs, Tool(p) PROVE ScanInv'
  <2>1. index' = index /\ pc' = pc /\ gone' = gone
    BY <1>3 DEF Tool, BuildOntologyIndex, SearchObjectCatalog, threadVars
  <2>2. CASE StartScan(p)
    BY <2>1, <2>2, StartScanScan
  <2>3. CASE /\ \E to \in {"idle", "search"} : main' = [main EXCEPT ![p] = to]
             /\ UNCHANGED <<snap, alone>>
    <3>1. \A q \in Procs : Scanning(q)' => main'[q] = main[q]
      BY <2>3 DEF TypeOK, Scanning
    <3> QED
      BY <2>1, <2>3, <3>1, ScanUndisturbed
  <2> QED
    BY <1>3, <2>2, <2>3 DEF Tool, BuildOntologyIndex, SearchObjectCatalog
<1>4. ASSUME NEW p \in Procs, \/ ScanReturns(p) \/ ScanRaises(p)
                              \/ \E raises \in BOOLEAN : Search(p, raises)
      PROVE  ScanInv'
  <2>1. UNCHANGED <<index, pc, alone>>
    BY <1>4 DEF ScanReturns, ScanRaises, Search, threadVars
  <2>2. \A q \in Procs : Scanning(q)' =>
            main'[q] = main[q] /\ snap'[q] = snap[q] /\ gone'[q] = gone[q]
    BY <1>4 DEF TypeOK, ScanReturns, ScanRaises, Search, ScanIsOver, Scanning
  <2> QED
    BY <2>1, <2>2, ScanUndisturbed
<1>5. ASSUME NEW p \in Procs, Scan(p) PROVE ScanInv'
  BY <1>4, <1>5, AllIdsScan, ScanDeleteScan, ScanAddScan, ScanRemoveScan DEF Scan
<1>6. CASE NextDay \/ (\E t \in Changing, v \in Versions : ChangeSchema(t, v))
           \/ UNCHANGED vars
  <2>1. UNCHANGED <<index, pc, alone, main, snap, gone>>
    BY <1>6 DEF NextDay, ChangeSchema, vars, threadVars, mainVars
  <2> QED
    BY <2>1, ScanUndisturbed
<1>7. ASSUME NEW p \in Procs, Crash(p) PROVE ScanInv'
  <2>1. UNCHANGED <<index, alone>>
    BY <1>7 DEF Crash
  <2>2. \A q \in Procs : Scanning(q)' =>
            main'[q] = main[q] /\ snap'[q] = snap[q] /\ gone'[q] = gone[q]
    BY <1>7 DEF TypeOK, Crash, Scanning
  <2>3. \A w \in Workers : pc'[w] \in {"none", pc[w]}
    BY <1>7 DEF TypeOK, Crash
  <2> QED
    BY <2>1, <2>2, <2>3, ScanUndisturbed
<1> QED
  BY <1>1, <1>2, <1>3, <1>5, <1>6, <1>7 DEF Next, Tool

LEMMA ScanMirrors == TypeOK /\ ScanInv => ScanAloneMirrorsSchema
<1> SUFFICES ASSUME TypeOK, ScanInv, NEW p \in Procs, main[p] = "built", alone[p],
                    NEW t \in Tables
             PROVE  index[t] = IF Present(snap[p][t]) THEN <<snap[p][t]>> ELSE <<>>
  BY DEF ScanAloneMirrorsSchema
<1>1. HoldsSnapshot(p) /\ \A u \in Tables \ Scanned(p) : ~Indexed(u)
  BY DEF ScanInv, Progress, Scanning
<1> QED
  BY <1>1 DEF HoldsSnapshot, Scanned, Indexed

-----------------------------------------------------------------------------
(* The theorems.                                                            *)

\* The general invariant holds in every reachable state.
THEOREM Invariance == Spec => []IInv
<1> QED
  BY InitIInv, NextIInv, PTL DEF Spec

\* Every variable keeps its type, for any number of processes, threads and
\* tables.
THEOREM TypeCorrect == Spec => []TypeOK
<1>1. IInv => TypeOK
  BY DEF IInv
<1> QED
  BY <1>1, Invariance, PTL

\* The tracker never runs ahead of the index, whatever crashes and other
\* processes do in between.
THEOREM TrackerBehindIndex == Spec => []TrackerAfterRefresh
<1>1. IInv => TrackerAfterRefresh
  BY DEF IInv
<1> QED
  BY <1>1, Invariance, PTL

\* A scan that had the index for itself leaves it as the schema it read, for
\* any number of processes, threads and crashes, whatever it found.
THEOREM ScanMirrorsSchema == Spec => []ScanAloneMirrorsSchema
<1>1. Init => ScanInv
  BY DEF Init, ScanInv, Exclusive
<1> QED
  BY <1>1, TypeCorrect, NextScanInv, ScanMirrors, PTL DEF Spec

\* With one process that refreshes, a date in the tracker can be trusted: the
\* table has one document, not older than the schema of that morning.
THEOREM TrackerCanBeTrusted == OneRefresher => (Spec => []TrackedTodayIsFresh)
<1> SUFFICES ASSUME OneRefresher PROVE Spec => []TrackedTodayIsFresh
  OBVIOUS
<1>1. Init => OneInv
  BY OneInvIsInductive
<1>2. OneInv /\ [Next]_vars => OneInv'
  BY OneInvIsInductive
<1>3. OneInv => TrackedTodayIsFresh
  BY DEF OneInv
<1> QED
  BY <1>1, <1>2, <1>3, PTL DEF Spec

\* With one process that refreshes, no table has two documents.
THEOREM NoDuplicates == OneRefresher => (Spec => []OneDocumentPerTable)
<1> SUFFICES ASSUME OneRefresher PROVE Spec => []OneDocumentPerTable
  OBVIOUS
<1>1. Init => OneInv
  BY OneInvIsInductive
<1>2. OneInv /\ [Next]_vars => OneInv'
  BY OneInvIsInductive
<1>3. OneInv => OneDocumentPerTable
  BY DEF OneInv
<1> QED
  BY <1>1, <1>2, <1>3, PTL DEF Spec

\* With one process that refreshes, a table is refreshed again for a date only
\* when a crash or a failed save has lost the first refresh, for any number of
\* threads, tables, days, crashes and failed saves.
THEOREM RefreshedOnce == OneRefresher => (Spec => OncePerRecordedDate)
<1> SUFFICES ASSUME OneRefresher PROVE Spec => OncePerRecordedDate
  OBVIOUS
<1>1. Init => OneInv
  BY OneInvIsInductive
<1>2. OneInv /\ [Next]_vars => OneInv'
  BY OneInvIsInductive
<1>3. OneInv /\ [Next]_vars =>
         [\A w \in Workers : Refreshes(w) =>
             <<Current(w), today[w]>> \notin refreshed]_vars
  BY NoDoubleRefresh
<1> QED
  BY <1>1, <1>2, <1>3, PTL DEF Spec, OncePerRecordedDate
=============================================================================

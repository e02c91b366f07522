-------------------------- MODULE OntologyRefresh --------------------------
(***************************************************************************)
(* The Ontology Index of one connection, as server processes that share    *)
(* the data directory keep it up to date:                                  *)
(*   - server/catalog/auto_refresh.py: every tool that runs SQL starts a   *)
(*     daemon thread that indexes the tables of the statement again, once  *)
(*     a day, under a lock of its process;                                 *)
(*   - server/catalog/ontology_builder.py: a full scan, without the lock;  *)
(*   - server/catalog/object_search.py: a search, after a full scan when   *)
(*     the index is empty;                                                 *)
(*   - server/catalog/rag_index.py: an upsert is a delete, then an add.    *)
(*                                                                         *)
(* Connections share nothing here (lock, index and tracker file are per    *)
(* connection), so one is enough.  The schema of a table is a version      *)
(* number: odd while the table exists, even while it does not.  A document *)
(* is the version it was made from.                                        *)
(***************************************************************************)
EXTENDS Naturals, Sequences, FiniteSets

CONSTANTS
    Procs,        (* server processes                                      *)
    Builders,     (* the processes whose client asks for scans or searches *)
    Workers,      (* refresh threads that can run at the same time         *)
    NoWorker,     (* the owner of a free lock                              *)
    Owner,        (* the process of each refresh thread                    *)
    Tables,       (* table names, as numbers in the order of the names     *)
    Changing,     (* bound: the tables whose schema changes meanwhile      *)
    MaxVersion,   (* bound: schema changes per table                       *)
    MaxDay,       (* bound: days of a behaviour                            *)
    MaxCrashes,   (* bound: crashes of a behaviour                         *)
    MayFail       (* TRUE: database, embedding, index and file calls raise *)

ASSUME RefreshAssumption ==
    /\ Builders \subseteq Procs
    /\ Owner \in [Workers -> Procs]
    /\ NoWorker \notin Workers
    /\ Tables \subseteq Nat /\ Changing \subseteq Tables
    /\ MaxVersion \in Nat /\ MaxDay \in Nat \ {0} /\ MaxCrashes \in Nat
    /\ MayFail \in BOOLEAN

Versions == 0..MaxVersion
Present(v) == v % 2 = 1
Never == 0
Days == 1..MaxDay

VARIABLES
    schema,    (* the schema version of each table in the database         *)
    date,      (* date.today()                                             *)
    index,     (* the documents of each table in the index                 *)
    tracker,   (* table_refresh_dates.json; Never: no entry                *)
    lock,      (* the lock of the connection in each process               *)
    pc,        (* where each refresh thread is                             *)
    todo,      (* names, then stale: the tables it has still to look at    *)
    today,     (* its date                                                 *)
    loaded,    (* its copy of the tracker                                  *)
    doc,       (* the document it is writing                               *)
    main,      (* where the tool of each process is                        *)
    snap,      (* schema_objects of the full scan                          *)
    gone,      (* removed_ids of the full scan                             *)
    searching, (* the tool is a search                                     *)
    result,    (* how the last tool ended; "none": not yet, or a crash     *)
    crashes,
    refreshed, (* history: the refreshes that succeeded, with their dates, *)
               (* until a crash or a failed save loses them                *)
    dayStart,  (* history: the schema when the day began                   *)
    alone,     (* history: nobody else used the index during the scan      *)
    scanned    (* history: a full scan has succeeded                       *)

threadVars == <<lock, pc, todo, today, loaded, doc>>
mainVars   == <<main, snap, gone, searching, result>>
dbVars     == <<schema, date, dayStart>>
vars == <<schema, date, index, tracker, lock, pc, todo, today, loaded, doc, main,
          snap, gone, searching, result, crashes, refreshed, dayStart, alone,
          scanned>>

Indexed(t) == index[t] # <<>>
EmptyTracker == [t \in Tables |-> Never]
NoSchema == [t \in Tables |-> 0]

\* A RagIndex.delete of the documents of the tables in S, and a table.add of
\* the documents of f for the tables in S: one commit each.
Without(S)   == [t \in Tables |-> IF t \in S THEN <<>> ELSE index[t]]
WithAdded(S, f) ==
    [t \in Tables |-> IF t \in S THEN Append(index[t], f[t]) ELSE index[t]]

-----------------------------------------------------------------------------
(* refresh_stale_tables() and _refresh_worker().                           *)

Lock(w) == lock[Owner[w]]

\* A tool of the process names the tables of its SQL and goes on at once; some
\* of the names may not be tables.
RefreshStaleTables(w, names) ==
    /\ pc[w] = "none"
    /\ main[Owner[w]] = "idle"
    /\ names # {}
    /\ pc' = [pc EXCEPT ![w] = "lock"]
    /\ todo' = [todo EXCEPT ![w] = names]
    /\ UNCHANGED <<dbVars, index, tracker, lock, today, loaded, doc, mainVars,
                   crashes, refreshed, alone, scanned>>

\* Mutant: the lock is not taken.
AcquireWithoutLock(w) ==
    /\ pc[w] = "lock"
    /\ today' = [today EXCEPT ![w] = date]
    /\ pc' = [pc EXCEPT ![w] = "load"]
    /\ alone' = [p \in Procs |-> FALSE]
    /\ UNCHANGED <<dbVars, index, tracker, lock, todo, loaded, doc, mainVars,
                   crashes, refreshed, scanned>>

\* Mutant: the date of a zone that is a day ahead.
AcquireAhead(w) ==
    /\ pc[w] = "lock"
    /\ Lock(w) = NoWorker
    /\ lock' = [lock EXCEPT ![Owner[w]] = w]
    /\ today' = [today EXCEPT ![w] = date + 1]
    /\ pc' = [pc EXCEPT ![w] = "load"]
    /\ alone' = [p \in Procs |-> FALSE]
    /\ UNCHANGED <<dbVars, index, tracker, todo, loaded, doc, mainVars,
                   crashes, refreshed, scanned>>

Acquire(w) ==
    /\ pc[w] = "lock"
    /\ Lock(w) = NoWorker
    /\ lock' = [lock EXCEPT ![Owner[w]] = w]
    /\ today' = [today EXCEPT ![w] = date]
    /\ pc' = [pc EXCEPT ![w] = "load"]
    /\ alone' = [p \in Procs |-> FALSE]
    /\ UNCHANGED <<dbVars, index, tracker, todo, loaded, doc, mainVars,
                   crashes, refreshed, scanned>>

\* Mutant: the early return leaves the lock taken.
LoadTrackerKeepsLock(w) ==
    LET stale == {t \in todo[w] : tracker[t] # today[w]} IN
    /\ pc[w] = "load"
    /\ todo' = [todo EXCEPT ![w] = stale]
    /\ IF stale = {}
       THEN pc' = [pc EXCEPT ![w] = "none"] /\ UNCHANGED loaded
       ELSE /\ pc' = [pc EXCEPT ![w] = "fetch"]
            /\ loaded' = [loaded EXCEPT ![w] = tracker]
    /\ UNCHANGED <<dbVars, index, tracker, lock, today, doc, mainVars,
                   crashes, refreshed, alone, scanned>>

\* Mutant: every name is refreshed, stale or not.
LoadTrackerAllStale(w) ==
    /\ pc[w] = "load"
    /\ pc' = [pc EXCEPT ![w] = "fetch"]
    /\ loaded' = [loaded EXCEPT ![w] = [t \in Tables |->
                     IF t \in todo[w] THEN Never ELSE tracker[t]]]
    /\ UNCHANGED <<dbVars, index, tracker, lock, todo, today, doc, mainVars,
                   crashes, refreshed, alone, scanned>>

\* A file that is missing or torn is an empty tracker (the names are ASCII: a
\* file torn inside a longer character would raise here).
LoadTracker(w) ==
    LET stale == {t \in todo[w] : tracker[t] # today[w]} IN
    /\ pc[w] = "load"
    /\ todo' = [todo EXCEPT ![w] = stale]
    /\ IF stale = {}
       THEN /\ pc' = [pc EXCEPT ![w] = "none"]
            /\ lock' = [lock EXCEPT ![Owner[w]] = NoWorker]
            /\ today' = [today EXCEPT ![w] = Never]
            /\ UNCHANGED loaded
       ELSE /\ pc' = [pc EXCEPT ![w] = "fetch"]
            /\ loaded' = [loaded EXCEPT ![w] = tracker]
            /\ UNCHANGED <<lock, today>>
    /\ UNCHANGED <<dbVars, index, tracker, doc, mainVars,
                   crashes, refreshed, alone, scanned>>

\* The tables are taken in the order of their names.
Current(w) == CHOOSE t \in todo[w] : \A u \in todo[w] : t <= u

\* `continue`: the table stays as the tracker had it.
SkipTable(w) ==
    /\ pc' = [pc EXCEPT ![w] = "fetch"]
    /\ todo' = [todo EXCEPT ![w] = @ \ {Current(w)}]
    /\ doc' = [doc EXCEPT ![w] = 0]

\* Mutant: a table that is not found is noted as refreshed.
FetchSchemaNotesMissing(w, raises) ==
    /\ pc[w] = "fetch"
    /\ todo[w] # {}
    /\ raises => MayFail
    /\ IF raises \/ ~Present(schema[Current(w)])
       THEN /\ SkipTable(w)
            /\ loaded' = [loaded EXCEPT ![w][Current(w)] = today[w]]
       ELSE /\ doc' = [doc EXCEPT ![w] = schema[Current(w)]]
            /\ pc' = [pc EXCEPT ![w] = "delete"]
            /\ UNCHANGED <<todo, loaded>>
    /\ UNCHANGED <<dbVars, index, tracker, lock, today, mainVars,
                   crashes, refreshed, alone, scanned>>

\* get_schema({"container": table}) finds the table, does not, or raises.
FetchSchema(w, raises) ==
    /\ pc[w] = "fetch"
    /\ todo[w] # {}
    /\ raises => MayFail
    /\ IF raises \/ ~Present(schema[Current(w)])
       THEN SkipTable(w)
       ELSE /\ doc' = [doc EXCEPT ![w] = schema[Current(w)]]
            /\ pc' = [pc EXCEPT ![w] = "delete"]
            /\ UNCHANGED todo
    /\ UNCHANGED <<dbVars, index, tracker, lock, today, loaded, mainVars,
                   crashes, refreshed, alone, scanned>>

\* upsert() reads the old hashes, embeds the new text and deletes the old
\* document; any of the three can raise.
UpsertDelete(w, raises) ==
    /\ pc[w] = "delete"
    /\ raises => MayFail
    /\ IF raises
       THEN SkipTable(w) /\ UNCHANGED index
       ELSE /\ index' = Without({Current(w)})
            /\ pc' = [pc EXCEPT ![w] = "add"]
            /\ UNCHANGED <<todo, doc>>
    /\ UNCHANGED <<dbVars, tracker, lock, today, loaded, mainVars,
                   crashes, refreshed, alone, scanned>>

\* Mutant: the date is noted in a `finally`.
UpsertAddAlwaysNotes(w, raises) ==
    /\ pc[w] = "add"
    /\ raises => MayFail
    /\ SkipTable(w)
    /\ index' = IF raises THEN index
                ELSE WithAdded({Current(w)}, [t \in Tables |-> doc[w]])
    /\ loaded' = [loaded EXCEPT ![w][Current(w)] = today[w]]
    /\ refreshed' = refreshed \cup {<<Current(w), today[w]>>}
    /\ UNCHANGED <<dbVars, tracker, lock, today, mainVars, crashes, alone, scanned>>

UpsertAdd(w, raises) ==
    /\ pc[w] = "add"
    /\ raises => MayFail
    /\ SkipTable(w)
    /\ IF raises
       THEN UNCHANGED <<index, loaded, refreshed>>
       ELSE /\ index' = WithAdded({Current(w)}, [t \in Tables |-> doc[w]])
            /\ loaded' = [loaded EXCEPT ![w][Current(w)] = today[w]]
            /\ refreshed' = refreshed \cup {<<Current(w), today[w]>>}
    /\ UNCHANGED <<dbVars, tracker, lock, today, mainVars, crashes, alone, scanned>>

\* History: what neither the file nor the copy of a thread says is lost.
StillRecorded ==
    {r \in refreshed : \/ tracker'[r[1]] = r[2]
                       \/ \E w \in Workers : loaded'[w][r[1]] = r[2]}

\* The thread is over; `with` gives the lock back, after an exception too.
ThreadEnds(w) ==
    /\ loaded' = [loaded EXCEPT ![w] = EmptyTracker]
    /\ today' = [today EXCEPT ![w] = Never]
    /\ lock' = [lock EXCEPT ![Owner[w]] = NoWorker]
    /\ pc' = [pc EXCEPT ![w] = "none"]

\* _save_tracker(), outside the try: mkdir(), then write_text(), which truncates
\* the file.  Either can raise while the file is as it was.
SaveTruncate(w, raises) ==
    /\ pc[w] = "fetch"
    /\ todo[w] = {}
    /\ raises => MayFail
    /\ IF raises
       THEN ThreadEnds(w) /\ UNCHANGED tracker /\ refreshed' = StillRecorded
       ELSE /\ tracker' = EmptyTracker
            /\ pc' = [pc EXCEPT ![w] = "save"]
            /\ UNCHANGED <<lock, today, loaded, refreshed>>
    /\ UNCHANGED <<dbVars, index, todo, doc, mainVars, crashes, alone, scanned>>

\* ... then writes it; a full disk leaves it as it is by then, or torn.
SaveWrite(w, raises) ==
    /\ pc[w] = "save"
    /\ raises => MayFail
    /\ ThreadEnds(w)
    /\ IF raises
       THEN tracker' \in {tracker, EmptyTracker} /\ refreshed' = StillRecorded
       ELSE tracker' = loaded[w] /\ UNCHANGED refreshed
    /\ UNCHANGED <<dbVars, index, todo, doc, mainVars, crashes, alone, scanned>>

RefreshWorker(w) ==
    \/ Acquire(w) \/ LoadTracker(w)
    \/ \E raises \in BOOLEAN :
          \/ FetchSchema(w, raises) \/ UpsertDelete(w, raises) \/ UpsertAdd(w, raises)
          \/ SaveTruncate(w, raises) \/ SaveWrite(w, raises)

-----------------------------------------------------------------------------
(* build_ontology_index() and search_object_catalog(), in the main thread. *)

\* A search goes on after its scan, however that ended.
ScanIsOver(p, how) ==
    /\ main' = [main EXCEPT ![p] = IF searching[p] THEN "search" ELSE "idle"]
    /\ result' = [result EXCEPT ![p] = IF searching[p] THEN @ ELSE how]
    /\ snap' = [snap EXCEPT ![p] = NoSchema]
    /\ gone' = [gone EXCEPT ![p] = {}]

\* Mutant: the exception of the scan ends the search as well.
ScanRaisesThrough(p) ==
    /\ MayFail
    /\ main[p] \in {"ids", "delete", "add", "remove"}
    /\ main' = [main EXCEPT ![p] = "idle"]
    /\ result' = [result EXCEPT ![p] = "raised"]
    /\ searching' = [searching EXCEPT ![p] = FALSE]
    /\ snap' = [snap EXCEPT ![p] = NoSchema]
    /\ gone' = [gone EXCEPT ![p] = {}]
    /\ UNCHANGED <<dbVars, index, tracker, threadVars,
                   crashes, refreshed, alone, scanned>>

\* The scan raises: the tool fails, or the search goes on without it.
ScanRaises(p) ==
    /\ MayFail
    /\ main[p] \in {"ids", "delete", "add", "remove"}
    /\ ScanIsOver(p, "raised")
    /\ UNCHANGED <<dbVars, index, tracker, threadVars, searching,
                   crashes, refreshed, alone, scanned>>

\* get_schema({}): the whole schema, as it is now.
StartScan(p) ==
    /\ snap' = [snap EXCEPT ![p] = schema]
    /\ main' = [main EXCEPT ![p] = "ids"]
    /\ alone' = [q \in Procs |->
                    /\ q = p
                    /\ \A w \in Workers : pc[w] \in {"none", "lock"}
                    /\ \A r \in Procs \ {p} : main[r] \in {"idle", "search"}]

BuildOntologyIndex(p) ==
    /\ main[p] = "idle"
    /\ StartScan(p)
    /\ result' = [result EXCEPT ![p] = "none"]
    /\ UNCHANGED <<dbVars, index, tracker, threadVars, gone, searching,
                   crashes, refreshed, scanned>>

Scanned(p) == {t \in Tables : Present(snap[p][t])}

\* upsert([]) returns at once.
AllIds(p) ==
    /\ main[p] = "ids"
    /\ gone' = [gone EXCEPT ![p] = {t \in Tables : Indexed(t)} \ Scanned(p)]
    /\ main' = [main EXCEPT ![p] = IF Scanned(p) = {} THEN "remove" ELSE "delete"]
    /\ UNCHANGED <<dbVars, index, tracker, threadVars, snap, searching, result,
                   crashes, refreshed, alone, scanned>>

\* Mutant: an add without the delete.
ScanKeepsOld(p) ==
    /\ main[p] = "delete"
    /\ main' = [main EXCEPT ![p] = "add"]
    /\ UNCHANGED <<dbVars, index, tracker, threadVars, snap, gone, searching, result,
                   crashes, refreshed, alone, scanned>>

ScanDelete(p) ==
    /\ main[p] = "delete"
    /\ index' = Without(Scanned(p))
    /\ main' = [main EXCEPT ![p] = "add"]
    /\ UNCHANGED <<dbVars, tracker, threadVars, snap, gone, searching, result,
                   crashes, refreshed, alone, scanned>>

ScanAdd(p) ==
    /\ main[p] = "add"
    /\ index' = WithAdded(Scanned(p), snap[p])
    /\ main' = [main EXCEPT ![p] = "remove"]
    /\ UNCHANGED <<dbVars, tracker, threadVars, snap, gone, searching, result,
                   crashes, refreshed, alone, scanned>>

ScanRemove(p) ==
    /\ main[p] = "remove"
    /\ index' = Without(gone[p])
    /\ main' = [main EXCEPT ![p] = "built"]
    /\ scanned' = TRUE
    /\ UNCHANGED <<dbVars, tracker, threadVars, snap, gone, searching, result,
                   crashes, refreshed, alone>>

ScanReturns(p) ==
    /\ main[p] = "built"
    /\ ScanIsOver(p, "returned")
    /\ UNCHANGED <<dbVars, index, tracker, threadVars, searching,
                   crashes, refreshed, alone, scanned>>

\* is_empty(), outside the try, and the full scan it leads to.
SearchObjectCatalog(p, raises) ==
    /\ main[p] = "idle"
    /\ raises => MayFail
    /\ result' = [result EXCEPT ![p] = IF raises THEN "raised" ELSE "none"]
    /\ searching' = [searching EXCEPT ![p] = ~raises]
    /\ IF ~raises /\ \A t \in Tables : ~Indexed(t)
       THEN StartScan(p)
       ELSE /\ main' = [main EXCEPT ![p] = IF raises THEN "idle" ELSE "search"]
            /\ UNCHANGED <<snap, alone>>
    /\ UNCHANGED <<dbVars, index, tracker, threadVars, gone,
                   crashes, refreshed, scanned>>

\* index.search() answers from the documents that are there at this moment, or
\* raises: it opens the index and embeds the query.
Search(p, raises) ==
    /\ main[p] = "search"
    /\ raises => MayFail
    /\ main' = [main EXCEPT ![p] = "idle"]
    /\ result' = [result EXCEPT ![p] = IF raises THEN "raised" ELSE "returned"]
    /\ searching' = [searching EXCEPT ![p] = FALSE]
    /\ UNCHANGED <<dbVars, index, tracker, threadVars, snap, gone,
                   crashes, refreshed, alone, scanned>>

Tool(p) ==
    \/ BuildOntologyIndex(p)
    \/ \E raises \in BOOLEAN : SearchObjectCatalog(p, raises)

Scan(p) ==
    \/ AllIds(p) \/ ScanDelete(p) \/ ScanAdd(p) \/ ScanRemove(p)
    \/ ScanReturns(p) \/ ScanRaises(p)
    \/ \E raises \in BOOLEAN : Search(p, raises)

-----------------------------------------------------------------------------
(* The environment.                                                        *)

\* Somebody creates, alters or drops a table.
ChangeSchema(t, v) ==
    /\ v \in {schema[t] + 1, schema[t] + 2} \cap Versions
    /\ Present(schema[t]) \/ Present(v)
    /\ schema' = [schema EXCEPT ![t] = v]
    /\ UNCHANGED <<date, dayStart, index, tracker, threadVars, mainVars,
                   crashes, refreshed, alone, scanned>>

NextDay ==
    /\ date < MaxDay
    /\ date' = date + 1
    /\ dayStart' = schema
    /\ UNCHANGED <<schema, index, tracker, threadVars, mainVars,
                   crashes, refreshed, alone, scanned>>

\* A process dies with its threads and its lock, and starts again.
Crash(p) ==
    /\ crashes < MaxCrashes
    /\ crashes' = crashes + 1
    /\ LET mine == {w \in Workers : Owner[w] = p} IN
       /\ pc' = [w \in Workers |-> IF w \in mine THEN "none" ELSE pc[w]]
       /\ todo' = [w \in Workers |-> IF w \in mine THEN {} ELSE todo[w]]
       /\ today' = [w \in Workers |-> IF w \in mine THEN Never ELSE today[w]]
       /\ loaded' = [w \in Workers |-> IF w \in mine THEN EmptyTracker ELSE loaded[w]]
       /\ doc' = [w \in Workers |-> IF w \in mine THEN 0 ELSE doc[w]]
    /\ lock' = [lock EXCEPT ![p] = NoWorker]
    /\ main' = [main EXCEPT ![p] = "idle"]
    /\ searching' = [searching EXCEPT ![p] = FALSE]
    /\ snap' = [snap EXCEPT ![p] = NoSchema]
    /\ gone' = [gone EXCEPT ![p] = {}]
    /\ result' = [result EXCEPT ![p] = "none"]
    /\ UNCHANGED <<dbVars, index, tracker, alone, scanned>>
    /\ refreshed' = StillRecorded

-----------------------------------------------------------------------------
Init ==
    /\ schema \in [Tables -> {0, 1} \cap Versions]
    /\ date = 1
    /\ index = [t \in Tables |-> <<>>]
    /\ tracker = EmptyTracker
    /\ lock = [p \in Procs |-> NoWorker]
    /\ pc = [w \in Workers |-> "none"]
    /\ todo = [w \in Workers |-> {}]
    /\ today = [w \in Workers |-> Never]
    /\ loaded = [w \in Workers |-> EmptyTracker]
    /\ doc = [w \in Workers |-> 0]
    /\ main = [p \in Procs |-> "idle"]
    /\ snap = [p \in Procs |-> NoSchema]
    /\ gone = [p \in Procs |-> {}]
    /\ searching = [p \in Procs |-> FALSE]
    /\ result = [p \in Procs |-> "none"]
    /\ crashes = 0
    /\ refreshed = {}
    /\ dayStart = schema
    /\ alone = [p \in Procs |-> FALSE]
    /\ scanned = FALSE

Next ==
    \/ \E w \in Workers, names \in SUBSET Tables : RefreshStaleTables(w, names)
    \/ \E w \in Workers : RefreshWorker(w)
    \/ \E p \in Builders : Tool(p)
    \/ \E p \in Builders : Scan(p)
    \/ \E t \in Changing, v \in Versions : ChangeSchema(t, v)
    \/ NextDay
    \/ \E p \in Procs : Crash(p)

Spec == Init /\ [][Next]_vars

\* The operating system runs every thread that can run.
Fairness ==
    /\ \A w \in Workers : WF_vars(RefreshWorker(w))
    /\ \A p \in Builders : WF_vars(Scan(p))

FairSpec == Spec /\ Fairness

-----------------------------------------------------------------------------
(* Properties.                                                             *)

TypeOK ==
    /\ schema \in [Tables -> Versions]
    /\ date \in Days
    /\ index \in [Tables -> Seq(Versions)]
    /\ tracker \in [Tables -> Days \cup {Never}]
    /\ lock \in [Procs -> Workers \cup {NoWorker}]
    /\ pc \in [Workers -> {"none", "lock", "load", "fetch", "delete", "add", "save"}]
    /\ todo \in [Workers -> SUBSET Tables]
    /\ today \in [Workers -> Days \cup {Never}]
    /\ loaded \in [Workers -> [Tables -> Days \cup {Never}]]
    /\ doc \in [Workers -> Versions]
    /\ main \in [Procs -> {"idle", "ids", "delete", "add", "remove", "built", "search"}]
    /\ snap \in [Procs -> [Tables -> Versions]]
    /\ gone \in [Procs -> SUBSET Tables]
    /\ searching \in [Procs -> BOOLEAN]
    /\ result \in [Procs -> {"none", "returned", "raised"}]
    /\ crashes \in 0..MaxCrashes
    /\ refreshed \in SUBSET (Tables \X Days)
    /\ dayStart \in [Tables -> Versions]
    /\ alone \in [Procs -> BOOLEAN]
    /\ scanned \in BOOLEAN

\* The tracker, on disk and in the copies of the threads, never runs ahead of
\* the index: it has a date only for a refresh whose document was added that
\* day, whatever crashes, scans and other processes do in between.
TrackerAfterRefresh ==
    /\ \A t \in Tables : tracker[t] # Never => <<t, tracker[t]>> \in refreshed
    /\ \A w \in Workers, t \in Tables :
          loaded[w][t] # Never => <<t, loaded[w][t]>> \in refreshed

\* One process that only refreshes: a table that the tracker says was
\* refreshed today has exactly one document, and the document is not older
\* than the schema of this morning.  The tracker can be trusted to skip it.
TrackedTodayIsFresh ==
    \A t \in Tables : tracker[t] = date =>
        Len(index[t]) = 1 /\ index[t][1] >= dayStart[t]

\* One process that only refreshes: no table has two documents.
OneDocumentPerTable == \A t \in Tables : Len(index[t]) <= 1

\* A refresh succeeds: the thread notes the date.
Refreshes(w) == pc[w] = "add" /\ loaded'[w] # loaded[w]

\* One process that only refreshes: a table is refreshed twice for one date
\* only when the first of the two was lost in between, to a crash before it was
\* saved or to a save that failed.  Threads that save or note other tables,
\* midnight and refreshes that fail lose nothing.
OncePerRecordedDate ==
    [][\A w \in Workers : Refreshes(w) => <<Current(w), today[w]>> \notin refreshed]_vars

\* A refresh thread that holds the lock gives it back.
LockIsReleased ==
    \A w \in Workers : (Lock(w) = w) ~> (Lock(w) # w)

\* A full scan that had the index for itself leaves one document for each
\* table of its snapshot and none for the others, whatever duplicates, gaps
\* and leftovers it found.
ScanAloneMirrorsSchema ==
    \A p \in Procs : main[p] = "built" /\ alone[p] =>
        \A t \in Tables :
            index[t] = IF Present(snap[p][t]) THEN <<snap[p][t]>> ELSE <<>>

\* A search comes to its end, and ends as its own index.search() does: an
\* exception of the scan that fills the index for it does not end it.
SearchOutlivesScan ==
    /\ \A p \in Builders : searching[p] ~> ~searching[p]
    /\ [][\A p \in Builders : searching[p] /\ result'[p] # result[p] =>
              main[p] = "search"]_vars

\* object_search.py:22-25 says that a search fills the index with a full scan
\* first when it was never filled, as long as the daily batch has not run.
SearchFillsFirst ==
    [][\A p \in Procs : main[p] = "search" /\ result'[p] = "returned" => scanned]_vars
=============================================================================

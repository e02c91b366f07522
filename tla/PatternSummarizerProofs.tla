---------------------- MODULE PatternSummarizerProofs ----------------------
(***************************************************************************)
(* Proofs about PatternSummarizer for any number of connections, clusters, *)
(* entries, crashes and half-written lines.                                *)
(*                                                                         *)
(* FileInv holds whatever periods the callers give.  CountInv holds when   *)
(* no call gives a `since`: then the cursor is what a batch starts from,   *)
(* and separates what was counted from what was not.                       *)
(***************************************************************************)
EXTENDS PatternSummarizer, NatSets, TLAPS, FiniteSetTheorems

Working == pc \notin {"idle", "load"}

\* A batch is not empty, and of the connection that the call looks at.
BatchInLog ==
    Working => todo # {} /\ batch # {} /\ batch \subseteq log[Current]

LogOfConn ==
    \A c \in Conns : \A e \in log[c] : e \in DOMAIN entries /\ Conn(e) = c

\* What is still to be written is newer than any entry in the files, and than
\* the cursors, which are timestamps of such entries.
WrittenInOrder ==
    \A c \in Conns : /\ cursor[c] <= Len(entries)
                     /\ \A q \in queue : cursor[c] < q /\ \A e \in log[c] : e < q

FileInv == TypeOK /\ BatchInLog /\ LogOfConn /\ WrittenInOrder

NoSinceGiven == \A p \in Periods : p[1] = None
NoSince      == period[1] = None

\* A batch is beyond the cursor, and leaves nothing out up to its newest entry.
BatchIsNew == Working => \A b \in batch : cursor[Current] < b

BatchCovers ==
    Working => \A e \in log[Current], b \in batch : e <= b => e \in batch \/ counted[e] > 0

BatchCounted == pc \in {"truncate", "cursor"} => \A b \in batch : counted[b] > 0

OnlyLogged == \A e \in DOMAIN counted : counted[e] > 0 => e \in DOMAIN entries

\* The cursor keeps an entry from being counted again, or is about to.
Settled(e) ==
    \/ e <= cursor[Conn(e)]
    \/ pc \in {"truncate", "cursor"} /\ Conn(e) = Current /\ \E b \in batch : e <= b

OnceUnlessSettled ==
    \A e \in DOMAIN entries : counted[e] <= 1 + faults /\ (counted[e] > faults => Settled(e))

\* What was in the logs at the start is counted when its connection is done.
StartCovered ==
    /\ \A c \in Conns : start[c] \subseteq log[c]
    /\ pc # "idle" /\ period[2] = None =>
          /\ \A c \in Conns \ todo : \A e \in start[c] : counted[e] > 0
          /\ Working => \A e \in start[Current] : e \in batch \/ counted[e] > 0

CountInv ==
    /\ NoSince /\ BatchIsNew /\ BatchCovers /\ BatchCounted
    /\ CursorCovers /\ OnlyLogged /\ OnceUnlessSettled /\ StartCovered

-----------------------------------------------------------------------------
(* Least and greatest elements.                                            *)

LEMMA LeastOf ==
    ASSUME NEW S \in SUBSET Nat, S # {}
    PROVE  Min(S) \in S /\ \A k \in S : Min(S) <= k
BY HasLeast DEF Min

LEMMA GreatestOf ==
    ASSUME NEW n \in Nat, NEW S \in SUBSET (0..n), S # {}
    PROVE  Max(S) \in S /\ \A k \in S : k <= Max(S)
BY HasGreatest DEF Max

LEMMA CurrentInTodo ==
    ASSUME TypeOK, todo # {}
    PROVE  Current \in todo /\ Current \in Conns
<1>1. todo \in SUBSET Nat
  BY SummarizerAssumption DEF TypeOK
<1> QED BY <1>1, LeastOf DEF Current, TypeOK

LEMMA NextWritten ==
    ASSUME TypeOK, queue # {}
    PROVE  /\ Min(queue) \in queue /\ Min(queue) \in DOMAIN entries /\ Min(queue) \in 1..MaxEntries
           /\ Conn(Min(queue)) \in Conns
           /\ \A q \in queue \ {Min(queue)} : Min(queue) < q
<1>1. queue \in SUBSET Nat
  BY DEF TypeOK
<1>2. Min(queue) \in queue /\ \A q \in queue : Min(queue) <= q
  BY <1>1, LeastOf
<1> QED BY <1>1, <1>2, SummarizerAssumption DEF TypeOK, Conn

LEMMA NewestOfBatch ==
    ASSUME TypeOK, batch # {}
    PROVE  Max(batch) \in batch /\ Max(batch) \in Times /\ \A e \in batch : e <= Max(batch)
<1>1. MaxEntries \in Nat /\ batch \in SUBSET (0..MaxEntries)
  BY SummarizerAssumption DEF TypeOK
<1> QED BY <1>1, GreatestOf DEF Times

\* What a batch makes of a pattern is a pattern again.
LEMMA MergedType ==
    ASSUME NEW old \in [frequency : Nat, last_seen : Times], NEW mine \in SUBSET (1..MaxEntries)
    PROVE  Merged(old, mine) \in [frequency : Nat, last_seen : Times]
<1>1. MaxEntries \in Nat
  BY SummarizerAssumption
<1>2. Cardinality(mine) \in Nat
  <2>1. IsFiniteSet(1..MaxEntries)
    BY <1>1, FS_Interval
  <2>2. IsFiniteSet(mine)
    BY <2>1, FS_Subset
  <2> QED BY <2>2, FS_CardinalityType
<1>3. mine \cup {old.last_seen} \in SUBSET (0..MaxEntries)
  <2>1. old.last_seen \in 0..MaxEntries
    BY DEF Times
  <2>2. mine \in SUBSET (0..MaxEntries)
    BY <1>1
  <2> QED BY <2>1, <2>2
<1>4. Max(mine \cup {old.last_seen}) \in Times
  BY <1>1, <1>3, GreatestOf DEF Times
<1> QED BY <1>2, <1>4 DEF Merged

-----------------------------------------------------------------------------
(* FileInv.                                                                *)

LEMMA InitFiles == Init => FileInv
<1> SUFFICES ASSUME Init PROVE FileInv
  OBVIOUS
<1> USE SummarizerAssumption DEF Init
<1>1. Absent \in [frequency : Nat, last_seen : Times]
  BY DEF Absent, None, Times
<1>2. TypeOK
  BY <1>1 DEF TypeOK, None, Times
<1>3. BatchInLog /\ LogOfConn /\ WrittenInOrder
  BY DEF BatchInLog, LogOfConn, WrittenInOrder, Working, None
<1> QED BY <1>2, <1>3 DEF FileInv

LEMMA LogQAFiles ==
    ASSUME FileInv, NEW c \in Conns, NEW k \in Clusters, LogQA(c, k)
    PROVE  FileInv'
<1> USE SummarizerAssumption DEF FileInv, LogQA, files
<1> DEFINE n == Len(entries) + 1
<1>1. /\ n \in 1..MaxEntries /\ entries' \in Seq(Conns \X Clusters)
      /\ Len(entries') = n /\ DOMAIN entries' = 1..n
      /\ \A e \in DOMAIN entries : e \in 1..n /\ Conn(e)' = Conn(e)
  BY DEF TypeOK, Conn
<1>2. TypeOK'
  <2>1. queue' \subseteq DOMAIN entries' /\ Len(entries') <= MaxEntries
    BY <1>1 DEF TypeOK
  <2> QED BY <1>1, <2>1 DEF TypeOK
<1>3. BatchInLog'
  BY DEF BatchInLog, Working, Current
<1>4. LogOfConn'
  BY <1>1 DEF LogOfConn
<1>5. WrittenInOrder'
  <2> SUFFICES ASSUME NEW d \in Conns
               PROVE  /\ cursor[d] <= n
                      /\ \A q \in queue \cup {n} : cursor[d] < q /\ \A e \in log[d] : e < q
    BY <1>1 DEF WrittenInOrder
  <2>1. cursor[d] \in Nat /\ cursor[d] <= Len(entries) /\ Len(entries) \in Nat
    BY DEF WrittenInOrder, TypeOK, Times
  <2>2. \A e \in log[d] : e \in 1..Len(entries)
    BY DEF LogOfConn, TypeOK
  <2>3. \A q \in queue : cursor[d] < q /\ \A e \in log[d] : e < q
    BY DEF WrittenInOrder
  <2>4. cursor[d] < n /\ \A e \in log[d] : e < n
    BY <2>1, <2>2
  <2> QED BY <2>1, <2>3, <2>4
<1> QED BY <1>2, <1>3, <1>4, <1>5

LEMMA WriteQAEntryFiles ==
    ASSUME FileInv, NEW ok \in BOOLEAN, WriteQAEntry(ok)
    PROVE  FileInv'
<1> USE SummarizerAssumption DEF FileInv
<1> DEFINE e == Min(queue)
<1>1. /\ e \in queue /\ e \in DOMAIN entries /\ e \in 1..MaxEntries /\ Conn(e) \in Conns
      /\ \A q \in queue \ {e} : e < q
  BY NextWritten DEF WriteQAEntry
<1>2. /\ queue' = queue \ {e}
      /\ log' = log \/ log' = [log EXCEPT ![Conn(e)] = @ \cup {e}]
      /\ UNCHANGED <<entries, bad, patterns, blank, cursor, pc, period, todo, batch, counted, start, faults>>
  BY DEF WriteQAEntry
<1> HIDE DEF e
<1>3. TypeOK'
  <2>1. log' \in [Conns -> SUBSET (1..MaxEntries)]
    <3> DEFINE All == 1..MaxEntries
    <3>1. PICK d \in Conns : log' = log \/ log' = [log EXCEPT ![d] = @ \cup {e}]
      BY <1>1, <1>2
    <3>2. log \in [Conns -> SUBSET All] /\ e \in All
      BY <1>1 DEF TypeOK
    <3> HIDE DEF All
    <3>3. log' \in [Conns -> SUBSET All]
      BY <3>1, <3>2
    <3> QED BY <3>3 DEF All
  <2>2. queue' \subseteq DOMAIN entries
    BY <1>2 DEF TypeOK
  <2> QED BY <1>2, <2>1, <2>2 DEF TypeOK
<1>4. \A d \in Conns : log[d] \subseteq log'[d]
  BY <1>1, <1>2 DEF TypeOK
<1>5. \A d \in Conns : \A x \in log'[d] : x \in log[d] \/ (x = e /\ d = Conn(e))
  BY <1>1, <1>2 DEF TypeOK
<1>6. BatchInLog'
  BY <1>2, <1>4, CurrentInTodo DEF BatchInLog, Working, Current
<1>7. LogOfConn'
  BY <1>1, <1>2, <1>5 DEF LogOfConn, Conn
<1>8. WrittenInOrder'
  BY <1>1, <1>2, <1>5 DEF WrittenInOrder
<1> QED BY <1>3, <1>6, <1>7, <1>8

LEMMA WriteHalfFiles ==
    ASSUME FileInv, WriteHalf
    PROVE  FileInv'
<1> USE SummarizerAssumption DEF FileInv, WriteHalf
<1>1. TypeOK'
  <2>1. bad' \subseteq Conns /\ queue' \subseteq DOMAIN entries
    BY NextWritten DEF TypeOK
  <2>2. faults' \in 0..MaxFaults
    BY DEF TypeOK
  <2> QED BY <2>1, <2>2 DEF TypeOK
<1>2. BatchInLog' /\ LogOfConn' /\ WrittenInOrder'
  BY DEF BatchInLog, Working, Current, LogOfConn, Conn, WrittenInOrder
<1> QED BY <1>1, <1>2

LEMMA SummarizeFiles ==
    ASSUME FileInv, NEW p \in Periods, Summarize(p)
    PROVE  FileInv'
<1> USE SummarizerAssumption DEF FileInv, Summarize, files
<1>1. TypeOK'
  BY DEF TypeOK
<1>2. BatchInLog' /\ LogOfConn' /\ WrittenInOrder'
  BY DEF BatchInLog, Working, LogOfConn, Conn, WrittenInOrder
<1> QED BY <1>1, <1>2

\* The tool ends, and of the files only patterns.json may have changed.
LEMMA OverFiles ==
    ASSUME FileInv, Over, TypeOK', UNCHANGED <<entries, log, cursor>>, queue' \subseteq queue
    PROVE  FileInv'
<1> USE DEF FileInv, Over
<1>1. BatchInLog' /\ LogOfConn' /\ WrittenInOrder'
  BY DEF BatchInLog, Working, LogOfConn, Conn, WrittenInOrder
<1> QED BY <1>1

LEMMA OverType ==
    ASSUME TypeOK, Over
    PROVE  /\ pc' = "idle" /\ period' \in Times \X Times /\ todo' \subseteq Conns
           /\ batch' \subseteq 1..MaxEntries /\ start' \in [Conns -> SUBSET (1..MaxEntries)]
BY SummarizerAssumption DEF Over, None, Times

LEMMA CrashFiles ==
    ASSUME FileInv, Crash
    PROVE  FileInv'
<1>1. TypeOK'
  <2>1. faults' \in 0..MaxFaults
    BY SummarizerAssumption DEF FileInv, Crash, TypeOK
  <2> QED BY <2>1, OverType DEF FileInv, Crash, TypeOK, files
<1> QED BY <1>1, OverFiles DEF FileInv, Crash, files

LEMMA ReturnFiles ==
    ASSUME FileInv, Return
    PROVE  FileInv'
<1>1. TypeOK'
  BY OverType DEF FileInv, Return, TypeOK, files
<1> QED BY <1>1, OverFiles DEF FileInv, Return, files

LEMMA LoadEntriesFiles ==
    ASSUME FileInv, LoadEntries
    PROVE  FileInv'
<1> USE DEF FileInv
<1>1. UNCHANGED <<entries, queue, log, bad, patterns, blank, cursor, counted, faults>>
  BY DEF LoadEntries, files
<1>2. CASE Current \in bad
  <2>1. Over
    BY <1>2 DEF LoadEntries
  <2>2. TypeOK'
    BY <1>1, <2>1, OverType DEF TypeOK
  <2> QED BY <1>1, <2>1, <2>2, OverFiles
<1>3. CASE Current \notin bad
  <2> DEFINE new == {e \in log[Current] : InPeriod(Current, e)}
  <2>1. /\ batch' = new /\ UNCHANGED <<period, start>>
        /\ \/ new = {} /\ todo' = todo \ {Current} /\ pc = "load" /\ pc' = "load"
           \/ new # {} /\ todo' = todo /\ pc' = "upsert"
    BY <1>3 DEF LoadEntries
  <2>2. new \subseteq log[Current] /\ new \subseteq 1..MaxEntries /\ todo # {}
    BY CurrentInTodo DEF TypeOK, LoadEntries
  <2> HIDE DEF new
  <2>3. TypeOK'
    BY <1>1, <2>1, <2>2 DEF TypeOK
  <2>4. BatchInLog'
    BY <1>1, <2>1, <2>2 DEF BatchInLog, Working, Current
  <2>5. LogOfConn' /\ WrittenInOrder'
    BY <1>1 DEF LogOfConn, Conn, WrittenInOrder
  <2> QED BY <2>3, <2>4, <2>5
<1> QED BY <1>2, <1>3

LEMMA TruncatePatternsFiles ==
    ASSUME FileInv, TruncatePatterns
    PROVE  FileInv'
<1> USE DEF FileInv
<1>1. UNCHANGED <<entries, queue, log, bad, patterns, cursor, counted, faults>>
  BY DEF TruncatePatterns
<1>2. CASE Current \in blank
  <2>1. Over /\ UNCHANGED blank
    BY <1>2 DEF TruncatePatterns
  <2>2. TypeOK'
    BY <1>1, <2>1, OverType DEF TypeOK
  <2> QED BY <1>1, <2>1, <2>2, OverFiles
<1>3. CASE Current \notin blank
  <2>1. /\ pc = "upsert" /\ pc' = "patterns" /\ blank' = blank \cup {Current}
        /\ UNCHANGED <<period, todo, batch, start>>
    BY <1>3 DEF TruncatePatterns
  <2>2. TypeOK'
    BY <1>1, <2>1, CurrentInTodo DEF TypeOK, BatchInLog, Working
  <2>3. BatchInLog' /\ LogOfConn' /\ WrittenInOrder'
    BY <1>1, <2>1 DEF BatchInLog, Working, Current, LogOfConn, Conn, WrittenInOrder
  <2> QED BY <2>2, <2>3
<1> QED BY <1>2, <1>3

LEMMA WritePatternsFiles ==
    ASSUME FileInv, WritePatterns
    PROVE  FileInv'
<1> USE DEF FileInv, WritePatterns
<1>1. \A c \in Conns, i \in Ids :
        Merged(patterns[c][i], {e \in batch : Id(e) = i}) \in [frequency : Nat, last_seen : Times]
  <2> SUFFICES ASSUME NEW c \in Conns, NEW i \in Ids
               PROVE  Merged(patterns[c][i], {e \in batch : Id(e) = i}) \in [frequency : Nat, last_seen : Times]
    OBVIOUS
  <2>1. patterns[c][i] \in [frequency : Nat, last_seen : Times]
    BY DEF TypeOK
  <2>2. {e \in batch : Id(e) = i} \in SUBSET (1..MaxEntries)
    BY DEF TypeOK
  <2> QED BY <2>1, <2>2, MergedType
<1>2. patterns' \in [Conns -> [Ids -> [frequency : Nat, last_seen : Times]]]
  <2> DEFINE P == [frequency : Nat, last_seen : Times]
             M(c) == [i \in Ids |-> Merged(patterns[c][i], {e \in batch : Id(e) = i})]
  <2>1. \A c \in Conns : M(c) \in [Ids -> P]
    BY <1>1
  <2>2. patterns \in [Conns -> [Ids -> P]] /\ patterns' = [patterns EXCEPT ![Current] = M(Current)]
    BY DEF TypeOK
  <2> HIDE DEF M, P
  <2>3. patterns' \in [Conns -> [Ids -> P]]
    BY <2>1, <2>2, ZenonT(60)
  <2> QED BY <2>3 DEF P
<1>3. TypeOK'
  <2>1. counted' \in [1..MaxEntries -> Nat]
    BY DEF TypeOK
  <2>2. blank' \subseteq Conns
    BY DEF TypeOK
  <2> QED BY <1>2, <2>1, <2>2 DEF TypeOK
<1>4. BatchInLog' /\ LogOfConn' /\ WrittenInOrder'
  BY DEF BatchInLog, Working, Current, LogOfConn, Conn, WrittenInOrder
<1> QED BY <1>3, <1>4

LEMMA TruncateCursorFiles ==
    ASSUME FileInv, TruncateCursor
    PROVE  FileInv'
<1> USE SummarizerAssumption DEF FileInv, TruncateCursor, None
<1>1. TypeOK'
  <2>1. 0 \in Times
    BY DEF Times
  <2>2. cursor' \in [Conns -> Times]
    BY <2>1 DEF TypeOK
  <2> QED BY <2>2 DEF TypeOK
<1>2. \A c \in Conns : cursor'[c] \in {cursor[c], 0} /\ cursor[c] \in Nat
  BY DEF TypeOK, Times
<1>3. queue \subseteq Nat /\ Len(entries) \in Nat /\ \A q \in queue : 0 < q
  BY DEF TypeOK
<1>4. WrittenInOrder'
  BY <1>2, <1>3 DEF WrittenInOrder
<1>5. BatchInLog' /\ LogOfConn'
  BY DEF BatchInLog, Working, Current, LogOfConn, Conn
<1> QED BY <1>1, <1>4, <1>5

LEMMA WriteCursorFiles ==
    ASSUME FileInv, WriteCursor
    PROVE  FileInv'
<1> USE DEF FileInv, WriteCursor
<1>1. todo # {} /\ batch # {} /\ batch \subseteq log[Current]
  BY DEF BatchInLog, Working
<1>2. Max(batch) \in log[Current] /\ Max(batch) \in Times /\ Current \in Conns
  BY <1>1, NewestOfBatch, CurrentInTodo
<1>3. TypeOK'
  BY <1>2 DEF TypeOK
<1>4. WrittenInOrder'
  <2> SUFFICES ASSUME NEW c \in Conns
               PROVE  cursor'[c] <= Len(entries) /\ \A q \in queue : cursor'[c] < q /\ \A e \in log[c] : e < q
    BY DEF WrittenInOrder
  <2>1. cursor'[c] = cursor[c] \/ (c = Current /\ cursor'[c] = Max(batch))
    BY DEF TypeOK
  <2>2. Max(batch) \in 1..Len(entries)
    BY <1>2 DEF LogOfConn, TypeOK
  <2> QED BY <1>2, <2>1, <2>2 DEF WrittenInOrder
<1>5. BatchInLog' /\ LogOfConn'
  BY DEF BatchInLog, Working, LogOfConn, Conn
<1> QED BY <1>3, <1>4, <1>5

LEMMA NextFiles ==
    ASSUME FileInv, [Next]_vars
    PROVE  FileInv'
<1>1. CASE UNCHANGED vars
  BY <1>1 DEF FileInv, TypeOK, BatchInLog, Working, Current, LogOfConn, Conn, WrittenInOrder, vars, files
<1>2. CASE Next
  BY <1>2, LogQAFiles, WriteQAEntryFiles, WriteHalfFiles, SummarizeFiles, LoadEntriesFiles,
     TruncatePatternsFiles, WritePatternsFiles, TruncateCursorFiles, WriteCursorFiles, ReturnFiles,
     CrashFiles DEF Next
<1> QED BY <1>1, <1>2

\* Every variable keeps its type.
THEOREM TypeCorrect == Spec => []TypeOK
<1>1. FileInv => TypeOK
  BY DEF FileInv
<1> QED BY InitFiles, NextFiles, <1>1, PTL DEF Spec

-----------------------------------------------------------------------------
(* CountInv, when no call gives a `since`.                                 *)

LEMMA InitCounts == Init => CountInv
<1> SUFFICES ASSUME Init PROVE CountInv
  OBVIOUS
<1> USE SummarizerAssumption DEF Init
<1>1. NoSince /\ BatchIsNew /\ BatchCovers /\ BatchCounted /\ CursorCovers
  BY DEF NoSince, BatchIsNew, BatchCovers, BatchCounted, CursorCovers, Working
<1>2. OnlyLogged /\ OnceUnlessSettled /\ StartCovered
  BY DEF OnlyLogged, OnceUnlessSettled, StartCovered
<1> QED BY <1>1, <1>2 DEF CountInv

\* Numbers that the steps below compare.
LEMMA Numbers ==
    ASSUME FileInv
    PROVE  /\ faults \in Nat /\ DOMAIN counted = 1..MaxEntries /\ MaxEntries \in Nat
           /\ DOMAIN entries = 1..Len(entries) /\ Len(entries) \in 0..MaxEntries
           /\ \A e \in DOMAIN entries : counted[e] \in Nat /\ e \in Nat /\ Conn(e) \in Conns
           /\ \A c \in Conns : cursor[c] \in Nat /\ \A e \in log[c] : e \in Nat /\ 0 < e
BY SummarizerAssumption DEF FileInv, TypeOK, Times, Conn

LEMMA LogQACounts ==
    ASSUME FileInv, CountInv, NEW c \in Conns, NEW k \in Clusters, LogQA(c, k)
    PROVE  CountInv'
<1> USE Numbers DEF CountInv, LogQA, files
<1> DEFINE n == Len(entries) + 1
<1>1. /\ DOMAIN entries' = DOMAIN entries \cup {n} /\ n \in DOMAIN counted
      /\ \A e \in DOMAIN entries : Conn(e)' = Conn(e)
  BY SMTT(30) DEF FileInv, TypeOK, Conn
<1>2. counted[n] \in Nat /\ ~(counted[n] > 0)
  BY DEF OnlyLogged, FileInv, TypeOK
<1>3. NoSince' /\ BatchIsNew' /\ BatchCovers' /\ BatchCounted' /\ CursorCovers'
  BY DEF NoSince, BatchIsNew, BatchCovers, BatchCounted, CursorCovers, Working
<1>4. OnlyLogged' /\ StartCovered'
  BY <1>1 DEF OnlyLogged, StartCovered
<1>5. OnceUnlessSettled'
  BY <1>1, <1>2 DEF OnceUnlessSettled, Settled
<1> QED BY <1>3, <1>4, <1>5

LEMMA WriteQAEntryCounts ==
    ASSUME FileInv, CountInv, NEW ok \in BOOLEAN, WriteQAEntry(ok)
    PROVE  CountInv'
<1> USE DEF CountInv
<1> DEFINE e == Min(queue)
<1>1. e \in queue /\ Conn(e) \in Conns
  BY NextWritten DEF WriteQAEntry, FileInv
<1>2. /\ log' = log \/ log' = [log EXCEPT ![Conn(e)] = @ \cup {e}]
      /\ UNCHANGED <<entries, bad, patterns, blank, cursor, pc, period, todo, batch, counted, start, faults>>
  BY DEF WriteQAEntry
<1> HIDE DEF e
<1>3. /\ \A d \in Conns : log[d] \subseteq log'[d] /\ \A x \in log'[d] : x \in log[d] \/ x = e
      /\ e \in Nat
  <2>1. e \in Nat
    BY <1>1 DEF FileInv, TypeOK
  <2>2. PICK c \in Conns : log' = log \/ log' = [log EXCEPT ![c] = @ \cup {e}]
    BY <1>1, <1>2
  <2>3. DOMAIN log = Conns
    BY DEF FileInv, TypeOK
  <2> QED BY <2>1, <2>2, <2>3
<1>4. \A d \in Conns : cursor[d] < e /\ \A x \in log[d] : x < e
  BY <1>1 DEF FileInv, WrittenInOrder
<1>5. Current' = Current /\ Working' = Working /\ \A x : Conn(x)' = Conn(x)
  BY <1>2 DEF Current, Working, Conn
<1>6. Working => Current \in Conns /\ batch \subseteq log[Current]
  BY CurrentInTodo DEF FileInv, BatchInLog
<1>7. NoSince' /\ BatchIsNew' /\ BatchCounted' /\ OnlyLogged'
  BY <1>2, <1>5 DEF NoSince, BatchIsNew, BatchCounted, OnlyLogged
<1>8. BatchCovers'
  BY Numbers, <1>2, <1>3, <1>4, <1>5, <1>6 DEF BatchCovers
<1>9. CursorCovers'
  BY Numbers, <1>2, <1>3, <1>4 DEF CursorCovers
<1>10. OnceUnlessSettled'
  BY <1>2, <1>5 DEF OnceUnlessSettled, Settled
<1>11. StartCovered'
  BY <1>2, <1>3, <1>5 DEF StartCovered
<1> QED BY <1>7, <1>8, <1>9, <1>10, <1>11

LEMMA WriteHalfCounts ==
    ASSUME FileInv, CountInv, WriteHalf
    PROVE  CountInv'
<1> USE DEF CountInv
<1>1. /\ faults' = faults + 1
      /\ UNCHANGED <<entries, log, patterns, blank, cursor, pc, period, todo, batch, counted, start>>
  BY DEF WriteHalf
<1>2. Current' = Current /\ Working' = Working
  BY <1>1 DEF Current, Working
<1>3. NoSince' /\ BatchIsNew' /\ BatchCovers' /\ BatchCounted' /\ CursorCovers' /\ OnlyLogged' /\ StartCovered'
  BY <1>1, <1>2 DEF NoSince, BatchIsNew, BatchCovers, BatchCounted, CursorCovers, OnlyLogged, StartCovered
<1>4. OnceUnlessSettled'
  BY Numbers, <1>1 DEF OnceUnlessSettled
<1> QED BY <1>3, <1>4

LEMMA SummarizeCounts ==
    ASSUME NoSinceGiven, FileInv, CountInv, NEW p \in Periods, Summarize(p)
    PROVE  CountInv'
<1> USE DEF CountInv, Summarize, files
<1>1. NoSince'
  BY DEF NoSince, NoSinceGiven
<1>2. BatchIsNew' /\ BatchCovers' /\ BatchCounted'
  BY DEF BatchIsNew, BatchCovers, BatchCounted, Working
<1>3. CursorCovers' /\ OnlyLogged'
  BY DEF CursorCovers, OnlyLogged
<1>4. OnceUnlessSettled'
  BY DEF OnceUnlessSettled, Settled, Conn
<1>5. StartCovered'
  BY DEF StartCovered, Working
<1> QED BY <1>1, <1>2, <1>3, <1>4, <1>5

\* The tool ends between patterns.json and the cursor only by a fault.
LEMMA OverCounts ==
    ASSUME FileInv, CountInv, Over, UNCHANGED <<entries, log, cursor, counted>>,
           \/ faults' = faults /\ pc \notin {"truncate", "cursor"}
           \/ faults' = faults + 1
    PROVE  CountInv'
<1> USE DEF CountInv
<1>1. NoSince' /\ BatchIsNew' /\ BatchCovers' /\ BatchCounted'
  BY DEF Over, NoSince, BatchIsNew, BatchCovers, BatchCounted, Working
<1>2. CursorCovers' /\ OnlyLogged'
  BY DEF CursorCovers, OnlyLogged
<1>3. StartCovered'
  BY DEF StartCovered, Over
<1>4. OnceUnlessSettled'
  <2>1. CASE faults' = faults /\ pc \notin {"truncate", "cursor"}
    BY <2>1 DEF OnceUnlessSettled, Settled, Conn
  <2>2. CASE faults' = faults + 1
    BY <2>2, Numbers DEF OnceUnlessSettled
  <2> QED BY <2>1, <2>2
<1> QED BY <1>1, <1>2, <1>3, <1>4

LEMMA LoadEntriesCounts ==
    ASSUME FileInv, CountInv, LoadEntries
    PROVE  CountInv'
<1> USE DEF CountInv
<1>1. /\ pc = "load" /\ todo # {} /\ Current \in Conns
      /\ UNCHANGED <<entries, queue, log, bad, patterns, blank, cursor, counted, faults>>
  BY CurrentInTodo DEF LoadEntries, files, FileInv
<1>2. CASE Current \in bad
  BY <1>1, <1>2, OverCounts DEF LoadEntries
<1>3. CASE Current \notin bad
  <2> DEFINE new == {e \in log[Current] : InPeriod(Current, e)}
  <2>1. /\ batch' = new /\ UNCHANGED <<period, start>>
        /\ \/ new = {} /\ todo' = todo \ {Current} /\ pc' = "load"
           \/ new # {} /\ todo' = todo /\ pc' = "upsert" /\ Current' = Current
    BY <1>1, <1>3 DEF LoadEntries, Current
  <2>2. \A e \in log[Current] : e \in new <=> e > cursor[Current] /\ (period[2] # None => e <= period[2])
    BY DEF InPeriod, Since, NoSince
  <2>3. period[2] \in Nat
    BY SummarizerAssumption DEF FileInv, TypeOK, Times
  <2>4. new \subseteq log[Current]
    OBVIOUS
  <2>5. \A e \in log[Current] : e <= cursor[Current] => counted[e] > 0
    BY <1>1 DEF CursorCovers
  <2> HIDE DEF new
  <2>6. NoSince' /\ CursorCovers' /\ OnlyLogged' /\ BatchCounted'
    BY <1>1, <2>1 DEF NoSince, CursorCovers, OnlyLogged, BatchCounted
  <2>7. BatchIsNew'
    BY Numbers, <1>1, <2>1, <2>2, <2>4 DEF BatchIsNew, Working
  <2>8. BatchCovers'
    <3> SUFFICES ASSUME new # {}, NEW e \in log[Current], NEW b \in new, e <= b
                 PROVE  e \in new \/ counted[e] > 0
      BY <1>1, <2>1 DEF BatchCovers, Working
    <3>1. e \in Nat /\ b \in Nat /\ cursor[Current] \in Nat
      BY Numbers, <1>1, <2>4
    <3>2. CASE e <= cursor[Current]
      BY <3>2, <2>5
    <3>3. CASE e > cursor[Current]
      BY <3>1, <3>3, <2>2, <2>3, <2>4
    <3> QED BY <3>1, <3>2, <3>3
  <2>9. OnceUnlessSettled'
    BY <1>1, <2>1 DEF OnceUnlessSettled, Settled, Conn
  <2>10. StartCovered'
    <3>1. ASSUME period[2] = None, NEW e \in start[Current]
          PROVE  e \in new \/ counted[e] > 0
      <4>1. e \in log[Current] /\ e \in Nat /\ cursor[Current] \in Nat
        BY Numbers, <1>1, <3>1 DEF StartCovered
      <4> QED BY <3>1, <4>1, <2>2, <2>5
    <3>2. \A d \in Conns : start'[d] \subseteq log'[d]
      BY <1>1, <2>1 DEF StartCovered
    <3>3. CASE new = {}
      BY <1>1, <2>1, <3>1, <3>2, <3>3 DEF StartCovered, Working
    <3>4. CASE new # {}
      BY <1>1, <2>1, <3>1, <3>2, <3>4 DEF StartCovered, Working
    <3> QED BY <3>3, <3>4
  <2> QED BY <2>6, <2>7, <2>8, <2>9, <2>10
<1> QED BY <1>2, <1>3

LEMMA TruncatePatternsCounts ==
    ASSUME FileInv, CountInv, TruncatePatterns
    PROVE  CountInv'
<1> USE DEF CountInv
<1>1. pc = "upsert" /\ UNCHANGED <<entries, queue, log, bad, patterns, cursor, counted, faults>>
  BY DEF TruncatePatterns
<1>2. CASE Current \in blank
  BY <1>1, <1>2, OverCounts DEF TruncatePatterns
<1>3. CASE Current \notin blank
  <2>1. pc' = "patterns" /\ UNCHANGED <<period, todo, batch, start>> /\ Current' = Current
    BY <1>3 DEF TruncatePatterns, Current
  <2>2. NoSince' /\ BatchIsNew' /\ BatchCovers' /\ BatchCounted' /\ CursorCovers' /\ OnlyLogged'
    BY <1>1, <2>1 DEF NoSince, BatchIsNew, BatchCovers, BatchCounted, CursorCovers, OnlyLogged, Working
  <2>3. OnceUnlessSettled'
    BY <1>1, <2>1 DEF OnceUnlessSettled, Settled, Conn
  <2>4. StartCovered'
    BY <1>1, <2>1 DEF StartCovered, Working
  <2> QED BY <2>2, <2>3, <2>4
<1> QED BY <1>2, <1>3

LEMMA WritePatternsCounts ==
    ASSUME FileInv, CountInv, WritePatterns
    PROVE  CountInv'
<1> USE DEF CountInv
<1>1. /\ pc = "patterns" /\ pc' = "truncate"
      /\ UNCHANGED <<entries, queue, log, bad, cursor, period, todo, batch, start, faults>>
      /\ Current' = Current /\ \A x : Conn(x)' = Conn(x)
  BY DEF WritePatterns, Current, Conn
<1>2. /\ Current \in Conns /\ batch \subseteq log[Current]
      /\ \A b \in batch : b \in DOMAIN entries /\ Conn(b) = Current /\ b \in Nat
  BY <1>1, CurrentInTodo, Numbers DEF FileInv, BatchInLog, LogOfConn, Working
<1>3. /\ DOMAIN counted' = DOMAIN counted
      /\ \A e \in DOMAIN counted : counted[e] \in Nat /\ counted'[e] = IF e \in batch THEN counted[e] + 1 ELSE counted[e]
  BY DEF WritePatterns, FileInv, TypeOK
<1>4. /\ DOMAIN entries \subseteq DOMAIN counted
      /\ \A c \in Conns : log[c] \subseteq DOMAIN counted
  BY Numbers DEF FileInv, TypeOK
<1>5. NoSince' /\ BatchIsNew'
  BY <1>1 DEF NoSince, BatchIsNew, Working
<1>6. BatchCounted'
  BY <1>1, <1>2, <1>3, <1>4 DEF BatchCounted
<1>7. BatchCovers'
  BY <1>1, <1>2, <1>3, <1>4 DEF BatchCovers, Working
<1>8. CursorCovers'
  BY <1>1, <1>3, <1>4 DEF CursorCovers
<1>9. OnlyLogged'
  BY <1>1, <1>2, <1>3 DEF OnlyLogged
<1>10. OnceUnlessSettled'
  <2> SUFFICES ASSUME NEW e \in DOMAIN entries
               PROVE  counted'[e] <= 1 + faults /\ (counted'[e] > faults => Settled(e)')
    BY <1>1 DEF OnceUnlessSettled
  <2>1. /\ faults \in Nat /\ counted[e] \in Nat /\ e \in Nat
        /\ counted[e] <= 1 + faults /\ (counted[e] > faults => e <= cursor[Conn(e)])
    BY <1>1, Numbers DEF OnceUnlessSettled, Settled
  <2>2. CASE e \in batch
    <3>1. cursor[Conn(e)] < e /\ cursor[Conn(e)] \in Nat
      BY <1>1, <1>2, <2>2, Numbers DEF BatchIsNew, Working
    <3>2. counted[e] <= faults /\ counted'[e] = counted[e] + 1
      BY <1>3, <1>4, <2>1, <2>2, <3>1
    <3>3. Settled(e)'
      BY <1>1, <1>2, <2>1, <2>2 DEF Settled
    <3> QED BY <2>1, <3>2, <3>3
  <2>3. CASE e \notin batch
    <3>1. counted'[e] = counted[e]
      BY <1>3, <1>4, <2>3
    <3> QED BY <1>1, <2>1, <3>1 DEF Settled
  <2> QED BY <2>2, <2>3
<1>11. StartCovered'
  <2>1. \A c \in Conns : start[c] \subseteq log[c] /\ start[c] \subseteq DOMAIN counted
    BY <1>4 DEF StartCovered
  <2> QED BY <1>1, <1>2, <1>3, <2>1 DEF StartCovered, Working
<1> QED BY <1>5, <1>6, <1>7, <1>8, <1>9, <1>10, <1>11

LEMMA TruncateCursorCounts ==
    ASSUME FileInv, CountInv, TruncateCursor
    PROVE  CountInv'
<1> USE DEF CountInv
<1>1. /\ pc = "truncate" /\ pc' = "cursor"
      /\ UNCHANGED <<entries, queue, log, bad, patterns, blank, period, todo, batch, counted, start, faults>>
      /\ Current' = Current /\ \A x : Conn(x)' = Conn(x)
  BY DEF TruncateCursor, Current, Conn
<1>2. /\ Current \in Conns /\ batch # {} /\ batch \subseteq log[Current]
      /\ \A b \in batch : b \in Nat /\ 0 < b /\ cursor[Current] < b
  BY <1>1, CurrentInTodo, Numbers DEF FileInv, BatchInLog, BatchIsNew, Working
<1>3. \A c \in Conns : cursor'[c] = IF c = Current THEN 0 ELSE cursor[c]
  BY DEF TruncateCursor, None, FileInv, TypeOK
<1>4. NoSince' /\ BatchCovers' /\ BatchCounted' /\ OnlyLogged'
  BY <1>1 DEF NoSince, BatchCovers, BatchCounted, OnlyLogged, Working
<1>5. BatchIsNew'
  BY <1>1, <1>2, <1>3 DEF BatchIsNew
<1>6. CursorCovers'
  BY <1>1, <1>3, Numbers DEF CursorCovers
<1>7. OnceUnlessSettled'
  <2> SUFFICES ASSUME NEW e \in DOMAIN entries, Settled(e)
               PROVE  Settled(e)'
    BY <1>1 DEF OnceUnlessSettled
  <2>1. e \in Nat /\ Conn(e) \in Conns /\ cursor[Conn(e)] \in Nat
    BY Numbers
  <2>2. CASE Conn(e) = Current
    BY <1>1, <1>2, <2>1, <2>2 DEF Settled
  <2>3. CASE Conn(e) # Current
    BY <1>1, <1>3, <2>1, <2>3 DEF Settled
  <2> QED BY <2>2, <2>3
<1>8. StartCovered'
  BY <1>1 DEF StartCovered, Working
<1> QED BY <1>4, <1>5, <1>6, <1>7, <1>8

LEMMA WriteCursorCounts ==
    ASSUME FileInv, CountInv, WriteCursor
    PROVE  CountInv'
<1> USE DEF CountInv
<1>1. /\ pc = "cursor" /\ pc' = "load" /\ todo' = todo \ {Current} /\ batch' = {}
      /\ UNCHANGED <<entries, queue, log, bad, patterns, blank, period, counted, start, faults>>
      /\ \A x : Conn(x)' = Conn(x)
  BY DEF WriteCursor, Conn
<1>2. /\ Current \in Conns /\ batch # {} /\ batch \subseteq log[Current]
      /\ \A b \in batch : b \in Nat /\ cursor[Current] < b /\ counted[b] > 0
  BY <1>1, CurrentInTodo, Numbers DEF FileInv, BatchInLog, BatchIsNew, BatchCounted, Working
<1>3. PICK m \in batch : m = Max(batch) /\ \A b \in batch : b <= m
  BY <1>2, NewestOfBatch DEF FileInv
<1>4. \A c \in Conns : cursor'[c] = IF c = Current THEN m ELSE cursor[c]
  BY <1>3 DEF WriteCursor, FileInv, TypeOK
<1>5. NoSince' /\ BatchIsNew' /\ BatchCovers' /\ BatchCounted' /\ OnlyLogged'
  BY <1>1 DEF NoSince, BatchIsNew, BatchCovers, BatchCounted, OnlyLogged, Working
<1>6. CursorCovers'
  BY <1>1, <1>2, <1>3, <1>4 DEF CursorCovers, BatchCovers, Working
<1>7. OnceUnlessSettled'
  <2> SUFFICES ASSUME NEW e \in DOMAIN entries, Settled(e)
               PROVE  Settled(e)'
    BY <1>1 DEF OnceUnlessSettled
  <2>1. e \in Nat /\ Conn(e) \in Conns /\ cursor[Conn(e)] \in Nat
    BY Numbers
  <2>2. CASE Conn(e) = Current
    <3>1. e <= m
      BY <1>2, <1>3, <2>1, <2>2 DEF Settled
    <3> QED BY <1>1, <1>4, <2>1, <2>2, <3>1 DEF Settled
  <2>3. CASE Conn(e) # Current
    BY <1>1, <1>4, <2>1, <2>3 DEF Settled
  <2> QED BY <2>2, <2>3
<1>8. StartCovered'
  BY <1>1, <1>2 DEF StartCovered, Working
<1> QED BY <1>5, <1>6, <1>7, <1>8

LEMMA NextCounts ==
    ASSUME NoSinceGiven, FileInv, CountInv, [Next]_vars
    PROVE  CountInv'
<1>1. CASE UNCHANGED vars
  BY <1>1 DEF CountInv, NoSince, BatchIsNew, BatchCovers, BatchCounted, CursorCovers, OnlyLogged,
     OnceUnlessSettled, Settled, StartCovered, Working, Current, Conn, vars, files
<1>2. CASE Return
  BY <1>2, OverCounts DEF Return, files
<1>3. CASE Crash
  BY <1>3, OverCounts DEF Crash, files
<1>4. CASE Next
  BY <1>2, <1>3, <1>4, LogQACounts, WriteQAEntryCounts, WriteHalfCounts, SummarizeCounts,
     LoadEntriesCounts, TruncatePatternsCounts, WritePatternsCounts, TruncateCursorCounts,
     WriteCursorCounts DEF Next
<1> QED BY <1>1, <1>4

THEOREM Counting == ASSUME NoSinceGiven PROVE Spec => [](FileInv /\ CountInv)
<1>1. Init => FileInv /\ CountInv
  BY InitFiles, InitCounts
<1>2. FileInv /\ CountInv /\ [Next]_vars => (FileInv /\ CountInv)'
  BY NoSinceGiven, NextFiles, NextCounts
<1> QED BY <1>1, <1>2, PTL DEF Spec

\* The cursor passes no entry of a log file that has not been counted, whatever
\* crashes and however late the entries are written.
THEOREM NothingSkipped == ASSUME NoSinceGiven PROVE Spec => []CursorCovers
<1>1. FileInv /\ CountInv => CursorCovers
  BY DEF CountInv
<1> QED BY Counting, NoSinceGiven, <1>1, PTL

\* An entry is counted once, and once more for each fault at the worst.
THEOREM CountedOnce == ASSUME NoSinceGiven PROVE Spec => []CountedOncePerFault
<1>1. FileInv /\ CountInv => CountedOncePerFault
  BY DEF CountInv, OnceUnlessSettled, CountedOncePerFault
<1> QED BY Counting, NoSinceGiven, <1>1, PTL

\* A call without `until` that returns has counted what was in the logs of all
\* connections when it was made.
THEOREM CallCovers == ASSUME NoSinceGiven PROVE Spec => ReturnCovers
<1>1. FileInv /\ CountInv /\ [Next]_vars =>
        [Return /\ period[2] = None => \A c \in Conns : \A e \in start[c] : counted[e] > 0]_vars
  BY DEF CountInv, StartCovered, Return
<1> QED BY Counting, NoSinceGiven, <1>1, PTL DEF Spec, ReturnCovers
-----------------------------------------------------------------------------
(* The frequencies, whatever the callers give.                             *)

\* Every connection, those whose patterns.json is truncated too: nothing is
\* counted for them any more.
FrequencyInv ==
    \A c \in Conns, i \in Ids :
        /\ patterns[c][i].frequency = SumFunctionOnSet(counted, CountedOf(c, i))
        /\ patterns[c][i].last_seen = Max(CountedOf(c, i) \cup {None})

LEMMA CountedOfFinite ==
    ASSUME TypeOK, NEW c, NEW i
    PROVE  /\ CountedOf(c, i) \in SUBSET (1..MaxEntries) /\ IsFiniteSet(CountedOf(c, i))
           /\ \A e \in 1..MaxEntries : counted[e] \in Nat
<1>1. MaxEntries \in Nat /\ DOMAIN entries \subseteq 1..MaxEntries
  BY SummarizerAssumption DEF TypeOK
<1>2. CountedOf(c, i) \in SUBSET (1..MaxEntries)
  BY <1>1 DEF CountedOf
<1>3. IsFiniteSet(CountedOf(c, i))
  <2>1. IsFiniteSet(1..MaxEntries)
    BY <1>1, FS_Interval
  <2> QED BY <2>1, <1>2, FS_Subset
<1> QED BY <1>2, <1>3 DEF TypeOK

\* The newest of a set, and of a batch with the newest of that set, is the
\* newest of both.
LEMMA NewestOfBoth ==
    ASSUME NEW n \in Nat, NEW A \in SUBSET (1..n), NEW B \in SUBSET (1..n), B # {}
    PROVE  Max(B \cup {Max(A \cup {0})}) = Max((A \cup B) \cup {0})
<1> DEFINE a == Max(A \cup {0})
           l == Max(B \cup {a})
           r == Max((A \cup B) \cup {0})
<1>1. a \in A \cup {0} /\ \A k \in A \cup {0} : k <= a
  <2>1. A \cup {0} \in SUBSET (0..n) /\ A \cup {0} # {}
    OBVIOUS
  <2> QED BY <2>1, GreatestOf
<1> HIDE DEF a
<1>2. l \in B \cup {a} /\ \A k \in B \cup {a} : k <= l
  <2>1. B \cup {a} \in SUBSET (0..n) /\ B \cup {a} # {}
    BY <1>1
  <2> QED BY <2>1, GreatestOf
<1> HIDE DEF l
<1>3. r \in (A \cup B) \cup {0} /\ \A k \in (A \cup B) \cup {0} : k <= r
  <2>1. (A \cup B) \cup {0} \in SUBSET (0..n) /\ (A \cup B) \cup {0} # {}
    OBVIOUS
  <2> QED BY <2>1, GreatestOf
<1> HIDE DEF r
<1>4. l \in Nat /\ r \in Nat /\ a \in Nat
  BY <1>1, <1>2, <1>3
<1>5. l <= r
  BY <1>1, <1>2, <1>3
<1>6. r <= l
  BY <1>1, <1>2, <1>3, <1>4
<1>7. l = r
  BY <1>4, <1>5, <1>6
<1> QED BY <1>7 DEF a, l, r

LEMMA InitFrequency == Init => OnlyLogged /\ FrequencyInv
<1> SUFFICES ASSUME Init PROVE OnlyLogged /\ FrequencyInv
  OBVIOUS
<1> USE SummarizerAssumption DEF Init
<1>1. OnlyLogged
  BY DEF OnlyLogged
<1>2. ASSUME NEW c \in Conns, NEW i \in Ids
      PROVE  /\ patterns[c][i].frequency = SumFunctionOnSet(counted, CountedOf(c, i))
             /\ patterns[c][i].last_seen = Max(CountedOf(c, i) \cup {None})
  <2>1. CountedOf(c, i) = {}
    BY DEF CountedOf
  <2>2. SumFunctionOnSet(counted, {}) = 0
    <3>1. IsFiniteSet(1..MaxEntries) /\ \A e \in 1..MaxEntries : counted[e] \in Nat
      BY FS_Interval
    <3> QED BY <3>1, SumType
  <2>3. Max({} \cup {None}) = None
    <3>1. {} \cup {None} \in SUBSET (0..0) /\ {} \cup {None} = {None} /\ 0 \in Nat
      BY DEF None
    <3>2. Max({} \cup {None}) \in {} \cup {None}
      BY <3>1, GreatestOf
    <3> QED BY <3>2
  <2>4. patterns[c][i] = Absent
    OBVIOUS
  <2> QED BY <2>1, <2>2, <2>3, <2>4 DEF Absent
<1> QED BY <1>1, <1>2 DEF FrequencyInv

\* A step that counts nothing keeps them: the entries that were counted are
\* still the same, of the same connection and cluster.
LEMMA KeepsFrequency ==
    ASSUME FileInv, FileInv', OnlyLogged, FrequencyInv, UNCHANGED <<patterns, counted>>,
           DOMAIN entries \subseteq DOMAIN entries',
           \A e \in DOMAIN entries : entries'[e] = entries[e]
    PROVE  (OnlyLogged /\ FrequencyInv)'
<1>1. OnlyLogged'
  BY DEF OnlyLogged
<1>2. ASSUME NEW c \in Conns, NEW i \in Ids PROVE CountedOf(c, i)' = CountedOf(c, i)
  <2>1. \A e \in DOMAIN entries' : counted[e] > 0 => e \in DOMAIN entries
    <3> SUFFICES ASSUME NEW e \in DOMAIN entries', counted[e] > 0
                 PROVE  e \in DOMAIN entries
      OBVIOUS
    <3>1. e \in DOMAIN counted
      BY SummarizerAssumption DEF FileInv, TypeOK
    <3> QED BY <3>1 DEF OnlyLogged
  <2> QED BY <2>1 DEF CountedOf, Conn, Id
<1> QED BY <1>1, <1>2 DEF FrequencyInv

LEMMA WritePatternsFrequency ==
    ASSUME FileInv, OnlyLogged, FrequencyInv, WritePatterns
    PROVE  (OnlyLogged /\ FrequencyInv)'
<1>1. /\ pc = "patterns"
      /\ UNCHANGED <<entries, queue, log, bad, cursor, period, todo, batch, start, faults>>
      /\ \A e : Conn(e)' = Conn(e) /\ Id(e)' = Id(e)
  BY DEF WritePatterns, Conn, Id
<1>2. /\ Current \in Conns /\ batch \subseteq log[Current]
      /\ \A b \in batch : b \in DOMAIN entries /\ Conn(b) = Current
  BY <1>1, CurrentInTodo DEF FileInv, BatchInLog, LogOfConn, Working
<1>3. /\ DOMAIN counted' = DOMAIN counted /\ DOMAIN counted = 1..MaxEntries
      /\ \A e \in DOMAIN counted :
            counted[e] \in Nat /\ counted'[e] = IF e \in batch THEN counted[e] + 1 ELSE counted[e]
  BY DEF WritePatterns, FileInv, TypeOK
<1>4. DOMAIN entries \subseteq DOMAIN counted
  BY <1>3, Numbers
<1>5. OnlyLogged'
  BY <1>1, <1>2, <1>3 DEF OnlyLogged
<1>6. ASSUME NEW c \in Conns, NEW i \in Ids
      PROVE  /\ patterns'[c][i].frequency = SumFunctionOnSet(counted', CountedOf(c, i)')
             /\ patterns'[c][i].last_seen = Max(CountedOf(c, i)' \cup {None})
  <2> DEFINE A == CountedOf(c, i)
             B == IF c = Current THEN {e \in batch : Id(e) = i} ELSE {}
  <2>1. /\ A \in SUBSET (1..MaxEntries) /\ B \in SUBSET (1..MaxEntries)
        /\ IsFiniteSet(A) /\ IsFiniteSet(B)
    <3>1. A \in SUBSET (1..MaxEntries) /\ IsFiniteSet(A)
      BY CountedOfFinite DEF FileInv
    <3>2. B \in SUBSET (1..MaxEntries)
      BY DEF FileInv, TypeOK
    <3>3. MaxEntries \in Int /\ 1 \in Int
      BY SummarizerAssumption
    <3> QED BY <3>1, <3>2, <3>3, FS_Interval, FS_Subset
  <2>2. CountedOf(c, i)' = A \cup B
    <3>1. \A e \in DOMAIN entries : counted[e] \in Nat /\
             (counted'[e] > 0 <=> counted[e] > 0 \/ e \in batch)
      BY <1>3, <1>4
    <3> QED BY <1>1, <1>2, <3>1 DEF CountedOf
  <2>3. \A e \in A \cup B : counted[e] \in Nat
    BY <1>3, <2>1
  <2>4. \A e \in B \ A : counted[e] = 0
    BY <1>2, <1>3, <1>4 DEF CountedOf
  <2>5. \A e \in A \cup B : counted'[e] = IF e \in B THEN counted[e] + 1 ELSE counted[e]
    BY <1>2, <1>3, <2>1 DEF CountedOf
  <2>6. patterns[c][i].frequency = SumFunctionOnSet(counted, A) /\ patterns[c][i].last_seen = Max(A \cup {0})
    BY DEF FrequencyInv, None
  <2>7. patterns'[c][i] = Merged(patterns[c][i], B)
    <3>1. DOMAIN patterns = Conns /\ patterns[c] \in [Ids -> [frequency : Nat, last_seen : Times]]
      BY DEF FileInv, TypeOK
    <3>2. CASE c = Current
      BY <3>1, <3>2 DEF WritePatterns
    <3>3. CASE c # Current
      BY <3>1, <3>3 DEF WritePatterns, Merged
    <3> QED BY <3>2, <3>3
  <2> HIDE DEF A, B
  <2>8. SumFunctionOnSet(counted', A \cup B) = SumFunctionOnSet(counted, A) + Cardinality(B)
    BY <2>1, <2>3, <2>4, <2>5, SumOfOneMoreEach
  <2>9. CASE B = {}
    <3>1. Cardinality(B) = 0 /\ A \cup B = A /\ SumFunctionOnSet(counted, A) \in Nat
      BY <2>1, <2>3, <2>9, FS_EmptySet, SumType
    <3> QED BY <2>2, <2>6, <2>7, <2>8, <2>9, <3>1 DEF Merged, None
  <2>10. CASE B # {}
    <3>1. Max(B \cup {Max(A \cup {0})}) = Max((A \cup B) \cup {0})
      <4>1. MaxEntries \in Nat
        BY SummarizerAssumption
      <4> QED BY <2>1, <2>10, <4>1, NewestOfBoth, ZenonT(60)
    <3> QED BY <2>2, <2>6, <2>7, <2>8, <2>10, <3>1 DEF Merged, None
  <2> QED BY <2>9, <2>10
<1> QED BY <1>5, <1>6 DEF FrequencyInv

LEMMA NextFrequency ==
    ASSUME FileInv, OnlyLogged, FrequencyInv, [Next]_vars
    PROVE  (OnlyLogged /\ FrequencyInv)'
<1>0. FileInv'
  BY NextFiles
<1>1. CASE WritePatterns
  BY <1>1, WritePatternsFrequency
<1>2. ASSUME NEW c \in Conns, NEW k \in Clusters, LogQA(c, k)
      PROVE  (OnlyLogged /\ FrequencyInv)'
  <2>1. UNCHANGED <<patterns, counted>>
    BY <1>2 DEF LogQA, files
  <2>2. DOMAIN entries \subseteq DOMAIN entries' /\ \A e \in DOMAIN entries : entries'[e] = entries[e]
    BY <1>2 DEF LogQA, FileInv, TypeOK
  <2> QED BY <1>0, <2>1, <2>2, KeepsFrequency
<1>3. CASE UNCHANGED <<entries, patterns, counted>>
  BY <1>0, <1>3, KeepsFrequency
<1>4. CASE UNCHANGED vars
  BY <1>3, <1>4 DEF vars, files
<1>5. CASE Next
  <2>1. \/ WritePatterns \/ (\E c \in Conns, k \in Clusters : LogQA(c, k))
        \/ UNCHANGED <<entries, patterns, counted>>
    BY <1>5 DEF Next, WriteQAEntry, WriteHalf, Summarize, LoadEntries, TruncatePatterns,
       TruncateCursor, WriteCursor, Return, Crash, files
  <2> QED BY <2>1, <1>1, <1>2, <1>3
<1> QED BY <1>4, <1>5

THEOREM Frequencies == Spec => []FrequencyInv
<1>1. Init => FileInv /\ OnlyLogged /\ FrequencyInv
  BY InitFiles, InitFrequency
<1>2. FileInv /\ OnlyLogged /\ FrequencyInv /\ [Next]_vars => (FileInv /\ OnlyLogged /\ FrequencyInv)'
  BY NextFiles, NextFrequency
<1> QED BY <1>1, <1>2, PTL DEF Spec

\* The frequency of a pattern is the sum over its entries of how often each was
\* counted, and last_seen its newest counted entry, whatever periods are asked
\* for, over crashes, half-written lines and clusters with one identifier.
THEOREM FrequencyCounts == Spec => []FrequencyIsCounted
<1>1. FrequencyInv => FrequencyIsCounted
  BY DEF FrequencyInv, FrequencyIsCounted
<1> QED BY Frequencies, <1>1, PTL

\* A call that gives no `since` counts no entry a second time while there was
\* no fault.
THEOREM DefaultOnce == ASSUME NoSinceGiven PROVE Spec => DefaultCountsOnce
<1>1. FileInv /\ CountInv /\ [Next]_vars =>
        [faults = 0 /\ WritePatterns /\ period[1] = None => \A e \in batch : counted[e] = 0]_vars
  <2> SUFFICES ASSUME FileInv, CountInv, faults = 0, WritePatterns, NEW e \in batch
               PROVE  counted[e] = 0
    OBVIOUS
  <2>1. pc = "patterns" /\ e \in log[Current] /\ Current \in Conns
    BY CurrentInTodo DEF WritePatterns, FileInv, BatchInLog, Working
  <2>2. e \in DOMAIN entries /\ Conn(e) = Current
    BY <2>1 DEF FileInv, LogOfConn
  <2>3. e \in Nat /\ cursor[Current] \in Nat /\ cursor[Current] < e /\ counted[e] \in Nat
    BY <2>1, <2>2, Numbers DEF CountInv, BatchIsNew, Working
  <2>4. ~ Settled(e)
    BY <2>1, <2>2, <2>3 DEF Settled
  <2> QED BY <2>2, <2>3, <2>4 DEF CountInv, OnceUnlessSettled
<1> QED BY Counting, NoSinceGiven, <1>1, PTL DEF Spec, DefaultCountsOnce
=============================================================================

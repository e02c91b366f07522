------------------------- MODULE PatternSummarizer -------------------------
(***************************************************************************)
(* The query patterns that server/learning/pattern_summarizer.py counts in *)
(* the Q&A log files of every connection, while server/learning/           *)
(* qa_logger.py and background_writer.py append to them.  One server       *)
(* process; its tools run one at a time, its writer thread meanwhile.      *)
(*                                                                         *)
(* An entry is its number, and the number is its timestamp: entries are    *)
(* assembled one after the other, and are written later, in that order.    *)
(* What the properties need of an entry is its connection and its cluster, *)
(* the key (skill, referenced objects).                                    *)
(***************************************************************************)
EXTENDS Naturals, Sequences, FiniteSets, FiniteSetsExt

CONSTANTS
    Conns,      (* connections, as numbers in the order of the directories *)
    Clusters,   (* the clusters of the entries                             *)
    PatternId,  (* _pattern_id: the identifier of each cluster             *)
    Periods,    (* the pairs <<since, until>> that callers give            *)
    MaxEntries, (* bound: entries of a behaviour                           *)
    MaxFaults   (* bound: crashes and half-written lines of a behaviour    *)

None == 0
Ids == {PatternId[k] : k \in Clusters}
Times == 0..MaxEntries

ASSUME SummarizerAssumption ==
    /\ Conns \subseteq Nat /\ IsFiniteSet(Conns)
    /\ IsFiniteSet(Clusters)
    /\ MaxEntries \in Nat /\ MaxFaults \in Nat
    /\ Periods \subseteq Times \X Times

VARIABLES
    entries,  (* the entries assembled so far: <<connection, cluster>>     *)
    queue,    (* those that are not written yet                            *)
    log,      (* those in the *.jsonl files of each connection             *)
    bad,      (* connections with a line that is not JSON                  *)
    patterns, (* patterns.json: frequency and last_seen of each pattern    *)
    blank,    (* connections whose patterns.json is truncated              *)
    cursor,   (* _last_summarized_at.txt; None: no file, or an empty one   *)
    pc,       (* where the tool summarize_query_patterns is                *)
    period,   (* its arguments                                             *)
    todo,     (* the connections it has still to look at                   *)
    batch,    (* the entries it counts for the current one                 *)
    counted,  (* history: how often each entry was counted                 *)
    start,    (* history: the logs when the tool was called                *)
    faults

files == <<log, bad, patterns, blank, cursor>>
vars == <<entries, queue, log, bad, patterns, blank, cursor, pc, period, todo, batch,
          counted, start, faults>>

Conn(e) == entries[e][1]
Id(e)   == PatternId[entries[e][2]]

Absent == [frequency |-> 0, last_seen |-> None]

-----------------------------------------------------------------------------
(* log_qa and the writer thread.                                           *)

LogQA(c, k) ==
    /\ pc = "idle"
    /\ Len(entries) < MaxEntries
    /\ entries' = Append(entries, <<c, k>>)
    /\ queue' = queue \cup {Len(entries) + 1}
    /\ UNCHANGED <<files, pc, period, todo, batch, counted, start, faults>>

\* An error drops the entry.
WriteQAEntry(ok) ==
    /\ queue # {}
    /\ LET e == Min(queue) IN
       /\ queue' = queue \ {e}
       /\ log' = IF ok THEN [log EXCEPT ![Conn(e)] = @ \cup {e}] ELSE log
    /\ UNCHANGED <<entries, bad, patterns, blank, cursor, pc, period, todo, batch,
                   counted, start, faults>>

\* The disk is full half-way: the entry is dropped, half a line is there.
WriteHalf ==
    /\ faults < MaxFaults
    /\ faults' = faults + 1
    /\ queue # {}
    /\ queue' = queue \ {Min(queue)}
    /\ bad' = bad \cup {Conn(Min(queue))}
    /\ UNCHANGED <<entries, log, patterns, blank, cursor, pc, period, todo, batch,
                   counted, start>>

-----------------------------------------------------------------------------
(* summarize_query_patterns.                                               *)

Summarize(p) ==
    /\ pc = "idle"
    /\ pc' = "load"
    /\ period' = p
    /\ todo' = Conns
    /\ start' = log
    /\ UNCHANGED <<entries, queue, files, batch, counted, faults>>

Current == Min(todo)

\* The tool returns, or raises; what it has done for earlier connections stays.
Over ==
    /\ pc' = "idle"
    /\ period' = <<None, None>>
    /\ todo' = {}
    /\ batch' = {}
    /\ start' = [c \in Conns |-> {}]

Since(c) == IF period[1] # None THEN period[1] ELSE cursor[c]

\* Mutant: the entry at the cursor is in the period.
InclusivePeriod(c, e) == e >= Since(c) /\ (period[2] # None => e <= period[2])

\* The period starts after `since`, or after the cursor, and includes `until`.
InPeriod(c, e) == e > Since(c) /\ (period[2] # None => e <= period[2])

\* Mutant: the first connection without new entries ends the loop.
LoadEntriesBreaks ==
    LET c == Current
        new == {e \in log[c] : InPeriod(c, e)}
    IN
    /\ pc = "load"
    /\ todo # {}
    /\ IF c \in bad THEN Over
       ELSE /\ IF new = {} THEN todo' = {} /\ UNCHANGED pc
                           ELSE pc' = "upsert" /\ UNCHANGED todo
            /\ batch' = new
            /\ UNCHANGED <<period, start>>
    /\ UNCHANGED <<entries, queue, files, counted, faults>>

\* A line that is not JSON raises; a connection without new entries is skipped.
LoadEntries ==
    LET c == Current
        new == {e \in log[c] : InPeriod(c, e)}
    IN
    /\ pc = "load"
    /\ todo # {}
    /\ IF c \in bad THEN Over
       ELSE /\ IF new = {} THEN todo' = todo \ {c} /\ UNCHANGED pc
                           ELSE pc' = "upsert" /\ UNCHANGED todo
            /\ batch' = new
            /\ UNCHANGED <<period, start>>
    /\ UNCHANGED <<entries, queue, files, counted, faults>>

\* patterns.json is read, and raises when it is not JSON; then write_text
\* truncates it.
TruncatePatterns ==
    /\ pc = "upsert"
    /\ IF Current \in blank
       THEN Over /\ UNCHANGED blank
       ELSE /\ pc' = "patterns"
            /\ blank' = blank \cup {Current}
            /\ UNCHANGED <<period, todo, batch, start>>
    /\ UNCHANGED <<entries, queue, log, bad, patterns, cursor, counted, faults>>

\* Mutant: the frequency of a known pattern is replaced.
MergedReplaces(old, mine) ==
    IF mine = {} THEN old
    ELSE [frequency |-> Cardinality(mine),
          last_seen |-> Max(mine \cup {old.last_seen})]

\* The clusters with the same identifier are added up.
Merged(old, mine) ==
    IF mine = {} THEN old
    ELSE [frequency |-> old.frequency + Cardinality(mine),
          last_seen |-> Max(mine \cup {old.last_seen})]

WritePatterns ==
    /\ pc = "patterns"
    /\ pc' = "truncate"
    /\ blank' = blank \ {Current}
    /\ patterns' = [patterns EXCEPT ![Current] =
                       [i \in Ids |-> Merged(@[i], {e \in batch : Id(e) = i})]]
    /\ counted' = [e \in DOMAIN counted |->
                      IF e \in batch THEN counted[e] + 1 ELSE counted[e]]
    /\ UNCHANGED <<entries, queue, log, bad, cursor, period, todo, batch, start, faults>>

\* _write_cursor: write_text truncates the file, then writes it.
TruncateCursor ==
    /\ pc = "truncate"
    /\ pc' = "cursor"
    /\ cursor' = [cursor EXCEPT ![Current] = None]
    /\ UNCHANGED <<entries, queue, log, bad, patterns, blank, period, todo, batch,
                   counted, start, faults>>

\* Mutant: the cursor is just after the newest entry.
WriteNextCursor ==
    /\ pc = "cursor"
    /\ pc' = "load"
    /\ cursor' = [cursor EXCEPT ![Current] = Max(batch) + 1]
    /\ todo' = todo \ {Current}
    /\ batch' = {}
    /\ UNCHANGED <<entries, queue, log, bad, patterns, blank, period,
                   counted, start, faults>>

\* Mutant: the cursor is the time of the call, beyond the entries that are
\* still in the queue.
WriteCursorNow ==
    /\ pc = "cursor"
    /\ pc' = "load"
    /\ cursor' = [cursor EXCEPT ![Current] = Len(entries)]
    /\ todo' = todo \ {Current}
    /\ batch' = {}
    /\ UNCHANGED <<entries, queue, log, bad, patterns, blank, period,
                   counted, start, faults>>

WriteCursor ==
    /\ pc = "cursor"
    /\ pc' = "load"
    /\ cursor' = [cursor EXCEPT ![Current] = Max(batch)]
    /\ todo' = todo \ {Current}
    /\ batch' = {}
    /\ UNCHANGED <<entries, queue, log, bad, patterns, blank, period,
                   counted, start, faults>>

Return ==
    /\ pc = "load"
    /\ todo = {}
    /\ Over
    /\ UNCHANGED <<entries, queue, files, counted, faults>>

-----------------------------------------------------------------------------
\* The process dies and is started again; its queue is lost.
Crash ==
    /\ faults < MaxFaults
    /\ faults' = faults + 1
    /\ queue' = {}
    /\ Over
    /\ UNCHANGED <<entries, files, counted>>

Init ==
    /\ entries = <<>>
    /\ queue = {}
    /\ log = [c \in Conns |-> {}]
    /\ bad = {}
    /\ patterns = [c \in Conns |-> [i \in Ids |-> Absent]]
    /\ blank = {}
    /\ cursor = [c \in Conns |-> None]
    /\ pc = "idle"
    /\ period = <<None, None>>
    /\ todo = {}
    /\ batch = {}
    /\ counted = [e \in 1..MaxEntries |-> 0]
    /\ start = [c \in Conns |-> {}]
    /\ faults = 0

Next ==
    \/ \E c \in Conns, k \in Clusters : LogQA(c, k)
    \/ \E ok \in BOOLEAN : WriteQAEntry(ok)
    \/ WriteHalf
    \/ \E p \in Periods : Summarize(p)
    \/ LoadEntries \/ TruncatePatterns \/ WritePatterns
    \/ TruncateCursor \/ WriteCursor \/ Return
    \/ Crash

Spec == Init /\ [][Next]_vars

-----------------------------------------------------------------------------
(* Properties.                                                             *)

TypeOK ==
    /\ entries \in Seq(Conns \X Clusters) /\ Len(entries) <= MaxEntries
    /\ queue \subseteq DOMAIN entries
    /\ log \in [Conns -> SUBSET (1..MaxEntries)]
    /\ bad \subseteq Conns
    /\ patterns \in [Conns -> [Ids -> [frequency : Nat, last_seen : Times]]]
    /\ blank \subseteq Conns
    /\ cursor \in [Conns -> Times]
    /\ pc \in {"idle", "load", "upsert", "patterns", "truncate", "cursor"}
    /\ period \in Times \X Times
    /\ todo \subseteq Conns
    /\ batch \subseteq 1..MaxEntries
    /\ counted \in [1..MaxEntries -> Nat]
    /\ start \in [Conns -> SUBSET (1..MaxEntries)]
    /\ faults \in 0..MaxFaults

CountedOf(c, i) == {e \in DOMAIN entries : Conn(e) = c /\ Id(e) = i /\ counted[e] > 0}

\* The frequency of a pattern is the number of times that its entries were
\* counted, and last_seen is the newest of them, over all the batches, with
\* the clusters that share an identifier added up.
FrequencyIsCounted ==
    \A c \in Conns \ blank, i \in Ids :
        /\ patterns[c][i].frequency = SumFunctionOnSet(counted, CountedOf(c, i))
        /\ patterns[c][i].last_seen = Max(CountedOf(c, i) \cup {None})

\* Calls that give no `since` count an entry once, and once more for each crash
\* at the worst: between patterns.json and the cursor, or in the cursor itself.
CountedOncePerFault == \A e \in DOMAIN entries : counted[e] <= 1 + faults

\* Nothing is skipped: an entry in a log file that is not after the cursor has
\* been counted.
CursorCovers ==
    \A c \in Conns : \A e \in log[c] : e <= cursor[c] => counted[e] > 0

\* When the tool returns from a call without `until`, every entry that was in
\* the log of any connection when it was called has been counted.
ReturnCovers ==
    [][Return /\ period[2] = None =>
          \A c \in Conns : \A e \in start[c] : counted[e] > 0]_vars

\* pattern_summarizer.py:24-27: a call that gives no `since` does not count
\* again what was counted, as long as nothing crashes.
DefaultCountsOnce ==
    [][faults = 0 /\ WritePatterns /\ period[1] = None =>
          \A e \in batch : counted[e] = 0]_vars
=============================================================================

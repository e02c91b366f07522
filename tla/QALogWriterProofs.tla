------------------------- MODULE QALogWriterProofs -------------------------
(***************************************************************************)
(* Proofs about QALogWriter for any number of entries and any idle limit.  *)
(*                                                                         *)
(* EntriesAccounted is nearly inductive: IInv adds the types, that a       *)
(* thread holds an entry exactly while it writes it, that nothing is lost  *)
(* while the process lives, and that the main thread finds the queue empty *)
(* before it goes on to close_all().                                       *)
(***************************************************************************)
EXTENDS QALogWriter, TLAPS, SequenceTheorems, FiniteSetTheorems

HoldsWhileWriting ==
    \A t \in Threads : held[t] # NoEntry <=> pc[t] = "write" /\ Alive

LostOnlyAtEnd ==
    /\ Alive => lost = {}
    /\ ~Alive => queue = <<>>

ClosesAfterFlush ==
    /\ pc["main"] = "closing" => queue = <<>>
    /\ ~Alive /\ ~killed => \A a, b \in lost : a = b

IInv ==
    /\ TypeOK
    /\ EntriesAccounted
    /\ HoldsWhileWriting
    /\ LostOnlyAtEnd
    /\ ClosesAfterFlush

-----------------------------------------------------------------------------
(* The elements of a sequence.                                             *)

LEMMA ElementsAppend ==
    ASSUME NEW S, NEW s \in Seq(S), NEW e \in S
    PROVE  /\ Append(s, e) \in Seq(S)
           /\ Len(Append(s, e)) = Len(s) + 1
           /\ \A i \in 1..Len(s) : Append(s, e)[i] = s[i]
           /\ Append(s, e)[Len(s) + 1] = e
           /\ Elements(Append(s, e)) = Elements(s) \cup {e}
<1>1. /\ Append(s, e) \in Seq(S)
      /\ Len(s) \in Nat
      /\ Len(Append(s, e)) = Len(s) + 1
      /\ \A i \in 1..Len(s) : Append(s, e)[i] = s[i]
      /\ Append(s, e)[Len(s) + 1] = e
  OBVIOUS
<1>2. 1..(Len(s) + 1) = 1..Len(s) \cup {Len(s) + 1}
  BY <1>1
<1>3. QED
  BY <1>1, <1>2 DEF Elements

LEMMA ElementsTail ==
    ASSUME NEW S, NEW s \in Seq(S), s # <<>>
    PROVE  /\ Tail(s) \in Seq(S)
           /\ Head(s) \in S
           /\ Head(s) = s[1]
           /\ Len(s) \in Nat \ {0}
           /\ Len(Tail(s)) = Len(s) - 1
           /\ \A i \in 1..(Len(s) - 1) : Tail(s)[i] = s[i + 1]
           /\ Elements(s) = Elements(Tail(s)) \cup {Head(s)}
<1>1. /\ Tail(s) \in Seq(S)
      /\ Head(s) \in S
      /\ Head(s) = s[1]
      /\ Len(s) \in Nat \ {0}
      /\ Len(Tail(s)) = Len(s) - 1
      /\ \A i \in 1..(Len(s) - 1) : Tail(s)[i] = s[i + 1]
  OBVIOUS
<1>2. ASSUME NEW x \in Elements(s)
      PROVE  x \in Elements(Tail(s)) \cup {Head(s)}
  <2>1. PICK i \in 1..Len(s) : x = s[i]
    BY DEF Elements
  <2>2. CASE i = 1
    BY <1>1, <2>1, <2>2
  <2>3. CASE i # 1
    <3>1. i - 1 \in 1..(Len(s) - 1) /\ (i - 1) + 1 = i
      BY <1>1, <2>3
    <3>2. Tail(s)[i - 1] = x
      BY <1>1, <2>1, <3>1
    <3>3. QED
      BY <1>1, <3>1, <3>2 DEF Elements
  <2>4. QED
    BY <2>2, <2>3
<1>3. ASSUME NEW x \in Elements(Tail(s)) \cup {Head(s)}
      PROVE  x \in Elements(s)
  <2>1. CASE x = Head(s)
    BY <1>1, <2>1 DEF Elements
  <2>2. CASE x \in Elements(Tail(s))
    <3>1. PICK i \in 1..(Len(s) - 1) : x = Tail(s)[i]
      BY <1>1, <2>2 DEF Elements
    <3>2. i + 1 \in 1..Len(s) /\ x = s[i + 1]
      BY <1>1, <3>1
    <3>3. QED
      BY <3>2 DEF Elements
  <2>3. QED
    BY <1>3, <2>1, <2>2
<1>4. QED
  BY <1>1, <1>2, <1>3

LEMMA ElementsEmpty == Elements(<<>>) = {} /\ Len(<<>>) = 0
BY DEF Elements

-----------------------------------------------------------------------------
(* The entries of the queue are the newest ones.                           *)

LEMMA QueuedAreNewest ==
    ASSUME TypeOK, EntriesAccounted
    PROVE  /\ Len(queue) \in Nat
           /\ Len(queue) <= created
           /\ Queued = (created - Len(queue) + 1)..created
<1>1. Len(queue) \in Nat /\ created \in Nat
  BY DEF TypeOK
<1>2. Len(queue) <= created
  <2>1. CASE Len(queue) = 0
    BY <1>1, <2>1
  <2>2. CASE Len(queue) # 0
    <3>1. queue[1] = created - Len(queue) + 1 /\ queue[1] \in Entries
      BY <1>1, <2>2 DEF TypeOK, EntriesAccounted, QueueIsNewestRun
    <3>2. QED
      BY <1>1, <3>1 DEF Entries
  <2>3. QED
    BY <2>1, <2>2
<1>3. Queued \subseteq (created - Len(queue) + 1)..created
  <2>1. ASSUME NEW i \in 1..Len(queue)
        PROVE  queue[i] \in (created - Len(queue) + 1)..created
    BY <1>1, <1>2 DEF EntriesAccounted, QueueIsNewestRun
  <2>2. QED
    BY <2>1 DEF Queued, Elements
<1>4. ASSUME NEW e \in (created - Len(queue) + 1)..created
      PROVE  e \in Queued
  <2>1. e - created + Len(queue) \in 1..Len(queue)
    BY <1>1, <1>2
  <2>2. queue[e - created + Len(queue)] = created - Len(queue) + (e - created + Len(queue))
    BY <2>1 DEF EntriesAccounted, QueueIsNewestRun
  <2>3. queue[e - created + Len(queue)] = e
    BY <1>1, <2>2
  <2>4. QED
    BY <2>1, <2>3 DEF Queued, Elements
<1>5. QED
  BY <1>1, <1>2, <1>3, <1>4

-----------------------------------------------------------------------------
(* Steps that move no entry: the main thread, the idle test, the clock.    *)

EntriesStay == UNCHANGED <<queue, held, file, failed, lost, created>>

LEMMA AccountedWhenEntriesStay ==
    ASSUME EntriesAccounted, EntriesStay
    PROVE  EntriesAccounted'
BY SMTT(30) DEF EntriesAccounted, EntriesStay, QueueIsNewestRun, NeverTwice, NothingVanishes,
       Written, Queued, Unwritten, Held, Elements

\* A thread goes between places where it neither writes nor ends.
Quiet == {"init", "off", "serve", "tool", "join", "wait", "cpu", "activity", "drain", "done"}

LEMMA QuietStep ==
    ASSUME IInv, EntriesStay, Alive, NEW t \in Threads, NEW to \in Quiet,
           pc[t] \in Quiet,
           pc' = [pc EXCEPT ![t] = to],
           thread' \in BOOLEAN, stopEvent' \in BOOLEAN, idle' \in 0..IdleActivitySec,
           cpuBusy' \in BOOLEAN, killed' = killed
    PROVE  IInv'
<1>1. TypeOK'
  BY DEF IInv, TypeOK, EntriesStay, Quiet, Threads
<1>2. EntriesAccounted'
  BY AccountedWhenEntriesStay DEF IInv
<1>3. (Alive' /\ pc'["main"] # "closing") \/ pc'["main"] = pc["main"]
  BY DEF IInv, TypeOK, Threads, Quiet, Alive
<1>4. Alive'
  BY <1>3 DEF Alive
<1>5. HoldsWhileWriting'
  BY <1>4 DEF IInv, TypeOK, HoldsWhileWriting, EntriesStay, Quiet, Threads
<1>6. LostOnlyAtEnd'
  BY <1>4 DEF IInv, LostOnlyAtEnd, EntriesStay
<1>7. ClosesAfterFlush'
  BY <1>3, <1>4 DEF IInv, ClosesAfterFlush, EntriesStay
<1>8. QED
  BY <1>1, <1>2, <1>5, <1>6, <1>7 DEF IInv

LEMMA MainStep ==
    ASSUME IInv, Start \/ ToolBegin \/ ToolReturn \/ Stop \/ Joined \/ Exit
    PROVE  IInv'
<1> USE DEF EntriesStay, Quiet, threadVars, envVars
<1>0. "main" \in Threads /\ "daemon" \in Threads /\ "main" # "daemon"
  BY DEF Threads
<1>1. CASE Start
  <2>1. Alive /\ Alive' /\ pc'["main"] = "serve"
    BY <1>1 DEF Start, Alive
  <2>2. TypeOK'
    BY <1>1 DEF Start, IInv, TypeOK, Threads
  <2>3. EntriesAccounted'
    BY <1>1, AccountedWhenEntriesStay DEF Start, IInv
  <2>4. HoldsWhileWriting'
    BY <1>1, <2>1 DEF Start, IInv, TypeOK, HoldsWhileWriting, Threads
  <2>5. LostOnlyAtEnd' /\ ClosesAfterFlush'
    BY <1>1, <2>1 DEF Start, IInv, LostOnlyAtEnd, ClosesAfterFlush
  <2>6. QED
    BY <2>2, <2>3, <2>4, <2>5 DEF IInv
<1>2. CASE ToolBegin
  <2>1. 0 \in 0..IdleActivitySec
    BY WriterAssumption
  <2>2. idle' \in 0..IdleActivitySec
    BY <1>2, <2>1 DEF ToolBegin
  <2>3. QED
    BY <1>0, <1>2, <2>2, QuietStep DEF ToolBegin, MainGoes, Alive, IInv, TypeOK
<1>3. CASE ToolReturn
  BY <1>0, <1>3, QuietStep DEF ToolReturn, MainGoes, Alive, IInv, TypeOK
<1>4. CASE Stop
  BY <1>0, <1>4, QuietStep DEF Stop, MainGoes, Alive, IInv, TypeOK
<1>5. CASE Joined
  BY <1>0, <1>5, QuietStep DEF Joined, MainGoes, Alive, IInv, TypeOK
<1>6. CASE Exit
  BY <1>0, <1>6, QuietStep DEF Exit, MainGoes, Alive, IInv, TypeOK
<1>7. QED
  BY <1>1, <1>2, <1>3, <1>4, <1>5, <1>6

LEMMA DaemonStep ==
    ASSUME IInv, Daemon
    PROVE  IInv'
<1> USE DEF EntriesStay, Quiet, threadVars, envVars
<1>0. "daemon" \in Threads
  BY DEF Threads
<1>1. CASE Poll
  BY <1>0, <1>1, QuietStep DEF Poll, DaemonGoes, IInv, TypeOK
<1>2. CASE Stopped
  BY <1>0, <1>2, QuietStep DEF Stopped, DaemonGoes, IInv, TypeOK
<1>3. CASE CheckCpu
  BY <1>0, <1>3, QuietStep DEF CheckCpu, DaemonGoes, IInv, TypeOK
<1>4. CASE CheckActivity
  BY <1>0, <1>4, QuietStep DEF CheckActivity, DaemonGoes, IInv, TypeOK
<1>5. QED
  BY <1>1, <1>2, <1>3, <1>4 DEF Daemon

LEMMA EnvironmentStep ==
    ASSUME IInv, Tick \/ CpuChange
    PROVE  IInv'
<1>1. TypeOK'
  <2>1. idle' \in 0..IdleActivitySec
    BY WriterAssumption DEF IInv, TypeOK, Tick, CpuChange
  <2>2. cpuBusy' \in BOOLEAN
    BY DEF IInv, TypeOK, Tick, CpuChange
  <2>3. QED
    BY <2>1, <2>2 DEF IInv, TypeOK, Tick, CpuChange, threadVars
<1>2. EntriesAccounted'
  BY AccountedWhenEntriesStay DEF IInv, EntriesStay, Tick, CpuChange
<1>3. HoldsWhileWriting' /\ LostOnlyAtEnd' /\ ClosesAfterFlush'
  BY DEF IInv, HoldsWhileWriting, LostOnlyAtEnd, ClosesAfterFlush, Alive, Tick, CpuChange
<1>4. QED
  BY <1>1, <1>2, <1>3 DEF IInv

-----------------------------------------------------------------------------
(* Steps that move an entry.                                               *)

LEMMA LogQAStep ==
    ASSUME IInv, LogQA
    PROVE  IInv'
<1> DEFINE new == created + 1
<1>1. /\ created \in Nat /\ created < MaxEntries /\ created' = new
      /\ queue' = Append(queue, new) /\ queue \in Seq(Entries)
      /\ Alive /\ Alive' /\ pc'["main"] = "serve"
      /\ UNCHANGED <<held, file, failed, lost, killed, thread, stopEvent, idle, cpuBusy>>
  BY DEF LogQA, MainGoes, IInv, TypeOK, Alive, Threads, threadVars, envVars
<1>2. new \in Entries /\ new \in Nat
  BY <1>1, WriterAssumption DEF Entries
<1>3. /\ queue' \in Seq(Entries)
      /\ Len(queue') = Len(queue) + 1
      /\ \A i \in 1..Len(queue) : queue'[i] = queue[i]
      /\ queue'[Len(queue) + 1] = new
      /\ Queued' = Queued \cup {new}
  BY <1>1, <1>2, ElementsAppend DEF Queued
<1>4. TypeOK'
  <2>1. new \in 0..MaxEntries
    BY <1>1, <1>2, WriterAssumption
  <2>2. pc' \in [Threads -> {"init", "off", "serve", "tool", "join", "wait", "cpu",
                           "activity", "drain", "write", "closing", "done", "dead"}]
    BY DEF LogQA, MainGoes, IInv, TypeOK
  <2>3. QED
    BY <1>1, <1>3, <2>1, <2>2 DEF IInv, TypeOK
<1>5. QueueIsNewestRun'
  <2>1. ASSUME NEW i \in 1..Len(queue')
        PROVE  queue'[i] = created' - Len(queue') + i
    <3>1. Len(queue) \in Nat
      BY <1>1
    <3>2. CASE i = Len(queue) + 1
      BY <1>1, <1>3, <3>1, <3>2
    <3>3. CASE i # Len(queue) + 1
      <4>1. i \in 1..Len(queue)
        BY <1>3, <3>1, <3>3
      <4>2. queue'[i] = created - Len(queue) + i
        BY <1>3, <4>1 DEF IInv, EntriesAccounted, QueueIsNewestRun
      <4>3. QED
        BY <1>1, <1>3, <3>1, <4>1, <4>2
    <3>4. QED
      BY <3>2, <3>3
  <2>2. QED
    BY <2>1 DEF QueueIsNewestRun
<1>6. /\ UNCHANGED <<Written, Held>>
      /\ new \notin 1..created
      /\ 1..(created + 1) = 1..created \cup {new}
  BY <1>1 DEF Written, Held, Elements
<1>7. NothingVanishes /\ NeverTwice
  BY DEF IInv, EntriesAccounted
<1>8. new \notin Unwritten \cup Written \cup failed \cup lost
  BY <1>6, <1>7 DEF NothingVanishes
<1>9. NothingVanishes'
  BY <1>1, <1>3, <1>6, <1>7 DEF NothingVanishes, Unwritten, Queued
<1>10. NeverTwice'
  <2>1. \A t \in Threads : held[t] # NoEntry => held[t] # new
    BY <1>8 DEF Unwritten, Held
  <2>2. QED
    BY <1>1, <1>3, <1>6, <1>7, <1>8, <2>1 DEF NeverTwice
<1>11. HoldsWhileWriting'
  BY <1>1 DEF IInv, TypeOK, HoldsWhileWriting, LogQA, MainGoes, Threads
<1>12. LostOnlyAtEnd' /\ ClosesAfterFlush'
  BY <1>1 DEF IInv, LostOnlyAtEnd, ClosesAfterFlush
<1>13. QED
  BY <1>4, <1>5, <1>9, <1>10, <1>11, <1>12 DEF IInv, EntriesAccounted

LEMMA GetNowaitStep ==
    ASSUME IInv, NEW t \in Threads, GetNowait(t)
    PROVE  IInv'
<1>1. /\ Alive /\ pc[t] = "drain" /\ queue # <<>> /\ queue \in Seq(Entries)
      /\ held' = [held EXCEPT ![t] = Head(queue)]
      /\ queue' = Tail(queue)
      /\ pc' = [pc EXCEPT ![t] = "write"]
      /\ UNCHANGED <<file, failed, lost, killed, created, thread, stopEvent, idle, cpuBusy>>
  BY DEF GetNowait, IInv, TypeOK, threadVars, envVars
<1>2. /\ queue' \in Seq(Entries)
      /\ Head(queue) \in Entries
      /\ Head(queue) = queue[1]
      /\ Len(queue) \in Nat \ {0}
      /\ Len(queue') = Len(queue) - 1
      /\ \A i \in 1..(Len(queue) - 1) : queue'[i] = queue[i + 1]
      /\ Queued = Queued' \cup {Head(queue)}
  BY <1>1, ElementsTail DEF Queued
<1>3. TypeOK'
  BY <1>1, <1>2 DEF IInv, TypeOK
<1>4. QueueIsNewestRun'
  <2>1. ASSUME NEW i \in 1..Len(queue')
        PROVE  queue'[i] = created' - Len(queue') + i
    <3>1. i \in 1..(Len(queue) - 1) /\ i + 1 \in 1..Len(queue) /\ created \in Nat
      BY <1>2 DEF IInv, TypeOK
    <3>2. queue[i + 1] = created - Len(queue) + (i + 1)
      BY <3>1 DEF IInv, EntriesAccounted, QueueIsNewestRun
    <3>3. QED
      BY <1>1, <1>2, <3>1, <3>2
  <2>2. QED
    BY <2>1 DEF QueueIsNewestRun
<1>5. Head(queue) \notin Queued'
  <2>1. ASSUME NEW i \in 1..Len(queue')
        PROVE  queue'[i] # Head(queue)
    <3>1. i \in 1..(Len(queue) - 1) /\ i + 1 \in 1..Len(queue) /\ 1 \in 1..Len(queue)
          /\ created \in Nat
      BY <1>2 DEF IInv, TypeOK
    <3>2. /\ queue[i + 1] = created - Len(queue) + (i + 1)
          /\ queue[1] = created - Len(queue) + 1
      BY <3>1 DEF IInv, EntriesAccounted, QueueIsNewestRun
    <3>3. QED
      BY <1>2, <3>1, <3>2
  <2>2. QED
    BY <2>1 DEF Queued, Elements
<1>6. held[t] = NoEntry /\ held \in [Threads -> Entries \cup {NoEntry}]
  BY <1>1 DEF IInv, TypeOK, HoldsWhileWriting
<1>7. Head(queue) # NoEntry
  BY <1>2 DEF Entries, NoEntry
<1>8. Held' = Held \cup {Head(queue)}
  BY <1>1, <1>6, <1>7 DEF Held
<1>9. Written' = Written
  BY <1>1 DEF Written, Elements
<1>10. NothingVanishes /\ NeverTwice
  BY DEF IInv, EntriesAccounted
<1>11. NothingVanishes'
  BY <1>1, <1>2, <1>8, <1>9, <1>10 DEF NothingVanishes, Unwritten, Queued
<1>12. NeverTwice'
  <2>1. \A i, j \in 1..Len(file') : file'[i] = file'[j] => i = j
    BY <1>1, <1>10 DEF NeverTwice
  <2>2. ASSUME NEW u \in Threads, held'[u] # NoEntry
        PROVE  /\ held'[u] \notin Written' \cup Queued' \cup failed'
               /\ \A v \in Threads : held'[v] = held'[u] => v = u
    <3>1. ASSUME NEW v \in Threads, v # t
          PROVE  held'[v] = held[v] /\ held'[v] # Head(queue)
      BY <1>1, <1>2, <1>6, <1>7, <1>10, <3>1 DEF NeverTwice
    <3>2. held'[t] = Head(queue)
      BY <1>1, <1>6
    <3>3. Head(queue) \notin Written \cup failed
      BY <1>2, <1>10 DEF NeverTwice
    <3>4. CASE u = t
      BY <1>1, <1>5, <1>9, <3>1, <3>2, <3>3, <3>4
    <3>5. CASE u # t
      BY <1>1, <1>2, <1>9, <1>10, <2>2, <3>1, <3>2, <3>5 DEF NeverTwice
    <3>6. QED
      BY <3>4, <3>5
  <2>3. /\ Queued' \cap (Written' \cup failed') = {}
        /\ lost' \cap (Written' \cup failed') = {}
        /\ Written' \cap failed' = {}
    BY <1>1, <1>2, <1>9, <1>10 DEF NeverTwice
  <2>4. QED
    BY <2>1, <2>2, <2>3 DEF NeverTwice
<1>13. (Alive' /\ pc'["main"] # "closing") \/ pc'["main"] = pc["main"]
  BY <1>1 DEF Alive, Threads, IInv, TypeOK
<1>14. Alive'
  BY <1>1, <1>13 DEF Alive
<1>15. HoldsWhileWriting'
  BY <1>1, <1>2, <1>6, <1>7, <1>14 DEF IInv, TypeOK, HoldsWhileWriting
<1>16. LostOnlyAtEnd' /\ ClosesAfterFlush'
  BY <1>1, <1>13, <1>14 DEF IInv, LostOnlyAtEnd, ClosesAfterFlush
<1>17. QED
  BY <1>3, <1>4, <1>11, <1>12, <1>15, <1>16 DEF IInv, EntriesAccounted

LEMMA QueueEmptyStep ==
    ASSUME IInv, NEW t \in Threads, QueueEmpty(t)
    PROVE  IInv'
<1>1. CASE t = "daemon"
  BY <1>1, QuietStep DEF QueueEmpty, EntriesStay, Quiet, threadVars, envVars, IInv, TypeOK
<1>2. CASE t = "main"
  <2>1. /\ Alive /\ Alive' /\ queue = <<>> /\ pc["main"] = "drain"
        /\ pc' = [pc EXCEPT !["main"] = "closing"]
        /\ UNCHANGED <<queue, held, file, failed, lost, created>>
    BY <1>2 DEF QueueEmpty, Alive, IInv, TypeOK, Threads
  <2>2. TypeOK'
    BY <1>2 DEF QueueEmpty, IInv, TypeOK, threadVars, envVars
  <2>3. EntriesAccounted'
    BY <2>1, AccountedWhenEntriesStay DEF IInv, EntriesStay
  <2>4. HoldsWhileWriting'
    BY <2>1 DEF IInv, TypeOK, HoldsWhileWriting, Threads
  <2>5. LostOnlyAtEnd' /\ ClosesAfterFlush'
    BY <2>1 DEF IInv, LostOnlyAtEnd, ClosesAfterFlush
  <2>6. QED
    BY <2>2, <2>3, <2>4, <2>5 DEF IInv
<1>3. QED
  BY <1>1, <1>2 DEF Threads

\* What the two outcomes of a write share.
LEMMA WriteEntryStep ==
    ASSUME IInv, NEW t \in Threads, NEW ok \in BOOLEAN, WriteEntry(t, ok)
    PROVE  IInv'
<1> DEFINE e == held[t]
<1>1. /\ Alive /\ pc[t] = "write"
      /\ held' = [held EXCEPT ![t] = NoEntry]
      /\ pc' = [pc EXCEPT ![t] = "drain"]
      /\ UNCHANGED <<queue, lost, killed, created, thread, stopEvent, idle, cpuBusy>>
      /\ file \in Seq(Entries) /\ failed \in SUBSET Entries
      /\ held \in [Threads -> Entries \cup {NoEntry}]
  BY DEF WriteEntry, IInv, TypeOK, threadVars, envVars
<1>2. e # NoEntry /\ e \in Entries
  BY <1>1 DEF IInv, HoldsWhileWriting, TypeOK
<1>3. NeverTwice /\ NothingVanishes
  BY DEF IInv, EntriesAccounted
<1>4. /\ e \notin Written \cup Queued \cup failed
      /\ \A u \in Threads \ {t} : held[u] # e
  BY <1>2, <1>3 DEF NeverTwice
<1>5. Held = Held' \cup {e} /\ e \notin Held'
  BY <1>1, <1>2, <1>4 DEF Held
<1>6. lost = {} /\ lost' = {}
  BY <1>1 DEF IInv, LostOnlyAtEnd
<1>7. \/ /\ file' = Append(file, e) /\ failed' = failed
         /\ Written' = Written \cup {e} /\ file' \in Seq(Entries)
      \/ /\ failed' = failed \cup {e} /\ file' = file /\ Written' = Written
  <2>1. CASE ok
    <3>1. file' = Append(file, e) /\ failed' = failed
      BY <2>1 DEF WriteEntry
    <3>2. QED
      BY <1>1, <1>2, <3>1, ElementsAppend DEF Written
  <2>2. CASE ~ok
    <3>1. failed' = failed \cup {e} /\ file' = file
      BY <2>2 DEF WriteEntry
    <3>2. QED
      BY <3>1 DEF Written, Elements
  <2>3. QED
    BY <2>1, <2>2
<1>8. /\ failed' \in SUBSET Entries /\ file' \in Seq(Entries)
      /\ Written' \cup failed' = Written \cup failed \cup {e}
  BY <1>1, <1>2, <1>7
<1>9. TypeOK'
  BY <1>1, <1>8 DEF IInv, TypeOK
<1>10. QueueIsNewestRun'
  BY <1>1 DEF IInv, EntriesAccounted, QueueIsNewestRun
<1>11. Queued' = Queued
  BY <1>1 DEF Queued, Elements
<1>12. NothingVanishes'
  BY <1>1, <1>3, <1>5, <1>6, <1>8, <1>11 DEF NothingVanishes, Unwritten, Queued
<1>13. \A i, j \in 1..Len(file') : file'[i] = file'[j] => i = j
  <2>1. CASE file' = file
    BY <1>3, <2>1 DEF NeverTwice
  <2>2. CASE file' = Append(file, e)
    <3>1. /\ Len(file) \in Nat
          /\ Len(file') = Len(file) + 1
          /\ \A i \in 1..Len(file) : file'[i] = file[i] /\ file[i] # e
          /\ file'[Len(file) + 1] = e
      BY <1>1, <1>2, <1>4, <2>2, ElementsAppend DEF Written, Elements
    <3>2. ASSUME NEW i \in 1..Len(file'), NEW j \in 1..Len(file'), file'[i] = file'[j]
          PROVE  i = j
      <4>1. i \in 1..Len(file) \/ i = Len(file) + 1
        BY <3>1
      <4>2. j \in 1..Len(file) \/ j = Len(file) + 1
        BY <3>1
      <4>3. QED
        BY <1>3, <3>1, <3>2, <4>1, <4>2 DEF NeverTwice
    <3>3. QED
      BY <3>2
  <2>3. QED
    BY <1>7, <2>1, <2>2
<1>14. \A u \in Threads : held'[u] # NoEntry =>
          /\ held'[u] \notin Written' \cup Queued' \cup failed'
          /\ \A v \in Threads : held'[v] = held'[u] => v = u
  BY <1>1, <1>3, <1>4, <1>8, <1>11 DEF NeverTwice
<1>15. /\ Queued' \cap (Written' \cup failed') = {}
       /\ Written' \cap failed' = {}
  BY <1>3, <1>4, <1>7, <1>8, <1>11 DEF NeverTwice
<1>16. NeverTwice'
  BY <1>6, <1>13, <1>14, <1>15 DEF NeverTwice
<1>17. (Alive' /\ pc'["main"] # "closing") \/ pc'["main"] = pc["main"]
  BY <1>1 DEF Alive, Threads, IInv, TypeOK
<1>18. Alive'
  BY <1>1, <1>17 DEF Alive
<1>19. HoldsWhileWriting'
  BY <1>1, <1>18 DEF IInv, TypeOK, HoldsWhileWriting
<1>20. LostOnlyAtEnd' /\ ClosesAfterFlush'
  BY <1>1, <1>17, <1>18 DEF IInv, LostOnlyAtEnd, ClosesAfterFlush
<1>21. QED
  BY <1>9, <1>10, <1>12, <1>16, <1>19, <1>20 DEF IInv, EntriesAccounted

LEMMA EndsStep ==
    ASSUME IInv, NEW byKill \in BOOLEAN, Ends(byKill)
    PROVE  IInv'
<1>1. /\ Alive /\ ~Alive' /\ pc'["main"] = "dead"
      /\ pc' = [pc EXCEPT !["main"] = "dead"]
      /\ killed' = byKill /\ (~byKill => pc["main"] = "closing")
      /\ lost' = Unwritten /\ queue' = <<>> /\ held' = [t \in Threads |-> NoEntry]
      /\ UNCHANGED <<file, failed, created, thread, stopEvent, idle, cpuBusy>>
  BY DEF Ends, Alive, IInv, TypeOK, Threads, threadVars, envVars
<1>2. NeverTwice /\ NothingVanishes /\ lost = {} /\ created \in Nat
  BY <1>1 DEF IInv, EntriesAccounted, LostOnlyAtEnd, TypeOK
<1>3. Unwritten \subseteq Entries
  <2>1. Queued \subseteq Entries
    BY DEF IInv, TypeOK, Queued, Elements
  <2>2. Held \subseteq Entries
    BY DEF IInv, TypeOK, Held
  <2>3. QED
    BY <2>1, <2>2 DEF Unwritten, Queued
<1>4. TypeOK'
  <2>1. killed' \in BOOLEAN
    BY <1>1
  <2>2. queue' \in Seq(Entries) /\ lost' \in SUBSET Entries
    BY <1>1, <1>3
  <2>3. QED
    BY <1>1, <2>1, <2>2 DEF IInv, TypeOK
<1>5. /\ Queued' = {} /\ Held' = {} /\ Unwritten' = {} /\ Len(queue') = 0
      /\ Written' = Written
  BY <1>1, ElementsEmpty DEF Queued, Held, Unwritten, Written, Elements
<1>6. QueueIsNewestRun'
  BY <1>5 DEF QueueIsNewestRun
<1>7. NothingVanishes'
  BY <1>1, <1>2, <1>5 DEF NothingVanishes
<1>8. Unwritten \cap (Written \cup failed) = {}
  BY <1>2 DEF NeverTwice, Unwritten, Queued, Held
<1>9. NeverTwice'
  BY <1>1, <1>2, <1>5, <1>8 DEF NeverTwice
<1>10. HoldsWhileWriting' /\ LostOnlyAtEnd'
  BY <1>1 DEF HoldsWhileWriting, LostOnlyAtEnd
<1>11. ClosesAfterFlush'
  <2>1. CASE byKill
    BY <1>1, <2>1 DEF ClosesAfterFlush
  <2>2. CASE ~byKill
    <3>1. queue = <<>> /\ pc["main"] = "closing"
      BY <1>1, <2>2 DEF IInv, ClosesAfterFlush
    <3>2. Held \subseteq {held["daemon"]}
      BY <3>1 DEF IInv, HoldsWhileWriting, Held, Threads
    <3>3. Unwritten \subseteq {held["daemon"]}
      BY <3>1, <3>2, ElementsEmpty DEF Unwritten
    <3>4. QED
      BY <1>1, <3>3 DEF ClosesAfterFlush
  <2>3. QED
    BY <2>1, <2>2
<1>12. QED
  BY <1>4, <1>6, <1>7, <1>9, <1>10, <1>11 DEF IInv, EntriesAccounted

-----------------------------------------------------------------------------
LEMMA InitIInv == Init => IInv
<1> SUFFICES ASSUME Init PROVE IInv
  OBVIOUS
<1>1. TypeOK
  <2>1. 0 \in 0..IdleActivitySec /\ 0 \in 0..MaxEntries
    BY WriterAssumption
  <2>2. cpuBusy \in BOOLEAN
    BY DEF Init
  <2>3. <<>> \in Seq(Entries)
    OBVIOUS
  <2>4. /\ held \in [Threads -> Entries \cup {NoEntry}]
        /\ pc \in [Threads -> {"init", "off", "serve", "tool", "join", "wait", "cpu",
                               "activity", "drain", "write", "closing", "done", "dead"}]
    <3>1. pc["main"] = "init" /\ pc["daemon"] = "off" /\ DOMAIN pc = Threads
      BY DEF Init, Threads
    <3>2. pc = [t \in Threads |-> pc[t]]
      BY <3>1 DEF Init, Threads
    <3>3. QED
      BY <3>1, <3>2 DEF Init, Threads
  <2>5. QED
    BY <2>1, <2>2, <2>3, <2>4 DEF Init, TypeOK
<1>2. Queued = {} /\ Written = {} /\ Held = {} /\ Len(queue) = 0 /\ Len(file) = 0
  BY ElementsEmpty DEF Init, Queued, Written, Held
<1>3. EntriesAccounted
  BY <1>2 DEF Init, EntriesAccounted, QueueIsNewestRun, NeverTwice, NothingVanishes,
              Unwritten, Queued
<1>4. HoldsWhileWriting /\ LostOnlyAtEnd /\ ClosesAfterFlush
  BY DEF Init, HoldsWhileWriting, LostOnlyAtEnd, ClosesAfterFlush, Alive, Threads
<1>5. QED
  BY <1>1, <1>3, <1>4 DEF IInv

LEMMA NextIInv == IInv /\ [Next]_vars => IInv'
<1> SUFFICES ASSUME IInv, [Next]_vars PROVE IInv'
  OBVIOUS
<1>1. CASE Main
  BY <1>1, MainStep, LogQAStep, EndsStep DEF Main
<1>2. CASE Daemon
  BY <1>2, DaemonStep
<1>3. ASSUME NEW t \in Threads, FlushPending(t)
      PROVE  IInv'
  BY <1>3, GetNowaitStep, QueueEmptyStep, WriteEntryStep DEF FlushPending
<1>4. CASE Tick \/ CpuChange
  BY <1>4, EnvironmentStep
<1>5. CASE Ends(TRUE)
  BY <1>5, EndsStep
<1>6. CASE UNCHANGED vars
  <2>1. EntriesAccounted'
    BY <1>6, AccountedWhenEntriesStay DEF vars, IInv, EntriesStay
  <2>2. QED
    BY <1>6, <2>1 DEF vars, IInv, TypeOK, HoldsWhileWriting, LostOnlyAtEnd,
                      ClosesAfterFlush, Alive
<1>7. QED
  BY <1>1, <1>2, <1>3, <1>4, <1>5, <1>6 DEF Next

\* The inductive invariant holds of every behaviour of the writer.
THEOREM Invariance == Spec => []IInv
BY InitIInv, NextIInv, PTL DEF Spec

\* Every variable of the writer keeps its type, whatever the threads do.
THEOREM TypeCorrect == Spec => []TypeOK
<1>1. IInv => TypeOK
  BY DEF IInv
<1>2. QED
  BY <1>1, Invariance, PTL

\* An entry that log_qa accepted is never duplicated and never vanishes
\* (_flush_pending, flush_all, enqueue of background_writer.py).
THEOREM Accounted == Spec => []EntriesAccounted
<1>1. IInv => EntriesAccounted
  BY DEF IInv
<1>2. QED
  BY <1>1, Invariance, PTL

\* When the process ends through its atexit callbacks, at most one entry is
\* lost: the one the daemon thread had taken and not yet written.
THEOREM CleanExitLoss == Spec => []CleanExitLosesAtMostOne
<1>1. ASSUME IInv
      PROVE  CleanExitLosesAtMostOne
  <2>1. SUFFICES ASSUME ~Alive, ~killed PROVE Cardinality(lost) <= 1
    BY DEF CleanExitLosesAtMostOne, Alive
  <2>2. CASE lost = {}
    BY <2>2, FS_EmptySet
  <2>3. CASE lost # {}
    <3>1. PICK a \in lost : lost = {a}
      BY <1>1, <2>1, <2>3 DEF IInv, ClosesAfterFlush
    <3>2. QED
      BY <3>1, FS_Singleton
  <2>4. QED
    BY <2>2, <2>3
<1>2. QED
  BY <1>1, Invariance, PTL

\* What that exit loses is exactly what the daemon thread holds when the
\* process ends; an exit that finds it between two entries loses nothing, as
\* background_writer.py:12-14 says.
THEOREM ExitLosesTheHeld ==
    Spec => [][Ends(FALSE) => lost' = {held["daemon"]} \ {NoEntry}]_vars
<1>1. ASSUME IInv, Ends(FALSE)
      PROVE  lost' = {held["daemon"]} \ {NoEntry}
  <2>1. pc["main"] = "closing" /\ lost' = Unwritten
    BY <1>1 DEF Ends
  <2>2. queue = <<>>
    BY <1>1, <2>1 DEF IInv, ClosesAfterFlush
  <2>3. held["main"] = NoEntry
    BY <1>1, <2>1 DEF IInv, HoldsWhileWriting, Threads
  <2>4. Held = {held["daemon"]} \ {NoEntry}
    BY <2>3 DEF Held, Threads
  <2> QED BY <2>1, <2>2, <2>4, ElementsEmpty DEF Unwritten
<1> QED
  BY <1>1, Invariance, PTL

-----------------------------------------------------------------------------
(* The order of the file, as long as there is one flusher.                 *)

BeforeExit == pc["main"] \notin {"drain", "write", "closing", "dead"}

OrderInv ==
    BeforeExit =>
        /\ \A i, j \in 1..Len(file) : i < j => file[i] < file[j]
        /\ held["daemon"] # NoEntry => \A i \in 1..Len(file) : file[i] < held["daemon"]

\* What is in the file was queued before what is in the queue.
LEMMA WrittenBeforeQueued ==
    ASSUME IInv, queue # <<>>, NEW i \in 1..Len(file)
    PROVE  file[i] < Head(queue)
<1>1. /\ queue \in Seq(Entries) /\ Head(queue) = queue[1] /\ Len(queue) \in Nat \ {0}
      /\ created \in Nat
  BY ElementsTail DEF IInv, TypeOK
<1>2. Head(queue) = created - Len(queue) + 1
  BY <1>1 DEF IInv, EntriesAccounted, QueueIsNewestRun
<1>3. file[i] \in Written
  BY DEF Written, Elements
<1>4. file[i] \in 1..created /\ file[i] \notin Queued
  BY <1>3 DEF IInv, EntriesAccounted, NothingVanishes, NeverTwice
<1>5. Queued = (created - Len(queue) + 1)..created
  BY QueuedAreNewest DEF IInv
<1> QED BY <1>1, <1>2, <1>4, <1>5

LEMMA NextOrder ==
    ASSUME IInv, OrderInv, [Next]_vars
    PROVE  OrderInv'
<1>1. CASE UNCHANGED <<file, held>> /\ (BeforeExit' => BeforeExit)
  BY <1>1 DEF OrderInv
<1>2. ASSUME NEW t \in Threads, GetNowait(t) PROVE OrderInv'
  <2>1. CASE t = "main"
    BY <1>2, <2>1 DEF GetNowait, OrderInv, BeforeExit, IInv, TypeOK, Threads
  <2>2. CASE t = "daemon"
    <3>1. /\ UNCHANGED file /\ queue # <<>> /\ held'["daemon"] = Head(queue)
          /\ BeforeExit' => BeforeExit
      BY <1>2, <2>2 DEF GetNowait, BeforeExit, IInv, TypeOK, Threads
    <3> QED BY <3>1, WrittenBeforeQueued DEF OrderInv
  <2> QED BY <2>1, <2>2 DEF Threads
<1>3. ASSUME NEW t \in Threads, NEW ok \in BOOLEAN, WriteEntry(t, ok) PROVE OrderInv'
  <2>1. CASE t = "main"
    BY <1>3, <2>1 DEF WriteEntry, OrderInv, BeforeExit, IInv, TypeOK, Threads
  <2>2. CASE t = "daemon"
    <3> DEFINE e == held["daemon"]
    <3>1. /\ held'["daemon"] = NoEntry
          /\ BeforeExit' => BeforeExit
          /\ file' = file \/ file' = Append(file, e)
      BY <1>3, <2>2 DEF WriteEntry, BeforeExit, IInv, TypeOK, Threads
    <3>2. e # NoEntry /\ e \in Entries /\ file \in Seq(Entries)
      BY <1>3, <2>2 DEF WriteEntry, IInv, TypeOK, HoldsWhileWriting, Threads
    <3>3. CASE file' = file
      BY <3>1, <3>3 DEF OrderInv
    <3>4. CASE file' = Append(file, e)
      <4> HIDE DEF e
      <4>1. /\ Len(file) \in Nat /\ Len(file') = Len(file) + 1
            /\ \A i \in 1..Len(file) : file'[i] = file[i]
            /\ file'[Len(file) + 1] = e
        BY <3>2, <3>4, ElementsAppend
      <4>2. SUFFICES ASSUME BeforeExit
                     PROVE  \A i, j \in 1..Len(file') : i < j => file'[i] < file'[j]
        BY <3>1 DEF OrderInv
      <4>3. /\ \A i, j \in 1..Len(file) : i < j => file[i] < file[j]
            /\ \A i \in 1..Len(file) : file[i] < e
        BY <3>2, <4>2 DEF OrderInv, e
      <4>4. ASSUME NEW i \in 1..Len(file'), NEW j \in 1..Len(file'), i < j
            PROVE  file'[i] < file'[j]
        <5>1. i \in 1..Len(file) /\ (j \in 1..Len(file) \/ j = Len(file) + 1)
          BY <4>1, <4>4
        <5> QED BY <4>1, <4>3, <4>4, <5>1
      <4> QED BY <4>4
    <3> QED BY <3>1, <3>3, <3>4
  <2> QED BY <2>1, <2>2 DEF Threads
<1>4. ASSUME NEW b \in BOOLEAN, Ends(b) PROVE OrderInv'
  BY <1>4 DEF Ends, OrderInv, BeforeExit, IInv, TypeOK, Threads
<1>5. CASE UNCHANGED vars
  BY <1>1, <1>5 DEF vars, BeforeExit
<1>6. CASE Start \/ ToolBegin \/ ToolReturn \/ LogQA \/ Stop \/ Joined \/ Exit
  <2>1. UNCHANGED <<file, held>>
    BY <1>6 DEF Start, ToolBegin, ToolReturn, LogQA, Stop, Joined, Exit
  <2>2. BeforeExit
    BY <1>6 DEF Start, ToolBegin, ToolReturn, LogQA, Stop, Joined, Exit, MainGoes, BeforeExit
  <2> QED BY <1>1, <2>1, <2>2
<1>7. CASE Daemon \/ Tick \/ CpuChange
  <2>1. UNCHANGED <<file, held>>
    BY <1>7 DEF Daemon, Poll, Stopped, CheckCpu, CheckActivity, Tick, CpuChange
  <2>2. pc'["main"] = pc["main"]
    BY <1>7 DEF Daemon, Poll, Stopped, CheckCpu, CheckActivity, Tick, CpuChange, DaemonGoes, IInv, TypeOK, Threads
  <2> QED BY <1>1, <2>1, <2>2 DEF BeforeExit
<1>8. ASSUME NEW t \in Threads, QueueEmpty(t) PROVE OrderInv'
  <2>1. UNCHANGED <<file, held>> /\ (BeforeExit' => BeforeExit)
    BY <1>8 DEF QueueEmpty, BeforeExit, IInv, TypeOK, Threads
  <2> QED BY <1>1, <2>1
<1> QED
  BY <1>2, <1>3, <1>4, <1>5, <1>6, <1>7, <1>8 DEF Next, Main, FlushPending

\* Until the callbacks of the exit run, the file is in the order in which
\* log_qa was called.
THEOREM InOrder == Spec => []InOrderUntilExit
<1>1. Init => OrderInv
  BY DEF Init, OrderInv
<1>2. IInv /\ OrderInv /\ [Next]_vars => OrderInv'
  BY NextOrder
<1>3. OrderInv => InOrderUntilExit
  BY DEF OrderInv, BeforeExit, InOrderUntilExit
<1> QED BY Invariance, <1>1, <1>2, <1>3, PTL DEF Spec

-----------------------------------------------------------------------------
(* Refinement: every step of the writer is a step of the abstract log.     *)

LogStep == [Log!LogNext]_<<Unwritten, file, failed \cup lost, created>>

LEMMA LogStutter ==
    ASSUME EntriesStay
    PROVE  LogStep
BY DEF EntriesStay, LogStep, Unwritten, Held, Elements

LEMMA LogGetNowait ==
    ASSUME IInv, NEW t \in Threads, GetNowait(t)
    PROVE  LogStep
<1>1. /\ queue # <<>> /\ queue \in Seq(Entries) /\ pc[t] = "drain"
      /\ held' = [held EXCEPT ![t] = Head(queue)]
      /\ queue' = Tail(queue)
      /\ held \in [Threads -> Entries \cup {NoEntry}]
      /\ UNCHANGED <<file, failed, lost, created>>
  BY DEF GetNowait, IInv, TypeOK
<1>2. /\ Head(queue) \in Entries
      /\ Elements(queue) = Elements(queue') \cup {Head(queue)}
  BY <1>1, ElementsTail
<1>3. Head(queue) # NoEntry
  BY <1>2 DEF Entries, NoEntry
<1>4. held[t] = NoEntry
  BY <1>1 DEF IInv, HoldsWhileWriting
<1>5. Held' = Held \cup {Head(queue)}
  BY <1>1, <1>3, <1>4 DEF Held
<1>6. Unwritten' = Unwritten
  BY <1>2, <1>5 DEF Unwritten, Elements
<1>7. QED
  BY <1>1, <1>6 DEF LogStep

LEMMA LogWriteEntry ==
    ASSUME IInv, NEW t \in Threads, NEW ok \in BOOLEAN, WriteEntry(t, ok)
    PROVE  LogStep
<1> DEFINE e == held[t]
<1>1. /\ held' = [held EXCEPT ![t] = NoEntry]
      /\ held \in [Threads -> Entries \cup {NoEntry}]
      /\ UNCHANGED <<queue, lost, created>>
      /\ e # NoEntry
  BY DEF WriteEntry, IInv, TypeOK, HoldsWhileWriting
<1>2. /\ e \notin Queued
      /\ \A u \in Threads \ {t} : held[u] # e
  BY <1>1 DEF IInv, EntriesAccounted, NeverTwice
<1>3. Held' = Held \ {e} /\ e \in Held
  BY <1>1, <1>2 DEF Held
<1>4. /\ Unwritten' = Unwritten \ {e} /\ e \in Unwritten
  BY <1>1, <1>2, <1>3 DEF Unwritten, Queued, Elements
<1>5. CASE ok
  <2>1. file' = Append(file, e) /\ failed' = failed
    BY <1>5 DEF WriteEntry
  <2>2. Log!Record(e)
    BY <1>1, <1>4, <2>1 DEF Log!Record
  <2>3. QED
    BY <1>4, <2>2 DEF LogStep, Log!LogNext
<1>6. CASE ~ok
  <2>1. file' = file /\ failed' = failed \cup {e}
    BY <1>6 DEF WriteEntry
  <2>2. Log!Forget({e})
    BY <1>1, <1>4, <2>1 DEF Log!Forget
  <2>3. {e} \in SUBSET Unwritten
    BY <1>4
  <2>4. QED
    BY <2>2, <2>3 DEF LogStep, Log!LogNext
<1>7. QED
  BY <1>5, <1>6

LEMMA LogEnds ==
    ASSUME IInv, NEW byKill \in BOOLEAN, Ends(byKill)
    PROVE  LogStep
<1>1. /\ lost' = Unwritten /\ queue' = <<>> /\ held' = [t \in Threads |-> NoEntry]
      /\ UNCHANGED <<file, failed, created>>
      /\ Alive
  BY DEF Ends, Alive
<1>2. Unwritten' = {}
  BY <1>1, ElementsEmpty DEF Unwritten, Held, Elements
<1>3. lost = {}
  BY <1>1 DEF IInv, LostOnlyAtEnd
<1>4. Log!Forget(Unwritten)
  BY <1>1, <1>2, <1>3 DEF Log!Forget
<1>5. QED
  BY <1>4 DEF LogStep, Log!LogNext

LEMMA LogRefines == IInv /\ [Next]_vars => LogStep
<1> SUFFICES ASSUME IInv, [Next]_vars PROVE LogStep
  OBVIOUS
<1> USE DEF EntriesStay
<1>1. CASE LogQA
  <2>1. /\ created' = created + 1 /\ queue' = Append(queue, created + 1)
        /\ created + 1 \in Entries /\ queue \in Seq(Entries)
        /\ UNCHANGED <<held, file, failed, lost>>
    BY <1>1, WriterAssumption DEF LogQA, IInv, TypeOK, Entries
  <2>2. Elements(queue') = Elements(queue) \cup {created + 1}
    BY <2>1, ElementsAppend
  <2>3. Unwritten' = Unwritten \cup {created + 1}
    BY <2>1, <2>2 DEF Unwritten, Held, Elements
  <2>4. Log!Accept
    BY <2>1, <2>3 DEF Log!Accept
  <2>5. QED
    BY <2>4 DEF LogStep, Log!LogNext
<1>2. CASE Start \/ ToolBegin \/ ToolReturn \/ Stop \/ Joined \/ Exit
  BY <1>2, LogStutter DEF Start, ToolBegin, ToolReturn, Stop, Joined, Exit
<1>3. CASE Daemon
  BY <1>3, LogStutter DEF Daemon, Poll, Stopped, CheckCpu, CheckActivity
<1>4. ASSUME NEW t \in Threads, FlushPending(t)
      PROVE  LogStep
  <2>1. CASE QueueEmpty(t)
    BY <2>1, LogStutter DEF QueueEmpty
  <2>2. QED
    BY <1>4, <2>1, LogGetNowait, LogWriteEntry DEF FlushPending
<1>5. CASE Tick \/ CpuChange
  BY <1>5, LogStutter DEF Tick, CpuChange
<1>6. CASE Ends(FALSE) \/ Ends(TRUE)
  BY <1>6, LogEnds
<1>7. CASE UNCHANGED vars
  BY <1>7, LogStutter DEF vars
<1>8. QED
  BY <1>1, <1>2, <1>3, <1>4, <1>5, <1>6, <1>7 DEF Next, Main

\* QALogWriter implements the abstract log: the queue, the two flushers and
\* the end of the process together look like a log that records each accepted
\* entry at most once.
THEOREM Refinement == Spec => ImplementsLog
<1>1. Init => Log!LogInit
  BY ElementsEmpty DEF Init, Log!LogInit, Unwritten, Held, Elements
<1>2. QED
  BY <1>1, Invariance, LogRefines, PTL DEF Spec, ImplementsLog, Log!LogSpec, LogStep, Log!logVars
=============================================================================

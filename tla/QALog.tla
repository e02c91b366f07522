------------------------------- MODULE QALog -------------------------------
(***************************************************************************)
(* What the Q&A log promises its callers: an entry handed to the writer is *)
(* pending until it is appended to the log file once, or given up once.    *)
(* Entries are numbered in the order of the log_qa calls that made them.   *)
(* The abstract counterpart of QALogWriter: it has no threads, no idle     *)
(* test and no shutdown sequence.                                          *)
(***************************************************************************)
EXTENDS Naturals, Sequences

VARIABLES pending,   (* entries accepted and neither recorded nor given up *)
          recorded,  (* the log file: a sequence of entries                *)
          forgotten, (* entries that will never be in the log file         *)
          accepted   (* how many entries were accepted so far              *)

logVars == <<pending, recorded, forgotten, accepted>>

LogInit ==
    /\ pending = {}
    /\ recorded = <<>>
    /\ forgotten = {}
    /\ accepted = 0

Accept ==
    /\ accepted' = accepted + 1
    /\ pending' = pending \cup {accepted + 1}
    /\ UNCHANGED <<recorded, forgotten>>

Record(e) ==
    /\ e \in pending
    /\ pending' = pending \ {e}
    /\ recorded' = Append(recorded, e)
    /\ UNCHANGED <<forgotten, accepted>>

\* A write that raised gives up one entry; the end of the process gives up
\* all the entries that are still pending.
Forget(S) ==
    /\ S \subseteq pending
    /\ pending' = pending \ S
    /\ forgotten' = forgotten \cup S
    /\ UNCHANGED <<recorded, accepted>>

LogNext ==
    \/ Accept
    \/ \E e \in pending : Record(e)
    \/ \E S \in SUBSET pending : Forget(S)

LogSpec == LogInit /\ [][LogNext]_logVars
=============================================================================

------------------------ MODULE MCPatternSummarizer ------------------------
(***************************************************************************)
(* Instances of PatternSummarizer for TLC.                                 *)
(***************************************************************************)
EXTENDS PatternSummarizer

CONSTANTS k1, k2, k3, a, b

\* The identifier is the name of the cluster cut after 80 characters: two
\* clusters share one.
Truncated == [k \in Clusters |-> IF k = k3 THEN b ELSE a]

\* Calls without `since`, with and without `until`.
DefaultPeriods == {<<0, 0>>, <<0, 2>>}

\* Calls without arguments, and for the period up to the first entry.
AllPeriods == {<<0, 0>>, <<0, 1>>, <<1, 2>>}
=============================================================================

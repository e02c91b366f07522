-------------------------- MODULE MCOntologyRefresh ------------------------
(***************************************************************************)
(* Instances of OntologyRefresh for TLC.                                   *)
(***************************************************************************)
EXTENDS OntologyRefresh

CONSTANTS p1, p2, w1, w2

\* One process with all the refresh threads.
OneProcess == [w \in Workers |-> p1]

\* Two processes; the client of each runs queries of its own.
TwoProcesses == [w \in Workers |-> IF w = w1 THEN p1 ELSE p2]
=============================================================================

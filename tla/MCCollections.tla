---------------------------- MODULE MCCollections ----------------------------
(* Instances of Collections for TLC: sets of endpoints and trimmed names. *)
EXTENDS Collections

AllEndpoints == {"container-logs", "containers", "services", "report", "list", "registry"}
OnlyLogs == {"container-logs"}

\* The name of unit 3, trimmed, is the name of unit 1.
Trimming == [u \in 1..UnitCount |-> IF u = 3 THEN 1 ELSE u]
=============================================================================

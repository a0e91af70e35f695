----------------------------- MODULE MCServers -----------------------------
(* Servers for TLC: requests, addresses, passwords and keys are            *)
(* interchangeable.                                                        *)
EXTENDS Servers, TLC

Symmetry ==
    Permutations(Procs) \cup Permutations(Hosts) \cup Permutations(Passwords)
    \cup Permutations(Keys)
=============================================================================

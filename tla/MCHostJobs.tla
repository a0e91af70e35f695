----------------------------- MODULE MCHostJobs -----------------------------
(* HostJobs for TLC: container ids, names, references and jobs of one kind *)
(* are interchangeable.                                                    *)
EXTENDS HostJobs, TLC

AllJobs == Deploys \cup Purges

Symmetry ==
    Permutations(Containers) \cup Permutations(Names) \cup Permutations(Refs)
    \cup Permutations(Deploys) \cup Permutations(Purges)
=============================================================================

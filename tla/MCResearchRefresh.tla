-------------------------- MODULE MCResearchRefresh --------------------------
(* Instances of ResearchRefresh for TLC. *)
EXTENDS ResearchRefresh, TLC
CONSTANTS p1, p2, j1, j2, j3, k1, k2, k3, k4

Processes == Permutations({p1, p2})
==============================================================================

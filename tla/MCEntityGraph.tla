--------------------------- MODULE MCEntityGraph ---------------------------
(* Instances of EntityGraph for TLC. *)
EXTENDS EntityGraph, TLC
CONSTANTS a, b, v1, v2, w, x, y, z

\* Source a has a version of two entities and one of a single entity; source b one of two.
TwoSources == ({a} \X {v1} \X {x, y}) \cup {<<a, v2, z>>} \cup ({b} \X {w} \X {x, y})
LocalNames == Permutations({x, y})
=============================================================================

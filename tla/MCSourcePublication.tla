------------------------- MODULE MCSourcePublication -------------------------
(* Instances of SourcePublication for TLC. *)
EXTENDS SourcePublication, TLC
CONSTANTS s1, s2, o1, o2, p1, p2, c1, c2

\* Both operations ingest the one source, or there is one operation.
OneTarget == o1 :> s1 @@ o2 :> s1
SingleTarget == o1 :> s1

Attempts == Permutations({p1, p2})

\* Attempts, operations of the same source and contents are alike.
Alike == {f @@ g @@ h : f \in Attempts, g \in Permutations({o1, o2}), h \in Permutations({c1, c2})}
==============================================================================

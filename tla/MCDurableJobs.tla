---------------------------- MODULE MCDurableJobs ----------------------------
(* Instances of DurableJobs for TLC. *)
EXTENDS DurableJobs, TLC
CONSTANTS m1, m2, w1, w2, k1, c1

\* Two processes with one worker task each, and one process with one.
TwoManagers == w1 :> m1 @@ w2 :> m2
OneManager == w1 :> m1

\* Exchanging the two processes together with their worker tasks.
SwapManagers ==
  {m1 :> m1 @@ m2 :> m2 @@ w1 :> w1 @@ w2 :> w2, m1 :> m2 @@ m2 :> m1 @@ w1 :> w2 @@ w2 :> w1}
==============================================================================

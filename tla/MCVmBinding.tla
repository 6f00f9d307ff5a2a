----------------------------- MODULE MCVmBinding -----------------------------
(* Instances of VmBinding for TLC: every run has its sender, and pays the next; *)
(* the sender of the estimate cannot afford it.                                 *)
EXTENDS VmBinding, TLC

CONSTANTS apply1, apply2, estimate, alice, bob, carol

EachOne == (apply1 :> alice) @@ (apply2 :> bob) @@ (estimate :> carol)
TheNext == (apply1 :> bob) @@ (apply2 :> carol) @@ (estimate :> alice)
OfRuns(f) == [r \in Runs |-> f[r]]
Senders == OfRuns(EachOne)
Receivers == OfRuns(TheNext)
Holdings == (alice :> 3) @@ (bob :> 2) @@ (carol :> 0)
=============================================================================

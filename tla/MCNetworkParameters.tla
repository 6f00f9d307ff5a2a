------------------------ MODULE MCNetworkParameters ------------------------
(* Instances of NetworkParameters for TLC. *)
EXTENDS NetworkParameters, TLC

Config == [a |-> 1, b |-> 1]
Params == [activeVersion |-> 1]
Asked == {"a" :> 0, ("a" :> 3) @@ ("b" :> 2), "activeVersion" :> 3}
Symmetry == Permutations(Nodes)
=============================================================================

--------------------------- MODULE MCMessageCalls ----------------------------
(* Instances of MessageCalls for TLC. *)
EXTENDS MessageCalls, TLC

CONSTANTS eoa, a, b, c

Holdings == (eoa :> 1) @@ (a :> 1) @@ (b :> 0) @@ (c :> 0)
FundsOf == [x \in Addresses |-> Holdings[x]]
=============================================================================

----------------------------- MODULE MCDataSync ------------------------------
(* Instances of DataSync for TLC: accounts of one timestamp, or of two. *)
EXTENDS DataSync

FirstTables == {<<1, 1, 1>>, <<1, 2, 1>>, <<2, 1, 1>>, <<1, 1, 1, 1>>}
===============================================================================

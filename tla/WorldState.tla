----------------------------- MODULE WorldState -----------------------------
(***************************************************************************)
(* What a state manager promises the EVM about one kind of state: while a  *)
(* transaction runs there is a value for every key, checkpoints nest, a    *)
(* commit keeps what was written since the last checkpoint and a revert    *)
(* brings back what was there when it was taken.  Between transactions the *)
(* values may become any others.                                           *)
(***************************************************************************)
EXTENDS Integers, Sequences

CONSTANTS Keys, Values
VARIABLES world,   \* the value of every key
          saved,   \* world at each open checkpoint
          running  \* a transaction runs

vars == <<world, saved, running>>

Init == world \in [Keys -> Values] /\ saved = <<>> /\ running = FALSE

Begin == ~running /\ saved = <<>> /\ running' = TRUE /\ UNCHANGED <<world, saved>>

Put(k, v) ==
  /\ running
  /\ world' = [world EXCEPT ![k] = v]
  /\ UNCHANGED <<saved, running>>

Checkpoint ==
  /\ running
  /\ saved' = Append(saved, world)
  /\ UNCHANGED <<world, running>>

Drop(seq) == SubSeq(seq, 1, Len(seq) - 1)

Commit ==
  /\ running /\ saved # <<>>
  /\ saved' = Drop(saved)
  /\ UNCHANGED <<world, running>>

Revert ==
  /\ running /\ saved # <<>>
  /\ world' = saved[Len(saved)]
  /\ saved' = Drop(saved)
  /\ UNCHANGED running

End == running /\ running' = FALSE /\ UNCHANGED <<world, saved>>

Replace ==
  /\ ~running
  /\ world' \in [Keys -> Values]
  /\ saved' = <<>>
  /\ UNCHANGED running

Next ==
  \/ Begin \/ Checkpoint \/ Commit \/ Revert \/ End \/ Replace
  \/ \E k \in Keys, v \in Values : Put(k, v)

Spec == Init /\ [][Next]_vars
=============================================================================

--------------------------- MODULE SnapshotStore ---------------------------
(***************************************************************************)
(* What chainbase promises about undo: a store with a current state and a  *)
(* stack of saved states.  A session saves the current state; undoing it   *)
(* returns to the saved state, squashing it forgets the saved state, and   *)
(* committing forgets the oldest ones for good.                            *)
(***************************************************************************)
EXTENDS Integers, Sequences

CONSTANT States

VARIABLES cur, saved

Last == saved[Len(saved)]
AllButLast == SubSeq(saved, 1, Len(saved) - 1)

Init == cur \in States /\ saved = <<>>

Write == cur' \in States /\ UNCHANGED saved
Save == saved' = Append(saved, cur) /\ UNCHANGED cur
Rollback == saved # <<>> /\ cur' = Last /\ saved' = AllButLast
Forget == saved # <<>> /\ saved' = AllButLast /\ UNCHANGED cur
Commit == /\ \E n \in 0 .. Len(saved) : saved' = SubSeq(saved, n + 1, Len(saved))
          /\ UNCHANGED cur

Next == Write \/ Save \/ Rollback \/ Forget \/ Commit

Spec == Init /\ [][Next]_<<cur, saved>>
=============================================================================

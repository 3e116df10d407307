--------------------------- MODULE GenericIndex ---------------------------
(***************************************************************************)
(* chainbase::generic_index: one table of objects with a stack of undo     *)
(* states.  Every object has an id handed out by the table and a value.    *)
(* An undo state does not copy the table, it remembers per id what changed *)
(* since it was pushed: the value before the first modification            *)
(* (old_values), the value before a removal (removed_values) and the ids   *)
(* that were created (new_ids).                                            *)
(*                                                                         *)
(* Maps from id to value are total functions on Ids with NoVal where the   *)
(* C++ map has no entry.  The value stands for the key of a secondary      *)
(* index as well: with Unique the table also has an ordered_unique index   *)
(* on it, so two objects with equal values collide.                        *)
(*                                                                         *)
(* snaps is a history variable: the table as it was when each entry of the *)
(* stack was pushed.  No guard reads it.                                   *)
(***************************************************************************)
EXTENDS Integers, Sequences

CONSTANTS
  MaxId,        \* bound: ids are 0 .. MaxId - 1
  MaxDepth,     \* bound: length of the undo stack
  MaxRevision,  \* bound: revision numbers
  Values,       \* what an object may hold
  NoVal,        \* no entry
  Unique        \* is there a unique secondary index?

ASSUME BoundsAssumption ==
  MaxId \in Nat /\ MaxDepth \in Nat /\ MaxRevision \in Nat
ASSUME ValuesAssumption == NoVal \notin Values
ASSUME UniqueAssumption == Unique \in BOOLEAN

VARIABLES
  indices,    \* _indices: id -> value or NoVal
  next_id,    \* _next_id
  revision,   \* _revision
  stack,      \* _stack, oldest first
  sessions,   \* revisions of the live session handles with _apply, LIFO
  failed,     \* a logic_error left the table half changed
  snaps       \* history: the table when stack[i] was pushed

vars == <<indices, next_id, revision, stack, sessions, failed, snaps>>

Ids == 0 .. (MaxId - 1)
Maybe == Values \cup {NoVal}
Table == [Ids -> Maybe]
NoEntries == [i \in Ids |-> NoVal]

UndoState ==
  [old_values : Table, removed_values : Table, new_ids : SUBSET Ids,
   old_next_id : Nat, revision : Int]

Snapshot == [indices : Table, next_id : Nat]
Current == [indices |-> indices, next_id |-> next_id]

Enabled == Len(stack) > 0            \* generic_index::enabled()
Top == stack[Len(stack)]
SetTop(u) == [stack EXCEPT ![Len(stack)] = u]
ButLast(s) == SubSeq(s, 1, Len(s) - 1)

\* Would storing v under id collide with another object of t?
Collides(t, id, v) == Unique /\ \E j \in Ids \ {id} : t[j] = v

-----------------------------------------------------------------------------
\* The hooks that record a change in the undo state on top of the stack.

\* Mutant of OnCreate: the new id is not recorded.
OnCreateNothing(u, id) == u

OnCreate(u, id) == [u EXCEPT !.new_ids = @ \cup {id}]

\* Mutant of OnModify: records every modification, not the first.
OnModifyAlways(u, id) ==
  IF id \in u.new_ids THEN u ELSE [u EXCEPT !.old_values[id] = indices[id]]

OnModify(u, id) ==
  IF id \in u.new_ids \/ u.old_values[id] # NoVal
  THEN u
  ELSE [u EXCEPT !.old_values[id] = indices[id]]

\* Mutant of OnRemove: leaves the old value behind.
OnRemoveKeepsOld(u, id) ==
  IF id \in u.new_ids
  THEN [u EXCEPT !.new_ids = @ \ {id}]
  ELSE [u EXCEPT !.removed_values[id] = IF u.old_values[id] # NoVal
                                        THEN u.old_values[id] ELSE indices[id]]

OnRemove(u, id) ==
  IF id \in u.new_ids
  THEN [u EXCEPT !.new_ids = @ \ {id}]
  ELSE IF u.old_values[id] # NoVal
  THEN [u EXCEPT !.removed_values[id] = u.old_values[id],
                 !.old_values[id] = NoVal]
  ELSE IF u.removed_values[id] # NoVal
  THEN u
  ELSE [u EXCEPT !.removed_values[id] = indices[id]]

Record(u) == stack' = IF Enabled THEN SetTop(u) ELSE stack

-----------------------------------------------------------------------------
\* Object operations.

\* A colliding emplace throws before it changes anything.
Emplace(v) ==
  /\ next_id < MaxId
  /\ ~Collides(indices, next_id, v)
  /\ indices' = [indices EXCEPT ![next_id] = v]
  /\ next_id' = next_id + 1
  /\ Record(OnCreate(Top, next_id))
  /\ UNCHANGED <<revision, sessions, failed, snaps>>

\* multi_index::modify erases an element that collides after the change; the
\* undo state keeps its record of it and the caller gets a logic_error.
Modify(id, v) ==
  /\ indices[id] # NoVal
  /\ Record(OnModify(Top, id))
  /\ IF Collides(indices, id, v)
     THEN indices' = [indices EXCEPT ![id] = NoVal] /\ failed' = TRUE
     ELSE indices' = [indices EXCEPT ![id] = v] /\ UNCHANGED failed
  /\ UNCHANGED <<next_id, revision, sessions, snaps>>

\* remove() and remove_object(), which throws when the id is not there.
Remove(id) ==
  /\ indices[id] # NoVal
  /\ Record(OnRemove(Top, id))
  /\ indices' = [indices EXCEPT ![id] = NoVal]
  /\ UNCHANGED <<next_id, revision, sessions, failed, snaps>>

-----------------------------------------------------------------------------
\* The undo stack.

NewUndoState ==
  [old_values |-> NoEntries, removed_values |-> NoEntries, new_ids |-> {},
   old_next_id |-> next_id, revision |-> revision + 1]

\* start_undo_session( true ); with false the handle does nothing.
StartUndoSession ==
  /\ Len(stack) < MaxDepth
  /\ revision < MaxRevision
  /\ revision' = revision + 1
  /\ stack' = Append(stack, NewUndoState)
  /\ sessions' = Append(sessions, revision + 1)
  /\ snaps' = Append(snaps, Current)
  /\ UNCHANGED <<indices, next_id, failed>>

\* The first loop of undo() walks old_values by id.  The table when it has
\* put back the ids below k:
PutBack(u, k) ==
  [i \in Ids |-> IF i < k /\ u.old_values[i] # NoVal
                 THEN u.old_values[i] ELSE indices[i]]

\* The ids at which that loop finds the old value taken by another object.
Clashes(u) ==
  {k \in Ids : u.old_values[k] # NoVal
               /\ Collides(PutBack(u, k), k, u.old_values[k])}

\* What the three loops leave when none of them throws.
Restore(u, t) ==
  [indices |-> [i \in Ids |->
     IF i \in u.new_ids THEN NoVal
     ELSE IF u.removed_values[i] # NoVal THEN u.removed_values[i]
     ELSE IF u.old_values[i] # NoVal THEN u.old_values[i]
     ELSE t[i]],
   next_id |-> u.old_next_id]

\* Mutant of UndoTop: the early return comes after the revision is lowered.
UndoTopLateReturn ==
  /\ revision' = revision - 1
  /\ IF ~Enabled
     THEN UNCHANGED <<indices, next_id, stack, failed, snaps>>
     ELSE /\ indices' = Restore(Top, indices).indices
          /\ next_id' = Restore(Top, indices).next_id
          /\ stack' = ButLast(stack)
          /\ snaps' = ButLast(snaps)
          /\ UNCHANGED failed

UndoTop ==
  IF ~Enabled
  THEN UNCHANGED <<indices, next_id, revision, stack, failed, snaps>>
  ELSE IF Clashes(Top) = {}
  THEN LET r == Restore(Top, indices)
       IN /\ indices' = r.indices
          /\ next_id' = r.next_id
          /\ revision' = revision - 1
          /\ stack' = ButLast(stack)
          /\ snaps' = ButLast(snaps)
          /\ UNCHANGED failed
  ELSE \* modify() erased the clashing object and undo() threw
       /\ \E k \in Clashes(Top) :
            /\ \A j \in Clashes(Top) : k <= j
            /\ indices' = [PutBack(Top, k) EXCEPT ![k] = NoVal]
       /\ failed' = TRUE
       /\ UNCHANGED <<next_id, revision, stack, snaps>>

\* Mutant of Merge: the newer record wins.
MergeNewest(a, b) ==
  [old_values |-> [i \in Ids |-> IF b.old_values[i] # NoVal
                                 THEN b.old_values[i] ELSE a.old_values[i]],
   removed_values |-> [i \in Ids |-> IF b.removed_values[i] # NoVal
                                     THEN b.removed_values[i]
                                     ELSE a.removed_values[i]],
   new_ids |-> a.new_ids \cup b.new_ids,
   old_next_id |-> a.old_next_id,
   revision |-> a.revision]

\* squash() of state b into the state a below it, by its three loops.
Merge(a, b) ==
  LET new == a.new_ids \cup b.new_ids
      old == [i \in Ids |->
                IF b.old_values[i] # NoVal /\ i \notin a.new_ids
                   /\ a.old_values[i] = NoVal
                THEN b.old_values[i] ELSE a.old_values[i]]
      deleted == {i \in Ids : b.removed_values[i] # NoVal}
  IN [old_values |-> [i \in Ids |-> IF i \in deleted \ new
                                    THEN NoVal ELSE old[i]],
      removed_values |-> [i \in Ids |->
         IF i \notin deleted \ new \/ a.removed_values[i] # NoVal
         THEN a.removed_values[i]
         ELSE IF old[i] # NoVal THEN old[i] ELSE b.removed_values[i]],
      new_ids |-> new \ deleted,
      old_next_id |-> a.old_next_id,
      revision |-> a.revision]

\* Mutant of SquashTop: forgets to lower _revision.
SquashTopKeepsRevision ==
  LET n == Len(stack)
  IN CASE n = 0 -> UNCHANGED <<revision, stack, snaps>>
       [] n = 1 -> stack' = <<>> /\ snaps' = <<>> /\ UNCHANGED revision
       [] OTHER -> /\ stack' = [ButLast(stack) EXCEPT
                                  ![n - 1] = Merge(stack[n - 1], stack[n])]
                   /\ snaps' = ButLast(snaps)
                   /\ UNCHANGED revision

\* With one state left there is nothing to merge into: it is dropped and
\* _revision keeps its value.
SquashTop ==
  LET n == Len(stack)
  IN CASE n = 0 -> UNCHANGED <<revision, stack, snaps>>
       [] n = 1 -> stack' = <<>> /\ snaps' = <<>> /\ UNCHANGED revision
       [] OTHER -> /\ stack' = [ButLast(stack) EXCEPT
                                  ![n - 1] = Merge(stack[n - 1], stack[n])]
                   /\ snaps' = ButLast(snaps)
                   /\ revision' = revision - 1

\* The handle at the end of its scope: pushed, squashed or undone.  Only the
\* sessions of _push_block() are pushed, and no other handle is live there.
HasSession == Len(sessions) > 0

SessionPush ==
  /\ Len(sessions) = 1
  /\ sessions' = ButLast(sessions)
  /\ UNCHANGED <<indices, next_id, revision, stack, failed, snaps>>

SessionSquash ==
  /\ HasSession
  /\ sessions' = ButLast(sessions)
  /\ SquashTop
  /\ UNCHANGED <<indices, next_id, failed>>

SessionUndo ==
  /\ HasSession
  /\ sessions' = ButLast(sessions)
  /\ UndoTop

\* database::undo(): called by pop_block() while no handle is live.
Undo == ~HasSession /\ UndoTop /\ UNCHANGED sessions

\* commit(r) drops the first n states: all up to the first one above r.
Drops(n, r) ==
  /\ \A i \in 1 .. n : stack[i].revision <= r
  /\ n < Len(stack) => stack[n + 1].revision > r

\* Mutant of Commit: drops states from the back.
CommitFromBack(r) ==
  /\ \E n \in 0 .. Len(stack) :
       /\ Drops(n, r)
       /\ stack' = SubSeq(stack, 1, Len(stack) - n)
       /\ snaps' = SubSeq(snaps, 1, Len(snaps) - n)
  /\ UNCHANGED <<indices, next_id, revision, sessions, failed>>

Commit(r) ==
  /\ \E n \in 0 .. Len(stack) :
       /\ Drops(n, r)
       /\ stack' = SubSeq(stack, n + 1, Len(stack))
       /\ snaps' = SubSeq(snaps, n + 1, Len(snaps))
  /\ UNCHANGED <<indices, next_id, revision, sessions, failed>>

\* set_revision() throws while there is an undo state.
SetRevision(r) ==
  /\ ~HasSession /\ ~Enabled
  /\ revision' = r
  /\ UNCHANGED <<indices, next_id, stack, sessions, failed, snaps>>

-----------------------------------------------------------------------------
Init ==
  /\ indices = NoEntries
  /\ next_id = 0
  /\ revision = 0
  /\ stack = <<>>
  /\ sessions = <<>>
  /\ failed = FALSE
  /\ snaps = <<>>

\* After a logic_error the table is not used any further.
Next ==
  /\ ~failed
  /\ \/ \E v \in Values : Emplace(v)
     \/ \E id \in Ids, v \in Values : Modify(id, v)
     \/ \E id \in Ids : Remove(id)
     \/ StartUndoSession
     \/ SessionPush
     \/ SessionSquash
     \/ SessionUndo
     \/ Undo
     \/ \E r \in 0 .. MaxRevision : Commit(r)
     \/ \E r \in 0 .. MaxRevision : SetRevision(r)

Spec == Init /\ [][Next]_vars

-----------------------------------------------------------------------------
\* Every variable has its C++ type; ids not handed out yet hold nothing.
TypeOK ==
  /\ indices \in Table
  /\ next_id \in 0 .. MaxId
  /\ revision \in Nat
  /\ stack \in Seq(UndoState)
  /\ sessions \in Seq(Nat)
  /\ failed \in BOOLEAN
  /\ snaps \in Seq(Snapshot)
  /\ Len(snaps) = Len(stack)

\* The table that entry i of the stack was changed into: the snapshot of the
\* entry above it, or the table as it is.
After(i) == IF i = Len(stack) THEN Current ELSE snaps[i + 1]

\* undo() promises to restore the table as it was when the session began,
\* although an undo state only remembers first changes per id.  At every level
\* of the stack, whatever was created, modified, removed, squashed or
\* committed in between, the record of changes leads back to the snapshot.
RollsBack ==
  ~failed => \A i \in 1 .. Len(stack) :
               Restore(stack[i], After(i).indices) = snaps[i]

Holds(m) == {i \in Ids : m[i] # NoVal}

\* squash() ignores the combinations its comment calls N/A and asserts two of
\* them away: an id is never created above a state that already mentions it,
\* never touched above a state that removed it, and one undo state never
\* lists an id twice.
SquashCases ==
  ~failed =>
  /\ \A i \in 1 .. Len(stack) :
       LET u == stack[i]
       IN /\ u.new_ids \cap Holds(u.old_values) = {}
          /\ u.new_ids \cap Holds(u.removed_values) = {}
          /\ Holds(u.old_values) \cap Holds(u.removed_values) = {}
  /\ \A i \in 1 .. Len(stack) - 1 :
       LET a == stack[i]
           b == stack[i + 1]
       IN /\ b.new_ids \cap (a.new_ids \cup Holds(a.old_values)
                              \cup Holds(a.removed_values)) = {}
          /\ (Holds(b.old_values) \cup Holds(b.removed_values))
                \cap Holds(a.removed_values) = {}

\* undo() hands what find() returns to modify() and erase() without looking at
\* it, and squash() relies on the same facts: every id with an old value and
\* every new id is still in the table the state was changed into, and no
\* removed one is.
UndoFindsObjects ==
  ~failed => \A i \in 1 .. Len(stack), id \in Ids :
    LET u == stack[i]
    IN /\ id \in u.new_ids \/ u.old_values[id] # NoVal
            => After(i).indices[id] # NoVal
       /\ u.removed_values[id] # NoVal => After(i).indices[id] = NoVal

\* What undo() and squash() take for granted about their records and check in
\* debug builds at most, through any nesting of sessions, squashes and commits.
RecordsFit == SquashCases /\ UndoFindsObjects

\* A session handle only remembers that it must undo, not what: the code relies
\* on its own undo state being on top when its scope ends.  Unless commit()
\* dropped every state, the top of the stack is the innermost live session's.
SessionOwnsTop ==
  ~failed /\ HasSession /\ Enabled => Top.revision = sessions[Len(sessions)]

\* The revisions on the stack are consecutive and end at the current one, so
\* that undo_all() after a commit(r) arrives exactly at revision r: what
\* database::open() asserts of the head block number.
RevisionsConsecutive ==
  \A i \in 1 .. Len(stack) : stack[i].revision = revision - (Len(stack) - i)

\* undo() puts old values back before it erases the objects the session made,
\* so it can find a key taken.  That is limited to keys that changed hands
\* inside the session itself: the object in the way was created by it or had
\* its own key changed by it, and an object from before never is.
ClashesOnlyWithinSession ==
  ~failed /\ Enabled =>
    \A k \in Clashes(Top), j \in Ids :
      j # k /\ PutBack(Top, k)[j] = Top.old_values[k]
        => j \in Top.new_ids \/ Top.old_values[j] # NoVal

\* The table implements a store that keeps whole copies of itself.
Store == INSTANCE SnapshotStore WITH
           States <- Snapshot, cur <- Current, saved <- snaps
ImplementsStore == Store!Spec
=============================================================================

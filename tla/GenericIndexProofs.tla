------------------------ MODULE GenericIndexProofs ------------------------
(***************************************************************************)
(* Proofs about GenericIndex for every number of ids, undo levels and      *)
(* values, with and without a unique secondary index.                      *)
(*                                                                         *)
(* RollsBack is not inductive: creating an object at next_id is only       *)
(* undone correctly because no undo state mentions that id and no snapshot *)
(* holds anything there, and merging two states is only right because an   *)
(* id removed below is not touched above.  LevelOK states, id by id, how   *)
(* an undo state relates the table below it (pre) to the table above it    *)
(* (post); every operation of the table preserves it and squash() composes *)
(* it.                                                                     *)
(***************************************************************************)
EXTENDS GenericIndex, SequenceTheorems, TLAPS

Fresh(s) == \A id \in Ids : id >= s.next_id => s.indices[id] = NoVal

LevelOK(u, pre, post) ==
  /\ u.old_next_id = pre.next_id
  /\ pre.next_id <= post.next_id
  /\ \A id \in Ids :
       /\ id \in u.new_ids =>
            /\ pre.next_id <= id /\ id < post.next_id
            /\ pre.indices[id] = NoVal /\ post.indices[id] # NoVal
       /\ u.old_values[id] # NoVal =>
            /\ id < pre.next_id
            /\ pre.indices[id] = u.old_values[id] /\ post.indices[id] # NoVal
       /\ u.removed_values[id] # NoVal =>
            /\ id < pre.next_id
            /\ pre.indices[id] = u.removed_values[id] /\ post.indices[id] = NoVal
       /\ id \notin u.new_ids /\ u.old_values[id] = NoVal
            /\ u.removed_values[id] = NoVal
            => pre.indices[id] = post.indices[id]

Levels ==
  /\ Fresh(Current)
  /\ \A i \in 1 .. Len(stack) :
       Fresh(snaps[i]) /\ LevelOK(stack[i], snaps[i], After(i))

Revisions ==
  \A i \in 1 .. Len(stack) :
    /\ stack[i].revision = revision - (Len(stack) - i)
    /\ stack[i].revision >= 1

Inv == TypeOK /\ Revisions /\ (~failed => Levels)

-----------------------------------------------------------------------------
\* The hooks keep undo states well typed.
LEMMA HooksTyped ==
  ASSUME NEW u \in UndoState, NEW id \in Ids, indices \in Table
  PROVE  /\ OnCreate(u, id) \in UndoState
         /\ OnModify(u, id) \in UndoState
         /\ OnRemove(u, id) \in UndoState
         /\ OnCreate(u, id).revision = u.revision
         /\ OnModify(u, id).revision = u.revision
         /\ OnRemove(u, id).revision = u.revision
<1>1. OnCreate(u, id) \in UndoState /\ OnCreate(u, id).revision = u.revision
  BY DEF OnCreate, UndoState
<1>2. OnModify(u, id) \in UndoState /\ OnModify(u, id).revision = u.revision
  BY DEF OnModify, UndoState, Table, Maybe
<1>3. OnRemove(u, id) \in UndoState /\ OnRemove(u, id).revision = u.revision
  BY DEF OnRemove, UndoState, Table, Maybe
<1> QED BY <1>1, <1>2, <1>3

\* What squash() makes of two undo states is one, with the lower revision.
LEMMA MergeTyped ==
  ASSUME NEW a \in UndoState, NEW b \in UndoState
  PROVE  Merge(a, b) \in UndoState /\ Merge(a, b).revision = a.revision
BY DEF Merge, UndoState, Table, Maybe

\* on_create() after an emplace: the new object is undone by erasing it.
LEMMA CreateLevel ==
  ASSUME NEW u \in UndoState, NEW pre \in Snapshot, NEW v \in Values,
         indices \in Table, next_id \in Ids,
         LevelOK(u, pre, Current), Fresh(pre)
  PROVE  LevelOK(OnCreate(u, next_id), pre,
                 [indices |-> [indices EXCEPT ![next_id] = v],
                  next_id |-> next_id + 1])
BY ValuesAssumption
   DEF LevelOK, OnCreate, Current, Fresh, UndoState, Snapshot, Table, Ids

\* on_modify() before a modify: only the first change of an id is recorded.
LEMMA ModifyLevel ==
  ASSUME NEW u \in UndoState, NEW pre \in Snapshot, NEW v \in Values,
         NEW id \in Ids, indices \in Table, next_id \in Nat,
         LevelOK(u, pre, Current), Fresh(pre), indices[id] # NoVal
  PROVE  LevelOK(OnModify(u, id), pre,
                 [indices |-> [indices EXCEPT ![id] = v], next_id |-> next_id])
<1> DEFINE post == [indices |-> [indices EXCEPT ![id] = v], next_id |-> next_id]
           n == OnModify(u, id)
<1>1. /\ n.new_ids = u.new_ids /\ n.removed_values = u.removed_values
      /\ n.old_next_id = u.old_next_id
      /\ \A i \in Ids : n.old_values[i] =
           IF i = id /\ id \notin u.new_ids /\ u.old_values[id] = NoVal
           THEN indices[id] ELSE u.old_values[i]
  BY DEF OnModify, UndoState, Table
<1>2. \A i \in Ids : post.indices[i] = IF i = id THEN v ELSE indices[i]
  BY DEF Table
<1>3. post.next_id = next_id /\ Ids \subseteq Int /\ pre.next_id \in Nat /\ v # NoVal
  BY ValuesAssumption DEF Ids, Snapshot
<1>4. n.old_next_id = pre.next_id /\ pre.next_id <= post.next_id
  BY <1>1 DEF LevelOK, Current
<1> HIDE DEF post, n
<1> QED BY <1>1, <1>2, <1>3, <1>4 DEF LevelOK, Current, Fresh, post, n

\* on_remove() before a remove.
LEMMA RemoveLevel ==
  ASSUME NEW u \in UndoState, NEW pre \in Snapshot,
         NEW id \in Ids, indices \in Table, next_id \in Nat,
         LevelOK(u, pre, Current), Fresh(pre), indices[id] # NoVal
  PROVE  LevelOK(OnRemove(u, id), pre,
                 [indices |-> [indices EXCEPT ![id] = NoVal],
                  next_id |-> next_id])
<1> DEFINE post == [indices |-> [indices EXCEPT ![id] = NoVal],
                    next_id |-> next_id]
           n == OnRemove(u, id)
<1>1. u.removed_values[id] = NoVal
  BY DEF LevelOK, Current
<1>2. /\ n.new_ids = u.new_ids \ {id}
      /\ n.old_next_id = u.old_next_id
      /\ \A i \in Ids : n.old_values[i] =
           IF i = id /\ id \notin u.new_ids THEN NoVal ELSE u.old_values[i]
      /\ \A i \in Ids : n.removed_values[i] =
           IF i = id /\ id \notin u.new_ids
           THEN IF u.old_values[id] # NoVal THEN u.old_values[id] ELSE indices[id]
           ELSE u.removed_values[i]
  BY <1>1 DEF OnRemove, UndoState, Table
<1>3. \A i \in Ids : post.indices[i] = IF i = id THEN NoVal ELSE indices[i]
  BY DEF Table
<1>4. post.next_id = next_id /\ Ids \subseteq Int /\ pre.next_id \in Nat
  BY DEF Ids, Snapshot
<1>5. n.old_next_id = pre.next_id /\ pre.next_id <= post.next_id
  BY <1>2 DEF LevelOK, Current
<1> HIDE DEF post, n
<1> QED BY <1>1, <1>2, <1>3, <1>4, <1>5 DEF LevelOK, Current, Fresh, post, n

\* squash() composes two levels.
LEMMA MergeLevel ==
  ASSUME NEW a \in UndoState, NEW b \in UndoState,
         NEW p \in Snapshot, NEW q \in Snapshot, NEW r \in Snapshot,
         LevelOK(a, p, q), LevelOK(b, q, r), Fresh(p)
  PROVE  LevelOK(Merge(a, b), p, r)
<1> DEFINE m == Merge(a, b)
<1>1. /\ m.old_next_id = a.old_next_id
      /\ \A i \in Ids :
           /\ i \in m.new_ids <=> /\ i \in a.new_ids \/ i \in b.new_ids
                                  /\ b.removed_values[i] = NoVal
           /\ m.old_values[i] =
                IF /\ b.removed_values[i] # NoVal
                   /\ i \notin a.new_ids /\ i \notin b.new_ids
                THEN NoVal
                ELSE IF /\ b.old_values[i] # NoVal /\ i \notin a.new_ids
                        /\ a.old_values[i] = NoVal
                THEN b.old_values[i] ELSE a.old_values[i]
           /\ m.removed_values[i] =
                IF \/ b.removed_values[i] = NoVal
                   \/ i \in a.new_ids \/ i \in b.new_ids
                   \/ a.removed_values[i] # NoVal
                THEN a.removed_values[i]
                ELSE IF a.old_values[i] # NoVal THEN a.old_values[i]
                ELSE IF b.old_values[i] # NoVal THEN b.old_values[i]
                ELSE b.removed_values[i]
  BY DEF Merge
<1>2. Ids \subseteq Int /\ p.next_id \in Nat /\ q.next_id \in Nat /\ r.next_id \in Nat
  BY DEF Ids, Snapshot
<1>3. m.old_next_id = p.next_id /\ p.next_id <= r.next_id
  BY <1>1, <1>2 DEF LevelOK
<1> HIDE DEF m
<1>4. ASSUME NEW id \in Ids
      PROVE  /\ id \in m.new_ids =>
                  /\ p.next_id <= id /\ id < r.next_id
                  /\ p.indices[id] = NoVal /\ r.indices[id] # NoVal
             /\ m.old_values[id] # NoVal =>
                  /\ id < p.next_id
                  /\ p.indices[id] = m.old_values[id] /\ r.indices[id] # NoVal
             /\ m.removed_values[id] # NoVal =>
                  /\ id < p.next_id
                  /\ p.indices[id] = m.removed_values[id] /\ r.indices[id] = NoVal
             /\ id \notin m.new_ids /\ m.old_values[id] = NoVal
                  /\ m.removed_values[id] = NoVal
                  => p.indices[id] = r.indices[id]
  <2> DEFINE A(u, x, y) ==
               /\ id \in u.new_ids =>
                    /\ x.next_id <= id /\ id < y.next_id
                    /\ x.indices[id] = NoVal /\ y.indices[id] # NoVal
               /\ u.old_values[id] # NoVal =>
                    /\ id < x.next_id
                    /\ x.indices[id] = u.old_values[id] /\ y.indices[id] # NoVal
               /\ u.removed_values[id] # NoVal =>
                    /\ id < x.next_id
                    /\ x.indices[id] = u.removed_values[id]
                    /\ y.indices[id] = NoVal
               /\ id \notin u.new_ids /\ u.old_values[id] = NoVal
                    /\ u.removed_values[id] = NoVal
                    => x.indices[id] = y.indices[id]
  <2>a. A(a, p, q) /\ A(b, q, r) /\ p.next_id <= q.next_id /\ q.next_id <= r.next_id
    BY DEF LevelOK
  <2>b. id \in Int /\ (p.indices[id] # NoVal => id < p.next_id)
    BY <1>2 DEF Fresh
  <2>1. CASE b.removed_values[id] # NoVal
    BY <1>1, <1>2, <2>a, <2>b, <2>1
  <2>2. CASE id \in b.new_ids
    BY <1>1, <1>2, <2>a, <2>b, <2>2
  <2>3. CASE b.old_values[id] # NoVal
    BY <1>1, <1>2, <2>a, <2>b, <2>3
  <2>4. CASE /\ b.removed_values[id] = NoVal /\ id \notin b.new_ids
             /\ b.old_values[id] = NoVal
    BY <1>1, <1>2, <2>a, <2>b, <2>4
  <2> QED BY <2>1, <2>2, <2>3, <2>4
<1> QED BY <1>3, <1>4 DEF LevelOK, m

\* undo() returns to the table below.
LEMMA RestoreLevel ==
  ASSUME NEW u \in UndoState, NEW pre \in Snapshot, NEW post \in Snapshot,
         LevelOK(u, pre, post)
  PROVE  Restore(u, post.indices) = pre
<1> DEFINE t == Restore(u, post.indices)
<1>1. \A i \in Ids : t.indices[i] = pre.indices[i]
  BY DEF LevelOK, Restore
<1>2. t.indices = pre.indices
  BY <1>1 DEF Restore, Snapshot, Table
<1>3. t.next_id = pre.next_id
  BY DEF Restore, LevelOK
<1>4. t = [indices |-> t.indices, next_id |-> t.next_id]
  BY DEF Restore
<1>5. pre = [indices |-> pre.indices, next_id |-> pre.next_id]
  BY DEF Snapshot
<1> QED BY <1>2, <1>3, <1>4, <1>5

-----------------------------------------------------------------------------
\* A step that changes objects: the top undo state becomes u and the table
\* becomes t.
LEMMA ObjectStep ==
  ASSUME Inv, ~failed, NEW u, NEW t \in Snapshot, t.next_id \in 0 .. MaxId,
         Enabled => u \in UndoState /\ u.revision = Top.revision,
         Record(u), indices' = t.indices, next_id' = t.next_id,
         UNCHANGED <<revision, sessions, snaps>>, failed' \in BOOLEAN,
         ~failed' => Fresh(t) /\ (Enabled => LevelOK(u, snaps[Len(snaps)], t))
  PROVE  Inv'
<1>1. /\ stack' \in Seq(UndoState) /\ Len(stack') = Len(stack)
      /\ \A i \in 1 .. Len(stack) :
           stack'[i] = IF i = Len(stack) THEN u ELSE stack[i]
  <2>1. CASE Len(stack) > 0
    <3>1. stack' = [stack EXCEPT ![Len(stack)] = u] /\ u \in UndoState
      BY <2>1 DEF Record, Enabled, SetTop
    <3>2. Len(stack) \in 1 .. Len(stack) /\ stack \in Seq(UndoState)
      BY <2>1 DEF Inv, TypeOK
    <3> QED BY <3>1, <3>2, ExceptSeq
  <2>2. CASE Len(stack) = 0
    BY <2>2 DEF Inv, TypeOK, Record, Enabled
  <2> QED BY <2>1, <2>2 DEF Inv, TypeOK
<1>2. TypeOK'
  BY <1>1 DEF Inv, TypeOK, Snapshot
<1>3. Revisions'
  <2> SUFFICES ASSUME NEW i \in 1 .. Len(stack)
               PROVE  /\ stack'[i].revision = revision - (Len(stack) - i)
                      /\ stack'[i].revision >= 1
    BY <1>1 DEF Revisions
  <2>1. stack'[i].revision = stack[i].revision
    BY <1>1 DEF Inv, TypeOK, Enabled, Top
  <2> QED BY <2>1 DEF Inv, Revisions
<1>4. ASSUME ~failed' PROVE Levels'
  <2>1. Current' = t
    BY DEF Current, Snapshot
  <2>2. Fresh(t) /\ Fresh(Current)'
    BY <1>4, <2>1 DEF Fresh
  <2>3. ASSUME NEW i \in 1 .. Len(stack)
        PROVE  Fresh(snaps[i]) /\ LevelOK(stack'[i], snaps[i], After(i)')
    <3>1. Fresh(snaps[i]) /\ LevelOK(stack[i], snaps[i], After(i))
      BY DEF Inv, Levels
    <3>2. CASE i = Len(stack)
      <4>1. After(i)' = t /\ stack'[i] = u
        BY <1>1, <2>1, <3>2 DEF After
      <4>2. i = Len(snaps) /\ Enabled
        BY <3>2 DEF Inv, TypeOK, Enabled
      <4> QED BY <1>4, <3>1, <4>1, <4>2
    <3>3. CASE i # Len(stack)
      <4>1. After(i)' = After(i) /\ stack'[i] = stack[i]
        BY <1>1, <3>3 DEF After
      <4> QED BY <3>1, <4>1
    <3> QED BY <3>2, <3>3
  <2> QED BY <1>1, <2>2, <2>3 DEF Levels, Fresh
<1> QED BY <1>2, <1>3, <1>4 DEF Inv

\* The table as it is has the type of a snapshot.
LEMMA CurrentTyped == ASSUME Inv PROVE Current \in Snapshot
BY BoundsAssumption DEF Inv, TypeOK, Current, Snapshot

\* The undo state on top: its type and how its level relates to the table.
LEMMA TopFacts ==
  ASSUME Inv, ~failed, Enabled
  PROVE  /\ Len(stack) \in 1 .. Len(stack) /\ Len(snaps) = Len(stack)
         /\ Top \in UndoState /\ snaps[Len(snaps)] \in Snapshot
         /\ Fresh(snaps[Len(snaps)])
         /\ LevelOK(Top, snaps[Len(snaps)], Current)
<1>1. Len(stack) \in 1 .. Len(stack) /\ Len(snaps) = Len(stack)
  BY DEF Inv, TypeOK, Enabled
<1>2. Top \in UndoState /\ snaps[Len(snaps)] \in Snapshot
  BY <1>1 DEF Inv, TypeOK, Top
<1>3. After(Len(stack)) = Current
  BY DEF After
<1> QED BY <1>1, <1>2, <1>3 DEF Inv, Levels, Top

\* emplace() preserves the inductive invariant.
LEMMA EmplaceStep ==
  ASSUME Inv, ~failed, NEW v \in Values, Emplace(v)
  PROVE  Inv'
<1> DEFINE t == [indices |-> [indices EXCEPT ![next_id] = v],
                 next_id |-> next_id + 1]
<1>1. next_id \in Ids /\ indices \in Table
  BY BoundsAssumption DEF Emplace, Inv, TypeOK, Ids
<1>2. t \in Snapshot /\ t.next_id \in 0 .. MaxId
  BY <1>1, BoundsAssumption DEF Emplace, Inv, TypeOK, Snapshot, Table, Maybe
<1>3. Fresh(t)
  BY <1>1, BoundsAssumption DEF Inv, Levels, Fresh, Current, Table, Ids
<1>4. ASSUME Enabled
      PROVE  /\ OnCreate(Top, next_id) \in UndoState
             /\ OnCreate(Top, next_id).revision = Top.revision
             /\ LevelOK(OnCreate(Top, next_id), snaps[Len(snaps)], t)
  BY <1>1, <1>4, TopFacts, HooksTyped, CreateLevel
<1>5. /\ Record(OnCreate(Top, next_id)) /\ indices' = t.indices
      /\ next_id' = t.next_id /\ UNCHANGED <<revision, sessions, snaps>>
      /\ failed' \in BOOLEAN
  BY DEF Emplace, Inv, TypeOK
<1> HIDE DEF t
<1> QED BY <1>2, <1>3, <1>4, <1>5, ObjectStep

\* modify() preserves it, also when a colliding object is erased.
LEMMA ModifyStep ==
  ASSUME Inv, ~failed, NEW id \in Ids, NEW v \in Values, Modify(id, v)
  PROVE  Inv'
<1>1. indices \in Table /\ next_id \in 0 .. MaxId /\ indices[id] # NoVal
  BY DEF Modify, Inv, TypeOK
<1>2. ASSUME Enabled
      PROVE  /\ OnModify(Top, id) \in UndoState
             /\ OnModify(Top, id).revision = Top.revision
  BY <1>1, <1>2, TopFacts, HooksTyped
<1>3. CASE Collides(indices, id, v)
  <2> DEFINE t == [indices |-> [indices EXCEPT ![id] = NoVal],
                   next_id |-> next_id]
  <2>1. t \in Snapshot /\ t.next_id \in 0 .. MaxId
    BY <1>1, BoundsAssumption DEF Snapshot, Table, Maybe
  <2>2. /\ Record(OnModify(Top, id)) /\ indices' = t.indices
        /\ next_id' = t.next_id /\ UNCHANGED <<revision, sessions, snaps>>
        /\ failed' = TRUE
    BY <1>3 DEF Modify
  <2> HIDE DEF t
  <2> QED BY <1>2, <2>1, <2>2, ObjectStep
<1>4. CASE ~Collides(indices, id, v)
  <2> DEFINE t == [indices |-> [indices EXCEPT ![id] = v], next_id |-> next_id]
  <2>1. t \in Snapshot /\ t.next_id \in 0 .. MaxId
    BY <1>1, BoundsAssumption DEF Snapshot, Table, Maybe
  <2>2. /\ Record(OnModify(Top, id)) /\ indices' = t.indices
        /\ next_id' = t.next_id /\ UNCHANGED <<revision, sessions, snaps>>
        /\ failed' \in BOOLEAN
    BY <1>4 DEF Modify, Inv, TypeOK
  <2>3. Fresh(t)
    BY <1>1 DEF Inv, Levels, Fresh, Current, Table
  <2>4. ASSUME Enabled
        PROVE  LevelOK(OnModify(Top, id), snaps[Len(snaps)], t)
    BY <1>1, <2>4, TopFacts, ModifyLevel
  <2> HIDE DEF t
  <2> QED BY <1>2, <2>1, <2>2, <2>3, <2>4, ObjectStep
<1> QED BY <1>3, <1>4

\* remove() preserves it.
LEMMA RemoveStep ==
  ASSUME Inv, ~failed, NEW id \in Ids, Remove(id)
  PROVE  Inv'
<1> DEFINE t == [indices |-> [indices EXCEPT ![id] = NoVal], next_id |-> next_id]
<1>1. indices \in Table /\ next_id \in 0 .. MaxId /\ indices[id] # NoVal
  BY DEF Remove, Inv, TypeOK
<1>2. t \in Snapshot /\ t.next_id \in 0 .. MaxId
  BY <1>1, BoundsAssumption DEF Snapshot, Table, Maybe
<1>3. Fresh(t)
  BY <1>1 DEF Inv, Levels, Fresh, Current, Table
<1>4. ASSUME Enabled
      PROVE  /\ OnRemove(Top, id) \in UndoState
             /\ OnRemove(Top, id).revision = Top.revision
             /\ LevelOK(OnRemove(Top, id), snaps[Len(snaps)], t)
  BY <1>1, <1>4, TopFacts, HooksTyped, RemoveLevel
<1>5. /\ Record(OnRemove(Top, id)) /\ indices' = t.indices
      /\ next_id' = t.next_id /\ UNCHANGED <<revision, sessions, snaps>>
      /\ failed' \in BOOLEAN
  BY DEF Remove, Inv, TypeOK
<1> HIDE DEF t
<1> QED BY <1>2, <1>3, <1>4, <1>5, ObjectStep

-----------------------------------------------------------------------------
\* A new undo state starts with an identity level.
LEMMA StartStep ==
  ASSUME Inv, ~failed, StartUndoSession
  PROVE  Inv'
<1> DEFINE n == Len(stack)
<1>1. NewUndoState \in UndoState /\ Current \in Snapshot
  BY BoundsAssumption
     DEF NewUndoState, UndoState, Current, Snapshot, NoEntries, Table, Maybe,
         Inv, TypeOK
<1>2. /\ stack' \in Seq(UndoState) /\ Len(stack') = n + 1
      /\ \A i \in 1 .. n : stack'[i] = stack[i]
      /\ stack'[n + 1] = NewUndoState
  BY <1>1, AppendProperties DEF Inv, TypeOK, StartUndoSession
<1>3. /\ snaps' \in Seq(Snapshot) /\ Len(snaps') = n + 1
      /\ \A i \in 1 .. n : snaps'[i] = snaps[i]
      /\ snaps'[n + 1] = Current
  BY <1>1, AppendProperties DEF Inv, TypeOK, StartUndoSession
<1>4. n \in Nat
  BY DEF Inv, TypeOK
<1>5. TypeOK'
  BY <1>2, <1>3, AppendProperties DEF Inv, TypeOK, StartUndoSession
<1>6. Revisions'
  BY <1>2, <1>4 DEF Inv, TypeOK, Revisions, StartUndoSession, NewUndoState
<1>7. Levels'
  <2>1. Current' = Current
    BY DEF StartUndoSession, Current
  <2>2. Fresh(Current)' /\ Fresh(Current)
    BY <2>1 DEF Inv, Levels, Fresh
  <2>3. ASSUME NEW i \in 1 .. n + 1
        PROVE  Fresh(snaps'[i]) /\ LevelOK(stack'[i], snaps'[i], After(i)')
    <3>1. CASE i = n + 1
      <4>1. After(i)' = Current /\ stack'[i] = NewUndoState /\ snaps'[i] = Current
        BY <1>2, <1>3, <2>1, <3>1 DEF After
      <4>2. LevelOK(NewUndoState, Current, Current)
        BY BoundsAssumption
           DEF LevelOK, NewUndoState, Current, NoEntries, Inv, TypeOK
      <4> QED BY <2>2, <4>1, <4>2
    <3>2. CASE i \in 1 .. n
      <4>1. After(i)' = snaps'[i + 1] /\ stack'[i] = stack[i] /\ snaps'[i] = snaps[i]
        BY <1>2, <1>3, <1>4, <3>2 DEF After
      <4>2. snaps'[i + 1] = After(i)
        BY <1>3, <1>4, <3>2 DEF After
      <4> QED BY <3>2, <4>1, <4>2 DEF Inv, Levels
    <3> QED BY <1>4, <3>1, <3>2
  <2> QED BY <1>2, <2>2, <2>3 DEF Levels, Fresh
<1> QED BY <1>5, <1>6, <1>7 DEF Inv

\* Dropping the last entry of a sequence.
LEMMA ButLastFacts ==
  ASSUME NEW S, NEW s \in Seq(S), Len(s) > 0
  PROVE  /\ ButLast(s) \in Seq(S) /\ Len(ButLast(s)) = Len(s) - 1
         /\ \A i \in 1 .. Len(s) - 1 : ButLast(s)[i] = s[i]
<1> DEFINE k == Len(s) - 1
<1>1. k \in Nat /\ k = Len(s) - 1
  OBVIOUS
<1>2. \A i \in 1 .. k : s[i] \in S
  BY <1>1, ElementOfSeq
<1> HIDE DEF k
<1>3. /\ SubSeq(s, 1, k) \in Seq(S)
      /\ Len(SubSeq(s, 1, k)) = IF 1 <= k THEN k - 1 + 1 ELSE 0
      /\ \A i \in 1 .. k - 1 + 1 : SubSeq(s, 1, k)[i] = s[1 + i - 1]
  BY <1>1, <1>2, SubSeqProperties
<1>4. k - 1 + 1 = k /\ \A i \in 1 .. k : 1 + i - 1 = i
  BY <1>1
<1>5. Len(SubSeq(s, 1, k)) = k /\ \A i \in 1 .. k : SubSeq(s, 1, k)[i] = s[i]
  BY <1>1, <1>3, <1>4
<1> QED BY <1>1, <1>3, <1>5 DEF ButLast

\* undo(): with the top state gone the table is what it was below it.
LEMMA UndoStep ==
  ASSUME Inv, ~failed, UndoTop, sessions' \in Seq(Nat)
  PROVE  Inv'
<1>1. CASE ~Enabled
  <2>1. UNCHANGED <<indices, next_id, revision, stack, failed, snaps>>
    BY <1>1 DEF UndoTop
  <2> QED BY <2>1 DEF Inv, TypeOK, Revisions, Levels, Fresh, Current, After
<1>2. CASE Enabled /\ Clashes(Top) = {}
  <2> DEFINE n == Len(stack)
             pre == snaps[n]
  <2>1. /\ indices' = Restore(Top, indices).indices
        /\ next_id' = Restore(Top, indices).next_id
        /\ revision' = revision - 1
        /\ stack' = ButLast(stack) /\ snaps' = ButLast(snaps)
        /\ UNCHANGED failed
    BY <1>2 DEF UndoTop
  <2>2. /\ n \in 1 .. n /\ Len(snaps) = n /\ pre \in Snapshot
        /\ Restore(Top, indices) = pre /\ Fresh(pre)
    <3>1. Current \in Snapshot /\ Current.indices = indices
      BY BoundsAssumption DEF Inv, TypeOK, Current, Snapshot
    <3>2. /\ n \in 1 .. n /\ Len(snaps) = n /\ pre \in Snapshot /\ Fresh(pre)
          /\ Top \in UndoState /\ LevelOK(Top, pre, Current)
      BY <1>2, TopFacts
    <3>3. Restore(Top, Current.indices) = pre
      BY <3>1, <3>2, RestoreLevel
    <3> QED BY <3>1, <3>2, <3>3
  <2>3. Current' = pre /\ indices' = pre.indices /\ next_id' = pre.next_id
    BY <2>1, <2>2 DEF Current, Snapshot
  <2>4. /\ stack' \in Seq(UndoState) /\ Len(stack') = n - 1
        /\ \A i \in 1 .. n - 1 : stack'[i] = stack[i]
    BY <2>1, <2>2, ButLastFacts DEF Inv, TypeOK
  <2>5. /\ snaps' \in Seq(Snapshot) /\ Len(snaps') = n - 1
        /\ \A i \in 1 .. n - 1 : snaps'[i] = snaps[i]
    BY <2>1, <2>2, ButLastFacts DEF Inv, TypeOK
  <2>6. stack[n].revision = revision /\ revision >= 1
    <3>1. stack[n].revision = revision - (n - n) /\ stack[n].revision >= 1
      BY <2>2 DEF Inv, Revisions
    <3>2. n \in Nat /\ revision \in Nat
      BY DEF Inv, TypeOK
    <3> QED BY <3>1, <3>2
  <2>7. pre.next_id <= MaxId
    <3>1. pre.next_id <= next_id
      BY <1>2, <2>2, TopFacts DEF LevelOK, Current
    <3> QED BY <2>2, <3>1, BoundsAssumption DEF Inv, TypeOK, Snapshot
  <2>8. TypeOK'
    BY <2>1, <2>2, <2>3, <2>4, <2>5, <2>6, <2>7 DEF Inv, TypeOK, Snapshot
  <2>9. Revisions'
    BY <2>1, <2>2, <2>4 DEF Inv, TypeOK, Revisions
  <2>10. Levels'
    <3>1. Fresh(Current)'
      BY <2>2, <2>3 DEF Fresh
    <3>2. ASSUME NEW i \in 1 .. n - 1
          PROVE  Fresh(snaps'[i]) /\ LevelOK(stack'[i], snaps'[i], After(i)')
      <4>1. After(i)' = snaps[i + 1]
        BY <2>2, <2>3, <2>4, <2>5 DEF After
      <4>2. After(i) = snaps[i + 1] /\ i \in 1 .. n
        BY <2>2 DEF After
      <4> QED BY <2>4, <2>5, <4>1, <4>2 DEF Inv, Levels
    <3> QED BY <2>4, <3>1, <3>2 DEF Levels, Fresh
  <2> QED BY <2>8, <2>9, <2>10 DEF Inv
<1>3. CASE Enabled /\ Clashes(Top) # {}
  <2>1. PICK k \in Clashes(Top) : indices' = [PutBack(Top, k) EXCEPT ![k] = NoVal]
    BY <1>3 DEF UndoTop
  <2>2. failed' = TRUE /\ UNCHANGED <<next_id, revision, stack, snaps>>
    BY <1>3 DEF UndoTop
  <2>3. indices' \in Table
    <3>1. Top.old_values \in Table /\ indices \in Table
      BY <1>3, TopFacts DEF UndoState, Inv, TypeOK
    <3>2. PutBack(Top, k) \in Table
      BY <3>1 DEF PutBack, Table
    <3> QED BY <2>1, <3>2 DEF Table, Maybe
  <2> QED BY <2>2, <2>3 DEF Inv, TypeOK, Revisions
<1> QED BY <1>1, <1>2, <1>3

\* squash(): the two topmost levels become one.
LEMMA SquashStep ==
  ASSUME Inv, ~failed, SquashTop, sessions' \in Seq(Nat),
         UNCHANGED <<indices, next_id, failed>>
  PROVE  Inv'
<1> DEFINE n == Len(stack)
<1>1. n \in Nat /\ Len(snaps) = n /\ revision \in Nat
  BY DEF Inv, TypeOK
<1>2. Current' = Current
  BY DEF Current
<1>3. CASE n = 0
  <2>1. UNCHANGED <<revision, stack, snaps>>
    BY <1>3 DEF SquashTop
  <2> QED BY <2>1 DEF Inv, TypeOK, Revisions, Levels, Fresh, Current, After
<1>4. CASE n = 1
  <2>1. stack' = <<>> /\ snaps' = <<>> /\ UNCHANGED revision
    BY <1>4 DEF SquashTop
  <2>2. TypeOK'
    BY <2>1 DEF Inv, TypeOK
  <2> QED BY <2>1, <2>2 DEF Inv, Revisions, Levels, Fresh, Current
<1>5. CASE n > 1
  <2> DEFINE m == Merge(stack[n - 1], stack[n])
  <2>1. /\ stack' = [ButLast(stack) EXCEPT ![n - 1] = m]
        /\ snaps' = ButLast(snaps) /\ revision' = revision - 1
    BY <1>1, <1>5 DEF SquashTop
  <2>2. /\ stack[n - 1] \in UndoState /\ stack[n] \in UndoState
        /\ snaps[n - 1] \in Snapshot /\ snaps[n] \in Snapshot
        /\ Current \in Snapshot
    <3>1. n - 1 \in 1 .. n /\ n \in 1 .. n
      BY <1>1, <1>5
    <3>2. /\ \A i \in 1 .. n : stack[i] \in UndoState
          /\ \A i \in 1 .. n : snaps[i] \in Snapshot
      BY <1>1, ElementOfSeq DEF Inv, TypeOK
    <3> QED BY <3>1, <3>2, CurrentTyped
  <2>3. m \in UndoState /\ m.revision = stack[n - 1].revision
    BY <2>2, MergeTyped
  <2>4. /\ stack' \in Seq(UndoState) /\ Len(stack') = n - 1
        /\ \A i \in 1 .. n - 1 : stack'[i] = IF i = n - 1 THEN m ELSE stack[i]
    <3> HIDE DEF m
    <3>1. /\ ButLast(stack) \in Seq(UndoState) /\ Len(ButLast(stack)) = n - 1
          /\ \A i \in 1 .. n - 1 : ButLast(stack)[i] = stack[i]
      BY <1>1, <1>5, ButLastFacts DEF Inv, TypeOK
    <3> DEFINE f == ButLast(stack)
    <3>2. f \in Seq(UndoState) /\ n - 1 \in 1 .. Len(f)
      BY <1>1, <1>5, <3>1
    <3> HIDE DEF f
    <3>3. /\ [f EXCEPT ![n - 1] = m] \in Seq(UndoState)
          /\ Len([f EXCEPT ![n - 1] = m]) = Len(f)
          /\ \A i \in 1 .. Len(f) :
               [f EXCEPT ![n - 1] = m][i] = IF i = n - 1 THEN m ELSE f[i]
      BY <2>3, <3>2, ExceptSeq
    <3> QED BY <2>1, <3>1, <3>3 DEF f
  <2>5. /\ snaps' \in Seq(Snapshot) /\ Len(snaps') = n - 1
        /\ \A i \in 1 .. n - 1 : snaps'[i] = snaps[i]
    <3>1. snaps \in Seq(Snapshot) /\ Len(snaps) > 0
      BY <1>1, <1>5 DEF Inv, TypeOK
    <3>2. /\ ButLast(snaps) \in Seq(Snapshot)
          /\ Len(ButLast(snaps)) = Len(snaps) - 1
          /\ \A i \in 1 .. Len(snaps) - 1 : ButLast(snaps)[i] = snaps[i]
      BY <3>1, ButLastFacts
    <3> QED BY <1>1, <2>1, <3>2
  <2>6. /\ \A i \in 1 .. n : stack[i].revision = revision - (n - i)
        /\ \A i \in 1 .. n : stack[i].revision >= 1
    BY DEF Inv, Revisions
  <2>7. Revisions'
    <3> SUFFICES ASSUME NEW i \in 1 .. n - 1
                 PROVE  /\ stack'[i].revision = revision' - (n - 1 - i)
                        /\ stack'[i].revision >= 1
      BY <2>4 DEF Revisions
    <3>1. stack'[i].revision = stack[i].revision /\ i \in 1 .. n
      BY <1>1, <2>3, <2>4
    <3> HIDE DEF m
    <3> QED BY <1>1, <2>1, <2>6, <3>1
  <2>8. TypeOK'
    <3>1. revision - (n - 1) >= 1
      BY <1>1, <1>5, <2>6
    <3>2. revision' \in Nat
      BY <1>1, <1>5, <2>1, <3>1
    <3> QED BY <2>4, <2>5, <3>2 DEF Inv, TypeOK
  <2>9. Levels'
    <3> HIDE DEF m
    <3>1. Fresh(Current)'
      BY <1>2 DEF Inv, Levels, Fresh
    <3>2. ASSUME NEW i \in 1 .. n - 1
          PROVE  Fresh(snaps'[i]) /\ LevelOK(stack'[i], snaps'[i], After(i)')
      <4>1. /\ i \in 1 .. n /\ After(i) = snaps[i + 1]
            /\ Fresh(snaps[i]) /\ LevelOK(stack[i], snaps[i], snaps[i + 1])
        BY <1>1 DEF Inv, Levels, After
      <4>2. CASE i = n - 1
        <5>1. After(n) = Current /\ n \in 1 .. n
          BY <1>1, <1>5 DEF After
        <5>2. LevelOK(stack[n], snaps[n], Current)
          BY <5>1 DEF Inv, Levels
        <5>3. LevelOK(stack[n - 1], snaps[n - 1], snaps[n]) /\ Fresh(snaps[n - 1])
          BY <1>1, <4>1, <4>2
        <5>4. LevelOK(m, snaps[n - 1], Current)
          BY <2>2, <5>2, <5>3, MergeLevel DEF m
        <5>5. After(i)' = Current
          BY <1>2, <2>4, <4>2 DEF After
        <5> QED BY <2>4, <2>5, <4>1, <4>2, <5>4, <5>5
      <4>3. CASE i # n - 1
        <5>1. After(i)' = snaps[i + 1]
          BY <1>1, <2>4, <2>5, <4>3 DEF After
        <5> QED BY <2>4, <2>5, <4>1, <4>3, <5>1
      <4> QED BY <4>2, <4>3
    <3> QED BY <2>4, <3>1, <3>2 DEF Levels, Fresh
  <2> QED BY <2>7, <2>8, <2>9 DEF Inv
<1> QED BY <1>1, <1>3, <1>4, <1>5

\* The entries of a sequence after the first n.
LEMMA SuffixFacts ==
  ASSUME NEW S, NEW s \in Seq(S), NEW n \in 0 .. Len(s)
  PROVE  /\ SubSeq(s, n + 1, Len(s)) \in Seq(S)
         /\ Len(SubSeq(s, n + 1, Len(s))) = Len(s) - n
         /\ \A i \in 1 .. Len(s) - n : SubSeq(s, n + 1, Len(s))[i] = s[n + i]
<1> DEFINE a == n + 1
           b == Len(s)
<1>1. a \in Int /\ b \in Int /\ a = n + 1 /\ b = Len(s) /\ n \in Nat /\ n <= b
  OBVIOUS
<1>2. \A i \in a .. b : s[i] \in S
  BY <1>1, ElementOfSeq
<1> HIDE DEF a, b
<1>3. /\ SubSeq(s, a, b) \in Seq(S)
      /\ Len(SubSeq(s, a, b)) = IF a <= b THEN b - a + 1 ELSE 0
      /\ \A i \in 1 .. b - a + 1 : SubSeq(s, a, b)[i] = s[a + i - 1]
  BY <1>1, <1>2, SubSeqProperties
<1>4. b - a + 1 = b - n /\ \A i \in 1 .. b - n : a + i - 1 = n + i
  BY <1>1
<1>5. Len(SubSeq(s, a, b)) = b - n /\ \A i \in 1 .. b - n : SubSeq(s, a, b)[i] = s[n + i]
  BY <1>1, <1>3, <1>4
<1> QED BY <1>1, <1>3, <1>5

\* commit(): the levels that are left are the levels they were.
LEMMA CommitStep ==
  ASSUME Inv, ~failed, NEW r, Commit(r)
  PROVE  Inv'
<1>1. PICK n \in 0 .. Len(stack) :
        /\ stack' = SubSeq(stack, n + 1, Len(stack))
        /\ snaps' = SubSeq(snaps, n + 1, Len(snaps))
  BY DEF Commit
<1> DEFINE l == Len(stack)
<1>2. UNCHANGED <<indices, next_id, revision, sessions, failed>>
  BY DEF Commit
<1>3. l \in Nat /\ n \in Nat /\ n <= l /\ Len(snaps) = l
  BY DEF Inv, TypeOK
<1>4. /\ stack' \in Seq(UndoState) /\ Len(stack') = l - n
      /\ \A i \in 1 .. l - n : stack'[i] = stack[n + i]
  BY <1>1, SuffixFacts DEF Inv, TypeOK
<1>5. /\ snaps' \in Seq(Snapshot) /\ Len(snaps') = l - n
      /\ \A i \in 1 .. l - n : snaps'[i] = snaps[n + i]
  BY <1>1, <1>3, SuffixFacts DEF Inv, TypeOK
<1>6. TypeOK'
  BY <1>2, <1>4, <1>5 DEF Inv, TypeOK
<1>7. Revisions'
  <2> SUFFICES ASSUME NEW i \in 1 .. l - n
               PROVE  /\ stack'[i].revision = revision - (l - n - i)
                      /\ stack'[i].revision >= 1
    BY <1>2, <1>4 DEF Revisions
  <2>1. n + i \in 1 .. l
    BY <1>3
  <2>2. /\ stack[n + i].revision = revision - (l - (n + i))
        /\ stack[n + i].revision >= 1
    BY <2>1 DEF Inv, Revisions
  <2>3. revision \in Nat
    BY DEF Inv, TypeOK
  <2> QED BY <1>3, <1>4, <2>2, <2>3
<1>8. Levels'
  <2>1. Current' = Current
    BY <1>2 DEF Current
  <2>2. Fresh(Current)'
    BY <2>1 DEF Inv, Levels, Fresh
  <2>3. ASSUME NEW i \in 1 .. l - n
        PROVE  Fresh(snaps'[i]) /\ LevelOK(stack'[i], snaps'[i], After(i)')
    <3>1. n + i \in 1 .. l /\ (i # l - n => i + 1 \in 1 .. l - n)
      BY <1>3
    <3>2. After(i)' = After(n + i)
      <4>1. CASE i = l - n
        BY <1>3, <1>4, <2>1, <4>1 DEF After
      <4>2. CASE i # l - n
        <5>1. snaps'[i + 1] = snaps[n + (i + 1)]
          BY <1>5, <3>1, <4>2
        <5>2. n + (i + 1) = n + i + 1 /\ n + i # l
          BY <1>3, <4>2
        <5> QED BY <1>4, <4>2, <5>1, <5>2 DEF After
      <4> QED BY <4>1, <4>2
    <3> QED BY <1>4, <1>5, <3>1, <3>2 DEF Inv, Levels
  <2> QED BY <1>4, <2>2, <2>3 DEF Levels, Fresh
<1> QED BY <1>6, <1>7, <1>8 DEF Inv

-----------------------------------------------------------------------------
\* An empty table without undo states satisfies it.
LEMMA InitInv == Init => Inv
<1> SUFFICES ASSUME Init PROVE Inv
  OBVIOUS
<1>1. TypeOK
  <2>1. NoEntries \in Table
    BY DEF NoEntries, Table, Maybe
  <2>2. 0 \in 0 .. MaxId
    BY BoundsAssumption
  <2>3. /\ <<>> \in Seq(UndoState) /\ <<>> \in Seq(Nat) /\ <<>> \in Seq(Snapshot)
    BY EmptySeq
  <2> QED BY <2>1, <2>2, <2>3 DEF Init, TypeOK
<1>2. Levels
  BY DEF Init, Levels, Fresh, Current, NoEntries
<1> QED BY <1>1, <1>2 DEF Init, Inv, Revisions

\* Session handles come and go one at a time.
LEMMA SessionsTyped ==
  ASSUME Inv, HasSession
  PROVE  ButLast(sessions) \in Seq(Nat)
BY ButLastFacts DEF Inv, TypeOK, HasSession

\* Every step of the table preserves the inductive invariant.
LEMMA NextInv == Inv /\ [Next]_vars => Inv'
<1> SUFFICES ASSUME Inv, [Next]_vars PROVE Inv'
  OBVIOUS
<1>1. CASE UNCHANGED vars
  BY <1>1 DEF vars, Inv, TypeOK, Revisions, Levels, Fresh, Current, After
<1>2. CASE Next
  <2>0. ~failed
    BY <1>2 DEF Next
  <2>1. ASSUME NEW v \in Values, Emplace(v) PROVE Inv'
    BY <2>0, <2>1, EmplaceStep
  <2>2. ASSUME NEW id \in Ids, NEW v \in Values, Modify(id, v) PROVE Inv'
    BY <2>0, <2>2, ModifyStep
  <2>3. ASSUME NEW id \in Ids, Remove(id) PROVE Inv'
    BY <2>0, <2>3, RemoveStep
  <2>4. CASE StartUndoSession
    BY <2>0, <2>4, StartStep
  <2>5. CASE SessionPush
    <3>1. HasSession
      BY <2>5 DEF SessionPush, HasSession
    <3>2. sessions' \in Seq(Nat)
      BY <2>5, <3>1, SessionsTyped DEF SessionPush
    <3>3. UNCHANGED <<indices, next_id, revision, stack, failed, snaps>>
      BY <2>5 DEF SessionPush
    <3> QED BY <3>2, <3>3
            DEF Inv, TypeOK, Revisions, Levels, Fresh, Current, After
  <2>6. CASE SessionSquash
    BY <2>0, <2>6, SessionsTyped, SquashStep DEF SessionSquash
  <2>7. CASE SessionUndo
    BY <2>0, <2>7, SessionsTyped, UndoStep DEF SessionUndo
  <2>8. CASE Undo
    <3>1. sessions' \in Seq(Nat)
      BY <2>8 DEF Undo, Inv, TypeOK
    <3> QED BY <2>0, <2>8, <3>1, UndoStep DEF Undo
  <2>9. ASSUME NEW r \in 0 .. MaxRevision, Commit(r) PROVE Inv'
    BY <2>0, <2>9, CommitStep
  <2>10. ASSUME NEW r \in 0 .. MaxRevision, SetRevision(r) PROVE Inv'
    <3>1. /\ Len(stack) = 0 /\ revision' = r /\ r \in Nat
          /\ UNCHANGED <<indices, next_id, stack, sessions, failed, snaps>>
      BY <2>10, BoundsAssumption DEF SetRevision, Enabled, Inv, TypeOK
    <3> QED BY <3>1 DEF Inv, TypeOK, Revisions, Levels, Fresh, Current, After
  <2> QED BY <1>2, <2>1, <2>2, <2>3, <2>4, <2>5, <2>6, <2>7, <2>8, <2>9, <2>10
          DEF Next
<1> QED BY <1>1, <1>2

\* The inductive invariant holds of every behaviour of the table.
THEOREM Invariance == Spec => []Inv
BY InitInv, NextInv, PTL DEF Spec

\* Type correctness: also after a logic_error the variables keep their types.
THEOREM TypeCorrect == Spec => []TypeOK
<1>1. Inv => TypeOK
  BY DEF Inv
<1> QED BY <1>1, Invariance, PTL

\* At every level the record of changes leads back to the table as it was when
\* the session began, for any number of objects, sessions, squashes and commits.
THEOREM RollsBackAlways == Spec => []RollsBack
<1>1. Inv => RollsBack
  <2> SUFFICES ASSUME Inv, ~failed, NEW i \in 1 .. Len(stack)
               PROVE  Restore(stack[i], After(i).indices) = snaps[i]
    BY DEF RollsBack
  <2>1. stack[i] \in UndoState /\ snaps[i] \in Snapshot /\ After(i) \in Snapshot
    <3>1. stack[i] \in UndoState /\ snaps[i] \in Snapshot
      BY ElementOfSeq DEF Inv, TypeOK
    <3>2. CASE i = Len(stack)
      BY <3>1, <3>2, CurrentTyped DEF After
    <3>3. CASE i # Len(stack)
      <4>1. i + 1 \in 1 .. Len(snaps)
        BY <3>3 DEF Inv, TypeOK
      <4> QED BY <3>1, <3>3, <4>1, ElementOfSeq DEF After, Inv, TypeOK
    <3> QED BY <3>2, <3>3
  <2>2. LevelOK(stack[i], snaps[i], After(i))
    BY DEF Inv, Levels
  <2> QED BY <2>1, <2>2, RestoreLevel
<1> QED BY <1>1, Invariance, PTL

\* The combinations that squash() calls N/A and does not handle never occur.
THEOREM SquashCasesAlways == Spec => []SquashCases
<1>1. Inv => SquashCases
  <2> SUFFICES ASSUME Inv, ~failed PROVE SquashCases
    BY DEF SquashCases
  <2>1. \A i \in 1 .. Len(stack) :
          LevelOK(stack[i], snaps[i], After(i)) /\ snaps[i] \in Snapshot
    BY DEF Inv, Levels, TypeOK
  <2>2. ASSUME NEW i \in 1 .. Len(stack)
        PROVE  LET u == stack[i]
               IN /\ u.new_ids \cap Holds(u.old_values) = {}
                  /\ u.new_ids \cap Holds(u.removed_values) = {}
                  /\ Holds(u.old_values) \cap Holds(u.removed_values) = {}
    BY <2>1 DEF LevelOK, Holds, Ids, Snapshot
  <2>3. ASSUME NEW i \in 1 .. Len(stack) - 1
        PROVE  LET a == stack[i]
                   b == stack[i + 1]
               IN /\ b.new_ids \cap (a.new_ids \cup Holds(a.old_values)
                                      \cup Holds(a.removed_values)) = {}
                  /\ (Holds(b.old_values) \cup Holds(b.removed_values))
                        \cap Holds(a.removed_values) = {}
    <3> DEFINE a == stack[i]
               b == stack[i + 1]
               q == snaps[i + 1]
    <3>1. i \in 1 .. Len(stack) /\ i + 1 \in 1 .. Len(stack) /\ After(i) = q
      <4>1. Len(stack) \in Nat
        BY DEF Inv, TypeOK
      <4> QED BY <4>1 DEF After
    <3>2. LevelOK(a, snaps[i], q) /\ LevelOK(b, q, After(i + 1))
      BY <2>1, <3>1
    <3>3. Ids \subseteq Int /\ q.next_id \in Nat /\ snaps[i].next_id \in Nat
      <4>1. Ids \subseteq Int
        BY DEF Ids
      <4>2. q \in Snapshot /\ snaps[i] \in Snapshot
        BY <2>1, <3>1
      <4> QED BY <4>1, <4>2 DEF Snapshot
    <3>4. ASSUME NEW id \in Ids
          PROVE  /\ id \in b.new_ids => /\ id \notin a.new_ids
                                        /\ a.old_values[id] = NoVal
                                        /\ a.removed_values[id] = NoVal
                 /\ b.old_values[id] # NoVal \/ b.removed_values[id] # NoVal
                      => a.removed_values[id] = NoVal
      BY <3>2, <3>3 DEF LevelOK
    <3>5. b.new_ids \subseteq Ids
      <4>1. b \in UndoState
        BY <3>1, ElementOfSeq DEF Inv, TypeOK
      <4> QED BY <4>1 DEF UndoState
    <3> HIDE DEF a, b, q
    <3>6. /\ b.new_ids \cap (a.new_ids \cup Holds(a.old_values)
                              \cup Holds(a.removed_values)) = {}
          /\ (Holds(b.old_values) \cup Holds(b.removed_values))
                \cap Holds(a.removed_values) = {}
      BY <3>4, <3>5 DEF Holds
    <3> QED BY <3>6 DEF a, b
  <2> QED BY <2>2, <2>3 DEF SquashCases
<1> QED BY <1>1, Invariance, PTL

\* The iterators that undo() uses without a check are valid.
THEOREM UndoFindsObjectsAlways == Spec => []UndoFindsObjects
<1>1. Inv => UndoFindsObjects
  BY DEF Inv, Levels, LevelOK, UndoFindsObjects
<1> QED BY <1>1, Invariance, PTL

\* What undo() and squash() rely on without a check holds of every reachable
\* stack of undo states.
THEOREM RecordsFitAlways == Spec => []RecordsFit
<1>1. SquashCases /\ UndoFindsObjects => RecordsFit
  BY DEF RecordsFit
<1> QED BY <1>1, SquashCasesAlways, UndoFindsObjectsAlways, PTL

\* Revisions on the stack are consecutive up to the current revision.
THEOREM RevisionsAlways == Spec => []RevisionsConsecutive
<1>1. Inv => RevisionsConsecutive
  BY DEF Inv, Revisions, RevisionsConsecutive
<1> QED BY <1>1, Invariance, PTL

-----------------------------------------------------------------------------
\* What undo() leaves is the snapshot it should return to.
LEMMA UndoRefines ==
  ASSUME Inv, ~failed, UndoTop, Clashes(Top) = {}
  PROVE  [Store!Next]_<<Current, snaps>>
<1>1. CASE ~Enabled
  BY <1>1 DEF UndoTop, Current
<1>2. CASE Enabled
  <2>1. /\ indices' = Restore(Top, indices).indices
        /\ next_id' = Restore(Top, indices).next_id /\ snaps' = ButLast(snaps)
    BY <1>2 DEF UndoTop
  <2>2. /\ Len(snaps) > 0 /\ snaps[Len(snaps)] \in Snapshot
        /\ LevelOK(Top, snaps[Len(snaps)], Current) /\ Top \in UndoState
    BY <1>2, TopFacts DEF Enabled, Inv, TypeOK
  <2>3. Restore(Top, indices) = snaps[Len(snaps)]
    BY <2>2, CurrentTyped, RestoreLevel DEF Current
  <2>4. Current' = snaps[Len(snaps)]
    BY <2>1, <2>2, <2>3 DEF Current, Snapshot
  <2>5. snaps # <<>>
    BY <2>2
  <2> QED BY <2>1, <2>4, <2>5
          DEF Store!Next, Store!Rollback, Store!Last, Store!AllButLast, ButLast
<1> QED BY <1>1, <1>2

\* Every step of the table is a step of the store of whole copies.
LEMMA StepRefines ==
  ASSUME Inv, Inv', [Next]_vars
  PROVE  [Store!Next]_<<Current, snaps>>
<1>1. CASE UNCHANGED vars
  BY <1>1 DEF vars, Current
<1>2. CASE Next
  <2>0. ~failed
    BY <1>2 DEF Next
  <2>w. ASSUME UNCHANGED snaps PROVE [Store!Next]_<<Current, snaps>>
    <3>1. Current' \in Snapshot
      BY CurrentTyped DEF Inv, TypeOK, Current, Snapshot, Table
    <3> QED BY <2>w, <3>1 DEF Store!Next, Store!Write
  <2>u. ASSUME UndoTop PROVE [Store!Next]_<<Current, snaps>>
    <3>1. CASE Clashes(Top) = {}
      BY <2>0, <2>u, <3>1, UndoRefines
    <3>2. CASE Clashes(Top) # {}
      BY <2>u, <2>w, <3>2 DEF UndoTop
    <3> QED BY <3>1, <3>2
  <2>1. ASSUME NEW v \in Values, Emplace(v) PROVE UNCHANGED snaps
    BY <2>1 DEF Emplace
  <2>2. ASSUME NEW id \in Ids, NEW v \in Values, Modify(id, v) PROVE UNCHANGED snaps
    BY <2>2 DEF Modify
  <2>3. ASSUME NEW id \in Ids, Remove(id) PROVE UNCHANGED snaps
    BY <2>3 DEF Remove
  <2>4. CASE StartUndoSession
    BY <2>4 DEF StartUndoSession, Store!Next, Store!Save, Current
  <2>5. CASE SessionPush
    BY <2>5 DEF SessionPush, Current
  <2>6. CASE SessionSquash
    <3>1. UNCHANGED Current
      BY <2>6 DEF SessionSquash, Current
    <3>2. UNCHANGED snaps \/ (snaps # <<>> /\ snaps' = ButLast(snaps))
      <4>1. Len(stack) \in Nat /\ Len(snaps) = Len(stack) /\ snaps \in Seq(Snapshot)
        BY DEF Inv, TypeOK
      <4>2. CASE Len(stack) = 0
        BY <2>6, <4>2 DEF SessionSquash, SquashTop
      <4>3. CASE Len(stack) = 1
        <5>1. snaps' = <<>>
          BY <2>6, <4>3 DEF SessionSquash, SquashTop
        <5>2. snaps # <<>> /\ Len(snaps) - 1 = 0
          BY <4>1, <4>3, EmptySeq
        <5>3. ButLast(snaps) = <<>>
          <6>1. SubSeq(snaps, 1, 0) = <<>>
            BY SubSeqEmpty
          <6> QED BY <5>2, <6>1 DEF ButLast
        <5> QED BY <5>1, <5>2, <5>3
      <4>4. CASE Len(stack) > 1
        <5>0. SquashTop
          BY <2>6 DEF SessionSquash
        <5>1. snaps' = ButLast(snaps)
          <6>1. ~(Len(stack) = 0) /\ ~(Len(stack) = 1)
            BY <4>1, <4>4
          <6> QED BY <5>0, <6>1, Zenon DEF SquashTop
        <5>2. snaps # <<>>
          BY <4>1, <4>4, EmptySeq
        <5> QED BY <5>1, <5>2
      <4> QED BY <4>1, <4>2, <4>3, <4>4
    <3> QED BY <3>1, <3>2 DEF Store!Next, Store!Forget, Store!AllButLast, ButLast
  <2>7. CASE SessionUndo
    BY <2>7, <2>u DEF SessionUndo
  <2>8. CASE Undo
    BY <2>8, <2>u DEF Undo
  <2>9. ASSUME NEW r \in 0 .. MaxRevision, Commit(r)
        PROVE  [Store!Next]_<<Current, snaps>>
    <3>1. Len(snaps) = Len(stack)
      BY DEF Inv, TypeOK
    <3>2. UNCHANGED Current
      BY <2>9 DEF Commit, Current
    <3>3. \E n \in 0 .. Len(snaps) : snaps' = SubSeq(snaps, n + 1, Len(snaps))
      BY <2>9, <3>1 DEF Commit
    <3> QED BY <3>2, <3>3 DEF Store!Next, Store!Commit
  <2>10. ASSUME NEW r \in 0 .. MaxRevision, SetRevision(r) PROVE UNCHANGED snaps
    BY <2>10 DEF SetRevision
  <2> QED BY <1>2, <2>w, <2>1, <2>2, <2>3, <2>4, <2>5, <2>6, <2>7, <2>8, <2>9,
             <2>10 DEF Next
<1> QED BY <1>1, <1>2

\* The table implements a store that keeps whole copies of itself:
\* start_undo_session(), undo(), squash() and commit() are exactly save, roll
\* back, forget the newest and forget the oldest.  An undo() that throws on a
\* clash of keys is a write that leaves the copies alone.
THEOREM Refinement == Spec => ImplementsStore
<1>1. Init => Store!Init
  <2> SUFFICES ASSUME Init PROVE Store!Init
    OBVIOUS
  <2>1. Current \in Snapshot
    BY InitInv, CurrentTyped
  <2> QED BY <2>1 DEF Init, Store!Init
<1>2. Inv /\ Inv' /\ [Next]_vars => [Store!Next]_<<Current, snaps>>
  BY StepRefines
<1> QED BY <1>1, <1>2, Invariance, PTL DEF Spec, ImplementsStore, Store!Spec

-----------------------------------------------------------------------------
(* Sessions and keys *)

\* Counted from the top, the undo states are those of the live sessions.
Aligned ==
  \A d \in Nat : d < Len(sessions) /\ d < Len(stack) =>
    stack[Len(stack) - d].revision = sessions[Len(sessions) - d]

\* A step that keeps the sessions and the revisions on the stack.
LEMMA AlignedSame ==
  ASSUME Inv, Aligned, sessions' = sessions, Len(stack') = Len(stack),
         \A i \in 1 .. Len(stack) : stack'[i].revision = stack[i].revision
  PROVE  Aligned'
<1> SUFFICES ASSUME NEW d \in Nat, d < Len(sessions), d < Len(stack)
             PROVE  stack'[Len(stack) - d].revision = sessions[Len(sessions) - d]
  BY DEF Aligned
<1>1. Len(stack) - d \in 1 .. Len(stack)
  BY DEF Inv, TypeOK
<1>2. stack[Len(stack) - d].revision = sessions[Len(sessions) - d]
  BY DEF Aligned
<1> QED BY <1>1, <1>2

\* A step that takes the innermost session and its undo state away.
LEMMA AlignedPop ==
  ASSUME Inv, Aligned, HasSession, sessions' = ButLast(sessions), stack' \in Seq(UndoState),
         \/ Len(stack') = 0
         \/ /\ Len(stack') = Len(stack) - 1
            /\ \A i \in 1 .. Len(stack) - 1 : stack'[i].revision = stack[i].revision
  PROVE  Aligned'
<1>1. /\ sessions \in Seq(Nat) /\ Len(sessions) \in Nat /\ Len(sessions) > 0 /\ Len(stack) \in Nat
  BY DEF Inv, TypeOK, HasSession
<1>2. /\ Len(sessions') = Len(sessions) - 1
      /\ \A i \in 1 .. Len(sessions) - 1 : sessions'[i] = sessions[i]
  BY <1>1, ButLastFacts
<1> SUFFICES ASSUME NEW d \in Nat, d < Len(sessions'), d < Len(stack')
             PROVE  stack'[Len(stack') - d].revision = sessions'[Len(sessions') - d]
  BY DEF Aligned
<1>3. /\ Len(stack') = Len(stack) - 1
      /\ \A i \in 1 .. Len(stack) - 1 : stack'[i].revision = stack[i].revision
  OBVIOUS
<1>4. /\ Len(stack') - d \in 1 .. Len(stack) - 1 /\ Len(stack') - d = Len(stack) - (d + 1)
      /\ Len(sessions') - d \in 1 .. Len(sessions) - 1
      /\ Len(sessions') - d = Len(sessions) - (d + 1)
      /\ d + 1 \in Nat /\ d + 1 < Len(sessions) /\ d + 1 < Len(stack)
  BY <1>1, <1>2, <1>3
<1>5. stack[Len(stack) - (d + 1)].revision = sessions[Len(sessions) - (d + 1)]
  BY <1>4 DEF Aligned
<1> QED BY <1>2, <1>3, <1>4, <1>5

\* What undo() and squash() do to the revisions on the stack.
LEMMA TopGone ==
  ASSUME Inv, Inv', ~failed, ~failed', UndoTop \/ SquashTop
  PROVE  \/ Len(stack') = 0
         \/ /\ Len(stack') = Len(stack) - 1
            /\ \A i \in 1 .. Len(stack) - 1 : stack'[i].revision = stack[i].revision
<1>1. PICK n \in Nat : n = Len(stack) /\ stack \in Seq(UndoState)
  BY DEF Inv, TypeOK
<1>2. CASE n = 0
  <2>1. stack' = stack
    BY <1>1, <1>2 DEF UndoTop, SquashTop, Enabled
  <2> QED BY <1>1, <1>2, <2>1
<1>3. CASE n > 0 /\ UndoTop
  <2>1. stack' = ButLast(stack)
    BY <1>1, <1>3 DEF UndoTop, Enabled
  <2> QED BY <1>1, <1>3, <2>1, ButLastFacts
<1>4. CASE n = 1 /\ SquashTop
  BY <1>1, <1>4 DEF SquashTop
<1>5. CASE n > 1 /\ SquashTop
  <2> DEFINE m == Merge(stack[n - 1], stack[n])
  <2>1. stack' = [ButLast(stack) EXCEPT ![n - 1] = m]
    <3>1. ~(n = 0) /\ ~(n = 1)
      BY <1>1, <1>5
    <3> QED BY <1>1, <1>5, <3>1, Zenon DEF SquashTop
  <2>2. n - 1 \in 1 .. n - 1 /\ n - 1 \in 1 .. n /\ n \in 1 .. n
    BY <1>1, <1>5
  <2>3. m \in UndoState /\ m.revision = stack[n - 1].revision
    <3>1. stack[n - 1] \in UndoState /\ stack[n] \in UndoState
      BY <1>1, <2>2, ElementOfSeq
    <3> QED BY <3>1, MergeTyped
  <2>4. /\ ButLast(stack) \in Seq(UndoState) /\ Len(ButLast(stack)) = n - 1
        /\ \A i \in 1 .. n - 1 : ButLast(stack)[i] = stack[i]
    BY <1>1, <1>5, ButLastFacts
  <2> HIDE DEF m
  <2>5. Len(stack') = n - 1 /\ \A i \in 1 .. n - 1 :
          stack'[i] = IF i = n - 1 THEN m ELSE ButLast(stack)[i]
    BY <2>1, <2>2, <2>3, <2>4, ExceptSeq
  <2> QED BY <1>1, <2>3, <2>4, <2>5
<1>6. n = 0 \/ n = 1 \/ n > 1
  BY <1>1
<1>7. n = 1 \/ n > 1 => n > 0
  BY <1>1
<1> QED BY <1>2, <1>3, <1>4, <1>5, <1>6, <1>7

\* Every step keeps sessions and undo states aligned.
LEMMA AlignedStep ==
  ASSUME Inv, Inv', ~failed => Aligned, [Next]_vars
  PROVE  ~failed' => Aligned'
<1> SUFFICES ASSUME ~failed' PROVE Aligned'
  OBVIOUS
<1>1. CASE UNCHANGED vars
  BY <1>1 DEF vars, Aligned
<1>2. CASE Next
  <2>0. ~failed /\ Aligned
    BY <1>2 DEF Next
  <2>r. ASSUME NEW u, Record(u), sessions' = sessions,
               Enabled => u.revision = Top.revision /\ u \in UndoState
        PROVE  Aligned'
    <3>1. CASE Enabled
      <4>1. stack' = [stack EXCEPT ![Len(stack)] = u]
        BY <2>r, <3>1 DEF Record, SetTop
      <4>2. Len(stack) \in 1 .. Len(stack) /\ stack \in Seq(UndoState)
        BY <2>0, <3>1, TopFacts DEF Inv, TypeOK
      <4>3. Len(stack') = Len(stack) /\ \A i \in 1 .. Len(stack) :
              stack'[i] = IF i = Len(stack) THEN u ELSE stack[i]
        BY <2>r, <3>1, <4>1, <4>2, ExceptSeq
      <4> QED BY <2>0, <2>r, <3>1, <4>3, AlignedSame DEF Top
    <3>2. CASE ~Enabled
      BY <2>0, <2>r, <3>2 DEF Record, Aligned
    <3> QED BY <3>1, <3>2
  <2>t. ASSUME NEW id \in Ids, Enabled
        PROVE  /\ OnCreate(Top, id).revision = Top.revision /\ OnCreate(Top, id) \in UndoState
               /\ OnModify(Top, id).revision = Top.revision /\ OnModify(Top, id) \in UndoState
               /\ OnRemove(Top, id).revision = Top.revision /\ OnRemove(Top, id) \in UndoState
    BY <2>0, <2>t, TopFacts, HooksTyped DEF Inv, TypeOK
  <2>1. ASSUME NEW v \in Values, Emplace(v) PROVE Aligned'
    <3>1. next_id \in Ids
      BY <2>1, BoundsAssumption DEF Emplace, Inv, TypeOK, Ids
    <3> QED BY <2>1, <2>r, <2>t, <3>1 DEF Emplace
  <2>2. ASSUME NEW id \in Ids, NEW v \in Values, Modify(id, v) PROVE Aligned'
    BY <2>2, <2>r, <2>t DEF Modify
  <2>3. ASSUME NEW id \in Ids, Remove(id) PROVE Aligned'
    BY <2>3, <2>r, <2>t DEF Remove
  <2>4. CASE StartUndoSession
    <3>1. /\ stack' = Append(stack, NewUndoState) /\ sessions' = Append(sessions, revision + 1)
          /\ NewUndoState.revision = revision + 1
      BY <2>4 DEF StartUndoSession, NewUndoState
    <3>2. /\ stack \in Seq(UndoState) /\ sessions \in Seq(Nat) /\ Len(stack) \in Nat
          /\ Len(sessions) \in Nat
      BY DEF Inv, TypeOK
    <3>3. /\ Len(stack') = Len(stack) + 1 /\ stack'[Len(stack) + 1] = NewUndoState
          /\ \A i \in 1 .. Len(stack) : stack'[i] = stack[i]
          /\ Len(sessions') = Len(sessions) + 1 /\ sessions'[Len(sessions) + 1] = revision + 1
          /\ \A i \in 1 .. Len(sessions) : sessions'[i] = sessions[i]
      BY <3>1, <3>2, AppendProperties
    <3> SUFFICES ASSUME NEW d \in Nat, d < Len(sessions'), d < Len(stack')
                 PROVE  stack'[Len(stack') - d].revision = sessions'[Len(sessions') - d]
      BY DEF Aligned
    <3>4. CASE d = 0
      BY <3>1, <3>2, <3>3, <3>4
    <3>5. CASE d > 0
      <4>1. /\ d - 1 \in Nat /\ d - 1 < Len(sessions) /\ d - 1 < Len(stack)
            /\ Len(stack') - d = Len(stack) - (d - 1)
            /\ Len(sessions') - d = Len(sessions) - (d - 1)
            /\ Len(stack) - (d - 1) \in 1 .. Len(stack)
            /\ Len(sessions) - (d - 1) \in 1 .. Len(sessions)
        BY <3>2, <3>3, <3>5
      <4>2. stack[Len(stack) - (d - 1)].revision = sessions[Len(sessions) - (d - 1)]
        BY <2>0, <4>1 DEF Aligned
      <4> QED BY <3>3, <4>1, <4>2
    <3> QED BY <3>4, <3>5
  <2>5. CASE SessionPush
    <3>1. Len(sessions') = 0
      <4>1. /\ sessions' = ButLast(sessions) /\ sessions \in Seq(Nat)
            /\ Len(sessions) = 1 /\ Len(sessions) > 0 /\ Len(sessions) - 1 = 0
        BY <2>5 DEF SessionPush, Inv, TypeOK
      <4>2. Len(ButLast(sessions)) = Len(sessions) - 1
        BY <4>1, ButLastFacts
      <4> QED BY <4>1, <4>2
    <3> QED BY <3>1 DEF Aligned
  <2>6. CASE SessionSquash \/ SessionUndo
    <3>1. HasSession /\ sessions' = ButLast(sessions) /\ (UndoTop \/ SquashTop)
      BY <2>6 DEF SessionSquash, SessionUndo
    <3>2. stack' \in Seq(UndoState)
      BY DEF Inv, TypeOK
    <3> QED BY <2>0, <3>1, <3>2, TopGone, AlignedPop
  <2>7. CASE Undo
    <3>1. Len(sessions') = Len(sessions) /\ ~(Len(sessions) > 0)
      BY <2>7 DEF Undo, HasSession
    <3>2. Len(sessions) \in Nat
      BY DEF Inv, TypeOK
    <3> QED BY <3>1, <3>2 DEF Aligned
  <2>8. ASSUME NEW r \in 0 .. MaxRevision, Commit(r) PROVE Aligned'
    <3>1. PICK n \in 0 .. Len(stack) : stack' = SubSeq(stack, n + 1, Len(stack))
      BY <2>8 DEF Commit
    <3>2. sessions' = sessions /\ stack \in Seq(UndoState) /\ Len(stack) \in Nat
      BY <2>8 DEF Commit, Inv, TypeOK
    <3>3. /\ Len(stack') = Len(stack) - n
          /\ \A i \in 1 .. Len(stack) - n : stack'[i] = stack[n + i]
      BY <3>1, <3>2, SuffixFacts
    <3> SUFFICES ASSUME NEW d \in Nat, d < Len(sessions), d < Len(stack')
                 PROVE  stack'[Len(stack') - d].revision = sessions[Len(sessions) - d]
      BY <3>2 DEF Aligned
    <3>4. /\ Len(stack') - d \in 1 .. Len(stack) - n /\ n + (Len(stack') - d) = Len(stack) - d
          /\ d < Len(stack)
      BY <3>2, <3>3
    <3>5. stack[Len(stack) - d].revision = sessions[Len(sessions) - d]
      BY <2>0, <3>4 DEF Aligned
    <3> QED BY <3>3, <3>4, <3>5
  <2>9. ASSUME NEW r \in 0 .. MaxRevision, SetRevision(r) PROVE Aligned'
    BY <2>0, <2>9 DEF SetRevision, Aligned
  <2> QED BY <1>2, <2>1, <2>2, <2>3, <2>4, <2>5, <2>6, <2>7, <2>8, <2>9 DEF Next
<1> QED BY <1>1, <1>2

\* The state on top of the stack is the innermost live session's, unless commit()
\* dropped them all: at the end of its scope a handle undoes or squashes its own state.
THEOREM SessionOwnsTopAlways == Spec => []SessionOwnsTop
<1> DEFINE AInv == Inv /\ (~failed => Aligned)
<1>1. Init => AInv
  BY InitInv DEF Init, Aligned
<1>2. AInv /\ [Next]_vars => AInv'
  BY NextInv, AlignedStep
<1>3. AInv => SessionOwnsTop
  <2> SUFFICES ASSUME Inv, Aligned, HasSession, Enabled
               PROVE  Top.revision = sessions[Len(sessions)]
    BY DEF SessionOwnsTop
  <2>1. /\ Len(stack) \in Nat /\ Len(sessions) \in Nat /\ 0 < Len(stack) /\ 0 < Len(sessions)
    BY DEF Inv, TypeOK, HasSession, Enabled
  <2>2. stack[Len(stack) - 0].revision = sessions[Len(sessions) - 0]
    BY <2>1 DEF Aligned
  <2> QED BY <2>1, <2>2 DEF Top
<1> HIDE DEF AInv
<1> QED BY <1>1, <1>2, <1>3, PTL DEF Spec

\* No two objects have the same key.
Distinct(t) == \A i, j \in Ids : i # j /\ t[i] # NoVal => t[i] # t[j]

Keys == Unique => Distinct(indices) /\ \A i \in 1 .. Len(snaps) : Distinct(snaps[i].indices)

\* Every step keeps the keys of the table, and of the tables it can return to, distinct.
LEMMA KeysStep ==
  ASSUME Inv, Inv', ~failed => Keys, [Next]_vars
  PROVE  ~failed' => Keys'
<1> SUFFICES ASSUME ~failed', Unique
             PROVE  Distinct(indices') /\ \A i \in 1 .. Len(snaps') : Distinct(snaps'[i].indices)
  BY DEF Keys
<1>1. CASE UNCHANGED vars
  BY <1>1 DEF vars, Keys
<1>2. CASE Next
  <2>0. /\ ~failed /\ Distinct(indices) /\ \A i \in 1 .. Len(snaps) : Distinct(snaps[i].indices)
        /\ indices \in Table /\ Len(snaps) \in Nat /\ snaps \in Seq(Snapshot)
    <3>1. ~failed /\ Keys
      BY <1>2 DEF Next
    <3>2. Distinct(indices) /\ \A i \in 1 .. Len(snaps) : Distinct(snaps[i].indices)
      BY <3>1 DEF Keys
    <3>3. indices \in Table /\ Len(snaps) \in Nat /\ snaps \in Seq(Snapshot)
      BY DEF Inv, TypeOK
    <3> QED BY <3>1, <3>2, <3>3
  <2>1. ASSUME NEW v \in Values, Emplace(v)
        PROVE  Distinct(indices') /\ UNCHANGED snaps
    <3>1. next_id \in Ids
      BY <2>1, BoundsAssumption DEF Emplace, Inv, TypeOK, Ids
    <3>2. /\ indices' = [indices EXCEPT ![next_id] = v] /\ UNCHANGED snaps
          /\ \A j \in Ids : j # next_id => indices[j] # v
      BY <2>1 DEF Emplace, Collides
    <3> QED BY <2>0, <3>1, <3>2 DEF Distinct, Table
  <2>2. ASSUME NEW id \in Ids, NEW v \in Values, Modify(id, v)
        PROVE  Distinct(indices') /\ UNCHANGED snaps
    <3>1. ~Collides(indices, id, v) /\ indices' = [indices EXCEPT ![id] = v] /\ UNCHANGED snaps
      BY <2>2 DEF Modify
    <3>2. \A j \in Ids : j # id => indices[j] # v
      BY <3>1 DEF Collides
    <3> QED BY <2>0, <3>1, <3>2 DEF Distinct, Table
  <2>3. ASSUME NEW id \in Ids, Remove(id)
        PROVE  Distinct(indices') /\ UNCHANGED snaps
    BY <2>0, <2>3 DEF Remove, Distinct, Table
  <2>4. CASE StartUndoSession
    <3>1. indices' = indices /\ snaps' = Append(snaps, Current) /\ Current \in Snapshot
          /\ Current.indices = indices
      BY <2>4, CurrentTyped DEF StartUndoSession, Current
    <3>2. /\ Len(snaps') = Len(snaps) + 1 /\ snaps'[Len(snaps) + 1] = Current
          /\ \A i \in 1 .. Len(snaps) : snaps'[i] = snaps[i]
      BY <2>0, <3>1, AppendProperties
    <3>3. \A i \in 1 .. Len(snaps') : i \in 1 .. Len(snaps) \/ i = Len(snaps) + 1
      BY <2>0, <3>2
    <3> QED BY <2>0, <3>1, <3>2, <3>3
  <2>5. CASE SessionPush
    BY <2>0, <2>5 DEF SessionPush
  <2>d. ASSUME Len(snaps) > 0, snaps' = ButLast(snaps)
        PROVE  \A i \in 1 .. Len(snaps') : Distinct(snaps'[i].indices)
    <3>1. /\ Len(snaps') = Len(snaps) - 1 /\ \A i \in 1 .. Len(snaps) - 1 : snaps'[i] = snaps[i]
      BY <2>0, <2>d, ButLastFacts
    <3>2. \A i \in 1 .. Len(snaps') : i \in 1 .. Len(snaps) /\ i \in 1 .. Len(snaps) - 1
      BY <2>0, <3>1
    <3> QED BY <2>0, <3>1, <3>2
  <2>6. CASE SessionSquash
    <3>1. indices' = indices /\ SquashTop
      BY <2>6 DEF SessionSquash
    <3>2. PICK n \in Nat : n = Len(stack) /\ n = Len(snaps)
      BY DEF Inv, TypeOK
    <3>3. CASE n = 0
      <4>1. snaps' = snaps
        BY <3>1, <3>2, <3>3 DEF SquashTop
      <4> QED BY <2>0, <3>1, <4>1
    <3>4. CASE n = 1
      <4>1. snaps' = <<>>
        BY <3>1, <3>2, <3>4 DEF SquashTop
      <4> QED BY <2>0, <3>1, <4>1
    <3>5. CASE n > 1
      <4>1. ~(n = 0) /\ ~(n = 1) /\ Len(snaps) > 0
        BY <3>2, <3>5
      <4>2. snaps' = ButLast(snaps)
        BY <3>1, <3>2, <4>1, Zenon DEF SquashTop
      <4> QED BY <2>0, <2>d, <3>1, <4>1, <4>2
    <3>6. n = 0 \/ n = 1 \/ n > 1
      BY <3>2
    <3> QED BY <3>3, <3>4, <3>5, <3>6
  <2>7. CASE SessionUndo \/ Undo
    <3>1. UndoTop
      BY <2>7 DEF SessionUndo, Undo
    <3>2. CASE ~Enabled
      BY <2>0, <3>1, <3>2 DEF UndoTop
    <3>3. CASE Enabled
      <4>1. indices' = Restore(Top, indices).indices /\ snaps' = ButLast(snaps)
        BY <3>1, <3>3 DEF UndoTop
      <4>2. /\ Len(stack) \in 1 .. Len(stack) /\ Len(snaps) = Len(stack)
            /\ Top \in UndoState /\ snaps[Len(snaps)] \in Snapshot
            /\ LevelOK(Top, snaps[Len(snaps)], Current)
        BY <2>0, <3>3, TopFacts
      <4>3. Len(snaps) > 0 /\ Len(snaps) \in 1 .. Len(snaps)
        BY <3>3, <4>2 DEF Enabled
      <4>4. Restore(Top, indices) = snaps[Len(snaps)]
        BY <4>2, CurrentTyped, RestoreLevel DEF Current
      <4> QED BY <2>0, <2>d, <4>1, <4>3, <4>4
    <3> QED BY <3>2, <3>3
  <2>8. ASSUME NEW r \in 0 .. MaxRevision, Commit(r)
        PROVE  Distinct(indices') /\ \A i \in 1 .. Len(snaps') : Distinct(snaps'[i].indices)
    <3>1. PICK n \in 0 .. Len(snaps) : snaps' = SubSeq(snaps, n + 1, Len(snaps))
      BY <2>8 DEF Commit, Inv, TypeOK
    <3>2. indices' = indices
      BY <2>8 DEF Commit
    <3>3. /\ Len(snaps') = Len(snaps) - n
          /\ \A i \in 1 .. Len(snaps) - n : snaps'[i] = snaps[n + i]
      BY <2>0, <3>1, SuffixFacts
    <3>4. \A i \in 1 .. Len(snaps) - n : n + i \in 1 .. Len(snaps)
      BY <2>0
    <3> QED BY <2>0, <3>2, <3>3, <3>4
  <2>9. ASSUME NEW r \in 0 .. MaxRevision, SetRevision(r)
        PROVE  Distinct(indices') /\ UNCHANGED snaps
    BY <2>0, <2>9 DEF SetRevision
  <2> QED BY <1>2, <2>0, <2>1, <2>2, <2>3, <2>4, <2>5, <2>6, <2>7, <2>8, <2>9 DEF Next
<1> QED BY <1>1, <1>2

\* When undo() finds an old key taken, the object in the way was created by the
\* session or had its own key changed by it, for any number of objects.
THEOREM ClashesOnlyWithinSessionAlways == Spec => []ClashesOnlyWithinSession
<1> DEFINE KInv == Inv /\ (~failed => Keys)
<1>1. Init => KInv
  <2> SUFFICES ASSUME Init PROVE Keys
    BY InitInv
  <2>1. indices = NoEntries /\ snaps = <<>> /\ Len(snaps) = 0
    BY DEF Init
  <2>2. \A i \in Ids : indices[i] = NoVal
    BY <2>1 DEF NoEntries
  <2> QED BY <2>1, <2>2 DEF Keys, Distinct
<1>2. KInv /\ [Next]_vars => KInv'
  BY NextInv, KeysStep
<1>3. KInv => ClashesOnlyWithinSession
  <2> SUFFICES ASSUME Inv, Keys, ~failed, Enabled, NEW k \in Clashes(Top), NEW j \in Ids,
                      j # k, PutBack(Top, k)[j] = Top.old_values[k],
                      j \notin Top.new_ids, Top.old_values[j] = NoVal
               PROVE  FALSE
    BY DEF ClashesOnlyWithinSession
  <2> DEFINE pre == snaps[Len(snaps)]
  <2>1. /\ Len(snaps) \in 1 .. Len(snaps) /\ Top \in UndoState
        /\ LevelOK(Top, pre, Current) /\ Current.indices = indices
    BY TopFacts DEF Current
  <2>2. k \in Ids /\ Top.old_values[k] # NoVal /\ Unique
    BY DEF Clashes, Collides
  <2>3. Distinct(pre.indices)
    BY <2>1, <2>2 DEF Keys
  <2>4. indices[j] = Top.old_values[k]
    BY <2>2 DEF PutBack
  <2>5. pre.indices[k] = Top.old_values[k] /\ pre.indices[j] = indices[j]
    BY <2>1, <2>2, <2>4 DEF LevelOK
  <2> QED BY <2>2, <2>3, <2>4, <2>5 DEF Distinct
<1> HIDE DEF KInv
<1> QED BY <1>1, <1>2, <1>3, PTL DEF Spec
=============================================================================

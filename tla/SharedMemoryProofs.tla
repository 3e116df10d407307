------------------------- MODULE SharedMemoryProofs ------------------------
(***************************************************************************)
(* SharedMemory for any number of readers, locks, tables and blocks: the   *)
(* tables agree whenever the node is up, and a reader that nobody overtook *)
(* has seen one block in all tables.                                       *)
(*                                                                         *)
(* While a loop over the tables runs, the tables that it has not reached   *)
(* have one content and the others are the result of its stage for that    *)
(* content.  A stop leaves tables that undo_all() takes back to one        *)
(* content, or a first table that was committed beyond the log, which      *)
(* open() refuses.                                                         *)
(***************************************************************************)
EXTENDS SharedMemory, DataLemmas, FiniteSetTheorems

\* A table, and a stage of work.
Table == [val : Seq(Entries), saved : Seq(Seq(Entries)), rev : Nat]

Dos == {"start", "change", "commit", "append", "finish", "undo", "undo_all", "set_revision"}
Stages == [do : Dos, arg : Nat \cup Entries, left : SUBSET Tables]

\* The revision of the oldest content that is saved.
Oldest(x) == x.rev - Len(x.saved)

\* A table as it is found at any time: no saved content is shorter than its
\* revision says, and neither is the content after undo_all().
Sane(x) ==
  /\ x \in Table
  /\ Oldest(x) >= 0 /\ x.rev <= MaxHeight /\ Len(x.val) <= MaxHeight
  /\ \A i \in 1 .. Len(x.saved) :
       Len(x.saved[i]) >= Oldest(x) + i - 1 /\ Len(x.saved[i]) <= MaxHeight
  /\ x.saved = <<>> => x.rev <= Len(x.val)

\* ... and between two blocks the present one is not either.
Strong(x) == Sane(x) /\ x.rev <= Len(x.val)

\* A table that is at its revision exactly, but for the block that is missing.
Exact(x, missing) ==
  /\ x \in Table /\ Oldest(x) >= 0
  /\ x.rev = Len(x.val) + missing
  /\ \A i \in 1 .. Len(x.saved) : Len(x.saved[i]) = Oldest(x) + i - 1

\* Contents whose blocks have made all their changes.
AllWhole(c) == \A i \in 1 .. Len(c) : c[i].whole
Kept(x) == \A i \in 1 .. Len(x.saved) : AllWhole(x.saved[i])

\* A table between two blocks, one whose session is open, and one that has the
\* first part of its block.
Settled(x) == Exact(x, 0) /\ AllWhole(x.val) /\ Kept(x)
Opened(x) == Exact(x, 1) /\ AllWhole(x.val) /\ Kept(x)
Begun(x) == Exact(x, 0) /\ x.rev > 0 /\ Kept(x) /\ \A i \in 1 .. Len(x.val) - 1 : x.val[i].whole

\* What is left to do: the first stage, for the tables in left, and the rest.
Doing(do, arg, left, rest) ==
  /\ work \in Seq(Stages) /\ work # <<>>
  /\ Head(work) = [do |-> do, arg |-> arg, left |-> left] /\ left # {}
  /\ Tail(work) = rest

\* Tables that the loop has not reached are y, the others z.
Halfway(left, y, z) == \A t \in Tables : tab[t] = IF t \in left THEN y ELSE z

Same == \A t \in Tables : tab[t] = tab[1]

\* The stages of apply_block ...
Ahead(lib) == lib = 0 \/ lib > Len(log)

Starting(left, b, lib) ==
  /\ Doing("start", 0, left, <<Stage("change", b), Stage("commit", lib), Stage("append", lib), Stage("finish", 0)>>)
  /\ \A t \in Tables : Len(tab[t].val) < MaxHeight /\ tab[t].rev <= Len(tab[t].val) + 1
  /\ \A t \in left : Strong(tab[t])
  /\ lib <= Len(tab[1].val) + 1
  /\ ~damaged => Ahead(lib) /\ \E u \in left :
       Settled(tab[u]) /\ Halfway(left, tab[u], Started(tab[u]))

Changing(left, b, lib) ==
  /\ Doing("change", b, left, <<Stage("commit", lib), Stage("append", lib), Stage("finish", 0)>>)
  /\ \A t \in Tables : tab[t].rev <= Len(tab[t].val) + (IF t \in left THEN 1 ELSE 0)
  /\ \A t \in left : Len(tab[t].val) < MaxHeight
  /\ lib <= Len(tab[1].val) + (IF 1 \in left THEN 1 ELSE 0)
  /\ ~damaged => Ahead(lib) /\ \E u \in left :
       Opened(tab[u]) /\ tab[u].saved # <<>> /\ Halfway(left, tab[u], Changed(tab[u], b))

Committing(left, lib) ==
  /\ Doing("commit", lib, left, <<Stage("append", lib), Stage("finish", 0)>>)
  /\ \A t \in Tables : tab[t].rev <= Len(tab[t].val)
  /\ lib <= Len(tab[1].val)
  /\ 1 \in left => left = Tables
  /\ ~damaged => Ahead(lib) /\ \E u \in left :
       /\ Begun(tab[u]) /\ tab[u].saved # <<>> /\ lib <= tab[u].rev
       /\ Halfway(left, tab[u], Committed(tab[u], lib))

Appending(lib) ==
  /\ Doing("append", lib, Tables, <<Stage("finish", 0)>>)
  /\ \A t \in Tables : tab[t].rev <= Len(tab[t].val)
  /\ lib <= Len(tab[1].val)
  /\ ~damaged => Begun(tab[1]) /\ Same

Finishing(left) ==
  /\ Doing("finish", 0, left, <<>>)
  /\ \A t \in Tables : tab[t].rev <= Len(tab[t].val)
  /\ ~damaged => \E u \in left : Begun(tab[u]) /\ Halfway(left, tab[u], Finished(tab[u]))

\* ... of pop_block, and of a failed apply_block ...
Undoing(left) ==
  /\ Doing("undo", 0, left, <<>>)
  /\ \A t \in Tables \ left : tab[t].rev <= Len(tab[t].val)
  /\ ~damaged => \E u \in left :
       /\ Settled(Undone(tab[u]))
       /\ \A t \in Tables : (IF t \in left THEN Undone(tab[t]) ELSE tab[t]) = Undone(tab[u])

\* ... and of open(): undo_all() will bring all tables to one content, or the
\* first beyond the log, and no content has a block in part.
Recoverable ==
  \/ /\ AllWhole(AllUndone(tab[1]).val)
     /\ \A t \in Tables : AllUndone(tab[t]) = AllUndone(tab[1])
  \/ Len(log) < Len(AllUndone(tab[1]).val)

Rewinding(left) ==
  /\ Doing("undo_all", 0, left, <<>>)
  /\ \A t \in Tables \ left : tab[t].saved = <<>>
  /\ ~damaged => Recoverable

\* A reindex that has come to a content y.
ReplayStages(wk) ==
  /\ wk \in Seq(Stages) /\ wk # <<>> /\ wk[1].left # {}
  /\ \A i \in 2 .. Len(wk) : wk[i].left = Tables
  /\ \A i \in 1 .. Len(wk) - 1 : wk[i].do = "change" /\ wk[i].arg \in Entries /\ wk[i].arg.whole
  /\ wk[Len(wk)].do = "set_revision" /\ wk[Len(wk)].arg = Len(log)

Reindexing ==
  /\ ~damaged /\ ReplayStages(work)
  /\ \E u \in work[1].left :
       /\ tab[u].saved = <<>> /\ tab[u].rev = 0 /\ AllWhole(tab[u].val)
       /\ Len(tab[u].val) + Len(work) - 1 = Len(log)
       /\ Halfway(work[1].left, tab[u], Result(work[1], tab[u]))

\* Nothing is left to do.
Ready ==
  /\ work = <<>>
  /\ \A t \in Tables : tab[t].rev <= Len(tab[t].val)
  /\ ~damaged => Settled(tab[1]) /\ Same

Rewound ==
  /\ work = <<>>
  /\ \A t \in Tables : tab[t].saved = <<>>
  /\ ~damaged => Recoverable

Stopped == work = <<>> /\ (~damaged => Recoverable)

ToReplay ==
  /\ work = <<>> /\ ~damaged
  /\ tab = [t \in Tables |-> Empty]
  /\ goal = Replay

\* The write process is at one of these points.
InApply == \E b \in Entries, lib \in 0 .. MaxHeight, left \in SUBSET Tables :
             Starting(left, b, lib) \/ Changing(left, b, lib) \/ Committing(left, lib)
InAppend == \E lib \in 0 .. MaxHeight : Appending(lib)
InFinish == \E left \in SUBSET Tables : Finishing(left)
InUndo == \E left \in SUBSET Tables : Undoing(left)
InRewind == \E left \in SUBSET Tables : Rewinding(left)

Waiting == {"wait", "claimed", "bump"}

Place ==
  \/ status = "down" /\ pc[Writer] = "idle" /\ goal = NoGoal /\ Stopped
  \/ status = "opening" /\ pc[Writer] \in Waiting /\ goal = Rewind /\ Stopped
  \/ status = "opening" /\ pc[Writer] \in Waiting /\ ToReplay
  \/ status = "opening" /\ pc[Writer] = "inside" /\ goal = NoGoal
       /\ (InRewind \/ Rewound \/ Reindexing)
  \/ status = "up" /\ goal = NoGoal /\ Ready
  \/ status = "up" /\ pc[Writer] = "inside" /\ goal = NoGoal
       /\ (InApply \/ InAppend \/ InFinish \/ InUndo)

TablesOK ==
  /\ tab \in [Tables -> Table] /\ \A t \in Tables : Sane(tab[t])
  /\ log \in Seq(Blocks) /\ Len(log) <= MaxHeight

\* The locks: who waits is at the current lock, who is in has it, and every
\* reader whose share was not forgotten is counted.
LocksOK ==
  /\ LocksTypeOK
  /\ pc[Writer] \in {"wait", "claimed", "inside"} => at[Writer] = current
  /\ pc[Writer] \in {"claimed", "inside"} => LockOf(Writer).exclusive
  /\ \A i \in 0 .. NumLocks - 1 : Cardinality(HoldersAt(i) \ lost) <= locks[i].shared
  /\ pc[Writer] = "inside" => HoldersAt(Slot(Writer)) \subseteq lost

\* A reader that nobody overtook; and what it has seen.
Undisturbed(r) ==
  pc[r] = "inside" /\ sound[r] /\ ~damaged /\ at[r] = current /\ r \notin lost

SeenOK ==
  \A r \in Readers : Undisturbed(r) =>
    \A t \in Tables : tab[t] = tab[1] /\ seen[r][t] \subseteq {tab[t].val}

ProcessesOK ==
  /\ status \in {"down", "opening", "up"}
  /\ seen \in [Readers -> [Tables -> SUBSET Chains]]
  /\ sound \in [Readers -> BOOLEAN] /\ damaged \in BOOLEAN
  /\ calls \in Nat /\ reads \in Nat /\ kills \in Nat

\* The inductive invariant.
Inv == ProcessesOK /\ LocksOK /\ TablesOK /\ Place /\ SeenOK
----------------------------------------------------------------------------
(* One table *)

\* A table with other parts.
LEMMA TableExcept ==
  ASSUME NEW x \in Table, NEW v, NEW s, NEW r
  PROVE  /\ [x EXCEPT !.val = v] = [val |-> v, saved |-> x.saved, rev |-> x.rev]
         /\ [x EXCEPT !.saved = s] = [val |-> x.val, saved |-> s, rev |-> x.rev]
         /\ [x EXCEPT !.rev = r] = [val |-> x.val, saved |-> x.saved, rev |-> r]
         /\ x = [val |-> x.val, saved |-> x.saved, rev |-> x.rev]
<1> DEFINE S == Seq(Entries)
           T == Seq(S)
<1>1. x \in [val : S, saved : T, rev : Nat] BY DEF Table
<1> HIDE DEF S, T
<1>3. [x EXCEPT !.val = v] = [val |-> v, saved |-> x.saved, rev |-> x.rev] BY <1>1, SMT
<1>4. [x EXCEPT !.saved = s] = [val |-> x.val, saved |-> s, rev |-> x.rev] BY <1>1, SMT
<1>5. [x EXCEPT !.rev = r] = [val |-> x.val, saved |-> x.saved, rev |-> r] BY <1>1, SMT
<1>6. x = [val |-> x.val, saved |-> x.saved, rev |-> x.rev] BY <1>1, SMT
<1> QED BY <1>3, <1>4, <1>5, <1>6

\* What the operations of generic_index leave of a table's type and bounds.
LEMMA StartedSane ==
  ASSUME NEW x, Strong(x), Len(x.val) < MaxHeight
  PROVE  Sane(Started(x)) /\ Started(x).val = x.val /\ Started(x).rev = x.rev + 1
<1>1. x \in Table /\ x.val \in Seq(Entries) /\ x.saved \in Seq(Seq(Entries)) /\ x.rev \in Nat
  BY DEF Strong, Sane, Table
<1> DEFINE s == Append(x.saved, x.val)
<1>2. /\ s \in Seq(Seq(Entries)) /\ Len(s) = Len(x.saved) + 1 /\ s # <<>>
      /\ \A i \in 1 .. Len(x.saved) : s[i] = x.saved[i]
      /\ s[Len(x.saved) + 1] = x.val
  BY <1>1, AppendProperties, LenProperties
<1>3. Started(x) = [val |-> x.val, saved |-> s, rev |-> x.rev + 1]
  BY DEF Started
<1>4. Started(x) \in Table /\ Oldest(Started(x)) = Oldest(x)
  BY <1>1, <1>2, <1>3 DEF Table, Oldest
<1>5. \A i \in 1 .. Len(s) : Len(s[i]) >= Oldest(x) + i - 1 /\ Len(s[i]) <= MaxHeight
  BY <1>1, <1>2, SMT DEF Strong, Sane, Oldest
<1>6. Started(x).val = x.val /\ Started(x).saved = s /\ Started(x).rev = x.rev + 1
  BY <1>3
<1> HIDE DEF s
<1>7. /\ x.rev <= Len(x.val) /\ Len(x.val) \in Nat /\ x.rev + 1 <= MaxHeight
      /\ Oldest(x) >= 0 /\ Len(x.val) <= MaxHeight
  BY <1>1, TablesAssumption, LenProperties, SMT DEF Strong, Sane, Oldest
<1> QED BY <1>2, <1>4, <1>5, <1>6, <1>7 DEF Sane

\* The same of a change that comes after the start of its session.
LEMMA ChangedSane ==
  ASSUME NEW x, Sane(x), NEW b \in Entries, Len(x.val) < MaxHeight
  PROVE  Sane(Changed(x, b)) /\ Len(Changed(x, b).val) = Len(x.val) + 1
                             /\ Changed(x, b).rev = x.rev /\ Changed(x, b).saved = x.saved
<1>1. x \in Table /\ x.val \in Seq(Entries) /\ x.saved \in Seq(Seq(Entries)) /\ x.rev \in Nat
  BY DEF Sane, Table
<1>2. Changed(x, b) = [val |-> Append(x.val, b), saved |-> x.saved, rev |-> x.rev]
  BY <1>1, TableExcept, Zenon DEF Changed
<1>3. Append(x.val, b) \in Seq(Entries) /\ Len(Append(x.val, b)) = Len(x.val) + 1
  BY <1>1
<1>4. Changed(x, b) \in Table /\ Oldest(Changed(x, b)) = Oldest(x)
  BY <1>1, <1>2, <1>3 DEF Table, Oldest
<1>5. /\ Changed(x, b).val = Append(x.val, b) /\ Changed(x, b).saved = x.saved
      /\ Changed(x, b).rev = x.rev
  BY <1>2
<1>6. /\ Oldest(x) >= 0 /\ x.rev <= MaxHeight /\ Len(x.val) + 1 <= MaxHeight
      /\ x.saved = <<>> => x.rev <= Len(x.val) + 1
  BY <1>1, TablesAssumption, LenProperties, SMT DEF Sane
<1>7. \A i \in 1 .. Len(x.saved) :
        Len(x.saved[i]) >= Oldest(x) + i - 1 /\ Len(x.saved[i]) <= MaxHeight
  BY DEF Sane
<1> QED BY <1>3, <1>4, <1>5, <1>6, <1>7, Zenon DEF Sane

\* A sequence with another element in one place.
LEMMA OtherElement ==
  ASSUME NEW S, NEW c \in Seq(S), NEW k, NEW v, k \in 1 .. Len(c) => v \in S
  PROVE  /\ [c EXCEPT ![k] = v] \in Seq(S) /\ Len([c EXCEPT ![k] = v]) = Len(c)
         /\ \A i \in 1 .. Len(c) : [c EXCEPT ![k] = v][i] = IF i = k THEN v ELSE c[i]
<1> DEFINE d == [c EXCEPT ![k] = v]
           n == Len(c)
<1>1. n \in Nat /\ DOMAIN c = 1 .. n /\ c \in [1 .. n -> S] BY LenProperties
<1>2. d = [i \in 1 .. n |-> IF i = k THEN v ELSE c[i]] BY <1>1
<1>3. \A i \in 1 .. n : (IF i = k THEN v ELSE c[i]) \in S BY <1>1
<1> HIDE DEF d, n
<1>4. d \in [1 .. n -> S] BY <1>2, <1>3, Zenon
<1>5. d \in Seq(S) /\ Len(d) = n BY <1>1, <1>4
<1>6. \A i \in 1 .. n : d[i] = IF i = k THEN v ELSE c[i] BY <1>2
<1> QED BY <1>5, <1>6 DEF d, n

\* The last part of a block keeps the length of the content.
LEMMA FinishedParts ==
  ASSUME NEW x \in Table
  PROVE  /\ Finished(x) \in Table
         /\ Finished(x).saved = x.saved /\ Finished(x).rev = x.rev
         /\ Len(Finished(x).val) = Len(x.val) /\ Len(x.val) \in Nat
         /\ \A i \in 1 .. Len(x.val) :
              IF i = Len(x.val) THEN Finished(x).val[i].whole ELSE Finished(x).val[i] = x.val[i]
<1> DEFINE n == Len(x.val)
           e == Whole(x.val[n].block)
           v == [x.val EXCEPT ![n] = e]
<1>1. x.val \in Seq(Entries) /\ x.saved \in Seq(Seq(Entries)) /\ x.rev \in Nat /\ n \in Nat
  BY LenProperties DEF Table
<1>2. n \in 1 .. n => x.val[n] \in Entries BY <1>1, ElementOfSeq
<1>3. n \in 1 .. n => e \in Entries BY <1>2 DEF Entries, Whole
<1>4. e.whole BY DEF Whole
<1>5. Finished(x) = [x EXCEPT !.val = v] BY DEF Finished
<1> HIDE DEF e
<1>6. v \in Seq(Entries) /\ Len(v) = n /\ \A i \in 1 .. n : v[i] = IF i = n THEN e ELSE x.val[i]
  BY <1>1, <1>3, OtherElement
<1> HIDE DEF v, n
<1>7. Finished(x) = [val |-> v, saved |-> x.saved, rev |-> x.rev] BY <1>5, TableExcept
<1>8. Finished(x) \in Table BY <1>1, <1>6, <1>7 DEF Table
<1>9. Finished(x).val = v /\ Finished(x).saved = x.saved /\ Finished(x).rev = x.rev BY <1>7
<1> QED BY <1>1, <1>4, <1>6, <1>8, <1>9 DEF n

LEMMA FinishedSane ==
  ASSUME NEW x, Sane(x)
  PROVE  Sane(Finished(x))
<1>1. x \in Table BY DEF Sane
<1>2. /\ Finished(x) \in Table
      /\ Finished(x).saved = x.saved /\ Finished(x).rev = x.rev
      /\ Len(Finished(x).val) = Len(x.val)
  BY <1>1, FinishedParts
<1>3. Oldest(Finished(x)) = Oldest(x) BY <1>2 DEF Oldest
<1> QED BY <1>2, <1>3 DEF Sane

\* The parts of a table after undo(): without a saved content nothing happens.
LEMMA UndoneParts ==
  ASSUME NEW x \in Table, x.saved # <<>>
  PROVE  LET n == Len(x.saved)
             s == Undone(x).saved
         IN  /\ n \in Nat \ {0}
             /\ Undone(x) = [val |-> x.saved[n], saved |-> s, rev |-> x.rev - 1]
             /\ s \in Seq(Seq(Entries)) /\ Len(s) = n - 1
             /\ \A i \in 1 .. n - 1 : s[i] = x.saved[i]
             /\ x.saved[n] \in Seq(Entries)
<1>1. x.val \in Seq(Entries) /\ x.saved \in Seq(Seq(Entries)) /\ x.rev \in Nat
  BY DEF Table
<1>2. Len(x.saved) \in Nat \ {0} BY <1>1
<1>3. Undone(x) = [val |-> x.saved[Len(x.saved)], saved |-> Front(x.saved), rev |-> x.rev - 1]
  BY DEF Undone, Last
<1>4. Front(x.saved) = [i \in 1 .. Len(x.saved) - 1 |-> x.saved[i]]
  BY <1>1, <1>2 DEF Front
<1>5. /\ Front(x.saved) \in Seq(Seq(Entries)) /\ Len(Front(x.saved)) = Len(x.saved) - 1
      /\ \A i \in 1 .. Len(x.saved) - 1 : Front(x.saved)[i] = x.saved[i]
  BY <1>1, <1>2, <1>4
<1> QED BY <1>1, <1>2, <1>3, <1>5

\* undo() leaves a table that is between two blocks.
LEMMA UndoneStrong ==
  ASSUME NEW x, Sane(x)
  PROVE  Strong(Undone(x))
<1>1. x \in Table /\ x.val \in Seq(Entries) /\ x.saved \in Seq(Seq(Entries)) /\ x.rev \in Nat
  BY DEF Sane, Table
<1>2. CASE x.saved = <<>>
  BY <1>2 DEF Undone, Sane, Strong
<1>3. CASE x.saved # <<>>
  <2> DEFINE y == Undone(x)
             n == Len(x.saved)
  <2>1. /\ n \in Nat \ {0}
        /\ y = [val |-> x.saved[n], saved |-> y.saved, rev |-> x.rev - 1]
        /\ y.saved \in Seq(Seq(Entries)) /\ Len(y.saved) = n - 1
        /\ \A i \in 1 .. n - 1 : y.saved[i] = x.saved[i]
        /\ x.saved[n] \in Seq(Entries)
    BY <1>1, <1>3, UndoneParts
  <2> HIDE DEF y, n
  <2>2. x.rev >= n BY <1>1, SMT DEF Sane, Oldest, n
  <2>3. /\ Len(x.saved[n]) >= x.rev - 1 /\ Len(x.saved[n]) <= MaxHeight /\ x.rev <= MaxHeight
        /\ \A i \in 1 .. n - 1 : Len(x.saved[i]) >= x.rev - n + i - 1 /\ Len(x.saved[i]) <= MaxHeight
    <3>1. Oldest(x) = x.rev - n /\ x.rev <= MaxHeight BY DEF Oldest, n, Sane
    <3>2. \A i \in 1 .. n : Len(x.saved[i]) >= Oldest(x) + i - 1 /\ Len(x.saved[i]) <= MaxHeight
      BY Zenon DEF Sane, n
    <3>3. n \in 1 .. n /\ \A i \in 1 .. n - 1 : i \in 1 .. n BY <2>1
    <3> QED BY <1>1, <2>1, <3>1, <3>2, <3>3
  <2>4. y.val = x.saved[n] /\ y.rev = x.rev - 1 BY <2>1
  <2>5. y \in Table BY <1>1, <2>1, <2>2, SMT DEF Table
  <2>6. Oldest(y) = x.rev - n BY <1>1, <2>1, <2>4, SMT DEF Oldest
  <2>7. /\ Oldest(y) >= 0 /\ y.rev <= MaxHeight /\ Len(y.val) <= MaxHeight /\ y.rev <= Len(y.val)
        /\ \A i \in 1 .. Len(y.saved) :
             Len(y.saved[i]) >= Oldest(y) + i - 1 /\ Len(y.saved[i]) <= MaxHeight
    <3>1. \A i \in 1 .. Len(y.saved) : i \in 1 .. n - 1 /\ y.saved[i] = x.saved[i]
      BY <2>1
    <3>2. Len(y.val) = Len(x.saved[n]) /\ Len(x.saved[n]) \in Nat BY <2>1, <2>4, LenProperties
    <3>3. Oldest(y) >= 0 /\ y.rev <= MaxHeight /\ Len(y.val) <= MaxHeight /\ y.rev <= Len(y.val)
      BY <1>1, <2>1, <2>2, <2>3, <2>4, <2>6, <3>2, TablesAssumption
    <3> QED BY <2>3, <2>6, <3>1, <3>3
  <2>8. Strong(y)
    BY <2>5, <2>7 DEF Strong, Sane
  <2> QED BY <2>8 DEF y
<1> QED BY <1>2, <1>3

\* undo_all() leaves the oldest content that is saved.
LEMMA AllUndoneParts ==
  ASSUME NEW x \in Table, x.saved # <<>>
  PROVE  /\ Len(x.saved) \in Nat \ {0} /\ x.saved[1] \in Seq(Entries)
         /\ AllUndone(x) = [val |-> x.saved[1], saved |-> <<>>, rev |-> Oldest(x)]
<1>1. x.val \in Seq(Entries) /\ x.saved \in Seq(Seq(Entries)) /\ x.rev \in Nat
  BY DEF Table
<1>2. Len(x.saved) \in Nat \ {0} BY <1>1
<1>3. Head(x.saved) = x.saved[1] BY <1>1, <1>2
<1> QED BY <1>1, <1>2, <1>3 DEF AllUndone, Oldest

\* It leaves a table that is between two blocks, and one that it leaves alone.
LEMMA AllUndoneStrong ==
  ASSUME NEW x, Sane(x)
  PROVE  Strong(AllUndone(x)) /\ AllUndone(x).saved = <<>>
<1>1. x \in Table /\ x.val \in Seq(Entries) /\ x.saved \in Seq(Seq(Entries)) /\ x.rev \in Nat
  BY DEF Sane, Table
<1>2. CASE x.saved = <<>>
  BY <1>2 DEF AllUndone, Sane, Strong
<1>3. CASE x.saved # <<>>
  <2> DEFINE y == AllUndone(x)
             v == x.saved[1]
  <2>1. /\ Len(x.saved) \in Nat \ {0} /\ v \in Seq(Entries)
        /\ y = [val |-> v, saved |-> <<>>, rev |-> Oldest(x)]
    BY <1>1, <1>3, AllUndoneParts
  <2>2. 1 \in 1 .. Len(x.saved) BY <2>1
  <2>3. /\ Len(v) >= Oldest(x) + 1 - 1 /\ Len(v) <= MaxHeight
        /\ Oldest(x) >= 0 /\ x.rev <= MaxHeight /\ Oldest(x) = x.rev - Len(x.saved)
    BY <2>2, Zenon DEF Sane, Oldest
  <2> HIDE DEF y, v
  <2>4. /\ Len(v) \in Nat /\ Oldest(x) \in Nat /\ Oldest(x) <= Len(v) /\ Oldest(x) <= MaxHeight
    BY <1>1, <2>1, <2>3, TablesAssumption, LenProperties
  <2>5. y \in Table /\ Oldest(y) = Oldest(x)
    <3>1. <<>> \in Seq(Seq(Entries)) /\ Len(<<>>) = 0 OBVIOUS
    <3>2. y \in Table BY <2>1, <2>4, <3>1 DEF Table
    <3>3. y.rev = Oldest(x) /\ Len(y.saved) = 0 BY <2>1, <3>1
    <3>4. Oldest(y) = y.rev - Len(y.saved) BY DEF Oldest
    <3> QED BY <2>4, <3>2, <3>3, <3>4
  <2>6. y.val = v /\ y.saved = <<>> /\ y.rev = Oldest(x) /\ Len(y.saved) = 0 BY <2>1
  <2>7. \A i \in 1 .. Len(y.saved) : FALSE BY <2>6
  <2>8. Strong(y)
    BY <2>3, <2>4, <2>5, <2>6, <2>7 DEF Strong, Sane
  <2> QED BY <2>6, <2>8 DEF y
<1> QED BY <1>2, <1>3

\* The parts of a table after commit(): the oldest saved contents are gone, as
\* many as have a revision of at most r.
LEMMA CommittedParts ==
  ASSUME NEW x \in Table, NEW r \in Nat, Oldest(x) >= 0
  PROVE  \E k \in 0 .. Len(x.saved) :
           LET s == Committed(x, r).saved
           IN  /\ Committed(x, r) = [val |-> x.val, saved |-> s, rev |-> x.rev]
               /\ s = SubSeq(x.saved, k + 1, Len(x.saved))
               /\ s \in Seq(Seq(Entries)) /\ Len(s) = Len(x.saved) - k
               /\ \A i \in 1 .. Len(x.saved) - k : s[i] = x.saved[k + i]
               /\ k > 0 => Oldest(x) + k <= r
               /\ k < Len(x.saved) => Oldest(x) + k >= r
<1>1. x.val \in Seq(Entries) /\ x.saved \in Seq(Seq(Entries)) /\ x.rev \in Nat
  BY DEF Table
<1> DEFINE n == Len(x.saved)
           o == Oldest(x)
           old == {i \in DOMAIN x.saved : x.rev - Len(x.saved) + i <= r}
           k == IF r <= o THEN 0 ELSE IF r - o <= n THEN r - o ELSE n
<1>2. n \in Nat /\ o \in Nat /\ DOMAIN x.saved = 1 .. n /\ o = x.rev - n
  BY <1>1, LenProperties DEF Oldest
<1>3. old = {i \in 1 .. n : o + i <= r} BY <1>1, <1>2
<1> HIDE DEF n, o, old
<1>4. /\ k \in 0 .. n
      /\ k > 0 => o + k <= r
      /\ k < n => o + k >= r
  BY <1>2
<1>5. old = 1 .. k BY <1>2, <1>3
<1> HIDE DEF k
<1>6. Cardinality(old) = k BY <1>4, <1>5, <1>2, FS_Interval
<1> DEFINE s == SubSeq(x.saved, k + 1, n)
<1>7. Committed(x, r) = [x EXCEPT !.saved = s]
  BY <1>6 DEF Committed, old, n
<1>8. s \in Seq(Seq(Entries)) /\ Len(s) = n - k /\ \A i \in 1 .. n - k : s[i] = x.saved[k + i]
  <2>1. k + 1 \in 1 .. n + 1 /\ n \in Nat BY <1>2, <1>4
  <2>2. \A i \in k + 1 .. n : x.saved[i] \in Seq(Entries) BY <1>1, <1>4 DEF n
  <2> DEFINE S == Seq(Entries)
  <2>3. x.saved \in Seq(S) BY <1>1
  <2> HIDE DEF S
  <2>4. k + 1 \in Int /\ n \in Int /\ \A i \in k + 1 .. n : x.saved[i] \in S BY <2>1, <2>2 DEF S
  <2>5. PICK m \in Int : m = k + 1 BY <2>1
  <2>6. \A i \in m .. n : x.saved[i] \in S BY <2>4, <2>5
  <2>7. /\ s \in Seq(S) /\ Len(s) = IF m <= n THEN n - m + 1 ELSE 0
        /\ \A i \in 1 .. n - m + 1 : s[i] = x.saved[m + i - 1]
    <3>1. SubSeq(x.saved, m, n) = s BY <2>5
    <3>2. PICK q : q = x.saved OBVIOUS
    <3>3. \A i \in m .. n : q[i] \in S BY <2>6, <3>2
    <3>4. /\ SubSeq(q, m, n) \in Seq(S) /\ Len(SubSeq(q, m, n)) = IF m <= n THEN n - m + 1 ELSE 0
          /\ \A i \in 1 .. n - m + 1 : SubSeq(q, m, n)[i] = q[m + i - 1]
      BY <2>4, <3>3, SubSeqProperties
    <3> HIDE DEF s
    <3> QED BY <3>1, <3>2, <3>4
  <2> HIDE DEF s
  <2>8. (IF m <= n THEN n - m + 1 ELSE 0) = n - k /\ n - m + 1 = n - k /\ \A i \in 1 .. n - k : m + i - 1 = k + i
    BY <1>2, <1>4, <2>5
  <2> QED BY <2>7, <2>8 DEF S
<1> HIDE DEF s
<1>9. Committed(x, r) = [val |-> x.val, saved |-> s, rev |-> x.rev]
  BY <1>7, TableExcept
<1>10. Committed(x, r).saved = s BY <1>9
<1> QED BY <1>4, <1>8, <1>9, <1>10 DEF n, o, s

\* commit() of a table that is between two blocks.
LEMMA CommittedStrong ==
  ASSUME NEW x, Strong(x), NEW r \in Nat
  PROVE  Strong(Committed(x, r)) /\ Committed(x, r).val = x.val /\ Committed(x, r).rev = x.rev
<1>1. x \in Table /\ x.val \in Seq(Entries) /\ x.saved \in Seq(Seq(Entries)) /\ x.rev \in Nat
  BY DEF Strong, Sane, Table
<1> DEFINE n == Len(x.saved)
           y == Committed(x, r)
<1>2. /\ Oldest(x) >= 0 /\ Oldest(x) = x.rev - n /\ n \in Nat
      /\ x.rev <= MaxHeight /\ Len(x.val) <= MaxHeight /\ x.rev <= Len(x.val)
      /\ \A i \in 1 .. n : Len(x.saved[i]) >= Oldest(x) + i - 1 /\ Len(x.saved[i]) <= MaxHeight
  BY <1>1, LenProperties, Zenon DEF Strong, Sane, Oldest
<1>3. PICK k \in 0 .. n :
        /\ y = [val |-> x.val, saved |-> y.saved, rev |-> x.rev]
        /\ y.saved \in Seq(Seq(Entries)) /\ Len(y.saved) = n - k
        /\ \A i \in 1 .. n - k : y.saved[i] = x.saved[k + i]
  BY <1>1, <1>2, CommittedParts
<1> HIDE DEF n, y
<1>4. y.val = x.val /\ y.rev = x.rev BY <1>3
<1>5. y \in Table BY <1>1, <1>3 DEF Table
<1>6. Oldest(y) = Oldest(x) + k BY <1>1, <1>2, <1>3, <1>4, SMT DEF Oldest
<1>7. \A i \in 1 .. Len(y.saved) :
        Len(y.saved[i]) >= Oldest(y) + i - 1 /\ Len(y.saved[i]) <= MaxHeight
  <2> TAKE i \in 1 .. Len(y.saved)
  <2>1. k + i \in 1 .. n /\ y.saved[i] = x.saved[k + i] BY <1>2, <1>3
  <2>2. Len(y.saved[i]) >= Oldest(x) + (k + i) - 1 /\ Len(y.saved[i]) <= MaxHeight BY <1>2, <2>1
  <2>3. Oldest(x) + (k + i) - 1 = Oldest(x) + k + i - 1 BY <1>1, <1>2, <1>3
  <2> QED BY <1>6, <2>2, <2>3
<1>8. Oldest(y) >= 0 BY <1>1, <1>2, <1>3, <1>6
<1>9. Strong(y) BY <1>2, <1>4, <1>5, <1>7, <1>8 DEF Strong, Sane
<1> QED BY <1>4, <1>9 DEF y

\* Lengths in a table that is at its revision.
LEMMA ExactFacts ==
  ASSUME NEW x, NEW missing, Exact(x, missing)
  PROVE  /\ x \in Table /\ x.val \in Seq(Entries) /\ x.saved \in Seq(Seq(Entries)) /\ x.rev \in Nat
         /\ Len(x.saved) \in Nat /\ Len(x.val) \in Nat
         /\ Oldest(x) = x.rev - Len(x.saved) /\ Oldest(x) \in Nat
         /\ x.rev = Len(x.val) + missing
         /\ \A i \in 1 .. Len(x.saved) : Len(x.saved[i]) = Oldest(x) + i - 1
<1>1. /\ x \in Table /\ x.val \in Seq(Entries) /\ x.saved \in Seq(Seq(Entries)) /\ x.rev \in Nat
      /\ Len(x.saved) \in Nat /\ Len(x.val) \in Nat
      /\ Oldest(x) = x.rev - Len(x.saved) /\ Oldest(x) >= 0
      /\ x.rev = Len(x.val) + missing
      /\ \A i \in 1 .. Len(x.saved) : Len(x.saved[i]) = Oldest(x) + i - 1
  BY LenProperties, Zenon DEF Exact, Table, Oldest
<1>2. Oldest(x) \in Nat BY <1>1
<1> QED BY <1>1, <1>2

\* A session that starts in a table at its revision awaits one block ...
LEMMA StartedExact ==
  ASSUME NEW x, Exact(x, 0)
  PROVE  Exact(Started(x), 1) /\ Started(x).saved # <<>>
<1>1. x \in Table /\ x.val \in Seq(Entries) /\ x.saved \in Seq(Seq(Entries))
  BY ExactFacts
<1>num. /\ x.rev \in Nat /\ Len(x.saved) \in Nat /\ Len(x.val) \in Nat
        /\ Oldest(x) = x.rev - Len(x.saved) /\ Oldest(x) \in Nat /\ x.rev = Len(x.val) + 0
  BY ExactFacts
<1>each. \A i \in 1 .. Len(x.saved) : Len(x.saved[i]) = Oldest(x) + i - 1
  BY ExactFacts
<1> DEFINE s == Append(x.saved, x.val)
           y == Started(x)
<1>2. /\ s \in Seq(Seq(Entries)) /\ Len(s) = Len(x.saved) + 1 /\ s # <<>>
      /\ \A i \in 1 .. Len(x.saved) : s[i] = x.saved[i]
      /\ s[Len(x.saved) + 1] = x.val
  BY <1>1, <1>num, AppendProperties
<1>3. y = [val |-> x.val, saved |-> s, rev |-> x.rev + 1]
  BY DEF Started
<1> HIDE DEF s, y
<1>len. Len(s) = Len(x.saved) + 1 BY <1>2
<1>4. y \in Table /\ y.val = x.val /\ y.saved = s /\ y.rev = x.rev + 1
  BY <1>1, <1>num, <1>2, <1>3 DEF Table
<1>base. Oldest(y) = y.rev - Len(s) BY <1>4 DEF Oldest
<1>5. Oldest(y) = Oldest(x)
  BY <1>num, <1>len, <1>4, <1>base
<1>6. \A i \in 1 .. Len(s) : Len(s[i]) = Oldest(x) + i - 1
  <2> TAKE i \in 1 .. Len(s)
  <2>1. CASE i \in 1 .. Len(x.saved) BY <1>each, <1>2, <2>1
  <2>2. CASE i = Len(x.saved) + 1
    <3>1. s[i] = x.val BY <1>2, <2>2
    <3> QED BY <1>num, <2>2, <3>1
  <2>3. i \in 1 .. Len(x.saved) \/ i = Len(x.saved) + 1 BY <1>num, <1>len
  <2> QED BY <2>1, <2>2, <2>3
<1>7. Oldest(y) >= 0 /\ y.rev = Len(y.val) + 1 BY <1>num, <1>4, <1>5
<1> QED BY <1>2, <1>4, <1>5, <1>6, <1>7 DEF Exact, y

\* ... which the change brings.
LEMMA ChangedExact ==
  ASSUME NEW x, Exact(x, 1), NEW b \in Entries
  PROVE  Exact(Changed(x, b), 0)
<1>1. x \in Table /\ x.val \in Seq(Entries) /\ x.saved \in Seq(Seq(Entries))
  BY ExactFacts
<1>num. /\ x.rev \in Nat /\ Len(x.saved) \in Nat /\ Len(x.val) \in Nat
        /\ Oldest(x) = x.rev - Len(x.saved) /\ Oldest(x) \in Nat /\ x.rev = Len(x.val) + 1
  BY ExactFacts
<1>each. \A i \in 1 .. Len(x.saved) : Len(x.saved[i]) = Oldest(x) + i - 1
  BY ExactFacts
<1> DEFINE v == Append(x.val, b)
           y == Changed(x, b)
<1>2. v \in Seq(Entries) /\ Len(v) = Len(x.val) + 1 BY <1>1
<1>3. y = [val |-> v, saved |-> x.saved, rev |-> x.rev] BY <1>1, TableExcept, Zenon DEF Changed
<1> HIDE DEF v, y
<1>4. y \in Table /\ y.val = v /\ y.saved = x.saved /\ y.rev = x.rev
  BY <1>1, <1>num, <1>2, <1>3 DEF Table
<1>5. Oldest(y) = Oldest(x) BY <1>4 DEF Oldest
<1>6. Oldest(y) >= 0 /\ y.rev = Len(y.val) + 0 BY <1>num, <1>2, <1>4, <1>5
<1> QED BY <1>each, <1>4, <1>5, <1>6 DEF Exact, y

\* undo() goes back to the block before, or to the one whose session is open.
LEMMA UndoneExact ==
  ASSUME NEW x, NEW missing \in {0, 1}, Exact(x, missing), missing = 1 => x.saved # <<>>
  PROVE  Exact(Undone(x), 0)
<1>1. x \in Table /\ x.val \in Seq(Entries) /\ x.saved \in Seq(Seq(Entries))
  BY ExactFacts
<1>num. /\ x.rev \in Nat /\ Len(x.saved) \in Nat /\ Len(x.val) \in Nat
        /\ Oldest(x) = x.rev - Len(x.saved) /\ Oldest(x) \in Nat /\ x.rev = Len(x.val) + missing
  BY ExactFacts
<1>each. \A i \in 1 .. Len(x.saved) : Len(x.saved[i]) = Oldest(x) + i - 1
  BY ExactFacts
<1>2. CASE x.saved = <<>>
  <2>1. missing = 0 BY <1>2
  <2> QED BY <1>2, <2>1 DEF Undone
<1>3. CASE x.saved # <<>>
  <2> DEFINE y == Undone(x)
             n == Len(x.saved)
  <2>1. /\ n \in Nat \ {0}
        /\ y = [val |-> x.saved[n], saved |-> y.saved, rev |-> x.rev - 1]
        /\ y.saved \in Seq(Seq(Entries)) /\ Len(y.saved) = n - 1
        /\ \A i \in 1 .. n - 1 : y.saved[i] = x.saved[i]
        /\ x.saved[n] \in Seq(Entries)
    BY <1>1, <1>3, UndoneParts
  <2>2. Oldest(x) = x.rev - n /\ \A i \in 1 .. n : Len(x.saved[i]) = Oldest(x) + i - 1
    BY <1>num, <1>each
  <2> HIDE DEF y, n
  <2>num. n \in Nat /\ n > 0 /\ Len(y.saved) = n - 1 /\ Oldest(x) = x.rev - n BY <2>1, <2>2
  <2>3. x.rev - 1 \in Nat
    <3>1. x.rev \in Nat /\ n \in Nat /\ n > 0 BY <1>num, <2>num
    <3>2. x.rev - n \in Nat BY <1>num, <2>num, Zenon
    <3> QED BY <3>1, <3>2
  <2>4. y \in Table /\ y.val = x.saved[n] /\ y.rev = x.rev - 1 BY <2>1, <2>3 DEF Table
  <2>base. Oldest(y) = y.rev - Len(y.saved) BY DEF Oldest
  <2>5. Oldest(y) = Oldest(x)
    <3>1. x.rev \in Nat /\ n \in Nat BY <1>num, <2>num
    <3>2. Oldest(y) = (x.rev - 1) - (n - 1) BY <2>num, <2>4, <2>base, Zenon
    <3>3. (x.rev - 1) - (n - 1) = x.rev - n BY <3>1
    <3> QED BY <2>num, <3>2, <3>3, Zenon
  <2>6. Len(y.val) = y.rev
    <3>1. n \in 1 .. n BY <2>num
    <3>2. Len(x.saved[n]) = Oldest(x) + n - 1 BY <2>2, <3>1
    <3> QED BY <1>num, <2>num, <2>4, <3>2
  <2>7. \A i \in 1 .. Len(y.saved) : Len(y.saved[i]) = Oldest(y) + i - 1
    <3> TAKE i \in 1 .. Len(y.saved)
    <3>1. i \in 1 .. n - 1 /\ i \in 1 .. n BY <2>num
    <3>2. y.saved[i] = x.saved[i] BY <2>1, <3>1
    <3> QED BY <2>2, <2>5, <3>1, <3>2
  <2>8. y.rev = Len(y.val) + 0 /\ Oldest(y) >= 0 BY <1>num, <2>3, <2>4, <2>5, <2>6
  <2> QED BY <2>4, <2>7, <2>8 DEF Exact, y
<1> QED BY <1>2, <1>3

\* commit() changes nothing, or the oldest content is then that of block r.
LEMMA CommittedExact ==
  ASSUME NEW x, Exact(x, 0), NEW r \in Nat, r <= x.rev
  PROVE  /\ Exact(Committed(x, r), 0)
         /\ Committed(x, r) = x \/ (r > 0 /\ Len(AllUndone(Committed(x, r)).val) = r)
<1> DEFINE n == Len(x.saved)
           y == Committed(x, r)
<1>1. x \in Table /\ x.val \in Seq(Entries) /\ x.saved \in Seq(Seq(Entries))
  BY ExactFacts
<1>num. /\ x.rev \in Nat /\ n \in Nat /\ Len(x.val) \in Nat
        /\ Oldest(x) = x.rev - n /\ Oldest(x) \in Nat /\ x.rev = Len(x.val)
  BY ExactFacts
<1>each. \A i \in 1 .. n : Len(x.saved[i]) = Oldest(x) + i - 1
  BY ExactFacts
<1>2. PICK k \in 0 .. n :
        /\ y = [val |-> x.val, saved |-> y.saved, rev |-> x.rev]
        /\ y.saved = SubSeq(x.saved, k + 1, n)
        /\ y.saved \in Seq(Seq(Entries)) /\ Len(y.saved) = n - k
        /\ \A i \in 1 .. n - k : y.saved[i] = x.saved[k + i]
        /\ k > 0 => Oldest(x) + k <= r
        /\ k < n => Oldest(x) + k >= r
  <2>1. Oldest(x) >= 0 BY <1>num
  <2> QED BY <1>1, <2>1, CommittedParts
<1>3. k = 0 => y.saved = x.saved
  <2> DEFINE S == Seq(Entries)
  <2>1. x.saved \in Seq(S) BY <1>1
  <2> HIDE DEF S
  <2>2. SubSeq(x.saved, 1, Len(x.saved)) = x.saved BY <2>1
  <2> QED BY <1>2, <2>2
<1> HIDE DEF n, y
<1>cut. /\ k \in 0 .. n /\ Len(y.saved) = n - k
        /\ k > 0 => Oldest(x) + k <= r
        /\ k < n => Oldest(x) + k >= r
  BY <1>2
<1>4. y.val = x.val /\ y.rev = x.rev /\ y \in Table
  <2>1. y = [val |-> x.val, saved |-> y.saved, rev |-> x.rev] /\ y.saved \in Seq(Seq(Entries)) BY <1>2
  <2>2. x.rev \in Nat BY <1>num
  <2> QED BY <1>1, <2>1, <2>2 DEF Table
<1>base. Oldest(y) = y.rev - Len(y.saved) BY DEF Oldest
<1>5. Oldest(y) = Oldest(x) + k BY <1>num, <1>cut, <1>4, <1>base
<1>6. \A i \in 1 .. Len(y.saved) : Len(y.saved[i]) = Oldest(y) + i - 1
  <2> TAKE i \in 1 .. Len(y.saved)
  <2>0. k + i \in 1 .. n /\ i \in 1 .. n - k BY <1>num, <1>cut
  <2>1. y.saved[i] = x.saved[k + i] BY <1>2, <2>0
  <2>2. Len(y.saved[i]) = Oldest(x) + (k + i) - 1 BY <1>each, <2>0, <2>1
  <2>3. Oldest(x) + (k + i) - 1 = Oldest(x) + k + i - 1
    <3>1. Oldest(x) \in Nat BY <1>num
    <3> QED BY <2>0, <3>1
  <2> QED BY <1>5, <2>2, <2>3
<1>7. Exact(y, 0)
  <2>1. Oldest(y) >= 0 /\ y.rev = Len(y.val) + 0 BY <1>num, <1>cut, <1>4, <1>5
  <2> QED BY <1>4, <1>6, <2>1 DEF Exact
<1>8. CASE k = 0
  <2>1. y = [val |-> x.val, saved |-> x.saved, rev |-> x.rev] BY <1>2, <1>3, <1>8
  <2>2. y = x BY <1>1, <2>1, TableExcept
  <2> QED BY <1>7, <2>2 DEF y
<1>9. CASE k > 0 /\ k < n
  <2>1. Oldest(x) + k = r /\ r > 0 BY <1>num, <1>cut, <1>9
  <2>2. Len(y.saved) > 0 BY <1>num, <1>cut, <1>9
  <2>some. y.saved # <<>> BY <2>2
  <2>3. AllUndone(y).val = y.saved[1] BY <1>4, <2>some, AllUndoneParts
  <2>4. 1 \in 1 .. Len(y.saved) BY <1>num, <1>cut, <1>9
  <2>5. Len(y.saved[1]) = Oldest(y) + 1 - 1 BY <1>6, <2>4
  <2>6. Len(AllUndone(y).val) = r
    <3>1. Len(y.saved[1]) = r + 1 - 1 BY <1>5, <2>1, <2>5, Zenon
    <3> QED BY <2>3, <3>1
  <2> QED BY <1>7, <2>1, <2>6 DEF y
<1>10. CASE k > 0 /\ k = n
  <2>1. x.rev = r /\ r > 0 BY <1>num, <1>cut, <1>10
  <2>len. Len(y.saved) = 0 BY <1>num, <1>cut, <1>10
  <2>2. y.saved = <<>> BY <1>2, <2>len, EmptySeq
  <2>3. AllUndone(y).val = x.val BY <1>4, <2>2 DEF AllUndone
  <2>4. Len(x.val) = r BY <1>num, <2>1
  <2> QED BY <1>7, <2>1, <2>3, <2>4 DEF y
<1> QED BY <1>num, <1>cut, <1>8, <1>9, <1>10

\* undo_all() finds the same content before and after a session is started, a
\* change is made in it, and it is undone.
LEMMA AllUndoneSame ==
  ASSUME NEW x \in Table, NEW b \in Entries
  PROVE  /\ AllUndone(Started(x)) = AllUndone(x)
         /\ x.saved # <<>> => AllUndone(Changed(x, b)) = AllUndone(x)
         /\ x.saved # <<>> => Undone(Changed(x, b)) = Undone(x)
<1>1. x.val \in Seq(Entries) /\ x.saved \in Seq(Seq(Entries)) /\ x.rev \in Nat /\ Len(x.saved) \in Nat
  BY LenProperties DEF Table
<1>2. AllUndone(Started(x)) = AllUndone(x)
  <2> DEFINE s == Append(x.saved, x.val)
             y == Started(x)
  <2>1. /\ s \in Seq(Seq(Entries)) /\ Len(s) = Len(x.saved) + 1 /\ s # <<>>
        /\ \A i \in 1 .. Len(x.saved) : s[i] = x.saved[i]
        /\ s[Len(x.saved) + 1] = x.val
    BY <1>1, AppendProperties, LenProperties
  <2>2. y = [val |-> x.val, saved |-> s, rev |-> x.rev + 1] BY DEF Started
  <2> HIDE DEF s, y
  <2>3. y \in Table /\ y.saved = s /\ y.rev = x.rev + 1 BY <1>1, <2>1, <2>2 DEF Table
  <2>4. AllUndone(y) = [val |-> s[1], saved |-> <<>>, rev |-> Oldest(y)]
    BY <2>1, <2>3, AllUndoneParts
  <2>len. Len(s) = Len(x.saved) + 1 /\ x.rev \in Nat /\ Len(x.saved) \in Nat BY <1>1, <2>1
  <2>base. Oldest(y) = y.rev - Len(s) BY <2>3 DEF Oldest
  <2>5. Oldest(y) = x.rev - Len(x.saved) BY <2>len, <2>base, <2>3
  <2>6. CASE x.saved = <<>>
    <3>1. Len(x.saved) = 0 BY <2>6
    <3>2. s[1] = x.val /\ Oldest(y) = x.rev BY <1>1, <2>1, <2>5, <3>1
    <3>3. x = [val |-> x.val, saved |-> x.saved, rev |-> x.rev] BY TableExcept
    <3> QED BY <2>4, <2>6, <3>2, <3>3 DEF AllUndone, y
  <2>7. CASE x.saved # <<>>
    <3>1. Len(x.saved) \in Nat \ {0} /\ AllUndone(x) = [val |-> x.saved[1], saved |-> <<>>, rev |-> Oldest(x)]
      BY <2>7, AllUndoneParts
    <3>2. s[1] = x.saved[1] BY <2>1, <3>1
    <3> QED BY <2>4, <2>5, <3>1, <3>2 DEF y, Oldest
  <2> QED BY <2>6, <2>7
<1>3. ASSUME x.saved # <<>>
      PROVE  AllUndone(Changed(x, b)) = AllUndone(x) /\ Undone(Changed(x, b)) = Undone(x)
  <2>1. Changed(x, b) = [val |-> Append(x.val, b), saved |-> x.saved, rev |-> x.rev]
    BY TableExcept, Zenon DEF Changed
  <2>2. Changed(x, b).saved = x.saved /\ Changed(x, b).rev = x.rev BY <2>1
  <2> QED BY <1>3, <2>2 DEF AllUndone, Undone
<1> QED BY <1>2, <1>3

\* ... before and after an undo, and after undo_all() itself.
LEMMA AllUndoneAgain ==
  ASSUME NEW x \in Table
  PROVE  AllUndone(Undone(x)) = AllUndone(x) /\ AllUndone(AllUndone(x)) = AllUndone(x)
<1>1. CASE x.saved = <<>> BY <1>1 DEF Undone, AllUndone
<1>2. CASE x.saved # <<>>
  <2> DEFINE y == Undone(x)
             n == Len(x.saved)
  <2>0. x.rev \in Nat BY DEF Table
  <2>1. /\ n \in Nat \ {0}
        /\ y = [val |-> x.saved[n], saved |-> y.saved, rev |-> x.rev - 1]
        /\ y.saved \in Seq(Seq(Entries)) /\ Len(y.saved) = n - 1
        /\ \A i \in 1 .. n - 1 : y.saved[i] = x.saved[i]
        /\ x.saved[n] \in Seq(Entries)
    BY <1>2, UndoneParts
  <2>2. AllUndone(x) = [val |-> x.saved[1], saved |-> <<>>, rev |-> Oldest(x)]
    BY <1>2, AllUndoneParts
  <2>3. Oldest(x) = x.rev - n BY DEF Oldest
  <2>4. AllUndone(AllUndone(x)) = AllUndone(x)
    <3>1. AllUndone(x).saved = <<>> BY <2>2
    <3> QED BY <3>1 DEF AllUndone
  <2> HIDE DEF y, n
  <2>5. CASE n = 1
    <3>1. y.saved = <<>> BY <2>1, <2>5, EmptySeq
    <3>2. AllUndone(y) = y BY <3>1 DEF AllUndone
    <3>3. y = [val |-> x.saved[1], saved |-> <<>>, rev |-> x.rev - 1] BY <2>1, <2>5, <3>1
    <3> QED BY <2>2, <2>3, <2>4, <2>5, <3>2, <3>3 DEF y
  <2>6. CASE n > 1
    <3>len. Len(y.saved) = n - 1 /\ n \in Nat BY <2>1
    <3>some. Len(y.saved) > 0 /\ 1 \in 1 .. n - 1 BY <2>6, <3>len
    <3>1. y.saved # <<>> /\ y.saved[1] = x.saved[1] /\ y.rev = x.rev - 1 BY <2>1, <3>some
    <3>2. y.rev - Len(y.saved) = x.rev - n BY <2>0, <2>1, <3>1
    <3>3. Head(y.saved) = y.saved[1] BY <2>1, <3>1
    <3>4. AllUndone(y) = [val |-> y.saved[1], saved |-> <<>>, rev |-> x.rev - n]
      BY <3>1, <3>2, <3>3 DEF AllUndone
    <3> QED BY <2>2, <2>3, <2>4, <3>1, <3>4 DEF y
  <2> QED BY <2>1, <2>5, <2>6
<1> QED BY <1>1, <1>2

\* Where no block is missing, or the last one has its first part only.
LEMMA StartedSettled ==
  ASSUME NEW x, Settled(x)
  PROVE  Opened(Started(x)) /\ Started(x).saved # <<>>
<1>1. /\ x.val \in Seq(Entries) /\ x.saved \in Seq(Seq(Entries)) /\ Len(x.saved) \in Nat
  BY ExactFacts DEF Settled
<1>2. Exact(Started(x), 1) /\ Started(x).saved # <<>> BY StartedExact DEF Settled
<1>3. Started(x).val = x.val /\ Started(x).saved = Append(x.saved, x.val) BY DEF Started
<1> DEFINE s == Append(x.saved, x.val)
<1>4. /\ Len(s) = Len(x.saved) + 1 /\ s[Len(x.saved) + 1] = x.val
      /\ \A i \in 1 .. Len(x.saved) : s[i] = x.saved[i]
  BY <1>1, AppendProperties
<1> HIDE DEF s
<1>5. \A i \in 1 .. Len(s) : AllWhole(s[i])
  <2> TAKE i \in 1 .. Len(s)
  <2>1. i \in 1 .. Len(x.saved) \/ i = Len(x.saved) + 1 BY <1>1, <1>4
  <2>2. CASE i \in 1 .. Len(x.saved) BY <1>4, <2>2 DEF Settled, Kept
  <2>3. CASE i = Len(x.saved) + 1 BY <1>4, <2>3 DEF Settled
  <2> QED BY <2>1, <2>2, <2>3
<1>6. Kept(Started(x)) BY <1>3, <1>5 DEF Kept, s
<1>7. AllWhole(Started(x).val) BY <1>3 DEF Settled
<1> QED BY <1>2, <1>6, <1>7 DEF Opened

LEMMA ChangedBegun ==
  ASSUME NEW x, Opened(x), NEW b \in Entries
  PROVE  Begun(Changed(x, b)) /\ Changed(x, b).saved = x.saved
<1>1. /\ x \in Table /\ x.val \in Seq(Entries) /\ Len(x.val) \in Nat /\ x.rev = Len(x.val) + 1
  BY ExactFacts DEF Opened
<1>2. Exact(Changed(x, b), 0) BY ChangedExact DEF Opened
<1>3. Changed(x, b) = [val |-> Append(x.val, b), saved |-> x.saved, rev |-> x.rev]
  BY <1>1, TableExcept, Zenon DEF Changed
<1>4. /\ Changed(x, b).val = Append(x.val, b) /\ Changed(x, b).saved = x.saved
      /\ Changed(x, b).rev = x.rev
  BY <1>3
<1>5. /\ Len(Append(x.val, b)) = Len(x.val) + 1
      /\ \A i \in 1 .. Len(x.val) : Append(x.val, b)[i] = x.val[i]
  BY <1>1, AppendProperties
<1>6. \A i \in 1 .. Len(Append(x.val, b)) - 1 : Append(x.val, b)[i].whole
  <2> TAKE i \in 1 .. Len(Append(x.val, b)) - 1
  <2>1. i \in 1 .. Len(x.val) BY <1>1, <1>5
  <2> QED BY <1>5, <2>1 DEF Opened, AllWhole
<1>7. x.rev > 0 BY <1>1
<1> QED BY <1>2, <1>4, <1>6, <1>7 DEF Begun, Opened, Kept

LEMMA CommittedBegun ==
  ASSUME NEW x, Begun(x), NEW r \in Nat, r <= x.rev
  PROVE  Begun(Committed(x, r))
<1> DEFINE n == Len(x.saved)
           y == Committed(x, r)
<1>1. x \in Table /\ n \in Nat /\ Oldest(x) >= 0 BY ExactFacts DEF Begun
<1>2. PICK k \in 0 .. n :
        /\ y = [val |-> x.val, saved |-> y.saved, rev |-> x.rev]
        /\ Len(y.saved) = n - k
        /\ \A i \in 1 .. n - k : y.saved[i] = x.saved[k + i]
  BY <1>1, CommittedParts
<1>3. Exact(y, 0) BY CommittedExact DEF Begun
<1> HIDE DEF n, y
<1>4. y.val = x.val /\ y.rev = x.rev BY <1>2
<1>5. \A i \in 1 .. Len(y.saved) : AllWhole(y.saved[i])
  <2> TAKE i \in 1 .. Len(y.saved)
  <2>1. Len(y.saved) = n - k BY <1>2
  <2>2. i \in 1 .. n - k /\ k + i \in 1 .. n BY <1>1, <2>1
  <2>3. y.saved[i] = x.saved[k + i] BY <1>2, <2>2
  <2>4. AllWhole(x.saved[k + i]) BY <2>2 DEF Begun, Kept, n
  <2> QED BY <2>3, <2>4
<1> QED BY <1>3, <1>4, <1>5 DEF Begun, Kept, y

LEMMA FinishedSettled ==
  ASSUME NEW x, Begun(x)
  PROVE  Settled(Finished(x))
<1>1. x \in Table /\ Len(x.val) \in Nat /\ x.rev = Len(x.val) + 0 BY ExactFacts DEF Begun
<1> DEFINE y == Finished(x)
           n == Len(x.val)
<1>2. /\ y \in Table /\ y.saved = x.saved /\ y.rev = x.rev /\ Len(y.val) = n
      /\ \A i \in 1 .. n : IF i = n THEN y.val[i].whole ELSE y.val[i] = x.val[i]
  BY <1>1, FinishedParts
<1>3. n \in Nat BY <1>1
<1> HIDE DEF y
<1>4. \A i \in 1 .. n : y.val[i].whole
  <2> TAKE i \in 1 .. n
  <2>1. CASE i = n BY <1>2, <2>1
  <2>2. CASE i # n
    <3>1. i \in 1 .. n - 1 BY <1>3, <2>2
    <3>2. x.val[i].whole BY <3>1 DEF Begun
    <3> QED BY <1>2, <2>2, <3>2
  <2> QED BY <2>1, <2>2
<1>5. Oldest(y) = Oldest(x) BY <1>2 DEF Oldest
<1>6. Exact(y, 0) BY <1>2, <1>5 DEF Begun, Exact
<1> QED BY <1>2, <1>4, <1>6 DEF Begun, Settled, Kept, AllWhole, y

\* undo() and undo_all() go back to contents without a block in part.
LEMMA UndoneSettled ==
  ASSUME NEW x, Settled(x) \/ (x.saved # <<>> /\ (Opened(x) \/ Begun(x)))
  PROVE  Settled(Undone(x)) /\ AllWhole(AllUndone(x).val)
<1>1. x \in Table /\ Kept(x)
  <2>1. CASE Settled(x) BY <2>1, ExactFacts DEF Settled
  <2>2. CASE Opened(x) BY <2>2, ExactFacts DEF Opened
  <2>3. CASE Begun(x) BY <2>3, ExactFacts DEF Begun
  <2> QED BY <2>1, <2>2, <2>3
<1>2. Exact(Undone(x), 0)
  <2>1. CASE Settled(x) BY <2>1, UndoneExact DEF Settled
  <2>2. CASE x.saved # <<>> /\ Opened(x) BY <2>2, UndoneExact DEF Opened
  <2>3. CASE x.saved # <<>> /\ Begun(x) BY <2>3, UndoneExact DEF Begun
  <2> QED BY <2>1, <2>2, <2>3
<1>3. CASE x.saved = <<>>
  <2>1. Settled(x) BY <1>3
  <2> QED BY <1>3, <2>1 DEF Undone, AllUndone, Settled
<1>4. CASE x.saved # <<>>
  <2> DEFINE n == Len(x.saved)
             y == Undone(x)
  <2>1. /\ n \in Nat \ {0} /\ y = [val |-> x.saved[n], saved |-> y.saved, rev |-> x.rev - 1]
        /\ Len(y.saved) = n - 1 /\ \A i \in 1 .. n - 1 : y.saved[i] = x.saved[i]
    BY <1>1, <1>4, UndoneParts
  <2>2. AllUndone(x) = [val |-> x.saved[1], saved |-> <<>>, rev |-> Oldest(x)]
    BY <1>1, <1>4, AllUndoneParts
  <2>3. AllUndone(x).val = x.saved[1] BY <2>2
  <2> HIDE DEF y
  <2>4. y.val = x.saved[n] BY <2>1
  <2>5. n \in 1 .. n /\ 1 \in 1 .. n BY <2>1
  <2>6. AllWhole(y.val) /\ AllWhole(AllUndone(x).val) BY <1>1, <2>3, <2>4, <2>5 DEF Kept
  <2>7. Kept(y)
    <3>1. \A i \in 1 .. Len(y.saved) : i \in 1 .. n /\ y.saved[i] = x.saved[i] BY <2>1
    <3> QED BY <1>1, <3>1 DEF Kept
  <2> QED BY <1>2, <2>6, <2>7 DEF Settled, y
<1> QED BY <1>3, <1>4

\* A session that is open hides the last part of its block from both.
LEMMA FinishedUndone ==
  ASSUME NEW x \in Table, x.saved # <<>>
  PROVE  Undone(Finished(x)) = Undone(x) /\ AllUndone(Finished(x)) = AllUndone(x)
<1>1. Finished(x).saved = x.saved /\ Finished(x).rev = x.rev BY FinishedParts
<1> QED BY <1>1 DEF Undone, AllUndone

----------------------------------------------------------------------------
(* A loop over the tables *)

\* The stages that a call begins with.
LEMMA StageFacts ==
  ASSUME NEW do \in Dos, NEW arg \in Nat \cup Entries
  PROVE  /\ Stage(do, arg) \in Stages
         /\ Stage(do, arg) = [do |-> do, arg |-> arg, left |-> Tables]
         /\ Tables # {} /\ 1 \in Tables
BY TablesAssumption DEF Stage, Stages, Tables

\* A list of up to five stages, its first and the rest.
LEMMA QueueFacts ==
  ASSUME NEW a \in Stages, NEW b \in Stages, NEW c \in Stages, NEW d \in Stages,
         NEW e \in Stages
  PROVE  /\ <<a>> \in Seq(Stages) /\ <<a>> # <<>> /\ Head(<<a>>) = a /\ Tail(<<a>>) = <<>>
         /\ <<a, b>> \in Seq(Stages) /\ <<a, b>> # <<>>
         /\ Head(<<a, b>>) = a /\ Tail(<<a, b>>) = <<b>>
         /\ <<a, b, c>> \in Seq(Stages) /\ <<a, b, c>> # <<>>
         /\ Head(<<a, b, c>>) = a /\ Tail(<<a, b, c>>) = <<b, c>>
         /\ <<a, b, c, d>> \in Seq(Stages) /\ <<a, b, c, d>> # <<>>
         /\ Head(<<a, b, c, d>>) = a /\ Tail(<<a, b, c, d>>) = <<b, c, d>>
         /\ <<a, b, c, d, e>> \in Seq(Stages) /\ <<a, b, c, d, e>> # <<>>
         /\ Head(<<a, b, c, d, e>>) = a /\ Tail(<<a, b, c, d, e>>) = <<b, c, d, e>>
<1> HIDE DEF Stages
<1>1. <<a>> \in Seq(Stages) /\ <<a>> # <<>> /\ Head(<<a>>) = a /\ Tail(<<a>>) = <<>>
  OBVIOUS
<1>2. /\ <<a, b>> \in Seq(Stages) /\ <<a, b>> # <<>>
      /\ Head(<<a, b>>) = a /\ Tail(<<a, b>>) = <<b>>
  OBVIOUS
<1>3. /\ <<a, b, c>> \in Seq(Stages) /\ <<a, b, c>> # <<>>
      /\ Head(<<a, b, c>>) = a /\ Tail(<<a, b, c>>) = <<b, c>>
  OBVIOUS
<1>4. /\ <<a, b, c, d>> \in Seq(Stages) /\ <<a, b, c, d>> # <<>>
      /\ Head(<<a, b, c, d>>) = a /\ Tail(<<a, b, c, d>>) = <<b, c, d>>
  OBVIOUS
<1>5. /\ <<a, b, c, d, e>> \in Seq(Stages) /\ <<a, b, c, d, e>> # <<>>
      /\ Head(<<a, b, c, d, e>>) = a /\ Tail(<<a, b, c, d, e>>) = <<b, c, d, e>>
  OBVIOUS
<1> QED BY <1>1, <1>2, <1>3, <1>4, <1>5

\* A stage with other tables left.
LEMMA StageExcept ==
  ASSUME NEW A, NEW L, NEW h \in [do : Dos, arg : A, left : L], NEW l
  PROVE  [h EXCEPT !.left = l] = [do |-> h.do, arg |-> h.arg, left |-> l]
<1> HIDE DEF Dos
<1> QED OBVIOUS

\* What remains of a list of stages when the first is done for table t.
LEMMA WorkStep ==
  ASSUME NEW wk \in Seq(Stages), wk # <<>>, NEW t
  PROVE  LET w == [wk EXCEPT ![1].left = @ \ {t}]
         IN  /\ w \in Seq(Stages) /\ w # <<>> /\ Len(w) = Len(wk)
             /\ Head(wk) = wk[1] /\ Head(wk) \in Stages
             /\ Head(w) = w[1]
             /\ w[1] = [do |-> wk[1].do, arg |-> wk[1].arg, left |-> wk[1].left \ {t}]
             /\ \A i \in 2 .. Len(wk) : w[i] = wk[i]
             /\ Tail(w) = Tail(wk)
<1> DEFINE s == [wk[1] EXCEPT !.left = @ \ {t}]
           w == [wk EXCEPT ![1] = s]
           n == Len(wk)
<1>1. n \in Nat \ {0} /\ wk[1] \in Stages /\ Head(wk) = wk[1] /\ DOMAIN wk = 1 .. n BY LenProperties
<1>2. s = [do |-> wk[1].do, arg |-> wk[1].arg, left |-> wk[1].left \ {t}] /\ s \in Stages
  <2> DEFINE A == Nat \cup Entries
             L == SUBSET Tables
  <2>1. wk[1] \in [do : Dos, arg : A, left : L] BY <1>1 DEF Stages
  <2>2. wk[1].left \ {t} \in L BY <2>1
  <2> HIDE DEF A, L, Dos
  <2>3. s = [do |-> wk[1].do, arg |-> wk[1].arg, left |-> wk[1].left \ {t}]
    BY <2>1, StageExcept, Zenon
  <2>4. s \in [do : Dos, arg : A, left : L] BY <2>1, <2>2, <2>3
  <2> QED BY <2>3, <2>4 DEF A, L, Stages
<1> HIDE DEF s
<1>3. w \in Seq(Stages) /\ Len(w) = n /\ w # <<>> BY <1>1, <1>2
<1>4. w[1] = s /\ \A i \in 2 .. n : w[i] = wk[i] BY <1>1
<1>5. Head(w) = w[1] BY <1>1, <1>3
<1>6. Tail(w) = Tail(wk)
  <2>1. /\ Tail(wk) \in Seq(Stages) /\ Len(Tail(wk)) = n - 1
        /\ \A i \in 1 .. Len(Tail(wk)) : Tail(wk)[i] = wk[i + 1]
    BY <1>1, HeadTailProperties
  <2>2. /\ Tail(w) \in Seq(Stages) /\ Len(Tail(w)) = n - 1
        /\ \A i \in 1 .. Len(Tail(w)) : Tail(w)[i] = w[i + 1]
    BY <1>3, HeadTailProperties
  <2>3. \A i \in 1 .. n - 1 : w[i + 1] = wk[i + 1] BY <1>1, <1>4
  <2> HIDE DEF w, n
  <2>4. \A i \in 1 .. Len(Tail(wk)) : Tail(w)[i] = Tail(wk)[i] BY <2>1, <2>2, <2>3
  <2> QED BY <2>1, <2>2, <2>4, SeqEqual
<1> QED BY <1>1, <1>2, <1>3, <1>4, <1>5, <1>6 DEF s

\* One step of a loop: table t is done, and the stage with it when it is the last.
LEMMA LoopStep ==
  ASSUME NEW do, NEW arg, NEW left, NEW rest,
         Doing(do, arg, left, rest), TableStep, tab \in [Tables -> Table]
  PROVE  \E t \in left :
           /\ left \subseteq Tables /\ do \in Dos \ {"append"} /\ arg \in Nat \cup Entries
           /\ do \in {"change", "finish"} \/ t = Min(left)
           /\ tab' = [tab EXCEPT ![t] = Result([do |-> do, arg |-> arg, left |-> left], tab[t])]
           /\ log' = log
           /\ \/ left = {t} /\ work' = rest
              \/ left # {t} /\ Doing(do, arg, left \ {t}, rest)'
<1> DEFINE s == [do |-> do, arg |-> arg, left |-> left]
<1>1. /\ work \in Seq(Stages) /\ work # <<>> /\ Head(work) = s /\ left # {} /\ Tail(work) = rest
  BY DEF Doing
<1>2. /\ s.do = do /\ s.arg = arg /\ s.left = left OBVIOUS
<1> HIDE DEF s
<1>3. PICK t \in left :
        /\ do \in {"change", "finish"} \/ t = Min(left)
        /\ tab' = [tab EXCEPT ![t] = Result(s, @)]
        /\ work' = IF left = {t} THEN Tail(work) ELSE [work EXCEPT ![1].left = @ \ {t}]
  BY <1>1, <1>2, Zenon DEF TableStep
<1>4. do # "append" /\ log' = log BY <1>1, <1>2 DEF TableStep
<1>5. s \in Stages BY <1>1, WorkStep
<1>6. left \subseteq Tables /\ do \in Dos /\ arg \in Nat \cup Entries BY <1>2, <1>5 DEF Stages
<1>7. CASE left = {t} BY <1>1, <1>3, <1>4, <1>6, <1>7 DEF s
<1>8. CASE left # {t}
  <2> DEFINE w == [work EXCEPT ![1].left = @ \ {t}]
  <2>1. /\ w \in Seq(Stages) /\ w # <<>> /\ Tail(w) = Tail(work) /\ Head(work) = work[1]
        /\ Head(w) = w[1]
        /\ w[1] = [do |-> work[1].do, arg |-> work[1].arg, left |-> work[1].left \ {t}]
    BY <1>1, WorkStep
  <2> HIDE DEF w
  <2>2. work' = w BY <1>3, <1>8 DEF w
  <2>3. Head(w) = [do |-> do, arg |-> arg, left |-> left \ {t}] BY <1>1, <1>2, <2>1
  <2>4. left \ {t} # {} BY <1>3, <1>8
  <2>5. Doing(do, arg, left \ {t}, rest)' BY <1>1, <2>1, <2>2, <2>3, <2>4 DEF Doing
  <2> QED BY <1>3, <1>4, <1>6, <1>8, <2>5 DEF s
<1> QED BY <1>7, <1>8

\* The tables after one of them has changed.
LEMMA OneTable ==
  ASSUME tab \in [Tables -> Table], NEW t \in Tables, NEW z, tab' = [tab EXCEPT ![t] = z]
  PROVE  tab'[t] = z /\ \A v \in Tables : v # t => tab'[v] = tab[v]
OBVIOUS

\* A loop that has done one more table.
LEMMA HalfwayStep ==
  ASSUME tab \in [Tables -> Table], NEW left \in SUBSET Tables, NEW t \in left, NEW y, NEW z,
         Halfway(left, y, z), tab' = [tab EXCEPT ![t] = z]
  PROVE  /\ tab[t] = y
         /\ \A v \in Tables : tab'[v] = IF v \in left \ {t} THEN y ELSE z
         /\ left = {t} => \A v \in Tables : tab'[v] = z
BY DEF Halfway

\* The tables stay sane when the one that changes does.
LEMMA SaneStep ==
  ASSUME TablesOK, NEW t \in Tables, NEW z, Sane(z), tab' = [tab EXCEPT ![t] = z], log' = log
  PROVE  TablesOK'
<1>1. tab'[t] = z /\ \A v \in Tables : v # t => tab'[v] = tab[v]
  BY OneTable DEF TablesOK
<1>2. z \in Table BY DEF Sane
<1>3. tab' \in [Tables -> Table] BY <1>2 DEF TablesOK
<1>4. \A v \in Tables : Sane(tab'[v]) BY <1>1 DEF TablesOK
<1> QED BY <1>3, <1>4 DEF TablesOK

\* Numbers in a sane table.
LEMMA SaneFacts ==
  ASSUME NEW x, Sane(x)
  PROVE  /\ x \in Table /\ x.val \in Seq(Entries) /\ Len(x.val) \in Nat /\ x.rev \in Nat
         /\ Len(x.val) <= MaxHeight /\ x.rev <= MaxHeight
BY LenProperties DEF Sane, Table

\* start_undo_session() for one more table.
LEMMA StartingStep ==
  ASSUME TablesOK, damaged' = damaged, TableStep,
         NEW left \in SUBSET Tables, NEW b \in Entries, NEW lib \in 0 .. MaxHeight,
         Starting(left, b, lib)
  PROVE  TablesOK' /\ \E l \in SUBSET Tables : Starting(l, b, lib)' \/ Changing(l, b, lib)'
<1> DEFINE rest == <<Stage("change", b), Stage("commit", lib), Stage("append", lib), Stage("finish", 0)>>
<1>1. /\ Doing("start", 0, left, rest)
      /\ \A v \in Tables : Len(tab[v].val) < MaxHeight /\ tab[v].rev <= Len(tab[v].val) + 1
      /\ \A v \in left : Strong(tab[v])
      /\ lib <= Len(tab[1].val) + 1
  BY DEF Starting
<1>2. tab \in [Tables -> Table] /\ \A v \in Tables : Sane(tab[v]) BY DEF TablesOK
<1> HIDE DEF rest
<1>a. PICK t \in left :
        /\ tab' = [tab EXCEPT ![t] = Result([do |-> "start", arg |-> 0, left |-> left], tab[t])]
        /\ log' = log
        /\ \/ left = {t} /\ work' = rest
           \/ left # {t} /\ Doing("start", 0, left \ {t}, rest)'
  BY <1>1, <1>2, LoopStep, Zenon
<1>3. /\ tab' = [tab EXCEPT ![t] = Started(tab[t])]
      /\ log' = log
      /\ \/ left = {t} /\ work' = rest
         \/ left # {t} /\ Doing("start", 0, left \ {t}, rest)'
  <2>1. Result([do |-> "start", arg |-> 0, left |-> left], tab[t]) = Started(tab[t])
    BY DEF Result
  <2> QED BY <1>a, <2>1
<1>4. t \in Tables /\ 1 \in Tables BY StageFacts, TablesAssumption DEF Tables
<1>5. /\ Sane(Started(tab[t])) /\ Started(tab[t]).val = tab[t].val
      /\ Started(tab[t]).rev = tab[t].rev + 1
  BY <1>1, <1>4, StartedSane
<1>6. TablesOK' BY <1>3, <1>4, <1>5, SaneStep
<1>7. tab'[t] = Started(tab[t]) /\ \A v \in Tables : v # t => tab'[v] = tab[v]
  BY <1>2, <1>3, <1>4, OneTable
<1>8. \A v \in Tables : tab'[v].val = tab[v].val
  BY <1>5, <1>7
<1>9. \A v \in Tables : Len(tab'[v].val) < MaxHeight /\ tab'[v].rev <= Len(tab'[v].val) + 1
  <2> TAKE v \in Tables
  <2>1. CASE v = t
    <3>1. tab[t].rev <= Len(tab[t].val) /\ tab[t].rev \in Nat /\ Len(tab[t].val) \in Nat
      BY <1>1, <1>2, <1>4, SaneFacts DEF Strong
    <3>2. tab'[t].rev = tab[t].rev + 1 BY <1>5, <1>7
    <3> QED BY <1>1, <1>4, <1>8, <2>1, <3>1, <3>2
  <2>2. CASE v # t BY <1>1, <1>7, <2>2
  <2> QED BY <2>1, <2>2
<1>10. lib <= Len(tab'[1].val) + 1 BY <1>1, <1>4, <1>8
<1>11. ASSUME ~damaged
       PROVE  /\ Ahead(lib)
              /\ \E y : /\ Settled(y)
                        /\ \A v \in Tables : tab'[v] = IF v \in left \ {t} THEN y ELSE Started(y)
                        /\ left = {t} => \A v \in Tables : tab'[v] = Started(y)
  <2>1. PICK u \in left : Settled(tab[u]) /\ Halfway(left, tab[u], Started(tab[u]))
    BY <1>11 DEF Starting
  <2>2. PICK y : y = tab[u] OBVIOUS
  <2>3. Settled(y) /\ Halfway(left, y, Started(y)) BY <2>1, <2>2
  <2>4. tab[t] = y BY <1>4, <2>3 DEF Halfway
  <2>5. tab' = [tab EXCEPT ![t] = Started(y)] BY <1>3, <2>4
  <2> QED BY <1>2, <1>11, <2>3, <2>5, HalfwayStep DEF Starting
<1>12. CASE left # {t} /\ Doing("start", 0, left \ {t}, rest)'
  <2>1. \A v \in left \ {t} : Strong(tab'[v]) BY <1>1, <1>7
  <2>2. ASSUME ~damaged
        PROVE  Ahead(lib)' /\ (\E u \in left \ {t} :
                 Settled(tab[u]) /\ Halfway(left \ {t}, tab[u], Started(tab[u])))'
    <3>1. PICK y : /\ Settled(y)
                   /\ \A v \in Tables : tab'[v] = IF v \in left \ {t} THEN y ELSE Started(y)
      BY <1>11, <2>2
    <3>2. PICK u \in left \ {t} : TRUE BY <1>12
    <3>3. tab'[u] = y BY <3>1, <3>2
    <3>4. Settled(tab'[u]) /\ \A v \in Tables :
            tab'[v] = IF v \in left \ {t} THEN tab'[u] ELSE Started(tab'[u])
      BY <3>1, <3>3
    <3>5. Ahead(lib)' BY <1>3, <1>11, <2>2 DEF Ahead
    <3> QED BY <3>2, <3>4, <3>5 DEF Halfway
  <2>3. Starting(left \ {t}, b, lib)'
    BY <1>9, <1>10, <1>12, <2>1, <2>2 DEF Starting, rest
  <2> QED BY <1>6, <2>3
<1>13. CASE left = {t} /\ work' = rest
  <2>1. Doing("change", b, Tables, <<Stage("commit", lib), Stage("append", lib), Stage("finish", 0)>>)'
    <3>1. /\ Stage("change", b) \in Stages /\ Stage("commit", lib) \in Stages
          /\ Stage("append", lib) \in Stages /\ Stage("finish", 0) \in Stages /\ Tables # {}
          /\ Stage("change", b) = [do |-> "change", arg |-> b, left |-> Tables]
      <4>1. b \in Nat \cup Entries /\ lib \in Nat \cup Entries /\ 0 \in Nat \cup Entries
            /\ {"change", "commit", "append", "finish"} \subseteq Dos
        BY TablesAssumption DEF Dos
      <4> QED BY <4>1, StageFacts, Zenon
    <3> QED BY <1>13, <3>1, QueueFacts DEF Doing, rest
  <2>2. \A v \in Tables : tab'[v].rev <= Len(tab'[v].val) + (IF v \in Tables THEN 1 ELSE 0)
    BY <1>9
  <2>3. lib <= Len(tab'[1].val) + (IF 1 \in Tables THEN 1 ELSE 0) BY <1>4, <1>10
  <2>4. ASSUME ~damaged
        PROVE  Ahead(lib)' /\ (\E u \in Tables : Opened(tab[u]) /\ tab[u].saved # <<>>
                                 /\ Halfway(Tables, tab[u], Changed(tab[u], b)))'
    <3>1. PICK y : Settled(y) /\ \A v \in Tables : tab'[v] = Started(y) BY <1>11, <1>13, <2>4
    <3>2. Opened(Started(y)) /\ Started(y).saved # <<>> BY <3>1, StartedSettled
    <3>3. Opened(tab'[1]) /\ tab'[1].saved # <<>> /\ \A v \in Tables : tab'[v] = tab'[1]
      BY <1>4, <3>1, <3>2
    <3>4. Ahead(lib)' BY <1>3, <1>11, <2>4 DEF Ahead
    <3> QED BY <1>4, <3>3, <3>4 DEF Halfway
  <2>5. Changing(Tables, b, lib)'
    BY <1>9, <2>1, <2>2, <2>3, <2>4 DEF Changing
  <2> QED BY <1>6, <2>5
<1> QED BY <1>3, <1>12, <1>13

\* The calls that wait behind a stage.
LEMMA RestFacts ==
  ASSUME NEW b \in Entries, NEW lib \in 0 .. MaxHeight
  PROVE  /\ {Stage("start", 0), Stage("change", b), Stage("commit", lib), Stage("append", lib),
             Stage("finish", 0), Stage("undo", 0), Stage("undo_all", 0)} \subseteq Stages
         /\ Stage("start", 0) = [do |-> "start", arg |-> 0, left |-> Tables]
         /\ Stage("change", b) = [do |-> "change", arg |-> b, left |-> Tables]
         /\ Stage("commit", lib) = [do |-> "commit", arg |-> lib, left |-> Tables]
         /\ Stage("append", lib) = [do |-> "append", arg |-> lib, left |-> Tables]
         /\ Stage("finish", 0) = [do |-> "finish", arg |-> 0, left |-> Tables]
         /\ Stage("undo", 0) = [do |-> "undo", arg |-> 0, left |-> Tables]
         /\ Stage("undo_all", 0) = [do |-> "undo_all", arg |-> 0, left |-> Tables]
         /\ Tables # {} /\ 1 \in Tables /\ lib \in Nat
<1>1. /\ b \in Nat \cup Entries /\ lib \in Nat \cup Entries /\ 0 \in Nat \cup Entries /\ lib \in Nat
      /\ {"start", "change", "commit", "append", "finish", "undo", "undo_all"} \subseteq Dos
  BY TablesAssumption DEF Dos
<1>2. Tables # {} /\ 1 \in Tables BY TablesAssumption DEF Tables
<1>3. \A d \in Dos, a \in Nat \cup Entries :
        Stage(d, a) \in Stages /\ Stage(d, a) = [do |-> d, arg |-> a, left |-> Tables]
  BY StageFacts
<1> QED BY <1>1, <1>2, <1>3, Zenon

\* The change of a block in one more table.
LEMMA ChangingStep ==
  ASSUME TablesOK, damaged' = damaged, TableStep,
         NEW left \in SUBSET Tables, NEW b \in Entries, NEW lib \in 0 .. MaxHeight,
         Changing(left, b, lib)
  PROVE  TablesOK' /\ \E l \in SUBSET Tables : Changing(l, b, lib)' \/ Committing(l, lib)'
<1> DEFINE rest == <<Stage("commit", lib), Stage("append", lib), Stage("finish", 0)>>
<1>1. /\ Doing("change", b, left, rest)
      /\ \A v \in Tables : tab[v].rev <= Len(tab[v].val) + (IF v \in left THEN 1 ELSE 0)
      /\ \A v \in left : Len(tab[v].val) < MaxHeight
      /\ lib <= Len(tab[1].val) + (IF 1 \in left THEN 1 ELSE 0)
  BY DEF Changing
<1>2. tab \in [Tables -> Table] /\ \A v \in Tables : Sane(tab[v]) BY DEF TablesOK
<1> HIDE DEF rest
<1>a. PICK t \in left :
        /\ tab' = [tab EXCEPT ![t] = Result([do |-> "change", arg |-> b, left |-> left], tab[t])]
        /\ log' = log
        /\ \/ left = {t} /\ work' = rest
           \/ left # {t} /\ Doing("change", b, left \ {t}, rest)'
  BY <1>1, <1>2, LoopStep, Zenon
<1>3. /\ tab' = [tab EXCEPT ![t] = Changed(tab[t], b)]
      /\ log' = log
      /\ \/ left = {t} /\ work' = rest
         \/ left # {t} /\ Doing("change", b, left \ {t}, rest)'
  <2>1. Result([do |-> "change", arg |-> b, left |-> left], tab[t]) = Changed(tab[t], b)
    BY DEF Result
  <2> QED BY <1>a, <2>1
<1>4. t \in Tables /\ 1 \in Tables /\ Tables # {} /\ lib \in Nat BY RestFacts
<1>5. /\ Sane(Changed(tab[t], b)) /\ Len(Changed(tab[t], b).val) = Len(tab[t].val) + 1
      /\ Changed(tab[t], b).rev = tab[t].rev
  BY <1>1, <1>2, <1>4, ChangedSane
<1>6. TablesOK' BY <1>3, <1>4, <1>5, SaneStep
<1>7. tab'[t] = Changed(tab[t], b) /\ \A v \in Tables : v # t => tab'[v] = tab[v]
  BY <1>2, <1>3, <1>4, OneTable
<1>8. \A v \in Tables : Len(tab[v].val) \in Nat /\ tab[v].rev \in Nat BY <1>2, SaneFacts
<1>9. \A v \in Tables : tab'[v].rev <= Len(tab'[v].val) + (IF v \in left \ {t} THEN 1 ELSE 0)
  <2> TAKE v \in Tables
  <2>1. CASE v = t
    <3>1. tab'[t].rev = tab[t].rev /\ Len(tab'[t].val) = Len(tab[t].val) + 1 BY <1>5, <1>7
    <3>2. tab[t].rev <= Len(tab[t].val) + 1 BY <1>1, <1>4
    <3> QED BY <1>4, <1>8, <2>1, <3>1, <3>2
  <2>2. CASE v # t BY <1>1, <1>7, <2>2
  <2> QED BY <2>1, <2>2
<1>10. lib <= Len(tab'[1].val) + (IF 1 \in left \ {t} THEN 1 ELSE 0)
  <2>1. CASE 1 = t
    <3>1. Len(tab'[1].val) = Len(tab[1].val) + 1 BY <1>5, <1>7, <2>1
    <3>2. 1 \in left /\ 1 \notin left \ {t} BY <2>1
    <3>3. lib <= Len(tab[1].val) + 1 BY <1>1, <3>2
    <3>4. Len(tab'[1].val) \in Nat BY <1>4, <1>8, <3>1
    <3>5. lib <= Len(tab'[1].val) + 0 BY <1>4, <3>1, <3>3, <3>4
    <3> QED BY <3>2, <3>5
  <2>2. CASE 1 # t BY <1>1, <1>4, <1>7, <2>2
  <2> QED BY <2>1, <2>2
<1>11. ASSUME ~damaged
       PROVE  /\ Ahead(lib)
              /\ \E y : /\ Opened(y) /\ y.saved # <<>>
                        /\ \A v \in Tables : tab'[v] = IF v \in left \ {t} THEN y ELSE Changed(y, b)
                        /\ left = {t} => \A v \in Tables : tab'[v] = Changed(y, b)
  <2>1. PICK u \in left : Opened(tab[u]) /\ tab[u].saved # <<>>
                            /\ Halfway(left, tab[u], Changed(tab[u], b))
    BY <1>11 DEF Changing
  <2>2. PICK y : y = tab[u] OBVIOUS
  <2>3. Opened(y) /\ y.saved # <<>> /\ Halfway(left, y, Changed(y, b)) BY <2>1, <2>2
  <2>4. tab[t] = y BY <1>4, <2>3 DEF Halfway
  <2>5. tab' = [tab EXCEPT ![t] = Changed(y, b)] BY <1>3, <2>4
  <2>6. /\ \A v \in Tables : tab'[v] = IF v \in left \ {t} THEN y ELSE Changed(y, b)
        /\ left = {t} => \A v \in Tables : tab'[v] = Changed(y, b)
    <3>1. PICK z : z = Changed(y, b) OBVIOUS
    <3>2. Halfway(left, y, z) /\ tab' = [tab EXCEPT ![t] = z] BY <2>3, <2>5, <3>1
    <3> QED BY <1>2, <3>1, <3>2, HalfwayStep
  <2> QED BY <1>11, <2>3, <2>6 DEF Changing
<1>12. CASE left # {t} /\ Doing("change", b, left \ {t}, rest)'
  <2>1. \A v \in left \ {t} : Len(tab'[v].val) < MaxHeight BY <1>1, <1>7
  <2>2. ASSUME ~damaged
        PROVE  Ahead(lib)' /\ (\E u \in left \ {t} :
                 Opened(tab[u]) /\ tab[u].saved # <<>> /\ Halfway(left \ {t}, tab[u], Changed(tab[u], b)))'
    <3>1. PICK y : /\ Opened(y) /\ y.saved # <<>>
                   /\ \A v \in Tables : tab'[v] = IF v \in left \ {t} THEN y ELSE Changed(y, b)
      BY <1>11, <2>2
    <3>2. PICK u \in left \ {t} : TRUE BY <1>12
    <3>3. tab'[u] = y BY <3>1, <3>2
    <3>4. Opened(tab'[u]) /\ tab'[u].saved # <<>> /\ \A v \in Tables :
            tab'[v] = IF v \in left \ {t} THEN tab'[u] ELSE Changed(tab'[u], b)
      BY <3>1, <3>3
    <3>5. Ahead(lib)' BY <1>3, <1>11, <2>2 DEF Ahead
    <3> QED BY <3>2, <3>4, <3>5 DEF Halfway
  <2>3. Changing(left \ {t}, b, lib)'
    BY <1>9, <1>10, <1>12, <2>1, <2>2 DEF Changing, rest
  <2> QED BY <1>6, <2>3
<1>13. CASE left = {t} /\ work' = rest
  <2>1. Doing("commit", lib, Tables, <<Stage("append", lib), Stage("finish", 0)>>)'
    <3>1. /\ Stage("commit", lib) \in Stages /\ Stage("append", lib) \in Stages /\ Tables # {}
          /\ Stage("finish", 0) \in Stages
          /\ Stage("commit", lib) = [do |-> "commit", arg |-> lib, left |-> Tables]
      BY RestFacts
    <3> QED BY <1>13, <3>1, QueueFacts DEF Doing, rest
  <2>2. \A v \in Tables : tab'[v].rev <= Len(tab'[v].val)
    <3>1. \A v \in Tables : v \notin left \ {t} BY <1>13
    <3>2. \A v \in Tables : Len(tab'[v].val) \in Nat BY <1>6, SaneFacts DEF TablesOK
    <3> TAKE v \in Tables
    <3>3. tab'[v].rev <= Len(tab'[v].val) + 0 BY <1>9, <3>1
    <3> QED BY <3>2, <3>3
  <2>3. lib <= Len(tab'[1].val)
    <3>1. 1 \notin left \ {t} BY <1>13
    <3>2. Len(tab'[1].val) \in Nat BY <1>4, <1>6, SaneFacts DEF TablesOK
    <3>3. lib <= Len(tab'[1].val) + 0 BY <1>10, <3>1
    <3> QED BY <1>4, <3>2, <3>3
  <2>4. ASSUME ~damaged
        PROVE  Ahead(lib)' /\ (\E u \in Tables : Begun(tab[u]) /\ tab[u].saved # <<>> /\ lib <= tab[u].rev
                                 /\ Halfway(Tables, tab[u], Committed(tab[u], lib)))'
    <3>1. PICK y : Opened(y) /\ y.saved # <<>> /\ \A v \in Tables : tab'[v] = Changed(y, b)
      BY <1>11, <1>13, <2>4
    <3>2. Begun(tab'[1]) /\ tab'[1].saved # <<>> /\ \A v \in Tables : tab'[v] = tab'[1]
      BY <1>4, <3>1, ChangedBegun
    <3>3. tab'[1].rev = Len(tab'[1].val) + 0 /\ Len(tab'[1].val) \in Nat BY <3>2, ExactFacts DEF Begun
    <3>4. Ahead(lib)' BY <1>3, <1>11, <2>4 DEF Ahead
    <3> QED BY <1>4, <2>3, <3>2, <3>3, <3>4 DEF Halfway
  <2>5. Committing(Tables, lib)'
    BY <2>1, <2>2, <2>3, <2>4 DEF Committing
  <2> QED BY <1>6, <2>5
<1> QED BY <1>3, <1>12, <1>13

\* The smallest of the tables that are left, when the first is.
LEMMA FirstTable ==
  ASSUME NEW left \in SUBSET Tables, 1 \in left
  PROVE  Min(left) = 1
<1>1. \A v \in left : v \in Nat /\ 1 <= v BY TablesAssumption DEF Tables
<1> QED BY <1>1 DEF Min

\* commit() for one more table; the first table is the first to be committed.
LEMMA CommittingStep ==
  ASSUME TablesOK, damaged' = damaged, TableStep,
         NEW left \in SUBSET Tables, NEW lib \in 0 .. MaxHeight,
         Committing(left, lib)
  PROVE  TablesOK' /\ ((\E l \in SUBSET Tables : Committing(l, lib)') \/ Appending(lib)')
<1> DEFINE rest == <<Stage("append", lib), Stage("finish", 0)>>
<1>1. /\ Doing("commit", lib, left, rest)
      /\ \A v \in Tables : tab[v].rev <= Len(tab[v].val)
      /\ lib <= Len(tab[1].val)
      /\ 1 \in left => left = Tables
  BY DEF Committing
<1>2. tab \in [Tables -> Table] /\ \A v \in Tables : Sane(tab[v]) BY DEF TablesOK
<1> HIDE DEF rest
<1>a. PICK t \in left :
        /\ tab' = [tab EXCEPT ![t] = Result([do |-> "commit", arg |-> lib, left |-> left], tab[t])]
        /\ t = Min(left)
        /\ log' = log
        /\ \/ left = {t} /\ work' = rest
           \/ left # {t} /\ Doing("commit", lib, left \ {t}, rest)'
  <2>1. PICK do : do = "commit" OBVIOUS
  <2>2. Doing(do, lib, left, rest) BY <1>1, <2>1
  <2>3. \E t \in left :
          /\ left \subseteq Tables /\ do \in Dos \ {"append"} /\ lib \in Nat \cup Entries
          /\ do \in {"change", "finish"} \/ t = Min(left)
          /\ tab' = [tab EXCEPT ![t] = Result([do |-> do, arg |-> lib, left |-> left], tab[t])]
          /\ log' = log
          /\ \/ left = {t} /\ work' = rest
             \/ left # {t} /\ Doing(do, lib, left \ {t}, rest)'
    BY <1>2, <2>2, LoopStep
  <2>4. do \notin {"change", "finish"} BY <2>1
  <2> QED BY <2>1, <2>3, <2>4
<1>3. /\ tab' = [tab EXCEPT ![t] = Committed(tab[t], lib)]
      /\ log' = log
      /\ \/ left = {t} /\ work' = rest
         \/ left # {t} /\ Doing("commit", lib, left \ {t}, rest)'
  <2>1. Result([do |-> "commit", arg |-> lib, left |-> left], tab[t]) = Committed(tab[t], lib)
    BY DEF Result
  <2> QED BY <1>a, <2>1
<1>4. t \in Tables /\ 1 \in Tables /\ Tables # {} /\ lib \in Nat
  BY TablesAssumption DEF Tables
<1>5. /\ Strong(Committed(tab[t], lib)) /\ Committed(tab[t], lib).val = tab[t].val
      /\ Committed(tab[t], lib).rev = tab[t].rev
  BY <1>1, <1>2, <1>4, CommittedStrong DEF Strong
<1>6. TablesOK' BY <1>3, <1>4, <1>5, SaneStep DEF Strong
<1>7. tab'[t] = Committed(tab[t], lib) /\ \A v \in Tables : v # t => tab'[v] = tab[v]
  BY <1>2, <1>3, <1>4, OneTable
<1>8. \A v \in Tables : tab'[v].rev = tab[v].rev /\ tab'[v].val = tab[v].val BY <1>5, <1>7
<1>9. \A v \in Tables : tab'[v].rev <= Len(tab'[v].val) BY <1>1, <1>8
<1>10. lib <= Len(tab'[1].val) BY <1>1, <1>4, <1>8
<1>11. ASSUME ~damaged
       PROVE  /\ Ahead(lib)
              /\ \E y : /\ Begun(y) /\ y.saved # <<>> /\ lib <= y.rev
                        /\ \A v \in Tables : tab'[v] = IF v \in left \ {t} THEN y ELSE Committed(y, lib)
                        /\ left = {t} => \A v \in Tables : tab'[v] = Committed(y, lib)
  <2>1. PICK u \in left : Begun(tab[u]) /\ tab[u].saved # <<>> /\ lib <= tab[u].rev
                            /\ Halfway(left, tab[u], Committed(tab[u], lib))
    BY <1>11 DEF Committing
  <2>2. PICK y : y = tab[u] OBVIOUS
  <2>3. Begun(y) /\ y.saved # <<>> /\ lib <= y.rev /\ Halfway(left, y, Committed(y, lib)) BY <2>1, <2>2
  <2>4. tab[t] = y BY <1>4, <2>3 DEF Halfway
  <2>5. tab' = [tab EXCEPT ![t] = Committed(y, lib)] BY <1>3, <2>4
  <2>6. /\ \A v \in Tables : tab'[v] = IF v \in left \ {t} THEN y ELSE Committed(y, lib)
        /\ left = {t} => \A v \in Tables : tab'[v] = Committed(y, lib)
    <3>1. PICK z : z = Committed(y, lib) OBVIOUS
    <3>2. Halfway(left, y, z) /\ tab' = [tab EXCEPT ![t] = z] BY <2>3, <2>5, <3>1
    <3> QED BY <1>2, <3>1, <3>2, HalfwayStep
  <2>7. Ahead(lib) BY <1>11 DEF Committing
  <2> QED BY <2>3, <2>6, <2>7
<1>12. CASE left # {t} /\ Doing("commit", lib, left \ {t}, rest)'
  <2>1. 1 \in left \ {t} => left \ {t} = Tables BY <1>a, FirstTable
  <2>2. ASSUME ~damaged
        PROVE  Ahead(lib)' /\ (\E u \in left \ {t} :
                 Begun(tab[u]) /\ tab[u].saved # <<>> /\ lib <= tab[u].rev /\ Halfway(left \ {t}, tab[u], Committed(tab[u], lib)))'
    <3>1. PICK y : /\ Begun(y) /\ y.saved # <<>> /\ lib <= y.rev
                   /\ \A v \in Tables : tab'[v] = IF v \in left \ {t} THEN y ELSE Committed(y, lib)
      BY <1>11, <2>2
    <3>2. PICK u \in left \ {t} : TRUE BY <1>12
    <3>3. tab'[u] = y BY <3>1, <3>2
    <3>4. Begun(tab'[u]) /\ tab'[u].saved # <<>> /\ lib <= tab'[u].rev /\ \A v \in Tables :
            tab'[v] = IF v \in left \ {t} THEN tab'[u] ELSE Committed(tab'[u], lib)
      BY <3>1, <3>3
    <3>5. Ahead(lib)' BY <1>3, <1>11, <2>2 DEF Ahead
    <3> QED BY <3>2, <3>4, <3>5 DEF Halfway
  <2>3. Committing(left \ {t}, lib)'
    BY <1>9, <1>10, <1>12, <2>1, <2>2 DEF Committing, rest
  <2> QED BY <1>6, <2>3
<1>13. CASE left = {t} /\ work' = rest
  <2>1. Doing("append", lib, Tables, <<Stage("finish", 0)>>)'
    <3>1. {lib, 0} \subseteq Nat \cup Entries /\ {"append", "finish"} \subseteq Dos BY <1>4 DEF Dos
    <3>2. /\ Stage("append", lib) \in Stages /\ Stage("finish", 0) \in Stages
          /\ Stage("append", lib) = [do |-> "append", arg |-> lib, left |-> Tables]
      BY <3>1, StageFacts
    <3> QED BY <1>4, <1>13, <3>2, QueueFacts DEF Doing, rest
  <2>2. ASSUME ~damaged
        PROVE  (Begun(tab[1]) /\ Same)'
    <3>1. PICK y : Begun(y) /\ y.saved # <<>> /\ lib <= y.rev /\ \A v \in Tables : tab'[v] = Committed(y, lib)
      BY <1>11, <1>13, <2>2
    <3>2. Begun(tab'[1]) /\ \A v \in Tables : tab'[v] = tab'[1] BY <1>4, <3>1, CommittedBegun
    <3> QED BY <3>2 DEF Same
  <2>3. Appending(lib)'
    BY <1>9, <1>10, <2>1, <2>2 DEF Appending
  <2> QED BY <1>6, <2>3
<1> QED BY <1>3, <1>12, <1>13

\* One more block goes to the log, or all have.
LEMMA AppendingStep ==
  ASSUME TablesOK, damaged' = damaged, AppendStep, NEW lib \in 0 .. MaxHeight, Appending(lib)
  PROVE  TablesOK' /\ (Appending(lib)' \/ Finishing(Tables)')
<1>1. /\ work \in Seq(Stages) /\ work # <<>> /\ Tail(work) = <<Stage("finish", 0)>>
      /\ Head(work) = [do |-> "append", arg |-> lib, left |-> Tables] /\ tab' = tab
  BY DEF Appending, Doing, AppendStep
<1>2. Head(work).arg = lib BY <1>1
<1>3. \/ Len(log) < lib /\ log' = Append(log, tab[1].val[Len(log) + 1].block) /\ work' = work
      \/ work' = <<Stage("finish", 0)>> /\ log' = log
  BY <1>1, <1>2 DEF AppendStep
<1>4. /\ 1 \in Tables /\ lib \in Nat /\ log \in Seq(Blocks) /\ Len(log) \in Nat
      /\ tab[1].val \in Seq(Entries) /\ lib <= Len(tab[1].val) /\ Len(tab[1].val) \in Nat
      /\ Len(tab[1].val) <= MaxHeight
  BY TablesAssumption, SaneFacts, LenProperties DEF TablesOK, Appending, Tables
<1>5. CASE Len(log) < lib /\ log' = Append(log, tab[1].val[Len(log) + 1].block) /\ work' = work
  <2>1. tab[1].val[Len(log) + 1].block \in Blocks
    <3>1. Len(log) + 1 \in 1 .. Len(tab[1].val) BY <1>4, <1>5
    <3>2. tab[1].val[Len(log) + 1] \in Entries BY <1>4, <3>1, ElementOfSeq
    <3> QED BY <3>2 DEF Entries
  <2>2. log' \in Seq(Blocks) /\ Len(log') = Len(log) + 1 BY <1>4, <1>5, <2>1, AppendProperties
  <2>3. Len(log') <= MaxHeight BY <1>4, <1>5, <2>2, TablesAssumption
  <2>4. TablesOK' BY <1>1, <2>2, <2>3 DEF TablesOK
  <2>5. Appending(lib)' BY <1>1, <1>5 DEF Appending, Doing, Same
  <2> QED BY <2>4, <2>5
<1>6. CASE work' = <<Stage("finish", 0)>> /\ log' = log
  <2>1. TablesOK' BY <1>1, <1>6 DEF TablesOK
  <2>2. /\ Stage("finish", 0) \in Stages /\ Tables # {}
        /\ Stage("finish", 0) = [do |-> "finish", arg |-> 0, left |-> Tables]
    BY StageFacts DEF Dos
  <2>3. Doing("finish", 0, Tables, <<>>)' BY <1>6, <2>2, QueueFacts DEF Doing
  <2>4. ASSUME ~damaged
        PROVE  (\E u \in Tables : Begun(tab[u]) /\ Halfway(Tables, tab[u], Finished(tab[u])))'
    <3>1. Begun(tab'[1]) /\ \A v \in Tables : tab'[v] = tab'[1]
      BY <1>1, <2>4 DEF Appending, Same
    <3> QED BY <1>4, <3>1 DEF Halfway
  <2>5. \A t \in Tables : tab'[t].rev <= Len(tab'[t].val) BY <1>1 DEF Appending
  <2>6. Finishing(Tables)' BY <2>3, <2>4, <2>5 DEF Finishing
  <2> QED BY <2>1, <2>6
<1> QED BY <1>3, <1>5, <1>6

\* The last part of a block in one more table.
LEMMA FinishingStep ==
  ASSUME TablesOK, damaged' = damaged, TableStep, NEW left \in SUBSET Tables, Finishing(left)
  PROVE  TablesOK' /\ ((\E l \in SUBSET Tables : Finishing(l)') \/ Ready')
<1>1. Doing("finish", 0, left, <<>>) /\ \A v \in Tables : tab[v].rev <= Len(tab[v].val)
  BY DEF Finishing
<1>2. tab \in [Tables -> Table] /\ \A v \in Tables : Sane(tab[v]) BY DEF TablesOK
<1>a. PICK t \in left :
        /\ tab' = [tab EXCEPT ![t] = Result([do |-> "finish", arg |-> 0, left |-> left], tab[t])]
        /\ log' = log
        /\ \/ left = {t} /\ work' = <<>>
           \/ left # {t} /\ Doing("finish", 0, left \ {t}, <<>>)'
  BY <1>1, <1>2, LoopStep, Zenon
<1>3. /\ tab' = [tab EXCEPT ![t] = Finished(tab[t])]
      /\ log' = log
      /\ \/ left = {t} /\ work' = <<>>
         \/ left # {t} /\ Doing("finish", 0, left \ {t}, <<>>)'
  <2>1. Result([do |-> "finish", arg |-> 0, left |-> left], tab[t]) = Finished(tab[t])
    BY DEF Result
  <2> QED BY <1>a, <2>1
<1>4. t \in Tables /\ 1 \in Tables BY TablesAssumption DEF Tables
<1>5. /\ Sane(Finished(tab[t])) /\ Finished(tab[t]).rev = tab[t].rev
      /\ Len(Finished(tab[t]).val) = Len(tab[t].val)
  BY <1>2, <1>4, FinishedSane, FinishedParts
<1>6. TablesOK' BY <1>3, <1>4, <1>5, SaneStep
<1>7. tab'[t] = Finished(tab[t]) /\ \A v \in Tables : v # t => tab'[v] = tab[v]
  BY <1>2, <1>3, <1>4, OneTable
<1>8. \A v \in Tables : tab'[v].rev <= Len(tab'[v].val)
  <2> TAKE v \in Tables
  <2>1. CASE v = t BY <1>1, <1>4, <1>5, <1>7, <2>1
  <2>2. CASE v # t BY <1>1, <1>7, <2>2
  <2> QED BY <2>1, <2>2
<1>9. ASSUME ~damaged
      PROVE  \E y : /\ Begun(y)
                    /\ \A v \in Tables : tab'[v] = IF v \in left \ {t} THEN y ELSE Finished(y)
                    /\ left = {t} => \A v \in Tables : tab'[v] = Finished(y)
  <2>1. PICK u \in left : Begun(tab[u]) /\ Halfway(left, tab[u], Finished(tab[u]))
    BY <1>9 DEF Finishing
  <2>2. PICK y : y = tab[u] OBVIOUS
  <2>3. PICK z : z = Finished(y) OBVIOUS
  <2>4. Begun(y) /\ Halfway(left, y, z) BY <2>1, <2>2, <2>3
  <2>5. tab[t] = y BY <1>4, <2>4 DEF Halfway
  <2>6. tab' = [tab EXCEPT ![t] = z] BY <1>3, <2>3, <2>5
  <2>7. /\ \A v \in Tables : tab'[v] = IF v \in left \ {t} THEN y ELSE z
        /\ left = {t} => \A v \in Tables : tab'[v] = z
    BY <1>2, <2>4, <2>6, HalfwayStep
  <2> QED BY <2>3, <2>4, <2>7
<1>10. CASE left # {t} /\ Doing("finish", 0, left \ {t}, <<>>)'
  <2>1. ASSUME ~damaged
        PROVE  (\E u \in left \ {t} :
                 Begun(tab[u]) /\ Halfway(left \ {t}, tab[u], Finished(tab[u])))'
    <3>1. PICK y : /\ Begun(y)
                   /\ \A v \in Tables : tab'[v] = IF v \in left \ {t} THEN y ELSE Finished(y)
      BY <1>9, <2>1
    <3>2. PICK u \in left \ {t} : TRUE BY <1>10
    <3>3. tab'[u] = y BY <3>1, <3>2
    <3>4. Begun(tab'[u]) /\ \A v \in Tables :
            tab'[v] = IF v \in left \ {t} THEN tab'[u] ELSE Finished(tab'[u])
      BY <3>1, <3>3
    <3> QED BY <3>2, <3>4 DEF Halfway
  <2>2. Finishing(left \ {t})' BY <1>8, <1>10, <2>1 DEF Finishing
  <2> QED BY <1>6, <2>2
<1>11. CASE left = {t} /\ work' = <<>>
  <2>1. ASSUME ~damaged
        PROVE  Settled(tab'[1]) /\ \A v \in Tables : tab'[v] = tab'[1]
    <3>1. PICK y : Begun(y) /\ \A v \in Tables : tab'[v] = Finished(y) BY <1>9, <1>11, <2>1
    <3> QED BY <1>4, <3>1, FinishedSettled
  <2>2. Ready' BY <1>8, <1>11, <2>1 DEF Ready, Same
  <2> QED BY <1>6, <2>2
<1> QED BY <1>3, <1>10, <1>11

\* What undo() has to do when a call begins it with all tables ahead.
LEMMA ToUndo ==
  ASSUME work' = <<Stage("undo", 0)>>, tab' = tab,
         ~damaged' => \E z : Settled(z) /\ \A v \in Tables : Undone(tab[v]) = z
  PROVE  Undoing(Tables)'
<1>1. /\ Stage("undo", 0) \in Stages /\ 1 \in Tables /\ Tables # {}
      /\ Stage("undo", 0) = [do |-> "undo", arg |-> 0, left |-> Tables]
  BY StageFacts DEF Dos
<1>2. Doing("undo", 0, Tables, <<>>)' BY <1>1, QueueFacts DEF Doing
<1>3. ASSUME ~damaged'
      PROVE  (\E u \in Tables :
               /\ Settled(Undone(tab[u]))
               /\ \A t \in Tables : (IF t \in Tables THEN Undone(tab[t]) ELSE tab[t]) = Undone(tab[u]))'
  <2>1. PICK z : Settled(z) /\ \A v \in Tables : Undone(tab[v]) = z BY <1>3
  <2>2. \A v \in Tables : Undone(tab'[v]) = z BY <2>1
  <2>3. Settled(Undone(tab'[1])) /\ \A t \in Tables : Undone(tab'[t]) = Undone(tab'[1])
    BY <1>1, <2>1, <2>2
  <2> QED BY <1>1, <2>3
<1>4. \A t \in Tables \ Tables : tab'[t].rev <= Len(tab'[t].val) OBVIOUS
<1> QED BY <1>2, <1>3, <1>4 DEF Undoing

\* An exception in apply_block while tables change for the first time ...
LEMMA ChangingFails ==
  ASSUME TablesOK, ~damaged' => ~damaged, ApplyFails,
         NEW left \in SUBSET Tables, NEW b \in Entries, NEW lib \in 0 .. MaxHeight,
         Changing(left, b, lib)
  PROVE  TablesOK' /\ Undoing(Tables)'
<1>1. work' = <<Stage("undo", 0)>> /\ tab' = tab /\ log' = log BY DEF ApplyFails
<1>2. ASSUME ~damaged'
      PROVE  \E z : Settled(z) /\ \A v \in Tables : Undone(tab[v]) = z
  <2>1. PICK u \in left : Opened(tab[u]) /\ tab[u].saved # <<>>
                            /\ Halfway(left, tab[u], Changed(tab[u], b))
    BY <1>2 DEF Changing
  <2>2. tab[u] \in Table BY <2>1, ExactFacts DEF Opened
  <2>3. Undone(Changed(tab[u], b)) = Undone(tab[u]) BY <2>1, <2>2, AllUndoneSame
  <2>4. \A v \in Tables : Undone(tab[v]) = Undone(tab[u]) BY <2>1, <2>3 DEF Halfway
  <2>5. Settled(Undone(tab[u])) BY <2>1, UndoneSettled
  <2> QED BY <2>4, <2>5
<1>3. TablesOK' BY <1>1 DEF TablesOK
<1> QED BY <1>1, <1>2, <1>3, ToUndo

\* ... after the commit, which has left the session of this block ...
LEMMA FinishingFails ==
  ASSUME TablesOK, ~damaged' => ~damaged /\ ~Tearing, ApplyFails,
         NEW left \in SUBSET Tables,
         Finishing(left) \/ \E lib \in 0 .. MaxHeight : Appending(lib)
  PROVE  TablesOK' /\ Undoing(Tables)'
<1>1. work' = <<Stage("undo", 0)>> /\ tab' = tab /\ log' = log BY DEF ApplyFails
<1>2. TablesOK' BY <1>1 DEF TablesOK
<1>3. 1 \in Tables BY TablesAssumption DEF Tables
<1>4. ASSUME ~damaged'
      PROVE  \E z : Settled(z) /\ \A v \in Tables : Undone(tab[v]) = z
  <2>1. Head(work).do \in {"append", "finish"} /\ work # <<>> BY DEF Finishing, Appending, Doing
  <2>2. tab[1].saved # <<>> BY <1>4, <2>1 DEF Tearing
  <2>3. CASE \E lib \in 0 .. MaxHeight : Appending(lib)
    <3>1. Begun(tab[1]) /\ \A v \in Tables : tab[v] = tab[1] BY <1>4, <2>3 DEF Appending, Same
    <3>2. Settled(Undone(tab[1])) BY <2>2, <3>1, UndoneSettled
    <3> QED BY <3>1, <3>2
  <2>4. CASE Finishing(left)
    <3>1. PICK u \in left : Begun(tab[u]) /\ Halfway(left, tab[u], Finished(tab[u]))
      BY <1>4, <2>4 DEF Finishing
    <3>2. tab[u] \in Table BY <3>1, ExactFacts DEF Begun
    <3>3. tab[u].saved # <<>>
      <4>1. Finished(tab[u]).saved = tab[u].saved BY <3>2, FinishedParts
      <4> QED BY <1>3, <2>2, <3>1, <4>1 DEF Halfway
    <3>4. Undone(Finished(tab[u])) = Undone(tab[u]) BY <3>2, <3>3, FinishedUndone
    <3>5. \A v \in Tables : Undone(tab[v]) = Undone(tab[u]) BY <3>1, <3>4 DEF Halfway
    <3>6. Settled(Undone(tab[u])) BY <3>1, <3>3, UndoneSettled
    <3> QED BY <3>5, <3>6
  <2> QED BY <2>3, <2>4
<1> QED BY <1>1, <1>2, <1>4, ToUndo

\* ... and pop_block, when all tables have one content.
LEMMA SameUndone ==
  ASSUME TablesOK, ~damaged' => ~damaged, ~damaged => Settled(tab[1]) /\ Same,
         work' = <<Stage("undo", 0)>>, tab' = tab, log' = log
  PROVE  TablesOK' /\ Undoing(Tables)'
<1>1. ASSUME ~damaged'
      PROVE  \E z : Settled(z) /\ \A v \in Tables : Undone(tab[v]) = z
  <2>1. Settled(tab[1]) /\ \A v \in Tables : tab[v] = tab[1] BY <1>1 DEF Same
  <2>2. Settled(Undone(tab[1])) BY <2>1, UndoneSettled
  <2> QED BY <2>1, <2>2
<1>2. TablesOK' BY DEF TablesOK
<1> QED BY <1>1, <1>2, ToUndo

\* undo() for one more table.
LEMMA UndoingStep ==
  ASSUME TablesOK, damaged' = damaged, TableStep, NEW left \in SUBSET Tables, Undoing(left)
  PROVE  TablesOK' /\ ((\E l \in SUBSET Tables : Undoing(l)') \/ Ready')
<1>1. Doing("undo", 0, left, <<>>) /\ \A v \in Tables \ left : tab[v].rev <= Len(tab[v].val)
  BY DEF Undoing
<1>2. tab \in [Tables -> Table] /\ \A v \in Tables : Sane(tab[v]) BY DEF TablesOK
<1>a. PICK t \in left :
        /\ tab' = [tab EXCEPT ![t] = Result([do |-> "undo", arg |-> 0, left |-> left], tab[t])]
        /\ log' = log
        /\ \/ left = {t} /\ work' = <<>>
           \/ left # {t} /\ Doing("undo", 0, left \ {t}, <<>>)'
  BY <1>1, <1>2, LoopStep, Zenon
<1>3. /\ tab' = [tab EXCEPT ![t] = Undone(tab[t])]
      /\ log' = log
      /\ \/ left = {t} /\ work' = <<>>
         \/ left # {t} /\ Doing("undo", 0, left \ {t}, <<>>)'
  <2>1. Result([do |-> "undo", arg |-> 0, left |-> left], tab[t]) = Undone(tab[t]) BY DEF Result
  <2> QED BY <1>a, <2>1
<1>4. t \in Tables /\ 1 \in Tables BY TablesAssumption DEF Tables
<1>5. Strong(Undone(tab[t])) BY <1>2, <1>4, UndoneStrong
<1>6. TablesOK' BY <1>3, <1>4, <1>5, SaneStep DEF Strong
<1>7. tab'[t] = Undone(tab[t]) /\ \A v \in Tables : v # t => tab'[v] = tab[v]
  BY <1>2, <1>3, <1>4, OneTable
<1>8. \A v \in Tables \ (left \ {t}) : tab'[v].rev <= Len(tab'[v].val)
  BY <1>1, <1>5, <1>7 DEF Strong
<1>9. ASSUME ~damaged
      PROVE  \E z : /\ Settled(z)
                    /\ \A v \in Tables : (IF v \in left \ {t} THEN Undone(tab'[v]) ELSE tab'[v]) = z
  <2>1. PICK u \in left :
          /\ Settled(Undone(tab[u]))
          /\ \A v \in Tables : (IF v \in left THEN Undone(tab[v]) ELSE tab[v]) = Undone(tab[u])
    BY <1>9 DEF Undoing
  <2>2. PICK z : z = Undone(tab[u]) OBVIOUS
  <2>3. Settled(z) /\ \A v \in Tables : (IF v \in left THEN Undone(tab[v]) ELSE tab[v]) = z
    BY <2>1, <2>2
  <2>4. tab'[t] = z BY <1>4, <1>7, <2>3
  <2>5. \A v \in Tables : (IF v \in left \ {t} THEN Undone(tab'[v]) ELSE tab'[v]) = z
    <3> TAKE v \in Tables
    <3>1. CASE v = t BY <2>4, <3>1
    <3>2. CASE v # t BY <1>7, <2>3, <3>2
    <3> QED BY <3>1, <3>2
  <2> QED BY <2>3, <2>5
<1>10. CASE left # {t} /\ Doing("undo", 0, left \ {t}, <<>>)'
  <2>1. ASSUME ~damaged
        PROVE  (\E u \in left \ {t} :
                 /\ Settled(Undone(tab[u]))
                 /\ \A v \in Tables :
                      (IF v \in left \ {t} THEN Undone(tab[v]) ELSE tab[v]) = Undone(tab[u]))'
    <3>1. PICK z : /\ Settled(z)
                   /\ \A v \in Tables : (IF v \in left \ {t} THEN Undone(tab'[v]) ELSE tab'[v]) = z
      BY <1>9, <2>1
    <3>2. PICK u \in left \ {t} : TRUE BY <1>10
    <3>3. Undone(tab'[u]) = z BY <3>1, <3>2
    <3>4. Settled(Undone(tab'[u])) /\ \A v \in Tables :
            (IF v \in left \ {t} THEN Undone(tab'[v]) ELSE tab'[v]) = Undone(tab'[u])
      BY <3>1, <3>3
    <3> QED BY <3>2, <3>4
  <2>2. Undoing(left \ {t})' BY <1>8, <1>10, <2>1 DEF Undoing
  <2> QED BY <1>6, <2>2
<1>11. CASE left = {t} /\ work' = <<>>
  <2>1. \A v \in Tables : v \notin left \ {t} BY <1>11
  <2>2. \A v \in Tables : tab'[v].rev <= Len(tab'[v].val) BY <1>8, <2>1
  <2>3. ASSUME ~damaged
        PROVE  Settled(tab'[1]) /\ \A v \in Tables : tab'[v] = tab'[1]
    <3>1. PICK z : /\ Settled(z)
                   /\ \A v \in Tables : (IF v \in left \ {t} THEN Undone(tab'[v]) ELSE tab'[v]) = z
      BY <1>9, <2>3
    <3>2. \A v \in Tables : tab'[v] = z BY <2>1, <3>1
    <3> QED BY <1>4, <3>1, <3>2
  <2>4. Ready' BY <1>11, <2>2, <2>3 DEF Ready, Same
  <2> QED BY <1>6, <2>4
<1> QED BY <1>3, <1>10, <1>11

\* undo_all() for one more table.
LEMMA RewindingStep ==
  ASSUME TablesOK, damaged' = damaged, TableStep, NEW left \in SUBSET Tables, Rewinding(left)
  PROVE  TablesOK' /\ ((\E l \in SUBSET Tables : Rewinding(l)') \/ Rewound')
<1>1. Doing("undo_all", 0, left, <<>>) /\ \A v \in Tables \ left : tab[v].saved = <<>>
  BY DEF Rewinding
<1>2. tab \in [Tables -> Table] /\ \A v \in Tables : Sane(tab[v]) BY DEF TablesOK
<1>a. PICK t \in left :
        /\ tab' = [tab EXCEPT ![t] = Result([do |-> "undo_all", arg |-> 0, left |-> left], tab[t])]
        /\ log' = log
        /\ \/ left = {t} /\ work' = <<>>
           \/ left # {t} /\ Doing("undo_all", 0, left \ {t}, <<>>)'
  BY <1>1, <1>2, LoopStep, Zenon
<1>3. /\ tab' = [tab EXCEPT ![t] = AllUndone(tab[t])]
      /\ log' = log
      /\ \/ left = {t} /\ work' = <<>>
         \/ left # {t} /\ Doing("undo_all", 0, left \ {t}, <<>>)'
  <2>1. Result([do |-> "undo_all", arg |-> 0, left |-> left], tab[t]) = AllUndone(tab[t])
    BY DEF Result
  <2> QED BY <1>a, <2>1
<1>4. t \in Tables /\ 1 \in Tables BY TablesAssumption DEF Tables
<1>5. Strong(AllUndone(tab[t])) /\ AllUndone(tab[t]).saved = <<>>
  BY <1>2, <1>4, AllUndoneStrong
<1>6. TablesOK' BY <1>3, <1>4, <1>5, SaneStep DEF Strong
<1>7. tab'[t] = AllUndone(tab[t]) /\ \A v \in Tables : v # t => tab'[v] = tab[v]
  BY <1>2, <1>3, <1>4, OneTable
<1>8. \A v \in Tables \ (left \ {t}) : tab'[v].saved = <<>> BY <1>1, <1>5, <1>7
<1>9. \A v \in Tables : AllUndone(tab'[v]) = AllUndone(tab[v])
  BY <1>2, <1>4, <1>7, AllUndoneAgain
<1>10. (~damaged => Recoverable)' BY <1>3, <1>4, <1>9 DEF Recoverable, Rewinding
<1>11. CASE left # {t} /\ Doing("undo_all", 0, left \ {t}, <<>>)'
  <2>1. Rewinding(left \ {t})' BY <1>8, <1>10, <1>11 DEF Rewinding
  <2> QED BY <1>6, <2>1
<1>12. CASE left = {t} /\ work' = <<>>
  <2>1. \A v \in Tables : v \notin left \ {t} BY <1>12
  <2>2. Rewound' BY <1>8, <1>10, <1>12, <2>1 DEF Rewound
  <2> QED BY <1>6, <2>2
<1> QED BY <1>3, <1>11, <1>12

\* What a stage of a reindex does to one table.
LEMMA ReplayResult ==
  ASSUME ReplayStages(work), log \in Seq(Blocks), Len(log) <= MaxHeight,
         NEW y, Sane(y), y.saved = <<>>, y.rev = 0, AllWhole(y.val),
         Len(y.val) + Len(work) - 1 = Len(log)
  PROVE  LET z == Result(work[1], y)
         IN  /\ Sane(z) /\ z.saved = <<>> /\ AllWhole(z.val)
             /\ Len(work) > 1 => z.rev = 0 /\ Len(z.val) = Len(y.val) + 1
<1>1. /\ work \in Seq(Stages) /\ Len(work) \in Nat /\ Len(work) > 0 /\ Len(log) \in Nat
      /\ Len(y.val) \in Nat /\ y \in Table /\ y.val \in Seq(Entries)
  BY LenProperties, SaneFacts, EmptySeq DEF ReplayStages
<1>2. CASE Len(work) > 1
  <2>1. work[1].do = "change" /\ work[1].arg \in Entries /\ work[1].arg.whole BY <1>1, <1>2 DEF ReplayStages
  <2>2. Result(work[1], y) = Changed(y, work[1].arg) BY <2>1 DEF Result
  <2>3. Len(y.val) < MaxHeight BY <1>1, <1>2, TablesAssumption
  <2>4. AllWhole(Changed(y, work[1].arg).val)
    <3> DEFINE v == Append(y.val, work[1].arg)
    <3>1. Changed(y, work[1].arg).val = v BY <1>1, TableExcept DEF Changed
    <3>2. /\ Len(v) = Len(y.val) + 1 /\ v[Len(y.val) + 1] = work[1].arg
          /\ \A i \in 1 .. Len(y.val) : v[i] = y.val[i]
      BY <1>1, <2>1, AppendProperties
    <3> HIDE DEF v
    <3>3. \A i \in 1 .. Len(v) : v[i].whole
      <4> TAKE i \in 1 .. Len(v)
      <4>1. i \in 1 .. Len(y.val) \/ i = Len(y.val) + 1 BY <1>1, <3>2
      <4> QED BY <2>1, <3>2, <4>1 DEF AllWhole
    <3> QED BY <3>1, <3>3 DEF AllWhole
  <2>5. /\ Sane(Changed(y, work[1].arg)) /\ Len(Changed(y, work[1].arg).val) = Len(y.val) + 1
        /\ Changed(y, work[1].arg).rev = y.rev /\ Changed(y, work[1].arg).saved = y.saved
    BY <2>1, <2>3, ChangedSane
  <2> QED BY <2>2, <2>4, <2>5
<1>3. CASE Len(work) = 1
  <2> DEFINE z == [val |-> y.val, saved |-> <<>>, rev |-> Len(log)]
  <2>1. work[1].do = "set_revision" /\ work[1].arg = Len(log) BY <1>1, <1>3 DEF ReplayStages
  <2>2. Result(work[1], y) = [y EXCEPT !.rev = Len(log)] BY <2>1 DEF Result
  <2>3. Result(work[1], y) = z BY <1>1, <2>2, TableExcept
  <2>4. Len(y.val) = Len(log) BY <1>1, <1>3
  <2>5. <<>> \in Seq(Seq(Entries)) /\ Len(<<>>) = 0 OBVIOUS
  <2>6. z \in Table BY <1>1, <2>5 DEF Table
  <2>7. z.val = y.val /\ z.saved = <<>> /\ z.rev = Len(log) OBVIOUS
  <2> HIDE DEF z
  <2>8. Oldest(z) = Len(log) BY <1>1, <2>5, <2>7 DEF Oldest
  <2>9. \A i \in 1 .. Len(z.saved) : FALSE BY <2>5, <2>7
  <2>10. Oldest(z) >= 0 /\ z.rev <= MaxHeight /\ Len(z.val) <= MaxHeight /\ z.rev <= Len(z.val)
    BY <1>1, <2>4, <2>7, <2>8, TablesAssumption
  <2>11. Sane(z) BY <2>6, <2>9, <2>10 DEF Sane
  <2> QED BY <1>3, <2>3, <2>7, <2>11
<1>4. Len(work) > 1 \/ Len(work) = 1
  <2>1. PICK k \in Nat : k = Len(work) BY <1>1
  <2>2. k > 0 BY <1>1, <2>1
  <2> QED BY <2>1, <2>2
<1> QED BY <1>2, <1>3, <1>4

\* A reindex does one more table.
LEMMA ReindexingStep ==
  ASSUME TablesOK, damaged' = damaged, TableStep, Reindexing
  PROVE  TablesOK' /\ (Reindexing' \/ Rewound')
<1>1. /\ ~damaged /\ ReplayStages(work) /\ work \in Seq(Stages) /\ work # <<>>
      /\ log \in Seq(Blocks) /\ Len(log) <= MaxHeight /\ log' = log
      /\ tab \in [Tables -> Table] /\ \A v \in Tables : Sane(tab[v])
  BY DEF Reindexing, ReplayStages, TablesOK, TableStep
<1>2. /\ Len(work) \in Nat /\ Len(work) > 0 /\ Head(work) = work[1] /\ work[1] \in Stages
      /\ Len(log) \in Nat
  BY <1>1, LenProperties, EmptySeq
<1> DEFINE left == work[1].left
<1>3. left \subseteq Tables /\ 1 \in Tables BY <1>2, TablesAssumption DEF Stages, Tables
<1>4. PICK u \in left :
        /\ tab[u].saved = <<>> /\ tab[u].rev = 0 /\ Len(tab[u].val) + Len(work) - 1 = Len(log)
        /\ AllWhole(tab[u].val)
        /\ Halfway(left, tab[u], Result(work[1], tab[u]))
  BY DEF Reindexing
<1>5. PICK y : y = tab[u] OBVIOUS
<1>6. PICK z : z = Result(work[1], y) OBVIOUS
<1>7. /\ Sane(y) /\ y.saved = <<>> /\ y.rev = 0 /\ Len(y.val) + Len(work) - 1 = Len(log)
      /\ Halfway(left, y, z) /\ AllWhole(y.val)
  BY <1>1, <1>3, <1>4, <1>5, <1>6
<1>8. /\ Sane(z) /\ z.saved = <<>> /\ AllWhole(z.val)
      /\ Len(work) > 1 => z.rev = 0 /\ Len(z.val) = Len(y.val) + 1
  BY <1>1, <1>6, <1>7, ReplayResult
<1>9. PICK t \in left :
        /\ tab' = [tab EXCEPT ![t] = Result(work[1], tab[t])]
        /\ work' = IF left = {t} THEN Tail(work) ELSE [work EXCEPT ![1].left = @ \ {t}]
  BY <1>2 DEF TableStep
<1>10. tab[t] = y BY <1>3, <1>7 DEF Halfway
<1>11. tab' = [tab EXCEPT ![t] = z] BY <1>6, <1>9, <1>10
<1>12. TablesOK' BY <1>1, <1>3, <1>8, <1>11, SaneStep
<1>13. /\ \A v \in Tables : tab'[v] = IF v \in left \ {t} THEN y ELSE z
       /\ left = {t} => \A v \in Tables : tab'[v] = z
  <2>1. PICK L \in SUBSET Tables : L = left BY <1>3
  <2>2. Halfway(L, y, z) /\ t \in L BY <1>7, <2>1
  <2>3. /\ \A v \in Tables : tab'[v] = IF v \in L \ {t} THEN y ELSE z
        /\ L = {t} => \A v \in Tables : tab'[v] = z
    BY <1>1, <1>11, <2>2, HalfwayStep
  <2> QED BY <2>1, <2>3
<1> HIDE DEF left
<1>14. CASE left # {t}
  <2> DEFINE w == [work EXCEPT ![1].left = @ \ {t}]
  <2>1. /\ w \in Seq(Stages) /\ w # <<>> /\ Len(w) = Len(work)
        /\ w[1] = [do |-> work[1].do, arg |-> work[1].arg, left |-> work[1].left \ {t}]
        /\ \A i \in 2 .. Len(work) : w[i] = work[i]
    BY <1>1, WorkStep
  <2>2. work' = w BY <1>9, <1>14
  <2> HIDE DEF w
  <2>3. w[1].do = work[1].do /\ w[1].arg = work[1].arg /\ w[1].left = left \ {t} BY <2>1 DEF left
  <2>4. left \ {t} # {} BY <1>9, <1>14
  <2>5. \A i \in 1 .. Len(work) : w[i].do = work[i].do /\ w[i].arg = work[i].arg
    BY <1>2, <2>1, <2>3
  <2>6. ReplayStages(work)'
    <3>1. \A i \in 2 .. Len(w) : w[i].left = Tables BY <1>1, <2>1 DEF ReplayStages
    <3>2. \A i \in 1 .. Len(w) - 1 : w[i].do = "change" /\ w[i].arg \in Entries /\ w[i].arg.whole
      BY <1>1, <1>2, <2>1, <2>5 DEF ReplayStages
    <3>3. Len(work) \in 1 .. Len(work) BY <1>2
    <3>4. w[Len(w)].do = "set_revision" /\ w[Len(w)].arg = Len(log')
      BY <1>1, <2>1, <2>5, <3>3 DEF ReplayStages
    <3> QED BY <2>1, <2>2, <2>3, <2>4, <3>1, <3>2, <3>4 DEF ReplayStages
  <2>7. Result(w[1], y) = z BY <1>6, <2>3 DEF Result
  <2>8. PICK q \in left \ {t} : TRUE BY <2>4
  <2>9. tab'[q] = y BY <1>3, <1>13 DEF left
  <2>10. /\ tab'[q].saved = <<>> /\ tab'[q].rev = 0 /\ AllWhole(tab'[q].val) /\ Len(tab'[q].val) + Len(work') - 1 = Len(log')
    BY <1>1, <1>7, <2>1, <2>2, <2>9
  <2>11. \A v \in Tables :
           tab'[v] = IF v \in work'[1].left THEN tab'[q] ELSE Result(work'[1], tab'[q])
    BY <1>13, <2>2, <2>3, <2>7, <2>9
  <2>12. q \in work'[1].left BY <2>2, <2>3, <2>8
  <2>13. Reindexing' BY <1>1, <2>6, <2>10, <2>11, <2>12 DEF Reindexing, Halfway
  <2> QED BY <1>12, <2>13
<1>15. CASE left = {t} /\ Len(work) > 1
  <2> DEFINE w == Tail(work)
  <2>1. w \in Seq(Stages) /\ Len(w) = Len(work) - 1 /\ \A i \in 1 .. Len(w) : w[i] = work[i + 1]
    BY <1>1, HeadTailProperties
  <2>2. work' = w BY <1>9, <1>15
  <2> HIDE DEF w
  <2>3. Len(w) \in Nat /\ Len(w) > 0 /\ w # <<>> /\ 1 \in 1 .. Len(w) /\ Len(w) \in 1 .. Len(w)
    <3>1. Len(w) \in Nat /\ Len(w) > 0 BY <1>2, <1>15, <2>1
    <3> QED BY <3>1
  <2>4. \A i \in 1 .. Len(w) : i + 1 \in 2 .. Len(work) BY <1>2, <2>1
  <2>5. \A i \in 1 .. Len(w) : w[i].left = Tables BY <1>1, <2>1, <2>4 DEF ReplayStages
  <2>6. ReplayStages(work)'
    <3>1. \A i \in 2 .. Len(w) : i \in 1 .. Len(w) BY <2>3
    <3>2. \A i \in 1 .. Len(w) - 1 : w[i].do = "change" /\ w[i].arg \in Entries /\ w[i].arg.whole
      <4> TAKE i \in 1 .. Len(w) - 1
      <4>1. i \in 1 .. Len(w) /\ i + 1 \in 1 .. Len(work) - 1 BY <1>2, <2>1, <2>3
      <4> QED BY <1>1, <2>1, <4>1 DEF ReplayStages
    <3>3. w[Len(w)] = work[Len(work)]
      <4>1. Len(w) + 1 = Len(work) BY <1>2, <2>1
      <4> QED BY <2>1, <2>3, <4>1
    <3>4. w[Len(w)].do = "set_revision" /\ w[Len(w)].arg = Len(log')
      BY <1>1, <3>3 DEF ReplayStages
    <3>5. w[1].left # {} BY <1>3, <2>3, <2>5
    <3> QED BY <2>1, <2>2, <2>3, <2>5, <3>1, <3>2, <3>4, <3>5 DEF ReplayStages
  <2>7. \A v \in Tables : tab'[v] = z BY <1>13, <1>15
  <2>8. work'[1].left = Tables BY <2>2, <2>3, <2>5
  <2>9. Len(tab'[1].val) + Len(work') - 1 = Len(log')
    <3>1. Len(tab'[1].val) = Len(y.val) + 1 BY <1>3, <1>8, <1>15, <2>7
    <3>2. Len(y.val) \in Nat BY <1>7, SaneFacts
    <3>3. Len(work') = Len(work) - 1 BY <2>1, <2>2
    <3>4. Len(y.val) + Len(work) - 1 = Len(log') /\ Len(work) \in Nat BY <1>1, <1>2, <1>7
    <3> QED BY <3>1, <3>2, <3>3, <3>4
  <2>10. /\ tab'[1].saved = <<>> /\ tab'[1].rev = 0 /\ AllWhole(tab'[1].val) /\ 1 \in work'[1].left
         /\ \A v \in Tables :
              tab'[v] = IF v \in work'[1].left THEN tab'[1] ELSE Result(work'[1], tab'[1])
    BY <1>3, <1>8, <1>15, <2>7, <2>8
  <2>11. Reindexing' BY <1>1, <2>6, <2>9, <2>10 DEF Reindexing, Halfway
  <2> QED BY <1>12, <2>11
<1>16. CASE left = {t} /\ Len(work) = 1
  <2>1. work' = <<>>
    <3>1. Tail(work) \in Seq(Stages) /\ Len(Tail(work)) = 0 BY <1>1, <1>16, HeadTailProperties
    <3> QED BY <1>9, <1>16, <3>1, EmptySeq
  <2>2. \A v \in Tables : tab'[v] = z BY <1>13, <1>16
  <2>3. AllUndone(z) = z BY <1>8 DEF AllUndone
  <2>4. Rewound' BY <1>3, <1>8, <2>1, <2>2, <2>3 DEF Rewound, Recoverable
  <2> QED BY <1>12, <2>4
<1>17. Len(work) > 1 \/ Len(work) = 1
  <2>1. PICK k \in Nat : k = Len(work) BY <1>2
  <2>2. k > 0 BY <1>2, <2>1
  <2> QED BY <2>1, <2>2
<1> QED BY <1>14, <1>15, <1>16, <1>17

----------------------------------------------------------------------------
(* A stop, and the next start *)

\* Tables with one content are recoverable.
LEMMA SameRecovers ==
  ASSUME Same, AllWhole(AllUndone(tab[1]).val)
  PROVE  Recoverable
BY DEF Same, Recoverable

\* A stop while sessions are started or a block changes the tables ...
LEMMA ApplyRecovers ==
  ASSUME TablesOK, NEW left \in SUBSET Tables, NEW b \in Entries, NEW lib \in 0 .. MaxHeight,
         Starting(left, b, lib) \/ Changing(left, b, lib), ~damaged
  PROVE  Recoverable
<1>1. 1 \in Tables BY TablesAssumption DEF Tables
<1>2. CASE Starting(left, b, lib)
  <2>1. PICK u \in left : Settled(tab[u]) /\ Halfway(left, tab[u], Started(tab[u]))
    BY <1>2 DEF Starting
  <2>2. tab[u] \in Table /\ AllWhole(AllUndone(tab[u]).val) BY <2>1, ExactFacts, UndoneSettled DEF Settled
  <2>3. AllUndone(Started(tab[u])) = AllUndone(tab[u]) BY <2>2, AllUndoneSame
  <2>4. \A v \in Tables : AllUndone(tab[v]) = AllUndone(tab[u]) BY <2>1, <2>3 DEF Halfway
  <2> QED BY <1>1, <2>2, <2>4 DEF Recoverable
<1>3. CASE Changing(left, b, lib)
  <2>1. PICK u \in left : Opened(tab[u]) /\ tab[u].saved # <<>>
                            /\ Halfway(left, tab[u], Changed(tab[u], b))
    BY <1>3 DEF Changing
  <2>2. tab[u] \in Table /\ AllWhole(AllUndone(tab[u]).val) BY <2>1, ExactFacts, UndoneSettled DEF Opened
  <2>3. AllUndone(Changed(tab[u], b)) = AllUndone(tab[u]) BY <2>1, <2>2, AllUndoneSame
  <2>4. \A v \in Tables : AllUndone(tab[v]) = AllUndone(tab[u]) BY <2>1, <2>3 DEF Halfway
  <2> QED BY <1>1, <2>2, <2>4 DEF Recoverable
<1> QED BY <1>2, <1>3

\* ... while they are committed: the first table then is beyond the log ...
LEMMA CommitRecovers ==
  ASSUME TablesOK, NEW left \in SUBSET Tables, NEW lib \in 0 .. MaxHeight,
         Committing(left, lib), ~damaged
  PROVE  Recoverable
<1>1. 1 \in Tables /\ lib \in Nat BY TablesAssumption DEF Tables
<1>2. PICK u \in left : /\ Begun(tab[u]) /\ tab[u].saved # <<>> /\ lib <= tab[u].rev
                        /\ Halfway(left, tab[u], Committed(tab[u], lib))
  BY DEF Committing
<1>3. Ahead(lib) /\ (1 \in left => left = Tables) BY DEF Committing
<1>4. CASE 1 \in left \/ Committed(tab[u], lib) = tab[u]
  <2>1. \A v \in Tables : tab[v] = tab[u] BY <1>2, <1>3, <1>4 DEF Halfway
  <2>2. AllWhole(AllUndone(tab[u]).val) BY <1>2, UndoneSettled
  <2> QED BY <1>1, <2>1, <2>2 DEF Recoverable
<1>5. CASE 1 \notin left /\ Committed(tab[u], lib) # tab[u]
  <2>1. tab[1] = Committed(tab[u], lib) BY <1>1, <1>2, <1>5 DEF Halfway
  <2>2. lib > 0 /\ Len(AllUndone(tab[1]).val) = lib BY <1>1, <1>2, <1>5, <2>1, CommittedExact DEF Begun
  <2>3. lib > Len(log) BY <1>1, <1>3, <2>2 DEF Ahead
  <2>4. Len(log) \in Nat BY LenProperties DEF TablesOK
  <2> QED BY <1>1, <2>2, <2>3, <2>4 DEF Recoverable
<1> QED BY <1>4, <1>5

\* ... and while they are undone.
LEMMA UndoRecovers ==
  ASSUME TablesOK, NEW left \in SUBSET Tables, Undoing(left), ~damaged
  PROVE  Recoverable
<1>1. 1 \in Tables BY TablesAssumption DEF Tables
<1>2. PICK u \in left :
        /\ Settled(Undone(tab[u]))
        /\ \A v \in Tables : (IF v \in left THEN Undone(tab[v]) ELSE tab[v]) = Undone(tab[u])
  BY DEF Undoing
<1>3. \A v \in Tables : AllUndone(Undone(tab[v])) = AllUndone(tab[v])
  BY AllUndoneAgain DEF TablesOK
<1>4. \A v \in Tables : AllUndone(tab[v]) = AllUndone(Undone(tab[u])) BY <1>2, <1>3
<1>5. AllWhole(AllUndone(Undone(tab[u])).val) BY <1>2, UndoneSettled
<1> QED BY <1>1, <1>4, <1>5 DEF Recoverable

\* ... and after the commit: the session is there, or the block is not in the log.
LEMMA FinishRecovers ==
  ASSUME TablesOK, NEW left \in SUBSET Tables, ~damaged, ~(Tearing /\ Len(log) >= HeadBlockNum),
         Finishing(left) \/ \E lib \in 0 .. MaxHeight : Appending(lib)
  PROVE  Recoverable
<1>1. 1 \in Tables BY TablesAssumption DEF Tables
<1>2. Head(work).do \in {"append", "finish"} /\ work # <<>> BY DEF Finishing, Appending, Doing
<1>3. CASE tab[1].saved = <<>>
  <2>1. Len(log) \in Nat /\ Len(tab[1].val) \in Nat
    BY <1>1, SaneFacts, LenProperties DEF TablesOK
  <2>2. Len(log) < Len(tab[1].val) BY <1>2, <1>3, <2>1 DEF Tearing, HeadBlockNum
  <2>3. AllUndone(tab[1]) = tab[1] BY <1>3 DEF AllUndone
  <2> QED BY <2>2, <2>3 DEF Recoverable
<1>4. CASE tab[1].saved # <<>>
  <2>1. CASE \E lib \in 0 .. MaxHeight : Appending(lib)
    <3>1. Begun(tab[1]) /\ Same BY <2>1 DEF Appending
    <3>2. AllWhole(AllUndone(tab[1]).val) BY <1>4, <3>1, UndoneSettled
    <3> QED BY <3>1, <3>2, SameRecovers
  <2>2. CASE Finishing(left)
    <3>1. PICK u \in left : Begun(tab[u]) /\ Halfway(left, tab[u], Finished(tab[u]))
      BY <2>2 DEF Finishing
    <3>2. tab[u] \in Table BY <3>1, ExactFacts DEF Begun
    <3>3. tab[u].saved # <<>>
      <4>1. Finished(tab[u]).saved = tab[u].saved BY <3>2, FinishedParts
      <4> QED BY <1>1, <1>4, <3>1, <4>1 DEF Halfway
    <3>4. AllUndone(Finished(tab[u])) = AllUndone(tab[u]) BY <3>2, <3>3, FinishedUndone
    <3>5. \A v \in Tables : AllUndone(tab[v]) = AllUndone(tab[u]) BY <3>1, <3>4 DEF Halfway
    <3>6. AllWhole(AllUndone(tab[u]).val) BY <3>1, <3>3, UndoneSettled
    <3> QED BY <1>1, <3>5, <3>6 DEF Recoverable
  <2> QED BY <2>1, <2>2
<1> QED BY <1>3, <1>4

\* Whatever the process is at when it stops, the tables are recoverable, unless
\* it was a reindex or a block that is committed and in the log.
LEMMA StopRecovers ==
  ASSUME TablesOK, Place, ~damaged, ~Replaying, ~(Tearing /\ Len(log) >= HeadBlockNum)
  PROVE  Recoverable
<1>1. CASE Stopped \/ Rewound BY <1>1 DEF Stopped, Rewound
<1>2. CASE ToReplay
  <2>1. 1 \in Tables /\ \A t \in Tables : tab[t] = Empty BY <1>2, TablesAssumption DEF ToReplay, Tables
  <2>2. AllUndone(Empty) = Empty /\ AllWhole(Empty.val) BY DEF AllUndone, Empty, AllWhole
  <2> QED BY <2>1, <2>2 DEF Recoverable
<1>3. CASE InRewind BY <1>3 DEF InRewind, Rewinding
<1>4. CASE Reindexing
  <2>1. work # <<>> /\ work[Len(work)].do = "set_revision" BY <1>4 DEF Reindexing, ReplayStages
  <2> QED BY <2>1 DEF Replaying, Last
<1>5. CASE Ready BY <1>5, SameRecovers, UndoneSettled DEF Ready
<1>6. CASE InApply BY <1>6, ApplyRecovers, CommitRecovers DEF InApply
<1>7. CASE InAppend \/ InFinish BY <1>7, FinishRecovers DEF InAppend, InFinish
<1>8. CASE InUndo BY <1>8, UndoRecovers DEF InUndo
<1> QED BY <1>1, <1>2, <1>3, <1>4, <1>5, <1>6, <1>7, <1>8 DEF Place

\* After the rewind, tables that pass the checks of open() have one content.
LEMMA OpensAgreed ==
  ASSUME TablesOK, Rewound, Opens
  PROVE  Ready
<1>1. 1 \in Tables BY TablesAssumption DEF Tables
<1>2. \A t \in Tables : tab[t].saved = <<>> /\ Sane(tab[t]) BY DEF Rewound, TablesOK
<1>3. \A t \in Tables : AllUndone(tab[t]) = tab[t] BY <1>2 DEF AllUndone
<1>4. \A t \in Tables : tab[t].rev <= Len(tab[t].val) BY <1>2 DEF Sane
<1>5. ASSUME ~damaged PROVE Settled(tab[1]) /\ Same
  <2>1. Len(tab[1].val) \in Nat /\ Len(log) \in Nat /\ tab[1].rev = Len(tab[1].val)
    BY <1>1, <1>2, SaneFacts, LenProperties DEF Opens, Revision, HeadBlockNum, TablesOK
  <2>2. ~(Len(log) < Len(tab[1].val)) BY <2>1 DEF Opens, HeadBlockNum
  <2>3. Same BY <1>1, <1>3, <1>5, <2>2 DEF Rewound, Recoverable, Same
  <2>4. Len(tab[1].saved) = 0 BY <1>1, <1>2
  <2>5. tab[1] \in Table /\ Oldest(tab[1]) >= 0 BY <1>1, <1>2 DEF Sane
  <2>6. Exact(tab[1], 0) BY <2>1, <2>4, <2>5 DEF Exact
  <2>7. AllWhole(tab[1].val) BY <1>1, <1>3, <1>5, <2>2 DEF Rewound, Recoverable
  <2>8. Kept(tab[1]) BY <2>4 DEF Kept
  <2> QED BY <2>3, <2>6, <2>7, <2>8 DEF Settled
<1> QED BY <1>4, <1>5 DEF Ready, Rewound

----------------------------------------------------------------------------
(* The locks *)

\* The place in the ring.
LEMMA RingPlace ==
  ASSUME NEW n \in Nat
  PROVE  n % NumLocks \in 0 .. NumLocks - 1
BY LocksAssumption

\* Every process is at some lock of the ring.
LEMMA SlotFacts ==
  ASSUME LocksTypeOK, NEW p \in Processes
  PROVE  /\ at[p] \in Nat /\ at[p] <= current /\ Slot(p) \in 0 .. NumLocks - 1
         /\ LockOf(p) \in [exclusive : BOOLEAN, shared : 0 .. MaxShared]
         /\ LockOf(p).exclusive \in BOOLEAN /\ LockOf(p).shared \in Nat
<1>1. at[p] \in Nat /\ at[p] <= current BY DEF LocksTypeOK
<1>2. Slot(p) \in 0 .. NumLocks - 1 BY <1>1, RingPlace DEF Slot
<1>3. LockOf(p) \in [exclusive : BOOLEAN, shared : 0 .. MaxShared]
  BY <1>2 DEF LocksTypeOK, LockOf
<1> QED BY <1>1, <1>2, <1>3, LocksAssumption

\* The holders stay when no reader comes in or goes out.
LEMMA HoldersSame ==
  ASSUME \A r \in Readers : /\ pc'[r] = "inside" <=> pc[r] = "inside"
                            /\ pc[r] = "inside" => at'[r] = at[r]
  PROVE  \A i : HoldersAt(i)' = HoldersAt(i)
BY DEF HoldersAt, Slot

\* Readers that are counted are finitely many.
LEMMA HoldersFinite ==
  ASSUME NEW i
  PROVE  IsFiniteSet(HoldersAt(i)) /\ IsFiniteSet(HoldersAt(i) \ lost)
<1>1. HoldersAt(i) \subseteq Readers /\ HoldersAt(i) \ lost \subseteq Readers BY DEF HoldersAt
<1> QED BY <1>1, LocksAssumption, FS_Subset

\* Fewer holders are counted by the same share.
LEMMA FewerHolders ==
  ASSUME NEW S, NEW T, T \subseteq S, IsFiniteSet(S), NEW n \in Nat, Cardinality(S) <= n
  PROVE  Cardinality(T) <= n
BY FS_Subset, FS_CardinalityType

\* Asking for a lock.
LEMMA CurrentLockOK ==
  ASSUME LocksOK, NEW p \in Processes, CurrentLock(p)
  PROVE  LocksOK'
<1>1. /\ LocksTypeOK /\ pc[p] = "idle"
      /\ at' = [at EXCEPT ![p] = current] /\ pc' = [pc EXCEPT ![p] = "wait"]
      /\ current' = current /\ locks' = locks /\ lost' = lost
  BY DEF LocksOK, CurrentLock
<1>2. LocksTypeOK' BY <1>1 DEF LocksTypeOK
<1>3. \A i : HoldersAt(i)' = HoldersAt(i)
  BY <1>1, HoldersSame DEF LocksTypeOK, Processes
<1>4. Writer \in Processes BY DEF Processes
<1>5. CASE p = Writer
  <2>1. pc'[Writer] = "wait" /\ at'[Writer] = current BY <1>1, <1>4, <1>5 DEF LocksTypeOK
  <2> QED BY <1>1, <1>2, <1>3, <2>1 DEF LocksOK
<1>6. CASE p # Writer
  <2>1. pc'[Writer] = pc[Writer] /\ at'[Writer] = at[Writer] BY <1>1, <1>4, <1>6 DEF LocksTypeOK
  <2> QED BY <1>1, <1>2, <1>3, <2>1 DEF LocksOK, Slot, LockOf
<1> QED BY <1>5, <1>6

\* A reader that gives up.
LEMMA ReadTimeoutOK ==
  ASSUME LocksOK, NEW r \in Readers, ReadTimeout(r)
  PROVE  LocksOK'
<1>1. /\ LocksTypeOK /\ pc[r] = "wait" /\ r \in Processes /\ r # Writer /\ Writer \in Processes
      /\ at' = [at EXCEPT ![r] = 0] /\ pc' = [pc EXCEPT ![r] = "idle"]
      /\ current' = current /\ locks' = locks /\ lost' = lost
  BY LocksAssumption DEF LocksOK, ReadTimeout, Idle, Processes
<1>2. LocksTypeOK' BY <1>1 DEF LocksTypeOK
<1>3. \A i : HoldersAt(i)' = HoldersAt(i)
  BY <1>1, HoldersSame DEF LocksTypeOK, Processes
<1>4. pc'[Writer] = pc[Writer] /\ at'[Writer] = at[Writer] BY <1>1 DEF LocksTypeOK
<1> QED BY <1>1, <1>2, <1>3, <1>4 DEF LocksOK, Slot, LockOf

\* The writer claims the lock, and gets it when nobody is counted.
LEMMA ClaimOK ==
  ASSUME LocksOK, ClaimExclusive(Writer)
  PROVE  LocksOK'
<1>1. /\ LocksTypeOK /\ pc[Writer] = "wait" /\ Writer \in Processes
      /\ locks' = [locks EXCEPT ![Slot(Writer)].exclusive = TRUE]
      /\ pc' = [pc EXCEPT ![Writer] = "claimed"]
      /\ current' = current /\ at' = at /\ lost' = lost
  BY DEF LocksOK, ClaimExclusive, Processes
<1>2. Slot(Writer) \in 0 .. NumLocks - 1 BY <1>1, SlotFacts
<1>3. /\ locks' \in [0 .. NumLocks - 1 -> [exclusive : BOOLEAN, shared : 0 .. MaxShared]]
      /\ locks'[Slot(Writer)].exclusive
      /\ \A i \in 0 .. NumLocks - 1 : locks'[i].shared = locks[i].shared
  <2>1. PICK c \in 0 .. NumLocks - 1 : c = Slot(Writer) BY <1>2
  <2>2. /\ locks \in [0 .. NumLocks - 1 -> [exclusive : BOOLEAN, shared : 0 .. MaxShared]]
        /\ locks' = [locks EXCEPT ![c].exclusive = TRUE]
    BY <1>1, <2>1 DEF LocksTypeOK
  <2>3. locks' \in [0 .. NumLocks - 1 -> [exclusive : BOOLEAN, shared : 0 .. MaxShared]] BY <2>2
  <2>4. \A i \in 0 .. NumLocks - 1 : locks'[i].shared = locks[i].shared BY <2>2
  <2>5. locks'[c].exclusive = TRUE BY <2>2
  <2> QED BY <2>1, <2>3, <2>4, <2>5
<1>4. pc'[Writer] = "claimed" /\ \A r \in Readers : pc'[r] = pc[r]
  BY <1>1, LocksAssumption DEF LocksTypeOK, Processes
<1>5. LocksTypeOK'
  <2>1. pc' \in [Processes -> {"idle", "wait", "claimed", "bump", "inside"}] BY <1>1 DEF LocksTypeOK
  <2>2. lost' \subseteq {r \in Readers : pc'[r] = "inside"} BY <1>1, <1>4 DEF LocksTypeOK
  <2> QED BY <1>1, <1>3, <2>1, <2>2 DEF LocksTypeOK
<1>6. \A i : HoldersAt(i)' = HoldersAt(i) BY <1>1, <1>4, HoldersSame
<1>7. at'[Writer] = current' BY <1>1 DEF LocksOK
<1>8. LockOf(Writer)'.exclusive BY <1>1, <1>3 DEF LockOf, Slot
<1>9. \A i \in 0 .. NumLocks - 1 : Cardinality(HoldersAt(i)' \ lost') <= locks'[i].shared
  BY <1>1, <1>3, <1>6 DEF LocksOK
<1> QED BY <1>4, <1>5, <1>7, <1>8, <1>9 DEF LocksOK

\* Nobody who is counted is in when the writer comes in.
LEMMA EnterOK ==
  ASSUME LocksOK, LockExclusive(Writer)
  PROVE  LocksOK'
<1>1. /\ LocksTypeOK /\ pc[Writer] = "claimed" /\ Writer \in Processes
      /\ LockOf(Writer).shared = 0
      /\ pc' = [pc EXCEPT ![Writer] = "inside"]
      /\ current' = current /\ at' = at /\ lost' = lost /\ locks' = locks
  BY DEF LocksOK, LockExclusive, Processes
<1>2. Slot(Writer) \in 0 .. NumLocks - 1 BY <1>1, SlotFacts
<1>3. pc'[Writer] = "inside" /\ \A r \in Readers : pc'[r] = pc[r]
  BY <1>1, LocksAssumption DEF LocksTypeOK, Processes
<1>4. LocksTypeOK'
  <2>1. pc' \in [Processes -> {"idle", "wait", "claimed", "bump", "inside"}] BY <1>1 DEF LocksTypeOK
  <2>2. lost' \subseteq {r \in Readers : pc'[r] = "inside"} BY <1>1, <1>3 DEF LocksTypeOK
  <2> QED BY <1>1, <2>1, <2>2 DEF LocksTypeOK
<1>5. \A i : HoldersAt(i)' = HoldersAt(i) BY <1>1, <1>3, HoldersSame
<1>6. Cardinality(HoldersAt(Slot(Writer)) \ lost) <= 0 BY <1>1, <1>2 DEF LocksOK, LockOf
<1>7. HoldersAt(Slot(Writer)) \ lost = {}
  <2>1. IsFiniteSet(HoldersAt(Slot(Writer)) \ lost) BY HoldersFinite
  <2>2. Cardinality(HoldersAt(Slot(Writer)) \ lost) \in Nat BY <2>1, FS_CardinalityType
  <2> QED BY <1>6, <2>1, <2>2, FS_EmptySet
<1>8. HoldersAt(Slot(Writer))' \subseteq lost'
  <2>1. Slot(Writer)' = Slot(Writer) BY <1>1 DEF Slot
  <2>2. HoldersAt(Slot(Writer))' = HoldersAt(Slot(Writer)) BY <1>1, <1>3 DEF HoldersAt, Slot
  <2> QED BY <1>1, <1>7, <2>2
<1>9. at'[Writer] = current' /\ LockOf(Writer)'.exclusive BY <1>1 DEF LocksOK, LockOf, Slot
<1>10. \A i \in 0 .. NumLocks - 1 : Cardinality(HoldersAt(i)' \ lost') <= locks'[i].shared
  BY <1>1, <1>5 DEF LocksOK
<1> QED BY <1>4, <1>8, <1>9, <1>10 DEF LocksOK

\* The writer loses patience ...
LEMMA WriteTimeoutOK ==
  ASSUME LocksOK, WriteTimeout(Writer)
  PROVE  LocksOK'
<1>1. /\ LocksTypeOK /\ pc[Writer] \in {"wait", "claimed"} /\ Writer \in Processes
      /\ locks' = locks \/ locks' = [locks EXCEPT ![Slot(Writer)].exclusive = FALSE]
      /\ pc' = [pc EXCEPT ![Writer] = "bump"]
      /\ current' = current + 1 /\ at' = at /\ lost' = lost
  BY DEF LocksOK, WriteTimeout, Processes
<1>2. Slot(Writer) \in 0 .. NumLocks - 1 BY <1>1, SlotFacts
<1>3. /\ locks' \in [0 .. NumLocks - 1 -> [exclusive : BOOLEAN, shared : 0 .. MaxShared]]
      /\ \A i \in 0 .. NumLocks - 1 : locks'[i].shared = locks[i].shared
  <2>1. PICK c \in 0 .. NumLocks - 1 : c = Slot(Writer) BY <1>2
  <2>2. /\ locks \in [0 .. NumLocks - 1 -> [exclusive : BOOLEAN, shared : 0 .. MaxShared]]
        /\ locks' = locks \/ locks' = [locks EXCEPT ![c].exclusive = FALSE]
    BY <1>1, <2>1 DEF LocksTypeOK
  <2>3. CASE locks' = locks BY <2>2, <2>3
  <2>4. CASE locks' = [locks EXCEPT ![c].exclusive = FALSE] BY <2>2, <2>4
  <2> QED BY <2>2, <2>3, <2>4
<1>4. pc'[Writer] = "bump" /\ \A r \in Readers : pc'[r] = pc[r]
  BY <1>1, LocksAssumption DEF LocksTypeOK, Processes
<1>5. LocksTypeOK'
  <2>1. pc' \in [Processes -> {"idle", "wait", "claimed", "bump", "inside"}] BY <1>1 DEF LocksTypeOK
  <2>2. lost' \subseteq {r \in Readers : pc'[r] = "inside"} BY <1>1, <1>4 DEF LocksTypeOK
  <2>3. current' \in Nat /\ at' \in [Processes -> 0 .. current'] BY <1>1 DEF LocksTypeOK
  <2> QED BY <1>3, <2>1, <2>2, <2>3 DEF LocksTypeOK
<1>6. \A i : HoldersAt(i)' = HoldersAt(i) BY <1>1, <1>4, HoldersSame
<1>7. \A i \in 0 .. NumLocks - 1 : Cardinality(HoldersAt(i)' \ lost') <= locks'[i].shared
  BY <1>1, <1>3, <1>6 DEF LocksOK
<1> QED BY <1>4, <1>5, <1>7 DEF LocksOK

\* ... and builds the next lock, under whoever holds it.
LEMMA NextLockOK ==
  ASSUME LocksOK, NextLock(Writer)
  PROVE  LocksOK'
<1> DEFINE c == current % NumLocks
<1>1. /\ LocksTypeOK /\ pc[Writer] = "bump" /\ Writer \in Processes /\ current \in Nat
      /\ locks' = [locks EXCEPT ![c] = Free]
      /\ at' = [at EXCEPT ![Writer] = current]
      /\ pc' = [pc EXCEPT ![Writer] = "wait"]
      /\ lost' = lost \cup HoldersAt(c)
      /\ current' = current
  BY DEF LocksOK, NextLock, Processes, LocksTypeOK
<1>2. c \in 0 .. NumLocks - 1 BY <1>1, RingPlace
<1> HIDE DEF c
<1>3. Free \in [exclusive : BOOLEAN, shared : 0 .. MaxShared] /\ Free.shared = 0
  BY LocksAssumption DEF Free
<1>4. /\ locks' \in [0 .. NumLocks - 1 -> [exclusive : BOOLEAN, shared : 0 .. MaxShared]]
      /\ locks'[c].shared = 0 /\ \A i \in 0 .. NumLocks - 1 : i # c => locks'[i] = locks[i]
  BY <1>1, <1>2, <1>3 DEF LocksTypeOK
<1>5. /\ pc'[Writer] = "wait" /\ at'[Writer] = current
      /\ \A r \in Readers : pc'[r] = pc[r] /\ at'[r] = at[r]
  BY <1>1, LocksAssumption DEF LocksTypeOK, Processes
<1>6. \A i : HoldersAt(i)' = HoldersAt(i) BY <1>5, HoldersSame
<1>7. LocksTypeOK'
  <2>1. pc' \in [Processes -> {"idle", "wait", "claimed", "bump", "inside"}] BY <1>1 DEF LocksTypeOK
  <2>2. lost' \subseteq {r \in Readers : pc'[r] = "inside"} BY <1>1, <1>5 DEF LocksTypeOK, HoldersAt
  <2>3. at' \in [Processes -> 0 .. current'] BY <1>1 DEF LocksTypeOK
  <2> QED BY <1>1, <1>4, <2>1, <2>2, <2>3 DEF LocksTypeOK
<1>8. \A i \in 0 .. NumLocks - 1 : Cardinality(HoldersAt(i)' \ lost') <= locks'[i].shared
  <2> TAKE i \in 0 .. NumLocks - 1
  <2>1. CASE i = c
    <3>1. HoldersAt(i)' \ lost' = {} BY <1>1, <1>6, <2>1
    <3> QED BY <1>4, <2>1, <3>1, FS_EmptySet
  <2>2. CASE i # c
    <3>1. HoldersAt(i)' \ lost' \subseteq HoldersAt(i) \ lost BY <1>1, <1>6
    <3>2. locks'[i].shared = locks[i].shared /\ locks[i].shared \in Nat
      BY <1>1, <1>4, <2>2, LocksAssumption DEF LocksTypeOK
    <3>3. Cardinality(HoldersAt(i) \ lost) <= locks[i].shared BY DEF LocksOK
    <3> QED BY <3>1, <3>2, <3>3, HoldersFinite, FewerHolders
  <2> QED BY <2>1, <2>2
<1> QED BY <1>1, <1>5, <1>7, <1>8 DEF LocksOK

\* The writer leaves.
LEMMA UnlockOK ==
  ASSUME LocksOK, Unlock(Writer)
  PROVE  LocksOK'
<1>1. /\ LocksTypeOK /\ pc[Writer] = "inside" /\ Writer \in Processes
      /\ locks' = [locks EXCEPT ![Slot(Writer)].exclusive = FALSE]
      /\ pc' = [pc EXCEPT ![Writer] = "idle"] /\ at' = [at EXCEPT ![Writer] = 0]
      /\ current' = current /\ lost' = lost
  BY DEF LocksOK, Unlock, Idle, Processes
<1>2. Slot(Writer) \in 0 .. NumLocks - 1 BY <1>1, SlotFacts
<1>3. /\ locks' \in [0 .. NumLocks - 1 -> [exclusive : BOOLEAN, shared : 0 .. MaxShared]]
      /\ \A i \in 0 .. NumLocks - 1 : locks'[i].shared = locks[i].shared
  <2>1. PICK c \in 0 .. NumLocks - 1 : c = Slot(Writer) BY <1>2
  <2>2. /\ locks \in [0 .. NumLocks - 1 -> [exclusive : BOOLEAN, shared : 0 .. MaxShared]]
        /\ locks' = [locks EXCEPT ![c].exclusive = FALSE]
    BY <1>1, <2>1 DEF LocksTypeOK
  <2> QED BY <2>2
<1>4. /\ pc'[Writer] = "idle" /\ \A r \in Readers : pc'[r] = pc[r] /\ at'[r] = at[r]
  BY <1>1, LocksAssumption DEF LocksTypeOK, Processes
<1>5. LocksTypeOK'
  <2>1. pc' \in [Processes -> {"idle", "wait", "claimed", "bump", "inside"}] BY <1>1 DEF LocksTypeOK
  <2>2. lost' \subseteq {r \in Readers : pc'[r] = "inside"} BY <1>1, <1>4 DEF LocksTypeOK
  <2>3. at' \in [Processes -> 0 .. current'] BY <1>1 DEF LocksTypeOK
  <2> QED BY <1>1, <1>3, <2>1, <2>2, <2>3 DEF LocksTypeOK
<1>6. \A i : HoldersAt(i)' = HoldersAt(i) BY <1>4, HoldersSame
<1>7. \A i \in 0 .. NumLocks - 1 : Cardinality(HoldersAt(i)' \ lost') <= locks'[i].shared
  BY <1>1, <1>3, <1>6 DEF LocksOK
<1> QED BY <1>4, <1>5, <1>7 DEF LocksOK

\* A reader comes in, and is counted.
LEMMA LockSharableOK ==
  ASSUME LocksOK, NEW r \in Readers, LockSharable(r)
  PROVE  LocksOK'
<1>1. /\ LocksTypeOK /\ pc[r] = "wait" /\ r \in Processes /\ r # Writer /\ Writer \in Processes
      /\ ~LockOf(r).exclusive /\ LockOf(r).shared < MaxShared
      /\ locks' = [locks EXCEPT ![Slot(r)].shared = @ + 1]
      /\ pc' = [pc EXCEPT ![r] = "inside"]
      /\ current' = current /\ at' = at /\ lost' = lost
  BY LocksAssumption DEF LocksOK, LockSharable, MayShare, Processes
<1>2. PICK c \in 0 .. NumLocks - 1 : c = Slot(r) BY <1>1, SlotFacts
<1>3. /\ locks \in [0 .. NumLocks - 1 -> [exclusive : BOOLEAN, shared : 0 .. MaxShared]]
      /\ locks' = [locks EXCEPT ![c].shared = @ + 1] /\ locks[c].shared < MaxShared
      /\ locks[c].shared \in Nat /\ ~locks[c].exclusive
  BY <1>1, <1>2, LocksAssumption DEF LocksTypeOK, LockOf
<1>4. /\ locks' \in [0 .. NumLocks - 1 -> [exclusive : BOOLEAN, shared : 0 .. MaxShared]]
      /\ locks'[c].shared = locks[c].shared + 1
      /\ \A i \in 0 .. NumLocks - 1 : locks'[i].exclusive = locks[i].exclusive
      /\ \A i \in 0 .. NumLocks - 1 : i # c => locks'[i] = locks[i]
  <2>1. \A i \in 0 .. NumLocks - 1 : i # c => locks'[i] = locks[i] BY <1>3
  <2>2. locks'[c] = [locks[c] EXCEPT !.shared = @ + 1] BY <1>3
  <2>3. locks'[c].shared = locks[c].shared + 1 /\ locks'[c].exclusive = locks[c].exclusive
    BY <1>3, <2>2
  <2>4. locks[c].shared + 1 \in 0 .. MaxShared BY <1>3, LocksAssumption
  <2>5. locks' \in [0 .. NumLocks - 1 -> [exclusive : BOOLEAN, shared : 0 .. MaxShared]]
    BY <1>3, <2>4
  <2> QED BY <2>1, <2>3, <2>5
<1>5. /\ pc'[r] = "inside" /\ pc'[Writer] = pc[Writer]
      /\ \A q \in Readers : q # r => pc'[q] = pc[q]
  BY <1>1 DEF LocksTypeOK, Processes
<1>6. r \notin lost BY <1>1 DEF LocksTypeOK
<1>7. LocksTypeOK'
  <2>1. pc' \in [Processes -> {"idle", "wait", "claimed", "bump", "inside"}] BY <1>1 DEF LocksTypeOK
  <2>2. lost' \subseteq {q \in Readers : pc'[q] = "inside"} BY <1>1, <1>5 DEF LocksTypeOK
  <2> QED BY <1>1, <1>4, <2>1, <2>2 DEF LocksTypeOK
<1>8. /\ HoldersAt(c)' = HoldersAt(c) \cup {r} /\ r \notin HoldersAt(c)
      /\ \A i \in 0 .. NumLocks - 1 : i # c => HoldersAt(i)' = HoldersAt(i)
  BY <1>1, <1>2, <1>5 DEF HoldersAt, Slot
<1>9. \A i \in 0 .. NumLocks - 1 : Cardinality(HoldersAt(i)' \ lost') <= locks'[i].shared
  <2> TAKE i \in 0 .. NumLocks - 1
  <2>1. CASE i = c
    <3> DEFINE S == HoldersAt(c) \ lost
    <3>1. HoldersAt(i)' \ lost' = S \cup {r} /\ r \notin S BY <1>1, <1>6, <1>8, <2>1
    <3>2. IsFiniteSet(S) BY HoldersFinite
    <3>3. Cardinality(S \cup {r}) = Cardinality(S) + 1 BY <3>1, <3>2, FS_AddElement
    <3>4. Cardinality(S) \in Nat /\ Cardinality(S) <= locks[c].shared
      BY <3>2, FS_CardinalityType DEF LocksOK
    <3> HIDE DEF S
    <3>5. Cardinality(S) + 1 <= locks[c].shared + 1 BY <1>3, <3>4
    <3>6. Cardinality(S \cup {r}) <= locks'[c].shared BY <1>4, <3>3, <3>5
    <3> QED BY <2>1, <3>1, <3>6
  <2>2. CASE i # c BY <1>1, <1>4, <1>8, <2>2 DEF LocksOK
  <2> QED BY <2>1, <2>2
<1>10. /\ Slot(Writer)' = Slot(Writer) /\ LockOf(Writer)'.exclusive = LockOf(Writer).exclusive
       /\ Slot(Writer) \in 0 .. NumLocks - 1
  BY <1>1, <1>4, SlotFacts DEF Slot, LockOf
<1>11. ASSUME pc[Writer] = "inside" PROVE HoldersAt(Slot(Writer))' \subseteq lost'
  <2>1. Slot(Writer) # c
    <3>1. LockOf(Writer).exclusive BY <1>11 DEF LocksOK
    <3> QED BY <1>3, <3>1 DEF LockOf
  <2>2. PICK d \in 0 .. NumLocks - 1 : d = Slot(Writer) BY <1>10
  <2>3. HoldersAt(d) \subseteq lost /\ HoldersAt(d)' = HoldersAt(d)
    BY <1>8, <1>11, <2>1, <2>2 DEF LocksOK
  <2>4. HoldersAt(Slot(Writer))' = HoldersAt(d)' BY <1>1, <2>2 DEF HoldersAt, Slot
  <2> QED BY <1>1, <2>3, <2>4
<1> QED BY <1>1, <1>5, <1>7, <1>9, <1>10, <1>11 DEF LocksOK

\* The counter of a lock whose share is given back.
LEMMA OneLess ==
  ASSUME NEW n \in 0 .. MaxShared
  PROVE  /\ (n + MaxShared) % (MaxShared + 1) \in 0 .. MaxShared
         /\ n > 0 => (n + MaxShared) % (MaxShared + 1) = n - 1
<1> DEFINE m == MaxShared + 1
<1>1. MaxShared \in Nat /\ m \in Nat /\ m > 0 /\ n \in Nat BY LocksAssumption
<1>2. CASE n = 0
  <2>1. (n + MaxShared) % m \in 0 .. m - 1 BY <1>1
  <2> QED BY <1>1, <1>2, <2>1
<1>3. CASE n > 0
  <2>1. n + MaxShared = m + (n - 1) /\ n - 1 \in 0 .. m - 1 BY <1>1, <1>3
  <2> HIDE DEF m
  <2>2. (m + (n - 1)) % m = n - 1 BY <1>1, <2>1
  <2> QED BY <1>1, <2>1, <2>2 DEF m
<1> QED BY <1>1, <1>2, <1>3

\* A reader goes: it takes its own share back, or somebody else's.
LEMMA UnlockSharableOK ==
  ASSUME LocksOK, NEW r \in Readers, UnlockSharable(r)
  PROVE  LocksOK'
<1>1. /\ LocksTypeOK /\ pc[r] = "inside" /\ r \in Processes /\ r # Writer /\ Writer \in Processes
      /\ locks' = [locks EXCEPT ![Slot(r)].shared = (@ + MaxShared) % (MaxShared + 1)]
      /\ pc' = [pc EXCEPT ![r] = "idle"] /\ at' = [at EXCEPT ![r] = 0]
      /\ lost' = (IF r \in lost THEN lost \cup HoldersAt(Slot(r)) ELSE lost) \ {r}
      /\ current' = current
  BY LocksAssumption DEF LocksOK, UnlockSharable, Idle, Processes
<1>2. PICK c \in 0 .. NumLocks - 1 : c = Slot(r) BY <1>1, SlotFacts
<1>3. PICK k : k = (locks[c].shared + MaxShared) % (MaxShared + 1) OBVIOUS
<1>4. /\ locks \in [0 .. NumLocks - 1 -> [exclusive : BOOLEAN, shared : 0 .. MaxShared]]
      /\ locks' = [locks EXCEPT ![c].shared = k]
      /\ locks[c].shared \in 0 .. MaxShared
  BY <1>1, <1>2, <1>3 DEF LocksTypeOK
<1>5. k \in 0 .. MaxShared /\ (locks[c].shared > 0 => k = locks[c].shared - 1)
  BY <1>3, <1>4, OneLess
<1>6. /\ locks' \in [0 .. NumLocks - 1 -> [exclusive : BOOLEAN, shared : 0 .. MaxShared]]
      /\ locks'[c].shared = k
      /\ \A i \in 0 .. NumLocks - 1 : locks'[i].exclusive = locks[i].exclusive
      /\ \A i \in 0 .. NumLocks - 1 : i # c => locks'[i] = locks[i]
  <2>1. \A i \in 0 .. NumLocks - 1 : i # c => locks'[i] = locks[i] BY <1>4
  <2>2. locks'[c] = [locks[c] EXCEPT !.shared = k] BY <1>4
  <2>3. locks'[c].shared = k /\ locks'[c].exclusive = locks[c].exclusive BY <1>4, <2>2
  <2>4. locks' \in [0 .. NumLocks - 1 -> [exclusive : BOOLEAN, shared : 0 .. MaxShared]]
    BY <1>4, <1>5
  <2> QED BY <2>1, <2>3, <2>4
<1>7. /\ pc'[r] = "idle" /\ pc'[Writer] = pc[Writer] /\ at'[Writer] = at[Writer]
      /\ \A q \in Readers : q # r => pc'[q] = pc[q] /\ at'[q] = at[q]
  BY <1>1 DEF LocksTypeOK, Processes
<1>8. \A i : HoldersAt(i)' = HoldersAt(i) \ {r}
  BY <1>7 DEF HoldersAt, Slot
<1>9. r \in HoldersAt(c) /\ \A i \in 0 .. NumLocks - 1 : i # c => r \notin HoldersAt(i)
  BY <1>1, <1>2 DEF HoldersAt
<1>10. LocksTypeOK'
  <2>1. pc' \in [Processes -> {"idle", "wait", "claimed", "bump", "inside"}] BY <1>1 DEF LocksTypeOK
  <2>2. at' \in [Processes -> 0 .. current'] BY <1>1 DEF LocksTypeOK
  <2>3. lost' \subseteq {q \in Readers : pc'[q] = "inside"}
    <3>1. lost \subseteq {q \in Readers : pc[q] = "inside"} BY <1>1 DEF LocksTypeOK
    <3>2. HoldersAt(Slot(r)) \subseteq {q \in Readers : pc[q] = "inside"} BY DEF HoldersAt
    <3> QED BY <1>1, <1>7, <3>1, <3>2
  <2>4. current' \in Nat BY <1>1 DEF LocksTypeOK
  <2> QED BY <1>6, <2>1, <2>2, <2>3, <2>4 DEF LocksTypeOK
<1>11. \A i \in 0 .. NumLocks - 1 : Cardinality(HoldersAt(i)' \ lost') <= locks'[i].shared
  <2> TAKE i \in 0 .. NumLocks - 1
  <2>0. /\ locks'[i].shared \in Nat /\ locks[i].shared \in Nat
        /\ Cardinality(HoldersAt(i) \ lost) <= locks[i].shared
    BY <1>4, <1>6, LocksAssumption DEF LocksOK
  <2>1. CASE i = c /\ r \in lost
    <3>1. HoldersAt(i)' \ lost' = {} BY <1>1, <1>2, <1>8, <2>1
    <3>2. Cardinality({}) = 0 BY FS_EmptySet
    <3>3. 0 <= locks'[i].shared BY <2>0
    <3> QED BY <3>1, <3>2, <3>3, Zenon
  <2>2. CASE i = c /\ r \notin lost
    <3> DEFINE S == HoldersAt(c) \ lost
    <3>1. HoldersAt(i)' \ lost' = S \ {r} /\ r \in S BY <1>1, <1>8, <1>9, <2>2
    <3>2. IsFiniteSet(S) BY HoldersFinite
    <3>3. Cardinality(S \ {r}) = Cardinality(S) - 1 /\ Cardinality(S) # 0
      BY <3>1, <3>2, FS_RemoveElement, FS_EmptySet
    <3>4. Cardinality(S) \in Nat /\ Cardinality(S) <= locks[c].shared
      BY <2>0, <2>2, <3>2, FS_CardinalityType
    <3> HIDE DEF S
    <3>5. locks[c].shared > 0 /\ locks[c].shared \in Nat BY <2>0, <2>2, <3>3, <3>4
    <3>6. k = locks[c].shared - 1 BY <1>5, <3>5
    <3>7. Cardinality(S) - 1 <= locks[c].shared - 1 BY <3>4, <3>5
    <3>8. Cardinality(S \ {r}) <= locks'[c].shared BY <1>6, <3>3, <3>6, <3>7
    <3> QED BY <2>2, <3>1, <3>8
  <2>3. CASE i # c
    <3>1. HoldersAt(i)' \ lost' \subseteq HoldersAt(i) \ lost
      BY <1>1, <1>8, <1>9, <2>3
    <3>2. locks'[i].shared = locks[i].shared BY <1>6, <2>3
    <3>3. Cardinality(HoldersAt(i)' \ lost') <= locks[i].shared
      BY <2>0, <3>1, HoldersFinite, FewerHolders
    <3> QED BY <3>2, <3>3
  <2> QED BY <2>1, <2>2, <2>3
<1>12. Slot(Writer)' = Slot(Writer) /\ Slot(Writer) \in 0 .. NumLocks - 1
  BY <1>1, <1>7, SlotFacts DEF Slot
<1>13. LockOf(Writer)'.exclusive = LockOf(Writer).exclusive
  BY <1>6, <1>12 DEF LockOf
<1>14. ASSUME pc[Writer] = "inside" PROVE HoldersAt(Slot(Writer))' \subseteq lost'
  <2>1. PICK d : d = Slot(Writer) OBVIOUS
  <2>2. HoldersAt(d) \subseteq lost BY <1>14, <2>1 DEF LocksOK
  <2>3. HoldersAt(Slot(Writer))' = HoldersAt(d)' BY <1>12, <2>1 DEF HoldersAt
  <2>4. HoldersAt(d)' = HoldersAt(d) \ {r} BY <1>8
  <2>5. lost \ {r} \subseteq lost' BY <1>1
  <2> QED BY <2>2, <2>3, <2>4, <2>5
<1> QED BY <1>1, <1>7, <1>10, <1>11, <1>13, <1>14 DEF LocksOK

\* A process dies; its share stays.
LEMMA DieOK ==
  ASSUME LocksOK, NEW p \in Processes, Die(p)
  PROVE  LocksOK'
<1>1. /\ LocksTypeOK /\ Writer \in Processes
      /\ pc' = [pc EXCEPT ![p] = "idle"] /\ at' = [at EXCEPT ![p] = 0]
      /\ lost' = lost \ {p} /\ current' = current /\ locks' = locks
  BY DEF LocksOK, Die, Idle, Processes
<1>2. /\ pc'[p] = "idle" /\ \A q \in Processes : q # p => pc'[q] = pc[q] /\ at'[q] = at[q]
  BY <1>1 DEF LocksTypeOK
<1>3. \A i : HoldersAt(i)' = HoldersAt(i) \ {p}
  BY <1>2 DEF HoldersAt, Slot, Processes
<1>4. LocksTypeOK'
  <2>1. pc' \in [Processes -> {"idle", "wait", "claimed", "bump", "inside"}] BY <1>1 DEF LocksTypeOK
  <2>2. at' \in [Processes -> 0 .. current'] BY <1>1 DEF LocksTypeOK
  <2>3. lost' \subseteq {q \in Readers : pc'[q] = "inside"} BY <1>1, <1>2 DEF LocksTypeOK, Processes
  <2> QED BY <1>1, <2>1, <2>2, <2>3 DEF LocksTypeOK
<1>5. \A i \in 0 .. NumLocks - 1 : Cardinality(HoldersAt(i)' \ lost') <= locks'[i].shared
  <2> TAKE i \in 0 .. NumLocks - 1
  <2>1. HoldersAt(i)' \ lost' \subseteq HoldersAt(i) \ lost BY <1>1, <1>3
  <2>2. /\ locks'[i].shared = locks[i].shared /\ locks[i].shared \in Nat
        /\ Cardinality(HoldersAt(i) \ lost) <= locks[i].shared
    BY <1>1, LocksAssumption DEF LocksTypeOK, LocksOK
  <2>3. Cardinality(HoldersAt(i)' \ lost') <= locks[i].shared
    BY <2>1, <2>2, HoldersFinite, FewerHolders
  <2> QED BY <2>2, <2>3
<1>6. CASE p = Writer BY <1>2, <1>4, <1>5, <1>6 DEF LocksOK
<1>7. CASE p # Writer
  <2>1. pc'[Writer] = pc[Writer] /\ at'[Writer] = at[Writer] BY <1>1, <1>2, <1>7
  <2>2. Slot(Writer)' = Slot(Writer) /\ LockOf(Writer)' = LockOf(Writer)
    BY <1>1, <2>1 DEF Slot, LockOf
  <2>3. ASSUME pc[Writer] = "inside" PROVE HoldersAt(Slot(Writer))' \subseteq lost'
    <3>1. PICK d : d = Slot(Writer) OBVIOUS
    <3>2. HoldersAt(d) \subseteq lost BY <2>3, <3>1 DEF LocksOK
    <3>3. HoldersAt(Slot(Writer))' = HoldersAt(d)' BY <2>2, <3>1 DEF HoldersAt
    <3>4. HoldersAt(d)' = HoldersAt(d) \ {p} BY <1>3
    <3> QED BY <1>1, <3>2, <3>3, <3>4
  <2> QED BY <1>1, <1>4, <1>5, <2>1, <2>2, <2>3 DEF LocksOK
<1> QED BY <1>6, <1>7

\* A new file: nobody is in any lock.
LEMMA NewLocksOK ==
  ASSUME NewLocks
  PROVE  LocksOK' /\ pc'[Writer] = "wait"
<1>1. /\ current' = 0 /\ locks' = [i \in 0 .. NumLocks - 1 |-> Free]
      /\ at' = [p \in Processes |-> 0] /\ lost' = {}
      /\ pc' = [p \in Processes |-> IF p = Writer THEN "wait" ELSE "idle"]
  BY DEF NewLocks
<1>2. Free \in [exclusive : BOOLEAN, shared : 0 .. MaxShared] /\ Free.shared = 0
  BY LocksAssumption DEF Free
<1>3. /\ pc'[Writer] = "wait" /\ at'[Writer] = 0 /\ \A r \in Readers : pc'[r] = "idle"
  BY <1>1, LocksAssumption DEF Processes
<1>4. \A i : HoldersAt(i)' = {} BY <1>3 DEF HoldersAt
<1>5. LocksTypeOK' BY <1>1, <1>2 DEF LocksTypeOK
<1>6. \A i \in 0 .. NumLocks - 1 : Cardinality(HoldersAt(i)' \ lost') <= locks'[i].shared
  <2> TAKE i \in 0 .. NumLocks - 1
  <2>1. HoldersAt(i)' \ lost' = {} /\ Cardinality({}) = 0 BY <1>4, FS_EmptySet
  <2>2. locks'[i].shared = 0 BY <1>1, <1>2
  <2> QED BY <2>1, <2>2
<1> QED BY <1>1, <1>3, <1>5, <1>6 DEF LocksOK

----------------------------------------------------------------------------
(* The steps of the processes *)

\* A step that leaves the tables, the writer's place and the damage alone.
LEMMA PlaceSame ==
  ASSUME TablesOK, Place, UNCHANGED <<tableVars, status, goal, damaged>>,
         pc'[Writer] = pc[Writer]
         \/ (pc[Writer] # "inside" /\ pc'[Writer] \in Waiting /\ status # "down")
  PROVE  TablesOK' /\ Place'
<1>1. /\ tab' = tab /\ log' = log /\ work' = work /\ status' = status /\ goal' = goal
      /\ damaged' = damaged
  BY DEF tableVars
<1>2. TablesOK' BY <1>1 DEF TablesOK
<1>3. Stopped' = Stopped /\ Ready' = Ready /\ ToReplay' = ToReplay /\ Rewound' = Rewound
  BY <1>1 DEF Stopped, Ready, ToReplay, Rewound, Recoverable, Same, Replay
<1>4. InRewind => InRewind' BY <1>1 DEF InRewind, Rewinding, Doing, Recoverable
<1>5. Reindexing => Reindexing' BY <1>1 DEF Reindexing, ReplayStages, Halfway
<1>6. InAppend => InAppend' BY <1>1 DEF InAppend, Appending, Doing, Same
<1>7. (InUndo => InUndo') /\ (InFinish => InFinish')
  BY <1>1 DEF InUndo, Undoing, InFinish, Finishing, Doing, Halfway
<1>8. InApply => InApply'
  <2>1. ASSUME NEW b \in Entries, NEW lib \in 0 .. MaxHeight, NEW left \in SUBSET Tables
        PROVE  /\ Starting(left, b, lib) => Starting(left, b, lib)'
               /\ Changing(left, b, lib) => Changing(left, b, lib)'
               /\ Committing(left, lib) => Committing(left, lib)'
    <3>1. Starting(left, b, lib) => Starting(left, b, lib)'
      BY <1>1 DEF Starting, Doing, Halfway, Ahead
    <3>2. ASSUME Changing(left, b, lib) PROVE Changing(left, b, lib)'
      <4>1. Doing("change", b, left, <<Stage("commit", lib), Stage("append", lib), Stage("finish", 0)>>)'
        BY <1>1, <3>2 DEF Changing, Doing
      <4>2. /\ \A t \in Tables : tab'[t].rev <= Len(tab'[t].val) + (IF t \in left THEN 1 ELSE 0)
            /\ \A t \in left : Len(tab'[t].val) < MaxHeight
            /\ lib <= Len(tab'[1].val) + (IF 1 \in left THEN 1 ELSE 0)
        BY <1>1, <3>2, Zenon DEF Changing
      <4>3. (~damaged => Ahead(lib) /\ \E u \in left :
              Opened(tab[u]) /\ tab[u].saved # <<>> /\ Halfway(left, tab[u], Changed(tab[u], b)))'
        <5>1. CASE damaged BY <1>1, <5>1
        <5>2. CASE ~damaged
          <6>1. PICK u \in left : Opened(tab[u]) /\ tab[u].saved # <<>>
                                    /\ Halfway(left, tab[u], Changed(tab[u], b))
            BY <3>2, <5>2 DEF Changing
          <6>2. Opened(tab'[u]) /\ tab'[u].saved # <<>> /\ \A t \in Tables :
                  tab'[t] = IF t \in left THEN tab'[u] ELSE Changed(tab'[u], b)
            BY <1>1, <6>1 DEF Halfway
          <6>3. Ahead(lib)' BY <1>1, <3>2, <5>2 DEF Changing, Ahead
          <6> QED BY <6>2, <6>3 DEF Halfway
        <5> QED BY <5>1, <5>2
      <4> QED BY <4>1, <4>2, <4>3 DEF Changing
    <3>3. Committing(left, lib) => Committing(left, lib)'
      BY <1>1 DEF Committing, Doing, Halfway, Ahead
    <3> QED BY <3>1, <3>2, <3>3
  <2> QED BY <2>1 DEF InApply
<1>9. CASE pc'[Writer] = pc[Writer]
  BY <1>1, <1>2, <1>3, <1>4, <1>5, <1>6, <1>7, <1>8, <1>9 DEF Place
<1>10. CASE pc[Writer] # "inside" /\ pc'[Writer] \in Waiting /\ status # "down"
  BY <1>1, <1>2, <1>3, <1>10 DEF Place
<1> QED BY <1>9, <1>10

\* A reader at the current lock, whose share is counted, keeps the writer out.
LEMMA Alone ==
  ASSUME LocksOK, NEW r \in Readers, pc[r] = "inside", at[r] = current, r \notin lost
  PROVE  pc[Writer] # "inside"
<1> SUFFICES ASSUME pc[Writer] = "inside" PROVE FALSE OBVIOUS
<1>1. at[Writer] = current /\ HoldersAt(Slot(Writer)) \subseteq lost BY DEF LocksOK
<1>2. r \in HoldersAt(Slot(Writer)) BY <1>1 DEF HoldersAt, Slot
<1> QED BY <1>1, <1>2

\* What readers have seen stays true while the tables stay and no reader that was
\* overtaken counts again.
LEMMA SeenSame ==
  ASSUME SeenOK, tab' = tab, seen' = seen,
         \A r \in Readers : Undisturbed(r)' => Undisturbed(r)
  PROVE  SeenOK'
BY DEF SeenOK

\* No reader that counts is in while the writer is at work.
LEMMA SeenInside ==
  ASSUME LocksOK, pc[Writer] = "inside", UNCHANGED lockVars
  PROVE  SeenOK'
<1>1. pc' = pc /\ at' = at /\ current' = current /\ lost' = lost BY DEF lockVars
<1>2. \A r \in Readers : ~Undisturbed(r)' BY <1>1, Alone DEF Undisturbed
<1> QED BY <1>2 DEF SeenOK

\* Start, AskToWrite and the wait for the lock.
LEMMA StartInv ==
  ASSUME Inv, Start
  PROVE  Inv'
<1>1. /\ status = "down" /\ CurrentLock(Writer) /\ status' = "opening" /\ goal' = Rewind
      /\ tab' = tab /\ log' = log /\ work' = work /\ damaged' = damaged
      /\ seen' = seen /\ sound' = sound /\ calls' = calls /\ reads' = reads /\ kills' = kills
      /\ ProcessesOK /\ LocksOK /\ TablesOK /\ Place /\ SeenOK
  BY DEF Start, tableVars, bounds, Inv
<1>2. LocksOK' BY <1>1, CurrentLockOK DEF Processes
<1>3. /\ pc' = [pc EXCEPT ![Writer] = "wait"] /\ at' = [at EXCEPT ![Writer] = current]
      /\ current' = current /\ lost' = lost /\ LocksTypeOK
  BY <1>1 DEF CurrentLock, LocksOK
<1>4. pc'[Writer] = "wait" /\ \A r \in Readers : pc'[r] = pc[r] /\ at'[r] = at[r]
  BY <1>3, LocksAssumption DEF LocksTypeOK, Processes
<1>5. ProcessesOK' BY <1>1 DEF ProcessesOK
<1>6. TablesOK' BY <1>1 DEF TablesOK
<1>7. Stopped BY <1>1 DEF Place
<1>8. Stopped' BY <1>1, <1>7 DEF Stopped, Recoverable
<1>9. Place' BY <1>1, <1>4, <1>8 DEF Place, Waiting, Rewind
<1>10. SeenOK' BY <1>1, <1>3, <1>4, SeenSame DEF Undisturbed
<1> QED BY <1>2, <1>5, <1>6, <1>9, <1>10 DEF Inv

\* The same of a writer that asks or waits while the rest stays.
LEMMA WaitInv ==
  ASSUME Inv, AskToWrite \/ Wait
  PROVE  Inv'
<1>1. /\ UNCHANGED <<tableVars, procVars, bounds>>
      /\ ProcessesOK /\ LocksOK /\ TablesOK /\ Place /\ SeenOK /\ LocksTypeOK
  BY DEF AskToWrite, Wait, Inv, LocksOK
<1>2. /\ tab' = tab /\ log' = log /\ work' = work /\ damaged' = damaged /\ status' = status
      /\ goal' = goal /\ seen' = seen /\ sound' = sound
      /\ calls' = calls /\ reads' = reads /\ kills' = kills
  BY <1>1 DEF tableVars, procVars, bounds
<1>3. \/ (status = "up" /\ CurrentLock(Writer)) \/ ClaimExclusive(Writer)
      \/ WriteTimeout(Writer) \/ NextLock(Writer)
  BY DEF AskToWrite, Wait
<1>4. Writer \in Processes /\ \A r \in Readers : r \in Processes /\ r # Writer
  BY LocksAssumption DEF Processes
<1>5. LocksOK'
  BY <1>1, <1>3, <1>4, CurrentLockOK, ClaimOK, WriteTimeoutOK, NextLockOK
<1>6. /\ pc[Writer] # "inside" /\ pc'[Writer] \in Waiting
      /\ \A r \in Readers : pc'[r] = pc[r] /\ at'[r] = at[r]
  <2>1. CASE CurrentLock(Writer)
    BY <1>1, <1>4, <2>1 DEF CurrentLock, Waiting, LocksTypeOK
  <2>2. CASE ClaimExclusive(Writer)
    BY <1>1, <1>4, <2>2 DEF ClaimExclusive, Waiting, LocksTypeOK
  <2>3. CASE WriteTimeout(Writer)
    BY <1>1, <1>4, <2>3 DEF WriteTimeout, Waiting, LocksTypeOK
  <2>4. CASE NextLock(Writer)
    BY <1>1, <1>4, <2>4 DEF NextLock, Waiting, LocksTypeOK
  <2> QED BY <1>3, <2>1, <2>2, <2>3, <2>4
<1>7. status # "down"
  <2>1. CASE status = "up" BY <2>1
  <2>2. CASE pc[Writer] # "idle" BY <1>1, <2>2 DEF Place
  <2>3. status = "up" \/ pc[Writer] # "idle"
    BY <1>3 DEF ClaimExclusive, WriteTimeout, NextLock
  <2> QED BY <2>1, <2>2, <2>3
<1>8. TablesOK' /\ Place' BY <1>1, <1>2, <1>6, <1>7, PlaceSame
<1>9. \A r \in Readers : Undisturbed(r)' => Undisturbed(r)
  <2>1. lost \subseteq lost' /\ (current' = current \/ current' = current + 1)
    BY <1>3 DEF CurrentLock, ClaimExclusive, WriteTimeout, NextLock
  <2>2. current \in Nat /\ \A r \in Readers : at[r] \in 0 .. current BY <1>1, <1>4 DEF LocksTypeOK
  <2> QED BY <1>2, <1>6, <2>1, <2>2 DEF Undisturbed
<1>10. ProcessesOK' BY <1>1, <1>2 DEF ProcessesOK
<1> QED BY <1>1, <1>2, <1>5, <1>8, <1>9, <1>10, SeenSame DEF Inv

\* The writer enters with its goal.
LEMMA EnterInv ==
  ASSUME Inv, Enter
  PROVE  Inv'
<1>1. /\ LockExclusive(Writer) /\ work' = goal /\ goal' = NoGoal
      /\ tab' = tab /\ log' = log /\ damaged' = damaged /\ status' = status
      /\ seen' = seen /\ sound' = sound /\ calls' = calls /\ reads' = reads /\ kills' = kills
      /\ ProcessesOK /\ LocksOK /\ TablesOK /\ Place /\ SeenOK /\ LocksTypeOK
  BY DEF Enter, bounds, Inv, LocksOK
<1>2. LocksOK' BY <1>1, EnterOK
<1>3. /\ pc[Writer] = "claimed" /\ pc'[Writer] = "inside"
      /\ \A r \in Readers : pc'[r] = pc[r] /\ at'[r] = at[r]
      /\ current' = current /\ lost' = lost
  BY <1>1, LocksAssumption DEF LockExclusive, LocksTypeOK, Processes
<1>4. ProcessesOK' /\ TablesOK' BY <1>1 DEF ProcessesOK, TablesOK
<1>5. SeenOK' BY <1>1, <1>3, SeenSame DEF Undisturbed
<1>6. Tables # {} /\ 1 \in Tables BY TablesAssumption DEF Tables
<1>7. Place'
  <2>1. CASE status = "opening" /\ goal = Rewind /\ Stopped
    <3>1. /\ Stage("undo_all", 0) \in Stages
          /\ Stage("undo_all", 0) = [do |-> "undo_all", arg |-> 0, left |-> Tables]
      BY StageFacts DEF Dos
    <3>2. Doing("undo_all", 0, Tables, <<>>)' BY <1>1, <1>6, <2>1, <3>1, QueueFacts DEF Doing, Rewind
    <3>3. Rewinding(Tables)' BY <1>1, <2>1, <3>2 DEF Rewinding, Stopped, Recoverable
    <3>4. InRewind' BY <3>3 DEF InRewind
    <3> QED BY <1>1, <1>3, <2>1, <3>4 DEF Place
  <2>2. CASE status = "opening" /\ ToReplay
    <3> DEFINE n == Len(log)
               chg == [k \in 1 .. n |-> Stage("change", Whole(log[k]))]
               last == <<Stage("set_revision", n)>>
    <3>1. ~damaged /\ tab = [t \in Tables |-> Empty] /\ work' = chg \o last
      BY <1>1, <2>2 DEF ToReplay, Replay
    <3>2. n \in Nat /\ log \in Seq(Blocks) /\ \A k \in 1 .. n : Whole(log[k]) \in Entries /\ Whole(log[k]).whole
      <4>1. log \in Seq(Blocks) /\ n \in Nat BY <1>1, LenProperties DEF TablesOK
      <4>2. \A k \in 1 .. n : log[k] \in Blocks BY <4>1, ElementOfSeq
      <4> QED BY <4>1, <4>2 DEF Whole, Entries
    <3>3. /\ \A k \in 1 .. n : /\ Stage("change", Whole(log[k])) \in Stages
                               /\ Stage("change", Whole(log[k]))
                                    = [do |-> "change", arg |-> Whole(log[k]), left |-> Tables]
          /\ Stage("set_revision", n) \in Stages
          /\ Stage("set_revision", n) = [do |-> "set_revision", arg |-> n, left |-> Tables]
      BY <3>2, StageFacts DEF Dos
    <3>4. chg \in Seq(Stages) /\ Len(chg) = n /\ \A k \in 1 .. n : chg[k] = Stage("change", Whole(log[k]))
      <4>1. \A k \in 1 .. n : chg[k] = Stage("change", Whole(log[k])) OBVIOUS
      <4>2. n \in Nat /\ chg \in [1 .. n -> Stages] BY <3>2, <3>3, Zenon
      <4> HIDE DEF chg, n
      <4>3. chg \in Seq(Stages) /\ Len(chg) = n BY <4>2
      <4> QED BY <4>1, <4>3
    <3>5. last \in Seq(Stages) /\ Len(last) = 1 /\ last[1] = Stage("set_revision", n) BY <3>3
    <3> HIDE DEF n, chg, last
    <3> DEFINE w == chg \o last
    <3>6. /\ w \in Seq(Stages) /\ Len(w) = n + 1
          /\ \A k \in 1 .. n : w[k] = chg[k]
          /\ w[n + 1] = Stage("set_revision", n)
      <4>1. /\ w \in Seq(Stages) /\ Len(w) = Len(chg) + Len(last)
            /\ \A k \in 1 .. Len(chg) + Len(last) : w[k] = IF k <= Len(chg) THEN chg[k] ELSE last[k - Len(chg)]
        BY <3>4, <3>5, ConcatProperties
      <4> HIDE DEF w
      <4>2. /\ w \in Seq(Stages) /\ Len(w) = n + 1
            /\ \A k \in 1 .. n + 1 : w[k] = IF k <= n THEN chg[k] ELSE last[k - n]
        BY <3>4, <3>5, <4>1
      <4>3. n + 1 \in 1 .. n + 1 /\ ~(n + 1 <= n) /\ n + 1 - n = 1 /\ \A k \in 1 .. n : k \in 1 .. n + 1 /\ k <= n
        BY <3>2
      <4>4. \A k \in 1 .. n : w[k] = chg[k] BY <4>2, <4>3
      <4>5. w[n + 1] = last[1]
        <5>1. PICK e : e = n + 1 OBVIOUS
        <5>2. e \in 1 .. n + 1 /\ ~(e <= n) /\ e - n = 1
          <6>1. n \in Nat BY <3>2
          <6> QED BY <5>1, <6>1
        <5>3. w[e] = IF e <= n THEN chg[e] ELSE last[e - n] BY <4>2, <5>2, Zenon
        <5>4. w[e] = last[e - n] BY <5>2, <5>3, Zenon
        <5> QED BY <5>1, <5>2, <5>4
      <4>6. w[n + 1] = Stage("set_revision", n) BY <3>5, <4>5
      <4> QED BY <4>2, <4>4, <4>6
    <3>7. work' = w BY <3>1
    <3> HIDE DEF w
    <3>8. \A k \in 1 .. n : w[k].do = "change" /\ w[k].arg = Whole(log[k]) /\ w[k].left = Tables
      <4> TAKE k \in 1 .. n
      <4>1. w[k] = [do |-> "change", arg |-> Whole(log[k]), left |-> Tables] BY <3>3, <3>4, <3>6, Zenon
      <4> QED BY <4>1
    <3>9. w[n + 1].do = "set_revision" /\ w[n + 1].arg = n /\ w[n + 1].left = Tables
      BY <3>3, <3>6
    <3>10. \A k \in 1 .. Len(w) : w[k].left = Tables
      <4> TAKE k \in 1 .. Len(w)
      <4>1. k \in 1 .. n \/ k = n + 1 BY <3>2, <3>6
      <4> QED BY <3>8, <3>9, <4>1
    <3>11. /\ w # <<>> /\ 1 \in 1 .. Len(w) /\ \A k \in 2 .. Len(w) : k \in 1 .. Len(w)
           /\ \A k \in 1 .. Len(w) - 1 : k \in 1 .. n
      BY <3>2, <3>6
    <3>12. ReplayStages(work)'
      <4>1. w[1].left # {} /\ \A k \in 2 .. Len(w) : w[k].left = Tables BY <1>6, <3>10, <3>11
      <4>2. \A k \in 1 .. Len(w) - 1 : w[k].do = "change" /\ w[k].arg \in Entries /\ w[k].arg.whole
        BY <3>2, <3>8, <3>11
      <4>3. w[Len(w)].do = "set_revision" /\ w[Len(w)].arg = Len(log')
        BY <1>1, <3>6, <3>9 DEF n
      <4> QED BY <3>6, <3>7, <3>11, <4>1, <4>2, <4>3 DEF ReplayStages
    <3>13. /\ work'[1].left = Tables BY <3>7, <3>10, <3>11
    <3>14. \A t \in Tables : tab'[t] = Empty BY <1>1, <3>1
    <3>15. /\ Empty.saved = <<>> /\ Empty.rev = 0 /\ Len(Empty.val) = 0 /\ AllWhole(Empty.val)
      BY DEF Empty, AllWhole
    <3>16. Len(tab'[1].val) + Len(work') - 1 = Len(log')
      BY <1>1, <1>6, <3>2, <3>6, <3>7, <3>14, <3>15 DEF n
    <3>17. /\ tab'[1].saved = <<>> /\ tab'[1].rev = 0 /\ AllWhole(tab'[1].val) /\ 1 \in work'[1].left
           /\ \A v \in Tables :
                tab'[v] = IF v \in work'[1].left THEN tab'[1] ELSE Result(work'[1], tab'[1])
      BY <1>6, <3>13, <3>14, <3>15
    <3>18. Reindexing' BY <1>1, <3>1, <3>12, <3>16, <3>17 DEF Reindexing, Halfway
    <3> QED BY <1>1, <1>3, <2>2, <3>18 DEF Place
  <2>3. CASE status = "up" /\ goal = NoGoal /\ Ready
    <3>1. Ready' BY <1>1, <2>3 DEF Ready, Same, NoGoal
    <3> QED BY <1>1, <2>3, <3>1 DEF Place
  <2> QED BY <1>1, <1>3, <2>1, <2>2, <2>3 DEF Place
<1> QED BY <1>2, <1>4, <1>5, <1>7 DEF Inv

\* A call of push_block or pop_block begins.
LEMMA CallInv ==
  ASSUME Inv, Call
  PROVE  Inv'
<1>1. /\ pc[Writer] = "inside" /\ status = "up" /\ calls > 0 /\ calls' = calls - 1
      /\ UNCHANGED <<lockVars, procVars>> /\ reads' = reads /\ kills' = kills
      /\ PopBlock \/ \E b \in Blocks, lib \in 0 .. MaxHeight : PushBlock(b, lib)
      /\ ProcessesOK /\ LocksOK /\ TablesOK /\ Place /\ SeenOK /\ LocksTypeOK
  BY DEF Call, Inv, LocksOK
<1>2. /\ pc' = pc /\ at' = at /\ current' = current /\ lost' = lost /\ locks' = locks
      /\ status' = status /\ goal' = goal /\ seen' = seen /\ sound' = sound /\ damaged' = damaged
  BY <1>1 DEF lockVars, procVars
<1>3. work = <<>> /\ tab' = tab /\ log' = log BY <1>1 DEF PopBlock, PushBlock
<1>4. LocksOK' BY <1>1, <1>2 DEF LocksOK, LocksTypeOK, HoldersAt, Slot, LockOf
<1>5. ProcessesOK' BY <1>1, <1>2 DEF ProcessesOK
<1>6. SeenOK' BY <1>1, SeenInside
<1>7. TablesOK' BY <1>1, <1>3 DEF TablesOK
<1>8. goal = NoGoal /\ Ready
  <2>1. ~InApply BY <1>3 DEF InApply, Starting, Changing, Committing, Doing
  <2>2. ~InAppend /\ ~InFinish /\ ~InUndo
    BY <1>3 DEF InAppend, InFinish, InUndo, Appending, Finishing, Undoing, Doing
  <2> QED BY <1>1, <2>1, <2>2 DEF Place
<1>9. 1 \in Tables /\ Tables # {} BY TablesAssumption DEF Tables
<1>10. CASE PopBlock
  <2>1. work' = <<Stage("undo", 0)>> BY <1>10 DEF PopBlock
  <2>2. Undoing(Tables)' BY <1>1, <1>2, <1>3, <1>8, <2>1, SameUndone DEF Ready
  <2>3. InUndo' BY <2>2 DEF InUndo
  <2>4. Place' BY <1>1, <1>2, <1>8, <2>3 DEF Place
  <2> QED BY <1>4, <1>5, <1>6, <1>7, <2>4 DEF Inv
<1>11. ASSUME NEW b \in Blocks, NEW lib \in 0 .. MaxHeight, PushBlock(b, lib)
       PROVE  Inv'
  <2>1. /\ \A t \in Tables : Len(tab[t].val) < MaxHeight
        /\ lib = 0 \/ lib \in Len(log) + 1 .. Len(tab[1].val) + 1
        /\ work' = <<Stage("start", 0), Stage("change", Half(b)), Stage("commit", lib),
                     Stage("append", lib), Stage("finish", 0)>>
    BY <1>11 DEF PushBlock, HeadBlockNum, Apply
  <2>entry. Half(b) \in Entries BY DEF Half, Entries
  <2>2. /\ Len(log) \in Nat /\ lib \in Nat
        /\ \A t \in Tables : Len(tab[t].val) \in Nat /\ tab[t].rev \in Nat
    BY <1>1, SaneFacts, LenProperties, TablesAssumption DEF TablesOK
  <2>3. lib <= Len(tab[1].val) + 1 /\ Ahead(lib) BY <1>9, <2>1, <2>2 DEF Ahead
  <2>4. \A t \in Tables : tab[t].rev <= Len(tab[t].val) /\ tab[t].rev <= Len(tab[t].val) + 1
    BY <1>8, <2>2 DEF Ready
  <2>5. \A t \in Tables : Strong(tab[t]) BY <1>1, <2>4 DEF Strong, TablesOK
  <2>6. Doing("start", 0, Tables, <<Stage("change", Half(b)), Stage("commit", lib), Stage("append", lib), Stage("finish", 0)>>)'
    <3>1. /\ Stage("start", 0) \in Stages /\ Stage("change", Half(b)) \in Stages
          /\ Stage("commit", lib) \in Stages /\ Stage("append", lib) \in Stages
          /\ Stage("finish", 0) \in Stages
          /\ Stage("start", 0) = [do |-> "start", arg |-> 0, left |-> Tables]
      BY <2>entry, RestFacts
    <3> QED BY <1>9, <2>1, <3>1, QueueFacts DEF Doing
  <2>7. ASSUME ~damaged
        PROVE  Settled(tab'[1]) /\ \A t \in Tables : tab'[t] = tab'[1]
    BY <1>3, <1>8, <2>7 DEF Ready, Same
  <2>8. Starting(Tables, Half(b), lib)'
    <3>1. /\ \A t \in Tables : Len(tab'[t].val) < MaxHeight /\ tab'[t].rev <= Len(tab'[t].val) + 1
          /\ \A t \in Tables : Strong(tab'[t])
          /\ lib <= Len(tab'[1].val) + 1 /\ Ahead(lib)'
      BY <1>3, <2>1, <2>3, <2>4, <2>5 DEF Ahead
    <3>2. (~damaged => \E u \in Tables : Settled(tab[u]) /\ Halfway(Tables, tab[u], Started(tab[u])))'
      BY <1>2, <1>9, <2>7 DEF Halfway
    <3> QED BY <2>6, <3>1, <3>2 DEF Starting
  <2>9. InApply' BY <2>entry, <2>8 DEF InApply
  <2>10. Place' BY <1>1, <1>2, <1>8, <2>9 DEF Place
  <2> QED BY <1>4, <1>5, <1>6, <1>7, <2>10 DEF Inv
<1> QED BY <1>1, <1>10, <1>11

\* The writer does one step of its work.
LEMMA WorkInv ==
  ASSUME Inv, Work
  PROVE  Inv'
<1>1. /\ pc[Writer] = "inside" /\ UNCHANGED <<lockVars, bounds>>
      /\ status' = status /\ goal' = goal /\ seen' = seen /\ sound' = sound
      /\ \/ (TableStep \/ AppendStep) /\ damaged' = damaged
         \/ ApplyFails /\ damaged' = (damaged \/ Tearing)
      /\ ProcessesOK /\ LocksOK /\ TablesOK /\ Place /\ SeenOK /\ LocksTypeOK
  BY DEF Work, Inv, LocksOK
<1>2. /\ pc' = pc /\ at' = at /\ current' = current /\ lost' = lost /\ locks' = locks
      /\ calls' = calls /\ reads' = reads /\ kills' = kills
  BY <1>1 DEF lockVars, bounds
<1>kind. \/ TableStep /\ damaged' = damaged
         \/ AppendStep /\ damaged' = damaged
         \/ ApplyFails /\ (~damaged' => ~damaged /\ ~Tearing)
  <2>1. CASE ApplyFails /\ damaged' = (damaged \/ Tearing) BY <2>1
  <2> QED BY <1>1, <2>1
<1>damage. damaged' \in BOOLEAN
  <2>1. damaged \in BOOLEAN BY <1>1 DEF ProcessesOK
  <2>2. (damaged \/ Tearing) \in BOOLEAN BY <2>1
  <2>3. damaged' = damaged \/ damaged' = (damaged \/ Tearing) BY <1>1
  <2> QED BY <2>1, <2>2, <2>3
<1>3. LocksOK' BY <1>1, <1>2 DEF LocksOK, LocksTypeOK, HoldersAt, Slot, LockOf
<1>4. ProcessesOK' BY <1>1, <1>2, <1>damage DEF ProcessesOK
<1>5. SeenOK' BY <1>1, SeenInside DEF lockVars
<1>6. work # <<>> BY <1>kind DEF TableStep, AppendStep, ApplyFails
<1>7. /\ goal = NoGoal
      /\ \/ status = "opening" /\ (InRewind \/ Reindexing)
         \/ status = "up" /\ (InApply \/ InAppend \/ InFinish \/ InUndo)
  BY <1>1, <1>6 DEF Place, Waiting, Stopped, Ready, Rewound, ToReplay
<1>8. ASSUME TablesOK', Place' PROVE Inv' BY <1>3, <1>4, <1>5, <1>8 DEF Inv
<1>9. CASE status = "opening" /\ InRewind
  <2>1. PICK left \in SUBSET Tables : Rewinding(left) BY <1>9 DEF InRewind
  <2>2. Head(work).do = "undo_all" /\ Last(work).do = "undo_all"
    <3>1. /\ work \in Seq(Stages) /\ Head(work) = [do |-> "undo_all", arg |-> 0, left |-> left]
          /\ Tail(work) = <<>>
      BY <2>1 DEF Rewinding, Doing
    <3>2. Len(work) = 1 /\ Head(work) = work[1]
      <4>1. Len(Tail(work)) = Len(work) - 1 /\ Len(work) \in Nat
        BY <1>6, <3>1, HeadTailProperties, LenProperties
      <4>2. Len(<<>>) = 0 OBVIOUS
      <4>3. Len(Tail(work)) = 0 BY <3>1, <4>2, Zenon
      <4>4. PICK k \in Nat : k = Len(work) BY <4>1
      <4>5. k = 1 BY <4>1, <4>3, <4>4
      <4> QED BY <1>6, <3>1, <4>4, <4>5
    <3> QED BY <3>1, <3>2 DEF Last
  <2>3. TableStep /\ damaged' = damaged BY <1>kind, <2>2 DEF AppendStep, ApplyFails
  <2>4. TablesOK' /\ ((\E l \in SUBSET Tables : Rewinding(l)') \/ Rewound')
    BY <1>1, <1>2, <2>1, <2>3, RewindingStep
  <2>5. Place' BY <1>1, <1>2, <1>7, <1>9, <2>4 DEF Place, InRewind
  <2> QED BY <1>8, <2>4, <2>5
<1>10. CASE status = "opening" /\ Reindexing
  <2>1. /\ work \in Seq(Stages) /\ Len(work) \in Nat /\ Len(work) > 0 /\ Head(work) = work[1]
        /\ Last(work) = work[Len(work)] /\ work[Len(work)].do = "set_revision"
    BY <1>6, <1>10, LenProperties, EmptySeq DEF Reindexing, ReplayStages, Last
  <2>2. Head(work).do # "append"
    <3>1. CASE Len(work) > 1
      <4>1. 1 \in 1 .. Len(work) - 1 BY <2>1, <3>1
      <4>2. work[1].do = "change" BY <1>10, <4>1 DEF Reindexing, ReplayStages
      <4> QED BY <2>1, <4>2
    <3>2. CASE Len(work) = 1 BY <2>1, <3>2
    <3>3. Len(work) > 1 \/ Len(work) = 1
      <4>1. PICK k \in Nat : k = Len(work) BY <2>1
      <4>2. k > 0 BY <2>1, <4>1
      <4> QED BY <4>1, <4>2
    <3> QED BY <3>1, <3>2, <3>3
  <2>3. TableStep /\ damaged' = damaged BY <1>kind, <2>1, <2>2 DEF AppendStep, ApplyFails
  <2>4. TablesOK' /\ (Reindexing' \/ Rewound') BY <1>1, <1>2, <1>10, <2>3, ReindexingStep
  <2>5. Place' BY <1>1, <1>2, <1>7, <1>10, <2>4 DEF Place
  <2> QED BY <1>8, <2>4, <2>5
<1>11. CASE status = "up" /\ InUndo
  <2>1. PICK left \in SUBSET Tables : Undoing(left) BY <1>11 DEF InUndo
  <2>2. Head(work).do = "undo" BY <2>1 DEF Undoing, Doing
  <2>3. TableStep /\ damaged' = damaged BY <1>kind, <2>2 DEF AppendStep, ApplyFails
  <2>4. TablesOK' /\ ((\E l \in SUBSET Tables : Undoing(l)') \/ Ready')
    BY <1>1, <1>2, <2>1, <2>3, UndoingStep
  <2>5. Place' BY <1>1, <1>2, <1>7, <1>11, <2>4 DEF Place, InUndo
  <2> QED BY <1>8, <2>4, <2>5
<1>12. CASE status = "up" /\ InAppend
  <2>1. PICK lib \in 0 .. MaxHeight : Appending(lib) BY <1>12 DEF InAppend
  <2>2. Head(work).do = "append" BY <2>1 DEF Appending, Doing
  <2>3. CASE AppendStep /\ damaged' = damaged
    <3>1. TablesOK' /\ (Appending(lib)' \/ Finishing(Tables)') BY <1>1, <2>1, <2>3, AppendingStep
    <3>2. InAppend' \/ InFinish' BY <3>1 DEF InAppend, InFinish
    <3>3. Place' BY <1>1, <1>2, <1>7, <1>12, <3>2 DEF Place
    <3> QED BY <1>8, <3>1, <3>3
  <2>4. CASE ApplyFails /\ (~damaged' => ~damaged /\ ~Tearing)
    <3>1. TablesOK' /\ Undoing(Tables)' BY <1>1, <2>1, <2>4, FinishingFails
    <3>2. Place' BY <1>1, <1>2, <1>7, <1>12, <3>1 DEF Place, InUndo
    <3> QED BY <1>8, <3>1, <3>2
  <2> QED BY <1>kind, <2>2, <2>3, <2>4 DEF TableStep
<1>fin. CASE status = "up" /\ InFinish
  <2>1. PICK left \in SUBSET Tables : Finishing(left) BY <1>fin DEF InFinish
  <2>2. Head(work).do = "finish" BY <2>1 DEF Finishing, Doing
  <2>3. CASE TableStep /\ damaged' = damaged
    <3>1. TablesOK' /\ ((\E l \in SUBSET Tables : Finishing(l)') \/ Ready')
      BY <1>1, <2>1, <2>3, FinishingStep
    <3>2. InFinish' \/ Ready' BY <3>1 DEF InFinish
    <3>3. Place' BY <1>1, <1>2, <1>7, <1>fin, <3>2 DEF Place
    <3> QED BY <1>8, <3>1, <3>3
  <2>4. CASE ApplyFails /\ (~damaged' => ~damaged /\ ~Tearing)
    <3>1. TablesOK' /\ Undoing(Tables)' BY <1>1, <2>1, <2>4, FinishingFails
    <3>2. Place' BY <1>1, <1>2, <1>7, <1>fin, <3>1 DEF Place, InUndo
    <3> QED BY <1>8, <3>1, <3>2
  <2> QED BY <1>kind, <2>2, <2>3, <2>4 DEF AppendStep
<1>13. ASSUME status = "up", NEW b \in Entries, NEW lib \in 0 .. MaxHeight, NEW left \in SUBSET Tables,
              Starting(left, b, lib) \/ Changing(left, b, lib) \/ Committing(left, lib)
       PROVE  Inv'
  <2>1. CASE Starting(left, b, lib)
    <3>1. Head(work).do = "start" BY <2>1 DEF Starting, Doing
    <3>2. TableStep /\ damaged' = damaged BY <1>kind, <3>1 DEF AppendStep, ApplyFails
    <3>3. TablesOK' /\ \E l \in SUBSET Tables : Starting(l, b, lib)' \/ Changing(l, b, lib)'
      BY <1>1, <1>2, <2>1, <3>2, StartingStep
    <3>4. Place' BY <1>1, <1>2, <1>7, <1>13, <3>3 DEF Place, InApply
    <3> QED BY <1>8, <3>3, <3>4
  <2>2. CASE Changing(left, b, lib)
    <3>1. Head(work).do = "change" BY <2>2 DEF Changing, Doing
    <3>2. CASE TableStep /\ damaged' = damaged
      <4>1. TablesOK' /\ \E l \in SUBSET Tables : Changing(l, b, lib)' \/ Committing(l, lib)'
        BY <1>1, <1>2, <2>2, <3>2, ChangingStep
      <4>2. Place' BY <1>1, <1>2, <1>7, <1>13, <4>1 DEF Place, InApply
      <4> QED BY <1>8, <4>1, <4>2
    <3>3. CASE ApplyFails /\ (~damaged' => ~damaged /\ ~Tearing)
      <4>1. TablesOK' /\ Undoing(Tables)' BY <1>1, <1>2, <2>2, <3>3, ChangingFails
      <4>2. Place' BY <1>1, <1>2, <1>7, <1>13, <4>1 DEF Place, InUndo
      <4> QED BY <1>8, <4>1, <4>2
    <3> QED BY <1>kind, <3>1, <3>2, <3>3 DEF AppendStep
  <2>3. CASE Committing(left, lib)
    <3>1. Head(work).do = "commit" BY <2>3 DEF Committing, Doing
    <3>2. TableStep /\ damaged' = damaged BY <1>kind, <3>1 DEF AppendStep, ApplyFails
    <3>3. TablesOK' /\ ((\E l \in SUBSET Tables : Committing(l, lib)') \/ Appending(lib)')
      BY <1>1, <1>2, <2>3, <3>2, CommittingStep
    <3>4. Place' BY <1>1, <1>2, <1>7, <1>13, <3>3 DEF Place, InApply, InAppend
    <3> QED BY <1>8, <3>3, <3>4
  <2> QED BY <1>13, <2>1, <2>2, <2>3
<1>14. CASE status = "up" /\ InApply BY <1>13, <1>14 DEF InApply
<1> QED BY <1>7, <1>9, <1>10, <1>11, <1>12, <1>fin, <1>14

\* The table of a new file.
LEMMA EmptySane == Empty \in Table /\ Sane(Empty)
<1>1. /\ Empty.val = <<>> /\ Empty.saved = <<>> /\ Empty.rev = 0
      /\ Len(Empty.val) = 0 /\ Len(Empty.saved) = 0
  BY DEF Empty
<1>2. Empty \in Table
  <2>1. <<>> \in Seq(Entries) /\ <<>> \in Seq(Seq(Entries)) /\ 0 \in Nat OBVIOUS
  <2> QED BY <2>1 DEF Empty, Table
<1>3. Oldest(Empty) = 0
  <2>1. Oldest(Empty) = 0 - 0 BY <1>1, Zenon DEF Oldest
  <2> QED BY <2>1
<1> QED BY <1>1, <1>2, <1>3, TablesAssumption DEF Sane

\* The writer leaves the lock.
LEMMA LeaveInv ==
  ASSUME Inv, Leave
  PROVE  Inv'
<1>1. /\ work = <<>> /\ status = "up" /\ Unlock(Writer)
      /\ UNCHANGED <<tableVars, procVars, bounds>>
      /\ ProcessesOK /\ LocksOK /\ TablesOK /\ Place /\ SeenOK /\ LocksTypeOK
  BY DEF Leave, Inv, LocksOK
<1>2. /\ tab' = tab /\ log' = log /\ work' = work /\ damaged' = damaged /\ status' = status
      /\ goal' = goal /\ seen' = seen /\ sound' = sound
      /\ calls' = calls /\ reads' = reads /\ kills' = kills
  BY <1>1 DEF tableVars, procVars, bounds
<1>3. LocksOK' BY <1>1, UnlockOK
<1>4. /\ current' = current /\ lost' = lost
      /\ \A r \in Readers : pc'[r] = pc[r] /\ at'[r] = at[r]
  BY <1>1, LocksAssumption DEF Unlock, Idle, LocksTypeOK, Processes
<1>5. goal = NoGoal /\ Ready
  BY <1>1 DEF Place, InApply, InAppend, InFinish, InUndo, Starting, Changing, Committing,
              Appending, Finishing, Undoing, Doing
<1>6. Ready' BY <1>2, <1>5 DEF Ready, Same
<1>7. Place' BY <1>1, <1>2, <1>5, <1>6 DEF Place
<1>8. ProcessesOK' /\ TablesOK' BY <1>1, <1>2 DEF ProcessesOK, TablesOK
<1>9. SeenOK' BY <1>1, <1>2, <1>4, SeenSame DEF Undisturbed
<1> QED BY <1>3, <1>7, <1>8, <1>9 DEF Inv

\* The rewind is done and the checks of open() hold.
LEMMA OpenInv ==
  ASSUME Inv, OpenSucceeds
  PROVE  Inv'
<1>1. /\ pc[Writer] = "inside" /\ status = "opening" /\ work = <<>> /\ Opens /\ Unlock(Writer)
      /\ status' = "up" /\ tab' = tab /\ log' = log /\ work' = work /\ damaged' = damaged
      /\ goal' = goal /\ seen' = seen /\ sound' = sound
      /\ calls' = calls /\ reads' = reads /\ kills' = kills
      /\ ProcessesOK /\ LocksOK /\ TablesOK /\ Place /\ SeenOK /\ LocksTypeOK
  BY DEF OpenSucceeds, tableVars, bounds, Inv, LocksOK
<1>2. LocksOK' BY <1>1, UnlockOK
<1>3. /\ current' = current /\ lost' = lost
      /\ \A r \in Readers : pc'[r] = pc[r] /\ at'[r] = at[r]
  BY <1>1, LocksAssumption DEF Unlock, Idle, LocksTypeOK, Processes
<1>4. goal = NoGoal /\ Rewound
  BY <1>1 DEF Place, Waiting, InRewind, Rewinding, Doing, Reindexing, ReplayStages
<1>5. Ready BY <1>1, <1>4, OpensAgreed
<1>6. Ready' BY <1>1, <1>5 DEF Ready, Same
<1>7. Place' BY <1>1, <1>4, <1>6 DEF Place
<1>8. ProcessesOK' /\ TablesOK' BY <1>1 DEF ProcessesOK, TablesOK
<1>9. SeenOK' BY <1>1, <1>3, SeenSame DEF Undisturbed
<1> QED BY <1>2, <1>7, <1>8, <1>9 DEF Inv

\* They do not hold: the files are removed.
LEMMA ReindexInv ==
  ASSUME Inv, Reindex
  PROVE  Inv'
<1>1. /\ pc[Writer] = "inside" /\ status = "opening" /\ work = <<>> /\ NewLocks
      /\ tab' = [t \in Tables |-> Empty] /\ goal' = Replay
      /\ seen' = [r \in Readers |-> Unread] /\ sound' = [r \in Readers |-> FALSE]
      /\ damaged' = FALSE /\ log' = log /\ work' = work /\ status' = status
      /\ calls' = calls /\ reads' = reads /\ kills' = kills
      /\ ProcessesOK /\ TablesOK
  BY DEF Reindex, bounds, Inv
<1>2. LocksOK' /\ pc'[Writer] = "wait" BY <1>1, NewLocksOK
<1>3. Empty \in Table /\ Sane(Empty) BY EmptySane
<1>4. TablesOK' BY <1>1, <1>3 DEF TablesOK
<1>5. ToReplay' BY <1>1 DEF ToReplay, Replay
<1>6. Place' BY <1>1, <1>2, <1>5 DEF Place, Waiting
<1>7. SeenOK' BY <1>1 DEF SeenOK, Undisturbed
<1>8. Unread \in [Tables -> SUBSET Chains] BY DEF Unread
<1>9. ProcessesOK' BY <1>1, <1>8 DEF ProcessesOK
<1> QED BY <1>2, <1>4, <1>6, <1>7, <1>9 DEF Inv

\* The write process is killed.
LEMMA KillWriterInv ==
  ASSUME Inv, KillWriter
  PROVE  Inv'
<1>1. /\ Die(Writer) /\ status' = "down" /\ work' = <<>> /\ goal' = NoGoal
      /\ damaged' = (damaged \/ Replaying \/ (Tearing /\ Len(log) >= HeadBlockNum))
      /\ kills > 0 /\ kills' = kills - 1
      /\ tab' = tab /\ log' = log /\ seen' = seen /\ sound' = sound
      /\ calls' = calls /\ reads' = reads
      /\ ProcessesOK /\ LocksOK /\ TablesOK /\ Place /\ SeenOK /\ LocksTypeOK
  BY DEF KillWriter, Inv, LocksOK
<1>2. LocksOK' BY <1>1, DieOK DEF Processes
<1>3. /\ current' = current /\ lost' = lost /\ pc'[Writer] = "idle"
      /\ \A r \in Readers : pc'[r] = pc[r] /\ at'[r] = at[r]
  <2>1. /\ pc' = [pc EXCEPT ![Writer] = "idle"] /\ at' = [at EXCEPT ![Writer] = 0]
        /\ lost' = lost \ {Writer} /\ current' = current
    BY <1>1 DEF Die, Idle
  <2>2. Writer \notin lost BY <1>1, LocksAssumption DEF LocksTypeOK
  <2>3. lost' = lost BY <2>1, <2>2
  <2>4. pc'[Writer] = "idle" /\ \A r \in Readers : pc'[r] = pc[r] /\ at'[r] = at[r]
    BY <1>1, <2>1, LocksAssumption DEF LocksTypeOK, Processes
  <2> QED BY <2>1, <2>3, <2>4
<1>4. damaged' \in BOOLEAN
      /\ (~damaged' => ~damaged /\ ~Replaying /\ ~(Tearing /\ Len(log) >= HeadBlockNum))
  <2> DEFINE torn == Tearing /\ Len(log) >= HeadBlockNum
  <2>1. damaged' = (damaged \/ Replaying \/ torn) BY <1>1
  <2>2. damaged \in BOOLEAN BY <1>1 DEF ProcessesOK
  <2> HIDE DEF torn
  <2>3. damaged' \in BOOLEAN /\ (~damaged' => ~damaged /\ ~Replaying /\ ~torn) BY <2>1, <2>2
  <2> QED BY <2>3 DEF torn
<1>5. kills' \in Nat BY <1>1 DEF ProcessesOK
<1>6. ProcessesOK' BY <1>1, <1>4, <1>5 DEF ProcessesOK
<1>7. TablesOK' BY <1>1 DEF TablesOK
<1>8. Stopped'
  <2>1. ASSUME ~damaged' PROVE Recoverable' BY <1>1, <1>4, <2>1, StopRecovers DEF Recoverable
  <2> QED BY <1>1, <2>1 DEF Stopped
<1>9. Place' BY <1>1, <1>3, <1>8 DEF Place
<1>10. SeenOK' BY <1>1, <1>3, <1>4, SeenSame DEF Undisturbed
<1> QED BY <1>2, <1>6, <1>7, <1>9, <1>10 DEF Inv

\* What a table holds are chains that the type invariant names.
LEMMA BoundedChain ==
  ASSUME NEW S, NEW n \in Nat, NEW s \in Seq(S), Len(s) <= n
  PROVE  s \in SeqOf(S, n)
<1>1. PICK m \in Nat : m = Len(s) BY LenProperties
<1>2. s \in [1 .. m -> S] BY <1>1, LenProperties
<1>3. m \in 0 .. n BY <1>1
<1> QED BY <1>2, <1>3 DEF SeqOf

\* The steps of a reader.
LEMMA ReaderInv ==
  ASSUME Inv, NEW r \in Readers, ReaderRuns(r) \/ KillReader(r)
  PROVE  Inv'
<1>1. /\ ProcessesOK /\ LocksOK /\ TablesOK /\ Place /\ SeenOK /\ LocksTypeOK
      /\ r \in Processes /\ r # Writer /\ Writer \in Processes
      /\ \A q \in Readers : q \in Processes
  BY LocksAssumption DEF Inv, LocksOK, Processes
<1>2. Unread \in [Tables -> SUBSET Chains] BY DEF Unread
<1>3. ASSUME tab' = tab, log' = log, work' = work, status' = status, goal' = goal,
             damaged' = damaged, pc'[Writer] = pc[Writer]
      PROVE  TablesOK' /\ Place'
  BY <1>1, <1>3, PlaceSame DEF tableVars
<1>4. ASSUME \A q \in Readers : q # r => seen'[q] = seen[q] /\ (Undisturbed(q)' => Undisturbed(q)),
             tab' = tab,
             Undisturbed(r)' => \A t \in Tables :
               tab[t] = tab[1] /\ seen'[r][t] \subseteq {tab[t].val}
      PROVE  SeenOK'
  <2>1. ASSUME NEW q \in Readers, Undisturbed(q)'
        PROVE  \A t \in Tables : tab'[t] = tab'[1] /\ seen'[q][t] \subseteq {tab'[t].val}
    <3>1. CASE q = r BY <1>4, <2>1, <3>1
    <3>2. CASE q # r BY <1>1, <1>4, <2>1, <3>2 DEF SeenOK
    <3> QED BY <3>1, <3>2
  <2> QED BY <2>1 DEF SeenOK
<1>5. CASE AskToRead(r)
  <2>1. /\ CurrentLock(r) /\ reads > 0 /\ reads' = reads - 1
        /\ tab' = tab /\ log' = log /\ work' = work /\ damaged' = damaged /\ status' = status
        /\ goal' = goal /\ seen' = seen /\ sound' = sound /\ calls' = calls /\ kills' = kills
        /\ pc' = [pc EXCEPT ![r] = "wait"] /\ at' = [at EXCEPT ![r] = current]
        /\ current' = current /\ lost' = lost
    BY <1>5 DEF AskToRead, CurrentLock, tableVars, procVars
  <2>2. LocksOK' BY <1>1, <2>1, CurrentLockOK
  <2>3. /\ pc'[r] = "wait" /\ pc'[Writer] = pc[Writer]
        /\ \A q \in Readers : q # r => pc'[q] = pc[q] /\ at'[q] = at[q]
    BY <1>1, <2>1 DEF LocksTypeOK
  <2>4. reads' \in Nat BY <1>1, <2>1 DEF ProcessesOK
  <2>5. ProcessesOK' BY <1>1, <2>1, <2>4 DEF ProcessesOK
  <2>6. SeenOK' BY <1>4, <2>1, <2>3 DEF Undisturbed
  <2> QED BY <1>3, <2>1, <2>2, <2>3, <2>5, <2>6 DEF Inv
<1>6. CASE BeginRead(r)
  <2>1. /\ LockSharable(r) /\ pc[r] = "wait" /\ ~LockOf(r).exclusive
        /\ seen' = [seen EXCEPT ![r] = Unread] /\ sound' = [sound EXCEPT ![r] = status = "up"]
        /\ tab' = tab /\ log' = log /\ work' = work /\ damaged' = damaged /\ status' = status
        /\ goal' = goal /\ calls' = calls /\ reads' = reads /\ kills' = kills
        /\ pc' = [pc EXCEPT ![r] = "inside"] /\ at' = at /\ current' = current /\ lost' = lost
    BY <1>6 DEF BeginRead, LockSharable, MayShare, tableVars, bounds
  <2>2. LocksOK' BY <1>1, <2>1, LockSharableOK
  <2>3. /\ pc'[Writer] = pc[Writer] /\ \A q \in Readers : q # r => pc'[q] = pc[q]
    BY <1>1, <2>1 DEF LocksTypeOK
  <2>4. /\ seen'[r] = Unread /\ (sound'[r] => status = "up")
        /\ \A q \in Readers : q # r => seen'[q] = seen[q] /\ sound'[q] = sound[q]
    BY <1>1, <2>1 DEF ProcessesOK
  <2>5. ProcessesOK'
    <3>1. seen' \in [Readers -> [Tables -> SUBSET Chains]]
      BY <1>1, <1>2, <2>1 DEF ProcessesOK
    <3>2. sound' \in [Readers -> BOOLEAN] BY <1>1, <2>1 DEF ProcessesOK
    <3> QED BY <1>1, <2>1, <3>1, <3>2 DEF ProcessesOK
  <2>6. ASSUME Undisturbed(r)'
        PROVE  \A t \in Tables : tab[t] = tab[1] /\ seen'[r][t] \subseteq {tab[t].val}
    <3>1. status = "up" /\ ~damaged /\ at[r] = current BY <2>1, <2>4, <2>6 DEF Undisturbed
    <3>2. pc[Writer] # "inside"
      <4> SUFFICES ASSUME pc[Writer] = "inside" PROVE FALSE OBVIOUS
      <4>1. at[Writer] = current /\ LockOf(Writer).exclusive BY <1>1 DEF LocksOK
      <4> QED BY <2>1, <3>1, <4>1 DEF LockOf, Slot
    <3>3. Same BY <1>1, <3>1, <3>2 DEF Place, Ready
    <3> QED BY <2>4, <3>3 DEF Same, Unread
  <2>7. SeenOK' BY <1>4, <2>1, <2>3, <2>4, <2>6 DEF Undisturbed
  <2> QED BY <1>3, <2>1, <2>2, <2>3, <2>5, <2>7 DEF Inv
<1>7. CASE GiveUp(r)
  <2>1. /\ ReadTimeout(r) /\ UNCHANGED <<tableVars, procVars, bounds>>
        /\ pc' = [pc EXCEPT ![r] = "idle"] /\ at' = [at EXCEPT ![r] = 0]
        /\ current' = current /\ lost' = lost
    BY <1>7 DEF GiveUp, ReadTimeout, Idle
  <2>2. /\ tab' = tab /\ log' = log /\ work' = work /\ damaged' = damaged /\ status' = status
        /\ goal' = goal /\ seen' = seen /\ sound' = sound
        /\ calls' = calls /\ reads' = reads /\ kills' = kills
    BY <2>1 DEF tableVars, procVars, bounds
  <2>3. LocksOK' BY <1>1, <2>1, ReadTimeoutOK
  <2>4. /\ pc'[r] = "idle" /\ pc'[Writer] = pc[Writer]
        /\ \A q \in Readers : q # r => pc'[q] = pc[q] /\ at'[q] = at[q]
    BY <1>1, <2>1 DEF LocksTypeOK
  <2>5. ProcessesOK' BY <1>1, <2>2 DEF ProcessesOK
  <2>6. SeenOK' BY <1>4, <2>1, <2>2, <2>4 DEF Undisturbed
  <2> QED BY <1>3, <2>2, <2>3, <2>4, <2>5, <2>6 DEF Inv
<1>8. CASE \E t \in Tables : Read(r, t)
  <2>1. PICK t \in Tables : Read(r, t) BY <1>8
  <2>2. /\ pc[r] = "inside" /\ seen' = [seen EXCEPT ![r][t] = {tab[t].val}]
        /\ UNCHANGED <<lockVars, tableVars, bounds>>
        /\ status' = status /\ goal' = goal /\ sound' = sound /\ damaged' = damaged
    BY <2>1 DEF Read
  <2>3. /\ tab' = tab /\ log' = log /\ work' = work /\ current' = current /\ locks' = locks
        /\ at' = at /\ pc' = pc /\ lost' = lost
        /\ calls' = calls /\ reads' = reads /\ kills' = kills
    BY <2>2 DEF lockVars, tableVars, bounds
  <2>4. LocksOK' BY <1>1, <2>3 DEF LocksOK, LocksTypeOK, HoldersAt, Slot, LockOf
  <2>5. tab[t].val \in Chains
    <3>1. tab[t].val \in Seq(Entries) /\ Len(tab[t].val) <= MaxHeight
      BY <1>1, <2>1 DEF TablesOK, Sane, Table
    <3> QED BY <3>1, BoundedChain, TablesAssumption DEF Chains
  <2>6. seen' \in [Readers -> [Tables -> SUBSET Chains]]
    BY <1>1, <2>2, <2>5 DEF ProcessesOK
  <2>7. ProcessesOK' BY <1>1, <2>2, <2>3, <2>6 DEF ProcessesOK
  <2>8. /\ \A q \in Readers : q # r => seen'[q] = seen[q]
        /\ \A v \in Tables : seen'[r][v] = IF v = t THEN {tab[t].val} ELSE seen[r][v]
    BY <1>1, <2>2 DEF ProcessesOK
  <2>9. \A q \in Readers : Undisturbed(q)' = Undisturbed(q) BY <2>2, <2>3 DEF Undisturbed
  <2>10. ASSUME Undisturbed(r)'
         PROVE  \A v \in Tables : tab[v] = tab[1] /\ seen'[r][v] \subseteq {tab[v].val}
    BY <1>1, <2>8, <2>9, <2>10 DEF SeenOK
  <2>11. SeenOK' BY <1>4, <2>3, <2>8, <2>9, <2>10
  <2> QED BY <1>3, <2>2, <2>3, <2>4, <2>7, <2>11 DEF Inv
<1>9. CASE EndRead(r) \/ KillReader(r)
  <2>1. /\ seen' = [seen EXCEPT ![r] = Unread] /\ sound' = [sound EXCEPT ![r] = FALSE]
        /\ tab' = tab /\ log' = log /\ work' = work /\ damaged' = damaged /\ status' = status
        /\ goal' = goal /\ calls' = calls /\ reads' = reads
        /\ pc' = [pc EXCEPT ![r] = "idle"] /\ at' = [at EXCEPT ![r] = 0] /\ current' = current
        /\ lost \ {r} \subseteq lost'
        /\ UnlockSharable(r) \/ Die(r)
    BY <1>9 DEF EndRead, KillReader, UnlockSharable, Die, Idle, tableVars, bounds
  <2>2. kills' \in Nat
    BY <1>1, <1>9 DEF EndRead, KillReader, bounds, ProcessesOK
  <2>3. LocksOK' BY <1>1, <2>1, UnlockSharableOK, DieOK
  <2>4. /\ pc'[r] = "idle" /\ pc'[Writer] = pc[Writer]
        /\ \A q \in Readers : q # r => pc'[q] = pc[q] /\ at'[q] = at[q]
    BY <1>1, <2>1 DEF LocksTypeOK
  <2>5. \A q \in Readers : q # r => seen'[q] = seen[q] /\ sound'[q] = sound[q]
    BY <1>1, <2>1 DEF ProcessesOK
  <2>6. seen' \in [Readers -> [Tables -> SUBSET Chains]]
        /\ sound' \in [Readers -> BOOLEAN]
    BY <1>1, <1>2, <2>1 DEF ProcessesOK
  <2>7. ProcessesOK' BY <1>1, <2>1, <2>2, <2>6 DEF ProcessesOK
  <2>8. SeenOK' BY <1>4, <2>1, <2>4, <2>5 DEF Undisturbed
  <2> QED BY <1>3, <2>1, <2>3, <2>4, <2>7, <2>8 DEF Inv
<1> QED BY <1>5, <1>6, <1>7, <1>8, <1>9 DEF ReaderRuns

----------------------------------------------------------------------------
(* The theorems *)

\* A node that was never started.
LEMMA InitInv ==
  ASSUME Init
  PROVE  Inv
<1>1. /\ current = 0 /\ locks = [i \in 0 .. NumLocks - 1 |-> Free]
      /\ at = [p \in Processes |-> 0] /\ pc = [p \in Processes |-> "idle"] /\ lost = {}
      /\ tab = [t \in Tables |-> Empty] /\ log = <<>> /\ work = <<>>
      /\ status = "down" /\ goal = NoGoal
      /\ seen = [r \in Readers |-> Unread] /\ sound = [r \in Readers |-> FALSE]
      /\ damaged = FALSE
  BY DEF Init, LocksInit, TablesInit
<1>2. calls \in Nat /\ reads \in Nat /\ kills \in Nat
  <2>1. PICK l \in Limits : calls = l.calls /\ reads = l.reads /\ kills = l.kills BY DEF Init
  <2>2. {l.calls, l.reads, l.kills} \subseteq Nat BY LimitsAssumption
  <2> QED BY <2>1, <2>2
<1>3. Unread \in [Tables -> SUBSET Chains] BY DEF Unread
<1>4. ProcessesOK
  <2>1. seen \in [Readers -> [Tables -> SUBSET Chains]] BY <1>1, <1>3
  <2>2. sound \in [Readers -> BOOLEAN] BY <1>1
  <2> QED BY <1>1, <1>2, <2>1, <2>2 DEF ProcessesOK
<1>5. TablesOK
  <2>1. \A t \in Tables : tab[t] \in Table /\ Sane(tab[t]) BY <1>1, EmptySane
  <2>2. tab \in [Tables -> Table] BY <1>1, <2>1
  <2>3. log \in Seq(Blocks) /\ Len(log) <= MaxHeight BY <1>1, TablesAssumption
  <2> QED BY <2>1, <2>2, <2>3 DEF TablesOK
<1>6. Place
  <2>1. Same
    <3>1. 1 \in Tables BY TablesAssumption DEF Tables
    <3> QED BY <1>1, <3>1 DEF Same
  <2>2. pc[Writer] = "idle" BY <1>1 DEF Processes
  <2>3. AllWhole(AllUndone(tab[1]).val)
    <3>1. tab[1] = Empty BY <1>1, TablesAssumption DEF Tables
    <3>2. AllUndone(Empty) = Empty /\ AllWhole(Empty.val) BY DEF AllUndone, Empty, AllWhole
    <3> QED BY <3>1, <3>2
  <2> QED BY <1>1, <2>1, <2>2, <2>3, SameRecovers DEF Place, Stopped
<1>7. SeenOK
  <2>1. \A r \in Readers : pc[r] = "idle" BY <1>1 DEF Processes
  <2> QED BY <2>1 DEF SeenOK, Undisturbed
<1>8. LocksOK
  <2>1. Free \in [exclusive : BOOLEAN, shared : 0 .. MaxShared] /\ Free.shared = 0
    BY LocksAssumption DEF Free
  <2>2. LocksTypeOK
    <3>1. locks \in [0 .. NumLocks - 1 -> [exclusive : BOOLEAN, shared : 0 .. MaxShared]]
      BY <1>1, <2>1
    <3>2. /\ current \in Nat /\ at \in [Processes -> 0 .. current]
          /\ pc \in [Processes -> {"idle", "wait", "claimed", "bump", "inside"}]
          /\ lost \subseteq {r \in Readers : pc[r] = "inside"}
      BY <1>1
    <3> QED BY <3>1, <3>2 DEF LocksTypeOK
  <2>3. Writer \in Processes /\ pc[Writer] = "idle" BY <1>1 DEF Processes
  <2>4. \A i \in 0 .. NumLocks - 1 : Cardinality(HoldersAt(i) \ lost) <= locks[i].shared
    <3> TAKE i \in 0 .. NumLocks - 1
    <3>1. HoldersAt(i) \ lost = {} BY <1>1 DEF HoldersAt, Processes
    <3>2. Cardinality({}) = 0 BY FS_EmptySet
    <3>3. locks[i].shared = 0 BY <1>1, <2>1
    <3>4. Cardinality(HoldersAt(i) \ lost) = 0 BY <3>1, <3>2
    <3> QED BY <3>3, <3>4
  <2> QED BY <2>2, <2>3, <2>4 DEF LocksOK
<1> QED BY <1>4, <1>5, <1>6, <1>7, <1>8 DEF Inv

\* Every step keeps the invariant.
LEMMA NextInv ==
  ASSUME Inv, [Next]_vars
  PROVE  Inv'
<1>1. CASE WriterRuns
  BY <1>1, StartInv, WaitInv, EnterInv, WorkInv, LeaveInv, OpenInv, ReindexInv DEF WriterRuns
<1>2. CASE Call BY <1>2, CallInv
<1>3. CASE KillWriter BY <1>3, KillWriterInv
<1>4. CASE \E r \in Readers : ReaderRuns(r) \/ KillReader(r) BY <1>4, ReaderInv
<1>5. CASE UNCHANGED vars
  <2>1. /\ UNCHANGED <<tableVars, procVars, bounds>>
        /\ current' = current /\ locks' = locks /\ at' = at /\ pc' = pc /\ lost' = lost
        /\ ProcessesOK /\ LocksOK /\ TablesOK /\ Place /\ SeenOK
    BY <1>5 DEF vars, lockVars, Inv
  <2>2. /\ tab' = tab /\ damaged' = damaged /\ status' = status /\ goal' = goal
        /\ seen' = seen /\ sound' = sound /\ calls' = calls /\ reads' = reads /\ kills' = kills
    BY <2>1 DEF tableVars, procVars, bounds
  <2>3. LocksOK' BY <2>1 DEF LocksOK, LocksTypeOK, HoldersAt, Slot, LockOf
  <2>4. ProcessesOK' BY <2>1, <2>2 DEF ProcessesOK
  <2>5. TablesOK' /\ Place' BY <2>1, <2>2, PlaceSame
  <2>6. SeenOK' BY <2>1, <2>2, SeenSame DEF Undisturbed
  <2> QED BY <2>3, <2>4, <2>5, <2>6 DEF Inv
<1> QED BY <1>1, <1>2, <1>3, <1>4, <1>5 DEF Next

\* The write process, the tables, the locks and what readers have seen are where
\* the invariant says, after any sequence of calls, timeouts and kills.
THEOREM MemoryInvariant == Spec => []Inv
<1>1. Init => Inv BY InitInv
<1>2. Inv /\ [Next]_vars => Inv' BY NextInv
<1> QED BY <1>1, <1>2, PTL DEF Spec

\* The types, from the invariant.
LEMMA InvTypes ==
  ASSUME Inv
  PROVE  TypeOK
<1>1. /\ ProcessesOK /\ LocksTypeOK /\ TablesOK /\ Place BY DEF Inv, LocksOK
<1>2. \A t \in Tables :
        tab[t] \in [val : Chains, saved : SeqOf(Chains, MaxHeight), rev : 0 .. MaxHeight]
  <2> TAKE t \in Tables
  <2> DEFINE x == tab[t]
  <2>1. x \in Table /\ Sane(x) BY <1>1 DEF TablesOK
  <2> HIDE DEF x
  <2>2. /\ x.val \in Seq(Entries) /\ Len(x.val) <= MaxHeight /\ x.saved \in Seq(Seq(Entries))
        /\ x.rev \in Nat /\ x.rev <= MaxHeight /\ MaxHeight \in Nat
        /\ Oldest(x) >= 0
        /\ \A i \in 1 .. Len(x.saved) : Len(x.saved[i]) <= MaxHeight
    BY <2>1, TablesAssumption DEF Sane, Table
  <2>3. x.val \in Chains BY <2>2, BoundedChain DEF Chains
  <2>4. PICK s \in Seq(Seq(Entries)) : s = x.saved BY <2>2
  <2>5. PICK m \in Nat : m = Len(s) BY LenProperties
  <2>6. m <= MaxHeight BY <2>2, <2>4, <2>5 DEF Oldest
  <2>7. \A i \in 1 .. m : s[i] \in Seq(Entries) /\ Len(s[i]) <= MaxHeight
    BY <2>2, <2>4, <2>5, ElementOfSeq
  <2>8. \A i \in 1 .. m : s[i] \in Chains BY <2>2, <2>7, BoundedChain DEF Chains
  <2>9. s \in [1 .. m -> Chains]
    <3>1. s \in [1 .. m -> Seq(Entries)] BY <2>5, LenProperties
    <3> QED BY <2>8, <3>1
  <2>10. m \in 0 .. MaxHeight BY <2>2, <2>6
  <2>11. x.saved \in SeqOf(Chains, MaxHeight) BY <2>4, <2>9, <2>10 DEF SeqOf
  <2>12. x.rev \in 0 .. MaxHeight BY <2>2
  <2>13. x = [val |-> x.val, saved |-> x.saved, rev |-> x.rev] BY <2>1 DEF Table
  <2>14. x \in [val : Chains, saved : SeqOf(Chains, MaxHeight), rev : 0 .. MaxHeight]
    BY <2>3, <2>11, <2>12, <2>13, Zenon
  <2> QED BY <2>14 DEF x
<1>3. tab \in [Tables -> [val : Chains, saved : SeqOf(Chains, MaxHeight), rev : 0 .. MaxHeight]]
  BY <1>1, <1>2 DEF TablesOK
<1>4. log \in SeqOf(Blocks, MaxHeight) BY <1>1, BoundedChain, TablesAssumption DEF TablesOK
<1>5. \A i \in 1 .. Len(work) : work[i].left \subseteq Tables
  <2>1. work = <<>> \/ work \in Seq(Stages)
    BY <1>1 DEF Place, Stopped, ToReplay, InRewind, Rewinding, Rewound, Reindexing, ReplayStages,
                Ready, InApply, InAppend, InFinish, InUndo, Starting, Changing, Committing,
                Appending, Finishing, Undoing, Doing
  <2>2. CASE work = <<>> BY <2>2
  <2>3. CASE work \in Seq(Stages)
    <3> TAKE i \in 1 .. Len(work)
    <3>1. work[i] \in Stages BY <2>3, ElementOfSeq
    <3> QED BY <3>1 DEF Stages
  <2> QED BY <2>1, <2>2, <2>3
<1>6. TablesTypeOK BY <1>3, <1>4, <1>5 DEF TablesTypeOK
<1> QED BY <1>1, <1>6 DEF TypeOK, ProcessesOK

\* When the write process is up and not at work, all tables stand at one block with
\* one history and all changes of every block, however often any process was killed in
\* the middle of a loop over the tables, unless a reindex was cut off, or a block was
\* that had made itself irreversible and was in the log; and everything has its type.
THEOREM TablesStayConsistent == Spec => []TablesConsistent
<1>1. Inv => TablesConsistent
  <2> SUFFICES ASSUME Inv PROVE TablesConsistent OBVIOUS
  <2>1. ASSUME status = "up", work = <<>>, ~damaged PROVE ~Torn
    <3>1. Ready
      BY <2>1 DEF Inv, Place, InApply, InAppend, InFinish, InUndo, Starting, Changing, Committing,
                  Appending, Finishing, Undoing, Doing
    <3>2. AllWhole(tab[1].val) /\ \A t \in Tables : tab[t] = tab[1]
      BY <2>1, <3>1 DEF Ready, Same, Settled
    <3> QED BY <3>2 DEF Torn, AllWhole
  <2>2. TypeOK BY InvTypes
  <2> QED BY <2>1, <2>2 DEF TablesConsistent, TablesAgree
<1> QED BY <1>1, MemoryInvariant, PTL

\* A reader that began on a node that was up, that no writer overtook and whose share
\* of the lock was not forgotten, has read one block in all the tables it has read.
THEOREM ReadersAgree == Spec => []ReadsAgree
<1>1. Inv => ReadsAgree
  <2> DEFINE Seen(r) == UNION {seen[r][t] : t \in Tables}
  <2> SUFFICES ASSUME Inv, NEW r \in Readers, Undisturbed(r)
               PROVE  Cardinality(Seen(r)) <= 1
    BY DEF ReadsAgree, Undisturbed
  <2>1. 1 \in Tables BY TablesAssumption DEF Tables
  <2>2. \A t \in Tables : seen[r][t] \subseteq {tab[1].val} BY DEF Inv, SeenOK
  <2>3. Seen(r) \subseteq {tab[1].val} BY <2>2
  <2>4. IsFiniteSet({tab[1].val}) /\ Cardinality({tab[1].val}) = 1 BY FS_Singleton
  <2>5. Cardinality(Seen(r)) <= Cardinality({tab[1].val}) BY <2>3, <2>4, FS_Subset
  <2> QED BY <2>4, <2>5
<1> QED BY <1>1, MemoryInvariant, PTL
=============================================================================

---------------------------- MODULE SharedTables ----------------------------
(***************************************************************************)
(* chainbase's database: all tables together.  Each operation over all of  *)
(* them is a loop, and the process may die between two tables; the file    *)
(* that holds the tables, and the block log, keep what was done.  A table  *)
(* is what GenericIndex implements, a SnapshotStore: its content and a     *)
(* stack of saved ones.  Content is the blocks that have gone into it, the *)
(* last one perhaps with only the first part of its changes.               *)
(*                                                                         *)
(* work is what is left to do of the call that runs: stages, each with the *)
(* tables that it has not reached.  The first table is the dynamic global  *)
(* properties, which revision() and head_block_num() read.                 *)
(***************************************************************************)
EXTENDS Integers, Sequences, SequencesExt, FiniteSetsExt

CONSTANTS NumTables,
          Blocks,       \* the blocks that may come at any height
          MaxHeight     \* bound on the height of the chain

ASSUME TablesAssumption == NumTables \in Nat \ {0} /\ MaxHeight \in Nat

Tables == 1 .. NumTables

VARIABLES tab, log, work

tableVars == <<tab, log, work>>

(* what a block has left in a table *)
Entries == [block : Blocks, whole : BOOLEAN]
Half(b) == [block |-> b, whole |-> FALSE]
Whole(b) == [block |-> b, whole |-> TRUE]

Empty == [val |-> <<>>, saved |-> <<>>, rev |-> 0]
Chains == SeqOf(Entries, MaxHeight)

TablesTypeOK ==
  /\ tab \in [Tables -> [val : Chains, saved : SeqOf(Chains, MaxHeight), rev : 0 .. MaxHeight]]
  /\ log \in SeqOf(Blocks, MaxHeight)
  /\ \A i \in 1 .. Len(work) : work[i].left \subseteq Tables

TablesInit == tab = [t \in Tables |-> Empty] /\ log = <<>> /\ work = <<>>

(* generic_index, one table *)
Started(x) == [val |-> x.val, saved |-> Append(x.saved, x.val), rev |-> x.rev + 1]
Changed(x, e) == [x EXCEPT !.val = Append(@, e)]
Finished(x) == [x EXCEPT !.val[Len(x.val)] = Whole(@.block)]
Undone(x) == IF x.saved = <<>> THEN x
             ELSE [val |-> Last(x.saved), saved |-> Front(x.saved), rev |-> x.rev - 1]
AllUndone(x) == IF x.saved = <<>> THEN x
                ELSE [val |-> Head(x.saved), saved |-> <<>>, rev |-> x.rev - Len(x.saved)]
Committed(x, r) ==
  LET old == {i \in DOMAIN x.saved : x.rev - Len(x.saved) + i <= r}
  IN  [x EXCEPT !.saved = SubSeq(@, Cardinality(old) + 1, Len(@))]

Result(s, x) == CASE s.do = "start" -> Started(x)
                  [] s.do = "change" -> Changed(x, s.arg)
                  [] s.do = "finish" -> Finished(x)
                  [] s.do = "undo" -> Undone(x)
                  [] s.do = "undo_all" -> AllUndone(x)
                  [] s.do = "commit" -> Committed(x, s.arg)
                  [] s.do = "set_revision" -> [x EXCEPT !.rev = s.arg]

Stage(do, arg) == [do |-> do, arg |-> arg, left |-> Tables]

(* revision() and head_block_num() *)
Revision == tab[1].rev
HeadBlockNum == Len(tab[1].val)

(* Mutant of Apply: the log is written before the commit. *)
ApplyLogsFirst(b, lib) ==
  <<Stage("start", 0), Stage("change", Half(b)), Stage("append", lib), Stage("commit", lib), Stage("finish", 0)>>

(* apply_block in a session; lib is the last irreversible block, or 0 when *)
(* it does not move.  update_last_irreversible_block commits and then      *)
(* writes the log; what _apply_block does after it (expired transactions,  *)
(* the schedule, the funds, payouts, withdrawals) changes the tables again *)
(* and is in no session when the commit has reached this block.            *)
Apply(b, lib) ==
  <<Stage("start", 0), Stage("change", Half(b)), Stage("commit", lib), Stage("append", lib), Stage("finish", 0)>>

PushBlock(b, lib) ==
  /\ work = <<>> /\ \A t \in Tables : Len(tab[t].val) < MaxHeight
  /\ lib = 0 \/ lib \in Len(log) + 1 .. HeadBlockNum + 1
  /\ work' = Apply(b, lib)
  /\ UNCHANGED <<tab, log>>

(* pop_block of a switch to another fork *)
PopBlock ==
  /\ work = <<>> /\ tab[1].saved # <<>>
  /\ work' = <<Stage("undo", 0)>>
  /\ UNCHANGED <<tab, log>>

(* operations change the tables in any order, all other loops in the order *)
(* in which the tables were added                                          *)
TableStep ==
  /\ work # <<>> /\ Head(work).do # "append"
  /\ \E t \in Head(work).left :
       /\ Head(work).do \in {"change", "finish"} \/ t = Min(Head(work).left)
       /\ tab' = [tab EXCEPT ![t] = Result(Head(work), @)]
       /\ work' = IF Head(work).left = {t} THEN Tail(work) ELSE [work EXCEPT ![1].left = @ \ {t}]
  /\ UNCHANGED log

AppendStep ==
  /\ work # <<>> /\ Head(work).do = "append"
  /\ IF Len(log) < Head(work).arg
       THEN log' = Append(log, tab[1].val[Len(log) + 1].block) /\ UNCHANGED work
       ELSE work' = Tail(work) /\ UNCHANGED log
  /\ UNCHANGED tab

(* the block at work was committed with its session: undo() and undo_all() *)
(* cannot take back what it has done so far                                *)
Tearing == work # <<>> /\ Head(work).do \in {"append", "finish"} /\ tab[1].saved = <<>>

(* an exception in apply_block: the session is undone in every table *)
ApplyFails ==
  /\ work # <<>> /\ Last(work).do = "finish" /\ Head(work).do \in {"change", "append", "finish"}
  /\ work' = <<Stage("undo", 0)>>
  /\ UNCHANGED <<tab, log>>

(* open() rewinds ... *)
Rewind == <<Stage("undo_all", 0)>>

(* ... and asserts that the state is at its revision and in the log *)
Opens == /\ Revision = HeadBlockNum
         /\ HeadBlockNum <= Len(log)
         /\ \A i \in 1 .. HeadBlockNum : tab[1].val[i].block = log[i]

(* validate_invariants(), which open() calls too, may notice what an       *)
(* interrupted block has left undone                                       *)
Torn == \E t \in Tables : \/ tab[t] # tab[1]
                          \/ \E i \in 1 .. Len(tab[t].val) : ~tab[t].val[i].whole

(* reindex() applies the log to empty tables, without sessions *)
Replay == [k \in 1 .. Len(log) |-> Stage("change", Whole(log[k]))] \o <<Stage("set_revision", Len(log))>>
Replaying == work # <<>> /\ Last(work).do = "set_revision"
=============================================================================

--------------------------- MODULE ForkDatabase ---------------------------
(***************************************************************************)
(* chain::fork_database as a data type: the tree of blocks that a node     *)
(* keeps in memory above the last irreversible block, and the head of it.  *)
(*                                                                         *)
(* A value of the type is a record f:                                      *)
(*   index     the blocks in _index                                        *)
(*   linked    the items whose weak_ptr prev can still be locked           *)
(*   head      the block of _head, or None                                 *)
(*   max_size  _max_size                                                   *)
(*   held      items kept alive by the branches that _push_block() holds   *)
(*                                                                         *)
(* An item dies when neither _index nor _head nor a branch holds it; from  *)
(* then on the prev of its children is empty, also when the same block is  *)
(* pushed again.  The item of _head and the item of the same id in _index  *)
(* are treated as one.  The unlinked cache is never filled (push_block     *)
(* rethrows before it inserts), no code sets an item's invalid flag, and   *)
(* both are left out.                                                      *)
(***************************************************************************)
EXTENDS Integers, SequencesExt

CONSTANTS
  Blocks,       \* the blocks of every fork
  Genesis,      \* the previous id of block 1
  None,         \* no block
  Prev,         \* signed_block::previous
  Num,          \* block_num(), which the block id contains
  DefaultSize   \* the initial _max_size

ASSUME BlocksAssumption ==
  /\ Genesis \notin Blocks /\ None \notin Blocks /\ None # Genesis
  /\ Prev \in [Blocks -> Blocks \cup {Genesis}]
  /\ Num \in [Blocks -> Nat \ {0}]
  /\ \A b \in Blocks :
       Num[b] = IF Prev[b] = Genesis THEN 1 ELSE Num[Prev[b]] + 1
  /\ DefaultSize \in Nat

ForkDb ==
  [index : SUBSET Blocks, linked : SUBSET Blocks, head : Blocks \cup {None},
   max_size : Nat, held : SUBSET Blocks]

EmptyForkDb ==
  [index |-> {}, linked |-> {}, head |-> None, max_size |-> DefaultSize,
   held |-> {}]

\* The items that are kept, and the pointers between them that survive.
Alive(f) == f.index \cup f.held \cup ({f.head} \ {None})
Links(alive) == {b \in alive : Prev[b] \in alive}
Prune(f) == [f EXCEPT !.linked = @ \cap Links(Alive(f))]

\* Numbers up to this one are too old.
Floor(f) == Max({0, Num[f.head] - f.max_size})

-----------------------------------------------------------------------------
\* push_block() throws for a block that is too old or does not link.
Accepts(f, b) ==
  f.head # None =>
    /\ Num[b] > Floor(f)
    /\ Prev[b] # Genesis => Prev[b] \in f.index

\* Mutant of PushBlock: only a block two above the head becomes the head.
PushBlockLateHead(f, b) ==
  Prune([f EXCEPT
    !.index = @ \cup {b},
    !.head = IF f.head = None \/ Num[b] > Num[f.head] + 1 THEN b ELSE @,
    !.linked = IF Prev[b] # Genesis THEN @ \cup {b} ELSE @])

\* The head moves only to a higher block.  Nothing is inserted for an id that
\* is in the index already, but the new item may still become the head.
PushBlock(f, b) ==
  LET higher == f.head = None \/ Num[b] > Num[f.head]
      links == f.head # None /\ Prev[b] # Genesis
  IN Prune([f EXCEPT
       !.index = @ \cup {b},
       !.head = IF higher THEN b ELSE @,
       !.linked = IF links /\ (b \notin f.index \/ higher)
                  THEN @ \cup {b} ELSE @])

CanPop(f) == f.head # None /\ f.head \in f.linked
PopBlock(f) == Prune([f EXCEPT !.head = Prev[f.head]])

StartBlock(f, b) == Prune([f EXCEPT !.index = @ \cup {b}, !.head = b])
SetHead(f, b) == Prune([f EXCEPT !.head = b])
RemoveBlocks(f, bs) == Prune([f EXCEPT !.index = @ \ bs])

\* The branches of fetch_branch_from() keep their items until they go out of
\* scope.
Hold(f, bs) == Prune([f EXCEPT !.held = bs])

SetMaxSize(f, s) ==
  LET g == [f EXCEPT !.max_size = s]
  IN IF f.head = None THEN g
     ELSE Prune([g EXCEPT !.index = {b \in @ : Num[b] >= Floor(g)}])

-----------------------------------------------------------------------------
\* The item with number n reached from b along prev, None when a pointer on
\* the way is empty.
Walk(f, b, n) ==
  LET up[k \in 0 .. Num[b]] ==
        IF k = 0 THEN b
        ELSE IF up[k - 1] \in f.linked THEN Prev[up[k - 1]] ELSE None
  IN IF n > Num[b] THEN None ELSE up[Num[b] - n]

\* Mutant of FetchOnMainBranch: any block with the number will do.
FetchAnyByNumber(f, n) ==
  LET blocks == {b \in f.index : Num[b] = n}
  IN IF blocks = {} THEN None ELSE CHOOSE b \in blocks : TRUE

\* fetch_block_on_main_branch_by_number(): the walk from the head is only made
\* when the number alone does not decide.
FetchOnMainBranch(f, n) ==
  LET blocks == {b \in f.index : Num[b] = n}
  IN IF blocks = {} THEN None
     ELSE IF Cardinality(blocks) = 1 THEN CHOOSE b \in blocks : TRUE
     ELSE Walk(f, f.head, n)

\* fetch_branch_from(): the numbers at which the branches of two blocks have
\* the same previous block.  The highest one is where they join; with none the
\* call throws.
Joins(f, b1, b2) ==
  {n \in 1 .. Min({Num[b1], Num[b2]}) :
     /\ Walk(f, b1, n) # None /\ Walk(f, b2, n) # None
     /\ Prev[Walk(f, b1, n)] = Prev[Walk(f, b2, n)]}

CanBranch(f, b1, b2) ==
  b1 \in f.index /\ b2 \in f.index /\ Joins(f, b1, b2) # {}

JoinNum(f, b1, b2) == Max(Joins(f, b1, b2))

\* The branch of b from number n up, oldest first.
Branch(f, b, n) == [i \in 1 .. Num[b] - n + 1 |-> Walk(f, b, n + i - 1)]
=============================================================================

------------------------ MODULE ChainDatabaseProofs ------------------------
(***************************************************************************)
(* ChainDatabase for every tree of blocks, schedule of witnesses and       *)
(* environment: the types, and that a block whose undo state was committed *)
(* leaves the chain only when the state is wiped.                          *)
(*                                                                         *)
(* The types need more than they say.  pop_block() moves the head of the   *)
(* fork database to a block only because an item whose prev can be locked  *)
(* has its predecessor alive; a branch consists of blocks only because the *)
(* walk along prev that found its lower end met no empty pointer; undo()   *)
(* lowers the revision only because it is not below the undo depth; and    *)
(* what is sized by the last irreversible block needs nth_element to find  *)
(* one that is not above the head.                                         *)
(***************************************************************************)
EXTENDS ChainDatabase, DataLemmas, FiniteSetTheorems

\* A fork database: prev can be locked only when the item is there, and without a
\* head there is nothing.
ForkOK(f) ==
  /\ f \in ForkDb
  /\ f.linked \subseteq Links(Alive(f))
  /\ f.head = None => f.index = {} /\ f.held = {}

\* The state that survives, and the push_block() that runs.
StateOK ==
  /\ chain \in Seq(Blocks) /\ log \in Seq(Blocks)
  /\ depth \in 0 .. Len(chain) /\ revision \in Nat /\ depth <= revision
  /\ pc = "reindex" => Len(chain) < Len(log)

Jobs ==
  [mode : {"none", "direct", "switch", "restore"}, new : Blocks \cup {None},
   first : Seq(Blocks), second : Seq(Blocks), pos : Nat, before : Seq(Blocks)]

\* The branch that is applied or restored, and the block that is next.
Current(j) == IF j.mode = "switch" THEN j.first ELSE j.second

Branches(j) == j.first # <<>> /\ j.second # <<>> /\ j.pos \in 1 .. Len(Current(j))

JobOK ==
  /\ job \in Jobs
  /\ \/ pc \in {"idle", "down", "reindex"} /\ job = NoJob
     \/ pc \in {"apply", "log"} /\ job.mode = "direct" /\ job.new \in Blocks
     \/ pc \in {"pop", "apply", "log"} /\ job.mode \in {"switch", "restore"} /\ Branches(job)

\* The inductive invariant.
Inv ==
  /\ StateOK /\ ForkOK(fork_db) /\ JobOK
  /\ result \in {"none", "ok", "failed"} /\ env \in Environments

-----------------------------------------------------------------------------
(* The fork database *)

\* What is alive are blocks, and so is the predecessor of an item with a link.
LEMMA LinkedFacts ==
  ASSUME NEW f, ForkOK(f)
  PROVE  /\ Alive(f) \subseteq Blocks /\ f.linked \subseteq Blocks /\ None \notin f.linked
         /\ \A b \in f.linked : Prev[b] \in Blocks
<1>1. f \in ForkDb /\ f.linked \subseteq Links(Alive(f))
  BY DEF ForkOK
<1>2. Alive(f) \subseteq Blocks
  BY <1>1 DEF ForkDb, Alive
<1> QED BY <1>1, <1>2, BlocksAssumption DEF Links

\* Losing items only loses links.
LEMMA PruneOK ==
  ASSUME NEW f \in ForkDb, f.head = None => f.index = {} /\ f.held = {}
  PROVE  ForkOK(Prune(f)) /\ Prune(f).head = f.head /\ Prune(f).index = f.index
         /\ Prune(f).held = f.held /\ Prune(f).max_size = f.max_size
<1>1. Prune(f) = [f EXCEPT !.linked = @ \cap Links(Alive(f))]
  BY DEF Prune
<1>2. /\ Prune(f).head = f.head /\ Prune(f).index = f.index /\ Prune(f).held = f.held
      /\ Prune(f).max_size = f.max_size /\ Prune(f).linked = f.linked \cap Links(Alive(f))
      /\ Prune(f) \in ForkDb
  BY <1>1 DEF ForkDb
<1>3. Alive(Prune(f)) = Alive(f)
  BY <1>2 DEF Alive
<1> QED BY <1>2, <1>3 DEF ForkOK

\* The empty fork database.
LEMMA EmptyOK == ForkOK(EmptyForkDb)
<1>1. EmptyForkDb \in ForkDb
  BY BlocksAssumption DEF EmptyForkDb, ForkDb
<1> QED BY <1>1 DEF ForkOK, EmptyForkDb

\* push_block() of a block.
LEMMA PushBlockOK ==
  ASSUME NEW f, ForkOK(f), NEW b \in Blocks
  PROVE  /\ ForkOK(PushBlock(f, b)) /\ PushBlock(f, b).head \in Blocks
<1> DEFINE higher == f.head = None \/ Num[b] > Num[f.head]
           links == f.head # None /\ Prev[b] # Genesis
           g == [f EXCEPT !.index = @ \cup {b}, !.head = IF higher THEN b ELSE @,
                          !.linked = IF links /\ (b \notin f.index \/ higher)
                                     THEN @ \cup {b} ELSE @]
<1>1. f \in ForkDb
  BY DEF ForkOK
<1>2. f.head # None => f.head \in Blocks
  BY <1>1 DEF ForkDb
<1>3. g \in ForkDb /\ g.head \in Blocks
  BY <1>1, <1>2 DEF ForkDb
<1>4. PushBlock(f, b) = Prune(g)
  BY DEF PushBlock
<1> HIDE DEF g
<1> QED BY <1>3, <1>4, PruneOK, BlocksAssumption

\* Another head, fewer or more items, other branches held.
LEMMA SetHeadOK ==
  ASSUME NEW f, ForkOK(f), NEW b \in Blocks
  PROVE  ForkOK(SetHead(f, b)) /\ ForkOK(StartBlock(f, b))
<1>1. /\ [f EXCEPT !.head = b] \in ForkDb /\ [f EXCEPT !.head = b].head = b
      /\ [f EXCEPT !.index = @ \cup {b}, !.head = b] \in ForkDb
      /\ [f EXCEPT !.index = @ \cup {b}, !.head = b].head = b
  BY DEF ForkOK, ForkDb
<1> QED BY <1>1, PruneOK, BlocksAssumption DEF SetHead, StartBlock

\* pop_block(), of a head with a link.
LEMMA PopBlockOK ==
  ASSUME NEW f, ForkOK(f), CanPop(f)
  PROVE  ForkOK(PopBlock(f))
<1>1. Prev[f.head] \in Blocks
  BY LinkedFacts DEF CanPop
<1> QED BY <1>1, SetHeadOK DEF PopBlock, SetHead

\* remove(), and the items that the branches keep.
LEMMA RemoveOK ==
  ASSUME NEW f, ForkOK(f), NEW bs
  PROVE  ForkOK(RemoveBlocks(f, bs))
<1> DEFINE g == [f EXCEPT !.index = @ \ bs]
<1>1. g \in ForkDb /\ g.head = f.head /\ g.held = f.held /\ g.index \subseteq f.index
  BY DEF ForkOK, ForkDb
<1> HIDE DEF g
<1>2. g.head = None => g.index = {} /\ g.held = {}
  BY <1>1 DEF ForkOK
<1>3. RemoveBlocks(f, bs) = Prune(g)
  BY DEF RemoveBlocks, g
<1> QED BY <1>1, <1>2, <1>3, PruneOK

\* The branches go out of scope, or are fetched.
LEMMA HoldOK ==
  ASSUME NEW f, ForkOK(f), NEW bs \in SUBSET Blocks, f.head = None => bs = {}
  PROVE  ForkOK(Hold(f, bs))
<1> DEFINE g == [f EXCEPT !.held = bs]
<1>1. g \in ForkDb /\ g.head = f.head /\ g.held = bs /\ g.index = f.index
  BY DEF ForkOK, ForkDb
<1> HIDE DEF g
<1>2. g.head = None => g.index = {} /\ g.held = {}
  BY <1>1 DEF ForkOK
<1>3. Hold(f, bs) = Prune(g)
  BY DEF Hold, g
<1> QED BY <1>1, <1>2, <1>3, PruneOK

\* set_max_size().
LEMMA SetMaxSizeOK ==
  ASSUME NEW f, ForkOK(f), NEW s \in Nat
  PROVE  ForkOK(SetMaxSize(f, s))
<1> DEFINE g == [f EXCEPT !.max_size = s]
           h == [g EXCEPT !.index = {b \in @ : Num[b] >= Floor(g)}]
<1>1. /\ g \in ForkDb /\ g.head = f.head /\ g.held = f.held /\ g.index = f.index
      /\ g.linked = f.linked
  BY DEF ForkOK, ForkDb
<1>2. SetMaxSize(f, s) = IF f.head = None THEN g ELSE Prune(h)
  BY DEF SetMaxSize
<1> HIDE DEF g
<1>3. ForkOK(g)
  <2>1. Alive(g) = Alive(f)
    BY <1>1 DEF Alive
  <2> QED BY <1>1, <2>1 DEF ForkOK
<1>4. h \in ForkDb /\ h.head = g.head
  BY <1>1 DEF ForkDb
<1> HIDE DEF h
<1> QED BY <1>1, <1>2, <1>3, <1>4, PruneOK

-----------------------------------------------------------------------------
(* Walks along prev *)

\* up[k] is what the walk from b reaches after k steps.
Climbs(up, f, b) ==
  /\ up \in [0 .. Num[b] -> Blocks \cup {None}] /\ up[0] = b
  /\ \A k \in 1 .. Num[b] :
       up[k] = IF up[k - 1] \in f.linked THEN Prev[up[k - 1]] ELSE None

\* There is such a function, and Walk() is defined by one.
LEMMA WalkClimbs ==
  ASSUME NEW f, ForkOK(f), NEW b \in Blocks
  PROVE  \E up : /\ Climbs(up, f, b)
                 /\ \A n \in 0 .. Num[b] : Walk(f, b, n) = up[Num[b] - n]
<1> DEFINE N == Num[b]
           S == Blocks \cup {None}
           next(x) == IF x \in f.linked THEN Prev[x] ELSE None
           G == [k \in 1 .. N |-> [x \in S |-> next(x)]]
           P(g) == g = [k \in 0 .. N |-> IF k = 0 THEN b ELSE next(g[k - 1])]
           up == CHOOSE x : P(x)
<1>1. N \in Nat /\ b \in S
  BY BlocksAssumption
<1>2. \A x \in S : next(x) \in S
  BY LinkedFacts
<1>3. \A n \in 0 .. N : Walk(f, b, n) = up[N - n]
  <2> TAKE n \in 0 .. N
  <2>1. ~(n > N)
    BY <1>1
  <2>2. Walk(f, b, n) = IF n > N THEN None ELSE up[N - n]
    BY DEF Walk
  <2> HIDE DEF N, up
  <2> QED BY <2>1, <2>2
<1> HIDE DEF next, S, N
<1>4. G \in [1 .. N -> [S -> S]] /\ \A n \in 1 .. N, x \in S : G[n][x] = next(x)
  BY <1>2
<1> HIDE DEF G
<1>5. PICK K : Iterates(K, S, b, G, N)
  BY <1>1, <1>4, RecursiveFunction
<1>6. K \in [0 .. N -> S] /\ K[0] = b
  BY <1>5 DEF Iterates
<1>7. \A n \in 1 .. N : K[n] = next(K[n - 1])
  <2> TAKE n \in 1 .. N
  <2>1. n - 1 \in 0 .. N
    BY <1>1
  <2> QED BY <1>4, <1>5, <2>1 DEF Iterates
<1>8. P(K)
  BY <1>1, <1>6, <1>7
<1>9. P(up)
  <2> HIDE DEF P
  <2> QED BY <1>8, Zenon
<1> HIDE DEF up
<1>10. \A k \in 0 .. N : up[k] = IF k = 0 THEN b ELSE next(up[k - 1])
  BY <1>9
<1> DEFINE T == {n \in 0 .. N : up[n] \in S}
<1>11. up[0] = b /\ \A k \in 1 .. N : up[k] = next(up[k - 1])
  BY <1>1, <1>10
<1>12. 0 \in T /\ \A k \in 1 .. N : k - 1 \in T => k \in T
  BY <1>1, <1>2, <1>11
<1>13. \A k \in 0 .. N : k \in T
  <2> HIDE DEF T
  <2> QED BY <1>1, <1>12, IntervalInduction
<1>14. up \in [0 .. N -> S]
  BY <1>9, <1>13
<1>15. Climbs(up, f, b)
  BY <1>11, <1>14 DEF Climbs, next, S, N
<1> QED BY <1>3, <1>15 DEF N

\* What a walk finds, everything above was there as well.
LEMMA WalkFacts ==
  ASSUME NEW f, ForkOK(f), NEW b \in Blocks, NEW n \in 0 .. Num[b]
  PROVE  /\ Walk(f, b, n) \in Blocks \cup {None}
         /\ Walk(f, b, n) # None => \A m \in n .. Num[b] : Walk(f, b, m) \in Blocks
<1>1. PICK up : /\ Climbs(up, f, b)
                /\ \A m \in 0 .. Num[b] : Walk(f, b, m) = up[Num[b] - m]
  BY WalkClimbs
<1>2. PICK N \in Nat : N = Num[b]
  BY BlocksAssumption
<1>3. /\ up \in [0 .. N -> Blocks \cup {None}]
      /\ \A k \in 1 .. N : up[k] = IF up[k - 1] \in f.linked THEN Prev[up[k - 1]] ELSE None
      /\ \A m \in 0 .. N : Walk(f, b, m) = up[N - m]
  BY <1>1, <1>2 DEF Climbs
<1>4. n \in 0 .. N /\ N - n \in 0 .. N
  BY <1>2
<1>5. Walk(f, b, n) \in Blocks \cup {None}
  BY <1>3, <1>4
<1>6. ASSUME Walk(f, b, n) # None, NEW m \in n .. N, Walk(f, b, m) \notin Blocks
      PROVE  FALSE
  <2> DEFINE T == {k \in 0 .. N : k >= N - m => up[k] = None}
  <2>1. m \in 0 .. N /\ N - m \in 0 .. N /\ up[N - m] = None
    BY <1>3, <1>4, <1>6
  <2>2. 0 \in T
    BY <2>1
  <2>3. ASSUME NEW k \in 1 .. N, k - 1 \in T PROVE k \in T
    <3>1. CASE k - 1 >= N - m
      <4>1. up[k - 1] = None
        BY <2>3, <3>1
      <4>2. None \notin f.linked
        BY LinkedFacts
      <4> QED BY <1>3, <4>1, <4>2
    <3>2. CASE ~(k - 1 >= N - m)
      BY <2>1, <3>2
    <3> QED BY <3>1, <3>2
  <2>4. \A k \in 0 .. N : k \in T
    <3> HIDE DEF T
    <3> QED BY <2>2, <2>3, IntervalInduction
  <2>5. N - n >= N - m
    BY <1>4
  <2>6. up[N - n] = None
    BY <1>4, <2>4, <2>5
  <2> QED BY <1>3, <1>4, <1>6, <2>6
<1> QED BY <1>2, <1>5, <1>6

\* The branch of a block above one that the walk from it finds.
LEMMA BranchOK ==
  ASSUME NEW f, ForkOK(f), NEW b \in Blocks, NEW n \in 0 .. Num[b], Walk(f, b, n) # None
  PROVE  Branch(f, b, n) \in Seq(Blocks) /\ Branch(f, b, n) # <<>>
<1>1. PICK N \in Nat : N = Num[b]
  BY BlocksAssumption
<1>2. n \in 0 .. N /\ N - n + 1 \in Nat
  BY <1>1
<1>3. \A m \in n .. N : Walk(f, b, m) \in Blocks
  BY <1>1, WalkFacts
<1>4. Branch(f, b, n) = [i \in 1 .. N - n + 1 |-> Walk(f, b, n + i - 1)]
  BY <1>1 DEF Branch
<1>5. \A i \in 1 .. N - n + 1 : n + i - 1 \in n .. N
  BY <1>2
<1>6. PICK m \in Nat : m = N - n + 1
  BY <1>2
<1>7. Branch(f, b, n) \in [1 .. m -> Blocks]
  BY <1>3, <1>4, <1>5, <1>6
<1>8. Branch(f, b, n) \in Seq(Blocks) /\ Len(Branch(f, b, n)) = m
  BY <1>7
<1>9. m # 0
  BY <1>2, <1>6
<1> QED BY <1>8, <1>9, EmptySeq

\* fetch_branch_from(): two branches of blocks, from the same block.
LEMMA BranchesOK ==
  ASSUME NEW f, ForkOK(f), NEW a, NEW b, CanBranch(f, a, b)
  PROVE  LET n == JoinNum(f, a, b)
         IN /\ Branch(f, a, n) \in Seq(Blocks) /\ Branch(f, a, n) # <<>>
            /\ Branch(f, b, n) \in Seq(Blocks) /\ Branch(f, b, n) # <<>>
<1>1. a \in Blocks /\ b \in Blocks /\ Joins(f, a, b) # {}
  BY DEF CanBranch, ForkOK, ForkDb
<1>2. PICK A \in Nat : A = Num[a]
  BY <1>1, BlocksAssumption
<1>3. PICK B \in Nat : B = Num[b]
  BY <1>1, BlocksAssumption
<1>4. Min({A, B}) \in Nat /\ Min({A, B}) <= A /\ Min({A, B}) <= B
  BY MinOfTwo
<1>5. PICK M \in Nat : M = Min({A, B}) /\ M <= A /\ M <= B
  BY <1>4
<1>6. Joins(f, a, b) = {n \in 1 .. M : /\ Walk(f, a, n) # None /\ Walk(f, b, n) # None
                                       /\ Prev[Walk(f, a, n)] = Prev[Walk(f, b, n)]}
  BY <1>2, <1>3, <1>5 DEF Joins
<1>7. Joins(f, a, b) \in SUBSET (0 .. M)
  BY <1>6
<1>8. JoinNum(f, a, b) \in Joins(f, a, b)
  BY <1>1, <1>5, <1>7, GreatestElement DEF JoinNum
<1>9. PICK n : n = JoinNum(f, a, b)
  OBVIOUS
<1>10. n \in 1 .. M /\ Walk(f, a, n) # None /\ Walk(f, b, n) # None
  BY <1>6, <1>8, <1>9
<1>11. n \in 0 .. Num[a] /\ n \in 0 .. Num[b]
  BY <1>2, <1>3, <1>5, <1>10
<1> QED BY <1>1, <1>9, <1>10, <1>11, BranchOK

\* fetch_block_on_main_branch_by_number() returns a block or nothing.
LEMMA FetchOK ==
  ASSUME NEW f, ForkOK(f), NEW n \in Nat
  PROVE  FetchOnMainBranch(f, n) \in Blocks \cup {None}
<1> DEFINE bs == {b \in f.index : Num[b] = n}
<1>1. f.index \subseteq Blocks /\ bs \subseteq f.index
  BY DEF ForkOK, ForkDb
<1>2. FetchOnMainBranch(f, n) = IF bs = {} THEN None
        ELSE IF Cardinality(bs) = 1 THEN CHOOSE b \in bs : TRUE
        ELSE Walk(f, f.head, n)
  BY DEF FetchOnMainBranch
<1> HIDE DEF bs
<1>3. bs # {} => f.head \in Blocks
  BY <1>1 DEF ForkOK, ForkDb
<1>4. ASSUME bs # {} PROVE (CHOOSE b \in bs : TRUE) \in Blocks
  BY <1>1, <1>4
<1>5. ASSUME f.head \in Blocks PROVE Walk(f, f.head, n) \in Blocks \cup {None}
  <2>1. Num[f.head] \in Nat
    BY <1>5, BlocksAssumption
  <2>2. CASE n > Num[f.head]
    BY <2>2 DEF Walk
  <2>3. CASE ~(n > Num[f.head])
    <3>1. n \in 0 .. Num[f.head]
      BY <2>1, <2>3
    <3> QED BY <1>5, <3>1, WalkFacts
  <2> QED BY <2>2, <2>3
<1> QED BY <1>2, <1>3, <1>4, <1>5

-----------------------------------------------------------------------------
(* The last irreversible block *)

\* What an environment consists of.
LEMMA EnvFacts ==
  ASSUME env \in Environments
  PROVE  /\ env.voting_start \in Nat /\ env.max_witnesses \in Nat
         /\ scheduled \subseteq Witnesses /\ scheduled # {}
         /\ IsFiniteSet(scheduled) /\ Cardinality(scheduled) \in Nat \ {0}
<1>1. env \in Environment /\ IsFiniteSet(Witnesses)
  BY ChainAssumption
<1>2. /\ env.voting_start \in Nat /\ env.max_witnesses \in Nat
      /\ scheduled \subseteq Witnesses /\ scheduled # {}
  BY <1>1 DEF Environment, scheduled
<1>3. IsFiniteSet(scheduled)
  BY <1>1, <1>2, FS_Subset
<1>4. Cardinality(scheduled) \in Nat /\ Cardinality(scheduled) # 0
  BY <1>2, <1>3, FS_CardinalityType, FS_EmptySet
<1> QED BY <1>2, <1>3, <1>4

\* nth_element is asked for a position that exists.
LEMMA OffsetOK ==
  ASSUME env \in Environments
  PROVE  Offset \in Nat /\ Offset < Cardinality(scheduled)
<1>1. PICK k \in Nat : k = Cardinality(scheduled) /\ k # 0
  BY EnvFacts
<1>2. PICK p \in 0 .. 99 : p = 100 - Threshold
  BY ChainAssumption
<1>3. Offset = (p * k) \div 100
  BY <1>1, <1>2 DEF Offset
<1>4. p * k \in Nat /\ p * k <= 99 * k
  OBVIOUS
<1>5. PICK x \in Nat : x = p * k
  BY <1>4
<1>6. x <= 99 * k /\ Offset = x \div 100
  BY <1>3, <1>4, <1>5
<1>7. x \div 100 \in Nat /\ x \div 100 < k
  BY <1>1, <1>6
<1> QED BY <1>1, <1>6, <1>7

\* A witness confirms a block of the chain or none.
LEMMA LastConfirmedOK ==
  ASSUME NEW c \in Seq(Blocks), NEW w
  PROVE  LastConfirmed(c, w) \in 0 .. Len(c)
<1> DEFINE T == {0} \cup {i \in 1 .. Len(c) : Wit[c[i]] = w}
<1>1. Len(c) \in Nat
  BY LenProperties
<1>2. T \in SUBSET (0 .. Len(c)) /\ T # {}
  BY <1>1
<1>3. LastConfirmed(c, w) = Max(T)
  BY DEF LastConfirmed
<1> HIDE DEF T
<1> QED BY <1>1, <1>2, <1>3, GreatestElement

\* nth_element finds a value, and not one above the head.
LEMMA ConfirmedOK ==
  ASSUME env \in Environments, NEW c \in Seq(Blocks)
  PROVE  /\ Confirmed(c) \in 0 .. Len(c)
         /\ Cardinality({w \in scheduled : LastConfirmed(c, w) < Confirmed(c)}) <= Offset
         /\ Cardinality({w \in scheduled : LastConfirmed(c, w) <= Confirmed(c)}) > Offset
<1> DEFINE Below(v) == {w \in scheduled : LastConfirmed(c, w) < v}
           UpTo(v) == {w \in scheduled : LastConfirmed(c, w) <= v}
           Q(v) == Cardinality(Below(v)) <= Offset /\ Cardinality(UpTo(v)) > Offset
           V == {v \in 0 .. Len(c) : Cardinality(UpTo(v)) > Offset}
<1>1. Len(c) \in Nat /\ Offset \in Nat /\ Offset < Cardinality(scheduled)
  BY LenProperties, OffsetOK
<1>2. \A w \in scheduled : LastConfirmed(c, w) \in 0 .. Len(c)
  BY LastConfirmedOK
<1>3. \A v : Cardinality(UpTo(v)) \in Nat
  <2> TAKE v
  <2>1. UpTo(v) \subseteq scheduled
    OBVIOUS
  <2> HIDE DEF UpTo
  <2> QED BY <2>1, EnvFacts, FS_Subset, FS_CardinalityType
<1>4. Len(c) \in V
  <2>1. UpTo(Len(c)) = scheduled
    BY <1>1, <1>2
  <2>2. Len(c) \in 0 .. Len(c)
    BY <1>1
  <2>3. Cardinality(UpTo(Len(c))) > Offset
    <3> HIDE DEF UpTo
    <3> QED BY <1>1, <2>1
  <2> QED BY <2>2, <2>3, Zenon
<1>5. V \in SUBSET Nat /\ V # {}
  <2>1. V \subseteq 0 .. Len(c)
    BY Zenon
  <2> HIDE DEF V
  <2> QED BY <1>1, <1>4, <2>1
<1>6. PICK m \in V : \A k \in V : m <= k
  <2> HIDE DEF V
  <2> QED BY <1>5, LeastElement
<1>7. m \in 0 .. Len(c) /\ Cardinality(UpTo(m)) > Offset
  OBVIOUS
<1>8. Cardinality(Below(m)) <= Offset
  <2>1. CASE m = 0
    <3>1. Below(m) = {}
      BY <1>1, <1>2, <2>1
    <3> HIDE DEF Below
    <3> QED BY <1>1, <3>1, FS_EmptySet
  <2>2. CASE m # 0
    <3>1. m - 1 \in 0 .. Len(c) /\ m - 1 \notin V
      BY <1>1, <1>6, <1>7, <2>2
    <3>2. Cardinality(UpTo(m - 1)) <= Offset
      <4> HIDE DEF UpTo
      <4> QED BY <1>1, <1>3, <3>1
    <3>3. Below(m) = UpTo(m - 1)
      BY <1>1, <1>2, <1>7
    <3> HIDE DEF Below, UpTo
    <3> QED BY <3>2, <3>3
  <2> QED BY <2>1, <2>2
<1>9. Q(m)
  BY <1>7, <1>8
<1>10. Confirmed(c) = CHOOSE v \in 0 .. Len(c) : Q(v)
  BY DEF Confirmed
<1>11. Confirmed(c) \in 0 .. Len(c) /\ Q(Confirmed(c))
  <2> HIDE DEF Q
  <2> QED BY <1>7, <1>9, <1>10, Zenon
<1> QED BY <1>11

\* The last irreversible block is not above the head.
LEMMA LibOK ==
  ASSUME env \in Environments, NEW c \in Seq(Blocks)
  PROVE  Lib(c) \in 0 .. Len(c)
<1> DEFINE N == Len(c)
           conf(n) == Confirmed(SubSeq(c, 1, n))
           next(n, x) == IF n < env.voting_start
                         THEN IF n > env.max_witnesses THEN n - env.max_witnesses ELSE x
                         ELSE Max({x, conf(n)})
           G == [n \in 1 .. N |-> [x \in Nat |-> next(n, x)]]
           P(g) == g = [n \in 0 .. N |-> IF n = 0 THEN 0 ELSE next(n, g[n - 1])]
           lib == CHOOSE x : P(x)
<1>1. N \in Nat /\ env.voting_start \in Nat /\ env.max_witnesses \in Nat
  BY LenProperties, EnvFacts
<1>2. \A n \in 1 .. N : conf(n) \in 0 .. n
  <2> TAKE n \in 1 .. N
  <2>1. SubSeq(c, 1, n) \in Seq(Blocks) /\ Len(SubSeq(c, 1, n)) = n
    BY <1>1, PrefixFacts DEF Prefix
  <2> QED BY <2>1, ConfirmedOK
<1>3. Lib(c) = lib[N]
  BY DEF Lib
<1> HIDE DEF conf
<1>4. ASSUME NEW n \in 1 .. N, NEW x \in Nat
      PROVE  next(n, x) \in Nat /\ (x <= n => next(n, x) <= n)
  <2>1. conf(n) \in Int /\ x \in Int /\ conf(n) \in 0 .. n
    BY <1>1, <1>2
  <2>2. Max({x, conf(n)}) = IF x >= conf(n) THEN x ELSE conf(n)
    BY <2>1, MaxOfTwo
  <2> QED BY <1>1, <2>1, <2>2
<1> HIDE DEF next, N
<1>5. G \in [1 .. N -> [Nat -> Nat]] /\ \A n \in 1 .. N, x \in Nat : G[n][x] = next(n, x)
  BY <1>4
<1> HIDE DEF G
<1>6. PICK K : Iterates(K, Nat, 0, G, N)
  BY <1>1, <1>5, RecursiveFunction
<1>7. K \in [0 .. N -> Nat] /\ K[0] = 0
  BY <1>6 DEF Iterates
<1>8. \A n \in 1 .. N : K[n] = next(n, K[n - 1])
  <2> TAKE n \in 1 .. N
  <2>1. n - 1 \in 0 .. N
    BY <1>1
  <2> QED BY <1>5, <1>6, <2>1 DEF Iterates
<1>9. P(K)
  BY <1>1, <1>7, <1>8
<1>10. P(lib)
  <2> HIDE DEF P
  <2> QED BY <1>9, Zenon
<1> HIDE DEF lib
<1>11. \A n \in 0 .. N : lib[n] = IF n = 0 THEN 0 ELSE next(n, lib[n - 1])
  BY <1>10
<1> DEFINE T == {n \in 0 .. N : lib[n] \in 0 .. n}
<1>12. 0 \in T
  BY <1>1, <1>11
<1>13. ASSUME NEW n \in 1 .. N, n - 1 \in T PROVE n \in T
  <2>1. lib[n] = next(n, lib[n - 1]) /\ n \in 0 .. N
    BY <1>1, <1>11
  <2>2. lib[n - 1] \in Nat /\ lib[n - 1] <= n
    BY <1>1, <1>13
  <2>3. next(n, lib[n - 1]) \in Nat /\ next(n, lib[n - 1]) <= n
    BY <1>4, <2>2
  <2> QED BY <2>1, <2>3
<1>14. \A n \in 0 .. N : n \in T
  <2> HIDE DEF T
  <2> QED BY <1>1, <1>12, <1>13, IntervalInduction
<1> QED BY <1>1, <1>3, <1>14 DEF N

-----------------------------------------------------------------------------
(* Pieces of the actions *)

\* Sequences of blocks that have a last element.
LEMMA LastOK ==
  ASSUME NEW s \in Seq(Blocks), s # <<>>
  PROVE  Len(s) \in Nat \ {0} /\ Last(s) \in Blocks
<1>1. Len(s) \in Nat \ {0}
  BY EmptySeq, LenProperties
<1>2. Len(s) \in 1 .. Len(s)
  BY <1>1
<1> QED BY <1>1, <1>2, ElementOfSeq DEF Last

\* The end of a push_block().
LEMMA EndPushOK ==
  ASSUME NEW f, ForkOK(f), NEW r \in {"none", "ok", "failed"}, EndPush(f, r)
  PROVE  /\ ForkOK(fork_db') /\ JobOK' /\ pc' = "idle"
         /\ result' \in {"none", "ok", "failed"}
<1>1. pc' = "idle" /\ job' = NoJob /\ result' = r /\ fork_db' = Hold(f, {})
  BY DEF EndPush
<1>2. ForkOK(fork_db')
  BY <1>1, HoldOK
<1>3. <<>> \in Seq(Blocks) /\ 1 \in Nat
  BY EmptySeq
<1>4. NoJob \in Jobs
  BY <1>3 DEF NoJob, Jobs
<1> QED BY <1>1, <1>2, <1>4 DEF JobOK

\* The block being applied is a block.
LEMMA CurOK ==
  ASSUME JobOK, pc \in {"apply", "log"}
  PROVE  Cur \in Blocks
<1>1. job \in Jobs
  BY DEF JobOK
<1>2. CASE job.mode = "direct"
  <2>1. Cur = job.new
    BY <1>2 DEF Cur
  <2> QED BY <1>2, <2>1 DEF JobOK
<1>3. CASE job.mode \in {"switch", "restore"}
  <2>1. Branches(job) /\ Current(job) \in Seq(Blocks)
    BY <1>1, <1>3 DEF JobOK, Jobs, Current
  <2>2. Cur = Current(job)[job.pos]
    BY <1>3 DEF Cur, Current
  <2>3. job.pos \in 1 .. Len(Current(job))
    BY <2>1 DEF Branches
  <2> QED BY <2>1, <2>2, <2>3, ElementOfSeq
<1> QED BY <1>2, <1>3 DEF JobOK, NoJob

\* The catch blocks.
LEMMA FailedOK ==
  ASSUME JobOK, pc \in {"apply", "log"}, result \in {"none", "ok", "failed"},
         NEW f, ForkOK(f), Failed(f)
  PROVE  /\ ForkOK(fork_db') /\ JobOK' /\ pc' # "reindex"
         /\ result' \in {"none", "ok", "failed"}
<1>1. job \in Jobs
  BY DEF JobOK
<1>2. CASE job.mode = "direct"
  <2>1. EndPush(RemoveBlocks(f, {job.new}), "failed")
    BY <1>2 DEF Failed
  <2>2. ForkOK(RemoveBlocks(f, {job.new}))
    BY RemoveOK
  <2> QED BY <2>1, <2>2, EndPushOK
<1>3. CASE job.mode = "switch"
  <2> DEFINE rest == {job.first[i] : i \in job.pos .. Len(job.first)}
  <2>1. /\ fork_db' = SetHead(RemoveBlocks(f, rest), Last(job.second))
        /\ job' = [job EXCEPT !.mode = "restore", !.pos = 1]
        /\ pc' = "pop" /\ result' = result
    BY <1>3 DEF Failed
  <2> HIDE DEF rest
  <2>2. Branches(job) /\ job.second \in Seq(Blocks)
    BY <1>1, <1>3 DEF JobOK, Jobs, NoJob
  <2>3. job.second # <<>> /\ job.first # <<>>
    BY <2>2 DEF Branches
  <2>4. Last(job.second) \in Blocks /\ Len(job.second) \in Nat \ {0}
    BY <2>2, <2>3, LastOK
  <2>5. ForkOK(fork_db')
    BY <2>1, <2>4, RemoveOK, SetHeadOK
  <2>6. /\ job' \in Jobs /\ job'.mode = "restore" /\ job'.pos = 1
        /\ job'.first = job.first /\ job'.second = job.second
    BY <1>1, <2>1 DEF Jobs
  <2>7. Branches(job') /\ 1 \in 1 .. Len(job.second)
    BY <2>3, <2>4, <2>6 DEF Branches, Current
  <2>8. JobOK'
    BY <2>1, <2>6, <2>7 DEF JobOK
  <2> QED BY <2>1, <2>5, <2>8
<1>4. CASE job.mode = "restore"
  <2>1. EndPush(f, "failed")
    BY <1>4 DEF Failed
  <2> QED BY <2>1, EndPushOK
<1> QED BY <1>2, <1>3, <1>4 DEF Failed

\* undo().
LEMMA UndoOK ==
  ASSUME StateOK, UndoOne
  PROVE  /\ chain' \in Seq(Blocks) /\ depth' \in 0 .. Len(chain')
         /\ revision' \in Nat /\ depth' <= revision'
         /\ IsPrefix(Base, chain')
<1>1. chain \in Seq(Blocks) /\ depth \in 0 .. Len(chain) /\ revision \in Nat /\ depth <= revision
  BY DEF StateOK
<1>2. PICK n \in Nat : n = Len(chain)
  BY <1>1, LenProperties
<1>3. PICK k \in 0 .. n : k = n - depth
  BY <1>1, <1>2
<1>4. Base = Prefix(chain, k)
  BY <1>2, <1>3 DEF Base, Prefix
<1>5. /\ Base \in Seq(Blocks) /\ Len(Base) = k
      /\ SubSeq(Base, 1, k) = Base
  BY <1>1, <1>2, <1>4, PrefixFacts, SubSeqFull
<1>6. CASE depth > 0
  <2>1. chain' = Front(chain) /\ depth' = depth - 1 /\ revision' = revision - 1
    BY <1>6 DEF UndoOne
  <2>2. PICK m \in Nat : m = n - 1 /\ k <= m
    BY <1>1, <1>2, <1>3, <1>6
  <2>3. chain' = Prefix(chain, m)
    BY <1>2, <2>1, <2>2 DEF Front, Prefix
  <2>4. m \in 0 .. Len(chain)
    BY <1>2, <2>2
  <2>5. chain' \in Seq(Blocks) /\ Len(chain') = m
    BY <1>1, <2>3, <2>4, PrefixFacts
  <2>6. k \in 0 .. m
    BY <2>2
  <2>7. SubSeq(chain', 1, k) = Base
    BY <1>1, <1>4, <2>3, <2>4, <2>6, PrefixOfPrefix DEF Prefix
  <2>8. IsPrefix(Base, chain')
    BY <1>5, <2>2, <2>5, <2>7 DEF IsPrefix
  <2> QED BY <1>1, <1>2, <1>6, <2>1, <2>2, <2>5, <2>8
<1>7. CASE ~(depth > 0)
  <2>1. chain' = chain /\ depth' = depth /\ revision' = revision
    BY <1>7 DEF UndoOne
  <2>2. IsPrefix(Base, chain)
    BY <1>2, <1>3, <1>4, <1>5 DEF IsPrefix, Prefix
  <2> QED BY <1>1, <2>1, <2>2
<1> QED BY <1>6, <1>7

\* What remains after undo_all().
LEMMA BaseOK ==
  ASSUME StateOK
  PROVE  /\ Base \in Seq(Blocks) /\ Len(Base) = Len(chain) - depth
         /\ IsPrefix(Base, chain) /\ IsPrefix(Base, Base)
         /\ \A b \in Blocks : IsPrefix(Base, Append(chain, b))
<1>1. chain \in Seq(Blocks) /\ depth \in 0 .. Len(chain)
  BY DEF StateOK
<1>2. PICK n \in Nat : n = Len(chain)
  BY <1>1, LenProperties
<1>3. PICK k \in 0 .. n : k = n - depth
  BY <1>1, <1>2
<1>4. Base = Prefix(chain, k) /\ k \in 0 .. Len(chain)
  BY <1>2, <1>3 DEF Base, Prefix
<1>5. Base \in Seq(Blocks) /\ Len(Base) = k
  BY <1>1, <1>4, PrefixFacts
<1>6. SubSeq(Base, 1, k) = Base
  BY <1>5, SubSeqFull
<1>7. IsPrefix(Base, chain) /\ IsPrefix(Base, Base)
  BY <1>2, <1>3, <1>4, <1>5, <1>6 DEF IsPrefix, Prefix
<1>8. ASSUME NEW b \in Blocks PROVE IsPrefix(Base, Append(chain, b))
  <2>1. Len(Append(chain, b)) = n + 1
    BY <1>1, <1>2, AppendProperties
  <2>2. SubSeq(Append(chain, b), 1, k) = Base
    BY <1>1, <1>4, PrefixOfAppend DEF Prefix
  <2> QED BY <1>2, <1>3, <1>5, <1>6, <2>1, <2>2 DEF IsPrefix
<1> QED BY <1>2, <1>3, <1>5, <1>7, <1>8

-----------------------------------------------------------------------------
(* The actions *)

\* What IrreversibleStays says of a step.
KeepsBase == IsPrefix(Base, chain') \/ (pc = "down" /\ ~StateMatchesLog)

\* The state does not change, and no reindex begins.
LEMMA SameState ==
  ASSUME StateOK, UNCHANGED <<chain, depth, revision, log>>, pc' # "reindex"
  PROVE  StateOK' /\ KeepsBase
<1>1. StateOK'
  BY DEF StateOK
<1> QED BY <1>1, BaseOK DEF KeepsBase

\* push_block() up to where it pops or applies.
LEMMA ReceiveStep ==
  ASSUME Inv, NEW b \in Blocks, ReceiveBlock(b)
  PROVE  Inv' /\ KeepsBase
<1> DEFINE f == PushBlock(fork_db, b)
           h == f.head
<1>1. StateOK /\ ForkOK(fork_db) /\ env \in Environments
  BY DEF Inv
<1>2. ForkOK(f) /\ h \in Blocks
  BY <1>1, PushBlockOK
<1>3. UNCHANGED <<chain, depth, revision, log, env>>
  BY DEF ReceiveBlock
<1>4. /\ <<>> \in Seq(Blocks) /\ 1 \in Nat /\ chain \in Seq(Blocks)
  BY <1>1, EmptySeq DEF StateOK
<1>5. CASE /\ Prev[h] = HeadId
           /\ fork_db' = f /\ pc' = "apply" /\ result' = "none"
           /\ job' = Job("direct", b, <<>>, <<>>)
  <2> HIDE DEF f
  <2>1. job' \in Jobs /\ job'.mode = "direct" /\ job'.new = b
    BY <1>4, <1>5 DEF Job, Jobs
  <2>2. JobOK'
    BY <1>5, <2>1 DEF JobOK
  <2>3. ForkOK(fork_db') /\ result' \in {"none", "ok", "failed"} /\ pc' # "reindex"
    BY <1>2, <1>5
  <2> QED BY <1>1, <1>3, <2>2, <2>3, SameState DEF Inv
<1>6. ASSUME NEW r \in {"none", "ok", "failed"}, EndPush(f, r) PROVE Inv' /\ KeepsBase
  <2> HIDE DEF f
  <2>1. /\ ForkOK(fork_db') /\ JobOK' /\ pc' = "idle" /\ result' \in {"none", "ok", "failed"}
    BY <1>2, <1>6, EndPushOK
  <2> QED BY <1>1, <1>3, <2>1, SameState DEF Inv
<1>7. CASE /\ CanBranch(f, h, HeadId)
           /\ LET n == JoinNum(f, h, HeadId)
                  first == Branch(f, h, n)
                  second == Branch(f, HeadId, n)
              IN /\ job' = Job("switch", b, first, second)
                 /\ fork_db' = Hold(f, ToSet(first) \cup ToSet(second))
           /\ pc' = "pop" /\ result' = "none"
  <2> DEFINE n == JoinNum(f, h, HeadId)
             first == Branch(f, h, n)
             second == Branch(f, HeadId, n)
  <2>1. /\ first \in Seq(Blocks) /\ first # <<>>
        /\ second \in Seq(Blocks) /\ second # <<>>
    BY <1>2, <1>7, BranchesOK
  <2>2. /\ job' = Job("switch", b, first, second)
        /\ fork_db' = Hold(f, ToSet(first) \cup ToSet(second))
    BY <1>7
  <2> HIDE DEF first, second, n
  <2>3. ToSet(first) \cup ToSet(second) \in SUBSET Blocks
    BY <2>1, ElementsOf
  <2>4. f.head # None
    BY <1>2, BlocksAssumption
  <2> HIDE DEF f
  <2>5. ForkOK(fork_db')
    BY <1>2, <2>2, <2>3, <2>4, HoldOK
  <2>6. /\ job' \in Jobs /\ job'.mode = "switch" /\ job'.pos = 1
        /\ job'.first = first /\ job'.second = second
    BY <1>4, <2>1, <2>2 DEF Job, Jobs
  <2>7. 1 \in 1 .. Len(first)
    BY <2>1, LastOK
  <2>8. Branches(job')
    BY <2>1, <2>6, <2>7 DEF Branches, Current
  <2>9. JobOK'
    BY <1>7, <2>6, <2>8 DEF JobOK
  <2>10. result' \in {"none", "ok", "failed"} /\ pc' # "reindex"
    BY <1>7
  <2> QED BY <1>1, <1>3, <2>5, <2>9, <2>10, SameState DEF Inv
<1> QED BY <1>5, <1>6, <1>7 DEF ReceiveBlock

\* One round of popping.
LEMMA PopStep ==
  ASSUME Inv, PopUntilForkPoint
  PROVE  Inv' /\ KeepsBase
<1>1. /\ StateOK /\ ForkOK(fork_db) /\ JobOK /\ env \in Environments
      /\ result \in {"none", "ok", "failed"}
  BY DEF Inv
<1>2. pc = "pop" /\ log' = log /\ env' = env
  BY DEF PopUntilForkPoint
<1>3. job \in Jobs /\ job.mode \in {"switch", "restore"} /\ Branches(job)
  BY <1>1, <1>2 DEF JobOK
<1>4. CASE pc' = "apply" /\ UNCHANGED <<chain, depth, revision, fork_db, job, result>>
  <2>1. JobOK'
    BY <1>3, <1>4 DEF JobOK, Branches, Current
  <2>2. ForkOK(fork_db') /\ pc' # "reindex" /\ result' \in {"none", "ok", "failed"}
    BY <1>1, <1>4
  <2> QED BY <1>1, <1>2, <1>4, <2>1, <2>2, SameState DEF Inv
<1>5. CASE /\ CanPop(fork_db) /\ fork_db' = PopBlock(fork_db)
           /\ UndoOne /\ UNCHANGED <<pc, job, result>>
  <2>1. JobOK'
    BY <1>2, <1>3, <1>5 DEF JobOK, Branches, Current
  <2>2. ForkOK(fork_db')
    BY <1>1, <1>5, PopBlockOK
  <2>3. /\ chain' \in Seq(Blocks) /\ depth' \in 0 .. Len(chain')
        /\ revision' \in Nat /\ depth' <= revision' /\ IsPrefix(Base, chain')
    BY <1>1, <1>5, UndoOK
  <2>4. StateOK'
    BY <1>1, <1>2, <1>5, <2>3 DEF StateOK
  <2> QED BY <1>1, <1>2, <1>5, <2>1, <2>2, <2>3, <2>4 DEF Inv, KeepsBase
<1>6. CASE EndPush(fork_db, "failed") /\ UNCHANGED <<chain, depth, revision>>
  <2>1. /\ ForkOK(fork_db') /\ JobOK' /\ pc' = "idle" /\ result' \in {"none", "ok", "failed"}
    BY <1>1, <1>6, EndPushOK
  <2> QED BY <1>1, <1>2, <1>6, <2>1, SameState DEF Inv
<1> QED BY <1>4, <1>5, <1>6 DEF PopUntilForkPoint

\* apply_block() up to commit().
LEMMA ApplyStep ==
  ASSUME Inv, ApplyBlock
  PROVE  Inv' /\ KeepsBase
<1>1. /\ StateOK /\ ForkOK(fork_db) /\ JobOK /\ env \in Environments
      /\ result \in {"none", "ok", "failed"}
  BY DEF Inv
<1>2. pc = "apply" /\ log' = log /\ env' = env
  BY DEF ApplyBlock
<1>3. CASE Failed(fork_db) /\ UNCHANGED <<chain, depth, revision>>
  <2>1. /\ ForkOK(fork_db') /\ JobOK' /\ pc' # "reindex" /\ result' \in {"none", "ok", "failed"}
    BY <1>1, <1>2, <1>3, FailedOK
  <2> QED BY <1>1, <1>2, <1>3, <2>1, SameState DEF Inv
<1>4. CASE /\ chain' = Append(chain, Cur) /\ revision' = revision + 1
           /\ depth' = Min({depth + 1, Max({0, revision' - Lib(chain')})})
           /\ pc' = "log" /\ UNCHANGED <<fork_db, job, result>>
  <2>1. /\ chain \in Seq(Blocks) /\ depth \in 0 .. Len(chain) /\ revision \in Nat
        /\ depth <= revision /\ log \in Seq(Blocks) /\ Len(chain) \in Nat
    BY <1>1, LenProperties DEF StateOK
  <2>2. Cur \in Blocks
    BY <1>1, <1>2, CurOK
  <2>3. chain' \in Seq(Blocks) /\ Len(chain') = Len(chain) + 1
    BY <1>4, <2>1, <2>2, AppendProperties
  <2>4. Lib(chain') \in 0 .. Len(chain')
    BY <1>1, <2>3, LibOK
  <2>5. revision' - Lib(chain') \in Int /\ depth + 1 \in Int /\ 0 \in Int
    BY <1>4, <2>1, <2>3, <2>4
  <2>6. PICK m \in Nat : m = Max({0, revision' - Lib(chain')})
    BY <2>5, MaxOfTwo
  <2>7. depth' = Min({depth + 1, m})
    BY <1>4, <2>6
  <2>8. depth' = IF depth + 1 <= m THEN depth + 1 ELSE m
    BY <2>5, <2>7, MinOfTwo
  <2>9. depth' \in 0 .. depth + 1
    BY <2>1, <2>6, <2>8
  <2>10. depth' \in 0 .. Len(chain') /\ revision' \in Nat /\ depth' <= revision'
    BY <1>4, <2>1, <2>3, <2>9
  <2>11. StateOK'
    BY <1>2, <1>4, <2>1, <2>3, <2>10 DEF StateOK
  <2>12. JobOK'
    BY <1>1, <1>2, <1>4 DEF JobOK, Branches, Current
  <2>13. KeepsBase
    BY <1>1, <1>4, <2>2, BaseOK DEF KeepsBase
  <2> QED BY <1>1, <1>2, <1>4, <2>11, <2>12, <2>13 DEF Inv
<1> QED BY <1>3, <1>4 DEF ApplyBlock

\* The block log only takes blocks that the fork database found, and keeps what
\* it has.
LEMMA LogOK ==
  ASSUME StateOK, ForkOK(fork_db), env \in Environments,
         NEW l, l = [n \in 1 .. LogUpTo |->
                       IF n <= Len(log) THEN log[n] ELSE FetchOnMainBranch(fork_db, n)]
  PROVE  l \in Seq(Blocks) /\ IsPrefix(log, l)
<1>1. chain \in Seq(Blocks) /\ log \in Seq(Blocks)
  BY DEF StateOK
<1>2. PICK lib \in Nat : lib = Lib(chain)
  <2>1. Len(chain) \in Nat /\ Lib(chain) \in 0 .. Len(chain)
    BY <1>1, LibOK, LenProperties
  <2> QED BY <2>1
<1>3. PICK len \in Nat : len = Len(log)
  BY <1>1, LenProperties
<1>4. Missing = {n \in len + 1 .. lib : FetchOnMainBranch(fork_db, n) = None}
  BY <1>2, <1>3 DEF Missing
<1>5. \E top \in Nat : /\ top = LogUpTo /\ len <= top
                       /\ \A n \in len + 1 .. top : n \in len + 1 .. lib /\ n \notin Missing
  <2>1. CASE Missing = {}
    <3>1. LogUpTo = IF len >= lib THEN len ELSE lib
      BY <1>2, <1>3, <2>1, MaxOfTwo DEF LogUpTo
    <3> QED BY <2>1, <3>1
  <2>2. CASE Missing # {}
    <3>1. Missing \in SUBSET Nat
      BY <1>4
    <3>2. \E x \in Missing : \A y \in Missing : x <= y
      BY <2>2, <3>1, LeastElement
    <3>3. Min(Missing) \in Missing /\ \A y \in Missing : Min(Missing) <= y
      BY <3>2, Zenon DEF Min
    <3>4. PICK m \in Missing : m = Min(Missing) /\ \A y \in Missing : m <= y
      BY <3>3
    <3>5. m \in len + 1 .. lib
      BY <1>4
    <3>6. LogUpTo = m - 1
      BY <2>2, <3>4 DEF LogUpTo
    <3>7. m - 1 \in Nat /\ len <= m - 1
      BY <3>5
    <3>8. \A n \in len + 1 .. m - 1 : n \in len + 1 .. lib /\ ~(m <= n)
      BY <3>5
    <3> QED BY <3>4, <3>6, <3>7, <3>8
  <2> QED BY <2>1, <2>2
<1>6. PICK top \in Nat : /\ top = LogUpTo /\ len <= top
                         /\ \A n \in len + 1 .. top : n \in len + 1 .. lib /\ n \notin Missing
  BY <1>5
<1>7. ASSUME NEW n \in len + 1 .. top PROVE FetchOnMainBranch(fork_db, n) \in Blocks
  <2>1. n \in len + 1 .. lib /\ n \notin Missing /\ n \in Nat
    BY <1>6
  <2>2. FetchOnMainBranch(fork_db, n) # None
    BY <1>4, <2>1
  <2>3. FetchOnMainBranch(fork_db, n) \in Blocks \cup {None}
    BY <2>1, FetchOK
  <2> QED BY <2>2, <2>3
<1>8. \A n \in 1 .. len : log[n] \in Blocks
  BY <1>1, <1>3, ElementOfSeq
<1> DEFINE at(n) == IF n <= len THEN log[n] ELSE FetchOnMainBranch(fork_db, n)
<1>9. \A n \in 1 .. top : at(n) \in Blocks
  <2> TAKE n \in 1 .. top
  <2>1. CASE n <= len
    <3>1. n \in 1 .. len
      BY <2>1
    <3> QED BY <1>8, <2>1, <3>1
  <2>2. CASE ~(n <= len)
    <3>1. n \in len + 1 .. top
      BY <2>2
    <3> QED BY <1>7, <2>2, <3>1
  <2> QED BY <2>1, <2>2
<1>10. l = [n \in 1 .. top |-> at(n)]
  BY <1>3, <1>6
<1>11. l \in [1 .. top -> Blocks]
  <2> HIDE DEF at
  <2> QED BY <1>9, <1>10
<1>12. l \in Seq(Blocks) /\ Len(l) = top
  BY <1>11, FunctionIsSequence
<1>13. \A n \in 1 .. len : log[n] = l[n]
  BY <1>6, <1>10
<1>14. len \in 0 .. Len(log)
  BY <1>3
<1>15. Prefix(log, len) = Prefix(l, len)
  BY <1>1, <1>6, <1>12, <1>13, <1>14, PrefixEqual
<1>16. IsPrefix(log, l)
  BY <1>3, <1>6, <1>12, <1>15 DEF IsPrefix, Prefix
<1> QED BY <1>12, <1>16

\* The rest of apply_block().
LEMMA LogStep ==
  ASSUME Inv, LogAndFinish
  PROVE  Inv' /\ KeepsBase /\ IsPrefix(log, log')
<1> DEFINE branch == IF job.mode = "switch" THEN job.first ELSE job.second
           trimmed == SetMaxSize(fork_db, Max({0, Len(chain) - Lib(chain) + 1}))
<1>1. /\ StateOK /\ ForkOK(fork_db) /\ JobOK /\ env \in Environments
      /\ result \in {"none", "ok", "failed"}
  BY DEF Inv
<1>2. pc = "log" /\ env' = env
  BY DEF LogAndFinish
<1>3. log' \in Seq(Blocks) /\ IsPrefix(log, log')
  BY <1>1, LogOK DEF LogAndFinish
<1>4. ForkOK(trimmed)
  <2>1. chain \in Seq(Blocks) /\ Len(chain) \in Nat
    BY <1>1, LenProperties DEF StateOK
  <2>2. Lib(chain) \in 0 .. Len(chain)
    BY <1>1, <2>1, LibOK
  <2>3. 0 \in Int /\ Len(chain) - Lib(chain) + 1 \in Int
    BY <2>1, <2>2
  <2>4. Max({0, Len(chain) - Lib(chain) + 1}) \in Nat
    BY <2>3, MaxOfTwo
  <2> QED BY <1>1, <2>4, SetMaxSizeOK
<1>5. \/ UndoOne /\ Failed(fork_db)
      \/ UndoOne /\ Failed(trimmed)
      \/ /\ UNCHANGED <<chain, depth, revision>>
         /\ \/ EndPush(trimmed, "ok")
            \/ /\ job.mode # "direct" /\ job.pos < Len(branch)
               /\ job' = [job EXCEPT !.pos = @ + 1]
               /\ pc' = "apply" /\ fork_db' = trimmed /\ UNCHANGED result
            \/ EndPush(trimmed, IF job.mode = "switch" THEN "ok" ELSE "failed")
  BY Zenon DEF LogAndFinish
<1> HIDE DEF trimmed
<1>6. ASSUME NEW f, ForkOK(f), UndoOne, Failed(f) PROVE Inv' /\ KeepsBase
  <2>1. /\ ForkOK(fork_db') /\ JobOK' /\ pc' # "reindex" /\ result' \in {"none", "ok", "failed"}
    BY <1>1, <1>2, <1>6, FailedOK
  <2>2. /\ chain' \in Seq(Blocks) /\ depth' \in 0 .. Len(chain')
        /\ revision' \in Nat /\ depth' <= revision' /\ IsPrefix(Base, chain')
    BY <1>1, <1>6, UndoOK
  <2>3. StateOK'
    BY <1>3, <2>1, <2>2 DEF StateOK
  <2> QED BY <1>1, <1>2, <2>1, <2>2, <2>3 DEF Inv, KeepsBase
<1>7. ASSUME UNCHANGED <<chain, depth, revision>>, pc' # "reindex"
      PROVE  StateOK' /\ KeepsBase
  <2>1. StateOK'
    BY <1>1, <1>3, <1>7 DEF StateOK
  <2>2. IsPrefix(Base, chain')
    BY <1>1, <1>7, BaseOK
  <2> QED BY <2>1, <2>2 DEF KeepsBase
<1>8. ASSUME UNCHANGED <<chain, depth, revision>>, NEW r \in {"none", "ok", "failed"},
             EndPush(trimmed, r)
      PROVE  Inv' /\ KeepsBase
  <2>1. /\ ForkOK(fork_db') /\ JobOK' /\ pc' = "idle" /\ result' \in {"none", "ok", "failed"}
    BY <1>4, <1>8, EndPushOK
  <2> QED BY <1>1, <1>2, <1>7, <1>8, <2>1 DEF Inv
<1>9. ASSUME UNCHANGED <<chain, depth, revision>>,
             job.mode # "direct", job.pos < Len(branch),
             job' = [job EXCEPT !.pos = @ + 1],
             pc' = "apply", fork_db' = trimmed, result' = result
      PROVE  Inv' /\ KeepsBase
  <2>1. job \in Jobs /\ job.mode \in {"switch", "restore"} /\ Branches(job)
    BY <1>1, <1>2, <1>9 DEF JobOK
  <2>2. job.pos \in Nat /\ branch \in Seq(Blocks) /\ branch = Current(job)
    BY <2>1 DEF Jobs, Current
  <2>3. PICK p \in Nat : p = job.pos
    BY <2>2
  <2> HIDE DEF branch
  <2>4. PICK len \in Nat : len = Len(branch)
    BY <2>2, LenProperties
  <2>5. p + 1 \in Nat /\ p + 1 \in 1 .. len
    BY <1>9, <2>3, <2>4
  <2>6. /\ job' \in Jobs /\ job'.mode = job.mode /\ job'.pos = p + 1
        /\ job'.first = job.first /\ job'.second = job.second
    BY <1>9, <2>1, <2>3, <2>5 DEF Jobs
  <2>7. Current(job') = branch
    BY <2>2, <2>6 DEF Current
  <2>8. Branches(job')
    BY <2>1, <2>4, <2>5, <2>6, <2>7 DEF Branches
  <2>9. JobOK'
    BY <1>9, <2>1, <2>6, <2>8 DEF JobOK
  <2> QED BY <1>1, <1>2, <1>4, <1>7, <1>9, <2>9 DEF Inv
<1> QED BY <1>1, <1>3, <1>4, <1>5, <1>6, <1>8, <1>9

\* The process ends.
LEMMA StopStep ==
  ASSUME Inv, Stop
  PROVE  Inv' /\ KeepsBase
<1>1. /\ pc' = "down" /\ job' = NoJob /\ result' = "none" /\ fork_db' = EmptyForkDb
      /\ UNCHANGED <<chain, depth, revision, log, env>>
  BY DEF Stop
<1>2. <<>> \in Seq(Blocks) /\ 1 \in Nat
  BY EmptySeq
<1>3. NoJob \in Jobs
  BY <1>2 DEF NoJob, Jobs
<1>4. JobOK'
  BY <1>1, <1>3 DEF JobOK
<1> QED BY <1>1, <1>4, EmptyOK, SameState DEF Inv

\* open(), when the state matches the block log and when it does not.
LEMMA OpenStep ==
  ASSUME Inv, Open \/ OpenFails
  PROVE  Inv' /\ KeepsBase
<1>1. /\ StateOK /\ ForkOK(fork_db) /\ JobOK /\ env \in Environments
      /\ result \in {"none", "ok", "failed"}
  BY DEF Inv
<1>2. pc = "down" /\ UNCHANGED <<log, job, result, env>>
  BY DEF Open, OpenFails
<1>3. job \in Jobs /\ job = NoJob
  BY <1>1, <1>2 DEF JobOK
<1>4. /\ chain \in Seq(Blocks) /\ depth \in 0 .. Len(chain) /\ revision \in Nat
      /\ depth <= revision /\ log \in Seq(Blocks) /\ Len(chain) \in Nat
  BY <1>1, LenProperties DEF StateOK
<1>5. CASE Open
  <2>1. /\ chain' = Base /\ depth' = 0 /\ revision' = revision - depth
        /\ fork_db' = IF Base = <<>> THEN EmptyForkDb ELSE StartBlock(EmptyForkDb, Last(Base))
        /\ pc' = "idle"
    BY <1>5 DEF Open
  <2>2. Base \in Seq(Blocks) /\ IsPrefix(Base, Base)
    BY <1>1, BaseOK
  <2>3. ForkOK(fork_db')
    BY <2>1, <2>2, LastOK, EmptyOK, SetHeadOK
  <2>4. depth' \in 0 .. Len(chain') /\ revision' \in Nat /\ depth' <= revision'
    BY <1>4, <2>1, <2>2, LenProperties
  <2>5. StateOK'
    BY <1>2, <1>4, <2>1, <2>2, <2>4 DEF StateOK
  <2>6. JobOK'
    BY <1>2, <1>3, <2>1 DEF JobOK
  <2> QED BY <1>1, <1>2, <2>1, <2>2, <2>3, <2>5, <2>6 DEF Inv, KeepsBase
<1>6. CASE OpenFails
  <2>1. /\ ~StateMatchesLog /\ chain' = <<>> /\ depth' = 0 /\ revision' = 0
        /\ pc' = (IF log = <<>> THEN "idle" ELSE "reindex") /\ fork_db' = fork_db
    BY <1>6 DEF OpenFails
  <2>2. <<>> \in Seq(Blocks) /\ Len(<<>>) = 0
    BY EmptySeq
  <2>3. log # <<>> => Len(log) > 0
    BY <1>4, LastOK
  <2>4. depth' \in 0 .. Len(chain') /\ revision' \in Nat /\ depth' <= revision'
    BY <2>1, <2>2
  <2>5. pc' = "reindex" => Len(chain') < Len(log)
    BY <2>1, <2>2, <2>3
  <2>6. StateOK'
    BY <1>2, <1>4, <2>1, <2>2, <2>4, <2>5 DEF StateOK
  <2>7. JobOK'
    BY <1>2, <1>3, <2>1 DEF JobOK
  <2> QED BY <1>1, <1>2, <2>1, <2>6, <2>7 DEF Inv, KeepsBase
<1> QED BY <1>5, <1>6

\* One block of a reindex.
LEMMA ReindexStep ==
  ASSUME Inv, Reindex
  PROVE  Inv' /\ KeepsBase
<1> DEFINE b == log[Len(chain) + 1]
           sized == SetMaxSize(fork_db, Len(chain') - Lib(chain') + 1)
<1>1. /\ StateOK /\ ForkOK(fork_db) /\ JobOK /\ env \in Environments
      /\ result \in {"none", "ok", "failed"}
  BY DEF Inv
<1>2. /\ pc = "reindex" /\ UNCHANGED <<depth, log, job, result, env>>
      /\ chain' = IF EarlyFault(b) THEN chain ELSE Append(chain, b)
      /\ \/ pc' = "down" /\ UNCHANGED <<revision, fork_db>>
         \/ /\ Len(chain') < Len(log) /\ fork_db' = sized /\ UNCHANGED <<revision, pc>>
         \/ /\ Len(chain') = Len(log) /\ fork_db' = StartBlock(sized, b)
            /\ revision' = Len(log) /\ pc' = "idle"
  BY DEF Reindex
<1>3. job \in Jobs /\ job = NoJob
  BY <1>1, <1>2 DEF JobOK
<1>4. /\ chain \in Seq(Blocks) /\ depth \in 0 .. Len(chain) /\ revision \in Nat
      /\ depth <= revision /\ log \in Seq(Blocks) /\ Len(chain) \in Nat
      /\ Len(log) \in Nat /\ Len(chain) < Len(log)
  BY <1>1, <1>2, LenProperties DEF StateOK
<1>5. b \in Blocks
  <2>1. Len(chain) + 1 \in 1 .. Len(log)
    BY <1>4
  <2> QED BY <1>4, <2>1, ElementOfSeq
<1> HIDE DEF b
<1>6. /\ chain' \in Seq(Blocks) /\ Len(chain') \in Nat /\ Len(chain) <= Len(chain')
      /\ IsPrefix(Base, chain')
  <2>1. Append(chain, b) \in Seq(Blocks) /\ Len(Append(chain, b)) = Len(chain) + 1
    BY <1>4, <1>5, AppendProperties
  <2>2. IsPrefix(Base, chain) /\ IsPrefix(Base, Append(chain, b))
    BY <1>1, <1>5, BaseOK
  <2>3. CASE chain' = chain
    BY <1>4, <2>2, <2>3
  <2>4. CASE chain' = Append(chain, b)
    BY <1>4, <2>1, <2>2, <2>4
  <2> QED BY <1>2, <2>3, <2>4
<1>7. ForkOK(sized)
  <2>1. Lib(chain') \in 0 .. Len(chain')
    BY <1>1, <1>6, LibOK
  <2>2. Len(chain') - Lib(chain') + 1 \in Nat
    BY <1>6, <2>1
  <2> QED BY <1>1, <2>2, SetMaxSizeOK
<1> HIDE DEF sized
<1>8. ForkOK(fork_db')
  BY <1>1, <1>2, <1>5, <1>7, SetHeadOK
<1>9. depth' \in 0 .. Len(chain') /\ revision' \in Nat /\ depth' <= revision'
  <2>1. depth' \in 0 .. Len(chain')
    BY <1>2, <1>4, <1>6
  <2>2. revision' = revision \/ (revision' = Len(log) /\ Len(chain') = Len(log))
    BY <1>2
  <2> QED BY <1>2, <1>4, <1>6, <2>1, <2>2
<1>10. pc' = "reindex" => Len(chain') < Len(log)
  BY <1>2
<1>11. StateOK'
  BY <1>2, <1>4, <1>6, <1>9, <1>10 DEF StateOK
<1>12. JobOK'
  BY <1>2, <1>3 DEF JobOK
<1> QED BY <1>1, <1>2, <1>6, <1>8, <1>11, <1>12 DEF Inv, KeepsBase

-----------------------------------------------------------------------------
(* The theorems *)

\* Initial states.
LEMMA InitInv == Init => Inv
<1> SUFFICES ASSUME Init PROVE Inv
  OBVIOUS
<1>1. <<>> \in Seq(Blocks) /\ Len(<<>>) = 0 /\ 1 \in Nat
  BY EmptySeq
<1>2. /\ chain = <<>> /\ depth = 0 /\ revision = 0 /\ log = <<>>
      /\ fork_db = EmptyForkDb /\ pc = "idle" /\ job = NoJob /\ result = "none"
      /\ env \in Environments
  BY DEF Init
<1>3. StateOK
  <2>1. depth \in 0 .. Len(chain) /\ revision \in Nat /\ depth <= revision
    BY <1>1, <1>2
  <2> QED BY <1>1, <1>2, <2>1 DEF StateOK
<1>4. NoJob \in Jobs
  BY <1>1 DEF NoJob, Jobs
<1>5. JobOK
  BY <1>2, <1>4 DEF JobOK
<1> QED BY <1>2, <1>3, <1>5, EmptyOK DEF Inv

\* Every step keeps the invariant, the blocks that were committed, and the log.
LEMMA StepInv ==
  ASSUME Inv, [Next]_vars
  PROVE  Inv' /\ KeepsBase /\ IsPrefix(log, log')
<1>1. log \in Seq(Blocks) /\ IsPrefix(log, log)
  <2>1. log \in Seq(Blocks)
    BY DEF Inv, StateOK
  <2> QED BY <2>1, LenProperties DEF IsPrefix
<1>2. ASSUME NEW b \in Blocks, ReceiveBlock(b) PROVE Inv' /\ KeepsBase /\ log' = log
  BY <1>2, ReceiveStep DEF ReceiveBlock
<1>3. CASE PopUntilForkPoint
  BY <1>1, <1>3, PopStep DEF PopUntilForkPoint
<1>4. CASE ApplyBlock
  BY <1>1, <1>4, ApplyStep DEF ApplyBlock
<1>5. CASE LogAndFinish
  BY <1>5, LogStep
<1>6. CASE Stop
  BY <1>1, <1>6, StopStep DEF Stop
<1>7. CASE Open \/ OpenFails
  BY <1>1, <1>7, OpenStep DEF Open, OpenFails
<1>8. CASE Reindex
  BY <1>1, <1>8, ReindexStep DEF Reindex
<1>9. CASE UNCHANGED vars
  <2>1. UNCHANGED <<chain, depth, revision, log, fork_db, pc, job, result, env>>
    BY <1>9 DEF vars
  <2>2. Inv'
    BY <2>1 DEF Inv, StateOK, JobOK, Branches, Current
  <2>3. KeepsBase
    BY <2>1, BaseOK DEF Inv, KeepsBase
  <2> QED BY <1>1, <2>1, <2>2, <2>3
<1> QED BY <1>1, <1>2, <1>3, <1>4, <1>5, <1>6, <1>7, <1>8, <1>9 DEF Next

\* The inductive invariant holds: for every tree of blocks, schedule and
\* environment, whatever is delivered, fails or stops.
THEOREM ChainInvariant == Spec => []Inv
<1>1. Inv /\ [Next]_vars => Inv'
  BY StepInv
<1> QED BY <1>1, InitInv, PTL DEF Spec

\* The types of the state: the undo stack is never longer than the chain, only
\* blocks are applied and logged, and the head of the fork database is one.
THEOREM Types == Spec => []TypeOK
<1>1. Inv => TypeOK
  <2> SUFFICES ASSUME Inv PROVE TypeOK
    OBVIOUS
  <2>1. job.mode \in {"none", "direct", "switch", "restore"}
    BY DEF Inv, JobOK, Jobs
  <2>2. pc \in {"idle", "pop", "apply", "log", "down", "reindex"}
    BY DEF Inv, JobOK
  <2> QED BY <2>1, <2>2 DEF Inv, StateOK, ForkOK, TypeOK
<1> QED BY <1>1, ChainInvariant, PTL

\* A block whose undo state was committed leaves the chain only when the state is
\* wiped for a reindex: no fork switch, failed block or restart takes it away.
THEOREM CommittedBlocksStay == Spec => IrreversibleStays
<1> DEFINE A == IsPrefix(Base, chain') \/ (pc = "down" /\ ~StateMatchesLog)
<1>1. Inv /\ [Next]_vars => [A]_vars
  BY StepInv DEF KeepsBase
<1> HIDE DEF A
<1>2. Spec => [][A]_vars
  BY <1>1, ChainInvariant, PTL DEF Spec
<1> QED BY <1>2, PTL DEF IrreversibleStays, A

\* The block log only grows at its end: update_last_irreversible_block() never
\* rewrites what it has logged, and neither does a restart.
THEOREM LogOnlyGrows == Spec => [][IsPrefix(log, log')]_vars
<1>1. Inv /\ [Next]_vars => [IsPrefix(log, log')]_vars
  BY StepInv
<1> QED BY <1>1, ChainInvariant, PTL DEF Spec
=============================================================================

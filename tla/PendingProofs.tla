--------------------------- MODULE PendingProofs ---------------------------
(***************************************************************************)
(* Proofs about PendingTransactions for any set of transactions and any    *)
(* number of blocks.                                                       *)
(*                                                                         *)
(* That no transaction is replayed and none is lost depends on how every   *)
(* block and every queue came about: each transaction was applied on top   *)
(* of those in front of it.  The inductive invariant says so of the chain  *)
(* (GoodChain), also of the one that a failed push restores, and of the    *)
(* queue (Applicable), and that what was popped and taken away stays in an *)
(* order in which each finds what it needs in front of it (InOrder).       *)
(***************************************************************************)
EXTENDS PendingTransactions, DataLemmas

-----------------------------------------------------------------------------
\* What the recursive definitions compute.

\* F[n] holds the transactions of the first n blocks of c.
Concatenates(F, c) ==
  /\ F \in [0 .. Len(c) -> Seq(Txs)] /\ F[0] = <<>>
  /\ \A n \in 1 .. Len(c) : F[n] = F[n - 1] \o c[n].txs

\* K[n] is transaction_index after the first n blocks of c.
Remembers(K, c) ==
  /\ K \in [0 .. Len(c) -> SUBSET Txs] /\ K[0] = {}
  /\ \A n \in 1 .. Len(c) :
       K[n] = {t \in K[n - 1] \cup ToSet(c[n].txs) : c[n].time <= Expiration[t]}

\* f[n] holds those of the first n transactions of txs that succeed.
Applies(f, c, txs) ==
  /\ f \in [0 .. Len(txs) -> Seq(Txs)] /\ f[0] = <<>>
  /\ \A n \in 1 .. Len(txs) :
       f[n] = IF CanApply(txs[n], c, f[n - 1]) THEN Append(f[n - 1], txs[n])
              ELSE f[n - 1]

\* The n-th block of a chain.
LEMMA BlockTypes ==
  ASSUME NEW c \in Seq(Blocks), NEW n \in 1 .. Len(c)
  PROVE  /\ c[n] \in Blocks /\ c[n].time \in 1 .. MaxTime /\ c[n].txs \in Seq(Txs)
         /\ ToSet(c[n].txs) \subseteq Txs
<1>1. c[n] \in Blocks
  BY ElementOfSeq
<1>2. c[n].time \in 1 .. MaxTime /\ c[n].txs \in Seq(Txs)
  BY <1>1 DEF Blocks
<1> QED BY <1>1, <1>2, ElementsOf

\* Such a function exists for every chain ...
LEMMA ConcatenatesExists ==
  ASSUME NEW c \in Seq(Blocks)
  PROVE  \E F : Concatenates(F, c)
<1> DEFINE N == Len(c)
           G == [n \in 1 .. N |-> [s \in Seq(Txs) |-> s \o c[n].txs]]
<1>1. N \in Nat /\ <<>> \in Seq(Txs)
  BY LenProperties, EmptySeq
<1>2. \A n \in 1 .. N, s \in Seq(Txs) : s \o c[n].txs \in Seq(Txs)
  BY BlockTypes, ConcatProperties
<1>3. G \in [1 .. N -> [Seq(Txs) -> Seq(Txs)]]
  BY <1>2
<1>4. \A n \in 1 .. N, s \in Seq(Txs) : G[n][s] = s \o c[n].txs
  OBVIOUS
<1> HIDE DEF G
<1>5. PICK F : Iterates(F, Seq(Txs), <<>>, G, N)
  BY <1>1, <1>3, RecursiveFunction
<1>6. \A n \in 1 .. N : F[n] = F[n - 1] \o c[n].txs
  <2> TAKE n \in 1 .. N
  <2>1. n - 1 \in 0 .. N
    BY <1>1
  <2> QED BY <1>4, <1>5, <2>1 DEF Iterates
<1> QED BY <1>5, <1>6 DEF Concatenates, Iterates

\* ... and TxsOf is its last value.
LEMMA TxsOfValue ==
  ASSUME NEW c \in Seq(Blocks), NEW F, Concatenates(F, c)
  PROVE  TxsOf(c) = F[Len(c)]
<1> DEFINE N == Len(c)
           s == [i \in 1 .. N |-> c[i].txs]
           P(g) == g = [i \in 1 .. Len(s) |-> IF i = 1 THEN s[i] ELSE g[i - 1] \o s[i]]
<1>1. N \in Nat /\ s \in Seq(Seq(Txs)) /\ Len(s) = N
  <2>1. N \in Nat
    BY LenProperties
  <2>2. \A i \in 1 .. N : c[i].txs \in Seq(Txs)
    BY BlockTypes
  <2> QED BY <2>1, <2>2
<1>2. CASE N = 0
  <2>1. s = <<>>
    BY <1>1, <1>2, EmptySeq
  <2>2. TxsOf(c) = s
    BY <1>1, <1>2 DEF TxsOf, FlattenSeq
  <2> QED BY <1>2, <2>1, <2>2 DEF Concatenates
<1>3. CASE N # 0
  <2> DEFINE h == [i \in 1 .. N |-> F[i]]
             g == CHOOSE x : P(x)
  <2>1. \A i \in 1 .. N : /\ F[i] = F[i - 1] \o s[i] /\ F[i - 1] \in Seq(Txs)
                          /\ s[i] \in Seq(Txs)
    BY <1>1, BlockTypes DEF Concatenates
  <2>2. F[0] = <<>> /\ 1 \in 1 .. N
    BY <1>1, <1>3 DEF Concatenates
  <2>3. F[1] = s[1]
    <3>1. F[1] = F[1 - 1] \o s[1] /\ s[1] \in Seq(Txs)
      BY <2>1, <2>2
    <3>2. F[1 - 1] = <<>>
      BY <2>2
    <3>3. F[1] = <<>> \o s[1]
      BY <3>1, <3>2, Zenon
    <3> QED BY <3>1, <3>3, ConcatEmptySeq
  <2>4. P(h)
    <3>1. \A i \in 1 .. N : h[i] = IF i = 1 THEN s[i] ELSE h[i - 1] \o s[i]
      <4> DEFINE cat(x, y) == x \o y
      <4>1. \A i \in 1 .. N : F[i] = cat(F[i - 1], s[i])
        BY <2>1
      <4> HIDE DEF cat, s
      <4>2. \A i \in 1 .. N : h[i] = IF i = 1 THEN s[i] ELSE cat(h[i - 1], s[i])
        BY <1>1, <2>3, <4>1
      <4> QED BY <4>2 DEF cat
    <3> HIDE DEF s
    <3> QED BY <1>1, <3>1, Zenon
  <2>5. P(g)
    <3> HIDE DEF P, h
    <3> QED BY <2>4, Zenon
  <2>6. TxsOf(c) = g[N]
    BY <1>1, <1>3 DEF TxsOf, FlattenSeq
  <2> DEFINE T == {n \in 0 .. N : n = 0 \/ g[n] = F[n]}
  <2> HIDE DEF g, s
  <2>7. \A n \in 1 .. N : n - 1 \in T => n \in T
    <3> DEFINE cat(x, y) == x \o y
    <3>1. \A i \in 1 .. N : F[i] = cat(F[i - 1], s[i])
      BY <2>1
    <3>2. \A i \in 1 .. N : g[i] = IF i = 1 THEN s[i] ELSE cat(g[i - 1], s[i])
      BY <1>1, <2>5
    <3> HIDE DEF cat
    <3> QED BY <1>1, <2>3, <3>1, <3>2
  <2>8. 0 \in T
    BY <1>1
  <2>9. \A n \in 0 .. N : n \in T
    <3> HIDE DEF T
    <3> QED BY <1>1, <2>7, <2>8, IntervalInduction
  <2> QED BY <1>1, <1>3, <2>6, <2>9
<1> QED BY <1>2, <1>3
\* Known() is the last value of a function that remembers the blocks of c.
LEMMA KnownExists ==
  ASSUME NEW c \in Seq(Blocks)
  PROVE  \E K : Remembers(K, c)
<1> DEFINE N == Len(c)
           next(n, S) == {t \in S \cup ToSet(c[n].txs) : c[n].time <= Expiration[t]}
           G == [n \in 1 .. N |-> [S \in SUBSET Txs |-> next(n, S)]]
<1>1. N \in Nat /\ {} \in SUBSET Txs
  BY LenProperties
<1>2. \A n \in 1 .. N, S \in SUBSET Txs : next(n, S) \in SUBSET Txs
  BY BlockTypes
<1> HIDE DEF next
<1>3. G \in [1 .. N -> [SUBSET Txs -> SUBSET Txs]]
  BY <1>2
<1>4. \A n \in 1 .. N, S \in SUBSET Txs : G[n][S] = next(n, S)
  OBVIOUS
<1> HIDE DEF G
<1>5. PICK K : Iterates(K, SUBSET Txs, {}, G, N)
  BY <1>1, <1>3, RecursiveFunction
<1>6. \A n \in 1 .. N : K[n] = next(n, K[n - 1])
  <2> TAKE n \in 1 .. N
  <2>1. n - 1 \in 0 .. N
    BY <1>1
  <2> QED BY <1>4, <1>5, <2>1 DEF Iterates
<1> QED BY <1>5, <1>6 DEF Remembers, Iterates, next

\* Its last value does not depend on which of them is chosen.
LEMMA KnownValue ==
  ASSUME NEW c \in Seq(Blocks), NEW K, Remembers(K, c)
  PROVE  Known(c) = K[Len(c)]
<1> DEFINE N == Len(c)
           next(n, S) == {t \in S \cup ToSet(c[n].txs) : c[n].time <= Expiration[t]}
           P(g) == g = [n \in 0 .. N |-> IF n = 0 THEN {} ELSE next(n, g[n - 1])]
           g == CHOOSE x : P(x)
           T == {n \in 0 .. N : g[n] = K[n]}
<1>1. N \in Nat /\ K \in [0 .. N -> SUBSET Txs] /\ K[0] = {}
  BY LenProperties DEF Remembers
<1>2. \A n \in 1 .. N : K[n] = next(n, K[n - 1])
  BY DEF Remembers
<1>3. Known(c) = g[N]
  BY DEF Known
<1> HIDE DEF next
<1>4. P(K)
  BY <1>1, <1>2
<1>5. P(g)
  <2> HIDE DEF P
  <2> QED BY <1>4, Zenon
<1> HIDE DEF g
<1>6. \A n \in 1 .. N : n - 1 \in T => n \in T
  <2>1. ASSUME NEW n \in 1 .. N PROVE g[n] = next(n, g[n - 1])
    <3>1. n \in 0 .. N /\ n # 0
      BY <1>1
    <3> HIDE DEF N
    <3> QED BY <1>5, <3>1, Zenon
  <2> HIDE DEF P
  <2> QED BY <1>1, <1>2, <2>1
<1>7. 0 \in T
  BY <1>1, <1>5
<1>8. \A n \in 0 .. N : n \in T
  <2> HIDE DEF T
  <2> QED BY <1>1, <1>6, <1>7, IntervalInduction
<1> QED BY <1>1, <1>3, <1>8

\* Applied() is the last value of a function that applies them one by one.
LEMMA AppliesExists ==
  ASSUME NEW c, NEW txs \in Seq(Txs)
  PROVE  \E f : Applies(f, c, txs)
<1> DEFINE N == Len(txs)
           next(n, s) == IF CanApply(txs[n], c, s) THEN Append(s, txs[n]) ELSE s
           G == [n \in 1 .. N |-> [s \in Seq(Txs) |-> next(n, s)]]
<1>1. N \in Nat /\ <<>> \in Seq(Txs)
  BY LenProperties, EmptySeq
<1>2. \A n \in 1 .. N, s \in Seq(Txs) : next(n, s) \in Seq(Txs)
  BY ElementOfSeq, AppendProperties
<1> HIDE DEF next
<1>3. G \in [1 .. N -> [Seq(Txs) -> Seq(Txs)]]
  BY <1>2
<1>4. \A n \in 1 .. N, s \in Seq(Txs) : G[n][s] = next(n, s)
  OBVIOUS
<1> HIDE DEF G
<1>5. PICK f : Iterates(f, Seq(Txs), <<>>, G, N)
  BY <1>1, <1>3, RecursiveFunction
<1>6. \A n \in 1 .. N : f[n] = next(n, f[n - 1])
  <2> TAKE n \in 1 .. N
  <2>1. n - 1 \in 0 .. N
    BY <1>1
  <2> QED BY <1>4, <1>5, <2>1 DEF Iterates
<1> QED BY <1>5, <1>6 DEF Applies, Iterates, next

\* Its last value does not depend on which of them is chosen.
LEMMA AppliedValue ==
  ASSUME NEW c, NEW txs \in Seq(Txs), NEW f, Applies(f, c, txs)
  PROVE  Applied(c, txs) = f[Len(txs)]
<1> DEFINE N == Len(txs)
           next(n, s) == IF CanApply(txs[n], c, s) THEN Append(s, txs[n]) ELSE s
           P(g) == g = [n \in 0 .. N |-> IF n = 0 THEN <<>> ELSE next(n, g[n - 1])]
           g == CHOOSE x : P(x)
           T == {n \in 0 .. N : g[n] = f[n]}
<1>1. N \in Nat /\ f \in [0 .. N -> Seq(Txs)] /\ f[0] = <<>>
  BY LenProperties DEF Applies
<1>2. \A n \in 1 .. N : f[n] = next(n, f[n - 1])
  BY DEF Applies
<1>3. Applied(c, txs) = g[N]
  BY DEF Applied
<1> HIDE DEF next
<1>4. P(f)
  BY <1>1, <1>2
<1>5. P(g)
  <2> HIDE DEF P
  <2> QED BY <1>4, Zenon
<1> HIDE DEF g
<1>6. \A n \in 1 .. N : n - 1 \in T => n \in T
  BY <1>1, <1>2, <1>5
<1>7. 0 \in T
  BY <1>1, <1>5
<1>8. \A n \in 0 .. N : n \in T
  <2> HIDE DEF T
  <2> QED BY <1>1, <1>6, <1>7, IntervalInduction
<1> QED BY <1>1, <1>3, <1>8

\* z[n] is the size of the first n transactions of s.
Adds(z, s) ==
  /\ z \in [0 .. Len(s) -> Nat] /\ z[0] = 0
  /\ \A n \in 1 .. Len(s) : z[n] = z[n - 1] + TxSize[s[n]]

\* The size of a transaction of a sequence.
LEMMA SizeOfTx ==
  ASSUME NEW s \in Seq(Txs), NEW n \in 1 .. Len(s)
  PROVE  TxSize[s[n]] \in Nat
<1>1. s[n] \in Txs
  BY ElementOfSeq
<1> QED BY <1>1, TransactionsAssumption

\* Size() is the last value of a function that adds them up.
LEMMA AddsExists ==
  ASSUME NEW s \in Seq(Txs)
  PROVE  \E z : Adds(z, s)
<1> DEFINE N == Len(s)
           G == [n \in 1 .. N |-> [k \in Nat |-> k + TxSize[s[n]]]]
<1>1. N \in Nat /\ 0 \in Nat
  BY LenProperties
<1>2. G \in [1 .. N -> [Nat -> Nat]]
  <2>1. \A n \in 1 .. N, k \in Nat : k + TxSize[s[n]] \in Nat
    BY SizeOfTx
  <2> QED BY <2>1
<1>3. \A n \in 1 .. N, k \in Nat : G[n][k] = k + TxSize[s[n]]
  OBVIOUS
<1> HIDE DEF G
<1>4. PICK z : Iterates(z, Nat, 0, G, N)
  BY <1>1, <1>2, RecursiveFunction
<1>5. \A n \in 1 .. N : z[n] = z[n - 1] + TxSize[s[n]]
  <2> TAKE n \in 1 .. N
  <2>1. n - 1 \in 0 .. N
    BY <1>1
  <2> QED BY <1>3, <1>4, <2>1 DEF Iterates
<1> QED BY <1>4, <1>5 DEF Adds, Iterates

\* Its last value does not depend on which of them is chosen.
LEMMA SizeValue ==
  ASSUME NEW s \in Seq(Txs), NEW z, Adds(z, s)
  PROVE  Size(s) = z[Len(s)]
<1> DEFINE N == Len(s)
           next(n, k) == k + TxSize[s[n]]
           P(g) == g = [n \in 0 .. N |-> IF n = 0 THEN 0 ELSE next(n, g[n - 1])]
           g == CHOOSE x : P(x)
           T == {n \in 0 .. N : g[n] = z[n]}
<1>1. N \in Nat /\ z \in [0 .. N -> Nat] /\ z[0] = 0
  BY LenProperties DEF Adds
<1>2. \A n \in 1 .. N : z[n] = next(n, z[n - 1])
  BY DEF Adds
<1>3. Size(s) = g[N]
  BY DEF Size
<1> HIDE DEF next
<1>4. P(z)
  BY <1>1, <1>2
<1>5. P(g)
  <2> HIDE DEF P
  <2> QED BY <1>4, Zenon
<1> HIDE DEF g
<1>6. \A n \in 1 .. N : n - 1 \in T => n \in T
  BY <1>1, <1>2, <1>5
<1>7. 0 \in T
  BY <1>1, <1>5
<1>8. \A n \in 0 .. N : n \in T
  <2> HIDE DEF T
  <2> QED BY <1>1, <1>6, <1>7, IntervalInduction
<1> QED BY <1>1, <1>3, <1>8

\* Nothing has no size.
LEMMA SizeOfNothing == Size(<<>>) = 0
<1>1. <<>> \in Seq(Txs) /\ Len(<<>>) = 0
  BY EmptySeq
<1>2. PICK z : Adds(z, <<>>)
  BY <1>1, AddsExists
<1> QED BY <1>1, <1>2, SizeValue DEF Adds

\* A transaction more adds its size.
LEMMA SizeOfAppend ==
  ASSUME NEW s \in Seq(Txs), NEW t \in Txs
  PROVE  Size(s) \in Nat /\ Size(Append(s, t)) = Size(s) + TxSize[t]
<1> DEFINE N == Len(s)
           u == Append(s, t)
<1>1. /\ N \in Nat /\ u \in Seq(Txs) /\ Len(u) = N + 1 /\ u[N + 1] = t
      /\ \A n \in 1 .. N : u[n] = s[n]
  BY LenProperties, AppendProperties
<1>2. PICK z : Adds(z, u)
  BY <1>1, AddsExists
<1> HIDE DEF u
<1> DEFINE y == [n \in 0 .. N |-> z[n]]
<1>3. Adds(y, s)
  <2>1. y \in [0 .. N -> Nat] /\ y[0] = 0
    BY <1>1, <1>2 DEF Adds
  <2>2. ASSUME NEW n \in 1 .. N PROVE y[n] = y[n - 1] + TxSize[s[n]]
    <3>1. n \in 1 .. Len(u) /\ n \in 0 .. N /\ n - 1 \in 0 .. N
      BY <1>1
    <3>2. z[n] = z[n - 1] + TxSize[u[n]]
      BY <1>2, <3>1 DEF Adds
    <3> QED BY <1>1, <3>1, <3>2
  <2> HIDE DEF y
  <2> QED BY <2>1, <2>2 DEF Adds
<1>4. Size(s) = y[N] /\ Size(u) = z[N + 1]
  <2>1. Size(u) = z[Len(u)]
    BY <1>1, <1>2, SizeValue
  <2> HIDE DEF y
  <2> QED BY <1>1, <1>3, <2>1, SizeValue
<1>5. y[N] = z[N] /\ z[N] \in Nat
  BY <1>1, <1>2 DEF Adds
<1>6. z[N + 1] = z[N] + TxSize[t]
  <2>1. N + 1 \in 1 .. Len(u) /\ (N + 1) - 1 = N
    BY <1>1
  <2> HIDE DEF N
  <2> QED BY <1>1, <1>2, <2>1 DEF Adds
<1> QED BY <1>4, <1>5, <1>6 DEF u

\* The size of a sequence is a number.
LEMMA SizeIsNat ==
  ASSUME NEW s \in Seq(Txs)
  PROVE  Size(s) \in Nat
<1>1. PICK z : Adds(z, s)
  BY AddsExists
<1> QED BY <1>1, SizeValue, LenProperties DEF Adds

-----------------------------------------------------------------------------
\* Transactions that succeed one after the other.
Applicable(c, s) == \A n \in 1 .. Len(s) : CanApply(s[n], c, Prefix(s, n - 1))

\* One more transaction that succeeds after them.
LEMMA ApplicableAppend ==
  ASSUME NEW c, NEW s \in Seq(Txs), NEW t \in Txs,
         Applicable(c, s), CanApply(t, c, s)
  PROVE  Applicable(c, Append(s, t))
<1> DEFINE u == Append(s, t)
<1>1. /\ u \in Seq(Txs) /\ Len(u) = Len(s) + 1 /\ Len(s) \in Nat
      /\ \A i \in 1 .. Len(s) : u[i] = s[i]
      /\ u[Len(s) + 1] = t
  BY AppendProperties, LenProperties
<1>2. \A n \in 0 .. Len(s) : Prefix(u, n) = Prefix(s, n)
  BY PrefixOfAppend
<1>3. Prefix(s, Len(s)) = s
  BY PrefixWhole
<1> HIDE DEF u
<1> SUFFICES ASSUME NEW n \in 1 .. Len(u)
             PROVE  CanApply(u[n], c, Prefix(u, n - 1))
  BY DEF Applicable, u
<1>4. CASE n <= Len(s)
  <2>1. u[n] = s[n] /\ Prefix(u, n - 1) = Prefix(s, n - 1) /\ n \in 1 .. Len(s)
    BY <1>1, <1>2, <1>4
  <2> QED BY <2>1 DEF Applicable
<1>5. CASE n = Len(s) + 1
  <2>1. u[n] = t /\ Prefix(u, n - 1) = s
    BY <1>1, <1>2, <1>3, <1>5
  <2> QED BY <2>1
<1> QED BY <1>1, <1>4, <1>5

\* No transaction succeeds twice in a row, and none that is known already.
LEMMA ApplicableInjective ==
  ASSUME NEW c, NEW s \in Seq(Txs), Applicable(c, s)
  PROVE  IsInjective(s) /\ \A t \in ToSet(s) : t \notin Known(c)
<1>1. Len(s) \in Nat /\ DOMAIN s = 1 .. Len(s) /\ ToSet(s) = {s[i] : i \in 1 .. Len(s)}
  BY LenProperties, ElementsOf
<1>2. \A n \in 1 .. Len(s) : s[n] \notin Known(c) \cup ToSet(Prefix(s, n - 1))
  BY DEF Applicable, CanApply
<1>3. ASSUME NEW m \in 1 .. Len(s), NEW n \in 1 .. Len(s), m < n PROVE s[m] # s[n]
  <2>1. n - 1 \in 0 .. Len(s) /\ m \in 1 .. n - 1
    BY <1>1, <1>3
  <2>2. /\ Prefix(s, n - 1) \in Seq(Txs) /\ Len(Prefix(s, n - 1)) = n - 1
        /\ Prefix(s, n - 1)[m] = s[m]
    BY <2>1, PrefixFacts
  <2>3. s[m] \in ToSet(Prefix(s, n - 1))
    <3>1. ToSet(Prefix(s, n - 1)) = {Prefix(s, n - 1)[i] : i \in 1 .. n - 1}
      BY <2>2, ElementsOf
    <3> QED BY <2>1, <2>2, <3>1
  <2> QED BY <1>2, <2>3
<1>4. IsInjective(s)
  BY <1>1, <1>3 DEF IsInjective
<1> QED BY <1>1, <1>2, <1>4

\* Every value of f is applicable, and none has what is not in txs.
LEMMA AppliesApplicable ==
  ASSUME NEW c, NEW txs \in Seq(Txs), NEW f, Applies(f, c, txs)
  PROVE  \A n \in 0 .. Len(txs) : /\ f[n] \in Seq(Txs) /\ Applicable(c, f[n])
                                  /\ ToSet(f[n]) \subseteq ToSet(txs)
<1> DEFINE N == Len(txs)
           good(s) == Applicable(c, s) /\ ToSet(s) \subseteq ToSet(txs)
           T == {n \in 0 .. N : good(f[n])}
<1>1. N \in Nat /\ \A n \in 0 .. N : f[n] \in Seq(Txs)
  BY LenProperties DEF Applies
<1>2. 0 \in T
  <2>1. f[0] = <<>> /\ Len(<<>>) = 0 /\ DOMAIN <<>> = {}
    BY DEF Applies
  <2>2. good(f[0])
    BY <2>1 DEF Applicable, ToSet
  <2> HIDE DEF good
  <2> QED BY <1>1, <2>2
<1>3. ASSUME NEW n \in 1 .. N, n - 1 \in T PROVE n \in T
  <2>1. good(f[n - 1]) /\ f[n - 1] \in Seq(Txs)
    BY <1>1, <1>3
  <2>2. txs[n] \in Txs /\ txs[n] \in ToSet(txs)
    BY ElementOfSeq, ElementsOf
  <2>3. f[n] = IF CanApply(txs[n], c, f[n - 1]) THEN Append(f[n - 1], txs[n])
               ELSE f[n - 1]
    BY DEF Applies
  <2>4. CASE CanApply(txs[n], c, f[n - 1])
    <3>1. f[n] = Append(f[n - 1], txs[n])
      BY <2>3, <2>4
    <3>2. Applicable(c, f[n])
      BY <2>1, <2>2, <2>4, <3>1, ApplicableAppend
    <3>3. ToSet(f[n]) = ToSet(f[n - 1]) \cup {txs[n]}
      BY <2>1, <2>2, <3>1, ElementsOfAppend
    <3> QED BY <2>1, <2>2, <3>2, <3>3
  <2>5. CASE ~CanApply(txs[n], c, f[n - 1])
    <3>1. f[n] = f[n - 1]
      BY <2>3, <2>5
    <3> HIDE DEF good
    <3> QED BY <2>1, <3>1
  <2> QED BY <2>4, <2>5
<1>4. \A n \in 0 .. N : n \in T
  <2> HIDE DEF T
  <2> QED BY <1>1, <1>2, <1>3, IntervalInduction
<1> QED BY <1>1, <1>4

\* The same of Applied() itself.
LEMMA AppliedFacts ==
  ASSUME NEW c, NEW txs \in Seq(Txs)
  PROVE  /\ Applied(c, txs) \in Seq(Txs) /\ Applicable(c, Applied(c, txs))
         /\ ToSet(Applied(c, txs)) \subseteq ToSet(txs)
<1>1. PICK f : Applies(f, c, txs)
  BY AppliesExists
<1>2. Applied(c, txs) = f[Len(txs)]
  BY <1>1, AppliedValue
<1>3. Len(txs) \in 0 .. Len(txs)
  BY LenProperties
<1> QED BY <1>1, <1>2, <1>3, AppliesApplicable

\* Nothing is left out of transactions that succeed one after the other.
LEMMA ApplicableIsApplied ==
  ASSUME NEW c, NEW s \in Seq(Txs), Applicable(c, s)
  PROVE  Applied(c, s) = s
<1> DEFINE f == [n \in 0 .. Len(s) |-> Prefix(s, n)]
<1>1. Len(s) \in Nat
  BY LenProperties
<1>2. f \in [0 .. Len(s) -> Seq(Txs)]
  BY PrefixFacts
<1>3. f[0] = <<>> /\ f[Len(s)] = s
  BY <1>1, PrefixWhole
<1>4. ASSUME NEW n \in 1 .. Len(s)
      PROVE  f[n] = IF CanApply(s[n], c, f[n - 1]) THEN Append(f[n - 1], s[n])
                    ELSE f[n - 1]
  <2>1. n \in 0 .. Len(s) /\ n - 1 \in 0 .. Len(s) /\ s[n] \in Txs
    BY <1>1, ElementOfSeq
  <2>2. /\ Prefix(s, n) \in Seq(Txs) /\ Len(Prefix(s, n)) = n
        /\ \A i \in 1 .. n : Prefix(s, n)[i] = s[i]
    BY <2>1, PrefixFacts
  <2>3. /\ Prefix(s, n - 1) \in Seq(Txs) /\ Len(Prefix(s, n - 1)) = n - 1
        /\ \A i \in 1 .. n - 1 : Prefix(s, n - 1)[i] = s[i]
    BY <2>1, PrefixFacts
  <2> DEFINE u == Append(Prefix(s, n - 1), s[n])
  <2>4. /\ u \in Seq(Txs) /\ Len(u) = n - 1 + 1
        /\ \A i \in 1 .. n - 1 : u[i] = Prefix(s, n - 1)[i]
        /\ u[n - 1 + 1] = s[n]
    BY <2>1, <2>3, AppendProperties
  <2>5. Len(u) = Len(Prefix(s, n)) /\ \A i \in 1 .. Len(u) : u[i] = Prefix(s, n)[i]
    <3> HIDE DEF u
    <3>1. Len(u) = Len(Prefix(s, n)) /\ Len(u) = n /\ u[n] = s[n]
      BY <2>1, <2>2, <2>4
    <3>2. ASSUME NEW i \in 1 .. n PROVE u[i] = Prefix(s, n)[i]
      <4>1. CASE i = n
        BY <2>2, <3>1, <4>1
      <4>2. CASE i \in 1 .. n - 1
        BY <2>2, <2>3, <2>4, <4>2
      <4> QED BY <2>1, <4>1, <4>2
    <3> QED BY <3>1, <3>2
  <2>6. u = Prefix(s, n)
    <3> HIDE DEF u
    <3> QED BY <2>2, <2>4, <2>5, SeqEqual
  <2>7. CanApply(s[n], c, Prefix(s, n - 1))
    BY DEF Applicable
  <2> QED BY <2>1, <2>6, <2>7
<1>5. Applies(f, c, s)
  <2> HIDE DEF f
  <2> QED BY <1>2, <1>3, <1>4 DEF Applies
<1>6. Applied(c, s) = f[Len(s)]
  <2> HIDE DEF f
  <2> QED BY <1>5, AppliedValue
<1> QED BY <1>3, <1>6

\* The transactions s leave the budget of a block its reserve.
Budgeted(s) == s # <<>> => PackSize(s, Reserve) < maximum

\* What _generate_block() takes is applicable and within the budget.
LEMMA FittingFacts ==
  ASSUME pending \in Seq(Txs), maximum \in Nat, NEW when \in Nat
  PROVE  /\ Fitting(when) \in Seq(Txs) /\ Applicable(chain, Fitting(when))
         /\ Budgeted(Fitting(when))
         /\ pending = <<>> => Fitting(when) = <<>>
<1> DEFINE N == Len(pending)
           takes(n, s) == /\ Expiration[pending[n]] >= when
                          /\ PackSize(s, Reserve) + TxSize[pending[n]] < maximum
                          /\ CanApply(pending[n], chain, s)
           next(n, s) == IF takes(n, s) THEN Append(s, pending[n]) ELSE s
           P(g) == g = [n \in 0 .. N |-> IF n = 0 THEN <<>> ELSE next(n, g[n - 1])]
           g == CHOOSE x : P(x)
           good(s) == s \in Seq(Txs) /\ Applicable(chain, s) /\ Budgeted(s)
           T == {n \in 0 .. N : good(g[n])}
           G == [n \in 1 .. N |-> [s \in Seq(Txs) |-> next(n, s)]]
<1>1. N \in Nat /\ <<>> \in Seq(Txs)
  BY LenProperties, EmptySeq
<1>2. \A n \in 1 .. N, s \in Seq(Txs) : next(n, s) \in Seq(Txs)
  BY ElementOfSeq, AppendProperties
<1>3. ASSUME NEW n \in 1 .. N, NEW s, good(s) PROVE good(next(n, s))
  <2>1. pending[n] \in Txs
    BY ElementOfSeq
  <2>2. CASE takes(n, s)
    <3>1. next(n, s) = Append(s, pending[n])
      BY <2>2
    <3>2. Append(s, pending[n]) \in Seq(Txs)
      BY <1>3, <2>1, AppendProperties
    <3>3. Applicable(chain, Append(s, pending[n]))
      BY <1>3, <2>1, <2>2, ApplicableAppend
    <3>4. Budgeted(Append(s, pending[n]))
      <4>1. /\ Size(Append(s, pending[n])) = Size(s) + TxSize[pending[n]]
            /\ Size(s) \in Nat /\ TxSize[pending[n]] \in Nat
        BY <1>3, <2>1, SizeOfAppend, TransactionsAssumption
      <4> QED BY <2>2, <4>1, SizesAssumption DEF Budgeted, PackSize
    <3> QED BY <3>1, <3>2, <3>3, <3>4
  <2>3. CASE ~takes(n, s)
    <3>1. next(n, s) = s
      BY <2>3
    <3> HIDE DEF good, next
    <3> QED BY <1>3, <3>1
  <2> QED BY <2>2, <2>3
<1>4. good(<<>>)
  <2>1. Len(<<>>) = 0
    BY EmptySeq
  <2> QED BY <1>1, <2>1 DEF Applicable, Budgeted
<1>5. Fitting(when) = g[N]
  BY DEF Fitting
<1> HIDE DEF next, good
<1>6. G \in [1 .. N -> [Seq(Txs) -> Seq(Txs)]]
  BY <1>2
<1>7. \A n \in 1 .. N, s \in Seq(Txs) : G[n][s] = next(n, s)
  OBVIOUS
<1> HIDE DEF G
<1>8. PICK f : Iterates(f, Seq(Txs), <<>>, G, N)
  BY <1>1, <1>6, RecursiveFunction
<1>9. \A n \in 1 .. N : f[n] = next(n, f[n - 1])
  <2> TAKE n \in 1 .. N
  <2>1. n - 1 \in 0 .. N
    BY <1>1
  <2> QED BY <1>7, <1>8, <2>1 DEF Iterates
<1>10. P(f)
  BY <1>1, <1>8, <1>9 DEF Iterates
<1>11. P(g)
  <2> HIDE DEF P
  <2> QED BY <1>10, Zenon
<1> HIDE DEF g
<1>12. ASSUME NEW n \in 1 .. N, n - 1 \in T PROVE n \in T
  <2>1. n \in 0 .. N /\ n # 0
    BY <1>1
  <2>2. g[n] = next(n, g[n - 1])
    <3> HIDE DEF N
    <3> QED BY <1>11, <2>1, Zenon
  <2>3. good(g[n])
    BY <1>3, <1>12, <2>2
  <2> QED BY <2>1, <2>3
<1>13. 0 \in T
  <2>1. 0 \in 0 .. N
    BY <1>1
  <2>2. g[0] = <<>>
    BY <1>11, <2>1
  <2> QED BY <1>4, <2>1, <2>2
<1>14. \A n \in 0 .. N : n \in T
  <2> HIDE DEF T
  <2> QED BY <1>1, <1>12, <1>13, IntervalInduction
<1>15. good(Fitting(when))
  BY <1>1, <1>5, <1>14
<1>16. pending = <<>> => Fitting(when) = <<>>
  <2> SUFFICES ASSUME pending = <<>> PROVE Fitting(when) = <<>>
    OBVIOUS
  <2>1. N = 0 /\ 0 \in 0 .. N
    BY <1>1, EmptySeq
  <2>2. g[0] = <<>>
    BY <1>11, <2>1
  <2> HIDE DEF N
  <2> QED BY <1>5, <2>1, <2>2
<1> QED BY <1>15, <1>16 DEF good

-----------------------------------------------------------------------------
\* Chains whose blocks were applied one after the other.
GoodChain(c) ==
  /\ c \in Seq(Blocks)
  /\ \A i \in 1 .. Len(c) : /\ c[i].time > HeadTime(Prefix(c, i - 1))
                            /\ Applicable(Prefix(c, i - 1), c[i].txs)

\* The transactions of the first n blocks are those of one less, and block n.
LEMMA TxsOfPrefix ==
  ASSUME NEW c \in Seq(Blocks)
  PROVE  /\ TxsOf(c) \in Seq(Txs) /\ TxsOf(Prefix(c, 0)) = <<>>
         /\ \A n \in 0 .. Len(c) : TxsOf(Prefix(c, n)) \in Seq(Txs)
         /\ \A n \in 1 .. Len(c) :
              TxsOf(Prefix(c, n)) = TxsOf(Prefix(c, n - 1)) \o c[n].txs
<1>1. PICK F : Concatenates(F, c)
  BY ConcatenatesExists
<1>2. Len(c) \in Nat
  BY LenProperties
<1>3. ASSUME NEW n \in 0 .. Len(c) PROVE TxsOf(Prefix(c, n)) = F[n]
  <2> DEFINE p == Prefix(c, n)
             h == [i \in 0 .. n |-> F[i]]
  <2>1. p \in Seq(Blocks) /\ Len(p) = n /\ \A i \in 1 .. n : p[i] = c[i]
    BY PrefixFacts
  <2>2. h \in [0 .. n -> Seq(Txs)] /\ h[0] = <<>>
    BY <1>1, <1>2 DEF Concatenates
  <2>3. \A i \in 1 .. n : h[i] = h[i - 1] \o p[i].txs
    <3> TAKE i \in 1 .. n
    <3>1. i \in 1 .. Len(c) /\ h[i] = F[i] /\ h[i - 1] = F[i - 1]
      BY <1>2
    <3>2. F[i] = F[i - 1] \o c[i].txs
      BY <1>1, <3>1 DEF Concatenates
    <3>3. p[i] = c[i]
      BY <2>1
    <3> QED BY <3>1, <3>2, <3>3, Zenon
  <2> HIDE DEF h, p
  <2>4. Concatenates(h, p)
    BY <2>1, <2>2, <2>3 DEF Concatenates
  <2>5. TxsOf(p) = h[n]
    BY <2>1, <2>4, TxsOfValue
  <2> QED BY <2>5 DEF p, h
<1>4. F \in [0 .. Len(c) -> Seq(Txs)] /\ F[0] = <<>>
  BY <1>1 DEF Concatenates
<1>5. ASSUME NEW n \in 1 .. Len(c)
      PROVE  TxsOf(Prefix(c, n)) = TxsOf(Prefix(c, n - 1)) \o c[n].txs
  <2>1. n \in 0 .. Len(c) /\ n - 1 \in 0 .. Len(c)
    BY <1>2
  <2>2. TxsOf(Prefix(c, n)) = F[n] /\ TxsOf(Prefix(c, n - 1)) = F[n - 1]
    BY <1>3, <2>1
  <2>3. F[n] = F[n - 1] \o c[n].txs
    BY <1>1 DEF Concatenates
  <2> QED BY <2>2, <2>3, Zenon
<1>6. TxsOf(c) = F[Len(c)]
  BY <1>1, TxsOfValue
<1>7. TxsOf(c) \in Seq(Txs)
  BY <1>2, <1>4, <1>6
<1>8. \A n \in 0 .. Len(c) : TxsOf(Prefix(c, n)) \in Seq(Txs)
  BY <1>3, <1>4
<1>9. TxsOf(Prefix(c, 0)) = <<>>
  BY <1>2, <1>3, <1>4
<1> QED BY <1>5, <1>7, <1>8, <1>9

\* transaction_index after the first n blocks.
LEMMA KnownPrefix ==
  ASSUME NEW c \in Seq(Blocks)
  PROVE  \A n \in 1 .. Len(c) :
           Known(Prefix(c, n)) =
             {t \in Known(Prefix(c, n - 1)) \cup ToSet(c[n].txs) :
                c[n].time <= Expiration[t]}
<1>1. PICK K : Remembers(K, c)
  BY KnownExists
<1>2. Len(c) \in Nat
  BY LenProperties
<1>3. ASSUME NEW n \in 0 .. Len(c) PROVE Known(Prefix(c, n)) = K[n]
  <2> DEFINE p == Prefix(c, n)
             h == [i \in 0 .. n |-> K[i]]
  <2>1. p \in Seq(Blocks) /\ Len(p) = n /\ \A i \in 1 .. n : p[i] = c[i]
    BY PrefixFacts
  <2>2. h \in [0 .. n -> SUBSET Txs] /\ h[0] = {}
    BY <1>1, <1>2 DEF Remembers
  <2>3. \A i \in 1 .. n :
          h[i] = {t \in h[i - 1] \cup ToSet(p[i].txs) : p[i].time <= Expiration[t]}
    <3> TAKE i \in 1 .. n
    <3>1. i \in 1 .. Len(c) /\ h[i] = K[i] /\ h[i - 1] = K[i - 1]
      BY <1>2
    <3>2. K[i] = {t \in K[i - 1] \cup ToSet(c[i].txs) : c[i].time <= Expiration[t]}
      BY <1>1, <3>1 DEF Remembers
    <3>3. p[i] = c[i]
      BY <2>1
    <3> QED BY <3>1, <3>2, <3>3, Zenon
  <2> HIDE DEF h, p
  <2>4. Remembers(h, p)
    BY <2>1, <2>2, <2>3 DEF Remembers
  <2>5. Known(p) = h[n]
    BY <2>1, <2>4, KnownValue
  <2> QED BY <2>5 DEF p, h
<1> TAKE n \in 1 .. Len(c)
<1>4. n \in 0 .. Len(c) /\ n - 1 \in 0 .. Len(c)
  BY <1>2
<1>5. Known(Prefix(c, n)) = K[n] /\ Known(Prefix(c, n - 1)) = K[n - 1]
  BY <1>3, <1>4
<1>6. K[n] = {t \in K[n - 1] \cup ToSet(c[n].txs) : c[n].time <= Expiration[t]}
  BY <1>1 DEF Remembers
<1> QED BY <1>5, <1>6, Zenon

\* The time of the head block after the first n blocks.
LEMMA HeadTimeOfPrefix ==
  ASSUME NEW c \in Seq(Blocks), NEW n \in 0 .. Len(c)
  PROVE  /\ Prefix(c, n) = <<>> <=> n = 0
         /\ HeadTime(Prefix(c, n)) = IF n = 0 THEN 0 ELSE c[n].time
<1>1. /\ Prefix(c, n) \in Seq(Blocks) /\ Len(Prefix(c, n)) = n
      /\ \A i \in 1 .. n : Prefix(c, n)[i] = c[i]
  BY PrefixFacts
<1>2. Prefix(c, n) = <<>> <=> n = 0
  BY <1>1, EmptySeq
<1>3. n # 0 => n \in 1 .. n
  BY LenProperties
<1> QED BY <1>1, <1>2, <1>3 DEF HeadTime, Last

\* A beginning of a good chain is a good chain.
LEMMA GoodPrefix ==
  ASSUME NEW c, GoodChain(c), NEW n \in 0 .. Len(c)
  PROVE  GoodChain(Prefix(c, n))
<1>1. c \in Seq(Blocks) /\ Len(c) \in Nat
  BY LenProperties DEF GoodChain
<1>2. /\ Prefix(c, n) \in Seq(Blocks) /\ Len(Prefix(c, n)) = n
      /\ \A i \in 1 .. n : Prefix(c, n)[i] = c[i]
  BY <1>1, PrefixFacts
<1>3. ASSUME NEW i \in 1 .. n
      PROVE  /\ Prefix(c, n)[i].time > HeadTime(Prefix(Prefix(c, n), i - 1))
             /\ Applicable(Prefix(Prefix(c, n), i - 1), Prefix(c, n)[i].txs)
  <2>1. i \in 1 .. Len(c) /\ i - 1 \in 0 .. n /\ Prefix(c, n)[i] = c[i]
    BY <1>1, <1>2
  <2>2. Prefix(Prefix(c, n), i - 1) = Prefix(c, i - 1)
    BY <1>1, <2>1, PrefixOfPrefix
  <2>3. /\ c[i].time > HeadTime(Prefix(c, i - 1))
        /\ Applicable(Prefix(c, i - 1), c[i].txs)
    BY <2>1 DEF GoodChain
  <2> QED BY <2>1, <2>2, <2>3
<1> QED BY <1>2, <1>3 DEF GoodChain

\* A block that is valid on top of a good chain makes a good chain.
LEMMA GoodAppend ==
  ASSUME NEW c, GoodChain(c), NEW b \in Blocks, ValidButSize(c, b)
  PROVE  GoodChain(Append(c, b))
<1> DEFINE d == Append(c, b)
<1>1. c \in Seq(Blocks) /\ Len(c) \in Nat /\ b.txs \in Seq(Txs)
  BY LenProperties DEF GoodChain, Blocks
<1>2. /\ d \in Seq(Blocks) /\ Len(d) = Len(c) + 1
      /\ \A i \in 1 .. Len(c) : d[i] = c[i]
      /\ d[Len(c) + 1] = b
  BY <1>1, AppendProperties
<1>3. \A n \in 0 .. Len(c) : Prefix(d, n) = Prefix(c, n)
  BY <1>1, PrefixOfAppend
<1>4. Prefix(c, Len(c)) = c
  BY <1>1, PrefixWhole
<1>5. b.time > HeadTime(c) /\ Applicable(c, b.txs)
  BY <1>1, AppliedFacts DEF ValidButSize
<1> HIDE DEF d
<1>6. ASSUME NEW i \in 1 .. Len(d)
      PROVE  d[i].time > HeadTime(Prefix(d, i - 1)) /\ Applicable(Prefix(d, i - 1), d[i].txs)
  <2>1. CASE i = Len(c) + 1
    <3>1. d[i] = b /\ Prefix(d, i - 1) = c
      BY <1>1, <1>2, <1>3, <1>4, <2>1
    <3> QED BY <1>5, <3>1
  <2>2. CASE i \in 1 .. Len(c)
    <3>1. d[i] = c[i] /\ Prefix(d, i - 1) = Prefix(c, i - 1)
      BY <1>1, <1>2, <1>3, <2>2
    <3> QED BY <2>2, <3>1 DEF GoodChain
  <2> QED BY <1>1, <1>2, <2>1, <2>2
<1> QED BY <1>2, <1>6 DEF GoodChain, d

\* Time goes on from block to block, so that there are at most MaxTime blocks.
LEMMA GoodTimes ==
  ASSUME NEW c, GoodChain(c)
  PROVE  /\ \A i \in 2 .. Len(c) : c[i - 1].time < c[i].time
         /\ Len(c) <= MaxTime
<1> DEFINE T == {n \in 0 .. Len(c) : n = 0 \/ c[n].time >= n}
<1>1. c \in Seq(Blocks) /\ Len(c) \in Nat
  BY LenProperties DEF GoodChain
<1>2. ASSUME NEW i \in 2 .. Len(c) PROVE c[i - 1].time < c[i].time
  <2>1. i - 1 \in 0 .. Len(c) /\ i - 1 # 0 /\ i \in 1 .. Len(c)
    BY <1>1
  <2>2. HeadTime(Prefix(c, i - 1)) = c[i - 1].time
    BY <1>1, <2>1, HeadTimeOfPrefix
  <2>3. c[i].time > HeadTime(Prefix(c, i - 1))
    BY <2>1 DEF GoodChain
  <2>4. c[i].time \in Nat /\ c[i - 1].time \in Nat
    BY <1>1, <2>1, BlockTypes, SizesAssumption
  <2> QED BY <2>2, <2>3, <2>4
<1>3. \A n \in 1 .. Len(c) : c[n].time \in 1 .. MaxTime
  BY <1>1, BlockTypes
<1>4. ASSUME NEW n \in 1 .. Len(c), n - 1 \in T PROVE n \in T
  <2>1. CASE n = 1
    BY <1>1, <1>3, <2>1
  <2>2. CASE n \in 2 .. Len(c)
    <3>1. /\ c[n - 1].time < c[n].time /\ c[n - 1].time >= n - 1
          /\ c[n].time \in Int /\ c[n - 1].time \in Int
      BY <1>1, <1>2, <1>3, <1>4, <2>2
    <3> QED BY <1>1, <3>1
  <2> QED BY <1>1, <2>1, <2>2
<1>5. 0 \in T
  BY <1>1
<1>6. \A n \in 0 .. Len(c) : n \in T
  <2> HIDE DEF T
  <2> QED BY <1>1, <1>4, <1>5, IntervalInduction
<1>7. Len(c) <= MaxTime
  <2>1. CASE Len(c) = 0
    BY <2>1, SizesAssumption
  <2>2. CASE Len(c) # 0
    <3>1. c[Len(c)].time >= Len(c) /\ c[Len(c)].time \in 1 .. MaxTime
      BY <1>1, <1>3, <1>6, <2>2
    <3> QED BY <1>1, <3>1, SizesAssumption
  <2> QED BY <2>1, <2>2
<1> QED BY <1>2, <1>7

\* transaction_index has every transaction of the chain that has not expired.
LEMMA GoodKnown ==
  ASSUME NEW c, GoodChain(c), NEW t \in ToSet(TxsOf(c)), HeadTime(c) <= Expiration[t]
  PROVE  t \in Known(c)
<1> DEFINE here(n) == t \in ToSet(TxsOf(Prefix(c, n)))
           T == {n \in 0 .. Len(c) :
                   here(n) => n # 0 /\ (c[n].time <= Expiration[t] => t \in Known(Prefix(c, n)))}
<1>1. c \in Seq(Blocks) /\ Len(c) \in Nat
  BY LenProperties DEF GoodChain
<1>2. t \in Txs
  BY <1>1, TxsOfPrefix, ElementsOf
<1>3. Expiration[t] \in Nat
  BY <1>2, TransactionsAssumption
<1>4. 0 \in T
  <2>1. TxsOf(Prefix(c, 0)) = <<>>
    BY <1>1, TxsOfPrefix
  <2>2. ~here(0)
    BY <2>1, NothingInEmpty
  <2> QED BY <1>1, <2>2
<1>5. ASSUME NEW n \in 1 .. Len(c), n - 1 \in T PROVE n \in T
  <2> SUFFICES ASSUME here(n), c[n].time <= Expiration[t]
               PROVE  t \in Known(Prefix(c, n))
    BY <1>1
  <2>1. n - 1 \in 0 .. Len(c) /\ c[n].txs \in Seq(Txs) /\ c[n].time \in Nat
    BY <1>1, BlockTypes, SizesAssumption
  <2>2. /\ TxsOf(Prefix(c, n)) = TxsOf(Prefix(c, n - 1)) \o c[n].txs
        /\ TxsOf(Prefix(c, n - 1)) \in Seq(Txs)
    BY <1>1, <2>1, TxsOfPrefix
  <2>3. here(n - 1) \/ t \in ToSet(c[n].txs)
    BY <2>1, <2>2, ElementsOfConcat
  <2>4. ASSUME here(n - 1) PROVE t \in Known(Prefix(c, n - 1))
    <3>1. n - 1 # 0 /\ (c[n - 1].time <= Expiration[t] => t \in Known(Prefix(c, n - 1)))
      BY <1>5, <2>4
    <3>2. n \in 2 .. Len(c) /\ n - 1 \in 1 .. Len(c)
      BY <1>1, <3>1
    <3>3. c[n - 1].time < c[n].time /\ c[n - 1].time \in Nat
      BY <1>1, <3>2, GoodTimes, BlockTypes, SizesAssumption
    <3> QED BY <1>3, <2>1, <3>1, <3>3
  <2>5. t \in Known(Prefix(c, n - 1)) \cup ToSet(c[n].txs)
    BY <2>3, <2>4
  <2> QED BY <1>1, <2>5, KnownPrefix
<1>6. \A n \in 0 .. Len(c) : n \in T
  <2> HIDE DEF T
  <2> QED BY <1>1, <1>4, <1>5, IntervalInduction
<1>7. Prefix(c, Len(c)) = c /\ Len(c) \in 0 .. Len(c)
  BY <1>1, PrefixWhole
<1>8. Len(c) # 0 /\ (c[Len(c)].time <= Expiration[t] => t \in Known(c))
  BY <1>6, <1>7
<1>9. HeadTime(c) = c[Len(c)].time
  BY <1>1, <1>7, <1>8, HeadTimeOfPrefix
<1> QED BY <1>8, <1>9

\* No transaction is in a good chain twice.
LEMMA GoodNoReplay ==
  ASSUME NEW c, GoodChain(c)
  PROVE  IsInjective(TxsOf(c))
<1> DEFINE T == {n \in 0 .. Len(c) : IsInjective(TxsOf(Prefix(c, n)))}
<1>1. c \in Seq(Blocks) /\ Len(c) \in Nat
  BY LenProperties DEF GoodChain
<1>2. 0 \in T
  <2>1. TxsOf(Prefix(c, 0)) = <<>>
    BY <1>1, TxsOfPrefix
  <2>2. IsInjective(TxsOf(Prefix(c, 0)))
    BY <2>1, NothingInEmpty
  <2> QED BY <1>1, <2>2
<1>3. ASSUME NEW n \in 1 .. Len(c), n - 1 \in T PROVE n \in T
  <2> DEFINE p == Prefix(c, n - 1)
             s == c[n].txs
  <2>1. n - 1 \in 0 .. Len(c) /\ s \in Seq(Txs) /\ IsInjective(TxsOf(p))
    BY <1>1, <1>3, BlockTypes
  <2>2. TxsOf(Prefix(c, n)) = TxsOf(p) \o s /\ TxsOf(p) \in Seq(Txs)
    BY <1>1, <2>1, TxsOfPrefix
  <2>3. Applicable(p, s) /\ GoodChain(p)
    BY <2>1, GoodPrefix DEF GoodChain
  <2>4. ASSUME NEW t \in ToSet(s) PROVE t \notin ToSet(TxsOf(p))
    <3>1. t \in Txs /\ Expiration[t] \in Nat /\ t \notin Known(p)
      BY <2>1, <2>3, <2>4, ElementsOf, ApplicableInjective, TransactionsAssumption
    <3>2. PICK i \in 1 .. Len(s) : t = s[i]
      BY <2>1, <2>4, ElementsOf
    <3>3. p # <<>> => HeadTime(p) < Expiration[t]
      BY <2>3, <3>2 DEF Applicable, CanApply
    <3>4. CASE p # <<>>
      <4>1. n - 1 # 0 /\ n - 1 \in 1 .. Len(c)
        BY <1>1, <2>1, <3>4, HeadTimeOfPrefix
      <4>2. HeadTime(p) = c[n - 1].time /\ c[n - 1].time \in Nat
        BY <1>1, <2>1, <4>1, HeadTimeOfPrefix, BlockTypes, SizesAssumption
      <4>3. HeadTime(p) <= Expiration[t]
        BY <3>1, <3>3, <3>4, <4>2
      <4> HIDE DEF p
      <4> QED BY <2>3, <3>1, <4>3, GoodKnown
    <3>5. CASE p = <<>>
      <4>1. n - 1 = 0
        BY <1>1, <2>1, <3>5, HeadTimeOfPrefix
      <4>2. TxsOf(p) = <<>>
        BY <1>1, <4>1, TxsOfPrefix
      <4> QED BY <4>2, NothingInEmpty
    <3> QED BY <3>4, <3>5
  <2>5. IsInjective(s)
    BY <2>1, <2>3, ApplicableInjective
  <2>6. IsInjective(TxsOf(p) \o s)
    <3> HIDE DEF p, s
    <3> QED BY <2>1, <2>2, <2>4, <2>5, InjectiveConcat
  <2>7. IsInjective(TxsOf(Prefix(c, n)))
    BY <2>2, <2>6, Zenon
  <2> QED BY <1>1, <2>7
<1>4. \A n \in 0 .. Len(c) : n \in T
  <2> HIDE DEF T
  <2> QED BY <1>1, <1>2, <1>3, IntervalInduction
<1> QED BY <1>1, <1>4, PrefixWhole

-----------------------------------------------------------------------------
\* Transactions in an order in which each finds what it needs in front of it:
\* among D, which happened before, or among the earlier ones.
InOrder(D, s) ==
  \A n \in 1 .. Len(s) : Needs[s[n]] \subseteq D \cup ToSet(Prefix(s, n - 1))

\* Transactions that succeed one after the other found what they needed.
LEMMA ApplicableInOrder ==
  ASSUME NEW c, NEW s, Applicable(c, s)
  PROVE  InOrder(ToSet(TxsOf(c)), s)
<1> QED BY DEF Applicable, InOrder, CanApply

\* It does no harm when more has happened before.
LEMMA InOrderMonotone ==
  ASSUME NEW D, NEW E, D \subseteq E, NEW s, InOrder(D, s)
  PROVE  InOrder(E, s)
<1> QED BY DEF InOrder

\* What is in order goes on with what is in order after it.
LEMMA InOrderConcat ==
  ASSUME NEW D, NEW s \in Seq(Txs), NEW t \in Seq(Txs),
         InOrder(D, s), InOrder(D \cup ToSet(s), t)
  PROVE  InOrder(D, s \o t)
<1> DEFINE u == s \o t
<1>1. /\ u \in Seq(Txs) /\ Len(u) = Len(s) + Len(t)
      /\ \A i \in 1 .. Len(s) + Len(t) :
           u[i] = IF i <= Len(s) THEN s[i] ELSE t[i - Len(s)]
  BY ConcatProperties
<1>2. Len(s) \in Nat /\ Len(t) \in Nat
  BY LenProperties
<1>3. \A n \in 0 .. Len(s) : Prefix(u, n) = Prefix(s, n)
  BY PrefixOfConcat
<1> HIDE DEF u
<1> SUFFICES ASSUME NEW n \in 1 .. Len(s) + Len(t)
             PROVE  Needs[u[n]] \subseteq D \cup ToSet(Prefix(u, n - 1))
  BY <1>1 DEF InOrder, u
<1>4. CASE n <= Len(s)
  <2>1. n \in 1 .. Len(s) /\ u[n] = s[n] /\ Prefix(u, n - 1) = Prefix(s, n - 1)
    BY <1>1, <1>2, <1>3, <1>4
  <2> QED BY <2>1 DEF InOrder
<1>5. CASE n > Len(s)
  <2> DEFINE m == n - Len(s)
  <2>1. m \in 1 .. Len(t) /\ u[n] = t[m] /\ n - 1 \in 0 .. Len(u) /\ m - 1 \in 0 .. Len(t)
    BY <1>1, <1>2, <1>5
  <2>2. Needs[u[n]] \subseteq D \cup ToSet(s) \cup ToSet(Prefix(t, m - 1))
    BY <2>1 DEF InOrder
  <2>3. ToSet(Prefix(u, n - 1)) = {u[i] : i \in 1 .. n - 1}
    BY <1>1, <2>1, ElementsOfPrefix
  <2>4. ToSet(Prefix(t, m - 1)) = {t[i] : i \in 1 .. m - 1}
    <3>1. m - 1 \in 0 .. Len(t)
      BY <2>1
    <3> HIDE DEF m
    <3> QED BY <3>1, ElementsOfPrefix
  <2>5. ToSet(s) = {s[i] : i \in 1 .. Len(s)}
    BY ElementsOf
  <2>6. ASSUME NEW i \in 1 .. Len(s) PROVE s[i] \in ToSet(Prefix(u, n - 1))
    <3>1. i \in 1 .. n - 1 /\ u[i] = s[i]
      BY <1>1, <1>2, <1>5
    <3> QED BY <2>3, <3>1
  <2>7. ASSUME NEW i \in 1 .. m - 1 PROVE t[i] \in ToSet(Prefix(u, n - 1))
    <3>1. i + Len(s) \in 1 .. n - 1 /\ u[i + Len(s)] = t[i]
      BY <1>1, <1>2, <1>5
    <3> QED BY <2>3, <3>1
  <2> QED BY <2>2, <2>4, <2>5, <2>6, <2>7
<1> QED BY <1>2, <1>4, <1>5

\* The beginning of a chain has no other transactions.
LEMMA TxsOfMonotone ==
  ASSUME NEW c \in Seq(Blocks), NEW n \in 0 .. Len(c)
  PROVE  ToSet(TxsOf(Prefix(c, n))) \subseteq ToSet(TxsOf(c))
<1> DEFINE E(m) == ToSet(TxsOf(Prefix(c, m)))
           T == {m \in 0 .. Len(c) : m >= n => E(n) \subseteq E(m)}
<1>1. Len(c) \in Nat /\ 0 \in T
  BY LenProperties
<1>2. ASSUME NEW m \in 1 .. Len(c), m - 1 \in T PROVE m \in T
  <2>1. m - 1 \in 0 .. Len(c) /\ c[m].txs \in Seq(Txs)
    BY <1>1, BlockTypes
  <2>2. /\ TxsOf(Prefix(c, m)) = TxsOf(Prefix(c, m - 1)) \o c[m].txs
        /\ TxsOf(Prefix(c, m - 1)) \in Seq(Txs)
    BY <2>1, TxsOfPrefix
  <2>3. E(m - 1) \subseteq E(m)
    BY <2>1, <2>2, ElementsOfConcat
  <2> HIDE DEF E
  <2> QED BY <1>1, <1>2, <2>3
<1>3. \A m \in 0 .. Len(c) : m \in T
  <2> HIDE DEF T
  <2> QED BY <1>1, <1>2, IntervalInduction
<1>4. E(n) \subseteq E(Len(c))
  <2> HIDE DEF E
  <2> QED BY <1>1, <1>3
<1> QED BY <1>4, PrefixWhole

\* The transactions of the last blocks of a good chain are in order after those
\* of the others.
LEMMA GoodSuffixInOrder ==
  ASSUME NEW c, GoodChain(c), NEW k \in 0 .. Len(c)
  PROVE  LET gone == SubSeq(c, k + 1, Len(c))
         IN /\ TxsOf(gone) \in Seq(Txs)
            /\ InOrder(ToSet(TxsOf(Prefix(c, k))), TxsOf(gone))
<1> DEFINE gone == SubSeq(c, k + 1, Len(c))
           M == Len(c) - k
           D == ToSet(TxsOf(Prefix(c, k)))
           T == {j \in 0 .. M :
                   /\ InOrder(D, TxsOf(Prefix(gone, j)))
                   /\ ToSet(TxsOf(Prefix(c, k + j))) = D \cup ToSet(TxsOf(Prefix(gone, j)))}
<1>1. c \in Seq(Blocks) /\ Len(c) \in Nat /\ M \in Nat /\ k \in Nat
  BY LenProperties DEF GoodChain
<1>2. gone \in Seq(Blocks) /\ Len(gone) = M /\ \A i \in 1 .. M : gone[i] = c[k + i]
  BY <1>1, SuffixFacts
<1> HIDE DEF gone
<1>3. 0 \in T
  <2>1. TxsOf(Prefix(gone, 0)) = <<>>
    BY <1>2, TxsOfPrefix
  <2>2. InOrder(D, <<>>) /\ ToSet(<<>>) = {}
    BY EmptySeq, NothingInEmpty DEF InOrder
  <2> QED BY <1>1, <2>1, <2>2
<1>4. ASSUME NEW j \in 1 .. M, j - 1 \in T PROVE j \in T
  <2> DEFINE before == TxsOf(Prefix(gone, j - 1))
             m == k + j
             p == Prefix(c, m - 1)
             s == c[m].txs
  <2>1. /\ j - 1 \in 0 .. M /\ m \in 1 .. Len(c) /\ m - 1 \in 0 .. Len(c)
        /\ k + (j - 1) = m - 1 /\ gone[j] = c[m]
    BY <1>1, <1>2
  <2> HIDE DEF m
  <2>2. s \in Seq(Txs) /\ gone[j].txs = s
    BY <1>1, <1>2, <2>1, BlockTypes
  <2>3. before \in Seq(Txs) /\ TxsOf(Prefix(gone, j)) = before \o gone[j].txs
    BY <1>2, <2>1, TxsOfPrefix
  <2>4. TxsOf(p) \in Seq(Txs) /\ TxsOf(Prefix(c, m)) = TxsOf(p) \o s
    BY <1>1, <2>1, TxsOfPrefix
  <2>5. InOrder(D, before) /\ ToSet(TxsOf(p)) = D \cup ToSet(before)
    BY <1>4, <2>1
  <2>6. InOrder(D \cup ToSet(before), s)
    <3>1. Applicable(p, s)
      BY <2>1 DEF GoodChain
    <3> QED BY <2>5, <3>1, ApplicableInOrder
  <2> HIDE DEF before, p, s, D
  <2>7. InOrder(D, before \o s)
    BY <2>2, <2>3, <2>5, <2>6, InOrderConcat
  <2>8. InOrder(D, TxsOf(Prefix(gone, j)))
    BY <2>2, <2>3, <2>7, Zenon
  <2>9. ToSet(TxsOf(Prefix(c, m))) = D \cup ToSet(TxsOf(Prefix(gone, j)))
    <3>1. ToSet(before \o s) = ToSet(before) \cup ToSet(s)
      BY <2>2, <2>3, ElementsOfConcat
    <3>2. ToSet(TxsOf(p) \o s) = ToSet(TxsOf(p)) \cup ToSet(s)
      BY <2>2, <2>4, ElementsOfConcat
    <3>3. ToSet(TxsOf(Prefix(gone, j))) = ToSet(before) \cup ToSet(s)
      BY <2>2, <2>3, <3>1, Zenon
    <3>4. ToSet(TxsOf(Prefix(c, m))) = ToSet(TxsOf(p)) \cup ToSet(s)
      BY <2>4, <3>2, Zenon
    <3> QED BY <2>5, <3>3, <3>4
  <2> QED BY <1>1, <2>8, <2>9 DEF m
<1>5. \A j \in 0 .. M : j \in T
  <2> HIDE DEF T
  <2> QED BY <1>1, <1>3, <1>4, IntervalInduction
<1>6. InOrder(D, TxsOf(Prefix(gone, M)))
  BY <1>1, <1>5
<1>7. Prefix(gone, M) = gone /\ TxsOf(gone) \in Seq(Txs)
  BY <1>2, PrefixWhole, TxsOfPrefix
<1> QED BY <1>6, <1>7 DEF gone

-----------------------------------------------------------------------------
\* What Applied() leaves out can not be applied at the end either, when the
\* transactions come in order: what was missing then is missing still.
LEMMA AppliedLosesNothing ==
  ASSUME NEW c, NEW txs \in Seq(Txs), InOrder(ToSet(TxsOf(c)), txs),
         NEW t \in ToSet(txs)
  PROVE  \/ t \in ToSet(TxsOf(c)) \cup ToSet(Applied(c, txs))
         \/ ~CanApply(t, c, Applied(c, txs))
<1> DEFINE N == Len(txs)
<1>1. PICK f : Applies(f, c, txs)
  BY AppliesExists
<1>2. Applied(c, txs) = f[N]
  BY <1>1, AppliedValue
<1>3. N \in Nat /\ f \in [0 .. N -> Seq(Txs)]
  BY <1>1, LenProperties DEF Applies
<1>4. \A n \in 1 .. N : txs[n] \in Txs
  BY ElementOfSeq
<1>5. ASSUME NEW n \in 1 .. N
      PROVE  ToSet(f[n]) = IF CanApply(txs[n], c, f[n - 1])
                           THEN ToSet(f[n - 1]) \cup {txs[n]} ELSE ToSet(f[n - 1])
  <2>1. f[n - 1] \in Seq(Txs) /\ txs[n] \in Txs
    BY <1>3, <1>4
  <2>2. ToSet(Append(f[n - 1], txs[n])) = ToSet(f[n - 1]) \cup {txs[n]}
    BY <2>1, ElementsOfAppend
  <2>3. f[n] = IF CanApply(txs[n], c, f[n - 1]) THEN Append(f[n - 1], txs[n])
               ELSE f[n - 1]
    BY <1>1 DEF Applies
  <2> QED BY <2>2, <2>3, Zenon
<1> DEFINE done(n) == ToSet(TxsOf(c)) \cup ToSet(f[n])
\* Nothing that was applied is taken back.
<1>6. ASSUME NEW a \in 0 .. N, NEW b \in a .. N PROVE done(a) \subseteq done(b)
  <2> DEFINE T == {m \in 0 .. N : m >= a => done(a) \subseteq done(m)}
  <2>1. 0 \in T
    BY <1>3
  <2>2. ASSUME NEW m \in 1 .. N, m - 1 \in T PROVE m \in T
    <3>1. done(m - 1) \subseteq done(m)
      BY <1>5
    <3> HIDE DEF done
    <3> QED BY <1>3, <2>2, <3>1
  <2>3. \A m \in 0 .. N : m \in T
    <3> HIDE DEF T
    <3> QED BY <1>3, <2>1, <2>2, IntervalInduction
  <2> HIDE DEF done
  <2> QED BY <1>3, <2>3
\* What can never be applied from some point on is not applied after it.
<1>7. ASSUME NEW a \in 0 .. N, NEW x, x \notin done(a),
             \A k \in a .. N : ~CanApply(x, c, f[k])
      PROVE  x \notin done(N)
  <2> DEFINE T == {m \in 0 .. N : m >= a => x \notin done(m)}
  <2>1. 0 \in T
    BY <1>3, <1>7
  <2>2. ASSUME NEW m \in 1 .. N, m - 1 \in T PROVE m \in T
    <3>1. CASE m - 1 >= a
      <4>1. ~CanApply(x, c, f[m - 1]) /\ x \notin done(m - 1)
        BY <1>3, <1>7, <2>2, <3>1
      <4>2. x \notin ToSet(f[m])
        BY <1>5, <4>1
      <4> QED BY <1>3, <4>1, <4>2
    <3>2. CASE m = a
      BY <1>3, <1>7, <3>2
    <3>3. CASE m < a
      BY <1>3, <3>3
    <3> QED BY <1>3, <3>1, <3>2, <3>3
  <2>3. \A m \in 0 .. N : m \in T
    <3> HIDE DEF T
    <3> QED BY <1>3, <2>1, <2>2, IntervalInduction
  <2> HIDE DEF done
  <2> QED BY <1>3, <2>3
\* A transaction that was left out is left out for good.
<1> DEFINE settled(n) == \/ txs[n] \in done(n)
                         \/ /\ txs[n] \notin done(N)
                            /\ \A k \in n .. N : ~CanApply(txs[n], c, f[k])
           T == {n \in 0 .. N : n = 0 \/ settled(n)}
<1>8. ASSUME NEW n \in 0 .. N, \A m \in 0 .. n - 1 : m \in T PROVE n \in T
  <2> SUFFICES ASSUME n # 0, txs[n] \notin done(n) PROVE settled(n)
    OBVIOUS
  <2> DEFINE u == txs[n]
  <2>1. n \in 1 .. N /\ n - 1 \in 0 .. N
    BY <1>3
  <2>2. ~CanApply(u, c, f[n - 1])
    BY <1>5, <2>1
  <2>3. \A k \in n .. N : done(n - 1) \subseteq done(k) /\ k \in 0 .. N
    BY <1>3, <1>6, <2>1
  <2>4. done(n - 1) \subseteq done(n)
    BY <1>3, <2>3
  <2>5. ASSUME NEW k \in n .. N PROVE ~CanApply(u, c, f[k])
    <3>1. CASE u \in Known(c) \cup ToSet(f[n - 1])
      <4>1. u \in Known(c)
        BY <2>4, <3>1
      <4> QED BY <4>1 DEF CanApply
    <3>2. CASE ~(c # <<>> => HeadTime(c) < Expiration[u])
      BY <3>2 DEF CanApply
    <3>3. CASE ~(Needs[u] \subseteq done(n - 1))
      <4>1. PICK x \in Needs[u] : x \notin done(n - 1)
        BY <3>3
      <4>2. x \in ToSet(Prefix(txs, n - 1))
        BY <2>1, <4>1 DEF InOrder
      <4>3. PICK m \in 1 .. n - 1 : x = txs[m]
        BY <2>1, <4>2, ElementsOfPrefix
      <4>4. m \in T /\ m # 0 /\ m \in 0 .. N /\ n - 1 \in m .. N /\ N \in k .. N
        BY <1>3, <1>8, <2>1
      <4>5. done(m) \subseteq done(n - 1) /\ done(k) \subseteq done(N)
        BY <1>6, <2>1, <2>3, <4>4
      <4> HIDE DEF done
      <4>6. x \notin done(k)
        BY <4>1, <4>3, <4>4, <4>5
      <4> QED BY <4>1, <4>6 DEF CanApply, done
    <3>4. CASE \E x \in done(n - 1) : {u, x} \in Conflicts
      <4>1. PICK x \in done(n - 1) : {u, x} \in Conflicts
        BY <3>4
      <4>2. x \in done(k)
        BY <2>3, <4>1
      <4> QED BY <4>1, <4>2 DEF CanApply
    <3> QED BY <2>2, <3>1, <3>2, <3>3, <3>4 DEF CanApply
  <2> HIDE DEF done
  <2>6. u \notin done(N)
    BY <1>7, <2>5
  <2> QED BY <2>5, <2>6
<1>9. \A n \in 0 .. N : n \in T
  <2> HIDE DEF T
  <2> QED BY <1>3, <1>8, CompleteInduction
<1>10. PICK n \in 1 .. N : t = txs[n]
  BY ElementsOf
<1>11. settled(n) /\ n \in 0 .. N /\ N \in n .. N
  BY <1>3, <1>9
<1>12. done(n) \subseteq done(N)
  BY <1>6, <1>11
<1>13. t \in done(N) \/ ~CanApply(t, c, f[N])
  <2> HIDE DEF done
  <2> QED BY <1>10, <1>11, <1>12
<1> QED BY <1>2, <1>13

-----------------------------------------------------------------------------
\* The inductive invariant.

\* The chain up to the fork point of the push under way.
Trunk == Prefix(chain, Len(chain) - new)

\* While a block is pushed, the chain as it was can be restored, and all that
\* waits to be pushed again is in an order in which it was applied once.
PushInv ==
  pc = "push" => /\ new <= Len(chain)
                 /\ GoodChain(Trunk \o old)
                 /\ InOrder(ToSet(TxsOf(Trunk)), popped \o moved)

RestoreInv == pc = "restore" => InOrder(ToSet(TxsOf(chain)), popped \o moved)

\* Otherwise the queue holds what was applied on top of the chain.
QueueInv ==
  pc \notin {"push", "restore"} => popped = <<>> /\ Applicable(chain, pending)

\* The block that was generated, until it is pushed.
GoodBlock ==
  /\ ValidButSize(chain, built) /\ Budgeted(built.txs)
  /\ extra \in Extras
  /\ retry = 1 => built.txs = <<>>

BuiltInv ==
  /\ pc \in {"idle", "generate", "clear"} => built = NoBlock
  /\ pc = "check" => built # NoBlock
  /\ built # NoBlock /\ (pc = "check" \/ (pc = "push" /\ new = 0)) => GoodBlock

\* The second attempt starts from an empty queue.
RetryInv ==
  /\ pc = "idle" => retry = 0
  /\ pc = "generate" /\ retry = 1 => pending = <<>>

Inv ==
  /\ TypeOK /\ SessionIsPending /\ GoodChain(chain)
  /\ PushInv /\ RestoreInv /\ QueueInv /\ BuiltInv /\ RetryInv

\* An empty chain and an empty queue satisfy the invariant.
LEMMA InitInv ==
  ASSUME Init
  PROVE  Inv
<1>1. <<>> \in Seq(Blocks) /\ <<>> \in Seq(Txs) /\ Len(<<>>) = 0
  BY EmptySeq
<1>2. IsInjective(<<>>) /\ 0 \in 0 .. MaxTime
  BY NothingInEmpty, SizesAssumption
<1>3. TypeOK
  <2>1. session \in [valid : BOOLEAN, txs : Seq(Txs)]
    BY <1>1 DEF Init, NoSession
  <2> QED BY <1>1, <1>2, <2>1 DEF Init, TypeOK
<1>4. SessionIsPending
  BY DEF Init, SessionIsPending, NoSession
<1>5. GoodChain(chain) /\ Applicable(chain, pending)
  BY <1>1 DEF Init, GoodChain, Applicable
<1>6. PushInv /\ RestoreInv /\ QueueInv /\ BuiltInv /\ RetryInv
  BY <1>5 DEF Init, PushInv, RestoreInv, QueueInv, BuiltInv, RetryInv
<1> QED BY <1>3, <1>4, <1>5, <1>6 DEF Inv

\* A transaction that succeeds is added to what was applied in the session.
LEMMA PushTransactionInv ==
  ASSUME Inv, NEW t \in Txs, PushTransaction(t)
  PROVE  Inv'
<1>1. /\ pc = "idle" /\ session.txs = pending /\ popped = <<>>
      /\ pending \in Seq(Txs) /\ Applicable(chain, pending)
  BY DEF Inv, PushTransaction, SessionIsPending, QueueInv, TypeOK
<1>2. /\ UNCHANGED <<chain, popped, moved, old, new, pc, built, extra, retry, maximum>>
      /\ session'.txs = pending' /\ session'.valid
      /\ session' \in [valid : {TRUE}, txs : {pending'}]
  BY <1>1 DEF PushTransaction
<1>3. pending' \in Seq(Txs) /\ Applicable(chain, pending')
  <2>1. CASE CanApply(t, chain, pending)
    <3>1. pending' = Append(pending, t)
      BY <1>1, <2>1 DEF PushTransaction
    <3> QED BY <1>1, <2>1, <3>1, ApplicableAppend, AppendProperties
  <2>2. CASE ~CanApply(t, chain, pending)
    <3>1. pending' = pending
      BY <1>1, <2>2 DEF PushTransaction
    <3> QED BY <1>1, <3>1
  <2> QED BY <2>1, <2>2
<1>4. IsInjective(pending')
  BY <1>3, ApplicableInjective
<1>5. TypeOK'
  BY <1>2, <1>3, <1>4 DEF Inv, TypeOK
<1>6. SessionIsPending'
  BY <1>2 DEF SessionIsPending
<1>7. GoodChain(chain)'
  BY <1>2 DEF Inv
<1>8. PushInv' /\ RestoreInv' /\ QueueInv'
  BY <1>1, <1>2, <1>3 DEF PushInv, RestoreInv, QueueInv
<1>9. BuiltInv' /\ RetryInv'
  BY <1>1, <1>2 DEF Inv, BuiltInv, RetryInv
<1> QED BY <1>5, <1>6, <1>7, <1>8, <1>9 DEF Inv

\* The restorer takes over the pending transactions.
LEMMA EnterPushInv ==
  ASSUME Inv, EnterPush, pc \notin {"push", "restore"},
         UNCHANGED <<chain, popped, built, extra, retry, maximum>>,
         built # NoBlock => GoodBlock
  PROVE  Inv'
<1>1. /\ popped = <<>> /\ pending \in Seq(Txs) /\ Applicable(chain, pending)
      /\ GoodChain(chain) /\ chain \in Seq(Blocks) /\ Len(chain) \in Nat
  BY LenProperties DEF Inv, QueueInv, TypeOK
<1>2. /\ moved' = pending /\ pending' = <<>> /\ session' = NoSession
      /\ old' = <<>> /\ new' = 0 /\ pc' = "push"
  BY DEF EnterPush
<1>3. <<>> \in Seq(Txs) /\ <<>> \in Seq(Blocks) /\ IsInjective(<<>>)
  BY EmptySeq, NothingInEmpty
<1>4. TypeOK'
  <2>1. session' \in [valid : BOOLEAN, txs : Seq(Txs)] /\ 0 \in 0 .. MaxTime
    BY <1>2, <1>3, SizesAssumption DEF NoSession
  <2> QED BY <1>1, <1>2, <1>3, <2>1 DEF Inv, TypeOK
<1>5. SessionIsPending' /\ RestoreInv' /\ QueueInv'
  BY <1>2 DEF SessionIsPending, RestoreInv, QueueInv
<1>6. GoodChain(chain)'
  BY <1>1
<1>7. PushInv'
  <2>1. Trunk' = chain
    <3>1. Trunk' = Prefix(chain, Len(chain) - 0)
      BY <1>2 DEF Trunk
    <3> QED BY <1>1, <3>1, PrefixWhole
  <2>2. chain \o <<>> = chain /\ <<>> \o pending = pending
    BY <1>1, ConcatEmptySeq
  <2>3. InOrder(ToSet(TxsOf(chain)), pending)
    BY <1>1, ApplicableInOrder
  <2> QED BY <1>1, <1>2, <2>1, <2>2, <2>3 DEF PushInv
<1>8. BuiltInv' /\ RetryInv'
  BY <1>2 DEF BuiltInv, RetryInv, GoodBlock, ValidButSize, Budgeted
<1> QED BY <1>4, <1>5, <1>6, <1>7, <1>8 DEF Inv

\* push_block() of a block from the network begins.
LEMMA ReceiveBlockInv ==
  ASSUME Inv, ReceiveBlock
  PROVE  Inv'
<1>1. /\ EnterPush /\ pc \notin {"push", "restore"}
      /\ UNCHANGED <<chain, popped, built, extra, retry, maximum>>
      /\ built = NoBlock
  BY DEF ReceiveBlock, Inv, BuiltInv
<1> QED BY <1>1, EnterPushInv

\* The popped transactions are put in front of those of later blocks.
LEMMA PopBlockInv ==
  ASSUME Inv, PopBlock
  PROVE  Inv'
<1> DEFINE N == Len(chain)
           last == chain[N]
           front == Prefix(chain, N - 1)
<1>1. /\ pc = "push" /\ built = NoBlock /\ new = 0 /\ N > 1
      /\ popped' = last.txs \o popped /\ old' = <<last>> \o old /\ chain' = front
      /\ UNCHANGED <<pending, session, moved, new, pc, built, extra, retry, maximum>>
  BY DEF PopBlock, Last, Front, Prefix
<1>2. /\ chain \in Seq(Blocks) /\ N \in Nat /\ GoodChain(chain)
      /\ old \in Seq(Blocks) /\ popped \in Seq(Txs) /\ moved \in Seq(Txs)
  BY LenProperties DEF Inv, TypeOK
<1>3. N \in 1 .. N /\ N - 1 \in 0 .. N /\ N \in 0 .. N
  BY <1>1, <1>2
<1>4. last \in Blocks /\ last.txs \in Seq(Txs)
  BY <1>2, <1>3, BlockTypes
<1>5. front \in Seq(Blocks) /\ Len(front) = N - 1 /\ GoodChain(front)
  BY <1>2, <1>3, PrefixFacts, GoodPrefix
<1>6. chain = front \o <<last>>
  <2>1. SubSeq(chain, 1, N) = SubSeq(chain, 1, N - 1) \o <<chain[N]>>
    BY <1>1, <1>2, <1>3, 1 \in 1 .. N, N \in 1 .. N, SubSeqRecursiveSecond
  <2> QED BY <1>2, <2>1, PrefixWhole DEF Prefix
<1>7. Trunk = chain
  <2>1. Trunk = Prefix(chain, N)
    BY <1>1, <1>2 DEF Trunk
  <2> QED BY <1>2, <2>1, PrefixWhole
<1>8. GoodChain(chain \o old) /\ InOrder(ToSet(TxsOf(chain)), popped \o moved)
  BY <1>1, <1>7 DEF Inv, PushInv
<1> HIDE DEF front, last
<1>9. <<last>> \in Seq(Blocks) /\ <<last>> \o old \in Seq(Blocks)
  <2>1. <<last>> \in Seq(Blocks)
    BY <1>4
  <2> QED BY <1>2, <2>1, ConcatProperties
<1>10. last.txs \o popped \in Seq(Txs) /\ popped \o moved \in Seq(Txs)
  BY <1>2, <1>4, ConcatProperties
<1>11. TypeOK'
  BY <1>1, <1>5, <1>9, <1>10 DEF Inv, TypeOK
<1>12. SessionIsPending' /\ RestoreInv' /\ QueueInv' /\ BuiltInv' /\ RetryInv'
  BY <1>1 DEF SessionIsPending, RestoreInv, QueueInv, BuiltInv, RetryInv
<1>13. GoodChain(chain)'
  BY <1>1, <1>5
<1>14. PushInv'
  <2>1. Trunk' = front
    <3>1. Trunk' = Prefix(front, Len(front))
      BY <1>1, <1>2, <1>5 DEF Trunk
    <3> QED BY <1>5, <3>1, PrefixWhole
  <2>2. front \o (<<last>> \o old) = chain \o old
    BY <1>2, <1>5, <1>6, <1>9, ConcatAssociative
  <2>3. (last.txs \o popped) \o moved = last.txs \o (popped \o moved)
    <3> DEFINE s == last.txs
    <3>1. s \in Seq(Txs)
      BY <1>4
    <3> HIDE DEF s
    <3>2. (s \o popped) \o moved = s \o (popped \o moved)
      BY <1>2, <3>1, ConcatAssociative
    <3> QED BY <3>2 DEF s
  <2>4. TxsOf(chain) = TxsOf(front) \o last.txs /\ TxsOf(front) \in Seq(Txs)
    <3>1. Prefix(chain, N) = chain
      BY <1>2, PrefixWhole
    <3> QED BY <1>2, <1>3, <3>1, TxsOfPrefix DEF front, last
  <2>5. ToSet(TxsOf(chain)) = ToSet(TxsOf(front)) \cup ToSet(last.txs)
    <3>1. ToSet(TxsOf(front) \o last.txs) = ToSet(TxsOf(front)) \cup ToSet(last.txs)
      BY <1>4, <2>4, ElementsOfConcat
    <3> QED BY <2>4, <3>1, Zenon
  <2>6. InOrder(ToSet(TxsOf(front)), last.txs)
    <3>1. Applicable(front, last.txs)
      BY <1>2, <1>3 DEF GoodChain, front, last
    <3> QED BY <3>1, ApplicableInOrder
  <2>7. InOrder(ToSet(TxsOf(front)), last.txs \o (popped \o moved))
    BY <1>4, <1>8, <1>10, <2>5, <2>6, InOrderConcat
  <2>8. Trunk' \o old' = chain \o old
    BY <1>1, <2>1, <2>2, Zenon
  <2>9. popped' \o moved' = last.txs \o (popped \o moved)
    BY <1>1, <2>3, Zenon
  <2>10. (new <= Len(chain))'
    BY <1>1, <1>2, <1>5
  <2> QED BY <1>8, <2>1, <2>7, <2>8, <2>9, <2>10 DEF PushInv
<1> QED BY <1>11, <1>12, <1>13, <1>14 DEF Inv

\* The next block of the new branch, or the one that was generated.
LEMMA ApplyBlockInv ==
  ASSUME Inv, NEW b \in Delivered \cup {built}, ApplyBlock(b)
  PROVE  Inv'
<1> DEFINE N == Len(chain)
<1>1. /\ pc = "push" /\ new <= Len(old) /\ ValidButSize(chain, b)
      /\ chain' = Append(chain, b) /\ new' = new + 1
      /\ pc' = IF new' > Len(old) THEN "restore" ELSE "push"
      /\ UNCHANGED <<pending, session, popped, moved, old, built, extra, retry, maximum>>
  BY DEF ApplyBlock, Valid
<1>2. /\ chain \in Seq(Blocks) /\ N \in Nat /\ GoodChain(chain) /\ new \in Nat
      /\ new <= N /\ built \in Blocks \cup {NoBlock} /\ MaxTime \in Nat
  BY <1>1, LenProperties, SizesAssumption DEF Inv, TypeOK, PushInv
<1>3. b \in Blocks
  <2>1. CASE b \in Delivered
    <3>1. b \in [time : 1 .. MaxTime, txs : SeqOf(Txs, MaxDelivered)]
      BY <2>1 DEF Delivered
    <3>2. SeqOf(Txs, MaxDelivered) \subseteq Seq(Txs)
      BY SizesAssumption DEF SeqOf
    <3> QED BY <3>1, <3>2 DEF Blocks
  <2>2. CASE b = NoBlock
    <3>1. 0 > HeadTime(chain)
      BY <1>1, <2>2 DEF ValidButSize, NoBlock
    <3>2. HeadTime(chain) \in Nat
      <4>1. Prefix(chain, N) = chain /\ N \in 0 .. N
        BY <1>2, PrefixWhole
      <4>2. HeadTime(chain) = IF N = 0 THEN 0 ELSE chain[N].time
        BY <1>2, <4>1, HeadTimeOfPrefix
      <4>3. N # 0 => chain[N].time \in 1 .. MaxTime
        BY <1>2, BlockTypes
      <4> QED BY <1>2, <4>2, <4>3
    <3> QED BY <3>1, <3>2
  <2> QED BY <1>2, <2>1, <2>2
<1>4. GoodChain(chain')
  BY <1>1, <1>2, <1>3, GoodAppend
<1>5. chain' \in Seq(Blocks) /\ Len(chain') = N + 1 /\ N + 1 <= MaxTime
  <2>1. chain' \in Seq(Blocks) /\ Len(chain') = N + 1
    BY <1>1, <1>2, <1>3, AppendProperties
  <2> QED BY <1>4, <2>1, GoodTimes
<1>6. Trunk' = Trunk /\ N - new \in 0 .. N + 1
  <2>1. Len(chain') - new' = N - new /\ N - new \in 0 .. N
    BY <1>1, <1>2, <1>5
  <2>2. Prefix(chain', N - new) = Prefix(chain, N - new)
    BY <1>1, <1>2, <1>3, <2>1, PrefixOfAppend
  <2> QED BY <1>2, <2>1, <2>2 DEF Trunk
<1>7. TypeOK'
  <2>1. new' \in 0 .. MaxTime
    BY <1>1, <1>2, <1>5
  <2> QED BY <1>1, <1>5, <2>1 DEF Inv, TypeOK
<1>8. SessionIsPending' /\ QueueInv'
  BY <1>1 DEF SessionIsPending, QueueInv
<1>9. PushInv'
  BY <1>1, <1>2, <1>5, <1>6 DEF Inv, PushInv
<1>10. RestoreInv'
  <2>1. InOrder(ToSet(TxsOf(Trunk)), popped \o moved)
    BY <1>1 DEF Inv, PushInv
  <2>2. ToSet(TxsOf(Trunk)) \subseteq ToSet(TxsOf(chain'))
    <3>1. Trunk = Prefix(chain', N - new)
      BY <1>1, <1>2, <1>3, <1>6, PrefixOfAppend DEF Trunk
    <3> QED BY <1>5, <1>6, <3>1, TxsOfMonotone
  <2>3. InOrder(ToSet(TxsOf(chain')), popped \o moved)
    BY <2>1, <2>2, InOrderMonotone
  <2> QED BY <1>1, <2>3 DEF RestoreInv
<1>11. BuiltInv' /\ RetryInv'
  BY <1>1, <1>2 DEF BuiltInv, RetryInv
<1> QED BY <1>4, <1>7, <1>8, <1>9, <1>10, <1>11 DEF Inv

\* The way back: new blocks are popped, old ones applied.
LEMMA FailPushInv ==
  ASSUME Inv, FailPush
  PROVE  Inv'
<1> DEFINE N == Len(chain)
           k == N - new
           gone == SubSeq(chain, k + 1, N)
<1>1. /\ pc = "push" /\ chain' = Trunk \o old /\ popped' = TxsOf(gone) \o popped
      /\ pc' = "restore"
      /\ UNCHANGED <<pending, session, moved, old, new, built, extra, retry, maximum>>
  BY DEF FailPush, Trunk, Prefix
<1>2. /\ chain \in Seq(Blocks) /\ N \in Nat /\ GoodChain(chain) /\ new \in Nat
      /\ new <= N /\ old \in Seq(Blocks) /\ popped \in Seq(Txs) /\ moved \in Seq(Txs)
  BY <1>1, LenProperties, SizesAssumption DEF Inv, TypeOK, PushInv
<1>3. k \in 0 .. N
  BY <1>2
<1>4. Trunk \in Seq(Blocks) /\ Len(Trunk) = k
  BY <1>2, <1>3, PrefixFacts DEF Trunk
<1>5. TxsOf(gone) \in Seq(Txs) /\ InOrder(ToSet(TxsOf(Trunk)), TxsOf(gone))
  BY <1>2, <1>3, GoodSuffixInOrder DEF Trunk
<1> HIDE DEF gone
<1>6. GoodChain(chain') /\ chain' \in Seq(Blocks)
  BY <1>1 DEF Inv, PushInv, GoodChain
<1>7. popped' \in Seq(Txs)
  BY <1>1, <1>2, <1>5, ConcatProperties
<1>8. TypeOK'
  BY <1>1, <1>6, <1>7 DEF Inv, TypeOK
<1>9. SessionIsPending' /\ PushInv' /\ QueueInv' /\ BuiltInv' /\ RetryInv'
  BY <1>1 DEF SessionIsPending, PushInv, QueueInv, BuiltInv, RetryInv
<1>10. RestoreInv'
  <2> DEFINE D == ToSet(TxsOf(Trunk))
             rest == popped \o moved
             s == TxsOf(gone)
  <2>1. InOrder(D, rest) /\ rest \in Seq(Txs) /\ s \in Seq(Txs) /\ InOrder(D, s)
    BY <1>1, <1>2, <1>5, ConcatProperties DEF Inv, PushInv
  <2>2. (s \o popped) \o moved = s \o rest
    <3> HIDE DEF s
    <3> QED BY <1>2, <2>1, ConcatAssociative
  <2>3. popped' \o moved' = s \o rest
    BY <1>1, <2>2, Zenon
  <2> HIDE DEF rest, s
  <2>4. InOrder(D \cup ToSet(s), rest)
    BY <2>1, InOrderMonotone, D \subseteq D \cup ToSet(s)
  <2>5. InOrder(D, s \o rest)
    BY <2>1, <2>4, InOrderConcat
  <2>6. D \subseteq ToSet(TxsOf(chain'))
    <3>1. Prefix(Trunk \o old, k) = Prefix(Trunk, k) /\ Prefix(Trunk, k) = Trunk
      <4>1. k \in 0 .. Len(Trunk) /\ k = Len(Trunk)
        BY <1>2, <1>3, <1>4
      <4> HIDE DEF k
      <4>2. Prefix(Trunk \o old, k) = Prefix(Trunk, k)
        BY <1>2, <1>4, <4>1, PrefixOfConcat
      <4> QED BY <1>4, <4>1, <4>2, PrefixWhole
    <3>2. Trunk = Prefix(chain', k)
      BY <1>1, <3>1, Zenon
    <3>3. k \in 0 .. Len(chain')
      <4>1. Len(Trunk \o old) = k + Len(old) /\ Len(old) \in Nat
        BY <1>2, <1>4, ConcatProperties, LenProperties
      <4>2. Len(chain') = Len(Trunk \o old)
        BY <1>1, Zenon
      <4> QED BY <1>3, <4>1, <4>2
    <3> QED BY <1>6, <3>2, <3>3, TxsOfMonotone
  <2>7. InOrder(ToSet(TxsOf(chain')), s \o rest)
    BY <2>5, <2>6, InOrderMonotone
  <2>8. InOrder(ToSet(TxsOf(chain')), popped' \o moved')
    BY <2>3, <2>7, Zenon
  <2> QED BY <2>8 DEF RestoreInv
<1> QED BY <1>6, <1>8, <1>9, <1>10 DEF Inv

\* ~pending_transactions_restorer()
LEMMA RestoreStepInv ==
  ASSUME Inv, Restore
  PROVE  Inv'
<1> DEFINE txs == popped \o moved
           kept == Applied(chain, txs)
<1>1. /\ pc = "restore" /\ pending' = kept
      /\ session' = [valid |-> ToSet(txs) \ Known(chain) # {}, txs |-> kept]
      /\ popped' = <<>> /\ moved' = <<>> /\ old' = <<>> /\ new' = 0
      /\ built' = NoBlock /\ extra' = 0 /\ retry' \in {retry, 0}
      /\ pc' \in {"clear", "idle"} /\ (pc' = "idle" => retry' = 0)
      /\ UNCHANGED <<chain, maximum>>
  BY DEF Restore
<1>2. txs \in Seq(Txs) /\ GoodChain(chain) /\ retry \in 0 .. 1
  BY ConcatProperties DEF Inv, TypeOK
<1> HIDE DEF txs
<1>3. /\ kept \in Seq(Txs) /\ Applicable(chain, kept)
      /\ ToSet(kept) \subseteq ToSet(txs)
  BY <1>2, AppliedFacts
<1> HIDE DEF kept
<1>4. IsInjective(kept) /\ \A t \in ToSet(kept) : t \notin Known(chain)
  BY <1>3, ApplicableInjective
<1>5. kept # <<>> => ToSet(txs) \ Known(chain) # {}
  <2> SUFFICES ASSUME kept # <<>> PROVE ToSet(txs) \ Known(chain) # {}
    OBVIOUS
  <2>1. 1 \in 1 .. Len(kept)
    BY <1>3, EmptySeq
  <2>2. kept[1] \in ToSet(kept)
    BY <1>3, <2>1, ElementsOf
  <2> QED BY <1>3, <1>4, <2>2
<1>6. TypeOK'
  <2>1. <<>> \in Seq(Txs) /\ <<>> \in Seq(Blocks) /\ 0 \in 0 .. MaxTime
    BY EmptySeq, SizesAssumption
  <2>2. session' \in [valid : BOOLEAN, txs : Seq(Txs)]
    BY <1>1, <1>3
  <2> QED BY <1>1, <1>2, <1>3, <1>4, <2>1, <2>2 DEF Inv, TypeOK
<1>7. SessionIsPending'
  BY <1>1, <1>5 DEF SessionIsPending
<1>8. GoodChain(chain)'
  BY <1>1, <1>2
<1>9. PushInv' /\ RestoreInv' /\ BuiltInv' /\ RetryInv'
  BY <1>1 DEF PushInv, RestoreInv, BuiltInv, RetryInv
<1>10. QueueInv'
  BY <1>1, <1>3 DEF QueueInv
<1> QED BY <1>6, <1>7, <1>8, <1>9, <1>10 DEF Inv

\* The production loop decides to make a block; nothing else changes.
LEMMA StartProductionInv ==
  ASSUME Inv, StartProduction
  PROVE  Inv'
<1>1. /\ pc = "idle" /\ pc' = "generate"
      /\ UNCHANGED <<chain, pending, session, popped, moved, old, new, built, extra, retry, maximum>>
  BY DEF StartProduction
<1>2. TypeOK'
  BY <1>1 DEF Inv, TypeOK
<1>3. SessionIsPending' /\ GoodChain(chain)' /\ PushInv' /\ RestoreInv'
  BY <1>1 DEF Inv, SessionIsPending, PushInv, RestoreInv
<1>4. QueueInv' /\ BuiltInv' /\ RetryInv'
  BY <1>1 DEF Inv, QueueInv, BuiltInv, RetryInv
<1> QED BY <1>2, <1>3, <1>4 DEF Inv

\* The block is made of what succeeds on top of the head block again.
LEMMA BuildBlockInv ==
  ASSUME Inv, NEW when \in 1 .. MaxTime, BuildBlock(when)
  PROVE  Inv'
<1>1. /\ pc = "generate" /\ when > HeadTime(chain)
      /\ built' = [time |-> when, txs |-> Fitting(when)]
      /\ extra' \in Extras /\ session' = NoSession /\ pc' = "check"
      /\ UNCHANGED <<chain, pending, popped, moved, old, new, retry, maximum>>
  BY DEF BuildBlock
<1>2. pending \in Seq(Txs) /\ maximum \in Nat /\ when \in Nat
  BY SizesAssumption DEF Inv, TypeOK
<1>3. /\ Fitting(when) \in Seq(Txs) /\ Applicable(chain, Fitting(when))
      /\ Budgeted(Fitting(when))
      /\ pending = <<>> => Fitting(when) = <<>>
  BY <1>2, FittingFacts
<1>4. built' \in Blocks
  BY <1>1, <1>3 DEF Blocks
<1>5. GoodBlock'
  <2>1. Applied(chain, Fitting(when)) = Fitting(when)
    BY <1>3, ApplicableIsApplied
  <2>2. built'.time = when /\ built'.txs = Fitting(when)
    BY <1>1
  <2>3. retry' = 1 => built'.txs = <<>>
    BY <1>1, <1>3, <2>2 DEF Inv, RetryInv
  <2>4. Budgeted(built.txs)'
    BY <1>1, <1>3, <2>2 DEF Budgeted
  <2>5. ValidButSize(chain, built)'
    BY <1>1, <2>1, <2>2 DEF ValidButSize
  <2> QED BY <1>1, <2>3, <2>4, <2>5 DEF GoodBlock
<1>6. TypeOK'
  <2>1. session' \in [valid : BOOLEAN, txs : Seq(Txs)]
    BY <1>1, EmptySeq DEF NoSession
  <2> QED BY <1>1, <1>4, <2>1 DEF Inv, TypeOK
<1>7. SessionIsPending' /\ GoodChain(chain)' /\ PushInv' /\ RestoreInv' /\ QueueInv'
  BY <1>1 DEF Inv, SessionIsPending, PushInv, RestoreInv, QueueInv
<1>8. BuiltInv'
  <2>1. built'.time # NoBlock.time
    BY <1>1, <1>2 DEF NoBlock
  <2>2. built' # NoBlock
    BY <2>1
  <2> QED BY <1>1, <1>5, <2>2 DEF BuiltInv
<1>9. RetryInv'
  BY <1>1 DEF RetryInv
<1> QED BY <1>6, <1>7, <1>8, <1>9 DEF Inv

\* The block that was generated is pushed, or dropped when it is too large.
LEMMA CheckSizeInv ==
  ASSUME Inv, CheckSize
  PROVE  Inv'
<1>1. pc = "check" /\ UNCHANGED <<chain, popped, maximum>>
  BY DEF CheckSize
<1>2. CASE EnterPush /\ UNCHANGED <<built, extra, retry>>
  <2>1. GoodBlock
    BY <1>1 DEF Inv, BuiltInv
  <2> QED BY <1>1, <1>2, <2>1, EnterPushInv
<1>3. CASE /\ built' = NoBlock /\ extra' = 0 /\ pc' = "clear"
           /\ UNCHANGED <<pending, session, moved, old, new, retry>>
  <2>1. TypeOK'
    BY <1>1, <1>3 DEF Inv, TypeOK
  <2>2. /\ SessionIsPending' /\ GoodChain(chain)' /\ PushInv' /\ RestoreInv'
        /\ QueueInv' /\ BuiltInv' /\ RetryInv'
    BY <1>1, <1>3
       DEF Inv, SessionIsPending, PushInv, RestoreInv, QueueInv, BuiltInv, RetryInv
  <2> QED BY <2>1, <2>2 DEF Inv
<1> QED BY <1>2, <1>3 DEF CheckSize

\* The witness plugin clears the queue and tries again, once.
LEMMA ClearPendingInv ==
  ASSUME Inv, ClearPending
  PROVE  Inv'
<1>1. /\ pc = "clear" /\ pending' = <<>> /\ session' = NoSession
      /\ retry' \in 0 .. 1 /\ pc' \in {"generate", "idle"}
      /\ pc' = "idle" => retry' = 0
      /\ UNCHANGED <<chain, popped, moved, old, new, built, extra, maximum>>
  BY DEF ClearPending
<1>2. <<>> \in Seq(Txs) /\ IsInjective(<<>>) /\ Len(<<>>) = 0
  BY EmptySeq, NothingInEmpty
<1>3. TypeOK'
  <2>1. session' \in [valid : BOOLEAN, txs : Seq(Txs)]
    BY <1>1, <1>2 DEF NoSession
  <2> QED BY <1>1, <1>2, <2>1 DEF Inv, TypeOK
<1>4. SessionIsPending' /\ GoodChain(chain)' /\ PushInv' /\ RestoreInv'
  BY <1>1 DEF Inv, SessionIsPending, PushInv, RestoreInv, NoSession
<1>5. QueueInv'
  BY <1>1, <1>2 DEF Inv, QueueInv, Applicable
<1>6. BuiltInv' /\ RetryInv'
  BY <1>1 DEF Inv, BuiltInv, RetryInv
<1> QED BY <1>3, <1>4, <1>5, <1>6 DEF Inv

\* Nothing changes.
LEMMA StutterInv ==
  ASSUME Inv, UNCHANGED vars
  PROVE  Inv'
<1>1. /\ UNCHANGED <<chain, pending, session, popped, moved, old>>
      /\ UNCHANGED <<new, pc, built, extra, retry, maximum>>
  BY DEF vars
<1>2. TypeOK' /\ SessionIsPending' /\ GoodChain(chain)'
  BY <1>1 DEF Inv, TypeOK, SessionIsPending
<1>3. PushInv' /\ RestoreInv' /\ QueueInv'
  BY <1>1 DEF Inv, PushInv, RestoreInv, QueueInv, Trunk
<1>4. BuiltInv' /\ RetryInv'
  BY <1>1 DEF Inv, BuiltInv, RetryInv, GoodBlock, ValidButSize, Budgeted
<1> QED BY <1>2, <1>3, <1>4 DEF Inv

\* The invariant is inductive.
LEMMA NextInv ==
  ASSUME Inv, [Next]_vars
  PROVE  Inv'
<1>1. ASSUME NEW t \in Txs, PushTransaction(t) PROVE Inv'
  BY <1>1, PushTransactionInv
<1>2. ASSUME NEW b \in Delivered \cup {built}, ApplyBlock(b) PROVE Inv'
  BY <1>2, ApplyBlockInv
<1>3. ASSUME NEW when \in 1 .. MaxTime, BuildBlock(when) PROVE Inv'
  BY <1>3, BuildBlockInv
<1> QED
  BY <1>1, <1>2, <1>3, ReceiveBlockInv, PopBlockInv, FailPushInv, RestoreStepInv,
     StartProductionInv, CheckSizeInv, ClearPendingInv, StutterInv
  DEF Next

\* The inductive invariant holds of push_transaction(), push_block() and
\* _generate_block() in every order.
THEOREM Invariance == Spec => []Inv
<1>1. Init => Inv
  BY InitInv
<1>2. Inv /\ [Next]_vars => Inv'
  BY NextInv
<1> QED BY <1>1, <1>2, PTL DEF Spec

\* Every variable has its type, no transaction is queued twice in _pending_tx,
\* and between calls _pending_tx_session is what applying the queue made.
THEOREM QueueIsConsistent == Spec => []QueueConsistent
<1>1. Inv => QueueConsistent
  BY DEF Inv, QueueConsistent
<1> QED BY <1>1, Invariance, PTL

\* No transaction is applied twice on one chain, whatever is popped, restored,
\* forgotten by transaction_index or generated.
THEOREM NothingReplayed == Spec => []NoReplay
<1>1. Inv => NoReplay
  BY GoodNoReplay DEF Inv, NoReplay
<1> QED BY <1>1, Invariance, PTL

\* apply_block() can refuse what _generate_block() made only for its size, and
\* never on the second attempt; the excess is part of what was added to the
\* header after the budget.
THEOREM GeneratedBlocksAreValid == Spec => []GeneratedBlockIsValid
<1>1. ASSUME Inv PROVE GeneratedBlockIsValid
  <2> SUFFICES ASSUME pc = "push", built # NoBlock, new = 0
               PROVE  /\ ValidButSize(chain, built)
                      /\ PackSize(built.txs, Reserve) >= maximum => built.txs = <<>>
                      /\ retry = 1 \/ extra <= Reserve => Valid(chain, built, {extra})
    BY DEF GeneratedBlockIsValid
  <2>1. GoodBlock
    BY <1>1 DEF Inv, BuiltInv
  <2>2. /\ maximum \in VotedSizes /\ maximum \in Nat /\ built.txs \in Seq(Txs)
        /\ extra \in Extras /\ extra \in Nat
    BY <1>1, <2>1, SizesAssumption DEF Inv, TypeOK, GoodBlock, Blocks
  <2>3. Size(built.txs) \in Nat
    BY <2>2, SizeIsNat
  <2>4. PackSize(built.txs, Reserve) >= maximum => built.txs = <<>>
    BY <2>1, <2>2, <2>3, SizesAssumption DEF GoodBlock, Budgeted, PackSize
  <2>5. ASSUME built.txs = <<>> PROVE PackSize(built.txs, extra) <= maximum
    BY <2>2, <2>5, SizeOfNothing, SizesAssumption DEF PackSize
  <2>6. ASSUME built.txs # <<>>, extra <= Reserve PROVE PackSize(built.txs, extra) <= maximum
    BY <2>1, <2>2, <2>3, <2>6, SizesAssumption DEF GoodBlock, Budgeted, PackSize
  <2>7. retry = 1 \/ extra <= Reserve => PackSize(built.txs, extra) <= maximum
    BY <2>1, <2>5, <2>6 DEF GoodBlock
  <2> QED BY <2>1, <2>4, <2>7 DEF GoodBlock, Valid
<1> QED BY <1>1, Invariance, PTL

\* ~pending_transactions_restorer() drops only what can not be applied.
THEOREM RestoreLosesNothing == Spec => NothingLost
<1> DEFINE kept(t) == \/ t \in ToSet(TxsOf(chain)) \cup ToSet(pending')
                      \/ ~CanApply(t, chain, pending')
           A == pc = "restore" => \A t \in ToSet(popped) \cup ToSet(moved) : kept(t)
<1>1. Inv /\ [Next]_vars => [A]_vars
  <2> SUFFICES ASSUME Inv, [Next]_vars, vars' # vars, pc = "restore",
                      NEW t \in ToSet(popped) \cup ToSet(moved)
               PROVE  kept(t)
    OBVIOUS
  <2>1. Restore
    BY DEF Next, PushTransaction, ReceiveBlock, PopBlock, ApplyBlock, FailPush,
           StartProduction, BuildBlock, CheckSize, ClearPending
  <2> DEFINE txs == popped \o moved
  <2>2. /\ popped \in Seq(Txs) /\ moved \in Seq(Txs)
        /\ InOrder(ToSet(TxsOf(chain)), txs)
    BY <2>1 DEF Inv, TypeOK, RestoreInv
  <2>3. txs \in Seq(Txs) /\ t \in ToSet(txs)
    BY <2>2, ConcatProperties, ElementsOfConcat
  <2>4. pending' = Applied(chain, txs)
    BY <2>1 DEF Restore
  <2> HIDE DEF txs
  <2> QED BY <2>2, <2>3, <2>4, AppliedLosesNothing
<1> HIDE DEF A
<1>2. Spec => [][A]_vars
  BY <1>1, Invariance, PTL DEF Spec
<1> QED BY <1>2 DEF NothingLost, A
=============================================================================

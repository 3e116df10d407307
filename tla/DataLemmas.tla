----------------------------- MODULE DataLemmas ----------------------------
(***************************************************************************)
(* Induction over an interval of natural numbers, for sets instead of      *)
(* predicates, and what follows from it for functions that the components  *)
(* define by recursion on such an interval: they exist, and so the CHOOSE  *)
(* by which TLA+ defines them satisfies its equation.  Then sequences.     *)
(***************************************************************************)
EXTENDS Integers, Functions, SequencesExt, SequenceTheorems, FiniteSetTheorems,
        WellFoundedInduction, TLAPS

\* The order of the natural numbers is well-founded.
LEMMA BelowWellFounded ==
  \E R : /\ IsWellFoundedOn(R, Nat)
         /\ \A x, y \in Nat : y < x => <<y, x>> \in R
<1>1. IsWellFoundedOn(OpToRel(<, Nat), Nat)
  BY NatLessThanWellFounded
<1>2. \A x, y \in Nat : y < x => <<y, x>> \in OpToRel(<, Nat)
  BY Zenon DEF OpToRel
<1> QED BY <1>1, <1>2, Zenon

\* Every set of natural numbers that is not empty has a least element.
LEMMA LeastElement ==
  ASSUME NEW T \in SUBSET Nat, T # {}
  PROVE  \E m \in T : \A k \in T : m <= k
<1>1. PICK R : /\ IsWellFoundedOn(R, Nat)
               /\ \A x, y \in Nat : y < x => <<y, x>> \in R
  BY BelowWellFounded
<1>2. PICK m \in T : \A k \in T : ~ (<<k, m>> \in R)
  BY <1>1, WFMin, Zenon
<1>3. \A k \in T : ~ (k < m)
  BY <1>1, <1>2
<1> QED BY <1>3

\* A set that contains 0, and with k - 1 also k, contains the whole interval.
LEMMA IntervalInduction ==
  ASSUME NEW n \in Nat, NEW T,
         0 \in T, \A k \in 1 .. n : k - 1 \in T => k \in T
  PROVE  \A k \in 0 .. n : k \in T
<1> SUFFICES ASSUME (0 .. n) \ T # {} PROVE FALSE
  OBVIOUS
<1>1. (0 .. n) \ T \in SUBSET Nat
  OBVIOUS
<1>2. PICK m \in (0 .. n) \ T : \A k \in (0 .. n) \ T : m <= k
  BY <1>1, LeastElement
<1> QED BY <1>2

\* A set that contains every number below which it contains all.
LEMMA CompleteInduction ==
  ASSUME NEW n \in Nat, NEW T,
         \A k \in 0 .. n : (\A j \in 0 .. k - 1 : j \in T) => k \in T
  PROVE  \A k \in 0 .. n : k \in T
<1> SUFFICES ASSUME (0 .. n) \ T # {} PROVE FALSE
  OBVIOUS
<1>1. (0 .. n) \ T \in SUBSET Nat
  OBVIOUS
<1>2. PICK m \in (0 .. n) \ T : \A k \in (0 .. n) \ T : m <= k
  BY <1>1, LeastElement
<1> QED BY <1>2

\* f starts with a and goes on with G[1], G[2], ... up to G[n].
Iterates(f, S, a, G, n) ==
  /\ f \in [0 .. n -> S] /\ f[0] = a
  /\ \A k \in 1 .. n : f[k] = G[k][f[k - 1]]

\* Such a function exists.
LEMMA RecursiveFunction ==
  ASSUME NEW S, NEW n \in Nat, NEW a \in S, NEW G \in [1 .. n -> [S -> S]]
  PROVE  \E f : Iterates(f, S, a, G, n)
<1> DEFINE P(f, m) == /\ f \in [0 .. m -> S] /\ f[0] = a
                      /\ \A k \in 1 .. m : f[k] = G[k][f[k - 1]]
           T == {m \in 0 .. n : \E f : P(f, m)}
<1>1. 0 \in T
  <2> DEFINE g == [k \in 0 .. 0 |-> a]
  <2>1. P(g, 0)
    OBVIOUS
  <2> HIDE DEF P, g
  <2> QED BY <2>1
<1>2. ASSUME NEW m \in 1 .. n, m - 1 \in T PROVE m \in T
  <2>1. PICK f : P(f, m - 1)
    BY <1>2
  <2> DEFINE g == [k \in 0 .. m |-> IF k = m THEN G[m][f[m - 1]] ELSE f[k]]
  <2>2. f[m - 1] \in S /\ G[m] \in [S -> S]
    BY <2>1
  <2>3. g \in [0 .. m -> S] /\ g[0] = a
    BY <2>1, <2>2
  <2>4. \A k \in 1 .. m : g[k] = G[k][g[k - 1]]
    BY <2>1
  <2>5. P(g, m)
    BY <2>3, <2>4
  <2> HIDE DEF P, g
  <2> QED BY <2>5
<1>3. \A m \in 0 .. n : m \in T
  <2> HIDE DEF T
  <2> QED BY <1>1, <1>2, IntervalInduction
<1>4. \E f : P(f, n)
  <2> HIDE DEF P
  <2> QED BY <1>3
<1> QED BY <1>4 DEF Iterates

-----------------------------------------------------------------------------
\* Sequences: beginnings, and the elements of what is put together.

Prefix(s, n) == SubSeq(s, 1, n)

\* A function on the first m numbers is a sequence of length m.
LEMMA FunctionIsSequence ==
  ASSUME NEW S, NEW m \in Nat, NEW f \in [1 .. m -> S]
  PROVE  f \in Seq(S) /\ Len(f) = m
<1> QED OBVIOUS

\* The first n elements of a sequence.
LEMMA PrefixFacts ==
  ASSUME NEW S, NEW s \in Seq(S), NEW n \in 0 .. Len(s)
  PROVE  /\ Prefix(s, n) \in Seq(S) /\ Len(Prefix(s, n)) = n
         /\ \A i \in 1 .. n : Prefix(s, n)[i] = s[i]
<1>1. 1 \in Int /\ n \in Int /\ \A i \in 1 .. n : s[i] \in S
  BY ElementOfSeq
<1>2. /\ SubSeq(s, 1, n) \in Seq(S)
      /\ Len(SubSeq(s, 1, n)) = IF 1 <= n THEN n - 1 + 1 ELSE 0
      /\ \A i \in 1 .. n - 1 + 1 : SubSeq(s, 1, n)[i] = s[1 + i - 1]
  BY <1>1, SubSeqProperties
<1> QED BY <1>2 DEF Prefix

\* The rest of a sequence after its first n elements.
LEMMA SuffixFacts ==
  ASSUME NEW S, NEW s \in Seq(S), NEW n \in 0 .. Len(s)
  PROVE  LET r == SubSeq(s, n + 1, Len(s))
         IN /\ r \in Seq(S) /\ Len(r) = Len(s) - n
            /\ \A i \in 1 .. Len(s) - n : r[i] = s[n + i]
<1>1. /\ n + 1 \in Int /\ Len(s) \in Int
      /\ \A i \in n + 1 .. Len(s) : s[i] \in S
  BY ElementOfSeq
<1>2. LET r == SubSeq(s, n + 1, Len(s))
      IN /\ r \in Seq(S)
         /\ Len(r) = IF n + 1 <= Len(s) THEN Len(s) - (n + 1) + 1 ELSE 0
         /\ \A i \in 1 .. Len(s) - (n + 1) + 1 : r[i] = s[n + 1 + i - 1]
  <2> DEFINE r == SubSeq(s, n + 1, Len(s))
  <2> QED BY <1>1, SubSeqProperties
<1> QED BY <1>2

\* The beginning of a beginning.
LEMMA PrefixOfPrefix ==
  ASSUME NEW S, NEW s \in Seq(S), NEW n \in 0 .. Len(s), NEW k \in 0 .. n
  PROVE  Prefix(Prefix(s, n), k) = Prefix(s, k)
<1>1. /\ Prefix(s, n) \in Seq(S) /\ Len(Prefix(s, n)) = n
      /\ \A i \in 1 .. n : Prefix(s, n)[i] = s[i]
  BY PrefixFacts
<1>2. /\ Prefix(Prefix(s, n), k) \in Seq(S) /\ Len(Prefix(Prefix(s, n), k)) = k
      /\ \A i \in 1 .. k : Prefix(Prefix(s, n), k)[i] = Prefix(s, n)[i]
  BY <1>1, PrefixFacts
<1>3. k \in 0 .. Len(s)
  OBVIOUS
<1>4. /\ Prefix(s, k) \in Seq(S) /\ Len(Prefix(s, k)) = k
      /\ \A i \in 1 .. k : Prefix(s, k)[i] = s[i]
  BY <1>3, PrefixFacts
<1> QED BY <1>1, <1>2, <1>4, SeqEqual

\* The longest beginning is the sequence, the shortest is empty.
LEMMA PrefixWhole ==
  ASSUME NEW S, NEW s \in Seq(S)
  PROVE  Prefix(s, Len(s)) = s /\ Prefix(s, 0) = <<>>
<1>1. Prefix(s, Len(s)) = s
  BY SubSeqFull DEF Prefix
<1>2. Prefix(s, 0) = <<>>
  BY SubSeqEmpty, 1 \in Int, 0 \in Int, 0 < 1 DEF Prefix
<1> QED BY <1>1, <1>2

\* Two sequences with the same first n elements have the same beginning.
LEMMA PrefixEqual ==
  ASSUME NEW S, NEW s \in Seq(S), NEW t \in Seq(S),
         NEW n \in 0 .. Len(s), n <= Len(t), \A i \in 1 .. n : s[i] = t[i]
  PROVE  Prefix(s, n) = Prefix(t, n)
<1>1. /\ Prefix(s, n) \in Seq(S) /\ Len(Prefix(s, n)) = n
      /\ \A i \in 1 .. n : Prefix(s, n)[i] = s[i]
  BY PrefixFacts
<1>2. n \in 0 .. Len(t)
  OBVIOUS
<1>3. /\ Prefix(t, n) \in Seq(S) /\ Len(Prefix(t, n)) = n
      /\ \A i \in 1 .. n : Prefix(t, n)[i] = t[i]
  BY <1>2, PrefixFacts
<1> QED BY <1>1, <1>3, SeqEqual

\* What is appended is not in a shorter beginning.
LEMMA PrefixOfAppend ==
  ASSUME NEW S, NEW s \in Seq(S), NEW e \in S, NEW n \in 0 .. Len(s)
  PROVE  Prefix(Append(s, e), n) = Prefix(s, n)
<1>1. /\ Append(s, e) \in Seq(S) /\ Len(Append(s, e)) = Len(s) + 1
      /\ \A i \in 1 .. Len(s) : Append(s, e)[i] = s[i]
  BY AppendProperties
<1>2. n <= Len(Append(s, e)) /\ \A i \in 1 .. n : s[i] = Append(s, e)[i]
  BY <1>1
<1> QED BY <1>1, <1>2, PrefixEqual

\* Nor is what is put behind a sequence.
LEMMA PrefixOfConcat ==
  ASSUME NEW S, NEW s \in Seq(S), NEW t \in Seq(S), NEW n \in 0 .. Len(s)
  PROVE  Prefix(s \o t, n) = Prefix(s, n)
<1>1. /\ s \o t \in Seq(S) /\ Len(s \o t) = Len(s) + Len(t)
      /\ \A i \in 1 .. Len(s) + Len(t) :
           (s \o t)[i] = IF i <= Len(s) THEN s[i] ELSE t[i - Len(s)]
  BY ConcatProperties
<1>2. n <= Len(s \o t) /\ \A i \in 1 .. n : s[i] = (s \o t)[i]
  BY <1>1
<1> QED BY <1>1, <1>2, PrefixEqual

\* The elements of a sequence.
LEMMA ElementsOf ==
  ASSUME NEW S, NEW s \in Seq(S)
  PROVE  /\ ToSet(s) = {s[i] : i \in 1 .. Len(s)}
         /\ ToSet(s) \subseteq S
<1> QED BY LenProperties DEF ToSet

\* The empty sequence has no elements.
LEMMA NothingInEmpty ==
  ToSet(<<>>) = {} /\ IsInjective(<<>>)
<1>1. <<>> \in Seq({}) /\ Len(<<>>) = 0
  BY EmptySeq
<1>2. DOMAIN <<>> = 1 .. 0
  BY <1>1, LenProperties
<1> QED BY <1>2 DEF ToSet, IsInjective

\* One more element.
LEMMA ElementsOfAppend ==
  ASSUME NEW S, NEW s \in Seq(S), NEW e \in S
  PROVE  ToSet(Append(s, e)) = ToSet(s) \cup {e}
<1>1. /\ Append(s, e) \in Seq(S) /\ Len(Append(s, e)) = Len(s) + 1
      /\ \A i \in 1 .. Len(s) : Append(s, e)[i] = s[i]
      /\ Append(s, e)[Len(s) + 1] = e
  BY AppendProperties
<1>2. ToSet(Append(s, e)) = {Append(s, e)[i] : i \in 1 .. Len(s) + 1}
  BY <1>1, ElementsOf
<1>3. ToSet(s) = {s[i] : i \in 1 .. Len(s)} /\ Len(s) \in Nat
  BY ElementsOf, LenProperties
<1> QED BY <1>1, <1>2, <1>3

\* The elements of both.
LEMMA ElementsOfConcat ==
  ASSUME NEW S, NEW s \in Seq(S), NEW t \in Seq(S)
  PROVE  ToSet(s \o t) = ToSet(s) \cup ToSet(t)
<1>1. /\ s \o t \in Seq(S) /\ Len(s \o t) = Len(s) + Len(t)
      /\ \A i \in 1 .. Len(s) + Len(t) :
           (s \o t)[i] = IF i <= Len(s) THEN s[i] ELSE t[i - Len(s)]
  BY ConcatProperties
<1>2. /\ ToSet(s \o t) = {(s \o t)[i] : i \in 1 .. Len(s) + Len(t)}
      /\ ToSet(s) = {s[i] : i \in 1 .. Len(s)}
      /\ ToSet(t) = {t[i] : i \in 1 .. Len(t)}
      /\ Len(s) \in Nat /\ Len(t) \in Nat
  BY <1>1, ElementsOf, LenProperties
<1>3. ASSUME NEW x \in ToSet(t) PROVE x \in ToSet(s \o t)
  <2>1. PICK i \in 1 .. Len(t) : x = t[i]
    BY <1>2
  <2>2. i + Len(s) \in 1 .. Len(s) + Len(t) /\ (s \o t)[i + Len(s)] = t[i]
    BY <1>1, <1>2
  <2> QED BY <1>2, <2>1, <2>2
<1>4. ASSUME NEW x \in ToSet(s) PROVE x \in ToSet(s \o t)
  BY <1>1, <1>2
<1>5. ASSUME NEW x \in ToSet(s \o t) PROVE x \in ToSet(s) \cup ToSet(t)
  BY <1>1, <1>2
<1> QED BY <1>3, <1>4, <1>5

\* Elements of a beginning are elements of the whole.
LEMMA ElementsOfPrefix ==
  ASSUME NEW S, NEW s \in Seq(S), NEW n \in 0 .. Len(s)
  PROVE  ToSet(Prefix(s, n)) = {s[i] : i \in 1 .. n} /\ ToSet(Prefix(s, n)) \subseteq ToSet(s)
<1>1. /\ Prefix(s, n) \in Seq(S) /\ Len(Prefix(s, n)) = n
      /\ \A i \in 1 .. n : Prefix(s, n)[i] = s[i]
  BY PrefixFacts
<1>2. ToSet(Prefix(s, n)) = {Prefix(s, n)[i] : i \in 1 .. n}
  BY <1>1, ElementsOf
<1>3. ToSet(s) = {s[i] : i \in 1 .. Len(s)} /\ Len(s) \in Nat
  BY ElementsOf, LenProperties
<1> QED BY <1>1, <1>2, <1>3

\* Putting together what has no element twice and nothing in common.
LEMMA InjectiveConcat ==
  ASSUME NEW S, NEW s \in Seq(S), NEW t \in Seq(S), IsInjective(s), IsInjective(t),
         \A x \in ToSet(t) : x \notin ToSet(s)
  PROVE  IsInjective(s \o t)
<1> DEFINE u == s \o t
<1>1. /\ u \in Seq(S) /\ Len(u) = Len(s) + Len(t)
      /\ \A i \in 1 .. Len(s) + Len(t) :
           u[i] = IF i <= Len(s) THEN s[i] ELSE t[i - Len(s)]
  BY ConcatProperties
<1>2. /\ Len(s) \in Nat /\ Len(t) \in Nat /\ DOMAIN s = 1 .. Len(s)
      /\ DOMAIN t = 1 .. Len(t) /\ DOMAIN u = 1 .. Len(s) + Len(t)
  BY <1>1, LenProperties
<1>3. ToSet(s) = {s[i] : i \in 1 .. Len(s)} /\ ToSet(t) = {t[i] : i \in 1 .. Len(t)}
  BY ElementsOf
<1> HIDE DEF u
<1> SUFFICES ASSUME NEW a \in 1 .. Len(s) + Len(t), NEW b \in 1 .. Len(s) + Len(t),
                    u[a] = u[b]
             PROVE  a = b
  BY <1>2 DEF IsInjective, u
<1>4. CASE a <= Len(s) /\ b <= Len(s)
  <2>1. a \in 1 .. Len(s) /\ b \in 1 .. Len(s) /\ s[a] = s[b]
    BY <1>1, <1>2, <1>4
  <2> QED BY <1>2, <2>1 DEF IsInjective
<1>5. CASE a > Len(s) /\ b > Len(s)
  <2>1. /\ a - Len(s) \in 1 .. Len(t) /\ b - Len(s) \in 1 .. Len(t)
        /\ t[a - Len(s)] = t[b - Len(s)]
    BY <1>1, <1>2, <1>5
  <2>2. a - Len(s) = b - Len(s)
    BY <1>2, <2>1 DEF IsInjective
  <2> QED BY <1>2, <2>2
<1>6. \A i \in 1 .. Len(s), j \in Len(s) + 1 .. Len(s) + Len(t) : u[i] # u[j]
  <2> TAKE i \in 1 .. Len(s), j \in Len(s) + 1 .. Len(s) + Len(t)
  <2>1. j - Len(s) \in 1 .. Len(t) /\ u[i] = s[i] /\ u[j] = t[j - Len(s)]
    BY <1>1, <1>2
  <2>2. s[i] \in ToSet(s) /\ t[j - Len(s)] \in ToSet(t)
    BY <1>3, <2>1
  <2> QED BY <2>1, <2>2
<1>7. ~(a <= Len(s) /\ b > Len(s)) /\ ~(a > Len(s) /\ b <= Len(s))
  BY <1>2, <1>6
<1> QED BY <1>2, <1>4, <1>5, <1>7

-----------------------------------------------------------------------------
\* Max and Min of the community modules.

\* A set of natural numbers up to n that is not empty has its maximum.
LEMMA GreatestElement ==
  ASSUME NEW n \in Nat, NEW T \in SUBSET (0 .. n), T # {}
  PROVE  Max(T) \in T /\ \A k \in T : k <= Max(T)
<1> DEFINE D == {n - k : k \in T}
<1>1. D \in SUBSET Nat /\ D # {}
  <2>1. \A k \in T : n - k \in Nat
    OBVIOUS
  <2> QED BY <2>1, Zenon
<1>2. PICK m \in D : \A k \in D : m <= k
  BY <1>1, LeastElement
<1>3. PICK g \in T : m = n - g
  OBVIOUS
<1>4. \A k \in T : g >= k
  <2> TAKE k \in T
  <2>1. n - k \in D
    BY Zenon
  <2>2. n - g <= n - k
    BY <1>2, <1>3, <2>1
  <2>3. g \in 0 .. n /\ k \in 0 .. n
    OBVIOUS
  <2> HIDE DEF D
  <2> QED BY <2>2, <2>3
<1>5. \E x \in T : \A y \in T : x >= y
  BY <1>4
<1>6. Max(T) \in T /\ \A y \in T : Max(T) >= y
  BY <1>5, Zenon DEF Max
<1> QED BY <1>6

\* The maximum of two integers.
LEMMA MaxOfTwo ==
  ASSUME NEW a \in Int, NEW b \in Int
  PROVE  Max({a, b}) = IF a >= b THEN a ELSE b
<1>1. \E x \in {a, b} : \A y \in {a, b} : x >= y
  OBVIOUS
<1>2. Max({a, b}) \in {a, b} /\ \A y \in {a, b} : Max({a, b}) >= y
  BY <1>1, Zenon DEF Max
<1> QED BY <1>2

\* The minimum of two integers.
LEMMA MinOfTwo ==
  ASSUME NEW a \in Int, NEW b \in Int
  PROVE  Min({a, b}) = IF a <= b THEN a ELSE b
<1>1. \E x \in {a, b} : \A y \in {a, b} : x <= y
  OBVIOUS
<1>2. Min({a, b}) \in {a, b} /\ \A y \in {a, b} : Min({a, b}) <= y
  BY <1>1, Zenon DEF Min
<1> QED BY <1>2

-----------------------------------------------------------------------------
\* Sums of the values of a function, as the community modules define them.

\* g[s] is the sum of f over s, for all subsets s of S, whatever element is
\* added last.
Sums(g, f, S) ==
  /\ g \in [SUBSET S -> Int] /\ g[{}] = 0
  /\ \A s \in SUBSET S : \A x \in s : g[s] = f[x] + g[s \ {x}]

\* Such sums exist over a finite set.
LEMMA SumsExist ==
  ASSUME NEW S, IsFiniteSet(S), NEW f, \A x \in S : f[x] \in Int
  PROVE  \E g : Sums(g, f, S)
<1>1. PICK n \in Nat : ExistsBijection(1 .. n, S)
  BY FS_NatBijection
<1>2. PICK h : h \in Bijection(1 .. n, S)
  BY <1>1 DEF ExistsBijection
<1>3. /\ h \in [1 .. n -> S]
      /\ \A i, j \in 1 .. n : h[i] = h[j] => i = j
      /\ \A x \in S : \E i \in 1 .. n : h[i] = x
  BY <1>2, Zenon DEF Bijection, Injection, Surjection, IsInjective
<1> DEFINE term(s, k) == IF h[k] \in s THEN f[h[k]] ELSE 0
           Runs(F, s) == /\ F \in [0 .. n -> Int] /\ F[0] = 0
                         /\ \A k \in 1 .. n : F[k] = F[k - 1] + term(s, k)
<1>4. ASSUME NEW s \in SUBSET S PROVE \E F : Runs(F, s)
  <2> DEFINE G == [k \in 1 .. n |-> [v \in Int |-> v + term(s, k)]]
  <2>1. \A k \in 1 .. n : term(s, k) \in Int
    BY <1>3
  <2> HIDE DEF term
  <2>2. G \in [1 .. n -> [Int -> Int]]
    BY <2>1
  <2>3. \A k \in 1 .. n, v \in Int : G[k][v] = v + term(s, k)
    OBVIOUS
  <2> HIDE DEF G
  <2>4. PICK F : Iterates(F, Int, 0, G, n)
    <3> HIDE DEF Runs
    <3>1. 0 \in Int
      OBVIOUS
    <3> QED BY <2>2, <3>1, RecursiveFunction
  <2>5. \A k \in 1 .. n : F[k] = F[k - 1] + term(s, k)
    BY <2>3, <2>4 DEF Iterates
  <2> QED BY <2>4, <2>5 DEF Iterates
<1> DEFINE run(s) == CHOOSE F : Runs(F, s)
           g == [s \in SUBSET S |-> run(s)[n]]
<1>5. ASSUME NEW s \in SUBSET S PROVE Runs(run(s), s)
  <2> HIDE DEF Runs
  <2> QED BY <1>4
<1> HIDE DEF run
<1>6. g \in [SUBSET S -> Int]
  BY <1>5
<1>7. g[{}] = 0
  <2> DEFINE F == run({})
             T == {k \in 0 .. n : F[k] = 0}
  <2>1. F \in [0 .. n -> Int] /\ F[0] = 0 /\ \A k \in 1 .. n : F[k] = F[k - 1] + 0
    BY <1>5
  <2> HIDE DEF F
  <2>2. 0 \in T
    BY <2>1
  <2>3. \A k \in 1 .. n : k - 1 \in T => k \in T
    BY <2>1
  <2>4. n \in T
    <3> HIDE DEF T
    <3> QED BY <2>2, <2>3, IntervalInduction
  <2> QED BY <2>4 DEF F
<1>8. ASSUME NEW s \in SUBSET S, NEW x \in s PROVE g[s] = f[x] + g[s \ {x}]
  <2>1. PICK j \in 1 .. n : h[j] = x
    BY <1>3
  <2> DEFINE F == run(s)
             E == run(s \ {x})
             more(k) == IF k >= j THEN f[x] ELSE 0
             T == {k \in 0 .. n : F[k] = E[k] + more(k)}
  <2>2. f[x] \in Int
    OBVIOUS
  <2>3. /\ F \in [0 .. n -> Int] /\ F[0] = 0
        /\ \A k \in 1 .. n : F[k] = F[k - 1] + term(s, k)
    BY <1>5
  <2>4. /\ E \in [0 .. n -> Int] /\ E[0] = 0
        /\ \A k \in 1 .. n : E[k] = E[k - 1] + term(s \ {x}, k)
    BY <1>5
  <2>5. \A k \in 1 .. n : k # j => term(s, k) = term(s \ {x}, k) /\ term(s, k) \in Int
    BY <1>3, <2>1
  <2>6. term(s, j) = f[x] /\ term(s \ {x}, j) = 0
    BY <2>1
  <2> HIDE DEF F, E, term
  <2>7. 0 \in T
    BY <2>3, <2>4
  <2>8. ASSUME NEW k \in 1 .. n, k - 1 \in T PROVE k \in T
    <3>1. /\ F[k - 1] = E[k - 1] + more(k - 1) /\ E[k - 1] \in Int
          /\ F[k] = F[k - 1] + term(s, k) /\ E[k] = E[k - 1] + term(s \ {x}, k)
      BY <2>3, <2>4, <2>8
    <3>2. CASE k = j
      BY <2>2, <2>6, <3>1, <3>2
    <3>3. CASE k # j
      <4>1. more(k - 1) = more(k)
        BY <3>3
      <4>2. more(k) \in Int
        BY <2>2
      <4> HIDE DEF more
      <4> QED BY <2>5, <3>1, <3>3, <4>1, <4>2
    <3> QED BY <3>2, <3>3
  <2>9. n \in T
    <3> HIDE DEF T
    <3> QED BY <2>7, <2>8, IntervalInduction
  <2>10. F[n] = E[n] + f[x] /\ E[n] \in Int
    BY <2>4, <2>9
  <2>11. g[s] = F[n] /\ g[s \ {x}] = E[n]
    BY DEF F, E
  <2> HIDE DEF g
  <2> QED BY <2>2, <2>10, <2>11
<1> HIDE DEF g
<1> QED BY <1>6, <1>7, <1>8 DEF Sums

\* They are what SumFunctionOnSet computes.
LEMMA SumsAreSums ==
  ASSUME NEW S, IsFiniteSet(S), NEW f, \A x \in S : f[x] \in Int,
         NEW g, Sums(g, f, S), NEW A \in SUBSET S
  PROVE  SumFunctionOnSet(f, A) = g[A]
<1> DEFINE pick(s) == CHOOSE x \in s : TRUE
           P(i) == i = [s \in SUBSET A |-> IF s = {} THEN 0 ELSE f[pick(s)] + i[s \ {pick(s)}]]
           iter == CHOOSE i : P(i)
           e == [s \in SUBSET A |-> g[s]]
<1>1. SumFunctionOnSet(f, A) = iter[A]
  BY DEF SumFunctionOnSet, FoldFunctionOnSet, MapThenFoldSet
<1>2. \A s \in SUBSET A : s # {} => pick(s) \in s
  OBVIOUS
<1> HIDE DEF pick
<1>3. P(e)
  <2>1. \A s \in SUBSET A : e[s] = IF s = {} THEN 0 ELSE f[pick(s)] + e[s \ {pick(s)}]
    BY <1>2 DEF Sums
  <2> HIDE DEF e
  <2>2. e = [s \in SUBSET A |-> e[s]]
    BY DEF e
  <2> QED BY <2>1, <2>2
<1>4. P(iter)
  <2> HIDE DEF P, e
  <2> QED BY <1>3
<1>5. iter[{}] = 0 /\ \A s \in SUBSET A : s # {} => iter[s] = f[pick(s)] + iter[s \ {pick(s)}]
  <2> HIDE DEF iter
  <2> QED BY <1>4
<1> HIDE DEF iter, P, e
<1> DEFINE N == Cardinality(A)
           T == {k \in 0 .. N : \A s \in SUBSET A : Cardinality(s) = k => iter[s] = g[s]}
<1>6. IsFiniteSet(A) /\ \A s \in SUBSET A : IsFiniteSet(s)
  BY FS_Subset
<1>7. N \in Nat
  BY <1>6, FS_CardinalityType
<1>8. 0 \in T
  <2>1. ASSUME NEW s \in SUBSET A, Cardinality(s) = 0 PROVE s = {}
    BY <1>6, <2>1, FS_EmptySet
  <2>2. iter[{}] = g[{}]
    BY <1>5 DEF Sums
  <2> QED BY <1>7, <2>1, <2>2
<1>9. ASSUME NEW k \in 1 .. N, k - 1 \in T PROVE k \in T
  <2> SUFFICES ASSUME NEW s \in SUBSET A, Cardinality(s) = k PROVE iter[s] = g[s]
    BY <1>7
  <2>1. s # {}
    BY FS_EmptySet
  <2> DEFINE x == pick(s)
  <2>2. x \in s
    BY <1>2, <2>1
  <2> HIDE DEF x
  <2>3. Cardinality(s \ {x}) = k - 1
    BY <1>6, <2>2, FS_RemoveElement
  <2>4. s \ {x} \in SUBSET A
    OBVIOUS
  <2>5. iter[s \ {x}] = g[s \ {x}]
    BY <1>9, <2>3, <2>4
  <2>6. iter[s] = f[x] + iter[s \ {x}]
    BY <1>5, <2>1 DEF x
  <2>7. g[s] = f[x] + g[s \ {x}]
    BY <2>2 DEF Sums
  <2> QED BY <2>5, <2>6, <2>7
<1>10. N \in T
  <2> HIDE DEF T
  <2> QED BY <1>7, <1>8, <1>9, IntervalInduction
<1> QED BY <1>1, <1>10

\* What every sum over a finite set is: an integer, zero over the empty set, and
\* one element more than the sum over the others.
LEMMA SumFacts ==
  ASSUME NEW S, IsFiniteSet(S), NEW f, \A x \in S : f[x] \in Int
  PROVE  /\ \A A \in SUBSET S : SumFunctionOnSet(f, A) \in Int
         /\ SumFunctionOnSet(f, {}) = 0
         /\ \A A \in SUBSET S : \A x \in A :
               SumFunctionOnSet(f, A) = f[x] + SumFunctionOnSet(f, A \ {x})
<1>1. PICK g : Sums(g, f, S)
  BY SumsExist
<1>2. \A A \in SUBSET S : SumFunctionOnSet(f, A) = g[A]
  BY <1>1, SumsAreSums
<1>3. g \in [SUBSET S -> Int] /\ g[{}] = 0
      /\ \A A \in SUBSET S : \A x \in A : g[A] = f[x] + g[A \ {x}]
  BY <1>1 DEF Sums
<1>4. {} \in SUBSET S /\ \A A \in SUBSET S : \A x \in A : A \ {x} \in SUBSET S
  OBVIOUS
<1> QED BY <1>2, <1>3, <1>4

\* A set of sets that contains the empty set, and a set if it contains it without
\* one of its elements, contains every finite set.
LEMMA SetInduction ==
  ASSUME NEW S, IsFiniteSet(S), NEW T, {} \in T,
         \A A \in SUBSET S : \A x \in A : A \ {x} \in T => A \in T
  PROVE  S \in T
<1> DEFINE N == Cardinality(S)
           U == {k \in 0 .. N : \A A \in SUBSET S : Cardinality(A) = k => A \in T}
<1>1. N \in Nat /\ \A A \in SUBSET S : IsFiniteSet(A)
  BY FS_Subset, FS_CardinalityType
<1>2. 0 \in U
  <2>1. \A A \in SUBSET S : Cardinality(A) = 0 => A = {}
    BY <1>1, FS_EmptySet
  <2>2. 0 \in 0 .. N
    BY <1>1
  <2>3. \A A \in SUBSET S : Cardinality(A) = 0 => A \in T
    BY <2>1
  <2> HIDE DEF N
  <2> QED BY <2>2, <2>3
<1>3. ASSUME NEW k \in 1 .. N, k - 1 \in U PROVE k \in U
  <2> SUFFICES ASSUME NEW A \in SUBSET S, Cardinality(A) = k PROVE A \in T
    BY <1>1
  <2>1. A # {}
    BY FS_EmptySet
  <2>2. PICK x \in A : TRUE
    BY <2>1
  <2>3. Cardinality(A \ {x}) = k - 1
    BY <1>1, FS_RemoveElement
  <2>4. A \ {x} \in SUBSET S
    OBVIOUS
  <2>5. A \ {x} \in T
    BY <1>3, <2>3, <2>4
  <2> QED BY <2>5
<1>4. N \in U
  <2> HIDE DEF U
  <2> QED BY <1>1, <1>2, <1>3, IntervalInduction
<1> QED BY <1>4

\* Functions that agree have the same sum.
LEMMA SumsAgree ==
  ASSUME NEW S, IsFiniteSet(S), NEW f, NEW h,
         \A x \in S : f[x] \in Int /\ h[x] = f[x]
  PROVE  SumFunctionOnSet(h, S) = SumFunctionOnSet(f, S)
<1> DEFINE T == {A \in SUBSET S : SumFunctionOnSet(h, A) = SumFunctionOnSet(f, A)}
<1>1. \A x \in S : h[x] \in Int
  OBVIOUS
<1>2. {} \in T
  BY <1>1, SumFacts
<1>3. ASSUME NEW A \in SUBSET S, NEW x \in A, A \ {x} \in T PROVE A \in T
  <2>1. SumFunctionOnSet(f, A) = f[x] + SumFunctionOnSet(f, A \ {x})
    BY SumFacts
  <2>2. SumFunctionOnSet(h, A) = h[x] + SumFunctionOnSet(h, A \ {x})
    BY <1>1, SumFacts
  <2> QED BY <1>3, <2>1, <2>2
<1>4. S \in T
  <2> HIDE DEF T
  <2> QED BY <1>2, <1>3, SetInduction
<1> QED BY <1>4

\* The sum of a sum.
LEMMA SumsAdd ==
  ASSUME NEW S, IsFiniteSet(S), NEW f, NEW e, NEW h,
         \A x \in S : f[x] \in Int /\ e[x] \in Int /\ h[x] = f[x] + e[x]
  PROVE  SumFunctionOnSet(h, S) = SumFunctionOnSet(f, S) + SumFunctionOnSet(e, S)
<1> DEFINE sf(A) == SumFunctionOnSet(f, A)
           se(A) == SumFunctionOnSet(e, A)
           sh(A) == SumFunctionOnSet(h, A)
           T == {A \in SUBSET S : sh(A) = sf(A) + se(A)}
<1>1. \A x \in S : h[x] \in Int
  OBVIOUS
<1>2. /\ \A A \in SUBSET S : sf(A) \in Int
      /\ sf({}) = 0 /\ \A A \in SUBSET S : \A x \in A : sf(A) = f[x] + sf(A \ {x})
  BY SumFacts
<1>3. /\ \A A \in SUBSET S : se(A) \in Int
      /\ se({}) = 0 /\ \A A \in SUBSET S : \A x \in A : se(A) = e[x] + se(A \ {x})
  BY SumFacts
<1>4. /\ \A A \in SUBSET S : sh(A) \in Int
      /\ sh({}) = 0 /\ \A A \in SUBSET S : \A x \in A : sh(A) = h[x] + sh(A \ {x})
  BY <1>1, SumFacts
<1> HIDE DEF sf, se, sh
<1>5. {} \in T
  BY <1>2, <1>3, <1>4
<1>6. ASSUME NEW A \in SUBSET S, NEW x \in A, A \ {x} \in T PROVE A \in T
  <2>1. /\ sf(A) = f[x] + sf(A \ {x}) /\ se(A) = e[x] + se(A \ {x})
        /\ sh(A) = h[x] + sh(A \ {x}) /\ sh(A \ {x}) = sf(A \ {x}) + se(A \ {x})
        /\ h[x] = f[x] + e[x] /\ f[x] \in Int /\ e[x] \in Int
        /\ sf(A \ {x}) \in Int /\ se(A \ {x}) \in Int
    BY <1>2, <1>3, <1>4, <1>6
  <2> QED BY <2>1
<1>7. S \in T
  <2> HIDE DEF T
  <2> QED BY <1>5, <1>6, SetInduction
<1> QED BY <1>7 DEF sf, se, sh

\* The sum over two sets that have nothing in common.
LEMMA SumsUnion ==
  ASSUME NEW A, NEW B, IsFiniteSet(A), IsFiniteSet(B), A \cap B = {},
         NEW f, \A x \in A \cup B : f[x] \in Int
  PROVE  SumFunctionOnSet(f, A \cup B) = SumFunctionOnSet(f, A) + SumFunctionOnSet(f, B)
<1> DEFINE S == A \cup B
           sf(C) == SumFunctionOnSet(f, C)
           T == {C \in SUBSET B : sf(A \cup C) = sf(A) + sf(C)}
<1>1. IsFiniteSet(S)
  BY FS_Union
<1>2. /\ \A C \in SUBSET S : sf(C) \in Int
      /\ sf({}) = 0 /\ \A C \in SUBSET S : \A x \in C : sf(C) = f[x] + sf(C \ {x})
  BY <1>1, SumFacts
<1> HIDE DEF sf
<1>3. {} \in T
  <2>1. A \cup {} = A /\ A \in SUBSET S
    OBVIOUS
  <2> QED BY <1>2, <2>1
<1>4. ASSUME NEW C \in SUBSET B, NEW x \in C, C \ {x} \in T PROVE C \in T
  <2>1. /\ C \in SUBSET S /\ A \cup C \in SUBSET S /\ C \ {x} \in SUBSET S /\ A \in SUBSET S
        /\ (A \cup C) \ {x} = A \cup (C \ {x}) /\ f[x] \in Int
    OBVIOUS
  <2>2. sf(C) = f[x] + sf(C \ {x})
    BY <1>2, <2>1
  <2>3. sf(A \cup C) = f[x] + sf((A \cup C) \ {x})
    BY <1>2, <2>1
  <2>4. sf(A \cup (C \ {x})) = sf(A) + sf(C \ {x})
    BY <1>4
  <2>5. sf(A) \in Int /\ sf(C \ {x}) \in Int
    BY <1>2, <2>1
  <2>6. sf(A \cup C) = sf(A) + sf(C)
    <3> DEFINE u == sf(A) 
               v == sf(C \ {x})
    <3>1. f[x] \in Int /\ u \in Int /\ v \in Int
      BY <2>1, <2>5
    <3>2. sf(A \cup C) = f[x] + (u + v) /\ sf(C) = f[x] + v
      BY <2>1, <2>2, <2>3, <2>4
    <3> HIDE DEF u, v
    <3>3. sf(A \cup C) = u + sf(C)
      BY <3>1, <3>2
    <3> QED BY <3>3 DEF u
  <2> HIDE DEF S
  <2> QED BY <2>6
<1>5. B \in T
  <2> HIDE DEF T
  <2> QED BY <1>3, <1>4, SetInduction
<1> QED BY <1>5 DEF sf

\* Two functions that differ in one place.
LEMMA SumsDiffer ==
  ASSUME NEW S, IsFiniteSet(S), NEW f, NEW h, NEW k \in S, h[k] \in Int,
         \A x \in S : f[x] \in Int, \A x \in S \ {k} : h[x] = f[x]
  PROVE  SumFunctionOnSet(h, S) = SumFunctionOnSet(f, S) - f[k] + h[k]
<1>1. \A x \in S : h[x] \in Int
  OBVIOUS
<1>2. IsFiniteSet(S \ {k})
  BY FS_Subset
<1>3. SumFunctionOnSet(h, S \ {k}) = SumFunctionOnSet(f, S \ {k})
  BY <1>2, SumsAgree
<1>4. S \in SUBSET S /\ S \ {k} \in SUBSET S
  OBVIOUS
<1>5. /\ SumFunctionOnSet(f, S) = f[k] + SumFunctionOnSet(f, S \ {k})
      /\ SumFunctionOnSet(f, S \ {k}) \in Int
  BY <1>4, SumFacts
<1>6. SumFunctionOnSet(h, S) = h[k] + SumFunctionOnSet(h, S \ {k})
  BY <1>1, <1>4, SumFacts
<1> QED BY <1>3, <1>5, <1>6

\* Counting by groups: what each of the names gets, all together, is all there is.
LEMMA SumsByGroup ==
  ASSUME NEW O, IsFiniteSet(O), NEW x, \A o \in O : x[o] \in Int,
         NEW names, IsFiniteSet(names), NEW who, \A o \in O : who[o] \in names,
         NEW part, \A a \in names : part[a] \in SUBSET O,
         \A a \in names : \A o \in O : o \in part[a] <=> who[o] = a,
         NEW q, \A a \in names : q[a] = SumFunctionOnSet(x, part[a])
  PROVE  /\ \A a \in names : q[a] \in Int
         /\ SumFunctionOnSet(q, names) = SumFunctionOnSet(x, O)
<1> DEFINE of(M) == {o \in O : who[o] \in M}
           T == {M \in SUBSET names : SumFunctionOnSet(q, M) = SumFunctionOnSet(x, of(M))}
<1>1. \A a \in names : q[a] \in Int
  <2> TAKE a \in names
  <2> DEFINE A == part[a]
  <2>1. A \in SUBSET O
    OBVIOUS
  <2>2. q[a] = SumFunctionOnSet(x, A)
    OBVIOUS
  <2> HIDE DEF A
  <2>3. SumFunctionOnSet(x, A) \in Int
    BY <2>1, SumFacts
  <2> QED BY <2>2, <2>3
<1>2. {} \in T
  <2>1. of({}) = {}
    OBVIOUS
  <2> QED BY <1>1, <2>1, SumFacts
<1>3. ASSUME NEW M \in SUBSET names, NEW a \in M, M \ {a} \in T PROVE M \in T
  <2> DEFINE A == part[a]
             B == of(M \ {a})
  <2>1. of(M) = A \cup B /\ A \cap B = {} /\ \A o \in A \cup B : x[o] \in Int
    OBVIOUS
  <2>2. IsFiniteSet(A) /\ IsFiniteSet(B)
    BY FS_Subset
  <2> HIDE DEF A, B, of
  <2>3. SumFunctionOnSet(x, of(M)) = SumFunctionOnSet(x, A) + SumFunctionOnSet(x, B)
    BY <2>1, <2>2, SumsUnion
  <2>4. q[a] = SumFunctionOnSet(x, A)
    BY DEF A
  <2>5. SumFunctionOnSet(q, M) = q[a] + SumFunctionOnSet(q, M \ {a})
    BY <1>1, SumFacts
  <2>6. SumFunctionOnSet(q, M \ {a}) = SumFunctionOnSet(x, B)
    BY <1>3 DEF B
  <2> QED BY <2>3, <2>4, <2>5, <2>6
<1>4. names \in T
  <2> HIDE DEF T
  <2> QED BY <1>2, <1>3, SetInduction
<1>5. of(names) = O
  OBVIOUS
<1> QED BY <1>1, <1>4, <1>5
=============================================================================

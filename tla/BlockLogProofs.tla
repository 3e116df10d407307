--------------------------- MODULE BlockLogProofs ---------------------------
(***************************************************************************)
(* Proofs about BlockLog for any number of blocks.                         *)
(*                                                                         *)
(* That an open log finds its blocks depends on what a stop may leave of   *)
(* the files.  The inductive invariant says that it is always a beginning  *)
(* of the same two sequences: data and position of block 1, 2, ... in the  *)
(* block file (Shaped), the positions in the index file (Numbered).  From  *)
(* the last position alone open() can then tell how long both are.         *)
(***************************************************************************)
EXTENDS BlockLog, SequenceTheorems, TLAPS

\* Write 2k+1 is block k+1, write 2k+2 its position.
Shaped(s) ==
  \A k \in Nat : /\ 2 * k + 1 <= Len(s) => s[2 * k + 1] = Data(k + 1)
                 /\ 2 * k + 2 <= Len(s) => s[2 * k + 2] = Pos(2 * k)

\* Entry n is the position of block n.
Numbered(t) == \A n \in 1 .. Len(t) : t[n] = 2 * (n - 1)

\* The inductive invariant.
Inv ==
  /\ TypeOK
  /\ Shaped(Log) /\ Numbered(Index)
  /\ 2 * flushed <= Len(block_file) /\ Len(block_file) <= 2 * MaxBlock
  /\ pc = "closed" => block_buf = <<>> /\ index_buf = <<>> /\ head = 0
  /\ pc # "closed" => /\ Len(Log) = 2 * head
                      /\ Len(Index) = head \/ (Len(Index) = 0 /\ head = 1)
  /\ pc = "append" => head <= goal

-----------------------------------------------------------------------------
\* What a stop keeps of a stream: s and the first i entries of the buffer t.
LEMMA PrefixFacts ==
  ASSUME NEW S, NEW s \in Seq(S), NEW t \in Seq(S), NEW i \in 0 .. Len(t)
  PROVE  LET p == s \o SubSeq(t, 1, i)
         IN /\ p \in Seq(S) /\ Len(p) = Len(s) + i /\ Len(p) <= Len(s \o t)
            /\ \A j \in 1 .. Len(p) : p[j] = (s \o t)[j]
<1> DEFINE u == SubSeq(t, 1, i)
<1>1. i \in Int /\ 1 \in Int /\ \A j \in 1 .. i : t[j] \in S
  BY ElementOfSeq
<1>2. /\ u \in Seq(S)
      /\ Len(u) = IF 1 <= i THEN i - 1 + 1 ELSE 0
      /\ \A j \in 1 .. i - 1 + 1 : u[j] = t[1 + j - 1]
  BY <1>1, SubSeqProperties
<1>3. u \in Seq(S) /\ Len(u) = i /\ \A j \in 1 .. i : u[j] = t[j]
  BY <1>2
<1> HIDE DEF u
<1>4. /\ s \o u \in Seq(S) /\ Len(s \o u) = Len(s) + Len(u)
      /\ \A j \in 1 .. Len(s) + Len(u) :
           (s \o u)[j] = IF j <= Len(s) THEN s[j] ELSE u[j - Len(s)]
  BY <1>3, ConcatProperties
<1>5. /\ Len(s \o t) = Len(s) + Len(t)
      /\ \A j \in 1 .. Len(s) + Len(t) :
           (s \o t)[j] = IF j <= Len(s) THEN s[j] ELSE t[j - Len(s)]
  BY ConcatProperties
<1>6. \A j \in 1 .. Len(s) + i : (s \o u)[j] = (s \o t)[j]
  BY <1>3, <1>4, <1>5
<1> QED BY <1>3, <1>4, <1>5, <1>6 DEF u

\* Both shapes are inherited by every beginning of a stream.
LEMMA PrefixShaped ==
  ASSUME NEW s \in Seq(Writes), NEW p \in Seq(Writes), Len(p) <= Len(s),
         \A j \in 1 .. Len(p) : p[j] = s[j], Shaped(s)
  PROVE  Shaped(p)
BY DEF Shaped

\* In the same way every beginning of an index is numbered.
LEMMA PrefixNumbered ==
  ASSUME NEW s \in Seq(Nat), NEW p \in Seq(Nat), Len(p) <= Len(s),
         \A j \in 1 .. Len(p) : p[j] = s[j], Numbered(s)
  PROVE  Numbered(p)
BY DEF Numbered

\* The streams are sequences of writes and of positions, no shorter than the
\* files.
LEMMA StreamFacts ==
  ASSUME TypeOK
  PROVE  /\ Log \in Seq(Writes) /\ Len(Log) = Len(block_file) + Len(block_buf)
         /\ Index \in Seq(Nat) /\ Len(Index) = Len(index_file) + Len(index_buf)
<1>1. /\ block_file \in Seq(Writes) /\ block_buf \in Seq(Writes)
      /\ index_file \in Seq(Nat) /\ index_buf \in Seq(Nat)
  BY DEF TypeOK
<1> QED BY <1>1, ConcatProperties DEF Log, Index

\* Emptying a buffer, by flush() or by closing the stream, does not change the
\* stream.
LEMMA FlushKeepsStreams ==
  ASSUME TypeOK
  PROVE  /\ FlushBlocks => /\ block_file' \in Seq(Writes)
                           /\ block_buf' \in Seq(Writes) /\ Log' = Log
                           /\ block_file' = Log
         /\ FlushIndex => /\ index_file' \in Seq(Nat)
                          /\ index_buf' \in Seq(Nat) /\ Index' = Index
<1>1. Log \in Seq(Writes) /\ Index \in Seq(Nat)
  BY StreamFacts
<1>2. Log \o <<>> = Log /\ Index \o <<>> = Index
  BY <1>1, ConcatEmptySeq
<1>3. ASSUME FlushBlocks
      PROVE  /\ block_file' \in Seq(Writes) /\ block_buf' \in Seq(Writes)
             /\ Log' = Log /\ block_file' = Log
  <2>1. Log' = block_file' \o block_buf'
    BY DEF Log
  <2>2. block_file' = Log /\ block_buf' = <<>>
    BY <1>3 DEF FlushBlocks
  <2> QED BY <1>1, <1>2, <2>1, <2>2, EmptySeq
<1>4. ASSUME FlushIndex
      PROVE  /\ index_file' \in Seq(Nat) /\ index_buf' \in Seq(Nat)
             /\ Index' = Index
  <2>1. Index' = index_file' \o index_buf'
    BY DEF Index
  <2>2. index_file' = Index /\ index_buf' = <<>>
    BY <1>4 DEF FlushIndex
  <2> QED BY <1>1, <1>2, <2>1, <2>2, EmptySeq
<1> QED BY <1>3, <1>4

-----------------------------------------------------------------------------
\* A new log satisfies the invariant.
LEMMA InitInv == Init => Inv
<1> SUFFICES ASSUME Init PROVE Inv
  OBVIOUS
<1>1. /\ <<>> \in Seq(Writes) /\ <<>> \in Seq(Nat) /\ Len(<<>>) = 0
  BY EmptySeq
<1>2. TypeOK
  BY <1>1, MaxBlockAssumption DEF Init, TypeOK
<1>3. Len(Log) = 0 /\ Len(Index) = 0 /\ Len(block_file) = 0
  BY <1>1, <1>2, StreamFacts DEF Init
<1>4. Shaped(Log) /\ Numbered(Index)
  BY <1>3 DEF Shaped, Numbered
<1> QED BY <1>1, <1>2, <1>3, <1>4, MaxBlockAssumption DEF Init, Inv

\* A process that dies leaves beginnings of both streams.
LEMMA CrashStep ==
  ASSUME Inv, Crash PROVE Inv'
<1>1. PICK i \in 0 .. Len(block_buf), j \in 0 .. Len(index_buf) :
        /\ block_file' = block_file \o SubSeq(block_buf, 1, i)
        /\ index_file' = index_file \o SubSeq(index_buf, 1, j)
  BY DEF Crash
<1>2. /\ block_buf' = <<>> /\ index_buf' = <<>> /\ pc' = "closed" /\ head' = 0
      /\ goal' = goal /\ flushed' = flushed /\ pc # "closed"
  BY DEF Crash
<1>3. /\ block_file \in Seq(Writes) /\ block_buf \in Seq(Writes)
      /\ index_file \in Seq(Nat) /\ index_buf \in Seq(Nat)
  BY DEF Inv, TypeOK
<1>4. /\ block_file' \in Seq(Writes)
      /\ Len(block_file') = Len(block_file) + i /\ Len(block_file') <= Len(Log)
      /\ \A k \in 1 .. Len(block_file') : block_file'[k] = Log[k]
  BY <1>1, <1>3, PrefixFacts DEF Log
<1>5. /\ index_file' \in Seq(Nat) /\ Len(index_file') <= Len(Index)
      /\ \A k \in 1 .. Len(index_file') : index_file'[k] = Index[k]
  BY <1>1, <1>3, PrefixFacts DEF Index
<1>6. Log' = block_file' /\ Index' = index_file'
  <2>1. Log' = block_file' \o <<>> /\ Index' = index_file' \o <<>>
    BY <1>2 DEF Log, Index
  <2> QED BY <1>4, <1>5, <2>1, ConcatEmptySeq
<1>7. Log \in Seq(Writes) /\ Index \in Seq(Nat) /\ Shaped(Log) /\ Numbered(Index)
  BY StreamFacts DEF Inv
<1>8. Shaped(Log') /\ Numbered(Index')
  BY <1>4, <1>5, <1>6, <1>7, PrefixShaped, PrefixNumbered
<1>9. TypeOK'
  BY <1>2, <1>4, <1>5, EmptySeq, MaxBlockAssumption DEF Inv, TypeOK
<1>10. 2 * flushed' <= Len(block_file') /\ Len(block_file') <= 2 * MaxBlock
  BY <1>2, <1>3, <1>4, MaxBlockAssumption DEF Inv, TypeOK
<1>11. Shaped(Log)' /\ Numbered(Index)'
  BY <1>8 DEF Shaped, Numbered, Data, Pos
<1> QED BY <1>2, <1>9, <1>10, <1>11 DEF Inv

\* The head block of a log that is not torn: the last write is its position.
LEMMA HeadFacts ==
  ASSUME Inv, pc = "closed", ~Torn, block_file # <<>>
  PROVE  \E k \in Nat : /\ Len(block_file) = 2 * k + 2
                        /\ Last(block_file).val = 2 * k
                        /\ block_file[Last(block_file).val + 1].val = k + 1
<1>1. block_file \in Seq(Writes) /\ Len(block_file) \in Nat \ {0}
  BY EmptySeq DEF Inv, TypeOK
<1>2. Shaped(block_file)
  <2>1. Log = block_file
    BY <1>1, ConcatEmptySeq DEF Log, Inv
  <2> QED BY <2>1 DEF Inv
<1>3. PICK k \in Nat : Len(block_file) = 2 * k + 1 \/ Len(block_file) = 2 * k + 2
  <2> DEFINE m == (Len(block_file) - 1) \div 2
  <2>1. m \in Nat /\ (Len(block_file) = 2 * m + 1 \/ Len(block_file) = 2 * m + 2)
    BY <1>1
  <2> QED BY <2>1
<1>4. Last(block_file) = block_file[Len(block_file)]
  BY DEF Last
<1>5. Len(block_file) # 2 * k + 1
  <2>1. Len(block_file) = 2 * k + 1 => block_file[2 * k + 1] = Data(k + 1)
    BY <1>2 DEF Shaped
  <2> QED BY <1>4, <2>1 DEF Torn, Data
<1>6. Len(block_file) = 2 * k + 2
  BY <1>3, <1>5
<1>7. block_file[2 * k + 1] = Data(k + 1) /\ block_file[2 * k + 2] = Pos(2 * k)
  BY <1>2, <1>6 DEF Shaped
<1>8. Last(block_file).val = 2 * k
  BY <1>4, <1>6, <1>7 DEF Pos
<1>9. block_file[Last(block_file).val + 1].val = k + 1
  BY <1>7, <1>8 DEF Data
<1> QED BY <1>6, <1>8, <1>9

\* What construct_index() writes: every position, or nothing for one block.
LEMMA ConstructFacts ==
  ASSUME Inv, pc = "closed", NEW k \in Nat, Len(block_file) = 2 * k + 2,
         Last(block_file).val = 2 * k
  PROVE  /\ ConstructIndex \in Seq(Nat) /\ Numbered(ConstructIndex)
         /\ \/ Len(ConstructIndex) = k + 1
            \/ Len(ConstructIndex) = 0 /\ k = 0
<1>1. block_file \in Seq(Writes)
  BY DEF Inv, TypeOK
<1>2. Shaped(block_file)
  <2>1. Log = block_file
    BY <1>1, ConcatEmptySeq DEF Log, Inv
  <2> QED BY <2>1 DEF Inv
<1>3. CASE k = 0
  <2>1. ConstructIndex = <<>>
    BY <1>3 DEF ConstructIndex
  <2>2. Len(<<>>) = 0 /\ <<>> \in Seq(Nat)
    BY EmptySeq
  <2> QED BY <1>3, <2>1, <2>2 DEF Numbered
<1>4. CASE k # 0
  <2> DEFINE c == [i \in 1 .. k + 1 |-> block_file[2 * i].val]
  <2>1. Len(block_file) \div 2 = k + 1
    OBVIOUS
  <2>2. ConstructIndex = c
    BY <1>4, <2>1 DEF ConstructIndex
  <2>3. \A i \in 1 .. k + 1 : block_file[2 * i].val = 2 * (i - 1)
    <3> TAKE i \in 1 .. k + 1
    <3>1. i - 1 \in Nat /\ 2 * (i - 1) + 2 = 2 * i /\ 2 * (i - 1) + 2 <= Len(block_file)
      OBVIOUS
    <3>2. block_file[2 * (i - 1) + 2] = Pos(2 * (i - 1))
      BY <1>2, <3>1 DEF Shaped
    <3> QED BY <3>1, <3>2 DEF Pos
  <2>4. k + 1 \in Nat /\ c \in [1 .. k + 1 -> Nat]
    BY <2>3
  <2>5. c \in Seq(Nat)
    BY <2>4, SeqDef
  <2>6. Len(c) = k + 1
    BY <2>4, <2>5, LenProperties
  <2>7. Numbered(c)
    BY <2>3, <2>6 DEF Numbered
  <2> QED BY <2>2, <2>5, <2>6, <2>7
<1> QED BY <1>3, <1>4

\* open(): the head and the index fit the block file.
LEMMA OpenStep ==
  ASSUME Inv, Open PROVE Inv'
<1>1. /\ pc = "closed" /\ ~Torn /\ pc' = "idle" /\ head = 0
      /\ block_file' = block_file /\ block_buf' = block_buf
      /\ goal' = goal /\ flushed' = flushed
      /\ block_buf = <<>> /\ index_buf = <<>>
  BY DEF Open, Inv
<1>2. /\ block_file \in Seq(Writes) /\ index_file \in Seq(Nat)
      /\ <<>> \in Seq(Nat) /\ Len(<<>>) = 0
  BY EmptySeq DEF Inv, TypeOK
<1>3. Log' = Log /\ Log = block_file
  <2>1. Log' = Log
    BY <1>1 DEF Log
  <2> QED BY <1>1, <1>2, <2>1, ConcatEmptySeq DEF Log
<1>4. Index = index_file
  BY <1>1, <1>2, ConcatEmptySeq DEF Index
<1>5. SUFFICES /\ head' \in 0 .. MaxBlock /\ Len(block_file) = 2 * head'
               /\ index_file' \in Seq(Nat) /\ index_buf' \in Seq(Nat)
               /\ Numbered(Index')
               /\ Len(Index') = head' \/ (Len(Index') = 0 /\ head' = 1)
  <2>1. TypeOK'
    BY <1>1, <1>5 DEF Inv, TypeOK
  <2>2. Shaped(Log)' /\ Numbered(Index)'
    BY <1>3, <1>5 DEF Inv, Shaped, Numbered, Data, Pos
  <2> QED BY <1>1, <1>3, <1>5, <2>1, <2>2 DEF Inv
<1>6. CASE block_file = <<>>
  <2>1. index_file' = <<>> /\ index_buf' = <<>> /\ head' = 0
    BY <1>1, <1>6 DEF Open
  <2>2. Index' = <<>>
    BY <1>2, <2>1, ConcatEmptySeq DEF Index
  <2> QED BY <1>2, <1>6, <2>1, <2>2, MaxBlockAssumption DEF Numbered
<1>7. CASE block_file # <<>>
  <2>1. PICK k \in Nat : /\ Len(block_file) = 2 * k + 2
                         /\ Last(block_file).val = 2 * k
                         /\ block_file[Last(block_file).val + 1].val = k + 1
    BY <1>1, <1>7, HeadFacts
  <2>2. head' = k + 1
    BY <1>7, <2>1 DEF Open
  <2>3. head' \in 0 .. MaxBlock /\ Len(block_file) = 2 * head'
    BY <2>1, <2>2, MaxBlockAssumption DEF Inv
  <2>4. CASE IndexIsCurrent
    <3>1. index_file' = index_file /\ index_buf' = index_buf
      BY <1>7, <2>4 DEF Open
    <3>2. Index' = Index
      BY <3>1 DEF Index
    <3>3. index_file # <<>> /\ index_file[Len(index_file)] = 2 * k
      BY <2>1, <2>4 DEF IndexIsCurrent, Last
    <3>4. Len(index_file) \in Nat \ {0}
      BY <1>2, <3>3, EmptySeq
    <3>5. index_file[Len(index_file)] = 2 * (Len(index_file) - 1)
      BY <1>4, <3>4 DEF Inv, Numbered
    <3>6. Len(index_file) = k + 1
      BY <3>3, <3>4, <3>5
    <3> QED BY <1>1, <1>2, <1>4, <2>2, <2>3, <3>1, <3>2, <3>6 DEF Inv
  <2>5. CASE ~IndexIsCurrent
    <3>1. index_file' = <<>> /\ index_buf' = ConstructIndex
      BY <1>7, <2>5 DEF Open
    <3>2. /\ ConstructIndex \in Seq(Nat) /\ Numbered(ConstructIndex)
          /\ \/ Len(ConstructIndex) = k + 1
             \/ Len(ConstructIndex) = 0 /\ k = 0
      BY <1>1, <2>1, ConstructFacts
    <3>3. Index' = ConstructIndex
      BY <3>1, <3>2, ConcatEmptySeq DEF Index
    <3> QED BY <1>2, <2>2, <2>3, <3>1, <3>2, <3>3
  <2> QED BY <2>4, <2>5
<1> QED BY <1>6, <1>7

\* A stream that grows by two entries, or by one.
LEMMA ConcatTwo ==
  ASSUME NEW S, NEW s \in Seq(S), NEW w \in Seq(S), Len(w) = 2
  PROVE  /\ s \o w \in Seq(S) /\ Len(s \o w) = Len(s) + 2
         /\ \A i \in 1 .. Len(s) : (s \o w)[i] = s[i]
         /\ (s \o w)[Len(s) + 1] = w[1] /\ (s \o w)[Len(s) + 2] = w[2]
<1> DEFINE c == s \o w
<1>1. /\ c \in Seq(S) /\ Len(c) = Len(s) + Len(w)
      /\ \A i \in 1 .. Len(s) + Len(w) :
           c[i] = IF i <= Len(s) THEN s[i] ELSE w[i - Len(s)]
  BY ConcatProperties
<1>2. Len(s) \in Nat
  OBVIOUS
<1> HIDE DEF c
<1>3. \A i \in 1 .. Len(s) : c[i] = s[i]
  BY <1>1, <1>2
<1>4. \A k \in 1 .. Len(w) : c[Len(s) + k] = w[k]
  <2> TAKE k \in 1 .. Len(w)
  <2> DEFINE i == Len(s) + k
  <2>1. i \in 1 .. Len(s) + Len(w) /\ ~(i <= Len(s)) /\ i - Len(s) = k
    BY <1>2
  <2> HIDE DEF i
  <2>2. c[i] = w[k]
    BY <1>1, <2>1
  <2> QED BY <2>2 DEF i
<1>5. c[Len(s) + 1] = w[1] /\ c[Len(s) + 2] = w[2]
  BY <1>4
<1> QED BY <1>1, <1>3, <1>5 DEF c

\* What is appended to the buffer of a stream is appended to the stream: one
\* entry, as append() does to the index,
LEMMA ConcatAppend ==
  ASSUME NEW S, NEW s \in Seq(S), NEW t \in Seq(S), NEW e \in S
  PROVE  s \o Append(t, e) = Append(s \o t, e)
<1>1. <<e>> \in Seq(S)
  OBVIOUS
<1>2. Append(t, e) = t \o <<e>>
  BY AppendIsConcat
<1>3. s \o t \in Seq(S)
  BY ConcatProperties
<1>4. Append(s \o t, e) = (s \o t) \o <<e>>
  BY <1>3, AppendIsConcat
<1>5. s \o (t \o <<e>>) = (s \o t) \o <<e>>
  BY <1>1, ConcatAssociative
<1> QED BY <1>2, <1>4, <1>5

\* and several, as it does to the block file.
LEMMA GrowStreams ==
  /\ \A s, t, u \in Seq(Writes) : s \o (t \o u) = (s \o t) \o u
  /\ \A s, t \in Seq(Nat), e \in Nat : s \o Append(t, e) = Append(s \o t, e)
<1>1. ASSUME NEW s \in Seq(Writes), NEW t \in Seq(Writes), NEW u \in Seq(Writes)
      PROVE  s \o (t \o u) = (s \o t) \o u
  BY ConcatAssociative
<1>2. ASSUME NEW s \in Seq(Nat), NEW t \in Seq(Nat), NEW e \in Nat
      PROVE  s \o Append(t, e) = Append(s \o t, e)
  BY ConcatAppend
<1> QED BY <1>1, <1>2, Zenon

\* append(): the next block and its position go to the end of both streams.
LEMMA AppendStep ==
  ASSUME Inv, AppendBlock PROVE Inv'
<1>1. /\ pc = "append" /\ head < goal /\ block_file' = block_file
      /\ index_file' = index_file /\ goal' = goal /\ flushed' = flushed
  BY DEF AppendBlock
<1>2. /\ block_file \in Seq(Writes) /\ block_buf \in Seq(Writes)
      /\ index_file \in Seq(Nat) /\ index_buf \in Seq(Nat)
      /\ head \in Nat /\ goal \in 0 .. MaxBlock /\ flushed \in 0 .. MaxBlock
  BY MaxBlockAssumption DEF Inv, TypeOK
<1>3. /\ Log \in Seq(Writes) /\ Len(Log) = Len(block_file) + Len(block_buf)
      /\ Index \in Seq(Nat) /\ Len(Index) = Len(index_file) + Len(index_buf)
      /\ Len(Log) = 2 * head /\ Shaped(Log) /\ Numbered(Index)
  BY <1>1, StreamFacts DEF Inv
<1>4. CASE Len(Index) # head
  <2>1. /\ pc' = "idle" /\ block_buf' = block_buf /\ index_buf' = index_buf
        /\ head' = head
    BY <1>4 DEF AppendBlock
  <2>2. Log' = Log /\ Index' = Index
    BY <1>1, <2>1 DEF Log, Index
  <2>3. TypeOK'
    BY <1>1, <2>1 DEF Inv, TypeOK
  <2> QED BY <1>1, <2>1, <2>2, <2>3 DEF Inv, Shaped, Numbered, Data, Pos
<1>5. CASE Len(Index) = head
  <2> DEFINE a == Data(head + 1)
             b == Pos(Len(Log))
             w == <<a, b>>
  <2>1. a \in Writes /\ b \in Writes
    BY <1>2, <1>3 DEF Data, Pos, Writes
  <2> HIDE DEF a, b
  <2>2. w \in Seq(Writes) /\ Len(w) = 2 /\ w[1] = a /\ w[2] = b
    BY <2>1
  <2> HIDE DEF w
  <2>3. /\ block_buf' = block_buf \o w
        /\ index_buf' = Append(index_buf, Len(Log)) /\ head' = head + 1
        /\ pc' = "append"
    BY <1>1, <1>5 DEF AppendBlock, w, a, b
  <2>4. block_buf' \in Seq(Writes) /\ index_buf' \in Seq(Nat)
    <3>1. block_buf \o w \in Seq(Writes)
      BY <1>2, <2>2, ConcatProperties
    <3>2. Len(Log) \in Nat
      BY <1>3
    <3>3. Append(index_buf, Len(Log)) \in Seq(Nat)
      BY <1>2, <3>2, AppendProperties
    <3> QED BY <2>3, <3>1, <3>3
  <2>5. Log' = Log \o w
    <3>1. Log' = block_file \o (block_buf \o w)
      BY <1>1, <2>3 DEF Log
    <3>2. block_file \o (block_buf \o w) = (block_file \o block_buf) \o w
      <4>1. block_file \in Seq(Writes) /\ block_buf \in Seq(Writes) /\ w \in Seq(Writes)
        BY <1>2, <2>2
      <4> QED BY <4>1, GrowStreams, Zenon
    <3> QED BY <3>1, <3>2 DEF Log
  <2>6. /\ Log' \in Seq(Writes) /\ Len(Log') = Len(Log) + 2
        /\ \A i \in 1 .. Len(Log) : Log'[i] = Log[i]
        /\ Log'[Len(Log) + 1] = a /\ Log'[Len(Log) + 2] = b
    BY <1>3, <2>2, <2>5, ConcatTwo
  <2>7. /\ Index' \in Seq(Nat) /\ Len(Index') = Len(Index) + 1
        /\ \A i \in 1 .. Len(Index) : Index'[i] = Index[i]
        /\ Index'[Len(Index) + 1] = Len(Log)
    <3>1. Len(Log) \in Nat
      BY <1>3
    <3>2. Index' = index_file \o Append(index_buf, Len(Log))
      BY <1>1, <2>3 DEF Index
    <3>3. index_file \o Append(index_buf, Len(Log)) = Append(Index, Len(Log))
      <4>1. index_file \in Seq(Nat) /\ index_buf \in Seq(Nat)
        BY <1>2
      <4> QED BY <3>1, <4>1, GrowStreams, Zenon DEF Index
    <3>4. Index' = Append(Index, Len(Log))
      BY <3>2, <3>3
    <3> DEFINE p == Len(Log)
               d == Append(Index, p)
    <3> HIDE DEF p
    <3>5. Index \in Seq(Nat) /\ p \in Nat
      BY <1>3, <3>1 DEF p
    <3>6. /\ d \in Seq(Nat) /\ Len(d) = Len(Index) + 1
          /\ \A i \in 1 .. Len(Index) : d[i] = Index[i]
          /\ d[Len(Index) + 1] = p
      BY <3>5, AppendProperties, SMTT(30)
    <3> HIDE DEF d
    <3>7. Index' = d
      BY <3>4 DEF d, p
    <3> QED BY <3>6, <3>7 DEF p
  <2>8. Shaped(Log')
    <3> SUFFICES ASSUME NEW k \in Nat
                 PROVE  /\ 2 * k + 1 <= Len(Log') => Log'[2 * k + 1] = Data(k + 1)
                        /\ 2 * k + 2 <= Len(Log') => Log'[2 * k + 2] = Pos(2 * k)
      BY DEF Shaped
    <3>1. CASE k < head
      <4>1. 2 * k + 1 \in 1 .. Len(Log) /\ 2 * k + 2 \in 1 .. Len(Log)
        BY <1>2, <1>3, <3>1
      <4> QED BY <1>3, <2>6, <4>1 DEF Shaped
    <3>2. CASE k = head
      BY <1>2, <1>3, <2>6, <3>2 DEF a, b
    <3>3. CASE k > head
      <4>1. Len(Log') = 2 * head + 2
        BY <1>3, <2>6
      <4> QED BY <1>2, <3>3, <4>1
    <3> QED BY <1>2, <3>1, <3>2, <3>3
  <2>9. Numbered(Index')
    <3> SUFFICES ASSUME NEW n \in 1 .. Len(Index')
                 PROVE  Index'[n] = 2 * (n - 1)
      BY DEF Numbered
    <3>1. CASE n <= Len(Index)
      BY <1>3, <2>7, <3>1 DEF Numbered
    <3>2. CASE n = Len(Index) + 1
      BY <1>2, <1>3, <1>5, <2>7, <3>2
    <3> QED BY <1>3, <2>7, <3>1, <3>2
  <2>10. TypeOK'
    BY <1>1, <1>2, <2>3, <2>4, MaxBlockAssumption DEF TypeOK
  <2>11. Shaped(Log)' /\ Numbered(Index)'
    BY <2>8, <2>9 DEF Shaped, Numbered, Data, Pos
  <2>12. Len(Log)' = 2 * head' /\ Len(Index)' = head' /\ head' <= goal'
    BY <1>1, <1>2, <1>3, <1>5, <2>3, <2>6, <2>7
  <2>13. 2 * flushed' <= Len(block_file)' /\ Len(block_file)' <= 2 * MaxBlock
    BY <1>1 DEF Inv
  <2> QED BY <2>3, <2>10, <2>11, <2>12, <2>13 DEF Inv
<1> QED BY <1>4, <1>5

\* flush(), reading and closing empty buffers and leave the streams alone.
LEMMA FlushStep ==
  ASSUME Inv, Flush \/ Close \/ \E n \in 1 .. MaxBlock + 1 : ReadBlockByNum(n)
  PROVE  Inv'
<1>1. /\ FlushIndex /\ pc # "closed" /\ goal' = goal
      /\ FlushBlocks \/ (block_file' = block_file /\ block_buf' = block_buf)
  BY DEF Flush, Close, ReadBlockByNum
<1>2. TypeOK /\ Shaped(Log) /\ Numbered(Index)
  BY DEF Inv
<1>3. /\ block_file \in Seq(Writes) /\ block_buf \in Seq(Writes)
      /\ Len(Log) = Len(block_file) + Len(block_buf)
      /\ head \in 0 .. MaxBlock /\ flushed \in 0 .. MaxBlock
  BY <1>2, StreamFacts DEF TypeOK
<1>4. /\ index_file' \in Seq(Nat) /\ index_buf' \in Seq(Nat) /\ Index' = Index
      /\ block_file' \in Seq(Writes) /\ block_buf' \in Seq(Writes) /\ Log' = Log
      /\ block_file' = Log \/ block_file' = block_file
  <2>1. CASE FlushBlocks
    BY <1>1, <1>2, <2>1, FlushKeepsStreams
  <2>2. CASE block_file' = block_file /\ block_buf' = block_buf
    <3>1. Log' = Log
      BY <2>2 DEF Log
    <3> QED BY <1>1, <1>2, <1>3, <2>2, <3>1, FlushKeepsStreams
  <2> QED BY <1>1, <2>1, <2>2
<1>5. Shaped(Log)' /\ Numbered(Index)'
  BY <1>2, <1>4 DEF Shaped, Numbered, Data, Pos
<1>6. /\ Len(Log) = 2 * head
      /\ Len(Index) = head \/ (Len(Index) = 0 /\ head = 1)
      /\ 2 * flushed <= Len(block_file) /\ Len(block_file) <= 2 * MaxBlock
  BY <1>1 DEF Inv
<1>7. Len(block_file) <= Len(block_file') /\ Len(block_file') <= 2 * MaxBlock
  BY <1>3, <1>4, <1>6, MaxBlockAssumption
<1>8. CASE Flush
  <2>1. /\ pc' = "idle" /\ flushed' = head /\ head' = head
        /\ block_file' = Log
    BY <1>8, <1>2, FlushKeepsStreams DEF Flush
  <2>2. TypeOK'
    BY <1>1, <1>3, <1>4, <2>1 DEF Inv, TypeOK
  <2>3. 2 * flushed' <= Len(block_file')
    BY <1>3, <1>6, <2>1, MaxBlockAssumption
  <2> QED BY <1>4, <1>5, <1>6, <1>7, <2>1, <2>2, <2>3 DEF Inv
<1>9. CASE Close
  <2>1. /\ pc' = "closed" /\ flushed' = flushed /\ head' = 0
        /\ block_buf' = <<>> /\ index_buf' = <<>>
    BY <1>9 DEF Close, FlushBlocks, FlushIndex
  <2>2. TypeOK'
    BY <1>1, <1>3, <1>4, <2>1, MaxBlockAssumption DEF Inv, TypeOK
  <2>3. 2 * flushed' <= Len(block_file')
    BY <1>3, <1>4, <1>6, <1>7, <2>1, MaxBlockAssumption
  <2> QED BY <1>5, <1>7, <2>1, <2>2, <2>3 DEF Inv
<1>10. CASE \E n \in 1 .. MaxBlock + 1 : ReadBlockByNum(n)
  <2>1. pc' = pc /\ flushed' = flushed /\ head' = head /\ pc = "idle"
    BY <1>10 DEF ReadBlockByNum
  <2>2. TypeOK'
    BY <1>1, <1>3, <1>4, <2>1 DEF Inv, TypeOK
  <2>3. 2 * flushed' <= Len(block_file')
    BY <1>3, <1>4, <1>6, <1>7, <2>1, MaxBlockAssumption
  <2> QED BY <1>4, <1>5, <1>6, <1>7, <2>1, <2>2, <2>3 DEF Inv
<1> QED BY <1>8, <1>9, <1>10

\* Every step preserves the invariant.
LEMMA NextInv == Inv /\ [Next]_vars => Inv'
<1> SUFFICES ASSUME Inv, [Next]_vars PROVE Inv'
  OBVIOUS
<1>1. ASSUME NEW lib \in 1 .. MaxBlock, StartAppend(lib) PROVE Inv'
  <2>1. /\ pc = "idle" /\ pc' = "append" /\ goal' = lib /\ lib > head
        /\ head' = head /\ flushed' = flushed
        /\ block_file' = block_file /\ block_buf' = block_buf
        /\ index_file' = index_file /\ index_buf' = index_buf
    BY <1>1 DEF StartAppend
  <2>2. Log' = Log /\ Index' = Index
    BY <2>1 DEF Log, Index
  <2>3. TypeOK' /\ head' <= goal'
    BY <2>1, MaxBlockAssumption DEF Inv, TypeOK
  <2> QED BY <2>1, <2>2, <2>3 DEF Inv, Shaped, Numbered, Data, Pos
<1>2. CASE UNCHANGED vars
  <2>1. Log' = Log /\ Index' = Index
    BY <1>2 DEF vars, Log, Index
  <2> QED BY <1>2, <2>1 DEF vars, Inv, TypeOK, Shaped, Numbered, Data, Pos
<1> QED BY <1>1, <1>2, OpenStep, AppendStep, FlushStep, CrashStep DEF Next

\* The invariant holds of every behaviour.
THEOREM Invariance == Spec => []Inv
BY InitInv, NextInv, PTL DEF Spec

\* Type correctness of the block log, for any number of blocks.
THEOREM TypeCorrect == Spec => []TypeOK
<1>1. Inv => TypeOK
  BY DEF Inv
<1> QED BY <1>1, Invariance, PTL

\* After any number of stops and restarts, read_block_by_num() follows an index
\* entry only to the block of that number.
THEOREM IndexAlways == Spec => []IndexLeadsToBlocks
<1>1. Inv => IndexLeadsToBlocks
  <2> SUFFICES ASSUME Inv, pc # "closed" PROVE IndexLeadsToBlocks
    BY DEF IndexLeadsToBlocks
  <2>1. /\ Log \in Seq(Writes) /\ Index \in Seq(Nat) /\ head \in Nat
        /\ Len(Log) = 2 * head /\ Shaped(Log) /\ Numbered(Index)
        /\ Len(Index) = head \/ (Len(Index) = 0 /\ head = 1)
    BY StreamFacts, MaxBlockAssumption DEF Inv, TypeOK
  <2>2. Len(Index) = 0 => Index = <<>>
    BY <2>1, EmptySeq
  <2>3. ASSUME NEW n \in 1 .. Len(Index) PROVE Log[Index[n] + 1] = Data(n)
    <3>1. Index[n] = 2 * (n - 1)
      BY <2>1 DEF Numbered
    <3>2. n - 1 \in Nat /\ 2 * (n - 1) + 1 <= Len(Log)
      BY <2>1
    <3>3. Log[2 * (n - 1) + 1] = Data(n - 1 + 1)
      BY <2>1, <3>2 DEF Shaped
    <3> QED BY <3>1, <3>2, <3>3
  <2> QED BY <2>1, <2>2, <2>3 DEF IndexLeadsToBlocks
<1> QED BY <1>1, Invariance, PTL

\* What flush() has returned for is in every log opened later.
THEOREM FlushedAlways == Spec => []FlushedSurvives
<1>1. Inv => FlushedSurvives
  <2> SUFFICES ASSUME Inv, pc # "closed" PROVE head >= flushed
    BY DEF FlushedSurvives
  <2>1. /\ block_file \in Seq(Writes) /\ block_buf \in Seq(Writes)
        /\ head \in Nat /\ flushed \in Nat
    BY MaxBlockAssumption DEF Inv, TypeOK
  <2>2. Len(Log) = Len(block_file) + Len(block_buf)
    BY StreamFacts DEF Inv
  <2>3. Len(Log) = 2 * head /\ 2 * flushed <= Len(block_file)
    BY DEF Inv
  <2> QED BY <2>1, <2>2, <2>3
<1> QED BY <1>1, Invariance, PTL
=============================================================================

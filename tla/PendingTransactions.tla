------------------------ MODULE PendingTransactions ------------------------
(***************************************************************************)
(* Pending transactions of chain::database: push_transaction() and the     *)
(* session it keeps on top of the head block, what push_block() does with  *)
(* that session and with the transactions of popped blocks, and the block  *)
(* production of the witness plugin.                                       *)
(*                                                                         *)
(* The state is represented by the transactions that led to it.  Whether   *)
(* the operations of a transaction succeed is given by the transactions it *)
(* needs in front of it and those it conflicts with.  push_block() and     *)
(* push_transaction() hold the write lock; a push is still several steps   *)
(* here, one per block that is popped or applied, with nothing in between. *)
(***************************************************************************)
EXTENDS Integers, Sequences, SequencesExt, FiniteSets

CONSTANTS
  Txs,          \* transactions
  Expiration,   \* signed_transaction::expiration
  RefBlock,     \* the block that ref_block_num and ref_block_prefix name, or NoBlock
  TxSize,       \* bytes of a transaction
  Needs,        \* what must have happened for a transaction to succeed
  Conflicts,    \* pairs of which only the first succeeds
  MaxTime,      \* bound: time of the last block, also the number of blocks
  MaxUntilExpiration, \* BMCHAIN_MAX_TIME_UNTIL_EXPIRATION
  HeaderSize,   \* bytes of a signed_block_header without a name and extensions
  Reserve,      \* bytes the budget of a block leaves for what is added later
  Extras,       \* bytes the witness's name, the extensions and the count may take
  MaxBlockSize, \* BMCHAIN_MAX_BLOCK_SIZE
  VotedSizes,   \* median votes of the witnesses for maximum_block_size
  MaxDelivered  \* bound: transactions in a block from the network

ASSUME TransactionsAssumption ==
  /\ IsFiniteSet(Txs)
  /\ Expiration \in [Txs -> Nat] /\ TxSize \in [Txs -> Nat]
  /\ MaxUntilExpiration \in Nat
  /\ Needs \in [Txs -> SUBSET Txs]
  /\ Conflicts \subseteq SUBSET Txs

\* Witnesses may only vote for sizes that hold a header many times.
ASSUME SizesAssumption ==
  /\ MaxTime \in Nat /\ MaxBlockSize \in Nat /\ VotedSizes \subseteq Nat
  /\ HeaderSize \in Nat /\ Reserve \in Nat /\ Extras \subseteq Nat /\ MaxDelivered \in Nat
  /\ \A m \in VotedSizes, x \in Extras : HeaderSize + x <= m

VARIABLES
  chain,    \* the blocks applied, each with its time and transactions
  pending,  \* _pending_tx
  session,  \* _pending_tx_session: is it valid, and what was applied in it
  popped,   \* _popped_tx
  moved,    \* pending_transactions_restorer::_pending_transactions
  old,      \* blocks popped by the push under way, oldest first
  new,      \* how many blocks it applied
  pc,       \* "idle", "push", "restore", "generate", "check", "clear"
  built,    \* _generate_block(): the block, or NoBlock
  extra,    \* the bytes its name, extensions and count take
  retry,    \* witness_plugin::maybe_produce_block()
  maximum   \* maximum_block_size

vars == <<chain, pending, session, popped, moved, old, new, pc, built, extra, retry, maximum>>

Blocks == [time : 1 .. MaxTime, txs : Seq(Txs)]
NoBlock == [time |-> 0, txs |-> <<>>]
NoSession == [valid |-> FALSE, txs |-> <<>>]

HeadTime(c) == IF c = <<>> THEN 0 ELSE Last(c).time

\* The transactions of the blocks of c, oldest first.
TxsOf(c) == FlattenSeq([i \in 1 .. Len(c) |-> c[i].txs])

\* The bytes of the transactions s.
Size(s) ==
  LET size[n \in 0 .. Len(s)] == IF n = 0 THEN 0 ELSE size[n - 1] + TxSize[s[n]]
  IN size[Len(s)]

\* pack_size() of a block with the transactions s and x bytes of the rest.
PackSize(s, x) == HeaderSize + x + Size(s)

-----------------------------------------------------------------------------
\* Mutant of Known: an entry is dropped one block too early.
KnownShort(c) ==
  LET known[n \in 0 .. Len(c)] ==
        IF n = 0 THEN {}
        ELSE {t \in known[n - 1] \cup ToSet(c[n].txs) : c[n].time + 1 < Expiration[t]}
  IN known[Len(c)]

\* transaction_index after the blocks of c: every block adds its transactions
\* and then drops what has expired.
Known(c) ==
  LET known[n \in 0 .. Len(c)] ==
        IF n = 0 THEN {}
        ELSE {t \in known[n - 1] \cup ToSet(c[n].txs) : c[n].time <= Expiration[t]}
  IN known[Len(c)]

\* _apply_transaction() succeeds on chain c after the transactions s.
CanApply(t, c, s) ==
  LET done == ToSet(TxsOf(c)) \cup ToSet(s)
  IN /\ t \notin Known(c) \cup ToSet(s)
     /\ c # <<>> => /\ RefBlock[t] \in ToSet(c) \cup {NoBlock}
                    /\ Expiration[t] <= HeadTime(c) + MaxUntilExpiration
                    /\ HeadTime(c) < Expiration[t]
     /\ Needs[t] \subseteq done
     /\ \A u \in done : {t, u} \notin Conflicts

\* Of the sequence txs, those that succeed one after the other.
Applied(c, txs) ==
  LET f[n \in 0 .. Len(txs)] ==
        IF n = 0 THEN <<>>
        ELSE IF CanApply(txs[n], c, f[n - 1]) THEN Append(f[n - 1], txs[n])
        ELSE f[n - 1]
  IN f[Len(txs)]

\* A block that apply_block() accepts on top of c, its size apart ...
ValidButSize(c, b) == b.time > HeadTime(c) /\ Applied(c, b.txs) = b.txs

\* ... and with its size, xs being what may come to header and transactions.
Valid(c, b, xs) == ValidButSize(c, b) /\ \E x \in xs : PackSize(b.txs, x) <= maximum

-----------------------------------------------------------------------------
\* Mutant of PushTransaction: queued before it is applied, though once only.
QueueFirst(t) ==
  /\ pc = "idle"
  /\ session' = [valid |-> TRUE,
                 txs |-> IF CanApply(t, chain, session.txs) THEN Append(session.txs, t)
                         ELSE session.txs]
  /\ pending' = IF t \in ToSet(pending) THEN pending ELSE Append(pending, t)
  /\ UNCHANGED <<chain, popped, moved, old, new, pc, built, extra, retry, maximum>>

\* push_transaction(): applied in a temporary session that is merged into the
\* pending session, or dropped when the transaction throws.
PushTransaction(t) ==
  LET ok == CanApply(t, chain, session.txs)
  IN /\ pc = "idle"
     /\ session' = [valid |-> TRUE,
                    txs |-> IF ok THEN Append(session.txs, t) ELSE session.txs]
     /\ pending' = IF ok THEN Append(pending, t) ELSE pending
     /\ UNCHANGED <<chain, popped, moved, old, new, pc, built, extra, retry, maximum>>

\* push_block() enters: the restorer takes the pending transactions away.
EnterPush ==
  /\ moved' = pending /\ pending' = <<>> /\ session' = NoSession
  /\ old' = <<>> /\ new' = 0 /\ pc' = "push"

\* A block from the network; the push is over when nothing came of it.
ReceiveBlock ==
  /\ pc = "idle"
  /\ EnterPush
  /\ UNCHANGED <<chain, popped, built, extra, retry, maximum>>

\* Mutant of PopBlock: the transactions are put behind those of later blocks.
PopBlockBehind ==
  /\ pc = "push" /\ built = NoBlock /\ new = 0 /\ Len(chain) > 1
  /\ popped' = popped \o Last(chain).txs
  /\ old' = <<Last(chain)>> \o old
  /\ chain' = Front(chain)
  /\ UNCHANGED <<pending, session, moved, new, pc, built, extra, retry, maximum>>

\* pop_block() on the way to the fork point.
PopBlock ==
  /\ pc = "push" /\ built = NoBlock /\ new = 0 /\ Len(chain) > 1
  /\ popped' = Last(chain).txs \o popped
  /\ old' = <<Last(chain)>> \o old
  /\ chain' = Front(chain)
  /\ UNCHANGED <<pending, session, moved, new, pc, built, extra, retry, maximum>>

\* apply_block() of the next block of the new branch, which is one block longer
\* than the old one, or of the block that was generated.
ApplyBlock(b) ==
  /\ pc = "push" /\ new <= Len(old)
  /\ built # NoBlock => b = built
  /\ Valid(chain, b, IF built = NoBlock THEN Extras ELSE {extra})
  /\ chain' = Append(chain, b) /\ new' = new + 1
  /\ pc' = IF new' > Len(old) THEN "restore" ELSE "push"
  /\ UNCHANGED <<pending, session, popped, moved, old, built, extra, retry, maximum>>

\* The next block is invalid, or a plugin throws: the new blocks are popped, the
\* old ones applied.
FailPush ==
  LET trunk == SubSeq(chain, 1, Len(chain) - new)
      gone == SubSeq(chain, Len(chain) - new + 1, Len(chain))
  IN /\ pc = "push" /\ new <= Len(old)
     /\ chain' = trunk \o old
     /\ popped' = TxsOf(gone) \o popped
     /\ pc' = "restore"
     /\ UNCHANGED <<pending, session, moved, old, new, built, extra, retry, maximum>>

\* Mutant of Restore: pushed back without being applied.
RestoreUnchecked ==
  LET kept == SelectSeq(moved, LAMBDA t : t \notin ToSet(TxsOf(chain)))
  IN /\ pc = "restore"
     /\ pending' = kept /\ session' = [valid |-> TRUE, txs |-> kept]
     /\ popped' = <<>> /\ moved' = <<>> /\ old' = <<>> /\ new' = 0
     /\ built' = NoBlock /\ extra' = 0 /\ retry' = 0 /\ pc' = "idle"
     /\ UNCHANGED <<chain, maximum>>

\* ~pending_transactions_restorer(): popped transactions first, then those that
\* were pending; the ones that are known or fail are dropped.  When the block
\* was generated here and failed, the exception goes on to the witness plugin.
Restore ==
  LET txs == popped \o moved
      kept == Applied(chain, txs)
      failed == built # NoBlock /\ new = 0
  IN /\ pc = "restore"
     /\ pending' = kept
     /\ session' = [valid |-> ToSet(txs) \ Known(chain) # {}, txs |-> kept]
     /\ popped' = <<>> /\ moved' = <<>> /\ old' = <<>> /\ new' = 0
     /\ built' = NoBlock /\ extra' = 0
     /\ retry' = IF failed THEN retry ELSE 0
     /\ pc' = IF failed THEN "clear" ELSE "idle"
     /\ UNCHANGED <<chain, maximum>>

-----------------------------------------------------------------------------
\* maybe_produce_block(): a slot of this node's witness has come.
StartProduction ==
  /\ pc = "idle" /\ HeadTime(chain) < MaxTime
  /\ pc' = "generate"
  /\ UNCHANGED <<chain, pending, session, popped, moved, old, new, built, extra, retry, maximum>>

\* Mutant of Fitting: transactions are taken as they were received.
FittingAsReceived(when) ==
  LET live == SelectSeq(pending, LAMBDA t : Expiration[t] >= when)
  IN IF PackSize(live, Reserve) < maximum THEN live ELSE <<>>

\* The transactions of a block at time when: pending, not expired, within the
\* budget, which knows neither the name nor the extensions of the header, and
\* applied again one after the other.
Fitting(when) ==
  LET f[n \in 0 .. Len(pending)] ==
        IF n = 0 THEN <<>>
        ELSE LET t == pending[n]
             IN IF /\ Expiration[t] >= when
                   /\ PackSize(f[n - 1], Reserve) + TxSize[t] < maximum
                   /\ CanApply(t, chain, f[n - 1])
                THEN Append(f[n - 1], t) ELSE f[n - 1]
  IN f[Len(pending)]

\* _generate_block() under the write lock: the pending session is dropped.  Name
\* and extensions are filled in after it.
BuildBlock(when) ==
  /\ pc = "generate" /\ when > HeadTime(chain)
  /\ built' = [time |-> when, txs |-> Fitting(when)]
  /\ extra' \in Extras
  /\ session' = NoSession /\ pc' = "check"
  /\ UNCHANGED <<chain, pending, popped, moved, old, new, retry, maximum>>

\* The size check after it, and the push.
CheckSize ==
  /\ pc = "check" /\ UNCHANGED <<chain, popped, maximum>>
  /\ \/ /\ PackSize(built.txs, extra) <= MaxBlockSize
        /\ EnterPush
        /\ UNCHANGED <<built, extra, retry>>
     \/ /\ PackSize(built.txs, extra) > MaxBlockSize
        /\ built' = NoBlock /\ extra' = 0 /\ pc' = "clear"
        /\ UNCHANGED <<pending, session, moved, old, new, retry>>

\* "Clearing pending transactions and attempting again"
ClearPending ==
  /\ pc = "clear"
  /\ pending' = <<>> /\ session' = NoSession
  /\ retry' = IF retry = 0 THEN 1 ELSE 0
  /\ pc' = IF retry = 0 THEN "generate" ELSE "idle"
  /\ UNCHANGED <<chain, popped, moved, old, new, built, extra, maximum>>

-----------------------------------------------------------------------------
Init ==
  /\ chain = <<>> /\ pending = <<>> /\ session = NoSession
  /\ popped = <<>> /\ moved = <<>> /\ old = <<>> /\ new = 0
  /\ pc = "idle" /\ built = NoBlock /\ extra = 0 /\ retry = 0
  /\ maximum \in VotedSizes

\* What the network delivers: at most MaxDelivered transactions, each once.
Delivered ==
  {b \in [time : 1 .. MaxTime, txs : SeqOf(Txs, MaxDelivered)] : IsInjective(b.txs)}

Next ==
  \/ \E t \in Txs : PushTransaction(t)
  \/ ReceiveBlock
  \/ PopBlock
  \/ \E b \in Delivered \cup {built} : ApplyBlock(b)
  \/ FailPush
  \/ Restore
  \/ StartProduction
  \/ \E when \in 1 .. MaxTime : BuildBlock(when)
  \/ CheckSize
  \/ ClearPending

Spec == Init /\ [][Next]_vars

\* What runs in the main thread is not abandoned.
Running ==
  \/ PopBlock
  \/ \E b \in Delivered \cup {built} : ApplyBlock(b)
  \/ FailPush \/ Restore \/ CheckSize \/ ClearPending
  \/ \E when \in 1 .. MaxTime : BuildBlock(when)

\* A push that ends with a longer chain.
Completes == \E b \in Delivered \cup {built} : ApplyBlock(b) /\ pc' = "restore"

\* The witnesses of the network go on making blocks, and not every push fails.
\* Nothing is assumed of this node's own witness.
Fairness == WF_vars(Running) /\ SF_vars(ReceiveBlock) /\ SF_vars(Completes)

FairSpec == Spec /\ Fairness

-----------------------------------------------------------------------------
\* Types; no transaction is pending twice.
TypeOK ==
  /\ chain \in Seq(Blocks) /\ old \in Seq(Blocks) /\ new \in 0 .. MaxTime
  /\ pending \in Seq(Txs) /\ IsInjective(pending)
  /\ popped \in Seq(Txs) /\ moved \in Seq(Txs)
  /\ session \in [valid : BOOLEAN, txs : Seq(Txs)]
  /\ pc \in {"idle", "push", "restore", "generate", "check", "clear"}
  /\ built \in Blocks \cup {NoBlock}
  /\ extra \in Extras \cup {0} /\ retry \in 0 .. 1 /\ maximum \in VotedSizes

\* "The invariant that _pending_tx_session is the result of applying
\* _pending_tx", which _generate_block() breaks for a while: whenever another
\* transaction or block can come in, the session holds exactly what is queued.
SessionIsPending ==
  pc = "idle" => /\ session.txs = pending
                 /\ pending # <<>> => session.valid

\* Every variable has its type, no transaction is queued twice, and between
\* calls the pending session is what the queue says.
QueueConsistent == TypeOK /\ SessionIsPending

\* No transaction is applied twice on one chain, although the list of known
\* transactions forgets the expired ones and is undone with popped blocks.
NoReplay == IsInjective(TxsOf(chain))

\* When push_block() gets the block that _generate_block() made, with pending
\* transactions postponed, expired or dropped between others that stay: nothing
\* but its size can be wrong with it, it is too large by less than what name,
\* extensions and count take beyond the four bytes reserved for them, and the
\* block of the second attempt, after the queue was cleared, is accepted.
GeneratedBlockIsValid ==
  pc = "push" /\ built # NoBlock /\ new = 0 =>
    /\ ValidButSize(chain, built)
    /\ PackSize(built.txs, Reserve) >= maximum => built.txs = <<>>
    /\ retry = 1 \/ extra <= Reserve => Valid(chain, built, {extra})

\* A push, of whatever outcome, loses no transaction that was pending or in a
\* popped block: it is in the chain, pending again, or can not be applied.
NothingLost ==
  [][pc = "restore" =>
       \A t \in ToSet(popped) \cup ToSet(moved) :
         \/ t \in ToSet(TxsOf(chain)) \cup ToSet(pending')
         \/ ~CanApply(t, chain, pending')]_vars

\* No transaction stays with this node for ever, queued, or in the hands of the
\* restorer while a block is pushed: block after block it may be postponed and
\* pushed again, but in the end it is included, or dropped because it can no
\* longer be applied.
NoneStaysPending ==
  \A t \in Txs :
    t \in ToSet(pending) ~> t \notin ToSet(pending) \cup ToSet(moved) \cup ToSet(popped)
=============================================================================

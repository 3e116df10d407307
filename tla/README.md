# TLA+ models of bmchain-core

bmchain-core is a delegated-proof-of-stake block chain node in C++ (a fork of
Steem). These modules model what consensus and the safety of a node rest on: the
in-memory tables with their undo history, shared with other processes; the tree
of competing blocks; the database that applies blocks, switches forks, declares
blocks irreversible and recovers after a stop; the files of irreversible blocks;
transactions that wait for a block and the production of blocks; the schedule of
witnesses and hardforks; the evaluators that move balances, stake, rewards,
tokens and authorities; and the protocol by which a node fetches blocks from its
peers.

Paths below are relative to `src/libraries/` unless they start with `src/`.

## 1. The system

| Part | State it keeps | Operations | Talks to |
|---|---|---|---|
| **chainbase table** `generic_index` (`chainbase/.../chainbase.hpp`) | objects by id, `_next_id`, `_revision`, a stack of undo states | `emplace`, `modify`, `remove`, `start_undo_session`, session `push/squash/undo`, `undo`, `undo_all`, `commit`, `set_revision` | called by `chainbase::database` |
| **chainbase database** (`chainbase/src/chainbase.cpp`) | the list of tables, a memory-mapped file, a ring of ten read-write locks | the same over all tables; `with_read_lock`, `with_write_lock`; `open`, `wipe`, `flush` | below `chain::database`; shared with read-only processes |
| **fork database** (`chain/fork_database.cpp`) | blocks above the last irreversible one, weak links to parents, `_head`, `_max_size` | `push_block`, `pop_block`, `start_block`, `set_head`, `remove`, `set_max_size`, `fetch_branch_from`, lookups by number | called by `chain::database` |
| **chain database** (`chain/database.cpp`) | head block, last irreversible block, everything consensus | `open`, `reindex`, `push_block`, `pop_block`, `apply_block`, `update_last_irreversible_block` | uses all the others; notifies plugins |
| **block log** (`chain/block_log.cpp`) | a file of blocks, a file of positions | `open`, `append`, `flush`, reads, `construct_index` | written by `update_last_irreversible_block`, read by `reindex` and `fetch_block_by_id` |
| **pending transactions** (`chain/database.cpp`, `db_with.hpp`) | `_pending_tx`, `_popped_tx`, `_pending_tx_session` | `push_transaction`, `clear_pending`, the restorer around `push_block`, `_generate_block` | nested sessions of the tables |
| **witness schedule** (`chain/witness_schedule.cpp`, slots in `database.cpp`) | shuffled witnesses, virtual time, `current_aslot` | `update_witness_schedule4`, `get_slot_time`, `get_slot_at_time`, `get_scheduled_witness` | decides who confirms blocks |
| **hardforks** | votes, next hardfork and its time | votes in block extensions, `process_hardforks` | may throw late in `apply_block` |
| **evaluators** (`chain/bmchain_evaluator.cpp`, `custom_token_evaluator.cpp`) | balances, vesting, votes, proxies, comments, escrows, tokens | one evaluator per operation; the timed steps of `_apply_block` | the tables |
| **protocol** (`protocol/`) | none | validation, authorities, serialization | everyone |
| **network** (`net/node.cpp`) | connections, ids to get from each peer, requests under way, blocks received and not yet handed over | message handlers, a loop that requests blocks, a task that hands them over, a loop that ends connections | calls the client (`application`) and waits for it |
| **application, APIs, plugins** (`app/`, `plugins/`) | subscriptions; tables of the plugins | `startup`, `handle_block`, API calls | the chain database |
| **wallet, client library, programs** | keys, options | client side | the API |

A block comes in from the network (`application_impl::handle_block`) or through
`broadcast_block`. `push_block()` takes the write lock, sets pending
transactions aside and hands the block to the fork database. When the fork
database's head builds on the state's head the block is applied in an undo
session. When it is higher and on another branch, blocks are popped (one
`undo()` each) down to where the branches join, and the other branch is applied
block by block; if one of its blocks fails, everything is popped again and the
old branch re-applied. Applying a block may move the last irreversible block:
`commit()` then drops the undo states up to it, the newly irreversible blocks
are looked up in the fork database and appended to the block log, and the fork
database is trimmed.

What is hard in this code:

* an undo state stores only the first change per id, and squashing two of them
  has to get every combination of created, changed and removed right;
* a fork switch is a long sequence of pops and applies with three different
  error paths, during which blocks become irreversible and the fork database's
  head disagrees with the state's;
* `undo()` silently does nothing when the history is used up, and the loop
  around it waits for it to do something;
* the state, the block log and the fork database are changed one after the
  other; only the first two survive a stop, which can come at any point;
* links between fork items are weak pointers whose lifetime depends on the
  index, the head and the locals of `_push_block()`;
* readers and writers in several processes share locks that time out, and each
  operation over all tables is a loop that a stop can cut off;
* the session of pending transactions is dropped and built again around every
  block, and the node's own block is made from it;
* virtual time of witnesses is unsigned arithmetic at the edge of its type;
* timed work at the end of a block walks indices that it changes itself, with
  several objects due at once, and money in flight sits in many tables;
* the network code is cooperative: a handler that waits for the client lets
  every other handler run, and continues with what it had read before.

What makes the parts correct: undo returns exactly to the saved state, at any
depth; the block log is the irreversible prefix of the chain; what is
irreversible is never undone; a failed push leaves no trace; the node follows
the longest valid chain; every push ends; after a stop the node comes back at
the last irreversible block with tables that agree; a reader sees one block in
all of them; transactions are neither lost nor applied twice, and a block made
by this node is valid; every round has a schedule, and nobody with votes is left
out for ever; supply, vests, votes, delegations and tokens add up and nothing
outlives its deadline; every block that is requested is owed by one peer, blocks
reach the client in order, and the node gets into sync.

## 2. Modules

| Module | Models | Lines of code behind it |
|---|---|---|
| `GenericIndex` | one chainbase table | `chainbase.hpp` 126-536 |
| `SnapshotStore` | abstract: a store that keeps whole copies | what chainbase promises |
| `GenericIndexProofs` | theorems about `GenericIndex` and its refinement of `SnapshotStore` | |
| `MCGenericIndex` | instances for TLC | |
| `ForkDatabase` | `fork_database` as a data type (no variables) | `fork_database.cpp/hpp` |
| `ChainDatabase` | `push_block`, fork switch, irreversibility, log, `open`, `reindex` | `database.cpp` 101-308, 494-625, 846-864, 2432-2625, 2800-2950; `application.cpp` 306-330, 467-540 |
| `ChainDatabaseProofs` | theorems about `ChainDatabase` and `ForkDatabase` | |
| `BlockLog` | the block file and its index, buffered, with stops | `block_log.cpp` |
| `BlockLogProofs` | theorems about `BlockLog` | |
| `PendingTransactions` | pending and popped transactions, `push_transaction`, the restorer around `push_block`, `_generate_block`, the production loop | `database.cpp` 505-845; `db_with.hpp`; `witness_plugin.cpp` |
| `PendingProofs` | theorems about `PendingTransactions` | |
| `WitnessSchedule` | slots, election, virtual time, missed slots, hardfork votes | `witness_schedule.cpp`; `database.cpp` 927-968, 1229-1249, 2591-2873, 3213-3290 |
| `ScheduleProofs` | theorems about `WitnessSchedule` | |
| `HeadBlock`, `Accounts` | what evaluators share: time, accounts, totals, votes | `database.cpp` 980-1330 |
| `Payments`, `Stake`, `Content`, `Tokens`, `AccountRecovery` | evaluators and the timed work of a block, by subject | `bmchain_evaluator.cpp`, `custom_token_evaluator.cpp`, `database.cpp`, `util/reward.cpp` |
| `Operations` | the evaluators together, in the order of `_apply_block` | `database.cpp` 2538-2620 |
| `OperationsProofs` | theorems about `Operations` | |
| `ReadWriteLocks` | the ring of locks in shared memory, with timeouts | `chainbase.hpp` 625-653, 924-973 |
| `SharedTables` | all tables together, each call a loop | `chainbase.cpp` 122-193 |
| `SharedMemory` | composes the two: a write process, read-only processes, stops | `database.cpp` 104-195; `application.cpp` 309-329 |
| `SharedMemoryProofs` | theorems about `SharedMemory`, with `ReadWriteLocks` and `SharedTables` | |
| `BlockSync` | the synchronization of blocks with peers | `net/node.cpp` 989-1084, 1316-1500, 2254-3067, 3069-3652; `application.cpp` 440-834 |
| `DataLemmas` | lemmas on induction, recursive functions, sequences, `Max` and `Min`, and sums over finite sets that the proofs share | |
| `MC...` | the instance of each for TLC | |

How they compose: `ChainDatabase` extends `ForkDatabase` and takes a table to be
the `SnapshotStore` that `GenericIndex` is shown to implement; so do the tables
of `SharedTables`, which `SharedMemory` puts under the locks of
`ReadWriteLocks`. `ChainDatabase` takes the block log to be a sequence, as far as
`BlockLog` shows that it is. `Operations` extends the five modules of evaluators,
all over the state of `Accounts`. `BlockSync` takes the client to be a node that
accepts a block that links and applies, and hands `ChainDatabase` the blocks that
it calls `Delivered`.

### GenericIndex

`indices`, `next_id`, `revision` and `stack` are the members of `generic_index`;
an object is a value from a small set (with `Unique`, its value is also its key
in a unique secondary index). `sessions` are the live session handles in the
order of their C++ scopes. `snaps` is a history variable: the table as it was
when each undo state was pushed. `failed` says that a `logic_error` left the
table half changed; nothing is claimed after that except types.

One action per operation: `Emplace`, `Modify`, `Remove` with the hooks
`OnCreate`, `OnModify`, `OnRemove`; `StartUndoSession`; `SessionPush`,
`SessionSquash`, `SessionUndo` for the three ways a handle ends; `Undo`,
`Commit(r)`, `SetRevision(r)`. `Merge` is the table of cases in the comment of
`squash()`, written by the three loops of the code. `Restore` is what the loops
of `undo()` leave; `PutBack` and `Clashes` follow the first loop id by id,
because with a unique key it may throw halfway.

Rejected calls that change nothing (an `emplace` that collides, a `remove` of an
unknown id) are not steps.

### ForkDatabase

A record `f` with the index, the head, `max_size`, the set of items whose weak
`prev` can still be locked (`linked`) and the items held by the branches of a
switch (`held`). `Prune` recomputes which links survive when an item dies. The
operations return a new record and keep the names of the methods. Left out: the
unlinked cache (`push_block` rethrows before it would insert into it) and the
invalid flag (no code sets it).

### ChainDatabase

`chain` is the sequence of blocks whose application produced the state, `depth`
the length of the undo stack above the committed part, `revision` chainbase's
revision, `log` the block log, `fork_db` the fork database. `GenericIndex` is
what justifies representing the state and its undo history this way: undo of one
level is exactly the state before the block.

`pc` is where the thread under the write lock stands and `job` its locals:

| Action | Code |
|---|---|
| `ReceiveBlock(b)` | `_push_block` until it pops, applies or returns |
| `PopUntilForkPoint` | one round of either pop loop: `pop_block`, `undo` |
| `ApplyBlock` | `apply_block` up to and including `commit` |
| `LogAndFinish` | appending to the log, `set_max_size`, hardforks and notifications, the end of the session; the catch blocks (`Failed`) |
| `Stop` | the process ends between any two of these |
| `Open`, `OpenFails`, `Reindex` | `database::open`, `application_impl::startup`, `database::reindex` block by block |

`env` fixes for a behaviour which blocks throw when they are applied and where
(`"early"`: before the last irreversible block is updated; `"late"`: after), and
which witnesses confirm. Both irreversibility rules are there: by distance
before `VotingStart`, by the witnesses' confirmations afterwards.

Stops are process deaths: what was written to the mapped file and the block log
survives. Power loss, where the operating system may lose or reorder writes, is
not modelled. Blocks that apply cleanly in one place apply cleanly everywhere
(application is deterministic). Checkpoints, skip flags and
`_flush_blocks` are left out: none changes what happens here with the default
options.

### BlockLog

`block_file` and `index_file` are what the two files hold, `block_buf` and
`index_buf` what has been written to the streams and is not in the files yet,
`head` the cached head block. A block is its number; the block file is a
sequence of writes, each block followed by its own position, and a position
counts the writes before the block. `goal` and `pc = "append"` are the loop of
`update_last_irreversible_block()` that calls `append()`; `flushed` is a history
variable. Switching a stream between reading and writing closes and reopens it,
which empties its buffer: `ReadBlockByNum` therefore flushes.

Actions: `Open` (with `ConstructIndex`), `StartAppend`, `AppendBlock` (with the
assertion that the index ends where the new entry belongs), `Flush`,
`ReadBlockByNum`, `Close` and `Crash`. A crash keeps any prefix of each buffer,
the two files independently of each other, but no half of a single write. A log
that ends with a block and no position (`Torn`) can not be opened.

`ChainDatabase` uses the log as a sequence of blocks that `append()` extends at
once; `FlushedSurvives` is the part of that which holds after a crash.

### PendingTransactions

The state of the chain is the transactions that led to it. Whether a transaction
applies is given by what it needs in front of it (`Needs`), what it excludes
(`Conflicts`), the block it names (`RefBlock`, TaPoS) and its expiration, which may
be neither past nor too far ahead. Transactions and headers have sizes: the budget
of a block starts from an empty header and `Reserve` (four bytes), while the name
of the witness, the extensions and the count of the transactions take `extra` bytes
that are known only when the block is packed. `pending`, `session`, `popped` and `moved` are
`_pending_tx`, `_pending_tx_session`, `_popped_tx` and the list inside the
restorer. A push is several steps: `ReceiveBlock`, `PopBlock`, `ApplyBlock` or
`FailPush`, and `Restore`, which is the destructor that pushes the popped and then
the pending transactions again. `StartProduction`, `BuildBlock`, `CheckSize` and
`ClearPending` are `maybe_produce_block()` and `_generate_block()`: the pending
session is dropped, the block is filled up to `maximum`, completed, pushed (and
refused by `_apply_block` when it has become too large), and after a failure
everything pending is cleared and the production tried once more.

### WitnessSchedule

A block is `BeginBlock` (header, the witness of the slot, its version and its
vote), any of the operations `UpdateWitness` and `AdjustWitnessVote`, and
`EndBlock` (missed slots, participation, schedule at the end of a round,
hardforks); `RefuseBlock` is a block that throws. Virtual times are integers up
to `Lap`, which is both the length of a lap and the largest value, as in the
code. Block numbers count modulo a round and slots modulo a cycle, so that
behaviours are infinite.

### The ledger: Accounts, Payments, Stake, Content, Tokens, AccountRecovery, Operations

`db` is a record of tables. An operator takes the tables before and returns the
tables after, so that an evaluator is a composition in the order of the source;
actions add the guards. `EndBlock` applies the work of `_apply_block` in its
order, with the time of the new block. Amounts are small integers; rates and
intervals are constants, and divisions round as in the code. A conversion that the
code refuses (a price with a zero in it, a result that does not fit) clears the
flag `ok`, and an operation or a block that ends without it is not applied, as when
an assertion throws; so does a witness with more votes than there are vests.
Accounts carry their id, which is the order in which several
of them are due.

Loops that walk an index that they change are recursive functions over one step
each: `WithdrawalWalk` with `WithdrawalVisit`, `EmissionWalk` with `EmissionVisit`,
`CashoutWalk` with `CashoutNext`, and `PayNext` for the curators of one post. A step
picks the next object in the order of the index, so that the walk visits what the
code visits. Where a loop only touches some tables, the operation takes those from
its result and changes the others outright (`ClosePosts`,
`ProcessDeclineVotingRights`).

Every behaviour starts from one of twenty scenarios: one or more families of
operations with accounts and tables in which they matter (transfers and burning,
escrow, the market, orders for content, encrypted content, savings and their routes,
votes and proxies, voting rights, delegation and new accounts, threads, payout
options, votes on posts, tokens, recovery). Inside a scenario any of its operations
may come at any time, with missed slots between blocks. Five scenarios have negative
amounts where neither `validate()` nor the evaluator looks at the sign (limit orders,
prices of content, withdrawals of savings): on the market, for orders for content,
for the answer to one, for savings with routes, and for an account that withdraws and
lends. Three are about the block that burns initminer's first vests: with payments,
with savings that share in the shrunk supply, and with votes and delegations.

Simplified: how much voting power a vote uses (a vote may weigh any amount up to
the voter's stake), `max_accepted_payout` and the curation percentage, edits of
comments, medians and prices, and mining, which is disabled.
`process_savings_reward()` computes with doubles; the model takes the exact quotient,
rounded towards zero, which differs by a unit at most and for amounts beyond 2^53
by their rounding. `Decayed` may go negative where the code's unsigned number would
wrap; no block of the runs comes so late.

An account of genesis has no recovery account: then whoever is top witness at the
moment may ask for a recovery, and the model lets any of `TopWitnesses` do so.

### ReadWriteLocks, SharedTables, SharedMemory

Locks live in the mapped file: a killed process keeps what it held. A reader that
times out gives up; a writer that times out moves everybody to the next lock of
the ring, which it constructs anew. `SharedTables` runs each call over all tables
as stages with the tables that are left; between two tables the process may be
killed. `SharedMemory` has the write process (`Start`, `AskToWrite`, `Wait`,
`Enter`, `Work`, `Leave`, `OpenSucceeds`, `Reindex`) and readers that read table
by table. A block changes the tables twice: `Half` of it goes in before the last
irreversible block is updated (and committed and logged), the rest (`Whole`) in the
stage `finish` afterwards: expired transactions, the schedule, funds, payouts,
withdrawals. With one scheduled witness the commit takes the session of the block
itself, so that neither `undo()` nor `undo_all()` takes back what `finish` has begun.
The history variable `damaged` marks a reindex that was cut off, and such a block
that failed or was cut off with its entry already in the log. `Torn` is all that is
wrong with the tables then; `open()` calls `validate_invariants()`, which may notice
some of it, so that a start with torn tables may succeed or fail.

### BlockSync

`conn[p]` is a `peer_connection`, `sent[p]` what the peer has been asked and has
not answered. `calls` are the calls that wait for the client's thread; a call
names the task it belongs to and what that task goes on with. The steps are the
stretches between two such calls:

| Action | Code |
|---|---|
| `FetchSyncItems` | a round of `fetch_sync_items_loop`, with `request_sync_items_from_peer` |
| `ProcessBacklog` | `process_backlog_of_sync_blocks`; `Drain` is its loop |
| `SendSyncBlock` | `send_sync_block_to_node_delegate`, from the client's answer on |
| `SendSynopsis` | `fetch_next_batch_of_item_ids_from_peer`, from the client's answer on |
| `ReceiveIds`, `HandleIds` | `on_blockchain_item_ids_inventory_message`, before and after the first call of the client |
| `ReceiveBlock` | `process_block_message` with its two cases |
| `HandleNormalBlock` | `process_block_during_normal_operation`, from the client's answer on |
| `ItemNotAvailable`, `PeerAsks`, `Advertise` | the handlers of those messages |
| `Connect`, `OnConnectionClosed`, `ConnectionCounted`, `TerminateInactive`, `TerminateStalled` | the beginning and the ends of connections; the last one waits for the client to count the connections before what was requested is given back |

Peers answer as this code does (`get_block_ids`), one stream each, in order. They
may gain blocks or change to a longer fork at any time. Simplified:
the calls of the client inside one handler are answered at one point (several
`has_item()` in a row, `get_block_time()` before a synopsis); the lowest block of
a synopsis is block 1; a second peer that advertises a block while it is being
fetched is not noted; `_most_recent_blocks_accepted` forgets nothing; a
connection is set up again only when tasks of the one before it have ended; the
number of connections is reported at every end of one (the code leaves it out when
the number is the same), and an inhibited peer that is level is closed at once, not
after the call of the client that follows. Left
out because it changes nothing here: blocks from the future, peers of an older
hardfork, an implausible number of blocks offered. `block_older_than_undo_history`
is never thrown by `handle_block()`, so that branch is dead.

## 3. Runs

| Run | Result | What it shows |
|---|---|---|
| `index_undo` | passes | a table with a unique key: `RollsBack`, `RecordsFit`, `SessionOwnsTop`, `RevisionsConsecutive`, the refinement `ImplementsStore`, and `ClashesOnlyWithinSession`: undo can only collide with an object that the same session created or re-keyed |
| `chain_crash` | passes | three branches in any order, one invalid block at most (early or late), stops anywhere outside reindex: `LogAgrees` (unless a block is delivered twice); `BetweenPushes`: the fork database holds what is still to be logged and a restart needs no reindex; `OpenResumesAtLog`; every push and restart ends (`PushEnds`) |
| `chain_forks` | passes | irreversibility by confirmations with a short undo history (also with one scheduled witness and a late fault), switches above the last irreversible block with up to two invalid blocks, and blocks delivered again: `IrreversibleStays`, `LogAgrees`, `LongestChain`, and `FailedPushRestores`: a push that fails leaves the chain it found, when neither branch's last irreversible block nor the log reaches above the fork point, the new branch is at most one longer and nothing is delivered twice |
| `chain_unwind` | violation of `FailedPushKeepsChain` | finding 1 |
| `log_crash` | passes | blocks appended in batches, reads in between, stops anywhere: an open log never leads to a wrong block, and no flushed block is lost |
| `pending` | passes | `QueueConsistent`: between calls the pending session is what the queue says; `NoReplay`, `NothingLost` through switches and failures; `GeneratedBlockIsValid`: only its size can be wrong with a block of this node's own, by what was added after the budget, and not at the second attempt; and `NoneStaysPending`: a transaction is not put back for ever |
| `schedule` | passes | `LapConsistent`: virtual time never wraps around by mistake; `ParticipationExact`, `HardforkBacked`, and `NoStarvation`: every witness with a key and a vote comes round |
| `schedule_halt` | violation of `EnoughWitnesses` | finding 2 |
| `operations` | passes | `TotalsExact` (the code's own `validate_invariants`, tokens, and delegations), `ContentExact`, `NothingOverdue`, `RecoverySafe`; `LedgerSound`: nothing is overdrawn but by what ends an order for a negative amount and by savings that pay for a shrunk supply; `StakeExact`: votes and delegations follow the vests but for the burn and for a delegator whose withdrawal is overdrawn. Each of these exceptions happens in the run |
| `order_edit` | violation of `SupplyConserved` | finding 3 |
| `memory` | passes | writer and readers killed at any step: `TablesConsistent` whenever the node is up and not damaged, `ReadsAgree`, and `WriterGetsIn` |
| `sync` | passes | one or two peers that grow, change forks, advertise, refuse, are cut off: `RequestsConsistent`; `OnlyBadPeersBlamed`: a sound peer is dropped for no block, and for an answer only when it is late; and `SyncFinishes`: the node gets into sync unless the backlog loop has missed the next block in one of three ways |

Each property of a passing run has a mutant: a version of one definition with a
plausible bug, kept next to the original, under which the run finds the
property violated.

### Bounds

* Tables: the undo records treat ids independently, so two ids suffice for the
  records and for ids that are freed and created again; three levels give a
  squash above a squash and a commit below one. Three keys for two ids let a
  key change hands and be free in between. The theorems below remove these
  bounds.
* Blocks: branches a2-a5 and b2-b5 fork at height 1, c3-c4 forks off b2. That
  gives switches in both directions and back again, a branch that shares
  an invalid block with another, and with `MaxWitnesses = 2` (21 in the code) a
  branch that is irreversible before the other one overtakes it. Five blocks
  are enough to log three. The settings with forks use `MaxWitnesses = 3`, so
  that the interesting switches stay above the last irreversible block.
* `VotingStart` is 9 (never reached) or 1 (always); the code uses 30 days of
  blocks. `MaxUndoHistory` 4 makes the "chain too long without an irreversible
  block" check fire; 10 keeps it out of the way. `DefaultSize = 8` stands for
  the fork database's initial 1024, larger than the tree as there.
* Block log: five blocks give batches of several blocks, each file cut at every
  point of a batch, and the rebuilt index of a log with none, one and more
  blocks. The theorems remove the bound.
* Pending: t2 needs t1 and may not come too early, t3 excludes t1, is twice as
  large, expires early and names a block that may be popped. A block of this node
  takes up to two units of transactions; what is added to its header (one byte,
  within the reserve, or four) makes it fit, too large for the voted maximum, or
  too large for `BMCHAIN_MAX_BLOCK_SIZE`.
  With three transactions one is always left over or in the way; six time units let
  all of them expire after blocks were popped and produced.
* Schedule: three witnesses for two places, one of them elected, so that one is
  always waiting. `Lap = 12` with votes up to 2 overflows every few rounds; the
  window of three slots and a gap of up to three make a missed stretch as long
  as the window; a day is one slot. Changes are limited to two per behaviour, and
  the scenarios take one source of change at a time (votes; keys and missed
  slots; votes for versions), because their product is too large.
* Operations: four blocks with gaps of up to two slots, amounts 1 and 2 (where the
  sign is not checked, in scenarios of their own, -5 and 1) against balances of a few
  units, percentages of 0 and 100, chains of four proxies where
  votes travel three. Intervals of one to two slots put request, effect and
  expiry in one behaviour, in the same block or around a missed one. `HighestBit`
  is 29, more than the shares of any vote have; the code's integers have 128 bits.
* Memory: two readers, a ring of two locks (so that it comes round after two
  timeouts), two tables and two blocks. One setting has four calls and two kills
  of the writer; the others have one call beside two reads, one call, one read and
  a kill, and three reads and a kill.
* Sync: b1-b5 and the fork c2-c3 with c3 invalid, batches of three ids, one
  block per request, with the client and prefetched, so that all limits are
  reached. Seven scenarios choose one or two peers, the blocks the node starts with
  and which events happen to whom; in the last one a peer that is level asks,
  grows and advertises while blocks of the other come in, so that its sync is
  restarted twice.
* No symmetry is used: blocks, witnesses, ids and accounts are not
  interchangeable.

Deadlock is checked in `chain_crash` and `pending`, where something can always
happen. The others end when a bound runs out, when everything was delivered, or,
in `log_crash` and `index_undo`, with a torn log or after a `logic_error`.

### Fairness

* `PushEnds`: weak fairness on the steps of the thread that runs `push_block()`,
  `open()` or `reindex()`. That thread holds the write lock and waits for nobody.
  Nothing is assumed of the network, and a stop is never obliged to happen.
* `NoneStaysPending`: weak fairness on the steps of a call that has begun (the
  thread is not abandoned), and strong fairness on `ReceiveBlock` and on a push that
  ends with a longer chain: the network goes on making blocks, and not every push
  fails. Nothing is assumed of this node's own witness, which may never have a slot.
  A transaction counts as gone only when it is neither queued nor in the hands of
  the restorer, so that emptying the queue around a push does not count.
* `NoStarvation`: none. It is stated under the premise that rounds go on ending.
* `WriterGetsIn`: weak fairness on the write process while it is alive. Nothing is
  assumed of readers, which may be killed while they hold a lock.
* `SyncFinishes`: weak fairness on the union of the tasks of the node and the
  client, the answers of peers, connections made again and closed, and the
  termination of stalled peers. The tasks of one thread run in turn, peers that
  do not answer are cut off by timers, and the connect loop tries again. It is
  claimed when all blocks apply, and unless the next block is one that the backlog
  loop has missed (`HeldUp`, see the observations). Any other lost trigger of the
  loop would violate it.

## 4. Findings

1. A longer branch that joins below the last irreversible block makes the loop
   at `chain/database.cpp:564` pop every reversible block and then throw outside
   the try block. The comment at `database.cpp:495` promises that every partial
   change is unwound. (`chain_unwind`)
2. `update_witness_schedule4()` asserts at `chain/witness_schedule.cpp:175` that
   all witnesses are scheduled when there are at most 21, while it skips those
   without a signing key. One that resigns, or is shut down for a day's absence
   (`database.cpp:2819`), makes every block at the end of a round fail that does
   not undo it. (`schedule_halt`)
3. `content_order_create` on an open order moves the buyer's balance by the
   difference of the prices in the wrong direction
   (`chain/bmchain_evaluator.cpp:2226`). The supply then differs from the sum
   that `validate_invariants()` asserts (`database.cpp:3395`). `EndBlock` and all
   other operations keep it. (`order_edit`)

### Observations without a run

Tables and files

* `undo()` restores old values before it erases the session's new objects
  (`chainbase.hpp:314`): a unique key that changed hands inside the session
  collides and throws.
* A stop between the write of a block and the write of its position leaves a log
  that can not be opened (`block_log.cpp:267`), and nothing cuts it back.
* `construct_index()` stops at the position of the head block
  (`block_log.cpp:299`), which is 0 in a log of one block: its index is rebuilt
  empty.
* A stop inside `reindex()` before the first block has changed the global
  properties (`database.cpp:185`) leaves a state that `open()` takes for a new
  chain; one inside `set_revision()` (`chainbase.hpp:747`) leaves tables with
  different revisions, of which only the first is checked.
* A reader that starts after the writer was killed may see half a block in the
  tables until the new writer has rewound it.
* `_apply_block()` goes on changing tables after `update_last_irreversible_block()`
  (`database.cpp:2594-2617`). When that has committed the session of the block
  itself (one scheduled witness), a stop or an exception there leaves half of the
  block in the tables; the log has it, and `open()` accepts the tables unless
  `validate_invariants()` notices.

Blocks

* After a refused block the fork database's head still points to it
  (`database.cpp:620`). If the next block delivered is one of the chain itself, it
  fails and is removed from the fork database, and no successor links any more;
  a sibling of the same number that is still there can be the one that is logged.
  With a single scheduled witness the block logged can be a refused one of the
  same number (`database.cpp:2940`).
* A failed switch leaves other children of the invalid block in the fork database
  (`database.cpp:585`); a block on top of them can become its head, and the node
  stays on a shorter valid chain until a higher valid block comes in. Hence
  `LongestChain` is only claimed without invalid blocks.
* With a one-witness schedule a block in the middle of a switch is irreversible
  while the fork database's head is not its descendant, so the lookup for the log
  can fail and with it the switch.

Evaluators

* The burn of initminer's first vests (`database.cpp:3230`) ignores its votes and
  delegations. With a supply that has shrunk `process_savings_reward()` (1803) takes
  from savings and may take more than there is.
* `validate()` of limit orders is empty (`bmchain_operations.cpp:360`), and prices of
  content are not checked for their sign: an order for a negative amount adds to the
  balance when it is made, and takes it back when it ends, whatever is left then.
* A withdrawal of savings of a negative amount is accepted
  (`bmchain_evaluator.cpp:1047`); with it, as with a withdrawal paid beyond its end,
  the vests that count as available for delegation (2096) are more than there are.
* The owner history keeps an authority while `until + period < now` is false
  (`database.cpp:1967`), a change of the recovery account applies when
  `effective_on <= now` (1977). In the one block where both hold with equality the
  replaced authority still counts, with the partner that the new owner has chosen.
* A block of this node's own that is filled to the limit can be too large once the
  witness's name, its version and its votes are in the header (724, 802-826), and is
  refused (2555). The production is tried again with an empty queue, so that
  the slot is kept and the transactions of this node are dropped.
* `by_schedule_time` of tokens puts the latest first (`custom_token_objects.hpp:128`):
  a token scheduled in the future keeps all others from being emitted.
* A withdrawal without a route stays due and is paid once or more in every block;
  `withdrawn` can exceed `to_withdraw`. The vests that may be delegated are
  computed with savings in them.
* The daily cap on emission is not applied in the block that begins a day. A
  canceled order for content can not be opened again.
* A vote changed after the payout subtracts from counters that were reset
  (`bmchain_evaluator.cpp:1487`). After a gap longer than 15 days the decay of
  `recent_claims` would fall below zero (`database.cpp:1620`).
* The check for proxy loops reads through a pointer that may not be set
  (`bmchain_evaluator.cpp:1160`); the model does what it intends. Owner
  history is not kept before block 3186477.

Network

* A block that was received can hold up the sync for good, in three ways. The backlog
  loop ends at a block that was accepted by the normal path meanwhile
  (`net/node.cpp:3373`), while its comment says that the list is walked again, and
  those behind it wait. A block that comes while the loop's task waits for the client
  (3370) loses its trigger (3397). And a block whose connection ends before the loop
  has run is listed again after a reconnect, is not asked for again because it is
  there (1048), and a list of ids does not start the loop.
* A sync that is restarted twice, by a block that was accepted from another peer
  (3241) or a peer's own request, and by an advertised block that does not link,
  sends two synopses. The answer to the first is checked against the second (2529),
  and when it does not start at one of its blocks, a peer that has done nothing wrong
  is disconnected.
* `item_not_available` leaves the block in `_active_sync_requests` (2860).
  `get_item()` asserts where `key_not_found_exception` is expected (2804).
* The loop over peers that are to be disconnected ends at the first one that makes
  no progress in sync (1399), and keeps it. The check for stalled peers does not
  see that a block is with the client (1438).

## 5. Proofs

Every theorem holds for all values of the constants that satisfy the named
assumptions of the modules; the bounds of section 3 do not limit it.

| Theorem | Statement |
|---|---|
| `GenericIndexProofs` | any ids, values, depth, with and without a unique key |
| &nbsp; `TypeCorrect` | `Spec => []TypeOK` |
| &nbsp; `RollsBackAlways` | `Spec => []RollsBack` |
| &nbsp; `RecordsFitAlways` | `Spec => []RecordsFit` (from `SquashCasesAlways` and `UndoFindsObjectsAlways`) |
| &nbsp; `RevisionsAlways` | `Spec => []RevisionsConsecutive` |
| &nbsp; `SessionOwnsTopAlways` | `Spec => []SessionOwnsTop` |
| &nbsp; `ClashesOnlyWithinSessionAlways` | `Spec => []ClashesOnlyWithinSession` |
| &nbsp; `Refinement` | `Spec => ImplementsStore` |
| `BlockLogProofs` | any number of blocks and crashes |
| &nbsp; `TypeCorrect` | `Spec => []TypeOK` |
| &nbsp; `IndexAlways` | `Spec => []IndexLeadsToBlocks` |
| &nbsp; `FlushedAlways` | `Spec => []FlushedSurvives` |
| `ChainDatabaseProofs` | any tree of blocks, witnesses, environment |
| &nbsp; `Types` | `Spec => []TypeOK` |
| &nbsp; `CommittedBlocksStay` | `Spec => IrreversibleStays` |
| &nbsp; `LogOnlyGrows` | every step leaves the log or extends it |
| `PendingProofs` | any transactions, needs, conflicts, times |
| &nbsp; `QueueIsConsistent` | `Spec => []QueueConsistent` |
| &nbsp; `NothingReplayed` | `Spec => []NoReplay` |
| &nbsp; `GeneratedBlocksAreValid` | `Spec => []GeneratedBlockIsValid` |
| &nbsp; `RestoreLosesNothing` | `Spec => NothingLost` |
| `ScheduleProofs` | any witnesses, votes, lap, window, versions |
| &nbsp; `ParticipationIsExact` | `Spec => []ParticipationExact` |
| &nbsp; `LapIsConsistent` | `Spec => []LapConsistent` |
| &nbsp; `HardforksAreBacked` | `Spec => HardforkBacked` |
| `SharedMemoryProofs` | any readers, locks, tables, blocks |
| &nbsp; `TablesStayConsistent` | `Spec => []TablesConsistent` |
| &nbsp; `ReadersAgree` | `Spec => []ReadsAgree` |
| `OperationsProofs` | any accounts, tables, periods, scenarios |
| &nbsp; `RecoveryIsSafe` | `Spec => []RecoverySafe` |
| &nbsp; `NothingIsOverdue` | `Spec => []NothingOverdue` |
| &nbsp; `TotalsAreExact` | `Spec => []TotalsExact` |

Assumptions: bounds, sizes and periods are natural numbers (not zero where the
code divides by them, or where the code's constant is a length of time that has
to pass), sets over which something is counted are finite, blocks form a tree
with consecutive numbers, and model values that mean "none" are not members of the
sets they are added to. Fees and amounts are integers, delegated amounts are not
negative (`validate()` refuses those; other amounts may be), and the symbols of tokens are a finite set. `ScenariosAssumption` says that the tables a behaviour of the ledger
starts with are in order (dates are dates, amounts are numbers, and what names an
account names one that exists), that they add up, and that nothing is overdue. It
is the induction hypothesis at genesis; TLC evaluates it for all twenty scenarios.

### The arguments

**GenericIndex.** `RollsBack` is not inductive: a creation at `next_id` is undone
correctly only because nothing at or above `next_id` is in the table or in any
snapshot, and merging two undo states is right only because an id removed below
is not mentioned above. `LevelOK(u, pre, post)` says id by id how an undo state
relates the table below it to the table above it; `Fresh` says that ids not yet
handed out hold nothing. The inductive invariant is

    Inv == TypeOK /\ Revisions /\ (~failed => Levels)

where `Levels` is `LevelOK` at every level and `Fresh` of every table. Each hook
preserves `LevelOK` of the top level (`CreateLevel`, `ModifyLevel`,
`RemoveLevel`); a new session starts with an identity level; undo drops one;
commit drops the oldest; and `MergeLevel` is the heart: squash composes two
levels into one. `RollsBack`, `SquashCases` and `UndoFindsObjects` follow
from `Levels`. For the refinement the table maps to `cur` and `snaps` to
`saved`; undo maps to a rollback because of `RollsBack`, and an undo that throws on
a clash maps to a write, which the store allows. `SessionOwnsTop` needs that the
handles alive are, from the innermost outwards, the revisions from the top of the
stack down (`Aligned`). `ClashesOnlyWithinSession` needs that no two objects of the
table or of any snapshot have one key (`Distinct`), which every operation that is
not refused keeps.

**BlockLog.** `IndexLeadsToBlocks` says nothing of a closed log, where the two
files may have been cut at different places, so it is not inductive. The invariant
says what a crash can not destroy: the block stream is `Shaped` (block, position,
block, position, with the right values at every place) and the index stream
`Numbered` (entry n is the position of block n). Both are inherited by every prefix
(`PrefixShaped`, `PrefixNumbered`), hence by what a crash leaves (`CrashStep`).
With them, `HeadFacts` shows that `open()` finds the right head, and
`ConstructFacts` that a rebuilt index is numbered; and if the last entries of both
files agree, the index has the length of the log. While the log is open the
invariant adds that the stream has two writes per block, and throughout that the
file holds at least the flushed ones.

**ChainDatabase.** The types are where the work is. `pop_block()` moves the head of
the fork database to a block only because an item whose `prev` can be locked has
its predecessor alive (`ForkOK`), through every insertion, removal and pruning and
with the branches that a switch holds. A branch consists of blocks only because the
two walks along `prev` that found where it ends met no empty pointer (`BranchOK`),
and the position in it stays inside (`JobOK`). `undo()` lowers the revision only
because the undo depth is never above it (`StateOK`). What is sized by the last
irreversible block needs that `nth_element` finds one that is not above the head
(`LibOK`). From the invariant each action gives `IrreversibleStays`: an undo
removes only what lies above the committed part, which only a wipe makes shorter.

**PendingTransactions.** That no transaction is replayed and none is lost depends
on how every block and queue came about. The invariant says of the chain, and of
the one that a failed push goes back to, that each block was applicable when it was
applied and later than the one before (`GoodChain`); of the queue that each
transaction was applied on top of those in front of it (`Applicable`, with
`SessionIsPending`); and of what was popped and moved that it stays in an order in
which each finds what it needs in front of it (`InOrder`). `NoReplay` follows
because what the index of known transactions has forgotten has expired at every
later block. `GeneratedBlockIsValid` needs that dropping a transaction from the
middle leaves those behind it that do not need it applicable (`BuiltInv`), and for
the size that the budget has room for all that was taken in, or nothing was.

**WitnessSchedule.** Virtual time is a number that overflows. `OneLap` bounds what
a witness will have run when its scheduled time comes, not only what it has run by
now; then neither a change of votes nor an election moves virtual time past a
witness, and the differences never wrap. When the sum overflows, all are reset
together. For hardforks the invariant says what was read from which schedule.

**SharedMemory.** While a loop over the tables runs, the tables that it has not
reached have one content and the others the result of its stage for that content
(`Halfway`); `Place` names the stages. A stop leaves tables that `undo_all()` takes
back to one content, or a first table that was committed beyond the log, which
`open()` refuses (`Recoverable`); a block that is committed and logged before it is
whole is the case that `damaged` stands for. For readers `LocksOK` counts the holders of each
lock of the ring: a writer is inside only when everyone who holds its lock had been
forgotten by a timeout, so that an undisturbed reader finds the tables as they were
when it began (`SeenOK`).

**Operations.** `RecoveryWindow` is about the partner in force and not inductive:
a change that waits will replace it. `Covered` adds that such a change names a
partner the loser had asked for, or takes effect no earlier than the last instant
of the window. For
`NothingOverdue`, `DeadlinesOK` adds that dates are numbers and the tables are all
there. Each operation leaves the tables with deadlines alone or adds an entry whose
deadline is in the future; of the work of a block each step clears its own table
(`OrdersCleared`, `EscrowsExpired`, `DelegationsCleared`, `RightsEnded`,
`CommentsPaid`) and leaves the others, so that their order does not matter for this.

`TotalsExact` is what `validate_invariants()` asserts: the supply is what accounts,
orders, escrows, content orders, the reward fund and the vesting fund hold, the
vesting shares are those of the accounts, what waits to be claimed is what they may
claim, and the supply of a token is its fund and its holders'; and, in the same
spirit, that what an account has delegated is what it lent and waits to get back and
what it received is what it borrowed. The inductive invariant is `Exact /\ Owed(db)`
with

    Exact == Amounted(db) /\ SupplyExact(db) /\ VestsExact(db) /\ TokensExact(db)
             /\ time \in Int /\ num \in Int
    Owed(d) == Lending(d) /\ LoansExact(d)

`Amounted` says of every table that its amounts are numbers and that its objects
name accounts that exist; a payment to an account that is not there would change no
sum. It also holds what two steps depend on: an escrow that both have approved has
no fee left in it (or the fee would be paid twice when it is released), and an
account whose rate is zero is never due (the walk divides by the rate).

Inside an operation nothing adds up: a balance is lowered first and an order is
opened afterwards, an emission raises the supply and pays it out in five places. So
the proofs are about the gaps between a total and its sum (`BmtGap`, `VestGap`,
`ShareGap`, `PromiseGap`), and `Moves(d, e, x)` says that from `d` to `e` the gap in
BMT grew by `x` and the others stayed. One lemma per helper of the source says what
it moves (`AdjustBalance` by minus the amount, `CreateVesting` by nothing, ...);
they compose by addition, in the order of the source, and an operation is right when
the sum is zero (`StillBalanced`). The rounding of a conversion never enters: what
matters is that the number taken out of one place is the number put into another,
and what the loop over curators leaves goes to the author or back to the fund
whatever the division gave. The walks over due withdrawals, tokens, comments and
curators carry the same statement through every step by induction over its number
(`WithdrawalWalkMoves`, `EmissionWalkEmits`, `CuratorsMove`, `CashoutWalkMoves`);
nothing is needed about how many steps there are. For tokens, `Held` is the sum over
the holders of one symbol, and what a token's step does to one symbol leaves the
others.

Delegations are counted account by account. `NoLoans(d, e)` is the frame: from `d` to
`e` no account's debts change, nor do the two tables. It holds of every operation but
delegating and creating accounts and of all work of a block but the return of
delegations, and it composes (`NoLoansTwice`). A delegation that comes, goes or
changes alters what one account lent and another borrowed by as much
(`DelegationChanges`, from `SharesDiffer`); one that shrinks adds the rest to what is
on its way back, so that the delegator's sum stays (`LoanReduced`, which needs that
`validate()` admits no negative amount: `Shares` are natural numbers). A new name
occurs in neither table, because `Lending` says that those who do exist
(`NewNameOwed`). When a block clears what is due, the walk along the sequence keeps
for each account exactly what is not due (`ReturnsKept`, by induction).

The theorem is about `Next`. The edit of an open content order is not among its
operations: it is the one that breaks the sum (finding 3).

**DataLemmas.** The recursive functions of the models compute what they should for
every input: the library's induction theorems can not be used (their predicates are
parameters), but its theorem that a well-founded relation has minimal elements can.
From it follow induction over an interval for a set in place of a predicate
(`IntervalInduction`) and the existence of functions defined by recursion
(`RecursiveFunction`), which is how `TxsOf`, `Known` and `StillExpiring` are handled.
Sums rest on the same: `SumFunction` of the community modules is a choice-based
iteration, `SumsExist` shows that there is exactly one function from the subsets of
a finite set that adds one element at a time in any order, and `SumFacts` that the
library's operator is it. From there follow by induction over finite sets
(`SetInduction`) that sums of equal, added and disjoint functions are what one
expects (`SumsAgree`, `SumsAdd`, `SumsUnion`), that changing one entry changes the
sum by the difference (`SumsDiffer`), and summation by groups (`SumsByGroup`).

### Only model-checked

* All liveness (`PushEnds`, `NoneStaysPending`, `NoStarvation`, `WriterGetsIn`,
  `SyncFinishes`), which is out of the prover's reach.
* `LogAgrees`, `BetweenPushes`, `LongestChain`, `FailedPushRestores` and
  `OpenResumesAtLog`: they hold only for some environments (see the observations
  about blocks), and the invariant would have to describe which fork items can be
  left behind by every sequence of failures.
* `LedgerSound`, `StakeExact`, `ContentExact`. They say by which steps alone a balance
  becomes negative and votes or delegations stop to follow the vests; that the funds
  cover their payouts rests on roundings of shares of one snapshot, and that weights
  stay in their range on the approximate square root being monotone. The votes of a
  witness are a sum along chains of proxies, and the reply counters one along
  ancestors, whose invariants are inductions over the shape of a forest.
* `BlockSync`, whose backlog loop (`Drain`) is a recursive operator; a module with
  one can not hold theorems.

## 6. Plan

1. **ChainDatabase.** `LogAgrees` without redelivery, under the distance rule.
2. **BlockSync.** `Drain` as a recursive function, then `RequestsConsistent`.

Not modelled, and why:

* Protocol types, serialization, signatures and authorities: pure functions of
  their input (`sign_state` walks authorities to a bounded depth); no state, no
  order of steps. The models take a signed, well-formed transaction as given.
* The query APIs (`database_api`, `condenser_api` and the other API plugins) read
  the tables under the read lock, which `SharedMemory` models, and change nothing.
* The wallet and the client library: a command line around one connection.
* The plugins for follow lists, tags, account history and statistics build tables
  of their own from notifications, inside the sessions that `GenericIndex` and
  `ChainDatabase` model; no consensus state depends on them.
* The rest of the network: handshake, address book, bandwidth limits, inventory
  of transactions. Of the inventory only what races with sync is modelled.
* Utilities, manifests, schema generation and programs. The word list
  `utilities/words.cpp` alone is nearly half of all lines of the repository.
* Of the evaluators: comment edits, voting power, medians of witness properties,
  and mining: `pow` does nothing and `pow2` always fails ("mining is now disabled").

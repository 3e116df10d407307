--------------------------- MODULE ChainDatabase ---------------------------
(***************************************************************************)
(* chain::database as the keeper of the block chain: push_block() with its *)
(* fork switch, the undo history behind it, the last irreversible block,   *)
(* the block log, and what open() and reindex() make of them after a stop. *)
(*                                                                         *)
(* The state that blocks are applied to is represented by the sequence of  *)
(* blocks that produced it (chain).  Its undo history covers the newest    *)
(* `depth` blocks; commit() shortens it and undo() does nothing when it is *)
(* empty.  push_block() runs under the write lock, one step per block      *)
(* popped, applied or logged, and the process may stop between any two of  *)
(* them: chain, depth, revision and log survive, the fork database does    *)
(* not.                                                                    *)
(*                                                                         *)
(* fault says where applying a block throws, if anywhere: "early" in the   *)
(* header, size or transaction checks, "late" after the last irreversible  *)
(* block was updated (process_hardforks(), a plugin).  The schedule of     *)
(* witnesses that confirm blocks does not change within a behaviour.       *)
(***************************************************************************)
EXTENDS ForkDatabase

CONSTANTS
  Witnesses,       \* the witnesses
  Wit,             \* signed_block::witness
  Threshold,       \* BMCHAIN_IRREVERSIBLE_THRESHOLD, in percent
  Environments     \* the environments to consider

\* What is fixed for a behaviour: where blocks throw, who confirms blocks, three
\* limits of the configuration, when the process may stop, and how blocks arrive.
Environment ==
  [fault : [Blocks -> {"none", "early", "late"}],
   scheduled : (SUBSET Witnesses) \ {{}},   \* current_shuffled_witnesses
   max_witnesses : Nat,   \* BMCHAIN_MAX_WITNESSES
   voting_start : Nat,    \* BMCHAIN_START_MINER_VOTING_BLOCK
   max_undo : Nat,        \* BMCHAIN_MAX_UNDO_HISTORY
   stops_at : SUBSET {"idle", "pop", "apply", "log", "reindex"},
   in_order : BOOLEAN,    \* are blocks delivered after their predecessors?
   again : BOOLEAN]       \* may a block that is known be delivered again?

ASSUME ChainAssumption ==
  /\ IsFiniteSet(Witnesses)
  /\ Wit \in [Blocks -> Witnesses]
  /\ Threshold \in 1 .. 100
  /\ \A e \in Environments : e \in Environment

VARIABLES
  chain,     \* the blocks applied to the state, oldest first
  depth,     \* length of the undo stack
  revision,  \* chainbase revision
  log,       \* the block log
  fork_db,   \* _fork_db
  pc,        \* "idle", "pop", "apply", "log", "down", "reindex"
  job,       \* the push_block() under way
  result,    \* how the last push_block() ended
  env        \* the environment of this behaviour; never changes

vars == <<chain, depth, revision, log, fork_db, pc, job, result, env>>

fault == env.fault
scheduled == env.scheduled

HeadId == IF chain = <<>> THEN Genesis ELSE Last(chain)

-----------------------------------------------------------------------------
\* The last irreversible block number of the state reached by chain c.

\* witness_object::last_confirmed_block_num
LastConfirmed(c, w) == Max({0} \cup {i \in 1 .. Len(c) : Wit[c[i]] = w})

Offset == ((100 - Threshold) * Cardinality(scheduled)) \div 100

\* nth_element: the value at position Offset of the sorted confirmations.
Confirmed(c) ==
  CHOOSE v \in 0 .. Len(c) :
    /\ Cardinality({w \in scheduled : LastConfirmed(c, w) < v}) <= Offset
    /\ Cardinality({w \in scheduled : LastConfirmed(c, w) <= v}) > Offset

\* update_last_irreversible_block(), replayed over the blocks of c.
Lib(c) ==
  LET lib[n \in 0 .. Len(c)] ==
        IF n = 0 THEN 0
        ELSE IF n < env.voting_start
        THEN IF n > env.max_witnesses THEN n - env.max_witnesses ELSE lib[n - 1]
        ELSE Max({lib[n - 1], Confirmed(SubSeq(c, 1, n))})
  IN lib[Len(c)]

-----------------------------------------------------------------------------
\* The locals of _push_block(): branches.first and .second oldest first, the
\* position in the branch being applied, and the chain before the call.
NoJob == [mode |-> "none", new |-> None, first |-> <<>>, second |-> <<>>,
          pos |-> 1, before |-> <<>>]

Job(mode, b, first, second) ==
  [mode |-> mode, new |-> b, first |-> first, second |-> second, pos |-> 1,
   before |-> chain]

\* The block being applied, and the block both branches build on.
Cur == CASE job.mode = "direct" -> job.new
         [] job.mode = "switch" -> job.first[job.pos]
         [] job.mode = "restore" -> job.second[job.pos]

ForkPoint == Prev[job.second[1]]

EndPush(f, r) ==
  /\ pc' = "idle" /\ job' = NoJob /\ result' = r
  /\ fork_db' = Hold(f, {})

\* What the network and broadcast_block() hand to push_block().
Delivered(b) ==
  /\ env.in_order => Prev[b] \in fork_db.index \cup ToSet(chain) \cup {Genesis}
  /\ ~env.again => b \notin ToSet(chain) \cup fork_db.index

\* _push_block() up to the point where it pops or applies.  A block that the
\* fork database does not accept changes nothing.
ReceiveBlock(b) ==
  LET f == PushBlock(fork_db, b)
      h == f.head
  IN /\ pc = "idle" /\ Delivered(b) /\ Accepts(fork_db, b)
     /\ UNCHANGED <<chain, depth, revision, log, env>>
     /\ \/ \* builds on the current head
           /\ Prev[h] = HeadId
           /\ fork_db' = f /\ pc' = "apply" /\ result' = "none"
           /\ job' = Job("direct", b, <<>>, <<>>)
        \/ \* not higher than the current head
           /\ Prev[h] # HeadId /\ Num[h] <= Len(chain)
           /\ EndPush(f, "ok")
        \/ \* switch forks
           /\ Prev[h] # HeadId /\ Num[h] > Len(chain)
           /\ CanBranch(f, h, HeadId)
           /\ LET n == JoinNum(f, h, HeadId)
                  first == Branch(f, h, n)
                  second == Branch(f, HeadId, n)
              IN /\ job' = Job("switch", b, first, second)
                 /\ fork_db' = Hold(f, ToSet(first) \cup ToSet(second))
           /\ pc' = "pop" /\ result' = "none"
        \/ \* fetch_branch_from() throws
           /\ Prev[h] # HeadId /\ Num[h] > Len(chain)
           /\ ~CanBranch(f, h, HeadId)
           /\ EndPush(f, "failed")

\* Mutant of UndoOne: does not look at the undo history.
UndoAlways ==
  chain' = Front(chain) /\ depth' = depth - 1 /\ revision' = revision - 1

\* undo(): a no-op without undo history.
UndoOne ==
  IF depth > 0
  THEN chain' = Front(chain) /\ depth' = depth - 1 /\ revision' = revision - 1
  ELSE UNCHANGED <<chain, depth, revision>>

\* fetch_block_by_id( head_block_id() ): fork database, then block log.
HeadIsKnown ==
  \/ HeadId \in fork_db.index
  \/ Len(chain) \in 1 .. Len(log) /\ log[Len(chain)] = HeadId

\* Mutant of PopUntilForkPoint: the fork database does not refuse to be popped
\* beyond its oldest block.
PopForever ==
  /\ pc = "pop" /\ UNCHANGED <<log, env>>
  /\ \/ /\ HeadId = ForkPoint
        /\ pc' = "apply"
        /\ UNCHANGED <<chain, depth, revision, fork_db, job, result>>
     \/ /\ HeadId # ForkPoint
        /\ fork_db' = IF CanPop(fork_db) THEN PopBlock(fork_db) ELSE fork_db
        /\ UndoOne
        /\ UNCHANGED <<pc, job, result>>

\* One round of "pop blocks until we hit the forked block", of both loops.
PopUntilForkPoint ==
  /\ pc = "pop" /\ UNCHANGED <<log, env>>
  /\ \/ /\ HeadId = ForkPoint
        /\ pc' = "apply"
        /\ UNCHANGED <<chain, depth, revision, fork_db, job, result>>
     \/ /\ HeadId # ForkPoint /\ HeadIsKnown /\ CanPop(fork_db)
        /\ fork_db' = PopBlock(fork_db)
        /\ UndoOne
        /\ UNCHANGED <<pc, job, result>>
     \/ /\ HeadId # ForkPoint /\ ~(HeadIsKnown /\ CanPop(fork_db))
        /\ EndPush(fork_db, "failed")
        /\ UNCHANGED <<chain, depth, revision>>

\* Mutant of Failed: a failed switch is not rolled back.
FailedNoRestore(f) ==
  EndPush(IF job.mode = "direct" THEN RemoveBlocks(f, {job.new})
          ELSE SetHead(RemoveBlocks(f, {Cur}), Last(job.second)), "failed")

\* The catch blocks of _push_block(), with fork database f.
Failed(f) ==
  \/ /\ job.mode = "direct"
     /\ EndPush(RemoveBlocks(f, {job.new}), "failed")
  \/ /\ job.mode = "switch"
     /\ LET rest == {job.first[i] : i \in job.pos .. Len(job.first)}
        IN fork_db' = SetHead(RemoveBlocks(f, rest), Last(job.second))
     /\ job' = [job EXCEPT !.mode = "restore", !.pos = 1]
     /\ pc' = "pop" /\ UNCHANGED result
  \/ /\ job.mode = "restore"
     /\ EndPush(f, "failed")

\* Everything that throws before update_last_irreversible_block().
EarlyFault(b) ==
  \/ Prev[b] # HeadId
  \/ fault[b] = "early"
  \/ Len(chain) + 1 - Lib(chain) >= env.max_undo

\* apply_block() in its own undo session up to commit( lib ).
ApplyBlock ==
  /\ pc = "apply" /\ UNCHANGED <<log, env>>
  /\ \/ /\ EarlyFault(Cur)
        /\ Failed(fork_db)
        /\ UNCHANGED <<chain, depth, revision>>
     \/ /\ ~EarlyFault(Cur)
        /\ chain' = Append(chain, Cur)
        /\ revision' = revision + 1
        /\ depth' = Min({depth + 1, Max({0, revision' - Lib(chain')})})
        /\ pc' = "log"
        /\ UNCHANGED <<fork_db, job, result>>

\* The blocks to append to the log, up to the first one that the fork
\* database does not find.
Missing ==
  {n \in Len(log) + 1 .. Lib(chain) : FetchOnMainBranch(fork_db, n) = None}

\* Mutant of LogUpTo: the last irreversible block itself is left for later.
LogUpToBefore ==
  IF Missing = {} THEN Max({Len(log), Lib(chain) - 1}) ELSE Min(Missing) - 1

LogUpTo ==
  IF Missing = {} THEN Max({Len(log), Lib(chain)}) ELSE Min(Missing) - 1

\* The rest of apply_block(), and the end of the session: pushed when all
\* went well, undone otherwise.
LogAndFinish ==
  LET branch == IF job.mode = "switch" THEN job.first ELSE job.second
  IN /\ pc = "log" /\ UNCHANGED env
     /\ log' = [n \in 1 .. LogUpTo |->
                  IF n <= Len(log) THEN log[n] ELSE FetchOnMainBranch(fork_db, n)]
     /\ \E trimmed \in {SetMaxSize(fork_db, Max({0, Len(chain) - Lib(chain) + 1}))} :
        \/ /\ Missing # {}
           /\ UndoOne /\ Failed(fork_db)
        \/ /\ Missing = {} /\ fault[Cur] = "late"
           /\ UndoOne /\ Failed(trimmed)
        \/ /\ Missing = {} /\ fault[Cur] # "late"
           /\ UNCHANGED <<chain, depth, revision>>
           /\ \/ /\ job.mode = "direct"
                 /\ EndPush(trimmed, "ok")
              \/ /\ job.mode # "direct" /\ job.pos < Len(branch)
                 /\ job' = [job EXCEPT !.pos = @ + 1]
                 /\ pc' = "apply" /\ fork_db' = trimmed /\ UNCHANGED result
              \/ /\ job.mode # "direct" /\ job.pos = Len(branch)
                 /\ EndPush(trimmed, IF job.mode = "switch" THEN "ok" ELSE "failed")

-----------------------------------------------------------------------------
\* The process ends, in order or not.
Stop ==
  /\ pc \in env.stops_at
  /\ pc' = "down" /\ job' = NoJob /\ result' = "none" /\ fork_db' = EmptyForkDb
  /\ UNCHANGED <<chain, depth, revision, log, env>>

\* Mutant of StateMatchesLog: the state is not compared with the block log.
StateMatchesRevision == revision - depth = Len(SubSeq(chain, 1, Len(chain) - depth))

\* What undo_all() leaves, and whether open() accepts it.
Base == SubSeq(chain, 1, Len(chain) - depth)

StateMatchesLog ==
  /\ revision - depth = Len(Base)
  /\ Base # <<>> => Len(Base) <= Len(log) /\ log[Len(Base)] = Last(Base)

Open ==
  /\ pc = "down" /\ StateMatchesLog
  /\ chain' = Base /\ depth' = 0 /\ revision' = revision - depth
  /\ fork_db' = IF Base = <<>> THEN EmptyForkDb ELSE StartBlock(EmptyForkDb, Last(Base))
  /\ pc' = "idle"
  /\ UNCHANGED <<log, job, result, env>>

\* application: a failed open() leads to reindex(), which wipes the state; with
\* an empty block log the node starts over from the network.
OpenFails ==
  /\ pc = "down" /\ ~StateMatchesLog
  /\ chain' = <<>> /\ depth' = 0 /\ revision' = 0
  /\ pc' = IF log = <<>> THEN "idle" ELSE "reindex"
  /\ UNCHANGED <<log, fork_db, job, result, env>>

\* reindex() applies one more block of the log, without undo history, and sets
\* the revision after the last one.  A block that throws ends the process.
Reindex ==
  LET b == log[Len(chain) + 1]
      throws == EarlyFault(b) \/ fault[b] = "late"
      sized == SetMaxSize(fork_db, Len(chain') - Lib(chain') + 1)
  IN /\ pc = "reindex"
     /\ chain' = IF EarlyFault(b) THEN chain ELSE Append(chain, b)
     /\ UNCHANGED <<depth, log, job, result, env>>
     /\ \/ /\ throws
           /\ pc' = "down" /\ UNCHANGED <<revision, fork_db>>
        \/ /\ ~throws /\ Len(chain') < Len(log)
           /\ fork_db' = sized /\ UNCHANGED <<revision, pc>>
        \/ /\ ~throws /\ Len(chain') = Len(log)
           /\ fork_db' = StartBlock(sized, b)
           /\ revision' = Len(log) /\ pc' = "idle"

Init ==
  /\ chain = <<>> /\ depth = 0 /\ revision = 0 /\ log = <<>>
  /\ fork_db = EmptyForkDb /\ pc = "idle" /\ job = NoJob /\ result = "none"
  /\ env \in Environments

Next ==
  \/ \E b \in Blocks : ReceiveBlock(b)
  \/ PopUntilForkPoint
  \/ ApplyBlock
  \/ LogAndFinish
  \/ Stop
  \/ Open
  \/ OpenFails
  \/ Reindex

Spec == Init /\ [][Next]_vars

\* The thread that runs push_block(), open() or reindex() is not abandoned.
\* Nothing obliges the network to deliver a block.
Fairness ==
  WF_vars(\/ PopUntilForkPoint \/ ApplyBlock \/ LogAndFinish
          \/ Open \/ OpenFails \/ Reindex)

FairSpec == Spec /\ Fairness

-----------------------------------------------------------------------------
\* Types; the undo stack is never longer than the chain.
TypeOK ==
  /\ chain \in Seq(Blocks) /\ log \in Seq(Blocks)
  /\ depth \in 0 .. Len(chain) /\ revision \in Nat
  /\ fork_db \in ForkDb
  /\ pc \in {"idle", "pop", "apply", "log", "down", "reindex"}
  /\ job.mode \in {"none", "direct", "switch", "restore"}
  /\ result \in {"none", "ok", "failed"}
  /\ env \in Environments

\* "After push block is successful the block is appended to the chain database
\* on disk": the block log and the chain never hold different blocks at the
\* same height, in the middle of a fork switch and after any stop as well.
\* Not so when blocks are delivered again: while the head of the fork database
\* is a block that failed, a block of the chain that comes again fails too and
\* is removed from the fork database, where another one of its number may be
\* left to be logged.
LogAgrees == ~env.again => IsPrefix(log, chain) \/ IsPrefix(chain, log)

\* Between pushes the fork database holds every block of the chain that is yet
\* to be logged, and the head block: update_last_irreversible_block() finds
\* what it appends, and the next block links.
ReversibleInForkDb ==
  pc = "idle" =>
    \A i \in 1 .. Len(chain) :
      i > Len(log) \/ i = Len(chain) => chain[i] \in fork_db.index

\* A node that stops between pushes restarts without a reindex: what remains
\* after undo_all() has the right revision and its head is in the block log.
Restartable == pc = "idle" => StateMatchesLog

\* Between pushes, however the last one ended, the node can go on and can be
\* stopped: the fork database has what the block log still needs, and open()
\* will accept the state beside the log.
BetweenPushes == ReversibleInForkDb /\ Restartable

\* "Rewind all undo state. This should return us to the state at the last
\* irreversible block": a restarted node is at the head of its block log.
OpenResumesAtLog ==
  [][pc' = "idle" /\ pc \in {"down", "reindex"} => chain' = log]_vars

\* A block whose undo state was committed leaves the chain only when the whole
\* state is wiped for a reindex, never by a fork switch.
IrreversibleStays ==
  [][IsPrefix(Base, chain') \/ (pc = "down" /\ ~StateMatchesLog)]_vars

\* Every push_block() returns and every restart comes up, although the loop
\* that pops blocks relies on undo(), which may do nothing.
PushEnds == (pc # "idle") ~> (pc = "idle")

\* As long as every block comes after its predecessor and none is invalid, the
\* node is on a chain that is as long as any it knows.
LongestChain ==
  pc = "idle" /\ env.in_order /\ (\A b \in Blocks : fault[b] = "none") =>
    \A b \in fork_db.index : Num[b] <= Len(chain)

\* "Push block 'may fail' in which case every partial change is unwound", of
\* the state: a push that fails leaves the chain it found.
FailedPushKeepsChain ==
  [][pc # "idle" /\ result' = "failed" => chain' = job.before]_vars

\* A push that fails leaves the chain it found as long as the pops can be undone:
\* neither the last irreversible block of either branch nor the block log
\* reaches above the block where the branches meet, the new branch is at most
\* one block longer than the one left (after an earlier failed push it can be
\* longer, and then the fork database no longer links back far enough), and no
\* block is delivered twice.
FailedPushRestores ==
  [][LET direct == job.mode = "direct"
         trunk == IF direct THEN job.before ELSE SubSeq(job.before, 1, Num[ForkPoint])
         branch == IF direct THEN <<job.new>> ELSE job.first
     IN /\ pc # "idle" /\ result' = "failed" /\ ~env.again
        /\ Len(job.first) <= Len(job.second) + 1
        /\ Max({Len(log'), Lib(job.before), Lib(trunk \o branch)}) <= Len(trunk)
        => chain' = job.before]_vars
=============================================================================

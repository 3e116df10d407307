---------------------------- MODULE SharedMemory ----------------------------
(***************************************************************************)
(* The processes of one node around the memory that they share: the write  *)
(* process changes all tables under its lock, read-only processes read one *)
(* table after the other under theirs, and each may be killed at any point *)
(* and started again.                                                      *)
(*                                                                         *)
(* status is the write process, goal what it will do in the lock it waits  *)
(* for; seen[r][t] is what reader r has read in table t, sound[r]          *)
(* (history) whether it began on a node that was up; damaged (history)     *)
(* says that a reindex, or a block that was already committed, was cut     *)
(* off.  calls, reads and kills are what is left of the bounds.            *)
(***************************************************************************)
EXTENDS ReadWriteLocks, SharedTables

CONSTANT Limits     \* bounds: how many blocks are pushed or popped, calls of
                    \* with_read_lock, and processes killed

ASSUME LimitsAssumption ==
  \A l \in Limits : {l.calls, l.reads, l.kills} \subseteq Nat

VARIABLES status, goal, seen, sound, damaged, calls, reads, kills

procVars == <<status, goal, seen, sound, damaged>>
bounds == <<calls, reads, kills>>
vars == <<lockVars, tableVars, procVars, bounds>>

NoGoal == <<>>

(* every variable has its type *)
TypeOK ==
  /\ LocksTypeOK /\ TablesTypeOK
  /\ status \in {"down", "opening", "up"}
  /\ seen \in [Readers -> [Tables -> SUBSET Chains]]
  /\ sound \in [Readers -> BOOLEAN] /\ damaged \in BOOLEAN
  /\ calls \in Nat /\ reads \in Nat /\ kills \in Nat

Unread == [t \in Tables |-> {}]

Init ==
  /\ LocksInit /\ TablesInit
  /\ status = "down" /\ goal = NoGoal
  /\ seen = [r \in Readers |-> Unread] /\ sound = [r \in Readers |-> FALSE]
  /\ damaged = FALSE
  /\ \E l \in Limits : calls = l.calls /\ reads = l.reads /\ kills = l.kills

----------------------------------------------------------------------------
(* The write process *)

(* open() asks for the lock to rewind *)
Start ==
  /\ status = "down"
  /\ CurrentLock(Writer)
  /\ status' = "opening" /\ goal' = Rewind
  /\ UNCHANGED <<tableVars, seen, sound, damaged, bounds>>

(* push_block() asks for it *)
AskToWrite ==
  /\ status = "up" /\ calls > 0
  /\ CurrentLock(Writer)
  /\ UNCHANGED <<tableVars, procVars, bounds>>

Wait ==
  /\ ClaimExclusive(Writer) \/ WriteTimeout(Writer) \/ NextLock(Writer)
  /\ UNCHANGED <<tableVars, procVars, bounds>>

Enter ==
  /\ LockExclusive(Writer)
  /\ work' = goal /\ goal' = NoGoal
  /\ UNCHANGED <<tab, log, status, seen, sound, damaged, bounds>>

Call ==
  /\ pc[Writer] = "inside" /\ status = "up" /\ calls > 0
  /\ PopBlock \/ \E b \in Blocks, lib \in 0 .. MaxHeight : PushBlock(b, lib)
  /\ calls' = calls - 1
  /\ UNCHANGED <<lockVars, procVars, reads, kills>>

Work ==
  /\ pc[Writer] = "inside"
  /\ \/ (TableStep \/ AppendStep) /\ UNCHANGED damaged
     \/ ApplyFails /\ damaged' = (damaged \/ Tearing)
  /\ UNCHANGED <<lockVars, status, goal, seen, sound, bounds>>

Leave ==
  /\ work = <<>> /\ status = "up"
  /\ Unlock(Writer)
  /\ UNCHANGED <<tableVars, procVars, bounds>>

(* the checks of open() hold after the rewind *)
OpenSucceeds ==
  /\ pc[Writer] = "inside" /\ status = "opening" /\ work = <<>> /\ Opens
  /\ Unlock(Writer)
  /\ status' = "up"
  /\ UNCHANGED <<tableVars, goal, seen, sound, damaged, bounds>>

(* they do not: startup() catches the assertion and calls reindex(), which *)
(* begins with wipe()                                                      *)
Reindex ==
  /\ pc[Writer] = "inside" /\ status = "opening" /\ work = <<>> /\ (~Opens \/ Torn)
  /\ NewLocks
  /\ tab' = [t \in Tables |-> Empty]
  /\ goal' = Replay
  /\ seen' = [r \in Readers |-> Unread] /\ sound' = [r \in Readers |-> FALSE]
  /\ damaged' = FALSE
  /\ UNCHANGED <<log, work, status, bounds>>

KillWriter ==
  /\ status # "down" /\ kills > 0
  /\ Die(Writer)
  /\ status' = "down" /\ work' = <<>> /\ goal' = NoGoal
  /\ damaged' = (damaged \/ Replaying \/ (Tearing /\ Len(log) >= HeadBlockNum))
  /\ kills' = kills - 1
  /\ UNCHANGED <<tab, log, seen, sound, calls, reads>>

----------------------------------------------------------------------------
(* Read-only processes *)

AskToRead(r) ==
  /\ reads > 0
  /\ CurrentLock(r)
  /\ reads' = reads - 1
  /\ UNCHANGED <<tableVars, procVars, calls, kills>>

BeginRead(r) ==
  /\ LockSharable(r)
  /\ seen' = [seen EXCEPT ![r] = Unread]
  /\ sound' = [sound EXCEPT ![r] = status = "up"]
  /\ UNCHANGED <<tableVars, status, goal, damaged, bounds>>

GiveUp(r) == ReadTimeout(r) /\ UNCHANGED <<tableVars, procVars, bounds>>

Read(r, t) ==
  /\ pc[r] = "inside" /\ seen[r][t] = {}
  /\ seen' = [seen EXCEPT ![r][t] = {tab[t].val}]
  /\ UNCHANGED <<lockVars, tableVars, status, goal, sound, damaged, bounds>>

EndRead(r) ==
  /\ UnlockSharable(r)
  /\ seen' = [seen EXCEPT ![r] = Unread] /\ sound' = [sound EXCEPT ![r] = FALSE]
  /\ UNCHANGED <<tableVars, status, goal, damaged, bounds>>

KillReader(r) ==
  /\ pc[r] # "idle" /\ kills > 0
  /\ Die(r)
  /\ seen' = [seen EXCEPT ![r] = Unread] /\ sound' = [sound EXCEPT ![r] = FALSE]
  /\ kills' = kills - 1
  /\ UNCHANGED <<tableVars, status, goal, damaged, calls, reads>>

----------------------------------------------------------------------------
WriterRuns == Start \/ AskToWrite \/ Wait \/ Enter \/ Work \/ Leave \/ OpenSucceeds \/ Reindex

ReaderRuns(r) == \/ AskToRead(r) \/ BeginRead(r) \/ GiveUp(r) \/ EndRead(r)
                 \/ \E t \in Tables : Read(r, t)

Next == \/ WriterRuns \/ Call \/ KillWriter
        \/ \E r \in Readers : ReaderRuns(r) \/ KillReader(r)

(* The write process is scheduled; nothing is assumed of the readers. *)
Spec == Init /\ [][Next]_vars /\ WF_vars(WriterRuns)

----------------------------------------------------------------------------
(* Whenever the write process is up and not at work, all tables stand at   *)
(* the same block with the same history and with all of its changes,       *)
(* although every loop over them can have been cut off: undo_all() repairs *)
(* a half undone or half applied block, and a half committed one shows as  *)
(* a first table that is ahead of the log, because the log is written      *)
(* after the commit.  The exceptions: a reindex that was cut off, and a    *)
(* block that failed or was cut off when its own session was committed     *)
(* (one scheduled witness makes its own block irreversible) and its log    *)
(* entry written.                                                          *)
TablesAgree ==
  status = "up" /\ work = <<>> /\ ~damaged => ~Torn

(* Every variable has its type, with locks and counters within their bounds *)
(* after any number of kills, and the tables agree.                         *)
TablesConsistent == TypeOK /\ TablesAgree

(* A reader that began on a node that was up sees all tables at one block, *)
(* unless a writer lost patience and moved on, or its share of the lock    *)
(* was forgotten when the ring came round.                                 *)
ReadsAgree ==
  \A r \in Readers :
    pc[r] = "inside" /\ sound[r] /\ ~damaged /\ at[r] = current /\ r \notin lost
      => Cardinality(UNION {seen[r][t] : t \in Tables}) <= 1

(* A writer that asks gets in, or is killed, even if every process that    *)
(* holds a lock is dead or never leaves.                                   *)
WriterGetsIn == pc[Writer] = "wait" ~> pc[Writer] = "inside" \/ status = "down"
=============================================================================

--------------------------- MODULE ReadWriteLocks ---------------------------
(***************************************************************************)
(* chainbase's read_write_mutex_manager: a ring of read-write locks in a   *)
(* file that all processes map, and the number of the one that is in use.  *)
(* A reader that waits too long gives up.  A writer that waits too long    *)
(* takes the holder for dead, moves to the next lock of the ring,          *)
(* constructs it anew and waits for that one.  The file outlives the       *)
(* processes: what a killed process held stays held.                       *)
(*                                                                         *)
(* There is one writer: the write process locks the file for itself and    *)
(* applies blocks in one thread.  at[p] is the number of the lock that     *)
(* process p chose, and lost (a history variable) are the readers whose    *)
(* share of a lock was forgotten, because the lock was constructed anew    *)
(* under them or someone whose share was forgotten gave theirs back.       *)
(***************************************************************************)
EXTENDS Naturals, FiniteSets

CONSTANTS Readers, Writer,
          NumLocks,     \* CHAINBASE_NUM_RW_LOCKS
          MaxShared     \* shares that the lock's counter can hold

ASSUME LocksAssumption ==
  /\ NumLocks \in Nat \ {0} /\ MaxShared \in Nat \ {0}
  /\ IsFiniteSet(Readers) /\ Writer \notin Readers

Processes == Readers \cup {Writer}

VARIABLES current, locks, at, pc, lost

lockVars == <<current, locks, at, pc, lost>>

Free == [exclusive |-> FALSE, shared |-> 0]

LocksTypeOK ==
  /\ current \in Nat
  /\ locks \in [0 .. NumLocks - 1 -> [exclusive : BOOLEAN, shared : 0 .. MaxShared]]
  /\ at \in [Processes -> 0 .. current]
  /\ pc \in [Processes -> {"idle", "wait", "claimed", "bump", "inside"}]
  /\ lost \subseteq {r \in Readers : pc[r] = "inside"}

LocksInit ==
  /\ current = 0
  /\ locks = [i \in 0 .. NumLocks - 1 |-> Free]
  /\ at = [p \in Processes |-> 0]
  /\ pc = [p \in Processes |-> "idle"]
  /\ lost = {}

Slot(p) == at[p] % NumLocks
LockOf(p) == locks[Slot(p)]
HoldersAt(i) == {r \in Readers : pc[r] = "inside" /\ Slot(r) = i}

(* the local lock object goes away *)
Idle(p) == pc' = [pc EXCEPT ![p] = "idle"] /\ at' = [at EXCEPT ![p] = 0]

(* current_lock(), at the beginning of with_read_lock and with_write_lock *)
CurrentLock(p) ==
  /\ pc[p] = "idle"
  /\ at' = [at EXCEPT ![p] = current]
  /\ pc' = [pc EXCEPT ![p] = "wait"]
  /\ UNCHANGED <<current, locks, lost>>

MayShare(r) == ~LockOf(r).exclusive /\ LockOf(r).shared < MaxShared

(* Mutant of LockSharable: the reader does not look whether a writer is in. *)
LockSharableAnyway(r) ==
  /\ pc[r] = "wait" /\ LockOf(r).shared < MaxShared
  /\ locks' = [locks EXCEPT ![Slot(r)].shared = @ + 1]
  /\ pc' = [pc EXCEPT ![r] = "inside"]
  /\ UNCHANGED <<current, at, lost>>

LockSharable(r) ==
  /\ pc[r] = "wait" /\ MayShare(r)
  /\ locks' = [locks EXCEPT ![Slot(r)].shared = @ + 1]
  /\ pc' = [pc EXCEPT ![r] = "inside"]
  /\ UNCHANGED <<current, at, lost>>

(* "unable to acquire lock" *)
ReadTimeout(r) ==
  /\ pc[r] = "wait" /\ ~MayShare(r)
  /\ Idle(r)
  /\ UNCHANGED <<current, locks, lost>>

(* the counter of shares wraps around when a forgotten share is given back *)
UnlockSharable(r) ==
  /\ pc[r] = "inside"
  /\ locks' = [locks EXCEPT ![Slot(r)].shared = (@ + MaxShared) % (MaxShared + 1)]
  /\ Idle(r)
  /\ lost' = (IF r \in lost THEN lost \cup HoldersAt(Slot(r)) ELSE lost) \ {r}
  /\ UNCHANGED current

(* a writer first keeps new readers out and then waits for the others *)
ClaimExclusive(w) ==
  /\ pc[w] = "wait" /\ ~LockOf(w).exclusive
  /\ locks' = [locks EXCEPT ![Slot(w)].exclusive = TRUE]
  /\ pc' = [pc EXCEPT ![w] = "claimed"]
  /\ UNCHANGED <<current, at, lost>>

LockExclusive(w) ==
  /\ pc[w] = "claimed" /\ LockOf(w).shared = 0
  /\ pc' = [pc EXCEPT ![w] = "inside"]
  /\ UNCHANGED <<current, locks, at, lost>>

(* Mutant of WriteTimeout: the wait for readers has no end. *)
WriteTimeoutOnClaim(w) ==
  /\ pc[w] = "wait" /\ LockOf(w).exclusive
  /\ current' = current + 1
  /\ pc' = [pc EXCEPT ![w] = "bump"]
  /\ UNCHANGED <<locks, at, lost>>

(* the wait is over in either part of it; next_lock() counts on ... *)
WriteTimeout(w) ==
  /\ \/ pc[w] = "wait" /\ LockOf(w).exclusive /\ locks' = locks
     \/ /\ pc[w] = "claimed" /\ LockOf(w).shared > 0
        /\ locks' = [locks EXCEPT ![Slot(w)].exclusive = FALSE]
  /\ current' = current + 1
  /\ pc' = [pc EXCEPT ![w] = "bump"]
  /\ UNCHANGED <<at, lost>>

(* ... and then constructs the lock at the new place, whoever holds it *)
NextLock(w) ==
  /\ pc[w] = "bump"
  /\ locks' = [locks EXCEPT ![current % NumLocks] = Free]
  /\ at' = [at EXCEPT ![w] = current]
  /\ pc' = [pc EXCEPT ![w] = "wait"]
  /\ lost' = lost \cup HoldersAt(current % NumLocks)
  /\ UNCHANGED current

Unlock(w) ==
  /\ pc[w] = "inside"
  /\ locks' = [locks EXCEPT ![Slot(w)].exclusive = FALSE]
  /\ Idle(w)
  /\ UNCHANGED <<current, lost>>

(* a process dies and leaves the lock as it is *)
Die(p) ==
  /\ Idle(p)
  /\ lost' = lost \ {p}
  /\ UNCHANGED <<current, locks>>

(* wipe() removes the file; the processes that map it have no part in the  *)
(* new one, in which the writer is the first to ask                        *)
NewLocks ==
  /\ current' = 0
  /\ locks' = [i \in 0 .. NumLocks - 1 |-> Free]
  /\ at' = [p \in Processes |-> 0]
  /\ pc' = [p \in Processes |-> IF p = Writer THEN "wait" ELSE "idle"]
  /\ lost' = {}
=============================================================================

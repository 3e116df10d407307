------------------------------ MODULE BlockLog ------------------------------
(***************************************************************************)
(* chain::block_log: an append-only file of blocks, each followed by its   *)
(* own position, and an index file with the positions alone.               *)
(*                                                                         *)
(* A block is its number.  The block file is a sequence of writes, data    *)
(* and position by turns, and a position counts the writes before a block. *)
(* Both streams are buffered; a stop keeps any part of what is buffered,   *)
(* for each file on its own, but never half a write.  Switching a stream   *)
(* between reading and writing closes it, which empties its buffer, so the *)
(* flags block_write and index_write need no variables.                    *)
(***************************************************************************)
EXTENDS Integers, SequencesExt

CONSTANT MaxBlock   \* bound on the block numbers
ASSUME MaxBlockAssumption == MaxBlock \in Nat

VARIABLES
  block_file,   \* what the block file holds
  block_buf,    \* written to block_stream, not in the file yet
  index_file,   \* what the index file holds
  index_buf,    \* written to index_stream, not in the file yet
  head,         \* number of the block in head, 0 without one
  pc,           \* "closed", "idle" or "append"
  goal,         \* last irreversible block number of the append under way
  flushed       \* history: the highest block that flush() has returned for

vars == <<block_file, block_buf, index_file, index_buf, head, pc, goal, flushed>>

Data(n) == [kind |-> "data", val |-> n]
Pos(p) == [kind |-> "pos", val |-> p]
Writes == [kind : {"data", "pos"}, val : Nat]

\* The streams as the process sees them.
Log == block_file \o block_buf
Index == index_file \o index_buf

\* A stop between the write of a block and that of its position.
Torn == block_file # <<>> /\ Last(block_file).kind = "data"

-----------------------------------------------------------------------------
\* Mutant of ConstructIndex: the rebuilt index ends before the head block.
ConstructIndexShort ==
  [i \in 1 .. (Len(block_file) \div 2) - 1 |-> block_file[2 * i].val]

\* construct_index(): the position after each block, until one is not below
\* the position of the head block.
ConstructIndex ==
  IF Last(block_file).val = 0 THEN <<>>
  ELSE [i \in 1 .. Len(block_file) \div 2 |-> block_file[2 * i].val]

\* open(): do the last positions of both files agree?
IndexIsCurrent ==
  index_file # <<>> /\ Last(block_file).val = Last(index_file)

\* open(), with construct_index().  The rebuilt index is left in the buffer.
\* With a torn block file the last bytes are no position: open() throws.
Open ==
  /\ pc = "closed" /\ ~Torn
  /\ pc' = "idle"
  /\ \/ /\ block_file = <<>>
        /\ index_file' = <<>> /\ UNCHANGED <<index_buf, head>>
     \/ /\ block_file # <<>>
        /\ head' = block_file[Last(block_file).val + 1].val
        /\ \/ IndexIsCurrent /\ UNCHANGED <<index_file, index_buf>>
           \/ /\ ~IndexIsCurrent
              /\ index_file' = <<>> /\ index_buf' = ConstructIndex
  /\ UNCHANGED <<block_file, block_buf, goal, flushed>>

\* update_last_irreversible_block() begins to append the blocks up to lib.
StartAppend(lib) ==
  /\ pc = "idle" /\ lib > head
  /\ pc' = "append" /\ goal' = lib
  /\ UNCHANGED <<block_file, block_buf, index_file, index_buf, head, flushed>>

\* Mutant of AppendBlock: the caller's loop goes one block too far.
AppendBlockPastGoal ==
  /\ pc = "append" /\ head <= goal
  /\ Len(Index) = head
  /\ block_buf' = block_buf \o <<Data(head + 1), Pos(Len(Log))>>
  /\ index_buf' = Append(index_buf, Len(Log))
  /\ head' = head + 1
  /\ UNCHANGED <<block_file, index_file, pc, goal, flushed>>

\* append() of the next block: three writes, if the index ends where the
\* block's entry belongs.
AppendBlock ==
  /\ pc = "append" /\ head < goal
  /\ \/ /\ Len(Index) = head
        /\ block_buf' = block_buf \o <<Data(head + 1), Pos(Len(Log))>>
        /\ index_buf' = Append(index_buf, Len(Log))
        /\ head' = head + 1
        /\ UNCHANGED pc
     \/ /\ Len(Index) # head
        /\ pc' = "idle" /\ UNCHANGED <<block_buf, index_buf, head>>
  /\ UNCHANGED <<block_file, index_file, goal, flushed>>

FlushBlocks == block_file' = Log /\ block_buf' = <<>>
FlushIndex == index_file' = Index /\ index_buf' = <<>>

\* Mutant of Flush: only the index is flushed.
FlushIndexOnly ==
  /\ pc = "append" /\ head = goal
  /\ FlushIndex /\ UNCHANGED <<block_file, block_buf>>
  /\ pc' = "idle" /\ flushed' = head
  /\ UNCHANGED <<head, goal>>

\* flush() after the last append().
Flush ==
  /\ pc = "append" /\ head = goal
  /\ FlushBlocks /\ FlushIndex
  /\ pc' = "idle" /\ flushed' = head
  /\ UNCHANGED <<head, goal>>

\* read_block_by_num(): check_index_read(), then, if the index has an entry,
\* read_block() with check_block_read().
ReadBlockByNum(n) ==
  /\ pc = "idle" /\ FlushIndex
  /\ \/ n \in 1 .. head /\ n <= Len(Index) /\ FlushBlocks
     \/ ~(n \in 1 .. head /\ n <= Len(Index)) /\ UNCHANGED <<block_file, block_buf>>
  /\ UNCHANGED <<head, pc, goal, flushed>>

\* close(), or the end of the process in order: the streams are closed.
Close ==
  /\ pc = "idle"
  /\ FlushBlocks /\ FlushIndex
  /\ pc' = "closed" /\ head' = 0
  /\ UNCHANGED <<goal, flushed>>

\* The process dies: any part of the buffers has reached the files.
Crash ==
  /\ pc # "closed"
  /\ \E i \in 0 .. Len(block_buf), j \in 0 .. Len(index_buf) :
       /\ block_file' = block_file \o SubSeq(block_buf, 1, i)
       /\ index_file' = index_file \o SubSeq(index_buf, 1, j)
  /\ block_buf' = <<>> /\ index_buf' = <<>>
  /\ pc' = "closed" /\ head' = 0
  /\ UNCHANGED <<goal, flushed>>

Init ==
  /\ block_file = <<>> /\ block_buf = <<>>
  /\ index_file = <<>> /\ index_buf = <<>>
  /\ head = 0 /\ pc = "closed" /\ goal = 0 /\ flushed = 0

Next ==
  \/ Open
  \/ \E lib \in 1 .. MaxBlock : StartAppend(lib)
  \/ AppendBlock
  \/ Flush
  \/ \E n \in 1 .. MaxBlock + 1 : ReadBlockByNum(n)
  \/ Close
  \/ Crash

Spec == Init /\ [][Next]_vars

-----------------------------------------------------------------------------
\* Types.
TypeOK ==
  /\ block_file \in Seq(Writes) /\ block_buf \in Seq(Writes)
  /\ index_file \in Seq(Nat) /\ index_buf \in Seq(Nat)
  /\ head \in 0 .. MaxBlock /\ goal \in 0 .. MaxBlock /\ flushed \in 0 .. MaxBlock
  /\ pc \in {"closed", "idle", "append"}

\* read_block_by_num() asserts that it found the right block.  Whatever a stop
\* left of the two files, every index entry of an open log leads to the block
\* of its number, and the index is as long as the log or, for the rebuilt index
\* of a one-block log, empty.
IndexLeadsToBlocks ==
  pc # "closed" =>
    /\ Len(Index) = head \/ (Index = <<>> /\ head = 1)
    /\ \A n \in 1 .. Len(Index) : Log[Index[n] + 1] = Data(n)

\* A block that flush() has returned for is in every log that is opened later,
\* whatever stops came between: commit() has made it irreversible in the state.
FlushedSurvives == pc # "closed" => head >= flushed
=============================================================================

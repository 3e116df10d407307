----------------------------- MODULE HeadBlock -----------------------------
(***************************************************************************)
(* The time and the number of the head block, which every evaluator reads: *)
(* a transaction runs at the time of the block before its own, the work at *)
(* the end of a block at the time of that block (database::_apply_block).  *)
(***************************************************************************)
EXTENDS Integers

CONSTANTS
    MaxTime, \* bound on the time of the head block, in slots
    MaxGap   \* bound on the slots from one block to the next

ASSUME HeadAssumption == MaxTime \in Nat /\ MaxGap \in Nat

VARIABLES time, num

headVars == <<time, num>>

\* time_point_sec::maximum()
Never == 10 * MaxTime + 100

\* The next block comes one slot later or more, when witnesses miss theirs.
NextHead ==
    /\ \E gap \in 1 .. MaxGap : time' = time + gap
    /\ time' <= MaxTime
    /\ num' = num + 1
=============================================================================

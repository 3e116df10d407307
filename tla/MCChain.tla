------------------------------ MODULE MCChain ------------------------------
\* Instances of ChainDatabase for TLC: a tree of eleven blocks with three
\* branches, and the faults and schedules of the runs.
EXTENDS ChainDatabase

CONSTANTS a1, a2, a3, a4, a5, b2, b3, b4, b5, c3, c4, w1, w2, w3

MCBlocks == {a1, a2, a3, a4, a5, b2, b3, b4, b5, c3, c4}

\* a1 - a2 - a3 - a4 - a5
\*    \ b2 - b3 - b4 - b5
\*         \ c3 - c4
MCPrev ==
  a1 :> Genesis @@ a2 :> a1 @@ a3 :> a2 @@ a4 :> a3 @@ a5 :> a4 @@ b2 :> a1
  @@ b3 :> b2 @@ b4 :> b3 @@ b5 :> b4 @@ c3 :> b2 @@ c4 :> c3

MCNum ==
  a1 :> 1 @@ a2 :> 2 @@ a3 :> 3 @@ a4 :> 4 @@ a5 :> 5 @@ b2 :> 2
  @@ b3 :> 3 @@ b4 :> 4 @@ b5 :> 5 @@ c3 :> 3 @@ c4 :> 4

MCWit ==
  a1 :> w1 @@ a2 :> w2 @@ a3 :> w3 @@ a4 :> w1 @@ a5 :> w2 @@ b2 :> w3
  @@ b3 :> w1 @@ b4 :> w2 @@ b5 :> w3 @@ c3 :> w2 @@ c4 :> w1

Faulty(bad, kind) == [b \in MCBlocks |-> IF b \in bad THEN kind ELSE "none"]

NoFault == {Faulty({}, "none")}
OneEarly == {Faulty({x}, "early") : x \in MCBlocks}
OneLate == {Faulty({x}, "late") : x \in MCBlocks}
TwoEarly == {Faulty({x, y}, "early") : x \in MCBlocks, y \in MCBlocks}

Running == {"idle", "pop", "apply", "log"}

\* Irreversibility by distance, one invalid block at most, stops outside reindex.
Distance ==
  {[fault |-> f, scheduled |-> Witnesses, max_witnesses |-> 2, voting_start |-> 9,
    max_undo |-> 10, stops_at |-> Running, in_order |-> FALSE, again |-> FALSE] :
     f \in NoFault \cup OneEarly \cup OneLate}

\* Irreversibility by confirmations, with little undo history; also with a
\* single witness and a block that throws late.
Confirmations ==
  {[e EXCEPT !.voting_start = 1, !.max_undo = 4] : e \in Distance}
  \cup {[e EXCEPT !.voting_start = 1, !.max_undo = 4, !.scheduled = {w1}] :
          e \in {d \in Distance : d.fault \in OneLate}}

\* Switches above the last irreversible block, with two invalid blocks at most.
Forks ==
  {[e EXCEPT !.fault = f, !.max_witnesses = 3, !.stops_at = {}, !.in_order = TRUE] :
     e \in Distance, f \in NoFault \cup TwoEarly}

\* The same, with blocks that are delivered again and one invalid block at most.
Redelivery ==
  {[e EXCEPT !.again = TRUE] : e \in {d \in Forks : d.fault \in NoFault \cup OneEarly}}

ConfirmationsAndForks == Confirmations \cup Forks \cup Redelivery

\* Valid blocks, a branch that leaves below the last irreversible block.
DeepFork ==
  {[e EXCEPT !.stops_at = {}, !.in_order = TRUE] :
     e \in {d \in Distance : d.fault \in NoFault}}
=============================================================================

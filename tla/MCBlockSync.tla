----------------------------- MODULE MCBlockSync -----------------------------
(* An instance of BlockSync for TLC: five blocks in a row and a fork of two,  *)
(* the second of which does not apply.                                        *)
EXTENDS BlockSync, TLC

CONSTANTS b1, b2, b3, b4, b5, c2, c3, peer1, peer2

MCPrev == b1 :> Genesis @@ b2 :> b1 @@ b3 :> b2 @@ b4 :> b3 @@ b5 :> b4
            @@ c2 :> b1 @@ c3 :> c2

(* Head blocks from S for peer1 alone; from S for peer1 and from T for peer2. *)
One(S) == {peer1 :> b @@ peer2 :> Genesis : b \in S}
Two(S, T) == {peer1 :> b @@ peer2 :> c : b \in S, c \in T}

(* One peer with more blocks than two batches hold, that grows, is cut off and  *)
(* asks; one that grows or changes forks, advertises and says it has not what it *)
(* listed; two peers whose connections end; two with different forks, one block  *)
(* of which is not there; two with more blocks than may be prefetched; two that  *)
(* grow and advertise; two of which one is level at first, asks, then grows and  *)
(* advertises while the other one's blocks come in.                              *)
MCLimits ==
  {[own |-> Genesis, heads |-> One({b4}), gains |-> {<<peer1, b5>>}, ends |-> 1, asks |-> {peer1},
    adverts |-> {}, refusals |-> 0],
   [own |-> Genesis, heads |-> One({b2, c2}), gains |-> {peer1} \X {b3, c3}, ends |-> 1, asks |-> {peer1},
    adverts |-> {peer1}, refusals |-> 1],
   [own |-> Genesis, heads |-> Two({b2}, {b2}), gains |-> {}, ends |-> 1, asks |-> {}, adverts |-> {},
    refusals |-> 0],
   [own |-> Genesis, heads |-> Two({b2}, {b2, c2}), gains |-> {}, ends |-> 0, asks |-> {},
    adverts |-> {}, refusals |-> 1],
   [own |-> Genesis, heads |-> Two({b3}, {b3}), gains |-> {}, ends |-> 0, asks |-> {}, adverts |-> {},
    refusals |-> 0],
   [own |-> Genesis, heads |-> Two({b1}, {b1}), gains |-> Peers \X {b2, c2}, ends |-> 0, asks |-> {},
    adverts |-> {peer1}, refusals |-> 0],
   [own |-> b1, heads |-> Two({b1}, {b3}), gains |-> {<<peer1, b4>>}, ends |-> 0, asks |-> {peer1},
    adverts |-> {peer1}, refusals |-> 0]}
=============================================================================

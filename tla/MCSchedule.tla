----------------------------- MODULE MCSchedule -----------------------------
\* WitnessSchedule with at most three witnesses and two places, one of them elected.
EXTENDS WitnessSchedule

CONSTANTS initminer, w1, w2

MCRank == initminer :> 1 @@ w1 :> 2 @@ w2 :> 3

MCFirstVotes == initminer :> 0 @@ w1 :> 2 @@ w2 :> 1
MCBallots == {<<0, 0>>, <<1, 6>>, <<2, 0>>}

MCAll == {{"vote"}, {"key", "miss"}, {"extend"}}
MCKeys == {{"key"}}
=============================================================================

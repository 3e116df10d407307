---------------------------- MODULE MCOperations ----------------------------
\* Operations from small initial tables, one for each family of operations.
EXTENDS Operations, TLC

CONSTANTS ann, bob, cat, eve, ini, nul, wit

\* Tables in which the accounts have the balances and vests given, of which
\* price are worth one BMT.
Tables(balances, vests, price, comments) ==
    LET names == DOMAIN balances
        order == SetToSeq(names)
        number(x) == CHOOSE i \in DOMAIN order : order[i] = x
        shares == SumFunction(vests)
        all == SumFunction(balances)
    IN  [acct |-> [x \in names |-> [NewAccount EXCEPT !.id = number(x) - 1,
                                             !.balance = balances[x], !.vests = vests[x]]],
         gpo |-> [supply |-> all + shares \div price, lastSupply |-> all + shares \div price,
                  daily |-> 0, vestingShares |-> shares, vestingFund |-> shares \div price,
                  pendingShares |-> 0, pendingBmt |-> 0],
         fund |-> [balance |-> 0, claims |-> 0, update |-> 1],
         tally |-> [x \in Witnesses |-> 0],
         escrows |-> <<>>, orders |-> <<>>, content |-> <<>>, routes |-> <<>>,
         delegations |-> <<>>, expiring |-> <<>>, declines |-> <<>>,
         comments |-> comments, votes |-> <<>>, tokens |-> <<>>, holdings |-> <<>>,
         ok |-> TRUE]

\* The tables with x more BMT, all in the reward fund.
Funded(d, x) == [d EXCEPT !.fund.balance = x, !.gpo.supply = @ + x]

\* A post of this moment.
Post(p, price, beneficiary) ==
    p :> [parent |-> NoPost, root |-> p, price |-> price, children |-> 0,
          created |-> 1, cashout |-> 1 + CashoutTime, lastPayout |-> 0, net |-> 0,
          abs |-> 0, up |-> 0, weight |-> 0, curation |-> TRUE, votable |-> TRUE,
          beneficiary |-> beneficiary]

Zero(S) == [x \in S |-> 0]

\* Money is sent into escrow, or directly.
EscrowScenario ==
    [happens |-> {"escrow"},
     db |-> Tables(ann :> 2 @@ bob :> 0 @@ cat :> 0 @@ nul :> 0, Zero({ann, bob, cat, nul}), 1, <<>>)]

\* Payments, some to the null account, and orders on the market.
MarketScenario ==
    [happens |-> {"transfer", "market", "burn"},
     db |-> Tables(ann :> 4 @@ bob :> 2 @@ nul :> 0, Zero({ann, bob, nul}), 1, <<>>)]

\* A buyer with x BMT orders the content of a post.
ContentOrderScenario(x) ==
    [happens |-> {"content order", "encrypted"},
     db |-> Tables(ann :> x @@ bob :> 0 @@ nul :> 0, Zero({ann, bob, nul}), 1,
                   Post(<<bob, 1>>, 1, Self))]

\* Posts and answers to them come and go.
ThreadScenario ==
    [happens |-> {"thread"},
     db |-> Tables(Zero({ann, bob, nul}), ann :> 4 @@ bob :> 4 @@ nul :> 0, 1, <<>>)]

\* The author of a post sets its options before and after the first votes.
OptionsScenario ==
    [happens |-> {"options", "vote"},
     db |-> Funded(Tables(Zero({ann, bob, nul}), ann :> 4 @@ bob :> 3 @@ nul :> 0, 1,
                          Post(<<bob, 1>>, 0, Self)), 20)]

\* Two posts, one with a beneficiary, are voted on and paid out.
VoteScenario ==
    [happens |-> {"vote"},
     db |-> Funded(Tables(Zero({ann, bob, nul}), ann :> 4 @@ bob :> 3 @@ nul :> 0, 1,
                          Post(<<bob, 1>>, 0, Self) @@ Post(<<ann, 1>>, 0, bob)), 20)]

\* Savings grow with the supply, of which five came since the last time.
SavingsScenario ==
    [happens |-> {"savings", "route"},
     db |-> Funded(Tables(ann :> 1 @@ bob :> 0 @@ nul :> 0, Zero({ann, bob, nul}), 1, <<>>), 5)]

\* Chains of proxies, some longer than votes travel.
ProxyScenario ==
    [happens |-> {"voting"},
     db |-> Tables(Zero({ann, bob, cat, eve, nul}),
                   ann :> 1 @@ bob :> 2 @@ cat :> 4 @@ eve :> 8 @@ nul :> 0, 1, <<>>)]

\* Votes move while rewards are claimed and rights are given up.
RightsScenario ==
    LET d == Tables(Zero({ann, bob, cat, nul}), ann :> 1 @@ bob :> 2 @@ cat :> 4 @@ nul :> 0, 1, <<>>)
    IN  [happens |-> {"voting", "rights"},
         db |-> [d EXCEPT !.acct[ann] = [@ EXCEPT !.rewardBmt = 1, !.rewardVests = 2,
                                                !.rewardVestsBmt = 1],
                          !.gpo = [@ EXCEPT !.supply = @ + 2, !.pendingShares = 2,
                                            !.pendingBmt = 1]]]

DelegationScenario ==
    [happens |-> {"delegation"},
     db |-> Tables(ann :> 3 @@ bob :> 0 @@ nul :> 0, ann :> 13 @@ bob :> 10 @@ nul :> 0, 1, <<>>)]

TokenScenario ==
    [happens |-> {"token"},
     db |-> Tables(ann :> 2 @@ bob :> 0 @@ nul :> 0, Zero({ann, bob, nul}), 1, <<>>)]

RecoveryScenario ==
    [happens |-> {"recovery"},
     db |-> Tables(Zero({bob, nul}), Zero({bob, nul}), 1, <<>>)]

\* Orders for negative amounts and at negative prices are paid back.
SignedMarketScenario ==
    [happens |-> {"transfer", "market", "burn", "signed"},
     db |-> Tables(bob :> 2 @@ ann :> 0 @@ nul :> 0, Zero({ann, bob, nul}), 1, <<>>)]
SignedOrderScenario ==
    [happens |-> {"content order", "signed"},
     db |-> Tables(ann :> 2 @@ bob :> 0 @@ nul :> 0, Zero({ann, bob, nul}), 1,
                   Post(<<bob, 1>>, -5, Self))]
SignedAnswerScenario ==
    [happens |-> {"encrypted", "signed"},
     db |-> [Tables(ann :> 2 @@ bob :> 0 @@ nul :> 0, Zero({ann, bob, nul}), 1,
                    Post(<<bob, 1>>, -5, Self))
             EXCEPT !.acct[ann].balance = 7,
                    !.content = <<[owner |-> ann, post |-> <<bob, 1>>, price |-> -5,
                                   status |-> "open"]>>]]

\* Withdrawals of negative amounts, with routes, and by an account that lends.
SignedSavingsScenario ==
    [happens |-> {"savings", "route", "signed"},
     db |-> Tables(bob :> 2 @@ nul :> 0, Zero({bob, nul}), 1, <<>>)]
OverdrawnScenario ==
    [happens |-> {"savings", "delegation", "signed"},
     db |-> Tables(Zero({ann, bob, nul}), ann :> 6 @@ bob :> 5 @@ nul :> 0, 1, <<>>)]

\* initminer saves, votes or lends when its first vests are burnt.
BurntSavingsScenario ==
    [happens |-> {"savings"},
     db |-> Tables(ini :> 1 @@ nul :> 0 @@ bob :> 0, ini :> 12000 @@ nul :> 0 @@ bob :> 0, 1000, <<>>)]
BurntVotesScenario ==
    [happens |-> {"voting", "delegation"},
     db |-> Tables(Zero({ini, bob, nul}), ini :> 12000 @@ bob :> 1000 @@ nul :> 0, 1000, <<>>)]

\* Payments around the block in which the first vests of initminer are burnt.
BurnScenario ==
    [happens |-> {"transfer", "burn"},
     db |-> Tables(ini :> 0 @@ ann :> 2 @@ bob :> 0 @@ nul :> 0,
                   ini :> 12000 @@ ann :> 1000 @@ bob :> 0 @@ nul :> 0, 1000, <<>>)]

MCScenarios == 
    {EscrowScenario, MarketScenario, ContentOrderScenario(2), SavingsScenario,
     ProxyScenario, RightsScenario, DelegationScenario, ThreadScenario,
     OptionsScenario, VoteScenario, TokenScenario, RecoveryScenario,
     BurnScenario, BurntSavingsScenario, BurntVotesScenario,
     SignedMarketScenario, SignedOrderScenario, SignedAnswerScenario,
     SignedSavingsScenario, OverdrawnScenario}
EditScenarios == {ContentOrderScenario(3)}
MCPosts == {<<bob, 1>>, <<ann, 1>>, <<bob, 2>>}
MCNewNames == {eve}
MCSigned == {-5, 1}
MCRshares == {-2, 0, 4}
=============================================================================

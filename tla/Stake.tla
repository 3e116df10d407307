------------------------------- MODULE Stake -------------------------------
(***************************************************************************)
(* Evaluators about vests: approval of witnesses, proxies, giving up the   *)
(* right to vote, delegation, claims of rewards and new accounts; and the  *)
(* work of a block that returns delegations and ends voting rights.        *)
(***************************************************************************)
EXTENDS Accounts, Sequences

CONSTANTS
    Shares,             \* the amounts of vests in operations
    NewNames,           \* names that accounts can be created under
    CreationFee,        \* median_props.account_creation_fee
    UserRate,           \* BMCHAIN_USER_EMISSION_RATE
    DelegationTime,     \* BMCHAIN_CREATE_ACCOUNT_DELEGATION_TIME
    ReturnTime,         \* BMCHAIN_CASHOUT_WINDOW_SECONDS
    DeclineTime,        \* BMCHAIN_OWNER_AUTH_RECOVERY_PERIOD
    BurnBlock,          \* BMCHAIN_BURN_INIT_REP_BLOCK
    InitMiner,          \* initminer
    InitRep             \* BMCHAIN_INIT_SUPPLY_REP

ASSUME StakeAssumption ==
    /\ DelegationTime \in Nat /\ ReturnTime \in Nat /\ DeclineTime \in Nat \ {0}
    /\ UserRate \in Int /\ InitRep \in Int /\ CreationFee \in Int
    /\ Shares \subseteq Nat

MaxWitnessVotes == 30
DelegationRatio == 5

---------------------------------------------------------------------------
\* Proxies and approval of witnesses

\* The accounts that proxy leads to, without proxy itself.
ProxyChain(proxy) ==
    {Proxy(db, proxy, k) : k \in 1 .. Cardinality(Names(db))} \ {Self}

\* The chain does not come back to account or itself and is not too long.
ProxyFits(account, proxy) ==
    LET chain == ProxyChain(proxy)
    IN  /\ account \notin chain /\ proxy \notin chain
        /\ chain # {} => Cardinality(chain \cup {account, proxy}) <= MaxProxyDepth

\* Mutant of SetProxy: the account's own votes for witnesses stay.
SetProxyKeepsVotes(a, proxy) ==
    LET gone == AdjustProxiedWitnessVotes(db, a, VoteDeltas(db, a, -1))
        set == [gone EXCEPT !.acct[a].proxy = proxy]
    IN  /\ proxy # a /\ db.acct[a].proxy # proxy
        /\ db.acct[a].canVote
        /\ ProxyFits(a, proxy)
        /\ db' = AdjustProxiedWitnessVotes(set, a, VoteDeltas(db, a, 1))
        /\ db'.ok

SetProxy(a, proxy) ==
    LET gone == AdjustProxiedWitnessVotes(db, a, VoteDeltas(db, a, -1))
        set == [ClearWitnessVotes(gone, a) EXCEPT !.acct[a].proxy = proxy]
    IN  /\ proxy # a /\ db.acct[a].proxy # proxy
        /\ db.acct[a].canVote
        /\ ProxyFits(a, proxy)
        /\ db' = AdjustProxiedWitnessVotes(set, a, VoteDeltas(db, a, 1))
        /\ db'.ok

\* Clearing the proxy takes the votes away and clears nothing else.
ClearProxy(a) ==
    /\ db.acct[a].proxy # Self
    /\ db.acct[a].canVote
    /\ db' = [AdjustProxiedWitnessVotes(db, a, VoteDeltas(db, a, -1))
                EXCEPT !.acct[a].proxy = Self]
    /\ db'.ok

\* adjust_witness_vote for one witness.
AdjustWitnessVote(d, w, x) ==
    [d EXCEPT !.tally[w] = @ + x, !.ok = @ /\ d.tally[w] + x <= d.gpo.vestingShares]

ApproveWitness(a, w) ==
    /\ db.acct[a].proxy = Self
    /\ db.acct[a].canVote
    /\ w \notin db.acct[a].votesFor
    /\ Cardinality(db.acct[a].votesFor) < MaxWitnessVotes
    /\ db' = [AdjustWitnessVote(db, w, WitnessVoteWeight(db, a)) EXCEPT
                !.acct[a].votesFor = @ \cup {w}]
    /\ db'.ok

WithdrawWitness(a, w) ==
    /\ db.acct[a].proxy = Self
    /\ w \in db.acct[a].votesFor
    /\ db' = [AdjustWitnessVote(db, w, -WitnessVoteWeight(db, a)) EXCEPT
                !.acct[a].votesFor = @ \ {w}]
    /\ db'.ok

---------------------------------------------------------------------------
\* Giving up the right to vote: declines maps an account to the time at which
\* its request takes effect.

DeclineVotingRights(a) ==
    /\ a \notin DOMAIN db.declines
    /\ db' = [db EXCEPT !.declines = With(@, a, time + DeclineTime)]

CancelDecline(a) ==
    /\ a \in DOMAIN db.declines
    /\ db' = [db EXCEPT !.declines = Restrict(@, DOMAIN @ \ {a})]

\* What process_decline_voting_rights does for one account.
EndVotingRights(d, a) ==
    LET gone == AdjustProxiedWitnessVotes(d, a, VoteDeltas(d, a, -1))
    IN  [ClearWitnessVotes(gone, a) EXCEPT
            !.acct[a].canVote = FALSE, !.acct[a].proxy = Self]

VotingRightsEnded(d, due) == FoldSet(LAMBDA a, e : EndVotingRights(e, a), d, due)

\* The account s with the votes of t.
WithVotes(s, t) ==
    [s EXCEPT !.proxy = t.proxy, !.proxied = t.proxied, !.votesFor = t.votesFor,
              !.canVote = t.canVote]

\* It changes votes and nothing else.
ProcessDeclineVotingRights(d, now) ==
    LET due == {a \in DOMAIN d.declines : d.declines[a] <= now}
        ended == VotingRightsEnded(d, due)
    IN  [d EXCEPT !.acct = [a \in Names(d) |-> WithVotes(@[a], ended.acct[a])],
                  !.tally = ended.tally, !.ok = ended.ok,
                  !.declines = Restrict(@, DOMAIN @ \ due)]

---------------------------------------------------------------------------
\* Delegation: delegations maps delegator and delegatee to the amount and the
\* earliest time of return; expiring holds what is on its way back, a sequence
\* in the order of the objects' numbers.

Available(d, a) ==
    d.acct[a].vests - d.acct[a].delegated - (d.acct[a].toWithdraw - d.acct[a].withdrawn)

\* Both are computed before anything else, and assert that there is a price.
Priced == Converts(Price(db.gpo), CreationFee)
MinDelegation == VestsFor(Price(db.gpo), CreationFee * 10)
MinUpdate == VestsFor(Price(db.gpo), CreationFee)

NewDelegation(from, to, x) ==
    /\ Priced
    /\ from # to /\ <<from, to>> \notin DOMAIN db.delegations
    /\ Available(db, from) >= x /\ x >= MinDelegation
    /\ db' = [db EXCEPT
                !.delegations = With(@, <<from, to>>, [shares |-> x, since |-> time]),
                !.acct[from].delegated = @ + x,
                !.acct[to].received = @ + x]

IncreaseDelegation(from, to, x) ==
    /\ Priced
    /\ <<from, to>> \in DOMAIN db.delegations
    /\ LET delta == x - db.delegations[<<from, to>>].shares
       IN  /\ delta >= 0 /\ delta >= MinUpdate
           /\ Available(db, from) >= delta
           /\ db' = [db EXCEPT
                       !.delegations[<<from, to>>].shares = x,
                       !.acct[from].delegated = @ + delta,
                       !.acct[to].received = @ + delta]

\* What is taken back reaches the delegator later; nothing left removes the
\* delegation.
DecreaseDelegation(from, to, x) ==
    /\ Priced
    /\ <<from, to>> \in DOMAIN db.delegations
    /\ LET old == db.delegations[<<from, to>>]
           delta == old.shares - x
       IN  /\ delta > 0
           /\ x > 0 => delta >= MinUpdate /\ x >= MinDelegation
           /\ db' = [db EXCEPT
                       !.expiring = Append(@, [from |-> from, shares |-> delta,
                                               at |-> Max({time + ReturnTime, old.since})]),
                       !.acct[to].received = @ - delta,
                       !.delegations =
                          IF x > 0 THEN [@ EXCEPT ![<<from, to>>].shares = x]
                          ELSE Restrict(@, DOMAIN @ \ {<<from, to>>})]

\* The vests in the entries K of either table.
SharesOf(t, K) == SumFunction([k \in K |-> t[k].shares])

\* What is on its way back and not due.
StillExpiring(d, now) ==
    LET kept[i \in 0 .. Len(d.expiring)] ==
            IF i = 0 THEN <<>>
            ELSE IF d.expiring[i].at < now THEN kept[i - 1]
            ELSE Append(kept[i - 1], d.expiring[i])
    IN  kept[Len(d.expiring)]

ClearExpiredDelegations(d, now) ==
    LET due == {i \in DOMAIN d.expiring : d.expiring[i].at < now}
        back(a) == SharesOf(d.expiring, {i \in due : d.expiring[i].from = a})
    IN  [d EXCEPT !.expiring = StillExpiring(d, now),
                  !.acct = [a \in Names(d) |->
                               [d.acct[a] EXCEPT !.delegated = @ - back(a)]]]

---------------------------------------------------------------------------
\* Claims and new accounts

\* The vests that a claim moves out of the waiting rewards, and the BMT behind
\* them: a share of it, all of it with the last vests.
ClaimedBmt(s, vests) ==
    IF vests = s.rewardVests THEN s.rewardVestsBmt
    ELSE (vests * s.rewardVestsBmt) \div s.rewardVests

ClaimReward(a, bmt, vests) ==
    LET s == db.acct[a]
        moved == ClaimedBmt(s, vests)
        paid == AdjustBalance(AdjustReward(db, a, -bmt), a, bmt)
        d == [paid EXCEPT
                !.acct[a].vests = @ + vests,
                !.acct[a].rewardVests = @ - vests,
                !.acct[a].rewardVestsBmt = @ - moved,
                !.gpo.vestingShares = @ + vests,
                !.gpo.vestingFund = @ + moved,
                !.gpo.pendingShares = @ - vests,
                !.gpo.pendingBmt = @ - moved]
    IN  /\ bmt > 0 \/ vests > 0
        /\ bmt <= s.rewardBmt /\ vests <= s.rewardVests
        /\ db' = AdjustOwnWitnessVotes(d, a, vests)
        /\ db'.ok

\* The object of a new account.
Created == [NewAccount EXCEPT !.id = Cardinality(Names(db)), !.lastVote = time]

AccountCreate(creator, name, fee) ==
    LET d == [AdjustBalance(db, creator, -fee) EXCEPT
                !.acct = With(@, name, Created),
                !.fund.balance = @ + fee]
    IN  /\ name \in NewNames \ Names(db)
        /\ db.acct[creator].balance >= fee /\ fee >= CreationFee
        /\ db' = ProcessFunds(d, UserRate)

AccountCreateWithDelegation(creator, name, fee, x) ==
    LET paid == AdjustBalance(db, creator, -fee)
        accounts == [paid.acct EXCEPT ![creator].delegated = @ + x]
        d == [paid EXCEPT
                !.acct = With(accounts, name, [Created EXCEPT !.received = x]),
                !.delegations =
                   IF x = 0 THEN @
                   ELSE With(@, <<creator, name>>,
                             [shares |-> x, since |-> time + DelegationTime])]
    IN  /\ name \in NewNames \ Names(db)
        /\ db.acct[creator].balance >= fee /\ fee >= CreationFee
        /\ Available(db, creator) >= x
        /\ Priced
        /\ VestsFor(Price(db.gpo), fee * DelegationRatio) + x
              >= VestsFor(Price(db.gpo), CreationFee * DelegationRatio)
        /\ db' = IF fee > 0 THEN CreateVesting(d, name, fee) ELSE d
        /\ db'.ok

\* The vests that initminer had at the beginning are destroyed in one block;
\* tables without initminer stand for times far from that block.
BurnInitRep(d, n) ==
    IF n = BurnBlock /\ InitMiner \in Names(d)
    THEN [d EXCEPT !.acct[InitMiner].vests = @ - InitRep,
                   !.gpo.supply = @ - InitRep \div 1000,
                   !.gpo.vestingShares = @ - InitRep,
                   !.gpo.vestingFund = @ - InitRep \div 1000]
    ELSE d
=============================================================================

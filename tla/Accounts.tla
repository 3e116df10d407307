------------------------------ MODULE Accounts ------------------------------
(***************************************************************************)
(* What the evaluators share: accounts with their balances, the global     *)
(* totals, the reward fund, the votes of witnesses, and the functions of   *)
(* database.cpp that move them. An operator takes the state d before it    *)
(* and returns the state after it, so that evaluators and the work at the  *)
(* end of a block are compositions in the order of the source.             *)
(***************************************************************************)
EXTENDS HeadBlock, FiniteSetsExt, Functions

CONSTANTS
    Null,           \* BMCHAIN_NULL_ACCOUNT
    Self,           \* BMCHAIN_PROXY_TO_SELF_ACCOUNT, the empty name
    Producer,       \* the account of current_witness
    Witnesses,      \* the witnesses that can be voted for
    MaxProxyDepth,  \* BMCHAIN_MAX_PROXY_RECURSION_DEPTH
    DailyRate,      \* BMCHAIN_DAILY_INFLATION_RATE_RESTRICTION, percent a year
    DaysPerYear,    \* 365
    BlocksPerDay    \* 20 * 60 * 24

\* The tables: acct, gpo (dynamic_global_property_object), fund
\* (reward_fund_object), tally (votes of each witness), escrows, orders,
\* content orders, routes, delegations, expiring, declines, comments, votes,
\* tokens and holdings; and ok, which is FALSE after an assertion that failed:
\* an operation or a block that gets there is not applied.
VARIABLE db

Depths == 0 .. MaxProxyDepth - 1
Deltas == 0 .. MaxProxyDepth

\* f with the entry v under the key k, which may be new.
With(f, k, v) == [x \in DOMAIN f \cup {k} |-> IF x = k THEN v ELSE f[x]]

\* An account_object as it is constructed.
NewAccount ==
    [id |-> 0, balance |-> 0, savings |-> 0, vests |-> 0, rewardBmt |-> 0,
     rewardVests |-> 0, rewardVestsBmt |-> 0, delegated |-> 0, received |-> 0,
     proxy |-> Self, proxied |-> [i \in Depths |-> 0], canVote |-> TRUE,
     votesFor |-> {}, rate |-> 0, nextWithdrawal |-> Never, toWithdraw |-> 0,
     withdrawn |-> 0, lastRootPost |-> -Never, lastPost |-> -Never,
     lastVote |-> -Never]

Names(d) == DOMAIN d.acct

---------------------------------------------------------------------------
\* Balances

AdjustBalance(d, a, x) == [d EXCEPT !.acct[a].balance = @ + x]
AdjustSavings(d, a, x) == [d EXCEPT !.acct[a].savings = @ + x]
AdjustReward(d, a, x) == [d EXCEPT !.acct[a].rewardBmt = @ + x]

\* adjust_balance for each of a set of objects, x[o] to the account who[o].
PayEach(d, who, x) ==
    [d EXCEPT !.acct = [a \in Names(d) |-> [d.acct[a] EXCEPT
        !.balance = @ + SumFunctionOnSet(x, {o \in DOMAIN x : who[o] = a})]]]

---------------------------------------------------------------------------
\* Votes for witnesses through proxies

\* The account that votes for a after k proxies, or Self past the end.
Proxy(d, a, k) ==
    LET up[i \in 0 .. k] ==
            IF i = 0 THEN a
            ELSE IF up[i - 1] = Self THEN Self ELSE d.acct[up[i - 1]].proxy
    IN  up[k]

WitnessVoteWeight(d, a) ==
    d.acct[a].vests + SumFunction(d.acct[a].proxied)

\* adjust_witness_vote for each witness that a votes for; it asserts that a
\* witness has no more votes than there are vests.
AdjustWitnessVotes(d, a, x) ==
    LET tally == [w \in Witnesses |-> d.tally[w] + IF w \in d.acct[a].votesFor THEN x ELSE 0]
    IN  [d EXCEPT !.tally = tally,
                  !.ok = @ /\ \A w \in d.acct[a].votesFor : tally[w] <= d.gpo.vestingShares]

\* Each proxy of a adds the deltas, shifted by its distance, to the votes it
\* carries; the account at the end of the chain, if it is not too far away,
\* passes their sum to the witnesses it votes for.
AdjustProxiedWitnessVotes(d, a, delta) ==
    LET at(p) == {k \in Depths : Proxy(d, a, k + 1) = p}
        carried(p, i) == SumFunction([k \in {k \in at(p) : k <= i} |-> delta[i - k]])
        last == {k \in Deltas : /\ Proxy(d, a, k) # Self
                                /\ Proxy(d, a, k + 1) = Self}
        d1 == [d EXCEPT !.acct = [p \in Names(d) |-> [d.acct[p] EXCEPT
                  !.proxied = [i \in Depths |-> @[i] + carried(p, i)]]]]
    IN  IF last = {} THEN d1
        ELSE LET k == CHOOSE k \in last : TRUE
             IN  AdjustWitnessVotes(d1, Proxy(d, a, k),
                     SumFunctionOnSet(delta, 0 .. MaxProxyDepth - k))

\* The overload for one amount of the account's own.
AdjustOwnWitnessVotes(d, a, x) ==
    AdjustProxiedWitnessVotes(d, a, [i \in Deltas |-> IF i = 0 THEN x ELSE 0])

\* All that an account votes with, its own vests first.
VoteDeltas(d, a, sign) ==
    [i \in Deltas |-> sign * IF i = 0 THEN d.acct[a].vests
                                      ELSE d.acct[a].proxied[i - 1]]

ClearWitnessVotes(d, a) == [d EXCEPT !.acct[a].votesFor = {}]

---------------------------------------------------------------------------
\* Vesting

\* A share of x in unsigned arithmetic: it is asserted that the whole is not
\* zero and that the result fits, which it does not if anything is negative.
Fits(x, part, whole) == x >= 0 /\ part >= 0 /\ whole > 0
Share(x, part, whole) == IF Fits(x, part, whole) THEN (x * part) \div whole ELSE 0

\* get_vesting_share_price and get_reward_vesting_share_price: vests for BMT.
Price(g) ==
    IF g.vestingFund = 0 \/ g.vestingShares = 0
    THEN [shares |-> 1000000, fund |-> 1000]
    ELSE [shares |-> g.vestingShares, fund |-> g.vestingFund]

RewardPrice(g) ==
    [shares |-> g.vestingShares + g.pendingShares, fund |-> g.vestingFund + g.pendingBmt]

\* An amount of BMT times a price, and whether the assertions on it hold.
Converts(price, bmt) == Fits(bmt, price.shares, price.fund)
VestsFor(price, bmt) == Share(bmt, price.shares, price.fund)

\* create_vesting for the balance of vests.
CreateVesting(d, a, bmt) ==
    LET new == VestsFor(Price(d.gpo), bmt)
        d1 == [d EXCEPT !.acct[a].vests = @ + new,
                        !.gpo.vestingFund = @ + bmt,
                        !.gpo.vestingShares = @ + new,
                        !.ok = @ /\ Converts(Price(d.gpo), bmt)]
    IN  AdjustOwnWitnessVotes(d1, a, new)

\* create_vesting for the rewards that wait to be claimed.
CreateRewardVesting(d, a, bmt) ==
    LET new == VestsFor(RewardPrice(d.gpo), bmt)
    IN  [d EXCEPT !.acct[a].rewardVests = @ + new,
                  !.acct[a].rewardVestsBmt = @ + bmt,
                  !.gpo.pendingShares = @ + new,
                  !.gpo.pendingBmt = @ + bmt,
                  !.ok = @ /\ Converts(RewardPrice(d.gpo), bmt)]

---------------------------------------------------------------------------
\* Emission

DayBoundary == num % BlocksPerDay = 0

\* The emission of the day has reached its share of the supply.
Exhausted(g) == g.daily >= ((g.supply * DailyRate) \div 100) \div DaysPerYear

\* process_funds_bmchain: nine tenths of new go to the reward fund, the rest
\* to the witness of the block.
ProcessFunds(d, new) ==
    LET content == (new * 90) \div 100
    IN  IF Exhausted(d.gpo) /\ ~DayBoundary THEN d
        ELSE [AdjustBalance(d, Producer, new - content) EXCEPT
                !.fund.balance = @ + content,
                !.gpo.supply = @ + new,
                !.gpo.daily = IF DayBoundary THEN new ELSE @ + new]

---------------------------------------------------------------------------
\* What the null account holds is destroyed, in each of its balances what is
\* more than zero.

Positive(x) == IF x > 0 THEN x ELSE 0

ClearNullAccountBalance(d) ==
    LET n == d.acct[Null]
        vests == Positive(n.vests)
        price == Price(d.gpo)
        converted == Share(vests, price.fund, price.shares)
        promised == IF n.rewardVests > 0 THEN n.rewardVestsBmt ELSE 0
        burnt == Positive(n.balance) + Positive(n.savings) + converted
                    + Positive(n.rewardBmt) + promised
    IN  [d EXCEPT
           !.acct[Null] = [n EXCEPT
              !.balance = @ - Positive(@), !.savings = @ - Positive(@),
              !.vests = @ - vests, !.rewardBmt = @ - Positive(@),
              !.rewardVests = @ - Positive(@), !.rewardVestsBmt = @ - promised],
           !.gpo.vestingShares = @ - vests,
           !.gpo.vestingFund = @ - converted,
           !.gpo.pendingShares = @ - Positive(n.rewardVests),
           !.gpo.pendingBmt = @ - promised,
           !.gpo.supply = @ - burnt,
           !.ok = @ /\ (vests > 0 => Fits(vests, price.fund, price.shares))]
=============================================================================

------------------------------ MODULE Payments ------------------------------
(***************************************************************************)
(* Evaluators that move BMT between accounts, now or later: transfers,     *)
(* escrow, orders on the market, orders for content, savings and their     *)
(* withdrawal in steps; and the work of a block that ends what is due.     *)
(* Only BMT can be sold on the market, so that orders there never match.   *)
(***************************************************************************)
EXTENDS Accounts, SequencesExt

CONSTANTS
    Amounts,            \* the amounts of operations
    Signed,             \* amounts of either sign
    Intervals,          \* BMCHAIN_SAVINGS_WITHDRAW_INTERVALS
    IntervalTime,       \* BMCHAIN_SAVINGS_WITHDRAW_INTERVAL_SECONDS
    RewardBlocks,       \* BMCHAIN_SAVINGS_REWARD_INTERVAL_BLOCKS
    SavingsRate,        \* BMCHAIN_SAVINGS_EMISSION_RATE, percent
    MaxOrders,          \* bound on the orders for content
    Percents            \* the percentages of routes, of 100

ASSUME PaymentsAssumption ==
    /\ Amounts \cup Signed \subseteq Int /\ Percents \subseteq Int /\ SavingsRate \in Int
    /\ Intervals \in Nat \ {0} /\ IntervalTime \in Nat /\ RewardBlocks \in Nat \ {0}

MaxRoutes == 10

Without(f, k) == Restrict(f, DOMAIN f \ {k})

Transfer(from, to, x) ==
    /\ x > 0
    /\ db.acct[from].balance >= x
    /\ db' = AdjustBalance(AdjustBalance(db, from, -x), to, x)

---------------------------------------------------------------------------
\* Escrow: an escrow_object is found by its sender and a number.

EscrowTransfer(from, to, agent, id, x, fee, ratify, expire) ==
    /\ agent \notin {from, to}
    /\ time < ratify /\ ratify < expire
    /\ db.acct[from].balance >= x + fee
    /\ <<from, id>> \notin DOMAIN db.escrows
    /\ db' = [AdjustBalance(db, from, -(x + fee)) EXCEPT
                !.escrows = With(@, <<from, id>>,
                    [to |-> to, agent |-> agent, balance |-> x, fee |-> fee,
                     ratify |-> ratify, expire |-> expire, toApproved |-> FALSE,
                     agentApproved |-> FALSE, disputed |-> FALSE])]

Approved(e) == e.toApproved /\ e.agentApproved

\* One of the two approves; the second approval pays the agent.
EscrowApprove(k, who) ==
    /\ k \in DOMAIN db.escrows
    /\ LET e == db.escrows[k]
           e1 == [e EXCEPT !.toApproved = @ \/ who = e.to,
                           !.agentApproved = @ \/ who = e.agent]
       IN  /\ who \in {e.to, e.agent}
           /\ e.ratify >= time
           /\ who = e.to => ~e.toApproved
           /\ who = e.agent => ~e.agentApproved
           /\ db' = IF Approved(e1)
                    THEN [AdjustBalance(db, e.agent, e.fee) EXCEPT
                             !.escrows[k] = [e1 EXCEPT !.fee = 0]]
                    ELSE [db EXCEPT !.escrows[k] = e1]

\* Mutant of EscrowReject: the fee is not paid back.
EscrowRejectKeepsFee(k, who) ==
    /\ k \in DOMAIN db.escrows
    /\ LET e == db.escrows[k]
       IN  /\ who \in {e.to, e.agent}
           /\ e.ratify >= time
           /\ who = e.to => ~e.toApproved
           /\ who = e.agent => ~e.agentApproved
           /\ db' = [AdjustBalance(db, k[1], e.balance) EXCEPT
                       !.escrows = Without(@, k)]

\* One of the two refuses; the sender is paid back.
EscrowReject(k, who) ==
    /\ k \in DOMAIN db.escrows
    /\ LET e == db.escrows[k]
       IN  /\ who \in {e.to, e.agent}
           /\ e.ratify >= time
           /\ who = e.to => ~e.toApproved
           /\ who = e.agent => ~e.agentApproved
           /\ db' = [AdjustBalance(db, k[1], e.balance + e.fee) EXCEPT
                       !.escrows = Without(@, k)]

EscrowDispute(k) ==
    /\ k \in DOMAIN db.escrows
    /\ LET e == db.escrows[k]
       IN  time < e.expire /\ Approved(e) /\ ~e.disputed
    /\ db' = [db EXCEPT !.escrows[k].disputed = TRUE]

\* Who may send the money where: the agent in a dispute; before the end each
\* party to the other; after it each party to either.
MayRelease(e, from, who, receiver) ==
    /\ receiver \in {from, e.to}
    /\ IF e.disputed THEN who = e.agent
       ELSE /\ who \in {from, e.to}
            /\ e.expire > time =>
                  IF who = from THEN receiver = e.to ELSE receiver = from

EscrowRelease(k, who, receiver, x) ==
    /\ k \in DOMAIN db.escrows
    /\ LET e == db.escrows[k]
           d == AdjustBalance(db, receiver, x)
       IN  /\ e.balance >= x
           /\ Approved(e)
           /\ MayRelease(e, k[1], who, receiver)
           /\ db' = IF e.balance = x
                    THEN [d EXCEPT !.escrows = Without(@, k)]
                    ELSE [d EXCEPT !.escrows[k].balance = @ - x]

\* Mutant of ExpireEscrowRatification: one escrow in a block.
ExpireEscrowRatificationOne(d, now) ==
    LET due == {k \in DOMAIN d.escrows :
                   ~Approved(d.escrows[k]) /\ d.escrows[k].ratify <= now}
        first == IF due = {} THEN {} ELSE {CHOOSE k \in due : TRUE}
    IN  [PayEach(d, [k \in first |-> k[1]],
                 [k \in first |-> d.escrows[k].balance + d.escrows[k].fee])
            EXCEPT !.escrows = Restrict(@, DOMAIN @ \ first)]

\* An escrow that is not approved in time is paid back.
ExpireEscrowRatification(d, now) ==
    LET due == {k \in DOMAIN d.escrows :
                   ~Approved(d.escrows[k]) /\ d.escrows[k].ratify <= now}
    IN  [PayEach(d, [k \in due |-> k[1]],
                 [k \in due |-> d.escrows[k].balance + d.escrows[k].fee])
            EXCEPT !.escrows = Restrict(@, DOMAIN @ \ due)]

---------------------------------------------------------------------------
\* Orders on the market

LimitOrderCreate(a, id, x, expire) ==
    /\ expire > time
    /\ db.acct[a].balance >= x
    /\ <<a, id>> \notin DOMAIN db.orders
    /\ db' = [AdjustBalance(db, a, -x) EXCEPT
                !.orders = With(@, <<a, id>>, [forSale |-> x, expire |-> expire])]

CancelOrder(d, k) ==
    [AdjustBalance(d, k[1], d.orders[k].forSale) EXCEPT !.orders = Without(@, k)]

LimitOrderCancel(a, id) ==
    /\ <<a, id>> \in DOMAIN db.orders
    /\ db' = CancelOrder(db, <<a, id>>)

ClearExpiredOrders(d, now) ==
    LET due == {k \in DOMAIN d.orders : d.orders[k].expire < now}
    IN  [PayEach(d, [k \in due |-> k[1]], [k \in due |-> d.orders[k].forSale])
            EXCEPT !.orders = Restrict(@, DOMAIN @ \ due)]

---------------------------------------------------------------------------
\* Orders for encrypted content. They are numbered and stay; the sequence is
\* content_order_index. A post is its author and a permlink.

OrderOf(owner, post) ==
    {k \in DOMAIN db.content : db.content[k].owner = owner /\ db.content[k].post = post}

ContentOrderCreate(owner, post, price) ==
    /\ post[1] # owner
    /\ post \in DOMAIN db.comments
    /\ db.acct[owner].balance > price
    /\ db.comments[post].price <= price
    /\ OrderOf(owner, post) = {}
    /\ Len(db.content) < MaxOrders
    /\ db' = [AdjustBalance(db, owner, -price) EXCEPT
                !.content = Append(@, [owner |-> owner, post |-> post,
                                       price |-> price, status |-> "open"])]

\* The same order again, at another price while it is open.
ContentOrderEdit(owner, post, price) ==
    /\ post \in DOMAIN db.comments
    /\ db.acct[owner].balance > price
    /\ db.comments[post].price <= price
    /\ \E k \in OrderOf(owner, post) :
          /\ db.content[k].status = "open" /\ db.content[k].price # price
          /\ db' = [AdjustBalance(db, owner, -(db.content[k].price - price)) EXCEPT
                      !.content[k].price = price]

\* An open order ends and a is paid its price.
EndOrder(d, k, a, status) ==
    [AdjustBalance(d, a, d.content[k].price) EXCEPT !.content[k].status = status]

ContentOrderCancel(a, k) ==
    /\ db.content[k].status = "open"
    /\ db' = EndOrder(db, k, a, "canceled")

ContentOrderCancelByAuthor(k) ==
    /\ db.content[k].status = "open"
    /\ db' = EndOrder(db, k, db.content[k].owner, "canceled")

---------------------------------------------------------------------------
\* Savings

TransferToSavings(from, to, x) ==
    /\ x > 0
    /\ db.acct[from].balance >= x
    /\ db' = AdjustSavings(AdjustBalance(db, from, -x), to, x)

\* Division that rounds towards zero, by y > 0, and what it leaves, which does
\* not depend on the sign of the divisor.
Quotient(x, y) == IF x >= 0 THEN x \div y ELSE -((-x) \div y)
Remainder(x, y) == LET m == IF y < 0 THEN -y ELSE y IN x - m * Quotient(x, m)

\* The amount may be negative.
WithdrawSavings(a, x) ==
    LET each == Quotient(x, Intervals)
        rate == IF each = 0 THEN 1 ELSE each
    IN  /\ db.acct[a].savings >= 0
        /\ x # 0 /\ db.acct[a].rate # rate
        /\ db' = [db EXCEPT !.acct[a] = [@ EXCEPT
                    !.rate = rate, !.nextWithdrawal = time + IntervalTime,
                    !.toWithdraw = x, !.withdrawn = 0]]

StopWithdrawal(a) ==
    /\ db.acct[a].savings >= 0
    /\ db.acct[a].rate # 0
    /\ db' = [db EXCEPT !.acct[a] = [@ EXCEPT
                !.rate = 0, !.nextWithdrawal = Never,
                !.toWithdraw = 0, !.withdrawn = 0]]

RoutesOf(d, a) == {r \in DOMAIN d.routes : r[1] = a}

\* Creates, changes or, with 0 percent, removes the route from a to b. (Routes
\* to the account with number 0, which no user has, are not looked at.)
SetWithdrawRoute(a, b, percent, autoVest) ==
    LET old == <<a, b>> \in DOMAIN db.routes
        routes == IF percent = 0 THEN Without(db.routes, <<a, b>>)
                  ELSE With(db.routes, <<a, b>>,
                            [percent |-> percent, autoVest |-> autoVest])
        new == [db EXCEPT !.routes = routes]
    IN  /\ ~old => percent # 0 /\ Cardinality(RoutesOf(db, a)) < MaxRoutes
        /\ SumFunction([r \in RoutesOf(new, a) |-> routes[r].percent]) <= 100
        /\ db' = new

\* The next part of a withdrawal.
WithdrawStep(a) ==
    Min({a.savings, IF a.toWithdraw - a.withdrawn < a.rate
                    THEN Remainder(a.toWithdraw, a.rate) ELSE a.rate})

\* Each route of an account that is due takes its percentage of the step, the
\* rest stays. Every payment moves the next step on; without one the account
\* stays due. A percentage is taken in unsigned arithmetic, which asserts that
\* the step is not negative.
Withdrawn(d, a) ==
    LET s == d.acct[a]
        share == [r \in RoutesOf(d, a) |->
                     IF d.routes[r].autoVest THEN 0
                     ELSE (WithdrawStep(s) * d.routes[r].percent) \div 100]
        paid == {r \in DOMAIN share : share[r] > 0}
        sum == SumFunctionOnSet(share, paid)
        done == s.withdrawn + sum >= s.toWithdraw \/ s.savings = sum
        after == [s EXCEPT !.savings = @ - sum, !.withdrawn = @ + sum,
                           !.rate = IF done THEN 0 ELSE @,
                           !.nextWithdrawal = IF done THEN Never
                                ELSE @ + IntervalTime * Cardinality(paid)]
        fits == WithdrawStep(s) >= 0 \/ \A r \in DOMAIN share : d.routes[r].autoVest
        e == IF paid = {} THEN d
             ELSE PayEach([d EXCEPT !.acct[a] = after], [r \in paid |-> r[2]],
                          Restrict(share, paid))
    IN  [e EXCEPT !.ok = @ /\ fits]

\* by_next_savings_withdrawal, then by number.
ByNextWithdrawal(x, y) ==
    \/ x.nextWithdrawal < y.nextWithdrawal
    \/ x.nextWithdrawal = y.nextWithdrawal /\ x.id < y.id

\* The account of S that is first in the index, or none; the one that comes
\* after a.
FirstInLine(d, S) ==
    {a \in S : \A b \in S \ {a} : ByNextWithdrawal(d.acct[a], d.acct[b])}
NextInLine(d, a) ==
    FirstInLine(d, {b \in Names(d) : ByNextWithdrawal(d.acct[a], d.acct[b])})

\* One step of the walk along that index, from the account in s.at.
WithdrawalVisit(s, now) ==
    IF \E a \in s.at : s.d.acct[a].nextWithdrawal <= now
    THEN LET a == CHOOSE a \in s.at : s.d.acct[a].nextWithdrawal <= now
         IN  [d |-> Withdrawn(s.d, a), at |-> NextInLine(s.d, a)]
    ELSE [d |-> s.d, at |-> {}]

\* The walk, in which each payment moves the account further on, so that one
\* that is far behind can be met again.
WithdrawalWalk(d, now) ==
    LET walk[k \in 0 .. Cardinality(Names(d)) * MaxTime] ==
            IF k = 0 THEN [d |-> d, at |-> FirstInLine(d, Names(d))]
            ELSE WithdrawalVisit(walk[k - 1], now)
    IN  walk[Cardinality(Names(d)) * MaxTime].d

\* process_vesting_withdrawals changes accounts and nothing else.
ProcessVestingWithdrawals(d, now) ==
    LET w == WithdrawalWalk(d, now)
    IN  [d EXCEPT !.acct = w.acct, !.ok = w.ok]

\* process_savings_reward: savings share in the growth of the supply since the
\* last time; n is the number of the block.
ProcessSavingsReward(d, n) ==
    LET growth == (d.gpo.supply - d.gpo.lastSupply) * SavingsRate
        all == SumFunction([a \in Names(d) |-> d.acct[a].savings])
        reward == [a \in Names(d) |->
                      IF d.acct[a].savings > 0
                      THEN Quotient(growth * d.acct[a].savings, 100 * all) ELSE 0]
        sum == SumFunction(reward)
    IN  IF n % RewardBlocks # 0 \/ growth = 0 \/ all <= 0 THEN d
        ELSE [d EXCEPT !.acct = [a \in Names(d) |->
                          [d.acct[a] EXCEPT !.savings = @ + reward[a]]],
                       !.gpo.supply = @ + sum,
                       !.gpo.lastSupply = d.gpo.supply + sum]
=============================================================================

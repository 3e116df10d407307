----------------------------- MODULE Operations -----------------------------
(***************************************************************************)
(* The evaluators together: the operations of a block in any order, then   *)
(* the work at its end in the order of database::_apply_block.             *)
(***************************************************************************)
EXTENDS Stake, Content, Tokens, AccountRecovery

CONSTANTS
    Scenarios,      \* the records [happens, db] that behaviours start from
    Ids             \* the numbers of escrows and orders

TableNames ==
    {"acct", "gpo", "fund", "tally", "escrows", "orders", "content", "routes",
     "delegations", "expiring", "declines", "comments", "votes", "tokens", "holdings",
     "ok"}

\* Everything in the tables d that has a deadline is still to come at the time
\* now of block n.
InTime(d, now, n) ==
    /\ \A k \in DOMAIN d.escrows : Approved(d.escrows[k]) \/ d.escrows[k].ratify > now
    /\ \A k \in DOMAIN d.orders : d.orders[k].expire >= now
    /\ \A i \in DOMAIN d.expiring : d.expiring[i].at >= now
    /\ \A a \in DOMAIN d.declines : d.declines[a] > now
    /\ \A p \in DOMAIN d.comments : n > FirstPayout => d.comments[p].cashout > now

\* The dates in the tables d are dates.
Dated(d) ==
    /\ DOMAIN d = TableNames
    /\ \A k \in DOMAIN d.escrows : LET e == d.escrows[k] IN
          /\ {"ratify", "toApproved", "agentApproved"} \subseteq DOMAIN e
          /\ e.ratify \in Int /\ {e.toApproved, e.agentApproved} \subseteq BOOLEAN
    /\ \A k \in DOMAIN d.orders : d.orders[k].expire \in Int
    /\ \A k \in DOMAIN d.delegations :
          "since" \in DOMAIN d.delegations[k] /\ d.delegations[k].since \in Int
    /\ d.expiring \in Seq(Range(d.expiring))
    /\ \A i \in DOMAIN d.expiring : d.expiring[i].at \in Int
    /\ \A a \in DOMAIN d.declines : d.declines[a] \in Int
    /\ \A p \in DOMAIN d.comments :
          "cashout" \in DOMAIN d.comments[p] /\ d.comments[p].cashout \in Int

\* The objects of each table hold amounts, and the accounts they name exist.
AccountOK(s) ==
    /\ DOMAIN s = DOMAIN NewAccount
    /\ {s.balance, s.savings, s.vests, s.rewardBmt, s.rewardVests, s.rewardVestsBmt,
        s.toWithdraw, s.withdrawn, s.nextWithdrawal} \subseteq Int
    /\ s.rate \in Int /\ (s.rate = 0 => s.nextWithdrawal = Never)

AccountTable(t) == IsFiniteSet(DOMAIN t) /\ \A a \in DOMAIN t : AccountOK(t[a])

EscrowTable(t, names) ==
    /\ IsFiniteSet(DOMAIN t)
    /\ \A k \in DOMAIN t :
          /\ {"to", "agent", "balance", "fee", "toApproved", "agentApproved"} \subseteq DOMAIN t[k]
          /\ {k[1], t[k].to, t[k].agent} \subseteq names /\ {t[k].balance, t[k].fee} \subseteq Int
          /\ Approved(t[k]) => t[k].fee = 0

OrderTable(t, names) ==
    /\ IsFiniteSet(DOMAIN t)
    /\ \A k \in DOMAIN t : k[1] \in names /\ t[k].forSale \in Int

ContentTable(t, names) ==
    /\ t \in Seq(Range(t))
    /\ \A k \in DOMAIN t :
          /\ {"owner", "price", "status"} \subseteq DOMAIN t[k]
          /\ t[k].owner \in names /\ t[k].price \in Int

RouteTable(t, names) ==
    /\ IsFiniteSet(DOMAIN t)
    /\ \A r \in DOMAIN t : r[2] \in names /\ t[r].percent \in Int

CommentTable(t, names) ==
    /\ IsFiniteSet(DOMAIN t)
    /\ \A p \in DOMAIN t :
          /\ {"net", "up", "weight", "created", "beneficiary"} \subseteq DOMAIN t[p]
          /\ {t[p].net, t[p].up, t[p].weight, t[p].created} \subseteq Int
          /\ p[1] \in names /\ t[p].beneficiary \in names \cup {Self}

VoteTable(t, names) ==
    /\ IsFiniteSet(DOMAIN t)
    /\ \A k \in DOMAIN t :
          /\ {"rshares", "weight"} \subseteq DOMAIN t[k]
          /\ k[1] \in names /\ {t[k].rshares, t[k].weight} \subseteq Int

TokenTable(t) ==
    \A s \in DOMAIN t :
       /\ {"supply", "fund", "rate"} \subseteq DOMAIN t[s]
       /\ {t[s].supply, t[s].fund, t[s].rate} \subseteq Int

HoldingTable(t, symbols) ==
    /\ IsFiniteSet(DOMAIN t)
    /\ \A k \in DOMAIN t : k[2] \in symbols /\ t[k] \in Int

Amounted(d) ==
    /\ DOMAIN d = TableNames
    /\ AccountTable(d.acct) /\ {Null, Producer} \subseteq Names(d)
    /\ \A x \in {"supply", "lastSupply", "vestingShares", "vestingFund", "pendingShares",
                 "pendingBmt"} : x \in DOMAIN d.gpo /\ d.gpo[x] \in Int
    /\ \A x \in {"balance", "claims", "update"} : x \in DOMAIN d.fund /\ d.fund[x] \in Int
    /\ EscrowTable(d.escrows, Names(d)) /\ OrderTable(d.orders, Names(d))
    /\ ContentTable(d.content, Names(d)) /\ RouteTable(d.routes, Names(d))
    /\ CommentTable(d.comments, Names(d)) /\ VoteTable(d.votes, Names(d))
    /\ TokenTable(d.tokens) /\ HoldingTable(d.holdings, DOMAIN d.tokens)

\* So do delegations and what is on its way back.
Lending(d) ==
    /\ IsFiniteSet(DOMAIN d.delegations)
    /\ \A k \in DOMAIN d.delegations :
          /\ {k[1], k[2]} \subseteq Names(d)
          /\ "shares" \in DOMAIN d.delegations[k] /\ d.delegations[k].shares \in Int
    /\ d.expiring \in Seq(Range(d.expiring))
    /\ \A i \in DOMAIN d.expiring :
          d.expiring[i].from \in Names(d) /\ d.expiring[i].shares \in Int

\* What the accounts of a table hold in BMT, in vests, in vests and in BMT that
\* wait to be claimed.
Coins(t) == SumFunction([a \in DOMAIN t |-> t[a].balance + t[a].savings + t[a].rewardBmt])
Vests(t) == SumFunction([a \in DOMAIN t |-> t[a].vests])
Unclaimed(t) == SumFunction([a \in DOMAIN t |-> t[a].rewardVests])
Promised(t) == SumFunction([a \in DOMAIN t |-> t[a].rewardVestsBmt])

\* The BMT in orders on the market, in escrow and in open orders for content.
OnSale(t) == SumFunction([k \in DOMAIN t |-> t[k].forSale])
InEscrow(t) == SumFunction([k \in DOMAIN t |-> t[k].balance + t[k].fee])
Reserved(t) ==
    SumFunction([k \in DOMAIN t |-> IF t[k].status = "open" THEN t[k].price ELSE 0])

SupplyExact(d) ==
    d.gpo.supply = Coins(d.acct) + OnSale(d.orders) + InEscrow(d.escrows)
                    + Reserved(d.content) + d.fund.balance + d.gpo.vestingFund
                    + d.gpo.pendingBmt

VestsExact(d) ==
    /\ d.gpo.vestingShares = Vests(d.acct)
    /\ d.gpo.pendingShares = Unclaimed(d.acct)
    /\ d.gpo.pendingBmt = Promised(d.acct)

TokensExact(d) ==
    \A s \in DOMAIN d.tokens :
        d.tokens[s].supply = d.tokens[s].fund
            + SumFunctionOnSet(d.holdings, {k \in DOMAIN d.holdings : k[2] = s})

\* What a has lent to others, what is on its way back to it, and what others
\* have lent to it.
Lent(d, a) == SharesOf(d.delegations, {k \in DOMAIN d.delegations : k[1] = a})
Returning(d, a) == SharesOf(d.expiring, {i \in DOMAIN d.expiring : d.expiring[i].from = a})
Borrowed(d, a) == SharesOf(d.delegations, {k \in DOMAIN d.delegations : k[2] = a})

LoansExact(d) ==
    \A a \in Names(d) :
        /\ d.acct[a].delegated = Lent(d, a) + Returning(d, a)
        /\ d.acct[a].received = Borrowed(d, a)

\* Behaviours start in the first slot, with tables in order that add up and
\* with nothing overdue.
ASSUME ScenariosAssumption ==
    \A s \in Scenarios :
        /\ Dated(s.db) /\ InTime(s.db, 1, 1)
        /\ Amounted(s.db) /\ SupplyExact(s.db) /\ VestsExact(s.db) /\ TokensExact(s.db)
        /\ Lending(s.db) /\ LoansExact(s.db)

\* The families of operations that occur in the behaviour.
VARIABLE happens

vars == <<headVars, happens, db, recoveryVars>>

On(op) == op \in happens

Init ==
    /\ time = 1 /\ num = 1
    /\ \E s \in Scenarios : happens = s.happens /\ db = s.db
    /\ IF On("recovery") THEN RecoveryInit
       ELSE /\ owner = <<>> /\ partner = <<>> /\ former = {}
            /\ request = <<>> /\ change = <<>>

Users == Names(db) \ {Null}

\* The amounts given where validate() does not look at the sign.
Given == IF On("signed") THEN Signed ELSE Amounts

\* Who may receive a payment; payments to the null account are burnt.
Payees == IF On("burn") THEN Names(db) ELSE Users

---------------------------------------------------------------------------
\* Operations, by family

TransferOperation ==
    \E from \in Users, to \in Payees, x \in Amounts : Transfer(from, to, x)

EscrowOperation ==
    \/ \E from, to, agent \in Users, id \in Ids, x \in Amounts, fee \in {0, 1} :
          EscrowTransfer(from, to, agent, id, x, fee, time + 1, time + 2)
    \/ \E k \in DOMAIN db.escrows, who \in Users : EscrowApprove(k, who)
    \/ \E k \in DOMAIN db.escrows, who \in Users : EscrowReject(k, who)
    \/ \E k \in DOMAIN db.escrows : EscrowDispute(k)
    \/ \E k \in DOMAIN db.escrows, who, receiver \in Users, x \in Amounts :
          EscrowRelease(k, who, receiver, x)

MarketOperation ==
    \/ \E a \in Users, id \in Ids, x \in Given, expire \in time + 1 .. time + 2 :
          LimitOrderCreate(a, id, x, expire)
    \/ \E a \in Users, id \in Ids : LimitOrderCancel(a, id)

ContentOrderOperation ==
    \/ \E a \in Users, p \in Posts, x \in Given : ContentOrderCreate(a, p, x)
    \/ \E a \in Users, k \in DOMAIN db.content : ContentOrderCancel(a, k)
    \/ \E k \in DOMAIN db.content : ContentOrderCancelByAuthor(k)

EncryptedOperation ==
    \E p \in Posts, q \in Posts \cup {NoPost}, x \in Given,
        k \in DOMAIN db.content \cup {0} : EncryptedContent(p, q, x, k)

SavingsOperation ==
    \/ \E from \in Users, to \in Payees, x \in Amounts : TransferToSavings(from, to, x)
    \/ \E a \in Users, x \in Given : WithdrawSavings(a, x)
    \/ \E a \in Users : StopWithdrawal(a)

RouteOperation ==
    \E a, b \in Users, percent \in Percents, v \in BOOLEAN :
        SetWithdrawRoute(a, b, percent, v)

VotingOperation ==
    \/ \E a, p \in Users : SetProxy(a, p)
    \/ \E a \in Users : ClearProxy(a)
    \/ \E a \in Users, w \in Witnesses : ApproveWitness(a, w)
    \/ \E a \in Users, w \in Witnesses : WithdrawWitness(a, w)

RightsOperation ==
    \/ \E a \in Users : DeclineVotingRights(a)
    \/ \E a \in Users : CancelDecline(a)
    \/ \E a \in Users : \E bmt \in 0 .. db.acct[a].rewardBmt,
          vests \in 0 .. db.acct[a].rewardVests : ClaimReward(a, bmt, vests)

DelegationOperation ==
    \/ \E a, b \in Users, x \in Shares : NewDelegation(a, b, x)
    \/ \E a, b \in Users, x \in Shares : IncreaseDelegation(a, b, x)
    \/ \E a, b \in Users, x \in Shares : DecreaseDelegation(a, b, x)
    \/ \E a \in Users, n \in NewNames, fee \in Amounts : AccountCreate(a, n, fee)
    \/ \E a \in Users, n \in NewNames, fee \in Amounts, x \in Shares :
          AccountCreateWithDelegation(a, n, fee, x)

ThreadOperation ==
    \/ \E p \in Posts, q \in Posts \cup {NoPost} : Comment(p, q)
    \/ \E p \in Posts : DeleteComment(p)

OptionsOperation ==
    \/ \E p \in Posts, c, v \in BOOLEAN : CommentOptions(p, c, v)
    \/ \E p \in Posts, a \in Payees : NameBeneficiary(p, a)

VoteOperation ==
    \/ \E a \in Users, p \in Posts, r \in Rshares : Vote(a, p, r)
    \/ \E a \in Users, p \in Posts, r \in Rshares : ChangeVote(a, p, r)

TokenOperation ==
    \/ \E a \in Users, s \in Symbols, x, fee \in Amounts : TokenCreate(a, s, x, fee)
    \/ \E a, b \in Users, s \in Symbols, x \in Amounts : TokenTransfer(a, b, s, x)
    \/ \E s \in Symbols, r \in Rates, at \in 1 .. MaxTime, step \in Steps :
          SetupEmissions(s, r, at, step)

RecoveryOperation ==
    \/ \E a \in Owned, new \in Authorities : AccountUpdate(a, new)
    \/ \E by \in Partners \cup TopWitnesses, a \in Owned, new \in Authorities :
          RequestAccountRecovery(by, a, new)
    \/ \E by \in Partners \cup TopWitnesses, a \in Owned : CancelRecovery(by, a)
    \/ \E a \in Owned, recent \in Authorities : RecoverAccount(a, recent)
    \/ \E a \in Owned, new \in Partners : ChangeRecoveryAccount(a, new)

LedgerOperation ==
    \/ On("transfer") /\ TransferOperation
    \/ On("escrow") /\ EscrowOperation
    \/ On("market") /\ MarketOperation
    \/ On("content order") /\ ContentOrderOperation
    \/ On("encrypted") /\ EncryptedOperation
    \/ On("savings") /\ SavingsOperation
    \/ On("route") /\ RouteOperation
    \/ On("voting") /\ VotingOperation
    \/ On("rights") /\ RightsOperation
    \/ On("delegation") /\ DelegationOperation
    \/ On("thread") /\ ThreadOperation
    \/ On("options") /\ OptionsOperation
    \/ On("vote") /\ VoteOperation
    \/ On("token") /\ TokenOperation

---------------------------------------------------------------------------
\* The work at the end of block n at time now. (account_recovery_processing,
\* which comes before expire_escrow_ratification, has tables of its own.)
BlockWork(d, now, n) ==
    LET d1 == ClearExpiredDelegations(ClearExpiredOrders(d, now), now)
        d2 == ProcessCommentCashout(ClearNullAccountBalance(d1), now, n)
        d3 == CustomTokensEmissions(ProcessVestingWithdrawals(d2, now), now, n)
        d4 == ExpireEscrowRatification(ProcessSavingsReward(d3, n), now)
    IN  BurnInitRep(ProcessDeclineVotingRights(d4, now), n)

EndBlock ==
    /\ NextHead
    /\ db' = BlockWork(db, time', num')
    /\ db'.ok
    /\ IF On("recovery") THEN AccountRecoveryProcessing(time')
       ELSE UNCHANGED recoveryVars
    /\ UNCHANGED happens

Next ==
    \/ LedgerOperation /\ UNCHANGED <<headVars, happens, recoveryVars>>
    \/ On("recovery") /\ RecoveryOperation /\ UNCHANGED <<headVars, happens, db>>
    \/ EndBlock

Spec == Init /\ [][Next]_vars

\* With changes of the price of open orders for content.
EditNext ==
    \/ Next
    \/ /\ \E a \in Users, p \in Posts, x \in Amounts : ContentOrderEdit(a, p, x)
       /\ UNCHANGED <<headVars, happens, recoveryVars>>

EditSpec == Init /\ [][EditNext]_vars

---------------------------------------------------------------------------
\* Properties

TypeOK ==
    /\ time \in 1 .. MaxTime /\ num \in 1 .. MaxTime
    /\ \A a \in Names(db) : LET s == db.acct[a] IN
          /\ s.proxy \in Users \cup {Self} /\ s.canVote \in BOOLEAN
          /\ s.votesFor \subseteq Witnesses
          /\ s.nextWithdrawal = Never <=> s.rate = 0
    /\ \A k \in DOMAIN db.content : db.content[k].status \in {"open", "canceled", "completed"}
    /\ \A k \in DOMAIN db.delegations : db.delegations[k].shares \in Nat \ {0}
    /\ \A i \in DOMAIN db.expiring : db.expiring[i].shares \in Nat \ {0}
    /\ \A k \in DOMAIN db.votes : k \in Names(db) \X DOMAIN db.comments
    /\ \A k \in DOMAIN db.holdings : k \in Names(db) \X DOMAIN db.tokens
    /\ On("recovery") => RecoveryTypeOK

\* validate_invariants: the supply of BMT is what accounts hold and what is on
\* its way between them: in orders, in escrow with its fee, in open orders for
\* content, in the reward fund, in the vesting fund and in unclaimed rewards.
SupplyConserved == SupplyExact(db)

\* validate_invariants: the vests in the global totals are those of accounts,
\* and the BMT behind unclaimed vests is what the accounts were promised.
VestsConserved == VestsExact(db)

\* No vests, fund or promise falls below zero, whatever is paid out in the
\* same block: the payouts of posts are computed against one snapshot of the
\* fund.
FundsCovered ==
    /\ \A a \in Names(db) : LET s == db.acct[a] IN
          s.vests >= 0 /\ s.rewardVests >= 0 /\ s.rewardVestsBmt >= 0
    /\ db.fund.balance >= 0 /\ db.fund.claims >= 0 /\ db.gpo.vestingFund >= 0

\* No balance is negative.
Solvent == \A a \in Names(db) : db.acct[a].balance >= 0 /\ db.acct[a].savings >= 0

\* In this step an order for a negative amount ends, for which a has to pay.
OwesForOrder(a) ==
    \/ \E k \in DOMAIN db.orders \ DOMAIN db'.orders : k[1] = a /\ db.orders[k].forSale < 0
    \/ \E k \in DOMAIN db.content : db.content[k].price < 0 /\ db'.content[k] # db.content[k]

\* In this step savings share in a supply that has shrunk.
SavingsPay == db'.gpo.lastSupply < db.gpo.lastSupply

\* Nothing else makes a balance negative.
StaysSolvent ==
    \A a \in Names(db) :
        /\ db'.acct[a].balance >= 0 \/ OwesForOrder(a) \/ db.acct[a].balance < 0
        /\ db'.acct[a].savings >= 0 \/ SavingsPay \/ db.acct[a].savings < 0

\* The accounts whose vests reach p through i + 1 proxies.
Behind(p, i) == {a \in Names(db) : Proxy(db, a, i + 1) = p}

\* The votes that an account carries for others are their vests, by distance,
\* and a witness has the votes of those who approve it, after any order of
\* changes of proxies, in the middle of a chain too, of vests and of rights.
VotesExact ==
    /\ \A p \in Names(db), i \in Depths :
          db.acct[p].proxied[i] = SumFunction([a \in Behind(p, i) |-> db.acct[a].vests])
    /\ \A w \in Witnesses :
          db.tally[w] = SumFunction([a \in {a \in Names(db) : w \in db.acct[a].votesFor} |->
                                       WitnessVoteWeight(db, a)])
    /\ \A a \in Names(db) : db.acct[a].votesFor # {} =>
          db.acct[a].proxy = Self /\ db.acct[a].canVote

\* What an account has delegated is what others hold of it and what is on its
\* way back, and what it has received is what others delegated to it.
LoansConserved == LoansExact(db)

\* No account has delegated more than it owns.
Backed(a) == db.acct[a].delegated <= db.acct[a].vests
DelegationBacked == \A a \in Names(db) : Backed(a)

\* The block that burns vests of initminer looks neither at the votes they
\* stand for nor at who borrows them.
Burnt == num >= BurnBlock /\ InitMiner \in Names(db)
Burns == Burnt' /\ ~Burnt
VotesBurn == Burns /\ (db.acct[InitMiner].votesFor # {} \/ db.acct[InitMiner].proxy # Self)

\* A withdrawal of less than what was withdrawn (of a negative amount, or paid
\* out beyond its end) adds to the vests that count as available.
Overdrawn(a) == db.acct[a].toWithdraw < db.acct[a].withdrawn

\* Nothing else breaks the count of votes or lends vests that are not there.
StakeFollows ==
    /\ Burnt' => VotesExact' \/ VotesBurn \/ ~VotesExact
    /\ \A a \in Names(db) :
          Backed(a)' \/ (Burns /\ a = InitMiner) \/ Overdrawn(a) \/ ~Backed(a)

\* Nothing that has a deadline outlives it: the block that reaches it ends
\* escrows, orders, returning delegations, requests and payouts, however many
\* are due at once and however many slots were missed before it.
NothingOverdue == InTime(db, time, num)

\* Before a post is paid out, its rshares are those of the votes on it, the
\* weight of all votes covers the weights that earn, and so the curators never
\* get more than their part of the reward.
VotesOnPostsExact ==
    \A p \in DOMAIN db.comments : LET c == db.comments[p] IN
        c.lastPayout = 0 =>
            /\ c.net = SumFunction([k \in VotesOn(db, p) |-> db.votes[k].rshares])
            /\ SumFunction([k \in VotesOn(db, p) |-> db.votes[k].weight]) <= c.weight
            /\ c.weight <= CurationCurve(c.up)

\* A post counts the posts below it, through deletions, and what it answers
\* exists, so that the walk up to the first post never fails.
ThreadsExact ==
    \A p \in DOMAIN db.comments :
        /\ db.comments[p].parent \in DOMAIN db.comments \cup {NoPost}
        /\ db.comments[p].children =
              Cardinality({q \in DOMAIN db.comments : p \in Ancestors(db, q)})

\* The supply of a token is what accounts hold of it and its reward fund.
TokensConserved == TokensExact(db)

\* Every variable has its type, no fund is overdrawn, and no balance becomes
\* negative except by two ways that the code leaves open: limit orders and
\* prices of content are not checked for their sign, and savings pay for a
\* supply that has shrunk.
LedgerSound == Solvent /\ [](TypeOK /\ FundsCovered) /\ [][StaysSolvent]_vars

\* validate_invariants, for BMT, vests and tokens, and the same for delegations:
\* what the totals say is what the objects hold, after every operation and
\* every block.
TotalsExact == SupplyConserved /\ VestsConserved /\ TokensConserved /\ LoansConserved

\* Votes that were added and taken away step by step are what a count from
\* scratch gives, and what is delegated is there, through every operation and
\* block but the burning of initminer's vests and, for a delegator whose
\* withdrawal is overdrawn, its delegations.
StakeExact == [](VotesExact \/ Burnt) /\ DelegationBacked /\ [][StakeFollows]_vars

\* So are the votes on posts and the numbers of answers to them.
ContentExact == VotesOnPostsExact /\ ThreadsExact

\* request_account_recovery and recover_account: a lost account stays within
\* reach of the partner its holder relied on, see RecoveryWindow.
RecoverySafe == On("recovery") => RecoveryWindow
=============================================================================

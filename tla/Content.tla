------------------------------ MODULE Content ------------------------------
(***************************************************************************)
(* Evaluators about posts and votes on them, and the payout of posts from  *)
(* the reward fund at the end of a block. A post is its author and a       *)
(* permlink. A vote adds rshares; how much voting power it uses up is left *)
(* out, so that a vote may weigh any amount up to the voter's vests.       *)
(***************************************************************************)
EXTENDS Payments

CONSTANTS
    Posts,              \* the posts there can be, <<author, permlink>>
    NoPost,             \* BMCHAIN_ROOT_POST_PARENT
    Rshares,            \* the rshares of votes
    MaxCommentDepth,    \* BMCHAIN_MAX_COMMENT_DEPTH
    MaxVoteChanges,     \* BMCHAIN_MAX_VOTE_CHANGES
    RootInterval,       \* BMCHAIN_MIN_ROOT_COMMENT_INTERVAL
    ReplyInterval,      \* BMCHAIN_MIN_REPLY_INTERVAL
    VoteInterval,       \* BMCHAIN_MIN_VOTE_INTERVAL_SEC
    CashoutTime,        \* BMCHAIN_CASHOUT_WINDOW_SECONDS
    SecondCashout,      \* BMCHAIN_SECOND_CASHOUT_WINDOW
    UpvoteLockout,      \* BMCHAIN_UPVOTE_LOCKOUT
    AuctionTime,        \* BMCHAIN_REVERSE_AUCTION_WINDOW_SECONDS
    FirstPayout,        \* BMCHAIN_FIRST_PAYOUT_BLOCK
    DecayTime,          \* BMCHAIN_RECENT_RSHARES_DECAY_RATE
    MinPayout,          \* BMCHAIN_MIN_PAYOUT
    PostRate, CommentRate, VoteRate, \* the emission rates
    WeightRange,        \* 2^64, the range of total_vote_weight
    HighestBit          \* bound on the bits of rshares, 127 in the code

ASSUME ContentAssumption ==
    /\ CashoutTime \in Nat \ {0} /\ SecondCashout \in Nat \ {0} /\ FirstPayout \in Nat
    /\ Rshares \subseteq Int /\ {PostRate, CommentRate, VoteRate, MinPayout} \subseteq Int
    /\ {AuctionTime, DecayTime, WeightRange} \subseteq Nat \ {0} /\ HighestBit \in Nat

Wrap(x) == x % WeightRange

---------------------------------------------------------------------------
\* Reward curves

\* The number that has only bit i.
Bit[i \in 0 .. HighestBit] == IF i = 0 THEN 1 ELSE 2 * Bit[i - 1]

\* find_msb: the position of the highest bit of x > 0.
Msb(x) == Max({0} \cup {m \in 0 .. HighestBit : Bit[m] <= x})

\* approx_sqrt: half the exponent, the mantissa shifted along.
ApproxSqrt(x) ==
    IF x = 0 THEN 0
    ELSE LET m == Msb(x)
             z == m \div 2
             high == IF m % 2 = 1 THEN Bit[z] ELSE 0
             low == (x - Bit[m]) \div Bit[m - z]
         IN  Bit[z] + (high + low) \div 2

AuthorCurve(r) == r * r           \* quadratic
CurationCurve(r) == ApproxSqrt(r) \* square_root

---------------------------------------------------------------------------
\* Posts

\* The chain of parents of p, p excluded.
Ancestors(d, p) ==
    LET up[i \in 0 .. Cardinality(DOMAIN d.comments)] ==
            IF i = 0 THEN p
            ELSE IF up[i - 1] = NoPost THEN NoPost ELSE d.comments[up[i - 1]].parent
    IN  {up[i] : i \in 1 .. Cardinality(DOMAIN d.comments)} \ {NoPost}

\* The statistics of the posts that p answers.
CountChildren(d, p, x) ==
    LET above == Ancestors(d, p)
    IN  [d EXCEPT !.comments = [q \in DOMAIN @ |->
            IF q \in above THEN [d.comments[q] EXCEPT !.children = @ + x] ELSE @[q]]]

NewComment(root, parent, price) ==
    [parent |-> parent, root |-> root, price |-> price, children |-> 0,
     created |-> time, cashout |-> time + CashoutTime, lastPayout |-> 0,
     net |-> 0, abs |-> 0, up |-> 0, weight |-> 0, curation |-> TRUE,
     votable |-> TRUE, beneficiary |-> Self]

\* A new post or answer, and the emission for it.
Posted(d, p, parent, price) ==
    LET root == IF parent = NoPost THEN p ELSE d.comments[parent].root
        new == [d EXCEPT
                  !.comments = With(@, p, NewComment(root, parent, price)),
                  !.acct[p[1]].lastPost = time,
                  !.acct[p[1]].lastRootPost = IF parent = NoPost THEN time ELSE @]
    IN  ProcessFunds(CountChildren(new, p, 1),
                     IF parent = NoPost THEN PostRate ELSE CommentRate)

\* There is a post to answer, and it is not too deep in its thread.
Answerable(parent) ==
    \/ parent = NoPost
    \/ parent \in DOMAIN db.comments /\ Cardinality(Ancestors(db, parent)) < MaxCommentDepth

Comment(p, parent) ==
    /\ p[1] \in Names(db) /\ p \notin DOMAIN db.comments
    /\ Answerable(parent)
    /\ IF parent = NoPost THEN time - db.acct[p[1]].lastRootPost >= RootInterval
       ELSE time - db.acct[p[1]].lastPost >= ReplyInterval
    /\ db' = Posted(db, p, parent, 0)

\* Encrypted content has a price, and may deliver an order (0 is none), whose
\* price goes to its author.
EncryptedContent(p, parent, price, order) ==
    LET d == IF order = 0 THEN db ELSE EndOrder(db, order, p[1], "completed")
    IN  /\ p[1] \in Names(db) /\ Answerable(parent)
        /\ order # 0 => db.content[order].status = "open"
        /\ IF p \in DOMAIN db.comments
           THEN db.comments[p].parent = parent /\ db' = d
           ELSE /\ order = 0 /\ parent = NoPost =>
                      time - db.acct[p[1]].lastRootPost >= RootInterval
                /\ db' = Posted(d, p, parent, price)

VotesOn(d, p) == {k \in DOMAIN d.votes : k[2] = p}

DeleteComment(p) ==
    /\ p \in DOMAIN db.comments
    /\ db.comments[p].children = 0
    /\ db.comments[p].cashout # Never
    /\ db.comments[p].net <= 0
    /\ LET d == CountChildren(db, p, -1)
       IN  db' = [d EXCEPT !.comments = Restrict(@, DOMAIN @ \ {p}),
                           !.votes = Restrict(@, DOMAIN @ \ VotesOn(d, p))]

\* Options can only become stricter, and only before a vote; beneficiaries are
\* named once.
CommentOptions(p, curation, votable) ==
    /\ p \in DOMAIN db.comments
    /\ ~curation \/ ~votable => db.comments[p].abs = 0
    /\ curation => db.comments[p].curation
    /\ votable => db.comments[p].votable
    /\ db' = [db EXCEPT !.comments[p].curation = curation,
                        !.comments[p].votable = votable]

NameBeneficiary(p, a) ==
    /\ p \in DOMAIN db.comments
    /\ db.comments[p].beneficiary = Self /\ db.comments[p].abs = 0
    /\ db' = [db EXCEPT !.comments[p].beneficiary = a]

---------------------------------------------------------------------------
\* Votes

Effective(a) == db.acct[a].vests - db.acct[a].delegated + db.acct[a].received

MayVote(a, p, r) ==
    /\ p \in DOMAIN db.comments
    /\ db.acct[a].canVote
    /\ r > 0 => db.comments[p].votable
    /\ time - db.acct[a].lastVote >= VoteInterval
    /\ (IF r < 0 THEN -r ELSE r) <= Effective(a)

\* A vote late enough earns its full weight.
Discounted(w, age) == (w * Min({age, AuctionTime})) \div AuctionTime

Vote(a, p, r) ==
    LET c == db.comments[p]
        abs == IF r < 0 THEN -r ELSE r
        up == c.up + IF r > 0 THEN r ELSE 0
        earns == r > 0 /\ c.lastPayout = 0 /\ c.curation
        most == IF earns THEN Wrap(CurationCurve(up) - CurationCurve(c.up)) ELSE 0
        d == [db EXCEPT
                !.acct[a].lastVote = time,
                !.comments[p] = [c EXCEPT !.net = @ + r, !.abs = @ + abs, !.up = up,
                                          !.weight = Wrap(@ + most)],
                !.votes = With(@, <<a, p>>,
                    [rshares |-> r, changes |-> 0,
                     weight |-> Discounted(most, time - c.created)])]
    IN  /\ MayVote(a, p, r)
        /\ r # 0
        /\ <<a, p>> \notin DOMAIN db.votes
        /\ r > 0 => time < c.cashout - UpvoteLockout
        /\ db' = ProcessFunds(d, VoteRate)

\* Mutant of ChangeVote: the rshares of the old vote stay.
ChangeVoteAdds(a, p, r) ==
    /\ MayVote(a, p, r)
    /\ <<a, p>> \in DOMAIN db.votes
    /\ LET v == db.votes[<<a, p>>]
           c == db.comments[p]
       IN  /\ v.changes < MaxVoteChanges
           /\ v.rshares < r => time < c.cashout - UpvoteLockout
           /\ db' = [db EXCEPT
                       !.acct[a].lastVote = time,
                       !.comments[p] = [c EXCEPT
                           !.net = @ + r,
                           !.abs = @ + IF r < 0 THEN -r ELSE r,
                           !.weight = Wrap(@ - v.weight)],
                       !.votes[<<a, p>>] = [rshares |-> r, weight |-> 0,
                                            changes |-> v.changes + 1]]

\* A change of a vote gives up its share of the curation reward.
ChangeVote(a, p, r) ==
    /\ MayVote(a, p, r)
    /\ <<a, p>> \in DOMAIN db.votes
    /\ LET v == db.votes[<<a, p>>]
           c == db.comments[p]
       IN  /\ v.changes < MaxVoteChanges
           /\ v.rshares < r => time < c.cashout - UpvoteLockout
           /\ db' = [db EXCEPT
                       !.acct[a].lastVote = time,
                       !.comments[p] = [c EXCEPT
                           !.net = @ - v.rshares + r,
                           !.abs = @ + IF r < 0 THEN -r ELSE r,
                           !.weight = Wrap(@ - v.weight)],
                       !.votes[<<a, p>>] = [rshares |-> r, weight |-> 0,
                                            changes |-> v.changes + 1]]

---------------------------------------------------------------------------
\* Payout

\* What pay_curators gives each voter, by weight.
Claim(d, p, k, max) == (max * d.votes[k].weight) \div d.comments[p].weight

PaidCurators(d, p, max) ==
    IF d.comments[p].curation /\ d.comments[p].weight > 0
    THEN {k \in VotesOn(d, p) : Claim(d, p, k, max) > 0} ELSE {}

\* by_comment_weight_voter: the heaviest vote first, then by the voter's number.
ByWeight(d, k, l) ==
    \/ d.votes[k].weight > d.votes[l].weight
    \/ d.votes[k].weight = d.votes[l].weight /\ d.acct[k[1]].id < d.acct[l[1]].id

\* The next of the votes that are left is paid; s holds the tables as well and
\* what was paid so far.
PayNext(s, p, max) ==
    LET next == {k \in s.left : \A l \in s.left : ~ByWeight(s.d, l, k)}
        k == CHOOSE k \in next : TRUE
        claim == Claim(s.d, p, k, max)
    IN  IF next = {} THEN s
        ELSE [d |-> CreateRewardVesting(s.d, k[1], claim), paid |-> s.paid + claim,
              left |-> s.left \ {k}]

PayCurators(d, p, max) ==
    LET all == PaidCurators(d, p, max)
        walk[i \in 0 .. Cardinality(all)] ==
            IF i = 0 THEN [d |-> d, paid |-> 0, left |-> all]
            ELSE PayNext(walk[i - 1], p, max)
    IN  walk[Cardinality(all)]

\* get_rshare_reward: the share of the fund that a post's claim is of all
\* claims, nothing if it is too small.
RshareReward(r, funds) ==
    LET payout == Share(funds.balance, AuthorCurve(r), funds.claims)
    IN  IF payout < MinPayout THEN 0 ELSE payout

\* The author's part of a reward, half of it for the beneficiary if there is
\* one; half of what is left is paid at once, the rest in vests.
PayAuthor(d, author, beneficiary, reward) ==
    LET benefit == IF beneficiary = Self THEN 0 ELSE reward \div 2
        liquid == (reward - benefit) \div 2
        d2 == IF beneficiary = Self THEN d
              ELSE CreateRewardVesting(d, beneficiary, benefit)
    IN  AdjustBalance(CreateVesting(d2, author, reward - benefit - liquid), author, liquid)

\* cashout_comment_helper pays p against the fund as it was when the block's
\* payouts began; s holds the state and what was paid so far.
Cashout(s, p, funds) ==
    LET d == s.d
        c == d.comments[p]
        reward == IF c.net > 0 THEN RshareReward(c.net, funds) ELSE 0
        pool == (reward * 25) \div 100
        curators == PayCurators(d, p, pool)
        unclaimed == IF c.curation THEN pool - curators.paid ELSE 0
        author == reward - pool + unclaimed
        fits == c.net > 0 => Fits(funds.balance, AuthorCurve(c.net), funds.claims)
    IN  IF reward > 0
        THEN [d |-> PayAuthor(curators.d, p[1], c.beneficiary, author),
              paid |-> s.paid + author + curators.paid]
        ELSE [d |-> [d EXCEPT !.ok = @ /\ fits], paid |-> s.paid]

\* The end of cashout_comment_helper: the counters of the post and its next
\* cashout, and the votes on it, which can not be changed any more.
Closed(c, now) ==
    [c EXCEPT !.net = IF @ > 0 THEN 0 ELSE @, !.abs = 0, !.up = 0, !.weight = 0,
              !.cashout = now + SecondCashout, !.lastPayout = now]

ClosePosts(d, posts, now) ==
    [d EXCEPT !.comments = [p \in DOMAIN @ |->
                               IF p \in posts THEN Closed(@[p], now) ELSE @[p]],
              !.votes = [k \in DOMAIN @ |->
                            IF k[2] \in posts THEN [@[k] EXCEPT !.changes = -1] ELSE @[k]]]

\* The posts that are due, and their order by_cashout_time, then by age.
DuePosts(d, now) == {p \in DOMAIN d.comments : d.comments[p].cashout <= now}

ByCashoutTime(c, e) ==
    \/ c.cashout < e.cashout
    \/ c.cashout = e.cashout /\ c.created < e.created

\* The next of the posts that are left is paid out.
CashoutNext(s, funds) ==
    LET posts == s.d.comments
        next == {p \in s.left : \A q \in s.left : ~ByCashoutTime(posts[q], posts[p])}
        p == CHOOSE p \in next : TRUE
        after == Cashout(s, p, funds)
    IN  IF next = {} THEN s
        ELSE [d |-> after.d, paid |-> after.paid, left |-> s.left \ {p}]

\* The accounts and totals after one payout after the other, and what was paid.
CashoutWalk(d, due, funds) ==
    LET walk[i \in 0 .. Cardinality(due)] ==
            IF i = 0 THEN [d |-> d, paid |-> 0, left |-> due]
            ELSE CashoutNext(walk[i - 1], funds)
    IN  walk[Cardinality(due)]

\* Blocks come within the decay time of each other (otherwise the code's
\* unsigned difference would wrap).
Decayed(claims, elapsed) == claims - (claims * elapsed) \div DecayTime

\* Mutant of NewClaims: only the largest claim of the block counts.
NewClaimsLargest(d, due) ==
    Max({0} \cup {AuthorCurve(d.comments[p].net) : p \in {q \in due : d.comments[q].net > 0}})

\* The claims that the posts due in a block add to those of the past.
NewClaims(d, due) ==
    SumFunction([p \in {p \in due : d.comments[p].net > 0} |->
                    AuthorCurve(d.comments[p].net)])

\* The tables d after the payouts s, which counted against the claims.
PaidOut(d, s, claims, now) ==
    [d EXCEPT !.acct = s.d.acct, !.gpo = s.d.gpo, !.tally = s.d.tally, !.ok = s.d.ok,
              !.fund = [balance |-> @.balance - s.paid, claims |-> claims, update |-> now]]

ProcessCommentCashout(d, now, n) ==
    LET due == DuePosts(d, now)
        funds == [balance |-> d.fund.balance,
                  claims |-> Decayed(d.fund.claims, now - d.fund.update)
                              + NewClaims(d, due)]
    IN  IF n <= FirstPayout THEN d
        ELSE PaidOut(ClosePosts(d, due, now), CashoutWalk(d, due, funds), funds.claims, now)
=============================================================================

-------------------------- MODULE OperationsProofs --------------------------
(***************************************************************************)
(* Three results about all operations of all families, for any scenarios   *)
(* whose tables are in order, any accounts and any periods.                *)
(*                                                                         *)
(* The window for the recovery of a lost account.  RecoveryWindow is not   *)
(* inductive: what it says of the partner in force depends on the change   *)
(* that is waiting to take its place.  A change that was waiting when the  *)
(* authority was lost names a partner that its holder had asked for; one   *)
(* made or edited since then waits for a whole period from then on, and    *)
(* the window is over before it takes effect.                              *)
(*                                                                         *)
(* The deadlines.  NothingOverdue is kept by an operation only if the      *)
(* deadlines are dates and the tables are all there, which DeadlinesOK     *)
(* adds; a block keeps it because every table with a deadline is cleared   *)
(* up to the time of the block and no later work puts an old date back.    *)
(*                                                                         *)
(* The totals.  TotalsExact says that totals equal sums over tables, so    *)
(* every step is judged by its gap, the difference of a total and its sum: *)
(* Moves(d, e, x) says that from the tables d to e the gap in BMT grows by *)
(* x and no other gap changes, what an operator of the model moves is      *)
(* stated once, and an operation or the work of a block is a chain of      *)
(* moves that cancel.  That needs every entry to hold amounts and to name  *)
(* accounts that exist (Amounted), and that the fee of an escrow is gone   *)
(* once both sides have approved it, since the release pays only the rest. *)
(***************************************************************************)
EXTENDS Operations, DataLemmas

\* What holds of an authority that was replaced, as long as it counts.
Covered(h) ==
    LET a == h.account
    IN  /\ a \in Owned /\ h.until \in Int /\ h.until <= time /\ time <= h.until + RecoveryPeriod
        /\ time < h.until + RecoveryPeriod =>
              /\ partner[a] \in h.trusted
              /\ change[a] # NoRequest =>
                    \/ change[a].partner \in h.trusted
                    \/ change[a].effective >= h.until + RecoveryPeriod

\* The inductive invariant.
RecoveryInv ==
    /\ time \in Int
    /\ On("recovery") =>
          /\ partner = [a \in Owned |-> partner[a]]
          /\ change = [a \in Owned |-> change[a]]
          /\ \A a \in Owned : change[a] # NoRequest => change[a].effective \in Int
          /\ \A h \in former : Covered(h)

-----------------------------------------------------------------------------
\* No authority has been replaced at the beginning.
LEMMA RecoveryStart ==
  ASSUME Init PROVE RecoveryInv
<1>1. time = 1
  BY DEF Init
<1>2. CASE On("recovery")
  <2>1. RecoveryInit
    BY <1>2 DEF Init
  <2> QED BY <1>1, <2>1 DEF RecoveryInit, RecoveryInv
<1> QED BY <1>1, <1>2 DEF RecoveryInv

\* update_owner_authority() records who could be counted on.
LEMMA OwnerReplaced ==
  ASSUME RecoveryInv, On("recovery"), NEW a \in Owned, NEW new, NEW r,
         UpdateOwnerAuthority(a, new, r),
         UNCHANGED <<headVars, happens, partner, change>>
  PROVE  RecoveryInv'
<1>1. /\ time \in Int /\ \A h \in former : Covered(h)
      /\ partner = [x \in Owned |-> partner[x]] /\ change = [x \in Owned |-> change[x]]
      /\ \A x \in Owned : change[x] # NoRequest => change[x].effective \in Int
  BY DEF RecoveryInv
<1>2. time' = time /\ partner' = partner /\ change' = change /\ happens' = happens
  BY DEF headVars
<1>3. ASSUME NEW h, Covered(h) PROVE Covered(h)'
  BY <1>2, <1>3 DEF Covered
<1> DEFINE lost == [account |-> a, auth |-> owner[a].auth, until |-> time,
                    trusted |-> Trusted(a)]
<1>4. Covered(lost)
  <2>1. lost.account = a /\ lost.until = time /\ lost.trusted = Trusted(a)
    OBVIOUS
  <2>2. partner[a] \in Trusted(a) /\ (change[a] # NoRequest => change[a].partner \in Trusted(a))
    BY DEF Trusted
  <2> HIDE DEF lost
  <2> QED BY <1>1, <2>1, <2>2, RecoveryAssumption DEF Covered
<1>5. \A h \in former' : h \in former \/ h = lost
  BY DEF UpdateOwnerAuthority
<1> HIDE DEF lost
<1>6. \A h \in former' : Covered(h)'
  BY <1>1, <1>3, <1>4, <1>5
<1> QED BY <1>1, <1>2, <1>6 DEF RecoveryInv, On

\* An operation on the authority of an account or on its partner.
LEMMA RecoveryOperationStep ==
  ASSUME RecoveryInv, On("recovery"), RecoveryOperation,
         UNCHANGED <<headVars, happens, db>>
  PROVE  RecoveryInv'
<1>1. /\ time \in Int /\ \A h \in former : Covered(h)
      /\ partner = [x \in Owned |-> partner[x]] /\ change = [x \in Owned |-> change[x]]
      /\ \A x \in Owned : change[x] # NoRequest => change[x].effective \in Int
  BY DEF RecoveryInv
<1>2. time' = time /\ happens' = happens
  BY DEF headVars
<1>3. ASSUME NEW a \in Owned, NEW new, AccountUpdate(a, new) PROVE RecoveryInv'
  BY <1>3, OwnerReplaced DEF AccountUpdate
<1>4. ASSUME NEW a \in Owned, NEW recent, RecoverAccount(a, recent) PROVE RecoveryInv'
  BY <1>4, OwnerReplaced DEF RecoverAccount
<1>5. ASSUME UNCHANGED <<owner, partner, former, change>> PROVE RecoveryInv'
  BY <1>1, <1>2, <1>5 DEF RecoveryInv, Covered, On
<1>6. ASSUME NEW a \in Owned, NEW new, ChangeRecoveryAccount(a, new) PROVE RecoveryInv'
  <2>1. partner' = partner /\ former' = former
    BY <1>6 DEF ChangeRecoveryAccount
  <2>2. PICK c : /\ change' = [change EXCEPT ![a] = c]
                 /\ c = NoRequest \/ c = AskedChange(a, new)
    BY <1>6 DEF ChangeRecoveryAccount
  <2>3. c # NoRequest => c.effective = time + RecoveryPeriod
    BY <2>2 DEF AskedChange
  <2>4. /\ change' = [x \in Owned |-> change'[x]]
        /\ change'[a] = c /\ \A x \in Owned \ {a} : change'[x] = change[x]
    BY <1>1, <2>2
  <2>5. \A x \in Owned : change'[x] # NoRequest => change'[x].effective \in Int
    BY <1>1, <2>3, <2>4, RecoveryAssumption
  <2>6. ASSUME NEW h \in former PROVE Covered(h)'
    <3>1. Covered(h)
      BY <1>1
    <3>2. h.account \in Owned /\ h.until \in Int /\ h.until <= time
      BY <3>1 DEF Covered
    <3>3. CASE h.account = a
      <4>1. c # NoRequest => c.effective >= h.until + RecoveryPeriod
        BY <1>1, <2>3, <3>2, RecoveryAssumption
      <4> QED BY <1>2, <2>1, <2>4, <3>1, <3>3, <4>1 DEF Covered
    <3>4. CASE h.account # a
      BY <1>2, <2>1, <2>4, <3>1, <3>2, <3>4 DEF Covered
    <3> QED BY <3>3, <3>4
  <2> QED BY <1>1, <1>2, <2>1, <2>4, <2>5, <2>6 DEF RecoveryInv, On
<1> QED BY <1>3, <1>4, <1>5, <1>6 DEF RecoveryOperation, RequestAccountRecovery, CancelRecovery

\* account_recovery_processing() at the end of a block.
LEMMA EndBlockStep ==
  ASSUME RecoveryInv, EndBlock
  PROVE  RecoveryInv'
<1>1. time \in Int /\ time' \in Int /\ time < time' /\ happens' = happens
  BY HeadAssumption DEF RecoveryInv, EndBlock, NextHead
<1>2. CASE ~On("recovery")
  BY <1>1, <1>2 DEF RecoveryInv, On
<1>3. CASE On("recovery")
  <2> DEFINE due(a) == change[a] # NoRequest /\ change[a].effective <= time'
  <2>1. /\ \A h \in former : Covered(h)
        /\ \A a \in Owned : change[a] # NoRequest => change[a].effective \in Int
    BY <1>3 DEF RecoveryInv
  <2>2. /\ former' \subseteq former
        /\ \A h \in former' : ~(h.until + RecoveryPeriod < time')
        /\ partner' = [a \in Owned |-> IF due(a) THEN change[a].partner ELSE partner[a]]
        /\ change' = [a \in Owned |-> IF due(a) THEN NoRequest ELSE change[a]]
    BY <1>3 DEF EndBlock, AccountRecoveryProcessing
  <2>3. /\ partner' = [a \in Owned |-> partner'[a]] /\ change' = [a \in Owned |-> change'[a]]
        /\ \A a \in Owned : change'[a] # NoRequest => change'[a].effective \in Int
    BY <2>1, <2>2
  <2>4. ASSUME NEW h \in former' PROVE Covered(h)'
    <3> DEFINE a == h.account
    <3>1. Covered(h)
      BY <2>1, <2>2
    <3>2. a \in Owned /\ h.until \in Int /\ h.until <= time
      BY <3>1 DEF Covered
    <3>3. /\ h.until <= time' /\ time' <= h.until + RecoveryPeriod
          /\ time' < h.until + RecoveryPeriod => time < h.until + RecoveryPeriod
      BY <1>1, <2>2, <3>2, RecoveryAssumption
    <3>4. CASE due(a)
      <4>1. partner'[a] = change[a].partner /\ change'[a] = NoRequest
        BY <2>2, <3>2, <3>4
      <4>2. change[a].effective \in Int /\ change[a].effective <= time' /\ change[a] # NoRequest
        BY <2>1, <3>2, <3>4
      <4>3. time' < h.until + RecoveryPeriod => ~(change[a].effective >= h.until + RecoveryPeriod)
        BY <1>1, <3>2, <4>2, RecoveryAssumption
      <4> QED BY <3>1, <3>2, <3>3, <4>1, <4>2, <4>3 DEF Covered
    <3>5. CASE ~due(a)
      <4>1. partner'[a] = partner[a] /\ change'[a] = change[a]
        BY <2>2, <3>2, <3>5
      <4> QED BY <3>1, <3>2, <3>3, <4>1 DEF Covered
    <3> QED BY <3>4, <3>5
  <2> QED BY <1>1, <1>3, <2>2, <2>3, <2>4 DEF RecoveryInv, On
<1> QED BY <1>2, <1>3

\* As long as an authority that was replaced can be shown to recover the account,
\* the recovery partner is one that its holder relied on, whatever else is done to
\* the account by the new owner or happens on the chain; the last instant, in which
\* a change asked for in the block of the loss is already in force, is excepted.
THEOREM RecoveryIsSafe == Spec => []RecoverySafe
<1>1. Init => RecoveryInv
  BY RecoveryStart
<1>2. RecoveryInv /\ [Next]_vars => RecoveryInv'
  <2> SUFFICES ASSUME RecoveryInv, [Next]_vars PROVE RecoveryInv'
    OBVIOUS
  <2>1. ASSUME UNCHANGED <<headVars, happens, recoveryVars>> PROVE RecoveryInv'
    <3>1. /\ time' = time /\ happens' = happens /\ partner' = partner
          /\ change' = change /\ former' = former
      BY <2>1 DEF headVars, recoveryVars
    <3> QED BY <3>1 DEF RecoveryInv, Covered, On
  <2>2. CASE On("recovery") /\ RecoveryOperation /\ UNCHANGED <<headVars, happens, db>>
    BY <2>2, RecoveryOperationStep
  <2>3. CASE EndBlock
    BY <2>3, EndBlockStep
  <2>4. CASE UNCHANGED vars
    BY <2>1, <2>4 DEF vars
  <2> QED BY <2>1, <2>2, <2>3, <2>4 DEF Next
<1>3. RecoveryInv => RecoverySafe
  <2> SUFFICES ASSUME RecoveryInv, On("recovery"), NEW h \in former
               PROVE  /\ time <= h.until + RecoveryPeriod
                      /\ partner[h.account] \in h.trusted \/ time = h.until + RecoveryPeriod
    BY DEF RecoverySafe, RecoveryWindow
  <2>1. Covered(h) /\ time \in Int
    BY DEF RecoveryInv
  <2> QED BY <2>1, RecoveryAssumption DEF Covered
<1> QED BY <1>1, <1>2, <1>3, PTL DEF Spec

----------------------------------------------------------------------------
\* The deadlines

\* The tables with deadlines, one by one: dates are dates, and none is over.
EscrowsOK(t, now) ==
    \A k \in DOMAIN t :
        /\ {"ratify", "toApproved", "agentApproved"} \subseteq DOMAIN t[k]
        /\ t[k].ratify \in Int /\ t[k].toApproved \in BOOLEAN /\ t[k].agentApproved \in BOOLEAN
        /\ Approved(t[k]) \/ t[k].ratify > now

OrdersOK(t, now) == \A k \in DOMAIN t : t[k].expire \in Int /\ t[k].expire >= now

DelegationsOK(t) == \A k \in DOMAIN t : "since" \in DOMAIN t[k] /\ t[k].since \in Int

ExpiringOK(t, now) ==
    /\ \E S : t \in Seq(S)
    /\ \A i \in DOMAIN t : t[i].at \in Int /\ t[i].at >= now

DeclinesOK(t, now) == \A a \in DOMAIN t : t[a] \in Int /\ t[a] > now

CommentsOK(t, now, n) ==
    \A p \in DOMAIN t : /\ "cashout" \in DOMAIN t[p] /\ t[p].cashout \in Int
                        /\ n > FirstPayout => t[p].cashout > now

DeadlinesOK(d, now, n) ==
    /\ DOMAIN d = TableNames
    /\ EscrowsOK(d.escrows, now) /\ OrdersOK(d.orders, now)
    /\ DelegationsOK(d.delegations) /\ ExpiringOK(d.expiring, now)
    /\ DeclinesOK(d.declines, now) /\ CommentsOK(d.comments, now, n)

\* The tables e have the same deadlines as d.
SameDates(d, e) ==
    /\ DOMAIN e = TableNames
    /\ e.escrows = d.escrows /\ e.orders = d.orders /\ e.delegations = d.delegations
    /\ e.expiring = d.expiring /\ e.declines = d.declines /\ e.comments = d.comments

\* Tables with the same deadlines as tables with the same deadlines.
LEMMA SameDatesTwice ==
  ASSUME NEW c, NEW d, NEW e, SameDates(c, d), SameDates(d, e)
  PROVE  SameDates(c, e)
BY DEF SameDates

\* Work that changes no deadline keeps them all.
LEMMA SameDeadlines ==
  ASSUME NEW d, NEW e, NEW now, NEW n, DeadlinesOK(d, now, n), SameDates(d, e)
  PROVE  DeadlinesOK(e, now, n)
BY DEF SameDates, DeadlinesOK

\* What moves balances leaves the deadlines alone.
LEMMA BalancesKeepDates ==
  ASSUME NEW d, DOMAIN d = TableNames, NEW a, NEW x, NEW y
  PROVE  /\ SameDates(d, AdjustBalance(d, a, x)) /\ SameDates(d, AdjustSavings(d, a, x))
         /\ SameDates(d, AdjustReward(d, a, x)) /\ SameDates(d, PayEach(d, x, y))
         /\ SameDates(d, ClearWitnessVotes(d, a)) /\ SameDates(d, ClearNullAccountBalance(d))
<1>1. SameDates(d, AdjustBalance(d, a, x)) /\ SameDates(d, AdjustSavings(d, a, x))
      /\ SameDates(d, AdjustReward(d, a, x))
  BY DEF AdjustBalance, AdjustSavings, AdjustReward, SameDates, TableNames
<1>2. SameDates(d, PayEach(d, x, y)) /\ SameDates(d, ClearWitnessVotes(d, a))
  BY DEF PayEach, ClearWitnessVotes, SameDates, TableNames
<1>3. SameDates(d, ClearNullAccountBalance(d))
  BY DEF ClearNullAccountBalance, SameDates, TableNames
<1> QED BY <1>1, <1>2, <1>3

\* adjust_witness_votes() changes witnesses only.
LEMMA WitnessVotesKeepDates ==
  ASSUME NEW d, DOMAIN d = TableNames, NEW a, NEW x
  PROVE  /\ SameDates(d, AdjustWitnessVotes(d, a, x))
         /\ SameDates(d, AdjustProxiedWitnessVotes(d, a, x))
         /\ SameDates(d, AdjustOwnWitnessVotes(d, a, x))
<1>1. ASSUME NEW e, DOMAIN e = TableNames, NEW b, NEW y
      PROVE  SameDates(e, AdjustWitnessVotes(e, b, y))
  BY <1>1 DEF AdjustWitnessVotes, SameDates, TableNames
<1>2. ASSUME NEW y PROVE SameDates(d, AdjustProxiedWitnessVotes(d, a, y))
  <2> DEFINE at(p) == {k \in Depths : Proxy(d, a, k + 1) = p}
             carried(p, i) == SumFunction([k \in {k \in at(p) : k <= i} |-> y[i - k]])
             last == {k \in Deltas : Proxy(d, a, k) # Self /\ Proxy(d, a, k + 1) = Self}
             e == [d EXCEPT !.acct = [p \in Names(d) |-> [d.acct[p] EXCEPT
                     !.proxied = [i \in Depths |-> @[i] + carried(p, i)]]]]
             k == CHOOSE k \in last : TRUE
  <2>1. SameDates(d, e)
    BY DEF SameDates, TableNames
  <2>2. \/ AdjustProxiedWitnessVotes(d, a, y) = e
        \/ AdjustProxiedWitnessVotes(d, a, y) =
             AdjustWitnessVotes(e, Proxy(d, a, k), SumFunctionOnSet(y, 0 .. MaxProxyDepth - k))
    BY DEF AdjustProxiedWitnessVotes
  <2> HIDE DEF e, k
  <2>3. DOMAIN e = TableNames
    BY <2>1 DEF SameDates
  <2> QED BY <1>1, <2>1, <2>2, <2>3, SameDatesTwice
<1> QED BY <1>1, <1>2 DEF AdjustOwnWitnessVotes

\* create_vesting() changes balances, totals and votes, and no deadline.
LEMMA VestingKeepsDates ==
  ASSUME NEW d, DOMAIN d = TableNames, NEW a, NEW x
  PROVE  SameDates(d, CreateVesting(d, a, x)) /\ SameDates(d, ProcessFunds(d, x))
<1>1. SameDates(d, CreateVesting(d, a, x))
  <2> DEFINE new == VestsFor(Price(d.gpo), x)
             e == [d EXCEPT !.acct[a].vests = @ + new,
                            !.gpo.vestingFund = @ + x,
                            !.gpo.vestingShares = @ + new,
                            !.ok = @ /\ Converts(Price(d.gpo), x)]
  <2>1. SameDates(d, e)
    BY DEF SameDates, TableNames
  <2>2. CreateVesting(d, a, x) = AdjustOwnWitnessVotes(e, a, new)
    BY DEF CreateVesting
  <2> HIDE DEF e
  <2>3. DOMAIN e = TableNames
    BY <2>1 DEF SameDates
  <2> QED BY <2>1, <2>2, <2>3, WitnessVotesKeepDates, SameDatesTwice
<1>2. SameDates(d, ProcessFunds(d, x))
  <2> DEFINE content == (x * 90) \div 100
             c == AdjustBalance(d, Producer, x - content)
             e == [c EXCEPT !.fund.balance = @ + content, !.gpo.supply = @ + x,
                            !.gpo.daily = IF DayBoundary THEN x ELSE @ + x]
  <2>1. ProcessFunds(d, x) = d \/ ProcessFunds(d, x) = e
    BY DEF ProcessFunds
  <2>2. SameDates(d, c)
    BY BalancesKeepDates
  <2> HIDE DEF c
  <2>3. SameDates(c, e)
    BY <2>2 DEF SameDates, TableNames
  <2> HIDE DEF e
  <2>4. SameDates(d, d)
    BY DEF SameDates
  <2> QED BY <2>1, <2>2, <2>3, <2>4, SameDatesTwice
<1> QED BY <1>1, <1>2

\* So does the work at the end of a block that has none of its own.
LEMMA BlockWorkKeepsDates ==
  ASSUME NEW d, DOMAIN d = TableNames, NEW now, NEW n
  PROVE  /\ SameDates(d, ProcessVestingWithdrawals(d, now))
         /\ SameDates(d, CustomTokensEmissions(d, now, n))
         /\ SameDates(d, ProcessSavingsReward(d, n))
         /\ SameDates(d, BurnInitRep(d, n))
<1>0. SameDates(d, d)
  BY DEF SameDates
<1>1. SameDates(d, ProcessVestingWithdrawals(d, now))
  BY DEF ProcessVestingWithdrawals, SameDates, TableNames
<1>2. SameDates(d, BurnInitRep(d, n))
  BY DEF BurnInitRep, SameDates, TableNames
<1>3. SameDates(d, ProcessSavingsReward(d, n))
  BY DEF ProcessSavingsReward, SameDates, TableNames
<1>4. SameDates(d, CustomTokensEmissions(d, now, n))
  BY <1>0 DEF CustomTokensEmissions, SameDates, TableNames
<1> QED BY <1>1, <1>2, <1>3, <1>4

-----------------------------------------------------------------------------
\* Entries taken out of a table leave the others as they are.
LEMMA RestrictedTables ==
  ASSUME NEW t, NEW S, S \subseteq DOMAIN t, NEW now, NEW n
  PROVE  /\ DOMAIN Restrict(t, S) = S /\ \A k \in S : Restrict(t, S)[k] = t[k]
         /\ EscrowsOK(t, now) => EscrowsOK(Restrict(t, S), now)
         /\ OrdersOK(t, now) => OrdersOK(Restrict(t, S), now)
         /\ DelegationsOK(t) => DelegationsOK(Restrict(t, S))
         /\ DeclinesOK(t, now) => DeclinesOK(Restrict(t, S), now)
         /\ CommentsOK(t, now, n) => CommentsOK(Restrict(t, S), now, n)
<1>1. DOMAIN Restrict(t, S) = S /\ \A k \in S : Restrict(t, S)[k] = t[k]
  BY DEF Restrict
<1> QED BY <1>1 DEF EscrowsOK, OrdersOK, DelegationsOK, DeclinesOK, CommentsOK

\* So does an entry that is added or replaced.
LEMMA TablesWith ==
  ASSUME NEW t, NEW k, NEW v, NEW now, NEW n
  PROVE  /\ EscrowsOK(t, now) /\ {"ratify", "toApproved", "agentApproved"} \subseteq DOMAIN v
              /\ v.ratify \in Int /\ v.ratify > now
              /\ v.toApproved \in BOOLEAN /\ v.agentApproved \in BOOLEAN
            => EscrowsOK(With(t, k, v), now)
         /\ OrdersOK(t, now) /\ v.expire \in Int /\ v.expire >= now => OrdersOK(With(t, k, v), now)
         /\ DelegationsOK(t) /\ "since" \in DOMAIN v /\ v.since \in Int
            => DelegationsOK(With(t, k, v))
         /\ DeclinesOK(t, now) /\ v \in Int /\ v > now => DeclinesOK(With(t, k, v), now)
         /\ CommentsOK(t, now, n) /\ "cashout" \in DOMAIN v /\ v.cashout \in Int /\ v.cashout > now
            => CommentsOK(With(t, k, v), now, n)
<1>1. /\ DOMAIN With(t, k, v) = DOMAIN t \cup {k} /\ With(t, k, v)[k] = v
      /\ \A x \in DOMAIN t \ {k} : With(t, k, v)[x] = t[x]
  BY DEF With
<1> HIDE DEF With
<1>2. EscrowsOK(t, now) /\ {"ratify", "toApproved", "agentApproved"} \subseteq DOMAIN v
        /\ v.ratify \in Int /\ v.ratify > now
        /\ v.toApproved \in BOOLEAN /\ v.agentApproved \in BOOLEAN
      => EscrowsOK(With(t, k, v), now)
  BY <1>1 DEF EscrowsOK
<1>3. /\ OrdersOK(t, now) /\ v.expire \in Int /\ v.expire >= now => OrdersOK(With(t, k, v), now)
      /\ DeclinesOK(t, now) /\ v \in Int /\ v > now => DeclinesOK(With(t, k, v), now)
  BY <1>1 DEF OrdersOK, DeclinesOK
<1>4. /\ DelegationsOK(t) /\ "since" \in DOMAIN v /\ v.since \in Int
         => DelegationsOK(With(t, k, v))
      /\ CommentsOK(t, now, n) /\ "cashout" \in DOMAIN v /\ v.cashout \in Int /\ v.cashout > now
         => CommentsOK(With(t, k, v), now, n)
  BY <1>1 DEF DelegationsOK, CommentsOK
<1> QED BY <1>2, <1>3, <1>4

\* A change of one table with deadlines.
LEMMA OneTable ==
  ASSUME NEW c, NEW d, NEW e, NEW now, NEW n, DeadlinesOK(c, now, n), SameDates(c, d)
  PROVE  /\ EscrowsOK(e, now) => DeadlinesOK([d EXCEPT !.escrows = e], now, n)
         /\ OrdersOK(e, now) => DeadlinesOK([d EXCEPT !.orders = e], now, n)
         /\ DeclinesOK(e, now) => DeadlinesOK([d EXCEPT !.declines = e], now, n)
         /\ CommentsOK(e, now, n) => DeadlinesOK([d EXCEPT !.comments = e], now, n)
         /\ DOMAIN c = TableNames /\ DOMAIN d = TableNames
         /\ d.escrows = c.escrows /\ d.orders = c.orders /\ d.delegations = c.delegations
         /\ d.expiring = c.expiring /\ d.declines = c.declines /\ d.comments = c.comments
         /\ DeadlinesOK(d, now, n) /\ SameDates(c, c)
BY DEF DeadlinesOK, SameDates, TableNames

\* What the operations start from.
Before == DeadlinesOK(db, time, num) /\ time \in Int /\ num \in Int

\* transfer moves a balance.
LEMMA TransferKeeps ==
  ASSUME Before, TransferOperation
  PROVE  DeadlinesOK(db', time, num)
<1>1. PICK from \in Users, to \in Payees, x \in Amounts : Transfer(from, to, x)
  BY DEF TransferOperation
<1> DEFINE d == AdjustBalance(db, from, -x)
<1>2. SameDates(db, d)
  BY BalancesKeepDates DEF Before, DeadlinesOK
<1>3. SameDates(d, AdjustBalance(d, to, x))
  BY <1>2, BalancesKeepDates DEF SameDates
<1>4. db' = AdjustBalance(d, to, x)
  BY <1>1 DEF Transfer
<1> QED BY <1>2, <1>3, <1>4, SameDatesTwice, SameDeadlines DEF Before

\* A new escrow is to be ratified later than now; approving one only ends its wait.
LEMMA EscrowKeeps ==
  ASSUME Before, EscrowOperation
  PROVE  DeadlinesOK(db', time, num)
<1>0. DOMAIN db = TableNames /\ EscrowsOK(db.escrows, time) /\ SameDates(db, db)
  BY DEF Before, DeadlinesOK, SameDates
<1>1. ASSUME NEW from, NEW to, NEW agent, NEW id, NEW x, NEW fee,
             EscrowTransfer(from, to, agent, id, x, fee, time + 1, time + 2)
      PROVE  DeadlinesOK(db', time, num)
  <2> DEFINE d == AdjustBalance(db, from, -(x + fee))
             v == [to |-> to, agent |-> agent, balance |-> x, fee |-> fee,
                   ratify |-> time + 1, expire |-> time + 2, toApproved |-> FALSE,
                   agentApproved |-> FALSE, disputed |-> FALSE]
  <2>1. SameDates(db, d)
    BY <1>0, BalancesKeepDates
  <2>2. db' = [d EXCEPT !.escrows = With(d.escrows, <<from, id>>, v)]
    BY <1>1 DEF EscrowTransfer
  <2>3. d.escrows = db.escrows
    BY <2>1 DEF SameDates
  <2>4. EscrowsOK(With(d.escrows, <<from, id>>, v), time)
    <3>1. v.ratify = time + 1 /\ v.toApproved = FALSE /\ v.agentApproved = FALSE
      OBVIOUS
    <3>2. {"ratify", "toApproved", "agentApproved"} \subseteq DOMAIN v
      OBVIOUS
    <3>3. v.ratify \in Int /\ v.ratify > time
      BY <3>1 DEF Before
    <3> HIDE DEF v
    <3> QED BY <1>0, <2>3, <3>1, <3>2, <3>3, TablesWith
  <2> HIDE DEF d, v
  <2> QED BY <2>1, <2>2, <2>4, OneTable DEF Before
<1>2. ASSUME NEW k, NEW who, EscrowApprove(k, who)
      PROVE  DeadlinesOK(db', time, num)
  <2> DEFINE e == db.escrows[k]
             e1 == [e EXCEPT !.toApproved = @ \/ who = e.to,
                             !.agentApproved = @ \/ who = e.agent]
             d == AdjustBalance(db, e.agent, e.fee)
             v == [e1 EXCEPT !.fee = 0]
  <2>1. k \in DOMAIN db.escrows
    BY <1>2 DEF EscrowApprove
  <2>2. \/ db' = [d EXCEPT !.escrows = [d.escrows EXCEPT ![k] = v]]
        \/ db' = [db EXCEPT !.escrows = [db.escrows EXCEPT ![k] = e1]]
    BY <1>2 DEF EscrowApprove
  <2>3. SameDates(db, d) /\ d.escrows = db.escrows
    BY <1>0, BalancesKeepDates DEF SameDates
  <2>4. /\ {"ratify", "toApproved", "agentApproved"} \subseteq DOMAIN e
        /\ e.ratify \in Int /\ e.toApproved \in BOOLEAN /\ e.agentApproved \in BOOLEAN
        /\ Approved(e) \/ e.ratify > time
    BY <1>0, <2>1 DEF EscrowsOK
  <2>5. /\ DOMAIN e1 = DOMAIN e /\ DOMAIN v = DOMAIN e
        /\ e1.ratify = e.ratify /\ v.ratify = e.ratify
        /\ v.toApproved = e1.toApproved /\ v.agentApproved = e1.agentApproved
    BY <2>4
  <2>6. e1.toApproved \in BOOLEAN /\ e1.agentApproved \in BOOLEAN
        /\ (Approved(e) => Approved(e1))
    BY <2>4 DEF Approved
  <2>7. ASSUME NEW u \in {v, e1} PROVE EscrowsOK([db.escrows EXCEPT ![k] = u], time)
    <3>1. /\ {"ratify", "toApproved", "agentApproved"} \subseteq DOMAIN u
          /\ u.ratify \in Int /\ u.toApproved \in BOOLEAN /\ u.agentApproved \in BOOLEAN
          /\ Approved(u) \/ u.ratify > time
      BY <2>4, <2>5, <2>6 DEF Approved
    <3> HIDE DEF e1, v
    <3> QED BY <1>0, <3>1 DEF EscrowsOK
  <2> HIDE DEF d, v, e1
  <2>8. \A s : EscrowsOK(s, time) => DeadlinesOK([d EXCEPT !.escrows = s], time, num)
    BY <2>3, OneTable DEF Before
  <2>9. \A s : EscrowsOK(s, time) => DeadlinesOK([db EXCEPT !.escrows = s], time, num)
    BY <1>0, OneTable DEF Before
  <2> QED BY <2>2, <2>3, <2>7, <2>8, <2>9
<1>3. ASSUME NEW k, NEW who, EscrowReject(k, who)
      PROVE  DeadlinesOK(db', time, num)
  <2> DEFINE d == AdjustBalance(db, k[1], db.escrows[k].balance + db.escrows[k].fee)
             t == Restrict(db.escrows, DOMAIN db.escrows \ {k})
  <2>1. SameDates(db, d) /\ d.escrows = db.escrows
    BY <1>0, BalancesKeepDates DEF SameDates
  <2>2. db' = [d EXCEPT !.escrows = t]
    BY <1>3, <2>1 DEF EscrowReject, Without
  <2>3. EscrowsOK(t, time)
    BY <1>0, RestrictedTables
  <2> HIDE DEF d, t
  <2> QED BY <2>1, <2>2, <2>3, OneTable DEF Before
<1>4. ASSUME NEW k, EscrowDispute(k)
      PROVE  DeadlinesOK(db', time, num)
  <2> DEFINE v == [db.escrows[k] EXCEPT !.disputed = TRUE]
             t == [db.escrows EXCEPT ![k] = v]
  <2>1. db' = [db EXCEPT !.escrows = t] /\ k \in DOMAIN db.escrows
    BY <1>4 DEF EscrowDispute
  <2>2. EscrowsOK(t, time)
    BY <1>0, <2>1 DEF EscrowsOK, Approved
  <2> HIDE DEF t
  <2> QED BY <1>0, <2>1, <2>2, OneTable DEF Before
<1>5. ASSUME NEW k, NEW who, NEW receiver, NEW x, EscrowRelease(k, who, receiver, x)
      PROVE  DeadlinesOK(db', time, num)
  <2> DEFINE d == AdjustBalance(db, receiver, x)
             v == [db.escrows[k] EXCEPT !.balance = @ - x]
             t == [db.escrows EXCEPT ![k] = v]
             u == Restrict(db.escrows, DOMAIN db.escrows \ {k})
  <2>1. SameDates(db, d) /\ d.escrows = db.escrows
    BY <1>0, BalancesKeepDates DEF SameDates
  <2>2. k \in DOMAIN db.escrows
    BY <1>5 DEF EscrowRelease
  <2>3. db' = [d EXCEPT !.escrows = u] \/ db' = [d EXCEPT !.escrows = t]
    BY <1>5, <2>1 DEF EscrowRelease, Without
  <2>4. EscrowsOK(t, time)
    BY <1>0, <2>2 DEF EscrowsOK, Approved
  <2>5. EscrowsOK(u, time)
    BY <1>0, RestrictedTables
  <2> HIDE DEF d, t, u
  <2>6. \A s : EscrowsOK(s, time) => DeadlinesOK([d EXCEPT !.escrows = s], time, num)
    BY <2>1, OneTable DEF Before
  <2> QED BY <2>3, <2>4, <2>5, <2>6
<1> QED BY <1>1, <1>2, <1>3, <1>4, <1>5 DEF EscrowOperation

\* Orders on the market are placed to expire later than now.
LEMMA MarketKeeps ==
  ASSUME Before, MarketOperation
  PROVE  DeadlinesOK(db', time, num)
<1>0. DOMAIN db = TableNames /\ OrdersOK(db.orders, time) /\ SameDates(db, db)
  BY DEF Before, DeadlinesOK, SameDates
<1>1. ASSUME NEW a, NEW id, NEW x, NEW expire \in time + 1 .. time + 2,
             LimitOrderCreate(a, id, x, expire)
      PROVE  DeadlinesOK(db', time, num)
  <2> DEFINE d == AdjustBalance(db, a, -x)
             v == [forSale |-> x, expire |-> expire]
             t == With(db.orders, <<a, id>>, v)
  <2>1. SameDates(db, d) /\ d.orders = db.orders
    BY <1>0, BalancesKeepDates DEF SameDates
  <2>2. db' = [d EXCEPT !.orders = t]
    BY <1>1, <2>1 DEF LimitOrderCreate
  <2>3. v.expire \in Int /\ v.expire >= time
    BY DEF Before
  <2> HIDE DEF v
  <2>4. OrdersOK(t, time)
    BY <1>0, <2>3, TablesWith
  <2> HIDE DEF d, t
  <2> QED BY <2>1, <2>2, <2>4, OneTable DEF Before
<1>2. ASSUME NEW a, NEW id, LimitOrderCancel(a, id)
      PROVE  DeadlinesOK(db', time, num)
  <2> DEFINE k == <<a, id>>
             d == AdjustBalance(db, k[1], db.orders[k].forSale)
             t == Restrict(db.orders, DOMAIN db.orders \ {k})
  <2>1. SameDates(db, d) /\ d.orders = db.orders
    BY <1>0, BalancesKeepDates DEF SameDates
  <2>2. db' = [d EXCEPT !.orders = t]
    BY <1>2, <2>1 DEF LimitOrderCancel, CancelOrder, Without
  <2>3. OrdersOK(t, time)
    BY <1>0, RestrictedTables
  <2> HIDE DEF d, t
  <2> QED BY <2>1, <2>2, <2>3, OneTable DEF Before
<1> QED BY <1>1, <1>2 DEF MarketOperation

\* An operation that changes no table with deadlines.
LEMMA DatesKept ==
  ASSUME Before, SameDates(db, db')
  PROVE  DeadlinesOK(db', time, num)
BY SameDeadlines DEF Before

\* A post that is changed keeps its payout, or has none.
LEMMA CommentsAlike ==
  ASSUME NEW t, NEW u, NEW now, NEW n, CommentsOK(t, now, n), DOMAIN u = DOMAIN t,
         \A q \in DOMAIN t : "cashout" \in DOMAIN t[q] =>
            "cashout" \in DOMAIN u[q] /\ u[q].cashout = t[q].cashout
  PROVE  CommentsOK(u, now, n)
BY DEF CommentsOK

\* CountChildren changes posts but not when they are paid out.
LEMMA CountedKeeps ==
  ASSUME NEW d, NEW p, NEW x, NEW now, NEW n, DeadlinesOK(d, now, n)
  PROVE  DeadlinesOK(CountChildren(d, p, x), now, n)
<1> DEFINE e == CountChildren(d, p, x)
<1>1. /\ DOMAIN e = TableNames
      /\ e.escrows = d.escrows /\ e.orders = d.orders /\ e.delegations = d.delegations
      /\ e.expiring = d.expiring /\ e.declines = d.declines
      /\ DOMAIN e.comments = DOMAIN d.comments
      /\ \A q \in DOMAIN d.comments : "cashout" \in DOMAIN d.comments[q] =>
           "cashout" \in DOMAIN e.comments[q] /\ e.comments[q].cashout = d.comments[q].cashout
  <2>1. DOMAIN d = TableNames
    BY DEF DeadlinesOK
  <2> QED BY <2>1 DEF CountChildren, TableNames
<1> HIDE DEF e
<1>2. CommentsOK(e.comments, now, n)
  <2>1. CommentsOK(d.comments, now, n)
    BY DEF DeadlinesOK
  <2> QED BY <1>1, <2>1, CommentsAlike
<1>3. DeadlinesOK(e, now, n)
  BY <1>1, <1>2 DEF DeadlinesOK
<1> QED BY <1>3 DEF e

\* A new post is paid out later than now, and its ancestors keep their payouts.
LEMMA PostedKeeps ==
  ASSUME NEW d, time \in Int, DeadlinesOK(d, time, num), NEW p, NEW parent, NEW price
  PROVE  DeadlinesOK(Posted(d, p, parent, price), time, num)
<1> DEFINE root == IF parent = NoPost THEN p ELSE d.comments[parent].root
           v == NewComment(root, parent, price)
           t == With(d.comments, p, v)
           c == [d EXCEPT !.comments = t]
           new == [d EXCEPT
                     !.comments = With(@, p, NewComment(root, parent, price)),
                     !.acct[p[1]].lastPost = time,
                     !.acct[p[1]].lastRootPost = IF parent = NoPost THEN time ELSE @]
           x == IF parent = NoPost THEN PostRate ELSE CommentRate
<1>1. v.cashout \in Int /\ v.cashout > time /\ "cashout" \in DOMAIN v
  BY ContentAssumption DEF NewComment
<1>2. CommentsOK(t, time, num)
  <2> HIDE DEF v
  <2> QED BY <1>1, TablesWith DEF DeadlinesOK
<1>3. DeadlinesOK(c, time, num) /\ DOMAIN d = TableNames
  <2>1. SameDates(d, d) /\ DOMAIN d = TableNames
    BY DEF SameDates, DeadlinesOK
  <2> HIDE DEF t
  <2> QED BY <1>2, <2>1, OneTable
<1>4. SameDates(c, new)
  <2> HIDE DEF v
  <2>1. new = [d EXCEPT !.comments = t, !.acct[p[1]].lastPost = time,
                        !.acct[p[1]].lastRootPost = IF parent = NoPost THEN time ELSE @]
    BY DEF v
  <2> HIDE DEF t, new
  <2> QED BY <1>3, <2>1 DEF SameDates, TableNames
<1>5. DeadlinesOK(new, time, num)
  <2> HIDE DEF c, new
  <2> QED BY <1>3, <1>4, SameDeadlines
<1>6. Posted(d, p, parent, price) = ProcessFunds(CountChildren(new, p, 1), x)
  BY DEF Posted
<1> HIDE DEF new, c, x
<1> DEFINE e == CountChildren(new, p, 1)
<1>9. DeadlinesOK(e, time, num) /\ DOMAIN e = TableNames
  BY <1>5, CountedKeeps DEF DeadlinesOK
<1> HIDE DEF e
<1>10. SameDates(e, ProcessFunds(e, x))
  BY <1>9, VestingKeepsDates
<1> QED BY <1>6, <1>9, <1>10, SameDeadlines DEF e

\* An order for content that ends changes balances and orders for content.
LEMMA EndOrderKeepsDates ==
  ASSUME NEW d, DOMAIN d = TableNames, NEW k, NEW a, NEW status
  PROVE  SameDates(d, EndOrder(d, k, a, status))
<1> DEFINE e == AdjustBalance(d, a, d.content[k].price)
<1>1. SameDates(d, e)
  BY BalancesKeepDates
<1>2. EndOrder(d, k, a, status) = [e EXCEPT !.content[k].status = status]
  BY DEF EndOrder
<1> HIDE DEF e
<1>3. SameDates(e, [e EXCEPT !.content[k].status = status])
  BY <1>1 DEF SameDates, TableNames
<1> QED BY <1>1, <1>2, <1>3, SameDatesTwice

\* Orders for content.
LEMMA ContentOrderKeeps ==
  ASSUME Before, ContentOrderOperation \/ EncryptedOperation
  PROVE  DeadlinesOK(db', time, num)
<1>0. DOMAIN db = TableNames /\ time \in Int /\ DeadlinesOK(db, time, num) /\ SameDates(db, db)
  BY DEF Before, DeadlinesOK, SameDates
<1>1. ASSUME NEW a, NEW p, NEW x, ContentOrderCreate(a, p, x)
      PROVE  DeadlinesOK(db', time, num)
  <2> DEFINE d == AdjustBalance(db, a, -x)
  <2>1. SameDates(db, d)
    BY <1>0, BalancesKeepDates
  <2>2. db' = [d EXCEPT !.content = Append(@, [owner |-> a, post |-> p,
                                               price |-> x, status |-> "open"])]
    BY <1>1 DEF ContentOrderCreate
  <2> HIDE DEF d
  <2>3. SameDates(d, db')
    BY <2>1, <2>2 DEF SameDates, TableNames
  <2> QED BY <2>1, <2>3, SameDatesTwice, DatesKept
<1>2. ASSUME NEW a, NEW k, ContentOrderCancel(a, k)
      PROVE  DeadlinesOK(db', time, num)
  BY <1>0, <1>2, EndOrderKeepsDates, DatesKept DEF ContentOrderCancel
<1>3. ASSUME NEW k, ContentOrderCancelByAuthor(k)
      PROVE  DeadlinesOK(db', time, num)
  BY <1>0, <1>3, EndOrderKeepsDates, DatesKept DEF ContentOrderCancelByAuthor
<1>4. ASSUME NEW p, NEW q, NEW x, NEW k, EncryptedContent(p, q, x, k)
      PROVE  DeadlinesOK(db', time, num)
  <2> DEFINE d == IF k = 0 THEN db ELSE EndOrder(db, k, p[1], "completed")
  <2>1. SameDates(db, d)
    BY <1>0, EndOrderKeepsDates
  <2>2. db' = d \/ db' = Posted(d, p, q, x)
    BY <1>4 DEF EncryptedContent
  <2> HIDE DEF d
  <2>3. DeadlinesOK(d, time, num)
    BY <1>0, <2>1, SameDeadlines
  <2> QED BY <1>0, <2>2, <2>3, PostedKeeps
<1> QED BY <1>1, <1>2, <1>3, <1>4 DEF ContentOrderOperation, EncryptedOperation

\* Savings, their withdrawal and its routes.
LEMMA SavingsKeep ==
  ASSUME Before, SavingsOperation \/ RouteOperation
  PROVE  DeadlinesOK(db', time, num)
<1>0. DOMAIN db = TableNames
  BY DEF Before, DeadlinesOK
<1>1. ASSUME NEW from, NEW to, NEW x, TransferToSavings(from, to, x)
      PROVE  SameDates(db, db')
  <2> DEFINE d == AdjustBalance(db, from, -x)
  <2>1. SameDates(db, d)
    BY <1>0, BalancesKeepDates
  <2>2. db' = AdjustSavings(d, to, x)
    BY <1>1 DEF TransferToSavings
  <2> HIDE DEF d
  <2>3. SameDates(d, AdjustSavings(d, to, x))
    BY <2>1, BalancesKeepDates DEF SameDates
  <2> QED BY <2>1, <2>2, <2>3, SameDatesTwice
<1>2. ASSUME NEW a, NEW x, WithdrawSavings(a, x)
      PROVE  SameDates(db, db')
  BY <1>0, <1>2 DEF WithdrawSavings, SameDates, TableNames
<1>3. ASSUME NEW a, StopWithdrawal(a)
      PROVE  SameDates(db, db')
  BY <1>0, <1>3 DEF StopWithdrawal, SameDates, TableNames
<1>4. ASSUME NEW a, NEW b, NEW percent, NEW v, SetWithdrawRoute(a, b, percent, v)
      PROVE  SameDates(db, db')
  BY <1>0, <1>4 DEF SetWithdrawRoute, SameDates, TableNames
<1> QED BY <1>1, <1>2, <1>3, <1>4, DatesKept DEF SavingsOperation, RouteOperation

\* Proxies and votes for witnesses.
LEMMA VotingKeeps ==
  ASSUME Before, VotingOperation
  PROVE  DeadlinesOK(db', time, num)
<1>0. DOMAIN db = TableNames
  BY DEF Before, DeadlinesOK
<1>1. ASSUME NEW a, NEW p, SetProxy(a, p)
      PROVE  SameDates(db, db')
  <2> DEFINE c == AdjustProxiedWitnessVotes(db, a, VoteDeltas(db, a, -1))
             d == ClearWitnessVotes(c, a)
             e == [d EXCEPT !.acct[a].proxy = p]
  <2>1. SameDates(db, c) /\ DOMAIN c = TableNames
    BY <1>0, WitnessVotesKeepDates DEF SameDates
  <2>2. db' = AdjustProxiedWitnessVotes(e, a, VoteDeltas(db, a, 1))
    BY <1>1 DEF SetProxy
  <2> HIDE DEF c
  <2>3. SameDates(c, d) /\ DOMAIN d = TableNames
    BY <2>1, BalancesKeepDates DEF SameDates
  <2> HIDE DEF d
  <2>4. SameDates(d, e) /\ DOMAIN e = TableNames
    BY <2>3 DEF SameDates, TableNames
  <2> HIDE DEF e
  <2>5. SameDates(e, db')
    BY <2>2, <2>4, WitnessVotesKeepDates
  <2> QED BY <2>1, <2>3, <2>4, <2>5, SameDatesTwice
<1>2. ASSUME NEW a, ClearProxy(a)
      PROVE  SameDates(db, db')
  <2> DEFINE c == AdjustProxiedWitnessVotes(db, a, VoteDeltas(db, a, -1))
  <2>1. SameDates(db, c) /\ DOMAIN c = TableNames
    BY <1>0, WitnessVotesKeepDates DEF SameDates
  <2>2. db' = [c EXCEPT !.acct[a].proxy = Self]
    BY <1>2 DEF ClearProxy
  <2> HIDE DEF c
  <2>3. SameDates(c, db')
    BY <2>1, <2>2 DEF SameDates, TableNames
  <2> QED BY <2>1, <2>3, SameDatesTwice
<1>3. ASSUME NEW a, NEW w, ApproveWitness(a, w) \/ WithdrawWitness(a, w)
      PROVE  SameDates(db, db')
  BY <1>0, <1>3 DEF ApproveWitness, WithdrawWitness, AdjustWitnessVote, SameDates, TableNames
<1> QED BY <1>1, <1>2, <1>3, DatesKept DEF VotingOperation

\* The request to give up voting rights takes effect later than now.
LEMMA RightsKeep ==
  ASSUME Before, RightsOperation
  PROVE  DeadlinesOK(db', time, num)
<1>0. /\ DOMAIN db = TableNames /\ DeadlinesOK(db, time, num) /\ SameDates(db, db)
      /\ DeclinesOK(db.declines, time) /\ time \in Int
  BY DEF Before, DeadlinesOK, SameDates
<1>1. ASSUME NEW a, DeclineVotingRights(a)
      PROVE  DeadlinesOK(db', time, num)
  <2> DEFINE t == With(db.declines, a, time + DeclineTime)
  <2>1. db' = [db EXCEPT !.declines = t]
    BY <1>1 DEF DeclineVotingRights
  <2>2. DeclinesOK(t, time)
    BY <1>0, StakeAssumption, TablesWith
  <2> HIDE DEF t
  <2> QED BY <1>0, <2>1, <2>2, OneTable
<1>2. ASSUME NEW a, CancelDecline(a)
      PROVE  DeadlinesOK(db', time, num)
  <2> DEFINE t == Restrict(db.declines, DOMAIN db.declines \ {a})
  <2>1. db' = [db EXCEPT !.declines = t]
    BY <1>2 DEF CancelDecline
  <2>2. DeclinesOK(t, time)
    BY <1>0, RestrictedTables
  <2> HIDE DEF t
  <2> QED BY <1>0, <2>1, <2>2, OneTable
<1>3. ASSUME NEW a, NEW bmt, NEW vests, ClaimReward(a, bmt, vests)
      PROVE  SameDates(db, db')
  <2> DEFINE moved == ClaimedBmt(db.acct[a], vests)
             b == AdjustReward(db, a, -bmt)
             c == AdjustBalance(b, a, bmt)
             d == [c EXCEPT
                     !.acct[a].vests = @ + vests,
                     !.acct[a].rewardVests = @ - vests,
                     !.acct[a].rewardVestsBmt = @ - moved,
                     !.gpo.vestingShares = @ + vests,
                     !.gpo.vestingFund = @ + moved,
                     !.gpo.pendingShares = @ - vests,
                     !.gpo.pendingBmt = @ - moved]
  <2>1. SameDates(db, b) /\ DOMAIN b = TableNames
    BY <1>0, BalancesKeepDates, SMTT(30) DEF SameDates
  <2>2. db' = AdjustOwnWitnessVotes(d, a, vests)
    BY <1>3 DEF ClaimReward
  <2> HIDE DEF b
  <2>3. SameDates(b, c) /\ DOMAIN c = TableNames
    BY <2>1, BalancesKeepDates, SMTT(30) DEF SameDates
  <2> HIDE DEF c
  <2>4. SameDates(c, d) /\ DOMAIN d = TableNames
    BY <2>3 DEF SameDates, TableNames
  <2> HIDE DEF d
  <2>5. SameDates(d, db')
    BY <2>2, <2>4, WitnessVotesKeepDates
  <2> QED BY <2>1, <2>3, <2>4, <2>5, SameDatesTwice
<1> QED BY <1>1, <1>2, <1>3, DatesKept DEF RightsOperation

\* Delegations: what is taken back returns no earlier than the first block after now.
LEMMA DelegationKeeps ==
  ASSUME Before, DelegationOperation
  PROVE  DeadlinesOK(db', time, num)
<1>0. /\ DOMAIN db = TableNames /\ DeadlinesOK(db, time, num) /\ time \in Int
      /\ DelegationsOK(db.delegations) /\ ExpiringOK(db.expiring, time)
  BY DEF Before, DeadlinesOK
<1>1. ASSUME NEW a, NEW b, NEW x, NewDelegation(a, b, x)
      PROVE  DeadlinesOK(db', time, num)
  <2> DEFINE v == [shares |-> x, since |-> time]
             t == With(db.delegations, <<a, b>>, v)
  <2>1. db' = [db EXCEPT !.delegations = t, !.acct[a].delegated = @ + x,
                         !.acct[b].received = @ + x]
    BY <1>1 DEF NewDelegation
  <2>2. DelegationsOK(t)
    <3>1. "since" \in DOMAIN v /\ v.since \in Int
      BY <1>0
    <3> HIDE DEF v
    <3> QED BY <1>0, <3>1, TablesWith
  <2> HIDE DEF t
  <2> QED BY <1>0, <2>1, <2>2 DEF DeadlinesOK, TableNames
<1>2. ASSUME NEW a, NEW b, NEW x, IncreaseDelegation(a, b, x)
      PROVE  DeadlinesOK(db', time, num)
  <2> DEFINE k == <<a, b>>
             delta == x - db.delegations[k].shares
             v == [db.delegations[k] EXCEPT !.shares = x]
             t == [db.delegations EXCEPT ![k] = v]
  <2>1. k \in DOMAIN db.delegations
    BY <1>2 DEF IncreaseDelegation
  <2>2. db' = [db EXCEPT !.delegations = t, !.acct[a].delegated = @ + delta,
                         !.acct[b].received = @ + delta]
    BY <1>2 DEF IncreaseDelegation
  <2> HIDE DEF k
  <2>3. DelegationsOK(t)
    BY <1>0, <2>1 DEF DelegationsOK
  <2> HIDE DEF t, delta
  <2> QED BY <1>0, <2>2, <2>3 DEF DeadlinesOK, TableNames
<1>3. ASSUME NEW a, NEW b, NEW x, DecreaseDelegation(a, b, x)
      PROVE  DeadlinesOK(db', time, num)
  <2> DEFINE k == <<a, b>>
             old == db.delegations[k]
             delta == old.shares - x
             o == [from |-> a, shares |-> delta, at |-> Max({time + ReturnTime, old.since})]
             s == Append(db.expiring, o)
             v == [db.delegations[k] EXCEPT !.shares = x]
             t == [db.delegations EXCEPT ![k] = v]
             u == Restrict(db.delegations, DOMAIN db.delegations \ {k})
             w == IF x > 0 THEN t ELSE u
  <2>1. k \in DOMAIN db.delegations
    BY <1>3 DEF DecreaseDelegation
  <2>2. db' = [db EXCEPT !.expiring = s, !.acct[b].received = @ - delta, !.delegations = w]
    BY <1>3 DEF DecreaseDelegation
  <2> HIDE DEF k
  <2>3. DelegationsOK(w)
    <3>1. DelegationsOK(t)
      BY <1>0, <2>1 DEF DelegationsOK
    <3>2. DelegationsOK(u)
      BY <1>0, RestrictedTables
    <3> HIDE DEF t, u
    <3> QED BY <3>1, <3>2
  <2>4. ExpiringOK(s, time)
    <3>1. old.since \in Int
      BY <1>0, <2>1 DEF DelegationsOK
    <3>2. o.at \in Int /\ o.at >= time
      <4> DEFINE x1 == time + ReturnTime
                 x2 == old.since
                 m == Max({x1, x2})
      <4>1. x1 \in Int /\ x1 >= time /\ x2 \in Int
        BY <1>0, <3>1, StakeAssumption
      <4>2. m \in Int /\ m >= time
        <5> HIDE DEF x1, x2
        <5>1. m = IF x1 >= x2 THEN x1 ELSE x2
          BY <4>1, MaxOfTwo
        <5> QED BY <1>0, <4>1, <5>1
      <4>3. o.at = m
        OBVIOUS
      <4> HIDE DEF m
      <4> QED BY <4>2, <4>3
    <3> HIDE DEF o
    <3>3. PICK S : db.expiring \in Seq(S)
      BY <1>0 DEF ExpiringOK
    <3>4. db.expiring \in Seq(S \cup {o}) /\ o \in S \cup {o}
      BY <3>3
    <3>5. s \in Seq(S \cup {o}) /\ DOMAIN s = 1 .. Len(db.expiring) + 1
          /\ s[Len(db.expiring) + 1] = o /\ \A i \in 1 .. Len(db.expiring) : s[i] = db.expiring[i]
      BY <3>4
    <3>6. DOMAIN db.expiring = 1 .. Len(db.expiring) /\ Len(db.expiring) \in Nat
      BY <3>4
    <3> HIDE DEF s
    <3>7. \A i \in DOMAIN s : s[i].at \in Int /\ s[i].at >= time
      BY <1>0, <3>2, <3>5, <3>6 DEF ExpiringOK
    <3> QED BY <3>5, <3>7 DEF ExpiringOK
  <2> HIDE DEF s, w, delta
  <2> QED BY <1>0, <2>2, <2>3, <2>4 DEF DeadlinesOK, TableNames
<1>4. ASSUME NEW a, NEW n, NEW fee, AccountCreate(a, n, fee)
      PROVE  DeadlinesOK(db', time, num)
  <2> DEFINE c == AdjustBalance(db, a, -fee)
             d == [c EXCEPT !.acct = With(@, n, Created),
                            !.fund.balance = @ + fee]
  <2>1. SameDates(db, c) /\ DOMAIN c = TableNames
    BY <1>0, BalancesKeepDates DEF SameDates
  <2>2. db' = ProcessFunds(d, UserRate)
    BY <1>4 DEF AccountCreate
  <2> HIDE DEF c
  <2>3. SameDates(c, d) /\ DOMAIN d = TableNames
    BY <2>1 DEF SameDates, TableNames
  <2> HIDE DEF d
  <2>4. SameDates(d, db')
    BY <2>2, <2>3, VestingKeepsDates
  <2> QED BY <2>1, <2>3, <2>4, SameDatesTwice, DatesKept
<1>5. ASSUME NEW a, NEW n, NEW fee, NEW x, AccountCreateWithDelegation(a, n, fee, x)
      PROVE  DeadlinesOK(db', time, num)
  <2> DEFINE c == AdjustBalance(db, a, -fee)
             v == [shares |-> x, since |-> time + DelegationTime]
             t == With(c.delegations, <<a, n>>, v)
             u == IF x = 0 THEN c.delegations ELSE t
             accounts == [c.acct EXCEPT ![a].delegated = @ + x]
             d == [c EXCEPT !.acct = With(accounts, n, [Created EXCEPT !.received = x]),
                            !.delegations = u]
  <2>1. SameDates(db, c) /\ DOMAIN c = TableNames /\ DeadlinesOK(c, time, num)
    BY <1>0, BalancesKeepDates, SameDeadlines DEF SameDates
  <2>2. db' = d \/ db' = CreateVesting(d, n, fee)
    BY <1>5 DEF AccountCreateWithDelegation
  <2>3. DelegationsOK(u)
    <3>1. "since" \in DOMAIN v /\ v.since \in Int
      BY <1>0, StakeAssumption
    <3> HIDE DEF v
    <3>2. DelegationsOK(c.delegations)
      BY <2>1 DEF DeadlinesOK
    <3>3. DelegationsOK(t)
      BY <3>1, <3>2, TablesWith
    <3> HIDE DEF t
    <3> QED BY <3>2, <3>3
  <2> HIDE DEF c, u
  <2>4. DeadlinesOK(d, time, num) /\ DOMAIN d = TableNames
    BY <2>1, <2>3 DEF DeadlinesOK, TableNames
  <2> HIDE DEF d
  <2> QED BY <2>2, <2>4, VestingKeepsDates, SameDeadlines
<1> QED BY <1>1, <1>2, <1>3, <1>4, <1>5 DEF DelegationOperation

\* Posts, their options and their removal.
LEMMA ThreadKeeps ==
  ASSUME Before, ThreadOperation
  PROVE  DeadlinesOK(db', time, num)
<1>0. time \in Int /\ DeadlinesOK(db, time, num)
  BY DEF Before
<1>1. ASSUME NEW p, NEW q, Comment(p, q)
      PROVE  DeadlinesOK(db', time, num)
  BY <1>0, <1>1, PostedKeeps DEF Comment
<1>2. ASSUME NEW p, DeleteComment(p)
      PROVE  DeadlinesOK(db', time, num)
  <2> DEFINE d == CountChildren(db, p, -1)
             t == Restrict(d.comments, DOMAIN d.comments \ {p})
             u == Restrict(d.votes, DOMAIN d.votes \ VotesOn(d, p))
  <2>1. DeadlinesOK(d, time, num)
    BY <1>0, CountedKeeps
  <2>2. db' = [d EXCEPT !.comments = t, !.votes = u]
    BY <1>2 DEF DeleteComment
  <2> HIDE DEF d
  <2>3. CommentsOK(t, time, num)
    BY <2>1, RestrictedTables DEF DeadlinesOK
  <2> HIDE DEF t, u
  <2> QED BY <2>1, <2>2, <2>3 DEF DeadlinesOK, TableNames
<1> QED BY <1>1, <1>2 DEF ThreadOperation

\* Options and votes change posts but not when they are paid out.
LEMMA OptionsKeep ==
  ASSUME Before, OptionsOperation
  PROVE  DeadlinesOK(db', time, num)
<1>0. /\ DOMAIN db = TableNames /\ DeadlinesOK(db, time, num) /\ SameDates(db, db)
      /\ CommentsOK(db.comments, time, num)
  BY DEF Before, DeadlinesOK, SameDates
<1>1. ASSUME NEW p, NEW c, NEW v, CommentOptions(p, c, v)
      PROVE  DeadlinesOK(db', time, num)
  <2>1. /\ DOMAIN db' = TableNames
        /\ db'.escrows = db.escrows /\ db'.orders = db.orders /\ db'.delegations = db.delegations
        /\ db'.expiring = db.expiring /\ db'.declines = db.declines
        /\ DOMAIN db'.comments = DOMAIN db.comments
        /\ \A q \in DOMAIN db.comments : "cashout" \in DOMAIN db.comments[q] =>
           "cashout" \in DOMAIN db'.comments[q] /\ db'.comments[q].cashout = db.comments[q].cashout
    BY <1>0, <1>1 DEF CommentOptions, TableNames
  <2>2. CommentsOK(db'.comments, time, num)
    BY <1>0, <2>1, CommentsAlike
  <2> QED BY <1>0, <2>1, <2>2 DEF DeadlinesOK
<1>2. ASSUME NEW p, NEW a, NameBeneficiary(p, a)
      PROVE  DeadlinesOK(db', time, num)
  <2>1. /\ DOMAIN db' = TableNames
        /\ db'.escrows = db.escrows /\ db'.orders = db.orders /\ db'.delegations = db.delegations
        /\ db'.expiring = db.expiring /\ db'.declines = db.declines
        /\ DOMAIN db'.comments = DOMAIN db.comments
        /\ \A q \in DOMAIN db.comments : "cashout" \in DOMAIN db.comments[q] =>
           "cashout" \in DOMAIN db'.comments[q] /\ db'.comments[q].cashout = db.comments[q].cashout
    BY <1>0, <1>2 DEF NameBeneficiary, TableNames
  <2>2. CommentsOK(db'.comments, time, num)
    BY <1>0, <2>1, CommentsAlike
  <2> QED BY <1>0, <2>1, <2>2 DEF DeadlinesOK
<1> QED BY <1>1, <1>2 DEF OptionsOperation

\* Votes on posts that are still to be paid out.
LEMMA VoteKeeps ==
  ASSUME Before, VoteOperation
  PROVE  DeadlinesOK(db', time, num)
<1>0. /\ DOMAIN db = TableNames /\ DeadlinesOK(db, time, num) /\ SameDates(db, db)
      /\ CommentsOK(db.comments, time, num)
  BY DEF Before, DeadlinesOK, SameDates
<1>1. ASSUME NEW p, NEW a, NEW b, NEW s, NEW votes,
             p \in DOMAIN db.comments, "cashout" \in DOMAIN s,
             s.cashout = db.comments[p].cashout
      PROVE  LET d == [db EXCEPT !.acct[a].lastVote = b, !.comments[p] = s, !.votes = votes]
             IN  DeadlinesOK(d, time, num) /\ DOMAIN d = TableNames
  <2> DEFINE t == [db.comments EXCEPT ![p] = s]
             d == [db EXCEPT !.acct[a].lastVote = b, !.comments[p] = s, !.votes = votes]
  <2>1. CommentsOK(t, time, num)
    BY <1>0, <1>1 DEF CommentsOK
  <2>2. d = [db EXCEPT !.acct[a].lastVote = b, !.comments = t, !.votes = votes]
    BY <1>0 DEF TableNames
  <2> HIDE DEF t
  <2>3. /\ DOMAIN d = TableNames /\ d.comments = t
        /\ d.escrows = db.escrows /\ d.orders = db.orders /\ d.delegations = db.delegations
        /\ d.expiring = db.expiring /\ d.declines = db.declines
    BY <1>0, <2>2 DEF TableNames
  <2> HIDE DEF d
  <2>4. DeadlinesOK(d, time, num)
    BY <1>0, <2>1, <2>3 DEF DeadlinesOK
  <2> QED BY <2>3, <2>4 DEF d
<1>2. ASSUME NEW a, NEW p, NEW r, Vote(a, p, r)
      PROVE  DeadlinesOK(db', time, num)
  <2> DEFINE c == db.comments[p]
             abs == IF r < 0 THEN -r ELSE r
             up == c.up + IF r > 0 THEN r ELSE 0
             earns == r > 0 /\ c.lastPayout = 0 /\ c.curation
             most == IF earns THEN Wrap(CurationCurve(up) - CurationCurve(c.up)) ELSE 0
             s == [c EXCEPT !.net = @ + r, !.abs = @ + abs, !.up = up, !.weight = Wrap(@ + most)]
             votes == With(db.votes, <<a, p>>,
                           [rshares |-> r, changes |-> 0,
                            weight |-> Discounted(most, time - c.created)])
             d == [db EXCEPT !.acct[a].lastVote = time, !.comments[p] = s, !.votes = votes]
  <2>1. p \in DOMAIN db.comments /\ db' = ProcessFunds(d, VoteRate)
    BY <1>2 DEF Vote, MayVote
  <2>2. "cashout" \in DOMAIN s /\ s.cashout = c.cashout
    <3>1. "cashout" \in DOMAIN c
      BY <1>0, <2>1 DEF CommentsOK
    <3> HIDE DEF c, most, up, abs
    <3> QED BY <3>1
  <2> HIDE DEF s, votes
  <2>3. DeadlinesOK(d, time, num) /\ DOMAIN d = TableNames
    BY <1>1, <2>1, <2>2
  <2> HIDE DEF d
  <2> QED BY <2>1, <2>3, VestingKeepsDates, SameDeadlines
<1>3. ASSUME NEW a, NEW p, NEW r, ChangeVote(a, p, r)
      PROVE  DeadlinesOK(db', time, num)
  <2> DEFINE c == db.comments[p]
             v == db.votes[<<a, p>>]
             s == [c EXCEPT !.net = @ - v.rshares + r,
                            !.abs = @ + IF r < 0 THEN -r ELSE r,
                            !.weight = Wrap(@ - v.weight)]
             votes == [db.votes EXCEPT ![<<a, p>>] = [rshares |-> r, weight |-> 0,
                                                      changes |-> v.changes + 1]]
  <2>1. p \in DOMAIN db.comments
    BY <1>3 DEF ChangeVote, MayVote
  <2>2. db' = [db EXCEPT !.acct[a].lastVote = time, !.comments[p] = s, !.votes = votes]
    BY <1>3 DEF ChangeVote
  <2>3. "cashout" \in DOMAIN s /\ s.cashout = c.cashout
    <3>1. "cashout" \in DOMAIN c
      BY <1>0, <2>1 DEF CommentsOK
    <3> HIDE DEF c, v
    <3> QED BY <3>1
  <2> HIDE DEF s, votes
  <2> QED BY <1>1, <2>1, <2>2, <2>3
<1> QED BY <1>2, <1>3 DEF VoteOperation

\* Custom tokens.
LEMMA TokenKeeps ==
  ASSUME Before, TokenOperation
  PROVE  DeadlinesOK(db', time, num)
<1>0. DOMAIN db = TableNames
  BY DEF Before, DeadlinesOK
<1>1. ASSUME NEW a, NEW s, NEW x, NEW fee, TokenCreate(a, s, x, fee)
      PROVE  SameDates(db, db')
  <2> DEFINE c == AdjustBalance(db, a, -fee)
             t == With(c.tokens, s, [id |-> Cardinality(DOMAIN db.tokens), supply |-> x,
                                     fund |-> 0, rate |-> 0, at |-> 0, step |-> 0])
             u == With(c.holdings, <<a, s>>, x)
  <2>1. SameDates(db, c) /\ DOMAIN c = TableNames
    BY <1>0, BalancesKeepDates DEF SameDates
  <2>2. db' = [c EXCEPT !.tokens = t, !.holdings = u, !.fund.balance = @ + fee]
    BY <1>1 DEF TokenCreate
  <2> HIDE DEF c, t, u
  <2>3. SameDates(c, db')
    BY <2>1, <2>2 DEF SameDates, TableNames
  <2> QED BY <2>1, <2>3, SameDatesTwice
<1>2. ASSUME NEW a, NEW b, NEW s, NEW x, TokenTransfer(a, b, s, x)
      PROVE  SameDates(db, db')
  <2> DEFINE d == [db EXCEPT !.holdings[<<a, s>>] = @ - x]
  <2>1. SameDates(db, d) /\ DOMAIN d = TableNames
    BY <1>0 DEF SameDates, TableNames
  <2>2. \/ db' = [d EXCEPT !.holdings[<<b, s>>] = @ + x]
        \/ db' = [d EXCEPT !.holdings = With(@, <<b, s>>, x)]
    BY <1>2 DEF TokenTransfer
  <2> HIDE DEF d
  <2>3. SameDates(d, db')
    BY <2>1, <2>2 DEF SameDates, TableNames
  <2> QED BY <2>1, <2>3, SameDatesTwice
<1>3. ASSUME NEW s, NEW r, NEW at, NEW step, SetupEmissions(s, r, at, step)
      PROVE  SameDates(db, db')
  BY <1>0, <1>3 DEF SetupEmissions, SameDates, TableNames
<1> QED BY <1>1, <1>2, <1>3, DatesKept DEF TokenOperation

-----------------------------------------------------------------------------
\* The end of a block, whose time is now

\* Orders that are over are paid back and removed.
LEMMA OrdersCleared ==
  ASSUME NEW d, DOMAIN d = TableNames, NEW before, OrdersOK(d.orders, before), NEW now \in Int
  PROVE  LET e == ClearExpiredOrders(d, now)
         IN  /\ DOMAIN e = TableNames /\ OrdersOK(e.orders, now)
             /\ e.escrows = d.escrows /\ e.delegations = d.delegations
             /\ e.expiring = d.expiring /\ e.declines = d.declines /\ e.comments = d.comments
<1> DEFINE due == {k \in DOMAIN d.orders : d.orders[k].expire < now}
           c == PayEach(d, [k \in due |-> k[1]], [k \in due |-> d.orders[k].forSale])
           t == Restrict(d.orders, DOMAIN d.orders \ due)
           e == ClearExpiredOrders(d, now)
<1>1. SameDates(d, c)
  BY BalancesKeepDates
<1>2. e = [c EXCEPT !.orders = Restrict(@, DOMAIN @ \ due)]
  BY DEF ClearExpiredOrders
<1>3. OrdersOK(t, now)
  BY RestrictedTables DEF OrdersOK
<1> HIDE DEF c, due, e
<1>4. e = [c EXCEPT !.orders = t]
  BY <1>1, <1>2 DEF SameDates
<1> HIDE DEF t
<1>5. /\ DOMAIN e = TableNames /\ e.orders = t
      /\ e.escrows = d.escrows /\ e.delegations = d.delegations
      /\ e.expiring = d.expiring /\ e.declines = d.declines /\ e.comments = d.comments
  BY <1>1, <1>4 DEF SameDates, TableNames
<1> QED BY <1>3, <1>5 DEF e

\* The walk along a sequence that drops the entries that are due.
LEMMA StillExpiringWalk ==
  ASSUME NEW d, NEW S, d.expiring \in Seq(S), NEW now
  PROVE  \E kept :
           /\ StillExpiring(d, now) = kept[Len(d.expiring)] /\ kept[0] = <<>>
           /\ \A i \in 1 .. Len(d.expiring) :
                 kept[i] = IF d.expiring[i].at < now THEN kept[i - 1]
                           ELSE Append(kept[i - 1], d.expiring[i])
<1> DEFINE s == d.expiring
           N == Len(s)
           late(i) == s[i].at < now
           app(q, i) == Append(q, s[i])
           P(g) == g = [i \in 0 .. N |-> IF i = 0 THEN <<>>
                                         ELSE IF late(i) THEN g[i - 1]
                                         ELSE app(g[i - 1], i)]
           kept == CHOOSE g : P(g)
<1>1. StillExpiring(d, now) = kept[N]
  BY DEF StillExpiring
<1>3. N \in Nat /\ (\A i \in 1 .. N : s[i] \in S) /\ <<>> \in Seq(S)
  OBVIOUS
<1> HIDE DEF s, N
<1>4. \A q \in Seq(S), o \in S : Append(q, o) \in Seq(S)
  BY AppendProperties
<1> DEFINE G == [n \in 1 .. N |-> [q \in Seq(S) |-> IF s[n].at < now THEN q ELSE Append(q, s[n])]]
<1>5. G \in [1 .. N -> [Seq(S) -> Seq(S)]]
  BY <1>3, <1>4
<1>6. \A n \in 1 .. N, q \in Seq(S) : G[n][q] = IF s[n].at < now THEN q ELSE Append(q, s[n])
  OBVIOUS
<1> HIDE DEF G
<1>7. PICK F : Iterates(F, Seq(S), <<>>, G, N)
  BY <1>3, <1>5, RecursiveFunction
<1>8. P(F)
  <2>1. F \in [0 .. N -> Seq(S)] /\ F[0] = <<>>
    BY <1>7 DEF Iterates
  <2>2. ASSUME NEW i \in 1 .. N
        PROVE  F[i] = IF s[i].at < now THEN F[i - 1] ELSE Append(F[i - 1], s[i])
    <3>1. i - 1 \in 0 .. N
      BY <1>3
    <3>2. F[i] = G[i][F[i - 1]] /\ F[i - 1] \in Seq(S)
      BY <1>7, <2>1, <3>1 DEF Iterates
    <3> QED BY <1>6, <3>2
  <2>3. \A i \in 1 .. N : F[i] = IF late(i) THEN F[i - 1] ELSE app(F[i - 1], i)
    BY <2>2
  <2> DEFINE nil == <<>>
  <2>4. F[0] = nil
    BY <2>1
  <2> HIDE DEF late, app, nil
  <2>5. \A i \in 0 .. N : F[i] = IF i = 0 THEN nil ELSE IF late(i) THEN F[i - 1]
                                 ELSE app(F[i - 1], i)
    BY <1>3, <2>3, <2>4
  <2>6. F = [i \in 0 .. N |-> IF i = 0 THEN nil ELSE IF late(i) THEN F[i - 1]
                             ELSE app(F[i - 1], i)]
    BY <2>1, <2>5
  <2> QED BY <2>6 DEF nil
<1>9. P(kept)
  <2> HIDE DEF P
  <2> QED BY <1>8
<1> HIDE DEF kept
<1>10. kept[0] = <<>> /\ \A i \in 1 .. N :
         kept[i] = IF s[i].at < now THEN kept[i - 1] ELSE Append(kept[i - 1], s[i])
  <2> DEFINE nil == <<>>
  <2> HIDE DEF late, app
  <2>1. kept = [i \in 0 .. N |-> IF i = 0 THEN nil ELSE IF late(i) THEN kept[i - 1]
                                ELSE app(kept[i - 1], i)]
    BY <1>9
  <2> HIDE DEF nil
  <2>2. kept[0] = nil
    BY <1>3, <2>1
  <2>3. \A i \in 1 .. N : kept[i] = IF late(i) THEN kept[i - 1] ELSE app(kept[i - 1], i)
    BY <1>3, <2>1
  <2> QED BY <2>2, <2>3 DEF nil, late, app
<1> QED BY <1>1, <1>10 DEF s, N

\* What is left of a sequence without the entries that are due.
LEMMA StillExpiringOK ==
  ASSUME NEW d, NEW before, ExpiringOK(d.expiring, before), NEW now \in Int
  PROVE  ExpiringOK(StillExpiring(d, now), now)
<1> DEFINE s == d.expiring
           N == Len(s)
<1>2. PICK S : s \in Seq(S)
  BY DEF ExpiringOK
<1>3. /\ N \in Nat /\ \A i \in 1 .. N : s[i] \in S /\ s[i].at \in Int
      /\ <<>> \in Seq(S)
  BY <1>2 DEF ExpiringOK
<1>1. PICK kept : /\ StillExpiring(d, now) = kept[N] /\ kept[0] = <<>>
                  /\ \A i \in 1 .. N : kept[i] = IF s[i].at < now THEN kept[i - 1]
                                                ELSE Append(kept[i - 1], s[i])
  BY <1>2, StillExpiringWalk
<1> HIDE DEF s, N
<1>10. kept[0] = <<>> /\ \A i \in 1 .. N :
         kept[i] = IF s[i].at < now THEN kept[i - 1] ELSE Append(kept[i - 1], s[i])
  BY <1>1
<1> DEFINE Fine(q) == q \in Seq(S) /\ \A i \in DOMAIN q : q[i].at \in Int /\ q[i].at >= now
           T == {i \in 0 .. N : Fine(kept[i])}
<1>11. 0 \in T
  <2>1. Fine(<<>>)
    BY <1>3
  <2>2. Fine(kept[0])
    BY <1>10, <2>1
  <2> HIDE DEF Fine
  <2> QED BY <1>3, <2>2
<1>12. ASSUME NEW k \in 1 .. N, k - 1 \in T PROVE k \in T
  <2> DEFINE q == kept[k - 1]
             r == Append(q, s[k])
  <2>1. Fine(q) /\ s[k] \in S /\ s[k].at \in Int
    BY <1>3, <1>12
  <2>2. CASE s[k].at < now
    <3>1. kept[k] = q
      BY <1>10, <2>2
    <3> HIDE DEF q
    <3> QED BY <1>3, <2>1, <3>1
  <2>3. CASE ~ (s[k].at < now)
    <3>1. kept[k] = r
      BY <1>10, <2>3
    <3> HIDE DEF q
    <3>2. /\ r \in Seq(S) /\ DOMAIN r = 1 .. Len(q) + 1 /\ r[Len(q) + 1] = s[k]
          /\ \A i \in 1 .. Len(q) : r[i] = q[i]
      BY <2>1
    <3>3. DOMAIN q = 1 .. Len(q) /\ Len(q) \in Nat
      BY <2>1
    <3> HIDE DEF r
    <3>4. Fine(r)
      BY <2>1, <2>3, <3>2, <3>3
    <3> QED BY <1>3, <3>1, <3>4
  <2> QED BY <2>2, <2>3
<1>13. N \in T
  <2> HIDE DEF T
  <2> QED BY <1>3, <1>11, <1>12, IntervalInduction
<1> QED BY <1>1, <1>13 DEF ExpiringOK

\* clear_expired_delegations() leaves the vests that return later.
LEMMA DelegationsCleared ==
  ASSUME NEW d, DOMAIN d = TableNames, NEW before, ExpiringOK(d.expiring, before), NEW now \in Int
  PROVE  LET e == ClearExpiredDelegations(d, now)
         IN  /\ DOMAIN e = TableNames /\ ExpiringOK(e.expiring, now)
             /\ e.escrows = d.escrows /\ e.delegations = d.delegations
             /\ e.orders = d.orders /\ e.declines = d.declines /\ e.comments = d.comments
<1> DEFINE t == StillExpiring(d, now)
           e == ClearExpiredDelegations(d, now)
<1>1. ExpiringOK(t, now)
  BY StillExpiringOK
<1>2. /\ DOMAIN e = TableNames /\ e.expiring = t
      /\ e.escrows = d.escrows /\ e.delegations = d.delegations
      /\ e.orders = d.orders /\ e.declines = d.declines /\ e.comments = d.comments
  BY DEF ClearExpiredDelegations, TableNames
<1> HIDE DEF e, t
<1> QED BY <1>1, <1>2 DEF e

\* The posts that are due get a later date.
LEMMA CommentsPaid ==
  ASSUME NEW d, DOMAIN d = TableNames, NEW before, NEW m, CommentsOK(d.comments, before, m),
         NEW now \in Int, NEW n \in Int
  PROVE  LET e == ProcessCommentCashout(d, now, n)
         IN  /\ DOMAIN e = TableNames /\ CommentsOK(e.comments, now, n)
             /\ e.escrows = d.escrows /\ e.delegations = d.delegations
             /\ e.orders = d.orders /\ e.declines = d.declines /\ e.expiring = d.expiring
<1> DEFINE due == DuePosts(d, now)
           funds == [balance |-> d.fund.balance,
                     claims |-> Decayed(d.fund.claims, now - d.fund.update) + NewClaims(d, due)]
           s == CashoutWalk(d, due, funds)
           c == ClosePosts(d, due, now)
           f == [c EXCEPT !.acct = s.d.acct, !.gpo = s.d.gpo, !.tally = s.d.tally, !.ok = s.d.ok,
                          !.fund = [balance |-> @.balance - s.paid, claims |-> funds.claims,
                                    update |-> now]]
           e == ProcessCommentCashout(d, now, n)
<1>1. IF n <= FirstPayout THEN e = d ELSE e = f
  BY DEF ProcessCommentCashout, PaidOut
<1>2. CASE n <= FirstPayout
  <2>1. CommentsOK(d.comments, now, n)
    BY <1>2, ContentAssumption DEF CommentsOK
  <2> HIDE DEF e, f
  <2> QED BY <1>1, <1>2, <2>1 DEF e
<1>3. CASE ~ (n <= FirstPayout)
  <2>1. /\ DOMAIN c = TableNames
        /\ c.escrows = d.escrows /\ c.delegations = d.delegations
        /\ c.orders = d.orders /\ c.declines = d.declines /\ c.expiring = d.expiring
        /\ DOMAIN c.comments = DOMAIN d.comments
        /\ \A p \in DOMAIN d.comments :
             c.comments[p] = IF p \in due THEN Closed(d.comments[p], now) ELSE d.comments[p]
    BY DEF ClosePosts, TableNames
  <2>2. ASSUME NEW p \in DOMAIN c.comments
        PROVE  /\ "cashout" \in DOMAIN c.comments[p] /\ c.comments[p].cashout \in Int
               /\ c.comments[p].cashout > now
    <3>1. "cashout" \in DOMAIN d.comments[p] /\ d.comments[p].cashout \in Int
      BY <2>1, <2>2 DEF CommentsOK
    <3>2. CASE p \in due
      <4>1. c.comments[p] = Closed(d.comments[p], now)
        BY <2>1, <2>2, <3>2
      <4>2. /\ "cashout" \in DOMAIN Closed(d.comments[p], now)
            /\ Closed(d.comments[p], now).cashout = now + SecondCashout
        BY <3>1 DEF Closed
      <4> QED BY <4>1, <4>2, ContentAssumption
    <3>3. CASE p \notin due
      BY <2>1, <2>2, <3>1, <3>3 DEF DuePosts
    <3> QED BY <3>2, <3>3
  <2>3. CommentsOK(c.comments, now, n)
    BY <2>2 DEF CommentsOK
  <2> HIDE DEF c, s, funds
  <2>4. /\ DOMAIN f = TableNames /\ f.comments = c.comments
        /\ f.escrows = c.escrows /\ f.delegations = c.delegations
        /\ f.orders = c.orders /\ f.declines = c.declines /\ f.expiring = c.expiring
    BY <2>1 DEF TableNames
  <2> HIDE DEF e, f
  <2> QED BY <1>1, <1>3, <2>1, <2>3, <2>4 DEF e
<1> QED BY <1>2, <1>3

\* expire_escrow_ratification() leaves the escrows that are approved or have time left.
LEMMA EscrowsExpired ==
  ASSUME NEW d, DOMAIN d = TableNames, NEW before, EscrowsOK(d.escrows, before), NEW now \in Int
  PROVE  LET e == ExpireEscrowRatification(d, now)
         IN  /\ DOMAIN e = TableNames /\ EscrowsOK(e.escrows, now)
             /\ e.orders = d.orders /\ e.delegations = d.delegations
             /\ e.expiring = d.expiring /\ e.declines = d.declines /\ e.comments = d.comments
<1> DEFINE due == {k \in DOMAIN d.escrows :
                      ~Approved(d.escrows[k]) /\ d.escrows[k].ratify <= now}
           c == PayEach(d, [k \in due |-> k[1]],
                        [k \in due |-> d.escrows[k].balance + d.escrows[k].fee])
           t == Restrict(d.escrows, DOMAIN d.escrows \ due)
           e == ExpireEscrowRatification(d, now)
<1>1. SameDates(d, c)
  BY BalancesKeepDates
<1>2. e = [c EXCEPT !.escrows = Restrict(@, DOMAIN @ \ due)]
  BY DEF ExpireEscrowRatification
<1>3. EscrowsOK(t, now)
  <2>1. DOMAIN t = DOMAIN d.escrows \ due /\ \A k \in DOMAIN t : t[k] = d.escrows[k]
    BY RestrictedTables
  <2> HIDE DEF t
  <2> QED BY <2>1 DEF EscrowsOK
<1> HIDE DEF c, due, e
<1>4. e = [c EXCEPT !.escrows = t]
  BY <1>1, <1>2 DEF SameDates
<1> HIDE DEF t
<1>5. /\ DOMAIN e = TableNames /\ e.escrows = t
      /\ e.orders = d.orders /\ e.delegations = d.delegations
      /\ e.expiring = d.expiring /\ e.declines = d.declines /\ e.comments = d.comments
  BY <1>1, <1>4 DEF SameDates, TableNames
<1> QED BY <1>3, <1>5 DEF e

\* process_decline_voting_rights() leaves the requests that take effect later.
LEMMA RightsEnded ==
  ASSUME NEW d, DOMAIN d = TableNames, NEW before, DeclinesOK(d.declines, before), NEW now \in Int
  PROVE  LET e == ProcessDeclineVotingRights(d, now)
         IN  /\ DOMAIN e = TableNames /\ DeclinesOK(e.declines, now)
             /\ e.orders = d.orders /\ e.delegations = d.delegations
             /\ e.expiring = d.expiring /\ e.escrows = d.escrows /\ e.comments = d.comments
<1> DEFINE due == {a \in DOMAIN d.declines : d.declines[a] <= now}
           ended == VotingRightsEnded(d, due)
           acct == [a \in Names(d) |-> WithVotes(d.acct[a], ended.acct[a])]
           t == Restrict(d.declines, DOMAIN d.declines \ due)
           e == ProcessDeclineVotingRights(d, now)
<1>1. e = [d EXCEPT !.acct = acct, !.tally = ended.tally, !.ok = ended.ok,
                    !.declines = Restrict(@, DOMAIN @ \ due)]
  BY DEF ProcessDeclineVotingRights
<1>2. DeclinesOK(t, now)
  <2>1. DOMAIN t = DOMAIN d.declines \ due /\ \A k \in DOMAIN t : t[k] = d.declines[k]
    BY RestrictedTables
  <2> HIDE DEF t
  <2> QED BY <2>1 DEF DeclinesOK
<1> HIDE DEF due, ended, acct, e
<1>3. e = [d EXCEPT !.acct = acct, !.tally = ended.tally, !.ok = ended.ok, !.declines = t]
  BY <1>1
<1> HIDE DEF t
<1>4. /\ DOMAIN e = TableNames /\ e.declines = t
      /\ e.orders = d.orders /\ e.delegations = d.delegations
      /\ e.expiring = d.expiring /\ e.escrows = d.escrows /\ e.comments = d.comments
  BY <1>3 DEF TableNames
<1> QED BY <1>2, <1>4 DEF e

\* The work at the end of a block moves every deadline past the time of the block.
LEMMA BlockKeepsDeadlines ==
  ASSUME NEW d, NEW before, NEW m, DeadlinesOK(d, before, m), NEW now \in Int, NEW n \in Int
  PROVE  DeadlinesOK(BlockWork(d, now, n), now, n)
<1> DEFINE c1 == ClearExpiredOrders(d, now)
           c2 == ClearExpiredDelegations(c1, now)
           c3 == ClearNullAccountBalance(c2)
           c4 == ProcessCommentCashout(c3, now, n)
           c5 == ProcessVestingWithdrawals(c4, now)
           c6 == CustomTokensEmissions(c5, now, n)
           c7 == ProcessSavingsReward(c6, n)
           c8 == ExpireEscrowRatification(c7, now)
           c9 == ProcessDeclineVotingRights(c8, now)
           c10 == BurnInitRep(c9, n)
<1>0. BlockWork(d, now, n) = c10
  BY DEF BlockWork
<1>1. /\ DOMAIN c1 = TableNames /\ OrdersOK(c1.orders, now)
      /\ c1.escrows = d.escrows /\ c1.delegations = d.delegations
      /\ c1.expiring = d.expiring /\ c1.declines = d.declines /\ c1.comments = d.comments
  BY OrdersCleared DEF DeadlinesOK
<1> HIDE DEF c1
<1>2. /\ DOMAIN c2 = TableNames /\ ExpiringOK(c2.expiring, now)
      /\ c2.escrows = c1.escrows /\ c2.delegations = c1.delegations
      /\ c2.orders = c1.orders /\ c2.declines = c1.declines /\ c2.comments = c1.comments
  BY <1>1, DelegationsCleared DEF DeadlinesOK
<1> HIDE DEF c2
<1>3. SameDates(c2, c3)
  BY <1>2, BalancesKeepDates
<1> HIDE DEF c3
<1>4. /\ DOMAIN c4 = TableNames /\ CommentsOK(c4.comments, now, n)
      /\ c4.escrows = c3.escrows /\ c4.delegations = c3.delegations
      /\ c4.orders = c3.orders /\ c4.declines = c3.declines /\ c4.expiring = c3.expiring
  <2>1. DOMAIN c3 = TableNames /\ c3.comments = d.comments
    BY <1>1, <1>2, <1>3 DEF SameDates
  <2>2. CommentsOK(c3.comments, before, m)
    BY <2>1 DEF DeadlinesOK
  <2> QED BY <2>1, <2>2, CommentsPaid
<1> HIDE DEF c4
<1>5. SameDates(c4, c5)
  BY <1>4, BlockWorkKeepsDates
<1> HIDE DEF c5
<1>6. SameDates(c5, c6)
  BY <1>5, BlockWorkKeepsDates DEF SameDates
<1> HIDE DEF c6
<1>7. SameDates(c6, c7)
  BY <1>6, BlockWorkKeepsDates DEF SameDates
<1> HIDE DEF c7
<1>8. /\ DOMAIN c7 = TableNames
      /\ c7.escrows = d.escrows /\ c7.delegations = d.delegations
      /\ c7.orders = c1.orders /\ c7.expiring = c2.expiring
      /\ c7.declines = d.declines /\ c7.comments = c4.comments
  BY <1>1, <1>2, <1>3, <1>4, <1>5, <1>6, <1>7 DEF SameDates
<1>9. /\ DOMAIN c8 = TableNames /\ EscrowsOK(c8.escrows, now)
      /\ c8.orders = c7.orders /\ c8.delegations = c7.delegations
      /\ c8.expiring = c7.expiring /\ c8.declines = c7.declines /\ c8.comments = c7.comments
  <2>1. EscrowsOK(c7.escrows, before)
    BY <1>8 DEF DeadlinesOK
  <2> QED BY <1>8, <2>1, EscrowsExpired
<1> HIDE DEF c8
<1>10. /\ DOMAIN c9 = TableNames /\ DeclinesOK(c9.declines, now)
       /\ c9.orders = c8.orders /\ c9.delegations = c8.delegations
       /\ c9.expiring = c8.expiring /\ c9.escrows = c8.escrows /\ c9.comments = c8.comments
  <2>1. DeclinesOK(c8.declines, before)
    BY <1>8, <1>9 DEF DeadlinesOK
  <2> QED BY <1>9, <2>1, RightsEnded
<1> HIDE DEF c9
<1>11. SameDates(c9, c10)
  BY <1>10, BlockWorkKeepsDates
<1> HIDE DEF c10
<1>12. DeadlinesOK(c9, now, n)
  BY <1>1, <1>2, <1>4, <1>8, <1>9, <1>10 DEF DeadlinesOK
<1> QED BY <1>0, <1>11, <1>12, SameDeadlines

\* The scenarios have their deadlines in front of them.
LEMMA DeadlinesAtFirst ==
  ASSUME Init PROVE Before
<1>1. PICK s \in Scenarios : db = s.db
  BY DEF Init
<1>2. Dated(db) /\ InTime(db, 1, 1) /\ time = 1 /\ num = 1
  BY <1>1, ScenariosAssumption DEF Init
<1>3. DOMAIN db = TableNames /\ ExpiringOK(db.expiring, 1)
  BY <1>2 DEF Dated, InTime, ExpiringOK
<1>4. EscrowsOK(db.escrows, 1) /\ OrdersOK(db.orders, 1)
  BY <1>2 DEF Dated, InTime, EscrowsOK, OrdersOK
<1>5. DelegationsOK(db.delegations) /\ DeclinesOK(db.declines, 1) /\ CommentsOK(db.comments, 1, 1)
  BY <1>2 DEF Dated, InTime, DelegationsOK, DeclinesOK, CommentsOK
<1> QED BY <1>2, <1>3, <1>4, <1>5 DEF Before, DeadlinesOK

\* Every step keeps the deadlines.
LEMMA DeadlinesNext ==
  ASSUME Before, [Next]_vars PROVE Before'
<1>1. ASSUME LedgerOperation, UNCHANGED headVars PROVE Before'
  <2>1. DeadlinesOK(db', time, num)
    BY <1>1, TransferKeeps, EscrowKeeps, MarketKeeps, ContentOrderKeeps, SavingsKeep, VotingKeeps,
       RightsKeep, DelegationKeeps, ThreadKeeps, OptionsKeep, VoteKeeps, TokenKeeps
       DEF LedgerOperation
  <2> QED BY <1>1, <2>1 DEF Before, headVars
<1>2. ASSUME UNCHANGED <<headVars, db>> PROVE Before'
  BY <1>2 DEF Before, headVars
<1>3. ASSUME EndBlock PROVE Before'
  <2>1. time' \in Int /\ num' \in Int
    BY <1>3, HeadAssumption DEF Before, EndBlock, NextHead
  <2>2. db' = BlockWork(db, time', num')
    BY <1>3 DEF EndBlock
  <2> QED BY <2>1, <2>2, BlockKeepsDeadlines DEF Before
<1>4. ASSUME UNCHANGED vars PROVE UNCHANGED <<headVars, db>>
  BY <1>4 DEF vars
<1> QED BY <1>1, <1>2, <1>3, <1>4 DEF Next

\* Nothing that has a deadline outlives it: after every block each escrow, order,
\* returning delegation, request and payout that it reached is ended or moved on.
THEOREM NothingIsOverdue == Spec => []NothingOverdue
<1>1. Init => Before
  BY DeadlinesAtFirst
<1>2. Before /\ [Next]_vars => Before'
  BY DeadlinesNext
<1>3. Before => NothingOverdue
  BY DEF Before, DeadlinesOK, EscrowsOK, OrdersOK, ExpiringOK, DeclinesOK, CommentsOK,
     NothingOverdue, InTime
<1> QED BY <1>1, <1>2, <1>3, PTL DEF Spec

-----------------------------------------------------------------------------
\* What the tables hold, as sums.

\* What an account holds in BMT.
Money(s) == s.balance + s.savings + s.rewardBmt

\* What a sum over a table of accounts adds up.
LEMMA AccountSums ==
  ASSUME NEW t, AccountTable(t)
  PROVE  Coins(t) \in Int /\ Vests(t) \in Int /\ Unclaimed(t) \in Int /\ Promised(t) \in Int
<1> DEFINE m == [a \in DOMAIN t |-> t[a].balance + t[a].savings + t[a].rewardBmt]
           v == [a \in DOMAIN t |-> t[a].vests]
           r == [a \in DOMAIN t |-> t[a].rewardVests]
           p == [a \in DOMAIN t |-> t[a].rewardVestsBmt]
<1>1. \A a \in DOMAIN t : m[a] \in Int /\ v[a] \in Int /\ r[a] \in Int /\ p[a] \in Int
  BY DEF AccountTable, AccountOK
<1>2. IsFiniteSet(DOMAIN t) /\ DOMAIN t \in SUBSET DOMAIN t
  BY DEF AccountTable
<1>3. DOMAIN m = DOMAIN t /\ DOMAIN v = DOMAIN t /\ DOMAIN r = DOMAIN t /\ DOMAIN p = DOMAIN t
  OBVIOUS
<1>4. /\ Coins(t) = SumFunctionOnSet(m, DOMAIN m) /\ Vests(t) = SumFunctionOnSet(v, DOMAIN v)
      /\ Unclaimed(t) = SumFunctionOnSet(r, DOMAIN r) /\ Promised(t) = SumFunctionOnSet(p, DOMAIN p)
  BY DEF Coins, Vests, Unclaimed, Promised, SumFunction
<1> HIDE DEF m, v, r, p
<1>5. SumFunctionOnSet(m, DOMAIN t) \in Int /\ SumFunctionOnSet(v, DOMAIN t) \in Int
  BY <1>1, <1>2, SumFacts
<1>6. SumFunctionOnSet(r, DOMAIN t) \in Int /\ SumFunctionOnSet(p, DOMAIN t) \in Int
  BY <1>1, <1>2, SumFacts
<1> QED BY <1>3, <1>4, <1>5, <1>6

\* Accounts that hold the same have the same sums.
LEMMA AccountsAlike ==
  ASSUME NEW t, AccountTable(t), NEW u, DOMAIN u = DOMAIN t,
         \A a \in DOMAIN t : u[a].vests = t[a].vests /\ u[a].rewardVests = t[a].rewardVests
                             /\ u[a].rewardVestsBmt = t[a].rewardVestsBmt
  PROVE  Vests(u) = Vests(t) /\ Unclaimed(u) = Unclaimed(t) /\ Promised(u) = Promised(t)
<1> DEFINE v(w) == [a \in DOMAIN w |-> w[a].vests]
           r(w) == [a \in DOMAIN w |-> w[a].rewardVests]
           p(w) == [a \in DOMAIN w |-> w[a].rewardVestsBmt]
<1>1. /\ \A a \in DOMAIN t : v(t)[a] \in Int /\ v(u)[a] = v(t)[a]
      /\ \A a \in DOMAIN t : r(t)[a] \in Int /\ r(u)[a] = r(t)[a]
      /\ \A a \in DOMAIN t : p(t)[a] \in Int /\ p(u)[a] = p(t)[a]
  BY DEF AccountTable, AccountOK
<1>2. IsFiniteSet(DOMAIN t)
  BY DEF AccountTable
<1>3. /\ DOMAIN v(t) = DOMAIN t /\ DOMAIN v(u) = DOMAIN t /\ DOMAIN r(t) = DOMAIN t
      /\ DOMAIN r(u) = DOMAIN t /\ DOMAIN p(t) = DOMAIN t /\ DOMAIN p(u) = DOMAIN t
  OBVIOUS
<1>4. ASSUME NEW w PROVE /\ Vests(w) = SumFunctionOnSet(v(w), DOMAIN v(w))
                         /\ Unclaimed(w) = SumFunctionOnSet(r(w), DOMAIN r(w))
                         /\ Promised(w) = SumFunctionOnSet(p(w), DOMAIN p(w))
  BY DEF Vests, Unclaimed, Promised, SumFunction
<1> HIDE DEF v, r, p
<1>5. SumFunctionOnSet(v(u), DOMAIN t) = SumFunctionOnSet(v(t), DOMAIN t)
  BY <1>1, <1>2, SumsAgree
<1>6. SumFunctionOnSet(r(u), DOMAIN t) = SumFunctionOnSet(r(t), DOMAIN t)
  BY <1>1, <1>2, SumsAgree
<1>7. SumFunctionOnSet(p(u), DOMAIN t) = SumFunctionOnSet(p(t), DOMAIN t)
  BY <1>1, <1>2, SumsAgree
<1> QED BY <1>3, <1>4, <1>5, <1>6, <1>7

\* Each account of u holds q[a] more than in t.
LEMMA AccountsShift ==
  ASSUME NEW t, AccountTable(t), NEW u, DOMAIN u = DOMAIN t, NEW q,
         \A a \in DOMAIN t : q[a] \in Int /\ Money(u[a]) = Money(t[a]) + q[a]
  PROVE  Coins(u) = Coins(t) + SumFunctionOnSet(q, DOMAIN t)
<1> DEFINE m(w) == [a \in DOMAIN w |-> w[a].balance + w[a].savings + w[a].rewardBmt]
<1>1. \A a \in DOMAIN t : m(t)[a] \in Int /\ q[a] \in Int /\ m(u)[a] = m(t)[a] + q[a]
  BY DEF AccountTable, AccountOK, Money
<1>2. IsFiniteSet(DOMAIN t)
  BY DEF AccountTable
<1>3. DOMAIN m(t) = DOMAIN t /\ DOMAIN m(u) = DOMAIN t
  OBVIOUS
<1>4. ASSUME NEW w PROVE Coins(w) = SumFunctionOnSet(m(w), DOMAIN m(w))
  BY DEF Coins, SumFunction
<1> HIDE DEF m
<1>5. SumFunctionOnSet(m(u), DOMAIN t) = SumFunctionOnSet(m(t), DOMAIN t) + SumFunctionOnSet(q, DOMAIN t)
  BY <1>1, <1>2, SumsAdd
<1> QED BY <1>3, <1>4, <1>5

\* Accounts that hold the same money.
LEMMA SameMoney ==
  ASSUME NEW t, AccountTable(t), NEW u, DOMAIN u = DOMAIN t,
         \A a \in DOMAIN t : Money(u[a]) = Money(t[a])
  PROVE  Coins(u) = Coins(t)
<1> DEFINE m(w) == [a \in DOMAIN w |-> w[a].balance + w[a].savings + w[a].rewardBmt]
<1>1. \A a \in DOMAIN t : m(t)[a] \in Int /\ m(u)[a] = m(t)[a]
  BY DEF AccountTable, AccountOK, Money
<1>2. IsFiniteSet(DOMAIN t)
  BY DEF AccountTable
<1>3. DOMAIN m(t) = DOMAIN t /\ DOMAIN m(u) = DOMAIN t
  OBVIOUS
<1>4. ASSUME NEW w PROVE Coins(w) = SumFunctionOnSet(m(w), DOMAIN m(w))
  BY DEF Coins, SumFunction
<1> HIDE DEF m
<1>5. SumFunctionOnSet(m(u), DOMAIN t) = SumFunctionOnSet(m(t), DOMAIN t)
  BY <1>1, <1>2, SumsAgree
<1> QED BY <1>3, <1>4, <1>5

\* One account changes.
LEMMA OneAccount ==
  ASSUME NEW t, AccountTable(t), NEW k \in DOMAIN t, NEW s, AccountOK(s)
  PROVE  LET u == [t EXCEPT ![k] = s]
         IN  /\ AccountTable(u) /\ DOMAIN u = DOMAIN t
             /\ Coins(u) = Coins(t) - Money(t[k]) + Money(s)
             /\ Vests(u) = Vests(t) - t[k].vests + s.vests
             /\ Unclaimed(u) = Unclaimed(t) - t[k].rewardVests + s.rewardVests
             /\ Promised(u) = Promised(t) - t[k].rewardVestsBmt + s.rewardVestsBmt
<1> DEFINE u == [t EXCEPT ![k] = s]
           m(w) == [a \in DOMAIN w |-> w[a].balance + w[a].savings + w[a].rewardBmt]
           n(w) == [a \in DOMAIN w |-> w[a].vests]
           r(w) == [a \in DOMAIN w |-> w[a].rewardVests]
           p(w) == [a \in DOMAIN w |-> w[a].rewardVestsBmt]
<1>1. DOMAIN u = DOMAIN t /\ u[k] = s /\ \A a \in DOMAIN t \ {k} : u[a] = t[a]
  OBVIOUS
<1> HIDE DEF u
<1>2. AccountTable(u)
  BY <1>1 DEF AccountTable
<1>3. IsFiniteSet(DOMAIN t)
  BY DEF AccountTable
<1>4. /\ \A a \in DOMAIN t : m(t)[a] \in Int
      /\ \A a \in DOMAIN t \ {k} : m(u)[a] = m(t)[a]
      /\ m(t)[k] = Money(t[k]) /\ m(u)[k] = Money(s) /\ m(u)[k] \in Int
  BY <1>1, <1>2 DEF AccountTable, AccountOK, Money
<1>5. /\ \A a \in DOMAIN t : n(t)[a] \in Int
      /\ \A a \in DOMAIN t \ {k} : n(u)[a] = n(t)[a]
      /\ n(t)[k] = t[k].vests /\ n(u)[k] = s.vests /\ n(u)[k] \in Int
  BY <1>1, <1>2 DEF AccountTable, AccountOK
<1>6. /\ \A a \in DOMAIN t : r(t)[a] \in Int
      /\ \A a \in DOMAIN t \ {k} : r(u)[a] = r(t)[a]
      /\ r(t)[k] = t[k].rewardVests /\ r(u)[k] = s.rewardVests /\ r(u)[k] \in Int
  BY <1>1, <1>2 DEF AccountTable, AccountOK
<1>7. /\ \A a \in DOMAIN t : p(t)[a] \in Int
      /\ \A a \in DOMAIN t \ {k} : p(u)[a] = p(t)[a]
      /\ p(t)[k] = t[k].rewardVestsBmt /\ p(u)[k] = s.rewardVestsBmt /\ p(u)[k] \in Int
  BY <1>1, <1>2 DEF AccountTable, AccountOK
<1>8. /\ DOMAIN m(t) = DOMAIN t /\ DOMAIN m(u) = DOMAIN t /\ DOMAIN n(t) = DOMAIN t
      /\ DOMAIN n(u) = DOMAIN t /\ DOMAIN r(t) = DOMAIN t /\ DOMAIN r(u) = DOMAIN t
      /\ DOMAIN p(t) = DOMAIN t /\ DOMAIN p(u) = DOMAIN t
  BY <1>1
<1>9. ASSUME NEW w PROVE /\ Coins(w) = SumFunctionOnSet(m(w), DOMAIN m(w))
                         /\ Vests(w) = SumFunctionOnSet(n(w), DOMAIN n(w))
                         /\ Unclaimed(w) = SumFunctionOnSet(r(w), DOMAIN r(w))
                         /\ Promised(w) = SumFunctionOnSet(p(w), DOMAIN p(w))
  BY DEF Coins, Vests, Unclaimed, Promised, SumFunction
<1> HIDE DEF m, n, r, p
<1>10. SumFunctionOnSet(m(u), DOMAIN t) = SumFunctionOnSet(m(t), DOMAIN t) - m(t)[k] + m(u)[k]
  BY <1>3, <1>4, SumsDiffer
<1>11. SumFunctionOnSet(n(u), DOMAIN t) = SumFunctionOnSet(n(t), DOMAIN t) - n(t)[k] + n(u)[k]
  <2>1. /\ \A a \in DOMAIN t : n(t)[a] \in Int
        /\ \A a \in DOMAIN t \ {k} : n(u)[a] = n(t)[a]
    BY <1>5
  <2>2. n(u)[k] \in Int
    BY <1>5
  <2> QED BY <1>3, <2>1, <2>2, SumsDiffer
<1>12. SumFunctionOnSet(r(u), DOMAIN t) = SumFunctionOnSet(r(t), DOMAIN t) - r(t)[k] + r(u)[k]
  BY <1>3, <1>6, SumsDiffer
<1>13. SumFunctionOnSet(p(u), DOMAIN t) = SumFunctionOnSet(p(t), DOMAIN t) - p(t)[k] + p(u)[k]
  BY <1>3, <1>7, SumsDiffer
<1>14. Coins(u) = Coins(t) - Money(t[k]) + Money(s)
  BY <1>4, <1>8, <1>9, <1>10
<1>15. Vests(u) = Vests(t) - t[k].vests + s.vests
  BY <1>5, <1>8, <1>9, <1>11
<1>16. Unclaimed(u) = Unclaimed(t) - t[k].rewardVests + s.rewardVests
  BY <1>6, <1>8, <1>9, <1>12
<1>17. Promised(u) = Promised(t) - t[k].rewardVestsBmt + s.rewardVestsBmt
  BY <1>7, <1>8, <1>9, <1>13
<1> QED BY <1>1, <1>2, <1>14, <1>15, <1>16, <1>17 DEF u

\* A sum with one more element.
LEMMA SumWith ==
  ASSUME NEW D, IsFiniteSet(D), NEW k, k \notin D, NEW f, NEW g, g[k] \in Int,
         \A x \in D : f[x] \in Int /\ g[x] = f[x]
  PROVE  IsFiniteSet(D \cup {k}) /\ SumFunctionOnSet(g, D \cup {k}) = SumFunctionOnSet(f, D) + g[k]
<1>1. IsFiniteSet(D \cup {k})
  BY FS_AddElement
<1>2. SumFunctionOnSet(g, D) = SumFunctionOnSet(f, D)
  BY SumsAgree
<1> DEFINE E == D \cup {k}
<1>3. /\ \A x \in E : g[x] \in Int
      /\ E \in SUBSET E /\ k \in E /\ E \ {k} = D
  OBVIOUS
<1> HIDE DEF E
<1>4. SumFunctionOnSet(g, E) = g[k] + SumFunctionOnSet(g, E \ {k})
  BY <1>1, <1>3, SumFacts DEF E
<1>5. D \in SUBSET D /\ \A x \in D : f[x] \in Int
  OBVIOUS
<1>6. SumFunctionOnSet(f, D) \in Int
  BY <1>5, SumFacts
<1>7. SumFunctionOnSet(g, E) = SumFunctionOnSet(f, D) + g[k]
  <2>1. SumFunctionOnSet(g, E \ {k}) = SumFunctionOnSet(f, D)
    BY <1>2, <1>3
  <2> QED BY <1>4, <1>6, <2>1
<1> QED BY <1>1, <1>7 DEF E

\* A sum without the elements of S.
LEMMA SumLess ==
  ASSUME NEW D, IsFiniteSet(D), NEW S \in SUBSET D, NEW f, \A x \in D : f[x] \in Int,
         NEW g, \A x \in D \ S : g[x] = f[x], NEW h, \A x \in S : h[x] = f[x]
  PROVE  /\ IsFiniteSet(D \ S) /\ SumFunctionOnSet(h, S) \in Int
         /\ SumFunctionOnSet(g, D \ S) = SumFunctionOnSet(f, D) - SumFunctionOnSet(h, S)
<1> DEFINE R == D \ S
<1>1. IsFiniteSet(R) /\ IsFiniteSet(S)
  BY FS_Subset
<1>2. R \cap S = {} /\ D = R \cup S /\ R \in SUBSET D /\ S \in SUBSET D
  OBVIOUS
<1>3. /\ \A x \in R \cup S : f[x] \in Int
      /\ \A x \in R : f[x] \in Int /\ g[x] = f[x]
      /\ \A x \in S : f[x] \in Int /\ h[x] = f[x]
  OBVIOUS
<1> HIDE DEF R
<1>4. SumFunctionOnSet(f, R \cup S) = SumFunctionOnSet(f, R) + SumFunctionOnSet(f, S)
  BY <1>1, <1>2, <1>3, SumsUnion
<1>5. SumFunctionOnSet(g, R) = SumFunctionOnSet(f, R)
  BY <1>1, <1>3, SumsAgree
<1>6. SumFunctionOnSet(h, S) = SumFunctionOnSet(f, S)
  BY <1>1, <1>3, SumsAgree
<1>7. SumFunctionOnSet(f, R) \in Int /\ SumFunctionOnSet(f, S) \in Int
  BY <1>2, SumFacts
<1>8. SumFunctionOnSet(g, R) = SumFunctionOnSet(f, D) - SumFunctionOnSet(h, S)
  BY <1>2, <1>4, <1>5, <1>6, <1>7
<1> QED BY <1>1, <1>6, <1>7, <1>8 DEF R

\* The sum over a single element.
LEMMA SumOfOne ==
  ASSUME NEW k, NEW f, f[k] \in Int
  PROVE  IsFiniteSet({k}) /\ SumFunctionOnSet(f, {k}) = f[k]
<1>1. IsFiniteSet({k})
  BY FS_Singleton
<1>2. {k} \in SUBSET {k} /\ k \in {k} /\ {k} \ {k} = {} /\ \A x \in {k} : f[x] \in Int
  OBVIOUS
<1>3. SumFunctionOnSet(f, {k}) = f[k] + SumFunctionOnSet(f, {k} \ {k}) /\ SumFunctionOnSet(f, {}) = 0
  BY <1>1, <1>2, SumFacts
<1> QED BY <1>1, <1>2, <1>3

\* With and Restrict, entry by entry.
LEMMA WithFacts ==
  ASSUME NEW t, NEW k, NEW v
  PROVE  /\ DOMAIN With(t, k, v) = DOMAIN t \cup {k} /\ With(t, k, v)[k] = v
         /\ \A x \in DOMAIN t \ {k} : With(t, k, v)[x] = t[x]
BY DEF With

\* What is left of a table.
LEMMA RestrictFacts ==
  ASSUME NEW t, NEW S, S \subseteq DOMAIN t
  PROVE  /\ DOMAIN Restrict(t, S) = S /\ \A x \in S : Restrict(t, S)[x] = t[x]
BY DEF Restrict

\* The escrow v has the amounts of an escrow and its parties exist.
EscrowOK(k, v, names) ==
    /\ {"to", "agent", "balance", "fee", "toApproved", "agentApproved"} \subseteq DOMAIN v
    /\ {k[1], v.to, v.agent} \subseteq names /\ {v.balance, v.fee} \subseteq Int
    /\ Approved(v) => v.fee = 0

\* The BMT in escrow.
LEMMA EscrowSums ==
  ASSUME NEW t, NEW names, EscrowTable(t, names)
  PROVE  /\ InEscrow(t) \in Int
         /\ \A k, v : k \notin DOMAIN t /\ EscrowOK(k, v, names) =>
               /\ EscrowTable(With(t, k, v), names)
               /\ InEscrow(With(t, k, v)) = InEscrow(t) + (v.balance + v.fee)
         /\ \A k \in DOMAIN t : \A v : EscrowOK(k, v, names) =>
               /\ EscrowTable([t EXCEPT ![k] = v], names)
               /\ InEscrow([t EXCEPT ![k] = v])
                    = InEscrow(t) - (t[k].balance + t[k].fee) + (v.balance + v.fee)
         /\ \A S \in SUBSET DOMAIN t : \A h : (\A x \in S : h[x] = t[x].balance + t[x].fee) =>
               /\ EscrowTable(Restrict(t, DOMAIN t \ S), names)
               /\ SumFunctionOnSet(h, S) \in Int
               /\ InEscrow(Restrict(t, DOMAIN t \ S)) = InEscrow(t) - SumFunctionOnSet(h, S)
<1> DEFINE m(w) == [k \in DOMAIN w |-> w[k].balance + w[k].fee]
           D == DOMAIN t
<1>1. ASSUME NEW w PROVE InEscrow(w) = SumFunctionOnSet(m(w), DOMAIN w)
  <2>1. DOMAIN m(w) = DOMAIN w
    OBVIOUS
  <2>2. InEscrow(w) = SumFunctionOnSet(m(w), DOMAIN m(w))
    BY DEF InEscrow, SumFunction
  <2> HIDE DEF m
  <2> QED BY <2>1, <2>2
<1>2. \A w, k : k \in DOMAIN w => m(w)[k] = w[k].balance + w[k].fee
  OBVIOUS
<1> HIDE DEF m
<1>3. IsFiniteSet(D) /\ D \in SUBSET D /\ \A k \in D : m(t)[k] \in Int /\ EscrowOK(k, t[k], names)
  BY <1>2 DEF EscrowTable, EscrowOK
<1>4. InEscrow(t) \in Int
  <2>1. SumFunctionOnSet(m(t), D) \in Int
    BY <1>3, SumFacts
  <2> QED BY <1>1, <2>1
<1>5. ASSUME NEW w, IsFiniteSet(DOMAIN w), \A k \in DOMAIN w : EscrowOK(k, w[k], names)
      PROVE  EscrowTable(w, names)
  BY <1>5 DEF EscrowTable, EscrowOK
<1>6. ASSUME NEW k, NEW v, k \notin D, EscrowOK(k, v, names)
      PROVE  /\ EscrowTable(With(t, k, v), names)
             /\ InEscrow(With(t, k, v)) = InEscrow(t) + (v.balance + v.fee)
  <2> DEFINE u == With(t, k, v)
  <2>1. DOMAIN u = D \cup {k} /\ u[k] = v /\ \A x \in D : u[x] = t[x]
    <3>1. DOMAIN u = DOMAIN t \cup {k} /\ u[k] = v /\ \A x \in DOMAIN t \ {k} : u[x] = t[x]
      BY DEF With
    <3> HIDE DEF u
    <3> QED BY <1>6, <3>1
  <2> HIDE DEF u, D
  <2>2. /\ m(u)[k] = v.balance + v.fee /\ m(u)[k] \in Int
        /\ \A x \in D : m(t)[x] \in Int /\ m(u)[x] = m(t)[x]
    BY <1>2, <1>3, <1>6, <2>1 DEF EscrowOK, D
  <2>3. IsFiniteSet(D \cup {k}) /\ SumFunctionOnSet(m(u), D \cup {k}) = SumFunctionOnSet(m(t), D) + m(u)[k]
    <3>1. IsFiniteSet(D) /\ k \notin D /\ m(u)[k] \in Int
      BY <1>3, <1>6, <2>2
    <3>2. \A x \in D : m(t)[x] \in Int /\ m(u)[x] = m(t)[x]
      BY <2>2
    <3> QED BY <3>1, <3>2, SumWith
  <2>4. EscrowTable(u, names)
    BY <1>3, <1>5, <1>6, <2>1, <2>3
  <2>5. InEscrow(u) = InEscrow(t) + (v.balance + v.fee)
    BY <1>1, <2>1, <2>2, <2>3 DEF D
  <2> QED BY <2>4, <2>5 DEF u
<1>7. ASSUME NEW k \in D, NEW v, EscrowOK(k, v, names)
      PROVE  /\ EscrowTable([t EXCEPT ![k] = v], names)
             /\ InEscrow([t EXCEPT ![k] = v])
                    = InEscrow(t) - (t[k].balance + t[k].fee) + (v.balance + v.fee)
  <2> DEFINE u == [t EXCEPT ![k] = v]
  <2>1. DOMAIN u = D /\ u[k] = v /\ \A x \in D \ {k} : u[x] = t[x]
    OBVIOUS
  <2> HIDE DEF u, D
  <2>2. /\ m(u)[k] = v.balance + v.fee /\ m(t)[k] = t[k].balance + t[k].fee
        /\ \A x \in D \ {k} : m(u)[x] = m(t)[x]
    BY <1>2, <1>3, <1>7, <2>1 DEF D
  <2>3. m(u)[k] \in Int /\ \A x \in D : m(t)[x] \in Int
    BY <1>3, <1>7, <2>2 DEF EscrowOK
  <2>4. SumFunctionOnSet(m(u), D) = SumFunctionOnSet(m(t), D) - m(t)[k] + m(u)[k]
    <3>1. IsFiniteSet(D) /\ k \in D /\ m(u)[k] \in Int
      BY <1>3, <1>7, <2>3
    <3>2. \A x \in D : m(t)[x] \in Int
      BY <2>3
    <3>3. \A x \in D \ {k} : m(u)[x] = m(t)[x]
      BY <2>2
    <3> QED BY <3>1, <3>2, <3>3, SumsDiffer
  <2>5. EscrowTable(u, names)
    BY <1>3, <1>5, <1>7, <2>1
  <2>6. InEscrow(u) = InEscrow(t) - (t[k].balance + t[k].fee) + (v.balance + v.fee)
    BY <1>1, <2>1, <2>2, <2>4 DEF D
  <2> QED BY <2>5, <2>6 DEF u
<1>8. ASSUME NEW S \in SUBSET D, NEW h, \A x \in S : h[x] = t[x].balance + t[x].fee
      PROVE  /\ EscrowTable(Restrict(t, D \ S), names)
             /\ SumFunctionOnSet(h, S) \in Int
             /\ InEscrow(Restrict(t, D \ S)) = InEscrow(t) - SumFunctionOnSet(h, S)
  <2> DEFINE u == Restrict(t, D \ S)
  <2>1. DOMAIN u = D \ S /\ \A x \in D \ S : u[x] = t[x]
    BY RestrictFacts
  <2> HIDE DEF u, D
  <2>2. /\ \A x \in D \ S : m(u)[x] = m(t)[x]
        /\ \A x \in S : h[x] = m(t)[x]
    BY <1>2, <1>8, <2>1 DEF D
  <2>3. \A x \in D : m(t)[x] \in Int
    BY <1>3
  <2>4. /\ IsFiniteSet(D \ S) /\ SumFunctionOnSet(h, S) \in Int
        /\ SumFunctionOnSet(m(u), D \ S) = SumFunctionOnSet(m(t), D) - SumFunctionOnSet(h, S)
    BY <1>3, <2>2, <2>3, SumLess
  <2>5. EscrowTable(u, names)
    BY <1>3, <1>5, <2>1, <2>4
  <2>6. InEscrow(u) = InEscrow(t) - SumFunctionOnSet(h, S)
    BY <1>1, <2>1, <2>4 DEF D
  <2> QED BY <2>4, <2>5, <2>6 DEF u
<1> QED BY <1>4, <1>6, <1>7, <1>8

\* The order v has an amount and belongs to an account.
OrderOK(k, v, names) == k[1] \in names /\ v.forSale \in Int

\* The BMT in orders on the market.
LEMMA OrderSums ==
  ASSUME NEW t, NEW names, OrderTable(t, names)
  PROVE  /\ OnSale(t) \in Int
         /\ \A k, v : k \notin DOMAIN t /\ OrderOK(k, v, names) =>
               /\ OrderTable(With(t, k, v), names)
               /\ OnSale(With(t, k, v)) = OnSale(t) + v.forSale
         /\ \A S \in SUBSET DOMAIN t : \A h : (\A x \in S : h[x] = t[x].forSale) =>
               /\ OrderTable(Restrict(t, DOMAIN t \ S), names)
               /\ SumFunctionOnSet(h, S) \in Int
               /\ OnSale(Restrict(t, DOMAIN t \ S)) = OnSale(t) - SumFunctionOnSet(h, S)
<1> DEFINE m(w) == [k \in DOMAIN w |-> w[k].forSale]
           D == DOMAIN t
<1>1. ASSUME NEW w PROVE OnSale(w) = SumFunctionOnSet(m(w), DOMAIN w)
  <2>1. DOMAIN m(w) = DOMAIN w
    OBVIOUS
  <2>2. OnSale(w) = SumFunctionOnSet(m(w), DOMAIN m(w))
    BY DEF OnSale, SumFunction
  <2> HIDE DEF m
  <2> QED BY <2>1, <2>2
<1>2. \A w, k : k \in DOMAIN w => m(w)[k] = w[k].forSale
  OBVIOUS
<1> HIDE DEF m
<1>3. IsFiniteSet(D) /\ D \in SUBSET D /\ \A k \in D : m(t)[k] \in Int /\ OrderOK(k, t[k], names)
  BY <1>2 DEF OrderTable, OrderOK
<1>4. OnSale(t) \in Int
  <2>1. SumFunctionOnSet(m(t), D) \in Int
    BY <1>3, SumFacts
  <2> QED BY <1>1, <2>1
<1>5. ASSUME NEW w, IsFiniteSet(DOMAIN w), \A k \in DOMAIN w : OrderOK(k, w[k], names)
      PROVE  OrderTable(w, names)
  BY <1>5 DEF OrderTable, OrderOK
<1>6. ASSUME NEW k, NEW v, k \notin D, OrderOK(k, v, names)
      PROVE  /\ OrderTable(With(t, k, v), names)
             /\ OnSale(With(t, k, v)) = OnSale(t) + v.forSale
  <2> DEFINE u == With(t, k, v)
  <2>1. DOMAIN u = D \cup {k} /\ u[k] = v /\ \A x \in D : u[x] = t[x]
    <3>1. DOMAIN u = DOMAIN t \cup {k} /\ u[k] = v /\ \A x \in DOMAIN t \ {k} : u[x] = t[x]
      BY DEF With
    <3> HIDE DEF u
    <3> QED BY <1>6, <3>1
  <2> HIDE DEF u, D
  <2>2. /\ m(u)[k] = v.forSale /\ m(u)[k] \in Int
        /\ \A x \in D : m(t)[x] \in Int /\ m(u)[x] = m(t)[x]
    BY <1>2, <1>3, <1>6, <2>1 DEF OrderOK, D
  <2>3. IsFiniteSet(D \cup {k}) /\ SumFunctionOnSet(m(u), D \cup {k}) = SumFunctionOnSet(m(t), D) + m(u)[k]
    <3>1. IsFiniteSet(D) /\ k \notin D /\ m(u)[k] \in Int
      BY <1>3, <1>6, <2>2
    <3>2. \A x \in D : m(t)[x] \in Int /\ m(u)[x] = m(t)[x]
      BY <2>2
    <3> QED BY <3>1, <3>2, SumWith
  <2>4. OrderTable(u, names)
    BY <1>3, <1>5, <1>6, <2>1, <2>3
  <2>5. OnSale(u) = OnSale(t) + v.forSale
    BY <1>1, <2>1, <2>2, <2>3 DEF D
  <2> QED BY <2>4, <2>5 DEF u
<1>7. ASSUME NEW S \in SUBSET D, NEW h, \A x \in S : h[x] = t[x].forSale
      PROVE  /\ OrderTable(Restrict(t, D \ S), names)
             /\ SumFunctionOnSet(h, S) \in Int
             /\ OnSale(Restrict(t, D \ S)) = OnSale(t) - SumFunctionOnSet(h, S)
  <2> DEFINE u == Restrict(t, D \ S)
  <2>1. DOMAIN u = D \ S /\ \A x \in D \ S : u[x] = t[x]
    BY RestrictFacts
  <2> HIDE DEF u, D
  <2>2. /\ \A x \in D \ S : m(u)[x] = m(t)[x]
        /\ \A x \in S : h[x] = m(t)[x]
    BY <1>2, <1>7, <2>1 DEF D
  <2>3. \A x \in D : m(t)[x] \in Int
    BY <1>3
  <2>4. /\ IsFiniteSet(D \ S) /\ SumFunctionOnSet(h, S) \in Int
        /\ SumFunctionOnSet(m(u), D \ S) = SumFunctionOnSet(m(t), D) - SumFunctionOnSet(h, S)
    <3>1. IsFiniteSet(D) /\ S \in SUBSET D
      BY <1>3, <1>7
    <3>2. \A x \in D \ S : m(u)[x] = m(t)[x]
      BY <2>2
    <3>3. \A x \in S : h[x] = m(t)[x]
      BY <2>2
    <3> QED BY <2>3, <3>1, <3>2, <3>3, SumLess
  <2>5. OrderTable(u, names)
    BY <1>3, <1>5, <2>1, <2>4
  <2>6. OnSale(u) = OnSale(t) - SumFunctionOnSet(h, S)
    BY <1>1, <2>1, <2>4 DEF D
  <2> QED BY <2>4, <2>5, <2>6 DEF u
<1> QED BY <1>4, <1>6, <1>7

\* The order for content v has a price and belongs to an account.
ContentOK(v, names) ==
    {"owner", "price", "status"} \subseteq DOMAIN v /\ v.owner \in names /\ v.price \in Int

\* What is set aside for the order v.
SetAside(v) == IF v.status = "open" THEN v.price ELSE 0

\* The BMT in open orders for content.
LEMMA ContentSums ==
  ASSUME NEW t, NEW names, ContentTable(t, names)
  PROVE  /\ Reserved(t) \in Int
         /\ \A v : ContentOK(v, names) =>
               /\ ContentTable(Append(t, v), names)
               /\ Reserved(Append(t, v)) = Reserved(t) + SetAside(v)
         /\ \A k \in DOMAIN t : \A v : ContentOK(v, names) =>
               /\ ContentTable([t EXCEPT ![k] = v], names)
               /\ Reserved([t EXCEPT ![k] = v]) = Reserved(t) - SetAside(t[k]) + SetAside(v)
<1> DEFINE m(w) == [k \in DOMAIN w |-> IF w[k].status = "open" THEN w[k].price ELSE 0]
           D == DOMAIN t
<1>1. ASSUME NEW w PROVE Reserved(w) = SumFunctionOnSet(m(w), DOMAIN w)
  <2>1. DOMAIN m(w) = DOMAIN w
    OBVIOUS
  <2>2. Reserved(w) = SumFunctionOnSet(m(w), DOMAIN m(w))
    BY DEF Reserved, SumFunction
  <2> HIDE DEF m
  <2> QED BY <2>1, <2>2
<1>2. \A w, k : k \in DOMAIN w => m(w)[k] = SetAside(w[k])
  BY DEF SetAside
<1> HIDE DEF m
<1>3. ASSUME NEW v, ContentOK(v, names) PROVE SetAside(v) \in Int
  BY <1>3 DEF ContentOK, SetAside
<1>4. /\ t \in Seq(Range(t)) /\ D = 1 .. Len(t) /\ Len(t) \in Nat
      /\ \A k \in D : ContentOK(t[k], names)
  BY DEF ContentTable, ContentOK
<1>5. IsFiniteSet(D) /\ D \in SUBSET D /\ \A k \in D : m(t)[k] \in Int
  <2>1. IsFiniteSet(1 .. Len(t))
    BY <1>4, FS_Interval
  <2>2. ASSUME NEW k \in D PROVE m(t)[k] \in Int
    BY <1>2, <1>3, <1>4
  <2> HIDE DEF D
  <2> QED BY <1>4, <2>1, <2>2
<1>6. Reserved(t) \in Int
  <2>1. SumFunctionOnSet(m(t), D) \in Int
    BY <1>5, SumFacts
  <2> QED BY <1>1, <2>1
<1>7. ASSUME NEW w, NEW n \in Nat, DOMAIN w = 1 .. n, \A k \in 1 .. n : ContentOK(w[k], names),
             w = [k \in 1 .. n |-> w[k]]
      PROVE  ContentTable(w, names)
  <2>1. w \in [1 .. n -> Range(w)]
    BY <1>7 DEF Range
  <2>2. w \in Seq(Range(w))
    BY <2>1, FunctionIsSequence
  <2> QED BY <1>7, <2>2 DEF ContentTable, ContentOK
<1>8. ASSUME NEW v, ContentOK(v, names)
      PROVE  /\ ContentTable(Append(t, v), names)
             /\ Reserved(Append(t, v)) = Reserved(t) + SetAside(v)
  <2> DEFINE u == Append(t, v)
             k == Len(t) + 1
  <2>1. /\ DOMAIN u = 1 .. k /\ u[k] = v /\ \A x \in 1 .. Len(t) : u[x] = t[x]
        /\ u = [x \in 1 .. k |-> u[x]]
    <3> DEFINE R == Range(t) \cup {v}
    <3>1. t \in Seq(R) /\ v \in R
      <4>1. \A x \in 1 .. Len(t) : t[x] \in Range(t)
        BY <1>4
      <4>2. t \in [1 .. Len(t) -> R]
        BY <1>4, <4>1
      <4> QED BY <1>4, <4>2, FunctionIsSequence
    <3> HIDE DEF R
    <3>2. u \in Seq(R) /\ Len(u) = k /\ u[k] = v /\ \A x \in 1 .. Len(t) : u[x] = t[x]
      BY <3>1, AppendProperties
    <3> HIDE DEF u, k
    <3>3. DOMAIN u = 1 .. k /\ u \in [1 .. k -> R]
      BY <3>2, LenProperties
    <3> QED BY <3>2, <3>3
  <2>2. k \in Nat /\ 1 .. k = (1 .. Len(t)) \cup {k} /\ k \notin 1 .. Len(t) /\ k \in 1 .. k
    BY <1>4
  <2> HIDE DEF u, k
  <2>3. D = 1 .. Len(t)
    BY <1>4
  <2> HIDE DEF D
  <2>4. /\ m(u)[k] = SetAside(v) /\ m(u)[k] \in Int
        /\ \A x \in D : m(t)[x] \in Int /\ m(u)[x] = m(t)[x]
    <3>1. m(u)[k] = SetAside(u[k])
      BY <1>2, <2>1, <2>2
    <3>2. SetAside(v) \in Int /\ u[k] = v
      BY <1>3, <1>8, <2>1
    <3>3. ASSUME NEW x \in D PROVE m(t)[x] \in Int /\ m(u)[x] = m(t)[x]
      <4>1. x \in DOMAIN t /\ x \in DOMAIN u /\ u[x] = t[x]
        BY <2>1, <2>2, <2>3 DEF D
      <4> QED BY <1>2, <1>5, <4>1
    <3> QED BY <3>1, <3>2, <3>3
  <2>5. SumFunctionOnSet(m(u), D \cup {k}) = SumFunctionOnSet(m(t), D) + m(u)[k]
    <3>1. IsFiniteSet(D) /\ k \notin D /\ m(u)[k] \in Int
      BY <1>5, <2>2, <2>3, <2>4
    <3>2. \A x \in D : m(t)[x] \in Int /\ m(u)[x] = m(t)[x]
      BY <2>4
    <3> QED BY <3>1, <3>2, SumWith, Zenon
  <2>6. \A x \in 1 .. k : ContentOK(u[x], names)
    BY <1>4, <1>8, <2>1, <2>2, <2>3
  <2>7. ContentTable(u, names)
    BY <1>7, <2>1, <2>2, <2>6
  <2>8. Reserved(u) = Reserved(t) + SetAside(v)
    <3>1. Reserved(t) = SumFunctionOnSet(m(t), D)
      BY <1>1 DEF D
    <3>2. DOMAIN u = D \cup {k}
      BY <2>1, <2>2, <2>3
    <3>3. Reserved(u) = SumFunctionOnSet(m(u), D \cup {k})
      BY <1>1, <3>2
    <3> QED BY <2>4, <2>5, <3>1, <3>3
  <2> QED BY <2>7, <2>8 DEF u
<1>9. ASSUME NEW k \in D, NEW v, ContentOK(v, names)
      PROVE  /\ ContentTable([t EXCEPT ![k] = v], names)
             /\ Reserved([t EXCEPT ![k] = v]) = Reserved(t) - SetAside(t[k]) + SetAside(v)
  <2> DEFINE u == [t EXCEPT ![k] = v]
  <2>1. DOMAIN u = D /\ u[k] = v /\ (\A x \in D \ {k} : u[x] = t[x]) /\ u = [x \in D |-> u[x]]
    OBVIOUS
  <2> HIDE DEF u
  <2>2. ContentTable(u, names)
    <3>1. \A x \in D : ContentOK(u[x], names)
      BY <1>4, <1>9, <2>1
    <3> HIDE DEF D
    <3> QED BY <1>4, <1>7, <2>1, <3>1
  <2> HIDE DEF D
  <2>3. /\ m(u)[k] = SetAside(v) /\ m(t)[k] = SetAside(t[k])
        /\ \A x \in D \ {k} : m(u)[x] = m(t)[x]
    BY <1>2, <1>9, <2>1 DEF D
  <2>4. SumFunctionOnSet(m(u), D) = SumFunctionOnSet(m(t), D) - m(t)[k] + m(u)[k]
    <3>1. IsFiniteSet(D) /\ k \in D /\ m(u)[k] \in Int
      BY <1>3, <1>5, <1>9, <2>3
    <3>2. \A x \in D : m(t)[x] \in Int
      BY <1>5
    <3>3. \A x \in D \ {k} : m(u)[x] = m(t)[x]
      BY <2>3
    <3> QED BY <3>1, <3>2, <3>3, SumsDiffer
  <2>5. Reserved(u) = Reserved(t) - SetAside(t[k]) + SetAside(v)
    BY <1>1, <2>1, <2>3, <2>4 DEF D
  <2> QED BY <2>2, <2>5 DEF u
<1> QED BY <1>6, <1>8, <1>9

-----------------------------------------------------------------------------
\* Gaps between the totals and the tables.

\* The totals are numbers.
GpoOK(g) ==
    \A x \in {"supply", "lastSupply", "vestingShares", "vestingFund", "pendingShares",
              "pendingBmt"} : x \in DOMAIN g /\ g[x] \in Int

\* So is what the reward fund holds.
FundOK(f) == \A x \in {"balance", "claims", "update"} : x \in DOMAIN f /\ f[x] \in Int

\* How far the totals are from what the objects hold: in BMT, in vests, in vests
\* that wait to be claimed and in the BMT behind these.
BmtGap(d) ==
    d.gpo.supply - (Coins(d.acct) + OnSale(d.orders) + InEscrow(d.escrows)
                     + Reserved(d.content) + d.fund.balance + d.gpo.vestingFund
                     + d.gpo.pendingBmt)
VestGap(d) == d.gpo.vestingShares - Vests(d.acct)
ShareGap(d) == d.gpo.pendingShares - Unclaimed(d.acct)
PromiseGap(d) == d.gpo.pendingBmt - Promised(d.acct)

\* From d to e, BMT that x says are missing from the objects or, below zero, are
\* new in them; everything else adds up as before.
Moves(d, e, x) ==
    /\ Amounted(e) /\ x \in Int /\ Names(d) \subseteq Names(e)
    /\ BmtGap(e) = BmtGap(d) + x /\ VestGap(e) = VestGap(d)
    /\ ShareGap(e) = ShareGap(d) /\ PromiseGap(e) = PromiseGap(d)
    /\ e.tokens = d.tokens /\ e.holdings = d.holdings

\* The tables with something to add up.
MoneyTables == {"acct", "gpo", "fund", "escrows", "orders", "content", "routes", "comments",
                "votes", "tokens", "holdings"}

\* Of these only the tables in S differ.
Kept(d, e, S) == DOMAIN e = TableNames /\ \A n \in MoneyTables \ S : e[n] = d[n]

\* The totals and the sums are numbers, and no gap is what the invariants say.
LEMMA Gaps ==
  ASSUME NEW d, Amounted(d)
  PROVE  /\ Coins(d.acct) \in Int /\ Vests(d.acct) \in Int
         /\ Unclaimed(d.acct) \in Int /\ Promised(d.acct) \in Int
         /\ OnSale(d.orders) \in Int /\ InEscrow(d.escrows) \in Int /\ Reserved(d.content) \in Int
         /\ GpoOK(d.gpo) /\ FundOK(d.fund)
         /\ d.gpo.supply \in Int /\ d.gpo.lastSupply \in Int /\ d.gpo.vestingShares \in Int
         /\ d.gpo.vestingFund \in Int /\ d.gpo.pendingShares \in Int /\ d.gpo.pendingBmt \in Int
         /\ d.fund.balance \in Int /\ d.fund.claims \in Int /\ d.fund.update \in Int
         /\ BmtGap(d) \in Int /\ VestGap(d) \in Int /\ ShareGap(d) \in Int /\ PromiseGap(d) \in Int
         /\ SupplyExact(d) <=> BmtGap(d) = 0
         /\ VestsExact(d) <=> VestGap(d) = 0 /\ ShareGap(d) = 0 /\ PromiseGap(d) = 0
<1>1. /\ Coins(d.acct) \in Int /\ Vests(d.acct) \in Int
      /\ Unclaimed(d.acct) \in Int /\ Promised(d.acct) \in Int
  BY AccountSums DEF Amounted
<1>2. OnSale(d.orders) \in Int
  BY OrderSums DEF Amounted
<1>3. InEscrow(d.escrows) \in Int
  BY EscrowSums DEF Amounted
<1>4. Reserved(d.content) \in Int
  BY ContentSums DEF Amounted
<1>5. GpoOK(d.gpo) /\ FundOK(d.fund)
  BY DEF Amounted, GpoOK, FundOK
<1>6. /\ d.gpo.supply \in Int /\ d.gpo.lastSupply \in Int /\ d.gpo.vestingShares \in Int
      /\ d.gpo.vestingFund \in Int /\ d.gpo.pendingShares \in Int /\ d.gpo.pendingBmt \in Int
      /\ d.fund.balance \in Int /\ d.fund.claims \in Int /\ d.fund.update \in Int
  BY <1>5 DEF GpoOK, FundOK
<1>7. BmtGap(d) \in Int /\ VestGap(d) \in Int /\ ShareGap(d) \in Int /\ PromiseGap(d) \in Int
  BY <1>1, <1>2, <1>3, <1>4, <1>6 DEF BmtGap, VestGap, ShareGap, PromiseGap
<1>8. SupplyExact(d) <=> BmtGap(d) = 0
  BY <1>1, <1>2, <1>3, <1>4, <1>6 DEF BmtGap, SupplyExact
<1>9. VestsExact(d) <=> VestGap(d) = 0 /\ ShareGap(d) = 0 /\ PromiseGap(d) = 0
  BY <1>1, <1>6 DEF VestGap, ShareGap, PromiseGap, VestsExact
<1> QED BY <1>1, <1>2, <1>3, <1>4, <1>5, <1>6, <1>7, <1>8, <1>9

\* Moving twice.
LEMMA MovesTwice ==
  ASSUME NEW c, Amounted(c), NEW d, NEW e, NEW x, NEW y, Moves(c, d, x), Moves(d, e, y)
  PROVE  Moves(c, e, x + y)
<1>1. BmtGap(c) \in Int
  BY Gaps
<1> QED BY <1>1 DEF Moves

\* Not moving.
LEMMA MovesNot ==
  ASSUME NEW d, Amounted(d)
  PROVE  Moves(d, d, 0)
<1>1. BmtGap(d) \in Int
  BY Gaps
<1> QED BY <1>1 DEF Moves

\* With more accounts the tables are still in order.
LEMMA MoreNames ==
  ASSUME NEW N, NEW M, N \subseteq M
  PROVE  /\ \A t : EscrowTable(t, N) => EscrowTable(t, M)
         /\ \A t : OrderTable(t, N) => OrderTable(t, M)
         /\ \A t : ContentTable(t, N) => ContentTable(t, M)
         /\ \A t : RouteTable(t, N) => RouteTable(t, M)
         /\ \A t : CommentTable(t, N) => CommentTable(t, M)
         /\ \A t : VoteTable(t, N) => VoteTable(t, M)
<1>1. \A t : EscrowTable(t, N) => EscrowTable(t, M)
  BY DEF EscrowTable
<1>2. \A t : OrderTable(t, N) => OrderTable(t, M)
  BY DEF OrderTable
<1>3. \A t : ContentTable(t, N) => ContentTable(t, M)
  BY DEF ContentTable
<1>4. \A t : RouteTable(t, N) => RouteTable(t, M)
  BY DEF RouteTable
<1>5. \A t : CommentTable(t, N) => CommentTable(t, M)
  BY DEF CommentTable
<1>6. \A t : VoteTable(t, N) => VoteTable(t, M)
  BY DEF VoteTable
<1> QED BY <1>1, <1>2, <1>3, <1>4, <1>5, <1>6

\* Tables of which those that differ are in order.
LEMMA StillAmounted ==
  ASSUME NEW d, Amounted(d), NEW e, DOMAIN e = TableNames,
         AccountTable(e.acct), Names(d) \subseteq Names(e), GpoOK(e.gpo), FundOK(e.fund),
         e.escrows = d.escrows \/ EscrowTable(e.escrows, Names(e)),
         e.orders = d.orders \/ OrderTable(e.orders, Names(e)),
         e.content = d.content \/ ContentTable(e.content, Names(e)),
         e.routes = d.routes \/ RouteTable(e.routes, Names(e)),
         e.comments = d.comments \/ CommentTable(e.comments, Names(e)),
         e.votes = d.votes \/ VoteTable(e.votes, Names(e)),
         e.tokens = d.tokens \/ TokenTable(e.tokens),
         (e.tokens = d.tokens /\ e.holdings = d.holdings) \/ HoldingTable(e.holdings, DOMAIN e.tokens)
  PROVE  Amounted(e)
<1>1. {Null, Producer} \subseteq Names(e)
  BY DEF Amounted
<1>2. EscrowTable(e.escrows, Names(e)) /\ OrderTable(e.orders, Names(e))
  BY MoreNames DEF Amounted
<1>3. ContentTable(e.content, Names(e)) /\ RouteTable(e.routes, Names(e))
  BY MoreNames DEF Amounted
<1>4. CommentTable(e.comments, Names(e)) /\ VoteTable(e.votes, Names(e))
  BY MoreNames DEF Amounted
<1>5. TokenTable(e.tokens) /\ HoldingTable(e.holdings, DOMAIN e.tokens)
  BY DEF Amounted
<1>6. /\ \A x \in {"supply", "lastSupply", "vestingShares", "vestingFund", "pendingShares",
                   "pendingBmt"} : x \in DOMAIN e.gpo /\ e.gpo[x] \in Int
      /\ \A x \in {"balance", "claims", "update"} : x \in DOMAIN e.fund /\ e.fund[x] \in Int
  BY DEF GpoOK, FundOK
<1> QED BY <1>1, <1>2, <1>3, <1>4, <1>5, <1>6 DEF Amounted

\* Accounts and totals that change, with the votes for witnesses and whatever has
\* no amounts.
LEMMA TotalsMove ==
  ASSUME NEW d, Amounted(d), NEW e, Kept(d, e, {"acct", "gpo"}),
         AccountTable(e.acct), Names(d) \subseteq Names(e), GpoOK(e.gpo),
         VestGap(e) = VestGap(d), ShareGap(e) = ShareGap(d), PromiseGap(e) = PromiseGap(d)
  PROVE  Moves(d, e, (e.gpo.supply - d.gpo.supply) - (Coins(e.acct) - Coins(d.acct))
                      - (e.gpo.vestingFund - d.gpo.vestingFund)
                      - (e.gpo.pendingBmt - d.gpo.pendingBmt))
<1>1. /\ DOMAIN e = TableNames /\ e.fund = d.fund /\ e.escrows = d.escrows /\ e.orders = d.orders
      /\ e.content = d.content /\ e.routes = d.routes /\ e.comments = d.comments
      /\ e.votes = d.votes /\ e.tokens = d.tokens /\ e.holdings = d.holdings
  BY DEF Kept, MoneyTables
<1>2. Amounted(e)
  BY <1>1, StillAmounted, Gaps
<1>3. BmtGap(e) = BmtGap(d) + ((e.gpo.supply - d.gpo.supply) - (Coins(e.acct) - Coins(d.acct))
                      - (e.gpo.vestingFund - d.gpo.vestingFund)
                      - (e.gpo.pendingBmt - d.gpo.pendingBmt))
  <2>1. /\ d.gpo.supply \in Int /\ d.gpo.vestingFund \in Int /\ d.gpo.pendingBmt \in Int
        /\ e.gpo.supply \in Int /\ e.gpo.vestingFund \in Int /\ e.gpo.pendingBmt \in Int
        /\ Coins(d.acct) \in Int /\ Coins(e.acct) \in Int /\ d.fund.balance \in Int
        /\ OnSale(d.orders) \in Int /\ InEscrow(d.escrows) \in Int /\ Reserved(d.content) \in Int
    BY <1>2, Gaps
  <2> QED BY <1>1, <2>1 DEF BmtGap
<1>4. /\ d.gpo.supply \in Int /\ d.gpo.vestingFund \in Int /\ d.gpo.pendingBmt \in Int
      /\ e.gpo.supply \in Int /\ e.gpo.vestingFund \in Int /\ e.gpo.pendingBmt \in Int
      /\ Coins(d.acct) \in Int /\ Coins(e.acct) \in Int
  BY <1>2, Gaps
<1> QED BY <1>1, <1>2, <1>3, <1>4 DEF Moves

\* The other tables, one or more of them.
LEMMA TablesMove ==
  ASSUME NEW d, Amounted(d), NEW e,
         Kept(d, e, {"fund", "escrows", "orders", "content", "routes", "comments", "votes"}),
         FundOK(e.fund),
         e.escrows = d.escrows \/ EscrowTable(e.escrows, Names(d)),
         e.orders = d.orders \/ OrderTable(e.orders, Names(d)),
         e.content = d.content \/ ContentTable(e.content, Names(d)),
         e.routes = d.routes \/ RouteTable(e.routes, Names(d)),
         e.comments = d.comments \/ CommentTable(e.comments, Names(d)),
         e.votes = d.votes \/ VoteTable(e.votes, Names(d))
  PROVE  Moves(d, e, (d.fund.balance - e.fund.balance) + (InEscrow(d.escrows) - InEscrow(e.escrows))
                      + (OnSale(d.orders) - OnSale(e.orders))
                      + (Reserved(d.content) - Reserved(e.content)))
<1>1. /\ DOMAIN e = TableNames /\ e.acct = d.acct /\ e.gpo = d.gpo
      /\ e.tokens = d.tokens /\ e.holdings = d.holdings /\ Names(e) = Names(d)
  BY DEF Kept, MoneyTables, Names
<1>2. AccountTable(e.acct) /\ GpoOK(e.gpo)
  BY <1>1, Gaps DEF Amounted
<1>3. Amounted(e)
  BY <1>1, <1>2, StillAmounted
<1>4. /\ OnSale(d.orders) \in Int /\ InEscrow(d.escrows) \in Int /\ Reserved(d.content) \in Int
      /\ OnSale(e.orders) \in Int /\ InEscrow(e.escrows) \in Int /\ Reserved(e.content) \in Int
      /\ d.fund.balance \in Int /\ e.fund.balance \in Int
      /\ d.gpo.supply \in Int /\ d.gpo.vestingFund \in Int /\ d.gpo.pendingBmt \in Int
      /\ Coins(d.acct) \in Int
  BY <1>3, Gaps
<1>5. BmtGap(e) = BmtGap(d) + ((d.fund.balance - e.fund.balance)
                      + (InEscrow(d.escrows) - InEscrow(e.escrows))
                      + (OnSale(d.orders) - OnSale(e.orders))
                      + (Reserved(d.content) - Reserved(e.content)))
  BY <1>1, <1>4 DEF BmtGap
<1>6. VestGap(e) = VestGap(d) /\ ShareGap(e) = ShareGap(d) /\ PromiseGap(e) = PromiseGap(d)
  BY <1>1 DEF VestGap, ShareGap, PromiseGap
<1> QED BY <1>1, <1>3, <1>4, <1>5, <1>6 DEF Moves

\* Accounts that change while the totals stay.
LEMMA AccountsMove ==
  ASSUME NEW d, Amounted(d), NEW e, Kept(d, e, {"acct"}), AccountTable(e.acct),
         Names(d) \subseteq Names(e), Vests(e.acct) = Vests(d.acct),
         Unclaimed(e.acct) = Unclaimed(d.acct), Promised(e.acct) = Promised(d.acct)
  PROVE  Moves(d, e, Coins(d.acct) - Coins(e.acct))
<1>1. e.gpo = d.gpo /\ Kept(d, e, {"acct", "gpo"})
  BY DEF Kept, MoneyTables
<1>2. /\ GpoOK(e.gpo) /\ d.gpo.supply \in Int /\ d.gpo.vestingFund \in Int /\ d.gpo.pendingBmt \in Int
      /\ Coins(d.acct) \in Int
  BY <1>1, Gaps
<1>3. VestGap(e) = VestGap(d) /\ ShareGap(e) = ShareGap(d) /\ PromiseGap(e) = PromiseGap(d)
  BY <1>1 DEF VestGap, ShareGap, PromiseGap
<1>4. Moves(d, e, (e.gpo.supply - d.gpo.supply) - (Coins(e.acct) - Coins(d.acct))
                   - (e.gpo.vestingFund - d.gpo.vestingFund)
                   - (e.gpo.pendingBmt - d.gpo.pendingBmt))
  BY <1>1, <1>2, <1>3, TotalsMove
<1>5. Coins(e.acct) \in Int
  BY AccountSums
<1>6. (e.gpo.supply - d.gpo.supply) - (Coins(e.acct) - Coins(d.acct))
       - (e.gpo.vestingFund - d.gpo.vestingFund) - (e.gpo.pendingBmt - d.gpo.pendingBmt)
      = Coins(d.acct) - Coins(e.acct)
  BY <1>1, <1>2, <1>5
<1> QED BY <1>4, <1>6

\* The fields of an account.
LEMMA AccountFields ==
  /\ DOMAIN NewAccount = {"id", "balance", "savings", "vests", "rewardBmt", "rewardVests",
        "rewardVestsBmt", "delegated", "received", "proxy", "proxied", "canVote", "votesFor", "rate",
        "nextWithdrawal", "toWithdraw", "withdrawn", "lastRootPost", "lastPost", "lastVote"}
  /\ AccountOK(NewAccount) /\ NewAccount.vests = 0 /\ NewAccount.rewardVests = 0
  /\ NewAccount.rewardVestsBmt = 0 /\ Money(NewAccount) = 0
<1>1. Never \in Int
  BY HeadAssumption DEF Never
<1> QED BY <1>1 DEF NewAccount, AccountOK, Money

\* Two states of an account with the same vests and rewards in vests.
SameVests(s, r) ==
    r.vests = s.vests /\ r.rewardVests = s.rewardVests /\ r.rewardVestsBmt = s.rewardVestsBmt

\* One account gains or loses money.
LEMMA OneMoves ==
  ASSUME NEW d, Amounted(d), NEW e, Kept(d, e, {"acct"}), NEW a \in Names(d), NEW s,
         e.acct = [d.acct EXCEPT ![a] = s], AccountOK(s), SameVests(d.acct[a], s)
  PROVE  Names(e) = Names(d) /\ Moves(d, e, Money(d.acct[a]) - Money(s))
<1>1. AccountTable(d.acct) /\ a \in DOMAIN d.acct /\ AccountOK(d.acct[a])
  BY DEF Amounted, Names, AccountTable
<1>2. /\ AccountTable(e.acct) /\ DOMAIN e.acct = DOMAIN d.acct
      /\ Coins(e.acct) = Coins(d.acct) - Money(d.acct[a]) + Money(s)
      /\ Vests(e.acct) = Vests(d.acct) - d.acct[a].vests + s.vests
      /\ Unclaimed(e.acct) = Unclaimed(d.acct) - d.acct[a].rewardVests + s.rewardVests
      /\ Promised(e.acct) = Promised(d.acct) - d.acct[a].rewardVestsBmt + s.rewardVestsBmt
  BY <1>1, OneAccount
<1>3. /\ Coins(d.acct) \in Int /\ Vests(d.acct) \in Int
      /\ Unclaimed(d.acct) \in Int /\ Promised(d.acct) \in Int
  BY Gaps
<1>4. /\ Money(s) \in Int /\ Money(d.acct[a]) \in Int
      /\ s.vests \in Int /\ s.rewardVests \in Int /\ s.rewardVestsBmt \in Int
  BY <1>1 DEF AccountOK, Money
<1>5. /\ Vests(e.acct) = Vests(d.acct) /\ Unclaimed(e.acct) = Unclaimed(d.acct)
      /\ Promised(e.acct) = Promised(d.acct)
  BY <1>2, <1>3, <1>4 DEF SameVests
<1>6. Names(e) = Names(d)
  BY <1>2 DEF Names
<1>7. Moves(d, e, Coins(d.acct) - Coins(e.acct))
  BY <1>2, <1>5, <1>6, AccountsMove
<1>8. Coins(d.acct) - Coins(e.acct) = Money(d.acct[a]) - Money(s)
  BY <1>2, <1>3, <1>4
<1> QED BY <1>6, <1>7, <1>8

\* Every account gains q[a].
LEMMA AllMove ==
  ASSUME NEW d, Amounted(d), NEW e, Kept(d, e, {"acct"}), DOMAIN e.acct = Names(d), NEW q,
         \A a \in Names(d) : /\ AccountOK(e.acct[a]) /\ SameVests(d.acct[a], e.acct[a])
                             /\ q[a] \in Int /\ Money(e.acct[a]) = Money(d.acct[a]) + q[a]
  PROVE  Names(e) = Names(d) /\ Moves(d, e, - SumFunctionOnSet(q, Names(d)))
<1>1. AccountTable(d.acct) /\ Names(d) = DOMAIN d.acct /\ Names(e) = DOMAIN e.acct
  BY DEF Amounted, Names
<1>2. AccountTable(e.acct) /\ DOMAIN e.acct = DOMAIN d.acct
  BY <1>1 DEF AccountTable
<1>3. Coins(e.acct) = Coins(d.acct) + SumFunctionOnSet(q, DOMAIN d.acct)
  BY <1>1, <1>2, AccountsShift
<1>4. /\ Vests(e.acct) = Vests(d.acct) /\ Unclaimed(e.acct) = Unclaimed(d.acct)
      /\ Promised(e.acct) = Promised(d.acct)
  BY <1>1, <1>2, AccountsAlike DEF SameVests
<1>5. Moves(d, e, Coins(d.acct) - Coins(e.acct))
  BY <1>1, <1>2, <1>4, AccountsMove
<1>6. Coins(d.acct) \in Int /\ SumFunctionOnSet(q, DOMAIN d.acct) \in Int
  <2>1. IsFiniteSet(DOMAIN d.acct) /\ DOMAIN d.acct \in SUBSET DOMAIN d.acct
    BY <1>1 DEF AccountTable
  <2>2. \A a \in DOMAIN d.acct : q[a] \in Int
    BY <1>1
  <2>3. SumFunctionOnSet(q, DOMAIN d.acct) \in Int
    BY <2>1, <2>2, SumFacts
  <2> QED BY <2>3, Gaps
<1>7. Coins(d.acct) - Coins(e.acct) = - SumFunctionOnSet(q, Names(d))
  BY <1>1, <1>3, <1>6
<1> QED BY <1>1, <1>2, <1>5, <1>7

\* No account gains anything.
LEMMA NoneMoves ==
  ASSUME NEW d, Amounted(d), NEW e, Kept(d, e, {"acct"}), DOMAIN e.acct = Names(d),
         \A a \in Names(d) : /\ AccountOK(e.acct[a]) /\ SameVests(d.acct[a], e.acct[a])
                             /\ Money(e.acct[a]) = Money(d.acct[a])
  PROVE  Names(e) = Names(d) /\ Moves(d, e, 0)
<1>1. AccountTable(d.acct) /\ Names(d) = DOMAIN d.acct /\ Names(e) = DOMAIN e.acct
  BY DEF Amounted, Names
<1>2. AccountTable(e.acct) /\ DOMAIN e.acct = DOMAIN d.acct
  BY <1>1 DEF AccountTable
<1>3. Coins(e.acct) = Coins(d.acct)
  BY <1>1, <1>2, SameMoney
<1>4. /\ Vests(e.acct) = Vests(d.acct) /\ Unclaimed(e.acct) = Unclaimed(d.acct)
      /\ Promised(e.acct) = Promised(d.acct)
  BY <1>1, <1>2, AccountsAlike DEF SameVests
<1>5. Moves(d, e, Coins(d.acct) - Coins(e.acct))
  BY <1>1, <1>2, <1>4, AccountsMove
<1>6. Coins(d.acct) - Coins(e.acct) = 0
  BY <1>3, Gaps
<1> QED BY <1>1, <1>2, <1>5, <1>6

\* adjust_balance(), adjust_savings_balance() and adjust_reward_balance().
LEMMA AdjustMoves ==
  ASSUME NEW d, Amounted(d), NEW a \in Names(d), NEW x \in Int
  PROVE  \A e \in {AdjustBalance(d, a, x), AdjustSavings(d, a, x), AdjustReward(d, a, x)} :
            Moves(d, e, - x) /\ Names(e) = Names(d) /\ Kept(d, e, {"acct"})
<1> DEFINE s == d.acct[a]
           b == [s EXCEPT !.balance = @ + x]
           c == [s EXCEPT !.savings = @ + x]
           r == [s EXCEPT !.rewardBmt = @ + x]
<1>1. DOMAIN d = TableNames /\ AccountOK(s) /\ a \in DOMAIN d.acct
  BY DEF Amounted, AccountTable, Names
<1>2. /\ AdjustBalance(d, a, x) = [d EXCEPT !.acct = [@ EXCEPT ![a] = b]]
      /\ AdjustSavings(d, a, x) = [d EXCEPT !.acct = [@ EXCEPT ![a] = c]]
      /\ AdjustReward(d, a, x) = [d EXCEPT !.acct = [@ EXCEPT ![a] = r]]
  BY <1>1 DEF AdjustBalance, AdjustSavings, AdjustReward, TableNames
<1>3. /\ AccountOK(b) /\ SameVests(s, b) /\ Money(b) = Money(s) + x
      /\ AccountOK(c) /\ SameVests(s, c) /\ Money(c) = Money(s) + x
      /\ AccountOK(r) /\ SameVests(s, r) /\ Money(r) = Money(s) + x /\ Money(s) \in Int
  BY <1>1, AccountFields DEF AccountOK, SameVests, Money
<1> HIDE DEF b, c, r
<1>4. ASSUME NEW v, AccountOK(v), SameVests(s, v), Money(v) = Money(s) + x,
             NEW e, e = [d EXCEPT !.acct = [@ EXCEPT ![a] = v]]
      PROVE  Moves(d, e, - x) /\ Names(e) = Names(d) /\ Kept(d, e, {"acct"})
  <2>1. Kept(d, e, {"acct"}) /\ e.acct = [d.acct EXCEPT ![a] = v]
    BY <1>1, <1>4 DEF Kept, MoneyTables, TableNames
  <2>2. Names(e) = Names(d) /\ Moves(d, e, Money(s) - Money(v))
    BY <1>4, <2>1, OneMoves
  <2>3. Money(s) - Money(v) = - x
    BY <1>3, <1>4
  <2> QED BY <2>1, <2>2, <2>3
<1> HIDE DEF s
<1> QED BY <1>2, <1>3, <1>4

\* Payments to the accounts who[o] of the objects o.
LEMMA PayEachMoves ==
  ASSUME NEW d, Amounted(d), NEW who, NEW x, IsFiniteSet(DOMAIN x),
         \A o \in DOMAIN x : who[o] \in Names(d) /\ x[o] \in Int
  PROVE  LET e == PayEach(d, who, x)
         IN  Moves(d, e, - SumFunctionOnSet(x, DOMAIN x)) /\ Names(e) = Names(d) /\ Kept(d, e, {"acct"})
<1> DEFINE e == PayEach(d, who, x)
           part == [a \in Names(d) |-> {o \in DOMAIN x : who[o] = a}]
           q == [a \in Names(d) |-> SumFunctionOnSet(x, part[a])]
<1>1. DOMAIN d = TableNames /\ IsFiniteSet(Names(d)) /\ \A a \in Names(d) : AccountOK(d.acct[a])
  BY DEF Amounted, AccountTable, Names
<1>2. /\ \A a \in Names(d) : part[a] = {o \in DOMAIN x : who[o] = a}
      /\ \A a \in Names(d) : part[a] \in SUBSET DOMAIN x
      /\ \A a \in Names(d) : \A o \in DOMAIN x : o \in part[a] <=> who[o] = a
  OBVIOUS
<1> HIDE DEF part
<1>0. \A a \in Names(d) : q[a] = SumFunctionOnSet(x, part[a])
  OBVIOUS
<1>3. /\ Kept(d, e, {"acct"}) /\ DOMAIN e.acct = Names(d)
      /\ \A a \in Names(d) : e.acct[a] = [d.acct[a] EXCEPT !.balance = @ + q[a]]
  <2>1. e = [d EXCEPT !.acct = [a \in Names(d) |-> [d.acct[a] EXCEPT
               !.balance = @ + SumFunctionOnSet(x, {o \in DOMAIN x : who[o] = a})]]]
    BY DEF PayEach, e
  <2>2. e.acct = [a \in Names(d) |-> [d.acct[a] EXCEPT
               !.balance = @ + SumFunctionOnSet(x, {o \in DOMAIN x : who[o] = a})]]
    BY <1>1, <2>1 DEF TableNames
  <2>3. Kept(d, e, {"acct"})
    BY <1>1, <2>1 DEF Kept, MoneyTables, TableNames
  <2> HIDE DEF e
  <2> HIDE DEF q
  <2>4. ASSUME NEW a \in Names(d) PROVE e.acct[a] = [d.acct[a] EXCEPT !.balance = @ + q[a]]
    <3>1. q[a] = SumFunctionOnSet(x, {o \in DOMAIN x : who[o] = a})
      BY <1>0, <1>2
    <3> QED BY <2>2, <3>1
  <2> QED BY <2>2, <2>3, <2>4
<1> HIDE DEF q, e
<1>4. (\A a \in Names(d) : q[a] \in Int) /\ SumFunctionOnSet(q, Names(d)) = SumFunctionOnSet(x, DOMAIN x)
  <2>1. \A o \in DOMAIN x : x[o] \in Int
    OBVIOUS
  <2>2. \A o \in DOMAIN x : who[o] \in Names(d)
    OBVIOUS
  <2> QED BY <1>0, <1>1, <1>2, <2>1, <2>2, SumsByGroup
<1>5. ASSUME NEW a \in Names(d)
      PROVE  /\ AccountOK(e.acct[a]) /\ SameVests(d.acct[a], e.acct[a])
             /\ q[a] \in Int /\ Money(e.acct[a]) = Money(d.acct[a]) + q[a]
  <2> DEFINE s == d.acct[a]
             z == q[a]
             r == [s EXCEPT !.balance = @ + z]
  <2>1. AccountOK(s) /\ z \in Int /\ e.acct[a] = r
    BY <1>1, <1>3, <1>4
  <2> HIDE DEF s, z
  <2>2. AccountOK(r) /\ SameVests(s, r) /\ Money(r) = Money(s) + z
    BY <2>1, AccountFields DEF AccountOK, SameVests, Money
  <2> HIDE DEF r
  <2> QED BY <2>1, <2>2 DEF s, z
<1>6. Names(e) = Names(d) /\ Moves(d, e, - SumFunctionOnSet(q, Names(d)))
  BY <1>3, <1>5, AllMove
<1> QED BY <1>3, <1>4, <1>6 DEF e

\* A total and a sum that change alike.
LEMMA SameGap ==
  ASSUME NEW g \in Int, NEW h \in Int, NEW t \in Int, NEW v \in Int, NEW w \in Int,
         h - g = w - v
  PROVE  h - (t - v + w) = g - t
OBVIOUS

\* One account and the totals change, the vests of the account as the totals.
LEMMA OneAndTotals ==
  ASSUME NEW d, Amounted(d), NEW e, Kept(d, e, {"acct", "gpo"}), NEW a \in Names(d), NEW s,
         e.acct = [d.acct EXCEPT ![a] = s], AccountOK(s), GpoOK(e.gpo),
         e.gpo.vestingShares - d.gpo.vestingShares = s.vests - d.acct[a].vests,
         e.gpo.pendingShares - d.gpo.pendingShares = s.rewardVests - d.acct[a].rewardVests,
         e.gpo.pendingBmt - d.gpo.pendingBmt = s.rewardVestsBmt - d.acct[a].rewardVestsBmt,
         NEW x, x = (e.gpo.supply - d.gpo.supply) - (Money(s) - Money(d.acct[a]))
                      - (e.gpo.vestingFund - d.gpo.vestingFund)
                      - (e.gpo.pendingBmt - d.gpo.pendingBmt)
  PROVE  Names(e) = Names(d) /\ Moves(d, e, x)
<1>1. AccountTable(d.acct) /\ a \in DOMAIN d.acct /\ AccountOK(d.acct[a])
  BY DEF Amounted, Names, AccountTable
<1>2. /\ AccountTable(e.acct) /\ DOMAIN e.acct = DOMAIN d.acct
      /\ Coins(e.acct) = Coins(d.acct) - Money(d.acct[a]) + Money(s)
      /\ Vests(e.acct) = Vests(d.acct) - d.acct[a].vests + s.vests
      /\ Unclaimed(e.acct) = Unclaimed(d.acct) - d.acct[a].rewardVests + s.rewardVests
      /\ Promised(e.acct) = Promised(d.acct) - d.acct[a].rewardVestsBmt + s.rewardVestsBmt
  BY <1>1, OneAccount
<1>3. /\ Coins(d.acct) \in Int /\ Vests(d.acct) \in Int
      /\ Unclaimed(d.acct) \in Int /\ Promised(d.acct) \in Int
      /\ d.gpo.supply \in Int /\ d.gpo.vestingShares \in Int /\ d.gpo.vestingFund \in Int
      /\ d.gpo.pendingShares \in Int /\ d.gpo.pendingBmt \in Int
  BY Gaps
<1>4. /\ Money(s) \in Int /\ Money(d.acct[a]) \in Int
      /\ s.vests \in Int /\ s.rewardVests \in Int /\ s.rewardVestsBmt \in Int
      /\ d.acct[a].vests \in Int /\ d.acct[a].rewardVests \in Int /\ d.acct[a].rewardVestsBmt \in Int
      /\ e.gpo.supply \in Int /\ e.gpo.vestingShares \in Int /\ e.gpo.vestingFund \in Int
      /\ e.gpo.pendingShares \in Int /\ e.gpo.pendingBmt \in Int
  BY <1>1 DEF AccountOK, Money, GpoOK
<1>5. VestGap(e) = VestGap(d) /\ ShareGap(e) = ShareGap(d) /\ PromiseGap(e) = PromiseGap(d)
  <2>1. VestGap(e) = VestGap(d)
    <3> DEFINE g == d.gpo.vestingShares
               h == e.gpo.vestingShares
               t == Vests(d.acct)
               v == d.acct[a].vests
               w == s.vests
    <3>1. /\ g \in Int /\ h \in Int /\ t \in Int /\ v \in Int /\ w \in Int /\ h - g = w - v
          /\ Vests(e.acct) = t - v + w
      BY <1>2, <1>3, <1>4
    <3>2. VestGap(e) = h - Vests(e.acct) /\ VestGap(d) = g - t
      BY DEF VestGap
    <3> HIDE DEF g, h, t, v, w
    <3> QED BY <3>1, <3>2, SameGap
  <2>2. ShareGap(e) = ShareGap(d)
    <3> DEFINE g == d.gpo.pendingShares
               h == e.gpo.pendingShares
               t == Unclaimed(d.acct)
               v == d.acct[a].rewardVests
               w == s.rewardVests
    <3>1. /\ g \in Int /\ h \in Int /\ t \in Int /\ v \in Int /\ w \in Int /\ h - g = w - v
          /\ Unclaimed(e.acct) = t - v + w
      BY <1>2, <1>3, <1>4
    <3>2. ShareGap(e) = h - Unclaimed(e.acct) /\ ShareGap(d) = g - t
      BY DEF ShareGap
    <3> HIDE DEF g, h, t, v, w
    <3> QED BY <3>1, <3>2, SameGap
  <2>3. PromiseGap(e) = PromiseGap(d)
    <3> DEFINE g == d.gpo.pendingBmt
               h == e.gpo.pendingBmt
               t == Promised(d.acct)
               v == d.acct[a].rewardVestsBmt
               w == s.rewardVestsBmt
    <3>1. /\ g \in Int /\ h \in Int /\ t \in Int /\ v \in Int /\ w \in Int /\ h - g = w - v
          /\ Promised(e.acct) = t - v + w
      BY <1>2, <1>3, <1>4
    <3>2. PromiseGap(e) = h - Promised(e.acct) /\ PromiseGap(d) = g - t
      BY DEF PromiseGap
    <3> HIDE DEF g, h, t, v, w
    <3> QED BY <3>1, <3>2, SameGap
  <2> QED BY <2>1, <2>2, <2>3
<1>6. Names(e) = Names(d)
  BY <1>2 DEF Names
<1>7. Moves(d, e, (e.gpo.supply - d.gpo.supply) - (Coins(e.acct) - Coins(d.acct))
                      - (e.gpo.vestingFund - d.gpo.vestingFund)
                      - (e.gpo.pendingBmt - d.gpo.pendingBmt))
  BY <1>2, <1>5, <1>6, TotalsMove
<1>8. Coins(e.acct) - Coins(d.acct) = Money(s) - Money(d.acct[a])
  BY <1>2, <1>3, <1>4
<1> QED BY <1>6, <1>7, <1>8

\* An account changes in something that is not an amount.
LEMMA NothingMoves ==
  ASSUME NEW d, Amounted(d), NEW e, Kept(d, e, {"acct"}), NEW a \in Names(d), NEW s,
         e.acct = [d.acct EXCEPT ![a] = s], AccountOK(s), SameVests(d.acct[a], s),
         Money(s) = Money(d.acct[a])
  PROVE  Names(e) = Names(d) /\ Moves(d, e, 0)
<1>1. Money(d.acct[a]) \in Int
  BY DEF Amounted, AccountTable, Names, AccountOK, Money
<1>2. Money(d.acct[a]) - Money(s) = 0
  BY <1>1
<1> QED BY <1>2, OneMoves

\* adjust_proxied_witness_votes() moves votes.
LEMMA VotesMove ==
  ASSUME NEW d, Amounted(d), NEW a, NEW x
  PROVE  \A e \in {AdjustWitnessVotes(d, a, x), AdjustProxiedWitnessVotes(d, a, x),
                   AdjustOwnWitnessVotes(d, a, x)} :
            Moves(d, e, 0) /\ Names(e) = Names(d) /\ Kept(d, e, {"acct"})
<1>1. DOMAIN d = TableNames /\ \A p \in Names(d) : AccountOK(d.acct[p])
  BY DEF Amounted, AccountTable, Names
<1>2. ASSUME NEW c, Amounted(c), NEW b, NEW y
      PROVE  LET e == AdjustWitnessVotes(c, b, y)
             IN  Moves(c, e, 0) /\ Names(e) = Names(c) /\ Kept(c, e, {"acct"}) /\ e.acct = c.acct
  <2> DEFINE e == AdjustWitnessVotes(c, b, y)
  <2>1. DOMAIN c = TableNames /\ DOMAIN c.acct = Names(c) /\ \A p \in Names(c) : AccountOK(c.acct[p])
    BY <1>2 DEF Amounted, AccountTable, Names
  <2>2. Kept(c, e, {"acct"}) /\ e.acct = c.acct
    BY <2>1 DEF AdjustWitnessVotes, Kept, MoneyTables, TableNames
  <2> HIDE DEF e
  <2>3. Names(e) = Names(c) /\ Moves(c, e, 0)
    BY <1>2, <2>1, <2>2, NoneMoves DEF SameVests
  <2> QED BY <2>2, <2>3 DEF e
<1>3. ASSUME NEW y
      PROVE  LET e == AdjustProxiedWitnessVotes(d, a, y)
             IN  Moves(d, e, 0) /\ Names(e) = Names(d) /\ Kept(d, e, {"acct"})
  <2> DEFINE at(p) == {k \in Depths : Proxy(d, a, k + 1) = p}
             carried(p, i) == SumFunction([k \in {k \in at(p) : k <= i} |-> y[i - k]])
             last == {k \in Deltas : Proxy(d, a, k) # Self /\ Proxy(d, a, k + 1) = Self}
             z == [p \in Names(d) |-> [i \in Depths |-> d.acct[p].proxied[i] + carried(p, i)]]
             d1 == [d EXCEPT !.acct = [p \in Names(d) |-> [d.acct[p] EXCEPT
                     !.proxied = [i \in Depths |-> @[i] + carried(p, i)]]]]
             k == CHOOSE k \in last : TRUE
             e == AdjustProxiedWitnessVotes(d, a, y)
  <2>1. e = IF last = {} THEN d1 ELSE AdjustWitnessVotes(d1, Proxy(d, a, k),
                                         SumFunctionOnSet(y, 0 .. MaxProxyDepth - k))
    BY DEF AdjustProxiedWitnessVotes
  <2> HIDE DEF last, e, k, carried
  <2>2. Kept(d, d1, {"acct"})
    BY <1>1 DEF Kept, MoneyTables, TableNames
  <2>3. /\ DOMAIN d1.acct = Names(d)
        /\ \A p \in Names(d) : d1.acct[p] = [d.acct[p] EXCEPT !.proxied = z[p]]
    BY <1>1 DEF TableNames
  <2> HIDE DEF d1, z
  <2>4. ASSUME NEW p \in Names(d)
        PROVE  /\ AccountOK(d1.acct[p]) /\ SameVests(d.acct[p], d1.acct[p])
               /\ Money(d1.acct[p]) = Money(d.acct[p])
    <3> DEFINE s == d.acct[p]
               v == z[p]
               r == [s EXCEPT !.proxied = v]
    <3>1. AccountOK(s) /\ d1.acct[p] = r
      BY <1>1, <2>3
    <3> HIDE DEF s, v
    <3>2. AccountOK(r) /\ SameVests(s, r) /\ Money(r) = Money(s)
      BY <3>1, AccountFields DEF AccountOK, SameVests, Money
    <3> HIDE DEF r
    <3> QED BY <3>1, <3>2 DEF s
  <2>5. Names(d1) = Names(d) /\ Moves(d, d1, 0)
    BY <2>2, <2>3, <2>4, NoneMoves
  <2>6. CASE last = {}
    BY <2>1, <2>2, <2>5, <2>6 DEF e
  <2>7. CASE last # {}
    <3>1. Amounted(d1)
      BY <2>5 DEF Moves
    <3>2. Moves(d1, e, 0) /\ Names(e) = Names(d1) /\ Kept(d1, e, {"acct"})
      BY <1>2, <2>1, <2>7, <3>1
    <3>3. Moves(d, e, 0 + 0)
      BY <2>5, <3>2, MovesTwice
    <3>4. Kept(d, e, {"acct"})
      BY <2>2, <3>2 DEF Kept
    <3> QED BY <2>5, <3>2, <3>3, <3>4 DEF e
  <2> QED BY <2>6, <2>7
<1>4. ASSUME NEW y
      PROVE  LET e == AdjustOwnWitnessVotes(d, a, y)
             IN  Moves(d, e, 0) /\ Names(e) = Names(d) /\ Kept(d, e, {"acct"})
  BY <1>3 DEF AdjustOwnWitnessVotes
<1>5. LET e == AdjustWitnessVotes(d, a, x)
      IN  Moves(d, e, 0) /\ Names(e) = Names(d) /\ Kept(d, e, {"acct"})
  BY <1>2
<1> QED BY <1>3, <1>4, <1>5

\* A share is a number, whatever is divided.
LEMMA SharesAreNumbers ==
  ASSUME NEW x \in Int, NEW part \in Int, NEW whole \in Int
  PROVE  Share(x, part, whole) \in Int
<1>1. x * part \in Int
  OBVIOUS
<1>2. ASSUME NEW y \in Int, whole > 0 PROVE y \div whole \in Int
  BY <1>2
<1> QED BY <1>1, <1>2 DEF Share, Fits

\* So are the two prices.
LEMMA PricesAreNumbers ==
  ASSUME NEW g, GpoOK(g)
  PROVE  /\ Price(g).shares \in Int /\ Price(g).fund \in Int
         /\ RewardPrice(g).shares \in Int /\ RewardPrice(g).fund \in Int
BY DEF GpoOK, Price, RewardPrice

\* create_vesting(): BMT go to the vesting fund and vests to the account.
LEMMA VestingMoves ==
  ASSUME NEW d, Amounted(d), NEW a \in Names(d), NEW x \in Int
  PROVE  LET e == CreateVesting(d, a, x)
         IN  Moves(d, e, - x) /\ Names(e) = Names(d) /\ Kept(d, e, {"acct", "gpo"})
<1> DEFINE new == VestsFor(Price(d.gpo), x)
           s == d.acct[a]
           r == [s EXCEPT !.vests = @ + new]
           d1 == [d EXCEPT !.acct[a].vests = @ + new,
                           !.gpo.vestingFund = @ + x,
                           !.gpo.vestingShares = @ + new,
                           !.ok = @ /\ Converts(Price(d.gpo), x)]
           e == CreateVesting(d, a, x)
<1>1. new \in Int
  BY Gaps, SharesAreNumbers, PricesAreNumbers DEF VestsFor
<1>2. DOMAIN d = TableNames /\ AccountOK(s) /\ a \in DOMAIN d.acct
  BY DEF Amounted, AccountTable, Names
<1>3. e = AdjustOwnWitnessVotes(d1, a, new)
  BY DEF CreateVesting
<1> HIDE DEF new, e
<1>4. d1.acct = [d.acct EXCEPT ![a] = r] /\ Kept(d, d1, {"acct", "gpo"})
  BY <1>2 DEF Kept, MoneyTables, TableNames
<1>5. /\ GpoOK(d1.gpo) /\ d1.gpo.supply = d.gpo.supply /\ d1.gpo.vestingFund = d.gpo.vestingFund + x
      /\ d1.gpo.vestingShares = d.gpo.vestingShares + new
      /\ d1.gpo.pendingShares = d.gpo.pendingShares /\ d1.gpo.pendingBmt = d.gpo.pendingBmt
  <2> DEFINE g == d.gpo
  <2>1. GpoOK(g)
    BY Gaps
  <2>2. d1.gpo = [g EXCEPT !.vestingFund = @ + x, !.vestingShares = @ + new]
    BY <1>2 DEF TableNames
  <2> HIDE DEF g, d1
  <2> QED BY <1>1, <2>1, <2>2 DEF GpoOK, g
<1>6. /\ AccountOK(r) /\ r.vests = s.vests + new /\ r.rewardVests = s.rewardVests
      /\ r.rewardVestsBmt = s.rewardVestsBmt /\ Money(r) = Money(s)
      /\ s.vests \in Int /\ s.rewardVests \in Int /\ s.rewardVestsBmt \in Int /\ Money(s) \in Int
  BY <1>1, <1>2, AccountFields DEF AccountOK, Money
<1> HIDE DEF d1, r
<1>7. Names(d1) = Names(d) /\ Moves(d, d1, - x)
  <2>1. /\ d.gpo.supply \in Int /\ d.gpo.vestingFund \in Int /\ d.gpo.vestingShares \in Int
        /\ d.gpo.pendingShares \in Int /\ d.gpo.pendingBmt \in Int
    BY Gaps
  <2> HIDE DEF s
  <2>2. /\ d1.gpo.vestingShares - d.gpo.vestingShares = r.vests - s.vests
        /\ d1.gpo.pendingShares - d.gpo.pendingShares = r.rewardVests - s.rewardVests
        /\ d1.gpo.pendingBmt - d.gpo.pendingBmt = r.rewardVestsBmt - s.rewardVestsBmt
        /\ - x = (d1.gpo.supply - d.gpo.supply) - (Money(r) - Money(s))
                   - (d1.gpo.vestingFund - d.gpo.vestingFund)
                   - (d1.gpo.pendingBmt - d.gpo.pendingBmt)
    BY <1>1, <1>5, <1>6, <2>1
  <2> QED BY <1>4, <1>5, <1>6, <2>2, OneAndTotals DEF s
<1>8. Amounted(d1)
  BY <1>7 DEF Moves
<1>9. Moves(d1, e, 0) /\ Names(e) = Names(d1) /\ Kept(d1, e, {"acct"})
  BY <1>3, <1>8, VotesMove
<1>10. Moves(d, e, - x + 0)
  BY <1>7, <1>9, MovesTwice
<1>11. - x + 0 = - x
  OBVIOUS
<1>12. Kept(d, e, {"acct", "gpo"})
  BY <1>4, <1>9 DEF Kept
<1> QED BY <1>7, <1>9, <1>10, <1>11, <1>12 DEF e

\* create_vesting() for rewards.
LEMMA RewardVestingMoves ==
  ASSUME NEW d, Amounted(d), NEW a \in Names(d), NEW x \in Int
  PROVE  LET e == CreateRewardVesting(d, a, x)
         IN  Moves(d, e, - x) /\ Names(e) = Names(d) /\ Kept(d, e, {"acct", "gpo"})
<1> DEFINE new == VestsFor(RewardPrice(d.gpo), x)
           s == d.acct[a]
           r == [s EXCEPT !.rewardVests = @ + new, !.rewardVestsBmt = @ + x]
           e == CreateRewardVesting(d, a, x)
<1>1. new \in Int
  BY Gaps, SharesAreNumbers, PricesAreNumbers DEF VestsFor
<1>2. DOMAIN d = TableNames /\ AccountOK(s) /\ a \in DOMAIN d.acct
  BY DEF Amounted, AccountTable, Names
<1>3. e = [d EXCEPT !.acct[a].rewardVests = @ + new,
                  !.acct[a].rewardVestsBmt = @ + x,
                  !.gpo.pendingShares = @ + new,
                  !.gpo.pendingBmt = @ + x,
                  !.ok = @ /\ Converts(RewardPrice(d.gpo), x)]
  BY DEF CreateRewardVesting
<1> HIDE DEF new, e
<1>4. e.acct = [d.acct EXCEPT ![a] = r] /\ Kept(d, e, {"acct", "gpo"})
  <2>1. e.acct = [[d.acct EXCEPT ![a].rewardVests = @ + new] EXCEPT ![a].rewardVestsBmt = @ + x]
    BY <1>2, <1>3 DEF TableNames
  <2>2. e.acct = [d.acct EXCEPT ![a] = r]
    <3> DEFINE t == d.acct
    <3>1. a \in DOMAIN t /\ AccountOK(t[a]) /\ s = t[a]
      BY <1>2
    <3> HIDE DEF t, s
    <3> QED BY <2>1, <3>1, AccountFields DEF AccountOK, t
  <2>3. Kept(d, e, {"acct", "gpo"})
    BY <1>2, <1>3 DEF Kept, MoneyTables, TableNames
  <2> QED BY <2>2, <2>3
<1>5. /\ GpoOK(e.gpo) /\ e.gpo.supply = d.gpo.supply /\ e.gpo.vestingFund = d.gpo.vestingFund
      /\ e.gpo.vestingShares = d.gpo.vestingShares
      /\ e.gpo.pendingShares = d.gpo.pendingShares + new /\ e.gpo.pendingBmt = d.gpo.pendingBmt + x
  <2> DEFINE g == d.gpo
  <2>1. GpoOK(g)
    BY Gaps
  <2>2. e.gpo = [g EXCEPT !.pendingShares = @ + new, !.pendingBmt = @ + x]
    BY <1>2, <1>3 DEF TableNames
  <2> HIDE DEF g
  <2> QED BY <1>1, <2>1, <2>2 DEF GpoOK, g
<1>6. /\ AccountOK(r) /\ r.vests = s.vests /\ r.rewardVests = s.rewardVests + new
      /\ r.rewardVestsBmt = s.rewardVestsBmt + x /\ Money(r) = Money(s)
      /\ s.vests \in Int /\ s.rewardVests \in Int /\ s.rewardVestsBmt \in Int /\ Money(s) \in Int
  BY <1>1, <1>2, AccountFields DEF AccountOK, Money
<1> HIDE DEF r
<1>7. Names(e) = Names(d) /\ Moves(d, e, - x)
  <2>1. /\ d.gpo.supply \in Int /\ d.gpo.vestingFund \in Int /\ d.gpo.vestingShares \in Int
        /\ d.gpo.pendingShares \in Int /\ d.gpo.pendingBmt \in Int
    BY Gaps
  <2> HIDE DEF s
  <2>2. /\ e.gpo.vestingShares - d.gpo.vestingShares = r.vests - s.vests
        /\ e.gpo.pendingShares - d.gpo.pendingShares = r.rewardVests - s.rewardVests
        /\ e.gpo.pendingBmt - d.gpo.pendingBmt = r.rewardVestsBmt - s.rewardVestsBmt
        /\ - x = (e.gpo.supply - d.gpo.supply) - (Money(r) - Money(s))
                   - (e.gpo.vestingFund - d.gpo.vestingFund)
                   - (e.gpo.pendingBmt - d.gpo.pendingBmt)
    BY <1>1, <1>5, <1>6, <2>1
  <2> QED BY <1>4, <1>5, <1>6, <2>2, OneAndTotals DEF s
<1> QED BY <1>4, <1>7 DEF e

\* process_funds_bmchain(): what is new in the supply is new in the reward fund or in the
\* balance of the witness.
LEMMA FundsMove ==
  ASSUME NEW d, Amounted(d), NEW new \in Int
  PROVE  LET e == ProcessFunds(d, new) IN  Moves(d, e, 0) /\ Names(e) = Names(d)
<1> DEFINE content == (new * 90) \div 100
           d1 == AdjustBalance(d, Producer, new - content)
           d2 == [d1 EXCEPT !.fund.balance = @ + content]
           e == [d1 EXCEPT !.fund.balance = @ + content,
                           !.gpo.supply = @ + new,
                           !.gpo.daily = IF DayBoundary THEN new ELSE @ + new]
<1>1. ProcessFunds(d, new) = IF Exhausted(d.gpo) /\ ~DayBoundary THEN d ELSE e
  BY DEF ProcessFunds
<1>2. content \in Int /\ Producer \in Names(d) /\ DOMAIN d = TableNames
  BY DEF Amounted
<1> HIDE DEF content
<1>3. Moves(d, d1, - (new - content)) /\ Names(d1) = Names(d) /\ Kept(d, d1, {"acct"})
  BY <1>2, AdjustMoves
<1> HIDE DEF d1
<1>4. Amounted(d1) /\ DOMAIN d1 = TableNames
  BY <1>3 DEF Moves, Amounted
<1>5. Moves(d1, d2, - content) /\ Names(d2) = Names(d1)
  <2> DEFINE f == d1.fund
  <2>1. FundOK(f) /\ f.balance \in Int
    BY <1>4, Gaps
  <2>2. d2.fund = [f EXCEPT !.balance = @ + content]
    BY <1>4 DEF TableNames
  <2>3. /\ Kept(d1, d2, {"fund", "escrows", "orders", "content", "routes", "comments", "votes"})
        /\ d2.escrows = d1.escrows /\ d2.orders = d1.orders /\ d2.content = d1.content
        /\ d2.routes = d1.routes /\ d2.comments = d1.comments /\ d2.votes = d1.votes
        /\ d2.acct = d1.acct
    BY <1>4 DEF Kept, MoneyTables, TableNames
  <2> HIDE DEF d2
  <2>4. FundOK(d2.fund) /\ d2.fund.balance = d1.fund.balance + content
    <3> HIDE DEF f
    <3> QED BY <1>2, <2>1, <2>2 DEF FundOK, f
  <2>5. Moves(d1, d2, (d1.fund.balance - d2.fund.balance)
                      + (InEscrow(d1.escrows) - InEscrow(d2.escrows))
                      + (OnSale(d1.orders) - OnSale(d2.orders))
                      + (Reserved(d1.content) - Reserved(d2.content)))
    BY <1>4, <2>3, <2>4, TablesMove
  <2>6. (d1.fund.balance - d2.fund.balance) + (InEscrow(d1.escrows) - InEscrow(d2.escrows))
         + (OnSale(d1.orders) - OnSale(d2.orders)) + (Reserved(d1.content) - Reserved(d2.content))
        = - content
    <3>1. /\ InEscrow(d1.escrows) \in Int /\ OnSale(d1.orders) \in Int /\ Reserved(d1.content) \in Int
      BY <1>4, Gaps
    <3> QED BY <1>2, <2>1, <2>3, <2>4, <3>1
  <2> QED BY <2>3, <2>5, <2>6 DEF Names
<1>6. Amounted(d2) /\ DOMAIN d2 = TableNames
  BY <1>5 DEF Moves, Amounted
<1>7. Moves(d2, e, new) /\ Names(e) = Names(d2)
  <2> DEFINE g == d2.gpo
  <2>1. GpoOK(g)
    BY <1>6, Gaps
  <2>2. /\ e.gpo = [g EXCEPT !.supply = @ + new, !.daily = IF DayBoundary THEN new ELSE @ + new]
        /\ Kept(d2, e, {"acct", "gpo"}) /\ e.acct = d2.acct
    BY <1>4 DEF Kept, MoneyTables, TableNames
  <2> HIDE DEF e, d2
  <2>3. /\ GpoOK(e.gpo) /\ e.gpo.supply = d2.gpo.supply + new /\ d2.gpo.supply \in Int
        /\ e.gpo.vestingFund = d2.gpo.vestingFund
        /\ e.gpo.vestingShares = d2.gpo.vestingShares /\ e.gpo.pendingShares = d2.gpo.pendingShares
        /\ e.gpo.pendingBmt = d2.gpo.pendingBmt
    <3> HIDE DEF g
    <3> QED BY <2>1, <2>2 DEF GpoOK, g
  <2>4. VestGap(e) = VestGap(d2) /\ ShareGap(e) = ShareGap(d2) /\ PromiseGap(e) = PromiseGap(d2)
    BY <2>2, <2>3 DEF VestGap, ShareGap, PromiseGap
  <2>5. AccountTable(e.acct) /\ Names(e) = Names(d2)
    BY <1>6, <2>2 DEF Amounted, Names
  <2>6. Moves(d2, e, (e.gpo.supply - d2.gpo.supply) - (Coins(e.acct) - Coins(d2.acct))
                      - (e.gpo.vestingFund - d2.gpo.vestingFund)
                      - (e.gpo.pendingBmt - d2.gpo.pendingBmt))
    BY <1>6, <2>2, <2>3, <2>4, <2>5, TotalsMove
  <2>7. /\ Coins(d2.acct) \in Int /\ d2.gpo.vestingFund \in Int /\ d2.gpo.pendingBmt \in Int
    BY <1>6, Gaps
  <2>8. (e.gpo.supply - d2.gpo.supply) - (Coins(e.acct) - Coins(d2.acct))
          - (e.gpo.vestingFund - d2.gpo.vestingFund) - (e.gpo.pendingBmt - d2.gpo.pendingBmt)
        = new
    BY <2>2, <2>3, <2>7
  <2> QED BY <2>5, <2>6, <2>8
<1> HIDE DEF d2, e
<1>8. Moves(d, d2, - (new - content) + - content)
  BY <1>3, <1>5, MovesTwice
<1>9. Moves(d, e, (- (new - content) + - content) + new)
  BY <1>7, <1>8, MovesTwice
<1>10. (- (new - content) + - content) + new = 0
  BY <1>2
<1>11. Moves(d, e, 0) /\ Names(e) = Names(d)
  BY <1>3, <1>5, <1>7, <1>9, <1>10
<1> QED BY <1>1, <1>11, MovesNot

\* clear_null_account_balance(): what is destroyed leaves the supply.
LEMMA NullMoves ==
  ASSUME NEW d, Amounted(d)
  PROVE  LET e == ClearNullAccountBalance(d)
         IN  Moves(d, e, 0) /\ Names(e) = Names(d) /\ Kept(d, e, {"acct", "gpo"})
<1> DEFINE n == d.acct[Null]
           vests == Positive(n.vests)
           price == Price(d.gpo)
           converted == Share(vests, price.fund, price.shares)
           promised == IF n.rewardVests > 0 THEN n.rewardVestsBmt ELSE 0
           claims == Positive(n.rewardVests)
           coins == Positive(n.balance) + Positive(n.savings) + Positive(n.rewardBmt)
           burnt == Positive(n.balance) + Positive(n.savings) + converted
                      + Positive(n.rewardBmt) + promised
           r == [n EXCEPT
              !.balance = @ - Positive(@), !.savings = @ - Positive(@),
              !.vests = @ - vests, !.rewardBmt = @ - Positive(@),
              !.rewardVests = @ - Positive(@), !.rewardVestsBmt = @ - promised]
           e == ClearNullAccountBalance(d)
<1>1. DOMAIN d = TableNames /\ AccountOK(n) /\ Null \in DOMAIN d.acct /\ Null \in Names(d)
  BY DEF Amounted, AccountTable, Names
<1>2. e = [d EXCEPT
           !.acct[Null] = r,
           !.gpo.vestingShares = @ - vests,
           !.gpo.vestingFund = @ - converted,
           !.gpo.pendingShares = @ - claims,
           !.gpo.pendingBmt = @ - promised,
           !.gpo.supply = @ - burnt,
           !.ok = @ /\ (vests > 0 => Fits(vests, price.fund, price.shares))]
  BY DEF ClearNullAccountBalance
<1>3. /\ vests \in Int /\ promised \in Int /\ claims \in Int /\ coins \in Int
      /\ Positive(n.balance) \in Int /\ Positive(n.savings) \in Int /\ Positive(n.rewardBmt) \in Int
  BY <1>1 DEF AccountOK, Positive
<1>4. converted \in Int
  BY <1>3, Gaps, PricesAreNumbers, SharesAreNumbers
<1>5. burnt \in Int /\ burnt = coins + converted + promised
  BY <1>3, <1>4
<1>6. /\ AccountOK(r) /\ r.vests = n.vests - vests /\ r.rewardVests = n.rewardVests - claims
      /\ r.rewardVestsBmt = n.rewardVestsBmt - promised /\ Money(r) = Money(n) - coins
      /\ n.vests \in Int /\ n.rewardVests \in Int /\ n.rewardVestsBmt \in Int /\ Money(n) \in Int
  <2> HIDE DEF vests, promised
  <2>1. DOMAIN r = DOMAIN n
    OBVIOUS
  <2>2. /\ r.vests = n.vests - vests /\ r.rewardVests = n.rewardVests - claims
        /\ r.rewardVestsBmt = n.rewardVestsBmt - promised
        /\ r.balance = n.balance - Positive(n.balance) /\ r.savings = n.savings - Positive(n.savings)
        /\ r.rewardBmt = n.rewardBmt - Positive(n.rewardBmt)
        /\ r.toWithdraw = n.toWithdraw /\ r.withdrawn = n.withdrawn /\ r.rate = n.rate
        /\ r.nextWithdrawal = n.nextWithdrawal
    BY <1>1, AccountFields DEF AccountOK
  <2> HIDE DEF r, n, claims
  <2> QED BY <1>1, <1>3, <2>1, <2>2 DEF AccountOK, Money, claims
<1> HIDE DEF vests, price, converted, promised, claims, coins, burnt, e, r
<1>7. e.acct = [d.acct EXCEPT ![Null] = r] /\ Kept(d, e, {"acct", "gpo"})
  BY <1>1, <1>2 DEF Kept, MoneyTables, TableNames
<1>8. /\ GpoOK(e.gpo) /\ e.gpo.supply = d.gpo.supply - burnt
      /\ e.gpo.vestingFund = d.gpo.vestingFund - converted
      /\ e.gpo.vestingShares = d.gpo.vestingShares - vests
      /\ e.gpo.pendingShares = d.gpo.pendingShares - claims
      /\ e.gpo.pendingBmt = d.gpo.pendingBmt - promised
  <2> DEFINE g == d.gpo
  <2>1. GpoOK(g)
    BY Gaps
  <2>2. e.gpo = [g EXCEPT !.vestingShares = @ - vests, !.vestingFund = @ - converted,
                          !.pendingShares = @ - claims, !.pendingBmt = @ - promised,
                          !.supply = @ - burnt]
    BY <1>1, <1>2 DEF TableNames
  <2> HIDE DEF g
  <2> QED BY <1>3, <1>4, <1>5, <2>1, <2>2 DEF GpoOK, g
<1>9. /\ d.gpo.supply \in Int /\ d.gpo.vestingFund \in Int /\ d.gpo.vestingShares \in Int
      /\ d.gpo.pendingShares \in Int /\ d.gpo.pendingBmt \in Int
  BY Gaps
<1> HIDE DEF n
<1>10. /\ e.gpo.vestingShares - d.gpo.vestingShares = r.vests - n.vests
       /\ e.gpo.pendingShares - d.gpo.pendingShares = r.rewardVests - n.rewardVests
       /\ e.gpo.pendingBmt - d.gpo.pendingBmt = r.rewardVestsBmt - n.rewardVestsBmt
       /\ 0 = (e.gpo.supply - d.gpo.supply) - (Money(r) - Money(n))
                   - (e.gpo.vestingFund - d.gpo.vestingFund)
                   - (e.gpo.pendingBmt - d.gpo.pendingBmt)
  BY <1>3, <1>4, <1>5, <1>6, <1>8, <1>9
<1>11. Names(e) = Names(d) /\ Moves(d, e, 0)
  BY <1>1, <1>6, <1>7, <1>8, <1>10, OneAndTotals DEF n
<1> QED BY <1>7, <1>11 DEF e

\* The vests of initminer are destroyed with the BMT behind them.
LEMMA BurnMoves ==
  ASSUME NEW d, Amounted(d), NEW n
  PROVE  LET e == BurnInitRep(d, n) IN Moves(d, e, 0) /\ Names(e) = Names(d)
<1> DEFINE e == BurnInitRep(d, n)
           s == d.acct[InitMiner]
           r == [s EXCEPT !.vests = @ - InitRep]
           bmt == InitRep \div 1000
<1>1. CASE ~ (n = BurnBlock /\ InitMiner \in Names(d))
  BY <1>1, MovesNot DEF BurnInitRep
<1>2. CASE n = BurnBlock /\ InitMiner \in Names(d)
  <2>1. DOMAIN d = TableNames /\ AccountOK(s) /\ InitMiner \in DOMAIN d.acct
    BY <1>2 DEF Amounted, AccountTable, Names
  <2>2. e = [d EXCEPT !.acct[InitMiner].vests = @ - InitRep,
                   !.gpo.supply = @ - bmt,
                   !.gpo.vestingShares = @ - InitRep,
                   !.gpo.vestingFund = @ - bmt]
    BY <1>2 DEF BurnInitRep
  <2>3. bmt \in Int /\ InitRep \in Int
    BY StakeAssumption
  <2> HIDE DEF bmt, e
  <2>4. e.acct = [d.acct EXCEPT ![InitMiner] = r] /\ Kept(d, e, {"acct", "gpo"})
    BY <2>1, <2>2 DEF Kept, MoneyTables, TableNames
  <2>5. /\ GpoOK(e.gpo) /\ e.gpo.supply = d.gpo.supply - bmt
        /\ e.gpo.vestingFund = d.gpo.vestingFund - bmt
        /\ e.gpo.vestingShares = d.gpo.vestingShares - InitRep
        /\ e.gpo.pendingShares = d.gpo.pendingShares /\ e.gpo.pendingBmt = d.gpo.pendingBmt
    <3> DEFINE g == d.gpo
    <3>1. GpoOK(g)
      BY Gaps
    <3>2. e.gpo = [g EXCEPT !.supply = @ - bmt, !.vestingShares = @ - InitRep, !.vestingFund = @ - bmt]
      BY <2>1, <2>2 DEF TableNames
    <3> HIDE DEF g
    <3> QED BY <2>3, <3>1, <3>2 DEF GpoOK, g
  <2>6. /\ AccountOK(r) /\ r.vests = s.vests - InitRep /\ r.rewardVests = s.rewardVests
        /\ r.rewardVestsBmt = s.rewardVestsBmt /\ Money(r) = Money(s)
        /\ s.vests \in Int /\ s.rewardVests \in Int /\ s.rewardVestsBmt \in Int /\ Money(s) \in Int
    BY <2>1, <2>3, AccountFields DEF AccountOK, Money
  <2>7. /\ d.gpo.supply \in Int /\ d.gpo.vestingFund \in Int /\ d.gpo.vestingShares \in Int
        /\ d.gpo.pendingShares \in Int /\ d.gpo.pendingBmt \in Int
    BY Gaps
  <2> HIDE DEF r, s
  <2>8. /\ e.gpo.vestingShares - d.gpo.vestingShares = r.vests - s.vests
        /\ e.gpo.pendingShares - d.gpo.pendingShares = r.rewardVests - s.rewardVests
        /\ e.gpo.pendingBmt - d.gpo.pendingBmt = r.rewardVestsBmt - s.rewardVestsBmt
        /\ 0 = (e.gpo.supply - d.gpo.supply) - (Money(r) - Money(s))
                   - (e.gpo.vestingFund - d.gpo.vestingFund)
                   - (e.gpo.pendingBmt - d.gpo.pendingBmt)
    BY <2>3, <2>5, <2>6, <2>7
  <2>9. Names(e) = Names(d) /\ Moves(d, e, 0)
    BY <1>2, <2>4, <2>5, <2>6, <2>8, OneAndTotals DEF s
  <2> QED BY <2>9 DEF e
<1> QED BY <1>1, <1>2

\* Division that rounds towards zero gives a number.
LEMMA QuotientIsNumber ==
  ASSUME NEW x \in Int, NEW y \in Int, y > 0 PROVE Quotient(x, y) \in Int
BY DEF Quotient

\* process_savings_reward(): the savings grow by what is new in the supply.
LEMMA SavingsRewardMoves ==
  ASSUME NEW d, Amounted(d), NEW n
  PROVE  LET e == ProcessSavingsReward(d, n) IN Moves(d, e, 0) /\ Names(e) = Names(d)
<1> DEFINE growth == (d.gpo.supply - d.gpo.lastSupply) * SavingsRate
           all == SumFunction([a \in Names(d) |-> d.acct[a].savings])
           reward == [a \in Names(d) |->
                      IF d.acct[a].savings > 0
                      THEN Quotient(growth * d.acct[a].savings, 100 * all) ELSE 0]
           sum == SumFunction(reward)
           t == [a \in Names(d) |-> [d.acct[a] EXCEPT !.savings = @ + reward[a]]]
           c == [d EXCEPT !.acct = t]
           e == ProcessSavingsReward(d, n)
           e1 == [d EXCEPT !.acct = t, !.gpo.supply = @ + sum,
                           !.gpo.lastSupply = d.gpo.supply + sum]
<1>1. /\ DOMAIN d = TableNames /\ IsFiniteSet(Names(d)) /\ Names(d) = DOMAIN d.acct
      /\ \A a \in Names(d) : AccountOK(d.acct[a])
  BY DEF Amounted, AccountTable, Names
<1>2. e = IF n % RewardBlocks # 0 \/ growth = 0 \/ all <= 0 THEN d ELSE e1
  BY DEF ProcessSavingsReward
<1>3. growth \in Int
  BY Gaps, PaymentsAssumption
<1>4. all \in Int
  <2> DEFINE f == [a \in Names(d) |-> d.acct[a].savings]
  <2>1. all = SumFunctionOnSet(f, DOMAIN f)
    BY DEF SumFunction
  <2>2. DOMAIN f = Names(d) /\ Names(d) \in SUBSET Names(d) /\ \A a \in Names(d) : f[a] \in Int
    BY <1>1 DEF AccountOK
  <2> HIDE DEF f, all
  <2>3. SumFunctionOnSet(f, Names(d)) \in Int
    BY <1>1, <2>2, SumFacts
  <2> QED BY <2>1, <2>2, <2>3
<1> HIDE DEF all, growth
<1>5. CASE ~ (n % RewardBlocks # 0 \/ growth = 0 \/ all <= 0)
  <2>1. all > 0
    BY <1>4, <1>5
  <2>2. ASSUME NEW a \in Names(d) PROVE reward[a] \in Int
    <3>1. d.acct[a].savings \in Int
      BY <1>1 DEF AccountOK
    <3>2. ASSUME NEW x \in Int PROVE growth * x \in Int
      BY <1>3
    <3>3. ASSUME NEW x \in Int, NEW y \in Int, y > 0 PROVE Quotient(x, y) \in Int
      BY <3>3, QuotientIsNumber
    <3>4. 100 * all \in Int /\ 100 * all > 0
      BY <1>4, <2>1
    <3>5. Quotient(growth * d.acct[a].savings, 100 * all) \in Int
      BY <3>1, <3>2, <3>3, <3>4
    <3> QED BY <3>5
  <2>3. DOMAIN reward = Names(d) /\ sum = SumFunctionOnSet(reward, DOMAIN reward)
    BY DEF SumFunction
  <2> HIDE DEF reward, sum
  <2>4. sum \in Int /\ sum = SumFunctionOnSet(reward, Names(d))
    <3>1. SumFunctionOnSet(reward, Names(d)) \in Int
      <4>1. Names(d) \in SUBSET Names(d) /\ \A a \in Names(d) : reward[a] \in Int
        BY <2>2
      <4> QED BY <1>1, <4>1, SumFacts
    <3> QED BY <2>3, <3>1
  <2>5. Kept(d, c, {"acct"}) /\ c.acct = t
    BY <1>1 DEF Kept, MoneyTables, TableNames
  <2>6. /\ DOMAIN t = Names(d)
        /\ \A a \in Names(d) : t[a] = [d.acct[a] EXCEPT !.savings = @ + reward[a]]
    OBVIOUS
  <2> HIDE DEF c, t
  <2>7. ASSUME NEW a \in Names(d)
        PROVE  /\ AccountOK(c.acct[a]) /\ SameVests(d.acct[a], c.acct[a])
               /\ reward[a] \in Int /\ Money(c.acct[a]) = Money(d.acct[a]) + reward[a]
    <3> DEFINE s == d.acct[a]
               z == reward[a]
               r == [s EXCEPT !.savings = @ + z]
    <3>1. AccountOK(s) /\ z \in Int /\ c.acct[a] = r
      BY <1>1, <2>2, <2>5, <2>6
    <3> HIDE DEF s, z
    <3>2. AccountOK(r) /\ SameVests(s, r) /\ Money(r) = Money(s) + z
      BY <3>1, AccountFields DEF AccountOK, SameVests, Money
    <3> HIDE DEF r
    <3> QED BY <3>1, <3>2 DEF s, z
  <2>8. Names(c) = Names(d) /\ Moves(d, c, - sum)
    BY <2>4, <2>5, <2>6, <2>7, AllMove
  <2>9. Amounted(c) /\ DOMAIN c = TableNames
    BY <2>8 DEF Moves, Amounted
  <2>10. Moves(c, e1, sum) /\ Names(e1) = Names(c)
    <3> DEFINE g == c.gpo
    <3>1. GpoOK(g)
      BY <2>9, Gaps
    <3>2. /\ e1.gpo = [g EXCEPT !.supply = @ + sum, !.lastSupply = d.gpo.supply + sum]
          /\ Kept(c, e1, {"acct", "gpo"}) /\ e1.acct = c.acct
      BY <1>1 DEF Kept, MoneyTables, TableNames, c
    <3>3. d.gpo.supply \in Int
      BY Gaps
    <3> HIDE DEF e1
    <3>4. /\ GpoOK(e1.gpo) /\ e1.gpo.supply = c.gpo.supply + sum /\ c.gpo.supply \in Int
          /\ e1.gpo.vestingFund = c.gpo.vestingFund
          /\ e1.gpo.vestingShares = c.gpo.vestingShares /\ e1.gpo.pendingShares = c.gpo.pendingShares
          /\ e1.gpo.pendingBmt = c.gpo.pendingBmt
      <4> HIDE DEF g
      <4> QED BY <2>4, <3>1, <3>2, <3>3 DEF GpoOK, g
    <3>5. VestGap(e1) = VestGap(c) /\ ShareGap(e1) = ShareGap(c) /\ PromiseGap(e1) = PromiseGap(c)
      BY <3>2, <3>4 DEF VestGap, ShareGap, PromiseGap
    <3>6. AccountTable(e1.acct) /\ Names(e1) = Names(c)
      BY <2>9, <3>2 DEF Amounted, Names
    <3>7. Moves(c, e1, (e1.gpo.supply - c.gpo.supply) - (Coins(e1.acct) - Coins(c.acct))
                      - (e1.gpo.vestingFund - c.gpo.vestingFund)
                      - (e1.gpo.pendingBmt - c.gpo.pendingBmt))
      BY <2>9, <3>2, <3>4, <3>5, <3>6, TotalsMove
    <3>8. Coins(c.acct) \in Int /\ c.gpo.vestingFund \in Int /\ c.gpo.pendingBmt \in Int
      BY <2>9, Gaps
    <3>9. (e1.gpo.supply - c.gpo.supply) - (Coins(e1.acct) - Coins(c.acct))
          - (e1.gpo.vestingFund - c.gpo.vestingFund) - (e1.gpo.pendingBmt - c.gpo.pendingBmt)
         = sum
      BY <2>4, <3>2, <3>4, <3>8
    <3> QED BY <3>6, <3>7, <3>9
  <2> HIDE DEF e1
  <2>11. Moves(d, e1, - sum + sum)
    BY <2>8, <2>10, MovesTwice
  <2>12. - sum + sum = 0
    BY <2>4
  <2> QED BY <1>2, <1>5, <2>8, <2>10, <2>11, <2>12
<1> HIDE DEF e1, e
<1> QED BY <1>2, <1>5, MovesNot DEF e

-----------------------------------------------------------------------------
\* Operations, by family.

\* One table, or none, changes.
LEMMA TableMoves ==
  ASSUME NEW d, Amounted(d), NEW e
  PROVE  /\ Kept(d, e, {}) => Moves(d, e, 0)
         /\ Kept(d, e, {"escrows"}) /\ EscrowTable(e.escrows, Names(d)) =>
               Moves(d, e, InEscrow(d.escrows) - InEscrow(e.escrows))
         /\ Kept(d, e, {"orders"}) /\ OrderTable(e.orders, Names(d)) =>
               Moves(d, e, OnSale(d.orders) - OnSale(e.orders))
         /\ Kept(d, e, {"content"}) /\ ContentTable(e.content, Names(d)) =>
               Moves(d, e, Reserved(d.content) - Reserved(e.content))
         /\ Kept(d, e, {"fund"}) /\ FundOK(e.fund) =>
               Moves(d, e, d.fund.balance - e.fund.balance)
         /\ Kept(d, e, {"routes"}) /\ RouteTable(e.routes, Names(d)) => Moves(d, e, 0)
         /\ Kept(d, e, {"comments", "votes"}) /\ CommentTable(e.comments, Names(d))
               /\ VoteTable(e.votes, Names(d)) => Moves(d, e, 0)
<1> DEFINE all == {"fund", "escrows", "orders", "content", "routes", "comments", "votes"}
           sum == (d.fund.balance - e.fund.balance) + (InEscrow(d.escrows) - InEscrow(e.escrows))
                    + (OnSale(d.orders) - OnSale(e.orders))
                    + (Reserved(d.content) - Reserved(e.content))
<1>1. /\ OnSale(d.orders) \in Int /\ InEscrow(d.escrows) \in Int /\ Reserved(d.content) \in Int
      /\ d.fund.balance \in Int /\ FundOK(d.fund)
  BY Gaps
<1>2. CASE Kept(d, e, {})
  <2>1. /\ Kept(d, e, all) /\ e.fund = d.fund /\ e.escrows = d.escrows /\ e.orders = d.orders
        /\ e.content = d.content /\ e.routes = d.routes /\ e.comments = d.comments
        /\ e.votes = d.votes
    BY <1>2 DEF Kept, MoneyTables
  <2>2. Moves(d, e, sum)
    BY <1>1, <2>1, TablesMove
  <2>3. sum = 0
    BY <1>1, <2>1
  <2> HIDE DEF sum
  <2>4. Moves(d, e, 0)
    BY <2>2, <2>3
  <2>5. CommentTable(d.comments, Names(d)) /\ VoteTable(d.votes, Names(d))
    BY DEF Amounted
  <2>6. /\ InEscrow(d.escrows) - InEscrow(e.escrows) = 0 /\ OnSale(d.orders) - OnSale(e.orders) = 0
        /\ Reserved(d.content) - Reserved(e.content) = 0 /\ d.fund.balance - e.fund.balance = 0
    BY <1>1, <2>1
  <2> QED BY <2>4, <2>6
<1>3. ASSUME Kept(d, e, {"escrows"}), EscrowTable(e.escrows, Names(d))
      PROVE  Moves(d, e, InEscrow(d.escrows) - InEscrow(e.escrows))
  <2>1. /\ Kept(d, e, all) /\ e.fund = d.fund /\ e.orders = d.orders
        /\ e.content = d.content /\ e.routes = d.routes /\ e.comments = d.comments
        /\ e.votes = d.votes
    BY <1>3 DEF Kept, MoneyTables
  <2>2. Moves(d, e, sum)
    BY <1>1, <1>3, <2>1, TablesMove
  <2>3. InEscrow(e.escrows) \in Int
    BY <1>3, EscrowSums
  <2>4. sum = InEscrow(d.escrows) - InEscrow(e.escrows)
    BY <1>1, <2>1, <2>3
  <2> HIDE DEF sum
  <2> QED BY <2>2, <2>4
<1>4. ASSUME Kept(d, e, {"orders"}), OrderTable(e.orders, Names(d))
      PROVE  Moves(d, e, OnSale(d.orders) - OnSale(e.orders))
  <2>1. /\ Kept(d, e, all) /\ e.fund = d.fund /\ e.escrows = d.escrows
        /\ e.content = d.content /\ e.routes = d.routes /\ e.comments = d.comments
        /\ e.votes = d.votes
    BY <1>4 DEF Kept, MoneyTables
  <2>2. Moves(d, e, sum)
    BY <1>1, <1>4, <2>1, TablesMove
  <2>3. OnSale(e.orders) \in Int
    BY <1>4, OrderSums
  <2>4. sum = OnSale(d.orders) - OnSale(e.orders)
    BY <1>1, <2>1, <2>3
  <2> HIDE DEF sum
  <2> QED BY <2>2, <2>4
<1>5. ASSUME Kept(d, e, {"content"}), ContentTable(e.content, Names(d))
      PROVE  Moves(d, e, Reserved(d.content) - Reserved(e.content))
  <2>1. /\ Kept(d, e, all) /\ e.fund = d.fund /\ e.escrows = d.escrows
        /\ e.orders = d.orders /\ e.routes = d.routes /\ e.comments = d.comments
        /\ e.votes = d.votes
    BY <1>5 DEF Kept, MoneyTables
  <2>2. Moves(d, e, sum)
    BY <1>1, <1>5, <2>1, TablesMove
  <2>3. Reserved(e.content) \in Int
    BY <1>5, ContentSums
  <2>4. sum = Reserved(d.content) - Reserved(e.content)
    BY <1>1, <2>1, <2>3
  <2> HIDE DEF sum
  <2> QED BY <2>2, <2>4
<1>6. ASSUME Kept(d, e, {"fund"}), FundOK(e.fund)
      PROVE  Moves(d, e, d.fund.balance - e.fund.balance)
  <2>1. /\ Kept(d, e, all) /\ e.content = d.content /\ e.escrows = d.escrows
        /\ e.orders = d.orders /\ e.routes = d.routes /\ e.comments = d.comments
        /\ e.votes = d.votes
    BY <1>6 DEF Kept, MoneyTables
  <2>2. Moves(d, e, sum)
    BY <1>6, <2>1, TablesMove
  <2>3. e.fund.balance \in Int
    BY <1>6 DEF FundOK
  <2>4. sum = d.fund.balance - e.fund.balance
    BY <1>1, <2>1, <2>3
  <2> HIDE DEF sum
  <2> QED BY <2>2, <2>4
<1>7. ASSUME Kept(d, e, {"routes"}), RouteTable(e.routes, Names(d)) PROVE Moves(d, e, 0)
  <2>1. /\ Kept(d, e, all) /\ e.fund = d.fund /\ e.content = d.content /\ e.escrows = d.escrows
        /\ e.orders = d.orders /\ e.comments = d.comments /\ e.votes = d.votes
    BY <1>7 DEF Kept, MoneyTables
  <2>2. Moves(d, e, sum)
    BY <1>1, <1>7, <2>1, TablesMove
  <2>3. sum = 0
    BY <1>1, <2>1
  <2> HIDE DEF sum
  <2> QED BY <2>2, <2>3
<1>8. ASSUME Kept(d, e, {"comments", "votes"}), CommentTable(e.comments, Names(d)),
             VoteTable(e.votes, Names(d)) PROVE Moves(d, e, 0)
  <2>1. /\ Kept(d, e, all) /\ e.fund = d.fund /\ e.content = d.content /\ e.escrows = d.escrows
        /\ e.orders = d.orders /\ e.routes = d.routes
    BY <1>8 DEF Kept, MoneyTables
  <2>2. Moves(d, e, sum)
    BY <1>1, <1>8, <2>1, TablesMove
  <2>3. sum = 0
    BY <1>1, <2>1
  <2> HIDE DEF sum
  <2> QED BY <2>2, <2>3
<1> QED BY <1>2, <1>3, <1>4, <1>5, <1>6, <1>7, <1>8

\* The tables are in order and add up.
Balanced(d) == Amounted(d) /\ SupplyExact(d) /\ VestsExact(d) /\ TokensExact(d)

\* The inductive invariant.
Exact == Balanced(db) /\ time \in Int /\ num \in Int

\* Tables that add up still do when nothing is missing and nothing is new.
LEMMA StillBalanced ==
  ASSUME NEW d, Balanced(d), NEW e, Moves(d, e, 0)
  PROVE  Balanced(e)
<1>1. /\ Amounted(d) /\ Amounted(e)
      /\ BmtGap(d) = 0 /\ VestGap(d) = 0 /\ ShareGap(d) = 0 /\ PromiseGap(d) = 0
  BY Gaps DEF Balanced, Moves
<1>2. BmtGap(e) = 0 /\ VestGap(e) = 0 /\ ShareGap(e) = 0 /\ PromiseGap(e) = 0
  BY <1>1 DEF Moves
<1>3. SupplyExact(e) /\ VestsExact(e)
  BY <1>1, <1>2, Gaps
<1>4. TokensExact(e)
  BY DEF Balanced, Moves, TokensExact
<1> QED BY <1>1, <1>3, <1>4 DEF Balanced

\* transfer moves a balance.
LEMMA TransferBalances ==
  ASSUME Exact, TransferOperation PROVE Moves(db, db', 0)
<1>1. PICK from \in Users, to \in Payees, x \in Amounts : Transfer(from, to, x)
  BY DEF TransferOperation
<1>2. Amounted(db) /\ x \in Int /\ - x \in Int /\ from \in Names(db) /\ to \in Names(db)
  BY PaymentsAssumption DEF Exact, Balanced, Users, Payees
<1> DEFINE d == AdjustBalance(db, from, - x)
<1>3. Moves(db, d, - (- x)) /\ Names(d) = Names(db)
  BY <1>2, AdjustMoves
<1>4. db' = AdjustBalance(d, to, x)
  BY <1>1 DEF Transfer
<1> HIDE DEF d
<1>5. Moves(d, db', - x)
  <2>1. Amounted(d)
    BY <1>3 DEF Moves
  <2> QED BY <1>2, <1>3, <1>4, <2>1, AdjustMoves
<1>6. Moves(db, db', - (- x) + - x)
  BY <1>2, <1>3, <1>5, MovesTwice
<1>7. - (- x) + - x = 0
  BY <1>2
<1> QED BY <1>6, <1>7

\* An account is paid, or pays, what a table loses or gains.
LEMMA PaidFrom ==
  ASSUME NEW d, Amounted(d), NEW a \in Names(d), NEW y \in Int, NEW c,
         c = AdjustBalance(d, a, y)
  PROVE  /\ DOMAIN c = TableNames /\ c.escrows = d.escrows /\ c.orders = d.orders
         /\ c.content = d.content /\ c.fund = d.fund
         /\ \A t : EscrowTable(t, Names(d)) /\ InEscrow(t) = InEscrow(d.escrows) - y =>
               Moves(d, [c EXCEPT !.escrows = t], 0)
         /\ \A t : OrderTable(t, Names(d)) /\ OnSale(t) = OnSale(d.orders) - y =>
               Moves(d, [c EXCEPT !.orders = t], 0)
         /\ \A t : ContentTable(t, Names(d)) /\ Reserved(t) = Reserved(d.content) - y =>
               Moves(d, [c EXCEPT !.content = t], 0)
         /\ \A t : FundOK(t) /\ t.balance = d.fund.balance - y => Moves(d, [c EXCEPT !.fund = t], 0)
<1>1. Moves(d, c, - y) /\ Names(c) = Names(d) /\ Kept(d, c, {"acct"})
  BY AdjustMoves
<1>2. Amounted(c) /\ DOMAIN c = TableNames
  BY <1>1 DEF Moves, Amounted
<1>3. /\ c.escrows = d.escrows /\ c.orders = d.orders /\ c.content = d.content /\ c.fund = d.fund
  BY <1>1 DEF Kept, MoneyTables
<1>4. /\ OnSale(d.orders) \in Int /\ InEscrow(d.escrows) \in Int /\ Reserved(d.content) \in Int
      /\ d.fund.balance \in Int
  BY Gaps
<1>5. ASSUME NEW e, Moves(c, e, y) PROVE Moves(d, e, 0)
  <2>1. Moves(d, e, - y + y)
    BY <1>1, <1>5, MovesTwice
  <2>2. - y + y = 0
    OBVIOUS
  <2> QED BY <2>1, <2>2
<1>6. ASSUME NEW t, EscrowTable(t, Names(d)), InEscrow(t) = InEscrow(d.escrows) - y
      PROVE  Moves(d, [c EXCEPT !.escrows = t], 0)
  <2> DEFINE e == [c EXCEPT !.escrows = t]
  <2>1. Kept(c, e, {"escrows"}) /\ e.escrows = t
    BY <1>2 DEF Kept, MoneyTables, TableNames
  <2> HIDE DEF e
  <2>2. Moves(c, e, InEscrow(c.escrows) - InEscrow(e.escrows))
    BY <1>1, <1>2, <1>6, <2>1, TableMoves
  <2>3. InEscrow(c.escrows) - InEscrow(e.escrows) = y
    BY <1>3, <1>4, <1>6, <2>1
  <2>4. Moves(d, e, 0)
    BY <1>5, <2>2, <2>3
  <2> QED BY <2>4 DEF e
<1>7. ASSUME NEW t, OrderTable(t, Names(d)), OnSale(t) = OnSale(d.orders) - y
      PROVE  Moves(d, [c EXCEPT !.orders = t], 0)
  <2> DEFINE e == [c EXCEPT !.orders = t]
  <2>1. Kept(c, e, {"orders"}) /\ e.orders = t
    BY <1>2 DEF Kept, MoneyTables, TableNames
  <2> HIDE DEF e
  <2>2. Moves(c, e, OnSale(c.orders) - OnSale(e.orders))
    BY <1>1, <1>2, <1>7, <2>1, TableMoves
  <2>3. OnSale(c.orders) - OnSale(e.orders) = y
    BY <1>3, <1>4, <1>7, <2>1
  <2>4. Moves(d, e, 0)
    BY <1>5, <2>2, <2>3
  <2> QED BY <2>4 DEF e
<1>8. ASSUME NEW t, ContentTable(t, Names(d)), Reserved(t) = Reserved(d.content) - y
      PROVE  Moves(d, [c EXCEPT !.content = t], 0)
  <2> DEFINE e == [c EXCEPT !.content = t]
  <2>1. Kept(c, e, {"content"}) /\ e.content = t
    BY <1>2 DEF Kept, MoneyTables, TableNames
  <2> HIDE DEF e
  <2>2. Moves(c, e, Reserved(c.content) - Reserved(e.content))
    BY <1>1, <1>2, <1>8, <2>1, TableMoves
  <2>3. Reserved(c.content) - Reserved(e.content) = y
    BY <1>3, <1>4, <1>8, <2>1
  <2>4. Moves(d, e, 0)
    BY <1>5, <2>2, <2>3
  <2> QED BY <2>4 DEF e
<1>9. ASSUME NEW t, FundOK(t), t.balance = d.fund.balance - y
      PROVE  Moves(d, [c EXCEPT !.fund = t], 0)
  <2> DEFINE e == [c EXCEPT !.fund = t]
  <2>1. Kept(c, e, {"fund"}) /\ e.fund = t
    BY <1>2 DEF Kept, MoneyTables, TableNames
  <2> HIDE DEF e
  <2>2. Moves(c, e, c.fund.balance - e.fund.balance)
    BY <1>2, <1>9, <2>1, TableMoves
  <2>3. c.fund.balance - e.fund.balance = y
    BY <1>3, <1>4, <1>9, <2>1
  <2>4. Moves(d, e, 0)
    BY <1>5, <2>2, <2>3
  <2> QED BY <2>4 DEF e
<1> QED BY <1>2, <1>3, <1>6, <1>7, <1>8, <1>9

\* An entry taken out of the table of escrows or of orders.
LEMMA WithoutOne ==
  ASSUME NEW t, NEW names, NEW k \in DOMAIN t
  PROVE  /\ EscrowTable(t, names) => /\ EscrowTable(Without(t, k), names)
               /\ InEscrow(Without(t, k)) = InEscrow(t) - (t[k].balance + t[k].fee)
         /\ OrderTable(t, names) => /\ OrderTable(Without(t, k), names)
               /\ OnSale(Without(t, k)) = OnSale(t) - t[k].forSale
<1> DEFINE u == Restrict(t, DOMAIN t \ {k})
<1>1. {k} \in SUBSET DOMAIN t /\ Without(t, k) = u
  BY DEF Without
<1>2. ASSUME EscrowTable(t, names)
      PROVE  EscrowTable(u, names) /\ InEscrow(u) = InEscrow(t) - (t[k].balance + t[k].fee)
  <2> DEFINE h == [x \in {k} |-> t[x].balance + t[x].fee]
  <2>1. (\A x \in {k} : h[x] = t[x].balance + t[x].fee) /\ h[k] = t[k].balance + t[k].fee
    OBVIOUS
  <2>2. h[k] \in Int
    BY <1>2, <2>1 DEF EscrowTable
  <2> HIDE DEF h, u
  <2>3. SumFunctionOnSet(h, {k}) = h[k]
    BY <2>2, SumOfOne
  <2>4. EscrowTable(u, names) /\ InEscrow(u) = InEscrow(t) - SumFunctionOnSet(h, {k})
    BY <1>1, <1>2, <2>1, EscrowSums DEF u
  <2> QED BY <2>1, <2>3, <2>4
<1>3. ASSUME OrderTable(t, names)
      PROVE  OrderTable(u, names) /\ OnSale(u) = OnSale(t) - t[k].forSale
  <2> DEFINE h == [x \in {k} |-> t[x].forSale]
  <2>1. (\A x \in {k} : h[x] = t[x].forSale) /\ h[k] = t[k].forSale
    OBVIOUS
  <2>2. h[k] \in Int
    BY <1>3, <2>1 DEF OrderTable
  <2> HIDE DEF h, u
  <2>3. SumFunctionOnSet(h, {k}) = h[k]
    BY <2>2, SumOfOne
  <2>4. OrderTable(u, names) /\ OnSale(u) = OnSale(t) - SumFunctionOnSet(h, {k})
    BY <1>1, <1>3, <2>1, OrderSums DEF u
  <2> QED BY <2>1, <2>3, <2>4
<1> HIDE DEF u
<1> QED BY <1>1, <1>2, <1>3

\* Escrow: what an account pays in waits there until it is paid out.
LEMMA EscrowBalances ==
  ASSUME Exact, EscrowOperation PROVE Moves(db, db', 0)
<1> DEFINE t == db.escrows
           N == Names(db)
<1>0. /\ Amounted(db) /\ DOMAIN db = TableNames /\ EscrowTable(t, N)
      /\ \A k \in DOMAIN t : EscrowOK(k, t[k], N)
  BY DEF Exact, Balanced, Amounted, EscrowTable, EscrowOK
<1>00. InEscrow(t) \in Int
  BY <1>0, Gaps
<1>1. ASSUME NEW from \in Users, NEW to \in Users, NEW agent \in Users, NEW id, NEW x \in Amounts,
             NEW fee \in {0, 1}, EscrowTransfer(from, to, agent, id, x, fee, time + 1, time + 2)
      PROVE  Moves(db, db', 0)
  <2> DEFINE y == - (x + fee)
             c == AdjustBalance(db, from, y)
             v == [to |-> to, agent |-> agent, balance |-> x, fee |-> fee,
                   ratify |-> time + 1, expire |-> time + 2, toApproved |-> FALSE,
                   agentApproved |-> FALSE, disputed |-> FALSE]
             k == <<from, id>>
             u == With(t, k, v)
  <2>1. x \in Int /\ y \in Int /\ from \in N /\ to \in N /\ agent \in N /\ k[1] = from
    BY PaymentsAssumption DEF Users
  <2>2. EscrowOK(k, v, N) /\ v.balance + v.fee = x + fee
    BY <2>1 DEF EscrowOK, Approved
  <2>3. k \notin DOMAIN t /\ db' = [c EXCEPT !.escrows = With(@, k, v)]
    BY <1>1 DEF EscrowTransfer
  <2> HIDE DEF v, k
  <2>4. EscrowTable(u, N) /\ InEscrow(u) = InEscrow(t) + (x + fee)
    BY <1>0, <2>2, <2>3, EscrowSums
  <2>5. InEscrow(u) = InEscrow(t) - y
    BY <1>00, <2>1, <2>4
  <2> HIDE DEF y
  <2>6. c.escrows = t /\ \A w : EscrowTable(w, N) /\ InEscrow(w) = InEscrow(t) - y =>
                            Moves(db, [c EXCEPT !.escrows = w], 0)
    BY <1>0, <2>1, PaidFrom
  <2> HIDE DEF c
  <2>7. db' = [c EXCEPT !.escrows = u]
    BY <2>3, <2>6
  <2> QED BY <2>4, <2>5, <2>6, <2>7
<1>2. ASSUME NEW k \in DOMAIN t, NEW who \in Users, EscrowApprove(k, who)
      PROVE  Moves(db, db', 0)
  <2> DEFINE e == t[k]
             e1 == [e EXCEPT !.toApproved = @ \/ who = e.to, !.agentApproved = @ \/ who = e.agent]
             e2 == [e1 EXCEPT !.fee = 0]
             c == AdjustBalance(db, e.agent, e.fee)
  <2>1. EscrowOK(k, e, N)
    BY <1>0
  <2>2. /\ ~Approved(e1) => EscrowOK(k, e1, N) /\ e1.balance + e1.fee = e.balance + e.fee
        /\ EscrowOK(k, e2, N) /\ e2.balance + e2.fee = e.balance
    <3> HIDE DEF e
    <3> QED BY <2>1 DEF EscrowOK
  <2>3. db' = IF Approved(e1) THEN [c EXCEPT !.escrows[k] = e2] ELSE [db EXCEPT !.escrows[k] = e1]
    BY <1>2 DEF EscrowApprove
  <2>4. e.balance \in Int /\ e.fee \in Int /\ e.agent \in N
    BY <2>1 DEF EscrowOK
  <2> HIDE DEF e1, e2
  <2>5. CASE Approved(e1)
    <3> DEFINE u == [t EXCEPT ![k] = e2]
               y == e.fee
    <3>1. EscrowTable(u, N) /\ InEscrow(u) = InEscrow(t) - (e.balance + e.fee) + (e2.balance + e2.fee)
      BY <1>0, <1>2, <2>2, EscrowSums
    <3>2. InEscrow(u) = InEscrow(t) - y
      BY <1>00, <2>2, <2>4, <3>1
    <3>3. /\ c.escrows = t /\ DOMAIN c = TableNames
          /\ \A w : EscrowTable(w, N) /\ InEscrow(w) = InEscrow(t) - y =>
                    Moves(db, [c EXCEPT !.escrows = w], 0)
      BY <1>0, <2>4, PaidFrom
    <3> HIDE DEF c, e, y
    <3>4. db' = [c EXCEPT !.escrows = u]
      BY <2>3, <2>5, <3>3 DEF TableNames
    <3> QED BY <3>1, <3>2, <3>3, <3>4
  <2>6. CASE ~Approved(e1)
    <3> DEFINE u == [t EXCEPT ![k] = e1]
    <3>1. EscrowTable(u, N) /\ InEscrow(u) = InEscrow(t) - (e.balance + e.fee) + (e1.balance + e1.fee)
      BY <1>0, <1>2, <2>2, <2>6, EscrowSums
    <3>2. InEscrow(t) - InEscrow(u) = 0
      BY <1>00, <2>2, <2>4, <2>6, <3>1
    <3>3. db' = [db EXCEPT !.escrows = u]
      BY <1>0, <2>3, <2>6 DEF TableNames
    <3> HIDE DEF u
    <3>4. Kept(db, db', {"escrows"}) /\ db'.escrows = u
      BY <1>0, <3>3 DEF Kept, MoneyTables, TableNames
    <3>5. Moves(db, db', InEscrow(t) - InEscrow(u))
      BY <1>0, <3>1, <3>4, TableMoves
    <3> QED BY <3>2, <3>5
  <2> QED BY <2>5, <2>6
<1>3. ASSUME NEW k \in DOMAIN t, NEW who \in Users, EscrowReject(k, who)
      PROVE  Moves(db, db', 0)
  <2> DEFINE y == t[k].balance + t[k].fee
             c == AdjustBalance(db, k[1], y)
             u == Without(t, k)
  <2>1. EscrowOK(k, t[k], N)
    BY <1>0
  <2>2. y \in Int /\ k[1] \in N
    BY <2>1 DEF EscrowOK
  <2>3. EscrowTable(u, N) /\ InEscrow(u) = InEscrow(t) - y
    BY <1>0, WithoutOne
  <2>4. db' = [c EXCEPT !.escrows = Without(@, k)]
    BY <1>3 DEF EscrowReject
  <2> HIDE DEF y
  <2>5. c.escrows = t /\ \A w : EscrowTable(w, N) /\ InEscrow(w) = InEscrow(t) - y =>
                            Moves(db, [c EXCEPT !.escrows = w], 0)
    BY <1>0, <2>2, PaidFrom
  <2> HIDE DEF c
  <2>6. db' = [c EXCEPT !.escrows = u]
    BY <2>4, <2>5
  <2> QED BY <2>3, <2>5, <2>6
<1>4. ASSUME NEW k \in DOMAIN t, EscrowDispute(k)
      PROVE  Moves(db, db', 0)
  <2> DEFINE e == t[k]
             e1 == [e EXCEPT !.disputed = TRUE]
             u == [t EXCEPT ![k] = e1]
  <2>1. EscrowOK(k, e, N)
    BY <1>0
  <2>2. EscrowOK(k, e1, N) /\ e1.balance + e1.fee = e.balance + e.fee /\ e.balance + e.fee \in Int
    <3> HIDE DEF e
    <3> QED BY <2>1 DEF EscrowOK, Approved
  <2>3. db' = [db EXCEPT !.escrows = u]
    BY <1>0, <1>4 DEF EscrowDispute, TableNames
  <2> HIDE DEF e1
  <2>4. EscrowTable(u, N) /\ InEscrow(u) = InEscrow(t) - (e.balance + e.fee) + (e1.balance + e1.fee)
    BY <1>0, <1>4, <2>2, EscrowSums
  <2>5. InEscrow(t) - InEscrow(u) = 0
    BY <1>00, <2>2, <2>4
  <2> HIDE DEF u
  <2>6. Kept(db, db', {"escrows"}) /\ db'.escrows = u
    BY <1>0, <2>3 DEF Kept, MoneyTables, TableNames
  <2>7. Moves(db, db', InEscrow(t) - InEscrow(u))
    BY <1>0, <2>4, <2>6, TableMoves
  <2> QED BY <2>5, <2>7
<1>5. ASSUME NEW k \in DOMAIN t, NEW who \in Users, NEW receiver \in Users, NEW x \in Amounts,
             EscrowRelease(k, who, receiver, x)
      PROVE  Moves(db, db', 0)
  <2> DEFINE e == t[k]
             c == AdjustBalance(db, receiver, x)
             e1 == [e EXCEPT !.balance = @ - x]
  <2>1. EscrowOK(k, e, N)
    BY <1>0
  <2>2. x \in Int /\ receiver \in N /\ e.balance \in Int /\ e.fee \in Int
    BY <2>1, PaymentsAssumption DEF Users, EscrowOK
  <2>3. /\ c.escrows = t /\ DOMAIN c = TableNames
        /\ \A u : EscrowTable(u, N) /\ InEscrow(u) = InEscrow(t) - x =>
                     Moves(db, [c EXCEPT !.escrows = u], 0)
    BY <1>0, <2>2, PaidFrom
  <2>4. db' = IF e.balance = x THEN [c EXCEPT !.escrows = Without(@, k)]
              ELSE [c EXCEPT !.escrows[k].balance = @ - x]
    BY <1>5 DEF EscrowRelease
  <2> HIDE DEF c
  <2>5. CASE e.balance # x
    <3> DEFINE u == [t EXCEPT ![k] = e1]
    <3>1. EscrowOK(k, e1, N) /\ e1.balance + e1.fee = e.balance + e.fee - x
      <4> HIDE DEF e
      <4> QED BY <2>1, <2>2 DEF EscrowOK, Approved
    <3>2. db' = [c EXCEPT !.escrows = u]
      BY <2>3, <2>4, <2>5 DEF TableNames
    <3> HIDE DEF e1
    <3>3. EscrowTable(u, N) /\ InEscrow(u) = InEscrow(t) - (e.balance + e.fee) + (e1.balance + e1.fee)
      BY <1>0, <1>5, <3>1, EscrowSums
    <3>4. InEscrow(u) = InEscrow(t) - x
      BY <1>00, <2>2, <3>1, <3>3
    <3> HIDE DEF u
    <3> QED BY <2>3, <3>2, <3>3, <3>4
  <2>6. CASE e.balance = x
    <3> DEFINE u == Without(t, k)
    <3>1. EscrowTable(u, N) /\ InEscrow(u) = InEscrow(t) - (e.balance + e.fee)
      BY <1>0, WithoutOne
    <3>2. db' = [c EXCEPT !.escrows = u]
      BY <2>3, <2>4, <2>6
    <3>3. e.fee = 0
      BY <1>5, <2>1 DEF EscrowRelease, EscrowOK
    <3>4. InEscrow(u) = InEscrow(t) - x
      BY <1>00, <2>2, <2>6, <3>1, <3>3
    <3> HIDE DEF u
    <3> QED BY <2>3, <3>1, <3>2, <3>4
  <2> QED BY <2>5, <2>6
<1> QED BY <1>1, <1>2, <1>3, <1>4, <1>5 DEF EscrowOperation

\* The amounts given are numbers.
LEMMA GivenAreNumbers == Given \subseteq Int
BY PaymentsAssumption DEF Given

\* Orders on the market: the amount on sale leaves the balance and comes back.
LEMMA MarketBalances ==
  ASSUME Exact, MarketOperation PROVE Moves(db, db', 0)
<1> DEFINE t == db.orders
           N == Names(db)
<1>0. Amounted(db) /\ DOMAIN db = TableNames /\ OrderTable(t, N)
  BY DEF Exact, Balanced, Amounted
<1>00. OnSale(t) \in Int
  BY <1>0, Gaps
<1>1. ASSUME NEW a \in Users, NEW id, NEW x \in Given, NEW expire,
             LimitOrderCreate(a, id, x, expire)
      PROVE  Moves(db, db', 0)
  <2> DEFINE y == - x
             c == AdjustBalance(db, a, y)
             v == [forSale |-> x, expire |-> expire]
             k == <<a, id>>
             u == With(t, k, v)
  <2>1. x \in Int /\ y \in Int /\ a \in N
    BY PaymentsAssumption, GivenAreNumbers DEF Users
  <2>2. OrderOK(k, v, N) /\ v.forSale = x
    BY <2>1 DEF OrderOK
  <2>3. k \notin DOMAIN t /\ db' = [c EXCEPT !.orders = With(@, k, v)]
    BY <1>1 DEF LimitOrderCreate
  <2> HIDE DEF v, k
  <2>4. OrderTable(u, N) /\ OnSale(u) = OnSale(t) + x
    BY <1>0, <2>2, <2>3, OrderSums
  <2>5. OnSale(u) = OnSale(t) - y
    BY <1>00, <2>1, <2>4
  <2> HIDE DEF y
  <2>6. c.orders = t /\ \A w : OrderTable(w, N) /\ OnSale(w) = OnSale(t) - y =>
                            Moves(db, [c EXCEPT !.orders = w], 0)
    BY <1>0, <2>1, PaidFrom
  <2> HIDE DEF c
  <2>7. db' = [c EXCEPT !.orders = u]
    BY <2>3, <2>6
  <2> QED BY <2>4, <2>5, <2>6, <2>7
<1>2. ASSUME NEW a \in Users, NEW id, LimitOrderCancel(a, id)
      PROVE  Moves(db, db', 0)
  <2> DEFINE k == <<a, id>>
             y == t[k].forSale
             c == AdjustBalance(db, k[1], y)
             u == Without(t, k)
  <2>1. k \in DOMAIN t /\ db' = [c EXCEPT !.orders = Without(@, k)]
    BY <1>2 DEF LimitOrderCancel, CancelOrder
  <2> HIDE DEF k
  <2>2. y \in Int /\ k[1] \in N
    BY <1>0, <2>1 DEF OrderTable
  <2>3. OrderTable(u, N) /\ OnSale(u) = OnSale(t) - y
    BY <1>0, <2>1, WithoutOne
  <2> HIDE DEF y
  <2>4. c.orders = t /\ \A w : OrderTable(w, N) /\ OnSale(w) = OnSale(t) - y =>
                            Moves(db, [c EXCEPT !.orders = w], 0)
    BY <1>0, <2>2, PaidFrom
  <2> HIDE DEF c
  <2>5. db' = [c EXCEPT !.orders = u]
    BY <2>1, <2>4
  <2> QED BY <2>3, <2>4, <2>5
<1> QED BY <1>1, <1>2 DEF MarketOperation

\* The post v has its amounts, its author exists and so does who else gets a part.
CommentOK(p, v, names) ==
    /\ {"net", "up", "weight", "created", "beneficiary"} \subseteq DOMAIN v
    /\ {v.net, v.up, v.weight, v.created} \subseteq Int
    /\ p[1] \in names /\ v.beneficiary \in names \cup {Self}

\* The vote v has its amounts and the voter exists.
VoteOK(k, v, names) ==
    {"rshares", "weight"} \subseteq DOMAIN v /\ k[1] \in names /\ {v.rshares, v.weight} \subseteq Int

\* Entries that are kept, changed or new.
LEMMA EntriesOK ==
  ASSUME NEW N, NEW t, NEW u, NEW k, DOMAIN u \subseteq DOMAIN t \cup {k}
  PROVE  /\ CommentTable(t, N)
               /\ (\A p \in DOMAIN u : (p \in DOMAIN t /\ u[p] = t[p]) \/ CommentOK(p, u[p], N)) =>
            CommentTable(u, N)
         /\ VoteTable(t, N)
               /\ (\A p \in DOMAIN u : (p \in DOMAIN t /\ u[p] = t[p]) \/ VoteOK(p, u[p], N)) =>
            VoteTable(u, N)
         /\ RouteTable(t, N)
               /\ (\A p \in DOMAIN u : (p \in DOMAIN t /\ u[p] = t[p])
                                       \/ (p[2] \in N /\ u[p].percent \in Int)) =>
            RouteTable(u, N)
<1>1. IsFiniteSet(DOMAIN t) => IsFiniteSet(DOMAIN u)
  <2> HAVE IsFiniteSet(DOMAIN t)
  <2>1. IsFiniteSet(DOMAIN t \cup {k})
    BY FS_AddElement
  <2> QED BY <2>1, FS_Subset
<1>2. ASSUME CommentTable(t, N),
             \A p \in DOMAIN u : (p \in DOMAIN t /\ u[p] = t[p]) \/ CommentOK(p, u[p], N)
      PROVE  CommentTable(u, N)
  BY <1>1, <1>2 DEF CommentTable, CommentOK
<1>3. ASSUME VoteTable(t, N),
             \A p \in DOMAIN u : (p \in DOMAIN t /\ u[p] = t[p]) \/ VoteOK(p, u[p], N)
      PROVE  VoteTable(u, N)
  BY <1>1, <1>3 DEF VoteTable, VoteOK
<1>4. ASSUME RouteTable(t, N),
             \A p \in DOMAIN u : (p \in DOMAIN t /\ u[p] = t[p]) \/ (p[2] \in N /\ u[p].percent \in Int)
      PROVE  RouteTable(u, N)
  BY <1>1, <1>4 DEF RouteTable
<1> QED BY <1>2, <1>3, <1>4

\* Nothing moves when first accounts change in what is not an amount, then posts
\* and votes in whatever they change.
LEMMA PostsMove ==
  ASSUME NEW d, Amounted(d), NEW e, Kept(d, e, {"acct", "comments", "votes"}), NEW a \in Names(d),
         NEW s, e.acct = [d.acct EXCEPT ![a] = s], AccountOK(s), SameVests(d.acct[a], s),
         Money(s) = Money(d.acct[a]),
         CommentTable(e.comments, Names(d)), VoteTable(e.votes, Names(d))
  PROVE  Moves(d, e, 0) /\ Names(e) = Names(d)
<1> DEFINE f == [d EXCEPT !.acct = e.acct]
<1>1. DOMAIN d = TableNames
  BY DEF Amounted
<1>2. Kept(d, f, {"acct"}) /\ f.acct = [d.acct EXCEPT ![a] = s]
  BY <1>1 DEF Kept, MoneyTables, TableNames
<1>3. Kept(f, e, {"comments", "votes"})
  BY <1>1 DEF Kept, MoneyTables, TableNames
<1> HIDE DEF f
<1>4. Names(f) = Names(d) /\ Moves(d, f, 0)
  BY <1>2, NothingMoves
<1>5. Amounted(f)
  BY <1>4 DEF Moves
<1>6. Moves(f, e, 0)
  BY <1>3, <1>4, <1>5, TableMoves
<1>7. Moves(d, e, 0 + 0)
  BY <1>4, <1>6, MovesTwice
<1>8. Names(e) = Names(d)
  BY DEF Names
<1> QED BY <1>7, <1>8

\* The statistics of posts are no amounts.
LEMMA CountMoves ==
  ASSUME NEW d, Amounted(d), NEW p, NEW x
  PROVE  LET e == CountChildren(d, p, x)
         IN  Moves(d, e, 0) /\ Names(e) = Names(d) /\ Kept(d, e, {"comments"})
             /\ DOMAIN e.comments = DOMAIN d.comments
<1> DEFINE e == CountChildren(d, p, x)
           above == Ancestors(d, p)
           t == d.comments
           u == [q \in DOMAIN t |-> IF q \in above THEN [t[q] EXCEPT !.children = @ + x] ELSE t[q]]
<1>1. DOMAIN d = TableNames /\ CommentTable(t, Names(d)) /\ VoteTable(d.votes, Names(d))
  BY DEF Amounted
<1>2. e = [d EXCEPT !.comments = u]
  BY <1>1 DEF CountChildren, TableNames
<1>3. Kept(d, e, {"comments"}) /\ Kept(d, e, {"comments", "votes"}) /\ e.comments = u
      /\ e.votes = d.votes /\ e.acct = d.acct
  BY <1>1, <1>2 DEF Kept, MoneyTables, TableNames
<1>4. ASSUME NEW q \in DOMAIN u PROVE CommentOK(q, u[q], Names(d))
  <2> DEFINE c == t[q]
  <2>1. CommentOK(q, c, Names(d)) /\ u[q] = IF q \in above THEN [c EXCEPT !.children = @ + x] ELSE c
    BY <1>1, <1>4 DEF CommentTable, CommentOK
  <2> HIDE DEF c, u, above
  <2> QED BY <2>1 DEF CommentOK
<1>5. DOMAIN u = DOMAIN t
  OBVIOUS
<1> HIDE DEF u
<1>6. CommentTable(u, Names(d))
  BY <1>1, <1>4, <1>5, EntriesOK
<1> HIDE DEF e
<1>7. Moves(d, e, 0) /\ Names(e) = Names(d)
  BY <1>1, <1>3, <1>6, TableMoves DEF Names
<1> QED BY <1>3, <1>5, <1>7 DEF e

\* A new post, with the emission for it.
LEMMA PostedMoves ==
  ASSUME NEW d, Amounted(d), time \in Int, NEW p, p[1] \in Names(d), NEW parent, NEW price
  PROVE  Moves(d, Posted(d, p, parent, price), 0)
<1> DEFINE a == p[1]
           root == IF parent = NoPost THEN p ELSE d.comments[parent].root
           v == NewComment(root, parent, price)
           new == [d EXCEPT !.comments = With(@, p, v), !.acct[a].lastPost = time,
                            !.acct[a].lastRootPost = IF parent = NoPost THEN time ELSE @]
           rate == IF parent = NoPost THEN PostRate ELSE CommentRate
           c == CountChildren(new, p, 1)
           s == d.acct[a]
           r == [s EXCEPT !.lastPost = time,
                          !.lastRootPost = IF parent = NoPost THEN time ELSE @]
           u == With(d.comments, p, v)
<1>1. /\ DOMAIN d = TableNames /\ CommentTable(d.comments, Names(d)) /\ VoteTable(d.votes, Names(d))
      /\ AccountOK(s) /\ a \in Names(d)
  BY DEF Amounted, AccountTable, Names
<1>2. Posted(d, p, parent, price) = ProcessFunds(c, rate) /\ rate \in Int
  BY ContentAssumption DEF Posted
<1>3. new.acct = [d.acct EXCEPT ![a] = r] /\ Kept(d, new, {"acct", "comments", "votes"})
      /\ new.comments = u /\ new.votes = d.votes
  <2> HIDE DEF v, a
  <2>1. DOMAIN s = DOMAIN NewAccount
    BY <1>1 DEF AccountOK
  <2> QED BY <1>1, <2>1, AccountFields DEF Kept, MoneyTables, TableNames, Names
<1>4. AccountOK(r) /\ SameVests(s, r) /\ Money(r) = Money(s)
  <2> HIDE DEF s
  <2> QED BY <1>1, AccountFields DEF AccountOK, SameVests, Money
<1>5. CommentTable(u, Names(d))
  <2>1. CommentOK(p, v, Names(d))
    BY <1>1 DEF CommentOK, NewComment
  <2> HIDE DEF v
  <2>2. \A q \in DOMAIN u : (q \in DOMAIN d.comments /\ u[q] = d.comments[q]) \/ CommentOK(q, u[q], Names(d))
    BY <2>1 DEF With
  <2>3. DOMAIN u \subseteq DOMAIN d.comments \cup {p}
    BY DEF With
  <2> HIDE DEF u
  <2> QED BY <1>1, <2>2, <2>3, EntriesOK
<1> HIDE DEF new, r, s, a, u
<1>6. Moves(d, new, 0)
  BY <1>1, <1>3, <1>4, <1>5, PostsMove DEF s
<1>7. Amounted(new)
  BY <1>6 DEF Moves
<1>8. Moves(new, c, 0)
  BY <1>7, CountMoves
<1> HIDE DEF c, rate
<1>9. Amounted(c)
  BY <1>8 DEF Moves
<1>10. Moves(c, ProcessFunds(c, rate), 0)
  BY <1>2, <1>9, FundsMove
<1>11. Moves(d, c, 0 + 0)
  BY <1>6, <1>8, MovesTwice
<1>12. Moves(d, ProcessFunds(c, rate), 0 + 0)
  BY <1>10, <1>11, MovesTwice
<1> QED BY <1>2, <1>12

\* Posts and answers, and their deletion with the votes on them.
LEMMA ThreadBalances ==
  ASSUME Exact, ThreadOperation PROVE Moves(db, db', 0)
<1>0. Amounted(db) /\ time \in Int
  BY DEF Exact, Balanced
<1>1. ASSUME NEW p \in Posts, NEW q, Comment(p, q) PROVE Moves(db, db', 0)
  BY <1>0, <1>1, PostedMoves DEF Comment
<1>2. ASSUME NEW p \in Posts, DeleteComment(p) PROVE Moves(db, db', 0)
  <2> DEFINE d == CountChildren(db, p, -1)
             N == Names(db)
             S == DOMAIN d.comments \ {p}
             V == DOMAIN d.votes \ VotesOn(d, p)
             u == Restrict(d.comments, S)
             w == Restrict(d.votes, V)
  <2>1. Moves(db, d, 0) /\ Names(d) = N
    BY <1>0, CountMoves
  <2>2. db' = [d EXCEPT !.comments = Restrict(@, DOMAIN @ \ {p}),
                        !.votes = Restrict(@, DOMAIN @ \ VotesOn(d, p))]
    BY <1>2 DEF DeleteComment
  <2> HIDE DEF d
  <2>3. /\ Amounted(d) /\ DOMAIN d = TableNames /\ CommentTable(d.comments, N) /\ VoteTable(d.votes, N)
    BY <2>1 DEF Moves, Amounted
  <2>4. Kept(d, db', {"comments", "votes"}) /\ db'.comments = u /\ db'.votes = w
    BY <2>2, <2>3 DEF Kept, MoneyTables, TableNames
  <2>5. CommentTable(u, N)
    <3>1. DOMAIN u = S /\ \A x \in S : u[x] = d.comments[x]
      BY RestrictFacts
    <3> HIDE DEF u
    <3> QED BY <2>3, <3>1, EntriesOK
  <2>6. VoteTable(w, N)
    <3>1. DOMAIN w = V /\ \A x \in V : w[x] = d.votes[x]
      BY RestrictFacts
    <3> HIDE DEF w
    <3> QED BY <2>3, <3>1, EntriesOK
  <2> HIDE DEF u, w
  <2>7. Moves(d, db', 0)
    BY <2>1, <2>3, <2>4, <2>5, <2>6, TableMoves
  <2>8. Moves(db, db', 0 + 0)
    BY <1>0, <2>1, <2>7, MovesTwice
  <2> QED BY <2>8
<1> QED BY <1>1, <1>2 DEF ThreadOperation

\* A change of one post.
LEMMA OnePostMoves ==
  ASSUME Exact, NEW p \in DOMAIN db.comments, NEW v, CommentOK(p, v, Names(db)),
         Kept(db, db', {"comments"}), db'.comments = [db.comments EXCEPT ![p] = v]
  PROVE  Moves(db, db', 0)
<1>1. Amounted(db) /\ CommentTable(db.comments, Names(db)) /\ VoteTable(db.votes, Names(db))
  BY DEF Exact, Balanced, Amounted
<1> DEFINE u == [db.comments EXCEPT ![p] = v]
<1>2. /\ DOMAIN u = DOMAIN db.comments /\ u[p] = v
      /\ \A q \in DOMAIN u : q # p => u[q] = db.comments[q]
  OBVIOUS
<1>3. db'.comments = u
  OBVIOUS
<1> HIDE DEF u
<1>4. CommentTable(u, Names(db))
  BY <1>1, <1>2, EntriesOK
<1>5. Kept(db, db', {"comments", "votes"}) /\ db'.votes = db.votes
  BY DEF Kept, MoneyTables
<1> QED BY <1>1, <1>3, <1>4, <1>5, TableMoves

\* Options of posts.
LEMMA OptionsBalances ==
  ASSUME Exact, OptionsOperation PROVE Moves(db, db', 0)
<1>0. Amounted(db) /\ DOMAIN db = TableNames /\ CommentTable(db.comments, Names(db))
  BY DEF Exact, Balanced, Amounted
<1>1. ASSUME NEW p \in DOMAIN db.comments PROVE CommentOK(p, db.comments[p], Names(db))
  BY <1>0, <1>1 DEF CommentTable, CommentOK
<1>2. ASSUME NEW p, NEW c, NEW v, CommentOptions(p, c, v) PROVE Moves(db, db', 0)
  <2> DEFINE o == db.comments[p]
             r == [o EXCEPT !.curation = c, !.votable = v]
  <2>1. p \in DOMAIN db.comments /\ CommentOK(p, o, Names(db))
    BY <1>1, <1>2 DEF CommentOptions
  <2>2. CommentOK(p, r, Names(db))
    <3> HIDE DEF o
    <3> QED BY <2>1 DEF CommentOK
  <2>3. db' = [db EXCEPT !.comments[p].curation = c, !.comments[p].votable = v]
    BY <1>2 DEF CommentOptions
  <2>4. Kept(db, db', {"comments"}) /\ db'.comments = [db.comments EXCEPT ![p] = r]
    BY <1>0, <2>1, <2>3 DEF Kept, MoneyTables, TableNames
  <2> HIDE DEF r
  <2> QED BY <2>1, <2>2, <2>4, OnePostMoves
<1>3. ASSUME NEW p, NEW a \in Payees, NameBeneficiary(p, a) PROVE Moves(db, db', 0)
  <2> DEFINE o == db.comments[p]
             r == [o EXCEPT !.beneficiary = a]
  <2>1. p \in DOMAIN db.comments /\ CommentOK(p, o, Names(db)) /\ a \in Names(db)
    BY <1>1, <1>3 DEF NameBeneficiary, Payees, Users
  <2>2. CommentOK(p, r, Names(db))
    <3> HIDE DEF o
    <3> QED BY <2>1 DEF CommentOK
  <2>3. db' = [db EXCEPT !.comments[p].beneficiary = a]
    BY <1>3 DEF NameBeneficiary
  <2>4. Kept(db, db', {"comments"}) /\ db'.comments = [db.comments EXCEPT ![p] = r]
    BY <1>0, <2>1, <2>3 DEF Kept, MoneyTables, TableNames
  <2> HIDE DEF r
  <2> QED BY <2>1, <2>2, <2>4, OnePostMoves
<1> QED BY <1>2, <1>3 DEF OptionsOperation

\* An order for content that ends pays its price.
LEMMA EndOrderMoves ==
  ASSUME NEW d, Amounted(d), NEW k \in DOMAIN d.content, d.content[k].status = "open",
         NEW a \in Names(d), NEW status, status # "open"
  PROVE  LET e == EndOrder(d, k, a, status) IN Moves(d, e, 0) /\ Names(e) = Names(d)
<1> DEFINE t == d.content
           o == t[k]
           r == [o EXCEPT !.status = status]
           u == [t EXCEPT ![k] = r]
           y == o.price
           c == AdjustBalance(d, a, y)
           e == EndOrder(d, k, a, status)
           N == Names(d)
<1>1. /\ ContentTable(t, N) /\ ContentOK(o, N) /\ Reserved(t) \in Int /\ o.status = "open"
      /\ DOMAIN d = TableNames
  BY Gaps DEF Amounted, ContentTable, ContentOK
<1>2. ContentOK(r, N) /\ SetAside(r) = 0 /\ SetAside(o) = y /\ y \in Int
  <2> HIDE DEF o
  <2> QED BY <1>1 DEF ContentOK, SetAside
<1>3. e = [c EXCEPT !.content[k].status = status]
  BY DEF EndOrder
<1> HIDE DEF r
<1>4. ContentTable(u, N) /\ Reserved(u) = Reserved(t) - SetAside(o) + SetAside(r)
  BY <1>1, <1>2, ContentSums
<1>5. Reserved(u) = Reserved(t) - y
  BY <1>1, <1>2, <1>4
<1> HIDE DEF y, e
<1>6. /\ c.content = t /\ DOMAIN c = TableNames
      /\ \A w : ContentTable(w, N) /\ Reserved(w) = Reserved(t) - y => Moves(d, [c EXCEPT !.content = w], 0)
  BY <1>2, PaidFrom
<1>7. Names(c) = Names(d)
  BY <1>2, AdjustMoves
<1> HIDE DEF c
<1>8. e = [c EXCEPT !.content = u]
  BY <1>3, <1>6 DEF r, TableNames
<1> HIDE DEF u
<1>9. Moves(d, e, 0)
  BY <1>4, <1>5, <1>6, <1>8
<1>10. Names(e) = Names(d)
  BY <1>6, <1>7, <1>8 DEF Names, TableNames
<1> QED BY <1>9, <1>10 DEF e

\* Orders for content: the price waits in the order until it ends.
LEMMA ContentOrderBalances ==
  ASSUME Exact, ContentOrderOperation \/ EncryptedOperation PROVE Moves(db, db', 0)
<1> DEFINE t == db.content
           N == Names(db)
<1>0. Amounted(db) /\ DOMAIN db = TableNames /\ ContentTable(t, N) /\ time \in Int
  BY DEF Exact, Balanced, Amounted
<1>00. Reserved(t) \in Int
  BY <1>0, Gaps
<1>1. ASSUME NEW a \in Users, NEW p, NEW x \in Given, ContentOrderCreate(a, p, x)
      PROVE  Moves(db, db', 0)
  <2> DEFINE y == - x
             c == AdjustBalance(db, a, y)
             v == [owner |-> a, post |-> p, price |-> x, status |-> "open"]
             u == Append(t, v)
  <2>1. x \in Int /\ y \in Int /\ a \in N
    BY PaymentsAssumption, GivenAreNumbers DEF Users
  <2>2. ContentOK(v, N) /\ SetAside(v) = x
    BY <2>1 DEF ContentOK, SetAside
  <2>3. db' = [c EXCEPT !.content = Append(@, v)]
    BY <1>1 DEF ContentOrderCreate
  <2> HIDE DEF v
  <2>4. ContentTable(u, N) /\ Reserved(u) = Reserved(t) + x
    BY <1>0, <2>2, ContentSums
  <2>5. Reserved(u) = Reserved(t) - y
    BY <1>00, <2>1, <2>4
  <2> HIDE DEF y
  <2>6. c.content = t /\ \A w : ContentTable(w, N) /\ Reserved(w) = Reserved(t) - y =>
                            Moves(db, [c EXCEPT !.content = w], 0)
    BY <1>0, <2>1, PaidFrom
  <2> HIDE DEF c
  <2>7. db' = [c EXCEPT !.content = u]
    BY <2>3, <2>6
  <2> HIDE DEF u
  <2> QED BY <2>4, <2>5, <2>6, <2>7
<1>2. ASSUME NEW a \in Users, NEW k \in DOMAIN t, ContentOrderCancel(a, k) PROVE Moves(db, db', 0)
  BY <1>0, <1>2, EndOrderMoves DEF ContentOrderCancel, Users
<1>3. ASSUME NEW k \in DOMAIN t, ContentOrderCancelByAuthor(k) PROVE Moves(db, db', 0)
  <2>1. t[k].owner \in N
    BY <1>0 DEF ContentTable
  <2> QED BY <1>0, <1>3, <2>1, EndOrderMoves DEF ContentOrderCancelByAuthor
<1>4. ASSUME NEW p, NEW q, NEW x, NEW k \in DOMAIN t \cup {0},
             EncryptedContent(p, q, x, k)
      PROVE  Moves(db, db', 0)
  <2> DEFINE d == IF k = 0 THEN db ELSE EndOrder(db, k, p[1], "completed")
  <2>1. /\ p[1] \in N
        /\ k # 0 => t[k].status = "open"
        /\ db' = d \/ db' = Posted(d, p, q, x)
    BY <1>4 DEF EncryptedContent
  <2>2. Moves(db, d, 0) /\ Names(d) = N
    <3>1. CASE k = 0
      BY <1>0, <3>1, MovesNot
    <3>2. CASE k # 0
      BY <1>0, <2>1, <3>2, EndOrderMoves
    <3> QED BY <3>1, <3>2
  <2> HIDE DEF d
  <2>3. Amounted(d)
    BY <2>2 DEF Moves
  <2>4. Moves(d, Posted(d, p, q, x), 0)
    BY <1>0, <2>1, <2>2, <2>3, PostedMoves
  <2>5. Moves(db, Posted(d, p, q, x), 0 + 0)
    BY <1>0, <2>2, <2>4, MovesTwice
  <2> QED BY <2>1, <2>2, <2>5
<1> QED BY <1>1, <1>2, <1>3, <1>4 DEF ContentOrderOperation, EncryptedOperation

\* The powers of two are numbers above zero.
LEMMA BitsAreNumbers ==
  \A i \in 0 .. HighestBit : Bit[i] \in Nat /\ Bit[i] > 0
<1> DEFINE N == HighestBit
           S == Nat \ {0}
           P(g) == g = [i \in 0 .. N |-> IF i = 0 THEN 1 ELSE 2 * g[i - 1]]
           G == [n \in 1 .. N |-> [q \in S |-> 2 * q]]
<1>1. N \in Nat
  BY ContentAssumption
<1> HIDE DEF N
<1>2. G \in [1 .. N -> [S -> S]] /\ \A n \in 1 .. N, q \in S : G[n][q] = 2 * q
  OBVIOUS
<1>3. 1 \in S
  OBVIOUS
<1> HIDE DEF G
<1>4. PICK F : Iterates(F, S, 1, G, N)
  BY <1>1, <1>2, <1>3, RecursiveFunction
<1>5. P(F)
  <2>1. F \in [0 .. N -> S] /\ F[0] = 1 /\ \A i \in 1 .. N : F[i] = G[i][F[i - 1]]
    BY <1>4 DEF Iterates
  <2>2. \A i \in 1 .. N : F[i] = 2 * F[i - 1]
    <3> TAKE i \in 1 .. N
    <3>1. i - 1 \in 0 .. N
      BY <1>1
    <3>2. F[i - 1] \in S
      BY <2>1, <3>1
    <3> QED BY <1>2, <2>1, <3>2
  <2> QED BY <1>1, <2>1, <2>2
<1>6. Bit = CHOOSE g : P(g)
  BY DEF Bit, N
<1>7. P(Bit)
  <2> HIDE DEF P
  <2> QED BY <1>5, <1>6
<1> DEFINE T == {i \in 0 .. N : Bit[i] \in Nat /\ Bit[i] > 0}
<1>8. Bit[0] = 1 /\ \A i \in 1 .. N : Bit[i] = 2 * Bit[i - 1]
  BY <1>1, <1>7
<1> HIDE DEF P
<1>9. 0 \in T
  BY <1>1, <1>8
<1>10. ASSUME NEW k \in 1 .. N, k - 1 \in T PROVE k \in T
  BY <1>1, <1>8, <1>10
<1>11. \A k \in 0 .. N : k \in T
  <2> HIDE DEF T
  <2> QED BY <1>1, <1>9, <1>10, IntervalInduction
<1> QED BY <1>11 DEF N

\* approx_sqrt() computes a number.
LEMMA CurveIsNumber ==
  ASSUME NEW x \in Int
  PROVE  CurationCurve(x) \in Int
<1>1. CASE x = 0
  BY <1>1 DEF CurationCurve, ApproxSqrt
<1>2. CASE x # 0
  <2> DEFINE m == Msb(x)
             z == m \div 2
             high == IF m % 2 = 1 THEN Bit[z] ELSE 0
             low == (x - Bit[m]) \div Bit[m - z]
             M == {0} \cup {i \in 0 .. HighestBit : Bit[i] <= x}
  <2>1. HighestBit \in Nat
    BY ContentAssumption
  <2>2. M \in SUBSET (0 .. HighestBit) /\ M # {} /\ m = Max(M)
    BY <2>1 DEF Msb
  <2>3. m \in 0 .. HighestBit
    <3> HIDE DEF M
    <3>1. Max(M) \in M
      BY <2>1, <2>2, GreatestElement
    <3> QED BY <2>2, <3>1
  <2>4. CurationCurve(x) = Bit[z] + (high + low) \div 2
    BY <1>2 DEF CurationCurve, ApproxSqrt
  <2> HIDE DEF m
  <2>5. z \in 0 .. HighestBit /\ m - z \in 0 .. HighestBit
    BY <2>1, <2>3
  <2> HIDE DEF z
  <2>6. Bit[m] \in Int /\ Bit[z] \in Int /\ Bit[m - z] \in Nat /\ Bit[m - z] > 0
    BY <2>3, <2>5, BitsAreNumbers
  <2>7. high \in Int
    BY <2>6
  <2>8. low \in Int
    <3> DEFINE p == Bit[m - z]
    <3> HIDE DEF p
    <3>1. p \in Nat /\ p > 0 /\ low = (x - Bit[m]) \div p
      BY <2>6 DEF p
    <3> QED BY <2>6, <3>1
  <2> HIDE DEF high, low
  <2> QED BY <2>4, <2>6, <2>7, <2>8
<1> QED BY <1>1, <1>2

\* So are the weights of votes.
LEMMA WeightsAreNumbers ==
  ASSUME NEW x \in Int
  PROVE  Wrap(x) \in Int /\ \A age \in Int : Discounted(x, age) \in Int
<1>1. WeightRange \in Nat \ {0} /\ AuctionTime \in Nat \ {0}
  BY ContentAssumption
<1>2. Wrap(x) \in Int
  BY <1>1 DEF Wrap
<1>3. ASSUME NEW age \in Int PROVE Discounted(x, age) \in Int
  <2> DEFINE m == Min({age, AuctionTime})
  <2>1. m \in Int
    BY <1>1, MinOfTwo
  <2> HIDE DEF m
  <2>2. x * m \in Int
    BY <2>1
  <2> DEFINE y == x * m
  <2> HIDE DEF y
  <2>3. y \div AuctionTime \in Int
    BY <1>1, <2>2 DEF y
  <2> QED BY <2>3 DEF y, m, Discounted
<1> QED BY <1>2, <1>3

\* Votes on posts, with the emission for them, and changes of votes.
LEMMA VoteBalances ==
  ASSUME Exact, VoteOperation PROVE Moves(db, db', 0)
<1> DEFINE N == Names(db)
<1>0. /\ Amounted(db) /\ DOMAIN db = TableNames /\ CommentTable(db.comments, N)
      /\ VoteTable(db.votes, N) /\ time \in Int /\ AccountTable(db.acct)
  BY DEF Exact, Balanced, Amounted
<1>1. ASSUME NEW a \in Users, NEW p, NEW r \in Rshares, Vote(a, p, r) PROVE Moves(db, db', 0)
  <2> DEFINE c == db.comments[p]
             abs == IF r < 0 THEN -r ELSE r
             up == c.up + IF r > 0 THEN r ELSE 0
             earns == r > 0 /\ c.lastPayout = 0 /\ c.curation
             most == IF earns THEN Wrap(CurationCurve(up) - CurationCurve(c.up)) ELSE 0
             sum == Wrap(c.weight + most)
             part == Discounted(most, time - c.created)
             v == [c EXCEPT !.net = @ + r, !.abs = @ + abs, !.up = up, !.weight = sum]
             o == [rshares |-> r, changes |-> 0, weight |-> part]
             d == [db EXCEPT !.acct[a].lastVote = time, !.comments[p] = v,
                             !.votes = With(@, <<a, p>>, o)]
             s == db.acct[a]
             q == [s EXCEPT !.lastVote = time]
             u == [db.comments EXCEPT ![p] = v]
             w == With(db.votes, <<a, p>>, o)
  <2>1. p \in DOMAIN db.comments /\ db' = ProcessFunds(d, VoteRate) /\ a \in N
    BY <1>1 DEF Vote, MayVote, Users
  <2>2. CommentOK(p, c, N) /\ AccountOK(s) /\ r \in Int /\ VoteRate \in Int
    BY <1>0, <2>1, ContentAssumption DEF CommentTable, CommentOK, AccountTable, Names
  <2>3. c.net \in Int /\ c.up \in Int /\ c.weight \in Int /\ c.created \in Int
    BY <2>2 DEF CommentOK
  <2> HIDE DEF c
  <2>4. up \in Int
    BY <2>2, <2>3
  <2> HIDE DEF up
  <2>5. CurationCurve(up) \in Int /\ CurationCurve(c.up) \in Int
    BY <2>3, <2>4, CurveIsNumber
  <2>6. most \in Int
    <3> DEFINE y == CurationCurve(up) - CurationCurve(c.up)
    <3>1. y \in Int
      BY <2>5
    <3> HIDE DEF y, earns
    <3>2. Wrap(y) \in Int
      BY <3>1, WeightsAreNumbers
    <3> QED BY <3>2 DEF y
  <2> HIDE DEF most
  <2>7. sum \in Int /\ part \in Int
    <3>1. c.weight + most \in Int /\ time - c.created \in Int
      BY <1>0, <2>3, <2>6
    <3> QED BY <2>6, <3>1, WeightsAreNumbers
  <2> HIDE DEF sum, part
  <2>8. CommentOK(p, v, N) /\ VoteOK(<<a, p>>, o, N)
    BY <2>1, <2>2, <2>3, <2>4, <2>7 DEF CommentOK, VoteOK
  <2> HIDE DEF v, o
  <2>9. /\ d.acct = [db.acct EXCEPT ![a] = q] /\ Kept(db, d, {"acct", "comments", "votes"})
        /\ d.comments = u /\ d.votes = w
    BY <1>0 DEF Kept, MoneyTables, TableNames
  <2> HIDE DEF d
  <2>10. AccountOK(q) /\ SameVests(s, q) /\ Money(q) = Money(s)
    <3> HIDE DEF s
    <3> QED BY <2>2, AccountFields DEF AccountOK, SameVests, Money
  <2>11. CommentTable(u, N)
    <3>1. /\ DOMAIN u = DOMAIN db.comments
          /\ \A x \in DOMAIN u : u[x] = db.comments[x] \/ CommentOK(x, u[x], N)
      BY <2>8
    <3> HIDE DEF u
    <3> QED BY <1>0, <3>1, EntriesOK
  <2>12. VoteTable(w, N)
    <3> DEFINE k == <<a, p>>
    <3> HIDE DEF k
    <3>1. /\ DOMAIN w \subseteq DOMAIN db.votes \cup {k}
          /\ \A x \in DOMAIN w : (x \in DOMAIN db.votes /\ w[x] = db.votes[x]) \/ VoteOK(x, w[x], N)
      BY <2>8 DEF k, With
    <3> HIDE DEF w
    <3> QED BY <1>0, <3>1, EntriesOK
  <2> HIDE DEF u, w, q
  <2>13. Moves(db, d, 0)
    BY <1>0, <2>1, <2>9, <2>10, <2>11, <2>12, PostsMove
  <2>14. Amounted(d)
    BY <2>13 DEF Moves
  <2>15. Moves(d, db', 0)
    BY <2>1, <2>2, <2>14, FundsMove
  <2>16. Moves(db, db', 0 + 0)
    BY <1>0, <2>13, <2>15, MovesTwice
  <2> QED BY <2>16
<1>2. ASSUME NEW a \in Users, NEW p, NEW r \in Rshares, ChangeVote(a, p, r) PROVE Moves(db, db', 0)
  <2> DEFINE k == <<a, p>>
             o == db.votes[k]
             c == db.comments[p]
             abs == IF r < 0 THEN -r ELSE r
             sum == Wrap(c.weight - o.weight)
             v == [c EXCEPT !.net = @ - o.rshares + r, !.abs = @ + abs, !.weight = sum]
             n == [rshares |-> r, weight |-> 0, changes |-> o.changes + 1]
             s == db.acct[a]
             q == [s EXCEPT !.lastVote = time]
             u == [db.comments EXCEPT ![p] = v]
             w == [db.votes EXCEPT ![k] = n]
  <2>1. /\ p \in DOMAIN db.comments /\ a \in N /\ k \in DOMAIN db.votes
        /\ db' = [db EXCEPT !.acct[a].lastVote = time, !.comments[p] = v, !.votes[k] = n]
    BY <1>2 DEF ChangeVote, MayVote, Users
  <2>2. /\ CommentOK(p, c, N) /\ AccountOK(s) /\ r \in Int /\ VoteOK(k, o, N)
    BY <1>0, <2>1, ContentAssumption
    DEF CommentTable, CommentOK, AccountTable, Names, VoteTable, VoteOK
  <2>3. c.net \in Int /\ c.weight \in Int /\ o.weight \in Int /\ o.rshares \in Int
    BY <2>2 DEF CommentOK, VoteOK
  <2> HIDE DEF c, o
  <2>4. sum \in Int
    <3>1. c.weight - o.weight \in Int
      BY <2>3
    <3> QED BY <3>1, WeightsAreNumbers
  <2> HIDE DEF sum
  <2>5. CommentOK(p, v, N)
    BY <2>2, <2>3, <2>4 DEF CommentOK
  <2>6. VoteOK(k, n, N)
    BY <2>1, <2>2 DEF VoteOK
  <2> HIDE DEF v, n
  <2>7. /\ db'.acct = [db.acct EXCEPT ![a] = q] /\ Kept(db, db', {"acct", "comments", "votes"})
        /\ db'.comments = u /\ db'.votes = w
    BY <1>0, <2>1 DEF Kept, MoneyTables, TableNames
  <2>8. AccountOK(q) /\ SameVests(s, q) /\ Money(q) = Money(s)
    <3> HIDE DEF s
    <3> QED BY <2>2, AccountFields DEF AccountOK, SameVests, Money
  <2>9. CommentTable(u, N)
    <3>1. /\ DOMAIN u = DOMAIN db.comments
          /\ \A x \in DOMAIN u : u[x] = db.comments[x] \/ CommentOK(x, u[x], N)
      BY <2>5
    <3> HIDE DEF u
    <3> QED BY <1>0, <3>1, EntriesOK
  <2>10. VoteTable(w, N)
    <3> HIDE DEF k
    <3>1. /\ DOMAIN w = DOMAIN db.votes
          /\ \A x \in DOMAIN w : w[x] = db.votes[x] \/ VoteOK(x, w[x], N)
      BY <2>6
    <3> HIDE DEF w
    <3> QED BY <1>0, <3>1, EntriesOK
  <2> HIDE DEF u, w, q
  <2> QED BY <1>0, <2>1, <2>7, <2>8, <2>9, <2>10, PostsMove
<1> QED BY <1>1, <1>2 DEF VoteOperation

\* One account of the tables changes in something that is not an amount.
LEMMA OneAccountKept ==
  ASSUME NEW d, Amounted(d), NEW a \in Names(d), NEW s, AccountOK(s), SameVests(d.acct[a], s),
         Money(s) = Money(d.acct[a])
  PROVE  LET e == [d EXCEPT !.acct[a] = s] IN Moves(d, e, 0) /\ Names(e) = Names(d)
<1> DEFINE e == [d EXCEPT !.acct[a] = s]
<1>1. DOMAIN d = TableNames
  BY DEF Amounted
<1>2. Kept(d, e, {"acct"}) /\ e.acct = [d.acct EXCEPT ![a] = s]
  BY <1>1 DEF Kept, MoneyTables, TableNames
<1> HIDE DEF e
<1>3. Moves(d, e, 0) /\ Names(e) = Names(d)
  BY <1>2, NothingMoves
<1> QED BY <1>3 DEF e

\* Savings: payments into them, the schedule of withdrawals and the routes.
LEMMA SavingsBalances ==
  ASSUME Exact, SavingsOperation \/ RouteOperation PROVE Moves(db, db', 0)
<1> DEFINE N == Names(db)
<1>0. /\ Amounted(db) /\ DOMAIN db = TableNames /\ RouteTable(db.routes, N) /\ time \in Int
      /\ \A a \in N : AccountOK(db.acct[a])
  BY DEF Exact, Balanced, Amounted, AccountTable, Names
<1>1. ASSUME NEW from \in Users, NEW to \in Payees, NEW x \in Amounts, TransferToSavings(from, to, x)
      PROVE  Moves(db, db', 0)
  <2> DEFINE d == AdjustBalance(db, from, - x)
  <2>1. x \in Int /\ - x \in Int /\ from \in N /\ to \in N
    BY PaymentsAssumption DEF Users, Payees
  <2>2. Moves(db, d, - (- x)) /\ Names(d) = N
    BY <1>0, <2>1, AdjustMoves
  <2>3. db' = AdjustSavings(d, to, x)
    BY <1>1 DEF TransferToSavings
  <2> HIDE DEF d
  <2>4. Amounted(d)
    BY <2>2 DEF Moves
  <2>5. Moves(d, db', - x)
    BY <2>1, <2>2, <2>3, <2>4, AdjustMoves
  <2>6. Moves(db, db', - (- x) + - x)
    BY <1>0, <2>2, <2>5, MovesTwice
  <2>7. - (- x) + - x = 0
    BY <2>1
  <2> QED BY <2>6, <2>7
<1>2. ASSUME NEW a \in Users, NEW x \in Given, WithdrawSavings(a, x) PROVE Moves(db, db', 0)
  <2> DEFINE each == Quotient(x, Intervals)
             rate == IF each = 0 THEN 1 ELSE each
             s == db.acct[a]
             r == [s EXCEPT !.rate = rate, !.nextWithdrawal = time + IntervalTime,
                            !.toWithdraw = x, !.withdrawn = 0]
  <2>1. x \in Int /\ Intervals \in Nat \ {0} /\ IntervalTime \in Nat /\ a \in N /\ AccountOK(s)
    BY <1>0, PaymentsAssumption, GivenAreNumbers DEF Users
  <2>2. rate \in Int /\ rate # 0
    <3>1. each \in Int
      BY <2>1, QuotientIsNumber
    <3> HIDE DEF each
    <3> QED BY <3>1
  <2>3. db' = [db EXCEPT !.acct[a] = r]
    BY <1>2 DEF WithdrawSavings
  <2> HIDE DEF rate
  <2>4. AccountOK(r) /\ SameVests(s, r) /\ Money(r) = Money(s)
    <3> HIDE DEF s
    <3>1. time + IntervalTime \in Int
      BY <1>0, <2>1
    <3> QED BY <2>1, <2>2, <3>1, AccountFields DEF AccountOK, SameVests, Money
  <2> HIDE DEF r
  <2> QED BY <1>0, <2>1, <2>3, <2>4, OneAccountKept
<1>3. ASSUME NEW a \in Users, StopWithdrawal(a) PROVE Moves(db, db', 0)
  <2> DEFINE s == db.acct[a]
             r == [s EXCEPT !.rate = 0, !.nextWithdrawal = Never, !.toWithdraw = 0, !.withdrawn = 0]
  <2>1. a \in N /\ AccountOK(s)
    BY <1>0 DEF Users
  <2>2. db' = [db EXCEPT !.acct[a] = r]
    BY <1>3 DEF StopWithdrawal
  <2>3. Never \in Int
    BY HeadAssumption DEF Never
  <2>4. AccountOK(r) /\ SameVests(s, r) /\ Money(r) = Money(s)
    <3> HIDE DEF s
    <3> QED BY <2>1, <2>3, AccountFields DEF AccountOK, SameVests, Money
  <2> HIDE DEF r
  <2> QED BY <1>0, <2>1, <2>2, <2>4, OneAccountKept
<1>4. ASSUME NEW a \in Users, NEW b \in Users, NEW percent \in Percents, NEW v,
             SetWithdrawRoute(a, b, percent, v)
      PROVE  Moves(db, db', 0)
  <2> DEFINE k == <<a, b>>
             o == [percent |-> percent, autoVest |-> v]
             t == db.routes
             u == IF percent = 0 THEN Without(t, k) ELSE With(t, k, o)
  <2>1. db' = [db EXCEPT !.routes = u]
    BY <1>4 DEF SetWithdrawRoute
  <2>2. percent \in Int /\ b \in N
    BY PaymentsAssumption, GivenAreNumbers DEF Users
  <2>3. k[2] \in N /\ o.percent \in Int
    BY <2>2
  <2> HIDE DEF k, o, u
  <2>4. /\ DOMAIN u \subseteq DOMAIN t \cup {k}
        /\ \A x \in DOMAIN u : (x \in DOMAIN t /\ u[x] = t[x]) \/ (x[2] \in N /\ u[x].percent \in Int)
    <3>1. CASE percent = 0
      <4>1. u = Restrict(t, DOMAIN t \ {k})
        BY <3>1 DEF Without, u
      <4>2. DOMAIN u = DOMAIN t \ {k} /\ \A x \in DOMAIN t \ {k} : u[x] = t[x]
        BY <4>1, RestrictFacts
      <4> QED BY <4>2
    <3>2. CASE percent # 0
      <4>1. u = With(t, k, o)
        BY <3>2 DEF u
      <4>2. /\ DOMAIN u = DOMAIN t \cup {k} /\ u[k] = o
            /\ \A x \in DOMAIN t : x # k => u[x] = t[x]
        BY <4>1 DEF With
      <4> QED BY <2>3, <4>2
    <3> QED BY <3>1, <3>2
  <2>5. RouteTable(u, N)
    BY <1>0, <2>4, EntriesOK
  <2>6. Kept(db, db', {"routes"}) /\ db'.routes = u
    BY <1>0, <2>1 DEF Kept, MoneyTables, TableNames
  <2> QED BY <1>0, <2>5, <2>6, TableMoves
<1> QED BY <1>1, <1>2, <1>3, <1>4 DEF SavingsOperation, RouteOperation

\* Approval of witnesses and proxies: votes move, vests do not.
LEMMA VotingBalances ==
  ASSUME Exact, VotingOperation PROVE Moves(db, db', 0)
<1> DEFINE N == Names(db)
<1>0. /\ Amounted(db) /\ DOMAIN db = TableNames
      /\ \A a \in N : AccountOK(db.acct[a])
  BY DEF Exact, Balanced, Amounted, AccountTable, Names
<1>1. ASSUME NEW a \in Users, NEW p, SetProxy(a, p) PROVE Moves(db, db', 0)
  <2> DEFINE gone == AdjustProxiedWitnessVotes(db, a, VoteDeltas(db, a, -1))
             set == [ClearWitnessVotes(gone, a) EXCEPT !.acct[a].proxy = p]
             s == gone.acct[a]
             r == [s EXCEPT !.votesFor = {}, !.proxy = p]
  <2>1. db' = AdjustProxiedWitnessVotes(set, a, VoteDeltas(db, a, 1)) /\ a \in N
    BY <1>1 DEF SetProxy, Users
  <2>2. Moves(db, gone, 0) /\ Names(gone) = N
    BY <1>0, VotesMove
  <2> HIDE DEF gone
  <2>3. Amounted(gone) /\ DOMAIN gone = TableNames /\ AccountOK(s)
    BY <2>1, <2>2 DEF Moves, Amounted, AccountTable, Names
  <2>4. set = [gone EXCEPT !.acct[a] = r]
    BY <2>1, <2>2, <2>3, AccountFields DEF ClearWitnessVotes, TableNames, Names, AccountOK
  <2>5. AccountOK(r) /\ SameVests(s, r) /\ Money(r) = Money(s)
    <3> HIDE DEF s
    <3> QED BY <2>3, AccountFields DEF AccountOK, SameVests, Money
  <2> HIDE DEF r, set
  <2>6. Moves(gone, set, 0)
    BY <2>1, <2>2, <2>3, <2>4, <2>5, OneAccountKept
  <2>7. Amounted(set)
    BY <2>6 DEF Moves
  <2>8. Moves(set, db', 0)
    BY <2>1, <2>7, VotesMove
  <2>9. Moves(db, set, 0 + 0)
    BY <1>0, <2>2, <2>6, MovesTwice
  <2>10. Moves(db, db', 0 + 0)
    BY <1>0, <2>8, <2>9, MovesTwice
  <2> QED BY <2>10
<1>2. ASSUME NEW a \in Users, ClearProxy(a) PROVE Moves(db, db', 0)
  <2> DEFINE gone == AdjustProxiedWitnessVotes(db, a, VoteDeltas(db, a, -1))
             s == gone.acct[a]
             r == [s EXCEPT !.proxy = Self]
  <2>1. db' = [gone EXCEPT !.acct[a].proxy = Self] /\ a \in N
    BY <1>2 DEF ClearProxy, Users
  <2>2. Moves(db, gone, 0) /\ Names(gone) = N
    BY <1>0, VotesMove
  <2> HIDE DEF gone
  <2>3. Amounted(gone) /\ DOMAIN gone = TableNames /\ AccountOK(s)
    BY <2>1, <2>2 DEF Moves, Amounted, AccountTable, Names
  <2>4. db' = [gone EXCEPT !.acct[a] = r]
    BY <2>1
  <2>5. AccountOK(r) /\ SameVests(s, r) /\ Money(r) = Money(s)
    <3> HIDE DEF s
    <3> QED BY <2>3, AccountFields DEF AccountOK, SameVests, Money
  <2> HIDE DEF r
  <2>6. Moves(gone, db', 0)
    BY <2>1, <2>2, <2>3, <2>4, <2>5, OneAccountKept
  <2>7. Moves(db, db', 0 + 0)
    BY <1>0, <2>2, <2>6, MovesTwice
  <2> QED BY <2>7
<1>3. ASSUME NEW a \in Users, NEW w, NEW x, NEW V,
             db' = [AdjustWitnessVote(db, w, x) EXCEPT !.acct[a].votesFor = V]
      PROVE  Moves(db, db', 0)
  <2> DEFINE s == db.acct[a]
             r == [s EXCEPT !.votesFor = V]
  <2>1. a \in N /\ AccountOK(s)
    BY <1>0 DEF Users
  <2>2. Kept(db, db', {"acct"}) /\ db'.acct = [db.acct EXCEPT ![a] = r]
    BY <1>0, <1>3 DEF AdjustWitnessVote, Kept, MoneyTables, TableNames
  <2>3. AccountOK(r) /\ SameVests(s, r) /\ Money(r) = Money(s)
    <3> HIDE DEF s
    <3> QED BY <2>1, AccountFields DEF AccountOK, SameVests, Money
  <2> HIDE DEF r
  <2> QED BY <1>0, <2>1, <2>2, <2>3, NothingMoves
<1>4. ASSUME NEW a \in Users, NEW w, ApproveWitness(a, w) PROVE Moves(db, db', 0)
  <2> DEFINE x == WitnessVoteWeight(db, a)
             V == AdjustWitnessVote(db, w, x).acct[a].votesFor \cup {w}
  <2>1. db' = [AdjustWitnessVote(db, w, x) EXCEPT !.acct[a].votesFor = V]
    BY <1>4 DEF ApproveWitness
  <2> HIDE DEF x, V
  <2> QED BY <1>3, <2>1
<1>5. ASSUME NEW a \in Users, NEW w, WithdrawWitness(a, w) PROVE Moves(db, db', 0)
  <2> DEFINE x == - WitnessVoteWeight(db, a)
             V == AdjustWitnessVote(db, w, x).acct[a].votesFor \ {w}
  <2>1. db' = [AdjustWitnessVote(db, w, x) EXCEPT !.acct[a].votesFor = V]
    BY <1>5 DEF WithdrawWitness
  <2> HIDE DEF x, V
  <2> QED BY <1>3, <2>1
<1> QED BY <1>1, <1>2, <1>4, <1>5 DEF VotingOperation

\* A claim moves rewards to the balances and to the totals that go with them.
LEMMA ClaimBalances ==
  ASSUME Exact, NEW a \in Users, NEW bmt \in Int, NEW vests \in Int, vests >= 0,
         ClaimReward(a, bmt, vests)
  PROVE  Moves(db, db', 0)
<1> DEFINE s == db.acct[a]
           g == db.gpo
           moved == ClaimedBmt(s, vests)
           paid == AdjustBalance(AdjustReward(db, a, - bmt), a, bmt)
           d == [paid EXCEPT !.acct[a].vests = @ + vests, !.acct[a].rewardVests = @ - vests,
                             !.acct[a].rewardVestsBmt = @ - moved,
                             !.gpo.vestingShares = @ + vests, !.gpo.vestingFund = @ + moved,
                             !.gpo.pendingShares = @ - vests, !.gpo.pendingBmt = @ - moved]
           r == [s EXCEPT !.rewardBmt = @ - bmt, !.balance = @ + bmt, !.vests = @ + vests,
                          !.rewardVests = @ - vests, !.rewardVestsBmt = @ - moved]
           h == [g EXCEPT !.vestingShares = @ + vests, !.vestingFund = @ + moved,
                          !.pendingShares = @ - vests, !.pendingBmt = @ - moved]
<1>1. /\ Amounted(db) /\ DOMAIN db = TableNames /\ a \in Names(db) /\ AccountOK(s) /\ GpoOK(g)
  BY Gaps, SMTT(30) DEF Exact, Balanced, Amounted, AccountTable, Names, Users
<1>2. vests <= s.rewardVests /\ db' = AdjustOwnWitnessVotes(d, a, vests)
  BY DEF ClaimReward
<1>3. /\ s.balance \in Int /\ s.savings \in Int /\ s.vests \in Int /\ s.rewardBmt \in Int
      /\ s.rewardVests \in Int /\ s.rewardVestsBmt \in Int
  BY <1>1 DEF AccountOK
<1>4. moved \in Int
  <2> DEFINE x == s.rewardVests
             y == s.rewardVestsBmt
  <2> HIDE DEF x, y
  <2>1. x \in Int /\ y \in Int /\ vests <= x
    BY <1>2, <1>3 DEF x, y
  <2>2. moved = IF vests = x THEN y ELSE (vests * y) \div x
    BY DEF ClaimedBmt, x, y
  <2>3. vests # x => x > 0
    BY <2>1
  <2>4. vests * y \in Int
    BY <2>1
  <2> QED BY <2>1, <2>2, <2>3, <2>4
<1> HIDE DEF moved
<1>5. /\ g.vestingShares \in Int /\ g.vestingFund \in Int /\ g.pendingShares \in Int
      /\ g.pendingBmt \in Int /\ g.supply \in Int
      /\ {"vestingShares", "vestingFund", "pendingShares", "pendingBmt", "supply"} \subseteq DOMAIN g
  BY <1>1, SMTT(30) DEF GpoOK
<1>6. d.acct = [db.acct EXCEPT ![a] = r] /\ d.gpo = h /\ Kept(db, d, {"acct", "gpo"})
  <2>1. DOMAIN s = DOMAIN NewAccount
    BY <1>1 DEF AccountOK
  <2>2. /\ paid.acct = [db.acct EXCEPT ![a] = [s EXCEPT !.rewardBmt = @ - bmt, !.balance = @ + bmt]]
        /\ paid.gpo = g /\ DOMAIN paid = TableNames /\ Kept(db, paid, {"acct"})
    BY <1>1, <2>1, AccountFields
    DEF AdjustBalance, AdjustReward, TableNames, Names, Kept, MoneyTables
  <2> HIDE DEF paid
  <2>3. d.acct = [db.acct EXCEPT ![a] = r]
    BY <1>1, <2>1, <2>2, AccountFields DEF TableNames, Names
  <2>4. d.gpo = h
    BY <1>5, <2>2, Zenon DEF TableNames
  <2>5. Kept(db, d, {"acct", "gpo"})
    BY <2>2, Zenon DEF Kept, MoneyTables, TableNames
  <2> QED BY <2>3, <2>4, <2>5
<1> HIDE DEF d
<1>7. /\ AccountOK(r) /\ Money(r) = Money(s) /\ r.vests - s.vests = vests
      /\ r.rewardVests - s.rewardVests = - vests /\ r.rewardVestsBmt - s.rewardVestsBmt = - moved
  <2> HIDE DEF s
  <2> QED BY <1>1, <1>3, <1>4, AccountFields DEF AccountOK, Money
<1>8. /\ GpoOK(h) /\ h.supply = g.supply /\ h.vestingShares - g.vestingShares = vests
      /\ h.pendingShares - g.pendingShares = - vests /\ h.pendingBmt - g.pendingBmt = - moved
      /\ h.vestingFund - g.vestingFund = moved
  <2> HIDE DEF g
  <2> QED BY <1>1, <1>4, <1>5 DEF GpoOK
<1> HIDE DEF r, h
<1>9. 0 = (h.supply - g.supply) - (Money(r) - Money(s)) - (h.vestingFund - g.vestingFund)
            - (h.pendingBmt - g.pendingBmt)
  <2>1. Money(s) \in Int
    BY <1>3 DEF Money
  <2> QED BY <1>4, <1>5, <1>7, <1>8, <2>1
<1>10. Moves(db, d, 0)
  BY <1>1, <1>6, <1>7, <1>8, <1>9, OneAndTotals
<1>11. Amounted(d)
  BY <1>10 DEF Moves
<1>12. Moves(d, db', 0)
  BY <1>2, <1>11, VotesMove
<1>13. Moves(db, db', 0 + 0)
  BY <1>1, <1>10, <1>12, MovesTwice
<1> QED BY <1>13

\* Requests to give up the right to vote, and claims.
LEMMA RightsBalances ==
  ASSUME Exact, RightsOperation PROVE Moves(db, db', 0)
<1>0. Amounted(db) /\ DOMAIN db = TableNames /\ \A a \in Names(db) : AccountOK(db.acct[a])
  BY DEF Exact, Balanced, Amounted, AccountTable, Names
<1>1. ASSUME NEW t, db' = [db EXCEPT !.declines = t] PROVE Moves(db, db', 0)
  <2>1. Kept(db, db', {})
    BY <1>0, <1>1 DEF Kept, MoneyTables, TableNames
  <2> QED BY <1>0, <2>1, TableMoves
<1>2. ASSUME NEW a \in Users, DeclineVotingRights(a) PROVE Moves(db, db', 0)
  BY <1>1, <1>2 DEF DeclineVotingRights
<1>3. ASSUME NEW a \in Users, CancelDecline(a) PROVE Moves(db, db', 0)
  BY <1>1, <1>3 DEF CancelDecline
<1>4. ASSUME NEW a \in Users, NEW bmt \in 0 .. db.acct[a].rewardBmt,
             NEW vests \in 0 .. db.acct[a].rewardVests, ClaimReward(a, bmt, vests)
      PROVE  Moves(db, db', 0)
  <2>1. bmt \in Int /\ vests \in Int /\ vests >= 0
    BY <1>0 DEF AccountOK, Users
  <2> QED BY <1>4, <2>1, ClaimBalances
<1> QED BY <1>2, <1>3, <1>4 DEF RightsOperation

\* A sum with one more element that adds nothing.
LEMMA SumWithNothing ==
  ASSUME NEW D, IsFiniteSet(D), NEW k, k \notin D, NEW f, NEW g, g[k] = 0,
         \A x \in D : f[x] \in Int, \A x \in D : g[x] = f[x]
  PROVE  SumFunctionOnSet(g, D \cup {k}) = SumFunctionOnSet(f, D)
<1> DEFINE E == D \cup {k}
<1>1. IsFiniteSet(E)
  BY FS_AddElement
<1>2. SumFunctionOnSet(g, D) = SumFunctionOnSet(f, D)
  BY SumsAgree
<1>3. /\ \A x \in E : g[x] \in Int
      /\ E \in SUBSET E /\ k \in E /\ E \ {k} = D
  OBVIOUS
<1> HIDE DEF E
<1>4. SumFunctionOnSet(g, E) = g[k] + SumFunctionOnSet(g, E \ {k})
  BY <1>1, <1>3, SumFacts
<1>5. SumFunctionOnSet(f, D) \in Int
  BY SumFacts
<1>6. SumFunctionOnSet(g, E) = SumFunctionOnSet(f, D)
  <2>1. SumFunctionOnSet(g, E \ {k}) = SumFunctionOnSet(f, D)
    BY <1>2, <1>3
  <2> QED BY <1>4, <1>5, <2>1
<1> QED BY <1>6 DEF E

\* An account without anything is new.
LEMMA NewAccountMoves ==
  ASSUME NEW d, Amounted(d), NEW e, Kept(d, e, {"acct"}), NEW name, name \notin Names(d), NEW s,
         e.acct = With(d.acct, name, s), AccountOK(s), Money(s) = 0,
         s.vests = 0, s.rewardVests = 0, s.rewardVestsBmt = 0
  PROVE  Moves(d, e, 0) /\ Names(e) = Names(d) \cup {name}
<1> DEFINE t == d.acct
           u == e.acct
           D == DOMAIN t
<1>0. IsFiniteSet(D) /\ name \notin D
  BY DEF Amounted, AccountTable, Names
<1>1. AccountTable(t) /\ IsFiniteSet(D) /\ name \notin D
  BY DEF Amounted, AccountTable, Names
<1>2. DOMAIN u = D \cup {name} /\ u[name] = s /\ \A a \in D : u[a] = t[a]
  BY <1>1 DEF With
<1>3. IsFiniteSet(D \cup {name})
  BY <1>1, FS_AddElement
<1> HIDE DEF t, u, D
<1>4. AccountTable(u)
  BY <1>1, <1>2, <1>3 DEF AccountTable, D
<1>5. Coins(u) = Coins(t)
  <2> DEFINE f == [a \in D |-> t[a].balance + t[a].savings + t[a].rewardBmt]
             g == [a \in D \cup {name} |-> u[a].balance + u[a].savings + u[a].rewardBmt]
  <2>1. \A a \in D : f[a] \in Int /\ g[a] = f[a]
    BY <1>1, <1>2 DEF AccountTable, AccountOK, D
  <2>2. g[name] = 0
    BY <1>2 DEF Money
  <2>3. Coins(t) = SumFunctionOnSet(f, D) /\ Coins(u) = SumFunctionOnSet(g, D \cup {name})
    BY <1>2 DEF Coins, SumFunction, D
  <2> HIDE DEF f, g
  <2>4. SumFunctionOnSet(g, D \cup {name}) = SumFunctionOnSet(f, D)
    <3>1. \A a \in D : f[a] \in Int
      BY <2>1
    <3>2. \A a \in D : g[a] = f[a]
      BY <2>1
    <3> QED BY <1>0, <2>2, <3>1, <3>2, SumWithNothing
  <2> QED BY <2>3, <2>4
<1>6. Vests(u) = Vests(t)
  <2> DEFINE f == [a \in D |-> t[a].vests]
             g == [a \in D \cup {name} |-> u[a].vests]
  <2>1. \A a \in D : f[a] \in Int /\ g[a] = f[a]
    BY <1>1, <1>2 DEF AccountTable, AccountOK, D
  <2>2. g[name] = 0
    BY <1>2
  <2>3. Vests(t) = SumFunctionOnSet(f, D) /\ Vests(u) = SumFunctionOnSet(g, D \cup {name})
    BY <1>2 DEF Vests, SumFunction, D
  <2> HIDE DEF f, g
  <2>4. SumFunctionOnSet(g, D \cup {name}) = SumFunctionOnSet(f, D)
    <3>1. \A a \in D : f[a] \in Int
      BY <2>1
    <3>2. \A a \in D : g[a] = f[a]
      BY <2>1
    <3> QED BY <1>0, <2>2, <3>1, <3>2, SumWithNothing
  <2> QED BY <2>3, <2>4
<1>7. Unclaimed(u) = Unclaimed(t)
  <2> DEFINE f == [a \in D |-> t[a].rewardVests]
             g == [a \in D \cup {name} |-> u[a].rewardVests]
  <2>1. \A a \in D : f[a] \in Int /\ g[a] = f[a]
    BY <1>1, <1>2 DEF AccountTable, AccountOK, D
  <2>2. g[name] = 0
    BY <1>2
  <2>3. Unclaimed(t) = SumFunctionOnSet(f, D) /\ Unclaimed(u) = SumFunctionOnSet(g, D \cup {name})
    BY <1>2 DEF Unclaimed, SumFunction, D
  <2> HIDE DEF f, g
  <2>4. SumFunctionOnSet(g, D \cup {name}) = SumFunctionOnSet(f, D)
    <3>1. \A a \in D : f[a] \in Int
      BY <2>1
    <3>2. \A a \in D : g[a] = f[a]
      BY <2>1
    <3> QED BY <1>0, <2>2, <3>1, <3>2, SumWithNothing
  <2> QED BY <2>3, <2>4
<1>8. Promised(u) = Promised(t)
  <2> DEFINE f == [a \in D |-> t[a].rewardVestsBmt]
             g == [a \in D \cup {name} |-> u[a].rewardVestsBmt]
  <2>1. \A a \in D : f[a] \in Int /\ g[a] = f[a]
    BY <1>1, <1>2 DEF AccountTable, AccountOK, D
  <2>2. g[name] = 0
    BY <1>2
  <2>3. Promised(t) = SumFunctionOnSet(f, D) /\ Promised(u) = SumFunctionOnSet(g, D \cup {name})
    BY <1>2 DEF Promised, SumFunction, D
  <2> HIDE DEF f, g
  <2>4. SumFunctionOnSet(g, D \cup {name}) = SumFunctionOnSet(f, D)
    <3>1. \A a \in D : f[a] \in Int
      BY <2>1
    <3>2. \A a \in D : g[a] = f[a]
      BY <2>1
    <3> QED BY <1>0, <2>2, <3>1, <3>2, SumWithNothing
  <2> QED BY <2>3, <2>4
<1>9. Names(e) = Names(d) \cup {name}
  BY <1>2 DEF Names, D, t, u
<1>10. Coins(t) \in Int
  BY <1>1, AccountSums
<1>11. Moves(d, e, Coins(d.acct) - Coins(e.acct))
  BY <1>4, <1>6, <1>7, <1>8, <1>9, AccountsMove DEF t, u
<1>12. Coins(d.acct) - Coins(e.acct) = 0
  BY <1>5, <1>10 DEF t, u
<1> QED BY <1>9, <1>11, <1>12

\* The fields of an account that say nothing about what it holds.
Beside == {"id", "delegated", "received", "proxy", "proxied", "canVote", "votesFor",
           "lastRootPost", "lastPost", "lastVote"}

\* Two states of an account that differ in nothing else.
Alike(s, r) == DOMAIN r = DOMAIN s /\ \A f \in DOMAIN s \ Beside : r[f] = s[f]

\* They hold the same.
LEMMA AlikeHold ==
  ASSUME NEW s, AccountOK(s), NEW r, Alike(s, r)
  PROVE  AccountOK(r) /\ SameVests(s, r) /\ Money(r) = Money(s)
<1>1. \A f \in {"balance", "savings", "vests", "rewardBmt", "rewardVests", "rewardVestsBmt", "rate",
                "nextWithdrawal", "toWithdraw", "withdrawn"} : r[f] = s[f]
  BY AccountFields DEF AccountOK, Alike, Beside
<1>2. DOMAIN r = DOMAIN NewAccount
  BY DEF AccountOK, Alike
<1> QED BY <1>1, <1>2 DEF AccountOK, SameVests, Money

\* So do tables of accounts.
LEMMA AlikeMoves ==
  ASSUME NEW d, Amounted(d), NEW e, Kept(d, e, {"acct"}), DOMAIN e.acct = Names(d),
         \A b \in Names(d) : Alike(d.acct[b], e.acct[b])
  PROVE  Moves(d, e, 0) /\ Names(e) = Names(d)
<1>1. \A a \in Names(d) : AccountOK(d.acct[a])
  BY DEF Amounted, AccountTable, Names
<1>2. \A b \in Names(d) : /\ AccountOK(e.acct[b]) /\ SameVests(d.acct[b], e.acct[b])
                          /\ Money(e.acct[b]) = Money(d.acct[b])
  BY <1>1, AlikeHold
<1> QED BY <1>2, NoneMoves

\* A new account holds nothing.
LEMMA CreatedHoldsNothing ==
  /\ AccountOK(Created) /\ Money(Created) = 0 /\ DOMAIN Created = DOMAIN NewAccount
  /\ Created.vests = 0 /\ Created.rewardVests = 0 /\ Created.rewardVestsBmt = 0
<1> DEFINE m == NewAccount
           i == Cardinality(Names(db))
           s == Created
<1>1. s = [m EXCEPT !.id = i, !.lastVote = time] /\ AccountOK(m) /\ Money(m) = 0
  BY AccountFields DEF Created
<1>2. m.vests = 0 /\ m.rewardVests = 0 /\ m.rewardVestsBmt = 0 /\ DOMAIN m = DOMAIN NewAccount
  BY AccountFields
<1> HIDE DEF m, i, s
<1>3. Alike(m, s)
  BY <1>1, <1>2, AccountFields DEF Alike, Beside
<1>4. AccountOK(s) /\ SameVests(m, s) /\ Money(s) = Money(m)
  BY <1>1, <1>3, AlikeHold
<1>5. /\ AccountOK(s) /\ Money(s) = 0 /\ s.vests = 0 /\ s.rewardVests = 0 /\ s.rewardVestsBmt = 0
      /\ DOMAIN s = DOMAIN NewAccount
  BY <1>1, <1>2, <1>3, <1>4 DEF SameVests, Alike
<1> QED BY <1>5 DEF s

\* A new account pays its fee to the reward fund.
LEMMA AccountCreateBalances ==
  ASSUME Exact, NEW a \in Users, NEW n, NEW fee \in Amounts, AccountCreate(a, n, fee)
  PROVE  Moves(db, db', 0)
<1> DEFINE N == Names(db)
           y == - fee
           c == AdjustBalance(db, a, y)
           s == Created
           f == [c.fund EXCEPT !.balance = @ + fee]
           b == [c EXCEPT !.fund = f]
           d == [c EXCEPT !.acct = With(@, n, s), !.fund.balance = @ + fee]
<1>1. /\ Amounted(db) /\ DOMAIN db = TableNames /\ a \in N /\ fee \in Int /\ y \in Int
      /\ FundOK(db.fund) /\ UserRate \in Int
  BY Gaps, PaymentsAssumption, StakeAssumption DEF Exact, Balanced, Amounted, Users
<1>2. n \notin N /\ db' = ProcessFunds(d, UserRate)
  BY DEF AccountCreate
<1>3. /\ AccountOK(s) /\ Money(s) = 0 /\ s.vests = 0 /\ s.rewardVests = 0 /\ s.rewardVestsBmt = 0
  BY CreatedHoldsNothing
<1> HIDE DEF s
<1>4. FundOK(f) /\ f.balance = db.fund.balance - y /\ c.fund = db.fund
  <2>1. c.fund = db.fund
    BY <1>1, PaidFrom
  <2> DEFINE g == db.fund
  <2>2. f = [g EXCEPT !.balance = @ + fee]
    BY <2>1
  <2> HIDE DEF g, f, c
  <2>3. FundOK(f) /\ f.balance = g.balance - y
    BY <1>1, <2>2 DEF FundOK, g
  <2> QED BY <2>1, <2>3 DEF g
<1> HIDE DEF y, f
<1>5. /\ DOMAIN c = TableNames
      /\ \A t : FundOK(t) /\ t.balance = db.fund.balance - y => Moves(db, [c EXCEPT !.fund = t], 0)
  BY <1>1, PaidFrom
<1>6. Names(c) = N
  BY <1>1, AdjustMoves
<1> HIDE DEF c
<1>7. Moves(db, b, 0)
  BY <1>4, <1>5
<1>8. Kept(b, d, {"acct"}) /\ d.acct = With(b.acct, n, s) /\ Names(b) = N
  BY <1>5, <1>6 DEF Kept, MoneyTables, TableNames, Names, f
<1> HIDE DEF b, d
<1>9. Amounted(b)
  BY <1>7 DEF Moves
<1>10. Moves(b, d, 0)
  BY <1>2, <1>3, <1>8, <1>9, NewAccountMoves
<1>11. Amounted(d)
  BY <1>10 DEF Moves
<1>12. Moves(d, db', 0)
  BY <1>1, <1>2, <1>11, FundsMove
<1>13. Moves(db, d, 0 + 0)
  BY <1>1, <1>7, <1>10, MovesTwice
<1>14. Moves(db, db', 0 + 0)
  BY <1>1, <1>12, <1>13, MovesTwice
<1> QED BY <1>14

\* A new account with a delegation gets its fee as vests.
LEMMA CreateWithDelegationBalances ==
  ASSUME Exact, NEW a \in Users, NEW n, NEW fee \in Amounts, NEW x,
         AccountCreateWithDelegation(a, n, fee, x)
  PROVE  Moves(db, db', 0)
<1> DEFINE N == Names(db)
           y == - fee
           c == AdjustBalance(db, a, y)
           v == [Created EXCEPT !.received = x]
           D == IF x = 0 THEN c.delegations
                ELSE With(c.delegations, <<a, n>>, [shares |-> x, since |-> time + DelegationTime])
           d == [c EXCEPT !.acct = With([c.acct EXCEPT ![a].delegated = @ + x], n, v),
                          !.delegations = D]
           s == c.acct[a]
           r == [s EXCEPT !.delegated = @ + x]
           b == [c EXCEPT !.acct[a] = r]
<1>1. /\ Amounted(db) /\ DOMAIN db = TableNames /\ a \in N /\ fee \in Int /\ y \in Int
      /\ CreationFee \in Int
  BY PaymentsAssumption, StakeAssumption DEF Exact, Balanced, Amounted, Users
<1>2. /\ n \notin N /\ fee >= CreationFee
      /\ db' = IF fee > 0 THEN CreateVesting(d, n, fee) ELSE d
  BY DEF AccountCreateWithDelegation
<1>3. fee >= 0
  <2>1. Priced
    BY DEF AccountCreateWithDelegation
  <2>2. CreationFee >= 0
    BY <2>1 DEF Priced, Converts, Fits
  <2> QED BY <1>1, <1>2, <2>2
<1>4. /\ AccountOK(v) /\ Money(v) = 0 /\ v.vests = 0 /\ v.rewardVests = 0 /\ v.rewardVestsBmt = 0
  <2> DEFINE w == Created
  <2>1. v = [w EXCEPT !.received = x]
    OBVIOUS
  <2>2. /\ AccountOK(w) /\ Money(w) = 0 /\ w.vests = 0 /\ w.rewardVests = 0 /\ w.rewardVestsBmt = 0
        /\ DOMAIN w = DOMAIN NewAccount
    BY CreatedHoldsNothing
  <2> HIDE DEF w, v
  <2>3. Alike(w, v)
    BY <2>1, <2>2, AccountFields DEF Alike, Beside
  <2>4. AccountOK(v) /\ SameVests(w, v) /\ Money(v) = Money(w)
    BY <2>2, <2>3, AlikeHold
  <2> QED BY <2>2, <2>4 DEF SameVests
<1> HIDE DEF v
<1>5. Moves(db, c, - y) /\ Names(c) = N
  BY <1>1, AdjustMoves
<1> HIDE DEF y, c, D
<1>6. Amounted(c) /\ DOMAIN c = TableNames /\ AccountOK(s)
  BY <1>1, <1>5 DEF Moves, Amounted, AccountTable, Names
<1>7. AccountOK(r) /\ SameVests(s, r) /\ Money(r) = Money(s)
  <2> HIDE DEF s
  <2> QED BY <1>6, AccountFields DEF AccountOK, SameVests, Money
<1>8. Kept(b, d, {"acct"}) /\ d.acct = With(b.acct, n, v)
  <2>1. d.acct = With([c.acct EXCEPT ![a].delegated = @ + x], n, v)
    BY <1>6 DEF TableNames
  <2>2. b.acct = [c.acct EXCEPT ![a].delegated = @ + x]
    BY <1>6 DEF TableNames
  <2>3. Kept(b, d, {"acct"})
    BY <1>6 DEF Kept, MoneyTables, TableNames
  <2> HIDE DEF d, b
  <2> QED BY <2>1, <2>2, <2>3
<1> HIDE DEF r, d
<1>10. Moves(c, b, 0) /\ Names(b) = N
  BY <1>1, <1>5, <1>6, <1>7, OneAccountKept
<1> HIDE DEF b
<1>11. Amounted(b)
  BY <1>10 DEF Moves
<1>12. Moves(b, d, 0) /\ Names(d) = N \cup {n}
  BY <1>2, <1>4, <1>8, <1>10, <1>11, NewAccountMoves
<1>13. Moves(db, b, - y + 0)
  BY <1>1, <1>5, <1>10, MovesTwice
<1>14. Moves(db, d, - y + 0 + 0)
  BY <1>1, <1>12, <1>13, MovesTwice
<1>15. CASE fee > 0
  <2>1. db' = CreateVesting(d, n, fee)
    BY <1>2, <1>15
  <2>2. Amounted(d) /\ n \in Names(d)
    BY <1>12 DEF Moves
  <2>3. Moves(d, db', - fee)
    BY <1>1, <2>1, <2>2, VestingMoves
  <2>4. Moves(db, db', - y + 0 + 0 + - fee)
    BY <1>1, <1>14, <2>3, MovesTwice
  <2>5. - y + 0 + 0 + - fee = 0
    BY <1>1 DEF y
  <2> QED BY <2>4, <2>5
<1>16. CASE ~ (fee > 0)
  <2>1. fee = 0 /\ db' = d
    BY <1>1, <1>2, <1>3, <1>16
  <2>2. - y + 0 + 0 = fee
    BY <1>1 DEF y
  <2>3. - y + 0 + 0 = 0
    BY <2>1, <2>2
  <2> QED BY <1>14, <2>1, <2>3
<1> QED BY <1>15, <1>16

\* Delegations, and new accounts.
LEMMA DelegationBalances ==
  ASSUME Exact, DelegationOperation PROVE Moves(db, db', 0)
<1> DEFINE N == Names(db)
<1>0. /\ Amounted(db) /\ DOMAIN db = TableNames
      /\ \A a \in N : AccountOK(db.acct[a]) /\ DOMAIN db.acct[a] = DOMAIN NewAccount
  BY DEF Exact, Balanced, Amounted, AccountTable, Names, AccountOK
<1>1. ASSUME NEW a \in Users, NEW b \in Users, NEW x, NewDelegation(a, b, x) PROVE Moves(db, db', 0)
  <2> DEFINE o == [shares |-> x, since |-> time]
  <2>1. /\ a # b /\ a \in N /\ b \in N
        /\ db' = [db EXCEPT !.delegations = With(@, <<a, b>>, o),
                            !.acct[a].delegated = @ + x, !.acct[b].received = @ + x]
    BY <1>1 DEF NewDelegation, Users
  <2> HIDE DEF o
  <2>2. Kept(db, db', {"acct"}) /\ DOMAIN db'.acct = N
    BY <1>0, <2>1 DEF Kept, MoneyTables, TableNames, Names
  <2>3. ASSUME NEW q \in N PROVE Alike(db.acct[q], db'.acct[q])
    BY <1>0, <2>1, AccountFields DEF TableNames, Names, Alike, Beside
  <2> QED BY <1>0, <2>2, <2>3, AlikeMoves
<1>2. ASSUME NEW a \in Users, NEW b \in Users, NEW x, IncreaseDelegation(a, b, x)
      PROVE  Moves(db, db', 0)
  <2> DEFINE k == <<a, b>>
             y == x - db.delegations[k].shares
  <2>1. /\ a \in N /\ b \in N
        /\ db' = [db EXCEPT !.delegations[k].shares = x,
                            !.acct[a].delegated = @ + y, !.acct[b].received = @ + y]
    BY <1>2 DEF IncreaseDelegation, Users
  <2> HIDE DEF k, y
  <2>2. Kept(db, db', {"acct"}) /\ DOMAIN db'.acct = N
    BY <1>0, <2>1 DEF Kept, MoneyTables, TableNames, Names
  <2>3. ASSUME NEW q \in N PROVE Alike(db.acct[q], db'.acct[q])
    BY <1>0, <2>1, AccountFields DEF TableNames, Names, Alike, Beside
  <2> QED BY <1>0, <2>2, <2>3, AlikeMoves
<1>3. ASSUME NEW a \in Users, NEW b \in Users, NEW x, DecreaseDelegation(a, b, x)
      PROVE  Moves(db, db', 0)
  <2> DEFINE k == <<a, b>>
             old == db.delegations[k]
             y == old.shares - x
             o == [from |-> a, shares |-> y, at |-> Max({time + ReturnTime, old.since})]
             D == IF x > 0 THEN [db.delegations EXCEPT ![k].shares = x]
                  ELSE Restrict(db.delegations, DOMAIN db.delegations \ {k})
  <2>1. /\ b \in N
        /\ db' = [db EXCEPT !.expiring = Append(@, o), !.acct[b].received = @ - y, !.delegations = D]
    BY <1>3 DEF DecreaseDelegation, Users
  <2> HIDE DEF k, y, o, D
  <2>2. Kept(db, db', {"acct"}) /\ DOMAIN db'.acct = N
    BY <1>0, <2>1 DEF Kept, MoneyTables, TableNames, Names
  <2>3. ASSUME NEW q \in N PROVE Alike(db.acct[q], db'.acct[q])
    BY <1>0, <2>1, AccountFields DEF TableNames, Names, Alike, Beside
  <2> QED BY <1>0, <2>2, <2>3, AlikeMoves
<1> QED BY <1>1, <1>2, <1>3, AccountCreateBalances, CreateWithDelegationBalances
        DEF DelegationOperation

-----------------------------------------------------------------------------
\* The work at the end of a block.

\* clear_expired_orders(): every order past its time is paid back.
LEMMA ExpiredOrdersMove ==
  ASSUME NEW d, Amounted(d), NEW now
  PROVE  LET e == ClearExpiredOrders(d, now) IN Moves(d, e, 0) /\ Names(e) = Names(d)
<1> DEFINE t == d.orders
           N == Names(d)
           due == {k \in DOMAIN t : t[k].expire < now}
           who == [k \in due |-> k[1]]
           x == [k \in due |-> t[k].forSale]
           c == PayEach(d, who, x)
           u == Restrict(t, DOMAIN t \ due)
           e == ClearExpiredOrders(d, now)
           sum == SumFunctionOnSet(x, due)
<1>1. OrderTable(t, N) /\ OnSale(t) \in Int
  BY Gaps DEF Amounted
<1>2. due \in SUBSET DOMAIN t /\ IsFiniteSet(due)
  BY <1>1, FS_Subset DEF OrderTable
<1>3. \A k \in due : who[k] \in N /\ x[k] \in Int /\ x[k] = t[k].forSale
  BY <1>1 DEF OrderTable
<1>4. DOMAIN x = due
  OBVIOUS
<1>5. e = [c EXCEPT !.orders = Restrict(@, DOMAIN @ \ due)]
  BY DEF ClearExpiredOrders
<1> HIDE DEF who, x, due, e
<1>6. Moves(d, c, - sum) /\ Names(c) = N /\ Kept(d, c, {"acct"})
  BY <1>2, <1>3, <1>4, PayEachMoves
<1>7. OrderTable(u, N) /\ sum \in Int /\ OnSale(u) = OnSale(t) - sum
  BY <1>1, <1>2, <1>3, OrderSums
<1> HIDE DEF c, sum
<1>8. DOMAIN c = TableNames /\ c.orders = t /\ Amounted(c)
  BY <1>6 DEF Kept, MoneyTables, Moves
<1>9. Kept(c, e, {"orders"}) /\ e.orders = u /\ e.acct = c.acct
  BY <1>5, <1>8 DEF Kept, MoneyTables, TableNames
<1> HIDE DEF u
<1>10. Moves(c, e, OnSale(c.orders) - OnSale(e.orders))
  BY <1>6, <1>7, <1>8, <1>9, TableMoves
<1>11. OnSale(c.orders) - OnSale(e.orders) = sum
  BY <1>1, <1>7, <1>8, <1>9
<1>12. Moves(d, e, - sum + sum)
  BY <1>6, <1>10, <1>11, MovesTwice
<1>13. - sum + sum = 0
  BY <1>7
<1>14. Names(e) = Names(d)
  BY <1>6, <1>9 DEF Names
<1> QED BY <1>12, <1>13, <1>14 DEF e

\* expire_escrow_ratification(): so is every escrow that is not approved in time.
LEMMA ExpiredEscrowsMove ==
  ASSUME NEW d, Amounted(d), NEW now
  PROVE  LET e == ExpireEscrowRatification(d, now) IN Moves(d, e, 0) /\ Names(e) = Names(d)
<1> DEFINE t == d.escrows
           N == Names(d)
           due == {k \in DOMAIN t : ~Approved(t[k]) /\ t[k].ratify <= now}
           who == [k \in due |-> k[1]]
           x == [k \in due |-> t[k].balance + t[k].fee]
           c == PayEach(d, who, x)
           u == Restrict(t, DOMAIN t \ due)
           e == ExpireEscrowRatification(d, now)
           sum == SumFunctionOnSet(x, due)
<1>1. EscrowTable(t, N) /\ InEscrow(t) \in Int
  BY Gaps DEF Amounted
<1>2. due \in SUBSET DOMAIN t /\ IsFiniteSet(due)
  BY <1>1, FS_Subset DEF EscrowTable
<1>3. \A k \in due : who[k] \in N /\ x[k] \in Int /\ x[k] = t[k].balance + t[k].fee
  BY <1>1 DEF EscrowTable
<1>4. DOMAIN x = due
  OBVIOUS
<1>5. e = [c EXCEPT !.escrows = Restrict(@, DOMAIN @ \ due)]
  BY DEF ExpireEscrowRatification
<1> HIDE DEF who, x, due, e
<1>6. Moves(d, c, - sum) /\ Names(c) = N /\ Kept(d, c, {"acct"})
  BY <1>2, <1>3, <1>4, PayEachMoves
<1>7. EscrowTable(u, N) /\ sum \in Int /\ InEscrow(u) = InEscrow(t) - sum
  <2>1. \A S \in SUBSET DOMAIN t : \A h : (\A o \in S : h[o] = t[o].balance + t[o].fee) =>
           /\ EscrowTable(Restrict(t, DOMAIN t \ S), N) /\ SumFunctionOnSet(h, S) \in Int
           /\ InEscrow(Restrict(t, DOMAIN t \ S)) = InEscrow(t) - SumFunctionOnSet(h, S)
    <3> HIDE DEF t, N
    <3> QED BY <1>1, EscrowSums, Zenon
  <2>2. \A o \in due : x[o] = t[o].balance + t[o].fee
    BY <1>3
  <2> HIDE DEF t
  <2> QED BY <1>2, <2>1, <2>2
<1> HIDE DEF c, sum
<1>8. DOMAIN c = TableNames /\ c.escrows = t /\ Amounted(c)
  BY <1>6 DEF Kept, MoneyTables, Moves
<1>9. Kept(c, e, {"escrows"}) /\ e.escrows = u /\ e.acct = c.acct
  BY <1>5, <1>8 DEF Kept, MoneyTables, TableNames
<1> HIDE DEF u
<1>10. Moves(c, e, InEscrow(c.escrows) - InEscrow(e.escrows))
  BY <1>6, <1>7, <1>8, <1>9, TableMoves
<1>11. InEscrow(c.escrows) - InEscrow(e.escrows) = sum
  BY <1>1, <1>7, <1>8, <1>9
<1>12. Moves(d, e, - sum + sum)
  BY <1>6, <1>10, <1>11, MovesTwice
<1>13. - sum + sum = 0
  BY <1>7
<1>14. Names(e) = Names(d)
  BY <1>6, <1>9 DEF Names
<1> QED BY <1>12, <1>13, <1>14 DEF e

\* clear_expired_delegations(): vests come back to who never lost them.
LEMMA ExpiredDelegationsMove ==
  ASSUME NEW d, Amounted(d), NEW now
  PROVE  LET e == ClearExpiredDelegations(d, now) IN Moves(d, e, 0) /\ Names(e) = Names(d)
<1> DEFINE N == Names(d)
           due == {i \in DOMAIN d.expiring : d.expiring[i].at < now}
           back(a) == SharesOf(d.expiring, {i \in due : d.expiring[i].from = a})
           t == [a \in N |-> [d.acct[a] EXCEPT !.delegated = @ - back(a)]]
           e == ClearExpiredDelegations(d, now)
<1>1. DOMAIN d = TableNames /\ \A a \in N : DOMAIN d.acct[a] = DOMAIN NewAccount
  BY DEF Amounted, AccountTable, AccountOK, Names
<1>2. e = [d EXCEPT !.expiring = StillExpiring(d, now), !.acct = t]
  BY DEF ClearExpiredDelegations
<1> HIDE DEF back, e
<1>3. Kept(d, e, {"acct"}) /\ e.acct = t
  BY <1>1, <1>2 DEF Kept, MoneyTables, TableNames
<1>4. DOMAIN e.acct = N
  BY <1>3
<1>5. ASSUME NEW a \in N PROVE Alike(d.acct[a], e.acct[a])
  <2> DEFINE s == d.acct[a]
  <2>1. e.acct[a] = [s EXCEPT !.delegated = @ - back(a)] /\ DOMAIN s = DOMAIN NewAccount
    BY <1>1, <1>3
  <2> HIDE DEF s
  <2>2. Alike(s, e.acct[a])
    BY <2>1, AccountFields DEF Alike, Beside
  <2> QED BY <2>2 DEF s
<1>6. Moves(d, e, 0) /\ Names(e) = Names(d)
  BY <1>3, <1>4, <1>5, AlikeMoves
<1> QED BY <1>6 DEF e

\* process_decline_voting_rights() ends votes.
LEMMA DeclinesMove ==
  ASSUME NEW d, Amounted(d), NEW now
  PROVE  LET e == ProcessDeclineVotingRights(d, now) IN Moves(d, e, 0) /\ Names(e) = Names(d)
<1> DEFINE N == Names(d)
           due == {a \in DOMAIN d.declines : d.declines[a] <= now}
           ended == VotingRightsEnded(d, due)
           t == [a \in N |-> WithVotes(d.acct[a], ended.acct[a])]
           e == ProcessDeclineVotingRights(d, now)
<1>1. DOMAIN d = TableNames /\ \A a \in N : DOMAIN d.acct[a] = DOMAIN NewAccount
  BY DEF Amounted, AccountTable, AccountOK, Names
<1>2. e = [d EXCEPT !.acct = t, !.tally = ended.tally, !.ok = ended.ok,
                    !.declines = Restrict(@, DOMAIN @ \ due)]
  BY DEF ProcessDeclineVotingRights
<1> HIDE DEF ended, e
<1>3. Kept(d, e, {"acct"}) /\ e.acct = t
  BY <1>1, <1>2 DEF Kept, MoneyTables, TableNames
<1>4. DOMAIN e.acct = N
  BY <1>3
<1>5. ASSUME NEW a \in N PROVE Alike(d.acct[a], e.acct[a])
  <2> DEFINE s == d.acct[a]
             r == ended.acct[a]
  <2>1. e.acct[a] = WithVotes(s, r) /\ DOMAIN s = DOMAIN NewAccount
    BY <1>1, <1>3
  <2> HIDE DEF s, r
  <2>2. Alike(s, e.acct[a])
    BY <2>1, AccountFields DEF Alike, Beside, WithVotes
  <2> QED BY <2>2 DEF s
<1>6. Moves(d, e, 0) /\ Names(e) = Names(d)
  BY <1>3, <1>4, <1>5, AlikeMoves
<1> QED BY <1>6 DEF e

\* Tokens u that are those of t after emissions: what is new is in the fund.
Emits(t, u) ==
    /\ TokenTable(u) /\ DOMAIN u = DOMAIN t
    /\ \A s \in DOMAIN t : u[s].supply - u[s].fund = t[s].supply - t[s].fund

\* One emission.
LEMMA EmittedEmits ==
  ASSUME NEW t, TokenTable(t), NEW k \in DOMAIN t
  PROVE  Emits(t, [t EXCEPT ![k] = Emitted(t[k])])
<1> DEFINE v == t[k]
           new == (v.supply * v.rate) \div (100 * EmissionsPerYear)
           r == Emitted(v)
           u == [t EXCEPT ![k] = r]
<1>1. /\ {"supply", "fund", "rate"} \subseteq DOMAIN v
      /\ v.supply \in Int /\ v.fund \in Int /\ v.rate \in Int
  BY DEF TokenTable
<1>2. new \in Int
  <2> DEFINE x == v.supply * v.rate
             y == 100 * EmissionsPerYear
  <2>1. x \in Int
    BY <1>1
  <2>2. y \in Int /\ y > 0
    BY TokensAssumption
  <2>3. new = x \div y
    OBVIOUS
  <2> HIDE DEF x, y, new
  <2> QED BY <2>1, <2>2, <2>3
<1>3. r = [v EXCEPT !.at = @ + v.step, !.supply = @ + new, !.fund = @ + new]
  BY DEF Emitted
<1> HIDE DEF new, r
<1>4. /\ {"supply", "fund", "rate"} \subseteq DOMAIN r /\ r.supply \in Int /\ r.fund \in Int
      /\ r.rate \in Int /\ r.supply - r.fund = v.supply - v.fund
  <2> HIDE DEF v
  <2> QED BY <1>1, <1>2, <1>3
<1>5. DOMAIN u = DOMAIN t /\ u[k] = r /\ \A s \in DOMAIN t : s # k => u[s] = t[s]
  OBVIOUS
<1> HIDE DEF u
<1>6. Emits(t, u)
  BY <1>4, <1>5 DEF Emits, TokenTable
<1> QED BY <1>6 DEF u, r, v

\* The walk along the tokens that are due.
LEMMA EmissionWalkEmits ==
  ASSUME NEW t, TokenTable(t), NEW now
  PROVE  Emits(t, EmissionWalk(t, now))
<1> DEFINE K == MaxTime * Cardinality(Symbols)
           a == [tokens |-> t, at |-> FirstOf(t, DOMAIN t)]
           Step(s) == EmissionVisit(s, now)
           P(g) == g = [k \in 0 .. K |-> IF k = 0 THEN a ELSE Step(g[k - 1])]
           walk == CHOOSE g : P(g)
           Good(s) == Emits(t, s.tokens) /\ s.at \subseteq DOMAIN t
<1>1. EmissionWalk(t, now) = walk[K].tokens
  BY DEF EmissionWalk
<1>2. K \in Nat
  BY HeadAssumption, TokensAssumption, FS_CardinalityType
<1>3. Good(a)
  BY DEF Emits, FirstOf, TokenTable
<1>4. ASSUME NEW s, Good(s) PROVE Good(Step(s))
  <2>1. CASE \E k \in s.at : s.tokens[k].at <= now
    <3> DEFINE k == CHOOSE k \in s.at : s.tokens[k].at <= now
               v == s.tokens
               u == [v EXCEPT ![k] = Emitted(v[k])]
    <3>1. k \in s.at /\ Step(s) = [tokens |-> u, at |-> FirstOf(u, Following(u, k))]
      BY <2>1 DEF EmissionVisit
    <3> HIDE DEF k
    <3>2. Emits(t, v) /\ TokenTable(v) /\ k \in DOMAIN v
      BY <1>4, <3>1 DEF Emits
    <3> HIDE DEF v
    <3>3. Emits(v, u)
      BY <3>2, EmittedEmits
    <3> HIDE DEF u, Step
    <3>4. Emits(t, u)
      BY <3>2, <3>3 DEF Emits
    <3>5. FirstOf(u, Following(u, k)) \subseteq DOMAIN t
      BY <3>4 DEF FirstOf, Following, Emits
    <3> QED BY <3>1, <3>4, <3>5
  <2>2. CASE ~ \E k \in s.at : s.tokens[k].at <= now
    <3>1. Step(s) = [tokens |-> s.tokens, at |-> {}]
      BY <2>2 DEF EmissionVisit
    <3> HIDE DEF Step
    <3> QED BY <1>4, <3>1
  <2> QED BY <2>1, <2>2
<1> HIDE DEF K, a, Step
<1>5. \E g : P(g)
  <2> DEFINE Q(g, m) == /\ g = [k \in 0 .. m |-> g[k]] /\ g[0] = a
                        /\ \A k \in 1 .. m : g[k] = Step(g[k - 1])
             T == {m \in 0 .. K : \E g : Q(g, m)}
  <2>1. 0 \in T
    <3> DEFINE g == [k \in 0 .. 0 |-> a]
    <3>1. Q(g, 0)
      OBVIOUS
    <3> HIDE DEF Q, g
    <3> QED BY <1>2, <3>1
  <2>2. ASSUME NEW m \in 1 .. K, m - 1 \in T PROVE m \in T
    <3>1. PICK f : Q(f, m - 1)
      BY <2>2
    <3> DEFINE g == [k \in 0 .. m |-> IF k = m THEN Step(f[m - 1]) ELSE f[k]]
    <3>2. Q(g, m)
      <4>1. g[0] = a /\ g = [k \in 0 .. m |-> g[k]]
        BY <1>2, <3>1
      <4>2. ASSUME NEW k \in 1 .. m PROVE g[k] = Step(g[k - 1])
        <5>1. g[k - 1] = f[k - 1] /\ (k # m => g[k] = f[k]) /\ (k = m => g[k] = Step(f[m - 1]))
          BY <1>2
        <5>2. k # m => f[k] = Step(f[k - 1])
          BY <1>2, <3>1
        <5> HIDE DEF g
        <5>3. CASE k = m
          BY <5>1, <5>3
        <5>4. CASE k # m
          BY <5>1, <5>2, <5>4
        <5> QED BY <5>3, <5>4
      <4> HIDE DEF g
      <4> QED BY <4>1, <4>2
    <3> HIDE DEF Q, g
    <3> QED BY <1>2, <3>2
  <2>3. K \in T
    <3> HIDE DEF T
    <3> QED BY <1>2, <2>1, <2>2, IntervalInduction
  <2>4. PICK g : Q(g, K)
    <3> HIDE DEF Q
    <3> QED BY <2>3
  <2>5. P(g)
    <3>1. \A k \in 0 .. K : g[k] = IF k = 0 THEN a ELSE Step(g[k - 1])
      BY <1>2, <2>4
    <3>2. [k \in 0 .. K |-> g[k]] = [k \in 0 .. K |-> IF k = 0 THEN a ELSE Step(g[k - 1])]
      BY <3>1
    <3> QED BY <2>4, <3>2, Zenon
  <2> QED BY <2>5
<1>6. P(walk)
  <2> HIDE DEF P
  <2> QED BY <1>5
<1> HIDE DEF walk
<1>7. walk[0] = a /\ \A k \in 1 .. K : walk[k] = Step(walk[k - 1])
  BY <1>2, <1>6
<1> DEFINE T == {k \in 0 .. K : Good(walk[k])}
<1> HIDE DEF P, Good
<1>8. 0 \in T
  BY <1>2, <1>3, <1>7
<1>9. ASSUME NEW k \in 1 .. K, k - 1 \in T PROVE k \in T
  BY <1>2, <1>4, <1>7, <1>9
<1>10. K \in T
  <2> HIDE DEF T
  <2> QED BY <1>2, <1>8, <1>9, IntervalInduction
<1> QED BY <1>1, <1>10 DEF Good

\* What accounts hold of the token s.
HeldBy(h, s) == {k \in DOMAIN h : k[2] = s}
Held(h, s) == SumFunctionOnSet(h, HeldBy(h, s))

\* It is a number.
LEMMA HoldingSum ==
  ASSUME NEW h, NEW S, HoldingTable(h, S)
  PROVE  \A s : /\ IsFiniteSet(HeldBy(h, s)) /\ HeldBy(h, s) \in SUBSET HeldBy(h, s)
                /\ \A k \in HeldBy(h, s) : h[k] \in Int
                /\ Held(h, s) \in Int
<1> TAKE s
<1>1. IsFiniteSet(DOMAIN h) /\ \A k \in DOMAIN h : k[2] \in S /\ h[k] \in Int
  BY DEF HoldingTable
<1>2. /\ IsFiniteSet(HeldBy(h, s)) /\ HeldBy(h, s) \in SUBSET HeldBy(h, s)
      /\ \A k \in HeldBy(h, s) : h[k] \in Int
  <2>1. HeldBy(h, s) \subseteq DOMAIN h
    BY DEF HeldBy
  <2> QED BY <1>1, <2>1, FS_Subset
<1>3. Held(h, s) \in Int
  BY <1>2, SumFacts DEF Held
<1> QED BY <1>2, <1>3

\* u is h with another number at k, at which h has one or not.
Changed(h, k, u) ==
  /\ k \in DOMAIN h /\ DOMAIN u = DOMAIN h /\ u[k] \in Int
  /\ \A x \in DOMAIN h : x # k => u[x] = h[x]
Added(h, k, u) ==
  /\ k \notin DOMAIN h /\ DOMAIN u = DOMAIN h \cup {k} /\ u[k] \in Int
  /\ \A x \in DOMAIN h : u[x] = h[x]

\* It changes with one holding.
LEMMA HoldingChanges ==
  ASSUME NEW h, NEW S, HoldingTable(h, S), NEW k, NEW u, Changed(h, k, u)
  PROVE  /\ HoldingTable(u, S)
         /\ \A s : Held(u, s) = IF k[2] = s THEN Held(h, s) - h[k] + u[k] ELSE Held(h, s)
<1>1. IsFiniteSet(DOMAIN h) /\ \A q \in DOMAIN h : q[2] \in S /\ h[q] \in Int
  BY DEF HoldingTable
<1>2. /\ k \in DOMAIN h /\ DOMAIN u = DOMAIN h /\ u[k] \in Int
      /\ \A x \in DOMAIN h : x # k => u[x] = h[x]
  BY DEF Changed
<1>3. HoldingTable(u, S)
  BY <1>1, <1>2 DEF HoldingTable
<1>4. ASSUME NEW s PROVE Held(u, s) = IF k[2] = s THEN Held(h, s) - h[k] + u[k] ELSE Held(h, s)
  <2> DEFINE A == HeldBy(h, s)
  <2>1. HeldBy(u, s) = A
    BY <1>2 DEF HeldBy
  <2>2. Held(u, s) = SumFunctionOnSet(u, A) /\ Held(h, s) = SumFunctionOnSet(h, A)
    BY <2>1 DEF Held
  <2>3. (k \in A <=> k[2] = s) /\ \A x \in A : x # k => u[x] = h[x]
    BY <1>2 DEF HeldBy
  <2>4. IsFiniteSet(A) /\ \A x \in A : h[x] \in Int
    BY HoldingSum
  <2> HIDE DEF A
  <2>5. CASE k[2] = s
    <3>0. u[k] \in Int
      BY <1>2
    <3>1. k \in A
      BY <2>3, <2>5
    <3>2. \A x \in A \ {k} : u[x] = h[x]
      BY <2>3
    <3>3. SumFunctionOnSet(u, A) = SumFunctionOnSet(h, A) - h[k] + u[k]
      BY <2>4, <3>0, <3>1, <3>2, SumsDiffer
    <3> QED BY <1>2, <2>2, <2>5, <3>3
  <2>6. CASE k[2] # s
    <3>1. \A x \in A : h[x] \in Int /\ u[x] = h[x]
      BY <2>3, <2>4, <2>6
    <3>2. SumFunctionOnSet(u, A) = SumFunctionOnSet(h, A)
      BY <2>4, <3>1, SumsAgree
    <3> QED BY <2>2, <2>6, <3>2
  <2> QED BY <2>5, <2>6
<1> QED BY <1>2, <1>3, <1>4

\* It changes with a new holding.
LEMMA HoldingNew ==
  ASSUME NEW h, NEW S, HoldingTable(h, S), NEW k, k[2] \in S, NEW u, Added(h, k, u)
  PROVE  /\ HoldingTable(u, S)
         /\ \A s : Held(u, s) = IF k[2] = s THEN Held(h, s) + u[k] ELSE Held(h, s)
<1>1. IsFiniteSet(DOMAIN h) /\ \A q \in DOMAIN h : q[2] \in S /\ h[q] \in Int
  BY DEF HoldingTable
<1>2. /\ k \notin DOMAIN h /\ DOMAIN u = DOMAIN h \cup {k} /\ u[k] \in Int
      /\ \A x \in DOMAIN h : u[x] = h[x]
  BY DEF Added
<1>3. HoldingTable(u, S)
  <2>1. IsFiniteSet(DOMAIN u)
    BY <1>1, <1>2, FS_AddElement
  <2> QED BY <1>1, <1>2, <2>1 DEF HoldingTable
<1>4. ASSUME NEW s PROVE Held(u, s) = IF k[2] = s THEN Held(h, s) + u[k] ELSE Held(h, s)
  <2> DEFINE A == HeldBy(h, s)
  <2>1. HeldBy(u, s) = IF k[2] = s THEN A \cup {k} ELSE A
    BY <1>2 DEF HeldBy
  <2>2. k \notin A /\ \A x \in A : h[x] \in Int /\ u[x] = h[x]
    BY <1>1, <1>2 DEF HeldBy
  <2>3. IsFiniteSet(A) /\ A \in SUBSET A /\ Held(h, s) = SumFunctionOnSet(h, A)
    BY HoldingSum DEF Held
  <2> HIDE DEF A
  <2>4. SumFunctionOnSet(u, A) = SumFunctionOnSet(h, A)
    BY <2>2, <2>3, SumsAgree
  <2>5. CASE k[2] = s
    <3> DEFINE E == A \cup {k}
    <3>1. IsFiniteSet(E)
      BY <2>3, FS_AddElement
    <3>2. /\ \A x \in E : u[x] \in Int
          /\ E \in SUBSET E /\ k \in E /\ E \ {k} = A
      BY <1>2, <2>2
    <3>3. Held(u, s) = SumFunctionOnSet(u, E)
      BY <2>1, <2>5 DEF Held
    <3> HIDE DEF E
    <3>4. SumFunctionOnSet(u, E) = u[k] + SumFunctionOnSet(u, E \ {k})
      BY <3>1, <3>2, SumFacts
    <3>5. SumFunctionOnSet(u, E \ {k}) = Held(h, s)
      BY <2>3, <2>4, <3>2
    <3> QED BY HoldingSum, <1>2, <2>5, <3>3, <3>4, <3>5
  <2>6. CASE k[2] # s
    <3>1. Held(u, s) = SumFunctionOnSet(u, A)
      BY <2>1, <2>6 DEF Held
    <3> QED BY <2>3, <2>4, <2>6, <3>1
  <2> QED BY <2>5, <2>6
<1> QED BY <1>2, <1>3, <1>4

\* The invariant for tokens in these terms.
LEMMA TokensExactly ==
  ASSUME NEW d
  PROVE  TokensExact(d) <=>
            \A s \in DOMAIN d.tokens : d.tokens[s].supply = d.tokens[s].fund + Held(d.holdings, s)
BY DEF TokensExact, Held, HeldBy

\* Only tokens change, and they still add up.
LEMMA OnlyTokens ==
  ASSUME NEW d, Balanced(d), NEW e, Kept(d, e, {"tokens", "holdings"}), TokenTable(e.tokens),
         HoldingTable(e.holdings, DOMAIN e.tokens), TokensExact(e)
  PROVE  Balanced(e)
<1>1. /\ DOMAIN e = TableNames /\ e.acct = d.acct /\ e.gpo = d.gpo /\ e.fund = d.fund
      /\ e.escrows = d.escrows /\ e.orders = d.orders /\ e.content = d.content
      /\ e.routes = d.routes /\ e.comments = d.comments /\ e.votes = d.votes
  BY DEF Kept, MoneyTables
<1>2. Amounted(d) /\ SupplyExact(d) /\ VestsExact(d)
  BY DEF Balanced
<1>3. Amounted(e)
  BY <1>1, <1>2 DEF Amounted, Names
<1>4. SupplyExact(e) /\ VestsExact(e)
  BY <1>1, <1>2 DEF SupplyExact, VestsExact
<1> QED BY <1>3, <1>4 DEF Balanced

\* Emissions add to the supply what they add to the fund.
LEMMA EmissionBalances ==
  ASSUME NEW d, Balanced(d), NEW e, Kept(d, e, {"tokens"}), Emits(d.tokens, e.tokens)
  PROVE  Balanced(e)
<1> DEFINE t == d.tokens
           u == e.tokens
           h == d.holdings
<1>1. Kept(d, e, {"tokens", "holdings"}) /\ e.holdings = h
  BY DEF Kept, MoneyTables
<1>2. TokenTable(t) /\ HoldingTable(h, DOMAIN t) /\ TokensExact(d)
  BY DEF Balanced, Amounted
<1>3. TokenTable(u) /\ DOMAIN u = DOMAIN t
  BY DEF Emits
<1>4. ASSUME NEW s \in DOMAIN u PROVE u[s].supply = u[s].fund + Held(h, s)
  <2>1. t[s].supply = t[s].fund + Held(h, s)
    BY <1>2, <1>3, TokensExactly
  <2>2. Held(h, s) \in Int
    BY <1>2, HoldingSum
  <2>3. /\ u[s].supply \in Int /\ u[s].fund \in Int /\ t[s].supply \in Int /\ t[s].fund \in Int
    BY <1>2, <1>3 DEF TokenTable
  <2>4. u[s].supply - u[s].fund = t[s].supply - t[s].fund
    BY <1>3 DEF Emits
  <2> QED BY <2>1, <2>2, <2>3, <2>4
<1>5. TokensExact(e)
  BY <1>1, <1>4, TokensExactly
<1> QED BY <1>1, <1>2, <1>3, <1>5, OnlyTokens

\* custom_tokens_emissions()
LEMMA EmissionsBalance ==
  ASSUME NEW d, Balanced(d), NEW now, NEW n
  PROVE  Balanced(CustomTokensEmissions(d, now, n))
<1> DEFINE u == EmissionWalk(d.tokens, now)
           e == [d EXCEPT !.tokens = u]
<1>1. DOMAIN d = TableNames /\ TokenTable(d.tokens)
  BY DEF Balanced, Amounted
<1>2. Emits(d.tokens, u)
  BY <1>1, EmissionWalkEmits
<1>3. CustomTokensEmissions(d, now, n) = IF n <= EmissionStart THEN d ELSE e
  BY DEF CustomTokensEmissions
<1> HIDE DEF u
<1>4. Kept(d, e, {"tokens"}) /\ e.tokens = u
  BY <1>1 DEF Kept, MoneyTables, TableNames
<1> HIDE DEF e
<1>5. Balanced(e)
  BY <1>2, <1>4, EmissionBalances
<1> QED BY <1>3, <1>5

\* Creation, transfer and the setup of emissions of tokens.
LEMMA TokenBalances ==
  ASSUME Exact, TokenOperation PROVE Balanced(db')
<1> DEFINE N == Names(db)
           t == db.tokens
           h == db.holdings
<1>0. /\ Balanced(db) /\ Amounted(db) /\ DOMAIN db = TableNames /\ TokenTable(t)
      /\ HoldingTable(h, DOMAIN t) /\ TokensExact(db) /\ FundOK(db.fund)
  BY Gaps DEF Exact, Balanced, Amounted
<1>00. /\ \A s : Held(h, s) \in Int
       /\ \A s \in DOMAIN t : t[s].supply = t[s].fund + Held(h, s)
  BY <1>0, HoldingSum, TokensExactly
<1>1. ASSUME NEW a \in Users, NEW s \in Symbols, NEW x \in Amounts, NEW fee \in Amounts,
             TokenCreate(a, s, x, fee)
      PROVE  Balanced(db')
  <2> DEFINE y == - fee
             c == AdjustBalance(db, a, y)
             f == [c.fund EXCEPT !.balance = @ + fee]
             b == [c EXCEPT !.fund = f]
             v == [id |-> Cardinality(DOMAIN db.tokens), supply |-> x, fund |-> 0, rate |-> 0,
                   at |-> 0, step |-> 0]
             k == <<a, s>>
             u == With(t, s, v)
             w == With(h, k, x)
  <2>1. /\ a \in N /\ fee \in Int /\ y \in Int /\ x \in Int
    BY PaymentsAssumption DEF Users
  <2>2. /\ s \notin DOMAIN t
        /\ db' = [c EXCEPT !.tokens = With(@, s, v), !.holdings = With(@, k, x),
                           !.fund.balance = @ + fee]
    BY <1>1 DEF TokenCreate
  <2>3. k[2] = s /\ v.supply = x /\ v.fund = 0 /\ v.rate = 0
        /\ {"supply", "fund", "rate"} \subseteq DOMAIN v
    OBVIOUS
  <2> HIDE DEF k, v
  <2>4. c.fund = db.fund
    BY <1>0, <2>1, PaidFrom
  <2>5. FundOK(f) /\ f.balance = db.fund.balance - y
    <3> DEFINE g == db.fund
    <3>1. f = [g EXCEPT !.balance = @ + fee]
      BY <2>4
    <3> HIDE DEF g, f, c
    <3>2. FundOK(f) /\ f.balance = g.balance - y
      BY <1>0, <2>1, <3>1 DEF FundOK, g
    <3> QED BY <3>2 DEF g
  <2> HIDE DEF y
  <2>6. /\ DOMAIN c = TableNames
        /\ \A o : FundOK(o) /\ o.balance = db.fund.balance - y => Moves(db, [c EXCEPT !.fund = o], 0)
    BY <1>0, <2>1, PaidFrom
  <2>7. c.tokens = t /\ c.holdings = h
    <3>1. Moves(db, c, - y)
      BY <1>0, <2>1, AdjustMoves
    <3> QED BY <3>1 DEF Moves
  <2> HIDE DEF c
  <2>8. Kept(b, db', {"tokens", "holdings"}) /\ db'.tokens = u /\ db'.holdings = w
    BY <2>2, <2>6, <2>7 DEF Kept, MoneyTables, TableNames
  <2> HIDE DEF f
  <2>9. Moves(db, b, 0)
    BY <2>5, <2>6
  <2> HIDE DEF b
  <2>10. Balanced(b)
    BY <1>0, <2>9, StillBalanced
  <2>11. DOMAIN u = DOMAIN t \cup {s} /\ u[s] = v /\ \A q \in DOMAIN t : u[q] = t[q]
    BY <2>2 DEF With
  <2> HIDE DEF u
  <2>12. TokenTable(u)
    BY <1>0, <2>1, <2>3, <2>11 DEF TokenTable
  <2>13. k \notin DOMAIN h /\ \A q \in DOMAIN h : q[2] \in DOMAIN t
    BY <1>0, <2>2, <2>3 DEF HoldingTable
  <2>14. HoldingTable(h, DOMAIN u)
    BY <1>0, <2>11 DEF HoldingTable
  <2>15. /\ HoldingTable(w, DOMAIN u)
         /\ \A q : Held(w, q) = IF k[2] = q THEN Held(h, q) + x ELSE Held(h, q)
    <3>1. k[2] \in DOMAIN u
      BY <2>3, <2>11
    <3>2. Added(h, k, w) /\ w[k] = x
      BY <2>1, <2>13 DEF Added, With
    <3> HIDE DEF w
    <3> QED BY <2>14, <3>1, <3>2, HoldingNew
  <2>16. Held(h, s) = 0
    <3>1. HeldBy(h, s) = {}
      BY <2>2, <2>13 DEF HeldBy
    <3>2. SumFunctionOnSet(h, {}) = 0
      BY <1>0, SumFacts DEF HoldingTable
    <3> QED BY <3>1, <3>2 DEF Held
  <2> HIDE DEF w
  <2>17. ASSUME NEW q \in DOMAIN u PROVE u[q].supply = u[q].fund + Held(w, q)
    <3>1. CASE q = s
      <4>1. Held(w, q) = 0 + x
        BY <2>3, <2>15, <2>16, <3>1
      <4>2. u[q].supply = x /\ u[q].fund = 0
        BY <2>3, <2>11, <3>1
      <4> QED BY <2>1, <4>1, <4>2
    <3>2. CASE q # s
      <4>1. Held(w, q) = Held(h, q)
        BY <2>3, <2>15, <3>2
      <4>2. q \in DOMAIN t /\ u[q] = t[q]
        BY <2>11, <3>2
      <4> QED BY <1>00, <4>1, <4>2
    <3> QED BY <3>1, <3>2
  <2>18. TokensExact(db')
    BY <2>8, <2>17, TokensExactly
  <2> QED BY <2>8, <2>10, <2>12, <2>15, <2>18, OnlyTokens
<1>2. ASSUME NEW a, NEW b, NEW s, NEW x \in Amounts, TokenTransfer(a, b, s, x) PROVE Balanced(db')
  <2> DEFINE k == <<a, s>>
             l == <<b, s>>
             y == h[k] - x
             g == [h EXCEPT ![k] = y]
             d == [db EXCEPT !.holdings[k] = @ - x]
             z == g[l] + x
             w == IF l \in DOMAIN h THEN [g EXCEPT ![l] = z] ELSE With(g, l, x)
             S == DOMAIN t
  <2>1. /\ x \in Int /\ k \in DOMAIN h
        /\ db' = IF l \in DOMAIN h THEN [d EXCEPT !.holdings[l] = @ + x]
                 ELSE [d EXCEPT !.holdings = With(@, l, x)]
    BY <1>2, PaymentsAssumption DEF TokenTransfer
  <2>2. k[2] = s /\ l[2] = s
    OBVIOUS
  <2> HIDE DEF k, l
  <2>3. h[k] \in Int /\ y \in Int /\ s \in S
    BY <1>0, <2>1, <2>2 DEF HoldingTable
  <2>4. DOMAIN d = TableNames /\ d.holdings = g /\ \A i \in TableNames \ {"holdings"} : d[i] = db[i]
    BY <1>0 DEF TableNames
  <2> HIDE DEF d
  <2>5. Kept(db, db', {"tokens", "holdings"}) /\ db'.holdings = w /\ db'.tokens = t
    BY <1>0, <2>1, <2>4 DEF Kept, MoneyTables, TableNames
  <2> HIDE DEF y
  <2>5a. Changed(h, k, g) /\ g[k] = y /\ DOMAIN g = DOMAIN h
    BY <2>1, <2>3 DEF Changed
  <2> HIDE DEF g
  <2>6. /\ HoldingTable(g, S) /\ DOMAIN g = DOMAIN h
        /\ \A q : Held(g, q) = IF k[2] = q THEN Held(h, q) - h[k] + y ELSE Held(h, q)
    BY <1>0, <2>5a, HoldingChanges
  <2>7. /\ HoldingTable(w, S)
        /\ \A q : Held(w, q) = IF l[2] = q THEN Held(g, q) + x ELSE Held(g, q)
    <3>1. CASE l \in DOMAIN h
      <4>1. g[l] \in Int /\ z \in Int /\ l \in DOMAIN g
        BY <2>1, <2>6, <3>1 DEF HoldingTable
      <4>2. Changed(g, l, w) /\ w[l] = z
        BY <3>1, <4>1 DEF Changed
      <4> HIDE DEF w
      <4>3. z = g[l] + x
        OBVIOUS
      <4> HIDE DEF z
      <4>4. /\ HoldingTable(w, S)
            /\ \A q : Held(w, q) = IF l[2] = q THEN Held(g, q) - g[l] + z ELSE Held(g, q)
        BY <2>6, <4>2, HoldingChanges
      <4>5. \A q : Held(g, q) \in Int
        BY <2>6, HoldingSum
      <4>6. \A q : Held(g, q) - g[l] + z = Held(g, q) + x
        BY <2>1, <4>1, <4>3, <4>5
      <4> QED BY <4>4, <4>6
    <3>2. CASE l \notin DOMAIN h
      <4>1. Added(g, l, w) /\ w[l] = x
        BY <2>1, <2>6, <3>2 DEF Added, With
      <4> HIDE DEF w
      <4>2. l[2] \in S
        BY <2>2, <2>3
      <4> QED BY <2>6, <4>1, <4>2, HoldingNew
    <3> QED BY <3>1, <3>2
  <2> HIDE DEF w
  <2>8. ASSUME NEW q \in S PROVE t[q].supply = t[q].fund + Held(w, q)
    <3>1. Held(h, q) \in Int
      BY <1>00
    <3>2. Held(w, q) = Held(h, q)
      <4>1. CASE q = s
        <5>1. Held(w, q) = Held(h, q) - h[k] + y + x
          BY <2>2, <2>6, <2>7, <4>1
        <5> QED BY <2>1, <2>3, <3>1, <5>1 DEF y
      <4>2. CASE q # s
        BY <2>2, <2>6, <2>7, <4>2
      <4> QED BY <4>1, <4>2
    <3> QED BY <1>00, <3>2
  <2>9. TokensExact(db')
    BY <2>5, <2>8, TokensExactly
  <2> QED BY <1>0, <2>5, <2>7, <2>9, OnlyTokens
<1>3. ASSUME NEW s, NEW r \in Rates, NEW at, NEW step, SetupEmissions(s, r, at, step)
      PROVE  Balanced(db')
  <2> DEFINE o == t[s]
             v == [o EXCEPT !.rate = r, !.at = at, !.step = step]
             u == [t EXCEPT ![s] = v]
  <2>1. s \in DOMAIN t /\ r \in Int /\ db' = [db EXCEPT !.tokens[s] = v]
    BY <1>3, TokensAssumption DEF SetupEmissions
  <2>2. /\ {"supply", "fund", "rate"} \subseteq DOMAIN o
        /\ o.supply \in Int /\ o.fund \in Int /\ o.rate \in Int
    BY <1>0, <2>1 DEF TokenTable
  <2>3. /\ {"supply", "fund", "rate"} \subseteq DOMAIN v /\ v.rate \in Int
        /\ v.supply = o.supply /\ v.fund = o.fund
    <3> HIDE DEF o
    <3> QED BY <2>1, <2>2
  <2> HIDE DEF v
  <2>4. DOMAIN u = DOMAIN t /\ u[s] = v /\ \A q \in DOMAIN t : q # s => u[q] = t[q]
    BY <2>1
  <2>5. Kept(db, db', {"tokens"}) /\ db'.tokens = u
    BY <1>0, <2>1 DEF Kept, MoneyTables, TableNames
  <2> HIDE DEF u
  <2>6. Emits(t, u)
    BY <1>0, <2>2, <2>3, <2>4 DEF Emits, TokenTable
  <2> QED BY <1>0, <2>5, <2>6, EmissionBalances
<1> QED BY <1>1, <1>2, <1>3 DEF TokenOperation

\* The next step of a withdrawal is a number.
LEMMA StepIsNumber ==
  ASSUME NEW s, AccountOK(s), s.rate # 0
  PROVE  WithdrawStep(s) \in Int
<1> DEFINE m == s.toWithdraw
           r == s.rate
           x == IF m - s.withdrawn < r THEN Remainder(m, r) ELSE r
           y == s.savings
<1>1. m \in Int /\ r \in Int /\ r # 0 /\ y \in Int
  BY DEF AccountOK
<1>2. WithdrawStep(s) = Min({y, x})
  BY DEF WithdrawStep
<1>3. Remainder(m, r) \in Int
  <2> HIDE DEF m, r
  <2> DEFINE k == IF r < 0 THEN -r ELSE r
             q == Quotient(m, k)
  <2>1. k \in Nat \ {0}
    BY <1>1
  <2>2. Remainder(m, r) = m - k * q
    BY DEF Remainder
  <2> HIDE DEF k
  <2>3. q \in Int
    BY <1>1, <2>1, QuotientIsNumber
  <2> HIDE DEF q
  <2>4. k * q \in Int
    BY <2>1, <2>3
  <2> QED BY <1>1, <2>2, <2>4
<1>4. x \in Int
  BY <1>1, <1>3
<1> HIDE DEF x, y
<1>5. Min({y, x}) \in Int
  BY <1>1, <1>4, MinOfTwo
<1> QED BY <1>2, <1>5

\* Accounts with what they have delegated and received.
Owing(t) == \A a \in DOMAIN t : {"delegated", "received"} \subseteq DOMAIN t[a]

SameDebts(t, u) ==
    /\ DOMAIN u = DOMAIN t
    /\ \A a \in DOMAIN t : /\ DOMAIN u[a] = DOMAIN t[a]
                           /\ u[a].delegated = t[a].delegated /\ u[a].received = t[a].received

\* All tables are there, and accounts have what delegation changes.
Tabled(d) == DOMAIN d = TableNames /\ Owing(d.acct)

\* From d to e nothing is lent or given back.
NoLoans(d, e) ==
    /\ DOMAIN e = TableNames /\ SameDebts(d.acct, e.acct)
    /\ e.delegations = d.delegations /\ e.expiring = d.expiring

\* Twice nothing is nothing.
LEMMA NoLoansTwice ==
  ASSUME NEW c, Tabled(c), NEW d, NEW e, NoLoans(c, d), NoLoans(d, e)
  PROVE  NoLoans(c, e) /\ Tabled(d) /\ Tabled(e)
<1>1. /\ DOMAIN d.acct = DOMAIN c.acct /\ DOMAIN e.acct = DOMAIN c.acct
      /\ \A a \in DOMAIN c.acct :
           /\ DOMAIN d.acct[a] = DOMAIN c.acct[a] /\ DOMAIN e.acct[a] = DOMAIN c.acct[a]
           /\ e.acct[a].delegated = c.acct[a].delegated
           /\ e.acct[a].received = c.acct[a].received
  BY DEF NoLoans, SameDebts
<1>2. DOMAIN d = TableNames /\ DOMAIN e = TableNames /\ e.delegations = c.delegations
      /\ e.expiring = c.expiring
  BY DEF NoLoans
<1> QED BY <1>1, <1>2 DEF NoLoans, SameDebts, Tabled, Owing

\* The tables are all there afterwards.
LEMMA StillTabled ==
  ASSUME NEW d, Tabled(d), NEW e, NoLoans(d, e)
  PROVE  Tabled(e)
BY DEF NoLoans, SameDebts, Tabled, Owing

\* Tables with the same accounts.
LEMMA SameAccounts ==
  ASSUME NEW d, Tabled(d), NEW e, DOMAIN e = TableNames, e.acct = d.acct,
         e.delegations = d.delegations, e.expiring = d.expiring
  PROVE  NoLoans(d, e)
BY DEF NoLoans, SameDebts

\* Other tables change as well.
LEMMA OthersNoLoans ==
  ASSUME NEW d, Tabled(d), NEW c, NoLoans(d, c), NEW e, DOMAIN e = DOMAIN c, e.acct = c.acct,
         e.delegations = c.delegations, e.expiring = c.expiring
  PROVE  NoLoans(d, e)
BY DEF NoLoans, SameDebts

\* One account changes in other fields.
LEMMA OneNoLoans ==
  ASSUME NEW d, Tabled(d), NEW e, DOMAIN e = TableNames, NEW a, NEW r,
         e.acct = [d.acct EXCEPT ![a] = r],
         a \in DOMAIN d.acct => /\ DOMAIN r = DOMAIN d.acct[a]
                                /\ r.delegated = d.acct[a].delegated
                                /\ r.received = d.acct[a].received,
         e.delegations = d.delegations, e.expiring = d.expiring
  PROVE  NoLoans(d, e)
BY DEF NoLoans, SameDebts

\* What moves balances.
LEMMA BalancesNoLoans ==
  ASSUME NEW d, Tabled(d), NEW a, NEW x, NEW y
  PROVE  /\ NoLoans(d, AdjustBalance(d, a, x)) /\ NoLoans(d, AdjustSavings(d, a, x))
         /\ NoLoans(d, AdjustReward(d, a, x)) /\ NoLoans(d, PayEach(d, x, y))
         /\ NoLoans(d, ClearWitnessVotes(d, a)) /\ NoLoans(d, ClearNullAccountBalance(d))
<1>1. NoLoans(d, AdjustBalance(d, a, x)) /\ NoLoans(d, AdjustSavings(d, a, x))
      /\ NoLoans(d, AdjustReward(d, a, x))
  BY DEF AdjustBalance, AdjustSavings, AdjustReward, NoLoans, SameDebts, Tabled, Owing, TableNames
<1>2. NoLoans(d, PayEach(d, x, y))
  BY DEF PayEach, NoLoans, SameDebts, Tabled, Owing, TableNames, Names
<1>3. NoLoans(d, ClearWitnessVotes(d, a))
  BY DEF ClearWitnessVotes, NoLoans, SameDebts, Tabled, Owing, TableNames
<1>4. NoLoans(d, ClearNullAccountBalance(d))
  BY DEF ClearNullAccountBalance, NoLoans, SameDebts, Tabled, Owing, TableNames
<1> QED BY <1>1, <1>2, <1>3, <1>4

\* adjust_proxied_witness_votes().
LEMMA WitnessVotesNoLoans ==
  ASSUME NEW d, Tabled(d), NEW a, NEW x
  PROVE  /\ NoLoans(d, AdjustProxiedWitnessVotes(d, a, x))
         /\ NoLoans(d, AdjustOwnWitnessVotes(d, a, x))
<1>1. ASSUME NEW e, Tabled(e), NEW b, NEW y
      PROVE  NoLoans(e, AdjustWitnessVotes(e, b, y))
  BY <1>1 DEF AdjustWitnessVotes, NoLoans, SameDebts, TableNames, Tabled
<1>2. ASSUME NEW y PROVE NoLoans(d, AdjustProxiedWitnessVotes(d, a, y))
  <2> DEFINE at(p) == {k \in Depths : Proxy(d, a, k + 1) = p}
             carried(p, i) == SumFunction([k \in {k \in at(p) : k <= i} |-> y[i - k]])
             last == {k \in Deltas : Proxy(d, a, k) # Self /\ Proxy(d, a, k + 1) = Self}
             e == [d EXCEPT !.acct = [p \in Names(d) |-> [d.acct[p] EXCEPT
                     !.proxied = [i \in Depths |-> @[i] + carried(p, i)]]]]
             k == CHOOSE k \in last : TRUE
  <2>1. NoLoans(d, e)
    <3> HIDE DEF carried
    <3> QED BY DEF NoLoans, SameDebts, Tabled, Owing, TableNames, Names
  <2>2. \/ AdjustProxiedWitnessVotes(d, a, y) = e
        \/ AdjustProxiedWitnessVotes(d, a, y) =
             AdjustWitnessVotes(e, Proxy(d, a, k), SumFunctionOnSet(y, 0 .. MaxProxyDepth - k))
    BY DEF AdjustProxiedWitnessVotes
  <2> HIDE DEF e, k
  <2>3. Tabled(e)
    BY <2>1, StillTabled
  <2> QED BY <1>1, <2>1, <2>2, <2>3, NoLoansTwice
<1> QED BY <1>2 DEF AdjustOwnWitnessVotes

\* create_vesting() and the emission.
LEMMA VestingNoLoans ==
  ASSUME NEW d, Tabled(d), NEW a, NEW x
  PROVE  /\ NoLoans(d, CreateVesting(d, a, x)) /\ NoLoans(d, CreateRewardVesting(d, a, x))
         /\ NoLoans(d, ProcessFunds(d, x))
<1>1. NoLoans(d, CreateVesting(d, a, x))
  <2> DEFINE new == VestsFor(Price(d.gpo), x)
             e == [d EXCEPT !.acct[a].vests = @ + new,
                            !.gpo.vestingFund = @ + x,
                            !.gpo.vestingShares = @ + new,
                            !.ok = @ /\ Converts(Price(d.gpo), x)]
  <2>1. NoLoans(d, e)
    <3> HIDE DEF new
    <3> QED BY DEF NoLoans, SameDebts, Tabled, Owing, TableNames
  <2>2. CreateVesting(d, a, x) = AdjustOwnWitnessVotes(e, a, new)
    BY DEF CreateVesting
  <2> HIDE DEF e
  <2>3. Tabled(e)
    BY <2>1, StillTabled
  <2> QED BY <2>1, <2>2, <2>3, WitnessVotesNoLoans, NoLoansTwice
<1>2. NoLoans(d, CreateRewardVesting(d, a, x))
  <2> DEFINE new == VestsFor(RewardPrice(d.gpo), x)
             r == [d.acct[a] EXCEPT !.rewardVests = @ + new, !.rewardVestsBmt = @ + x]
             e == CreateRewardVesting(d, a, x)
  <2>1. DOMAIN e = TableNames /\ e.delegations = d.delegations /\ e.expiring = d.expiring
        /\ e.acct = [d.acct EXCEPT ![a] = r]
    BY DEF CreateRewardVesting, Tabled, TableNames
  <2>2. a \in DOMAIN d.acct => /\ DOMAIN r = DOMAIN d.acct[a]
                               /\ r.delegated = d.acct[a].delegated
                               /\ r.received = d.acct[a].received
    BY DEF Tabled, Owing
  <2> HIDE DEF e, r
  <2>3. NoLoans(d, e)
    BY <2>1, <2>2, OneNoLoans
  <2> QED BY <2>3 DEF e
<1>3. NoLoans(d, ProcessFunds(d, x))
  <2> DEFINE content == (x * 90) \div 100
             c == AdjustBalance(d, Producer, x - content)
             e == [c EXCEPT !.fund.balance = @ + content, !.gpo.supply = @ + x,
                            !.gpo.daily = IF DayBoundary THEN x ELSE @ + x]
  <2>1. ProcessFunds(d, x) = d \/ ProcessFunds(d, x) = e
    BY DEF ProcessFunds
  <2>2. NoLoans(d, c)
    BY BalancesNoLoans
  <2> HIDE DEF c
  <2>3. NoLoans(c, e)
    BY <2>2 DEF NoLoans, SameDebts, TableNames
  <2> HIDE DEF e
  <2>4. NoLoans(d, d)
    BY SameAccounts DEF Tabled
  <2> QED BY <2>1, <2>2, <2>3, <2>4, NoLoansTwice
<1> QED BY <1>1, <1>2, <1>3

\* Tables in order have all fields.
LEMMA AmountedTabled ==
  ASSUME NEW d, Amounted(d) PROVE Tabled(d) /\ NoLoans(d, d)
<1>1. Tabled(d)
  BY AccountFields DEF Amounted, AccountTable, AccountOK, Tabled, Owing
<1> QED BY <1>1, SameAccounts DEF Tabled

\* A step of a withdrawal.
LEMMA WithdrawnNoLoans ==
  ASSUME NEW d, Tabled(d), NEW a
  PROVE  NoLoans(d, Withdrawn(d, a))
<1> DEFINE s == d.acct[a]
           share == [r \in RoutesOf(d, a) |->
                        IF d.routes[r].autoVest THEN 0
                        ELSE (WithdrawStep(s) * d.routes[r].percent) \div 100]
           paid == {r \in DOMAIN share : share[r] > 0}
           sum == SumFunctionOnSet(share, paid)
           done == s.withdrawn + sum >= s.toWithdraw \/ s.savings = sum
           after == [s EXCEPT !.savings = @ - sum, !.withdrawn = @ + sum,
                              !.rate = IF done THEN 0 ELSE @,
                              !.nextWithdrawal = IF done THEN Never
                                   ELSE @ + IntervalTime * Cardinality(paid)]
           c == [d EXCEPT !.acct[a] = after]
           who == [r \in paid |-> r[2]]
           x == Restrict(share, paid)
           fits == WithdrawStep(s) >= 0 \/ \A r \in DOMAIN share : d.routes[r].autoVest
           e == IF paid = {} THEN d ELSE PayEach(c, who, x)
           w == Withdrawn(d, a)
<1>1. w = [e EXCEPT !.ok = @ /\ fits]
  BY DEF Withdrawn
<1>2. a \in DOMAIN d.acct => /\ DOMAIN after = DOMAIN d.acct[a]
                             /\ after.delegated = d.acct[a].delegated
                             /\ after.received = d.acct[a].received
  <2> HIDE DEF sum, done, paid
  <2> QED BY DEF Tabled, Owing
<1> HIDE DEF after, paid, who, x, fits, w
<1>3. DOMAIN c = TableNames /\ c.acct = [d.acct EXCEPT ![a] = after]
      /\ c.delegations = d.delegations /\ c.expiring = d.expiring
  BY DEF Tabled, TableNames
<1> HIDE DEF c
<1>4. NoLoans(d, c) /\ Tabled(c)
  BY <1>2, <1>3, OneNoLoans, StillTabled
<1>5. NoLoans(c, PayEach(c, who, x))
  BY <1>4, BalancesNoLoans
<1>6. NoLoans(d, d)
  BY SameAccounts DEF Tabled
<1>7. NoLoans(d, e) /\ Tabled(e)
  BY <1>4, <1>5, <1>6, NoLoansTwice
<1> HIDE DEF e
<1>8. /\ DOMAIN w = DOMAIN e /\ w.acct = e.acct
      /\ w.delegations = e.delegations /\ w.expiring = e.expiring
  BY <1>1, <1>7 DEF Tabled, TableNames
<1>9. NoLoans(d, w)
  BY <1>7, <1>8, OthersNoLoans
<1> QED BY <1>9 DEF w

\* A step of a withdrawal from savings.
LEMMA WithdrawnMoves ==
  ASSUME NEW d, Amounted(d), NEW a \in Names(d), d.acct[a].nextWithdrawal # Never
  PROVE  LET e == Withdrawn(d, a)
         IN  Moves(d, e, 0) /\ Names(e) = Names(d) /\ Kept(d, e, {"acct"})
<1> DEFINE s == d.acct[a]
           R == RoutesOf(d, a)
           step == WithdrawStep(s)
           share == [r \in R |-> IF d.routes[r].autoVest THEN 0
                                 ELSE (step * d.routes[r].percent) \div 100]
           paid == {r \in R : share[r] > 0}
           sum == SumFunctionOnSet(share, paid)
           done == s.withdrawn + sum >= s.toWithdraw \/ s.savings = sum
           later == s.nextWithdrawal + IntervalTime * Cardinality(paid)
           after == [s EXCEPT !.savings = @ - sum, !.withdrawn = @ + sum,
                              !.rate = IF done THEN 0 ELSE @,
                              !.nextWithdrawal = IF done THEN Never ELSE later]
           who == [r \in paid |-> r[2]]
           x == Restrict(share, paid)
           c == [d EXCEPT !.acct[a] = after]
           fits == step >= 0 \/ \A r \in R : d.routes[r].autoVest
           g == IF paid = {} THEN d ELSE PayEach(c, who, x)
           e == Withdrawn(d, a)
<1>0. /\ DOMAIN d = TableNames /\ AccountTable(d.acct) /\ AccountOK(s) /\ s.rate # 0
      /\ a \in DOMAIN d.acct
      /\ RouteTable(d.routes, Names(d))
  BY DEF Amounted, AccountTable, AccountOK, Names
<1>1. e = [g EXCEPT !.ok = @ /\ fits]
  BY DEF Withdrawn
<1> HIDE DEF e, fits
<1>2. step \in Int
  BY <1>0, StepIsNumber
<1>3. \A r \in R : d.routes[r].percent \in Int /\ r[2] \in Names(d) /\ r \in DOMAIN d.routes
  BY <1>0 DEF RoutesOf, RouteTable
<1>4. IsFiniteSet(R)
  <2>1. R \subseteq DOMAIN d.routes /\ IsFiniteSet(DOMAIN d.routes)
    BY <1>0 DEF RoutesOf, RouteTable
  <2> QED BY <2>1, FS_Subset
<1> HIDE DEF step, R
<1>5. \A r \in R : share[r] \in Int
  <2> TAKE r \in R
  <2> DEFINE y == step * d.routes[r].percent
  <2>1. y \in Int
    BY <1>2, <1>3
  <2>2. share[r] = IF d.routes[r].autoVest THEN 0 ELSE y \div 100
    OBVIOUS
  <2> HIDE DEF y, share
  <2> QED BY <2>1, <2>2
<1>5a. DOMAIN share = R
  OBVIOUS
<1> HIDE DEF share
<1>6. IsFiniteSet(paid) /\ paid \in SUBSET paid /\ \A r \in paid : share[r] \in Int
  <2>1. paid \subseteq R
    OBVIOUS
  <2>2. IsFiniteSet(paid)
    BY <1>4, <2>1, FS_Subset
  <2> QED BY <1>5, <2>1, <2>2
<1>7. \A r \in paid : r[2] \in Names(d)
  BY <1>3
<1>7a. DOMAIN x = paid /\ \A r \in paid : x[r] = share[r]
  BY <1>5a DEF Restrict
<1> HIDE DEF paid
<1>8. sum \in Int
  BY <1>6, SumFacts
<1>9. later \in Int
  <2>1. s.nextWithdrawal \in Int
    BY <1>0 DEF AccountOK
  <2>2. Cardinality(paid) \in Nat
    BY <1>6, FS_CardinalityType
  <2>3. IntervalTime \in Nat
    BY PaymentsAssumption
  <2> QED BY <2>1, <2>2, <2>3
<1> HIDE DEF sum, later
<1>10. AccountOK(after) /\ SameVests(s, after) /\ Money(s) - Money(after) = sum
  <2>1. Never \in Int
    BY HeadAssumption DEF Never
  <2> HIDE DEF s, done, later
  <2> QED BY <1>0, <1>8, <1>9, <2>1, AccountFields DEF AccountOK, SameVests, Money
<1> HIDE DEF after
<1>11. Kept(d, c, {"acct"}) /\ c.acct = [d.acct EXCEPT ![a] = after]
  BY <1>0 DEF Kept, MoneyTables, TableNames
<1> HIDE DEF c
<1>12. Names(c) = Names(d) /\ Moves(d, c, sum)
  BY <1>10, <1>11, OneMoves
<1>13. Amounted(c) /\ \A r \in DOMAIN x : who[r] \in Names(c) /\ x[r] \in Int
  BY <1>6, <1>7, <1>7a, <1>12 DEF Moves
<1>14. IsFiniteSet(DOMAIN x)
  BY <1>6, <1>7a
<1> DEFINE f == PayEach(c, who, x)
<1> HIDE DEF x, who
<1>15. Moves(c, f, - SumFunctionOnSet(x, DOMAIN x)) /\ Names(f) = Names(c) /\ Kept(c, f, {"acct"})
  BY <1>13, <1>14, PayEachMoves
<1>16. SumFunctionOnSet(x, DOMAIN x) = sum
  BY <1>6, <1>7a, SumsAgree DEF sum
<1> HIDE DEF f
<1>17. Moves(d, f, sum + (- sum))
  BY <1>12, <1>15, <1>16, MovesTwice
<1>18. sum + (- sum) = 0
  BY <1>8
<1>19. Moves(d, f, 0) /\ Names(f) = Names(d) /\ Kept(d, f, {"acct"})
  BY <1>11, <1>12, <1>15, <1>17, <1>18 DEF Kept
<1>20. Moves(d, d, 0) /\ Kept(d, d, {"acct"})
  BY <1>0, MovesNot DEF Kept
<1>21. g = d \/ g = f
  BY DEF f
<1> HIDE DEF g
<1>22. Moves(d, g, 0) /\ Names(g) = Names(d) /\ Kept(d, g, {"acct"}) /\ Amounted(g)
  BY <1>19, <1>20, <1>21 DEF Moves
<1>23. Kept(g, e, {}) /\ e.acct = g.acct
  BY <1>1, <1>22 DEF Kept, MoneyTables, TableNames
<1>24. Moves(g, e, 0) /\ Names(e) = Names(g)
  BY <1>22, <1>23, TableMoves DEF Names
<1>25. Moves(d, e, 0 + 0)
  BY <1>22, <1>24, MovesTwice
<1>26. Moves(d, e, 0) /\ Names(e) = Names(d) /\ Kept(d, e, {"acct"})
  BY <1>22, <1>23, <1>24, <1>25 DEF Kept
<1> QED BY <1>26 DEF e

\* The walk along the accounts that are due for a withdrawal.
LEMMA WithdrawalWalkMoves ==
  ASSUME NEW d, Amounted(d), NEW now \in Int, now <= MaxTime
  PROVE  LET e == WithdrawalWalk(d, now)
         IN  Moves(d, e, 0) /\ Names(e) = Names(d) /\ Kept(d, e, {"acct"}) /\ NoLoans(d, e)
<1> DEFINE K == Cardinality(Names(d)) * MaxTime
           a == [d |-> d, at |-> FirstInLine(d, Names(d))]
           Step(s) == WithdrawalVisit(s, now)
           P(g) == g = [k \in 0 .. K |-> IF k = 0 THEN a ELSE Step(g[k - 1])]
           walk == CHOOSE g : P(g)
           Good(s) == /\ Moves(d, s.d, 0) /\ Names(s.d) = Names(d) /\ Kept(d, s.d, {"acct"})
                      /\ s.at \subseteq Names(d) /\ NoLoans(d, s.d)
<1>1. WithdrawalWalk(d, now) = walk[K].d
  BY DEF WithdrawalWalk
<1>2. K \in Nat
  <2>1. IsFiniteSet(Names(d))
    BY DEF Amounted, AccountTable, Names
  <2> QED BY <2>1, HeadAssumption, FS_CardinalityType
<1>3. Good(a)
  BY MovesNot, AmountedTabled DEF Kept, FirstInLine, Amounted
<1>4. ASSUME NEW s, Good(s) PROVE Good(Step(s))
  <2>1. CASE \E b \in s.at : s.d.acct[b].nextWithdrawal <= now
    <3> DEFINE b == CHOOSE b \in s.at : s.d.acct[b].nextWithdrawal <= now
               c == s.d
               e == Withdrawn(c, b)
    <3>1. /\ b \in s.at /\ c.acct[b].nextWithdrawal <= now
          /\ Step(s) = [d |-> e, at |-> NextInLine(c, b)]
      BY <2>1 DEF WithdrawalVisit
    <3> HIDE DEF b
    <3>2. /\ Moves(d, c, 0) /\ Amounted(c) /\ b \in Names(c) /\ Names(c) = Names(d)
          /\ Kept(d, c, {"acct"}) /\ NoLoans(d, c)
      BY <1>4, <3>1 DEF Moves
    <3> HIDE DEF c
    <3>3. c.acct[b].nextWithdrawal # Never
      <4>1. Never > MaxTime /\ Never \in Int /\ MaxTime \in Int
        BY HeadAssumption DEF Never
      <4>2. c.acct[b].nextWithdrawal \in Int
        BY <3>2 DEF Amounted, AccountTable, AccountOK, Names
      <4> QED BY <3>1, <4>1, <4>2
    <3>4. Moves(c, e, 0) /\ Names(e) = Names(c) /\ Kept(c, e, {"acct"})
      BY <3>2, <3>3, WithdrawnMoves
    <3>4a. NoLoans(c, e)
      BY <3>2, AmountedTabled, WithdrawnNoLoans
    <3> HIDE DEF e, Step
    <3>4b. NoLoans(d, e)
      BY <3>2, <3>4a, AmountedTabled, NoLoansTwice
    <3>5. Moves(d, e, 0 + 0) /\ Names(e) = Names(d) /\ Kept(d, e, {"acct"})
      <4>1. Moves(d, e, 0 + 0)
        BY <3>2, <3>4, MovesTwice
      <4> QED BY <3>2, <3>4, <4>1 DEF Kept
    <3>6. NextInLine(c, b) \subseteq Names(d)
      BY <3>2 DEF NextInLine, FirstInLine
    <3> QED BY <3>1, <3>4b, <3>5, <3>6
  <2>2. CASE ~ \E b \in s.at : s.d.acct[b].nextWithdrawal <= now
    <3>1. Step(s) = [d |-> s.d, at |-> {}]
      BY <2>2 DEF WithdrawalVisit
    <3> HIDE DEF Step
    <3> QED BY <1>4, <3>1
  <2> QED BY <2>1, <2>2
<1> HIDE DEF K, a, Step
<1>5. \E g : P(g)
  <2> DEFINE Q(g, m) == /\ g = [k \in 0 .. m |-> g[k]] /\ g[0] = a
                        /\ \A k \in 1 .. m : g[k] = Step(g[k - 1])
             T == {m \in 0 .. K : \E g : Q(g, m)}
  <2>1. 0 \in T
    <3> DEFINE g == [k \in 0 .. 0 |-> a]
    <3>1. Q(g, 0)
      OBVIOUS
    <3> HIDE DEF Q, g
    <3> QED BY <1>2, <3>1
  <2>2. ASSUME NEW m \in 1 .. K, m - 1 \in T PROVE m \in T
    <3>1. PICK f : Q(f, m - 1)
      BY <2>2
    <3> DEFINE g == [k \in 0 .. m |-> IF k = m THEN Step(f[m - 1]) ELSE f[k]]
    <3>2. Q(g, m)
      <4>1. g[0] = a /\ g = [k \in 0 .. m |-> g[k]]
        BY <1>2, <3>1
      <4>2. ASSUME NEW k \in 1 .. m PROVE g[k] = Step(g[k - 1])
        <5>1. g[k - 1] = f[k - 1] /\ (k # m => g[k] = f[k]) /\ (k = m => g[k] = Step(f[m - 1]))
          BY <1>2
        <5>2. k # m => f[k] = Step(f[k - 1])
          <6> SUFFICES ASSUME k # m PROVE f[k] = Step(f[k - 1])
            OBVIOUS
          <6>1. k \in 1 .. (m - 1)
            BY <1>2
          <6> QED BY <3>1, <6>1
        <5> HIDE DEF g
        <5>3. CASE k = m
          BY <5>1, <5>3
        <5>4. CASE k # m
          BY <5>1, <5>2, <5>4
        <5> QED BY <5>3, <5>4
      <4> HIDE DEF g
      <4> QED BY <4>1, <4>2
    <3> HIDE DEF Q, g
    <3> QED BY <1>2, <3>2
  <2>3. K \in T
    <3> HIDE DEF T
    <3> QED BY <1>2, <2>1, <2>2, IntervalInduction
  <2>4. PICK g : Q(g, K)
    <3> HIDE DEF Q
    <3> QED BY <2>3
  <2>5. P(g)
    <3>1. ASSUME NEW k \in 0 .. K PROVE g[k] = IF k = 0 THEN a ELSE Step(g[k - 1])
      <4>1. CASE k = 0
        BY <2>4, <4>1
      <4>2. CASE k # 0
        <5>1. k \in 1 .. K
          BY <1>2, <4>2
        <5> QED BY <2>4, <4>2, <5>1
      <4> QED BY <4>1, <4>2
    <3>2. [k \in 0 .. K |-> g[k]] = [k \in 0 .. K |-> IF k = 0 THEN a ELSE Step(g[k - 1])]
      BY <3>1
    <3> QED BY <2>4, <3>2, Zenon
  <2> QED BY <2>5
<1>6. P(walk)
  <2> HIDE DEF P
  <2> QED BY <1>5
<1> HIDE DEF walk
<1>7. walk[0] = a /\ \A k \in 1 .. K : walk[k] = Step(walk[k - 1])
  BY <1>2, <1>6
<1> DEFINE T == {k \in 0 .. K : Good(walk[k])}
<1> HIDE DEF P, Good
<1>8. 0 \in T
  BY <1>2, <1>3, <1>7
<1>9. ASSUME NEW k \in 1 .. K, k - 1 \in T PROVE k \in T
  BY <1>2, <1>4, <1>7, <1>9
<1>10. K \in T
  <2> HIDE DEF T
  <2> QED BY <1>2, <1>8, <1>9, IntervalInduction
<1> QED BY <1>1, <1>10 DEF Good

\* process_vesting_withdrawals()
LEMMA WithdrawalsMove ==
  ASSUME NEW d, Amounted(d), NEW now \in Int, now <= MaxTime
  PROVE  LET e == ProcessVestingWithdrawals(d, now) IN Moves(d, e, 0) /\ Names(e) = Names(d)
<1> DEFINE w == WithdrawalWalk(d, now)
           e == ProcessVestingWithdrawals(d, now)
<1>1. Moves(d, w, 0) /\ Names(w) = Names(d) /\ Kept(d, w, {"acct"})
  BY WithdrawalWalkMoves
<1>2. e = [d EXCEPT !.acct = w.acct, !.ok = w.ok]
  BY DEF ProcessVestingWithdrawals
<1> HIDE DEF w, e
<1>3. Amounted(w) /\ DOMAIN d = TableNames
  BY <1>1 DEF Moves, Amounted
<1>4. e.acct = w.acct /\ Kept(w, e, {}) /\ Names(e) = Names(w)
  BY <1>1, <1>2, <1>3 DEF Kept, MoneyTables, TableNames, Names
<1>5. Moves(w, e, 0)
  BY <1>3, <1>4, TableMoves
<1>6. Moves(d, e, 0 + 0)
  BY <1>1, <1>5, MovesTwice
<1>7. Moves(d, e, 0) /\ Names(e) = Names(d)
  BY <1>1, <1>4, <1>6
<1> QED BY <1>7 DEF e

\* What a vote claims is a number.
LEMMA ClaimIsNumber ==
  ASSUME NEW d, Amounted(d), NEW p \in DOMAIN d.comments, d.comments[p].weight > 0,
         NEW k \in DOMAIN d.votes, NEW max \in Int
  PROVE  Claim(d, p, k, max) \in Int /\ k[1] \in Names(d)
<1> DEFINE w == d.comments[p].weight
           v == d.votes[k].weight
           y == max * v
<1>1. w \in Int /\ v \in Int /\ w > 0 /\ k[1] \in Names(d)
  BY DEF Amounted, CommentTable, VoteTable
<1>2. y \in Int
  BY <1>1
<1>3. Claim(d, p, k, max) = y \div w
  BY DEF Claim
<1> HIDE DEF y, w
<1> QED BY <1>1, <1>2, <1>3

\* Curators are paid one after the other.
LEMMA CuratorsMove ==
  ASSUME NEW d, Amounted(d), NEW p \in DOMAIN d.comments, NEW max \in Int
  PROVE  LET s == PayCurators(d, p, max)
         IN  /\ s.paid \in Int /\ Moves(d, s.d, - s.paid) /\ Names(s.d) = Names(d)
             /\ Kept(d, s.d, {"acct", "gpo"}) /\ NoLoans(d, s.d)
<1> DEFINE all == PaidCurators(d, p, max)
           K == Cardinality(all)
           a == [d |-> d, paid |-> 0, left |-> all]
           Step(s) == PayNext(s, p, max)
           P(g) == g = [k \in 0 .. K |-> IF k = 0 THEN a ELSE Step(g[k - 1])]
           walk == CHOOSE g : P(g)
           Good(s) == /\ s.paid \in Int /\ Moves(d, s.d, - s.paid) /\ Names(s.d) = Names(d)
                      /\ Kept(d, s.d, {"acct", "gpo"}) /\ s.left \subseteq all
                      /\ NoLoans(d, s.d)
<1>1. PayCurators(d, p, max) = walk[K]
  BY DEF PayCurators
<1>1a. /\ all \subseteq DOMAIN d.votes /\ (all # {} => d.comments[p].weight > 0)
  BY DEF PaidCurators, VotesOn
<1> HIDE DEF all
<1>2. K \in Nat
  <2>1. IsFiniteSet(DOMAIN d.votes)
    BY DEF Amounted, VoteTable
  <2>2. IsFiniteSet(all)
    BY <1>1a, <2>1, FS_Subset
  <2> QED BY <2>2, FS_CardinalityType
<1>3. Good(a)
  <2>1. Moves(d, d, 0) /\ DOMAIN d = TableNames /\ NoLoans(d, d)
    BY MovesNot, AmountedTabled DEF Amounted
  <2>2. /\ a.paid \in Int /\ a.paid = 0 /\ a.paid + a.paid = 0
        /\ a.d = d /\ a.left \subseteq all
    OBVIOUS
  <2> HIDE DEF a
  <2>3. \A z \in Int : z + z = 0 => - z = z
    OBVIOUS
  <2>4. - a.paid = a.paid
    BY <2>2, <2>3
  <2>5. Moves(d, a.d, - a.paid)
    BY <2>1, <2>2, <2>4
  <2> QED BY <2>1, <2>2, <2>5 DEF Kept
<1>4. ASSUME NEW s, Good(s) PROVE Good(Step(s))
  <2> DEFINE next == {k \in s.left : \A l \in s.left : ~ByWeight(s.d, l, k)}
             k == CHOOSE k \in next : TRUE
             c == s.d
             x == Claim(c, p, k, max)
             e == CreateRewardVesting(c, k[1], x)
             y == s.paid + x
  <2>1. Step(s) = IF next = {} THEN s ELSE [d |-> e, paid |-> y, left |-> s.left \ {k}]
    BY DEF PayNext
  <2>2. CASE next = {}
    BY <1>4, <2>1, <2>2
  <2>3. CASE next # {}
    <3>1. k \in next
      BY <2>3
    <3>2. k \in s.left /\ k \in all
      BY <1>4, <3>1
    <3>3. Step(s) = [d |-> e, paid |-> y, left |-> s.left \ {k}]
      BY <2>1, <2>3
    <3> HIDE DEF k, next, Step
    <3>4. /\ Moves(d, c, - s.paid) /\ Amounted(c) /\ Names(c) = Names(d) /\ s.paid \in Int
          /\ Kept(d, c, {"acct", "gpo"}) /\ c.comments = d.comments /\ c.votes = d.votes
          /\ NoLoans(d, c)
      BY <1>4 DEF Moves, Kept, MoneyTables
    <3> HIDE DEF c
    <3>5. p \in DOMAIN c.comments /\ c.comments[p].weight > 0 /\ k \in DOMAIN c.votes
      BY <1>1a, <3>2, <3>4
    <3>6. x \in Int /\ k[1] \in Names(c)
      BY <3>4, <3>5, ClaimIsNumber
    <3> HIDE DEF x
    <3>7. Moves(c, e, - x) /\ Names(e) = Names(c) /\ Kept(c, e, {"acct", "gpo"})
      BY <3>4, <3>6, RewardVestingMoves
    <3>7a. NoLoans(c, e)
      BY <3>4, AmountedTabled, VestingNoLoans
    <3> HIDE DEF e
    <3>7b. NoLoans(d, e)
      BY <3>4, <3>7a, AmountedTabled, NoLoansTwice
    <3>8. Moves(d, e, (- s.paid) + (- x))
      BY <3>4, <3>7, MovesTwice
    <3>9. y \in Int /\ (- s.paid) + (- x) = - y
      BY <3>4, <3>6
    <3> HIDE DEF y
    <3>10. Moves(d, e, - y) /\ Names(e) = Names(d) /\ Kept(d, e, {"acct", "gpo"})
      BY <3>4, <3>7, <3>8, <3>9 DEF Kept
    <3>11. s.left \ {k} \subseteq all
      BY <1>4
    <3> QED BY <3>3, <3>7b, <3>9, <3>10, <3>11
  <2> QED BY <2>2, <2>3
<1> HIDE DEF K, a, Step
<1>5. \E g : P(g)
  <2> DEFINE Q(g, m) == /\ g = [k \in 0 .. m |-> g[k]] /\ g[0] = a
                        /\ \A k \in 1 .. m : g[k] = Step(g[k - 1])
             T == {m \in 0 .. K : \E g : Q(g, m)}
  <2>1. 0 \in T
    <3> DEFINE g == [k \in 0 .. 0 |-> a]
    <3>1. Q(g, 0)
      OBVIOUS
    <3> HIDE DEF Q, g
    <3> QED BY <1>2, <3>1
  <2>2. ASSUME NEW m \in 1 .. K, m - 1 \in T PROVE m \in T
    <3>1. PICK f : Q(f, m - 1)
      BY <2>2
    <3> DEFINE g == [k \in 0 .. m |-> IF k = m THEN Step(f[m - 1]) ELSE f[k]]
    <3>2. Q(g, m)
      <4>1. g[0] = a /\ g = [k \in 0 .. m |-> g[k]]
        BY <1>2, <3>1
      <4>2. ASSUME NEW k \in 1 .. m PROVE g[k] = Step(g[k - 1])
        <5>1. g[k - 1] = f[k - 1] /\ (k # m => g[k] = f[k]) /\ (k = m => g[k] = Step(f[m - 1]))
          BY <1>2
        <5>2. k # m => f[k] = Step(f[k - 1])
          <6> SUFFICES ASSUME k # m PROVE f[k] = Step(f[k - 1])
            OBVIOUS
          <6>1. k \in 1 .. (m - 1)
            BY <1>2
          <6> QED BY <3>1, <6>1
        <5> HIDE DEF g
        <5>3. CASE k = m
          BY <5>1, <5>3
        <5>4. CASE k # m
          BY <5>1, <5>2, <5>4
        <5> QED BY <5>3, <5>4
      <4> HIDE DEF g
      <4> QED BY <4>1, <4>2
    <3> HIDE DEF Q, g
    <3> QED BY <1>2, <3>2
  <2>3. K \in T
    <3> HIDE DEF T
    <3> QED BY <1>2, <2>1, <2>2, IntervalInduction
  <2>4. PICK g : Q(g, K)
    <3> HIDE DEF Q
    <3> QED BY <2>3
  <2>5. P(g)
    <3>1. ASSUME NEW k \in 0 .. K PROVE g[k] = IF k = 0 THEN a ELSE Step(g[k - 1])
      <4>1. CASE k = 0
        BY <2>4, <4>1
      <4>2. CASE k # 0
        <5>1. k \in 1 .. K
          BY <1>2, <4>2
        <5> QED BY <2>4, <4>2, <5>1
      <4> QED BY <4>1, <4>2
    <3>2. [k \in 0 .. K |-> g[k]] = [k \in 0 .. K |-> IF k = 0 THEN a ELSE Step(g[k - 1])]
      BY <3>1
    <3> QED BY <2>4, <3>2, Zenon
  <2> QED BY <2>5
<1>6. P(walk)
  <2> HIDE DEF P
  <2> QED BY <1>5
<1> HIDE DEF walk
<1>7. walk[0] = a /\ \A k \in 1 .. K : walk[k] = Step(walk[k - 1])
  BY <1>2, <1>6
<1> DEFINE T == {k \in 0 .. K : Good(walk[k])}
<1> HIDE DEF P, Good
<1>8. 0 \in T
  BY <1>2, <1>3, <1>7
<1>9. ASSUME NEW k \in 1 .. K, k - 1 \in T PROVE k \in T
  BY <1>2, <1>4, <1>7, <1>9
<1>10. K \in T
  <2> HIDE DEF T
  <2> QED BY <1>2, <1>8, <1>9, IntervalInduction
<1> QED BY <1>1, <1>10 DEF Good

\* The reward of a post is a number.
LEMMA RewardIsNumber ==
  ASSUME NEW r \in Int, NEW funds, funds.balance \in Int, funds.claims \in Int
  PROVE  RshareReward(r, funds) \in Int
<1> DEFINE y == AuthorCurve(r)
           x == Share(funds.balance, y, funds.claims)
<1>1. y \in Int
  BY DEF AuthorCurve
<1> HIDE DEF y
<1>2. x \in Int
  BY <1>1, SharesAreNumbers
<1>3. RshareReward(r, funds) = IF x < MinPayout THEN 0 ELSE x
  BY DEF RshareReward, y
<1> HIDE DEF x
<1> QED BY <1>2, <1>3

\* The payout of one post: what it says was paid is what the accounts have.
LEMMA CashoutMoves ==
  ASSUME NEW s, Amounted(s.d), s.paid \in Int, NEW p \in DOMAIN s.d.comments,
         NEW funds, funds.balance \in Int, funds.claims \in Int
  PROVE  LET t == Cashout(s, p, funds)
         IN  /\ t.paid \in Int /\ Moves(s.d, t.d, s.paid - t.paid) /\ Names(t.d) = Names(s.d)
             /\ Kept(s.d, t.d, {"acct", "gpo"}) /\ NoLoans(s.d, t.d)
<1> DEFINE d == s.d
           c == d.comments[p]
           reward == IF c.net > 0 THEN RshareReward(c.net, funds) ELSE 0
           pool == (reward * 25) \div 100
           curators == PayCurators(d, p, pool)
           q == curators.paid
           unclaimed == IF c.curation THEN pool - q ELSE 0
           author == reward - pool + unclaimed
           benefit == IF c.beneficiary = Self THEN 0 ELSE author \div 2
           liquid == (author - benefit) \div 2
           rest == author - benefit - liquid
           d1 == curators.d
           d2 == IF c.beneficiary = Self THEN d1
                 ELSE CreateRewardVesting(d1, c.beneficiary, benefit)
           d3 == CreateVesting(d2, p[1], rest)
           d4 == AdjustBalance(d3, p[1], liquid)
           fits == c.net > 0 => Fits(funds.balance, AuthorCurve(c.net), funds.claims)
           d5 == [d EXCEPT !.ok = @ /\ fits]
           t == Cashout(s, p, funds)
           N == Names(d)
           Same(e) == Names(e) = N /\ Kept(d, e, {"acct", "gpo"}) /\ NoLoans(d, e)
<1>1. /\ t = IF reward > 0 THEN [d |-> d4, paid |-> s.paid + author + q]
             ELSE [d |-> d5, paid |-> s.paid]
  BY DEF Cashout, PayAuthor
<1>2. /\ c.net \in Int /\ p[1] \in N /\ c.beneficiary \in N \cup {Self} /\ DOMAIN d = TableNames
      /\ Amounted(d) /\ Tabled(d)
  BY AmountedTabled DEF Amounted, CommentTable
<1>3. reward \in Int
  BY <1>2, RewardIsNumber
<1> HIDE DEF reward
<1>4. pool \in Int
  <2> DEFINE y == reward * 25
  <2>1. y \in Int
    BY <1>3
  <2> HIDE DEF y
  <2>2. y \div 100 \in Int
    BY <2>1
  <2> QED BY <2>2 DEF y
<1> HIDE DEF pool
<1>5. q \in Int /\ Moves(d, d1, - q) /\ Same(d1)
  BY <1>2, <1>4, CuratorsMove
<1> HIDE DEF curators, q
<1>6. author \in Int
  BY <1>3, <1>4, <1>5
<1> HIDE DEF author, c
<1>7. benefit \in Int
  BY <1>6
<1>7a. c.beneficiary = Self => benefit = 0
  OBVIOUS
<1> HIDE DEF benefit
<1>8. liquid \in Int
  BY <1>6, <1>7
<1> HIDE DEF liquid
<1>9. rest \in Int
  BY <1>6, <1>7, <1>8
<1>9a. benefit + rest + liquid = author
  BY <1>6, <1>7, <1>8
<1> HIDE DEF rest, d1
<1>10. Moves(d, d2, (- q) + (- benefit)) /\ Same(d2)
  <2>1. CASE c.beneficiary = Self
    <3>1. (- q) + (- benefit) = - q
      <4>1. benefit = 0
        BY <1>7a, <2>1
      <4> QED BY <1>5, <1>7, <4>1
    <3> QED BY <1>5, <2>1, <3>1
  <2>2. CASE c.beneficiary # Self
    <3> DEFINE e == CreateRewardVesting(d1, c.beneficiary, benefit)
    <3>1. c.beneficiary \in Names(d1) /\ Amounted(d1)
      BY <1>2, <1>5, <2>2 DEF Moves
    <3>2. Moves(d1, e, - benefit) /\ Names(e) = Names(d1) /\ Kept(d1, e, {"acct", "gpo"})
      BY <1>7, <3>1, RewardVestingMoves
    <3>2a. NoLoans(d1, e)
      BY <3>1, AmountedTabled, VestingNoLoans
    <3>3. d2 = e
      BY <2>2
    <3> HIDE DEF e, d2
    <3>4. Moves(d, e, (- q) + (- benefit))
      BY <1>2, <1>5, <3>2, MovesTwice
    <3>5. Same(e)
      <4>1. NoLoans(d, e)
        BY <1>2, <1>5, <3>2a, NoLoansTwice
      <4> QED BY <1>5, <3>2, <4>1 DEF Kept
    <3> QED BY <3>3, <3>4, <3>5
  <2> QED BY <2>1, <2>2
<1> HIDE DEF d2
<1>11. Moves(d, d3, ((- q) + (- benefit)) + (- rest)) /\ Same(d3)
  <2>1. p[1] \in Names(d2) /\ Amounted(d2)
    BY <1>2, <1>10 DEF Moves
  <2>2. Moves(d2, d3, - rest) /\ Names(d3) = Names(d2) /\ Kept(d2, d3, {"acct", "gpo"})
    BY <1>9, <2>1, VestingMoves
  <2>2a. NoLoans(d2, d3)
    BY <2>1, AmountedTabled, VestingNoLoans
  <2> HIDE DEF d3
  <2>3. Moves(d, d3, ((- q) + (- benefit)) + (- rest))
    BY <1>2, <1>10, <2>2, MovesTwice
  <2>4. Same(d3)
    <3>1. NoLoans(d, d3)
      BY <1>2, <1>10, <2>2a, NoLoansTwice
    <3> QED BY <1>10, <2>2, <3>1 DEF Kept
  <2> QED BY <2>3, <2>4
<1> HIDE DEF d3
<1>12. Moves(d, d4, (((- q) + (- benefit)) + (- rest)) + (- liquid)) /\ Same(d4)
  <2>1. p[1] \in Names(d3) /\ Amounted(d3)
    BY <1>2, <1>11 DEF Moves
  <2>2. Moves(d3, d4, - liquid) /\ Names(d4) = Names(d3) /\ Kept(d3, d4, {"acct"})
    BY <1>8, <2>1, AdjustMoves
  <2>2a. NoLoans(d3, d4)
    BY <2>1, AmountedTabled, BalancesNoLoans
  <2> HIDE DEF d4
  <2>3. Moves(d, d4, (((- q) + (- benefit)) + (- rest)) + (- liquid))
    BY <1>2, <1>11, <2>2, MovesTwice
  <2>4. Same(d4)
    <3>1. NoLoans(d, d4)
      BY <1>2, <1>11, <2>2a, NoLoansTwice
    <3> QED BY <1>11, <2>2, <3>1 DEF Kept
  <2> QED BY <2>3, <2>4
<1> HIDE DEF d4
<1>13. Moves(d, d5, 0) /\ Same(d5)
  <2>1. Kept(d, d5, {}) /\ d5.acct = d.acct /\ DOMAIN d5 = TableNames
        /\ d5.delegations = d.delegations /\ d5.expiring = d.expiring
    BY <1>2 DEF Kept, MoneyTables, TableNames
  <2> HIDE DEF d5
  <2>2. Moves(d, d5, 0)
    BY <1>2, <2>1, TableMoves
  <2>3. NoLoans(d, d5)
    BY <1>2, <2>1, SameAccounts
  <2> QED BY <2>1, <2>2, <2>3 DEF Kept, Names
<1> HIDE DEF d5, t
<1>14. t.paid \in Int /\ Moves(d, t.d, s.paid - t.paid) /\ Same(t.d)
  <2>1. CASE reward > 0
    <3>1. t.d = d4 /\ t.paid = s.paid + author + q
      BY <1>1, <2>1
    <3>2. (((- q) + (- benefit)) + (- rest)) + (- liquid) = s.paid - t.paid
      BY <1>5, <1>6, <1>7, <1>8, <1>9, <1>9a, <3>1
    <3>3. t.paid \in Int
      BY <1>5, <1>6, <3>1
    <3> QED BY <1>12, <3>1, <3>2, <3>3
  <2>2. CASE ~(reward > 0)
    <3>1. t.d = d5 /\ t.paid = s.paid /\ s.paid - t.paid = 0
      BY <1>1, <2>2
    <3> QED BY <1>13, <3>1
  <2> QED BY <2>1, <2>2
<1> QED BY <1>14 DEF t

\* The posts that are due are paid out one after the other.
LEMMA CashoutWalkMoves ==
  ASSUME NEW d, Amounted(d), NEW due, due \subseteq DOMAIN d.comments,
         NEW funds, funds.balance \in Int, funds.claims \in Int
  PROVE  LET s == CashoutWalk(d, due, funds)
         IN  /\ s.paid \in Int /\ Moves(d, s.d, - s.paid) /\ Names(s.d) = Names(d)
             /\ Kept(d, s.d, {"acct", "gpo"}) /\ NoLoans(d, s.d)
<1> DEFINE K == Cardinality(due)
           a == [d |-> d, paid |-> 0, left |-> due]
           Step(s) == CashoutNext(s, funds)
           P(g) == g = [k \in 0 .. K |-> IF k = 0 THEN a ELSE Step(g[k - 1])]
           walk == CHOOSE g : P(g)
           Good(s) == /\ s.paid \in Int /\ Moves(d, s.d, - s.paid) /\ Names(s.d) = Names(d)
                      /\ Kept(d, s.d, {"acct", "gpo"}) /\ s.left \subseteq due
                      /\ NoLoans(d, s.d)
<1>1. CashoutWalk(d, due, funds) = walk[K]
  BY DEF CashoutWalk
<1>2. K \in Nat
  <2>1. IsFiniteSet(DOMAIN d.comments)
    BY DEF Amounted, CommentTable
  <2>2. IsFiniteSet(due)
    BY <2>1, FS_Subset
  <2> QED BY <2>2, FS_CardinalityType
<1>3. Good(a)
  <2>1. Moves(d, d, 0) /\ DOMAIN d = TableNames /\ NoLoans(d, d)
    BY MovesNot, AmountedTabled DEF Amounted
  <2>2. /\ a.paid \in Int /\ a.paid = 0 /\ a.paid + a.paid = 0
        /\ a.d = d /\ a.left \subseteq due
    OBVIOUS
  <2> HIDE DEF a
  <2>3. \A z \in Int : z + z = 0 => - z = z
    OBVIOUS
  <2>4. - a.paid = a.paid
    BY <2>2, <2>3
  <2>5. Moves(d, a.d, - a.paid)
    BY <2>1, <2>2, <2>4
  <2> QED BY <2>1, <2>2, <2>5 DEF Kept
<1>4. ASSUME NEW s, Good(s) PROVE Good(Step(s))
  <2> DEFINE posts == s.d.comments
             next == {p \in s.left : \A q \in s.left : ~ByCashoutTime(posts[q], posts[p])}
             p == CHOOSE p \in next : TRUE
             t == Cashout(s, p, funds)
  <2>1. Step(s) = IF next = {} THEN s ELSE [d |-> t.d, paid |-> t.paid, left |-> s.left \ {p}]
    BY DEF CashoutNext
  <2>2. CASE next = {}
    BY <1>4, <2>1, <2>2
  <2>3. CASE next # {}
    <3>1. p \in next
      BY <2>3
    <3>2. p \in s.left /\ p \in due
      BY <1>4, <3>1
    <3>3. Step(s) = [d |-> t.d, paid |-> t.paid, left |-> s.left \ {p}]
      BY <2>1, <2>3
    <3> HIDE DEF p, next, posts, Step
    <3>4. /\ Moves(d, s.d, - s.paid) /\ Amounted(s.d) /\ Names(s.d) = Names(d) /\ s.paid \in Int
          /\ Kept(d, s.d, {"acct", "gpo"}) /\ s.d.comments = d.comments
          /\ NoLoans(d, s.d)
      BY <1>4 DEF Moves, Kept, MoneyTables
    <3>5. p \in DOMAIN s.d.comments
      BY <3>2, <3>4
    <3>6. /\ t.paid \in Int /\ Moves(s.d, t.d, s.paid - t.paid) /\ Names(t.d) = Names(s.d)
          /\ Kept(s.d, t.d, {"acct", "gpo"}) /\ NoLoans(s.d, t.d)
      BY <3>4, <3>5, CashoutMoves
    <3> HIDE DEF t
    <3>6a. NoLoans(d, t.d)
      BY <3>4, <3>6, AmountedTabled, NoLoansTwice
    <3>7. Moves(d, t.d, (- s.paid) + (s.paid - t.paid))
      BY <3>4, <3>6, MovesTwice
    <3>8. (- s.paid) + (s.paid - t.paid) = - t.paid
      BY <3>4, <3>6
    <3>9. Moves(d, t.d, - t.paid) /\ Names(t.d) = Names(d) /\ Kept(d, t.d, {"acct", "gpo"})
      BY <3>4, <3>6, <3>7, <3>8 DEF Kept
    <3>10. s.left \ {p} \subseteq due
      BY <1>4
    <3> QED BY <3>3, <3>6, <3>6a, <3>9, <3>10
  <2> QED BY <2>2, <2>3
<1> HIDE DEF K, a, Step
<1>5. \E g : P(g)
  <2> DEFINE Q(g, m) == /\ g = [k \in 0 .. m |-> g[k]] /\ g[0] = a
                        /\ \A k \in 1 .. m : g[k] = Step(g[k - 1])
             T == {m \in 0 .. K : \E g : Q(g, m)}
  <2>1. 0 \in T
    <3> DEFINE g == [k \in 0 .. 0 |-> a]
    <3>1. Q(g, 0)
      OBVIOUS
    <3> HIDE DEF Q, g
    <3> QED BY <1>2, <3>1
  <2>2. ASSUME NEW m \in 1 .. K, m - 1 \in T PROVE m \in T
    <3>1. PICK f : Q(f, m - 1)
      BY <2>2
    <3> DEFINE g == [k \in 0 .. m |-> IF k = m THEN Step(f[m - 1]) ELSE f[k]]
    <3>2. Q(g, m)
      <4>1. g[0] = a /\ g = [k \in 0 .. m |-> g[k]]
        BY <1>2, <3>1
      <4>2. ASSUME NEW k \in 1 .. m PROVE g[k] = Step(g[k - 1])
        <5>1. g[k - 1] = f[k - 1] /\ (k # m => g[k] = f[k]) /\ (k = m => g[k] = Step(f[m - 1]))
          BY <1>2
        <5>2. k # m => f[k] = Step(f[k - 1])
          <6> SUFFICES ASSUME k # m PROVE f[k] = Step(f[k - 1])
            OBVIOUS
          <6>1. k \in 1 .. (m - 1)
            BY <1>2
          <6> QED BY <3>1, <6>1
        <5> HIDE DEF g
        <5>3. CASE k = m
          BY <5>1, <5>3
        <5>4. CASE k # m
          BY <5>1, <5>2, <5>4
        <5> QED BY <5>3, <5>4
      <4> HIDE DEF g
      <4> QED BY <4>1, <4>2
    <3> HIDE DEF Q, g
    <3> QED BY <1>2, <3>2
  <2>3. K \in T
    <3> HIDE DEF T
    <3> QED BY <1>2, <2>1, <2>2, IntervalInduction
  <2>4. PICK g : Q(g, K)
    <3> HIDE DEF Q
    <3> QED BY <2>3
  <2>5. P(g)
    <3>1. ASSUME NEW k \in 0 .. K PROVE g[k] = IF k = 0 THEN a ELSE Step(g[k - 1])
      <4>1. CASE k = 0
        BY <2>4, <4>1
      <4>2. CASE k # 0
        <5>1. k \in 1 .. K
          BY <1>2, <4>2
        <5> QED BY <2>4, <4>2, <5>1
      <4> QED BY <4>1, <4>2
    <3>2. [k \in 0 .. K |-> g[k]] = [k \in 0 .. K |-> IF k = 0 THEN a ELSE Step(g[k - 1])]
      BY <3>1
    <3> QED BY <2>4, <3>2, Zenon
  <2> QED BY <2>5
<1>6. P(walk)
  <2> HIDE DEF P
  <2> QED BY <1>5
<1> HIDE DEF walk
<1>7. walk[0] = a /\ \A k \in 1 .. K : walk[k] = Step(walk[k - 1])
  BY <1>2, <1>6
<1> DEFINE T == {k \in 0 .. K : Good(walk[k])}
<1> HIDE DEF P, Good
<1>8. 0 \in T
  BY <1>2, <1>3, <1>7
<1>9. ASSUME NEW k \in 1 .. K, k - 1 \in T PROVE k \in T
  BY <1>2, <1>4, <1>7, <1>9
<1>10. K \in T
  <2> HIDE DEF T
  <2> QED BY <1>2, <1>8, <1>9, IntervalInduction
<1> QED BY <1>1, <1>10 DEF Good

\* The claims that are left and those that are new are numbers.
LEMMA ClaimsAreNumbers ==
  ASSUME NEW d, Amounted(d), NEW due, due \subseteq DOMAIN d.comments, NEW now \in Int
  PROVE  Decayed(d.fund.claims, now - d.fund.update) + NewClaims(d, due) \in Int
<1>1. d.fund.claims \in Int /\ d.fund.update \in Int
  BY DEF Amounted
<1>2. Decayed(d.fund.claims, now - d.fund.update) \in Int
  <2> DEFINE c == d.fund.claims
             x == now - d.fund.update
             y == c * x
  <2>1. x \in Int
    BY <1>1
  <2> HIDE DEF x
  <2>2. y \in Int
    BY <1>1, <2>1
  <2>3. DecayTime \in Nat \ {0}
    BY ContentAssumption
  <2>4. Decayed(c, x) = c - y \div DecayTime
    BY DEF Decayed
  <2> HIDE DEF y, c
  <2>5. Decayed(c, x) \in Int
    BY <1>1, <2>2, <2>3, <2>4 DEF c
  <2> QED BY <2>5 DEF c, x
<1>3. NewClaims(d, due) \in Int
  <2> DEFINE S == {p \in due : d.comments[p].net > 0}
             f == [p \in S |-> AuthorCurve(d.comments[p].net)]
  <2>1. IsFiniteSet(DOMAIN d.comments) /\ S \subseteq DOMAIN d.comments
    BY DEF Amounted, CommentTable
  <2>2. IsFiniteSet(S)
    BY <2>1, FS_Subset
  <2>3. \A p \in S : f[p] \in Int
    BY DEF Amounted, CommentTable, AuthorCurve
  <2>4. S \in SUBSET S /\ DOMAIN f = S
    OBVIOUS
  <2>5. NewClaims(d, due) = SumFunctionOnSet(f, S)
    BY <2>4 DEF NewClaims, SumFunction
  <2> HIDE DEF f, S
  <2> QED BY <2>2, <2>3, <2>4, <2>5, SumFacts
<1> QED BY <1>2, <1>3

\* Closed posts and the votes on them are tables as before.
LEMMA ClosedTables ==
  ASSUME NEW d, Amounted(d), NEW due, NEW now
  PROVE  LET e == ClosePosts(d, due, now)
         IN  /\ Kept(d, e, {"comments", "votes"})
             /\ CommentTable(e.comments, Names(d)) /\ VoteTable(e.votes, Names(d))
<1> DEFINE t == d.comments
           u == [p \in DOMAIN t |-> IF p \in due THEN Closed(t[p], now) ELSE t[p]]
           v == d.votes
           w == [k \in DOMAIN v |-> IF k[2] \in due THEN [v[k] EXCEPT !.changes = -1] ELSE v[k]]
           e == ClosePosts(d, due, now)
<1>1. DOMAIN d = TableNames /\ CommentTable(t, Names(d)) /\ VoteTable(v, Names(d))
  BY DEF Amounted
<1>2. e = [d EXCEPT !.comments = u, !.votes = w]
  BY DEF ClosePosts
<1>3. CommentTable(u, Names(d))
  <2>1. ASSUME NEW p \in DOMAIN t, p \in due PROVE CommentOK(p, Closed(t[p], now), Names(d))
    <3> DEFINE c == t[p]
    <3>1. CommentOK(p, c, Names(d))
      BY <1>1 DEF CommentTable, CommentOK
    <3> HIDE DEF c
    <3>2. CommentOK(p, Closed(c, now), Names(d))
      BY <3>1 DEF CommentOK, Closed
    <3> QED BY <3>2 DEF c
  <2>2. DOMAIN u = DOMAIN t /\ \A p \in DOMAIN t : u[p] = t[p] \/ CommentOK(p, u[p], Names(d))
    BY <2>1
  <2> HIDE DEF u
  <2>3. \A p \in DOMAIN t : CommentOK(p, t[p], Names(d))
    BY <1>1 DEF CommentTable, CommentOK
  <2>4. \A p \in DOMAIN u : CommentOK(p, u[p], Names(d))
    BY <2>2, <2>3
  <2>5. IsFiniteSet(DOMAIN u)
    BY <1>1, <2>2 DEF CommentTable
  <2> QED BY <2>4, <2>5 DEF CommentTable, CommentOK
<1>4. VoteTable(w, Names(d))
  <2>1. \A k \in DOMAIN v : VoteOK(k, v[k], Names(d))
    BY <1>1 DEF VoteTable, VoteOK
  <2>2. ASSUME NEW k \in DOMAIN v PROVE VoteOK(k, w[k], Names(d))
    <3> DEFINE o == v[k]
               z == [o EXCEPT !.changes = -1]
    <3>1. VoteOK(k, o, Names(d)) /\ w[k] = IF k[2] \in due THEN z ELSE o
      BY <2>1
    <3>2. VoteOK(k, z, Names(d))
      <4> HIDE DEF o
      <4> QED BY <3>1 DEF VoteOK
    <3> HIDE DEF o, z, w
    <3> QED BY <3>1, <3>2
  <2>3. DOMAIN w = DOMAIN v
    OBVIOUS
  <2> HIDE DEF w
  <2>4. IsFiniteSet(DOMAIN w)
    BY <1>1, <2>3 DEF VoteTable
  <2> QED BY <2>2, <2>3, <2>4 DEF VoteTable, VoteOK
<1> HIDE DEF u, w
<1>5. Kept(d, e, {"comments", "votes"}) /\ e.comments = u /\ e.votes = w
  BY <1>1, <1>2 DEF Kept, MoneyTables, TableNames
<1> HIDE DEF e
<1>6. /\ Kept(d, e, {"comments", "votes"})
      /\ CommentTable(e.comments, Names(d)) /\ VoteTable(e.votes, Names(d))
  BY <1>3, <1>4, <1>5
<1> QED BY <1>6 DEF e

\* process_comment_cashout(): the fund loses what the accounts are paid.
LEMMA PayoutsMove ==
  ASSUME NEW d, Amounted(d), NEW now \in Int, NEW n
  PROVE  LET e == ProcessCommentCashout(d, now, n) IN Moves(d, e, 0) /\ Names(e) = Names(d)
<1> DEFINE due == DuePosts(d, now)
           claims == Decayed(d.fund.claims, now - d.fund.update) + NewClaims(d, due)
           funds == [balance |-> d.fund.balance, claims |-> claims]
           s == CashoutWalk(d, due, funds)
           w == s.d
           c == ClosePosts(d, due, now)
           left == [balance |-> c.fund.balance - s.paid, claims |-> funds.claims, update |-> now]
           f == [c EXCEPT !.acct = w.acct, !.gpo = w.gpo, !.tally = w.tally, !.ok = w.ok,
                          !.fund = left]
           e == ProcessCommentCashout(d, now, n)
<1>1. e = IF n <= FirstPayout THEN d ELSE f
  BY DEF ProcessCommentCashout, PaidOut
<1>2. d.fund.balance \in Int /\ DOMAIN d = TableNames /\ due \subseteq DOMAIN d.comments
  BY DEF Amounted, DuePosts
<1>3. claims \in Int
  BY <1>2, ClaimsAreNumbers
<1> HIDE DEF claims, due
<1>4. funds.balance \in Int /\ funds.claims = claims /\ funds.claims \in Int
  BY <1>2, <1>3
<1> HIDE DEF funds
<1>5. /\ s.paid \in Int /\ Moves(d, w, - s.paid) /\ Names(w) = Names(d)
      /\ Kept(d, w, {"acct", "gpo"})
  BY <1>2, <1>4, CashoutWalkMoves
<1>6. /\ Kept(d, c, {"comments", "votes"})
      /\ CommentTable(c.comments, Names(d)) /\ VoteTable(c.votes, Names(d))
  BY ClosedTables
<1> HIDE DEF c, s
<1>7. c.fund = d.fund /\ w.fund = d.fund
  BY <1>5, <1>6 DEF Kept, MoneyTables
<1>8. FundOK(left) /\ left.balance = d.fund.balance - s.paid
  BY <1>2, <1>4, <1>5, <1>7 DEF FundOK
<1> HIDE DEF left
<1>9. DOMAIN c = TableNames /\ DOMAIN w = TableNames /\ Amounted(w)
  BY <1>5, <1>6 DEF Kept, Moves
<1> DEFINE v == [w EXCEPT !.fund = left]
<1>10. Kept(w, v, {"fund"}) /\ v.fund = left /\ v.acct = w.acct
  BY <1>9 DEF Kept, MoneyTables, TableNames
<1>11. /\ DOMAIN f = TableNames /\ f.acct = w.acct /\ f.gpo = w.gpo /\ f.fund = left
       /\ \A k \in MoneyTables \ {"acct", "gpo", "fund"} : f[k] = c[k]
  BY <1>9 DEF TableNames, MoneyTables
<1> HIDE DEF f, v
<1>12. v.gpo = w.gpo /\ \A k \in MoneyTables \ {"acct", "gpo", "fund"} : v[k] = d[k]
  BY <1>5, <1>10 DEF Kept, MoneyTables
<1>13. /\ \A k \in MoneyTables \ {"comments", "votes"} : c[k] = d[k]
       /\ f.comments = c.comments /\ f.votes = c.votes
  BY <1>6, <1>11 DEF Kept, MoneyTables
<1>14. Kept(v, f, {"comments", "votes"}) /\ Names(f) = Names(d) /\ Names(v) = Names(d)
  BY <1>5, <1>10, <1>11, <1>12, <1>13 DEF Kept, MoneyTables, Names
<1>15. Moves(w, v, w.fund.balance - v.fund.balance)
  BY <1>8, <1>9, <1>10, TableMoves
<1>16. w.fund.balance - v.fund.balance = s.paid
  BY <1>2, <1>5, <1>7, <1>8, <1>10
<1>17. Moves(d, v, (- s.paid) + s.paid)
  BY <1>5, <1>15, <1>16, MovesTwice
<1>18. (- s.paid) + s.paid = 0
  BY <1>5
<1>19. Amounted(v) /\ Moves(d, v, 0)
  BY <1>17, <1>18 DEF Moves
<1>20. CommentTable(f.comments, Names(v)) /\ VoteTable(f.votes, Names(v))
  BY <1>6, <1>13, <1>14
<1>21. Moves(v, f, 0)
  BY <1>14, <1>19, <1>20, TableMoves
<1>22. Moves(d, f, 0 + 0)
  BY <1>19, <1>21, MovesTwice
<1>23. Moves(d, d, 0)
  BY MovesNot
<1> HIDE DEF e
<1>24. Moves(d, e, 0) /\ Names(e) = Names(d)
  BY <1>1, <1>14, <1>22, <1>23
<1> QED BY <1>24 DEF e

\* The work at the end of a block.
LEMMA BlockWorkBalances ==
  ASSUME NEW d, Balanced(d), NEW now \in Int, now <= MaxTime, NEW n
  PROVE  Balanced(BlockWork(d, now, n))
<1> DEFINE a1 == ClearExpiredOrders(d, now)
           a2 == ClearExpiredDelegations(a1, now)
           a3 == ClearNullAccountBalance(a2)
           a4 == ProcessCommentCashout(a3, now, n)
           a5 == ProcessVestingWithdrawals(a4, now)
           a6 == CustomTokensEmissions(a5, now, n)
           a7 == ProcessSavingsReward(a6, n)
           a8 == ExpireEscrowRatification(a7, now)
           a9 == ProcessDeclineVotingRights(a8, now)
           a10 == BurnInitRep(a9, n)
<1>0. BlockWork(d, now, n) = a10
  BY DEF BlockWork
<1>1. Balanced(a1)
  <2>1. Moves(d, a1, 0)
    BY ExpiredOrdersMove DEF Balanced
  <2> QED BY <2>1, StillBalanced
<1> HIDE DEF a1
<1>2. Balanced(a2)
  <2>1. Moves(a1, a2, 0)
    BY <1>1, ExpiredDelegationsMove DEF Balanced
  <2> QED BY <1>1, <2>1, StillBalanced
<1> HIDE DEF a2
<1>3. Balanced(a3)
  <2>1. Moves(a2, a3, 0)
    BY <1>2, NullMoves DEF Balanced
  <2> QED BY <1>2, <2>1, StillBalanced
<1> HIDE DEF a3
<1>4. Balanced(a4)
  <2>1. Moves(a3, a4, 0)
    BY <1>3, PayoutsMove DEF Balanced
  <2> QED BY <1>3, <2>1, StillBalanced
<1> HIDE DEF a4
<1>5. Balanced(a5)
  <2>1. Moves(a4, a5, 0)
    BY <1>4, WithdrawalsMove DEF Balanced
  <2> QED BY <1>4, <2>1, StillBalanced
<1> HIDE DEF a5
<1>6. Balanced(a6)
  BY <1>5, EmissionsBalance
<1> HIDE DEF a6
<1>7. Balanced(a7)
  <2>1. Moves(a6, a7, 0)
    BY <1>6, SavingsRewardMoves DEF Balanced
  <2> QED BY <1>6, <2>1, StillBalanced
<1> HIDE DEF a7
<1>8. Balanced(a8)
  <2>1. Moves(a7, a8, 0)
    BY <1>7, ExpiredEscrowsMove DEF Balanced
  <2> QED BY <1>7, <2>1, StillBalanced
<1> HIDE DEF a8
<1>9. Balanced(a9)
  <2>1. Moves(a8, a9, 0)
    BY <1>8, DeclinesMove DEF Balanced
  <2> QED BY <1>8, <2>1, StillBalanced
<1> HIDE DEF a9
<1>10. Balanced(a10)
  <2>1. Moves(a9, a10, 0)
    BY <1>9, BurnMoves DEF Balanced
  <2> QED BY <1>9, <2>1, StillBalanced
<1> QED BY <1>0, <1>10

\* An operation.
LEMMA OperationBalances ==
  ASSUME Exact, LedgerOperation PROVE Balanced(db')
<1>1. Balanced(db)
  BY DEF Exact
<1>2. ASSUME TransferOperation \/ EscrowOperation \/ MarketOperation \/ ContentOrderOperation
             \/ EncryptedOperation \/ SavingsOperation \/ RouteOperation
             \/ VotingOperation \/ RightsOperation \/ DelegationOperation
             \/ ThreadOperation \/ OptionsOperation \/ VoteOperation
      PROVE  Balanced(db')
  <2>1. Moves(db, db', 0)
    BY <1>2, TransferBalances, EscrowBalances, MarketBalances, ContentOrderBalances,
       SavingsBalances, VotingBalances, RightsBalances, DelegationBalances, ThreadBalances,
       OptionsBalances, VoteBalances
  <2> QED BY <1>1, <2>1, StillBalanced
<1>3. ASSUME TokenOperation PROVE Balanced(db')
  BY <1>3, TokenBalances
<1> QED BY <1>2, <1>3 DEF LedgerOperation

\* What is exact stays exact.
LEMMA StepIsExact ==
  ASSUME Exact, [Next]_vars PROVE Exact'
<1>1. CASE LedgerOperation /\ UNCHANGED <<headVars, happens, recoveryVars>>
  <2>1. Balanced(db')
    BY <1>1, OperationBalances
  <2>2. time' = time /\ num' = num
    BY <1>1 DEF headVars
  <2> QED BY <2>1, <2>2 DEF Exact, Balanced, Amounted, Names, SupplyExact, VestsExact, TokensExact
<1>2. CASE UNCHANGED <<headVars, happens, db>> \/ UNCHANGED vars
  BY <1>2 DEF vars, headVars, Exact
<1>3. CASE EndBlock
  <2>1. time' \in Int /\ time' <= MaxTime /\ num' \in Int /\ db' = BlockWork(db, time', num')
    BY <1>3 DEF EndBlock, NextHead, Exact
  <2>2. Balanced(db')
    BY <2>1, BlockWorkBalances DEF Exact
  <2> QED BY <2>1, <2>2 DEF Exact
<1> QED BY <1>1, <1>2, <1>3 DEF Next

-----------------------------------------------------------------------------
\* Operations and work of a block that lend nothing.

\* transfer.
LEMMA TransferNoLoans ==
  ASSUME Tabled(db), TransferOperation PROVE NoLoans(db, db')
<1>1. PICK from \in Users, to \in Payees, x \in Amounts : Transfer(from, to, x)
  BY DEF TransferOperation
<1> DEFINE c == AdjustBalance(db, from, -x)
<1>2. NoLoans(db, c) /\ Tabled(c)
  BY BalancesNoLoans, StillTabled
<1> HIDE DEF c
<1>3. NoLoans(c, AdjustBalance(c, to, x)) /\ db' = AdjustBalance(c, to, x)
  BY <1>1, <1>2, BalancesNoLoans DEF Transfer, c
<1> QED BY <1>2, <1>3, NoLoansTwice

\* A balance is adjusted and another table changed.
LEMMA PaidNoLoans ==
  ASSUME NEW d, Tabled(d), NEW a, NEW x, NEW t
  PROVE  LET c == AdjustBalance(d, a, x)
         IN  /\ NoLoans(d, [c EXCEPT !.escrows = t]) /\ NoLoans(d, [c EXCEPT !.orders = t])
             /\ NoLoans(d, [c EXCEPT !.content = t])
<1> DEFINE c == AdjustBalance(d, a, x)
<1>1. NoLoans(d, c)
  BY BalancesNoLoans
<1> HIDE DEF c
<1>2. DOMAIN c = TableNames
  BY <1>1 DEF NoLoans
<1>3. NoLoans(d, [c EXCEPT !.escrows = t])
  <2> DEFINE e == [c EXCEPT !.escrows = t]
  <2>1. DOMAIN e = DOMAIN c /\ e.acct = c.acct /\ e.delegations = c.delegations
        /\ e.expiring = c.expiring
    BY <1>2 DEF TableNames
  <2> QED BY <1>1, <2>1, OthersNoLoans
<1>4. NoLoans(d, [c EXCEPT !.orders = t])
  <2> DEFINE e == [c EXCEPT !.orders = t]
  <2>1. DOMAIN e = DOMAIN c /\ e.acct = c.acct /\ e.delegations = c.delegations
        /\ e.expiring = c.expiring
    BY <1>2 DEF TableNames
  <2> QED BY <1>1, <2>1, OthersNoLoans
<1>5. NoLoans(d, [c EXCEPT !.content = t])
  <2> DEFINE e == [c EXCEPT !.content = t]
  <2>1. DOMAIN e = DOMAIN c /\ e.acct = c.acct /\ e.delegations = c.delegations
        /\ e.expiring = c.expiring
    BY <1>2 DEF TableNames
  <2> QED BY <1>1, <2>1, OthersNoLoans
<1> QED BY <1>3, <1>4, <1>5 DEF c

\* Operations on escrows.
LEMMA EscrowNoLoans ==
  ASSUME Tabled(db), EscrowOperation PROVE NoLoans(db, db')
<1>1. ASSUME NEW t, db' = [db EXCEPT !.escrows = t] PROVE NoLoans(db, db')
  <2>1. DOMAIN db' = TableNames /\ db'.acct = db.acct /\ db'.delegations = db.delegations
        /\ db'.expiring = db.expiring
    BY <1>1 DEF Tabled, TableNames
  <2> QED BY <2>1, SameAccounts
<1>2. \/ \E a, x, t : db' = [AdjustBalance(db, a, x) EXCEPT !.escrows = t]
      \/ \E t : db' = [db EXCEPT !.escrows = t]
  <2>1. ASSUME NEW from, NEW to, NEW agent, NEW id, NEW x, NEW fee, NEW ratify, NEW expire,
               EscrowTransfer(from, to, agent, id, x, fee, ratify, expire)
        PROVE  \E a, y, t : db' = [AdjustBalance(db, a, y) EXCEPT !.escrows = t]
    BY <2>1 DEF EscrowTransfer
  <2>2. ASSUME NEW k, NEW who, EscrowApprove(k, who) PROVE <1>2!:
    BY <2>2 DEF EscrowApprove
  <2>3. ASSUME NEW k, NEW who, EscrowReject(k, who) PROVE <1>2!:
    BY <2>3 DEF EscrowReject
  <2>4. ASSUME NEW k, EscrowDispute(k) PROVE <1>2!:
    BY <2>4 DEF EscrowDispute
  <2>5. ASSUME NEW k, NEW who, NEW receiver, NEW x, EscrowRelease(k, who, receiver, x)
        PROVE  <1>2!:
    BY <2>5 DEF EscrowRelease
  <2> QED BY <2>1, <2>2, <2>3, <2>4, <2>5 DEF EscrowOperation
<1>3. CASE \E a, x, t : db' = [AdjustBalance(db, a, x) EXCEPT !.escrows = t]
  <2>1. PICK a, x, t : db' = [AdjustBalance(db, a, x) EXCEPT !.escrows = t]
    BY <1>3
  <2>2. NoLoans(db, [AdjustBalance(db, a, x) EXCEPT !.escrows = t])
    BY PaidNoLoans
  <2> QED BY <2>1, <2>2
<1> QED BY <1>1, <1>2, <1>3

\* Orders on the market.
LEMMA MarketNoLoans ==
  ASSUME Tabled(db), MarketOperation PROVE NoLoans(db, db')
<1>1. \E a, x, t : db' = [AdjustBalance(db, a, x) EXCEPT !.orders = t]
  <2>1. ASSUME NEW a, NEW id, NEW x, NEW expire, LimitOrderCreate(a, id, x, expire) PROVE <1>1!:
    BY <2>1 DEF LimitOrderCreate
  <2>2. ASSUME NEW a, NEW id, LimitOrderCancel(a, id) PROVE <1>1!:
    BY <2>2 DEF LimitOrderCancel, CancelOrder
  <2> QED BY <2>1, <2>2 DEF MarketOperation
<1>2. PICK a, x, t : db' = [AdjustBalance(db, a, x) EXCEPT !.orders = t]
  BY <1>1
<1>3. NoLoans(db, [AdjustBalance(db, a, x) EXCEPT !.orders = t])
  BY PaidNoLoans
<1> QED BY <1>2, <1>3

\* A new post or answer with the emission for it.
LEMMA PostedNoLoans ==
  ASSUME NEW d, Tabled(d), NEW p, NEW parent, NEW price
  PROVE  NoLoans(d, Posted(d, p, parent, price))
<1> DEFINE root == IF parent = NoPost THEN p ELSE d.comments[parent].root
           v == NewComment(root, parent, price)
           r == [d.acct[p[1]] EXCEPT !.lastPost = time,
                                     !.lastRootPost = IF parent = NoPost THEN time ELSE @]
           new == [d EXCEPT
                     !.comments = With(@, p, NewComment(root, parent, price)),
                     !.acct[p[1]].lastPost = time,
                     !.acct[p[1]].lastRootPost = IF parent = NoPost THEN time ELSE @]
           e == CountChildren(new, p, 1)
           x == IF parent = NoPost THEN PostRate ELSE CommentRate
<1>1. Posted(d, p, parent, price) = ProcessFunds(e, x)
  BY DEF Posted
<1>2. NoLoans(d, new)
  <2>1. new = [d EXCEPT !.comments = With(@, p, v), !.acct[p[1]].lastPost = time,
                        !.acct[p[1]].lastRootPost = IF parent = NoPost THEN time ELSE @]
    OBVIOUS
  <2> HIDE DEF v, new
  <2> DEFINE a == p[1]
  <2>2. new = [d EXCEPT !.comments = With(@, p, v), !.acct[a].lastPost = time,
                        !.acct[a].lastRootPost = IF parent = NoPost THEN time ELSE @]
    BY <2>1
  <2> HIDE DEF a
  <2> QED BY <2>2 DEF NoLoans, SameDebts, Tabled, Owing, TableNames
<1> HIDE DEF new, x
<1>3. Tabled(new)
  BY <1>2, StillTabled
<1>4. DOMAIN e = DOMAIN new /\ e.acct = new.acct /\ e.delegations = new.delegations
      /\ e.expiring = new.expiring
  BY <1>3 DEF CountChildren, Tabled, TableNames
<1> HIDE DEF e
<1>5. NoLoans(d, e)
  BY <1>2, <1>4, OthersNoLoans
<1>6. NoLoans(e, ProcessFunds(e, x))
  BY <1>5, StillTabled, VestingNoLoans
<1> QED BY <1>1, <1>5, <1>6, NoLoansTwice

\* The end of an order for content.
LEMMA EndOrderNoLoans ==
  ASSUME NEW d, Tabled(d), NEW k, NEW a, NEW status
  PROVE  NoLoans(d, EndOrder(d, k, a, status))
<1> DEFINE c == AdjustBalance(d, a, d.content[k].price)
           t == [c.content EXCEPT ![k].status = status]
<1>1. DOMAIN c = TableNames
  BY BalancesNoLoans DEF NoLoans
<1> HIDE DEF c
<1>2. [c EXCEPT !.content[k].status = status] = [c EXCEPT !.content = t]
  BY <1>1 DEF TableNames
<1>3. EndOrder(d, k, a, status) = [c EXCEPT !.content = t]
  BY <1>2 DEF EndOrder, c
<1>4. NoLoans(d, [c EXCEPT !.content = t])
  <2> HIDE DEF t
  <2> QED BY PaidNoLoans DEF c
<1> QED BY <1>3, <1>4

\* Orders for content.
LEMMA ContentOrderNoLoans ==
  ASSUME Tabled(db), ContentOrderOperation \/ EncryptedOperation PROVE NoLoans(db, db')
<1>1. ASSUME NEW a, NEW p, NEW x, ContentOrderCreate(a, p, x) PROVE NoLoans(db, db')
  <2>1. PICK t : db' = [AdjustBalance(db, a, -x) EXCEPT !.content = t]
    BY <1>1 DEF ContentOrderCreate
  <2>2. NoLoans(db, [AdjustBalance(db, a, -x) EXCEPT !.content = t])
    BY PaidNoLoans
  <2> QED BY <2>1, <2>2
<1>2. ASSUME NEW a, NEW k, ContentOrderCancel(a, k) PROVE NoLoans(db, db')
  BY <1>2, EndOrderNoLoans DEF ContentOrderCancel
<1>3. ASSUME NEW k, ContentOrderCancelByAuthor(k) PROVE NoLoans(db, db')
  BY <1>3, EndOrderNoLoans DEF ContentOrderCancelByAuthor
<1>4. ASSUME NEW p, NEW q, NEW x, NEW k, EncryptedContent(p, q, x, k) PROVE NoLoans(db, db')
  <2> DEFINE d == IF k = 0 THEN db ELSE EndOrder(db, k, p[1], "completed")
  <2>1. NoLoans(db, d)
    BY EndOrderNoLoans, SameAccounts DEF Tabled
  <2>2. db' = d \/ db' = Posted(d, p, q, x)
    BY <1>4 DEF EncryptedContent
  <2> HIDE DEF d
  <2>3. NoLoans(d, Posted(d, p, q, x))
    BY <2>1, StillTabled, PostedNoLoans
  <2> QED BY <2>1, <2>2, <2>3, NoLoansTwice
<1> QED BY <1>1, <1>2, <1>3, <1>4 DEF ContentOrderOperation, EncryptedOperation

\* Posts and answers.
LEMMA ThreadNoLoans ==
  ASSUME Tabled(db), ThreadOperation PROVE NoLoans(db, db')
<1>1. ASSUME NEW p, NEW q, Comment(p, q) PROVE NoLoans(db, db')
  BY <1>1, PostedNoLoans DEF Comment
<1>2. ASSUME NEW p, DeleteComment(p) PROVE NoLoans(db, db')
  <2> DEFINE d == CountChildren(db, p, -1)
  <2>1. db' = [d EXCEPT !.comments = Restrict(@, DOMAIN @ \ {p}),
                        !.votes = Restrict(@, DOMAIN @ \ VotesOn(d, p))]
    BY <1>2 DEF DeleteComment
  <2>2. DOMAIN d = TableNames /\ d.acct = db.acct /\ d.delegations = db.delegations
        /\ d.expiring = db.expiring
    BY DEF CountChildren, Tabled, TableNames
  <2> HIDE DEF d
  <2>3. DOMAIN db' = TableNames /\ db'.acct = db.acct /\ db'.delegations = db.delegations
        /\ db'.expiring = db.expiring
    BY <2>1, <2>2 DEF TableNames
  <2> QED BY <2>3, SameAccounts
<1> QED BY <1>1, <1>2 DEF ThreadOperation

\* Payout options.
LEMMA OptionsNoLoans ==
  ASSUME Tabled(db), OptionsOperation PROVE NoLoans(db, db')
<1>1. DOMAIN db' = TableNames /\ db'.acct = db.acct /\ db'.delegations = db.delegations
      /\ db'.expiring = db.expiring
  BY DEF OptionsOperation, CommentOptions, NameBeneficiary, Tabled, TableNames
<1> QED BY <1>1, SameAccounts

\* Votes on posts.
LEMMA VoteNoLoans ==
  ASSUME Tabled(db), VoteOperation PROVE NoLoans(db, db')
<1>1. ASSUME NEW a, NEW c, NEW v,
             NEW d, d = [db EXCEPT !.acct[a].lastVote = time, !.comments = c, !.votes = v]
      PROVE  NoLoans(db, d)
  BY <1>1 DEF NoLoans, SameDebts, Tabled, Owing, TableNames
<1>2. ASSUME NEW a, NEW p, NEW r, Vote(a, p, r) PROVE NoLoans(db, db')
  <2>1. PICK c, v : db' = ProcessFunds([db EXCEPT !.acct[a].lastVote = time,
                                                  !.comments[p] = c, !.votes = v], VoteRate)
    BY <1>2 DEF Vote
  <2> DEFINE u == [db.comments EXCEPT ![p] = c]
             d == [db EXCEPT !.acct[a].lastVote = time, !.comments = u, !.votes = v]
  <2>2. [db EXCEPT !.acct[a].lastVote = time, !.comments[p] = c, !.votes = v] = d
    BY DEF Tabled, TableNames
  <2>3. NoLoans(db, d) /\ db' = ProcessFunds(d, VoteRate)
    BY <1>1, <2>1, <2>2
  <2> HIDE DEF d
  <2>4. NoLoans(d, ProcessFunds(d, VoteRate))
    BY <2>3, StillTabled, VestingNoLoans
  <2> QED BY <2>3, <2>4, NoLoansTwice
<1>3. ASSUME NEW a, NEW p, NEW r, ChangeVote(a, p, r) PROVE NoLoans(db, db')
  <2>1. PICK c, w : db' = [db EXCEPT !.acct[a].lastVote = time, !.comments[p] = c,
                                     !.votes[<<a, p>>] = w]
    BY <1>3 DEF ChangeVote
  <2> DEFINE u == [db.comments EXCEPT ![p] = c]
             v == [db.votes EXCEPT ![<<a, p>>] = w]
  <2>2. db' = [db EXCEPT !.acct[a].lastVote = time, !.comments = u, !.votes = v]
    BY <2>1 DEF Tabled, TableNames
  <2> QED BY <1>1, <2>2
<1> QED BY <1>2, <1>3 DEF VoteOperation

\* Savings.
LEMMA SavingsNoLoans ==
  ASSUME Tabled(db), SavingsOperation \/ RouteOperation PROVE NoLoans(db, db')
<1>1. ASSUME NEW from, NEW to, NEW x, TransferToSavings(from, to, x) PROVE NoLoans(db, db')
  <2> DEFINE c == AdjustBalance(db, from, -x)
  <2>1. NoLoans(db, c) /\ Tabled(c)
    BY BalancesNoLoans, StillTabled
  <2>2. db' = AdjustSavings(c, to, x)
    BY <1>1 DEF TransferToSavings
  <2> HIDE DEF c
  <2> QED BY <2>1, <2>2, BalancesNoLoans, NoLoansTwice
<1>2. ASSUME NEW a, NEW x, WithdrawSavings(a, x) PROVE NoLoans(db, db')
  <2>1. PICK rate : db' = [db EXCEPT !.acct[a] = [@ EXCEPT
                    !.rate = rate, !.nextWithdrawal = time + IntervalTime,
                    !.toWithdraw = x, !.withdrawn = 0]]
    BY <1>2 DEF WithdrawSavings
  <2> QED BY <2>1 DEF NoLoans, SameDebts, Tabled, Owing, TableNames
<1>3. ASSUME NEW a, StopWithdrawal(a) PROVE NoLoans(db, db')
  BY <1>3 DEF StopWithdrawal, NoLoans, SameDebts, Tabled, Owing, TableNames
<1>4. ASSUME NEW a, NEW b, NEW percent, NEW v, SetWithdrawRoute(a, b, percent, v)
      PROVE  NoLoans(db, db')
  <2>1. PICK t : db' = [db EXCEPT !.routes = t]
    BY <1>4 DEF SetWithdrawRoute
  <2> QED BY <2>1 DEF NoLoans, SameDebts, Tabled, Owing, TableNames
<1> QED BY <1>1, <1>2, <1>3, <1>4 DEF SavingsOperation, RouteOperation

\* Proxies and votes for witnesses.
LEMMA VotingNoLoans ==
  ASSUME Tabled(db), VotingOperation PROVE NoLoans(db, db')
<1>0. ASSUME NEW d, Tabled(d), NEW a, NEW proxy PROVE NoLoans(d, [d EXCEPT !.acct[a].proxy = proxy])
  BY <1>0 DEF NoLoans, SameDebts, Tabled, Owing, TableNames
<1>1. ASSUME NEW a, NEW proxy, SetProxy(a, proxy) PROVE NoLoans(db, db')
  <2> DEFINE gone == AdjustProxiedWitnessVotes(db, a, VoteDeltas(db, a, -1))
             c == ClearWitnessVotes(gone, a)
             set == [c EXCEPT !.acct[a].proxy = proxy]
             delta == VoteDeltas(db, a, 1)
  <2>1. db' = AdjustProxiedWitnessVotes(set, a, delta)
    BY <1>1 DEF SetProxy
  <2>2. NoLoans(db, gone) /\ Tabled(gone)
    BY WitnessVotesNoLoans, StillTabled
  <2> HIDE DEF gone, delta
  <2>3. NoLoans(gone, c) /\ Tabled(c)
    BY <2>2, BalancesNoLoans, StillTabled
  <2> HIDE DEF c
  <2>4. NoLoans(c, set) /\ Tabled(set)
    BY <1>0, <2>3, StillTabled
  <2> HIDE DEF set
  <2>5. NoLoans(set, AdjustProxiedWitnessVotes(set, a, delta))
    BY <2>4, WitnessVotesNoLoans
  <2>6. NoLoans(db, set)
    BY <2>2, <2>3, <2>4, NoLoansTwice
  <2> QED BY <2>1, <2>5, <2>6, NoLoansTwice
<1>2. ASSUME NEW a, ClearProxy(a) PROVE NoLoans(db, db')
  <2> DEFINE gone == AdjustProxiedWitnessVotes(db, a, VoteDeltas(db, a, -1))
  <2>1. db' = [gone EXCEPT !.acct[a].proxy = Self]
    BY <1>2 DEF ClearProxy
  <2>2. NoLoans(db, gone) /\ Tabled(gone)
    BY WitnessVotesNoLoans, StillTabled
  <2> HIDE DEF gone
  <2> QED BY <1>0, <2>1, <2>2, NoLoansTwice
<1>3. ASSUME NEW a, NEW w, ApproveWitness(a, w) \/ WithdrawWitness(a, w) PROVE NoLoans(db, db')
  <2>1. PICK x, v : db' = [AdjustWitnessVote(db, w, x) EXCEPT !.acct[a].votesFor = v]
    <3>1. CASE ApproveWitness(a, w)
      <4>1. db' = [AdjustWitnessVote(db, w, WitnessVoteWeight(db, a)) EXCEPT
                     !.acct[a].votesFor = AdjustWitnessVote(db, w, WitnessVoteWeight(db, a)).acct[a].votesFor \cup {w}]
        BY <3>1 DEF ApproveWitness
      <4> QED BY <4>1
    <3>2. CASE WithdrawWitness(a, w)
      <4>1. db' = [AdjustWitnessVote(db, w, -WitnessVoteWeight(db, a)) EXCEPT
                     !.acct[a].votesFor = AdjustWitnessVote(db, w, -WitnessVoteWeight(db, a)).acct[a].votesFor \ {w}]
        BY <3>2 DEF WithdrawWitness
      <4> QED BY <4>1
    <3> QED BY <1>3, <3>1, <3>2
  <2> QED BY <2>1 DEF AdjustWitnessVote, NoLoans, SameDebts, Tabled, Owing, TableNames
<1> QED BY <1>1, <1>2, <1>3 DEF VotingOperation

\* Rights and claims.
LEMMA RightsNoLoans ==
  ASSUME Tabled(db), RightsOperation PROVE NoLoans(db, db')
<1>1. ASSUME NEW a, DeclineVotingRights(a) \/ CancelDecline(a) PROVE NoLoans(db, db')
  BY <1>1 DEF DeclineVotingRights, CancelDecline, NoLoans, SameDebts, Tabled, Owing, TableNames
<1>2. ASSUME NEW a, NEW bmt, NEW vests, ClaimReward(a, bmt, vests) PROVE NoLoans(db, db')
  <2> DEFINE moved == ClaimedBmt(db.acct[a], vests)
             c == AdjustReward(db, a, -bmt)
             paid == AdjustBalance(c, a, bmt)
             r == [paid.acct[a] EXCEPT !.vests = @ + vests, !.rewardVests = @ - vests,
                                       !.rewardVestsBmt = @ - moved]
             d == [paid EXCEPT
                     !.acct[a].vests = @ + vests,
                     !.acct[a].rewardVests = @ - vests,
                     !.acct[a].rewardVestsBmt = @ - moved,
                     !.gpo.vestingShares = @ + vests,
                     !.gpo.vestingFund = @ + moved,
                     !.gpo.pendingShares = @ - vests,
                     !.gpo.pendingBmt = @ - moved]
  <2>1. db' = AdjustOwnWitnessVotes(d, a, vests)
    BY <1>2 DEF ClaimReward
  <2>2. NoLoans(db, c) /\ Tabled(c)
    BY BalancesNoLoans, StillTabled
  <2> HIDE DEF c, moved
  <2>3. NoLoans(c, paid) /\ Tabled(paid)
    BY <2>2, BalancesNoLoans, StillTabled
  <2> HIDE DEF paid
  <2>4. DOMAIN d = TableNames /\ d.acct = [paid.acct EXCEPT ![a] = r]
        /\ d.delegations = paid.delegations /\ d.expiring = paid.expiring
    BY <2>3 DEF Tabled, TableNames
  <2>5. a \in DOMAIN paid.acct => /\ DOMAIN r = DOMAIN paid.acct[a]
                                  /\ r.delegated = paid.acct[a].delegated
                                  /\ r.received = paid.acct[a].received
    BY <2>3 DEF Tabled, Owing
  <2> HIDE DEF r, d
  <2>6. NoLoans(paid, d) /\ Tabled(d)
    BY <2>3, <2>4, <2>5, OneNoLoans, StillTabled
  <2>7. NoLoans(db, d)
    BY <2>2, <2>3, <2>6, NoLoansTwice
  <2> QED BY <2>1, <2>6, <2>7, WitnessVotesNoLoans, NoLoansTwice
<1> QED BY <1>1, <1>2 DEF RightsOperation

\* Custom tokens.
LEMMA TokenNoLoans ==
  ASSUME Tabled(db), TokenOperation PROVE NoLoans(db, db')
<1>1. ASSUME NEW a, NEW s, NEW x, NEW fee, TokenCreate(a, s, x, fee) PROVE NoLoans(db, db')
  <2> DEFINE c == AdjustBalance(db, a, -fee)
  <2>1. NoLoans(db, c) /\ DOMAIN c = TableNames
    BY BalancesNoLoans DEF NoLoans
  <2>2. PICK t, h, f : db' = [c EXCEPT !.tokens = t, !.holdings = h, !.fund.balance = f]
    <3> HIDE DEF c
    <3>1. PICK v : db' = [c EXCEPT !.tokens = With(c.tokens, s, v),
                                   !.holdings = With(c.holdings, <<a, s>>, x),
                                   !.fund.balance = c.fund.balance + fee]
      BY <1>1 DEF TokenCreate, c
    <3> QED BY <3>1
  <2> HIDE DEF c
  <2>3. DOMAIN db' = DOMAIN c /\ db'.acct = c.acct /\ db'.delegations = c.delegations
        /\ db'.expiring = c.expiring
    BY <2>1, <2>2 DEF TableNames
  <2> QED BY <2>1, <2>3, OthersNoLoans
<1>2. ASSUME NEW a, NEW b, NEW s, NEW x, TokenTransfer(a, b, s, x) PROVE NoLoans(db, db')
  <2>1. DOMAIN db' = TableNames /\ db'.acct = db.acct /\ db'.delegations = db.delegations
        /\ db'.expiring = db.expiring
    BY <1>2 DEF TokenTransfer, Tabled, TableNames
  <2> QED BY <2>1, SameAccounts
<1>3. ASSUME NEW s, NEW r, NEW at, NEW step, SetupEmissions(s, r, at, step) PROVE NoLoans(db, db')
  <2>1. DOMAIN db' = TableNames /\ db'.acct = db.acct /\ db'.delegations = db.delegations
        /\ db'.expiring = db.expiring
    BY <1>3 DEF SetupEmissions, Tabled, TableNames
  <2> QED BY <2>1, SameAccounts
<1> QED BY <1>1, <1>2, <1>3 DEF TokenOperation

\* The work at the end of a block that leaves delegations alone.
LEMMA PaybacksNoLoans ==
  ASSUME NEW d, Tabled(d), NEW now
  PROVE  NoLoans(d, ClearExpiredOrders(d, now)) /\ NoLoans(d, ExpireEscrowRatification(d, now))
<1>1. ASSUME NEW who, NEW x, NEW K
      PROVE  /\ NoLoans(d, [PayEach(d, who, x) EXCEPT !.orders = Restrict(@, DOMAIN @ \ K)])
             /\ NoLoans(d, [PayEach(d, who, x) EXCEPT !.escrows = Restrict(@, DOMAIN @ \ K)])
  <2> DEFINE c == PayEach(d, who, x)
             e == [c EXCEPT !.orders = Restrict(@, DOMAIN @ \ K)]
             f == [c EXCEPT !.escrows = Restrict(@, DOMAIN @ \ K)]
  <2>1. NoLoans(d, c) /\ DOMAIN c = TableNames
    BY BalancesNoLoans DEF NoLoans
  <2> HIDE DEF c
  <2>2. /\ DOMAIN e = DOMAIN c /\ e.acct = c.acct /\ e.delegations = c.delegations
        /\ e.expiring = c.expiring
        /\ DOMAIN f = DOMAIN c /\ f.acct = c.acct /\ f.delegations = c.delegations
        /\ f.expiring = c.expiring
    BY <2>1 DEF TableNames
  <2> HIDE DEF e, f
  <2>3. NoLoans(d, e) /\ NoLoans(d, f)
    BY <2>1, <2>2, OthersNoLoans
  <2> QED BY <2>3 DEF c, e, f
<1>2. NoLoans(d, ClearExpiredOrders(d, now))
  BY <1>1 DEF ClearExpiredOrders
<1>3. NoLoans(d, ExpireEscrowRatification(d, now))
  BY <1>1 DEF ExpireEscrowRatification
<1> QED BY <1>2, <1>3

\* Rewards of savings, emissions, the end of voting rights and the burning of vests.
LEMMA RewardsNoLoans ==
  ASSUME NEW d, Tabled(d), NEW now, NEW n
  PROVE  /\ NoLoans(d, ProcessSavingsReward(d, n)) /\ NoLoans(d, CustomTokensEmissions(d, now, n))
         /\ NoLoans(d, ProcessDeclineVotingRights(d, now)) /\ NoLoans(d, BurnInitRep(d, n))
<1>0. NoLoans(d, d)
  BY SameAccounts DEF Tabled
<1>1. NoLoans(d, ProcessSavingsReward(d, n))
  <2>1. ASSUME NEW reward, NEW x, NEW y
        PROVE  NoLoans(d, [d EXCEPT !.acct = [a \in Names(d) |->
                                       [d.acct[a] EXCEPT !.savings = @ + reward[a]]],
                                    !.gpo.supply = @ + x, !.gpo.lastSupply = y])
    BY DEF NoLoans, SameDebts, Tabled, Owing, TableNames, Names
  <2> QED BY <1>0, <2>1 DEF ProcessSavingsReward
<1>2. NoLoans(d, CustomTokensEmissions(d, now, n))
  <2>1. ASSUME NEW t PROVE NoLoans(d, [d EXCEPT !.tokens = t])
    BY DEF NoLoans, SameDebts, Tabled, TableNames
  <2> QED BY <1>0, <2>1 DEF CustomTokensEmissions
<1>3. NoLoans(d, ProcessDeclineVotingRights(d, now))
  <2> DEFINE due == {a \in DOMAIN d.declines : d.declines[a] <= now}
             ended == VotingRightsEnded(d, due)
             e == ProcessDeclineVotingRights(d, now)
  <2>1. e = [d EXCEPT !.acct = [a \in Names(d) |-> WithVotes(d.acct[a], ended.acct[a])],
                      !.tally = ended.tally, !.ok = ended.ok,
                      !.declines = Restrict(@, DOMAIN @ \ due)]
    BY DEF ProcessDeclineVotingRights
  <2> HIDE DEF ended, e
  <2>2. /\ DOMAIN e = TableNames /\ e.delegations = d.delegations /\ e.expiring = d.expiring
        /\ e.acct = [a \in Names(d) |-> WithVotes(d.acct[a], ended.acct[a])]
    BY <2>1 DEF Tabled, TableNames
  <2>3. ASSUME NEW s, NEW t, {"delegated", "received"} \subseteq DOMAIN s
        PROVE  /\ DOMAIN WithVotes(s, t) = DOMAIN s
               /\ WithVotes(s, t).delegated = s.delegated /\ WithVotes(s, t).received = s.received
    BY <2>3 DEF WithVotes
  <2>4. SameDebts(d.acct, e.acct)
    BY <2>2, <2>3 DEF SameDebts, Tabled, Owing, Names
  <2>5. NoLoans(d, e)
    BY <2>2, <2>4 DEF NoLoans
  <2> QED BY <2>5 DEF e
<1>4. NoLoans(d, BurnInitRep(d, n))
  <2>1. NoLoans(d, [d EXCEPT !.acct[InitMiner].vests = @ - InitRep,
                   !.gpo.supply = @ - InitRep \div 1000,
                   !.gpo.vestingShares = @ - InitRep,
                   !.gpo.vestingFund = @ - InitRep \div 1000])
    BY DEF NoLoans, SameDebts, Tabled, Owing, TableNames
  <2> QED BY <1>0, <2>1 DEF BurnInitRep
<1> QED BY <1>1, <1>2, <1>3, <1>4

\* Withdrawals and payouts.
LEMMA PayoutsNoLoans ==
  ASSUME NEW d, Amounted(d), NEW now \in Int, now <= MaxTime, NEW n
  PROVE  /\ NoLoans(d, ProcessVestingWithdrawals(d, now))
         /\ NoLoans(d, ProcessCommentCashout(d, now, n))
<1>0. Tabled(d) /\ NoLoans(d, d)
  BY AmountedTabled
<1>1. NoLoans(d, ProcessVestingWithdrawals(d, now))
  <2> DEFINE w == WithdrawalWalk(d, now)
             e == ProcessVestingWithdrawals(d, now)
  <2>1. NoLoans(d, w)
    BY WithdrawalWalkMoves
  <2>2. e = [d EXCEPT !.acct = w.acct, !.ok = w.ok]
    BY DEF ProcessVestingWithdrawals
  <2> HIDE DEF w, e
  <2>3. DOMAIN e = TableNames /\ e.acct = w.acct /\ e.delegations = d.delegations
        /\ e.expiring = d.expiring
    BY <1>0, <2>2 DEF Tabled, TableNames
  <2>4. NoLoans(d, e)
    BY <2>1, <2>3 DEF NoLoans
  <2> QED BY <2>4 DEF e
<1>2. NoLoans(d, ProcessCommentCashout(d, now, n))
  <2> DEFINE due == DuePosts(d, now)
             claims == Decayed(d.fund.claims, now - d.fund.update) + NewClaims(d, due)
             funds == [balance |-> d.fund.balance, claims |-> claims]
             s == CashoutWalk(d, due, funds)
             w == s.d
             c == ClosePosts(d, due, now)
             e == PaidOut(c, s, funds.claims, now)
  <2>1. ProcessCommentCashout(d, now, n) = IF n <= FirstPayout THEN d ELSE e
    BY DEF ProcessCommentCashout
  <2>2. d.fund.balance \in Int /\ due \subseteq DOMAIN d.comments
    BY DEF Amounted, DuePosts
  <2>3. claims \in Int
    BY <2>2, ClaimsAreNumbers
  <2> HIDE DEF claims, due
  <2>4. funds.balance \in Int /\ funds.claims \in Int
    BY <2>2, <2>3
  <2> HIDE DEF funds
  <2>5. NoLoans(d, w)
    BY <2>2, <2>4, CashoutWalkMoves
  <2> HIDE DEF s
  <2>6. DOMAIN c = TableNames /\ c.delegations = d.delegations /\ c.expiring = d.expiring
    BY <1>0 DEF ClosePosts, Tabled, TableNames
  <2> HIDE DEF c
  <2>7. DOMAIN e = TableNames /\ e.acct = w.acct /\ e.delegations = d.delegations
        /\ e.expiring = d.expiring
    BY <2>6 DEF PaidOut, TableNames
  <2> HIDE DEF e, w
  <2>8. NoLoans(d, e)
    BY <2>5, <2>7 DEF NoLoans
  <2> QED BY <1>0, <2>1, <2>8
<1> QED BY <1>1, <1>2

-----------------------------------------------------------------------------
\* What is lent, borrowed and on its way back, account by account.

\* Sums of vests in entries of a table.
LEMMA SharesSum ==
  ASSUME NEW t, NEW K, IsFiniteSet(K), \A k \in K : t[k].shares \in Int
  PROVE  /\ \A A \in SUBSET K : SharesOf(t, A) \in Int
         /\ SharesOf(t, {}) = 0
         /\ \A A \in SUBSET K : \A k \in A : SharesOf(t, A) = t[k].shares + SharesOf(t, A \ {k})
<1> DEFINE f == [k \in K |-> t[k].shares]
<1>1. \A k \in K : f[k] \in Int
  OBVIOUS
<1>2. \A A \in SUBSET K : SharesOf(t, A) = SumFunctionOnSet(f, A)
  <2> TAKE A \in SUBSET K
  <2> DEFINE h == [k \in A |-> t[k].shares]
  <2>1. IsFiniteSet(A)
    BY FS_Subset
  <2>2. \A k \in A : f[k] \in Int /\ h[k] = f[k]
    OBVIOUS
  <2>3. SharesOf(t, A) = SumFunctionOnSet(h, A)
    BY DEF SharesOf, SumFunction
  <2> HIDE DEF h, f
  <2>4. SumFunctionOnSet(h, A) = SumFunctionOnSet(f, A)
    BY <2>1, <2>2, SumsAgree
  <2> QED BY <2>3, <2>4
<1>3. \A k \in K : f[k] = t[k].shares
  OBVIOUS
<1> HIDE DEF f
<1>4. /\ \A A \in SUBSET K : SumFunctionOnSet(f, A) \in Int
      /\ SumFunctionOnSet(f, {}) = 0
      /\ \A A \in SUBSET K : \A x \in A :
               SumFunctionOnSet(f, A) = f[x] + SumFunctionOnSet(f, A \ {x})
  BY <1>1, SumFacts
<1>5. \A A \in SUBSET K : SharesOf(t, A) \in Int
  BY <1>2, <1>4
<1>6. SharesOf(t, {}) = 0
  BY <1>2, <1>4
<1>7. ASSUME NEW A \in SUBSET K, NEW k \in A
      PROVE  SharesOf(t, A) = t[k].shares + SharesOf(t, A \ {k})
  <2>1. A \ {k} \in SUBSET K /\ k \in K
    OBVIOUS
  <2> QED BY <1>2, <1>3, <1>4, <2>1
<1> QED BY <1>5, <1>6, <1>7

\* Entries with the same vests.
LEMMA SharesAgree ==
  ASSUME NEW t, NEW u, NEW K, IsFiniteSet(K),
         \A k \in K : t[k].shares \in Int /\ u[k].shares = t[k].shares
  PROVE  SharesOf(u, K) = SharesOf(t, K)
<1> DEFINE f == [k \in K |-> t[k].shares]
           h == [k \in K |-> u[k].shares]
<1>1. \A k \in K : f[k] \in Int /\ h[k] = f[k]
  OBVIOUS
<1>2. SharesOf(t, K) = SumFunctionOnSet(f, K) /\ SharesOf(u, K) = SumFunctionOnSet(h, K)
  BY DEF SharesOf, SumFunction
<1> HIDE DEF f, h
<1> QED BY <1>1, <1>2, SumsAgree

\* One entry comes, goes or changes.
LEMMA SharesDiffer ==
  ASSUME NEW t, NEW A, IsFiniteSet(A), \A x \in A : t[x].shares \in Int,
         NEW u, NEW B, NEW k, A \ {k} = B \ {k}, \A x \in A \ {k} : u[x].shares = t[x].shares,
         k \in B => u[k].shares \in Int
  PROVE  /\ SharesOf(t, A) \in Int /\ SharesOf(u, B) \in Int /\ IsFiniteSet(B)
         /\ SharesOf(u, B) = SharesOf(t, A) - (IF k \in A THEN t[k].shares ELSE 0)
                                           + (IF k \in B THEN u[k].shares ELSE 0)
<1> DEFINE C == A \ {k}
<1>1. IsFiniteSet(C) /\ C \in SUBSET A /\ A \in SUBSET A
  BY FS_Subset
<1>2. IsFiniteSet(B)
  <2>1. B \subseteq C \cup {k} /\ IsFiniteSet(C \cup {k})
    BY <1>1, FS_AddElement
  <2> QED BY <2>1, FS_Subset
<1>3. \A x \in C : t[x].shares \in Int /\ u[x].shares = t[x].shares
  OBVIOUS
<1>4. \A x \in B : u[x].shares \in Int
  BY <1>3
<1>5. SharesOf(u, C) = SharesOf(t, C)
  <2> HIDE DEF C
  <2> QED BY <1>1, <1>3, SharesAgree
<1>6. /\ SharesOf(t, A) \in Int /\ SharesOf(t, C) \in Int
      /\ k \in A => SharesOf(t, A) = t[k].shares + SharesOf(t, C)
  <2>1. /\ \A D \in SUBSET A : SharesOf(t, D) \in Int
        /\ \A D \in SUBSET A : \A x \in D : SharesOf(t, D) = t[x].shares + SharesOf(t, D \ {x})
    BY SharesSum
  <2>2. SharesOf(t, A) \in Int /\ SharesOf(t, C) \in Int
    BY <1>1, <2>1
  <2>3. ASSUME k \in A PROVE SharesOf(t, A) = t[k].shares + SharesOf(t, A \ {k})
    BY <1>1, <2>1, <2>3
  <2> QED BY <2>2, <2>3
<1>7. SharesOf(u, B) \in Int /\ (k \in B => SharesOf(u, B) = u[k].shares + SharesOf(u, B \ {k}))
  <2>1. B \in SUBSET B
    OBVIOUS
  <2> QED BY <1>2, <1>4, <2>1, SharesSum
<1>8. C = B \ {k} /\ (k \notin A => A = C) /\ (k \notin B => B = C)
  OBVIOUS
<1>9. /\ k \in A => t[k].shares \in Int
      /\ k \in B => u[k].shares \in Int
  OBVIOUS
<1> HIDE DEF C
<1>10. SharesOf(u, B) = SharesOf(t, C) + (IF k \in B THEN u[k].shares ELSE 0)
  <2>1. CASE k \in B
    <3>1. SharesOf(u, B) = u[k].shares + SharesOf(t, C) /\ u[k].shares \in Int
      BY <1>5, <1>7, <1>8, <1>9, <2>1
    <3> QED BY <1>6, <2>1, <3>1
  <2>2. CASE k \notin B
    <3>1. SharesOf(u, B) = SharesOf(t, C)
      BY <1>5, <1>8, <2>2
    <3> QED BY <1>6, <2>2, <3>1
  <2> QED BY <2>1, <2>2
<1>11. SharesOf(t, C) = SharesOf(t, A) - (IF k \in A THEN t[k].shares ELSE 0)
  <2>1. CASE k \in A
    BY <1>6, <1>9, <2>1
  <2>2. CASE k \notin A
    <3>1. SharesOf(t, C) = SharesOf(t, A)
      BY <1>8, <2>2
    <3> QED BY <1>6, <2>2, <3>1
  <2> QED BY <2>1, <2>2
<1> QED BY <1>2, <1>6, <1>7, <1>9, <1>10, <1>11

\* Tables of delegations in order that add up.
Owed(d) == Lending(d) /\ LoansExact(d)

\* They stay so when nothing is lent.
LEMMA StillOwed ==
  ASSUME NEW d, Owed(d), NEW e, NoLoans(d, e)
  PROVE  Owed(e)
<1>1. e.delegations = d.delegations /\ e.expiring = d.expiring /\ Names(e) = Names(d)
  BY DEF NoLoans, SameDebts, Names
<1>2. Lending(e)
  BY <1>1 DEF Owed, Lending
<1>3. \A a \in Names(d) : e.acct[a].delegated = d.acct[a].delegated
                          /\ e.acct[a].received = d.acct[a].received
  BY DEF NoLoans, SameDebts, Names
<1>4. LoansExact(e)
  BY <1>1, <1>3 DEF Owed, LoansExact, Lent, Returning, Borrowed
<1> QED BY <1>2, <1>4 DEF Owed

\* The sums are numbers.
LEMMA LoansAreNumbers ==
  ASSUME NEW d, Lending(d), NEW a
  PROVE  Lent(d, a) \in Int /\ Borrowed(d, a) \in Int /\ Returning(d, a) \in Int
<1>1. IsFiniteSet(DOMAIN d.delegations) /\ \A k \in DOMAIN d.delegations : d.delegations[k].shares \in Int
  BY DEF Lending
<1>2. Lent(d, a) \in Int /\ Borrowed(d, a) \in Int
  <2> DEFINE t == d.delegations
             K == DOMAIN t
  <2>1. \A A \in SUBSET K : SharesOf(t, A) \in Int
    <3> HIDE DEF t
    <3> QED BY <1>1, SharesSum DEF t
  <2> QED BY <2>1 DEF Lent, Borrowed
<1>3. Returning(d, a) \in Int
  <2> DEFINE t == d.expiring
             K == DOMAIN t
  <2>1. IsFiniteSet(K) /\ \A k \in K : t[k].shares \in Int
    <3>1. t \in Seq(Range(t)) /\ \A k \in K : t[k].shares \in Int
      BY DEF Lending
    <3> HIDE DEF t
    <3>2. K = 1 .. Len(t) /\ Len(t) \in Nat
      BY <3>1
    <3>3. IsFiniteSet(1 .. Len(t))
      BY <3>2, FS_Interval
    <3> QED BY <3>1, <3>2, <3>3
  <2>2. \A A \in SUBSET K : SharesOf(t, A) \in Int
    <3> HIDE DEF t
    <3> QED BY <2>1, SharesSum
  <2> QED BY <2>2 DEF Returning
<1> QED BY <1>2, <1>3

\* The delegation from p to q is old in d and new in e, where 0 is none.
Becomes(d, e, p, q, old, new) ==
    LET k == <<p, q>>
    IN  /\ DOMAIN d.delegations \ {k} = DOMAIN e.delegations \ {k}
        /\ \A x \in DOMAIN d.delegations \ {k} : e.delegations[x] = d.delegations[x]
        /\ old = (IF k \in DOMAIN d.delegations THEN d.delegations[k].shares ELSE 0)
        /\ new = (IF k \in DOMAIN e.delegations THEN e.delegations[k].shares ELSE 0)

\* One delegation comes, goes or changes: what the one has lent and the other
\* has borrowed changes by as much.
LEMMA DelegationChanges ==
  ASSUME NEW d, Lending(d), NEW e, NEW p, NEW q, NEW old, NEW new \in Int,
         Becomes(d, e, p, q, old, new)
  PROVE  /\ old \in Int /\ IsFiniteSet(DOMAIN e.delegations)
         /\ \A a : Lent(e, a) = Lent(d, a) + (IF a = p THEN new - old ELSE 0)
         /\ \A a : Borrowed(e, a) = Borrowed(d, a) + (IF a = q THEN new - old ELSE 0)
<1> DEFINE k == <<p, q>>
<1> DEFINE t == d.delegations
           u == e.delegations
           L(w, a) == {x \in DOMAIN w : x[1] = a}
           B(w, a) == {x \in DOMAIN w : x[2] = a}
<1>1. /\ IsFiniteSet(DOMAIN t) /\ \A x \in DOMAIN t : t[x].shares \in Int
      /\ DOMAIN t \ {k} = DOMAIN u \ {k} /\ \A x \in DOMAIN t \ {k} : u[x] = t[x]
      /\ old = (IF k \in DOMAIN t THEN t[k].shares ELSE 0)
      /\ new = (IF k \in DOMAIN u THEN u[k].shares ELSE 0)
  BY DEF Lending, Becomes
<1>2. /\ \A a : Lent(d, a) = SharesOf(t, L(t, a)) /\ Lent(e, a) = SharesOf(u, L(u, a))
      /\ \A a : Borrowed(d, a) = SharesOf(t, B(t, a)) /\ Borrowed(e, a) = SharesOf(u, B(u, a))
  BY DEF Lent, Borrowed
<1> HIDE DEF t, u
<1>3. old \in Int /\ k[1] = p /\ k[2] = q
  BY <1>1
<1> HIDE DEF k
<1>4. IsFiniteSet(DOMAIN u)
  <2>1. DOMAIN u \subseteq DOMAIN t \cup {k} /\ IsFiniteSet(DOMAIN t \cup {k})
    BY <1>1, FS_AddElement
  <2> QED BY <2>1, FS_Subset
<1>5. ASSUME NEW G, NEW H, G \in SUBSET DOMAIN t, H \in SUBSET DOMAIN u, G \ {k} = H \ {k},
             k \in G => k \in DOMAIN t, k \in H => k \in DOMAIN u,
             NEW yes \in BOOLEAN, k \in DOMAIN t => (k \in G <=> yes), k \in DOMAIN u => (k \in H <=> yes)
      PROVE  SharesOf(u, H) = SharesOf(t, G) + (IF yes THEN new - old ELSE 0)
  <2>1. IsFiniteSet(G) /\ \A x \in G : t[x].shares \in Int
    BY <1>1, <1>5, FS_Subset
  <2>2. \A x \in G \ {k} : u[x].shares = t[x].shares
    BY <1>1, <1>5
  <2>3. k \in H => u[k].shares \in Int
    BY <1>1, <1>5
  <2>4. /\ SharesOf(t, G) \in Int
        /\ SharesOf(u, H) = SharesOf(t, G) - (IF k \in G THEN t[k].shares ELSE 0)
                                           + (IF k \in H THEN u[k].shares ELSE 0)
    BY <1>5, <2>1, <2>2, <2>3, SharesDiffer
  <2>5. CASE yes
    <3>1. (IF k \in G THEN t[k].shares ELSE 0) = old /\ (IF k \in H THEN u[k].shares ELSE 0) = new
      BY <1>1, <1>5, <2>5
    <3> QED BY <1>3, <2>4, <2>5, <3>1
  <2>6. CASE ~yes
    <3>1. (IF k \in G THEN t[k].shares ELSE 0) = 0 /\ (IF k \in H THEN u[k].shares ELSE 0) = 0
      BY <1>5, <2>6
    <3> QED BY <2>4, <2>6, <3>1
  <2> QED BY <2>5, <2>6
<1>6. ASSUME NEW a PROVE SharesOf(u, L(u, a)) = SharesOf(t, L(t, a)) + (IF a = p THEN new - old ELSE 0)
  <2> DEFINE G == L(t, a)
             H == L(u, a)
             yes == (a = p)
  <2>1. /\ G \in SUBSET DOMAIN t /\ H \in SUBSET DOMAIN u /\ G \ {k} = H \ {k}
        /\ (k \in G => k \in DOMAIN t) /\ (k \in H => k \in DOMAIN u)
        /\ (k \in DOMAIN t => (k \in G <=> yes)) /\ (k \in DOMAIN u => (k \in H <=> yes))
    BY <1>1, <1>3
  <2>2. yes \in BOOLEAN
    OBVIOUS
  <2> HIDE DEF G, H, yes
  <2>3. SharesOf(u, H) = SharesOf(t, G) + (IF yes THEN new - old ELSE 0)
    BY <1>5, <2>1, <2>2
  <2> QED BY <2>3 DEF G, H, yes
<1>7. ASSUME NEW a PROVE SharesOf(u, B(u, a)) = SharesOf(t, B(t, a)) + (IF a = q THEN new - old ELSE 0)
  <2> DEFINE G == B(t, a)
             H == B(u, a)
             yes == (a = q)
  <2>1. /\ G \in SUBSET DOMAIN t /\ H \in SUBSET DOMAIN u /\ G \ {k} = H \ {k}
        /\ (k \in G => k \in DOMAIN t) /\ (k \in H => k \in DOMAIN u)
        /\ (k \in DOMAIN t => (k \in G <=> yes)) /\ (k \in DOMAIN u => (k \in H <=> yes))
    BY <1>1, <1>3
  <2>2. yes \in BOOLEAN
    OBVIOUS
  <2> HIDE DEF G, H, yes
  <2>3. SharesOf(u, H) = SharesOf(t, G) + (IF yes THEN new - old ELSE 0)
    BY <1>5, <2>1, <2>2
  <2> QED BY <2>3 DEF G, H, yes
<1> HIDE DEF L, B
<1> QED BY <1>2, <1>3, <1>4, <1>6, <1>7 DEF u

\* What comes back to an account out of a sequence of entries.
Returns(q, a) == SharesOf(q, {i \in DOMAIN q : q[i].from = a})

\* One more is on its way back.
LEMMA ReturnsAppend ==
  ASSUME NEW S, NEW q \in Seq(S), \A i \in DOMAIN q : q[i].shares \in Int,
         NEW o \in S, o.shares \in Int, NEW a
  PROVE  /\ Returns(q, a) \in Int
         /\ Returns(Append(q, o), a) = Returns(q, a) + (IF o.from = a THEN o.shares ELSE 0)
<1> DEFINE r == Append(q, o)
           n == Len(q)
           k == n + 1
           A == {i \in DOMAIN q : q[i].from = a}
           B == {i \in DOMAIN r : r[i].from = a}
<1>1. n \in Nat /\ DOMAIN q = 1 .. n
  OBVIOUS
<1>2. DOMAIN r = 1 .. k /\ r[k] = o /\ \A i \in 1 .. n : r[i] = q[i]
  BY AppendProperties
<1>3. Returns(q, a) = SharesOf(q, A) /\ Returns(r, a) = SharesOf(r, B)
  BY DEF Returns
<1>4. IsFiniteSet(A)
  <2>1. A \subseteq 1 .. n
    BY <1>1
  <2> HIDE DEF A, n
  <2>2. IsFiniteSet(1 .. n)
    BY <1>1, FS_Interval
  <2> QED BY <2>1, <2>2, FS_Subset
<1> HIDE DEF r, n
<1>5. k \notin A /\ A \ {k} = B \ {k} /\ (k \in B <=> o.from = a)
  BY <1>1, <1>2
<1>6. /\ \A x \in A : q[x].shares \in Int
      /\ \A x \in A \ {k} : r[x].shares = q[x].shares
      /\ k \in B => r[k].shares \in Int
  BY <1>1, <1>2
<1> HIDE DEF A, B, k
<1>7. /\ SharesOf(q, A) \in Int
      /\ SharesOf(r, B) = SharesOf(q, A) - (IF k \in A THEN q[k].shares ELSE 0)
                                        + (IF k \in B THEN r[k].shares ELSE 0)
  BY <1>4, <1>5, <1>6, SharesDiffer
<1>8. (IF k \in A THEN q[k].shares ELSE 0) = 0
      /\ (IF k \in B THEN r[k].shares ELSE 0) = (IF o.from = a THEN o.shares ELSE 0)
  BY <1>2, <1>5
<1>9. SharesOf(q, A) - 0 = SharesOf(q, A)
  BY <1>7
<1>10. SharesOf(r, B) = SharesOf(q, A) + (IF o.from = a THEN o.shares ELSE 0)
  BY <1>7, <1>8, <1>9
<1> QED BY <1>3, <1>7, <1>10 DEF r

\* e is d after a delegation that becomes x, which is y more than before.
Lends(d, e, p, q, x, y) ==
    LET k == <<p, q>>
    IN  /\ {p, q} \subseteq Names(d) /\ x \in Int
        /\ y = x - (IF k \in DOMAIN d.delegations THEN d.delegations[k].shares ELSE 0)
        /\ e.expiring = d.expiring /\ k \in DOMAIN e.delegations
        /\ DOMAIN d.delegations \ {k} = DOMAIN e.delegations \ {k}
        /\ "shares" \in DOMAIN e.delegations[k] /\ e.delegations[k].shares = x
        /\ \A z \in DOMAIN d.delegations \ {k} : e.delegations[z] = d.delegations[z]
        /\ e.acct = [d.acct EXCEPT ![p].delegated = @ + y, ![q].received = @ + y]

\* Vests are delegated, or more of them.
LEMMA LoanMade ==
  ASSUME NEW d, Tabled(d), Owed(d), NEW e, NEW p, NEW q, NEW x, NEW y, Lends(d, e, p, q, x, y)
  PROVE  Owed(e)
<1> DEFINE k == <<p, q>>
<1>a. /\ p \in Names(d) /\ q \in Names(d) /\ x \in Int
      /\ y = x - (IF k \in DOMAIN d.delegations THEN d.delegations[k].shares ELSE 0)
      /\ e.expiring = d.expiring /\ k \in DOMAIN e.delegations
      /\ DOMAIN d.delegations \ {k} = DOMAIN e.delegations \ {k}
      /\ "shares" \in DOMAIN e.delegations[k] /\ e.delegations[k].shares = x
      /\ \A z \in DOMAIN d.delegations \ {k} : e.delegations[z] = d.delegations[z]
      /\ e.acct = [d.acct EXCEPT ![p].delegated = @ + y, ![q].received = @ + y]
  BY DEF Lends
<1>b. k = <<p, q>>
  OBVIOUS
<1> USE <1>a, <1>b
<1> HIDE DEF k
<1> DEFINE t == d.delegations
           u == e.delegations
           old == IF k \in DOMAIN t THEN t[k].shares ELSE 0
<1>0. Lending(d) /\ LoansExact(d) /\ Owing(d.acct) /\ k[1] = p /\ k[2] = q
  BY DEF Owed, Tabled
<1>2. ASSUME NEW z \in DOMAIN u
      PROVE  {z[1], z[2]} \subseteq Names(d) /\ "shares" \in DOMAIN u[z] /\ u[z].shares \in Int
  <2>1. CASE z = k
    BY <1>0, <2>1
  <2>2. CASE z # k
    <3>1. z \in DOMAIN t /\ u[z] = t[z]
      BY <2>2
    <3> QED BY <1>0, <3>1 DEF Lending
  <2> QED BY <2>1, <2>2
<1>3. x = (IF k \in DOMAIN u THEN u[k].shares ELSE 0)
  OBVIOUS
<1>4. y = x - old
  OBVIOUS
<1>5. /\ old \in Int /\ IsFiniteSet(DOMAIN u)
      /\ \A a : Lent(e, a) = Lent(d, a) + (IF a = p THEN y ELSE 0)
      /\ \A a : Borrowed(e, a) = Borrowed(d, a) + (IF a = q THEN y ELSE 0)
  <2>1. /\ old \in Int /\ IsFiniteSet(DOMAIN u)
        /\ \A a : Lent(e, a) = Lent(d, a) + (IF a = p THEN x - old ELSE 0)
        /\ \A a : Borrowed(e, a) = Borrowed(d, a) + (IF a = q THEN x - old ELSE 0)
    <3>1. Becomes(d, e, p, q, old, x)
      BY <1>3 DEF Becomes
    <3> HIDE DEF old
    <3> QED BY <1>0, <3>1, DelegationChanges
  <2> HIDE DEF old
  <2> QED BY <1>4, <2>1
<1> HIDE DEF old
<1>6. Names(e) = Names(d)
  BY DEF Names
<1>7. Lending(e)
  BY <1>0, <1>2, <1>5, <1>6 DEF Lending
<1>8. ASSUME NEW a \in Names(e)
      PROVE  /\ e.acct[a].delegated = Lent(e, a) + Returning(e, a)
             /\ e.acct[a].received = Borrowed(e, a)
  <2>1. /\ a \in Names(d) /\ d.acct[a].delegated = Lent(d, a) + Returning(d, a)
        /\ d.acct[a].received = Borrowed(d, a)
    BY <1>0, <1>6, <1>8 DEF LoansExact
  <2>2. Lent(d, a) \in Int /\ Borrowed(d, a) \in Int /\ Returning(d, a) \in Int /\ y \in Int
    BY <1>0, <1>4, <1>5, LoansAreNumbers
  <2>3. Returning(e, a) = Returning(d, a)
    BY DEF Returning
  <2>4. /\ e.acct[a].delegated = d.acct[a].delegated + (IF a = p THEN y ELSE 0)
        /\ e.acct[a].received = d.acct[a].received + (IF a = q THEN y ELSE 0)
    BY <1>0, <2>1, <2>2 DEF Owing, Names
  <2> QED BY <1>5, <2>1, <2>2, <2>3, <2>4
<1> QED BY <1>7, <1>8 DEF Owed, LoansExact

\* e is d after a delegation that becomes x, which is y less than before.
TakesBack(d, e, p, q, x, y, o) ==
    LET k == <<p, q>>
    IN  /\ {p, q} \subseteq Names(d) /\ x \in Int
        /\ k \in DOMAIN d.delegations /\ y = d.delegations[k].shares - x
        /\ o.from = p /\ o.shares = y /\ e.expiring = Append(d.expiring, o)
        /\ DOMAIN d.delegations \ {k} = DOMAIN e.delegations \ {k}
        /\ k \in DOMAIN e.delegations =>
              "shares" \in DOMAIN e.delegations[k] /\ e.delegations[k].shares = x
        /\ k \notin DOMAIN e.delegations => x = 0
        /\ \A z \in DOMAIN d.delegations \ {k} : e.delegations[z] = d.delegations[z]
        /\ e.acct = [d.acct EXCEPT ![q].received = @ - y]

\* Vests are taken back: they are on their way and still count for the delegator.
LEMMA LoanReduced ==
  ASSUME NEW d, Tabled(d), Owed(d), NEW e, NEW p, NEW q, NEW x, NEW y, NEW o,
         TakesBack(d, e, p, q, x, y, o)
  PROVE  Owed(e)
<1> DEFINE k == <<p, q>>
<1>a. /\ p \in Names(d) /\ q \in Names(d) /\ x \in Int
      /\ k \in DOMAIN d.delegations /\ y = d.delegations[k].shares - x
      /\ o.from = p /\ o.shares = y /\ e.expiring = Append(d.expiring, o)
      /\ DOMAIN d.delegations \ {k} = DOMAIN e.delegations \ {k}
      /\ k \in DOMAIN e.delegations =>
            "shares" \in DOMAIN e.delegations[k] /\ e.delegations[k].shares = x
      /\ k \notin DOMAIN e.delegations => x = 0
      /\ \A z \in DOMAIN d.delegations \ {k} : e.delegations[z] = d.delegations[z]
      /\ e.acct = [d.acct EXCEPT ![q].received = @ - y]
  BY DEF TakesBack
<1>b. k = <<p, q>>
  OBVIOUS
<1> USE <1>a, <1>b
<1> HIDE DEF k
<1> DEFINE t == d.delegations
           u == e.delegations
           old == IF k \in DOMAIN t THEN t[k].shares ELSE 0
<1>0. Lending(d) /\ LoansExact(d) /\ Owing(d.acct) /\ k[1] = p /\ k[2] = q
  BY DEF Owed, Tabled
<1>1. old = t[k].shares /\ old \in Int /\ y = old - x /\ y \in Int /\ x - old = - y
  BY <1>0 DEF Lending
<1>2. ASSUME NEW z \in DOMAIN u
      PROVE  {z[1], z[2]} \subseteq Names(d) /\ "shares" \in DOMAIN u[z] /\ u[z].shares \in Int
  <2>1. CASE z = k
    BY <1>0, <2>1
  <2>2. CASE z # k
    <3>1. z \in DOMAIN t /\ u[z] = t[z]
      BY <2>2
    <3> QED BY <1>0, <3>1 DEF Lending
  <2> QED BY <2>1, <2>2
<1>3. x = (IF k \in DOMAIN u THEN u[k].shares ELSE 0)
  OBVIOUS
<1>5. /\ IsFiniteSet(DOMAIN u)
      /\ \A a : Lent(e, a) = Lent(d, a) + (IF a = p THEN x - old ELSE 0)
      /\ \A a : Borrowed(e, a) = Borrowed(d, a) + (IF a = q THEN x - old ELSE 0)
  <2>1. Becomes(d, e, p, q, old, x)
    BY <1>3 DEF Becomes
  <2> HIDE DEF old
  <2> QED BY <1>0, <2>1, DelegationChanges
<1> HIDE DEF old
<1>6. Names(e) = Names(d)
  BY DEF Names
<1> DEFINE s == d.expiring
           S == Range(s) \cup {o}
<1>7. /\ s \in Seq(S) /\ o \in S
      /\ \A i \in DOMAIN s : s[i].from \in Names(d) /\ s[i].shares \in Int
  <2>1. s \in Seq(Range(s)) /\ \A i \in DOMAIN s : s[i].from \in Names(d) /\ s[i].shares \in Int
    BY <1>0 DEF Lending
  <2> HIDE DEF s
  <2>2. Len(s) \in Nat /\ DOMAIN s = 1 .. Len(s) /\ \A i \in 1 .. Len(s) : s[i] \in Range(s)
    BY <2>1
  <2>3. s \in Seq(S)
    BY <2>1, <2>2
  <2> QED BY <2>1, <2>3
<1> HIDE DEF S
<1>8. ASSUME NEW a
      PROVE  Returning(e, a) = Returning(d, a) + (IF a = p THEN y ELSE 0)
  <2> HIDE DEF s
  <2>1. o.shares \in Int
    BY <1>1
  <2>3. Returns(Append(s, o), a) = Returns(s, a) + (IF o.from = a THEN o.shares ELSE 0)
    BY <1>7, <2>1, ReturnsAppend
  <2>2. Returning(e, a) = Returns(Append(s, o), a) /\ Returning(d, a) = Returns(s, a)
    BY DEF Returning, Returns, s
  <2> QED BY <2>2, <2>3
<1>9. Lending(e)
  <2> HIDE DEF s
  <2> DEFINE r == Append(s, o)
  <2>1. /\ r \in Seq(S) /\ Len(r) = Len(s) + 1 /\ Len(s) \in Nat
        /\ \A i \in 1 .. Len(s) : r[i] = s[i]
        /\ r[Len(s) + 1] = o
    BY <1>7, AppendProperties
  <2> HIDE DEF r
  <2>2. DOMAIN r = 1 .. Len(s) + 1 /\ DOMAIN s = 1 .. Len(s)
    BY <1>7, <2>1
  <2>3. ASSUME NEW i \in DOMAIN r PROVE r[i].from \in Names(d) /\ r[i].shares \in Int
    <3>1. CASE i = Len(s) + 1
      BY <1>1, <2>1, <3>1
    <3>2. CASE i # Len(s) + 1
      <4>1. i \in 1 .. Len(s)
        BY <2>1, <2>2, <3>2
      <4> QED BY <1>7, <2>1, <2>2, <4>1
    <3> QED BY <3>1, <3>2
  <2>4. r \in Seq(Range(r))
    BY <2>1, <2>2 DEF Range
  <2>5. e.expiring = r
    BY DEF r, s
  <2> QED BY <1>2, <1>5, <1>6, <2>3, <2>4, <2>5 DEF Lending
<1>10. ASSUME NEW a \in Names(e)
      PROVE  /\ e.acct[a].delegated = Lent(e, a) + Returning(e, a)
             /\ e.acct[a].received = Borrowed(e, a)
  <2>1. /\ a \in Names(d) /\ d.acct[a].delegated = Lent(d, a) + Returning(d, a)
        /\ d.acct[a].received = Borrowed(d, a)
    BY <1>0, <1>6, <1>10 DEF LoansExact
  <2>2. Lent(d, a) \in Int /\ Borrowed(d, a) \in Int /\ Returning(d, a) \in Int
    BY <1>0, LoansAreNumbers
  <2>4. /\ e.acct[a].delegated = d.acct[a].delegated
        /\ e.acct[a].received = d.acct[a].received - (IF a = q THEN y ELSE 0)
    BY <1>0, <1>1, <2>1, <2>2 DEF Owing, Names
  <2>5. /\ Lent(e, a) = Lent(d, a) + (IF a = p THEN x - old ELSE 0)
        /\ Borrowed(e, a) = Borrowed(d, a) + (IF a = q THEN x - old ELSE 0)
        /\ Returning(e, a) = Returning(d, a) + (IF a = p THEN y ELSE 0)
    BY <1>5, <1>8
  <2>6. e.acct[a].delegated = Lent(e, a) + Returning(e, a)
    <3>1. CASE a = p
      <4>1. Lent(e, a) = Lent(d, a) + (- y) /\ Returning(e, a) = Returning(d, a) + y
        BY <1>1, <2>5, <3>1
      <4> QED BY <1>1, <2>1, <2>2, <2>4, <4>1
    <3>2. CASE a # p
      BY <2>1, <2>2, <2>4, <2>5, <3>2
    <3> QED BY <3>1, <3>2
  <2>7. e.acct[a].received = Borrowed(e, a)
    <3>1. CASE a = q
      <4>1. Borrowed(e, a) = Borrowed(d, a) + (- y)
        BY <1>1, <2>5, <3>1
      <4> QED BY <1>1, <2>1, <2>2, <2>4, <3>1, <4>1
    <3>2. CASE a # q
      BY <2>1, <2>2, <2>4, <2>5, <3>2
    <3> QED BY <3>1, <3>2
  <2> QED BY <2>6, <2>7
<1> QED BY <1>9, <1>10 DEF Owed, LoansExact

\* delegate_vesting_shares.
LEMMA DelegateOwed ==
  ASSUME Tabled(db), Owed(db), NEW p \in Users, NEW q \in Users, NEW x \in Shares,
         NewDelegation(p, q, x) \/ IncreaseDelegation(p, q, x) \/ DecreaseDelegation(p, q, x)
  PROVE  Owed(db')
<1> DEFINE k == <<p, q>>
           t == db.delegations
           old == IF k \in DOMAIN t THEN t[k].shares ELSE 0
<1>0. /\ x \in Int /\ x >= 0 /\ p \in Names(db) /\ q \in Names(db) /\ Lending(db)
      /\ DOMAIN db = TableNames /\ \A z \in DOMAIN t : "shares" \in DOMAIN t[z]
  BY StakeAssumption DEF Users, Owed, Tabled, Lending
<1>1. CASE NewDelegation(p, q, x)
  <2> DEFINE o == [shares |-> x, since |-> time]
             u == With(t, k, o)
             a == [db.acct EXCEPT ![p].delegated = @ + x, ![q].received = @ + x]
  <2>1. k \notin DOMAIN t /\ db' = [db EXCEPT !.delegations = With(@, k, o),
                                !.acct[p].delegated = @ + x, !.acct[q].received = @ + x]
    BY <1>1 DEF NewDelegation
  <2>2. "shares" \in DOMAIN o /\ o.shares = x
    OBVIOUS
  <2>3. x = x - old
    BY <1>0, <2>1
  <2> HIDE DEF o, k
  <2>4. /\ k \in DOMAIN u /\ DOMAIN t \ {k} = DOMAIN u \ {k} /\ u[k] = o
        /\ \A z \in DOMAIN t \ {k} : u[z] = t[z]
    BY DEF With
  <2>5. db'.delegations = u /\ db'.expiring = db.expiring /\ db'.acct = a
    BY <1>0, <2>1 DEF TableNames
  <2> HIDE DEF u, a
  <2>6. /\ k \in DOMAIN db'.delegations
        /\ DOMAIN db.delegations \ {k} = DOMAIN db'.delegations \ {k}
        /\ "shares" \in DOMAIN db'.delegations[k] /\ db'.delegations[k].shares = x
        /\ \A z \in DOMAIN db.delegations \ {k} : db'.delegations[z] = db.delegations[z]
    BY <2>2, <2>4, <2>5
  <2>7. Lends(db, db', p, q, x, x)
    BY <1>0, <2>3, <2>5, <2>6 DEF Lends, a, k
  <2> QED BY <2>7, LoanMade
<1>2. CASE IncreaseDelegation(p, q, x)
  <2> DEFINE y == x - t[k].shares
             u == [t EXCEPT ![k].shares = x]
             a == [db.acct EXCEPT ![p].delegated = @ + y, ![q].received = @ + y]
  <2>1. k \in DOMAIN t /\ db' = [db EXCEPT !.delegations[k].shares = x,
                                !.acct[p].delegated = @ + y, !.acct[q].received = @ + y]
    BY <1>2 DEF IncreaseDelegation
  <2>3. y = x - old
    BY <2>1
  <2> HIDE DEF k, y
  <2>4. /\ k \in DOMAIN u /\ DOMAIN t \ {k} = DOMAIN u \ {k}
        /\ "shares" \in DOMAIN u[k] /\ u[k].shares = x
        /\ \A z \in DOMAIN t \ {k} : u[z] = t[z]
    <3>1. "shares" \in DOMAIN t[k]
      BY <1>0, <2>1
    <3> HIDE DEF t
    <3> QED BY <2>1, <3>1
  <2>5. db'.delegations = u /\ db'.expiring = db.expiring /\ db'.acct = a
    BY <1>0, <2>1 DEF TableNames
  <2> HIDE DEF u, a
  <2>6. /\ k \in DOMAIN db'.delegations
        /\ DOMAIN db.delegations \ {k} = DOMAIN db'.delegations \ {k}
        /\ "shares" \in DOMAIN db'.delegations[k] /\ db'.delegations[k].shares = x
        /\ \A z \in DOMAIN db.delegations \ {k} : db'.delegations[z] = db.delegations[z]
    BY <2>4, <2>5
  <2>7. Lends(db, db', p, q, x, y)
    BY <1>0, <2>3, <2>5, <2>6 DEF Lends, a, k
  <2> QED BY <2>7, LoanMade
<1>3. CASE DecreaseDelegation(p, q, x)
  <2> DEFINE y == t[k].shares - x
             o == [from |-> p, shares |-> y, at |-> Max({time + ReturnTime, t[k].since})]
             u == IF x > 0 THEN [t EXCEPT ![k].shares = x] ELSE Restrict(t, DOMAIN t \ {k})
             a == [db.acct EXCEPT ![q].received = @ - y]
  <2>1. k \in DOMAIN t /\ db' = [db EXCEPT !.expiring = Append(@, o), !.acct[q].received = @ - y,
                                           !.delegations = u]
    BY <1>3 DEF DecreaseDelegation
  <2>2. o.from = p /\ o.shares = y
    OBVIOUS
  <2> HIDE DEF k, y, o
  <2>4. /\ DOMAIN t \ {k} = DOMAIN u \ {k} /\ \A z \in DOMAIN t \ {k} : u[z] = t[z]
        /\ k \in DOMAIN u => "shares" \in DOMAIN u[k] /\ u[k].shares = x
        /\ k \notin DOMAIN u => x = 0
    <3>1. "shares" \in DOMAIN t[k]
      BY <1>0, <2>1
    <3> HIDE DEF t
    <3>2. CASE x > 0
      BY <2>1, <3>1, <3>2
    <3>3. CASE x = 0
      <4>1. u = Restrict(t, DOMAIN t \ {k})
        BY <3>3
      <4> HIDE DEF u
      <4> QED BY <3>3, <4>1 DEF Restrict
    <3>4. x > 0 \/ x = 0
      BY <1>0
    <3> HIDE DEF u
    <3> QED BY <3>2, <3>3, <3>4
  <2> HIDE DEF u
  <2>5. db'.delegations = u /\ db'.expiring = Append(db.expiring, o) /\ db'.acct = a
    BY <1>0, <2>1 DEF TableNames
  <2> HIDE DEF a
  <2>6. /\ DOMAIN db.delegations \ {k} = DOMAIN db'.delegations \ {k}
        /\ k \in DOMAIN db'.delegations =>
              "shares" \in DOMAIN db'.delegations[k] /\ db'.delegations[k].shares = x
        /\ k \notin DOMAIN db'.delegations => x = 0
        /\ \A z \in DOMAIN db.delegations \ {k} : db'.delegations[z] = db.delegations[z]
    BY <2>4, <2>5
  <2>7. k \in DOMAIN db.delegations /\ y = db.delegations[k].shares - x
    BY <2>1 DEF y
  <2>8. TakesBack(db, db', p, q, x, y, o)
    BY <1>0, <2>2, <2>5, <2>6, <2>7 DEF TakesBack, a, k
  <2> QED BY <2>8, LoanReduced
<1> QED BY <1>1, <1>2, <1>3

\* A new account owes nothing and nothing is owed to it.
LEMMA NewNameOwed ==
  ASSUME NEW d, Owed(d), NEW name, name \notin Names(d), NEW s, s.delegated = 0, s.received = 0,
         NEW e, e.acct = With(d.acct, name, s), e.delegations = d.delegations,
         e.expiring = d.expiring
  PROVE  Owed(e)
<1>0. Lending(d) /\ LoansExact(d)
  BY DEF Owed
<1>1. Names(e) = Names(d) \cup {name} /\ e.acct[name] = s /\ \A a \in Names(d) : e.acct[a] = d.acct[a]
  BY DEF Names, With
<1>2. Lending(e)
  BY <1>0, <1>1 DEF Lending
<1>3. \A a : Lent(e, a) = Lent(d, a) /\ Borrowed(e, a) = Borrowed(d, a) /\ Returning(e, a) = Returning(d, a)
  BY DEF Lent, Borrowed, Returning
<1>4. Lent(d, name) = 0 /\ Borrowed(d, name) = 0 /\ Returning(d, name) = 0
  <2>1. {k \in DOMAIN d.delegations : k[1] = name} = {} /\ {k \in DOMAIN d.delegations : k[2] = name} = {}
    BY <1>0 DEF Lending
  <2>2. {i \in DOMAIN d.expiring : d.expiring[i].from = name} = {}
    BY <1>0 DEF Lending
  <2>3. \A t : SharesOf(t, {}) = 0
    <3> TAKE t
    <3>1. IsFiniteSet({}) /\ \A k \in {} : t[k].shares \in Int
      BY FS_EmptySet
    <3> QED BY <3>1, SharesSum
  <2> QED BY <2>1, <2>2, <2>3 DEF Lent, Borrowed, Returning
<1>5. LoansExact(e)
  <2> SUFFICES ASSUME NEW a \in Names(e)
               PROVE  /\ e.acct[a].delegated = Lent(e, a) + Returning(e, a)
                      /\ e.acct[a].received = Borrowed(e, a)
    BY DEF LoansExact
  <2>1. CASE a = name
    BY <1>1, <1>3, <1>4, <2>1
  <2>2. CASE a # name
    BY <1>0, <1>1, <1>3, <2>2 DEF LoansExact
  <2> QED BY <2>1, <2>2
<1> QED BY <1>2, <1>5 DEF Owed

\* What a new account is made with.
LEMMA CreatedOwesNothing ==
  /\ Created.delegated = 0 /\ Created.received = 0
  /\ {"delegated", "received"} \subseteq DOMAIN Created
<1> DEFINE m == NewAccount
           i == Cardinality(Names(db))
<1>1. /\ m.delegated = 0 /\ m.received = 0 /\ {"delegated", "received"} \subseteq DOMAIN m
      /\ Created = [m EXCEPT !.id = i, !.lastVote = time]
  BY DEF NewAccount, Created
<1> HIDE DEF m, i
<1> QED BY <1>1

\* account_create.
LEMMA AccountCreateOwed ==
  ASSUME Tabled(db), Owed(db), NEW a, NEW n, NEW fee, AccountCreate(a, n, fee)
  PROVE  Owed(db')
<1> DEFINE c == AdjustBalance(db, a, -fee)
           s == Created
           d == [c EXCEPT !.acct = With(@, n, s), !.fund.balance = @ + fee]
<1>1. n \notin Names(db) /\ db' = ProcessFunds(d, UserRate)
  BY DEF AccountCreate
<1>2. NoLoans(db, c)
  BY BalancesNoLoans
<1> HIDE DEF c
<1>3. Tabled(c) /\ Owed(c) /\ Names(c) = Names(db)
  BY <1>2, StillTabled, StillOwed DEF NoLoans, SameDebts, Names
<1>4. s.delegated = 0 /\ s.received = 0 /\ {"delegated", "received"} \subseteq DOMAIN s
  BY CreatedOwesNothing
<1> HIDE DEF s
<1>5. DOMAIN d = TableNames /\ d.acct = With(c.acct, n, s) /\ d.delegations = c.delegations
      /\ d.expiring = c.expiring
  BY <1>3 DEF Tabled, TableNames
<1> HIDE DEF d
<1>6. Owed(d)
  BY <1>1, <1>3, <1>4, <1>5, NewNameOwed
<1>7. Tabled(d)
  BY <1>3, <1>4, <1>5 DEF Tabled, Owing, With
<1> QED BY <1>1, <1>6, <1>7, VestingNoLoans, StillOwed

\* account_create_with_delegation.
LEMMA CreateWithDelegationOwed ==
  ASSUME Tabled(db), Owed(db), NEW a \in Users, NEW n, NEW fee, NEW x \in Shares,
         AccountCreateWithDelegation(a, n, fee, x)
  PROVE  Owed(db')
<1> DEFINE c == AdjustBalance(db, a, -fee)
           s == Created
           o == [shares |-> x, since |-> time + DelegationTime]
           b == [c EXCEPT !.acct = With(@, n, s)]
           u == IF x = 0 THEN c.delegations ELSE With(c.delegations, <<a, n>>, o)
           t == With([c.acct EXCEPT ![a].delegated = @ + x], n, [s EXCEPT !.received = x])
           d == [c EXCEPT !.acct = t, !.delegations = u]
<1>0. a \in Names(db) /\ x \in Int
  BY StakeAssumption DEF Users
<1>1. n \notin Names(db) /\ db' = IF fee > 0 THEN CreateVesting(d, n, fee) ELSE d
  BY DEF AccountCreateWithDelegation
<1>2. NoLoans(db, c)
  BY BalancesNoLoans
<1> HIDE DEF c
<1>3. Tabled(c) /\ Owed(c) /\ Names(c) = Names(db)
  BY <1>2, StillTabled, StillOwed DEF NoLoans, SameDebts, Names
<1>4. s.delegated = 0 /\ s.received = 0 /\ {"delegated", "received"} \subseteq DOMAIN s
  BY CreatedOwesNothing
<1> HIDE DEF s
<1>5. DOMAIN b = TableNames /\ b.acct = With(c.acct, n, s) /\ b.delegations = c.delegations
      /\ b.expiring = c.expiring
  BY <1>3 DEF Tabled, TableNames
<1>6. DOMAIN d = TableNames /\ d.acct = t /\ d.delegations = u /\ d.expiring = c.expiring
  BY <1>3 DEF Tabled, TableNames
<1> HIDE DEF b, d, u
<1>7. Owed(b)
  BY <1>1, <1>3, <1>4, <1>5, NewNameOwed
<1>8. Tabled(b)
  BY <1>3, <1>4, <1>5 DEF Tabled, Owing, With
<1>9. t = [b.acct EXCEPT ![a].delegated = @ + x, ![n].received = @ + x]
  <2> DEFINE v == [b.acct EXCEPT ![a].delegated = @ + x, ![n].received = @ + x]
  <2>1. DOMAIN b.acct = Names(db) \cup {n} /\ DOMAIN c.acct = Names(db)
    BY <1>3, <1>5 DEF With, Names
  <2>2. DOMAIN t = Names(db) \cup {n} /\ DOMAIN v = Names(db) \cup {n}
    BY <2>1 DEF With
  <2>3. ASSUME NEW z \in Names(db) \cup {n} PROVE t[z] = v[z]
    <3>1. CASE z = n
      <4>1. t[z] = [s EXCEPT !.received = x]
        BY <3>1 DEF With
      <4>2. b.acct[n] = s /\ n # a
        BY <1>0, <1>1, <1>5 DEF With
      <4>3. v[z] = [s EXCEPT !.received = @ + x]
        BY <2>1, <3>1, <4>2
      <4> HIDE DEF t, v
      <4> QED BY <1>0, <1>4, <4>1, <4>3
    <3>2. CASE z # n
      <4>1. b.acct[z] = c.acct[z] /\ z \in DOMAIN c.acct
        BY <1>5, <2>1, <3>2 DEF With
      <4>2. t[z] = [c.acct EXCEPT ![a].delegated = @ + x][z]
        BY <2>1, <3>2, <4>1 DEF With
      <4> HIDE DEF t
      <4>3. CASE z = a
        BY <2>1, <3>2, <4>1, <4>2, <4>3
      <4>4. CASE z # a
        BY <2>1, <3>2, <4>1, <4>2, <4>4
      <4> QED BY <4>3, <4>4
    <3> QED BY <3>1, <3>2
  <2>4. t = [z \in DOMAIN t |-> t[z]] /\ v = [z \in DOMAIN v |-> v[z]]
    BY DEF With
  <2> HIDE DEF t, v
  <2>5. t = v
    BY <2>2, <2>3, <2>4
  <2> QED BY <2>5 DEF v
<1> HIDE DEF t
<1>10. Names(b) = Names(db) \cup {n}
  BY <1>3, <1>5 DEF Names, With
<1>11. CASE x = 0
  <2>1. d.delegations = b.delegations /\ d.expiring = b.expiring
    BY <1>5, <1>6, <1>11 DEF u
  <2>2. \A z \in Names(b) : b.acct[z].delegated \in Int /\ b.acct[z].received \in Int
    <3> TAKE z \in Names(b)
    <3>1. Lending(b) /\ b.acct[z].delegated = Lent(b, z) + Returning(b, z)
          /\ b.acct[z].received = Borrowed(b, z)
      BY <1>7 DEF Owed, LoansExact
    <3> QED BY <3>1, LoansAreNumbers
  <2>3. SameDebts(b.acct, d.acct)
    <3>1. d.acct = [b.acct EXCEPT ![a].delegated = @ + 0, ![n].received = @ + 0]
      BY <1>6, <1>9, <1>11
    <3> QED BY <1>8, <2>2, <3>1 DEF SameDebts, Names, Tabled, Owing
  <2>4. NoLoans(b, d)
    BY <1>6, <2>1, <2>3 DEF NoLoans
  <2> QED BY <1>1, <1>7, <1>8, <2>4, StillOwed, StillTabled, VestingNoLoans
<1>12. CASE x # 0
  <2> DEFINE k == <<a, n>>
  <2>1. o.shares = x /\ "shares" \in DOMAIN o
    OBVIOUS
  <2>2. k \notin DOMAIN b.delegations
    <3>1. k[2] = n
      OBVIOUS
    <3> HIDE DEF k
    <3> QED BY <1>1, <1>3, <1>5, <3>1 DEF Owed, Lending
  <2> HIDE DEF k, o
  <2>3. d.delegations = With(b.delegations, k, o)
    BY <1>5, <1>6, <1>12 DEF u, k
  <2>4. /\ k \in DOMAIN d.delegations /\ d.delegations[k] = o
        /\ DOMAIN b.delegations \ {k} = DOMAIN d.delegations \ {k}
        /\ \A z \in DOMAIN b.delegations \ {k} : d.delegations[z] = b.delegations[z]
    BY <2>3 DEF With
  <2>5. x = x - (IF k \in DOMAIN b.delegations THEN b.delegations[k].shares ELSE 0)
    BY <1>0, <2>2
  <2>6. Lends(b, d, a, n, x, x)
    BY <1>0, <1>5, <1>6, <1>9, <1>10, <2>1, <2>4, <2>5 DEF Lends, k
  <2>7. Owed(d)
    BY <1>7, <1>8, <2>6, LoanMade
  <2>8. Tabled(d)
    BY <1>6, <1>8, <1>9 DEF Tabled, Owing
  <2> QED BY <1>1, <2>7, <2>8, StillOwed, VestingNoLoans
<1> QED BY <1>11, <1>12

\* Delegations, and new accounts.
LEMMA DelegationOwed ==
  ASSUME Tabled(db), Owed(db), DelegationOperation PROVE Owed(db')
BY DelegateOwed, AccountCreateOwed, CreateWithDelegationOwed DEF DelegationOperation

\* One more entry.
LEMMA SharesGrow ==
  ASSUME NEW t, NEW A, IsFiniteSet(A), \A x \in A : t[x].shares \in Int,
         NEW k, k \notin A, t[k].shares \in Int
  PROVE  SharesOf(t, A \cup {k}) = SharesOf(t, A) + t[k].shares /\ SharesOf(t, A) \in Int
<1> DEFINE K == A \cup {k}
<1>1. IsFiniteSet(K) /\ (\A x \in K : t[x].shares \in Int) /\ K \in SUBSET K /\ A \in SUBSET K
      /\ k \in K /\ K \ {k} = A
  BY FS_AddElement
<1> HIDE DEF K
<1>2. SharesOf(t, A) \in Int /\ SharesOf(t, K) = t[k].shares + SharesOf(t, K \ {k})
  BY <1>1, SharesSum
<1>3. SharesOf(t, K) = SharesOf(t, A) + t[k].shares
  <2>1. SharesOf(t, K) = t[k].shares + SharesOf(t, A)
    BY <1>1, <1>2
  <2> QED BY <1>2, <2>1
<1> QED BY <1>2, <1>3 DEF K

\* What comes back to a when the block at now has cleared what is due.
Due(d, now, a) ==
    SharesOf(d.expiring, {i \in {j \in DOMAIN d.expiring : d.expiring[j].at < now} :
                            d.expiring[i].from = a})

\* What is left on its way back after the entries that are due.
LEMMA ReturnsKept ==
  ASSUME NEW d, Lending(d), NEW now, NEW r, r = StillExpiring(d, now)
  PROVE  /\ r \in Seq(Range(r))
         /\ \A i \in DOMAIN r : r[i].from \in Names(d) /\ r[i].shares \in Int
         /\ \A a : Due(d, now, a) \in Int
                    /\ Returns(r, a) = Returns(d.expiring, a) - Due(d, now, a)
<1> DEFINE s == d.expiring
           N == Len(s)
           S == Range(s)
           C(n, a) == {j \in 1 .. n : s[j].from = a}
           D(n, a) == {j \in 1 .. n : s[j].at < now /\ s[j].from = a}
<1>1. /\ s \in Seq(S) /\ N \in Nat /\ DOMAIN s = 1 .. N /\ <<>> \in Seq(S)
      /\ \A i \in 1 .. N : s[i] \in S /\ s[i].from \in Names(d) /\ s[i].shares \in Int
  <2>1. s \in Seq(S) /\ \A i \in DOMAIN s : s[i].from \in Names(d) /\ s[i].shares \in Int
    BY DEF Lending
  <2> HIDE DEF s, S
  <2> QED BY <2>1
<1>2. PICK kept : /\ StillExpiring(d, now) = kept[N] /\ kept[0] = <<>>
                  /\ \A i \in 1 .. N : kept[i] = IF s[i].at < now THEN kept[i - 1]
                                                ELSE Append(kept[i - 1], s[i])
  <2>1. d.expiring \in Seq(S)
    BY <1>1
  <2> HIDE DEF S
  <2> QED BY <2>1, StillExpiringWalk
<1> HIDE DEF s, N, S
<1>3. \A n \in 0 .. N : \A a : IsFiniteSet(C(n, a)) /\ IsFiniteSet(D(n, a))
  <2> TAKE n \in 0 .. N
  <2> TAKE a
  <2>1. IsFiniteSet(1 .. n) /\ C(n, a) \subseteq 1 .. n /\ D(n, a) \subseteq 1 .. n
    BY <1>1, FS_Interval
  <2> HIDE DEF C, D
  <2> QED BY <2>1, FS_Subset
<1>4. \A n \in 0 .. N : \A a : SharesOf(s, C(n, a)) \in Int /\ SharesOf(s, D(n, a)) \in Int
  <2> TAKE n \in 0 .. N
  <2> TAKE a
  <2>1. (\A j \in C(n, a) : s[j].shares \in Int) /\ (\A j \in D(n, a) : s[j].shares \in Int)
    BY <1>1
  <2> HIDE DEF C, D
  <2> DEFINE A == C(n, a)
             B == D(n, a)
  <2>2. IsFiniteSet(A) /\ IsFiniteSet(B) /\ A \in SUBSET A /\ B \in SUBSET B
    BY <1>3
  <2> HIDE DEF A, B
  <2>3. SharesOf(s, A) \in Int
    BY <2>1, <2>2, SharesSum DEF A
  <2>4. SharesOf(s, B) \in Int
    BY <2>1, <2>2, SharesSum DEF B
  <2> QED BY <2>3, <2>4 DEF A, B
<1>5. ASSUME NEW k \in 1 .. N, NEW a
      PROVE  /\ SharesOf(s, C(k, a)) = SharesOf(s, C(k - 1, a))
                                        + (IF s[k].from = a THEN s[k].shares ELSE 0)
             /\ SharesOf(s, D(k, a)) = SharesOf(s, D(k - 1, a))
                  + (IF s[k].at < now /\ s[k].from = a THEN s[k].shares ELSE 0)
  <2>0. k - 1 \in 0 .. N /\ k \in 0 .. N
    BY <1>1
  <2>1. ASSUME NEW A, NEW B, IsFiniteSet(A), A \subseteq 1 .. k - 1, k \notin A, A \ {k} = B \ {k},
               NEW yes \in BOOLEAN, k \in B <=> yes
        PROVE  SharesOf(s, B) = SharesOf(s, A) + (IF yes THEN s[k].shares ELSE 0)
    <3>1. \A x \in A : s[x].shares \in Int
      BY <1>1, <2>1
    <3>2. SharesOf(s, A \cup {k}) = SharesOf(s, A) + s[k].shares /\ SharesOf(s, A) \in Int
      BY <1>1, <2>1, <3>1, SharesGrow
    <3>3. B = IF yes THEN A \cup {k} ELSE A
      BY <2>1
    <3> QED BY <3>2, <3>3
  <2>2. SharesOf(s, C(k, a)) = SharesOf(s, C(k - 1, a)) + (IF s[k].from = a THEN s[k].shares ELSE 0)
    <3> DEFINE A == C(k - 1, a)
               B == C(k, a)
               yes == s[k].from = a
    <3>1. A \subseteq 1 .. k - 1 /\ k \notin A /\ A \ {k} = B \ {k} /\ (k \in B <=> yes) /\ yes \in BOOLEAN
      BY <1>1
    <3>2. IsFiniteSet(A)
      BY <1>3, <2>0
    <3> HIDE DEF A, B, yes
    <3>3. SharesOf(s, B) = SharesOf(s, A) + (IF yes THEN s[k].shares ELSE 0)
      BY <2>1, <3>1, <3>2
    <3> QED BY <3>3 DEF A, B, yes
  <2>3. SharesOf(s, D(k, a)) = SharesOf(s, D(k - 1, a))
           + (IF s[k].at < now /\ s[k].from = a THEN s[k].shares ELSE 0)
    <3> DEFINE A == D(k - 1, a)
               B == D(k, a)
               yes == s[k].at < now /\ s[k].from = a
    <3>1. A \subseteq 1 .. k - 1 /\ k \notin A /\ A \ {k} = B \ {k} /\ (k \in B <=> yes) /\ yes \in BOOLEAN
      BY <1>1
    <3>2. IsFiniteSet(A)
      BY <1>3, <2>0
    <3> HIDE DEF A, B, yes
    <3>3. SharesOf(s, B) = SharesOf(s, A) + (IF yes THEN s[k].shares ELSE 0)
      BY <2>1, <3>1, <3>2
    <3> QED BY <3>3 DEF A, B, yes
  <2> QED BY <2>2, <2>3
<1> DEFINE Fine(q) == q \in Seq(S) /\ \A i \in DOMAIN q : q[i].from \in Names(d) /\ q[i].shares \in Int
           Adds(q, n) == \A a : Returns(q, a) = SharesOf(s, C(n, a)) - SharesOf(s, D(n, a))
           T == {n \in 0 .. N : Fine(kept[n]) /\ Adds(kept[n], n)}
<1>6. 0 \in T
  <2> DEFINE nil == <<>>
  <2>1. nil \in Seq(S) /\ DOMAIN nil = {}
    BY <1>1
  <2> HIDE DEF nil
  <2>2. Fine(nil)
    BY <2>1
  <2>3. \A t : SharesOf(t, {}) = 0
    <3> TAKE t
    <3>1. IsFiniteSet({}) /\ \A k \in {} : t[k].shares \in Int
      BY FS_EmptySet
    <3> QED BY <3>1, SharesSum
  <2>4. \A a : Returns(nil, a) = 0
    <3> TAKE a
    <3>1. {i \in DOMAIN nil : nil[i].from = a} = {}
      BY <2>1
    <3> QED BY <2>3, <3>1 DEF Returns
  <2>5. \A a : C(0, a) = {} /\ D(0, a) = {}
    OBVIOUS
  <2> HIDE DEF C, D
  <2>6. \A a : SharesOf(s, C(0, a)) = 0 /\ SharesOf(s, D(0, a)) = 0
    BY <2>3, <2>5
  <2>7. Adds(nil, 0)
    BY <2>4, <2>6
  <2>8. kept[0] = nil /\ 0 \in 0 .. N
    BY <1>1, <1>2 DEF nil
  <2> HIDE DEF Fine, Adds
  <2> QED BY <2>2, <2>7, <2>8
<1> HIDE DEF C, D
<1>7. ASSUME NEW k \in 1 .. N, k - 1 \in T PROVE k \in T
  <2> DEFINE q == kept[k - 1]
             longer == Append(q, s[k])
  <2>1. Fine(q) /\ Adds(q, k - 1) /\ s[k] \in S /\ s[k].from \in Names(d) /\ s[k].shares \in Int
        /\ k \in 0 .. N /\ k - 1 \in 0 .. N
    BY <1>1, <1>7
  <2>2. CASE s[k].at < now
    <3>1. kept[k] = q
      BY <1>2, <2>2
    <3> HIDE DEF q
    <3>2. ASSUME NEW a PROVE Returns(q, a) = SharesOf(s, C(k, a)) - SharesOf(s, D(k, a))
      <4> DEFINE x == IF s[k].from = a THEN s[k].shares ELSE 0
      <4>1. /\ SharesOf(s, C(k, a)) = SharesOf(s, C(k - 1, a)) + x
            /\ SharesOf(s, D(k, a)) = SharesOf(s, D(k - 1, a)) + x
        BY <1>5, <2>2
      <4>2. x \in Int /\ SharesOf(s, C(k - 1, a)) \in Int /\ SharesOf(s, D(k - 1, a)) \in Int
            /\ Returns(q, a) = SharesOf(s, C(k - 1, a)) - SharesOf(s, D(k - 1, a))
        BY <1>4, <2>1
      <4> HIDE DEF x
      <4> QED BY <4>1, <4>2
    <3>3. Fine(q) /\ Adds(q, k)
      BY <2>1, <3>2
    <3> HIDE DEF Fine, Adds
    <3> QED BY <2>1, <3>1, <3>3
  <2>3. CASE ~ (s[k].at < now)
    <3>1. kept[k] = longer
      BY <1>2, <2>3
    <3> HIDE DEF q
    <3>2. /\ longer \in Seq(S) /\ DOMAIN longer = 1 .. Len(q) + 1 /\ longer[Len(q) + 1] = s[k]
          /\ \A i \in 1 .. Len(q) : longer[i] = q[i]
      BY <2>1, AppendProperties
    <3>3. DOMAIN q = 1 .. Len(q) /\ Len(q) \in Nat
      BY <2>1
    <3>4. ASSUME NEW a PROVE Returns(longer, a) = SharesOf(s, C(k, a)) - SharesOf(s, D(k, a))
      <4> DEFINE x == IF s[k].from = a THEN s[k].shares ELSE 0
                 c == SharesOf(s, C(k - 1, a))
                 e == SharesOf(s, D(k - 1, a))
      <4>1. /\ SharesOf(s, C(k, a)) = c + x
            /\ SharesOf(s, D(k, a)) = e + 0
        BY <1>5, <2>3
      <4>2. x \in Int /\ c \in Int /\ e \in Int /\ Returns(q, a) = c - e
        BY <1>4, <2>1
      <4>3. Returns(longer, a) = Returns(q, a) + x
        BY <2>1, ReturnsAppend
      <4> HIDE DEF x, c, e
      <4> QED BY <4>1, <4>2, <4>3
    <3> HIDE DEF longer
    <3>5. ASSUME NEW i \in DOMAIN longer PROVE longer[i].from \in Names(d) /\ longer[i].shares \in Int
      <4>1. i = Len(q) + 1 \/ i \in 1 .. Len(q)
        BY <3>2, <3>3
      <4> QED BY <2>1, <3>2, <3>3, <4>1
    <3>6. Fine(longer) /\ Adds(longer, k)
      BY <3>2, <3>4, <3>5
    <3> HIDE DEF Fine, Adds
    <3> QED BY <2>1, <3>1, <3>6
  <2> QED BY <2>2, <2>3
<1>8. N \in T
  <2> HIDE DEF T
  <2>1. \A k \in 1 .. N : k - 1 \in T => k \in T
    BY <1>7
  <2>2. \A k \in 0 .. N : k \in T
    BY <1>1, <1>6, <2>1, IntervalInduction
  <2> QED BY <1>1, <2>2
<1>9. Fine(r) /\ Adds(r, N)
  BY <1>2, <1>8
<1>10. r \in Seq(Range(r))
  <2>1. Len(r) \in Nat /\ DOMAIN r = 1 .. Len(r) /\ r \in Seq(S)
    BY <1>9
  <2> QED BY <2>1 DEF Range
<1>11. ASSUME NEW a
       PROVE  Due(d, now, a) \in Int /\ Returns(r, a) = Returns(s, a) - Due(d, now, a)
  <2>1. SharesOf(s, D(N, a)) \in Int
    BY <1>1, <1>4
  <2>2. Returns(r, a) = SharesOf(s, C(N, a)) - SharesOf(s, D(N, a))
    BY <1>9
  <2>3. /\ C(N, a) = {i \in DOMAIN s : s[i].from = a}
        /\ D(N, a) = {i \in {j \in DOMAIN s : s[j].at < now} : s[i].from = a}
    BY <1>1 DEF C, D
  <2>4. Returns(s, a) = SharesOf(s, C(N, a)) /\ Due(d, now, a) = SharesOf(s, D(N, a))
    BY <2>3 DEF Returns, Due, s
  <2> QED BY <2>1, <2>2, <2>4
<1> QED BY <1>9, <1>10, <1>11 DEF s

\* clear_expired_delegations(): what is due is free again.
LEMMA ClearedOwed ==
  ASSUME NEW d, Tabled(d), Owed(d), NEW now
  PROVE  Owed(ClearExpiredDelegations(d, now)) /\ Tabled(ClearExpiredDelegations(d, now))
<1> DEFINE back(a) == Due(d, now, a)
           r == StillExpiring(d, now)
           e == ClearExpiredDelegations(d, now)
<1>1. /\ r \in Seq(Range(r)) /\ \A i \in DOMAIN r : r[i].from \in Names(d) /\ r[i].shares \in Int
      /\ \A a : back(a) \in Int /\ Returns(r, a) = Returns(d.expiring, a) - back(a)
  BY ReturnsKept DEF Owed
<1>2. e = [d EXCEPT !.expiring = r,
                    !.acct = [a \in Names(d) |-> [d.acct[a] EXCEPT !.delegated = @ - back(a)]]]
  BY DEF ClearExpiredDelegations, Due
<1> HIDE DEF r, back, e
<1>3. /\ DOMAIN e = TableNames /\ e.expiring = r /\ e.delegations = d.delegations
      /\ e.acct = [a \in Names(d) |-> [d.acct[a] EXCEPT !.delegated = @ - back(a)]]
  BY <1>2 DEF Tabled, TableNames
<1>4. /\ Names(e) = Names(d)
      /\ \A a \in Names(d) :
           /\ DOMAIN e.acct[a] = DOMAIN d.acct[a] /\ e.acct[a].received = d.acct[a].received
           /\ e.acct[a].delegated = d.acct[a].delegated - back(a)
  BY <1>3 DEF Names, Tabled, Owing
<1>5. Tabled(e)
  BY <1>3, <1>4 DEF Tabled, Owing, Names
<1>6. Lending(e)
  BY <1>1, <1>3, <1>4 DEF Lending, Owed
<1>7. ASSUME NEW a \in Names(d)
      PROVE  /\ e.acct[a].delegated = Lent(e, a) + Returning(e, a)
             /\ e.acct[a].received = Borrowed(e, a)
  <2>1. /\ d.acct[a].delegated = Lent(d, a) + Returning(d, a) /\ d.acct[a].received = Borrowed(d, a)
        /\ Lending(d)
    BY DEF Owed, LoansExact
  <2>2. Lent(d, a) \in Int /\ Returning(d, a) \in Int
    BY <2>1, LoansAreNumbers
  <2>3. Lent(e, a) = Lent(d, a) /\ Borrowed(e, a) = Borrowed(d, a)
    BY <1>3 DEF Lent, Borrowed
  <2>4. Returning(e, a) = Returns(r, a) /\ Returning(d, a) = Returns(d.expiring, a)
    BY <1>3 DEF Returning, Returns
  <2> QED BY <1>1, <1>4, <2>1, <2>2, <2>3, <2>4
<1> QED BY <1>4, <1>5, <1>6, <1>7 DEF Owed, LoansExact, e

\* An operation.
LEMMA OperationOwes ==
  ASSUME Amounted(db), Owed(db), LedgerOperation PROVE Owed(db')
<1>1. Tabled(db)
  BY AmountedTabled
<1>2. ASSUME TransferOperation \/ EscrowOperation \/ MarketOperation \/ ContentOrderOperation
             \/ EncryptedOperation \/ SavingsOperation \/ RouteOperation
             \/ VotingOperation \/ RightsOperation
             \/ ThreadOperation \/ OptionsOperation \/ VoteOperation \/ TokenOperation
      PROVE  Owed(db')
  <2>1. NoLoans(db, db')
    BY <1>1, <1>2, TransferNoLoans, EscrowNoLoans, MarketNoLoans, ContentOrderNoLoans,
       SavingsNoLoans, VotingNoLoans, RightsNoLoans, ThreadNoLoans, OptionsNoLoans, VoteNoLoans,
       TokenNoLoans
  <2> QED BY <2>1, StillOwed
<1>3. ASSUME DelegationOperation PROVE Owed(db')
  BY <1>1, <1>3, DelegationOwed
<1> QED BY <1>2, <1>3 DEF LedgerOperation

\* The work at the end of a block.
LEMMA BlockWorkOwes ==
  ASSUME NEW d, Balanced(d), Owed(d), NEW now \in Int, now <= MaxTime, NEW n
  PROVE  Owed(BlockWork(d, now, n))
<1> DEFINE a1 == ClearExpiredOrders(d, now)
           a2 == ClearExpiredDelegations(a1, now)
           a3 == ClearNullAccountBalance(a2)
           a4 == ProcessCommentCashout(a3, now, n)
           a5 == ProcessVestingWithdrawals(a4, now)
           a6 == CustomTokensEmissions(a5, now, n)
           a7 == ProcessSavingsReward(a6, n)
           a8 == ExpireEscrowRatification(a7, now)
           a9 == ProcessDeclineVotingRights(a8, now)
           a10 == BurnInitRep(a9, n)
<1>0. BlockWork(d, now, n) = a10
  BY DEF BlockWork
<1>a. Amounted(d) /\ Tabled(d)
  BY AmountedTabled DEF Balanced
<1>1. Amounted(a1) /\ Tabled(a1) /\ Owed(a1)
  <2>1. Moves(d, a1, 0) /\ NoLoans(d, a1)
    BY <1>a, ExpiredOrdersMove, PaybacksNoLoans
  <2> QED BY <1>a, <2>1, StillTabled, StillOwed DEF Moves
<1> HIDE DEF a1
<1>2. Amounted(a2) /\ Tabled(a2) /\ Owed(a2)
  <2>1. Moves(a1, a2, 0)
    BY <1>1, ExpiredDelegationsMove
  <2> QED BY <1>1, <2>1, ClearedOwed DEF Moves
<1> HIDE DEF a2
<1>3. Amounted(a3) /\ Tabled(a3) /\ Owed(a3)
  <2>1. Moves(a2, a3, 0) /\ NoLoans(a2, a3)
    BY <1>2, NullMoves, BalancesNoLoans
  <2> QED BY <1>2, <2>1, StillTabled, StillOwed DEF Moves
<1> HIDE DEF a3
<1>4. Amounted(a4) /\ Tabled(a4) /\ Owed(a4)
  <2>1. Moves(a3, a4, 0) /\ NoLoans(a3, a4)
    BY <1>3, PayoutsMove, PayoutsNoLoans
  <2> QED BY <1>3, <2>1, StillTabled, StillOwed DEF Moves
<1> HIDE DEF a4
<1>5. Tabled(a5) /\ Owed(a5)
  BY <1>4, PayoutsNoLoans, StillTabled, StillOwed
<1> HIDE DEF a5
<1>6. Tabled(a6) /\ Owed(a6)
  BY <1>5, RewardsNoLoans, StillTabled, StillOwed
<1> HIDE DEF a6
<1>7. Tabled(a7) /\ Owed(a7)
  BY <1>6, RewardsNoLoans, StillTabled, StillOwed
<1> HIDE DEF a7
<1>8. Tabled(a8) /\ Owed(a8)
  BY <1>7, PaybacksNoLoans, StillTabled, StillOwed
<1> HIDE DEF a8
<1>9. Tabled(a9) /\ Owed(a9)
  BY <1>8, RewardsNoLoans, StillTabled, StillOwed
<1> HIDE DEF a9
<1>10. Owed(a10)
  BY <1>9, RewardsNoLoans, StillOwed
<1> QED BY <1>0, <1>10

\* Delegations that add up still add up after a step.
LEMMA StepOwes ==
  ASSUME Exact, Owed(db), [Next]_vars PROVE Owed(db')
<1>0. Balanced(db) /\ Amounted(db)
  BY DEF Exact, Balanced
<1>1. CASE LedgerOperation /\ UNCHANGED <<headVars, happens, recoveryVars>>
  BY <1>0, <1>1, OperationOwes
<1>2. CASE UNCHANGED <<headVars, happens, db>> \/ UNCHANGED vars
  <2>1. db' = db
    BY <1>2 DEF vars
  <2> QED BY <2>1
<1>3. CASE EndBlock
  <2>1. time' \in Int /\ time' <= MaxTime /\ db' = BlockWork(db, time', num')
    BY <1>3 DEF EndBlock, NextHead, Exact
  <2> QED BY <1>0, <2>1, BlockWorkOwes
<1> QED BY <1>1, <1>2, <1>3 DEF Next

\* The totals that validate_invariants() checks hold in every behaviour, and
\* so do the delegations that each account has made and received.
THEOREM TotalsAreExact == Spec => []TotalsExact
<1>1. Init => Exact /\ Owed(db)
  <2> SUFFICES ASSUME Init PROVE Exact /\ Owed(db)
    OBVIOUS
  <2>1. PICK s \in Scenarios : db = s.db
    BY DEF Init
  <2>2. Balanced(db) /\ Owed(db)
    BY <2>1, ScenariosAssumption DEF Balanced, Owed
  <2> QED BY <2>2 DEF Init, Exact
<1>2. Exact /\ Owed(db) /\ [Next]_vars => Exact' /\ Owed(db)'
  BY StepIsExact, StepOwes
<1>3. Exact /\ Owed(db) => TotalsExact
  BY DEF Exact, Balanced, TotalsExact, SupplyConserved, VestsConserved, TokensConserved, Owed,
         LoansConserved
<1> QED BY <1>1, <1>2, <1>3, PTL DEF Spec
=============================================================================

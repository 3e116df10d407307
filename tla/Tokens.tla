------------------------------- MODULE Tokens -------------------------------
(***************************************************************************)
(* Custom tokens: creation, transfer, the setup of their emission and the  *)
(* emission at the end of a block.                                         *)
(***************************************************************************)
EXTENDS Payments

CONSTANTS
    Symbols,            \* the symbols of tokens
    Rates,              \* the inflation rates, percent a year
    Steps,              \* interval_seconds * interval_count
    EmissionsPerYear,   \* 365 * 24 * 60 * 20
    EmissionStart       \* BMCHAIN_FIRST_PAYOUT_BLOCK

ASSUME TokensAssumption ==
    Rates \subseteq Int /\ EmissionsPerYear \in Nat \ {0} /\ IsFiniteSet(Symbols)

TokenCreate(a, symbol, supply, fee) ==
    /\ db.acct[a].balance >= fee
    /\ symbol \in Symbols \ DOMAIN db.tokens
    /\ db' = [AdjustBalance(db, a, -fee) EXCEPT
                !.tokens = With(@, symbol,
                    [id |-> Cardinality(DOMAIN db.tokens), supply |-> supply,
                     fund |-> 0, rate |-> 0, at |-> 0, step |-> 0]),
                !.holdings = With(@, <<a, symbol>>, supply),
                !.fund.balance = @ + fee]

TokenTransfer(from, to, symbol, x) ==
    LET d == [db EXCEPT !.holdings[<<from, symbol>>] = @ - x]
    IN  /\ <<from, symbol>> \in DOMAIN db.holdings
        /\ db.holdings[<<from, symbol>>] >= x
        /\ db' = IF <<to, symbol>> \in DOMAIN db.holdings
                 THEN [d EXCEPT !.holdings[<<to, symbol>>] = @ + x]
                 ELSE [d EXCEPT !.holdings = With(@, <<to, symbol>>, x)]

SetupEmissions(symbol, rate, at, step) ==
    /\ symbol \in DOMAIN db.tokens
    /\ at > 0
    /\ db' = [db EXCEPT !.tokens[symbol] = [@ EXCEPT
                !.rate = rate, !.at = at, !.step = step]]

\* by_schedule_time: the latest time first, then the highest number.
Earlier(t, u) == t.at > u.at \/ (t.at = u.at /\ t.id > u.id)

\* The tokens that come after symbol in the index, the first of them or none.
Following(tokens, symbol) ==
    {s \in DOMAIN tokens : Earlier(tokens[symbol], tokens[s])}
FirstOf(tokens, S) ==
    {s \in S : \A t \in S \ {s} : Earlier(tokens[s], tokens[t])}

Emitted(t) ==
    LET new == (t.supply * t.rate) \div (100 * EmissionsPerYear)
    IN  [t EXCEPT !.at = @ + t.step, !.supply = @ + new, !.fund = @ + new]

\* One step of the walk along the index, from the token in s.at. A token moves
\* in the index when its time does, and the walk goes on from where it is then.
EmissionVisit(s, now) ==
    IF \E k \in s.at : s.tokens[k].at <= now
    THEN LET k == CHOOSE k \in s.at : s.tokens[k].at <= now
             tokens == [s.tokens EXCEPT ![k] = Emitted(@)]
         IN  [tokens |-> tokens, at |-> FirstOf(tokens, Following(tokens, k))]
    ELSE [tokens |-> s.tokens, at |-> {}]

\* The walk stops at a token that is not due; it takes at most one step for
\* each token and slot.
EmissionWalk(tokens, now) ==
    LET walk[k \in 0 .. MaxTime * Cardinality(Symbols)] ==
            IF k = 0 THEN [tokens |-> tokens, at |-> FirstOf(tokens, DOMAIN tokens)]
            ELSE EmissionVisit(walk[k - 1], now)
    IN  walk[MaxTime * Cardinality(Symbols)].tokens

CustomTokensEmissions(d, now, n) ==
    IF n <= EmissionStart THEN d ELSE [d EXCEPT !.tokens = EmissionWalk(@, now)]
=============================================================================

--------------------------- MODULE AccountRecovery ---------------------------
(***************************************************************************)
(* The owner authority of accounts: its change, its recovery with the help *)
(* of the account's recovery partner, and the change of the partner, which *)
(* takes effect late so that a thief cannot make it.                       *)
(***************************************************************************)
EXTENDS HeadBlock, FiniteSets

CONSTANTS
    Owned,              \* the accounts whose authority may change
    Partners,           \* the accounts that can be recovery partners
    NoPartner,          \* the empty recovery_account of an account of genesis
    TopWitnesses,       \* who may be the witness with the most votes
    Authorities,        \* owner authorities
    NoRequest,          \* there is no request for the account
    UpdateLimit,        \* BMCHAIN_OWNER_UPDATE_LIMIT
    RecoveryPeriod,     \* BMCHAIN_OWNER_AUTH_RECOVERY_PERIOD
    RequestPeriod,      \* BMCHAIN_ACCOUNT_RECOVERY_REQUEST_EXPIRATION_PERIOD
    TrackingStart       \* BMCHAIN_OWNER_AUTH_HISTORY_TRACKING_START_BLOCK_NUM

ASSUME RecoveryAssumption ==
    /\ UpdateLimit \in Nat /\ RecoveryPeriod \in Nat /\ RequestPeriod \in Nat
    /\ NoPartner \notin Partners

VARIABLES
    owner,      \* [Owned -> owner authority and when it was updated, recovered]
    partner,    \* [Owned -> recovery_account or NoPartner]
    former,     \* the owner_authority_history_objects
    request,    \* [Owned -> account_recovery_request_object or NoRequest]
    change      \* [Owned -> change_recovery_account_request_object or NoRequest]

recoveryVars == <<owner, partner, former, request, change>>

RecoveryInit ==
    /\ owner = [a \in Owned |-> [auth |-> CHOOSE x \in Authorities : TRUE,
                                 updated |-> -Never, recovered |-> -Never]]
    /\ partner \in [Owned -> Partners \cup {NoPartner}]
    /\ former = {}
    /\ request = [a \in Owned |-> NoRequest]
    /\ change = [a \in Owned |-> NoRequest]

\* The partners that the loser of an authority could count on: the one in
\* force and the one it had asked for. A ghost, kept with the history.
Trusted(a) ==
    {partner[a]} \cup IF change[a] = NoRequest THEN {} ELSE {change[a].partner}

\* update_owner_authority; recovered is the time of the last recovery then.
UpdateOwnerAuthority(a, new, recovered) ==
    /\ former' = IF num < TrackingStart THEN former
                 ELSE former \cup {[account |-> a, auth |-> owner[a].auth,
                                    until |-> time, trusted |-> Trusted(a)]}
    /\ owner' = [owner EXCEPT ![a] =
                    [auth |-> new, updated |-> time, recovered |-> recovered]]

\* account_update_evaluator with a new owner authority.
AccountUpdate(a, new) ==
    /\ time - owner[a].updated > UpdateLimit
    /\ UpdateOwnerAuthority(a, new, owner[a].recovered)
    /\ UNCHANGED <<partner, request, change>>

\* The partner of an account without one is whoever is top witness just now.
MayAsk(by, a) == IF partner[a] = NoPartner THEN by \in TopWitnesses ELSE by = partner[a]

\* The partner asks for new to become the owner, or changes what it asks for.
RequestAccountRecovery(by, a, new) ==
    /\ MayAsk(by, a)
    /\ request' = [request EXCEPT ![a] = [auth |-> new, expires |-> time + RequestPeriod]]
    /\ UNCHANGED <<owner, partner, former, change>>

\* With an open authority the request is removed.
CancelRecovery(by, a) ==
    /\ MayAsk(by, a)
    /\ request[a] # NoRequest
    /\ request' = [request EXCEPT ![a] = NoRequest]
    /\ UNCHANGED <<owner, partner, former, change>>

\* The account takes up a request and proves a recent owner authority.
RecoverAccount(a, recent) ==
    /\ time - owner[a].recovered > UpdateLimit
    /\ request[a] # NoRequest
    /\ request[a].auth # recent
    /\ \E h \in former : h.account = a /\ h.auth = recent
    /\ UpdateOwnerAuthority(a, request[a].auth, time)
    /\ request' = [request EXCEPT ![a] = NoRequest]
    /\ UNCHANGED <<partner, change>>

\* Mutant of AskedChange: a change of a request keeps its time.
AskedChangeInPlace(a, new) ==
    [partner |-> new,
     effective |-> IF change[a] = NoRequest THEN time + RecoveryPeriod
                   ELSE change[a].effective]

\* The request as it is made, and made anew by a change of it.
AskedChange(a, new) == [partner |-> new, effective |-> time + RecoveryPeriod]

\* A request for another partner starts to wait anew; one for the partner in
\* force removes the request.
ChangeRecoveryAccount(a, new) ==
    /\ change' = [change EXCEPT ![a] =
                     IF @ # NoRequest /\ partner[a] = new THEN NoRequest
                     ELSE AskedChange(a, new)]
    /\ UNCHANGED <<owner, partner, former, request>>

\* account_recovery_processing at the end of a block at time now.
AccountRecoveryProcessing(now) ==
    LET due(a) == change[a] # NoRequest /\ change[a].effective <= now
    IN  /\ request' = [a \in Owned |->
                          IF request[a] # NoRequest /\ request[a].expires <= now
                          THEN NoRequest ELSE request[a]]
        /\ former' = {h \in former : ~(h.until + RecoveryPeriod < now)}
        /\ partner' = [a \in Owned |-> IF due(a) THEN change[a].partner ELSE partner[a]]
        /\ change' = [a \in Owned |-> IF due(a) THEN NoRequest ELSE change[a]]
        /\ UNCHANGED owner

---------------------------------------------------------------------------
RecoveryTypeOK ==
    /\ \A a \in Owned :
          /\ owner[a].auth \in Authorities
          /\ partner[a] \in Partners \cup {NoPartner}
          /\ request[a] # NoRequest =>
                request[a].auth \in Authorities /\ request[a].expires > time
          /\ change[a] # NoRequest =>
                change[a].partner \in Partners /\ change[a].effective > time

\* The window for recovery: as long as an authority that was replaced can be
\* shown to recover the account, the partner is one that its holder relied on
\* (no partner stands for the top witness), whatever the new owner asks for in
\* the meantime, edits of a change that was already waiting included. The last
\* instant is the exception: an authority is forgotten when its time is over,
\* a change applies when its time has come, so a change that was asked for
\* in the block of the loss is in force while the authority still counts.
RecoveryWindow ==
    \A h \in former :
        /\ time <= h.until + RecoveryPeriod
        /\ partner[h.account] \in h.trusted \/ time = h.until + RecoveryPeriod
=============================================================================

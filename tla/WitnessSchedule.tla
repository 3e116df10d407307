-------------------------- MODULE WitnessSchedule --------------------------
(***************************************************************************)
(* Who produces the next blocks: the slots, the election by votes, the     *)
(* virtual time by which the remaining witnesses take turns, the shutdown  *)
(* of absent witnesses, and the hardforks that scheduled witnesses vote    *)
(* for.                                                                    *)
(*                                                                         *)
(* A block is three kinds of steps: its header, the operations in it, and  *)
(* what _apply_block() does after them.  Block numbers and slots are kept  *)
(* modulo a round and a cycle, and times as slots up to a bound, so that   *)
(* behaviours are infinite over finitely many states.  Virtual times are   *)
(* integers up to Lap, the largest value of their type, which is also the  *)
(* length of a lap.  Miners are never scheduled (BMCHAIN_MAX_MINER_        *)
(* WITNESSES is 0), and the shuffle may yield any order.                   *)
(***************************************************************************)
EXTENDS Integers, Sequences, SequencesExt, FiniteSets, FiniteSetsExt, TLC

CONSTANTS
  Witnesses,     \* accounts that are or may become witnesses
  Rank,          \* their order by name, and by id
  InitMiner,     \* the witness of the genesis block
  MaxVotes,      \* bound: votes for one witness
  FirstVotes,    \* votes in behaviours in which they do not change
  MaxWitnesses,  \* BMCHAIN_MAX_WITNESSES
  MaxVoted,      \* BMCHAIN_MAX_VOTED_WITNESSES
  Lap,           \* VIRTUAL_SCHEDULE_LAP_LENGTH2, also the largest uint128
  Cycle,         \* absolute slots are kept modulo this
  Day,           \* BMCHAIN_BLOCKS_PER_DAY
  Window,        \* width of recent_slots_filled
  MaxMissed,     \* bound: slots missed before a block
  MaxChanges,    \* bound: changes of votes and of keys
  Required,      \* BMCHAIN_HARDFORK_REQUIRED_WITNESSES
  KnownHardforks,\* BMCHAIN_NUM_HARDFORKS
  Versions,      \* versions that witnesses run
  Ballots,       \* what they vote for: pairs of a version and a time
  MaxClock,      \* bound: time, in slots
  Scenarios      \* which kinds of events happen in a behaviour

ASSUME ScheduleAssumption ==
  /\ IsFiniteSet(Witnesses) /\ InitMiner \in Witnesses /\ Rank \in [Witnesses -> Nat]
  /\ MaxVotes \in Nat /\ FirstVotes \in [Witnesses -> 0 .. MaxVotes]
  /\ MaxWitnesses \in Nat /\ MaxWitnesses > 1 /\ MaxVoted \in 1 .. MaxWitnesses
  /\ Cycle \in Nat \ {0} /\ \A n \in 1 .. MaxWitnesses : Cycle % n = 0
  /\ Lap \in Nat /\ Window \in Nat \ {0} /\ Day \in Nat
  /\ {MaxMissed, MaxChanges, Required, KnownHardforks} \subseteq Nat
  /\ 0 \in Versions /\ Versions \subseteq Nat
  /\ MaxClock \in Nat \ {0} /\ Ballots \subseteq Nat \X (0 .. MaxClock)
  /\ <<0, 0>> \in Ballots
  /\ Scenarios \subseteq SUBSET {"vote", "key", "miss", "extend"}

VARIABLES
  wits,      \* witness_index
  wso,       \* witness_schedule_object
  dgp,       \* dynamic_global_property_object
  hfp,       \* hardfork_property_object
  block,     \* the block being applied, or NoBlock
  before,    \* what its undo session returns to
  changes,   \* number of changes so far, for MaxChanges
  backing,   \* the votes counted when the schedule was last made
  happens    \* the scenario; never changes

db == <<wits, wso, dgp, hfp, backing>>
vars == <<wits, wso, dgp, hfp, block, before, changes, backing, happens>>

NoBlock == [witness |-> "none", slot |-> 0]

\* A witness_object as it is created when the chain has so many blocks: since it
\* never signed one it has been silent for all of them.
NewWitness(key, blocks) ==
  [key |-> key, votes |-> 0, time |-> Lap, position |-> 0, updated |-> 0,
   silent |-> blocks, version |-> 0, vote |-> <<0, 0>>]

NotWitness == [NewWitness(FALSE, 0) EXCEPT !.time = -1]
Exists(ws) == {w \in Witnesses : ws[w] # NotWitness}
Keyed(ws) == {w \in Exists(ws) : ws[w].key}

-----------------------------------------------------------------------------
\* The election.

\* by_vote_name, by_schedule_time
Ahead(ws, u, w) ==
  \/ ws[u].votes > ws[w].votes
  \/ ws[u].votes = ws[w].votes /\ Rank[u] < Rank[w]

Sooner(ws, u, w) ==
  \/ ws[u].time < ws[w].time
  \/ ws[u].time = ws[w].time /\ Rank[u] < Rank[w]

\* The n first of a set of witnesses in one of these orders.
First(n, S, Before(_, _)) == {w \in S : Cardinality({u \in S : Before(u, w)}) < n}

\* The highest voted witnesses with a signing key.
Elected(ws) ==
  LET ahead(u, w) == Ahead(ws, u, w) IN First(MaxVoted, Keyed(ws), ahead)

\* The next ones in virtual time, for the places that are left.
Runners(ws, elected) ==
  LET sooner(u, w) == Sooner(ws, u, w)
  IN First(MaxWitnesses - Cardinality(elected), Keyed(ws) \ elected, sooner)

\* The witnesses that the loop over by_schedule_time comes past.
Processed(ws, elected, runners) ==
  LET room == MaxWitnesses - Cardinality(elected)
  IN CASE room = 0 -> {}
       [] Cardinality(runners) < room -> Exists(ws)
       [] OTHER -> {w \in Exists(ws) : \E r \in runners : w = r \/ Sooner(ws, w, r)}

\* Mutant of NewVirtualTime: the virtual time stands still.
NewVirtualTimeStays(ws, processed) == wso.vtime

\* "everyone advances to at least this time"
NewVirtualTime(ws, processed) ==
  IF processed = {} THEN wso.vtime ELSE Max({ws[w].time : w \in processed})

LapTime(votes) == Lap \div (votes + 1)

\* A witness starts another lap at virtual time t; the sum may wrap around.
NextTime(x, t) == (t + LapTime(x.votes)) % (Lap + 1)

Advanced(x, t) ==
  [x EXCEPT !.position = 0, !.updated = t, !.time = NextTime(x, t)]

\* update_witness_schedule4(): the witnesses, the schedule without its order and
\* the virtual time.  When a sum overflows reset_virtual_schedule_time() sets
\* every witness back, those already moved too.
MakeSchedule(ws) ==
  LET elected == Elected(ws)
      runners == Runners(ws, elected)
      processed == Processed(ws, elected, runners)
      t == NewVirtualTime(ws, processed)
      overflow == \E w \in processed : NextTime(ws[w], t) < t
  IN [active |-> elected \cup runners,
      vtime |-> IF overflow THEN 0 ELSE t,
      wits |-> [w \in Witnesses |->
                  CASE overflow /\ w \in Exists(ws) -> Advanced(ws[w], 0)
                    [] ~overflow /\ w \in processed -> Advanced(ws[w], t)
                    [] OTHER -> ws[w]]]

\* Its assertion.
EnoughActive(ws) ==
  LET elected == Elected(ws)
  IN Cardinality(elected \cup Runners(ws, elected))
       = Min({MaxWitnesses, Cardinality(Exists(ws))})

-----------------------------------------------------------------------------
\* Hardforks.

\* The votes of the witnesses in the schedule, and those with a majority.
Votes(ws) == [i \in 1 .. Len(wso.shuffled) |-> ws[wso.shuffled[i]].vote]

Majorities(ws) ==
  {v \in ToSet(Votes(ws)) :
     Cardinality({i \in DOMAIN Votes(ws) : Votes(ws)[i] = v}) >= Required}

\* Mutant of NextHardfork: a majority is not lost.
NextHardforkStays(ws) ==
  IF Majorities(ws) = {} THEN hfp
  ELSE LET v == CHOOSE v \in Majorities(ws) : TRUE
       IN [hfp EXCEPT !.next = v[1], !.next_time = v[2]]

\* Required is more than half, so that there is one majority at most.
NextHardfork(ws) ==
  IF Majorities(ws) = {} THEN [hfp EXCEPT !.next = hfp.last]
  ELSE LET v == CHOOSE v \in Majorities(ws) : TRUE
       IN [hfp EXCEPT !.next = v[1], !.next_time = v[2]]

\* process_hardforks() applies every hardfork up to the next one, or throws.
Due(h, now) == h.last < h.next /\ h.next_time <= now

Unknown(h, now) == Due(h, now) /\ h.next > KnownHardforks
ApplyHardforks(h, now) == IF Due(h, now) THEN [h EXCEPT !.last = h.next] ELSE h

-----------------------------------------------------------------------------
\* Slots.

\* get_scheduled_witness()
Scheduled(slot) == wso.shuffled[((dgp.aslot + slot) % Len(wso.shuffled)) + 1]

\* validate_block_header() and process_header_extensions(), with what the
\* witness reports of its version and its vote.
BeginBlock(slot, version, vote) ==
  LET w == Scheduled(slot)
  IN /\ block = NoBlock
     /\ slot = 1 \/ "miss" \in happens
     /\ "extend" \notin happens => version = wits[w].version /\ vote = wits[w].vote
     /\ wits[w].key
     /\ version >= hfp.last
     /\ wits' = [wits EXCEPT ![w].version = version, ![w].vote = vote]
     /\ block' = [witness |-> w, slot |-> slot]
     /\ before' = db
     /\ UNCHANGED <<wso, dgp, hfp, changes, backing, happens>>

\* witness_update_operation: a new witness, or a new signing key; an empty key
\* resigns.
UpdateWitness(w, key) ==
  /\ block # NoBlock /\ "key" \in happens /\ changes < MaxChanges
  /\ wits[w] = NotWitness \/ wits[w].key # key
  /\ wits' = [wits EXCEPT ![w] = IF wits[w] = NotWitness THEN NewWitness(key, dgp.age)
                                 ELSE [wits[w] EXCEPT !.key = key]]
  /\ changes' = changes + 1
  /\ UNCHANGED <<wso, dgp, hfp, block, before, backing, happens>>

\* adjust_witness_vote(), with the arithmetic of its type: the sum wraps around
\* when there are few votes, and is then set to the largest value.
Position(x) == (x.position + x.votes * (wso.vtime - x.updated)) % (Lap + 1)

\* Mutant of ScheduledTime: no guard against a time in the past.
ScheduledTimeWraps(x, votes) ==
  (wso.vtime + (Lap - Position(x)) \div (votes + 1)) % (Lap + 1)

ScheduledTime(x, votes) ==
  LET time == (wso.vtime + (Lap - Position(x)) \div (votes + 1)) % (Lap + 1)
  IN IF time < wso.vtime THEN Lap ELSE time

AdjustWitnessVote(w, votes) ==
  LET x == wits[w]
  IN /\ block # NoBlock /\ "vote" \in happens /\ changes < MaxChanges
     /\ w \in Exists(wits) /\ votes # x.votes
     /\ wits' = [wits EXCEPT ![w].position = Position(x), ![w].updated = wso.vtime,
                             ![w].votes = votes, ![w].time = ScheduledTime(x, votes)]
     /\ changes' = changes + 1
     /\ UNCHANGED <<wso, dgp, hfp, block, before, backing, happens>>

\* update_global_dynamic_data(): an absent witness that has not signed a block
\* for a day loses its key; update_signing_witness() after it.
Absent == {Scheduled(i) : i \in 1 .. block.slot - 1} \ {block.witness}

AfterSlots ==
  [w \in Witnesses |->
     LET x == wits[w]
         kept == [x EXCEPT !.key = x.key /\ ~(w \in Absent /\ x.silent > Day)]
     IN IF x = NotWitness THEN x
        ELSE [kept EXCEPT !.silent = IF w = block.witness THEN 0
                                     ELSE Min({x.silent + 1, Day + 1})]]

\* Mutant of Shifted: the bit that falls out is not subtracted.
ShiftedForgets(n) ==
  [filled |-> [i \in 1 .. Window |->
                 IF i > n THEN dgp.filled[i - n] ELSE IF i = n THEN 1 ELSE 0],
   count |-> Min({Window, dgp.count + 1})]

\* The window over the last slots and the number of blocks in it, after n more
\* slots: the block comes first, then the slots that were missed.
Shifted(n) ==
  LET out == {i \in 1 .. Window : i + n > Window /\ dgp.filled[i] = 1}
      gone == Cardinality(out) + (IF n > Window THEN 1 ELSE 0)
  IN [filled |-> [i \in 1 .. Window |->
                    IF i > n THEN dgp.filled[i - n] ELSE IF i = n THEN 1 ELSE 0],
      count |-> dgp.count + 1 - gone]

\* Is this the block at which the schedule is made?
Boundary == (dgp.num + 1) % MaxWitnesses = 0

Fits == Boundary => EnoughActive(AfterSlots)
NowAfter == Min({MaxClock, dgp.clock + block.slot})
HardforkAfter ==
  IF Boundary THEN NextHardfork(AfterSlots) ELSE hfp

\* The rest of _apply_block().
EndBlock ==
  /\ block # NoBlock /\ Fits /\ ~Unknown(HardforkAfter, NowAfter)
  /\ dgp' = [num |-> (dgp.num + 1) % MaxWitnesses,
             aslot |-> (dgp.aslot + block.slot) % Cycle,
             clock |-> NowAfter, age |-> Min({dgp.age + 1, Day + 1}),
             filled |-> Shifted(block.slot).filled, count |-> Shifted(block.slot).count]
  /\ \/ /\ ~Boundary
        /\ wits' = AfterSlots /\ UNCHANGED <<wso, backing>>
     \/ /\ Boundary
        /\ \E made \in {MakeSchedule(AfterSlots)} :
             /\ wits' = made.wits
             /\ \E s \in SetToSeqs(made.active) :
                  wso' = [shuffled |-> s, vtime |-> made.vtime]
        /\ backing' = Votes(AfterSlots)
  /\ hfp' = ApplyHardforks(HardforkAfter, NowAfter)
  /\ block' = NoBlock /\ before' = <<>>
  /\ UNCHANGED <<changes, happens>>

\* An exception on the way undoes the block.
RefuseBlock ==
  /\ block # NoBlock /\ ~(Fits /\ ~Unknown(HardforkAfter, NowAfter))
  /\ wits' = before[1] /\ wso' = before[2] /\ dgp' = before[3]
  /\ hfp' = before[4] /\ backing' = before[5]
  /\ block' = NoBlock /\ before' = <<>>
  /\ UNCHANGED <<changes, happens>>

-----------------------------------------------------------------------------
\* init_genesis() and the first block, in which some accounts became witnesses
\* and were voted for.
Init ==
  /\ happens \in Scenarios
  /\ wits \in [Witnesses -> {NotWitness}
        \cup {[NewWitness(TRUE, 1) EXCEPT !.votes = v, !.time = LapTime(v)] : v \in 0 .. MaxVotes}]
  /\ wits[InitMiner] # NotWitness
  /\ "vote" \notin happens => \A w \in Exists(wits) : wits[w].votes = FirstVotes[w]
  /\ wso = [shuffled |-> <<InitMiner>>, vtime |-> 0]
  /\ dgp = [num |-> 1, aslot |-> 1 % Cycle, clock |-> 1, age |-> 1,
            filled |-> [i \in 1 .. Window |-> 1], count |-> Window]
  /\ hfp = [last |-> 0, next |-> 0, next_time |-> 0]
  /\ block = NoBlock /\ before = <<>> /\ changes = 0 /\ backing = <<>>

Next ==
  \/ \E slot \in 1 .. MaxMissed + 1, version \in Versions, vote \in Ballots :
       BeginBlock(slot, version, vote)
  \/ \E w \in Witnesses, key \in BOOLEAN : UpdateWitness(w, key)
  \/ \E w \in Witnesses, votes \in 0 .. MaxVotes : AdjustWitnessVote(w, votes)
  \/ EndBlock
  \/ RefuseBlock

Spec == Init /\ [][Next]_vars

-----------------------------------------------------------------------------
\* Properties.

\* The state has its types; nobody is scheduled who is no witness, and no hardfork
\* is applied that the program does not know.
TypeOK ==
  /\ \A w \in Exists(wits) :
       /\ wits[w].key \in BOOLEAN /\ wits[w].votes \in 0 .. MaxVotes
       /\ {wits[w].time, wits[w].position, wits[w].updated} \subseteq 0 .. Lap
       /\ wits[w].silent \in 0 .. Day + 1 /\ wits[w].version \in Versions
       /\ wits[w].vote \in Ballots
  /\ wso.vtime \in 0 .. Lap /\ Len(wso.shuffled) \in 1 .. MaxWitnesses
  /\ ToSet(wso.shuffled) \subseteq Exists(wits)
  /\ dgp.num \in 0 .. MaxWitnesses - 1 /\ dgp.aslot \in 0 .. Cycle - 1
  /\ dgp.clock \in 0 .. MaxClock /\ dgp.age \in 0 .. Day + 1
  /\ hfp.last \in 0 .. KnownHardforks /\ hfp.next \in Nat /\ hfp.next_time \in 0 .. MaxClock
  /\ changes \in 0 .. MaxChanges /\ happens \in Scenarios

\* Every witness is still on its lap: it is scheduled at a time that has not
\* passed, and the distance it has run does not exceed the lap, so that the
\* unsigned differences in adjust_witness_vote() never wrap around.
OnTheLap ==
  \A w \in Exists(wits) :
    /\ wits[w].updated <= wso.vtime /\ wso.vtime <= wits[w].time
    /\ wits[w].position + wits[w].votes * (wso.vtime - wits[w].updated) <= Lap

\* Every variable has its type and all witnesses are on their lap, through
\* changes of votes, late witnesses and the overflow of virtual time.
LapConsistent == TypeOK /\ OnTheLap

\* participation_count is the number of blocks in the window of recent slots,
\* however many slots were missed.
ParticipationExact ==
  dgp.count = Cardinality({i \in 1 .. Window : dgp.filled[i] = 1})

\* A hardfork is applied only with enough votes, for this version and for a time
\* that has come, among the witnesses of the schedule that was last replaced.
HardforkBacked ==
  [][hfp'.last # hfp.last =>
       Cardinality({i \in DOMAIN backing' : backing'[i] = <<hfp'.last, hfp'.next_time>>})
         >= Required
       /\ hfp'.next_time <= dgp'.clock]_vars

\* Nobody is left out for ever: while rounds end, a witness that keeps a key and
\* a vote is scheduled again and again.
NoStarvation ==
  []<>(dgp.num = 0) /\ []<>(dgp.num # 0) =>
    \A w \in Witnesses :
      []<>(w \in ToSet(wso.shuffled) \/ ~wits[w].key \/ wits[w].votes = 0)

\* The assertion in update_witness_schedule4(): at the end of a round there are
\* witnesses for every place, or all of them are scheduled.
EnoughWitnesses == block # NoBlock => Fits
=============================================================================

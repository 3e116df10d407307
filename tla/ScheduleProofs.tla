--------------------------- MODULE ScheduleProofs --------------------------
(***************************************************************************)
(* WitnessSchedule for any number of witnesses, votes, places and slots:   *)
(* the witnesses stay on their lap of virtual time, the participation      *)
(* count is exact, and no hardfork is applied without its votes.           *)
(*                                                                         *)
(* The invariant bounds what a witness will have run when its time comes,  *)
(* not only what it has run by now: an election that moves virtual time    *)
(* never moves it past the time of a witness that it leaves alone.         *)
(***************************************************************************)
EXTENDS WitnessSchedule, DataLemmas, FiniteSetTheorems

\* The records of the state.
Witness ==
  [key : BOOLEAN, votes : 0 .. MaxVotes, time : 0 .. Lap, position : 0 .. Lap,
   updated : 0 .. Lap, silent : 0 .. Day + 1, version : Versions, vote : Ballots]

Schedule == [shuffled : Seq(Witnesses), vtime : 0 .. Lap]

Globals ==
  [num : 0 .. MaxWitnesses - 1, aslot : 0 .. Cycle - 1, clock : 0 .. MaxClock,
   age : 0 .. Day + 1, filled : [1 .. Window -> {0, 1}], count : Int]

Hardforks == [last : 0 .. KnownHardforks, next : Nat, next_time : 0 .. MaxClock]

Block == [witness : Witnesses, slot : Nat \ {0}]

\* At its scheduled time a witness will have run one lap at most, and virtual
\* time t is between its last update and then.
OneLap(x, t) ==
  /\ x.updated <= t /\ t <= x.time
  /\ x.position + x.votes * (x.time - x.updated) <= Lap

\* The witnesses, beside the schedule s.
WitsOK(ws, s) ==
  /\ ws \in [Witnesses -> Witness \cup {NotWitness}]
  /\ ws[InitMiner] # NotWitness
  /\ \A i \in 1 .. Len(s.shuffled) : ws[s.shuffled[i]] # NotWitness
  /\ \A w \in Exists(ws) : OneLap(ws[w], s.vtime)

ScheduleOK == wso \in Schedule /\ Len(wso.shuffled) \in 1 .. MaxWitnesses
GlobalsOK == dgp \in Globals /\ ParticipationExact

\* A next hardfork has the votes that were counted when the schedule was made.
Backed(h, votes) ==
  Cardinality({i \in DOMAIN votes : votes[i] = <<h.next, h.next_time>>}) >= Required

HardforkOK ==
  /\ hfp \in Hardforks /\ backing \in Seq(Ballots)
  /\ hfp.last < hfp.next => Backed(hfp, backing)

\* While a block is being applied only the witnesses change.
BlockOK ==
  \/ block = NoBlock
  \/ /\ block \in Block
     /\ before = <<before[1], wso, dgp, hfp, backing>>
     /\ WitsOK(before[1], wso)

\* The inductive invariant.
Inv ==
  /\ WitsOK(wits, wso) /\ ScheduleOK /\ GlobalsOK /\ HardforkOK /\ BlockOK
  /\ changes \in 0 .. MaxChanges /\ happens \in Scenarios

-----------------------------------------------------------------------------
\* Arithmetic.

\* A product grows with its second factor.
LEMMA ProductGrows ==
  ASSUME NEW n \in Nat, NEW x \in Nat, NEW y \in Nat, x <= y
  PROVE  n * x <= n * y
OBVIOUS

\* The integer quotient, times its divisor less one, is not above the dividend.
LEMMA Quotient ==
  ASSUME NEW a \in Nat, NEW n \in Nat
  PROVE  /\ a \div (n + 1) \in Nat
         /\ a \div (n + 1) <= a
         /\ n * (a \div (n + 1)) <= a
<1> DEFINE q == a \div (n + 1)
<1>1. q \in Nat
  OBVIOUS
<1>2. (n + 1) * q <= a
  OBVIOUS
<1>3. (n + 1) * q = n * q + q
  BY <1>1
<1>4. n * q \in Nat
  BY <1>1
<1> QED BY <1>1, <1>2, <1>3, <1>4

\* A sum of two numbers up to m, modulo m + 1, is the sum or less than each.
LEMMA SumWraps ==
  ASSUME NEW m \in Nat, NEW x \in 0 .. m, NEW y \in 0 .. m
  PROVE  /\ (x + y) % (m + 1) \in 0 .. m
         /\ x + y <= m => (x + y) % (m + 1) = x + y
         /\ x + y > m => (x + y) % (m + 1) < x
OBVIOUS

-----------------------------------------------------------------------------
\* Virtual time.

\* NextTime() is a time of the type, and when it did not wrap around it is one
\* lap away.
LEMMA NextTimeFacts ==
  ASSUME NEW x \in Witness, NEW t \in 0 .. Lap
  PROVE  /\ NextTime(x, t) \in 0 .. Lap
         /\ t <= NextTime(x, t) => x.votes * (NextTime(x, t) - t) <= Lap
<1> DEFINE d == Lap \div (x.votes + 1)
<1>1. x.votes \in Nat /\ Lap \in Nat
  BY ScheduleAssumption DEF Witness
<1>2. d \in 0 .. Lap /\ x.votes * d <= Lap
  <2> DEFINE n == x.votes
  <2> SUFFICES Lap \div (n + 1) \in 0 .. Lap /\ n * (Lap \div (n + 1)) <= Lap
    OBVIOUS
  <2>1. n \in Nat
    BY <1>1
  <2> HIDE DEF n
  <2> QED BY <1>1, <2>1, Quotient
<1>3. NextTime(x, t) = (t + d) % (Lap + 1)
  BY DEF NextTime, LapTime
<1> HIDE DEF d
<1>4. /\ (t + d) % (Lap + 1) \in 0 .. Lap
      /\ t + d <= Lap => (t + d) % (Lap + 1) = t + d
      /\ t + d > Lap => (t + d) % (Lap + 1) < t
  BY <1>1, <1>2, SumWraps
<1>5. t <= NextTime(x, t) => NextTime(x, t) - t = d
  BY <1>1, <1>2, <1>3, <1>4
<1> QED BY <1>2, <1>3, <1>4, <1>5

\* A witness that starts a lap at virtual time t is on it.
LEMMA AdvancedFacts ==
  ASSUME NEW x \in Witness, NEW t \in 0 .. Lap, t <= NextTime(x, t)
  PROVE  Advanced(x, t) \in Witness /\ OneLap(Advanced(x, t), t)
<1>1. NextTime(x, t) \in 0 .. Lap /\ x.votes * (NextTime(x, t) - t) <= Lap
  BY NextTimeFacts
<1>2. x.votes \in Nat /\ Lap \in Nat
  BY ScheduleAssumption DEF Witness
<1> DEFINE y == Advanced(x, t)
<1>3. y \in Witness
  <2>1. 0 \in 0 .. Lap
    BY <1>2
  <2> QED BY <1>1, <2>1, Zenon DEF Advanced, Witness
<1>4. y.position = 0 /\ y.updated = t /\ y.time = NextTime(x, t) /\ y.votes = x.votes
  BY DEF Advanced, Witness
<1> HIDE DEF y
<1>5. OneLap(y, t)
  BY <1>1, <1>2, <1>4 DEF OneLap
<1> QED BY <1>3, <1>5 DEF y

\* What a witness has run by now is within its lap.
LEMMA PositionFacts ==
  ASSUME NEW x \in Witness, wso.vtime \in 0 .. Lap, OneLap(x, wso.vtime)
  PROVE  /\ x.position + x.votes * (wso.vtime - x.updated) <= Lap
         /\ Position(x) \in 0 .. Lap
<1> DEFINE n == x.votes
           now == wso.vtime - x.updated
           end == x.time - x.updated
<1>1. /\ n \in Nat /\ x.position \in Nat /\ Lap \in Nat
      /\ x.time \in Nat /\ x.updated \in Nat /\ wso.vtime \in Nat
  BY ScheduleAssumption DEF Witness
<1>2. now \in Nat /\ end \in Nat /\ now <= end /\ x.position + n * end <= Lap
  BY <1>1 DEF OneLap
<1>3. Position(x) = (x.position + n * now) % (Lap + 1)
  BY DEF Position
<1> HIDE DEF n, now, end
<1>4. n * now <= n * end /\ n * now \in Nat /\ n * end \in Nat
  BY <1>1, <1>2, ProductGrows
<1>5. x.position + n * now \in 0 .. Lap
  BY <1>1, <1>2, <1>4
<1>6. (x.position + n * now) % (Lap + 1) \in 0 .. Lap
  BY <1>1, <1>5
<1> QED BY <1>3, <1>5, <1>6 DEF n, now

\* adjust_witness_vote() schedules a witness at a time that has not passed, and
\* that it reaches within its lap.
LEMMA ScheduledTimeFacts ==
  ASSUME NEW x \in Witness, wso.vtime \in 0 .. Lap, OneLap(x, wso.vtime),
         NEW votes \in 0 .. MaxVotes
  PROVE  /\ ScheduledTime(x, votes) \in wso.vtime .. Lap
         /\ Position(x) + votes * (ScheduledTime(x, votes) - wso.vtime) <= Lap
<1> DEFINE p == Position(x)
           a == Lap - p
           d == a \div (votes + 1)
           sum == (wso.vtime + d) % (Lap + 1)
           s == ScheduledTime(x, votes)
<1>1. Lap \in Nat /\ votes \in Nat /\ wso.vtime \in Nat /\ wso.vtime <= Lap
  BY ScheduleAssumption
<1>2. p \in 0 .. Lap
  BY PositionFacts
<1>3. a \in 0 .. Lap
  BY <1>1, <1>2
<1>4. s = IF sum < wso.vtime THEN Lap ELSE sum
  BY DEF ScheduledTime
<1>5. /\ d \in 0 .. Lap
      /\ votes * d <= a
  <2>1. a \in Nat
    BY <1>1, <1>3
  <2> HIDE DEF a
  <2> QED BY <1>1, <1>3, <2>1, Quotient
<1> HIDE DEF d, p
<1>6. /\ sum \in 0 .. Lap
      /\ wso.vtime + d <= Lap => sum = wso.vtime + d
      /\ wso.vtime + d > Lap => sum < wso.vtime
  BY <1>1, <1>5, SumWraps
<1> HIDE DEF sum, s
<1>7. s \in wso.vtime .. Lap /\ s - wso.vtime \in Nat /\ s - wso.vtime <= d
  BY <1>1, <1>4, <1>5, <1>6
<1>8. votes * (s - wso.vtime) <= votes * d
  <2> DEFINE y == s - wso.vtime
  <2>1. y \in Nat /\ y <= d /\ d \in Nat
    BY <1>1, <1>5, <1>7
  <2> HIDE DEF y
  <2>2. votes * y <= votes * d
    BY <1>1, <2>1, ProductGrows
  <2> QED BY <2>2 DEF y
<1>9. votes * (s - wso.vtime) \in Int /\ votes * d \in Int
  BY <1>1, <1>5, <1>7
<1>10. p + votes * (s - wso.vtime) <= Lap
  BY <1>1, <1>2, <1>5, <1>8, <1>9
<1> QED BY <1>7, <1>10 DEF s, p

-----------------------------------------------------------------------------
\* The election.

\* No witness looks like the absence of one.
LEMMA NotWitnessDiffers == NotWitness \notin Witness
<1>1. NotWitness.time = -1
  BY DEF NotWitness, NewWitness
<1>2. \A x \in Witness : x.time \in 0 .. Lap
  BY DEF Witness
<1> QED BY <1>1, <1>2, ScheduleAssumption

\* Only witnesses with a key are elected or take their turn.
LEMMA ElectionFacts ==
  ASSUME NEW ws
  PROVE  /\ Elected(ws) \subseteq Exists(ws)
         /\ \A elected : Runners(ws, elected) \subseteq Exists(ws)
BY Zenon DEF Elected, Runners, First, Keyed, Exists

\* Virtual time does not go back, and does not pass the time of a witness that
\* the loop over by_schedule_time does not come to.
LEMMA NewVirtualTimeFacts ==
  ASSUME NEW ws, WitsOK(ws, wso), wso.vtime \in 0 .. Lap, NEW elected, NEW runners,
         runners \subseteq Exists(ws)
  PROVE  LET processed == Processed(ws, elected, runners)
             t == NewVirtualTime(ws, processed)
         IN /\ processed \subseteq Exists(ws)
            /\ t \in wso.vtime .. Lap
            /\ \A w \in Exists(ws) \ processed : t <= ws[w].time
<1> DEFINE processed == Processed(ws, elected, runners)
           t == NewVirtualTime(ws, processed)
           times == {ws[w].time : w \in processed}
<1>1. Lap \in Nat
  BY ScheduleAssumption
<1>2. \A w \in Exists(ws) :
        ws[w] \in Witness /\ ws[w].time \in 0 .. Lap /\ wso.vtime <= ws[w].time
  <2> TAKE w \in Exists(ws)
  <2>1. ws[w] \in Witness /\ OneLap(ws[w], wso.vtime)
    BY Zenon DEF WitsOK, Exists
  <2> QED BY <2>1 DEF Witness, OneLap
<1>3. \/ processed = {}
      \/ processed = Exists(ws)
      \/ processed = {w \in Exists(ws) : \E r \in runners : w = r \/ Sooner(ws, w, r)}
  BY DEF Processed
<1>4. processed \subseteq Exists(ws)
  BY <1>3, Zenon
<1>5. t = IF processed = {} THEN wso.vtime ELSE Max(times)
  BY Zenon DEF NewVirtualTime
<1>6. processed # {} =>
        /\ \E p \in processed : t = ws[p].time
        /\ \A p \in processed : ws[p].time <= t
  <2> SUFFICES ASSUME processed # {}
               PROVE  /\ \E p \in processed : t = ws[p].time
                      /\ \A p \in processed : ws[p].time <= t
    OBVIOUS
  <2> HIDE DEF processed, t
  <2>1. times \in SUBSET (0 .. Lap) /\ times # {}
    BY <1>2, <1>4
  <2>2. t = Max(times)
    BY <1>5
  <2>3. Max(times) \in times /\ \A k \in times : k <= Max(times)
    <3> HIDE DEF times
    <3> QED BY <1>1, <2>1, GreatestElement
  <2> QED BY <2>2, <2>3
<1> HIDE DEF processed, t
<1>7. t \in wso.vtime .. Lap
  BY <1>1, <1>2, <1>4, <1>5, <1>6
<1>8. ASSUME NEW w \in Exists(ws) \ processed
      PROVE  t <= ws[w].time
  <2>1. CASE processed = {}
    BY <1>2, <1>5, <2>1
  <2>2. CASE processed = {v \in Exists(ws) : \E r \in runners : v = r \/ Sooner(ws, v, r)}
             /\ processed # {}
    <3>1. PICK p \in processed : t = ws[p].time
      BY <1>6, <2>2
    <3>2. PICK r \in runners : p = r \/ Sooner(ws, p, r)
      BY <2>2
    <3>3. r \in Exists(ws) /\ p \in Exists(ws)
      BY <1>4
    <3>4. ~Sooner(ws, w, r)
      BY <2>2
    <3>5. ws[p].time <= ws[r].time
      BY <1>2, <3>2, <3>3 DEF Sooner
    <3>6. ws[r].time <= ws[w].time
      BY <1>2, <3>3, <3>4 DEF Sooner
    <3> QED BY <1>2, <3>1, <3>3, <3>5, <3>6
  <2> QED BY <1>3, <2>1, <2>2
<1> QED BY <1>4, <1>7, <1>8 DEF processed, t

\* update_witness_schedule4() keeps every witness on its lap, also when virtual
\* time starts again, and schedules witnesses.
LEMMA MakeScheduleFacts ==
  ASSUME NEW ws, WitsOK(ws, wso), wso.vtime \in 0 .. Lap
  PROVE  LET m == MakeSchedule(ws)
         IN /\ m.active = Elected(ws) \cup Runners(ws, Elected(ws))
            /\ m.active \subseteq Exists(ws)
            /\ m.vtime \in 0 .. Lap
            /\ m.wits \in [Witnesses -> Witness \cup {NotWitness}]
            /\ \A w \in Witnesses : m.wits[w] # NotWitness <=> ws[w] # NotWitness
            /\ \A w \in Exists(ws) : OneLap(m.wits[w], m.vtime)
<1> DEFINE elected == Elected(ws)
           runners == Runners(ws, elected)
           processed == Processed(ws, elected, runners)
           t == NewVirtualTime(ws, processed)
           overflow == \E w \in processed : NextTime(ws[w], t) < t
           next(w) == CASE overflow /\ w \in Exists(ws) -> Advanced(ws[w], 0)
                        [] ~overflow /\ w \in processed -> Advanced(ws[w], t)
                        [] OTHER -> ws[w]
           m == MakeSchedule(ws)
<1>1. /\ m.active = elected \cup runners
      /\ m.vtime = IF overflow THEN 0 ELSE t
      /\ m.wits = [w \in Witnesses |-> next(w)]
  BY Zenon DEF MakeSchedule
<1>2. m.active \subseteq Exists(ws) /\ runners \subseteq Exists(ws)
  BY <1>1, ElectionFacts, Zenon
<1> HIDE DEF m, runners, elected
<1>3. /\ processed \subseteq Exists(ws)
      /\ t \in wso.vtime .. Lap
      /\ \A w \in Exists(ws) \ processed : t <= ws[w].time
  BY <1>2, NewVirtualTimeFacts, Zenon
<1> HIDE DEF processed, t
<1>4. Lap \in Nat /\ 0 \in 0 .. Lap /\ t \in 0 .. Lap /\ wso.vtime <= t
  BY <1>3, ScheduleAssumption
<1>5. \A w \in Exists(ws) : ws[w] \in Witness /\ OneLap(ws[w], wso.vtime) /\ w \in Witnesses
  BY Zenon DEF WitsOK, Exists
<1>6. \A w \in Witnesses : w \notin Exists(ws) => ws[w] = NotWitness
  BY Zenon DEF Exists
<1>7. NotWitness \notin Witness
  BY NotWitnessDiffers
<1>8. \A w \in Exists(ws) : next(w) \in Witness /\ OneLap(next(w), m.vtime)
  <2> TAKE w \in Exists(ws)
  <2>1. ws[w] \in Witness /\ OneLap(ws[w], wso.vtime)
    BY <1>5
  <2>2. CASE overflow
    <3>1. next(w) = Advanced(ws[w], 0) /\ m.vtime = 0
      BY <1>1, <2>2, Zenon
    <3>2. 0 <= NextTime(ws[w], 0)
      BY <1>4, <2>1, NextTimeFacts
    <3> HIDE DEF next
    <3> QED BY <1>4, <2>1, <3>1, <3>2, AdvancedFacts
  <2>3. CASE ~overflow /\ w \in processed
    <3>1. next(w) = Advanced(ws[w], t) /\ m.vtime = t
      BY <1>1, <2>3, Zenon
    <3>2. NextTime(ws[w], t) \in 0 .. Lap
      BY <1>4, <2>1, NextTimeFacts
    <3>3. t <= NextTime(ws[w], t)
      BY <1>4, <2>3, <3>2
    <3> HIDE DEF next, overflow
    <3> QED BY <1>4, <2>1, <3>1, <3>3, AdvancedFacts
  <2>4. CASE ~overflow /\ w \notin processed
    <3>1. next(w) = ws[w] /\ m.vtime = t
      BY <1>1, <2>4, Zenon
    <3>2. t <= ws[w].time
      BY <1>3, <2>4
    <3>3. ws[w].updated <= t
      BY <1>4, <2>1 DEF OneLap, Witness
    <3>4. OneLap(ws[w], t)
      BY <2>1, <3>2, <3>3 DEF OneLap
    <3> HIDE DEF next, overflow
    <3> QED BY <2>1, <3>1, <3>4
  <2> QED BY <2>2, <2>3, <2>4
<1>9. \A w \in Witnesses : w \notin Exists(ws) => next(w) = NotWitness
  BY <1>3, <1>6, Zenon
<1> HIDE DEF next, overflow
<1>10. m.wits \in [Witnesses -> Witness \cup {NotWitness}]
  BY <1>1, <1>8, <1>9, Zenon
<1>11. \A w \in Witnesses : m.wits[w] = next(w)
  BY <1>1, Zenon
<1>12. \A w \in Witnesses : m.wits[w] # NotWitness <=> ws[w] # NotWitness
  BY <1>7, <1>8, <1>9, <1>11, Zenon DEF Exists
<1>13. \A w \in Exists(ws) : OneLap(m.wits[w], m.vtime)
  BY <1>5, <1>8, <1>11, Zenon
<1>14. m.vtime \in 0 .. Lap
  BY <1>1, <1>4
<1> QED BY <1>1, <1>2, <1>10, <1>12, <1>13, <1>14 DEF m, elected, runners

-----------------------------------------------------------------------------
\* The window of recent slots.

\* However many slots go by, the count follows the window.
LEMMA ShiftedFacts ==
  ASSUME dgp \in Globals, ParticipationExact, NEW n \in Nat \ {0}
  PROVE  /\ Shifted(n).filled \in [1 .. Window -> {0, 1}]
         /\ Shifted(n).count \in Int
         /\ Shifted(n).count = Cardinality({i \in 1 .. Window : Shifted(n).filled[i] = 1})
<1> DEFINE F == {i \in 1 .. Window : dgp.filled[i] = 1}
           out == {i \in 1 .. Window : i + n > Window /\ dgp.filled[i] = 1}
           stay == F \ out
           after == [i \in 1 .. Window |->
                       IF i > n THEN dgp.filled[i - n] ELSE IF i = n THEN 1 ELSE 0]
           G == {i \in 1 .. Window : after[i] = 1}
           moved == {i \in G : i > n}
<1>1. Window \in Nat \ {0} /\ dgp.filled \in [1 .. Window -> {0, 1}]
      /\ dgp.count = Cardinality(F)
  BY ScheduleAssumption DEF Globals, ParticipationExact
<1>2. after \in [1 .. Window -> {0, 1}]
  BY <1>1
<1>3. /\ Shifted(n).filled = after
      /\ Shifted(n).count = dgp.count + 1 - (Cardinality(out) + (IF n > Window THEN 1 ELSE 0))
  BY Zenon DEF Shifted
<1>4. IsFiniteSet(1 .. Window)
  BY <1>1, FS_Interval
<1>5. /\ IsFiniteSet(F) /\ IsFiniteSet(out) /\ IsFiniteSet(stay)
      /\ IsFiniteSet(moved) /\ IsFiniteSet(G)
  <2>1. /\ F \subseteq 1 .. Window /\ out \subseteq 1 .. Window /\ stay \subseteq 1 .. Window
        /\ moved \subseteq 1 .. Window /\ G \subseteq 1 .. Window
    BY Zenon
  <2> HIDE DEF F, out, stay, moved, G
  <2> QED BY <1>4, <2>1, FS_Subset
<1>6. Cardinality(stay) = Cardinality(F) - Cardinality(out)
  <2>1. F \cap out = out
    OBVIOUS
  <2>2. Cardinality(F \ out) = Cardinality(F) - Cardinality(F \cap out)
    <3> HIDE DEF F, out
    <3> QED BY <1>5, FS_Difference
  <2> QED BY <2>1, <2>2
<1>7. Cardinality(moved) = Cardinality(stay)
  <2> DEFINE f == [i \in stay |-> i + n]
  <2>1. \A i \in stay : i \in 1 .. Window /\ i + n <= Window /\ dgp.filled[i] = 1
    BY <1>1
  <2>2. \A i \in stay : i + n \in moved
    <3> TAKE i \in stay
    <3>1. i + n \in 1 .. Window /\ i + n > n /\ (i + n) - n = i
      BY <1>1, <2>1
    <3>2. after[i + n] = dgp.filled[i]
      BY <3>1
    <3> QED BY <2>1, <3>1, <3>2
  <2>3. \A j \in moved : j - n \in stay /\ (j - n) + n = j
    <3> TAKE j \in moved
    <3>1. j \in 1 .. Window /\ j > n /\ dgp.filled[j - n] = 1
      BY <1>1
    <3>2. j - n \in 1 .. Window /\ (j - n) + n = j /\ ~((j - n) + n > Window)
      BY <1>1, <3>1
    <3> QED BY <3>1, <3>2
  <2> HIDE DEF stay, moved
  <2>4. f \in [stay -> moved]
    BY <2>2
  <2>5. \A i, j \in stay : f[i] = f[j] => i = j
    BY <2>1
  <2>6. \A j \in moved : \E i \in stay : f[i] = j
    BY <2>3
  <2>7. f \in Bijection(stay, moved)
    <3> HIDE DEF f
    <3> QED BY <2>4, <2>5, <2>6 DEF Bijection, Injection, Surjection, IsInjective
  <2>8. ExistsBijection(stay, moved)
    BY <2>7, Zenon DEF ExistsBijection
  <2> QED BY <1>5, <2>8, FS_Bijection
<1>8. Cardinality(G) = Cardinality(moved) + (IF n > Window THEN 0 ELSE 1)
  <2>1. CASE n > Window
    <3>1. G = moved
      BY <1>1, <2>1
    <3>2. Cardinality(moved) \in Nat
      <4> HIDE DEF moved, G
      <4> QED BY <1>5, FS_CardinalityType
    <3> HIDE DEF moved, G
    <3> QED BY <2>1, <3>1, <3>2
  <2>2. CASE ~(n > Window)
    <3>1. n \in 1 .. Window /\ n \notin moved
      BY <1>1, <2>2
    <3>2. after[n] = 1
      BY <3>1
    <3>3. G = moved \cup {n}
      <4>1. \A i \in G : i \in moved \cup {n}
        BY <1>1
      <4> QED BY <3>1, <3>2, <4>1
    <3> HIDE DEF moved, G
    <3>4. Cardinality(moved \cup {n}) = Cardinality(moved) + 1
      BY <1>5, <3>1, FS_AddElement
    <3> QED BY <2>2, <3>3, <3>4
  <2> QED BY <2>1, <2>2
<1>9. Cardinality(F) \in Nat /\ Cardinality(out) \in Nat
  <2> HIDE DEF F, out
  <2> QED BY <1>5, FS_CardinalityType
<1>10. Shifted(n).count = Cardinality(G) /\ Shifted(n).count \in Int
  <2> HIDE DEF F, out, stay, moved, G
  <2> QED BY <1>1, <1>3, <1>6, <1>7, <1>8, <1>9
<1> QED BY <1>2, <1>3, <1>10, Zenon

-----------------------------------------------------------------------------
\* Changes of the witnesses.

\* A change that removes no witness and keeps all on their lap.
LEMMA WitsOKChange ==
  ASSUME NEW ws, WitsOK(ws, wso), wso \in Schedule, NEW new,
         new \in [Witnesses -> Witness \cup {NotWitness}],
         \A w \in Witnesses : ws[w] # NotWitness => new[w] # NotWitness,
         \A w \in Exists(new) : OneLap(new[w], wso.vtime)
  PROVE  WitsOK(new, wso)
<1>1. InitMiner \in Witnesses
  BY ScheduleAssumption
<1>2. \A i \in 1 .. Len(wso.shuffled) : wso.shuffled[i] \in Witnesses
  BY DEF Schedule
<1> QED BY <1>1, <1>2, Zenon DEF WitsOK

\* A change of one witness.
LEMMA WitsOKOne ==
  ASSUME NEW ws, WitsOK(ws, wso), wso \in Schedule, NEW w \in Witnesses,
         NEW x \in Witness, OneLap(x, wso.vtime)
  PROVE  WitsOK([ws EXCEPT ![w] = x], wso)
<1> DEFINE new == [ws EXCEPT ![w] = x]
<1>1. ws \in [Witnesses -> Witness \cup {NotWitness}]
  BY DEF WitsOK
<1>2. \A v \in Witnesses : new[v] = IF v = w THEN x ELSE ws[v]
  BY <1>1, Zenon
<1>3. new \in [Witnesses -> Witness \cup {NotWitness}]
  BY <1>1, Zenon
<1>4. x # NotWitness
  BY NotWitnessDiffers
<1> HIDE DEF new
<1>5. \A v \in Witnesses : ws[v] # NotWitness => new[v] # NotWitness
  BY <1>2, <1>4, Zenon
<1>6. \A v \in Exists(new) : OneLap(new[v], wso.vtime)
  BY <1>2, Zenon DEF Exists, WitsOK
<1>7. WitsOK(new, wso)
  BY <1>3, <1>5, <1>6, WitsOKChange, Zenon
<1> QED BY <1>7 DEF new

\* Witnesses that exist have their type and are on their lap.
LEMMA WitnessFacts ==
  ASSUME NEW ws, WitsOK(ws, wso), NEW w \in Witnesses, ws[w] # NotWitness
  PROVE  ws[w] \in Witness /\ OneLap(ws[w], wso.vtime)
BY Zenon DEF WitsOK, Exists

\* A witness that has just been created is on its lap.
LEMMA NewWitnessFacts ==
  ASSUME NEW key \in BOOLEAN, NEW blocks \in 0 .. Day + 1, wso \in Schedule
  PROVE  NewWitness(key, blocks) \in Witness /\ OneLap(NewWitness(key, blocks), wso.vtime)
<1>1. /\ 0 \in 0 .. Lap /\ Lap \in 0 .. Lap /\ 0 \in 0 .. MaxVotes
      /\ 0 \in Versions /\ <<0, 0>> \in Ballots /\ Lap \in Nat
  BY ScheduleAssumption
<1>2. NewWitness(key, blocks) \in Witness
  BY <1>1, Zenon DEF NewWitness, Witness
<1>3. wso.vtime \in 0 .. Lap
  BY DEF Schedule
<1> DEFINE x == NewWitness(key, blocks)
<1>4. x.updated = 0 /\ x.time = Lap /\ x.position = 0 /\ x.votes = 0
  BY DEF NewWitness
<1> HIDE DEF x
<1>5. OneLap(x, wso.vtime)
  BY <1>1, <1>3, <1>4 DEF OneLap
<1> QED BY <1>2, <1>5 DEF x

\* Version, vote, key and silence have nothing to do with virtual time.
LEMMA OtherFields ==
  ASSUME NEW x \in Witness, NEW t, OneLap(x, t)
  PROVE  /\ \A version \in Versions, vote \in Ballots :
              LET y == [x EXCEPT !.version = version, !.vote = vote]
              IN y \in Witness /\ OneLap(y, t)
         /\ \A key \in BOOLEAN :
              [x EXCEPT !.key = key] \in Witness /\ OneLap([x EXCEPT !.key = key], t)
         /\ \A silent \in 0 .. Day + 1 :
              LET y == [x EXCEPT !.silent = silent]
              IN y \in Witness /\ OneLap(y, t)
<1>1. \A version \in Versions, vote \in Ballots :
        LET y == [x EXCEPT !.version = version, !.vote = vote]
        IN y \in Witness /\ OneLap(y, t)
  BY Zenon DEF Witness, OneLap
<1>2. \A key \in BOOLEAN :
        [x EXCEPT !.key = key] \in Witness /\ OneLap([x EXCEPT !.key = key], t)
  BY Zenon DEF Witness, OneLap
<1>3. \A silent \in 0 .. Day + 1 :
        LET y == [x EXCEPT !.silent = silent]
        IN y \in Witness /\ OneLap(y, t)
  BY Zenon DEF Witness, OneLap
<1> QED BY <1>1, <1>2, <1>3, Zenon

\* update_global_dynamic_data() and update_signing_witness() keep the witnesses
\* on their lap.
LEMMA AfterSlotsFacts ==
  ASSUME WitsOK(wits, wso), wso \in Schedule
  PROVE  WitsOK(AfterSlots, wso)
<1> DEFINE key(w) == wits[w].key /\ ~(w \in Absent /\ wits[w].silent > Day)
           silent(w) == IF w = block.witness THEN 0
                        ELSE Min({wits[w].silent + 1, Day + 1})
           kept(w) == [wits[w] EXCEPT !.key = key(w)]
           after(w) == IF wits[w] = NotWitness THEN wits[w]
                       ELSE [kept(w) EXCEPT !.silent = silent(w)]
<1>1. AfterSlots = [w \in Witnesses |-> after(w)]
  BY Zenon DEF AfterSlots
<1>2. ASSUME NEW w \in Witnesses, wits[w] # NotWitness
      PROVE  after(w) \in Witness /\ OneLap(after(w), wso.vtime)
  <2>1. wits[w] \in Witness /\ OneLap(wits[w], wso.vtime)
    BY <1>2, WitnessFacts
  <2>2. key(w) \in BOOLEAN
    BY Zenon
  <2>3. silent(w) \in 0 .. Day + 1
    <3>1. wits[w].silent \in 0 .. Day + 1 /\ Day \in Nat
      BY <2>1, ScheduleAssumption DEF Witness
    <3>2. Min({wits[w].silent + 1, Day + 1}) \in 0 .. Day + 1
      BY <3>1, MinOfTwo
    <3> QED BY <3>1, <3>2
  <2> HIDE DEF key, silent
  <2>4. kept(w) \in Witness /\ OneLap(kept(w), wso.vtime)
    BY <2>1, <2>2, OtherFields, Zenon
  <2> HIDE DEF kept
  <2>5. /\ [kept(w) EXCEPT !.silent = silent(w)] \in Witness
        /\ OneLap([kept(w) EXCEPT !.silent = silent(w)], wso.vtime)
    BY <2>3, <2>4, OtherFields, Zenon
  <2> QED BY <1>2, <2>5, Zenon
<1>3. \A w \in Witnesses : wits[w] = NotWitness => after(w) = NotWitness
  BY Zenon
<1> HIDE DEF after
<1>4. \A w \in Witnesses : AfterSlots[w] = after(w)
  BY <1>1, Zenon
<1>5. AfterSlots \in [Witnesses -> Witness \cup {NotWitness}]
  BY <1>1, <1>2, <1>3, Zenon
<1>6. \A w \in Witnesses : wits[w] # NotWitness => AfterSlots[w] # NotWitness
  BY <1>2, <1>4, NotWitnessDiffers, Zenon
<1>7. \A w \in Exists(AfterSlots) : OneLap(AfterSlots[w], wso.vtime)
  BY <1>2, <1>3, <1>4, Zenon DEF Exists
<1> QED BY <1>5, <1>6, <1>7, WitsOKChange, Zenon

-----------------------------------------------------------------------------
\* Hardforks.

\* The votes of a schedule are ballots.
LEMMA VotesFacts ==
  ASSUME NEW ws, WitsOK(ws, wso), wso \in Schedule
  PROVE  Votes(ws) \in Seq(Ballots)
<1>1. \A i \in 1 .. Len(wso.shuffled) :
        wso.shuffled[i] \in Witnesses /\ ws[wso.shuffled[i]] # NotWitness
  BY DEF Schedule, WitsOK
<1>2. \A i \in 1 .. Len(wso.shuffled) : ws[wso.shuffled[i]] \in Witness
  BY <1>1, WitnessFacts, Zenon
<1>3. \A i \in 1 .. Len(wso.shuffled) : ws[wso.shuffled[i]].vote \in Ballots
  BY <1>2, Zenon DEF Witness
<1>4. Len(wso.shuffled) \in Nat
  BY DEF Schedule
<1> QED BY <1>3, <1>4 DEF Votes

\* The next hardfork that a schedule votes for has its votes, or is none.
LEMMA NextHardforkFacts ==
  ASSUME NEW ws, WitsOK(ws, wso), wso \in Schedule, hfp \in Hardforks
  PROVE  LET h == NextHardfork(ws)
         IN h \in Hardforks /\ h.last = hfp.last /\ (h.last < h.next => Backed(h, Votes(ws)))
<1> DEFINE v == CHOOSE x \in Majorities(ws) : TRUE
           votes == Votes(ws)
           h == NextHardfork(ws)
<1>1. KnownHardforks \in Nat /\ Ballots \subseteq Nat \X (0 .. MaxClock)
  BY ScheduleAssumption
<1>2. CASE Majorities(ws) = {}
  <2>1. h = [hfp EXCEPT !.next = hfp.last]
    BY <1>2, Zenon DEF NextHardfork
  <2>2. hfp.last \in Nat
    BY <1>1 DEF Hardforks
  <2>3. h \in Hardforks /\ h.last = hfp.last /\ h.next = hfp.last
    BY <2>1, <2>2 DEF Hardforks
  <2> HIDE DEF h
  <2> QED BY <2>2, <2>3 DEF h
<1>3. CASE Majorities(ws) # {}
  <2>1. h = [hfp EXCEPT !.next = v[1], !.next_time = v[2]]
    BY <1>3, Zenon DEF NextHardfork
  <2>2. v \in Majorities(ws)
    BY <1>3, Zenon
  <2> HIDE DEF v
  <2>3. /\ v \in ToSet(votes)
        /\ Cardinality({i \in DOMAIN votes : votes[i] = v}) >= Required
    BY <2>2, Zenon DEF Majorities
  <2>4. votes \in Seq(Ballots)
    BY VotesFacts
  <2> HIDE DEF votes
  <2>5. v \in Ballots
    BY <2>3, <2>4, ElementsOf
  <2>6. v[1] \in Nat /\ v[2] \in 0 .. MaxClock /\ v = <<v[1], v[2]>>
    BY <1>1, <2>5
  <2>7. h \in Hardforks /\ h.last = hfp.last /\ h.next = v[1] /\ h.next_time = v[2]
    BY <2>1, <2>6 DEF Hardforks
  <2>8. <<h.next, h.next_time>> = v
    BY <2>6, <2>7
  <2> HIDE DEF h
  <2>9. Backed(h, votes)
    BY <2>3, <2>8, Zenon DEF Backed
  <2> QED BY <2>7, <2>9 DEF h, votes
<1> QED BY <1>2, <1>3

\* A hardfork that is applied was known, due, and the next one.
LEMMA ApplyHardforksFacts ==
  ASSUME NEW h \in Hardforks, NEW now, ~Unknown(h, now)
  PROVE  LET g == ApplyHardforks(h, now)
         IN /\ g \in Hardforks /\ g.next = h.next /\ g.next_time = h.next_time
            /\ g.last < g.next => g.last = h.last
            /\ g.last # h.last => g.last = h.next /\ h.last < h.next /\ h.next_time <= now
<1> DEFINE g == ApplyHardforks(h, now)
<1>1. h.next \in Nat /\ KnownHardforks \in Nat
  BY ScheduleAssumption DEF Hardforks
<1>2. CASE Due(h, now)
  <2>1. g = [h EXCEPT !.last = h.next]
    BY <1>2, Zenon DEF ApplyHardforks
  <2>2. h.next \in 0 .. KnownHardforks
    BY <1>1, <1>2 DEF Unknown
  <2>3. g \in Hardforks /\ g.last = h.next /\ g.next = h.next /\ g.next_time = h.next_time
    BY <2>1, <2>2 DEF Hardforks
  <2> HIDE DEF g
  <2>4. h.last < h.next /\ h.next_time <= now
    BY <1>2 DEF Due
  <2>5. ~(g.last < g.next)
    BY <1>1, <2>3
  <2> QED BY <2>3, <2>4, <2>5 DEF g
<1>3. CASE ~Due(h, now)
  <2>1. g = h
    BY <1>3, Zenon DEF ApplyHardforks
  <2> QED BY <2>1, Zenon
<1> QED BY <1>2, <1>3

-----------------------------------------------------------------------------
\* The invariant holds initially and is kept by every action.

\* init_genesis() establishes it.
LEMMA InitInv == Init => Inv
<1> SUFFICES ASSUME Init PROVE Inv
  OBVIOUS
<1> USE ScheduleAssumption
<1>1. wso = [shuffled |-> <<InitMiner>>, vtime |-> 0]
  BY Zenon DEF Init
<1>2. ScheduleOK
  <2>1. <<InitMiner>> \in Seq(Witnesses) /\ Len(<<InitMiner>>) = 1
    OBVIOUS
  <2> QED BY <1>1, <2>1 DEF ScheduleOK, Schedule
<1>3. WitsOK(wits, wso)
  <2> DEFINE first(v) == [NewWitness(TRUE, 1) EXCEPT !.votes = v, !.time = LapTime(v)]
  <2>1. wits \in [Witnesses -> {NotWitness} \cup {first(v) : v \in 0 .. MaxVotes}]
    BY Zenon DEF Init
  <2>2. ASSUME NEW v \in 0 .. MaxVotes
        PROVE  first(v) \in Witness /\ OneLap(first(v), wso.vtime)
    <3> DEFINE x == first(v)
    <3>1. 1 \in 0 .. Day + 1 /\ TRUE \in BOOLEAN
      OBVIOUS
    <3>2. NewWitness(TRUE, 1) \in Witness
      BY <1>2, <3>1, NewWitnessFacts DEF ScheduleOK
    <3>3. LapTime(v) \in 0 .. Lap /\ v * LapTime(v) <= Lap
      <4>1. v \in Nat /\ Lap \in Nat
        OBVIOUS
      <4> QED BY <4>1, Quotient DEF LapTime
    <3>4. x \in Witness
      BY <3>2, <3>3, Zenon DEF Witness
    <3>5. x.updated = 0 /\ x.position = 0 /\ x.votes = v /\ x.time = LapTime(v)
      BY DEF NewWitness
    <3> HIDE DEF x
    <3>6. OneLap(x, 0)
      BY <3>3, <3>5 DEF OneLap
    <3> QED BY <1>1, <3>4, <3>6 DEF x
  <2> HIDE DEF first
  <2>3. wits \in [Witnesses -> Witness \cup {NotWitness}]
    BY <2>1, <2>2
  <2>4. \A w \in Exists(wits) : OneLap(wits[w], wso.vtime)
    <3> TAKE w \in Exists(wits)
    <3>1. PICK v \in 0 .. MaxVotes : wits[w] = first(v)
      BY <2>1 DEF Exists
    <3> QED BY <2>2, <3>1, Zenon
  <2>5. wits[InitMiner] # NotWitness
    BY Zenon DEF Init
  <2>6. \A i \in 1 .. Len(wso.shuffled) : wso.shuffled[i] = InitMiner
    BY <1>1
  <2> QED BY <2>3, <2>4, <2>5, <2>6, Zenon DEF WitsOK
<1>4. GlobalsOK
  <2> DEFINE full == [i \in 1 .. Window |-> 1]
  <2>1. dgp = [num |-> 1, aslot |-> 1 % Cycle, clock |-> 1, age |-> 1,
               filled |-> full, count |-> Window]
    BY Zenon DEF Init
  <2>2. full \in [1 .. Window -> {0, 1}] /\ {i \in 1 .. Window : full[i] = 1} = 1 .. Window
    OBVIOUS
  <2>3. Cardinality(1 .. Window) = Window
    BY FS_Interval
  <2>4. 1 % Cycle \in 0 .. Cycle - 1
    OBVIOUS
  <2> HIDE DEF full
  <2>5. dgp \in Globals
    BY <2>1, <2>2, <2>4 DEF Globals
  <2>6. ParticipationExact
    BY <2>1, <2>2, <2>3 DEF ParticipationExact
  <2> QED BY <2>5, <2>6 DEF GlobalsOK
<1>5. HardforkOK
  <2>1. hfp = [last |-> 0, next |-> 0, next_time |-> 0] /\ backing = <<>>
    BY Zenon DEF Init
  <2> QED BY <2>1 DEF HardforkOK, Hardforks
<1>6. BlockOK /\ changes \in 0 .. MaxChanges /\ happens \in Scenarios
  <2>1. block = NoBlock /\ changes = 0 /\ happens \in Scenarios
    BY Zenon DEF Init
  <2>2. 0 \in 0 .. MaxChanges
    OBVIOUS
  <2> QED BY <2>1, <2>2, Zenon DEF BlockOK
<1> QED BY <1>2, <1>3, <1>4, <1>5, <1>6, Zenon DEF Inv

\* The witness of a slot is one.
LEMMA ScheduledFacts ==
  ASSUME Inv, NEW slot \in Nat
  PROVE  Scheduled(slot) \in Witnesses /\ wits[Scheduled(slot)] # NotWitness
<1> DEFINE n == Len(wso.shuffled)
           i == ((dgp.aslot + slot) % n) + 1
<1>1. n \in Nat \ {0} /\ dgp.aslot \in Nat /\ wso.shuffled \in Seq(Witnesses)
  <2>1. wso.shuffled \in Seq(Witnesses)
    BY Zenon DEF Inv, ScheduleOK, Schedule
  <2>2. n \in 1 .. MaxWitnesses /\ dgp.aslot \in 0 .. Cycle - 1
    BY Zenon DEF Inv, ScheduleOK, GlobalsOK, Globals
  <2>3. MaxWitnesses \in Nat /\ Cycle \in Nat
    BY ScheduleAssumption
  <2> HIDE DEF n
  <2> QED BY <2>1, <2>2, <2>3
<1>2. i \in 1 .. n
  <2> HIDE DEF n
  <2> QED BY <1>1
<1>3. Scheduled(slot) = wso.shuffled[i]
  BY DEF Scheduled
<1>4. wits[wso.shuffled[i]] # NotWitness
  BY <1>2, Zenon DEF Inv, WitsOK
<1> HIDE DEF i
<1> QED BY <1>1, <1>2, <1>3, <1>4

\* What the operations of a block leave alone.
LEMMA OperationKeepsInv ==
  ASSUME Inv, UNCHANGED <<wso, dgp, hfp, block, before, backing, happens>>,
         WitsOK(wits', wso), changes' \in 0 .. MaxChanges
  PROVE  Inv'
<1>1. ScheduleOK' /\ GlobalsOK' /\ HardforkOK'
  BY DEF Inv, ScheduleOK, GlobalsOK, HardforkOK, ParticipationExact
<1>2. BlockOK'
  <2>1. wso' = wso
    OBVIOUS
  <2>2. block' = block /\ before' = before /\ dgp' = dgp /\ hfp' = hfp /\ backing' = backing
    OBVIOUS
  <2> QED BY <2>1, <2>2, Zenon DEF Inv, BlockOK
<1>3. WitsOK(wits', wso')
  BY Zenon
<1> QED BY <1>1, <1>2, <1>3, Zenon DEF Inv

\* BeginBlock keeps the invariant.
LEMMA BeginBlockInv ==
  ASSUME Inv, NEW slot \in 1 .. MaxMissed + 1, NEW version \in Versions,
         NEW vote \in Ballots, BeginBlock(slot, version, vote)
  PROVE  Inv'
<1> DEFINE w == Scheduled(slot)
           x == [wits[w] EXCEPT !.version = version, !.vote = vote]
<1>1. slot \in Nat \ {0}
  BY ScheduleAssumption
<1>2. w \in Witnesses /\ wits[w] # NotWitness
  BY <1>1, ScheduledFacts
<1>3. /\ wits' = [wits EXCEPT ![w].version = version, ![w].vote = vote]
      /\ block' = [witness |-> w, slot |-> slot]
      /\ before' = <<wits, wso, dgp, hfp, backing>>
      /\ UNCHANGED <<wso, dgp, hfp, changes, backing, happens>>
  BY Zenon DEF BeginBlock, db
<1> HIDE DEF w
<1>4. wits' = [wits EXCEPT ![w] = x]
  <2>1. wits \in [Witnesses -> Witness \cup {NotWitness}]
    BY DEF Inv, WitsOK
  <2> QED BY <1>2, <1>3, <2>1
<1>5. wits[w] \in Witness /\ OneLap(wits[w], wso.vtime)
  BY <1>2, WitnessFacts DEF Inv
<1>6. x \in Witness /\ OneLap(x, wso.vtime)
  BY <1>5, OtherFields, Zenon
<1> HIDE DEF x
<1>7. wso \in Schedule
  BY DEF Inv, ScheduleOK
<1>8. WitsOK([wits EXCEPT ![w] = x], wso)
  BY <1>2, <1>6, <1>7, WitsOKOne DEF Inv
<1>9. WitsOK(wits', wso') /\ WitsOK(wits, wso')
  BY <1>3, <1>4, <1>8, Zenon DEF Inv
<1>10. ScheduleOK' /\ GlobalsOK' /\ HardforkOK'
  BY <1>3 DEF Inv, ScheduleOK, GlobalsOK, HardforkOK, ParticipationExact
<1>11. BlockOK'
  <2>1. block' \in Block
    BY <1>1, <1>2, <1>3 DEF Block
  <2>2. before'[1] = wits
    BY <1>3
  <2>3. before' = <<before'[1], wso', dgp', hfp', backing'>>
    BY <1>3, <2>2, Zenon
  <2> QED BY <1>9, <2>1, <2>2, <2>3, Zenon DEF BlockOK
<1>12. changes' \in 0 .. MaxChanges /\ happens' \in Scenarios
  BY <1>3, Zenon DEF Inv
<1> QED BY <1>9, <1>10, <1>11, <1>12, Zenon DEF Inv

\* UpdateWitness keeps the invariant.
LEMMA UpdateWitnessInv ==
  ASSUME Inv, NEW w \in Witnesses, NEW key \in BOOLEAN, UpdateWitness(w, key)
  PROVE  Inv'
<1> DEFINE x == IF wits[w] = NotWitness THEN NewWitness(key, dgp.age)
                ELSE [wits[w] EXCEPT !.key = key]
<1>1. /\ wits' = [wits EXCEPT ![w] = x]
      /\ changes < MaxChanges /\ changes' = changes + 1
      /\ UNCHANGED <<wso, dgp, hfp, block, before, backing, happens>>
  BY Zenon DEF UpdateWitness
<1>2. wso \in Schedule /\ dgp.age \in 0 .. Day + 1
  BY DEF Inv, ScheduleOK, GlobalsOK, Globals
<1>3. x \in Witness /\ OneLap(x, wso.vtime)
  <2>1. CASE wits[w] = NotWitness
    BY <1>2, <2>1, NewWitnessFacts, Zenon
  <2>2. CASE wits[w] # NotWitness
    <3>1. wits[w] \in Witness /\ OneLap(wits[w], wso.vtime)
      BY <2>2, WitnessFacts DEF Inv
    <3>2. x = [wits[w] EXCEPT !.key = key]
      BY <2>2, Zenon
    <3> HIDE DEF x
    <3> QED BY <3>1, <3>2, OtherFields, Zenon
  <2> QED BY <2>1, <2>2
<1> HIDE DEF x
<1>4. WitsOK(wits', wso)
  BY <1>1, <1>2, <1>3, WitsOKOne DEF Inv
<1>5. changes' \in 0 .. MaxChanges
  BY <1>1, ScheduleAssumption DEF Inv
<1> QED BY <1>1, <1>4, <1>5, OperationKeepsInv, Zenon

\* AdjustWitnessVote keeps the invariant.
LEMMA AdjustWitnessVoteInv ==
  ASSUME Inv, NEW w \in Witnesses, NEW votes \in 0 .. MaxVotes, AdjustWitnessVote(w, votes)
  PROVE  Inv'
<1> DEFINE x == wits[w]
           p == Position(x)
           s == ScheduledTime(x, votes)
           y == [x EXCEPT !.position = p, !.updated = wso.vtime, !.votes = votes, !.time = s]
<1>1. /\ wits' = [wits EXCEPT ![w].position = p, ![w].updated = wso.vtime,
                              ![w].votes = votes, ![w].time = s]
      /\ w \in Exists(wits)
      /\ changes < MaxChanges /\ changes' = changes + 1
      /\ UNCHANGED <<wso, dgp, hfp, block, before, backing, happens>>
  BY Zenon DEF AdjustWitnessVote
<1>2. wso \in Schedule /\ wso.vtime \in 0 .. Lap
  BY DEF Inv, ScheduleOK, Schedule
<1>3. x \in Witness /\ OneLap(x, wso.vtime)
  BY <1>1, WitnessFacts DEF Inv, Exists
<1>4. /\ p \in 0 .. Lap
      /\ s \in wso.vtime .. Lap
      /\ p + votes * (s - wso.vtime) <= Lap
  BY <1>2, <1>3, PositionFacts, ScheduledTimeFacts
<1> HIDE DEF p, s
<1>5. wits' = [wits EXCEPT ![w] = y]
  <2>1. wits \in [Witnesses -> Witness \cup {NotWitness}]
    BY DEF Inv, WitsOK
  <2> QED BY <1>1, <2>1
<1> HIDE DEF x
<1>6. Lap \in Nat /\ s \in 0 .. Lap
  BY <1>2, <1>4, ScheduleAssumption
<1>7. y \in Witness
  BY <1>2, <1>3, <1>4, <1>6, Zenon DEF Witness
<1>8. y.position = p /\ y.updated = wso.vtime /\ y.votes = votes /\ y.time = s
  BY <1>3 DEF Witness
<1> HIDE DEF y
<1>9. OneLap(y, wso.vtime)
  BY <1>2, <1>4, <1>6, <1>8 DEF OneLap
<1>10. WitsOK(wits', wso)
  BY <1>2, <1>5, <1>7, <1>9, WitsOKOne DEF Inv
<1>11. changes' \in 0 .. MaxChanges
  BY <1>1, ScheduleAssumption DEF Inv
<1> QED BY <1>1, <1>10, <1>11, OperationKeepsInv, Zenon

\* A set in some order.
LEMMA OrderFacts ==
  ASSUME NEW S, IsFiniteSet(S), NEW s \in SetToSeqs(S)
  PROVE  s \in Seq(S) /\ Len(s) = Cardinality(S)
<1>1. Cardinality(S) \in Nat
  BY FS_CardinalityType
<1>2. s \in [1 .. Cardinality(S) -> S]
  BY Zenon DEF SetToSeqs
<1> QED BY <1>1, <1>2

\* The new schedule: its assertion gives its size.
LEMMA NewScheduleFacts ==
  ASSUME NEW ws, WitsOK(ws, wso), wso \in Schedule, EnoughActive(ws),
         NEW s \in SetToSeqs(MakeSchedule(ws).active)
  PROVE  LET m == MakeSchedule(ws)
             new == [shuffled |-> s, vtime |-> m.vtime]
         IN new \in Schedule /\ Len(s) \in 1 .. MaxWitnesses /\ WitsOK(m.wits, new)
<1> DEFINE m == MakeSchedule(ws)
           new == [shuffled |-> s, vtime |-> m.vtime]
           n == Cardinality(Exists(ws))
<1>1. wso.vtime \in 0 .. Lap
  BY DEF Schedule
<1>2. /\ m.active = Elected(ws) \cup Runners(ws, Elected(ws))
      /\ m.active \subseteq Exists(ws)
      /\ m.vtime \in 0 .. Lap
      /\ m.wits \in [Witnesses -> Witness \cup {NotWitness}]
      /\ \A w \in Witnesses : m.wits[w] # NotWitness <=> ws[w] # NotWitness
      /\ \A w \in Exists(ws) : OneLap(m.wits[w], m.vtime)
  BY <1>1, MakeScheduleFacts, Zenon
<1> HIDE DEF m
<1>3. Exists(ws) \subseteq Witnesses /\ InitMiner \in Exists(ws)
  BY ScheduleAssumption DEF Exists, WitsOK
<1>4. IsFiniteSet(Exists(ws)) /\ IsFiniteSet(m.active)
  <2>1. IsFiniteSet(Witnesses)
    BY ScheduleAssumption
  <2>2. IsFiniteSet(Exists(ws))
    BY <1>3, <2>1, FS_Subset
  <2> QED BY <1>2, <2>2, FS_Subset
<1>5. n \in Nat /\ n # 0
  <2>1. Exists(ws) # {}
    BY <1>3
  <2> QED BY <1>4, <2>1, FS_CardinalityType, FS_EmptySet
<1>6. s \in Seq(m.active) /\ Len(s) = Cardinality(m.active)
  BY <1>4, OrderFacts DEF m
<1>7. Cardinality(m.active) = Min({MaxWitnesses, n})
  BY <1>2, Zenon DEF EnoughActive
<1> HIDE DEF n
<1>8. MaxWitnesses \in Nat /\ MaxWitnesses > 1
  BY ScheduleAssumption
<1>9. Min({MaxWitnesses, n}) = IF MaxWitnesses <= n THEN MaxWitnesses ELSE n
  BY <1>5, <1>8, MinOfTwo
<1>10. Len(s) \in 1 .. MaxWitnesses
  BY <1>5, <1>6, <1>7, <1>8, <1>9
<1>11. s \in Seq(Witnesses) /\ \A i \in 1 .. Len(s) : s[i] \in Exists(ws)
  BY <1>2, <1>3, <1>6
<1>12. new \in Schedule /\ new.shuffled = s /\ new.vtime = m.vtime
  BY <1>2, <1>11 DEF Schedule
<1> HIDE DEF new
<1>13. WitsOK(m.wits, new)
  <2>1. \A i \in 1 .. Len(new.shuffled) : m.wits[new.shuffled[i]] # NotWitness
    <3> TAKE i \in 1 .. Len(new.shuffled)
    <3>1. s[i] \in Exists(ws)
      BY <1>11, <1>12
    <3> QED BY <1>2, <1>12, <3>1, Zenon DEF Exists
  <2>2. m.wits[InitMiner] # NotWitness
    BY <1>2, <1>3, Zenon DEF Exists
  <2>3. \A w \in Exists(m.wits) : OneLap(m.wits[w], new.vtime)
    BY <1>2, <1>12, Zenon DEF Exists
  <2> QED BY <1>2, <2>1, <2>2, <2>3, Zenon DEF WitsOK
<1> QED BY <1>10, <1>12, <1>13 DEF new, m

\* EndBlock keeps the invariant, and applies a hardfork only with its votes.
LEMMA EndBlockInv ==
  ASSUME Inv, EndBlock
  PROVE  /\ Inv'
         /\ hfp'.last # hfp.last =>
              /\ Cardinality({i \in DOMAIN backing' :
                                backing'[i] = <<hfp'.last, hfp'.next_time>>}) >= Required
              /\ hfp'.next_time <= dgp'.clock
<1> DEFINE after == AfterSlots
           slot == block.slot
           h == HardforkAfter
           now == NowAfter
<1>1. wso \in Schedule /\ WitsOK(after, wso)
  BY AfterSlotsFacts DEF Inv, ScheduleOK
<1>2. block \in Block
  BY Zenon DEF Inv, BlockOK, EndBlock
<1>3. slot \in Nat \ {0}
  BY <1>2 DEF Block
<1>4. dgp \in Globals /\ ParticipationExact /\ hfp \in Hardforks
  BY Zenon DEF Inv, GlobalsOK, HardforkOK
<1>5. /\ Fits /\ ~Unknown(h, now)
      /\ dgp' = [num |-> (dgp.num + 1) % MaxWitnesses,
                 aslot |-> (dgp.aslot + slot) % Cycle,
                 clock |-> now, age |-> Min({dgp.age + 1, Day + 1}),
                 filled |-> Shifted(slot).filled, count |-> Shifted(slot).count]
      /\ hfp' = ApplyHardforks(h, now)
      /\ block' = NoBlock /\ changes' = changes /\ happens' = happens
  BY Zenon DEF EndBlock
<1>6. \/ /\ ~Boundary /\ wits' = after /\ wso' = wso /\ backing' = backing
      \/ /\ Boundary /\ backing' = Votes(after)
         /\ wits' = MakeSchedule(after).wits
         /\ \E s \in SetToSeqs(MakeSchedule(after).active) :
              wso' = [shuffled |-> s, vtime |-> MakeSchedule(after).vtime]
  BY Zenon DEF EndBlock
<1>7. /\ Boundary => EnoughActive(after)
      /\ h = IF Boundary THEN NextHardfork(after) ELSE hfp
  BY <1>5, Zenon DEF Fits, HardforkAfter
<1> HIDE DEF after, h
<1>8. WitsOK(wits', wso') /\ wso' \in Schedule /\ Len(wso'.shuffled) \in 1 .. MaxWitnesses
  <2>1. CASE ~Boundary
    BY <1>1, <1>6, <2>1, Zenon DEF Inv, ScheduleOK
  <2>2. CASE Boundary
    <3>1. PICK s \in SetToSeqs(MakeSchedule(after).active) :
            wso' = [shuffled |-> s, vtime |-> MakeSchedule(after).vtime]
      BY <1>6, <2>2
    <3>2. /\ [shuffled |-> s, vtime |-> MakeSchedule(after).vtime] \in Schedule
          /\ Len(s) \in 1 .. MaxWitnesses
          /\ WitsOK(MakeSchedule(after).wits,
                    [shuffled |-> s, vtime |-> MakeSchedule(after).vtime])
      BY <1>1, <1>7, <2>2, NewScheduleFacts, Zenon
    <3>3. wso'.shuffled = s
      BY <3>1
    <3> QED BY <1>6, <2>2, <3>1, <3>2, <3>3, Zenon
  <2> QED BY <2>1, <2>2
<1>9. GlobalsOK'
  <2>1. /\ Shifted(slot).filled \in [1 .. Window -> {0, 1}]
        /\ Shifted(slot).count \in Int
        /\ Shifted(slot).count = Cardinality({i \in 1 .. Window : Shifted(slot).filled[i] = 1})
    BY <1>3, <1>4, ShiftedFacts
  <2>2. /\ dgp.num \in Nat /\ dgp.aslot \in Nat /\ dgp.clock \in Nat /\ dgp.age \in Nat
        /\ MaxWitnesses \in Nat \ {0} /\ Cycle \in Nat \ {0} /\ MaxClock \in Nat /\ Day \in Nat
    BY <1>4, ScheduleAssumption DEF Globals
  <2>3. now \in 0 .. MaxClock
    BY <1>3, <2>2, MinOfTwo DEF NowAfter
  <2>4. Min({dgp.age + 1, Day + 1}) \in 0 .. Day + 1
    BY <2>2, MinOfTwo
  <2>5. /\ (dgp.num + 1) % MaxWitnesses \in 0 .. MaxWitnesses - 1
        /\ (dgp.aslot + slot) % Cycle \in 0 .. Cycle - 1
    BY <1>3, <2>2
  <2>6. dgp' \in Globals
    BY <1>5, <2>1, <2>3, <2>4, <2>5, Zenon DEF Globals
  <2>7. dgp'.filled = Shifted(slot).filled /\ dgp'.count = Shifted(slot).count
    BY <1>5
  <2> QED BY <2>1, <2>6, <2>7, Zenon DEF GlobalsOK, ParticipationExact
<1>10. h \in Hardforks /\ h.last = hfp.last /\ (h.last < h.next => Backed(h, backing'))
  <2>1. CASE Boundary
    <3>1. h = NextHardfork(after) /\ backing' = Votes(after)
      BY <1>6, <1>7, <2>1, Zenon
    <3> QED BY <1>1, <1>4, <3>1, NextHardforkFacts, Zenon
  <2>2. CASE ~Boundary
    BY <1>6, <1>7, <2>2, Zenon DEF Inv, HardforkOK
  <2> QED BY <2>1, <2>2
<1>11. backing' \in Seq(Ballots)
  BY <1>1, <1>6, VotesFacts, Zenon DEF Inv, HardforkOK
<1>12. /\ hfp' \in Hardforks /\ hfp'.next = h.next /\ hfp'.next_time = h.next_time
       /\ hfp'.last < hfp'.next => hfp'.last = h.last
       /\ hfp'.last # h.last =>
            hfp'.last = h.next /\ h.last < h.next /\ h.next_time <= now
  BY <1>5, <1>10, ApplyHardforksFacts, Zenon
<1>13. HardforkOK'
  <2>1. ASSUME hfp'.last < hfp'.next PROVE Backed(hfp', backing')
    <3>1. h.last < h.next
      BY <1>12, <2>1
    <3>2. Backed(h, backing')
      BY <1>10, <3>1
    <3> QED BY <1>12, <3>2, Zenon DEF Backed
  <2> QED BY <1>11, <1>12, <2>1 DEF HardforkOK
<1>14. ASSUME hfp'.last # hfp.last
       PROVE  /\ Cardinality({i \in DOMAIN backing' :
                                backing'[i] = <<hfp'.last, hfp'.next_time>>}) >= Required
              /\ hfp'.next_time <= dgp'.clock
  <2>1. hfp'.last = h.next /\ h.last < h.next /\ h.next_time <= now
    BY <1>10, <1>12, <1>14
  <2>2. Backed(h, backing')
    BY <1>10, <2>1
  <2>3. dgp'.clock = now
    BY <1>5
  <2> QED BY <1>12, <2>1, <2>2, <2>3, Zenon DEF Backed
<1>15. ScheduleOK' /\ BlockOK' /\ changes' \in 0 .. MaxChanges /\ happens' \in Scenarios
  BY <1>5, <1>8, Zenon DEF Inv, ScheduleOK, BlockOK
<1>16. Inv'
  BY <1>8, <1>9, <1>13, <1>15, Zenon DEF Inv
<1> QED BY <1>14, <1>16

\* RefuseBlock returns to a state in which the invariant held, with the same
\* schedule and hardforks.
LEMMA RefuseBlockInv ==
  ASSUME Inv, RefuseBlock
  PROVE  Inv' /\ hfp' = hfp
<1>1. /\ before = <<before[1], wso, dgp, hfp, backing>>
      /\ WitsOK(before[1], wso)
  BY Zenon DEF Inv, BlockOK, RefuseBlock
<1>2. before[2] = wso /\ before[3] = dgp /\ before[4] = hfp /\ before[5] = backing
  <2> DEFINE b == before[1]
  <2>1. before = <<b, wso, dgp, hfp, backing>>
    BY <1>1
  <2> HIDE DEF b
  <2> QED BY <2>1
<1>3. /\ wits' = before[1] /\ wso' = before[2] /\ dgp' = before[3] /\ hfp' = before[4]
      /\ backing' = before[5] /\ block' = NoBlock /\ changes' = changes /\ happens' = happens
  BY Zenon DEF RefuseBlock
<1>4. wso' = wso /\ dgp' = dgp /\ hfp' = hfp /\ backing' = backing
  BY <1>2, <1>3, Zenon
<1>5. WitsOK(wits', wso')
  BY <1>1, <1>3, <1>4, Zenon
<1>6. ScheduleOK' /\ GlobalsOK' /\ HardforkOK'
  BY <1>4 DEF Inv, ScheduleOK, GlobalsOK, HardforkOK, ParticipationExact
<1>7. BlockOK' /\ changes' \in 0 .. MaxChanges /\ happens' \in Scenarios
  BY <1>3, Zenon DEF Inv, BlockOK
<1> QED BY <1>4, <1>5, <1>6, <1>7, Zenon DEF Inv

\* Nothing changes.
LEMMA StutterInv ==
  ASSUME Inv, UNCHANGED vars
  PROVE  Inv'
<1>1. /\ wits' = wits /\ wso' = wso /\ dgp' = dgp /\ hfp' = hfp /\ block' = block
      /\ before' = before /\ changes' = changes /\ backing' = backing /\ happens' = happens
  BY DEF vars
<1>2. WitsOK(wits', wso') /\ BlockOK' /\ changes' \in 0 .. MaxChanges /\ happens' \in Scenarios
  BY <1>1, Zenon DEF Inv, BlockOK
<1>3. ScheduleOK' /\ GlobalsOK' /\ HardforkOK'
  BY <1>1 DEF Inv, ScheduleOK, GlobalsOK, HardforkOK, ParticipationExact
<1> QED BY <1>2, <1>3, Zenon DEF Inv

-----------------------------------------------------------------------------
\* The theorems.

\* The invariant is one, of every behaviour of any instance.
THEOREM ScheduleInvariant == Spec => []Inv
<1>1. ASSUME Inv, [Next]_vars PROVE Inv'
  <2>1. CASE UNCHANGED vars
    BY <1>1, <2>1, StutterInv
  <2>2. ASSUME NEW slot \in 1 .. MaxMissed + 1, NEW version \in Versions,
               NEW vote \in Ballots, BeginBlock(slot, version, vote)
        PROVE  Inv'
    BY <1>1, <2>2, BeginBlockInv
  <2>3. ASSUME NEW w \in Witnesses, NEW key \in BOOLEAN, UpdateWitness(w, key)
        PROVE  Inv'
    BY <1>1, <2>3, UpdateWitnessInv
  <2>4. ASSUME NEW w \in Witnesses, NEW votes \in 0 .. MaxVotes, AdjustWitnessVote(w, votes)
        PROVE  Inv'
    BY <1>1, <2>4, AdjustWitnessVoteInv
  <2>5. CASE EndBlock
    BY <1>1, <2>5, EndBlockInv
  <2>6. CASE RefuseBlock
    BY <1>1, <2>6, RefuseBlockInv
  <2> QED BY <1>1, <2>1, <2>2, <2>3, <2>4, <2>5, <2>6, Zenon DEF Next
<1> QED BY <1>1, InitInv, PTL DEF Spec

\* participation_count is the number of blocks among the last slots.
THEOREM ParticipationIsExact == Spec => []ParticipationExact
<1>1. Inv => ParticipationExact
  BY Zenon DEF Inv, GlobalsOK
<1> QED BY <1>1, ScheduleInvariant, PTL

\* Virtual time has not passed any witness, and the unsigned differences in
\* adjust_witness_vote() do not wrap around.
THEOREM LapIsConsistent == Spec => []LapConsistent
<1>1. ASSUME Inv PROVE LapConsistent
  <2>1. \A w \in Exists(wits) : wits[w] \in Witness /\ OneLap(wits[w], wso.vtime)
    BY <1>1, WitnessFacts, Zenon DEF Inv, Exists
  <2>2. wso \in Schedule /\ wso.vtime \in 0 .. Lap /\ Len(wso.shuffled) \in 1 .. MaxWitnesses
    BY <1>1 DEF Inv, ScheduleOK, Schedule
  <2>3. OnTheLap
    <3>1. ASSUME NEW w \in Exists(wits)
          PROVE  /\ wits[w].updated <= wso.vtime /\ wso.vtime <= wits[w].time
                 /\ wits[w].position + wits[w].votes * (wso.vtime - wits[w].updated) <= Lap
      BY <2>1, <2>2, PositionFacts DEF OneLap
    <3> QED BY <3>1 DEF OnTheLap
  <2>4. ToSet(wso.shuffled) \subseteq Exists(wits)
    <3>1. ASSUME NEW e \in ToSet(wso.shuffled) PROVE e \in Exists(wits)
      <4>1. wso.shuffled \in Seq(Witnesses)
        BY <2>2 DEF Schedule
      <4>2. PICK i \in 1 .. Len(wso.shuffled) : e = wso.shuffled[i]
        BY <4>1, ElementsOf
      <4>3. wso.shuffled[i] \in Witnesses
        BY <4>1
      <4> QED BY <1>1, <4>2, <4>3, Zenon DEF Inv, WitsOK, Exists
    <3> QED BY <3>1
  <2>5. \A w \in Exists(wits) :
          /\ wits[w].key \in BOOLEAN /\ wits[w].votes \in 0 .. MaxVotes
          /\ {wits[w].time, wits[w].position, wits[w].updated} \subseteq 0 .. Lap
          /\ wits[w].silent \in 0 .. Day + 1 /\ wits[w].version \in Versions
          /\ wits[w].vote \in Ballots
    BY <2>1, Zenon DEF Witness
  <2>6. /\ dgp.num \in 0 .. MaxWitnesses - 1 /\ dgp.aslot \in 0 .. Cycle - 1
        /\ dgp.clock \in 0 .. MaxClock /\ dgp.age \in 0 .. Day + 1
        /\ hfp.last \in 0 .. KnownHardforks /\ hfp.next \in Nat
        /\ hfp.next_time \in 0 .. MaxClock
        /\ changes \in 0 .. MaxChanges /\ happens \in Scenarios
    BY <1>1, Zenon DEF Inv, GlobalsOK, Globals, HardforkOK, Hardforks
  <2>7. TypeOK
    BY <2>2, <2>4, <2>5, <2>6, Zenon DEF TypeOK
  <2> QED BY <2>3, <2>7 DEF LapConsistent
<1> QED BY <1>1, ScheduleInvariant, PTL

\* process_hardforks() applies a hardfork only when enough witnesses of the
\* schedule that was last replaced voted for it and for a time that has come.
THEOREM HardforksAreBacked == Spec => HardforkBacked
<1> DEFINE A == hfp'.last # hfp.last =>
                  Cardinality({i \in DOMAIN backing' :
                                 backing'[i] = <<hfp'.last, hfp'.next_time>>})
                    >= Required
                  /\ hfp'.next_time <= dgp'.clock
<1>1. ASSUME Inv, [Next]_vars PROVE [A]_vars
  <2>1. CASE UNCHANGED vars
    BY <2>1
  <2>2. CASE EndBlock
    BY <1>1, <2>2, EndBlockInv, Zenon
  <2>3. CASE RefuseBlock
    BY <1>1, <2>3, RefuseBlockInv, Zenon
  <2>4. CASE \E slot \in 1 .. MaxMissed + 1, version \in Versions, vote \in Ballots :
               BeginBlock(slot, version, vote)
    <3>1. hfp' = hfp
      BY <2>4, Zenon DEF BeginBlock
    <3> QED BY <3>1, Zenon
  <2>5. CASE \E w \in Witnesses, key \in BOOLEAN : UpdateWitness(w, key)
    <3>1. hfp' = hfp
      BY <2>5, Zenon DEF UpdateWitness
    <3> QED BY <3>1, Zenon
  <2>6. CASE \E w \in Witnesses, votes \in 0 .. MaxVotes : AdjustWitnessVote(w, votes)
    <3>1. hfp' = hfp
      BY <2>6, Zenon DEF AdjustWitnessVote
    <3> QED BY <3>1, Zenon
  <2> QED BY <1>1, <2>1, <2>2, <2>3, <2>4, <2>5, <2>6, Zenon DEF Next
<1> HIDE DEF A
<1>2. Spec => [][A]_vars
  BY <1>1, ScheduleInvariant, PTL DEF Spec
<1> QED BY <1>2, PTL DEF HardforkBacked, A
=============================================================================

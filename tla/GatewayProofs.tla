---------------------------- MODULE GatewayProofs ----------------------------
(***************************************************************************)
(* Proofs about what the gateway makes, hour by hour, of what it is told   *)
(* and what it counts, for every value of the periods and whatever is lost *)
(* or cut short on the way:                                                *)
(*   - the modulation of the charge regulation (module ChargePwm) keeps up  *)
(*     with its target and locks for no longer than RUN_MAX slots;          *)
(*   - no night is fed between times of another season (CrossoverTimes);    *)
(*   - clouds and yield are about the day the night is planned for          *)
(*     (CloudOutlook);                                                      *)
(*   - a cycle plans with the times of one answer, and they keep the        *)
(*     feed-in of the night within the community (ChargeWindow);            *)
(*   - the sum of the week is what was fed (FeedInCounter);                 *)
(*   - a finished site has no code, and a spent code is dead (GatewaySetup). *)
(***************************************************************************)
EXTENDS ChargeWindow, CloudOutlook, CrossoverTimes, FeedInCounter, ChargePwm,
        GatewaySetup, SetFacts, FiniteSetTheorems, TLAPS

(***************************************************************************)
(* The modulation of the charge regulation.                                *)
(***************************************************************************)
\* DEBT_TOP, the product in it hidden from the arithmetic of the steps.
LEMMA TopFacts ==
    /\ DEBT_TOP \in Int
    /\ DEBT_TOP >= HYST_ON - 1 + MAX_DUTY
    /\ DEBT_TOP < DEBT_MAX
    /\ DEBT_TOP >= UNIT
    /\ RUN_MAX = DEBT_TOP - UNIT + BLOCK
    /\ OWED_MIN \in Nat \ {0}
    /\ UNIT \in Nat /\ MAX_DUTY \in Nat /\ MAX_DUTY > 0 /\ MAX_DUTY < UNIT
    /\ HYST_ON \in Nat /\ HYST_OFF \in Nat
    /\ UNIT <= HYST_OFF /\ HYST_OFF <= HYST_ON
    /\ BLOCK \in Nat /\ BLOCK > 0
    /\ DEBT_MAX \in Nat /\ MAX_GAP \in Nat
    /\ \A d \in DUTIES : d \in Nat /\ d <= MAX_DUTY
    /\ \A g \in GAPS : g \in Nat /\ g > 0
  <1>1. BLOCK * MAX_DUTY >= MAX_DUTY /\ BLOCK * MAX_DUTY \in Nat
    <2>1. BLOCK >= 1 /\ MAX_DUTY >= 1 /\ BLOCK \in Nat /\ MAX_DUTY \in Nat
      BY PwmAssumption
    <2> QED  BY <2>1
  <1>2. BLOCK * UNIT \in Nat
    BY PwmAssumption
  <1> QED
    BY <1>1, <1>2, PwmAssumption DEF DEBT_TOP, RUN_MAX, OWED_MIN

\* A free block that starts below HYST_ON ends below DEBT_TOP - MAX_DUTY.
LEMMA FreeBlock ==
    ASSUME NEW c \in Nat, c < HYST_ON
    PROVE  c + (BLOCK - 1) * MAX_DUTY <= DEBT_TOP - MAX_DUTY
  <1>1. (BLOCK - 1) * MAX_DUTY = BLOCK * MAX_DUTY - MAX_DUTY
    BY PwmAssumption
  <1> QED
    BY <1>1, PwmAssumption DEF DEBT_TOP

\* The room of a free block shrinks by at least the duty of each slot.
LEMMA Room ==
    ASSUME NEW r \in Nat, r > 0
    PROVE  /\ (r - 1) * MAX_DUTY = r * MAX_DUTY - MAX_DUTY
           /\ (r - 1) * MAX_DUTY \in Nat /\ r * MAX_DUTY \in Nat
           /\ 0 * MAX_DUTY = 0
  BY PwmAssumption

LEMMA PwmInitially == PwmInit => PwmInv
  <1> SUFFICES ASSUME PwmInit PROVE PwmInv
    OBVIOUS
  <1>1. RUN_MAX \in Nat
    BY TopFacts
  <1>2. PwmTypeOK
    <2>1. debt \in 0..DEBT_MAX
      BY TopFacts DEF PwmInit
    <2>2. rest \in 0..(BLOCK - 1)
      BY TopFacts DEF PwmInit
    <2>3. age \in 0..Old
      BY TopFacts DEF PwmInit, Old
    <2>4. run \in 0..(RUN_MAX + 1)
      BY <1>1, TopFacts DEF PwmInit
    <2>5. owed \in (-OWED_MIN)..DEBT_MAX
      BY TopFacts DEF PwmInit
    <2> QED
      BY <2>1, <2>2, <2>3, <2>4, <2>5 DEF PwmInit, PwmTypeOK
  <1>3. debt + rest * MAX_DUTY = 0
    <2>1. debt = 0 /\ rest = 0 /\ MAX_DUTY \in Nat
      BY TopFacts DEF PwmInit
    <2> QED  BY <2>1
  <1>4. 0 <= DEBT_TOP - MAX_DUTY
    BY TopFacts
  <1> QED
    BY <1>2, <1>3, <1>4 DEF PwmInit, PwmInv

\* What a slot starts from, the state set up anew after a gap or not.
LEMMA Start ==
    ASSUME PwmInv, NEW gap \in GAPS
    PROVE  /\ DebtAt(gap) \in 0..DEBT_MAX
           /\ LockAt(gap) \in BOOLEAN
           /\ RestAt(gap) \in 0..(BLOCK - 1)
           /\ OwedAt(gap) \in (-OWED_MIN)..DEBT_MAX
           /\ OwedAt(gap) <= DebtAt(gap)
           /\ DebtAt(gap) <= DEBT_TOP - MAX_DUTY
           /\ ~LockAt(gap) => DebtAt(gap) + RestAt(gap) * MAX_DUTY
                                <= DEBT_TOP - MAX_DUTY
           /\ LockAt(gap) => DebtAt(gap) <= DEBT_TOP - UNIT
           /\ RestAt(gap) > 0 => Fresh(gap)
           /\ LockAt(gap) => Fresh(gap)
  <1>1. rest * MAX_DUTY >= 0 /\ 0 * MAX_DUTY = 0
    <2>1. rest \in Nat /\ MAX_DUTY \in Nat
      BY TopFacts DEF PwmInv, PwmTypeOK
    <2> QED  BY <2>1
  <1>2. debt <= DEBT_TOP - MAX_DUTY
    BY <1>1, TopFacts DEF PwmInv, PwmTypeOK
  <1>3. CASE Fresh(gap)
    BY <1>1, <1>2, <1>3, TopFacts
    DEF PwmInv, PwmTypeOK, DebtAt, LockAt, RestAt, OwedAt
  <1>4. CASE ~Fresh(gap)
    BY <1>1, <1>4, TopFacts DEF DebtAt, LockAt, RestAt, OwedAt
  <1> QED
    BY <1>3, <1>4

\* The anti-windup never takes anything from the debt.
LEMMA NoWindup ==
    ASSUME PwmInv, NEW gap \in GAPS, NEW d \in DUTIES
    PROVE  /\ Charged(d, gap) = DebtAt(gap) + d
           /\ Charged(d, gap) \in Nat
           /\ Charged(d, gap) <= DEBT_TOP
  BY Start, TopFacts DEF Charged, SmallerOf

\* A planned slot that stays free.
LEMMA PlanFree ==
    ASSUME PwmInv, NEW gap \in GAPS, NEW d \in DUTIES, Plan(d, gap),
           ~Locks(d, gap)
    PROVE  PwmInv'
  <1> DEFINE D == DebtAt(gap)
             R == RestAt(gap)
  <1>1. /\ debt' = D + d /\ lock' = FALSE /\ age' = 0 /\ run' = 0
        /\ slot' = "free"
        /\ rest' = IF d = 0 THEN 0 ELSE (IF R = 0 THEN BLOCK ELSE R) - 1
        /\ owed' = LargerOf(OwedAt(gap) + d - 0, -OWED_MIN)
    BY NoWindup DEF Plan
  <1>2. d \in Nat /\ d <= MAX_DUTY /\ D \in Nat /\ R \in 0..(BLOCK - 1)
    BY Start, TopFacts
  <1>3. debt' + rest' * MAX_DUTY <= DEBT_TOP - MAX_DUTY
    <2>1. CASE d = 0
      <3>1. rest' * MAX_DUTY = 0
        BY <1>1, <2>1, TopFacts
      <3> QED
        BY <1>1, <2>1, <3>1, Start, <1>2, TopFacts
    <2>2. CASE d # 0 /\ R = 0
      <3>1. ~Decides(d, gap)
        BY <2>2, <1>2 DEF Locks
      <3>2. D + d < HYST_ON /\ D + d \in Nat
        BY <3>1, <1>2, NoWindup, TopFacts DEF Decides
      <3>3. rest' = BLOCK - 1
        BY <1>1, <2>2
      <3>4. D + d + (BLOCK - 1) * MAX_DUTY <= DEBT_TOP - MAX_DUTY
        BY <3>2, FreeBlock
      <3> QED
        BY <1>1, <3>3, <3>4
    <2>3. CASE d # 0 /\ R # 0
      <3>1. ~LockAt(gap)
        BY <2>3, <1>2 DEF Locks
      <3>2. rest' = R - 1
        BY <1>1, <2>3
      <3>3. (R - 1) * MAX_DUTY = R * MAX_DUTY - MAX_DUTY
        BY <2>3, <1>2, Room
      <3>4. D + R * MAX_DUTY <= DEBT_TOP - MAX_DUTY
        BY <3>1, Start
      <3>5. R * MAX_DUTY \in Nat
        BY <2>3, <1>2, Room
      <3> QED
        BY <1>1, <1>2, <3>2, <3>3, <3>4, <3>5, TopFacts
    <2> QED
      BY <2>1, <2>2, <2>3
  <1>4. rest' \in 0..(BLOCK - 1)
    BY <1>1, <1>2, TopFacts
  <1>5. debt' \in 0..DEBT_MAX
    BY <1>1, <1>2, NoWindup, TopFacts
  <1>6. owed' \in (-OWED_MIN)..DEBT_MAX /\ owed' <= debt'
    BY <1>1, <1>2, <1>5, Start, TopFacts DEF LargerOf
  <1>7. RUN_MAX \in Nat
    BY TopFacts
  <1>8. PwmTypeOK'
    <2>1. age' \in 0..Old /\ run' \in 0..(RUN_MAX + 1)
      BY <1>1, <1>7, TopFacts DEF Old
    <2> QED
      BY <1>1, <1>4, <1>5, <1>6, <2>1 DEF PwmTypeOK
  <1> QED
    BY <1>1, <1>3, <1>6, <1>8 DEF PwmInv

\* A planned slot that is locked.
LEMMA PlanLocked ==
    ASSUME PwmInv, NEW gap \in GAPS, NEW d \in DUTIES, Plan(d, gap),
           Locks(d, gap)
    PROVE  PwmInv'
  <1> DEFINE D == DebtAt(gap)
             R == RestAt(gap)
  <1>0. Locks(d, gap) = TRUE
    BY Start DEF Locks, Decides
  <1>1. /\ debt' = LargerOf(D + d - UNIT, 0) /\ lock' = TRUE /\ age' = 0
        /\ slot' = "lock"
        /\ run' = SmallerOf(run + 1, RUN_MAX + 1)
        /\ rest' = IF d = 0 THEN 0 ELSE (IF R = 0 THEN BLOCK ELSE R) - 1
        /\ owed' = LargerOf(OwedAt(gap) + d - UNIT, -OWED_MIN)
    <2>1. Charged(d, gap) = D + d
      BY NoWindup
    <2>2. debt' = LargerOf(D + d - UNIT, 0)
      <3>1. debt' = LargerOf(Charged(d, gap) - UNIT, 0)
        BY <1>0 DEF Plan
      <3> QED
        BY <2>1, <3>1, Start, TopFacts DEF LargerOf
    <2>3. lock' = TRUE /\ age' = 0 /\ slot' = "lock"
      BY <1>0 DEF Plan
    <2>4. run' = SmallerOf(run + 1, RUN_MAX + 1)
      BY <1>0 DEF Plan
    <2>5. rest' = IF d = 0 THEN 0 ELSE (IF R = 0 THEN BLOCK ELSE R) - 1
      BY DEF Plan
    <2>6. owed' = LargerOf(OwedAt(gap) + d - UNIT, -OWED_MIN)
      BY <1>0 DEF Plan
    <2> QED
      BY <2>2, <2>3, <2>4, <2>5, <2>6
  <1>2. /\ d \in Nat /\ d <= MAX_DUTY /\ d > 0
        /\ D \in Nat /\ D <= DEBT_TOP - MAX_DUTY /\ R \in 0..(BLOCK - 1)
    BY Start, TopFacts DEF Locks
  <1>3. debt' <= DEBT_TOP - UNIT /\ debt' \in 0..DEBT_MAX
    BY <1>1, <1>2, TopFacts DEF LargerOf
  <1>4. rest' \in 0..(BLOCK - 1)
    BY <1>1, <1>2, TopFacts
  <1>5. owed' \in (-OWED_MIN)..DEBT_MAX /\ owed' <= debt'
    BY <1>1, <1>2, Start, TopFacts DEF LargerOf
  <1>6. /\ \/ run' - 1 + debt' <= DEBT_TOP - UNIT
           \/ debt' = 0 /\ run' + rest' <= RUN_MAX
        /\ run' \in 0..(RUN_MAX + 1)
    <2>1. run \in Nat /\ RUN_MAX \in Nat /\ rest \in Nat
      BY TopFacts DEF PwmInv, PwmTypeOK
    <2>2. CASE run = 0
      BY <1>1, <1>3, <2>2, TopFacts DEF SmallerOf
    <2>3. CASE run > 0 /\ ~Fresh(gap)
      \* A state set up anew decides afresh and stays free: d < HYST_ON.
      <3>1. D = 0 /\ ~LockAt(gap) /\ R = 0
        BY <2>3 DEF DebtAt, LockAt, RestAt
      <3>2. Decides(d, gap) /\ Charged(d, gap) = d
        BY <3>1, <1>2, NoWindup DEF Locks
      <3>3. d >= HYST_ON
        BY <3>1, <3>2 DEF Decides
      <3> QED
        BY <3>3, <1>2, TopFacts
    <2>4. CASE run > 0 /\ Fresh(gap)
      <3>1. D = debt /\ R = rest /\ LockAt(gap) = lock /\ lock
        BY <2>4 DEF DebtAt, RestAt, LockAt, PwmInv, PwmTypeOK
      <3>2. CASE run - 1 + debt <= DEBT_TOP - UNIT /\ debt + d >= UNIT
        BY <1>1, <1>2, <2>1, <3>1, <3>2, TopFacts DEF SmallerOf, LargerOf
      <3>3. CASE debt + d < UNIT
        \* The lock ran into a decision no earlier than the block's end.
        <4>1. R > 0
          <5>1. CASE R = 0
            <6>1. Decides(d, gap) /\ Charged(d, gap) = debt + d
              BY <5>1, <3>1, NoWindup DEF Locks
            <6>2. debt + d >= HYST_OFF
              BY <6>1, <3>1 DEF Decides
            <6> QED
              BY <6>2, <3>3, <1>2, <3>1, TopFacts
          <5> QED
            BY <5>1, <1>2
        <4>2. debt' = 0 /\ rest' = rest - 1
          BY <1>1, <1>2, <3>1, <3>3, <4>1, TopFacts DEF LargerOf
        <4>3. run + rest <= RUN_MAX
          BY <2>1, <2>4, <3>1, <4>1, <1>2, TopFacts DEF PwmInv
        <4> QED
          BY <1>1, <2>1, <4>2, <4>3, <3>1, <4>1 DEF SmallerOf
      <3>4. CASE ~(run - 1 + debt <= DEBT_TOP - UNIT) /\ debt + d >= UNIT
        \* A debt of zero and one slot's duty make no whole slot.
        <4>1. debt = 0
          BY <2>4, <3>4 DEF PwmInv
        <4> QED
          BY <4>1, <3>4, <1>2, TopFacts
      <3> QED
        BY <3>2, <3>3, <3>4, <3>1, <1>2, TopFacts
    <2> QED
      BY <2>1, <2>2, <2>3, <2>4
  <1> QED
    BY <1>1, <1>3, <1>4, <1>5, <1>6, TopFacts DEF PwmInv, PwmTypeOK, Old

LEMMA PwmStep == PwmInv /\ [PwmNext]_pwmVars => PwmInv'
  <1> SUFFICES ASSUME PwmInv, [PwmNext]_pwmVars PROVE PwmInv'
    OBVIOUS
  <1>1. ASSUME NEW gap \in GAPS, NEW d \in DUTIES, Plan(d, gap) PROVE PwmInv'
    BY <1>1, PlanFree, PlanLocked
  <1>2. ASSUME NEW gap \in GAPS, Crossover(gap) PROVE PwmInv'
    BY <1>2, TopFacts DEF Crossover, PwmInv, PwmTypeOK, Old
  <1>3. ASSUME NEW gap \in GAPS, NoPlan(gap) PROVE PwmInv'
    BY <1>3, TopFacts DEF NoPlan, PwmInv, PwmTypeOK, Old, SmallerOf
  <1>4. CASE UNCHANGED pwmVars
    BY <1>4 DEF pwmVars, PwmInv, PwmTypeOK
  <1> QED
    BY <1>1, <1>2, <1>3, <1>4 DEF PwmNext

\* The strengthened invariant, and with it the type of every variable.
THEOREM PwmInvariant == PwmSpec => []PwmInv
  BY PwmInitially, PwmStep, PTL DEF PwmSpec

\* Never more than RUN_MAX slots in a row are locked by the modulation.
THEOREM LockEnds == PwmSpec => []LockedRunBounded
  <1>1. PwmInv => LockedRunBounded
    <2> SUFFICES ASSUME PwmInv PROVE LockedRunBounded
      OBVIOUS
    <2>1. run \in Nat /\ debt \in Nat /\ rest \in Nat
      BY TopFacts DEF PwmInv, PwmTypeOK
    <2> QED
      BY <2>1, TopFacts DEF PwmInv, LockedRunBounded
  <1> QED
    BY <1>1, PwmInvariant, PTL

\* The locked slots keep up with the duty, and the anti-windup never bites.
THEOREM KeepsUp == PwmSpec => []LockKeepsUp
  <1>1. PwmInv => LockKeepsUp
    <2> SUFFICES ASSUME PwmInv PROVE LockKeepsUp
      OBVIOUS
    <2>1. rest * MAX_DUTY >= 0
      <3>1. rest \in Nat /\ MAX_DUTY \in Nat
        BY TopFacts DEF PwmInv, PwmTypeOK
      <3> QED  BY <3>1
    <2> QED
      BY <2>1, TopFacts DEF PwmInv, PwmTypeOK, LockKeepsUp
  <1> QED
    BY <1>1, PwmInvariant, PTL

\* After the hard lock of the crossover the modulation starts free.
THEOREM CrossoverPays == PwmSpec => CrossoverLeavesNoDebt
  <1> DEFINE Paid == slot = "crossover" => debt = 0 /\ rest = 0
  <1>1. PwmInit => Paid
    BY DEF PwmInit
  <1>2. Paid /\ [PwmNext]_pwmVars => Paid'
    BY DEF PwmNext, Plan, Crossover, NoPlan, pwmVars
  <1>3. PwmInv /\ Paid /\ [PwmNext]_pwmVars
          => [slot = "crossover" => slot' # "lock"]_pwmVars
    <2> SUFFICES ASSUME PwmInv, Paid, PwmNext, slot = "crossover"
                 PROVE  slot' # "lock"
      OBVIOUS
    <2>1. ASSUME NEW gap \in GAPS, NEW d \in DUTIES, Plan(d, gap)
          PROVE  slot' # "lock"
      <3>1. DebtAt(gap) = 0 /\ RestAt(gap) = 0
        BY DEF DebtAt, RestAt
      <3>2. Charged(d, gap) = d /\ d < HYST_OFF /\ d < HYST_ON /\ d \in Nat
        BY <3>1, NoWindup, TopFacts
      <3>3. ~Locks(d, gap)
        BY <3>1, <3>2, TopFacts DEF Locks, Decides
      <3> QED
        BY <2>1, <3>3 DEF Plan
    <2> QED
      BY <2>1 DEF PwmNext, Crossover, NoPlan
  <1> QED
    BY <1>1, <1>2, <1>3, PwmInvariant, PTL DEF PwmSpec, CrossoverLeavesNoDebt

-----------------------------------------------------------------------------
(***************************************************************************)
(* The times of the crossover.                                             *)
(***************************************************************************)
\* Nothing has been measured or fetched yet: the invariant holds in the initial state.
LEMMA CrossoverInitially == CrossoverInit => CrossoverInv
BY CrossoverAssumption DEF CrossoverInit, CrossoverInv, Idle, NoDay, Never

\* Every step of platform, script and calendar keeps the invariant.
LEMMA CrossoverStep == CrossoverInv /\ [CrossoverNext]_crossoverVars => CrossoverInv'
<1> SUFFICES ASSUME CrossoverInv, [CrossoverNext]_crossoverVars PROVE CrossoverInv'
  OBVIOUS
<1> USE CrossoverAssumption DEF CrossoverInv, NoDay, Never
\* A late delivery is at least a day old, and only makes the youngest day younger.
<1>1. CASE Deliver
  <2> PICK back \in 1..DAYS_BACK :
           \/ plus' = Younger(back, plus) /\ minus' = minus
           \/ minus' = Younger(back, minus) /\ plus' = plus
    BY <1>1 DEF Deliver
  <2> QED
    BY <1>1 DEF Deliver, Younger
\* What is fetched is within the look back.
<1>2. CASE FetchCrossover
  BY <1>2 DEF FetchCrossover, Idle, Reply, HasCrossover, CompleteDays
\* A gap leaves the stamp alone.
<1>3. CASE FetchGap
  BY <1>3 DEF FetchGap, Gap, Idle
\* The stamp is renewed last, when both times are of today's fetch.
<1>4. CASE WriteCrossover
  <2>1. CASE write.next = 1
    BY <1>4, <2>1 DEF WriteCrossover, Idle
  <2>2. CASE write.next = 2
    BY <1>4, <2>2 DEF WriteCrossover, Idle
  <2>3. CASE write.next = 3
    BY <1>4, <2>3 DEF WriteCrossover, Idle
  <2>4. write.next \in 1..3
    BY <1>4 DEF WriteCrossover, Idle
  <2> QED
    BY <2>1, <2>2, <2>3, <2>4
<1>5. CASE CutShort
  BY <1>5 DEF CutShort, Idle
\* Times and stamp grow old together.
<1>6. CASE NextDay
  BY <1>6 DEF NextDay, Older, Idle
<1>7. CASE UNCHANGED crossoverVars
  BY <1>7 DEF crossoverVars
<1> QED
  BY <1>1, <1>2, <1>3, <1>4, <1>5, <1>6, <1>7 DEF CrossoverNext

\* The age limit of the stamp and the look back of the platform add up.
LEMMA CrossoverEnough == CrossoverInv => NoTimesOfLastSeason
BY CrossoverAssumption DEF CrossoverInv, NoTimesOfLastSeason, Discharges, Stale, NoDay, Never

\* The night is fed only between times behind which the community covered itself
\* within look back and age limit, whatever is delivered, lost or cut short.
THEOREM CrossoverSafe == CrossoverSpec => []NoTimesOfLastSeason
<1>1. CrossoverSpec => []CrossoverInv
  BY CrossoverInitially, CrossoverStep, PTL DEF CrossoverSpec
<1> QED
  BY <1>1, CrossoverEnough, PTL

-----------------------------------------------------------------------------
(***************************************************************************)
(* Clouds and yield.                                                       *)
(***************************************************************************)
Yield == [day : Int, at : Int]
Entry == [at : Int, value : Int, yield : Yield]

CloudTypes ==
    /\ hourNow \in Nat /\ part \in {"before", "at", "after"} /\ spoiled \in BOOLEAN
    /\ board \in [value : Int, stamp : Int, yield : Yield, hours : Int, history : Seq(Entry)]
    /\ script = NoScript \/ script \in [next : 1..5, value : Int, yield : Yield]

\* What was fetched is about the midday that was next when it was fetched.  Value
\* and stamp are written one after the other: a script cut short between them
\* leaves a value that is younger than its stamp says, never an older one.
OfItsHour ==
    /\ board.stamp # Unknown =>
          /\ board.stamp \in 0..hourNow
          /\ \E h \in board.stamp..hourNow : board.value = WindowDay(h)
    /\ script # NoScript => script.value = WindowDay(hourNow)
    /\ script # NoScript /\ script.next >= 2 => board.value = script.value
    /\ \A i \in DOMAIN board.history :
          /\ board.history[i].at \in 0..hourNow
          /\ board.history[i].value = WindowDay(board.history[i].at)

\* The yield on the board is of the stamp's fetch, except while the script is
\* between the two, or when one was cut short there.
YieldOfTheStamp ==
    /\ script # NoScript => script.yield = NoYield \/ script.yield.at = hourNow
    /\ script # NoScript /\ script.next >= 3 => board.stamp = hourNow
    /\ (script = NoScript /\ ~spoiled) \/ (script # NoScript /\ script.next \in 1..2 /\ ~spoiled)
         \/ (script # NoScript /\ script.next >= 4)
       => board.yield = NoYield \/ board.yield.at = board.stamp

CloudInv ==
    /\ CloudTypes /\ OfItsHour /\ YieldOfTheStamp
    /\ NightOfOneDay /\ YieldAsFreshAsClouds

\* A smoothed reading is the current one or fresh entries of the history.
LEMMA SmoothedFrom ==
    ASSUME NEW current, NEW valued, NEW late,
           NEW e \in Smoothed(current, valued, late)
    PROVE  \/ e = current
           \/ \E i \in DOMAIN board.history :
                 /\ EntryFresh(board.history[i], late)
                 /\ e = [day |-> valued[board.history[i]], at |-> board.history[i].at]
BY DEF Smoothed, Counts

\* What the age limit means in hours, before and after the fetch of the hour.
LEMMA FreshHours ==
    ASSUME hourNow \in Nat, NEW a \in Int, NEW entry, entry.at = a,
           NEW late \in BOOLEAN, EntryFresh(entry, late)
    PROVE  /\ hourNow - a <= MAX_AGE
           /\ part = "after" => hourNow - a < MAX_AGE
BY DEF EntryFresh, MAX_AGE

\* The midday that was next in one of the last hours is the one the night is
\* planned for, but for the hours around noon.
LEMMA NightsDay ==
    ASSUME hourNow \in Nat, NEW h \in Nat, h <= hourNow, hourNow - h <= MAX_AGE,
           part = "after" => hourNow - h < MAX_AGE
    PROVE  /\ HourOf(hourNow) >= 15 \/ (HourOf(hourNow) = 14 /\ part = "after")
                => WindowDay(h) = DayOf(hourNow) + 1
           /\ HourOf(hourNow) < 12 => WindowDay(h) = DayOf(hourNow)
<1>1. ASSUME NEW n \in Nat PROVE n = 24 * (n \div 24) + (n % 24) /\ n % 24 \in 0..23
                                 /\ n \div 24 \in Nat
  OBVIOUS
<1> DEFINE N == hourNow \div 24
           n == hourNow % 24
           H == h \div 24
           k == h % 24
<1>2. /\ hourNow = 24 * N + n /\ n \in 0..23 /\ N \in Nat
      /\ h = 24 * H + k /\ k \in 0..23 /\ H \in Nat
  BY <1>1
<1> HIDE DEF N, n, H, k
<1>3. n >= 15 \/ (n = 14 /\ part = "after") => H = N /\ k >= 12
  BY <1>2 DEF MAX_AGE
<1>4. n < 12 => (H = N /\ k < 12) \/ (H = N - 1 /\ k >= 12)
  BY <1>2 DEF MAX_AGE
<1> QED  BY <1>2, <1>3, <1>4 DEF WindowDay, HourOf, DayOf, N, n, H, k

LEMMA CloudInitially == CloudInit => CloudInv
<1> SUFFICES ASSUME CloudInit PROVE CloudInv
  OBVIOUS
<1>1. NoYield \in Yield /\ << >> \in Seq(Entry)
  BY DEF NoYield, Yield, Unknown
<1> DEFINE b == [value |-> Unknown, stamp |-> Unknown, yield |-> NoYield,
                 hours |-> Unknown, history |-> << >>]
<1>4. b \in [value : Int, stamp : Int, yield : Yield, hours : Int, history : Seq(Entry)]
  BY <1>1 DEF Unknown
<1>5. board = b /\ hourNow = 9 /\ part = "before" /\ spoiled = FALSE /\ script = NoScript
  BY DEF CloudInit
<1> HIDE DEF b
<1>2. CloudTypes
  BY <1>4, <1>5 DEF CloudTypes
<1>3. OfItsHour /\ YieldOfTheStamp
  BY DEF CloudInit, OfItsHour, YieldOfTheStamp
<1> QED  BY <1>2, <1>3 DEF CloudInit, NoLook, CloudInv, NightOfOneDay, YieldAsFreshAsClouds

\* What a cycle sees.
LEMMA CloudLook ==
    ASSUME CloudInv, Cycle
    PROVE  NightOfOneDay' /\ YieldAsFreshAsClouds'
<1>0. /\ CloudTypes /\ OfItsHour /\ YieldOfTheStamp
      /\ UNCHANGED <<hourNow, part, board, script, spoiled>>
  BY DEF CloudInv, Cycle
<1> PICK late \in BOOLEAN :
       look' = [clouds |-> IF StampFresh(late)
                           THEN Smoothed([day |-> board.value, at |-> board.stamp],
                                         [e \in Entries |-> e.value], late)
                           ELSE {},
                yields |-> IF StampFresh(late) /\ board.yield # NoYield
                           THEN Smoothed(board.yield, [e \in Entries |-> e.yield.day], late)
                           ELSE {},
                hours |-> /\ board.hours # Unknown /\ DayOf(board.hours) = DayOf(hourNow)
                          /\ EntryFresh([at |-> board.hours], late),
                clean |-> script = NoScript /\ ~spoiled]
  BY DEF Cycle
<1>1. \A i \in DOMAIN board.history :
         /\ board.history[i] \in Entries
         /\ board.history[i].at \in 0..hourNow
         /\ board.history[i].value = WindowDay(board.history[i].at)
  BY <1>0 DEF OfItsHour, Entries
<1>2. ASSUME StampFresh(late)
      PROVE  /\ board.stamp \in 0..hourNow /\ hourNow - board.stamp <= MAX_AGE
             /\ part = "after" => hourNow - board.stamp < MAX_AGE
  <2>1. board.stamp # Unknown /\ EntryFresh([at |-> board.stamp], late)
    BY <1>2 DEF StampFresh
  <2>2. board.stamp \in 0..hourNow /\ hourNow \in Nat
    BY <1>0, <2>1 DEF OfItsHour, CloudTypes
  <2> QED  BY <2>1, <2>2, FreshHours
<1>3. ASSUME NEW i \in DOMAIN board.history, EntryFresh(board.history[i], late)
      PROVE  /\ board.history[i].at \in 0..hourNow
             /\ hourNow - board.history[i].at <= MAX_AGE
             /\ part = "after" => hourNow - board.history[i].at < MAX_AGE
  <2>1. board.history[i].at \in 0..hourNow /\ hourNow \in Nat
    BY <1>0, <1>1 DEF CloudTypes
  <2> QED  BY <1>3, <2>1, FreshHours
<1>4. ASSUME NEW e \in look'.clouds
      PROVE  \E h \in Nat : /\ e.day = WindowDay(h) /\ h <= hourNow
                            /\ hourNow - h <= MAX_AGE
                            /\ part = "after" => hourNow - h < MAX_AGE
  <2> DEFINE current == [day |-> board.value, at |-> board.stamp]
             valued == [x \in Entries |-> x.value]
  <2>1. StampFresh(late) /\ e \in Smoothed(current, valued, late)
    BY <1>4
  <2>4. \/ e = current
        \/ \E i \in DOMAIN board.history :
              /\ EntryFresh(board.history[i], late)
              /\ e = [day |-> valued[board.history[i]], at |-> board.history[i].at]
    <3> HIDE DEF current, valued
    <3> QED  BY <2>1, SmoothedFrom
  <2>2. CASE e = [day |-> board.value, at |-> board.stamp]
    <3>1. PICK h \in board.stamp..hourNow : board.value = WindowDay(h)
      BY <1>0, <2>1 DEF OfItsHour, StampFresh
    <3>2. board.stamp \in 0..hourNow /\ hourNow - board.stamp <= MAX_AGE
          /\ (part = "after" => hourNow - board.stamp < MAX_AGE)
      BY <1>2, <2>1
    <3>3. hourNow \in Nat /\ MAX_AGE \in Nat
      BY <1>0 DEF CloudTypes, MAX_AGE
    <3>4. h \in Nat /\ h <= hourNow /\ hourNow - h <= MAX_AGE
          /\ (part = "after" => hourNow - h < MAX_AGE)
      BY <3>2, <3>3
    <3>5. e.day = WindowDay(h)
      BY <2>2, <3>1
    <3> QED  BY <3>4, <3>5
  <2>3. ASSUME NEW i \in DOMAIN board.history, EntryFresh(board.history[i], late),
               e = [day |-> [x \in Entries |-> x.value][board.history[i]],
                    at |-> board.history[i].at]
        PROVE  \E h \in Nat : /\ e.day = WindowDay(h) /\ h <= hourNow
                              /\ hourNow - h <= MAX_AGE
                              /\ part = "after" => hourNow - h < MAX_AGE
    <3>1. e.day = WindowDay(board.history[i].at)
      BY <1>1, <2>3
    <3>2. board.history[i].at \in Nat /\ board.history[i].at <= hourNow
          /\ hourNow - board.history[i].at <= MAX_AGE
          /\ (part = "after" => hourNow - board.history[i].at < MAX_AGE)
      BY <1>0, <1>3, <2>3 DEF CloudTypes
    <3> QED  BY <3>1, <3>2
  <2> QED  BY <2>2, <2>3, <2>4
<1>5. NightOfOneDay'
  <2> SUFFICES ASSUME NEW e \in look'.clouds
               PROVE  /\ HourOf(hourNow) >= 15 \/ (HourOf(hourNow) = 14 /\ part = "after")
                            => e.day = DayOf(hourNow) + 1
                      /\ HourOf(hourNow) < 12 => e.day = DayOf(hourNow)
    BY <1>0 DEF NightOfOneDay
  <2>1. hourNow \in Nat
    BY <1>0 DEF CloudTypes
  <2> QED  BY <1>4, <2>1, NightsDay
<1>6. YieldAsFreshAsClouds'
  <2> SUFFICES ASSUME script = NoScript, ~spoiled, NEW e \in look'.yields
               PROVE  hourNow - e.at <= MAX_AGE
    BY <1>0 DEF YieldAsFreshAsClouds
  <2> DEFINE valued == [x \in Entries |-> x.yield.day]
  <2>1. StampFresh(late) /\ board.yield # NoYield /\ e \in Smoothed(board.yield, valued, late)
    OBVIOUS
  <2>4. \/ e = board.yield
        \/ \E i \in DOMAIN board.history :
              /\ EntryFresh(board.history[i], late)
              /\ e = [day |-> valued[board.history[i]], at |-> board.history[i].at]
    <3> HIDE DEF valued
    <3> QED  BY <2>1, SmoothedFrom
  <2>2. CASE e = board.yield
    <3>1. e.at = board.stamp
      BY <1>0, <2>1, <2>2 DEF YieldOfTheStamp
    <3> QED  BY <1>2, <2>1, <3>1
  <2>3. ASSUME NEW i \in DOMAIN board.history, EntryFresh(board.history[i], late),
               e = [day |-> [x \in Entries |-> x.yield.day][board.history[i]],
                    at |-> board.history[i].at]
        PROVE  hourNow - e.at <= MAX_AGE
    BY <1>3, <2>3
  <2> QED  BY <2>2, <2>3, <2>4
<1> QED  BY <1>5, <1>6

\* Entries keep their hour and their value when one is added and the oldest goes.
LEMMA RememberedEntries ==
    ASSUME NEW list \in Seq(Entry), NEW entry \in Entry
    PROVE  /\ Remembered(list, entry) \in Seq(Entry)
           /\ \A i \in DOMAIN Remembered(list, entry) :
                 \/ Remembered(list, entry)[i] = entry
                 \/ \E k \in DOMAIN list : Remembered(list, entry)[i] = list[k]
<1> DEFINE all == Append(list, entry)
<1>1. /\ all \in Seq(Entry) /\ Len(all) = Len(list) + 1
      /\ \A i \in 1..Len(all) : all[i] = entry \/ \E k \in DOMAIN list : all[i] = list[k]
  OBVIOUS
<1>2. Len(all) > 0
  BY <1>1
<1> HIDE DEF all
<1>3. /\ Tail(all) \in Seq(Entry) /\ Len(Tail(all)) = Len(all) - 1
      /\ \A i \in 1..Len(Tail(all)) : Tail(all)[i] = all[i + 1] /\ i + 1 \in 1..Len(all)
  BY <1>1, <1>2
<1>4. Remembered(list, entry) = IF Len(all) > HISTORY THEN Tail(all) ELSE all
  BY DEF Remembered, all
<1>5. CASE Len(all) > HISTORY
  <2>1. Remembered(list, entry) = Tail(all)
    BY <1>4, <1>5
  <2>2. DOMAIN Tail(all) = 1..Len(Tail(all))
    BY <1>3
  <2> QED  BY <1>1, <1>3, <2>1, <2>2
<1>6. CASE ~(Len(all) > HISTORY)
  BY <1>1, <1>4, <1>6
<1> QED  BY <1>5, <1>6

\* Outside the cycle and the clock, what was seen stays what it was.
LEMMA LookRests ==
    ASSUME CloudInv, UNCHANGED <<hourNow, part, look>>
    PROVE  NightOfOneDay' /\ YieldAsFreshAsClouds'
BY DEF CloudInv, NightOfOneDay, YieldAsFreshAsClouds, HourOf, DayOf

LEMMA CloudFetch == CloudInv /\ FetchClouds => CloudInv'
<1> SUFFICES ASSUME CloudInv, FetchClouds PROVE CloudInv'
  OBVIOUS
<1>1. /\ CloudTypes /\ OfItsHour /\ YieldOfTheStamp
      /\ UNCHANGED <<hourNow, part, board, spoiled, look>> /\ script = NoScript
  BY DEF CloudInv, FetchClouds
<1>2. PICK yield : /\ yield = NoYield \/ yield = [day |-> NextSunshineWindowDate(hourNow), at |-> hourNow]
                   /\ script' = [next |-> 1, value |-> WindowDay(hourNow), yield |-> yield]
  BY DEF FetchClouds
<1>3. WindowDay(hourNow) \in Int /\ NextSunshineWindowDate(hourNow) \in Int
  BY <1>1 DEF CloudTypes, WindowDay, NextSunshineWindowDate, HourOf, DayOf
<1>4. yield \in Yield /\ (yield = NoYield \/ yield.at = hourNow)
  BY <1>1, <1>2, <1>3 DEF Yield, NoYield, Unknown, CloudTypes
<1>5. script'.next = 1 /\ script'.value = WindowDay(hourNow) /\ script'.yield = yield
  BY <1>2
<1>6. CloudTypes'
  BY <1>1, <1>2, <1>3, <1>4 DEF CloudTypes
<1>7. OfItsHour'
  BY <1>1, <1>5 DEF OfItsHour, WindowDay, HourOf, DayOf
<1>8. YieldOfTheStamp'
  BY <1>1, <1>4, <1>5 DEF YieldOfTheStamp
<1> QED  BY <1>1, <1>6, <1>7, <1>8, LookRests DEF CloudInv

\* The items of the answer, each with the part of the invariant it disturbs.
LEMMA CloudWrite == CloudInv /\ WriteOutlook => CloudInv'
<1> SUFFICES ASSUME CloudInv, WriteOutlook PROVE CloudInv'
  OBVIOUS
<1>1. /\ CloudTypes /\ OfItsHour /\ YieldOfTheStamp
      /\ UNCHANGED <<hourNow, part, look>> /\ script # NoScript
      /\ spoiled' = (spoiled /\ script.next # 5)
      /\ script' = IF script.next = 5 THEN NoScript ELSE [script EXCEPT !.next = @ + 1]
  BY DEF CloudInv, WriteOutlook
<1>2. /\ hourNow \in Nat /\ script \in [next : 1..5, value : Int, yield : Yield]
      /\ board \in [value : Int, stamp : Int, yield : Yield, hours : Int, history : Seq(Entry)]
      /\ spoiled \in BOOLEAN
  BY <1>1 DEF CloudTypes
<1>3. /\ script.value = WindowDay(hourNow)
      /\ script.yield = NoYield \/ script.yield.at = hourNow
      /\ script.next >= 2 => board.value = script.value
      /\ script.next >= 3 => board.stamp = hourNow
  BY <1>1 DEF OfItsHour, YieldOfTheStamp
<1>4. NightOfOneDay' /\ YieldAsFreshAsClouds'
  BY <1>1, LookRests
<1>5. script.next < 5 => /\ script' \in [next : 1..5, value : Int, yield : Yield]
                         /\ script'.next = script.next + 1 /\ script'.value = script.value
                         /\ script'.yield = script.yield /\ script' # NoScript
                         /\ spoiled' = spoiled
  BY <1>1, <1>2 DEF NoScript
<1>6. spoiled' \in BOOLEAN /\ (part' \in {"before", "at", "after"})
  BY <1>1, <1>2 DEF CloudTypes
<1>7. CASE script.next = 1
  <2>1. board' = [board EXCEPT !.value = script.value]
    BY <1>7 DEF WriteOutlook
  <2>2. CloudTypes'
    BY <1>1, <1>2, <1>5, <1>6, <1>7, <2>1 DEF CloudTypes
  <2>3. /\ board'.value = WindowDay(hourNow) /\ board'.stamp = board.stamp
        /\ board'.yield = board.yield /\ board'.history = board.history
        /\ script' # NoScript /\ script'.next = 2 /\ script'.value = script.value
        /\ script'.yield = script.yield /\ spoiled' = spoiled
    BY <1>2, <1>3, <1>5, <1>7, <2>1
  <2>4. OfItsHour'
    <3>1. board.stamp # Unknown => board.stamp \in 0..hourNow /\ hourNow \in board.stamp..hourNow
      BY <1>1, <1>2 DEF OfItsHour
    <3> QED  BY <1>1, <1>3, <2>3, <3>1 DEF OfItsHour, WindowDay, HourOf, DayOf
  <2>5. YieldOfTheStamp'
    BY <1>1, <1>7, <2>3 DEF YieldOfTheStamp
  <2> QED  BY <1>4, <2>2, <2>4, <2>5 DEF CloudInv
<1>8. CASE script.next = 2
  <2>1. board' = [board EXCEPT !.stamp = hourNow]
    BY <1>8 DEF WriteOutlook
  <2>2. CloudTypes'
    BY <1>1, <1>2, <1>5, <1>6, <1>8, <2>1 DEF CloudTypes
  <2>3. /\ board'.value = WindowDay(hourNow) /\ board'.stamp = hourNow
        /\ board'.history = board.history
        /\ script' # NoScript /\ script'.next = 3 /\ script'.value = script.value
        /\ script'.yield = script.yield
    BY <1>2, <1>3, <1>5, <1>8, <2>1
  <2>4. OfItsHour'
    <3>1. hourNow \in 0..hourNow /\ hourNow \in hourNow..hourNow
      BY <1>2
    <3> QED  BY <1>1, <1>3, <2>3, <3>1 DEF OfItsHour, WindowDay, HourOf, DayOf
  <2>5. YieldOfTheStamp'
    BY <1>1, <1>3, <2>3 DEF YieldOfTheStamp
  <2> QED  BY <1>4, <2>2, <2>4, <2>5 DEF CloudInv
<1>9. CASE script.next = 3
  <2>1. board' = [board EXCEPT !.yield = script.yield]
    BY <1>9 DEF WriteOutlook, YieldPosted
  <2>2. CloudTypes'
    BY <1>1, <1>2, <1>5, <1>6, <1>9, <2>1 DEF CloudTypes
  <2>3. /\ board'.value = board.value /\ board'.stamp = board.stamp
        /\ board'.yield = script.yield /\ board'.history = board.history
        /\ script' # NoScript /\ script'.next = 4 /\ script'.value = script.value
        /\ script'.yield = script.yield
    BY <1>2, <1>5, <1>9, <2>1
  <2>4. OfItsHour'
    BY <1>1, <1>3, <1>9, <2>3 DEF OfItsHour, WindowDay, HourOf, DayOf
  <2>5. YieldOfTheStamp'
    BY <1>1, <1>3, <1>9, <2>3 DEF YieldOfTheStamp
  <2> QED  BY <1>4, <2>2, <2>4, <2>5 DEF CloudInv
<1>10. CASE script.next = 4
  <2>1. board' = [board EXCEPT !.hours = hourNow]
    BY <1>10 DEF WriteOutlook
  <2>2. CloudTypes'
    BY <1>1, <1>2, <1>5, <1>6, <1>10, <2>1 DEF CloudTypes
  <2>3. /\ board'.value = board.value /\ board'.stamp = board.stamp
        /\ board'.yield = board.yield /\ board'.history = board.history
        /\ script' # NoScript /\ script'.next = 5 /\ script'.value = script.value
        /\ script'.yield = script.yield
    BY <1>2, <1>5, <1>10, <2>1
  <2>4. OfItsHour'
    BY <1>1, <1>3, <1>10, <2>3 DEF OfItsHour, WindowDay, HourOf, DayOf
  <2>5. YieldOfTheStamp'
    BY <1>1, <1>3, <1>10, <2>3 DEF YieldOfTheStamp
  <2> QED  BY <1>4, <2>2, <2>4, <2>5 DEF CloudInv
<1>11. CASE script.next = 5
  <2> DEFINE entry == [at |-> hourNow, value |-> script.value, yield |-> script.yield]
             list == Remembered(board.history, entry)
  <2>1. board' = [board EXCEPT !.history = list]
    BY <1>11 DEF WriteOutlook
  <2>2. entry \in Entry /\ entry.at = hourNow /\ entry.value = script.value
    BY <1>2 DEF Entry
  <2>3. board.history \in Seq(Entry)
    BY <1>2
  <2> HIDE DEF entry
  <2>4. /\ list \in Seq(Entry)
        /\ \A i \in DOMAIN list : \/ list[i] = entry
                                  \/ \E k \in DOMAIN board.history : list[i] = board.history[k]
    BY <2>2, <2>3, RememberedEntries
  <2> HIDE DEF list
  <2>5. script' = NoScript /\ spoiled' = FALSE
    BY <1>1, <1>11
  <2>6. CloudTypes'
    BY <1>1, <1>2, <1>6, <2>1, <2>4, <2>5 DEF CloudTypes
  <2>7. /\ board'.value = board.value /\ board'.stamp = board.stamp
        /\ board'.yield = board.yield /\ board'.history = list
    BY <1>2, <2>1
  <2>8. OfItsHour'
    <3>1. \A i \in DOMAIN list : list[i].at \in 0..hourNow /\ list[i].value = WindowDay(list[i].at)
      BY <1>1, <1>2, <1>3, <2>2, <2>4 DEF OfItsHour
    <3> QED  BY <1>1, <2>5, <2>7, <3>1 DEF OfItsHour, WindowDay, HourOf, DayOf
  <2>9. YieldOfTheStamp'
    BY <1>1, <1>11, <2>5, <2>7 DEF YieldOfTheStamp
  <2> QED  BY <1>4, <2>6, <2>8, <2>9 DEF CloudInv
<1> QED  BY <1>2, <1>7, <1>8, <1>9, <1>10, <1>11

LEMMA CloudTime == CloudInv /\ PassTime => CloudInv'
<1> SUFFICES ASSUME CloudInv, PassTime PROVE CloudInv'
  OBVIOUS
<1>1. /\ CloudTypes /\ OfItsHour /\ YieldOfTheStamp
      /\ UNCHANGED <<board, script, spoiled>> /\ script = NoScript /\ look' = NoLook
      /\ hourNow' \in {hourNow, hourNow + 1} /\ part' \in {"before", "at", "after"}
  BY DEF CloudInv, PassTime
<1>2. hourNow \in Nat /\ hourNow' \in Nat /\ hourNow <= hourNow'
  BY <1>1 DEF CloudTypes
<1>3. CloudTypes'
  BY <1>1, <1>2 DEF CloudTypes
<1>4. OfItsHour'
  <2>1. \A n : n \in 0..hourNow => n \in 0..hourNow' /\ n..hourNow \subseteq n..hourNow'
    BY <1>2
  <2> QED  BY <1>1, <2>1 DEF OfItsHour, WindowDay, HourOf, DayOf
<1>5. YieldOfTheStamp'
  BY <1>1 DEF YieldOfTheStamp
<1>6. NightOfOneDay' /\ YieldAsFreshAsClouds'
  BY <1>1 DEF NoLook, NightOfOneDay, YieldAsFreshAsClouds
<1> QED  BY <1>3, <1>4, <1>5, <1>6 DEF CloudInv

LEMMA CloudStep == CloudInv /\ [CloudNext]_cloudVars => CloudInv'
<1> SUFFICES ASSUME CloudInv, [CloudNext]_cloudVars PROVE CloudInv'
  OBVIOUS
<1>1. CloudTypes /\ OfItsHour /\ YieldOfTheStamp
  BY DEF CloudInv
<1>2. ASSUME UNCHANGED <<hourNow, part, board, script>>, spoiled' = spoiled
      PROVE  CloudTypes' /\ OfItsHour' /\ YieldOfTheStamp'
  BY <1>1, <1>2 DEF CloudTypes, OfItsHour, YieldOfTheStamp, WindowDay, HourOf, DayOf
<1>3. CASE FetchClouds
  BY <1>3, CloudFetch
<1>4. CASE WriteOutlook
  BY <1>4, CloudWrite
<1>5. CASE CutOff
  <2>1. UNCHANGED <<hourNow, part, board, look>> /\ script' = NoScript /\ spoiled' = TRUE
    BY <1>5 DEF CutOff
  <2>2. CloudTypes' /\ OfItsHour' /\ YieldOfTheStamp'
    BY <1>1, <2>1 DEF CloudTypes, OfItsHour, YieldOfTheStamp, WindowDay, HourOf, DayOf
  <2> QED  BY <2>1, <2>2, LookRests DEF CloudInv
<1>6. CASE Cycle
  <2>1. UNCHANGED <<hourNow, part, board, script>> /\ spoiled' = spoiled
    BY <1>6 DEF Cycle
  <2> QED  BY <1>2, <1>6, <2>1, CloudLook DEF CloudInv
<1>7. CASE PassTime
  BY <1>7, CloudTime
<1>8. CASE CloudsOver \/ UNCHANGED cloudVars
  <2>1. UNCHANGED <<hourNow, part, board, script, look>> /\ spoiled' = spoiled
    BY <1>8 DEF CloudsOver, cloudVars
  <2> QED  BY <1>2, <2>1, LookRests DEF CloudInv
<1> QED  BY <1>3, <1>4, <1>5, <1>6, <1>7, <1>8 DEF CloudNext

\* From a quarter to three until noon every value in the mean is about the day
\* the night is planned for, whatever fetches fail, come late or are cut short:
\* the smoothing over the change at noon ends with the age limit
\* (smoothHistory in core.js).
THEOREM NightsWeather == CloudSpec => []NightOfOneDay
<1>1. CloudInv => NightOfOneDay
  BY DEF CloudInv
<1> QED  BY <1>1, CloudInitially, CloudStep, PTL DEF CloudSpec

\* The yield, which has no stamp of its own, is never older than the age limit
\* of the clouds when a cycle plans outside the script of the fetch: a fetch
\* without a yield takes the old one away (api/cloud_forecast.js).
THEOREM YieldAsFresh == CloudSpec => []YieldAsFreshAsClouds
<1>1. CloudInv => YieldAsFreshAsClouds
  BY DEF CloudInv
<1> QED  BY <1>1, CloudInitially, CloudStep, PTL DEF CloudSpec

-----------------------------------------------------------------------------
(***************************************************************************)
(* The times of the day.                                                   *)
(***************************************************************************)
NAMES == {ORDER[k] : k \in DOMAIN ORDER}
NightTimes == {"dischargeStart", "dischargeEnd"}
Moment == [day : Nat, hour : Nat]

\* The item of a time is one fetch's: at most as old as the clock says, and
\* NoTime, which is before all, as long as nothing was fetched.
WindowTypes ==
    /\ scene = 0 \/ scene \in DOMAIN SCENES
    /\ clock \in [day : 1..2, hour : Nat] /\ cut \in BOOLEAN
    /\ answer = NoAnswer \/ answer \in [next : 1..7, soc : plan.socs]
    /\ answer # NoAnswer => scene # 0 /\ Today # None
    /\ DOMAIN items = NAMES
    /\ \A n \in NAMES : items[n].at \in Moment

ItemsOfThePast ==
    \A n \in NAMES : \/ items[n].at.day < clock.day
                     \/ items[n].at.day = clock.day /\ items[n].at.hour <= clock.hour

\* The date says which day's times the items hold once they are of one fetch.
DateOfItsFetch == items["date"].v \in {None, items["date"].at.day}

\* What is written of the answer, and that all is when no answer is half written.
WrittenSoFar ==
    answer # NoAnswer => \A k \in 1..7 : k < answer.next => items[ORDER[k]].at = clock

OneFetch ==
    ~cut /\ answer.next \in {0, 1} => \A n \in NAMES : items[n].at = items["date"].at

\* The times a cycle has read are still those of the items, if no script has
\* written in between.
READ == {"start", "end", "dischargeStart", "dischargeEnd", "vormittag"}

ReadingHolds ==
    reading.on =>
        /\ "clean" \in DOMAIN reading
        /\ reading.clean => /\ ~cut /\ answer.next \in {0, 1}
                            /\ \A n \in READ : reading[n] \in {items[n], Empty}

WindowBase ==
    /\ WindowTypes /\ ItemsOfThePast /\ DateOfItsFetch /\ WrittenSoFar /\ OneFetch
    /\ ReadingHolds /\ (scene = 0 => used = NotUsed /\ ~reading.on)

LEMMA WindowNames ==
    /\ NAMES = READ \cup {"date", "factors"}
    /\ \A k \in 1..7 : ORDER[k] \in NAMES
    /\ \A n \in NAMES : \E k \in 1..7 : n = ORDER[k]
    /\ \A j, k \in 1..7 : ORDER[j] = ORDER[k] => j = k
    /\ ORDER[3] = "date" /\ \A k \in 1..7 : ORDER[k] = "date" => k = 3
<1>1. DOMAIN ORDER = 1..7
  BY DEF ORDER
<1>2. /\ ORDER[1] = "start" /\ ORDER[2] = "end" /\ ORDER[3] = "date"
      /\ ORDER[4] = "dischargeStart" /\ ORDER[5] = "dischargeEnd"
      /\ ORDER[6] = "vormittag" /\ ORDER[7] = "factors"
  BY DEF ORDER
<1>3. \A k : k \in 1..7 <=> (k = 1 \/ k = 2 \/ k = 3 \/ k = 4 \/ k = 5 \/ k = 6 \/ k = 7)
  OBVIOUS
<1> QED  BY <1>1, <1>2, <1>3 DEF NAMES, READ

LEMMA WindowInitially == WindowInit => WindowBase /\ ~used.on /\ scene = 0
<1> SUFFICES ASSUME WindowInit PROVE WindowBase /\ ~used.on /\ scene = 0
  OBVIOUS
<1>1. /\ scene = 0 /\ clock = [day |-> 1, hour |-> 0] /\ answer = NoAnswer /\ cut = FALSE
      /\ items = [n \in NAMES |-> Empty] /\ reading = NotReading /\ used = NotUsed
  BY DEF WindowInit, NAMES
<1>2. clock \in [day : 1..2, hour : Nat] /\ clock.day = 1
  BY <1>1
<1>3. NoTime \in Moment /\ NoTime.day = 0 /\ Empty.at = NoTime /\ Empty.v = None
  BY DEF NoTime, Moment, Empty
<1>4. DOMAIN items = NAMES /\ \A n \in NAMES : items[n] = Empty
  BY <1>1
<1>5. "date" \in NAMES
  BY WindowNames
<1>6. WindowTypes
  BY <1>1, <1>2, <1>3, <1>4 DEF WindowTypes
<1>7. ItemsOfThePast /\ DateOfItsFetch /\ OneFetch
  BY <1>2, <1>3, <1>4, <1>5 DEF ItemsOfThePast, DateOfItsFetch, OneFetch
<1>8. ReadingHolds /\ WrittenSoFar /\ ~used.on
  BY <1>1 DEF ReadingHolds, WrittenSoFar, NotReading, NotUsed
<1> QED  BY <1>1, <1>6, <1>7, <1>8 DEF WindowBase, NotReading

\* The answer of the day of the clock, field by field.
LEMMA AnswerOfToday ==
    ASSUME scene \in DOMAIN SCENES, clock.day \in 1..2, Today # None,
           NEW soc \in plan.socs
    PROVE  LET a == Answers[scene][clock.day][soc]
               power == FleetPower(plan.fleet)
           IN  /\ a["date"] = clock.day
               /\ a["start"] = WindowStart(Today)
               /\ a["end"] = EndFor(Today, [plan.site EXCEPT !.soc = soc], plan.wish)
               /\ a["dischargeStart"] = DischargeStart(Today, power)
               /\ a["dischargeEnd"] = DischargeEnd(Today, power)
<1> DEFINE Given(k, day, s) ==
        LET d     == SCENES[k].days[day]
            power == FleetPower(SCENES[k].fleet)
        IN  IF d = None THEN << >>
            ELSE [start |-> WindowStart(d),
                  end |-> EndFor(d, [SCENES[k].site EXCEPT !.soc = s], SCENES[k].wish),
                  date |-> day, vormittag |-> Vormittag(d),
                  dischargeStart |-> DischargeStart(d, power),
                  dischargeEnd |-> DischargeEnd(d, power)]
<1>1. Answers = [k \in DOMAIN SCENES |-> [day \in 1..2 |-> [s \in SCENES[k].socs |-> Given(k, day, s)]]]
  BY DEF Answers
<1>2. Given(scene, clock.day, soc) =
        [start |-> WindowStart(Today),
         end |-> EndFor(Today, [plan.site EXCEPT !.soc = soc], plan.wish),
         date |-> clock.day, vormittag |-> Vormittag(Today),
         dischargeStart |-> DischargeStart(Today, FleetPower(plan.fleet)),
         dischargeEnd |-> DischargeEnd(Today, FleetPower(plan.fleet))]
  BY DEF Today, plan
<1> HIDE DEF Given
<1>3. Answers[scene] = [day \in 1..2 |-> [s \in SCENES[scene].socs |-> Given(scene, day, s)]]
  BY <1>1
<1>4. Answers[scene][clock.day] = [s \in SCENES[scene].socs |-> Given(scene, clock.day, s)]
  BY <1>3
<1>5. Answers[scene][clock.day][soc] = Given(scene, clock.day, soc)
  BY <1>4 DEF plan
<1> QED  BY <1>2, <1>5

LEMMA FetchKeepsBase == WindowBase /\ FetchWindow => WindowBase'
<1> SUFFICES ASSUME WindowBase, FetchWindow PROVE WindowBase'
  OBVIOUS
<1>1. /\ WindowTypes /\ ItemsOfThePast /\ DateOfItsFetch /\ WrittenSoFar /\ OneFetch
      /\ ReadingHolds /\ scene # 0 /\ answer = NoAnswer /\ Today # None
      /\ UNCHANGED <<scene, clock, items, cut, reading, used>>
  BY DEF WindowBase, FetchWindow
<1>2. PICK soc \in plan.socs : answer' = [next |-> 1, soc |-> soc]
  BY DEF FetchWindow
<1>3. answer' \in [next : 1..7, soc : plan.socs] /\ answer'.next = 1 /\ answer.next = 0
  BY <1>1, <1>2 DEF NoAnswer
<1>4. WindowTypes'
  BY <1>1, <1>3 DEF WindowTypes, plan, Today
<1>5. ItemsOfThePast' /\ DateOfItsFetch'
  BY <1>1 DEF ItemsOfThePast, DateOfItsFetch
<1>6. WrittenSoFar'
  BY <1>1, <1>3 DEF WrittenSoFar
<1>7. OneFetch'
  BY <1>1, <1>3 DEF OneFetch
<1>8. ReadingHolds'
  BY <1>1, <1>3 DEF ReadingHolds
<1> QED  BY <1>1, <1>4, <1>5, <1>6, <1>7, <1>8 DEF WindowBase

LEMMA WriteKeepsBase == WindowBase /\ WriteItem => WindowBase'
<1> SUFFICES ASSUME WindowBase, WriteItem PROVE WindowBase'
  OBVIOUS
<1>1. /\ WindowTypes /\ ItemsOfThePast /\ DateOfItsFetch /\ WrittenSoFar /\ OneFetch
      /\ ReadingHolds /\ answer # NoAnswer /\ scene # 0
      /\ UNCHANGED <<scene, clock, used>> /\ (scene = 0 => used = NotUsed /\ ~reading.on)
  BY DEF WindowBase, WriteItem, WindowTypes
<1> DEFINE k == answer.next
           name == ORDER[k]
           value == IF name = "factors" THEN Factors(Today, clock.hour)
                    ELSE Answers[scene][clock.day][answer.soc][name]
<1>2. /\ items' = [items EXCEPT ![name] = [v |-> value, at |-> clock]]
      /\ answer' = IF k = 7 THEN NoAnswer ELSE [answer EXCEPT !.next = @ + 1]
      /\ cut' = (cut /\ k # 7) /\ reading' = Disturbed
  BY DEF WriteItem, Posted
<1>3. /\ scene \in DOMAIN SCENES /\ Today # None /\ answer \in [next : 1..7, soc : plan.socs]
      /\ clock \in [day : 1..2, hour : Nat] /\ cut \in BOOLEAN
  BY <1>1 DEF WindowTypes
<1>4. k \in 1..7 /\ answer.soc \in plan.socs /\ clock.day \in 1..2 /\ clock \in Moment
  BY <1>3 DEF Moment
<1>5. name = "date" => value = clock.day
  BY <1>3, <1>4, AnswerOfToday
<1>6. name \in NAMES /\ DOMAIN items = NAMES /\ "date" \in NAMES
  BY <1>1, <1>4, WindowNames DEF WindowTypes
<1> HIDE DEF k, name, value
<1>7. /\ DOMAIN items' = NAMES /\ items'[name].at = clock /\ items'[name].v = value
      /\ \A n \in NAMES : n # name => items'[n] = items[n]
  BY <1>2, <1>6
<1>8. \/ /\ answer' = NoAnswer /\ k = 7
      \/ /\ answer' \in [next : 1..7, soc : plan.socs] /\ answer' # NoAnswer
         /\ answer'.next = k + 1 /\ answer'.next \in 2..7 /\ k # 7
  BY <1>2, <1>3, <1>4 DEF k, NoAnswer
<1>9. WindowTypes'
  <2>1. \A n \in NAMES : items'[n].at \in Moment
    BY <1>1, <1>4, <1>7 DEF WindowTypes
  <2> QED  BY <1>1, <1>2, <1>3, <1>7, <1>8, <2>1 DEF WindowTypes, plan, Today
<1>10. ItemsOfThePast'
  BY <1>1, <1>3, <1>7 DEF ItemsOfThePast
<1>11. DateOfItsFetch'
  BY <1>1, <1>5, <1>6, <1>7 DEF DateOfItsFetch
<1>12. \A j \in 1..7 : j <= k => items'[ORDER[j]].at = clock
  <2> TAKE j \in 1..7
  <2>1. CASE j < k
    BY <1>1, <1>4, <1>7, <2>1, WindowNames DEF WrittenSoFar, k
  <2>2. CASE j = k
    BY <1>7, <2>2 DEF name
  <2> QED  BY <1>4, <2>1, <2>2
<1>13. WrittenSoFar'
  BY <1>1, <1>4, <1>8, <1>12 DEF WrittenSoFar
<1>14. OneFetch'
  <2>1. CASE k = 7
    <3>1. \A n \in NAMES : items'[n].at = clock
      BY <1>12, <2>1, WindowNames
    <3> QED  BY <1>6, <3>1 DEF OneFetch
  <2>2. CASE k # 7
    BY <1>8, <2>2 DEF OneFetch
  <2> QED  BY <2>1, <2>2
<1>15. ReadingHolds'
  <2>1. CASE reading.on
    <3>1. reading' = [reading EXCEPT !.clean = FALSE] /\ "clean" \in DOMAIN reading
      BY <1>1, <1>2, <2>1 DEF Disturbed, ReadingHolds
    <3>2. "clean" \in DOMAIN reading' /\ reading'.clean = FALSE
      BY <3>1
    <3> QED  BY <3>2 DEF ReadingHolds
  <2>2. CASE ~reading.on
    BY <1>2, <2>2 DEF Disturbed, ReadingHolds
  <2> QED  BY <2>1, <2>2
<1> QED  BY <1>1, <1>9, <1>10, <1>11, <1>13, <1>14, <1>15 DEF WindowBase

LEMMA TimeKeepsBase == WindowBase /\ Later => WindowBase'
<1> SUFFICES ASSUME WindowBase, Later PROVE WindowBase'
  OBVIOUS
<1>1. /\ WindowTypes /\ ItemsOfThePast /\ DateOfItsFetch /\ OneFetch
      /\ scene # 0 /\ answer = NoAnswer /\ ~reading.on
      /\ UNCHANGED <<scene, items, answer, cut, reading>>
  BY DEF WindowBase, Later
<1>2. clock.day \in 1..2 /\ clock.hour \in Nat /\ clock \in [day : 1..2, hour : Nat]
      /\ \A n \in NAMES : items[n].at.day \in Nat /\ items[n].at.hour \in Nat
  BY <1>1 DEF WindowTypes, Moment
<1>3. HOURS \subseteq 0..23 /\ HOURS # {}
  BY ChargeWindowAssumption
<1>4. Min(HOURS) \in Nat
  <2>1. HOURS \in SUBSET Int /\ 0 \in Int /\ \A h \in HOURS : 0 <= h
    BY <1>3
  <2>2. Min(HOURS) \in HOURS
    BY <1>3, <2>1, MinFact
  <2>3. \A h \in HOURS : h \in Nat
    BY <1>3
  <2> QED  BY <2>2, <2>3
<1>5. /\ clock' \in [day : 1..2, hour : Nat]
      /\ clock.day < clock'.day \/ (clock.day = clock'.day /\ clock.hour <= clock'.hour)
  <2>1. CASE \E h \in HOURS : h > clock.hour /\ clock' = [clock EXCEPT !.hour = h]
    BY <1>2, <1>3, <2>1
  <2>2. CASE clock.day = 1 /\ clock' = [day |-> 2, hour |-> Min(HOURS)]
    BY <1>2, <1>4, <2>2
  <2> QED  BY <2>1, <2>2 DEF Later
<1>6. WindowTypes'
  BY <1>1, <1>5 DEF WindowTypes, plan
<1>7. ItemsOfThePast'
  <2>1. clock'.day \in Nat /\ clock'.hour \in Nat
    BY <1>5
  <2> QED  BY <1>1, <1>2, <1>5, <2>1 DEF ItemsOfThePast
<1>8. DateOfItsFetch' /\ WrittenSoFar' /\ OneFetch' /\ ReadingHolds'
  BY <1>1 DEF DateOfItsFetch, WrittenSoFar, OneFetch, ReadingHolds
<1> QED  BY <1>1, <1>6, <1>7, <1>8 DEF WindowBase

LEMMA WindowBaseStep == WindowBase /\ [WindowNext]_windowVars => WindowBase'
<1> SUFFICES ASSUME WindowBase, [WindowNext]_windowVars PROVE WindowBase'
  OBVIOUS
<1>1. /\ WindowTypes /\ ItemsOfThePast /\ DateOfItsFetch /\ WrittenSoFar /\ OneFetch
      /\ ReadingHolds /\ (scene = 0 => used = NotUsed /\ ~reading.on)
  BY DEF WindowBase
<1>2. ASSUME UNCHANGED <<scene, clock, items, answer, cut>>
      PROVE  WindowTypes' /\ ItemsOfThePast' /\ DateOfItsFetch' /\ WrittenSoFar' /\ OneFetch'
  BY <1>1, <1>2 DEF WindowTypes, ItemsOfThePast, DateOfItsFetch, WrittenSoFar, OneFetch, plan, Today
<1>3. CASE Begin
  <2>1. /\ scene = 0 /\ scene' \in DOMAIN SCENES /\ answer = NoAnswer
        /\ UNCHANGED <<clock, items, answer, cut, reading, used>>
    BY <1>1, <1>3 DEF Begin, WindowTypes
  <2>2. WindowTypes'
    BY <1>1, <2>1 DEF WindowTypes
  <2>3. ItemsOfThePast' /\ DateOfItsFetch' /\ WrittenSoFar' /\ OneFetch' /\ ReadingHolds'
    BY <1>1, <2>1 DEF ItemsOfThePast, DateOfItsFetch, WrittenSoFar, OneFetch, ReadingHolds
  <2>4. used' = NotUsed /\ ~reading'.on
    BY <1>1, <2>1
  <2> QED  BY <2>2, <2>3, <2>4 DEF WindowBase
<1>4. CASE FetchWindow
  BY <1>4, FetchKeepsBase
<1>5. CASE WriteItem
  BY <1>5, WriteKeepsBase
<1>6. CASE Restart
  <2>1. /\ UNCHANGED <<scene, clock, items>> /\ answer' = NoAnswer /\ cut' = TRUE
        /\ reading' = NotReading /\ used' = NotUsed
    BY <1>6 DEF Restart
  <2>2. WindowTypes'
    BY <1>1, <2>1 DEF WindowTypes, plan
  <2>3. ItemsOfThePast' /\ DateOfItsFetch' /\ WrittenSoFar' /\ OneFetch' /\ ReadingHolds'
    BY <1>1, <2>1 DEF ItemsOfThePast, DateOfItsFetch, WrittenSoFar, OneFetch, ReadingHolds, NotReading
  <2> QED  BY <2>1, <2>2, <2>3 DEF WindowBase, NotReading
<1>7. CASE ReadTimes
  <2>1. /\ UNCHANGED <<scene, clock, items, answer, cut>> /\ used' = NotUsed /\ scene # 0
        /\ reading' = [on |-> TRUE, clean |-> answer = NoAnswer /\ ~cut,
                       start |-> TimeIn("start", 4, 12), end |-> TimeIn("end", 5, 15),
                       dischargeStart |-> TimeIn("dischargeStart", 12, 24),
                       dischargeEnd |-> TimeIn("dischargeEnd", 3, 12),
                       vormittag |-> TimeIn("vormittag", 5, 15)]
    BY <1>7 DEF ReadTimes
  <2>2. "clean" \in DOMAIN reading' /\ reading'.clean = (answer = NoAnswer /\ ~cut)
        /\ \A n \in READ : reading'[n] \in {items[n], Empty}
    <3>1. ASSUME NEW name, NEW from, NEW to
          PROVE  TimeIn(name, from, to) \in {items[name], Empty}
      BY DEF TimeIn
    <3>2. /\ reading'.start \in {items.start, Empty} /\ reading'.end \in {items.end, Empty}
          /\ reading'.dischargeStart \in {items.dischargeStart, Empty}
          /\ reading'.dischargeEnd \in {items.dischargeEnd, Empty}
          /\ reading'.vormittag \in {items.vormittag, Empty}
      BY <2>1, <3>1
    <3>3. "clean" \in DOMAIN reading' /\ reading'.clean = (answer = NoAnswer /\ ~cut)
      BY <2>1
    <3> QED  BY <3>2, <3>3 DEF READ
  <2>3. answer = NoAnswer => answer.next = 0
    BY DEF NoAnswer
  <2>4. ReadingHolds'
    BY <2>1, <2>2, <2>3 DEF ReadingHolds
  <2> QED  BY <1>2, <2>1, <2>4 DEF WindowBase
<1>8. CASE Decide
  <2>1. UNCHANGED <<scene, clock, items, answer, cut>> /\ reading' = NotReading
    BY <1>8 DEF Decide
  <2>2. scene # 0
    BY <1>1, <1>8 DEF Decide
  <2> QED  BY <1>2, <2>1, <2>2 DEF WindowBase, ReadingHolds, NotReading
<1>9. CASE Later
  BY <1>9, TimeKeepsBase
<1>10. CASE LastHour \/ UNCHANGED windowVars
  <2>1. UNCHANGED windowVars
    BY <1>10 DEF LastHour
  <2> QED  BY <1>1, <1>2, <2>1 DEF WindowBase, ReadingHolds, windowVars
<1> QED  BY <1>3, <1>4, <1>5, <1>6, <1>7, <1>8, <1>9, <1>10 DEF WindowNext

(***************************************************************************)
(* What the times say, from the platform's answer to the plan of a cycle.  *)
(***************************************************************************)
TOLD == {"start", "end", "dischargeStart", "dischargeEnd"}

\* v is what an answer about the forecast d gives for the time n.
AsTold(n, v, d) ==
    /\ n = "start" => v = WindowStart(d)
    /\ n = "end" => \E soc \in plan.socs : v = EndFor(d, [plan.site EXCEPT !.soc = soc], plan.wish)
    /\ n = "dischargeStart" => v = DischargeStart(d, FleetPower(plan.fleet))
    /\ n = "dischargeEnd" => v = DischargeEnd(d, FleetPower(plan.fleet))

ItemsAsTold ==
    \A n \in TOLD : items[n].v # None =>
        /\ scene # 0 /\ plan.days[items[n].at.day] # None
        /\ AsTold(n, items[n].v, plan.days[items[n].at.day])

UsedAsTold ==
    used.on /\ used.clean =>
        /\ scene # 0 /\ TimesOfOneAnswer
        /\ \A n \in TOLD : used[n].v # None => Today # None /\ AsTold(n, used[n].v, Today)

WindowInv == WindowBase /\ ItemsAsTold /\ UsedAsTold

\* One scene is one site and two days, as long as it lasts.
LEMMA SceneRests ==
    ASSUME UNCHANGED scene
    PROVE  plan' = plan /\ \A n, v, d : AsTold(n, v, d)' <=> AsTold(n, v, d)
BY DEF plan, AsTold

LEMMA ItemsStayTrue ==
    ASSUME WindowBase, ItemsAsTold, [WindowNext]_windowVars
    PROVE  ItemsAsTold'
<1>1. WindowTypes /\ TOLD \subseteq NAMES
  BY WindowNames DEF WindowBase, TOLD, READ
<1>2. CASE UNCHANGED <<scene, items>>
  BY <1>2, SceneRests DEF ItemsAsTold
<1>3. CASE Begin
  <2>1. scene = 0 /\ UNCHANGED items
    BY <1>3 DEF Begin
  <2> QED  BY <2>1 DEF ItemsAsTold
<1>4. CASE WriteItem
  <2> DEFINE name == ORDER[answer.next]
             value == IF name = "factors" THEN Factors(Today, clock.hour)
                      ELSE Answers[scene][clock.day][answer.soc][name]
  <2>1. /\ items' = [items EXCEPT ![name] = [v |-> value, at |-> clock]]
        /\ UNCHANGED scene /\ answer # NoAnswer
    BY <1>4 DEF WriteItem, Posted
  <2>2. /\ scene \in DOMAIN SCENES /\ scene # 0 /\ Today # None
        /\ answer \in [next : 1..7, soc : plan.socs]
        /\ clock \in [day : 1..2, hour : Nat] /\ DOMAIN items = NAMES
    BY <1>1, <2>1 DEF WindowTypes
  <2>3. name \in TOLD => AsTold(name, value, Today)
    <3>1. answer.soc \in plan.socs /\ clock.day \in 1..2
      BY <2>2
    <3> QED  BY <2>2, <3>1, AnswerOfToday DEF AsTold, TOLD
  <2>4. name \in NAMES
    BY <2>2, WindowNames
  <2> HIDE DEF name, value
  <2>5. /\ items'[name].at = clock /\ items'[name].v = value
        /\ \A n \in NAMES : n # name => items'[n] = items[n]
    BY <2>1, <2>2, <2>4
  <2>6. ASSUME NEW n \in TOLD, items'[n].v # None
        PROVE  /\ scene # 0 /\ plan.days[items'[n].at.day] # None
               /\ AsTold(n, items'[n].v, plan.days[items'[n].at.day])
    <3>1. CASE n = name
      BY <2>2, <2>3, <2>5, <3>1 DEF Today
    <3>2. CASE n # name
      BY <1>1, <2>5, <2>6, <3>2 DEF ItemsAsTold
    <3> QED  BY <3>1, <3>2
  <2> QED  BY <2>1, <2>6, SceneRests DEF ItemsAsTold
<1> QED
  BY <1>2, <1>3, <1>4
     DEF WindowNext, FetchWindow, Restart, ReadTimes, Decide, Later, LastHour, windowVars

LEMMA PlansAsTold ==
    ASSUME WindowBase, ItemsAsTold, Decide
    PROVE  UsedAsTold'
<1>1. /\ WindowTypes /\ ItemsOfThePast /\ DateOfItsFetch /\ OneFetch /\ ReadingHolds
      /\ reading.on /\ UNCHANGED <<scene, clock, items>> /\ scene # 0
  BY DEF WindowBase, Decide
<1>2. CASE items["date"].v # clock.day
  BY <1>2 DEF Decide, NotUsed, UsedAsTold
<1>3. CASE items["date"].v = clock.day /\ ~reading.clean
  BY <1>3 DEF Decide, UsedAsTold
<1>4. CASE items["date"].v = clock.day /\ reading.clean
  <2>1. /\ clock \in [day : 1..2, hour : Nat] /\ "date" \in NAMES /\ "factors" \in NAMES
        /\ \A n \in NAMES : items[n].at \in Moment
        /\ READ \subseteq NAMES /\ TOLD \subseteq READ
    BY <1>1, WindowNames DEF WindowTypes, TOLD, READ
  <2> DEFINE a == items["date"].at
  <2>2. a.day = clock.day /\ a \in Moment
    BY <1>1, <1>4, <2>1 DEF DateOfItsFetch, None
  <2>3. a.hour \in 0..clock.hour
    BY <1>1, <2>1, <2>2 DEF ItemsOfThePast, Moment
  <2>4. \A n \in NAMES : items[n].at = a
    BY <1>1, <1>4 DEF ReadingHolds, OneFetch
  <2>5. \A n \in READ : reading[n] \in {items[n], Empty}
    BY <1>1, <1>4 DEF ReadingHolds
  <2>6. FactorsNow \in {items["factors"], Empty}
    BY DEF FactorsNow
  <2>7. a = [clock EXCEPT !.hour = a.hour]
    BY <2>1, <2>2 DEF Moment
  <2> HIDE DEF a
  <2>8. used' = [on |-> TRUE, clean |-> reading.clean, at |-> clock, start |-> reading.start,
                 end |-> reading.end, dischargeStart |-> reading.dischargeStart,
                 dischargeEnd |-> reading.dischargeEnd, vormittag |-> reading.vormittag,
                 factors |-> FactorsNow]
    BY <1>4 DEF Decide
  <2>9. /\ \A n \in READ : used'[n] = reading[n]
        /\ used'.at = clock /\ used'.factors = FactorsNow
    BY <2>8 DEF READ
  <2>10. TimesOfOneAnswer'
    <3>1. \A n \in READ : reading[n].v # None => reading[n].at = a
      BY <2>1, <2>4, <2>5 DEF Empty
    <3>2. FactorsNow.v # None => FactorsNow.at = a
      BY <2>1, <2>4, <2>6 DEF Empty
    <3>3. \A t \in UsedTimes' \cup {used'.factors} : t.v # None => t.at = a
      BY <2>9, <3>1, <3>2 DEF UsedTimes, READ
    <3>4. a \in {[used'.at EXCEPT !.hour = h] : h \in 0..used'.at.hour}
      BY <2>3, <2>7, <2>9
    <3> QED  BY <3>3, <3>4 DEF TimesOfOneAnswer
  <2>11. ASSUME NEW n \in TOLD, used'[n].v # None
         PROVE  Today # None /\ AsTold(n, used'[n].v, Today)
    <3>1. used'[n] = items[n]
      BY <2>1, <2>5, <2>9, <2>11 DEF Empty
    <3>2. items[n].at.day = clock.day
      BY <2>1, <2>2, <2>4
    <3> QED  BY <2>11, <3>1, <3>2 DEF ItemsAsTold, Today
  <2> QED  BY <1>1, <2>10, <2>11, SceneRests DEF UsedAsTold, Today
<1> QED  BY <1>2, <1>3, <1>4

LEMMA WindowStep == WindowInv /\ [WindowNext]_windowVars => WindowInv'
<1> SUFFICES ASSUME WindowInv, [WindowNext]_windowVars PROVE WindowInv'
  OBVIOUS
<1>1. WindowBase' /\ ItemsAsTold'
  BY WindowBaseStep, ItemsStayTrue DEF WindowInv
<1>2. UsedAsTold'
  <2>1. CASE UNCHANGED <<scene, clock, used>>
    BY <2>1, SceneRests DEF WindowInv, UsedAsTold, TimesOfOneAnswer, UsedTimes, Today
  <2>2. CASE used' = NotUsed
    BY <2>2 DEF UsedAsTold, NotUsed
  <2>3. CASE Decide
    BY <2>3, PlansAsTold DEF WindowInv
  <2>4. Begin => used' = NotUsed
    BY DEF Begin, WindowInv, WindowBase
  <2> QED
    BY <2>1, <2>2, <2>3, <2>4
       DEF WindowNext, FetchWindow, WriteItem, Restart, ReadTimes, Later, LastHour, windowVars
<1> QED  BY <1>1, <1>2 DEF WindowInv

LEMMA WindowInvariant == WindowSpec => []WindowInv
<1>1. WindowInit => WindowInv
  <2> SUFFICES ASSUME WindowInit PROVE WindowInv
    OBVIOUS
  <2>1. \A n \in TOLD : items[n].v = None
    BY WindowNames DEF WindowInit, NAMES, TOLD, READ, Empty
  <2> QED  BY <2>1, WindowInitially DEF WindowInv, ItemsAsTold, UsedAsTold
<1> QED  BY <1>1, WindowStep, PTL DEF WindowSpec

\* A cycle that no writing script crosses plans with the times of one answer,
\* and it is one of today, whatever scripts were cut short and whatever answers
\* lacked a time: the date, the third of seven items, stands for all of them
\* (api/ladefenster.js, chargeLockDateValid in core.js).
THEOREM OneAnswerPlans == WindowSpec => []TimesOfOneAnswer
<1>1. WindowInv => TimesOfOneAnswer
  BY DEF WindowInv, UsedAsTold, TimesOfOneAnswer
<1> QED  BY <1>1, WindowInvariant, PTL

\* From the start of the discharge to midnight the community does not cover
\* itself, and it takes the feed-in of the fleet at the start.
LEMMA StartTakes ==
    ASSUME NEW d, NEW power, DischargeStart(d, power) # None
    PROVE  /\ \A i \in (DischargeStart(d, power) \div 15)..95 : ~Covered(d, i)
           /\ DischargeStart(d, power) \div 15 \in Slot
           /\ Absorbs(d, DischargeStart(d, power) \div 15, power)
<1> DEFINE noon == {j \in Slot : j >= 48 /\ Covered(d, j)}
           fit == {i \in Evening(d) : Absorbs(d, i, power)}
<1>1. noon # {} /\ DischargeStart(d, power) = First(fit)
  BY DEF DischargeStart
<1>2. DischargeStart(d, power) = 15 * Min(fit) /\ fit # {}
  BY <1>1 DEF First
<1>3. Max(noon) \in noon /\ \A j \in noon : j <= Max(noon)
  <2>1. noon \in SUBSET Int /\ 95 \in Int /\ \A j \in noon : j <= 95
    BY DEF Slot
  <2> HIDE DEF noon
  <2> QED  BY <1>1, <2>1, MaxFact
<1>4. \A i \in Evening(d) : i \in Slot /\ i > Max(noon)
  BY DEF Evening
<1>5. Min(fit) \in fit
  <2>2. \A i \in fit : i \in 0..95
    BY <1>4 DEF Slot
  <2>1. fit \in SUBSET Int /\ 0 \in Int /\ \A i \in fit : 0 <= i
    <3> HIDE DEF fit
    <3> QED  BY <2>2
  <2> HIDE DEF fit
  <2> QED  BY <1>2, <2>1, MinFact
<1> DEFINE m == Min(fit)
<1>6. m \in Slot /\ m > Max(noon) /\ Absorbs(d, m, power) /\ Max(noon) \in 48..95
  BY <1>3, <1>4, <1>5 DEF Slot
<1> HIDE DEF m
<1>7. DischargeStart(d, power) \div 15 = m
  <2>1. m \in 0..95
    BY <1>6 DEF Slot
  <2>2. (15 * m) \div 15 = m
    BY <2>1
  <2> QED  BY <1>2, <2>2 DEF m
<1>8. ASSUME NEW i \in m..95 PROVE ~Covered(d, i)
  <2>1. i \in Slot /\ i > Max(noon) /\ i >= 48
    BY <1>6 DEF Slot
  <2> QED  BY <1>3, <1>6, <2>1
<1> QED  BY <1>6, <1>7, <1>8

\* Up to the end of the discharge every slot takes it, since the first that does.
LEMMA EndTakes ==
    ASSUME NEW d, NEW power, NEW taking,
           taking = {i \in Slot : Absorbs(d, i, power)},
           DischargeEnd(d, power) # None
    PROVE  LET first == Min(taking \cap 20..47)
           IN  /\ 15 * first < DischargeEnd(d, power)
               /\ first..(DischargeEnd(d, power) \div 15) - 1 \subseteq taking
<1> DEFINE morning == {i \in 20..47 : Absorbs(d, i, power)}
           first == Min(morning)
           over == {i \in 20..47 \ morning : morning # {} /\ i > first}
           last == Min(over)
<1>1. taking \cap 20..47 = morning
  BY DEF Slot
<1>2. DischargeEnd(d, power) = First(over)
  BY DEF DischargeEnd
<1>3. DischargeEnd(d, power) = 15 * last /\ over # {}
  BY <1>2 DEF First
<1>4. morning # {} /\ \A i \in over : i \in 20..47 /\ i \notin morning /\ i > first
  BY <1>3
<1>5. first \in morning
  <2>1. morning \in SUBSET Int /\ 20 \in Int /\ \A i \in morning : 20 <= i
    OBVIOUS
  <2> HIDE DEF morning
  <2> QED  BY <1>4, <2>1, MinFact
<1>6. last \in over /\ \A i \in over : last <= i
  <2>1. over \in SUBSET Int /\ 20 \in Int /\ \A i \in over : 20 <= i
    BY <1>4
  <2> HIDE DEF over
  <2> QED  BY <1>3, <2>1, MinFact
<1>7. first \in 20..47 /\ last \in 20..47 /\ first < last
  BY <1>4, <1>5, <1>6
<1>8. \A i \in 20..47 : i > first /\ i < last => i \in morning
  <2> SUFFICES ASSUME NEW i \in 20..47, i > first, i < last, i \notin morning PROVE FALSE
    OBVIOUS
  <2>1. i \in over
    BY <1>4
  <2>2. last <= i
    BY <1>6, <2>1
  <2> HIDE DEF last, over
  <2> QED  BY <1>7, <2>2
<1> HIDE DEF last, over, first
<1>9. \A i \in first..last - 1 : i \in morning
  BY <1>5, <1>7, <1>8
<1>10. (15 * last) \div 15 = last /\ 15 * first < 15 * last
  BY <1>7
<1>11. morning \subseteq taking
  BY <1>1
<1> QED  BY <1>1, <1>3, <1>9, <1>10, <1>11 DEF first

\* The night times a cycle plans with keep the feed-in within the community, on
\* every day and for every forecast and fleet (todayDischargeStart and
\* todayDischargeEnd of the platform, through endpoint, script and items).
THEOREM NightStaysHome == WindowSpec => []NightFeedsTheCommunity
<1>1. WindowInv => NightFeedsTheCommunity
  <2> SUFFICES ASSUME WindowInv, used.on, used.clean PROVE NightFeedsTheCommunity
    BY DEF NightFeedsTheCommunity
  <2> DEFINE power == FleetPower(plan.fleet)
             taking == Taking[scene][Today]
  <2>1. /\ scene # 0 /\ scene \in DOMAIN SCENES /\ clock.day \in 1..2
        /\ \A n \in TOLD : used[n].v # None => Today # None /\ AsTold(n, used[n].v, Today)
    BY DEF WindowInv, UsedAsTold, WindowBase, WindowTypes
  <2>2. Today # None => taking = {i \in Slot : Absorbs(Today, i, power)}
    <3>1. Today # None => Today \in DOMAIN DAYS
      BY <2>1, ChargeWindowAssumption DEF Today, plan, None
    <3>2. Taking[scene] = [d \in DOMAIN DAYS |-> {i \in Slot : Absorbs(d, i, power)}]
      BY <2>1 DEF Taking, plan
    <3> QED  BY <3>1, <3>2
  <2>3. used.dischargeStart.v # None =>
            Today # None /\ used.dischargeStart.v = DischargeStart(Today, power)
    BY <2>1 DEF AsTold, TOLD
  <2>4. used.dischargeEnd.v # None =>
            Today # None /\ used.dischargeEnd.v = DischargeEnd(Today, power)
    BY <2>1 DEF AsTold, TOLD
  <2> HIDE DEF power, taking
  <2>5. used.dischargeStart.v # None =>
            /\ \A i \in used.dischargeStart.v \div 15..95 : ~Covered(Today, i)
            /\ used.dischargeStart.v \div 15 \in taking
    BY <2>2, <2>3, StartTakes
  <2>6. used.dischargeEnd.v # None =>
            LET first == Min(taking \cap 20..47)
            IN  /\ 15 * first < used.dischargeEnd.v
                /\ first..(used.dischargeEnd.v \div 15) - 1 \subseteq taking
    <3> SUFFICES ASSUME used.dischargeEnd.v # None
                 PROVE  LET first == Min(taking \cap 20..47)
                        IN  /\ 15 * first < used.dischargeEnd.v
                            /\ first..(used.dischargeEnd.v \div 15) - 1 \subseteq taking
      OBVIOUS
    <3>1. /\ taking = {i \in Slot : Absorbs(Today, i, power)}
          /\ used.dischargeEnd.v = DischargeEnd(Today, power)
          /\ DischargeEnd(Today, power) # None
      BY <2>2, <2>4
    <3>2. LET first == Min(taking \cap 20..47)
          IN  /\ 15 * first < DischargeEnd(Today, power)
              /\ first..(DischargeEnd(Today, power) \div 15) - 1 \subseteq taking
      BY <3>1, EndTakes
    <3> QED  BY <3>1, <3>2
  <2> QED  BY <2>5, <2>6 DEF NightFeedsTheCommunity, taking
<1> QED  BY <1>1, WindowInvariant, PTL

(***************************************************************************)
(* The sun that is left until the evening.                                 *)
(***************************************************************************)
LEMMA DayTypes ==
    ASSUME NEW d \in DOMAIN DAYS
    PROVE  /\ \A h \in 0..23 : DAYS[d].gen[h] \in Nat
           /\ \A i \in Slot : Gen(d, i) \in Nat
<1>1. DAYS[d] \in [gen : [0..23 -> Nat], cons : [0..23 -> Nat]]
  <2> DEFINE Day == [gen : [0..23 -> Nat], cons : [0..23 -> Nat]]
  <2>1. DAYS \in Seq(Day)
    BY ChargeWindowAssumption
  <2> HIDE DEF Day
  <2>2. DAYS[d] \in Day
    BY <2>1
  <2> QED  BY <2>2 DEF Day
<1>2. \A i \in Slot : i \div 4 \in 0..23
  BY DEF Slot
<1> QED  BY <1>1, <1>2 DEF Gen

\* The generation from an hour to midnight, as SunTable adds it up.
SunHours(d, f) ==
    [h \in 0..24 |-> IF h = 24 THEN 0 ELSE 4 * DAYS[d].gen[h] + f[h + 1]]

\* There is one such sum, and it is a natural number.
LEMMA SunOfTheHours ==
    ASSUME NEW d \in DOMAIN DAYS
    PROVE  \E f \in [0..24 -> Nat] : f = SunHours(d, f)
<1> DEFINE Upward(n, f) == /\ f \in [0..24 -> Nat] /\ f[24] = 0
                           /\ \A h \in 0..23 : h >= 24 - n => f[h] = 4 * DAYS[d].gen[h] + f[h + 1]
           Bad == {n \in 0..24 : ~\E f : Upward(n, f)}
<1>1. Bad = {}
  <2> SUFFICES ASSUME Bad # {} PROVE FALSE
    OBVIOUS
  <2>1. PICK n \in Bad : \A m \in Bad : n <= m
    <3>1. Bad \in SUBSET Nat
      OBVIOUS
    <3> HIDE DEF Bad
    <3> QED  BY <3>1, LeastNatural
  <2>2. n \in 0..24 /\ ~\E f : Upward(n, f)
    OBVIOUS
  <2>3. Upward(0, [h \in 0..24 |-> 0])
    OBVIOUS
  <2>4. n - 1 \in 0..24 /\ n - 1 \notin Bad
    <3>1. n # 0
      BY <2>2, <2>3
    <3> HIDE DEF Bad
    <3> QED  BY <2>1, <2>2, <3>1
  <2>5. PICK f : Upward(n - 1, f)
    BY <2>4
  <2> DEFINE k == 24 - n
             s == 4 * DAYS[d].gen[k] + f[k + 1]
             g == [f EXCEPT ![k] = s]
  <2>6. k \in 0..23 /\ k + 1 \in 0..24 /\ n = 24 - k
    <3>1. n \in 0..24
      BY <2>2
    <3>2. n - 1 \in 0..24
      BY <2>4
    <3> HIDE DEF Bad, Upward
    <3> QED  BY <3>1, <3>2
  <2>7. s \in Nat
    BY <2>5, <2>6, DayTypes
  <2>8. /\ f \in [0..24 -> Nat] /\ f[24] = 0
        /\ \A h \in 0..23 : h > k => f[h] = 4 * DAYS[d].gen[h] + f[h + 1]
    BY <2>5, <2>6
  <2> HIDE DEF k, Upward
  <2>9. /\ g \in [0..24 -> Nat] /\ g[k] = s
        /\ \A h \in 0..24 : h # k => g[h] = f[h]
    <3> HIDE DEF s
    <3> QED  BY <2>6, <2>7, <2>8
  <2> HIDE DEF g
  <2>10. Upward(n, g)
    <3>1. g[24] = 0
      BY <2>6, <2>8, <2>9
    <3>2. g[k] = 4 * DAYS[d].gen[k] + g[k + 1]
      <4>1. g[k + 1] = f[k + 1]
        BY <2>6, <2>9
      <4> QED  BY <2>9, <4>1
    <3>3. ASSUME NEW h \in 0..23, h > k PROVE g[h] = 4 * DAYS[d].gen[h] + g[h + 1]
      <4>1. g[h] = f[h] /\ g[h + 1] = f[h + 1]
        BY <2>6, <2>9, <3>3
      <4> QED  BY <2>8, <3>3, <4>1
    <3>4. \A h \in 0..23 : h >= 24 - n => h = k \/ h > k
      BY <2>6
    <3> QED  BY <2>9, <3>1, <3>2, <3>3, <3>4 DEF Upward
  <2> QED  BY <2>2, <2>10
<1>2. PICK f : Upward(24, f)
  BY <1>1
<1>3. f \in [0..24 -> Nat] /\ f = SunHours(d, f)
  BY <1>2 DEF SunHours
<1> QED  BY <1>3

\* The sum is the only one there is.
LEMMA SunIsNatural ==
    ASSUME NEW d \in DOMAIN DAYS, NEW f, f = SunHours(d, f)
    PROVE  /\ f \in [0..24 -> Nat] /\ f[24] = 0
           /\ \A h \in 0..23 : f[h] = 4 * DAYS[d].gen[h] + f[h + 1]
<1>1. /\ f = [h \in 0..24 |-> f[h]] /\ f[24] = 0
      /\ \A h \in 0..23 : f[h] = 4 * DAYS[d].gen[h] + f[h + 1]
  BY DEF SunHours
<1> DEFINE Bad == {n \in 0..24 : f[24 - n] \notin Nat}
<1>2. Bad = {}
  <2> SUFFICES ASSUME Bad # {} PROVE FALSE
    OBVIOUS
  <2>1. PICK n \in Bad : \A m \in Bad : n <= m
    <3>1. Bad \in SUBSET Nat
      OBVIOUS
    <3> HIDE DEF Bad
    <3> QED  BY <3>1, LeastNatural
  <2>2. n \in 0..24 /\ f[24 - n] \notin Nat
    OBVIOUS
  <2>3. n # 0
    BY <1>1, <2>2
  <2>4. f[24 - (n - 1)] \in Nat
    <3>1. n - 1 \notin Bad
      <4> HIDE DEF Bad
      <4> QED  BY <2>1, <2>2, <2>3
    <3> QED  BY <2>2, <2>3, <3>1
  <2> DEFINE k == 24 - n
  <2>5. k \in 0..23 /\ 24 - (n - 1) = k + 1
    BY <2>2, <2>3
  <2>6. f[k] = 4 * DAYS[d].gen[k] + f[k + 1] /\ DAYS[d].gen[k] \in Nat /\ f[k + 1] \in Nat
    BY <1>1, <2>4, <2>5, DayTypes
  <2>7. f[k] \in Nat
    <3> HIDE DEF k
    <3> QED  BY <2>6
  <2> QED  BY <2>2, <2>7
<1>3. \A h \in 0..24 : f[h] \in Nat
  <2> TAKE h \in 0..24
  <2>1. 24 - h \in 0..24 /\ 24 - (24 - h) = h
    OBVIOUS
  <2> QED  BY <1>2, <2>1
<1> QED  BY <1>1, <1>3

\* From slot to slot the sum loses what the slot generates.
LEMMA SunSlope ==
    ASSUME NEW d \in DOMAIN DAYS
    PROVE  /\ \A i \in 0..96 : SunTable[d][i] \in Int
           /\ \A i \in Slot : SunTable[d][i] = SunTable[d][i + 1] + Gen(d, i)
<1> DEFINE hours == CHOOSE f : f = SunHours(d, f)
<1>1. hours = SunHours(d, hours)
  BY SunOfTheHours
<1>2. SunTable[d] = [i \in 0..96 |-> IF i = 96 THEN 0 ELSE hours[i \div 4] - (i % 4) * Gen(d, i)]
  BY DEF SunTable, SunHours
<1> HIDE DEF hours
<1>3. /\ hours \in [0..24 -> Nat] /\ hours[24] = 0
      /\ \A h \in 0..23 : hours[h] = 4 * DAYS[d].gen[h] + hours[h + 1]
  BY <1>1, SunIsNatural
<1>4. ASSUME NEW i \in Slot
      PROVE  /\ SunTable[d][i] \in Int /\ SunTable[d][i + 1] \in Int
             /\ SunTable[d][i] = SunTable[d][i + 1] + Gen(d, i)
  <2> DEFINE q == i \div 4
             r == i % 4
  <2>1. i \in 0..95 /\ i = 4 * q + r /\ q \in 0..23 /\ r \in 0..3
    BY DEF Slot
  <2>2. /\ r = 3 => (i + 1) \div 4 = q + 1 /\ (i + 1) % 4 = 0
        /\ r # 3 => (i + 1) \div 4 = q /\ (i + 1) % 4 = r + 1
    BY <2>1
  <2>3. /\ SunTable[d][i] = hours[q] - r * Gen(d, i)
        /\ i + 1 # 96 => SunTable[d][i + 1] = hours[(i + 1) \div 4] - ((i + 1) % 4) * Gen(d, i + 1)
        /\ i + 1 = 96 => SunTable[d][i + 1] = 0
    BY <1>2, <2>1
  <2>4. Gen(d, i) = DAYS[d].gen[q] /\ Gen(d, i) \in Nat
    BY DayTypes DEF Gen
  <2>5. hours[q] = 4 * Gen(d, i) + hours[q + 1] /\ hours[q] \in Nat /\ hours[q + 1] \in Nat
    BY <1>3, <2>1, <2>4
  <2>6. r # 3 => Gen(d, i + 1) = Gen(d, i)
    BY <2>2 DEF Gen
  <2>7. i + 1 = 96 => q = 23 /\ r = 3
    BY <2>1
  <2>8. i + 1 # 96 => i + 1 \in Slot
    BY <2>1 DEF Slot
  <2>9. i + 1 # 96 => Gen(d, i + 1) \in Nat
    BY <2>8, DayTypes
  <2> DEFINE g == Gen(d, i)
             g1 == Gen(d, i + 1)
             h0 == hours[q]
             h1 == hours[q + 1]
             s0 == SunTable[d][i]
             s1 == SunTable[d][i + 1]
  <2>10. /\ g \in Nat /\ h0 \in Nat /\ h1 \in Nat /\ h0 = 4 * g + h1 /\ s0 = h0 - r * g
    BY <2>3, <2>4, <2>5
  <2>11. CASE r = 3
    <3>1. s1 = h1
      <4>1. CASE i + 1 = 96
        <5>1. q + 1 = 24
          BY <2>1, <4>1
        <5> QED  BY <1>3, <2>3, <4>1, <5>1
      <4>2. CASE i + 1 # 96
        <5>1. s1 = hours[q + 1] - 0 * Gen(d, i + 1)
          BY <2>2, <2>3, <2>11, <4>2
        <5>2. 0 * Gen(d, i + 1) = 0
          BY <2>9, <4>2
        <5> QED  BY <2>5, <5>1, <5>2
      <4> QED  BY <4>1, <4>2
    <3>2. s0 = h0 - 3 * g
      BY <2>10, <2>11
    <3> HIDE DEF g, h0, h1, s0, s1
    <3>3. s0 \in Int /\ s1 \in Int /\ s0 = s1 + g
      BY <2>10, <3>1, <3>2
    <3> QED  BY <3>3 DEF s0, s1, g
  <2>12. CASE r # 3
    <3>1. s1 = h0 - (r + 1) * g
      BY <2>2, <2>3, <2>6, <2>7, <2>12
    <3> HIDE DEF q, g, h0, h1, s0, s1
    <3>2. r = 0 \/ r = 1 \/ r = 2
      BY <2>1, <2>12
    <3> HIDE DEF r
    <3>3. s0 \in Int /\ s1 \in Int /\ s0 = s1 + g
      BY <2>10, <3>1, <3>2
    <3> QED  BY <3>3 DEF s0, s1, g
  <2> QED  BY <2>11, <2>12
<1>5. \A i \in 0..96 : i \in Slot \/ i = 96
  BY DEF Slot
<1>6. SunTable[d][96] = 0
  BY <1>2
<1> QED  BY <1>4, <1>5, <1>6

\* The later the slot, the less the sum.
LEMMA SunFalls ==
    ASSUME NEW d \in DOMAIN DAYS, NEW i \in 0..96, NEW j \in i..96
    PROVE  SunTable[d][j] <= SunTable[d][i]
<1> DEFINE Sun(k) == SunTable[d][k]
           Bad == {n \in 0..96 : i + n <= 96 /\ ~(Sun(i + n) <= Sun(i))}
<1>1. \A k \in 0..96 : Sun(k) \in Int
  BY SunSlope
<1>2. \A k \in 0..95 : Sun(k + 1) <= Sun(k)
  <2> TAKE k \in 0..95
  <2>1. Sun(k) = Sun(k + 1) + Gen(d, k) /\ Gen(d, k) \in Nat
    BY SunSlope, DayTypes DEF Slot
  <2>2. Sun(k) \in Int /\ Sun(k + 1) \in Int
    BY <1>1
  <2> HIDE DEF Sun
  <2> QED  BY <2>1, <2>2
<1> HIDE DEF Sun
<1>3. Bad = {}
  <2> SUFFICES ASSUME Bad # {} PROVE FALSE
    OBVIOUS
  <2>1. PICK n \in Bad : \A m \in Bad : n <= m
    <3>1. Bad \in SUBSET Nat
      OBVIOUS
    <3> HIDE DEF Bad
    <3> QED  BY <3>1, LeastNatural
  <2>2. n \in 0..96 /\ i + n <= 96 /\ ~(Sun(i + n) <= Sun(i))
    OBVIOUS
  <2>3. n # 0
    BY <1>1, <2>2
  <2>4. n - 1 \notin Bad
    <3> HIDE DEF Bad
    <3> QED  BY <2>1, <2>2, <2>3
  <2>5. Sun(i + (n - 1)) <= Sun(i)
    BY <2>2, <2>3, <2>4
  <2> DEFINE k == i + (n - 1)
  <2>6. k \in 0..95 /\ k + 1 = i + n
    BY <2>2, <2>3
  <2>7. Sun(k + 1) <= Sun(k) /\ Sun(k) \in Int /\ Sun(k + 1) \in Int /\ Sun(i) \in Int
    BY <1>1, <1>2, <2>6
  <2> HIDE DEF k
  <2>8. Sun(k + 1) <= Sun(i)
    BY <2>5, <2>7 DEF k
  <2> QED  BY <2>2, <2>6, <2>8
<1>4. j - i \in 0..96 /\ i + (j - i) = j /\ j <= 96
  OBVIOUS
<1>5. Sun(i + (j - i)) <= Sun(i)
  BY <1>3, <1>4
<1> QED  BY <1>4, <1>5 DEF Sun

\* The best slot of the run is at least as good as any.
LEMMA RunMaxFact == \A d \in DOMAIN DAYS : \A i \in Slot : Gen(d, i) <= RunMax /\ RunMax \in Nat
<1> SUFFICES ASSUME NEW d \in DOMAIN DAYS, NEW i \in Slot
             PROVE  Gen(d, i) <= RunMax /\ RunMax \in Nat
  OBVIOUS
<1> DEFINE S == (DOMAIN DAYS) \X Slot
           f == [p \in S |-> Gen(p[1], p[2])]
           All == {Gen(e, j) : e \in DOMAIN DAYS, j \in Slot}
<1>1. IsFiniteSet(S)
  <2>1. PICK n \in Nat : DOMAIN DAYS = 1..n
    <3> DEFINE Day == [gen : [0..23 -> Nat], cons : [0..23 -> Nat]]
    <3>1. DAYS \in Seq(Day)
      BY ChargeWindowAssumption
    <3> HIDE DEF Day
    <3> QED  BY <3>1
  <2>2. 1 \in Int /\ n \in Int /\ 0 \in Int /\ 95 \in Int
    OBVIOUS
  <2>3. IsFiniteSet(1..n)
    BY <2>2, FS_Interval
  <2>4. IsFiniteSet(0..95)
    BY <2>2, FS_Interval
  <2>5. IsFiniteSet(DOMAIN DAYS) /\ IsFiniteSet(Slot)
    BY <2>1, <2>3, <2>4 DEF Slot
  <2> QED  BY <2>5, FS_Product
<1>2. \A p \in S : f[p] \in Nat
  <2> TAKE p \in S
  <2>1. p[1] \in DOMAIN DAYS /\ p[2] \in Slot
    <3> HIDE DEF Slot
    <3> QED  OBVIOUS
  <2>2. Gen(p[1], p[2]) \in Nat
    BY <2>1, DayTypes
  <2> QED  BY <2>2
<1> HIDE DEF f
<1>3. PICK high \in Nat : \A p \in S : f[p] <= high
  BY <1>1, <1>2, FiniteBound
<1>4. \A e \in DOMAIN DAYS : \A j \in Slot : Gen(e, j) \in Nat /\ Gen(e, j) <= high
  <2> TAKE e \in DOMAIN DAYS
  <2> TAKE j \in Slot
  <2>1. <<e, j>> \in S
    OBVIOUS
  <2>2. f[<<e, j>>] = Gen(e, j)
    BY <2>1 DEF f
  <2> QED  BY <1>2, <1>3, <2>1, <2>2
<1>5. All \in SUBSET Int /\ All # {} /\ \A x \in All : x \in Nat /\ x <= high
  <2>1. \A x \in All : x \in Nat /\ x <= high
    BY <1>4
  <2>2. Gen(d, i) \in All
    OBVIOUS
  <2> HIDE DEF All
  <2>3. \A x \in All : x \in Int
    BY <2>1
  <2> QED  BY <2>1, <2>2, <2>3
<1>6. Gen(d, i) \in All /\ RunMax = Max(All)
  BY DEF RunMax
<1> HIDE DEF All
<1>7. Max(All) \in All /\ \A x \in All : x <= Max(All)
  <2>1. high \in Int
    BY <1>3
  <2> QED  BY <1>5, <2>1, MaxFact
<1> QED  BY <1>5, <1>6, <1>7

\* A day with a window has sun.
LEMMA WindowNeedsSun ==
    ASSUME NEW d \in DOMAIN DAYS, WindowStart(d) # None
    PROVE  RunMax \in Nat /\ RunMax > 0 /\ WindowStart(d) \in Nat
<1> DEFINE All == {Gen(d, j) : j \in Slot}
           sunny == {i \in Slot : 20 * Gen(d, i) > Max(All)}
<1>1. WindowStart(d) = First(sunny)
  BY DEF WindowStart
<1>2. sunny # {} /\ WindowStart(d) = 15 * Min(sunny)
  BY <1>1 DEF First
<1>3. PICK i \in Slot : 20 * Gen(d, i) > Max(All)
  BY <1>2
<1>4. RunMax \in Nat /\ \A j \in Slot : Gen(d, j) \in Nat /\ Gen(d, j) <= RunMax
  BY <1>3, RunMaxFact, DayTypes
<1>5. Max(All) \in Nat
  <2>1. All # {} /\ \A x \in All : x \in Nat /\ x <= RunMax
    BY <1>3, <1>4
  <2> HIDE DEF All
  <2>3. \A x \in All : x \in Int
    BY <2>1
  <2>4. All \in SUBSET Int /\ RunMax \in Int
    BY <1>4, <2>3
  <2>2. Max(All) \in All
    BY <2>1, <2>4, MaxFact
  <2> QED  BY <2>1, <2>2
<1>6. Min(sunny) \in Nat
  <2>1. \A j \in sunny : j \in 0..95
    BY DEF Slot
  <2> HIDE DEF sunny
  <2>2. sunny \in SUBSET Int /\ 0 \in Int /\ \A j \in sunny : 0 <= j
    BY <2>1
  <2>3. Min(sunny) \in sunny
    BY <1>2, <2>2, MinFact
  <2> QED  BY <2>1, <2>3
<1> HIDE DEF All, sunny
<1>7. RunMax > 0
  <2>1. Gen(d, i) \in Nat /\ Gen(d, i) <= RunMax
    BY <1>3, <1>4
  <2> QED  BY <1>3, <1>4, <1>5, <2>1
<1>8. 15 * Min(sunny) \in Nat
  BY <1>6
<1> QED  BY <1>2, <1>4, <1>7, <1>8

\* What a site gets from minute m on, and what it needs.
SunAt(d, site, m) ==
    IF m >= Deadline(d) THEN 0
    ELSE 25 * site.rate * (SunTable[d][m \div 15] - SunTable[d][Deadline(d) \div 15])
NeedOf(site) == 13 * RunMax * site.kwh * Larger(0, 95 - site.soc)

\* The deadline lies on a quarter hour of the day when a slot lies before it.
LEMMA DeadlineSlot ==
    ASSUME NEW d, EveningCrossover[d] # None, d \in DOMAIN DAYS
    PROVE  \E D \in Int : Deadline(d) = 15 * D /\ D <= 88
<1> DEFINE covered == {i \in Slot : Covered(d, i)}
<1>1. EveningCrossover[d] = IF covered = {} THEN None ELSE 15 * Max(covered) + 15
  BY DEF EveningCrossover
<1>2. covered # {} /\ EveningCrossover[d] = 15 * Max(covered) + 15
  BY <1>1
<1>3. Max(covered) \in 0..95
  <2>1. \A i \in covered : i \in 0..95
    BY DEF Slot
  <2> HIDE DEF covered
  <2>2. covered \in SUBSET Int /\ 95 \in Int /\ \A i \in covered : i <= 95
    BY <2>1
  <2>3. Max(covered) \in covered
    BY <1>2, <2>2, MaxFact
  <2> QED  BY <2>1, <2>3
<1> DEFINE top == Max(covered)
<1>5. top \in 0..95 /\ EveningCrossover[d] = 15 * top + 15
  BY <1>2, <1>3
<1> HIDE DEF top
<1>4. Deadline(d) = 15 * top + 15 - 120
  BY <1>5 DEF Deadline, BUFFER
<1>6. top - 7 \in Int /\ Deadline(d) = 15 * (top - 7) /\ top - 7 <= 88
  BY <1>4, <1>5
<1> QED  BY <1>6

\* More of the sun charges no less.
LEMMA RateGrows ==
    ASSUME NEW rate \in Nat, NEW x \in Int, NEW y \in Int, x <= y
    PROVE  25 * rate * x <= 25 * rate * y /\ 25 * rate * x \in Int /\ 25 * rate * y \in Int
<1>1. \A a, b \in Nat : a * b \in Nat
  OBVIOUS
<1>2. PICK z \in Nat : y = x + z
  <2>1. y - x \in Nat /\ y = x + (y - x)
    OBVIOUS
  <2> QED  BY <2>1
<1> DEFINE r == 25 * rate
<1>3. r \in Nat
  OBVIOUS
<1>4. r * y = r * x + r * z /\ r * z \in Nat /\ r * x \in Int
  BY <1>1, <1>2, <1>3
<1> HIDE DEF r
<1>5. r * x <= r * y /\ r * y \in Int
  <2> DEFINE a == r * x
             b == r * z
             c == r * y
  <2>1. c = a + b /\ b \in Nat /\ a \in Int
    BY <1>4
  <2> HIDE DEF a, b, c
  <2>2. a <= c /\ c \in Int
    BY <2>1
  <2> QED  BY <2>2 DEF a, c
<1> QED  BY <1>4, <1>5 DEF r

\* The end a site estimates for itself: late enough for the community, early
\* enough for the site (individualChargeWindowEnd).
LEMMA OwnEnd ==
    ASSUME NEW d \in DOMAIN DAYS, NEW site \in [kwh : Int, rate : Int, soc : Int],
           Learned(site), site.soc \in 0..100,
           WindowStart(d) # None, IndividualEnd(d, site) # None
    PROVE  LET end == IndividualEnd(d, site)
           IN  /\ SunAt(d, site, end) >= NeedOf(site)
               /\ end = LATEST \/ SunAt(d, site, end + 15) < NeedOf(site) \/ site.soc >= 95
<1> DEFINE last == {i \in BeforeDeadline(d) : Suffices(d, i, site)}
           M == Max(last)
           end == IndividualEnd(d, site)
<1>1. /\ EveningCrossover[d] # None /\ last # {} /\ end = Smaller(15 * M, LATEST)
  BY DEF IndividualEnd
<1>2. PICK D \in Int : Deadline(d) = 15 * D /\ D <= 88
  BY <1>1, DeadlineSlot
<1>3. \A i : i \in BeforeDeadline(d) <=> i \in 0..95 /\ i + 1 <= D
  BY <1>2 DEF BeforeDeadline, Slot
<1>4. M \in last /\ \A i \in last : i <= M
  <2>1. \A i \in last : i \in 0..95
    BY <1>3
  <2> HIDE DEF last
  <2>2. last \in SUBSET Int /\ 95 \in Int /\ \A i \in last : i <= 95
    BY <2>1
  <2> QED  BY <1>1, <2>2, MaxFact
<1>5. M \in 0..95 /\ M + 1 <= D /\ Suffices(d, M, site)
  BY <1>3, <1>4
<1>6. ASSUME M + 1 <= 95, M + 2 <= D PROVE ~Suffices(d, M + 1, site)
  <2>1. M + 1 \in BeforeDeadline(d)
    BY <1>3, <1>5, <1>6
  <2>2. M + 1 \notin last
    <3> HIDE DEF last, M
    <3> QED  BY <1>4, <1>5
  <2> QED  BY <2>1, <2>2
<1> HIDE DEF last, M, end
<1> DEFINE rate == site.rate
           Sun(i) == SunTable[d][i]
           need == NeedOf(site)
<1>7. rate \in Nat /\ site.kwh \in Nat /\ site.kwh > 0 /\ site.soc \in Nat
  BY DEF Learned
<1>8. \A i \in 0..96 : Sun(i) \in Int
  BY SunSlope
<1>9. Deadline(d) \div 15 = D /\ D \in 0..88
  <2>1. D \in 0..88
    BY <1>2, <1>5
  <2>2. (15 * D) \div 15 = D
    BY <2>1
  <2> QED  BY <1>2, <2>1, <2>2
<1>10. need \in Int /\ (site.soc < 95 => need > 0)
  <2>1. RunMax \in Nat /\ RunMax > 0
    BY WindowNeedsSun
  <2> DEFINE missing == Larger(0, 95 - site.soc)
  <2>2. missing \in Nat /\ (site.soc < 95 => missing > 0)
    BY <1>7 DEF Larger
  <2> HIDE DEF missing
  <2>3. \A a, b \in Nat : a * b \in Nat /\ (a > 0 /\ b > 0 => a * b > 0)
    OBVIOUS
  <2>4. 13 * RunMax \in Nat /\ 13 * RunMax > 0
    BY <2>1
  <2>5. 13 * RunMax * site.kwh \in Nat /\ 13 * RunMax * site.kwh > 0
    BY <1>7, <2>3, <2>4
  <2>6. 13 * RunMax * site.kwh * missing \in Nat
        /\ (missing > 0 => 13 * RunMax * site.kwh * missing > 0)
    BY <2>2, <2>3, <2>5
  <2> QED  BY <2>2, <2>6 DEF NeedOf, missing
<1>11. \A i : Suffices(d, i, site) <=> 25 * rate * (Sun(i) - Sun(D)) >= need
  BY <1>9 DEF Suffices, SunFrom, NeedOf
<1>12. ASSUME NEW i \in 0..95, i < D
       PROVE  SunAt(d, site, 15 * i) = 25 * rate * (Sun(i) - Sun(D))
  <2>1. ~(15 * i >= Deadline(d)) /\ (15 * i) \div 15 = i
    BY <1>2, <1>12
  <2> QED  BY <1>9, <2>1 DEF SunAt
<1> HIDE DEF Sun, rate, need
<1>13. ASSUME NEW i \in 0..88, NEW j \in i..88
       PROVE  /\ 25 * rate * (Sun(j) - Sun(D)) <= 25 * rate * (Sun(i) - Sun(D))
              /\ 25 * rate * (Sun(j) - Sun(D)) \in Int /\ 25 * rate * (Sun(i) - Sun(D)) \in Int
  <2>1. Sun(j) <= Sun(i) /\ Sun(i) \in Int /\ Sun(j) \in Int /\ Sun(D) \in Int
    <3>1. i \in 0..96 /\ j \in i..96 /\ j \in 0..96 /\ D \in 0..96
      BY <1>9
    <3> QED  BY <1>8, <3>1, SunFalls DEF Sun
  <2>2. Sun(j) - Sun(D) <= Sun(i) - Sun(D) /\ Sun(j) - Sun(D) \in Int /\ Sun(i) - Sun(D) \in Int
    BY <2>1
  <2> QED  BY <1>7, <2>2, RateGrows
<1>14. M \in 0..87 /\ M < D
  BY <1>5, <1>9
<1>15. CASE 15 * M <= LATEST
  <2>1. end = 15 * M
    BY <1>1, <1>14, <1>15 DEF Smaller, LATEST
  <2>2. SunAt(d, site, end) >= need
    BY <1>5, <1>11, <1>12, <1>14, <2>1
  <2>3. end + 15 = 15 * (M + 1)
    BY <1>14, <2>1
  <2>4. CASE M + 1 >= D
    <3>1. end + 15 >= Deadline(d)
      BY <1>2, <1>14, <2>3, <2>4
    <3>2. SunAt(d, site, end + 15) = 0
      BY <3>1 DEF SunAt
    <3>3. site.soc < 95 => SunAt(d, site, end + 15) < need
      BY <1>10, <3>2
    <3>4. site.soc < 95 \/ site.soc >= 95
      BY <1>7
    <3> QED  BY <2>2, <3>3, <3>4 DEF end, need
  <2>5. CASE ~(M + 1 >= D)
    <3>1. M + 1 \in 0..88 /\ M + 1 \in M + 1..88 /\ M + 2 <= D /\ M + 1 < D /\ M + 1 <= 95 /\ M + 1 \in 0..95
      BY <1>9, <1>14, <2>5
    <3>2. SunAt(d, site, end + 15) = 25 * rate * (Sun(M + 1) - Sun(D))
      BY <1>12, <2>3, <3>1
    <3>3. ~(25 * rate * (Sun(M + 1) - Sun(D)) >= need)
      BY <1>6, <1>11, <3>1
    <3>4. 25 * rate * (Sun(M + 1) - Sun(D)) \in Int
      BY <1>13, <3>1
    <3>5. SunAt(d, site, end + 15) < need
      BY <1>10, <3>2, <3>3, <3>4
    <3> QED  BY <2>2, <3>5 DEF end, need
  <2> QED  BY <2>4, <2>5
<1>16. CASE ~(15 * M <= LATEST)
  <2>1. end = LATEST /\ M > 56 /\ LATEST = 15 * 56
    BY <1>1, <1>14, <1>16 DEF Smaller, LATEST
  <2>2. 56 \in 0..95 /\ 56 < D /\ 56 \in 0..88 /\ M \in 56..88
    BY <1>9, <1>14, <2>1
  <2>3. SunAt(d, site, end) = 25 * rate * (Sun(56) - Sun(D))
    BY <1>12, <2>1, <2>2
  <2>4. /\ 25 * rate * (Sun(M) - Sun(D)) <= 25 * rate * (Sun(56) - Sun(D))
        /\ 25 * rate * (Sun(M) - Sun(D)) \in Int /\ 25 * rate * (Sun(56) - Sun(D)) \in Int
    BY <1>13, <2>2
  <2>5. 25 * rate * (Sun(M) - Sun(D)) >= need
    BY <1>5, <1>11
  <2>6. SunAt(d, site, end) >= need
    BY <1>10, <2>3, <2>4, <2>5
  <2> QED  BY <2>1, <2>6 DEF end, need
<1> QED  BY <1>15, <1>16

\* A lock that a site keeps by its own estimate ends so early that the sun left
\* until two hours before the evening fills the battery, and no quarter hour
\* earlier than that takes (up to 14:00), for every forecast and every site.
THEOREM LockSparesTheSun == WindowSpec => []LockLeavesEnoughSun
<1>1. WindowInv => LockLeavesEnoughSun
  <2> SUFFICES ASSUME WindowInv, used.on, used.clean, plan.wish, used.start.v # None,
                      used.start.v < used.end.v
               PROVE  \E soc \in plan.socs :
                         /\ Gets(Today, used.end.v) >= NeedsAt(soc)
                         /\ used.end.v = LATEST \/ Gets(Today, used.end.v + 15) < NeedsAt(soc) \/ soc >= 95
    BY DEF LockLeavesEnoughSun
  <2>1. /\ scene \in DOMAIN SCENES /\ clock.day \in 1..2
        /\ \A n \in TOLD : used[n].v # None => Today # None /\ AsTold(n, used[n].v, Today)
    BY DEF WindowInv, UsedAsTold, WindowBase, WindowTypes
  <2>2. /\ Today # None /\ used.start.v = WindowStart(Today)
    BY <2>1 DEF AsTold, TOLD
  <2>3. /\ Today \in DOMAIN DAYS /\ plan.site \in [kwh : Int, rate : Int, soc : Int]
        /\ plan.socs \subseteq 0..100
    BY <2>1, <2>2, ChargeWindowAssumption DEF Today, plan, None
  <2>4. WindowStart(Today) # None /\ WindowStart(Today) \in Nat
    BY <2>2, <2>3, WindowNeedsSun
  <2>5. used.end.v # None
    BY <2>2, <2>4 DEF None
  <2>6. PICK soc \in plan.socs : used.end.v = EndFor(Today, [plan.site EXCEPT !.soc = soc], plan.wish)
    BY <2>1, <2>5 DEF AsTold, TOLD
  <2> DEFINE site == [plan.site EXCEPT !.soc = soc]
  <2>7. /\ site \in [kwh : Int, rate : Int, soc : Int] /\ site.soc = soc /\ soc \in 0..100
        /\ site.kwh = plan.site.kwh /\ site.rate = plan.site.rate
    BY <2>3, <2>6
  <2> HIDE DEF site
  <2>8. Learned(site) /\ used.end.v = IndividualEnd(Today, site)
    BY <2>4, <2>5, <2>6 DEF EndFor, site
  <2>9. /\ SunAt(Today, site, used.end.v) >= NeedOf(site)
        /\ used.end.v = LATEST \/ SunAt(Today, site, used.end.v + 15) < NeedOf(site) \/ soc >= 95
    BY <2>3, <2>4, <2>5, <2>7, <2>8, OwnEnd
  <2>10. NeedsAt(soc) = NeedOf(site) /\ \A m : Gets(Today, m) = SunAt(Today, site, m)
    BY <2>7 DEF NeedsAt, NeedOf, Gets, SunAt, Deadline
  <2> QED  BY <2>6, <2>9, <2>10
<1> QED  BY <1>1, WindowInvariant, PTL

-----------------------------------------------------------------------------
(***************************************************************************)
(* The sum of the week.                                                    *)
(***************************************************************************)
\* Readings of days up to dayNow, one of them of an earlier day.
Readings(snaps) ==
    /\ DOMAIN snaps \subseteq 0..dayNow
    /\ \A d \in DOMAIN snaps : snaps[d] \in Nat
    /\ \E d \in DOMAIN snaps : d < dayNow

\* The reading a day's consumption counts from, and the last one.
Previous(snaps, d) == snaps[Max({e \in DOMAIN snaps : e < d})]
LastOf(snaps) == snaps[Max(DOMAIN snaps)]

\* What the last reading says of what was told: the counter has gone on from it,
\* or it was reset since and counts what was fed since then.
GoneOn(kwh, last, more) == kwh - last = more \/ kwh <= more

FeedInTypes ==
    /\ dayNow \in Nat \ {0} /\ fed \in Nat /\ resets \in Nat
    /\ told \in Nat \cup {NoReading} /\ before \in Nat \cup {NoReading}
    /\ counter \in [kwh : 0..fed, since : Int]
    /\ push.kind \in {"none", "request", "answer"}
    /\ push.kind = "request" =>
          push \in [kind : {"request"}, full : BOOLEAN, fed : 0..fed, kwh : Nat \cup {NoReading}]

Trusted ==
    /\ told = NoReading => DOMAIN snapshots = {}
    /\ told # NoReading =>
          /\ Readings(snapshots) /\ told <= fed /\ before # NoReading
          /\ GoneOn(counter.kwh, LastOf(snapshots), fed - told)

PushTells ==
    push.kind = "request" =>
        /\ push.kwh # NoReading => counter.kwh - push.kwh = fed - push.fed
        /\ told # NoReading => told <= push.fed
        /\ told # NoReading /\ push.kwh # NoReading =>
              GoneOn(push.kwh, LastOf(snapshots), push.fed - told)

OneCard ==
    resets = 0 =>
        /\ counter.kwh = fed
        /\ push.kind = "request" /\ push.kwh # NoReading => push.kwh = push.fed
        /\ told # NoReading => LastOf(snapshots) = told
        /\ \A d, e \in DOMAIN snapshots : d < e => snapshots[d] <= snapshots[e]

BeforeTheWeek == dayNow < MONDAY /\ told # NoReading => before = told

FeedInInv ==
    /\ FeedInTypes /\ Trusted /\ PushTells /\ OneCard /\ BeforeTheWeek
    /\ WeekIsWhatWasFed

LEMMA FeedInNumbers ==
    MONDAY \in Nat /\ MONDAY > 0
BY FeedInAssumption

\* The greatest day of the readings, and of those before a day.
LEMMA GreatestDay ==
    ASSUME NEW D, dayNow \in Nat, D \subseteq 0..dayNow, D # {}
    PROVE  Max(D) \in D /\ \A d \in D : d <= Max(D)
<1>1. D \in SUBSET Int /\ dayNow \in Int /\ \A d \in D : d <= dayNow
  OBVIOUS
<1> QED  BY <1>1, MaxFact

\* What a day added, in numbers.
LEMMA DeltaFact ==
    ASSUME dayNow \in Nat, NEW snaps, DOMAIN snaps \subseteq 0..dayNow,
           \A d \in DOMAIN snaps : snaps[d] \in Nat,
           NEW d \in DOMAIN snaps
    PROVE  /\ Delta(snaps, d) \in Nat
           /\ (\E e \in DOMAIN snaps : e < d) =>
                 /\ Previous(snaps, d) \in Nat
                 /\ Delta(snaps, d) = IF snaps[d] >= Previous(snaps, d)
                                      THEN snaps[d] - Previous(snaps, d) ELSE snaps[d]
           /\ (~\E e \in DOMAIN snaps : e < d) => Delta(snaps, d) = 0
<1> DEFINE earlier == {e \in DOMAIN snaps : e < d}
<1>1. CASE earlier = {}
  <2>1. Delta(snaps, d) = 0
    BY <1>1 DEF Delta
  <2>2. ~\E e \in DOMAIN snaps : e < d
    BY <1>1
  <2> QED  BY <2>1, <2>2
<1>2. CASE earlier # {}
  <2>1. earlier \subseteq 0..dayNow /\ earlier \subseteq DOMAIN snaps
    OBVIOUS
  <2>2. Delta(snaps, d) = IF snaps[d] >= snaps[Max(earlier)]
                          THEN snaps[d] - snaps[Max(earlier)] ELSE snaps[d]
    BY <1>2 DEF Delta
  <2>3. \E e \in DOMAIN snaps : e < d
    BY <1>2
  <2>4. Previous(snaps, d) = snaps[Max(earlier)]
    BY DEF Previous
  <2> HIDE DEF earlier
  <2>5. Max(earlier) \in DOMAIN snaps
    BY <1>2, <2>1, GreatestDay
  <2>6. snaps[Max(earlier)] \in Nat /\ snaps[d] \in Nat
    BY <2>5
  <2>7. Delta(snaps, d) \in Nat
    BY <2>2, <2>6
  <2> QED  BY <2>2, <2>3, <2>4, <2>6, <2>7
<1> QED  BY <1>1, <1>2

WeekDays(snaps) == {d \in DOMAIN snaps : d >= (IF dayNow >= MONDAY THEN MONDAY ELSE 0)}
Deltas(snaps) == [d \in DOMAIN snaps |-> Delta(snaps, d)]

LEMMA WeekSumFacts ==
    ASSUME dayNow \in Nat, NEW snaps, DOMAIN snaps \subseteq 0..dayNow,
           \A d \in DOMAIN snaps : snaps[d] \in Nat
    PROVE  /\ WeekSum(snaps) = SumFunctionOnSet(Deltas(snaps), WeekDays(snaps))
           /\ IsFiniteSet(WeekDays(snaps))
           /\ \A d \in WeekDays(snaps) : Deltas(snaps)[d] = Delta(snaps, d)
                                         /\ Deltas(snaps)[d] \in Int
<1>1. IsFiniteSet(0..dayNow)
  BY FS_Interval
<1>2. WeekDays(snaps) \in SUBSET (0..dayNow) /\ WeekDays(snaps) \subseteq DOMAIN snaps
  BY DEF WeekDays
<1>3. IsFiniteSet(WeekDays(snaps))
  BY <1>1, <1>2, FS_Subset
<1>4. ASSUME NEW d \in WeekDays(snaps)
      PROVE  Deltas(snaps)[d] = Delta(snaps, d) /\ Deltas(snaps)[d] \in Int
  <2>1. d \in DOMAIN snaps
    BY <1>2
  <2>2. Delta(snaps, d) \in Nat
    BY <2>1, DeltaFact
  <2> QED  BY <2>1, <2>2 DEF Deltas
<1> QED  BY <1>3, <1>4 DEF WeekSum, WeekDays, Deltas

\* A reading of the day, on top of readings.
LEMMA RecordedOnTop ==
    ASSUME NEW snaps, NEW kwh
    PROVE  /\ DOMAIN Recorded(snaps, kwh) = DOMAIN snaps \cup {dayNow}
           /\ Recorded(snaps, kwh)[dayNow] = kwh
           /\ \A d \in DOMAIN snaps : d # dayNow => Recorded(snaps, kwh)[d] = snaps[d]
BY DEF Recorded

\* A reading of the day changes the sum of the week by what it changes in the day.
LEMMA WeekStep ==
    ASSUME dayNow \in Nat, dayNow >= MONDAY, NEW snaps, Readings(snaps), NEW kwh \in Nat
    PROVE  LET after == Recorded(snaps, kwh)
               old == IF dayNow \in DOMAIN snaps THEN Delta(snaps, dayNow) ELSE 0
           IN  /\ WeekSum(snaps) \in Int /\ old \in Nat /\ Delta(after, dayNow) \in Nat
               /\ WeekSum(after) = WeekSum(snaps) - old + Delta(after, dayNow)
               /\ Previous(after, dayNow) = Previous(snaps, dayNow)
               /\ Readings(after)
<1> DEFINE after == Recorded(snaps, kwh)
           old == IF dayNow \in DOMAIN snaps THEN Delta(snaps, dayNow) ELSE 0
           new == Delta(after, dayNow)
           S == WeekDays(snaps)
           T == WeekDays(after)
           R == S \ {dayNow}
           f == Deltas(snaps)
           g == Deltas(after)
<1>1. /\ DOMAIN snaps \subseteq 0..dayNow /\ DOMAIN snaps # {}
      /\ \A d \in DOMAIN snaps : snaps[d] \in Nat
  BY DEF Readings
<1>2. /\ DOMAIN after = DOMAIN snaps \cup {dayNow} /\ after[dayNow] = kwh
      /\ \A d \in DOMAIN snaps : d # dayNow => after[d] = snaps[d]
  BY <1>1, RecordedOnTop
<1> HIDE DEF after
<1>3. DOMAIN after \subseteq 0..dayNow /\ (\A d \in DOMAIN after : after[d] \in Nat)
      /\ dayNow \in DOMAIN after
  BY <1>1, <1>2
<1>4. Readings(after)
  BY <1>2, <1>3 DEF Readings
<1>5. new \in Nat /\ old \in Nat
  BY <1>1, <1>3, DeltaFact
<1>6. /\ WeekSum(snaps) = SumFunctionOnSet(f, S) /\ IsFiniteSet(S)
      /\ \A d \in S : f[d] = Delta(snaps, d) /\ f[d] \in Int
  BY <1>1, WeekSumFacts
<1>7. /\ WeekSum(after) = SumFunctionOnSet(g, T) /\ IsFiniteSet(T)
      /\ \A d \in T : g[d] = Delta(after, d) /\ g[d] \in Int
  BY <1>3, WeekSumFacts
<1>8. dayNow \in T /\ R \subseteq S /\ (dayNow \in DOMAIN snaps <=> dayNow \in S)
  BY <1>1, <1>2, FeedInNumbers DEF WeekDays
<1>9. T \ {dayNow} = R
  BY <1>2 DEF WeekDays
<1>10. ASSUME NEW d, d <= dayNow, d \in 0..dayNow
       PROVE  {e \in DOMAIN after : e < d} = {e \in DOMAIN snaps : e < d}
              /\ \A e \in DOMAIN snaps : e < d => after[e] = snaps[e]
  BY <1>1, <1>2, <1>10
<1>11. \A d \in R : g[d] = f[d]
  <2> TAKE d \in R
  <2>1. d \in S /\ d # dayNow /\ d \in DOMAIN snaps /\ d \in 0..dayNow /\ d <= dayNow /\ d \in T
    BY <1>1, <1>2 DEF WeekDays
  <2> DEFINE earlier == {e \in DOMAIN snaps : e < d}
  <2>2. {e \in DOMAIN after : e < d} = earlier
    BY <1>10, <2>1
  <2>3. earlier # {} => after[Max(earlier)] = snaps[Max(earlier)]
    <3>1. earlier \subseteq 0..dayNow /\ \A e \in earlier : e \in DOMAIN snaps /\ e < d
      BY <1>1
    <3> HIDE DEF earlier
    <3>2. earlier # {} => Max(earlier) \in earlier
      BY <3>1, GreatestDay
    <3> QED  BY <1>10, <2>1, <3>1, <3>2
  <2>4. after[d] = snaps[d]
    BY <1>2, <2>1
  <2>5. Delta(after, d) = Delta(snaps, d)
    <3>1. Delta(snaps, d) = IF earlier = {} THEN 0
                            ELSE IF snaps[d] >= snaps[Max(earlier)]
                                 THEN snaps[d] - snaps[Max(earlier)] ELSE snaps[d]
      BY DEF Delta
    <3>2. Delta(after, d) = IF earlier = {} THEN 0
                            ELSE IF after[d] >= after[Max(earlier)]
                                 THEN after[d] - after[Max(earlier)] ELSE after[d]
      BY <2>2 DEF Delta
    <3> HIDE DEF earlier
    <3> QED  BY <2>3, <2>4, <3>1, <3>2
  <2> QED  BY <1>6, <1>7, <2>1, <2>5
<1>12. Previous(after, dayNow) = Previous(snaps, dayNow)
  <2> DEFINE earlier == {e \in DOMAIN snaps : e < dayNow}
  <2>1. dayNow \in 0..dayNow /\ dayNow <= dayNow
    OBVIOUS
  <2>2. {e \in DOMAIN after : e < dayNow} = earlier
    BY <1>10, <2>1
  <2>3. earlier # {} /\ earlier \subseteq 0..dayNow
        /\ \A e \in earlier : e \in DOMAIN snaps /\ e < dayNow
    BY <1>1 DEF Readings
  <2>4. Previous(after, dayNow) = after[Max(earlier)] /\ Previous(snaps, dayNow) = snaps[Max(earlier)]
    BY <2>2 DEF Previous
  <2> HIDE DEF earlier
  <2>5. Max(earlier) \in earlier
    BY <2>3, GreatestDay
  <2> QED  BY <1>10, <2>1, <2>3, <2>4, <2>5
<1> HIDE DEF S, T, R, f, g, old, new
<1>13. SumFunctionOnSet(g, T) = new + SumFunctionOnSet(g, R)
  <2>1. g[dayNow] = new
    BY <1>7, <1>8 DEF new
  <2>2. SumFunctionOnSet(g, T) = g[dayNow] + SumFunctionOnSet(g, T \ {dayNow})
    BY <1>7, <1>8, SumFacts
  <2> QED  BY <1>9, <2>1, <2>2
<1>14. SumFunctionOnSet(g, R) = SumFunctionOnSet(f, R) /\ SumFunctionOnSet(f, R) \in Int
  <2>1. IsFiniteSet(R) /\ \A d \in R : f[d] \in Int /\ g[d] = f[d]
    BY <1>6, <1>8, <1>11, FS_Subset
  <2> QED  BY <2>1, SumSame, SumFacts
<1>15. SumFunctionOnSet(f, S) = old + SumFunctionOnSet(f, R)
  <2>1. CASE dayNow \in S
    <3>1. f[dayNow] = old
      BY <1>6, <1>8, <2>1 DEF old
    <3>2. SumFunctionOnSet(f, S) = f[dayNow] + SumFunctionOnSet(f, S \ {dayNow})
      BY <1>6, <2>1, SumFacts
    <3> QED  BY <3>1, <3>2 DEF R
  <2>2. CASE dayNow \notin S
    <3>1. old = 0 /\ R = S
      BY <1>8, <2>2 DEF old, R
    <3> QED  BY <1>14, <3>1
  <2> QED  BY <2>1, <2>2
<1>16. WeekSum(snaps) \in Int
  BY <1>6, SumFacts
<1>17. WeekSum(after) = WeekSum(snaps) - old + new
  <2> DEFINE r == SumFunctionOnSet(f, R)
             w == WeekSum(snaps)
             v == WeekSum(after)
  <2>1. r \in Int /\ w \in Int /\ w = old + r /\ v = new + r
    BY <1>6, <1>7, <1>13, <1>14, <1>15, <1>16
  <2> HIDE DEF r, w, v
  <2>2. v = w - old + new
    BY <1>5, <2>1
  <2> QED  BY <2>2 DEF v, w
<1> QED  BY <1>4, <1>5, <1>12, <1>16, <1>17 DEF after, old, new

\* A day's part of the sum grows by no more than was told, and by just that as
\* long as the readings only rise.
LEMMA DayGrows ==
    ASSUME NEW k \in Nat, NEW l \in Nat, NEW p \in Nat, NEW more \in Nat, GoneOn(k, l, more)
    PROVE  LET Day(v) == IF v >= p THEN v - p ELSE v
           IN  /\ Day(k) - Day(l) <= more
               /\ l = p => Day(k) <= more
               /\ k - l = more /\ p <= l => Day(k) - Day(l) = more
BY DEF GoneOn

\* The reading before the day, and the last one, of readings that have either.
LEMMA LastReading ==
    ASSUME dayNow \in Nat, NEW snaps, Readings(snaps)
    PROVE  /\ LastOf(snaps) \in Nat /\ Previous(snaps, dayNow) \in Nat
           /\ dayNow \in DOMAIN snaps => LastOf(snaps) = snaps[dayNow]
           /\ dayNow \notin DOMAIN snaps => LastOf(snaps) = Previous(snaps, dayNow)
           /\ \E e \in DOMAIN snaps : e < dayNow /\ Previous(snaps, dayNow) = snaps[e]
<1> DEFINE D == DOMAIN snaps
           E == {e \in D : e < dayNow}
<1>1. /\ D \subseteq 0..dayNow /\ D # {} /\ E # {} /\ E \subseteq 0..dayNow
      /\ \A d \in D : snaps[d] \in Nat
      /\ \A e \in E : e \in D /\ e < dayNow
  BY DEF Readings
<1>2. dayNow \notin D => E = D
  BY <1>1
<1>3. Previous(snaps, dayNow) = snaps[Max(E)] /\ LastOf(snaps) = snaps[Max(D)]
  BY DEF Previous, LastOf
<1> HIDE DEF E, D
<1>4. Max(D) \in D /\ (\A d \in D : d <= Max(D)) /\ Max(E) \in E
  BY <1>1, GreatestDay
<1>5. dayNow \in D => Max(D) = dayNow
  <2> DEFINE m == Max(D)
  <2>1. m \in 0..dayNow /\ (dayNow \in D => dayNow <= m)
    BY <1>1, <1>4
  <2> HIDE DEF m
  <2>2. dayNow \in D => m = dayNow
    BY <2>1
  <2> QED  BY <2>2 DEF m
<1> QED  BY <1>1, <1>2, <1>3, <1>4, <1>5 DEF D

\* Every later reading of the week, in numbers.
LEMMA WeekGrows ==
    ASSUME dayNow \in Nat, dayNow >= MONDAY, NEW snaps, Readings(snaps), NEW kwh \in Nat,
           NEW more \in Nat, GoneOn(kwh, LastOf(snaps), more)
    PROVE  /\ WeekSum(Recorded(snaps, kwh)) \in Int /\ WeekSum(snaps) \in Int
           /\ WeekSum(Recorded(snaps, kwh)) <= WeekSum(snaps) + more
           /\ kwh - LastOf(snaps) = more /\ Previous(snaps, dayNow) <= LastOf(snaps) =>
                 WeekSum(Recorded(snaps, kwh)) = WeekSum(snaps) + more
<1> DEFINE after == Recorded(snaps, kwh)
           old == IF dayNow \in DOMAIN snaps THEN Delta(snaps, dayNow) ELSE 0
           new == Delta(after, dayNow)
           p == Previous(snaps, dayNow)
           l == LastOf(snaps)
           w == WeekSum(snaps)
           v == WeekSum(after)
           Day(n) == IF n >= p THEN n - p ELSE n
<1>1. /\ w \in Int /\ old \in Nat /\ new \in Nat /\ v = w - old + new
      /\ Previous(after, dayNow) = p /\ Readings(after)
  BY WeekStep
<1>2. /\ l \in Nat /\ p \in Nat
      /\ dayNow \in DOMAIN snaps => l = snaps[dayNow]
      /\ dayNow \notin DOMAIN snaps => l = p
  BY LastReading
<1>3. /\ DOMAIN snaps \subseteq 0..dayNow /\ \A d \in DOMAIN snaps : snaps[d] \in Nat
      /\ \E d \in DOMAIN snaps : d < dayNow
  BY DEF Readings
<1>4. /\ DOMAIN after \subseteq 0..dayNow /\ \A d \in DOMAIN after : after[d] \in Nat
      /\ \E d \in DOMAIN after : d < dayNow
  BY <1>1 DEF Readings
<1>5. dayNow \in DOMAIN after /\ after[dayNow] = kwh
  BY <1>3, RecordedOnTop
<1> HIDE DEF after
<1>6. new = Day(kwh)
  BY <1>1, <1>4, <1>5, DeltaFact
<1>7. dayNow \in DOMAIN snaps => old = Day(l)
  BY <1>2, <1>3, DeltaFact
<1>8. dayNow \notin DOMAIN snaps => old = 0 /\ l = p
  BY <1>2
<1> HIDE DEF old, new, p, l, w, v
<1>9. /\ Day(kwh) - Day(l) <= more
      /\ l = p => Day(kwh) <= more
      /\ kwh - l = more /\ p <= l => Day(kwh) - Day(l) = more
  BY <1>2, DayGrows DEF l
<1>10. Day(l) \in Int /\ Day(kwh) \in Int /\ (l = p => Day(l) = 0)
  BY <1>2
<1> HIDE DEF Day
<1>11. /\ v \in Int /\ v <= w + more
       /\ kwh - l = more /\ p <= l => v = w + more
  BY <1>1, <1>6, <1>7, <1>8, <1>9, <1>10
<1> QED  BY <1>1, <1>11 DEF v, w, l, p, after

\* The first reading of all, the baseline of the day before: no energy yet.
LEMMA FirstReading ==
    ASSUME dayNow \in Nat \ {0}, NEW kwh \in Nat
    PROVE  /\ Readings(Baseline(kwh)) /\ LastOf(Baseline(kwh)) = kwh
           /\ \A d \in DOMAIN Baseline(kwh) : d = dayNow - 1
           /\ WeekSum(Baseline(kwh)) = 0
<1> DEFINE based == Baseline(kwh)
           S == WeekDays(based)
           f == Deltas(based)
<1>1. DOMAIN based = {dayNow - 1} /\ based[dayNow - 1] = kwh
  BY DEF Baseline
<1> HIDE DEF based
<1>2. Readings(based) /\ dayNow \in Nat /\ dayNow \notin DOMAIN based
  BY <1>1 DEF Readings
<1>3. LastOf(based) = kwh
  BY <1>1, <1>2, LastReading
<1>4. /\ WeekSum(based) = SumFunctionOnSet(f, S) /\ IsFiniteSet(S)
      /\ \A d \in S : f[d] = Delta(based, d) /\ f[d] \in Int
  BY <1>2, WeekSumFacts DEF Readings
<1>5. \A d \in S : d = dayNow - 1
  BY <1>1 DEF WeekDays
<1>6. Delta(based, dayNow - 1) = 0
  <2>1. ~\E e \in DOMAIN based : e < dayNow - 1
    BY <1>1
  <2> QED  BY <1>1, <1>2, <2>1, DeltaFact DEF Readings
<1> HIDE DEF S, f
<1>7. CASE S = {}
  BY <1>1, <1>2, <1>3, <1>4, <1>7, SumFacts DEF based
<1>8. CASE S # {}
  <2>1. S \ {dayNow - 1} = {} /\ dayNow - 1 \in S
    BY <1>5, <1>8
  <2>2. SumFunctionOnSet(f, S) = f[dayNow - 1] + SumFunctionOnSet(f, S \ {dayNow - 1})
    BY <1>4, <2>1, SumFacts
  <2>3. SumFunctionOnSet(f, {}) = 0
    BY FS_EmptySet, SumFacts
  <2>4. f[dayNow - 1] = 0
    BY <1>4, <1>6, <2>1
  <2>5. SumFunctionOnSet(f, S \ {dayNow - 1}) = 0
    BY <2>1, <2>3, Zenon
  <2>6. WeekSum(based) = 0
    BY <1>4, <2>2, <2>4, <2>5
  <2> QED  BY <1>1, <1>2, <1>3, <2>6 DEF based
<1> QED  BY <1>7, <1>8

LEMMA FeedInInitially == FeedInInit => FeedInInv
<1> SUFFICES ASSUME FeedInInit PROVE FeedInInv
  OBVIOUS
<1>1. /\ dayNow = 1 /\ counter = [kwh |-> 0, since |-> NoReading] /\ push = Nothing
      /\ snapshots = [d \in {} |-> 0] /\ fed = 0 /\ told = NoReading /\ before = NoReading
      /\ resets = 0
  BY DEF FeedInInit
<1>2. FeedInTypes
  BY <1>1 DEF FeedInTypes, Nothing, NoReading
<1>3. Trusted /\ PushTells /\ OneCard /\ BeforeTheWeek /\ WeekIsWhatWasFed
  BY <1>1 DEF Trusted, PushTells, OneCard, BeforeTheWeek, WeekIsWhatWasFed, Nothing
<1> QED  BY <1>2, <1>3 DEF FeedInInv

\* The week's sum rests while platform and readings do.
LEMMA WeekRests ==
    ASSUME FeedInInv, UNCHANGED <<dayNow, snapshots, told, before>>, resets = 0 \/ resets' # 0
    PROVE  WeekIsWhatWasFed' /\ BeforeTheWeek'
<1>1. WeekSum(snapshots)' = WeekSum(snapshots)
  BY DEF WeekSum, Delta
<1> QED  BY <1>1 DEF FeedInInv, WeekIsWhatWasFed, BeforeTheWeek

LEMMA FeedInCount == FeedInInv /\ Count => FeedInInv'
<1> SUFFICES ASSUME FeedInInv, Count PROVE FeedInInv'
  OBVIOUS
<1>1. /\ FeedInTypes /\ Trusted /\ PushTells /\ OneCard
      /\ UNCHANGED <<dayNow, push, snapshots, told, before, resets>>
  BY DEF FeedInInv, Count
<1>2. PICK slots \in Nat : /\ counter' = [kwh |-> counter.kwh + slots, since |-> 0]
                           /\ fed' = fed + slots
  <2>1. PICK w \in {0, 1} :
           LET slots == IF counter.since \in 1..COUNTER_GAP THEN w * counter.since ELSE 0
           IN  /\ counter' = [kwh |-> counter.kwh + slots, since |-> 0] /\ fed' = fed + slots
    BY DEF Count, currentEinspeisung
  <2> DEFINE slots == IF counter.since \in 1..COUNTER_GAP THEN w * counter.since ELSE 0
  <2>2. slots \in Nat
    <3>1. w = 0 \/ w = 1
      OBVIOUS
    <3> QED  BY <3>1 DEF COUNTER_GAP
  <2> HIDE DEF slots
  <2>3. counter' = [kwh |-> counter.kwh + slots, since |-> 0] /\ fed' = fed + slots
    BY <2>1 DEF slots
  <2> QED  BY <2>2, <2>3
<1>3. /\ counter \in [kwh : 0..fed, since : Int] /\ fed \in Nat /\ fed' \in Nat
      /\ counter.kwh \in Nat /\ counter.kwh <= fed
      /\ counter'.kwh = counter.kwh + slots /\ counter' \in [kwh : 0..fed', since : Int]
  BY <1>1, <1>2 DEF FeedInTypes
<1>4. FeedInTypes'
  <2>1. \A n \in 0..fed : n \in 0..fed'
    BY <1>2, <1>3
  <2> QED  BY <1>1, <1>3, <2>1 DEF FeedInTypes
<1>5. ASSUME told # NoReading
      PROVE  told \in Nat /\ LastOf(snapshots) \in Nat
  BY <1>1, <1>5, LastReading DEF FeedInTypes, Trusted
<1>6. Trusted'
  <2>1. ASSUME told # NoReading
        PROVE  told <= fed' /\ GoneOn(counter'.kwh, LastOf(snapshots), fed' - told)
    <3> DEFINE l == LastOf(snapshots)
    <3>1. told \in Nat /\ l \in Nat /\ told <= fed /\ GoneOn(counter.kwh, l, fed - told)
      BY <1>1, <1>5, <2>1 DEF Trusted
    <3> HIDE DEF l
    <3>2. told <= fed' /\ GoneOn(counter'.kwh, l, fed' - told)
      BY <1>2, <1>3, <3>1 DEF GoneOn
    <3> QED  BY <3>2 DEF l
  <2>2. LastOf(snapshots)' = LastOf(snapshots) /\ (Readings(snapshots)' <=> Readings(snapshots))
    BY <1>1 DEF LastOf, Readings
  <2>3. told # NoReading => GoneOn(counter.kwh, LastOf(snapshots), fed - told)'
    BY <1>1, <2>1, <2>2 DEF GoneOn
  <2> QED  BY <1>1, <2>1, <2>2, <2>3 DEF Trusted
<1>7. PushTells'
  <2>1. push.kind = "request" /\ push.kwh # NoReading => counter'.kwh - push.kwh = fed' - push.fed
    <3> SUFFICES ASSUME push.kind = "request", push.kwh # NoReading
                 PROVE  counter'.kwh - push.kwh = fed' - push.fed
      OBVIOUS
    <3>1. push.kwh \in Nat /\ push.fed \in Nat /\ counter.kwh - push.kwh = fed - push.fed
      BY <1>1, <1>3 DEF FeedInTypes, PushTells
    <3> QED  BY <1>2, <1>3, <3>1
  <2>2. LastOf(snapshots)' = LastOf(snapshots)
    BY <1>1 DEF LastOf
  <2> QED  BY <1>1, <2>1, <2>2 DEF PushTells, GoneOn
<1>8. OneCard'
  BY <1>1, <1>2, <1>3 DEF OneCard, LastOf
<1> QED  BY <1>1, <1>4, <1>6, <1>7, <1>8, WeekRests DEF FeedInInv

LEMMA FeedInNewCard == FeedInInv /\ NewCard => FeedInInv'
<1> SUFFICES ASSUME FeedInInv, NewCard PROVE FeedInInv'
  OBVIOUS
<1>1. /\ FeedInTypes /\ Trusted
      /\ UNCHANGED <<dayNow, snapshots, fed, told, before>>
      /\ resets' = resets + 1 /\ counter' = [kwh |-> 0, since |-> NoReading] /\ push' = Nothing
  BY DEF FeedInInv, NewCard
<1>2. FeedInTypes' /\ resets' # 0
  BY <1>1 DEF FeedInTypes, Nothing, NoReading
<1>3. Trusted'
  <2>1. LastOf(snapshots)' = LastOf(snapshots) /\ (Readings(snapshots)' <=> Readings(snapshots))
    BY <1>1 DEF LastOf, Readings
  <2>2. told # NoReading => 0 <= fed - told
    BY <1>1 DEF Trusted, FeedInTypes
  <2> QED  BY <1>1, <2>1, <2>2 DEF Trusted, GoneOn
<1>4. PushTells' /\ OneCard'
  BY <1>1, <1>2 DEF PushTells, OneCard, Nothing
<1> QED  BY <1>1, <1>2, <1>3, <1>4, WeekRests DEF FeedInInv

LEMMA FeedInSend == FeedInInv /\ Send => FeedInInv'
<1> SUFFICES ASSUME FeedInInv, Send PROVE FeedInInv'
  OBVIOUS
<1>1. /\ FeedInTypes /\ Trusted /\ OneCard
      /\ UNCHANGED <<dayNow, counter, snapshots, fed, told, before, resets>>
  BY DEF FeedInInv, Send
<1>2. PICK full \in BOOLEAN, kwh \in {NoReading, counter.kwh} :
         push' = [kind |-> "request", full |-> full, fed |-> fed, kwh |-> kwh]
  BY DEF Send
<1>3. fed \in 0..fed /\ kwh \in Nat \cup {NoReading} /\ fed \in Nat
      /\ counter.kwh \in Nat /\ counter.kwh <= fed
  BY <1>1 DEF FeedInTypes
<1>4. /\ push'.kind = "request" /\ push'.kwh = kwh /\ push'.fed = fed
      /\ push' \in [kind : {"request"}, full : BOOLEAN, fed : 0..fed, kwh : Nat \cup {NoReading}]
  BY <1>2, <1>3
<1>5. FeedInTypes'
  BY <1>1, <1>4 DEF FeedInTypes
<1>6. LastOf(snapshots)' = LastOf(snapshots) /\ (Readings(snapshots)' <=> Readings(snapshots))
  BY <1>1 DEF LastOf, Readings
<1>7. Trusted'
  BY <1>1, <1>6 DEF Trusted, GoneOn
<1>8. PushTells'
  <2>1. kwh # NoReading => kwh = counter.kwh /\ counter.kwh - kwh = fed - fed
    BY <1>3
  <2> QED  BY <1>1, <1>4, <1>6, <2>1 DEF PushTells, Trusted, GoneOn
<1>9. OneCard'
  BY <1>1, <1>2, <1>4, <1>6 DEF OneCard
<1> QED  BY <1>1, <1>5, <1>7, <1>8, <1>9, WeekRests DEF FeedInInv

\* Nothing is read: all rests but the push.
LEMMA FeedInUnread ==
    ASSUME FeedInInv, UNCHANGED <<dayNow, snapshots, fed, told, before, resets>>,
           counter'.kwh = counter.kwh, counter'.since \in Int,
           counter' = [kwh |-> counter'.kwh, since |-> counter'.since],
           push' = push \/ push'.kind \in {"none", "answer"}
    PROVE  FeedInInv'
<1>1. FeedInTypes /\ Trusted /\ PushTells /\ OneCard
  BY DEF FeedInInv
<1>2. counter' \in [kwh : 0..fed, since : Int]
  BY <1>1 DEF FeedInTypes
<1>3. FeedInTypes'
  BY <1>1, <1>2 DEF FeedInTypes
<1>4. LastOf(snapshots)' = LastOf(snapshots) /\ (Readings(snapshots)' <=> Readings(snapshots))
  BY DEF LastOf, Readings
<1>5. Trusted' /\ OneCard'
  BY <1>1, <1>4 DEF Trusted, OneCard, GoneOn
<1>6. PushTells'
  BY <1>1, <1>4 DEF PushTells, GoneOn
<1> QED  BY <1>3, <1>5, <1>6, WeekRests DEF FeedInInv

\* A reading on top of readings is the last one; none is greater than the last
\* where they only rise.
LEMMA ReadingsOnTop ==
    ASSUME dayNow \in Nat, NEW snaps, Readings(snaps), NEW kwh \in Nat
    PROVE  Readings(Recorded(snaps, kwh)) /\ LastOf(Recorded(snaps, kwh)) = kwh
<1> DEFINE after == Recorded(snaps, kwh)
<1>1. DOMAIN snaps # {}
  BY DEF Readings
<1>2. /\ DOMAIN after = DOMAIN snaps \cup {dayNow} /\ after[dayNow] = kwh
      /\ \A d \in DOMAIN snaps : d # dayNow => after[d] = snaps[d]
  BY <1>1, RecordedOnTop
<1> HIDE DEF after
<1>3. Readings(after) /\ dayNow \in DOMAIN after
  BY <1>2 DEF Readings
<1>4. LastOf(after) = kwh
  BY <1>2, <1>3, LastReading
<1> QED  BY <1>3, <1>4 DEF after

LEMMA RisingToTheLast ==
    ASSUME dayNow \in Nat, NEW snaps, Readings(snaps),
           \A d, e \in DOMAIN snaps : d < e => snaps[d] <= snaps[e]
    PROVE  \A d \in DOMAIN snaps : snaps[d] <= LastOf(snaps)
<1> DEFINE D == DOMAIN snaps
           m == Max(D)
<1>1. D \subseteq 0..dayNow /\ D # {} /\ \A d \in D : snaps[d] \in Nat
  BY DEF Readings
<1>2. m \in D /\ \A d \in D : d <= m
  BY <1>1, GreatestDay
<1> HIDE DEF m
<1>3. ASSUME NEW d \in D PROVE snaps[d] <= snaps[m]
  <2>1. d <= m /\ d \in 0..dayNow /\ m \in 0..dayNow
    BY <1>1, <1>2
  <2>2. CASE d = m
    <3>1. snaps[m] \in Nat /\ snaps[d] = snaps[m]
      BY <1>1, <1>2, <2>2
    <3> QED  BY <3>1
  <2>3. CASE d < m
    BY <1>2, <2>3
  <2> QED  BY <2>1, <2>2, <2>3
<1> QED  BY <1>3 DEF LastOf, m

\* A push that brings a reading.
LEMMA FeedInRead ==
    ASSUME FeedInInv, Process, push.full /\ push.kwh # NoReading
    PROVE  FeedInInv'
<1> DEFINE k == push.kwh
           after == Recorded(snapshots, k)
<1>1. /\ FeedInTypes /\ Trusted /\ PushTells /\ OneCard /\ BeforeTheWeek /\ WeekIsWhatWasFed
  BY DEF FeedInInv
<1>2. /\ push.kind = "request" /\ snapshots' = after /\ told' = push.fed
      /\ before' = IF dayNow < MONDAY THEN push.fed ELSE before
      /\ DOMAIN snapshots # {}
      /\ push'.kind = "answer"
      /\ UNCHANGED <<dayNow, counter, fed, resets>>
  BY DEF Process
<1>3. /\ dayNow \in Nat \ {0} /\ dayNow \in Nat /\ k \in Nat /\ push.fed \in 0..fed /\ fed \in Nat
      /\ push.fed \in Nat /\ push.fed # NoReading
      /\ resets \in Nat /\ counter.kwh \in Nat
  BY <1>1, <1>2 DEF FeedInTypes, NoReading
<1>4. counter.kwh - k = fed - push.fed
  BY <1>1, <1>2 DEF PushTells
<1>5. told # NoReading
  BY <1>1, <1>2 DEF Trusted
<1>6. /\ told \in Nat /\ before \in Nat /\ told <= push.fed /\ Readings(snapshots)
      /\ LastOf(snapshots) \in Nat
      /\ GoneOn(k, LastOf(snapshots), push.fed - told)
  <2>1. /\ told \in Nat /\ before \in Nat /\ told <= push.fed /\ Readings(snapshots)
        /\ GoneOn(k, LastOf(snapshots), push.fed - told)
    BY <1>1, <1>2, <1>5 DEF FeedInTypes, Trusted, PushTells
  <2> QED  BY <1>3, <2>1, LastReading
<1>7. Readings(after) /\ LastOf(after) = k
  BY <1>3, <1>6, ReadingsOnTop
<1>8. resets = 0 => /\ k = push.fed
                    /\ told # NoReading => LastOf(snapshots) = told
                    /\ \A d, e \in DOMAIN snapshots : d < e => snapshots[d] <= snapshots[e]
  BY <1>1, <1>2 DEF OneCard
<1>9. ASSUME resets = 0, NEW d \in DOMAIN after, NEW e \in DOMAIN after, d < e
      PROVE  after[d] <= after[e]
  <2>1. Readings(snapshots) /\ DOMAIN snapshots # {}
    BY <1>6 DEF Readings
  <2>2. /\ DOMAIN after = DOMAIN snapshots \cup {dayNow} /\ after[dayNow] = k
        /\ \A n \in DOMAIN snapshots : n # dayNow => after[n] = snapshots[n]
    BY <2>1 DEF Recorded
  <2>3. d \in 0..dayNow /\ e \in 0..dayNow
    BY <1>7 DEF Readings
  <2>4. d # dayNow /\ d \in DOMAIN snapshots /\ after[d] = snapshots[d] /\ snapshots[d] \in Nat
    BY <1>3, <1>9, <2>1, <2>2, <2>3 DEF Readings
  <2>5. CASE e = dayNow
    <3>1. snapshots[d] <= LastOf(snapshots)
      BY <1>3, <1>8, <1>9, <2>1, <2>4, RisingToTheLast
    <3>2. LastOf(snapshots) = told /\ told <= k /\ told \in Nat
      BY <1>6, <1>5, <1>8, <1>9
    <3> QED  BY <1>3, <2>2, <2>4, <2>5, <3>1, <3>2
  <2>6. CASE e # dayNow
    BY <1>8, <1>9, <2>2, <2>4, <2>6
  <2> QED  BY <2>5, <2>6
<1>10. dayNow >= MONDAY =>
          /\ WeekSum(after) <= push.fed - before'
          /\ resets = 0 => WeekSum(after) = push.fed - before'
  <2> SUFFICES ASSUME dayNow >= MONDAY
               PROVE  /\ WeekSum(after) <= push.fed - before'
                      /\ resets = 0 => WeekSum(after) = push.fed - before'
    OBVIOUS
  <2> DEFINE more == push.fed - told
             w == WeekSum(snapshots)
             v == WeekSum(after)
             l == LastOf(snapshots)
  <2>1. before' = before
    BY <1>2, <1>3, FeedInNumbers
  <2>2. more \in Nat /\ told \in Nat /\ before \in Nat /\ GoneOn(k, l, more) /\ Readings(snapshots)
    BY <1>3, <1>6
  <2>3. w <= told - before /\ (resets = 0 => w = told - before)
    BY <1>1, <1>5 DEF WeekIsWhatWasFed
  <2> HIDE DEF more, w, v, l, after, k
  <2>4. /\ v \in Int /\ w \in Int /\ v <= w + more
        /\ k - l = more /\ Previous(snapshots, dayNow) <= l => v = w + more
    BY <1>3, <2>2, WeekGrows DEF v, w, l, after
  <2>5. resets = 0 => k - l = more /\ Previous(snapshots, dayNow) <= l
    <3> SUFFICES ASSUME resets = 0 PROVE k - l = more /\ Previous(snapshots, dayNow) <= l
      OBVIOUS
    <3>1. k - l = more
      BY <1>5, <1>8 DEF l, more
    <3>2. PICK e \in DOMAIN snapshots : Previous(snapshots, dayNow) = snapshots[e]
      BY <1>3, <2>2, LastReading
    <3>3. snapshots[e] <= l
      BY <1>3, <1>8, <2>2, RisingToTheLast DEF l
    <3> QED  BY <3>1, <3>2, <3>3
  <2>6. v <= push.fed - before /\ (resets = 0 => v = push.fed - before)
    BY <1>3, <2>2, <2>3, <2>4, <2>5 DEF more
  <2> QED  BY <2>1, <2>6 DEF v
<1> HIDE DEF after, k
<1>11. FeedInTypes'
  <2>1. before' \in Nat \cup {NoReading}
    BY <1>1, <1>2, <1>3 DEF FeedInTypes
  <2> QED  BY <1>1, <1>2, <1>3, <2>1 DEF FeedInTypes
<1>12. LastOf(snapshots)' = k /\ Readings(snapshots)'
  BY <1>2, <1>7 DEF LastOf, Readings
<1>13. Trusted'
  <2>1. before' # NoReading
    BY <1>2, <1>3, <1>6 DEF NoReading
  <2> QED  BY <1>2, <1>3, <1>4, <1>12, <2>1 DEF Trusted, GoneOn
<1>14. PushTells' /\ BeforeTheWeek'
  BY <1>2 DEF PushTells, BeforeTheWeek
<1>15. OneCard'
  BY <1>1, <1>2, <1>8, <1>9, <1>12 DEF OneCard
<1>16. WeekIsWhatWasFed'
  <2>1. WeekSum(snapshots)' = WeekSum(after)
    BY <1>2 DEF WeekSum, Delta
  <2> QED  BY <1>2, <1>10, <2>1 DEF WeekIsWhatWasFed
<1> QED  BY <1>11, <1>13, <1>14, <1>15, <1>16 DEF FeedInInv

\* The very first reading, written for the day before.
LEMMA FeedInBaseline == FeedInInv /\ SetBaseline => FeedInInv'
<1> SUFFICES ASSUME FeedInInv, SetBaseline PROVE FeedInInv'
  OBVIOUS
<1> DEFINE k == push.kwh
           based == Baseline(k)
<1>1. /\ FeedInTypes /\ Trusted /\ PushTells /\ OneCard
      /\ push.kind = "request" /\ k # NoReading
      /\ snapshots' = based /\ told' = push.fed /\ before' = push.fed
      /\ UNCHANGED <<dayNow, counter, push, fed, resets>>
  BY DEF FeedInInv, SetBaseline
<1>2. /\ dayNow \in Nat \ {0} /\ k \in Nat /\ push.fed \in 0..fed /\ fed \in Nat
      /\ push.fed \in Nat /\ push.fed # NoReading /\ counter.kwh \in Nat
  BY <1>1 DEF FeedInTypes, NoReading
<1>3. counter.kwh - k = fed - push.fed
  BY <1>1 DEF PushTells
<1>4. /\ Readings(based) /\ LastOf(based) = k /\ WeekSum(based) = 0
      /\ \A d, e \in DOMAIN based : ~(d < e)
  <2>1. \A d \in DOMAIN based : d = dayNow - 1
    BY <1>2, FirstReading
  <2> HIDE DEF based
  <2>2. \A d, e \in DOMAIN based : ~(d < e)
    BY <1>2, <2>1
  <2> QED  BY <1>2, <2>2, FirstReading DEF based
<1> HIDE DEF based
<1>5. /\ LastOf(snapshots)' = k /\ Readings(snapshots)' /\ WeekSum(snapshots)' = 0
  <2>1. WeekSum(snapshots)' = WeekSum(based)
    BY <1>1 DEF WeekSum, Delta
  <2> QED  BY <1>1, <1>4, <2>1 DEF LastOf, Readings
<1> HIDE DEF k
<1>6. FeedInTypes'
  BY <1>1, <1>2 DEF FeedInTypes
<1>7. Trusted'
  BY <1>1, <1>2, <1>3, <1>5 DEF Trusted, GoneOn
<1>8. PushTells'
  BY <1>1, <1>2, <1>3, <1>5 DEF PushTells, GoneOn, k
<1>9. OneCard'
  BY <1>1, <1>4, <1>5 DEF OneCard, k
<1>10. BeforeTheWeek' /\ WeekIsWhatWasFed'
  BY <1>1, <1>2, <1>5 DEF BeforeTheWeek, WeekIsWhatWasFed
<1> QED  BY <1>6, <1>7, <1>8, <1>9, <1>10 DEF FeedInInv

LEMMA FeedInDate == FeedInInv /\ NextDate => FeedInInv'
<1> SUFFICES ASSUME FeedInInv, NextDate PROVE FeedInInv'
  OBVIOUS
<1>1. /\ FeedInTypes /\ Trusted /\ PushTells /\ OneCard /\ BeforeTheWeek /\ WeekIsWhatWasFed
      /\ UNCHANGED <<counter, push, snapshots, fed, told, before, resets>>
      /\ dayNow' = dayNow + 1 /\ dayNow \in Nat /\ dayNow' \in Nat \ {0} /\ dayNow' \in Nat
  BY DEF FeedInInv, NextDate, FeedInTypes
<1>2. FeedInTypes'
  BY <1>1 DEF FeedInTypes
<1>3. LastOf(snapshots)' = LastOf(snapshots) /\ (Readings(snapshots) => Readings(snapshots)')
  <2>1. \A d \in 0..dayNow : d \in 0..dayNow' /\ (d < dayNow => d < dayNow')
    BY <1>1
  <2> QED  BY <1>1, <2>1 DEF LastOf, Readings
<1>4. Trusted' /\ PushTells' /\ OneCard'
  BY <1>1, <1>3 DEF Trusted, PushTells, OneCard, GoneOn
<1>5. BeforeTheWeek'
  BY <1>1, FeedInNumbers DEF BeforeTheWeek
<1>6. WeekIsWhatWasFed'
  <2> SUFFICES ASSUME dayNow' >= MONDAY, told # NoReading
               PROVE  /\ WeekSum(snapshots)' <= told - before
                      /\ resets = 0 => WeekSum(snapshots)' = told - before
    BY <1>1 DEF WeekIsWhatWasFed
  <2>1. CASE dayNow >= MONDAY
    <3>1. WeekSum(snapshots)' = WeekSum(snapshots)
      BY <1>1, <2>1 DEF WeekSum, Delta
    <3> QED  BY <1>1, <2>1, <3>1 DEF WeekIsWhatWasFed
  <2>2. CASE ~(dayNow >= MONDAY)
    <3>1. before = told /\ told \in Nat
      BY <1>1, <2>2, FeedInNumbers DEF BeforeTheWeek, FeedInTypes
    <3>2. \A d \in DOMAIN snapshots : d <= dayNow /\ ~(d >= MONDAY) /\ d \in Int
      BY <1>1, <2>2, FeedInNumbers DEF Trusted, Readings
    <3> DEFINE S == {d \in DOMAIN snapshots : d >= (IF dayNow' >= MONDAY THEN MONDAY ELSE 0)}
               f == [d \in DOMAIN snapshots |-> Delta(snapshots, d)]
    <3>3. S = {}
      BY <3>2
    <3>4. WeekSum(snapshots)' = SumFunctionOnSet(f, S)
      BY <1>1 DEF WeekSum, Delta
    <3> HIDE DEF S, f
    <3>5. SumFunctionOnSet(f, S) = 0
      BY <3>3, FS_EmptySet, SumFacts
    <3> QED  BY <3>1, <3>4, <3>5
  <2> QED  BY <2>1, <2>2
<1> QED  BY <1>2, <1>4, <1>5, <1>6 DEF FeedInInv

\* The sum of the week never claims energy that was not fed, and it is exactly
\* what was fed as long as the item lives, for every week and energy, however
\* many pushes are lost and days missing (batteryGridFeedIn over the snapshots).
THEOREM WeekClaimsNothing == FeedInSpec => []WeekIsWhatWasFed
<1>1. FeedInInv /\ [FeedInNext]_feedInVars => FeedInInv'
  <2> SUFFICES ASSUME FeedInInv, [FeedInNext]_feedInVars PROVE FeedInInv'
    OBVIOUS
  <2>0. /\ counter = [kwh |-> counter.kwh, since |-> counter.since] /\ counter.since \in Int
    BY DEF FeedInInv, FeedInTypes
  <2>1. CASE Count
    BY <2>1, FeedInCount
  <2>2. CASE PassSlot
    <3>1. /\ UNCHANGED <<dayNow, push, snapshots, fed, told, before, resets>>
          /\ counter' = [counter EXCEPT !.since = @ + 1]
      BY <2>2 DEF PassSlot
    <3>2. /\ counter'.kwh = counter.kwh /\ counter'.since \in Int
          /\ counter' = [kwh |-> counter'.kwh, since |-> counter'.since]
      <4>1. counter' = [kwh |-> counter.kwh, since |-> counter.since + 1]
        BY <2>0, <3>1
      <4> QED  BY <2>0, <4>1
    <3> QED  BY <3>1, <3>2, FeedInUnread
  <2>3. CASE NewCard
    BY <2>3, FeedInNewCard
  <2>4. CASE Send
    BY <2>4, FeedInSend
  <2>5. CASE Process /\ push.full /\ push.kwh # NoReading
    BY <2>5, FeedInRead
  <2>6. CASE Process /\ ~(push.full /\ push.kwh # NoReading)
    <3>1. /\ UNCHANGED <<dayNow, counter, snapshots, fed, told, before, resets>>
          /\ push'.kind = "answer"
      BY <2>6 DEF Process
    <3> QED  BY <2>0, <3>1, FeedInUnread
  <2>7. CASE Show \/ Lose
    <3>1. /\ UNCHANGED <<dayNow, counter, snapshots, fed, told, before, resets>>
          /\ push'.kind = "none"
      BY <2>7 DEF Show, Lose, Nothing
    <3> QED  BY <2>0, <3>1, FeedInUnread
  <2>8. CASE NextDate
    BY <2>8, FeedInDate
  <2>9. CASE UNCHANGED feedInVars
    <3>1. /\ UNCHANGED <<dayNow, counter, snapshots, fed, told, before, resets>> /\ push' = push
      BY <2>9 DEF feedInVars
    <3> QED  BY <2>0, <3>1, FeedInUnread
  <2>10. CASE SetBaseline
    BY <2>10, FeedInBaseline
  <2> QED
    BY <2>1, <2>2, <2>3, <2>4, <2>5, <2>6, <2>7, <2>8, <2>9, <2>10 DEF FeedInNext
<1>2. FeedInInv => WeekIsWhatWasFed
  BY DEF FeedInInv
<1> QED  BY <1>1, <1>2, FeedInInitially, PTL DEF FeedInSpec

(***************************************************************************)
(* The set-up of a gateway: a site that is reported finished has no code,  *)
(* and a spent code is never redeemed.                                     *)
(***************************************************************************)
\* A code is there only as long as nothing was reported finished since it was
\* issued; the phase alone does not say so, a later run takes it back.
CodeInv ==
  /\ FinishedHasNoCode
  /\ spent => code = "none"

LEMMA InitCode == Init => CodeInv
BY DEF Init, NewSite, RunningSite, CodeInv, FinishedHasNoCode

\* Of all steps three touch the code, and the reports the phase.
LEMMA ReportKeepsCode ==
  ASSUME CodeInv, NEW d \in Devices, Report(d), UNCHANGED <<code, spent>>
  PROVE  CodeInv'
BY DEF Report, CodeInv, FinishedHasNoCode

LEMMA OperatorKeepsCode ==
  ASSUME CodeInv, Operator
  PROVE  CodeInv'
<1> USE DEF CodeInv, FinishedHasNoCode, siteVars, deviceVars
<1>1. CASE RenewCode
  BY <1>1 DEF RenewCode, RenewedPhase
<1>2. CASE CodeExpires
  BY <1>2 DEF CodeExpires
<1>3. CASE Publish
  BY <1>3 DEF Publish
<1>4. CASE \E d \in Devices, c \in {"current", "old"} : Flash(d, c)
  BY <1>4 DEF Flash
<1>5. QED
  BY <1>1, <1>2, <1>3, <1>4 DEF Operator

LEMMA StepKeepsCode ==
  ASSUME CodeInv, NEW d \in Devices, NEW k \in Units, Step(d, k)
  PROVE  CodeInv'
<1> USE DEF CodeInv, FinishedHasNoCode, siteVars
<1>1. CASE Load(d, k)
  BY <1>1 DEF Load
<1>2. CASE \E i \in Addresses : Provision(d, k, i)
  BY <1>2, ReportKeepsCode DEF Provision
<1>3. CASE \E ok \in Successes : Address(d, k, ok)
  BY <1>3, ReportKeepsCode DEF Address
<1>4. CASE \E ok \in Successes : Credentials(d, k, ok)
  BY <1>4, ReportKeepsCode DEF Credentials
<1>5. CASE \E ok \in BOOLEAN : Password(d, k, ok)
  BY <1>5, ReportKeepsCode DEF Password
<1>6. CASE Incomplete(d, k)
  BY <1>6, ReportKeepsCode DEF Incomplete
<1>7. CASE Finished(d, k)
  BY <1>7 DEF Finished, CodeAfterFertig
<1>8. CASE Exit(d, k)
  BY <1>8 DEF Exit
<1>9. QED
  BY <1>1, <1>2, <1>3, <1>4, <1>5, <1>6, <1>7, <1>8 DEF Step

LEMMA DeviceKeepsCode ==
  ASSUME CodeInv, NEW d \in Devices, Device(d)
  PROVE  CodeInv'
<1>1. CASE \E answered \in Successes : Exchange(d, answered)
  BY <1>1 DEF Exchange, Redeemable, CodeInv, FinishedHasNoCode
<1>2. CASE Repeats(d) \/ Updates(d)
  BY <1>2, ReportKeepsCode DEF Repeats, Updates, BeginRun
<1>3. CASE \E k \in Units : Step(d, k)
  BY <1>3, StepKeepsCode
<1>4. QED
  BY <1>1, <1>2, <1>3 DEF Device

LEMMA NextKeepsCode ==
  ASSUME CodeInv, [Next]_vars
  PROVE  CodeInv'
<1>1. CASE Operator
  BY <1>1, OperatorKeepsCode
<1>2. CASE \E d \in Devices, k \in Units : Skips(d, k) \/ Fails(d, k)
  BY <1>2, ReportKeepsCode DEF Skips, Fails
<1>3. CASE EnterPassword
  BY <1>3 DEF EnterPassword, CodeInv, FinishedHasNoCode
<1>4. CASE \E d \in Devices : Device(d)
  BY <1>4, DeviceKeepsCode
<1>5. CASE UNCHANGED siteVars
  BY <1>5 DEF siteVars, CodeInv, FinishedHasNoCode
<1>6. QED
  BY <1>1, <1>2, <1>3, <1>4, <1>5 DEF Next, Disturbs, vars

THEOREM CodeInvariant == Spec => []CodeInv
<1>1. QED
  BY InitCode, NextKeepsCode, PTL DEF Spec

\* A site that counts as installed has no code that could be redeemed, for
\* any number of devices: consumeProvisionCode, the result endpoint and
\* code_erneuern together.
THEOREM FinishedSiteHasNoCode == Spec => []FinishedHasNoCode
<1>1. CodeInv => FinishedHasNoCode
  BY DEF CodeInv
<1>2. QED
  BY <1>1, CodeInvariant, PTL

\* A code that a finished installation has spent is never redeemed again, not
\* even when a later update reports the phases of the set-up anew.
THEOREM SpentCodeIsDead == Spec => SpentCodeStaysDead
<1>1. CodeInv /\ [Next]_vars =>
        [\A d \in Devices : Exchange(d, TRUE) \/ Exchange(d, FALSE) => ~spent]_vars
  BY DEF CodeInv, Exchange, Redeemable
<1>2. QED
  BY <1>1, CodeInvariant, PTL DEF Spec, SpentCodeStaysDead

=============================================================================

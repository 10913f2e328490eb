------------------------- MODULE ControlCycleProofs -------------------------
(***************************************************************************)
(* Proofs about the control rule: ControlCycle for every slot length,      *)
(* every gap limit, every trigger and whether or not the device ends a     *)
(* command by itself, and Estimators for every battery, every powers and   *)
(* every gaps.                                                             *)
(*                                                                         *)
(* The guard is late by no cycle because its counter, kept in items, never *)
(* falls behind the exposure it counts; the estimators stay clean because  *)
(* what they remember (slot.frei, the running stretch) rules out the       *)
(* commands that would spoil the next reading.  What they learn is not too *)
(* high because the energy of a running stretch was given, or taken, by    *)
(* the battery since the charge the stretch began with; the same holds for *)
(* the load of a night, from both sides.  The peak is held by a counting   *)
(* argument (too few samples lie above it to reach the percentile), the    *)
(* sun profile by the hour that is summed up being later than all values.  *)
(***************************************************************************)
EXTENDS ControlCycle, Estimators, SetFacts

\* While cycles see grid charging and do not lock, the counter was written by
\* the last of them and counts at least as many.
GuardCounts ==
    exposed > 0 => countAge = 0 /\ count >= exposed

\* A slot that counts as free left no command behind that throttles charging.
FreeIsUnthrottled ==
    free => commands \cap {"lock", "limit"} = {}

\* A stretch of the house load that runs has met no discharge, nor will it
\* meet one before the next cycle.
StretchIsPure ==
    /\ ~mixed
    /\ loadAge # NoRun => "discharge" \notin commands

CycleInv ==
    /\ TypeOK
    /\ GuardEngages /\ GuardCounts
    /\ SamplesPure /\ FreeIsUnthrottled /\ StretchIsPure

-----------------------------------------------------------------------------
(***************************************************************************)
(* The ages kept with the items, and the counter.                          *)
(***************************************************************************)
LEMMA AgeType ==
    /\ 0 \in Ages /\ NoRun \in Ages
    /\ \A a \in Ages, gap \in GAPS : /\ Older(a, gap) \in Ages
                                     /\ Older(a, gap) = NoRun <=> a = NoRun
BY CycleAssumption DEF Ages, Older, NoRun, Old, SmallerOf

LEMMA StoodType ==
    ASSUME NEW c, NEW gap \in GAPS
    PROVE  /\ StoodFor(c, gap) \in Nat
           /\ c \notin commands => StoodFor(c, gap) = 0
BY CycleAssumption DEF StoodFor, SmallerOf

\* The counter stays in its range, and goes up by one where it was fresh.
LEMMA CountType ==
    ASSUME TypeOK, NEW gap \in GAPS, NEW reading
    PROVE  /\ CountAfter(reading, gap) \in 0..TRIGGER
           /\ reading = "charging" => CountAfter(reading, gap) >= 1
           /\ reading = "charging" /\ Fresh(countAge, gap) /\ count < TRIGGER
                => CountAfter(reading, gap) = count + 1
BY CycleAssumption DEF TypeOK, CountAfter, SmallerOf

\* What the first steps of a steering cycle do to what they write.
LEMMA GuardType ==
    ASSUME TypeOK, NEW gap \in GAPS, NEW reading, NEW armed \in BOOLEAN,
           Guard(reading, armed, gap)
    PROVE  count' \in 0..TRIGGER /\ countAge' \in Ages /\ exposed' \in 0..TRIGGER
<1>1. count' \in 0..TRIGGER
  BY CountType DEF Guard
<1>2. countAge' \in Ages
  BY AgeType DEF Guard, TypeOK
<1>3. exposed' \in 0..TRIGGER
  BY CycleAssumption DEF Guard, TypeOK, SmallerOf
<1> QED  BY <1>1, <1>2, <1>3

LEMMA SampleType ==
    ASSUME NEW gap \in GAPS, NEW isFree \in BOOLEAN,
           SampleChargeRate(isFree, gap)
    PROVE  /\ free' \in BOOLEAN /\ freeAge' \in Ages
           /\ sample' \in {"none", "clean", "throttled"}
BY AgeType DEF SampleChargeRate

\* The steering steps, and what they make of slot.frei and the sample: a
\* throttled sample would need a free slot before it.
LEMMA SteersEffect ==
    ASSUME CycleInv, NEW gap \in GAPS, NEW reading, NEW armed \in BOOLEAN,
           NEW plan, NEW window \in BOOLEAN,
           Steers(reading, armed, plan, window, gap)
    PROVE  /\ count' \in 0..TRIGGER /\ countAge' \in Ages /\ exposed' \in 0..TRIGGER
           /\ free' \in BOOLEAN /\ freeAge' \in Ages
           /\ sample' \in {"none", "clean"}
           /\ free' = SlotFree(Blocks(reading, armed, gap), plan, window)
           /\ gridSetting' = gridSetting
           /\ GuardEngages' /\ GuardCounts'
<1>1. Guard(reading, armed, gap) /\ gridSetting' = gridSetting
  BY DEF Steers
<1>2. /\ count' \in 0..TRIGGER /\ countAge' \in Ages /\ exposed' \in 0..TRIGGER
  BY <1>1, GuardType DEF CycleInv
<1>3. SlotFree(Blocks(reading, armed, gap), plan, window) \in BOOLEAN
  BY DEF SlotFree
<1>4. SampleChargeRate(SlotFree(Blocks(reading, armed, gap), plan, window), gap)
  BY DEF Steers
<1>5. free' \in BOOLEAN /\ freeAge' \in Ages
  BY <1>3, <1>4, SampleType
<1>6. /\ free' = SlotFree(Blocks(reading, armed, gap), plan, window)
      /\ sample' \in {"none", "clean"}
  BY <1>4 DEF SampleChargeRate, CycleInv, FreeIsUnthrottled
<1>7. GuardEngages' /\ GuardCounts'
  <2>1. CASE reading = "charging" /\ armed /\ ~Blocks(reading, armed, gap)
    <3> DEFINE e == IF gap <= MAX_GAP THEN exposed ELSE 0
               n == CountAfter(reading, gap)
    <3>1. exposed' = SmallerOf(e + 1, TRIGGER) /\ count' = n /\ countAge' = 0
      BY <1>1, <2>1 DEF Guard
    <3>2. n \in 1..TRIGGER /\ n # TRIGGER
      BY <2>1, CountType DEF Blocks, CycleInv
    <3>3. n >= e + 1
      <4>1. CASE gap <= MAX_GAP /\ exposed > 0
        <5>1. Fresh(countAge, gap) /\ count >= exposed
          BY <4>1, CycleAssumption DEF CycleInv, GuardCounts, Fresh, NoRun
        <5>2. n = SmallerOf(count + 1, TRIGGER)
          BY <2>1, <5>1 DEF CountAfter
        <5> QED  BY <4>1, <5>1, <5>2, <3>2, CycleAssumption DEF SmallerOf, CycleInv, TypeOK
      <4>2. CASE ~(gap <= MAX_GAP /\ exposed > 0)
        BY <4>2, <3>2, CycleAssumption DEF CycleInv, TypeOK
      <4> QED  BY <4>1, <4>2
    <3>4. e \in Nat
      BY DEF CycleInv, TypeOK
    <3> HIDE DEF e, n
    <3>5. exposed' = e + 1
      BY <3>1, <3>2, <3>3, <3>4, CycleAssumption DEF SmallerOf
    <3> QED  BY <3>1, <3>2, <3>3, <3>4, <3>5, CycleAssumption DEF GuardEngages, GuardCounts
  <2>2. CASE ~(reading = "charging" /\ armed /\ ~Blocks(reading, armed, gap))
    BY <1>1, <2>2, CycleAssumption DEF Guard, GuardEngages, GuardCounts
  <2> QED  BY <2>1, <2>2
<1> QED  BY <1>1, <1>2, <1>5, <1>6, <1>7

-----------------------------------------------------------------------------
(***************************************************************************)
(* The estimators.                                                         *)
(***************************************************************************)
LEMMA CapacityEffect ==
    ASSUME TypeOK, NEW gap \in GAPS,
           \/ CapacityIdle(gap)
           \/ \E ok \in BOOLEAN, soc \in {"fell", "rose", "sampled"} :
                  UpdateCapacity(ok, soc, gap)
    PROVE  /\ capAge' \in Ages /\ capPower' \in BOOLEAN
           /\ stood' \in 0..Old /\ overcredit' \in BOOLEAN
<1>1. CASE CapacityIdle(gap)
  <2>1. stood + StoodFor("discharge", gap) \in Nat
    BY StoodType DEF TypeOK, Old
  <2> QED  BY <1>1, <2>1, AgeType, CycleAssumption DEF CapacityIdle, TypeOK, SmallerOf, Old
<1>2. ASSUME NEW ok \in BOOLEAN, NEW soc \in {"fell", "rose", "sampled"},
             UpdateCapacity(ok, soc, gap)
      PROVE  /\ capAge' \in Ages /\ capPower' \in BOOLEAN
             /\ stood' \in 0..Old /\ overcredit' \in BOOLEAN
  <2>1. overcredit' \in BOOLEAN
    BY <1>2 DEF UpdateCapacity
  <2>2. capAge' = 0 /\ capPower' = ok /\ stood' = 0
    BY <1>2 DEF UpdateCapacity
  <2> QED  BY <2>1, <2>2, AgeType, CycleAssumption DEF Old
<1> QED  BY <1>1, <1>2

\* Neither a measurement nor a pause puts a discharge into the stretch, as
\* none stood while one was running.
LEMMA HouseLoadEffect ==
    ASSUME CycleInv, NEW gap \in GAPS, HouseLoad(gap)
    PROVE  loadAge' \in Ages /\ mixed' = FALSE /\ booked' \in {"none", "pure"}
<1>1. loadAge # NoRun => StoodFor("discharge", gap) = 0
  BY StoodType DEF CycleInv, StretchIsPure
<1> DEFINE dirty == mixed \/ StoodFor("discharge", gap) > 0
<1>2. loadAge # NoRun => dirty = FALSE
  BY <1>1 DEF CycleInv, StretchIsPure
<1>3. CASE LoadIdle(gap)
  <2>1. mixed' = (loadAge # NoRun /\ dirty)
    BY <1>3 DEF LoadIdle
  <2> QED  BY <1>2, <1>3, <2>1, AgeType DEF LoadIdle, CycleInv, TypeOK
<1>4. ASSUME NEW soc \in Soc, MeasureLoad(soc, gap)
      PROVE  loadAge' \in Ages /\ mixed' = FALSE /\ booked' \in {"none", "pure"}
  <2>1. CASE NewStretch
    BY <2>1, AgeType DEF NewStretch
  <2>2. CASE /\ loadAge # NoRun /\ loadAge' = 0 /\ mixed' = dirty
             /\ booked' = "none"
    BY <1>2, <2>2, AgeType
  <2>3. CASE /\ loadAge # NoRun /\ loadAge' = 0 /\ mixed' = FALSE
             /\ booked' = IF dirty THEN "mixed" ELSE "pure"
    BY <1>2, <2>3, AgeType
  <2> QED  BY <1>4, <2>1, <2>2, <2>3 DEF MeasureLoad, Fresh
<1> QED  BY <1>3, <1>4 DEF HouseLoad

-----------------------------------------------------------------------------
(***************************************************************************)
(* Every step.                                                             *)
(***************************************************************************)
LEMMA CycleInit == Init => CycleInv
<1> SUFFICES ASSUME Init PROVE CycleInv
  OBVIOUS
<1>1. 0 \in 0..TRIGGER /\ 0 \in 0..Old
  BY CycleAssumption DEF Old
<1>2. TypeOK
  BY <1>1, AgeType DEF Init, TypeOK
<1> QED  BY <1>2, CycleAssumption
         DEF Init, CycleInv, GuardEngages, GuardCounts, SamplesPure,
             SamplesUnthrottled, HouseLoadPure, FreeIsUnthrottled, StretchIsPure

\* A cycle that steers and does not command a discharge keeps the invariant:
\* what is left to say of it is that a free slot carries no lock and no limit.
LEMMA QuietStep ==
    ASSUME CycleInv, NEW gap \in GAPS, NEW reading, NEW armed \in BOOLEAN,
           NEW plan, NEW window \in BOOLEAN,
           Steers(reading, armed, plan, window, gap),
           \/ CapacityIdle(gap)
           \/ \E ok \in BOOLEAN, soc \in {"fell", "rose", "sampled"} :
                  UpdateCapacity(ok, soc, gap),
           HouseLoad(gap),
           path' \in {"guard", "regulation", "window", "house", "night", "outside"},
           commands' \subseteq {"lock", "limit"},
           free' => commands' = {}
    PROVE  CycleInv'
<1>1. TypeOK'
  <2>1. TypeOK
    BY DEF CycleInv
  <2>2. /\ count' \in 0..TRIGGER /\ countAge' \in Ages /\ exposed' \in 0..TRIGGER
        /\ free' \in BOOLEAN /\ freeAge' \in Ages
        /\ sample' \in {"none", "clean"} /\ gridSetting' = gridSetting
    BY SteersEffect
  <2>3. /\ capAge' \in Ages /\ capPower' \in BOOLEAN
        /\ stood' \in 0..Old /\ overcredit' \in BOOLEAN
    BY <2>1, CapacityEffect
  <2>4. loadAge' \in Ages /\ mixed' = FALSE /\ booked' \in {"none", "pure"}
    BY HouseLoadEffect
  <2> QED  BY <2>1, <2>2, <2>3, <2>4 DEF TypeOK
<1>2. GuardEngages' /\ GuardCounts'
  BY SteersEffect
<1>3. SamplesPure'
  BY SteersEffect, HouseLoadEffect
  DEF SamplesPure, SamplesUnthrottled, HouseLoadPure
<1>4. FreeIsUnthrottled' /\ StretchIsPure'
  BY HouseLoadEffect DEF FreeIsUnthrottled, StretchIsPure
<1> QED  BY <1>1, <1>2, <1>3, <1>4 DEF CycleInv

LEMMA CycleStep == CycleInv /\ [Next]_vars => CycleInv'
<1> SUFFICES ASSUME CycleInv, [Next]_vars PROVE CycleInv'
  OBVIOUS
<1>1. CASE UNCHANGED vars
  BY <1>1 DEF vars, guardVars, rateVars, capVars, loadVars, CycleInv, TypeOK,
              GuardEngages, GuardCounts, SamplesPure, SamplesUnthrottled,
              HouseLoadPure, FreeIsUnthrottled, StretchIsPure
<1>2. CASE MemberSetsDevice
  BY <1>2 DEF MemberSetsDevice, guardVars, rateVars, capVars, loadVars, CycleInv,
              TypeOK, GuardEngages, GuardCounts, SamplesPure, SamplesUnthrottled,
              HouseLoadPure, FreeIsUnthrottled, StretchIsPure
<1>3. ASSUME NEW gap \in GAPS, Cycle(gap)
      PROVE  CycleInv'
  <2>1. ASSUME NEW p \in {"off", "paused"}, Rests(gap, p)
        PROVE  CycleInv'
    <3>1. HouseLoad(gap)
      BY <2>1 DEF Rests, HouseLoad
    <3>2. TypeOK'
      <4>1. TypeOK
        BY DEF CycleInv
      <4>2. countAge' \in Ages /\ freeAge' \in Ages
        BY <2>1, <4>1, AgeType DEF Rests, TypeOK
      <4>3. /\ capAge' \in Ages /\ capPower' \in BOOLEAN
            /\ stood' \in 0..Old /\ overcredit' \in BOOLEAN
        BY <2>1, <4>1, CapacityEffect DEF Rests
      <4>4. loadAge' \in Ages /\ mixed' = FALSE /\ booked' \in {"none", "pure"}
        BY <3>1, HouseLoadEffect
      <4>5. exposed' = 0 /\ 0 \in 0..TRIGGER
        BY <2>1, CycleAssumption DEF Rests
      <4> QED  BY <2>1, <4>1, <4>2, <4>3, <4>4, <4>5 DEF Rests, TypeOK
    <3>3. GuardEngages' /\ GuardCounts'
      BY <2>1, CycleAssumption DEF Rests, GuardEngages, GuardCounts
    <3>4. SamplesPure' /\ FreeIsUnthrottled' /\ StretchIsPure'
      BY <2>1, <3>1, HouseLoadEffect
      DEF Rests, SamplesPure, SamplesUnthrottled, HouseLoadPure,
          FreeIsUnthrottled, StretchIsPure
    <3> QED  BY <3>2, <3>3, <3>4 DEF CycleInv
  <2>2. CASE GuardCycle(gap)
    <3> PICK reading \in Readings(gap) :
               /\ Blocks(reading, TRUE, gap)
               /\ Steers(reading, TRUE, "none", FALSE, gap)
               /\ path' = "guard" /\ commands' = {"lock"}
               /\ CapacityIdle(gap) /\ HouseLoad(gap)
      BY <2>2 DEF GuardCycle
    <3>1. ~free'
      BY SteersEffect DEF SlotFree
    <3> QED  BY <3>1, QuietStep
  <2>3. CASE RegulatedCycle(gap)
    <3> PICK reading \in Readings(gap), armed \in BOOLEAN,
             plan \in {"free", "lock", "limit", "crossover"} :
               /\ Steers(reading, armed, plan, FALSE, gap)
               /\ path' = "regulation"
               /\ commands' = CASE plan = "limit" -> {"limit"}
                                [] plan = "free"  -> {}
                                [] OTHER          -> {"lock"}
               /\ CapacityIdle(gap) /\ HouseLoad(gap)
      BY <2>3 DEF RegulatedCycle
    <3>1. free' => plan = "free"
      BY SteersEffect DEF SlotFree
    <3>2. commands' \subseteq {"lock", "limit"} /\ (free' => commands' = {})
      BY <3>1
    <3> QED  BY <3>2, QuietStep
  <2>4. CASE WindowCycle(gap)
    <3> PICK reading \in Readings(gap), armed \in BOOLEAN, clear \in BOOLEAN :
               /\ Steers(reading, armed, "none", TRUE, gap)
               /\ path' = "window"
               /\ commands' = IF clear THEN {"lock"} ELSE {}
               /\ CapacityIdle(gap) /\ HouseLoad(gap)
      BY <2>4 DEF WindowCycle
    <3>1. ~free'
      BY SteersEffect DEF SlotFree
    <3>2. commands' \subseteq {"lock", "limit"}
      OBVIOUS
    <3> QED  BY <3>1, <3>2, QuietStep
  <2>5. CASE DischargeCycle(gap)
    <3> PICK reading \in Readings(gap), armed \in BOOLEAN, ok \in BOOLEAN,
             soc \in {"fell", "rose", "sampled"} :
               /\ Steers(reading, armed, "none", FALSE, gap)
               /\ path' = "discharge" /\ commands' = {"discharge"}
               /\ UpdateCapacity(ok, soc, gap)
               /\ ClearLoad(gap)
      BY <2>5 DEF DischargeCycle
    <3>1. loadAge' = NoRun /\ mixed' = FALSE /\ booked' = "none"
      BY DEF ClearLoad
    <3>2. TypeOK'
      BY <3>1, AgeType, SteersEffect, CapacityEffect DEF TypeOK, CycleInv
    <3>3. GuardEngages' /\ GuardCounts'
      BY SteersEffect
    <3>4. SamplesPure' /\ FreeIsUnthrottled' /\ StretchIsPure'
      BY <3>1, SteersEffect DEF SamplesPure, SamplesUnthrottled, HouseLoadPure,
         FreeIsUnthrottled, StretchIsPure
    <3> QED  BY <3>2, <3>3, <3>4 DEF CycleInv
  <2>6. CASE HouseFirstCycle(gap)
    <3> PICK reading \in Readings(gap), armed \in BOOLEAN :
               /\ Steers(reading, armed, "none", FALSE, gap)
               /\ path' = "house" /\ commands' = {}
               /\ UpdateCapacity(FALSE, "fell", gap)
               /\ HouseLoad(gap)
      BY <2>6 DEF HouseFirstCycle
    <3> QED  BY QuietStep
  <2>7. CASE NightCycle(gap) \/ OutsideCycle(gap)
    <3> PICK reading \in Readings(gap), armed \in BOOLEAN :
               /\ Steers(reading, armed, "none", FALSE, gap)
               /\ path' \in {"night", "outside"} /\ commands' = {}
               /\ CapacityIdle(gap) /\ HouseLoad(gap)
      BY <2>7 DEF NightCycle, OutsideCycle
    <3> QED  BY QuietStep
  <2> QED  BY <1>3, <2>1, <2>2, <2>3, <2>4, <2>5, <2>6, <2>7 DEF Cycle
<1> QED  BY <1>1, <1>2, <1>3 DEF Next

LEMMA CycleAlways == Spec => []CycleInv
BY CycleInit, CycleStep, PTL DEF Spec

-----------------------------------------------------------------------------
\* All items of the control rule stay within their ranges: the counter of the
\* guard within its trigger, every age within the cap past which a run is
\* stale (core.js, readState and writeState of each estimator).
THEOREM TypeCorrect == Spec => []TypeOK
<1>1. CycleInv => TypeOK
  BY DEF CycleInv
<1> QED  BY <1>1, CycleAlways, PTL

\* Whatever the other cycles do, and however many saw the charging unarmed,
\* no TRIGGER cycles in a row see grid charging, armed, without locking
\* (core.js, Netzladeschutz).
THEOREM GuardLocksInTime == Spec => []GuardEngages
<1>1. CycleInv => GuardEngages
  BY DEF CycleInv
<1> QED  BY <1>1, CycleAlways, PTL

\* No estimator learns from a reading that one of the control's own commands
\* distorted (core.js, sampleChargeRate, sampleHouseLoad).
THEOREM LearnsUndistorted == Spec => []SamplesPure
<1>1. CycleInv => SamplesPure
  BY DEF CycleInv
<1> QED  BY <1>1, CycleAlways, PTL

-----------------------------------------------------------------------------
(***************************************************************************)
(* Estimators: rounded quotients and means.                                *)
(***************************************************************************)
LEMMA Quotient ==
    ASSUME NEW a \in Nat, NEW b \in Nat \ {0}
    PROVE  a \div b \in Nat /\ b * (a \div b) <= a /\ a < b * (a \div b) + b
OBVIOUS

LEMMA Rounded ==
    ASSUME NEW a \in Nat, NEW b \in Nat \ {0}
    PROVE  /\ RoundDiv(a, b) \in Nat
           /\ 2 * (b * RoundDiv(a, b)) <= 2 * a + b
           /\ 2 * a < 2 * (b * RoundDiv(a, b)) + b
<1> DEFINE q == (2 * a + b) \div (2 * b)
<1>1. 2 * a + b \in Nat /\ 2 * b \in Nat \ {0}
  OBVIOUS
<1>2. q \in Nat /\ (2 * b) * q <= 2 * a + b /\ 2 * a + b < (2 * b) * q + 2 * b
  BY <1>1, Quotient
<1>3. RoundDiv(a, b) = q
  BY DEF RoundDiv
<1> HIDE DEF q
<1>4. (2 * b) * q = 2 * (b * q) /\ b * q \in Nat
  BY <1>2
<1> QED
  BY <1>2, <1>3, <1>4

LEMMA Cancelled ==
    ASSUME NEW d \in Nat \ {0}, NEW x \in Int, NEW y \in Int, d * x <= d * y
    PROVE  x <= y
OBVIOUS

\* A rounded quotient lies where the quotient lies.
LEMMA RoundedBetween ==
    ASSUME NEW a \in Nat, NEW b \in Nat \ {0}, NEW low \in Nat, NEW high \in Nat,
           b * low <= a, a <= b * high
    PROVE  RoundDiv(a, b) \in Nat /\ low <= RoundDiv(a, b) /\ RoundDiv(a, b) <= high
<1> DEFINE r == RoundDiv(a, b)
<1>1. r \in Nat /\ 2 * (b * r) <= 2 * a + b /\ 2 * a < 2 * (b * r) + b
  BY Rounded
<1> HIDE DEF r
<1>2. b * (2 * r) <= b * (2 * high + 1) /\ b * (2 * low) <= b * (2 * r + 1)
  BY <1>1
<1>3. 2 * r <= 2 * high + 1 /\ 2 * low <= 2 * r + 1
  BY <1>1, <1>2, Cancelled
<1>4. r \in Nat /\ low <= r /\ r <= high
  BY <1>1, <1>3
<1> QED
  BY <1>4 DEF r

\* A rounded mean lies between what it is the mean of.
LEMMA MeanBetween ==
    ASSUME NEW x \in Nat, NEW y \in Nat, NEW p \in Nat, NEW q \in Nat, p + q > 0
    PROVE  LET mean == RoundDiv(p * x + q * y, p + q)
           IN  /\ mean \in Nat
               /\ mean <= x \/ mean <= y
               /\ x <= mean \/ y <= mean
<1> DEFINE all == p * x + q * y
           n   == p + q
<1>1. n \in Nat \ {0} /\ all \in Nat
  OBVIOUS
<1>2. CASE x <= y
  <2>1. p * x <= p * y /\ q * x <= q * y
    BY <1>2
  <2>2. n * x <= all /\ all <= n * y
    BY <2>1
  <2> HIDE DEF all, n
  <2>3. RoundDiv(all, n) \in Nat /\ x <= RoundDiv(all, n) /\ RoundDiv(all, n) <= y
    BY <1>1, <2>2, RoundedBetween
  <2> QED
    BY <2>3 DEF all, n
<1>3. CASE y <= x
  <2>1. p * y <= p * x /\ q * y <= q * x
    BY <1>3
  <2>2. n * y <= all /\ all <= n * x
    BY <2>1
  <2> HIDE DEF all, n
  <2>3. RoundDiv(all, n) \in Nat /\ y <= RoundDiv(all, n) /\ RoundDiv(all, n) <= x
    BY <1>1, <2>2, RoundedBetween
  <2> QED
    BY <2>3 DEF all, n
<1> QED
  BY <1>2, <1>3

LEMMA Blended ==
    ASSUME NEW e \in [value : Nat, count : Nat], NEW x \in Nat
    PROVE  LET new == Blend(e, x)
           IN  /\ new.value \in Nat /\ new.count \in Nat
               /\ new = [value |-> new.value, count |-> new.count]
               /\ new.value <= x \/ (e.count > 0 /\ new.value <= e.value)
               /\ x <= new.value \/ (e.count > 0 /\ e.value <= new.value)
<1> DEFINE mean == RoundDiv(7 * e.value + 3 * x, 10)
<1>1. e.value \in Nat /\ e.count \in Nat /\ e.count + 1 \in Nat
  OBVIOUS
<1>2. Blend(e, x) = [value |-> IF e.count > 0 THEN mean ELSE x, count |-> e.count + 1]
  BY DEF Blend
<1>3. 7 + 3 > 0 /\ 7 \in Nat /\ 3 \in Nat /\ 7 + 3 = 10
  OBVIOUS
<1>4. /\ mean \in Nat
      /\ mean <= e.value \/ mean <= x
      /\ e.value <= mean \/ x <= mean
  BY <1>1, <1>3, MeanBetween
<1> HIDE DEF mean
<1> DEFINE new == Blend(e, x)
<1>5. new = [value |-> IF e.count > 0 THEN mean ELSE x, count |-> e.count + 1]
  BY <1>2
<1> HIDE DEF new
<1>6. new.value = (IF e.count > 0 THEN mean ELSE x) /\ new.count = e.count + 1
  BY <1>5
<1>7. new = [value |-> new.value, count |-> new.count]
  BY <1>5, <1>6
<1>8. /\ new.value \in Nat /\ new.count \in Nat
      /\ new.value <= x \/ (e.count > 0 /\ new.value <= e.value)
      /\ x <= new.value \/ (e.count > 0 /\ e.value <= new.value)
  BY <1>1, <1>4, <1>6
<1> QED
  BY <1>7, <1>8 DEF new

\* What a shown charge says of the charge.
LEMMA ShownCharge ==
    ASSUME NEW c \in Nat
    PROVE  /\ Full \in Nat \ {0} /\ ShownSoc(c) \in Nat
           /\ Full * ShownSoc(c) <= 100 * c
           /\ 100 * c < Full * ShownSoc(c) + Full
<1>1. 100 * c \in Nat /\ Full \in Nat \ {0}
  BY EstimatorsAssumption DEF Full
<1>2. LET q == (100 * c) \div Full
      IN  q \in Nat /\ Full * q <= 100 * c /\ 100 * c < Full * q + Full
  BY <1>1, Quotient
<1> QED
  BY <1>1, <1>2 DEF ShownSoc

\* The charge between two that are shown some points apart.
LEMMA Apart ==
    ASSUME NEW high \in Nat, NEW low \in Nat,
           NEW points \in Nat, points = ShownSoc(high) - ShownSoc(low)
    PROVE  /\ Full \in Nat \ {0} /\ Full * points \in Nat
           /\ 100 * (high - low) < Full * points + Full
           /\ Full * points - Full < 100 * (high - low)
<1> DEFINE first == ShownSoc(high)
           last  == ShownSoc(low)
<1>1. /\ Full \in Nat \ {0} /\ first \in Nat /\ last \in Nat /\ points = first - last
      /\ Full * first <= 100 * high /\ 100 * high < Full * first + Full
      /\ Full * last <= 100 * low /\ 100 * low < Full * last + Full
  BY ShownCharge
<1> HIDE DEF first, last
<1>2. Full * points = Full * first - Full * last /\ Full * points \in Nat
  BY <1>1
<1> QED
  BY <1>1, <1>2

\* A sample of the capacity, from energy the battery has given.
LEMMA CapacitySampled ==
    ASSUME NEW start \in Nat, NEW end \in Nat, NEW energy \in Nat, energy <= start - end,
           NEW drop \in Nat, drop = ShownSoc(start) - ShownSoc(end), drop >= MIN_DROP
    PROVE  LET probe == RoundDiv(energy, 6 * drop)
           IN  probe \in Nat /\ 80 * probe <= 9 * CAPACITY_WH + 80
<1> DEFINE probe == RoundDiv(energy, 6 * drop)
           cap   == CAPACITY_WH
<1>1. cap \in Nat \ {0} /\ Full = 60 * cap /\ 6 * drop \in Nat \ {0} /\ drop >= 8
  BY EstimatorsAssumption DEF MIN_DROP, Full
<1>2. 100 * (start - end) < Full * drop + Full
  BY Apart
<1>3. probe \in Nat /\ 2 * ((6 * drop) * probe) <= 2 * energy + 6 * drop
  BY <1>1, Rounded
<1> HIDE DEF probe, cap
<1>4. 8 * Full <= Full * drop /\ Full * drop = 60 * (cap * drop)
  BY <1>1
<1>5. 800 * energy < 540 * (cap * drop)
  BY <1>1, <1>2, <1>4
<1>6. drop * (80 * probe) <= drop * (9 * cap + 80)
  BY <1>1, <1>3, <1>5
<1>7. 80 * probe <= 9 * cap + 80
  BY <1>1, <1>3, <1>6, Cancelled
<1> QED
  BY <1>3, <1>7 DEF probe, cap

\* A sample of the charging power, from a charge that took at most power for age minutes.
LEMMA RiseSampled ==
    ASSUME NEW start \in Nat, NEW end \in Nat, NEW power \in Nat, NEW age \in Nat \ {0},
           end - start <= power * age,
           NEW rise \in Nat, rise = ShownSoc(end) - ShownSoc(start), rise >= MIN_RISE
    PROVE  LET kw == RoundDiv(rise * CAPACITY_WH * 60, 1000 * age)
           IN  kw \in Nat /\ 8 * kw <= power + 8
<1> DEFINE energy == rise * CAPACITY_WH * 60
           kw     == RoundDiv(energy, 1000 * age)
           taken  == power * age
<1>1. Full \in Nat \ {0} /\ energy = Full * rise /\ rise >= 5
  BY EstimatorsAssumption DEF MIN_RISE, Full
<1>2. Full * rise - Full < 100 * (end - start)
  BY Apart
<1>3. kw \in Nat /\ 2 * ((1000 * age) * kw) <= 2 * energy + 1000 * age
  <2>1. energy \in Nat /\ 1000 * age \in Nat \ {0}
    BY <1>1
  <2> HIDE DEF energy
  <2> QED
    BY <2>1, Rounded
<1>4. 5 * Full <= Full * rise
  BY <1>1
<1>5. taken \in Nat /\ end - start <= taken
  OBVIOUS
<1> HIDE DEF energy, taken, kw
<1>6. 4 * energy <= 500 * taken
  BY <1>1, <1>2, <1>4, <1>5
<1>7. 8000 * (age * kw) <= 1000 * taken + 8000 * age
  BY <1>1, <1>3, <1>5, <1>6
<1>8. age * (8 * kw) <= age * (power + 8)
  BY <1>3, <1>5, <1>7 DEF taken
<1>9. 8 * kw <= power + 8
  BY <1>3, <1>8, Cancelled
<1> QED
  BY <1>3, <1>9 DEF kw, energy

-----------------------------------------------------------------------------
(***************************************************************************)
(* Estimators: what a running measurement knows of the battery.            *)
(***************************************************************************)
\* A measurement that the next cycle may continue.
Measuring == stretch # None /\ stretch.idle <= MAX_STEP_GAP

Fields == [soc : Int, age : Nat, idle : Nat, energy : Nat, w : Nat]

LearnedTypes ==
    /\ charge \in Nat /\ running \in Nat
    /\ stretch \in Fields
    /\ est \in [value : Nat, count : Nat]

\* The energy counted in a stretch was given by the battery since a charge that was
\* shown as its basis, and what was commanded last flows.
EnergyGiven ==
    Measuring =>
        /\ stretch.w <= running
        /\ \E start \in Nat : ShownSoc(start) = stretch.soc /\ stretch.energy <= start - charge

\* In the minutes of a stretch the charge rose by no more than the highest power.
PowerTaken ==
    /\ running <= Most(POWERS)
    /\ Measuring => \E start \in Nat :
           /\ ShownSoc(start) = stretch.soc
           /\ charge - start <= Most(POWERS) * (stretch.age + stretch.idle)

LEMMA MostPower == Most(POWERS) \in Nat /\ \A w \in POWERS : w \in Nat /\ w <= Most(POWERS)
<1>1. \A w \in POWERS : w \in Nat
  BY EstimatorsAssumption
<1>2. \E most \in POWERS : \A w \in POWERS : most >= w
  BY <1>1, EstimatorsAssumption
<1>3. Most(POWERS) \in POWERS /\ \A w \in POWERS : Most(POWERS) >= w
  BY <1>2 DEF Most
<1> QED
  BY <1>1, <1>3

\* A stretch that begins now.
LEMMA Begun ==
    ASSUME NEW soc \in Nat, NEW w \in Nat
    PROVE  /\ Start(soc, w) \in Fields /\ Start(soc, w) # None
           /\ Start(soc, w).soc = soc /\ Start(soc, w).w = w /\ Start(soc, w).energy = 0
           /\ Start(soc, w).age = 0 /\ Start(soc, w).idle = 0
<1> DEFINE none == None
           first == [none EXCEPT !.soc = soc]
           start == [first EXCEPT !.w = w]
<1>1. /\ none \in Fields /\ none.soc = -1
      /\ none.age = 0 /\ none.idle = 0 /\ none.energy = 0
  BY DEF None, Fields
<1> HIDE DEF none
<1>5. /\ first \in Fields /\ first.soc = soc
      /\ first.age = 0 /\ first.idle = 0 /\ first.energy = 0
  BY <1>1 DEF Fields
<1>4. Start(soc, w) = start
  BY DEF Start, none
<1> HIDE DEF first
<1>2. /\ start \in Fields /\ start.soc = soc /\ start.w = w
      /\ start.age = 0 /\ start.idle = 0 /\ start.energy = 0
  BY <1>5 DEF Fields
<1> HIDE DEF start
<1>3. start # none
  BY <1>1, <1>2
<1> QED
  BY <1>2, <1>3, <1>4 DEF none

\* A stretch of which too much time has passed.
LEMMA Ended ==
    ASSUME stretch \in Fields, stretch' = Idle(MAX_STEP_GAP + 1)
    PROVE  stretch' \in Fields /\ ~Measuring'
BY DEF Idle, Measuring, Smaller, None, Fields, MAX_STEP_GAP

\* The energy of a power over some minutes.
LEMMA Taken ==
    ASSUME NEW w \in Nat, NEW most \in Nat, w <= most, NEW gap \in Nat
    PROVE  w * gap \in Nat /\ most * gap \in Nat /\ w * gap <= most * gap
OBVIOUS

-----------------------------------------------------------------------------
\* A discharging cycle neither adds energy the battery did not give nor forgets a
\* command that flows.
LEMMA CapacityStep ==
    ASSUME LearnedTypes, EnergyGiven, topic = "capacity", CapacityNotOverrated, UNCHANGED topic,
           NEW w \in POWERS, NEW ok \in BOOLEAN, NEW gap \in STEP_GAPS, NEW extra \in EXTRA_WH,
           CapacityCycle(w, ok, gap, extra)
    PROVE  LearnedTypes' /\ EnergyGiven' /\ CapacityNotOverrated'
<1>10. PICK soc : soc = ShownSoc(charge')
  OBVIOUS
<1> DEFINE drawn == running * gap + 60 * extra
           energy == stretch.energy + stretch.w * gap
           drop   == stretch.soc - soc
<1>1. /\ w \in Nat /\ gap \in Nat /\ extra \in Nat /\ running \in Nat /\ charge \in Nat
      /\ stretch \in Fields /\ est \in [value : Nat, count : Nat]
  BY EstimatorsAssumption, MostPower DEF LearnedTypes
<1>2. drawn \in Nat /\ running * gap \in Nat
  <2>1. running * gap \in Nat
    BY <1>1, Taken
  <2> QED  BY <1>1, <2>1
<1>3. /\ charge' = charge - drawn /\ charge' \in Nat
      /\ running' \in IF ok THEN {w} ELSE {0, w}
      /\ stretch' = CapacityAfter(soc, w, ok, gap).stretch
      /\ est' = CapacityAfter(soc, w, ok, gap).est
  <2>1. charge' = charge - drawn /\ drawn <= charge
    BY DEF CapacityCycle
  <2>2. stretch' = CapacityAfter(ShownSoc(charge - drawn), w, ok, gap).stretch
        /\ est' = CapacityAfter(ShownSoc(charge - drawn), w, ok, gap).est
    BY DEF CapacityCycle
  <2>3. running' \in IF ok THEN {w} ELSE {0, w}
    BY DEF CapacityCycle
  <2> HIDE DEF drawn
  <2> QED  BY <1>1, <1>2, <1>10, <2>1, <2>2, <2>3
<1>11. charge' \in Nat
  BY <1>3
<1>4. soc \in Nat
  BY <1>10, <1>11, ShownCharge
<1>9. /\ ~ok \/ ~Continues(gap) \/ drop < 0 => stretch' = Restarted(soc, w, ok) /\ est' = est
      /\ ok /\ Continues(gap) /\ drop \in 0..(MIN_DROP - 1) =>
             stretch' = [stretch EXCEPT !.energy = energy, !.w = w] /\ est' = est
      /\ ok /\ Continues(gap) /\ drop >= MIN_DROP =>
             stretch' = Start(soc, w) /\ est' = CapacitySample(est, energy, drop)
  <2> DEFINE next      == CapacityAfter(soc, w, ok, gap)
             goesOn    == Continues(gap)
             more      == [stretch EXCEPT !.energy = energy, !.w = w]
             sampled   == CapacitySample(est, energy, drop)
             begun     == Start(soc, w)
             restarted == Restarted(soc, w, ok)
  <2>1. stretch' = next.stretch /\ est' = next.est
    BY <1>3
  <2>2. next = CASE ~ok \/ ~goesOn \/ drop < 0 -> [stretch |-> restarted, est |-> est]
                 [] ok /\ goesOn /\ drop \in 0..(MIN_DROP - 1) -> [stretch |-> more, est |-> est]
                 [] ok /\ goesOn /\ drop >= MIN_DROP -> [stretch |-> begun, est |-> sampled]
    BY DEF CapacityAfter
  <2>3. drop \in Int
    BY <1>1, <1>4 DEF Fields
  <2> HIDE DEF energy, drop, next, goesOn, more, sampled, begun, restarted
  <2>4. ~ok \/ ~goesOn \/ drop < 0 => next = [stretch |-> restarted, est |-> est]
    BY <2>2, <2>3 DEF MIN_DROP
  <2>5. ok /\ goesOn /\ drop \in 0..(MIN_DROP - 1) => next = [stretch |-> more, est |-> est]
    BY <2>2, <2>3 DEF MIN_DROP
  <2>6. ok /\ goesOn /\ drop >= MIN_DROP => next = [stretch |-> begun, est |-> sampled]
    BY <2>2, <2>3 DEF MIN_DROP
  <2> QED
    BY <2>1, <2>4, <2>5, <2>6 DEF goesOn, more, sampled, begun, restarted
<1>5. running' \in Nat /\ (ok => running' = w)
  BY <1>1, <1>3
<1> HIDE DEF energy, drop
\* A stretch that begins with this charge and this command.
<1>6. ASSUME NEW v \in Nat, v <= running', stretch' = Start(soc, v) PROVE stretch' \in Fields /\ EnergyGiven'
  <2>1. /\ stretch' \in Fields /\ stretch'.soc = soc /\ stretch'.w = v /\ stretch'.energy = 0
    BY <1>4, <1>6, Begun
  <2>2. ShownSoc(charge') = stretch'.soc /\ stretch'.energy <= charge' - charge'
    BY <1>3, <1>10, <2>1
  <2> QED
    BY <1>3, <1>6, <2>1, <2>2 DEF EnergyGiven
<1>7. CASE ~ok \/ ~Continues(gap) \/ drop < 0
  <2>1. stretch' = Restarted(soc, w, ok) /\ est' = est
    BY <1>7, <1>9
  <2>2. PICK v \in Nat : v <= running' /\ stretch' = Start(soc, v)
    BY <1>1, <1>5, <2>1 DEF Restarted
  <2> QED
    BY <1>1, <1>3, <1>5, <1>6, <2>1, <2>2 DEF LearnedTypes, CapacityNotOverrated
<1>8. CASE ok /\ Continues(gap) /\ drop >= 0
  <2>8. Measuring
    BY <1>1, <1>8 DEF Measuring, Continues, Fields, MAX_STEP_GAP
  <2>1. PICK start \in Nat : ShownSoc(start) = stretch.soc /\ stretch.energy <= start - charge
    BY <2>8 DEF EnergyGiven
  <2>2. stretch.w <= running /\ stretch.w \in Nat /\ stretch.energy \in Nat
    BY <1>1, <2>8 DEF EnergyGiven, Fields
  <2>3. stretch.w * gap \in Nat /\ stretch.w * gap <= running * gap
    BY <1>1, <2>2, Taken
  <2>4. energy \in Nat /\ energy <= start - charge'
    BY <1>1, <1>2, <1>3, <2>1, <2>2, <2>3 DEF energy
  <2>5. drop \in Nat /\ drop = ShownSoc(start) - ShownSoc(charge')
    BY <1>1, <1>4, <1>8, <1>10, <2>1 DEF drop, Fields
  <2>6. CASE drop < MIN_DROP
    <3>1. drop \in 0..(MIN_DROP - 1)
      BY <2>5, <2>6 DEF MIN_DROP
    <3>2. stretch' = [stretch EXCEPT !.energy = energy, !.w = w] /\ est' = est
      BY <1>8, <1>9, <3>1
    <3>3. /\ stretch' \in Fields /\ stretch'.w = w /\ stretch'.energy = energy /\ stretch'.soc = stretch.soc
      BY <1>1, <2>4, <3>2 DEF Fields
    <3> QED
      <4>1. LearnedTypes' /\ CapacityNotOverrated'
        BY <1>1, <1>3, <1>5, <3>2, <3>3 DEF LearnedTypes, CapacityNotOverrated
      <4>2. stretch'.w <= running' /\ ShownSoc(start) = stretch'.soc /\ stretch'.energy <= start - charge'
        BY <1>1, <1>5, <1>8, <2>1, <2>4, <3>3
      <4> QED
        BY <4>1, <4>2 DEF EnergyGiven
  <2>7. CASE drop >= MIN_DROP
    <3> DEFINE probe == RoundDiv(energy, 6 * drop)
    <3>1. stretch' = Start(soc, w) /\ est' = CapacitySample(est, energy, drop)
      BY <1>8, <1>9, <2>7
    <3>2. probe \in Nat /\ 80 * probe <= 9 * CAPACITY_WH + 80
      BY <1>3, <2>1, <2>4, <2>5, <2>7, CapacitySampled
    <3>3. est' = est \/ est' = Blend(est, probe)
      <4>1. CapacitySample(est, energy, drop) = IF probe \in 100..10000 THEN Blend(est, probe) ELSE est
        BY DEF CapacitySample
      <4> HIDE DEF probe
      <4> QED  BY <3>1, <4>1
    <3> HIDE DEF probe
    <3>4. est' \in [value : Nat, count : Nat]
          /\ (est'.count > 0 => 80 * est'.value <= 9 * CAPACITY_WH + 80)
      <4>1. est.count > 0 => 80 * est.value <= 9 * CAPACITY_WH + 80
        BY DEF CapacityNotOverrated
      <4>2. CASE est' = est
        BY <1>1, <4>1, <4>2
      <4>3. CASE est' = Blend(est, probe)
        <5>1. /\ est'.value \in Nat /\ est'.count \in Nat /\ est' = [value |-> est'.value, count |-> est'.count]
              /\ est'.value <= probe \/ (est.count > 0 /\ est'.value <= est.value)
          BY <1>1, <3>2, <4>3, Blended
        <5>2. 9 * CAPACITY_WH + 80 \in Nat
          BY EstimatorsAssumption
        <5> QED  BY <1>1, <3>2, <4>1, <5>1, <5>2
      <4> QED  BY <3>3, <4>2, <4>3
    <3> QED
      <4>1. stretch' \in Fields /\ EnergyGiven'
        BY <1>1, <1>5, <1>6, <1>8, <3>1
      <4> QED
        BY <1>3, <1>5, <3>4, <4>1 DEF LearnedTypes, CapacityNotOverrated
  <2> QED
    BY <2>5, <2>6, <2>7 DEF MIN_DROP
<1> QED
  BY <1>1, <1>4, <1>7, <1>8 DEF drop, Fields

\* A charging cycle stretches the time of a measurement at least as far as the charge.
LEMMA RiseStep ==
    ASSUME LearnedTypes, PowerTaken, topic = "rise", RiseNotOverrated, UNCHANGED topic,
           NEW w \in POWERS, NEW gap \in STEP_GAPS, NEW measures \in BOOLEAN,
           RiseCycle(w, gap, measures)
    PROVE  LearnedTypes' /\ PowerTaken' /\ RiseNotOverrated'
<1> DEFINE most  == Most(POWERS)
           more  == running * gap
           spent == stretch.age + stretch.idle
           age   == Elapsed(gap)
<1>1. /\ w \in Nat /\ w <= most /\ most \in Nat /\ gap \in Nat
      /\ running \in Nat /\ running <= most /\ charge \in Nat
      /\ stretch \in Fields /\ est \in [value : Nat, count : Nat]
  BY EstimatorsAssumption, MostPower DEF LearnedTypes, PowerTaken
<1>2. spent \in Nat /\ age \in Nat /\ age = spent + gap
  BY <1>1 DEF Elapsed, Fields
<1> HIDE DEF most
<1>3. more \in Nat /\ more <= most * gap
  BY <1>1, Taken
<1> HIDE DEF more, spent, age
<1>4. charge' = charge + more /\ charge' \in Nat /\ running' = w
  <2>1. charge' = charge + more /\ running' = w
    BY DEF RiseCycle, more
  <2> QED  BY <1>1, <1>3, <2>1
<1>5. PICK soc : soc = ShownSoc(charge')
  OBVIOUS
<1>6. soc \in Nat
  <2>1. charge' \in Nat
    BY <1>4
  <2> QED  BY <1>5, <2>1, ShownCharge
\* The stretch so far and this cycle, together.
<1>7. ASSUME Measuring
      PROVE  \E start \in Nat : /\ ShownSoc(start) = stretch.soc
                                /\ charge' - start <= most * age
  <2>1. PICK start \in Nat : ShownSoc(start) = stretch.soc /\ charge - start <= most * spent
    BY <1>7 DEF PowerTaken, most, spent
  <2>2. most * age = most * spent + most * gap
    BY <1>1, <1>2
  <2>3. most * spent \in Nat /\ most * gap \in Nat
    BY <1>1, <1>2
  <2>4. charge' - start <= most * age
    BY <1>1, <1>3, <1>4, <2>1, <2>2, <2>3
  <2> QED  BY <2>1, <2>4
\* A stretch that begins with this charge.
<1>8. ASSUME stretch' = Start(soc, 0) PROVE stretch' \in Fields /\ PowerTaken'
  <2>1. /\ stretch' \in Fields /\ stretch'.soc = soc /\ stretch'.age = 0 /\ stretch'.idle = 0
    BY <1>6, <1>8, Begun
  <2>2. ShownSoc(charge') = stretch'.soc
        /\ charge' - charge' <= most * (stretch'.age + stretch'.idle)
    BY <1>1, <1>4, <1>5, <2>1
  <2> QED
    BY <1>1, <1>4, <2>1, <2>2 DEF PowerTaken, most
<1>9. CASE ~measures
  <2>1. stretch' = Idle(gap) /\ est' = est
    BY <1>9 DEF RiseCycle
  <2>2. CASE stretch = None
    <3>1. stretch' = None
      BY <2>1, <2>2 DEF Idle
    <3> QED
      BY <1>1, <1>4, <2>1, <2>2, <3>1 DEF LearnedTypes, PowerTaken, RiseNotOverrated, Measuring, most
  <2>3. CASE stretch # None
    <3> DEFINE idle == Smaller(MAX_STEP_GAP + 1, stretch.idle + gap)
    <3>1. stretch' = [stretch EXCEPT !.idle = idle]
      BY <2>1, <2>3 DEF Idle
    <3>2. /\ idle \in Nat
          /\ idle <= MAX_STEP_GAP => idle = stretch.idle + gap /\ stretch.idle <= MAX_STEP_GAP
      BY <1>1 DEF Smaller, MAX_STEP_GAP, Fields
    <3> HIDE DEF idle
    <3>3. /\ stretch' \in Fields /\ stretch'.idle = idle
          /\ stretch'.age = stretch.age /\ stretch'.soc = stretch.soc
      BY <1>1, <3>1, <3>2 DEF Fields
    <3>4. ASSUME Measuring'
          PROVE  \E start \in Nat :
                     /\ ShownSoc(start) = stretch'.soc
                     /\ charge' - start <= most * (stretch'.age + stretch'.idle)
      <4>1. Measuring /\ idle = stretch.idle + gap
        BY <2>3, <3>2, <3>3, <3>4 DEF Measuring
      <4>2. age = stretch'.age + stretch'.idle
        BY <1>1, <1>2, <3>3, <4>1 DEF spent, Fields
      <4> QED  BY <1>7, <3>3, <4>1, <4>2
    <3> QED
      BY <1>1, <1>4, <2>1, <3>3, <3>4 DEF LearnedTypes, PowerTaken, RiseNotOverrated, most
  <2> QED  BY <2>2, <2>3
<1>10. CASE measures
  <2> DEFINE rise    == soc - stretch.soc
             kw      == RoundDiv(rise * CAPACITY_WH * 60, 1000 * age)
             next    == RiseAfter(soc, gap)
             goesOn  == Continues(gap)
             longer  == [stretch EXCEPT !.age = age, !.idle = 0]
             begun   == Start(soc, 0)
             learned == IF kw \in 30..3000 THEN Weighted(est, kw, age) ELSE est
  <2>1. stretch' = next.stretch /\ est' = next.est
    <3>1. /\ stretch' = RiseAfter(ShownSoc(charge + more), gap).stretch
          /\ est' = RiseAfter(ShownSoc(charge + more), gap).est
      BY <1>10 DEF RiseCycle, more
    <3> QED  BY <1>4, <1>5, <3>1
  <2>2. next = CASE ~goesOn \/ rise < 0 -> [stretch |-> begun, est |-> est]
                 [] goesOn /\ rise \in 0..(MIN_RISE - 1) -> [stretch |-> longer, est |-> est]
                 [] goesOn /\ rise >= MIN_RISE -> [stretch |-> begun, est |-> learned]
    BY DEF RiseAfter, age
  <2>3. rise \in Int
    BY <1>1, <1>6 DEF Fields
  <2> HIDE DEF next, goesOn, longer, begun, learned, rise
  <2>4. ~goesOn \/ rise < 0 => next = [stretch |-> begun, est |-> est]
    BY <2>2, <2>3 DEF MIN_RISE
  <2>5. goesOn /\ rise \in 0..(MIN_RISE - 1) => next = [stretch |-> longer, est |-> est]
    BY <2>2, <2>3 DEF MIN_RISE
  <2>6. goesOn /\ rise >= MIN_RISE => next = [stretch |-> begun, est |-> learned]
    BY <2>2, <2>3 DEF MIN_RISE
  <2>7. CASE ~goesOn \/ rise < 0
    <3>1. stretch' = Start(soc, 0) /\ est' = est
      BY <2>1, <2>4, <2>7 DEF begun
    <3> QED
      BY <1>1, <1>4, <1>8, <3>1 DEF LearnedTypes, RiseNotOverrated
  <2>8. ASSUME goesOn, rise >= 0 PROVE Measuring /\ age \in Nat \ {0}
    <3>1. 0 < gap /\ stretch # None /\ stretch.idle + gap <= MAX_STEP_GAP
      BY <2>8 DEF goesOn, Continues
    <3> QED
      BY <1>1, <1>2, <3>1 DEF Measuring, Fields, MAX_STEP_GAP
  <2>9. CASE goesOn /\ rise \in 0..(MIN_RISE - 1)
    <3>1. stretch' = [stretch EXCEPT !.age = age, !.idle = 0] /\ est' = est
      BY <2>1, <2>5, <2>9 DEF longer
    <3>2. stretch' \in Fields /\ stretch'.age = age /\ stretch'.idle = 0 /\ stretch'.soc = stretch.soc
      BY <1>1, <1>2, <3>1 DEF Fields
    <3>3. age = stretch'.age + stretch'.idle
      BY <1>2, <3>2
    <3> QED
      BY <1>1, <1>4, <1>7, <2>8, <2>9, <3>1, <3>2, <3>3 DEF LearnedTypes, PowerTaken, RiseNotOverrated, most
  <2>10. CASE goesOn /\ rise >= MIN_RISE
    <3>1. stretch' = Start(soc, 0) /\ est' = learned
      BY <2>1, <2>6, <2>10 DEF begun
    <3>2. PICK start \in Nat : ShownSoc(start) = stretch.soc /\ charge' - start <= most * age
      BY <1>7, <2>3, <2>8, <2>10 DEF MIN_RISE
    <3>3. age \in Nat \ {0}
      BY <2>3, <2>8, <2>10 DEF MIN_RISE
    <3>4. PICK end \in Nat : end = charge'
      BY <1>4
    <3>5. rise \in Nat /\ rise = ShownSoc(end) - ShownSoc(start)
      BY <1>1, <1>5, <1>6, <2>3, <2>10, <3>2, <3>4 DEF MIN_RISE, rise
    <3>6. kw \in Nat /\ 8 * kw <= most + 8
      <4>1. most \in Nat /\ rise >= MIN_RISE /\ end - start <= most * age
        BY <1>1, <2>10, <3>2, <3>4
      <4> QED  BY <3>3, <3>5, <4>1, RiseSampled
    <3> HIDE DEF kw
    <3>7. est' = est \/ est' = Weighted(est, kw, age)
      BY <3>1 DEF learned
    <3>8. est.count > 0 => 8 * est.value <= most + 8
      BY DEF RiseNotOverrated, most
    <3>9. est' \in [value : Nat, count : Nat] /\ (est'.count > 0 => 8 * est'.value <= most + 8)
      <4> DEFINE n    == Smaller(age, 120)
                 rest == 200 - n
                 old  == est.value
                 mean == RoundDiv(rest * old + n * kw, 200)
      <4>1. CASE est' = est
        BY <1>1, <3>8, <4>1
      <4>2. CASE est' = Weighted(est, kw, age) /\ est.count = 0
        BY <1>1, <3>6, <4>2 DEF Weighted
      <4>3. CASE est' = Weighted(est, kw, age) /\ est.count > 0
        <5>1. est' = [value |-> mean, count |-> est.count + 1]
          BY <4>3 DEF Weighted
        <5>2. n \in Nat /\ rest \in Nat /\ rest + n = 200 /\ old \in Nat
          BY <1>1, <3>3 DEF Smaller
        <5> HIDE DEF n, rest, old
        <5>3. n \in Nat /\ rest \in Nat /\ rest + n > 0 /\ old \in Nat
          BY <5>2
        <5>4. LET m == RoundDiv(rest * old + n * kw, rest + n)
              IN  m \in Nat /\ (m <= old \/ m <= kw)
          BY <3>6, <5>3, MeanBetween
        <5>5. mean \in Nat /\ (mean <= old \/ mean <= kw)
          BY <5>2, <5>4
        <5> HIDE DEF mean
        <5> QED  BY <1>1, <3>6, <3>8, <4>3, <5>1, <5>3, <5>5 DEF old
      <4> QED  BY <1>1, <3>7, <4>1, <4>2, <4>3
    <3> QED
      <4>1. stretch' \in Fields /\ PowerTaken'
        BY <1>8, <3>1
      <4>2. running' \in Nat
        BY <1>1, <1>4
      <4> QED
        BY <1>4, <3>9, <4>1, <4>2 DEF LearnedTypes, RiseNotOverrated, most
  <2> QED
    BY <2>3, <2>7, <2>9, <2>10 DEF MIN_RISE
<1> QED
  BY <1>9, <1>10

-----------------------------------------------------------------------------
(***************************************************************************)
(* Estimators: the load of the house.                                      *)
(***************************************************************************)
\* What the house draws of the battery when no command runs.
House == POWERS \ {0}

LoadTypes == LearnedTypes /\ night \in [energy : Nat, minutes : Nat]

\* In the minutes of a stretch the charge fell by what the house drew, and only the
\* house draws.
HouseDraws ==
    Measuring =>
        /\ running \in House
        /\ \E start \in Nat :
               /\ ShownSoc(start) = stretch.soc
               /\ Least(House) * (stretch.age + stretch.idle) <= start - charge
               /\ start - charge <= Most(POWERS) * (stretch.age + stretch.idle)

\* The energy of a night's stretches, up to what the shown charge hides.
NightMeasured ==
    /\ 2 * night.energy <= 5 * (Most(POWERS) * night.minutes)
    /\ House # {} => 5 * (Least(House) * night.minutes) <= 4 * night.energy

LEMMA LeastPower ==
    ASSUME House # {}
    PROVE  /\ Least(House) \in Nat
           /\ \A w \in House : w \in Nat /\ Least(House) <= w /\ w <= Most(POWERS)
<1>1. House \in SUBSET Nat
  BY MostPower DEF House
<1>2. \E w \in House : \A v \in House : w <= v
  BY <1>1, LeastNatural
<1>3. Least(House) \in House /\ \A v \in House : Least(House) <= v
  BY <1>2 DEF Least
<1> QED
  BY <1>1, <1>3, MostPower DEF House

\* The energy of a drop that counts, from what the battery gave.
LEMMA DropMeasured ==
    ASSUME NEW start \in Nat, NEW end \in Nat,
           NEW drop \in Nat, drop = ShownSoc(start) - ShownSoc(end), drop >= LOAD_DROP
    PROVE  /\ drop * CAPACITY_WH \in Nat
           /\ 2 * (drop * CAPACITY_WH) <= 5 * (start - end)
           /\ 5 * (start - end) <= 4 * (drop * CAPACITY_WH)
<1> DEFINE x == drop * CAPACITY_WH
<1>1. /\ x \in Nat /\ Full \in Nat \ {0} /\ Full * drop = 60 * x
      /\ 3 * Full <= Full * drop
  BY EstimatorsAssumption DEF LOAD_DROP, Full
<1>2. /\ 100 * (start - end) < Full * drop + Full
      /\ Full * drop - Full < 100 * (start - end)
  BY Apart
<1> HIDE DEF x
<1>3. PICK f \in Nat : f = Full * drop
  BY <1>1
<1>4. x \in Nat /\ 2 * x <= 5 * (start - end) /\ 5 * (start - end) <= 4 * x
  BY <1>1, <1>2, <1>3
<1> QED
  BY <1>4 DEF x

\* The mean load of a night, from its energy and its minutes.
LEMMA NightMean ==
    ASSUME NEW energy \in Nat, NEW minutes \in Nat \ {0}, NEW most \in Nat, NEW least \in Nat,
           2 * energy <= 5 * (most * minutes), 5 * (least * minutes) <= 4 * energy
    PROVE  LET w == RoundDiv(3 * energy, 5 * minutes)
           IN  w \in Nat /\ 2 * w <= 3 * most + 2 /\ 3 * least <= 4 * w + 4
<1> DEFINE w == RoundDiv(3 * energy, 5 * minutes)
<1>1. /\ w \in Nat
      /\ 2 * ((5 * minutes) * w) <= 2 * (3 * energy) + 5 * minutes
      /\ 2 * (3 * energy) < 2 * ((5 * minutes) * w) + 5 * minutes
  <2>1. 3 * energy \in Nat /\ 5 * minutes \in Nat \ {0}
    OBVIOUS
  <2> QED
    BY <2>1, Rounded
<1> HIDE DEF w
<1>2. PICK p \in Nat, q \in Nat, r \in Nat : p = most * minutes /\ q = least * minutes /\ r = minutes * w
  BY <1>1
<1>3. 10 * r <= 6 * energy + 5 * minutes /\ 6 * energy < 10 * r + 5 * minutes
  BY <1>1, <1>2
<1>4. 2 * r <= 3 * p + 2 * minutes /\ 3 * q <= 4 * r + 4 * minutes
  BY <1>2, <1>3
<1>5. minutes * (2 * w) <= minutes * (3 * most + 2) /\ minutes * (3 * least) <= minutes * (4 * w + 4)
  BY <1>1, <1>2, <1>4
<1>6. 2 * w <= 3 * most + 2 /\ 3 * least <= 4 * w + 4
  BY <1>1, <1>5, Cancelled
<1> QED
  BY <1>1, <1>6 DEF w

\* A night that ends teaches what the house drew.
LEMMA NightTeaches ==
    ASSUME LoadTypes, NightMeasured, topic = "load", LoadNearTruth, House # {}
    PROVE  /\ NightEnded \in [value : Nat, count : Nat]
           /\ NightEnded.count > 0 => /\ 2 * NightEnded.value <= 3 * Most(POWERS) + 2
                                      /\ 3 * Least(House) <= 4 * NightEnded.value + 4
<1> DEFINE most  == Most(POWERS)
           least == Least(House)
           w     == RoundDiv(3 * night.energy, 5 * night.minutes)
<1>1. /\ most \in Nat /\ least \in Nat /\ est \in [value : Nat, count : Nat]
      /\ night.energy \in Nat /\ night.minutes \in Nat
  BY MostPower, LeastPower DEF LoadTypes, LearnedTypes
<1>2. est.count > 0 => 2 * est.value <= 3 * most + 2 /\ 3 * least <= 4 * est.value + 4
  BY <1>1 DEF LoadNearTruth, House
<1>3. CASE NightEnded = est
  BY <1>1, <1>2, <1>3
<1>4. CASE NightEnded # est
  <2>1. /\ night.minutes >= MIN_NIGHT_MIN /\ NightEnded = Blend(est, w)
    <3>1. NightEnded = IF night.minutes < MIN_NIGHT_MIN \/ night.energy = 0 \/ w \notin 50..3000
                       THEN est ELSE Blend(est, w)
      BY DEF NightEnded
    <3>2. MIN_NIGHT_MIN \in Nat
      BY EstimatorsAssumption
    <3> HIDE DEF w
    <3> QED
      BY <1>1, <1>4, <3>1, <3>2
  <2>2. night.minutes \in Nat \ {0}
    BY <1>1, <2>1, EstimatorsAssumption
  <2>3. w \in Nat /\ 2 * w <= 3 * most + 2 /\ 3 * least <= 4 * w + 4
    <3>1. /\ 2 * night.energy <= 5 * (most * night.minutes)
          /\ 5 * (least * night.minutes) <= 4 * night.energy
      BY DEF NightMeasured
    <3> HIDE DEF most, least
    <3> QED
      BY <1>1, <2>2, <3>1, NightMean
  <2> HIDE DEF w, most, least
  <2> DEFINE new == Blend(est, w)
  <2>4. /\ new.value \in Nat /\ new.count \in Nat
        /\ new = [value |-> new.value, count |-> new.count]
        /\ new.value <= w \/ (est.count > 0 /\ new.value <= est.value)
        /\ w <= new.value \/ (est.count > 0 /\ est.value <= new.value)
    BY <1>1, <2>3, Blended
  <2> HIDE DEF new
  <2>5. new \in [value : Nat, count : Nat]
    BY <2>4
  <2>6. 2 * new.value <= 3 * most + 2 /\ 3 * least <= 4 * new.value + 4
    BY <1>1, <1>2, <2>3, <2>4
  <2>7. NightEnded = new
    BY <2>1 DEF new
  <2> QED
    BY <2>5, <2>6, <2>7 DEF most, least
<1> QED
  BY <1>3, <1>4

-----------------------------------------------------------------------------
\* The stretch so far and this cycle, together, while only the house draws.
LEMMA DrawnOn ==
    ASSUME LoadTypes, HouseDraws, Measuring, NEW gap \in Nat, charge' = charge - running * gap
    PROVE  /\ House # {} /\ running * gap \in Nat
           /\ \E start \in Nat :
                  /\ ShownSoc(start) = stretch.soc
                  /\ Least(House) * Elapsed(gap) <= start - charge'
                  /\ start - charge' <= Most(POWERS) * Elapsed(gap)
<1> DEFINE most  == Most(POWERS)
           least == Least(House)
           spent == stretch.age + stretch.idle
           age   == Elapsed(gap)
           drawn == running * gap
<1>1. running \in House
  BY DEF HouseDraws
<1>2. /\ most \in Nat /\ least \in Nat /\ running \in Nat /\ least <= running /\ running <= most
      /\ charge \in Nat /\ stretch \in Fields
  BY <1>1, MostPower, LeastPower DEF LoadTypes, LearnedTypes
<1>3. spent \in Nat /\ age \in Nat /\ age = spent + gap
  BY <1>2 DEF Elapsed, Fields
<1>4. PICK start \in Nat : /\ ShownSoc(start) = stretch.soc
                           /\ least * spent <= start - charge
                           /\ start - charge <= most * spent
  BY DEF HouseDraws
<1> HIDE DEF most, least, spent, age
<1>5. drawn \in Nat /\ least * gap <= drawn /\ drawn <= most * gap /\ least * gap \in Nat /\ most * gap \in Nat
  BY <1>2, Taken
<1>6. /\ least * spent \in Nat /\ most * spent \in Nat
      /\ least * age = least * spent + least * gap
      /\ most * age = most * spent + most * gap
  BY <1>2, <1>3
<1>7. charge' = charge - drawn
  OBVIOUS
<1> HIDE DEF drawn
<1>8. least * age <= start - charge' /\ start - charge' <= most * age
  BY <1>2, <1>4, <1>5, <1>6, <1>7
<1> QED
  BY <1>1, <1>4, <1>5, <1>8 DEF most, least, age, drawn

\* The measurement stands still for a cycle.
LEMMA StoodStill ==
    ASSUME LoadTypes, HouseDraws, NEW gap \in Nat, charge' = charge - running * gap,
           stretch' = Idle(gap), running' \in House
    PROVE  stretch' \in Fields /\ HouseDraws'
<1>1. stretch \in Fields
  BY DEF LoadTypes, LearnedTypes
<1>2. CASE stretch = None
  <2>1. stretch' = None
    BY <1>2 DEF Idle
  <2> QED
    BY <1>1, <1>2, <2>1 DEF HouseDraws, Measuring
<1>3. CASE stretch # None
  <2> DEFINE idle == Smaller(MAX_STEP_GAP + 1, stretch.idle + gap)
  <2>1. stretch' = [stretch EXCEPT !.idle = idle]
    BY <1>3 DEF Idle
  <2>2. /\ idle \in Nat
        /\ idle <= MAX_STEP_GAP => idle = stretch.idle + gap /\ stretch.idle <= MAX_STEP_GAP
    BY <1>1 DEF Smaller, MAX_STEP_GAP, Fields
  <2> HIDE DEF idle
  <2>3. /\ stretch' \in Fields /\ stretch'.idle = idle
        /\ stretch'.age = stretch.age /\ stretch'.soc = stretch.soc
    BY <1>1, <2>1, <2>2 DEF Fields
  <2>4. ASSUME Measuring' PROVE HouseDraws'
    <3>1. Measuring /\ idle = stretch.idle + gap
      BY <1>3, <2>2, <2>3, <2>4 DEF Measuring
    <3>2. Elapsed(gap) = stretch'.age + stretch'.idle
      BY <1>1, <2>3, <3>1 DEF Elapsed, Fields
    <3>3. PICK start \in Nat :
              /\ ShownSoc(start) = stretch.soc
              /\ Least(House) * Elapsed(gap) <= start - charge'
              /\ start - charge' <= Most(POWERS) * Elapsed(gap)
      BY <3>1, DrawnOn
    <3> QED
      BY <2>3, <3>2, <3>3 DEF HouseDraws
  <2> QED
    BY <2>3, <2>4 DEF HouseDraws
<1> QED
  BY <1>2, <1>3

\* A stretch that begins with this charge.
LEMMA BegunNow ==
    ASSUME charge' \in Nat, running' \in House, stretch' = Start(ShownSoc(charge'), 0)
    PROVE  stretch' \in Fields /\ HouseDraws'
<1>1. PICK soc : soc = ShownSoc(charge')
  OBVIOUS
<1>2. soc \in Nat
  BY <1>1, ShownCharge
<1>3. /\ stretch' \in Fields /\ stretch'.soc = soc /\ stretch'.age = 0 /\ stretch'.idle = 0
  BY <1>1, <1>2, Begun
<1>4. Least(House) \in Nat /\ Most(POWERS) \in Nat
  BY LeastPower, MostPower
<1>5. /\ Least(House) * (stretch'.age + stretch'.idle) <= charge' - charge'
      /\ charge' - charge' <= Most(POWERS) * (stretch'.age + stretch'.idle)
  BY <1>3, <1>4
<1> QED
  BY <1>1, <1>3, <1>5 DEF HouseDraws

-----------------------------------------------------------------------------
LoadInv == LoadTypes /\ HouseDraws /\ NightMeasured /\ LoadNearTruth

\* A night cycle: the energy and the minutes of a night grow by what one stretch
\* measured, and a new night starts from nothing.
LEMMA LoadStep ==
    ASSUME LoadInv, topic = "load", UNCHANGED topic,
           NEW w \in House, NEW gap \in STEP_GAPS, NEW newNight \in BOOLEAN,
           LoadCycle(w, gap, newNight)
    PROVE  LoadInv'
<1> DEFINE left == IF newNight THEN Full ELSE charge - running * gap
<1> DEFINE age == Elapsed(gap)
<1>1. /\ House # {} /\ w \in Nat /\ gap \in Nat /\ Full \in Nat
      /\ running \in Nat /\ charge \in Nat /\ stretch \in Fields
      /\ est \in [value : Nat, count : Nat]
      /\ night \in [energy : Nat, minutes : Nat] /\ night.energy \in Nat /\ night.minutes \in Nat
  BY EstimatorsAssumption, MostPower DEF LoadInv, LoadTypes, LearnedTypes, House, Full
<1>2. age \in Nat /\ age = stretch.age + stretch.idle + gap
  BY <1>1 DEF Elapsed, Fields
<1>3. running * gap \in Nat
  BY <1>1, Taken
<1>4. charge' = left /\ charge' \in Nat /\ running' = w
  <2>1. charge' = left /\ left >= 0 /\ running' = w
    BY DEF LoadCycle
  <2> QED  BY <1>1, <1>3, <2>1
<1>5. PICK soc : soc = ShownSoc(charge')
  OBVIOUS
<1>6. soc \in Nat
  <2>1. charge' \in Nat
    BY <1>4
  <2> QED  BY <1>5, <2>1, ShownCharge
<1> DEFINE drop     == stretch.soc - soc
           next     == LoadAfter(soc, newNight, gap)
           goesOn   == Continues(gap)
           longer   == [stretch EXCEPT !.age = age, !.idle = 0]
           begun    == Start(soc, 0)
           measuredNow == [energy |-> night.energy + drop * CAPACITY_WH, minutes |-> night.minutes + age]
<1>7. stretch' = next.stretch /\ night' = next.night /\ est' = next.est
  <2>1. /\ stretch' = LoadAfter(ShownSoc(left), newNight, gap).stretch
        /\ night' = LoadAfter(ShownSoc(left), newNight, gap).night
        /\ est' = LoadAfter(ShownSoc(left), newNight, gap).est
    BY DEF LoadCycle
  <2>2. charge' = left
    BY <1>4
  <2> HIDE DEF left
  <2> QED  BY <1>5, <2>1, <2>2
<1>8. next = CASE newNight -> [stretch |-> begun, night |-> NoNight, est |-> NightEnded]
               [] ~newNight /\ (~goesOn \/ drop < 0) -> [stretch |-> begun, night |-> night, est |-> est]
               [] ~newNight /\ goesOn /\ drop \in 0..(LOAD_DROP - 1) ->
                      [stretch |-> longer, night |-> night, est |-> est]
               [] ~newNight /\ goesOn /\ drop >= LOAD_DROP ->
                      [stretch |-> begun, est |-> est, night |-> measuredNow]
  BY DEF LoadAfter
<1>9. drop \in Int
  BY <1>1, <1>6 DEF Fields
<1> HIDE DEF left, drop, next, goesOn, longer, begun, measuredNow, age
<1>10. newNight => next = [stretch |-> begun, night |-> NoNight, est |-> NightEnded]
  BY <1>8, <1>9 DEF LOAD_DROP
<1>11. ~newNight /\ (~goesOn \/ drop < 0) => next = [stretch |-> begun, night |-> night, est |-> est]
  BY <1>8, <1>9 DEF LOAD_DROP
<1>12. ~newNight /\ goesOn /\ drop \in 0..(LOAD_DROP - 1) =>
           next = [stretch |-> longer, night |-> night, est |-> est]
  BY <1>8, <1>9 DEF LOAD_DROP
<1>13. ~newNight /\ goesOn /\ drop >= LOAD_DROP =>
           next = [stretch |-> begun, est |-> est, night |-> measuredNow]
  BY <1>8, <1>9 DEF LOAD_DROP
<1>14. ASSUME stretch' = begun PROVE stretch' \in Fields /\ HouseDraws'
  <2>1. stretch' = Start(ShownSoc(charge'), 0)
    BY <1>5, <1>14 DEF begun
  <2> QED  BY <1>4, <2>1, BegunNow
<1>15. CASE newNight
  <2>1. stretch' = begun /\ night' = NoNight /\ est' = NightEnded
    BY <1>7, <1>10, <1>15
  <2>2. night'.energy = 0 /\ night'.minutes = 0 /\ night' \in [energy : Nat, minutes : Nat]
    BY <2>1 DEF NoNight
  <2>3. NightMeasured'
    <3>1. Most(POWERS) \in Nat /\ Least(House) \in Nat
      BY <1>1, MostPower, LeastPower
    <3> QED  BY <2>2, <3>1 DEF NightMeasured
  <2>4. /\ est' \in [value : Nat, count : Nat]
        /\ est'.count > 0 => /\ 2 * est'.value <= 3 * Most(POWERS) + 2
                             /\ 3 * Least(House) <= 4 * est'.value + 4
    BY <1>1, <2>1, NightTeaches DEF LoadInv
  <2>5. LoadNearTruth'
    BY <2>4 DEF LoadNearTruth, House
  <2> QED
    BY <1>1, <1>4, <1>14, <2>1, <2>2, <2>3, <2>4, <2>5 DEF LoadInv, LoadTypes, LearnedTypes
<1>16. CASE ~newNight
  <2>1. charge' = charge - running * gap
    BY <1>4, <1>16 DEF left
  <2>2. CASE ~goesOn \/ drop < 0
    <3>1. stretch' = begun /\ night' = night /\ est' = est
      BY <1>7, <1>11, <1>16, <2>2
    <3> QED
      BY <1>1, <1>4, <1>14, <3>1 DEF LoadInv, LoadTypes, LearnedTypes, NightMeasured, LoadNearTruth
  <2>3. ASSUME goesOn
        PROVE  /\ Measuring /\ age \in Nat \ {0}
               /\ \E start \in Nat : /\ ShownSoc(start) = stretch.soc
                                     /\ Least(House) * age <= start - charge'
                                     /\ start - charge' <= Most(POWERS) * age
    <3>1. 0 < gap /\ stretch # None /\ stretch.idle + gap <= MAX_STEP_GAP
      BY <2>3 DEF goesOn, Continues
    <3>2. Measuring /\ age \in Nat \ {0}
      BY <1>1, <1>2, <3>1 DEF Measuring, Fields, MAX_STEP_GAP
    <3> QED
      BY <1>1, <2>1, <3>2, DrawnOn DEF LoadInv, age
  <2>4. CASE goesOn /\ drop \in 0..(LOAD_DROP - 1)
    <3>1. stretch' = [stretch EXCEPT !.age = age, !.idle = 0] /\ night' = night /\ est' = est
      BY <1>7, <1>12, <1>16, <2>4 DEF longer
    <3>2. stretch' \in Fields /\ stretch'.age = age /\ stretch'.idle = 0 /\ stretch'.soc = stretch.soc
      BY <1>1, <1>2, <3>1 DEF Fields
    <3>3. age = stretch'.age + stretch'.idle
      BY <1>2, <3>2
    <3>4. PICK start \in Nat : /\ ShownSoc(start) = stretch.soc
                               /\ Least(House) * age <= start - charge'
                               /\ start - charge' <= Most(POWERS) * age
      BY <2>3, <2>4
    <3>5. HouseDraws'
      BY <1>4, <3>2, <3>3, <3>4 DEF HouseDraws
    <3> QED
      BY <1>1, <1>4, <3>1, <3>2, <3>5 DEF LoadInv, LoadTypes, LearnedTypes, NightMeasured, LoadNearTruth
  <2>5. CASE goesOn /\ drop >= LOAD_DROP
    <3>1. stretch' = begun /\ est' = est /\ night' = measuredNow
      BY <1>7, <1>13, <1>16, <2>5
    <3>2. PICK start \in Nat : /\ ShownSoc(start) = stretch.soc
                               /\ Least(House) * age <= start - charge'
                               /\ start - charge' <= Most(POWERS) * age
      BY <2>3, <2>5
    <3>3. PICK end \in Nat : end = charge'
      BY <1>4
    <3>4. drop \in Nat /\ drop = ShownSoc(start) - ShownSoc(end)
      BY <1>1, <1>5, <1>9, <2>5, <3>2, <3>3 DEF LOAD_DROP, drop
    <3>5. PICK x \in Nat : /\ x = drop * CAPACITY_WH
                           /\ 2 * x <= 5 * (start - end) /\ 5 * (start - end) <= 4 * x
      BY <2>5, <3>4, DropMeasured
    <3>6. night' = [energy |-> night.energy + x, minutes |-> night.minutes + age]
      BY <3>1, <3>5 DEF measuredNow
    <3>7. /\ night' \in [energy : Nat, minutes : Nat]
          /\ night'.energy = night.energy + x /\ night'.minutes = night.minutes + age
      BY <1>1, <1>2, <3>6
    <3>8. NightMeasured'
      <4> DEFINE most == Most(POWERS)
                 least == Least(House)
      <4>1. most \in Nat /\ least \in Nat
        BY <1>1, MostPower, LeastPower
      <4>2. 2 * night.energy <= 5 * (most * night.minutes) /\ 5 * (least * night.minutes) <= 4 * night.energy
        BY <1>1 DEF LoadInv, NightMeasured
      <4>3. least * age <= start - end /\ start - end <= most * age
        BY <3>2, <3>3
      <4> HIDE DEF most, least
      <4>4. /\ most * night.minutes \in Nat /\ most * age \in Nat
            /\ least * night.minutes \in Nat /\ least * age \in Nat
            /\ most * (night.minutes + age) = most * night.minutes + most * age
            /\ least * (night.minutes + age) = least * night.minutes + least * age
        BY <1>1, <1>2, <4>1
      <4>5. /\ 2 * (night.energy + x) <= 5 * (most * (night.minutes + age))
            /\ 5 * (least * (night.minutes + age)) <= 4 * (night.energy + x)
        BY <1>1, <3>5, <4>2, <4>3, <4>4
      <4> QED
        BY <3>7, <4>5 DEF NightMeasured, most, least
    <3> QED
      BY <1>1, <1>4, <1>14, <3>1, <3>7, <3>8 DEF LoadInv, LoadTypes, LearnedTypes, LoadNearTruth
  <2> QED
    BY <1>9, <2>2, <2>4, <2>5 DEF LOAD_DROP
<1> QED
  BY <1>15, <1>16

\* A cycle that measures nothing, and one with a command.
LEMMA UnmeasuredStep ==
    ASSUME LoadInv, topic = "load", UNCHANGED topic,
           NEW w \in House, NEW gap \in STEP_GAPS,
           LoadSkipped(w, gap) \/ \E commanded \in House : LoadCleared(w, gap, commanded)
    PROVE  LoadInv'
<1>1. /\ w \in Nat /\ gap \in Nat /\ House \subseteq Nat /\ running \in Nat /\ charge \in Nat
  BY EstimatorsAssumption, MostPower DEF LoadInv, LoadTypes, LearnedTypes, House
<1>2. running * gap \in Nat
  BY <1>1, Taken
<1>3. /\ charge' = charge - running * gap /\ charge >= running * gap
      /\ UNCHANGED <<night, est>>
  BY DEF LoadSkipped, LoadCleared
<1>4. charge' \in Nat
  BY <1>1, <1>2, <1>3
<1>5. CASE LoadSkipped(w, gap)
  <2>1. stretch' = Idle(gap) /\ running' = w
    BY <1>5 DEF LoadSkipped
  <2>2. stretch' \in Fields /\ HouseDraws'
    BY <1>1, <1>3, <2>1, StoodStill DEF LoadInv
  <2> QED
    BY <1>1, <1>3, <1>4, <2>1, <2>2 DEF LoadInv, LoadTypes, LearnedTypes, NightMeasured, LoadNearTruth
<1>6. ASSUME NEW commanded \in House, LoadCleared(w, gap, commanded) PROVE LoadInv'
  <2>1. stretch' = None /\ running' = w + commanded
    BY <1>6 DEF LoadCleared
  <2>2. running' \in Nat
    BY <1>1, <2>1
  <2>3. stretch' \in Fields /\ HouseDraws'
    BY <2>1 DEF HouseDraws, Measuring, None, Fields
  <2> QED
    BY <1>3, <1>4, <2>2, <2>3 DEF LoadInv, LoadTypes, LearnedTypes, NightMeasured, LoadNearTruth
<1> QED
  BY <1>5, <1>6

-----------------------------------------------------------------------------
(***************************************************************************)
(* Estimators: the charging power at noon.                                 *)
(***************************************************************************)
LEMMA Initial ==
    ASSUME NEW n \in Nat
    PROVE  IsFiniteSet(1..n) /\ Cardinality(1..n) = n
<1>1. /\ IsFiniteSet(1..n)
      /\ Cardinality(1..n) = IF 1 > n THEN 0 ELSE n - 1 + 1
  <2>1. 1 \in Int /\ n \in Int
    OBVIOUS
  <2> QED
    BY <2>1, FS_Interval
<1> QED
  BY <1>1

\* How many of the values pass a test: a part of the positions.
LEMMA Positions ==
    ASSUME NEW values \in Seq(Nat)
    PROVE  /\ DOMAIN values = 1..Len(values) /\ Len(values) \in Nat
           /\ IsFiniteSet(DOMAIN values) /\ Cardinality(DOMAIN values) = Len(values)
           /\ \A A \in SUBSET DOMAIN values :
                  IsFiniteSet(A) /\ Cardinality(A) \in Nat /\ Cardinality(A) <= Len(values)
<1>1. Len(values) \in Nat /\ DOMAIN values = 1..Len(values)
  OBVIOUS
<1>2. IsFiniteSet(1..Len(values)) /\ Cardinality(1..Len(values)) = Len(values)
  BY <1>1, Initial
<1>3. ASSUME NEW A \in SUBSET DOMAIN values
      PROVE  IsFiniteSet(A) /\ Cardinality(A) \in Nat /\ Cardinality(A) <= Len(values)
  BY <1>1, <1>2, FS_Subset, FS_CardinalityType
<1> QED
  BY <1>1, <1>2, <1>3

\* A value at the rank exists: the least that enough others do not exceed.
LEMMA AtRank ==
    ASSUME NEW values \in Seq(Nat), NEW rank \in Nat, rank < Len(values)
    PROVE  \E v \in {values[k] : k \in DOMAIN values} :
               /\ Cardinality({k \in DOMAIN values : values[k] < v}) <= rank
               /\ Cardinality({k \in DOMAIN values : values[k] <= v}) > rank
<1> DEFINE V == {values[k] : k \in DOMAIN values}
           Below(v) == {k \in DOMAIN values : values[k] < v}
           UpTo(v) == {k \in DOMAIN values : values[k] <= v}
           Enough == {v \in V : Cardinality(UpTo(v)) > rank}
<1>1. /\ Len(values) \in Nat /\ DOMAIN values = 1..Len(values)
      /\ Cardinality(DOMAIN values) = Len(values) /\ IsFiniteSet(DOMAIN values)
  BY Positions
<1>2. \A k \in DOMAIN values : values[k] \in Nat
  BY <1>1
<1>3. V \in SUBSET Nat /\ values[1] \in V
  BY <1>1, <1>2
<1>4. PICK high \in Nat : \A k \in DOMAIN values : values[k] <= high
  BY <1>1, <1>2, FiniteBound
<1>5. Max(V) \in V /\ \A v \in V : v <= Max(V)
  <2>1. V \in SUBSET Int /\ V # {} /\ high \in Int /\ \A v \in V : v <= high
    BY <1>3, <1>4
  <2> QED
    BY <2>1, MaxFact
<1>6. Max(V) \in Enough
  <2>1. UpTo(Max(V)) = DOMAIN values
    BY <1>5
  <2> QED
    BY <1>1, <1>5, <2>1
<1>7. PICK v \in Enough : \A u \in Enough : v <= u
  BY <1>3, <1>6, LeastNatural
<1>8. Cardinality(Below(v)) <= rank
  <2>1. CASE Below(v) = {}
    <3>1. Cardinality({}) = 0
      BY FS_EmptySet
    <3> HIDE DEF Below
    <3> QED
      BY <2>1, <3>1
  <2>2. CASE Below(v) # {}
    <3> DEFINE B == {u \in V : u < v}
    <3>1. B \in SUBSET Int /\ B # {} /\ high \in Int /\ \A u \in B : u <= high
      BY <1>3, <1>4, <2>2
    <3>2. PICK u \in B : \A t \in B : t <= u
      BY <3>1, MaxFact
    <3>3. Below(v) = UpTo(u)
      BY <1>2, <1>3, <1>7, <3>2
    <3>4. u \in V /\ u \in Nat /\ v \in Nat /\ ~ (v <= u)
      BY <1>3, <1>7, <3>2
    <3>5. Cardinality(UpTo(u)) \in Nat
      BY Positions
    <3>6. ~ (Cardinality(UpTo(u)) > rank)
      <4> HIDE DEF UpTo, V
      <4> QED  BY <1>7, <3>4
    <3> HIDE DEF UpTo, Below
    <3> QED
      BY <3>3, <3>5, <3>6
  <2> HIDE DEF Below, UpTo, Enough, V
  <2> QED
    BY <2>1, <2>2
<1> QED
  BY <1>7, <1>8

LEMMA PercentileFact ==
    ASSUME NEW values \in Seq(Nat), NEW q \in 0..100, Len(values) > 0
    PROVE  LET rank == RoundDiv(q * (Len(values) - 1), 100)
               v    == Percentile(values, q)
           IN  /\ v \in Nat /\ rank \in Nat
               /\ Cardinality({k \in DOMAIN values : values[k] < v}) <= rank
<1> DEFINE last == Len(values) - 1
           rank == RoundDiv(q * last, 100)
           V    == {values[k] : k \in DOMAIN values}
<1>1. last \in Nat /\ q \in Nat /\ q * last \in Nat /\ q * last <= 100 * last
  OBVIOUS
<1>2. rank \in Nat /\ 0 <= rank /\ rank <= last
  <2> DEFINE all == q * last
  <2>1. all \in Nat /\ 100 * 0 <= all /\ all <= 100 * last
    BY <1>1
  <2> HIDE DEF all, last
  <2> QED
    BY <1>1, <2>1, RoundedBetween DEF all
<1>3. rank < Len(values)
  BY <1>1, <1>2
<1> HIDE DEF rank, last
<1>4. \E v \in V : /\ Cardinality({k \in DOMAIN values : values[k] < v}) <= rank
                   /\ Cardinality({k \in DOMAIN values : values[k] <= v}) > rank
  BY <1>2, <1>3, AtRank
<1>5. Percentile(values, q) =
          CHOOSE v \in V : /\ Cardinality({k \in DOMAIN values : values[k] < v}) <= rank
                           /\ Cardinality({k \in DOMAIN values : values[k] <= v}) > rank
  BY DEF Percentile, rank, last
<1>6. /\ Percentile(values, q) \in V
      /\ Cardinality({k \in DOMAIN values : values[k] < Percentile(values, q)}) <= rank
  BY <1>4, <1>5
<1>7. V \subseteq Nat
  OBVIOUS
<1> QED
  BY <1>2, <1>6, <1>7 DEF rank, last

\* One reading above the peak among four or more, or none among three, is above the
\* percentile.
LEMMA PeakHolds ==
    ASSUME NEW values \in Seq(Nat), NEW peak \in Nat, Len(values) >= 3,
           Cardinality({k \in DOMAIN values : values[k] > peak}) < (IF Len(values) > 3 THEN 2 ELSE 1)
    PROVE  Percentile(values, 80) \in Nat /\ Percentile(values, 80) <= peak
<1> DEFINE n    == Len(values)
           rank == RoundDiv(80 * (n - 1), 100)
           v    == Percentile(values, 80)
           Below == {k \in DOMAIN values : values[k] < v}
           High  == {k \in DOMAIN values : values[k] > peak}
<1>1. n \in Nat /\ n >= 3 /\ DOMAIN values = 1..n /\ \A k \in DOMAIN values : values[k] \in Nat
  OBVIOUS
<1>2. v \in Nat /\ rank \in Nat /\ Cardinality(Below) <= rank
  <2>1. 80 \in 0..100 /\ n > 0
    BY <1>1
  <2> QED
    BY <2>1, PercentileFact
<1>3. 2 * (100 * rank) <= 2 * (80 * (n - 1)) + 100
  <2>1. 80 * (n - 1) \in Nat
    BY <1>1
  <2> QED
    BY <2>1, Rounded
<1>4. /\ IsFiniteSet(Below) /\ Cardinality(Below) \in Nat
      /\ IsFiniteSet(High) /\ Cardinality(High) \in Nat
      /\ Cardinality(DOMAIN values) = n
  BY Positions
<1>5. SUFFICES ASSUME v > peak PROVE FALSE
  BY <1>2
<1>6. DOMAIN values = Below \cup High
  BY <1>1, <1>2, <1>5
<1>7. n <= Cardinality(Below) + Cardinality(High)
  <2>1. Cardinality(Below \cup High) = Cardinality(Below) + Cardinality(High) - Cardinality(Below \cap High)
    BY <1>4, FS_Union
  <2>2. Cardinality(Below \cap High) \in Nat
    BY <1>4, FS_Intersection, FS_CardinalityType
  <2> QED
    BY <1>4, <1>6, <2>1, <2>2
<1>8. Cardinality(High) < (IF n > 3 THEN 2 ELSE 1)
  OBVIOUS
<1> HIDE DEF n, rank, v, Below, High
<1> QED
  BY <1>1, <1>2, <1>3, <1>4, <1>7, <1>8

-----------------------------------------------------------------------------
Probes == [w : Nat, age : Nat]

\* The estimate is written from the samples; as long as no outlier has company it
\* stays below the peak.
RateInv ==
    /\ proben \in Seq(Probes) /\ kwAge \in Nat /\ disturbed \in BOOLEAN
    /\ est \in [value : Nat, count : Nat]
    /\ ~disturbed => 10 * est.value <= PEAK_W + 5

LEMMA Newest ==
    ASSUME NEW list \in Seq(Probes), NEW m \in Nat \ {0}, m <= Len(list) + 1
    PROVE  SubSeq(list, m, Len(list)) \in Seq(Probes)
OBVIOUS

\* The list of samples after a reading.
LEMMA SamplesKept ==
    ASSUME NEW list \in Seq(Probes), NEW w \in Nat
    PROVE  /\ InTime(list) \in Seq(Probes)
           /\ Kept(Append(InTime(list), [w |-> w, age |-> 0])) \in Seq(Probes)
<1>1. InTime(list) \in Seq(Probes)
  <2> DEFINE old == {k \in DOMAIN list : list[k].age > WINDOW}
  <2>1. Len(list) \in Nat /\ DOMAIN list = 1..Len(list) /\ old \in SUBSET (1..Len(list))
    OBVIOUS
  <2>2. Cardinality(old) \in Nat /\ Cardinality(old) <= Len(list)
    <3> DEFINE all == 1..Len(list)
    <3>1. IsFiniteSet(all) /\ Cardinality(all) = Len(list)
      BY <2>1, Initial
    <3>2. old \in SUBSET all
      BY <2>1
    <3> HIDE DEF old, all
    <3>3. IsFiniteSet(old) /\ Cardinality(old) <= Cardinality(all)
      BY <3>1, <3>2, FS_Subset
    <3> QED
      BY <3>1, <3>3, FS_CardinalityType
  <2>3. InTime(list) = SubSeq(list, Cardinality(old) + 1, Len(list))
    BY DEF InTime
  <2> HIDE DEF old
  <2> QED
    BY <2>2, <2>3, Newest
<1> DEFINE inTime == InTime(list)
           longer == Append(inTime, [w |-> w, age |-> 0])
<1>2. longer \in Seq(Probes)
  BY <1>1 DEF Probes
<1> HIDE DEF longer
<1>3. Len(longer) \in Nat /\ KEEP \in Nat \ {0}
  BY <1>2, EstimatorsAssumption
<1>4. /\ Larger(1, Len(longer) - KEEP + 1) \in Nat \ {0}
      /\ Larger(1, Len(longer) - KEEP + 1) <= Len(longer) + 1
  BY <1>3 DEF Larger
<1>5. Kept(longer) \in Seq(Probes)
  BY <1>2, <1>4, Newest DEF Kept
<1> QED
  BY <1>1, <1>5 DEF longer

LEMMA FadeFact == ASSUME NEW minutes \in Nat PROVE Fade(minutes) \in Nat /\ Fade(minutes) <= 1000
<1> DEFINE days == Smaller(minutes \div 1440, 8)
<1>1. days \in {0, 1, 2, 3, 4, 5, 6, 7, 8}
  <2>1. minutes \div 1440 \in Nat
    BY Quotient
  <2> QED
    BY <2>1 DEF Smaller
<1> HIDE DEF days
<1>2. Fade(minutes) = <<999, 906, 820, 743, 673, 610, 552, 500, 453>>[days + 1]
  BY DEF Fade, days
<1> QED
  BY <1>1, <1>2

\* An estimate that fades towards a lower one.
Towards(goal, value, f) == RoundDiv(1000 * goal + (value - goal) * f, 1000)

LEMMA FadesTowards ==
    ASSUME NEW goal \in Nat, NEW value \in Nat, NEW f \in Nat, f <= 1000
    PROVE  /\ Towards(goal, value, f) \in Nat
           /\ Towards(goal, value, f) <= goal \/ Towards(goal, value, f) <= value
<1>1. PICK rest \in Nat : rest = 1000 - f
  OBVIOUS
<1>2. f \in Nat /\ rest + f = 1000
  BY <1>1
<1>3. Towards(goal, value, f) = RoundDiv(rest * goal + f * value, 1000)
  <2>1. 1000 * goal + (value - goal) * f = rest * goal + f * value
    BY <1>1
  <2> QED
    BY <2>1 DEF Towards
<1>4. f \in Nat /\ rest + f > 0
  BY <1>2
<1>5. LET m == RoundDiv(rest * goal + f * value, rest + f)
      IN  m \in Nat /\ (m <= goal \/ m <= value)
  BY <1>4, MeanBetween
<1> QED
  BY <1>2, <1>3, <1>5

LEMMA OfFunction ==
    ASSUME NEW S, NEW n \in Nat, NEW f \in [1..n -> S]
    PROVE  f \in Seq(S) /\ Len(f) = n /\ DOMAIN f = 1..n
OBVIOUS

\* A sample at noon.
LEMMA RateStep ==
    ASSUME RateInv, NEW w \in READINGS_W, NEW gap \in SAMPLE_GAPS, RateCycle(w, gap)
    PROVE  RateInv'
<1>1. w \in Nat /\ gap \in Nat /\ PEAK_W \in Nat
  BY EstimatorsAssumption
<1> DEFINE aged    == [k \in DOMAIN proben |-> [proben[k] EXCEPT !.age = @ + gap]]
           inTime  == InTime(aged)
           tooSoon == inTime # <<>> /\ inTime[Len(inTime)].age < SPACING
           kept    == Kept(Append(inTime, [w |-> w, age |-> 0]))
           values  == [k \in DOMAIN kept |-> kept[k].w]
           top     == Percentile(values, 80)
           p       == RoundDiv(top, 10)
           faded   == RoundDiv(1000 * p + (est.value - p) * Fade(kwAge + gap), 1000)
           learned == [value |-> IF est.count = 0 \/ p >= est.value THEN p ELSE faded, count |-> 1]
           next    == SampleAfter(w, gap)
           outliers == {k \in DOMAIN next.proben : next.proben[k].w > PEAK_W}
<1>2. /\ proben' = next.proben /\ est' = next.est
      /\ kwAge' = Smaller(next.kwAge, WINDOW + 1440)
      /\ disturbed' = (disturbed \/ Cardinality(outliers) >= (IF Len(next.proben) > 3 THEN 2 ELSE 1))
  BY DEF RateCycle
<1>3. next = CASE tooSoon -> [proben |-> inTime, est |-> est, kwAge |-> kwAge + gap]
               [] ~tooSoon /\ Len(kept) < MIN_SAMPLES ->
                      [proben |-> kept, est |-> est, kwAge |-> kwAge + gap]
               [] ~tooSoon /\ Len(kept) >= MIN_SAMPLES ->
                      [proben |-> kept, kwAge |-> 0, est |-> learned]
  BY DEF SampleAfter
<1>4. inTime \in Seq(Probes) /\ kept \in Seq(Probes)
  <2>1. aged \in Seq(Probes)
    <3>1. /\ Len(proben) \in Nat /\ DOMAIN proben = 1..Len(proben)
          /\ \A k \in 1..Len(proben) : proben[k] \in Probes
      BY DEF RateInv
    <3>2. ASSUME NEW k \in 1..Len(proben) PROVE [proben[k] EXCEPT !.age = @ + gap] \in Probes
      BY <1>1, <3>1 DEF Probes
    <3>3. aged \in [1..Len(proben) -> Probes]
      BY <3>1, <3>2
    <3> HIDE DEF aged
    <3> QED  BY <3>1, <3>3, OfFunction
  <2> HIDE DEF aged
  <2> QED
    BY <1>1, <2>1, SamplesKept
<1>5. /\ est \in [value : Nat, count : Nat] /\ kwAge \in Nat /\ disturbed \in BOOLEAN
      /\ ~disturbed => 10 * est.value <= PEAK_W + 5
  BY DEF RateInv
<1> HIDE DEF inTime, kept, next, learned, tooSoon
<1>6. Len(kept) \in Nat
  BY <1>4
<1>7. tooSoon => next = [proben |-> inTime, est |-> est, kwAge |-> kwAge + gap]
  BY <1>3, <1>6 DEF MIN_SAMPLES
<1>8. ~tooSoon /\ Len(kept) < MIN_SAMPLES => next = [proben |-> kept, est |-> est, kwAge |-> kwAge + gap]
  BY <1>3, <1>6 DEF MIN_SAMPLES
<1>9. ~tooSoon /\ Len(kept) >= MIN_SAMPLES => next = [proben |-> kept, kwAge |-> 0, est |-> learned]
  BY <1>3, <1>6 DEF MIN_SAMPLES
<1>10. disturbed' \in BOOLEAN /\ (~disturbed' => ~disturbed)
  BY <1>2, <1>5
<1>11. ASSUME next.est = est, next.kwAge = kwAge + gap, next.proben \in Seq(Probes) PROVE RateInv'
  <2>1. kwAge' \in Nat
    BY <1>1, <1>2, <1>5, <1>11 DEF Smaller, WINDOW
  <2> QED
    BY <1>2, <1>5, <1>10, <1>11, <2>1 DEF RateInv
<1>12. CASE tooSoon
  BY <1>4, <1>7, <1>11, <1>12
<1>13. CASE ~tooSoon /\ Len(kept) < MIN_SAMPLES
  BY <1>4, <1>8, <1>11, <1>13
<1>14. CASE ~tooSoon /\ Len(kept) >= MIN_SAMPLES
  <2>1. next.proben = kept /\ next.kwAge = 0 /\ next.est = learned
    BY <1>9, <1>14
  <2>2. values \in Seq(Nat) /\ Len(values) = Len(kept) /\ DOMAIN values = DOMAIN kept
        /\ \A k \in DOMAIN values : values[k] = kept[k].w
    <3>1. Len(kept) \in Nat /\ DOMAIN kept = 1..Len(kept) /\ \A k \in 1..Len(kept) : kept[k].w \in Nat
      <4>1. Len(kept) \in Nat /\ DOMAIN kept = 1..Len(kept) /\ \A k \in 1..Len(kept) : kept[k] \in Probes
        BY <1>4
      <4> QED
        BY <4>1 DEF Probes
    <3>2. values \in [1..Len(kept) -> Nat] /\ \A k \in DOMAIN kept : values[k] = kept[k].w
      BY <3>1
    <3> HIDE DEF values
    <3> QED  BY <3>1, <3>2, OfFunction
  <2>3. outliers = {k \in DOMAIN values : values[k] > PEAK_W}
    BY <2>1, <2>2
  <2>4. Cardinality(outliers) \in Nat
    <3> HIDE DEF values
    <3> QED
      BY <2>2, <2>3, Positions
  <2>5. ~disturbed' => Cardinality(outliers) < (IF Len(values) > 3 THEN 2 ELSE 1)
    <3>1. Len(next.proben) = Len(values)
      BY <2>1, <2>2
    <3> DEFINE most == IF Len(values) > 3 THEN 2 ELSE 1
               many == Cardinality(outliers) >= most
    <3>2. disturbed' = (disturbed \/ many)
      BY <1>2, <3>1
    <3>3. ~many => Cardinality(outliers) < most
      <4> HIDE DEF outliers, values
      <4> QED  BY <2>4
    <3> HIDE DEF many, most
    <3>4. ~disturbed' => ~many
      BY <3>2
    <3> QED
      BY <3>3, <3>4 DEF most
  <2> HIDE DEF values, outliers
  <2>6. Len(values) >= 3 /\ Len(values) > 0
    BY <1>6, <1>14, <2>2 DEF MIN_SAMPLES
  <2>7. top \in Nat
    <3>1. 80 \in 0..100
      OBVIOUS
    <3> QED
      BY <2>2, <2>6, <3>1, PercentileFact
  <2>8. ~disturbed' => top <= PEAK_W
    BY <1>1, <2>2, <2>3, <2>5, <2>6, PeakHolds
  <2> HIDE DEF top
  <2>9. p \in Nat /\ 2 * (10 * p) <= 2 * top + 10
    BY <2>7, Rounded
  <2>10. ~disturbed' => 10 * p <= PEAK_W + 5
    BY <1>1, <2>7, <2>8, <2>9
  <2> HIDE DEF p
  <2>11. faded \in Nat /\ (faded <= p \/ faded <= est.value)
    <3>1. PICK value \in Nat, minutes \in Nat, high \in Nat :
              value = est.value /\ minutes = kwAge + gap /\ high = p
      BY <1>1, <1>5, <2>9
    <3>2. PICK f \in Nat : f = Fade(minutes) /\ f <= 1000
      BY FadeFact
    <3>3. faded = Towards(high, value, f)
      BY <3>1, <3>2 DEF Towards
    <3>4. /\ Towards(high, value, f) \in Nat
          /\ Towards(high, value, f) <= high \/ Towards(high, value, f) <= value
      BY <3>2, FadesTowards
    <3> HIDE DEF faded
    <3> QED
      BY <3>1, <3>3, <3>4
  <2> HIDE DEF faded
  <2> DEFINE new == IF est.count = 0 \/ p >= est.value THEN p ELSE faded
  <2>12. new \in Nat /\ (new <= p \/ new <= est.value)
    BY <2>9, <2>11
  <2>13. learned = [value |-> new, count |-> 1]
    BY DEF learned
  <2> HIDE DEF new
  <2>14. learned \in [value : Nat, count : Nat] /\ (~disturbed' => 10 * learned.value <= PEAK_W + 5)
    BY <1>1, <1>5, <1>10, <2>9, <2>10, <2>12, <2>13
  <2>15. kwAge' \in Nat
    BY <1>2, <2>1 DEF Smaller, WINDOW
  <2> QED
    BY <1>2, <1>4, <1>10, <2>1, <2>14, <2>15 DEF RateInv
<1> QED
  BY <1>6, <1>12, <1>13, <1>14 DEF MIN_SAMPLES

-----------------------------------------------------------------------------
(***************************************************************************)
(* Estimators: the sun profile.                                            *)
(***************************************************************************)
Seen == Nat \X Nat \X Nat

HourSums == [day : Nat, hour : Nat, sum : Nat, n : Nat, seen : SUBSET Seen]

DayValues == [day : Nat, w : Nat, n : Nat, seen : SUBSET Seen]

\* The sum of an hour lies between as many of its least and of its highest readings,
\* and all of them are of this hour of this day.
HourWatched(x) ==
    /\ x.n > 0 /\ x.hour \in HOURS
    /\ \A r \in x.seen : r[1] = x.day /\ r[2] = x.hour
    /\ \E low, high \in {r[3] : r \in x.seen} :
           /\ \A v \in {r[3] : r \in x.seen} : low <= v /\ v <= high
           /\ x.n * low <= x.sum /\ x.sum <= x.n * high

\* What ProfileOfWholeHours says of one value.
ValueOf(e, h) ==
    /\ e.n >= MIN_READINGS
    /\ \A r \in e.seen : r[1] = e.day /\ r[2] = h
    /\ Least({r[3] : r \in e.seen}) <= e.w /\ e.w <= Most({r[3] : r \in e.seen})

\* An hour of a day before another.
Before(day, hour, later, laterHour) == day < later \/ (day = later /\ hour < laterHour)

\* The values of an hour of the day, all from before an hour of a day, in order.
Listed(list, h, day, hour) ==
    /\ list \in Seq(DayValues) /\ Len(list) <= PROFILE_DAYS
    /\ \A k \in 1..Len(list) : ValueOf(list[k], h) /\ Before(list[k].day, h, day, hour)
    /\ \A k \in 2..Len(list) : list[k - 1].day < list[k].day

SunInv ==
    /\ lauf \in HourSums
    /\ lauf = NoHour \/ HourWatched(lauf)
    /\ DOMAIN tage = HOURS
    /\ \A h \in HOURS : Listed(tage[h], h, lauf.day, lauf.hour)

FirstOf(day, hour) == [NoHour EXCEPT !.day = day, !.hour = hour]

Added(x, w, r) == [x EXCEPT !.sum = @ + w, !.n = @ + 1, !.seen = @ \cup {r}]

LEMMA ReadingAdded ==
    ASSUME NEW x, x \in HourSums, NEW w \in Nat, NEW r, r \in Seen, NEW y, y = Added(x, w, r)
    PROVE  /\ y.sum = x.sum + w /\ y.n = x.n + 1 /\ y.seen = x.seen \cup {r}
           /\ y.day = x.day /\ y.hour = x.hour /\ y \in HourSums
<1> DEFINE more  == x.sum + w
           n     == x.n + 1
           all   == x.seen \cup {r}
<1>1. more \in Nat /\ n \in Nat /\ all \in SUBSET Seen
  BY DEF HourSums
<1>2. y = [x EXCEPT !.sum = more, !.n = n, !.seen = all]
  BY DEF Added
<1> HIDE DEF more, n, all
<1>3. /\ y.sum = more /\ y.n = n /\ y.seen = all
      /\ y.day = x.day /\ y.hour = x.hour /\ y \in HourSums
  BY <1>1, <1>2 DEF HourSums
<1> QED
  BY <1>3 DEF more, n, all

\* The hour goes on with another reading.
LEMMA HourGoesOn ==
    ASSUME NEW x \in HourSums, HourWatched(x), NEW w \in Nat, NEW y,
           y = Added(x, w, <<x.day, x.hour, w>>)
    PROVE  y \in HourSums /\ HourWatched(y) /\ y.day = x.day /\ y.hour = x.hour
<1> DEFINE r == <<x.day, x.hour, w>>
<1>1. /\ x.sum \in Nat /\ x.n \in Nat /\ x.day \in Nat /\ x.hour \in Nat /\ x.seen \in SUBSET Seen
      /\ r \in Seen /\ r[1] = x.day /\ r[2] = x.hour /\ r[3] = w
  BY DEF HourSums, Seen
<1>2. /\ y.sum = x.sum + w /\ y.n = x.n + 1 /\ y.seen = x.seen \cup {r}
      /\ y.day = x.day /\ y.hour = x.hour /\ y \in HourSums
  <2>1. y = Added(x, w, r)
    OBVIOUS
  <2>2. x \in HourSums /\ w \in Nat /\ r \in Seen
    BY <1>1
  <2> HIDE DEF r
  <2> QED
    BY <2>1, <2>2, ReadingAdded, Zenon
<1> HIDE DEF r
<1> DEFINE W == {q[3] : q \in x.seen}
           V == {q[3] : q \in y.seen}
<1>3. V = W \cup {w}
  BY <1>1, <1>2
<1>4. W \subseteq Nat
  BY <1>1 DEF Seen
<1>5. PICK low \in W, high \in W : /\ \A v \in W : low <= v /\ v <= high
                                   /\ x.n * low <= x.sum /\ x.sum <= x.n * high
  BY DEF HourWatched
<1> HIDE DEF W, V
<1>6. low \in Nat /\ high \in Nat
  BY <1>4
<1>7. PICK lo \in {low, w} : lo <= low /\ lo <= w
  BY <1>6
<1>8. PICK hi \in {high, w} : high <= hi /\ w <= hi
  BY <1>6
<1>9. lo \in V /\ hi \in V /\ lo \in Nat /\ hi \in Nat /\ \A v \in V : v \in Nat /\ lo <= v /\ v <= hi
  BY <1>3, <1>4, <1>5, <1>6, <1>7, <1>8
<1>10. y.n * lo <= y.sum /\ y.sum <= y.n * hi
  <2>1. /\ x.n * lo \in Nat /\ x.n * low \in Nat /\ x.n * lo <= x.n * low
        /\ x.n * hi \in Nat /\ x.n * high \in Nat /\ x.n * high <= x.n * hi
    BY <1>1, <1>6, <1>7, <1>8, <1>9
  <2>2. (x.n + 1) * lo = x.n * lo + lo /\ (x.n + 1) * hi = x.n * hi + hi
    BY <1>1, <1>9
  <2> QED
    BY <1>1, <1>2, <1>5, <1>7, <1>8, <1>9, <2>1, <2>2
<1>11. \A q \in y.seen : q[1] = y.day /\ q[2] = y.hour
  BY <1>1, <1>2 DEF HourWatched
<1>12. y.n > 0 /\ y.hour \in HOURS
  BY <1>1, <1>2 DEF HourWatched
<1> QED
  BY <1>2, <1>9, <1>10, <1>11, <1>12 DEF HourWatched, V

\* The first reading of an hour.
LEMMA HourBegins ==
    ASSUME NEW day \in Nat, NEW hour \in HOURS, NEW w \in Nat, NEW y,
           y = Added(FirstOf(day, hour), w, <<day, hour, w>>)
    PROVE  y \in HourSums /\ HourWatched(y) /\ y.day = day /\ y.hour = hour
<1> DEFINE r == <<day, hour, w>>
           base == FirstOf(day, hour)
<1>1. r \in Seen /\ r[1] = day /\ r[2] = hour /\ r[3] = w /\ hour \in Nat
  BY EstimatorsAssumption DEF Seen
<1>2. /\ base \in HourSums /\ base.day = day /\ base.hour = hour
      /\ base.sum = 0 /\ base.n = 0 /\ base.seen = {}
  <2> DEFINE none  == NoHour
             first == [none EXCEPT !.day = day]
  <2>1. none \in HourSums /\ none.sum = 0 /\ none.n = 0 /\ none.seen = {}
    BY DEF NoHour, HourSums
  <2>2. base = [first EXCEPT !.hour = hour]
    BY DEF FirstOf
  <2> HIDE DEF none
  <2>3. first \in HourSums /\ first.day = day /\ first.sum = 0 /\ first.n = 0 /\ first.seen = {}
    BY <2>1 DEF HourSums
  <2> HIDE DEF first, base
  <2> QED
    BY <1>1, <2>2, <2>3 DEF HourSums
<1> HIDE DEF r, base
<1>3. y = Added(base, w, r)
  BY DEF r, base
<1>4. y.day = day /\ y.hour = hour /\ y.sum = w /\ y.n = 1 /\ y.seen = {r} /\ y \in HourSums
  <2>1. /\ y.sum = base.sum + w /\ y.n = base.n + 1 /\ y.seen = base.seen \cup {r}
        /\ y.day = base.day /\ y.hour = base.hour /\ y \in HourSums
    <3>1. base \in HourSums /\ w \in Nat /\ r \in Seen
      BY <1>1, <1>2
    <3> QED
      BY <1>3, <3>1, ReadingAdded, Zenon
  <2> QED
    BY <1>2, <2>1
<1>5. {q[3] : q \in y.seen} = {w}
  BY <1>1, <1>4
<1>6. 1 * w <= w /\ w <= 1 * w /\ \A v \in {w} : w <= v /\ v <= w
  OBVIOUS
<1>7. \A q \in y.seen : q[1] = y.day /\ q[2] = y.hour
  BY <1>1, <1>4
<1>8. \E low, high \in {q[3] : q \in y.seen} :
          /\ \A v \in {q[3] : q \in y.seen} : low <= v /\ v <= high
          /\ y.n * low <= y.sum /\ y.sum <= y.n * high
  <2> DEFINE V == {q[3] : q \in y.seen}
  <2>1. w \in V /\ \A v \in V : w <= v /\ v <= w
    BY <1>5, <1>6
  <2> HIDE DEF V
  <2>2. \E low, high \in V : /\ \A v \in V : low <= v /\ v <= high
                             /\ y.n * low <= y.sum /\ y.sum <= y.n * high
    BY <1>4, <1>6, <2>1
  <2> QED
    BY <2>2 DEF V
<1> QED
  BY <1>4, <1>7, <1>8 DEF HourWatched

\* The mean of a watched hour is a value of the profile.
LEMMA HourIsValue ==
    ASSUME NEW x \in HourSums, HourWatched(x), x.n >= MIN_READINGS,
           NEW e, e = [day |-> x.day, w |-> RoundDiv(x.sum, x.n), n |-> x.n, seen |-> x.seen]
    PROVE  e \in DayValues /\ ValueOf(e, x.hour) /\ e.day = x.day
<1> DEFINE W == {r[3] : r \in x.seen}
<1>1. x.sum \in Nat /\ x.n \in Nat \ {0} /\ x.day \in Nat /\ x.seen \in SUBSET Seen
  BY DEF HourSums, HourWatched
<1>2. W \subseteq Nat
  BY <1>1 DEF Seen
<1>3. PICK low \in W, high \in W : /\ \A v \in W : low <= v /\ v <= high
                                   /\ x.n * low <= x.sum /\ x.sum <= x.n * high
  BY DEF HourWatched
<1> HIDE DEF W
<1>4. low \in Nat /\ high \in Nat /\ \A v \in W : v \in Nat /\ low <= v /\ high >= v
  BY <1>2, <1>3
<1>5. Least(W) \in Nat /\ Least(W) <= low
  <2>1. Least(W) \in W /\ \A v \in W : Least(W) <= v
    BY <1>4 DEF Least
  <2> QED  BY <1>4, <2>1
<1>6. Most(W) \in Nat /\ high <= Most(W)
  <2>1. Most(W) \in W /\ \A v \in W : Most(W) >= v
    BY <1>4 DEF Most
  <2> QED  BY <1>4, <2>1
<1> DEFINE mean == RoundDiv(x.sum, x.n)
<1>7. mean \in Nat /\ low <= mean /\ mean <= high
  BY <1>1, <1>3, <1>4, RoundedBetween
<1> HIDE DEF mean
<1>8. e = [day |-> x.day, w |-> mean, n |-> x.n, seen |-> x.seen]
  BY DEF mean
<1>9. e.day = x.day /\ e.w = mean /\ e.n = x.n /\ e.seen = x.seen /\ e \in DayValues
  BY <1>1, <1>7, <1>8 DEF DayValues
<1>10. Least(W) <= e.w /\ e.w <= Most(W)
  BY <1>4, <1>5, <1>6, <1>7, <1>9
<1>11. \A r \in e.seen : r[1] = e.day /\ r[2] = x.hour
  BY <1>9 DEF HourWatched
<1>12. {r[3] : r \in e.seen} = W
  BY <1>9 DEF W
<1> QED
  BY <1>9, <1>10, <1>11, <1>12 DEF ValueOf

-----------------------------------------------------------------------------
\* Time goes on.
LEMMA StillListed ==
    ASSUME NEW list, NEW h \in Nat, NEW day \in Nat, NEW hour \in Nat, Listed(list, h, day, hour),
           NEW later \in Nat, NEW laterHour \in Nat,
           later > day \/ (later = day /\ laterHour >= hour)
    PROVE  Listed(list, h, later, laterHour)
<1>1. ASSUME NEW k \in 1..Len(list) PROVE Before(list[k].day, h, later, laterHour)
  <2>1. list[k].day \in Nat
    <3>1. list[k] \in DayValues
      BY DEF Listed
    <3> QED  BY <3>1 DEF DayValues
  <2>2. Before(list[k].day, h, day, hour)
    BY DEF Listed
  <2> QED
    BY <2>1, <2>2 DEF Before
<1> QED
  BY <1>1 DEF Listed

\* A value joins, and the oldest beyond the window leaves.
LEMMA ValueJoins ==
    ASSUME NEW list, NEW h \in Nat, NEW d \in Nat, Listed(list, h, d, h),
           NEW e, e \in DayValues, ValueOf(e, h), e.day = d,
           NEW day \in Nat, NEW hour \in Nat, Before(d, h, day, hour)
    PROVE  LET days == Append(list, e)
           IN  Listed(SubSeq(days, Larger(1, Len(days) - PROFILE_DAYS + 1), Len(days)), h, day, hour)
<1> DEFINE days == Append(list, e)
           n    == Len(list) + 1
           m    == Larger(1, n - PROFILE_DAYS + 1)
           kept == SubSeq(days, m, n)
<1>1. list \in Seq(DayValues) /\ Len(list) \in Nat /\ PROFILE_DAYS \in Nat \ {0}
  BY EstimatorsAssumption DEF Listed
<1>2. /\ Len(days) = n /\ days \in Seq(DayValues) /\ days[n] = e
      /\ \A k \in 1..Len(list) : days[k] = list[k]
  BY <1>1
<1>3. \A k \in 1..Len(list) : list[k] \in DayValues /\ list[k].day \in Nat
  <2>1. \A k \in 1..Len(list) : list[k] \in DayValues
    BY <1>1
  <2> QED
    BY <2>1 DEF DayValues
<1>4. \A k \in 1..n : ValueOf(days[k], h) /\ Before(days[k].day, h, day, hour)
  <2>1. ASSUME NEW k \in 1..Len(list) PROVE ValueOf(days[k], h) /\ Before(days[k].day, h, day, hour)
    <3>1. ValueOf(list[k], h) /\ Before(list[k].day, h, d, h) /\ days[k] = list[k]
      BY <1>2 DEF Listed
    <3>2. list[k].day \in Nat
      BY <1>3
    <3> QED
      BY <3>1, <3>2 DEF Before
  <2>2. ValueOf(days[n], h) /\ Before(days[n].day, h, day, hour)
    BY <1>2
  <2>3. \A k \in 1..n : k \in 1..Len(list) \/ k = n
    BY <1>1
  <2> HIDE DEF days, n
  <2> QED
    BY <2>1, <2>2, <2>3
<1>5. \A k \in 2..n : days[k - 1].day < days[k].day
  <2>1. ASSUME NEW k \in 2..n PROVE days[k - 1].day < days[k].day
    <3>1. k - 1 \in 1..Len(list) /\ (k \in 2..Len(list) \/ k = n)
      BY <1>1
    <3>2. days[k - 1] = list[k - 1]
      BY <1>2, <3>1
    <3>3. CASE k \in 2..Len(list)
      <4>1. days[k] = list[k]
        BY <1>1, <1>2, <3>3
      <4>2. list[k - 1].day < list[k].day
        BY <3>3 DEF Listed
      <4> QED  BY <3>2, <4>1, <4>2
    <3>4. CASE k = n
      <4>1. Before(list[k - 1].day, h, d, h)
        BY <3>1 DEF Listed
      <4>2. list[k - 1].day \in Nat
        BY <1>3, <3>1
      <4>3. list[k - 1].day < d
        BY <4>1, <4>2 DEF Before
      <4>4. days[k].day = d
        BY <1>2, <3>4
      <4> QED  BY <3>2, <4>3, <4>4
    <3> QED  BY <3>1, <3>3, <3>4
  <2> QED  BY <2>1
<1>6. n \in Nat \ {0} /\ m \in Nat \ {0} /\ m <= n /\ n - m + 1 <= PROFILE_DAYS
  BY <1>1 DEF Larger
<1> HIDE DEF days, n, m
<1>7. /\ kept \in Seq(DayValues) /\ Len(kept) = n - m + 1
      /\ \A i \in 1..(n - m + 1) : kept[i] = days[m + i - 1]
  BY <1>2, <1>6
<1> HIDE DEF kept
<1>8. \A i \in 1..Len(kept) : ValueOf(kept[i], h) /\ Before(kept[i].day, h, day, hour)
  <2>1. ASSUME NEW i \in 1..Len(kept) PROVE m + i - 1 \in 1..n /\ kept[i] = days[m + i - 1]
    BY <1>6, <1>7
  <2> QED
    BY <1>4, <2>1
<1>9. \A i \in 2..Len(kept) : kept[i - 1].day < kept[i].day
  <2>1. ASSUME NEW i \in 2..Len(kept) PROVE kept[i - 1].day < kept[i].day
    <3>1. PICK k \in 2..n : k = m + i - 1
      BY <1>6, <1>7
    <3>2. kept[i] = days[k] /\ kept[i - 1] = days[k - 1]
      BY <1>6, <1>7, <3>1
    <3> QED
      BY <1>5, <3>2
  <2> QED  BY <2>1
<1>10. Listed(kept, h, day, hour)
  BY <1>6, <1>7, <1>8, <1>9 DEF Listed
<1> QED
  BY <1>2, <1>10 DEF kept, m, days

\* A reading of the sun.
LEMMA SunStep ==
    ASSUME SunInv, NEW day \in 1..MAX_DAY, NEW hour \in HOURS, NEW w \in POWERS, SunCycle(day, hour, w)
    PROVE  SunInv'
<1> DEFINE same  == SameHour(day, hour)
           fresh == [NoHour EXCEPT !.day = day, !.hour = hour]
           base  == IF same THEN lauf ELSE fresh
           r     == <<day, hour, w>>
<1>1. /\ day \in Nat /\ hour \in Nat /\ w \in Nat /\ HOURS \subseteq Nat
      /\ lauf \in HourSums /\ lauf.day \in Nat /\ lauf.hour \in Nat
  <2>1. day \in Nat /\ hour \in Nat /\ w \in Nat /\ HOURS \subseteq Nat
    BY EstimatorsAssumption, MostPower
  <2>2. lauf \in HourSums
    BY DEF SunInv
  <2> QED
    BY <2>1, <2>2 DEF HourSums
<1>2. /\ day > lauf.day \/ (day = lauf.day /\ hour >= lauf.hour)
      /\ lauf' = [base EXCEPT !.sum = @ + w, !.n = @ + 1, !.seen = @ \cup {r}]
      /\ tage' = IF lauf = NoHour \/ same THEN tage ELSE HourEnded
  BY DEF SunCycle
<1>3. lauf' \in HourSums /\ HourWatched(lauf') /\ lauf'.day = day /\ lauf'.hour = hour
  <2>1. PICK new : new = lauf'
    OBVIOUS
  <2>2. CASE same
    <3>1. lauf.day = day /\ lauf.hour = hour /\ HourWatched(lauf)
      BY <2>2 DEF SameHour, SunInv
    <3>2. lauf' = Added(lauf, w, <<lauf.day, lauf.hour, w>>)
      BY <1>2, <2>2, <3>1 DEF Added
    <3>3. PICK x \in HourSums : x = lauf
      BY <1>1
    <3>4. new = Added(x, w, <<x.day, x.hour, w>>) /\ HourWatched(x)
      BY <2>1, <3>1, <3>2, <3>3
    <3>5. new \in HourSums /\ HourWatched(new) /\ new.day = x.day /\ new.hour = x.hour
      BY <1>1, <3>4, HourGoesOn
    <3> QED
      BY <2>1, <3>1, <3>3, <3>5
  <2>3. CASE ~same
    <3>1. new = Added(FirstOf(day, hour), w, <<day, hour, w>>)
      BY <1>2, <2>1, <2>3 DEF Added, FirstOf
    <3>2. new \in HourSums /\ HourWatched(new) /\ new.day = day /\ new.hour = hour
      BY <1>1, <3>1, HourBegins
    <3> QED
      BY <2>1, <3>2
  <2> QED
    BY <2>2, <2>3
\* The values there were.
<1>4. ASSUME NEW h \in HOURS PROVE Listed(tage[h], h, day, hour)
  <2>1. PICK d \in Nat, k \in Nat : d = lauf.day /\ k = lauf.hour
    BY <1>1
  <2>2. Listed(tage[h], h, d, k)
    BY <2>1 DEF SunInv
  <2> QED
    BY <1>1, <1>2, <2>1, <2>2, StillListed
<1>5. CASE tage' = tage
  <2>1. DOMAIN tage' = HOURS /\ \A h \in HOURS : Listed(tage'[h], h, lauf'.day, lauf'.hour)
    BY <1>3, <1>4, <1>5 DEF SunInv
  <2> QED
    BY <1>3, <2>1 DEF SunInv
<1>6. CASE tage' # tage
  <2> DEFINE last  == lauf.hour
             entry == [day |-> lauf.day, w |-> RoundDiv(lauf.sum, lauf.n), n |-> lauf.n, seen |-> lauf.seen]
             days  == Append(tage[last], entry)
             kept  == SubSeq(days, Larger(1, Len(days) - PROFILE_DAYS + 1), Len(days))
  <2>1. lauf # NoHour /\ ~same /\ tage' = HourEnded
    BY <1>2, <1>6
  <2>2. lauf.n >= MIN_READINGS /\ tage' = [tage EXCEPT ![last] = kept]
    BY <1>6, <2>1 DEF HourEnded
  <2>3. HourWatched(lauf) /\ last \in HOURS
    BY <2>1 DEF SunInv, HourWatched
  <2>4. Before(lauf.day, last, day, hour)
    BY <1>1, <1>2, <2>1 DEF Before, SameHour
  <2>5. PICK d \in Nat, h \in HOURS, e \in {entry}, list \in {tage[last]} : d = lauf.day /\ h = last
    BY <1>1, <2>3
  <2>6. e \in DayValues /\ ValueOf(e, h) /\ e.day = d
    <3>1. PICK x \in HourSums : x = lauf
      BY <1>1
    <3>2. HourWatched(x) /\ x.n >= MIN_READINGS /\ x.hour = h /\ x.day = d
          /\ e = [day |-> x.day, w |-> RoundDiv(x.sum, x.n), n |-> x.n, seen |-> x.seen]
      BY <2>2, <2>3, <2>5, <3>1
    <3> QED
      BY <3>2, HourIsValue
  <2>7. kept = SubSeq(Append(list, e), Larger(1, Len(Append(list, e)) - PROFILE_DAYS + 1), Len(Append(list, e)))
    BY <2>5
  <2> HIDE DEF entry, days, kept, last
  <2>8. Listed(kept, h, day, hour)
    <3>1. Listed(list, h, d, h)
      BY <2>5 DEF SunInv, last
    <3>2. Before(d, h, day, hour) /\ h \in Nat
      BY <1>1, <2>4, <2>5
    <3> QED
      BY <1>1, <2>6, <2>7, <3>1, <3>2, ValueJoins
  <2>9. DOMAIN tage' = HOURS
    BY <2>2 DEF SunInv
  <2>10. ASSUME NEW k \in HOURS PROVE Listed(tage'[k], k, day, hour)
    <3>1. CASE k = h
      <4>1. tage'[k] = kept
        BY <2>2, <2>3, <2>5, <3>1 DEF SunInv
      <4> QED
        BY <2>8, <3>1, <4>1
    <3>2. CASE k # h
      <4>1. tage'[k] = tage[k]
        BY <2>2, <2>3, <2>5, <3>2 DEF SunInv
      <4> QED
        BY <1>4, <4>1
    <3> QED
      BY <3>1, <3>2
  <2> QED
    BY <1>3, <2>9, <2>10 DEF SunInv
<1> QED
  BY <1>5, <1>6

LEMMA ProfileIsWhole == SunInv => ProfileOfWholeHours
<1> SUFFICES ASSUME SunInv, NEW h \in HOURS, NEW k \in DOMAIN tage[h]
             PROVE  /\ Len(tage[h]) <= PROFILE_DAYS
                    /\ tage[h][k].n >= MIN_READINGS
                    /\ \A r \in tage[h][k].seen : r[1] = tage[h][k].day /\ r[2] = h
                    /\ Least({r[3] : r \in tage[h][k].seen}) <= tage[h][k].w
                    /\ tage[h][k].w <= Most({r[3] : r \in tage[h][k].seen})
                    /\ k > 1 => tage[h][k - 1].day < tage[h][k].day
  BY DEF ProfileOfWholeHours
<1>1. Listed(tage[h], h, lauf.day, lauf.hour)
  BY DEF SunInv
<1>2. k \in 1..Len(tage[h]) /\ Len(tage[h]) \in Nat
  BY <1>1 DEF Listed
<1>3. ValueOf(tage[h][k], h) /\ Len(tage[h]) <= PROFILE_DAYS
  BY <1>1, <1>2 DEF Listed
<1>4. k > 1 => tage[h][k - 1].day < tage[h][k].day
  BY <1>1, <1>2 DEF Listed
<1> QED
  BY <1>3, <1>4 DEF ValueOf

-----------------------------------------------------------------------------
(***************************************************************************)
(* Estimators: all of them.                                                *)
(***************************************************************************)
LearnInv ==
    /\ topic \in {"capacity", "rise"} => LearnedTypes
    /\ topic = "capacity" => EnergyGiven /\ CapacityNotOverrated
    /\ topic = "rise" => PowerTaken /\ RiseNotOverrated
    /\ topic = "load" => LoadInv
    /\ topic = "rate" => RateInv
    /\ SunInv

LEMMA LearnStarts == LearnInit => LearnInv
<1> SUFFICES ASSUME LearnInit PROVE LearnInv
  OBVIOUS
<1>1. charge \in Nat /\ running = 0 /\ stretch = None /\ est = NoEstimate /\ night = NoNight
  BY EstimatorsAssumption DEF LearnInit, Full
<1>2. LearnedTypes
  BY <1>1 DEF LearnedTypes, Fields, None, NoEstimate
<1>3. ~Measuring /\ est.count = 0 /\ est.value = 0
  BY <1>1 DEF Measuring, NoEstimate
<1>4. running <= Most(POWERS)
  BY <1>1, MostPower
<1>5. LoadInv
  <2>1. night.energy = 0 /\ night.minutes = 0 /\ night \in [energy : Nat, minutes : Nat]
    BY <1>1 DEF NoNight
  <2>2. Most(POWERS) \in Nat /\ (House # {} => Least(House) \in Nat)
    BY MostPower, LeastPower
  <2>3. NightMeasured
    BY <2>1, <2>2 DEF NightMeasured
  <2> QED
    BY <1>2, <1>3, <2>1, <2>3 DEF LoadInv, LoadTypes, HouseDraws, LoadNearTruth
<1>6. RateInv
  <2>1. proben = <<>> /\ kwAge = 0 /\ disturbed = FALSE
    BY DEF LearnInit
  <2>2. proben \in Seq(Probes)
    BY <2>1
  <2>3. kwAge \in Nat /\ disturbed \in BOOLEAN
    BY <2>1
  <2>4. 10 * est.value <= PEAK_W + 5
    BY <1>3, EstimatorsAssumption
  <2> QED
    BY <1>2, <2>2, <2>3, <2>4 DEF RateInv, LearnedTypes
<1>7. SunInv
  <2>1. lauf = NoHour /\ tage = [h \in HOURS |-> <<>>]
    BY DEF LearnInit
  <2>2. lauf \in HourSums
    BY <2>1 DEF NoHour, HourSums
  <2>3. DOMAIN tage = HOURS /\ \A h \in HOURS : tage[h] = <<>>
    BY <2>1
  <2>4. <<>> \in Seq(DayValues) /\ Len(<<>>) = 0 /\ PROFILE_DAYS \in Nat
    BY EstimatorsAssumption
  <2>5. ASSUME NEW h \in HOURS PROVE Listed(tage[h], h, lauf.day, lauf.hour)
    <3>1. PICK list \in Seq(DayValues) : list = tage[h] /\ Len(list) = 0
      BY <2>3, <2>4
    <3>2. 1..Len(list) = {} /\ 2..Len(list) = {} /\ Len(list) <= PROFILE_DAYS
      BY <2>4, <3>1
    <3> QED
      BY <3>1, <3>2 DEF Listed
  <2> QED
    BY <2>1, <2>2, <2>3, <2>5 DEF SunInv
<1> QED
  BY <1>2, <1>3, <1>4, <1>5, <1>6, <1>7
     DEF LearnInv, EnergyGiven, PowerTaken, CapacityNotOverrated, RiseNotOverrated

LEMMA LearnStep == LearnInv /\ [LearnNext]_learnVars => LearnInv'
<1> SUFFICES ASSUME LearnInv, [LearnNext]_learnVars PROVE LearnInv'
  OBVIOUS
<1>1. UNCHANGED topic
  BY DEF LearnNext, learnVars
\* A refilled or an emptied battery ends the stretch.
<1>2. ASSUME topic = "capacity", Refill PROVE LearnedTypes' /\ EnergyGiven' /\ CapacityNotOverrated'
  <2>1. LearnedTypes /\ CapacityNotOverrated
    BY <1>2 DEF LearnInv
  <2>2. charge' \in Nat /\ running' = 0 /\ est' = est /\ stretch' = Idle(MAX_STEP_GAP + 1)
    BY <1>2, EstimatorsAssumption DEF Refill, Full
  <2>3. stretch' \in Fields /\ ~Measuring'
    BY <2>1, <2>2, Ended DEF LearnedTypes
  <2> QED
    BY <1>1, <2>1, <2>2, <2>3 DEF LearnedTypes, EnergyGiven, CapacityNotOverrated
<1>3. ASSUME topic = "rise", Drain PROVE LearnedTypes' /\ PowerTaken' /\ RiseNotOverrated'
  <2>1. LearnedTypes /\ RiseNotOverrated
    BY <1>3 DEF LearnInv
  <2>2. charge' \in Nat /\ running' = 0 /\ est' = est /\ stretch' = Idle(MAX_STEP_GAP + 1)
    BY <1>3 DEF Drain
  <2>3. stretch' \in Fields /\ ~Measuring'
    BY <2>1, <2>2, Ended DEF LearnedTypes
  <2>4. running' <= Most(POWERS)
    BY <2>2, MostPower
  <2> QED
    BY <1>1, <2>1, <2>2, <2>3, <2>4 DEF LearnedTypes, PowerTaken, RiseNotOverrated
<1>4. topic = "capacity" => LearnedTypes' /\ EnergyGiven' /\ CapacityNotOverrated'
  <2>1. SUFFICES ASSUME topic = "capacity" PROVE LearnedTypes' /\ EnergyGiven' /\ CapacityNotOverrated'
    OBVIOUS
  <2>2. LearnedTypes /\ EnergyGiven /\ CapacityNotOverrated
    BY <2>1 DEF LearnInv
  <2>3. CASE UNCHANGED measured
    BY <1>1, <2>2, <2>3 DEF LearnedTypes, EnergyGiven, Measuring, CapacityNotOverrated, measured
  <2>4. CASE Refill
    BY <1>2, <2>1, <2>4
  <2>5. CASE \E w \in POWERS, ok \in BOOLEAN, gap \in STEP_GAPS, extra \in EXTRA_WH :
                 CapacityCycle(w, ok, gap, extra)
    BY <1>1, <2>1, <2>2, <2>5, CapacityStep
  <2> QED
    BY <2>1, <2>3, <2>4, <2>5 DEF LearnNext, learnVars, measured, Measures, ItemMissing
<1>5. topic = "rise" => LearnedTypes' /\ PowerTaken' /\ RiseNotOverrated'
  <2>1. SUFFICES ASSUME topic = "rise" PROVE LearnedTypes' /\ PowerTaken' /\ RiseNotOverrated'
    OBVIOUS
  <2>2. LearnedTypes /\ PowerTaken /\ RiseNotOverrated
    BY <2>1 DEF LearnInv
  <2>3. CASE UNCHANGED measured
    BY <1>1, <2>2, <2>3 DEF LearnedTypes, PowerTaken, Measuring, RiseNotOverrated, measured
  <2>4. CASE Drain
    BY <1>3, <2>1, <2>4
  <2>5. CASE \E w \in POWERS, gap \in STEP_GAPS, measures \in BOOLEAN : RiseCycle(w, gap, measures)
    BY <1>1, <2>1, <2>2, <2>5, RiseStep
  <2> QED
    BY <2>1, <2>3, <2>4, <2>5 DEF LearnNext, learnVars, measured, Measures, ItemMissing
<1>6. topic = "load" => LoadInv'
  <2>1. SUFFICES ASSUME topic = "load" PROVE LoadInv'
    OBVIOUS
  <2>2. LoadInv
    BY <2>1 DEF LearnInv
  <2>3. CASE UNCHANGED measured
    BY <1>1, <2>2, <2>3 DEF LoadInv, LoadTypes, LearnedTypes, HouseDraws, Measuring, NightMeasured,
                            LoadNearTruth, measured
  <2>4. CASE \E w \in House, gap \in STEP_GAPS, newNight \in BOOLEAN : LoadCycle(w, gap, newNight)
    BY <1>1, <2>1, <2>2, <2>4, LoadStep
  <2>5. CASE \E w \in House, gap \in STEP_GAPS :
                 LoadSkipped(w, gap) \/ \E commanded \in House : LoadCleared(w, gap, commanded)
    BY <1>1, <2>1, <2>2, <2>5, UnmeasuredStep
  <2> QED
    BY <2>1, <2>3, <2>4, <2>5 DEF LearnNext, learnVars, measured, Measures, ItemMissing, House
<1>7. topic = "rate" => RateInv'
  <2>1. SUFFICES ASSUME topic = "rate" PROVE RateInv'
    OBVIOUS
  <2>2. RateInv
    BY <2>1 DEF LearnInv
  <2>3. CASE UNCHANGED <<est, rated>>
    BY <2>2, <2>3 DEF RateInv, rated
  <2>4. CASE \E w \in READINGS_W, gap \in SAMPLE_GAPS : RateCycle(w, gap)
    BY <2>2, <2>4, RateStep
  <2> QED
    BY <2>1, <2>3, <2>4 DEF LearnNext, learnVars, measured, rated, Measures, ItemMissing
<1>8. SunInv'
  <2>1. SunInv
    BY DEF LearnInv
  <2>2. CASE UNCHANGED sunned
    BY <2>1, <2>2 DEF SunInv, HourWatched, sunned
  <2>3. CASE \E day \in 1..MAX_DAY, hour \in HOURS, w \in POWERS : SunCycle(day, hour, w)
    BY <2>1, <2>3, SunStep
  <2> QED
    BY <2>2, <2>3 DEF LearnNext, learnVars, sunned, ItemMissing
<1> QED
  BY <1>1, <1>4, <1>5, <1>6, <1>7, <1>8 DEF LearnInv

LEMMA Learned == LearnSpec => []LearnInv
BY LearnStarts, LearnStep, PTL DEF LearnSpec

\* Neither the capacity nor the charging power is learned too high, in a battery of
\* any size, with any powers, gaps, unconfirmed commands and interruptions.
THEOREM LearnsNothingTooHigh == LearnSpec => []NotOverrated
<1>1. LearnInv => NotOverrated
  BY DEF LearnInv, NotOverrated, CapacityNotOverrated, RiseNotOverrated
<1> QED
  BY <1>1, Learned, PTL

\* What is learned of the load of the house, the peak at noon and the sun is what was
\* measured, whatever commands, outliers, missing cycles and days lie between.
THEOREM LearnsWhatIsTrue == LearnSpec => []LearnedIsTrue
<1>1. LearnInv => LearnedIsTrue
  <2> SUFFICES ASSUME LearnInv PROVE LearnedIsTrue
    OBVIOUS
  <2>1. LoadNearTruth
    BY DEF LearnInv, LoadInv, LoadNearTruth
  <2>2. OutlierIgnored
    BY DEF LearnInv, RateInv, OutlierIgnored
  <2>3. ProfileOfWholeHours
    BY ProfileIsWhole DEF LearnInv
  <2> QED
    BY <2>1, <2>2, <2>3 DEF LearnedIsTrue
<1> QED
  BY <1>1, Learned, PTL
=============================================================================

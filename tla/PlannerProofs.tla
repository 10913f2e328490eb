--------------------------- MODULE PlannerProofs ---------------------------
(***************************************************************************)
(* Proofs about the plan of a day and of a night (module Planner), for     *)
(* every site within the plausible ranges, every sun, forecast, learned    *)
(* profile and every times of the plan:                                    *)
(*   - the types: no command above the hard limit, no limit of zero;       *)
(*   - a night that has been fed from reaches the morning with what the    *)
(*     house needs and the member's reserve;                               *)
(*   - holding the charge back never costs a full battery.                 *)
(***************************************************************************)
EXTENDS Planner, SetFacts, FiniteSetTheorems, TLAPS

\* What a cycle reads.
Config ==
    /\ scene \in DOMAIN SCENES
    /\ times \in plan.times
    /\ view \in plan.views \cup {NoView}
    /\ now \in Clock
    /\ charge \in 0..Cap
    /\ fresh \in BOOLEAN /\ heavy \in BOOLEAN

(***************************************************************************)
(* Arithmetic.                                                             *)
(***************************************************************************)
LEMMA DivFacts ==
    ASSUME NEW a \in Int, NEW b \in Nat, b > 0
    PROVE  /\ a \div b \in Int
           /\ b * (a \div b) <= a /\ a < b * (a \div b) + b
           /\ a >= 0 => a \div b >= 0
  OBVIOUS

LEMMA RoundFacts ==
    ASSUME NEW a \in Int, NEW b \in Nat, b > 0
    PROVE  /\ RoundDiv(a, b) \in Int
           /\ 2 * (b * RoundDiv(a, b)) <= 2 * a + b
           /\ 2 * a < 2 * (b * RoundDiv(a, b)) + b
           /\ a >= 0 => RoundDiv(a, b) >= 0
<1> DEFINE q == (2 * a + b) \div (2 * b)
<1>1. /\ q \in Int /\ (2 * b) * q <= 2 * a + b /\ 2 * a + b < (2 * b) * q + 2 * b
      /\ 2 * a + b >= 0 => q >= 0
  <2>1. 2 * a + b \in Int /\ 2 * b \in Nat /\ 2 * b > 0
    OBVIOUS
  <2> QED  BY <2>1, DivFacts
<1>2. RoundDiv(a, b) = q
  BY DEF RoundDiv
<1> HIDE DEF q
<1>3. (2 * b) * q = 2 * (b * q) /\ b * q \in Int
  BY <1>1
<1> QED  BY <1>1, <1>2, <1>3

LEMMA Times ==
    ASSUME NEW a \in Nat, NEW b \in Int, NEW c \in Int, b <= c
    PROVE  a * b <= a * c /\ a * b \in Int /\ a * c \in Int
  OBVIOUS

LEMMA LargerFacts ==
    ASSUME NEW a \in Int, NEW b \in Int
    PROVE  /\ Larger(a, b) \in {a, b} /\ Larger(a, b) >= a /\ Larger(a, b) >= b
           /\ Smaller(a, b) \in {a, b} /\ Smaller(a, b) <= a /\ Smaller(a, b) <= b
           /\ Larger(a, b) \in Int /\ Smaller(a, b) \in Int
  BY DEF Larger, Smaller

LEMMA NextFive ==
    ASSUME NEW a \in Nat, NEW b \in Nat, a % 5 = 0, b % 5 = 0, a < b
    PROVE  a + 5 <= b
  OBVIOUS

LEMMA ClockFacts ==
    /\ \A m \in Clock : m \in 0..1435 /\ m % 5 = 0
    /\ \A m \in 0..1439 : m % 5 = 0 => m \in Clock
<1>1. ASSUME NEW m \in Clock PROVE m \in 0..1435 /\ m % 5 = 0
  <2>1. PICK k \in 0..287 : m = 5 * k
    BY DEF Clock, SLOT
  <2> QED  BY <2>1
<1>2. ASSUME NEW m \in 0..1439, m % 5 = 0 PROVE m \in Clock
  <2>1. m \div 5 \in 0..287 /\ m = 5 * (m \div 5)
    BY <1>2
  <2> QED  BY <2>1 DEF Clock, SLOT
<1> QED  BY <1>1, <1>2

LEMMA ClockFives == \A m \in Clock : m % 5 = 0
<1>1. ASSUME NEW m \in Clock PROVE m % 5 = 0
  <2>1. PICK k \in 0..287 : m = 5 * k
    BY DEF Clock, SLOT
  <2> QED  BY <2>1
<1> QED  BY <1>1

LEMMA ClockNumbers == \A m \in Clock : m \in Nat /\ m <= 1435
<1>1. ASSUME NEW m \in Clock PROVE m \in Nat /\ m <= 1435
  <2>1. PICK k \in 0..287 : m = 5 * k
    BY DEF Clock, SLOT
  <2> QED  BY <2>1
<1> QED  BY <1>1

(***************************************************************************)
(* The scene and the times of the plan.                                    *)
(***************************************************************************)
LEMMA SceneIs ==
    ASSUME scene \in DOMAIN SCENES
    PROVE  IsScene(plan)
  BY PlannerAssumption, Zenon DEF plan

LEMMA SceneFacts ==
    ASSUME scene \in DOMAIN SCENES
    PROVE  /\ plan.from \in Clock /\ plan.until \in Clock
           /\ plan.until < plan.from => plan.from >= 900
           /\ plan.peak \in Nat /\ plan.peak > 0
           /\ \A h \in DAY : plan.sun[h] \in 0..100
<1>1. IsScene(plan)
  BY SceneIs
<1> QED  BY <1>1 DEF IsScene

LEMMA DeviceFacts ==
    ASSUME scene \in DOMAIN SCENES
    PROVE  site.device \in {"cap", "floor", "ontop"}
<1>1. site \in Sites
  <2>1. IsScene(plan)
    BY SceneIs
  <2> QED  BY <2>1 DEF IsScene, site
<1> QED  BY <1>1 DEF Sites

LEMMA SiteFacts ==
    ASSUME scene \in DOMAIN SCENES
    PROVE  /\ site.kwh \in 1..100 /\ site.rate \in Nat /\ 300 <= site.rate /\ site.rate <= 30000
           /\ site.load \in Nat /\ site.load <= HEAVY_W /\ HEAVY_W \in Nat
           /\ site.min \in Int /\ site.minW \in Int /\ site.maxW \in Int
           /\ site.threshold \in Int
           /\ Cap = 12000 * site.kwh /\ Cap \in Nat /\ Cap > 0
<1>1. site \in Sites
  <2>1. IsScene(plan)
    BY SceneIs
  <2> QED  BY <2>1 DEF IsScene, site
<1>2. HEAVY_W \in Nat
  BY PlannerAssumption
<1>3. site.kwh \in 1..100 /\ site.rate \in Nat /\ 300 <= site.rate /\ site.rate <= 30000
  <2>1. IsScene(plan)
    BY SceneIs
  <2>2. site.rate \in Nat /\ site.kwh \in 1..100
    BY <1>1 DEF Sites
  <2>3. 300 <= site.rate /\ site.rate <= 30000
    BY <2>1 DEF IsScene, site
  <2> QED  BY <2>2, <2>3
<1>4. site.min \in Int /\ site.minW \in Int /\ site.maxW \in Int /\ site.threshold \in Int
  BY <1>1 DEF Sites
<1>5. site.load \in Nat /\ site.load <= HEAVY_W
  <2>1. site.load \in 0..HEAVY_W
    BY <1>1 DEF Sites
  <2> QED  BY <1>2, <2>1
<1>6. Cap = 12000 * site.kwh /\ Cap \in Nat /\ Cap > 0
  BY <1>3 DEF Cap, KWH
<1> QED  BY <1>2, <1>3, <1>4, <1>5, <1>6

LEMMA ViewFacts ==
    ASSUME Config
    PROVE  /\ view.clouds \in 0..100 \cup {-1} /\ view.share \in Nat \cup {-1}
           /\ IsHours(view.factors, 100) /\ IsHours(view.skies, 100)
<1>1. CASE view = NoView
  <2>1. DOMAIN NoHours = {}
    BY DEF NoHours
  <2> QED  BY <1>1, <2>1 DEF NoView, None, IsHours
<1>2. CASE view \in plan.views
  <2>1. IsScene(plan)
    BY SceneIs DEF Config
  <2> QED  BY <1>2, <2>1 DEF IsScene, None
<1> QED  BY <1>1, <1>2 DEF Config

\* A plausible time, or none.
IsTime(m, from, to) == m = -1 \/ (m \in Clock /\ from * 60 <= m /\ m < to * 60)

LEMMA TimeOfFacts ==
    ASSUME NEW m \in Clock \cup {-1}, NEW from \in Nat, NEW to \in Nat
    PROVE  IsTime(TimeOf(m, from, to), from, to)
<1>1. CASE m = -1
  BY <1>1 DEF TimeOf, None, IsTime
<1>2. CASE m \in Clock
  <2>1. m \in Nat
    BY <1>2, ClockNumbers
  <2>2. ASSUME m \div 60 \in from..(to - 1) PROVE from * 60 <= m /\ m < to * 60
    BY <2>1, <2>2
  <2> QED  BY <1>2, <2>1, <2>2 DEF TimeOf, None, IsTime
<1> QED  BY <1>1, <1>2

LEMMA PlanTimes ==
    ASSUME Config
    PROVE  /\ IsTime(LockStart, 4, 12) /\ IsTime(LockEnd, 5, 15)
           /\ IsTime(Vormittag, 5, 15) /\ IsTime(WeekMorning, 3, 12)
           /\ IsTime(WeekEvening, 12, 24) /\ IsTime(DischargeEnd, 3, 12)
<1>1. times \in TimeItems
  <2>1. IsScene(plan)
    BY SceneIs DEF Config
  <2> QED  BY <2>1 DEF IsScene, Config
<1>2. /\ times.start \in Clock \cup {-1} /\ times.ende \in Clock \cup {-1}
      /\ times.entladeende \in Clock \cup {-1} /\ times.vormittag \in Clock \cup {-1}
      /\ times.morning \in Clock \cup {-1} /\ times.evening \in Clock \cup {-1}
  BY <1>1 DEF TimeItems, None
<1>3. IsTime(LockStart, 4, 12) /\ IsTime(LockEnd, 5, 15)
  BY <1>2, TimeOfFacts DEF LockStart, LockEnd
<1>4. IsTime(WeekMorning, 3, 12) /\ IsTime(WeekEvening, 12, 24)
  BY <1>2, TimeOfFacts DEF WeekMorning, WeekEvening
<1>5. IsTime(TimeOf(times.vormittag, 5, 15), 5, 15) /\ IsTime(TimeOf(times.entladeende, 3, 12), 3, 12)
  BY <1>2, TimeOfFacts
<1>6. IsTime(Vormittag, 5, 15)
  BY <1>5 DEF Vormittag, None, IsTime
<1>7. IsTime(DischargeEnd, 3, 12)
  BY <1>4, <1>5 DEF DischargeEnd
<1> QED  BY <1>3, <1>4, <1>6, <1>7

(***************************************************************************)
(* Sunny hours.                                                            *)
(***************************************************************************)
LEMMA OverlapFacts ==
    ASSUME NEW h \in Int, NEW from \in Int, NEW to \in Int
    PROVE  Overlap(h, from, to) \in Nat
<1> DEFINE a == Smaller((h + 1) * 60, to)
           b == Larger(h * 60, from)
           c == Larger(0, a - b)
<1>1. (h + 1) * 60 \in Int /\ h * 60 \in Int
  OBVIOUS
<1>2. a \in Int /\ b \in Int
  <2> HIDE DEF a, b
  <2> QED  BY <1>1, LargerFacts DEF a, b
<1> HIDE DEF a, b
<1>3. c \in Nat
  BY <1>2 DEF Larger
<1> HIDE DEF c
<1>4. c \div 5 \in Nat
  BY <1>3
<1> QED  BY <1>4 DEF Overlap, SLOT, a, b, c

LEMMA Hours == IsFiniteSet(0..23)
<1>1. 0 \in Int /\ 23 \in Int
  OBVIOUS
<1> QED  BY <1>1, FS_Interval

LEMMA SunnedFacts ==
    ASSUME NEW weight, NEW high \in Nat, IsHours(weight, high), NEW from \in Int, NEW to \in Int
    PROVE  SunnedSlots(weight, from, to) \in Nat
<1> DEFINE D == DOMAIN weight
           f == [h \in D |-> weight[h] * Overlap(h, from, to)]
<1>1. D \in SUBSET (0..23) /\ \A h \in D : weight[h] \in Nat /\ h \in Int
  BY DEF IsHours
<1>2. IsFiniteSet(D)
  BY <1>1, Hours, FS_Subset
<1>3. \A h \in D : f[h] \in Nat
  <2> TAKE h \in D
  <2>1. weight[h] \in Nat /\ Overlap(h, from, to) \in Nat
    BY <1>1, OverlapFacts
  <2>2. weight[h] * Overlap(h, from, to) \in Nat
    BY <2>1
  <2> QED  BY <2>2
<1> HIDE DEF D, f
<1>4. SumFunctionOnSet(f, D) \in Int
  BY <1>2, <1>3, SumFacts
<1>5. SumFunctionOnSet(f, {}) <= SumFunctionOnSet(f, D)
  BY <1>2, <1>3, SumSmaller
<1>6. SumFunctionOnSet(f, {}) = 0
  BY SumFacts, FS_EmptySet
<1>7. SumFunctionOnSet(f, D) \in Nat
  BY <1>4, <1>5, <1>6
<1> QED  BY <1>7 DEF SunnedSlots, f, D

LEMMA ProfileFacts ==
    ASSUME scene \in DOMAIN SCENES
    PROVE  /\ IsHours(plan.profile, plan.peak)
           /\ \A h \in DOMAIN plan.profile : plan.profile[h] \in 0..plan.peak
<1>1. IsScene(plan)
  BY SceneIs
<1> QED  BY <1>1 DEF IsScene, IsHours

LEMMA SunFacts ==
    ASSUME scene \in DOMAIN SCENES, NEW h
    PROVE  Sun(h) \in 0..100
BY SceneFacts DEF Sun

LEMMA WeightFacts ==
    ASSUME Config
    PROVE  IsHours(Weight, 100)
<1>1. IsHours(view.factors, 100) /\ IsHours(view.skies, 100)
  BY ViewFacts
<1>2. ASSUME NEW x \in 0..100 PROVE 100 - x \in 0..100
  OBVIOUS
<1>3. IsHours([h \in DOMAIN view.skies |-> 100 - view.skies[h]], 100)
  BY <1>1, <1>2, Zenon DEF IsHours
<1> QED  BY <1>1, <1>3 DEF Weight

(***************************************************************************)
(* The battery.                                                            *)
(***************************************************************************)
LEMMA SocFacts ==
    ASSUME Config
    PROVE  /\ Soc \in Nat /\ site.kwh * Soc \in Int
           /\ 120 * (site.kwh * Soc) <= charge
           /\ charge < 120 * (site.kwh * Soc) + 120 * site.kwh
<1>1. /\ site.kwh \in 1..100 /\ Cap = 12000 * site.kwh /\ charge \in Nat
  BY SiteFacts DEF Config
<1> DEFINE k == site.kwh
           s == (charge * 100) \div (12000 * k)
<1> HIDE DEF k
<1>2. k \in Nat /\ k > 0
  BY <1>1 DEF k
<1>3. 12000 * k \in Nat /\ 12000 * k > 0 /\ charge * 100 \in Nat
  BY <1>1, <1>2
<1>4. /\ s \in Int /\ s >= 0 /\ (12000 * k) * s <= charge * 100
      /\ charge * 100 < (12000 * k) * s + 12000 * k
  BY <1>3, DivFacts
<1>5. Soc = s
  BY <1>1 DEF Soc, k
<1> HIDE DEF s
<1>6. (12000 * k) * s = 12000 * (k * s) /\ k * s \in Int
  BY <1>2, <1>4
<1>7. 120 * (k * s) <= charge /\ charge < 120 * (k * s) + 120 * k
  BY <1>1, <1>2, <1>4, <1>6
<1> QED  BY <1>4, <1>5, <1>6, <1>7 DEF k

LEMMA MissingFacts ==
    ASSUME Config
    PROVE  /\ Missing \in Nat
           /\ Soc <= 95 => Missing = 11400 * site.kwh - 120 * (site.kwh * Soc)
           /\ Soc >= 95 => Missing = 0
<1>1. Soc \in Nat /\ site.kwh \in 1..100 /\ Cap = 12000 * site.kwh
  BY SocFacts, SiteFacts DEF Config
<1>2. Cap \div 100 = 120 * site.kwh
  BY <1>1
<1>3. Missing = Larger(0, 95 - Soc) * (120 * site.kwh)
  BY <1>2 DEF Missing, TARGET_SOC
<1>4. CASE Soc <= 95
  <2>1. Larger(0, 95 - Soc) = 95 - Soc
    BY <1>1, <1>4 DEF Larger
  <2> DEFINE k == site.kwh
             s == Soc
  <2> HIDE DEF k, s
  <2>2. k \in Nat /\ s \in Nat /\ s <= 95
    BY <1>1, <1>4 DEF k, s
  <2>3. /\ (95 - s) * (120 * k) = 11400 * k - 120 * (k * s)
        /\ (95 - s) * (120 * k) \in Nat
    BY <2>2
  <2>4. s = 95 => (95 - s) * (120 * k) = 0
    BY <2>2
  <2> QED  BY <1>1, <1>3, <2>1, <2>3, <2>4 DEF k, s
<1>5. CASE Soc > 95
  <2>1. Larger(0, 95 - Soc) = 0
    BY <1>1, <1>5 DEF Larger
  <2> QED  BY <1>1, <1>3, <1>5, <2>1
<1> QED  BY <1>1, <1>4, <1>5

(***************************************************************************)
(* The plan of the charge regulation.                                      *)
(***************************************************************************)
\* The deadline of a day and the cycles before it.
LEMMA DeadlineFacts ==
    ASSUME Config
    PROVE  /\ Deadline \in Int /\ now \in 0..1435
           /\ WeekEvening # -1 => /\ WeekEvening \in 720..1435 /\ Deadline = WeekEvening - 120
                                  /\ Deadline % 5 = 0 /\ now % 5 = 0
                                  /\ now < Deadline => now + 5 <= Deadline
<1>1. IsTime(WeekEvening, 12, 24) /\ now \in Clock
  BY PlanTimes DEF Config
<1>2. WeekEvening = -1 \/ (WeekEvening \in 720..1435 /\ WeekEvening % 5 = 0)
  BY <1>1, ClockFacts DEF IsTime
<1>3. now \in 0..1435 /\ now % 5 = 0
  BY <1>1, ClockFacts
<1>4. Deadline = WeekEvening - 120
  BY DEF Deadline, BUFFER
<1> QED  BY <1>2, <1>3, <1>4

LEMMA DeadlineTyped ==
    ASSUME Config
    PROVE  Deadline \in Int /\ WeekEvening \in Int /\ now \in Nat /\ now <= 1435
<1>1. WeekEvening = -1 \/ WeekEvening \in Clock
  BY PlanTimes DEF IsTime
<1>2. WeekEvening \in Int
  BY <1>1, ClockNumbers
<1>3. Deadline \in Int
  BY <1>2 DEF Deadline, BUFFER
<1>4. now \in Nat /\ now <= 1435
  BY ClockNumbers DEF Config
<1> QED  BY <1>2, <1>3, <1>4

LEMMA DeadlineNumbers ==
    ASSUME Config, WeekEvening # -1, now < Deadline
    PROVE  /\ now \in Nat /\ now % 5 = 0 /\ Deadline \in Nat /\ Deadline % 5 = 0 /\ Deadline <= 1315
           /\ now + 5 <= Deadline
<1> DEFINE a == now
           d == Deadline
           e == WeekEvening
<1>1. a \in 0..1435 /\ a % 5 = 0 /\ e \in 720..1435 /\ d = e - 120 /\ d % 5 = 0 /\ a + 5 <= d
  BY DeadlineFacts
<1> HIDE DEF a, d, e
<1>2. a \in Nat /\ d \in Nat /\ d <= 1315
  BY <1>1
<1> QED  BY <1>1, <1>2 DEF a, d

LEMMA PeakFacts ==
    ASSUME Config
    PROVE  PvNow \in Nat /\ ObservedSlots \in Nat
<1>1. plan.peak \in Nat /\ plan.peak > 0 /\ Sun(now \div 60) \in Nat
  BY SceneFacts, SunFacts DEF Config
<1>2. PvNow \in Nat
  <2>1. plan.peak * Sun(now \div 60) \in Nat
    BY <1>1
  <2> QED  BY <2>1 DEF PvNow
<1> DEFINE h == now \div 60
           a == SunnedSlots(plan.profile, now, Deadline)
           b == Smaller(100, (100 * PvNow) \div plan.profile[h])
<1>3. ASSUME plan.profile # NoHours, h \in DOMAIN plan.profile, plan.profile[h] > 0
      PROVE  (a * b) \div plan.peak \in Nat
  <2>1. a \in Nat
    <3>1. now \in Int /\ Deadline \in Int
      BY DeadlineTyped
    <3> QED  BY <1>1, <3>1, ProfileFacts, SunnedFacts DEF Config
  <2>2. b \in Nat
    <3>1. plan.profile[h] \in Nat /\ plan.profile[h] > 0
      BY <1>1, <1>3, ProfileFacts DEF Config
    <3>2. 100 * PvNow \in Int /\ 100 * PvNow >= 0
      BY <1>2
    <3>3. (100 * PvNow) \div plan.profile[h] \in Nat
      BY <3>1, <3>2, DivFacts
    <3> QED  BY <3>3 DEF Smaller
  <2> HIDE DEF a, b
  <2>3. a * b \in Int /\ a * b >= 0
    BY <2>1, <2>2
  <2> QED  BY <1>1, <2>3, DivFacts
<1>4. plan.profile = NoHours \/ h \notin DOMAIN plan.profile => ObservedSlots = 0
  BY Zenon DEF ObservedSlots
<1>5. ASSUME plan.profile # NoHours, h \in DOMAIN plan.profile
      PROVE  ObservedSlots \in Nat
  <2>1. plan.profile[h] \in Int
    BY <1>1, <1>5, ProfileFacts DEF Config
  <2>2. plan.profile[h] <= 0 => ObservedSlots = 0
    BY <1>5, Zenon DEF ObservedSlots
  <2>3. ~(plan.profile[h] <= 0) => ObservedSlots = (a * b) \div plan.peak
    BY <1>5, Zenon DEF ObservedSlots
  <2>4. plan.profile[h] > 0 => (a * b) \div plan.peak \in Nat
    BY <1>3, <1>5
  <2> HIDE DEF a, b, h
  <2> QED  BY <2>1, <2>2, <2>3, <2>4
<1>6. ObservedSlots \in Nat
  <2> HIDE DEF h
  <2> QED  BY <1>4, <1>5
<1> QED  BY <1>2, <1>6

LEMMA CloudFacts ==
    ASSUME Config
    PROVE  GuardClouds \in Nat \cup {-1}
<1> DEFINE slots == SunnedSlots([h \in DOMAIN view.skies |-> 1], now, Deadline)
           mean == SunnedSlots(view.skies, now, Deadline)
<1>1. now \in Int /\ Deadline \in Int
  BY DeadlineTyped
<1>2. IsHours(view.skies, 100) /\ view.clouds \in Nat \cup {-1}
  BY ViewFacts
<1>3. IsHours([h \in DOMAIN view.skies |-> 1], 1)
  BY <1>2 DEF IsHours
<1>4. slots \in Nat /\ mean \in Nat
  BY <1>1, <1>2, <1>3, SunnedFacts
<1> HIDE DEF slots, mean
<1>5. slots > 0 => RoundDiv(mean, slots) \in Nat
  BY <1>4, RoundFacts
<1> QED  BY <1>2, <1>5 DEF GuardClouds, slots, mean

LEMMA RestFacts ==
    ASSUME Config, WeekEvening # -1, now < Deadline, GuardClouds # -1
    PROVE  /\ Rest.slots \in Nat /\ Rest.slots >= 60
           /\ Rest.safety \in Nat /\ Rest.safety >= 110
           /\ ForecastRest.slots \in Nat /\ ForecastRest.slots >= 60
<1>1. now + 5 <= Deadline /\ now \in Int /\ Deadline \in Int
  <2>1. now \in Nat /\ Deadline \in Nat /\ now + 5 <= Deadline
    BY DeadlineNumbers
  <2> QED  BY <2>1
<1>2. CASE Weight # NoHours
  <2>1. SunnedSlots(Weight, now, Deadline) \in Nat
    BY <1>1, WeightFacts, SunnedFacts
  <2>2. ForecastRest.slots = Larger(SunnedSlots(Weight, now, Deadline), 60) /\ ForecastRest.safety = 150
    BY <1>2 DEF ForecastRest
  <2> DEFINE x == SunnedSlots(Weight, now, Deadline)
  <2> HIDE DEF x
  <2>3. ForecastRest.slots \in Nat /\ ForecastRest.slots >= 60
    <3>1. x \in Nat
      BY <2>1 DEF x
    <3>2. Larger(x, 60) \in Nat /\ Larger(x, 60) >= 60
      BY <3>1 DEF Larger
    <3> QED  BY <2>2, <3>2 DEF x
  <2>4. ObservedSlots \in Nat
    BY PeakFacts
  <2>5. Rest.slots \in {ForecastRest.slots, ObservedSlots} /\ Rest.safety = 150
    BY <2>2 DEF Rest
  <2>6. Rest.slots >= ForecastRest.slots
    BY <2>3, <2>4 DEF Rest
  <2> QED  BY <2>3, <2>4, <2>5, <2>6
<1>3. CASE Weight = NoHours
  <2>1. GuardClouds \in Nat
    BY CloudFacts
  <2>2. ForecastRest.slots = 100 * ((Deadline - now) \div 5) /\ ForecastRest.safety = 110 + GuardClouds \div 2
    BY <1>3 DEF ForecastRest, SLOT
  <2>3. (Deadline - now) \div 5 >= 1
    BY <1>1
  <2> QED  BY <1>1, <2>1, <2>2, <2>3, PeakFacts DEF Rest
<1> QED  BY <1>2, <1>3

LEMMA SollFacts ==
    ASSUME Config, WeekEvening # -1, now < Deadline, GuardClouds # -1
    PROVE  /\ Soll \in Nat
           /\ Rest.slots * Soll \in Int /\ Missing * Rest.safety \in Int
           /\ Rest.slots * Soll <= Missing * Rest.safety
           /\ Missing * Rest.safety < Rest.slots * Soll + Rest.slots
<1>1. Rest.slots \in Nat /\ Rest.slots > 0 /\ Rest.safety \in Nat /\ Missing \in Nat
  BY RestFacts, MissingFacts
<1> DEFINE m == Missing * Rest.safety
<1>2. m \in Int /\ m >= 0
  BY <1>1
<1>3. Soll = m \div Rest.slots
  BY DEF Soll
<1> HIDE DEF m
<1>4. /\ m \div Rest.slots \in Int /\ m \div Rest.slots >= 0
      /\ Rest.slots * (m \div Rest.slots) <= m /\ m < Rest.slots * (m \div Rest.slots) + Rest.slots
  BY <1>1, <1>2, DivFacts
<1> DEFINE s == Soll
<1> HIDE DEF s
<1>5. s \in Nat /\ Rest.slots * s <= m /\ m < Rest.slots * s + Rest.slots
  BY <1>3, <1>4 DEF s
<1>6. Rest.slots * s \in Int
  BY <1>1, <1>5
<1> QED  BY <1>2, <1>5, <1>6 DEF s, m

\* A limit is a positive number of hundreds of watts, and not below the target.
LEMMA LimitFacts ==
    ASSUME Config, NEW soll \in Nat
    PROVE  \/ /\ LimitedTo(soll) = Free("regulation")
              /\ Missing = 0 \/ soll * 10 >= 9 * site.rate
           \/ /\ LimitedTo(soll).kind = "limit" /\ LimitedTo(soll).why = "regulation"
              /\ LimitedTo(soll).w \in Nat /\ LimitedTo(soll).w >= 100
              /\ LimitedTo(soll).w + 50 >= soll
              /\ Missing # 0 /\ soll * 10 < 9 * site.rate
<1> DEFINE a == Larger(soll, Larger(site.rate \div 10, 100))
           r == RoundDiv(a, 100)
<1>1. site.rate \in Nat
  BY SiteFacts DEF Config
<1>2. a \in Nat /\ a >= 100 /\ a >= soll
  <2>1. site.rate \div 10 \in Int /\ 100 \in Int
    BY <1>1
  <2>2. Larger(site.rate \div 10, 100) \in Int /\ Larger(site.rate \div 10, 100) >= 100
    BY <2>1, LargerFacts
  <2> DEFINE x == Larger(site.rate \div 10, 100)
  <2> HIDE DEF x
  <2>3. x \in Int /\ x >= 100
    BY <2>2 DEF x
  <2>4. Larger(soll, x) \in Int /\ Larger(soll, x) >= soll /\ Larger(soll, x) >= x
    BY <2>3, LargerFacts
  <2> QED  BY <2>3, <2>4 DEF x
<1> HIDE DEF a
<1>3. r \in Int /\ 2 * (100 * r) <= 2 * a + 100 /\ 2 * a < 2 * (100 * r) + 100
  BY <1>2, RoundFacts
<1> HIDE DEF r
<1>4. 100 * r \in Nat /\ 100 * r >= 100 /\ 100 * r + 50 >= soll
  BY <1>2, <1>3
<1>5. CASE Missing = 0 \/ soll * 10 >= 9 * site.rate
  BY <1>5, Zenon DEF LimitedTo
<1>6. CASE ~(Missing = 0 \/ soll * 10 >= 9 * site.rate)
  <2>1. LimitedTo(soll) = [kind |-> "limit", why |-> "regulation", w |-> 100 * r]
    BY <1>6, Zenon DEF LimitedTo, r, a
  <2>2. soll * 10 < 9 * site.rate
    BY <1>1, <1>6
  <2> QED  BY <1>4, <1>6, <2>1, <2>2
<1> QED  BY <1>5, <1>6

(***************************************************************************)
(* The morning and what the house needs until then and by day.             *)
(***************************************************************************)
LEMMA UntilFacts ==
    ASSUME Config, NEW m \in Int, -1 <= m, m <= 1435
    PROVE  /\ Until(m) \in Nat /\ Until(m) > 0
           /\ now < m => Until(m) = m - now
           /\ now >= m => Until(m) = 1440 - now + m
<1>1. now \in Nat /\ now <= 1435
  BY DeadlineTyped
<1> QED  BY <1>1 DEF Until

LEMMA MorningTime ==
    ASSUME NEW m, IsTime(m, 3, 12) \/ IsTime(m, 5, 15)
    PROVE  IsTime(m, 3, 15)
<1>1. m \in Clock => m \in Int
  BY ClockNumbers
<1> QED  BY <1>1 DEF IsTime

LEMMA MorningFacts ==
    ASSUME Config
    PROVE  /\ Morning \in Clock \cup {None}
           /\ Morning = -1 \/ (Morning \in 180..895 /\ Morning % 5 = 0)
           /\ DischargeEnd # -1 => Morning # -1
<1>1. /\ IsTime(Vormittag, 5, 15) /\ IsTime(WeekMorning, 3, 12) /\ IsTime(DischargeEnd, 3, 12)
  BY PlanTimes
<1>2. IsTime(Morning, 3, 15)
  <2>1. IsTime(Vormittag, 3, 15) /\ IsTime(WeekMorning, 3, 15) /\ IsTime(DischargeEnd, 3, 15)
    BY <1>1, MorningTime, Zenon
  <2>2. Morning \in {Vormittag, WeekMorning, DischargeEnd}
    BY Zenon DEF Morning
  <2> QED  BY <2>1, <2>2
<1>3. DischargeEnd # -1 => Morning # -1
  BY DEF Morning, None
<1> QED  BY <1>2, <1>3, ClockFacts DEF IsTime, None

LEMMA ThresholdFacts ==
    ASSUME Config
    PROVE  Threshold \in 0..100
BY SiteFacts DEF Config, Threshold, Setting

LEMMA NeedFacts ==
    ASSUME Config
    PROVE  /\ NightNeed \in Nat /\ DayNeed \in Nat /\ Reserve \in Int
           /\ 24000 * Reserve > 26 * (NightNeed + DayNeed) - 12000
<1>1. site.load \in Nat
  BY SiteFacts DEF Config
<1>2. Morning \in Int /\ -1 <= Morning /\ Morning <= 895
  BY MorningFacts
<1>3. NightNeed \in Nat
  <2>1. Until(Morning) \in Nat
    BY <1>2, UntilFacts
  <2>2. Until(Morning) \div 5 \in Nat
    BY <2>1
  <2> QED  BY <1>1, <2>2 DEF NightNeed, SLOT
<1>4. DayEnd \in Int /\ DayEnd >= Morning
  <2>1. WeekEvening \in Int
    BY DeadlineTyped
  <2> QED  BY <1>2, <2>1 DEF DayEnd
<1>5. DayLoad \in Nat
  <2>1. (DayEnd - Morning) \div 5 \in Nat
    BY <1>2, <1>4
  <2> QED  BY <1>1, <2>1 DEF DayLoad, SLOT
<1>6. plan.profile # NoHours => ProfileEnergy \in Nat
  BY <1>2, <1>4, ProfileFacts, SceneFacts, SunnedFacts DEF ProfileEnergy, Config
<1>7. view.clouds \in 0..100 \cup {-1} /\ view.share \in Nat \cup {-1}
  BY ViewFacts
<1>8. ASSUME plan.profile # NoHours, view.share # None
      PROVE  DayNeed \in Nat
  <2> DEFINE s == Smaller(100, view.share)
             x == (ProfileEnergy * s) \div 100
  <2>1. s \in Nat
    BY <1>7, <1>8 DEF Smaller, None
  <2> HIDE DEF s
  <2>2. ProfileEnergy * s \in Int
    BY <1>6, <1>8, <2>1
  <2>3. x \in Int
    BY <2>2
  <2> HIDE DEF x
  <2>4. Larger(0, DayLoad - x) \in Nat
    BY <1>5, <2>3 DEF Larger
  <2> QED  BY <1>8, <2>4 DEF DayNeed, x, s
<1>9. ASSUME plan.profile # NoHours, view.share = None, view.clouds # None
      PROVE  DayNeed \in Nat
  <2> DEFINE c == view.clouds
             y == 100 - (c * c) \div 125
             x == (ProfileEnergy \div 100) * y
  <2>1. c \in Nat
    BY <1>7, <1>9 DEF None
  <2>2. y \in Int
    BY <2>1
  <2> HIDE DEF y, c
  <2>3. ProfileEnergy \div 100 \in Int
    BY <1>6, <1>9
  <2>4. x \in Int
    BY <2>2, <2>3
  <2> HIDE DEF x
  <2>5. Larger(0, DayLoad - x) \in Nat
    BY <1>5, <2>4 DEF Larger
  <2>6. DayNeed = Larger(0, DayLoad - x)
    BY <1>9, Zenon DEF DayNeed, x, y, c
  <2> QED  BY <2>5, <2>6
<1>10. ASSUME view.clouds = None, plan.profile = NoHours \/ view.share = None
       PROVE  DayNeed \in Nat
  <2>1. DayNeed = DayLoad
    BY <1>10, Zenon DEF DayNeed
  <2> QED  BY <1>5, <2>1
<1>11. ASSUME plan.profile = NoHours, view.clouds # None
       PROVE  DayNeed \in Nat
  <2> DEFINE c == view.clouds
             t == Threshold
             x == DayLoad * Larger(0, c - t)
  <2>1. DayNeed = IF t = 100 THEN IF c >= 100 THEN DayLoad ELSE 0 ELSE x \div (100 - t)
    BY <1>11, Zenon DEF DayNeed
  <2>2. c \in 0..100 /\ t \in 0..100
    BY <1>7, <1>11, ThresholdFacts DEF None
  <2>3. Larger(0, c - t) \in Nat
    BY <2>2 DEF Larger
  <2>4. x \in Int /\ x >= 0
    <3> DEFINE l == Larger(0, c - t)
    <3> HIDE DEF l, c, t
    <3> QED  BY <1>5, <2>3 DEF l
  <2> HIDE DEF x, c, t
  <2>5. t # 100 => x \div (100 - t) \in Nat
    BY <2>2, <2>4
  <2> QED  BY <1>5, <2>1, <2>5
<1>12. DayNeed \in Nat
  BY <1>8, <1>9, <1>10, <1>11
<1>13. Reserve \in Int /\ 24000 * Reserve > 26 * (NightNeed + DayNeed) - 12000
  <2> DEFINE x == (NightNeed + DayNeed) * 13
  <2>1. x \in Int /\ x = 13 * (NightNeed + DayNeed)
    BY <1>3, <1>12
  <2> HIDE DEF x
  <2> DEFINE b == 12000
  <2>2. b \in Nat /\ b > 0
    OBVIOUS
  <2> HIDE DEF b
  <2>3. RoundDiv(x, b) \in Int /\ 2 * x < 2 * (b * RoundDiv(x, b)) + b
    BY <2>1, <2>2, RoundFacts
  <2>4. Reserve = RoundDiv(x, b)
    BY DEF Reserve, x, b, KWH
  <2>5. Reserve \in Int /\ 2 * x < 2 * (b * Reserve) + b
    BY <2>3, <2>4
  <2>6. Reserve \in Int /\ 2 * x < 24000 * Reserve + 12000
    BY <2>5 DEF b
  <2> QED  BY <1>3, <1>12, <2>1, <2>6, SMT
<1> QED  BY <1>3, <1>12, <1>13

(***************************************************************************)
(* The power of the feed-in and the need of night and day.                 *)
(***************************************************************************)
LEMMA BoundsFacts ==
    ASSUME Config
    PROVE  /\ PowerBounds.min \in Nat /\ PowerBounds.max \in Nat /\ 1 <= PowerBounds.min
           /\ PowerBounds.max <= 5000 /\ PowerBounds.min <= PowerBounds.max
<1> DEFINE low  == IF site.minW > 0 THEN site.minW ELSE FALLBACK_MIN
           high == IF site.maxW > 0 THEN site.maxW ELSE FALLBACK_MAX
           set  == IF low < high THEN <<low, high>> ELSE <<FALLBACK_MIN, FALLBACK_MAX>>
           rates == IF site.dynamic /\ site.known THEN <<site.kwh * 100, site.kwh * 300>> ELSE set
<1>1. low \in Int /\ low > 0 /\ high \in Int /\ high > 0
  BY SiteFacts DEF Config, FALLBACK_MIN, FALLBACK_MAX
<1> HIDE DEF low, high
<1>2. set[1] \in Int /\ set[1] > 0 /\ set[2] \in Int /\ set[2] > 0
  BY <1>1 DEF FALLBACK_MIN, FALLBACK_MAX
<1> HIDE DEF set
<1>3. rates[1] \in Int /\ rates[1] > 0 /\ rates[2] \in Int /\ rates[2] > 0
  <2>1. site.kwh * 100 \in Int /\ site.kwh * 100 > 0 /\ site.kwh * 300 \in Int /\ site.kwh * 300 > 0
    BY SiteFacts DEF Config
  <2> QED  BY <1>2, <2>1
<1>4. PowerBounds = [min |-> Smaller(rates[1], Highest(rates[2])), max |-> Highest(rates[2])]
  BY Zenon DEF PowerBounds, rates, set, low, high
<1> DEFINE a == rates[1]
           b == rates[2]
<1> HIDE DEF rates
<1>5. /\ Highest(b) \in Nat /\ Smaller(a, Highest(b)) \in Nat /\ 1 <= Smaller(a, Highest(b))
      /\ Highest(b) <= 5000 /\ Smaller(a, Highest(b)) <= Highest(b)
  <2>1. a \in Int /\ a > 0 /\ b \in Int /\ b > 0
    BY <1>3
  <2> HIDE DEF a, b
  <2> QED  BY <2>1 DEF Highest, Smaller, ABSOLUTE_MAX
<1>6. PowerBounds.min = Smaller(a, Highest(b)) /\ PowerBounds.max = Highest(b)
  BY <1>4, Zenon DEF a, b
<1> HIDE DEF a, b
<1> QED  BY <1>5, <1>6

LEMMA TargetFacts ==
    ASSUME Config
    PROVE  TargetSoc \in Int
<1>1. site.kwh \in Nat /\ site.min \in Int /\ site.kwh > 0 /\ Reserve \in Int
  BY SiteFacts, NeedFacts DEF Config
<1> DEFINE q == (Reserve * 10 + site.kwh - 1) \div site.kwh
<1>2. Reserve * 10 + site.kwh - 1 \in Int
  BY <1>1
<1>3. q \in Int
  BY <1>1, <1>2, DivFacts
<1> HIDE DEF q
<1>4. Smaller(100, site.min + q) \in Int
  BY <1>1, <1>3 DEF Smaller
<1> QED  BY <1>1, <1>4 DEF TargetSoc, q

LEMMA FeedInFacts ==
    ASSUME Config
    PROVE  FeedIn \in Nat /\ 1 <= FeedIn /\ FeedIn <= 5000
<1> DEFINE clouds == IF view.clouds = None THEN 100 ELSE view.clouds
           min == PowerBounds.min
           max == PowerBounds.max
           a == clouds * (max - min)
           stretchW == RoundDiv((Soc - TargetSoc) * site.kwh * 720, Until(DischargeEnd))
<1>1. min \in Nat /\ max \in Nat /\ 1 <= min /\ max <= 5000 /\ min <= max
  BY BoundsFacts
<1>2. clouds \in 0..100
  BY ViewFacts DEF None
<1> HIDE DEF clouds, min, max
<1>3. a \in Int /\ 0 <= a /\ a <= 100 * (max - min)
  BY <1>1, <1>2
<1> HIDE DEF a
<1>4. CloudPower = RoundDiv(max * 100 - a, 100)
  BY Zenon DEF CloudPower, a, max, min, clouds
<1>5. CloudPower \in Nat /\ 1 <= CloudPower /\ CloudPower <= 5000
  <2> DEFINE x == max * 100 - a
  <2>1. x \in Int /\ 100 * min <= x /\ x <= 100 * max
    BY <1>1, <1>3
  <2> HIDE DEF x
  <2>2. RoundDiv(x, 100) \in Int /\ 2 * (100 * RoundDiv(x, 100)) <= 2 * x + 100
        /\ 2 * x < 2 * (100 * RoundDiv(x, 100)) + 100
    BY <2>1, RoundFacts
  <2> DEFINE r == RoundDiv(x, 100)
  <2> HIDE DEF r
  <2>3. r \in Int /\ 2 * (100 * r) <= 2 * x + 100 /\ 2 * x < 2 * (100 * r) + 100
    BY <2>2 DEF r
  <2>4. r \in Nat /\ 1 <= r /\ r <= 5000
    <3>1. min \in Int /\ max \in Int /\ 1 <= min /\ max <= 5000
      BY <1>1
    <3>2. min <= r /\ r <= max
      BY <2>1, <2>3, <3>1, SMT
    <3> QED  BY <2>3, <3>1, <3>2, SMT
  <2> QED  BY <1>4, <2>4 DEF r, x
<1>6. FeedIn = IF site.known /\ Until(DischargeEnd) > 15 /\ stretchW < CloudPower
               THEN Larger(min, stretchW) ELSE CloudPower
  BY Zenon DEF FeedIn, min
<1>7. stretchW < CloudPower => LET l == Larger(min, stretchW) IN l \in Nat /\ 1 <= l /\ l <= 5000
  <2>2. stretchW \in Int
    <3> DEFINE n == (Soc - TargetSoc) * site.kwh * 720
    <3>1. site.kwh \in Nat /\ site.min \in Int /\ site.kwh > 0
      BY SiteFacts DEF Config
    <3>2. TargetSoc \in Int
      BY TargetFacts
    <3>3. Soc - TargetSoc \in Int
      BY <3>2, SocFacts
    <3>4. n \in Int
      BY <3>1, <3>3
    <3>5. Until(DischargeEnd) \in Nat /\ Until(DischargeEnd) > 0
      <4>1. DischargeEnd \in Int /\ -1 <= DischargeEnd /\ DischargeEnd <= 1435
        <5>1. DischargeEnd = -1 \/ DischargeEnd \in Clock
          BY PlanTimes DEF IsTime
        <5>2. \A m \in Clock : m \in Int /\ 0 <= m /\ m <= 1435
          BY ClockNumbers
        <5>3. CASE DischargeEnd \in Clock
          BY <5>2, <5>3
        <5> QED  BY <5>1, <5>3
      <4> QED  BY <4>1, UntilFacts
    <3> HIDE DEF n
    <3>6. RoundDiv(n, Until(DischargeEnd)) \in Int
      BY <3>4, <3>5, RoundFacts
    <3> QED  BY <3>6 DEF n
  <2> HIDE DEF stretchW
  <2> QED  BY <1>1, <1>5, <2>2 DEF Larger
<1> HIDE DEF stretchW
<1> QED  BY <1>5, <1>6, <1>7

(***************************************************************************)
(* What a cycle decides and what the slot after it does to the battery.    *)
(***************************************************************************)
IsCommand(c) ==
    /\ c.kind \in {"free", "lock", "limit", "none", "discharge"}
    /\ c.w \in Nat /\ (c.kind \in {"limit", "discharge"} <=> c.w > 0)
    /\ c.kind = "discharge" => c.w <= ABSOLUTE_MAX

\* The cycles in which the regulation has a plan.
Planning ==
    /\ fresh /\ LockStart # None /\ WeekEvening # None
    /\ now >= LockStart /\ now < Deadline
    /\ site.known /\ GuardClouds # None

LEMMA PlanCases ==
    ASSUME Config
    PROVE  \/ Plan = NoPlan
           \/ /\ Planning
              /\ \/ Plan = Free("clouds")
                 \/ BeforeCrossover /\ Plan = Lock("regulation")
                 \/ Plan = Regulated
<1>1. CASE ~(\/ ~fresh \/ LockStart = None \/ WeekEvening = None
             \/ now < LockStart \/ now >= Deadline
             \/ ~site.known \/ GuardClouds = None)
  <2>1. now >= LockStart /\ now < Deadline
    <3>1. IsTime(LockStart, 4, 12) /\ now \in Clock
      BY PlanTimes DEF Config
    <3>2. LockStart \in Int /\ now \in Int /\ Deadline \in Int
      <4>1. \A m \in Clock : m \in Int
        BY ClockNumbers
      <4> QED  BY <3>1, <4>1, DeadlineTyped DEF IsTime
    <3>3. ~(now < LockStart) /\ ~(now >= Deadline)
      BY <1>1, Zenon
    <3> QED  BY <3>2, <3>3
  <2>2. Planning
    BY <1>1, <2>1, Zenon DEF Planning
  <2>3. \/ Plan = Free("clouds") \/ (BeforeCrossover /\ Plan = Lock("regulation")) \/ Plan = Regulated
    BY <1>1, Zenon DEF Plan
  <2> QED  BY <2>2, <2>3, Zenon
<1>2. CASE (\/ ~fresh \/ LockStart = None \/ WeekEvening = None
            \/ now < LockStart \/ now >= Deadline
            \/ ~site.known \/ GuardClouds = None)
  BY <1>2, Zenon DEF Plan
<1> QED  BY <1>1, <1>2, Zenon

\* What the regulation does is a limit or free charging.
LEMMA RegulatedFacts ==
    ASSUME Config, Planning
    PROVE  /\ \/ Regulated = Free("regulation")
              \/ Regulated.kind = "limit" /\ Regulated.w \in Nat /\ Regulated.w >= 100
                 /\ Regulated.why = "regulation"
           /\ ~GuardNet(Soll) => Regulated = LimitedTo(Soll)
<1>1. Soll \in Nat
  BY SollFacts DEF Planning, None
<1>2. (7 * site.rate) \div 10 \in Nat
  BY SiteFacts DEF Config
<1>3. Regulated = LimitedTo((7 * site.rate) \div 10) \/ Regulated = LimitedTo(Soll)
  BY Zenon DEF Regulated
<1>4. ASSUME NEW soll \in Nat, Regulated = LimitedTo(soll)
      PROVE  \/ Regulated = Free("regulation")
             \/ Regulated.kind = "limit" /\ Regulated.w \in Nat /\ Regulated.w >= 100
                /\ Regulated.why = "regulation"
  BY <1>4, LimitFacts, Zenon
<1>5. ~GuardNet(Soll) => Regulated = LimitedTo(Soll)
  BY Zenon DEF Regulated
<1> QED  BY <1>1, <1>2, <1>3, <1>4, <1>5, Zenon

\* The battery feeds only above the target, towards an end of the window.
Feeding(c) ==
    /\ c = [kind |-> "discharge", w |-> FeedIn, why |-> "night"]
    /\ DischargeEnd # None /\ site.min \in 6..90 /\ ~(Soc <= TargetSoc)

LEMMA DecisionCases ==
    ASSUME Config
    PROVE  \/ Planning /\ Decision = Free("clouds")
           \/ Planning /\ BeforeCrossover /\ Decision = Lock("regulation")
           \/ Planning /\ Decision = Regulated
           \/ InLockWindow /\ Decision \in {Free("window"), Lock("window")}
           \/ Feeding(Decision)
           \/ \E why : Decision = Rests(why)
<1>1. \/ Plan # NoPlan /\ Decision = Plan
      \/ InLockWindow /\ Decision = WindowLock
      \/ DischargeEnd # None /\ Decision = ForcedDischarge
      \/ Decision = Rests("outside")
  BY Zenon DEF Decision
<1>2. WindowLock \in {Free("window"), Lock("window")}
  BY Zenon DEF WindowLock
<1>3. \/ \E why : ForcedDischarge = Rests(why)
      \/ /\ ForcedDischarge = [kind |-> "discharge", w |-> FeedIn, why |-> "night"]
         /\ site.min \in 6..90 /\ ~(Soc <= TargetSoc)
  BY Zenon DEF ForcedDischarge
<1> QED  BY <1>1, <1>2, <1>3, PlanCases, Zenon DEF Feeding

LEMMA DecisionFacts ==
    ASSUME Config
    PROVE  /\ IsCommand(Decision)
           /\ Decision.kind = "discharge" => Feeding(Decision)
<1>1. ASSUME NEW why PROVE /\ IsCommand(Free(why)) /\ Free(why).kind = "free"
                           /\ IsCommand(Lock(why)) /\ Lock(why).kind = "lock"
                           /\ IsCommand(Rests(why)) /\ Rests(why).kind = "none"
  BY DEF IsCommand, Free, Lock, Rests
<1>2. ASSUME Planning PROVE IsCommand(Regulated) /\ Regulated.kind \in {"free", "limit"}
  <2>1. CASE Regulated = Free("regulation")
    BY <1>1, <2>1
  <2>2. CASE Regulated.kind = "limit" /\ Regulated.w \in Nat /\ Regulated.w >= 100
    BY <2>2 DEF IsCommand
  <2> QED  BY <1>2, <2>1, <2>2, RegulatedFacts, Zenon
<1>3. ASSUME Feeding(Decision) PROVE IsCommand(Decision)
  BY <1>3, FeedInFacts DEF Feeding, IsCommand, ABSOLUTE_MAX
<1> QED  BY <1>1, <1>2, <1>3, DecisionCases

LEMMA DrawnFacts ==
    ASSUME scene \in DOMAIN SCENES, NEW c, IsCommand(c), NEW house \in Nat
    PROVE  /\ Drawn(c, house) \in Nat
           /\ c.kind = "discharge" => Drawn(c, house) <= ABSOLUTE_MAX + house
           /\ c.kind # "discharge" => Drawn(c, house) = house
<1>1. c.w \in Nat /\ (c.kind = "discharge" => c.w <= ABSOLUTE_MAX)
  BY DEF IsCommand
<1>2. c.kind # "discharge" => Drawn(c, house) = house
  BY Zenon DEF Drawn
<1>3. c.kind = "discharge" => Drawn(c, house) \in {c.w, Larger(c.w, house), c.w + house}
  BY DeviceFacts, Zenon DEF Drawn
<1>4. Larger(c.w, house) \in {c.w, house}
  BY Zenon DEF Larger
<1> DEFINE w == c.w
           d == Drawn(c, house)
           l == Larger(c.w, house)
<1> HIDE DEF w, d, l
<1>5. w \in Nat /\ (c.kind = "discharge" => w <= ABSOLUTE_MAX)
  BY <1>1 DEF w
<1>6. c.kind = "discharge" => (d = w \/ d = house \/ d = w + house)
  BY <1>3, <1>4, Zenon DEF w, d
<1>7. c.kind # "discharge" => d = house
  BY <1>2 DEF d
<1>8. (c.kind = "discharge" => d \in Nat /\ d <= ABSOLUTE_MAX + house) /\ (c.kind # "discharge" => d \in Nat)
  BY <1>5, <1>6, <1>7 DEF ABSOLUTE_MAX
<1>9. d \in Nat /\ (c.kind = "discharge" => d <= ABSOLUTE_MAX + house) /\ (c.kind # "discharge" => d = house)
  BY <1>7, <1>8, Zenon
<1> QED  BY <1>9 DEF d

LEMMA WithinFacts ==
    ASSUME scene \in DOMAIN SCENES, NEW e \in Int
    PROVE  /\ Within(e) \in 0..Cap
           /\ Within(e) = Cap \/ Within(e) >= e
BY SiteFacts DEF Within, Larger, Smaller

LEMMA HarvestFacts ==
    ASSUME Config
    PROVE  Harvest \in Nat /\ (Sun(now \div 60) >= 1 => Harvest >= 3)
<1> DEFINE s == Sun(now \div 60)
           r == site.rate
<1> HIDE DEF s, r
<1>1. s \in Nat /\ r \in Nat /\ r >= 300
  BY SunFacts, SiteFacts DEF Config, s, r
<1>2. r * s \in Nat /\ (s >= 1 => r * s >= 300)
  BY <1>1
<1>3. (r * s) \div 100 \in Nat /\ (r * s >= 300 => (r * s) \div 100 >= 3)
  BY <1>2
<1> QED  BY <1>2, <1>3 DEF Harvest, s, r

\* The five things a slot can do to the battery.
LEMMA SlotCases ==
    ASSUME Config, NEW c, IsCommand(c), NEW house \in Nat
    PROVE  \/ /\ c.kind = "discharge" \/ Harvest = 0
              /\ ChargeAfter(c, house) = Within(charge - Drawn(c, house))
           \/ c.kind = "lock" /\ ChargeAfter(c, house) = charge
           \/ c.kind = "limit" /\ ChargeAfter(c, house) = Within(charge + Smaller(c.w, Harvest))
           \/ c.kind \in {"free", "none"} /\ ChargeAfter(c, house) = Within(charge + Harvest)
<1>1. CASE c.kind = "discharge" \/ Harvest = 0
  <2>1. ChargeAfter(c, house) = Within(charge - Drawn(c, house))
    <3>1. Harvest = 0 => ~(Harvest > 0)
      OBVIOUS
    <3> QED  BY <1>1, <3>1, Zenon DEF ChargeAfter
  <2> QED  BY <1>1, <2>1
<1>2. CASE ~(c.kind = "discharge" \/ Harvest = 0)
  <2>1. Harvest > 0
    BY <1>2, HarvestFacts
  <2>2. c.kind \in {"free", "lock", "limit", "none"}
    BY <1>2 DEF IsCommand
  <2>3. "lock" # "limit" /\ "lock" # "free" /\ "lock" # "none" /\ "limit" # "free" /\ "limit" # "none"
    OBVIOUS
  <2>4. c.kind = "lock" => ChargeAfter(c, house) = charge
    BY <1>2, <2>1, <2>3, Zenon DEF ChargeAfter
  <2>5. c.kind = "limit" => ChargeAfter(c, house) = Within(charge + Smaller(c.w, Harvest))
    BY <1>2, <2>1, <2>3, Zenon DEF ChargeAfter
  <2>6. c.kind \in {"free", "none"} => ChargeAfter(c, house) = Within(charge + Harvest)
    BY <1>2, <2>1, <2>3, Zenon DEF ChargeAfter
  <2> QED  BY <2>2, <2>4, <2>5, <2>6, Zenon
<1> QED  BY <1>1, <1>2, Zenon

(***************************************************************************)
(* Types.                                                                  *)
(***************************************************************************)
LEMMA ConfigOfTypes ==
    ASSUME TypeOK
    PROVE  Config
BY DEF TypeOK, Config

\* The clock goes on by a slot and starts again at midnight.
LEMMA NextSlot ==
    ASSUME Config
    PROVE  /\ (now + SLOT) % 1440 \in Clock
           /\ now < 1435 => (now + SLOT) % 1440 = now + 5
           /\ now = 1435 => (now + SLOT) % 1440 = 0
<1>1. now \in 0..1435 /\ now % 5 = 0
  BY ClockFacts DEF Config
<1>2. now < 1435 => (now + 5) % 1440 = now + 5 /\ now + 5 \in 0..1439 /\ (now + 5) % 5 = 0
  BY <1>1
<1>3. now = 1435 => (now + 5) % 1440 = 0
  OBVIOUS
<1>4. 0 \in 0..1439 /\ 0 % 5 = 0
  OBVIOUS
<1>5. 0 \in Clock /\ (now < 1435 => now + 5 \in Clock)
  BY <1>2, <1>4, ClockFacts
<1> QED  BY <1>1, <1>2, <1>3, <1>5 DEF SLOT

LEMMA StartCharge ==
    ASSUME scene \in DOMAIN SCENES, charge \in {(p * Cap) \div 100 : p \in plan.socs}
    PROVE  charge \in 0..Cap
<1>1. IsScene(plan)
  BY SceneIs
<1>2. PICK p \in plan.socs : charge = (p * Cap) \div 100
  OBVIOUS
<1>3. p \in Nat /\ p <= 100
  BY <1>1 DEF IsScene
<1>4. Cap \in Nat
  BY SiteFacts
<1>5. p * Cap \in Nat /\ p * Cap <= 100 * Cap
  BY <1>3, <1>4
<1> DEFINE x == p * Cap
<1> HIDE DEF x
<1>6. x \div 100 \in 0..Cap
  BY <1>4, <1>5 DEF x
<1> QED  BY <1>2, <1>6 DEF x

LEMMA InitTypes == Init => TypeOK
<1> SUFFICES ASSUME Init PROVE TypeOK
  OBVIOUS
<1>1. scene \in DOMAIN SCENES /\ times \in plan.times /\ view \in plan.views
      /\ fresh \in plan.fresh /\ now = plan.from
      /\ charge \in {(p * Cap) \div 100 : p \in plan.socs}
  BY DEF Init
<1>2. fresh \in BOOLEAN
  BY <1>1, SceneIs DEF IsScene
<1>3. now \in Clock
  BY <1>1, SceneFacts
<1>4. charge \in 0..Cap
  BY <1>1, StartCharge
<1>5. 0 \in 0..MAX_HEAVY /\ 0 \in 0..MAX_CHANGES
  BY PlannerAssumption
<1>6. command = Rests("start") /\ heavy = FALSE /\ told = [until |-> -1, need |-> 0]
      /\ spent = 0 /\ heavies = 0 /\ changes = 0 /\ best = charge
  BY DEF Init, None
<1>7. /\ command.kind \in {"free", "lock", "limit", "none", "discharge"}
      /\ command.kind \in {"limit", "discharge"} <=> command.w > 0
      /\ command.kind = "discharge" => command.w <= ABSOLUTE_MAX
  BY <1>6 DEF Rests
<1>8. told.until \in Clock \cup {None} /\ told.need \in Nat
  BY <1>6 DEF None
<1>9. view \in plan.views \cup {NoView}
  BY <1>1
<1> QED  BY <1>1, <1>2, <1>3, <1>4, <1>5, <1>6, <1>7, <1>8, <1>9 DEF TypeOK

\* What the house takes in the slot of a cycle.
HouseNow == IF heavy' THEN HEAVY_W ELSE site.load

LEMMA HouseFacts ==
    ASSUME scene \in DOMAIN SCENES
    PROVE  HouseNow \in Nat /\ HouseNow >= site.load /\ site.load \in Nat
BY SiteFacts DEF HouseNow

LEMMA CycleFacts ==
    ASSUME TypeOK, Cycle
    PROVE  /\ plan' = plan /\ site' = site /\ Cap' = Cap
           /\ command' = Decision /\ IsCommand(command')
           /\ charge' = ChargeAfter(command', HouseNow)
           /\ spent' = spent + HouseNow - site.load
           /\ best' = Within(IF Harvest = 0 THEN best - HouseNow ELSE best + Harvest)
<1>1. plan' = plan /\ site' = site /\ Cap' = Cap
  BY DEF Cycle, plan, site, Cap
<1>2. command' = Decision
  BY DEF Cycle
<1>3. IsCommand(Decision)
  BY ConfigOfTypes, DecisionFacts
<1>4. /\ charge' = ChargeAfter(command', HouseNow)
      /\ spent' = spent + HouseNow - site.load
      /\ best' = Within(IF Harvest = 0 THEN best - HouseNow ELSE best + Harvest)
  BY Zenon DEF Cycle, HouseNow
<1> QED  BY <1>1, <1>2, <1>3, <1>4

LEMMA CycleTypes ==
    ASSUME TypeOK, Cycle
    PROVE  TypeOK'
<1>1. Config /\ scene \in DOMAIN SCENES
  BY ConfigOfTypes DEF TypeOK
<1>2. scene' = scene /\ times' = times /\ view' = view /\ changes' = changes /\ heavy' \in BOOLEAN
  BY DEF Cycle
<1>3. plan' = plan /\ Cap' = Cap /\ IsCommand(command') /\ HouseNow \in Nat /\ HouseNow >= site.load /\ site.load \in Nat
  BY <1>1, CycleFacts, HouseFacts
<1>4. charge' \in 0..Cap'
  <2>1. charge' = ChargeAfter(command', HouseNow) /\ charge \in 0..Cap
    BY CycleFacts DEF TypeOK
  <2>2. ASSUME NEW e \in Int PROVE Within(e) \in 0..Cap
    BY <1>1, WithinFacts
  <2>3. charge - Drawn(command', HouseNow) \in Int
    BY <1>1, <1>3, <2>1, DrawnFacts
  <2>4. charge + Harvest \in Int /\ charge + Smaller(command'.w, Harvest) \in Int
    <3>1. Harvest \in Int /\ command'.w \in Int /\ charge \in Int
      BY <1>1, <1>3, <2>1, HarvestFacts DEF IsCommand
    <3>2. Smaller(command'.w, Harvest) \in Int
      BY <3>1 DEF Smaller
    <3> QED  BY <3>1, <3>2
  <2>5. charge' \in 0..Cap
    BY <1>1, <1>3, <2>1, <2>2, <2>3, <2>4, SlotCases, Zenon
  <2> QED  BY <1>3, <2>5, Zenon
<1>5. best' \in 0..Cap'
  <2>1. best \in 0..Cap /\ Harvest \in Nat
    BY <1>1, HarvestFacts DEF TypeOK
  <2>2. (IF Harvest = 0 THEN best - HouseNow ELSE best + Harvest) \in Int
    BY <1>3, <2>1
  <2> QED  BY <1>1, <1>3, <2>2, CycleFacts, WithinFacts
<1>6. now' \in Clock
  BY <1>1, NextSlot DEF Cycle
<1>7. fresh' \in BOOLEAN
  BY <1>1 DEF Cycle, Config
<1>8. spent' \in Nat
  <2>1. spent \in Nat /\ spent' = spent + HouseNow - site.load
    BY CycleFacts DEF TypeOK
  <2> QED  BY <1>3, <2>1
<1>9. /\ command'.kind \in {"free", "lock", "limit", "none", "discharge"}
      /\ command'.kind \in {"limit", "discharge"} <=> command'.w > 0
      /\ command'.kind = "discharge" => command'.w <= ABSOLUTE_MAX
  BY <1>3 DEF IsCommand
<1>10. told'.until \in Clock \cup {None} /\ told'.need \in Nat
  <2>1. told.until \in Clock \cup {None} /\ told.need \in Nat
    BY DEF TypeOK
  <2>2. Morning \in Clock \cup {None} /\ DayNeed \in Nat
    BY <1>1, MorningFacts, NeedFacts
  <2>3. \/ told' = told
        \/ told' = [until |-> Morning, need |-> DayNeed]
        \/ told' = [until |-> Smaller(told.until, Morning), need |-> Smaller(told.need, DayNeed)]
    BY Zenon DEF Cycle
  <2>4. /\ Smaller(told.until, Morning) \in {told.until, Morning}
        /\ Smaller(told.need, DayNeed) \in {told.need, DayNeed}
    BY Zenon DEF Smaller
  <2>5. Smaller(told.until, Morning) \in Clock \cup {None} /\ Smaller(told.need, DayNeed) \in Nat
    BY <2>1, <2>2, <2>4, Zenon
  <2> QED  BY <2>1, <2>2, <2>3, <2>5
<1>11. heavies' \in 0..MAX_HEAVY
  <2>1. heavies \in 0..MAX_HEAVY /\ MAX_HEAVY \in Nat
    BY PlannerAssumption DEF TypeOK
  <2>2. heavies' = heavies + (IF heavy' THEN 1 ELSE 0) /\ (heavy' => heavies < MAX_HEAVY)
    BY DEF Cycle
  <2> QED  BY <2>1, <2>2
<1>12. /\ scene' \in DOMAIN SCENES /\ times' \in plan'.times /\ view' \in plan'.views \cup {NoView}
       /\ changes' \in 0..MAX_CHANGES
  BY <1>2, <1>3 DEF TypeOK
<1> QED  BY <1>2, <1>4, <1>5, <1>6, <1>7, <1>8, <1>9, <1>10, <1>11, <1>12 DEF TypeOK

LEMMA FetchTypes ==
    ASSUME TypeOK, FetchClouds \/ FetchWindow \/ UNCHANGED vars
    PROVE  TypeOK'
<1>1. plan' = plan /\ Cap' = Cap
  BY DEF FetchClouds, FetchWindow, vars, plan, site, Cap
<1>2. CASE FetchClouds
  <2>1. changes' \in 0..MAX_CHANGES
    BY <1>2, PlannerAssumption DEF FetchClouds, TypeOK
  <2>2. view' \in plan'.views \cup {NoView}
    BY <1>1, <1>2 DEF FetchClouds
  <2> QED  BY <1>1, <1>2, <2>1, <2>2 DEF FetchClouds, TypeOK
<1>3. CASE FetchWindow
  <2>1. times' \in plan'.times /\ fresh' \in BOOLEAN
    BY <1>1, <1>3 DEF FetchWindow
  <2> QED  BY <1>1, <1>3, <2>1 DEF FetchWindow, TypeOK
<1>4. CASE UNCHANGED vars
  BY <1>1, <1>4 DEF vars, history, TypeOK
<1> QED  BY <1>2, <1>3, <1>4

\* A command to feed stays within the hard limit, a limit of the charging
\* power is above zero, and what the history keeps stays what it is.
THEOREM PlannerTypes == Spec => []TypeOK
<1>1. Init => TypeOK
  BY InitTypes
<1>2. TypeOK /\ [Next]_vars => TypeOK'
  BY CycleTypes, FetchTypes DEF Next, SceneOver
<1> QED  BY <1>1, <1>2, PTL DEF Spec

(***************************************************************************)
(* The night: what the battery still holds for the morning.                *)
(***************************************************************************)

\* A slot takes from the battery at most what is drawn from it.
LEMMA DrainFacts ==
    ASSUME Config, NEW c, IsCommand(c), NEW house \in Nat
    PROVE  ChargeAfter(c, house) \in Int /\ ChargeAfter(c, house) >= charge - Drawn(c, house)
<1>1. scene \in DOMAIN SCENES /\ charge \in Int /\ charge <= Cap /\ Cap \in Nat
  BY SiteFacts DEF Config
<1>2. Drawn(c, house) \in Nat
  BY <1>1, DrawnFacts
<1>3. ASSUME NEW e \in Int, e >= charge - Drawn(c, house)
      PROVE  Within(e) \in Int /\ Within(e) >= charge - Drawn(c, house)
  <2>1. Within(e) \in 0..Cap /\ (Within(e) = Cap \/ Within(e) >= e)
    BY <1>1, WithinFacts
  <2> QED  BY <1>1, <1>2, <1>3, <2>1
<1>4. Harvest \in Nat /\ c.w \in Nat
  BY HarvestFacts DEF IsCommand
<1>5. Smaller(c.w, Harvest) \in Nat
  BY <1>4 DEF Smaller
<1>6. /\ charge - Drawn(c, house) \in Int /\ charge - Drawn(c, house) >= charge - Drawn(c, house)
      /\ charge + Harvest \in Int /\ charge + Harvest >= charge - Drawn(c, house)
      /\ charge + Smaller(c.w, Harvest) \in Int
      /\ charge + Smaller(c.w, Harvest) >= charge - Drawn(c, house)
      /\ charge >= charge - Drawn(c, house)
  BY <1>1, <1>2, <1>4, <1>5
<1>7. ChargeAfter(c, house) \in {Within(charge - Drawn(c, house)), charge,
                                 Within(charge + Smaller(c.w, Harvest)), Within(charge + Harvest)}
  BY SlotCases, Zenon
<1> QED  BY <1>1, <1>3, <1>6, <1>7, Zenon

\* A battery that feeds holds the member's reserve, the night and the day.
LEMMA ReserveHeld ==
    ASSUME Config, site.known, Soc > TargetSoc
    PROVE  /\ (site.min * Cap) \div 100 \in Int
           /\ charge + 600 >= (site.min * Cap) \div 100 + NightNeed + DayNeed
<1> DEFINE k == site.kwh
           m == site.min
           s == Soc
           q == (Reserve * 10 + k - 1) \div k
<1>1. /\ s \in Nat /\ 120 * (k * s) <= charge /\ k * s \in Int /\ charge \in Nat /\ charge <= Cap
  BY SocFacts DEF Config
<1>2. k \in Nat /\ k >= 1 /\ m \in Int /\ Cap = 12000 * k
  BY SiteFacts DEF Config
<1>3. /\ NightNeed \in Nat /\ DayNeed \in Nat /\ Reserve \in Int
      /\ 24000 * Reserve > 26 * (NightNeed + DayNeed) - 12000
  BY NeedFacts
<1>4. q \in Int /\ k * q \in Int /\ k * q >= 10 * Reserve
  <2>1. Reserve * 10 + k - 1 \in Int
    BY <1>2, <1>3
  <2>2. q \in Int /\ Reserve * 10 + k - 1 < k * q + k
    BY <1>2, <2>1, DivFacts
  <2> HIDE DEF q, k
  <2>3. k * q \in Int
    BY <1>2, <2>2
  <2> QED  BY <1>2, <1>3, <2>2, <2>3
<1>5. TargetSoc = Smaller(100, m + q)
  BY DEF TargetSoc
<1> HIDE DEF k, m, s, q
<1>6. s <= 100
  <2>1. k * s <= k * 100
    BY <1>1, <1>2
  <2>2. s >= 101 => k * 101 <= k * s
    BY <1>1, <1>2
  <2> QED  BY <1>1, <1>2, <2>1, <2>2
<1>7. s >= m + q + 1
  BY <1>1, <1>2, <1>4, <1>5, <1>6 DEF Smaller, s
<1>8. k * s >= k * m + k * q + k /\ k * m \in Int
  <2>1. k * (m + q + 1) <= k * s
    BY <1>1, <1>2, <1>4, <1>7
  <2>2. k * (m + q + 1) = k * m + k * q + k /\ k * m \in Int
    BY <1>2, <1>4
  <2> QED  BY <2>1, <2>2
<1>9. (m * Cap) \div 100 = 120 * (k * m)
  <2>1. m * (12000 * k) = 100 * (120 * (k * m))
    BY <1>2
  <2> DEFINE x == 120 * (k * m)
  <2>2. x \in Int
    BY <1>8
  <2> HIDE DEF x
  <2>3. (100 * x) \div 100 = x
    BY <2>2
  <2> QED  BY <1>2, <2>1, <2>3 DEF x
<1>10. charge + 600 >= 120 * (k * m) + NightNeed + DayNeed
  BY <1>1, <1>2, <1>3, <1>4, <1>8
<1> QED  BY <1>8, <1>9, <1>10 DEF m

\* Minutes left until a morning m.
LeftOf(m, over, n) == IF over THEN m - n ELSE 1440 - n + m

\* A scene runs from its beginning to its end, over midnight or not.
ClockInv ==
    /\ midnight \in BOOLEAN
    /\ ~midnight => now >= plan.from /\ (plan.until >= plan.from => now <= plan.until)
    /\ midnight => plan.until < plan.from /\ now <= plan.until

\* A night that has been fed from holds, at every slot before the morning,
\* the member's reserve, the next day's need and the house's until then.
NightHeld ==
    site.known /\ told.until # None /\ plan.until < plan.from /\ (midnight => now <= told.until)
      => charge + spent + Overshoot
           >= (site.min * Cap) \div 100 + told.need + site.load * (LeftOf(told.until, midnight, now) \div SLOT)

NightInv == TypeOK /\ ClockInv /\ NightHeld

LastSlot == 1435

LEMMA ClockStep ==
    ASSUME TypeOK, ClockInv, Cycle
    PROVE  /\ ClockInv'
           /\ midnight => midnight' /\ now' = now + 5
           /\ ~midnight => \/ now' = now + 5 /\ ~midnight'
                           \/ now = LastSlot /\ now' = 0 /\ midnight'
<1>1. now \in 0..1435 /\ now % 5 = 0 /\ plan.from \in 0..1435 /\ plan.until \in 0..1435
      /\ plan.from % 5 = 0 /\ plan.until % 5 = 0
  BY SceneFacts, ClockFacts DEF TypeOK
<1>2. now # plan.until /\ now' = (now + SLOT) % 1440
  BY DEF Cycle
<1>12. plan' = plan
  BY CycleFacts
<1>13. midnight' = IF now' = 0 THEN TRUE ELSE midnight
  BY Zenon DEF Cycle
<1>3. (now < LastSlot => now' = now + 5) /\ (now = LastSlot => now' = 0)
  BY <1>2, ConfigOfTypes, NextSlot DEF LastSlot
<1> DEFINE from == plan.from
           until == plan.until
<1>4. midnight \in BOOLEAN
      /\ (~midnight => now >= from /\ (until >= from => now <= until))
      /\ (midnight => until < from /\ now <= until)
  BY DEF ClockInv
<1>5. plan'.from = from /\ plan'.until = until
  BY <1>12, Zenon
<1>11. now # until
      /\ now \in 0..1435 /\ now % 5 = 0 /\ from \in 0..1435 /\ until \in 0..1435
      /\ from % 5 = 0 /\ until % 5 = 0
  <2>1. now # until
    BY <1>2, Zenon
  <2> QED  BY <1>1, <2>1
<1> HIDE DEF from, until
<1>6. midnight' \in BOOLEAN /\ (midnight' <=> midnight \/ now' = 0)
  BY <1>13, <1>4, Zenon
<1>7. CASE midnight
  <2>1. until < from /\ now <= until
    BY <1>4, <1>7, Zenon
  <2>2. now + 5 <= until /\ now < LastSlot
    <3>1. now \in Nat /\ until \in Nat /\ now < until /\ until <= 1435
      BY <1>11, <2>1
    <3> QED  BY <1>11, <3>1, NextFive DEF LastSlot
  <2>3. now' = now + 5 /\ now' <= until
    BY <1>3, <2>2, Zenon
  <2>4. midnight'
    BY <1>6, <1>7, Zenon
  <2>5. ClockInv'
    BY <1>5, <1>6, <2>1, <2>3, <2>4, Zenon DEF ClockInv
  <2> QED  BY <1>7, <2>3, <2>4, <2>5, Zenon
<1>8. CASE ~midnight /\ now < LastSlot
  <2>1. now' = now + 5
    BY <1>3, <1>8, Zenon
  <2>2. now' # 0
    BY <1>11, <2>1
  <2>3. ~midnight'
    BY <1>6, <1>8, <2>2, Zenon
  <2>4. now >= from /\ (until >= from => now <= until)
    BY <1>4, <1>8, Zenon
  <2>7. now \in Nat /\ from \in Nat /\ until \in Nat
    BY <1>11
  <2>8. until >= from => now + 5 <= until
    <3>1. until >= from => now < until
      BY <1>11, <2>4, <2>7
    <3> QED  BY <1>11, <2>7, <3>1, NextFive
  <2>5. now' >= from /\ (until >= from => now' <= until)
    BY <2>1, <2>4, <2>7, <2>8
  <2>6. ClockInv'
    BY <1>5, <1>6, <2>3, <2>5, Zenon DEF ClockInv
  <2> QED  BY <1>8, <2>1, <2>3, <2>6, Zenon
<1>9. CASE ~midnight /\ now = LastSlot
  <2>1. now' = 0
    BY <1>3, <1>9, Zenon
  <2>2. now >= from /\ (until >= from => now <= until)
    BY <1>4, <1>9, Zenon
  <2>3. until < from /\ now' <= until
    BY <1>11, <1>9, <2>1, <2>2 DEF LastSlot
  <2>4. midnight'
    BY <1>6, <2>1, Zenon
  <2>5. ClockInv'
    BY <1>5, <1>6, <2>3, <2>4, Zenon DEF ClockInv
  <2> QED  BY <1>9, <2>1, <2>4, <2>5, Zenon
<1>10. now < LastSlot \/ now = LastSlot
  BY <1>11 DEF LastSlot
<1> QED  BY <1>7, <1>8, <1>9, <1>10, Zenon

\* The minutes left become fewer by a slot.
LEMMA LeftStep ==
    ASSUME TypeOK, ClockInv, Cycle, NEW m \in Nat, midnight' => now' <= m
    PROVE  /\ LeftOf(m, midnight', now') \in Nat /\ LeftOf(m, midnight, now) = LeftOf(m, midnight', now') + 5
           /\ LeftOf(m, midnight', now') \div SLOT \in Nat /\ LeftOf(m, midnight, now) \div SLOT = (LeftOf(m, midnight', now') \div SLOT) + 1
<1> DEFINE left  == LeftOf(m, midnight, now)
           left2 == LeftOf(m, midnight', now')
<1>1. now \in 0..1435 /\ now' \in 0..1435
  BY CycleTypes, ClockFacts DEF TypeOK
<1>2. /\ midnight => midnight' /\ now' = now + 5
      /\ ~midnight => (now' = now + 5 /\ ~midnight') \/ (now = LastSlot /\ now' = 0 /\ midnight')
  BY ClockStep
<1>3. /\ midnight => left = m - now
      /\ ~midnight => left = 1440 - now + m
  BY DEF LeftOf
<1>7. /\ midnight' => left2 = m - now'
      /\ ~midnight' => left2 = 1440 - now' + m
  BY DEF LeftOf
<1> HIDE DEF left, left2
<1>4. \/ left = m - now /\ left2 = m - now' /\ now' = now + 5 /\ now' <= m
      \/ left = 1440 - now + m /\ left2 = 1440 - now' + m /\ now' = now + 5
      \/ left = 1440 - now + m /\ left2 = m - now' /\ now = LastSlot /\ now' = 0
  <2>1. CASE midnight
    <3>1. midnight' /\ now' = now + 5
      BY <1>2, <2>1, Zenon
    <3>2. left = m - now
      BY <1>3, <2>1
    <3>3. left2 = m - now' /\ now' <= m
      BY <1>7, <3>1
    <3> QED  BY <3>1, <3>2, <3>3
  <2>2. CASE ~midnight
    <3>1. left = 1440 - now + m
      BY <1>3, <2>2
    <3>2. CASE now' = now + 5 /\ ~midnight'
      <4>1. left2 = 1440 - now' + m
        BY <1>7, <3>2
      <4> QED  BY <3>1, <3>2, <4>1
    <3>3. CASE now = LastSlot /\ now' = 0 /\ midnight'
      <4>1. left2 = m - now'
        BY <1>7, <3>3
      <4> QED  BY <3>1, <3>3, <4>1
    <3>4. (now' = now + 5 /\ ~midnight') \/ (now = LastSlot /\ now' = 0 /\ midnight')
      BY <1>2, <2>2, Zenon
    <3> QED  BY <3>2, <3>3, <3>4, SMT
  <2> QED  BY <2>1, <2>2, Zenon
<1>5. left2 \in Nat /\ left = left2 + 5
  BY <1>1, <1>4 DEF LastSlot
<1>6. left2 \div 5 \in Nat /\ left \div 5 = (left2 \div 5) + 1
  BY <1>5
<1> QED  BY <1>5, <1>6 DEF left, left2, SLOT

LEMMA NightInit == Init => NightInv
<1> SUFFICES ASSUME Init PROVE NightInv
  OBVIOUS
<1>1. now = plan.from /\ midnight = FALSE /\ told = [until |-> None, need |-> 0]
  BY DEF Init
<1>2. scene \in DOMAIN SCENES
  BY DEF Init
<1>3. plan.from \in 0..1435 /\ plan.until \in 0..1435
  BY <1>2, SceneFacts, ClockFacts
<1>4. ClockInv
  <2>1. now >= plan.from /\ (plan.until >= plan.from => now <= plan.until)
    <3> DEFINE from == plan.from
               until == plan.until
    <3>1. from \in 0..1435 /\ until \in 0..1435 /\ now = from
      BY <1>1, <1>3
    <3> HIDE DEF from, until
    <3>2. now >= from /\ (until >= from => now <= until)
      BY <3>1
    <3> QED  BY <3>2 DEF from, until
  <2> QED  BY <1>1, <2>1, Zenon DEF ClockInv
<1>5. told.until = None
  BY <1>1
<1>6. NightHeld
  BY <1>5, Zenon DEF NightHeld
<1> QED  BY <1>4, <1>6, InitTypes DEF NightInv

\* What a cycle that feeds leaves for the morning it reckons with.
LEMMA FeedingStep ==
    ASSUME NightInv, Cycle, site.known, command'.kind = "discharge",
           midnight \/ plan.until < plan.from, midnight' => now' <= Morning
    PROVE  charge' + spent' + Overshoot
             >= (site.min * Cap) \div 100 + DayNeed + site.load * (LeftOf(Morning, midnight', now') \div SLOT)
<1>1. TypeOK /\ ClockInv /\ Config
  BY ConfigOfTypes DEF NightInv
<1>2. Feeding(command')
  BY <1>1, CycleFacts, DecisionFacts
<1>3. Morning \in 180..895 /\ Morning \in Nat
  BY <1>1, <1>2, MorningFacts DEF Feeding, None
<1>4. Soc > TargetSoc
  <2>1. Soc \in Int /\ TargetSoc \in Int
    BY <1>1, SocFacts, TargetFacts
  <2>2. ~(Soc <= TargetSoc)
    BY <1>2 DEF Feeding
  <2> QED  BY <2>1, <2>2
<1> DEFINE held == (site.min * Cap) \div 100
           load == site.load
           night == NightNeed
           day == DayNeed
           n == LeftOf(Morning, midnight', now') \div SLOT
<1>5. held \in Int /\ charge + 600 >= held + night + day
  BY <1>1, <1>4, ReserveHeld
<1>13. PICK house \in Nat : house = HouseNow
  BY <1>1, HouseFacts DEF Config
<1>6. charge' \in Int /\ charge \in Int /\ charge' >= charge - 5000 - house
  <2>1. charge' = ChargeAfter(command', house) /\ IsCommand(command')
    BY <1>1, <1>13, CycleFacts
  <2>2. charge \in Int
    BY <1>1 DEF Config
  <2>3. charge' \in Int /\ charge' >= charge - Drawn(command', house)
    BY <1>1, <2>1, DrainFacts
  <2>4. Drawn(command', house) \in Nat /\ Drawn(command', house) <= 5000 + house
    BY <1>1, <2>1, DrawnFacts DEF Config, ABSOLUTE_MAX
  <2> QED  BY <2>2, <2>3, <2>4
<1>7. spent \in Nat /\ spent' = spent + house - load /\ load \in Nat
  BY <1>1, <1>13, CycleFacts, HouseFacts DEF TypeOK
<1>8. n \in Nat /\ night = load * n + load /\ load * n \in Nat
  <2>1. n \in Nat /\ LeftOf(Morning, midnight, now) \div SLOT = n + 1
    BY <1>1, <1>3, LeftStep
  <2>2. Until(Morning) = LeftOf(Morning, midnight, now)
    <3>1. now \in 0..1435 /\ now' \in 0..1435
      BY <1>1, CycleTypes, ClockFacts DEF TypeOK
    <3>2. CASE midnight
      <4>1. now' = now + 5 /\ midnight'
        BY <1>1, <3>2, ClockStep
      <4>2. now < Morning
        BY <1>3, <3>1, <4>1
      <4> QED  BY <1>1, <1>3, <3>2, <4>2, UntilFacts DEF LeftOf
    <3>3. CASE ~midnight
      <4>1. now >= plan.from /\ plan.from \in Int /\ plan.from >= 900
        <5>1. plan.until < plan.from
          BY <3>3
        <5>2. now >= plan.from
          BY <1>1, <3>3, Zenon DEF ClockInv
        <5>3. plan.from \in Clock /\ plan.from >= 900
          BY <1>1, <5>1, SceneFacts DEF Config
        <5> QED  BY <5>2, <5>3, ClockNumbers
      <4>2. now >= Morning
        BY <1>3, <3>1, <4>1
      <4> QED  BY <1>1, <1>3, <3>3, <4>2, UntilFacts DEF LeftOf
    <3> QED  BY <3>2, <3>3
  <2>3. night = load * (n + 1)
    BY <2>1, <2>2 DEF NightNeed
  <2> HIDE DEF n, night, load
  <2>4. load * (n + 1) = load * n + load /\ load * n \in Nat
    BY <1>7, <2>1
  <2> QED  BY <2>1, <2>3, <2>4
<1>9. day \in Nat
  BY <1>1, NeedFacts
<1>10. Overshoot = 5600
  BY DEF Overshoot, ABSOLUTE_MAX, KWH
<1> DEFINE rest == load * n
<1>11. rest \in Nat /\ night = rest + load
  BY <1>8
<1> HIDE DEF held, load, night, day, n, rest
<1>14. PICK c2 \in Int : c2 = charge'
  BY <1>6
<1>15. PICK s2 \in Int : s2 = spent'
  BY <1>7
<1>16. c2 >= charge - 5000 - house /\ s2 = spent + house - load
  BY <1>6, <1>7, <1>14, <1>15
<1>12. c2 + s2 + 5600 >= held + day + rest
  BY <1>5, <1>6, <1>7, <1>9, <1>11, <1>16
<1> QED  BY <1>10, <1>12, <1>14, <1>15 DEF held, load, day, n, rest

\* A cycle that does not feed takes the house's need, no more.
LEMMA RestingStep ==
    ASSUME NightInv, Cycle, command'.kind # "discharge"
    PROVE  /\ charge \in Int /\ charge' \in Int /\ spent \in Int /\ spent' \in Int
           /\ charge' + spent' >= charge + spent - site.load
<1>1. TypeOK /\ Config
  BY ConfigOfTypes DEF NightInv
<1>2. charge' = ChargeAfter(command', HouseNow) /\ IsCommand(command') /\ spent' = spent + HouseNow - site.load
  BY <1>1, CycleFacts
<1>3. HouseNow \in Nat /\ charge \in Int /\ site.load \in Nat /\ spent \in Nat
  BY <1>1, HouseFacts DEF Config, TypeOK
<1>4. charge' \in Int /\ charge' >= charge - Drawn(command', HouseNow)
  BY <1>1, <1>2, <1>3, DrainFacts
<1>5. Drawn(command', HouseNow) = HouseNow
  BY <1>1, <1>2, <1>3, DrawnFacts DEF Config
<1> QED  BY <1>2, <1>3, <1>4, <1>5

LEMMA NightCycle ==
    ASSUME NightInv, Cycle
    PROVE  NightInv'
<1>1. TypeOK /\ ClockInv /\ NightHeld /\ Config /\ TypeOK' /\ ClockInv'
  BY ConfigOfTypes, CycleTypes, ClockStep DEF NightInv
<1>2. plan' = plan /\ site' = site /\ Cap' = Cap
  BY <1>1, CycleFacts
<1> DEFINE held == (site.min * Cap) \div 100
           load == site.load
           u2 == told'.until
           n2 == LeftOf(u2, midnight', now') \div SLOT
<1>3. SUFFICES ASSUME site.known, u2 # None, plan.until < plan.from, midnight' => now' <= u2
               PROVE  charge' + spent' + Overshoot >= held + told'.need + load * n2
  BY <1>1, <1>2, Zenon DEF NightInv, NightHeld
<1>4. load \in Nat /\ held \in Int /\ Overshoot = 5600
  <2>1. site.min \in Int /\ Cap \in Int
    BY <1>1, SiteFacts DEF Config
  <2>2. site.min * Cap \in Int
    BY <2>1
  <2> QED  BY <1>1, <2>2, HouseFacts DEF Config, Overshoot, ABSOLUTE_MAX, KWH
<1>5. u2 \in Nat /\ told'.need \in Nat
  <2>1. u2 \in Clock \cup {None} /\ told'.need \in Nat
    BY <1>1 DEF TypeOK
  <2> HIDE DEF u2
  <2> QED  BY <1>3, <2>1, ClockNumbers
<1>6. n2 \in Nat
  BY <1>1, <1>3, <1>5, LeftStep
<1>7. charge' \in Int /\ spent' \in Int
  BY <1>1, <1>2, SiteFacts DEF TypeOK
<1>8. CASE command'.kind = "discharge"
  <2>1. Morning \in Nat /\ DayNeed \in Nat
    <3>1. Feeding(command')
      BY <1>1, <1>8, CycleFacts, DecisionFacts
    <3> QED  BY <1>1, <3>1, MorningFacts, NeedFacts DEF Feeding, None
  <2>2. \/ told' = [until |-> Morning, need |-> DayNeed]
        \/ told' = [until |-> Smaller(told.until, Morning), need |-> Smaller(told.need, DayNeed)]
    BY <1>8, Zenon DEF Cycle
  <2>3. u2 <= Morning /\ told'.need <= DayNeed
    <3>1. told.until \in Int /\ told.need \in Int
      <4>1. told.until \in Clock \cup {-1} /\ told.need \in Nat
        BY <1>1 DEF TypeOK, None
      <4> QED  BY <4>1, ClockNumbers
    <3>2. Smaller(told.until, Morning) <= Morning /\ Smaller(told.need, DayNeed) <= DayNeed
      BY <2>1, <3>1 DEF Smaller
    <3> QED  BY <2>1, <2>2, <3>2
  <2>4. midnight' => now' <= Morning
    <3>1. now' \in Int
      BY <1>1, ClockNumbers DEF TypeOK
    <3> QED  BY <1>3, <1>5, <2>1, <2>3, <3>1
  <2> DEFINE n == LeftOf(Morning, midnight', now') \div SLOT
  <2>5. charge' + spent' + Overshoot >= held + DayNeed + load * n
    BY <1>3, <1>8, <2>4, FeedingStep
  <2>6. n \in Nat /\ n2 <= n
    <3>1. LeftOf(Morning, midnight', now') \in Nat
      BY <1>1, <2>1, <2>4, LeftStep
    <3>2. LeftOf(u2, midnight', now') \in Nat
      BY <1>1, <1>3, <1>5, LeftStep
    <3>3. LeftOf(u2, midnight', now') <= LeftOf(Morning, midnight', now')
      <4>1. now' \in Int
        BY <1>1, ClockNumbers DEF TypeOK
      <4>2. CASE midnight'
        BY <1>5, <2>1, <2>3, <4>1, <4>2 DEF LeftOf
      <4>3. CASE ~midnight'
        BY <1>5, <2>1, <2>3, <4>1, <4>3 DEF LeftOf
      <4> QED  BY <4>2, <4>3
    <3> DEFINE a == LeftOf(u2, midnight', now')
               b == LeftOf(Morning, midnight', now')
    <3> HIDE DEF a, b
    <3>4. a \in Nat /\ b \in Nat /\ a <= b
      BY <3>1, <3>2, <3>3 DEF a, b
    <3>5. a \div 5 <= b \div 5 /\ b \div 5 \in Nat
      BY <3>4
    <3> QED  BY <3>5 DEF a, b, SLOT
  <2> HIDE DEF n, n2, load, held, u2
  <2>7. load * n2 <= load * n /\ load * n2 \in Int /\ load * n \in Int
    BY <1>4, <1>6, <2>6, Times
  <2> DEFINE x == load * n
             x2 == load * n2
  <2> HIDE DEF x, x2
  <2>8. PICK a2 \in Int, b2 \in Int : a2 = charge' /\ b2 = spent'
    BY <1>7
  <2>9. PICK d \in Int : d = told'.need
    BY <1>5
  <2>10. x \in Int /\ x2 \in Int /\ x2 <= x
    BY <2>7 DEF x, x2
  <2>11. a2 + b2 + 5600 >= held + DayNeed + x
    BY <1>4, <2>5, <2>8 DEF x
  <2>12. a2 + b2 + 5600 >= held + d + x2
    BY <1>4, <2>1, <2>3, <2>9, <2>10, <2>11
  <2> QED  BY <1>4, <2>8, <2>9, <2>12 DEF x2
<1>9. CASE command'.kind # "discharge"
  <2>1. told' = told
    BY <1>9, Zenon DEF Cycle
  <2>2. u2 = told.until /\ told'.need = told.need
    BY <2>1
  <2>3. midnight => now <= u2
    <3>1. now \in Int /\ (midnight => midnight' /\ now' = now + 5)
      BY <1>1, ClockStep, ClockNumbers DEF TypeOK
    <3>2. ASSUME midnight PROVE now <= u2
      <4>1. now + 5 <= u2
        BY <1>3, <3>1, <3>2, Zenon
      <4> QED  BY <1>5, <3>1, <4>1
    <3> QED  BY <3>2
  <2> DEFINE n == LeftOf(u2, midnight, now) \div SLOT
  <2>4. charge + spent + Overshoot >= held + told.need + load * n
    BY <1>1, <1>3, <2>2, <2>3, Zenon DEF NightHeld
  <2>5. n = n2 + 1
    BY <1>1, <1>3, <1>5, LeftStep
  <2>6. /\ charge \in Int /\ spent \in Int
        /\ charge' + spent' >= charge + spent - load
    BY <1>9, RestingStep
  <2> HIDE DEF n, n2, load, held, u2
  <2>7. load * n = load * n2 + load /\ load * n2 \in Int
    BY <1>4, <1>6, <2>5
  <2> DEFINE x == load * n2
  <2>8. PICK a2 \in Int, b2 \in Int : a2 = charge' /\ b2 = spent'
    BY <1>7
  <2>9. PICK d \in Int : d = told.need
    BY <1>5, <2>2
  <2>10. x \in Int /\ load * n = x + load
    BY <2>7
  <2> HIDE DEF x
  <2>11. a2 + b2 >= charge + spent - load
    BY <2>6, <2>8
  <2>12. charge + spent + 5600 >= held + d + x + load
    BY <1>4, <2>4, <2>6, <2>9, <2>10
  <2>13. a2 + b2 + 5600 >= held + d + x
    BY <1>4, <2>6, <2>9, <2>10, <2>11, <2>12
  <2> QED  BY <1>4, <2>2, <2>8, <2>9, <2>13 DEF x
<1> QED  BY <1>8, <1>9

LEMMA NightFetch ==
    ASSUME NightInv, FetchClouds \/ FetchWindow \/ UNCHANGED vars
    PROVE  NightInv'
<1>1. TypeOK'
  BY FetchTypes DEF NightInv
<1>2. /\ plan' = plan /\ site' = site /\ Cap' = Cap
      /\ midnight' = midnight /\ now' = now /\ charge' = charge /\ spent' = spent /\ told' = told
  BY DEF FetchClouds, FetchWindow, vars, history, plan, site, Cap
<1>3. ClockInv'
  BY <1>2 DEF NightInv, ClockInv
<1>4. NightHeld'
  BY <1>2, Zenon DEF NightInv, NightHeld
<1> QED  BY <1>1, <1>3, <1>4 DEF NightInv

LEMMA NightHolds == Spec => []NightInv
<1>1. NightInv /\ [Next]_vars => NightInv'
  BY NightCycle, NightFetch DEF Next, SceneOver
<1> QED  BY <1>1, NightInit, PTL DEF Spec

\* When the community's morning comes a battery that fed holds what it must.
THEOREM PlannerReachesMorning == Spec => []ReachesMorning
<1>1. NightInv => ReachesMorning
  <2> SUFFICES ASSUME NightInv, site.known, told.until # None, midnight, now = told.until
               PROVE  charge + spent + Overshoot >= (site.min * Cap) \div 100 + told.need
    BY Zenon DEF ReachesMorning
  <2> DEFINE held == (site.min * Cap) \div 100
             load == site.load
  <2>1. /\ plan.until < plan.from /\ now \in Nat /\ load \in Nat
        /\ told.need \in Int /\ charge \in Int /\ spent \in Int /\ held \in Int
    <3>1. plan.until < plan.from
      BY Zenon DEF NightInv, ClockInv
    <3>2. now \in Nat /\ told.need \in Int /\ charge \in Int /\ spent \in Int
      BY ClockNumbers DEF NightInv, TypeOK
    <3>3. site.min \in Int /\ Cap \in Int /\ load \in Nat
      BY SiteFacts DEF NightInv, TypeOK
    <3>4. site.min * Cap \in Int
      BY <3>3
    <3> QED  BY <3>1, <3>2, <3>3, <3>4
  <2>2. now <= told.until
    BY <2>1
  <2>3. charge + spent + Overshoot >= held + told.need + load * (LeftOf(told.until, midnight, now) \div SLOT)
    BY <2>1, <2>2, Zenon DEF NightInv, NightHeld
  <2>4. LeftOf(told.until, midnight, now) = 0
    BY <2>1 DEF LeftOf
  <2> DEFINE a == LeftOf(told.until, midnight, now)
  <2> HIDE DEF a
  <2>9. a = 0
    BY <2>4 DEF a
  <2>10. a \div 5 = 0
    BY <2>9
  <2>5. LeftOf(told.until, midnight, now) \div SLOT = 0
    BY <2>10 DEF a, SLOT
  <2> HIDE DEF held, load
  <2>6. load * 0 = 0
    BY <2>1
  <2>7. charge + spent + Overshoot >= held + told.need + 0
    BY <2>3, <2>5, <2>6, Zenon
  <2>8. held + told.need + 0 = held + told.need
    BY <2>1
  <2> QED  BY <2>7, <2>8, Zenon DEF held
<1> QED  BY <1>1, NightHolds, PTL

(***************************************************************************)
(* The sun that is left until the deadline, in percent of a slot.          *)
(***************************************************************************)
SunAt(p, h) == IF h \in DAY THEN p.sun[h] ELSE 0
SunTerms(p, d, t) == [h \in 0..23 |-> SunAt(p, h) * Overlap(h, t, d)]
SunLeft(p, d, t) == SumFunctionOnSet(SunTerms(p, d, t), 0..23)

LEMMA SunAtFacts ==
    ASSUME scene \in DOMAIN SCENES, NEW h
    PROVE  SunAt(plan, h) \in Nat /\ SunAt(plan, h) <= 100
BY SceneFacts DEF SunAt

\* Two slots one after the other and an end not before the second.
Slots(t, u, d) == u = t + 5 /\ t % 5 = 0 /\ d % 5 = 0 /\ u <= d /\ d <= 1440

\* An hour's part of a span that begins at from and of one a slot shorter.
LEMMA OverlapStep ==
    ASSUME NEW t \in Nat, NEW d \in Nat, NEW u \in Nat,
           u - t = 5, t % 5 = 0, d % 5 = 0, u <= d, NEW h \in Int
    PROVE  /\ h = t \div 60 => Overlap(h, t, d) = Overlap(h, u, d) + 1
           /\ h # t \div 60 => Overlap(h, t, d) = Overlap(h, u, d)
<1> DEFINE e == Smaller((h + 1) * 60, d)
           b == Larger(h * 60, t)
           b2 == Larger(h * 60, u)
<1>1. e \in Int /\ b \in Int /\ b2 \in Int
  BY DEF Smaller, Larger
<1>2. h = t \div 60 => b = t /\ b2 = t + 5 /\ e >= t + 5
  <2> SUFFICES ASSUME h = t \div 60 PROVE b = t /\ b2 = t + 5 /\ e >= t + 5
    OBVIOUS
  <2>1. h * 60 <= t /\ t + 5 <= (h + 1) * 60
    OBVIOUS
  <2> QED  BY <2>1 DEF Smaller, Larger
<1>3. h < t \div 60 => e - b <= 0 /\ e - b2 <= 0
  <2> SUFFICES ASSUME h < t \div 60 PROVE e - b <= 0 /\ e - b2 <= 0
    OBVIOUS
  <2>1. (h + 1) * 60 <= t
    OBVIOUS
  <2> QED  BY <2>1 DEF Smaller, Larger
<1>4. h > t \div 60 => b = b2
  <2> SUFFICES ASSUME h > t \div 60 PROVE b = b2
    OBVIOUS
  <2>1. h * 60 >= t + 5
    OBVIOUS
  <2> QED  BY <2>1 DEF Larger
<1>5. Overlap(h, t, d) = Larger(0, e - b) \div 5 /\ Overlap(h, u, d) = Larger(0, e - b2) \div 5
  BY DEF Overlap, SLOT
<1> HIDE DEF e, b, b2
<1>6. h = t \div 60 => Overlap(h, t, d) = Overlap(h, u, d) + 1
  <2> SUFFICES ASSUME h = t \div 60 PROVE Overlap(h, t, d) = Overlap(h, u, d) + 1
    OBVIOUS
  <2>1. Larger(0, e - b) = e - t /\ Larger(0, e - b2) = e - t - 5 /\ e - t - 5 >= 0
    BY <1>1, <1>2 DEF Larger
  <2> DEFINE x == e - t - 5
  <2>2. x \in Nat /\ e - t = x + 5
    BY <1>1, <2>1
  <2> HIDE DEF x
  <2>3. (x + 5) \div 5 = (x \div 5) + 1
    BY <2>2
  <2> QED  BY <1>5, <2>1, <2>2, <2>3 DEF x
<1>7. h < t \div 60 => Overlap(h, t, d) = Overlap(h, u, d)
  <2> SUFFICES ASSUME h < t \div 60 PROVE Overlap(h, t, d) = Overlap(h, u, d)
    OBVIOUS
  <2>1. Larger(0, e - b) = 0 /\ Larger(0, e - b2) = 0
    BY <1>1, <1>3 DEF Larger
  <2> QED  BY <1>5, <2>1
<1>8. h > t \div 60 => Overlap(h, t, d) = Overlap(h, u, d)
  <2> SUFFICES ASSUME h > t \div 60 PROVE Overlap(h, t, d) = Overlap(h, u, d)
    OBVIOUS
  <2> QED  BY <1>4, <1>5
<1>9. t \div 60 \in Int
  OBVIOUS
<1> QED  BY <1>6, <1>7, <1>8, <1>9

LEMMA OverlapLater ==
    ASSUME NEW t \in Int, NEW u \in Int, t <= u, NEW d \in Int, NEW h \in Int
    PROVE  Overlap(h, u, d) <= Overlap(h, t, d)
<1> DEFINE e == Smaller((h + 1) * 60, d)
           x == Larger(0, e - Larger(h * 60, u))
           y == Larger(0, e - Larger(h * 60, t))
<1>1. e \in Int
  BY DEF Smaller
<1>2. Larger(h * 60, u) \in Int /\ Larger(h * 60, t) \in Int /\ Larger(h * 60, t) <= Larger(h * 60, u)
  BY DEF Larger
<1> HIDE DEF e
<1>3. x \in Nat /\ y \in Nat /\ x <= y
  <2> DEFINE a == Larger(h * 60, u)
             b == Larger(h * 60, t)
  <2> HIDE DEF a, b
  <2>1. a \in Int /\ b \in Int /\ b <= a
    BY <1>2 DEF a, b
  <2>2. Larger(0, e - a) \in Nat /\ Larger(0, e - b) \in Nat /\ Larger(0, e - a) <= Larger(0, e - b)
    BY <1>1, <2>1 DEF Larger
  <2> QED  BY <2>2 DEF a, b
<1> HIDE DEF x, y
<1>4. x \div 5 <= y \div 5
  BY <1>3
<1> QED  BY <1>4 DEF Overlap, SLOT, x, y, e

LEMMA SunLeftTerms ==
    ASSUME scene \in DOMAIN SCENES, NEW d \in Int, NEW t \in Int
    PROVE  /\ \A h \in 0..23 : SunTerms(plan, d, t)[h] \in Nat
           /\ SunLeft(plan, d, t) \in Nat
<1> DEFINE f == SunTerms(plan, d, t)
<1>1. ASSUME NEW h \in 0..23 PROVE f[h] \in Nat
  <2>3. h \in Int
    OBVIOUS
  <2>1. SunAt(plan, h) \in Nat /\ Overlap(h, t, d) \in Nat
    BY <2>3, SunAtFacts, OverlapFacts
  <2>2. SunAt(plan, h) * Overlap(h, t, d) \in Nat
    BY <2>1
  <2> QED  BY <2>2 DEF SunTerms
<1> HIDE DEF f
<1>2. SumFunctionOnSet(f, 0..23) \in Int
  BY <1>1, Hours, SumFacts
<1>3. SumFunctionOnSet(f, {}) <= SumFunctionOnSet(f, 0..23)
  BY <1>1, Hours, SumSmaller
<1>4. SumFunctionOnSet(f, {}) = 0
  BY SumFacts, FS_EmptySet
<1> QED  BY <1>1, <1>2, <1>3, <1>4 DEF f, SunLeft

\* A slot takes its own sun from what is left; nothing is left at the end.
LEMMA SunLeftStep ==
    ASSUME scene \in DOMAIN SCENES, NEW d \in Nat, NEW t \in Nat, NEW u \in Nat, Slots(t, u, d)
    PROVE  /\ SunAt(plan, t \div 60) \in 0..100
           /\ SunLeft(plan, d, t) = SunLeft(plan, d, u) + SunAt(plan, t \div 60)
<1> DEFINE f == SunTerms(plan, d, t)
           g == SunTerms(plan, d, u)
           k == t \div 60
           D == 0..23
           R == D \ {k}
<1>1. k \in D
  BY DEF Slots
<1>11. (\A h \in D : f[h] \in Nat) /\ (\A h \in D : g[h] \in Nat)
  <2>1. u \in Int /\ t \in Int /\ d \in Int
    OBVIOUS
  <2>3. \A h \in 0..23 : SunTerms(plan, d, t)[h] \in Nat
    BY <2>1, SunLeftTerms
  <2>4. \A h \in 0..23 : SunTerms(plan, d, u)[h] \in Nat
    BY <2>1, SunLeftTerms
  <2> QED  BY <2>3, <2>4, Zenon
<1>2. (\A h \in D : f[h] \in Int) /\ (\A h \in D : g[h] \in Int)
  <2> HIDE DEF f, g
  <2> QED  BY <1>11
<1>3. \A h \in R : f[h] = g[h]
  <2> TAKE h \in R
  <2>1. Overlap(h, t, d) = Overlap(h, u, d)
    BY OverlapStep DEF Slots
  <2> QED  BY <2>1 DEF SunTerms
<1>4. SunAt(plan, k) \in 0..100
  BY SunAtFacts
<1>5. f[k] = g[k] + SunAt(plan, k)
  <2>1. Overlap(k, t, d) = Overlap(k, u, d) + 1 /\ Overlap(k, u, d) \in Int
    <3>1. k \in Int /\ u \in Int /\ d \in Int
      OBVIOUS
    <3>2. Overlap(k, t, d) = Overlap(k, u, d) + 1
      BY <3>1, OverlapStep DEF Slots
    <3> HIDE DEF k
    <3>3. Overlap(k, u, d) \in Nat
      BY <3>1, OverlapFacts
    <3> QED  BY <3>2, <3>3
  <2> DEFINE s == SunAt(plan, k)
             o == Overlap(k, u, d)
  <2>2. s * (o + 1) = s * o + s
    <3> HIDE DEF s, o
    <3> QED  BY <1>4, <2>1 DEF s, o
  <2> QED  BY <1>1, <2>1, <2>2 DEF SunTerms
<1> HIDE DEF f, g, k
<1>6. IsFiniteSet(D) /\ IsFiniteSet(R)
  BY Hours, FS_Subset
<1>7. /\ SumFunctionOnSet(f, D) = f[k] + SumFunctionOnSet(f, R)
      /\ SumFunctionOnSet(g, D) = g[k] + SumFunctionOnSet(g, R)
      /\ SumFunctionOnSet(g, R) \in Int
  <2>1. \A h \in R : g[h] \in Int
    BY <1>2
  <2>6. \A h \in D : f[h] \in Int
    BY <1>2
  <2>7. k \in D
    BY <1>1
  <2> HIDE DEF D
  <2>2. SumFunctionOnSet(g, R) \in Int
    BY <1>6, <2>1, SumFacts
  <2>3. \A x \in D : SumFunctionOnSet(f, D) = f[x] + SumFunctionOnSet(f, D \ {x})
    BY <1>6, <2>6, SumFacts
  <2>5. \A h \in D : g[h] \in Int
    BY <1>2
  <2>4. \A x \in D : SumFunctionOnSet(g, D) = g[x] + SumFunctionOnSet(g, D \ {x})
    BY <1>6, <2>5, SumFacts
  <2> QED  BY <2>2, <2>3, <2>4, <2>7
<1>8. SumFunctionOnSet(f, R) = SumFunctionOnSet(g, R)
  BY <1>2, <1>3, <1>6, SumSame
<1>9. g[k] \in Int /\ f[k] \in Int
  BY <1>1, <1>2
<1>10. SumFunctionOnSet(f, D) = SumFunctionOnSet(g, D) + SunAt(plan, k)
  BY <1>4, <1>5, <1>7, <1>8, <1>9
<1> QED  BY <1>4, <1>10 DEF f, g, k, SunLeft

LEMMA SunLeftEnd ==
    ASSUME scene \in DOMAIN SCENES, NEW d \in Nat
    PROVE  SunLeft(plan, d, d) = 0
<1> DEFINE f == SunTerms(plan, d, d)
<1>1. ASSUME NEW h \in 0..23 PROVE f[h] \in Int /\ f[h] = 0 * f[h]
  <2>1. Overlap(h, d, d) = 0
    <3>1. Larger(0, Smaller((h + 1) * 60, d) - Larger(h * 60, d)) = 0
      BY DEF Larger, Smaller
    <3> QED  BY <3>1 DEF Overlap, SLOT
  <2>2. SunAt(plan, h) \in Int
    BY SunAtFacts
  <2>3. SunAt(plan, h) * 0 = 0
    BY <2>2
  <2>4. f[h] = 0
    BY <2>1, <2>3 DEF SunTerms
  <2> QED  BY <2>4
<1> HIDE DEF f
<1>2. SumFunctionOnSet(f, 0..23) = 0 * SumFunctionOnSet(f, 0..23) /\ SumFunctionOnSet(f, 0..23) \in Int
  BY <1>1, Hours, SumScaled, SumFacts
<1> QED  BY <1>2 DEF f, SunLeft

LEMMA SunLeftLater ==
    ASSUME scene \in DOMAIN SCENES, NEW d \in Int, NEW t \in Int, NEW u \in Int, t <= u
    PROVE  SunLeft(plan, d, u) <= SunLeft(plan, d, t)
<1> DEFINE f == SunTerms(plan, d, u)
           g == SunTerms(plan, d, t)
<1>1. (\A h \in 0..23 : f[h] \in Nat) /\ (\A h \in 0..23 : g[h] \in Nat)
  BY SunLeftTerms
<1>2. \A h \in 0..23 : f[h] <= g[h]
  <2> TAKE h \in 0..23
  <2>3. h \in Int
    OBVIOUS
  <2>1. SunAt(plan, h) \in Nat /\ Overlap(h, u, d) \in Int /\ Overlap(h, t, d) \in Int
        /\ Overlap(h, u, d) <= Overlap(h, t, d)
    <3>1. Overlap(h, u, d) \in Nat /\ Overlap(h, t, d) \in Nat
      BY <2>3, OverlapFacts
    <3>2. Overlap(h, u, d) <= Overlap(h, t, d)
      BY <2>3, OverlapLater
    <3> QED  BY <3>1, <3>2, SunAtFacts
  <2>2. SunAt(plan, h) * Overlap(h, u, d) <= SunAt(plan, h) * Overlap(h, t, d)
    BY <2>1, Times
  <2> QED  BY <2>2 DEF SunTerms
<1> HIDE DEF f, g
<1>3. SumFunctionOnSet(f, 0..23) <= SumFunctionOnSet(g, 0..23)
  BY <1>1, <1>2, Hours, SumSmaller
<1> QED  BY <1>3 DEF f, g, SunLeft

\* The sun is never below a share from t to the end d.
Above(share, t, d) == \A h \in (t \div 60)..((d - 1) \div 60) : SunAt(plan, h) >= share

\* Two times that are slots apart.
Span(t, d) == t % 5 = 0 /\ d % 5 = 0 /\ t <= d /\ d <= 1440

\* Such a sun gives at least that share of every slot.
LEMMA SteadyLeft ==
    ASSUME scene \in DOMAIN SCENES, NEW d \in Nat, NEW t \in Nat, Span(t, d),
           NEW share \in Nat, Above(share, t, d)
    PROVE  SunLeft(plan, d, t) >= share * ((d - t) \div 5)
<1> DEFINE Short(u, n) == /\ u \in Nat /\ u % 5 = 0 /\ t <= u /\ u + 5 * n = d
                          /\ ~(SunLeft(plan, d, u) >= share * n)
           Bad == {n \in Nat : \E u : Short(u, n)}
<1>1. Bad = {}
  <2> SUFFICES ASSUME Bad # {} PROVE FALSE
    OBVIOUS
  <2>1. PICK n \in Bad : \A m \in Bad : n <= m
    <3>1. Bad \in SUBSET Nat
      OBVIOUS
    <3> HIDE DEF Bad
    <3> QED  BY <3>1, LeastNatural
  <2>2. PICK u : Short(u, n)
    BY <2>1
  <2>3. n \in Nat /\ u \in Nat /\ u % 5 = 0 /\ t <= u /\ u + 5 * n = d
        /\ ~(SunLeft(plan, d, u) >= share * n)
    BY <2>1, <2>2
  <2>4. n # 0
    <3>1. SunLeft(plan, d, d) = 0 /\ share * 0 = 0
      BY SunLeftEnd
    <3>2. n = 0 => u = d
      BY <2>3
    <3> QED  BY <2>3, <3>1, <3>2
  <2>5. PICK v \in Nat : v = u + 5
    BY <2>3
  <2>6. PICK m \in Nat : n = m + 1
    BY <2>3, <2>4
  <2>7. v % 5 = 0 /\ t <= v /\ v + 5 * m = d /\ Slots(u, v, d)
    BY <2>3, <2>5, <2>6 DEF Slots, Span
  <2>8. SunLeft(plan, d, v) >= share * m
    <3>1. m \notin Bad
      <4> HIDE DEF Bad
      <4> QED  BY <2>1, <2>3, <2>6
    <3>2. ~Short(v, m)
      BY <3>1
    <3> QED  BY <2>7, <3>2
  <2>9. SunLeft(plan, d, u) = SunLeft(plan, d, v) + SunAt(plan, u \div 60)
    BY <2>3, <2>5, <2>7, SunLeftStep
  <2>10. SunAt(plan, u \div 60) >= share /\ SunAt(plan, u \div 60) \in Nat
    <3>1. u \div 60 \in (t \div 60)..((d - 1) \div 60)
      BY <2>3, <2>4
    <3> DEFINE h == u \div 60
               T == (t \div 60)..((d - 1) \div 60)
    <3>2. h \in T /\ \A x \in T : SunAt(plan, x) >= share
      BY <3>1, Zenon DEF Above
    <3> HIDE DEF h, T
    <3>3. SunAt(plan, h) \in Nat
      BY SunAtFacts
    <3>4. SunAt(plan, h) >= share
      BY <3>2, Zenon
    <3> QED  BY <3>3, <3>4 DEF h
  <2>11. SunLeft(plan, d, v) \in Nat
    <3>1. v \in Int /\ d \in Int
      BY <2>5
    <3> QED  BY <3>1, SunLeftTerms
  <2>12. share * n = share * m + share /\ share * m \in Nat
    BY <2>6
  <2> DEFINE x == share * m
             y == share * n
             s == SunLeft(plan, d, v)
             s2 == SunLeft(plan, d, u)
             a == SunAt(plan, u \div 60)
  <2> HIDE DEF x, y, s, s2, a
  <2>13. y = x + share /\ x \in Nat /\ s \in Nat /\ a \in Nat /\ a >= share /\ s2 = s + a
         /\ s >= x /\ ~(s2 >= y)
    BY <2>3, <2>8, <2>9, <2>10, <2>11, <2>12 DEF x, y, s, s2, a
  <2> QED  BY <2>13
<1>2. PICK n \in Nat : n = (d - t) \div 5
  BY DEF Span
<1>3. t + 5 * n = d /\ t % 5 = 0
  BY <1>2 DEF Span
<1>4. ~Short(t, n)
  <2>1. n \notin Bad
    <3> HIDE DEF Bad
    <3> QED  BY <1>1
  <2>2. Short(t, n) => n \in Bad
    <3> HIDE DEF Short
    <3> QED  BY <1>2
  <2> HIDE DEF Short, Bad
  <2> QED  BY <2>1, <2>2
<1>5. SunLeft(plan, d, t) >= share * n
  BY <1>3, <1>4
<1> QED  BY <1>2, <1>5

\* A forecast that promises no sun that does not come.
LEMMA WeightLeft ==
    ASSUME Config, KnowsTheSun, NEW t \in Int
    PROVE  SunnedSlots(Weight, t, Deadline) <= SunLeft(plan, Deadline, t)
<1> DEFINE D == DOMAIN Weight
           f == [h \in D |-> Weight[h] * Overlap(h, t, Deadline)]
           g == SunTerms(plan, Deadline, t)
<1>1. D \in SUBSET (0..23) /\ Deadline \in Int
  BY WeightFacts, DeadlineTyped DEF IsHours
<1>2. \A h \in 0..23 : g[h] \in Nat
  BY <1>1, SunLeftTerms DEF Config
<1>3. ASSUME NEW h \in D PROVE f[h] \in Int /\ f[h] <= g[h]
  <2>1. h \in 0..23 /\ h \in Int /\ Weight[h] \in Nat /\ Weight[h] <= Sun(h)
    BY <1>1, <1>3, WeightFacts DEF IsHours, KnowsTheSun
  <2>2. Sun(h) = SunAt(plan, h) /\ SunAt(plan, h) \in Nat
    BY SunAtFacts DEF Config, Sun, SunAt
  <2>3. Overlap(h, t, Deadline) \in Nat
    BY <1>1, <2>1, OverlapFacts
  <2> DEFINE o == Overlap(h, t, Deadline)
             w == Weight[h]
             s == SunAt(plan, h)
  <2>4. f[h] = w * o /\ g[h] = s * o
    BY <2>1 DEF SunTerms
  <2> HIDE DEF o, w, s, f, g
  <2>5. o \in Nat /\ w \in Nat /\ s \in Nat /\ w <= s
    BY <2>1, <2>2, <2>3 DEF o, w, s
  <2>6. w * o \in Int /\ w * o <= s * o
    BY <2>5
  <2> QED  BY <2>4, <2>6
<1> HIDE DEF D, f, g
<1>4. SumFunctionOnSet(f, D) <= SumFunctionOnSet(g, 0..23)
  BY <1>1, <1>2, <1>3, Hours, SumSmaller
<1> QED  BY <1>4 DEF f, g, D, SunnedSlots, SunLeft

\* A profile that has learned no more sun than comes.
LEMMA ProfileLeft ==
    ASSUME Config, KnowsTheSun, plan.profile # NoHours
    PROVE  100 * SunnedSlots(plan.profile, now, Deadline) <= plan.peak * SunLeft(plan, Deadline, now)
<1> DEFINE p == plan.profile
           D == DOMAIN p
           f == [h \in D |-> p[h] * Overlap(h, now, Deadline)]
           g == SunTerms(plan, Deadline, now)
           f2 == [h \in D |-> 100 * f[h]]
           g2 == [h \in 0..23 |-> plan.peak * g[h]]
<1>1. D \in SUBSET (0..23) /\ Deadline \in Int /\ now \in Int /\ plan.peak \in Nat
      /\ \A h \in D : p[h] \in Nat
  <2>1. Deadline \in Int /\ now \in Int
    BY DeadlineTyped
  <2>2. plan.peak \in Nat /\ IsHours(p, plan.peak)
    BY ProfileFacts, SceneFacts DEF Config
  <2> QED  BY <2>1, <2>2 DEF IsHours
<1>2. \A h \in 0..23 : g[h] \in Nat
  BY <1>1, SunLeftTerms DEF Config
<1>3. ASSUME NEW h \in D PROVE f[h] \in Nat /\ 100 * f[h] <= plan.peak * g[h]
  <2>1. h \in 0..23 /\ h \in Int /\ p[h] \in Nat /\ p[h] * 100 <= plan.peak * Sun(h)
    BY <1>1, <1>3 DEF KnowsTheSun
  <2>2. Sun(h) = SunAt(plan, h) /\ SunAt(plan, h) \in Nat
    BY SunAtFacts DEF Config, Sun, SunAt
  <2>3. Overlap(h, now, Deadline) \in Nat
    BY <1>1, <2>1, OverlapFacts
  <2> DEFINE o == Overlap(h, now, Deadline)
             w == p[h]
             s == SunAt(plan, h)
             k == plan.peak
  <2>4. f[h] = w * o /\ g[h] = s * o
    BY <2>1 DEF SunTerms
  <2> HIDE DEF o, w, s, k, f, g
  <2>5. o \in Nat /\ w \in Nat /\ s \in Nat /\ k \in Nat /\ w * 100 <= k * s
    BY <1>1, <2>1, <2>2, <2>3 DEF o, w, s, k
  <2>6. w * o \in Nat /\ 100 * (w * o) = o * (w * 100) /\ k * (s * o) = o * (k * s)
    BY <2>5
  <2>7. o * (w * 100) <= o * (k * s)
    <3>1. w * 100 \in Int /\ k * s \in Int
      BY <2>5
    <3> DEFINE a == w * 100
               b == k * s
    <3> HIDE DEF a, b
    <3>2. a \in Int /\ b \in Int /\ a <= b
      BY <2>5, <3>1 DEF a, b
    <3>3. o * a <= o * b
      BY <2>5, <3>2, Times
    <3> QED  BY <3>3 DEF a, b
  <2>8. f[h] \in Nat /\ 100 * f[h] <= k * g[h]
    BY <2>4, <2>6, <2>7
  <2> QED  BY <2>8 DEF k
<1> HIDE DEF f, g
<1>4. (\A h \in D : f2[h] \in Int /\ f2[h] = 100 * f[h] /\ f[h] \in Int)
      /\ (\A h \in 0..23 : g2[h] \in Nat /\ g2[h] = plan.peak * g[h] /\ g[h] \in Int)
      /\ \A h \in D : f2[h] <= g2[h]
  <2>1. \A h \in D : f2[h] \in Int /\ f2[h] = 100 * f[h] /\ f[h] \in Int
    BY <1>3
  <2>2. \A h \in 0..23 : g2[h] \in Nat /\ g2[h] = plan.peak * g[h] /\ g[h] \in Int
    BY <1>1, <1>2
  <2>3. \A h \in D : f2[h] <= g2[h]
    BY <1>1, <1>3
  <2> QED  BY <2>1, <2>2, <2>3
<1> HIDE DEF f2, g2, D
<1>5. IsFiniteSet(D)
  BY <1>1, Hours, FS_Subset
<1>6. SumFunctionOnSet(f2, D) <= SumFunctionOnSet(g2, 0..23)
  BY <1>1, <1>4, Hours, SumSmaller
<1>7. SumFunctionOnSet(f2, D) = 100 * SumFunctionOnSet(f, D)
  <2>1. 100 \in Int
    OBVIOUS
  <2> QED  BY <1>4, <1>5, <2>1, SumScaled
<1>8. SumFunctionOnSet(g2, 0..23) = plan.peak * SumFunctionOnSet(g, 0..23)
  <2> DEFINE k == plan.peak
             H == 0..23
  <2>1. k \in Int /\ IsFiniteSet(H) /\ \A h \in H : g[h] \in Int /\ g2[h] = k * g[h]
    BY <1>1, <1>4, Hours
  <2> HIDE DEF k, H
  <2>2. SumFunctionOnSet(g2, H) = k * SumFunctionOnSet(g, H)
    BY <2>1, SumScaled
  <2> QED  BY <2>2 DEF k, H
<1> QED  BY <1>6, <1>7, <1>8 DEF f, g, D, SunnedSlots, SunLeft

\* What the profile sees in this slot is no more than what comes.
LEMMA ObservedLeft ==
    ASSUME Config, KnowsTheSun
    PROVE  ObservedSlots <= SunLeft(plan, Deadline, now)
<1> DEFINE h == now \div 60
           a == SunnedSlots(plan.profile, now, Deadline)
           b == Smaller(100, (100 * PvNow) \div plan.profile[h])
           s == SunLeft(plan, Deadline, now)
           k == plan.peak
<1>1. s \in Nat /\ k \in Nat /\ k > 0 /\ now \in Int /\ Deadline \in Int
  <2>1. scene \in DOMAIN SCENES /\ now \in Int /\ Deadline \in Int
    BY DeadlineTyped DEF Config
  <2>2. s \in Nat
    BY <2>1, SunLeftTerms
  <2>3. k \in Nat /\ k > 0
    BY <2>1, SceneFacts
  <2> QED  BY <2>1, <2>2, <2>3
<1>2. \/ ObservedSlots = 0
      \/ /\ plan.profile # NoHours /\ h \in DOMAIN plan.profile /\ ~(plan.profile[h] <= 0)
         /\ ObservedSlots = (a * b) \div k
  BY Zenon DEF ObservedSlots
<1>3. ASSUME plan.profile # NoHours, h \in DOMAIN plan.profile, ~(plan.profile[h] <= 0)
      PROVE  (a * b) \div k <= s
  <2>1. 100 * a <= k * s
    BY <1>3, ProfileLeft
  <2>2. a \in Nat
    BY <1>1, ProfileFacts, DeadlineTyped, SunnedFacts DEF Config
  <2>3. b \in Nat /\ b <= 100
    <3>1. plan.profile[h] \in Nat /\ plan.profile[h] > 0
      BY <1>1, <1>3, ProfileFacts DEF Config
    <3>2. 100 * PvNow \in Int /\ 100 * PvNow >= 0
      BY PeakFacts
    <3>3. (100 * PvNow) \div plan.profile[h] \in Nat
      BY <3>1, <3>2, DivFacts
    <3> DEFINE q == (100 * PvNow) \div plan.profile[h]
    <3> HIDE DEF q
    <3>4. Smaller(100, q) \in Nat /\ Smaller(100, q) <= 100
      BY <3>3 DEF Smaller, q
    <3> QED  BY <3>4 DEF q
  <2> HIDE DEF a, b, s, k
  <2>4. a * b <= a * 100 /\ a * b \in Nat
    BY <2>2, <2>3, Times
  <2> DEFINE x == a * b
  <2> HIDE DEF x
  <2>5. x \in Int /\ x <= k * s /\ k * s \in Int
    BY <1>1, <2>1, <2>2, <2>4 DEF x
  <2>6. x \div k \in Int /\ k * (x \div k) <= x
    BY <1>1, <2>5, DivFacts
  <2> DEFINE q == x \div k
  <2> HIDE DEF q
  <2>7. q \in Int /\ k * q <= k * s
    BY <1>1, <2>5, <2>6 DEF q
  <2>8. q <= s
    <3>1. q >= s + 1 => k * (s + 1) <= k * q
      BY <1>1, <2>7, Times
    <3>2. k * (s + 1) = k * s + k
      BY <1>1
    <3> QED  BY <1>1, <2>5, <2>7, <3>1, <3>2
  <2> QED  BY <2>8 DEF q, x
<1> HIDE DEF a, b, h
<1> QED  BY <1>1, <1>2, <1>3

(***************************************************************************)
(* Charging that is held back.                                             *)
(***************************************************************************)
\* What is owed to the target fits into the sun that is left, but for what one
\* slot charges and what the slots lose in rounding (Slack).
Covers(rate, owed, s, n) == 100 * owed + 100 * n <= rate * s + 100 * rate + 20000

\* What the panels charge in a slot of the sun a, rounded down.
Gives(rate, a, gain) == 100 * gain >= rate * a - 99

\* A slot of free charging takes from what is owed what it takes from the sun.
LEMMA FreeCovers ==
    ASSUME NEW rate \in Nat, NEW owed \in Int, NEW s \in Nat, NEW a \in Nat, NEW n \in Nat,
           NEW gain \in Nat, Gives(rate, a, gain), Covers(rate, owed, s + a, n + 1)
    PROVE  Covers(rate, owed - gain, s, n)
<1> DEFINE x == rate * s
           y == rate * a
<1>1. x \in Nat /\ y \in Nat /\ rate * (s + a) = x + y
  OBVIOUS
<1>2. 100 * owed + 100 * (n + 1) <= rate * (s + a) + 100 * rate + 20000
  BY DEF Covers
<1>3. 100 * gain >= y - 99
  BY DEF Gives
<1> HIDE DEF x, y
<1>4. 100 * (owed - gain) + 100 * n <= x + 100 * rate + 20000
  BY <1>1, <1>2, <1>3
<1> QED  BY <1>4 DEF Covers, x

LEMMA EnoughCovers ==
    ASSUME NEW rate \in Nat, 300 <= rate, NEW owed \in Int, NEW s \in Nat, NEW n \in Nat, n <= 214,
           100 * owed <= rate * s
    PROVE  Covers(rate, owed, s, n)
<1> DEFINE x == rate * s
<1>1. x \in Nat /\ 100 * owed <= x
  OBVIOUS
<1> HIDE DEF x
<1>2. 100 * owed + 100 * n <= x + 100 * rate + 20000
  BY <1>1
<1> QED  BY <1>2 DEF Covers, x

LEMMA WindowCovers ==
    ASSUME NEW rate \in Nat, 300 <= rate, NEW owed \in Int, NEW s \in Nat, NEW n \in Nat, n <= 214,
           13 * owed <= 10 * (rate * n) + 9 * rate, s >= 77 * n
    PROVE  Covers(rate, owed, s, n)
<1> DEFINE x == rate * s
           y == rate * n
<1>1. y \in Nat /\ rate * (77 * n) = 77 * y /\ 13 * owed <= 10 * y + 9 * rate
  OBVIOUS
<1>2. x \in Nat /\ rate * (77 * n) <= x
  BY Times
<1> HIDE DEF x, y
<1>3. 100 * owed + 100 * n <= x + 100 * rate + 20000
  BY <1>1, <1>2
<1> QED  BY <1>3 DEF Covers, x

\* The sun suffices for what is owed, or the limit's least time does; a slot
\* gains at least the smallest limit, or what its sun gives.
Suffices(rate, owed, sun) == 100 * owed <= rate * sun \/ 100 * owed <= 36 * rate + 36
Gains(rate, a, gain) == gain >= 100 \/ Gives(rate, a, gain)

LEMMA LimitCovers ==
    ASSUME NEW rate \in Nat, 300 <= rate, NEW owed \in Int, NEW s \in Nat, NEW a \in Nat, a <= 100,
           NEW n \in Nat, n <= 214, NEW gain \in Nat,
           Gains(rate, a, gain), Suffices(rate, owed, s + a)
    PROVE  Covers(rate, owed - gain, s, n)
<1> DEFINE x == rate * s
           y == rate * a
<1>1. x \in Nat /\ y \in Nat /\ rate * (s + a) = x + y
  OBVIOUS
<1>2. y <= rate * 100
  BY Times
<1>3. /\ gain >= 100 \/ 100 * gain >= y - 99
      /\ 100 * owed <= x + y \/ 100 * owed <= 36 * rate + 36
  BY <1>1 DEF Gains, Gives, Suffices
<1> HIDE DEF x, y
<1>4. 100 * (owed - gain) + 100 * n <= x + 100 * rate + 20000
  BY <1>1, <1>2, <1>3
<1> QED  BY <1>4 DEF Covers, x

\* A full battery owes nothing.
LEMMA FullCovers ==
    ASSUME NEW rate \in Nat, NEW s \in Nat, NEW n \in Nat, n <= 287, NEW kwh \in Nat, kwh >= 1
    PROVE  Covers(rate, 11400 * kwh - 12000 * kwh, s, n)
<1> DEFINE x == rate * s
<1>1. x \in Nat
  OBVIOUS
<1> HIDE DEF x
<1>2. 100 * (11400 * kwh - 12000 * kwh) + 100 * n <= x + 100 * rate + 20000
  BY <1>1
<1> QED  BY <1>2 DEF Covers, x

LEMMA CoversLess ==
    ASSUME NEW rate \in Nat, NEW owed \in Int, NEW less \in Int, less <= owed, NEW s \in Nat, NEW n \in Nat,
           Covers(rate, owed, s, n)
    PROVE  Covers(rate, less, s, n)
<1> DEFINE x == rate * s
<1>1. x \in Nat /\ 100 * owed + 100 * n <= x + 100 * rate + 20000
  BY DEF Covers
<1> HIDE DEF x
<1>2. 100 * less + 100 * n <= x + 100 * rate + 20000
  BY <1>1
<1> QED  BY <1>2 DEF Covers, x

\* A target power below nine tenths of the charging power, reckoned over no
\* more sun than there is, leaves the sun more than enough.
LEMMA SoonEnough ==
    ASSUME NEW rate \in Nat, 300 <= rate, NEW owed \in Nat, NEW soll \in Nat, 10 * soll < 9 * rate,
           NEW slots \in Nat, NEW s \in Nat, 150 * owed <= slots * soll + slots,
           slots <= s \/ slots = 60
    PROVE  100 * owed <= rate * s \/ 100 * owed <= 36 * rate + 36
<1> DEFINE y == slots * soll
<1>1. y \in Nat /\ 150 * owed <= y + slots
  OBVIOUS
<1>2. 10 * y <= 9 * (slots * rate) /\ slots * rate \in Nat
  <2>1. slots * (10 * soll) <= slots * (9 * rate)
    BY Times
  <2> QED  BY <2>1
<1>3. CASE slots = 60
  <2> HIDE DEF y
  <2> QED  BY <1>1, <1>2, <1>3
<1>4. CASE slots <= s
  <2> DEFINE x == rate * s
             z == slots * rate
  <2>1. z \in Nat /\ x \in Nat /\ z <= x
    <3>1. rate * slots <= rate * s
      BY <1>4, Times
    <3> QED  BY <3>1
  <2>2. slots * 300 <= z
    BY Times
  <2> HIDE DEF x, y, z
  <2>3. 150 * owed <= y + slots /\ 10 * y <= 9 * z /\ y \in Nat
    BY <1>1, <1>2 DEF z
  <2>4. 100 * owed <= x
    BY <2>1, <2>2, <2>3
  <2> QED  BY <2>4 DEF x
<1> QED  BY <1>3, <1>4

\* The same over the whole time, under a sun that is steady.
LEMMA SoonEnoughSteady ==
    ASSUME NEW rate \in Nat, 300 <= rate, NEW owed \in Nat, NEW soll \in Nat, 10 * soll < 9 * rate,
           NEW n \in Nat, NEW s \in Nat, 110 * owed <= (100 * n) * soll + 100 * n, s >= 91 * n
    PROVE  100 * owed <= rate * s
<1> DEFINE y == n * soll
           z == n * rate
           x == rate * s
<1>1. y \in Nat /\ z \in Nat /\ x \in Nat /\ (100 * n) * soll = 100 * y
  OBVIOUS
<1>2. 110 * owed <= 100 * y + 100 * n
  BY <1>1
<1>3. 10 * y <= 9 * z
  <2>1. n * (10 * soll) <= n * (9 * rate)
    BY Times
  <2> QED  BY <2>1
<1>4. n * 300 <= z
  BY Times
<1>5. 91 * z <= x
  <2>1. rate * (91 * n) <= rate * s
    BY Times
  <2> QED  BY <2>1
<1> HIDE DEF x, y, z
<1>6. 100 * owed <= x
  BY <1>1, <1>2, <1>3, <1>4, <1>5
<1> QED  BY <1>6 DEF x

\* The whole slots between this one and the deadline.
Ahead(n) == n \in Nat /\ Deadline = now + 5 + 5 * n

LEMMA AheadFacts ==
    ASSUME Config, WeekEvening # -1, now < Deadline
    PROVE  /\ \E n : Ahead(n)
           /\ \A n : Ahead(n) => /\ (Deadline - now) \div 5 = n + 1 /\ (Deadline - (now + 5)) \div 5 = n
                                 /\ n <= 287 /\ (LockStart # -1 /\ now >= LockStart => n <= 214)
<1>1. /\ now \in Nat /\ now % 5 = 0 /\ Deadline \in Nat /\ Deadline % 5 = 0 /\ Deadline <= 1315
      /\ now + 5 <= Deadline
  BY DeadlineNumbers
<1>2. LockStart # -1 => LockStart \in Nat /\ LockStart >= 240
  <2>1. IsTime(LockStart, 4, 12)
    BY PlanTimes
  <2> QED  BY <2>1, ClockNumbers DEF IsTime
<1> DEFINE a == now
           d == Deadline
           l == LockStart
<1> HIDE DEF a, d, l
<1>3. a \in Nat /\ a % 5 = 0 /\ d \in Nat /\ d % 5 = 0 /\ d <= 1315 /\ a + 5 <= d
  BY <1>1 DEF a, d
<1>4. (d - a - 5) \div 5 \in Nat /\ d = a + 5 + 5 * ((d - a - 5) \div 5)
  BY <1>3
<1>5. ASSUME NEW n \in Nat, d = a + 5 + 5 * n
      PROVE  /\ (d - a) \div 5 = n + 1 /\ (d - (a + 5)) \div 5 = n
             /\ n <= 287 /\ (l # -1 /\ a >= l => n <= 214)
  <2>1. d - a = 5 * (n + 1) /\ d - (a + 5) = 5 * n
    BY <1>3, <1>5
  <2>2. (5 * (n + 1)) \div 5 = n + 1 /\ (5 * n) \div 5 = n
    OBVIOUS
  <2>3. n <= 287 /\ (l # -1 /\ a >= l => n <= 214)
    BY <1>2, <1>3, <1>5 DEF l
  <2> QED  BY <2>1, <2>2, <2>3
<1>6. \E n : Ahead(n)
  <2>1. PICK n \in Nat : d = a + 5 + 5 * n
    BY <1>4
  <2> QED  BY <2>1 DEF Ahead, a, d
<1>7. \A n : Ahead(n) => /\ (Deadline - now) \div 5 = n + 1 /\ (Deadline - (now + 5)) \div 5 = n
                         /\ n <= 287 /\ (LockStart # -1 /\ now >= LockStart => n <= 214)
  BY <1>5 DEF Ahead, a, d, l
<1> QED  BY <1>6, <1>7, Zenon

\* What a sun above a share gives, with this slot and without it.
LEMMA SteadyFacts ==
    ASSUME Config, WeekEvening # -1, now < Deadline, NEW n, Ahead(n), NEW share \in Nat, SteadySun(share)
    PROVE  /\ SunAt(plan, now \div 60) >= share
           /\ SunLeft(plan, Deadline, now) >= share * (n + 1)
           /\ SunLeft(plan, Deadline, now + 5) >= share * n
<1> DEFINE d == Deadline
           u == now + 5
<1>1. /\ now \in Nat /\ now % 5 = 0 /\ d \in Nat /\ d % 5 = 0 /\ d <= 1440
      /\ (d - now) \div 5 = n + 1 /\ (d - u) \div 5 = n
  <2>1. /\ now \in Nat /\ now % 5 = 0 /\ Deadline \in Nat /\ Deadline % 5 = 0 /\ Deadline <= 1440
    BY DeadlineNumbers
  <2>2. (d - now) \div 5 = n + 1 /\ (d - u) \div 5 = n
    BY AheadFacts
  <2> QED  BY <2>1, <2>2
<1>2. u \in Nat /\ u % 5 = 0 /\ u <= d /\ now <= d /\ now < d /\ now <= u /\ n \in Nat
  BY <1>1 DEF Ahead
<1>3. scene \in DOMAIN SCENES
  BY DEF Config
<1>4. \A h \in (now \div 60)..((d - 1) \div 60) : SunAt(plan, h) >= share
  BY Zenon DEF SteadySun, Sun, SunAt
<1> HIDE DEF d, u
<1>5. now \div 60 \in (now \div 60)..((d - 1) \div 60) /\ now \div 60 <= u \div 60
  BY <1>1, <1>2
<1>6. \A h \in (u \div 60)..((d - 1) \div 60) : SunAt(plan, h) >= share
  <2>1. \A h \in (u \div 60)..((d - 1) \div 60) : h \in (now \div 60)..((d - 1) \div 60)
    BY <1>1, <1>2, <1>5
  <2> QED  BY <1>4, <2>1
<1>9. Above(share, now, d) /\ Above(share, u, d)
  BY <1>4, <1>6 DEF Above
<1> DEFINE t == now
<1>10. t \in Nat /\ d \in Nat /\ u \in Nat /\ Span(t, d) /\ Span(u, d) /\ Above(share, t, d)
  BY <1>1, <1>2, <1>9 DEF Span
<1> HIDE DEF t
<1>7. SunLeft(plan, d, t) >= share * ((d - t) \div 5)
  BY <1>3, <1>10, SteadyLeft
<1>8. SunLeft(plan, d, u) >= share * ((d - u) \div 5)
  BY <1>3, <1>9, <1>10, SteadyLeft
<1> QED  BY <1>1, <1>4, <1>5, <1>7, <1>8 DEF d, u, t

\* The lock up to the community's crossover: the sun after it is enough.
LEMMA CrossoverLeaves ==
    ASSUME Config, Planning, BeforeCrossover, KnowsTheSun
    PROVE  100 * Missing <= site.rate * SunLeft(plan, Deadline, now + 5)
<1> DEFINE v == Vormittag
           slots == {t \in now..v : (v - t) % SLOT = 0 /\ Enough(t)}
           t == CrossoverLockEnd
<1>1. now \in Nat /\ now % 5 = 0 /\ Deadline \in Int /\ scene \in DOMAIN SCENES
  BY DeadlineNumbers DEF Planning, None, Config
<1>2. v \in Nat /\ v % 5 = 0 /\ now < t
  <2>1. v \in Clock
    BY PlanTimes DEF BeforeCrossover, None, IsTime
  <2>2. v \in Nat /\ v % 5 = 0
    <3> HIDE DEF v
    <3> QED  BY <2>1, ClockNumbers, ClockFives
  <2> QED  BY <2>2 DEF BeforeCrossover
<1>3. Weight # NoHours /\ slots # {} /\ t = Max(slots)
  <2>1. Weight = NoHours \/ slots = {} => t = -1
    BY Zenon DEF CrossoverLockEnd, None
  <2>2. ~(Weight = NoHours \/ slots = {}) => t = Max(slots)
    BY Zenon DEF CrossoverLockEnd
  <2>3. t # -1
    BY <1>1, <1>2
  <2> QED  BY <2>1, <2>2, <2>3
<1>4. t \in slots
  <2>1. slots \in SUBSET Int /\ \A x \in slots : x <= v
    BY <1>1, <1>2
  <2> HIDE DEF slots
  <2> QED  BY <1>2, <1>3, <2>1, MaxFact
<1>5. t \in now..v /\ (v - t) % 5 = 0 /\ Enough(t)
  <2> HIDE DEF t
  <2> QED  BY <1>4 DEF SLOT
<1> HIDE DEF t, v, slots
<1>6. t \in Int /\ now + 5 <= t
  BY <1>1, <1>2, <1>5
<1> DEFINE w == SunnedSlots(Weight, t, Deadline)
           s == SunLeft(plan, Deadline, t)
           s2 == SunLeft(plan, Deadline, now + 5)
           m == Missing
           r == site.rate
<1>7. w <= s
  BY <1>6, WeightLeft
<1>8. w \in Nat
  BY <1>1, <1>6, WeightFacts, SunnedFacts
<1>9. s \in Nat /\ s2 \in Nat /\ s <= s2
  <2>1. now + 5 \in Int
    BY <1>1
  <2> QED  BY <1>1, <1>6, <2>1, SunLeftTerms, SunLeftLater
<1>10. m \in Nat /\ r \in Nat
  BY <1>1, MissingFacts, SiteFacts
<1>11. w * r >= m * 130
  BY <1>5 DEF Enough
<1> HIDE DEF w, s, s2, m, r
<1>12. r * w <= r * s2 /\ r * w = w * r /\ r * w \in Nat
  <2>1. w <= s2
    BY <1>7, <1>8, <1>9
  <2> QED  BY <1>8, <1>9, <1>10, <2>1, Times
<1> DEFINE x == r * w
           y == r * s2
<1>13. y \in Nat
  BY <1>9, <1>10
<1> HIDE DEF x, y
<1>14. x \in Nat /\ x <= y /\ x >= m * 130
  BY <1>11, <1>12 DEF x, y
<1>15. 100 * m <= y
  BY <1>10, <1>13, <1>14
<1> QED  BY <1>15 DEF y, s2, m, r

\* The lock of the window: it ends when a sun of 77 percent is still enough.
LEMMA WindowLeaves ==
    ASSUME Config, InLockWindow, ~times.individual, LocalLockEnd # None
    PROVE  /\ WeekEvening # -1 /\ LockStart # -1 /\ now >= LockStart /\ now < Deadline
           /\ \A n : Ahead(n) => 13 * Missing <= 10 * (site.rate * n) + 9 * site.rate
<1> DEFINE q == RoundDiv(Missing * 65, site.rate * 10)
           r == site.rate
           m == Missing
<1>1. m \in Nat /\ r \in Nat /\ r >= 300
  BY MissingFacts, SiteFacts DEF Config
<1>2. WeekEvening # None /\ LocalLockEnd = Smaller(Deadline - q, LATEST_END)
  BY Zenon DEF LocalLockEnd
<1>3. LockStart # None /\ now \in LockStart..(WindowEnd - 1) /\ WindowEnd = LocalLockEnd
  BY Zenon DEF InLockWindow, WindowEnd
<1>4. now \in Nat /\ LockStart \in Int /\ Deadline \in Int
  <2>1. IsTime(LockStart, 4, 12)
    BY PlanTimes
  <2>2. LockStart \in Int
    BY <2>1, ClockNumbers DEF IsTime
  <2>3. now \in Nat /\ Deadline \in Int
    BY DeadlineTyped
  <2> QED  BY <2>2, <2>3
<1>5. /\ q \in Int /\ q >= 0
      /\ 2 * (m * 65) < 2 * ((r * 10) * q) + r * 10
  <2>1. m * 65 \in Int /\ m * 65 >= 0 /\ r * 10 \in Nat /\ r * 10 > 0
    BY <1>1
  <2> DEFINE a == m * 65
             b == r * 10
  <2> HIDE DEF a, b
  <2>2. a \in Int /\ a >= 0 /\ b \in Nat /\ b > 0
    BY <2>1 DEF a, b
  <2>3. RoundDiv(a, b) \in Int /\ 2 * a < 2 * (b * RoundDiv(a, b)) + b /\ RoundDiv(a, b) >= 0
    BY <2>2, RoundFacts
  <2> QED  BY <2>3 DEF a, b
<1> HIDE DEF q, r, m
<1>6. now >= LockStart /\ now < Deadline - q
  <2>1. Deadline - q \in Int /\ LATEST_END \in Int
    BY <1>4, <1>5 DEF LATEST_END
  <2>2. Smaller(Deadline - q, LATEST_END) \in Int /\ Smaller(Deadline - q, LATEST_END) <= Deadline - q
    BY <2>1, LargerFacts
  <2> DEFINE e == Smaller(Deadline - q, LATEST_END)
             f == Deadline - q
  <2>3. e \in Int /\ e <= f /\ f \in Int /\ now \in LockStart..(e - 1)
    BY <1>2, <1>3, <2>1, <2>2
  <2> HIDE DEF e, f
  <2>4. now >= LockStart /\ now < f
    BY <1>4, <2>3
  <2> QED  BY <2>4 DEF f
<1>7. now < Deadline
  BY <1>4, <1>5, <1>6
<1>8. ASSUME NEW n, Ahead(n) PROVE 13 * m <= 10 * (r * n) + 9 * r
  <2>1. n \in Nat /\ q <= 5 * n + 4
    BY <1>4, <1>5, <1>6, <1>8 DEF Ahead
  <2>2. r * q <= r * (5 * n + 4)
    BY <1>1, <1>5, <2>1, Times
  <2> DEFINE x == r * q
             y == r * n
  <2>3. r * (5 * n + 4) = 5 * y + 4 * r /\ (r * 10) * q = 10 * x /\ x \in Int /\ y \in Int
    BY <1>1, <1>5, <2>1
  <2> HIDE DEF x, y
  <2>4. x <= 5 * y + 4 * r /\ 130 * m < 20 * x + 10 * r
    BY <1>1, <1>5, <2>2, <2>3 DEF x
  <2>5. 13 * m <= 10 * y + 9 * r
    BY <1>1, <2>3, <2>4
  <2> QED  BY <2>5 DEF y
<1> QED  BY <1>2, <1>3, <1>6, <1>7, <1>8, Zenon DEF None, m, r

\* The limit: what it reckons with is no more sun than there is.
LEMMA LimitLeaves ==
    ASSUME Config, Planning, Regulated.kind = "limit", ~GuardNet(Soll),
           KnowsTheSun, SteadySun(IF Weight # NoHours THEN 1 ELSE 91)
    PROVE  \/ 100 * Missing <= site.rate * SunLeft(plan, Deadline, now)
           \/ 100 * Missing <= 36 * site.rate + 36
<1> DEFINE r == site.rate
           m == Missing
           s == SunLeft(plan, Deadline, now)
           x == Soll
           k == Rest.slots
           f == Rest.safety
<1>1. m \in Nat /\ r \in Nat /\ 300 <= r
  BY MissingFacts, SiteFacts DEF Config
<1>2. /\ WeekEvening # -1 /\ GuardClouds # -1 /\ now < Deadline
      /\ now \in Int /\ Deadline \in Int
  <2>1. now \in Nat /\ Deadline \in Int
    BY DeadlineTyped
  <2> QED  BY <2>1 DEF Planning, None
<1>3. s \in Nat
  BY <1>2, SunLeftTerms DEF Config
<1>4. x \in Nat /\ k \in Nat /\ f \in Nat /\ m * f \in Int /\ k * x \in Int /\ m * f < k * x + k
  BY <1>2, SollFacts, RestFacts
<1>5. 10 * x < 9 * r
  <2>1. Regulated = LimitedTo(x)
    BY RegulatedFacts
  <2>2. Regulated # Free("regulation")
    BY DEF Free
  <2>3. x * 10 < 9 * r
    BY <1>4, <2>1, <2>2, LimitFacts
  <2> QED  BY <1>1, <1>4, <2>3
<1>6. ObservedSlots \in Nat /\ ObservedSlots <= s
  BY PeakFacts, ObservedLeft
<1>7. /\ ObservedSlots > ForecastRest.slots => k = ObservedSlots /\ f = 150
      /\ ~(ObservedSlots > ForecastRest.slots) => k = ForecastRest.slots /\ f = ForecastRest.safety
  BY DEF Rest
<1>8. ASSUME f = 150, k <= s \/ k = 60
      PROVE  100 * m <= r * s \/ 100 * m <= 36 * r + 36
  <2> HIDE DEF m, r, s, x, k, f
  <2>1. m * f = 150 * m
    BY <1>1, <1>4, <1>8
  <2>2. 150 * m <= k * x + k
    BY <1>1, <1>4, <2>1
  <2> QED  BY <1>1, <1>3, <1>4, <1>5, <1>8, <2>2, SoonEnough
<1>9. CASE ObservedSlots > ForecastRest.slots
  BY <1>6, <1>7, <1>8, <1>9
<1>10. CASE ~(ObservedSlots > ForecastRest.slots) /\ Weight # NoHours
  <2> DEFINE w == SunnedSlots(Weight, now, Deadline)
  <2>1. k = Larger(w, 60) /\ f = 150
    <3>1. ForecastRest = [slots |-> Larger(w, 60), safety |-> 150]
      BY <1>10, Zenon DEF ForecastRest
    <3> QED  BY <1>7, <1>10, <3>1
  <2>2. w <= s /\ w \in Nat
    BY <1>2, WeightLeft, WeightFacts, SunnedFacts
  <2> HIDE DEF w, s, k, f
  <2>3. k <= s \/ k = 60
    BY <2>1, <2>2 DEF Larger
  <2> QED  BY <1>8, <2>1, <2>3 DEF s, k, f
<1>11. CASE ~(ObservedSlots > ForecastRest.slots) /\ ~(Weight # NoHours)
  <2>1. PICK n : Ahead(n)
    BY <1>2, AheadFacts
  <2>2. n \in Nat /\ (Deadline - now) \div 5 = n + 1
    BY <1>2, <2>1, AheadFacts DEF Ahead
  <2>3. s >= 91 * (n + 1)
    <3>1. SteadySun(91) /\ 91 \in Nat
      <4>1. (IF Weight # NoHours THEN 1 ELSE 91) = 91
        BY <1>11
      <4> QED  BY <4>1
    <3> QED  BY <1>2, <2>1, <3>1, SteadyFacts
  <2>4. k = 100 * (n + 1) /\ f = 110 + GuardClouds \div 2
    <3>1. ForecastRest = [slots |-> 100 * ((Deadline - now) \div 5), safety |-> 110 + GuardClouds \div 2]
      BY <1>11, Zenon DEF ForecastRest, SLOT
    <3> QED  BY <1>7, <1>11, <2>2, <3>1
  <2>5. f >= 110
    BY <1>2, RestFacts
  <2>6. 110 * m <= (100 * (n + 1)) * x + 100 * (n + 1)
    <3> HIDE DEF m, r, s, x, k, f
    <3>1. m * 110 <= m * f
      BY <1>1, <1>4, <2>5, Times
    <3> DEFINE y == m * f
               z == k * x
    <3> HIDE DEF y, z
    <3>2. y \in Int /\ z \in Int /\ y < z + k /\ m * 110 <= y /\ k \in Nat
      BY <1>4, <3>1 DEF y, z
    <3>3. 110 * m <= z + k
      BY <1>1, <3>2
    <3> QED  BY <2>4, <3>3 DEF z
  <2> HIDE DEF m, r, s, x, k, f
  <2>7. n + 1 \in Nat
    BY <2>2
  <2>8. 100 * m <= r * s
    BY <1>1, <1>3, <1>4, <1>5, <2>3, <2>6, <2>7, SoonEnoughSteady
  <2> QED  BY <2>8 DEF m, r, s
<1> QED  BY <1>9, <1>10, <1>11, Zenon

\* The rest of a day whose plan holds charging back: the sun shines until the
\* deadline, and what is owed to the target fits into it.
Kept(p, d, t, c) ==
    /\ \A h \in (t \div 60)..((d - 1) \div 60) : SunAt(p, h) >= 1
    /\ Covers(p.site.rate, 11400 * p.site.kwh - c, SunLeft(p, d, t), (d - t) \div 5)

Held == fresh /\ WeekEvening # None /\ (now <= Deadline => Kept(plan, Deadline, now, charge))

\* Held back or not: the battery has what free charging gives it, or will.
DayHeld == trusted /\ ~midnight /\ told.until = None => charge = best \/ Held

DayInv == TypeOK /\ ClockInv /\ DayHeld

LEMMA SteadySunAt ==
    ASSUME NEW share, SteadySun(share)
    PROVE  \A h \in (now \div 60)..((Deadline - 1) \div 60) : SunAt(plan, h) >= share
BY Zenon DEF SteadySun, Sun, SunAt

\* What a slot leaves to be owed under a sun that shines until the deadline.
LEMMA KeptNext ==
    ASSUME Config, WeekEvening # -1, now < Deadline, NEW n, Ahead(n), SteadySun(1),
           NEW c \in Int, Covers(site.rate, 11400 * site.kwh - c, SunLeft(plan, Deadline, now + 5), n)
    PROVE  Kept(plan, Deadline, now + 5, c)
<1>1. now \in Nat /\ Deadline \in Nat /\ (Deadline - (now + 5)) \div 5 = n
  BY DeadlineNumbers, AheadFacts
<1>2. \A h \in (now \div 60)..((Deadline - 1) \div 60) : SunAt(plan, h) >= 1
  BY SteadySunAt
<1>3. \A h \in ((now + 5) \div 60)..((Deadline - 1) \div 60) :
         h \in (now \div 60)..((Deadline - 1) \div 60)
  <2> DEFINE a == now
             d == Deadline
  <2> HIDE DEF a, d
  <2>1. a \in Nat /\ d \in Nat
    BY <1>1 DEF a, d
  <2>2. \A h \in ((a + 5) \div 60)..((d - 1) \div 60) : h \in (a \div 60)..((d - 1) \div 60)
    BY <2>1
  <2> QED  BY <2>2 DEF a, d
<1>4. \A h \in ((now + 5) \div 60)..((Deadline - 1) \div 60) : SunAt(plan, h) >= 1
  <2> DEFINE R == ((now + 5) \div 60)..((Deadline - 1) \div 60)
             T == (now \div 60)..((Deadline - 1) \div 60)
  <2>1. (\A h \in R : h \in T) /\ \A h \in T : SunAt(plan, h) >= 1
    BY <1>2, <1>3
  <2> HIDE DEF R, T
  <2>2. \A h \in R : SunAt(plan, h) >= 1
    BY <2>1
  <2> QED  BY <2>2 DEF R
<1>5. plan.site = site
  BY DEF site
<1>6. Covers(plan.site.rate, 11400 * plan.site.kwh - c, SunLeft(plan, Deadline, now + 5),
             (Deadline - (now + 5)) \div 5)
  <2> DEFINE x == SunLeft(plan, Deadline, now + 5)
             k == (Deadline - (now + 5)) \div 5
  <2>1. Covers(site.rate, 11400 * site.kwh - c, x, n) /\ k = n
    BY <1>1
  <2> HIDE DEF x, k
  <2>2. Covers(plan.site.rate, 11400 * plan.site.kwh - c, x, k)
    BY <1>5, <2>1
  <2> QED  BY <2>2 DEF x, k
<1> QED  BY <1>4, <1>6 DEF Kept

\* The sun of this slot and of the rest.
LEMMA SlotSun ==
    ASSUME Config, WeekEvening # -1, now < Deadline, NEW n, Ahead(n)
    PROVE  /\ SunAt(plan, now \div 60) \in Nat /\ SunAt(plan, now \div 60) <= 100
           /\ SunLeft(plan, Deadline, now + 5) \in Nat
           /\ SunLeft(plan, Deadline, now) = SunLeft(plan, Deadline, now + 5) + SunAt(plan, now \div 60)
           /\ Harvest \in Nat /\ 100 * Harvest >= site.rate * SunAt(plan, now \div 60) - 99
           /\ SunAt(plan, now \div 60) >= 1 => Harvest >= 3
<1>1. scene \in DOMAIN SCENES /\ now \in Nat /\ now % 5 = 0 /\ Deadline \in Nat /\ Deadline % 5 = 0
      /\ Deadline <= 1315 /\ now + 5 <= Deadline
  BY DeadlineNumbers DEF Config
<1>2. Slots(now, now + 5, Deadline) /\ now + 5 \in Nat
  BY <1>1 DEF Slots
<1>3. SunLeft(plan, Deadline, now) = SunLeft(plan, Deadline, now + 5) + SunAt(plan, now \div 60)
  <2> DEFINE t == now
             u == now + 5
             d == Deadline
  <2>1. t \in Nat /\ u \in Nat /\ d \in Nat /\ Slots(t, u, d) /\ scene \in DOMAIN SCENES
    BY <1>1, <1>2
  <2> HIDE DEF t, u, d
  <2>2. SunLeft(plan, d, t) = SunLeft(plan, d, u) + SunAt(plan, t \div 60)
    BY <2>1, SunLeftStep
  <2> QED  BY <2>2 DEF t, u, d
<1>4. SunLeft(plan, Deadline, now + 5) \in Nat
  <2>1. now + 5 \in Int /\ Deadline \in Int /\ scene \in DOMAIN SCENES
    BY <1>1
  <2> DEFINE u == now + 5
             d == Deadline
  <2>2. u \in Int /\ d \in Int
    BY <2>1
  <2> HIDE DEF u, d
  <2>3. SunLeft(plan, d, u) \in Nat
    BY <2>1, <2>2, SunLeftTerms
  <2> QED  BY <2>3 DEF u, d
<1>5. SunAt(plan, now \div 60) \in Nat /\ SunAt(plan, now \div 60) <= 100
  BY <1>1, SunAtFacts
<1>6. Sun(now \div 60) = SunAt(plan, now \div 60)
  BY DEF Sun, SunAt
<1>7. Harvest \in Nat /\ (SunAt(plan, now \div 60) >= 1 => Harvest >= 3)
  BY <1>6, HarvestFacts
<1>8. 100 * Harvest >= site.rate * SunAt(plan, now \div 60) - 99
  <2> DEFINE a == SunAt(plan, now \div 60)
             r == site.rate
             x == r * a
  <2>1. a \in Nat /\ r \in Nat
    BY <1>1, <1>5, SiteFacts
  <2>2. Harvest = x \div 100
    BY <1>6 DEF Harvest
  <2> HIDE DEF a, r
  <2>3. x \in Nat
    BY <2>1
  <2> HIDE DEF x
  <2>4. 100 * (x \div 100) >= x - 99
    BY <2>3
  <2> QED  BY <2>2, <2>4 DEF x, a, r
<1> QED  BY <1>3, <1>4, <1>5, <1>7, <1>8

\* A lock or limit the code reckoned leaves what is owed to the sun.
LEMMA HoldingKeeps ==
    ASSUME Config, Decision.kind \in {"lock", "limit"}, Reckoned(Decision), NEW house \in Nat
    PROVE  /\ fresh /\ WeekEvening # -1 /\ now < Deadline
           /\ Kept(plan, Deadline, now + 5, ChargeAfter(Decision, house))
<1>1. ASSUME NEW why PROVE /\ Free(why).kind = "free" /\ Rests(why).kind = "none"
                           /\ Lock(why).kind = "lock" /\ Lock(why).why = why
  BY DEF Free, Rests, Lock
<1>2. \/ Planning /\ BeforeCrossover /\ Decision = Lock("regulation")
      \/ Planning /\ Decision = Regulated /\ Regulated.kind = "limit" /\ Regulated.why = "regulation"
      \/ InLockWindow /\ Decision = Lock("window")
  <2>1. ~Feeding(Decision)
    BY DEF Feeding
  <2>2. ASSUME Planning, Decision = Regulated PROVE Regulated.kind = "limit" /\ Regulated.why = "regulation"
    BY <1>1, <2>2, RegulatedFacts
  <2> QED  BY <1>1, <2>1, <2>2, DecisionCases
<1>3. site.rate \in Nat /\ 300 <= site.rate /\ site.kwh \in Nat /\ site.kwh >= 1 /\ Cap = 12000 * site.kwh
  BY SiteFacts DEF Config
<1>4. Missing \in Nat /\ charge \in Nat /\ 11400 * site.kwh - charge <= Missing
  <2>1. Missing \in Nat /\ charge \in Nat
    BY MissingFacts DEF Config
  <2> DEFINE y == site.kwh * Soc
  <2>2. /\ Soc \in Nat /\ y \in Int /\ 120 * y <= charge
        /\ (Soc <= 95 => Missing = 11400 * site.kwh - 120 * y)
        /\ (Soc >= 95 => Missing = 0)
    BY SocFacts, MissingFacts
  <2>3. Soc >= 95 => y >= 95 * site.kwh
    <3>1. Soc >= 95 => site.kwh * 95 <= site.kwh * Soc
      BY <1>3, <2>2, Times
    <3> QED  BY <1>3, <3>1
  <2> HIDE DEF y
  <2> QED  BY <1>3, <2>1, <2>2, <2>3
<1> DEFINE owed == 11400 * site.kwh - charge
           s == SunLeft(plan, Deadline, now + 5)
           a == SunAt(plan, now \div 60)
           d == Decision
           c == ChargeAfter(d, house)
           r == site.rate
<1>5. owed \in Int
  BY <1>3, <1>4
<1>6. CASE d.kind = "lock"
  <2>1. /\ fresh /\ WeekEvening # -1 /\ LockStart # -1 /\ now >= LockStart /\ now < Deadline
        /\ SteadySun(1)
        /\ \A n : Ahead(n) => Covers(r, owed, s, n)
    <3>1. CASE Planning /\ BeforeCrossover /\ d = Lock("regulation")
      <4>1. KnowsTheSun /\ SteadySun(IF Weight # NoHours THEN 1 ELSE 91)
        <5>1. d.kind = "lock" /\ d.why = "regulation"
          BY <1>1, <3>1
        <5> QED  BY <5>1 DEF Reckoned
      <4>2. SteadySun(1)
        <5>1. Sun(0) \in Int
          BY SunFacts DEF Config
        <5>2. \A h : Sun(h) >= 91 => Sun(h) >= 1
          BY SunFacts DEF Config
        <5> QED  BY <4>1, <5>2 DEF SteadySun
      <4>3. WeekEvening # -1 /\ now < Deadline /\ LockStart # -1 /\ now >= LockStart /\ fresh
        BY <3>1 DEF Planning, None
      <4>4. ASSUME NEW n, Ahead(n) PROVE Covers(r, owed, s, n)
        <5>1. n \in Nat /\ n <= 214 /\ s \in Nat
          BY <4>3, <4>4, AheadFacts, SlotSun DEF Ahead
        <5>2. 100 * Missing <= r * s
          BY <3>1, <4>1, CrossoverLeaves
        <5>4. r \in Nat /\ 300 <= r /\ Missing \in Int /\ owed \in Int /\ owed <= Missing
          BY <1>3, <1>4, <1>5
        <5> HIDE DEF owed, s, r
        <5>3. Covers(r, Missing, s, n)
          BY <5>1, <5>2, <5>4, EnoughCovers
        <5> QED  BY <5>1, <5>3, <5>4, CoversLess
      <4> QED  BY <4>2, <4>3, <4>4
    <3>2. CASE InLockWindow /\ d = Lock("window")
      <4>1. ~times.individual /\ LocalLockEnd # None /\ SteadySun(77)
        <5>1. d.kind = "lock" /\ d.why = "window"
          BY <1>1, <3>2
        <5> QED  BY <5>1 DEF Reckoned
      <4>2. SteadySun(1)
        <5>2. \A h : Sun(h) >= 77 => Sun(h) >= 1
          BY SunFacts DEF Config
        <5> QED  BY <4>1, <5>2 DEF SteadySun
      <4>3. WeekEvening # -1 /\ now < Deadline /\ LockStart # -1 /\ now >= LockStart /\ fresh
        BY <3>2, <4>1, WindowLeaves DEF InLockWindow
      <4>4. ASSUME NEW n, Ahead(n) PROVE Covers(r, owed, s, n)
        <5>1. n \in Nat /\ n <= 214 /\ s \in Nat
          BY <4>3, <4>4, AheadFacts, SlotSun DEF Ahead
        <5>2. 13 * Missing <= 10 * (r * n) + 9 * r
          BY <3>2, <4>1, <4>4, WindowLeaves
        <5>3. s >= 77 * n
          <6>1. 77 \in Nat
            OBVIOUS
          <6> QED  BY <4>1, <4>3, <4>4, <6>1, SteadyFacts
        <5>5. r \in Nat /\ 300 <= r /\ Missing \in Int /\ owed \in Int /\ owed <= Missing
          BY <1>3, <1>4, <1>5
        <5> HIDE DEF owed, s, r
        <5>4. Covers(r, Missing, s, n)
          BY <5>1, <5>2, <5>3, <5>5, WindowCovers
        <5> QED  BY <5>1, <5>4, <5>5, CoversLess
      <4> QED  BY <4>2, <4>3, <4>4
    <3>3. d = Regulated /\ Regulated.kind = "limit" => d.kind # "lock"
      OBVIOUS
    <3> QED  BY <1>2, <1>6, <3>1, <3>2, <3>3
  <2>2. PICK n : Ahead(n)
    BY <2>1, AheadFacts
  <2>3. c = charge
    <3>1. SunAt(plan, now \div 60) >= 1
      <4>1. 1 \in Nat
        OBVIOUS
      <4> QED  BY <2>1, <2>2, <4>1, SteadyFacts
    <3>2. Harvest # 0
      <4>1. SunAt(plan, now \div 60) \in Nat /\ Harvest \in Nat
            /\ (SunAt(plan, now \div 60) >= 1 => Harvest >= 3)
        BY <2>1, <2>2, SlotSun
      <4> QED  BY <3>1, <4>1
    <3>3. IsCommand(d)
      BY DecisionFacts
    <3>4. d.kind # "discharge" /\ d.kind # "limit" /\ d.kind \notin {"free", "none"}
      BY <1>6
    <3> QED  BY <3>2, <3>3, <3>4, SlotCases, Zenon
  <2>4. Covers(r, owed, s, n)
    BY <2>1, <2>2
  <2>5. Kept(plan, Deadline, now + 5, charge)
    <3>1. charge \in Int
      BY <1>4
    <3> QED  BY <2>1, <2>2, <2>4, <3>1, KeptNext
  <2> QED  BY <2>1, <2>3, <2>5
<1>7. CASE d.kind = "limit"
  <2>1. Planning /\ d = Regulated /\ Regulated.kind = "limit" /\ Regulated.why = "regulation"
    BY <1>1, <1>2, <1>7
  <2>2. /\ KnowsTheSun /\ SteadySun(IF Weight # NoHours THEN 1 ELSE 91) /\ ~GuardNet(Soll)
    BY <2>1 DEF Reckoned
  <2>3. SteadySun(1)
    <3>2. \A h : Sun(h) >= 91 => Sun(h) >= 1
      BY SunFacts DEF Config
    <3> QED  BY <2>2, <3>2 DEF SteadySun
  <2>4. fresh /\ WeekEvening # -1 /\ now < Deadline /\ LockStart # -1 /\ now >= LockStart
    BY <2>1 DEF Planning, None
  <2>5. PICK n : Ahead(n)
    BY <2>4, AheadFacts
  <2>6. /\ n \in Nat /\ n <= 214 /\ s \in Nat /\ a \in Nat /\ a <= 100
        /\ SunLeft(plan, Deadline, now) = s + a
        /\ Harvest \in Nat /\ 100 * Harvest >= r * a - 99 /\ (a >= 1 => Harvest >= 3)
    <3>1. n \in Nat /\ n <= 214
      BY <2>4, <2>5, AheadFacts DEF Ahead
    <3>2. /\ s \in Nat /\ a \in Nat /\ a <= 100 /\ SunLeft(plan, Deadline, now) = s + a
          /\ Harvest \in Nat /\ 100 * Harvest >= r * a - 99 /\ (a >= 1 => Harvest >= 3)
      BY <2>4, <2>5, SlotSun
    <3> QED  BY <3>1, <3>2
  <2>7. a >= 1
    <3>1. 1 \in Nat
      OBVIOUS
    <3> QED  BY <2>3, <2>4, <2>5, <3>1, SteadyFacts
  <2>8. 100 * Missing <= r * (s + a) \/ 100 * Missing <= 36 * r + 36
    BY <2>1, <2>2, <2>6, LimitLeaves
  <2>9. d.w \in Nat /\ d.w >= 100
    <3>1. Regulated # Free("regulation")
      BY <1>1, <2>1
    <3> QED  BY <2>1, <3>1, RegulatedFacts
  <2> DEFINE gain == Smaller(d.w, Harvest)
  <2>10. gain \in Nat /\ (gain >= 100 \/ 100 * gain >= r * a - 99)
    BY <2>6, <2>9 DEF Smaller
  <2>11. c = Within(charge + gain)
    <3>1. Harvest # 0
      BY <2>6, <2>7
    <3>2. IsCommand(d)
      BY DecisionFacts
    <3>3. d.kind # "discharge" /\ d.kind # "lock" /\ d.kind \notin {"free", "none"}
      BY <1>7
    <3> QED  BY <3>1, <3>2, <3>3, SlotCases, Zenon
  <2> DEFINE k == site.kwh
             m == Missing
  <2>16. r \in Nat /\ 300 <= r /\ k \in Nat /\ k >= 1 /\ m \in Int /\ Cap = 12000 * k
        /\ 11400 * k - charge <= m
    BY <1>3, <1>4
  <2>17. Suffices(r, m, s + a) /\ Gains(r, a, gain)
    BY <2>8, <2>10 DEF Suffices, Gains, Gives
  <2> HIDE DEF gain, owed, s, a, r, k, m
  <2>12. Covers(r, m - gain, s, n)
    <3>1. a \in Nat /\ a <= 100 /\ s \in Nat /\ n \in Nat /\ n <= 214 /\ gain \in Nat
      BY <2>6, <2>10
    <3> QED  BY <2>16, <2>17, <3>1, LimitCovers
  <2>13. c \in Int /\ (c = Cap \/ c >= charge + gain)
    <3>1. charge + gain \in Int /\ scene \in DOMAIN SCENES /\ Cap \in Int
      BY <1>3, <1>4, <2>10 DEF Config
    <3> HIDE DEF c
    <3> QED  BY <2>11, <3>1, WithinFacts
  <2> HIDE DEF c, d
  <2>14. Covers(r, 11400 * k - c, s, n)
    <3>1. CASE c = Cap
      <4>1. n <= 287 /\ n \in Nat /\ s \in Nat
        BY <2>6
      <4>2. Covers(r, 11400 * k - 12000 * k, s, n)
        BY <2>16, <4>1, FullCovers
      <4> QED  BY <2>16, <3>1, <4>2
    <3>2. CASE c >= charge + gain
      <4> DEFINE x == 11400 * k - c
                 y == m - gain
      <4>1. y \in Int /\ x \in Int /\ x <= y
        BY <1>4, <2>10, <2>13, <2>16, <3>2
      <4> HIDE DEF x, y
      <4>2. Covers(r, y, s, n)
        BY <2>12 DEF y
      <4>3. Covers(r, x, s, n)
        BY <2>6, <2>16, <4>1, <4>2, CoversLess
      <4> QED  BY <4>3 DEF x
    <3> QED  BY <2>13, <3>1, <3>2
  <2>15. Kept(plan, Deadline, now + 5, c)
    BY <2>3, <2>4, <2>5, <2>13, <2>14, KeptNext DEF r, s, k
  <2> QED  BY <2>4, <2>15 DEF c, d
<1> QED  BY <1>6, <1>7

\* A cycle that holds nothing back keeps what it has been.
LEMMA FreeKeeps ==
    ASSUME TypeOK, Cycle, now' = now + 5, command'.kind \in {"free", "none"}, charge = best \/ Held
    PROVE  charge' = best' \/ (WeekEvening # None /\ fresh
                               /\ (now + 5 <= Deadline => Kept(plan, Deadline, now + 5, charge')))
<1>1. Config /\ IsCommand(command') /\ charge' = ChargeAfter(command', HouseNow)
      /\ best' = Within(IF Harvest = 0 THEN best - HouseNow ELSE best + Harvest)
  BY ConfigOfTypes, CycleFacts
<1>2. /\ Harvest = 0 => charge' = Within(charge - HouseNow)
      /\ Harvest # 0 => charge' = Within(charge + Harvest)
  <2>1. HouseNow \in Nat
    BY <1>1, HouseFacts DEF Config
  <2>2. Drawn(command', HouseNow) = HouseNow
    BY <1>1, <2>1, DrawnFacts DEF Config
  <2>3. command'.kind # "discharge" /\ command'.kind # "lock" /\ command'.kind # "limit"
    OBVIOUS
  <2>4. ASSUME Harvest = 0
        PROVE  ChargeAfter(command', HouseNow) = Within(charge - Drawn(command', HouseNow))
    <3>1. ~(Harvest > 0)
      BY <2>4
    <3> QED  BY <2>4, <3>1, Zenon DEF ChargeAfter
  <2>5. Harvest # 0 => ChargeAfter(command', HouseNow) = Within(charge + Harvest)
    BY <1>1, <2>1, <2>3, SlotCases, Zenon
  <2> QED  BY <1>1, <2>2, <2>4, <2>5, Zenon
<1>3. CASE charge = best
  BY <1>1, <1>2, <1>3, Zenon
<1>4. CASE Held
  <2>1. fresh /\ WeekEvening # None /\ (now <= Deadline => Kept(plan, Deadline, now, charge))
    BY <1>4 DEF Held
  <2>2. SUFFICES ASSUME now + 5 <= Deadline PROVE Kept(plan, Deadline, now + 5, charge')
    BY <2>1
  <2>3. now \in Nat /\ Deadline \in Int /\ WeekEvening # -1 /\ now < Deadline
    <3>1. now \in Nat /\ Deadline \in Int
      BY <1>1, DeadlineTyped
    <3> QED  BY <2>1, <2>2, <3>1 DEF None
  <2>4. Kept(plan, Deadline, now, charge)
    BY <2>1, <2>3
  <2>5. PICK n : Ahead(n)
    BY <1>1, <2>3, AheadFacts
  <2>6. n \in Nat /\ n <= 287 /\ (Deadline - now) \div 5 = n + 1
    BY <1>1, <2>3, <2>5, AheadFacts DEF Ahead
  <2>7. SteadySun(1) /\ SunAt(plan, now \div 60) >= 1
    <3>1. \A h \in (now \div 60)..((Deadline - 1) \div 60) : SunAt(plan, h) >= 1
      BY <2>4 DEF Kept
    <3>2. \A h : Sun(h) = SunAt(plan, h)
      BY DEF Sun, SunAt
    <3>3. SteadySun(1)
      BY <3>1, <3>2 DEF SteadySun
    <3>4. 1 \in Nat
      OBVIOUS
    <3> QED  BY <1>1, <2>3, <2>5, <3>3, <3>4, SteadyFacts
  <2> DEFINE s == SunLeft(plan, Deadline, now + 5)
             a == SunAt(plan, now \div 60)
             r == site.rate
             k == site.kwh
             owed == 11400 * k - charge
  <2>8. /\ s \in Nat /\ a \in Nat /\ SunLeft(plan, Deadline, now) = s + a
        /\ Harvest \in Nat /\ 100 * Harvest >= r * a - 99 /\ Harvest # 0
    <3>1. /\ s \in Nat /\ a \in Nat /\ SunLeft(plan, Deadline, now) = s + a
          /\ Harvest \in Nat /\ 100 * Harvest >= r * a - 99 /\ (a >= 1 => Harvest >= 3)
      BY <1>1, <2>3, <2>5, SlotSun
    <3>2. Harvest # 0
      BY <2>7, <3>1
    <3> QED  BY <3>1, <3>2
  <2>9. /\ r \in Nat /\ k \in Nat /\ k >= 1 /\ Cap = 12000 * k /\ charge \in Nat /\ owed \in Int
    BY <1>1, SiteFacts DEF Config
  <2>10. Covers(r, owed, s + a, n + 1)
    <3>1. Covers(plan.site.rate, 11400 * plan.site.kwh - charge, SunLeft(plan, Deadline, now), (Deadline - now) \div 5)
      BY <2>4 DEF Kept
    <3>2. plan.site = site
      BY DEF site
    <3> QED  BY <2>6, <2>8, <3>1, <3>2
  <2>11. PICK c \in Int : c = charge' /\ (c = Cap \/ c >= charge + Harvest)
    <3>1. charge + Harvest \in Int /\ scene \in DOMAIN SCENES /\ Cap \in Nat
      BY <1>1, <2>8, <2>9 DEF Config
    <3>2. charge' = Within(charge + Harvest)
      BY <1>2, <2>8
    <3>3. Within(charge + Harvest) \in 0..Cap
          /\ (Within(charge + Harvest) = Cap \/ Within(charge + Harvest) >= charge + Harvest)
      BY <3>1, WithinFacts
    <3> DEFINE c == Within(charge + Harvest)
    <3>4. c \in Int /\ (c = Cap \/ c >= charge + Harvest)
      BY <3>1, <3>3
    <3> HIDE DEF c
    <3> QED  BY <3>2, <3>4 DEF c
  <2> HIDE DEF s, a, r, k, owed
  <2>12. Covers(r, owed - Harvest, s, n)
    <3>1. Gives(r, a, Harvest) /\ s \in Nat /\ a \in Nat /\ Harvest \in Nat
      BY <2>8 DEF Gives
    <3>2. n \in Nat /\ r \in Nat /\ owed \in Int
      BY <2>6, <2>9
    <3> QED  BY <2>10, <3>1, <3>2, FreeCovers
  <2>13. Covers(r, 11400 * k - c, s, n)
    <3>1. CASE c = Cap
      <4>1. Covers(r, 11400 * k - 12000 * k, s, n)
        BY <2>6, <2>8, <2>9, FullCovers
      <4> QED  BY <2>9, <3>1, <4>1
    <3>2. CASE c >= charge + Harvest
      <4> DEFINE x == 11400 * k - c
                 y == owed - Harvest
      <4>1. y \in Int /\ x \in Int /\ x <= y
        <5>1. Harvest \in Nat /\ k \in Nat /\ charge \in Nat /\ owed = 11400 * k - charge
          BY <2>8, <2>9 DEF owed
        <5>2. c \in Int
          BY <2>11
        <5> QED  BY <3>2, <5>1, <5>2
      <4> HIDE DEF x, y
      <4>2. Covers(r, y, s, n)
        BY <2>12 DEF y
      <4>3. Covers(r, x, s, n)
        BY <2>6, <2>8, <2>9, <4>1, <4>2, CoversLess
      <4> QED  BY <4>3 DEF x
    <3> QED  BY <2>11, <3>1, <3>2
  <2>14. Kept(plan, Deadline, now + 5, c)
    BY <1>1, <2>3, <2>5, <2>7, <2>13, KeptNext DEF r, s, k
  <2> QED  BY <2>11, <2>14
<1> QED  BY <1>3, <1>4

LEMMA DayCycle ==
    ASSUME DayInv, Cycle
    PROVE  DayInv'
<1>1. TypeOK /\ ClockInv /\ DayHeld /\ Config /\ TypeOK' /\ ClockInv'
  BY ConfigOfTypes, CycleTypes, ClockStep DEF DayInv
<1>2. SUFFICES ASSUME trusted', ~midnight', told'.until = None PROVE (charge = best \/ Held)'
  BY <1>1 DEF DayInv, DayHeld
<1>3. trusted /\ Reckoned(command')
  BY <1>2, Zenon DEF Cycle
<1>4. ~midnight /\ now' = now + 5
  BY <1>1, <1>2, ClockStep, Zenon
<1>5. command' = Decision /\ charge' = ChargeAfter(command', HouseNow)
  BY <1>1, CycleFacts
<1>6. command'.kind # "discharge" /\ told.until = None
  <2>1. CASE command'.kind = "discharge"
    <3>1. Morning \in Nat
      <4>1. DischargeEnd # -1
        BY <1>1, <1>5, <2>1, DecisionFacts DEF Feeding, None
      <4> QED  BY <1>1, <4>1, MorningFacts
    <3>2. \/ told'.until = Morning
          \/ told.until # None /\ told'.until = Smaller(told.until, Morning)
      <4>1. CASE told.until = None
        <5>1. told' = [until |-> Morning, need |-> DayNeed]
          BY <2>1, <4>1, Zenon DEF Cycle
        <5> QED  BY <5>1
      <4>2. CASE told.until # None
        <5>1. told' = [until |-> Smaller(told.until, Morning), need |-> Smaller(told.need, DayNeed)]
          BY <2>1, <4>2, Zenon DEF Cycle
        <5> QED  BY <4>2, <5>1
      <4> QED  BY <4>1, <4>2
    <3>3. told.until # None => told.until \in Nat
      BY <1>1, ClockNumbers DEF TypeOK
    <3>4. told'.until \in {told.until, Morning}
      BY <3>2 DEF Smaller
    <3>5. told'.until \in Nat
      BY <3>1, <3>2, <3>3, <3>4
    <3> QED  BY <1>2, <3>5 DEF None
  <2>2. CASE command'.kind # "discharge"
    <3>1. told' = told
      BY <2>2, Zenon DEF Cycle
    <3> QED  BY <1>2, <2>2, <3>1
  <2> QED  BY <2>1, <2>2
<1>7. charge = best \/ Held
  BY <1>1, <1>3, <1>4, <1>6 DEF DayHeld
<1>8. /\ plan' = plan /\ Deadline' = Deadline /\ WeekEvening' = WeekEvening
      /\ fresh => fresh'
  <2>1. plan' = plan /\ times' = times
    BY DEF Cycle, plan
  <2>2. Deadline' = Deadline /\ WeekEvening' = WeekEvening
    BY <2>1 DEF Deadline, WeekEvening, TimeOf, BUFFER, None
  <2>3. fresh' = (fresh /\ now' # 0)
    BY Zenon DEF Cycle
  <2>4. now' # 0
    <3>1. now \in Nat
      BY <1>1, ClockNumbers DEF Config
    <3> QED  BY <1>4, <3>1
  <2> QED  BY <2>1, <2>2, <2>3, <2>4
<1>9. \/ charge' = best'
      \/ WeekEvening # None /\ fresh /\ (now + 5 <= Deadline => Kept(plan, Deadline, now + 5, charge'))
  <2>1. IsCommand(command')
    BY <1>1, CycleFacts
  <2>2. CASE command'.kind \in {"free", "none"}
    BY <1>1, <1>4, <1>7, <2>2, FreeKeeps
  <2>3. CASE command'.kind \in {"lock", "limit"}
    <3>1. PICK house \in Nat : house = HouseNow
      BY <1>1, HouseFacts DEF Config
    <3>2. Decision.kind \in {"lock", "limit"} /\ Reckoned(Decision)
      BY <1>3, <1>5, <2>3
    <3>3. fresh /\ WeekEvening # -1 /\ Kept(plan, Deadline, now + 5, ChargeAfter(Decision, house))
      BY <1>1, <3>2, HoldingKeeps
    <3> QED  BY <1>5, <3>1, <3>3 DEF None
  <2> QED  BY <1>6, <2>1, <2>2, <2>3 DEF IsCommand
<1>10. Held' \/ charge' = best'
  <2>1. Held' <=> /\ fresh' /\ WeekEvening' # None
                  /\ (now' <= Deadline' => Kept(plan', Deadline', now', charge'))
    BY DEF Held, Kept, SunLeft, SunTerms, SunAt, Covers, Overlap, Larger, Smaller, SLOT, DAY, None
  <2> QED  BY <1>4, <1>8, <1>9, <2>1
<1> QED  BY <1>10

LEMMA DayFetch ==
    ASSUME DayInv, FetchClouds \/ FetchWindow \/ UNCHANGED vars
    PROVE  DayInv'
<1>1. TypeOK'
  BY FetchTypes DEF DayInv
<1>2. /\ plan' = plan /\ trusted' = trusted /\ best' = best
      /\ midnight' = midnight /\ now' = now /\ charge' = charge /\ told' = told
  BY DEF FetchClouds, FetchWindow, vars, history, plan
<1>3. ClockInv'
  BY <1>2 DEF DayInv, ClockInv
<1>4. DayHeld'
  <2>1. CASE times' = times /\ fresh' = fresh
    BY <1>2, <2>1, Zenon DEF DayInv, DayHeld, Held, Deadline, WeekEvening, TimeOf, BUFFER, None
  <2>2. CASE FetchWindow
    <3>1. ~fresh
      BY <2>2 DEF FetchWindow
    <3>2. ~Held
      BY <3>1 DEF Held
    <3> QED  BY <1>2, <3>2, Zenon DEF DayInv, DayHeld
  <2>3. FetchClouds \/ UNCHANGED vars => times' = times /\ fresh' = fresh
    BY DEF FetchClouds, vars
  <2> QED  BY <2>1, <2>2, <2>3
<1> QED  BY <1>1, <1>3, <1>4 DEF DayInv

LEMMA DayHolds == Spec => []DayInv
<1>1. Init => DayInv
  <2> SUFFICES ASSUME Init PROVE DayInv
    OBVIOUS
  <2>1. TypeOK /\ ClockInv
    BY NightInit DEF NightInv
  <2>2. charge = best
    BY DEF Init
  <2> QED  BY <2>1, <2>2 DEF DayInv, DayHeld
<1>2. DayInv /\ [Next]_vars => DayInv'
  BY DayCycle, DayFetch DEF Next, SceneOver
<1> QED  BY <1>1, <1>2, PTL DEF Spec

\* Holding charging back costs a day as sunny as it was forecast nothing: at
\* the deadline the battery has what free charging would have given it, up to
\* 95 percent, but for Slack.
THEOREM PlannerFullByDeadline == Spec => []FullByDeadline
<1>1. DayInv => FullByDeadline
  <2> SUFFICES ASSUME DayInv, WeekEvening # None, now = Deadline, trusted, ~midnight, told.until = None
               PROVE  charge + Slack >= Smaller(best, (TARGET_SOC * Cap) \div 100)
    BY Zenon DEF FullByDeadline
  <2>1. Config /\ TypeOK /\ (charge = best \/ Held)
    BY ConfigOfTypes DEF DayInv, DayHeld
  <2> DEFINE k == site.kwh
             r == site.rate
             t == (TARGET_SOC * Cap) \div 100
  <2>2. k \in Nat /\ r \in Nat /\ Slack = r + 200 /\ t = 11400 * k
    <3>1. k \in Nat /\ r \in Nat /\ Slack = r + 200 /\ Cap = 12000 * k
      BY <2>1, SiteFacts DEF Config, Slack
    <3>2. TARGET_SOC * Cap = 1140000 * k
      BY <3>1 DEF TARGET_SOC
    <3> HIDE DEF k, r
    <3>3. (1140000 * k) \div 100 = 11400 * k
      BY <3>1
    <3> QED  BY <3>1, <3>2, <3>3
  <2>3. charge \in Nat /\ best \in Nat
    <3>1. Cap \in Nat
      BY <2>1, SiteFacts DEF Config
    <3> QED  BY <2>1, <3>1 DEF TypeOK
  <2>4. CASE charge = best
    <3> HIDE DEF r, t
    <3>1. t \in Int
      BY <2>2
    <3>2. Smaller(best, t) <= best
      BY <2>3, <3>1, LargerFacts
    <3>3. Smaller(best, t) \in Int
      BY <2>3, <3>1, LargerFacts
    <3> QED  BY <2>2, <2>3, <2>4, <3>2, <3>3 DEF t
  <2>5. CASE Held
    <3>1. now \in Nat /\ Deadline \in Nat
      <4>1. now \in Nat
        BY <2>1, DeadlineTyped
      <4> QED  BY <4>1
    <3>2. Kept(plan, Deadline, now, charge)
      BY <2>5, <3>1 DEF Held
    <3>3. Covers(r, 11400 * k - charge, 0, 0)
      <4>1. Covers(plan.site.rate, 11400 * plan.site.kwh - charge, SunLeft(plan, Deadline, now), (Deadline - now) \div 5)
        BY <3>2 DEF Kept
      <4>2. SunLeft(plan, Deadline, now) = 0
        <5>1. SunLeft(plan, Deadline, Deadline) = 0
          BY <2>1, <3>1, SunLeftEnd DEF Config
        <5> QED  BY <5>1
      <4>3. (Deadline - now) \div 5 = 0
        BY <3>1
      <4> QED  BY <4>1, <4>2, <4>3 DEF site
    <3>4. 100 * (11400 * k - charge) + 100 * 0 <= r * 0 + 100 * r + 20000
      BY <3>3 DEF Covers
    <3> HIDE DEF k, r, t
    <3>5. charge + r + 200 >= t
      BY <2>2, <2>3, <3>4
    <3>6. Smaller(best, t) <= t /\ Smaller(best, t) \in Int /\ t \in Int
      <4>1. t \in Int
        BY <2>2
      <4> QED  BY <2>3, <4>1, LargerFacts
    <3> QED  BY <2>2, <2>3, <3>5, <3>6 DEF t
  <2> QED  BY <2>1, <2>4, <2>5
<1> QED  BY <1>1, DayHolds, PTL

=============================================================================

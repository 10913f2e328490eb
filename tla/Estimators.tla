----------------------------- MODULE Estimators -----------------------------
(***************************************************************************)
(* What the control rule learns about the house (gateway/openhab/control/  *)
(* core.js): the battery's capacity from forced discharges, the power it   *)
(* charges with, the load of the house at night and the sun's profile.     *)
(*                                                                         *)
(* Each estimator is driven by the cycles of the rule, which come at uneven *)
(* gaps, and reads a charge that is rounded down to whole percent.  The    *)
(* module carries the physical truth beside the estimates (charge, running) *)
(* and the properties compare the two.  One behaviour exercises one         *)
(* estimator (topic): they share no state.                                 *)
(*                                                                         *)
(* Units: W, minutes, watt minutes, so that no energy is rounded where the *)
(* code does not round; energy counted in whole points of the charge in    *)
(* hundredths of Wh; estimates of kWh and kW in hundredths, the precision  *)
(* the code keeps.                                                         *)
(***************************************************************************)
EXTENDS Integers, Sequences, FiniteSets

CONSTANTS
    TOPICS,        \* the estimators of this instance
    CAPACITY_WH,   \* the true capacity, in Wh
    POWERS,        \* powers of the battery, commanded or drawn by the house
    EXTRA_WH,      \* what the house may take beside a command in one cycle
    STEP_GAPS,     \* minutes between two cycles
    MAX_COUNT,     \* bound of the model: accepted samples
    MAX_MINUTES,   \* bound of the model: minutes of a measurement and of a night's measurements
    MIN_NIGHT_MIN, \* HOUSE_LOAD_MIN_NIGHT_MIN
    PEAK_W,        \* the power the battery really charges with at noon
    READINGS_W,    \* readings of the charging power, some above PEAK_W
    SAMPLE_GAPS,   \* minutes between two readings
    KEEP,          \* CHARGE_RATE_SAMPLES_KEEP
    HOURS,         \* hours of the day the sun profile sees
    PROFILE_DAYS,  \* SUN_PROFILE_DAYS
    MIN_READINGS,  \* SUN_PROFILE_MIN_SAMPLES
    MAX_DAY        \* bound of the model: days of the sun profile

ASSUME EstimatorsAssumption ==
    /\ TOPICS \subseteq {"capacity", "rise", "load", "rate", "sun"}
    /\ {CAPACITY_WH, MIN_NIGHT_MIN, PEAK_W, KEEP, PROFILE_DAYS, MIN_READINGS} \subseteq Nat \ {0}
    /\ POWERS \cup READINGS_W \cup STEP_GAPS \cup SAMPLE_GAPS \cup HOURS \cup EXTRA_WH \subseteq Nat
    /\ \E most \in POWERS : \A w \in POWERS : w <= most \* no battery gives or takes any power
    /\ MAX_COUNT \in Nat
    /\ MAX_MINUTES \in Nat
    /\ MAX_DAY \in Nat

VARIABLES
    topic,     \* the estimator this behaviour exercises
    charge,    \* truth: watt minutes in the battery
    running,   \* truth: W that flow since the last cycle
    stretch,   \* the running measurement: basisSoc, its age, energy, last command
    est,       \* the estimate (hundredths) and the samples it rests on
    night,     \* energy (hundredths of Wh) and minutes measured in the current night
    proben,    \* samples of the charging power, the oldest first, with their age
    kwAge,     \* minutes since the estimate of the charging power was written
    disturbed, \* history: an outlier had company, or fewer than three good samples beside it
    lauf,      \* the hour the sun profile is summing up
    tage       \* hour -> day values, the oldest first

learnVars == <<topic, charge, running, stretch, est, night, proben, kwAge, disturbed, lauf, tage>>
measured  == <<charge, running, stretch, est, night>>
rated     == <<proben, kwAge, disturbed>>
sunned    == <<lauf, tage>>

MIN_DROP     == 8    \* CAPACITY_SAMPLE_MIN_SOC_DROP
MIN_RISE     == 5    \* CHARGE_RATE_MIN_SOC_RISE
LOAD_DROP    == 3    \* HOUSE_LOAD_MIN_SOC_DROP
LOAD_MIN_SOC == 4    \* HOUSE_LOAD_MIN_SOC
MAX_STEP_GAP == 12   \* *_MAX_STEP_GAP_MIN
MIN_SAMPLES  == 3    \* CHARGE_RATE_MIN_SAMPLES
WINDOW       == 10080\* CHARGE_RATE_WINDOW_DAYS, in minutes
SPACING      == 15   \* CHARGE_RATE_SAMPLE_SPACING_MIN

Smaller(a, b) == IF a < b THEN a ELSE b
Larger(a, b) == IF a > b THEN a ELSE b

\* Math.round(a / b) for natural a and positive b
RoundDiv(a, b) == (2 * a + b) \div (2 * b)

\* The battery when it is full, and the charge as the item shows it.
Full == 60 * CAPACITY_WH
ShownSoc(energy) == (100 * energy) \div Full

\* No measurement is running: there is no basisSoc.
None == [soc |-> -1, age |-> 0, idle |-> 0, energy |-> 0, w |-> 0]

Start(soc, w) == [None EXCEPT !.soc = soc, !.w = w]

NoEstimate == [value |-> 0, count |-> 0]

\* A measurement goes on only over a short gap since its last step.
Continues(gap) == stretch # None /\ 0 < gap /\ stretch.idle + gap <= MAX_STEP_GAP

\* Time passes without a step of the measurement.
Idle(gap) ==
    IF stretch = None THEN None
    ELSE [stretch EXCEPT !.idle = Smaller(MAX_STEP_GAP + 1, @ + gap)]

-----------------------------------------------------------------------------
(***************************************************************************)
(* Capacity: energy commanded since the start of the stretch over the drop *)
(* of the charge.                                                          *)
(***************************************************************************)

\* Three tenths of the new sample, seven of the old estimate.
Blend(e, sample) ==
    [value |-> IF e.count > 0 THEN RoundDiv(7 * e.value + 3 * sample, 10) ELSE sample,
     count |-> e.count + 1]

\* kWh in hundredths from watt minutes and percentage points; only 1 to 100 kWh count.
CapacitySample(e, energy, drop) ==
    LET sample == RoundDiv(energy, 6 * drop)
    IN  IF sample \in 100..10000 THEN Blend(e, sample) ELSE e

\* Variants no code has, for the checks of the properties.
RestartedTrusting(soc, w, ok) == Start(soc, w)

\* A stretch begins; a command the adapter could not confirm counts for nothing.
Restarted(soc, w, ok) == Start(soc, IF ok THEN w ELSE 0)

\* Minutes since the stretch began.
Elapsed(gap) == stretch.age + stretch.idle + gap

\* updateCapacityEstimate
CapacityAfter(soc, w, ok, gap) ==
    LET energy == stretch.energy + stretch.w * gap
        drop   == stretch.soc - soc
    IN  CASE ~ok \/ ~Continues(gap) \/ drop < 0 ->
               [stretch |-> Restarted(soc, w, ok), est |-> est]
          [] ok /\ Continues(gap) /\ drop \in 0..(MIN_DROP - 1) ->
               [stretch |-> [stretch EXCEPT !.energy = energy, !.w = w], est |-> est]
          [] ok /\ Continues(gap) /\ drop >= MIN_DROP ->
               [stretch |-> Start(soc, w), est |-> CapacitySample(est, energy, drop)]

\* A discharging cycle: the last command stood until now (the house may have
\* taken more than commanded), the next one is w.  ok is the adapter's answer;
\* without it the device may have taken the command or not.
CapacityCycle(w, ok, gap, extra) ==
    LET drawn == running * gap + 60 * extra
        next  == CapacityAfter(ShownSoc(charge - drawn), w, ok, gap)
    IN  /\ drawn <= charge
        /\ est.count < MAX_COUNT
        /\ charge' = charge - drawn
        /\ running' \in IF ok THEN {w} ELSE {0, w}
        /\ stretch' = next.stretch
        /\ est' = next.est
        /\ UNCHANGED night

\* The day fills the battery.
Refill ==
    /\ charge' = Full
    /\ running' = 0
    /\ stretch' = Idle(MAX_STEP_GAP + 1)
    /\ UNCHANGED <<est, night>>

-----------------------------------------------------------------------------
(***************************************************************************)
(* Charging power from the rise of the charge: the fallback of a house     *)
(* without a battery power item.                                           *)
(***************************************************************************)

\* The weight grows with the time measured: 0.3 per hour, at most 0.6.
Weighted(e, sample, minutes) ==
    LET n == Smaller(minutes, 120)
    IN  [value |-> IF e.count > 0 THEN RoundDiv((200 - n) * e.value + n * sample, 200) ELSE sample,
         count |-> e.count + 1]

\* updateChargeRateFromSoc
RiseAfter(soc, gap) ==
    LET rise == soc - stretch.soc
        age  == Elapsed(gap)
        kw   == RoundDiv(rise * CAPACITY_WH * 60, 1000 * age)
    IN  CASE ~Continues(gap) \/ rise < 0 ->
               [stretch |-> Start(soc, 0), est |-> est]
          [] Continues(gap) /\ rise \in 0..(MIN_RISE - 1) ->
               [stretch |-> [stretch EXCEPT !.age = age, !.idle = 0], est |-> est]
          [] Continues(gap) /\ rise >= MIN_RISE ->
               [stretch |-> Start(soc, 0),
                est |-> IF kw \in 30..3000 THEN Weighted(est, kw, age) ELSE est]

\* A charging cycle; it is measured unless there is a lock, a cloudy outlook
\* or a charge above 95 %.
RiseCycle(w, gap, measures) ==
    LET more == charge + running * gap
        next == RiseAfter(ShownSoc(more), gap)
    IN  /\ more <= Full
        /\ est.count < MAX_COUNT
        /\ stretch.age < MAX_MINUTES
        /\ charge' = more
        /\ running' = w
        /\ stretch' = IF measures THEN next.stretch ELSE Idle(gap)
        /\ est' = IF measures THEN next.est ELSE est
        /\ UNCHANGED night

\* The evening empties the battery.
Drain ==
    /\ charge' = 0
    /\ running' = 0
    /\ stretch' = Idle(MAX_STEP_GAP + 1)
    /\ UNCHANGED <<est, night>>

-----------------------------------------------------------------------------
(***************************************************************************)
(* Load of the house: energy and time of all stretches of a night; only a  *)
(* night with enough measured time counts.                                 *)
(***************************************************************************)

NoNight == [energy |-> 0, minutes |-> 0]

\* finishHouseLoadNight, with runningNightLoadW
NightEnded ==
    LET w == RoundDiv(3 * night.energy, 5 * night.minutes)
    IN  IF night.minutes < MIN_NIGHT_MIN \/ night.energy = 0 \/ w \notin 50..3000
        THEN est ELSE Blend(est, w)

\* updateHouseLoadEstimate: a new night, a new stretch, a step, a drop that counts.
LoadAfter(soc, newNight, gap) ==
    LET drop == stretch.soc - soc
        age  == Elapsed(gap)
    IN  CASE newNight ->
               [stretch |-> Start(soc, 0), night |-> NoNight, est |-> NightEnded]
          [] ~newNight /\ (~Continues(gap) \/ drop < 0) ->
               [stretch |-> Start(soc, 0), night |-> night, est |-> est]
          [] ~newNight /\ Continues(gap) /\ drop \in 0..(LOAD_DROP - 1) ->
               [stretch |-> [stretch EXCEPT !.age = age, !.idle = 0], night |-> night, est |-> est]
          [] ~newNight /\ Continues(gap) /\ drop >= LOAD_DROP ->
               [stretch |-> Start(soc, 0), est |-> est,
                night |-> [energy |-> night.energy + drop * CAPACITY_WH, minutes |-> night.minutes + age]]

\* A night cycle without a command: only the house draws, and its draw is measured
\* down to a charge at which the inverter throttles by itself.  With a new night the
\* day has filled the battery.
LoadCycle(w, gap, newNight) ==
    LET left == IF newNight THEN Full ELSE charge - running * gap
        next == LoadAfter(ShownSoc(left), newNight, gap)
    IN  /\ left >= 0 /\ ShownSoc(left) >= LOAD_MIN_SOC
        /\ est.count < MAX_COUNT
        /\ stretch.age < MAX_MINUTES
        /\ night.minutes < MAX_MINUTES \/ newNight
        /\ charge' = left
        /\ running' = w
        /\ stretch' = next.stretch
        /\ night' = next.night
        /\ est' = next.est

\* Below that charge nothing is measured and nothing forgotten.
LoadSkipped(w, gap) ==
    /\ charge >= running * gap /\ ShownSoc(charge - running * gap) < LOAD_MIN_SOC
    /\ charge' = charge - running * gap
    /\ running' = w
    /\ stretch' = Idle(gap)
    /\ UNCHANGED <<night, est>>

\* A cycle with a command takes the battery's energy and ends the stretch.
LoadCleared(w, gap, commanded) ==
    /\ charge >= running * gap
    /\ charge' = charge - running * gap
    /\ running' = w + commanded
    /\ stretch' = None
    /\ UNCHANGED <<night, est>>

-----------------------------------------------------------------------------
(***************************************************************************)
(* Charging power from readings at noon: the 80th percentile of the        *)
(* samples of a week, at once when it is higher, by halves of a week when  *)
(* it is lower.                                                            *)
(***************************************************************************)

\* percentile: the value at the nearest rank, q in percent, counted from 0 in the
\* sorted list; at most as many values are smaller, and more are not greater.
Percentile(values, q) ==
    LET rank == RoundDiv(q * (Len(values) - 1), 100)
    IN  CHOOSE v \in {values[k] : k \in DOMAIN values} :
            /\ Cardinality({k \in DOMAIN values : values[k] < v}) <= rank
            /\ Cardinality({k \in DOMAIN values : values[k] <= v}) > rank

\* The newest KEEP samples.
Kept(list) == SubSeq(list, Larger(1, Len(list) - KEEP + 1), Len(list))

\* 1000 * 0.5^(d/7) for d days; below a day hardly anything is lost.
Fade(minutes) ==
    <<999, 906, 820, 743, 673, 610, 552, 500, 453>>[Smaller(minutes \div 1440, 8) + 1]

\* The samples of the window; the list is in the order of time.
InTime(list) ==
    SubSeq(list, Cardinality({k \in DOMAIN list : list[k].age > WINDOW}) + 1, Len(list))

\* updateChargeRateSample, with what is left of the window after gap minutes.
SampleAfter(w, gap) ==
    LET aged   == [k \in DOMAIN proben |-> [proben[k] EXCEPT !.age = @ + gap]]
        inTime == InTime(aged)
        tooSoon == inTime # <<>> /\ inTime[Len(inTime)].age < SPACING
        kept    == Kept(Append(inTime, [w |-> w, age |-> 0]))
        p       == RoundDiv(Percentile([k \in DOMAIN kept |-> kept[k].w], 80), 10)
        faded   == RoundDiv(1000 * p + (est.value - p) * Fade(kwAge + gap), 1000)
    IN  CASE tooSoon -> [proben |-> inTime, est |-> est, kwAge |-> kwAge + gap]
          [] ~tooSoon /\ Len(kept) < MIN_SAMPLES ->
               [proben |-> kept, est |-> est, kwAge |-> kwAge + gap]
          [] ~tooSoon /\ Len(kept) >= MIN_SAMPLES ->
               [proben |-> kept, kwAge |-> 0,
                est |-> [value |-> IF est.count = 0 \/ p >= est.value THEN p ELSE faded,
                         count |-> 1]]

\* A cycle that samples: noon, a free slot before and now, sun, a middle charge.
RateCycle(w, gap) ==
    LET next == SampleAfter(w, gap)
    IN  /\ proben' = next.proben
        /\ est' = next.est
        /\ kwAge' = Smaller(next.kwAge, WINDOW + 1440)
        /\ LET outliers == {k \in DOMAIN next.proben : next.proben[k].w > PEAK_W}
           IN  disturbed' = (disturbed \/ Cardinality(outliers) >= (IF Len(next.proben) > 3 THEN 2 ELSE 1))
        /\ UNCHANGED <<charge, running, stretch, night>>

-----------------------------------------------------------------------------
(***************************************************************************)
(* The sun profile (updateSunProfile): the mean of every hour of the last  *)
(* days.  The entries carry their day and the readings they were made of,  *)
(* which the code does not keep.                                           *)
(***************************************************************************)

NoHour == [day |-> 0, hour |-> 0, sum |-> 0, n |-> 0, seen |-> {}]

\* Variant: the same hour of another day goes on.
SameHourAnyDay(day, hour) == lauf # NoHour /\ lauf.hour = hour

SameHour(day, hour) == lauf # NoHour /\ lauf.day = day /\ lauf.hour = hour

\* The finished hour joins the days of its hour, if it was watched long enough.
HourEnded ==
    LET entry == [day |-> lauf.day, w |-> RoundDiv(lauf.sum, lauf.n), n |-> lauf.n, seen |-> lauf.seen]
        days  == Append(tage[lauf.hour], entry)
    IN  IF lauf.n >= MIN_READINGS /\ lauf.hour \in 4..21
        THEN [tage EXCEPT ![lauf.hour] = SubSeq(days, Larger(1, Len(days) - PROFILE_DAYS + 1), Len(days))]
        ELSE tage

\* A cycle reads w in this hour of this day; cycles and whole days may be missing.
SunCycle(day, hour, w) ==
    LET same == SameHour(day, hour)
        base == IF same THEN lauf ELSE [NoHour EXCEPT !.day = day, !.hour = hour]
    IN  /\ day > lauf.day \/ (day = lauf.day /\ hour >= lauf.hour)
        /\ lauf.n < MIN_READINGS + 1 \/ ~same
        /\ lauf' = [base EXCEPT !.sum = @ + w, !.n = @ + 1, !.seen = @ \cup {<<day, hour, w>>}]
        /\ tage' = IF lauf = NoHour \/ same THEN tage ELSE HourEnded

-----------------------------------------------------------------------------
LearnInit ==
    /\ topic \in TOPICS
    /\ charge \in IF topic = "rise" THEN {0} ELSE {Full}
    /\ running = 0
    /\ stretch = None
    /\ est = NoEstimate
    /\ night = NoNight
    /\ proben = <<>>
    /\ kwAge = 0
    /\ disturbed = FALSE
    /\ lauf = NoHour
    /\ tage = [h \in HOURS |-> <<>>]

\* Every estimator leaves its state alone when an item it needs is missing or
\* unreadable.
ItemMissing == UNCHANGED <<measured, rated, sunned>>

Measures ==
    \/ /\ topic = "capacity"
       /\ \/ \E w \in POWERS, ok \in BOOLEAN, gap \in STEP_GAPS, extra \in EXTRA_WH :
                CapacityCycle(w, ok, gap, extra)
          \/ Refill
    \/ /\ topic = "rise"
       /\ \/ \E w \in POWERS, gap \in STEP_GAPS, measures \in BOOLEAN : RiseCycle(w, gap, measures)
          \/ Drain
    \/ /\ topic = "load"
       /\ \/ \E w \in POWERS \ {0}, gap \in STEP_GAPS, newNight \in BOOLEAN : LoadCycle(w, gap, newNight)
          \/ \E w \in POWERS \ {0}, gap \in STEP_GAPS : LoadSkipped(w, gap)
          \/ \E w, commanded \in POWERS \ {0}, gap \in STEP_GAPS : LoadCleared(w, gap, commanded)

LearnNext ==
    /\ UNCHANGED topic
    /\ \/ Measures /\ UNCHANGED <<rated, sunned>>
       \/ /\ topic = "rate"
          /\ \E w \in READINGS_W, gap \in SAMPLE_GAPS : RateCycle(w, gap)
          /\ UNCHANGED sunned
       \/ /\ topic = "sun"
          /\ \E day \in 1..MAX_DAY, hour \in HOURS, w \in POWERS : SunCycle(day, hour, w)
          /\ UNCHANGED <<measured, rated>>
       \/ ItemMissing

LearnSpec == LearnInit /\ [][LearnNext]_learnVars

-----------------------------------------------------------------------------
LearnTypes ==
    /\ topic \in TOPICS
    /\ charge \in 0..Full
    /\ running \in Nat
    /\ stretch = None \/ stretch \in [soc : 0..100, age : Nat, idle : 0..(MAX_STEP_GAP + 1), energy : Nat, w : Nat]
    /\ est \in [value : Nat, count : Nat]
    /\ night \in [energy : Nat, minutes : Nat]
    /\ Len(proben) <= KEEP
    /\ \A k \in DOMAIN proben : proben[k].age <= WINDOW
    /\ kwAge \in Nat
    /\ disturbed \in BOOLEAN
    /\ lauf.n \in Nat
    /\ DOMAIN tage = HOURS

Least(S) == CHOOSE x \in S : \A y \in S : x <= y
Most(S)  == CHOOSE x \in S : \A y \in S : x >= y

\* The battery is never taken to be larger than it is by more than the
\* rounding of the charge explains (one point in eight), as long as it delivers
\* at least what was commanded: long gaps, failed commands, refills and a
\* house that takes more never add energy the battery did not give.
CapacityNotOverrated ==
    topic = "capacity" /\ est.count > 0 => 80 * est.value <= 9 * CAPACITY_WH + 80

\* The charging power is never taken to be higher than the highest that flowed
\* by more than the rounding of the charge explains (five points for a bit more
\* than four).
RiseNotOverrated ==
    topic = "rise" /\ est.count > 0 => 8 * est.value <= Most(POWERS) + 8

\* A night's load lies between the least and the most the house drew, up to the
\* rounding of the charge (three points for a bit more than two, or a bit less than
\* four), whatever commands, gaps, skipped cycles and days lie between the stretches.
LoadNearTruth ==
    topic = "load" /\ est.count > 0 =>
        /\ 2 * est.value <= 3 * Most(POWERS) + 2
        /\ 4 * est.value + 4 >= 3 * Least(POWERS \ {0})

\* A reading above what the battery can take does not lift the estimate as long
\* as it is the only one of its week and three good ones stand beside it: with
\* three samples in all the percentile is the highest of them.
OutlierIgnored ==
    topic = "rate" /\ ~disturbed => 10 * est.value <= PEAK_W + 5

\* A value of the profile was made of enough readings, of one hour of one day,
\* lies between the least and the most of them, and counts once; only the
\* newest days are kept.
ProfileOfWholeHours ==
    \A h \in HOURS : \A k \in DOMAIN tage[h] :
        LET e == tage[h][k]
        IN  /\ Len(tage[h]) <= PROFILE_DAYS
            /\ e.n >= MIN_READINGS
            /\ \A r \in e.seen : r[1] = e.day /\ r[2] = h
            /\ Least({r[3] : r \in e.seen}) <= e.w /\ e.w <= Most({r[3] : r \in e.seen})
            /\ k > 1 => tage[h][k - 1].day < e.day

\* Neither the capacity nor the charging power is learned too high.
NotOverrated == CapacityNotOverrated /\ RiseNotOverrated

\* What is learned of load, peak and sun is what was measured.
LearnedIsTrue == LoadNearTruth /\ OutlierIgnored /\ ProfileOfWholeHours
=============================================================================

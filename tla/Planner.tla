------------------------------- MODULE Planner -------------------------------
(***************************************************************************)
(* What the control rule wants of the battery in a cycle (control/core.js, *)
(* from the configuration to the Zeitfenster-Weiche), together with the    *)
(* battery, the sun and the house it is planned for.                       *)
(*                                                                         *)
(* By day the charge regulation spreads the missing energy over the sunny  *)
(* hours before the evening deadline; without forecast or estimates the    *)
(* charge lock window stands in for it.  By night the battery feeds what   *)
(* lies above the member's reserve and the house's own need, stretched to  *)
(* the end of the discharge window.  All times of a plan come from items   *)
(* that change under it: at midnight, and when a fetch succeeds.           *)
(*                                                                         *)
(* Times are minutes since midnight and multiples of SLOT.  Energy is      *)
(* counted in W over one slot (W x 5 min); shares are percent.  The pulse  *)
(* width of adapters without gwLimitCharge is module ChargePwm, grid       *)
(* guard and failed commands are module ControlCycle; here a command       *)
(* reaches the device.                                                     *)
(***************************************************************************)
EXTENDS Integers, FiniteSetsExt

CONSTANTS
    SCENES,     \* the days and nights of this instance, a sequence: see Init
    HEAVY_W,    \* the house with a big consumer switched on
    MAX_HEAVY,  \* bound of the model: cycles with the big consumer
    MAX_CHANGES \* bound of the model: fetches that bring another outlook

VARIABLES
    scene,    \* the day or night: its site, sun, and from when until when
    times,    \* the time items of the gateway
    fresh,    \* the charge lock items carry today's date
    view,     \* the forecast items: clouds, yield, hourly factors and clouds
    now,      \* nowMinutes
    charge,   \* truth: energy in the battery
    command,  \* what the last cycle sent, and why
    heavy,    \* the big consumer ran in the last slot
    told,     \* history: the earliest morning and the smallest day's need a
              \* feeding cycle reckoned with
    spent,    \* history: energy the big consumer took
    heavies, changes, midnight,
    steady,   \* history: what the night plan reckons with has not changed
    fast,     \* history: it has fed, from five percent or more above the target
              \* on, and never down at the minimum power
    trusted,  \* history: every cycle that held charging back knew the sun
    watched,  \* history: the regulation was never off because of clouds
    best      \* truth: the charge had nothing ever held charging back

history == <<told, spent, heavies, changes, midnight, steady, fast, trusted, watched, best>>
vars == <<scene, times, fresh, view, now, charge, command, heavy, history>>

SLOT == 5             \* Stromkreis_SLOT_MINUTES
BUFFER == 120         \* LOCAL_FULL_BUFFER_MIN
LATEST_END == 780     \* LOCAL_LATEST_END_MIN
TARGET_SOC == 95      \* REG_TARGET_SOC, LOCAL_CHARGE_FRACTION
FALLBACK_MIN == 1000  \* FALLBACK_MIN_DISCHARGE_W
FALLBACK_MAX == 3000  \* FALLBACK_MAX_DISCHARGE_W
ABSOLUTE_MAX == 5000  \* ABSOLUTE_MAX_DISCHARGE_W
DAY == 6..19          \* hours with sun
KWH == 12000          \* one kWh
None == -1            \* null
NoHours == << >>
NoView == [clouds |-> None, share |-> None, factors |-> NoHours, skies |-> NoHours]

\* Times of day of the cycles; hours with a number of at most high each.
Clock == {SLOT * k : k \in 0..287}
IsHours(f, high) == DOMAIN f \subseteq 0..23 /\ \A h \in DOMAIN f : f[h] \in 0..high

Sites == [kwh : 1..100, rate : Nat, load : 0..HEAVY_W, known : BOOLEAN,
          min : Int, minW : Int, maxW : Int, dynamic : BOOLEAN, threshold : Int,
          lock : BOOLEAN, regulation : BOOLEAN, localLock : BOOLEAN,
          device : {"cap", "floor", "ontop"}]

TimeItems ==
    LET Item == Clock \cup {None}
    IN  [start : Item, ende : Item, individual : BOOLEAN, entladestart : Item,
         entladeende : Item, vormittag : Item, morning : Item, evening : Item]

\* Capacity and charging power within the code's plausible ranges, no site
\* that draws more than its big consumer; a scene that goes over midnight
\* begins after noon.
IsScene(p) ==
    /\ p.site \in Sites /\ 300 <= p.site.rate /\ p.site.rate <= 30000
    /\ p.sun \in [DAY -> 0..100]
    /\ p.peak \in Nat \ {0} /\ IsHours(p.profile, p.peak)
    /\ {p.from, p.until} \subseteq Clock /\ (p.until < p.from => p.from >= 900)
    /\ p.socs \subseteq 0..100 /\ p.fresh \subseteq BOOLEAN
    /\ p.times \subseteq TimeItems
    /\ \A v \in p.views : /\ v.clouds \in 0..100 \cup {None} /\ v.share \in Nat \cup {None}
                          /\ IsHours(v.factors, 100) /\ IsHours(v.skies, 100)

ASSUME PlannerAssumption ==
    /\ {HEAVY_W, MAX_HEAVY, MAX_CHANGES} \subseteq Nat
    /\ \A i \in DOMAIN SCENES : IsScene(SCENES[i])

Smaller(a, b) == IF a < b THEN a ELSE b
Larger(a, b) == IF a > b THEN a ELSE b
RoundDiv(a, b) == (2 * a + b) \div (2 * b)

\* The day or night at hand.
plan == SCENES[scene]
site == plan.site
Cap == site.kwh * KWH
Soc == (charge * 100) \div Cap
Sun(h) == IF h \in DAY THEN plan.sun[h] ELSE 0

-----------------------------------------------------------------------------
(***************************************************************************)
(* Configuration: settings and times, with their plausible ranges.         *)
(***************************************************************************)

\* num
Setting(value, fallback, lo, hi) == IF value \in lo..hi THEN value ELSE fallback

Threshold == Setting(site.threshold, 75, 0, 100)

\* timeItemMinutes
TimeOf(m, from, to) == IF m # None /\ m \div 60 \in from..(to - 1) THEN m ELSE None

LockStart   == TimeOf(times.start, 4, 12)
LockEnd     == TimeOf(times.ende, 5, 15)
Vormittag   == IF fresh THEN TimeOf(times.vormittag, 5, 15) ELSE None
WeekMorning == TimeOf(times.morning, 3, 12)
WeekEvening == TimeOf(times.evening, 12, 24)
Deadline    == WeekEvening - BUFFER

DischargeStart ==
    LET api == TimeOf(times.entladestart, 12, 24)
    IN  CASE fresh /\ api # None -> api
          [] ~(fresh /\ api # None) /\ WeekEvening # None -> Smaller(WeekEvening + 60, 1439)
          [] OTHER -> None

DischargeEnd ==
    LET api == TimeOf(times.entladeende, 3, 12)
    IN  IF fresh /\ api # None THEN api ELSE WeekMorning

InWindow(from, to) ==
    \/ from < to /\ now \in from..(to - 1)
    \/ from > to /\ (now >= from \/ now < to)

\* Variant no code has, for the check of the properties.
UntilToday(m) == Larger(0, m - now)

\* Minutes from now to the next time the clock shows m.
Until(m) == IF now < m THEN m - now ELSE 1440 - now + m

-----------------------------------------------------------------------------
(***************************************************************************)
(* Sunny hours, in percent of a full slot.                                 *)
(***************************************************************************)

\* hourOverlapH, in slots
Overlap(h, from, to) ==
    Larger(0, Smaller((h + 1) * 60, to) - Larger(h * 60, from)) \div SLOT

SunnedSlots(weight, from, to) ==
    SumFunctionOnSet([h \in DOMAIN weight |-> weight[h] * Overlap(h, from, to)],
                     DOMAIN weight)

\* effectiveChargeHoursFrom: the factors of the day, else the cloudless part.
Weight ==
    IF view.factors # NoHours THEN view.factors
    ELSE [h \in DOMAIN view.skies |-> 100 - view.skies[h]]

\* remainingCloudMean, else the cloud forecast
GuardClouds ==
    LET slots == SunnedSlots([h \in DOMAIN view.skies |-> 1], now, Deadline)
    IN  IF view.skies # NoHours /\ slots > 0
        THEN RoundDiv(SunnedSlots(view.skies, now, Deadline), slots)
        ELSE view.clouds

Missing == Larger(0, TARGET_SOC - Soc) * (Cap \div 100)

\* After t the sun still gives 1.3 times the hours the battery needs.
Enough(t) == SunnedSlots(Weight, t, Deadline) * site.rate >= Missing * 130

\* crossoverLockEnd: the latest slot up to the community's crossover.
CrossoverLockEnd ==
    LET slots == {t \in now..Vormittag : (Vormittag - t) % SLOT = 0 /\ Enough(t)}
    IN  IF Weight = NoHours \/ slots = {} THEN None ELSE Max(slots)

\* Variant no code has.
RestOfWholeDay ==
    [slots |-> Larger(SunnedSlots(Weight, LockStart, Deadline), 60), safety |-> 150]

\* The forecast's rest of the day and the safety factor it takes, in percent.
ForecastRest ==
    IF Weight # NoHours
    THEN [slots |-> Larger(SunnedSlots(Weight, now, Deadline), 60), safety |-> 150]
    ELSE [slots |-> 100 * ((Deadline - now) \div SLOT), safety |-> 110 + GuardClouds \div 2]

\* currentPvW; the panels' peak is the peak of the profile.
PvNow == (plan.peak * Sun(now \div 60)) \div 100

\* sunProfileHours times currentSunniness; 0 without a profile
ObservedSlots ==
    LET h == now \div 60
        profile == plan.profile
    IN  IF profile = NoHours \/ h \notin DOMAIN profile THEN 0
        ELSE IF profile[h] <= 0 THEN 0
        ELSE (SunnedSlots(profile, now, Deadline)
                * Smaller(100, (100 * PvNow) \div profile[h])) \div plan.peak

\* Variant no code has.
RestForecast == ForecastRest

\* The remaining time the regulation reckons with: never less than seen.
Rest ==
    IF ObservedSlots > ForecastRest.slots
    THEN [slots |-> ObservedSlots, safety |-> 150]
    ELSE ForecastRest

-----------------------------------------------------------------------------
(***************************************************************************)
(* The plan of the charge regulation for a slot, for an adapter with       *)
(* gwLimitCharge.                                                          *)
(***************************************************************************)
Free(why) == [kind |-> "free", w |-> 0, why |-> why]
Lock(why) == [kind |-> "lock", w |-> 0, why |-> why]
NoPlan    == [kind |-> "null", w |-> 0, why |-> "null"]

GuardNet(soll) ==
    /\ plan.profile # NoHours /\ Missing > 0
    /\ now < 720 /\ Soc < 60
    /\ PvNow * 2 > plan.peak
    /\ soll * 10 > 7 * site.rate

\* The target power, and the limit it becomes: at least a tenth of the
\* charging power, in steps of 100 W; nothing where it would hold back little.
LimitedTo(soll) ==
    IF Missing = 0 \/ soll * 10 >= 9 * site.rate THEN Free("regulation")
    ELSE [kind |-> "limit", why |-> "regulation",
          w |-> 100 * RoundDiv(Larger(soll, Larger(site.rate \div 10, 100)), 100)]

Soll == (Missing * Rest.safety) \div Rest.slots

Regulated ==
    IF GuardNet(Soll) THEN LimitedTo((7 * site.rate) \div 10) ELSE LimitedTo(Soll)

BeforeCrossover ==
    /\ Vormittag # None /\ now < Vormittag /\ Vormittag < Deadline
    /\ Missing > 0 /\ now < CrossoverLockEnd

\* chargeRegulationPlan
Plan ==
    IF \/ ~fresh \/ LockStart = None \/ WeekEvening = None
       \/ now < LockStart \/ now >= Deadline
       \/ ~site.known \/ GuardClouds = None THEN NoPlan
    ELSE IF GuardClouds >= Threshold THEN Free("clouds")
    ELSE IF BeforeCrossover THEN Lock("regulation")
    ELSE Regulated

-----------------------------------------------------------------------------
(***************************************************************************)
(* The charge lock window that stands in for it.                           *)
(***************************************************************************)

\* localChargeLockEnd
LocalLockEnd ==
    IF ~site.localLock \/ WeekEvening = None \/ ~site.known THEN None
    ELSE Smaller(Deadline - RoundDiv(Missing * 65, site.rate * 10), LATEST_END)

\* The end of the window: the server's where it is the site's own.
WindowEnd ==
    IF times.individual \/ LocalLockEnd = None THEN LockEnd ELSE LocalLockEnd

InLockWindow ==
    /\ fresh /\ LockStart # None /\ LockEnd # None /\ LockStart < LockEnd
    /\ LockStart < WindowEnd
    /\ now \in LockStart..(WindowEnd - 1)

\* handleChargeLock
WindowLock ==
    IF view.clouds = None \/ view.clouds >= Threshold THEN Free("window") ELSE Lock("window")

-----------------------------------------------------------------------------
(***************************************************************************)
(* The night's reserve and the power of the feed-in.                       *)
(***************************************************************************)
Morning ==
    IF Vormittag # None THEN Vormittag
    ELSE IF WeekMorning # None THEN WeekMorning ELSE DischargeEnd

DayEnd == IF WeekEvening > Morning THEN WeekEvening ELSE Morning + 600

\* Energy of the sun profile by day (sunProfileKwh).
ProfileEnergy == SunnedSlots(plan.profile, Morning, DayEnd)

DayLoad == site.load * ((DayEnd - Morning) \div SLOT)

\* What the panels will not cover of the next day.
DayNeed ==
    LET clouds  == view.clouds
        profile == plan.profile
    IN  CASE profile # NoHours /\ view.share # None ->
               Larger(0, DayLoad - (ProfileEnergy * Smaller(100, view.share)) \div 100)
          [] profile # NoHours /\ view.share = None /\ clouds # None ->
               Larger(0, DayLoad - (ProfileEnergy \div 100) * (100 - (clouds * clouds) \div 125))
          [] clouds = None /\ (profile = NoHours \/ view.share = None) -> DayLoad
          [] OTHER ->  \* dayReserveShare
               IF Threshold = 100 THEN IF clouds >= 100 THEN DayLoad ELSE 0
               ELSE (DayLoad * Larger(0, clouds - Threshold)) \div (100 - Threshold)

NightNeed == site.load * (Until(Morning) \div SLOT)

\* nightReserve, in tenths of a kWh
Reserve == RoundDiv((NightNeed + DayNeed) * 13, KWH)

\* nightTargetSoc (rounded up)
TargetSoc ==
    IF site.known
    THEN Smaller(100, site.min + (Reserve * 10 + site.kwh - 1) \div site.kwh)
    ELSE site.min

\* The hard limit.
Highest(w) == Smaller(w, ABSOLUTE_MAX)

\* Bounds of the power: settings or C-rate, below the hard limit.
PowerBounds ==
    LET low    == IF site.minW > 0 THEN site.minW ELSE FALLBACK_MIN
        high   == IF site.maxW > 0 THEN site.maxW ELSE FALLBACK_MAX
        set    == IF low < high THEN <<low, high>> ELSE <<FALLBACK_MIN, FALLBACK_MAX>>
        rates  == IF site.dynamic /\ site.known THEN <<site.kwh * 100, site.kwh * 300>> ELSE set
    IN  [min |-> Smaller(rates[1], Highest(rates[2])), max |-> Highest(rates[2])]

\* Maximum without clouds, minimum under a closed sky or an unknown one.
CloudPower ==
    LET clouds == IF view.clouds = None THEN 100 ELSE view.clouds
    IN  RoundDiv(PowerBounds.max * 100 - clouds * (PowerBounds.max - PowerBounds.min), 100)

\* Variant no code has.
FeedInUnstretched == CloudPower

\* The budget stretched to the end of the window, never below the minimum.
FeedIn ==
    LET left     == Until(DischargeEnd)
        stretchW == RoundDiv((Soc - TargetSoc) * site.kwh * 720, left)
    IN  IF site.known /\ left > 15 /\ stretchW < CloudPower
        THEN Larger(PowerBounds.min, stretchW) ELSE CloudPower

\* What the house takes now, and what the battery gives under command c: the
\* power commanded ("cap"), at least that ("floor"), or that and the house.
House == IF heavy THEN HEAVY_W ELSE site.load
Drawn(c, house) ==
    CASE c.kind # "discharge" -> house
      [] c.kind = "discharge" /\ site.device = "cap" -> c.w
      [] c.kind = "discharge" /\ site.device = "floor" -> Larger(c.w, house)
      [] c.kind = "discharge" /\ site.device = "ontop" -> c.w + house

\* hausvorrangGrund: the meters as they stood under the last command.
HouseFirst(w) ==
    \/ House - Drawn(command, House) > 200
    \/ Drawn(command, House) > w + 250 /\ Drawn(command, House) - House < 200

Rests(why) == [kind |-> "none", w |-> 0, why |-> why]

\* handleForcedDischarge
ForcedDischarge ==
    IF site.min \notin 6..90 \/ Soc <= site.min THEN Rests("low")
    ELSE IF ~site.known /\ view.clouds # None /\ view.clouds >= Threshold THEN Rests("clouds")
    ELSE IF Soc <= TargetSoc THEN Rests("target")
    ELSE IF HouseFirst(FeedIn) THEN Rests("house")
    ELSE [kind |-> "discharge", w |-> FeedIn, why |-> "night"]

\* The Weiche: one part of the rule runs.
Decision ==
    CASE site.lock /\ site.regulation /\ Plan # NoPlan -> Plan
      [] site.lock /\ ~(site.regulation /\ Plan # NoPlan) /\ InLockWindow -> WindowLock
      [] ~(site.lock /\ ((site.regulation /\ Plan # NoPlan) \/ InLockWindow)) ->
           IF DischargeStart # None /\ DischargeEnd # None /\ InWindow(DischargeStart, DischargeEnd)
           THEN ForcedDischarge ELSE Rests("outside")

-----------------------------------------------------------------------------
(***************************************************************************)
(* Battery, sun and house over one slot, and the passing of time.          *)
(***************************************************************************)
Within(e) == Larger(0, Smaller(Cap, e))

\* What the panels could charge in this slot.
Harvest == (site.rate * Sun(now \div 60)) \div 100

ChargeAfter(c, house) ==
    CASE c.kind = "discharge" \/ Harvest = 0 -> Within(charge - Drawn(c, house))
      [] c.kind = "lock" /\ Harvest > 0 -> charge
      [] c.kind = "limit" /\ Harvest > 0 -> Within(charge + Smaller(c.w, Harvest))
      [] c.kind \in {"free", "none"} /\ Harvest > 0 -> Within(charge + Harvest)

Init ==
    /\ scene \in DOMAIN SCENES
    /\ times \in plan.times /\ fresh \in plan.fresh
    /\ view \in plan.views
    /\ now = plan.from
    /\ charge \in {(p * Cap) \div 100 : p \in plan.socs}
    /\ command = Rests("start") /\ heavy = FALSE
    /\ told = [until |-> None, need |-> 0]
    /\ spent = 0 /\ heavies = 0 /\ changes = 0 /\ midnight = FALSE
    /\ steady = TRUE /\ fast = FALSE
    /\ trusted = TRUE /\ watched = TRUE /\ best = charge

\* The forecast and the learned profile promise no sun that does not come.
KnowsTheSun ==
    /\ \A h \in DOMAIN Weight : Weight[h] <= Sun(h)
    /\ plan.profile # NoHours =>
         \A h \in DOMAIN plan.profile : plan.profile[h] * 100 <= plan.peak * Sun(h)

\* The sun stays above a share until the deadline.
SteadySun(percent) == \A h \in (now \div 60)..((Deadline - 1) \div 60) : Sun(h) >= percent

\* A lock of the server's window promises nothing, the guard net holds back
\* whatever was forecast; the others reckon, by the hour or (where the day
\* must be even) with a factor for all of it.
Reckoned(c) ==
    CASE c.kind \notin {"lock", "limit"} -> TRUE
      [] c.kind \in {"lock", "limit"} /\ c.why = "regulation" ->
           /\ KnowsTheSun /\ SteadySun(IF Weight # NoHours THEN 1 ELSE 91)
           /\ c.kind = "limit" => ~GuardNet(Soll)
      [] c.kind = "lock" /\ c.why = "window" ->
           ~times.individual /\ LocalLockEnd # None /\ SteadySun(77)

\* A run of the rule and the slot after it.
Cycle ==
    /\ now # plan.until
    /\ now' = (now + SLOT) % 1440
    /\ command' = Decision
    /\ heavy' \in BOOLEAN
    /\ heavy' => heavies < MAX_HEAVY /\ Harvest = 0 /\ now % 60 = 0  \* bound of the model
    /\ heavies' = heavies + (IF heavy' THEN 1 ELSE 0)
    /\ LET house == IF heavy' THEN HEAVY_W ELSE site.load
       IN  /\ charge' = ChargeAfter(command', house)
           /\ best' = Within(IF Harvest = 0 THEN best - house ELSE best + Harvest)
           /\ spent' = spent + house - site.load
    /\ fresh' = (fresh /\ now' # 0)
    /\ midnight' = IF now' = 0 THEN TRUE ELSE midnight
    /\ told' = IF command'.kind # "discharge" THEN told
               ELSE IF told.until = None THEN [until |-> Morning, need |-> DayNeed]
               ELSE [until |-> Smaller(told.until, Morning), need |-> Smaller(told.need, DayNeed)]
    /\ fast' = IF command'.kind # "discharge" THEN fast
               ELSE command'.w > PowerBounds.min /\ (fast \/ (told.until = None /\ Soc >= TargetSoc + 5))
    /\ trusted' = (trusted /\ Reckoned(command'))
    /\ watched' = (watched /\ fresh /\ LockStart # None
                     /\ (now < LockStart \/ command'.why = "regulation"))
    /\ steady' = (steady /\ ~heavy' /\ (now' = 0 => ~fresh))
    /\ UNCHANGED <<scene, times, view, changes>>

\* cloud_forecast.js at minute 40 brings another outlook, or none is left.
FetchClouds ==
    /\ now % 60 = 40 /\ changes < MAX_CHANGES
    /\ view' \in (plan.views \cup {NoView}) \ {view}
    /\ changes' = changes + 1 /\ steady' = FALSE
    /\ UNCHANGED <<scene, times, fresh, now, charge, command, heavy, told, spent,
                   heavies, midnight, fast, trusted, watched, best>>

\* ladefenster.js at minute 50 brings the window of the new day.
FetchWindow ==
    /\ now % 60 = 50 /\ ~fresh
    /\ times' \in plan.times /\ fresh' = TRUE
    /\ steady' = FALSE
    /\ UNCHANGED <<scene, view, now, charge, command, heavy, told, spent, heavies,
                   changes, midnight, fast, trusted, watched, best>>

\* Bound of the model: the scene ends here.
SceneOver == now = plan.until /\ UNCHANGED vars

Next == Cycle \/ FetchClouds \/ FetchWindow \/ SceneOver

Spec == Init /\ [][Next]_vars

-----------------------------------------------------------------------------
(***************************************************************************)
(* Properties.                                                             *)
(***************************************************************************)

\* Types; a command to feed stays within the hard limit, a limit above zero.
TypeOK ==
    /\ scene \in DOMAIN SCENES /\ times \in plan.times /\ view \in plan.views \cup {NoView}
    /\ charge \in 0..Cap /\ best \in 0..Cap /\ now \in Clock
    /\ fresh \in BOOLEAN /\ heavy \in BOOLEAN /\ spent \in Nat
    /\ command.kind \in {"free", "lock", "limit", "none", "discharge"}
    /\ command.kind \in {"limit", "discharge"} <=> command.w > 0
    /\ command.kind = "discharge" => command.w <= ABSOLUTE_MAX
    /\ told.until \in Clock \cup {None} /\ told.need \in Nat
    /\ heavies \in 0..MAX_HEAVY /\ changes \in 0..MAX_CHANGES

\* The last slot may overshoot the target, by the highest power; and the
\* reserve is rounded to tenths of a kWh.
Overshoot == ABSOLUTE_MAX + KWH \div 20

\* A battery of known size the night plan has fed from still holds the member's reserve and
\* the part of the next day the panels will not cover when the community's
\* morning comes (core.js, Nacht-Entladebudget): over midnight, where the
\* times of the plan change, and under outlooks that change in the night.
\* Only a big consumer in the house itself, counted in spent, may eat into it.
ReachesMorning ==
    site.known /\ told.until # None /\ midnight /\ now = told.until
      => charge + spent + Overshoot >= (site.min * Cap) \div 100 + told.need

\* The feed-in lasts (core.js, Nachteinspeisung strecken): in a night whose
\* outlook and times stay as they are, a feed-in of five percent or more that
\* never had to go down to the minimum power comes to its target in the last
\* fifth of the window at the earliest.  NIGHT_STRETCH_FACTOR runs ahead of
\* the window's end, but the power is set anew in every cycle, from a charge
\* in whole percent and a target that moves with the hours left.  (Where the
\* battery gives the house more than the power commanded, that comes on top.)
FeedInLasts ==
    steady /\ fast /\ site.device = "cap" /\ command.why = "target"
      => 5 * ((DischargeEnd - now) % 1440) <= (DischargeEnd - DischargeStart) % 1440

\* What one slot charges at full power (a lock ends between two cycles), and
\* what the limit and the slots of the model lose in rounding.
Slack == site.rate + 200

\* Holding back never costs a full battery (core.js, Laderegelung and lokale
\* Ladesperre): on a day whose sun is no worse than what was forecast and
\* learned and shines until the deadline, the battery holds then what free
\* charging would have given it, up to 95 percent.
FullByDeadline ==
    WeekEvening # None /\ now = Deadline /\ trusted /\ ~midnight /\ told.until = None
      => charge + Slack >= Smaller(best, (TARGET_SOC * Cap) \div 100)

\* On a day as sunny as the learned profile a gloomy forecast (below the cloud
\* threshold) does not set the charge free: the battery is not full before
\* noon (core.js, Sonnenprofil and Sicherheitsnetz).
NotFullByNoon ==
    now = 720 /\ watched /\ plan.profile # NoHours => Soc < TARGET_SOC

=============================================================================

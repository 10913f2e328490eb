---------------------------- MODULE ChargeWindow ----------------------------
(***************************************************************************)
(* The day's times on their way from the energy forecast of the community  *)
(* to the control rule: the platform's queries over the forecast           *)
(* (lib/server/gateway-data.js), the endpoint ladefenster/v1 that makes     *)
(* them a site's own, api/ladefenster.js that writes the answer into the   *)
(* items one by one, and the control rule that reads the times first and    *)
(* their date later.                                                       *)
(*                                                                         *)
(* Times are minutes since midnight, Slot i is the quarter hour from 15*i. *)
(* The forecast is constant over an hour; generation and consumption are in *)
(* 100 Wh per quarter hour, powers in 100 W.                               *)
(***************************************************************************)
EXTENDS Integers, Sequences, FiniteSetsExt

CONSTANTS
    DAYS,       \* the days of the forecast run, a sequence of [gen, cons] by hour
    SCENES,     \* which days follow, and for which site, a sequence: see Begin
    HOURS,      \* bound of the model: the hours of a day that are looked at
    MAX_CUTS    \* bound of the model: scripts that openHAB does not finish

ASSUME ChargeWindowAssumption ==
    /\ HOURS \subseteq 0..23 /\ HOURS # {} /\ MAX_CUTS \in Nat
    /\ DAYS \in Seq([gen : [0..23 -> Nat], cons : [0..23 -> Nat]])
    /\ DOMAIN SCENES \subseteq Nat \ {0}
    /\ \A k \in DOMAIN SCENES :
          /\ \A day \in 1..2 : SCENES[k].days[day] \in DOMAIN DAYS \cup {-1}   \* None: no forecast
          /\ SCENES[k].site \in [kwh : Int, rate : Int, soc : Int]
          /\ SCENES[k].socs \subseteq 0..100

VARIABLES
    scene,      \* the days and the site at hand, 0 before Begin
    clock,      \* day and hour; the rules of minute 50 run next
    items,      \* the items of the window, each with the fetch it is from
    answer,     \* the answer being written, and how far it is
    cut,        \* the last writing script did not come to its end
    reading,    \* the times a running cycle has read
    used,       \* what the last cycle took for its plan
    cuts        \* see MAX_CUTS

windowVars == <<scene, clock, items, answer, cut, reading, used, cuts>>

BUFFER == 120       \* FULL_BUFFER_MIN
LATEST == 14 * 60   \* LATEST_END_MIN
None == -1          \* null, and '-' in an item

Slot == 0..95
Gen(d, i) == DAYS[d].gen[i \div 4]
Cons(d, i) == DAYS[d].cons[i \div 4]
Surplus(d, i) == Gen(d, i) - Cons(d, i)
Covered(d, i) == Gen(d, i) >= Cons(d, i)

Smaller(a, b) == IF a < b THEN a ELSE b
Larger(a, b) == IF a > b THEN a ELSE b
First(S) == IF S = {} THEN None ELSE 15 * Min(S)   \* min(ts_local), null of no row

-----------------------------------------------------------------------------
(***************************************************************************)
(* Platform: what the forecast of day d says.                              *)
(***************************************************************************)

\* runMaxGeneration: the run holds all days.
RunMax == Max({Gen(d, i) : d \in DOMAIN DAYS, i \in Slot})

\* todayChargeWindow: the first slot of the day, from three on, in which the
\* community covers itself ...
Vormittag(d) == First({i \in Slot : i >= 12 /\ Covered(d, i)})

\* ... the window from the first sun worth it ...
WindowStart(d) ==
    First({i \in Slot : 20 * Gen(d, i) > Max({Gen(d, j) : j \in Slot})})

\* ... to the midday peak of the surplus, not after 14:00.
CommunityEnd(d) ==
    LET peak == Max({Surplus(d, i) : i \in Slot})
        high == {i \in Slot : i >= 12 /\ 4 * Surplus(d, i) >= 3 * peak}
        top  == {i \in Slot : Surplus(d, i) = peak}
    IN  IF Vormittag(d) = None THEN None
        ELSE IF peak <= 0 THEN Smaller(Vormittag(d), LATEST)
        ELSE Smaller(Smaller(Larger(Vormittag(d), First(high)), First(top)), LATEST)

\* crossoverEnd of the two queries below: the end of the last slot that is
\* covered, None without one; the battery is to be full BUFFER before.
EveningCrossover == [d \in DOMAIN DAYS |->
    LET covered == {i \in Slot : Covered(d, i)}
    IN  IF covered = {} THEN None ELSE 15 * Max(covered) + 15]

Deadline(d) == EveningCrossover[d] - BUFFER

\* Slots whose sun still counts for the evening.
BeforeDeadline(d) == {i \in Slot : 15 * i + 15 <= Deadline(d)}

\* The generation from slot i to midnight.
SunTable == [d \in DOMAIN DAYS |->
    LET hours[h \in 0..24] == IF h = 24 THEN 0 ELSE 4 * DAYS[d].gen[h] + hours[h + 1]
    IN  [i \in 0..96 |-> IF i = 96 THEN 0 ELSE hours[i \div 4] - (i % 4) * Gen(d, i)]]

SunFrom(d, i) == SunTable[d][i] - SunTable[d][Deadline(d) \div 15]

\* Mutant: the day is reckoned to the evening crossover itself.
SufficesUnbuffered(d, i, site) ==
    25 * site.rate * SunTable[d][i] >= 13 * RunMax * site.kwh * Larger(0, 95 - site.soc)

\* cumKwh >= neededKwh: the site charges at its rate (100 W) times the share of
\* the best slot, up to 95 % of its kWh, with 30 % to spare.
Suffices(d, i, site) ==
    25 * site.rate * SunFrom(d, i) >= 13 * RunMax * site.kwh * Larger(0, 95 - site.soc)

\* individualChargeWindowEnd
IndividualEnd(d, site) ==
    LET last == {i \in BeforeDeadline(d) : Suffices(d, i, site)}
    IN  IF EveningCrossover[d] # None /\ last # {}
        THEN Smaller(15 * Max(last), LATEST) ELSE None

\* chargeFactorsToday: the deadline, with the shares of the hours that are left
\* until then (what the core makes of the shares is module Planner).
Factors(d, hour) ==
    IF EveningCrossover[d] # None /\ (\E h \in hour..23 : 60 * h < Deadline(d))
    THEN Deadline(d) ELSE None

\* fleetDischargeKw in 100 W: the sites that reported in the last hour with main
\* switch and discharge on, each with the limit its own core reckons with.
FleetPower(fleet) ==
    MapThenSumSet(
        LAMBDA s : Smaller(50, IF s.dynamic /\ s.kwh \in 1..100 THEN 3 * s.kwh
                               ELSE IF s.max # None THEN s.max ELSE 30),
        {s \in fleet : s.seen /\ s.main /\ s.discharge})

\* The deficit takes in the feed-in: a quarter of the consumption, and twice the fleet.
Absorbs(d, i, power) ==
    /\ -4 * Surplus(d, i) >= Cons(d, i)
    /\ -4 * Surplus(d, i) >= 2 * power

\* Mutant: after the first such slot.
EveningFromFirst(d) == {i \in Slot : i > Min({j \in Slot : j >= 48 /\ Covered(d, j)})}

\* The slots after the last one, from noon on, in which the community covers itself.
Evening(d) == {i \in Slot : i > Max({j \in Slot : j >= 48 /\ Covered(d, j)})}

\* todayDischargeStart
DischargeStart(d, power) ==
    IF \E i \in Slot : i >= 48 /\ Covered(d, i)
    THEN First({i \in Evening(d) : Absorbs(d, i, power)}) ELSE None

\* todayDischargeEnd: from five on, the first slot that does not absorb after one that did.
DischargeEnd(d, power) ==
    LET taking == {i \in 20..47 : Absorbs(d, i, power)}
    IN  First({i \in 20..47 \ taking : taking # {} /\ i > Min(taking)})

-----------------------------------------------------------------------------
(***************************************************************************)
(* POST /api/gateway/ladefenster/v1                                        *)
(***************************************************************************)

Learned(site) == site.kwh \in 1..100 /\ site.rate \in 3..300

\* The end a site gets: its own, none before it knows itself, or the community's.
EndFor(d, site, wish) ==
    IF ~wish \/ WindowStart(d) = None \/ CommunityEnd(d) = None THEN CommunityEnd(d)
    ELSE IF /\ Learned(site)
            /\ IndividualEnd(d, site) > WindowStart(d)
            /\ IndividualEnd(d, site) >= 5 * 60
         THEN IndividualEnd(d, site) ELSE None

\* The answer to a site at a charge, on each day of each scene (the deadline of
\* the factors depends on the hour as well).
Answers == [k \in DOMAIN SCENES |-> [day \in 1..2 |-> [soc \in SCENES[k].socs |->
    LET d     == SCENES[k].days[day]
        power == FleetPower(SCENES[k].fleet)
    IN  IF d = None THEN << >>    \* 404, no forecast for today
        ELSE [start |-> WindowStart(d),
              end |-> EndFor(d, [SCENES[k].site EXCEPT !.soc = soc], SCENES[k].wish),
              date |-> day, vormittag |-> Vormittag(d),
              dischargeStart |-> DischargeStart(d, power),
              dischargeEnd |-> DischargeEnd(d, power)]]]]

-----------------------------------------------------------------------------
(***************************************************************************)
(* api/ladefenster.js and the control rule.                                *)
(***************************************************************************)

\* The order of the postUpdates.
ORDER == <<"start", "end", "date", "dischargeStart", "dischargeEnd", "vormittag", "factors">>

NoAnswer == [next |-> 0]
NoTime == [day |-> 0, hour |-> 0]
Empty == [v |-> None, at |-> NoTime]
NotReading == [on |-> FALSE]
NotUsed == [on |-> FALSE]

WindowInit ==
    /\ scene = 0 /\ clock = [day |-> 1, hour |-> 0]
    /\ items = [n \in {ORDER[k] : k \in DOMAIN ORDER} |-> Empty]
    /\ answer = NoAnswer /\ cut = FALSE
    /\ reading = NotReading /\ used = NotUsed /\ cuts = 0

\* One of the scenes of the instance: [days, site, socs, fleet, wish].
Begin ==
    /\ scene = 0 /\ scene' \in DOMAIN SCENES
    /\ UNCHANGED <<clock, items, answer, cut, reading, used, cuts>>

plan == SCENES[scene]
Today == plan.days[clock.day]

\* Minute 50: the answer to the charge reported last.  Without an answer, with
\* an error or without a forecast for today nothing is written: the clock goes on.
FetchWindow ==
    /\ scene # 0 /\ answer = NoAnswer
    /\ Today # None
    /\ \A n \in DOMAIN items : items[n].at # clock
    /\ \E soc \in plan.socs :
          answer' = [next |-> 1, soc |-> soc]
    /\ UNCHANGED <<scene, clock, items, cut, reading, used, cuts>>

\* A cycle that has begun no longer sees one answer only.
Disturbed == IF reading.on THEN [reading EXCEPT !.clean = FALSE] ELSE reading

\* Mutant: an item is left alone when the answer has no value for it.
PostedIfAny(name, value) ==
    items' = [items EXCEPT ![name] = IF value = None THEN @ ELSE [v |-> value, at |-> clock]]

\* postUpdate(name, value): '-' where the answer has no value.
Posted(name, value) == items' = [items EXCEPT ![name] = [v |-> value, at |-> clock]]

\* The next item is written.
WriteItem ==
    /\ answer # NoAnswer
    /\ LET name == ORDER[answer.next] IN
       Posted(name, IF name = "factors" THEN Factors(Today, clock.hour)
                    ELSE Answers[scene][clock.day][answer.soc][name])
    /\ answer' = IF answer.next = 7 THEN NoAnswer ELSE [answer EXCEPT !.next = @ + 1]
    /\ cut' = (cut /\ answer.next # 7)
    /\ reading' = Disturbed
    /\ UNCHANGED <<scene, clock, used, cuts>>

\* openHAB ends in the middle of its scripts; the items are persisted.
Restart ==
    /\ answer # NoAnswer /\ cuts < MAX_CUTS
    /\ answer' = NoAnswer /\ cut' = TRUE /\ reading' = NotReading /\ used' = NotUsed
    /\ cuts' = cuts + 1
    /\ UNCHANGED <<scene, clock, items>>

\* timeItemMinutes with the plausible hours of the item.
TimeIn(name, from, to) ==
    IF items[name].v \in 60 * from..60 * to - 1 THEN items[name] ELSE Empty

\* The configuration of a cycle: the times, each by itself.
ReadTimes ==
    /\ scene # 0 /\ ~reading.on
    /\ reading' = [on |-> TRUE, clean |-> answer = NoAnswer /\ ~cut,
                   start |-> TimeIn("start", 4, 12), end |-> TimeIn("end", 5, 15),
                   dischargeStart |-> TimeIn("dischargeStart", 12, 24),
                   dischargeEnd |-> TimeIn("dischargeEnd", 3, 12),
                   vormittag |-> TimeIn("vormittag", 5, 15)]
    /\ used' = NotUsed
    /\ UNCHANGED <<scene, clock, items, answer, cut, cuts>>

\* readHourlyJson: the factors carry date and hour of their own.
FactorsNow ==
    LET f == items["factors"] IN
    IF f.v # None /\ f.at.day = clock.day /\ clock.hour - f.at.hour < 3 THEN f ELSE Empty

\* Later in the cycle, the date of the window: chargeLockDateValid.
Decide ==
    /\ reading.on
    /\ used' = IF items["date"].v = clock.day
               THEN [on |-> TRUE, clean |-> reading.clean, at |-> clock, start |-> reading.start,
                     end |-> reading.end, dischargeStart |-> reading.dischargeStart,
                     dischargeEnd |-> reading.dischargeEnd, vormittag |-> reading.vormittag,
                     factors |-> FactorsNow]
               ELSE NotUsed
    /\ reading' = NotReading
    /\ UNCHANGED <<scene, clock, items, answer, cut, cuts>>

\* An hour in which the rules run again: later today or tomorrow.  The scripts
\* take seconds.
Later ==
    /\ scene # 0 /\ answer = NoAnswer /\ ~reading.on
    /\ \/ \E h \in HOURS : h > clock.hour /\ clock' = [clock EXCEPT !.hour = h]
       \/ clock.day = 1 /\ clock' = [day |-> 2, hour |-> Min(HOURS)]
    /\ used' = NotUsed
    /\ UNCHANGED <<scene, items, answer, cut, reading, cuts>>

\* Bound of the model: two days.
LastHour ==
    /\ clock = [day |-> 2, hour |-> Max(HOURS)] /\ answer = NoAnswer /\ ~reading.on
    /\ UNCHANGED windowVars

WindowNext ==
    Begin \/ FetchWindow \/ WriteItem \/ Restart \/ ReadTimes \/ Decide \/ Later \/ LastHour

WindowSpec == WindowInit /\ [][WindowNext]_windowVars

-----------------------------------------------------------------------------
(***************************************************************************)
(* Properties.                                                             *)
(***************************************************************************)

\* What the platform answers, the gateway does not throw away as implausible:
\* every time is a whole quarter hour within the hours the core accepts.
WindowTypeOK ==
    /\ clock \in [day : 1..2, hour : HOURS \cup {0}]
    /\ answer.next \in 0..7 /\ cut \in BOOLEAN
    /\ \A n \in {"start", "end", "vormittag", "dischargeStart", "dischargeEnd"} :
          items[n].v = None \/ items[n].v \in {15 * i : i \in Slot}
    /\ items["end"].v <= LATEST
    /\ items["vormittag"].v \notin 0..3 * 60 - 1

UsedTimes == {used[n] : n \in {"start", "end", "dischargeStart", "dischargeEnd", "vormittag"}}

\* A cycle that no writing script crosses plans with the times of one answer,
\* and it is one of today: whatever the answer lacked is gone from the items.
\* ladefenster.js writes seven items, and only the third is the date that core.js
\* asks for; an openHAB that died in between leaves the rest for the next fetch.
TimesOfOneAnswer ==
    used.on /\ used.clean =>
        \E c \in {[used.at EXCEPT !.hour = h] : h \in 0..used.at.hour} :
            \A t \in UsedTimes \cup {used.factors} : t.v # None => t.at = c

\* The sun the site gets from a minute to the deadline, and what it needs.
Gets(d, m) ==
    LET deadline == EveningCrossover[d] - BUFFER
    IN  IF m >= deadline THEN 0
        ELSE 25 * plan.site.rate * (SunTable[d][m \div 15] - SunTable[d][deadline \div 15])
NeedsAt(soc) == 13 * RunMax * plan.site.kwh * Larger(0, 95 - soc)

\* A lock that a site of its own estimates keeps ends so early that the rest of
\* the sun fills the battery two hours before the evening, and so late that the
\* community gets all the sun before it (up to 14:00).
LockLeavesEnoughSun ==
    used.on /\ used.clean /\ plan.wish /\ used.start.v # None /\ used.start.v < used.end.v =>
        \E soc \in plan.socs :
            /\ Gets(Today, used.end.v) >= NeedsAt(soc)
            /\ used.end.v = LATEST \/ Gets(Today, used.end.v + 15) < NeedsAt(soc) \/ soc >= 95

\* Slots that take the fleet's feed-in.
Taking == [k \in DOMAIN SCENES |-> [d \in DOMAIN DAYS |->
    {i \in Slot : Absorbs(d, i, FleetPower(SCENES[k].fleet))}]]

\* The night times keep the feed-in within the community: from the start of the
\* discharge to midnight it never covers itself, at the start it takes twice what
\* the fleet gives, and up to the end of the morning every slot since the first
\* that did takes it as well.
NightFeedsTheCommunity ==
    used.on /\ used.clean =>
        LET taking == Taking[scene][Today]
        IN  /\ used.dischargeStart.v # None =>
                  /\ \A i \in used.dischargeStart.v \div 15..95 : ~Covered(Today, i)
                  /\ used.dischargeStart.v \div 15 \in taking
            /\ used.dischargeEnd.v # None =>
                  LET first == Min(taking \cap 20..47)
                  IN  /\ 15 * first < used.dischargeEnd.v
                      /\ first..(used.dischargeEnd.v \div 15) - 1 \subseteq taking
=============================================================================

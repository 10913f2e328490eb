--------------------------- MODULE ControlCycle ---------------------------
(***************************************************************************)
(* One cycle of the control rule after its reset (control/core.js): the    *)
(* guard against charging from the grid, the choice of at most one command *)
(* for the slot, and the three estimators that learn from what the command *)
(* of the previous cycle did: battery capacity, house load and peak charge *)
(* power.  All of them keep their state in items, with the time of their   *)
(* last run, and start over after a gap.  What the plan of the charge      *)
(* regulation says is an input (module ChargePwm computes it).             *)
(***************************************************************************)
EXTENDS Integers

CONSTANTS
    SLOT,      \* Stromkreis_SLOT_MINUTES
    MAX_GAP,   \* the *_MAX_GAP_MIN of guard and estimators (all 12)
    TRIGGER,   \* NETZLADE_TRIGGER_CYCLES
    GAPS,      \* minutes from one cycle to the next
    EXPIRES    \* TRUE: a command ends by itself after SLOT minutes (GEN24),
               \* FALSE: it stands until the reset of the next cycle

ASSUME CycleAssumption ==
    /\ SLOT \in Nat \ {0} /\ MAX_GAP \in Nat /\ TRIGGER \in Nat \ {0}
    /\ GAPS \subseteq {g \in Nat : g >= SLOT}
    /\ EXPIRES \in BOOLEAN

VARIABLES
    path,        \* the way the last cycle took
    commands,    \* the commands the last cycle sent after its reset, confirmed
                 \* or not
    gridSetting, \* the device's own setting charges the battery from the grid
    count,       \* zaehler: cycles in a row with net charging from the grid
    countAge,    \* minutes since count was written
    free,        \* slot.frei: the last planned slot was free
    freeAge,     \* minutes since it was written
    capAge,      \* minutes since the capacity measurement ran, or NoRun
    capPower,    \* schrittW > 0: power commanded at that run
    loadAge,     \* minutes since the house load measurement ran, or NoRun
    exposed,     \* history: armed cycles in a row that saw grid charging and
                 \* did not lock
    sample,      \* history: the charge power sample of the last cycle
    stood,       \* history: minutes a discharge stood since capAge was zero
    overcredit,  \* history: the capacity measurement counted idle minutes
    mixed,       \* history: a discharge stood since the load measurement began
    booked       \* history: what the last cycle booked as house load

guardVars == <<count, countAge, exposed>>
rateVars  == <<free, freeAge, sample>>
capVars   == <<capAge, capPower, stood, overcredit>>
loadVars  == <<loadAge, mixed, booked>>
vars == <<path, commands, gridSetting, guardVars, rateVars, capVars, loadVars>>

NoRun == -1
Old   == MAX_GAP + 1
Ages  == NoRun..Old

SmallerOf(a, b) == IF a < b THEN a ELSE b

Older(a, gap) == IF a = NoRun THEN NoRun ELSE SmallerOf(a + gap, Old)
Fresh(a, gap) == a # NoRun /\ a + gap <= MAX_GAP

TypeOK ==
    /\ path \in {"start", "off", "paused", "guard", "regulation", "window",
                 "discharge", "house", "night", "outside"}
    /\ commands \subseteq {"lock", "limit", "discharge"}
    /\ gridSetting \in BOOLEAN
    /\ count \in 0..TRIGGER /\ countAge \in Ages
    /\ free \in BOOLEAN /\ freeAge \in Ages
    /\ capAge \in Ages /\ capPower \in BOOLEAN
    /\ loadAge \in Ages
    /\ exposed \in 0..TRIGGER
    /\ sample \in {"none", "clean", "throttled"}
    /\ stood \in 0..Old /\ overcredit \in BOOLEAN
    /\ mixed \in BOOLEAN
    /\ booked \in {"none", "pure", "mixed"}

Init ==
    /\ path = "start" /\ commands = {} /\ gridSetting \in BOOLEAN
    /\ count = 0 /\ countAge = NoRun /\ exposed = 0
    /\ free = FALSE /\ freeAge = NoRun /\ sample = "none"
    /\ capAge = NoRun /\ capPower = FALSE /\ stood = 0 /\ overcredit = FALSE
    /\ loadAge = NoRun /\ mixed = FALSE /\ booked = "none"

-----------------------------------------------------------------------------
\* Minutes a command of kind c stood on the device until this cycle's reset,
\* and whether it still stood at the end, when the meters are read.
StoodFor(c, gap) ==
    IF c \notin commands THEN 0
    ELSE IF EXPIRES THEN SmallerOf(gap, SLOT) ELSE gap
StandsAtReading(c, gap) == c \in commands /\ (~EXPIRES \/ gap = SLOT)

(***************************************************************************)
(* Netzladeschutz.  reading: what the two power items show; "charging" is  *)
(* net charging from the grid, which a lock or a discharge that reached    *)
(* the device prevents.  armed: the guard is on and the state of       *)
(* charge allows a lock.                                                   *)
(***************************************************************************)
Readings(gap) ==
    {"missing"} \cup
    (IF gridSetting THEN {"charging"} ELSE {"none"}) \cup
    (IF \E c \in {"lock", "discharge"} : StandsAtReading(c, gap)
     THEN {"none"} ELSE {})

CountAfter(reading, gap) ==
    IF reading = "charging"
    THEN SmallerOf((IF Fresh(countAge, gap) THEN count ELSE 0) + 1, TRIGGER)
    ELSE 0

\* Mutant: one cycle late.
MutBlocks(reading, armed, gap) ==
    /\ armed
    /\ reading = "charging"
    /\ Fresh(countAge, gap) /\ count = TRIGGER

Blocks(reading, armed, gap) ==
    /\ armed
    /\ reading = "charging"
    /\ CountAfter(reading, gap) = TRIGGER

Guard(reading, armed, gap) ==
    /\ count' = CountAfter(reading, gap)
    /\ countAge' = IF reading = "charging" \/ count > 0 THEN 0
                   ELSE Older(countAge, gap)
    /\ exposed' =
         IF reading = "charging" /\ armed /\ ~Blocks(reading, armed, gap)
         THEN SmallerOf((IF gap <= MAX_GAP THEN exposed ELSE 0) + 1, TRIGGER)
         ELSE 0

-----------------------------------------------------------------------------
(***************************************************************************)
(* The estimators.                                                         *)
(***************************************************************************)

\* Mutant: a slot the guard locked counts as free.
MutSlotFree(blocked, plan, window) ==
    /\ plan \notin {"lock", "limit", "crossover"}
    /\ ~(plan = "none" /\ window)

\* sampleChargeRate: a sample needs this and the previous slot free.
SlotFree(blocked, plan, window) ==
    /\ ~blocked
    /\ plan \notin {"lock", "limit", "crossover"}
    /\ ~(plan = "none" /\ window)

SampleChargeRate(isFree, gap) ==
    /\ free' = isFree
    /\ freeAge' = 0
    /\ \/ sample' = "none"
       \/ /\ isFree /\ free /\ Fresh(freeAge, gap)
          /\ sample' = IF commands \cap {"lock", "limit"} = {}
                       THEN "clean" ELSE "throttled"

\* updateCapacityEstimate: ok is the answer to the discharge command, soc what
\* the state of charge did since the measurement began.
UpdateCapacity(ok, soc, gap) ==
    LET credit == IF capPower THEN capAge + gap ELSE 0
        given  == stood + StoodFor("discharge", gap)
        restart == ~ok \/ ~Fresh(capAge, gap) \/ soc = "rose"
    IN  /\ capAge' = 0
        /\ capPower' = ok
        /\ stood' = 0
        /\ overcredit' = (~restart /\ (overcredit \/ credit > given)
                                   /\ soc # "sampled")

\* The measurement does not run in this cycle.
CapacityIdle(gap) ==
    /\ capAge' = Older(capAge, gap)
    /\ stood' = SmallerOf(stood + StoodFor("discharge", gap), Old)
    /\ UNCHANGED <<capPower, overcredit>>

\* sampleHouseLoad, at the end of a cycle of the discharge window: soc what
\* the state of charge did since the stretch began.  A new night starts a new
\* stretch like a state of charge that rose.
NewStretch == loadAge' = 0 /\ mixed' = FALSE /\ booked' = "none"

MeasureLoad(soc, gap) ==
    LET dirty == mixed \/ StoodFor("discharge", gap) > 0
    IN  \/ (soc = "rose" \/ ~Fresh(loadAge, gap)) /\ NewStretch
        \/ /\ soc = "fell_little" /\ Fresh(loadAge, gap)
           /\ loadAge' = 0 /\ mixed' = dirty /\ booked' = "none"
        \/ /\ soc = "fell" /\ Fresh(loadAge, gap)
           /\ loadAge' = 0 /\ mixed' = FALSE
           /\ booked' = IF dirty THEN "mixed" ELSE "pure"

\* Mutant: the stretch goes on.
MutClearLoad(gap) ==
    /\ loadAge' = Older(loadAge, gap) /\ booked' = "none"
    /\ mixed' = (mixed \/ StoodFor("discharge", gap) > 0)

\* A discharge command breaks the stretch off.  (sampleHouseLoad looks at the
\* capacity first and leaves the stretch alone where it is unknown: none has begun
\* then, as a capacity once known stays known.)
ClearLoad(gap) == loadAge' = NoRun /\ mixed' = FALSE /\ booked' = "none"

LoadIdle(gap) ==
    /\ loadAge' = Older(loadAge, gap)
    /\ mixed' = (loadAge # NoRun /\ (mixed \/ StoodFor("discharge", gap) > 0))
    /\ booked' = "none"

Soc == {"rose", "fell_little", "fell"}

\* The house load is measured in the discharge window once the capacity is
\* known and the battery is not nearly empty.
HouseLoad(gap) ==
    \/ \E soc \in Soc : MeasureLoad(soc, gap)
    \/ LoadIdle(gap)

-----------------------------------------------------------------------------
(***************************************************************************)
(* The ways through a cycle.  plan: what the charge regulation says        *)
(* ("none": not in charge); window: inside the classic lock window.        *)
(***************************************************************************)
\* Main switch off, or paused: the cycle ends after its reset.
Rests(gap, p) ==
    /\ path' = p /\ commands' = {}
    /\ countAge' = Older(countAge, gap) /\ exposed' = 0
    /\ freeAge' = Older(freeAge, gap) /\ sample' = "none"
    /\ CapacityIdle(gap) /\ LoadIdle(gap)
    /\ UNCHANGED <<gridSetting, count, free>>

\* The steps every steering cycle takes before it chooses a command.
Steers(reading, armed, plan, window, gap) ==
    /\ Guard(reading, armed, gap)
    /\ SampleChargeRate(SlotFree(Blocks(reading, armed, gap), plan, window), gap)
    /\ UNCHANGED gridSetting

\* The guard has locked: the regular control is suspended.
GuardCycle(gap) ==
    \E reading \in Readings(gap) :
        /\ Blocks(reading, TRUE, gap)
        /\ Steers(reading, TRUE, "none", FALSE, gap)
        /\ path' = "guard" /\ commands' = {"lock"}
        /\ CapacityIdle(gap) /\ HouseLoad(gap)

\* handleChargeRegulation.
RegulatedCycle(gap) ==
    \E reading \in Readings(gap), armed \in BOOLEAN,
       plan \in {"free", "lock", "limit", "crossover"} :
        /\ ~Blocks(reading, armed, gap)
        /\ Steers(reading, armed, plan, FALSE, gap)
        /\ path' = "regulation"
        /\ commands' = CASE plan = "limit" -> {"limit"}
                         [] plan = "free"  -> {}
                         [] OTHER          -> {"lock"}
        /\ CapacityIdle(gap) /\ HouseLoad(gap)

\* handleChargeLock: clear weather locks, overcast or no forecast does not.
WindowCycle(gap) ==
    \E reading \in Readings(gap), armed, clear \in BOOLEAN :
        /\ ~Blocks(reading, armed, gap)
        /\ Steers(reading, armed, "none", TRUE, gap)
        /\ path' = "window"
        /\ commands' = IF clear THEN {"lock"} ELSE {}
        /\ CapacityIdle(gap) /\ HouseLoad(gap)

\* handleForcedDischarge sends its command.
DischargeCycle(gap) ==
    \E reading \in Readings(gap), armed, ok \in BOOLEAN,
       soc \in {"fell", "rose", "sampled"} :
        /\ ~Blocks(reading, armed, gap)
        /\ Steers(reading, armed, "none", FALSE, gap)
        /\ path' = "discharge" /\ commands' = {"discharge"}
        /\ UpdateCapacity(ok, soc, gap)
        /\ ClearLoad(gap)

\* ... or leaves the battery to the house for one cycle (Hausvorrang),
HouseFirstCycle(gap) ==
    \E reading \in Readings(gap), armed \in BOOLEAN :
        /\ ~Blocks(reading, armed, gap)
        /\ Steers(reading, armed, "none", FALSE, gap)
        /\ path' = "house" /\ commands' = {}
        /\ UpdateCapacity(FALSE, "fell", gap)
        /\ HouseLoad(gap)

\* ... or does not discharge: reserve or target reached, overcast without an
\* estimate, invalid settings.
NightCycle(gap) ==
    \E reading \in Readings(gap), armed \in BOOLEAN :
        /\ ~Blocks(reading, armed, gap)
        /\ Steers(reading, armed, "none", FALSE, gap)
        /\ path' = "night" /\ commands' = {}
        /\ CapacityIdle(gap) /\ HouseLoad(gap)

\* Outside every window, or discharging is switched off.
OutsideCycle(gap) ==
    \E reading \in Readings(gap), armed \in BOOLEAN :
        /\ ~Blocks(reading, armed, gap)
        /\ Steers(reading, armed, "none", FALSE, gap)
        /\ path' = "outside" /\ commands' = {}
        /\ CapacityIdle(gap) /\ HouseLoad(gap)

\* The member changes how the device itself charges.
MemberSetsDevice ==
    /\ gridSetting' = ~gridSetting
    /\ UNCHANGED <<path, commands, guardVars, rateVars, capVars, loadVars>>

Cycle(gap) ==
    \/ \E p \in {"off", "paused"} : Rests(gap, p)
    \/ GuardCycle(gap)
    \/ RegulatedCycle(gap)
    \/ WindowCycle(gap)
    \/ DischargeCycle(gap)
    \/ HouseFirstCycle(gap)
    \/ NightCycle(gap)
    \/ OutsideCycle(gap)

Next == MemberSetsDevice \/ \E gap \in GAPS : Cycle(gap)

Spec == Init /\ [][Next]_vars

-----------------------------------------------------------------------------
\* Grid charging that goes on while the guard is armed is locked in its
\* TRIGGER-th cycle at the latest, whatever else the cycles do and however
\* many of them saw it unarmed before (Netzladeschutz).
GuardEngages == exposed < TRIGGER

\* Peak charge power is learned only from readings the control did not
\* throttle: the power item still shows the previous slot (sampleChargeRate).
SamplesUnthrottled == sample # "throttled"

\* What is booked as house load never contains a minute in which the battery
\* was discharged into the grid (sampleHouseLoad, clearHouseLoadMeasurement).
HouseLoadPure == booked # "mixed"

\* The estimators learn from no slot that a command distorted.
SamplesPure == SamplesUnthrottled /\ HouseLoadPure

\* "Die seit dem letzten Lauf entnommene Energie (damals kommandierte Leistung
\* x Zeit)": the capacity measurement counts no minute without a command.
CapacityCountsCommanded == ~overcredit
=============================================================================

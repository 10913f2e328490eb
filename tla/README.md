# A model of stromkreis

stromkreis is a platform for Austrian energy communities. It imports the
community's metered energy, forecasts when the community has a surplus, and
steers members' home batteries through small gateways (a Raspberry Pi with
openHAB) so that they charge and discharge when it helps the community. This
directory holds TLA+ models of the parts of it whose correctness depends on
time, on failure and on several actors, the TLC runs that check them and the
TLAPS proofs about them. `PROJECT.json` is the index: which definition stands
for which lines, what every run checks, the hazards and where they bite.

Contents: 1 inventory, 2 plan, 3 the modules, 4 the runs, 5 fairness, 6 proofs,
7 disagreements found, 8 what is not modelled, 9 how to run.

## 1. Inventory

### The parts and how they meet

| part | where | what it is |
| --- | --- | --- |
| gateway control core | `gateway/openhab/control/core.js` | an openHAB rule, one cycle every five minutes, that decides what the battery does |
| adapters | `gateway/openhab/inverters/*/adapter.js` | `gwReset`, `gwPreventCharge`, `gwForceDischarge` ... for five families of inverters |
| fail-safe | `10-install-failsafe.sh` (generates `stromkreis-failsafe`) | a root script, started every minute and at boot, that takes commands back when the core is dead |
| gateway API scripts | `gateway/openhab/api/*.js` | fetch crossover, charge window and clouds from the platform into items; push the status |
| gateway set-up | `platform/static/gateway/install.sh`, `gateway/openhab/setup/*`, `stromkreis-firstboot.sh` | zero-touch installation and self-update |
| platform | `platform/src` (SvelteKit, Postgres) | sites, provisioning, pages of operator and member, API for gateways, logins |
| pipeline | `pipeline/stromkreis_pipeline` (Python) | one worker that imports energy data from EEG-Faktura in jobs, and forecasts |
| cloud account sync | `deploy/openhab-cloud/cloud-sync.js` | takes open accounts from the platform to openHAB Cloud |
| maintenance network | `deploy/wireguard/entrypoint.sh` | reconciles WireGuard peers with the platform |

The gateway calls the platform over HTTPS (redemption of a code, reports of
phases, status, forecasts); nothing calls the gateway except maintenance over
the tunnel. Platform and worker share Postgres tables; job rows are their queue.
On a gateway the core, the binding, the root scripts and the API scripts share
openHAB items and three files under the state directory.

### State, operations and hard behaviour, part by part

**Fail-safe and main switch.** State: the member's switch, the standby marker,
the heartbeat, the stamp of the last reset, what stands on the inverter, writes
queued in the Modbus binding. Operations: the first steps of a cycle (reset,
marker, heartbeat, command), the timer's run, the boot reset. Hard: two writers
without a common lock, a crash between any two steps, an answer that says only
that a write was queued, ages compared against periods. Correct when a command
never outlives its writer by more than the period, and when the device is left
to the member while the switch is off.

**Charge regulation.** State: the debt of the pulse width modulation, the lock
and the slots it has left, the time of the last decision. Hard: hysteresis,
missed cycles, the crossover lock that writes the same state, anti-windup.
Correct when locked slots follow the share asked for, within a bound, and every
lock ends.

**Control cycle.** State: counters and estimators (grid guard, feed-in counter,
peak power, capacity, house load), the command that stands. Hard: about ten ways
through one cycle, each touching some of the estimators, and gaps between
cycles; a sample is only meaningful for what was commanded when it was measured.

**Planning and estimators.** State: the time items of the day, the forecast
items, what was learned (capacity, charging power, night load, sun profile), the
charge of the battery. Operations: a plan every five minutes - charge freely, lock,
limit, discharge with a power, or nothing - and one step of every estimator. Hard:
times of day that wrap and that change at midnight and with every fetch, forecasts
that are old, missing or wrong, a charge in whole percent, cycles at uneven gaps.
Correct when the house has its energy until the morning, the battery is full in the
evening where the sun allows it, and nothing is learned that was not measured.

**Adapters.** State: registers of the inverter, the items that show them, writes
on their way. Operations: reset, charge lock, limit, forced discharge, each of one
to many registers. Hard: writes arrive one after the other and may be lost, items
are predicted before they are polled, some writes are left out when the item already
shows the value. Correct when the inverter does what the core was told, and nothing
else on the way there.

**Times, clouds and counters between platform and gateway.** State: items of a
gateway, written one by one by `ladefenster.js`, `cloud_forecast.js` and
`crossover.js`, each with its own age limit; a counter that travels the other way.
Operations: the queries of `gateway-data.js`, the endpoints, the scripts, the
reading in `core.js`. Hard: a cycle reads between two writes, a script is cut short,
a fetch has half an answer, days change at noon and at midnight, a new card resets
the counter. Correct when a plan uses what belongs together and is young enough.

**EEG-Faktura import.** State: job rows (phase, progress, claim), measurements,
the worker process. Operations: login and maintenance insert jobs, the worker
claims, imports master data, determines a window, requests and stores chunks,
saves progress, finishes, fails or releases. Hard: crash, stop or restart between
any two commits, late and corrected deliveries, two inserters.

**Gateway set-up.** State: the site's code, token and phase; on each device the
card, `gateway.conf`, the marker, the installed package and up to two runs of
`install.sh` at once. Hard: lost answers and reports, an old gateway that is
still alive, an old card, exit 75 and optional steps.

**Cloud accounts.** State: the account's state, password and identity in the
site's row, the copies in the cloud's database, the round of `cloud-sync` and what
it was given. Operations: redemption, reset, round (fetch, two saves, report).
Hard: values given to a round change under it, a round is half done, killed or
its report is lost, two redemptions cross, the key changes. Correct when
"created" means that the cloud has the row's values and nothing stays open.

**SD card image, app links, remote actions.** Each a few fields of a row, of
files or of process memory, touched by a request handler in several awaits and by a
second request, a restart or the gateway itself. Hard: a value read before an await
and used after it, files written one after the other, a lock in a variable. Correct
when what the operator is shown is true, a link is worth its credentials once, and
a key that was reported stays.

**WireGuard, rate limits, logins, pages, figures, deployment.** Mostly queries,
arithmetic, display and loops without memory.

The hazards of all of these are listed with their lines in `PROJECT.json`.

## 2. Plan

The order was what matters most for people and batteries, then what is hardest to
test:

1. `FailSafe` with `Ownership` (abstract) and `FailSafeProofs`
2. `ChargePwm`
3. `ControlCycle` with `ControlCycleProofs`
4. `SyncJobs` with `SyncJobsProofs`
5. `GatewaySetup`, proved about in `GatewayProofs`
6. `CloudAccounts`, proved about in `PlatformProofs`
7. `Adapters` with `AdaptersProofs`, the registers behind the two words, factory and
   window, that FailSafe has for what stands on an inverter
8. `Estimators` and `Planner`, what the cycles of `ControlCycle` learn and want; the
   first is proved about in `ControlCycleProofs`, the second in `PlannerProofs`
9. `ChargeWindow`, `CloudOutlook`, `CrossoverTimes`, `FeedInCounter`, the way of
   the times, the weather and the counter between platform and gateway; with 2 and 5
   the subject of `GatewayProofs`
10. `ImageBuild`, `AppLinks`, `RemoteActions` with `PlatformProofs`
11. `SetFacts`, lemmas on minima, bounds and sums that these proofs share

All of these are done. Of the safety properties the runs check, two of `Planner`
are left to model checking, because they do not hold of every site (6).

Compositions: `Ownership` is the abstract specification of `FailSafe`; `ChargeWindow`,
`CloudOutlook`, `CrossoverTimes` and `FeedInCounter` each compose platform, script
and control rule over the items between them. `ControlCycle` takes what the
modulation of `ChargePwm` and the plans of `Planner` decide as free choices, and
`Planner` takes what `Estimators` learn as inputs: the product of two of them is out
of reach of model checking, and a free choice allows more than the other module does.

## 3. The modules

**FailSafe** (`core.js`, `10-install-failsafe.sh`, the adapters' contract), for a
gateway with a Modbus inverter. Only there do timer and boot reset exist: on a GEN24,
whose schedules run out by themselves, and on profiles without a verified fail-safe,
the installation removes them (`10-install-failsafe.sh:101-106`).
Actors: the control rule, the Modbus binding, the root script, the member.
A cycle is not one step: `CycleOff`/`CycleOn` read the switch, then `OffReset`,
`OffTouch` or `OnReset`, `RemoveMarker`, `TouchHeartbeat`, `Command` follow, and
the script, a crash or the member may come between any two. The script's own
check and reset are separate steps (`TimerIntervenes`, `TimerReset`), as in the
shell script. An adapter's `ok` means what it means in `gwReset` of these profiles:
every item was there and no `sendCommand` threw. The write is in `queue` then, and the
binding carries it or gives it up (`BindingWrites`); a device that does not answer may
still have taken it. `shell` says whether `gwShell` works: `rm -f` and `touch` run in
one shell, each of them may fail or run into its five seconds, and the touch follows
whether or not the rm worked. Ages are minutes and saturate at the period they are
compared with. Three variables are history: `standing`, the minutes a window has stood
on an inverter that could be reached; `missed`, a reset was lost since a write last
landed; `stale`, a cycle with the switch on left the marker where it was.

**Ownership** states the promise on one page: while the device is being left, a reset
lands that was decided before; afterwards only the member commands it. Two exceptions are
part of it, and both need a fault: a window may stay behind, and a reset may be sent
again. FailSafe implements it with `leaving` for anything decided before that is
still on its way, and with `fault <- missed \/ stale \/ ~shell`.

**ChargePwm** (`chargeRegulationPlan`, crossover lock). Units are tenths of a
slot; `Plan`, `Crossover`, `NoPlan` are the three ways a cycle treats the state.
A gap above `MAX_GAP` forgets everything, as in the code. `owed` and `run` are
history: what the locked slots really paid, how many were locked in a row.

**ControlCycle** (the rest of a cycle in `core.js`). One action per way through
the cycle (`GuardCycle`, `RegulatedCycle`, `WindowCycle`, `DischargeCycle`,
`HouseFirstCycle`, `NightCycle`, `OutsideCycle`); each says which estimators it
feeds, which it clears and which it leaves standing, because that is where the
code is delicate. Readings and plans are free choices. `EXPIRES` separates
schedules that run out by themselves from registers that stand. The main switch
and the pause take no part here.

**SyncJobs** (`worker.py`, `sync.py`, `load.py`, `eegfaktura-login.js`). Time is
counted in intervals of two weeks, the overlap is one. One action per commit or
request: what is lost in a crash is what was not committed. `source` and
`stored` are versions of the delivered and the imported values, so a correction
is a higher version. A login looks for open jobs and inserts its own in two statements
(`LoginCounts`, `LoginInserts`). Assumption, stated in the module: nothing is delivered
or corrected later than the overlap after the newest interval.

**GatewaySetup** (`gateway-provision.js`, the provision endpoints, the
operator's actions, `install.sh`, `install-gateway.sh`, `00-provision.sh`,
`02b-install-things.sh`, `09-install-updater.sh`, `stromkreis-firstboot.sh`). One
site, its row, and devices that each have two units, firstboot and update, which
may run at the same time because only the update takes the lock. Codes, tokens
and packages are fresh or not; nothing is numbered, so the operator may renew
codes, flash cards and publish packages without a bound. `Exchange` re-issues the
token before the answer leaves, and the answer may be lost; every report may be
lost or come with a dead token (`Report`). Step 02b is taken apart (`Address`,
`Password`, `Credentials`, `Skips`) because its exits 0, 75 and 1 differ; the
other steps succeed, or fail with `Fails`, which is also the power cut. `calm`
marks the moment from which nothing goes wrong any more; only liveness uses it.

**CloudAccounts** (`gateway-provision.js`, `cloud_passwort_neu`, the two sync
endpoints, `cloud-sync.js`, `cloud-sync.sh`). One site's row and what the cloud's
database has. Of a password or identity only the age counts: current or older
than the row's; when the row changes, what others hold is `Aged`. A redemption
reads the row and writes it later, so two can be under way. A round is given the
values (`Fetch`) or turns an unreadable account into an error (`Reject`), saves
the password and then the identity, and reports; a save that throws may have
taken effect, a success whose answer is lost is reported again as a failure, and
`timeout 300` may end the round anywhere. `overtaken` is history: the row changed
while a round was under way.

**Adapters** (`fronius-snapinverter`, `deye`, `sigenergy`, `victron`;
`adapter.js`). `adapter` picks one of the profiles. `device` are the registers,
`item` what openHAB believes of them, `queue` the writes handed to the binding. A
cycle resets (`StartCycle`) and commands (`Request`); the binding carries one write
at a time (`Land`) or loses it (`Lose`), openHAB predicts the written values (`Predict`)
and the poller copies a register back (`Poll`). `EffectsOn` says
what the inverter does with the registers it has, as the heads of the adapters
describe them, so that every state between two writes has a meaning. `faulty` counts
the cycles in which a lost write may still show; `missed` remembers that Deye's "write
only when it differs" has skipped a switching on. Sigenergy's limits go up to the plant's
maximum, or to the fallback where that cannot be read (`PvReleasedW`); what a Victron is
told to feed in ends at 32 kW (`VictronApplied`).

**Estimators** (`updateCapacityEstimate`, `updateChargeRateSample`,
`updateHouseLoadEstimate`, `updateSunProfile` and what they call). Beside each estimate runs
the physical truth (`charge`, `running`, `lauf.seen`), and the properties compare the
two. `topic` says which estimator a behaviour exercises: they share no state. Charges
are rounded down to whole percent before an estimator sees them (`ShownSoc`), which is where
the tolerances in the properties come from: units are chosen so that no energy is
rounded where the code does not round. Cycles that do not measure are actions of their
own: `LoadCleared` ends a stretch of the night, `LoadSkipped` (a charge below
`HOUSE_LOAD_MIN_SOC`) only lets its time pass.

**Planner** (`core.js` from the configuration to the dispatch). One action is a
cycle of five minutes: decide (`Decision`), then sun, house and battery move the
charge, then the clock. The definitions follow the functions of the code: plausible
ranges (`TimeOf`), sunny hours (`Weight`, `ForecastRest`, `ObservedSlots`),
`Plan` for `chargeRegulationPlan`, `ForcedDischarge` for `handleForcedDischarge`,
`Reserve` and `TargetSoc` for the night. `Drawn` distinguishes what a command means on
the three kinds of inverters. Fetches may bring another outlook, and the times change
at midnight. Adapters here have `gwLimitCharge`; for the others the same target power
goes into `ChargePwm`. `charge` is the battery, `best` the one that nothing ever held
back, `spent` what the big consumer took. The properties compare them up to what a step
may miss by: the last slot before the target may feed one slot at the hard limit too
much, and the reserve is rounded to tenths of a kWh (`Overshoot`); a lock ends between
two cycles, and a limit is a number of 100 W (`Slack`).

**ChargeWindow** (`gateway-data.js`, `ladefenster/v1`, `ladefenster.js`, `core.js`).
The queries over the forecast run are functions of a day of generation and
consumption; the endpoint chooses the site's own end, none, or the community's;
`WriteItem` writes the answer item by item, and a cycle reads the times (`ReadTimes`)
and, hundreds of lines later, their date and what else is left (`Decide`). `at` is
the fetch an item is from.

**CloudOutlook** (`gateway-data.js`, `wolken/v1`, `cloud_forecast.js`, `core.js`). A
forecast is told apart by the day it is about and the hour it was fetched. An hour
has the parts before, at and after the fetch, since a cycle may fall in any.

**CrossoverTimes** (`weeklyCrossover`, `crossover/v1`, `crossover.js`, `core.js`). Steps
are days, values are ages: how old is the youngest measured day behind an item.

**FeedInCounter** (`core.js`, `status_push.js`, `status/v1`, `recordCounterSnapshot`,
`batteryGridFeedIn`). The counter in slots of full power, full and lean pushes that may
be lost, one reading a day, the sum of a week, a new card. A reading is recorded in two
statements: the baseline of the day before, where there is none (`SetBaseline`), then the
day's own (`Process`); the connection may break between them.

**ImageBuild** (`gateway-image.js`). The requests with their awaits, the build stage
by stage, the cache of base images with its markers, the three files of a site,
restarts, failures, `deleteImage` file by file. Whatever writes or removes a file may
fail, also the writing of the error (`Report`), whose own failure nobody hears of;
`finally` gives the lock back first (`Finally`) and removes the work files afterwards
(`Sweep`), beside a build that may have started in between. The contents of an image
are told apart by code, password and whether the base was checked. `lastBuild` is
history, `"unheard"` a failure that left no error. `orphaned` is history: a restart
between the two `rm` of the clean-up, or a second one that fails, leaves a marker whose
file is gone, and the next, unchecked download of that release would count as checked.
`doubled` ends what the model follows: see 7.

**AppLinks** (`app-setup.js`, `app/setup/v1`, the operator's and the review page). One
action per SQL statement, and the answer of an app's request is a step of its own
(`LookUp`, `Use`, `Answer`), since it may end before each. `given` counts the answers with
credentials per token; `unanswered` are the tokens whose request ended between its update
and its answer.

**RemoteActions** (`gateway-ssh.js`). One action per step of `runRemoteAction`; the
script on the Pi is a thing of its own, which runs on when the session is gone.

**MCChains** sets the eight modules that share no state - ChargePwm and the seven
from ChargeWindow to RemoteActions - beside each other: `chain` is chosen once, and a
behaviour moves that module only. A state invariant or an action property that
speaks of one module holds of the product exactly if it holds of that module's own
behaviours, so one run asks what eight would.

## 4. The runs

| run | question | properties |
| --- | --- | --- |
| `failsafe` | With queued writes, a failing shell and crashes anywhere: what can stand behind the marker, how long can a window outlive its writer, is switching completed, is a dead openHAB cleared up after? | `MarkerHidesOnlyFaults`, `StandingWindowBounded`, `ImplementsOwnership`, `SwitchingCompletes`, `OutageIsCleared` |
| `failsafe_standby` (violation) | Does the marker mean that the inverter is released? | `StandbyMeansReleased` |
| `failsafe_binding` (violation) | Does the timer take over from a dead binding? | `DeadBindingIsCleared` |
| `control_cycle` | Does the guard engage, and do the estimators learn only from clean slots? | `GuardEngages`, `SamplesPure` |
| `sync_jobs` | Does everything delivered arrive, whatever crashes? | `NothingOutOfReach`, `DoneMeansImported`, `JobsEnd`, `EverythingArrives` |
| `gateway_setup` | Is a code dead once spent, and does the set-up complete? | `FinishedHasNoCode`, `SpentCodeStaysDead`, `SetupCompletes` |
| `cloud_accounts` | Does "created" mean that the cloud has the values, and does a reset ever stay open? | `CreatedMeansDelivered`, `ResetArrives` |
| `adapters` | Does the inverter do what the core was told, and nothing else between two writes? | `CycleEndsAsTold`, `NoDetour`, `WindowTakesHold` |
| `estimators` | Is what was learned what was true? | `NotOverrated`, `LearnedIsTrue` |
| `planner` | Does the house have its night, the community its feed-in, and the battery its sun? | `ReachesMorning`, `FeedInLasts`, `FullByDeadline`, `NotFullByNoon` |
| `chains`, times and weather | Does a plan use what belongs together and is young enough? | `TimesOfOneAnswer`, `LockLeavesEnoughSun`, `NightFeedsTheCommunity`, `NightOfOneDay`, `YieldAsFreshAsClouds`, `NoTimesOfLastSeason`, `WeekIsWhatWasFed` |
| `chains`, pulse width | Do locks keep up with the share, end, and leave nothing after a crossover? | `LockKeepsUp`, `LockedRunBounded`, `CrossoverLeavesNoDebt` |
| `chains`, platform | Is what the operator is shown true, a link worth its credentials once, a reported key kept? | `ImageAsShown`, `WorthItOnce`, `NewestLinkWorks`, `ReportedKeyStands`, `OneScriptAtATime` |
| `yield_of_the_clouds_day` (violation) | Are clouds and yield of an answer about the same day? | `YieldOfTheCloudsDay` |

Every property of a passing run has a mutant (`Mut...` beside the definition it
replaces): a plausible bug of that code, under which the run fails.

Bounds and why they are enough:

- FailSafe: periods of 3 and 2 minutes and two attempts at boot (2, 2 and 2 in
  `failsafe_binding`) instead of the shipped 12, 10 and 8. The periods matter by the
  order in which they run out, and two of different length keep every one; the safety
  properties are proved for all. The binding's queue needs no bound: a cycle begins, and
  a minute passes, only when it is drained.
- ChargePwm: shipped hysteresis, block and gap; duties 0, 0.2, 0.5, 0.9 are the
  extremes the clamping allows and two between; gaps of 5, 10 and 15 minutes are
  none, one and more missed cycles, i.e. at and beyond the limit of 12. The
  invariant is proved for all values.
- ControlCycle: the same gaps; a guard of three cycles as shipped. Proved for any gaps
  and triggers.
- Adapters: two of Deye's six slots (they are written alike, one after the other);
  powers below a register's step, in between and above every device's maximum (40 kW);
  a plant of 4.7 kW whose maximum can be read; every
  profile starts with what an earlier owner may have left and with a plausible and
  an implausible reading. Proved for all powers, rated powers and numbers of slots.
- Estimators: a battery of 3 kWh, so that a few cycles make a sample and a percent
  is coarse; gaps that continue a measurement and one that ends it; readings minutes,
  days and more than a week apart; two accepted samples, two days kept. Proved for all
  batteries, powers, gaps and readings and any number of samples and days.
- Planner: whole nights from 20:30 to 8:35 and whole days from 6:30 to 17:00 in steps
  of a cycle. The scenes of `MCPlanner` are four sites (with learned, set and unknown
  size, three kinds of inverters) under clear, closed and unknown skies, right, wrong
  and missing forecasts; one change of the outlook and one big consumer per night. In
  three more, short nights of summer that begin without a fetched window, midnight
  changes nothing; in each the feed-in comes to its target with a stretched power above the
  minimum, which is what `FeedInLasts` is about. `ReachesMorning` and `FullByDeadline` are proved for every site within the plausible
  ranges, every sun, forecast, profile and times, and any number of changes and
  consumers.
- ChargeWindow: four days (summer, one that clears up twice, spring, winter), two of
  which follow each other; hours before, within and after the window; one script cut
  short. CloudOutlook: 42 hours, so that two noons and a midnight are crossed; two
  failing fetches. CrossoverTimes: look back and age limit of three days each instead
  of fourteen - only their sum matters, and the theorem has them as parameters.
  FeedInCounter: four days, the week beginning at the third, energy up to two slots,
  one new card. The safety properties of all of these are proved for any of them.
- ImageBuild: two requests, two releases, two codes, one restart. The orphaned marker
  needs no more: a `rm` that fails leaves one too, and a download that is not compared
  may end by a failure. Operators and releases are interchangeable (`MCAlike`).
- AppLinks: two operators' pages, one review page, two apps, two tokens: what a link
  can be disputed by. RemoteActions: two clicks, three cards, two breaks. These and
  ImageBuild are proved for any number.
- SyncJobs: two rows, because two inserters can each add one; three intervals,
  because with an overlap of one the first falls out of reach of a window that
  starts at the third; chunks of up to two intervals against an overlap of one;
  one correction. What must never happen is proved for any of them.
- GatewaySetup: one device that only updates (the gateway of the member, or an
  old one that was meant to be replaced) and one that goes through everything.
  Two devices are what a token or a code can be disputed by; the safety
  properties are proved for any number.
- CloudAccounts: two redemptions, the smallest number that can cross; resets,
  changed keys and rounds are unbounded, since ages need no numbers. One site: a
  round treats the sites one after the other and rows do not depend on each other.

The type invariants (`TypeOK` and their like) are not runs' properties of their own:
where they are needed they are parts of the inductive invariants that are proved
(section 6); they can be added to any configuration.

`CHECK_DEADLOCK FALSE` appears where the system may stop: in GatewaySetup, when the
calm has come, the packages are installed and the operator does nothing; in MCChains
and MCCloudOutlook at the end of the bounded days, hours, tokens and cards.

## 5. Fairness

- FailSafe: strong fairness of the clock (no number of steps within a minute
  holds back time), weak fairness of the script (systemd starts it every minute
  and it ends), of the binding, and of the rule's cron trigger while openHAB is
  active. Nothing is assumed of the member, the network or openHAB staying up;
  the liveness properties name what must persist: `Outage`, or the `Working` of power,
  openHAB, binding, shell and network.
- SyncJobs: the worker's loop goes on, systemd or the container restarts it, the
  six-hourly maintenance comes, a login that has begun goes through its statements.
  `LeftAlone` says from when on nobody stops it.
- GatewaySetup: systemd starts firstboot and the timer, a run goes on. Before
  `calm` every step may fail any number of times; no fairness forces successes
  then. After it the network and openHAB answer and the inverter is found. The
  password is not forced: the property says "as soon as it is there".
- CloudAccounts: the loop of `cloud-sync.sh` starts rounds and a round goes on.
  After `calm` no round is killed and no report lost; saves may still throw, and
  resets and redemptions go on.
- All other modules claim no liveness; their specifications state no fairness.

## 6. Proofs

`FailSafeProofs` (`STALE_MIN`, `REPEAT_MIN`, `BOOT_TRIES` any positive numbers):

- `TypeCorrect`, `MarkerFaults`, `Deadman`, `RefinesOwnership`, without further
  assumption on the adapter, the binding, the shell or the network.

  None of the properties is inductive. The invariant `IInv` adds: behind the marker a
  window is, or comes, only as the faults allow, and a marker about to be made is made
  after the reset that answers for what stands (`MarkerInv`); a cycle starts with
  nothing on its way, commands last, and dies with openHAB (`RuleInv`); unless a reset
  is on its way or lost, a window has stood no longer than the heartbeat is old while
  that is live, nor longer than a young stamp, and a heartbeat that has just gone stale,
  with the script idle and its minute served, finds no window or a young stamp
  (`StandingInv`). From this every minute's tick keeps the bound: either a live
  heartbeat or a young stamp still covers the window, or the timer is due and has
  cleared it before the next tick. One lemma per action group, one case per
  action.

`ControlCycleProofs` (any slot length, gap limit and threshold): the guard's counter
lives in items and is forgotten after a gap, so `GuardEngages` alone says nothing about
the next cycle. `CycleInv` adds that while there is exposure the counter was written in
the cycle before and is at least as high (`GuardCounts`), that no slot counts as free
after a command that throttles (`FreeIsUnthrottled`), and that a running measurement
of the house has met no discharge and meets none in the next cycle (`StretchIsPure`).
From it `GuardLocksInTime` and `LearnsUndistorted`.

The same module proves about `Estimators` (any battery, powers, gaps, readings):
`LearnsNothingTooHigh` and `LearnsWhatIsTrue`. An estimate alone says nothing about the
next sample, so `LearnInv` says what a running measurement knows of the physics:

- `EnergyGiven`: the energy counted since the stretch began was given by the battery
  since a charge that was shown as its basis, and the last command still flows.
  `PowerTaken`: since such a charge the battery rose by at most the highest power over
  the minutes of the stretch. `HouseDraws`: it fell by what the house drew, between the
  least and the highest power. All three hold only while the next cycle may continue
  the stretch (`Measuring`); a refill, a gap or a command ends that.
- `NightMeasured`: the energy and the minutes of a night bound each other. The
  tolerances come from the shown charge: at least eight points of a discharge are one
  too many at most (a ninth in eight), five of a rise one too many, three of a night
  one too many or too few. Rounded means (`Rounded`, `MeanBetween`) stay between what
  they are the mean of.
- `RateInv`: as long as no outlier had company, the estimate is below the peak. A value
  at the rank of the percentile exists (`AtRank`), and one outlier among four samples,
  or none among three, is too few to be it (`PeakHolds`).
- `SunInv`: the sum of the hour lies between as many of its least and its highest
  readings (`HourWatched`), and every value of the profile is of an earlier hour of an
  earlier or the same day (`Listed`), so what joins is the newest.

`SyncJobsProofs` (any rows, horizon, overlap and length of chunks): `SyncInv` says that
the table is never ahead of EEG-Faktura (`Sound`); that an interval the table lacks is
not older than the overlap before anything measured or before the progress of any open
job (`InReach`); that what is missing behind the running import came after its window
was determined (`Behind`); that an answer in hand is as new as the table and overtaken
by late deliveries only (`Answered`); and that what the window promised is in the table
up to where the import has got (`Kept`). `InReach` for *every* open job, not only the
running one, is what carries it over a crash: the progress is saved after the chunk, and
what the saved progress leaves out is still in reach from it. From it `NothingIsLost`
and the action property `DoneIsImported`.

`GatewayProofs`, how a gateway is set up, what it decides and what it learns from the
platform:

- `FinishedSiteHasNoCode`, `SpentCodeIsDead` (any set of devices, any units taking
  part): `CodeInv` says that a phase "fertig" or a recorded "fertig" since the issue of
  the code means the code is null. The second part is what makes it inductive and what
  the code's comment is about: a later run takes the phase away again, so the phase
  alone does not protect the code.
- `PwmInvariant`, `LockEnds`, `KeepsUp`, `CrossoverPays` (all periods, thresholds, blocks
  and duties that satisfy the assumptions of `ChargePwm`): in a free block the debt plus
  what the remaining slots may add stays below the threshold plus a block; in a lock
  every slot pays off at least one unit net, so a lock ends after as many slots as units
  can be owed (`RUN_MAX`).
- `CrossoverSafe` (any look back, any age limit): `CrossoverInv` says that the youngest
  day behind a value is older than the stamp by at most the look back, also while the
  script is between its three writes and after it was cut short; a gap in the
  deliveries leaves the stamp alone.
- `NightsWeather`, `YieldAsFresh` (any length of history, any age limit that
  `CloudAssumption` allows): every remembered fetch is about the midday next to the hour
  it was written in (`OfItsHour`), and the yield is no older than the stamp except
  while a script that has spoiled it is at work (`YieldOfTheStamp`). The entries of
  a mean lie within the age limit, and no noon lies between them when the night is
  planned.
- `OneAnswerPlans` (any days, curves, sites): `WindowBase` says that all items are from
  past fetches, that the date stands for its own fetch (`DateOfItsFetch`), and that up to
  the place the script has reached in its order, everything is of the running answer
  (`WrittenSoFar`, `OneFetch`). A cycle that reads a date of today and is not crossed
  therefore reads one answer.
- `NightStaysHome`, `LockSparesTheSun`: `ItemsAsTold` says that each item holds what the
  platform computed for its day, `UsedAsTold` the same of the cycle. The rest is
  arithmetic over the curves: `StartTakes`, `EndTakes` (the slots the times are
  the maximum and minimum of), `SunSlope`, `SunFalls` (the sun left in the day falls
  from slot to slot, as a recursive function), `OwnEnd` (the end of a site's own lock
  is the last slot that still leaves enough).
- `WeekClaimsNothing` (any days, resets, lost pushes): `FeedInInv` says which readings
  belong to one card (`OneCard`), what the platform trusts of them, and what the status
  under way will tell. `WeekStep` and `WeekGrows` say what a new or replaced reading of a
  day does to the sum; they rest on the facts about sums below.

`PlannerProofs` (any site within the plausible ranges, any sun, forecast, profile and
times; any number of fetches and big consumers). Both results are about sums over
steps whose number depends on the inputs; what makes them inductive is to say of every
slot what is still to come.

- `PlannerTypes`: along with the types, that no feed-in is above the hard limit and no
  limit is zero, whatever the settings.
- `PlannerReachesMorning`: `NightHeld` says that at every slot before the morning, the
  charge and what the big consumer took cover the member's reserve, the need of the next
  day and the house until then. A cycle that feeds has just seen that the charge is
  above the target (`ReserveHeld`, `FeedingStep`); one that does not feed leaves only
  the house to pay, for one slot (`RestingStep`). `ClockInv` says on which side of
  midnight a slot is, so that "until the morning" (`LeftOf`) falls by one slot in each
  cycle, also in the one that sets the date of the times back.
- `PlannerFullByDeadline`: `DayHeld` says that the battery either has what free charging
  would have given it, or that the plan is still good for it (`Kept`): the sun shines
  until the deadline, and what is owed to 95 % fits into the charging power times
  the sun that is left (`SunLeft`), but for the slack. Each way of holding back has a lemma
  that it leaves that much: the crossover lock by the 1.3 times it looks ahead
  (`CrossoverLeaves`), the local lock by the same under a sun of at least 77 %
  (`WindowLeaves`), the limit by its factor of 1.5 on the forecast hours or the learned
  profile, or by 1.1 and more under an even sun of at least 91 % (`LimitLeaves`). A
  slot that charges freely gains what the sun left loses (`FreeKeeps`), one that holds
  back never more than the plan can give up (`HoldingKeeps`). Forecast and
  profile are sums over the hours of a day, compared hour by hour with the sun
  (`WeightLeft`, `ProfileLeft`, `SunLeftStep`).

`PlatformProofs`, accounts and what the operator triggers:

- `AccountsTypeCorrect`, `CreatedIsDelivered` (any number of redemptions at once):
  `CreatedMeansDelivered` is not inductive, because nothing in it says what a round
  under way will report. `RoundInv` adds that the round's account is open, that the
  round carries the row's values unless overtaken, and which of them it has already
  saved. A change of the row opens the account and marks a round under way as
  overtaken, a save moves one part, and a report can then only confirm what is there.
  The type invariant says that only states allowed by the schema are written.
- `LinkWorthItOnce` (any pages, apps, tokens): `GivenByState` says that nothing was given
  for a token that is not used, and that one which is used has been answered once, or is
  owed an answer by exactly one request, or lost it when that request was cut off; that
  numbers above the last token are untouched; and that a request between its look and
  its answer has the credentials in hand. The update `where used_at is null` makes one
  request owe the answer, and it finds `given` at zero; the row may be deleted meanwhile.
- `NewestLinkStands`: `NewestInv` adds that until two operators cross at most one of them
  is between its statements, and that there is no newest link between the two.
- `ScriptsOneAtATime`, `KeyStands` (any clicks, cards, breaks): `LockInv` says that until
  a session ends before its script, a script belongs to a session that waits for it, an
  active session has the lock, and there is only one. Without the last part nothing
  would prevent `finally` from giving back another session's lock. `KeyStands` needs in
  addition only that the first connection's key is stored `where ssh_host_key is null`.
- `ImageTypeCorrect`, `ImageShownTruly` (any requests, releases, codes): `ImageInv` says,
  until two requests pass the lock together, that one request at most is building
  (`OneBuild`), beside others that only sweep up; what a build has in hand at each of its
  places, unless one that sweeps has taken the work files away (`InHand`); that the image
  on the disk is the site's unless the row says otherwise (`ImageKept`), that a marker
  stands for a checked file or for one the clean-up has just removed (`MarkersTrue`), and
  that an error file is of the last build or, beside an image, of an older one where the
  last failure was unheard (`ErrorsTrue`). The files are written one after the
  other, so each of these holds in between only with the place of the running build.

`AdaptersProofs` (any powers, any rated power, any number of Deye slots, any remembered
values of a Victron, whatever an earlier owner left): `EndsAsTold`, `NothingThird`,
`WindowsHold`. A property about the present registers says nothing about a queue of
writes under way, but the queue determines the path of contents the registers will take
(`Leads`). `AdaptersInv` says of the whole path what the properties say of one point:
while no write is missing it leads to what the core was told, or to released, and
without a detour (`Course`). A write that lands then needs no argument, it only
shortens the path. What remains is that each adapter answers for its two lists, that of
the reset (`ResetClears`) and that of the command (`CommandObeys`). Deye writes only what
differs from the item, so its lists depend on what openHAB believes: `DeyeItems` says
that the items show the registers up to the switch, and that after a lost window the
item no longer shows it on. Facts about lists of slots are by the least counterexample
(`AtPositionsIsLast`, `AtPositionsHolds`).

`SetFacts` has the lemmas that need an induction. The induction theorems of the
library cannot be used (they take a predicate), so they argue with the least element of
a set of counterexamples (`LeastNatural`, from the well-foundedness of the naturals):
`MinFact`, `MaxFact`, `FiniteBound`, and what `SumFunctionOnSet` is over any finite set
(`SumFacts`: the empty sum, and one element more; `SumSame`: it depends on the summands
only; `SumSmaller`: smaller summands, smaller sum; `SumScaled`: a common factor).
Because the library defines it by a choice among orders, that needs that sums exist
(`SumsExist`) and agree in every order (`SumsAgree`).

Assumptions on constants are in the modules (`...Assumption`) and evaluated in every
run. Six say what the first runs took for granted: that "no job" is not a row
(`SyncAssumption`), that a day has hours with sun, that curves and scenes are numbers of
the shape the code reads (`ChargeWindowAssumption`), that registers and remembered
values are numbers, a remembered current is not zero and a plant whose maximum cannot be
read is no larger than the fallback of 100 kW (`AdaptersAssumption`), that the powers of
a battery have a greatest (`EstimatorsAssumption`), and that a scene of the planner is
one the code could be in (`PlannerAssumption`): capacity and charging power within the
plausible ranges of `core.js:162` and `:346`, percentages and hours that are such, times
on the clock of the cycles, a house that draws no more than its big consumer, and a
scene over midnight that begins after noon.

Only model-checked:

- everything with fairness (liveness and ENABLED are beyond the prover);
- `FeedInLasts` and `NotFullByNoon` of `Planner`. They say that the code's numbers suit
  the batteries it is for, not that they suit any: the charge is seen in whole percent
  and the target moves with the hours left, so a feed-in of a few percent may end a good
  while before its window does (the property speaks of five and more), and a battery
  that is small beside its panels is full before noon at seven tenths of its charging
  power already. The scenes of `MCPlanner` are sites of usual size.

## 7. Disagreements found

Three runs refute a sentence of the repository:

| run | what the text says | what the code does |
| --- | --- | --- |
| `failsafe_standby` | one last reset at main switch OFF, so that no window stays standing on a Modbus inverter (`core.js:1865-1867`), repeated if it is not confirmed (`failsafe-modbus.md:216-217`) | the marker is made on an `ok` that means queued (`core.js:1898`, `fronius-snapinverter/adapter.js:90-92`); a reset that is given up afterwards leaves its window behind a marker that silences core, timer and boot reset |
| `failsafe_binding` | the heartbeat appears only after a reset that was ok, so the timer takes over from a failed binding (`failsafe-modbus.md:126-128`, test 13 at `:276`) | with a dead bridge the reset is ok all the same, the heartbeat is touched (`core.js:1911`), and a standing window stands on |
| `yield_of_the_clouds_day` | the yield is that of the day the clouds are about, today before noon (`gateway-data.js:73`, `wolken/v1/+server.js:19`) | the hour is formatted as "07 Uhr", which is no number, so it is always tomorrow (`gateway-data.js:78`) |

Three more statements are kept as definitions without a run; put under PROPERTIES (or
INVARIANTS) of the configuration named, TLC refutes each:

| definition | configuration | what the text says | what the code does |
| --- | --- | --- | --- |
| `MeanPower` | `MCChains.cfg` | locked and free blocks give the target power on average (`core.js:239`) | overpaid debt is forgiven, so small shares are locked too often: 25 % for 20 % |
| `CapacityCountsCommanded` | `MCControlCycle.cfg` | the energy of the time the power was commanded (`core.js:615`) | a cycle that returns early leaves the step standing, and the idle slot is booked too |
| `IncompleteUpdateRepeats` | `MCGatewaySetup.cfg` | firstboot or the updater repeat a run that ended with 75 (`install.sh:23`) | the updater removes its flag first, and the checksum is installed before the set-up |

Sentences that hold with an exception, which the property names:

- "Es baut immer nur ein Image gleichzeitig" (`gateway-image.js:33`): the check
  (`:263`) and the lock (`:300`) have awaits between them, so two requests can pass.
  They share the work files, each gives back the other's lock, and each sets a Linux
  password for a site that has none. `FreshImageFits` holds with `~doubled`.
- A base image counts when its marker is there (`gateway-image.js:188`): a restart
  between the two `rm` of the clean-up (`:239`), or a second one that fails, leaves the
  marker of a release whose file is gone; a later download of it that ends before its
  checksum is compared then counts as checked. `FreshImageFits` allows it for
  `orphaned`.
- A build that failed is shown as failed: not where its error cannot be written, as on a
  full disk (`gateway-image.js:345` swallows that too). `ErrorIsOfTheLastBuild` speaks of
  failures that were written. A temporary directory that cannot be made is a failure
  before the `try`: nothing is written, and nobody gives the lock back until the
  platform is restarted.
- A link is exchanged once for the credentials (`app/setup/v1/+server.js:45`): at most
  once. The update comes before the answer, so a request that is cut off between them uses
  the link up for nothing, and the member needs another one. `WorthItOnce` allows it for
  `unanswered`.
- The timer clears what a dead core left within its periods: not before the first
  heartbeat. "Es kann nichts stehen geblieben sein" (`10-install-failsafe.sh:243-245`), but
  the core commands also where the first `touch` fails; such a window stands until the
  next boot. `StandingWindowBounded` asks for a heartbeat. Likewise for a reset that was
  lost while the heartbeat vouches for it (`~missed`).
- "alte Tokens der Anlage werden dabei ungueltig" (`app-setup.js:22`): not when two
  operators create a link at the same time. `NewestLinkWorks` holds with `~crossed`.
- "Je Anlage laeuft hoechstens eine Aktion" (`gateway-ssh.js:191`): a session that ends
  by its deadline, or with the platform, gives the lock back while its script goes on.
  `OneScriptAtATime` holds until then.
- A share of radiation above 1 is capped by the gateway (`gateway-data.js:94`): one
  above 3 is dropped instead (`cloud_forecast.js:38`), and the night falls back to the
  clouds.
- The Deye adapter may leave a window out for one cycle, because the item still shows
  the value the reset is about to change; `WindowTakesHold` says that it is never two.
- "gerade schnell genug, um am Abend voll zu sein" (`core.js:224`): the guard net
  (`:193`) holds the charge below what the plan asks for, right forecast or not, and
  on a short day that may be missing in the evening. `FullByDeadline` speaks of days
  whose cycles it has not held back, and whose sun lasts until the deadline
  (`Reckoned`).
- A cycle that `ladefenster.js` crosses may mix the times of two answers;
  `TimesOfOneAnswer` speaks of the others.

Met while modelling, without a sentence of the repository against it: a step 02b
that dies is skipped, and the run ends with "fertig" and the marker; an old
gateway's update that reports "fertig" nulls a code that was renewed for its
replacement, and deletes the image; a password reset that falls into a round of
cloud-sync which still has the older password is marked as created by that
round's result (`cloud-result/+server.js:33` asks for the state, not for the
value) and does not reach the cloud: `CreatedMeansDelivered` holds only with
`~overtaken`, and leaving that out gives the trace.

## 8. What is not modelled

- The fail-safe of gateways without a timer. On a GEN24 the commands are schedules that
  the inverter ends by itself; on profiles without a verified fail-safe nothing clears up
  when the core is dead. In both the core's first steps are the same, but the script's
  part is missing, and with it what the properties of FailSafe are about.
- WireGuard peers: a loop that sets the interface to the list it was given, without
  memory between rounds. Rate limits: a window in the memory of one process without
  an await. What they promise can be read off their few lines.
- Logins beyond their effect on jobs (sessions, magic links, OIDC): single statements
  on rows of their own, and Keycloak. That a running import may store a refresh token
  over a newer one (`worker.py:170`) would need a model of Keycloak's rotation.
- A metering point that joins with older data than the newest of its community
  (`sync.py:80`): SyncJobs has one series of intervals per community.
- Steps of the wall clock: ages in FailSafe are elapsed minutes. A Pi without a
  buffered clock that boots with an old time sees a negative age
  (`10-install-failsafe.sh:247`).
- What two builds of an image at once leave behind (7).
- Inverter profiles (network search, Things, rediscovery), forecast and weather
  statistics, normalisation of payloads, figures and pages, the schema, deployment,
  demonstration and administration scripts: I/O, arithmetic without state, wording.
- The texts of status items and logs everywhere. The item
  `Stromkreis_Ladesperre_Individuell`, which `ladefenster.js` writes beside the times,
  is taken as given in Planner (`times.individual`).

Secrets are assumed to be unguessable; nothing here is about attackers.

## 9. How to run

    tlc -workers 2 -config MCFailSafe.cfg MCFailSafe
    tlapm FailSafeProofs.tla

and likewise for the other configurations and proof modules; a run takes between
seconds and two minutes.

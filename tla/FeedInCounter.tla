---------------------------- MODULE FeedInCounter ----------------------------
(***************************************************************************)
(* The energy the battery gave to the grid, from the counter of core.js    *)
(* over the status push (api/status_push.js, status/v1) to the sums of the *)
(* week that platform and gateway show (recordCounterSnapshot and          *)
(* batteryGridFeedIn in lib/server/gateway-data.js).  The counter can only *)
(* be trusted while its item lives; the platform keeps one reading a day   *)
(* and must make a sum of that across resets, gaps and lost pushes.        *)
(*                                                                         *)
(* Energy is counted in slots at full power.                               *)
(***************************************************************************)
EXTENDS Integers, FiniteSetsExt

CONSTANTS
    MONDAY,     \* the day the week begins, of the days 1..LAST_DAY
    LAST_DAY,   \* bound of the model
    MAX_FED,    \* bound of the model: energy
    MAX_RESETS  \* bound of the model: new cards

ASSUME FeedInAssumption ==
    /\ {LAST_DAY, MAX_FED, MAX_RESETS} \subseteq Nat /\ MONDAY \in 1..LAST_DAY

VARIABLES
    dayNow,     \* the platform's day
    counter,    \* Stromkreis_NETZEINSPEISUNG_ZAEHLER: kWh, and the slots since its stamp
    push,       \* the status push on its way
    snapshots,  \* battery_site_counter_snapshot: day -> reading
    status,     \* battery_site.status: what the last full and the last push said
    weekShown,  \* Stromkreis_BATTERIE_NETZEINSPEISUNG_WOCHE_KWH
    fed,        \* history: all the counter ever counted
    told,       \* history: of it, what the pushes that arrived had told
    before,     \* history: the same, when the week began
    resets      \* see MAX_RESETS

feedInVars == <<dayNow, counter, push, snapshots, status, weekShown, fed, told, before, resets>>

COUNTER_GAP == 2    \* EINSPEISE_MAX_GAP_MIN: ten minutes, not fifteen
NoReading == -1
Nothing == [kind |-> "none"]

FeedInInit ==
    /\ dayNow = 1 /\ counter = [kwh |-> 0, since |-> NoReading]
    /\ push = Nothing /\ snapshots = [d \in {} |-> 0]
    /\ status = [versions |-> NoReading, kwh |-> NoReading]
    /\ weekShown = NoReading
    /\ fed = 0 /\ told = NoReading /\ before = NoReading /\ resets = 0

-----------------------------------------------------------------------------
(***************************************************************************)
(* Gateway.                                                                *)
(***************************************************************************)

\* The smaller of what the battery gives and what the grid takes, in full power.
currentEinspeisung == {0, 1}

\* A cycle: the power of now over the time since the last one, unless that is long.
Count ==
    /\ \E w \in currentEinspeisung :
          LET slots == IF counter.since \in 1..COUNTER_GAP THEN w * counter.since ELSE 0
          IN  /\ fed + slots <= MAX_FED
              /\ counter' = [kwh |-> counter.kwh + slots, since |-> 0]
              /\ fed' = fed + slots
    /\ UNCHANGED <<dayNow, push, snapshots, status, weekShown, told, before, resets>>

\* Five minutes go by.
PassSlot ==
    /\ counter.since \in 0..COUNTER_GAP
    /\ counter' = [counter EXCEPT !.since = @ + 1]
    /\ UNCHANGED <<dayNow, push, snapshots, status, weekShown, fed, told, before, resets>>

\* A new SD card: the item begins anew.
NewCard ==
    /\ resets < MAX_RESETS
    /\ resets' = resets + 1 /\ counter' = [kwh |-> 0, since |-> NoReading]
    /\ push' = Nothing /\ weekShown' = NoReading
    /\ UNCHANGED <<dayNow, snapshots, status, fed, told, before>>

\* status_push.js: full in minute 2 of five, lean otherwise.  The item is empty
\* before the first cycle.
Send ==
    /\ push = Nothing
    /\ \E full \in BOOLEAN :
          push' = [kind |-> "request", full |-> full, fed |-> fed,
                   kwh |-> IF counter.since = NoReading /\ counter.kwh = 0
                           THEN NoReading ELSE counter.kwh]
    /\ UNCHANGED <<dayNow, counter, snapshots, status, weekShown, fed, told, before, resets>>

-----------------------------------------------------------------------------
(***************************************************************************)
(* Platform.                                                               *)
(***************************************************************************)

\* recordCounterSnapshot: the very first reading is the baseline of the day
\* before, and the reading of the day is overwritten.
BaselineAtZero(kwh) == [d \in {dayNow - 1} |-> 0]    \* mutant

Baseline(kwh) == [d \in {dayNow - 1} |-> kwh]

Recorded(snaps, kwh) ==
    [d \in DOMAIN snaps \cup {dayNow} |-> IF d = dayNow THEN kwh ELSE snaps[d]]

\* batteryGridFeedIn: what a day added to the reading before it; after a jump
\* down the counter counts from zero.
Delta(snaps, d) ==
    LET earlier == {e \in DOMAIN snaps : e < d}
    IN  IF earlier = {} THEN 0
        ELSE LET previous == snaps[Max(earlier)]
             IN  IF snaps[d] >= previous THEN snaps[d] - previous ELSE snaps[d]

WeekSum(snaps) ==
    SumFunctionOnSet([d \in DOMAIN snaps |-> Delta(snaps, d)],
                     {d \in DOMAIN snaps : d >= (IF dayNow >= MONDAY THEN MONDAY ELSE 0)})

\* The first statement of recordCounterSnapshot.  Until the second the date may
\* change, and the process or its database may fail.
SetBaseline ==
    /\ push.kind = "request" /\ push.full /\ push.kwh # NoReading
    /\ DOMAIN snapshots = {}
    /\ snapshots' = Baseline(push.kwh)
    /\ told' = push.fed /\ before' = push.fed
    /\ UNCHANGED <<dayNow, counter, push, status, weekShown, fed, resets>>

\* POST /api/gateway/status/v1: a full push replaces the status, a lean one is
\* mixed in (a value it does not know is null in both); the reading is taken from
\* full pushes that know it.
Process ==
    /\ push.kind = "request"
    /\ LET reads == push.full /\ push.kwh # NoReading
           after == IF reads THEN Recorded(snapshots, push.kwh) ELSE snapshots
       IN  /\ reads => DOMAIN snapshots # {}
           /\ snapshots' = after
           /\ status' = [versions |-> IF push.full THEN dayNow ELSE status.versions, kwh |-> push.kwh]
           /\ push' = [kind |-> "answer",
                       week |-> IF push.full /\ DOMAIN after # {} THEN WeekSum(after) ELSE NoReading]
           /\ told' = IF reads THEN push.fed ELSE told
           /\ before' = IF reads /\ dayNow < MONDAY THEN push.fed ELSE before
    /\ UNCHANGED <<dayNow, counter, weekShown, fed, resets>>

\* Back at the gateway: the sums, where the answer has them.
Show ==
    /\ push.kind = "answer"
    /\ weekShown' = IF push.week = NoReading THEN weekShown ELSE push.week
    /\ push' = Nothing
    /\ UNCHANGED <<dayNow, counter, snapshots, status, fed, told, before, resets>>

\* A request or an answer is lost, or the gateway dies in between.
Lose ==
    /\ push # Nothing /\ push' = Nothing
    /\ UNCHANGED <<dayNow, counter, snapshots, status, weekShown, fed, told, before, resets>>

NextDate ==
    /\ dayNow < LAST_DAY /\ dayNow' = dayNow + 1
    /\ UNCHANGED <<counter, push, snapshots, status, weekShown, fed, told, before, resets>>

FeedInNext ==
    Count \/ PassSlot \/ NewCard \/ Send \/ SetBaseline \/ Process \/ Show \/ Lose \/ NextDate

FeedInSpec == FeedInInit /\ [][FeedInNext]_feedInVars

-----------------------------------------------------------------------------
\* The sum of the week never claims energy that was not fed since the last push
\* before the week (or the first of all); while the counter's item lives it is
\* exactly what was fed between that push and the last one, however many
\* pushes are lost and whole days are missing.
WeekIsWhatWasFed ==
    dayNow >= MONDAY /\ told # NoReading =>
        /\ WeekSum(snapshots) <= told - before
        /\ resets = 0 => WeekSum(snapshots) = told - before
=============================================================================

---------------------------- MODULE CloudOutlook ----------------------------
(***************************************************************************)
(* The weather of the next day of sun on its way to the control rule: the  *)
(* platform's queries (lib/server/gateway-data.js), the endpoint wolken/v1, *)
(* api/cloud_forecast.js that fetches at minute 40 of every hour and writes *)
(* value, stamp, yield, hours and history one after the other, and the     *)
(* smoothed and dated readings of core.js.                                 *)
(*                                                                         *)
(* A forecast is told apart by the day it is about and the hour it was     *)
(* fetched; the value itself is what that hour thought of that day.  Hours *)
(* are counted through from midnight of day 0; a cycle runs in an hour      *)
(* before, together with, or after the fetch of the hour.                  *)
(***************************************************************************)
EXTENDS Integers, Sequences, FiniteSets

CONSTANTS
    RADIATION,      \* day -> measured or forecast sum of a whole day, or Unknown
    CLOUDS,         \* the days whose midday the weather table has
    LAST_HOUR,      \* bound of the model
    MAX_OUTAGES     \* bound of the model: hours in which the fetch fails

ASSUME CloudOutlookAssumption ==
    /\ LAST_HOUR \in Nat /\ MAX_OUTAGES \in Nat
    /\ \A d \in DOMAIN RADIATION : RADIATION[d] \in Nat \cup {-1}

VARIABLES
    hourNow,    \* the hour
    part,       \* of the hour: "before", "at" or "after" the fetch
    board,      \* the items of the outlook
    script,     \* the answer being written, and the next item
    spoiled,    \* the last script did not come to its end
    look,       \* what the last cycle took for the clouds and the yield
    outages     \* see MAX_OUTAGES

cloudVars == <<hourNow, part, board, script, spoiled, look, outages>>

MAX_AGE == 3          \* MAX_CLOUD_AGE_HOURS, REG_HOURLY_MAX_AGE_HOURS
SMOOTH_FETCHES == 3   \* CLOUD_SMOOTH_FETCHES
HISTORY == 6          \* length of Stromkreis_Wolken_Verlauf
Unknown == -1         \* null, NULL and '-'

DayOf(h) == h \div 24
HourOf(h) == h % 24

-----------------------------------------------------------------------------
(***************************************************************************)
(* Platform.                                                               *)
(***************************************************************************)

\* cloudNextSunshineWindow: the midday that comes next, today's before 12:00.
WindowDay(h) == IF HourOf(h) < 12 THEN DayOf(h) ELSE DayOf(h) + 1

\* nextSunshineWindowDate.  The hour alone, in the locale de-AT, is formatted as
\* "07 Uhr", of which Number() is NaN: the comparison with 12 is never true.
NextSunshineWindowDate(h) == DayOf(h) + 1

WholeDaysBefore(d) == {e \in d - 14..d - 1 : e \in DOMAIN RADIATION /\ RADIATION[e] # Unknown}

\* percentile_cont(0.75) of the whole days before, times four: between the two
\* values around position 0.75 * (n - 1).
GoodDay(d) ==
    LET days == WholeDaysBefore(d)
        n == Cardinality(days)
        Below(e) == {f \in days : RADIATION[f] < RADIATION[e] \/ (RADIATION[f] = RADIATION[e] /\ f < e)}
        At(k) == RADIATION[CHOOSE e \in days : Cardinality(Below(e)) = k]
        k == (3 * (n - 1)) \div 4
    IN  4 * At(k) + (IF k + 1 < n THEN ((3 * (n - 1)) % 4) * (At(k + 1) - At(k)) ELSE 0)

\* radiationShareForDay, in percent; api/cloud_forecast.js takes shares up to 300.
Share(d) ==
    IF \/ d \notin DOMAIN RADIATION \/ RADIATION[d] = Unknown
       \/ Cardinality(WholeDaysBefore(d)) < 7
       \/ GoodDay(d) = 0
    THEN Unknown
    ELSE (800 * RADIATION[d] + GoodDay(d)) \div (2 * GoodDay(d))

Plausible(share) == IF share \in 0..300 THEN share ELSE Unknown

-----------------------------------------------------------------------------
(***************************************************************************)
(* api/cloud_forecast.js                                                   *)
(***************************************************************************)

NoScript == [next |-> 0]
NoYield == [day |-> Unknown, at |-> Unknown]
NoLook == [clouds |-> {}, yields |-> {}, hours |-> FALSE, clean |-> TRUE]

CloudInit ==
    /\ hourNow = 9 /\ part = "before" /\ outages = 0 /\ spoiled = FALSE
    /\ board = [value |-> Unknown, stamp |-> Unknown, yield |-> NoYield,
                hours |-> Unknown, history |-> << >>]
    /\ script = NoScript /\ look = NoLook

\* Minute 40: the answer arrives.  Without one, or without weather for the next
\* midday (404), the items are left as they are.
FetchClouds ==
    /\ part = "at" /\ script = NoScript /\ board.stamp # hourNow
    /\ WindowDay(hourNow) \in CLOUDS
    /\ LET day == NextSunshineWindowDate(hourNow) IN
       script' = [next |-> 1, value |-> WindowDay(hourNow),
                  yield |-> IF Plausible(Share(day)) = Unknown THEN NoYield
                            ELSE [day |-> day, at |-> hourNow]]
    /\ UNCHANGED <<hourNow, part, board, spoiled, look, outages>>

\* Mutant: no NULL when the answer has no yield.
YieldKept(old, new) == IF new = NoYield THEN old ELSE new

\* The yield as posted: NULL when the answer has none.
YieldPosted(old, new) == new

\* The history after a fetch: the last six.
Remembered(list, entry) ==
    LET all == Append(list, entry)
    IN  IF Len(all) > HISTORY THEN Tail(all) ELSE all

\* The items, one after the other.
WriteOutlook ==
    /\ script # NoScript
    /\ board' =
         CASE script.next = 1 -> [board EXCEPT !.value = script.value]
           [] script.next = 2 -> [board EXCEPT !.stamp = hourNow]
           [] script.next = 3 -> [board EXCEPT !.yield = YieldPosted(@, script.yield)]
           [] script.next = 4 -> [board EXCEPT !.hours = hourNow]
           [] script.next = 5 -> [board EXCEPT !.history =
                 Remembered(@, [at |-> hourNow, value |-> script.value, yield |-> script.yield])]
    /\ script' = IF script.next = 5 THEN NoScript ELSE [script EXCEPT !.next = @ + 1]
    /\ spoiled' = (spoiled /\ script.next # 5)
    /\ UNCHANGED <<hourNow, part, look, outages>>

\* openHAB ends in the middle of the script.
CutOff ==
    /\ script # NoScript /\ outages < MAX_OUTAGES
    /\ script' = NoScript /\ spoiled' = TRUE /\ outages' = outages + 1
    /\ UNCHANGED <<hourNow, part, board, look>>

-----------------------------------------------------------------------------
(***************************************************************************)
(* core.js                                                                 *)
(***************************************************************************)

\* Younger than three hours: in an hour before its fetch the fetches lie a whole
\* hour less back, and in its minute either, as an answer takes its time.
EntryFresh(entry, late) ==
    LET age == hourNow - entry.at - (IF part = "before" \/ (part = "at" /\ late) THEN 1 ELSE 0)
    IN  age < MAX_AGE

\* Mutant: an entry of the history counts whatever its age.
CountsAlways(entry, late) == TRUE

\* An entry of the history counts.
Counts(entry, late) == EntryFresh(entry, late)

\* smoothHistory: the last entries that carry the value and are fresh, if there
\* are two; the current one otherwise.
Smoothed(current, valued, late) ==
    LET list == board.history
        fit == {i \in DOMAIN list : valued[list[i]] # Unknown /\ Counts(list[i], late)}
        last == {i \in fit : Cardinality({j \in fit : j > i}) < SMOOTH_FETCHES}
    IN  IF Cardinality(last) < 2 THEN {current} ELSE
        {[day |-> valued[list[i]], at |-> list[i].at] : i \in last}

Entries == {board.history[i] : i \in DOMAIN board.history}

\* cloudStampFresh
StampFresh(late) ==
    board.stamp # Unknown /\ EntryFresh([at |-> board.stamp], late)

\* cloudForecast, radiationShare, and whether readHourlyJson has the hours.
Cycle ==
    /\ \E late \in BOOLEAN :
          look' = [clouds |-> IF StampFresh(late)
                              THEN Smoothed([day |-> board.value, at |-> board.stamp],
                                            [e \in Entries |-> e.value], late)
                              ELSE {},
                   yields |-> IF StampFresh(late) /\ board.yield # NoYield
                              THEN Smoothed(board.yield, [e \in Entries |-> e.yield.day], late)
                              ELSE {},
                   hours |-> /\ board.hours # Unknown /\ DayOf(board.hours) = DayOf(hourNow)
                             /\ EntryFresh([at |-> board.hours], late),
                   clean |-> script = NoScript /\ ~spoiled]
    /\ UNCHANGED <<hourNow, part, board, script, spoiled, outages>>

\* Time goes on; an hour whose fetch fails counts as an outage (404, no weather, does not).
PassTime ==
    /\ script = NoScript /\ hourNow < LAST_HOUR
    /\ \/ part = "before" /\ part' = "at" /\ UNCHANGED <<hourNow, outages>>
       \/ /\ part = "at" /\ part' = "after" /\ hourNow' = hourNow
          /\ IF board.stamp = hourNow \/ WindowDay(hourNow) \notin CLOUDS THEN outages' = outages
             ELSE outages < MAX_OUTAGES /\ outages' = outages + 1
       \/ part = "after" /\ part' = "before" /\ hourNow' = hourNow + 1 /\ outages' = outages
    /\ look' = NoLook
    /\ UNCHANGED <<board, script, spoiled>>

\* Bound of the model: the last hour.
CloudsOver == hourNow = LAST_HOUR /\ script = NoScript /\ UNCHANGED cloudVars

CloudNext == FetchClouds \/ WriteOutlook \/ CutOff \/ Cycle \/ PassTime \/ CloudsOver

CloudSpec == CloudInit /\ [][CloudNext]_cloudVars

-----------------------------------------------------------------------------
(***************************************************************************)
(* Properties.                                                             *)
(***************************************************************************)

\* Types; the history is in the order of the fetches and never longer than six.
CloudTypeOK ==
    /\ hourNow \in 0..LAST_HOUR /\ part \in {"before", "at", "after"}
    /\ script.next \in 0..5 /\ spoiled \in BOOLEAN /\ outages \in 0..MAX_OUTAGES
    /\ Len(board.history) <= HISTORY
    /\ \A i \in 1..Len(board.history) - 1 : board.history[i].at < board.history[i + 1].at

\* From a quarter to three, when the midday of tomorrow has been the next for
\* three hours, until noon every value in the mean is about the same day, the
\* day the night is planned for: smoothing over the change at noon ends with the
\* age limit, not with the number of fetches.
NightOfOneDay ==
    \A e \in look.clouds :
        /\ HourOf(hourNow) >= 15 \/ (HourOf(hourNow) = 14 /\ part = "after") => e.day = DayOf(hourNow) + 1
        /\ HourOf(hourNow) < 12 => e.day = DayOf(hourNow)

\* The yield has no stamp of its own; it is taken for as fresh as the clouds.  A
\* cycle outside the script never plans with one that is older, because a fetch
\* without a yield takes the old one away.  Nothing is said of a cycle in the middle
\* of the script, nor of those after a script that was cut off, until the next one
\* has come to its end: the new stamp may stand beside the old yield.
YieldAsFreshAsClouds ==
    look.clean => \A e \in look.yields : hourNow - e.at <= MAX_AGE

\* The comment of nextSunshineWindowDate: "derselbe Tag, dem
\* cloudNextSunshineWindow gilt (heute vor 12:00 Lokalzeit, sonst morgen)" - when
\* one fetch gave both, clouds and yield are about the same day.
YieldOfTheCloudsDay ==
    look.clean => \A c \in look.clouds, y \in look.yields : c.at = y.at => c.day = y.day
=============================================================================

--------------------------- MODULE CrossoverTimes ---------------------------
(***************************************************************************)
(* The community's mean crossover times on their way to the control rule:  *)
(* the measured days (weeklyCrossover in lib/server/gateway-data.js), the  *)
(* endpoint crossover/v1, the daily fetch of api/crossover.js and the age   *)
(* limit of core.js.  In winter the community never covers itself; then     *)
(* last autumn's times must not live on, neither through a gap in the       *)
(* deliveries nor through an outage.                                        *)
(*                                                                         *)
(* One step is one day.  Measured days are told apart by their age only.   *)
(***************************************************************************)
EXTENDS Integers

CONSTANTS
    DAYS_BACK,      \* the two weeks of weeklyCrossover
    MAX_AGE_DAYS    \* CROSSOVER_MAX_AGE_DAYS

ASSUME CrossoverAssumption ==
    /\ DAYS_BACK \in Nat \ {0} /\ MAX_AGE_DAYS \in Nat \ {0}

VARIABLES
    plus,       \* age of the youngest complete day with both crossovers
    minus,      \* age of the youngest complete day without
    startAge, endAge, \* the two items: age of the youngest day behind the value
    stamp,      \* Stromkreis_Crossover_Zeit: days since the last fetch
    write       \* the item api/crossover.js writes next, and its value

crossoverVars == <<plus, minus, startAge, endAge, stamp, write>>

Never == DAYS_BACK + MAX_AGE_DAYS + 1   \* an age that is no longer told apart
NoDay == -1         \* '-', and the NULL of a gateway that never fetched

Older(age) == IF age \in {NoDay, Never} THEN age ELSE age + 1
Younger(a, b) == IF a < b THEN a ELSE b

-----------------------------------------------------------------------------
(***************************************************************************)
(* Platform.                                                               *)
(***************************************************************************)

\* weeklyCrossover: times over up to seven days of the last two weeks, if any of
\* them has both; complete_days tells winter from a gap in the deliveries.
HasCrossover == plus <= DAYS_BACK
CompleteDays == plus <= DAYS_BACK \/ minus <= DAYS_BACK

\* POST /api/gateway/crossover/v1: times; 404 with crossover null; 404 without.
Reply ==
    IF HasCrossover THEN "times" ELSE IF CompleteDays THEN "winter" ELSE "gap"

\* The energy data of a day arrives, complete, days later: with 96 intervals and
\* some generation.
Deliver ==
    /\ \E age \in 1..DAYS_BACK :
          \/ plus' = Younger(age, plus) /\ minus' = minus
          \/ minus' = Younger(age, minus) /\ plus' = plus
    /\ UNCHANGED <<startAge, endAge, stamp, write>>

-----------------------------------------------------------------------------
(***************************************************************************)
(* api/crossover.js                                                        *)
(***************************************************************************)

Idle == [next |-> 0, age |-> NoDay]

\* 4:05 - times and winter are written; a gap, a refused token, an unreadable or
\* no answer leave the items alone.
FetchCrossover ==
    /\ write = Idle
    /\ Reply \in {"times", "winter"}
    /\ write' = [next |-> 1, age |-> IF Reply = "times" THEN plus ELSE NoDay]
    /\ UNCHANGED <<plus, minus, startAge, endAge, stamp>>

\* Mutant: every answer renews the stamp, the one that has nothing to say too.
GapStamped == write = Idle /\ Reply = "gap" /\ stamp' = 0

\* A gap says nothing.
Gap == write = Idle /\ Reply = "gap" /\ stamp' = stamp

FetchGap == Gap /\ UNCHANGED <<plus, minus, startAge, endAge, write>>

WriteCrossover ==
    /\ write # Idle
    /\ startAge' = IF write.next = 1 THEN write.age ELSE startAge
    /\ endAge' = IF write.next = 2 THEN write.age ELSE endAge
    /\ stamp' = IF write.next = 3 THEN 0 ELSE stamp
    /\ write' = IF write.next = 3 THEN Idle ELSE [write EXCEPT !.next = @ + 1]
    /\ UNCHANGED <<plus, minus>>

\* openHAB ends in the middle of the script.
CutShort == write # Idle /\ write' = Idle /\ UNCHANGED <<plus, minus, startAge, endAge, stamp>>

\* A day goes by, with or without the fetch.
NextDay ==
    /\ write = Idle
    /\ plus' = Older(plus) /\ minus' = Older(minus)
    /\ startAge' = Older(startAge) /\ endAge' = Older(endAge) /\ stamp' = Older(stamp)
    /\ UNCHANGED write

CrossoverInit ==
    /\ plus = Never /\ minus = Never
    /\ startAge = NoDay /\ endAge = NoDay /\ stamp = NoDay /\ write = Idle

CrossoverNext ==
    Deliver \/ FetchCrossover \/ FetchGap \/ WriteCrossover \/ CutShort \/ NextDay

CrossoverSpec == CrossoverInit /\ [][CrossoverNext]_crossoverVars

-----------------------------------------------------------------------------
(***************************************************************************)
(* core.js                                                                 *)
(***************************************************************************)

\* crossoverStale: no check without a stamp.
Stale == stamp # NoDay /\ stamp >= MAX_AGE_DAYS

\* MORNING_CROSSOVER_MIN and EVENING_CROSSOVER_MIN are both there.
Discharges == ~Stale /\ startAge # NoDay /\ endAge # NoDay

\* The night is fed between times behind which the community covered itself in the
\* last four weeks, two of the platform, two of the age limit - whatever days are
\* delivered when, whatever fetch fails or ends in the middle.  Only the very
\* first fetch, cut before its stamp, is without the limit until the next one.
NoTimesOfLastSeason ==
    Discharges /\ stamp # NoDay =>
        /\ startAge < DAYS_BACK + MAX_AGE_DAYS
        /\ endAge < DAYS_BACK + MAX_AGE_DAYS

\* What keeps it so: an age is never below that of its fetch by more than the
\* platform's two weeks, whether the script came to its end or not, and a value
\* that is being written is of today's fetch.
CrossoverInv ==
    /\ {plus, minus} \subseteq 1..Never
    /\ {startAge, endAge, stamp} \subseteq {NoDay} \cup (0..Never)
    /\ write \in [next : 0..3, age : {NoDay} \cup (1..DAYS_BACK)]
    /\ write.next = 0 => write.age = NoDay
    /\ stamp # NoDay => startAge <= DAYS_BACK + stamp /\ endAge <= DAYS_BACK + stamp
    /\ write.next \in {2, 3} => startAge <= DAYS_BACK
    /\ write.next = 3 => endAge <= DAYS_BACK
=============================================================================

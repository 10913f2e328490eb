------------------------------ MODULE MCPlanner ------------------------------
(* Nights from the evening to the morning and days from the first sun to the *)
(* deadline.  Four sites: a battery of 10 kWh, a large one, one with the     *)
(* member's own bounds and one whose capacity is not known yet; and three    *)
(* for quiet nights, with minimum powers below the stretched one.            *)
EXTENDS Planner, Sequences

Site == [kwh |-> 10, rate |-> 3600, load |-> 300, known |-> TRUE, min |-> 20,
         minW |-> 500, maxW |-> 3000, dynamic |-> TRUE, threshold |-> 75, lock |-> TRUE,
         regulation |-> TRUE, localLock |-> TRUE, device |-> "cap"]

MCSites == <<Site,
          [Site EXCEPT !.kwh = 30, !.device = "ontop", !.load = 600],
          [Site EXCEPT !.device = "floor", !.dynamic = FALSE, !.minW = 0, !.maxW = 900],
          [Site EXCEPT !.known = FALSE, !.threshold = 120, !.maxW = 0]>>

\* A bell over the day, its half, and a day that is bright to the evening.
Bell   == [h \in DAY |-> CASE h \in {6, 19} -> 5 [] h \in {7, 18} -> 20 [] h \in {8, 17} -> 50
                            [] h \in {9, 16} -> 75 [] OTHER -> 100]
Half   == [h \in DAY |-> Bell[h] \div 2]
Bright == [h \in DAY |-> 95]
NoSun  == [h \in DAY |-> 0]
Profile(f) == [h \in DAY |-> 40 * f[h]]

Times == [start |-> 420, ende |-> 600, individual |-> FALSE, entladestart |-> 1290,
          entladeende |-> 390, vormittag |-> 510, morning |-> 450, evening |-> 1140]

View == [clouds |-> 40, share |-> None, factors |-> NoHours, skies |-> NoHours]

Night(s, p, vs) ==
    [site |-> s, sun |-> NoSun, profile |-> p, peak |-> 4000, from |-> 1230, until |-> 515,
     socs |-> {90}, fresh |-> {TRUE},
     times |-> {Times, [Times EXCEPT !.vormittag = None, !.entladeende = 200]},
     views |-> vs]

Clear  == [View EXCEPT !.clouds = 0, !.share = 120]
\* A short night of summer with the week's times and no window fetched, so that
\* nothing changes at midnight.
QuietNight(s, soc) ==
    [Night(s, Profile(Half), {Clear}) EXCEPT
        !.from = 1340, !.until = 335, !.fresh = {FALSE}, !.socs = {soc},
        !.times = {[Times EXCEPT !.morning = 330, !.evening = 1290]}]

Closed == [View EXCEPT !.clouds = 90, !.share = 10]

Day(s, f, p, vs, known) ==
    [site |-> s, sun |-> f, profile |-> p, peak |-> 4000, from |-> 390, until |-> 1020,
     socs |-> {10, 50}, fresh |-> {known},
     times |-> {Times, [Times EXCEPT !.vormittag = 720, !.individual = TRUE], [Times EXCEPT !.start = 180]},
     views |-> vs]

Factors(f) == [View EXCEPT !.factors = f]
Skies(f)   == [View EXCEPT !.skies = [h \in DAY |-> 100 - f[h]]]
Gloomy     == [View EXCEPT !.factors = [h \in DAY |-> 2], !.clouds = 70]

Days == <<Day(Site, Bell, NoHours, {Factors(Bell), View}, TRUE),
         Day([Site EXCEPT !.kwh = 20], Bell, Profile(Half), {Factors(Bell)}, TRUE),
         Day(Site, Bell, Profile(Bell), {Gloomy, [View EXCEPT !.clouds = 80]}, TRUE),
         Day(Site, Bright, NoHours, {View, Skies(Bright)}, TRUE),
         Day([Site EXCEPT !.regulation = FALSE], Bright, NoHours, {View}, FALSE),
         Day([Site EXCEPT !.known = FALSE], Bell, NoHours, {View}, TRUE)>>

Nights == <<Night(MCSites[1], NoHours, {Clear, Closed}),
            Night(MCSites[2], Profile(Half), {Clear, View}),
            Night(MCSites[3], Profile(Half), {Closed, View}),
            Night(MCSites[4], NoHours, {View}),
            QuietNight([Site EXCEPT !.kwh = 30, !.dynamic = FALSE, !.minW = 0], 60),
            QuietNight([Site EXCEPT !.dynamic = FALSE, !.minW = 100], 60),
            QuietNight([Site EXCEPT !.kwh = 100, !.dynamic = FALSE, !.minW = 50, !.load = 50], 28)>>
MCScenes == Nights \o Days

=============================================================================

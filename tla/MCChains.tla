------------------------------ MODULE MCChains ------------------------------
(* The chains that share no state, side by side: a behaviour follows one of  *)
(* them, the others stay where they began.  What holds of one in their        *)
(* product, an invariant or what a step may do, is what holds of it here.     *)
EXTENDS ChargeWindow, CloudOutlook, CrossoverTimes, FeedInCounter, ChargePwm,
        ImageBuild, AppLinks, RemoteActions, TLC

CONSTANTS op1, op2, visit, app1, app2, rel1, rel2

VARIABLE chain    \* the one that is followed

chainVars == <<chain, windowVars, cloudVars, crossoverVars, feedInVars, pwmVars,
               imageVars, linkVars, remoteVars>>

\* Days of a community, in 100 Wh per quarter hour: summer, one that clears up
\* twice, spring, and winter without a covered hour.
Hourly(s) == [h \in 0..23 |-> 5 * s[h + 1]]
Household == Hourly(<<4,4,4,4,4,5,6,7,6,6,6,7,8,7,6,6,7,8,10,10,9,8,6,5>>)
MCDays ==
  <<[cons |-> Household, gen |-> Hourly(<<0,0,0,0,0,1,3,6,10,14,18,20,20,19,17,14,11,8,5,2,0,0,0,0>>)],
    [cons |-> Household, gen |-> Hourly(<<0,0,0,0,0,5,2,3,10,14,18,20,20,19,5,3,11,10,5,2,0,0,0,0>>)],
    [cons |-> Household, gen |-> Hourly(<<0,0,0,0,0,0,1,2,4,6,8,10,10,8,6,4,2,1,0,0,0,0,0,0>>)],
    [cons |-> Household, gen |-> Hourly(<<0,0,0,0,0,0,0,0,1,2,3,4,4,3,2,1,0,0,0,0,0,0,0,0>>)]>>

\* Batteries: small, big, and one whose size is not known yet.
Small == [kwh |-> 8, rate |-> 40, soc |-> 0]
Big   == [kwh |-> 20, rate |-> 50, soc |-> 0]
New   == [kwh |-> None, rate |-> None, soc |-> 0]
Member(id, kwh) ==
    [id |-> id, dynamic |-> TRUE, kwh |-> kwh, max |-> None, seen |-> TRUE, main |-> TRUE, discharge |-> TRUE]
Few  == {Member(1, 10)}
Many == {Member(1, 10), Member(2, 30), [Member(3, None) EXCEPT !.max = 20, !.main = FALSE],
         [Member(4, 20) EXCEPT !.seen = FALSE]}
MCScenes ==
  <<[days |-> <<1, 2>>, site |-> Small, socs |-> {10, 60}, wish |-> TRUE, fleet |-> Few],
    [days |-> <<2, 3>>, site |-> Big, socs |-> {10, 96}, wish |-> TRUE, fleet |-> Many],
    [days |-> <<3, 4>>, site |-> Small, socs |-> {10, 96}, wish |-> TRUE, fleet |-> Few],
    [days |-> <<2, 4>>, site |-> Small, socs |-> {50}, wish |-> FALSE, fleet |-> Few],
    [days |-> <<1, None>>, site |-> New, socs |-> {50}, wish |-> TRUE, fleet |-> Many]>>

\* Two weeks of measured days, one of them without a sum.
MCRadiation == [d \in -13..3 |-> IF d = 2 THEN -1 ELSE IF d < 0 THEN 2 + ((d + 14) % 4) ELSE 3]

\* The charge regulation with duties in tenths of a slot.  A share of at most a
\* tenth is no lock at all, so the smallest duty is two tenths.
MCDuties == {0, 2, 5, 9}
MCGaps   == {5, 10, 15}   \* no, one, two missed cycles

\* Operators and releases are alike: no definition tells one from another.
MCAlike == Permutations({op1, op2}) \cup Permutations({rel1, rel2})

ChainsInit ==
    /\ WindowInit /\ CloudInit /\ CrossoverInit /\ FeedInInit /\ PwmInit /\ ImageInit
    /\ LinksInit /\ RemoteInit
    /\ chain \in {"window", "clouds", "crossover", "feedin", "pwm", "image", "links", "remote"}

Others(vs) == UNCHANGED <<chain, vs>>

ChainsNext ==
    \/ /\ chain = "window" /\ WindowNext
       /\ Others(<<cloudVars, crossoverVars, feedInVars, pwmVars, imageVars, linkVars, remoteVars>>)
    \/ /\ chain = "clouds" /\ CloudNext
       /\ Others(<<windowVars, crossoverVars, feedInVars, pwmVars, imageVars, linkVars, remoteVars>>)
    \/ /\ chain = "crossover" /\ CrossoverNext
       /\ Others(<<windowVars, cloudVars, feedInVars, pwmVars, imageVars, linkVars, remoteVars>>)
    \/ /\ chain = "feedin" /\ FeedInNext
       /\ Others(<<windowVars, cloudVars, crossoverVars, pwmVars, imageVars, linkVars, remoteVars>>)
    \/ /\ chain = "pwm" /\ PwmNext
       /\ Others(<<windowVars, cloudVars, crossoverVars, feedInVars, imageVars, linkVars, remoteVars>>)
    \/ /\ chain = "image" /\ ImageNext
       /\ Others(<<windowVars, cloudVars, crossoverVars, feedInVars, pwmVars, linkVars, remoteVars>>)
    \/ /\ chain = "links" /\ LinksNext
       /\ Others(<<windowVars, cloudVars, crossoverVars, feedInVars, pwmVars, imageVars, remoteVars>>)
    \/ /\ chain = "remote" /\ RemoteNext
       /\ Others(<<windowVars, cloudVars, crossoverVars, feedInVars, pwmVars, imageVars, linkVars>>)

ChainsSpec == ChainsInit /\ [][ChainsNext]_chainVars
=============================================================================

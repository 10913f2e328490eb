---------------------------- MODULE MCCloudOutlook ----------------------------
(* The clouds and the yield of one answer, over a day and a half.           *)
EXTENDS CloudOutlook

\* Two weeks of measured days, one of them to come without a sum.
MCRadiation == [d \in -13..3 |-> IF d = 2 THEN Unknown ELSE IF d < 0 THEN 2 + ((d + 14) % 4) ELSE 3]
=============================================================================

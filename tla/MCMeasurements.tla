--------------------------- MODULE MCMeasurements ---------------------------
(* Measurements for TLC.                                                   *)
EXTENDS Measurements

OnFirst == [g \in Goroutines |-> 1]

\* Of the first goroutine three requests in the first run; of the second one
\* in each run.
UpToThree == <<[g \in Goroutines |-> IF g = 1 THEN 3 ELSE 1],
               [g \in Goroutines |-> IF g = 1 THEN 0 ELSE 1]>>

\* But not all of the first run's: either one goroutine three, or each at most one.
FewRequests == stat[1]["req"] + 2 * stat[2]["req"] <= 3

FewNext == Next /\ FewRequests'

FewSpec == Init /\ [][FewNext]_vars
=============================================================================

---------------------------- MODULE Reservation -----------------------------
(***************************************************************************)
(* What the ocean promises about capacity, without streams, commands,      *)
(* buffers, caches or counters: tests reserve concurrency on workers, a    *)
(* worker's reservations never add up to more than it has, a reservation   *)
(* is made in full and spread evenly or not at all, and only the loss of a *)
(* worker takes part of a reservation away.                                *)
(*                                                                         *)
(* Free capacity is not a variable here: it is what the reservations       *)
(* leave.  That Ocean implements this module is what makes its separately  *)
(* kept used counters right.                                               *)
(***************************************************************************)
EXTENDS Allocation

CONSTANTS Workers, Jobs, Caps, Requests

VARIABLES
    capacity,  \* capacity[w]: what worker w offers; 0 while it is detached
    active,    \* the tests that have a reservation (possibly an empty one)
    plan       \* plan[n][w]: what test n has reserved on worker w

vars == <<capacity, active, plan>>

Nothing == [w \in Workers |-> 0]

\* What the tests other than n leave free.
Room(n) ==
    [w \in Workers |-> capacity[w] - Total([m \in Jobs \ {n} |-> plan[m][w]])]

\* The ways of placing r units in full: within the room, and even among the
\* workers that still have some to spare.
Placements(room, r) ==
    {p \in [Workers -> 0..r] :
        /\ Total(p) = r
        /\ \A w \in Workers : p[w] <= room[w]
        /\ \A v, w \in Workers : p[v] + 1 < p[w] => p[v] = room[v]}

Init ==
    /\ capacity = Nothing
    /\ active = {}
    /\ plan = [n \in Jobs |-> Nothing]

\* A worker comes (back) with a fresh capacity; nothing is reserved on it.
Attach(w, c) ==
    /\ \A n \in Jobs : plan[n][w] = 0
    /\ capacity' = [capacity EXCEPT ![w] = c]
    /\ UNCHANGED <<active, plan>>

\* A worker is lost, and with it the reservations on it.
Detach(w) ==
    /\ capacity' = [capacity EXCEPT ![w] = 0]
    /\ plan' = [n \in Jobs |-> [plan[n] EXCEPT ![w] = 0]]
    /\ UNCHANGED active

\* A new test, or a test whose concurrency was edited, is placed in full.
Place(n, r) ==
    /\ UNCHANGED capacity
    /\ active' = active \cup {n}
    /\ plan' = [plan EXCEPT ![n] = plan'[n]]
    /\ plan'[n] \in Placements(Room(n), r)

Release(n) ==
    /\ UNCHANGED capacity
    /\ n \in active
    /\ active' = active \ {n}
    /\ plan' = [plan EXCEPT ![n] = Nothing]

\* The ocean's memory is lost.
Collapse ==
    /\ capacity' = Nothing
    /\ active' = {}
    /\ plan' = [n \in Jobs |-> Nothing]

Next ==
    \/ \E w \in Workers : Detach(w) \/ \E c \in Caps : Attach(w, c)
    \/ \E n \in Jobs : Release(n) \/ \E r \in Requests : Place(n, r)
    \/ Collapse

Spec == Init /\ [][Next]_vars
=============================================================================

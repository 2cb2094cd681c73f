------------------------------ MODULE Allocate ------------------------------
(***************************************************************************)
(* The loop of Ocean.allocate (master/services.go): in rounds, an equal    *)
(* share to every worker with room left, then the remainder one at a time. *)
(* It runs under the ocean's mutex, so nothing interleaves with it; the    *)
(* question is whether it computes what the rest of the ocean relies on.   *)
(***************************************************************************)
EXTENDS Allocation

CONSTANTS
    Ids,         \* worker ids, as their ranks in sort order
    MaxFree,     \* bound: the largest maxCap - used tried
    MaxRequest   \* bound: the largest requested concurrency tried

ASSUME AllocateAssumption ==
    /\ Ids \subseteq Nat /\ IsFiniteSet(Ids)
    /\ MaxFree \in Nat
    /\ MaxRequest \in Nat

VARIABLES
    requested,  \* the argument; a client may send any integer
    free,       \* avail of the code
    pc,         \* where the code is
    alloc,      \* the map under construction, 0 for an absent id
    remaining,  \* what is still to be handed out
    active,     \* the ids this round has still to visit
    share       \* what each of them is offered in this round

vars == <<requested, free, pc, alloc, remaining, active, share>>

-----------------------------------------------------------------------------

HasRoom(w) == free[w] - alloc[w] > 0

\* maxCap - used may be negative: the code takes it for 0.
Init ==
    /\ requested \in -1..MaxRequest
    /\ \E attached \in SUBSET Ids : \E room \in [attached -> -1..MaxFree] :
           free = [w \in attached |-> AtLeastZero(room[w])]
    /\ pc = "check"
    /\ alloc = [w \in DOMAIN free |-> 0]
    /\ remaining = requested
    /\ active = {}
    /\ share = 0

\* Reject up front what the fleet's total cannot cover.
Check ==
    /\ pc = "check"
    /\ pc' = IF requested > Total(free) THEN "rejected" ELSE "round"
    /\ UNCHANGED <<requested, free, alloc, remaining, active, share>>

\* BUG VARIANT of Round: the share is not raised to one for the remainder.
Round_NoFloor ==
    /\ pc = "round"
    /\ remaining > 0
    /\ active' = {w \in DOMAIN free : HasRoom(w)}
    /\ active' # {}
    /\ share' = remaining \div Cardinality(active')
    /\ pc' = "give"
    /\ UNCHANGED <<requested, free, alloc, remaining>>

\* BUG VARIANT of Round: the share is computed over all ids, full ones included.
Round_AllIds ==
    /\ pc = "round"
    /\ remaining > 0
    /\ active' = {w \in DOMAIN free : HasRoom(w)}
    /\ active' # {}
    /\ share' = IF remaining \div Cardinality(DOMAIN free) < 1
                THEN remaining
                ELSE remaining \div Cardinality(DOMAIN free)
    /\ pc' = "give"
    /\ UNCHANGED <<requested, free, alloc, remaining>>

\* Head of the outer loop: who still has room, and what is the share.
Round ==
    /\ pc = "round"
    /\ remaining > 0
    /\ active' = {w \in DOMAIN free : HasRoom(w)}
    /\ active' # {}
    /\ share' = IF remaining \div Cardinality(active') < 1
                THEN 1
                ELSE remaining \div Cardinality(active')
    /\ pc' = "give"
    /\ UNCHANGED <<requested, free, alloc, remaining>>

\* Body of the inner loop, ids in sort order.
Give ==
    /\ pc = "give"
    /\ active # {}
    /\ remaining > 0
    /\ LET w    == Min(active)
           give == Least(Least(share, free[w] - alloc[w]), remaining)
       IN  /\ alloc' = [alloc EXCEPT ![w] = @ + give]
           /\ remaining' = remaining - give
           /\ active' = active \ {w}
    /\ UNCHANGED <<requested, free, pc, share>>

EndRound ==
    /\ pc = "give"
    /\ active = {} \/ remaining <= 0
    /\ pc' = "round"
    /\ active' = {}
    /\ UNCHANGED <<requested, free, alloc, remaining, share>>

\* The outer loop ends: nothing remains, or nobody has room.
Finish ==
    /\ pc = "round"
    /\ remaining <= 0 \/ \A w \in DOMAIN free : ~HasRoom(w)
    /\ pc' = IF remaining > 0 THEN "rejected" ELSE "planned"
    /\ UNCHANGED <<requested, free, alloc, remaining, active, share>>

Next == Check \/ Round \/ Give \/ EndRound \/ Finish

Spec == Init /\ [][Next]_vars /\ WF_vars(Next)

-----------------------------------------------------------------------------

\* "distributes `requested` concurrency ... balanced and capped per worker"
\* (services.go:118-119): a request is rejected if and only if the fleet cannot
\* cover it (134-136; the late rejection at 170-172 never happens), and
\* otherwise the plan is the water-filling one, unit by unit.
ComputesAllocation ==
    /\ pc = "rejected" => ~Coverable(free, requested)
    /\ pc = "planned" => /\ Coverable(free, requested)
                         /\ alloc = Allocation(free, AtLeastZero(requested))

\* The loop always comes to an end (it holds the ocean's only mutex).
Terminates == <>(pc \in {"planned", "rejected"})
=============================================================================

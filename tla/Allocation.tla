----------------------------- MODULE Allocation -----------------------------
(***************************************************************************)
(* What Ocean.allocate (master/services.go) promises, as a formula instead *)
(* of a loop: the requested concurrency is poured over the workers like    *)
(* water over basins of different depths.  Every worker is filled to the   *)
(* same level, or to its free capacity if that is lower, and the few units *)
(* that do not make up one more level go one each to the first workers, in *)
(* id order, that still have room.  Allocate.tla checks that the code's    *)
(* loop computes exactly this.                                             *)
(*                                                                         *)
(* `free' maps every worker id to its free capacity (a natural number).    *)
(* A worker that is not attached has none.                                 *)
(***************************************************************************)
EXTENDS Integers, FiniteSets, FiniteSetsExt, Functions

Least(a, b) == IF a < b THEN a ELSE b
AtLeastZero(a) == IF a < 0 THEN 0 ELSE a

\* The units a function hands out in all.
Total(f) == SumFunction(f)

\* Every worker filled up to level l.
FilledTo(free, l) == [w \in DOMAIN free |-> Least(free[w], l)]

\* The highest common level that does not exceed the request.
Level(free, requested) ==
    Max({0} \cup {l \in 1..requested : Total(FilledTo(free, l)) <= requested})

\* Whether a request can be covered at all.
Coverable(free, requested) == requested <= Total(free)

\* The plan for a coverable request; a worker that gets nothing is mapped to 0.
Allocation(free, requested) ==
    LET level  == Level(free, requested)
        base   == FilledTo(free, level)
        rest   == requested - Total(base)
        hungry == {w \in DOMAIN free : free[w] > level}
        lucky  == {w \in hungry : Cardinality({v \in hungry : v < w}) < rest}
    IN  [w \in DOMAIN free |-> IF w \in lucky THEN base[w] + 1 ELSE base[w]]
=============================================================================

------------------------- MODULE MeasurementsProofs -------------------------
(***************************************************************************)
(* Proofs about the numbers of a test: types, what the ocean shows of a    *)
(* worker never goes back, shown extremes fit together, and the shown      *)
(* histogram keeps up with the count.                                      *)
(*                                                                         *)
(* The inductive invariant MeasureInv follows the numbers of one worker    *)
(* from its goroutines to the ocean: the commands on their way start runs  *)
(* in order (RunsInOrder), the loads that are left are the last ones       *)
(* (LoadsInOrder), every report fits (ReportsFit) and none falls back      *)
(* (ReportsFollow), the one that is being built counted with what is still *)
(* to be read of the goroutines.  It is stated of the parts of a state as  *)
(* operators with parameters, so that each step is a lemma about them.     *)
(***************************************************************************)
EXTENDS Measurements, AllocationProofs

-----------------------------------------------------------------------------
(* Counters.                                                               *)

\* Counter c of an earlier metric, and of a later one of the same run.
AtMost(c, q, r) == IF c = "min" THEN q > 0 => r \in 1..q ELSE q <= r

\* The counters of the goroutines in S have gone on from st to st2.
Grows(S, st, st2) == \A g \in S, c \in Counters : AtMost(c, st[g][c], st2[g][c])

\* The function that hands out counter c of the goroutines in S.
Share(c, S, st) == [g \in Goroutines |-> IF g \in S THEN st[g][c] ELSE 0]

\* q will not be ahead of m once counter c of the goroutines in S is added in.
Within(c, q, m, S, st) ==
    IF c = "max" THEN q <= m \/ \E g \in S : q <= st[g][c]
    ELSE IF c = "min" THEN q > 0 => m \in 1..q \/ \E g \in S : st[g][c] \in 1..q
    ELSE q <= m + Total(Share(c, S, st))

\* What it is to add a counter in.
LEMMA AddInAt ==
    ASSUME NEW m \in Metric, NEW c \in Counters, NEW v \in Nat
    PROVE  /\ AddIn(m, c, v) \in Metric
           /\ \A d \in Counters \ {c} : AddIn(m, c, v)[d] = m[d]
           /\ AddIn(m, c, v)[c] = IF c = "max" THEN Greater(m[c], v)
                                  ELSE IF c = "min" THEN Smaller(m[c], v) ELSE m[c] + v
BY DEF AddIn, Metric, Greater, Smaller, Counters

\* A counter of one goroutine never falls back when it is updated.
LEMMA AddInGrows ==
    ASSUME NEW m \in Metric, NEW c \in Counters, NEW v \in Nat
    PROVE  \A d \in Counters : AtMost(d, m[d], AddIn(m, c, v)[d])
<1> TAKE d \in Counters
<1>1. m[d] \in Nat
  BY DEF Metric
<1>2. CASE d # c
  <2>1. AddIn(m, c, v)[d] = m[d]
    BY <1>2, AddInAt
  <2> QED BY <1>1, <2>1 DEF AtMost
<1>3. CASE d = c
  BY <1>1, <1>3, AddInAt DEF AtMost, Greater, Smaller
<1> QED BY <1>2, <1>3

\* Nobody falls back by standing still.
LEMMA StillGrows ==
    ASSUME NEW S \in SUBSET Goroutines, NEW st \in [Goroutines -> Metric], NEW st2,
           \A g \in S : st2[g] = st[g]
    PROVE  Grows(S, st, st2)
BY DEF Grows, AtMost, Metric

\* A share is a sum of natural numbers.
LEMMA ShareType ==
    ASSUME NEW c \in Counters, NEW S \in SUBSET Goroutines, NEW st \in [Goroutines -> Metric]
    PROVE  Share(c, S, st) \in [Goroutines -> Nat] /\ Total(Share(c, S, st)) \in Nat
<1>1. Share(c, S, st) \in [Goroutines -> Nat]
  BY DEF Share, Metric
<1>2. IsFiniteSet(Goroutines)
  BY MeasurementsAssumption
<1> QED BY <1>1, <1>2, TotalType

\* Nobody has no share.
LEMMA ShareOfNone ==
    ASSUME NEW c \in Counters, NEW st \in [Goroutines -> Metric]
    PROVE  Total(Share(c, {}, st)) = 0
<1>1. Share(c, {}, st) = [g \in Goroutines |-> 0]
  BY DEF Share
<1> QED BY <1>1, TotalOfZeros, MeasurementsAssumption

\* One goroutine more, and its counter is added.
LEMMA ShareOfOneMore ==
    ASSUME NEW c \in Counters, NEW S \in SUBSET Goroutines, NEW st \in [Goroutines -> Metric],
           NEW g \in Goroutines \ S
    PROVE  Total(Share(c, S \cup {g}, st)) = Total(Share(c, S, st)) + st[g][c]
<1>1. Share(c, S \cup {g}, st) = [Share(c, S, st) EXCEPT ![g] = st[g][c]]
  BY DEF Share
<1>2. Share(c, S, st)[g] = 0 /\ st[g][c] \in Nat
  BY DEF Share, Metric
<1>3. Share(c, S, st) \in [Goroutines -> Nat] /\ Total(Share(c, S, st)) \in Nat
      /\ IsFiniteSet(Goroutines)
  BY ShareType, MeasurementsAssumption
<1>4. Total([Share(c, S, st) EXCEPT ![g] = st[g][c]])
        = Total(Share(c, S, st)) - Share(c, S, st)[g] + st[g][c]
  BY <1>2, <1>3, TotalUpdate
<1> QED BY <1>1, <1>2, <1>3, <1>4

\* One goroutine less.
LEMMA ShareOfOneLess ==
    ASSUME NEW c \in Counters, NEW S \in SUBSET Goroutines, NEW st \in [Goroutines -> Metric],
           NEW g \in S
    PROVE  Total(Share(c, S, st)) = Total(Share(c, S \ {g}, st)) + st[g][c]
<1> DEFINE T == S \ {g}
<1>1. T \in SUBSET Goroutines /\ g \in Goroutines \ T /\ T \cup {g} = S
  OBVIOUS
<1> HIDE DEF T
<1>2. Total(Share(c, T \cup {g}, st)) = Total(Share(c, T, st)) + st[g][c]
  BY <1>1, ShareOfOneMore
<1> QED BY <1>1, <1>2 DEF T

\* A share grows with its goroutines.
LEMMA ShareGrows ==
    ASSUME NEW c \in Counters \ {"min"}, NEW S \in SUBSET Goroutines,
           NEW st \in [Goroutines -> Metric], NEW st2 \in [Goroutines -> Metric],
           Grows(S, st, st2)
    PROVE  Total(Share(c, S, st)) <= Total(Share(c, S, st2))
<1>1. Share(c, S, st) \in [Goroutines -> Nat] /\ Share(c, S, st2) \in [Goroutines -> Nat]
  BY ShareType
<1>2. \A g \in Goroutines : Share(c, S, st)[g] <= Share(c, S, st2)[g]
  BY DEF Share, Grows, AtMost, Metric
<1> QED BY <1>1, <1>2, TotalMonotone, MeasurementsAssumption

\* What will not be ahead still will not be when the goroutines have gone on, ...
LEMMA WithinGrows ==
    ASSUME NEW c \in Counters, NEW q \in Nat, NEW m \in Nat, NEW S \in SUBSET Goroutines,
           NEW st \in [Goroutines -> Metric], NEW st2 \in [Goroutines -> Metric],
           Grows(S, st, st2), Within(c, q, m, S, st)
    PROVE  Within(c, q, m, S, st2)
<1>1. CASE c = "max"
  BY <1>1 DEF Within, Grows, AtMost, Metric
<1>2. CASE c = "min"
  <2>1. ASSUME NEW g \in S, q > 0, st[g][c] \in 1..q PROVE st2[g][c] \in 1..q
    <3>1. st[g][c] \in Nat /\ st2[g][c] \in Nat /\ st2[g][c] \in 1..st[g][c]
      BY <1>2, <2>1 DEF Grows, AtMost, Metric
    <3> QED BY <2>1, <3>1
  <2> QED BY <1>2, <2>1 DEF Within
<1>3. CASE c \notin {"max", "min"}
  <2>1. Total(Share(c, S, st)) <= Total(Share(c, S, st2))
    BY <1>3, ShareGrows
  <2>2. Total(Share(c, S, st)) \in Nat /\ Total(Share(c, S, st2)) \in Nat
    BY ShareType
  <2> QED BY <1>3, <2>1, <2>2 DEF Within
<1> QED BY <1>1, <1>2, <1>3

\* ... when one of them has been added in, ...
LEMMA WithinLoads ==
    ASSUME NEW c \in Counters, NEW q \in Nat, NEW m \in Metric, NEW S \in SUBSET Goroutines,
           NEW st \in [Goroutines -> Metric], NEW g \in S, Within(c, q, m[c], S, st)
    PROVE  Within(c, q, AddIn(m, c, st[g][c])[c], S \ {g}, st)
<1>0. m[c] \in Nat /\ \A h \in S : st[h][c] \in Nat
  BY DEF Metric
<1> DEFINE v == st[g][c]
<1>a. AddIn(m, c, v)[c] = IF c = "max" THEN Greater(m[c], v)
                          ELSE IF c = "min" THEN Smaller(m[c], v) ELSE m[c] + v
  <2>1. v \in Nat
    BY DEF Metric
  <2> HIDE DEF v
  <2> QED BY <2>1, AddInAt
<1>1. CASE c = "max"
  <2>1. AddIn(m, c, st[g][c])[c] = Greater(m[c], st[g][c])
    BY <1>1, <1>a
  <2> QED BY <1>0, <1>1, <2>1 DEF Within, Greater
<1>2. CASE c = "min"
  <2>1. AddIn(m, c, st[g][c])[c] = Smaller(m[c], st[g][c])
    BY <1>2, <1>a
  <2> QED BY <1>0, <1>2, <2>1 DEF Within, Smaller
<1>3. CASE c \notin {"max", "min"}
  <2>1. AddIn(m, c, st[g][c])[c] = m[c] + st[g][c]
    BY <1>3, <1>a
  <2>2. Total(Share(c, S, st)) = Total(Share(c, S \ {g}, st)) + st[g][c]
    BY ShareOfOneLess
  <2>3. Total(Share(c, S \ {g}, st)) \in Nat
    BY ShareType
  <2> QED BY <1>0, <1>3, <2>1, <2>2, <2>3 DEF Within
<1> QED BY <1>1, <1>2, <1>3

\* ... and when there is nobody left.
LEMMA WithinNone ==
    ASSUME NEW c \in Counters, NEW q \in Nat, NEW m \in Nat, NEW st \in [Goroutines -> Metric]
    PROVE  Within(c, q, m, {}, st) <=> AtMost(c, q, m)
BY ShareOfNone DEF Within, AtMost

\* What has been read of some goroutines is not ahead of them.
LEMMA WithinRead ==
    ASSUME NEW c \in Counters, NEW m \in Metric, NEW S \in SUBSET Goroutines,
           NEW st \in [Goroutines -> Metric], NEW g \in Goroutines \ S,
           Within(c, m[c], 0, S, st)
    PROVE  Within(c, AddIn(m, c, st[g][c])[c], 0, S \cup {g}, st)
<1>0. m[c] \in Nat /\ st[g][c] \in Nat /\ \A h \in S : st[h][c] \in Nat
  BY DEF Metric
<1> DEFINE v == st[g][c]
<1>a. AddIn(m, c, v)[c] = IF c = "max" THEN Greater(m[c], v)
                          ELSE IF c = "min" THEN Smaller(m[c], v) ELSE m[c] + v
  <2>1. v \in Nat
    BY DEF Metric
  <2> HIDE DEF v
  <2> QED BY <2>1, AddInAt
<1>1. CASE c = "max"
  <2>1. AddIn(m, c, st[g][c])[c] = Greater(m[c], st[g][c])
    BY <1>1, <1>a
  <2> QED BY <1>0, <1>1, <2>1 DEF Within, Greater
<1>2. CASE c = "min"
  <2>1. AddIn(m, c, st[g][c])[c] = Smaller(m[c], st[g][c])
    BY <1>2, <1>a
  <2> QED BY <1>0, <1>2, <2>1 DEF Within, Smaller
<1>3. CASE c \notin {"max", "min"}
  <2>1. AddIn(m, c, st[g][c])[c] = m[c] + st[g][c]
    BY <1>3, <1>a
  <2>2. Total(Share(c, S \cup {g}, st)) = Total(Share(c, S, st)) + st[g][c]
    BY ShareOfOneMore
  <2>3. Total(Share(c, S, st)) \in Nat
    BY ShareType
  <2> QED BY <1>0, <1>3, <2>1, <2>2, <2>3 DEF Within
<1> QED BY <1>1, <1>2, <1>3

-----------------------------------------------------------------------------
(* What holds of the way from one worker to the client: n is the latest    *)
(* run, q the commands under way, cur the run of the service, d the draft, *)
(* k the cached report, reps the reports under way, u the loads to make,   *)
(* G the goroutines of the worker and st the counters of all.              *)

\* The goroutines of which counter c is among the loads u.
Left(u, c) == {g \in Goroutines : <<g, c>> \in u}

\* The latest report that is on the way or cached.
LatestOf(reps, k) == IF reps = <<>> THEN k ELSE reps[Len(reps)]

KnownRuns(cur, d, k, reps) == {cur, d.run, k.run} \cup {reps[i].run : i \in 1..Len(reps)}

\* A run is newer than all before it.
RunsInOrder(n, q, cur, d, k, reps) ==
    /\ \A r \in KnownRuns(cur, d, k, reps) : r <= n /\ (cur > 0 => r <= cur)
    /\ \A i \in 1..Len(q) :
          /\ q[i] <= n
          /\ q[i] > 0 => /\ \A r \in KnownRuns(cur, d, k, reps) : r < q[i]
                         /\ \A j \in 1..(i - 1) : q[j] < q[i]

\* What is called a report is one.
ReportsReal(d, k, reps) ==
    /\ d.run = 0 => d = NoReport
    /\ k.run = 0 => k = NoReport
    /\ \A i \in 1..Len(reps) : reps[i].run > 0

\* The loads of u are the last ones of their goroutines.
LastLoads(u) ==
    \A p \in u, c \in Counters : LoadOrder[p[2]] < LoadOrder[c] => <<p[1], c>> \in u

\* The load p is the next one.
Soonest(p, u) == p \in u /\ \A q \in u \ {p} : Sooner(p, q)

\* The loads that are left: of goroutines of the worker, and of each the last ones.
LoadsInOrder(cur, d, u, G) ==
    /\ u \subseteq G \X Counters
    /\ u # {} => d.run = cur /\ cur > 0
    /\ LastLoads(u)

\* Extremes of a metric m with the loads u left: a minimum that fits the
\* maximum has been read, or is about to be.
ExtremesFit(m, u, st) ==
    m["max"] > 0 => \/ m["min"] \in 1..m["max"]
                    \/ \E g \in Goroutines : /\ <<g, "min">> \in u /\ <<g, "max">> \notin u
                                             /\ st[g]["min"] \in 1..m["max"]

\* Responses of a metric m with the loads u left: at most one of each goroutine
\* that has been read is not in the histogram, or about to be.
HistogramFits(m, u, G, st) ==
    m["res"] <= m["hist"] + Cardinality(G \ Left(u, "res"))
                + Total(Share("hist", Left(u, "hist") \ Left(u, "res"), st))

Fits(m, u, G, st) == ExtremesFit(m, u, st) /\ HistogramFits(m, u, G, st)

ReportsFit(d, k, reps, u, G, st) ==
    /\ Fits(d.metric, u, G, st)
    /\ Fits(k.metric, {}, G, st)
    /\ \A i \in 1..Len(reps) : Fits(reps[i].metric, {}, G, st)

\* A report of run r and metric m with the loads u left will not be before q.
Follows(q, r, m, u, st) ==
    \/ q.run < r
    \/ q.run = r /\ \A c \in Counters : Within(c, q.metric[c], m[c], Left(u, c), st)

\* Reports do not fall back: those under way, the one that is being built, and
\* the one that would be built next.
ReportsFollow(cur, d, k, reps, u, G, st) ==
    /\ \A i \in 1..Len(reps) : NotBefore(reps[i], IF i = 1 THEN k ELSE reps[i - 1])
    /\ d.run > 0 => Follows(LatestOf(reps, k), d.run, d.metric, u, st)
    /\ d.run = 0 /\ cur > 0 => Follows(LatestOf(reps, k), cur, Zero, G \X Counters, st)
    /\ d.run > 0 /\ d.run = cur
          => \A c \in Counters : Within(c, d.metric[c], 0, G \ Left(u, c), st)

-----------------------------------------------------------------------------
(* Runs.                                                                   *)

\* Runs are numbers.
LEMMA KnownType ==
    ASSUME NEW cur \in Nat, NEW d \in ReportType, NEW k \in ReportType,
           NEW reps \in Seq(ReportType)
    PROVE  KnownRuns(cur, d, k, reps) \subseteq Nat
<1>1. \A i \in 1..Len(reps) : reps[i] \in ReportType
  OBVIOUS
<1>2. d.run \in Nat /\ k.run \in Nat /\ \A i \in 1..Len(reps) : reps[i].run \in Nat
  BY <1>1 DEF ReportType
<1> QED BY <1>2 DEF KnownRuns

\* A command of a new run, or of none.
LEMMA RunsCommanded ==
    ASSUME NEW n \in Nat, NEW q \in Seq(Nat), NEW cur \in Nat, NEW d \in ReportType,
           NEW k \in ReportType, NEW reps \in Seq(ReportType),
           RunsInOrder(n, q, cur, d, k, reps),
           NEW n2 \in Nat, n <= n2, NEW x \in {0, n + 1}, x <= n2, NEW k2 \in {k, NoReport}
    PROVE  RunsInOrder(n2, Append(q, x), cur, d, k2, reps)
<1> DEFINE K == KnownRuns(cur, d, k, reps)
           K2 == KnownRuns(cur, d, k2, reps)
           q2 == Append(q, x)
<1>1. K2 \subseteq K \cup {0} /\ K \subseteq Nat
  <2>1. k2.run \in {k.run, 0}
    BY DEF NoReport
  <2>2. K2 \subseteq K \cup {0}
    BY <2>1 DEF KnownRuns
  <2> HIDE DEF K
  <2> QED BY <2>2, KnownType DEF K
<1>2. Len(q2) = Len(q) + 1 /\ q2[Len(q) + 1] = x /\ \A i \in 1..Len(q) : q2[i] = q[i]
  OBVIOUS
<1>3. /\ \A r \in K : r <= n /\ (cur > 0 => r <= cur)
      /\ \A i \in 1..Len(q) : /\ q[i] <= n
                              /\ q[i] > 0 => (\A r \in K : r < q[i])
                              /\ q[i] > 0 => (\A j \in 1..(i - 1) : q[j] < q[i])
  BY DEF RunsInOrder
<1>4. Len(q) \in Nat /\ \A i \in 1..Len(q) : q[i] \in Nat
  OBVIOUS
<1> HIDE DEF K, K2, q2
<1>5. \A r \in K2 : r <= n2 /\ (cur > 0 => r <= cur)
  BY <1>1, <1>3
<1>6. ASSUME NEW i \in 1..Len(q2)
      PROVE  /\ q2[i] <= n2
             /\ q2[i] > 0 => /\ \A r \in K2 : r < q2[i]
                             /\ \A j \in 1..(i - 1) : q2[j] < q2[i]
  <2>1. CASE i \in 1..Len(q)
    <3>1. q2[i] = q[i] /\ \A j \in 1..(i - 1) : q2[j] = q[j]
      BY <1>2, <1>4, <2>1
    <3> QED BY <1>1, <1>3, <1>4, <2>1, <3>1
  <2>2. CASE i = Len(q) + 1
    <3>1. q2[i] = x /\ \A j \in 1..(i - 1) : j \in 1..Len(q) /\ q2[j] = q[j]
      BY <1>2, <1>4, <2>2
    <3> QED BY <1>1, <1>3, <1>4, <3>1
  <2> QED BY <1>2, <1>4, <2>1, <2>2
<1> QED BY <1>5, <1>6 DEF RunsInOrder, K2, q2

\* A command is handled.
LEMMA RunsHandled ==
    ASSUME NEW n \in Nat, NEW q \in Seq(Nat), NEW cur \in Nat, NEW d \in ReportType,
           NEW k \in ReportType, NEW reps \in Seq(ReportType),
           RunsInOrder(n, q, cur, d, k, reps), q # <<>>
    PROVE  /\ RunsInOrder(n, Tail(q), Head(q), d, k, reps)
           /\ Head(q) \in Nat
           /\ \A r \in KnownRuns(cur, d, k, reps) : Head(q) > 0 => r < Head(q)
<1> DEFINE K == KnownRuns(cur, d, k, reps)
           K2 == KnownRuns(q[1], d, k, reps)
           q2 == Tail(q)
<1>1. K2 \subseteq K \cup {q[1]} /\ K \subseteq Nat
  <2>1. K2 \subseteq K \cup {q[1]}
    BY DEF KnownRuns
  <2> HIDE DEF K
  <2> QED BY <2>1, KnownType DEF K
<1>2. Len(q) \in Nat \ {0} /\ Len(q2) = Len(q) - 1 /\ \A i \in 1..Len(q2) : q2[i] = q[i + 1]
  OBVIOUS
<1>3. /\ \A r \in K : r <= n
      /\ \A i \in 1..Len(q) : /\ q[i] <= n
                              /\ q[i] > 0 => (\A r \in K : r < q[i])
                              /\ q[i] > 0 => (\A j \in 1..(i - 1) : q[j] < q[i])
  BY DEF RunsInOrder
<1>4. Head(q) = q[1] /\ \A i \in 1..Len(q) : q[i] \in Nat
  OBVIOUS
<1> HIDE DEF K, K2, q2
<1>5. \A r \in K2 : r <= n /\ (q[1] > 0 => r <= q[1])
  BY <1>1, <1>2, <1>3, <1>4
<1>6. ASSUME NEW i \in 1..Len(q2)
      PROVE  /\ q2[i] <= n
             /\ q2[i] > 0 => /\ \A r \in K2 : r < q2[i]
                             /\ \A j \in 1..(i - 1) : q2[j] < q2[i]
  <2>1. i + 1 \in 1..Len(q) /\ q2[i] = q[i + 1]
    BY <1>2
  <2>2. ASSUME NEW j \in 1..(i - 1) PROVE q2[j] = q[j + 1] /\ j + 1 \in 1..i
    BY <1>2
  <2>3. 1 \in 1..((i + 1) - 1) /\ \A j \in 1..(i - 1) : j + 1 \in 1..((i + 1) - 1)
    BY <1>2
  <2>4. q[i + 1] <= n /\ (q[i + 1] > 0 => \A r \in K : r < q[i + 1])
    BY <1>3, <2>1
  <2>5. q[i + 1] > 0 => \A j \in 1..((i + 1) - 1) : q[j] < q[i + 1]
    BY <1>3, <2>1
  <2>6. q2[i] > 0 => \A r \in K2 : r < q2[i]
    BY <1>1, <2>1, <2>3, <2>4, <2>5
  <2>7. q2[i] > 0 => \A j \in 1..(i - 1) : q2[j] < q2[i]
    BY <2>1, <2>2, <2>3, <2>5
  <2> QED BY <2>1, <2>4, <2>6, <2>7
<1>7. RunsInOrder(n, q2, q[1], d, k, reps)
  BY <1>5, <1>6 DEF RunsInOrder, K2
<1> QED BY <1>2, <1>3, <1>4, <1>7 DEF K, q2

\* A report is begun, sent or received.
LEMMA RunsSettled ==
    ASSUME NEW n \in Nat, NEW q \in Seq(Nat), NEW cur \in Nat, NEW d \in ReportType,
           NEW k \in ReportType, NEW reps \in Seq(ReportType),
           RunsInOrder(n, q, cur, d, k, reps),
           NEW d2, NEW k2, NEW reps2,
           KnownRuns(cur, d2, k2, reps2) \subseteq KnownRuns(cur, d, k, reps) \cup {0}
    PROVE  RunsInOrder(n, q, cur, d2, k2, reps2)
BY DEF RunsInOrder

\* The latest report is of a known run.
LEMMA LatestKnown ==
    ASSUME NEW cur \in Nat, NEW d \in ReportType, NEW k \in ReportType,
           NEW reps \in Seq(ReportType)
    PROVE  /\ LatestOf(reps, k) \in ReportType
           /\ LatestOf(reps, k).run \in KnownRuns(cur, d, k, reps)
<1>1. CASE reps = <<>>
  BY <1>1 DEF LatestOf, KnownRuns
<1>2. CASE reps # <<>>
  <2>1. Len(reps) \in 1..Len(reps) /\ reps[Len(reps)] \in ReportType
    BY <1>2
  <2>2. LatestOf(reps, k) = reps[Len(reps)]
    BY <1>2 DEF LatestOf
  <2>3. reps[Len(reps)].run \in {reps[i].run : i \in 1..Len(reps)}
    BY <2>1
  <2> QED BY <2>1, <2>2, <2>3 DEF KnownRuns
<1> QED BY <1>1, <1>2

\* A goroutine with counters s that still has to make updates t, for a
\* response that took l.
Recording(t, l, s) ==
    /\ t \in {<<>>, <<"hist">>, <<"max", "hist">>, <<"min", "max", "hist">>, Updates}
    /\ t # <<>> => l > 0
    /\ s["res"] = s["hist"] + (IF t \in {<<>>, Updates} THEN 0 ELSE 1)
    /\ s["max"] > 0 => s["min"] \in 1..s["max"]
    /\ t = <<"max", "hist">> => s["min"] \in 1..l

-----------------------------------------------------------------------------
(* What is reported fits together.                                         *)

\* Members of a set of goroutines can be counted.
LEMMA SomeGoroutines ==
    ASSUME NEW S \in SUBSET Goroutines
    PROVE  IsFiniteSet(S) /\ Cardinality(S) \in Nat
BY MeasurementsAssumption, FS_Subset, FS_CardinalityType

\* An empty metric fits.
LEMMA FitsEmpty ==
    ASSUME NEW u, NEW G \in SUBSET Goroutines, NEW st \in [Goroutines -> Metric]
    PROVE  Fits(Zero, u, G, st)
<1>1. Zero \in Metric /\ \A c \in Counters : Zero[c] = 0
  BY DEF Zero, Metric
<1>2. ExtremesFit(Zero, u, st)
  BY <1>1 DEF ExtremesFit, Counters
<1>3. Cardinality(G \ Left(u, "res")) \in Nat
  BY SomeGoroutines
<1>4. Total(Share("hist", Left(u, "hist") \ Left(u, "res"), st)) \in Nat
  BY ShareType DEF Left, Counters
<1>5. HistogramFits(Zero, u, G, st)
  BY <1>1, <1>3, <1>4 DEF HistogramFits, Counters
<1> QED BY <1>2, <1>5 DEF Fits

\* It still fits when goroutines that are still to be read have gone on.
LEMMA FitsGrows ==
    ASSUME NEW m \in Metric, NEW G \in SUBSET Goroutines, NEW u \in SUBSET (G \X Counters),
           NEW st \in [Goroutines -> Metric], NEW st2 \in [Goroutines -> Metric],
           NEW S \in SUBSET Goroutines, \A c \in Counters : Left(u, c) \subseteq S,
           Grows(S, st, st2), Fits(m, u, G, st)
    PROVE  Fits(m, u, G, st2)
<1>1. ExtremesFit(m, u, st2)
  <2>1. ASSUME NEW g \in Goroutines, <<g, "min">> \in u, m["max"] > 0,
               st[g]["min"] \in 1..m["max"]
        PROVE  st2[g]["min"] \in 1..m["max"]
    <3>1. g \in S
      BY <2>1 DEF Left, Counters
    <3>2. m["max"] \in Nat /\ st[g]["min"] \in Nat /\ st2[g]["min"] \in Nat
      BY DEF Metric, Counters
    <3>3. st[g]["min"] > 0 => st2[g]["min"] \in 1..st[g]["min"]
      BY <3>1 DEF Grows, AtMost, Counters
    <3> QED BY <2>1, <3>2, <3>3
  <2> QED BY <2>1 DEF Fits, ExtremesFit
<1>2. HistogramFits(m, u, G, st2)
  <2> DEFINE T == Left(u, "hist") \ Left(u, "res")
  <2>1. T \in SUBSET Goroutines /\ T \subseteq S
    BY DEF Left, Counters
  <2> HIDE DEF T
  <2>2. Grows(T, st, st2)
    BY <2>1 DEF Grows
  <2>3. "hist" \in Counters \ {"min"}
    BY DEF Counters
  <2>4. Total(Share("hist", T, st)) <= Total(Share("hist", T, st2))
    BY <2>1, <2>2, <2>3, ShareGrows
  <2>5. Total(Share("hist", T, st)) \in Nat /\ Total(Share("hist", T, st2)) \in Nat
    BY <2>1, <2>3, ShareType
  <2>6. m["res"] \in Nat /\ m["hist"] \in Nat
    BY DEF Metric, Counters
  <2>7. Cardinality(G \ Left(u, "res")) \in Nat
    BY SomeGoroutines
  <2>8. m["res"] <= m["hist"] + Cardinality(G \ Left(u, "res")) + Total(Share("hist", T, st))
    BY DEF T, Fits, HistogramFits
  <2>9. m["res"] <= m["hist"] + Cardinality(G \ Left(u, "res")) + Total(Share("hist", T, st2))
    BY <2>4, <2>5, <2>6, <2>7, <2>8
  <2> QED BY <2>9 DEF T, HistogramFits
<1> QED BY <1>1, <1>2 DEF Fits

\* Responses are read before the histogram, and maxima before minima.
LEMMA OrderOfLoads ==
    /\ LoadOrder["res"] < LoadOrder["hist"] /\ LoadOrder["max"] < LoadOrder["min"]
    /\ {"res", "hist", "max", "min"} \subseteq Counters
    /\ \A c \in Counters : LoadOrder[c] \in Nat
BY DEF LoadOrder, Counters

\* The load that comes first: those that come later are left, those before not.
LEMMA FirstLoad ==
    ASSUME NEW u \in SUBSET (Goroutines \X Counters), NEW g \in Goroutines, NEW c \in Counters,
           Soonest(<<g, c>>, u), LastLoads(u)
    PROVE  \A d \in Counters : /\ LoadOrder[c] < LoadOrder[d] => g \in Left(u, d)
                               /\ LoadOrder[d] < LoadOrder[c] => g \notin Left(u, d)
<1> TAKE d \in Counters
<1>1. ASSUME LoadOrder[c] < LoadOrder[d] PROVE g \in Left(u, d)
  BY <1>1 DEF Left, Soonest, LastLoads
<1>2. ASSUME LoadOrder[d] < LoadOrder[c], g \in Left(u, d) PROVE FALSE
  <2>1. <<g, d>> \in u /\ d # c
    BY <1>2 DEF Left, LoadOrder, Counters
  <2>2. Sooner(<<g, c>>, <<g, d>>)
    BY <2>1 DEF Soonest
  <2>3. g \in Nat /\ LoadOrder[c] \in Nat /\ LoadOrder[d] \in Nat
    BY MeasurementsAssumption DEF LoadOrder, Counters
  <2>4. LoadOrder[c] < LoadOrder[d]
    BY <2>2, <2>3 DEF Sooner
  <2> QED BY <1>2, <2>3, <2>4
<1> QED BY <1>1, <1>2

\* The extremes fit after the next load: of a maximum, whose minimum is still
\* to be read, or of a minimum, whose maximum has been.
LEMMA ExtremesFitLoad ==
    ASSUME NEW m \in Metric, NEW u \in SUBSET (Goroutines \X Counters),
           NEW st \in [Goroutines -> Metric], NEW g \in Goroutines, NEW c \in Counters,
           Soonest(<<g, c>>, u), LastLoads(u),
           st[g]["max"] > 0 => st[g]["min"] \in 1..st[g]["max"],
           ExtremesFit(m, u, st)
    PROVE  ExtremesFit(AddIn(m, c, st[g][c]), u \ {<<g, c>>}, st)
<1> DEFINE v == st[g][c]
           m2 == AddIn(m, c, v)
           u2 == u \ {<<g, c>>}
<1>1. /\ m["max"] \in Nat /\ m["min"] \in Nat /\ v \in Nat
      /\ \A h \in Goroutines : st[h]["min"] \in Nat /\ st[h]["max"] \in Nat
  BY DEF Metric, Counters
<1>2. \A d \in Counters \ {c} : m2[d] = m[d]
  <2> HIDE DEF v
  <2> QED BY <1>1, AddInAt
<1>3. /\ c = "max" => m2["max"] = Greater(m["max"], v)
      /\ c = "min" => m2["min"] = Smaller(m["min"], v)
  <2> HIDE DEF v
  <2>1. m2[c] = IF c = "max" THEN Greater(m[c], v) ELSE IF c = "min" THEN Smaller(m[c], v)
                ELSE m[c] + v
    BY <1>1, AddInAt
  <2> QED BY <2>1
<1>4. \A d \in Counters : /\ LoadOrder[c] < LoadOrder[d] => <<g, d>> \in u
                          /\ LoadOrder[d] < LoadOrder[c] => <<g, d>> \notin u
  BY FirstLoad DEF Left
<1>5. /\ c = "max" => <<g, "min">> \in u
      /\ c = "min" => <<g, "max">> \notin u
  BY <1>4, OrderOfLoads
<1> DEFINE Fit(h, n, w) == <<h, "min">> \in w /\ <<h, "max">> \notin w /\ st[h]["min"] \in 1..n["max"]
<1>6. m["max"] > 0 => m["min"] \in 1..m["max"] \/ \E h \in Goroutines : Fit(h, m, u)
  BY DEF ExtremesFit
<1> SUFFICES ASSUME m2["max"] > 0
             PROVE  m2["min"] \in 1..m2["max"] \/ \E h \in Goroutines : Fit(h, m2, u2)
  BY DEF ExtremesFit
<1>7. CASE c = "max"
  <2>1. m2["min"] = m["min"]
    BY <1>2, <1>7 DEF Counters
  <2>2. CASE v > m["max"]
    <3>1. m2["max"] = v
      BY <1>1, <1>3, <1>7, <2>2 DEF Greater
    <3>2. Fit(g, m2, u2)
      BY <1>1, <1>5, <1>7, <2>2, <3>1
    <3> QED BY <3>2
  <2>3. CASE ~(v > m["max"])
    <3>1. m2["max"] = m["max"]
      BY <1>1, <1>3, <1>7, <2>3 DEF Greater
    <3>2. ASSUME NEW h \in Goroutines, Fit(h, m, u) PROVE Fit(h, m2, u2)
      BY <1>7, <3>1, <3>2
    <3> HIDE DEF Fit, m2, u2
    <3> QED BY <1>6, <2>1, <3>1, <3>2
  <2> QED BY <2>2, <2>3
<1>8. CASE c = "min"
  <2>1. m2["max"] = m["max"]
    BY <1>2, <1>8 DEF Counters
  <2>2. m2["min"] = Smaller(m["min"], v)
    BY <1>3, <1>8
  <2>3. CASE m["min"] \in 1..m["max"]
    BY <1>1, <2>1, <2>2, <2>3 DEF Smaller
  <2>4. ASSUME NEW h \in Goroutines, Fit(h, m, u)
        PROVE  m2["min"] \in 1..m2["max"] \/ Fit(h, m2, u2)
    <3>1. CASE h = g
      BY <1>1, <1>8, <2>1, <2>2, <2>4, <3>1 DEF Smaller
    <3>2. CASE h # g
      BY <2>1, <2>4, <3>2
    <3> QED BY <3>1, <3>2
  <2> HIDE DEF Fit, m2, u2
  <2> QED BY <1>6, <2>1, <2>3, <2>4
<1>9. CASE c \notin {"max", "min"}
  <2>1. m2["max"] = m["max"] /\ m2["min"] = m["min"]
    BY <1>2, <1>9 DEF Counters
  <2>2. ASSUME NEW h \in Goroutines, Fit(h, m, u) PROVE Fit(h, m2, u2)
    BY <1>9, <2>1, <2>2
  <2> HIDE DEF Fit, m2, u2
  <2> QED BY <1>6, <2>1, <2>2
<1> QED BY <1>7, <1>8, <1>9

\* So do the responses: before those of a goroutine, its histogram is left to be
\* read, and after it they have been read.
LEMMA HistogramFitsLoad ==
    ASSUME NEW m \in Metric, NEW G \in SUBSET Goroutines, NEW u \in SUBSET (G \X Counters),
           NEW st \in [Goroutines -> Metric], NEW g \in Goroutines, NEW c \in Counters,
           Soonest(<<g, c>>, u), LastLoads(u),
           st[g]["res"] <= st[g]["hist"] + 1,
           HistogramFits(m, u, G, st)
    PROVE  HistogramFits(AddIn(m, c, st[g][c]), u \ {<<g, c>>}, G, st)
<1> DEFINE v == st[g][c]
           m2 == AddIn(m, c, v)
           u2 == u \ {<<g, c>>}
           T  == Left(u, "hist") \ Left(u, "res")
           T2 == Left(u2, "hist") \ Left(u2, "res")
           R  == G \ Left(u, "res")
           R2 == G \ Left(u2, "res")
<1>0. <<g, c>> \in u /\ g \in G
  BY DEF Soonest
<1>1. /\ m["res"] \in Nat /\ m["hist"] \in Nat /\ v \in Nat
      /\ st[g]["hist"] \in Nat /\ st[g]["res"] \in Nat
  BY DEF Metric, Counters
<1>2. /\ \A d \in Counters \ {c} : m2[d] = m[d]
      /\ c \notin {"max", "min"} => m2[c] = m[c] + v
  <2> HIDE DEF v
  <2> QED BY <1>1, AddInAt
<1>3. /\ g \in Left(u, c) /\ Left(u2, c) = Left(u, c) \ {g}
      /\ \A d \in Counters \ {c} : Left(u2, d) = Left(u, d)
  BY <1>0 DEF Left
<1>4. \A d \in Counters : /\ LoadOrder[c] < LoadOrder[d] => g \in Left(u, d)
                          /\ LoadOrder[d] < LoadOrder[c] => g \notin Left(u, d)
  BY FirstLoad
<1>5. g \in G /\ T \in SUBSET Goroutines /\ R \in SUBSET Goroutines
  BY <1>0 DEF Left
<1>6. Cardinality(R) \in Nat /\ IsFiniteSet(R) /\ Total(Share("hist", T, st)) \in Nat
  <2> HIDE DEF T, R
  <2> QED BY <1>5, SomeGoroutines, ShareType, OrderOfLoads
<1>7. m["res"] <= m["hist"] + Cardinality(R) + Total(Share("hist", T, st))
  BY DEF HistogramFits
<1> HIDE DEF v, m2, u2
<1> SUFFICES m2["res"] <= m2["hist"] + Cardinality(R2) + Total(Share("hist", T2, st))
  BY DEF HistogramFits, v, m2, u2
<1>8. CASE c = "res"
  <2>1. T2 = T \cup {g} /\ g \notin T /\ R2 = R \cup {g} /\ g \notin R
    BY <1>3, <1>4, <1>5, <1>8, OrderOfLoads
  <2>2. m2["res"] = m["res"] + st[g]["res"] /\ m2["hist"] = m["hist"]
    BY <1>2, <1>8, OrderOfLoads DEF v
  <2> HIDE DEF T, T2, R, R2
  <2>3. Cardinality(R2) = Cardinality(R) + 1
    BY <1>6, <2>1, FS_AddElement
  <2>4. Total(Share("hist", T2, st)) = Total(Share("hist", T, st)) + st[g]["hist"]
    BY <1>5, <2>1, ShareOfOneMore, OrderOfLoads
  <2> QED BY <1>1, <1>6, <1>7, <2>2, <2>3, <2>4
<1>9. CASE c = "hist"
  <2>1. T2 = T \ {g} /\ g \in T /\ R2 = R
    BY <1>3, <1>4, <1>9, OrderOfLoads
  <2>2. m2["res"] = m["res"] /\ m2["hist"] = m["hist"] + st[g]["hist"]
    BY <1>2, <1>9, OrderOfLoads DEF v
  <2> HIDE DEF T, T2, R, R2
  <2>3. Total(Share("hist", T, st)) = Total(Share("hist", T2, st)) + st[g]["hist"]
    BY <1>5, <2>1, ShareOfOneLess, OrderOfLoads
  <2>4. Total(Share("hist", T2, st)) \in Nat
    BY <1>5, <2>1, ShareType, OrderOfLoads
  <2> QED BY <1>1, <1>6, <1>7, <2>1, <2>2, <2>3, <2>4
<1>10. CASE c \notin {"res", "hist"}
  <2>1. T2 = T /\ R2 = R /\ m2["res"] = m["res"] /\ m2["hist"] = m["hist"]
    BY <1>2, <1>3, <1>10, OrderOfLoads
  <2> QED BY <1>7, <2>1
<1> QED BY <1>8, <1>9, <1>10

\* So it all fits after the next load.
LEMMA FitsLoad ==
    ASSUME NEW m \in Metric, NEW G \in SUBSET Goroutines, NEW u \in SUBSET (G \X Counters),
           NEW st \in [Goroutines -> Metric], NEW g \in Goroutines, NEW c \in Counters,
           Soonest(<<g, c>>, u), LastLoads(u),
           NEW t, NEW l, Recording(t, l, st[g]),
           Fits(m, u, G, st)
    PROVE  Fits(AddIn(m, c, st[g][c]), u \ {<<g, c>>}, G, st)
<1>1. u \in SUBSET (Goroutines \X Counters)
  OBVIOUS
<1>2. st[g]["res"] <= st[g]["hist"] + 1
  BY DEF Recording, Metric, Counters
<1>3. st[g]["max"] > 0 => st[g]["min"] \in 1..st[g]["max"]
  BY DEF Recording
<1>4. ExtremesFit(m, u, st) /\ HistogramFits(m, u, G, st)
  BY DEF Fits
<1>5. ExtremesFit(AddIn(m, c, st[g][c]), u \ {<<g, c>>}, st)
  BY <1>1, <1>3, <1>4, ExtremesFitLoad
<1>6. HistogramFits(AddIn(m, c, st[g][c]), u \ {<<g, c>>}, G, st)
  BY <1>2, <1>4, HistogramFitsLoad
<1> QED BY <1>5, <1>6 DEF Fits

\* What it means for a report that is complete.
LEMMA FitsComplete ==
    ASSUME NEW m \in Metric, NEW G \in SUBSET Goroutines, NEW st \in [Goroutines -> Metric],
           Fits(m, {}, G, st)
    PROVE  /\ m["max"] > 0 => m["min"] \in 1..m["max"]
           /\ m["res"] <= m["hist"] + Cardinality(G)
<1>1. \A c \in Counters : Left({}, c) = {}
  BY DEF Left
<1>2. Total(Share("hist", {}, st)) = 0
  BY ShareOfNone, OrderOfLoads
<1>3. m["max"] > 0 => m["min"] \in 1..m["max"]
  BY DEF Fits, ExtremesFit
<1>4. m["res"] <= m["hist"] + Cardinality(G \ {}) + Total(Share("hist", {} \ {}, st))
  BY <1>1, OrderOfLoads DEF Fits, HistogramFits
<1>5. G \ {} = G /\ {} \ {} = {}
  OBVIOUS
<1>6. m["res"] \in Nat /\ m["hist"] \in Nat /\ Cardinality(G) \in Nat
  BY SomeGoroutines DEF Metric, Counters
<1>7. m["res"] <= m["hist"] + Cardinality(G) + Total(Share("hist", {}, st))
  BY <1>4, <1>5
<1> QED BY <1>2, <1>3, <1>6, <1>7

-----------------------------------------------------------------------------
(* Reports do not fall back.                                               *)

\* Nothing is before itself.
LEMMA NotBeforeItself == ASSUME NEW q \in ReportType PROVE NotBefore(q, q)
BY DEF NotBefore, ReportType, Metric, Counters

\* Nor is anything before no report.
LEMMA NotBeforeNone == ASSUME NEW r \in ReportType, r.run > 0 PROVE NotBefore(r, NoReport)
BY DEF NotBefore, NoReport

\* The latest report, or what is cached, is a report.
LEMMA LatestType ==
    ASSUME NEW k \in ReportType, NEW reps \in Seq(ReportType)
    PROVE  LatestOf(reps, k) \in ReportType
BY 0 \in Nat, LatestKnown

\* What a report consists of.
LEMMA ReportParts ==
    ASSUME NEW d \in ReportType
    PROVE  d.run \in Nat /\ d.metric \in Metric
BY DEF ReportType

\* A complete report that follows another is not before it.
LEMMA FollowsDone ==
    ASSUME NEW q \in ReportType, NEW d \in ReportType, NEW st \in [Goroutines -> Metric],
           Follows(q, d.run, d.metric, {}, st)
    PROVE  NotBefore(d, q)
<1>1. CASE q.run < d.run
  BY <1>1 DEF NotBefore
<1>2. CASE q.run = d.run /\ \A c \in Counters : Within(c, q.metric[c], d.metric[c], Left({}, c), st)
  <2>1. ASSUME NEW c \in Counters PROVE AtMost(c, q.metric[c], d.metric[c])
    <3>1. Left({}, c) = {} /\ q.metric[c] \in Nat /\ d.metric[c] \in Nat
      BY DEF Left, ReportType, Metric
    <3>2. Within(c, q.metric[c], d.metric[c], {}, st)
      BY <1>2, <3>1
    <3> QED BY <3>1, <3>2, WithinNone
  <2>2. \A c \in Counters \ {"min"} : q.metric[c] <= d.metric[c]
    BY <2>1 DEF AtMost
  <2>3. q.metric["min"] > 0 => d.metric["min"] \in 1..q.metric["min"]
    BY <2>1 DEF AtMost, Counters
  <2> QED BY <1>2, <2>2, <2>3 DEF NotBefore
<1> QED BY <1>1, <1>2 DEF Follows

\* It still follows when goroutines have gone on that are still to be read, ...
LEMMA FollowsGrows ==
    ASSUME NEW q \in ReportType, NEW r, NEW m \in Metric, NEW u \in SUBSET (Goroutines \X Counters),
           NEW st \in [Goroutines -> Metric], NEW st2 \in [Goroutines -> Metric],
           NEW S \in SUBSET Goroutines, \A c \in Counters : Left(u, c) \subseteq S,
           Grows(S, st, st2), Follows(q, r, m, u, st)
    PROVE  Follows(q, r, m, u, st2)
<1>1. ASSUME NEW c \in Counters, Within(c, q.metric[c], m[c], Left(u, c), st)
      PROVE  Within(c, q.metric[c], m[c], Left(u, c), st2)
  <2>1. q.metric[c] \in Nat /\ m[c] \in Nat /\ Left(u, c) \in SUBSET Goroutines
    BY DEF ReportType, Metric, Left
  <2>2. Grows(Left(u, c), st, st2)
    BY DEF Grows
  <2> QED BY <1>1, <2>1, <2>2, WithinGrows
<1> QED BY <1>1 DEF Follows

\* ... and after a load.
LEMMA FollowsLoad ==
    ASSUME NEW q \in ReportType, NEW r, NEW m \in Metric, NEW u \in SUBSET (Goroutines \X Counters),
           NEW st \in [Goroutines -> Metric], NEW g \in Goroutines, NEW c \in Counters,
           <<g, c>> \in u, Follows(q, r, m, u, st),
           NEW u2, u2 = u \ {<<g, c>>}, NEW m2, m2 = AddIn(m, c, st[g][c])
    PROVE  Follows(q, r, m2, u2, st)
<1> DEFINE v == st[g][c]
<1>1. v \in Nat
  BY DEF Metric
<1> HIDE DEF v
<1>2. /\ g \in Left(u, c) /\ Left(u2, c) = Left(u, c) \ {g}
      /\ \A d \in Counters \ {c} : Left(u2, d) = Left(u, d) /\ m2[d] = m[d]
  <2>1. m2 = AddIn(m, c, v)
    BY DEF v
  <2>2. \A d \in Counters \ {c} : m2[d] = m[d]
    BY <2>1 DEF AddIn, Metric
  <2>3. /\ g \in Left(u, c) /\ Left(u2, c) = Left(u, c) \ {g}
        /\ \A d \in Counters \ {c} : Left(u2, d) = Left(u, d)
    BY DEF Left
  <2> QED BY <2>2, <2>3
<1>3. ASSUME NEW d \in Counters, Within(d, q.metric[d], m[d], Left(u, d), st)
      PROVE  Within(d, q.metric[d], m2[d], Left(u2, d), st)
  <2>1. CASE d = c
    <3> DEFINE S == Left(u, c)
    <3>1. q.metric[c] \in Nat
      BY DEF ReportType, Metric
    <3>2. S \in SUBSET Goroutines /\ g \in S /\ Within(c, q.metric[c], m[c], S, st)
      BY <1>2, <1>3, <2>1 DEF Left
    <3> HIDE DEF S
    <3>3. Within(c, q.metric[c], m2[c], S \ {g}, st)
      BY <3>1, <3>2, WithinLoads
    <3> QED BY <1>2, <2>1, <3>3 DEF S
  <2>2. CASE d # c
    BY <1>2, <1>3, <2>2
  <2> QED BY <2>1, <2>2
<1> QED BY <1>3 DEF Follows

\* The way from a worker when goroutines of its service have gone on.
LEMMA FollowGrows ==
    ASSUME NEW cur, NEW d \in ReportType, NEW k \in ReportType, NEW reps \in Seq(ReportType),
           NEW G \in SUBSET Goroutines, NEW u \in SUBSET (G \X Counters),
           NEW st \in [Goroutines -> Metric], NEW st2 \in [Goroutines -> Metric],
           Grows(G, st, st2), ReportsFollow(cur, d, k, reps, u, G, st)
    PROVE  ReportsFollow(cur, d, k, reps, u, G, st2)
<1>1. LatestOf(reps, k) \in ReportType /\ d.metric \in Metric /\ Zero \in Metric
  BY LatestKnown DEF ReportType, Zero, Metric
<1>2. u \in SUBSET (Goroutines \X Counters) /\ G \X Counters \in SUBSET (Goroutines \X Counters)
      /\ \A c \in Counters : Left(u, c) \subseteq G /\ Left(G \X Counters, c) \subseteq G
  BY DEF Left
<1>3. d.run > 0 => Follows(LatestOf(reps, k), d.run, d.metric, u, st2)
  BY <1>1, <1>2, FollowsGrows DEF ReportsFollow
<1>4. d.run = 0 /\ cur > 0 => Follows(LatestOf(reps, k), cur, Zero, G \X Counters, st2)
  BY <1>1, <1>2, FollowsGrows DEF ReportsFollow
<1>5. ASSUME NEW c \in Counters, Within(c, d.metric[c], 0, G \ Left(u, c), st)
      PROVE  Within(c, d.metric[c], 0, G \ Left(u, c), st2)
  <2>1. d.metric[c] \in Nat /\ G \ Left(u, c) \in SUBSET Goroutines /\ 0 \in Nat
    BY <1>1 DEF Metric
  <2>2. Grows(G \ Left(u, c), st, st2)
    BY DEF Grows
  <2> QED BY <1>5, <2>1, <2>2, WithinGrows
<1> QED BY <1>3, <1>4, <1>5 DEF ReportsFollow

\* When its service is replaced: a report that is complete does not depend on
\* the goroutines any more, and the next one is of a newer run.
LEMMA FollowHandled ==
    ASSUME NEW cur \in Nat, NEW d \in ReportType, NEW k \in ReportType,
           NEW reps \in Seq(ReportType), NEW G \in SUBSET Goroutines,
           NEW st \in [Goroutines -> Metric], NEW st2 \in [Goroutines -> Metric],
           ReportsFollow(cur, d, k, reps, {}, G, st),
           NEW cur2 \in Nat, \A r \in KnownRuns(cur, d, k, reps) : cur2 > 0 => r < cur2
    PROVE  ReportsFollow(cur2, d, k, reps, {}, G, st2)
<1>1. /\ LatestOf(reps, k) \in ReportType
      /\ LatestOf(reps, k).run \in KnownRuns(cur, d, k, reps)
      /\ d.run \in KnownRuns(cur, d, k, reps) /\ d.run \in Nat /\ d.metric \in Metric
  <2>1. d.run \in KnownRuns(cur, d, k, reps)
    BY DEF KnownRuns
  <2> QED BY <2>1, LatestKnown, ReportParts
<1>2. ASSUME Follows(LatestOf(reps, k), d.run, d.metric, {}, st)
      PROVE  Follows(LatestOf(reps, k), d.run, d.metric, {}, st2)
  <2>1. Grows({}, st, st2) /\ \A c \in Counters : Left({}, c) \subseteq {}
    BY DEF Grows, Left
  <2>2. {} \in SUBSET (Goroutines \X Counters) /\ {} \in SUBSET Goroutines
    OBVIOUS
  <2> QED BY <1>1, <1>2, <2>1, <2>2, FollowsGrows
<1>3. cur2 > 0 => Follows(LatestOf(reps, k), cur2, Zero, G \X Counters, st2)
  BY <1>1 DEF Follows
<1>4. ~(d.run > 0 /\ d.run = cur2)
  BY <1>1
<1> QED BY <1>2, <1>3, <1>4 DEF ReportsFollow

\* When the cache is cleared, at a Start, a Stop or a Pause.
LEMMA FollowReset ==
    ASSUME NEW cur, NEW d \in ReportType, NEW k \in ReportType, NEW reps \in Seq(ReportType),
           NEW G, NEW u, NEW st,
           ReportsReal(d, k, reps), ReportsFollow(cur, d, k, reps, u, G, st)
    PROVE  ReportsFollow(cur, d, NoReport, reps, u, G, st)
<1>1. ASSUME NEW i \in 1..Len(reps)
      PROVE  NotBefore(reps[i], IF i = 1 THEN NoReport ELSE reps[i - 1])
  <2>1. CASE i = 1
    <3>1. reps[i] \in ReportType /\ reps[i].run > 0
      BY DEF ReportsReal
    <3> QED BY <2>1, <3>1, NotBeforeNone
  <2>2. CASE i # 1
    BY <2>2 DEF ReportsFollow
  <2> QED BY <2>1, <2>2
<1>2. CASE reps = <<>>
  <2>1. LatestOf(reps, NoReport).run = 0
    BY <1>2 DEF LatestOf, NoReport
  <2>2. \A r, m, v : r > 0 => Follows(LatestOf(reps, NoReport), r, m, v, st)
    BY <2>1 DEF Follows
  <2> QED BY <1>1, <2>2 DEF ReportsFollow
<1>3. CASE reps # <<>>
  <2>1. LatestOf(reps, NoReport) = LatestOf(reps, k)
    BY <1>3 DEF LatestOf
  <2> QED BY <1>1, <2>1 DEF ReportsFollow
<1> QED BY <1>2, <1>3

\* When a report is received.
LEMMA FollowReceived ==
    ASSUME NEW cur, NEW d, NEW k, NEW reps \in Seq(ReportType), NEW G, NEW u, NEW st,
           reps # <<>>, ReportsFollow(cur, d, k, reps, u, G, st)
    PROVE  ReportsFollow(cur, d, Head(reps), Tail(reps), u, G, st)
<1> DEFINE reps2 == Tail(reps)
<1>1. /\ Len(reps) \in Nat \ {0} /\ Len(reps2) = Len(reps) - 1
      /\ \A i \in 1..Len(reps2) : reps2[i] = reps[i + 1]
      /\ Head(reps) = reps[1] /\ (reps2 = <<>> <=> Len(reps2) = 0)
  <2>1. Len(reps) \in Nat \ {0} /\ Len(reps2) = Len(reps) - 1
    OBVIOUS
  <2>2. \A i \in 1..Len(reps2) : reps2[i] = reps[i + 1]
    OBVIOUS
  <2>3. reps2 = <<>> <=> Len(reps2) = 0
    <3>1. reps2 \in Seq(ReportType)
      OBVIOUS
    <3> HIDE DEF reps2
    <3> QED BY <3>1
  <2> QED BY <2>1, <2>2, <2>3
<1> HIDE DEF reps2
<1>2. LatestOf(reps2, reps[1]) = LatestOf(reps, k)
  <2>1. CASE Len(reps) = 1
    BY <1>1, <2>1 DEF LatestOf
  <2>2. CASE Len(reps) # 1
    <3>1. Len(reps2) \in 1..Len(reps2) /\ Len(reps2) + 1 = Len(reps)
      BY <1>1, <2>2
    <3>2. reps2[Len(reps2)] = reps[Len(reps)] /\ reps2 # <<>>
      BY <1>1, <3>1
    <3> QED BY <3>2 DEF LatestOf
  <2> QED BY <2>1, <2>2
<1>3. ASSUME NEW i \in 1..Len(reps2)
      PROVE  NotBefore(reps2[i], IF i = 1 THEN reps[1] ELSE reps2[i - 1])
  <2>1. i + 1 \in 1..Len(reps) /\ i + 1 # 1 /\ (i + 1) - 1 = i
    BY <1>1
  <2>2. NotBefore(reps[i + 1], reps[i])
    BY <2>1 DEF ReportsFollow
  <2>3. i # 1 => reps2[i - 1] = reps[i]
    <3>1. i # 1 => i - 1 \in 1..Len(reps2) /\ (i - 1) + 1 = i
      BY <1>1
    <3> QED BY <1>1, <3>1
  <2> QED BY <1>1, <2>2, <2>3
<1>4. ReportsFollow(cur, d, reps[1], reps2, u, G, st)
  BY <1>2, <1>3 DEF ReportsFollow
<1> QED BY <1>1, <1>4 DEF reps2

\* When a report is begun.
LEMMA FollowBegun ==
    ASSUME NEW cur \in Nat, cur > 0, NEW d, d.run = 0, NEW k, NEW reps,
           NEW G \in SUBSET Goroutines, NEW u, NEW st \in [Goroutines -> Metric],
           ReportsFollow(cur, d, k, reps, u, G, st)
    PROVE  ReportsFollow(cur, [run |-> cur, metric |-> Zero], k, reps, G \X Counters, G, st)
<1> DEFINE d2 == [run |-> cur, metric |-> Zero]
<1>1. d2.run = cur /\ d2.metric = Zero
  OBVIOUS
<1>2. ASSUME NEW c \in Counters PROVE Within(c, Zero[c], 0, G \ Left(G \X Counters, c), st)
  <2>1. G \ Left(G \X Counters, c) = {}
    BY DEF Left
  <2>2. Zero[c] = 0 /\ AtMost(c, 0, 0) /\ 0 \in Nat
    BY DEF Zero, AtMost
  <2>3. Within(c, 0, 0, {}, st)
    BY <2>2, WithinNone
  <2> QED BY <2>1, <2>2, <2>3
<1> HIDE DEF d2
<1>3. ReportsFollow(cur, d2, k, reps, G \X Counters, G, st)
  BY <1>1, <1>2 DEF ReportsFollow
<1> QED BY <1>3 DEF d2

\* When a counter is read for it.
LEMMA FollowLoaded ==
    ASSUME NEW cur, NEW d \in ReportType, NEW k \in ReportType, NEW reps \in Seq(ReportType),
           NEW G \in SUBSET Goroutines, NEW u \in SUBSET (G \X Counters),
           NEW st \in [Goroutines -> Metric], NEW g \in Goroutines, NEW c \in Counters,
           <<g, c>> \in u, d.run > 0, ReportsFollow(cur, d, k, reps, u, G, st),
           NEW d2 \in ReportType, d2.run = d.run, d2.metric = AddIn(d.metric, c, st[g][c])
    PROVE  ReportsFollow(cur, d2, k, reps, u \ {<<g, c>>}, G, st)
<1> DEFINE u2 == u \ {<<g, c>>}
           m  == d.metric
<1>1. LatestOf(reps, k) \in ReportType /\ m \in Metric /\ d.run \in Nat
  BY LatestType, ReportParts
<1>2. u \in SUBSET (Goroutines \X Counters) /\ g \in G
  OBVIOUS
<1> HIDE DEF m
<1>3. d2.metric = AddIn(m, c, st[g][c])
  BY DEF m
<1> DEFINE v == st[g][c]
<1>4. v \in Nat /\ u2 = u \ {<<g, c>>}
  BY DEF Metric
<1> HIDE DEF v, u2
<1>5. /\ g \in Left(u, c) /\ Left(u2, c) = Left(u, c) \ {g}
      /\ \A e \in Counters \ {c} : Left(u2, e) = Left(u, e) /\ d2.metric[e] = m[e]
  <2>1. d2.metric = AddIn(m, c, v)
    BY <1>3 DEF v
  <2>2. \A e \in Counters \ {c} : d2.metric[e] = m[e]
    BY <1>1, <1>4, <2>1, AddInAt
  <2>3. /\ g \in Left(u, c) /\ Left(u2, c) = Left(u, c) \ {g}
        /\ \A e \in Counters \ {c} : Left(u2, e) = Left(u, e)
    BY <1>2, <1>4 DEF Left
  <2> QED BY <2>2, <2>3
<1>6. Follows(LatestOf(reps, k), d2.run, d2.metric, u2, st)
  <2> DEFINE q == LatestOf(reps, k)
  <2>1. Follows(q, d2.run, m, u, st) /\ q \in ReportType
    BY <1>1 DEF ReportsFollow, m
  <2> HIDE DEF q
  <2>2. Follows(q, d2.run, d2.metric, u2, st)
    BY <1>1, <1>2, <1>3, <1>4, <2>1, FollowsLoad
  <2> QED BY <2>2 DEF q
<1>7. ASSUME NEW e \in Counters, Within(e, m[e], 0, G \ Left(u, e), st)
      PROVE  Within(e, d2.metric[e], 0, G \ Left(u2, e), st)
  <2>1. CASE e = c
    <3> DEFINE S == G \ Left(u, c)
    <3>1. S \in SUBSET Goroutines /\ g \in Goroutines \ S /\ Within(c, m[c], 0, S, st)
      BY <1>5, <1>7, <2>1
    <3>2. G \ Left(u2, c) = S \cup {g}
      BY <1>2, <1>5
    <3> HIDE DEF S
    <3>3. Within(c, d2.metric[c], 0, S \cup {g}, st)
      BY <1>1, <1>3, <3>1, WithinRead
    <3> QED BY <2>1, <3>2, <3>3
  <2>2. CASE e # c
    BY <1>5, <1>7, <2>2
  <2> QED BY <2>1, <2>2
<1>8. ReportsFollow(cur, d2, k, reps, u2, G, st)
  BY <1>1, <1>7, <1>6 DEF ReportsFollow, m
<1> QED BY <1>8 DEF u2

\* When it is complete and sent.
LEMMA FollowSent ==
    ASSUME NEW cur \in Nat, NEW d \in ReportType, d.run > 0, cur > 0 => d.run <= cur,
           NEW k \in ReportType, NEW reps \in Seq(ReportType), NEW G \in SUBSET Goroutines,
           NEW st \in [Goroutines -> Metric],
           ReportsFollow(cur, d, k, reps, {}, G, st)
    PROVE  ReportsFollow(cur, NoReport, k, Append(reps, d), {}, G, st)
<1> DEFINE reps2 == Append(reps, d)
<1>1. /\ Len(reps) \in Nat /\ Len(reps2) = Len(reps) + 1 /\ reps2[Len(reps) + 1] = d
      /\ (\A i \in 1..Len(reps) : reps2[i] = reps[i]) /\ reps2 # <<>>
      /\ (reps = <<>> <=> Len(reps) = 0)
  OBVIOUS
<1> HIDE DEF reps2
<1>2. /\ LatestOf(reps, k) \in ReportType /\ LatestOf(reps2, k) = d
      /\ d.run \in Nat /\ d.metric \in Metric
  BY <1>1, LatestKnown DEF LatestOf, ReportType
<1>3. NotBefore(d, LatestOf(reps, k))
  BY <1>2, FollowsDone DEF ReportsFollow
<1>4. ASSUME NEW i \in 1..Len(reps2)
      PROVE  NotBefore(reps2[i], IF i = 1 THEN k ELSE reps2[i - 1])
  <2>1. CASE i = Len(reps) + 1
    <3>1. (IF i = 1 THEN k ELSE reps2[i - 1]) = LatestOf(reps, k)
      <4>1. CASE i = 1
        BY <1>1, <2>1, <4>1 DEF LatestOf
      <4>2. CASE i # 1
        <5>1. i - 1 = Len(reps) /\ i - 1 \in 1..Len(reps)
          BY <1>1, <2>1, <4>2
        <5> QED BY <1>1, <4>2, <5>1 DEF LatestOf
      <4> QED BY <4>1, <4>2
    <3> QED BY <1>1, <1>3, <2>1, <3>1
  <2>2. CASE i # Len(reps) + 1
    <3>1. i \in 1..Len(reps) /\ (i # 1 => i - 1 \in 1..Len(reps))
      BY <1>1, <2>2
    <3>2. NotBefore(reps[i], IF i = 1 THEN k ELSE reps[i - 1])
      BY <3>1 DEF ReportsFollow
    <3> QED BY <1>1, <3>1, <3>2
  <2> QED BY <2>1, <2>2
<1>5. ASSUME cur > 0 PROVE Follows(d, cur, Zero, G \X Counters, st)
  <2>1. CASE d.run < cur
    BY <2>1 DEF Follows
  <2>2. CASE d.run = cur
    <3>1. ASSUME NEW c \in Counters
          PROVE  Within(c, d.metric[c], Zero[c], Left(G \X Counters, c), st)
      <4>1. Zero[c] = 0 /\ Left(G \X Counters, c) = G /\ G \ Left({}, c) = G
        BY DEF Zero, Left
      <4>2. Within(c, d.metric[c], 0, G \ Left({}, c), st)
        BY <2>2 DEF ReportsFollow
      <4> QED BY <4>1, <4>2
    <3> QED BY <2>2, <3>1 DEF Follows
  <2> QED BY <1>2, <1>5, <2>1, <2>2
<1>6. NoReport.run = 0
  BY DEF NoReport
<1>7. ReportsFollow(cur, NoReport, k, reps2, {}, G, st)
  BY <1>2, <1>4, <1>5, <1>6 DEF ReportsFollow
<1> QED BY <1>7 DEF reps2

-----------------------------------------------------------------------------
(* All of it, for one worker, and what each step does to it.               *)

PipeTyped(n, q, cur, d, k, reps, u, G, st) ==
    /\ n \in Nat /\ q \in Seq(Nat) /\ cur \in Nat
    /\ d \in ReportType /\ k \in ReportType /\ reps \in Seq(ReportType)
    /\ G \in SUBSET Goroutines /\ u \in SUBSET (G \X Counters)
    /\ st \in [Goroutines -> Metric]

Piped(n, q, cur, d, k, reps, u, G, st) ==
    /\ PipeTyped(n, q, cur, d, k, reps, u, G, st)
    /\ RunsInOrder(n, q, cur, d, k, reps)
    /\ ReportsReal(d, k, reps)
    /\ LoadsInOrder(cur, d, u, G)
    /\ ReportsFit(d, k, reps, u, G, st)
    /\ ReportsFollow(cur, d, k, reps, u, G, st)

\* No report is a report, for the purpose of types, and an empty one.
LEMMA NoReportType ==
    NoReport \in ReportType /\ NoReport.run = 0 /\ NoReport.metric = Zero /\ Zero \in Metric
BY DEF NoReport, ReportType, Zero, Metric

\* A Start, Stop, Pause or Resume.
LEMMA PipedCommanded ==
    ASSUME NEW n, NEW q, NEW cur, NEW d, NEW k, NEW reps, NEW u, NEW G, NEW st,
           Piped(n, q, cur, d, k, reps, u, G, st),
           NEW n2 \in Nat, n <= n2, NEW x \in {0, n + 1}, x <= n2, NEW k2 \in {k, NoReport}
    PROVE  Piped(n2, Append(q, x), cur, d, k2, reps, u, G, st)
<1> USE DEF Piped
<1>1. /\ n \in Nat /\ q \in Seq(Nat) /\ cur \in Nat /\ d \in ReportType /\ k \in ReportType
      /\ reps \in Seq(ReportType) /\ G \in SUBSET Goroutines /\ st \in [Goroutines -> Metric]
      /\ u \in SUBSET (G \X Counters)
  BY DEF PipeTyped
<1>2. PipeTyped(n2, Append(q, x), cur, d, k2, reps, u, G, st)
  <2>1. x \in Nat /\ k2 \in ReportType
    BY <1>1, NoReportType
  <2>2. Append(q, x) \in Seq(Nat)
    BY <1>1, <2>1
  <2> QED BY <1>1, <2>1, <2>2 DEF PipeTyped
<1>3. RunsInOrder(n2, Append(q, x), cur, d, k2, reps)
  BY <1>1, RunsCommanded
<1>4. ReportsReal(d, k2, reps)
  BY DEF ReportsReal
<1>5. ReportsFit(d, k2, reps, u, G, st)
  <2>1. Fits(NoReport.metric, {}, G, st)
    BY <1>1, FitsEmpty, NoReportType
  <2> QED BY <2>1 DEF ReportsFit
<1>6. ReportsFollow(cur, d, k2, reps, u, G, st)
  BY <1>1, FollowReset
<1> QED BY <1>2, <1>3, <1>4, <1>5, <1>6

\* A worker handles a command, while no report is being built.
LEMMA PipedHandled ==
    ASSUME NEW n, NEW q, NEW cur, NEW d, NEW k, NEW reps, NEW G, NEW st,
           Piped(n, q, cur, d, k, reps, {}, G, st), q # <<>>,
           NEW st2 \in [Goroutines -> Metric]
    PROVE  Piped(n, Tail(q), Head(q), d, k, reps, {}, G, st2)
<1> USE DEF Piped
<1>1. /\ n \in Nat /\ q \in Seq(Nat) /\ cur \in Nat /\ d \in ReportType /\ k \in ReportType
      /\ reps \in Seq(ReportType) /\ G \in SUBSET Goroutines /\ st \in [Goroutines -> Metric]
  BY DEF PipeTyped
<1>2. /\ RunsInOrder(n, Tail(q), Head(q), d, k, reps) /\ Head(q) \in Nat
      /\ \A r \in KnownRuns(cur, d, k, reps) : Head(q) > 0 => r < Head(q)
  BY <1>1, RunsHandled
<1>3. PipeTyped(n, Tail(q), Head(q), d, k, reps, {}, G, st2)
  <2>1. Tail(q) \in Seq(Nat)
    BY <1>1
  <2> QED BY <1>1, <1>2, <2>1 DEF PipeTyped
<1>4. LoadsInOrder(Head(q), d, {}, G)
  BY DEF LoadsInOrder
<1>5. ReportsFit(d, k, reps, {}, G, st2)
  <2>1. ASSUME NEW r \in ReportType, Fits(r.metric, {}, G, st) PROVE Fits(r.metric, {}, G, st2)
    <3>1. Grows({}, st, st2) /\ (\A c \in Counters : Left({}, c) \subseteq {})
          /\ {} \in SUBSET (G \X Counters) /\ {} \in SUBSET Goroutines
      BY DEF Grows, Left
    <3>2. r.metric \in Metric
      BY ReportParts
    <3> QED BY <1>1, <2>1, <3>1, <3>2, FitsGrows
  <2>2. \A i \in 1..Len(reps) : reps[i] \in ReportType
    BY <1>1
  <2> QED BY <1>1, <2>1, <2>2 DEF ReportsFit
<1>6. ReportsFollow(Head(q), d, k, reps, {}, G, st2)
  <2> DEFINE cur2 == Head(q)
  <2>1. cur2 \in Nat /\ \A r \in KnownRuns(cur, d, k, reps) : cur2 > 0 => r < cur2
    BY <1>2
  <2> HIDE DEF cur2
  <2>2. ReportsFollow(cur2, d, k, reps, {}, G, st2)
    BY <1>1, <2>1, FollowHandled
  <2> QED BY <2>2 DEF cur2
<1> QED BY <1>2, <1>3, <1>4, <1>5, <1>6

\* Goroutines go on.
LEMMA PipedGrows ==
    ASSUME NEW n, NEW q, NEW cur, NEW d, NEW k, NEW reps, NEW u, NEW G, NEW st,
           Piped(n, q, cur, d, k, reps, u, G, st),
           NEW st2 \in [Goroutines -> Metric], Grows(G, st, st2)
    PROVE  Piped(n, q, cur, d, k, reps, u, G, st2)
<1> USE DEF Piped
<1>1. /\ n \in Nat /\ q \in Seq(Nat) /\ cur \in Nat /\ d \in ReportType /\ k \in ReportType
      /\ reps \in Seq(ReportType) /\ G \in SUBSET Goroutines /\ st \in [Goroutines -> Metric]
      /\ u \in SUBSET (G \X Counters)
  BY DEF PipeTyped
<1>2. PipeTyped(n, q, cur, d, k, reps, u, G, st2)
  BY DEF PipeTyped
<1>3. ReportsFit(d, k, reps, u, G, st2)
  <2>1. ASSUME NEW r \in ReportType, NEW v \in SUBSET (G \X Counters), Fits(r.metric, v, G, st)
        PROVE  Fits(r.metric, v, G, st2)
    <3>1. r.metric \in Metric /\ \A c \in Counters : Left(v, c) \subseteq G
      BY ReportParts DEF Left
    <3> QED BY <1>1, <2>1, <3>1, FitsGrows
  <2>2. {} \in SUBSET (G \X Counters) /\ \A i \in 1..Len(reps) : reps[i] \in ReportType
    BY <1>1
  <2> QED BY <1>1, <2>1, <2>2 DEF ReportsFit
<1>4. ReportsFollow(cur, d, k, reps, u, G, st2)
  BY <1>1, FollowGrows
<1> QED BY <1>2, <1>3, <1>4

\* The ocean receives a report.
LEMMA PipedReceived ==
    ASSUME NEW n, NEW q, NEW cur, NEW d, NEW k, NEW reps, NEW u, NEW G, NEW st,
           Piped(n, q, cur, d, k, reps, u, G, st), reps # <<>>
    PROVE  Piped(n, q, cur, d, Head(reps), Tail(reps), u, G, st)
<1> USE DEF Piped
<1>1. /\ n \in Nat /\ q \in Seq(Nat) /\ cur \in Nat /\ d \in ReportType /\ k \in ReportType
      /\ reps \in Seq(ReportType) /\ G \in SUBSET Goroutines /\ st \in [Goroutines -> Metric]
      /\ u \in SUBSET (G \X Counters)
  BY DEF PipeTyped
<1> DEFINE k2 == Head(reps)
           reps2 == Tail(reps)
<1>2. /\ reps2 \in Seq(ReportType) /\ 1 \in 1..Len(reps) /\ k2 = reps[1] /\ k2 \in ReportType
      /\ \A i \in 1..Len(reps2) : i + 1 \in 1..Len(reps) /\ reps2[i] = reps[i + 1]
  BY <1>1
<1>3. ReportsFollow(cur, d, k2, reps2, u, G, st)
  BY <1>1, FollowReceived
<1> HIDE DEF k2, reps2
<1>4. PipeTyped(n, q, cur, d, k2, reps2, u, G, st)
  BY <1>2 DEF PipeTyped
<1>5. KnownRuns(cur, d, k2, reps2) \subseteq KnownRuns(cur, d, k, reps) \cup {0}
  BY <1>2 DEF KnownRuns
<1>6. RunsInOrder(n, q, cur, d, k2, reps2)
  BY <1>1, <1>5, RunsSettled
<1>7. ReportsReal(d, k2, reps2)
  BY <1>2 DEF ReportsReal
<1>8. ReportsFit(d, k2, reps2, u, G, st)
  BY <1>2 DEF ReportsFit
<1>9. Piped(n, q, cur, d, k2, reps2, u, G, st)
  BY <1>3, <1>4, <1>6, <1>7, <1>8
<1> QED BY <1>9 DEF k2, reps2

\* A report is begun.
LEMMA PipedBegun ==
    ASSUME NEW n, NEW q, NEW cur, NEW d, NEW k, NEW reps, NEW u, NEW G, NEW st,
           Piped(n, q, cur, d, k, reps, u, G, st), cur > 0, d = NoReport
    PROVE  Piped(n, q, cur, [run |-> cur, metric |-> Zero], k, reps, G \X Counters, G, st)
<1> USE DEF Piped
<1>1. /\ n \in Nat /\ q \in Seq(Nat) /\ cur \in Nat /\ d \in ReportType /\ k \in ReportType
      /\ reps \in Seq(ReportType) /\ G \in SUBSET Goroutines /\ st \in [Goroutines -> Metric]
  BY DEF PipeTyped
<1> DEFINE d2 == [run |-> cur, metric |-> Zero]
           u2 == G \X Counters
<1>2. d2 \in ReportType /\ d2.run = cur /\ d2.metric = Zero
  BY <1>1, NoReportType DEF ReportType
<1>3. ReportsFollow(cur, d2, k, reps, u2, G, st)
  BY <1>1, NoReportType, FollowBegun
<1>4. LoadsInOrder(cur, d2, u2, G)
  BY DEF LoadsInOrder, LastLoads
<1>5. u2 \in SUBSET (G \X Counters)
  OBVIOUS
<1> HIDE DEF d2, u2
<1>6. PipeTyped(n, q, cur, d2, k, reps, u2, G, st)
  BY <1>1, <1>2, <1>5 DEF PipeTyped
<1>7. KnownRuns(cur, d2, k, reps) \subseteq KnownRuns(cur, d, k, reps) \cup {0}
  BY <1>2 DEF KnownRuns
<1>8. RunsInOrder(n, q, cur, d2, k, reps)
  BY <1>1, <1>7, RunsSettled
<1>9. ReportsReal(d2, k, reps)
  BY <1>2 DEF ReportsReal
<1>10. ReportsFit(d2, k, reps, u2, G, st)
  <2>1. Fits(Zero, u2, G, st)
    BY <1>1, FitsEmpty
  <2> QED BY <1>2, <2>1 DEF ReportsFit
<1>11. Piped(n, q, cur, d2, k, reps, u2, G, st)
  BY <1>3, <1>4, <1>6, <1>8, <1>9, <1>10
<1> QED BY <1>11 DEF d2, u2

\* A counter is read for it.
LEMMA PipedLoaded ==
    ASSUME NEW n, NEW q, NEW cur, NEW d, NEW k, NEW reps, NEW u, NEW G, NEW st,
           Piped(n, q, cur, d, k, reps, u, G, st),
           NEW g \in Goroutines, NEW c \in Counters, Soonest(<<g, c>>, u),
           NEW t, NEW l, Recording(t, l, st[g]),
           NEW d2 \in ReportType, d2.run = d.run, d2.metric = AddIn(d.metric, c, st[g][c])
    PROVE  Piped(n, q, cur, d2, k, reps, u \ {<<g, c>>}, G, st)
<1> USE DEF Piped
<1>1. /\ n \in Nat /\ q \in Seq(Nat) /\ cur \in Nat /\ d \in ReportType /\ k \in ReportType
      /\ reps \in Seq(ReportType) /\ G \in SUBSET Goroutines /\ st \in [Goroutines -> Metric]
      /\ u \in SUBSET (G \X Counters) /\ d.metric \in Metric
  BY ReportParts DEF PipeTyped
<1>2. /\ d.run = cur /\ cur > 0 /\ LastLoads(u) /\ <<g, c>> \in u
  BY DEF LoadsInOrder, Soonest
<1> DEFINE u2 == u \ {<<g, c>>}
<1>3. ReportsFollow(cur, d2, k, reps, u2, G, st)
  BY <1>1, <1>2, FollowLoaded
<1>4. Fits(d2.metric, u2, G, st)
  <2> DEFINE m == d.metric
  <2>1. Fits(m, u, G, st) /\ m \in Metric
    BY <1>1 DEF ReportsFit
  <2> HIDE DEF m
  <2>2. Fits(AddIn(m, c, st[g][c]), u2, G, st)
    BY <1>1, <1>2, <2>1, FitsLoad
  <2> QED BY <2>2 DEF m
<1>5. LoadsInOrder(cur, d2, u2, G)
  <2>1. ASSUME NEW p \in u2, NEW e \in Counters, LoadOrder[p[2]] < LoadOrder[e]
        PROVE  <<p[1], e>> \in u2
    <3>1. <<p[1], e>> \in u /\ p \in u
      BY <1>2, <2>1 DEF LastLoads
    <3>2. ASSUME p[1] = g, e = c PROVE FALSE
      <4>1. Sooner(<<g, c>>, p) /\ p[2] \in Counters /\ g \in Nat
        BY <1>1, <2>1, MeasurementsAssumption DEF Soonest
      <4>2. ~(g < g) /\ LoadOrder[c] \in Nat /\ LoadOrder[p[2]] \in Nat
        BY <4>1, OrderOfLoads
      <4>3. LoadOrder[c] < LoadOrder[p[2]]
        BY <3>2, <4>1, <4>2 DEF Sooner
      <4> QED BY <2>1, <3>2, <4>2, <4>3
    <3> QED BY <3>1, <3>2
  <2> QED BY <1>1, <1>2, <2>1 DEF LoadsInOrder, LastLoads
<1>6. u2 \in SUBSET (G \X Counters)
  BY <1>1
<1> HIDE DEF u2
<1>7. PipeTyped(n, q, cur, d2, k, reps, u2, G, st)
  BY <1>1, <1>6 DEF PipeTyped
<1>8. KnownRuns(cur, d2, k, reps) \subseteq KnownRuns(cur, d, k, reps) \cup {0}
  BY DEF KnownRuns
<1>9. RunsInOrder(n, q, cur, d2, k, reps)
  BY <1>1, <1>8, RunsSettled
<1>10. ReportsReal(d2, k, reps)
  BY <1>2 DEF ReportsReal
<1>11. ReportsFit(d2, k, reps, u2, G, st)
  BY <1>4 DEF ReportsFit
<1>12. Piped(n, q, cur, d2, k, reps, u2, G, st)
  BY <1>3, <1>5, <1>7, <1>9, <1>10, <1>11
<1> QED BY <1>12 DEF u2

\* It is complete, and sent.
LEMMA PipedSent ==
    ASSUME NEW n, NEW q, NEW cur, NEW d, NEW k, NEW reps, NEW G, NEW st,
           Piped(n, q, cur, d, k, reps, {}, G, st), d # NoReport
    PROVE  Piped(n, q, cur, NoReport, k, Append(reps, d), {}, G, st)
<1> USE DEF Piped
<1>1. /\ n \in Nat /\ q \in Seq(Nat) /\ cur \in Nat /\ d \in ReportType /\ k \in ReportType
      /\ reps \in Seq(ReportType) /\ G \in SUBSET Goroutines /\ st \in [Goroutines -> Metric]
      /\ d.run \in Nat
  BY ReportParts DEF PipeTyped
<1>2. d.run > 0
  BY <1>1 DEF ReportsReal
<1>3. cur > 0 => d.run <= cur
  BY DEF RunsInOrder, KnownRuns
<1> DEFINE reps2 == Append(reps, d)
<1>4. /\ reps2 \in Seq(ReportType)
      /\ \A i \in 1..Len(reps2) : (i \in 1..Len(reps) /\ reps2[i] = reps[i]) \/ reps2[i] = d
  BY <1>1
<1>5. ReportsFollow(cur, NoReport, k, reps2, {}, G, st)
  BY <1>1, <1>2, <1>3, FollowSent
<1> HIDE DEF reps2
<1>6. PipeTyped(n, q, cur, NoReport, k, reps2, {}, G, st)
  BY <1>1, <1>4, NoReportType DEF PipeTyped
<1>7. KnownRuns(cur, NoReport, k, reps2) \subseteq KnownRuns(cur, d, k, reps) \cup {0}
  BY <1>4, NoReportType DEF KnownRuns
<1>8. RunsInOrder(n, q, cur, NoReport, k, reps2)
  BY <1>1, <1>7, RunsSettled
<1>9. ReportsReal(NoReport, k, reps2)
  BY <1>2, <1>4 DEF ReportsReal
<1>10. LoadsInOrder(cur, NoReport, {}, G)
  BY DEF LoadsInOrder
<1>11. ReportsFit(NoReport, k, reps2, {}, G, st)
  <2>1. Fits(NoReport.metric, {}, G, st)
    BY <1>1, FitsEmpty, NoReportType
  <2>2. \A i \in 1..Len(reps2) : Fits(reps2[i].metric, {}, G, st)
    BY <1>4 DEF ReportsFit
  <2> QED BY <2>1, <2>2 DEF ReportsFit
<1>12. Piped(n, q, cur, NoReport, k, reps2, {}, G, st)
  BY <1>5, <1>6, <1>8, <1>9, <1>10, <1>11
<1> QED BY <1>12 DEF reps2

-----------------------------------------------------------------------------
(* The inductive invariant.                                                *)

RecordsInOrder == \A g \in Goroutines : Recording(todo[g], latency[g], stat[g])

PipesInOrder ==
    \A w \in Workers : Piped(run, down[w], current[w], draft[w], cached[w], up[w],
                             unread[w], GoroutinesOf(w), stat)

MeasureInv == TypeOK /\ RecordsInOrder /\ PipesInOrder

\* The stages of recording a response are different.
LEMMA Stages ==
    /\ Updates = <<"res", "min", "max", "hist">>
    /\ Updates # <<>> /\ <<"min", "max", "hist">> # <<>>
    /\ <<"max", "hist">> # <<>> /\ <<"hist">> # <<>>
    /\ Updates # <<"min", "max", "hist">> /\ Updates # <<"max", "hist">> /\ Updates # <<"hist">>
    /\ <<"min", "max", "hist">> # <<"max", "hist">> /\ <<"min", "max", "hist">> # <<"hist">>
    /\ <<"max", "hist">> # <<"hist">>
BY DEF Updates

\* What Recording says at each stage.
LEMMA RecordingAt ==
    ASSUME NEW l \in Nat, NEW s \in Metric
    PROVE  LET fit == s["max"] > 0 => s["min"] \in 1..s["max"]
           IN  /\ Recording(<<>>, l, s) <=> s["res"] = s["hist"] /\ fit
               /\ Recording(Updates, l, s) <=> s["res"] = s["hist"] /\ fit /\ l > 0
               /\ Recording(<<"min", "max", "hist">>, l, s)
                     <=> s["res"] = s["hist"] + 1 /\ fit /\ l > 0
               /\ Recording(<<"max", "hist">>, l, s)
                     <=> s["res"] = s["hist"] + 1 /\ fit /\ l > 0 /\ s["min"] \in 1..l
               /\ Recording(<<"hist">>, l, s) <=> s["res"] = s["hist"] + 1 /\ fit /\ l > 0
<1> DEFINE a == <<"min", "max", "hist">>
           b == <<"max", "hist">>
           c == <<"hist">>
           fit == s["max"] > 0 => s["min"] \in 1..s["max"]
<1>1. /\ Updates # <<>> /\ a # <<>> /\ b # <<>> /\ c # <<>>
      /\ Updates # a /\ Updates # b /\ Updates # c /\ a # b /\ a # c /\ b # c
  BY Stages
<1>2. s["res"] \in Nat /\ s["hist"] \in Nat
  BY DEF Metric, Counters
<1>3. \A t : Recording(t, l, s) <=>
        /\ t \in {<<>>, c, b, a, Updates}
        /\ t # <<>> => l > 0
        /\ s["res"] = s["hist"] + (IF t \in {<<>>, Updates} THEN 0 ELSE 1)
        /\ fit
        /\ t = b => s["min"] \in 1..l
  BY DEF Recording
<1> HIDE DEF a, b, c, fit
<1>4. Recording(<<>>, l, s) <=> s["res"] = s["hist"] /\ fit
  BY <1>1, <1>2, <1>3
<1>5. Recording(Updates, l, s) <=> s["res"] = s["hist"] /\ fit /\ l > 0
  BY <1>1, <1>2, <1>3
<1>6. Recording(a, l, s) <=> s["res"] = s["hist"] + 1 /\ fit /\ l > 0
  BY <1>1, <1>2, <1>3
<1>7. Recording(b, l, s) <=> s["res"] = s["hist"] + 1 /\ fit /\ l > 0 /\ s["min"] \in 1..l
  BY <1>1, <1>2, <1>3
<1>8. Recording(c, l, s) <=> s["res"] = s["hist"] + 1 /\ fit /\ l > 0
  BY <1>1, <1>2, <1>3
<1> QED BY <1>4, <1>5, <1>6, <1>7, <1>8 DEF a, b, c, fit

\* Record makes the updates in their order.
LEMMA RecordingGoesOn ==
    ASSUME NEW t, NEW l \in Nat, NEW s \in Metric, Recording(t, l, s), t # <<>>
    PROVE  /\ Updated(s, Head(t), l) \in Metric
           /\ Tail(t) \in Seq(Counters)
           /\ Recording(Tail(t), IF Len(t) = 1 THEN 0 ELSE l, Updated(s, Head(t), l))
           /\ \A c \in Counters : AtMost(c, s[c], Updated(s, Head(t), l)[c])
<1> DEFINE c == Head(t)
           v == IF c \in {"min", "max"} THEN l ELSE 1
           s2 == Updated(s, c, l)
           l2 == IF Len(t) = 1 THEN 0 ELSE l
           fit == s["max"] > 0 => s["min"] \in 1..s["max"]
<1>1. t \in {<<"hist">>, <<"max", "hist">>, <<"min", "max", "hist">>, Updates}
  BY DEF Recording
<1>2. \/ t = Updates /\ c = "res" /\ Tail(t) = <<"min", "max", "hist">> /\ l2 = l
      \/ t = <<"min", "max", "hist">> /\ c = "min" /\ Tail(t) = <<"max", "hist">> /\ l2 = l
      \/ t = <<"max", "hist">> /\ c = "max" /\ Tail(t) = <<"hist">> /\ l2 = l
      \/ t = <<"hist">> /\ c = "hist" /\ Tail(t) = <<>> /\ l2 = 0
  <2>1. CASE t = Updates
    BY <2>1 DEF Updates
  <2>2. CASE t = <<"min", "max", "hist">>
    BY <2>2
  <2>3. CASE t = <<"max", "hist">>
    BY <2>3
  <2>4. CASE t = <<"hist">>
    BY <2>4
  <2> QED BY <1>1, <2>1, <2>2, <2>3, <2>4
<1>3. Tail(t) \in Seq(Counters)
  <2>1. /\ <<"min", "max", "hist">> \in Seq(Counters) /\ <<"max", "hist">> \in Seq(Counters)
        /\ <<"hist">> \in Seq(Counters) /\ <<>> \in Seq(Counters)
    BY DEF Counters
  <2> HIDE DEF c, l2
  <2> QED BY <1>2, <2>1
<1> HIDE DEF c, l2
<1>4. c \in Counters /\ l2 \in Nat /\ v \in Nat
  BY <1>2 DEF Counters
<1>5. l > 0 /\ fit
  BY DEF Recording
<1>6. s2 = AddIn(s, c, v)
  BY DEF Updated
<1> HIDE DEF s2
<1>7. /\ s2 \in Metric /\ (\A d \in Counters \ {c} : s2[d] = s[d])
      /\ s2[c] = IF c = "max" THEN Greater(s[c], v)
                 ELSE IF c = "min" THEN Smaller(s[c], v) ELSE s[c] + v
  <2> HIDE DEF v
  <2> QED BY <1>4, <1>6, AddInAt
<1>8. \A d \in Counters : AtMost(d, s[d], s2[d])
  <2> HIDE DEF v
  <2> QED BY <1>4, <1>6, AddInGrows
<1>9. s["min"] \in Nat /\ s["max"] \in Nat /\ s["res"] \in Nat /\ s["hist"] \in Nat
  BY DEF Metric, Counters
<1>10. Recording(Tail(t), l2, s2)
  <2>1. CASE t = <<"hist">> /\ c = "hist" /\ Tail(t) = <<>> /\ l2 = 0
    <3>1. s["res"] = s["hist"] + 1
      BY <2>1, RecordingAt
    <3>2. s2["hist"] = s["hist"] + 1 /\ s2["res"] = s["res"] /\ s2["max"] = s["max"]
          /\ s2["min"] = s["min"]
      BY <1>7, <2>1 DEF Counters
    <3> QED BY <1>4, <1>5, <1>7, <1>9, <2>1, <3>1, <3>2, RecordingAt
  <2>2. CASE t = <<"max", "hist">> /\ c = "max" /\ Tail(t) = <<"hist">> /\ l2 = l
    <3>1. s["res"] = s["hist"] + 1 /\ s["min"] \in 1..l
      BY <2>2, RecordingAt
    <3>2. s2["hist"] = s["hist"] /\ s2["res"] = s["res"] /\ s2["max"] = Greater(s["max"], l)
          /\ s2["min"] = s["min"]
      BY <1>7, <2>2 DEF Counters
    <3>3. s2["min"] \in 1..s2["max"]
      BY <1>5, <1>9, <3>1, <3>2 DEF Greater
    <3>4. s2["res"] = s2["hist"] + 1 /\ l > 0 /\ s2["max"] > 0 => s2["min"] \in 1..s2["max"]
      BY <1>5, <3>1, <3>2, <3>3
    <3> QED BY <1>5, <1>7, <2>2, <3>1, <3>2, <3>3, RecordingAt
  <2>3. CASE t = <<"min", "max", "hist">> /\ c = "min" /\ Tail(t) = <<"max", "hist">> /\ l2 = l
    <3>1. s["res"] = s["hist"] + 1
      BY <2>3, RecordingAt
    <3>2. s2["hist"] = s["hist"] /\ s2["res"] = s["res"] /\ s2["max"] = s["max"]
          /\ s2["min"] = Smaller(s["min"], l)
      BY <1>7, <2>3 DEF Counters
    <3>3. s2["min"] \in 1..l /\ (s2["max"] > 0 => s2["min"] \in 1..s2["max"])
      BY <1>5, <1>9, <3>2 DEF Smaller
    <3> QED BY <1>5, <1>7, <2>3, <3>1, <3>2, <3>3, RecordingAt
  <2>4. CASE t = Updates /\ c = "res" /\ Tail(t) = <<"min", "max", "hist">> /\ l2 = l
    <3>1. s["res"] = s["hist"]
      BY <2>4, RecordingAt
    <3>2. s2["hist"] = s["hist"] /\ s2["res"] = s["res"] + 1 /\ s2["max"] = s["max"]
          /\ s2["min"] = s["min"]
      BY <1>7, <2>4 DEF Counters
    <3> QED BY <1>5, <1>7, <2>4, <3>1, <3>2, RecordingAt
  <2> QED BY <1>2, <2>1, <2>2, <2>3, <2>4
<1> QED BY <1>3, <1>7, <1>8, <1>10 DEF s2, c, l2

\* A request ends: it may be recorded further or not.
LEMMA RecordingBegins ==
    ASSUME NEW l, NEW s \in Metric, Recording(<<>>, l, s)
    PROVE  /\ Updated(s, "req", 0) \in Metric
           /\ Recording(<<>>, l, Updated(s, "req", 0))
           /\ \A l2 \in Nat \ {0} : Recording(Updates, l2, Updated(s, "req", 0))
           /\ \A c \in Counters : AtMost(c, s[c], Updated(s, "req", 0)[c])
<1> DEFINE s2 == Updated(s, "req", 0)
<1>1. s2 = AddIn(s, "req", 1) /\ "req" \in Counters /\ 1 \in Nat
  BY DEF Updated, Counters
<1>2. s2 \in Metric /\ (\A d \in Counters \ {"req"} : s2[d] = s[d])
      /\ (\A c \in Counters : AtMost(c, s[c], s2[c]))
  <2> HIDE DEF s2
  <2> QED BY <1>1, AddInAt, AddInGrows
<1>3. s2["res"] = s["res"] /\ s2["hist"] = s["hist"] /\ s2["max"] = s["max"]
      /\ s2["min"] = s["min"]
  BY <1>2 DEF Counters
<1> HIDE DEF s2
<1>4. Recording(<<>>, l, s2)
  BY <1>3 DEF Recording
<1>5. ASSUME NEW l2 \in Nat \ {0} PROVE Recording(Updates, l2, s2)
  BY <1>3, <1>5 DEF Recording, Updates
<1> QED BY <1>2, <1>4, <1>5 DEF s2

\* What is true of goroutines that count nothing.
LEMMA RecordingNothing == Recording(<<>>, 0, Zero) /\ Zero \in Metric
BY NoReportType DEF Recording, Zero, Counters, Updates

\* Initially nothing is counted, reported or cached.
LEMMA MeasureInit == Init => MeasureInv
<1> SUFFICES ASSUME Init PROVE MeasureInv
  OBVIOUS
<1>1. TypeOK
  <2>1. exists \in BOOLEAN
    BY Zenon DEF Init
  <2>2. exists \in BOOLEAN => TypeOK
    BY NoReportType DEF Init, TypeOK
  <2> QED BY <2>1, <2>2
<1>2. RecordsInOrder
  BY RecordingNothing DEF Init, RecordsInOrder
<1>3. ASSUME NEW w \in Workers
      PROVE  Piped(0, <<>>, 0, NoReport, NoReport, <<>>, {}, GoroutinesOf(w), stat)
  <2>1. PipeTyped(0, <<>>, 0, NoReport, NoReport, <<>>, {}, GoroutinesOf(w), stat)
    BY NoReportType DEF PipeTyped, GoroutinesOf, Init
  <2>2. RunsInOrder(0, <<>>, 0, NoReport, NoReport, <<>>)
    BY NoReportType DEF RunsInOrder, KnownRuns
  <2>3. ReportsReal(NoReport, NoReport, <<>>) /\ LoadsInOrder(0, NoReport, {}, GoroutinesOf(w))
    BY DEF ReportsReal, LoadsInOrder, LastLoads
  <2>4. ReportsFit(NoReport, NoReport, <<>>, {}, GoroutinesOf(w), stat)
    BY <2>1, NoReportType, FitsEmpty DEF ReportsFit, PipeTyped
  <2>5. ReportsFollow(0, NoReport, NoReport, <<>>, {}, GoroutinesOf(w), stat)
    BY NoReportType DEF ReportsFollow
  <2> QED BY <2>1, <2>2, <2>3, <2>4, <2>5 DEF Piped
<1>4. PipesInOrder
  BY <1>3 DEF Init, PipesInOrder
<1> QED BY <1>1, <1>2, <1>4 DEF MeasureInv

-----------------------------------------------------------------------------
(* Every step keeps it.                                                    *)

\* The types of what is on the way from the workers follow from PipesInOrder.
PipeFunctions ==
    /\ down = [w \in Workers |-> down[w]] /\ current = [w \in Workers |-> current[w]]
    /\ draft = [w \in Workers |-> draft[w]] /\ cached = [w \in Workers |-> cached[w]]
    /\ up = [w \in Workers |-> up[w]] /\ unread = [w \in Workers |-> unread[w]]

RestTyped ==
    /\ exists \in BOOLEAN /\ run \in Nat
    /\ stat \in [Goroutines -> Metric]
    /\ todo \in [Goroutines -> Seq(Counters)]
    /\ latency \in [Goroutines -> Nat]

\* So TypeOK needs only to be shown of the rest.
LEMMA TypedPipes == PipeFunctions /\ RestTyped /\ PipesInOrder => TypeOK
<1> SUFFICES ASSUME PipeFunctions, RestTyped, PipesInOrder PROVE TypeOK
  OBVIOUS
<1>1. ASSUME NEW w \in Workers
      PROVE  /\ down[w] \in Seq(Nat) /\ current[w] \in Nat /\ draft[w] \in ReportType
             /\ cached[w] \in ReportType /\ up[w] \in Seq(ReportType)
             /\ unread[w] \in SUBSET (Goroutines \X Counters)
             /\ unread[w] # {} => draft[w].run = current[w]
  <2>1. Piped(run, down[w], current[w], draft[w], cached[w], up[w], unread[w],
              GoroutinesOf(w), stat)
    BY DEF PipesInOrder
  <2> QED BY <2>1 DEF Piped, PipeTyped, LoadsInOrder
<1> QED BY <1>1 DEF PipeFunctions, RestTyped, TypeOK

\* Start, Stop, Pause and Resume.
LEMMA CommandsKeep ==
    ASSUME MeasureInv, NEW x \in {0, run + 1}, Command(x), run' \in {run, run + 1}, x <= run',
           exists' \in BOOLEAN,
           cached' \in {cached, [w \in Workers |-> NoReport]},
           UNCHANGED <<current, recordVars, reportVars, up>>
    PROVE  MeasureInv'
<1>0. TypeOK
  BY DEF MeasureInv
<1>1. PipeFunctions' /\ RestTyped' /\ RecordsInOrder'
  BY DEF MeasureInv, TypeOK, Command, recordVars, reportVars, PipeFunctions, RestTyped,
         RecordsInOrder
<1>2. ASSUME NEW w \in Workers
      PROVE  Piped(run', down'[w], current'[w], draft'[w], cached'[w], up'[w], unread'[w],
                   GoroutinesOf(w), stat')
  <2>1. Piped(run, down[w], current[w], draft[w], cached[w], up[w], unread[w],
              GoroutinesOf(w), stat)
    BY DEF MeasureInv, PipesInOrder
  <2>2. /\ run' \in Nat /\ run <= run' /\ cached'[w] \in {cached[w], NoReport}
        /\ down'[w] = Append(down[w], x)
    BY DEF MeasureInv, TypeOK, Command
  <2>3. Piped(run', Append(down[w], x), current[w], draft[w], cached'[w], up[w], unread[w],
              GoroutinesOf(w), stat)
    BY <2>1, <2>2, PipedCommanded
  <2> QED BY <2>2, <2>3 DEF recordVars, reportVars
<1>3. PipesInOrder'
  BY <1>2 DEF PipesInOrder
<1>4. TypeOK'
  BY <1>1, <1>3, TypedPipes, PTL
<1> QED BY <1>1, <1>3, <1>4 DEF MeasureInv

\* What the invariant says of one worker.
LEMMA PipeOf ==
    ASSUME MeasureInv, NEW w \in Workers
    PROVE  /\ Piped(run, down[w], current[w], draft[w], cached[w], up[w], unread[w],
                    GoroutinesOf(w), stat)
           /\ run \in Nat /\ current[w] \in Nat /\ draft[w] \in ReportType
           /\ cached[w] \in ReportType /\ up[w] \in Seq(ReportType)
           /\ unread[w] \in SUBSET (GoroutinesOf(w) \X Counters)
           /\ GoroutinesOf(w) \in SUBSET Goroutines /\ stat \in [Goroutines -> Metric]
<1>1. Piped(run, down[w], current[w], draft[w], cached[w], up[w], unread[w],
            GoroutinesOf(w), stat)
  BY DEF MeasureInv, PipesInOrder
<1> QED BY <1>1 DEF Piped, PipeTyped

\* A step is done with once it is known what it does to every worker.
LEMMA PipesKept ==
    ASSUME MeasureInv, PipeFunctions', RestTyped', RecordsInOrder',
           \A w \in Workers : Piped(run', down'[w], current'[w], draft'[w], cached'[w], up'[w],
                                    unread'[w], GoroutinesOf(w), stat')
    PROVE  MeasureInv'
<1>1. PipesInOrder'
  BY DEF PipesInOrder
<1>2. TypeOK'
  BY <1>1, TypedPipes, PTL
<1> QED BY <1>1, <1>2 DEF MeasureInv

\* The ocean receives a worker's report.
LEMMA OnReportKeeps ==
    ASSUME MeasureInv, NEW w \in Workers, OnReport(w)
    PROVE  MeasureInv'
<1>1. PipeFunctions' /\ RestTyped' /\ RecordsInOrder'
  BY DEF MeasureInv, TypeOK, OnReport, recordVars, reportVars, PipeFunctions, RestTyped,
         RecordsInOrder
<1>2. ASSUME NEW v \in Workers
      PROVE  Piped(run', down'[v], current'[v], draft'[v], cached'[v], up'[v], unread'[v],
                   GoroutinesOf(v), stat')
  <2>1. /\ Piped(run, down[v], current[v], draft[v], cached[v], up[v], unread[v],
                 GoroutinesOf(v), stat)
        /\ UNCHANGED <<run, down, current, draft, unread, stat>>
    BY PipeOf DEF OnReport, recordVars, reportVars
  <2>2. CASE v # w
    <3>1. cached'[v] = cached[v] /\ up'[v] = up[v]
      BY <2>2 DEF OnReport, MeasureInv, TypeOK
    <3> QED BY <2>1, <3>1
  <2>3. CASE v = w
    <3>1. cached'[v] = Head(up[v]) /\ up'[v] = Tail(up[v]) /\ up[v] # <<>>
      BY <2>3 DEF OnReport, MeasureInv, TypeOK
    <3>2. Piped(run, down[v], current[v], draft[v], Head(up[v]), Tail(up[v]), unread[v],
                GoroutinesOf(v), stat)
      BY <2>1, <3>1, PipedReceived
    <3> QED BY <2>1, <3>1, <3>2
  <2> QED BY <2>2, <2>3
<1> QED BY <1>1, <1>2, PipesKept

\* A worker starts, replaces or removes its service; the others do not notice.
LEMMA HandleCommandKeeps ==
    ASSUME MeasureInv, NEW w \in Workers, HandleCommand(w)
    PROVE  MeasureInv'
<1>1. /\ PipeFunctions' /\ UNCHANGED <<exists, run, draft, unread, up, cached>>
      /\ down[w] # <<>> /\ unread[w] = {}
  BY DEF HandleCommand, MeasureInv, TypeOK, oceanVars, reportVars, PipeFunctions
<1>2. /\ stat' = [g \in Goroutines |-> IF Host[g] = w THEN Zero ELSE stat[g]]
      /\ todo' = [g \in Goroutines |-> IF Host[g] = w THEN <<>> ELSE todo[g]]
      /\ latency' = [g \in Goroutines |-> IF Host[g] = w THEN 0 ELSE latency[g]]
  BY DEF HandleCommand
<1>3. stat' \in [Goroutines -> Metric]
  BY <1>2, RecordingNothing DEF MeasureInv, TypeOK
<1>4. RestTyped'
  BY <1>1, <1>2, <1>3 DEF RestTyped, MeasureInv, TypeOK
<1>5. RecordsInOrder'
  BY <1>2, RecordingNothing DEF RecordsInOrder, MeasureInv
<1>6. ASSUME NEW v \in Workers
      PROVE  Piped(run', down'[v], current'[v], draft'[v], cached'[v], up'[v], unread'[v],
                   GoroutinesOf(v), stat')
  <2>1. Piped(run, down[v], current[v], draft[v], cached[v], up[v], unread[v],
              GoroutinesOf(v), stat)
    BY PipeOf
  <2>2. CASE v # w
    <3>1. down'[v] = down[v] /\ current'[v] = current[v]
      BY <2>2 DEF HandleCommand, MeasureInv, TypeOK
    <3>2. Grows(GoroutinesOf(v), stat, stat')
      <4>1. \A g \in GoroutinesOf(v) : stat'[g] = stat[g]
        BY <1>2, <2>2 DEF GoroutinesOf
      <4> QED BY <4>1, PipeOf, StillGrows
    <3>3. Piped(run, down[v], current[v], draft[v], cached[v], up[v], unread[v],
                GoroutinesOf(v), stat')
      BY <1>3, <2>1, <3>2, PipedGrows
    <3> QED BY <1>1, <3>1, <3>3
  <2>3. CASE v = w
    <3>1. down'[v] = Tail(down[v]) /\ current'[v] = Head(down[v]) /\ down[v] # <<>>
          /\ unread[v] = {}
      BY <1>1, <2>3 DEF HandleCommand, MeasureInv, TypeOK
    <3>2. Piped(run, Tail(down[v]), Head(down[v]), draft[v], cached[v], up[v], {},
                GoroutinesOf(v), stat')
      BY <1>3, <2>1, <3>1, PipedHandled
    <3> QED BY <1>1, <3>1, <3>2
  <2> QED BY <2>2, <2>3
<1> QED BY <1>1, <1>4, <1>5, <1>6, PipesKept

\* Done and Record: only counters change, and they grow.
LEMMA CountersGrow ==
    ASSUME MeasureInv, UNCHANGED <<oceanVars, down, current, reportVars, up>>,
           RestTyped', RecordsInOrder', Grows(Goroutines, stat, stat')
    PROVE  MeasureInv'
<1>1. UNCHANGED <<exists, run, cached, down, current, draft, unread, up>> /\ PipeFunctions'
  BY DEF oceanVars, reportVars, PipeFunctions, MeasureInv, TypeOK
<1>2. ASSUME NEW v \in Workers
      PROVE  Piped(run', down'[v], current'[v], draft'[v], cached'[v], up'[v], unread'[v],
                   GoroutinesOf(v), stat')
  <2>1. Piped(run, down[v], current[v], draft[v], cached[v], up[v], unread[v],
              GoroutinesOf(v), stat)
    BY PipeOf
  <2>2. Grows(GoroutinesOf(v), stat, stat') /\ stat' \in [Goroutines -> Metric]
    BY DEF Grows, GoroutinesOf, RestTyped
  <2>3. Piped(run, down[v], current[v], draft[v], cached[v], up[v], unread[v],
              GoroutinesOf(v), stat')
    BY <2>1, <2>2, PipedGrows
  <2> QED BY <1>1, <2>3
<1> QED BY <1>1, <1>2, PipesKept

\* A request ends.
LEMMA DoneKeeps ==
    ASSUME MeasureInv, NEW g \in Goroutines, Done(g)
    PROVE  MeasureInv'
<1> DEFINE s2 == Updated(stat[g], "req", 0)
<1>0. /\ stat \in [Goroutines -> Metric] /\ todo \in [Goroutines -> Seq(Counters)]
      /\ latency \in [Goroutines -> Nat] /\ stat[g] \in Metric /\ Latencies \subseteq Nat \ {0}
      /\ \A h \in Goroutines : Recording(todo[h], latency[h], stat[h])
  BY MeasurementsAssumption DEF MeasureInv, TypeOK, RecordsInOrder
<1>1. todo[g] = <<>> /\ Recording(<<>>, latency[g], stat[g])
  BY <1>0 DEF Done
<1>2. /\ s2 \in Metric /\ Recording(<<>>, latency[g], s2)
      /\ \A l2 \in Nat \ {0} : Recording(Updates, l2, s2)
      /\ \A c \in Counters : AtMost(c, stat[g][c], s2[c])
  <2> DEFINE s == stat[g]
  <2>1. s \in Metric /\ Recording(<<>>, latency[g], s)
    BY <1>0, <1>1
  <2> HIDE DEF s
  <2>2. /\ Updated(s, "req", 0) \in Metric
        /\ Recording(<<>>, latency[g], Updated(s, "req", 0))
        /\ \A l2 \in Nat \ {0} : Recording(Updates, l2, Updated(s, "req", 0))
        /\ \A c \in Counters : AtMost(c, s[c], Updated(s, "req", 0)[c])
    BY <2>1, RecordingBegins
  <2> QED BY <2>2 DEF s
<1>3. stat' = [stat EXCEPT ![g] = s2]
  BY DEF Done
<1> HIDE DEF s2
<1>4. UNCHANGED <<oceanVars, down, current, reportVars, up>> /\ UNCHANGED <<exists, run>>
  BY DEF Done, oceanVars
<1>5. \/ todo' = todo /\ latency' = latency
      \/ \E l \in Latencies : todo' = [todo EXCEPT ![g] = Updates]
                              /\ latency' = [latency EXCEPT ![g] = l]
  BY DEF Done
<1>6. Updates \in Seq(Counters)
  BY DEF Updates, Counters
<1>7. stat' \in [Goroutines -> Metric]
  BY <1>0, <1>2, <1>3
<1>8. RestTyped'
  <2>1. todo' \in [Goroutines -> Seq(Counters)] /\ latency' \in [Goroutines -> Nat]
    BY <1>0, <1>5, <1>6
  <2> QED BY <1>4, <1>7, <2>1 DEF RestTyped, MeasureInv, TypeOK
<1>9. RecordsInOrder'
  <2>1. ASSUME NEW h \in Goroutines, h # g PROVE Recording(todo'[h], latency'[h], stat'[h])
    <3>1. todo'[h] = todo[h] /\ latency'[h] = latency[h] /\ stat'[h] = stat[h]
      BY <1>0, <1>3, <1>5, <2>1
    <3> QED BY <1>0, <3>1
  <2>2. Recording(todo'[g], latency'[g], stat'[g])
    <3>1. stat'[g] = s2
      BY <1>0, <1>3
    <3>2. CASE todo' = todo /\ latency' = latency
      BY <1>1, <1>2, <3>1, <3>2
    <3>3. CASE \E l \in Latencies : todo' = [todo EXCEPT ![g] = Updates]
                                    /\ latency' = [latency EXCEPT ![g] = l]
      <4>1. PICK l \in Latencies : todo' = [todo EXCEPT ![g] = Updates]
                                   /\ latency' = [latency EXCEPT ![g] = l]
        BY <3>3
      <4>2. todo'[g] = Updates /\ latency'[g] = l /\ l \in Nat \ {0}
        BY <1>0, <4>1
      <4> QED BY <1>2, <3>1, <4>2
    <3> QED BY <1>5, <3>2, <3>3
  <2> QED BY <2>1, <2>2 DEF RecordsInOrder
<1>10. Grows(Goroutines, stat, stat')
  <2>1. ASSUME NEW h \in Goroutines, h # g, NEW c \in Counters
        PROVE  AtMost(c, stat[h][c], stat'[h][c])
    <3>1. stat'[h] = stat[h] /\ stat[h][c] \in Nat
      BY <1>0, <1>3, <2>1 DEF Metric
    <3> QED BY <3>1 DEF AtMost
  <2>2. ASSUME NEW c \in Counters PROVE AtMost(c, stat[g][c], stat'[g][c])
    BY <1>0, <1>2, <1>3
  <2> QED BY <2>1, <2>2 DEF Grows
<1> QED BY <1>4, <1>8, <1>9, <1>10, CountersGrow

\* One more update of record.
LEMMA RecordKeeps ==
    ASSUME MeasureInv, NEW g \in Goroutines, Record(g)
    PROVE  MeasureInv'
<1> DEFINE t == todo[g]
           l == latency[g]
           s == stat[g]
           s2 == Updated(s, Head(t), l)
           l2 == IF Len(t) = 1 THEN 0 ELSE l
<1>0. /\ stat \in [Goroutines -> Metric] /\ todo \in [Goroutines -> Seq(Counters)]
      /\ latency \in [Goroutines -> Nat] /\ s \in Metric /\ l \in Nat
      /\ \A h \in Goroutines : Recording(todo[h], latency[h], stat[h])
  BY DEF MeasureInv, TypeOK, RecordsInOrder
<1>1. /\ t # <<>> /\ Recording(t, l, s)
      /\ stat' = [stat EXCEPT ![g] = s2]
      /\ todo' = [todo EXCEPT ![g] = Tail(t)]
      /\ latency' = [latency EXCEPT ![g] = l2]
  BY <1>0 DEF Record
<1>2. UNCHANGED <<oceanVars, down, current, reportVars, up>> /\ UNCHANGED <<exists, run>>
  BY DEF Record, oceanVars
<1>3. /\ s2 \in Metric /\ Tail(t) \in Seq(Counters) /\ Recording(Tail(t), l2, s2)
      /\ \A c \in Counters : AtMost(c, s[c], s2[c])
  <2> HIDE DEF t, l, s
  <2> QED BY <1>0, <1>1, RecordingGoesOn
<1>4. l2 \in Nat /\ s = stat[g]
  BY <1>0
<1> HIDE DEF t, l, s, s2, l2
<1>5. /\ stat'[g] = s2 /\ todo'[g] = Tail(t) /\ latency'[g] = l2
      /\ \A h \in Goroutines \ {g} : todo'[h] = todo[h] /\ latency'[h] = latency[h]
                                     /\ stat'[h] = stat[h]
  BY <1>0, <1>1
<1>6. RestTyped'
  BY <1>0, <1>1, <1>2, <1>3, <1>4 DEF RestTyped, MeasureInv, TypeOK
<1>7. RecordsInOrder'
  BY <1>0, <1>3, <1>5 DEF RecordsInOrder
<1>8. Grows(Goroutines, stat, stat')
  <2>1. ASSUME NEW h \in Goroutines, h # g, NEW c \in Counters
        PROVE  AtMost(c, stat[h][c], stat'[h][c])
    <3>1. stat'[h] = stat[h] /\ stat[h][c] \in Nat
      BY <1>0, <1>5, <2>1 DEF Metric
    <3> QED BY <3>1 DEF AtMost
  <2>2. ASSUME NEW c \in Counters PROVE AtMost(c, stat[g][c], stat'[g][c])
    BY <1>3, <1>4, <1>5
  <2> QED BY <2>1, <2>2 DEF Grows
<1> QED BY <1>2, <1>6, <1>7, <1>8, CountersGrow

\* Tick, Load and Send: only one worker's report changes.
LEMMA ReportingKeeps ==
    ASSUME MeasureInv, NEW w \in Workers, PipeFunctions',
           UNCHANGED <<oceanVars, down, current, recordVars>>,
           \A v \in Workers \ {w} : draft'[v] = draft[v] /\ unread'[v] = unread[v]
                                    /\ up'[v] = up[v],
           Piped(run, down[w], current[w], draft'[w], cached[w], up'[w], unread'[w],
                 GoroutinesOf(w), stat)
    PROVE  MeasureInv'
<1>1. /\ UNCHANGED <<exists, run, cached, down, current, stat, todo, latency>>
      /\ RestTyped' /\ RecordsInOrder'
  BY DEF oceanVars, recordVars, RestTyped, RecordsInOrder, MeasureInv, TypeOK
<1>2. ASSUME NEW v \in Workers
      PROVE  Piped(run', down'[v], current'[v], draft'[v], cached'[v], up'[v], unread'[v],
                   GoroutinesOf(v), stat')
  <2>1. Piped(run, down[v], current[v], draft[v], cached[v], up[v], unread[v],
              GoroutinesOf(v), stat)
    BY PipeOf
  <2>2. CASE v # w
    <3>1. draft'[v] = draft[v] /\ unread'[v] = unread[v] /\ up'[v] = up[v]
      BY <2>2
    <3> QED BY <1>1, <2>1, <3>1
  <2> QED BY <1>1, <2>2
<1> QED BY <1>1, <1>2, PipesKept

\* A report is begun, ...
LEMMA TickKeeps ==
    ASSUME MeasureInv, NEW w \in Workers, Tick(w)
    PROVE  MeasureInv'
<1>1. /\ UNCHANGED <<oceanVars, down, current, recordVars>> /\ UNCHANGED <<cached, up>>
      /\ current[w] > 0 /\ unread[w] = {} /\ draft[w] = NoReport
      /\ unread' = [unread EXCEPT ![w] = GoroutinesOf(w) \X Counters]
      /\ draft' = [draft EXCEPT ![w] = [run |-> current[w], metric |-> Zero]]
  BY DEF Tick, oceanVars, Loads
<1>2. /\ unread'[w] = GoroutinesOf(w) \X Counters
      /\ draft'[w] = [run |-> current[w], metric |-> Zero]
      /\ \A v \in Workers \ {w} : draft'[v] = draft[v] /\ unread'[v] = unread[v]
                                  /\ up'[v] = up[v]
      /\ PipeFunctions'
  BY <1>1 DEF MeasureInv, TypeOK, PipeFunctions
<1>3. Piped(run, down[w], current[w], draft[w], cached[w], up[w], unread[w],
            GoroutinesOf(w), stat)
  BY PipeOf
<1>4. Piped(run, down[w], current[w], [run |-> current[w], metric |-> Zero], cached[w], up[w],
            GoroutinesOf(w) \X Counters, GoroutinesOf(w), stat)
  BY <1>1, <1>3, PipedBegun
<1> QED BY <1>1, <1>2, <1>4, ReportingKeeps

\* ... one counter is added to it, ...
LEMMA LoadKeeps ==
    ASSUME MeasureInv, NEW w \in Workers, Load(w)
    PROVE  MeasureInv'
<1>1. PICK p \in unread[w] :
        /\ \A q \in unread[w] \ {p} : Sooner(p, q)
        /\ draft' = [draft EXCEPT ![w].metric = AddIn(@, p[2], stat[p[1]][p[2]])]
        /\ unread' = [unread EXCEPT ![w] = @ \ {p}]
  BY DEF Load
<1> DEFINE g == p[1]
           c == p[2]
           d2 == [draft[w] EXCEPT !.metric = AddIn(@, c, stat[g][c])]
<1>2. /\ UNCHANGED <<oceanVars, down, current, recordVars>> /\ UNCHANGED <<cached, up>>
  BY DEF Load, oceanVars
<1>3. /\ Piped(run, down[w], current[w], draft[w], cached[w], up[w], unread[w],
               GoroutinesOf(w), stat)
      /\ draft[w] \in ReportType /\ unread[w] \in SUBSET (GoroutinesOf(w) \X Counters)
      /\ stat \in [Goroutines -> Metric] /\ GoroutinesOf(w) \subseteq Goroutines
  BY PipeOf
<1>4. p = <<g, c>> /\ g \in Goroutines /\ c \in Counters
  BY <1>3
<1>5. draft[w].metric \in Metric /\ draft[w].run \in Nat
      /\ draft[w] = [run |-> draft[w].run, metric |-> draft[w].metric]
  BY <1>3 DEF ReportType
<1>6. stat[g][c] \in Nat
  BY <1>3, <1>4 DEF Metric
<1>7. AddIn(draft[w].metric, c, stat[g][c]) \in Metric
  <2> DEFINE m == draft[w].metric
             v == stat[g][c]
  <2>1. m \in Metric /\ v \in Nat
    BY <1>5, <1>6
  <2> HIDE DEF m, v
  <2>2. AddIn(m, c, v) \in Metric
    BY <1>4, <2>1, AddInAt
  <2> QED BY <2>2 DEF m, v
<1>8. d2.run = draft[w].run /\ d2.metric = AddIn(draft[w].metric, c, stat[g][c])
      /\ d2 \in ReportType
  BY <1>5, <1>7 DEF ReportType
<1>9. /\ unread'[w] = unread[w] \ {<<g, c>>} /\ draft'[w] = d2 /\ up'[w] = up[w]
      /\ \A v \in Workers \ {w} : draft'[v] = draft[v] /\ unread'[v] = unread[v]
                                  /\ up'[v] = up[v]
      /\ PipeFunctions'
  BY <1>1, <1>2, <1>4 DEF MeasureInv, TypeOK, PipeFunctions, oceanVars
<1>10. Recording(todo[g], latency[g], stat[g])
  BY <1>4 DEF MeasureInv, RecordsInOrder
<1>11. Soonest(<<g, c>>, unread[w])
  BY <1>1, <1>4 DEF Soonest
<1> HIDE DEF g, c, d2
<1>12. Piped(run, down[w], current[w], d2, cached[w], up[w], unread[w] \ {<<g, c>>},
             GoroutinesOf(w), stat)
  BY <1>3, <1>4, <1>8, <1>10, <1>11, PipedLoaded
<1> QED BY <1>2, <1>9, <1>12, ReportingKeeps

\* ... and it is sent.
LEMMA SendKeeps ==
    ASSUME MeasureInv, NEW w \in Workers, Send(w)
    PROVE  MeasureInv'
<1>1. /\ UNCHANGED <<oceanVars, down, current, recordVars>> /\ UNCHANGED <<cached, unread>>
      /\ unread[w] = {} /\ draft[w] # NoReport
      /\ up' = [up EXCEPT ![w] = Append(@, draft[w])]
      /\ draft' = [draft EXCEPT ![w] = NoReport]
  BY DEF Send, oceanVars
<1>2. /\ up'[w] = Append(up[w], draft[w]) /\ draft'[w] = NoReport /\ unread'[w] = {}
      /\ \A v \in Workers \ {w} : draft'[v] = draft[v] /\ unread'[v] = unread[v]
                                  /\ up'[v] = up[v]
      /\ PipeFunctions'
  BY <1>1 DEF MeasureInv, TypeOK, PipeFunctions, oceanVars
<1>3. Piped(run, down[w], current[w], draft[w], cached[w], up[w], {}, GoroutinesOf(w), stat)
  BY <1>1, PipeOf
<1>4. Piped(run, down[w], current[w], NoReport, cached[w], Append(up[w], draft[w]), {},
            GoroutinesOf(w), stat)
  BY <1>1, <1>3, PipedSent
<1> QED BY <1>1, <1>2, <1>4, ReportingKeeps

\* Every step.
LEMMA MeasureStep == MeasureInv /\ [Next]_vars => MeasureInv'
<1> SUFFICES ASSUME MeasureInv, [Next]_vars PROVE MeasureInv'
  OBVIOUS
<1>0. run \in Nat /\ exists \in BOOLEAN
  BY DEF MeasureInv, TypeOK
<1>1. CASE Start
  <2>1. Command(run + 1) /\ run' = run + 1 /\ exists' \in BOOLEAN
        /\ cached' \in {cached, [w \in Workers |-> NoReport]}
        /\ UNCHANGED <<current, recordVars, reportVars, up>>
    BY <1>1 DEF Start
  <2> QED BY <1>0, <2>1, CommandsKeep
<1>2. CASE Stop
  <2>1. Command(0) /\ run' = run /\ exists' \in BOOLEAN
        /\ cached' \in {cached, [w \in Workers |-> NoReport]}
        /\ UNCHANGED <<current, recordVars, reportVars, up>>
    BY <1>2 DEF Stop
  <2> QED BY <1>0, <2>1, CommandsKeep
<1>3. CASE Pause
  <2>1. Command(0) /\ run' = run /\ exists' \in BOOLEAN
        /\ cached' \in {cached, [w \in Workers |-> NoReport]}
        /\ UNCHANGED <<current, recordVars, reportVars, up>>
    BY <1>3 DEF Pause
  <2> QED BY <1>0, <2>1, CommandsKeep
<1>4. CASE Resume
  <2>1. Command(run + 1) /\ run' = run + 1 /\ exists' \in BOOLEAN
        /\ cached' \in {cached, [w \in Workers |-> NoReport]}
        /\ UNCHANGED <<current, recordVars, reportVars, up>>
    BY <1>4 DEF Resume
  <2> QED BY <1>0, <2>1, CommandsKeep
<1>5. ASSUME NEW w \in Workers, OnReport(w) PROVE MeasureInv'
  BY <1>5, OnReportKeeps
<1>6. ASSUME NEW w \in Workers, HandleCommand(w) PROVE MeasureInv'
  BY <1>6, HandleCommandKeeps
<1>7. ASSUME NEW w \in Workers, Tick(w) PROVE MeasureInv'
  BY <1>7, TickKeeps
<1>8. ASSUME NEW w \in Workers, Load(w) PROVE MeasureInv'
  BY <1>8, LoadKeeps
<1>9. ASSUME NEW w \in Workers, Send(w) PROVE MeasureInv'
  BY <1>9, SendKeeps
<1>10. ASSUME NEW g \in Goroutines, Done(g) PROVE MeasureInv'
  BY <1>10, DoneKeeps
<1>11. ASSUME NEW g \in Goroutines, Record(g) PROVE MeasureInv'
  BY <1>11, RecordKeeps
<1>12. CASE UNCHANGED vars
  <2>1. /\ UNCHANGED <<oceanVars, down, current, reportVars, up>>
        /\ UNCHANGED <<exists, run, stat, todo, latency>>
    BY <1>12 DEF vars, oceanVars, recordVars
  <2>2. RestTyped' /\ RecordsInOrder'
    BY <2>1 DEF RestTyped, RecordsInOrder, MeasureInv, TypeOK
  <2>3. Grows(Goroutines, stat, stat')
    <3>1. Goroutines \in SUBSET Goroutines /\ stat \in [Goroutines -> Metric]
          /\ \A g \in Goroutines : stat'[g] = stat[g]
      BY <2>1 DEF MeasureInv, TypeOK
    <3> QED BY <3>1, StillGrows
  <2> QED BY <2>1, <2>2, <2>3, CountersGrow
<1> QED BY <1>1, <1>2, <1>3, <1>4, <1>5, <1>6, <1>7, <1>8, <1>9, <1>10, <1>11, <1>12 DEF Next

\* And so it holds always.
LEMMA MeasureAlways == Spec => []MeasureInv
<1>1. MeasureInv /\ [Next]_vars => MeasureInv'
  BY MeasureStep
<1> QED BY <1>1, MeasureInit, PTL DEF Spec

\* Types; and while a report is built no command replaces the service it is
\* built of (server.go:148-157).
THEOREM MeasurementsTypeCorrect == Spec => []TypeOK
<1>1. MeasureInv => TypeOK
  BY DEF MeasureInv
<1> QED BY <1>1, MeasureAlways, PTL

\* What the ocean shows of a worker never goes back, within a run or from one
\* run to another, however reports, commands and recording interleave
\* (client.go:123-129): reports overtake neither each other nor the
\* goroutines they are about.
THEOREM NumbersGoForward == Spec => NumbersNeverFallBack
<1>1. ASSUME MeasureInv, [Next]_vars
      PROVE  [\A w \in Workers : cached'[w] # NoReport => NotBefore(cached'[w], cached[w])]_vars
  <2>1. ASSUME NEW w \in Workers
        PROVE  cached[w] \in ReportType /\ NotBefore(cached[w], cached[w])
    BY <1>1, <2>1, PipeOf, NotBeforeItself
  <2>2. CASE Start \/ Stop \/ Pause \/ Resume
    BY <2>1, <2>2 DEF Start, Stop, Pause, Resume
  <2>3. ASSUME NEW w \in Workers, OnReport(w)
        PROVE  \A v \in Workers : NotBefore(cached'[v], cached[v])
    <3>1. /\ up[w] # <<>> /\ cached' = [cached EXCEPT ![w] = Head(up[w])]
          /\ cached \in [Workers -> ReportType] /\ up[w] \in Seq(ReportType)
      BY <1>1, <2>3 DEF OnReport, MeasureInv, TypeOK
    <3>2. cached'[w] = up[w][1] /\ 1 \in 1..Len(up[w])
      BY <3>1
    <3>3. NotBefore(up[w][1], cached[w])
      <4>1. ReportsFollow(current[w], draft[w], cached[w], up[w], unread[w], GoroutinesOf(w), stat)
        BY <1>1, PipeOf DEF Piped
      <4> QED BY <3>2, <4>1 DEF ReportsFollow
    <3>4. \A v \in Workers \ {w} : cached'[v] = cached[v]
      BY <3>1
    <3> QED BY <2>1, <3>2, <3>3, <3>4
  <2>4. CASE cached' = cached
    BY <2>1, <2>4
  <2>5. CASE \E w \in Workers : HandleCommand(w) \/ Tick(w) \/ Load(w) \/ Send(w)
    BY <2>4, <2>5 DEF HandleCommand, Tick, Load, Send, oceanVars
  <2>6. CASE \E g \in Goroutines : Done(g) \/ Record(g)
    BY <2>4, <2>6 DEF Done, Record, oceanVars
  <2>7. CASE UNCHANGED vars
    BY <2>7
  <2> QED BY <1>1, <2>2, <2>3, <2>5, <2>6, <2>7 DEF Next
<1> QED BY <1>1, MeasureAlways, PTL DEF Spec, NumbersNeverFallBack

-----------------------------------------------------------------------------
(* What the ocean shows of all workers together.                           *)

\* The values other than 0 are a finite set of numbers.
LEMMA SomeValues ==
    ASSUME NEW f \in [Workers -> Nat]
    PROVE  /\ Range(f) \ {0} \in SUBSET Nat /\ IsFiniteSet(Range(f) \ {0})
           /\ \A w \in Workers : f[w] # 0 => f[w] \in Range(f) \ {0}
           /\ \A x \in Range(f) \ {0} : x > 0 /\ \E w \in Workers : x = f[w]
<1>1. Range(f) = {f[w] : w \in Workers} /\ f \in [Workers -> Range(f)]
  BY DEF Range
<1>2. f \in Surjection(Workers, Range(f))
  BY <1>1 DEF Surjection
<1>3. IsFiniteSet(Range(f))
  BY <1>2, FS_Surjection, MeasurementsAssumption
<1>4. IsFiniteSet(Range(f) \ {0})
  BY <1>3, FS_Subset
<1> QED BY <1>1, <1>4

\* The merged maximum is that of some worker, and the merged minimum, unless
\* no worker has one, is the smallest of those there are.
LEMMA MergedExtremes ==
    ASSUME NEW f \in [Workers -> Nat]
    PROVE  /\ Merge("max", f) > 0 => \E w \in Workers : f[w] = Merge("max", f)
           /\ \A w \in Workers : f[w] > 0 => /\ Merge("min", f) \in Nat \ {0}
                                             /\ Merge("min", f) <= f[w]
<1> DEFINE some == Range(f) \ {0}
<1>1. some # {} => Merge("max", f) = Max(some) /\ Merge("min", f) = Min(some)
  BY DEF Merge
<1>2. some = {} => Merge("max", f) = 0
  BY DEF Merge
<1>3. /\ some \in SUBSET Nat /\ IsFiniteSet(some)
      /\ \A w \in Workers : f[w] # 0 => f[w] \in some
      /\ \A x \in some : x > 0 /\ \E w \in Workers : x = f[w]
  BY SomeValues
<1> HIDE DEF some
<1>4. ASSUME Merge("max", f) > 0 PROVE \E w \in Workers : f[w] = Merge("max", f)
  <2>1. some # {}
    BY <1>2, <1>4
  <2>2. Max(some) \in some
    BY <1>3, <2>1, GreatestExists
  <2> QED BY <1>1, <1>3, <2>1, <2>2
<1>5. ASSUME NEW w \in Workers, f[w] > 0
      PROVE  Merge("min", f) \in Nat \ {0} /\ Merge("min", f) <= f[w]
  <2>1. f[w] \in some
    BY <1>3, <1>5
  <2>2. Min(some) \in some /\ \A y \in some : Min(some) <= y
    BY <1>3, <2>1, LeastExists
  <2>3. Min(some) \in Nat \ {0} /\ Min(some) <= f[w]
    <3> DEFINE least == Min(some)
    <3>1. least \in some /\ least <= f[w]
      BY <2>1, <2>2
    <3>2. some \subseteq Nat \ {0}
      BY <1>3
    <3> HIDE DEF least
    <3>3. least \in Nat \ {0}
      BY <3>1, <3>2
    <3> QED BY <3>1, <3>3 DEF least
  <2>4. Merge("min", f) = Min(some)
    BY <1>1, <2>1
  <2> QED BY <2>3, <2>4
<1> QED BY <1>4, <1>5

\* The other counters are added up.
LEMMA MergedSum ==
    ASSUME NEW f \in [Workers -> Nat], NEW c \in Counters \ {"max", "min"}
    PROVE  Merge(c, f) = Total(f)
<1>1. CASE Range(f) \ {0} # {}
  BY <1>1 DEF Merge, Total
<1>2. CASE Range(f) \ {0} = {}
  <2>1. \A w \in Workers : f[w] = 0
    BY <1>2, SomeValues
  <2>2. f = [w \in Workers |-> 0]
    BY <2>1
  <2>3. Merge(c, f) = 0
    BY <1>2 DEF Merge
  <2> QED BY <2>2, <2>3, TotalOfZeros, MeasurementsAssumption
<1> QED BY <1>1, <1>2

\* The goroutines of S on each worker.
Spread(S) == [w \in Workers |-> Cardinality({g \in S : Host[g] = w})]

\* Each of them is on one.
LEMMA SpreadAddsUp == Total(Spread(Goroutines)) = Cardinality(Goroutines)
<1> DEFINE C == {S \in SUBSET Goroutines : Total(Spread(S)) # Cardinality(S)}
<1>1. SUFFICES ASSUME C # {} PROVE FALSE
  <2>1. Goroutines \in SUBSET Goroutines
    OBVIOUS
  <2> QED BY <2>1
<1>2. PICK X \in C : \A Y \in C : Y \subseteq X => Y = X
  <2>1. C \in SUBSET (SUBSET Goroutines)
    OBVIOUS
  <2>2. IsFiniteSet(Goroutines)
    BY MeasurementsAssumption
  <2> HIDE DEF C
  <2> QED BY <1>1, <2>1, <2>2, MinimalSubset
<1>3. X \in SUBSET Goroutines /\ Total(Spread(X)) # Cardinality(X)
  OBVIOUS
<1>4. X # {}
  <2>1. Spread({}) = [w \in Workers |-> 0]
    BY FS_EmptySet DEF Spread
  <2>2. Total(Spread({})) = Cardinality({})
    BY <2>1, TotalOfZeros, FS_EmptySet, MeasurementsAssumption
  <2> QED BY <1>3, <2>2
<1>5. PICK x \in X : TRUE
  BY <1>4
<1> DEFINE Y == X \ {x}
           h == Host[x]
<1>6. Total(Spread(Y)) = Cardinality(Y) /\ Y \in SUBSET Goroutines
  BY <1>2, <1>3, <1>5
<1>7. h \in Workers
  BY <1>3, <1>5, MeasurementsAssumption
<1>8. \A T \in SUBSET Goroutines : IsFiniteSet(T) /\ Cardinality(T) \in Nat
  BY FS_Subset, FS_CardinalityType, MeasurementsAssumption
<1>9. Cardinality(X) = Cardinality(Y) + 1
  <2>1. Cardinality(X \ {x}) = Cardinality(X) - 1
    BY <1>3, <1>5, <1>8, FS_RemoveElement
  <2> QED BY <1>3, <1>8, <2>1
<1>10. Spread(X) = [Spread(Y) EXCEPT ![h] = Spread(Y)[h] + 1]
  <2>1. ASSUME NEW w \in Workers
        PROVE  Cardinality({g \in X : Host[g] = w})
                 = IF w = h THEN Cardinality({g \in Y : Host[g] = w}) + 1
                            ELSE Cardinality({g \in Y : Host[g] = w})
    <3> DEFINE A == {g \in X : Host[g] = w}
               B == {g \in Y : Host[g] = w}
    <3>1. CASE w = h
      <4>1. B = A \ {x} /\ x \in A /\ A \in SUBSET Goroutines
        BY <1>3, <1>5, <3>1
      <4> HIDE DEF A, B, Y
      <4>2. Cardinality(A \ {x}) = Cardinality(A) - 1
        BY <1>8, <4>1, FS_RemoveElement
      <4>3. Cardinality(A) = Cardinality(B) + 1
        BY <1>8, <4>1, <4>2
      <4> QED BY <3>1, <4>3 DEF A, B
    <3>2. CASE w # h
      <4>1. B = A
        BY <1>5, <3>2
      <4> QED BY <3>2, <4>1
    <3> QED BY <3>1, <3>2
  <2> HIDE DEF Y, h
  <2> QED BY <1>7, <2>1 DEF Spread
<1> HIDE DEF Y, h
<1>11. Spread(Y) \in [Workers -> Nat]
  <2>1. \A w \in Workers : {g \in Y : Host[g] = w} \in SUBSET Goroutines
    BY <1>6
  <2> QED BY <1>8, <2>1 DEF Spread
<1>12. Total([Spread(Y) EXCEPT ![h] = Spread(Y)[h] + 1])
         = Total(Spread(Y)) - Spread(Y)[h] + (Spread(Y)[h] + 1)
  <2> DEFINE f == Spread(Y)
             v == f[h] + 1
  <2>1. f \in [Workers -> Nat] /\ f[h] \in Nat /\ v \in Nat
    BY <1>7, <1>11
  <2>2. IsFiniteSet(Workers)
    BY MeasurementsAssumption
  <2> HIDE DEF f, v, C
  <2>3. Total([f EXCEPT ![h] = v]) = Total(f) - f[h] + v
    BY <1>7, <2>1, <2>2, TotalUpdate
  <2> QED BY <2>3 DEF f, v
<1>13. Total(Spread(Y)) \in Nat /\ Spread(Y)[h] \in Nat
  BY <1>6, <1>7, <1>8, <1>11
<1> QED BY <1>3, <1>6, <1>9, <1>10, <1>12, <1>13

\* What the invariant says of the latest report of every worker.
LEMMA CachedFits ==
    ASSUME MeasureInv, NEW w \in Workers
    PROVE  LET m == cached[w].metric
           IN  /\ m \in Metric
               /\ m["max"] > 0 => m["min"] \in 1..m["max"]
               /\ m["res"] <= m["hist"] + Cardinality(GoroutinesOf(w))
<1>1. Fits(cached[w].metric, {}, GoroutinesOf(w), stat)
  BY PipeOf DEF Piped, ReportsFit
<1>2. cached[w].metric \in Metric /\ GoroutinesOf(w) \in SUBSET Goroutines
      /\ stat \in [Goroutines -> Metric]
  BY PipeOf DEF ReportType
<1> QED BY <1>1, <1>2, FitsComplete

\* The counters of the cached reports, one function for each.
LEMMA CachedCounter ==
    ASSUME MeasureInv, NEW c \in Counters
    PROVE  [w \in Workers |-> cached[w].metric[c]] \in [Workers -> Nat]
BY CachedFits DEF Metric

\* The minimum and the maximum a client is shown fit together: neither the
\* goroutines' counters nor the report is updated in one go, but a maximum is
\* written after and read before the minimum that goes with it
\* (worker.go:107-114, server.go:248-253), and GetMetrics merges reports that
\* each fit (services.go:766-794).
THEOREM ExtremesDoAgree == Spec => []ExtremesAgree
<1>1. ASSUME MeasureInv PROVE ExtremesAgree
  <2> DEFINE mx == [w \in Workers |-> cached[w].metric["max"]]
             mn == [w \in Workers |-> cached[w].metric["min"]]
  <2>1. mx \in [Workers -> Nat] /\ mn \in [Workers -> Nat]
    BY <1>1, CachedCounter DEF Counters
  <2>2. Merged["max"] = Merge("max", mx) /\ Merged["min"] = Merge("min", mn)
    BY DEF Merged, Counters
  <2>3. \A w \in Workers : mx[w] > 0 => mn[w] \in 1..mx[w]
    BY <1>1, CachedFits
  <2> HIDE DEF mx, mn
  <2>4. ASSUME Merge("max", mx) > 0
        PROVE  0 < Merge("min", mn) /\ Merge("min", mn) <= Merge("max", mx)
    <3>1. PICK w \in Workers : mx[w] = Merge("max", mx)
      BY <2>1, <2>4, MergedExtremes
    <3>2. mn[w] \in 1..mx[w] /\ mx[w] \in Nat /\ mn[w] \in Nat
      BY <2>1, <2>3, <2>4, <3>1
    <3>3. Merge("min", mn) \in Nat \ {0} /\ Merge("min", mn) <= mn[w]
      BY <2>1, <3>2, MergedExtremes
    <3> QED BY <3>1, <3>2, <3>3
  <2> QED BY <2>2, <2>4 DEF ExtremesAgree
<1> QED BY <1>1, MeasureAlways, PTL

\* The histogram a client is shown lacks at most one response of every
\* goroutine there is: the one it was recording when it was read
\* (worker.go:104-125, server.go:239-247).
THEOREM HistogramDoesKeepUp == Spec => []HistogramKeepsUp
<1>1. ASSUME MeasureInv PROVE HistogramKeepsUp
  <2> DEFINE res    == [w \in Workers |-> cached[w].metric["res"]]
             hist   == [w \in Workers |-> cached[w].metric["hist"]]
             spread == Spread(Goroutines)
             bound  == [w \in Workers |-> hist[w] + spread[w]]
  <2>1. res \in [Workers -> Nat] /\ hist \in [Workers -> Nat]
    BY <1>1, CachedCounter DEF Counters
  <2>2. Merged["res"] = Merge("res", res) /\ Merged["hist"] = Merge("hist", hist)
    BY DEF Merged, Counters
  <2>3. spread \in [Workers -> Nat] /\ \A w \in Workers : spread[w] = Cardinality(GoroutinesOf(w))
    <3>1. \A w \in Workers : Cardinality({g \in Goroutines : Host[g] = w}) \in Nat
      BY FS_Subset, FS_CardinalityType, MeasurementsAssumption
    <3> QED BY <3>1 DEF Spread, GoroutinesOf
  <2>4. \A w \in Workers : res[w] <= hist[w] + spread[w]
    BY <1>1, <2>3, CachedFits
  <2>5. Total(spread) = Cardinality(Goroutines)
    BY SpreadAddsUp
  <2> HIDE DEF res, hist, spread
  <2>6. bound \in [Workers -> Nat] /\ \A w \in Workers : res[w] <= bound[w]
    BY <2>1, <2>3, <2>4
  <2>7. Total(bound) = Total(hist) + Total(spread)
    BY <2>1, <2>3, TotalOfSums, MeasurementsAssumption
  <2> HIDE DEF bound
  <2>8. Total(res) <= Total(bound)
    BY <2>1, <2>6, TotalMonotone, MeasurementsAssumption
  <2>9. Merge("res", res) = Total(res) /\ Merge("hist", hist) = Total(hist)
    BY <2>1, MergedSum DEF Counters
  <2>10. Total(hist) \in Nat /\ Total(spread) \in Nat /\ Total(res) \in Nat
    BY <2>1, <2>3, TotalType, MeasurementsAssumption
  <2> QED BY <2>2, <2>5, <2>7, <2>8, <2>9, <2>10 DEF HistogramKeepsUp
<1> QED BY <1>1, MeasureAlways, PTL
=============================================================================

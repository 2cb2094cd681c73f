---------------------------- MODULE Measurements ----------------------------
(***************************************************************************)
(* The numbers of a test on their way to the client.  Every request        *)
(* goroutine keeps counters of its own (worker.go, Stat) and updates them  *)
(* one by one; the reporter adds them up, one load at a time, while they   *)
(* are being updated (server.go, serviceMetric); the ocean caches the      *)
(* latest report of every worker (client.go, onReport) and merges them     *)
(* when a client asks (services.go, GetMetrics).                           *)
(*                                                                         *)
(* One test is started, paused, resumed and stopped on a fixed set of      *)
(* workers; every such period of load is a run, and starts from zero.      *)
(* Run numbers are not in the code: they say which run a number is from.   *)
(* Of the histogram only the sum of its buckets is kept, and errors, the   *)
(* mean, rates and elapsed times are left out: no property is about them.  *)
(***************************************************************************)
EXTENDS Integers, Sequences, FiniteSets, FiniteSetsExt, Functions

CONSTANTS
    Workers,
    Goroutines,   \* request goroutines, by number
    Host,         \* Host[g]: the worker goroutine g is on
    Latencies,    \* the latencies of successful requests
    MaxRequests,  \* bound: MaxRequests[i][g] requests of g in run i
    MaxRuns,      \* bound: runs
    NetCap        \* bound: commands in flight, and reports, the one being built included

ASSUME MeasurementsAssumption ==
    /\ IsFiniteSet(Workers)
    /\ Goroutines \subseteq Nat /\ IsFiniteSet(Goroutines)
    /\ Host \in [Goroutines -> Workers]
    /\ Latencies \subseteq Nat \ {0}
    /\ MaxRuns \in Nat /\ MaxRequests \in [1..MaxRuns -> [Goroutines -> Nat]]
    /\ NetCap \in Nat \ {0}

VARIABLES
    exists,   \* whether the ocean has the test, paused or not
    run,      \* the number of the latest run
    down,     \* down[w]: commands to w; the number of a run to start, or 0 for STOP
    current,  \* current[w]: the run of the service on w, or 0
    stat,     \* stat[g]: the counters of g
    todo,     \* todo[g]: the updates that record still has to make
    latency,  \* latency[g]: that of the response being recorded, or 0
    unread,   \* unread[w]: the loads the reporter still has to make
    draft,    \* draft[w]: the report it is building, or has built and not sent
    up,       \* up[w]: reports to the ocean
    cached    \* cached[w]: the latest report of w, or NoReport

oceanVars  == <<exists, run, cached>>
recordVars == <<stat, todo, latency>>
reportVars == <<unread, draft>>
vars == <<oceanVars, down, current, recordVars, reportVars, up>>

-----------------------------------------------------------------------------

\* BUG VARIANT of LoadOrder: the histogram before the count, the minimum before the maximum.
LoadOrder_Backwards == [hist |-> 1, req |-> 2, res |-> 3, min |-> 4, max |-> 5]

\* When serviceMetric loads each of the counters of one goroutine.
LoadOrder == [req |-> 1, res |-> 2, hist |-> 3, max |-> 4, min |-> 5]

Counters == {"req", "res", "hist", "max", "min"}
Zero     == [c \in Counters |-> 0]

Greater(a, b) == IF a > b THEN a ELSE b

\* The smaller of two minima, where 0 stands for none.
Smaller(a, b) == IF b > 0 /\ (a = 0 \/ b < a) THEN b ELSE a

\* m with another value of counter c added in, by serviceMetric and GetMetrics alike.
AddIn(m, c, value) ==
    [m EXCEPT ![c] = CASE c = "max" -> Greater(@, value)
                       [] c = "min" -> Smaller(@, value)
                       [] OTHER     -> @ + value]

\* BUG VARIANT of Updates: the maximum before the minimum.
Updates_MaxFirst == <<"res", "max", "min", "hist">>

\* What record updates for a successful request after counting it, in order.
Updates == <<"res", "min", "max", "hist">>

\* Counter c of s after one update of a request that took l.
Updated(s, c, l) == AddIn(s, c, IF c \in {"min", "max"} THEN l ELSE 1)

GoroutinesOf(w) == {g \in Goroutines : Host[g] = w}

\* All the loads of one serviceMetric, and their order: the goroutines in turn.
Loads(w) == GoroutinesOf(w) \X Counters

Sooner(p, q) ==
    \/ p[1] < q[1]
    \/ p[1] = q[1] /\ LoadOrder[p[2]] < LoadOrder[q[2]]

NoReport == [run |-> 0, metric |-> Zero]

-----------------------------------------------------------------------------
(* The ocean.                                                              *)

Command(c) ==
    /\ \A w \in Workers : Len(down[w]) < NetCap
    /\ down' = [w \in Workers |-> Append(down[w], c)]

\* Start and Stop, Pause and Resume: what they do to one test's numbers.
Start ==
    /\ ~exists
    /\ run < MaxRuns
    /\ exists' = TRUE
    /\ run' = run + 1
    /\ cached' = [w \in Workers |-> NoReport]
    /\ Command(run + 1)
    /\ UNCHANGED <<current, recordVars, reportVars, up>>

Stop ==
    /\ exists
    /\ exists' = FALSE
    /\ cached' = [w \in Workers |-> NoReport]
    /\ Command(0)
    /\ UNCHANGED <<run, current, recordVars, reportVars, up>>

\* Neither Pause nor Resume asks whether the test is paused.
Pause ==
    /\ exists
    /\ cached' = [w \in Workers |-> NoReport]
    /\ Command(0)
    /\ UNCHANGED <<exists, run, current, recordVars, reportVars, up>>

Resume ==
    /\ exists
    /\ run < MaxRuns
    /\ run' = run + 1
    /\ Command(run + 1)
    /\ UNCHANGED <<exists, cached, current, recordVars, reportVars, up>>

\* onReport caches whatever comes, also for a test that has been stopped.
OnReport(w) ==
    /\ up[w] # <<>>
    /\ cached' = [cached EXCEPT ![w] = Head(up[w])]
    /\ up' = [up EXCEPT ![w] = Tail(@)]
    /\ UNCHANGED <<exists, run, down, current, recordVars, reportVars>>

\* Counter c of several metrics in one: the sum, but for the extremes.
Merge(c, values) ==
    LET some == Range(values) \ {0}   \* a minimum of 0 is none
    IN  IF some = {} THEN 0
        ELSE CASE c = "max" -> Max(some)
               [] c = "min" -> Min(some)
               [] OTHER     -> SumFunction(values)

\* What GetMetrics shows of the test: the reports of its workers, merged
\* counter by counter.
Merged == [c \in Counters |-> Merge(c, [w \in Workers |-> cached[w].metric[c]])]

-----------------------------------------------------------------------------
(* The worker.                                                             *)

\* BUG VARIANT of HandleCommand: c.mu is not taken.
HandleCommand_Unlocked(w) ==
    /\ down[w] # <<>>
    /\ current' = [current EXCEPT ![w] = Head(down[w])]
    /\ down' = [down EXCEPT ![w] = Tail(@)]
    /\ stat' = [g \in Goroutines |-> IF Host[g] = w THEN Zero ELSE stat[g]]
    /\ todo' = [g \in Goroutines |-> IF Host[g] = w THEN <<>> ELSE todo[g]]
    /\ latency' = [g \in Goroutines |-> IF Host[g] = w THEN 0 ELSE latency[g]]
    /\ UNCHANGED <<oceanVars, reportVars, up>>

\* A command replaces or removes the service, which c.mu keeps from happening
\* while a report is being built.  The goroutines of the old service may go
\* on with counters that nobody reads any more.
HandleCommand(w) ==
    /\ down[w] # <<>>
    /\ unread[w] = {}
    /\ current' = [current EXCEPT ![w] = Head(down[w])]
    /\ down' = [down EXCEPT ![w] = Tail(@)]
    /\ stat' = [g \in Goroutines |-> IF Host[g] = w THEN Zero ELSE stat[g]]
    /\ todo' = [g \in Goroutines |-> IF Host[g] = w THEN <<>> ELSE todo[g]]
    /\ latency' = [g \in Goroutines |-> IF Host[g] = w THEN 0 ELSE latency[g]]
    /\ UNCHANGED <<oceanVars, reportVars, up>>

\* A request of goroutine g ends, and record counts it.  There is more to
\* record if it succeeded.
Done(g) ==
    /\ current[Host[g]] > 0
    /\ todo[g] = <<>>
    /\ stat[g]["req"] < MaxRequests[current[Host[g]]][g]
    /\ stat' = [stat EXCEPT ![g] = Updated(@, "req", 0)]
    /\ \/ UNCHANGED <<todo, latency>>
       \/ \E l \in Latencies :
            /\ todo' = [todo EXCEPT ![g] = Updates]
            /\ latency' = [latency EXCEPT ![g] = l]
    /\ UNCHANGED <<oceanVars, down, current, reportVars, up>>

\* One more atomic update of record.
Record(g) ==
    /\ todo[g] # <<>>
    /\ stat' = [stat EXCEPT ![g] = Updated(@, Head(todo[g]), latency[g])]
    /\ todo' = [todo EXCEPT ![g] = Tail(@)]
    /\ latency' = [latency EXCEPT ![g] = IF Len(todo[g]) = 1 THEN 0 ELSE @]
    /\ UNCHANGED <<oceanVars, down, current, reportVars, up>>

\* The report ticker fires.
Tick(w) ==
    /\ current[w] > 0
    /\ unread[w] = {}
    /\ draft[w] = NoReport
    /\ Len(up[w]) < NetCap
    /\ unread' = [unread EXCEPT ![w] = Loads(w)]
    /\ draft' = [draft EXCEPT ![w] = [run |-> current[w], metric |-> Zero]]
    /\ UNCHANGED <<oceanVars, down, current, recordVars, up>>

\* One atomic load of serviceMetric.
Load(w) ==
    /\ \E p \in unread[w] :
        /\ \A q \in unread[w] \ {p} : Sooner(p, q)
        /\ draft' = [draft EXCEPT ![w].metric = AddIn(@, p[2], stat[p[1]][p[2]])]
        /\ unread' = [unread EXCEPT ![w] = @ \ {p}]
    /\ UNCHANGED <<oceanVars, down, current, recordVars, up>>

\* The report goes out, after c.mu has been released.
Send(w) ==
    /\ unread[w] = {}
    /\ draft[w] # NoReport
    /\ Len(up[w]) < NetCap
    /\ up' = [up EXCEPT ![w] = Append(@, draft[w])]
    /\ draft' = [draft EXCEPT ![w] = NoReport]
    /\ UNCHANGED <<oceanVars, down, current, recordVars, unread>>

-----------------------------------------------------------------------------

Init ==
    /\ exists = FALSE /\ run = 0
    /\ down = [w \in Workers |-> <<>>]
    /\ current = [w \in Workers |-> 0]
    /\ stat = [g \in Goroutines |-> Zero]
    /\ todo = [g \in Goroutines |-> <<>>]
    /\ latency = [g \in Goroutines |-> 0]
    /\ unread = [w \in Workers |-> {}]
    /\ draft = [w \in Workers |-> NoReport]
    /\ up = [w \in Workers |-> <<>>]
    /\ cached = [w \in Workers |-> NoReport]

Next ==
    \/ Start \/ Stop \/ Pause \/ Resume
    \/ \E w \in Workers : OnReport(w) \/ HandleCommand(w) \/ Tick(w) \/ Load(w) \/ Send(w)
    \/ \E g \in Goroutines : Done(g) \/ Record(g)

Spec == Init /\ [][Next]_vars

-----------------------------------------------------------------------------
(* Properties.                                                             *)

Metric == [Counters -> Nat]
ReportType == [run : Nat, metric : Metric]

\* Types; and a report is built of one run of one service (server.go:148-157).
TypeOK ==
    /\ exists \in BOOLEAN
    /\ run \in Nat
    /\ down \in [Workers -> Seq(Nat)]
    /\ current \in [Workers -> Nat]
    /\ stat \in [Goroutines -> Metric]
    /\ todo \in [Goroutines -> Seq(Counters)]
    /\ latency \in [Goroutines -> Nat]
    /\ unread \in [Workers -> SUBSET (Goroutines \X Counters)]
    /\ draft \in [Workers -> ReportType]
    /\ up \in [Workers -> Seq(ReportType)]
    /\ cached \in [Workers -> ReportType]
    /\ \A w \in Workers : unread[w] # {} => draft[w].run = current[w]

\* Shown minimum and maximum fit together although neither is read or written
\* in one go: a maximum is written after, and read before, a minimum
\* (worker.go:107-114, server.go:248-253).
ExtremesAgree == Merged["max"] > 0 => 0 < Merged["min"] /\ Merged["min"] <= Merged["max"]

\* The histogram lacks at most the one response per goroutine that is being
\* recorded (worker.go:104-125, server.go:239-247): percentiles computed from it
\* never rest on far fewer responses than are counted.
HistogramKeepsUp == Merged["hist"] + Cardinality(Goroutines) >= Merged["res"]

\* What is cached of a worker never falls back: not to an earlier state of the
\* same run, and not from a run to an earlier one (client.go:123-129).
NotBefore(r, q) ==
    \/ q.run < r.run
    \/ /\ q.run = r.run
       /\ \A c \in Counters \ {"min"} : q.metric[c] <= r.metric[c]
       /\ q.metric["min"] > 0 => r.metric["min"] \in 1..q.metric["min"]
NumbersNeverFallBack ==
    [][\A w \in Workers : cached'[w] # NoReport => NotBefore(cached'[w], cached[w])]_vars
=============================================================================

------------------------------- MODULE Engine -------------------------------
(***************************************************************************)
(* One load test inside a worker (worker/tsunami.go, worker/worker.go,     *)
(* worker/sample.go): two generator goroutines push empty jobs into a      *)
(* buffered channel, and one goroutine per unit of concurrency takes a job *)
(* and sends a request.  All of them stop by looking at one shared flag,   *)
(* done, between channel operations.  The worker's reporter looks at what  *)
(* they have counted and, if the test is verbose, at the latest request.   *)
(*                                                                         *)
(* done is a plain bool, read and written without synchronisation.  Every  *)
(* access sits next to a channel operation, which the compiler does not    *)
(* move it across, so a read is modelled as seeing the latest write.       *)
(*                                                                         *)
(* Of the counters only whether they are still zero is kept (Measurements  *)
(* has the rest); of the sample, only whether there is one.                *)
(***************************************************************************)
EXTENDS Integers

CONSTANTS
    Threads,    \* the test's request goroutines (Concurrence of them)
    QueueCap,   \* capacity of the jobs channel (100000 in the code)
    Verbose,    \* whether the test records its latest request
    StopEarly   \* TRUE if Stop may come before the generators have begun to run

ASSUME EngineAssumption ==
    /\ QueueCap \in Nat \ {0}
    /\ Verbose \in BOOLEAN
    /\ StopEarly \in BOOLEAN

LateBound == 2   \* bound: counting further would not tell more

Gens == {1, 2}   \* startService launches GenLoad twice

VARIABLES
    done,     \* the shared flag
    queue,    \* the jobs in the channel: they are empty, so only their number counts
    gen,      \* where each generator is
    thread,   \* where each request goroutine is
    stopped,  \* whether Stop has been called
    late,     \* late[t]: the requests t has begun since Stop (history, up to LateBound)
    counted,  \* whether some request has been recorded: request_count > 0
    sample,   \* whether the recorder holds a request
    report    \* the reporter: where it is, and which of the two it has seen

load == <<done, queue, gen, thread, stopped, late>>
vars == <<load, counted, sample, report>>

-----------------------------------------------------------------------------

\* startService: Init, Run (done = false; go every Worker.Run) and two times
\* go GenLoad.  None of the goroutines has run yet.
Init ==
    /\ done = FALSE
    /\ queue = 0
    /\ gen = [g \in Gens |-> "begin"]
    /\ thread = [t \in Threads |-> "prepare"]
    /\ stopped = FALSE
    /\ late = [t \in Threads |-> 0]
    /\ counted = FALSE
    /\ sample = FALSE
    /\ report = [at |-> "rest", seen |-> {}]

\* GenLoad's first statement.
GenBegin(g) ==
    /\ gen[g] = "begin"
    /\ done' = FALSE
    /\ gen' = [gen EXCEPT ![g] = "check"]
    /\ UNCHANGED <<queue, thread, stopped, late, counted, sample, report>>

\* BUG VARIANT of GenCheck: the flag is reset in every round of the loop.
GenCheck_Rearms(g) ==
    /\ gen[g] = "check"
    /\ done' = FALSE
    /\ gen' = [gen EXCEPT ![g] = IF done THEN "exit" ELSE "push"]
    /\ UNCHANGED <<queue, thread, stopped, late, counted, sample, report>>

\* BUG VARIANT of GenCheck: a generator that finds the channel full gives up.
GenCheck_GivesUp(g) ==
    /\ gen[g] = "check"
    /\ gen' = [gen EXCEPT ![g] = IF done \/ queue = QueueCap THEN "exit" ELSE "push"]
    /\ UNCHANGED <<done, queue, thread, stopped, late, counted, sample, report>>

GenCheck(g) ==
    /\ gen[g] = "check"
    /\ gen' = [gen EXCEPT ![g] = IF done THEN "exit" ELSE "push"]
    /\ UNCHANGED <<done, queue, thread, stopped, late, counted, sample, report>>

\* Blocks while the channel is full.
GenPush(g) ==
    /\ gen[g] = "push"
    /\ queue < QueueCap
    /\ queue' = queue + 1
    /\ gen' = [gen EXCEPT ![g] = "check"]
    /\ UNCHANGED <<done, thread, stopped, late, counted, sample, report>>

\* Worker.Run: the templates are compiled, ...
Prepare(t) ==
    /\ thread[t] = "prepare"
    /\ thread' = [thread EXCEPT ![t] = "check"]
    /\ UNCHANGED <<done, queue, gen, stopped, late, counted, sample, report>>

\* ... the loop condition is looked at ...
Check(t) ==
    /\ thread[t] = "check"
    /\ thread' = [thread EXCEPT ![t] = IF done THEN "exit" ELSE "take"]
    /\ UNCHANGED <<done, queue, gen, stopped, late, counted, sample, report>>

\* ... a job is taken, for which it waits without looking at done ...
Take(t) ==
    /\ thread[t] = "take"
    /\ queue > 0
    /\ queue' = queue - 1
    /\ thread' = [thread EXCEPT ![t] = "do"]
    /\ late' = [late EXCEPT ![t] = IF stopped /\ @ < LateBound THEN @ + 1 ELSE @]
    /\ UNCHANGED <<done, gen, stopped, counted, sample, report>>

\* BUG VARIANT of Do: only successful requests are captured.
Do_Successes(t) ==
    /\ thread[t] = "do"
    /\ \E ok \in BOOLEAN :
        thread' = [thread EXCEPT ![t] = IF Verbose /\ ok THEN "capture" ELSE "record"]
    /\ UNCHANGED <<done, queue, gen, stopped, late, counted, sample, report>>

\* ... and one request is sent, which ends by an answer, an error or a timeout.
Do(t) ==
    /\ thread[t] = "do"
    /\ thread' = [thread EXCEPT ![t] = IF Verbose THEN "capture" ELSE "record"]
    /\ UNCHANGED <<done, queue, gen, stopped, late, counted, sample, report>>

\* sampleRec.capture, under the recorder's mutex: the last writer wins.
Capture(t) ==
    /\ thread[t] = "capture"
    /\ sample' = TRUE
    /\ thread' = [thread EXCEPT ![t] = "record"]
    /\ UNCHANGED <<done, queue, gen, stopped, late, counted, report>>

\* BUG VARIANT of Record: the loop condition is not looked at again.
Record_Unchecked(t) ==
    /\ thread[t] = "record"
    /\ counted' = TRUE
    /\ thread' = [thread EXCEPT ![t] = "take"]
    /\ UNCHANGED <<done, queue, gen, stopped, late, sample, report>>

Record(t) ==
    /\ thread[t] = "record"
    /\ counted' = TRUE
    /\ thread' = [thread EXCEPT ![t] = "check"]
    /\ UNCHANGED <<done, queue, gen, stopped, late, sample, report>>

\* reportLoop, under the worker's mutex: the counters first, ...
ReadMetric ==
    /\ report.at = "rest"
    /\ ~stopped
    /\ report' = [at |-> "sample", seen |-> IF counted THEN {"count"} ELSE {}]
    /\ UNCHANGED <<load, counted, sample>>

\* ... then sampleRec.get.
ReadSample ==
    /\ report.at = "sample"
    /\ report' = [at |-> "rest",
                 seen |-> IF sample THEN report.seen \cup {"sample"} ELSE report.seen]
    /\ UNCHANGED <<load, counted, sample>>

\* stopService, under the same mutex.  The service is forgotten, so Stop comes once.
\* It may come before the generators have begun (StopEarly): Run starts them as
\* goroutines and returns.
Stop ==
    /\ ~stopped
    /\ report.at = "rest"
    /\ StopEarly \/ \A g \in Gens : gen[g] # "begin"
    /\ done' = TRUE
    /\ stopped' = TRUE
    /\ UNCHANGED <<queue, gen, thread, late, counted, sample, report>>

GenStep(g)    == GenBegin(g) \/ GenCheck(g) \/ GenPush(g)
ThreadStep(t) == Prepare(t) \/ Check(t) \/ Take(t) \/ Do(t) \/ Capture(t) \/ Record(t)
Report        == ReadMetric \/ ReadSample

Next == Stop \/ Report \/ (\E g \in Gens : GenStep(g)) \/ (\E t \in Threads : ThreadStep(t))

\* The Go scheduler runs every goroutine that is not blocked, and every
\* request has a deadline (ReadTimeout, WriteTimeout, the dial timeout).
Fairness ==
    /\ \A g \in Gens : WF_vars(GenStep(g))
    /\ \A t \in Threads : WF_vars(ThreadStep(t))
    /\ WF_vars(ReadSample)

Spec == Init /\ [][Next]_vars /\ Fairness

-----------------------------------------------------------------------------

\* Types; the channel never holds more than its capacity.
TypeOK ==
    /\ done \in BOOLEAN
    /\ queue \in 0..QueueCap
    /\ gen \in [Gens -> {"begin", "check", "push", "exit"}]
    /\ thread \in [Threads -> {"prepare", "check", "take", "do", "capture", "record", "exit"}]
    /\ stopped \in BOOLEAN
    /\ late \in [Threads -> 0..LateBound]
    /\ counted \in BOOLEAN
    /\ sample \in BOOLEAN
    /\ report \in [at : {"rest", "sample"}, seen : SUBSET {"count", "sample"}]

\* After Stop, each goroutine begins at most one more request: it may have
\* passed the loop condition, and be waiting for a job, when done was set
\* (worker.go:141-146, tsunami.go:148-150).
AtMostOneLate == \A t \in Threads : late[t] <= 1

\* A report of a verbose test that counts requests always shows one of them:
\* a request is captured before it is counted (worker.go:188-191), also one that
\* failed, and the counters are read before the sample (server.go:151-154).
SampleAccompaniesCount ==
    Verbose /\ report.at = "rest" /\ "count" \in report.seen => "sample" \in report.seen

\* A stopped test's traffic comes to an end for good, although the channel may
\* still be full (server.go:211-219).  Goroutines may be left behind: request
\* goroutines that wait for a job, or generators that wait for room, but never
\* some of each.
StopEndsLoad ==
    stopped ~> [](/\ \A t \in Threads : thread[t] \in {"take", "exit"}
                  /\ (\A t \in Threads : thread[t] = "exit") \/ (\A g \in Gens : gen[g] = "exit"))

\* Generators and request goroutines never all wait for one another while the
\* test runs.
LoadFlows == ~stopped ~> stopped \/ \E t \in Threads : thread[t] = "do"
=============================================================================

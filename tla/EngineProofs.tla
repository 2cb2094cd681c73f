---------------------------- MODULE EngineProofs ----------------------------
(***************************************************************************)
(* What holds of a load test for any number of request goroutines and any  *)
(* capacity of the channel.                                                *)
(*                                                                         *)
(* That a goroutine begins at most one request after Stop needs to know    *)
(* where it is once it has: past the channel, on its way to a loop         *)
(* condition that is false for good.  It is, because no generator is still *)
(* to begin, which is what StopEarly = FALSE says.                         *)
(***************************************************************************)
EXTENDS Engine, TLAPS

\* Once counted, also captured: in the counters and the recorder, in a
\* goroutine about to count, and in what the reporter has read so far.
CapturedFirst ==
    Verbose => /\ counted => sample
               /\ \A t \in Threads : thread[t] = "record" => sample
               /\ report.at = "sample" /\ "count" \in report.seen => sample
               /\ SampleAccompaniesCount

\* After Stop the flag stays set, as nobody is left to reset it.
StaysDone == stopped => done /\ \A g \in Gens : gen[g] # "begin"

\* A goroutine that has begun a request since Stop does not come back to the channel.
LateIsLast ==
    \A t \in Threads :
        /\ late[t] > 0 => stopped /\ thread[t] \notin {"prepare", "take"}
        /\ late[t] <= 1

EngineInv == TypeOK /\ CapturedFirst /\ (~StopEarly => StaysDone /\ LateIsLast)

\* Nothing is counted, captured or late when a test starts.
LEMMA InitEngine == Init => EngineInv
<1> SUFFICES ASSUME Init PROVE EngineInv
  OBVIOUS
<1>1. TypeOK
  <2>1. report \in [at : {"rest", "sample"}, seen : SUBSET {"count", "sample"}]
    BY DEF Init
  <2>2. queue \in 0..QueueCap /\ late \in [Threads -> 0..LateBound]
    BY EngineAssumption DEF Init, LateBound
  <2>3. gen \in [Gens -> {"begin", "check", "push", "exit"}]
    BY DEF Init
  <2>4. thread \in [Threads -> {"prepare", "check", "take", "do", "capture", "record", "exit"}]
    BY DEF Init
  <2> QED
    BY <2>1, <2>2, <2>3, <2>4 DEF Init, TypeOK
<1>2. CapturedFirst
  BY DEF Init, CapturedFirst, SampleAccompaniesCount
<1>3. StaysDone /\ LateIsLast
  BY DEF Init, StaysDone, LateIsLast
<1> QED
  BY <1>1, <1>2, <1>3 DEF EngineInv

\* Every step keeps the types.
LEMMA StepTypes == TypeOK /\ [Next]_vars => TypeOK'
<1> SUFFICES ASSUME TypeOK, [Next]_vars PROVE TypeOK'
  OBVIOUS
<1> USE EngineAssumption DEF TypeOK, LateBound, Gens
<1>1. CASE Stop
  BY <1>1 DEF Stop
<1>2. CASE Report
  <2>1. report' \in [at : {"rest", "sample"}, seen : SUBSET {"count", "sample"}]
    BY <1>2 DEF Report, ReadMetric, ReadSample
  <2>2. UNCHANGED <<load, counted, sample>>
    BY <1>2 DEF Report, ReadMetric, ReadSample
  <2> QED
    BY <2>1, <2>2 DEF load
<1>3. ASSUME NEW g \in Gens, GenStep(g) PROVE TypeOK'
  <2>1. CASE GenPush(g)
    BY <2>1 DEF GenPush
  <2>2. CASE GenBegin(g)
    BY <2>2 DEF GenBegin
  <2>3. CASE GenCheck(g)
    BY <2>3 DEF GenCheck
  <2> QED
    BY <1>3, <2>1, <2>2, <2>3 DEF GenStep
<1>4. ASSUME NEW t \in Threads, ThreadStep(t) PROVE TypeOK'
  <2>1. CASE Take(t)
    BY <2>1 DEF Take
  <2>2. CASE Prepare(t) \/ Check(t) \/ Do(t)
    BY <2>2 DEF Prepare, Check, Do
  <2>3. CASE Capture(t) \/ Record(t)
    BY <2>3 DEF Capture, Record
  <2> QED
    BY <1>4, <2>1, <2>2, <2>3 DEF ThreadStep
<1>5. CASE UNCHANGED vars
  BY <1>5 DEF vars, load
<1> QED
  BY <1>1, <1>2, <1>3, <1>4, <1>5 DEF Next

\* A request is captured before it is counted, and read in the other order.
LEMMA StepCaptured == TypeOK /\ CapturedFirst /\ [Next]_vars => CapturedFirst'
<1> SUFFICES ASSUME TypeOK, CapturedFirst, [Next]_vars, Verbose PROVE CapturedFirst'
  BY DEF CapturedFirst
<1> USE DEF TypeOK, CapturedFirst, SampleAccompaniesCount
<1>1. CASE Stop
  BY <1>1 DEF Stop
<1>2. CASE Report
  BY <1>2 DEF Report, ReadMetric, ReadSample, load
<1>3. ASSUME NEW g \in Gens, GenStep(g) PROVE CapturedFirst'
  BY <1>3 DEF GenStep, GenBegin, GenCheck, GenPush
<1>4. ASSUME NEW t \in Threads, ThreadStep(t) PROVE CapturedFirst'
  <2>1. CASE Prepare(t) \/ Check(t) \/ Take(t) \/ Do(t)
    BY <2>1 DEF Prepare, Check, Take, Do
  <2>2. CASE Capture(t)
    BY <2>2 DEF Capture
  <2>3. CASE Record(t)
    BY <2>3 DEF Record
  <2> QED
    BY <1>4, <2>1, <2>2, <2>3 DEF ThreadStep
<1>5. CASE UNCHANGED vars
  BY <1>5 DEF vars, load
<1> QED
  BY <1>1, <1>2, <1>3, <1>4, <1>5 DEF Next

\* If Stop waits for the generators to begin, they do not undo it, and nobody
\* takes two jobs after it.
LEMMA StepLate ==
    ~StopEarly /\ TypeOK /\ StaysDone /\ LateIsLast /\ [Next]_vars => (StaysDone /\ LateIsLast)'
<1> SUFFICES ASSUME ~StopEarly, TypeOK, StaysDone, LateIsLast, [Next]_vars
             PROVE  (StaysDone /\ LateIsLast)'
  OBVIOUS
<1> USE DEF TypeOK, StaysDone, LateIsLast, LateBound
<1>1. CASE Stop
  BY <1>1 DEF Stop
<1>2. CASE Report
  BY <1>2 DEF Report, ReadMetric, ReadSample, load
<1>3. ASSUME NEW g \in Gens, GenStep(g) PROVE (StaysDone /\ LateIsLast)'
  BY <1>3 DEF GenStep, GenBegin, GenCheck, GenPush
<1>4. ASSUME NEW t \in Threads, ThreadStep(t) PROVE (StaysDone /\ LateIsLast)'
  <2>1. CASE Take(t)
    BY <2>1 DEF Take
  <2>2. CASE Prepare(t) \/ Check(t) \/ Do(t)
    BY <2>2 DEF Prepare, Check, Do
  <2>3. CASE Capture(t) \/ Record(t)
    BY <2>3 DEF Capture, Record
  <2> QED
    BY <1>4, <2>1, <2>2, <2>3 DEF ThreadStep
<1>5. CASE UNCHANGED vars
  BY <1>5 DEF vars, load
<1> QED
  BY <1>1, <1>2, <1>3, <1>4, <1>5 DEF Next

\* The three parts together are inductive.
THEOREM EngineInvariant == Spec => []EngineInv
<1>1. EngineInv /\ [Next]_vars => EngineInv'
  BY StepTypes, StepCaptured, StepLate DEF EngineInv
<1> QED
  BY InitEngine, <1>1, PTL DEF Spec

\* The channel stays within its capacity (worker/tsunami.go:90), and every
\* goroutine is where the code can be.
THEOREM EngineTypes == Spec => []TypeOK
<1>1. EngineInv => TypeOK
  BY DEF EngineInv
<1> QED
  BY EngineInvariant, <1>1, PTL

\* Captured before counted and read after it (worker/worker.go:188-191,
\* worker/server.go:151-154), for any number of goroutines.
THEOREM SamplesAccompanyCounts == Spec => []SampleAccompaniesCount
<1>1. EngineInv => SampleAccompaniesCount
  BY DEF EngineInv, CapturedFirst, SampleAccompaniesCount
<1> QED
  BY EngineInvariant, <1>1, PTL

\* At most one request per goroutine after Stop (worker/worker.go:141-146), if
\* the generators have begun by then.
THEOREM OneLateAtMost == ~StopEarly => (Spec => []AtMostOneLate)
<1> SUFFICES ASSUME ~StopEarly PROVE Spec => []AtMostOneLate
  OBVIOUS
<1>1. EngineInv => AtMostOneLate
  BY DEF EngineInv, LateIsLast, AtMostOneLate
<1> QED
  BY EngineInvariant, <1>1, PTL
=============================================================================

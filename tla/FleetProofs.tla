----------------------------- MODULE FleetProofs ----------------------------
(***************************************************************************)
(* Part one: safety of the ocean in its environment (Ocean's Spec), for    *)
(* any number of workers, streams and tests, any capacities and any buffer *)
(* size: types, registry, assignments, limit; then, for workers with one   *)
(* stream each, the accounting of capacity and the refinement of           *)
(* Reservation.                                                            *)
(*                                                                         *)
(* Part two: the ocean together with its real workers implements the ocean *)
(* in that environment, so what part one shows holds of the whole system;  *)
(* then, for workers with one stream each and clients that resume paused   *)
(* tests only, that load follows the ocean's records.                      *)
(***************************************************************************)
EXTENDS Fleet, AllocationProofs, SequenceTheorems, FiniteSetTheorems

-----------------------------------------------------------------------------
(* Part one: the ocean.                                                    *)

LEMMA EveryoneHasStreams == Streams = {} => Workers = {}
BY StreamAssumption

LEMMA NoStreamIsNone == NoStream \notin Streams
BY StreamAssumption DEF NoStream

\* A stream belongs to one of the workers.
LEMMA OwnerType == \A s \in Streams : Owner(s) \in Workers
BY StreamAssumption DEF Owner

\* Buffering a command at some workers keeps the buffers well-formed.
LEMMA SendToType ==
    ASSUME TypeOK, NEW ws, NEW cmd \in [Workers -> Command], SendTo(ws, cmd)
    PROVE  /\ send' \in [Streams -> Seq(Command)]
           /\ dropped' \subseteq Streams
           /\ open' = open
           /\ senders' = senders
<1> DEFINE target == {s \in Streams : Owner(s) \in ws /\ workers[Owner(s)] = s}
           full   == {s \in target : Len(send[s]) >= SendCap}
<1>1. send' = [s \in Streams |-> IF s \in target \ full
                                 THEN Append(send[s], cmd[Owner(s)])
                                 ELSE send[s]]
  BY DEF SendTo
<1>2. ASSUME NEW s \in Streams PROVE Append(send[s], cmd[Owner(s)]) \in Seq(Command)
  BY OwnerType DEF TypeOK
<1>3. \A s \in Streams : send[s] \in Seq(Command)
  BY DEF TypeOK
<1>4. send' \in [Streams -> Seq(Command)]
  <2> HIDE DEF target, full
  <2> QED BY <1>1, <1>2, <1>3
<1>5. dropped' \subseteq Streams /\ open' = open /\ senders' = senders
  BY DEF SendTo, TypeOK
<1> QED BY <1>4, <1>5

LEMMA CommandsType ==
    ASSUME NEW n \in Jobs, NEW plan \in [Workers -> Nat]
    PROVE  /\ StartCommands(n, plan) \in [Workers -> Command]
           /\ StopCommands(n) \in [Workers -> Command]
BY DEF StartCommands, StopCommands, StartCommand, StopCommand, Command

\* Free capacity is a number, and only attached workers have any.
LEMMA FreeCapacityType ==
    ASSUME TypeOK, NEW u \in [Workers -> Nat]
    PROVE  /\ FreeCapacity(u) \in [Workers -> Nat]
           /\ \A w \in Workers : w \notin Attached => FreeCapacity(u)[w] = 0
BY DEF FreeCapacity, AtLeastZero, TypeOK

LEMMA ReleasedType ==
    ASSUME TypeOK, NEW n \in Jobs
    PROVE  Released(n) \in [Workers -> Nat]
BY DEF Released, AtLeastZero, TypeOK

\* A plan gives numbers, and nothing to a worker that is not attached.
LEMMA PlanType ==
    ASSUME TypeOK, NEW u \in [Workers -> Nat], NEW requested \in Nat
    PROVE  /\ Allocation(FreeCapacity(u), requested) \in [Workers -> Nat]
           /\ Assigned(Allocation(FreeCapacity(u), requested)) \subseteq Attached
<1> DEFINE free == FreeCapacity(u)
           plan == Allocation(free, requested)
<1>1. free \in [Workers -> Nat] /\ \A w \in Workers : w \notin Attached => free[w] = 0
  BY FreeCapacityType
<1> HIDE DEF free
<1>2. plan \in [Workers -> Nat] /\ \A w \in Workers : plan[w] <= free[w]
  BY <1>1, AllocationCapped
<1> HIDE DEF plan
<1>3. Assigned(plan) \subseteq Attached
  BY <1>1, <1>2 DEF Assigned
<1> QED BY <1>2, <1>3 DEF plan, free

-----------------------------------------------------------------------------
(* Type correctness, one action at a time.                                 *)

LEMMA TypeInit == Init => TypeOK
<1> SUFFICES ASSUME Init PROVE TypeOK
  OBVIOUS
<1>1. StreamTypeOK
  BY DEF Init, StreamInit, StreamTypeOK
<1> QED BY <1>1 DEF Init, OceanInit, TypeOK, Nothing

LEMMA TypeStream ==
    ASSUME TypeOK, NEW s \in Streams
    PROVE  /\ TakeUp(s) \/ TakeDown(s) \/ Cut(s) \/ EndRPC(s) => StreamTypeOK'
           /\ \A c \in Nat : Dial(s, c) => StreamTypeOK'
           /\ \A m \in WorkerMessage : PutUp(s, m) => StreamTypeOK'
           /\ \A m \in Command : PutDown(s, m) => StreamTypeOK'
<1> USE DEF TypeOK, StreamTypeOK
<1>1. TakeUp(s) => StreamTypeOK'
  BY DEF TakeUp
<1>2. TakeDown(s) => StreamTypeOK'
  BY DEF TakeDown
<1>3. Cut(s) => StreamTypeOK'
  BY DEF Cut
<1>4. EndRPC(s) => StreamTypeOK'
  BY DEF EndRPC
<1>5. ASSUME NEW c \in Nat, Dial(s, c) PROVE StreamTypeOK'
  <2>1. Register(c) \in WorkerMessage
    BY DEF Register, WorkerMessage
  <2> QED BY <1>5, <2>1 DEF Dial
<1>6. ASSUME NEW m \in WorkerMessage, PutUp(s, m) PROVE StreamTypeOK'
  BY <1>6 DEF PutUp
<1>7. ASSUME NEW m \in Command, PutDown(s, m) PROVE StreamTypeOK'
  BY <1>7 DEF PutDown
<1> QED BY <1>1, <1>2, <1>3, <1>4, <1>5, <1>6, <1>7

LEMMA TypeJoin ==
    ASSUME TypeOK, NEW s \in Streams, Join(s)
    PROVE  TypeOK'
<1>1. StreamTypeOK'
  BY TypeStream DEF Join
<1>2. Head(toOcean[s]).cap \in Nat
  <2>1. Head(toOcean[s]) \in WorkerMessage /\ Head(toOcean[s]).type = "register"
    BY DEF Join, TypeOK, StreamTypeOK
  <2> QED BY <2>1 DEF WorkerMessage
<1> QED BY <1>1, <1>2, OwnerType DEF Join, TypeOK, jobVars

LEMMA TypeRefuse ==
    ASSUME TypeOK, NEW s \in Streams, Refuse(s)
    PROVE  TypeOK'
<1>1. StreamTypeOK'
  BY TypeStream DEF Refuse
<1> QED BY <1>1 DEF Refuse, TypeOK, oceanVars, registryVars, jobVars, handlerVars, senderVars

LEMMA TypeOnReport ==
    ASSUME TypeOK, NEW s \in Streams, OnReport(s)
    PROVE  TypeOK'
<1>1. StreamTypeOK'
  BY TypeStream DEF OnReport
<1>2. Head(toOcean[s]).job \in Jobs
  <2>1. Head(toOcean[s]) \in WorkerMessage /\ Head(toOcean[s]).type = "report"
    BY DEF OnReport, TypeOK, StreamTypeOK
  <2> QED BY <2>1 DEF WorkerMessage
<1> QED BY <1>1, <1>2, OwnerType DEF OnReport, TypeOK, jobVars, senderVars

LEMMA TypeOnSample ==
    ASSUME TypeOK, NEW s \in Streams, OnSample(s)
    PROVE  TypeOK'
BY OwnerType DEF OnSample, TypeOK, StreamTypeOK, jobVars, senderVars, streamVars

LEMMA TypeLeave ==
    ASSUME TypeOK, NEW s \in Streams, Leave(s)
    PROVE  TypeOK'
<1>1. StreamTypeOK'
  BY TypeStream DEF Leave, Unregister, CloseChannel, DetachJobs
<1>2. send' \in [Streams -> Seq(Command)]
  BY DEF Leave, Unregister, CloseChannel, DetachJobs, TypeOK
<1> QED BY <1>1, <1>2, OwnerType DEF Leave, Unregister, CloseChannel, DetachJobs, TypeOK

LEMMA TypeSender ==
    ASSUME TypeOK, NEW s \in Streams, Sender(s)
    PROVE  TypeOK'
<1>1. CASE Deliver(s)
  <2>1. Head(send[s]) \in Command /\ Tail(send[s]) \in Seq(Command)
    BY <1>1 DEF Deliver, TypeOK
  <2>2. StreamTypeOK'
    BY <1>1, <2>1, TypeStream DEF Deliver
  <2> QED BY <1>1, <2>1, <2>2 DEF Deliver, TypeOK, registryVars, jobVars, handlerVars
<1>2. CASE SenderExits(s)
  <2>1. (IF s \in open THEN Tail(send[s]) ELSE <<>>) \in Seq(Command)
    BY <1>2 DEF SenderExits, TypeOK
  <2> QED BY <1>2, <2>1
          DEF SenderExits, TypeOK, StreamTypeOK, registryVars, jobVars, handlerVars, streamVars
<1> QED BY <1>1, <1>2 DEF Sender

LEMMA TypeStart ==
    ASSUME TypeOK, NEW n \in Jobs, NEW c \in Nat, Start(n, c)
    PROVE  TypeOK'
<1> DEFINE plan == Allocation(FreeCapacity(used), c)
<1>1. plan \in [Workers -> Nat]
  BY PlanType DEF TypeOK
<1>2. SendTo(Assigned(plan), StartCommands(n, plan))
  BY DEF Start
<1>3. /\ metrics' = Forget(metrics, n, Attached)
      /\ samples' = Forget(samples, n, Attached)
      /\ used' = Reserved(used, plan)
      /\ jobs' = jobs \cup {n}
      /\ held' = [held EXCEPT ![n] = plan]
      /\ conc' = [conc EXCEPT ![n] = c]
      /\ UNCHANGED <<workers, cap, paused, handlerVars, streamVars>>
  BY DEF Start
<1> HIDE DEF plan
<1>4. send' \in [Streams -> Seq(Command)] /\ dropped' \subseteq Streams
      /\ open' = open /\ senders' = senders
  BY <1>1, <1>2, CommandsType, SendToType
<1>5. used' \in [Workers -> Nat]
  BY <1>1, <1>3 DEF Reserved, TypeOK
<1>6. metrics' \in [Workers -> SUBSET Jobs] /\ samples' \in [Workers -> SUBSET Jobs]
  BY <1>3 DEF Forget, TypeOK
<1> QED BY <1>1, <1>3, <1>4, <1>5, <1>6 DEF TypeOK, StreamTypeOK, handlerVars, streamVars

LEMMA TypeStop ==
    ASSUME TypeOK, NEW n \in Jobs, Stop(n)
    PROVE  TypeOK'
<1> DEFINE ws == Assigned(held[n]) \cap Attached
<1>1. send' \in [Streams -> Seq(Command)] /\ dropped' \subseteq Streams
      /\ open' = open /\ senders' = senders
  <2>1. SendTo(ws, StopCommands(n))
    BY DEF Stop
  <2>2. StopCommands(n) \in [Workers -> Command]
    BY CommandsType DEF TypeOK
  <2> HIDE DEF ws
  <2> QED BY <2>1, <2>2, SendToType
<1>2. used' \in [Workers -> Nat]
  BY ReleasedType DEF Stop
<1>3. metrics' \in [Workers -> SUBSET Jobs] /\ samples' \in [Workers -> SUBSET Jobs]
  BY DEF Stop, Forget, TypeOK
<1> QED BY <1>1, <1>2, <1>3 DEF Stop, Nothing, TypeOK, StreamTypeOK, handlerVars, streamVars

LEMMA TypePause ==
    ASSUME TypeOK, NEW n \in Jobs, Pause(n)
    PROVE  TypeOK'
<1> DEFINE ws == Assigned(held[n]) \cap Attached
<1>1. send' \in [Streams -> Seq(Command)] /\ dropped' \subseteq Streams
      /\ open' = open /\ senders' = senders
  <2>1. SendTo(ws, StopCommands(n))
    BY DEF Pause
  <2>2. StopCommands(n) \in [Workers -> Command]
    BY CommandsType DEF TypeOK
  <2> HIDE DEF ws
  <2> QED BY <2>1, <2>2, SendToType
<1>2. metrics' \in [Workers -> SUBSET Jobs] /\ samples' \in [Workers -> SUBSET Jobs]
  BY DEF Pause, Forget, TypeOK
<1> QED BY <1>1, <1>2 DEF Pause, TypeOK, StreamTypeOK, handlerVars, streamVars

\* What Resume assigns: the plan it made, or what the job held before.
ResumePlan(n, c) ==
    IF Reallocates(n, c) THEN Allocation(FreeCapacity(Released(n)), c) ELSE held[n]

LEMMA ResumePlanType ==
    ASSUME TypeOK, NEW n \in Jobs, NEW c \in Nat
    PROVE  ResumePlan(n, c) \in [Workers -> Nat]
<1>1. Released(n) \in [Workers -> Nat]
  BY ReleasedType
<1>2. Allocation(FreeCapacity(Released(n)), c) \in [Workers -> Nat]
  BY <1>1, PlanType
<1> QED BY <1>2 DEF ResumePlan, TypeOK

LEMMA TypeResume ==
    ASSUME TypeOK, NEW n \in Jobs, NEW c \in Nat, Resume(n, c)
    PROVE  TypeOK'
<1> DEFINE plan == ResumePlan(n, c)
<1>1. plan \in [Workers -> Nat]
  BY ResumePlanType
<1>2. /\ SendTo(Assigned(plan) \cap Attached, StartCommands(n, plan))
      /\ used' = IF Reallocates(n, c) THEN Reserved(Released(n), plan) ELSE used
      /\ held' = [held EXCEPT ![n] = plan]
      /\ conc' = [conc EXCEPT ![n] = c]
      /\ paused' = paused \ {n}
      /\ UNCHANGED <<workers, cap, metrics, samples, jobs, handlerVars, streamVars>>
  BY DEF Resume, ResumePlan
<1> HIDE DEF plan
<1>3. send' \in [Streams -> Seq(Command)] /\ dropped' \subseteq Streams
      /\ open' = open /\ senders' = senders
  BY <1>1, <1>2, CommandsType, SendToType
<1>4. used' \in [Workers -> Nat]
  BY <1>1, <1>2, ReleasedType DEF Reserved, TypeOK
<1> QED BY <1>1, <1>2, <1>3, <1>4 DEF TypeOK, StreamTypeOK, handlerVars, streamVars

LEMMA TypeResumeRejected ==
    ASSUME TypeOK, NEW n \in Jobs, NEW c \in Nat, ResumeRejected(n, c)
    PROVE  TypeOK'
<1>1. used' \in [Workers -> Nat]
  BY ReleasedType DEF ResumeRejected, TypeOK
<1> QED BY <1>1
        DEF ResumeRejected, TypeOK, StreamTypeOK, jobVars, handlerVars, senderVars, streamVars

LEMMA TypeCrash == TypeOK /\ OceanCrash => TypeOK'
BY DEF OceanCrash, TypeOK, StreamTypeOK, Nothing

LEMMA TypeEnvironment == TypeOK /\ Environment => TypeOK'
<1> SUFFICES ASSUME TypeOK, Environment PROVE TypeOK'
  OBVIOUS
<1>1. PICK s \in Streams : EnvDial(s) \/ EnvReport(s) \/ TakeDown(s) \/ Cut(s)
  BY DEF Environment
<1>2. StreamTypeOK'
  <2>1. CASE EnvDial(s)
    BY <2>1, TypeStream, OceanAssumption DEF EnvDial
  <2>2. CASE EnvReport(s)
    <3>1. PICK n \in Jobs, v \in ReportKinds : PutUp(s, Report(n, v))
      BY <2>2 DEF EnvReport
    <3>2. Report(n, v) \in WorkerMessage
      BY StreamAssumption DEF Report, WorkerMessage
    <3> QED BY <3>1, <3>2, TypeStream
  <2>3. CASE TakeDown(s) \/ Cut(s)
    BY <2>3, TypeStream
  <2> QED BY <1>1, <2>1, <2>2, <2>3
<1> QED BY <1>2
        DEF Environment, TypeOK, oceanVars, registryVars, jobVars, handlerVars, senderVars

LEMMA TypeStutter == TypeOK /\ UNCHANGED vars => TypeOK'
BY DEF TypeOK, StreamTypeOK, vars, streamVars, oceanVars, registryVars, jobVars,
       handlerVars, senderVars

\* The concurrency a client can ask for: a request, or the job's own.
LEMMA RequestType ==
    ASSUME TypeOK, NEW n \in Jobs, NEW c \in Requests \cup {conc[n]}
    PROVE  c \in Nat
BY OceanAssumption DEF TypeOK

LEMMA TypeNext == TypeOK /\ [Next]_vars => TypeOK'
<1> SUFFICES ASSUME TypeOK, [Next]_vars PROVE TypeOK'
  OBVIOUS
<1>1. ASSUME NEW n \in Jobs, NEW c \in Requests, Start(n, c) PROVE TypeOK'
  BY <1>1, OceanAssumption, TypeStart
<1>2. ASSUME NEW n \in Jobs, Stop(n) PROVE TypeOK'
  BY <1>2, TypeStop
<1>3. ASSUME NEW n \in Jobs, Pause(n) PROVE TypeOK'
  BY <1>3, TypePause
<1>4. ASSUME NEW n \in Jobs, NEW c \in Requests \cup {conc[n]},
             Resume(n, c) \/ ResumeRejected(n, c)
      PROVE  TypeOK'
  BY <1>4, RequestType, TypeResume, TypeResumeRejected
<1>5. ASSUME NEW s \in Streams, Receiver(s) PROVE TypeOK'
  BY <1>5, TypeJoin, TypeRefuse, TypeOnReport, TypeOnSample, TypeLeave DEF Receiver
<1> QED BY <1>1, <1>2, <1>3, <1>4, <1>5, TypeSender, TypeCrash, TypeEnvironment, TypeStutter
        DEF Next, OceanStep, ClientRequest

\* Every variable of the ocean keeps its type, for every number of workers and
\* tests and every buffer size (ocean.go:33-74): counters never go negative,
\* the clamps of Stop and Resume included.
THEOREM TypeCorrect == Spec => []TypeOK
<1>1. Init => TypeOK
  BY TypeInit
<1>2. TypeOK /\ [Next]_vars => TypeOK'
  BY TypeNext
<1> QED BY <1>1, <1>2, PTL DEF Spec
-----------------------------------------------------------------------------
(* The registry, the assignments and the connection limit.  All three are  *)
(* about who is registered; only Join, Leave and OceanCrash change that,   *)
(* and only Start, Stop, Resume and these change the assignments.          *)

\* The steps that leave the registry alone.
LEMMA RegistryFrame ==
    ASSUME NEW s \in Streams,
           ClientRequest \/ Environment \/ Sender(s) \/ OnReport(s) \/ OnSample(s)
           \/ Refuse(s) \/ UNCHANGED vars
    PROVE  UNCHANGED <<workers, serving, open>>
<1> USE DEF handlerVars, senderVars, registryVars, jobVars, oceanVars
<1>1. ClientRequest => UNCHANGED <<workers, serving, open>>
  BY DEF ClientRequest, Start, Stop, Pause, Resume, ResumeRejected, SendTo
<1>2. Environment => UNCHANGED <<workers, serving, open>>
  BY DEF Environment
<1>3. Sender(s) => UNCHANGED <<workers, serving, open>>
  BY DEF Sender, Deliver, SenderExits
<1>4. OnReport(s) \/ OnSample(s) \/ Refuse(s) => UNCHANGED <<workers, serving, open>>
  BY DEF OnReport, OnSample, Refuse
<1>5. UNCHANGED vars => UNCHANGED <<workers, serving, open>>
  BY DEF vars
<1> QED BY <1>1, <1>2, <1>3, <1>4, <1>5

\* The steps that leave the assignments alone as well.
LEMMA AssignmentFrame ==
    ASSUME NEW s \in Streams,
           Environment \/ Sender(s) \/ OnReport(s) \/ OnSample(s) \/ Refuse(s)
           \/ (\E n \in Jobs : Pause(n) \/ \E c \in Requests \cup {conc[n]} : ResumeRejected(n, c))
           \/ UNCHANGED vars
    PROVE  UNCHANGED <<workers, jobs, held>>
<1> USE DEF handlerVars, senderVars, registryVars, jobVars, oceanVars
<1>1. Environment => UNCHANGED <<workers, jobs, held>>
  BY DEF Environment
<1>2. Sender(s) => UNCHANGED <<workers, jobs, held>>
  BY DEF Sender, Deliver, SenderExits
<1>3. OnReport(s) \/ OnSample(s) \/ Refuse(s) => UNCHANGED <<workers, jobs, held>>
  BY DEF OnReport, OnSample, Refuse
<1>4. ASSUME NEW n \in Jobs, Pause(n) \/ \E c \in Requests \cup {conc[n]} : ResumeRejected(n, c)
      PROVE  UNCHANGED <<workers, jobs, held>>
  BY <1>4 DEF Pause, ResumeRejected
<1>5. UNCHANGED vars => UNCHANGED <<workers, jobs, held>>
  BY DEF vars
<1> QED BY <1>1, <1>2, <1>3, <1>4, <1>5

\* Next, sorted by what the invariants below care about.
LEMMA StepCases ==
    ASSUME [Next]_vars, Streams # {}
    PROVE  \E s \in Streams :
              \/ Join(s) \/ Leave(s) \/ OceanCrash
              \/ ClientRequest \/ Environment \/ Sender(s) \/ OnReport(s) \/ OnSample(s)
              \/ Refuse(s) \/ UNCHANGED vars
BY DEF Next, OceanStep, Receiver

LEMMA RegistryJoin ==
    ASSUME TypeOK, RegistrySound, NEW s \in Streams, Join(s)
    PROVE  RegistrySound'
<1>1. /\ workers' = [workers EXCEPT ![Owner(s)] = s]
      /\ serving' = serving \cup {s}
      /\ open' = open \cup {s}
  BY DEF Join
<1> SUFFICES ASSUME NEW w \in Workers, workers'[w] # NoStream
             PROVE  workers'[w] \in serving' \cap open' /\ Owner(workers'[w]) = w
  BY DEF RegistrySound, Attached
<1>2. CASE w = Owner(s)
  BY <1>1, <1>2, OwnerType DEF TypeOK
<1>3. CASE w # Owner(s)
  <2>1. workers'[w] = workers[w]
    BY <1>1, <1>3 DEF TypeOK
  <2> QED BY <1>1, <2>1 DEF RegistrySound, Attached
<1> QED BY <1>2, <1>3

\* Leave takes the stream out of serving and closes the registered entry of its
\* owner: the entries of the other workers are on other streams.
LEMMA RegistryLeave ==
    ASSUME TypeOK, RegistrySound, NEW s \in Streams, Leave(s)
    PROVE  RegistrySound'
<1>1. /\ workers' = [workers EXCEPT ![Owner(s)] = NoStream]
      /\ serving' = serving \ {s}
      /\ open' = open \ {workers[Owner(s)]}
  BY DEF Leave, Unregister, CloseChannel, DetachJobs
<1> SUFFICES ASSUME NEW w \in Workers, workers'[w] # NoStream
             PROVE  workers'[w] \in serving' \cap open' /\ Owner(workers'[w]) = w
  BY DEF RegistrySound, Attached
<1>2. w # Owner(s) /\ workers'[w] = workers[w]
  BY <1>1, OwnerType DEF TypeOK
<1>3. workers[w] \in serving \cap open /\ Owner(workers[w]) = w
  BY <1>2 DEF RegistrySound, Attached
<1>4. workers[w] # s
  BY <1>2, <1>3
<1>5. workers[w] # workers[Owner(s)]
  <2>1. CASE workers[Owner(s)] = NoStream
    BY <1>2, <2>1
  <2>2. CASE workers[Owner(s)] # NoStream
    <3>1. Owner(workers[Owner(s)]) = Owner(s)
      BY <2>2, OwnerType DEF RegistrySound, Attached
    <3> QED BY <1>2, <1>3, <3>1
  <2> QED BY <2>1, <2>2
<1> QED BY <1>1, <1>2, <1>3, <1>4, <1>5

LEMMA RegistryStep == TypeOK /\ RegistrySound /\ [Next]_vars => RegistrySound'
<1> SUFFICES ASSUME TypeOK, RegistrySound, [Next]_vars PROVE RegistrySound'
  OBVIOUS
<1>1. CASE Streams = {}
  BY <1>1, EveryoneHasStreams DEF RegistrySound, Attached
<1>2. CASE Streams # {}
  <2>1. PICK s \in Streams :
              \/ Join(s) \/ Leave(s) \/ OceanCrash
              \/ ClientRequest \/ Environment \/ Sender(s) \/ OnReport(s) \/ OnSample(s)
              \/ Refuse(s) \/ UNCHANGED vars
    BY <1>2, StepCases
  <2>2. CASE OceanCrash
    BY <2>2 DEF OceanCrash, RegistrySound, Attached
  <2>3. CASE UNCHANGED <<workers, serving, open>>
    BY <2>3 DEF RegistrySound, Attached
  <2> QED BY <2>1, <2>2, <2>3, RegistryJoin, RegistryLeave, RegistryFrame
<1> QED BY <1>1, <1>2

\* A registered worker has a live handler and an open channel, so that no
\* command is sent on, and no removeWorker closes, a closed channel
\* (client.go:106-119): for any number of streams per worker, half-open ones
\* included.
THEOREM RegistryIsSound == Spec => []RegistrySound
<1>1. Init => RegistrySound
  BY DEF Init, OceanInit, RegistrySound, Attached
<1> QED BY <1>1, RegistryStep, TypeCorrect, PTL DEF Spec

-----------------------------------------------------------------------------

LEMMA AssignmentsStart ==
    ASSUME TypeOK, AssignedAreAttached, NEW n \in Jobs, NEW c \in Nat, Start(n, c)
    PROVE  AssignedAreAttached'
<1> DEFINE plan == Allocation(FreeCapacity(used), c)
<1>1. Assigned(plan) \subseteq Attached /\ plan \in [Workers -> Nat]
  BY PlanType DEF TypeOK
<1>2. jobs' = jobs \cup {n} /\ held' = [held EXCEPT ![n] = plan] /\ workers' = workers
  BY DEF Start
<1> HIDE DEF plan
<1>3. ASSUME NEW m \in Jobs, Assigned(held'[m]) # {}
      PROVE  m \in jobs' /\ Assigned(held'[m]) \subseteq Attached
  <2>1. CASE m = n
    BY <1>1, <1>2, <2>1 DEF TypeOK
  <2>2. CASE m # n
    BY <1>2, <1>3, <2>2 DEF AssignedAreAttached, TypeOK
  <2> QED BY <2>1, <2>2
<1> QED BY <1>2, <1>3 DEF AssignedAreAttached, Assigned, Attached

LEMMA AssignmentsStop ==
    ASSUME TypeOK, AssignedAreAttached, NEW n \in Jobs, Stop(n)
    PROVE  AssignedAreAttached'
<1>1. jobs' = jobs \ {n} /\ held' = [held EXCEPT ![n] = Nothing] /\ workers' = workers
  BY DEF Stop
<1>2. Assigned(Nothing) = {}
  BY DEF Assigned, Nothing
<1>3. ASSUME NEW m \in Jobs, Assigned(held'[m]) # {}
      PROVE  m \in jobs' /\ Assigned(held'[m]) \subseteq Attached
  BY <1>1, <1>2, <1>3 DEF AssignedAreAttached, TypeOK
<1> QED BY <1>1, <1>3 DEF AssignedAreAttached, Assigned, Attached

LEMMA AssignmentsResume ==
    ASSUME TypeOK, AssignedAreAttached, NEW n \in Jobs, NEW c \in Nat, Resume(n, c)
    PROVE  AssignedAreAttached'
<1> DEFINE plan == ResumePlan(n, c)
<1>1. Assigned(plan) \subseteq Attached
  <2>1. CASE Reallocates(n, c)
    <3>1. Released(n) \in [Workers -> Nat]
      BY ReleasedType
    <3>2. Assigned(Allocation(FreeCapacity(Released(n)), c)) \subseteq Attached
      BY <3>1, PlanType
    <3> QED BY <2>1, <3>2 DEF ResumePlan
  <2>2. CASE ~Reallocates(n, c)
    BY <2>2 DEF ResumePlan, AssignedAreAttached
  <2> QED BY <2>1, <2>2
<1>2. n \in jobs /\ jobs' = jobs /\ held' = [held EXCEPT ![n] = plan] /\ workers' = workers
  BY DEF Resume, ResumePlan, ResumeAllowed
<1> HIDE DEF plan
<1>3. ASSUME NEW m \in Jobs, Assigned(held'[m]) # {}
      PROVE  m \in jobs' /\ Assigned(held'[m]) \subseteq Attached
  <2>1. CASE m = n
    BY <1>1, <1>2, <2>1 DEF TypeOK
  <2>2. CASE m # n
    BY <1>2, <1>3, <2>2 DEF AssignedAreAttached, TypeOK
  <2> QED BY <2>1, <2>2
<1> QED BY <1>2, <1>3 DEF AssignedAreAttached, Assigned, Attached

LEMMA AssignmentsJoin ==
    ASSUME TypeOK, AssignedAreAttached, NEW s \in Streams, Join(s)
    PROVE  AssignedAreAttached'
<1>1. jobs' = jobs /\ held' = held /\ workers' = [workers EXCEPT ![Owner(s)] = s]
  BY DEF Join, jobVars
<1>2. Attached \subseteq Attached'
  BY <1>1, OwnerType, NoStreamIsNone DEF Attached, TypeOK
<1> QED BY <1>1, <1>2 DEF AssignedAreAttached, Assigned

LEMMA AssignmentsLeave ==
    ASSUME TypeOK, AssignedAreAttached, NEW s \in Streams, Leave(s)
    PROVE  AssignedAreAttached'
<1> DEFINE w == Owner(s)
<1>1. /\ jobs' = jobs
      /\ held' = [n \in Jobs |-> [held[n] EXCEPT ![w] = 0]]
      /\ workers' = [workers EXCEPT ![w] = NoStream]
  BY DEF Leave, Unregister, CloseChannel, DetachJobs
<1>2. w \in Workers
  BY OwnerType
<1> HIDE DEF w
<1>3. Attached' = Attached \ {w}
  BY <1>1, <1>2 DEF Attached, TypeOK
<1>4. ASSUME NEW n \in Jobs PROVE Assigned(held'[n]) = Assigned(held[n]) \ {w}
  BY <1>1, <1>2 DEF Assigned, TypeOK
<1>5. ASSUME NEW n \in Jobs, Assigned(held'[n]) # {}
      PROVE  n \in jobs' /\ Assigned(held'[n]) \subseteq Attached'
  BY <1>1, <1>3, <1>4, <1>5 DEF AssignedAreAttached
<1>6. \A n \in Jobs : Assigned(held'[n]) = Assigned(held[n])'
  BY DEF Assigned
<1> QED BY <1>5, <1>6 DEF AssignedAreAttached

LEMMA AssignmentsStep == TypeOK /\ AssignedAreAttached /\ [Next]_vars => AssignedAreAttached'
<1> SUFFICES ASSUME TypeOK, AssignedAreAttached, [Next]_vars PROVE AssignedAreAttached'
  OBVIOUS
<1>1. CASE UNCHANGED <<workers, jobs, held>>
  BY <1>1 DEF AssignedAreAttached, Assigned, Attached
<1>2. CASE OceanCrash
  BY <1>2 DEF OceanCrash, AssignedAreAttached, Assigned, Nothing
<1>3. CASE ClientRequest
  <2>1. ASSUME NEW n \in Jobs, NEW c \in Requests, Start(n, c) PROVE AssignedAreAttached'
    BY <2>1, OceanAssumption, AssignmentsStart
  <2>2. ASSUME NEW n \in Jobs, Stop(n) PROVE AssignedAreAttached'
    BY <2>2, AssignmentsStop
  <2>3. ASSUME NEW n \in Jobs, NEW c \in Requests \cup {conc[n]}, Resume(n, c)
        PROVE  AssignedAreAttached'
    BY <2>3, RequestType, AssignmentsResume
  <2>4. ASSUME NEW n \in Jobs, Pause(n) \/ \E c \in Requests \cup {conc[n]} : ResumeRejected(n, c)
        PROVE  UNCHANGED <<workers, jobs, held>>
    BY <2>4 DEF Pause, ResumeRejected, jobVars
  <2> QED BY <1>1, <1>3, <2>1, <2>2, <2>3, <2>4 DEF ClientRequest
<1>4. CASE Streams = {}
  BY <1>4, EveryoneHasStreams DEF AssignedAreAttached, Assigned
<1>5. CASE Streams # {}
  <2>1. PICK s \in Streams :
              \/ Join(s) \/ Leave(s) \/ OceanCrash
              \/ ClientRequest \/ Environment \/ Sender(s) \/ OnReport(s) \/ OnSample(s)
              \/ Refuse(s) \/ UNCHANGED vars
    BY <1>5, StepCases
  <2> QED BY <1>1, <1>2, <1>3, <2>1, AssignmentsJoin, AssignmentsLeave, AssignmentFrame
<1> QED BY <1>4, <1>5

\* "detach it from any jobs" (client.go:104-105): no test ever holds
\* concurrency on a worker that is not attached, and no stopped test holds any.
THEOREM AssignmentsAreAttached == Spec => []AssignedAreAttached
<1>1. Init => AssignedAreAttached
  BY DEF Init, OceanInit, AssignedAreAttached, Assigned, Nothing
<1> QED BY <1>1, AssignmentsStep, TypeCorrect, PTL DEF Spec
-----------------------------------------------------------------------------

LEMMA AttachedFinite == IsFiniteSet(Attached)
BY FS_Subset, StreamAssumption DEF Attached

\* Join registers one worker at most, and only below the limit.
LEMMA LimitJoin ==
    ASSUME TypeOK, NEW s \in Streams, Join(s)
    PROVE  ConnectionLimit'
<1> SUFFICES ASSUME MaxConnections > 0 PROVE Cardinality(Attached') <= MaxConnections
  BY DEF ConnectionLimit
<1>1. Attached' = Attached \cup {Owner(s)}
  <2>1. workers' = [workers EXCEPT ![Owner(s)] = s]
    BY DEF Join
  <2> QED BY <2>1, OwnerType, NoStreamIsNone DEF Attached, TypeOK
<1>2. Cardinality(Attached) \in Nat /\ Cardinality(Attached) < MaxConnections
  BY AttachedFinite, FS_CardinalityType, OceanAssumption DEF Join, AtLimit
<1>3. \/ Cardinality(Attached') = Cardinality(Attached)
      \/ Cardinality(Attached') = Cardinality(Attached) + 1
  BY <1>1, AttachedFinite, FS_AddElement
<1> QED BY <1>2, <1>3, OceanAssumption

\* A step after which no new worker is registered keeps the limit.
LEMMA LimitFewer ==
    ASSUME ConnectionLimit, Attached' \subseteq Attached
    PROVE  ConnectionLimit'
<1>1. Cardinality(Attached') <= Cardinality(Attached)
  BY AttachedFinite, FS_Subset
<1>2. Cardinality(Attached) \in Nat /\ Cardinality(Attached') \in Nat
  BY AttachedFinite, FS_Subset, FS_CardinalityType
<1> QED BY <1>1, <1>2, OceanAssumption DEF ConnectionLimit

LEMMA LimitStep == TypeOK /\ ConnectionLimit /\ [Next]_vars => ConnectionLimit'
<1> SUFFICES ASSUME TypeOK, ConnectionLimit, [Next]_vars PROVE ConnectionLimit'
  OBVIOUS
<1>1. CASE workers' = workers
  BY <1>1, LimitFewer DEF Attached
<1>2. CASE OceanCrash
  <2>1. Attached' = {}
    BY <1>2 DEF OceanCrash, Attached
  <2> QED BY <2>1, LimitFewer
<1>3. ASSUME NEW s \in Streams, Leave(s) PROVE ConnectionLimit'
  <2>1. workers' = [workers EXCEPT ![Owner(s)] = NoStream]
    BY <1>3 DEF Leave, Unregister, CloseChannel, DetachJobs
  <2>2. Attached' \subseteq Attached
    BY <2>1, OwnerType DEF Attached, TypeOK
  <2> QED BY <2>2, LimitFewer
<1>4. CASE Streams = {}
  <2>1. Attached' = {}
    BY <1>4, EveryoneHasStreams DEF Attached
  <2> QED BY <2>1, LimitFewer
<1>5. CASE Streams # {}
  <2>1. PICK s \in Streams :
              \/ Join(s) \/ Leave(s) \/ OceanCrash
              \/ ClientRequest \/ Environment \/ Sender(s) \/ OnReport(s) \/ OnSample(s)
              \/ Refuse(s) \/ UNCHANGED vars
    BY <1>5, StepCases
  <2> QED BY <1>1, <1>2, <1>3, <2>1, LimitJoin, RegistryFrame
<1> QED BY <1>4, <1>5

\* max_connections bounds the registered workers (client.go:91, 95), however
\* many streams join, are replaced and leave.
THEOREM ConnectionsAreLimited == Spec => []ConnectionLimit
<1>1. Init => ConnectionLimit
  <2> SUFFICES ASSUME Init, MaxConnections > 0 PROVE Cardinality(Attached) <= MaxConnections
    BY DEF ConnectionLimit
  <2>1. Attached = {}
    BY DEF Init, OceanInit, Attached
  <2> QED BY <2>1, FS_EmptySet, OceanAssumption
<1> QED BY <1>1, LimitStep, TypeCorrect, PTL DEF Spec
-----------------------------------------------------------------------------
(* Accounting.  When a worker redials only after the ocean has finished    *)
(* with its previous stream, no entry is ever replaced, and the counters   *)
(* are exact: the clamps of Stop and Resume never bite.                    *)
(*                                                                         *)
(* ExactAccounting is not inductive.  An addWorker sets used to 0, which   *)
(* is right only if nothing is assigned there (AssignedAreAttached, and no *)
(* entry there: RegistrySound, OneStreamEach); a clamp bites unless the    *)
(* counter covers what is given back, and the free capacity is clamped     *)
(* unless it is within maxCap (WithinCapacity), also where no entry is     *)
(* left (DetachedHaveNothing).                                             *)

\* No worker redials while the ocean still serves its previous stream.
OneStreamEach == \A s, t \in Streams : Owner(s) = Owner(t) => s = t

\* A worker without an entry has no capacity.
DetachedHaveNothing == \A w \in Workers : w \notin Attached => cap[w] = 0

AccountInv ==
    /\ TypeOK
    /\ RegistrySound
    /\ AssignedAreAttached
    /\ ExactAccounting
    /\ WithinCapacity
    /\ DetachedHaveNothing

\* A worker that is not attached has nothing assigned, and a job that is not
\* there has nothing.
LEMMA NothingElsewhere ==
    ASSUME TypeOK, AssignedAreAttached, NEW n \in Jobs, NEW w \in Workers,
           n \notin jobs \/ w \notin Attached
    PROVE  held[n][w] = 0
<1>1. held[n][w] \in Nat
  BY DEF TypeOK
<1>2. held[n][w] > 0 => w \in Assigned(held[n])
  BY DEF Assigned
<1> QED BY <1>1, <1>2 DEF AssignedAreAttached

\* What a worker is loaded with includes what each job has there.
LEMMA LoadType ==
    ASSUME TypeOK, NEW w \in Workers
    PROVE  Load(w) \in Nat /\ \A n \in Jobs : held[n][w] <= Load(w)
<1> DEFINE f == [n \in Jobs |-> held[n][w]]
<1>1. f \in [Jobs -> Nat]
  BY DEF TypeOK
<1>2. Load(w) = Total(f) /\ \A n \in Jobs : held[n][w] = f[n]
  BY DEF Load
<1> HIDE DEF f
<1> QED BY <1>1, <1>2, TotalType, StreamAssumption

LEMMA LoadOfNothing ==
    ASSUME NEW w \in Workers, \A n \in Jobs : held[n][w] = 0
    PROVE  Load(w) = 0
<1>1. [n \in Jobs |-> held[n][w]] = [n \in Jobs |-> 0]
  OBVIOUS
<1> QED BY <1>1, TotalOfZeros, StreamAssumption DEF Load

\* One job's assignments are replaced.
LEMMA LoadUpdate ==
    ASSUME TypeOK, NEW n \in Jobs, NEW plan \in [Workers -> Nat],
           held' = [held EXCEPT ![n] = plan], NEW w \in Workers
    PROVE  Load(w)' = Load(w) - held[n][w] + plan[w]
<1> DEFINE f == [m \in Jobs |-> held[m][w]]
           g == [m \in Jobs |-> held'[m][w]]
<1>1. f \in [Jobs -> Nat] /\ f[n] = held[n][w]
  BY DEF TypeOK
<1>2. g = [f EXCEPT ![n] = plan[w]]
  BY DEF TypeOK
<1>3. plan[w] \in Nat
  OBVIOUS
<1>4. Load(w) = Total(f) /\ Load(w)' = Total(g)
  BY DEF Load
<1> HIDE DEF f, g
<1>5. \A v \in Nat : Total([f EXCEPT ![n] = v]) = Total(f) - f[n] + v
  <2>1. IsFiniteSet(Jobs)
    BY StreamAssumption
  <2> QED BY <1>1, <2>1, TotalUpdate
<1>6. Load(w)' = Total(f) - f[n] + plan[w]
  BY <1>2, <1>3, <1>4, <1>5
<1> QED BY <1>1, <1>4, <1>6

\* What n gives back is what it has: no clamp.
LEMMA ReleasedIsExact ==
    ASSUME AccountInv, NEW n \in Jobs, NEW w \in Workers
    PROVE  Released(n)[w] = Load(w) - held[n][w]
<1>1. Load(w) \in Nat /\ held[n][w] \in Nat /\ held[n][w] <= Load(w) /\ used[w] = Load(w)
  BY LoadType DEF AccountInv, TypeOK, ExactAccounting
<1>2. CASE w \in Attached
  BY <1>1, <1>2 DEF Released, AtLeastZero
<1>3. CASE w \notin Attached
  BY <1>1, <1>3, NothingElsewhere DEF Released, AccountInv
<1> QED BY <1>2, <1>3

\* After giving back, free capacity is what the other jobs leave: no clamp.
LEMMA FreeIsExact ==
    ASSUME AccountInv, NEW n \in Jobs, NEW w \in Workers
    PROVE  FreeCapacity(Released(n))[w] = cap[w] - (Load(w) - held[n][w])
<1>1. Released(n)[w] = Load(w) - held[n][w]
  BY ReleasedIsExact
<1>2. /\ Load(w) \in Nat /\ held[n][w] \in Nat /\ held[n][w] <= Load(w)
      /\ cap[w] \in Nat /\ Load(w) <= cap[w]
  BY LoadType DEF AccountInv, TypeOK, ExactAccounting, WithinCapacity
<1>3. CASE w \in Attached
  BY <1>1, <1>2, <1>3 DEF FreeCapacity, AtLeastZero
<1>4. CASE w \notin Attached
  <2>1. cap[w] = 0
    BY <1>4 DEF AccountInv, DetachedHaveNothing
  <2>2. Load(w) = 0
    BY <1>2, <2>1
  <2> QED BY <1>2, <1>4, <2>1, <2>2 DEF FreeCapacity
<1> QED BY <1>3, <1>4

\* A job that is not there gives nothing back.
LEMMA NothingToRelease ==
    ASSUME AccountInv, NEW n \in Jobs, n \notin jobs
    PROVE  Released(n) = used
<1>1. \A w \in Workers : Released(n)[w] = used[w]
  BY ReleasedIsExact, NothingElsewhere, LoadType DEF AccountInv, ExactAccounting
<1>2. Released(n) \in [Workers -> Nat] /\ used \in [Workers -> Nat]
  BY ReleasedType DEF AccountInv, TypeOK
<1> QED BY <1>1, <1>2

\* A job's new plan, within what is free once it has given back, keeps the books.
LEMMA BooksAfterPlan ==
    ASSUME AccountInv, NEW n \in Jobs, NEW plan \in [Workers -> Nat],
           \A w \in Workers : plan[w] <= FreeCapacity(Released(n))[w],
           held' = [held EXCEPT ![n] = plan],
           used' = Reserved(Released(n), plan),
           cap' = cap
    PROVE  ExactAccounting' /\ WithinCapacity'
<1> SUFFICES ASSUME NEW w \in Workers PROVE used'[w] = Load(w)' /\ used'[w] <= cap'[w]
  BY DEF ExactAccounting, WithinCapacity, Load
<1>1. Load(w)' = Load(w) - held[n][w] + plan[w]
  BY LoadUpdate DEF AccountInv
<1>2. Released(n)[w] = Load(w) - held[n][w]
  BY ReleasedIsExact
<1>3. FreeCapacity(Released(n))[w] = cap[w] - (Load(w) - held[n][w])
  BY FreeIsExact
<1>4. Load(w) \in Nat /\ held[n][w] \in Nat /\ cap[w] \in Nat
  BY LoadType DEF AccountInv, TypeOK
<1>5. used'[w] = Released(n)[w] + plan[w]
  BY DEF Reserved
<1> QED BY <1>1, <1>2, <1>3, <1>4, <1>5

LEMMA BooksStart ==
    ASSUME AccountInv, NEW n \in Jobs, NEW c \in Nat, Start(n, c)
    PROVE  ExactAccounting' /\ WithinCapacity'
<1> DEFINE plan == Allocation(FreeCapacity(used), c)
<1>1. Released(n) = used
  BY NothingToRelease DEF Start
<1>2. FreeCapacity(used) \in [Workers -> Nat]
  BY FreeCapacityType DEF AccountInv, TypeOK
<1>3. plan \in [Workers -> Nat] /\ \A w \in Workers : plan[w] <= FreeCapacity(used)[w]
  BY <1>2, AllocationCapped
<1>4. /\ held' = [held EXCEPT ![n] = plan]
      /\ used' = Reserved(used, plan)
      /\ cap' = cap
  BY DEF Start
<1> HIDE DEF plan
<1> QED BY <1>1, <1>3, <1>4, BooksAfterPlan

LEMMA BooksStop ==
    ASSUME AccountInv, NEW n \in Jobs, Stop(n)
    PROVE  ExactAccounting' /\ WithinCapacity'
<1>1. Nothing \in [Workers -> Nat] /\ \A w \in Workers : Nothing[w] = 0
  BY DEF Nothing
<1>2. FreeCapacity(Released(n)) \in [Workers -> Nat] /\ Released(n) \in [Workers -> Nat]
  BY FreeCapacityType, ReleasedType DEF AccountInv
<1>3. held' = [held EXCEPT ![n] = Nothing] /\ used' = Released(n) /\ cap' = cap
  BY DEF Stop
<1>4. Released(n) = Reserved(Released(n), Nothing)
  BY <1>1, <1>2 DEF Reserved
<1>5. \A w \in Workers : Nothing[w] <= FreeCapacity(Released(n))[w]
  BY <1>1, <1>2
<1> QED BY <1>1, <1>3, <1>4, <1>5, BooksAfterPlan

LEMMA BooksUntouched ==
    ASSUME ExactAccounting, WithinCapacity, UNCHANGED <<held, used, cap>>
    PROVE  ExactAccounting' /\ WithinCapacity'
BY DEF ExactAccounting, WithinCapacity, Load

\* The plan of a Resume is the one it had or one that fits.
LEMMA BooksResume ==
    ASSUME AccountInv, NEW n \in Jobs, NEW c \in Nat, Resume(n, c)
    PROVE  ExactAccounting' /\ WithinCapacity'
<1>1. CASE Reallocates(n, c)
  <2> DEFINE plan == Allocation(FreeCapacity(Released(n)), c)
  <2>1. FreeCapacity(Released(n)) \in [Workers -> Nat]
    BY FreeCapacityType, ReleasedType DEF AccountInv
  <2>2. plan \in [Workers -> Nat] /\ \A w \in Workers : plan[w] <= FreeCapacity(Released(n))[w]
    BY <2>1, AllocationCapped
  <2>3. /\ held' = [held EXCEPT ![n] = plan]
        /\ used' = Reserved(Released(n), plan)
        /\ cap' = cap
    BY <1>1 DEF Resume
  <2> HIDE DEF plan
  <2> QED BY <2>2, <2>3, BooksAfterPlan
<1>2. CASE ~Reallocates(n, c)
  <2>1. held' = [held EXCEPT ![n] = held[n]] /\ used' = used /\ cap' = cap
    BY <1>2 DEF Resume
  <2>2. held' = held
    BY <2>1 DEF AccountInv, TypeOK
  <2> QED BY <2>1, <2>2, BooksUntouched DEF AccountInv
<1> QED BY <1>1, <1>2

\* A rejected Resume puts back exactly what it has taken out.
LEMMA BooksRejected ==
    ASSUME AccountInv, NEW n \in Jobs, NEW c, ResumeRejected(n, c)
    PROVE  UNCHANGED <<held, used, cap>>
<1>1. /\ used' = [w \in Workers |-> IF w \in Attached THEN Released(n)[w] + held[n][w] ELSE used[w]]
      /\ UNCHANGED <<held, cap>>
  BY DEF ResumeRejected, jobVars
<1>2. ASSUME NEW w \in Workers PROVE Released(n)[w] + held[n][w] = used[w]
  <2>1. Released(n)[w] = Load(w) - held[n][w] /\ used[w] = Load(w)
    BY ReleasedIsExact DEF AccountInv, ExactAccounting
  <2>2. Load(w) \in Nat /\ held[n][w] \in Nat
    BY LoadType DEF AccountInv, TypeOK
  <2> QED BY <2>1, <2>2
<1>3. used' = used
  BY <1>1, <1>2 DEF AccountInv, TypeOK
<1> QED BY <1>1, <1>3

\* Whoever joins has no entry yet, so nothing is assigned to it.
LEMMA JoinerIsNew ==
    ASSUME OneStreamEach, AccountInv, NEW s \in Streams, Join(s)
    PROVE  Owner(s) \notin Attached /\ \A n \in Jobs : held[n][Owner(s)] = 0
<1> DEFINE w == Owner(s)
<1>1. w \in Workers
  BY OwnerType
<1>2. ASSUME w \in Attached PROVE FALSE
  <2>1. workers[w] \in serving /\ workers[w] \in Streams /\ Owner(workers[w]) = Owner(s)
    BY <1>2, NoStreamIsNone DEF AccountInv, RegistrySound, TypeOK
  <2>2. workers[w] = s
    BY <2>1 DEF OneStreamEach
  <2> QED BY <2>1, <2>2 DEF Join
<1> HIDE DEF w
<1>3. \A n \in Jobs : held[n][w] = 0
  BY <1>1, <1>2, NothingElsewhere DEF AccountInv
<1> QED BY <1>2, <1>3 DEF w

\* One worker's entry is made or removed while nothing is assigned to it.
LEMMA BooksOfOne ==
    ASSUME AccountInv, NEW v \in Workers, NEW c \in Nat,
           cap' = [cap EXCEPT ![v] = c], used' = [used EXCEPT ![v] = 0],
           \A n \in Jobs : held'[n][v] = 0,
           \A n \in Jobs : \A w \in Workers \ {v} : held'[n][w] = held[n][w]
    PROVE  ExactAccounting' /\ WithinCapacity'
<1> SUFFICES ASSUME NEW w \in Workers PROVE used'[w] = Load(w)' /\ used'[w] <= cap'[w]
  BY DEF ExactAccounting, WithinCapacity, Load
<1>1. CASE w = v
  <2>1. [n \in Jobs |-> held'[n][w]] = [n \in Jobs |-> 0]
    BY <1>1
  <2>2. Load(w)' = 0
    BY <2>1, TotalOfZeros, StreamAssumption DEF Load
  <2> QED BY <1>1, <2>2 DEF AccountInv, TypeOK
<1>2. CASE w # v
  <2>1. [n \in Jobs |-> held'[n][w]] = [n \in Jobs |-> held[n][w]]
    BY <1>2
  <2>2. Load(w)' = Load(w)
    BY <2>1 DEF Load
  <2>3. used'[w] = used[w] /\ cap'[w] = cap[w]
    BY <1>2 DEF AccountInv, TypeOK
  <2> QED BY <2>2, <2>3 DEF AccountInv, ExactAccounting, WithinCapacity
<1> QED BY <1>1, <1>2

\* The steps that the books do not depend on.
LEMMA BooksFrame ==
    ASSUME NEW s \in Streams,
           Environment \/ Sender(s) \/ OnReport(s) \/ OnSample(s) \/ Refuse(s)
           \/ (\E n \in Jobs : Pause(n)) \/ UNCHANGED vars
    PROVE  UNCHANGED <<workers, held, used, cap>>
<1> USE DEF handlerVars, senderVars, registryVars, jobVars, oceanVars
<1>1. Environment => UNCHANGED <<workers, held, used, cap>>
  BY DEF Environment
<1>2. Sender(s) => UNCHANGED <<workers, held, used, cap>>
  BY DEF Sender, Deliver, SenderExits
<1>3. OnReport(s) \/ OnSample(s) \/ Refuse(s) => UNCHANGED <<workers, held, used, cap>>
  BY DEF OnReport, OnSample, Refuse
<1>4. ASSUME NEW n \in Jobs, Pause(n) PROVE UNCHANGED <<workers, held, used, cap>>
  BY <1>4 DEF Pause
<1>5. UNCHANGED vars => UNCHANGED <<workers, held, used, cap>>
  BY DEF vars
<1> QED BY <1>1, <1>2, <1>3, <1>4, <1>5

LEMMA BooksJoin ==
    ASSUME OneStreamEach, AccountInv, NEW s \in Streams, Join(s)
    PROVE  ExactAccounting' /\ WithinCapacity' /\ DetachedHaveNothing'
<1> DEFINE w == Owner(s)
           c == Head(toOcean[s]).cap
<1>1. w \in Workers
  BY OwnerType
<1>2. c \in Nat
  <2>1. Head(toOcean[s]) \in WorkerMessage /\ Head(toOcean[s]).type = "register"
    BY DEF Join, AccountInv, TypeOK, StreamTypeOK
  <2> QED BY <2>1 DEF WorkerMessage
<1>3. /\ cap' = [cap EXCEPT ![w] = c]
      /\ used' = [used EXCEPT ![w] = 0]
      /\ workers' = [workers EXCEPT ![w] = s]
      /\ held' = held
  BY DEF Join, jobVars
<1>4. \A n \in Jobs : held'[n][w] = 0
  BY <1>3, JoinerIsNew
<1> HIDE DEF w, c
<1>5. ExactAccounting' /\ WithinCapacity'
  BY <1>1, <1>2, <1>3, <1>4, BooksOfOne
<1>6. DetachedHaveNothing'
  BY <1>1, <1>3, NoStreamIsNone DEF DetachedHaveNothing, AccountInv, Attached, TypeOK
<1> QED BY <1>5, <1>6

LEMMA BooksLeave ==
    ASSUME AccountInv, NEW s \in Streams, Leave(s)
    PROVE  ExactAccounting' /\ WithinCapacity' /\ DetachedHaveNothing'
<1> DEFINE w == Owner(s)
<1>1. w \in Workers
  BY OwnerType
<1>2. /\ cap' = [cap EXCEPT ![w] = 0]
      /\ used' = [used EXCEPT ![w] = 0]
      /\ workers' = [workers EXCEPT ![w] = NoStream]
      /\ held' = [n \in Jobs |-> [held[n] EXCEPT ![w] = 0]]
  BY DEF Leave, Unregister, DetachJobs
<1> HIDE DEF w
<1>3. /\ \A n \in Jobs : held'[n][w] = 0
      /\ \A n \in Jobs : \A v \in Workers \ {w} : held'[n][v] = held[n][v]
  BY <1>1, <1>2 DEF AccountInv, TypeOK
<1>4. ExactAccounting' /\ WithinCapacity'
  BY <1>1, <1>2, <1>3, BooksOfOne
<1>5. DetachedHaveNothing'
  BY <1>1, <1>2 DEF DetachedHaveNothing, AccountInv, Attached, TypeOK
<1> QED BY <1>4, <1>5

\* An ocean that has just started has clean books.
LEMMA BooksEmpty ==
    ASSUME workers = [w \in Workers |-> NoStream], cap = Nothing, used = Nothing,
           held = [n \in Jobs |-> Nothing]
    PROVE  ExactAccounting /\ WithinCapacity /\ DetachedHaveNothing
<1>1. ASSUME NEW w \in Workers PROVE Load(w) = 0
  BY LoadOfNothing DEF Nothing
<1> QED BY <1>1 DEF ExactAccounting, WithinCapacity, DetachedHaveNothing, Nothing

LEMMA BooksCrash ==
    ASSUME OceanCrash
    PROVE  ExactAccounting' /\ WithinCapacity' /\ DetachedHaveNothing'
<1>1. ASSUME NEW w \in Workers PROVE Load(w)' = 0
  <2>1. [n \in Jobs |-> held'[n][w]] = [n \in Jobs |-> 0]
    BY DEF OceanCrash, Nothing
  <2> QED BY <2>1, TotalOfZeros, StreamAssumption DEF Load
<1>2. ASSUME NEW w \in Workers PROVE used'[w] = 0 /\ cap'[w] = 0
  BY DEF OceanCrash, Nothing
<1> QED BY <1>1, <1>2 DEF ExactAccounting, WithinCapacity, DetachedHaveNothing, Load

\* One step keeps the books.
LEMMA BooksStep ==
    OneStreamEach /\ AccountInv /\ [Next]_vars
      => ExactAccounting' /\ WithinCapacity' /\ DetachedHaveNothing'
<1> DEFINE Kept == ExactAccounting' /\ WithinCapacity' /\ DetachedHaveNothing'
<1> SUFFICES ASSUME OneStreamEach, AccountInv, [Next]_vars PROVE Kept
  OBVIOUS
<1>1. UNCHANGED <<workers, cap>> => DetachedHaveNothing'
  BY DEF AccountInv, DetachedHaveNothing, Attached
<1>2. CASE UNCHANGED <<workers, held, used, cap>>
  <2>1. ExactAccounting' /\ WithinCapacity'
    BY <1>2, BooksUntouched DEF AccountInv
  <2> QED BY <1>1, <1>2, <2>1
<1>3. CASE OceanCrash
  BY <1>3, BooksCrash
<1>4. CASE ClientRequest
  <2>1. ASSUME NEW n \in Jobs, NEW c \in Requests, Start(n, c) PROVE Kept
    <3>1. c \in Nat /\ UNCHANGED <<workers, cap>>
      BY <2>1, OceanAssumption DEF Start
    <3> QED BY <1>1, <2>1, <3>1, BooksStart
  <2>2. ASSUME NEW n \in Jobs, Stop(n) PROVE Kept
    <3>1. UNCHANGED <<workers, cap>>
      BY <2>2 DEF Stop
    <3> QED BY <1>1, <2>2, <3>1, BooksStop
  <2>3. ASSUME NEW n \in Jobs, NEW c \in Requests \cup {conc[n]}, Resume(n, c) PROVE Kept
    <3>1. UNCHANGED <<workers, cap>>
      BY <2>3 DEF Resume
    <3>2. c \in Nat
      BY RequestType DEF AccountInv
    <3> QED BY <1>1, <2>3, <3>1, <3>2, BooksResume
  <2>4. ASSUME NEW n \in Jobs, NEW c \in Requests \cup {conc[n]}, ResumeRejected(n, c) PROVE Kept
    <3>1. workers' = workers
      BY <2>4 DEF ResumeRejected
    <3>2. UNCHANGED <<held, used, cap>>
      BY <2>4, BooksRejected
    <3> QED BY <1>2, <3>1, <3>2
  <2>5. ASSUME NEW n \in Jobs, Pause(n) PROVE Kept
    <3>1. UNCHANGED <<workers, held, used, cap>>
      BY <2>5 DEF Pause
    <3> QED BY <1>2, <3>1
  <2> HIDE DEF Kept
  <2> QED BY <1>4, <2>1, <2>2, <2>3, <2>4, <2>5 DEF ClientRequest
<1>5. CASE Streams = {}
  BY <1>5, EveryoneHasStreams DEF ExactAccounting, WithinCapacity, DetachedHaveNothing
<1>6. CASE Streams # {}
  <2>1. PICK s \in Streams :
              \/ Join(s) \/ Leave(s) \/ OceanCrash
              \/ ClientRequest \/ Environment \/ Sender(s) \/ OnReport(s) \/ OnSample(s)
              \/ Refuse(s) \/ UNCHANGED vars
    BY <1>6, StepCases
  <2>2. CASE Join(s)
    BY <2>2, BooksJoin
  <2>3. CASE Leave(s)
    BY <2>3, BooksLeave
  <2> HIDE DEF Kept
  <2> QED BY <1>2, <1>3, <1>4, <2>1, <2>2, <2>3, BooksFrame
<1> QED BY <1>5, <1>6

LEMMA AccountInit == Init => AccountInv
<1> SUFFICES ASSUME Init PROVE AccountInv
  OBVIOUS
<1>1. TypeOK
  BY TypeInit
<1>2. RegistrySound
  BY DEF Init, OceanInit, RegistrySound, Attached
<1>3. AssignedAreAttached
  BY DEF Init, OceanInit, AssignedAreAttached, Assigned, Nothing
<1>4. ExactAccounting /\ WithinCapacity /\ DetachedHaveNothing
  BY BooksEmpty DEF Init, OceanInit
<1> QED BY <1>1, <1>2, <1>3, <1>4 DEF AccountInv

LEMMA AccountStep == OneStreamEach /\ AccountInv /\ [Next]_vars => AccountInv'
<1> SUFFICES ASSUME OneStreamEach, AccountInv, [Next]_vars PROVE AccountInv'
  OBVIOUS
<1>1. TypeOK' /\ RegistrySound' /\ AssignedAreAttached'
  BY TypeNext, RegistryStep, AssignmentsStep DEF AccountInv
<1>2. ExactAccounting' /\ WithinCapacity' /\ DetachedHaveNothing'
  BY BooksStep
<1> QED BY <1>1, <1>2 DEF AccountInv

LEMMA AccountAlways == ASSUME OneStreamEach PROVE Spec => []AccountInv
<1>1. AccountInv /\ [Next]_vars => AccountInv'
  BY AccountStep
<1> QED BY <1>1, AccountInit, PTL DEF Spec

\* The used counter, which Start, Stop, Resume and a rejected Resume adjust in
\* four different ways (services.go:537-736), is the sum of the assignments.
THEOREM AccountingIsExact == ASSUME OneStreamEach PROVE Spec => []ExactAccounting
<1>1. AccountInv => ExactAccounting
  BY DEF AccountInv
<1> QED BY <1>1, AccountAlways, PTL

\* No worker is ever promised more concurrency than it registered for
\* (client.go:94-102, services.go:118-179), so the clamps of Stop and Resume
\* (services.go:126-129, 604-609) never bite.
THEOREM CapacityIsRespected == ASSUME OneStreamEach PROVE Spec => []WithinCapacity
<1>1. AccountInv => WithinCapacity
  BY DEF AccountInv
<1> QED BY <1>1, AccountAlways, PTL

-----------------------------------------------------------------------------
(* The ocean implements the abstract reservation system.                   *)

\* Capacities come from registrations, concurrencies from requests.
OfferedCaps ==
    \A s \in Streams : \A i \in 1..Len(toOcean[s]) :
        toOcean[s][i].type = "register" => toOcean[s][i].cap \in Caps

AskedFor == \A n \in jobs : conc[n] \in Requests

ReservationInv == AccountInv /\ OfferedCaps /\ AskedFor

LEMMA SameTotal == \A f : Abstract!Total(f) = Total(f)
BY DEF Abstract!Total, Total, Abstract!SumFunction, SumFunction,
       Abstract!SumFunctionOnSet, SumFunctionOnSet,
       Abstract!FoldFunctionOnSet, FoldFunctionOnSet,
       Abstract!MapThenFoldSet, MapThenFoldSet

\* A sum without one of its terms.
LEMMA TotalWithout ==
    ASSUME NEW D, IsFiniteSet(D), NEW f \in [D -> Nat], NEW y \in D
    PROVE  Total([x \in D \ {y} |-> f[x]]) = Total(f) - f[y]
<1> DEFINE g == [x \in D \ {y} |-> f[x]]
           T == D \ {y}
<1>1. Total(f) = SumFunctionOnSet(f, D) /\ Total(g) = SumFunctionOnSet(g, T)
  BY DEF Total, SumFunction
<1>2. IsFiniteSet(T) /\ \A x \in T : g[x] = f[x]
  BY FS_Subset
<1>3. \A x \in D : f[x] \in Nat
  OBVIOUS
<1>4. SumFunctionOnSet(f, D) = f[y] + SumFunctionOnSet(f, T)
  BY <1>3, SumSplits
<1>5. SumFunctionOnSet(f, T) \in Nat
  <2>1. \A x \in T : f[x] \in Nat
    BY <1>3
  <2> HIDE DEF T
  <2> QED BY <1>2, <2>1, SumType
<1>6. SumFunctionOnSet(g, T) = SumFunctionOnSet(f, T)
  <2> HIDE DEF T, g
  <2> QED BY <1>2, SumDepends
<1> HIDE DEF T, g
<1>7. Total(g) = Total(f) - f[y]
  BY <1>1, <1>3, <1>4, <1>5, <1>6
<1> QED BY <1>7 DEF g, T

\* The room that the other tests leave is the free capacity the code computes.
LEMMA RoomIsFree ==
    ASSUME AccountInv, NEW n \in Jobs
    PROVE  Abstract!Room(n) = FreeCapacity(Released(n))
<1>1. ASSUME NEW w \in Workers
      PROVE  cap[w] - Total([m \in Jobs \ {n} |-> held[m][w]]) = FreeCapacity(Released(n))[w]
  <2> DEFINE f == [m \in Jobs |-> held[m][w]]
  <2>1. f \in [Jobs -> Nat] /\ IsFiniteSet(Jobs)
    BY StreamAssumption DEF AccountInv, TypeOK
  <2>2. [m \in Jobs \ {n} |-> held[m][w]] = [m \in Jobs \ {n} |-> f[m]]
    OBVIOUS
  <2>3. Total(f) = Load(w) /\ f[n] = held[n][w]
    BY DEF Load
  <2> HIDE DEF f
  <2>4. Total([m \in Jobs \ {n} |-> f[m]]) = Total(f) - f[n]
    BY <2>1, TotalWithout
  <2> QED BY <2>2, <2>3, <2>4, FreeIsExact
<1>2. Abstract!Room(n) = [w \in Workers |-> cap[w] - Total([m \in Jobs \ {n} |-> held[m][w]])]
  BY SameTotal DEF Abstract!Room
<1>3. FreeCapacity(Released(n)) = [w \in Workers |-> FreeCapacity(Released(n))[w]]
  BY DEF FreeCapacity
<1> HIDE DEF FreeCapacity
<1> QED BY <1>1, <1>2, <1>3

\* A job that gets what the algorithm hands out is placed.
LEMMA PlanIsPlaced ==
    ASSUME AccountInv, NEW n \in Jobs, NEW c \in Nat,
           Coverable(FreeCapacity(Released(n)), c),
           held' = [held EXCEPT ![n] = Allocation(FreeCapacity(Released(n)), c)],
           jobs' = jobs \cup {n}, cap' = cap
    PROVE  Abstract!Place(n, c)
<1> DEFINE free == FreeCapacity(Released(n))
           plan == Allocation(free, c)
<1>1. free \in [Workers -> Nat]
  BY ReleasedType, FreeCapacityType DEF AccountInv
<1>2. /\ plan \in [Workers -> 0..c]
      /\ Total(plan) = c
      /\ \A w \in Workers : plan[w] <= free[w]
      /\ \A v, w \in Workers : plan[v] + 1 < plan[w] => plan[v] = free[v]
  <2>1. Workers \in SUBSET Nat /\ IsFiniteSet(Workers) /\ Coverable(free, c)
    BY StreamAssumption
  <2> HIDE DEF free
  <2> QED BY <1>1, <2>1, AllocationIsPlacement
<1>3. Abstract!Room(n) = free
  BY RoomIsFree
<1>4. held' = [held EXCEPT ![n] = plan]
  OBVIOUS
<1> HIDE DEF plan, free
<1>5. held'[n] = plan
  BY <1>4 DEF AccountInv, TypeOK
<1>6. plan \in Abstract!Placements(free, c)
  BY <1>2, SameTotal DEF Abstract!Placements
<1> QED BY <1>3, <1>4, <1>5, <1>6 DEF Abstract!Place

\* The steps of the ocean that the reservation system does not see.
LEMMA ReservationFrame ==
    ASSUME NEW s \in Streams,
           Environment \/ Sender(s) \/ OnReport(s) \/ OnSample(s) \/ Refuse(s)
           \/ (\E n \in Jobs : Pause(n)) \/ UNCHANGED vars
    PROVE  UNCHANGED <<cap, jobs, held>>
BY BooksFrame, AssignmentFrame

LEMMA ReservationClient ==
    ASSUME ReservationInv, ClientRequest
    PROVE  Abstract!Next \/ UNCHANGED <<cap, jobs, held>>
<1>1. PICK n \in Jobs :
        \/ \E c \in Requests : Start(n, c)
        \/ Stop(n)
        \/ Pause(n)
        \/ \E c \in Requests \cup {conc[n]} : Resume(n, c) \/ ResumeRejected(n, c)
  BY DEF ClientRequest
<1>2. AccountInv
  BY DEF ReservationInv
<1>3. ASSUME NEW c \in Requests, Start(n, c) PROVE Abstract!Next
  <2>1. Released(n) = used
    BY <1>2, <1>3, NothingToRelease DEF Start
  <2>2. /\ Coverable(FreeCapacity(used), c)
        /\ held' = [held EXCEPT ![n] = Allocation(FreeCapacity(used), c)]
        /\ jobs' = jobs \cup {n}
        /\ cap' = cap
    BY <1>3 DEF Start
  <2>3. Abstract!Place(n, c)
    BY <1>2, <2>1, <2>2, PlanIsPlaced, OceanAssumption
  <2> QED BY <2>3 DEF Abstract!Next
<1>4. CASE Stop(n)
  <2>1. Abstract!Release(n)
    BY <1>4 DEF Stop, Abstract!Release, Nothing, Abstract!Nothing
  <2> QED BY <2>1 DEF Abstract!Next
<1>5. CASE Pause(n)
  BY <1>5 DEF Pause
<1>6. ASSUME NEW c \in Requests \cup {conc[n]}, Resume(n, c)
      PROVE  Abstract!Next \/ UNCHANGED <<cap, jobs, held>>
  <2>1. n \in jobs /\ c \in Requests /\ c \in Nat
    BY <1>6, OceanAssumption DEF Resume, ResumeAllowed, ReservationInv, AskedFor
  <2>2. CASE Reallocates(n, c)
    <3>1. /\ Coverable(FreeCapacity(Released(n)), c)
          /\ held' = [held EXCEPT ![n] = Allocation(FreeCapacity(Released(n)), c)]
          /\ jobs' = jobs \cup {n}
          /\ cap' = cap
      BY <1>6, <2>1, <2>2 DEF Resume
    <3>2. Abstract!Place(n, c)
      BY <1>2, <2>1, <3>1, PlanIsPlaced
    <3> QED BY <2>1, <3>2 DEF Abstract!Next
  <2>3. CASE ~Reallocates(n, c)
    <3>1. held' = [held EXCEPT ![n] = held[n]] /\ UNCHANGED <<cap, jobs>>
      BY <1>6, <2>3 DEF Resume
    <3> QED BY <1>2, <3>1 DEF AccountInv, TypeOK
  <2> QED BY <2>2, <2>3
<1>7. ASSUME NEW c \in Requests \cup {conc[n]}, ResumeRejected(n, c)
      PROVE  UNCHANGED <<cap, jobs, held>>
  BY <1>7 DEF ResumeRejected, jobVars
<1> QED BY <1>1, <1>3, <1>4, <1>5, <1>6, <1>7

LEMMA ReservationJoin ==
    ASSUME OneStreamEach, ReservationInv, NEW s \in Streams, Join(s)
    PROVE  Abstract!Next
<1>1. Owner(s) \in Workers /\ \A n \in Jobs : held[n][Owner(s)] = 0
  BY JoinerIsNew, OwnerType DEF ReservationInv
<1>2. Head(toOcean[s]).cap \in Caps
  <2>1. toOcean[s] \in Seq(WorkerMessage) /\ toOcean[s] # <<>>
    BY DEF ReservationInv, AccountInv, TypeOK, StreamTypeOK, Join
  <2>2. 1 \in 1..Len(toOcean[s]) /\ Head(toOcean[s]) = toOcean[s][1]
    BY <2>1
  <2> QED BY <2>2 DEF ReservationInv, OfferedCaps, Join
<1>3. Abstract!Attach(Owner(s), Head(toOcean[s]).cap)
  BY <1>1 DEF Join, Abstract!Attach, jobVars
<1> QED BY <1>1, <1>2, <1>3 DEF Abstract!Next

LEMMA ReservationLeave ==
    ASSUME NEW s \in Streams, Leave(s)
    PROVE  Abstract!Next
<1>1. Abstract!Detach(Owner(s))
  BY DEF Leave, Unregister, DetachJobs, Abstract!Detach
<1> QED BY <1>1, OwnerType DEF Abstract!Next

LEMMA ReservationCrash == ASSUME OceanCrash PROVE Abstract!Next
<1>1. Abstract!Collapse
  BY DEF OceanCrash, Abstract!Collapse, Nothing, Abstract!Nothing
<1> QED BY <1>1 DEF Abstract!Next

\* Every step of the ocean is a step of the reservation system or invisible to it.
LEMMA ReservationStep ==
    OneStreamEach /\ ReservationInv /\ [Next]_vars => [Abstract!Next]_(Abstract!vars)
<1> SUFFICES ASSUME OneStreamEach, ReservationInv, [Next]_vars
             PROVE  Abstract!Next \/ UNCHANGED <<cap, jobs, held>>
  BY DEF Abstract!vars
<1>1. CASE OceanCrash
  BY <1>1, ReservationCrash
<1>2. CASE ClientRequest
  BY <1>2, ReservationClient
<1>3. CASE Streams # {}
  <2>1. PICK s \in Streams :
              \/ Join(s) \/ Leave(s) \/ OceanCrash
              \/ ClientRequest \/ Environment \/ Sender(s) \/ OnReport(s) \/ OnSample(s)
              \/ Refuse(s) \/ UNCHANGED vars
    BY <1>3, StepCases
  <2> QED BY <1>1, <1>2, <2>1, ReservationJoin, ReservationLeave, ReservationFrame
<1>4. CASE Streams = {}
  <2>1. Environment => FALSE
    BY <1>4 DEF Environment
  <2>2. UNCHANGED vars => UNCHANGED <<cap, jobs, held>>
    BY DEF vars, oceanVars, registryVars, jobVars
  <2> QED BY <1>1, <1>2, <1>4, <2>1, <2>2 DEF Next, OceanStep
<1> QED BY <1>3, <1>4

\* Registrations are only ever made by EnvDial.
LEMMA OfferedStream ==
    ASSUME TypeOK, OfferedCaps, NEW s \in Streams
    PROVE  /\ TakeUp(s) \/ EndRPC(s) => OfferedCaps'
           /\ \A c \in Caps : Dial(s, c) => OfferedCaps'
           /\ \A n \in Jobs, v \in ReportKinds : PutUp(s, Report(n, v)) => OfferedCaps'
<1> DEFINE Offered(q) == \A i \in 1..Len(q) : q[i].type = "register" => q[i].cap \in Caps
<1>1. /\ \A t \in Streams : Offered(toOcean[t]) /\ toOcean[t] \in Seq(WorkerMessage)
      /\ toOcean = [t \in Streams |-> toOcean[t]]
  BY DEF OfferedCaps, TypeOK, StreamTypeOK
<1>2. (\A t \in Streams : Offered(toOcean'[t])) => OfferedCaps'
  BY DEF OfferedCaps
<1>3. ASSUME NEW q, toOcean' = [toOcean EXCEPT ![s] = q], Offered(q) PROVE OfferedCaps'
  <2> HIDE DEF Offered
  <2> QED BY <1>1, <1>2, <1>3
<1>4. ASSUME TakeUp(s) PROVE OfferedCaps'
  <2>1. Offered(Tail(toOcean[s]))
    <3> SUFFICES ASSUME NEW i \in 1..Len(Tail(toOcean[s])), Tail(toOcean[s])[i].type = "register"
                 PROVE  Tail(toOcean[s])[i].cap \in Caps
      OBVIOUS
    <3>1. toOcean[s] # <<>> /\ toOcean[s] \in Seq(WorkerMessage)
      BY <1>1, <1>4 DEF TakeUp
    <3>2. i + 1 \in 1..Len(toOcean[s]) /\ Tail(toOcean[s])[i] = toOcean[s][i + 1]
      BY <3>1
    <3> QED BY <1>1, <3>2
  <2> QED BY <1>3, <1>4, <2>1 DEF TakeUp
<1>5. ASSUME EndRPC(s) PROVE OfferedCaps'
  <2>1. Offered(<<>>)
    OBVIOUS
  <2> QED BY <1>3, <1>5, <2>1 DEF EndRPC
<1>6. ASSUME NEW c \in Caps, Dial(s, c) PROVE OfferedCaps'
  <2>1. Offered(<<Register(c)>>)
    BY DEF Register
  <2> QED BY <1>3, <1>6, <2>1 DEF Dial
<1>7. ASSUME NEW n \in Jobs, NEW v \in ReportKinds, PutUp(s, Report(n, v)) PROVE OfferedCaps'
  <2> DEFINE m == Report(n, v)
             q == Append(toOcean[s], m)
  <2>1. m.type = "report" /\ toOcean[s] \in Seq(WorkerMessage) /\ m \in WorkerMessage
    BY <1>1, StreamAssumption DEF Report, WorkerMessage
  <2>2. toOcean' = [toOcean EXCEPT ![s] = q]
    BY <1>7 DEF PutUp
  <2>3. Offered(toOcean[s])
    BY <1>1
  <2> HIDE DEF m
  <2>4. Offered(q)
    <3> SUFFICES ASSUME NEW i \in 1..Len(q), q[i].type = "register" PROVE q[i].cap \in Caps
      OBVIOUS
    <3>1. i \in 1..Len(toOcean[s]) /\ q[i] = toOcean[s][i]
      BY <2>1
    <3> QED BY <2>3, <3>1
  <2> HIDE DEF q
  <2> QED BY <1>3, <2>2, <2>4
<1> QED BY <1>4, <1>5, <1>6, <1>7

LEMMA OfferedStep == TypeOK /\ OfferedCaps /\ [Next]_vars => OfferedCaps'
<1> SUFFICES ASSUME TypeOK, OfferedCaps, [Next]_vars PROVE OfferedCaps'
  OBVIOUS
<1>1. CASE toOcean' = toOcean
  BY <1>1 DEF OfferedCaps
<1>2. CASE OceanCrash
  BY <1>2 DEF OceanCrash, OfferedCaps
<1>3. CASE ClientRequest
  <2>1. toOcean' = toOcean
    BY <1>3 DEF ClientRequest, Start, Stop, Pause, Resume, ResumeRejected, streamVars
  <2> QED BY <1>1, <2>1
<1>4. ASSUME NEW s \in Streams, Receiver(s) PROVE OfferedCaps'
  <2>1. TakeUp(s) \/ EndRPC(s) \/ toOcean' = toOcean
    BY <1>4 DEF Receiver, Join, Refuse, OnReport, OnSample, Leave, streamVars
  <2> QED BY <1>1, <2>1, OfferedStream
<1>5. ASSUME NEW s \in Streams, Sender(s) PROVE OfferedCaps'
  <2>1. toOcean' = toOcean
    BY <1>5 DEF Sender, Deliver, SenderExits, PutDown, streamVars
  <2> QED BY <1>1, <2>1
<1>6. ASSUME Environment PROVE OfferedCaps'
  <2>1. PICK s \in Streams : EnvDial(s) \/ EnvReport(s) \/ TakeDown(s) \/ Cut(s)
    BY <1>6 DEF Environment
  <2>2. CASE EnvDial(s)
    BY <2>2, OfferedStream DEF EnvDial
  <2>3. CASE EnvReport(s)
    BY <2>3, OfferedStream DEF EnvReport
  <2>4. CASE TakeDown(s) \/ Cut(s)
    BY <1>1, <2>4 DEF TakeDown, Cut
  <2> QED BY <2>1, <2>2, <2>3, <2>4
<1>7. CASE UNCHANGED vars
  BY <1>1, <1>7 DEF vars, streamVars
<1> QED BY <1>2, <1>3, <1>4, <1>5, <1>6, <1>7 DEF Next, OceanStep

LEMMA AskedStep == TypeOK /\ AskedFor /\ [Next]_vars => AskedFor'
<1> SUFFICES ASSUME TypeOK, AskedFor, [Next]_vars PROVE AskedFor'
  OBVIOUS
<1>1. CASE UNCHANGED <<jobs, conc>>
  BY <1>1 DEF AskedFor
<1>2. CASE OceanCrash
  BY <1>2 DEF OceanCrash, AskedFor
<1>3. CASE ClientRequest
  <2>1. ASSUME NEW n \in Jobs, NEW c \in Requests, Start(n, c) PROVE AskedFor'
    <3>1. jobs' = jobs \cup {n} /\ conc' = [conc EXCEPT ![n] = c]
      BY <2>1 DEF Start
    <3> QED BY <3>1 DEF AskedFor, TypeOK
  <2>2. ASSUME NEW n \in Jobs, Stop(n) PROVE AskedFor'
    <3>1. jobs' = jobs \ {n} /\ conc' = [conc EXCEPT ![n] = 0]
      BY <2>2 DEF Stop
    <3> QED BY <3>1 DEF AskedFor, TypeOK
  <2>3. ASSUME NEW n \in Jobs, NEW c \in Requests \cup {conc[n]}, Resume(n, c) PROVE AskedFor'
    <3>1. n \in jobs /\ jobs' = jobs /\ conc' = [conc EXCEPT ![n] = c]
      BY <2>3 DEF Resume, ResumeAllowed
    <3>2. c \in Requests
      BY <3>1 DEF AskedFor
    <3> QED BY <3>1, <3>2 DEF AskedFor, TypeOK
  <2>4. ASSUME NEW n \in Jobs,
               Pause(n) \/ \E c \in Requests \cup {conc[n]} : ResumeRejected(n, c)
        PROVE  AskedFor'
    BY <1>1, <2>4 DEF Pause, ResumeRejected, jobVars
  <2> QED BY <1>3, <2>1, <2>2, <2>3, <2>4 DEF ClientRequest
<1>4. ASSUME NEW s \in Streams, Receiver(s) \/ Sender(s) PROVE AskedFor'
  BY <1>1, <1>4 DEF Receiver, Join, Refuse, OnReport, OnSample, Leave, Sender, Deliver, SenderExits,
                    oceanVars, jobVars
<1>5. CASE Environment \/ UNCHANGED vars
  BY <1>1, <1>5 DEF Environment, vars, oceanVars, jobVars
<1> QED BY <1>2, <1>3, <1>4, <1>5 DEF Next, OceanStep

\* The ocean implements the reservation system (Reservation.tla), which has no
\* used counters and reserves out of what the other reservations leave: every
\* Start and every Resume with another concurrency places it in full and
\* evenly or not at all (services.go:118-179, 537-736), and only the loss of a worker
\* takes a part of it away (client.go:106-119).
THEOREM OceanImplementsReservation == ASSUME OneStreamEach PROVE Spec => ImplementsReservation
<1>1. Init => Abstract!Init
  BY DEF Init, OceanInit, Abstract!Init, Nothing, Abstract!Nothing
<1>2. Init => ReservationInv
  BY AccountInit DEF Init, StreamInit, OceanInit, ReservationInv, OfferedCaps, AskedFor
<1>3. ReservationInv /\ [Next]_vars => ReservationInv'
  BY AccountStep, OfferedStep, AskedStep DEF ReservationInv, AccountInv
<1>4. ReservationInv /\ [Next]_vars => [Abstract!Next]_(Abstract!vars)
  BY ReservationStep
<1> QED BY <1>1, <1>2, <1>3, <1>4, PTL DEF Spec, ImplementsReservation, Abstract!Spec

-----------------------------------------------------------------------------
(* What is left of the accounting when streams overlap.  A worker that     *)
(* redials early gets a new entry with a counter of zero while the tests   *)
(* keep what they have assigned to it, so counters may be too low, and     *)
(* clamps bite.  They are never too high: capacity is never lost.          *)

\* The invariant.
LeakInv == TypeOK /\ AssignedAreAttached /\ NeverTooHigh

\* What is left after n has given back is not more than the other jobs have.
LEMMA ReleasedIsCovered ==
    ASSUME LeakInv, NEW n \in Jobs, NEW w \in Workers
    PROVE  /\ Released(n)[w] \in Nat /\ Load(w) \in Nat /\ held[n][w] \in Nat
           /\ Released(n)[w] <= Load(w) - held[n][w]
<1>1. /\ Load(w) \in Nat /\ held[n][w] \in Nat /\ held[n][w] <= Load(w)
      /\ used[w] \in Nat /\ used[w] <= Load(w)
  BY LoadType DEF LeakInv, TypeOK, NeverTooHigh
<1>2. Released(n)[w] \in Nat
  BY ReleasedType DEF LeakInv
<1>3. CASE w \in Attached
  BY <1>1, <1>2, <1>3 DEF Released, AtLeastZero
<1>4. CASE w \notin Attached
  <2>1. held[n][w] = 0 /\ Released(n)[w] = used[w]
    BY <1>4, NothingElsewhere DEF LeakInv, Released
  <2> QED BY <1>1, <1>2, <2>1
<1> QED BY <1>3, <1>4

\* A job's new plan is counted in full, and what it had is at least released.
LEMMA CoveredAfterPlan ==
    ASSUME LeakInv, NEW n \in Jobs, NEW plan \in [Workers -> Nat],
           held' = [held EXCEPT ![n] = plan], used' = Reserved(Released(n), plan)
    PROVE  NeverTooHigh'
<1> SUFFICES ASSUME NEW w \in Workers PROVE used'[w] <= Load(w)'
  BY DEF NeverTooHigh, Load
<1>1. Load(w)' = Load(w) - held[n][w] + plan[w]
  BY LoadUpdate DEF LeakInv
<1>2. /\ Released(n)[w] \in Nat /\ Load(w) \in Nat /\ held[n][w] \in Nat
      /\ Released(n)[w] <= Load(w) - held[n][w]
  BY ReleasedIsCovered
<1>3. used'[w] = Released(n)[w] + plan[w] /\ plan[w] \in Nat
  BY DEF Reserved
<1> QED BY <1>1, <1>2, <1>3

\* Start: a job that is not there has nothing to give back.
LEMMA CoveredStart ==
    ASSUME LeakInv, NEW n \in Jobs, NEW c \in Nat, Start(n, c)
    PROVE  NeverTooHigh'
<1> DEFINE plan == Allocation(FreeCapacity(used), c)
<1>1. plan \in [Workers -> Nat]
  BY PlanType DEF LeakInv, TypeOK
<1>2. Released(n) = used
  <2>1. \A w \in Workers : Released(n)[w] = used[w]
    <3>1. \A w \in Workers : held[n][w] = 0 /\ used[w] \in Nat
      BY NothingElsewhere DEF Start, LeakInv, TypeOK
    <3> QED BY <3>1 DEF Released, AtLeastZero
  <2>2. Released(n) \in [Workers -> Nat] /\ used \in [Workers -> Nat]
    BY ReleasedType DEF LeakInv, TypeOK
  <2> QED BY <2>1, <2>2
<1>3. held' = [held EXCEPT ![n] = plan] /\ used' = Reserved(used, plan)
  BY DEF Start
<1> HIDE DEF plan
<1> QED BY <1>1, <1>2, <1>3, CoveredAfterPlan

\* Stop: the new plan is nothing.
LEMMA CoveredStop ==
    ASSUME LeakInv, NEW n \in Jobs, Stop(n)
    PROVE  NeverTooHigh'
<1>1. Nothing \in [Workers -> Nat] /\ \A w \in Workers : Nothing[w] = 0
  BY DEF Nothing
<1>2. Released(n) \in [Workers -> Nat]
  BY ReleasedType DEF LeakInv
<1>3. Released(n) = Reserved(Released(n), Nothing)
  BY <1>1, <1>2 DEF Reserved
<1>4. held' = [held EXCEPT ![n] = Nothing] /\ used' = Released(n)
  BY DEF Stop
<1> QED BY <1>1, <1>3, <1>4, CoveredAfterPlan

\* Resume: another plan, or the one it has.
LEMMA CoveredResume ==
    ASSUME LeakInv, NEW n \in Jobs, NEW c \in Nat, Resume(n, c)
    PROVE  NeverTooHigh'
<1>1. CASE Reallocates(n, c)
  <2> DEFINE plan == Allocation(FreeCapacity(Released(n)), c)
  <2>1. plan \in [Workers -> Nat]
    BY PlanType, ReleasedType DEF LeakInv
  <2>2. held' = [held EXCEPT ![n] = plan] /\ used' = Reserved(Released(n), plan)
    BY <1>1 DEF Resume
  <2> HIDE DEF plan
  <2> QED BY <2>1, <2>2, CoveredAfterPlan
<1>2. CASE ~Reallocates(n, c)
  <2>1. held' = [held EXCEPT ![n] = held[n]] /\ used' = used
    BY <1>2 DEF Resume
  <2>2. held' = held
    BY <2>1 DEF LeakInv, TypeOK
  <2> QED BY <2>1, <2>2 DEF LeakInv, NeverTooHigh, Load
<1> QED BY <1>1, <1>2

\* A rejected Resume puts back what its job has, perhaps more than it has taken out.
LEMMA CoveredRejected ==
    ASSUME LeakInv, NEW n \in Jobs, NEW c, ResumeRejected(n, c)
    PROVE  NeverTooHigh'
<1> SUFFICES ASSUME NEW w \in Workers PROVE used'[w] <= Load(w)'
  BY DEF NeverTooHigh, Load
<1>1. /\ used' = [v \in Workers |-> IF v \in Attached THEN Released(n)[v] + held[n][v] ELSE used[v]]
      /\ held' = held
  BY DEF ResumeRejected, jobVars
<1>2. Load(w)' = Load(w)
  BY <1>1 DEF Load
<1>3. used'[w] = Released(n)[w] + held[n][w] \/ used'[w] = used[w]
  BY <1>1
<1>4. /\ Released(n)[w] \in Nat /\ Load(w) \in Nat /\ held[n][w] \in Nat
      /\ Released(n)[w] <= Load(w) - held[n][w]
  BY ReleasedIsCovered
<1>5. used[w] <= Load(w)
  BY DEF LeakInv, NeverTooHigh
<1> QED BY <1>2, <1>3, <1>4, <1>5

\* A new entry's counter is zero, and so is that of a worker that is gone.
LEMMA CoveredEntry ==
    ASSUME LeakInv, NEW v \in Workers, TypeOK', used' = [used EXCEPT ![v] = 0],
           \A n \in Jobs : \A w \in Workers \ {v} : held'[n][w] = held[n][w]
    PROVE  NeverTooHigh'
<1> SUFFICES ASSUME NEW w \in Workers PROVE used'[w] <= Load(w)'
  BY DEF NeverTooHigh, Load
<1>1. CASE w = v
  <2>1. (\A u \in Workers : Load(u) \in Nat)'
    <3>1. ASSUME NEW u \in Workers PROVE [n \in Jobs |-> held'[n][u]] \in [Jobs -> Nat]
      BY DEF TypeOK
    <3> QED BY <3>1, TotalType, StreamAssumption DEF Load
  <2>2. used'[w] = 0
    BY <1>1 DEF LeakInv, TypeOK
  <2> QED BY <2>1, <2>2
<1>2. CASE w # v
  <2>1. [n \in Jobs |-> held'[n][w]] = [n \in Jobs |-> held[n][w]]
    BY <1>2
  <2>2. Load(w)' = Load(w)
    BY <2>1 DEF Load
  <2>3. used'[w] = used[w] /\ used[w] <= Load(w)
    BY <1>2 DEF LeakInv, TypeOK, NeverTooHigh
  <2> QED BY <2>2, <2>3
<1> QED BY <1>1, <1>2

\* No step makes a counter too high.
LEMMA CoveredStep == LeakInv /\ [Next]_vars => NeverTooHigh'
<1> SUFFICES ASSUME LeakInv, [Next]_vars PROVE NeverTooHigh'
  OBVIOUS
<1>0. TypeOK /\ TypeOK'
  BY TypeNext DEF LeakInv
<1>1. CASE UNCHANGED <<held, used>>
  BY <1>1 DEF LeakInv, NeverTooHigh, Load
<1>2. CASE OceanCrash
  BY <1>2, BooksCrash, <1>0 DEF ExactAccounting, NeverTooHigh, TypeOK
<1>3. CASE ClientRequest
  <2>1. ASSUME NEW n \in Jobs, NEW c \in Requests, Start(n, c) PROVE NeverTooHigh'
    BY <2>1, CoveredStart, OceanAssumption
  <2>2. ASSUME NEW n \in Jobs, Stop(n) PROVE NeverTooHigh'
    BY <2>2, CoveredStop
  <2>3. ASSUME NEW n \in Jobs, NEW c \in Requests \cup {conc[n]}, Resume(n, c) PROVE NeverTooHigh'
    BY <1>0, <2>3, RequestType, CoveredResume
  <2>4. ASSUME NEW n \in Jobs, NEW c \in Requests \cup {conc[n]}, ResumeRejected(n, c)
        PROVE  NeverTooHigh'
    BY <2>4, CoveredRejected
  <2>5. ASSUME NEW n \in Jobs, Pause(n) PROVE NeverTooHigh'
    BY <1>1, <2>5 DEF Pause
  <2> QED BY <1>3, <2>1, <2>2, <2>3, <2>4, <2>5 DEF ClientRequest
<1>4. ASSUME NEW s \in Streams, Join(s) PROVE NeverTooHigh'
  <2>1. used' = [used EXCEPT ![Owner(s)] = 0] /\ held' = held /\ Owner(s) \in Workers
    BY <1>4, OwnerType DEF Join, jobVars
  <2> QED BY <1>0, <2>1, CoveredEntry
<1>5. ASSUME NEW s \in Streams, Leave(s) PROVE NeverTooHigh'
  <2>1. /\ used' = [used EXCEPT ![Owner(s)] = 0] /\ Owner(s) \in Workers
        /\ held' = [n \in Jobs |-> [held[n] EXCEPT ![Owner(s)] = 0]]
    BY <1>5, OwnerType DEF Leave, Unregister, DetachJobs
  <2>2. \A n \in Jobs : \A w \in Workers \ {Owner(s)} : held'[n][w] = held[n][w]
    BY <1>0, <2>1 DEF TypeOK
  <2> QED BY <1>0, <2>1, <2>2, CoveredEntry
<1>6. CASE Streams = {}
  BY <1>6, EveryoneHasStreams DEF NeverTooHigh
<1>7. CASE Streams # {}
  <2>1. PICK s \in Streams :
              \/ Join(s) \/ Leave(s) \/ OceanCrash
              \/ ClientRequest \/ Environment \/ Sender(s) \/ OnReport(s) \/ OnSample(s)
              \/ Refuse(s) \/ UNCHANGED vars
    BY <1>7, StepCases
  <2> QED BY <1>1, <1>2, <1>3, <1>4, <1>5, <2>1, BooksFrame
<1> QED BY <1>6, <1>7

\* However streams of one worker overlap, are replaced and leave, a worker's
\* counter is never higher than what the tests hold on it: Start, Stop, Resume
\* and a rejected Resume (services.go:537-736) never lose capacity, and when no test is
\* there all of it is free again.
THEOREM CapacityIsNeverLost == Spec => [](NeverTooHigh /\ (jobs = {} => used = Nothing))
<1>1. Init => LeakInv
  <2> SUFFICES ASSUME Init PROVE LeakInv
    OBVIOUS
  <2>1. TypeOK /\ AssignedAreAttached /\ ExactAccounting
    BY AccountInit DEF AccountInv
  <2> QED BY <2>1 DEF LeakInv, NeverTooHigh, ExactAccounting, TypeOK
<1>2. LeakInv /\ [Next]_vars => LeakInv'
  BY CoveredStep, TypeNext, AssignmentsStep DEF LeakInv
<1>3. ASSUME LeakInv, jobs = {} PROVE used = Nothing
  <2>1. ASSUME NEW w \in Workers PROVE used[w] = 0
    <3>1. \A n \in Jobs : held[n][w] = 0
      BY <1>3, NothingElsewhere DEF LeakInv
    <3>2. Load(w) = 0
      BY <3>1, LoadOfNothing
    <3> QED BY <1>3, <3>2 DEF LeakInv, NeverTooHigh, TypeOK
  <2> QED BY <1>3, <2>1 DEF LeakInv, TypeOK, Nothing
<1>4. LeakInv => NeverTooHigh /\ (jobs = {} => used = Nothing)
  BY <1>3 DEF LeakInv
<1> QED BY <1>1, <1>2, <1>4, PTL DEF Spec

\* A number of units that some worker offered when it registered, or fewer.
Offered(k) == k = 0 \/ \E c \in Caps : k <= c

\* Every worker registers as many; nothing is counted or assigned beyond that.
BoundInv ==
    /\ LeakInv
    /\ OfferedCaps
    /\ \A w \in Attached : cap[w] \in Caps
    /\ \A w \in Workers : Offered(used[w])
    /\ \A n \in Jobs, w \in Workers : Offered(held[n][w])

\* What is less than an offered number is one.
LEMMA OfferedLess ==
    ASSUME NEW k \in Nat, NEW l \in Nat, l <= k, Offered(k)
    PROVE  Offered(l)
BY OceanAssumption DEF Offered

\* A plan on top of what is counted stays within what the worker offered.
LEMMA PlanIsOffered ==
    ASSUME BoundInv, NEW u \in [Workers -> Nat], \A w \in Workers : Offered(u[w]),
           NEW c \in Nat, NEW w \in Workers
    PROVE  /\ Offered(Allocation(FreeCapacity(u), c)[w])
           /\ Offered(Reserved(u, Allocation(FreeCapacity(u), c))[w])
<1> DEFINE free == FreeCapacity(u)
           plan == Allocation(free, c)
<1>1. free \in [Workers -> Nat]
  BY FreeCapacityType DEF BoundInv, LeakInv
<1>2. free[w] = IF w \in Attached THEN AtLeastZero(cap[w] - u[w]) ELSE 0
  BY DEF FreeCapacity
<1> HIDE DEF free
<1>3. plan \in [Workers -> Nat] /\ plan[w] <= free[w]
  BY <1>1, AllocationCapped
<1> HIDE DEF plan
<1> DEFINE p == plan[w]
           k == u[w]
           r == Reserved(u, plan)[w]
<1>4. r = k + p /\ k \in Nat /\ p \in Nat /\ Offered(k) /\ p <= free[w]
  BY <1>3 DEF Reserved
<1>7. free[w] = IF w \in Attached THEN AtLeastZero(cap[w] - k) ELSE 0
  BY <1>2
<1> HIDE DEF p, k, r
<1>8. ASSUME NEW l \in Nat, NEW m \in Caps, l <= m PROVE Offered(l)
  BY <1>8 DEF Offered
<1>5. ASSUME p = 0 PROVE Offered(p) /\ Offered(r)
  <2>1. r = k
    BY <1>4, <1>5
  <2>2. Offered(p)
    BY <1>5 DEF Offered
  <2> QED BY <1>4, <2>1, <2>2
<1>6. ASSUME p # 0 PROVE Offered(p) /\ Offered(r)
  <2>1. w \in Attached /\ cap[w] \in Caps /\ cap[w] \in Nat
    BY <1>4, <1>6, <1>7 DEF BoundInv, LeakInv, TypeOK
  <2>2. k + p <= cap[w]
    BY <1>4, <1>6, <1>7, <2>1 DEF AtLeastZero
  <2>3. r \in Nat /\ r <= cap[w] /\ p <= cap[w]
    BY <1>4, <2>1, <2>2
  <2> QED BY <1>4, <1>8, <2>1, <2>3
<1> QED BY <1>5, <1>6 DEF p, r, plan, free

\* What a job gives back leaves an offered number.
LEMMA ReleasedIsOffered ==
    ASSUME BoundInv, NEW n \in Jobs
    PROVE  Released(n) \in [Workers -> Nat] /\ \A w \in Workers : Offered(Released(n)[w])
<1>1. Released(n) \in [Workers -> Nat]
  BY ReleasedType DEF BoundInv, LeakInv
<1>2. ASSUME NEW w \in Workers PROVE Offered(Released(n)[w])
  <2>1. used[w] \in Nat /\ held[n][w] \in Nat /\ Released(n)[w] \in Nat
    BY <1>1 DEF BoundInv, LeakInv, TypeOK
  <2>2. Released(n)[w] <= used[w]
    BY <2>1 DEF Released, AtLeastZero
  <2>3. Offered(used[w])
    BY DEF BoundInv
  <2> QED BY <2>1, <2>2, <2>3, OfferedLess
<1> QED BY <1>1, <1>2

\* One job's assignments are replaced.
LEMMA HeldIsOffered ==
    ASSUME BoundInv, NEW n \in Jobs, NEW plan, held' = [held EXCEPT ![n] = plan],
           \A w \in Workers : Offered(plan[w])
    PROVE  \A m \in Jobs, w \in Workers : Offered(held'[m][w])
BY DEF BoundInv, LeakInv, TypeOK

\* The requests of clients.
LEMMA BoundClient ==
    ASSUME BoundInv, ClientRequest
    PROVE  /\ \A w \in Workers : Offered(used'[w])
           /\ \A n \in Jobs, w \in Workers : Offered(held'[n][w])
<1> DEFINE Kept == /\ \A w \in Workers : Offered(used'[w])
                   /\ \A n \in Jobs, w \in Workers : Offered(held'[n][w])
<1>0. TypeOK /\ LeakInv /\ used \in [Workers -> Nat] /\ (\A w \in Workers : Offered(used[w]))
      /\ \A n \in Jobs, w \in Workers : Offered(held[n][w])
  BY DEF BoundInv, LeakInv, TypeOK
<1>1. ASSUME NEW n \in Jobs, NEW c \in Requests, Start(n, c) PROVE Kept
  <2> DEFINE plan == Allocation(FreeCapacity(used), c)
  <2>1. c \in Nat
    BY OceanAssumption
  <2>2. \A w \in Workers : Offered(plan[w]) /\ Offered(Reserved(used, plan)[w])
    BY <1>0, <2>1, PlanIsOffered
  <2>3. held' = [held EXCEPT ![n] = plan] /\ used' = Reserved(used, plan)
    BY <1>1 DEF Start
  <2> HIDE DEF plan
  <2> QED BY <2>2, <2>3, HeldIsOffered
<1>2. ASSUME NEW n \in Jobs, Stop(n) PROVE Kept
  <2>1. held' = [held EXCEPT ![n] = Nothing] /\ used' = Released(n)
    BY <1>2 DEF Stop
  <2>2. \A w \in Workers : Offered(Nothing[w])
    BY DEF Nothing, Offered
  <2> QED BY <2>1, <2>2, HeldIsOffered, ReleasedIsOffered
<1>3. ASSUME NEW n \in Jobs, NEW c \in Requests \cup {conc[n]}, Resume(n, c) PROVE Kept
  <2>1. CASE Reallocates(n, c)
    <3> DEFINE r == Released(n)
               plan == Allocation(FreeCapacity(r), c)
    <3>1. c \in Nat
      BY <1>0, RequestType
    <3>2. held' = [held EXCEPT ![n] = plan] /\ used' = Reserved(r, plan)
      BY <1>3, <2>1 DEF Resume
    <3>3. r \in [Workers -> Nat] /\ \A w \in Workers : Offered(r[w])
      BY ReleasedIsOffered
    <3> HIDE DEF r
    <3>4. \A w \in Workers : Offered(plan[w]) /\ Offered(Reserved(r, plan)[w])
      BY <3>1, <3>3, PlanIsOffered
    <3> HIDE DEF plan
    <3> QED BY <3>2, <3>4, HeldIsOffered
  <2>2. CASE ~Reallocates(n, c)
    <3>1. held' = [held EXCEPT ![n] = held[n]] /\ used' = used
      BY <1>3, <2>2 DEF Resume
    <3>2. held' = held
      BY <1>0, <3>1 DEF TypeOK
    <3> QED BY <1>0, <3>1, <3>2
  <2> QED BY <2>1, <2>2
<1>4. ASSUME NEW n \in Jobs, NEW c \in Requests \cup {conc[n]}, ResumeRejected(n, c) PROVE Kept
  <2>1. /\ used' = [w \in Workers |-> IF w \in Attached THEN Released(n)[w] + held[n][w] ELSE used[w]]
        /\ held' = held
    BY <1>4 DEF ResumeRejected, jobVars
  <2>2. ASSUME NEW w \in Workers PROVE used'[w] = used[w] \/ used'[w] = held[n][w]
    <3>1. used[w] \in Nat /\ held[n][w] \in Nat
      BY <1>0 DEF TypeOK
    <3>2. CASE w \in Attached
      <4>1. used'[w] = AtLeastZero(used[w] - held[n][w]) + held[n][w]
        BY <2>1, <3>2 DEF Released
      <4> QED BY <3>1, <4>1 DEF AtLeastZero
    <3> QED BY <2>1, <3>2
  <2> QED BY <1>0, <2>1, <2>2
<1>5. ASSUME NEW n \in Jobs, Pause(n) PROVE Kept
  BY <1>0, <1>5 DEF Pause
<1> HIDE DEF Kept
<1>6. Kept
  BY <1>1, <1>2, <1>3, <1>4, <1>5 DEF ClientRequest
<1> QED BY <1>6 DEF Kept

\* One step keeps counters and assignments within what was offered.
LEMMA BoundStep == BoundInv /\ [Next]_vars => BoundInv'
<1> SUFFICES ASSUME BoundInv, [Next]_vars PROVE BoundInv'
  OBVIOUS
<1> DEFINE Kept == /\ \A w \in Attached' : cap'[w] \in Caps
                   /\ \A w \in Workers : Offered(used'[w])
                   /\ \A n \in Jobs, w \in Workers : Offered(held'[n][w])
<1>0. LeakInv /\ TypeOK /\ OfferedCaps
  BY DEF BoundInv, LeakInv
<1>1. LeakInv' /\ OfferedCaps'
  BY <1>0, CoveredStep, TypeNext, AssignmentsStep, OfferedStep DEF LeakInv
<1>2. UNCHANGED <<workers, cap>> => \A w \in Attached' : cap'[w] \in Caps
  BY DEF BoundInv, Attached
<1>3. ASSUME UNCHANGED <<workers, held, used, cap>> PROVE Kept
  BY <1>2, <1>3 DEF BoundInv
<1>4. ASSUME OceanCrash PROVE Kept
  BY <1>4 DEF OceanCrash, Attached, Nothing, Offered
<1>5. ASSUME ClientRequest PROVE Kept
  <2>1. UNCHANGED <<workers, cap>>
    BY <1>5 DEF ClientRequest, Start, Stop, Pause, Resume, ResumeRejected
  <2> QED BY <1>2, <1>5, <2>1, BoundClient
<1>6. ASSUME NEW s \in Streams, Join(s) PROVE Kept
  <2> DEFINE v == Owner(s)
             c == Head(toOcean[s]).cap
  <2>1. v \in Workers
    BY OwnerType
  <2>2. c \in Caps
    <3>1. toOcean[s] \in Seq(WorkerMessage) /\ toOcean[s] # <<>> /\ Head(toOcean[s]).type = "register"
      BY <1>0, <1>6 DEF Join, TypeOK, StreamTypeOK
    <3>2. 1 \in 1..Len(toOcean[s]) /\ Head(toOcean[s]) = toOcean[s][1]
      BY <3>1
    <3> QED BY <1>0, <3>1, <3>2 DEF OfferedCaps
  <2>3. /\ workers' = [workers EXCEPT ![v] = s] /\ cap' = [cap EXCEPT ![v] = c]
        /\ used' = [used EXCEPT ![v] = 0] /\ held' = held
    BY <1>6 DEF Join, jobVars
  <2> HIDE DEF v, c
  <2>4. \A w \in Attached' : cap'[w] \in Caps
    BY <1>0, <2>1, <2>2, <2>3 DEF Attached, BoundInv, TypeOK
  <2>5. \A w \in Workers : Offered(used'[w])
    BY <1>0, <2>1, <2>3 DEF BoundInv, TypeOK, Offered
  <2> QED BY <2>3, <2>4, <2>5 DEF BoundInv
<1>7. ASSUME NEW s \in Streams, Leave(s) PROVE Kept
  <2> DEFINE v == Owner(s)
  <2>1. v \in Workers
    BY OwnerType
  <2>2. /\ workers' = [workers EXCEPT ![v] = NoStream] /\ cap' = [cap EXCEPT ![v] = 0]
        /\ used' = [used EXCEPT ![v] = 0]
        /\ held' = [n \in Jobs |-> [held[n] EXCEPT ![v] = 0]]
    BY <1>7 DEF Leave, Unregister, DetachJobs
  <2> HIDE DEF v
  <2>3. \A w \in Attached' : cap'[w] \in Caps
    BY <1>0, <2>1, <2>2 DEF Attached, BoundInv, TypeOK
  <2>4. \A w \in Workers : Offered(used'[w])
    BY <1>0, <2>1, <2>2 DEF BoundInv, TypeOK, Offered
  <2>5. \A n \in Jobs, w \in Workers : Offered(held'[n][w])
    BY <1>0, <2>1, <2>2 DEF BoundInv, TypeOK, Offered
  <2> QED BY <2>3, <2>4, <2>5
<1>8. ASSUME Streams = {} PROVE Kept
  BY <1>8, EveryoneHasStreams DEF Attached
<1>9. ASSUME Streams # {} PROVE Kept
  <2>1. PICK s \in Streams :
              \/ Join(s) \/ Leave(s) \/ OceanCrash
              \/ ClientRequest \/ Environment \/ Sender(s) \/ OnReport(s) \/ OnSample(s)
              \/ Refuse(s) \/ UNCHANGED vars
    BY <1>9, StepCases
  <2> HIDE DEF Kept
  <2> QED BY <1>3, <1>4, <1>5, <1>6, <1>7, <2>1, BooksFrame
<1>10. Kept
  BY <1>8, <1>9
<1> QED BY <1>1, <1>10 DEF BoundInv

\* When all workers offer the same, a worker's counter never exceeds its capacity
\* (services.go:126-129), however its streams overlap: the counter that a rejected
\* Resume restores above what it has released (services.go:706-713) included.
THEOREM EqualWorkersAreNotOverbooked ==
    ASSUME \A c, d \in Caps : c = d
    PROVE  Spec => []WithinCapacity
<1>1. Init => BoundInv
  <2> SUFFICES ASSUME Init PROVE BoundInv
    OBVIOUS
  <2>1. TypeOK /\ AssignedAreAttached /\ ExactAccounting
    BY AccountInit DEF AccountInv
  <2>2. LeakInv
    BY <2>1 DEF LeakInv, NeverTooHigh, ExactAccounting, TypeOK
  <2>3. OfferedCaps
    BY DEF Init, StreamInit, OfferedCaps
  <2> QED BY <2>2, <2>3 DEF BoundInv, Init, OceanInit, Attached, Nothing, Offered
<1>2. BoundInv => WithinCapacity
  <2> SUFFICES ASSUME BoundInv, NEW w \in Workers PROVE used[w] <= cap[w]
    BY DEF WithinCapacity
  <2>1. LeakInv /\ used[w] \in Nat /\ cap[w] \in Nat /\ Offered(used[w])
    BY DEF BoundInv, LeakInv, TypeOK
  <2>2. CASE w \in Attached
    <3>1. cap[w] \in Caps
      BY <2>2 DEF BoundInv
    <3> QED BY <2>1, <3>1 DEF Offered
  <2>3. CASE w \notin Attached
    <3>1. Load(w) = 0
      BY <2>1, <2>3, NothingElsewhere, LoadOfNothing DEF LeakInv
    <3> QED BY <2>1, <3>1 DEF LeakInv, NeverTooHigh
  <2> QED BY <2>2, <2>3
<1> QED BY <1>1, <1>2, BoundStep, PTL DEF Spec

-----------------------------------------------------------------------------
(* Part two: the ocean and its workers.                                    *)

\* A worker has at most one live stream, the one its connection loop works on:
\* attachOnce returns only when its stream has failed (server.go:102-126).
OneLiveStream == \A s \in linked : conn[Owner(s)] = s

FleetInv == FleetTypeOK /\ OneLiveStream

-----------------------------------------------------------------------------
(* What each step does to the streams.                                     *)

\* The ocean ends streams and never opens one.
LEMMA OceanOpensNothing == OceanStep => linked' \subseteq linked
<1> SUFFICES ASSUME OceanStep PROVE linked' \subseteq linked
  OBVIOUS
<1>1. CASE ClientRequest
  <2>1. UNCHANGED streamVars
    BY <1>1 DEF ClientRequest, Start, Stop, Pause, Resume, ResumeRejected
  <2> QED BY <2>1 DEF streamVars
<1>2. CASE OceanCrash
  BY <1>2 DEF OceanCrash
<1>3. ASSUME NEW s \in Streams, Receiver(s) PROVE linked' \subseteq linked
  <2>1. CASE Join(s) \/ OnReport(s)
    BY <2>1 DEF Join, OnReport, TakeUp
  <2>2. CASE OnSample(s)
    BY <2>2 DEF OnSample, streamVars
  <2>3. CASE Refuse(s) \/ Leave(s)
    BY <2>3 DEF Refuse, Leave, EndRPC
  <2> QED BY <1>3, <2>1, <2>2, <2>3 DEF Receiver
<1>4. ASSUME NEW s \in Streams, Sender(s) PROVE linked' \subseteq linked
  BY <1>4 DEF Sender, Deliver, PutDown, SenderExits, streamVars
<1> QED BY <1>1, <1>2, <1>3, <1>4 DEF OceanStep

\* A worker that attaches has no live stream, so it is an EnvDial.
LEMMA AttachIsDial ==
    ASSUME FleetInv, NEW w \in Workers, NEW s \in Streams, NEW c \in Caps,
           SlotFree(s), Attach(w, s, c)
    PROVE  EnvDial(s)
<1>1. conn[w] = NoStream
  BY DEF Attach, FleetInv, FleetTypeOK, WorkerTypeOK
<1>2. ASSUME NEW t \in linked PROVE Owner(t) # Owner(s)
  <2>1. conn[Owner(t)] = t /\ t # NoStream
    BY NoStreamIsNone DEF FleetInv, OneLiveStream, FleetTypeOK, TypeOK, StreamTypeOK
  <2> QED BY <1>1, <2>1 DEF Attach
<1> QED BY <1>2 DEF Attach, EnvDial

LEMMA AttachedHasStream ==
    ASSUME FleetInv, NEW w \in Workers, phase[w] = "attached"
    PROVE  conn[w] \in Streams
BY DEF FleetInv, FleetTypeOK, WorkerTypeOK

\* What a worker does is something the ocean's environment may do, or nothing.
LEMMA WorkerIsEnvironment ==
    ASSUME FleetInv, NEW w \in Workers, WorkerStep(w), UNCHANGED oceanVars
    PROVE  Environment \/ UNCHANGED vars
<1>1. CASE HandleCommand(w)
  <2>1. conn[w] \in Streams /\ TakeDown(conn[w])
    BY <1>1, AttachedHasStream DEF HandleCommand
  <2> QED BY <2>1 DEF Environment
<1>2. CASE StreamEnds(w) \/ StopAll(w) \/ Tick(w)
  BY <1>2 DEF StreamEnds, StopAll, Tick, vars
<1>3. CASE SendReport(w)
  <2>1. PICK n \in batch[w], v \in ReportKinds : PutUp(conn[w], Report(n, v))
    BY <1>3 DEF SendReport
  <2>2. n \in Jobs
    BY DEF FleetInv, FleetTypeOK, WorkerTypeOK
  <2>3. conn[w] \in Streams
    BY <1>3, AttachedHasStream DEF SendReport
  <2>4. EnvReport(conn[w])
    BY <2>1, <2>2 DEF EnvReport
  <2> QED BY <2>3, <2>4 DEF Environment
<1>4. CASE WorkerCrash(w)
  <2>1. linked' = linked \ {conn[w]} /\ UNCHANGED <<toOcean, toWorker>>
    BY <1>4 DEF WorkerCrash
  <2>2. CASE conn[w] \in linked
    <3>1. conn[w] \in Streams
      BY <2>2 DEF FleetInv, FleetTypeOK, TypeOK, StreamTypeOK
    <3>2. Cut(conn[w])
      BY <2>1, <2>2 DEF Cut
    <3> QED BY <3>1, <3>2 DEF Environment
  <2>3. CASE conn[w] \notin linked
    BY <2>1, <2>3 DEF vars, streamVars
  <2> QED BY <2>2, <2>3
<1> QED BY <1>1, <1>2, <1>3, <1>4 DEF WorkerStep

LEMMA FleetStepIsOceanStep == FleetInv /\ [FleetNext]_fleetVars => [Next]_vars
<1> SUFFICES ASSUME FleetInv, [FleetNext]_fleetVars PROVE [Next]_vars
  OBVIOUS
<1>1. CASE OceanMoves
  BY <1>1 DEF OceanMoves, Next
<1>2. CASE WorkerMoves
  BY <1>2, WorkerIsEnvironment DEF WorkerMoves, Next
<1>3. CASE WorkerDials
  <2>1. PICK w \in Workers, s \in Streams, c \in Caps : SlotFree(s) /\ Attach(w, s, c)
    BY <1>3 DEF WorkerDials
  <2>2. EnvDial(s)
    BY <2>1, AttachIsDial
  <2> QED BY <1>3, <2>2 DEF WorkerDials, Next, Environment
<1>4. CASE NetworkFails
  BY <1>4 DEF NetworkFails, Next, Environment
<1>5. CASE UNCHANGED fleetVars
  BY <1>5 DEF fleetVars, vars
<1> QED BY <1>1, <1>2, <1>3, <1>4, <1>5 DEF FleetNext

-----------------------------------------------------------------------------
(* The invariant.                                                          *)

LEMMA FleetInitInv == FleetInit => FleetInv
<1> SUFFICES ASSUME FleetInit PROVE FleetInv
  OBVIOUS
<1>1. TypeOK
  BY TypeInit DEF FleetInit, Init
<1>2. WorkerTypeOK
  BY DEF FleetInit, WorkerInit, WorkerTypeOK, Idle
<1>3. OneLiveStream
  BY DEF FleetInit, StreamInit, OneLiveStream
<1> QED BY <1>1, <1>2, <1>3 DEF FleetInv, FleetTypeOK

\* Handling a command leaves a number of units running.
LEMMA HandleCommandType ==
    ASSUME FleetInv, NEW w \in Workers, HandleCommand(w)
    PROVE  WorkerTypeOK'
<1>1. Head(toWorker[conn[w]]) \in Command
  <2>1. toWorker[conn[w]] \in Seq(Command) /\ toWorker[conn[w]] # <<>>
    BY AttachedHasStream DEF HandleCommand, FleetInv, FleetTypeOK, TypeOK, StreamTypeOK
  <2> QED BY <2>1
<1>2. running' \in [Workers -> [Jobs -> Nat]]
  <2> DEFINE cmd == Head(toWorker[conn[w]])
  <2>1. running' = [running EXCEPT ![w][cmd.job] = IF cmd.action = "START" THEN cmd.conc ELSE 0]
    BY DEF HandleCommand
  <2>2. cmd.job \in Jobs /\ cmd.conc \in Nat
    BY <1>1 DEF Command
  <2> HIDE DEF cmd
  <2> QED BY <2>1, <2>2 DEF FleetInv, FleetTypeOK, WorkerTypeOK
<1>3. \A v \in Workers : phase[v] = "idle" => running'[v] = running[v]
  BY DEF HandleCommand, FleetInv, FleetTypeOK, WorkerTypeOK
<1> QED BY <1>2, <1>3 DEF HandleCommand, FleetInv, FleetTypeOK, WorkerTypeOK

LEMMA WorkerStepInv ==
    ASSUME FleetInv, NEW w \in Workers, WorkerStep(w)
    PROVE  WorkerTypeOK' /\ OneLiveStream'
<1> USE DEF FleetInv, FleetTypeOK, WorkerTypeOK
<1>1. CASE HandleCommand(w)
  BY <1>1, HandleCommandType DEF HandleCommand, TakeDown, OneLiveStream
<1>2. CASE StreamEnds(w)
  <2>1. WorkerTypeOK'
    BY <1>2 DEF StreamEnds
  <2>2. OneLiveStream'
    BY <1>2 DEF StreamEnds, OneLiveStream, streamVars
  <2> QED BY <2>1, <2>2
<1>3. CASE StopAll(w)
  BY <1>3 DEF StopAll, OneLiveStream, streamVars, Idle
<1>4. CASE Tick(w)
  BY <1>4 DEF Tick, OneLiveStream, streamVars
<1>5. CASE SendReport(w)
  BY <1>5 DEF SendReport, PutUp, OneLiveStream
<1>6. CASE WorkerCrash(w)
  <2>1. WorkerTypeOK'
    BY <1>6 DEF WorkerCrash, Idle
  <2>2. OneLiveStream'
    BY <1>6 DEF WorkerCrash, OneLiveStream
  <2> QED BY <2>1, <2>2
<1> QED BY <1>1, <1>2, <1>3, <1>4, <1>5, <1>6 DEF WorkerStep

LEMMA AttachInv ==
    ASSUME FleetInv, NEW w \in Workers, NEW s \in Streams, NEW c \in Caps,
           SlotFree(s), Attach(w, s, c)
    PROVE  WorkerTypeOK' /\ OneLiveStream'
<1>1. WorkerTypeOK'
  BY NoStreamIsNone DEF Attach, FleetInv, FleetTypeOK, WorkerTypeOK
<1>2. OneLiveStream'
  <2>1. \A t \in linked : Owner(t) # Owner(s)
    BY AttachIsDial DEF EnvDial
  <2> QED BY <2>1 DEF Attach, Dial, OneLiveStream, FleetInv, FleetTypeOK, WorkerTypeOK
<1> QED BY <1>1, <1>2

LEMMA FleetStepInv == FleetInv /\ [FleetNext]_fleetVars => FleetInv'
<1> SUFFICES ASSUME FleetInv, [FleetNext]_fleetVars PROVE FleetInv'
  OBVIOUS
<1>1. TypeOK'
  BY FleetStepIsOceanStep, TypeNext DEF FleetInv, FleetTypeOK
<1>2. ASSUME UNCHANGED workerVars, linked' \subseteq linked
      PROVE  WorkerTypeOK' /\ OneLiveStream'
  BY <1>2 DEF workerVars, FleetInv, FleetTypeOK, WorkerTypeOK, OneLiveStream
<1>3. CASE OceanMoves
  BY <1>1, <1>2, <1>3, OceanOpensNothing DEF OceanMoves, FleetInv, FleetTypeOK
<1>4. CASE WorkerMoves
  BY <1>1, <1>4, WorkerStepInv DEF WorkerMoves, FleetInv, FleetTypeOK
<1>5. CASE WorkerDials
  BY <1>1, <1>5, AttachInv DEF WorkerDials, FleetInv, FleetTypeOK
<1>6. CASE NetworkFails
  BY <1>1, <1>2, <1>6 DEF NetworkFails, Cut, FleetInv, FleetTypeOK
<1>7. CASE UNCHANGED fleetVars
  BY <1>1, <1>2, <1>7 DEF fleetVars, streamVars, FleetInv, FleetTypeOK
<1> QED BY <1>3, <1>4, <1>5, <1>6, <1>7 DEF FleetNext

-----------------------------------------------------------------------------

LEMMA FleetInvariant == FleetSpec => []FleetInv
BY FleetInitInv, FleetStepInv, PTL DEF FleetSpec

\* The types of the whole system, and that a worker between two streams runs
\* nothing and has nothing left to report (server.go:78-97).
THEOREM FleetTypeCorrect == FleetSpec => []FleetTypeOK
<1>1. FleetInv => FleetTypeOK
  BY DEF FleetInv
<1> QED BY <1>1, FleetInvariant, PTL

\* Real workers do nothing that the ocean's environment may not do: they send a
\* Register first and once (server.go:111-118), report on the stream they are
\* attached to, and keep one stream at a time, crashes included.
THEOREM FleetRefinesOcean == FleetSpec => ImplementsOcean
<1>1. FleetInit => Init
  BY DEF FleetInit, Init
<1> QED BY <1>1, FleetStepIsOceanStep, FleetInvariant, PTL DEF FleetSpec, ImplementsOcean, Spec

\* So the whole system has what is proved of the ocean: the registry is sound,
\* no test has an assignment on a worker that is gone, the limit on connections
\* holds and no capacity is lost, with half-open streams and crashes on either side
\* (client.go:83-120).
THEOREM FleetIsSafe ==
    FleetSpec => [](RegistrySound /\ AssignedAreAttached /\ ConnectionLimit /\ NeverTooHigh)
BY FleetRefinesOcean, RegistryIsSound, AssignmentsAreAttached, ConnectionsAreLimited,
   CapacityIsNeverLost, PTL
   DEF ImplementsOcean
-----------------------------------------------------------------------------
(* Commands and load.  That a worker's load converges to what is planned,  *)
(* and never exceeds its capacity on the way, is proved of a queue of      *)
(* commands first, then for the queue of every stream.                     *)
(*                                                                         *)
(* NeverOverloaded is not inductive: that the load fits now says nothing   *)
(* of the load after the next command.  What every step keeps is that it   *)
(* fits after each command of those underway (Fits) and is what is planned *)
(* after the last (Leads).  A new command is appended at the end, where    *)
(* the load is what is planned, which the ocean's accounting bounds.       *)

\* What service n will be once the first k commands of q have been handled by
\* a worker that runs r.
OutcomeAt(q, r, k, n) ==
    LET about == {i \in 1..k : q[i].job = n}
    IN  IF about = {} THEN r[n] ELSE q[Max(about)].conc

\* The latest of some positions in a queue.
LEMMA LatestOf ==
    ASSUME NEW k \in Nat, NEW A \in SUBSET (1..k)
    PROVE  /\ A # {} => Max(A) \in A /\ \A i \in A : i <= Max(A)
           /\ \A i \in A : (\A j \in A : j <= i) => Max(A) = i
<1>1. A \in SUBSET Nat
  OBVIOUS
<1>2. IsFiniteSet(A)
  <2> DEFINE D == 1..k
  <2>1. IsFiniteSet(D) /\ A \in SUBSET D
    BY FS_Interval
  <2> HIDE DEF D
  <2> QED BY <2>1, FS_Subset
<1>3. ASSUME A # {} PROVE Max(A) \in A /\ \A i \in A : i <= Max(A)
  <2>1. Max(A) \in A /\ \A i \in A : Max(A) >= i
    BY <1>1, <1>2, <1>3, GreatestExists
  <2> QED BY <1>1, <2>1
<1>4. ASSUME NEW i \in A, \A j \in A : j <= i PROVE Max(A) = i
  <2> DEFINE m == Max(A)
  <2>1. m \in A /\ i <= m /\ m <= i
    BY <1>3, <1>4
  <2>2. m \in Nat /\ i \in Nat
    BY <1>1, <2>1
  <2> HIDE DEF m
  <2>3. m = i
    BY <2>1, <2>2
  <2> QED BY <2>3 DEF m
<1> QED BY <1>3, <1>4

LEMMA OutcomeOfNone == ASSUME NEW q, NEW r, NEW n PROVE OutcomeAt(q, r, 0, n) = r[n]
<1>1. {i \in 1..0 : q[i].job = n} = {}
  OBVIOUS
<1> QED BY <1>1 DEF OutcomeAt

\* Only the latest command about a service counts.
LEMMA OutcomeOfLast ==
    ASSUME NEW q, NEW r, NEW k \in Nat, NEW n
    PROVE  OutcomeAt(q, r, k + 1, n) =
               IF q[k + 1].job = n THEN q[k + 1].conc ELSE OutcomeAt(q, r, k, n)
<1> DEFINE old == {i \in 1..k : q[i].job = n}
           new == {i \in 1..(k + 1) : q[i].job = n}
<1>1. k + 1 \in Nat /\ new \in SUBSET (1..(k + 1))
  OBVIOUS
<1>2. CASE q[k + 1].job = n
  <2>1. k + 1 \in new /\ \A j \in new : j <= k + 1
    BY <1>2
  <2>2. new # {} /\ Max(new) = k + 1
    <3> HIDE DEF new
    <3> QED BY <1>1, <2>1, LatestOf
  <2> QED BY <1>2, <2>2 DEF OutcomeAt
<1>3. CASE q[k + 1].job # n
  <2>1. new = old
    BY <1>3
  <2> QED BY <1>3, <2>1 DEF OutcomeAt
<1> QED BY <1>2, <1>3

\* q[1] takes the load of job n from r to r2; there are more than k commands.
HandlesFirst(S, q, r, r2, k, n) ==
    /\ q \in Seq(S) /\ q # <<>> /\ k \in Nat /\ k < Len(q)
    /\ r2[n] = IF q[1].job = n THEN q[1].conc ELSE r[n]

\* What k commands of the rest lead to is what one more of all of them does.
SameOutcome(q, r, r2, k, n) == OutcomeAt(Tail(q), r2, k, n) = OutcomeAt(q, r, k + 1, n)

\* Handling the first command brings the rest forward.
LEMMA OutcomeOfRest ==
    ASSUME NEW S, NEW q, NEW r, NEW r2, NEW k, NEW n, HandlesFirst(S, q, r, r2, k, n)
    PROVE  SameOutcome(q, r, r2, k, n)
<1> DEFINE t   == Tail(q)
           now == {i \in 1..k : t[i].job = n}
           old == {i \in 1..(k + 1) : q[i].job = n}
<1>0. /\ q \in Seq(S) /\ q # <<>> /\ k \in Nat /\ k < Len(q)
      /\ r2[n] = IF q[1].job = n THEN q[1].conc ELSE r[n]
  BY DEF HandlesFirst
<1> SUFFICES OutcomeAt(t, r2, k, n) = OutcomeAt(q, r, k + 1, n)
  BY DEF SameOutcome
<1>1. \A i \in 1..k : t[i] = q[i + 1]
  BY <1>0
<1> HIDE DEF t
<1>3. now \in SUBSET (1..k) /\ old \in SUBSET (1..(k + 1)) /\ k + 1 \in Nat /\ k \in Nat
  BY <1>0
<1>2. \A i \in Int : i \in now <=> i + 1 \in old /\ i # 0
  <2> SUFFICES ASSUME NEW i \in Int PROVE i \in now <=> i + 1 \in old /\ i # 0
    OBVIOUS
  <2>1. i \in 1..k <=> i + 1 \in 1..(k + 1) /\ i # 0
    BY <1>3
  <2> QED BY <1>1, <2>1
<1>4. 1 \in old <=> q[1].job = n
  BY <1>0
<1>5. /\ OutcomeAt(t, r2, k, n) = IF now = {} THEN r2[n] ELSE t[Max(now)].conc
      /\ OutcomeAt(q, r, k + 1, n) = IF old = {} THEN r[n] ELSE q[Max(old)].conc
  BY DEF OutcomeAt
<1> HIDE DEF now, old
<1>6. CASE now = {}
  <2>1. CASE q[1].job = n
    <3>1. 1 \in old /\ \A j \in old : j <= 1
      <4> SUFFICES ASSUME NEW j \in old PROVE j <= 1
        BY <1>4, <2>1
      <4>1. j \in Int /\ j - 1 \in Int /\ (j - 1) + 1 = j /\ j >= 1
        BY <1>3
      <4> QED BY <1>2, <1>6, <4>1
    <3>2. Max(old) = 1
      BY <1>3, <3>1, LatestOf
    <3> QED BY <1>0, <1>5, <1>6, <2>1, <3>1, <3>2
  <2>2. CASE q[1].job # n
    <3>1. old = {}
      <4> SUFFICES ASSUME NEW j \in old PROVE FALSE
        OBVIOUS
      <4>1. j \in Int /\ j - 1 \in Int /\ (j - 1) + 1 = j
        BY <1>3
      <4> QED BY <1>2, <1>4, <1>6, <2>2, <4>1
    <3> QED BY <1>0, <1>5, <1>6, <2>2, <3>1
  <2> QED BY <2>1, <2>2
<1>7. CASE now # {}
  <2> DEFINE m == Max(now)
  <2>1. m \in now /\ \A i \in now : i <= m
    BY <1>3, <1>7, LatestOf
  <2> HIDE DEF m
  <2>2. m \in 1..k /\ m + 1 \in old
    BY <1>2, <1>3, <2>1
  <2>3. \A j \in old : j <= m + 1
    <3> SUFFICES ASSUME NEW j \in old PROVE j <= m + 1
      OBVIOUS
    <3>1. j \in Int /\ j - 1 \in Int /\ (j - 1) + 1 = j
      BY <1>3
    <3>2. j - 1 \in now => j - 1 <= m
      BY <2>1
    <3> QED BY <1>2, <2>2, <3>1, <3>2
  <2>4. Max(old) = m + 1 /\ old # {}
    BY <1>3, <2>2, <2>3, LatestOf
  <2> QED BY <1>1, <1>5, <1>7, <2>2, <2>4 DEF m
<1> QED BY <1>6, <1>7

\* A queue that has grown leads to what it led to before, and then on.
LEMMA OutcomeOfPrefix ==
    ASSUME NEW q, NEW p, NEW r, NEW n, NEW k \in Nat, \A i \in 1..k : p[i] = q[i]
    PROVE  OutcomeAt(p, r, k, n) = OutcomeAt(q, r, k, n)
<1> DEFINE A == {i \in 1..k : p[i].job = n}
           B == {i \in 1..k : q[i].job = n}
<1>1. A = B
  OBVIOUS
<1>2. B # {} => Max(B) \in 1..k
  BY LatestOf
<1> QED BY <1>1, <1>2 DEF OutcomeAt

-----------------------------------------------------------------------------
(* The two queues of a stream, in the ocean's own specification.           *)

\* The commands the ocean really makes: a STOP carries no concurrency.
RealCommand == {c \in Command : c.action = "STOP" => c.conc = 0}

CommandsReal ==
    /\ toWorker \in [Streams -> Seq(RealCommand)]
    /\ send \in [Streams -> Seq(RealCommand)]

\* On a live stream a sender runs only beside its handler ...
SendersServed == linked \cap senders \subseteq serving

\* ... and nothing is sent before the worker has been registered.
FreshStreams == \A s \in linked \ serving : toWorker[s] = <<>>

QueueInv == CommandsReal /\ SendersServed /\ FreshStreams

LEMMA QueueClient == TypeOK /\ QueueInv /\ ClientRequest => QueueInv'
<1> SUFFICES ASSUME TypeOK, QueueInv, ClientRequest PROVE QueueInv'
  OBVIOUS
<1>1. ASSUME NEW ws, NEW cmd \in [Workers -> RealCommand], SendTo(ws, cmd), UNCHANGED streamVars
      PROVE  CommandsReal'
  <2> DEFINE target == {s \in Streams : Owner(s) \in ws /\ workers[Owner(s)] = s}
             full   == {s \in target : Len(send[s]) >= SendCap}
  <2>1. send' = [s \in Streams |-> IF s \in target \ full
                                   THEN Append(send[s], cmd[Owner(s)])
                                   ELSE send[s]]
    BY <1>1 DEF SendTo
  <2>2. \A s \in Streams : /\ Append(send[s], cmd[Owner(s)]) \in Seq(RealCommand)
                           /\ send[s] \in Seq(RealCommand)
    BY OwnerType DEF QueueInv, CommandsReal
  <2> HIDE DEF target, full
  <2> QED BY <1>1, <2>1, <2>2 DEF QueueInv, CommandsReal, streamVars
<1>2. ASSUME UNCHANGED <<linked, toWorker, senders, serving>>
      PROVE  SendersServed' /\ FreshStreams'
  BY <1>2 DEF QueueInv, SendersServed, FreshStreams
<1>3. ASSUME NEW n \in Jobs, NEW plan \in [Workers -> Nat]
      PROVE  /\ StartCommands(n, plan) \in [Workers -> RealCommand]
             /\ StopCommands(n) \in [Workers -> RealCommand]
  BY <1>3 DEF StartCommands, StopCommands, StartCommand, StopCommand, Command, RealCommand
<1>4. ASSUME NEW ws, NEW cmd \in [Workers -> RealCommand], SendTo(ws, cmd),
             UNCHANGED <<handlerVars, streamVars>>
      PROVE  QueueInv'
  BY <1>1, <1>2, <1>4 DEF SendTo, handlerVars, streamVars, QueueInv
<1>5. ASSUME NEW n \in Jobs, NEW c \in Requests, Start(n, c) PROVE QueueInv'
  <2> DEFINE plan == Allocation(FreeCapacity(used), c)
  <2>1. plan \in [Workers -> Nat]
    BY PlanType, OceanAssumption DEF TypeOK
  <2>2. SendTo(Assigned(plan), StartCommands(n, plan)) /\ UNCHANGED <<handlerVars, streamVars>>
    BY <1>5 DEF Start
  <2> HIDE DEF plan
  <2> QED BY <1>3, <1>4, <2>1, <2>2
<1>6. ASSUME NEW n \in Jobs, Stop(n) \/ Pause(n) PROVE QueueInv'
  <2> DEFINE ws == Assigned(held[n]) \cap Attached
  <2>1. SendTo(ws, StopCommands(n)) /\ UNCHANGED <<handlerVars, streamVars>>
    BY <1>6 DEF Stop, Pause
  <2>2. StopCommands(n) \in [Workers -> RealCommand]
    BY <1>3 DEF TypeOK
  <2> HIDE DEF ws
  <2> QED BY <1>4, <2>1, <2>2
<1>7. ASSUME NEW n \in Jobs, NEW c \in Requests \cup {conc[n]}, Resume(n, c) PROVE QueueInv'
  <2> DEFINE plan == ResumePlan(n, c)
             ws == Assigned(plan) \cap Attached
  <2>1. plan \in [Workers -> Nat]
    BY RequestType, ResumePlanType
  <2>2. SendTo(ws, StartCommands(n, plan)) /\ UNCHANGED <<handlerVars, streamVars>>
    BY <1>7 DEF Resume, ResumePlan
  <2> HIDE DEF plan, ws
  <2> QED BY <1>3, <1>4, <2>1, <2>2
<1>8. ASSUME NEW n \in Jobs, NEW c \in Requests \cup {conc[n]}, ResumeRejected(n, c) PROVE QueueInv'
  BY <1>2, <1>8 DEF ResumeRejected, handlerVars, senderVars, streamVars, QueueInv, CommandsReal
<1> QED BY <1>5, <1>6, <1>7, <1>8 DEF ClientRequest

LEMMA QueueReceiver ==
    ASSUME TypeOK, QueueInv, NEW s \in Streams, Receiver(s)
    PROVE  QueueInv'
<1> USE DEF QueueInv, CommandsReal, SendersServed, FreshStreams
<1>1. CASE Join(s)
  BY <1>1 DEF Join, TakeUp
<1>2. CASE Refuse(s)
  BY <1>2 DEF Refuse, EndRPC, oceanVars, handlerVars, senderVars
<1>3. CASE OnReport(s)
  BY <1>3 DEF OnReport, TakeUp, senderVars
<1>4. CASE OnSample(s)
  BY <1>4 DEF OnSample, senderVars, streamVars
<1>5. CASE Leave(s)
  BY <1>5 DEF Leave, Unregister, CloseChannel, DetachJobs, EndRPC
<1> QED BY <1>1, <1>2, <1>3, <1>4, <1>5 DEF Receiver

LEMMA QueueSender ==
    ASSUME TypeOK, QueueInv, NEW s \in Streams, Sender(s)
    PROVE  QueueInv'
<1> USE DEF QueueInv, CommandsReal, SendersServed, FreshStreams
<1>1. CASE Deliver(s)
  <2>1. Head(send[s]) \in RealCommand /\ Tail(send[s]) \in Seq(RealCommand)
    BY <1>1 DEF Deliver
  <2>2. Append(toWorker[s], Head(send[s])) \in Seq(RealCommand)
    BY <2>1
  <2>3. CommandsReal'
    BY <1>1, <2>1, <2>2 DEF Deliver, PutDown
  <2>4. SendersServed' /\ FreshStreams'
    BY <1>1 DEF Deliver, PutDown, handlerVars
  <2> QED BY <2>3, <2>4
<1>2. CASE SenderExits(s)
  <2>1. (IF s \in open THEN Tail(send[s]) ELSE <<>>) \in Seq(RealCommand)
    <3>1. s \in open => send[s] # <<>>
      BY <1>2 DEF SenderExits
    <3> QED BY <3>1
  <2>2. CommandsReal'
    BY <1>2, <2>1 DEF SenderExits, streamVars
  <2>3. SendersServed' /\ FreshStreams'
    BY <1>2 DEF SenderExits, handlerVars, streamVars
  <2> QED BY <2>2, <2>3
<1> QED BY <1>1, <1>2 DEF Sender

LEMMA QueueEnvironment == TypeOK /\ QueueInv /\ Environment => QueueInv'
<1> SUFFICES ASSUME TypeOK, QueueInv, Environment PROVE QueueInv'
  OBVIOUS
<1> USE DEF QueueInv, CommandsReal, SendersServed, FreshStreams
<1>1. UNCHANGED <<send, senders, serving>>
  BY DEF Environment, oceanVars, handlerVars, senderVars
<1>2. PICK s \in Streams : EnvDial(s) \/ EnvReport(s) \/ TakeDown(s) \/ Cut(s)
  BY DEF Environment
<1>3. CASE EnvDial(s)
  BY <1>1, <1>3 DEF EnvDial, SlotFree, Dial
<1>4. CASE EnvReport(s)
  BY <1>1, <1>4 DEF EnvReport, PutUp
<1>5. CASE TakeDown(s)
  <2>1. Tail(toWorker[s]) \in Seq(RealCommand)
    BY <1>5 DEF TakeDown
  <2>2. CommandsReal'
    BY <1>1, <1>5, <2>1 DEF TakeDown
  <2>3. SendersServed' /\ FreshStreams'
    BY <1>1, <1>5 DEF TakeDown
  <2> QED BY <2>2, <2>3
<1>6. CASE Cut(s)
  BY <1>1, <1>6 DEF Cut
<1> QED BY <1>2, <1>3, <1>4, <1>5, <1>6

LEMMA QueueStep == TypeOK /\ QueueInv /\ [Next]_vars => QueueInv'
<1> SUFFICES ASSUME TypeOK, QueueInv, [Next]_vars PROVE QueueInv'
  OBVIOUS
<1>1. CASE OceanCrash
  BY <1>1 DEF OceanCrash, QueueInv, CommandsReal, SendersServed, FreshStreams
<1>2. CASE UNCHANGED vars
  BY <1>2 DEF vars, streamVars, oceanVars, handlerVars, senderVars,
              QueueInv, CommandsReal, SendersServed, FreshStreams
<1> QED BY <1>1, <1>2, QueueClient, QueueReceiver, QueueSender, QueueEnvironment
        DEF Next, OceanStep

LEMMA QueueInit == Init => QueueInv
BY DEF Init, StreamInit, OceanInit, QueueInv, CommandsReal, SendersServed, FreshStreams

-----------------------------------------------------------------------------
\* The commands q lead a worker that runs r to plan, and nowhere on the way
\* does it run more than c.
Leads(q, r, plan) == \A n \in Jobs : OutcomeAt(q, r, Len(q), n) = plan[n]
Fits(q, r, c) == \A k \in 0..Len(q) : Total([n \in Jobs |-> OutcomeAt(q, r, k, n)]) <= c
Led(q, r, plan, c) == Leads(q, r, plan) /\ Fits(q, r, c)

\* A worker without load and without commands.
LEMMA LedIdle ==
    ASSUME NEW c \in Nat
    PROVE  Led(<<>>, Idle, Idle, c)
<1>1. \A n \in Jobs : OutcomeAt(<<>>, Idle, 0, n) = 0
  BY OutcomeOfNone DEF Idle
<1>2. [n \in Jobs |-> OutcomeAt(<<>>, Idle, 0, n)] = [n \in Jobs |-> 0]
  BY <1>1
<1>3. Total([n \in Jobs |-> 0]) = 0
  BY TotalOfZeros, StreamAssumption
<1>4. Len(<<>>) = 0 /\ 0..0 = {0}
  OBVIOUS
<1>5. Leads(<<>>, Idle, Idle)
  BY <1>1, <1>4 DEF Leads, Idle
<1>6. Fits(<<>>, Idle, c)
  BY <1>2, <1>3, <1>4 DEF Fits
<1> QED BY <1>5, <1>6 DEF Led

\* A command joins the queue that says what is planned for its service from
\* now on, and what is planned fits.
LEMMA LedFurther ==
    ASSUME NEW p, NEW q, NEW r, NEW plan, NEW plan2 \in [Jobs -> Nat], NEW c,
           Led(p, r, plan, c),
           Len(p) \in Nat, Len(q) = Len(p) + 1,
           \A i \in 1..Len(p) : q[i] = p[i],
           \A n \in Jobs : plan2[n] = IF q[Len(q)].job = n THEN q[Len(q)].conc ELSE plan[n],
           Total(plan2) <= c
    PROVE  Led(q, r, plan2, c)
<1> DEFINE l == Len(p)
<1>1. l \in Nat /\ Len(q) = l + 1
  OBVIOUS
<1>2. /\ \A n \in Jobs : OutcomeAt(p, r, l, n) = plan[n]
      /\ \A k \in 0..l : Total([n \in Jobs |-> OutcomeAt(p, r, k, n)]) <= c
  BY DEF Led, Leads, Fits
<1>3. \A i \in 1..l : q[i] = p[i]
  OBVIOUS
<1> HIDE DEF l
<1>4. ASSUME NEW k \in 0..l, NEW n \in Jobs PROVE OutcomeAt(q, r, k, n) = OutcomeAt(p, r, k, n)
  <2>1. k \in Nat /\ \A i \in 1..k : q[i] = p[i]
    BY <1>1, <1>3
  <2> QED BY <2>1, OutcomeOfPrefix
<1>5. ASSUME NEW n \in Jobs PROVE OutcomeAt(q, r, l + 1, n) = plan2[n]
  <2>1. OutcomeAt(q, r, l + 1, n) = IF q[l + 1].job = n THEN q[l + 1].conc ELSE OutcomeAt(q, r, l, n)
    BY <1>1, OutcomeOfLast
  <2>2. OutcomeAt(q, r, l, n) = plan[n]
    BY <1>1, <1>2, <1>4
  <2> QED BY <1>1, <2>1, <2>2
<1>6. ASSUME NEW k \in 0..(l + 1) PROVE Total([n \in Jobs |-> OutcomeAt(q, r, k, n)]) <= c
  <2>1. CASE k \in 0..l
    <3>1. [n \in Jobs |-> OutcomeAt(q, r, k, n)] = [n \in Jobs |-> OutcomeAt(p, r, k, n)]
      BY <1>4, <2>1
    <3> QED BY <1>2, <2>1, <3>1
  <2>2. CASE k = l + 1
    <3>1. [n \in Jobs |-> OutcomeAt(q, r, k, n)] = plan2
      BY <1>5, <2>2
    <3> QED BY <3>1
  <2> QED BY <1>1, <2>1, <2>2
<1>7. Leads(q, r, plan2)
  BY <1>1, <1>5 DEF Leads
<1>8. Fits(q, r, c)
  BY <1>1, <1>6 DEF Fits
<1> QED BY <1>7, <1>8 DEF Led

\* The oldest command has been handled.
LEMMA LedOn ==
    ASSUME NEW S, NEW p \in Seq(S), p # <<>>, NEW r, NEW r2, NEW plan, NEW c,
           Led(p, r, plan, c),
           \A n \in Jobs : r2[n] = IF p[1].job = n THEN p[1].conc ELSE r[n]
    PROVE  Led(Tail(p), r2, plan, c)
<1> DEFINE q == Tail(p)
           l == Len(q)
<1>1. l \in Nat /\ Len(p) = l + 1
  OBVIOUS
<1>2. /\ \A n \in Jobs : OutcomeAt(p, r, l + 1, n) = plan[n]
      /\ \A k \in 0..(l + 1) : Total([n \in Jobs |-> OutcomeAt(p, r, k, n)]) <= c
  <2> HIDE DEF l
  <2> QED BY <1>1 DEF Led, Leads, Fits
<1>3. ASSUME NEW k \in 0..l, NEW n \in Jobs PROVE OutcomeAt(q, r2, k, n) = OutcomeAt(p, r, k + 1, n)
  <2>1. k \in Nat /\ k < Len(p)
    BY <1>1
  <2>2. r2[n] = IF p[1].job = n THEN p[1].conc ELSE r[n]
    OBVIOUS
  <2> HIDE DEF l
  <2>4. p \in Seq(S) /\ p # <<>>
    OBVIOUS
  <2>5. HandlesFirst(S, p, r, r2, k, n)
    BY <2>1, <2>2, <2>4 DEF HandlesFirst
  <2>6. SameOutcome(p, r, r2, k, n)
    BY ONLY <2>5, OutcomeOfRest
  <2>3. OutcomeAt(Tail(p), r2, k, n) = OutcomeAt(p, r, k + 1, n)
    BY ONLY <2>6 DEF SameOutcome
  <2> QED BY <2>3 DEF q
<1> HIDE DEF q
<1>4. Leads(q, r2, plan)
  BY <1>1, <1>2, <1>3 DEF Leads
<1>5. Fits(q, r2, c)
  <2> SUFFICES ASSUME NEW k \in 0..l PROVE Total([n \in Jobs |-> OutcomeAt(q, r2, k, n)]) <= c
    BY DEF Fits
  <2>1. [n \in Jobs |-> OutcomeAt(q, r2, k, n)] = [n \in Jobs |-> OutcomeAt(p, r, k + 1, n)]
    BY <1>3
  <2>2. k + 1 \in 0..(l + 1)
    BY <1>1
  <2> QED BY <1>2, <2>1, <2>2
<1> QED BY <1>4, <1>5 DEF Led, q

LEMMA HandOver ==
    ASSUME NEW S, NEW p \in Seq(S), NEW q \in Seq(S), q # <<>>
    PROVE  Append(p, Head(q)) \o Tail(q) = p \o q
<1>1. Append(p, Head(q)) \o Tail(q) \in Seq(S) /\ p \o q \in Seq(S)
  OBVIOUS
<1>2. Len(Append(p, Head(q)) \o Tail(q)) = Len(p \o q)
  OBVIOUS
<1>3. \A i \in 1..Len(p \o q) : (Append(p, Head(q)) \o Tail(q))[i] = (p \o q)[i]
  OBVIOUS
<1> QED BY <1>1, <1>2, <1>3, SeqEqual

LEMMA AppendAtEnd ==
    ASSUME NEW S, NEW p \in Seq(S), NEW q \in Seq(S), NEW c \in S
    PROVE  /\ Len(p \o q) \in Nat
           /\ Len(p \o Append(q, c)) = Len(p \o q) + 1
           /\ (p \o Append(q, c))[Len(p \o Append(q, c))] = c
           /\ \A i \in 1..Len(p \o q) : (p \o Append(q, c))[i] = (p \o q)[i]
<1>1. Len(p \o Append(q, c)) = Len(p \o q) + 1 /\ Len(p \o q) \in Nat
  OBVIOUS
<1>2. (p \o Append(q, c))[Len(p \o q) + 1] = c
  OBVIOUS
<1>3. \A i \in 1..Len(p \o q) : (p \o Append(q, c))[i] = (p \o q)[i]
  OBVIOUS
<1> QED BY <1>1, <1>2, <1>3

LEMMA TakeFirst ==
    ASSUME NEW S, NEW p \in Seq(S), NEW q \in Seq(S), p # <<>>
    PROVE  Tail(p) \o q = Tail(p \o q) /\ (p \o q)[1] = Head(p) /\ p \o q # <<>>
<1>1. (p \o q)[1] = Head(p) /\ p \o q # <<>> /\ Len(p \o q) > 0
  OBVIOUS
<1>2. Tail(p) \o q \in Seq(S) /\ Tail(p \o q) \in Seq(S)
  BY <1>1
<1>3. Len(Tail(p) \o q) = Len(Tail(p \o q))
  BY <1>1
<1>4. \A i \in 1..Len(Tail(p \o q)) : (Tail(p) \o q)[i] = Tail(p \o q)[i]
  BY <1>1
<1> QED BY <1>1, <1>2, <1>3, <1>4, SeqEqual

-----------------------------------------------------------------------------
(* The invariant of the fleet.                                             *)

\* The ocean controls w and has dropped no command for it.
Reliable(w) == Controlled(w) /\ conn[w] \notin dropped

PlannedOn(w) == [n \in Jobs |-> Planned(w, n)]

\* The commands underway to w lead to what is planned there, within its capacity.
IsLed(w) == Led(toWorker[conn[w]] \o send[conn[w]], running[w], PlannedOn(w), cap[w])

\* A worker that the ocean has not registered yet runs nothing.
FreshWorkers == \A s \in linked \ serving : running[Owner(s)] = Idle

LoadInv ==
    /\ FleetInv
    /\ AccountInv
    /\ QueueInv
    /\ FreshWorkers
    /\ \A w \in Workers : Reliable(w) => IsLed(w)

LEMMA ReliableType ==
    ASSUME LoadInv, NEW w \in Workers, Reliable(w)
    PROVE  /\ conn[w] \in Streams /\ Owner(conn[w]) = w
           /\ conn[w] \in linked /\ workers[w] = conn[w] /\ w \in Attached
           /\ toWorker[conn[w]] \in Seq(RealCommand)
           /\ send[conn[w]] \in Seq(RealCommand)
           /\ toWorker[conn[w]] \o send[conn[w]] \in Seq(RealCommand)
<1>1. conn[w] \in Streams /\ conn[w] \in linked /\ workers[w] = conn[w] /\ conn[w] # NoStream
  BY NoStreamIsNone DEF Reliable, Controlled, LoadInv, FleetInv, FleetTypeOK, TypeOK, StreamTypeOK
<1>2. Owner(conn[w]) = w
  BY <1>1 DEF LoadInv, FleetInv, FleetTypeOK, WorkerTypeOK
<1>3. toWorker[conn[w]] \in Seq(RealCommand) /\ send[conn[w]] \in Seq(RealCommand)
  BY <1>1 DEF LoadInv, QueueInv, CommandsReal
<1>4. toWorker[conn[w]] \o send[conn[w]] \in Seq(RealCommand)
  BY <1>3
<1> QED BY <1>1, <1>2, <1>3, <1>4 DEF Attached

\* What is planned for w fits.
PlansFit == \A w \in Workers : PlannedOn(w) \in [Jobs -> Nat] /\ Total(PlannedOn(w)) <= cap[w]

LEMMA PlannedFits == AccountInv => PlansFit
<1> SUFFICES ASSUME AccountInv, NEW w \in Workers
             PROVE  PlannedOn(w) \in [Jobs -> Nat] /\ Total(PlannedOn(w)) <= cap[w]
  BY DEF PlansFit
<1> DEFINE p == PlannedOn(w)
           f == [n \in Jobs |-> held[n][w]]
<1>1. p \in [Jobs -> Nat] /\ f \in [Jobs -> Nat] /\ \A n \in Jobs : p[n] <= f[n]
  BY DEF AccountInv, TypeOK, Planned, PlannedOn
<1>2. Total(f) = Load(w)
  BY DEF Load
<1>3. used[w] = Load(w) /\ used[w] <= cap[w] /\ used[w] \in Nat /\ cap[w] \in Nat
  BY DEF AccountInv, ExactAccounting, WithinCapacity, TypeOK
<1>4. IsFiniteSet(Jobs)
  BY StreamAssumption
<1> HIDE DEF p, f
<1>5. Total(p) <= Total(f) /\ Total(p) \in Nat
  BY <1>1, <1>4, TotalMonotone, TotalType
<1>6. Total(p) <= cap[w]
  BY <1>2, <1>3, <1>5
<1> QED BY <1>1, <1>6 DEF p

\* w's records and its load have stayed as they were.
LEMMA LedFrame ==
    ASSUME NEW w \in Workers, IsLed(w),
           conn'[w] = conn[w], running'[w] = running[w], cap'[w] = cap[w],
           toWorker'[conn[w]] \o send'[conn[w]] = toWorker[conn[w]] \o send[conn[w]],
           \A n \in Jobs : Planned(w, n)' = Planned(w, n)
    PROVE  IsLed(w)'
<1>1. PlannedOn(w)' = PlannedOn(w)
  BY DEF PlannedOn
<1> QED BY <1>1 DEF IsLed

\* A request about test n that commands the workers ws.
LEMMA LedRequest ==
    ASSUME LoadInv, AccountInv', NEW w \in Workers, Reliable(w)', NEW n \in Jobs,
           NEW ws, NEW cmd \in [Workers -> RealCommand], SendTo(ws, cmd),
           UNCHANGED <<workers, cap, streamVars, workerVars>>,
           cmd[w].job = n,
           \A m \in Jobs \ {n} : Planned(w, m)' = Planned(w, m),
           w \in ws => Planned(w, n)' = cmd[w].conc,
           w \notin ws => Planned(w, n)' = Planned(w, n)
    PROVE  IsLed(w)'
<1> DEFINE s == conn[w]
           target == {t \in Streams : Owner(t) \in ws /\ workers[Owner(t)] = t}
           full   == {t \in target : Len(send[t]) >= SendCap}
<1>1. /\ UNCHANGED <<linked, toWorker, conn, running, cap, workers>>
      /\ send' = [t \in Streams |-> IF t \in target \ full
                                    THEN Append(send[t], cmd[Owner(t)]) ELSE send[t]]
      /\ dropped' = dropped \cup full
  BY DEF SendTo, streamVars, workerVars
<1>2. Reliable(w) /\ s \notin full
  BY <1>1 DEF Reliable, Controlled
<1>3. /\ s \in Streams /\ Owner(s) = w /\ workers[w] = s
      /\ toWorker[s] \in Seq(RealCommand) /\ send[s] \in Seq(RealCommand)
      /\ toWorker[s] \o send[s] \in Seq(RealCommand)
  BY <1>2, ReliableType
<1>4. send'[s] = IF w \in ws THEN Append(send[s], cmd[w]) ELSE send[s]
  BY <1>1, <1>2, <1>3
<1>5. IsLed(w)
  BY <1>2 DEF LoadInv
<1> HIDE DEF target, full
<1>6. CASE w \notin ws
  <2>1. \A m \in Jobs : Planned(w, m)' = Planned(w, m)
    BY <1>6
  <2> QED BY <1>1, <1>4, <1>5, <1>6, <2>1, LedFrame
<1>7. CASE w \in ws
  <2> DEFINE c == cmd[w]
             t == toWorker[s]
             b == send[s]
             p == t \o b
             q == t \o Append(b, c)
             plan == PlannedOn(w)
             plan2 == PlannedOn(w)'
  <2>1. c \in RealCommand /\ t \in Seq(RealCommand) /\ b \in Seq(RealCommand)
    BY <1>3
  <2>2. Len(p) \in Nat /\ Len(q) = Len(p) + 1 /\ q[Len(q)] = c /\ \A i \in 1..Len(p) : q[i] = p[i]
    <3> HIDE DEF c, t, b, plan, plan2
    <3> QED BY <2>1, AppendAtEnd
  <2>3. Led(p, running[w], plan, cap[w])
    BY <1>5 DEF IsLed
  <2>4. plan2 \in [Jobs -> Nat] /\ Total(plan2) <= cap[w]
    <3>1. PlansFit'
      BY PlannedFits, PTL
    <3> QED BY <1>1, <3>1 DEF PlansFit
  <2>5. \A m \in Jobs : plan2[m] = IF c.job = m THEN c.conc ELSE plan[m]
    BY <1>7 DEF PlannedOn
  <2>6. IsLed(w)' <=> Led(q, running[w], plan2, cap[w])
    BY <1>1, <1>4, <1>7 DEF IsLed
  <2> HIDE DEF c, p, q, plan, plan2
  <2>7. Led(q, running[w], plan2, cap[w])
    BY <2>2, <2>3, <2>4, <2>5, LedFurther
  <2> QED BY <2>6, <2>7
<1> QED BY <1>6, <1>7

\* The worker handles the oldest command.
LEMMA LedHandled ==
    ASSUME LoadInv, NEW w \in Workers, Reliable(w), HandleCommand(w), UNCHANGED oceanVars
    PROVE  IsLed(w)'
<1> DEFINE s == conn[w]
           p == toWorker[s] \o send[s]
           c == Head(toWorker[s])
<1>1. s \in Streams /\ conn' = conn /\ UNCHANGED <<send, cap, jobs, paused, held>>
  BY ReliableType DEF HandleCommand, oceanVars, senderVars, registryVars, jobVars
<1>2. /\ toWorker[s] \in Seq(RealCommand) /\ toWorker[s] # <<>>
      /\ send[s] \in Seq(RealCommand) /\ p \in Seq(RealCommand)
  BY ReliableType DEF HandleCommand
<1>3. c \in RealCommand
  BY <1>2
<1>4. Tail(toWorker[s]) \o send[s] = Tail(p) /\ p[1] = c /\ p # <<>>
  BY <1>2, TakeFirst
<1>5. toWorker'[s] = Tail(toWorker[s])
  BY <1>1 DEF HandleCommand, TakeDown, LoadInv, QueueInv, CommandsReal
<1>6. \A n \in Jobs : running'[w][n] = IF c.job = n THEN c.conc ELSE running[w][n]
  <2>1. running' = [running EXCEPT ![w][c.job] = IF c.action = "START" THEN c.conc ELSE 0]
    BY DEF HandleCommand
  <2>2. (IF c.action = "START" THEN c.conc ELSE 0) = c.conc
    BY <1>3 DEF RealCommand, Command
  <2>3. running' = [running EXCEPT ![w][c.job] = c.conc]
    BY <2>1, <2>2
  <2>4. c.job \in Jobs /\ running \in [Workers -> [Jobs -> Nat]]
    BY <1>3 DEF RealCommand, Command, LoadInv, FleetInv, FleetTypeOK, WorkerTypeOK
  <2> HIDE DEF c
  <2> QED BY <2>3, <2>4
<1>7. PlannedOn(w)' = PlannedOn(w)
  BY <1>1 DEF PlannedOn, Planned
<1>8. Led(p, running[w], PlannedOn(w), cap[w])
  BY DEF LoadInv, IsLed
<1>9. IsLed(w)' <=> Led(Tail(p), running'[w], PlannedOn(w), cap[w])
  BY <1>1, <1>4, <1>5, <1>7 DEF IsLed
<1> HIDE DEF p, c
<1>10. Led(Tail(p), running'[w], PlannedOn(w), cap[w])
  BY <1>2, <1>4, <1>6, <1>8, LedOn
<1> QED BY <1>9, <1>10

-----------------------------------------------------------------------------
(* One step at a time.                                                     *)

\* A step that does not touch w's side of things.
LEMMA LedKept ==
    ASSUME LoadInv, NEW w \in Workers, Reliable(w)',
           conn'[w] = conn[w], running'[w] = running[w],
           workers'[w] = workers[w], cap'[w] = cap[w],
           conn[w] \in linked' => conn[w] \in linked,
           conn[w] \in dropped => conn[w] \in dropped',
           toWorker'[conn[w]] \o send'[conn[w]] = toWorker[conn[w]] \o send[conn[w]],
           UNCHANGED <<jobs, paused>>, \A n \in Jobs : held'[n][w] = held[n][w]
    PROVE  IsLed(w)'
<1>1. Reliable(w)
  BY DEF Reliable, Controlled
<1>2. \A n \in Jobs : Planned(w, n)' = Planned(w, n)
  BY DEF Planned
<1> QED BY <1>1, <1>2, LedFrame DEF LoadInv

\* The requests of clients.
LEMMA LedClient ==
    ASSUME LoadInv, AccountInv', ResumeOnlyPaused, ClientRequest, UNCHANGED workerVars,
           NEW w \in Workers, Reliable(w)'
    PROVE  IsLed(w)'
<1>1. TypeOK /\ paused \subseteq jobs
  BY DEF LoadInv, AccountInv, TypeOK
<1>2. ASSUME NEW n \in Jobs, NEW plan \in [Workers -> Nat]
      PROVE  /\ StartCommands(n, plan) \in [Workers -> RealCommand]
             /\ StartCommands(n, plan)[w].job = n /\ StartCommands(n, plan)[w].conc = plan[w]
             /\ StopCommands(n) \in [Workers -> RealCommand]
             /\ StopCommands(n)[w].job = n /\ StopCommands(n)[w].conc = 0
  BY <1>2 DEF StartCommands, StopCommands, StartCommand, StopCommand, Command, RealCommand
<1>3. ASSUME UNCHANGED <<workers, streamVars>>, dropped \subseteq dropped' PROVE w \in Attached
  <2>1. Reliable(w)
    BY <1>3 DEF Reliable, Controlled, workerVars, streamVars
  <2> QED BY <2>1, ReliableType
<1>4. ASSUME NEW n \in Jobs, NEW c \in Requests, Start(n, c) PROVE IsLed(w)'
  <2> DEFINE plan == Allocation(FreeCapacity(used), c)
             ws == Assigned(plan)
             cmd == StartCommands(n, plan)
  <2>1. plan \in [Workers -> Nat]
    BY <1>1, PlanType, OceanAssumption DEF TypeOK
  <2>2. /\ n \notin jobs /\ jobs' = jobs \cup {n}
        /\ SendTo(ws, cmd)
        /\ held' = [held EXCEPT ![n] = plan]
        /\ UNCHANGED <<workers, cap, paused, streamVars>>
    BY <1>4 DEF Start
  <2>3. w \in ws <=> plan[w] > 0
    BY DEF Assigned
  <2> HIDE DEF plan, ws
  <2>4. cmd \in [Workers -> RealCommand] /\ cmd[w].job = n /\ cmd[w].conc = plan[w]
    BY <1>2, <2>1
  <2> HIDE DEF cmd
  <2>5. Planned(w, n)' = plan[w] /\ Planned(w, n) = 0
    BY <1>1, <2>2 DEF Planned, TypeOK
  <2>6. \A m \in Jobs \ {n} : Planned(w, m)' = Planned(w, m)
    BY <1>1, <2>2 DEF Planned, TypeOK
  <2>7. w \notin ws => plan[w] = 0
    BY <2>1, <2>3
  <2> QED BY <2>2, <2>4, <2>5, <2>6, <2>7, LedRequest
<1>5. ASSUME NEW n \in Jobs, Stop(n) \/ Pause(n) PROVE IsLed(w)'
  <2> DEFINE ws == Assigned(held[n]) \cap Attached
             cmd == StopCommands(n)
  <2>1. /\ SendTo(ws, cmd)
        /\ UNCHANGED <<workers, cap, streamVars>>
        /\ n \notin jobs' \ paused'
        /\ \A m \in Jobs \ {n} : /\ m \in jobs' \ paused' <=> m \in jobs \ paused
                                 /\ held'[m] = held[m]
    BY <1>1, <1>5 DEF Stop, Pause, TypeOK
  <2>2. cmd \in [Workers -> RealCommand] /\ cmd[w].job = n /\ cmd[w].conc = 0
    BY <1>1, <1>2 DEF TypeOK
  <2>3. w \in Attached
    BY <1>3, <2>1 DEF SendTo
  <2>4. w \notin ws => held[n][w] = 0
    BY <1>1, <2>3 DEF Assigned, TypeOK
  <2> HIDE DEF ws, cmd
  <2>5. Planned(w, n)' = 0 /\ (w \notin ws => Planned(w, n) = 0)
    BY <2>1, <2>4 DEF Planned
  <2>6. \A m \in Jobs \ {n} : Planned(w, m)' = Planned(w, m)
    BY <2>1 DEF Planned
  <2> QED BY <2>1, <2>2, <2>5, <2>6, LedRequest
<1>6. ASSUME NEW n \in Jobs, NEW c \in Requests \cup {conc[n]}, Resume(n, c) PROVE IsLed(w)'
  <2> DEFINE plan == ResumePlan(n, c)
             ws == Assigned(plan) \cap Attached
             cmd == StartCommands(n, plan)
  <2>1. plan \in [Workers -> Nat]
    BY <1>1, RequestType, ResumePlanType
  <2>2. /\ n \in jobs /\ n \in paused /\ jobs' = jobs /\ paused' = paused \ {n}
        /\ SendTo(ws, cmd)
        /\ held' = [held EXCEPT ![n] = plan]
        /\ UNCHANGED <<workers, cap, streamVars>>
    BY <1>6 DEF Resume, ResumeAllowed, ResumePlan
  <2>3. w \in Attached
    BY <1>3, <2>2 DEF SendTo
  <2>4. w \in ws <=> plan[w] > 0
    BY <2>3 DEF Assigned
  <2> HIDE DEF plan, ws
  <2>5. cmd \in [Workers -> RealCommand] /\ cmd[w].job = n /\ cmd[w].conc = plan[w]
    BY <1>2, <2>1
  <2> HIDE DEF cmd
  <2>6. Planned(w, n)' = plan[w] /\ Planned(w, n) = 0
    BY <1>1, <2>2 DEF Planned, TypeOK
  <2>7. \A m \in Jobs \ {n} : Planned(w, m)' = Planned(w, m)
    BY <1>1, <2>2 DEF Planned, TypeOK
  <2>8. w \notin ws => plan[w] = 0
    BY <2>1, <2>4
  <2> QED BY <2>2, <2>5, <2>6, <2>7, <2>8, LedRequest
<1>7. ASSUME NEW n \in Jobs, NEW c \in Requests \cup {conc[n]}, ResumeRejected(n, c) PROVE IsLed(w)'
  <2>1. UNCHANGED <<workers, cap, jobs, held, paused, send, dropped, linked, toWorker, conn, running>>
    BY <1>7 DEF ResumeRejected, jobVars, senderVars, streamVars, workerVars
  <2> QED BY <2>1, LedKept
<1> QED BY <1>4, <1>5, <1>6, <1>7 DEF ClientRequest

\* The handler of a stream t, w's or another worker's.
LEMMA LedReceiver ==
    ASSUME OneStreamEach, LoadInv, NEW t \in Streams, Receiver(t), UNCHANGED workerVars,
           NEW w \in Workers, Reliable(w)'
    PROVE  IsLed(w)'
<1>1. conn' = conn /\ running' = running
  BY DEF workerVars
<1>2. /\ conn[w] \in linked' /\ workers'[w] = conn[w]
      /\ conn[w] # NoStream => conn[w] \in Streams /\ Owner(conn[w]) = w
  BY <1>1 DEF Reliable, Controlled, LoadInv, FleetInv, FleetTypeOK, WorkerTypeOK
<1>3. TypeOK /\ TypeOK' /\ AccountInv /\ RegistrySound
  BY TypeJoin, TypeRefuse, TypeOnReport, TypeOnSample, TypeLeave DEF Receiver, LoadInv, AccountInv
<1>4. conn[w] \in Streams /\ Owner(conn[w]) = w
  BY <1>2, <1>3, NoStreamIsNone DEF TypeOK, StreamTypeOK
<1>5. CASE Join(t) /\ Owner(t) = w
  <2>1. /\ workers' = [workers EXCEPT ![w] = t]
        /\ cap' = [cap EXCEPT ![w] = Head(toOcean[t]).cap]
        /\ send' = [send EXCEPT ![t] = <<>>]
        /\ UNCHANGED <<linked, toWorker, held>>
        /\ t \notin serving
    BY <1>5 DEF Join, TakeUp, jobVars
  <2>2. conn[w] = t /\ t \in linked
    BY <1>2, <1>3, <2>1 DEF TypeOK
  <2>3. toWorker'[t] = <<>> /\ send'[t] = <<>> /\ running'[w] = Idle
    BY <1>1, <1>3, <1>5, <2>1, <2>2
       DEF LoadInv, QueueInv, FreshStreams, FreshWorkers, TypeOK
  <2>4. PlannedOn(w)' = Idle
    <3>1. \A n \in Jobs : held'[n][w] = 0
      BY <1>3, <1>5, <2>1, JoinerIsNew
    <3> QED BY <3>1 DEF PlannedOn, Planned, Idle
  <2>5. cap'[w] \in Nat
    BY <1>3 DEF TypeOK
  <2>6. Led(<<>>, Idle, Idle, cap'[w])
    BY <2>5, LedIdle
  <2>7. toWorker'[conn'[w]] \o send'[conn'[w]] = <<>>
    BY <1>1, <2>2, <2>3
  <2> QED BY <2>3, <2>4, <2>6, <2>7 DEF IsLed
<1>6. CASE Join(t) /\ Owner(t) # w
  <2>1. /\ workers' = [workers EXCEPT ![Owner(t)] = t]
        /\ cap' = [cap EXCEPT ![Owner(t)] = Head(toOcean[t]).cap]
        /\ send' = [send EXCEPT ![t] = <<>>]
        /\ dropped' = dropped \ {t}
        /\ UNCHANGED <<linked, toWorker, jobs, paused, held>>
    BY <1>6 DEF Join, TakeUp, jobVars
  <2>2. conn[w] # t
    BY <1>4, <1>6
  <2>3. workers'[w] = workers[w] /\ cap'[w] = cap[w] /\ send'[conn[w]] = send[conn[w]]
        /\ (conn[w] \in dropped => conn[w] \in dropped')
    BY <1>3, <1>4, <1>6, <2>1, <2>2 DEF TypeOK
  <2> QED BY <1>1, <2>1, <2>3, LedKept
<1>7. CASE Refuse(t) \/ OnReport(t) \/ OnSample(t)
  <2>1. /\ UNCHANGED <<workers, cap, send, dropped, toWorker, jobs, paused, held>>
        /\ linked' \subseteq linked
    BY <1>7 DEF Refuse, OnReport, OnSample, EndRPC, TakeUp,
                oceanVars, registryVars, senderVars, jobVars, streamVars
  <2> QED BY <1>1, <2>1, LedKept
<1>8. CASE Leave(t)
  <2> DEFINE e == workers[Owner(t)]
  <2>1. /\ workers' = [workers EXCEPT ![Owner(t)] = NoStream]
        /\ cap' = [cap EXCEPT ![Owner(t)] = 0]
        /\ held' = [n \in Jobs |-> [held[n] EXCEPT ![Owner(t)] = 0]]
        /\ dropped' = dropped \ {e}
        /\ send' = IF e \in Streams \ senders THEN [send EXCEPT ![e] = <<>>] ELSE send
        /\ linked' = linked \ {t}
        /\ UNCHANGED <<jobs, paused, toWorker>>
    BY <1>8 DEF Leave, Unregister, CloseChannel, DetachJobs, EndRPC
  <2>2. Owner(t) # w
    BY <1>2, <1>3, <1>4, <2>1, NoStreamIsNone DEF TypeOK
  <2>3. conn[w] # e
    <3>1. e = NoStream \/ Owner(e) = Owner(t)
      BY OwnerType, <1>3 DEF RegistrySound, Attached
    <3> QED BY <1>4, <2>2, <3>1, NoStreamIsNone
  <2> HIDE DEF e
  <2>4. /\ workers'[w] = workers[w] /\ cap'[w] = cap[w]
        /\ \A n \in Jobs : held'[n][w] = held[n][w]
    BY <1>3, <2>1, <2>2 DEF TypeOK
  <2>5. send'[conn[w]] = send[conn[w]] /\ (conn[w] \in dropped => conn[w] \in dropped')
    BY <1>3, <1>4, <2>1, <2>3 DEF TypeOK
  <2> QED BY <1>1, <2>1, <2>4, <2>5, LedKept
<1> QED BY <1>5, <1>6, <1>7, <1>8 DEF Receiver

\* The sender of a stream t hands one command on, or ends.
LEMMA LedSender ==
    ASSUME LoadInv, NEW t \in Streams, Sender(t), UNCHANGED workerVars,
           NEW w \in Workers, Reliable(w)'
    PROVE  IsLed(w)'
<1>1. /\ conn' = conn /\ running' = running
      /\ UNCHANGED <<workers, cap, jobs, paused, held, dropped, linked>>
  BY DEF workerVars, Sender, Deliver, SenderExits, PutDown, registryVars, jobVars, streamVars
<1>2. Reliable(w)
  BY <1>1 DEF Reliable, Controlled
<1>3. /\ conn[w] \in Streams /\ conn[w] \in linked /\ workers[w] = conn[w] /\ w \in Attached
      /\ toWorker[conn[w]] \in Seq(RealCommand) /\ send[conn[w]] \in Seq(RealCommand)
  BY <1>2, ReliableType
<1>4. CASE t # conn[w]
  <2>1. toWorker'[conn[w]] = toWorker[conn[w]] /\ send'[conn[w]] = send[conn[w]]
    BY <1>3, <1>4 DEF Sender, Deliver, SenderExits, PutDown, streamVars,
                      LoadInv, QueueInv, CommandsReal
  <2> QED BY <1>1, <2>1, LedKept
<1>5. CASE t = conn[w] /\ Deliver(t)
  <2> DEFINE p == toWorker[conn[w]]
             q == send[conn[w]]
  <2>1. /\ q # <<>>
        /\ toWorker'[conn[w]] = Append(p, Head(q))
        /\ send'[conn[w]] = Tail(q)
    BY <1>3, <1>5 DEF Deliver, PutDown, LoadInv, QueueInv, CommandsReal
  <2>2. p \in Seq(RealCommand) /\ q \in Seq(RealCommand)
    BY <1>3
  <2> HIDE DEF p, q
  <2>3. Append(p, Head(q)) \o Tail(q) = p \o q
    BY <2>1, <2>2, HandOver
  <2>4. toWorker'[conn[w]] \o send'[conn[w]] = toWorker[conn[w]] \o send[conn[w]]
    BY <2>1, <2>3 DEF p, q
  <2> QED BY <1>1, <2>4, LedKept
<1>6. CASE t = conn[w] /\ SenderExits(t)
  <2>1. conn[w] \in open
    BY <1>3 DEF LoadInv, AccountInv, RegistrySound
  <2> QED BY <1>3, <1>6, <2>1 DEF SenderExits
<1> QED BY <1>4, <1>5, <1>6 DEF Sender

\* What the workers do, w or another.
LEMMA LedWorker ==
    ASSUME LoadInv, NEW v \in Workers, WorkerStep(v), UNCHANGED oceanVars,
           NEW w \in Workers, Reliable(w)'
    PROVE  IsLed(w)'
<1>1. UNCHANGED <<workers, cap, jobs, paused, held, dropped, send>>
  BY DEF oceanVars, registryVars, jobVars, senderVars
<1>2. NoStream \notin linked' /\ linked' \subseteq linked
  <2>1. linked' \subseteq linked
    BY DEF WorkerStep, HandleCommand, StreamEnds, StopAll, Tick, SendReport, WorkerCrash,
           TakeDown, PutUp, streamVars
  <2> QED BY <2>1, NoStreamIsNone DEF LoadInv, AccountInv, TypeOK, StreamTypeOK
<1>3. conn'[w] \in linked' /\ conn'[w] # NoStream
  BY <1>2 DEF Reliable, Controlled
<1> USE DEF FleetInv, FleetTypeOK, WorkerTypeOK
<1>4. CASE v = w /\ HandleCommand(w)
  <2>1. Reliable(w)
    BY <1>1, <1>4 DEF Reliable, Controlled, HandleCommand, TakeDown
  <2> QED BY <1>4, <2>1, LedHandled
<1>5. CASE v = w /\ (StreamEnds(w) \/ WorkerCrash(w))
  BY <1>3, <1>5 DEF StreamEnds, WorkerCrash, LoadInv
<1>6. CASE v = w /\ StopAll(w)
  BY <1>3, <1>6 DEF StopAll, LoadInv
<1>7. CASE v = w /\ (Tick(w) \/ SendReport(w))
  <2>1. UNCHANGED <<conn, running, toWorker>>
    BY <1>7 DEF Tick, SendReport, PutUp, streamVars
  <2> QED BY <1>1, <1>2, <2>1, LedKept
<1>8. CASE v # w
  <2>1. conn'[w] = conn[w] /\ running'[w] = running[w]
    BY <1>8 DEF WorkerStep, HandleCommand, StreamEnds, StopAll, Tick, SendReport, WorkerCrash, LoadInv
  <2>2. toWorker'[conn[w]] = toWorker[conn[w]]
    <3>1. CASE HandleCommand(v)
      <4>1. conn[v] \in Streams /\ Owner(conn[v]) = v /\ Owner(conn[w]) = w
        BY <1>3, <2>1, <3>1, AttachedHasStream DEF HandleCommand, LoadInv
      <4> QED BY <1>8, <3>1, <4>1 DEF HandleCommand, TakeDown, LoadInv, QueueInv, CommandsReal
    <3>2. CASE ~HandleCommand(v)
      BY <3>2 DEF WorkerStep, StreamEnds, StopAll, Tick, SendReport, WorkerCrash, PutUp, streamVars
    <3> QED BY <3>1, <3>2
  <2> QED BY <1>1, <1>2, <2>1, <2>2, LedKept
<1> QED BY <1>4, <1>5, <1>6, <1>7, <1>8 DEF WorkerStep

\* A worker dials: it is not registered yet.
LEMMA LedDial ==
    ASSUME LoadInv, NEW v \in Workers, NEW s \in Streams, NEW c \in Caps,
           SlotFree(s), Attach(v, s, c), UNCHANGED oceanVars,
           NEW w \in Workers, Reliable(w)'
    PROVE  IsLed(w)'
<1>1. UNCHANGED <<workers, cap, jobs, paused, held, dropped, send>>
  BY DEF oceanVars, registryVars, jobVars, senderVars
<1>2. Owner(s) = v /\ s # NoStream /\ s \notin serving
  BY NoStreamIsNone DEF Attach, SlotFree
<1>3. CASE v = w
  <2>1. workers[w] = s
    BY <1>1, <1>3 DEF Attach, Reliable, Controlled, LoadInv, FleetInv, FleetTypeOK, WorkerTypeOK
  <2> QED BY <1>2, <2>1 DEF LoadInv, AccountInv, RegistrySound, Attached
<1>4. CASE v # w
  <2>1. conn'[w] = conn[w] /\ running' = running
    BY <1>4 DEF Attach, LoadInv, FleetInv, FleetTypeOK, WorkerTypeOK
  <2>2. workers[w] = conn[w] /\ conn[w] # s
    <3>1. workers[w] = conn[w]
      BY <1>1, <2>1 DEF Reliable, Controlled
    <3>2. conn[w] # NoStream => Owner(conn[w]) = w
      BY DEF LoadInv, FleetInv, FleetTypeOK, WorkerTypeOK
    <3> QED BY <1>2, <1>4, <3>1, <3>2
  <2>3. toWorker'[conn[w]] = toWorker[conn[w]] /\ (conn[w] \in linked' => conn[w] \in linked)
    <3>1. conn[w] \in linked' => conn[w] \in linked
      BY <2>2 DEF Attach, Dial
    <3>2. conn[w] \in linked'
      BY <2>1 DEF Reliable, Controlled
    <3>3. conn[w] \in Streams
      BY <3>1, <3>2 DEF LoadInv, AccountInv, TypeOK, StreamTypeOK
    <3> QED BY <2>2, <3>1, <3>3 DEF Attach, Dial, LoadInv, QueueInv, CommandsReal
  <2> QED BY <1>1, <2>1, <2>3, LedKept
<1> QED BY <1>3, <1>4

\* No step of the ocean makes a stream fresh.
LEMMA OceanFreshensNothing == OceanStep => linked' \ serving' \subseteq linked \ serving
<1> SUFFICES ASSUME OceanStep PROVE linked' \ serving' \subseteq linked \ serving
  OBVIOUS
<1>1. CASE ClientRequest
  BY <1>1 DEF ClientRequest, Start, Stop, Pause, Resume, ResumeRejected, streamVars, handlerVars
<1>2. CASE OceanCrash
  BY <1>2 DEF OceanCrash
<1>3. ASSUME NEW s \in Streams, Receiver(s) PROVE linked' \ serving' \subseteq linked \ serving
  BY <1>3 DEF Receiver, Join, Refuse, OnReport, OnSample, Leave, TakeUp, EndRPC,
              oceanVars, handlerVars, streamVars
<1>4. ASSUME NEW s \in Streams, Sender(s) PROVE linked' \ serving' \subseteq linked \ serving
  BY <1>4 DEF Sender, Deliver, SenderExits, PutDown, handlerVars, streamVars
<1> QED BY <1>1, <1>2, <1>3, <1>4 DEF OceanStep

LEMMA FreshStep == LoadInv /\ [FleetNext]_fleetVars => FreshWorkers'
<1> SUFFICES ASSUME LoadInv, [FleetNext]_fleetVars PROVE FreshWorkers'
  OBVIOUS
<1>1. ASSUME linked' \ serving' \subseteq linked \ serving, running' = running PROVE FreshWorkers'
  BY <1>1 DEF LoadInv, FreshWorkers
<1>2. CASE OceanMoves
  BY <1>1, <1>2, OceanFreshensNothing DEF OceanMoves, workerVars
<1>3. ASSUME NEW w \in Workers, WorkerStep(w), UNCHANGED oceanVars PROVE FreshWorkers'
  <2>1. linked' \subseteq linked /\ serving' = serving
    BY <1>3 DEF WorkerStep, HandleCommand, StreamEnds, StopAll, Tick, SendReport, WorkerCrash,
                TakeDown, PutUp, streamVars, oceanVars, handlerVars
  <2> SUFFICES ASSUME NEW s \in linked \ serving PROVE running'[Owner(s)] = Idle
    BY <2>1 DEF FreshWorkers
  <2>2. running[Owner(s)] = Idle /\ toWorker[s] = <<>> /\ conn[Owner(s)] = s
    BY DEF LoadInv, FreshWorkers, QueueInv, FreshStreams, FleetInv, OneLiveStream
  <2> DEFINE v == Owner(s)
  <2>7. v \in Workers
    BY OwnerType DEF LoadInv, AccountInv, TypeOK, StreamTypeOK
  <2>3. CASE w # v
    <3> HIDE DEF v
    <3>1. running'[v] = running[v]
      BY <1>3, <2>7, <2>3 DEF WorkerStep, HandleCommand, StreamEnds, StopAll, Tick, SendReport,
                              WorkerCrash, LoadInv, FleetInv, FleetTypeOK, WorkerTypeOK
    <3> QED BY <2>2, <3>1 DEF v
  <2>4. CASE w = Owner(s) /\ (StopAll(w) \/ WorkerCrash(w))
    BY <2>4 DEF StopAll, WorkerCrash, LoadInv, FleetInv, FleetTypeOK, WorkerTypeOK
  <2>5. CASE w = Owner(s) /\ (StreamEnds(w) \/ Tick(w) \/ SendReport(w))
    BY <2>2, <2>5 DEF StreamEnds, Tick, SendReport
  <2>6. CASE w = Owner(s) /\ HandleCommand(w)
    BY <2>2, <2>6 DEF HandleCommand
  <2> QED BY <1>3, <2>3, <2>4, <2>5, <2>6 DEF WorkerStep
<1>4. CASE WorkerDials
  <2>1. PICK w \in Workers, s \in Streams, c \in Caps : SlotFree(s) /\ Attach(w, s, c)
    BY <1>4 DEF WorkerDials
  <2>2. linked' = linked \cup {s} /\ serving' = serving /\ running' = running
    BY <1>4, <2>1 DEF WorkerDials, Attach, Dial, oceanVars, handlerVars
  <2>3. running[Owner(s)] = Idle
    BY <2>1 DEF Attach, LoadInv, FleetInv, FleetTypeOK, WorkerTypeOK
  <2> QED BY <2>2, <2>3 DEF LoadInv, FreshWorkers
<1>5. CASE NetworkFails
  BY <1>1, <1>5 DEF NetworkFails, Cut, oceanVars, handlerVars, workerVars
<1>6. CASE UNCHANGED fleetVars
  BY <1>1, <1>6 DEF fleetVars, streamVars, oceanVars, handlerVars, workerVars
<1> QED BY <1>2, <1>3, <1>4, <1>5, <1>6 DEF FleetNext, WorkerMoves

LEMMA LedStep ==
    ASSUME OneStreamEach, ResumeOnlyPaused, LoadInv, AccountInv', [FleetNext]_fleetVars,
           NEW w \in Workers, Reliable(w)'
    PROVE  IsLed(w)'
<1>1. CASE OceanMoves
  <2>1. UNCHANGED workerVars
    BY <1>1 DEF OceanMoves
  <2>2. CASE OceanCrash
    BY <2>2 DEF OceanCrash, Reliable, Controlled
  <2>3. CASE ClientRequest
    BY <2>1, <2>3, LedClient
  <2>4. ASSUME NEW t \in Streams, Receiver(t) PROVE IsLed(w)'
    BY <2>1, <2>4, LedReceiver
  <2>5. ASSUME NEW t \in Streams, Sender(t) PROVE IsLed(w)'
    BY <2>1, <2>5, LedSender
  <2> QED BY <1>1, <2>2, <2>3, <2>4, <2>5 DEF OceanMoves, OceanStep
<1>2. CASE WorkerMoves
  BY <1>2, LedWorker DEF WorkerMoves
<1>3. CASE WorkerDials
  BY <1>3, LedDial DEF WorkerDials
<1>4. CASE NetworkFails \/ UNCHANGED fleetVars
  <2>1. /\ UNCHANGED <<conn, running, workers, cap, dropped, toWorker, send, jobs, paused, held>>
        /\ linked' \subseteq linked
    BY <1>4 DEF NetworkFails, Cut, fleetVars, workerVars, streamVars,
                oceanVars, registryVars, senderVars, jobVars
  <2> QED BY <2>1, LedKept
<1> QED BY <1>1, <1>2, <1>3, <1>4 DEF FleetNext

LEMMA LoadStep ==
    OneStreamEach /\ ResumeOnlyPaused /\ LoadInv /\ [FleetNext]_fleetVars => LoadInv'
<1> SUFFICES ASSUME OneStreamEach, ResumeOnlyPaused, LoadInv, [FleetNext]_fleetVars PROVE LoadInv'
  OBVIOUS
<1>1. FleetInv' /\ [Next]_vars
  BY FleetStepInv, FleetStepIsOceanStep DEF LoadInv
<1>2. AccountInv'
  BY <1>1, AccountStep DEF LoadInv
<1>3. QueueInv'
  BY <1>1, QueueStep DEF LoadInv, AccountInv
<1>4. FreshWorkers'
  BY FreshStep
<1>5. \A w \in Workers : Reliable(w)' => IsLed(w)'
  BY <1>2, LedStep
<1> QED BY <1>1, <1>2, <1>3, <1>4, <1>5 DEF LoadInv

LEMMA LoadInit == FleetInit => LoadInv
<1> SUFFICES ASSUME FleetInit PROVE LoadInv
  OBVIOUS
<1>1. FleetInv /\ Init
  BY FleetInitInv DEF FleetInit, Init
<1>2. AccountInv /\ QueueInv
  BY <1>1, AccountInit, QueueInit
<1>3. linked = {}
  BY DEF FleetInit, StreamInit
<1> QED BY <1>1, <1>2, <1>3 DEF LoadInv, FreshWorkers, Reliable, Controlled

LEMMA LoadAlways == ASSUME OneStreamEach, ResumeOnlyPaused PROVE FleetSpec => []LoadInv
<1>1. LoadInv /\ [FleetNext]_fleetVars => LoadInv'
  BY LoadStep
<1> QED BY <1>1, LoadInit, PTL DEF FleetSpec

LEMMA OutcomeIsLatest ==
    ASSUME NEW s \in Streams, QueueInv, NEW n \in Jobs
    PROVE  Outcome(s, n) = OutcomeAt(Underway(s), running[Owner(s)], Len(Underway(s)), n)
<1> DEFINE q == Underway(s)
           A == {i \in 1..Len(q) : q[i].job = n}
           last == CHOOSE i \in A : \A k \in A : k <= i
<1>1. q \in Seq(RealCommand)
  BY DEF QueueInv, CommandsReal, Underway
<1>2. Len(q) \in Nat /\ DOMAIN q = 1..Len(q)
  BY <1>1
<1>3. Outcome(s, n) = IF A = {} THEN running[Owner(s)][n] ELSE q[last].conc
  BY <1>2 DEF Outcome
<1> HIDE DEF q
<1>4. A \in SUBSET (1..Len(q))
  OBVIOUS
<1>5. A # {} => last = Max(A)
  <2> HIDE DEF A
  <2> SUFFICES ASSUME A # {} PROVE last = Max(A)
    OBVIOUS
  <2>1. Max(A) \in A /\ \A i \in A : i <= Max(A)
    BY <1>2, <1>4, LatestOf
  <2>2. last \in A /\ \A k \in A : k <= last
    BY <2>1
  <2> QED BY <1>2, <1>4, <2>2, LatestOf
<1> QED BY <1>3, <1>5 DEF OutcomeAt, q

\* The ocean's records and a worker's load cannot drift apart: on a live stream
\* that has lost no command, the commands underway lead from what runs to what
\* is planned (services.go:537-736 against server.go:170-219), for any number
\* of tests and workers and any buffers.
THEOREM CommandsDoConverge ==
    ASSUME OneStreamEach, ResumeOnlyPaused
    PROVE  FleetSpec => []CommandsConverge
<1>1. LoadInv => CommandsConverge
  <2> SUFFICES ASSUME LoadInv, NEW w \in Workers, Reliable(w), NEW n \in Jobs
               PROVE  Outcome(conn[w], n) = Planned(w, n)
    BY DEF CommandsConverge, Reliable
  <2>1. conn[w] \in Streams /\ Owner(conn[w]) = w
    BY ReliableType
  <2>2. IsLed(w) /\ QueueInv
    BY DEF LoadInv
  <2>3. OutcomeAt(Underway(conn[w]), running[w], Len(Underway(conn[w])), n) = Planned(w, n)
    BY <2>2 DEF IsLed, Led, Leads, PlannedOn, Underway
  <2> QED BY <2>1, <2>2, <2>3, OutcomeIsLatest
<1> QED BY <1>1, LoadAlways, PTL

\* "capped per worker": a worker never runs more than it registered for,
\* although the ocean gives a stopped test's capacity to the next test before
\* the worker has stopped anything (services.go:584-620, server.go:170-219).
THEOREM WorkersAreNeverOverloaded ==
    ASSUME OneStreamEach, ResumeOnlyPaused
    PROVE  FleetSpec => []NeverOverloaded
<1>1. LoadInv => NeverOverloaded
  <2> SUFFICES ASSUME LoadInv, NEW w \in Workers, Reliable(w)
               PROVE  Total(running[w]) <= cap[w]
    BY DEF NeverOverloaded, Reliable
  <2> DEFINE q == toWorker[conn[w]] \o send[conn[w]]
  <2>1. Led(q, running[w], PlannedOn(w), cap[w])
    BY DEF LoadInv, IsLed
  <2>2. q \in Seq(RealCommand)
    BY ReliableType
  <2> HIDE DEF q
  <2>3. 0 \in 0..Len(q)
    BY <2>2
  <2>4. Total([n \in Jobs |-> OutcomeAt(q, running[w], 0, n)]) <= cap[w]
    BY <2>1, <2>3 DEF Led, Fits
  <2>5. [n \in Jobs |-> OutcomeAt(q, running[w], 0, n)] = running[w]
    BY OutcomeOfNone DEF LoadInv, FleetInv, FleetTypeOK, WorkerTypeOK
  <2> QED BY <2>4, <2>5
<1> QED BY <1>1, LoadAlways, PTL

\* "Stop stops a running test on all its workers" (services.go:584), as far as
\* it goes: a worker that has lost no command and has none to come runs nothing
\* that has been stopped.  After a command has been dropped, or a test resumed
\* that was not paused, it may (FleetResume).
THEOREM StopIsObeyed ==
    ASSUME OneStreamEach, ResumeOnlyPaused
    PROVE  FleetSpec => [](\A w \in Workers : Reliable(w) /\ Underway(conn[w]) = <<>> =>
                              \A n \in Jobs : running[w][n] > 0 => n \in jobs \ paused)
<1> DEFINE Obeyed == \A w \in Workers : Reliable(w) /\ Underway(conn[w]) = <<>> =>
                         \A n \in Jobs : running[w][n] > 0 => n \in jobs \ paused
<1>1. LoadInv => Obeyed
  <2> SUFFICES ASSUME LoadInv, NEW w \in Workers, Reliable(w), Underway(conn[w]) = <<>>,
                      NEW n \in Jobs, running[w][n] > 0
               PROVE  n \in jobs \ paused
    OBVIOUS
  <2>1. Led(<<>>, running[w], PlannedOn(w), cap[w])
    BY DEF LoadInv, IsLed, Underway
  <2>2. Len(<<>>) = 0
    OBVIOUS
  <2>3. OutcomeAt(<<>>, running[w], 0, n) = Planned(w, n)
    BY <2>1, <2>2 DEF Led, Leads, PlannedOn
  <2>4. running[w][n] = Planned(w, n)
    BY <2>3, OutcomeOfNone
  <2> QED BY <2>4 DEF Planned
<1> HIDE DEF Obeyed
<1>2. FleetSpec => []Obeyed
  BY <1>1, LoadAlways, PTL
<1> QED BY <1>2 DEF Obeyed

\* With real workers, too, the ocean implements the reservation system: what
\* its used counters say is what its tests hold (services.go:537-736).
THEOREM FleetImplementsReservation ==
    ASSUME OneStreamEach
    PROVE  FleetSpec => ImplementsReservation /\ []ExactAccounting
BY FleetRefinesOcean, OceanImplementsReservation, AccountingIsExact, PTL DEF ImplementsOcean
=============================================================================

-------------------------------- MODULE Fleet -------------------------------
(***************************************************************************)
(* The ocean and its workers, joined by their streams: what a client asks  *)
(* of the ocean, and what load really runs.                                *)
(***************************************************************************)
EXTENDS Ocean, Worker

fleetVars == <<streamVars, oceanVars, workerVars>>

FleetInit == StreamInit /\ OceanInit /\ WorkerInit

\* One step of the ocean, of a worker, of a worker's connection attempt, or
\* of the network.
OceanMoves  == OceanStep /\ UNCHANGED workerVars
WorkerMoves == (\E w \in Workers : WorkerStep(w)) /\ UNCHANGED oceanVars
WorkerDials ==
    /\ \E w \in Workers, s \in Streams, c \in Caps : SlotFree(s) /\ Attach(w, s, c)
    /\ UNCHANGED oceanVars
NetworkFails == (\E s \in Streams : Cut(s)) /\ UNCHANGED <<oceanVars, workerVars>>

FleetNext == OceanMoves \/ WorkerMoves \/ WorkerDials \/ NetworkFails

\* Every goroutine that can run eventually does.  Clients, crashes, dials and
\* failures of the network are under no obligation to happen.
FleetFairness ==
    /\ \A s \in Streams : WF_fleetVars(Receiver(s) /\ UNCHANGED workerVars)
    /\ \A s \in Streams : WF_fleetVars(Sender(s) /\ UNCHANGED workerVars)
    /\ \A w \in Workers : WF_fleetVars(HandleCommand(w) /\ UNCHANGED oceanVars)
    /\ \A w \in Workers : WF_fleetVars(StreamEnds(w) /\ UNCHANGED oceanVars)
    /\ \A w \in Workers : WF_fleetVars(StopAll(w) /\ UNCHANGED oceanVars)
    /\ \A w \in Workers : WF_fleetVars(Tick(w) /\ UNCHANGED oceanVars)
    /\ \A w \in Workers : WF_fleetVars(SendReport(w) /\ UNCHANGED oceanVars)

FleetSpec == FleetInit /\ [][FleetNext]_fleetVars
FairFleetSpec == FleetSpec /\ FleetFairness

\* What GetSample answers: the workers whose latest request of test n it shows.
GetSample(n) == {w \in Attached : n \in samples[w]}

-----------------------------------------------------------------------------
(* Properties.                                                             *)

FleetTypeOK == TypeOK /\ WorkerTypeOK

\* The worker's stream is alive and is the one registered under its id.
Controlled(w) == conn[w] \in linked /\ workers[w] = conn[w]

\* Commands on their way to worker w, oldest first.
Underway(s) == toWorker[s] \o send[s]

\* What service n of a worker on stream s will be once every command that is
\* underway has been handled.
Outcome(s, n) ==
    LET about == {i \in DOMAIN Underway(s) : Underway(s)[i].job = n}
    IN  IF about = {}
        THEN running[Owner(s)][n]
        ELSE Underway(s)[CHOOSE i \in about : \A k \in about : k <= i].conc

\* What the ocean's records say should run on w.
Planned(w, n) == IF n \in jobs \ paused THEN held[n][w] ELSE 0

\* The ocean's records and a worker's load cannot drift apart: on a live stream
\* that has lost no command, the commands underway lead from what runs to what
\* is planned, through any mixture of Start, Stop, Pause, Resume and
\* re-allocation (services.go:538-736 against server.go:170-219).
CommandsConverge ==
    \A w \in Workers : Controlled(w) /\ conn[w] \notin dropped =>
        \A n \in Jobs : Outcome(conn[w], n) = Planned(w, n)

\* A worker never runs more than it registered for, although the ocean hands a
\* stopped test's capacity to the next test before the worker has stopped
\* anything: the order of the stream protects it ("capped per worker").
NeverOverloaded ==
    \A w \in Workers : Controlled(w) /\ conn[w] \notin dropped =>
        Total(running[w]) <= cap[w]

\* "Stop stops a running test on all its workers" (services.go:584): when no
\* command is underway to an attached worker, it runs nothing that has been
\* stopped.
StopLeavesNoLoad ==
    \A w \in Workers : Controlled(w) /\ Underway(conn[w]) = <<>> =>
        \A n \in Jobs : running[w][n] > 0 => n \in jobs

\* "a worker can never keep hammering a target without a controlling ocean"
\* (server.go:92-93): load outside the control of an ocean comes to an end, or
\* the worker comes under control again.
UncontrolledLoadEnds ==
    \A w \in Workers :
        running[w] # Idle /\ ~Controlled(w) ~> running[w] = Idle \/ Controlled(w)

\* A stopped test stops on every worker that has lost no command, unless it is
\* started again first (client.go:66-74, server.go:129-137).
StopTakesEffect ==
    \A w \in Workers, n \in Jobs :
        running[w][n] > 0 /\ n \notin jobs
            ~> running[w][n] = 0 \/ n \in jobs \/ conn[w] \in dropped

\* A test that should be running shows up in the ocean's caches, metric and
\* sample, unless it is paused or stopped, its worker goes, or its command was
\* lost (server.go:140-168, client.go:77-137, services.go:846-886; ReportKinds = {TRUE}).
Reportable(w, n) == Planned(w, n) > 0 /\ Controlled(w) /\ conn[w] \notin dropped
ReportsArrive ==
    \A w \in Workers, n \in Jobs :
        Reportable(w, n) ~> (n \in metrics[w] /\ w \in GetSample(n)) \/ ~Reportable(w, n)

\* Without half-open streams a sender goroutine always ends after its handler
\* has returned (client.go:66-74, and the close at 113).
SendersEnd == \A s \in Streams : s \in senders /\ s \notin serving ~> s \notin senders

\* The workers behave as the ocean's environment is assumed to (Ocean.Spec).
ImplementsOcean == Spec
=============================================================================

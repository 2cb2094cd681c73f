------------------------------- MODULE Ocean --------------------------------
(***************************************************************************)
(* The ocean (master/): the job distributor.  It keeps a registry of the   *)
(* workers attached to it over gRPC streams, splits each test over them,   *)
(* and caches what they report.  All of its state is in memory.            *)
(*                                                                         *)
(* Every HTTP handler and every stream callback takes the ocean's mutex    *)
(* for its whole effect, so each is one atomic action here.  What          *)
(* interleaves is: the handlers, one Attach goroutine per stream (Join,    *)
(* OnReport, OnSample, Leave), one sender goroutine per stream (Deliver,   *)
(* SenderExits), the network, and the workers.                             *)
(*                                                                         *)
(* A rejected request (409, 404, 503) answers the client and changes       *)
(* nothing; it has no action, with one exception: a Resume that is turned  *)
(* down has released and restored its reservation on the way.              *)
(***************************************************************************)
EXTENDS Stream, Allocation

CONSTANTS
    Caps,              \* the capacities workers register with
    Requests,          \* the concurrencies clients ask for
    MaxConnections,    \* max_connections; 0 means no limit
    SendCap,           \* capacity of attachedWorker.send (32 in the code)
    ResumeOnlyPaused   \* TRUE when clients resume paused tests only, as the web control does

ASSUME OceanAssumption ==
    /\ Caps \subseteq Nat
    /\ Requests \subseteq Nat
    /\ MaxConnections \in Nat
    /\ SendCap \in Nat \ {0}
    /\ ResumeOnlyPaused \in BOOLEAN

VARIABLES
    workers,  \* workers[w]: the stream whose attachedWorker is registered as w, or NoStream
    cap,      \* maxCap of that entry
    used,     \* its used counter
    metrics,  \* the jobs its metrics map holds an entry for
    samples,  \* the jobs its samples map holds an entry for
    jobs,     \* the names in oc.jobs
    held,     \* held[n][w]: job n's assignment on w, 0 if absent
    conc,     \* job n's rawConf.Concurrence
    paused,   \* the jobs with paused = true
    serving,  \* the streams whose Attach handler is in its receive loop
    pending,  \* the job whose sample the receive loop is about to store
    send,     \* send[s]: the buffered command channel made for stream s
    open,     \* the streams whose channel is not closed
    senders,  \* the streams whose sender goroutine runs
    dropped   \* the streams for which command() logged a dropped command

registryVars == <<workers, cap, used, metrics, samples>>
jobVars      == <<jobs, held, conc, paused>>
handlerVars  == <<serving, pending>>
senderVars   == <<send, open, senders, dropped>>
oceanVars    == <<registryVars, jobVars, handlerVars, senderVars>>

-----------------------------------------------------------------------------

Attached == {w \in Workers : workers[w] # NoStream}

Nothing == [w \in Workers |-> 0]

\* BUG VARIANT of FreeCapacity: what is reserved already is not subtracted.
FreeCapacity_Whole(u) == [w \in Workers |-> IF w \in Attached THEN cap[w] ELSE 0]

\* What allocate computes first: the clamped free capacity of every worker.
FreeCapacity(u) ==
    [w \in Workers |-> IF w \in Attached THEN AtLeastZero(cap[w] - u[w]) ELSE 0]

\* used after job n's assignments have been given back, with the code's clamp.
Released(n) ==
    [w \in Workers |-> IF w \in Attached THEN AtLeastZero(used[w] - held[n][w]) ELSE used[w]]

\* BUG VARIANT of Reserved: the counter is set, not increased.
Reserved_Overwrites(u, plan) == [w \in Workers |-> IF plan[w] > 0 THEN plan[w] ELSE u[w]]

\* used after a plan has been reserved on top of u.
Reserved(u, plan) == [w \in Workers |-> u[w] + plan[w]]

Assigned(plan) == {w \in Workers : plan[w] > 0}

\* Forget what is cached about n at the given workers.
Forget(cache, n, ws) ==
    [w \in Workers |-> IF w \in ws THEN cache[w] \ {n} ELSE cache[w]]

\* attachedWorker.command(cmd[w]) at each of the given workers: buffered, or
\* dropped when the buffer is full.
SendTo(ws, cmd) ==
    LET target == {s \in Streams : Owner(s) \in ws /\ workers[Owner(s)] = s}
        full   == {s \in target : Len(send[s]) >= SendCap}
    IN  /\ send' = [s \in Streams |-> IF s \in target \ full
                                      THEN Append(send[s], cmd[Owner(s)])
                                      ELSE send[s]]
        /\ dropped' = dropped \cup full
        /\ UNCHANGED <<open, senders>>

StartCommands(n, plan) == [w \in Workers |-> StartCommand(n, plan[w])]
StopCommands(n)        == [w \in Workers |-> StopCommand(n)]

-----------------------------------------------------------------------------
(* The Attach goroutine of one stream.                                     *)

\* A slot that a new stream can take: nothing of an earlier one is left.
SlotFree(s) ==
    /\ s \notin linked \cup serving \cup senders
    /\ toOcean[s] = <<>>

\* addWorker counts whoever is registered, the stale entry of the same id too.
AtLimit == MaxConnections > 0 /\ Cardinality(Attached) >= MaxConnections

\* The first message is a Register, and there is room for another connection:
\* addWorker, which replaces a stale entry with the same id.
Join(s) ==
    /\ s \notin serving
    /\ toOcean[s] # <<>>
    /\ Head(toOcean[s]).type = "register"
    /\ ~AtLimit
    /\ LET w == Owner(s) IN
        /\ workers' = [workers EXCEPT ![w] = s]
        /\ cap' = [cap EXCEPT ![w] = Head(toOcean[s]).cap]
        /\ used' = [used EXCEPT ![w] = 0]
        /\ metrics' = [metrics EXCEPT ![w] = {}]
        /\ samples' = [samples EXCEPT ![w] = {}]
    /\ serving' = serving \cup {s}
    /\ send' = [send EXCEPT ![s] = <<>>]
    /\ open' = open \cup {s}
    /\ senders' = senders \cup {s}
    /\ dropped' = dropped \ {s}
    /\ TakeUp(s)
    /\ UNCHANGED <<jobVars, pending>>

\* The ocean is at max_connections, or the stream broke before its Register
\* was read: the handler returns at once.
Refuse(s) ==
    /\ s \notin serving
    /\ toOcean[s] # <<>>
    /\ AtLimit \/ s \notin linked
    /\ EndRPC(s)
    /\ UNCHANGED oceanVars

\* onReport: looked up by worker id, whatever stream the report came on.
OnReport(s) ==
    /\ s \in serving
    /\ pending[s] = {}
    /\ toOcean[s] # <<>>
    /\ LET m == Head(toOcean[s])
           w == Owner(s)
       IN  /\ m.type = "report"
           /\ metrics' = [metrics EXCEPT ![w] = IF w \in Attached THEN @ \cup {m.job} ELSE @]
           /\ pending' = [pending EXCEPT ![s] = IF m.sample THEN {m.job} ELSE {}]
    /\ TakeUp(s)
    /\ UNCHANGED <<workers, cap, used, samples, jobVars, serving, senderVars>>

\* BUG VARIANT of OnSample: the sample is not stored.
OnSample_Lost(s) ==
    /\ s \in serving
    /\ pending[s] # {}
    /\ pending' = [pending EXCEPT ![s] = {}]
    /\ UNCHANGED <<registryVars, jobVars, serving, senderVars, streamVars>>

\* onSample: the second critical section of the same report.
OnSample(s) ==
    /\ s \in serving
    /\ pending[s] # {}
    /\ LET w == Owner(s)
       IN  samples' = [samples EXCEPT ![w] = IF w \in Attached THEN @ \cup pending[s] ELSE @]
    /\ pending' = [pending EXCEPT ![s] = {}]
    /\ UNCHANGED <<workers, cap, used, metrics, jobVars, serving, senderVars, streamVars>>

\* removeWorker, in its three parts: the entry is deleted, ...

\* BUG VARIANT of Unregister: the entry stays.
Unregister_Forgotten(w) == UNCHANGED registryVars

Unregister(w) ==
    /\ workers' = [workers EXCEPT ![w] = NoStream]
    /\ cap' = [cap EXCEPT ![w] = 0]
    /\ used' = [used EXCEPT ![w] = 0]
    /\ metrics' = [metrics EXCEPT ![w] = {}]
    /\ samples' = [samples EXCEPT ![w] = {}]

\* BUG VARIANT of CloseChannel: the channel stays open.
CloseChannel_Forgotten(e) == UNCHANGED <<send, open, dropped>>

\* ... its channel is closed (a closed channel without a sender is garbage) ...
CloseChannel(e) ==
    /\ open' = open \ {e}
    /\ dropped' = dropped \ {e}
    /\ send' = IF e \in Streams \ senders THEN [send EXCEPT ![e] = <<>>] ELSE send

\* BUG VARIANT of DetachJobs: the jobs keep their assignments.
DetachJobs_Forgotten(w) == UNCHANGED held

\* ... and every job loses its assignment on the worker.
DetachJobs(w) == held' = [n \in Jobs |-> [held[n] EXCEPT ![w] = 0]]

\* The receive loop ends and the deferred removeWorker runs: it removes, by
\* id, whatever entry is registered now.
Leave(s) ==
    /\ s \in serving
    /\ s \notin linked
    /\ pending[s] = {}
    /\ serving' = serving \ {s}
    /\ Unregister(Owner(s))
    /\ CloseChannel(workers[Owner(s)])
    /\ DetachJobs(Owner(s))
    /\ EndRPC(s)
    /\ UNCHANGED <<jobs, conc, paused, pending, senders>>

-----------------------------------------------------------------------------
(* The sender goroutine of one stream.                                     *)

\* BUG VARIANT of Deliver: the newest command goes first.
Deliver_NewestFirst(s) ==
    /\ s \in senders
    /\ send[s] # <<>>
    /\ PutDown(s, send[s][Len(send[s])])
    /\ send' = [send EXCEPT ![s] = SubSeq(@, 1, Len(@) - 1)]
    /\ UNCHANGED <<registryVars, jobVars, handlerVars, open, senders, dropped>>

Deliver(s) ==
    /\ s \in senders
    /\ send[s] # <<>>
    /\ PutDown(s, Head(send[s]))
    /\ send' = [send EXCEPT ![s] = Tail(@)]
    /\ UNCHANGED <<registryVars, jobVars, handlerVars, open, senders, dropped>>

\* stream.Send fails, or the channel is closed and drained.  A closed channel
\* without its sender is garbage.
SenderExits(s) ==
    /\ s \in senders
    /\ \/ send[s] # <<>> /\ s \notin linked
       \/ send[s] = <<>> /\ s \notin open
    /\ senders' = senders \ {s}
    /\ send' = [send EXCEPT ![s] = IF s \in open THEN Tail(@) ELSE <<>>]
    /\ UNCHANGED <<registryVars, jobVars, handlerVars, open, dropped, streamVars>>

-----------------------------------------------------------------------------
(* The HTTP handlers.                                                      *)

\* Start: 409 if the name is taken, 503 if the fleet cannot cover it.
Start(n, requested) ==
    /\ n \notin jobs
    /\ Coverable(FreeCapacity(used), requested)
    /\ LET plan == Allocation(FreeCapacity(used), requested) IN
        /\ metrics' = Forget(metrics, n, Attached)
        /\ samples' = Forget(samples, n, Attached)
        /\ used' = Reserved(used, plan)
        /\ SendTo(Assigned(plan), StartCommands(n, plan))
        /\ jobs' = jobs \cup {n}
        /\ held' = [held EXCEPT ![n] = plan]
        /\ conc' = [conc EXCEPT ![n] = requested]
    /\ UNCHANGED <<workers, cap, paused, handlerVars, streamVars>>

\* Stop: 404 if there is no such job.
Stop(n) ==
    /\ n \in jobs
    /\ LET ws == Assigned(held[n]) \cap Attached IN
        /\ used' = Released(n)
        /\ SendTo(ws, StopCommands(n))
        /\ metrics' = Forget(metrics, n, ws)
        /\ samples' = Forget(samples, n, ws)
    /\ jobs' = jobs \ {n}
    /\ held' = [held EXCEPT ![n] = Nothing]
    /\ conc' = [conc EXCEPT ![n] = 0]
    /\ paused' = paused \ {n}
    /\ UNCHANGED <<workers, cap, handlerVars, streamVars>>

\* Pause: the same commands, but the reservation stays.  A paused job may be
\* paused again.
Pause(n) ==
    /\ n \in jobs
    /\ LET ws == Assigned(held[n]) \cap Attached IN
        /\ SendTo(ws, StopCommands(n))
        /\ metrics' = Forget(metrics, n, ws)
        /\ samples' = Forget(samples, n, ws)
    /\ paused' = paused \cup {n}
    /\ UNCHANGED <<workers, cap, used, jobs, held, conc, handlerVars, streamVars>>

\* Whether Resume has to re-allocate: the concurrency asked for is not the one held.
Reallocates(n, requested) == requested > 0 /\ requested # Total(held[n])

ResumeAllowed(n) == n \in jobs /\ (ResumeOnlyPaused => n \in paused)

\* Resume with the concurrency of the job's own configuration or, when a
\* bookmark of the same name exists, with the bookmark's.
Resume(n, requested) ==
    /\ ResumeAllowed(n)
    /\ LET free == FreeCapacity(Released(n))
           plan == IF Reallocates(n, requested) THEN Allocation(free, requested) ELSE held[n]
       IN  /\ Reallocates(n, requested) => Coverable(free, requested)
           /\ used' = IF Reallocates(n, requested) THEN Reserved(Released(n), plan) ELSE used
           /\ SendTo(Assigned(plan) \cap Attached, StartCommands(n, plan))
           /\ held' = [held EXCEPT ![n] = plan]
    /\ conc' = [conc EXCEPT ![n] = requested]
    /\ paused' = paused \ {n}
    /\ UNCHANGED <<workers, cap, metrics, samples, jobs, handlerVars, streamVars>>

\* Resume when the fleet cannot cover the edited concurrency: the reservation
\* was released with a clamp and is now added back.
ResumeRejected(n, requested) ==
    /\ ResumeAllowed(n)
    /\ Reallocates(n, requested)
    /\ ~Coverable(FreeCapacity(Released(n)), requested)
    /\ used' = [w \in Workers |-> IF w \in Attached THEN Released(n)[w] + held[n][w] ELSE used[w]]
    /\ UNCHANGED <<workers, cap, metrics, samples, jobVars, handlerVars, senderVars, streamVars>>

ClientRequest ==
    \E n \in Jobs :
        \/ \E c \in Requests : Start(n, c)
        \/ Stop(n)
        \/ Pause(n)
        \/ \E c \in Requests \cup {conc[n]} : Resume(n, c) \/ ResumeRejected(n, c)

-----------------------------------------------------------------------------

\* The process dies and comes back: nothing is persisted, every stream ends.
OceanCrash ==
    /\ workers' = [w \in Workers |-> NoStream]
    /\ cap' = Nothing /\ used' = Nothing
    /\ metrics' = [w \in Workers |-> {}] /\ samples' = [w \in Workers |-> {}]
    /\ jobs' = {} /\ paused' = {}
    /\ held' = [n \in Jobs |-> Nothing] /\ conc' = [n \in Jobs |-> 0]
    /\ serving' = {} /\ pending' = [s \in Streams |-> {}]
    /\ send' = [s \in Streams |-> <<>>]
    /\ open' = {} /\ senders' = {} /\ dropped' = {}
    /\ linked' = {}
    /\ toOcean' = [s \in Streams |-> <<>>]
    /\ UNCHANGED toWorker

OceanInit ==
    /\ workers = [w \in Workers |-> NoStream]
    /\ cap = Nothing /\ used = Nothing
    /\ metrics = [w \in Workers |-> {}] /\ samples = [w \in Workers |-> {}]
    /\ jobs = {} /\ paused = {}
    /\ held = [n \in Jobs |-> Nothing] /\ conc = [n \in Jobs |-> 0]
    /\ serving = {} /\ pending = [s \in Streams |-> {}]
    /\ send = [s \in Streams |-> <<>>]
    /\ open = {} /\ senders = {} /\ dropped = {}

\* The two goroutines of a stream.
Receiver(s) == Join(s) \/ Refuse(s) \/ OnReport(s) \/ OnSample(s) \/ Leave(s)
Sender(s)   == Deliver(s) \/ SenderExits(s)

OceanStep == ClientRequest \/ OceanCrash \/ \E s \in Streams : Receiver(s) \/ Sender(s)

-----------------------------------------------------------------------------
(* The ocean in an environment of workers that dial, report and read as    *)
(* they please; a worker has one live stream at a time.                    *)

EnvDial(s) ==
    /\ SlotFree(s)
    /\ \A t \in linked : Owner(t) # Owner(s)
    /\ \E c \in Caps : Dial(s, c)

EnvReport(s) == \E n \in Jobs, v \in ReportKinds : PutUp(s, Report(n, v))

Environment ==
    /\ \E s \in Streams : EnvDial(s) \/ EnvReport(s) \/ TakeDown(s) \/ Cut(s)
    /\ UNCHANGED oceanVars

Init == StreamInit /\ OceanInit
Next == OceanStep \/ Environment
vars == <<streamVars, oceanVars>>
Spec == Init /\ [][Next]_vars
-----------------------------------------------------------------------------
(* Properties.                                                             *)

\* That used is a natural number is what the clamps of Stop and Resume
\* (services.go:606, 700) are for: an entry that replaced another one starts at
\* zero although the tests still hold what they were assigned on the old one.
TypeOK ==
    /\ StreamTypeOK
    /\ workers \in [Workers -> Streams \cup {NoStream}]
    /\ cap \in [Workers -> Nat]
    /\ used \in [Workers -> Nat]
    /\ metrics \in [Workers -> SUBSET Jobs]
    /\ samples \in [Workers -> SUBSET Jobs]
    /\ jobs \subseteq Jobs
    /\ held \in [Jobs -> [Workers -> Nat]]
    /\ conc \in [Jobs -> Nat]
    /\ paused \subseteq jobs
    /\ serving \subseteq Streams
    /\ pending \in [Streams -> SUBSET Jobs]
    /\ send \in [Streams -> Seq(Command)]
    /\ open \subseteq Streams
    /\ senders \subseteq Streams
    /\ dropped \subseteq Streams

\* A registered worker has a live handler and an open channel: a command is
\* never sent on a closed channel and no channel is closed twice (either one
\* panics the ocean), and no entry outlives the handler that would remove it.
RegistrySound ==
    \A w \in Attached : workers[w] \in serving \cap open /\ Owner(workers[w]) = w

\* "detach it from any jobs" (client.go:104-105): concurrency is only ever
\* assigned to attached workers, by jobs that exist.
AssignedAreAttached ==
    \A n \in Jobs : Assigned(held[n]) # {} => n \in jobs /\ Assigned(held[n]) \subseteq Attached

\* What the jobs hold on a worker together.
Load(w) == Total([n \in Jobs |-> held[n][w]])

\* The used counter, adjusted by Start, Stop, Pause, Resume and a rejected
\* Resume in five different ways, is exactly the sum of the assignments.
ExactAccounting == \A w \in Workers : used[w] = Load(w)

\* However the streams of one worker overlap, no counter is higher than what the
\* tests hold on its worker: once they have been stopped, all of it is free again
\* (services.go:597-609).  A rejected Resume may add more than it has released,
\* where the clamp bit, but never more than that (services.go:706-714).
NeverTooHigh == \A w \in Workers : used[w] <= Load(w)

\* No worker is promised more than it registered for (services.go:126-131,
\* 572-574).  If they offer different capacities this holds with clean redials
\* only: a rejected Resume may restore what was assigned on a larger entry.
WithinCapacity == \A w \in Workers : used[w] <= cap[w]

\* max_connections bounds the registered workers (client.go:91, 95).
ConnectionLimit == MaxConnections > 0 => Cardinality(Attached) <= MaxConnections

\* The ocean implements the abstract reservation system, with the capacities
\* and assignments as they are and without its used counters.
Abstract == INSTANCE Reservation WITH capacity <- cap, active <- jobs, plan <- held
ImplementsReservation == Abstract!Spec
=============================================================================

------------------------------- MODULE Worker -------------------------------
(***************************************************************************)
(* The worker process (worker/server.go): it keeps one stream to an ocean, *)
(* starts and stops load on command, reports what it runs, and stops       *)
(* everything when the stream is gone.                                     *)
(*                                                                         *)
(* Its goroutines are the connection loop (Run, attachOnce: Attach,        *)
(* HandleCommand, StreamEnds, StopAll) and the report loop (Tick,          *)
(* SendReport).  ctrl.services is guarded by c.mu; a report is built under *)
(* the mutex and sent after it has been released.                          *)
(*                                                                         *)
(* A service is an entry of ctrl.services here; what its goroutines do is  *)
(* modelled in Engine.                                                     *)
(***************************************************************************)
EXTENDS Stream

VARIABLES
    phase,    \* "idle": between attempts; "attached": in attachOnce; "lost": before stopAll
    conn,     \* the stream attachOnce works on, or NoStream
    running,  \* running[w][n]: the concurrency of service n, 0 if there is none
    batch     \* the reports of the current tick that are still to be sent

workerVars == <<phase, conn, running, batch>>

Idle == [n \in Jobs |-> 0]

-----------------------------------------------------------------------------

\* BUG VARIANT of Attach: the Register is not sent.
Attach_Unregistered(w, s, c) ==
    /\ phase[w] = "idle"
    /\ Owner(s) = w
    /\ linked' = linked \cup {s}
    /\ phase' = [phase EXCEPT ![w] = "attached"]
    /\ conn' = [conn EXCEPT ![w] = s]
    /\ UNCHANGED <<running, batch, toOcean, toWorker>>

\* attachOnce dials and registers.
Attach(w, s, c) ==
    /\ phase[w] = "idle"
    /\ Owner(s) = w
    /\ Dial(s, c)
    /\ phase' = [phase EXCEPT ![w] = "attached"]
    /\ conn' = [conn EXCEPT ![w] = s]
    /\ UNCHANGED <<running, batch>>

\* BUG VARIANT of HandleCommand: STOP is not recognised.
HandleCommand_NoStop(w) ==
    /\ phase[w] = "attached"
    /\ toWorker[conn[w]] # <<>>
    /\ LET cmd == Head(toWorker[conn[w]])
       IN  running' = [running EXCEPT ![w][cmd.job] =
                          IF cmd.action = "START" THEN cmd.conc ELSE @]
    /\ TakeDown(conn[w])
    /\ UNCHANGED <<phase, conn, batch>>

\* startService replaces a service of the same name; stopService is a no-op
\* for a name that is not running.
HandleCommand(w) ==
    /\ phase[w] = "attached"
    /\ toWorker[conn[w]] # <<>>
    /\ LET cmd == Head(toWorker[conn[w]])
       IN  running' = [running EXCEPT ![w][cmd.job] =
                          IF cmd.action = "START" THEN cmd.conc ELSE 0]
    /\ TakeDown(conn[w])
    /\ UNCHANGED <<phase, conn, batch>>

\* Recv fails: attachOnce returns, and closes done for the report loop.
StreamEnds(w) ==
    /\ phase[w] = "attached"
    /\ conn[w] \notin linked
    /\ phase' = [phase EXCEPT ![w] = "lost"]
    /\ conn' = [conn EXCEPT ![w] = NoStream]
    /\ batch' = [batch EXCEPT ![w] = {}]
    /\ UNCHANGED <<running, streamVars>>

\* BUG VARIANT of StopAll: the services go on.
StopAll_Skipped(w) ==
    /\ phase[w] = "lost"
    /\ phase' = [phase EXCEPT ![w] = "idle"]
    /\ UNCHANGED <<conn, running, batch, streamVars>>

\* The dead-man's switch, then the three seconds' sleep.
StopAll(w) ==
    /\ phase[w] = "lost"
    /\ running' = [running EXCEPT ![w] = Idle]
    /\ phase' = [phase EXCEPT ![w] = "idle"]
    /\ UNCHANGED <<conn, batch, streamVars>>

\* The report ticker: a snapshot of the services under c.mu.
Tick(w) ==
    /\ phase[w] = "attached"
    /\ ReportKinds # {}
    /\ batch[w] = {}
    /\ batch' = [batch EXCEPT ![w] = {n \in Jobs : running[w][n] > 0}]
    /\ UNCHANGED <<phase, conn, running, streamVars>>

\* One report of the snapshot goes out, outside the mutex and in any order
\* (the services are a map).
SendReport(w) ==
    /\ phase[w] = "attached"
    /\ \E n \in batch[w] :
        /\ \E v \in ReportKinds : PutUp(conn[w], Report(n, v))
        /\ batch' = [batch EXCEPT ![w] = @ \ {n}]
    /\ UNCHANGED <<phase, conn, running>>

\* The process dies and is started again.
WorkerCrash(w) ==
    /\ phase' = [phase EXCEPT ![w] = "idle"]
    /\ conn' = [conn EXCEPT ![w] = NoStream]
    /\ running' = [running EXCEPT ![w] = Idle]
    /\ batch' = [batch EXCEPT ![w] = {}]
    /\ linked' = linked \ {conn[w]}
    /\ UNCHANGED <<toOcean, toWorker>>

WorkerInit ==
    /\ phase = [w \in Workers |-> "idle"]
    /\ conn = [w \in Workers |-> NoStream]
    /\ running = [w \in Workers |-> Idle]
    /\ batch = [w \in Workers |-> {}]

WorkerStep(w) ==
    \/ HandleCommand(w) \/ StreamEnds(w) \/ StopAll(w)
    \/ Tick(w) \/ SendReport(w) \/ WorkerCrash(w)

\* Types, and what the phase says of the rest: only an attached worker has a
\* stream, its own, and reports to send on it; a worker between two streams
\* runs nothing (server.go:78-97).
WorkerTypeOK ==
    /\ phase \in [Workers -> {"idle", "attached", "lost"}]
    /\ conn \in [Workers -> Streams \cup {NoStream}]
    /\ running \in [Workers -> [Jobs -> Nat]]
    /\ batch \in [Workers -> SUBSET Jobs]
    /\ \A w \in Workers :
        /\ phase[w] = "attached" <=> conn[w] # NoStream
        /\ conn[w] # NoStream => Owner(conn[w]) = w
        /\ phase[w] = "idle" => running[w] = Idle
        /\ phase[w] # "attached" => batch[w] = {}
=============================================================================

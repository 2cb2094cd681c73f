------------------------------- MODULE Stream -------------------------------
(***************************************************************************)
(* The bidirectional gRPC stream that joins a worker to its ocean.  The    *)
(* transport is not part of this repository (google.golang.org/grpc): it   *)
(* is modelled from what master/client.go and worker/server.go rely on.    *)
(*                                                                         *)
(*   - Each direction delivers in order, without loss or duplication, for  *)
(*     as long as the stream lives.                                        *)
(*   - A send blocks while the flow-control window is full (NetCap).       *)
(*   - A stream may be cut at any moment.  The two ends learn about it     *)
(*     independently: each may still read what had reached it, or lose it. *)
(*                                                                         *)
(* A stream is a pair <<w, k>>: the k-th stream of worker id w.  A worker  *)
(* with one such pair redials only after the ocean has finished with its   *)
(* previous stream.  A worker with two may redial while the ocean still    *)
(* serves the old one (a half-open connection: no gRPC keepalive is set up *)
(* on either side).                                                        *)
(***************************************************************************)
EXTENDS Integers, Sequences, FiniteSets

CONSTANTS
    Workers,           \* worker ids, as their ranks in the order sort.Strings gives them
    Jobs,              \* test names
    Streams,           \* bound: the streams <<w, k>> that may exist at once
    NetCap,            \* bound: messages in flight in one direction of a stream
    ReportKinds        \* {} no reports, {FALSE} plain ones, {FALSE, TRUE} also verbose ones

ASSUME StreamAssumption ==
    /\ Workers \subseteq Nat /\ IsFiniteSet(Workers)
    /\ IsFiniteSet(Jobs)
    /\ Streams \subseteq Workers \X Nat
    /\ \A w \in Workers : \E s \in Streams : s[1] = w
    /\ NetCap \in Nat \ {0}
    /\ ReportKinds \subseteq BOOLEAN

Owner(s) == s[1]
NoStream == <<>>

VARIABLES
    linked,    \* the streams whose transport is alive
    toOcean,   \* toOcean[s]: messages from the worker not yet read by the ocean
    toWorker   \* toWorker[s]: messages from the ocean not yet read by the worker

streamVars == <<linked, toOcean, toWorker>>

-----------------------------------------------------------------------------
(* Messages.  Heartbeats change nothing at the receiver and are left out.  *)
(* A report carries one job's metric and, for a verbose job, its latest    *)
(* request and response (the sample); their contents are abstracted.       *)

Register(c)        == [type |-> "register", cap |-> c]
Report(n, verbose) == [type |-> "report", job |-> n, sample |-> verbose]

StartCommand(n, c) == [action |-> "START", job |-> n, conc |-> c]
StopCommand(n)     == [action |-> "STOP", job |-> n, conc |-> 0]

WorkerMessage == [type : {"register"}, cap : Nat]
                     \cup [type : {"report"}, job : Jobs, sample : BOOLEAN]
Command       == [action : {"START", "STOP"}, job : Jobs, conc : Nat]

-----------------------------------------------------------------------------

StreamTypeOK ==
    /\ linked \subseteq Streams
    /\ toOcean \in [Streams -> Seq(WorkerMessage)]
    /\ toWorker \in [Streams -> Seq(Command)]

StreamInit ==
    /\ linked = {}
    /\ toOcean = [s \in Streams |-> <<>>]
    /\ toWorker = [s \in Streams |-> <<>>]

\* The worker opens s and sends its Register.
Dial(s, c) ==
    /\ linked' = linked \cup {s}
    /\ toOcean' = [toOcean EXCEPT ![s] = <<Register(c)>>]
    /\ toWorker' = [toWorker EXCEPT ![s] = <<>>]

\* The transport fails.
Cut(s) ==
    /\ s \in linked
    /\ linked' = linked \ {s}
    /\ UNCHANGED <<toOcean, toWorker>>

\* stream.Send at the worker; disabled (it blocks) while the window is full.
PutUp(s, m) ==
    /\ s \in linked
    /\ Len(toOcean[s]) < NetCap
    /\ toOcean' = [toOcean EXCEPT ![s] = Append(@, m)]
    /\ UNCHANGED <<linked, toWorker>>

\* stream.Send at the ocean.
PutDown(s, m) ==
    /\ s \in linked
    /\ Len(toWorker[s]) < NetCap
    /\ toWorker' = [toWorker EXCEPT ![s] = Append(@, m)]
    /\ UNCHANGED <<linked, toOcean>>

\* stream.Recv at the ocean.
TakeUp(s) ==
    /\ toOcean[s] # <<>>
    /\ toOcean' = [toOcean EXCEPT ![s] = Tail(@)]
    /\ UNCHANGED <<linked, toWorker>>

\* stream.Recv at the worker.
TakeDown(s) ==
    /\ toWorker[s] # <<>>
    /\ toWorker' = [toWorker EXCEPT ![s] = Tail(@)]
    /\ UNCHANGED <<linked, toOcean>>

\* The ocean's handler of s returns: the RPC ends and what was unread is lost.
EndRPC(s) ==
    /\ linked' = linked \ {s}
    /\ toOcean' = [toOcean EXCEPT ![s] = <<>>]
    /\ UNCHANGED toWorker
=============================================================================

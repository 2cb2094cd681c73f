------------------------------ MODULE Discovery -----------------------------
(***************************************************************************)
(* How workers find an ocean when there are several (master/discovery.go,  *)
(* worker/discovery.go, etcd/client.go).  Every ocean publishes two keys   *)
(* in etcd under a lease that it keeps alive: how many workers it has, and *)
(* which tests it runs.  A worker reads the first, takes the ocean with    *)
(* the most free connections, and dials it; the ocean may have filled up   *)
(* by then and turn it away.                                               *)
(*                                                                         *)
(* A publication is a read under the ocean's mutex and, later, a Put: the  *)
(* heartbeat does one at a time, and every join and every departure starts *)
(* a goroutine that does one of its own, so Puts overtake one another.     *)
(*                                                                         *)
(* A stream is either there or not here; Ocean and Stream have its parts.  *)
(* Free load capacity only breaks ties between oceans and is left out, so  *)
(* that Resolve takes any of the best.                                     *)
(***************************************************************************)
EXTENDS Integers, FiniteSets

CONSTANTS
    Oceans, Workers, Tests,
    Limit,       \* Limit[o]: ocean o's max_connections; 0 means no limit
    MaxBoots,    \* bound: how often an ocean's process is started
    MaxTrouble,  \* bound: crashes, outages, lost streams and new tests, together
    Troubled     \* bound: the oceans and workers these, and lost leases, happen to

ASSUME DiscoveryAssumption ==
    /\ IsFiniteSet(Oceans) /\ IsFiniteSet(Workers)
    /\ Limit \in [Oceans -> Nat]
    /\ MaxBoots \in Nat
    /\ MaxTrouble \in Nat

None == "none"
ASSUME NoneAssumption == None \notin Oceans

VARIABLES
    up,        \* the oceans whose process runs
    lease,     \* the lease its latest process was granted, counted from 1; 0 if there was none
    kept,      \* the oceans that still send keep-alives
    tests,     \* the tests each ocean runs
    spawned,   \* publishOcean goroutines that have not read the counters yet
    outbox,    \* outbox[o][n]: goroutines of o about to publish the count n
    beat,      \* the heartbeat goroutine: what it has read and is about to publish
    home,      \* the ocean a worker is attached to, or None
    choice,    \* the ocean a worker is about to dial, or None
    etcdUp,    \* whether etcd answers
    alive,     \* the leases <<o, i>> that etcd holds
    oceanKey,  \* the key under /tsunami/oceans/: [lease, n], with lease = 0 if there is no key
    fleetKey,  \* the key under /tsunami/fleet/: [lease, tests]
    trouble    \* what has gone wrong so far, up to MaxTrouble

oceanSide  == <<up, lease, kept, tests, spawned, outbox, beat>>
workerSide == <<home, choice>>
etcdSide   == <<etcdUp, alive, oceanKey, fleetKey>>
vars == <<oceanSide, workerSide, etcdSide, trouble>>

-----------------------------------------------------------------------------

Members(o) == {w \in Workers : home[w] = o}
Count(o)   == Cardinality(Members(o))

\* BUG VARIANT of Full: > instead of >=.
Full_OffByOne(o) == Limit[o] > 0 /\ Count(o) > Limit[o]

Full(o) == Limit[o] > 0 /\ Count(o) >= Limit[o]

NoOceanKey == [lease |-> 0, n |-> 0]
NoFleetKey == [lease |-> 0, tests |-> {}]
Resting    == [at |-> "rest", n |-> 0, tests |-> {}]
NoPuts     == [n \in 0..Cardinality(Workers) |-> 0]

\* BUG VARIANT of CanPut: the key is written without its lease.
CanPut_Unleased(o) == etcdUp

\* Client.Put: under a lease that etcd does not hold it fails.
CanPut(o) == etcdUp /\ <<o, lease[o]>> \in alive

\* publishOcean's and publishFleet's last statements: nobody looks at the error.
PutCount(o, n) ==
    /\ oceanKey' = [oceanKey EXCEPT ![o] =
                        IF CanPut(o) THEN [lease |-> lease[o], n |-> n] ELSE @]
    /\ UNCHANGED <<etcdUp, alive, fleetKey>>

PutTests(o, ts) ==
    /\ fleetKey' = [fleetKey EXCEPT ![o] =
                        IF CanPut(o) THEN [lease |-> lease[o], tests |-> ts] ELSE @]
    /\ UNCHANGED <<etcdUp, alive, oceanKey>>

Trouble ==
    /\ trouble < MaxTrouble
    /\ trouble' = trouble + 1

-----------------------------------------------------------------------------
(* The ocean's process.                                                    *)

\* NewClient: a connection and a session, without which the process exits.
NewClient == etcdUp

\* Client.Grant: a lease that no earlier process of the ocean had.
Grant(o) ==
    /\ lease' = [lease EXCEPT ![o] = @ + 1]
    /\ alive' = alive \cup {<<o, lease[o] + 1>>}

\* initDiscovery: a lease, the first publication, keep-alives.  The process
\* exits if etcd fails it here, and serves no worker before it is through.
Boot(o) ==
    /\ o \notin up
    /\ NewClient
    /\ lease[o] < MaxBoots
    /\ up' = up \cup {o}
    /\ Grant(o)
    /\ kept' = kept \cup {o}
    /\ oceanKey' = [oceanKey EXCEPT ![o] = [lease |-> lease[o] + 1, n |-> 0]]
    /\ UNCHANGED <<tests, spawned, outbox, beat, workerSide, etcdUp, fleetKey, trouble>>

Crash(o) ==
    /\ o \in up \cap Troubled
    /\ Trouble
    /\ up' = up \ {o}
    /\ kept' = kept \ {o}
    /\ tests' = [tests EXCEPT ![o] = {}]
    /\ spawned' = [spawned EXCEPT ![o] = 0]
    /\ outbox' = [outbox EXCEPT ![o] = NoPuts]
    /\ beat' = [beat EXCEPT ![o] = Resting]
    /\ home' = [w \in Workers |-> IF home[w] = o THEN None ELSE home[w]]
    /\ UNCHANGED <<lease, choice, etcdSide>>

StartTest(o, n) ==
    /\ o \in up \cap Troubled
    /\ n \notin tests[o]
    /\ Trouble
    /\ tests' = [tests EXCEPT ![o] = @ \cup {n}]
    /\ UNCHANGED <<up, lease, kept, spawned, outbox, beat, workerSide, etcdSide>>

StopTest(o, n) ==
    /\ n \in tests[o]
    /\ tests' = [tests EXCEPT ![o] = @ \ {n}]
    /\ UNCHANGED <<up, lease, kept, spawned, outbox, beat, workerSide, etcdSide, trouble>>

\* A goroutine started by addWorker or removeWorker: it reads, ...
ReadCount(o) ==
    /\ spawned[o] > 0
    /\ spawned' = [spawned EXCEPT ![o] = @ - 1]
    /\ outbox' = [outbox EXCEPT ![o][Count(o)] = @ + 1]
    /\ UNCHANGED <<up, lease, kept, tests, beat, workerSide, etcdSide, trouble>>

\* ... and puts what it has read.
Publish(o, n) ==
    /\ outbox[o][n] > 0
    /\ outbox' = [outbox EXCEPT ![o][n] = @ - 1]
    /\ PutCount(o, n)
    /\ UNCHANGED <<up, lease, kept, tests, spawned, beat, workerSide, trouble>>

\* BUG VARIANT of Beat: the heartbeat refreshes the tests only.
Beat_FleetOnly(o) ==
    /\ \/ /\ o \in up
          /\ beat[o].at = "rest"
          /\ beat' = [beat EXCEPT ![o] = [at |-> "fleet", n |-> 0, tests |-> tests[o]]]
          /\ UNCHANGED etcdSide
       \/ /\ beat[o].at = "fleet"
          /\ PutTests(o, beat[o].tests)
          /\ beat' = [beat EXCEPT ![o] = Resting]
    /\ UNCHANGED <<up, lease, kept, tests, spawned, outbox, workerSide, trouble>>

\* The heartbeat goroutine: publishOcean, then publishFleet, each a read under
\* the mutex and a Put.  The second read directly follows the first Put: a test
\* that is started or stopped between the two might as well have been before
\* the Put, which does not look at tests.
Beat(o) ==
    /\ \/ /\ o \in up
          /\ beat[o].at = "rest"
          /\ beat' = [beat EXCEPT ![o] = [at |-> "ocean", n |-> Count(o), tests |-> {}]]
          /\ UNCHANGED etcdSide
       \/ /\ beat[o].at = "ocean"
          /\ PutCount(o, beat[o].n)
          /\ beat' = [beat EXCEPT ![o] = [at |-> "fleet", n |-> 0, tests |-> tests[o]]]
       \/ /\ beat[o].at = "fleet"
          /\ PutTests(o, beat[o].tests)
          /\ beat' = [beat EXCEPT ![o] = Resting]
    /\ UNCHANGED <<up, lease, kept, tests, spawned, outbox, workerSide, trouble>>

-----------------------------------------------------------------------------
(* The worker.                                                             *)

\* Free connections as selectOcean computes them from what is published.
Slots(o) == Limit[o] - oceanKey[o].n

\* Client.GetPrefix: the keys there are, of oceans alive or dead.
GetPrefix(keys) == {o \in Oceans : keys[o].lease > 0}

\* selectOcean passes over full oceans, and starts from a best of -1.
Candidates ==
    {o \in GetPrefix(oceanKey) : /\ Limit[o] > 0 => Slots(o) > 0
                                 /\ Slots(o) >= -1}

Selected == {o \in Candidates : \A p \in Candidates : Slots(p) <= Slots(o)}

\* The worker's loop: choose an ocean, ...
Resolve(w) ==
    /\ home[w] = None
    /\ choice[w] = None
    /\ etcdUp
    /\ \E o \in Selected : choice' = [choice EXCEPT ![w] = o]
    /\ UNCHANGED <<home, oceanSide, etcdSide, trouble>>

\* BUG VARIANT of Dial: a worker that is turned away dials the same ocean again.
Dial_Again(w) ==
    /\ choice[w] # None
    /\ LET o == choice[w] IN
        IF o \in up /\ ~Full(o)
        THEN /\ home' = [home EXCEPT ![w] = o]
             /\ choice' = [choice EXCEPT ![w] = None]
             /\ spawned' = [spawned EXCEPT ![o] = @ + 1]
        ELSE UNCHANGED <<home, choice, spawned>>
    /\ UNCHANGED <<up, lease, kept, tests, outbox, beat, etcdSide, trouble>>

\* ... dial it, and be registered if there is room by then; otherwise sleep
\* and choose again.
Dial(w) ==
    /\ choice[w] # None
    /\ choice' = [choice EXCEPT ![w] = None]
    /\ LET o == choice[w] IN
        IF o \in up /\ ~Full(o)
        THEN /\ home' = [home EXCEPT ![w] = o]
             /\ spawned' = [spawned EXCEPT ![o] = @ + 1]
        ELSE UNCHANGED <<home, spawned>>
    /\ UNCHANGED <<up, lease, kept, tests, outbox, beat, etcdSide, trouble>>

\* The stream ends, at either side's doing.
Leave(w) ==
    /\ home[w] # None
    /\ w \in Troubled
    /\ Trouble
    /\ home' = [home EXCEPT ![w] = None]
    /\ spawned' = [spawned EXCEPT ![home[w]] = @ + 1]
    /\ UNCHANGED <<up, lease, kept, tests, outbox, beat, choice, etcdSide>>

-----------------------------------------------------------------------------
(* etcd.                                                                   *)

Outage ==
    /\ etcdUp
    /\ Trouble
    /\ etcdUp' = FALSE
    /\ UNCHANGED <<oceanSide, workerSide, alive, oceanKey, fleetKey>>

Recover ==
    /\ ~etcdUp
    /\ etcdUp' = TRUE
    /\ UNCHANGED <<oceanSide, workerSide, alive, oceanKey, fleetKey, trouble>>

\* An outage longer than the TTL: the etcd client gives the lease up for lost and
\* closes the keep-alive channel.  The ocean logs it and goes on.
Lapse(o) ==
    /\ ~etcdUp
    /\ o \in kept \cap Troubled
    /\ kept' = kept \ {o}
    /\ UNCHANGED <<up, lease, tests, spawned, outbox, beat, workerSide, etcdSide, trouble>>

\* A lease that nobody keeps alive runs out, and takes its keys with it.
Expire(o, i) ==
    /\ etcdUp
    /\ <<o, i>> \in alive
    /\ o \in kept => i # lease[o]
    /\ alive' = alive \ {<<o, i>>}
    /\ oceanKey' = [oceanKey EXCEPT ![o] = IF @.lease = i THEN NoOceanKey ELSE @]
    /\ fleetKey' = [fleetKey EXCEPT ![o] = IF @.lease = i THEN NoFleetKey ELSE @]
    /\ UNCHANGED <<etcdUp, oceanSide, workerSide, trouble>>

-----------------------------------------------------------------------------

Init ==
    /\ up = {} /\ kept = {} /\ alive = {}
    /\ lease = [o \in Oceans |-> 0]
    /\ tests = [o \in Oceans |-> {}]
    /\ spawned = [o \in Oceans |-> 0]
    /\ outbox = [o \in Oceans |-> NoPuts]
    /\ beat = [o \in Oceans |-> Resting]
    /\ home = [w \in Workers |-> None]
    /\ choice = [w \in Workers |-> None]
    /\ etcdUp = TRUE
    /\ oceanKey = [o \in Oceans |-> NoOceanKey]
    /\ fleetKey = [o \in Oceans |-> NoFleetKey]
    /\ trouble = 0

Next ==
    \/ \E o \in Oceans :
        \/ Boot(o) \/ Crash(o) \/ ReadCount(o) \/ Beat(o) \/ Lapse(o)
        \/ \E n \in 0..Cardinality(Workers) : Publish(o, n)
        \/ \E n \in Tests : StartTest(o, n) \/ StopTest(o, n)
        \/ \E i \in 1..MaxBoots : Expire(o, i)
    \/ \E w \in Workers : Resolve(w) \/ Dial(w) \/ Leave(w)
    \/ Outage \/ Recover

\* Goroutines run, an outage passes and an unkept lease runs out.  Nobody has to
\* start a process again, and clients have to do nothing.
Fairness ==
    /\ \A o \in Oceans :
        /\ WF_vars(ReadCount(o))
        /\ WF_vars(Beat(o))
        /\ WF_vars(\E n \in 0..Cardinality(Workers) : Publish(o, n))
        /\ WF_vars(\E i \in 1..MaxBoots : Expire(o, i))
    /\ WF_vars(Recover)

Spec == Init /\ [][Next]_vars

\* Workers retry.
FairSpec == Spec /\ Fairness /\ \A w \in Workers : WF_vars(Resolve(w)) /\ WF_vars(Dial(w))

-----------------------------------------------------------------------------
(* Properties.                                                             *)

\* max_connections holds although workers choose by counters that are out of
\* date and several may choose the same free connection (client.go:91-97).
ConnectionLimit == \A o \in Oceans : Limit[o] > 0 => Count(o) <= Limit[o]

\* A key never outlives its lease, also when an ocean has come back under a new
\* one before the old has run out (discovery.go:58-66).
KeysAreLeased ==
    \A o \in Oceans : /\ oceanKey[o].lease > 0 => <<o, oceanKey[o].lease>> \in alive
                      /\ fleetKey[o].lease > 0 => <<o, fleetKey[o].lease>> \in alive

\* An ocean a worker could attach to, with the lease it needs to be found.
Open(o) == o \in kept /\ ~Full(o)

\* A worker without an ocean while some ocean has room.
LeftOut(w) == home[w] = None /\ \E o \in Oceans : Open(o)

\* The published counter ends up right although older Puts may overtake newer
\* ones: the heartbeat repairs it (discovery.go:66-74).
CountersSettle ==
    \A o \in Oceans : <>[](o \in kept => oceanKey[o].n = Count(o))

\* allFleetJobs: the tests that are published, by the ocean that published them.
AllFleetJobs == [p \in GetPrefix(fleetKey) |-> fleetKey[p].tests]

\* What GetInfo lists as the fleet's tests: its own from memory, the other
\* oceans' from etcd.
Listed(o) == tests[o] \cup UNION {AllFleetJobs[p] : p \in DOMAIN AllFleetJobs \ {o}}

\* A test that no ocean runs any more disappears from every ocean's list
\* (services.go:957-959), also when the ocean that ran it has died, or could not
\* publish for a while, or is back without it: it goes with the next heartbeat,
\* or with the lease.
StoppedTestsVanish ==
    \A o \in Oceans, n \in Tests :
        n \in Listed(o) /\ (\A p \in Oceans : n \notin tests[p])
            ~> n \notin Listed(o) \/ \E p \in Oceans : n \in tests[p]

\* "etcd down: ... new workers can't discover until it's back" (DEPLOY.md:66-67):
\* once it is back, an ocean that runs can be discovered.
DiscoverableOnceBack ==
    \A o \in Oceans : o \in up /\ etcdUp ~> oceanKey[o].lease > 0 \/ o \notin up \/ ~etcdUp
=============================================================================

---------------------------- MODULE MCDiscovery ----------------------------
(* Discovery for TLC.                                                      *)
EXTENDS Discovery

CONSTANTS o1, o2, w1, w2

OneConnection == [o \in Oceans |-> 1]

-----------------------------------------------------------------------------
(***************************************************************************)
(* Workers never look at tests, nor tests at workers, so a behaviour has   *)
(* only one of the two: workers that look for an ocean and one trouble, or *)
(* a test, no worker that looks for an ocean, and MaxTrouble troubles.     *)
(***************************************************************************)
VARIABLE scene

SceneInit == Init /\ scene \in {"workers", "tests"}

SceneNext ==
    /\ Next
    /\ UNCHANGED scene
    /\ scene = "workers" => trouble' <= 1 /\ UNCHANGED tests
    /\ scene = "tests" => UNCHANGED workerSide

SceneSpec ==
    /\ SceneInit
    /\ [][SceneNext]_<<vars, scene>>
    /\ Fairness
    /\ \A w \in Workers : WF_vars(scene = "workers" /\ Resolve(w)) /\ WF_vars(Dial(w))

\* "re-discover and re-attach to a surviving ocean" (DEPLOY.md:62): a worker
\* without an ocean gets one, as long as some ocean has room, in spite of stale
\* counters, of rivals, and of oceans that are dead but still registered.
EveryWorkerAttaches ==
    \A w \in Workers : scene = "workers" /\ LeftOut(w) ~> ~LeftOut(w)
=============================================================================

------------------------------ MODULE MCOcean -------------------------------
(* Ocean for TLC.                                                          *)
EXTENDS Ocean, TLC

CONSTANTS a, b

TwoWorkers == {1, 2}

OneEach == Workers \X {1}

JobSymmetry == Permutations(Jobs)

(***************************************************************************)
(* The ocean never looks at a command it has handed to a stream; all that  *)
(* the downward channel does to it is block a sender for a while.  A       *)
(* sender that may always wait, and workers that read at once, give the    *)
(* same behaviours of the ocean with far fewer states.                     *)
(* Reports (OnReport, OnSample) change only what is cached, and fleet_live *)
(* has them; here no worker sends one.                                     *)
(***************************************************************************)
PromptDelivery(s) ==
    /\ s \in senders
    /\ s \in linked
    /\ send[s] # <<>>
    /\ send' = [send EXCEPT ![s] = Tail(@)]
    /\ UNCHANGED <<registryVars, jobVars, handlerVars, open, senders, dropped, streamVars>>

PromptNext ==
    \/ ClientRequest
    \/ OceanCrash
    \/ \E s \in Streams : Join(s) \/ Refuse(s) \/ Leave(s)
    \/ \E s \in Streams : PromptDelivery(s) \/ SenderExits(s)
    \/ (\E s \in Streams : EnvDial(s) \/ Cut(s)) /\ UNCHANGED oceanVars

PromptSpec == Init /\ [][PromptNext]_vars
=============================================================================

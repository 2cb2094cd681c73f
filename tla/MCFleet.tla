------------------------------ MODULE MCFleet -------------------------------
(* Fleet for TLC.                                                          *)
EXTENDS Fleet, TLC

CONSTANTS a, b

OneWorker   == {1}
TwoWorkers  == {1, 2}
OneEach     == Workers \X {1}
TwoEach     == Workers \X {1, 2}
JobSymmetry == Permutations(Jobs)
=============================================================================

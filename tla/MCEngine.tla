------------------------------ MODULE MCEngine ------------------------------
(* Engine for TLC: a channel small enough to be full and to be empty.      *)
EXTENDS Engine, TLC

CONSTANTS t1, t2, t3

ThreeThreads == {t1, t2, t3}
=============================================================================

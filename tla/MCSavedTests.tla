---------------------------- MODULE MCSavedTests ----------------------------
(* SavedTests for TLC.                                                     *)
EXTENDS SavedTests, TLC

CONSTANTS e1, e2

\* e1 may be edited; e2 does not exist, which does not keep it from being active.
MCVersions == e1 :> {1, 2} @@ e2 :> {}

\* Requests are interchangeable.
Symmetry == Permutations(Calls)
=============================================================================

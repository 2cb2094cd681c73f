----------------------------- MODULE MCSessions -----------------------------
(* Sessions for TLC.  Three requests at once are a logout, a login and     *)
(* another request, of one browser with tabs or of two; a session can end  *)
(* before the clock stops.                                                 *)
EXTENDS Sessions, TLC

CONSTANTS c1, c2, r1, r2, r3, k1, k2

TwoClients    == {c1, c2}
ThreeRequests == {r1, r2, r3}
TwoTokens     == {k1, k2}

SessionSymmetry ==
    Permutations(TwoClients) \cup Permutations(ThreeRequests) \cup Permutations(TwoTokens)
=============================================================================

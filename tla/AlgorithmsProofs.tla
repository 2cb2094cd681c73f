---------------------------- MODULE AlgorithmsProofs ------------------------
(***************************************************************************)
(* The pure algorithms, for any inputs.                                    *)
(*                                                                         *)
(* The loop of Ocean.allocate plans exactly what Allocation says, for any  *)
(* number of workers, any free capacities and any request: the operator    *)
(* that Ocean, Fleet and their proofs use stands for the code's loop.      *)
(* The loop is not followed to its result.  Its invariant is that all      *)
(* workers are filled to one level, the first ones perhaps one unit        *)
(* further; and there is only one plan of that shape for a given total.    *)
(*                                                                         *)
(* The texts that go through applyEnv and Compile are sent with every      *)
(* token replaced by what it stands for, and Compile eats nothing,         *)
(* whatever the text.  The text is followed piece by piece: a substitution *)
(* puts a value's pieces for those of a token, and Compile leaves a token  *)
(* behind with every step.  Induction over a text is a choice of the       *)
(* shortest one for which a fact fails.                                    *)
(*                                                                         *)
(* {{randInt}} stays between its bounds, however many ints there are.      *)
(***************************************************************************)
EXTENDS Allocate, Templates, AllocationProofs, SequenceTheorems

-----------------------------------------------------------------------------
(* Even plans.                                                             *)

\* The workers with more room than l.
Hungry(f, l) == {w \in DOMAIN f : f[w] > l}

\* All filled to l, and those in U with one unit more.
Poured(f, l, U) == [w \in DOMAIN f |-> IF w \in U THEN Least(f[w], l) + 1 ELSE Least(f[w], l)]

\* The members of U come before all others of H.
Ahead(U, H) == U \subseteq H /\ \A v \in H, w \in U : v < w => v \in U

\* Two plans of the same total, neither of which has more for anybody, are equal.
LEMMA SameTotalSamePlan ==
    ASSUME NEW D, IsFiniteSet(D), NEW f \in [D -> Nat], NEW g \in [D -> Nat],
           \A w \in D : f[w] <= g[w], Total(f) = Total(g)
    PROVE  f = g
<1>1. ~ \E w \in D : f[w] < g[w]
  <2>1. Total(f) \in Nat
    BY TotalType
  <2>2. (\E w \in D : f[w] < g[w]) => Total(f) < Total(g)
    BY TotalMonotone
  <2> QED BY <2>1, <2>2
<1>2. \A w \in D : f[w] = g[w]
  BY <1>1
<1> QED BY <1>2

\* Those with fewer than k before them are the only k that come before all others.
LEMMA FirstOnly ==
    ASSUME NEW H \in SUBSET Nat, IsFiniteSet(H), NEW U, Ahead(U, H)
    PROVE  U = First(H, Cardinality(U)) /\ Cardinality(U) \in 0..Cardinality(H)
<1> DEFINE k == Cardinality(U)
           F == First(H, k)
<1>1. IsFiniteSet(U) /\ k \in Nat /\ k <= Cardinality(H) /\ Cardinality(H) \in Nat /\ U \subseteq H
  BY FS_Subset, FS_CardinalityType DEF Ahead
<1>2. Cardinality(F) = k /\ F \subseteq H /\ IsFiniteSet(F)
  <2>1. k \in 0..Cardinality(H)
    BY <1>1
  <2> HIDE DEF k
  <2>2. Cardinality(F) = k
    BY <2>1, FirstFew
  <2>3. F \subseteq H
    BY DEF First
  <2> QED BY <2>2, <2>3, FS_Subset
<1>3. U \subseteq F
  <2>1. ASSUME NEW w \in U PROVE Cardinality({v \in H : v < w}) < k
    <3> DEFINE B == {v \in H : v < w}
    <3>1. B \subseteq U \ {w}
      <4>1. ASSUME NEW v \in H, v < w PROVE v \in U /\ v # w
        <5>1. w \in Nat /\ ~(w < w)
          BY <1>1
        <5> QED BY <4>1, <5>1 DEF Ahead
      <4> QED BY <4>1
    <3>2. IsFiniteSet(U \ {w}) /\ Cardinality(U \ {w}) = k - 1
      BY <1>1, FS_RemoveElement
    <3> HIDE DEF B, k
    <3>3. Cardinality(B) \in Nat /\ Cardinality(B) <= k - 1
      BY <3>1, <3>2, FS_Subset, FS_CardinalityType
    <3> QED BY <1>1, <3>3 DEF B
  <2> QED BY <1>1, <2>1 DEF First
<1>4. U = F
  <2> HIDE DEF F
  <2> QED BY <1>1, <1>2, <1>3, FS_Subset
<1> QED BY <1>1, <1>4

\* There is only one plan of a given total that fills all workers to a level
\* and gives the rest to the first that have room.
LEMMA PlanIsUnique ==
    ASSUME NEW D \in SUBSET Nat, IsFiniteSet(D), NEW f \in [D -> Nat], NEW r \in Nat,
           NEW l \in Nat, NEW U, Ahead(U, Hungry(f, l)), Total(Poured(f, l, U)) = r
    PROVE  Coverable(f, r) /\ Poured(f, l, U) = Allocation(f, r)
<1> DEFINE B  == Poured(f, l, U)
           A  == Allocation(f, r)
           lv == Level(f, r)
           H  == Hungry(f, lv)
           V  == First(H, r - Total(FilledTo(f, lv)))
<1>1. /\ B \in [D -> Nat]
      /\ \A w \in D : B[w] = IF w \in U THEN Least(f[w], l) + 1 ELSE Least(f[w], l)
      /\ \A w \in U : f[w] > l
  BY DEF Poured, Ahead, Hungry, Least
<1>2. \A w \in D : B[w] <= f[w] /\ B[w] \in Nat /\ f[w] \in Nat
  BY <1>1 DEF Least
<1>3. Coverable(f, r)
  <2> HIDE DEF B
  <2>1. Total(B) <= Total(f)
    BY <1>1, <1>2, TotalMonotone
  <2> QED BY <2>1 DEF Coverable, B
<1>4. A \in [D -> Nat] /\ Total(A) = r /\ lv \in Nat
  BY <1>3, AllocationCapped, AllocationIsPlacement, LevelType
<1>5. /\ A = [w \in D |-> IF w \in V THEN FilledTo(f, lv)[w] + 1 ELSE FilledTo(f, lv)[w]]
      /\ \A w \in D : FilledTo(f, lv)[w] = Least(f[w], lv)
      /\ V \subseteq H
  BY DEF Allocation, First, Hungry, FilledTo
<1>6. /\ \A w \in D : A[w] = IF w \in V THEN Least(f[w], lv) + 1 ELSE Least(f[w], lv)
      /\ \A w \in V : f[w] > lv
  BY <1>5 DEF Hungry
<1> HIDE DEF A, V, lv
<1>7. CASE lv < l
  <2>1. \A w \in D : A[w] <= B[w]
    BY <1>1, <1>2, <1>4, <1>6, <1>7 DEF Least
  <2> HIDE DEF B
  <2> QED BY <1>1, <1>3, <1>4, <2>1, SameTotalSamePlan DEF B, A
<1>8. CASE l < lv
  <2>1. \A w \in D : B[w] <= A[w]
    BY <1>1, <1>2, <1>4, <1>6, <1>8 DEF Least
  <2> HIDE DEF B
  <2> QED BY <1>1, <1>3, <1>4, <2>1, SameTotalSamePlan DEF B, A
<1>9. CASE l = lv
  <2> DEFINE base == FilledTo(f, l)
             one  == [w \in D |-> IF w \in U THEN 1 ELSE 0]
  <2>1. H \in SUBSET Nat /\ IsFiniteSet(H) /\ U \subseteq H /\ H \subseteq D /\ Ahead(U, H)
    BY <1>9, FS_Subset DEF Hungry, Ahead
  <2>2. base \in [D -> Nat] /\ one \in [D -> Nat] /\ B = [w \in D |-> base[w] + one[w]]
    BY <1>1 DEF FilledTo, Least, Poured
  <2>3. Total(one) = Cardinality(U)
    <3>1. U \in SUBSET D
      BY <2>1
    <3> QED BY <3>1, TotalOfOnes
  <2>4. Total(base) \in Nat /\ Cardinality(U) \in Nat
    BY <2>1, <2>2, TotalType, FS_Subset, FS_CardinalityType
  <2>5. r = Total(base) + Cardinality(U)
    <3>1. Total(B) = r
      OBVIOUS
    <3> HIDE DEF base, one, B
    <3>2. base \in [D -> Nat] /\ one \in [D -> Nat]
      BY <2>2
    <3>3. Total([w \in D |-> base[w] + one[w]]) = Total(base) + Total(one)
      BY <3>2, TotalOfSums
    <3> QED BY <2>2, <2>3, <3>1, <3>3
  <2>6. V = First(H, Cardinality(U))
    BY <1>9, <2>4, <2>5 DEF V
  <2>7. V = U
    BY <2>1, <2>6, FirstOnly
  <2>8. \A w \in D : A[w] = B[w]
    BY <1>1, <1>6, <1>9, <2>7
  <2>9. A = B
    <3>1. A \in [D -> Nat] /\ B \in [D -> Nat]
      BY <1>1, <1>4
    <3>2. Total(A) = Total(B) /\ \A w \in D : A[w] <= B[w]
      BY <1>2, <1>4, <2>8
    <3> HIDE DEF B
    <3> QED BY <3>1, <3>2, SameTotalSamePlan
  <2> QED BY <1>3, <2>9 DEF A
<1> QED BY <1>4, <1>7, <1>8, <1>9

-----------------------------------------------------------------------------
(* The loop.                                                               *)

\* Types; and how far the request has been looked at.
LoopType ==
    /\ requested \in Int /\ remaining \in Int /\ share \in Nat
    /\ DOMAIN free \subseteq Ids
    /\ free \in [DOMAIN free -> Nat] /\ alloc \in [DOMAIN free -> Nat]
    /\ active \in SUBSET (DOMAIN free)
    /\ pc \in {"check", "round", "give", "planned", "rejected"}

Checked ==
    /\ pc = "rejected" => ~Coverable(free, requested)
    /\ pc \in {"round", "give", "planned"} => Coverable(free, requested)
    /\ pc = "planned" => remaining <= 0

\* What has been handed out and what remains are the request.
Handed ==
    /\ remaining = requested - Total(alloc)
    /\ Total(alloc) <= AtLeastZero(requested)

\* Between rounds all are filled to one level; once nothing remains the first
\* ones may have one unit more.
Even ==
    \E l \in Nat, U \in SUBSET (DOMAIN free) :
        /\ alloc = Poured(free, l, U) /\ Ahead(U, Hungry(free, l))
        /\ remaining > 0 => U = {}

\* In a round those who had room at its beginning get their share in order.  It
\* is enough for all of them, or one unit.
Rising ==
    \E l \in Nat :
        /\ active \subseteq Hungry(free, l)
        /\ \A v \in Hungry(free, l) \ active, w \in active : v < w
        /\ alloc = [w \in DOMAIN free |-> IF w \in Hungry(free, l) \ active
                                          THEN Least(free[w], l + share)
                                          ELSE Least(free[w], l)]
        /\ share >= 1
        /\ share = 1 \/ share * Cardinality(active) <= remaining

LoopInv ==
    /\ LoopType /\ Checked /\ Handed
    /\ IF pc = "give" THEN Rising ELSE Even

\* There are finitely many workers.
LEMMA FleetFinite ==
    ASSUME LoopType
    PROVE  /\ IsFiniteSet(DOMAIN free) /\ DOMAIN free \in SUBSET Nat
           /\ Total(alloc) \in Nat /\ Total(free) \in Nat
           /\ IsFiniteSet(active) /\ Cardinality(active) \in Nat
           /\ active # {} => Cardinality(active) > 0
<1>1. IsFiniteSet(DOMAIN free) /\ DOMAIN free \in SUBSET Nat
  BY AllocateAssumption, FS_Subset DEF LoopType
<1>2. IsFiniteSet(active) /\ Cardinality(active) \in Nat
      /\ (Cardinality(active) = 0 <=> active = {})
  BY <1>1, FS_Subset, FS_CardinalityType, FS_EmptySet DEF LoopType
<1>3. Total(alloc) \in Nat /\ Total(free) \in Nat
  BY <1>1, TotalType DEF LoopType
<1> QED BY <1>1, <1>2, <1>3

\* Nothing has been handed out yet.
LEMMA LoopInit == Init => LoopInv
<1> SUFFICES ASSUME Init PROVE LoopInv
  OBVIOUS
<1>0. PICK attached \in SUBSET Ids :
         \E room \in [attached -> -1..MaxFree] :
            free = [w \in attached |-> AtLeastZero(room[w])]
  BY DEF Init
<1>1. PICK room \in [attached -> -1..MaxFree] :
         free = [w \in attached |-> AtLeastZero(room[w])]
  BY <1>0
<1>2. DOMAIN free = attached /\ free \in [DOMAIN free -> Nat]
  <2>1. \A w \in attached : room[w] \in Int
    BY <1>1, AllocateAssumption
  <2>2. \A w \in attached : AtLeastZero(room[w]) \in Nat
    BY <2>1 DEF AtLeastZero
  <2> QED BY <1>1, <2>2
<1>3. requested \in Int
  BY AllocateAssumption DEF Init
<1>4. LoopType /\ Checked
  BY <1>2, <1>3 DEF Init, LoopType, Checked
<1>5. Total(alloc) = 0
  BY <1>4, FleetFinite, TotalOfZeros DEF Init
<1>6. Handed
  BY <1>3, <1>5 DEF Init, Handed, AtLeastZero
<1>7. Even
  <2>1. \A w \in DOMAIN free : Least(free[w], 0) = 0
    BY <1>2 DEF Least
  <2>2. alloc = Poured(free, 0, {})
    BY <2>1 DEF Init, Poured
  <2>3. Ahead({}, Hungry(free, 0))
    BY DEF Ahead
  <2> QED BY <2>2, <2>3 DEF Even
<1> QED BY <1>4, <1>6, <1>7 DEF Init, LoopInv

\* A share of what remains is no more than that for all together.
LEMMA Shares ==
    ASSUME NEW a \in Nat, NEW b \in Nat \ {0}
    PROVE  a \div b \in Nat /\ (a \div b) * b <= a
OBVIOUS

\* What the fleet's total covers is decided here, once.
LEMMA CheckKeeps == ASSUME LoopInv, Check PROVE LoopInv'
<1>1. /\ UNCHANGED <<requested, free, alloc, remaining, active, share>> /\ pc = "check"
      /\ pc' = IF requested > Total(free) THEN "rejected" ELSE "round"
  BY DEF Check
<1>2. LoopType /\ Checked /\ Handed /\ Even
  BY <1>1 DEF LoopInv
<1>3. requested \in Int /\ Total(free) \in Nat
  BY <1>2, FleetFinite DEF LoopType
<1>4. Coverable(free', requested') <=> ~(requested > Total(free))
  BY <1>1, <1>3 DEF Coverable
<1>5. LoopType' /\ Checked' /\ Handed'
  BY <1>1, <1>2, <1>4 DEF LoopType, Checked, Handed
<1>6. Even'
  BY <1>1, <1>2 DEF Even
<1> QED BY <1>1, <1>5, <1>6 DEF LoopInv

\* A round starts from one level, with a share that does for all or is one unit.
LEMMA RoundKeeps == ASSUME LoopInv, Round PROVE LoopInv'
<1> DEFINE H == Cardinality(active')
<1>1. /\ UNCHANGED <<requested, free, alloc, remaining>> /\ pc = "round" /\ pc' = "give"
      /\ remaining > 0 /\ active' = {w \in DOMAIN free : HasRoom(w)} /\ active' # {}
      /\ share' = IF remaining \div H < 1 THEN 1 ELSE remaining \div H
  BY DEF Round
<1>2. LoopType /\ Checked /\ Handed /\ Even
  BY <1>1 DEF LoopInv
<1>3. PICK l \in Nat : alloc = Poured(free, l, {})
  BY <1>1, <1>2 DEF Even
<1>4. alloc = [w \in DOMAIN free |-> Least(free[w], l)] /\ \A w \in DOMAIN free : free[w] \in Nat
  BY <1>2, <1>3 DEF Poured, LoopType
<1>5. active' = Hungry(free, l)
  <2>1. \A w \in DOMAIN free : HasRoom(w) <=> free[w] > l
    BY <1>4 DEF HasRoom, Least
  <2> QED BY <1>1, <2>1 DEF Hungry
<1>6. H \in Nat \ {0}
  <2>1. IsFiniteSet(active')
    BY <1>1, <1>2, FleetFinite, FS_Subset
  <2> QED BY <1>1, <2>1, FS_CardinalityType, FS_EmptySet
<1> HIDE DEF H
<1>7. remaining \in Nat /\ remaining \div H \in Nat /\ (remaining \div H) * H <= remaining
  <2>1. remaining \in Nat
    BY <1>1, <1>2 DEF LoopType
  <2> QED BY <1>6, <2>1, Shares
<1>8. share' \in Nat /\ share' >= 1 /\ (share' = 1 \/ share' * H <= remaining)
  BY <1>1, <1>7
<1>9. Rising'
  <2>1. alloc' = [w \in DOMAIN free' |-> IF w \in Hungry(free', l) \ active'
                                         THEN Least(free'[w], l + share')
                                         ELSE Least(free'[w], l)]
    BY <1>1, <1>4, <1>5
  <2>2. active' \subseteq Hungry(free', l)
        /\ \A v \in Hungry(free', l) \ active', w \in active' : v < w
    BY <1>1, <1>5
  <2> QED BY <1>1, <1>8, <2>1, <2>2 DEF Rising, H
<1>10. LoopType' /\ Checked' /\ Handed'
  BY <1>1, <1>2, <1>8 DEF LoopType, Checked, Handed, Coverable
<1> QED BY <1>1, <1>9, <1>10 DEF LoopInv

\* One worker gets its share, or all the room it has.
LEMMA GiveKeeps == ASSUME LoopInv, Give PROVE LoopInv'
<1> DEFINE w    == Min(active)
           room == free[w] - alloc[w]
           give == Least(Least(share, room), remaining)
<1>1. /\ UNCHANGED <<requested, free, pc, share>> /\ pc = "give"
      /\ active # {} /\ remaining > 0
      /\ alloc' = [alloc EXCEPT ![w] = @ + give]
      /\ remaining' = remaining - give
      /\ active' = active \ {w}
  BY DEF Give
<1>2. LoopType /\ Checked /\ Handed /\ Rising
  BY <1>1 DEF LoopInv
<1>3. w \in active /\ \A v \in active : w <= v
  <2>1. active \in SUBSET Nat /\ IsFiniteSet(active) /\ active # {}
    BY <1>1, <1>2, FleetFinite DEF LoopType
  <2> QED BY <2>1, LeastExists
<1> HIDE DEF w
<1>4. PICK l \in Nat :
        /\ active \subseteq Hungry(free, l)
        /\ \A v \in Hungry(free, l) \ active, u \in active : v < u
        /\ alloc = [v \in DOMAIN free |-> IF v \in Hungry(free, l) \ active
                                          THEN Least(free[v], l + share)
                                          ELSE Least(free[v], l)]
        /\ share >= 1
        /\ share = 1 \/ share * Cardinality(active) <= remaining
  BY <1>2 DEF Rising
<1>5. /\ w \in DOMAIN free /\ w \in Hungry(free, l) /\ free[w] \in Nat /\ free[w] > l
      /\ alloc[w] = l /\ share \in Nat /\ remaining \in Int
  BY <1>2, <1>3, <1>4 DEF LoopType, Hungry, Least
<1>6. /\ IsFiniteSet(active) /\ Cardinality(active) \in Nat
      /\ Cardinality(active') = Cardinality(active) - 1 /\ Cardinality(active') \in Nat
  <2>1. IsFiniteSet(active) /\ IsFiniteSet(active') /\ Cardinality(active) \in Nat
    BY <1>1, <1>2, FleetFinite, FS_Subset
  <2> QED BY <1>1, <1>3, <2>1, FS_RemoveElement, FS_CardinalityType
<1>7. share = 1 \/ share * Cardinality(active') <= remaining - share
  <2> DEFINE k == Cardinality(active')
  <2>1. k \in Nat /\ Cardinality(active) = k + 1
    BY <1>6
  <2>2. share * (k + 1) = share * k + share
    BY <1>5, <2>1
  <2> HIDE DEF k
  <2>3. share * k \in Int
    BY <1>5, <2>1
  <2> QED BY <1>4, <1>5, <2>1, <2>2, <2>3 DEF k
<1>8. remaining >= share
  <2>1. share * Cardinality(active') >= 0 /\ share * Cardinality(active') \in Int
    BY <1>5, <1>6
  <2> QED BY <1>1, <1>5, <1>7, <2>1
<1>9. give = Least(share, room) /\ give \in Nat /\ give <= share /\ give <= remaining
      /\ alloc[w] + give = Least(free[w], l + share)
  BY <1>4, <1>5, <1>8 DEF Least
<1> HIDE DEF give, room
<1>10. alloc' = [v \in DOMAIN free |-> IF v \in Hungry(free, l) \ active'
                                       THEN Least(free[v], l + share)
                                       ELSE Least(free[v], l)]
  <2>1. \A v \in DOMAIN free : v \in Hungry(free, l) \ active'
                                 <=> v = w \/ v \in Hungry(free, l) \ active
    BY <1>1, <1>3, <1>5
  <2>2. DOMAIN alloc = DOMAIN free /\ w \notin Hungry(free, l) \ active
    BY <1>2, <1>3 DEF LoopType
  <2> QED BY <1>1, <1>4, <1>5, <1>9, <2>1, <2>2
<1>11. Rising'
  <2>1. /\ active' \subseteq Hungry(free', l)
        /\ \A v \in Hungry(free', l) \ active', u \in active' : v < u
    <3>1. ASSUME NEW u \in active' PROVE w < u
      <4>1. u \in active /\ u # w /\ w \in Nat /\ u \in Nat
        BY <1>1, <1>2, <1>3, FleetFinite DEF LoopType
      <4> QED BY <1>3, <4>1
    <3> QED BY <1>1, <1>4, <3>1
  <2>2. share' = 1 \/ share' * Cardinality(active') <= remaining'
    <3>1. share * Cardinality(active') \in Int
      BY <1>5, <1>6
    <3> QED BY <1>1, <1>5, <1>7, <1>9, <3>1
  <2> QED BY <1>1, <1>4, <1>10, <2>1, <2>2 DEF Rising
<1>12. Total(alloc') = Total(alloc) + give
  <2> DEFINE v == alloc[w] + give
  <2>1. v \in Nat /\ alloc \in [DOMAIN free -> Nat] /\ IsFiniteSet(DOMAIN free)
        /\ alloc' = [alloc EXCEPT ![w] = v] /\ Total(alloc) \in Nat /\ alloc[w] \in Nat
    BY <1>1, <1>2, <1>5, <1>9, FleetFinite DEF LoopType
  <2> HIDE DEF v
  <2>2. Total([alloc EXCEPT ![w] = v]) = Total(alloc) - alloc[w] + v
    BY <1>5, <2>1, TotalUpdate
  <2> QED BY <1>9, <2>1, <2>2 DEF v
<1>13. Handed'
  <2>1. remaining = requested - Total(alloc) /\ Total(alloc) \in Nat /\ requested \in Int
    BY <1>2, FleetFinite DEF Handed, LoopType
  <2> QED BY <1>1, <1>5, <1>9, <1>12, <2>1 DEF Handed, AtLeastZero
<1>14. LoopType' /\ Checked'
  <2>1. alloc' \in [DOMAIN free -> Nat]
    <3> DEFINE v == alloc[w] + give
    <3>1. v \in Nat /\ alloc \in [DOMAIN free -> Nat]
          /\ alloc' = [alloc EXCEPT ![w] = v]
      BY <1>1, <1>2, <1>5, <1>9 DEF LoopType
    <3> HIDE DEF v
    <3> QED BY <1>5, <3>1
  <2>2. remaining' \in Int
    BY <1>1, <1>5, <1>9
  <2> QED BY <1>1, <1>2, <2>1, <2>2 DEF LoopType, Checked, Coverable
<1> QED BY <1>1, <1>11, <1>13, <1>14 DEF LoopInv

\* All have got their share, or nothing remains: then it was one unit each.
LEMMA EndRoundKeeps == ASSUME LoopInv, EndRound PROVE LoopInv'
<1>1. /\ UNCHANGED <<requested, free, alloc, remaining, share>> /\ pc = "give" /\ pc' = "round"
      /\ active = {} \/ remaining <= 0
      /\ active' = {}
  BY DEF EndRound
<1>2. LoopType /\ Checked /\ Handed /\ Rising
  BY <1>1 DEF LoopInv
<1>3. PICK l \in Nat :
        /\ active \subseteq Hungry(free, l)
        /\ \A v \in Hungry(free, l) \ active, u \in active : v < u
        /\ alloc = [v \in DOMAIN free |-> IF v \in Hungry(free, l) \ active
                                          THEN Least(free[v], l + share)
                                          ELSE Least(free[v], l)]
        /\ share >= 1
        /\ share = 1 \/ share * Cardinality(active) <= remaining
  BY <1>2 DEF Rising
<1>4. share \in Nat /\ remaining \in Int /\ DOMAIN free \in SUBSET Nat
      /\ \A v \in DOMAIN free : free[v] \in Nat
  BY <1>2, FleetFinite DEF LoopType
<1>5. ASSUME active = {} PROVE Even
  <2>1. alloc = Poured(free, l + share, {})
    <3>1. \A v \in DOMAIN free : v \notin Hungry(free, l) => Least(free[v], l) = Least(free[v], l + share)
      BY <1>4 DEF Hungry, Least
    <3> QED BY <1>3, <1>5, <3>1 DEF Poured
  <2>2. Ahead({}, Hungry(free, l + share)) /\ l + share \in Nat
    BY <1>4 DEF Ahead
  <2>3. {} \in SUBSET (DOMAIN free)
    OBVIOUS
  <2> QED BY <2>1, <2>2, <2>3 DEF Even
<1>6. ASSUME active # {} PROVE Even
  <2> DEFINE U == Hungry(free, l) \ active
  <2>1. share = 1
    <3>1. Cardinality(active) \in Nat /\ Cardinality(active) > 0 /\ remaining <= 0
      BY <1>1, <1>2, <1>6, FleetFinite
    <3>2. share * Cardinality(active) > 0 /\ share * Cardinality(active) \in Int
      BY <1>3, <1>4, <3>1
    <3> QED BY <1>3, <1>4, <3>1, <3>2
  <2>2. alloc = Poured(free, l, U)
    <3>1. \A v \in U : Least(free[v], l + share) = Least(free[v], l) + 1
      BY <1>4, <2>1 DEF Hungry, Least
    <3> QED BY <1>3, <3>1 DEF Poured
  <2>3. Ahead(U, Hungry(free, l))
    <3>1. ASSUME NEW v \in Hungry(free, l), NEW u \in U, v < u PROVE v \in U
      <4>1. CASE v \in active
        <5>1. u < v /\ u \in Nat /\ v \in Nat
          BY <1>3, <1>4, <4>1 DEF Hungry
        <5> QED BY <3>1, <5>1
      <4> QED BY <4>1
    <3> QED BY <3>1 DEF Ahead
  <2>4. U \in SUBSET (DOMAIN free) /\ ~(remaining > 0)
    BY <1>1, <1>4, <1>6 DEF Hungry
  <2> HIDE DEF U
  <2> QED BY <2>2, <2>3, <2>4 DEF Even
<1>7. Even'
  <2>1. Even
    BY <1>5, <1>6
  <2> QED BY <1>1, <2>1 DEF Even
<1>8. LoopType' /\ Checked' /\ Handed'
  BY <1>1, <1>2 DEF LoopType, Checked, Handed, Coverable
<1> QED BY <1>1, <1>7, <1>8 DEF LoopInv

\* Nobody has room only if everything has been handed out.
LEMMA FinishKeeps == ASSUME LoopInv, Finish PROVE LoopInv'
<1>1. /\ UNCHANGED <<requested, free, alloc, remaining, active, share>> /\ pc = "round"
      /\ remaining <= 0 \/ \A w \in DOMAIN free : ~HasRoom(w)
      /\ pc' = IF remaining > 0 THEN "rejected" ELSE "planned"
  BY DEF Finish
<1>2. LoopType /\ Checked /\ Handed /\ Even
  BY <1>1 DEF LoopInv
<1>3. remaining <= 0
  <2>1. SUFFICES ASSUME \A w \in DOMAIN free : ~HasRoom(w) PROVE remaining <= 0
    BY <1>1
  <2>2. /\ free \in [DOMAIN free -> Nat] /\ alloc \in [DOMAIN free -> Nat]
        /\ IsFiniteSet(DOMAIN free) /\ Total(alloc) \in Nat /\ Total(free) \in Nat
        /\ requested \in Int
    BY <1>2, FleetFinite DEF LoopType
  <2>3. \A w \in DOMAIN free : free[w] <= alloc[w]
    BY <2>1, <2>2 DEF HasRoom
  <2>4. Total(free) <= Total(alloc)
    BY <2>2, <2>3, TotalMonotone
  <2>5. requested <= Total(free)
    BY <1>1, <1>2 DEF Checked, Coverable
  <2> QED BY <1>2, <2>2, <2>4, <2>5 DEF Handed
<1>4. pc' = "planned"
  BY <1>1, <1>2, <1>3 DEF LoopType
<1>5. LoopType' /\ Checked' /\ Handed'
  BY <1>1, <1>2, <1>3, <1>4 DEF LoopType, Checked, Handed, Coverable
<1>6. Even'
  BY <1>1, <1>2 DEF Even
<1> QED BY <1>4, <1>5, <1>6 DEF LoopInv

\* Every step keeps the invariant, so it holds always.
LEMMA LoopStep == LoopInv /\ [Next]_vars => LoopInv'
<1>1. ASSUME LoopInv, UNCHANGED vars PROVE LoopInv'
  BY <1>1 DEF vars, LoopInv, LoopType, Checked, Handed, Even, Rising, Coverable
<1> QED BY <1>1, CheckKeeps, RoundKeeps, GiveKeeps, EndRoundKeeps, FinishKeeps DEF Next

\* The invariant of the loop.
LEMMA LoopAlways == Spec => []LoopInv
BY LoopInit, LoopStep, PTL DEF Spec

\* "distributes `requested` concurrency across attached workers, balanced and
\* capped per worker. Returns nil,false if the fleet can't cover it"
\* (services.go:118-119): for any number of workers with any capacities and any
\* request, the loop plans what Allocation says and rejects only what nobody
\* could place.
THEOREM LoopComputesAllocation == Spec => []ComputesAllocation
<1>1. ASSUME LoopInv PROVE ComputesAllocation
  <2>1. LoopType /\ Checked /\ Handed
    BY <1>1 DEF LoopInv
  <2>2. ASSUME pc = "planned"
        PROVE  Coverable(free, requested) /\ alloc = Allocation(free, AtLeastZero(requested))
    <3> DEFINE r == AtLeastZero(requested)
    <3>1. PICK l \in Nat, U \in SUBSET (DOMAIN free) :
             alloc = Poured(free, l, U) /\ Ahead(U, Hungry(free, l))
      BY <1>1, <2>2 DEF LoopInv, Even
    <3>2. r \in Nat /\ Total(alloc) = r
      <4>1. requested \in Int /\ Total(alloc) \in Nat /\ remaining <= 0
            /\ remaining = requested - Total(alloc) /\ Total(alloc) <= AtLeastZero(requested)
        BY <2>1, <2>2, FleetFinite DEF LoopType, Checked, Handed
      <4> QED BY <4>1 DEF AtLeastZero
    <3>3. /\ free \in [DOMAIN free -> Nat] /\ DOMAIN free \in SUBSET Nat
          /\ IsFiniteSet(DOMAIN free)
      BY <2>1, FleetFinite DEF LoopType
    <3> HIDE DEF r
    <3>4. alloc = Allocation(free, r)
      BY <3>1, <3>2, <3>3, PlanIsUnique
    <3> QED BY <2>1, <2>2, <3>4 DEF Checked, r
  <2> QED BY <2>1, <2>2 DEF ComputesAllocation, Checked
<1> QED BY <1>1, LoopAlways, PTL

-----------------------------------------------------------------------------
(* The loop comes to an end.                                               *)

\* What is still to be handed out and where the code is, in one number.
Phase(at, a, r) ==
    IF at = "check" \/ (at = "give" /\ (a = {} \/ r <= 0)) THEN 3
    ELSE IF at = "round" THEN 2
    ELSE IF at = "give" THEN 1 ELSE 0

Countdown == 4 * AtLeastZero(remaining) + Phase(pc, active, remaining)

\* Every worker that is visited is given something.
LEMMA GiveHandsOut == ASSUME LoopInv, Give PROVE remaining' < remaining /\ remaining' \in Int
<1> DEFINE w    == Min(active)
           room == free[w] - alloc[w]
           give == Least(Least(share, room), remaining)
<1>1. active # {} /\ remaining > 0 /\ remaining' = remaining - give /\ pc = "give"
  BY DEF Give
<1>2. LoopType /\ Rising
  BY <1>1 DEF LoopInv
<1>3. w \in active
  <2>1. active \in SUBSET Nat /\ IsFiniteSet(active) /\ active # {}
    BY <1>1, <1>2, FleetFinite DEF LoopType
  <2> QED BY <2>1, LeastExists
<1> HIDE DEF w
<1>4. PICK l \in Nat :
        /\ active \subseteq Hungry(free, l)
        /\ alloc = [v \in DOMAIN free |-> IF v \in Hungry(free, l) \ active
                                          THEN Least(free[v], l + share)
                                          ELSE Least(free[v], l)]
        /\ share >= 1
  BY <1>2 DEF Rising
<1>5. /\ free[w] \in Nat /\ free[w] > l /\ alloc[w] = l /\ share \in Nat /\ remaining \in Int
  BY <1>2, <1>3, <1>4 DEF LoopType, Hungry, Least
<1>6. give \in Int /\ give > 0
  BY <1>1, <1>4, <1>5 DEF Least
<1> HIDE DEF give
<1> QED BY <1>1, <1>5, <1>6

\* allocate runs under the ocean's only mutex (services.go:120-175), so it must
\* return: every step of its loop brings it nearer to its end, for any number of
\* workers, any capacities and any request.
THEOREM LoopCountsDown == Spec => [][Countdown' \in Nat /\ Countdown' < Countdown]_vars
<1>1. ASSUME LoopInv, [Next]_vars PROVE [Countdown' \in Nat /\ Countdown' < Countdown]_vars
  <2> DEFINE r == AtLeastZero(remaining)
             s == AtLeastZero(remaining')
             p == Phase(pc, active, remaining)
             q == Phase(pc', active', remaining')
  <2>1. LoopType /\ LoopInv'
    BY <1>1, LoopStep DEF LoopInv
  <2>2. remaining \in Int /\ remaining' \in Int
    BY <2>1 DEF LoopInv, LoopType
  <2>3. r \in Nat /\ s \in Nat /\ p \in 0..3 /\ q \in 0..3
    BY <2>2 DEF AtLeastZero, Phase
  <2>0. Countdown = 4 * r + p /\ Countdown' = 4 * s + q
    BY DEF Countdown
  <2>4. CASE Check
    <3>1. s = r /\ p = 3 /\ q <= 2
      BY <2>4 DEF Check, Phase
    <3> HIDE DEF r, s, p, q
    <3> QED BY <2>0, <2>3, <3>1
  <2>5. CASE Round
    <3>1. s = r /\ p = 2 /\ q = 1
      BY <2>2, <2>5 DEF Round, Phase
    <3> HIDE DEF r, s, p, q
    <3> QED BY <2>0, <2>3, <3>1
  <2>6. CASE Give
    <3>1. remaining > 0 /\ remaining' < remaining
      BY <1>1, <2>6, GiveHandsOut DEF Give
    <3>2. p = 1
      BY <2>2, <2>6, <3>1 DEF Give, Phase
    <3>3. r >= s + 1
      <4>1. r = remaining
        BY <2>2, <3>1 DEF AtLeastZero
      <4>2. s = 0 \/ s = remaining'
        BY DEF AtLeastZero
      <4> HIDE DEF r, s
      <4> QED BY <2>2, <3>1, <4>1, <4>2
    <3> HIDE DEF r, s, p, q
    <3> QED BY <2>0, <2>3, <3>2, <3>3
  <2>7. CASE EndRound
    <3>1. s = r /\ p = 3 /\ q = 2
      BY <2>2, <2>7 DEF EndRound, Phase
    <3> HIDE DEF r, s, p, q
    <3> QED BY <2>0, <2>3, <3>1
  <2>8. CASE Finish
    <3>1. s = r /\ p = 2 /\ q = 0
      BY <2>8 DEF Finish, Phase
    <3> HIDE DEF r, s, p, q
    <3> QED BY <2>0, <2>3, <3>1
  <2> QED BY <1>1, <2>4, <2>5, <2>6, <2>7, <2>8 DEF Next
<1> QED BY <1>1, LoopAlways, PTL DEF Spec

-----------------------------------------------------------------------------
(* Numbers.                                                                *)

\* A set of numbers that is not empty has a least one.
LEMMA LeastNumber ==
    ASSUME NEW T \in SUBSET Nat, T # {}
    PROVE  \E m \in T : \A n \in T : m <= n
<1>1. PICK k \in T : TRUE
  OBVIOUS
<1> DEFINE S == {n \in T : n <= k}
<1>0. k \in Nat /\ \A n \in T : n \in Nat
  OBVIOUS
<1>2. S \in SUBSET Nat /\ S # {}
  <2>1. k \in S
    BY <1>0
  <2>2. S \subseteq T
    OBVIOUS
  <2> HIDE DEF S
  <2> QED BY <2>1, <2>2
<1>3. IsFiniteSet(S)
  <2>1. \A n \in T : n <= k => n \in 0..k
    BY <1>0
  <2>2. S \subseteq 0..k
    BY <2>1
  <2>3. IsFiniteSet(0..k)
    BY <1>0, FS_Interval
  <2> HIDE DEF S
  <2> QED BY <2>2, <2>3, FS_Subset
<1> HIDE DEF S
<1>4. Min(S) \in S /\ \A n \in S : Min(S) <= n
  BY <1>2, <1>3, LeastExists
<1>5. \A n \in T : n \in S \/ k <= n
  BY <1>1 DEF S
<1>6. Min(S) \in T /\ Min(S) <= k /\ Min(S) \in Nat
  BY <1>4, <1>2 DEF S
<1> QED BY <1>1, <1>4, <1>5, <1>6

-----------------------------------------------------------------------------
(* Texts put together.                                                     *)

\* f is the recursive function of FlattenSeq for the sequences ss.
Flattens(f, ss) ==
    f = [i \in 1..Len(ss) |-> IF i = 1 THEN ss[i] ELSE f[i - 1] \o ss[i]]

\* FlattenSeq, with its recursive function named.
LEMMA FlattenIsChosen ==
    ASSUME NEW ss, Len(ss) # 0
    PROVE  FlattenSeq(ss) = (CHOOSE f : Flattens(f, ss))[Len(ss)]
BY DEF FlattenSeq, Flattens

\* Such a function at one place.
LEMMA FlattensAt ==
    ASSUME NEW f, NEW ss, Flattens(f, ss), NEW i \in 1..Len(ss)
    PROVE  f[i] = IF i = 1 THEN ss[i] ELSE f[i - 1] \o ss[i]
<1> DEFINE Body(j) == IF j = 1 THEN ss[j] ELSE f[j - 1] \o ss[j]
<1>1. f = [j \in 1..Len(ss) |-> Body(j)]
  BY DEF Flattens
<1> HIDE DEF Body
<1>2. f[i] = Body(i)
  BY <1>1
<1> QED BY <1>2 DEF Body

\* Such functions for two lists of texts agree as far as the lists do.
LEMMA FlattensAgree ==
    ASSUME NEW ss, NEW tt, NEW f, NEW g, Flattens(f, ss), Flattens(g, tt), NEW n \in Nat,
           Len(ss) \in Nat, Len(tt) \in Nat, n <= Len(ss), n <= Len(tt),
           \A i \in 1..n : ss[i] = tt[i]
    PROVE  \A i \in 1..n : f[i] = g[i]
<1> DEFINE T == {i \in 1..n : f[i] # g[i]}
<1> SUFFICES ASSUME T # {} PROVE FALSE
  OBVIOUS
<1>1. PICK m \in T : \A i \in T : m <= i
  <2>1. T \in SUBSET Nat
    OBVIOUS
  <2> HIDE DEF T
  <2> QED BY <2>1, LeastNumber
<1>2. m \in 1..Len(ss) /\ m \in 1..Len(tt) /\ ss[m] = tt[m]
  BY <1>1
<1>3. f[m] = (IF m = 1 THEN ss[m] ELSE f[m - 1] \o ss[m])
  BY <1>2, FlattensAt
<1>4. g[m] = (IF m = 1 THEN tt[m] ELSE g[m - 1] \o tt[m])
  BY <1>2, FlattensAt
<1>5. m # 1 => f[m - 1] = g[m - 1]
  <2> SUFFICES ASSUME m # 1 PROVE f[m - 1] = g[m - 1]
    OBVIOUS
  <2>1. m - 1 \in 1..n /\ ~(m <= m - 1)
    BY <1>1
  <2>2. m - 1 \notin T
    BY <1>1, <2>1
  <2> QED BY <2>1, <2>2
<1>6. f[m] = g[m]
  BY <1>2, <1>3, <1>4, <1>5
<1> QED BY <1>1, <1>6

\* There is such a function.
LEMMA FlattensExist ==
    ASSUME NEW S, NEW ss \in Seq(Seq(S))
    PROVE  \E f : Flattens(f, ss)
<1> DEFINE Defines(f, n) == f = [i \in 1..n |-> IF i = 1 THEN ss[i] ELSE f[i - 1] \o ss[i]]
           T == {n \in 0..Len(ss) : ~ \E f : Defines(f, n)}
<1>1. Len(ss) \in Nat
  OBVIOUS
<1> SUFFICES ASSUME T # {} PROVE FALSE
  <2>1. Len(ss) \in 0..Len(ss)
    BY <1>1
  <2> HIDE DEF Defines
  <2>2. PICK f : Defines(f, Len(ss))
    BY <2>1
  <2>3. Flattens(f, ss)
    BY <2>2 DEF Flattens, Defines
  <2> QED BY <2>3
<1>2. PICK m \in T : \A i \in T : m <= i
  <2>1. T \in SUBSET Nat
    <3> HIDE DEF Defines
    <3> QED BY <1>1
  <2> HIDE DEF T
  <2> QED BY <2>1, LeastNumber
<1>3. m \in 0..Len(ss) /\ ~ \E f : Defines(f, m)
  BY <1>2
<1>4. CASE m = 0
  <2> DEFINE e == [i \in 1..0 |-> 0]
  <2>1. e = [i \in 1..0 |-> IF i = 1 THEN ss[i] ELSE e[i - 1] \o ss[i]]
    OBVIOUS
  <2>2. Defines(e, m)
    BY <1>4, <2>1
  <2> QED BY <1>3, <2>2
<1>5. CASE m # 0
  <2>1. m - 1 \in 0..Len(ss) /\ m \in Nat /\ m - 1 \in Nat /\ ~(m <= m - 1)
    BY <1>1, <1>3, <1>5
  <2>2. m - 1 \notin T
    BY <1>2, <2>1
  <2>3. PICK f : Defines(f, m - 1)
    BY <2>1, <2>2
  <2> DEFINE Body(g, i) == IF i = 1 THEN ss[i] ELSE g[i - 1] \o ss[i]
             h == [i \in 1..m |-> Body(f, i)]
  <2>4. \A i \in 1..(m - 1) : f[i] = Body(f, i)
    <3>1. f = [i \in 1..(m - 1) |-> Body(f, i)]
      BY <2>3
    <3> HIDE DEF Body
    <3> QED BY <3>1
  <2>5. \A i \in 1..m : h[i] = Body(f, i)
    <3> HIDE DEF Body
    <3> QED OBVIOUS
  <2>6. \A i \in 1..(m - 1) : h[i] = f[i]
    <3> HIDE DEF Body, h
    <3> QED BY <2>1, <2>4, <2>5
  <2>7. \A i \in 1..m : Body(f, i) = Body(h, i)
    <3> TAKE i \in 1..m
    <3>1. i # 1 => i - 1 \in 1..(m - 1)
      BY <2>1
    <3>2. i # 1 => h[i - 1] = f[i - 1]
      BY <3>1, <2>6
    <3> HIDE DEF h
    <3> QED BY <3>2
  <2>8. h = [i \in 1..m |-> Body(h, i)]
    <3>1. h = [i \in 1..m |-> Body(f, i)]
      OBVIOUS
    <3> HIDE DEF h, Body
    <3> QED BY <2>7, <3>1
  <2>9. Defines(h, m)
    <3> HIDE DEF h
    <3> QED BY <2>8
  <2> HIDE DEF h, Defines
  <2> QED BY <1>3, <2>9
<1> QED BY <1>4, <1>5

\* What FlattenSeq does: nothing gives nothing, and what is appended comes last.
LEMMA FlattenEmpty == FlattenSeq(<<>>) = <<>>
BY DEF FlattenSeq

\* A text alone.
LEMMA FlattenOne ==
    ASSUME NEW S, NEW x \in Seq(S)
    PROVE  FlattenSeq(<<x>>) = x
<1>1. <<x>> \in Seq(Seq(S)) /\ Len(<<x>>) = 1 /\ <<x>>[1] = x
  OBVIOUS
<1> DEFINE f == CHOOSE f : Flattens(f, <<x>>)
<1>2. Flattens(f, <<x>>)
  BY <1>1, FlattensExist
<1>3. FlattenSeq(<<x>>) = f[1]
  <2>1. Len(<<x>>) # 0
    BY <1>1
  <2>2. FlattenSeq(<<x>>) = (CHOOSE g : Flattens(g, <<x>>))[Len(<<x>>)]
    BY <2>1, FlattenIsChosen
  <2> QED BY <1>1, <2>2
<1> HIDE DEF f
<1>4. f[1] = x
  BY <1>1, <1>2, FlattensAt
<1> QED BY <1>3, <1>4

\* One text more.
LEMMA FlattenAppend ==
    ASSUME NEW S, NEW ss \in Seq(Seq(S)), NEW x \in Seq(S)
    PROVE  FlattenSeq(Append(ss, x)) = FlattenSeq(ss) \o x
<1> DEFINE tt == Append(ss, x)
           n == Len(ss)
<1>1. /\ tt \in Seq(Seq(S)) /\ Len(tt) = n + 1 /\ n \in Nat /\ tt[n + 1] = x
      /\ \A i \in 1..n : tt[i] = ss[i]
  BY AppendProperties
<1>2. CASE n = 0
  <2>1. ss = <<>>
    BY <1>2
  <2>2. tt = <<x>>
    BY <2>1
  <2>3. <<>> \o x = x
    BY ConcatEmptySeq
  <2> QED BY <2>1, <2>2, <2>3, FlattenOne, FlattenEmpty
<1>3. CASE n # 0
  <2> DEFINE f == CHOOSE f : Flattens(f, ss)
             g == CHOOSE g : Flattens(g, tt)
  <2> HIDE DEF tt
  <2>1. Flattens(f, ss) /\ Flattens(g, tt)
    BY <1>1, FlattensExist
  <2>2. FlattenSeq(ss) = f[n] /\ FlattenSeq(tt) = g[n + 1]
    <3>1. Len(ss) # 0 /\ Len(tt) # 0
      BY <1>1, <1>3
    <3>2. FlattenSeq(ss) = f[n]
      BY <3>1, FlattenIsChosen
    <3>3. FlattenSeq(tt) = g[Len(tt)]
      BY <3>1, FlattenIsChosen
    <3> QED BY <1>1, <3>2, <3>3
  <2> HIDE DEF f, g
  <2>3. \A i \in 1..n : f[i] = g[i]
    <3>1. /\ n \in Nat /\ Len(ss) \in Nat /\ Len(tt) \in Nat /\ n <= Len(ss) /\ n <= Len(tt)
          /\ \A i \in 1..n : ss[i] = tt[i]
      BY <1>1
    <3> HIDE DEF n
    <3> QED BY <2>1, <3>1, FlattensAgree
  <2>4. g[n + 1] = g[n] \o x
    <3>1. n + 1 \in 1..Len(tt) /\ n + 1 # 1 /\ (n + 1) - 1 = n
      BY <1>1, <1>3
    <3>2. g[n + 1] = IF n + 1 = 1 THEN tt[n + 1] ELSE g[(n + 1) - 1] \o tt[n + 1]
      <4> DEFINE k == n + 1
      <4>1. k \in 1..Len(tt)
        BY <3>1
      <4> HIDE DEF n, k
      <4>2. g[k] = IF k = 1 THEN tt[k] ELSE g[k - 1] \o tt[k]
        BY <2>1, <4>1, FlattensAt
      <4> QED BY <4>2 DEF k
    <3> QED BY <1>1, <3>1, <3>2
  <2>5. n \in 1..n
    BY <1>1, <1>3
  <2> QED BY <2>2, <2>3, <2>4, <2>5 DEF tt
<1> QED BY <1>2, <1>3

\* Among sequences there is the empty one, or one whose last element may not be left out.
LEMMA ShortestSeq ==
    ASSUME NEW S, NEW C \in SUBSET Seq(S), C # {}
    PROVE  <<>> \in C \/ \E s \in Seq(S), e \in S : Append(s, e) \in C /\ s \notin C
<1> DEFINE T == {Len(s) : s \in C}
<1>1. \A s \in C : s \in Seq(S) /\ Len(s) \in Nat
  OBVIOUS
<1>2. T \in SUBSET Nat /\ T # {}
  BY <1>1
<1>3. PICK m \in T : \A n \in T : m <= n
  <2> HIDE DEF T
  <2> QED BY <1>2, LeastNumber
<1>4. PICK t \in C : m = Len(t)
  OBVIOUS
<1>5. SUFFICES ASSUME t # <<>> PROVE \E s \in Seq(S), e \in S : Append(s, e) \in C /\ s \notin C
  BY <1>4
<1>6. PICK s \in Seq(S), e \in S : t = Append(s, e)
  BY <1>1, <1>5, SequenceEmptyOrAppend
<1>7. Len(t) = Len(s) + 1 /\ Len(s) \in Nat
  BY <1>6, AppendProperties
<1>8. s \notin C
  <2> SUFFICES ASSUME s \in C PROVE FALSE
    OBVIOUS
  <2>1. m <= Len(s)
    BY <1>3
  <2> QED BY <1>4, <1>7, <2>1
<1> QED BY <1>4, <1>6, <1>8

\* A function on the first numbers is a sequence.
LEMMA FunctionIsSeq ==
    ASSUME NEW S, NEW n \in Nat, NEW f \in [1..n -> S]
    PROVE  f \in Seq(S) /\ Len(f) = n
OBVIOUS

\* An element may be appended before or after something is put in front.
LEMMA ConcatOfAppend ==
    ASSUME NEW S, NEW s \in Seq(S), NEW t \in Seq(S), NEW e \in S
    PROVE  s \o Append(t, e) = Append(s \o t, e)
<1>1. <<e>> \in Seq(S)
  OBVIOUS
<1>2. Append(t, e) = t \o <<e>>
  BY AppendIsConcat
<1>3. s \o t \in Seq(S)
  BY ConcatProperties
<1>4. Append(s \o t, e) = (s \o t) \o <<e>>
  BY <1>3, AppendIsConcat
<1> QED BY <1>1, <1>2, <1>4, ConcatAssociative

-----------------------------------------------------------------------------
(* A text spelt piece by piece.                                            *)

\* The pieces ps, each spelt as the function G says.
Spell(G, ps) == FlattenSeq([n \in DOMAIN ps |-> G[ps[n]]])

\* The texts a spelling puts together.
LEMMA SpeltPieces ==
    ASSUME NEW P, NEW S, NEW G \in [P -> Seq(S)], NEW ps \in Seq(P)
    PROVE  /\ [n \in DOMAIN ps |-> G[ps[n]]] \in Seq(Seq(S))
           /\ Len([n \in DOMAIN ps |-> G[ps[n]]]) = Len(ps)
<1> DEFINE f == [n \in DOMAIN ps |-> G[ps[n]]]
<1>1. DOMAIN ps = 1..Len(ps) /\ Len(ps) \in Nat /\ \A n \in DOMAIN ps : ps[n] \in P
  OBVIOUS
<1>2. f \in [1..Len(ps) -> Seq(S)]
  BY <1>1
<1> HIDE DEF f
<1>3. f \in Seq(Seq(S)) /\ Len(f) = Len(ps)
  BY <1>1, <1>2, FunctionIsSeq
<1> QED BY <1>3 DEF f

\* Nothing is spelt by the empty text.
LEMMA SpellEmpty ==
    ASSUME NEW G
    PROVE  Spell(G, <<>>) = <<>>
<1> DEFINE f == [n \in DOMAIN <<>> |-> G[<<>>[n]]]
<1>1. DOMAIN f = {}
  OBVIOUS
<1>2. f = <<>>
  OBVIOUS
<1> HIDE DEF f
<1>3. FlattenSeq(f) = <<>>
  BY <1>2, FlattenEmpty
<1> QED BY <1>3 DEF f, Spell

\* One piece more.
LEMMA SpellAppend ==
    ASSUME NEW P, NEW S, NEW G \in [P -> Seq(S)], NEW ps \in Seq(P), NEW p \in P
    PROVE  Spell(G, Append(ps, p)) = Spell(G, ps) \o G[p]
<1> DEFINE qs == Append(ps, p)
           f == [n \in DOMAIN ps |-> G[ps[n]]]
           g == [n \in DOMAIN qs |-> G[qs[n]]]
<1>1. /\ qs \in Seq(P) /\ Len(qs) = Len(ps) + 1 /\ qs[Len(ps) + 1] = p
      /\ \A n \in 1..Len(ps) : qs[n] = ps[n]
      /\ Len(ps) \in Nat /\ DOMAIN ps = 1..Len(ps) /\ DOMAIN qs = 1..Len(qs)
  BY AppendProperties
<1> HIDE DEF qs
<1>2. f \in Seq(Seq(S)) /\ Len(f) = Len(ps) /\ g \in Seq(Seq(S)) /\ Len(g) = Len(qs)
  BY <1>1, SpeltPieces
<1>3. \A n \in 1..Len(ps) : g[n] = f[n]
  BY <1>1
<1>4. g[Len(ps) + 1] = G[p] /\ G[p] \in Seq(S)
  BY <1>1
<1> HIDE DEF f, g
<1>5. /\ Append(f, G[p]) \in Seq(Seq(S)) /\ Len(Append(f, G[p])) = Len(f) + 1
      /\ \A n \in 1..Len(f) : Append(f, G[p])[n] = f[n]
      /\ Append(f, G[p])[Len(f) + 1] = G[p]
  BY <1>2, <1>4, AppendProperties
<1>6. \A n \in 1..Len(g) : g[n] = Append(f, G[p])[n]
  BY <1>1, <1>2, <1>3, <1>4, <1>5
<1>7. g = Append(f, G[p])
  BY <1>1, <1>2, <1>5, <1>6, SeqEqual
<1>8. FlattenSeq(g) = FlattenSeq(f) \o G[p]
  BY <1>2, <1>4, <1>7, FlattenAppend
<1> QED BY <1>8 DEF f, g, qs, Spell

\* A spelling is a text.
LEMMA SpellType ==
    ASSUME NEW P, NEW S, NEW G \in [P -> Seq(S)], NEW ps \in Seq(P)
    PROVE  Spell(G, ps) \in Seq(S)
<1> DEFINE C == {qs \in Seq(P) : Spell(G, qs) \notin Seq(S)}
<1> SUFFICES ASSUME C # {} PROVE FALSE
  OBVIOUS
<1>1. <<>> \notin C
  <2>1. Spell(G, <<>>) = <<>> /\ <<>> \in Seq(S)
    BY SpellEmpty
  <2> QED BY <2>1
<1>2. PICK s \in Seq(P), e \in P : Append(s, e) \in C /\ s \notin C
  <2>1. C \in SUBSET Seq(P)
    OBVIOUS
  <2> HIDE DEF C
  <2> QED BY <1>1, <2>1, ShortestSeq
<1>3. Spell(G, Append(s, e)) = Spell(G, s) \o G[e]
  BY SpellAppend
<1>4. Spell(G, s) \in Seq(S) /\ G[e] \in Seq(S)
  BY <1>2
<1>5. Spell(G, s) \o G[e] \in Seq(S)
  BY <1>4, ConcatProperties
<1> QED BY <1>2, <1>3, <1>5

\* One piece alone.
LEMMA SpellOne ==
    ASSUME NEW P, NEW S, NEW G \in [P -> Seq(S)], NEW p \in P
    PROVE  Spell(G, <<p>>) = G[p]
<1>1. <<>> \in Seq(P) /\ Append(<<>>, p) = <<p>> /\ G[p] \in Seq(S)
  OBVIOUS
<1>2. Spell(G, <<p>>) = <<>> \o G[p]
  BY <1>1, SpellAppend, SpellEmpty
<1> QED BY <1>1, <1>2, ConcatEmptySeq

\* Pieces in two parts are spelt one part after the other.
LEMMA SpellConcat ==
    ASSUME NEW P, NEW S, NEW G \in [P -> Seq(S)], NEW ps \in Seq(P), NEW qs \in Seq(P)
    PROVE  Spell(G, ps \o qs) = Spell(G, ps) \o Spell(G, qs)
<1> DEFINE C == {t \in Seq(P) : Spell(G, ps \o t) # Spell(G, ps) \o Spell(G, t)}
<1> SUFFICES ASSUME C # {} PROVE FALSE
  OBVIOUS
<1>0. Spell(G, ps) \in Seq(S)
  BY SpellType
<1>1. <<>> \notin C
  <2>1. ps \o <<>> = ps /\ Spell(G, ps) \o <<>> = Spell(G, ps)
    BY <1>0, ConcatEmptySeq
  <2> QED BY <2>1, SpellEmpty
<1>2. PICK s \in Seq(P), e \in P : Append(s, e) \in C /\ s \notin C
  <2>1. C \in SUBSET Seq(P)
    OBVIOUS
  <2> HIDE DEF C
  <2> QED BY <1>1, <2>1, ShortestSeq
<1>3. Spell(G, ps \o Append(s, e)) # Spell(G, ps) \o Spell(G, Append(s, e))
  BY <1>2
<1>4. Spell(G, ps \o s) = Spell(G, ps) \o Spell(G, s)
  BY <1>2
<1> HIDE DEF C
<1>5. Spell(G, s) \in Seq(S) /\ G[e] \in Seq(S) /\ ps \o s \in Seq(P)
  BY SpellType, ConcatProperties
<1>6. Spell(G, Append(s, e)) = Spell(G, s) \o G[e]
  BY SpellAppend
<1>7. ps \o Append(s, e) = Append(ps \o s, e)
  BY ConcatOfAppend
<1>8. Spell(G, Append(ps \o s, e)) = Spell(G, ps \o s) \o G[e]
  BY <1>5, SpellAppend
<1>9. (Spell(G, ps) \o Spell(G, s)) \o G[e] = Spell(G, ps) \o (Spell(G, s) \o G[e])
  BY <1>0, <1>5, ConcatAssociative
<1> QED BY <1>3, <1>4, <1>6, <1>7, <1>8, <1>9

\* Only how the pieces that occur are spelt counts.
LEMMA SpellSame ==
    ASSUME NEW G, NEW H, NEW ps, \A n \in DOMAIN ps : G[ps[n]] = H[ps[n]]
    PROVE  Spell(G, ps) = Spell(H, ps)
<1>1. [n \in DOMAIN ps |-> G[ps[n]]] = [n \in DOMAIN ps |-> H[ps[n]]]
  OBVIOUS
<1> QED BY <1>1 DEF Spell

\* What is spelt in pieces that are spelt themselves.
Composes(H, G, W, Q, P, S) ==
    W \in [Q -> Seq(P)] /\ G \in [P -> Seq(S)] /\ H = [q \in Q |-> Spell(G, W[q])]

\* Then the pieces of the pieces spell the same.
LEMMA SpellOfSpell ==
    ASSUME NEW Q, NEW P, NEW S, NEW W, NEW G, NEW H, Composes(H, G, W, Q, P, S), NEW qs \in Seq(Q)
    PROVE  Spell(G, Spell(W, qs)) = Spell(H, qs)
<1>a. W \in [Q -> Seq(P)] /\ G \in [P -> Seq(S)] /\ H = [q \in Q |-> Spell(G, W[q])]
  BY DEF Composes
<1>9. \A ps, rs \in Seq(P) : Spell(G, ps \o rs) = Spell(G, ps) \o Spell(G, rs)
  BY ONLY <1>a, SpellConcat
<1> DEFINE C == {t \in Seq(Q) : Spell(G, Spell(W, t)) # Spell(H, t)}
<1> SUFFICES ASSUME C # {} PROVE FALSE
  OBVIOUS
<1>0. H \in [Q -> Seq(S)] /\ \A q \in Q : H[q] = Spell(G, W[q])
  <2>1. \A q \in Q : Spell(G, W[q]) \in Seq(S)
    BY <1>a, SpellType
  <2> QED BY <1>a, <2>1
<1>1. <<>> \notin C
  <2>1. Spell(W, <<>>) = <<>> /\ Spell(G, <<>>) = <<>> /\ Spell(H, <<>>) = <<>>
    BY SpellEmpty
  <2>2. Spell(G, Spell(W, <<>>)) = Spell(H, <<>>)
    BY <2>1
  <2> QED BY <2>2
<1>2. PICK s \in Seq(Q), e \in Q : Append(s, e) \in C /\ s \notin C
  <2>1. C \in SUBSET Seq(Q)
    OBVIOUS
  <2> HIDE DEF C
  <2> QED BY <1>1, <2>1, ShortestSeq
<1>3. Spell(G, Spell(W, Append(s, e))) # Spell(H, Append(s, e))
  BY <1>2
<1>4. Spell(G, Spell(W, s)) = Spell(H, s)
  BY <1>2
<1> HIDE DEF C
<1>5. Spell(W, s) \in Seq(P) /\ W[e] \in Seq(P)
  BY <1>a, SpellType
<1>6. Spell(W, Append(s, e)) = Spell(W, s) \o W[e]
  BY <1>a, SpellAppend
<1>7. Spell(G, Spell(W, s) \o W[e]) = Spell(G, Spell(W, s)) \o Spell(G, W[e])
  BY <1>5, <1>9
<1>8. Spell(H, Append(s, e)) = Spell(H, s) \o H[e]
  BY <1>0, SpellAppend
<1> QED BY <1>0, <1>3, <1>4, <1>6, <1>7, <1>8

-----------------------------------------------------------------------------
(* What strings.ReplaceAll does to a text of clear pieces.                 *)

\* What the steps of the module work on.
Text == Seq(Symbols)

\* Two symbols.
LEMMA Braces == OpenBrace \in Symbols /\ CloseBrace \in Symbols /\ OpenBrace # CloseBrace
<1>1. OpenBrace # CloseBrace
  BY DEF OpenBrace, CloseBrace
<1> QED BY <1>1, TemplateAssumption

\* A token is spelt in braces.
LEMMA TokenText ==
    ASSUME NEW b \in Text
    PROVE  /\ Raw(Token(b)) \in Text /\ Len(Raw(Token(b))) = Len(b) + 4 /\ Len(b) \in Nat
           /\ Raw(Token(b))[1] = OpenBrace /\ Raw(Token(b))[2] = OpenBrace
           /\ \A i \in 1..Len(b) : Raw(Token(b))[i + 2] = b[i]
           /\ Raw(Token(b))[Len(b) + 3] = CloseBrace /\ Raw(Token(b))[Len(b) + 4] = CloseBrace
<1> DEFINE o == <<OpenBrace, OpenBrace>>
           c == <<CloseBrace, CloseBrace>>
           r == Raw(Token(b))
<1>1. /\ o \in Seq(Symbols) /\ Len(o) = 2 /\ o[1] = OpenBrace /\ o[2] = OpenBrace
      /\ c \in Seq(Symbols) /\ Len(c) = 2 /\ c[1] = CloseBrace /\ c[2] = CloseBrace
      /\ b \in Seq(Symbols) /\ Len(b) \in Nat
  BY Braces DEF Text
<1>2. r = (o \o b) \o c
  BY DEF Raw, Token
<1> HIDE DEF o, c, r
<1>3. /\ o \o b \in Seq(Symbols) /\ Len(o \o b) = Len(b) + 2
      /\ \A i \in 1..Len(b) + 2 : (o \o b)[i] = IF i <= 2 THEN o[i] ELSE b[i - 2]
  <2>1. /\ o \o b \in Seq(Symbols) /\ Len(o \o b) = Len(o) + Len(b)
        /\ \A i \in 1..Len(o) + Len(b) : (o \o b)[i] = IF i <= Len(o) THEN o[i] ELSE b[i - Len(o)]
    BY <1>1, ConcatProperties
  <2> QED BY <1>1, <2>1
<1> DEFINE d == o \o b
<1> HIDE DEF d
<1>4. d \in Seq(Symbols) /\ Len(d) = Len(b) + 2
  BY <1>3 DEF d
<1>5. /\ r \in Seq(Symbols) /\ Len(r) = Len(d) + Len(c)
      /\ \A i \in 1..Len(d) + Len(c) : r[i] = IF i <= Len(d) THEN d[i] ELSE c[i - Len(d)]
  <2>1. r = d \o c
    BY <1>2 DEF d
  <2> QED BY <1>1, <1>4, <2>1, ConcatProperties
<1>6. \A i \in 1..Len(b) + 2 : r[i] = IF i <= 2 THEN o[i] ELSE b[i - 2]
  <2> TAKE i \in 1..Len(b) + 2
  <2>1. i \in 1..Len(d) + Len(c) /\ i <= Len(d)
    BY <1>1, <1>4
  <2> QED BY <1>3, <1>5, <2>1 DEF d
<1>7. r \in Text /\ Len(r) = Len(b) + 4
  BY <1>1, <1>4, <1>5 DEF Text
<1>8. r[1] = OpenBrace /\ r[2] = OpenBrace
  <2>1. 1 \in 1..Len(b) + 2 /\ 2 \in 1..Len(b) + 2
    BY <1>1
  <2> QED BY <1>1, <1>6, <2>1
<1>9. \A i \in 1..Len(b) : r[i + 2] = b[i]
  <2> TAKE i \in 1..Len(b)
  <2>1. i + 2 \in 1..Len(b) + 2 /\ ~(i + 2 <= 2) /\ (i + 2) - 2 = i
    BY <1>1
  <2> QED BY <1>6, <2>1
<1>10. r[Len(b) + 3] = CloseBrace /\ r[Len(b) + 4] = CloseBrace
  <2>1. /\ Len(b) + 3 \in 1..Len(d) + Len(c) /\ Len(b) + 4 \in 1..Len(d) + Len(c)
        /\ ~(Len(b) + 3 <= Len(d)) /\ ~(Len(b) + 4 <= Len(d))
        /\ (Len(b) + 3) - Len(d) = 1 /\ (Len(b) + 4) - Len(d) = 2
    BY <1>1, <1>4
  <2> QED BY <1>1, <1>5, <2>1
<1> QED BY <1>1, <1>7, <1>8, <1>9, <1>10 DEF r

\* {{k}} stands at position i of s.
Match(s, k, i) == IsPrefix(Raw(Token(<<k>>)), SubSeq(s, i, Len(s)))

\* Symbol by symbol.
LEMMA MatchMeans ==
    ASSUME NEW s \in Text, NEW k \in Symbols, NEW i \in 1..Len(s)
    PROVE  Match(s, k, i) <=> /\ i + 4 <= Len(s)
                              /\ s[i] = OpenBrace /\ s[i + 1] = OpenBrace /\ s[i + 2] = k
                              /\ s[i + 3] = CloseBrace /\ s[i + 4] = CloseBrace
<1> DEFINE t == Raw(Token(<<k>>))
           r == SubSeq(s, i, Len(s))
<1>1. /\ t \in Text /\ Len(t) = 5
      /\ t[1] = OpenBrace /\ t[2] = OpenBrace /\ t[3] = k /\ t[4] = CloseBrace /\ t[5] = CloseBrace
  <2>1. <<k>> \in Text /\ Len(<<k>>) = 1 /\ <<k>>[1] = k
    BY DEF Text
  <2>2. 1 \in 1..1 /\ 1 + 2 = 3 /\ 1 + 3 = 4 /\ 1 + 4 = 5
    OBVIOUS
  <2> DEFINE b == <<k>>
  <2> HIDE DEF b, t
  <2>3. /\ Raw(Token(b)) \in Text /\ Len(Raw(Token(b))) = Len(b) + 4
        /\ Raw(Token(b))[1] = OpenBrace /\ Raw(Token(b))[2] = OpenBrace
        /\ \A j \in 1..Len(b) : Raw(Token(b))[j + 2] = b[j]
        /\ Raw(Token(b))[Len(b) + 3] = CloseBrace /\ Raw(Token(b))[Len(b) + 4] = CloseBrace
    BY <2>1, TokenText DEF b
  <2>4. Len(b) = 1 /\ b[1] = k
    BY <2>1 DEF b
  <2>5. Raw(Token(b))[3] = k
    BY <2>2, <2>3, <2>4
  <2> QED BY <2>2, <2>3, <2>4, <2>5 DEF t, b
<1>2. /\ r \in Text /\ Len(r) = Len(s) - i + 1 /\ Len(s) \in Nat
      /\ \A j \in 1..Len(s) - i + 1 : r[j] = s[i + j - 1]
  <2>1. \A j \in i..Len(s) : s[j] \in Symbols
    BY DEF Text
  <2>2. Len(s) \in Nat /\ i \in Int /\ i <= Len(s)
    BY DEF Text
  <2> QED BY <2>1, <2>2, SubSeqProperties DEF Text
<1>3. Match(s, k, i) <=> Len(t) <= Len(r) /\ SubSeq(t, 1, Len(t)) = SubSeq(r, 1, Len(t))
  BY DEF Match, IsPrefix
<1>4. SubSeq(t, 1, Len(t)) = t
  BY <1>1, SubSeqFull DEF Text
<1> HIDE DEF t, r
<1>5. CASE Len(r) < 5
  BY <1>1, <1>2, <1>3, <1>5
<1>6. CASE 5 <= Len(r)
  <2>1. /\ SubSeq(r, 1, 5) \in Text /\ Len(SubSeq(r, 1, 5)) = 5
        /\ \A j \in 1..5 : SubSeq(r, 1, 5)[j] = r[j]
    <3>1. \A j \in 1..5 : r[j] \in Symbols
      BY <1>2, <1>6 DEF Text
    <3> QED BY <3>1, SubSeqProperties DEF Text
  <2>2. t = SubSeq(r, 1, 5) <=> \A j \in 1..5 : t[j] = r[j]
    BY <1>1, <2>1, SeqEqual DEF Text
  <2>3. (\A j \in 1..5 : t[j] = r[j]) <=>
           t[1] = r[1] /\ t[2] = r[2] /\ t[3] = r[3] /\ t[4] = r[4] /\ t[5] = r[5]
    OBVIOUS
  <2>4. r[1] = s[i] /\ r[2] = s[i + 1] /\ r[3] = s[i + 2] /\ r[4] = s[i + 3] /\ r[5] = s[i + 4]
    BY <1>2, <1>6
  <2> QED BY <1>1, <1>2, <1>3, <1>4, <1>6, <2>2, <2>3, <2>4
<1> QED BY <1>1, <1>2, <1>5, <1>6

\* f is the recursive function of ReplaceEvery, from position i of s on.
Scan(f, s, k, v, i) ==
    IF i > Len(s) THEN <<>>
    ELSE IF Match(s, k, i) THEN v \o f[i + Len(Raw(Token(<<k>>)))]
    ELSE <<s[i]>> \o f[i + 1]

\* The function that ReplaceEvery chooses, from position n on.
Scans(f, s, k, v, n) == f = [i \in n..Len(s) + 1 |-> Scan(f, s, k, v, i)]

\* ReplaceEvery, with its recursive function named.
LEMMA ReplaceIsChosen ==
    ASSUME NEW s, NEW k, NEW v
    PROVE  ReplaceEvery(s, k, v) = (CHOOSE f : Scans(f, s, k, v, 1))[1]
BY DEF ReplaceEvery, Scans, Scan, Match

\* Such a function at one place.
LEMMA ScansAt ==
    ASSUME NEW s, NEW k, NEW v, NEW n, NEW f, Scans(f, s, k, v, n), NEW i \in n..Len(s) + 1
    PROVE  f[i] = Scan(f, s, k, v, i)
BY DEF Scans

\* There is such a function: from the end on.
LEMMA ScansExist ==
    ASSUME NEW s \in Text, NEW k \in Symbols, NEW v
    PROVE  \E f : Scans(f, s, k, v, 1)
<1> DEFINE L == Len(s)
           T == {m \in Nat : m <= L /\ ~ \E f : Scans(f, s, k, v, L + 1 - m)}
<1>0. L \in Nat
  BY DEF Text
<1> SUFFICES ASSUME T # {} PROVE FALSE
  <2>1. L \in Nat /\ L <= L /\ L + 1 - L = 1
    BY <1>0
  <2> QED BY <2>1
<1>1. PICK m \in T : \A i \in T : m <= i
  <2>1. T \in SUBSET Nat
    OBVIOUS
  <2> HIDE DEF T
  <2> QED BY <2>1, LeastNumber
<1>2. m \in Nat /\ m <= L /\ ~ \E f : Scans(f, s, k, v, L + 1 - m)
  OBVIOUS
<1> DEFINE n == L + 1 - m
<1>3. n \in 1..L + 1 /\ ~ \E f : Scans(f, s, k, v, n)
  BY <1>0, <1>2
<1>4. PICK f : \A i \in n + 1..L + 1 : f[i] = Scan(f, s, k, v, i)
  <2>1. CASE m = 0
    <3>1. \A i \in n + 1..L + 1 : FALSE
      BY <1>0, <2>1
    <3> QED BY <3>1
  <2>2. CASE m # 0
    <3>1. m - 1 \in Nat /\ m - 1 <= L /\ ~(m <= m - 1) /\ L + 1 - (m - 1) = n + 1
      BY <1>0, <1>2, <2>2
    <3>2. m - 1 \notin T
      BY <1>1, <3>1
    <3>3. PICK f : Scans(f, s, k, v, n + 1)
      <4>1. \E f : Scans(f, s, k, v, L + 1 - (m - 1))
        BY <3>1, <3>2
      <4> QED BY <3>1, <4>1
    <3>4. \A i \in n + 1..L + 1 : f[i] = Scan(f, s, k, v, i)
      BY <3>3, ScansAt
    <3> QED BY <3>4
  <2> QED BY <2>1, <2>2
<1> HIDE DEF n, T
<1> DEFINE h == [i \in n..L + 1 |-> IF i = n THEN Scan(f, s, k, v, n) ELSE f[i]]
<1>5. \A i \in n + 1..L + 1 : h[i] = f[i]
  BY <1>0, <1>3
<1>6. h[n] = Scan(f, s, k, v, n)
  BY <1>0, <1>3
<1>7. DOMAIN h = n..L + 1 /\ h = [i \in DOMAIN h |-> h[i]]
  OBVIOUS
<1> HIDE DEF h
<1>8. \A i \in n..L + 1 : Scan(h, s, k, v, i) = Scan(f, s, k, v, i)
  <2> TAKE i \in n..L + 1
  <2>1. CASE i > L
    BY <2>1 DEF Scan
  <2>2. CASE i <= L
    <3>1. i \in 1..Len(s) /\ i + 1 \in n + 1..L + 1 /\ h[i + 1] = f[i + 1]
      BY <1>0, <1>3, <1>5, <2>2
    <3>2. ASSUME Match(s, k, i)
          PROVE  h[i + Len(Raw(Token(<<k>>)))] = f[i + Len(Raw(Token(<<k>>)))]
      <4>1. i + 4 <= Len(s)
        BY <3>1, <3>2, MatchMeans
      <4>2. Len(Raw(Token(<<k>>))) = 5
        <5>1. <<k>> \in Text /\ Len(<<k>>) = 1
          BY DEF Text
        <5> DEFINE b == <<k>>
        <5> HIDE DEF b
        <5>2. Len(Raw(Token(b))) = Len(b) + 4
          BY <5>1, TokenText DEF b
        <5> QED BY <5>1, <5>2 DEF b
      <4>3. i + 5 \in n + 1..L + 1
        BY <1>0, <1>3, <2>2, <4>1
      <4> QED BY <1>5, <4>2, <4>3
    <3> QED BY <3>1, <3>2 DEF Scan
  <2> QED BY <1>0, <1>3, <2>1, <2>2
<1>9. \A i \in n..L + 1 : h[i] = Scan(h, s, k, v, i)
  <2> TAKE i \in n..L + 1
  <2>1. i = n \/ i \in n + 1..L + 1
    BY <1>0, <1>3
  <2> QED BY <1>4, <1>5, <1>6, <1>8, <2>1
<1>10. Scans(h, s, k, v, n)
  <2>1. h = [i \in n..L + 1 |-> h[i]]
    BY <1>7
  <2>2. [i \in n..L + 1 |-> h[i]] = [i \in n..L + 1 |-> Scan(h, s, k, v, i)]
    BY <1>9
  <2> QED BY <2>1, <2>2 DEF Scans
<1> QED BY <1>3, <1>10

\* What such a function returns is a text.
LEMMA ScansType ==
    ASSUME NEW s \in Text, NEW k \in Symbols, NEW v \in Text, NEW f, Scans(f, s, k, v, 1)
    PROVE  \A i \in 1..Len(s) + 1 : f[i] \in Text
<1> DEFINE L == Len(s)
           T == {m \in Nat : m <= L /\ f[L + 1 - m] \notin Text}
<1>0. L \in Nat
  BY DEF Text
<1>1. SUFFICES ASSUME T # {} PROVE FALSE
  <2> TAKE i \in 1..Len(s) + 1
  <2> DEFINE m == L + 1 - i
  <2>1. m \in Nat /\ m <= L /\ L + 1 - m = i
    BY <1>0
  <2> HIDE DEF m, L
  <2> QED BY <2>1 DEF L
<1>2. PICK m \in T : \A i \in T : m <= i
  <2>1. T \in SUBSET Nat
    OBVIOUS
  <2> HIDE DEF T
  <2> QED BY <1>1, <2>1, LeastNumber
<1> DEFINE n == L + 1 - m
<1>3. n \in 1..L + 1 /\ f[n] \notin Text /\ m \in Nat
  BY <1>0
<1>4. \A i \in n + 1..L + 1 : f[i] \in Text
  <2> TAKE i \in n + 1..L + 1
  <2> DEFINE j == L + 1 - i
  <2>1. j \in Nat /\ j <= L /\ ~(m <= j) /\ L + 1 - j = i
    BY <1>0, <1>3
  <2>2. j \notin T
    <3> HIDE DEF j, T
    <3> QED BY <1>2, <2>1
  <2> HIDE DEF j, n
  <2> QED BY <2>1, <2>2
<1> HIDE DEF n, T
<1>5. f[n] = Scan(f, s, k, v, n)
  BY <1>3, ScansAt
<1>6. CASE n > L
  <2>1. <<>> \in Text
    BY DEF Text
  <2> QED BY <1>3, <1>5, <1>6, <2>1 DEF Scan
<1>7. CASE n <= L
  <2>1. n \in 1..Len(s) /\ n + 1 \in n + 1..L + 1 /\ ~(n > Len(s))
    BY <1>0, <1>3, <1>7
  <2>2. CASE Match(s, k, n)
    <3>1. n + 4 <= Len(s)
      BY <2>1, <2>2, MatchMeans
    <3>2. Len(Raw(Token(<<k>>))) = 5
      <4>1. <<k>> \in Text /\ Len(<<k>>) = 1
        BY DEF Text
      <4> DEFINE b == <<k>>
      <4> HIDE DEF b
      <4>2. Len(Raw(Token(b))) = Len(b) + 4
        BY <4>1, TokenText DEF b
      <4> QED BY <4>1, <4>2 DEF b
    <3>3. f[n] = v \o f[n + 5]
      BY <1>5, <2>1, <2>2, <3>2 DEF Scan
    <3>4. n + 5 \in n + 1..L + 1
      BY <1>0, <2>1, <3>1
    <3>5. f[n + 5] \in Text
      BY <1>4, <3>4
    <3> QED BY <1>3, <3>3, <3>5, ConcatProperties DEF Text
  <2>3. CASE ~ Match(s, k, n)
    <3>1. f[n] = <<s[n]>> \o f[n + 1]
      BY <1>5, <2>1, <2>3 DEF Scan
    <3>2. f[n + 1] \in Text
      BY <1>4, <2>1
    <3>3. <<s[n]>> \in Text
      BY <2>1 DEF Text
    <3> QED BY <1>3, <3>1, <3>2, <3>3, ConcatProperties DEF Text
  <2> QED BY <2>2, <2>3
<1> QED BY <1>0, <1>3, <1>6, <1>7

\* ReplaceEvery returns a text.
LEMMA ReplaceType ==
    ASSUME NEW s \in Text, NEW k \in Symbols, NEW v \in Text
    PROVE  ReplaceEvery(s, k, v) \in Text
<1> DEFINE f == CHOOSE f : Scans(f, s, k, v, 1)
<1>1. Scans(f, s, k, v, 1)
  BY ScansExist
<1>2. ReplaceEvery(s, k, v) = f[1]
  BY ReplaceIsChosen
<1>3. 1 \in 1..Len(s) + 1
  BY DEF Text
<1> HIDE DEF f
<1> QED BY <1>1, <1>2, <1>3, ScansType

\* {{k}} stands at no position from i to before j.
Unmatched(s, k, i, j) == \A n \in i..j - 1 : ~ Match(s, k, n)

\* Where the name does not occur, the text is copied.
LEMMA ScanCopies ==
    ASSUME NEW s \in Text, NEW k \in Symbols, NEW v \in Text, NEW f, Scans(f, s, k, v, 1),
           NEW j \in 1..Len(s) + 1, NEW i \in 1..j, Unmatched(s, k, i, j)
    PROVE  f[i] = SubSeq(s, i, j - 1) \o f[j]
<1> DEFINE T == {m \in Nat : m <= j - i /\ f[j - m] # SubSeq(s, j - m, j - 1) \o f[j]}
<1>0. Len(s) \in Nat /\ j \in Nat /\ i \in Nat
  BY DEF Text
<1>1. SUFFICES ASSUME T # {} PROVE FALSE
  <2> DEFINE m == j - i
  <2>1. m \in Nat /\ m <= j - i /\ j - m = i
    BY <1>0
  <2> HIDE DEF m
  <2> QED BY <2>1
<1>2. PICK m \in T : \A n \in T : m <= n
  <2>1. T \in SUBSET Nat
    OBVIOUS
  <2> HIDE DEF T
  <2> QED BY <1>1, <2>1, LeastNumber
<1> DEFINE n == j - m
<1>3. m \in Nat /\ n \in i..j /\ f[n] # SubSeq(s, n, j - 1) \o f[j]
  <2>1. m \in Nat /\ m <= j - i /\ f[n] # SubSeq(s, n, j - 1) \o f[j]
    OBVIOUS
  <2>2. n \in i..j
    <3> HIDE DEF T
    <3> QED BY <1>0, <2>1
  <2> QED BY <2>1, <2>2
<1>4. f[j] \in Text /\ \A q \in 1..Len(s) : s[q] \in Symbols
  BY ScansType DEF Text
<1>5. CASE m = 0
  <2>1. n = j
    BY <1>0, <1>5
  <2>2. SubSeq(s, j, j - 1) = <<>>
    BY <1>0, SubSeqEmpty
  <2>3. <<>> \o f[j] = f[j]
    BY <1>4, ConcatEmptySeq DEF Text
  <2> QED BY <1>3, <2>1, <2>2, <2>3
<1>6. CASE m # 0
  <2>1. /\ m - 1 \in Nat /\ m - 1 <= j - i /\ ~(m <= m - 1) /\ j - (m - 1) = n + 1
        /\ n \in i..j - 1 /\ n \in 1..Len(s) /\ n \in 1..Len(s) + 1 /\ ~(n > Len(s))
        /\ j - 1 \in n..Len(s) /\ n + 1 \in 1..Len(s) + 1
    BY <1>0, <1>3, <1>6
  <2>2. m - 1 \notin T
    <3> HIDE DEF T
    <3> QED BY <1>2, <2>1
  <2>3. f[n + 1] = SubSeq(s, n + 1, j - 1) \o f[j]
    <3> HIDE DEF n
    <3> QED BY <2>1, <2>2
  <2> HIDE DEF n, T
  <2>4. ~ Match(s, k, n)
    BY <2>1 DEF Unmatched
  <2>5. f[n] = <<s[n]>> \o f[n + 1]
    <3>1. f[n] = Scan(f, s, k, v, n)
      BY <2>1, ScansAt
    <3> QED BY <2>1, <2>4, <3>1 DEF Scan
  <2>6. SubSeq(s, n, j - 1) = <<s[n]>> \o SubSeq(s, n + 1, j - 1)
    BY <2>1, SubSeqRecursiveFirst DEF Text
  <2>7. <<s[n]>> \in Text /\ SubSeq(s, n + 1, j - 1) \in Text
    <3>1. <<s[n]>> \in Text
      BY <1>4, <2>1 DEF Text
    <3>2. \A q \in n + 1..j - 1 : s[q] \in Symbols
      BY <1>0, <1>4, <2>1
    <3>3. n + 1 \in Int /\ j - 1 \in Int
      BY <1>0, <2>1
    <3>4. SubSeq(s, n + 1, j - 1) \in Text
      BY <3>2, <3>3, SubSeqProperties DEF Text
    <3> QED BY <3>1, <3>4
  <2>8. (<<s[n]>> \o SubSeq(s, n + 1, j - 1)) \o f[j] = <<s[n]>> \o (SubSeq(s, n + 1, j - 1) \o f[j])
    <3> DEFINE a == <<s[n]>>
               b == SubSeq(s, n + 1, j - 1)
               c == f[j]
    <3>1. a \in Seq(Symbols) /\ b \in Seq(Symbols) /\ c \in Seq(Symbols)
      BY <1>4, <2>7 DEF Text
    <3> HIDE DEF a, b, c
    <3>2. (a \o b) \o c = a \o (b \o c)
      BY <3>1, ConcatAssociative
    <3> QED BY <3>2 DEF a, b, c
  <2> QED BY <1>3, <2>3, <2>5, <2>6, <2>8
<1> QED BY <1>5, <1>6

-----------------------------------------------------------------------------
(* Clear pieces.                                                           *)

\* Pieces without braces of their own.
ClearPiece == {p \in Piece : Range(p.body) \cap {OpenBrace, CloseBrace} = {}}

\* Raw, on clear pieces, as a function.
RawOf == [p \in ClearPiece |-> Raw(p)]

\* A token's text is as in TokenText, a literal's is its body.
LEMMA PieceText ==
    ASSUME NEW p \in ClearPiece
    PROVE  /\ Raw(p) \in Text
           /\ p.body \in Text
           /\ \A i \in 1..Len(p.body) : p.body[i] # OpenBrace /\ p.body[i] # CloseBrace
           /\ p.token => p = Token(p.body)
           /\ ~p.token => Raw(p) = p.body
<1>1. p \in [token : BOOLEAN, body : Seq(Symbols)] /\ Range(p.body) \cap {OpenBrace, CloseBrace} = {}
  BY DEF ClearPiece, Piece
<1>2. p.body \in Text /\ DOMAIN p.body = 1..Len(p.body)
  BY <1>1 DEF Text
<1>3. \A i \in 1..Len(p.body) : p.body[i] # OpenBrace /\ p.body[i] # CloseBrace
  <2>1. \A i \in DOMAIN p.body : p.body[i] \in Range(p.body)
    BY DEF Range
  <2> QED BY <1>1, <1>2, <2>1
<1>4. p.token => p = Token(p.body)
  BY <1>1 DEF Token
<1>5. ~p.token => Raw(p) = p.body
  BY DEF Raw
<1>6. Raw(p) \in Text
  <2>1. p.token => Raw(p) \in Text
    BY <1>2, <1>4, TokenText
  <2> QED BY <1>1, <1>2, <1>5, <2>1
<1> QED BY <1>2, <1>3, <1>4, <1>5, <1>6

\* What they are spelt as is text.
LEMMA RawOfType == RawOf \in [ClearPiece -> Text]
BY PieceText DEF RawOf

\* Where the middle of a text stands.
Joined(s, x, r, y) == x \in Text /\ r \in Text /\ y \in Text /\ s = (x \o r) \o y

\* Where the symbols of such a text are.
LEMMA Middle ==
    ASSUME NEW s, NEW x, NEW r, NEW y, Joined(s, x, r, y)
    PROVE  /\ s \in Text /\ Len(s) = Len(x) + Len(r) + Len(y)
           /\ Len(x) \in Nat /\ Len(r) \in Nat /\ Len(y) \in Nat
           /\ \A i \in 1..Len(x) : s[i] = x[i]
           /\ \A i \in 1..Len(r) : s[Len(x) + i] = r[i]
           /\ \A i \in 1..Len(y) : s[Len(x) + Len(r) + i] = y[i]
           /\ SubSeq(s, Len(x) + 1, Len(x) + Len(r)) = r
<1>0. x \in Seq(Symbols) /\ r \in Seq(Symbols) /\ y \in Seq(Symbols)
  BY DEF Joined, Text
<1>1. Len(x) \in Nat /\ Len(r) \in Nat /\ Len(y) \in Nat
  BY <1>0
<1> DEFINE d == x \o r
<1>2. /\ d \in Seq(Symbols) /\ Len(d) = Len(x) + Len(r)
      /\ \A i \in 1..Len(x) + Len(r) : d[i] = IF i <= Len(x) THEN x[i] ELSE r[i - Len(x)]
  BY <1>0, ConcatProperties
<1> HIDE DEF d
<1>3. /\ s \in Seq(Symbols) /\ Len(s) = Len(d) + Len(y)
      /\ \A i \in 1..Len(d) + Len(y) : s[i] = IF i <= Len(d) THEN d[i] ELSE y[i - Len(d)]
  <2>1. s = d \o y
    BY DEF d, Joined
  <2>2. /\ d \o y \in Seq(Symbols) /\ Len(d \o y) = Len(d) + Len(y)
        /\ \A i \in 1..Len(d) + Len(y) : (d \o y)[i] = IF i <= Len(d) THEN d[i] ELSE y[i - Len(d)]
    <3>1. d \in Seq(Symbols) /\ y \in Seq(Symbols)
      BY <1>0, <1>2
    <3> QED BY ONLY <3>1, ConcatProperties
  <2> QED BY <2>1, <2>2
<1>4. \A i \in 1..Len(x) : s[i] = x[i]
  <2> TAKE i \in 1..Len(x)
  <2>1. i \in 1..Len(x) + Len(r) /\ i \in 1..Len(d) + Len(y) /\ i <= Len(x) /\ i <= Len(d)
    BY <1>1, <1>2
  <2> QED BY <1>2, <1>3, <2>1
<1>5. \A i \in 1..Len(r) : s[Len(x) + i] = r[i]
  <2> TAKE i \in 1..Len(r)
  <2> DEFINE j == Len(x) + i
  <2>1. /\ j \in 1..Len(x) + Len(r) /\ j \in 1..Len(d) + Len(y) /\ j <= Len(d)
        /\ ~(j <= Len(x)) /\ j - Len(x) = i
    BY <1>1, <1>2
  <2> HIDE DEF j
  <2>2. s[j] = r[i]
    BY <1>2, <1>3, <2>1
  <2> QED BY <2>2 DEF j
<1>6. \A i \in 1..Len(y) : s[Len(x) + Len(r) + i] = y[i]
  <2> TAKE i \in 1..Len(y)
  <2> DEFINE j == Len(x) + Len(r) + i
  <2>1. j \in 1..Len(d) + Len(y) /\ ~(j <= Len(d)) /\ j - Len(d) = i
    BY <1>1, <1>2
  <2> HIDE DEF j
  <2>2. s[j] = y[i]
    BY <1>3, <2>1
  <2> QED BY <2>2 DEF j
<1>7. SubSeq(s, Len(x) + 1, Len(x) + Len(r)) = r
  <2> DEFINE m == Len(x) + 1
             n == Len(x) + Len(r)
  <2>1. /\ m \in Int /\ n \in Int /\ \A i \in m..n : s[i] \in Symbols
    <3>1. \A i \in m..n : i \in 1..Len(s)
      BY <1>1, <1>2, <1>3
    <3> QED BY <1>1, <1>3, <3>1
  <2>2. n - m + 1 = Len(r) /\ \A i \in 1..Len(r) : m + i - 1 = Len(x) + i
    BY <1>1
  <2>3. m <= n <=> Len(r) # 0
    BY <1>1
  <2> HIDE DEF m, n
  <2>4. /\ SubSeq(s, m, n) \in Seq(Symbols)
        /\ Len(SubSeq(s, m, n)) = IF m <= n THEN n - m + 1 ELSE 0
        /\ \A i \in 1..n - m + 1 : SubSeq(s, m, n)[i] = s[m + i - 1]
    BY ONLY <2>1, SubSeqProperties
  <2>5. Len(SubSeq(s, m, n)) = Len(r)
    BY <2>2, <2>3, <2>4
  <2>6. \A i \in 1..Len(SubSeq(s, m, n)) : SubSeq(s, m, n)[i] = r[i]
    BY <1>5, <2>2, <2>4, <2>5
  <2>7. SubSeq(s, m, n) = r
    BY <1>0, <2>4, <2>5, <2>6, SeqEqual
  <2> QED BY <2>7 DEF m, n
<1>8. s \in Text /\ Len(s) = Len(x) + Len(r) + Len(y)
  BY <1>2, <1>3 DEF Text
<1> QED BY <1>1, <1>4, <1>5, <1>6, <1>7, <1>8

\* {{k}} is found where the piece Token(<<k>>) stands, ...
LEMMA TokenMatches ==
    ASSUME NEW s, NEW x, NEW y, NEW k \in Symbols, Joined(s, x, Raw(Token(<<k>>)), y)
    PROVE  /\ Match(s, k, Len(x) + 1)
           /\ Len(x) + 1 \in 1..Len(s)
           /\ Len(Raw(Token(<<k>>))) = 5
<1> DEFINE b == <<k>>
           r == Raw(Token(b))
<1>1. b \in Text /\ Len(b) = 1 /\ b[1] = k /\ 1 \in 1..1 /\ 1 + 2 = 3 /\ 1 + 3 = 4 /\ 1 + 4 = 5
  BY DEF Text
<1>2. Joined(s, x, r, y)
  OBVIOUS
<1> HIDE DEF b
<1>3. /\ r \in Text /\ Len(r) = Len(b) + 4 /\ r[1] = OpenBrace /\ r[2] = OpenBrace
      /\ \A i \in 1..Len(b) : r[i + 2] = b[i]
      /\ r[Len(b) + 3] = CloseBrace /\ r[Len(b) + 4] = CloseBrace
  BY <1>1, TokenText
<1> HIDE DEF r
<1>4. /\ r \in Text /\ Len(r) = 5 /\ r[1] = OpenBrace /\ r[2] = OpenBrace /\ r[3] = k
      /\ r[4] = CloseBrace /\ r[5] = CloseBrace
  <2>1. r[1 + 2] = b[1]
    BY <1>1, <1>3
  <2> QED BY <1>1, <1>3, <2>1
<1>5. /\ s \in Text /\ Len(s) = Len(x) + Len(r) + Len(y) /\ Len(x) \in Nat /\ Len(y) \in Nat
      /\ \A i \in 1..Len(r) : s[Len(x) + i] = r[i]
  BY ONLY <1>2, Middle
<1> DEFINE n == Len(x) + 1
<1>6. /\ n \in 1..Len(s) /\ n + 4 <= Len(s)
      /\ n + 1 = Len(x) + 2 /\ n + 2 = Len(x) + 3 /\ n + 3 = Len(x) + 4 /\ n + 4 = Len(x) + 5
      /\ 1 \in 1..Len(r) /\ 2 \in 1..Len(r) /\ 3 \in 1..Len(r) /\ 4 \in 1..Len(r) /\ 5 \in 1..Len(r)
  BY <1>4, <1>5
<1>7. s[n] = r[1] /\ s[n + 1] = r[2] /\ s[n + 2] = r[3] /\ s[n + 3] = r[4] /\ s[n + 4] = r[5]
  <2>1. n = Len(x) + 1
    OBVIOUS
  <2> HIDE DEF n
  <2> QED BY <1>5, <1>6, <2>1
<1> HIDE DEF n
<1>8. Match(s, k, n)
  <2>1. Match(s, k, n) <=> /\ n + 4 <= Len(s)
                           /\ s[n] = OpenBrace /\ s[n + 1] = OpenBrace /\ s[n + 2] = k
                           /\ s[n + 3] = CloseBrace /\ s[n + 4] = CloseBrace
    <3>1. s \in Text /\ n \in 1..Len(s)
      BY <1>5, <1>6
    <3> QED BY ONLY <3>1, MatchMeans, k \in Symbols
  <2> QED BY <1>4, <1>6, <1>7, <2>1
<1> QED BY <1>4, <1>6, <1>8 DEF n, r, b

\* ... and at no place in any other clear piece.
LEMMA OthersDoNotMatch ==
    ASSUME NEW s, NEW x, NEW y, NEW p \in ClearPiece, Joined(s, x, Raw(p), y),
           NEW k \in Symbols \ {OpenBrace, CloseBrace}, p # Token(<<k>>),
           NEW n \in Len(x) + 1..Len(x) + Len(Raw(p))
    PROVE  ~ Match(s, k, n)
<1> DEFINE r == Raw(p)
           b == p.body
           j == n - Len(x)
<1>1. /\ r \in Text /\ b \in Text /\ \A i \in 1..Len(b) : b[i] # OpenBrace /\ b[i] # CloseBrace
      /\ p.token => p = Token(b)
      /\ ~p.token => r = b
  BY PieceText
<1>2. /\ p.token => /\ Len(r) = Len(b) + 4 /\ r[1] = OpenBrace /\ r[2] = OpenBrace
                    /\ \A i \in 1..Len(b) : r[i + 2] = b[i]
                    /\ r[Len(b) + 3] = CloseBrace /\ r[Len(b) + 4] = CloseBrace
      /\ Len(b) \in Nat
  <2>1. p.token => r = Raw(Token(b))
    BY <1>1
  <2>2. Len(b) \in Nat /\ b \in Text
    BY <1>1 DEF Text
  <2> HIDE DEF r, b
  <2>3. LET q == Raw(Token(b))
        IN  /\ Len(q) = Len(b) + 4 /\ q[1] = OpenBrace /\ q[2] = OpenBrace
            /\ \A i \in 1..Len(b) : q[i + 2] = b[i]
            /\ q[Len(b) + 3] = CloseBrace /\ q[Len(b) + 4] = CloseBrace
    BY <2>2, TokenText
  <2> QED BY <2>1, <2>2, <2>3
<1>3. /\ s \in Text /\ Len(s) = Len(x) + Len(r) + Len(y) /\ Len(x) \in Nat /\ Len(r) \in Nat /\ Len(y) \in Nat
      /\ \A i \in 1..Len(r) : s[Len(x) + i] = r[i]
  <2>1. Joined(s, x, r, y)
    OBVIOUS
  <2> HIDE DEF r
  <2> QED BY <2>1, Middle
<1>4. j \in 1..Len(r) /\ n = Len(x) + j /\ n \in 1..Len(s) /\ n \in Nat
  <2>1. n \in Len(x) + 1..Len(x) + Len(r)
    OBVIOUS
  <2> HIDE DEF r
  <2> QED BY <1>3, <2>1
<1> HIDE DEF r, b, j
<1>5. SUFFICES ASSUME Match(s, k, n) PROVE FALSE
  OBVIOUS
<1>6. /\ n + 4 <= Len(s) /\ s[n] = OpenBrace /\ s[n + 1] = OpenBrace /\ s[n + 2] = k
      /\ s[n + 3] = CloseBrace /\ s[n + 4] = CloseBrace
  <2>1. k \in Symbols /\ s \in Text /\ n \in 1..Len(s)
    BY <1>3, <1>4
  <2> QED BY ONLY <1>5, <2>1, MatchMeans
<1>7. k # OpenBrace /\ k # CloseBrace /\ OpenBrace # CloseBrace
  BY Braces
<1>8. r[j] = OpenBrace
  BY <1>3, <1>4, <1>6
<1>9. p.token
  <2>1. ~p.token => r = b
    BY <1>1
  <2> QED BY <1>1, <1>4, <1>8, <2>1
<1> DEFINE l == Len(b)
<1>10. /\ Len(r) = l + 4 /\ \A i \in 1..l : b[i] # OpenBrace /\ b[i] # CloseBrace /\ r[i + 2] = b[i]
       /\ r[1] = OpenBrace /\ r[2] = OpenBrace /\ r[l + 3] = CloseBrace /\ r[l + 4] = CloseBrace /\ l \in Nat
  BY <1>1, <1>2, <1>9
<1> HIDE DEF l
<1>11. \A i \in 3..l + 2 : r[i] # OpenBrace /\ r[i] # CloseBrace /\ r[i] = b[i - 2]
  <2> TAKE i \in 3..l + 2
  <2> DEFINE h == i - 2
  <2>1. h \in 1..l /\ h + 2 = i
    BY <1>10
  <2> HIDE DEF h
  <2>2. r[i] # OpenBrace /\ r[i] # CloseBrace /\ r[i] = b[h]
    BY <1>10, <2>1
  <2> QED BY <2>2 DEF h
<1>12. j \in {1, 2}
  <2>1. j \in 3..l + 2 => r[j] # OpenBrace
    BY <1>11
  <2>2. j \notin 3..l + 2 /\ j # l + 3 /\ j # l + 4
    BY <1>7, <1>8, <1>10, <2>1
  <2> QED BY <1>4, <1>10, <2>2
<1>13. \A i \in 1..Len(r) : s[Len(x) + i] = r[i]
  BY <1>3
<1>14. CASE j = 2
  <2>1. 3 \in 1..Len(r) /\ n + 1 = Len(x) + 3 /\ 3 \in 3..l + 3
    BY <1>3, <1>4, <1>10, <1>14
  <2>2. r[3] = OpenBrace
    BY <1>6, <1>13, <2>1
  <2>3. 3 \in 3..l + 2 \/ l + 3 = 3
    BY <1>10
  <2> QED BY <1>7, <1>10, <1>11, <2>2, <2>3
<1>15. CASE j = 1
  <2>1. /\ n + 2 = Len(x) + 3 /\ n + 3 = Len(x) + 4 /\ 3 \in 1..Len(r) /\ 4 \in 1..Len(r)
    BY <1>3, <1>4, <1>10, <1>15
  <2>2. r[3] = k /\ r[4] = CloseBrace
    BY <1>6, <1>13, <2>1
  <2>3. CASE l = 0
    BY <1>7, <1>10, <2>2, <2>3
  <2>4. CASE l = 1
    <3>1. 1 \in 1..l /\ b[1] = k
      <4>1. 1 \in 1..l /\ 1 + 2 = 3
        BY <2>4
      <4> QED BY <1>10, <2>2, <4>1
    <3>2. b \in Seq(Symbols) /\ Len(b) = 1
      BY <1>1, <2>4 DEF l, Text
    <3>3. <<k>> \in Seq(Symbols) /\ Len(<<k>>) = 1 /\ <<k>>[1] = k
      OBVIOUS
    <3>4. b = <<k>>
      <4> DEFINE c == <<k>>
      <4> HIDE DEF c
      <4>1. \A i \in 1..Len(b) : b[i] = c[i]
        BY <3>1, <3>2, <3>3 DEF c
      <4>2. b = c
        BY <3>2, <3>3, <4>1, SeqEqual DEF c
      <4> QED BY <4>2 DEF c
    <3> QED BY <1>1, <1>9, <3>4
  <2>5. CASE l > 1
    <3>1. 4 \in 3..l + 2
      BY <1>10, <2>5
    <3> QED BY <1>11, <2>2, <3>1
  <2> QED BY <1>10, <2>3, <2>4, <2>5
<1> QED BY <1>12, <1>14, <1>15

\* What a piece becomes when k stands for v.
Standing(k, v) == [p \in ClearPiece |-> IF p = Token(<<k>>) THEN v ELSE Raw(p)]

\* It is text.
LEMMA StandingType ==
    ASSUME NEW k, NEW v \in Text
    PROVE  Standing(k, v) \in [ClearPiece -> Text]
BY PieceText DEF Standing

\* A stretch of s is copied.
Copied(f, s, i, j) == f[i] = SubSeq(s, i, j - 1) \o f[j]

\* A stretch of s in which the token does not occur.
Copying(f, s, k, v, i, j) ==
    /\ s \in Text /\ k \in Symbols /\ v \in Text /\ Scans(f, s, k, v, 1)
    /\ j \in 1..Len(s) + 1 /\ i \in 1..j /\ Unmatched(s, k, i, j)

\* Where the token does not occur the text is copied.
LEMMA CopiesText ==
    ASSUME NEW f, NEW s, NEW k, NEW v, NEW a, NEW b, Copying(f, s, k, v, a, b)
    PROVE  Copied(f, s, a, b)
BY ScanCopies DEF Copying, Copied

\* A clear piece p of s, after x and before y.
ScansPiece(f, s, k, v, x, p, y) ==
    /\ p \in ClearPiece /\ Joined(s, x, Raw(p), y)
    /\ k \in Symbols \ {OpenBrace, CloseBrace} /\ v \in Text /\ Scans(f, s, k, v, 1)

\* What stands for p is put in, and the scan goes on after p.
PieceScanned(f, k, v, x, p) == f[Len(x) + 1] = Standing(k, v)[p] \o f[Len(x) + Len(Raw(p)) + 1]

\* From one piece to the next.
LEMMA ScanOfPiece ==
    ASSUME NEW f, NEW s, NEW k, NEW v, NEW x, NEW p, NEW y, ScansPiece(f, s, k, v, x, p, y)
    PROVE  PieceScanned(f, k, v, x, p)
<1>0. /\ p \in ClearPiece /\ Joined(s, x, Raw(p), y)
      /\ k \in Symbols \ {OpenBrace, CloseBrace} /\ v \in Text /\ Scans(f, s, k, v, 1)
  BY DEF ScansPiece
<1> USE <1>0
<1> DEFINE r == Raw(p)
           i == Len(x) + 1
           j == Len(x) + Len(r) + 1
<1> SUFFICES f[i] = Standing(k, v)[p] \o f[j]
  BY DEF PieceScanned
<1>1. k \in Symbols /\ s \in Text
  <2>1. s \in Text
    BY Middle
  <2> QED BY <2>1
<1>2. /\ Len(s) = Len(x) + Len(r) + Len(y) /\ SubSeq(s, Len(x) + 1, Len(x) + Len(r)) = r
      /\ Len(x) \in Nat /\ Len(r) \in Nat /\ Len(y) \in Nat
  BY Middle
<1>3. i \in 1..j /\ j \in 1..Len(s) + 1 /\ i \in 1..Len(s) + 1 /\ j - 1 = Len(x) + Len(r)
  <2> HIDE DEF r
  <2> QED BY <1>2
<1>4. CASE p = Token(<<k>>)
  <2>1. Match(s, k, i) /\ i \in 1..Len(s) /\ Len(r) = 5
    BY <1>1, <1>4, TokenMatches
  <2>2. f[i] = Scan(f, s, k, v, i)
    <3> HIDE DEF i
    <3> QED BY <1>3, ScansAt
  <2>3. f[i] = v \o f[i + 5]
    <3> HIDE DEF i
    <3>1. ~(i > Len(s))
      BY <1>2, <2>1
    <3> QED BY <1>4, <2>1, <2>2, <3>1 DEF Scan
  <2>4. i + 5 = j
    <3> HIDE DEF r
    <3> QED BY <1>2, <2>1
  <2>5. Standing(k, v)[p] = v
    BY <1>4 DEF Standing
  <2> QED BY <2>3, <2>4, <2>5
<1>5. CASE p # Token(<<k>>)
  <2>1. Unmatched(s, k, i, j)
    <3> SUFFICES \A m \in i..j - 1 : ~ Match(s, k, m)
      BY DEF Unmatched
    <3> TAKE m \in i..j - 1
    <3>1. m \in Len(x) + 1..Len(x) + Len(Raw(p))
      <4> HIDE DEF r
      <4>1. m \in Len(x) + 1..Len(x) + Len(r)
        BY <1>3
      <4> QED BY <4>1 DEF r
    <3> HIDE DEF i, j
    <3> QED BY <1>5, <3>1, OthersDoNotMatch
  <2>2. f[i] = SubSeq(s, i, j - 1) \o f[j]
    <3> HIDE DEF i, j
    <3>1. Copying(f, s, k, v, i, j)
      BY <1>1, <1>3, <2>1 DEF Copying
    <3>2. Copied(f, s, i, j)
      BY ONLY <3>1, CopiesText
    <3>3. f[i] = SubSeq(s, i, j - 1) \o f[j]
      BY ONLY <3>2 DEF Copied
    <3> QED BY <3>3
  <2>3. SubSeq(s, i, j - 1) = r
    <3> HIDE DEF r
    <3> QED BY <1>2, <1>3
  <2>4. Standing(k, v)[p] = r
    BY <1>5 DEF Standing
  <2> QED BY <2>2, <2>3, <2>4
<1> QED BY <1>4, <1>5

\* The laws of Spell for texts of clear pieces.
LEMMA TextLaws ==
    ASSUME NEW G, G \in [ClearPiece -> Text]
    PROVE  /\ Spell(G, <<>>) = <<>>
           /\ \A p \in ClearPiece : G[p] \in Text
           /\ \A ps \in Seq(ClearPiece) : Spell(G, ps) \in Text
           /\ \A ps, qs \in Seq(ClearPiece) : Spell(G, ps \o qs) = Spell(G, ps) \o Spell(G, qs)
           /\ \A ps \in Seq(ClearPiece), p \in ClearPiece :
                 Spell(G, Append(ps, p)) = Spell(G, ps) \o G[p]
           /\ \A ps \in Seq(ClearPiece), p \in ClearPiece :
                 Spell(G, <<p>> \o ps) = G[p] \o Spell(G, ps)
<1>1. G \in [ClearPiece -> Seq(Symbols)]
  BY DEF Text
<1>2. Spell(G, <<>>) = <<>>
  BY SpellEmpty
<1>3. \A p \in ClearPiece : G[p] \in Text
  OBVIOUS
<1>4. \A ps \in Seq(ClearPiece) : Spell(G, ps) \in Text
  BY ONLY <1>1, SpellType DEF Text
<1>5. \A ps, qs \in Seq(ClearPiece) : Spell(G, ps \o qs) = Spell(G, ps) \o Spell(G, qs)
  BY ONLY <1>1, SpellConcat
<1>6. \A ps \in Seq(ClearPiece), p \in ClearPiece : Spell(G, Append(ps, p)) = Spell(G, ps) \o G[p]
  BY ONLY <1>1, SpellAppend
<1>7. \A p \in ClearPiece : Spell(G, <<p>>) = G[p]
  BY ONLY <1>1, SpellOne
<1>8. \A ps \in Seq(ClearPiece), p \in ClearPiece : Spell(G, <<p>> \o ps) = G[p] \o Spell(G, ps)
  <2> TAKE ps \in Seq(ClearPiece), p \in ClearPiece
  <2> DEFINE q == <<p>>
  <2>1. q \in Seq(ClearPiece) /\ Spell(G, q) = G[p]
    BY <1>7
  <2> HIDE DEF q
  <2>2. Spell(G, q \o ps) = Spell(G, q) \o Spell(G, ps)
    BY <1>5, <2>1
  <2> QED BY <2>1, <2>2 DEF q
<1> QED BY <1>2, <1>3, <1>4, <1>5, <1>6, <1>8

\* ReplaceAll on a text of clear pieces puts v for every token {{k}} and changes
\* nothing else.
LEMMA ReplaceInPieces ==
    ASSUME NEW ps \in Seq(ClearPiece), NEW k \in Symbols \ {OpenBrace, CloseBrace}, NEW v \in Text
    PROVE  ReplaceEvery(Spell(RawOf, ps), k, v) = Spell(Standing(k, v), ps)
<1> DEFINE s == Spell(RawOf, ps)
           G == Standing(k, v)
           f == CHOOSE f : Scans(f, s, k, v, 1)
           At(qs) == Len(Spell(RawOf, qs)) + 1
           T == {n \in Nat : \E qs, rs \in Seq(ClearPiece) :
                    /\ Len(rs) = n /\ ps = qs \o rs /\ f[At(qs)] # Spell(G, rs)}
<1>0. k \in Symbols
  OBVIOUS
<1>1. /\ \A qs \in Seq(ClearPiece) : Spell(RawOf, qs) \in Text
      /\ \A p \in ClearPiece : RawOf[p] = Raw(p) /\ RawOf[p] \in Text
      /\ \A qs, rs \in Seq(ClearPiece) : Spell(RawOf, qs \o rs) = Spell(RawOf, qs) \o Spell(RawOf, rs)
      /\ \A qs \in Seq(ClearPiece), p \in ClearPiece :
            Spell(RawOf, Append(qs, p)) = Spell(RawOf, qs) \o RawOf[p]
      /\ \A qs \in Seq(ClearPiece), p \in ClearPiece : Spell(G, <<p>> \o qs) = G[p] \o Spell(G, qs)
  <2>1. \A p \in ClearPiece : RawOf[p] = Raw(p)
    BY DEF RawOf
  <2>2. RawOf \in [ClearPiece -> Text] /\ G \in [ClearPiece -> Text]
    BY StandingType, RawOfType
  <2> HIDE DEF G
  <2> QED BY ONLY <2>1, <2>2, TextLaws
<1>11. \A a, b, c \in Seq(ClearPiece) : (a \o b) \o c = a \o (b \o c)
  BY ConcatAssociative
<1>2. s \in Text
  BY <1>1
<1>3. Scans(f, s, k, v, 1)
  <2> HIDE DEF s
  <2> QED BY <1>0, <1>2, ScansExist
<1>4. ReplaceEvery(s, k, v) = f[1]
  <2> HIDE DEF s
  <2> QED BY ReplaceIsChosen
<1> HIDE DEF f, G
<1>5. ASSUME T = {} PROVE ReplaceEvery(s, k, v) = Spell(G, ps)
  <2> DEFINE e == <<>>
  <2>1. e \in Seq(ClearPiece) /\ ps = e \o ps /\ Len(ps) \in Nat
    BY ConcatEmptySeq
  <2>2. At(e) = 1
    BY SpellEmpty
  <2> HIDE DEF e, At, s
  <2>3. f[At(e)] = Spell(G, ps)
    BY <1>5, <2>1
  <2> QED BY <1>4, <2>2, <2>3
<1> SUFFICES ASSUME T # {} PROVE FALSE
  BY <1>5 DEF G
<1>6. PICK n \in T : \A m \in T : n <= m
  <2>1. T \in SUBSET Nat
    OBVIOUS
  <2> HIDE DEF T
  <2> QED BY <2>1, LeastNumber
<1>7. PICK qs \in Seq(ClearPiece), rs \in Seq(ClearPiece) :
         Len(rs) = n /\ ps = qs \o rs /\ f[At(qs)] # Spell(G, rs)
  OBVIOUS
<1> DEFINE x == Spell(RawOf, qs)
<1>8. x \in Text /\ Len(x) \in Nat
  <2>1. x \in Text
    BY <1>1
  <2> HIDE DEF x
  <2> QED BY <2>1 DEF Text
<1>9. CASE rs = <<>>
  <2>1. ps = qs
    BY <1>7, <1>9, ConcatEmptySeq
  <2>2. At(qs) = Len(s) + 1
    BY <2>1
  <2>3. Spell(G, rs) = <<>>
    BY <1>9, SpellEmpty
  <2> HIDE DEF At, s
  <2>4. Len(s) + 1 \in 1..Len(s) + 1 /\ Len(s) + 1 > Len(s)
    BY <1>2 DEF Text
  <2>5. f[Len(s) + 1] = Scan(f, s, k, v, Len(s) + 1)
    BY <1>3, <2>4, ScansAt
  <2>6. f[Len(s) + 1] = <<>>
    BY <2>4, <2>5 DEF Scan
  <2> QED BY <1>7, <2>2, <2>3, <2>6
<1>10. CASE rs # <<>>
  <2>1. PICK p \in ClearPiece, ts \in Seq(ClearPiece) : rs = <<p>> \o ts /\ Len(ts) = n - 1 /\ n \in Nat
    <3>1. /\ Head(rs) \in ClearPiece /\ Tail(rs) \in Seq(ClearPiece) /\ Len(Tail(rs)) = Len(rs) - 1
      BY <1>10, HeadTailProperties
    <3>2. rs = <<Head(rs)>> \o Tail(rs)
      BY <1>10
    <3>3. Len(rs) = n /\ n \in Nat
      BY <1>7
    <3> QED BY <3>1, <3>2, <3>3
  <2> DEFINE ws == Append(qs, p)
             r  == RawOf[p]
             y  == Spell(RawOf, ts)
  <2>2. ws \in Seq(ClearPiece) /\ ps = ws \o ts
    <3> HIDE DEF x, r, y, s, At, T
    <3>1. <<p>> \in Seq(ClearPiece)
      OBVIOUS
    <3>2. ws \in Seq(ClearPiece) /\ ws = qs \o <<p>>
      BY AppendIsConcat, AppendProperties
    <3>3. (qs \o <<p>>) \o ts = qs \o (<<p>> \o ts)
      <4> DEFINE u == <<p>>
      <4>1. u \in Seq(ClearPiece)
        BY <3>1
      <4> HIDE DEF u
      <4>2. (qs \o u) \o ts = qs \o (u \o ts)
        BY <1>11, <4>1
      <4> QED BY <4>2 DEF u
    <3> HIDE DEF ws
    <3> QED BY <1>7, <2>1, <3>2, <3>3
  <2>3. r = Raw(p) /\ r \in Text /\ y \in Text
    BY <1>1
  <2>4. Spell(RawOf, ws) = x \o r
    BY <1>1
  <2>5. s = (x \o r) \o y
    <3>1. Spell(RawOf, ws \o ts) = Spell(RawOf, ws) \o Spell(RawOf, ts)
      <4> HIDE DEF ws
      <4> QED BY <1>1, <2>2
    <3> QED BY <2>2, <2>4, <3>1
  <2>6. f[At(ws)] = Spell(G, ts)
    <3>1. n - 1 \notin T
      <4>1. n \in Nat
        BY <2>1
      <4> HIDE DEF T
      <4> QED BY <1>6, <4>1
    <3>2. n - 1 \in Nat
      BY <2>1
    <3> HIDE DEF At, ws
    <3> QED BY <2>1, <2>2, <3>1, <3>2
  <2>7. At(qs) = Len(x) + 1 /\ At(ws) = Len(x) + Len(r) + 1 /\ Len(r) \in Nat
    <3>1. Len(x \o r) = Len(x) + Len(r) /\ Len(r) \in Nat
      <4> HIDE DEF x, r
      <4> QED BY <1>8, <2>3 DEF Text
    <3>2. At(ws) = Len(x \o r) + 1
      BY <2>4
    <3> HIDE DEF r
    <3> QED BY <1>8, <3>1, <3>2
  <2>8. Spell(G, rs) = G[p] \o Spell(G, ts)
    BY <1>1, <2>1
  <2> HIDE DEF x, r, y, s, At, T, ws
  <2>9. Joined(s, x, Raw(p), y)
    BY <1>8, <2>3, <2>5 DEF Joined
  <2>10. f[Len(x) + 1] = Standing(k, v)[p] \o f[Len(x) + Len(Raw(p)) + 1]
    <3>1. ScansPiece(f, s, k, v, x, p, y)
      BY <1>3, <2>9 DEF ScansPiece
    <3>2. PieceScanned(f, k, v, x, p)
      BY ONLY <3>1, ScanOfPiece
    <3> QED BY ONLY <3>2 DEF PieceScanned
  <2>11. f[At(qs)] = G[p] \o f[At(ws)]
    BY <2>3, <2>7, <2>10 DEF G
  <2> QED BY <1>7, <2>6, <2>8, <2>11
<1> QED BY <1>9, <1>10

-----------------------------------------------------------------------------
(* The ocean: each variable in turn.                                       *)

\* The types of the texts, in every stage.
TextType ==
    /\ source \in Seq(Piece)
    /\ DOMAIN variables \subseteq VarNames
    /\ \A k \in DOMAIN variables : variables[k] \in Seq(Piece)
    /\ todo \subseteq DOMAIN variables
    /\ text \in Text

\* What ExpandsAsMeant asks of texts and values.
Meant ==
    /\ Clear(source)
    /\ \A k \in DOMAIN variables :
          Clear(variables[k]) /\ \A n \in DOMAIN variables[k] : ~Variable(variables[k][n])

\* Pieces make a text.
LEMMA RawTextType ==
    ASSUME NEW ps \in Seq(Piece)
    PROVE  RawText(ps) \in Text
<1> DEFINE G == [p \in Piece |-> Raw(p)]
<1>1. \A p \in Piece : Raw(p) \in Text
  <2> TAKE p \in Piece
  <2>1. p.body \in Text /\ p.token \in BOOLEAN /\ (p.token => p = Token(p.body)) /\ (~p.token => Raw(p) = p.body)
    BY DEF Piece, Text, Raw, Token
  <2>2. p.token => Raw(p) \in Text
    BY <2>1, TokenText
  <2> QED BY <2>1, <2>2
<1>2. G \in [Piece -> Seq(Symbols)]
  BY <1>1 DEF Text
<1>3. RawText(ps) = Spell(G, ps)
  <2>1. \A n \in DOMAIN ps : Raw(ps[n]) = G[ps[n]]
    OBVIOUS
  <2>2. [n \in DOMAIN ps |-> Raw(ps[n])] = [n \in DOMAIN ps |-> G[ps[n]]]
    BY <2>1
  <2> QED BY <2>2 DEF RawText, Spell
<1> HIDE DEF G
<1> QED BY <1>2, <1>3, SpellType DEF Text

\* The text of clear pieces is their spelling.
LEMMA RawTextSpells ==
    ASSUME NEW ps \in Seq(ClearPiece)
    PROVE  RawText(ps) = Spell(RawOf, ps)
<1>1. \A n \in DOMAIN ps : Raw(ps[n]) = RawOf[ps[n]]
  BY DEF RawOf
<1>2. [n \in DOMAIN ps |-> Raw(ps[n])] = [n \in DOMAIN ps |-> RawOf[ps[n]]]
  BY <1>1
<1> QED BY <1>2 DEF RawText, Spell

\* Pieces that are clear as a sequence are clear one by one.
LEMMA ClearSeq ==
    ASSUME NEW ps \in Seq(Piece), Clear(ps)
    PROVE  ps \in Seq(ClearPiece)
<1>1. \A n \in 1..Len(ps) : ps[n] \in ClearPiece
  BY DEF Clear, ClearPiece
<1>2. Len(ps) \in Nat /\ ps \in [1..Len(ps) -> Piece]
  OBVIOUS
<1>3. ps \in [1..Len(ps) -> ClearPiece]
  BY <1>1, <1>2
<1> QED BY <1>2, <1>3, FunctionIsSeq

\* A name in braces is a clear piece, and tells the name.
LEMMA NameToken ==
    ASSUME NEW k \in VarNames
    PROVE  Token(<<k>>) \in ClearPiece /\ Token(<<k>>).body[1] = k /\ Token(<<k>>).token
<1>1. k \in Symbols /\ k # OpenBrace /\ k # CloseBrace
  BY TemplateAssumption
<1>2. <<k>> \in Seq(Symbols) /\ Range(<<k>>) = {k} /\ <<k>>[1] = k
  BY <1>1 DEF Range
<1> DEFINE b == <<k>>
<1> HIDE DEF b
<1>3. Token(b) \in Piece /\ Token(b).body = b /\ Token(b).token
  BY <1>2 DEF Token, Piece, b
<1> QED BY <1>1, <1>2, <1>3 DEF b, ClearPiece

\* A piece is a variable if it is the token of its name.
LEMMA VariableMeans ==
    ASSUME TextType, NEW p \in ClearPiece
    PROVE  Variable(p) <=> \E k \in DOMAIN variables : p = Token(<<k>>)
<1>1. p.token => p = Token(p.body)
  BY PieceText
<1>2. \A k \in DOMAIN variables : Token(<<k>>).token /\ Token(<<k>>).body = <<k>>
  BY DEF Token
<1> QED BY <1>1, <1>2 DEF Variable

\* What a piece stands for while the variables in left are not substituted yet.
Stands(left) ==
    [p \in ClearPiece |-> IF \E k \in DOMAIN variables \ left : p = Token(<<k>>)
                          THEN variables[p.body[1]] ELSE <<p>>]

\* Tokens of substituted variables have become values, all else is as it was.
LEMMA StandsAt ==
    ASSUME TextType, Meant, NEW left
    PROVE  /\ Stands(left) \in [ClearPiece -> Seq(ClearPiece)]
           /\ \A k \in DOMAIN variables \ left :
                 Token(<<k>>) \in ClearPiece /\ Stands(left)[Token(<<k>>)] = variables[k]
           /\ \A p \in ClearPiece :
                 (\A k \in DOMAIN variables \ left : p # Token(<<k>>)) => Stands(left)[p] = <<p>>
<1>1. \A k \in DOMAIN variables : variables[k] \in Seq(ClearPiece) /\ k \in VarNames
  BY ClearSeq DEF TextType, Meant
<1>2. \A k \in DOMAIN variables : Token(<<k>>) \in ClearPiece /\ Token(<<k>>).body[1] = k
  BY <1>1, NameToken
<1>3. \A k \in DOMAIN variables \ left : Stands(left)[Token(<<k>>)] = variables[k]
  BY <1>2 DEF Stands
<1>4. \A p \in ClearPiece : (\A k \in DOMAIN variables \ left : p # Token(<<k>>)) => Stands(left)[p] = <<p>>
  BY DEF Stands
<1>5. \A p \in ClearPiece : Stands(left)[p] \in Seq(ClearPiece)
  <2> TAKE p \in ClearPiece
  <2>1. CASE \A k \in DOMAIN variables \ left : p # Token(<<k>>)
    <3>1. <<p>> \in Seq(ClearPiece)
      OBVIOUS
    <3> QED BY <1>4, <2>1, <3>1
  <2>2. ASSUME NEW k \in DOMAIN variables \ left, p = Token(<<k>>) PROVE Stands(left)[p] \in Seq(ClearPiece)
    BY <1>1, <1>3, <2>2
  <2> QED BY <2>1, <2>2
<1>6. Stands(left) \in [ClearPiece -> Seq(ClearPiece)]
  BY <1>5 DEF Stands
<1> QED BY <1>2, <1>3, <1>4, <1>6

\* The text in pieces, but for the variables in left.
Pieces(left) == Spell(Stands(left), source)

\* They are clear pieces again.
LEMMA PiecesType ==
    ASSUME TextType, Meant, NEW left
    PROVE  Pieces(left) \in Seq(ClearPiece) /\ source \in Seq(ClearPiece)
<1>1. source \in Seq(ClearPiece)
  BY ClearSeq DEF TextType, Meant
<1>2. Stands(left) \in [ClearPiece -> Seq(ClearPiece)]
  BY StandsAt
<1>3. \A W \in [ClearPiece -> Seq(ClearPiece)] : Spell(W, source) \in Seq(ClearPiece)
  BY ONLY <1>1, SpellType
<1> QED BY <1>1, <1>2, <1>3 DEF Pieces

\* Spelling the pieces is spelling what each piece of the source stands for.
LEMMA SpellPieces ==
    ASSUME TextType, Meant, NEW left, NEW G, G \in [ClearPiece -> Text]
    PROVE  Spell(G, Pieces(left)) = Spell([q \in ClearPiece |-> Spell(G, Stands(left)[q])], source)
<1>1. source \in Seq(ClearPiece)
  BY PiecesType
<1>2. Stands(left) \in [ClearPiece -> Seq(ClearPiece)]
  BY StandsAt
<1>3. G \in [ClearPiece -> Seq(Symbols)]
  BY DEF Text
<1> DEFINE W == Stands(left)
           H == [q \in ClearPiece |-> Spell(G, W[q])]
<1>4. Composes(H, G, W, ClearPiece, ClearPiece, Symbols)
  BY <1>2, <1>3 DEF Composes
<1> HIDE DEF H, W
<1>5. Spell(G, Spell(W, source)) = Spell(H, source)
  BY ONLY <1>1, <1>4, SpellOfSpell
<1> QED BY <1>5 DEF Pieces, H, W

\* At first every piece stands for itself.
LEMMA PiecesAtFirst ==
    ASSUME TextType, Meant
    PROVE  Spell(RawOf, Pieces(DOMAIN variables)) = RawText(source)
<1> DEFINE H == [q \in ClearPiece |-> Spell(RawOf, Stands(DOMAIN variables)[q])]
<1>1. source \in Seq(ClearPiece)
  BY PiecesType
<1>2. Spell(RawOf, Pieces(DOMAIN variables)) = Spell(H, source)
  BY RawOfType, SpellPieces
<1>3. \A q \in ClearPiece : H[q] = RawOf[q]
  <2> TAKE q \in ClearPiece
  <2>1. Stands(DOMAIN variables)[q] = <<q>>
    BY StandsAt
  <2>2. Spell(RawOf, <<q>>) = RawOf[q]
    BY ONLY RawOfType, SpellOne, q \in ClearPiece DEF Text
  <2> QED BY <2>1, <2>2
<1> HIDE DEF H
<1>4. Spell(H, source) = Spell(RawOf, source)
  <2>1. \A n \in DOMAIN source : H[source[n]] = RawOf[source[n]]
    BY <1>1, <1>3
  <2> QED BY ONLY <2>1, SpellSame
<1>5. RawText(source) = Spell(RawOf, source)
  BY <1>1, RawTextSpells
<1> QED BY <1>2, <1>4, <1>5

\* One ReplaceAll is one variable less.
LEMMA SubstituteLaw ==
    ASSUME TextType, Meant, NEW left \in SUBSET DOMAIN variables, NEW k \in left
    PROVE  ReplaceEvery(Spell(RawOf, Pieces(left)), k, RawText(variables[k])) =
              Spell(RawOf, Pieces(left \ {k}))
<1> DEFINE v == RawText(variables[k])
           S == Standing(k, v)
           A == [q \in ClearPiece |-> Spell(S, Stands(left)[q])]
           B == [q \in ClearPiece |-> Spell(RawOf, Stands(left \ {k})[q])]
<1>1. /\ k \in VarNames /\ k \in Symbols \ {OpenBrace, CloseBrace} /\ k \in DOMAIN variables
      /\ variables[k] \in Seq(ClearPiece)
  BY ClearSeq, TemplateAssumption DEF TextType, Meant
<1>2. v = Spell(RawOf, variables[k]) /\ v \in Text
  <2>1. v = Spell(RawOf, variables[k])
    BY <1>1, RawTextSpells
  <2>2. v \in Text
    BY RawTextType DEF TextType
  <2> QED BY <2>1, <2>2
<1> HIDE DEF v
<1>3. S \in [ClearPiece -> Text]
  BY <1>2, StandingType
<1>4. ReplaceEvery(Spell(RawOf, Pieces(left)), k, v) = Spell(S, Pieces(left))
  <2>1. Pieces(left) \in Seq(ClearPiece)
    BY PiecesType
  <2> QED BY <1>1, <1>2, <2>1, ReplaceInPieces
<1>5. Spell(S, Pieces(left)) = Spell(A, source)
  <2> HIDE DEF S
  <2> QED BY <1>3, SpellPieces
<1>6. Spell(RawOf, Pieces(left \ {k})) = Spell(B, source)
  BY RawOfType, SpellPieces
<1>7. \A q \in ClearPiece : A[q] = B[q]
  <2> TAKE q \in ClearPiece
  <2>0. /\ \A j \in DOMAIN variables : Token(<<j>>) \in ClearPiece
        /\ \A i, j \in DOMAIN variables : Token(<<i>>) = Token(<<j>>) => i = j
    BY NameToken DEF TextType
  <2>1. /\ Spell(S, <<q>>) = S[q]
        /\ Spell(RawOf, <<q>>) = RawOf[q]
    <3> HIDE DEF S
    <3>1. Spell(S, <<q>>) = S[q]
      BY ONLY <1>3, SpellOne, q \in ClearPiece DEF Text
    <3>2. Spell(RawOf, <<q>>) = RawOf[q]
      BY ONLY RawOfType, SpellOne, q \in ClearPiece DEF Text
    <3> QED BY <3>1, <3>2
  <2>2. CASE q = Token(<<k>>)
    <3>1. Stands(left)[q] = <<q>>
      <4>1. \A j \in DOMAIN variables \ left : q # Token(<<j>>)
        BY <1>1, <2>0, <2>2
      <4> QED BY <4>1, StandsAt
    <3>2. Stands(left \ {k})[q] = variables[k]
      <4>1. k \in DOMAIN variables \ (left \ {k})
        BY <1>1
      <4> QED BY <2>2, <4>1, StandsAt
    <3>3. S[q] = v
      BY <2>2 DEF Standing
    <3> HIDE DEF S
    <3> QED BY <1>2, <2>1, <3>1, <3>2, <3>3
  <2>3. ASSUME NEW j \in DOMAIN variables \ left, q = Token(<<j>>) PROVE A[q] = B[q]
    <3>1. Stands(left)[q] = variables[j] /\ Stands(left \ {k})[q] = variables[j]
      <4>1. j \in DOMAIN variables \ (left \ {k})
        BY <2>3
      <4> QED BY <2>3, <4>1, StandsAt
    <3>2. variables[j] \in Seq(ClearPiece)
      BY ClearSeq DEF TextType, Meant
    <3>3. \A n \in DOMAIN variables[j] : S[variables[j][n]] = RawOf[variables[j][n]]
      <4> TAKE n \in DOMAIN variables[j]
      <4>1. variables[j][n] \in ClearPiece
        BY <3>2
      <4>2. ~Variable(variables[j][n])
        BY DEF Meant
      <4>3. variables[j][n] # Token(<<k>>)
        BY <1>1, <4>1, <4>2, VariableMeans
      <4> QED BY <4>1, <4>3 DEF Standing, RawOf
    <3> HIDE DEF S
    <3>4. Spell(S, variables[j]) = Spell(RawOf, variables[j])
      BY ONLY <3>3, SpellSame
    <3> QED BY <3>1, <3>4
  <2>4. CASE q # Token(<<k>>) /\ \A j \in DOMAIN variables \ left : q # Token(<<j>>)
    <3>1. Stands(left)[q] = <<q>> /\ Stands(left \ {k})[q] = <<q>>
      <4>1. \A j \in DOMAIN variables \ (left \ {k}) : q # Token(<<j>>)
        BY <2>4
      <4> QED BY <2>4, <4>1, StandsAt
    <3>2. S[q] = RawOf[q]
      BY <2>4 DEF Standing, RawOf
    <3> HIDE DEF S
    <3> QED BY <2>1, <3>1, <3>2
  <2> QED BY <2>2, <2>3, <2>4
<1> HIDE DEF A, B
<1>8. Spell(A, source) = Spell(B, source)
  <2>1. source \in Seq(ClearPiece)
    BY PiecesType
  <2>2. \A n \in DOMAIN source : A[source[n]] = B[source[n]]
    BY <1>7, <2>1
  <2> QED BY ONLY <2>2, SpellSame
<1> QED BY <1>4, <1>5, <1>6, <1>8 DEF v

-----------------------------------------------------------------------------
(* Compile: where the next token is.                                       *)

\* The least element is the one that is not greater than any other.
LEMMA LeastIs ==
    ASSUME NEW T \in SUBSET Int, NEW n \in T, \A m \in T : n <= m
    PROVE  Min(T) = n
<1>1. \A y \in T : n =< y
  OBVIOUS
<1>2. \A x \in T : (\A y \in T : x =< y) => x = n
  OBVIOUS
<1> QED BY <1>1, <1>2 DEF Min

\* Texts without braces, pieces without tokens.
NoBrace(s)     == \A i \in 1..Len(s) : s[i] # OpenBrace /\ s[i] # CloseBrace
AllLiteral(ps) == \A n \in DOMAIN ps : ~ps[n].token

\* Nor have two of them together.
LEMMA NoBraceConcat ==
    ASSUME NEW s \in Text, NEW t \in Text, NoBrace(s), NoBrace(t)
    PROVE  NoBrace(s \o t)
<1>1. s \in Seq(Symbols) /\ t \in Seq(Symbols) /\ Len(s) \in Nat /\ Len(t) \in Nat
  BY DEF Text
<1>2. /\ Len(s \o t) = Len(s) + Len(t)
      /\ \A i \in 1..Len(s) + Len(t) : (s \o t)[i] = IF i <= Len(s) THEN s[i] ELSE t[i - Len(s)]
  BY <1>1, ConcatProperties
<1> SUFFICES ASSUME NEW i \in 1..Len(s \o t)
             PROVE  (s \o t)[i] # OpenBrace /\ (s \o t)[i] # CloseBrace
  BY DEF NoBrace
<1>3. CASE i <= Len(s)
  BY <1>1, <1>2, <1>3 DEF NoBrace
<1>4. CASE ~(i <= Len(s))
  <2> DEFINE j == i - Len(s)
  <2>1. j \in 1..Len(t) /\ (s \o t)[i] = t[j]
    BY <1>1, <1>2, <1>4
  <2> HIDE DEF j
  <2> QED BY <2>1 DEF NoBrace
<1> QED BY <1>3, <1>4

\* One piece more.
LEMMA AppendLiteral ==
    ASSUME NEW ps \in Seq(ClearPiece), NEW p \in ClearPiece
    PROVE  AllLiteral(Append(ps, p)) <=> AllLiteral(ps) /\ ~p.token
<1> DEFINE q == Append(ps, p)
<1>1. /\ Len(ps) \in Nat /\ DOMAIN ps = 1..Len(ps) /\ DOMAIN q = 1..Len(ps) + 1
      /\ \A n \in 1..Len(ps) : q[n] = ps[n]
      /\ q[Len(ps) + 1] = p
  BY AppendProperties
<1> HIDE DEF q
<1>2. \A n \in 1..Len(ps) + 1 : n \in 1..Len(ps) \/ n = Len(ps) + 1
  BY <1>1
<1>3. (\A n \in DOMAIN q : ~q[n].token) <=> (\A n \in 1..Len(ps) : ~ps[n].token) /\ ~p.token
  <2>1. Len(ps) + 1 \in 1..Len(ps) + 1 /\ \A n \in 1..Len(ps) : n \in 1..Len(ps) + 1
    BY <1>1
  <2> QED BY <1>1, <1>2, <2>1
<1> QED BY <1>1, <1>3 DEF AllLiteral, q

\* Clear literals have no braces.
LEMMA LiteralsText ==
    ASSUME NEW ps \in Seq(ClearPiece), AllLiteral(ps)
    PROVE  NoBrace(Spell(RawOf, ps))
<1> DEFINE C == {qs \in Seq(ClearPiece) : AllLiteral(qs) /\ ~NoBrace(Spell(RawOf, qs))}
<1> SUFFICES ASSUME C # {} PROVE FALSE
  OBVIOUS
<1>0. /\ Spell(RawOf, <<>>) = <<>>
      /\ \A qs \in Seq(ClearPiece) : Spell(RawOf, qs) \in Text
      /\ \A qs \in Seq(ClearPiece), p \in ClearPiece :
            Spell(RawOf, Append(qs, p)) = Spell(RawOf, qs) \o RawOf[p]
  BY ONLY RawOfType, TextLaws
<1>1. <<>> \notin C
  <2>1. NoBrace(<<>>)
    BY DEF NoBrace
  <2> QED BY <1>0, <2>1
<1>2. PICK s \in Seq(ClearPiece), e \in ClearPiece : Append(s, e) \in C /\ s \notin C
  <2>1. C \in SUBSET Seq(ClearPiece)
    OBVIOUS
  <2> HIDE DEF C
  <2> QED BY <1>1, <2>1, ShortestSeq
<1>3. AllLiteral(Append(s, e)) /\ ~NoBrace(Spell(RawOf, Append(s, e)))
  BY <1>2
<1>4. AllLiteral(s) /\ ~e.token
  BY <1>3, AppendLiteral
<1>5. NoBrace(Spell(RawOf, s))
  BY <1>2, <1>4
<1> HIDE DEF C
<1>6. RawOf[e] \in Text /\ NoBrace(RawOf[e])
  <2>1. RawOf[e] = e.body /\ e.body \in Text /\ \A i \in 1..Len(e.body) : e.body[i] # OpenBrace /\ e.body[i] # CloseBrace
    BY <1>4, PieceText DEF RawOf
  <2> QED BY <2>1 DEF NoBrace
<1>7. NoBrace(Spell(RawOf, s) \o RawOf[e])
  <2> DEFINE u == Spell(RawOf, s)
             w == RawOf[e]
  <2>1. u \in Text /\ w \in Text /\ NoBrace(u) /\ NoBrace(w)
    BY <1>0, <1>5, <1>6
  <2> HIDE DEF u, w
  <2>2. NoBrace(u \o w)
    BY <2>1, NoBraceConcat
  <2> QED BY <2>2 DEF u, w
<1> QED BY <1>0, <1>3, <1>7

\* Either there is no token, or there is a first one.
FirstToken(ps, c, t, d) ==
    /\ c \in Seq(ClearPiece) /\ d \in Seq(ClearPiece) /\ t \in ClearPiece
    /\ AllLiteral(c) /\ t.token /\ ps = Append(c, t) \o d

\* If there is a token there is a first one.
LEMMA FirstTokenExists ==
    ASSUME NEW ps \in Seq(ClearPiece), ~AllLiteral(ps)
    PROVE  \E c, t, d : FirstToken(ps, c, t, d)
<1> DEFINE C == {qs \in Seq(ClearPiece) : ~AllLiteral(qs) /\ ~ \E c, t, d : FirstToken(qs, c, t, d)}
<1> SUFFICES ASSUME C # {} PROVE FALSE
  OBVIOUS
<1>1. <<>> \notin C
  BY DEF AllLiteral
<1>2. PICK s \in Seq(ClearPiece), e \in ClearPiece : Append(s, e) \in C /\ s \notin C
  <2>1. C \in SUBSET Seq(ClearPiece)
    OBVIOUS
  <2> HIDE DEF C
  <2> QED BY <1>1, <2>1, ShortestSeq
<1>3. ~AllLiteral(Append(s, e)) /\ ~ \E c, t, d : FirstToken(Append(s, e), c, t, d)
  BY <1>2
<1>4. AllLiteral(s) \/ \E c, t, d : FirstToken(s, c, t, d)
  BY <1>2
<1> HIDE DEF C
<1>5. CASE AllLiteral(s)
  <2>1. e.token
    BY <1>3, <1>5, AppendLiteral
  <2>2. Append(s, e) = Append(s, e) \o <<>> /\ <<>> \in Seq(ClearPiece)
    BY AppendProperties, ConcatEmptySeq
  <2>3. FirstToken(Append(s, e), s, e, <<>>)
    BY <1>5, <2>1, <2>2 DEF FirstToken
  <2> QED BY <1>3, <2>3
<1>6. ASSUME NEW c, NEW t, NEW d, FirstToken(s, c, t, d) PROVE FALSE
  <2>1. /\ c \in Seq(ClearPiece) /\ d \in Seq(ClearPiece) /\ t \in ClearPiece
        /\ AllLiteral(c) /\ t.token /\ s = Append(c, t) \o d
    BY <1>6 DEF FirstToken
  <2>2. Append(c, t) \in Seq(ClearPiece) /\ Append(d, e) \in Seq(ClearPiece)
    BY <2>1, AppendProperties
  <2>3. Append(c, t) \o Append(d, e) = Append(Append(c, t) \o d, e)
    <3> DEFINE u == Append(c, t)
    <3>1. u \in Seq(ClearPiece)
      BY <2>2
    <3> HIDE DEF u
    <3>2. u \o Append(d, e) = Append(u \o d, e)
      BY <2>1, <3>1, ConcatOfAppend
    <3> QED BY <3>2 DEF u
  <2>4. FirstToken(Append(s, e), c, t, Append(d, e))
    BY <2>1, <2>2, <2>3 DEF FirstToken
  <2> QED BY <1>3, <2>4
<1> QED BY <1>4, <1>5, <1>6

\* What will be used of concatenation.
LEMMA TextConcat ==
    /\ \A a, b \in Text : a \o b \in Text /\ Len(a \o b) = Len(a) + Len(b)
    /\ \A a \in Text : Len(a) \in Nat
    /\ \A a, b, c \in Text : (a \o b) \o c = a \o (b \o c)
<1>1. \A a, b \in Text : a \o b \in Text /\ Len(a \o b) = Len(a) + Len(b)
  BY ConcatProperties DEF Text
<1>2. \A a, b, c \in Text : (a \o b) \o c = a \o (b \o c)
  BY ConcatAssociative DEF Text
<1>3. \A a \in Text : Len(a) \in Nat
  BY DEF Text
<1> QED BY <1>1, <1>2, <1>3

\* A token's body in the middle, or the whole token.
Regroups(X, o, b, c, y) == (X \o ((o \o b) \o c)) \o y = ((X \o o) \o b) \o (c \o y)

\* Concatenation is associative.
LEMMA Regroup ==
    ASSUME NEW X \in Text, NEW o \in Text, NEW b \in Text, NEW c \in Text, NEW y \in Text
    PROVE  Regroups(X, o, b, c, y)
<1> DEFINE ob == o \o b
<1>1. ob \in Text
  BY TextConcat
<1> HIDE DEF ob
<1>2. X \o (ob \o c) = (X \o ob) \o c
  BY <1>1, TextConcat
<1> DEFINE Xob == X \o ob
<1>3. Xob \in Text
  BY <1>1, TextConcat
<1>4. Xob = (X \o o) \o b
  BY TextConcat DEF ob
<1> HIDE DEF Xob
<1>5. (Xob \o c) \o y = Xob \o (c \o y)
  BY <1>3, TextConcat
<1> QED BY <1>2, <1>4, <1>5 DEF ob, Xob, Regroups

\* Doubles, in any text.
DoublesOf(s, b, i) == {n \in i..Len(s) - 1 : s[n] = b /\ s[n + 1] = b}

\* s is x, then a text without braces, then the token of b, then y.
TokenFound(s, x, c, b, y) ==
    /\ x \in Text /\ c \in Text /\ b \in Text /\ y \in Text
    /\ NoBrace(c) /\ NoBrace(b)
    /\ s = ((x \o c) \o Raw(Token(b))) \o y

\* The least position at which a brace b stands twice.
FirstDouble(s, b, i, n) == n \in DoublesOf(s, b, i) /\ Min(DoublesOf(s, b, i)) = n

\* What Compile finds there.
Found(s, x, c, b, n, m) ==
    /\ n = Len(x) + Len(c) + 1 /\ m = Len(x) + Len(c) + Len(b) + 3
    /\ FirstDouble(s, OpenBrace, Len(x) + 1, n)
    /\ FirstDouble(s, CloseBrace, n + 2, m)
    /\ SubSeq(s, Len(x) + 1, n - 1) = c
    /\ SubSeq(s, n, m + 1) = Raw(Token(b))
    /\ SubSeq(s, n + 2, m - 1) = b

\* The first {{ and the first }} after it are those around the token.
LEMMA NextToken ==
    ASSUME NEW s, NEW x, NEW c, NEW b, NEW y, TokenFound(s, x, c, b, y)
    PROVE  \E n, m \in Nat : Found(s, x, c, b, n, m)
<1> DEFINE o == <<OpenBrace, OpenBrace>>
           e == <<CloseBrace, CloseBrace>>
           X == x \o c
           r == Raw(Token(b))
           n == Len(x) + Len(c) + 1
           m == Len(x) + Len(c) + Len(b) + 3
<1>1. x \in Text /\ c \in Text /\ b \in Text /\ y \in Text /\ NoBrace(c) /\ NoBrace(b) /\ s = (X \o r) \o y
  BY DEF TokenFound
<1>a. x \in Text /\ c \in Text /\ b \in Text /\ y \in Text
  BY <1>1
<1>2. o \in Text /\ e \in Text /\ Len(o) = 2 /\ Len(e) = 2
  BY Braces DEF Text
<1>3. /\ r \in Text /\ Len(r) = Len(b) + 4 /\ r[1] = OpenBrace /\ r[2] = OpenBrace
      /\ \A i \in 1..Len(b) : r[i + 2] = b[i]
      /\ r[Len(b) + 3] = CloseBrace /\ r[Len(b) + 4] = CloseBrace
  BY <1>1, TokenText
<1>4. r = (o \o b) \o e
  BY DEF Raw, Token
<1>5. X \in Text /\ Len(X) = Len(x) + Len(c)
  BY <1>1, TextConcat
<1>6. /\ Len(x) \in Nat /\ Len(c) \in Nat /\ Len(b) \in Nat /\ Len(y) \in Nat
  BY <1>1, TextConcat
<1> HIDE DEF o, e, r
<1>7. Joined(s, X, r, y)
  <2> HIDE DEF X
  <2> QED BY <1>1, <1>3, <1>5 DEF Joined
<1>8. Joined(s, x, c, r \o y)
  <2>1. r \o y \in Text
    BY <1>1, <1>3, TextConcat
  <2>2. (X \o r) \o y = X \o (r \o y)
    <3>1. X \in Text /\ r \in Text /\ y \in Text
      BY <1>1, <1>3, <1>5
    <3> HIDE DEF X
    <3> QED BY ONLY <3>1, TextConcat
  <2>3. s = (x \o c) \o (r \o y)
    BY <1>1, <2>2
  <2> QED BY <1>1, <2>1, <2>3 DEF Joined
<1> HIDE DEF X
<1>9. Joined(s, X \o o, b, e \o y) /\ Len(X \o o) = Len(x) + Len(c) + 2
  <2>a. o \in Text /\ X \in Text /\ e \in Text
    BY <1>2, <1>5
  <2>b. e \o y \in Text
    BY ONLY <1>a, <2>a, TextConcat
  <2>c. X \o o \in Text /\ Len(X \o o) = Len(X) + Len(o)
    BY ONLY <2>a, TextConcat
  <2>1. X \o o \in Text /\ e \o y \in Text /\ Len(X \o o) = Len(X) + 2
    BY ONLY <2>b, <2>c, <1>2
  <2>2. (X \o ((o \o b) \o e)) \o y = ((X \o o) \o b) \o (e \o y)
    <3>1. Regroups(X, o, b, e, y)
      BY ONLY <1>a, <2>a, Regroup
    <3> QED BY ONLY <3>1 DEF Regroups
  <2>3. s = ((X \o o) \o b) \o (e \o y)
    BY <1>1, <1>4, <2>2
  <2>4. Len(X \o o) = Len(x) + Len(c) + 2
    BY <1>5, <2>1
  <2> QED BY <1>1, <2>1, <2>3, <2>4 DEF Joined
<1>10. SubSeq(s, Len(x) + 1, n - 1) = c /\ \A i \in 1..Len(c) : s[Len(x) + i] = c[i]
  <2>1. SubSeq(s, Len(x) + 1, Len(x) + Len(c)) = c /\ \A i \in 1..Len(c) : s[Len(x) + i] = c[i]
    BY <1>8, Middle
  <2>2. n - 1 = Len(x) + Len(c)
    BY <1>6
  <2> QED BY <2>1, <2>2
<1>11. /\ s \in Text /\ Len(s) = Len(X) + Len(r) + Len(y)
       /\ SubSeq(s, Len(X) + 1, Len(X) + Len(r)) = r /\ \A i \in 1..Len(r) : s[Len(X) + i] = r[i]
  BY <1>7, Middle
<1>12. SubSeq(s, n, m + 1) = r
  <2>1. n = Len(X) + 1 /\ m + 1 = Len(X) + Len(r) /\ n \in Nat /\ m \in Nat
    BY <1>3, <1>5, <1>6
  <2> HIDE DEF n, m
  <2> QED BY <1>11, <2>1
<1>13. SubSeq(s, n + 2, m - 1) = b
  <2>1. SubSeq(s, Len(X \o o) + 1, Len(X \o o) + Len(b)) = b
    <3> DEFINE Z == X \o o
    <3>1. Joined(s, Z, b, e \o y)
      BY <1>9
    <3> HIDE DEF Z
    <3>2. SubSeq(s, Len(Z) + 1, Len(Z) + Len(b)) = b
      BY ONLY <3>1, Middle
    <3> QED BY <3>2 DEF Z
  <2>2. n + 2 = Len(X \o o) + 1 /\ m - 1 = Len(X \o o) + Len(b)
    BY <1>6, <1>9
  <2> QED BY <2>1, <2>2
<1>14. /\ Len(s) = Len(x) + Len(c) + Len(b) + 4 + Len(y)
       /\ \A i \in 1..Len(b) + 4 : s[Len(x) + Len(c) + i] = r[i]
  BY <1>3, <1>5, <1>6, <1>11
<1> HIDE DEF n, m
<1>15. /\ n = Len(x) + Len(c) + 1 /\ m = Len(x) + Len(c) + Len(b) + 3 /\ n \in Nat /\ m \in Nat
       /\ n \in Len(x) + 1..Len(s) - 1 /\ m \in n + 2..Len(s) - 1
  BY <1>6, <1>14 DEF n, m
<1>16. s[n] = OpenBrace /\ s[n + 1] = OpenBrace
  <2>1. s[Len(x) + Len(c) + 1] = r[1] /\ s[Len(x) + Len(c) + 2] = r[2]
    BY <1>6, <1>14
  <2>2. n + 1 = Len(x) + Len(c) + 2
    BY <1>6, <1>15
  <2> QED BY <1>3, <1>15, <2>1, <2>2
<1>17. s[m] = CloseBrace /\ s[m + 1] = CloseBrace
  <2>1. /\ s[Len(x) + Len(c) + (Len(b) + 3)] = r[Len(b) + 3]
        /\ s[Len(x) + Len(c) + (Len(b) + 4)] = r[Len(b) + 4]
    BY <1>6, <1>14
  <2>2. m = Len(x) + Len(c) + (Len(b) + 3) /\ m + 1 = Len(x) + Len(c) + (Len(b) + 4)
    BY <1>6, <1>15
  <2> QED BY <1>3, <2>1, <2>2
<1>18. \A i \in Len(x) + 1..n - 1 : s[i] # OpenBrace
  <2> TAKE i \in Len(x) + 1..n - 1
  <2> DEFINE j == i - Len(x)
  <2>1. j \in 1..Len(c) /\ i = Len(x) + j
    BY <1>6, <1>15
  <2> HIDE DEF j
  <2> QED BY <1>1, <1>10, <2>1 DEF NoBrace
<1>19. \A i \in n + 2..m - 1 : s[i] # CloseBrace
  <2> TAKE i \in n + 2..m - 1
  <2> DEFINE j == i - (Len(x) + Len(c) + 2)
             k == j + 2
  <2>1. j \in 1..Len(b) /\ k \in 1..Len(b) + 4 /\ i = Len(x) + Len(c) + k
    BY <1>6, <1>15
  <2>2. k = j + 2
    OBVIOUS
  <2> HIDE DEF j, k
  <2>3. s[i] = r[k] /\ r[k] = b[j]
    BY <1>3, <1>14, <2>1, <2>2
  <2> QED BY <1>1, <2>1, <2>3 DEF NoBrace
<1>20. FirstDouble(s, OpenBrace, Len(x) + 1, n)
  <2> DEFINE T == DoublesOf(s, OpenBrace, Len(x) + 1)
  <2>1. n \in T
    BY <1>15, <1>16 DEF DoublesOf
  <2>2. T \in SUBSET Int /\ \A i \in T : n <= i
    <3>1. \A i \in T : i \in Len(x) + 1..Len(s) - 1 /\ s[i] = OpenBrace
      BY DEF DoublesOf
    <3> HIDE DEF T
    <3>2. \A i \in T : i \in Int /\ i \notin Len(x) + 1..n - 1
      BY <1>18, <3>1
    <3> QED BY <1>6, <1>15, <3>1, <3>2
  <2> HIDE DEF T
  <2>3. Min(T) = n
    BY ONLY <2>1, <2>2, LeastIs
  <2> QED BY <2>1, <2>3 DEF T, FirstDouble
<1>21. FirstDouble(s, CloseBrace, n + 2, m)
  <2> DEFINE T == DoublesOf(s, CloseBrace, n + 2)
  <2>1. m \in T
    BY <1>15, <1>17 DEF DoublesOf
  <2>2. T \in SUBSET Int /\ \A i \in T : m <= i
    <3>1. \A i \in T : i \in n + 2..Len(s) - 1 /\ s[i] = CloseBrace
      BY DEF DoublesOf
    <3> HIDE DEF T
    <3>2. \A i \in T : i \in Int /\ i \notin n + 2..m - 1
      BY <1>19, <3>1
    <3> QED BY <1>6, <1>15, <3>1, <3>2
  <2> HIDE DEF T
  <2>3. Min(T) = m
    BY ONLY <2>1, <2>2, LeastIs
  <2> QED BY <2>1, <2>3 DEF T, FirstDouble
<1>22. Found(s, x, c, b, n, m)
  BY <1>10, <1>12, <1>13, <1>15, <1>20, <1>21 DEF Found, n, m, r
<1> QED BY <1>15, <1>22

-----------------------------------------------------------------------------
(* Segments.                                                               *)

\* Segments, what they were and what is sent of them.
Seg == [gen : BOOLEAN, raw : Text]

SegRaw  == [g \in Seg |-> g.raw]
SegSent == [g \in Seg |-> IF g.gen THEN Output(g.raw) ELSE g.raw]

\* What a generator puts out is text.
LEMMA OutputType == ASSUME NEW r \in Text PROVE Output(r) \in Text
<1>1. <<Mark>> \in Text
  BY TemplateAssumption DEF Text
<1> QED BY <1>1, TextConcat DEF Output

\* Both are texts.
LEMMA SegTypes == SegRaw \in [Seg -> Text] /\ SegSent \in [Seg -> Text]
<1>1. \A g \in Seg : g.raw \in Text
  BY DEF Seg
<1>2. \A g \in Seg : (IF g.gen THEN Output(g.raw) ELSE g.raw) \in Text
  BY <1>1, OutputType
<1> QED BY <1>1, <1>2 DEF SegRaw, SegSent

\* The laws of spelling, for segments.
LEMMA SegLaws ==
    ASSUME NEW G, G \in [Seg -> Text]
    PROVE  /\ Spell(G, <<>>) = <<>>
           /\ \A gs \in Seq(Seg) : Spell(G, gs) \in Text
           /\ \A gs \in Seq(Seg), g \in Seg :
                 Append(gs, g) \in Seq(Seg) /\ Spell(G, Append(gs, g)) = Spell(G, gs) \o G[g]
<1>1. G \in [Seg -> Seq(Symbols)]
  BY DEF Text
<1>2. Spell(G, <<>>) = <<>>
  BY SpellEmpty
<1>3. \A gs \in Seq(Seg) : Spell(G, gs) \in Text
  BY ONLY <1>1, SpellType DEF Text
<1>4. \A gs \in Seq(Seg), g \in Seg : Spell(G, Append(gs, g)) = Spell(G, gs) \o G[g]
  BY ONLY <1>1, SpellAppend
<1>5. \A gs \in Seq(Seg), g \in Seg : Append(gs, g) \in Seq(Seg)
  BY AppendProperties
<1> QED BY <1>2, <1>3, <1>4, <1>5

\* What is sent of the segments is what Render puts together.
LEMMA SentIsRendered ==
    ASSUME NEW gs \in Seq(Seg)
    PROVE  /\ Spell(SegSent, gs) = FlattenSeq([n \in DOMAIN gs |-> IF gs[n].gen THEN Output(gs[n].raw) ELSE gs[n].raw])
           /\ Spell(SegRaw, gs) = FlattenSeq([n \in DOMAIN gs |-> gs[n].raw])
           /\ (\A n \in DOMAIN gs : ~gs[n].gen) => Spell(SegSent, gs) = Spell(SegRaw, gs)
<1>1. \A n \in DOMAIN gs : /\ SegSent[gs[n]] = IF gs[n].gen THEN Output(gs[n].raw) ELSE gs[n].raw
                           /\ SegRaw[gs[n]] = gs[n].raw
  BY DEF SegSent, SegRaw
<1>2. [n \in DOMAIN gs |-> SegSent[gs[n]]] = [n \in DOMAIN gs |-> IF gs[n].gen THEN Output(gs[n].raw) ELSE gs[n].raw]
  BY <1>1
<1>3. [n \in DOMAIN gs |-> SegRaw[gs[n]]] = [n \in DOMAIN gs |-> gs[n].raw]
  BY <1>1
<1>4. (\A n \in DOMAIN gs : ~gs[n].gen) => Spell(SegSent, gs) = Spell(SegRaw, gs)
  <2> SUFFICES ASSUME \A n \in DOMAIN gs : ~gs[n].gen PROVE Spell(SegSent, gs) = Spell(SegRaw, gs)
    OBVIOUS
  <2>1. \A n \in DOMAIN gs : SegSent[gs[n]] = SegRaw[gs[n]]
    BY <1>1
  <2> QED BY ONLY <2>1, SpellSame
<1> QED BY <1>2, <1>3, <1>4 DEF Spell

\* The segments that Compile adds for a token between open and close.
TokenSegment(open, close) == Segment(open, close + 1, IsGenerator(SubSeq(text, open + 2, close - 1)))

\* What a step of CompileToken makes of the segments gs.
Added(gs, p, open, close) ==
    gs \o (IF open > p THEN <<Segment(p, open - 1, FALSE)>> ELSE <<>>) \o <<TokenSegment(open, close)>>

\* A stretch of the text makes a segment.
LEMMA SegmentType ==
    ASSUME text \in Text, NEW i \in Int, NEW j \in Int, i >= 1, j <= Len(text), NEW g \in BOOLEAN
    PROVE  Segment(i, j, g) \in Seg
<1>1. \A n \in i..j : text[n] \in Symbols
  BY DEF Text
<1>2. SubSeq(text, i, j) \in Text
  BY <1>1, SubSeqProperties DEF Text
<1> QED BY <1>2 DEF Segment, Seg

\* Whether parseGen finds a generator is true or false.
LEMMA GeneratorOrNot == \A tok : IsGenerator(tok) \in BOOLEAN
BY DEF IsGenerator

\* The same, one segment at a time.
LEMMA AddedIs ==
    ASSUME NEW gs \in Seq(Seg), NEW p, NEW open, NEW close,
           TokenSegment(open, close) \in Seg, open > p => Segment(p, open - 1, FALSE) \in Seg
    PROVE  Added(gs, p, open, close) =
              Append(IF open > p THEN Append(gs, Segment(p, open - 1, FALSE)) ELSE gs, TokenSegment(open, close))
<1> DEFINE l == Segment(p, open - 1, FALSE)
           t == TokenSegment(open, close)
           more == open > p
<1>1. t \in Seg /\ (more => l \in Seg)
  OBVIOUS
<1>2. Added(gs, p, open, close) = gs \o (IF more THEN <<l>> ELSE <<>>) \o <<t>>
  BY DEF Added
<1> HIDE DEF l, t, more
<1>3. CASE more
  <2>1. gs \o <<l>> = Append(gs, l) /\ Append(gs, l) \in Seq(Seg)
    BY <1>1, <1>3, AppendIsConcat, AppendProperties
  <2> DEFINE u == Append(gs, l)
  <2> HIDE DEF u
  <2>2. u \in Seq(Seg)
    BY <2>1 DEF u
  <2>3. u \o <<t>> = Append(u, t)
    BY ONLY <1>1, <2>2, AppendIsConcat
  <2> QED BY <1>2, <1>3, <2>1, <2>3 DEF u, more, l, t
<1>4. CASE ~more
  <2>1. gs \o <<>> = gs
    BY ConcatEmptySeq
  <2>2. gs \o <<t>> = Append(gs, t)
    BY <1>1, AppendIsConcat
  <2> QED BY <1>2, <1>4, <2>1, <2>2 DEF more, l, t
<1> QED BY <1>3, <1>4

-----------------------------------------------------------------------------
(* Compile eats nothing.                                                   *)

\* If there is a double brace there is a first one.
LEMMA FirstDoubleExists ==
    ASSUME NEW s \in Text, NEW b, NEW i \in Nat \ {0}, DoublesOf(s, b, i) # {}
    PROVE  FirstDouble(s, b, i, Min(DoublesOf(s, b, i)))
<1> DEFINE T == DoublesOf(s, b, i)
<1>0. Len(s) \in Nat
  BY DEF Text
<1>1. T \subseteq 0..Len(s)
  BY <1>0 DEF DoublesOf
<1>2. IsFiniteSet(0..Len(s))
  BY <1>0, FS_Interval
<1>3. T \in SUBSET Nat /\ T # {}
  BY <1>1
<1> HIDE DEF T
<1>4. IsFiniteSet(T)
  BY <1>1, <1>2, FS_Subset
<1>5. Min(T) \in T
  BY <1>3, <1>4, LeastExists
<1> QED BY <1>5 DEF T, FirstDouble

\* open and close are where a token may begin and end, from position p on.
TokenAt(p, open, close) ==
    /\ text \in Text /\ p \in Nat \ {0} /\ open \in p..Len(text) - 1
    /\ close \in open + 2..Len(text) - 1
    /\ text[open] = OpenBrace /\ text[open + 1] = OpenBrace
    /\ text[close] = CloseBrace /\ text[close + 1] = CloseBrace

\* The first {{ and the first }} after it are where a token stands.
LEMMA TokenAtDoubles ==
    ASSUME text \in Text, NEW p \in Nat \ {0}, NEW open, NEW close,
           FirstDouble(text, OpenBrace, p, open), FirstDouble(text, CloseBrace, open + 2, close)
    PROVE  TokenAt(p, open, close)
<1>1. /\ open \in p..Len(text) - 1 /\ text[open] = OpenBrace /\ text[open + 1] = OpenBrace
  BY DEF FirstDouble, DoublesOf
<1>2. close \in open + 2..Len(text) - 1 /\ text[close] = CloseBrace /\ text[close + 1] = CloseBrace
  BY DEF FirstDouble, DoublesOf
<1> QED BY <1>1, <1>2 DEF TokenAt

\* A stretch of the text, symbol by symbol.
LEMMA SubText ==
    ASSUME text \in Text, NEW i \in Nat \ {0}, NEW j \in Nat, j <= Len(text)
    PROVE  /\ SubSeq(text, i, j) \in Text
           /\ Len(SubSeq(text, i, j)) = IF i <= j THEN j - i + 1 ELSE 0
           /\ \A n \in 1..j - i + 1 : SubSeq(text, i, j)[n] = text[i + n - 1]
<1>1. \A n \in i..j : text[n] \in Symbols
  BY DEF Text
<1> QED BY <1>1, SubSeqProperties DEF Text

\* A stretch is its two parts.
LEMMA TextInTwo ==
    ASSUME text \in Text, NEW i \in Nat \ {0}, NEW j \in Nat, NEW k \in Nat,
           i <= j + 1, j <= k, k <= Len(text)
    PROVE  SubSeq(text, i, j) \o SubSeq(text, j + 1, k) = SubSeq(text, i, k)
<1>1. text \in Seq(Symbols) /\ Len(text) \in Nat
  BY DEF Text
<1>2. i \in 1..Len(text) + 1 /\ j \in i - 1..Len(text) /\ k \in j..Len(text)
  BY <1>1
<1> QED BY <1>1, <1>2, ConcatAdjacentSubSeq

\* Two equal symbols side by side.
LEMMA Pair ==
    ASSUME text \in Text, NEW i \in Nat \ {0}, i + 1 <= Len(text), NEW b, text[i] = b, text[i + 1] = b
    PROVE  SubSeq(text, i, i + 1) = <<b, b>>
<1>1. /\ SubSeq(text, i, i + 1) \in Text /\ Len(SubSeq(text, i, i + 1)) = 2
      /\ SubSeq(text, i, i + 1)[1] = b /\ SubSeq(text, i, i + 1)[2] = b
  <2>1. i + 1 \in Nat /\ i <= i + 1 /\ i + 1 - i + 1 = 2 /\ i + 1 - 1 = i /\ i + 2 - 1 = i + 1
    OBVIOUS
  <2> DEFINE j == i + 1
  <2> HIDE DEF j
  <2>2. j = i + 1 /\ j \in Nat /\ j <= Len(text)
    BY DEF j
  <2>3. /\ SubSeq(text, i, j) \in Text /\ Len(SubSeq(text, i, j)) = IF i <= j THEN j - i + 1 ELSE 0
        /\ \A n \in 1..j - i + 1 : SubSeq(text, i, j)[n] = text[i + n - 1]
    BY <2>2, SubText
  <2>4. SubSeq(text, i, j)[1] = text[i] /\ SubSeq(text, i, j)[2] = text[i + 1]
    BY <2>2, <2>3
  <2> QED BY <2>2, <2>3, <2>4 DEF j
<1> DEFINE u == SubSeq(text, i, i + 1)
           w == <<b, b>>
<1>2. u \in Seq(Symbols) /\ Len(u) = 2 /\ u[1] = b /\ u[2] = b /\ b \in Symbols
  BY <1>1 DEF Text
<1>3. w \in Seq(Symbols) /\ Len(w) = 2 /\ w[1] = b /\ w[2] = b
  BY <1>2
<1> HIDE DEF u, w
<1>4. \A n \in 1..Len(u) : u[n] = w[n]
  BY <1>2, <1>3
<1>5. u = w
  BY <1>2, <1>3, <1>4, SeqEqual
<1> QED BY <1>5 DEF u, w

\* The segment of a token is its text, whose inside IsGenerator has seen.
LEMMA TokenSegmentIs ==
    ASSUME NEW p, NEW open, NEW close, TokenAt(p, open, close)
    PROVE  /\ TokenSegment(open, close) \in Seg
           /\ LET r == SubSeq(text, open, close + 1)
                  b == SubSeq(text, open + 2, close - 1)
              IN  /\ TokenSegment(open, close).raw = r /\ TokenSegment(open, close).gen = IsGenerator(b)
                  /\ Raw(Token(b)) = r
                  /\ SubSeq(r, 3, Len(r) - 2) = b
<1>1. /\ text \in Text /\ p \in Nat \ {0} /\ open \in p..Len(text) - 1
      /\ close \in open + 2..Len(text) - 1
      /\ text[open] = OpenBrace /\ text[open + 1] = OpenBrace
      /\ text[close] = CloseBrace /\ text[close + 1] = CloseBrace
  BY DEF TokenAt
<1>2. /\ Len(text) \in Nat /\ open \in Nat \ {0} /\ close \in Nat \ {0} /\ open + 1 <= Len(text)
      /\ close + 1 <= Len(text) /\ open + 2 <= close
  BY <1>1 DEF Text
<1> DEFINE r == SubSeq(text, open, close + 1)
           b == SubSeq(text, open + 2, close - 1)
           u == SubSeq(text, open, open + 1)
           w == SubSeq(text, close, close + 1)
           t == TokenSegment(open, close)
<1>3. t.raw = r /\ t.gen = IsGenerator(b)
  BY DEF TokenSegment, Segment
<1>4. t \in Seg
  <2>1. IsGenerator(b) \in BOOLEAN
    BY GeneratorOrNot
  <2>2. open \in Int /\ close + 1 \in Int /\ open >= 1 /\ close + 1 <= Len(text)
    BY <1>2
  <2> HIDE DEF b
  <2>3. Segment(open, close + 1, IsGenerator(b)) \in Seg
    BY <1>1, <2>1, <2>2, SegmentType
  <2> QED BY <2>3 DEF TokenSegment, b
<1>5. u = <<OpenBrace, OpenBrace>> /\ w = <<CloseBrace, CloseBrace>>
  BY <1>1, <1>2, Pair
<1>6. (u \o b) \o w = r
  <2>1. u \o SubSeq(text, (open + 1) + 1, close - 1) = SubSeq(text, open, close - 1)
    <3>1. open + 1 \in Nat /\ close - 1 \in Nat /\ open <= (open + 1) + 1 /\ open + 1 <= close - 1 /\ close - 1 <= Len(text)
      BY <1>2
    <3> QED BY <1>1, <1>2, <3>1, TextInTwo
  <2>2. SubSeq(text, open, close - 1) \o SubSeq(text, (close - 1) + 1, close + 1) = r
    <3>1. close - 1 \in Nat /\ close + 1 \in Nat /\ open <= (close - 1) + 1 /\ close - 1 <= close + 1
      BY <1>2
    <3> QED BY <1>1, <1>2, <3>1, TextInTwo
  <2>3. (open + 1) + 1 = open + 2 /\ (close - 1) + 1 = close
    BY <1>2
  <2> QED BY <2>1, <2>2, <2>3
<1>7. Raw(Token(b)) = r
  <2> HIDE DEF b, u, w, r
  <2> QED BY <1>5, <1>6 DEF Raw, Token
<1>8. SubSeq(r, 3, Len(r) - 2) = b
  <2>1. Len(r) = close + 2 - open
    <3>1. close + 1 \in Nat /\ open <= close + 1 /\ (close + 1) - open + 1 = close + 2 - open
      BY <1>2
    <3> DEFINE j == close + 1
    <3> HIDE DEF j
    <3>2. j = close + 1 /\ j \in Nat /\ j <= Len(text)
      BY <1>2 DEF j
    <3>3. Len(SubSeq(text, open, j)) = IF open <= j THEN j - open + 1 ELSE 0
      BY <1>1, <1>2, <3>2, SubText
    <3>4. Len(SubSeq(text, open, j)) = close + 2 - open
      BY <1>2, <3>2, <3>3
    <3> QED BY <3>4 DEF j
  <2> DEFINE j == close + 1
             n == close - open
  <2>2. /\ open \in 1..Len(text) /\ j \in 1..Len(text)
        /\ 3 \in 1..j - open + 1 /\ n \in 1..j - open + 1
        /\ open + 3 - 1 = open + 2 /\ open + n - 1 = close - 1 /\ Len(r) - 2 = n
    BY <1>2, <2>1
  <2>3. text \in Seq(Symbols)
    BY <1>1 DEF Text
  <2> HIDE DEF j, n
  <2>4. SubSeq(SubSeq(text, open, j), 3, n) = SubSeq(text, open + 3 - 1, open + n - 1)
    BY <2>2, <2>3, SubSeqOfSubSeq
  <2> QED BY <2>2, <2>4 DEF j
<1> QED BY <1>3, <1>4, <1>7, <1>8

\* A segment to be expanded is a token that parseGen knows.
IsTokenSeg(g) ==
    g.gen => \E tok \in {SubSeq(g.raw, 3, Len(g.raw) - 2)} : IsGenerator(tok) /\ Raw(Token(tok)) = g.raw

\* So are all of them.
AllTokens(gs) == \A n \in DOMAIN gs : IsTokenSeg(gs[n])

\* gs is the text up to position p.
Compiled(p, gs) ==
    /\ p \in Nat \ {0} /\ p <= Len(text) + 1
    /\ gs \in Seq(Seg) /\ AllTokens(gs)
    /\ Spell(SegRaw, gs) = SubSeq(text, 1, p - 1)

\* One segment more.
LEMMA AllTokensAppend ==
    ASSUME NEW gs \in Seq(Seg), NEW g \in Seg, AllTokens(gs), IsTokenSeg(g)
    PROVE  AllTokens(Append(gs, g))
<1> DEFINE q == Append(gs, g)
<1>1. /\ Len(gs) \in Nat /\ DOMAIN gs = 1..Len(gs) /\ DOMAIN q = 1..Len(gs) + 1
      /\ \A n \in 1..Len(gs) : q[n] = gs[n]
      /\ q[Len(gs) + 1] = g
  BY AppendProperties
<1> HIDE DEF q
<1> SUFFICES ASSUME NEW n \in 1..Len(gs) + 1 PROVE IsTokenSeg(q[n])
  BY <1>1 DEF AllTokens, q
<1>2. n \in 1..Len(gs) \/ n = Len(gs) + 1
  BY <1>1
<1> QED BY <1>1, <1>2 DEF AllTokens

\* Nothing is compiled at first.
LEMMA CompiledAtFirst ==
    ASSUME text \in Text
    PROVE  Compiled(1, <<>>)
<1>1. Spell(SegRaw, <<>>) = <<>> /\ SubSeq(text, 1, 0) = <<>>
  BY SpellEmpty, SubSeqEmpty
<1>2. <<>> \in Seq(Seg) /\ AllTokens(<<>>)
  BY DEF AllTokens
<1>3. 1 - 1 = 0 /\ 1 \in Nat \ {0} /\ 1 <= Len(text) + 1
  BY DEF Text
<1>4. Spell(SegRaw, <<>>) = SubSeq(text, 1, 1 - 1)
  BY <1>1, <1>3
<1> QED BY <1>2, <1>3, <1>4 DEF Compiled

\* One segment more.
LEMMA CompiledAppend ==
    ASSUME text \in Text, NEW p, NEW gs, Compiled(p, gs), NEW q \in Nat, p <= q, q <= Len(text),
           NEW g \in Seg, IsTokenSeg(g), g.raw = SubSeq(text, p, q)
    PROVE  Compiled(q + 1, Append(gs, g))
<1>1. /\ p \in Nat \ {0} /\ p <= Len(text) + 1 /\ gs \in Seq(Seg) /\ AllTokens(gs)
      /\ Spell(SegRaw, gs) = SubSeq(text, 1, p - 1)
  BY DEF Compiled
<1>2. Append(gs, g) \in Seq(Seg) /\ Spell(SegRaw, Append(gs, g)) = Spell(SegRaw, gs) \o SegRaw[g]
  BY ONLY <1>1, SegTypes, SegLaws, g \in Seg
<1>3. SegRaw[g] = SubSeq(text, p, q)
  BY DEF SegRaw
<1>4. SubSeq(text, 1, p - 1) \o SubSeq(text, p, q) = SubSeq(text, 1, q)
  <2> DEFINE j == p - 1
  <2>1. j \in Nat /\ 1 <= j + 1 /\ j <= q /\ j + 1 = p /\ 1 \in Nat \ {0}
    BY <1>1
  <2> HIDE DEF j
  <2>2. SubSeq(text, 1, j) \o SubSeq(text, j + 1, q) = SubSeq(text, 1, q)
    BY <2>1, TextInTwo
  <2> QED BY <2>1, <2>2 DEF j
<1>5. AllTokens(Append(gs, g))
  BY <1>1, AllTokensAppend
<1>6. q + 1 \in Nat \ {0} /\ q + 1 <= Len(text) + 1 /\ (q + 1) - 1 = q
  BY DEF Text
<1>7. Spell(SegRaw, Append(gs, g)) = SubSeq(text, 1, q)
  BY <1>1, <1>2, <1>3, <1>4
<1> QED BY <1>2, <1>5, <1>6, <1>7 DEF Compiled

\* The literal before a token, if there is one.
WithLiteral(gs, p, open) == IF open > p THEN Append(gs, Segment(p, open - 1, FALSE)) ELSE gs

\* A literal segment is its stretch of the text.
LEMMA LiteralIs ==
    ASSUME text \in Text, NEW p \in Nat \ {0}, NEW q \in Nat, q <= Len(text)
    PROVE  /\ Segment(p, q, FALSE) \in Seg
           /\ Segment(p, q, FALSE).raw = SubSeq(text, p, q)
           /\ ~Segment(p, q, FALSE).gen
           /\ IsTokenSeg(Segment(p, q, FALSE))
<1>1. p \in Int /\ q \in Int /\ p >= 1
  OBVIOUS
<1>2. Segment(p, q, FALSE) \in Seg
  BY <1>1, SegmentType
<1>3. Segment(p, q, FALSE).raw = SubSeq(text, p, q) /\ ~Segment(p, q, FALSE).gen
  BY DEF Segment
<1> QED BY <1>2, <1>3 DEF IsTokenSeg

\* The next token and the literal before it.
LEMMA CompiledAdded ==
    ASSUME NEW p, NEW gs, NEW open, NEW close, TokenAt(p, open, close), Compiled(p, gs)
    PROVE  Compiled(close + 2, Added(gs, p, open, close))
<1>1. /\ text \in Text /\ p \in Nat \ {0} /\ gs \in Seq(Seg)
  BY DEF TokenAt, Compiled
<1>2. /\ Len(text) \in Nat /\ open \in Nat \ {0} /\ close \in Nat \ {0} /\ p <= open /\ open <= Len(text)
      /\ close + 1 <= Len(text) /\ open <= close + 1
  BY <1>1 DEF TokenAt, Text
<1> DEFINE l == Segment(p, open - 1, FALSE)
           t == TokenSegment(open, close)
           hs == WithLiteral(gs, p, open)
<1>3. l \in Seg /\ l.raw = SubSeq(text, p, open - 1) /\ IsTokenSeg(l)
  <2>1. open - 1 \in Nat /\ open - 1 <= Len(text)
    BY <1>2
  <2> QED BY <1>1, <2>1, LiteralIs
<1>4. t \in Seg /\ t.raw = SubSeq(text, open, close + 1) /\ IsTokenSeg(t)
  <2> DEFINE r == SubSeq(text, open, close + 1)
             b == SubSeq(text, open + 2, close - 1)
  <2>1. t \in Seg /\ t.raw = r /\ t.gen = IsGenerator(b) /\ Raw(Token(b)) = r /\ SubSeq(r, 3, Len(r) - 2) = b
    BY TokenSegmentIs
  <2> HIDE DEF r, b, t
  <2>2. IsTokenSeg(t)
    BY <2>1 DEF IsTokenSeg
  <2> QED BY <2>1, <2>2 DEF r
<1>5. Added(gs, p, open, close) = Append(hs, t)
  BY <1>1, <1>3, <1>4, AddedIs DEF WithLiteral
<1>6. Compiled(open, hs)
  <2>1. CASE open > p
    <3>1. Compiled((open - 1) + 1, Append(gs, l))
      <4>1. open - 1 \in Nat /\ p <= open - 1 /\ open - 1 <= Len(text)
        BY <1>1, <1>2, <2>1
      <4> HIDE DEF l
      <4> QED BY <1>1, <1>3, <4>1, CompiledAppend
    <3>2. (open - 1) + 1 = open
      BY <1>2
    <3> QED BY <2>1, <3>1, <3>2 DEF WithLiteral
  <2>2. CASE ~(open > p)
    <3>1. open = p
      BY <1>1, <1>2, <2>2
    <3> QED BY <2>2, <3>1 DEF WithLiteral
  <2> QED BY <2>1, <2>2
<1>7. Compiled((close + 1) + 1, Append(hs, t))
  <2>1. close + 1 \in Nat
    BY <1>2
  <2> HIDE DEF hs, t
  <2> QED BY <1>1, <1>2, <1>4, <1>6, <2>1, CompiledAppend
<1>8. (close + 1) + 1 = close + 2
  BY <1>2
<1> QED BY <1>5, <1>7, <1>8

\* What is left at the end.
Ended(gs, p) == IF p > Len(text) THEN gs ELSE Append(gs, Segment(p, Len(text), FALSE))

\* In the end all of the text has been compiled.
LEMMA CompiledEnd ==
    ASSUME text \in Text, NEW p, NEW gs, Compiled(p, gs)
    PROVE  Ended(gs, p) \in Seq(Seg) /\ AllTokens(Ended(gs, p)) /\ Spell(SegRaw, Ended(gs, p)) = text
<1> DEFINE q == Len(text)
           l == Segment(p, q, FALSE)
           hs == Ended(gs, p)
<1>0. text \in Seq(Symbols)
  BY DEF Text
<1>1. q \in Nat /\ q = Len(text)
  BY <1>0
<1>2. hs = IF p > q THEN gs ELSE Append(gs, l)
  BY DEF Ended
<1> HIDE DEF q, hs
<1>3. p \in Nat \ {0} /\ p <= q + 1 /\ q <= Len(text)
  BY <1>1 DEF Compiled
<1>4. Compiled(q + 1, hs)
  <2>1. CASE p > q
    <3>1. p = q + 1
      BY <1>1, <1>3, <2>1
    <3> QED BY <1>2, <2>1, <3>1
  <2>2. CASE ~(p > q)
    <3>1. l \in Seg /\ l.raw = SubSeq(text, p, q) /\ IsTokenSeg(l)
      BY <1>1, <1>3, LiteralIs
    <3> HIDE DEF l
    <3>2. p <= q /\ hs = Append(gs, l)
      BY <1>1, <1>2, <1>3, <2>2
    <3>3. Compiled(q + 1, Append(gs, l))
      BY <1>1, <1>3, <3>1, <3>2, CompiledAppend
    <3> QED BY <3>2, <3>3
  <2> QED BY <2>1, <2>2
<1>5. hs \in Seq(Seg) /\ AllTokens(hs) /\ Spell(SegRaw, hs) = SubSeq(text, 1, (q + 1) - 1)
  BY <1>4 DEF Compiled
<1>6. (q + 1) - 1 = q
  BY <1>1
<1>7. SubSeq(text, 1, q) = text
  BY <1>0, SubSeqFull DEF q
<1> QED BY <1>5, <1>6, <1>7 DEF hs

-----------------------------------------------------------------------------
(* Compile expands what is meant.                                          *)

\* Expanded, on clear pieces, as a function.
ExpOf == [p \in ClearPiece |-> Expanded(p)]

\* What they are expanded to is text.
LEMMA ExpOfType ==
    /\ ExpOf \in [ClearPiece -> Text]
    /\ \A p \in ClearPiece : ~p.token => ExpOf[p] = RawOf[p]
    /\ \A p \in ClearPiece : p.token => ExpOf[p] = IF IsGenerator(p.body) THEN Output(Raw(p)) ELSE Raw(p)
<1>1. \A p \in ClearPiece : Expanded(p) \in Text
  BY PieceText, OutputType DEF Expanded
<1>2. \A p \in ClearPiece : ~p.token => Expanded(p) = Raw(p)
  BY DEF Expanded
<1>3. \A p \in ClearPiece : p.token => Expanded(p) = IF IsGenerator(p.body) THEN Output(Raw(p)) ELSE Raw(p)
  BY DEF Expanded
<1> QED BY <1>1, <1>2, <1>3 DEF ExpOf, RawOf

\* Literals are sent as they are.
LEMMA LiteralsExpand ==
    ASSUME NEW ps \in Seq(ClearPiece), AllLiteral(ps)
    PROVE  Spell(ExpOf, ps) = Spell(RawOf, ps)
<1>1. \A n \in DOMAIN ps : ps[n] \in ClearPiece /\ ~ps[n].token
  BY DEF AllLiteral
<1>2. \A n \in DOMAIN ps : ExpOf[ps[n]] = RawOf[ps[n]]
  BY <1>1, ExpOfType
<1> QED BY ONLY <1>2, SpellSame

\* a is done, b is not.
DoneUpTo(F, p, gs, a, b) ==
    /\ a \in Seq(ClearPiece) /\ b \in Seq(ClearPiece) /\ F = a \o b
    /\ text = Spell(RawOf, a) \o Spell(RawOf, b)
    /\ p = Len(Spell(RawOf, a)) + 1
    /\ Spell(SegSent, gs) = Spell(ExpOf, a)

\* Some of the pieces are done.
Halfway(F, p, gs) == \E a, b : DoneUpTo(F, p, gs, a, b)

\* None is at first.
LEMMA HalfwayAtFirst ==
    ASSUME NEW F \in Seq(ClearPiece), text = Spell(RawOf, F)
    PROVE  DoneUpTo(F, 1, <<>>, <<>>, F)
<1>1. Spell(RawOf, <<>>) = <<>> /\ Spell(ExpOf, <<>>) = <<>> /\ Spell(SegSent, <<>>) = <<>>
  BY SpellEmpty
<1>2. <<>> \in Seq(ClearPiece) /\ F = <<>> \o F
  BY ConcatEmptySeq
<1>3. Spell(RawOf, F) \in Text
  BY RawOfType, TextLaws
<1>4. text = <<>> \o Spell(RawOf, F)
  BY <1>3, ConcatEmptySeq DEF Text
<1>5. 1 = Len(<<>>) + 1
  OBVIOUS
<1> QED BY <1>1, <1>2, <1>4, <1>5 DEF DoneUpTo

\* The texts of what is done and of what is not.
LEMMA DoneTexts ==
    ASSUME NEW F, NEW p, NEW gs, NEW a, NEW b, DoneUpTo(F, p, gs, a, b)
    PROVE  /\ Spell(RawOf, a) \in Text /\ Spell(RawOf, b) \in Text
           /\ Joined(text, Spell(RawOf, a), Spell(RawOf, b), <<>>)
           /\ text \in Text /\ p \in Nat \ {0}
           /\ Len(text) = Len(Spell(RawOf, a)) + Len(Spell(RawOf, b))
           /\ SubSeq(text, p, Len(text)) = Spell(RawOf, b)
<1> DEFINE x == Spell(RawOf, a)
           r == Spell(RawOf, b)
           e == <<>>
<1>1. x \in Text /\ r \in Text
  BY RawOfType, TextLaws DEF DoneUpTo
<1>2. text = x \o r /\ p = Len(x) + 1
  BY DEF DoneUpTo
<1>3. e \in Text /\ Len(e) = 0
  BY DEF Text
<1> HIDE DEF x, r
<1>4. x \o r \in Text /\ Len(x) \in Nat /\ Len(r) \in Nat /\ Len(x \o r) = Len(x) + Len(r)
  BY ONLY <1>1, TextConcat
<1>5. (x \o r) \o e = x \o r
  BY <1>4, ConcatEmptySeq DEF Text
<1> HIDE DEF e
<1>6. Joined(text, x, r, e)
  BY <1>1, <1>2, <1>3, <1>5 DEF Joined
<1>7. SubSeq(text, Len(x) + 1, Len(x) + Len(r)) = r
  BY ONLY <1>6, Middle
<1>8. p \in Nat \ {0} /\ Len(text) = Len(x) + Len(r)
  BY <1>2, <1>4
<1>9. SubSeq(text, p, Len(text)) = r
  BY <1>2, <1>7, <1>8
<1>10. text \in Text
  BY <1>2, <1>4
<1> QED BY <1>1, <1>6, <1>8, <1>9, <1>10 DEF x, r, e

\* Where only literals are left there is no {{.
LEMMA NoTokenLeft ==
    ASSUME NEW F, NEW p, NEW gs, NEW a, NEW b, DoneUpTo(F, p, gs, a, b), AllLiteral(b)
    PROVE  DoublesOf(text, OpenBrace, p) = {}
<1> DEFINE x == Spell(RawOf, a)
           r == Spell(RawOf, b)
<1>1. NoBrace(r)
  BY LiteralsText DEF DoneUpTo
<1>2. Joined(text, x, r, <<>>) /\ p = Len(x) + 1 /\ Len(text) = Len(x) + Len(r)
  <2>1. Joined(text, x, r, <<>>) /\ Len(text) = Len(x) + Len(r)
    BY DoneTexts
  <2>2. p = Len(x) + 1
    BY DEF DoneUpTo
  <2> HIDE DEF x, r
  <2> QED BY <2>1, <2>2
<1> HIDE DEF x, r
<1>3. Len(x) \in Nat /\ Len(r) \in Nat /\ \A i \in 1..Len(r) : text[Len(x) + i] = r[i]
  BY <1>2, Middle
<1>4. \A n \in p..Len(text) - 1 : text[n] # OpenBrace
  <2> TAKE n \in p..Len(text) - 1
  <2> DEFINE i == n - Len(x)
  <2>1. i \in 1..Len(r) /\ n = Len(x) + i
    BY <1>2, <1>3
  <2> HIDE DEF i
  <2> QED BY <1>1, <1>3, <2>1 DEF NoBrace
<1> QED BY <1>4 DEF DoublesOf

\* The first token that is left is what Compile finds next.
LEMMA TokenLeft ==
    ASSUME NEW F, NEW p, NEW gs, NEW a, NEW b, DoneUpTo(F, p, gs, a, b),
           NEW c, NEW t, NEW d, FirstToken(b, c, t, d)
    PROVE  TokenFound(text, Spell(RawOf, a), Spell(RawOf, c), t.body, Spell(RawOf, d))
<1> DEFINE x == Spell(RawOf, a)
           k == Spell(RawOf, c)
           r == Raw(t)
           y == Spell(RawOf, d)
           q == Append(c, t)
<1>1. /\ a \in Seq(ClearPiece) /\ c \in Seq(ClearPiece) /\ d \in Seq(ClearPiece) /\ t \in ClearPiece
      /\ AllLiteral(c) /\ t.token /\ b = q \o d /\ text = x \o Spell(RawOf, b)
  BY DEF DoneUpTo, FirstToken
<1>2. x \in Text /\ k \in Text /\ y \in Text
  BY <1>1, RawOfType, TextLaws
<1>3. r \in Text /\ t.body \in Text /\ NoBrace(t.body) /\ r = Raw(Token(t.body)) /\ RawOf[t] = r
  BY <1>1, PieceText DEF NoBrace, RawOf
<1>4. NoBrace(k)
  BY <1>1, LiteralsText
<1>5. Spell(RawOf, b) = (k \o r) \o y
  <2>1. q \in Seq(ClearPiece)
    BY <1>1, AppendProperties
  <2>a. Spell(RawOf, Append(c, t)) = Spell(RawOf, c) \o RawOf[t]
    BY ONLY <1>1, RawOfType, TextLaws
  <2>2. Spell(RawOf, q) = k \o r
    BY <1>3, <2>a
  <2> HIDE DEF q, k, r, y
  <2>3. Spell(RawOf, q \o d) = Spell(RawOf, q) \o Spell(RawOf, d)
    BY ONLY <1>1, <2>1, RawOfType, TextLaws
  <2> QED BY <1>1, <2>2, <2>3 DEF y
<1> HIDE DEF x, k, r, y
<1>6. x \o ((k \o r) \o y) = ((x \o k) \o r) \o y
  <2>0. x \in Text /\ k \in Text /\ r \in Text /\ y \in Text
    BY <1>2, <1>3
  <2> DEFINE u == k \o r
             w == x \o k
  <2>1. u \in Text /\ w \in Text
    BY ONLY <2>0, TextConcat
  <2>2. x \o u = w \o r
    BY ONLY <2>0, TextConcat
  <2> HIDE DEF u, w
  <2>3. (x \o u) \o y = x \o (u \o y)
    BY ONLY <2>0, <2>1, TextConcat
  <2>4. x \o (u \o y) = (w \o r) \o y
    BY <2>2, <2>3
  <2> QED BY <2>4 DEF u, w
<1>7. text = ((x \o k) \o Raw(Token(t.body))) \o y
  BY <1>1, <1>3, <1>5, <1>6
<1>8. t.body \in Text /\ NoBrace(t.body)
  BY <1>3
<1> QED BY <1>2, <1>4, <1>7, <1>8 DEF TokenFound, x, k, y

\* One token further.
LEMMA HalfwayAdded ==
    ASSUME NEW F, NEW p, NEW gs, NEW a, NEW b, DoneUpTo(F, p, gs, a, b),
           NEW c, NEW t, NEW d, FirstToken(b, c, t, d),
           NEW n \in Nat, NEW m \in Nat, Found(text, Spell(RawOf, a), Spell(RawOf, c), t.body, n, m),
           Compiled(p, gs)
    PROVE  DoneUpTo(F, m + 2, Added(gs, p, n, m), a \o Append(c, t), d)
<1> DEFINE x == Spell(RawOf, a)
           k == Spell(RawOf, c)
           q == Append(c, t)
           l == Segment(p, n - 1, FALSE)
           s == TokenSegment(n, m)
           A == Added(gs, p, n, m)
           hs == WithLiteral(gs, p, n)
<1>1. /\ a \in Seq(ClearPiece) /\ b \in Seq(ClearPiece) /\ c \in Seq(ClearPiece) /\ d \in Seq(ClearPiece)
      /\ t \in ClearPiece /\ AllLiteral(c) /\ t.token /\ b = q \o d /\ F = a \o b
      /\ text = x \o Spell(RawOf, b) /\ p = Len(x) + 1 /\ Spell(SegSent, gs) = Spell(ExpOf, a)
  BY DEF DoneUpTo, FirstToken
<1>2. /\ text \in Text /\ p \in Nat \ {0} /\ x \in Text
  BY DoneTexts
<1>3. /\ n = Len(x) + Len(k) + 1 /\ m = Len(x) + Len(k) + Len(t.body) + 3
      /\ FirstDouble(text, OpenBrace, p, n) /\ FirstDouble(text, CloseBrace, n + 2, m)
      /\ SubSeq(text, p, n - 1) = k
      /\ SubSeq(text, n, m + 1) = Raw(Token(t.body))
      /\ SubSeq(text, n + 2, m - 1) = t.body
  BY <1>1 DEF Found
<1>4. k \in Text /\ Len(k) \in Nat /\ Len(x) \in Nat
  <2>1. k \in Text
    BY ONLY <1>1, RawOfType, TextLaws
  <2> HIDE DEF k, x
  <2> QED BY <1>2, <2>1, TextConcat
<1>5. t.body \in Text /\ t = Token(t.body) /\ Len(t.body) \in Nat /\ Raw(t) \in Text
      /\ Len(Raw(t)) = Len(t.body) + 4
  <2>1. t.body \in Text /\ t = Token(t.body) /\ Raw(t) \in Text
    BY <1>1, PieceText
  <2> DEFINE w == t.body
  <2> HIDE DEF w
  <2>2. Len(w) \in Nat /\ Len(Raw(Token(w))) = Len(w) + 4
    BY <2>1, TokenText DEF w
  <2> QED BY <2>1, <2>2 DEF w
<1>6. TokenAt(p, n, m)
  BY <1>2, <1>3, TokenAtDoubles
<1>7. s \in Seg /\ SegSent[s] = ExpOf[t]
  <2>1. s \in Seg /\ s.raw = SubSeq(text, n, m + 1) /\ s.gen = IsGenerator(SubSeq(text, n + 2, m - 1))
    BY <1>6, TokenSegmentIs
  <2>2. s.raw = Raw(t) /\ s.gen = IsGenerator(t.body)
    BY <1>3, <1>5, <2>1
  <2> HIDE DEF s
  <2>3. SegSent[s] = IF IsGenerator(t.body) THEN Output(Raw(t)) ELSE Raw(t)
    BY <2>1, <2>2 DEF SegSent
  <2> QED BY <1>1, <2>1, <2>3, ExpOfType
<1>8. gs \in Seq(Seg)
  BY DEF Compiled
<1>9. hs \in Seq(Seg) /\ Spell(SegSent, hs) = Spell(SegSent, gs) \o k /\ (n > p => l \in Seg)
  <2>1. CASE n > p
    <3>1. n - 1 \in Nat /\ n - 1 <= Len(text)
      <4>1. n \in p..Len(text) - 1 /\ Len(text) \in Nat
        BY <1>6 DEF TokenAt, Text
      <4> QED BY <1>2, <2>1, <4>1
    <3>2. l \in Seg /\ l.raw = SubSeq(text, p, n - 1) /\ ~l.gen
      BY <1>2, <3>1, LiteralIs
    <3>3. SegSent[l] = k
      <4> HIDE DEF l, k
      <4> QED BY <1>3, <3>2 DEF SegSent
    <3> HIDE DEF l, k
    <3>4. Append(gs, l) \in Seq(Seg) /\ Spell(SegSent, Append(gs, l)) = Spell(SegSent, gs) \o SegSent[l]
      BY ONLY <1>8, <3>2, SegTypes, SegLaws
    <3>5. hs = Append(gs, l)
      BY <2>1 DEF WithLiteral, l
    <3> QED BY <3>2, <3>3, <3>4, <3>5
  <2>2. CASE ~(n > p)
    <3>1. k = <<>>
      <4> HIDE DEF k, x
      <4>1. Len(k) = 0
        BY <1>1, <1>3, <1>4, <2>2
      <4> QED BY <1>4, <4>1 DEF Text
    <3>2. hs = gs
      BY <2>2 DEF WithLiteral
    <3>3. Spell(SegSent, gs) \in Text
      BY ONLY <1>8, SegTypes, SegLaws
    <3>4. Spell(SegSent, gs) \o <<>> = Spell(SegSent, gs)
      BY <3>3, ConcatEmptySeq DEF Text
    <3> HIDE DEF k
    <3> QED BY <1>8, <2>2, <3>1, <3>2, <3>4
  <2> QED BY <2>1, <2>2
<1>10. A = Append(hs, s)
  <2>1. s \in Seg /\ (n > p => l \in Seg)
    BY <1>7, <1>9
  <2> QED BY <1>8, <2>1, AddedIs DEF WithLiteral
<1>11. Spell(SegSent, A) = (Spell(SegSent, gs) \o k) \o ExpOf[t]
  <2> HIDE DEF hs, s, A, k
  <2>1. Spell(SegSent, Append(hs, s)) = Spell(SegSent, hs) \o SegSent[s]
    BY ONLY <1>7, <1>9, SegTypes, SegLaws
  <2> QED BY <1>7, <1>9, <1>10, <2>1
<1>12. q \in Seq(ClearPiece) /\ a \o q \in Seq(ClearPiece)
  BY <1>1, AppendProperties, ConcatProperties
<1>13. Spell(ExpOf, a \o q) = (Spell(ExpOf, a) \o k) \o ExpOf[t]
  <2>1. Spell(ExpOf, q) = Spell(ExpOf, c) \o ExpOf[t]
    BY ONLY <1>1, ExpOfType, TextLaws
  <2>2. Spell(ExpOf, c) = k
    BY <1>1, LiteralsExpand
  <2>3. Spell(ExpOf, a) \in Text /\ ExpOf[t] \in Text
    BY ONLY <1>1, ExpOfType, TextLaws
  <2> DEFINE u == Spell(ExpOf, a)
             w == ExpOf[t]
  <2> HIDE DEF q, k
  <2>4. Spell(ExpOf, a \o q) = Spell(ExpOf, a) \o Spell(ExpOf, q)
    BY ONLY <1>1, <1>12, ExpOfType, TextLaws
  <2>5. u \in Text /\ w \in Text
    BY <2>3
  <2>6. Spell(ExpOf, a \o q) = u \o (k \o w)
    BY <2>1, <2>2, <2>4 DEF q
  <2> HIDE DEF u, w
  <2>7. u \o (k \o w) = (u \o k) \o w
    BY ONLY <1>4, <2>5, TextConcat
  <2> QED BY <2>6, <2>7 DEF u, w
<1>14. Spell(SegSent, A) = Spell(ExpOf, a \o q)
  <2> HIDE DEF A, k, q
  <2> QED BY <1>1, <1>11, <1>13
<1>15. F = (a \o q) \o d
  <2> HIDE DEF q
  <2>1. a \in Seq(ClearPiece) /\ q \in Seq(ClearPiece) /\ d \in Seq(ClearPiece)
    BY <1>1, <1>12
  <2>2. (a \o q) \o d = a \o (q \o d)
    BY ONLY <2>1, ConcatAssociative
  <2> QED BY <1>1, <2>2
<1>16. /\ Spell(RawOf, a \o q) = x \o (k \o Raw(t))
       /\ text = Spell(RawOf, a \o q) \o Spell(RawOf, d)
  <2>1. RawOf[t] = Raw(t)
    BY <1>1 DEF RawOf
  <2>2. Spell(RawOf, Append(c, t)) = Spell(RawOf, c) \o RawOf[t]
    BY ONLY <1>1, RawOfType, TextLaws
  <2>3. Spell(RawOf, q) = k \o Raw(t)
    BY <2>1, <2>2
  <2> HIDE DEF q
  <2>4. Spell(RawOf, a \o q) = Spell(RawOf, a) \o Spell(RawOf, q)
    BY ONLY <1>1, <1>12, RawOfType, TextLaws
  <2>5. Spell(RawOf, (a \o q) \o d) = Spell(RawOf, a \o q) \o Spell(RawOf, d)
    <3> DEFINE z == a \o q
    <3>1. z \in Seq(ClearPiece)
      BY <1>12
    <3> HIDE DEF z
    <3>2. Spell(RawOf, z \o d) = Spell(RawOf, z) \o Spell(RawOf, d)
      BY ONLY <1>1, <3>1, RawOfType, TextLaws
    <3> QED BY <3>2 DEF z
  <2>6. Spell(RawOf, a \o b) = Spell(RawOf, a) \o Spell(RawOf, b)
    BY ONLY <1>1, RawOfType, TextLaws
  <2>7. text = Spell(RawOf, F)
    BY <1>1, <2>6
  <2> QED BY <1>15, <2>3, <2>4, <2>5, <2>7
<1>17. m + 2 = Len(Spell(RawOf, a \o q)) + 1
  <2> DEFINE r == Raw(t)
             v == k \o r
  <2> HIDE DEF r, k, x
  <2>1. r \in Text /\ Len(r) = Len(t.body) + 4
    BY <1>5 DEF r
  <2>2. v \in Text /\ Len(v) = Len(k) + Len(r)
    BY ONLY <1>4, <2>1, TextConcat
  <2> HIDE DEF v
  <2>3. Len(x \o v) = Len(x) + Len(v)
    BY ONLY <1>2, <2>2, TextConcat
  <2>a. Len(t.body) \in Nat /\ Len(r) = Len(t.body) + 4 /\ Len(v) = Len(k) + Len(r)
        /\ Len(x \o v) = Len(x) + Len(v) /\ Len(k) \in Nat /\ Len(x) \in Nat
    BY <1>4, <1>5, <2>1, <2>2, <2>3
  <2>4. Len(x \o v) = Len(x) + Len(k) + Len(t.body) + 4
    <3> DEFINE lx == Len(x)
               lk == Len(k)
               lb == Len(t.body)
               lr == Len(r)
               lv == Len(v)
               lz == Len(x \o v)
    <3>1. lb \in Nat /\ lr = lb + 4 /\ lv = lk + lr /\ lz = lx + lv /\ lk \in Nat /\ lx \in Nat
      BY <2>a
    <3> HIDE DEF lx, lk, lb, lr, lv, lz
    <3>2. lz = lx + lk + lb + 4
      BY ONLY <3>1
    <3> QED BY <3>2 DEF lx, lk, lb, lz
  <2>5. Spell(RawOf, a \o q) = x \o v
    BY <1>16 DEF v, r
  <2>6. Len(Spell(RawOf, a \o q)) + 1 = m + 2
    <3> DEFINE z == Spell(RawOf, a \o q)
    <3>1. Len(z) = Len(x) + Len(k) + Len(t.body) + 4
      BY <2>4, <2>5
    <3> HIDE DEF z
    <3>2. m = Len(x) + Len(k) + Len(t.body) + 3
      BY <1>3
    <3>3. Len(z) + 1 = m + 2
      BY ONLY <2>a, <3>1, <3>2
    <3> QED BY <3>3 DEF z
  <2> QED BY <2>6
<1> QED
  <2> HIDE DEF A, q
  <2>1. a \o q \in Seq(ClearPiece) /\ d \in Seq(ClearPiece) /\ F = (a \o q) \o d
    BY <1>1, <1>12, <1>15
  <2>2. DoneUpTo(F, m + 2, A, a \o q, d)
    BY <1>14, <1>16, <1>17, <2>1 DEF DoneUpTo
  <2> QED BY <2>2 DEF A, q

\* What is left at the end is literal.
LEMMA HalfwayEnd ==
    ASSUME NEW F, NEW p, NEW gs, NEW a, NEW b, DoneUpTo(F, p, gs, a, b), AllLiteral(b), Compiled(p, gs)
    PROVE  Spell(SegSent, Ended(gs, p)) = Spell(ExpOf, F)
<1> DEFINE r == Spell(RawOf, b)
           j == Len(text)
           l == Segment(p, j, FALSE)
<1>1. a \in Seq(ClearPiece) /\ b \in Seq(ClearPiece) /\ F = a \o b /\ Spell(SegSent, gs) = Spell(ExpOf, a)
  BY DEF DoneUpTo
<1>2. r \in Text /\ text \in Text /\ p \in Nat \ {0} /\ SubSeq(text, p, j) = r
  BY DoneTexts
<1>3. gs \in Seq(Seg)
  BY DEF Compiled
<1>4. j \in Nat /\ j = Len(text)
  BY <1>2 DEF Text
<1>5. Ended(gs, p) = IF p > j THEN gs ELSE Append(gs, l)
  BY DEF Ended
<1>6. Spell(ExpOf, F) = Spell(ExpOf, a) \o r
  <2>1. Spell(ExpOf, a \o b) = Spell(ExpOf, a) \o Spell(ExpOf, b)
    BY ONLY <1>1, ExpOfType, TextLaws
  <2>2. Spell(ExpOf, b) = r
    BY <1>1, LiteralsExpand
  <2> QED BY <1>1, <2>1, <2>2
<1> HIDE DEF r, j
<1>7. CASE p > j
  <2>1. r = <<>>
    BY <1>2, <1>4, <1>7, SubSeqEmpty
  <2>2. Spell(ExpOf, a) \in Text
    BY ONLY <1>1, ExpOfType, TextLaws
  <2>3. Spell(ExpOf, a) \o <<>> = Spell(ExpOf, a)
    BY <2>2, ConcatEmptySeq DEF Text
  <2> QED BY <1>1, <1>5, <1>6, <1>7, <2>1, <2>3
<1>8. CASE ~(p > j)
  <2>0. text \in Text /\ p \in Nat \ {0} /\ j \in Nat /\ j <= Len(text)
    BY <1>2, <1>4
  <2>1. l \in Seg /\ l.raw = SubSeq(text, p, j) /\ ~l.gen
    BY <2>0, LiteralIs
  <2> HIDE DEF l
  <2>2. SegSent[l] = r
    BY <1>2, <2>1 DEF SegSent
  <2>3. Spell(SegSent, Append(gs, l)) = Spell(SegSent, gs) \o SegSent[l]
    BY ONLY <1>3, <2>1, SegTypes, SegLaws
  <2> QED BY <1>1, <1>5, <1>6, <1>8, <2>2, <2>3
<1> QED BY <1>7, <1>8

\* Without a further token only literals are left.
LEMMA LiteralLeft ==
    ASSUME NEW F, NEW p, NEW gs, NEW a, NEW b, DoneUpTo(F, p, gs, a, b),
           \A open \in DoublesOf(text, OpenBrace, p) : DoublesOf(text, CloseBrace, open + 2) = {}
    PROVE  AllLiteral(b)
<1> SUFFICES ASSUME ~AllLiteral(b) PROVE FALSE
  OBVIOUS
<1>1. PICK c, t, d : FirstToken(b, c, t, d)
  BY FirstTokenExists DEF DoneUpTo
<1> DEFINE x == Spell(RawOf, a)
           k == Spell(RawOf, c)
<1>2. p = Len(x) + 1
  BY DEF DoneUpTo
<1>3. TokenFound(text, x, k, t.body, Spell(RawOf, d))
  BY <1>1, TokenLeft
<1> HIDE DEF x, k
<1>4. PICK n \in Nat, m \in Nat : Found(text, x, k, t.body, n, m)
  BY ONLY <1>3, NextToken
<1>5. n \in DoublesOf(text, OpenBrace, p) /\ m \in DoublesOf(text, CloseBrace, n + 2)
  BY <1>2, <1>4 DEF Found, FirstDouble
<1> QED BY <1>5

-----------------------------------------------------------------------------
(* The invariants.                                                         *)

\* Up to where it has come, Compile has eaten nothing.
CompileInv ==
    /\ stage = "ocean" => pos = 1 /\ segs = <<>>
    /\ stage = "compile" => Compiled(pos, segs)
    /\ stage = "compiled" =>
          /\ segs \in Seq(Seg) /\ AllTokens(segs)
          /\ (static /\ segs = <<>>) \/ Spell(SegRaw, segs) = text

\* The inputs are texts.
LEMMA TextTypeInit == TemplateInit => TextType
<1>1. ASSUME TextInit PROVE TextType
  <2>1. source \in Seq(Piece) /\ text = RawText(source)
    BY <1>1, TemplateAssumption DEF TextInit
  <2>2. PICK names \in SUBSET VarNames : variables \in [names -> Values]
    BY <1>1 DEF TextInit
  <2>3. /\ DOMAIN variables \subseteq VarNames
        /\ \A k \in DOMAIN variables : variables[k] \in Seq(Piece)
    BY <2>2, TemplateAssumption
  <2>4. todo \subseteq DOMAIN variables
    BY <1>1 DEF TextInit
  <2>5. text \in Text
    BY <2>1, RawTextType
  <2> QED BY <2>1, <2>3, <2>4, <2>5 DEF TextType
<1>2. ASSUME DrawInit PROVE TextType
  <2>1. source = <<>> /\ DOMAIN variables = {} /\ todo = {} /\ text = <<>>
    BY <1>2 DEF DrawInit, NoText
  <2> QED BY <2>1 DEF TextType, Text
<1> QED BY <1>1, <1>2 DEF TemplateInit

\* They stay so.
LEMMA TextTypeStep == TextType /\ [TemplateNext]_templateVars => TextType'
<1> SUFFICES ASSUME TextType, [TemplateNext]_templateVars PROVE TextType'
  OBVIOUS
<1>1. ASSUME UNCHANGED <<inputs, todo, text>> PROVE TextType'
  BY <1>1 DEF TextType, inputs
<1>2. ASSUME NEW k \in VarNames, Substitute(k) PROVE TextType'
  <2>1. /\ k \in todo /\ todo' = todo \ {k} /\ UNCHANGED inputs
        /\ text' = ReplaceEvery(text, k, RawText(variables[k]))
    BY <1>2 DEF Substitute
  <2>2. k \in Symbols /\ text \in Text /\ RawText(variables[k]) \in Text
    BY <2>1, TemplateAssumption, RawTextType DEF TextType
  <2>3. text' \in Text
    BY <2>1, <2>2, ReplaceType
  <2> QED BY <2>1, <2>3 DEF TextType, inputs
<1>3. CASE BeginCompile
  BY <1>1, <1>3 DEF BeginCompile
<1>4. CASE CompileToken
  BY <1>1, <1>4 DEF CompileToken
<1>5. CASE EndCompile
  BY <1>1, <1>5 DEF EndCompile
<1>6. CASE RandInt
  BY <1>1, <1>6 DEF RandInt
<1>7. CASE UNCHANGED templateVars
  BY <1>1, <1>7 DEF templateVars
<1> QED BY <1>2, <1>3, <1>4, <1>5, <1>6, <1>7 DEF TemplateNext

\* What CompileToken does, in terms of the above.
LEMMA TokenStep ==
    ASSUME TextType, Compiled(pos, segs), CompileToken
    PROVE  \E open, close :
              /\ FirstDouble(text, OpenBrace, pos, open) /\ FirstDouble(text, CloseBrace, open + 2, close)
              /\ pos' = close + 2 /\ segs' = Added(segs, pos, open, close)
              /\ stage = "compile" /\ UNCHANGED <<inputs, todo, text, stage, static, draw>>
<1> DEFINE open  == Min(Doubles(OpenBrace, pos))
           close == Min(Doubles(CloseBrace, open + 2))
<1>1. /\ Doubles(OpenBrace, pos) # {} /\ Doubles(CloseBrace, open + 2) # {}
      /\ pos' = close + 2
      /\ stage = "compile" /\ UNCHANGED <<inputs, todo, text, stage, static, draw>>
  BY DEF CompileToken
<1>2. segs' = Added(segs, pos, open, close)
  BY DEF CompileToken, Added, TokenSegment
<1>3. text \in Text /\ pos \in Nat \ {0}
  BY DEF TextType, Compiled
<1>4. \A b, i : Doubles(b, i) = DoublesOf(text, b, i)
  BY DEF Doubles, DoublesOf
<1>5. FirstDouble(text, OpenBrace, pos, open)
  BY <1>1, <1>3, <1>4, FirstDoubleExists
<1> HIDE DEF open
<1>6. open + 2 \in Nat \ {0}
  <2>1. open \in pos..Len(text) - 1
    BY <1>5 DEF FirstDouble, DoublesOf
  <2> QED BY <1>3, <2>1
<1>7. FirstDouble(text, CloseBrace, open + 2, close)
  <2> DEFINE i == open + 2
  <2>1. i \in Nat \ {0} /\ DoublesOf(text, CloseBrace, i) # {} /\ close = Min(DoublesOf(text, CloseBrace, i))
    BY <1>1, <1>4, <1>6
  <2> HIDE DEF i, close
  <2>2. FirstDouble(text, CloseBrace, i, Min(DoublesOf(text, CloseBrace, i)))
    BY <1>3, <2>1, FirstDoubleExists
  <2> QED BY <2>1, <2>2 DEF i
<1> HIDE DEF close
<1> QED BY <1>1, <1>2, <1>5, <1>7

\* Nothing has been compiled.
LEMMA CompileInvInit == TemplateInit => CompileInv
<1>1. TextInit => stage = "ocean" /\ pos = 1 /\ segs = <<>>
  BY DEF TextInit
<1>2. DrawInit => stage = "draw"
  BY DEF DrawInit
<1> QED BY <1>1, <1>2 DEF TemplateInit, CompileInv

\* No step eats anything.
LEMMA CompileInvStep == TextType /\ CompileInv /\ [TemplateNext]_templateVars => CompileInv'
<1> SUFFICES ASSUME TextType, CompileInv, [TemplateNext]_templateVars PROVE CompileInv'
  OBVIOUS
<1>0. text \in Text
  BY DEF TextType
<1>1. ASSUME NEW k \in VarNames, Substitute(k) PROVE CompileInv'
  <2>1. stage = "ocean" /\ stage' = "ocean" /\ pos' = pos /\ segs' = segs
    BY <1>1 DEF Substitute, compileVars
  <2> QED BY <2>1 DEF CompileInv
<1>2. CASE BeginCompile
  <2>1. /\ stage = "ocean" /\ text' = text /\ pos' = pos /\ segs' = segs
        /\ stage' = IF static' THEN "compiled" ELSE "compile"
    BY <1>2 DEF BeginCompile
  <2>2. pos = 1 /\ segs = <<>>
    BY <2>1 DEF CompileInv
  <2>3. segs' = <<>> /\ segs' \in Seq(Seg) /\ AllTokens(segs')
    BY <2>1, <2>2 DEF AllTokens
  <2>4. Compiled(1, <<>>)'
    <3>1. Compiled(1, <<>>)
      BY <1>0, CompiledAtFirst
    <3> QED BY <2>1, <3>1 DEF Compiled
  <2>5. Compiled(pos, segs)'
    BY <2>1, <2>2, <2>4 DEF Compiled
  <2>6. CASE static'
    <3>1. stage' = "compiled"
      BY <2>1, <2>6
    <3> QED BY <2>3, <2>6, <3>1 DEF CompileInv
  <2>7. CASE ~static'
    <3>1. stage' = "compile"
      BY <2>1, <2>7
    <3> QED BY <2>5, <3>1 DEF CompileInv
  <2> QED BY <2>6, <2>7
<1>3. CASE CompileToken
  <2>0. Compiled(pos, segs)
    BY <1>3 DEF CompileInv, CompileToken
  <2>1. PICK open, close :
           /\ FirstDouble(text, OpenBrace, pos, open) /\ FirstDouble(text, CloseBrace, open + 2, close)
           /\ pos' = close + 2 /\ segs' = Added(segs, pos, open, close)
           /\ stage = "compile" /\ UNCHANGED <<inputs, todo, text, stage, static, draw>>
    BY <1>3, <2>0, TokenStep
  <2>2. TokenAt(pos, open, close)
    BY <1>0, <2>0, <2>1, TokenAtDoubles DEF Compiled
  <2>3. Compiled(close + 2, Added(segs, pos, open, close))
    BY <2>0, <2>2, CompiledAdded
  <2>4. Compiled(pos', segs') /\ text' = text
    BY <2>1, <2>3
  <2>5. Compiled(pos, segs)'
    BY <2>4 DEF Compiled
  <2> QED BY <2>1, <2>5 DEF CompileInv
<1>4. CASE EndCompile
  <2>1. stage = "compile" /\ stage' = "compiled" /\ segs' = Ended(segs, pos) /\ text' = text
    BY <1>4 DEF EndCompile, Ended
  <2>2. Compiled(pos, segs)
    BY <2>1 DEF CompileInv
  <2>3. segs' \in Seq(Seg) /\ AllTokens(segs') /\ Spell(SegRaw, segs') = text
    BY <1>0, <2>1, <2>2, CompiledEnd
  <2> QED BY <2>1, <2>3 DEF CompileInv
<1>5. CASE RandInt
  <2>1. stage' \in {"drawn", "panic"}
    BY <1>5 DEF RandInt
  <2> QED BY <2>1 DEF CompileInv
<1>6. CASE UNCHANGED templateVars
  <2>1. UNCHANGED <<text, stage, pos, segs, static>>
    BY <1>6 DEF templateVars, compileVars, inputs
  <2> QED BY <2>1 DEF CompileInv, Compiled
<1> QED BY <1>1, <1>2, <1>3, <1>4, <1>5, <1>6 DEF TemplateNext

\* Whatever the text, stray braces and all: compiling it eats nothing, and only
\* tokens that parseGen knows are expanded (Compile, worker/tmpl.go).
THEOREM CompileEatsNothing == TemplateSpec => []CompilesAsWritten
<1>1. TemplateInit => TextType /\ CompileInv
  BY TextTypeInit, CompileInvInit
<1>2. TextType /\ CompileInv /\ [TemplateNext]_templateVars => (TextType /\ CompileInv)'
  BY TextTypeStep, CompileInvStep
<1>3. CompileInv => CompilesAsWritten
  <2> SUFFICES ASSUME CompileInv, stage = "compiled"
               PROVE  /\ \/ static /\ segs = <<>>
                         \/ FlattenSeq([n \in DOMAIN segs |-> segs[n].raw]) = text
                      /\ \A n \in DOMAIN segs : IsTokenSeg(segs[n])
    BY DEF CompilesAsWritten, IsTokenSeg
  <2>1. /\ segs \in Seq(Seg) /\ AllTokens(segs)
        /\ (static /\ segs = <<>>) \/ Spell(SegRaw, segs) = text
    BY DEF CompileInv
  <2>2. Spell(SegRaw, segs) = FlattenSeq([n \in DOMAIN segs |-> segs[n].raw])
    BY <2>1, SentIsRendered
  <2> QED BY <2>1, <2>2 DEF AllTokens
<1> QED BY <1>1, <1>2, <1>3, PTL DEF TemplateSpec

\* The loop of Compile (tmpl.go:53-78) ends, and none of its slices is out of
\* range, whatever the text: every token takes it at least the four braces
\* further, and never past the end.
THEOREM CompileGoesForward ==
    TemplateSpec =>
        [][stage = "compile" =>
              \/ stage' = "compiled"
              \/ stage' = "compile" /\ text' = text /\ pos + 4 <= pos' /\ pos' <= Len(text) + 1]_templateVars
<1> DEFINE Forward ==
             stage = "compile" =>
                \/ stage' = "compiled"
                \/ stage' = "compile" /\ text' = text /\ pos + 4 <= pos' /\ pos' <= Len(text) + 1
<1>1. TemplateInit => TextType /\ CompileInv
  BY TextTypeInit, CompileInvInit
<1>2. TextType /\ CompileInv /\ [TemplateNext]_templateVars => (TextType /\ CompileInv)'
  BY TextTypeStep, CompileInvStep
<1>3. ASSUME TextType, CompileInv, TemplateNext, stage = "compile" PROVE Forward
  <2>1. ASSUME CompileToken PROVE Forward
    <3>1. Compiled(pos, segs)
      BY <1>3 DEF CompileInv
    <3>2. PICK open, close :
             /\ FirstDouble(text, OpenBrace, pos, open) /\ FirstDouble(text, CloseBrace, open + 2, close)
             /\ pos' = close + 2 /\ stage = "compile" /\ UNCHANGED <<inputs, todo, text, stage, static, draw>>
      BY <1>3, <2>1, <3>1, TokenStep
    <3>3. TokenAt(pos, open, close)
      BY <1>3, <3>1, <3>2, TokenAtDoubles DEF TextType, Compiled
    <3>4. pos + 4 <= pos' /\ pos' <= Len(text) + 1
      <4>1. /\ pos \in Nat /\ open \in pos..Len(text) - 1 /\ close \in open + 2..Len(text) - 1
            /\ Len(text) \in Nat
        BY <3>3, TextConcat DEF TokenAt
      <4>2. pos' = close + 2
        BY <3>2
      <4> QED BY ONLY <4>1, <4>2
    <3> QED BY <3>2, <3>4
  <2>2. ASSUME EndCompile PROVE Forward
    BY <2>2 DEF EndCompile
  <2>3. ~RandInt /\ ~BeginCompile /\ \A k : ~Substitute(k)
    BY <1>3 DEF RandInt, BeginCompile, Substitute
  <2> QED BY <1>3, <2>1, <2>2, <2>3 DEF TemplateNext
<1>4. TextType /\ CompileInv /\ [TemplateNext]_templateVars => [Forward]_templateVars
  BY <1>3
<1> QED BY <1>1, <1>2, <1>4, PTL DEF TemplateSpec

\* If texts and values are as ExpandsAsMeant supposes: the text is that of the
\* pieces with the values of the variables substituted so far; Compile has done
\* some of them; in the end all of them are sent expanded.
ExpandInv ==
    Meant => /\ stage = "ocean" => text = Spell(RawOf, Pieces(todo))
             /\ stage = "compile" => Halfway(Pieces({}), pos, segs)
             /\ stage = "compiled" => Render = Spell(ExpOf, Pieces({}))

\* Nothing is substituted at first.
LEMMA ExpandInvInit == TemplateInit => ExpandInv
<1> SUFFICES ASSUME TemplateInit, Meant
             PROVE  /\ stage = "ocean" => text = Spell(RawOf, Pieces(todo))
                    /\ stage # "compile" /\ stage # "compiled"
  BY DEF ExpandInv
<1>0. TextType
  BY TextTypeInit
<1>1. CASE TextInit
  <2>1. stage = "ocean" /\ todo = DOMAIN variables /\ text = RawText(source)
    BY <1>1 DEF TextInit
  <2> QED BY <1>0, <2>1, PiecesAtFirst
<1>2. CASE DrawInit
  BY <1>2 DEF DrawInit
<1> QED BY <1>1, <1>2 DEF TemplateInit

\* The inputs stay what they are, and so do the conditions on them.
LEMMA InputsStay ==
    ASSUME UNCHANGED inputs
    PROVE  /\ Meant' <=> Meant
           /\ Pieces({})' = Pieces({})
<1>1. source' = source /\ variables' = variables
  BY DEF inputs
<1>2. Meant' <=> Meant
  BY <1>1 DEF Meant, Clear, Variable
<1>3. Pieces({})' = Pieces({})
  BY <1>1 DEF Pieces, Stands
<1> QED BY <1>2, <1>3

\* A substitution is that of one variable more, a step of Compile is one token more.
LEMMA ExpandInvStep ==
    TextType /\ CompileInv /\ CompileInv' /\ ExpandInv /\ [TemplateNext]_templateVars => ExpandInv'
<1> SUFFICES ASSUME TextType, CompileInv, CompileInv', ExpandInv, [TemplateNext]_templateVars
             PROVE  ExpandInv'
  OBVIOUS
<1>0. text \in Text /\ todo \subseteq DOMAIN variables
  BY DEF TextType
<1> DEFINE F == Pieces({})
<1>1. UNCHANGED inputs
  BY DEF TemplateNext, Substitute, BeginCompile, CompileToken, EndCompile, RandInt, templateVars
<1>2. source' = source /\ variables' = variables
  BY <1>1 DEF inputs
<1>3. SUFFICES ASSUME Meant
               PROVE  /\ stage' = "ocean" => text' = Spell(RawOf, Pieces(todo)')
                      /\ stage' = "compile" => Halfway(Pieces({}), pos, segs)'
                      /\ stage' = "compiled" => Render' = Spell(ExpOf, F)
  BY <1>1, InputsStay DEF ExpandInv
<1>4. F' = F /\ F \in Seq(ClearPiece)
  BY <1>1, <1>3, InputsStay, PiecesType
<1>5. /\ stage = "ocean" => text = Spell(RawOf, Pieces(todo))
      /\ stage = "compile" => Halfway(F, pos, segs)
      /\ stage = "compiled" => Render = Spell(ExpOf, F)
  BY <1>3 DEF ExpandInv
<1>6. ASSUME NEW k \in VarNames, Substitute(k) PROVE stage' = "ocean" /\ text' = Spell(RawOf, Pieces(todo)')
  <2>1. /\ stage = "ocean" /\ stage' = "ocean" /\ k \in todo /\ todo' = todo \ {k}
        /\ text' = ReplaceEvery(text, k, RawText(variables[k]))
    BY <1>6 DEF Substitute
  <2>2. text' = Spell(RawOf, Pieces(todo \ {k}))
    BY <1>0, <1>3, <1>5, <2>1, SubstituteLaw
  <2>3. Pieces(todo)' = Pieces(todo \ {k})
    BY <1>2, <2>1 DEF Pieces, Stands
  <2> QED BY <2>1, <2>2, <2>3
<1>7. ASSUME BeginCompile
      PROVE  \/ stage' = "compiled" /\ Render' = Spell(ExpOf, F)
             \/ stage' = "compile" /\ Halfway(Pieces({}), pos, segs)'
  <2>1. /\ stage = "ocean" /\ todo = {} /\ text' = text /\ pos' = pos /\ segs' = segs
        /\ static' = (DoublesOf(text, OpenBrace, 1) = {})
        /\ stage' = IF static' THEN "compiled" ELSE "compile"
    BY <1>7 DEF BeginCompile, Doubles, DoublesOf
  <2>2. pos = 1 /\ segs = <<>> /\ text = Spell(RawOf, F)
    BY <1>5, <2>1 DEF CompileInv
  <2>3. DoneUpTo(F, 1, <<>>, <<>>, F)
    BY <1>4, <2>2, HalfwayAtFirst
  <2>4. CASE static'
    <3>1. Render' = text
      BY <2>1, <2>4 DEF Render
    <3>2. AllLiteral(F)
      BY <2>1, <2>3, <2>4, LiteralLeft
    <3>3. Spell(ExpOf, F) = Spell(RawOf, F)
      BY <1>4, <3>2, LiteralsExpand
    <3>4. stage' = "compiled"
      BY <2>1, <2>4
    <3> QED BY <2>2, <3>1, <3>3, <3>4
  <2>5. CASE ~static'
    <3>1. stage' = "compile"
      BY <2>1, <2>5
    <3>2. Halfway(Pieces({}), pos, segs)'
      <4>1. DoneUpTo(F', 1, <<>>, <<>>, F)
        BY <1>4, <2>3
      <4>2. \E a, b : DoneUpTo(F, pos, segs, a, b)'
        BY <2>1, <2>2, <4>1 DEF DoneUpTo
      <4> QED BY <4>2 DEF Halfway
    <3> QED BY <3>1, <3>2
  <2> QED BY <2>4, <2>5
<1>8. ASSUME CompileToken PROVE stage' = "compile" /\ Halfway(Pieces({}), pos, segs)'
  <2>0. stage = "compile" /\ Compiled(pos, segs)
    BY <1>8 DEF CompileInv, CompileToken
  <2>1. PICK open, close :
           /\ FirstDouble(text, OpenBrace, pos, open) /\ FirstDouble(text, CloseBrace, open + 2, close)
           /\ pos' = close + 2 /\ segs' = Added(segs, pos, open, close)
           /\ stage = "compile" /\ UNCHANGED <<inputs, todo, text, stage, static, draw>>
    BY <1>8, <2>0, TokenStep
  <2>2. PICK a, b : DoneUpTo(F, pos, segs, a, b)
    BY <1>5, <2>0 DEF Halfway
  <2>3. ~AllLiteral(b)
    <3>1. DoublesOf(text, OpenBrace, pos) # {}
      BY <2>1 DEF FirstDouble
    <3> HIDE DEF F
    <3> QED BY <2>2, <3>1, NoTokenLeft
  <2>4. PICK c, t, d : FirstToken(b, c, t, d)
    BY <2>2, <2>3, FirstTokenExists DEF DoneUpTo
  <2> DEFINE x == Spell(RawOf, a)
             k == Spell(RawOf, c)
  <2>5. TokenFound(text, x, k, t.body, Spell(RawOf, d)) /\ pos = Len(x) + 1
    <3> HIDE DEF F
    <3>1. TokenFound(text, x, k, t.body, Spell(RawOf, d))
      BY <2>2, <2>4, TokenLeft
    <3>2. pos = Len(x) + 1
      BY <2>2 DEF DoneUpTo
    <3> QED BY <3>1, <3>2
  <2>6. PICK n \in Nat, m \in Nat : Found(text, x, k, t.body, n, m)
    <3> HIDE DEF x, k
    <3> QED BY <2>5, NextToken
  <2>7. n = open /\ m = close
    <3> HIDE DEF x, k
    <3>1. Min(DoublesOf(text, OpenBrace, pos)) = n /\ Min(DoublesOf(text, CloseBrace, n + 2)) = m
      BY <2>5, <2>6 DEF Found, FirstDouble
    <3>2. Min(DoublesOf(text, OpenBrace, pos)) = open /\ Min(DoublesOf(text, CloseBrace, open + 2)) = close
      BY <2>1 DEF FirstDouble
    <3> QED BY <3>1, <3>2
  <2>8. DoneUpTo(F, close + 2, Added(segs, pos, open, close), a \o Append(c, t), d)
    <3>1. DoneUpTo(F, m + 2, Added(segs, pos, n, m), a \o Append(c, t), d)
      <4> HIDE DEF F
      <4> QED BY <2>0, <2>2, <2>4, <2>6, HalfwayAdded
    <3> QED BY <2>7, <3>1
  <2>9. Halfway(Pieces({}), pos, segs)'
    <3> DEFINE z == a \o Append(c, t)
    <3>1. DoneUpTo(F', pos', segs', z, d) /\ text' = text
      BY <1>4, <2>1, <2>8
    <3> HIDE DEF z
    <3>2. DoneUpTo(F, pos, segs, z, d)'
      BY <3>1 DEF DoneUpTo
    <3>3. \E v, w : DoneUpTo(F, pos, segs, v, w)'
      BY <3>2
    <3> QED BY <3>3 DEF Halfway
  <2> QED BY <2>1, <2>9
<1>9. ASSUME EndCompile PROVE stage' = "compiled" /\ Render' = Spell(ExpOf, F)
  <2>1. /\ stage = "compile" /\ stage' = "compiled" /\ segs' = Ended(segs, pos) /\ text' = text
        /\ \A open \in DoublesOf(text, OpenBrace, pos) : DoublesOf(text, CloseBrace, open + 2) = {}
        /\ static' = \A n \in DOMAIN segs' : ~segs'[n].gen
    BY <1>9 DEF EndCompile, Ended, Doubles, DoublesOf
  <2>2. Compiled(pos, segs)
    BY <2>1 DEF CompileInv
  <2>3. PICK a, b : DoneUpTo(F, pos, segs, a, b)
    BY <1>5, <2>1 DEF Halfway
  <2> HIDE DEF F
  <2>4. AllLiteral(b)
    BY <2>1, <2>3, LiteralLeft
  <2>5. Spell(SegSent, segs') = Spell(ExpOf, F)
    BY <2>1, <2>2, <2>3, <2>4, HalfwayEnd
  <2>6. segs' \in Seq(Seg) /\ Spell(SegRaw, segs') = text
    BY <1>0, <2>1, <2>2, CompiledEnd
  <2>7. /\ Spell(SegSent, segs') = FlattenSeq([n \in DOMAIN segs' |-> IF segs'[n].gen THEN Output(segs'[n].raw) ELSE segs'[n].raw])
        /\ (\A n \in DOMAIN segs' : ~segs'[n].gen) => Spell(SegSent, segs') = Spell(SegRaw, segs')
    BY <2>6, SentIsRendered
  <2>8. Render' = Spell(SegSent, segs')
    BY <2>1, <2>6, <2>7 DEF Render
  <2> QED BY <2>1, <2>5, <2>8
<1>10. CASE RandInt
  <2>1. stage' \in {"drawn", "panic"}
    BY <1>10 DEF RandInt
  <2> QED BY <2>1
<1>11. CASE UNCHANGED templateVars
  <2>1. UNCHANGED <<text, stage, todo, pos, segs, static>>
    BY <1>11 DEF templateVars, compileVars
  <2>2. Pieces(todo)' = Pieces(todo) /\ Render' = Render
    BY <1>2, <2>1 DEF Pieces, Stands, Render
  <2>3. Halfway(F, pos, segs) => Halfway(Pieces({}), pos, segs)'
    <3>1. Halfway(F, pos, segs) => Halfway(F', pos', segs')
      BY <1>4, <2>1
    <3> QED BY <2>1, <3>1 DEF Halfway, DoneUpTo
  <2> QED BY <1>5, <2>1, <2>2, <2>3
<1>12. CASE \E k \in VarNames : Substitute(k)
  BY <1>6, <1>12
<1> QED BY <1>7, <1>8, <1>9, <1>10, <1>11, <1>12 DEF TemplateNext

\* Meaning is a spelling.
LEMMA MeaningSpells ==
    ASSUME NEW ps \in Seq(ClearPiece)
    PROVE  Meaning(ps) = Spell(ExpOf, ps)
<1>1. \A n \in DOMAIN ps : Expanded(ps[n]) = ExpOf[ps[n]]
  BY DEF ExpOf
<1>2. [n \in DOMAIN ps |-> Expanded(ps[n])] = [n \in DOMAIN ps |-> ExpOf[ps[n]]]
  BY <1>1
<1> QED BY <1>2 DEF Meaning, Spell

\* What the pieces spell in the end is what the client meant.
LEMMA FinallyMeant ==
    ASSUME TextType, Meant
    PROVE  Spell(ExpOf, Pieces({})) =
              FlattenSeq([n \in DOMAIN source |->
                  IF Variable(source[n]) THEN Meaning(variables[source[n].body[1]])
                  ELSE Expanded(source[n])])
<1> DEFINE H == [q \in ClearPiece |-> Spell(ExpOf, Stands({})[q])]
           M(p) == IF Variable(p) THEN Meaning(variables[p.body[1]]) ELSE Expanded(p)
<1>1. source \in Seq(ClearPiece)
  BY PiecesType
<1>2. Spell(ExpOf, Pieces({})) = Spell(H, source)
  BY ExpOfType, SpellPieces
<1>3. \A q \in ClearPiece : H[q] = M(q)
  <2> TAKE q \in ClearPiece
  <2>1. CASE Variable(q)
    <3>1. PICK k \in DOMAIN variables : q = Token(<<k>>)
      BY <2>1, VariableMeans
    <3>2. k \in VarNames /\ variables[k] \in Seq(ClearPiece)
      BY ClearSeq DEF TextType, Meant
    <3>3. q.body[1] = k
      BY <3>1, <3>2, NameToken
    <3>4. Stands({})[q] = variables[k]
      BY <3>1, StandsAt
    <3>5. Meaning(variables[k]) = Spell(ExpOf, variables[k])
      BY <3>2, MeaningSpells
    <3> QED BY <2>1, <3>3, <3>4, <3>5
  <2>2. CASE ~Variable(q)
    <3>1. \A k \in DOMAIN variables \ {} : q # Token(<<k>>)
      BY <2>2, VariableMeans
    <3>2. Stands({})[q] = <<q>>
      BY <3>1, StandsAt
    <3>3. Spell(ExpOf, <<q>>) = ExpOf[q]
      BY ONLY ExpOfType, SpellOne, q \in ClearPiece DEF Text
    <3>4. ExpOf[q] = Expanded(q)
      BY DEF ExpOf
    <3> QED BY <2>2, <3>2, <3>3, <3>4
  <2> QED BY <2>1, <2>2
<1> HIDE DEF H
<1>4. \A n \in DOMAIN source : H[source[n]] = M(source[n])
  BY <1>1, <1>3
<1> HIDE DEF M
<1>5. [n \in DOMAIN source |-> H[source[n]]] = [n \in DOMAIN source |-> M(source[n])]
  BY <1>4
<1> QED BY <1>2, <1>5 DEF Spell, M

\* In whatever order the variables are substituted, the worker sends the text
\* with every token replaced by what it stands for (applyEnv,
\* master/services.go, and Compile and Render, worker/tmpl.go).
THEOREM SubstitutionIsSimultaneous == TemplateSpec => []ExpandsAsMeant
<1>1. TemplateInit => TextType /\ CompileInv /\ ExpandInv
  BY TextTypeInit, CompileInvInit, ExpandInvInit
<1>2. TextType /\ CompileInv /\ ExpandInv /\ [TemplateNext]_templateVars
         => (TextType /\ CompileInv /\ ExpandInv)'
  BY TextTypeStep, CompileInvStep, ExpandInvStep
<1>3. TextType /\ ExpandInv => ExpandsAsMeant
  <2> SUFFICES ASSUME TextType, ExpandInv, Meant, stage = "compiled"
               PROVE  Render = FlattenSeq([n \in DOMAIN source |->
                         IF Variable(source[n]) THEN Meaning(variables[source[n].body[1]])
                         ELSE Expanded(source[n])])
    BY DEF ExpandsAsMeant, Meant
  <2>1. Render = Spell(ExpOf, Pieces({}))
    BY DEF ExpandInv
  <2> QED BY <2>1, FinallyMeant
<1> QED BY <1>1, <1>2, <1>3, PTL DEF TemplateSpec

-----------------------------------------------------------------------------
(* Random integers.                                                        *)

\* A remainder of what is small enough is itself, ...
LEMMA ModSmall == ASSUME NEW M \in Nat \ {0}, NEW a \in 0..M - 1 PROVE a % M = a
OBVIOUS

\* ... and of what is one turn above it, one turn less.
LEMMA ModNext ==
    ASSUME NEW M \in Nat \ {0}, NEW a \in Int, M <= a, a < M + M
    PROVE  a % M = a - M
OBVIOUS

\* An int is what it is; beyond the greatest, the least follow.
LEMMA WrapIs ==
    ASSUME NEW n \in Int
    PROVE  /\ n \in Smallest..Greatest => Wrap(n) = n
           /\ n \in Half..2 * Half => Wrap(n) = n - 2 * Half
<1> DEFINE M == 2 * Half
           a == n + Half
<1>1. Half \in Nat \ {0} /\ M \in Nat \ {0} /\ M = Half + Half
  BY TemplateAssumption
<1>2. Wrap(n) = (a % M) - Half
  BY DEF Wrap
<1>3. ASSUME n \in Smallest..Greatest PROVE Wrap(n) = n
  <2>1. a \in 0..M - 1 /\ a - Half = n
    BY <1>1, <1>3 DEF Smallest, Greatest
  <2> HIDE DEF a, M
  <2>2. a % M = a
    BY <1>1, <2>1, ModSmall
  <2> QED BY <1>2, <2>1, <2>2
<1>4. ASSUME n \in Half..2 * Half PROVE Wrap(n) = n - M
  <2>1. a \in Int /\ M <= a /\ a < M + M /\ (a - M) - Half = n - M
    BY <1>1, <1>4
  <2> HIDE DEF a, M
  <2>2. a % M = a - M
    BY <1>1, <2>1, ModNext
  <2> QED BY <1>2, <2>1, <2>2
<1> QED BY <1>3, <1>4

\* The lesser and the greater of two bounds.
LEMMA Bounds ==
    ASSUME NEW a \in Int, NEW b \in Int
    PROVE  /\ a <= b => Min({a, b}) = a /\ Max({a, b}) = b
           /\ b <= a => Min({a, b}) = b /\ Max({a, b}) = a
<1>1. \A x, y \in Int : x <= y => Min({x, y}) = x /\ Max({x, y}) = y
  <2> TAKE x \in Int, y \in Int
  <2> HAVE x <= y
  <2> DEFINE T == {x, y}
  <2>1. T \in SUBSET Int /\ x \in T /\ y \in T /\ \A m \in T : x <= m
    OBVIOUS
  <2>2. \A m \in T : m <= y
    OBVIOUS
  <2> HIDE DEF T
  <2>3. Min(T) = x
    BY <2>1, LeastIs
  <2>4. Max(T) = y
    <3>1. \A m \in T : y >= m
      BY <2>1, <2>2
    <3>2. \A v \in T : (\A m \in T : v >= m) => v = y
      BY <2>1, <2>2
    <3> QED BY <2>1, <3>1, <3>2 DEF Max
  <2> QED BY <2>3, <2>4 DEF T
<1>2. {a, b} = {b, a}
  OBVIOUS
<1> QED BY <1>1, <1>2

\* The span of two bounds is positive unless it is no int, and then what is
\* drawn lies between them.
LEMMA SpanIs ==
    ASSUME NEW low \in Smallest..Greatest, NEW high \in Smallest..Greatest, low <= high
    PROVE  /\ Wrap(high - low + 1) <= 0 <=> high - low >= Greatest
           /\ \A n \in 0..Wrap(high - low + 1) - 1 :
                 low <= Wrap(low + n) /\ Wrap(low + n) <= high
<1> DEFINE s == high - low + 1
<1>1. Half \in Nat \ {0} /\ low \in Int /\ high \in Int /\ Smallest = -Half /\ Greatest = Half - 1
  BY TemplateAssumption DEF Smallest, Greatest
<1>2. s \in 1..2 * Half /\ s \in Int
  BY <1>1
<1>3. CASE high - low >= Greatest
  <2>1. s \in Half..2 * Half
    BY <1>1, <1>2, <1>3
  <2> HIDE DEF s
  <2>2. Wrap(s) = s - 2 * Half
    BY <1>2, <2>1, WrapIs
  <2>3. Wrap(s) <= 0 /\ 0..Wrap(s) - 1 = {}
    BY <1>1, <1>2, <2>2
  <2> QED BY <1>3, <2>3 DEF s
<1>4. CASE ~(high - low >= Greatest)
  <2>1. s \in Smallest..Greatest
    BY <1>1, <1>2, <1>4
  <2>2. Wrap(s) = s
    <3> HIDE DEF s
    <3> QED BY <1>2, <2>1, WrapIs
  <2>3. \A n \in 0..s - 1 : low + n \in Int /\ low <= low + n /\ low + n <= high /\ low + n \in Smallest..Greatest
    BY <1>1
  <2>4. \A n \in 0..s - 1 : Wrap(low + n) = low + n
    BY <2>3, WrapIs
  <2>5. ~(Wrap(s) <= 0)
    <3> HIDE DEF s
    <3> QED BY <1>2, <2>2
  <2>6. \A n \in 0..Wrap(s) - 1 : low <= Wrap(low + n) /\ Wrap(low + n) <= high
    <3> HIDE DEF s
    <3> QED BY <2>2, <2>3, <2>4
  <2> QED BY <1>4, <2>5, <2>6
<1> QED BY <1>3, <1>4

\* The bounds are ints until they are used.
DrawInv ==
    /\ stage = "draw" => draw \in [min : Smallest..Greatest, max : Smallest..Greatest, value : Int]
    /\ RandIntInRange

\* What is drawn, without the stages.
DrawnInRange(d) ==
    \/ d.min <= d.value /\ d.value <= d.max
    \/ d.max <= d.value /\ d.value <= d.min

\* As many integers as no int can count.
TooWide(d) == d.max - d.min >= Greatest \/ d.min - d.max >= Greatest

\* One draw, with the bounds in either order.
LEMMA DrawStep ==
    ASSUME NEW a \in Smallest..Greatest, NEW b \in Smallest..Greatest
    PROVE  LET low  == Min({a, b})
               high == Max({a, b})
               span == Wrap(high - low + 1)
           IN  /\ span <= 0 <=> a - b >= Greatest \/ b - a >= Greatest
               /\ \A n \in 0..span - 1 : \/ a <= Wrap(low + n) /\ Wrap(low + n) <= b
                                         \/ b <= Wrap(low + n) /\ Wrap(low + n) <= a
<1>0. Half \in Nat \ {0} /\ Smallest = -Half /\ Greatest = Half - 1 /\ a \in Int /\ b \in Int
  BY TemplateAssumption DEF Smallest, Greatest
<1>1. CASE a <= b
  <2>1. Min({a, b}) = a /\ Max({a, b}) = b
    BY <1>0, <1>1, Bounds
  <2>2. b - a >= Greatest <=> a - b >= Greatest \/ b - a >= Greatest
    BY <1>0, <1>1
  <2> QED BY <1>1, <2>1, <2>2, SpanIs
<1>2. CASE b <= a
  <2>1. Min({a, b}) = b /\ Max({a, b}) = a
    BY <1>0, <1>2, Bounds
  <2>2. a - b >= Greatest <=> a - b >= Greatest \/ b - a >= Greatest
    BY <1>0, <1>2
  <2> QED BY <1>2, <2>1, <2>2, SpanIs
<1> QED BY <1>0, <1>1, <1>2

\* What RandInt does with draw.
Drawn(d, e, panics) ==
    LET low  == Min({d.min, d.max})
        high == Max({d.min, d.max})
        span == Wrap(high - low + 1)
    IN  IF span <= 0 THEN panics /\ e = d
        ELSE ~panics /\ \E n \in 0..span - 1 : e = [d EXCEPT !.value = Wrap(low + n)]

\* The same, of a step.
LEMMA DrawnIs ==
    ASSUME NEW d \in [min : Smallest..Greatest, max : Smallest..Greatest, value : Int], NEW e,
           NEW panics \in BOOLEAN, Drawn(d, e, panics)
    PROVE  /\ ~panics => DrawnInRange(e)
           /\ panics <=> TooWide(e)
<1> DEFINE low  == Min({d.min, d.max})
           high == Max({d.min, d.max})
           span == Wrap(high - low + 1)
<1>1. d.min \in Smallest..Greatest /\ d.max \in Smallest..Greatest
  OBVIOUS
<1>2. /\ span <= 0 <=> d.min - d.max >= Greatest \/ d.max - d.min >= Greatest
      /\ \A n \in 0..span - 1 : \/ d.min <= Wrap(low + n) /\ Wrap(low + n) <= d.max
                                \/ d.max <= Wrap(low + n) /\ Wrap(low + n) <= d.min
  BY <1>1, DrawStep
<1>3. \/ span <= 0 /\ panics /\ e = d
      \/ ~(span <= 0) /\ ~panics /\ \E n \in 0..span - 1 : e = [d EXCEPT !.value = Wrap(low + n)]
  BY DEF Drawn
<1> HIDE DEF low, high, span
<1>4. CASE span <= 0 /\ panics /\ e = d
  BY <1>2, <1>4 DEF TooWide
<1>5. ASSUME ~(span <= 0), ~panics, NEW n \in 0..span - 1, e = [d EXCEPT !.value = Wrap(low + n)]
      PROVE  DrawnInRange(e) /\ ~TooWide(e)
  <2>1. e.min = d.min /\ e.max = d.max /\ e.value = Wrap(low + n)
    BY <1>5
  <2> QED BY <1>2, <1>5, <2>1 DEF DrawnInRange, TooWide
<1> QED BY <1>3, <1>4, <1>5

\* The property in these words.
LEMMA RandIntInRangeIs ==
    RandIntInRange <=> /\ stage = "drawn" => DrawnInRange(draw)
                       /\ stage \in {"drawn", "panic"} => (stage = "panic" <=> TooWide(draw))
BY DEF RandIntInRange, DrawnInRange, TooWide

\* The bounds are ints.
LEMMA DrawInvInit == TemplateInit => DrawInv
<1> SUFFICES ASSUME TemplateInit PROVE DrawInv
  OBVIOUS
<1>1. CASE TextInit
  <2>1. stage = "ocean"
    BY <1>1 DEF TextInit
  <2> QED BY <2>1, RandIntInRangeIs DEF DrawInv
<1>2. CASE DrawInit
  <2>1. stage = "draw" /\ \E a, b \in Smallest..Greatest : draw = [min |-> a, max |-> b, value |-> 0]
    BY <1>2 DEF DrawInit
  <2>2. PICK a \in Smallest..Greatest, b \in Smallest..Greatest : draw = [min |-> a, max |-> b, value |-> 0]
    BY <2>1
  <2>3. draw \in [min : Smallest..Greatest, max : Smallest..Greatest, value : Int]
    BY <2>2
  <2> QED BY <2>1, <2>3, RandIntInRangeIs DEF DrawInv
<1> QED BY <1>1, <1>2 DEF TemplateInit

\* The draw leaves the value between them, or panics.
LEMMA DrawInvStep == DrawInv /\ [TemplateNext]_templateVars => DrawInv'
<1> SUFFICES ASSUME DrawInv, [TemplateNext]_templateVars PROVE DrawInv'
  OBVIOUS
<1>1. ASSUME stage' \notin {"draw", "drawn", "panic"} PROVE DrawInv'
  BY <1>1 DEF DrawInv, RandIntInRange
<1>2. ASSUME NEW k \in VarNames, Substitute(k) PROVE DrawInv'
  BY <1>1, <1>2 DEF Substitute
<1>3. CASE BeginCompile
  BY <1>1, <1>3 DEF BeginCompile
<1>4. CASE CompileToken
  BY <1>1, <1>4 DEF CompileToken
<1>5. CASE EndCompile
  BY <1>1, <1>5 DEF EndCompile
<1>6. CASE RandInt
  <2>1. draw \in [min : Smallest..Greatest, max : Smallest..Greatest, value : Int]
    BY <1>6 DEF RandInt, DrawInv
  <2>2. (stage' = "panic" \/ stage' = "drawn") /\ Drawn(draw, draw', stage' = "panic")
    BY <1>6 DEF RandInt, Drawn
  <2> DEFINE panics == stage' = "panic"
  <2>3. panics \in BOOLEAN /\ Drawn(draw, draw', panics)
    BY <2>2
  <2> HIDE DEF panics
  <2>4. (~panics => DrawnInRange(draw')) /\ (panics <=> TooWide(draw'))
    BY <2>1, <2>3, DrawnIs
  <2>5. /\ stage' = "drawn" => DrawnInRange(draw')
        /\ stage' = "panic" <=> TooWide(draw')
    BY <2>2, <2>4 DEF panics
  <2>6. stage' # "draw"
    BY <2>2
  <2>7. RandIntInRange'
    BY <2>5 DEF RandIntInRange, DrawnInRange, TooWide
  <2> QED BY <2>6, <2>7 DEF DrawInv
<1>7. CASE UNCHANGED templateVars
  <2>1. stage' = stage /\ draw' = draw
    BY <1>7 DEF templateVars
  <2> QED BY <2>1 DEF DrawInv, RandIntInRange
<1> QED BY <1>2, <1>3, <1>4, <1>5, <1>6, <1>7 DEF TemplateNext

\* For ints of any width: a random integer lies between its bounds, whichever is
\* the greater, and the worker panics if and only if the number of integers
\* between them is not an int (genRandInt, worker/tmpl.go).
THEOREM RandIntStaysBetween == TemplateSpec => []RandIntInRange
<1>1. DrawInv => RandIntInRange
  BY DEF DrawInv
<1> QED BY <1>1, DrawInvInit, DrawInvStep, PTL DEF TemplateSpec
=============================================================================

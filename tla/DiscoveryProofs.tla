--------------------------- MODULE DiscoveryProofs --------------------------
(***************************************************************************)
(* Two facts about the registry for any number of oceans, workers and      *)
(* tests, any limits and any bound on boots and trouble: an ocean never    *)
(* has more workers than it allows, and no key outlives its lease.         *)
(***************************************************************************)
EXTENDS Discovery, FiniteSetTheorems, TLAPS

\* What the two facts need to know of the variables' types.
HomeType ==
    /\ home \in [Workers -> Oceans \cup {None}]
    /\ choice \in [Workers -> Oceans \cup {None}]

KeyTypes ==
    /\ lease \in [Oceans -> Nat]
    /\ oceanKey \in [Oceans -> [lease : Nat, n : Nat]]
    /\ fleetKey \in [Oceans -> [lease : Nat, tests : SUBSET Tests]]
    /\ tests \in [Oceans -> SUBSET Tests]
    /\ beat \in [Oceans -> [at : {"rest", "ocean", "fleet"}, n : Nat, tests : SUBSET Tests]]

\* An ocean's members are some of the workers, so they can be counted.
LEMMA CountsAreNatural == \A o \in Oceans : IsFiniteSet(Members(o)) /\ Count(o) \in Nat
<1> TAKE o \in Oceans
<1>1. Members(o) \in SUBSET Workers
  BY DEF Members
<1>2. IsFiniteSet(Members(o))
  BY <1>1, FS_Subset, DiscoveryAssumption
<1> QED
  BY <1>2, FS_CardinalityType DEF Count

-----------------------------------------------------------------------------
(* The limit on connections.                                               *)

\* An ocean that loses members, or keeps them, stays within its limit.
LEMMA FewerIsFine ==
    ASSUME NEW o \in Oceans, ConnectionLimit, Members(o)' \subseteq Members(o)
    PROVE  Limit[o] > 0 => Count(o)' <= Limit[o]
<1>1. IsFiniteSet(Members(o)) /\ Cardinality(Members(o)) \in Nat
  BY CountsAreNatural DEF Count
<1>2. IsFiniteSet(Members(o)') /\ Cardinality(Members(o)') <= Cardinality(Members(o))
  BY <1>1, FS_Subset
<1>3. Cardinality(Members(o)') \in Nat
  BY <1>2, FS_CardinalityType
<1>4. Limit[o] \in Nat
  BY DiscoveryAssumption
<1> QED
  BY <1>1, <1>2, <1>3, <1>4 DEF ConnectionLimit, Count

\* So does one that takes in a worker while it is not full.
LEMMA OneMoreIsFine ==
    ASSUME NEW o \in Oceans, NEW w \in Workers, ~Full(o), Members(o)' \subseteq Members(o) \cup {w}
    PROVE  Limit[o] > 0 => Count(o)' <= Limit[o]
<1>1. IsFiniteSet(Members(o)) /\ Cardinality(Members(o)) \in Nat
  BY CountsAreNatural DEF Count
<1>2. /\ IsFiniteSet(Members(o) \cup {w})
      /\ Cardinality(Members(o) \cup {w}) <= Cardinality(Members(o)) + 1
      /\ Cardinality(Members(o) \cup {w}) \in Nat
  <2> DEFINE M == Members(o)
  <2> HIDE DEF M
  <2>1. IsFiniteSet(M) /\ Cardinality(M) \in Nat
    BY <1>1 DEF M
  <2>2. /\ IsFiniteSet(M \cup {w})
        /\ Cardinality(M \cup {w}) = IF w \in M THEN Cardinality(M) ELSE Cardinality(M) + 1
    BY <2>1, FS_AddElement
  <2> QED
    BY <2>1, <2>2 DEF M
<1>3. IsFiniteSet(Members(o)') /\ Cardinality(Members(o)') <= Cardinality(Members(o) \cup {w})
  BY <1>2, FS_Subset
<1>4. Cardinality(Members(o)') \in Nat
  BY <1>3, FS_CardinalityType
<1>5. Limit[o] \in Nat
  BY DiscoveryAssumption
<1>6. Limit[o] > 0 => Cardinality(Members(o)) < Limit[o]
  BY <1>1, <1>5 DEF Full, Count
<1> QED
  BY <1>1, <1>2, <1>3, <1>4, <1>5, <1>6 DEF Count

\* Only Dial gives an ocean a member, and it asks first.
LEMMA StepLimit == HomeType /\ ConnectionLimit /\ [Next]_vars => HomeType' /\ ConnectionLimit'
<1> SUFFICES ASSUME HomeType, ConnectionLimit, [Next]_vars PROVE HomeType' /\ ConnectionLimit'
  OBVIOUS
<1> DEFINE Shrinks == HomeType' /\ \A o \in Oceans : Members(o)' \subseteq Members(o)
<1>1. Shrinks => HomeType' /\ ConnectionLimit'
  BY FewerIsFine DEF ConnectionLimit
<1>2. ASSUME home' = home, choice' = choice PROVE Shrinks
  BY <1>2 DEF HomeType, Members
<1>5. ASSUME NEW w \in Workers, Resolve(w) PROVE Shrinks
  BY <1>5 DEF Resolve, Selected, Candidates, GetPrefix, HomeType, Members
<1>3. ASSUME NEW o \in Oceans, Crash(o) PROVE Shrinks
  BY <1>3, NoneAssumption DEF Crash, HomeType, Members
<1>4. ASSUME NEW w \in Workers, Leave(w) PROVE Shrinks
  BY <1>4, NoneAssumption DEF Leave, HomeType, Members
<1>6. ASSUME NEW w \in Workers, Dial(w), home' = home PROVE Shrinks
  BY <1>6, NoneAssumption DEF Dial, HomeType, Members
<1>7. ASSUME NEW w \in Workers, Dial(w), home' # home PROVE HomeType' /\ ConnectionLimit'
  <2> DEFINE o == choice[w]
  <2>1. /\ ~Full(o)
        /\ home' = [home EXCEPT ![w] = o]
        /\ choice' = [choice EXCEPT ![w] = None]
    BY <1>7 DEF Dial
  <2>2. o \in Oceans
    BY <1>7 DEF HomeType, Dial
  <2>3. /\ HomeType'
        /\ \A p \in Oceans : Members(p)' \subseteq
                           (IF p = o THEN Members(p) \cup {w} ELSE Members(p))
    BY <2>1, <2>2 DEF HomeType, Members
  <2> HIDE DEF o
  <2>4. ASSUME NEW p \in Oceans PROVE Limit[p] > 0 => Count(p)' <= Limit[p]
    <3>1. CASE p = o
      BY <3>1, <2>1, <2>3, OneMoreIsFine
    <3>2. CASE p # o
      BY <3>2, <2>3, FewerIsFine
    <3> QED
      BY <3>1, <3>2
  <2> QED
    BY <2>3, <2>4 DEF ConnectionLimit
<1> QED
  BY <1>1, <1>2, <1>3, <1>4, <1>5, <1>6, <1>7
  DEF Next, vars, workerSide, Boot, ReadCount, Beat, Lapse, Publish, StartTest, StopTest,
      Expire, Outage, Recover

-----------------------------------------------------------------------------
(* Keys and leases.                                                        *)

\* What a Put leaves behind is leased.
LEMMA PutCountLeased ==
    ASSUME NEW o \in Oceans, NEW n \in Nat, KeyTypes, KeysAreLeased, PutCount(o, n)
    PROVE  /\ oceanKey' \in [Oceans -> [lease : Nat, n : Nat]]
           /\ fleetKey' = fleetKey /\ alive' = alive
           /\ KeysAreLeased'
BY DEF PutCount, CanPut, KeyTypes, KeysAreLeased

LEMMA PutTestsLeased ==
    ASSUME NEW o \in Oceans, NEW ts \in SUBSET Tests, KeyTypes, KeysAreLeased, PutTests(o, ts)
    PROVE  /\ fleetKey' \in [Oceans -> [lease : Nat, tests : SUBSET Tests]]
           /\ oceanKey' = oceanKey /\ alive' = alive
           /\ KeysAreLeased'
BY DEF PutTests, CanPut, KeyTypes, KeysAreLeased

\* Each step keeps every key under a lease that etcd holds.
LEMMA StepLeased == KeyTypes /\ KeysAreLeased /\ [Next]_vars => KeyTypes' /\ KeysAreLeased'
<1> SUFFICES ASSUME KeyTypes, KeysAreLeased, [Next]_vars PROVE KeyTypes' /\ KeysAreLeased'
  OBVIOUS
<1>1. ASSUME lease' = lease, oceanKey' = oceanKey, fleetKey' = fleetKey, alive' = alive,
             tests' = tests, beat' = beat
      PROVE  KeyTypes' /\ KeysAreLeased'
  BY <1>1 DEF KeyTypes, KeysAreLeased
<1>2. ASSUME NEW o \in Oceans, Boot(o) PROVE KeyTypes' /\ KeysAreLeased'
  <2>1. lease' \in [Oceans -> Nat] /\ lease'[o] = lease[o] + 1
    BY <1>2 DEF Boot, Grant, KeyTypes
  <2>2. /\ oceanKey' = [oceanKey EXCEPT ![o] = [lease |-> lease[o] + 1, n |-> 0]]
        /\ alive' = alive \cup {<<o, lease[o] + 1>>}
        /\ UNCHANGED <<fleetKey, tests, beat>>
    BY <1>2 DEF Boot, Grant
  <2>3. oceanKey' \in [Oceans -> [lease : Nat, n : Nat]]
    BY <2>1, <2>2 DEF KeyTypes
  <2>4. KeyTypes'
    BY <2>1, <2>2, <2>3 DEF KeyTypes
  <2>5. KeysAreLeased'
    BY <2>2, <2>3 DEF KeyTypes, KeysAreLeased
  <2> QED
    BY <2>4, <2>5
<1>3. ASSUME NEW o \in Oceans, Crash(o) PROVE KeyTypes' /\ KeysAreLeased'
  BY <1>3 DEF Crash, etcdSide, Resting, KeyTypes, KeysAreLeased
<1>4. ASSUME NEW o \in Oceans, NEW n \in Tests, StartTest(o, n) \/ StopTest(o, n)
      PROVE  KeyTypes' /\ KeysAreLeased'
  BY <1>4 DEF StartTest, StopTest, etcdSide, KeyTypes, KeysAreLeased
<1>5. ASSUME NEW o \in Oceans, NEW n \in 0..Cardinality(Workers), Publish(o, n)
      PROVE  KeyTypes' /\ KeysAreLeased'
  <2>1. n \in Nat
    OBVIOUS
  <2>2. PutCount(o, n) /\ UNCHANGED <<lease, tests, beat>>
    BY <1>5 DEF Publish
  <2>3. /\ oceanKey' \in [Oceans -> [lease : Nat, n : Nat]]
        /\ fleetKey' = fleetKey
        /\ KeysAreLeased'
    BY <2>1, <2>2, PutCountLeased
  <2> QED
    BY <2>2, <2>3 DEF KeyTypes
<1>6. ASSUME NEW o \in Oceans, Beat(o) PROVE KeyTypes' /\ KeysAreLeased'
  <2>1. Count(o) \in Nat
    BY CountsAreNatural
  <2>2. CASE beat[o].at = "rest"
    <3>1. /\ beat' = [beat EXCEPT ![o] = [at |-> "ocean", n |-> Count(o), tests |-> {}]]
          /\ UNCHANGED <<lease, oceanKey, fleetKey, alive, tests>>
      BY <1>6, <2>2 DEF Beat, etcdSide
    <3> DEFINE read == [at |-> "ocean", n |-> Count(o), tests |-> {}]
    <3>2. read \in [at : {"rest", "ocean", "fleet"}, n : Nat, tests : SUBSET Tests]
      BY <2>1
    <3>3. beat' = [beat EXCEPT ![o] = read]
      BY <3>1
    <3> HIDE DEF read
    <3> QED
      BY <3>1, <3>2, <3>3 DEF KeyTypes, KeysAreLeased
  <2>3. CASE beat[o].at = "ocean"
    <3>1. beat' \in [Oceans -> [at : {"rest", "ocean", "fleet"}, n : Nat, tests : SUBSET Tests]]
      BY <1>6, <2>3 DEF Beat, KeyTypes
    <3>2. PutCount(o, beat[o].n) /\ UNCHANGED <<lease, tests>>
      BY <1>6, <2>3 DEF Beat
    <3> QED
      BY <3>1, <3>2, PutCountLeased DEF KeyTypes
  <2>4. CASE beat[o].at = "fleet"
    <3>1. beat' \in [Oceans -> [at : {"rest", "ocean", "fleet"}, n : Nat, tests : SUBSET Tests]]
      BY <1>6, <2>4 DEF Beat, Resting, KeyTypes
    <3>2. PutTests(o, beat[o].tests) /\ UNCHANGED <<lease, tests>>
      BY <1>6, <2>4 DEF Beat
    <3> QED
      BY <3>1, <3>2, PutTestsLeased DEF KeyTypes
  <2> QED
    BY <1>6, <2>2, <2>3, <2>4 DEF Beat
<1>7. ASSUME NEW o \in Oceans, NEW i \in 1..MaxBoots, Expire(o, i)
      PROVE  KeyTypes' /\ KeysAreLeased'
  <2>1. KeyTypes'
    BY <1>7 DEF Expire, oceanSide, NoOceanKey, NoFleetKey, KeyTypes
  <2>2. KeysAreLeased'
    BY <1>7 DEF Expire, oceanSide, NoOceanKey, NoFleetKey, KeyTypes, KeysAreLeased
  <2> QED
    BY <2>1, <2>2
<1> QED
  BY <1>1, <1>2, <1>3, <1>4, <1>5, <1>6, <1>7
  DEF Next, vars, workerSide, oceanSide, etcdSide, ReadCount, Lapse, Resolve, Dial, Leave,
      Outage, Recover

-----------------------------------------------------------------------------

\* Nothing is attached and nothing is published at first.
LEMMA InitDiscovery ==
    Init => HomeType /\ ConnectionLimit /\ KeyTypes /\ KeysAreLeased
<1> SUFFICES ASSUME Init PROVE HomeType /\ ConnectionLimit /\ KeyTypes /\ KeysAreLeased
  OBVIOUS
<1>1. HomeType
  BY DEF Init, HomeType
<1>2. \A o \in Oceans : Count(o) = 0
  <2>1. \A o \in Oceans : Members(o) = {}
    BY NoneAssumption DEF Init, Members
  <2> QED
    BY <2>1, FS_EmptySet DEF Count
<1>3. ConnectionLimit
  BY <1>2, DiscoveryAssumption DEF ConnectionLimit
<1>4. KeyTypes /\ KeysAreLeased
  BY DEF Init, NoOceanKey, NoFleetKey, Resting, KeyTypes, KeysAreLeased
<1> QED
  BY <1>1, <1>3, <1>4

\* However many workers choose the same ocean by however old a counter, the
\* check in addWorker keeps max_connections (client.go:91-97).
THEOREM LimitHolds == Spec => []ConnectionLimit
<1>1. Spec => [](HomeType /\ ConnectionLimit)
  BY InitDiscovery, StepLimit, PTL DEF Spec
<1> QED
  BY <1>1, PTL

\* However publications, crashes, lost leases and new boots interleave, what is
\* published is under a lease etcd still holds (discovery.go:57-65, 94-98).
THEOREM KeysStayLeased == Spec => []KeysAreLeased
<1>1. Spec => [](KeyTypes /\ KeysAreLeased)
  BY InitDiscovery, StepLeased, PTL DEF Spec
<1> QED
  BY <1>1, PTL
=============================================================================

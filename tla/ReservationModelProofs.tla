------------------------- MODULE ReservationModelProofs -------------------------
(***************************************************************************)
(* Proofs about ReservationModel for any number of reservations, services  *)
(* and units.  CapacityRespected is inductive together with the types;     *)
(* RebuildAdmits follows from it because usage is monotonic.               *)
(***************************************************************************)
EXTENDS ReservationModel, FiniteSetTheorems, TLAPS

ReservationMap == [Reservations -> ActiveReservation \cup {Free}]

\* What a set of active reservations claims of one dimension.
LEMMA AmountsType ==
    ASSUME NEW a \in ReservationMap, NEW S \in SUBSET ActiveIn(a),
           NEW d \in Dimensions
    PROVE  Amounts(a, S, d) \in [Reservations -> 0..MaxExact]
<1>1. ASSUME NEW r \in S
      PROVE  a[r].claim[d] \in 0..MaxExact
  <2>1. a[r] \in ActiveReservation
    BY DEF ReservationMap, ActiveIn
  <2> QED
    BY <2>1 DEF ActiveReservation, Claim
<1> QED
  BY <1>1, ClaimsAssumption DEF Amounts

\* The units of a dimension are finitely many.
LEMMA UnitsFinite ==
    ASSUME NEW f \in [Reservations -> 0..MaxExact]
    PROVE  IsFiniteSet(UnitsOf(Reservations, MaxExact, f))
<1>1. IsFiniteSet(1..MaxExact)
  BY ClaimsAssumption, FS_Interval
<1>2. IsFiniteSet(Reservations \X (1..MaxExact))
  BY <1>1, ClaimsAssumption, FS_Product
<1> QED
  BY <1>2, FS_Subset DEF UnitsOf

\* Sets of reservations are finite, and usage is a number in each dimension.
LEMMA UsageType ==
    ASSUME NEW a \in ReservationMap, NEW S \in SUBSET ActiveIn(a)
    PROVE  /\ IsFiniteSet(S)
           /\ Usage(a, S).leases = Cardinality(S)
           /\ Usage(a, S).leases \in Nat
           /\ \A d \in Dimensions :
                /\ Usage(a, S).claim[d] = Cardinality(
                     UnitsOf(Reservations, MaxExact, Amounts(a, S, d)))
                /\ Usage(a, S).claim[d] \in Nat
<1>1. IsFiniteSet(S)
  BY ClaimsAssumption, FS_Subset DEF ActiveIn
<1>2. Cardinality(S) \in Nat
  BY <1>1, FS_CardinalityType
<1>3. ASSUME NEW d \in Dimensions
      PROVE  Cardinality(UnitsOf(Reservations, MaxExact, Amounts(a, S, d))) \in Nat
  BY ClaimsAssumption, AmountsType, UnitsFinite, FS_CardinalityType
<1> QED
  BY <1>1, <1>2, <1>3 DEF Usage

\* One more reservation adds one lease and its claim to the usage.
LEMMA UsageAdds ==
    ASSUME NEW a \in ReservationMap, NEW b \in ReservationMap,
           NEW S \in SUBSET ActiveIn(a), NEW r \in ActiveIn(b), r \notin S,
           \A k \in S : b[k] = a[k]
    PROVE  /\ S \cup {r} \in SUBSET ActiveIn(b)
           /\ Usage(b, S \cup {r}).leases = Usage(a, S).leases + 1
           /\ \A d \in Dimensions : Usage(b, S \cup {r}).claim[d]
                = Usage(a, S).claim[d] + b[r].claim[d]
<1> DEFINE T == S \cup {r}
<1>1. T \in SUBSET ActiveIn(b) /\ r \in Reservations
  BY DEF ActiveIn
<1>2. Cardinality(T) = Cardinality(S) + 1
  BY UsageType, FS_AddElement
<1>3. ASSUME NEW d \in Dimensions
      PROVE  Usage(b, T).claim[d] = Usage(a, S).claim[d] + b[r].claim[d]
  <2> DEFINE f == Amounts(a, S, d)
             g == Amounts(b, T, d)
  <2>1. f \in [Reservations -> 0..MaxExact]
    BY AmountsType
  <2>2. g \in [Reservations -> 0..MaxExact]
    BY <1>1, AmountsType
  <2>3. f[r] = 0 /\ g[r] = b[r].claim[d] /\ \A k \in Reservations \ {r} : g[k] = f[k]
    BY <1>1 DEF Amounts
  <2> HIDE DEF f, g
  <2>4. Cardinality(UnitsOf(Reservations, MaxExact, g))
          = Cardinality(UnitsOf(Reservations, MaxExact, f)) + g[r]
    <3>1. PICK n \in Nat : n = g[r]
      BY <1>1, <2>2, ClaimsAssumption
    <3>2. PICK U : U = UnitsOf(Reservations, MaxExact, f)
      OBVIOUS
    <3>3. PICK B : B = {r} \X (1..n)
      OBVIOUS
    <3>4. UnitsOf(Reservations, MaxExact, g) = U \cup B
      BY <1>1, <2>1, <2>2, <2>3, <3>1, <3>2, <3>3, ClaimsAssumption DEF UnitsOf
    <3>5. U \cap B = {}
      BY <2>3, <3>2, <3>3 DEF UnitsOf
    <3>6. IsFiniteSet(U) /\ Cardinality(U) \in Nat
      BY <2>1, <3>2, UnitsFinite, FS_CardinalityType
    <3>7. IsFiniteSet(B) /\ Cardinality(B) = n
      <4>1. IsFiniteSet({r}) /\ Cardinality({r}) = 1
        BY FS_Singleton
      <4>2. IsFiniteSet(1..n) /\ Cardinality(1..n) = n
        BY FS_Interval
      <4>3. IsFiniteSet(B) /\ Cardinality(B) = Cardinality({r}) * Cardinality(1..n)
        BY <3>3, <4>1, <4>2, FS_Product
      <4> QED
        BY <4>1, <4>2, <4>3
    <3>8. /\ Cardinality(U \cup B)
               = Cardinality(U) + Cardinality(B) - Cardinality({})
          /\ Cardinality({}) = 0
      BY <3>5, <3>6, <3>7, FS_Union, FS_EmptySet
    <3>9. Cardinality(U \cup B) = Cardinality(U) + n
      BY <3>6, <3>7, <3>8
    <3> QED
      BY <3>1, <3>2, <3>4, <3>9
  <2> QED
    BY <1>1, <2>3, <2>4, UsageType DEF f, g
<1> HIDE DEF T
<1>4. Usage(b, T).leases = Usage(a, S).leases + 1
  BY <1>1, <1>2, UsageType
<1> QED
  BY <1>1, <1>3, <1>4 DEF T

\* Fewer of the same reservations use no more.
LEMMA UsageMonotonic ==
    ASSUME NEW a \in ReservationMap, NEW b \in ReservationMap,
           NEW T \in SUBSET ActiveIn(a), NEW S \in SUBSET T,
           S \in SUBSET ActiveIn(b), \A k \in S : b[k] = a[k]
    PROVE  /\ Usage(b, S).leases <= Usage(a, T).leases
           /\ \A d \in Dimensions : Usage(b, S).claim[d] <= Usage(a, T).claim[d]
<1>1. Cardinality(S) <= Cardinality(T)
  BY UsageType, FS_Subset
<1>2. ASSUME NEW d \in Dimensions
      PROVE  Usage(b, S).claim[d] <= Usage(a, T).claim[d]
  <2> DEFINE f == Amounts(b, S, d)
             g == Amounts(a, T, d)
  <2>1. f \in [Reservations -> 0..MaxExact] /\ g \in [Reservations -> 0..MaxExact]
    BY AmountsType
  <2>2. \A k \in Reservations : f[k] <= g[k]
    BY <2>1 DEF Amounts
  <2> HIDE DEF f, g
  <2>3. UnitsOf(Reservations, MaxExact, f) \subseteq UnitsOf(Reservations, MaxExact, g)
    <3> SUFFICES ASSUME NEW u \in UnitsOf(Reservations, MaxExact, f)
                 PROVE  u \in UnitsOf(Reservations, MaxExact, g)
      OBVIOUS
    <3>1. /\ u[1] \in Reservations /\ u[2] \in 1..MaxExact
          /\ u[2] <= f[u[1]] /\ u \in Reservations \X (1..MaxExact)
      BY DEF UnitsOf
    <3>2. u[2] <= g[u[1]]
      BY <2>1, <2>2, <3>1, ClaimsAssumption
    <3> QED
      BY <3>1, <3>2 DEF UnitsOf
  <2>4. IsFiniteSet(UnitsOf(Reservations, MaxExact, g))
    BY <2>1, ClaimsAssumption, UnitsFinite
  <2>5. Cardinality(UnitsOf(Reservations, MaxExact, f))
          <= Cardinality(UnitsOf(Reservations, MaxExact, g))
    BY <2>3, <2>4, FS_Subset
  <2> QED
    BY <2>5, UsageType DEF f, g
<1> QED
  BY <1>1, <1>2, UsageType

\* Without reservations nothing is used, so that any capacity is respected.
LEMMA EmptyWithin ==
    ASSUME NEW a \in ReservationMap, NEW capacity \in Capacity
    PROVE  Within(Usage(a, {}), capacity)
<1>1. Usage(a, {}).leases = 0
  BY FS_EmptySet DEF Usage
<1>2. ASSUME NEW d \in Dimensions
      PROVE  Usage(a, {}).claim[d] = 0
  <2>1. UnitsOf(Reservations, MaxExact, Amounts(a, {}, d)) = {}
    <3>1. \A u \in Reservations \X (1..MaxExact) :
            ~(u[2] <= Amounts(a, {}, d)[u[1]])
      BY ClaimsAssumption DEF Amounts
    <3> QED
      BY <3>1 DEF UnitsOf
  <2> QED
    BY <2>1, FS_EmptySet DEF Usage
<1> QED
  BY <1>1, <1>2, ClaimsAssumption DEF Within, ClaimFits, Capacity, Claim

--------------------------------------------------------------------------------
\* Types: every active reservation is a claim of a service that has a share.
THEOREM TypeCorrect == Spec => []TypeOK
<1>1. Init => TypeOK
  BY DEF Init, TypeOK, ActiveIn
<1>2. TypeOK /\ [Next]_active => TypeOK'
  <2> SUFFICES ASSUME TypeOK, [Next]_active
               PROVE  TypeOK'
    OBVIOUS
  <2>1. ASSUME NEW r \in Reservations, NEW service \in Services,
               NEW claim \in Claims, Reserve(r, service, claim)
        PROVE  TypeOK'
    <3>1. [claim |-> claim, service |-> service] \in ActiveReservation
      BY CapacityAssumption DEF ActiveReservation
    <3>2. service \in DOMAIN Shares
      BY <2>1 DEF Reserve, Admits
    <3> QED
      BY <2>1, <3>1, <3>2 DEF Reserve, TypeOK, ActiveIn
  <2>2. ASSUME NEW r \in Reservations, NEW service \in Services,
               Release(r, service)
        PROVE  TypeOK'
    BY <2>2 DEF Release, TypeOK, ActiveIn
  <2>3. CASE New
    BY <2>3 DEF New, TypeOK, ActiveIn
  <2>4. CASE UNCHANGED active
    BY <2>4 DEF TypeOK, ActiveIn
  <2> QED
    BY <2>1, <2>2, <2>3, <2>4 DEF Next
<1> QED
  BY <1>1, <1>2, PTL DEF Spec

\* The active reservations of a service are active reservations.
LEMMA HeldByActive ==
    \A a, s : HeldBy(a, s) \in SUBSET ActiveIn(a)
  BY DEF HeldBy

\* A reservation that is available in a capacity leaves it respected.
LEMMA AvailableWithin ==
    ASSUME NEW a \in ReservationMap, NEW b \in ReservationMap,
           NEW S \in SUBSET ActiveIn(a), NEW r \in ActiveIn(b), r \notin S,
           \A k \in S : b[k] = a[k], NEW capacity \in Capacity,
           Available(Usage(a, S), b[r].claim, capacity)
    PROVE  Within(Usage(b, S \cup {r}), capacity)
<1>1. /\ Usage(b, S \cup {r}).leases = Usage(a, S).leases + 1
      /\ \A d \in Dimensions : Usage(b, S \cup {r}).claim[d]
           = Usage(a, S).claim[d] + b[r].claim[d]
  BY UsageAdds
<1>2. /\ Usage(a, S).leases < capacity.leases
      /\ \A d \in Dimensions :
           Usage(a, S).claim[d] + b[r].claim[d] <= capacity.claim[d]
  BY DEF Available, ClaimFits, AddClaim
<1>3. Usage(a, S).leases \in Nat /\ capacity.leases \in Nat
  BY UsageType DEF Capacity
<1>4. Usage(b, S \cup {r}).leases <= capacity.leases
  BY <1>1, <1>2, <1>3
<1>5. ClaimFits(Usage(b, S \cup {r}).claim, capacity.claim)
  BY <1>1, <1>2 DEF ClaimFits
<1> QED
  BY <1>4, <1>5 DEF Within

\* Fewer of the same reservations are within the capacity too.
LEMMA FewerWithin ==
    ASSUME NEW a \in ReservationMap, NEW b \in ReservationMap,
           NEW T \in SUBSET ActiveIn(a), NEW S \in SUBSET T,
           S \in SUBSET ActiveIn(b), \A k \in S : b[k] = a[k],
           NEW capacity \in Capacity, Within(Usage(a, T), capacity)
    PROVE  Within(Usage(b, S), capacity)
<1>1. /\ Usage(b, S).leases <= Usage(a, T).leases
      /\ \A d \in Dimensions : Usage(b, S).claim[d] <= Usage(a, T).claim[d]
  BY UsageMonotonic
<1>2. /\ Usage(b, S).leases \in Nat /\ Usage(a, T).leases \in Nat
      /\ \A d \in Dimensions :
           Usage(b, S).claim[d] \in Nat /\ Usage(a, T).claim[d] \in Nat
  BY UsageType
<1>3. /\ capacity.leases \in Nat
      /\ \A d \in Dimensions : capacity.claim[d] \in Nat
  BY ClaimsAssumption DEF Capacity, Claim
<1> QED
  BY <1>1, <1>2, <1>3 DEF Within, ClaimFits

\* reserve never takes the environment or a service beyond its capacity, in
\* any dimension and after any sequence of calls.
THEOREM CapacityHolds == Spec => []CapacityRespected
<1>1. Environment \in Capacity /\ \A s \in DOMAIN Shares : Shares[s] \in Capacity
  BY CapacityAssumption DEF ValidCapacity
<1>2. ASSUME active \in ReservationMap, ActiveIn(active) = {}
      PROVE  CapacityRespected
  <2>1. \A s : HeldBy(active, s) = {}
    BY <1>2 DEF HeldBy
  <2> QED
    BY <1>1, <1>2, <2>1, EmptyWithin DEF CapacityRespected
<1>3. Init => CapacityRespected
  BY <1>2 DEF Init, ActiveIn, ReservationMap
<1>4. TypeOK /\ TypeOK' /\ CapacityRespected /\ [Next]_active => CapacityRespected'
  <2> SUFFICES ASSUME TypeOK, TypeOK', CapacityRespected, [Next]_active
               PROVE  CapacityRespected'
    OBVIOUS
  <2>1. active \in ReservationMap /\ active' \in ReservationMap
    BY DEF TypeOK, ReservationMap
  <2>2. ASSUME NEW r \in Reservations, NEW service \in Services,
               NEW claim \in Claims, Reserve(r, service, claim)
        PROVE  CapacityRespected'
    <3>1. /\ r \in ActiveIn(active') /\ r \notin ActiveIn(active)
          /\ active'[r] = [claim |-> claim, service |-> service]
          /\ \A k \in ActiveIn(active) : active'[k] = active[k]
          /\ ActiveIn(active') = ActiveIn(active) \cup {r}
      <4>1. [claim |-> claim, service |-> service] # Free
        BY CapacityAssumption, ClaimsAssumption DEF ActiveReservation
      <4> QED
        BY <2>1, <2>2, <4>1 DEF Reserve, ActiveIn, ReservationMap
    <3>2. /\ HeldBy(active', service) = HeldBy(active, service) \cup {r}
          /\ \A s : s # service => HeldBy(active', s) = HeldBy(active, s)
      BY <3>1 DEF HeldBy
    <3>3. /\ service \in DOMAIN Shares
          /\ Available(Usage(active, ActiveIn(active)), claim, Environment)
          /\ Available(Usage(active, HeldBy(active, service)), claim,
                       Shares[service])
      <4>1. ActiveIn(active) \cap HeldBy(active, service) = HeldBy(active, service)
        BY HeldByActive
      <4> QED
        BY <2>2, <4>1 DEF Reserve, Admits
    <3>4. Within(Usage(active', ActiveIn(active')), Environment)
      BY <1>1, <2>1, <3>1, <3>3, AvailableWithin
    <3>5. Within(Usage(active', HeldBy(active', service)), Shares[service])
      BY <1>1, <2>1, <3>1, <3>2, <3>3, HeldByActive, AvailableWithin
    <3>6. ASSUME NEW s \in DOMAIN Shares, s # service
          PROVE  Within(Usage(active', HeldBy(active', s)), Shares[s])
      <4>1. Within(Usage(active, HeldBy(active, s)), Shares[s])
        BY DEF CapacityRespected
      <4>2. HeldBy(active', s) = HeldBy(active, s)
        BY <3>2, <3>6
      <4>3. HeldBy(active, s) \in SUBSET ActiveIn(active')
        BY <3>1, HeldByActive
      <4>4. \A k \in HeldBy(active, s) : active'[k] = active[k]
        BY <3>1, HeldByActive
      <4> QED
        BY <1>1, <2>1, <4>1, <4>2, <4>3, <4>4, HeldByActive, FewerWithin
    <3> QED
      BY <3>4, <3>5, <3>6 DEF CapacityRespected
  <2>3. ASSUME NEW r \in Reservations, NEW service \in Services,
               Release(r, service)
        PROVE  CapacityRespected'
    <3>1. /\ ActiveIn(active') \in SUBSET ActiveIn(active)
          /\ \A k \in ActiveIn(active') : active'[k] = active[k]
      BY <2>1, <2>3 DEF Release, ActiveIn, ReservationMap
    <3>2. \A s : HeldBy(active', s) \in SUBSET HeldBy(active, s)
      BY <3>1 DEF HeldBy
    <3>3. Within(Usage(active', ActiveIn(active')), Environment)
      BY <1>1, <2>1, <3>1, FewerWithin DEF CapacityRespected
    <3>4. ASSUME NEW s \in DOMAIN Shares
          PROVE  Within(Usage(active', HeldBy(active', s)), Shares[s])
      <4>1. Within(Usage(active, HeldBy(active, s)), Shares[s])
        BY DEF CapacityRespected
      <4>2. \A k \in HeldBy(active', s) : active'[k] = active[k]
        BY <3>1, HeldByActive
      <4> QED
        BY <1>1, <2>1, <3>2, <4>1, <4>2, HeldByActive, FewerWithin
    <3> QED
      BY <3>3, <3>4 DEF CapacityRespected
  <2>4. CASE New
    <3>1. ActiveIn(active') = {}
      BY <2>4 DEF New, ActiveIn
    <3>2. \A s : HeldBy(active', s) = {}
      BY <3>1 DEF HeldBy
    <3> QED
      BY <1>1, <2>1, <3>1, <3>2, EmptyWithin DEF CapacityRespected
  <2>5. CASE UNCHANGED active
    BY <2>5 DEF CapacityRespected, HeldBy, ActiveIn, Usage, Amounts
  <2> QED
    BY <2>2, <2>3, <2>4, <2>5 DEF Next
<1> QED
  BY <1>3, <1>4, TypeCorrect, PTL DEF Spec

\* Reservations within a capacity can be made again: a subset of the others
\* leaves room for each of them.
LEMMA WithinAvailable ==
    ASSUME NEW a \in ReservationMap, NEW T \in SUBSET ActiveIn(a), NEW r \in T,
           NEW S \in SUBSET (T \ {r}), NEW capacity \in Capacity,
           Within(Usage(a, T), capacity)
    PROVE  Available(Usage(a, S), a[r].claim, capacity)
<1>1. /\ S \cup {r} \in SUBSET T /\ S \in SUBSET ActiveIn(a)
      /\ S \cup {r} \in SUBSET ActiveIn(a)
  OBVIOUS
<1>2. /\ Usage(a, S \cup {r}).leases = Usage(a, S).leases + 1
      /\ \A d \in Dimensions : Usage(a, S \cup {r}).claim[d]
           = Usage(a, S).claim[d] + a[r].claim[d]
  BY <1>1, UsageAdds
<1>3. Within(Usage(a, S \cup {r}), capacity)
  BY <1>1, FewerWithin
<1>4. Usage(a, S).leases \in Nat /\ capacity.leases \in Nat
  BY <1>1, UsageType DEF Capacity
<1>5. Usage(a, S).leases < capacity.leases
  BY <1>2, <1>3, <1>4 DEF Within
<1>6. ClaimFits(AddClaim(Usage(a, S).claim, a[r].claim), capacity.claim)
  BY <1>2, <1>3 DEF Within, ClaimFits, AddClaim
<1> QED
  BY <1>5, <1>6 DEF Available

\* The rebuild of a model from its active reservations never fails, which is
\* what reserve_claim of the file checkpoint provider relies on at each pin.
THEOREM RebuildHolds == Spec => []RebuildAdmits
<1>1. TypeOK /\ CapacityRespected => RebuildAdmits
  <2> SUFFICES ASSUME TypeOK, CapacityRespected, NEW r \in ActiveIn(active),
                      NEW S \in SUBSET (ActiveIn(active) \ {r})
               PROVE  Admits(S, active[r].service, active[r].claim)
    BY DEF RebuildAdmits
  <2> DEFINE s == active[r].service
  <2>1. active \in ReservationMap /\ s \in DOMAIN Shares
    BY DEF TypeOK, ReservationMap
  <2>2. Environment \in Capacity /\ Shares[s] \in Capacity
    BY <2>1, CapacityAssumption DEF ValidCapacity
  <2>3. Available(Usage(active, S), active[r].claim, Environment)
    BY <2>1, <2>2, WithinAvailable DEF CapacityRespected
  <2>4. /\ r \in HeldBy(active, s)
        /\ S \cap HeldBy(active, s) \in SUBSET (HeldBy(active, s) \ {r})
        /\ HeldBy(active, s) \in SUBSET ActiveIn(active)
    BY DEF HeldBy
  <2>5. Within(Usage(active, HeldBy(active, s)), Shares[s])
    BY <2>1 DEF CapacityRespected
  <2> HIDE DEF s
  <2>6. Available(Usage(active, S \cap HeldBy(active, s)), active[r].claim,
                  Shares[s])
    BY <2>1, <2>2, <2>4, <2>5, WithinAvailable
  <2> QED
    BY <2>1, <2>3, <2>6 DEF Admits, s
<1> QED
  BY <1>1, TypeCorrect, CapacityHolds, PTL
================================================================================

-------------------------- MODULE DependencyPoolProofs --------------------------
(***************************************************************************)
(* Proofs about DependencyPool for every number of providers, tasks,       *)
(* operations and objects and every valid configuration of the limits.     *)
(***************************************************************************)
EXTENDS DependencyPool, UnitCounting, FiniteSetTheorems, TLAPS

--------------------------------------------------------------------------------
(* Totals *)

\* A block of n units of one holder has n elements.
LEMMA BlockCardinality ==
    ASSUME NEW h, NEW n \in Nat
    PROVE  /\ IsFiniteSet({h} \X (1..n))
           /\ Cardinality({h} \X (1..n)) = n
<1>1. IsFiniteSet({h}) /\ Cardinality({h}) = 1
  BY FS_Singleton
<1>2. IsFiniteSet(1..n) /\ Cardinality(1..n) = n
  BY FS_Interval
<1>3. /\ IsFiniteSet({h} \X (1..n))
      /\ Cardinality({h} \X (1..n)) = Cardinality({h}) * Cardinality(1..n)
  BY <1>1, <1>2, FS_Product
<1> QED
  BY <1>1, <1>2, <1>3

\* The set of all units of a finite set of holders is finite.
LEMMA UnitsFinite ==
    ASSUME NEW H, IsFiniteSet(H), NEW C \in Nat, NEW f \in [H -> 0..C]
    PROVE  IsFiniteSet(UnitsOf(H, C, f))
<1>1. IsFiniteSet(1..C)
  BY FS_Interval
<1>2. IsFiniteSet(H \X (1..C))
  BY <1>1, FS_Product
<1> QED
  BY <1>2, FS_Subset DEF UnitsOf
  
\* If g gives units to a holder that has none in f, and is f otherwise, then
\* the totals differ by those units.  Read from g to f it is what taking all
\* units of a holder does.
LEMMA UnitsGrow ==
    ASSUME NEW H, IsFiniteSet(H), NEW C \in Nat,
           NEW f \in [H -> 0..C], NEW g \in [H -> 0..C], NEW h \in H,
           f[h] = 0, \A k \in H \ {h} : g[k] = f[k]
    PROVE  /\ Cardinality(UnitsOf(H, C, f)) \in Nat
           /\ Cardinality(UnitsOf(H, C, g))
                = Cardinality(UnitsOf(H, C, f)) + g[h]
<1> DEFINE n == g[h]
           S == UnitsOf(H, C, f)
           B == {h} \X (1..n)
<1>1. UnitsOf(H, C, g) = S \cup B
  BY DEF UnitsOf
<1>2. S \cap B = {}
  BY DEF UnitsOf
<1>3. IsFiniteSet(S)
  BY UnitsFinite
<1>4. n \in Nat /\ IsFiniteSet(B) /\ Cardinality(B) = n
  BY BlockCardinality, n \in Nat
<1> HIDE DEF n, S, B
<1>5. Cardinality(S \cup B) = Cardinality(S) + Cardinality(B) - Cardinality({})
  BY <1>2, <1>3, <1>4, FS_Union
<1>6. Cardinality(S) \in Nat /\ Cardinality({}) = 0
  BY <1>3, FS_CardinalityType, FS_EmptySet
<1>7. Cardinality(S \cup B) = Cardinality(S) + n
  BY <1>4, <1>5, <1>6
<1> QED
  BY <1>1, <1>6, <1>7 DEF n, S

\* The number of holders grows by one at the same time.
LEMMA HoldersGrow ==
    ASSUME NEW H, IsFiniteSet(H), NEW C \in Nat,
           NEW f \in [H -> 0..C], NEW g \in [H -> 0..C], NEW h \in H,
           f[h] = 0, g[h] > 0, \A k \in H \ {h} : g[k] = f[k]
    PROVE  /\ Cardinality(HoldersOf(H, f)) \in Nat
           /\ Cardinality(HoldersOf(H, g)) = Cardinality(HoldersOf(H, f)) + 1
<1>1. HoldersOf(H, g) = HoldersOf(H, f) \cup {h} /\ h \notin HoldersOf(H, f)
  BY DEF HoldersOf
<1>2. IsFiniteSet(HoldersOf(H, f))
  BY FS_Subset DEF HoldersOf
<1> QED
  BY <1>1, <1>2, FS_AddElement, FS_CardinalityType

--------------------------------------------------------------------------------
(* Types *)

\* What the configuration guarantees of the limits the proofs mention.
LEMMA LimitsPositive ==
    /\ Limits.active_operations \in Nat /\ Limits.sessions \in Nat
    /\ Limits.memory_bytes \in Nat /\ Limits.durable_bytes \in Nat
    /\ Limits.candidate_bytes \in Nat
    /\ Limits.interactions_per_operation \in Nat
    /\ Limits.concurrent_close_requests \in Nat
    /\ V1Limits.interactions_per_operation \in Nat
  BY PoolAssumption, TranscriptAssumption
  DEF ValidLimits, LimitsRecord, Positive

\* Sizes of objects are natural numbers.
LEMMA AddedBytesNat ==
    ASSUME NEW i \in Interaction
    PROVE  AddedBytes(i) \in Nat
  BY TranscriptAssumption DEF AddedBytes, Interaction

\* Every change of the counters leaves natural numbers.
LEMMA PoolTypes ==
    ASSUME pool \in PoolState
    PROVE  /\ \A n \in Nat : /\ PoolWith(n) \in PoolState
                             /\ PoolWithout(n) \in PoolState
           /\ DropClose => pool' \in PoolState
           /\ [pool EXCEPT !.active_close_requests = @ + 1] \in PoolState
<1>1. ASSUME NEW a \in Nat, NEW b \in Nat PROVE SaturatingSub(a, b) \in Nat
  BY <1>1 DEF SaturatingSub
<1>2. \A n \in Nat : PoolWith(n) \in PoolState
  BY DEF PoolWith, PoolState
<1>3. \A n \in Nat : PoolWithout(n) \in PoolState
  BY <1>1 DEF PoolWithout, PoolState
<1>4. DropClose => pool' \in PoolState
  BY <1>1 DEF DropClose, PoolState
<1>5. [pool EXCEPT !.active_close_requests = @ + 1] \in PoolState
  BY DEF PoolState
<1> QED
  BY <1>2, <1>3, <1>4, <1>5

\* The empty values have the types of the variables they are put into.
LEMMA EmptyValues ==
    /\ EmptyState \in [bytes : Nat, interactions : Seq(Interaction),
                       objects : SUBSET Objects]
    /\ NothingClosed \in [operation : Operations \cup {NoOperation},
                          script : Transcript]
  BY DEF EmptyState, NothingClosed, EmptyTranscript, Transcript

\* Every state of every behaviour is well typed.
THEOREM TypeCorrect == Spec => []TypeOK
<1> USE LimitsPositive DEF NoReservation, NoBounds
<1>1. Init => TypeOK
  BY EmptyValues DEF Init, TypeOK, PoolState, Labels
<1>2. ASSUME TypeOK, [Next]_vars
      PROVE  TypeOK'
  <2> USE <1>2 DEF TypeOK
  <2>1. ASSUME NEW p \in Providers,
               NEW interactions \in 1..Limits.interactions_per_operation,
               NEW bytes \in 1..Limits.candidate_bytes,
               Open(p, interactions, bytes)
        PROVE  TypeOK'
    <3>1. pool' \in PoolState
      BY <2>1, PoolTypes, bytes \in Nat DEF Open
    <3>2. reservation' \in [Providers -> 0..Limits.candidate_bytes]
      BY <2>1 DEF Open
    <3>3. bounds' \in [Providers -> [bytes : 0..Limits.candidate_bytes,
                                     interactions :
                                       0..Limits.interactions_per_operation]]
      BY <2>1 DEF Open
    <3> QED
      BY <2>1, <3>1, <3>2, <3>3 DEF Open
  <2>2. ASSUME NEW p \in Providers, Expire(p)
        PROVE  TypeOK'
    BY <2>2 DEF Expire
  <2>3. ASSUME NEW p \in Providers, Drop(p)
        PROVE  TypeOK'
    BY <2>3, PoolTypes, EmptyValues DEF Drop, ReleaseOperation
  <2>4. ASSUME NEW t \in Tasks, NEW p \in Providers, RequireActive(t, p)
        PROVE  TypeOK'
    BY <2>4, PoolAssumption, EmptyValues DEF RequireActive, Call, Labels
  <2>5. ASSUME NEW t \in Tasks, NEW p \in Providers, ReserveClose(t, p)
        PROVE  TypeOK'
    <3>1. pool' \in PoolState
      <4>1. CASE pool.active_close_requests
                   >= Limits.concurrent_close_requests
        BY <2>5, <4>1 DEF ReserveClose
      <4>2. CASE ~(pool.active_close_requests
                     >= Limits.concurrent_close_requests)
        BY <2>5, <4>2, PoolTypes DEF ReserveClose
      <4> QED
        BY <4>1, <4>2
    <3>2. Call(t, p, "discard") \/ Call(t, p, "expiry")
      BY <2>5 DEF ReserveClose
    <3>3. UNCHANGED <<bounds, reservation, expired, transcript>>
      BY <2>5 DEF ReserveClose
    <3>4. CASE Call(t, p, "discard")
      BY <3>1, <3>3, <3>4, PoolAssumption, EmptyValues DEF Call, Labels
    <3>5. CASE Call(t, p, "expiry")
      BY <3>1, <3>3, <3>5, PoolAssumption, EmptyValues DEF Call, Labels
    <3> QED
      BY <3>2, <3>4, <3>5
  <2>6. ASSUME NEW t \in Tasks, NEW p \in Providers, Discard(t, p)
        PROVE  TypeOK'
    BY <2>6, PoolAssumption, EmptyValues DEF Discard, ClearState, Call, Labels
  <2>7. ASSUME NEW t \in Tasks, NEW i \in Interaction, Record(t, i)
        PROVE  TypeOK'
    <3>1. target[t] \in Providers
      BY <2>7 DEF Record, Return
    <3>2. transcript' \in [Providers -> [bytes : Nat,
                                         interactions : Seq(Interaction),
                                         objects : SUBSET Objects]]
      <4>1. transcript[target[t]].interactions \in Seq(Interaction)
        BY <3>1
      <4>2. Append(transcript[target[t]].interactions, i) \in Seq(Interaction)
        BY <4>1
      <4>3. transcript[target[t]].objects \cup {i.request, i.response}
              \in SUBSET Objects
        BY <3>1 DEF Interaction
      <4> DEFINE State == [bytes : Nat, interactions : Seq(Interaction),
                           objects : SUBSET Objects]
      <4>4. transcript[target[t]].bytes + AddedBytes(i) \in Nat
        BY <3>1, AddedBytesNat
      <4>5. [bytes |-> transcript[target[t]].bytes + AddedBytes(i),
             interactions |-> Append(transcript[target[t]].interactions, i),
             objects |-> transcript[target[t]].objects
                           \cup {i.request, i.response}]
              \in State
        BY <4>2, <4>3, <4>4
      <4>6. transcript \in [Providers -> State]
        OBVIOUS
      <4> HIDE DEF State, TypeOK
      <4>7. transcript' \in [Providers -> State]
        <5>1. CASE Recordable(target[t], i)
          BY <2>7, <3>1, <4>5, <4>6, <5>1 DEF Record
        <5>2. CASE ~Recordable(target[t], i)
          BY <2>7, <4>6, <5>2 DEF Record
        <5> QED
          BY <5>1, <5>2
      <4> QED
        BY <4>7 DEF State
    <3> QED
      BY <2>7, <3>1, <3>2 DEF Record, Return, Labels
  <2>8. ASSUME NEW t \in Tasks, CloseExpiry(t)
        PROVE  TypeOK'
    BY <2>8, PoolTypes DEF CloseExpiry, Advance, Labels
  <2>9. ASSUME NEW t \in Tasks, NEW operation \in Operations,
               CloseTake(t, operation)
        PROVE  TypeOK'
    <3>1. target[t] \in Providers
      BY <2>9 DEF CloseTake, Advance
    <3>2. closed' \in [Tasks -> [operation : Operations \cup {NoOperation},
                                 script : Transcript]]
      BY <2>9, <3>1, EmptyValues DEF CloseTake, Transcript
    <3> QED
      BY <2>9, <3>1, <3>2, EmptyValues DEF CloseTake, Advance, Labels
  <2>10. ASSUME NEW t \in Tasks, CloseDrop(t)
         PROVE  TypeOK'
    BY <2>10, PoolTypes DEF CloseDrop, Advance, Labels
  <2>11. ASSUME NEW t \in Tasks, DiscardAfterClose(t)
         PROVE  TypeOK'
    BY <2>11, EmptyValues DEF DiscardAfterClose, ClearState, Advance, Labels
  <2>12. ASSUME NEW t \in Tasks, Release(t)
         PROVE  TypeOK'
    BY <2>12, PoolTypes, PoolAssumption
    DEF Release, Return, ReleaseOperation, Labels
  <2>13. CASE UNCHANGED vars
    BY <2>13 DEF vars
  <2> QED
    BY <2>1, <2>2, <2>3, <2>4, <2>5, <2>6, <2>7, <2>8, <2>9, <2>10, <2>11,
       <2>12, <2>13
    DEF Next, Continue, Start, Environment
<1> QED
  BY <1>1, <1>2, PTL DEF Spec

--------------------------------------------------------------------------------
(***************************************************************************)
(* The accounting of the pool.  The invariant is inductive only together   *)
(* with the types, with the fact that an unopened provider has nothing     *)
(* reserved (open overwrites the reservation) and with the limits.         *)
(***************************************************************************)

\* Only an open provider has a reservation.
ReservedWhileOpen ==
    \A p \in Providers : reservation[p] > NoReservation => IsOpen(p)

\* The four counters of reservations and their limits.
ReservationsCounted ==
    LET held == Cardinality(LiveReservations)
        bytes == Cardinality(ReservedUnits) IN
    /\ pool.sessions = held /\ held <= Limits.sessions
    /\ pool.active_operations = held /\ held <= Limits.active_operations
    /\ pool.memory_bytes = bytes /\ bytes <= Limits.memory_bytes
    /\ pool.durable_bytes = bytes /\ bytes <= Limits.durable_bytes

\* The counter of closes and its limit.
ClosesCounted ==
    /\ pool.active_close_requests = Cardinality(ClosingTasks)
    /\ Cardinality(ClosingTasks) <= Limits.concurrent_close_requests

IInv == TypeOK /\ ReservedWhileOpen /\ ReservationsCounted /\ ClosesCounted

Closing == {"expiry", "take", "drop_close"}

\* The sets of the ledger are those the lemmas on counting speak of.
LEMMA LedgerSets ==
    /\ LiveReservations = HoldersOf(Providers, reservation)
    /\ LiveReservations' = HoldersOf(Providers, reservation')
    /\ ReservedUnits
         = UnitsOf(Providers, Limits.candidate_bytes, reservation)
    /\ ReservedUnits'
         = UnitsOf(Providers, Limits.candidate_bytes, reservation')
  BY DEF LiveReservations, ReservedUnits, Ledger!Holding, Ledger!Units,
         Ledger!HoldersOf, Ledger!UnitsOf, HoldersOf, UnitsOf

\* The counts are natural numbers.
LEMMA CountsNat ==
    ASSUME TypeOK
    PROVE  /\ IsFiniteSet(ClosingTasks) /\ Cardinality(ClosingTasks) \in Nat
           /\ Cardinality(LiveReservations) \in Nat
           /\ Cardinality(ReservedUnits) \in Nat
<1>1. IsFiniteSet(ClosingTasks)
  BY PoolAssumption, FS_Subset DEF ClosingTasks
<1>2. IsFiniteSet(LiveReservations)
  BY PoolAssumption, LedgerSets, FS_Subset DEF HoldersOf
<1>3. IsFiniteSet(ReservedUnits)
  BY PoolAssumption, LedgerSets, LimitsPositive, UnitsFinite DEF TypeOK
<1> QED
  BY <1>1, <1>2, <1>3, FS_CardinalityType

\* open adds to the counters what it adds to the reservations, and checks the
\* limits of the sums.
LEMMA OpenCounts ==
    ASSUME IInv, NEW p \in Providers,
           NEW interactions \in 1..Limits.interactions_per_operation,
           NEW bytes \in 1..Limits.candidate_bytes,
           Open(p, interactions, bytes)
    PROVE  ReservationsCounted'
<1> USE LimitsPositive DEF NoReservation
<1>1. /\ reservation \in [Providers -> 0..Limits.candidate_bytes]
      /\ reservation' \in [Providers -> 0..Limits.candidate_bytes]
      /\ reservation[p] = 0 /\ reservation'[p] = bytes /\ bytes > 0
      /\ \A k \in Providers \ {p} : reservation'[k] = reservation[k]
  BY DEF IInv, TypeOK, ReservedWhileOpen, Open
<1>2. Cardinality(ReservedUnits') = Cardinality(ReservedUnits) + bytes
  BY <1>1, PoolAssumption, LedgerSets, UnitsGrow
<1>3. Cardinality(LiveReservations') = Cardinality(LiveReservations) + 1
  BY <1>1, PoolAssumption, LedgerSets, HoldersGrow
<1>4. /\ Cardinality(LiveReservations) \in Nat
      /\ Cardinality(ReservedUnits) \in Nat
  BY CountsNat DEF IInv
<1> QED
  BY <1>2, <1>3, <1>4
  DEF IInv, ReservationsCounted, Open, PoolAdmits, PoolWith

\* Releasing subtracts exactly what the reservation had added, so that the
\* saturating subtraction never saturates, and is idempotent.
LEMMA ReleaseCounts ==
    ASSUME IInv, NEW p \in Providers, ReleaseOperation(p)
    PROVE  /\ ReservationsCounted'
           /\ pool'.active_close_requests = pool.active_close_requests
<1> USE LimitsPositive DEF NoReservation
<1>1. CASE reservation[p] = 0
  <2>1. reservation' = reservation /\ pool' = pool
    BY <1>1 DEF ReleaseOperation, IInv, TypeOK
  <2> QED
    BY <2>1 DEF IInv, ReservationsCounted, LiveReservations, ReservedUnits
<1>2. CASE reservation[p] # 0
  <2>1. /\ reservation \in [Providers -> 0..Limits.candidate_bytes]
        /\ reservation' \in [Providers -> 0..Limits.candidate_bytes]
        /\ reservation'[p] = 0 /\ reservation[p] > 0
        /\ \A k \in Providers \ {p} : reservation[k] = reservation'[k]
    BY <1>2 DEF IInv, TypeOK, ReleaseOperation
  <2>2. /\ Cardinality(ReservedUnits') \in Nat
        /\ Cardinality(ReservedUnits)
             = Cardinality(ReservedUnits') + reservation[p]
    BY <2>1, PoolAssumption, LedgerSets, UnitsGrow
  <2>3. /\ Cardinality(LiveReservations') \in Nat
        /\ Cardinality(LiveReservations) = Cardinality(LiveReservations') + 1
    BY <2>1, PoolAssumption, LedgerSets, HoldersGrow
  <2>4. pool' = PoolWithout(reservation[p])
    BY <1>2 DEF ReleaseOperation
  <2> QED
    BY <2>1, <2>2, <2>3, <2>4
    DEF IInv, ReservationsCounted, PoolWithout, SaturatingSub
<1> QED
  BY <1>1, <1>2

\* A call that moves neither into nor out of the sections that hold a close
\* slot leaves the count of closes alone.
LEMMA SameCloses ==
    ASSUME IInv, NEW t \in Tasks, NEW label,
           pc' = [pc EXCEPT ![t] = label], pc[t] \in Closing <=> label \in Closing,
           pool'.active_close_requests = pool.active_close_requests
    PROVE  ClosesCounted'
<1>1. ClosingTasks' = ClosingTasks
  BY DEF IInv, TypeOK, ClosingTasks, Closing
<1> QED
  BY <1>1 DEF IInv, ClosesCounted

\* A close that takes a slot changes the count with it.
LEMMA EnterClose ==
    ASSUME IInv, NEW t \in Tasks, NEW label \in Closing,
           pc[t] \notin Closing, pc' = [pc EXCEPT ![t] = label],
           pool.active_close_requests < Limits.concurrent_close_requests,
           pool' = [pool EXCEPT !.active_close_requests = @ + 1]
    PROVE  ClosesCounted'
<1> USE CountsNat, LimitsPositive DEF IInv
<1>1. ClosingTasks' = ClosingTasks \cup {t} /\ t \notin ClosingTasks
  BY DEF TypeOK, ClosingTasks, Closing
<1>2. Cardinality(ClosingTasks') = Cardinality(ClosingTasks) + 1
  BY <1>1, FS_AddElement
<1>3. pool'.active_close_requests = pool.active_close_requests + 1
  BY DEF TypeOK, PoolState
<1> QED
  BY <1>2, <1>3 DEF ClosesCounted

\* A close that gives its slot back changes the count with it, and the
\* saturating subtraction does not saturate.
LEMMA LeaveClose ==
    ASSUME IInv, NEW t \in Tasks, NEW label,
           pc[t] \in Closing, label \notin Closing,
           pc' = [pc EXCEPT ![t] = label], DropClose
    PROVE  ClosesCounted'
<1> USE CountsNat, LimitsPositive DEF IInv
<1>1. ClosingTasks' = ClosingTasks \ {t} /\ t \in ClosingTasks
  BY DEF TypeOK, ClosingTasks, Closing
<1>2. Cardinality(ClosingTasks') = Cardinality(ClosingTasks) - 1
  BY <1>1, FS_RemoveElement
<1>3. Cardinality(ClosingTasks) # 0
  BY <1>1, FS_EmptySet
<1>4. pool'.active_close_requests = pool.active_close_requests - 1
  BY <1>3 DEF DropClose, SaturatingSub, TypeOK, PoolState, ClosesCounted
<1> QED
  BY <1>2, <1>3, <1>4 DEF ClosesCounted

\* An action that leaves the reservations and their counters alone.
LEMMA SameReservations ==
    ASSUME IInv, UNCHANGED reservation,
           UNCHANGED pool \/ DropClose
             \/ pool' = [pool EXCEPT !.active_close_requests = @ + 1]
    PROVE  ReservationsCounted'
<1>1. /\ HoldersOf(Providers, reservation') = HoldersOf(Providers, reservation)
      /\ UnitsOf(Providers, Limits.candidate_bytes, reservation')
           = UnitsOf(Providers, Limits.candidate_bytes, reservation)
  OBVIOUS
<1>2. LiveReservations' = LiveReservations /\ ReservedUnits' = ReservedUnits
  BY <1>1, LedgerSets
<1>3. /\ pool'.sessions = pool.sessions
      /\ pool'.active_operations = pool.active_operations
      /\ pool'.memory_bytes = pool.memory_bytes
      /\ pool'.durable_bytes = pool.durable_bytes
  BY DEF DropClose, IInv, TypeOK, PoolState
<1> QED
  BY <1>2, <1>3 DEF IInv, ReservationsCounted

\* The pool's counters are always the numbers of what is reserved, and every
\* limit is respected: the inductive invariant.
THEOREM Accounting == Spec => []IInv
<1> USE DEF NoReservation
<1>1. Init => IInv
  <2> SUFFICES ASSUME Init PROVE ReservedWhileOpen /\ ReservationsCounted
                                  /\ ClosesCounted /\ TypeOK
    BY DEF IInv
  <2>1. TypeOK
    BY LimitsPositive, EmptyValues DEF Init, TypeOK, PoolState, Labels, NoBounds
  <2>2. LiveReservations = {} /\ ReservedUnits = {} /\ ClosingTasks = {}
    BY LedgerSets, LimitsPositive DEF Init, HoldersOf, UnitsOf, ClosingTasks
  <2>3. ReservationsCounted /\ ClosesCounted
    BY <2>2, FS_EmptySet, LimitsPositive
    DEF Init, ReservationsCounted, ClosesCounted
  <2> QED
    BY <2>1, <2>3 DEF Init, ReservedWhileOpen
<1>2. ASSUME IInv, TypeOK', [Next]_vars
      PROVE  IInv'
  <2> USE <1>2
  <2>1. ASSUME NEW p \in Providers,
               NEW interactions \in 1..Limits.interactions_per_operation,
               NEW bytes \in 1..Limits.candidate_bytes,
               Open(p, interactions, bytes)
        PROVE  IInv'
    <3>1. ReservationsCounted'
      BY <2>1, OpenCounts
    <3>2. ReservedWhileOpen'
      BY <2>1, LimitsPositive
      DEF Open, ReservedWhileOpen, IsOpen, NoBounds, IInv, TypeOK
    <3>3. ClosesCounted'
      BY <2>1 DEF Open, PoolWith, IInv, ClosesCounted, ClosingTasks
    <3> QED
      BY <3>1, <3>2, <3>3 DEF IInv
  <2>2. ASSUME NEW p \in Providers, Expire(p)
        PROVE  IInv'
    <3>1. ReservationsCounted'
      BY <2>2, SameReservations DEF Expire
    <3> QED
      BY <2>2, <3>1 DEF Expire, IInv, ReservedWhileOpen, IsOpen, ClosesCounted,
                        ClosingTasks
  <2>3. ASSUME NEW p \in Providers, Drop(p)
        PROVE  IInv'
    <3>1. /\ ReservationsCounted'
          /\ pool'.active_close_requests = pool.active_close_requests
      BY <2>3, ReleaseCounts DEF Drop
    <3>2. ReservedWhileOpen'
      BY <2>3 DEF Drop, ReleaseOperation, ReservedWhileOpen, IsOpen, IInv, TypeOK
    <3>3. ClosesCounted'
      BY <2>3, <3>1 DEF Drop, IInv, ClosesCounted, ClosingTasks
    <3> QED
      BY <3>1, <3>2, <3>3 DEF IInv
  <2>4. ASSUME NEW t \in Tasks, NEW p \in Providers, RequireActive(t, p)
        PROVE  IInv'
    <3>1. PICK label \in {"release", "push"} : Call(t, p, label)
      BY <2>4 DEF RequireActive
    <3>2. ClosesCounted'
      BY <2>4, <3>1, SameCloses DEF RequireActive, Call, Closing
    <3>3. ReservationsCounted'
      BY <2>4, SameReservations DEF RequireActive
    <3> QED
      BY <2>4, <3>2, <3>3 DEF RequireActive, IInv, ReservedWhileOpen, IsOpen
  <2>5. ASSUME NEW t \in Tasks, NEW p \in Providers, ReserveClose(t, p)
        PROVE  IInv'
    <3>1. ClosesCounted'
      <4>1. CASE pool.active_close_requests >= Limits.concurrent_close_requests
        <5>1. Call(t, p, "discard") /\ UNCHANGED pool
          BY <2>5, <4>1 DEF ReserveClose
        <5> QED
          BY <5>1, SameCloses DEF Call, Closing
      <4>2. CASE ~(pool.active_close_requests
                     >= Limits.concurrent_close_requests)
        <5>1. /\ Call(t, p, "expiry")
              /\ pool' = [pool EXCEPT !.active_close_requests = @ + 1]
          BY <2>5, <4>2 DEF ReserveClose
        <5>2. pool.active_close_requests \in Nat
          BY DEF IInv, TypeOK, PoolState
        <5>3. pool.active_close_requests < Limits.concurrent_close_requests
          BY <4>2, <5>2, LimitsPositive
        <5> QED
          BY <5>1, <5>3, EnterClose DEF Call, Closing
      <4> QED
        BY <4>1, <4>2
    <3>2. ReservationsCounted'
      BY <2>5, SameReservations DEF ReserveClose
    <3> QED
      BY <2>5, <3>1, <3>2 DEF ReserveClose, IInv, ReservedWhileOpen, IsOpen
  <2>6. ASSUME NEW t \in Tasks, NEW p \in Providers, Discard(t, p)
        PROVE  IInv'
    <3>1. ClosesCounted'
      BY <2>6, SameCloses DEF Discard, ClearState, Call, Closing
    <3>2. ReservationsCounted'
      BY <2>6, SameReservations DEF Discard, ClearState
    <3> QED
      BY <2>6, <3>1, <3>2
      DEF Discard, ClearState, IInv, ReservedWhileOpen, IsOpen
  <2>7. ASSUME NEW t \in Tasks, NEW i \in Interaction, Record(t, i)
        PROVE  IInv'
    <3>1. ClosesCounted'
      BY <2>7, SameCloses DEF Record, Return, Closing
    <3>2. ReservationsCounted'
      BY <2>7, SameReservations DEF Record
    <3> QED
      BY <2>7, <3>1, <3>2 DEF Record, IInv, ReservedWhileOpen, IsOpen
  <2>8. ASSUME NEW t \in Tasks, CloseExpiry(t)
        PROVE  IInv'
    <3>1. ClosesCounted'
      <4>1. CASE expired[target[t]]
        BY <2>8, <4>1, LeaveClose DEF CloseExpiry, Advance, Closing
      <4>2. CASE ~expired[target[t]]
        BY <2>8, <4>2, SameCloses DEF CloseExpiry, Advance, Closing
      <4> QED
        BY <4>1, <4>2
    <3>2. ReservationsCounted'
      BY <2>8, SameReservations DEF CloseExpiry
    <3> QED
      BY <2>8, <3>1, <3>2 DEF CloseExpiry, IInv, ReservedWhileOpen, IsOpen
  <2>9. ASSUME NEW t \in Tasks, NEW operation \in Operations,
               CloseTake(t, operation)
        PROVE  IInv'
    <3>1. ClosesCounted'
      BY <2>9, SameCloses DEF CloseTake, Advance, Closing
    <3>2. ReservationsCounted'
      BY <2>9, SameReservations DEF CloseTake
    <3> QED
      BY <2>9, <3>1, <3>2 DEF CloseTake, IInv, ReservedWhileOpen, IsOpen
  <2>10. ASSUME NEW t \in Tasks, CloseDrop(t)
         PROVE  IInv'
    <3>1. ClosesCounted'
      <4>1. /\ pc[t] \in Closing /\ "release" \notin Closing /\ DropClose
            /\ pc' = [pc EXCEPT ![t] = "release"]
        BY <2>10 DEF CloseDrop, Advance, Closing
      <4> QED
        BY <4>1, LeaveClose
    <3>2. ReservationsCounted'
      BY <2>10, SameReservations DEF CloseDrop
    <3> QED
      BY <2>10, <3>1, <3>2 DEF CloseDrop, IInv, ReservedWhileOpen, IsOpen
  <2>11. ASSUME NEW t \in Tasks, DiscardAfterClose(t)
         PROVE  IInv'
    <3>1. ClosesCounted'
      BY <2>11, SameCloses DEF DiscardAfterClose, ClearState, Advance, Closing
    <3>2. ReservationsCounted'
      BY <2>11, SameReservations DEF DiscardAfterClose, ClearState
    <3> QED
      BY <2>11, <3>1, <3>2
      DEF DiscardAfterClose, ClearState, IInv, ReservedWhileOpen, IsOpen
  <2>12. ASSUME NEW t \in Tasks, Release(t)
         PROVE  IInv'
    <3>1. target[t] \in Providers
      BY <2>12 DEF Release, Return, IInv, TypeOK
    <3>2. /\ ReservationsCounted'
          /\ pool'.active_close_requests = pool.active_close_requests
      BY <2>12, <3>1, ReleaseCounts DEF Release
    <3>3. ClosesCounted'
      BY <2>12, <3>2, SameCloses DEF Release, Return, Closing
    <3>4. ReservedWhileOpen'
      BY <2>12, <3>1
      DEF Release, ReleaseOperation, IInv, TypeOK, ReservedWhileOpen, IsOpen
    <3> QED
      BY <3>2, <3>3, <3>4 DEF IInv
  <2>13. CASE UNCHANGED vars
    <3>1. ReservationsCounted'
      BY <2>13, SameReservations DEF vars
    <3> QED
      BY <2>13, <3>1 DEF vars, IInv, ReservedWhileOpen, IsOpen, ClosesCounted,
                         ClosingTasks
  <2> QED
    BY <2>1, <2>2, <2>3, <2>4, <2>5, <2>6, <2>7, <2>8, <2>9, <2>10, <2>11,
       <2>12, <2>13
    DEF Next, Continue, Start, Environment
<1> QED
  BY <1>1, <1>2, TypeCorrect, PTL DEF Spec

\* The counters never drift from what is reserved and from the closes in
\* flight.
THEOREM PoolAccountingHolds == Spec => []PoolAccounting
<1>1. IInv => PoolAccounting
  BY DEF IInv, ReservationsCounted, ClosesCounted, PoolAccounting
<1> QED
  BY <1>1, Accounting, PTL

\* The reservations and the closes in flight respect every limit.
THEOREM QuotaHolds == Spec => []QuotaRespected
<1>1. IInv => QuotaRespected
  BY DEF IInv, ReservationsCounted, ClosesCounted, QuotaRespected
<1> QED
  BY <1>1, Accounting, PTL

--------------------------------------------------------------------------------
(***************************************************************************)
(* The refinement.                                                         *)
(***************************************************************************)

\* The ledger counts with the same cardinality.
LEMMA SameCardinality == \A S : Ledger!Cardinality(S) = Cardinality(S)
  BY DEF Ledger!Cardinality, Cardinality, Ledger!IsFiniteSet, IsFiniteSet

\* What open checks of the counters is what the ledger checks of the grants.
LEMMA OpenIsGrant ==
    ASSUME IInv, NEW p \in Providers,
           NEW interactions \in 1..Limits.interactions_per_operation,
           NEW bytes \in 1..Limits.candidate_bytes,
           Open(p, interactions, bytes)
    PROVE  Ledger!Grant(p, bytes)
<1>1. reservation[p] = 0
  BY DEF IInv, TypeOK, ReservedWhileOpen, Open, NoReservation
<1>2. /\ Cardinality(LiveReservations) < Limits.sessions
      /\ Cardinality(LiveReservations) < Limits.active_operations
      /\ Cardinality(ReservedUnits) + bytes <= Limits.memory_bytes
      /\ Cardinality(ReservedUnits) + bytes <= Limits.durable_bytes
  BY DEF IInv, ReservationsCounted, Open, PoolAdmits
<1>3. /\ Cardinality(LiveReservations)
           < Smaller(Limits.sessions, Limits.active_operations)
      /\ Cardinality(ReservedUnits) + bytes
           <= Smaller(Limits.memory_bytes, Limits.durable_bytes)
  BY <1>2 DEF Smaller
<1>4. reservation' = [reservation EXCEPT ![p] = bytes]
  BY DEF Open
<1> QED
  BY <1>1, <1>3, <1>4, SameCardinality
  DEF Ledger!Grant, LiveReservations, ReservedUnits

\* Releasing a reservation ends a grant or, when it is gone, changes nothing.
LEMMA ReleaseIsRevoke ==
    ASSUME IInv, NEW p \in Providers, ReleaseOperation(p)
    PROVE  Ledger!Revoke(p) \/ UNCHANGED reservation
  BY LimitsPositive DEF ReleaseOperation, Ledger!Revoke, IInv, TypeOK, NoReservation

\* The pool of counters implements the ledger of grants.
THEOREM Refinement == Spec => ImplementsLedger
<1>1. Init => Ledger!LedgerInit
  BY DEF Init, Ledger!LedgerInit, NoReservation
<1>2. ASSUME IInv, [Next]_vars
      PROVE  [Ledger!LedgerNext]_reservation
  <2> USE <1>2
  <2>1. ASSUME NEW p \in Providers,
               NEW interactions \in 1..Limits.interactions_per_operation,
               NEW bytes \in 1..Limits.candidate_bytes,
               Open(p, interactions, bytes)
        PROVE  Ledger!LedgerNext
    BY <2>1, OpenIsGrant DEF Ledger!LedgerNext
  <2>2. ASSUME NEW p \in Providers, Drop(p)
        PROVE  Ledger!LedgerNext \/ UNCHANGED reservation
    BY <2>2, ReleaseIsRevoke DEF Drop, Ledger!LedgerNext
  <2>3. ASSUME NEW t \in Tasks, Release(t)
        PROVE  Ledger!LedgerNext \/ UNCHANGED reservation
    <3>1. target[t] \in Providers
      BY <2>3 DEF Release, Return, IInv, TypeOK
    <3> QED
      BY <2>3, <3>1, ReleaseIsRevoke DEF Release, Ledger!LedgerNext
  <2>4. ASSUME NEW t \in Tasks, NEW p \in Providers, Start(t, p)
        PROVE  UNCHANGED reservation
    BY <2>4 DEF Start, RequireActive, ReserveClose, Discard, ClearState
  <2>5. ASSUME NEW t \in Tasks, Continue(t), ~Release(t)
        PROVE  UNCHANGED reservation
    BY <2>5 DEF Continue, Record, CloseExpiry, CloseTake, CloseDrop,
                DiscardAfterClose, ClearState
  <2>6. ASSUME NEW p \in Providers, Expire(p)
        PROVE  UNCHANGED reservation
    BY <2>6 DEF Expire
  <2>7. CASE UNCHANGED vars
    BY <2>7 DEF vars
  <2> QED
    BY <2>1, <2>2, <2>3, <2>4, <2>5, <2>6, <2>7 DEF Next, Environment
<1> QED
  BY <1>1, <1>2, Accounting, PTL DEF Spec, ImplementsLedger, Ledger!LedgerSpec
--------------------------------------------------------------------------------
(***************************************************************************)
(* The transcripts.  That close hands out only what a replay accepts rests *)
(* on what record keeps of every transcript, in whatever order the         *)
(* sections of overlapping calls run: it is the strengthening below.       *)
(***************************************************************************)

\* What record keeps and close and discard restart: every interaction has two
\* objects of its own, no object is left over, none is beyond its limit, and
\* the bytes counted are the bytes held.
WellRecorded(state) ==
    /\ IsFiniteSet(state.objects) /\ IsFiniteSet(BytesOf(state.objects))
    /\ NamedObjects(state.interactions) = state.objects
    /\ Cardinality(state.objects) = 2 * Len(state.interactions)
    /\ \A o \in state.objects : ObjectBytes[o] <= V1Limits.object_bytes
    /\ state.bytes = TotalBytes(state.objects)

\* A transcript stays within the bounds its provider was opened with.
WithinBounds(state, bound) ==
    /\ state.bytes <= bound.bytes
    /\ Len(state.interactions) <= bound.interactions

TranscriptsRecorded ==
    \A p \in Providers : WellRecorded(transcript[p])
                         /\ WithinBounds(transcript[p], bounds[p])

ScriptInv == TypeOK /\ TranscriptsRecorded /\ ClosedTranscriptReplays

\* Limits of a provider are within the V1 caps.
LEMMA CandidateCap ==
    /\ Limits.candidate_bytes \in Nat /\ V1Limits.candidate_bytes \in Nat
    /\ Limits.candidate_bytes <= V1Limits.candidate_bytes
<1>1. "candidate_bytes" \in DOMAIN Limits
  BY PoolAssumption DEF ValidLimits, LimitsRecord
<1> QED
  BY <1>1, PoolAssumption, TranscriptAssumption
  DEF ValidLimits, LimitsRecord, Positive

\* A new object adds its length to the total.
LEMMA BytesGrow ==
    ASSUME NEW S \in SUBSET Objects, IsFiniteSet(BytesOf(S)),
           NEW o \in Objects, o \notin S
    PROVE  /\ IsFiniteSet(BytesOf(S \cup {o}))
           /\ TotalBytes(S) \in Nat
           /\ TotalBytes(S \cup {o}) = TotalBytes(S) + ObjectBytes[o]
<1>n. PICK n \in Nat : n = ObjectBytes[o]
  BY TranscriptAssumption
<1>a. PICK A : A = BytesOf(S)
  OBVIOUS
<1>b. PICK B : B = {o} \X (1..n)
  OBVIOUS
<1>1. BytesOf(S \cup {o}) = A \cup B
  BY <1>n, <1>a, <1>b DEF BytesOf
<1>2. A \cap B = {}
  BY <1>a, <1>b DEF BytesOf
<1>3. IsFiniteSet(B) /\ Cardinality(B) = n
  BY <1>b, BlockCardinality
<1>4. Cardinality({}) = 0 /\ IsFiniteSet(A) /\ Cardinality(A) \in Nat
  BY <1>a, FS_EmptySet, FS_CardinalityType
<1>5. /\ IsFiniteSet(A \cup B)
      /\ Cardinality(A \cup B) = Cardinality(A) + n - Cardinality({})
  BY <1>2, <1>3, <1>4, FS_Union
<1>6. Cardinality(A \cup B) = Cardinality(A) + n
  BY <1>4, <1>5
<1>7. TotalBytes(S \cup {o}) = Cardinality(A \cup B)
  BY <1>1 DEF TotalBytes
<1>8. TotalBytes(S) = Cardinality(A)
  BY <1>a DEF TotalBytes
<1> QED
  BY <1>1, <1>n, <1>4, <1>5, <1>6, <1>7, <1>8

\* The interaction that is appended brings exactly its own two objects.
LEMMA NamedAppend ==
    ASSUME NEW s \in Seq(Interaction), NEW i \in Interaction
    PROVE  NamedObjects(Append(s, i))
             = NamedObjects(s) \cup {i.request, i.response}
<1> PICK n \in Nat : n = Len(s)
  OBVIOUS
<1> PICK e : e = Append(s, i)
  OBVIOUS
<1>1. Len(e) = n + 1 /\ e[n + 1] = i /\ \A k \in 1..n : e[k] = s[k]
  OBVIOUS
<1>2. 1..(n + 1) = (1..n) \cup {n + 1}
  OBVIOUS
<1>3. ASSUME NEW x PROVE x \in NamedObjects(e)
        <=> x \in NamedObjects(s) \cup {i.request, i.response}
  <2>1. x \in NamedObjects(e)
          <=> \E k \in 1..(n + 1) : x \in {e[k].request, e[k].response}
    BY <1>1 DEF NamedObjects
  <2>2. x \in NamedObjects(s)
          <=> \E k \in 1..n : x \in {s[k].request, s[k].response}
    BY DEF NamedObjects
  <2>3. (\E k \in 1..(n + 1) : x \in {e[k].request, e[k].response})
          <=> \/ \E k \in 1..n : x \in {e[k].request, e[k].response}
              \/ x \in {e[n + 1].request, e[n + 1].response}
    BY <1>2
  <2> QED
    BY <1>1, <2>1, <2>2, <2>3
<1> QED
  BY <1>3

\* A transcript that was just emptied is well recorded.
LEMMA EmptyRecorded == WellRecorded(EmptyState)
<1>1. NamedObjects(<<>>) = {} /\ BytesOf({}) = {}
  BY DEF NamedObjects, BytesOf
<1> QED
  BY <1>1, FS_EmptySet DEF WellRecorded, EmptyState, TotalBytes

\* What record stores.
Recorded(state, i) ==
    [bytes |-> state.bytes + AddedBytes(i),
     interactions |-> Append(state.interactions, i),
     objects |-> state.objects \cup {i.request, i.response}]

\* A recordable interaction keeps the transcript well recorded and within the
\* bounds.
LEMMA RecordKeeps ==
    ASSUME TypeOK, NEW p \in Providers, NEW i \in Interaction,
           WellRecorded(transcript[p]), Recordable(p, i)
    PROVE  /\ WellRecorded(Recorded(transcript[p], i))
           /\ WithinBounds(Recorded(transcript[p], i), bounds[p])
<1> PICK state : state = transcript[p]
  OBVIOUS
<1> PICK S : S = state.objects
  OBVIOUS
<1>1. /\ state.interactions \in Seq(Interaction) /\ S \in SUBSET Objects
      /\ state.bytes \in Nat /\ bounds[p].interactions \in Nat
  BY LimitsPositive DEF TypeOK
<1>2. /\ i.request \in Objects /\ i.response \in Objects
      /\ i.request # i.response /\ i.request \notin S /\ i.response \notin S
  BY DEF Recordable, Interaction
<1> PICK R : R = S \cup {i.request}
  OBVIOUS
<1> PICK T : T = S \cup {i.request, i.response}
  OBVIOUS
<1>3. /\ R \in SUBSET Objects /\ i.response \notin R
      /\ T = R \cup {i.response}
  BY <1>1, <1>2
<1>4. /\ IsFiniteSet(S) /\ IsFiniteSet(BytesOf(S))
      /\ NamedObjects(state.interactions) = S
      /\ Cardinality(S) = 2 * Len(state.interactions)
      /\ \A o \in S : ObjectBytes[o] <= V1Limits.object_bytes
      /\ state.bytes = TotalBytes(S)
  BY DEF WellRecorded
<1>5. /\ IsFiniteSet(BytesOf(R)) /\ TotalBytes(S) \in Nat
      /\ TotalBytes(R) = TotalBytes(S) + ObjectBytes[i.request]
  BY <1>1, <1>2, <1>4, BytesGrow
<1>6. /\ IsFiniteSet(BytesOf(T))
      /\ TotalBytes(T) = TotalBytes(R) + ObjectBytes[i.response]
  BY <1>2, <1>3, <1>5, BytesGrow
<1>7. /\ IsFiniteSet(T) /\ Cardinality(T) = Cardinality(S) + 2
  <2>1. IsFiniteSet(R) /\ Cardinality(R) = Cardinality(S) + 1
    BY <1>2, <1>4, FS_AddElement
  <2>2. IsFiniteSet(T) /\ Cardinality(T) = Cardinality(R) + 1
    BY <1>3, <2>1, FS_AddElement
  <2>3. Cardinality(S) \in Nat
    BY <1>4, FS_CardinalityType
  <2> QED
    BY <2>1, <2>2, <2>3
<1>8. NamedObjects(Append(state.interactions, i)) = T
  BY <1>1, <1>4, NamedAppend
<1>9. /\ Len(Append(state.interactions, i)) = Len(state.interactions) + 1
      /\ Len(state.interactions) \in Nat
  BY <1>1
<1>10. \A o \in T : ObjectBytes[o] <= V1Limits.object_bytes
  BY <1>4 DEF Recordable
<1>11. ObjectBytes[i.request] \in Nat /\ ObjectBytes[i.response] \in Nat
  BY <1>2, TranscriptAssumption
<1>12. state.bytes + AddedBytes(i) = TotalBytes(T)
  BY <1>4, <1>5, <1>6, <1>11 DEF AddedBytes
<1>13. Cardinality(T) = 2 * Len(Append(state.interactions, i))
  BY <1>4, <1>7, <1>9
<1>14. WellRecorded(Recorded(transcript[p], i))
  BY <1>6, <1>7, <1>8, <1>10, <1>12, <1>13 DEF WellRecorded, Recorded
<1>15. WithinBounds(Recorded(transcript[p], i), bounds[p])
  BY <1>1, <1>9 DEF WithinBounds, Recorded, Recordable
<1> QED
  BY <1>14, <1>15

\* A transcript that record built and close verified is one a replay accepts.
LEMMA VerifiedReplays ==
    ASSUME TypeOK, NEW p \in Providers, WellRecorded(transcript[p]),
           WithinBounds(transcript[p], bounds[p]),
           NEW operation \in Operations, Verified(operation, transcript[p])
    PROVE  Replayable(operation,
                      [interactions |-> transcript[p].interactions,
                       objects |-> transcript[p].objects])
<1>1. bounds[p].bytes \in Nat /\ bounds[p].bytes <= V1Limits.candidate_bytes
  BY CandidateCap DEF TypeOK
<1>2. transcript[p].bytes \in Nat
  BY DEF TypeOK
<1>3. TotalBytes(transcript[p].objects) <= V1Limits.candidate_bytes
  BY <1>1, <1>2, CandidateCap DEF WellRecorded, WithinBounds
<1> QED
  BY <1>3 DEF Replayable, Verified, WellRecorded

\* Emptying the transcript of one provider keeps what holds of all.
LEMMA EmptyKeeps ==
    ASSUME ScriptInv, TypeOK', NEW p \in Providers, UNCHANGED bounds,
           transcript' = [transcript EXCEPT ![p] = EmptyState]
    PROVE  TranscriptsRecorded'
<1> SUFFICES ASSUME NEW q \in Providers
             PROVE  /\ WellRecorded(transcript'[q])
                    /\ WithinBounds(transcript'[q], bounds'[q])
  BY DEF TranscriptsRecorded
<1>1. CASE q = p
  <2>1. transcript'[q] = EmptyState
    BY <1>1 DEF ScriptInv, TypeOK
  <2>2. bounds'[q].bytes \in Nat /\ bounds'[q].interactions \in Nat
    BY LimitsPositive DEF TypeOK
  <2> QED
    BY <2>1, <2>2, EmptyRecorded DEF WithinBounds, EmptyState
<1>2. CASE q # p
  BY <1>2 DEF ScriptInv, TypeOK, TranscriptsRecorded
<1> QED
  BY <1>1, <1>2

\* Every transcript is well recorded and within its bounds, and every closed
\* one replays: the inductive invariant.
THEOREM Recording == Spec => []ScriptInv
<1>1. Init => ScriptInv
  <2> SUFFICES ASSUME Init PROVE TypeOK /\ TranscriptsRecorded
                                 /\ ClosedTranscriptReplays
    BY DEF ScriptInv
  <2>1. TypeOK
    BY LimitsPositive, EmptyValues
    DEF Init, TypeOK, PoolState, Labels, NoBounds, NoReservation
  <2>2. TranscriptsRecorded
    BY EmptyRecorded
    DEF Init, TranscriptsRecorded, WithinBounds, EmptyState, NoBounds
  <2>3. ClosedTranscriptReplays
    BY DEF Init, ClosedTranscriptReplays
  <2> QED
    BY <2>1, <2>2, <2>3
<1>2. ASSUME ScriptInv, TypeOK', [Next]_vars
      PROVE  ScriptInv'
  <2> USE <1>2
  <2>a. TypeOK
    BY DEF ScriptInv
  <2>b. ASSUME UNCHANGED closed PROVE ClosedTranscriptReplays'
    BY <2>b DEF ScriptInv, ClosedTranscriptReplays
  <2>c. ASSUME UNCHANGED <<transcript, bounds>> PROVE TranscriptsRecorded'
    BY <2>c DEF ScriptInv, TranscriptsRecorded
  <2>d. ASSUME NEW t \in Tasks, NEW p, NEW label, Call(t, p, label)
        PROVE  ClosedTranscriptReplays'
    BY <2>a, <2>d DEF Call, ScriptInv, TypeOK, ClosedTranscriptReplays
  <2>1. ASSUME NEW p \in Providers,
               NEW interactions \in 1..Limits.interactions_per_operation,
               NEW bytes \in 1..Limits.candidate_bytes,
               Open(p, interactions, bytes)
        PROVE  ScriptInv'
    <3>1. ASSUME NEW q \in Providers
          PROVE  WellRecorded(transcript'[q])
                 /\ WithinBounds(transcript'[q], bounds'[q])
      <4>1. WellRecorded(transcript'[q])
        BY <2>1 DEF Open, ScriptInv, TranscriptsRecorded
      <4>2. CASE q = p
        <5>1. /\ transcript[q].bytes <= 0 /\ Len(transcript[q].interactions) <= 0
          BY <2>1, <4>2
          DEF Open, IsOpen, NoBounds, ScriptInv, TranscriptsRecorded, WithinBounds
        <5>2. /\ transcript[q].bytes \in Nat
              /\ Len(transcript[q].interactions) \in Nat
          <6>1. /\ transcript[q].bytes \in Nat
                /\ transcript[q].interactions \in Seq(Interaction)
            BY <2>a DEF TypeOK
          <6> QED
            BY <6>1
        <5>3. bounds'[q] = [bytes |-> bytes, interactions |-> interactions]
          BY <2>1, <2>a, <4>2 DEF Open, TypeOK
        <5>4. bytes \in Nat /\ interactions \in Nat
          BY LimitsPositive
        <5>5. transcript' = transcript
          BY <2>1 DEF Open
        <5> QED
          BY <4>1, <5>1, <5>2, <5>3, <5>4, <5>5 DEF WithinBounds
      <4>3. CASE q # p
        BY <2>1, <2>a, <4>1, <4>3
        DEF Open, TypeOK, ScriptInv, TranscriptsRecorded
      <4> QED
        BY <4>2, <4>3
    <3>2. UNCHANGED closed
      BY <2>1 DEF Open
    <3> QED
      BY <2>b, <3>1, <3>2 DEF ScriptInv, TranscriptsRecorded
  <2>2. ASSUME NEW p \in Providers, Expire(p)
        PROVE  ScriptInv'
    BY <2>2, <2>b, <2>c DEF Expire, ScriptInv
  <2>3. ASSUME NEW p \in Providers, Drop(p)
        PROVE  ScriptInv'
    <3>1. ASSUME NEW q \in Providers
          PROVE  WellRecorded(transcript'[q])
                 /\ WithinBounds(transcript'[q], bounds'[q])
      <4>1. CASE q = p
        <5>1. transcript'[q] = EmptyState /\ bounds'[q] = NoBounds
          BY <2>3, <2>a, <4>1 DEF Drop, TypeOK
        <5> QED
          BY <5>1, EmptyRecorded DEF WithinBounds, EmptyState, NoBounds
      <4>2. CASE q # p
        BY <2>3, <2>a, <4>2 DEF Drop, TypeOK, ScriptInv, TranscriptsRecorded
      <4> QED
        BY <4>1, <4>2
    <3>2. UNCHANGED closed
      BY <2>3 DEF Drop
    <3> QED
      BY <2>b, <3>1, <3>2 DEF ScriptInv, TranscriptsRecorded
  <2>4. ASSUME NEW t \in Tasks, NEW p \in Providers, RequireActive(t, p)
        PROVE  ScriptInv'
    BY <2>4, <2>c, <2>d DEF RequireActive, ScriptInv
  <2>5. ASSUME NEW t \in Tasks, NEW p \in Providers, ReserveClose(t, p)
        PROVE  ScriptInv'
    BY <2>5, <2>c, <2>d DEF ReserveClose, ScriptInv
  <2>6. ASSUME NEW t \in Tasks, NEW p \in Providers, Discard(t, p)
        PROVE  ScriptInv'
    BY <2>6, <2>d, EmptyKeeps DEF Discard, ClearState, ScriptInv
  <2>7. ASSUME NEW t \in Tasks, NEW i \in Interaction, Record(t, i)
        PROVE  ScriptInv'
    <3>1. PICK p \in Providers : p = target[t]
      BY <2>7, <2>a DEF Record, Return, TypeOK
    <3>2. CASE Recordable(p, i)
      <4>1. transcript' = [transcript EXCEPT ![p] = Recorded(transcript[p], i)]
        BY <2>7, <3>1, <3>2 DEF Record, Recorded
      <4>2. /\ WellRecorded(Recorded(transcript[p], i))
            /\ WithinBounds(Recorded(transcript[p], i), bounds[p])
        BY <2>a, <3>2, RecordKeeps DEF ScriptInv, TranscriptsRecorded
      <4>3. ASSUME NEW q \in Providers
            PROVE  WellRecorded(transcript'[q])
                   /\ WithinBounds(transcript'[q], bounds'[q])
        <5>1. bounds' = bounds
          BY <2>7 DEF Record
        <5>2. CASE q = p
          <6>1. transcript'[q] = Recorded(transcript[p], i)
            BY <2>a, <4>1, <5>2 DEF TypeOK
          <6> QED
            BY <4>2, <5>1, <5>2, <6>1
        <5>3. CASE q # p
          <6>1. transcript'[q] = transcript[q]
            BY <2>a, <4>1, <5>3 DEF TypeOK
          <6> QED
            BY <5>1, <6>1 DEF ScriptInv, TranscriptsRecorded
        <5> QED
          BY <5>2, <5>3
      <4>4. UNCHANGED closed
        BY <2>7 DEF Record
      <4> QED
        BY <2>b, <4>3, <4>4 DEF ScriptInv, TranscriptsRecorded
    <3>3. CASE ~Recordable(p, i)
      BY <2>7, <2>b, <2>c, <3>1, <3>3 DEF Record, ScriptInv
    <3> QED
      BY <3>2, <3>3
  <2>8. ASSUME NEW t \in Tasks, CloseExpiry(t)
        PROVE  ScriptInv'
    BY <2>8, <2>b, <2>c DEF CloseExpiry, ScriptInv
  <2>9. ASSUME NEW t \in Tasks, NEW operation \in Operations,
               CloseTake(t, operation)
        PROVE  ScriptInv'
    <3>1. PICK p \in Providers : p = target[t]
      BY <2>9, <2>a DEF CloseTake, Advance, TypeOK
    <3>2. TranscriptsRecorded'
      BY <2>9, <3>1, EmptyKeeps DEF CloseTake
    <3>3. PICK c : c = [operation |-> operation,
                        script |-> [interactions |-> transcript[p].interactions,
                                    objects |-> transcript[p].objects]]
      OBVIOUS
    <3>4. Verified(operation, transcript[p])
            => Replayable(c.operation, c.script)
      BY <2>a, <3>3, VerifiedReplays DEF ScriptInv, TranscriptsRecorded
    <3>5. closed' = [closed EXCEPT ![t] = IF Verified(operation, transcript[p])
                                          THEN c ELSE NothingClosed]
      BY <2>9, <3>1, <3>3 DEF CloseTake
    <3>6. ClosedTranscriptReplays'
      BY <2>a, <3>4, <3>5 DEF TypeOK, ScriptInv, ClosedTranscriptReplays
    <3> QED
      BY <3>2, <3>6 DEF ScriptInv
  <2>10. ASSUME NEW t \in Tasks, CloseDrop(t)
         PROVE  ScriptInv'
    BY <2>10, <2>b, <2>c DEF CloseDrop, ScriptInv
  <2>11. ASSUME NEW t \in Tasks, DiscardAfterClose(t)
         PROVE  ScriptInv'
    <3>1. target[t] \in Providers
      BY <2>11, <2>a DEF DiscardAfterClose, Advance, TypeOK
    <3> QED
      BY <2>11, <2>b, <3>1, EmptyKeeps DEF DiscardAfterClose, ClearState, ScriptInv
  <2>12. ASSUME NEW t \in Tasks, Release(t)
         PROVE  ScriptInv'
    BY <2>12, <2>b, <2>c DEF Release, ScriptInv
  <2>13. CASE UNCHANGED vars
    BY <2>13, <2>b, <2>c DEF vars, ScriptInv
  <2> QED
    BY <2>1, <2>2, <2>3, <2>4, <2>5, <2>6, <2>7, <2>8, <2>9, <2>10, <2>11,
       <2>12, <2>13
    DEF Next, Continue, Start, Environment
<1> QED
  BY <1>1, <1>2, TypeCorrect, PTL DEF Spec

\* The bytes a transcript accounts for are the bytes it holds, within the
\* bounds of its provider.
THEOREM TranscriptBytesHold == Spec => []TranscriptBytesExact
<1>1. ScriptInv => TranscriptBytesExact
  BY DEF ScriptInv, TranscriptsRecorded, WellRecorded, WithinBounds,
         TranscriptBytesExact
<1> QED
  BY <1>1, Recording, PTL

\* Whatever close hands out, a replay accepts.
THEOREM ClosedReplays == Spec => []ClosedTranscriptReplays
<1>1. ScriptInv => ClosedTranscriptReplays
  BY DEF ScriptInv
<1> QED
  BY <1>1, Recording, PTL
================================================================================

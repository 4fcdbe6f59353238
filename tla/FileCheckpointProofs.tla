-------------------------- MODULE FileCheckpointProofs --------------------------
(***************************************************************************)
(* Proofs about FileCheckpoint, for any callers, publishers, points,       *)
(* targets and limits.                                                     *)
(***************************************************************************)
EXTENDS FileCheckpoint, FiniteSetTheorems, TLAPS

--------------------------------------------------------------------------------
(* Types *)

PublishingStep == {Idle} \cup [step : {"create", "write"}, point : Points]

CallerStep ==
    {"idle", "check", "unpin", "materialize", "verify", "execute", "release", "delete"}

Lease == {[claim |-> ClaimOf(d), service |-> Service] : d \in Points}

FilesOk ==
    /\ history \in [Points -> Content \cup {Absent}]
    /\ \A d \in Points : history[d] \in {Absent, Whole(d), Torn(d), Foreign(d)}
    /\ issued \in SUBSET Points
    /\ publishing \in [Publishers -> PublishingStep]
    /\ workspace \in [Targets -> Content \cup {Absent}]

LeasesOk ==
    /\ leases \in [Reservations -> Lease \cup {Free}]
    /\ DOMAIN targets = Reservations
    /\ \A r \in Reservations : \A x \in DOMAIN targets[r] : targets[r][x] \in Targets

CallersOk ==
    /\ pc \in [Callers -> CallerStep]
    /\ evidence \in [Callers -> Content \cup {Absent}]
    /\ deleting \in [Callers -> SUBSET Targets]

TypeInv == FilesOk /\ LeasesOk /\ CallersOk

--------------------------------------------------------------------------------
(* Publishing *)

\* An artifact that is being written is incomplete, was not issued, and has
\* one writer.
WritersAlone ==
    \A w \in Publishers : publishing[w].step = "write" =>
      LET d == publishing[w].point IN
      /\ history[d] = Torn(d) /\ d \notin issued
      /\ \A v \in Publishers \ {w} :
           publishing[v].step = "write" => publishing[v].point # d

--------------------------------------------------------------------------------
(* Restored worlds *)

\* The callers' requests have leases of their own.
OwnLeases == \A a, b \in Callers : LeaseOf[a] = LeaseOf[b] => a = b

\* The targets that belong to a lease or to the end of a release.
Registered(r) == {targets[r][x] : x \in DOMAIN targets[r]}

Owned(c) == Registered(LeaseOf[c]) \cup deleting[c]

\* A target that is owned exists and has one owner.
OwnedOnce ==
    /\ \A c \in Callers : \A t \in Owned(c) : workspace[t] # Absent
    /\ \A c, e \in Callers : c # e => Owned(c) \cap Owned(e) = {}

\* What a caller has restored is registered and unchanged.
Restored ==
    \A c \in Callers : pc[c] \in {"verify", "execute"} =>
      /\ ExecutionOf[c] \in DOMAIN targets[LeaseOf[c]]
      /\ targets[LeaseOf[c]][ExecutionOf[c]] = TargetOf[c]
      /\ workspace[TargetOf[c]] = evidence[c]

\* A caller that has pinned works on an issued point; the copy it made is
\* complete, or the artifact was changed from outside before it.
CopiedIssued ==
    \A c \in Callers :
      /\ pc[c] # "idle" => PointOf[c] \in issued
      /\ pc[c] \in {"verify", "execute"} =>
           \/ evidence[c] = Whole(PointOf[c])
           \/ evidence[c] = Foreign(PointOf[c]) /\ history[PointOf[c]] = Foreign(PointOf[c])

\* A process that is gone has left nothing but files.
ClosedIsIdle ==
    ~open => \A c \in Callers : /\ pc[c] = "idle"
                                /\ deleting[c] = {}
                                /\ Registered(LeaseOf[c]) = {}

\* Targets are registered with active leases only, by callers that restored,
\* and are deleted at the end of a release only.
TargetsPlaced ==
    /\ \A r \in Reservations : leases[r] = Free => Registered(r) = {}
    /\ \A c \in Callers :
         /\ pc[c] \notin {"verify", "execute", "release"} => Registered(LeaseOf[c]) = {}
         /\ pc[c] # "delete" => deleting[c] = {}

\* NothingLeftInWorkspace in terms of what is registered.
AllPlaced ==
    open /\ ~faulty => \A t \in Targets : workspace[t] # Absent =>
      \/ \E r \in ActiveIn(leases) : t \in Registered(r)
      \/ \E c \in Callers : t \in deleting[c]

PublishInv == TypeInv /\ WritersAlone /\ IssuedPointsComplete

WorldInv == /\ OwnedOnce /\ Restored /\ CopiedIssued /\ ClosedIsIdle
            /\ TargetsPlaced /\ AllPlaced

--------------------------------------------------------------------------------
(* Type correctness *)

\* Contents are told apart by their form, and none is absent.
LEMMA Contents ==
    ASSUME NEW d \in Points
    PROVE  /\ {Whole(d), Torn(d), Foreign(d)} \subseteq Content
           /\ Absent \notin {Whole(d), Torn(d), Foreign(d)}
           /\ Whole(d) # Torn(d) /\ Whole(d) # Foreign(d) /\ Torn(d) # Foreign(d)
BY CheckpointAssumption DEF Content, Whole, Torn, Foreign

LEMMA StepTypes ==
    ASSUME NEW w \in Publishers, publishing \in [Publishers -> PublishingStep],
           publishing[w].step \in {"create", "write"}
    PROVE  /\ publishing[w].point \in Points
           /\ publishing[w] = [step |-> publishing[w].step, point |-> publishing[w].point]
BY DEF PublishingStep, Idle

\* A lease is none that is free.
LEMMA LeaseNotFree == ASSUME NEW d \in Points PROVE [claim |-> ClaimOf(d), service |-> Service] # Free
BY CheckpointAssumption, ClaimsAssumption DEF ActiveReservation

LEMMA PublisherTypes ==
    ASSUME TypeInv, NEW w \in Publishers, Publish(w)
    PROVE  TypeInv'
<1>1. LeasesOk' /\ CallersOk'
  BY DEF TypeInv, LeasesOk, CallersOk, Publish, PublishExisting, PublishNew, PublishCreate,
         PublishWrite
<1>2. ASSUME NEW d \in Points, PublishExisting(w, d) PROVE FilesOk'
  BY <1>2 DEF TypeInv, FilesOk, PublishExisting
<1>3. ASSUME NEW d \in Points, PublishNew(w, d) PROVE FilesOk'
  BY <1>3 DEF TypeInv, FilesOk, PublishNew, PublishingStep
<1>4. CASE PublishCreate(w)
  <2> DEFINE d == publishing[w].point
  <2>1. d \in Points /\ publishing[w] = [step |-> "create", point |-> d]
    BY <1>4, StepTypes DEF PublishCreate, TypeInv, FilesOk
  <2>2. Torn(d) \in Content
    BY <2>1, Contents
  <2>3. history' \in [Points -> Content \cup {Absent}]
        /\ \A e \in Points : history'[e] = history[e] \/ (e = d /\ history'[e] = Torn(d))
    <3>1. history' = [history EXCEPT ![d] = Torn(d)] \/ history' = history
      BY <1>4 DEF PublishCreate
    <3>2. history \in [Points -> Content \cup {Absent}]
      BY DEF TypeInv, FilesOk
    <3> HIDE DEF d
    <3> QED BY <2>1, <2>2, <3>1, <3>2
  <2>4. publishing' = [publishing EXCEPT ![w] = [step |-> "write", point |-> d]]
        \/ publishing' = [publishing EXCEPT ![w] = Idle]
    BY <1>4, <2>1 DEF PublishCreate
  <2>5. publishing' \in [Publishers -> PublishingStep]
    BY <2>1, <2>4 DEF TypeInv, FilesOk, PublishingStep
  <2> HIDE DEF d
  <2> QED BY <1>1, <1>4, <2>3, <2>5 DEF PublishCreate, TypeInv, FilesOk
<1>5. CASE PublishWrite(w)
  <2> DEFINE d == publishing[w].point
  <2>1. d \in Points
    BY <1>5, StepTypes DEF PublishWrite, TypeInv, FilesOk
  <2>2. Whole(d) \in Content
    BY <2>1, Contents
  <2>3. history' \in [Points -> Content \cup {Absent}]
        /\ \A e \in Points : history'[e] = history[e] \/ (e = d /\ history'[e] = Whole(d))
    <3>1. history' = [history EXCEPT ![d] = Whole(d)] \/ history' = history
      BY <1>5 DEF PublishWrite
    <3>2. history \in [Points -> Content \cup {Absent}]
      BY DEF TypeInv, FilesOk
    <3> HIDE DEF d
    <3> QED BY <2>1, <2>2, <3>1, <3>2
  <2>4. publishing' \in [Publishers -> PublishingStep] /\ issued' \in SUBSET Points
    BY <1>5, <2>1 DEF PublishWrite, TypeInv, FilesOk, PublishingStep
  <2> HIDE DEF d
  <2> QED BY <1>1, <1>5, <2>3, <2>4 DEF PublishWrite, TypeInv, FilesOk
<1> QED BY <1>1, <1>2, <1>3, <1>4, <1>5 DEF Publish, TypeInv

LEMMA CallerTypes ==
    ASSUME TypeInv, NEW c \in Callers, Pin(c) \/ Proceed(c)
    PROVE  TypeInv'
<1> DEFINE lease == LeaseOf[c]
<1> USE CheckpointAssumption DEF TypeInv, Goto
<1>1. lease \in Reservations /\ TargetOf[c] \in Targets /\ PointOf[c] \in Points
  OBVIOUS
<1>2. CASE Pin(c)
  <2>1. FilesOk'
    BY <1>2 DEF Pin, FilesOk
  <2>2. LeasesOk'
    BY <1>1, <1>2 DEF Pin, LeasesOk, Lease, NoTargets
  <2>3. CallersOk'
    BY <1>2 DEF Pin, CallersOk, CallerStep
  <2> QED BY <2>1, <2>2, <2>3
<1>3. CASE PinCheck(c) \/ Verify(c) \/ Execute(c) \/ Released(c)
  BY <1>3 DEF PinCheck, Verify, Execute, Released, FilesOk, LeasesOk, CallersOk, CallerStep
<1>4. CASE Unpin(c)
  BY <1>1, <1>4 DEF Unpin, FilesOk, LeasesOk, CallersOk, CallerStep, NoTargets
<1>5. CASE Materialize(c)
  <2>1. FilesOk'
    BY <1>1, <1>5 DEF Materialize, FilesOk
  <2>2. LeasesOk'
    BY <1>1, <1>5 DEF Materialize, LeasesOk
  <2>3. CallersOk'
    BY <1>1, <1>5 DEF Materialize, CallersOk, CallerStep, FilesOk
  <2> QED BY <2>1, <2>2, <2>3
<1>6. CASE MaterializeFails(c)
  <2>1. Torn(PointOf[c]) \in Content
    BY <1>1, Contents
  <2>2. \/ workspace' = workspace
        \/ workspace' = [workspace EXCEPT ![TargetOf[c]] = Torn(PointOf[c])]
    BY <1>6 DEF MaterializeFails
  <2>3. workspace' \in [Targets -> Content \cup {Absent}]
    BY <1>1, <2>1, <2>2 DEF FilesOk
  <2>4. FilesOk'
    BY <1>6, <2>3 DEF MaterializeFails, FilesOk
  <2> QED BY <1>6, <2>4 DEF MaterializeFails, LeasesOk, CallersOk, CallerStep
<1>7. CASE Release(c)
  <2>1. FilesOk'
    BY <1>7 DEF Release, FilesOk
  <2>2. LeasesOk'
    BY <1>1, <1>7 DEF Release, LeasesOk, NoTargets
  <2>3. {targets[lease][x] : x \in DOMAIN targets[lease]} \in SUBSET Targets
    BY <1>1 DEF LeasesOk
  <2>4. CallersOk'
    BY <1>7, <2>3 DEF Release, CallersOk, CallerStep
  <2> QED BY <2>1, <2>2, <2>4
<1>8. CASE DeleteTarget(c)
  <2>1. FilesOk'
    BY <1>8 DEF DeleteTarget, FilesOk
  <2>2. LeasesOk'
    BY <1>8 DEF DeleteTarget, LeasesOk
  <2>3. CallersOk'
    BY <1>8 DEF DeleteTarget, CallersOk, CallerStep
  <2> QED BY <2>1, <2>2, <2>3
<1> QED BY <1>2, <1>3, <1>4, <1>5, <1>6, <1>7, <1>8 DEF Proceed

LEMMA TypeStep == ASSUME TypeInv, [Next]_vars PROVE TypeInv'
<1>1. CASE Crash
  BY <1>1 DEF Crash, TypeInv, FilesOk, LeasesOk, CallersOk, PublishingStep, CallerStep, NoTargets
<1>2. ASSUME NEW removed \in SUBSET Targets, Open(removed) PROVE TypeInv'
  BY <1>2 DEF Open, TypeInv, FilesOk, LeasesOk, CallersOk
<1>3. ASSUME NEW d \in Points, Corrupt(d) PROVE TypeInv'
  <2>1. Foreign(d) \in Content
    BY Contents
  <2> QED BY <1>3, <2>1 DEF Corrupt, TypeInv, FilesOk, LeasesOk, CallersOk
<1>4. CASE UNCHANGED vars
  BY <1>4 DEF vars, TypeInv, FilesOk, LeasesOk, CallersOk
<1> QED BY <1>1, <1>2, <1>3, <1>4, PublisherTypes, CallerTypes DEF Next

--------------------------------------------------------------------------------
(* Issued points *)

LEMMA PublishStep == ASSUME PublishInv, [Next]_vars PROVE PublishInv'
<1>1. TypeInv'
  BY TypeStep DEF PublishInv
<1> USE DEF PublishInv
<1>2. ASSUME NEW w \in Publishers, NEW d \in Points, PublishExisting(w, d)
      PROVE  WritersAlone' /\ IssuedPointsComplete'
  <2>1. \A v \in Publishers : publishing[v].step = "write" => publishing[v].point # d
    BY <1>2, Contents DEF PublishExisting, WritersAlone
  <2> QED BY <1>2, <2>1 DEF PublishExisting, WritersAlone, IssuedPointsComplete
<1>3. ASSUME NEW w \in Publishers, NEW d \in Points, PublishNew(w, d)
      PROVE  WritersAlone' /\ IssuedPointsComplete'
  BY <1>3 DEF PublishNew, WritersAlone, IssuedPointsComplete, TypeInv, FilesOk
<1>4. ASSUME NEW w \in Publishers, PublishCreate(w)
      PROVE  WritersAlone' /\ IssuedPointsComplete'
  <2> DEFINE d == publishing[w].point
  <2>1. d \in Points /\ publishing[w] = [step |-> "create", point |-> d]
    BY <1>4, StepTypes DEF PublishCreate, TypeInv, FilesOk
  <2>2. issued' = issued
    BY <1>4 DEF PublishCreate
  <2>3. CASE history[d] = Absent /\ history' = [history EXCEPT ![d] = Torn(d)]
             /\ publishing' = [publishing EXCEPT ![w] = [step |-> "write", point |-> d]]
    <3> HIDE DEF d
    <3>2. d \notin issued /\ history'[d] = Torn(d)
      BY <2>1, <2>3, Contents DEF IssuedPointsComplete, TypeInv, FilesOk
    <3>3. \A e \in Points \ {d} : history'[e] = history[e]
      BY <2>1, <2>3 DEF TypeInv, FilesOk
    <3>4. \A v \in Publishers : publishing[v].step = "write" =>
            publishing[v].point # d /\ publishing[v].point \in Points
      BY <2>1, <2>3, Contents, StepTypes DEF WritersAlone, TypeInv, FilesOk
    <3>5. IssuedPointsComplete'
      BY <2>2, <3>2, <3>3 DEF IssuedPointsComplete, TypeInv, FilesOk
    <3>6. publishing'[w] = [step |-> "write", point |-> d]
          /\ \A v \in Publishers \ {w} : publishing'[v] = publishing[v]
      BY <2>3 DEF TypeInv, FilesOk
    <3>7. WritersAlone'
      <4> SUFFICES ASSUME NEW u \in Publishers, publishing'[u].step = "write"
                   PROVE  LET e == publishing'[u].point IN
                          /\ history'[e] = Torn(e) /\ e \notin issued'
                          /\ \A v \in Publishers \ {u} :
                               publishing'[v].step = "write" => publishing'[v].point # e
        BY DEF WritersAlone
      <4>1. CASE u = w
        BY <2>2, <3>2, <3>4, <3>6, <4>1
      <4>2. CASE u # w
        BY <2>2, <3>3, <3>4, <3>6, <4>2 DEF WritersAlone
      <4> QED BY <4>1, <4>2
    <3> QED BY <3>5, <3>7
  <2>4. CASE publishing' = [publishing EXCEPT ![w] = Idle] /\ history' = history
    BY <2>2, <2>4 DEF WritersAlone, IssuedPointsComplete, TypeInv, FilesOk, Idle
  <2> QED BY <1>4, <2>1, <2>3, <2>4 DEF PublishCreate
<1>5. ASSUME NEW w \in Publishers, PublishWrite(w)
      PROVE  WritersAlone' /\ IssuedPointsComplete'
  <2> DEFINE d == publishing[w].point
  <2>1. d \in Points /\ publishing[w].step = "write"
    BY <1>5, StepTypes DEF PublishWrite, TypeInv, FilesOk
  <2>2. publishing' = [publishing EXCEPT ![w] = Idle]
    BY <1>5 DEF PublishWrite
  <2>3. \/ history' = [history EXCEPT ![d] = Whole(d)] /\ issued' \in {issued, issued \cup {d}}
        \/ history' = history /\ issued' = issued
    BY <1>5 DEF PublishWrite
  <2>4. d \notin issued
    BY <2>1 DEF WritersAlone
  <2>5. \A v \in Publishers \ {w} : publishing[v].step = "write" =>
          publishing[v].point # d /\ publishing[v].point \in Points
    BY <2>1, StepTypes DEF WritersAlone, TypeInv, FilesOk
  <2> HIDE DEF d
  <2>6. IssuedPointsComplete'
    BY <2>1, <2>3, <2>4 DEF IssuedPointsComplete, TypeInv, FilesOk
  <2>7. publishing'[w] = Idle /\ \A v \in Publishers \ {w} : publishing'[v] = publishing[v]
    BY <2>2 DEF TypeInv, FilesOk
  <2>8. \A e \in Points \ {d} : history'[e] = history[e] /\ (e \in issued' <=> e \in issued)
    BY <2>1, <2>3 DEF TypeInv, FilesOk
  <2>9. WritersAlone'
    <3> SUFFICES ASSUME NEW u \in Publishers, publishing'[u].step = "write"
                 PROVE  LET e == publishing'[u].point IN
                        /\ history'[e] = Torn(e) /\ e \notin issued'
                        /\ \A v \in Publishers \ {u} :
                             publishing'[v].step = "write" => publishing'[v].point # e
      BY DEF WritersAlone
    <3>1. u # w
      BY <2>7 DEF Idle
    <3> QED BY <2>5, <2>7, <2>8, <3>1 DEF WritersAlone, Idle
  <2> QED BY <2>6, <2>9
<1>6. CASE Crash
  BY <1>1, <1>6 DEF Crash, WritersAlone, IssuedPointsComplete, Idle
<1>7. ASSUME NEW d \in Points, Corrupt(d) PROVE WritersAlone' /\ IssuedPointsComplete'
  <2>1. \A w \in Publishers : publishing[w].step = "write" => publishing[w].point # d
    BY <1>7, Contents DEF Corrupt, WritersAlone
  <2>2. history'[d] = Foreign(d) /\ \A e \in Points \ {d} : history'[e] = history[e]
    BY <1>7 DEF Corrupt, TypeInv, FilesOk
  <2>3. \A w \in Publishers : publishing[w].step = "write" => publishing[w].point \in Points
    BY StepTypes DEF TypeInv, FilesOk
  <2>4. publishing' = publishing /\ issued' = issued
    BY <1>7 DEF Corrupt
  <2>5. WritersAlone'
    BY <2>1, <2>2, <2>3, <2>4 DEF WritersAlone
  <2> QED BY <2>2, <2>4, <2>5 DEF IssuedPointsComplete, TypeInv, FilesOk
<1>8. CASE UNCHANGED <<history, issued, publishing>>
  BY <1>1, <1>8 DEF WritersAlone, IssuedPointsComplete
<1>9. ASSUME NEW c \in Callers, Pin(c) \/ Proceed(c) PROVE UNCHANGED <<history, issued, publishing>>
  BY <1>9 DEF Pin, Proceed, PinCheck, Unpin, Materialize, MaterializeFails, Verify, Execute,
              Release, DeleteTarget, Released
<1>10. ASSUME NEW removed, Open(removed) PROVE UNCHANGED <<history, issued, publishing>>
  BY <1>10 DEF Open
<1>11. CASE UNCHANGED vars
  BY <1>8, <1>11, <1>1 DEF vars
<1> QED BY <1>1, <1>2, <1>3, <1>4, <1>5, <1>6, <1>7, <1>8, <1>9, <1>10, <1>11 DEF Next, Publish

LEMMA PublishStart == Init => PublishInv
BY DEF Init, PublishInv, TypeInv, FilesOk, LeasesOk, CallersOk, PublishingStep, CallerStep,
       WritersAlone, IssuedPointsComplete, NoTargets, Idle

\* Whatever publishers overlap, fail or die, a point that publish returned has
\* all of its bytes in the history, unless they were changed from outside.
THEOREM IssuedHolds == Spec => []IssuedPointsComplete
<1> QED BY PublishStart, PublishStep, PTL DEF Spec, PublishInv

--------------------------------------------------------------------------------
(* Leases *)

Holding(c) == pc[c] \notin {"idle", "delete"}

LeaseInv == TypeInv /\ LeasesHaveOwners

\* What a caller does to the leases: a pin adds its own and holds it, a release
\* or a failed pin removes its own, and every other step leaves the leases and
\* goes on holding.
LEMMA LeaseMoves ==
    ASSUME TypeInv, NEW c \in Callers, Pin(c) \/ Proceed(c)
    PROVE  /\ \A e \in Callers \ {c} : pc'[e] = pc[e]
           /\ \/ leases' = leases /\ (Holding(c) => Holding(c)')
              \/ leases' = [leases EXCEPT ![LeaseOf[c]] = Free]
              \/ /\ leases[LeaseOf[c]] = Free /\ ReserveClaim(ClaimOf(PointOf[c]))
                 /\ leases' = [leases EXCEPT ![LeaseOf[c]] =
                                 [claim |-> ClaimOf(PointOf[c]), service |-> Service]]
                 /\ Holding(c)'
<1> USE DEF TypeInv, CallersOk, Goto, Holding
<1>1. CASE Pin(c)
  BY <1>1 DEF Pin
<1>2. CASE PinCheck(c) \/ Verify(c) \/ Execute(c) \/ Released(c) \/ Materialize(c)
           \/ MaterializeFails(c) \/ DeleteTarget(c)
  BY <1>2 DEF PinCheck, Verify, Execute, Released, Materialize, MaterializeFails, DeleteTarget
<1>3. CASE Unpin(c) \/ Release(c)
  BY <1>3 DEF Unpin, Release
<1> QED BY <1>1, <1>2, <1>3 DEF Proceed

LEMMA LeaseStep == ASSUME LeaseInv, [Next]_vars PROVE LeaseInv'
<1>1. TypeInv'
  BY TypeStep DEF LeaseInv
<1> USE DEF LeaseInv
<1>2. ASSUME NEW c \in Callers, Pin(c) \/ Proceed(c) PROVE LeasesHaveOwners'
  <2>1. LeaseOf[c] \in Reservations /\ DOMAIN leases = Reservations
    BY CheckpointAssumption DEF TypeInv, LeasesOk
  <2>2. \A e \in Callers \ {c} : pc'[e] = pc[e]
    BY <1>2, LeaseMoves
  <2>3. CASE leases' = leases /\ (Holding(c) => Holding(c)')
    BY <2>2, <2>3 DEF LeasesHaveOwners, ActiveIn, Holding
  <2>4. CASE leases' = [leases EXCEPT ![LeaseOf[c]] = Free]
    BY <2>1, <2>2, <2>4 DEF LeasesHaveOwners, ActiveIn
  <2>5. CASE Holding(c)' /\ leases' = [leases EXCEPT ![LeaseOf[c]] =
                                         [claim |-> ClaimOf(PointOf[c]), service |-> Service]]
    BY <2>1, <2>2, <2>5 DEF LeasesHaveOwners, ActiveIn, Holding
  <2> QED BY <1>2, <2>3, <2>4, <2>5, LeaseMoves
<1>3. CASE Crash
  BY <1>1, <1>3 DEF Crash, LeasesHaveOwners, ActiveIn
<1>4. CASE UNCHANGED <<leases, pc>>
  BY <1>1, <1>4 DEF LeasesHaveOwners, ActiveIn
<1>5. ASSUME NEW w \in Publishers, Publish(w) PROVE UNCHANGED <<leases, pc>>
  BY <1>5 DEF Publish, PublishExisting, PublishNew, PublishCreate, PublishWrite
<1> QED BY <1>1, <1>2, <1>3, <1>4, <1>5 DEF Next, Open, Corrupt, vars

LEMMA LeaseStart == Init => LeaseInv
BY PublishStart DEF Init, PublishInv, LeaseInv, LeasesHaveOwners, ActiveIn

\* Every lease is held by a call that has yet to release it, however calls
\* share leases, fail, or end with the process.
THEOREM OwnersHold == Spec => []LeasesHaveOwners
<1> QED BY LeaseStart, LeaseStep, PTL DEF Spec, LeaseInv

--------------------------------------------------------------------------------
(* The lease map is a reservation model *)

LEMMA SameCardinality == \A S : Model!Cardinality(S) = Cardinality(S)
BY DEF Model!Cardinality, Cardinality

\* The share of the one service is the whole capacity, and it holds every lease.
LEMMA ReserveAdmits ==
    ASSUME TypeInv, NEW d \in Points, ReserveClaim(ClaimOf(d))
    PROVE  Model!Admits(Model!ActiveIn(leases), Service, ClaimOf(d))
<1> DEFINE capacity == [leases |-> MaxLeases, claim |-> MaxClaim]
<1>1. \A r \in ActiveIn(leases) : leases[r].service = Service
  BY DEF ActiveIn, TypeInv, LeasesOk, Lease
<1>2. ActiveIn(leases) \cap HeldBy(leases, Service) = ActiveIn(leases)
  BY <1>1 DEF HeldBy
<1>3. Available(Usage(leases, ActiveIn(leases)), ClaimOf(d), capacity)
  BY DEF ReserveClaim
<1>4. /\ Model!ActiveIn(leases) = ActiveIn(leases)
      /\ Model!HeldBy(leases, Service) = HeldBy(leases, Service)
  BY DEF Model!ActiveIn, ActiveIn, Model!HeldBy, HeldBy
<1>5. \A S : Model!Usage(leases, S) = Usage(leases, S)
  <2>1. ASSUME NEW S PROVE Model!Usage(leases, S) = Usage(leases, S)
    <3>1. \A x : Model!Amounts(leases, S, x) = Amounts(leases, S, x)
      BY DEF Model!Amounts, Amounts
    <3>2. \A f : Model!UnitsOf(Reservations, MaxExact, f) = UnitsOf(Reservations, MaxExact, f)
      BY DEF Model!UnitsOf, UnitsOf
    <3>3. Model!Dimensions = Dimensions
      BY DEF Model!Dimensions, Dimensions
    <3>4. \A x : Model!Cardinality(Model!UnitsOf(Reservations, MaxExact, Model!Amounts(leases, S, x)))
                 = Cardinality(UnitsOf(Reservations, MaxExact, Amounts(leases, S, x)))
      BY <3>1, <3>2, SameCardinality
    <3> DEFINE size(x) == Cardinality(UnitsOf(Reservations, MaxExact, Amounts(leases, S, x)))
               other(x) == Model!Cardinality(Model!UnitsOf(Reservations, MaxExact,
                                                           Model!Amounts(leases, S, x)))
    <3>5. [x \in Model!Dimensions |-> other(x)] = [x \in Dimensions |-> size(x)]
      <4>1. \A x : other(x) = size(x)
        BY <3>4
      <4> HIDE DEF size, other
      <4> QED BY <3>3, <4>1
    <3>6. /\ Usage(leases, S) = [leases |-> Cardinality(S),
                                  claim |-> [x \in Dimensions |-> size(x)]]
          /\ Model!Usage(leases, S) = [leases |-> Model!Cardinality(S),
                                        claim |-> [x \in Model!Dimensions |-> other(x)]]
      BY DEF Model!Usage, Usage
    <3> HIDE DEF size, other
    <3> QED BY <3>5, <3>6, SameCardinality, Zenon
  <2> QED BY <2>1
<1>6. \A usage : Model!Available(usage, ClaimOf(d), capacity) <=>
                 Available(usage, ClaimOf(d), capacity)
  BY DEF Model!Available, Available, Model!ClaimFits, ClaimFits, Model!AddClaim, AddClaim,
         Model!Dimensions, Dimensions
<1> HIDE DEF capacity
<1>7. Model!Available(Model!Usage(leases, Model!ActiveIn(leases)), ClaimOf(d), capacity)
  BY <1>3, <1>4, <1>5, <1>6
<1>8. Model!Available(Model!Usage(leases, Model!ActiveIn(leases)
                        \cap Model!HeldBy(leases, Service)), ClaimOf(d), capacity)
  BY <1>2, <1>4, <1>7
<1> QED BY <1>7, <1>8 DEF Model!Admits, capacity

LEMMA ReservationStep == ASSUME TypeInv, [Next]_vars PROVE [Model!Next]_leases
<1>1. ASSUME NEW c \in Callers, Pin(c) \/ Proceed(c) PROVE [Model!Next]_leases
  <2> DEFINE r == LeaseOf[c]
  <2>1. r \in Reservations /\ PointOf[c] \in Points /\ Service \in Services
    BY CheckpointAssumption
  <2>2. CASE leases' = leases
    BY <2>2
  <2>3. CASE leases' = [leases EXCEPT ![r] = Free]
    <3>1. CASE leases[r] = Free
      BY <2>1, <2>3, <3>1 DEF TypeInv, LeasesOk
    <3>2. CASE leases[r] # Free
      <4>1. leases[r].service = Service
        BY <2>1, <3>2 DEF TypeInv, LeasesOk, Lease
      <4>2. Model!Release(r, Service)
        BY <2>3, <3>2, <4>1 DEF Model!Release
      <4> QED BY <2>1, <4>2 DEF Model!Next
    <3> QED BY <3>1, <3>2
  <2>4. CASE /\ leases[r] = Free /\ ReserveClaim(ClaimOf(PointOf[c]))
             /\ leases' = [leases EXCEPT ![r] =
                             [claim |-> ClaimOf(PointOf[c]), service |-> Service]]
    <3>1. Model!Reserve(r, Service, ClaimOf(PointOf[c]))
      BY <2>1, <2>4, ReserveAdmits DEF Model!Reserve
    <3> HIDE DEF r
    <3> QED BY <2>1, <3>1 DEF Model!Next
  <2> QED BY <1>1, <2>2, <2>3, <2>4, LeaseMoves
<1>2. CASE Crash
  BY <1>2 DEF Crash, Model!Next, Model!New
<1>3. ASSUME NEW w \in Publishers, Publish(w) PROVE UNCHANGED leases
  BY <1>3 DEF Publish, PublishExisting, PublishNew, PublishCreate, PublishWrite
<1> QED BY <1>1, <1>2, <1>3 DEF Next, Open, Corrupt, vars

\* Pins, releases, failed pins and the end of the process are steps of the
\* reservation model, so that what is proved of it holds of the leases.
THEOREM Refinement == Spec => ImplementsReservations
<1>1. Init => Model!Init
  BY DEF Init, Model!Init
<1>2. TypeInv /\ [Next]_vars => [Model!Next]_leases
  BY ReservationStep
<1>3. Init => TypeInv
  BY PublishStart DEF PublishInv
<1> QED BY <1>1, <1>2, <1>3, TypeStep, PTL DEF Spec, ImplementsReservations, Model!Spec

--------------------------------------------------------------------------------
(* Restored worlds *)

\* A caller's step that leaves the files and the targets: it goes from one step
\* to another that promises no more.
LEMMA PlainStep ==
    ASSUME OwnLeases, PublishInv, WorldInv, NEW c \in Callers,
           UNCHANGED <<open, history, issued, targets, leases, workspace, evidence, deleting, faulty>>,
           NEW label, pc[c] # "idle", pc' = [pc EXCEPT ![c] = label],
           label \in {"verify", "execute"} => pc[c] \in {"verify", "execute"},
           \/ label \in {"verify", "execute", "release"}
           \/ pc[c] \notin {"verify", "execute", "release"},
           label = "delete" \/ deleting[c] = {}
    PROVE  WorldInv'
<1>1. pc \in [Callers -> CallerStep]
  BY DEF PublishInv, TypeInv, CallersOk
<1>2. \A r : Registered(r)' = Registered(r)
  BY DEF Registered
<1>3. OwnedOnce'
  BY <1>2 DEF WorldInv, OwnedOnce, Owned
<1>4. Restored' /\ CopiedIssued'
  BY <1>1 DEF WorldInv, Restored, CopiedIssued
<1>5. ClosedIsIdle'
  BY <1>1, <1>2 DEF WorldInv, ClosedIsIdle
<1>6. TargetsPlaced'
  BY <1>1, <1>2 DEF WorldInv, TargetsPlaced
<1>7. AllPlaced'
  BY <1>2 DEF WorldInv, AllPlaced, ActiveIn
<1> QED BY <1>3, <1>4, <1>5, <1>6, <1>7 DEF WorldInv

LEMMA PinWorld ==
    ASSUME OwnLeases, PublishInv, WorldInv, NEW c \in Callers, Pin(c)
    PROVE  WorldInv'
<1> DEFINE lease == LeaseOf[c]
<1>1. lease \in Reservations /\ pc \in [Callers -> CallerStep] /\ DOMAIN targets = Reservations
      /\ DOMAIN leases = Reservations /\ \A e \in Callers : LeaseOf[e] \in Reservations
  BY CheckpointAssumption DEF PublishInv, TypeInv, CallersOk, LeasesOk
<1>2. /\ open /\ PointOf[c] \in issued /\ pc[c] = "idle"
      /\ UNCHANGED <<open, history, issued, workspace, evidence, deleting, faulty>>
      /\ pc' = [pc EXCEPT ![c] = "materialize"] \/ pc' = [pc EXCEPT ![c] = "check"]
  BY DEF Pin, Goto
<1>3. Registered(lease) = {}
  BY <1>1, <1>2 DEF WorldInv, TargetsPlaced
<1>4. \/ targets' = targets /\ leases' = leases
      \/ /\ targets' = [targets EXCEPT ![lease] = NoTargets]
         /\ leases[lease] = Free
         /\ leases' = [leases EXCEPT ![lease] = [claim |-> ClaimOf(PointOf[c]), service |-> Service]]
  BY DEF Pin
<1>5. \A r \in Reservations : Registered(r)' = Registered(r)
  <2> SUFFICES ASSUME NEW r \in Reservations PROVE Registered(r)' = Registered(r)
    OBVIOUS
  <2>1. CASE targets'[r] = targets[r]
    BY <2>1 DEF Registered
  <2>2. CASE r = lease /\ targets'[r] = NoTargets
    <3>1. Registered(r)' = {}
      BY <2>2 DEF Registered, NoTargets
    <3> QED BY <1>3, <2>2, <3>1
  <2> QED BY <1>1, <1>4, <2>1, <2>2
<1>6. \A e \in Callers \ {c} : targets'[LeaseOf[e]] = targets[LeaseOf[e]]
  BY <1>1, <1>4 DEF OwnLeases
<1>7. OwnedOnce'
  BY <1>1, <1>2, <1>5 DEF WorldInv, OwnedOnce, Owned
<1>8. Restored'
  BY <1>1, <1>2, <1>6 DEF WorldInv, Restored
<1>9. CopiedIssued'
  BY <1>1, <1>2 DEF WorldInv, CopiedIssued
<1>10. ClosedIsIdle'
  BY <1>2 DEF ClosedIsIdle
<1>11. TargetsPlaced'
  BY <1>1, <1>2, <1>3, <1>4, <1>5 DEF WorldInv, TargetsPlaced
<1>12. \A r \in ActiveIn(leases) : r \in ActiveIn(leases)'
  <2>1. [claim |-> ClaimOf(PointOf[c]), service |-> Service] # Free
    BY LeaseNotFree, CheckpointAssumption
  <2> QED BY <1>1, <1>4, <2>1 DEF ActiveIn
<1>13. AllPlaced'
  BY <1>2, <1>5, <1>12 DEF WorldInv, AllPlaced, ActiveIn
<1> QED BY <1>7, <1>8, <1>9, <1>10, <1>11, <1>13 DEF WorldInv

LEMMA UnpinWorld ==
    ASSUME OwnLeases, PublishInv, WorldInv, NEW c \in Callers, Unpin(c)
    PROVE  WorldInv'
<1> DEFINE lease == LeaseOf[c]
<1>1. lease \in Reservations /\ pc \in [Callers -> CallerStep] /\ DOMAIN targets = Reservations
      /\ DOMAIN leases = Reservations /\ \A e \in Callers : LeaseOf[e] \in Reservations
  BY CheckpointAssumption DEF PublishInv, TypeInv, CallersOk, LeasesOk
<1>2. /\ pc[c] = "unpin" /\ pc' = [pc EXCEPT ![c] = "idle"]
      /\ UNCHANGED <<open, history, issued, workspace, evidence, deleting, faulty>>
      /\ targets' = [targets EXCEPT ![lease] = NoTargets]
      /\ leases' = [leases EXCEPT ![lease] = Free]
  BY DEF Unpin, Goto
<1>3. Registered(lease) = {} /\ Registered(lease)' = {}
  BY <1>1, <1>2 DEF WorldInv, TargetsPlaced, Registered, NoTargets
<1>4. \A r \in Reservations : Registered(r)' = Registered(r)
  BY <1>1, <1>2, <1>3 DEF Registered
<1>5. \A e \in Callers \ {c} : targets'[LeaseOf[e]] = targets[LeaseOf[e]]
  BY <1>1, <1>2 DEF OwnLeases
<1>6. OwnedOnce'
  BY <1>1, <1>2, <1>4 DEF WorldInv, OwnedOnce, Owned
<1>7. Restored' /\ CopiedIssued'
  BY <1>1, <1>2, <1>5 DEF WorldInv, Restored, CopiedIssued
<1>8. ClosedIsIdle'
  BY <1>1, <1>2, <1>4 DEF WorldInv, ClosedIsIdle
<1>9. TargetsPlaced'
  BY <1>1, <1>2, <1>3, <1>4 DEF WorldInv, TargetsPlaced
<1>10. AllPlaced'
  <2>1. \A r \in ActiveIn(leases) \ {lease} : r \in ActiveIn(leases)'
    BY <1>1, <1>2 DEF ActiveIn
  <2> QED BY <1>2, <1>3, <1>4, <2>1 DEF WorldInv, AllPlaced, ActiveIn
<1> QED BY <1>6, <1>7, <1>8, <1>9, <1>10 DEF WorldInv

LEMMA MaterializeWorld ==
    ASSUME OwnLeases, PublishInv, WorldInv, NEW c \in Callers, Materialize(c)
    PROVE  WorldInv'
<1> DEFINE lease == LeaseOf[c]
           target == TargetOf[c]
           d == PointOf[c]
           restored == [x \in DOMAIN targets[lease] \cup {ExecutionOf[c]} |->
                          IF x = ExecutionOf[c] THEN target ELSE targets[lease][x]]
<1>1. lease \in Reservations /\ pc \in [Callers -> CallerStep] /\ DOMAIN targets = Reservations
      /\ DOMAIN leases = Reservations /\ \A e \in Callers : LeaseOf[e] \in Reservations
  BY CheckpointAssumption DEF PublishInv, TypeInv, CallersOk, LeasesOk
<1>2. /\ target \in Targets /\ DOMAIN workspace = Targets /\ DOMAIN evidence = Callers
      /\ d \in Points /\ \A e \in Callers : TargetOf[e] \in Targets
  BY CheckpointAssumption DEF PublishInv, TypeInv, CallersOk, FilesOk
<1>3. /\ pc[c] = "materialize" /\ pc' = [pc EXCEPT ![c] = "verify"]
      /\ leases[lease] # Free /\ history[d] # Absent /\ workspace[target] = Absent
      /\ UNCHANGED <<open, history, issued, leases, deleting, faulty>>
      /\ workspace' = [workspace EXCEPT ![target] = history[d]]
      /\ targets' = [targets EXCEPT ![lease] = restored]
      /\ evidence' = [evidence EXCEPT ![c] = history[d]]
  BY DEF Materialize, Materializable, Goto
<1>4. Registered(lease) = {} /\ deleting[c] = {}
  BY <1>1, <1>3 DEF WorldInv, TargetsPlaced
<1>5. Registered(lease)' = {target} /\ ExecutionOf[c] \in DOMAIN targets'[lease]
      /\ targets'[lease][ExecutionOf[c]] = target
  <2>1. targets'[lease] = restored
    <3> HIDE DEF lease, restored
    <3> QED BY <1>1, <1>3
  <2>2. \A x \in DOMAIN targets[lease] : FALSE
    BY <1>4 DEF Registered
  <2> HIDE DEF target, lease
  <2> QED BY <2>1, <2>2 DEF Registered
<1> HIDE DEF restored
<1>6. \A r \in Reservations \ {lease} : targets'[r] = targets[r] /\ Registered(r)' = Registered(r)
  BY <1>1, <1>3 DEF Registered
<1>7. workspace'[target] = history[d] /\ \A t \in Targets \ {target} : workspace'[t] = workspace[t]
  BY <1>2, <1>3
<1>8. \A e \in Callers : target \notin Owned(e)
  BY <1>3 DEF WorldInv, OwnedOnce
<1>9. Owned(c)' = {target} /\ \A e \in Callers \ {c} : Owned(e)' = Owned(e)
  BY <1>1, <1>3, <1>4, <1>5, <1>6 DEF Owned, OwnLeases
<1>10. \A e \in Callers : Owned(e) \subseteq Targets
  BY <1>1 DEF Owned, Registered, PublishInv, TypeInv, LeasesOk, CallersOk
<1>11. OwnedOnce'
  BY <1>3, <1>7, <1>8, <1>9, <1>10 DEF WorldInv, OwnedOnce
<1>12. Restored'
  <2> SUFFICES ASSUME NEW e \in Callers, pc'[e] \in {"verify", "execute"}
               PROVE  /\ ExecutionOf[e] \in DOMAIN targets'[LeaseOf[e]]
                      /\ targets'[LeaseOf[e]][ExecutionOf[e]] = TargetOf[e]
                      /\ workspace'[TargetOf[e]] = evidence'[e]
    BY DEF Restored
  <2>1. CASE e = c
    BY <1>2, <1>3, <1>5, <1>7, <2>1
  <2>2. CASE e # c
    <3>1. pc[e] \in {"verify", "execute"} /\ evidence'[e] = evidence[e]
      BY <1>1, <1>2, <1>3, <2>2
    <3>2. LeaseOf[e] # lease
      BY <2>2 DEF OwnLeases
    <3>3. /\ ExecutionOf[e] \in DOMAIN targets[LeaseOf[e]]
          /\ targets[LeaseOf[e]][ExecutionOf[e]] = TargetOf[e]
          /\ workspace[TargetOf[e]] = evidence[e]
      BY <3>1 DEF WorldInv, Restored
    <3>4. TargetOf[e] # target
      BY <1>8, <3>3 DEF Owned, Registered
    <3> QED BY <1>1, <1>2, <1>6, <1>7, <3>1, <3>2, <3>3, <3>4
  <2> QED BY <2>1, <2>2
<1>13. CopiedIssued'
  <2>1. history[d] \in {Whole(d), Foreign(d)}
    BY <1>3 DEF WorldInv, CopiedIssued, PublishInv, IssuedPointsComplete
  <2> QED BY <1>1, <1>2, <1>3, <2>1 DEF WorldInv, CopiedIssued
<1>14. ClosedIsIdle'
  BY <1>3 DEF WorldInv, ClosedIsIdle
<1>15. TargetsPlaced'
  <2>1. \A r \in Reservations : leases'[r] = Free => Registered(r)' = {}
    BY <1>3, <1>6 DEF WorldInv, TargetsPlaced
  <2>2. \A e \in Callers \ {c} : pc'[e] = pc[e] /\ Registered(LeaseOf[e])' = Registered(LeaseOf[e])
    BY <1>1, <1>3, <1>6 DEF OwnLeases
  <2>3. pc'[c] = "verify" /\ deleting' = deleting
    BY <1>1, <1>3
  <2>4. ASSUME NEW e \in Callers
        PROVE  /\ pc'[e] \notin {"verify", "execute", "release"} => Registered(LeaseOf[e])' = {}
               /\ pc'[e] # "delete" => deleting'[e] = {}
    BY <1>4, <2>2, <2>3 DEF WorldInv, TargetsPlaced
  <2> QED BY <2>1, <2>4 DEF TargetsPlaced
<1>16. AllPlaced'
  <2>1. lease \in ActiveIn(leases)' /\ target \in Registered(lease)'
    BY <1>1, <1>3, <1>5 DEF ActiveIn
  <2>2. \A r \in ActiveIn(leases) : r \in ActiveIn(leases)' /\ Registered(r) \subseteq Registered(r)'
    BY <1>3, <1>4, <1>6 DEF ActiveIn
  <2> QED BY <1>3, <1>7, <2>1, <2>2 DEF WorldInv, AllPlaced
<1> QED BY <1>11, <1>12, <1>13, <1>14, <1>15, <1>16 DEF WorldInv

\* A failed write leaves a file that nobody owns.
LEMMA MaterializeFailsWorld ==
    ASSUME OwnLeases, PublishInv, WorldInv, NEW c \in Callers, MaterializeFails(c)
    PROVE  WorldInv'
<1> DEFINE target == TargetOf[c]
<1>1. /\ pc \in [Callers -> CallerStep] /\ DOMAIN workspace = Targets
      /\ \A e \in Callers : LeaseOf[e] \in Reservations /\ TargetOf[e] \in Targets
      /\ PointOf[c] \in Points
  BY CheckpointAssumption DEF PublishInv, TypeInv, CallersOk, FilesOk
<1>2. /\ pc[c] = "materialize" /\ pc' = [pc EXCEPT ![c] = "release"]
      /\ UNCHANGED <<open, history, issued, leases, targets, evidence, deleting>>
  BY DEF MaterializeFails, Goto
<1>3. deleting[c] = {}
  BY <1>2 DEF WorldInv, TargetsPlaced
<1>4. CASE UNCHANGED <<workspace, faulty>>
  BY <1>2, <1>3, <1>4, PlainStep
<1>5. CASE /\ workspace[target] = Absent /\ faulty'
           /\ workspace' = [workspace EXCEPT ![target] = Torn(PointOf[c])]
  <2>1. \A r : Registered(r)' = Registered(r)
    BY <1>2 DEF Registered
  <2>2. \A e \in Callers : Owned(e)' = Owned(e) /\ target \notin Owned(e)
    BY <1>2, <1>5, <2>1 DEF WorldInv, OwnedOnce, Owned
  <2>3. \A t \in Targets \ {target} : workspace'[t] = workspace[t]
    BY <1>1, <1>5
  <2>4. \A e \in Callers : Owned(e) \subseteq Targets
    BY <1>1 DEF Owned, Registered, PublishInv, TypeInv, LeasesOk, CallersOk
  <2>5. OwnedOnce'
    BY <2>2, <2>3, <2>4 DEF WorldInv, OwnedOnce
  <2>6. \A e \in Callers : pc[e] \in {"verify", "execute"} => TargetOf[e] \in Owned(e)
    BY DEF WorldInv, Restored, Owned, Registered
  <2>7. Restored'
    BY <1>1, <1>2, <2>2, <2>3, <2>6 DEF WorldInv, Restored
  <2>8. CopiedIssued'
    BY <1>1, <1>2 DEF WorldInv, CopiedIssued
  <2>9. ClosedIsIdle'
    BY <1>2 DEF WorldInv, ClosedIsIdle
  <2>10. TargetsPlaced'
    BY <1>1, <1>2, <2>1 DEF WorldInv, TargetsPlaced
  <2>11. AllPlaced'
    BY <1>5 DEF AllPlaced
  <2> QED BY <2>5, <2>7, <2>8, <2>9, <2>10, <2>11 DEF WorldInv
<1> QED BY <1>4, <1>5 DEF MaterializeFails, Materializable

\* The targets of the lease pass to the caller that deletes them.
LEMMA ReleaseWorld ==
    ASSUME OwnLeases, PublishInv, WorldInv, NEW c \in Callers, Release(c)
    PROVE  WorldInv'
<1> DEFINE lease == LeaseOf[c]
<1>1. lease \in Reservations /\ pc \in [Callers -> CallerStep] /\ DOMAIN targets = Reservations
      /\ DOMAIN leases = Reservations /\ \A e \in Callers : LeaseOf[e] \in Reservations
      /\ DOMAIN evidence = Callers /\ DOMAIN deleting = Callers
  BY CheckpointAssumption DEF PublishInv, TypeInv, CallersOk, LeasesOk
<1>2. /\ pc[c] = "release"
      /\ UNCHANGED <<open, history, issued, workspace, faulty>>
      /\ targets' = [targets EXCEPT ![lease] = NoTargets]
      /\ leases' = [leases EXCEPT ![lease] = Free]
      /\ evidence' = [evidence EXCEPT ![c] = Absent]
  BY DEF Release, Goto
<1>3. deleting[c] = {}
  BY <1>2 DEF WorldInv, TargetsPlaced
<1>4. \/ /\ leases[lease] = Free /\ pc' = [pc EXCEPT ![c] = "idle"] /\ deleting' = deleting
      \/ pc' = [pc EXCEPT ![c] = "delete"] /\ deleting' = [deleting EXCEPT ![c] = Registered(lease)]
  BY DEF Release, Goto, Registered
<1>5. deleting'[c] = Registered(lease) /\ \A e \in Callers \ {c} : deleting'[e] = deleting[e]
  BY <1>1, <1>3, <1>4 DEF WorldInv, TargetsPlaced
<1>6. pc'[c] \in {"idle", "delete"} /\ \A e \in Callers \ {c} : pc'[e] = pc[e]
  BY <1>1, <1>4
<1>7. pc'[c] # "delete" => deleting'[c] = {}
  BY <1>1, <1>3, <1>4
<1>8. Registered(lease)' = {}
  BY <1>1, <1>2 DEF Registered, NoTargets
<1>9. \A r \in Reservations \ {lease} : targets'[r] = targets[r] /\ Registered(r)' = Registered(r)
                                        /\ leases'[r] = leases[r]
  BY <1>1, <1>2 DEF Registered
<1>10. \A e \in Callers \ {c} : LeaseOf[e] # lease /\ evidence'[e] = evidence[e]
  BY <1>1, <1>2 DEF OwnLeases
<1>11. \A e \in Callers : Owned(e)' = Owned(e)
  BY <1>1, <1>3, <1>5, <1>8, <1>9, <1>10 DEF Owned
<1>12. OwnedOnce'
  BY <1>2, <1>11 DEF WorldInv, OwnedOnce
<1>13. Restored' /\ CopiedIssued'
  BY <1>1, <1>2, <1>6, <1>9, <1>10 DEF WorldInv, Restored, CopiedIssued
<1>14. ClosedIsIdle'
  BY <1>2 DEF WorldInv, ClosedIsIdle
<1>15. TargetsPlaced'
  <2>1. \A r \in Reservations : leases'[r] = Free => Registered(r)' = {}
    BY <1>8, <1>9 DEF WorldInv, TargetsPlaced
  <2>2. ASSUME NEW e \in Callers
        PROVE  /\ pc'[e] \notin {"verify", "execute", "release"} => Registered(LeaseOf[e])' = {}
               /\ pc'[e] # "delete" => deleting'[e] = {}
    BY <1>1, <1>5, <1>6, <1>7, <1>8, <1>9, <1>10 DEF WorldInv, TargetsPlaced
  <2> QED BY <2>1, <2>2 DEF TargetsPlaced
<1>16. AllPlaced'
  <2>1. \A r \in ActiveIn(leases) \ {lease} : r \in ActiveIn(leases)'
    BY <1>9 DEF ActiveIn
  <2>2. \A e \in Callers : deleting[e] \subseteq deleting'[e]
    BY <1>3, <1>5
  <2> HIDE DEF lease
  <2> QED BY <1>1, <1>2, <1>5, <1>9, <2>1, <2>2 DEF WorldInv, AllPlaced, ActiveIn
<1> QED BY <1>12, <1>13, <1>14, <1>15, <1>16 DEF WorldInv

\* A caller deletes what it owns, which exists and is nobody else's.
LEMMA DeleteWorld ==
    ASSUME OwnLeases, PublishInv, WorldInv, NEW c \in Callers, DeleteTarget(c)
    PROVE  WorldInv'
<1>1. /\ pc \in [Callers -> CallerStep] /\ DOMAIN workspace = Targets
      /\ deleting \in [Callers -> SUBSET Targets]
      /\ \A e \in Callers : LeaseOf[e] \in Reservations /\ TargetOf[e] \in Targets
  BY CheckpointAssumption DEF PublishInv, TypeInv, CallersOk, FilesOk
<1>2. /\ pc[c] = "delete"
      /\ UNCHANGED <<open, history, issued, leases, targets, evidence>>
  BY DEF DeleteTarget, Goto
<1>3. PICK target \in deleting[c] :
         \/ /\ workspace' = [workspace EXCEPT ![target] = Absent]
            /\ deleting' = [deleting EXCEPT ![c] = deleting[c] \ {target}]
            /\ pc' = pc /\ faulty' = faulty
         \/ /\ pc' = [pc EXCEPT ![c] = "idle"]
            /\ deleting' = [deleting EXCEPT ![c] = {}]
            /\ faulty' = (faulty \/ workspace[target] # Absent)
            /\ workspace' = workspace
  BY DEF DeleteTarget, Goto
<1>4. target \in Targets /\ target \in Owned(c) /\ workspace[target] # Absent
  BY <1>1 DEF Owned, WorldInv, OwnedOnce
<1>5. \A r : Registered(r)' = Registered(r)
  BY <1>2 DEF Registered
<1>6. Registered(LeaseOf[c]) = {}
  BY <1>2 DEF WorldInv, TargetsPlaced
<1>7. \A e \in Callers : pc[e] \in {"verify", "execute"} => TargetOf[e] \in Owned(e) /\ e # c
  BY <1>2 DEF WorldInv, Restored, Owned, Registered
<1>8. CASE /\ workspace' = [workspace EXCEPT ![target] = Absent]
           /\ deleting' = [deleting EXCEPT ![c] = deleting[c] \ {target}]
           /\ pc' = pc /\ faulty' = faulty
  <2>1. workspace'[target] = Absent /\ \A t \in Targets \ {target} : workspace'[t] = workspace[t]
    BY <1>1, <1>4, <1>8
  <2>2. deleting'[c] = deleting[c] \ {target} /\ \A e \in Callers \ {c} : deleting'[e] = deleting[e]
    BY <1>1, <1>8
  <2>3. Owned(c)' = Owned(c) \ {target} /\ \A e \in Callers \ {c} : Owned(e)' = Owned(e)
    BY <1>5, <1>6, <2>2 DEF Owned
  <2>4. \A e \in Callers \ {c} : target \notin Owned(e)
    BY <1>4 DEF WorldInv, OwnedOnce
  <2>5. \A e \in Callers : Owned(e) \subseteq Targets
    BY <1>1 DEF Owned, Registered, PublishInv, TypeInv, LeasesOk, CallersOk
  <2>6. OwnedOnce'
    BY <2>1, <2>3, <2>4, <2>5 DEF WorldInv, OwnedOnce
  <2>7. Restored' /\ CopiedIssued'
    BY <1>1, <1>2, <1>7, <1>8, <2>1, <2>4 DEF WorldInv, Restored, CopiedIssued
  <2>8. ClosedIsIdle'
    BY <1>2 DEF WorldInv, ClosedIsIdle
  <2>9. TargetsPlaced'
    BY <1>2, <1>5, <1>8, <2>2 DEF WorldInv, TargetsPlaced
  <2>10. AllPlaced'
    BY <1>2, <1>5, <1>8, <2>1, <2>2 DEF WorldInv, AllPlaced, ActiveIn
  <2> QED BY <2>6, <2>7, <2>8, <2>9, <2>10 DEF WorldInv
<1>9. CASE /\ pc' = [pc EXCEPT ![c] = "idle"]
           /\ deleting' = [deleting EXCEPT ![c] = {}]
           /\ faulty' = (faulty \/ workspace[target] # Absent)
           /\ workspace' = workspace
  <2>1. deleting'[c] = {} /\ \A e \in Callers \ {c} : deleting'[e] = deleting[e]
    BY <1>1, <1>9
  <2>2. pc'[c] = "idle" /\ \A e \in Callers \ {c} : pc'[e] = pc[e]
    BY <1>1, <1>9
  <2>3. \A e \in Callers : Owned(e)' \subseteq Owned(e)
    BY <1>5, <2>1 DEF Owned
  <2>4. OwnedOnce'
    BY <1>9, <2>3 DEF WorldInv, OwnedOnce
  <2>5. Restored' /\ CopiedIssued'
    BY <1>2, <1>9, <2>2 DEF WorldInv, Restored, CopiedIssued
  <2>6. ClosedIsIdle'
    BY <1>2 DEF WorldInv, ClosedIsIdle
  <2>7. TargetsPlaced'
    BY <1>2, <1>5, <1>6, <2>1, <2>2 DEF WorldInv, TargetsPlaced
  <2>8. faulty'
    BY <1>4, <1>9
  <2> QED BY <2>4, <2>5, <2>6, <2>7, <2>8 DEF WorldInv, AllPlaced
<1> QED BY <1>3, <1>8, <1>9

LEMMA WorldStep ==
    ASSUME OwnLeases, PublishInv, WorldInv, [Next]_vars
    PROVE  WorldInv'
<1>1. ASSUME NEW c \in Callers, PinCheck(c) \/ Verify(c) \/ Execute(c) \/ Released(c)
      PROVE  WorldInv'
  <2> USE DEF Goto
  <2>1. pc[c] # "delete" => deleting[c] = {}
    BY DEF WorldInv, TargetsPlaced
  <2>2. CASE PinCheck(c)
    BY <2>1, <2>2, PlainStep DEF PinCheck
  <2>3. CASE Verify(c)
    BY <2>1, <2>3, PlainStep DEF Verify
  <2>4. CASE Execute(c)
    BY <2>1, <2>4, PlainStep DEF Execute
  <2>5. CASE Released(c)
    BY <2>5, PlainStep DEF Released
  <2> QED BY <1>1, <2>2, <2>3, <2>4, <2>5
<1>2. ASSUME NEW w \in Publishers, Publish(w) PROVE WorldInv'
  <2>1. UNCHANGED <<open, leases, targets, workspace, pc, evidence, deleting, faulty>>
    BY <1>2 DEF Publish, PublishExisting, PublishNew, PublishCreate, PublishWrite
  <2>2. issued \subseteq issued'
    BY <1>2 DEF Publish, PublishExisting, PublishNew, PublishCreate, PublishWrite
  <2>3. \A d \in Points : history[d] = Foreign(d) => history'[d] = history[d]
    <3> SUFFICES ASSUME NEW d \in Points, history[d] = Foreign(d) PROVE history'[d] = history[d]
      OBVIOUS
    <3> DEFINE e == publishing[w].point
    <3>1. CASE history' = history
      BY <3>1
    <3>2. CASE /\ history' = [history EXCEPT ![e] = Torn(e)] \/ history' = [history EXCEPT ![e] = Whole(e)]
               /\ e \in Points /\ history[e] \in {Absent, Torn(e)}
      <4> HIDE DEF e
      <4>1. e # d
        BY <3>2, Contents
      <4> QED BY <3>2, <4>1 DEF PublishInv, TypeInv, FilesOk
    <3>3. publishing[w].step = "write" => e \in Points /\ history[e] = Torn(e)
      BY StepTypes DEF PublishInv, TypeInv, FilesOk, WritersAlone
    <3>4. publishing[w].step = "create" => e \in Points
      BY StepTypes DEF PublishInv, TypeInv, FilesOk
    <3> QED BY <1>2, <3>1, <3>2, <3>3, <3>4 DEF Publish, PublishExisting, PublishNew, PublishCreate,
                                                PublishWrite
  <2>4. \A r : Registered(r)' = Registered(r)
    BY <2>1 DEF Registered
  <2>5. CopiedIssued'
    BY <2>1, <2>2, <2>3, CheckpointAssumption DEF WorldInv, CopiedIssued
  <2>6. OwnedOnce' /\ Restored' /\ ClosedIsIdle' /\ TargetsPlaced' /\ AllPlaced'
    BY <2>1, <2>4 DEF WorldInv, OwnedOnce, Owned, Restored, ClosedIsIdle, TargetsPlaced, AllPlaced,
                      ActiveIn
  <2> QED BY <2>5, <2>6 DEF WorldInv
<1>3. CASE Crash
  <2>1. /\ ~open' /\ UNCHANGED <<history, issued, workspace>>
        /\ \A c \in Callers : pc'[c] = "idle" /\ deleting'[c] = {}
        /\ \A r \in Reservations : targets'[r] = NoTargets
    BY <1>3 DEF Crash
  <2>2. \A r \in Reservations : Registered(r)' = {}
    BY <2>1 DEF Registered, NoTargets
  <2>3. \A c \in Callers : Owned(c)' = {} /\ LeaseOf[c] \in Reservations
    BY <2>1, <2>2, CheckpointAssumption DEF Owned
  <2> QED BY <2>1, <2>2, <2>3 DEF WorldInv, OwnedOnce, Restored, CopiedIssued, ClosedIsIdle,
                                  TargetsPlaced, AllPlaced
<1>4. ASSUME NEW removed \in SUBSET Targets, Open(removed) PROVE WorldInv'
  <2>1. ~open /\ UNCHANGED <<history, issued, leases, targets, pc, evidence, deleting>>
        /\ open' = (removed = Targets)
        /\ workspace' = [t \in Targets |-> IF t \in removed THEN Absent ELSE workspace[t]]
    BY <1>4 DEF Open
  <2>2. \A r : Registered(r)' = Registered(r)
    BY <2>1 DEF Registered
  <2>3. \A c \in Callers : pc[c] = "idle" /\ Owned(c) = {} /\ Owned(c)' = {}
    BY <2>1, <2>2 DEF WorldInv, ClosedIsIdle, Owned
  <2>4. AllPlaced'
    BY <2>1 DEF AllPlaced
  <2>5. TargetsPlaced' /\ ClosedIsIdle'
    BY <2>1, <2>2 DEF WorldInv, TargetsPlaced, ClosedIsIdle
  <2> QED BY <2>1, <2>3, <2>4, <2>5 DEF WorldInv, OwnedOnce, Restored, CopiedIssued
<1>5. ASSUME NEW d \in Points, Corrupt(d) PROVE WorldInv'
  <2>1. /\ UNCHANGED <<open, issued, leases, targets, workspace, pc, evidence, deleting, faulty>>
        /\ history'[d] = Foreign(d) /\ \A e \in Points \ {d} : history'[e] = history[e]
    BY <1>5 DEF Corrupt, PublishInv, TypeInv, FilesOk
  <2>2. \A r : Registered(r)' = Registered(r)
    BY <2>1 DEF Registered
  <2>3. CopiedIssued'
    BY <2>1, CheckpointAssumption DEF WorldInv, CopiedIssued
  <2> QED BY <2>1, <2>2, <2>3 DEF WorldInv, OwnedOnce, Owned, Restored, ClosedIsIdle, TargetsPlaced,
                                  AllPlaced, ActiveIn
<1>6. CASE UNCHANGED vars
  <2>1. \A r : Registered(r)' = Registered(r)
    BY <1>6 DEF vars, Registered
  <2> QED BY <1>6, <2>1 DEF vars, WorldInv, OwnedOnce, Owned, Restored, CopiedIssued, ClosedIsIdle,
                            TargetsPlaced, AllPlaced, ActiveIn
<1> QED
  BY <1>1, <1>2, <1>3, <1>4, <1>5, <1>6, PinWorld, UnpinWorld, MaterializeWorld,
     MaterializeFailsWorld, ReleaseWorld, DeleteWorld DEF Next, Proceed

LEMMA WorldStart == Init => WorldInv
<1> SUFFICES ASSUME Init PROVE WorldInv
  OBVIOUS
<1>1. \A r \in Reservations : Registered(r) = {}
  BY DEF Init, Registered, NoTargets
<1>2. \A c \in Callers : LeaseOf[c] \in Reservations /\ Owned(c) = {}
  BY <1>1, CheckpointAssumption DEF Init, Owned
<1> QED BY <1>1, <1>2 DEF Init, WorldInv, OwnedOnce, Restored, CopiedIssued, ClosedIsIdle,
                          TargetsPlaced, AllPlaced

LEMMA WorldHolds == ASSUME OwnLeases PROVE Spec => [](PublishInv /\ WorldInv)
<1>1. PublishInv /\ WorldInv /\ [Next]_vars => WorldInv'
  BY WorldStep
<1> QED BY <1>1, PublishStart, WorldStart, PublishStep, PTL DEF Spec

\* While a caller executes, its world is in place and is what it verified,
\* whatever other callers, publishers and processes do, as long as requests
\* do not share a lease.
THEOREM WorldPresentHolds == ASSUME OwnLeases PROVE Spec => []ExecutingWorldPresent
<1>1. PublishInv /\ WorldInv => ExecutingWorldPresent
  BY Contents, CheckpointAssumption DEF WorldInv, Restored, CopiedIssued, ExecutingWorldPresent
<1> QED BY <1>1, WorldHolds, PTL

\* A caller executes in the bytes that were published unless the artifact was
\* changed from outside.
THEOREM PublishedBytesHold == ASSUME OwnLeases PROVE Spec => []ExecutesPublishedBytes
<1>1. PublishInv /\ WorldInv => ExecutesPublishedBytes
  BY DEF WorldInv, Restored, CopiedIssued, ExecutesPublishedBytes
<1> QED BY <1>1, WorldHolds, PTL

\* As long as no file operation fails, no file is left in the workspace that
\* is not the target of a lease or about to be deleted.
THEOREM WorkspaceHolds == ASSUME OwnLeases PROVE Spec => []NothingLeftInWorkspace
<1>1. WorldInv => NothingLeftInWorkspace
  BY DEF WorldInv, AllPlaced, Registered, NothingLeftInWorkspace
<1> QED BY <1>1, WorldHolds, PTL

================================================================================

----------------------------- MODULE DependencyPool -----------------------------
(***************************************************************************)
(* The capture side of crates/reproit-backend/src/dependency.rs: a pool of *)
(* shared quota (DependencyTranscriptPool), the transcript providers that  *)
(* it opens (HttpTranscriptProvider) and the tasks that call record, close *)
(* and discard on them.                                                    *)
(*                                                                         *)
(* A provider keeps its reservation and its transcript under two mutexes   *)
(* and the pool keeps its counters under a third.  No method holds the     *)
(* first two together, so each method is a sequence of critical sections   *)
(* and every section is an action here.  Releasing a reservation takes     *)
(* the pool mutex inside the reservation mutex and is one action.          *)
(***************************************************************************)
EXTENDS DependencyTranscript

CONSTANTS
    Providers,    \* provider instances that may be open at one time
    NoProvider,   \* the target of a task that is not in a call
    Tasks,        \* threads that share the providers
    Limits        \* DependencyLimits of the pool

\* DependencyLimits::validate: every limit is positive and none exceeds the
\* V1 cap.  The cursor lifetime only decides when Expire may happen.
ValidLimits(limits) ==
    /\ limits \in LimitsRecord
    /\ \A f \in DOMAIN limits : limits[f] <= V1Limits[f]

ASSUME PoolAssumption ==
    /\ IsFiniteSet(Providers)
    /\ IsFiniteSet(Tasks)
    /\ NoProvider \notin Providers
    /\ ValidLimits(Limits)

VARIABLES
    pool,         \* DependencyPoolState
    bounds,       \* maximum_bytes and maximum_interactions of each provider
    reservation,  \* bytes of each provider's reservation, NoReservation when taken
    expired,      \* created_at is further back than cursor_lifetime_ms
    transcript,   \* TranscriptState of each provider
    pc,           \* the critical section each task enters next
    target,       \* the provider each task's call is on
    closed        \* what the close a task called last handed out

vars == <<pool, bounds, reservation, expired, transcript, pc, target, closed>>

NoReservation == 0
NoBounds == [bytes |-> 0, interactions |-> 0]
EmptyState == [bytes |-> 0, interactions |-> <<>>, objects |-> {}]
NothingClosed == [operation |-> NoOperation, script |-> EmptyTranscript]

IsOpen(p) == bounds[p] # NoBounds
Opened == {p \in Providers : IsOpen(p)}

--------------------------------------------------------------------------------
(***************************************************************************)
(* The pool.                                                               *)
(***************************************************************************)

\* validate_bounds and the pool's own limits, before the lock is taken.
BoundsAdmitted(interactions, bytes) ==
    /\ interactions \in 1..V1Limits.interactions_per_operation
    /\ bytes \in 1..V1Limits.candidate_bytes
    /\ interactions <= Limits.interactions_per_operation
    /\ bytes <= Limits.candidate_bytes

\* Mutation of PoolAdmits: a full pool admits one more session.
PoolAdmitsOneMore(bytes) ==
    /\ pool.sessions <= Limits.sessions
    /\ pool.active_operations <= Limits.active_operations
    /\ pool.memory_bytes <= Limits.memory_bytes
    /\ pool.durable_bytes <= Limits.durable_bytes

\* Mutation of PoolAdmits: the memory is not looked at.
PoolAdmitsWithoutMemory(bytes) ==
    /\ pool.sessions < Limits.sessions
    /\ pool.active_operations < Limits.active_operations
    /\ pool.durable_bytes + bytes <= Limits.durable_bytes

\* The check under the pool lock: one more session of so many bytes fits.
PoolAdmits(bytes) ==
    /\ pool.sessions < Limits.sessions
    /\ pool.active_operations < Limits.active_operations
    /\ pool.memory_bytes + bytes <= Limits.memory_bytes
    /\ pool.durable_bytes + bytes <= Limits.durable_bytes

\* Mutation of PoolWith: the durable bytes go the wrong way.
PoolWithWrongSign(bytes) ==
    [active_close_requests |-> pool.active_close_requests,
     active_operations |-> pool.active_operations + 1,
     durable_bytes |-> pool.durable_bytes - bytes,
     memory_bytes |-> pool.memory_bytes + bytes,
     sessions |-> pool.sessions + 1]

\* What open adds to the counters.
PoolWith(bytes) ==
    [active_close_requests |-> pool.active_close_requests,
     active_operations |-> pool.active_operations + 1,
     durable_bytes |-> pool.durable_bytes + bytes,
     memory_bytes |-> pool.memory_bytes + bytes,
     sessions |-> pool.sessions + 1]

SaturatingSub(a, b) == IF a >= b THEN a - b ELSE 0

\* Drop of DependencyOperationReservation.
PoolWithout(bytes) ==
    [active_close_requests |-> pool.active_close_requests,
     active_operations |-> SaturatingSub(pool.active_operations, 1),
     durable_bytes |-> SaturatingSub(pool.durable_bytes, bytes),
     memory_bytes |-> SaturatingSub(pool.memory_bytes, bytes),
     sessions |-> SaturatingSub(pool.sessions, 1)]

\* Mutation of ReleaseOperation: the reservation is dropped but not taken, so
\* that the next release drops it again.
ReleaseWithoutTake(p) ==
    /\ UNCHANGED reservation
    /\ pool' = IF reservation[p] = NoReservation
               THEN pool ELSE PoolWithout(reservation[p])

\* release_operation: take the reservation, if there is one, and drop it.
ReleaseOperation(p) ==
    /\ reservation' = [reservation EXCEPT ![p] = NoReservation]
    /\ pool' = IF reservation[p] = NoReservation
               THEN pool ELSE PoolWithout(reservation[p])

\* Drop of DependencyCloseReservation.
DropClose ==
    pool' = [pool EXCEPT !.active_close_requests = SaturatingSub(@, 1)]

\* DependencyTranscriptPool::open; a refused open changes nothing.
Open(p, interactions, bytes) ==
    /\ ~IsOpen(p)
    /\ BoundsAdmitted(interactions, bytes)
    /\ PoolAdmits(bytes)
    /\ pool' = PoolWith(bytes)
    /\ bounds' = [bounds EXCEPT ![p] = [bytes |-> bytes,
                                        interactions |-> interactions]]
    /\ reservation' = [reservation EXCEPT ![p] = bytes]
    /\ UNCHANGED <<expired, transcript, pc, target, closed>>

\* The clock passes created_at + cursor_lifetime_ms.
Expire(p) ==
    /\ IsOpen(p) /\ ~expired[p]
    /\ expired' = [expired EXCEPT ![p] = TRUE]
    /\ UNCHANGED <<pool, bounds, reservation, transcript, pc, target, closed>>

\* The last owner drops the provider.  A method borrows it, so no task is
\* inside a call on it.
Drop(p) ==
    /\ IsOpen(p)
    /\ \A t \in Tasks : target[t] # p
    /\ ReleaseOperation(p)
    /\ bounds' = [bounds EXCEPT ![p] = NoBounds]
    /\ expired' = [expired EXCEPT ![p] = FALSE]
    /\ transcript' = [transcript EXCEPT ![p] = EmptyState]
    /\ UNCHANGED <<pc, target, closed>>

--------------------------------------------------------------------------------
(***************************************************************************)
(* The methods of a provider, one action for each critical section.        *)
(***************************************************************************)

\* A task calls a method of p; the section after the first one is label.
Call(t, p, label) ==
    /\ pc[t] = "idle" /\ IsOpen(p)
    /\ pc' = [pc EXCEPT ![t] = label]
    /\ target' = [target EXCEPT ![t] = p]
    /\ closed' = [closed EXCEPT ![t] = NothingClosed]

\* A task leaves the section from of its call; the next one is label.
Advance(t, from, label) ==
    /\ pc[t] = from
    /\ pc' = [pc EXCEPT ![t] = label]
    /\ UNCHANGED target

\* A task leaves the last section of its call.
Return(t, from) ==
    /\ pc[t] = from
    /\ pc' = [pc EXCEPT ![t] = "idle"]
    /\ target' = [target EXCEPT ![t] = NoProvider]

\* require_active, with which record starts: without a live reservation the
\* call releases what is left of it and fails.
RequireActive(t, p) ==
    /\ Call(t, p, IF reservation[p] = NoReservation \/ expired[p]
                  THEN "release" ELSE "push")
    /\ UNCHANGED <<pool, bounds, reservation, expired, transcript>>

\* The bytes of request and response together.
AddedBytes(i) == ObjectBytes[i.request] + ObjectBytes[i.response]

\* Mutation of Recordable: one object may be request and response.
RecordableSameObject(p, i) ==
    LET state == transcript[p] IN
    /\ ObjectBytes[i.request] <= V1Limits.object_bytes
    /\ ObjectBytes[i.response] <= V1Limits.object_bytes
    /\ Len(state.interactions) < bounds[p].interactions
    /\ state.bytes + AddedBytes(i) <= bounds[p].bytes
    /\ i.sequence = Len(state.interactions)
    /\ i.intact
    /\ i.request \notin state.objects
    /\ i.response \notin state.objects

\* What record checks of an interaction before it stores it.
Recordable(p, i) ==
    LET state == transcript[p] IN
    /\ ObjectBytes[i.request] <= V1Limits.object_bytes
    /\ ObjectBytes[i.response] <= V1Limits.object_bytes
    /\ Len(state.interactions) < bounds[p].interactions
    /\ state.bytes + AddedBytes(i) <= bounds[p].bytes
    /\ i.sequence = Len(state.interactions)
    /\ i.intact
    /\ i.request # i.response
    /\ i.request \notin state.objects
    /\ i.response \notin state.objects

\* The rest of record, under the transcript lock.  The arguments of the call
\* are not looked at before, so they are chosen here.
Record(t, i) ==
    LET p == target[t]
        state == transcript[p] IN
    /\ Return(t, "push")
    /\ transcript' =
         IF Recordable(p, i)
         THEN [transcript EXCEPT ![p] =
                 [bytes |-> state.bytes + AddedBytes(i),
                  interactions |-> Append(state.interactions, i),
                  objects |-> state.objects \cup {i.request, i.response}]]
         ELSE transcript
    /\ UNCHANGED <<pool, bounds, reservation, expired, closed>>

\* close asks for a close slot first; without one it discards the recording.
ReserveClose(t, p) ==
    /\ IF pool.active_close_requests >= Limits.concurrent_close_requests
       THEN Call(t, p, "discard") /\ UNCHANGED pool
       ELSE /\ Call(t, p, "expiry")
            /\ pool' = [pool EXCEPT !.active_close_requests = @ + 1]
    /\ UNCHANGED <<bounds, reservation, expired, transcript>>

\* Mutation of CloseExpiry: the close slot is not given back.
CloseExpiryKeepsSlot(t) ==
    /\ pc[t] = "expiry"
    /\ Advance(t, "expiry", IF expired[target[t]] THEN "discard" ELSE "take")
    /\ UNCHANGED <<pool, bounds, reservation, expired, transcript, closed>>

\* An expired recording gives the close slot back and is discarded.
CloseExpiry(t) ==
    /\ pc[t] = "expiry"
    /\ IF expired[target[t]]
       THEN Advance(t, "expiry", "discard") /\ DropClose
       ELSE Advance(t, "expiry", "take") /\ UNCHANGED pool
    /\ UNCHANGED <<bounds, reservation, expired, transcript, closed>>

\* close verifies and empties the transcript in one section.
CloseTake(t, operation) ==
    LET state == transcript[target[t]] IN
    /\ Advance(t, "take", "drop_close")
    /\ closed' = [closed EXCEPT ![t] =
                    IF Verified(operation, state)
                    THEN [operation |-> operation,
                          script |-> [interactions |-> state.interactions,
                                      objects |-> state.objects]]
                    ELSE NothingClosed]
    /\ transcript' = [transcript EXCEPT ![target[t]] = EmptyState]
    /\ UNCHANGED <<pool, bounds, reservation, expired>>

CloseDrop(t) ==
    /\ Advance(t, "drop_close", "release")
    /\ DropClose
    /\ UNCHANGED <<bounds, reservation, expired, transcript, closed>>

\* Mutation of ClearState: the byte count survives.
ClearStateKeepsBytes(p) ==
    /\ transcript' = [transcript EXCEPT ![p] =
         [bytes |-> transcript[p].bytes, interactions |-> <<>>, objects |-> {}]]
    /\ UNCHANGED <<pool, bounds, reservation, expired>>

\* discard, called by a task or by a refused close, clears the transcript.
ClearState(p) ==
    /\ transcript' = [transcript EXCEPT ![p] = EmptyState]
    /\ UNCHANGED <<pool, bounds, reservation, expired>>

Discard(t, p) == Call(t, p, "release") /\ ClearState(p)

\* Mutation of DiscardAfterClose: the reservation is not released.
DiscardAfterCloseOnly(t) ==
    /\ Return(t, "discard")
    /\ ClearState(target[t])
    /\ UNCHANGED closed

DiscardAfterClose(t) ==
    /\ Advance(t, "discard", "release")
    /\ ClearState(target[t])
    /\ UNCHANGED closed

\* The last section of close, of discard and of a refused record.
Release(t) ==
    /\ Return(t, "release")
    /\ ReleaseOperation(target[t])
    /\ UNCHANGED <<bounds, expired, transcript, closed>>

--------------------------------------------------------------------------------
Init ==
    /\ pool = [active_close_requests |-> 0, active_operations |-> 0,
               durable_bytes |-> 0, memory_bytes |-> 0, sessions |-> 0]
    /\ bounds = [p \in Providers |-> NoBounds]
    /\ reservation = [p \in Providers |-> NoReservation]
    /\ expired = [p \in Providers |-> FALSE]
    /\ transcript = [p \in Providers |-> EmptyState]
    /\ pc = [t \in Tasks |-> "idle"]
    /\ target = [t \in Tasks |-> NoProvider]
    /\ closed = [t \in Tasks |-> NothingClosed]

\* The sections a call still has to run once it has started.
Continue(t) ==
    \/ \E i \in Interaction : Record(t, i)
    \/ CloseExpiry(t)
    \/ \E operation \in Operations : CloseTake(t, operation)
    \/ CloseDrop(t)
    \/ DiscardAfterClose(t)
    \/ Release(t)

Start(t, p) == RequireActive(t, p) \/ ReserveClose(t, p) \/ Discard(t, p)

Environment(p) ==
    \/ \E interactions \in 1..Limits.interactions_per_operation,
          bytes \in 1..Limits.candidate_bytes : Open(p, interactions, bytes)
    \/ Expire(p)
    \/ Drop(p)

Next ==
    \/ \E t \in Tasks : Continue(t)
    \/ \E t \in Tasks, p \in Providers : Start(t, p)
    \/ \E p \in Providers : Environment(p)

Spec == Init /\ [][Next]_vars

\* Every method returns: no section waits for anything but a mutex, and the
\* mutexes are held for the length of a section only.
Fairness == \A t \in Tasks : WF_vars(Continue(t))

FairSpec == Spec /\ Fairness

--------------------------------------------------------------------------------
(***************************************************************************)
(* Properties.                                                             *)
(***************************************************************************)

Labels ==
    {"idle", "push", "expiry", "take", "drop_close", "discard", "release"}

PoolState ==
    [active_close_requests : Nat, active_operations : Nat,
     durable_bytes : Nat, memory_bytes : Nat, sessions : Nat]

\* Types of the pool, of the providers and of the calls in progress: an open
\* provider has positive bounds, and a task has a target while it is in a call.
TypeOK ==
    /\ pool \in PoolState
    /\ bounds \in [Providers -> [bytes : 0..Limits.candidate_bytes,
                                 interactions :
                                   0..Limits.interactions_per_operation]]
    /\ reservation \in [Providers -> 0..Limits.candidate_bytes]
    /\ expired \in [Providers -> BOOLEAN]
    /\ transcript \in [Providers -> [bytes : Nat,
                                     interactions : Seq(Interaction),
                                     objects : SUBSET Objects]]
    /\ pc \in [Tasks -> Labels]
    /\ target \in [Tasks -> Providers \cup {NoProvider}]
    /\ closed \in [Tasks -> [operation : Operations \cup {NoOperation},
                             script : Transcript]]
    /\ \A t \in Tasks : pc[t] = "idle" <=> target[t] = NoProvider

Smaller(a, b) == IF a <= b THEN a ELSE b

Ledger == INSTANCE QuotaLedger
    WITH Holders <- Providers,
         MaxHolders <- Smaller(Limits.sessions, Limits.active_operations),
         MaxUnits <- Smaller(Limits.memory_bytes, Limits.durable_bytes),
         MaxGrant <- Limits.candidate_bytes,
         granted <- reservation

\* What the counters of the pool count.
LiveReservations == Ledger!Holding(reservation)
ReservedUnits == Ledger!Units(reservation)
ClosingTasks == {t \in Tasks : pc[t] \in {"expiry", "take", "drop_close"}}

\* The counters never drift from what is reserved, however calls on one
\* provider overlap and on every path that ends a reservation (close,
\* discard, expiry, drop): nothing is released twice or left behind.
PoolAccounting ==
    /\ pool.sessions = Cardinality(LiveReservations)
    /\ pool.active_operations = Cardinality(LiveReservations)
    /\ pool.memory_bytes = Cardinality(ReservedUnits)
    /\ pool.durable_bytes = Cardinality(ReservedUnits)
    /\ pool.active_close_requests = Cardinality(ClosingTasks)

\* The reservations that are alive and the closes in flight respect every
\* limit of the pool.
QuotaRespected ==
    /\ Cardinality(LiveReservations) <= Limits.sessions
    /\ Cardinality(LiveReservations) <= Limits.active_operations
    /\ Cardinality(ReservedUnits) <= Limits.memory_bytes
    /\ Cardinality(ReservedUnits) <= Limits.durable_bytes
    /\ Cardinality(ClosingTasks) <= Limits.concurrent_close_requests

\* The pool of counters implements the ledger of grants: open decides as if
\* it looked at the reservations that are alive.
ImplementsLedger == Ledger!LedgerSpec

\* The bytes a transcript accounts for are the bytes of the objects it holds,
\* and they stay within the provider's bounds although record checks and adds
\* in one section and close and discard reset the fields in others.
TranscriptBytesExact ==
    \A p \in Providers :
        /\ transcript[p].bytes = TotalBytes(transcript[p].objects)
        /\ transcript[p].bytes <= bounds[p].bytes
        /\ Len(transcript[p].interactions) <= bounds[p].interactions

\* Whatever close hands out, HttpTranscriptReplay::new accepts: record keeps
\* what validate checks beyond the verification that close runs.
ClosedTranscriptReplays ==
    \A t \in Tasks : closed[t] # NothingClosed =>
        Replayable(closed[t].operation, closed[t].script)

\* A provider that holds captured bytes holds their reservation.
CapturedBytesReserved ==
    \A p \in Providers :
        transcript[p].bytes > 0 => reservation[p] # NoReservation

\* Every close ends with the reservation of its provider released, also when
\* it is refused a slot, meets an expired recording or fails to verify.
CloseReleasesReservation ==
    \A p \in Providers :
        (\E t \in Tasks : target[t] = p /\ pc[t] \in {"expiry", "take", "drop_close", "discard"})
            ~> reservation[p] = NoReservation

\* The close slots are never all taken for ever.
CloseSlotsFree ==
    pool.active_close_requests = Limits.concurrent_close_requests
        ~> pool.active_close_requests < Limits.concurrent_close_requests
================================================================================

----------------------------- MODULE FileCheckpoint -----------------------------
(***************************************************************************)
(* The file checkpoint provider of crates/reproit-backend/src/checkpoint.rs*)
(* and the callers of with_verified_world (world.rs) that execute in the   *)
(* worlds it restores.                                                     *)
(*                                                                         *)
(* The provider keeps artifacts in a history directory, leases in a map    *)
(* under one mutex, and restored copies in a workspace directory.  The     *)
(* artifacts and the copies are read, written and deleted partly outside   *)
(* the mutex, every file operation may fail, and the process may die       *)
(* between any two steps: the directories survive it, the leases do not.   *)
(***************************************************************************)
EXTENDS ProviderClaims

CONSTANTS
    Callers,       \* threads inside with_verified_world
    Publishers,    \* threads that publish checkpoints
    Points,        \* published bytes, by their digest
    Executions,    \* execution identities
    Targets,       \* paths in the workspace
    Absent,        \* no file
    Size,          \* how many bytes each point has
    MaxLeases,     \* maximum_active_leases
    MaxClaim,      \* maximum_resource_claim
    Service,       \* service_id
    LeaseOf,       \* the lease identity of each caller's request
    PointOf,       \* the recoverable point of the request
    ExecutionOf,   \* the execution of the request
    TargetOf       \* the target_reference of the request

\* The bytes of a file: those of a point, a part of them, or others.
Content == [of : Points, form : {"whole", "torn", "foreign"}]
Whole(d) == [of |-> d, form |-> "whole"]
Torn(d) == [of |-> d, form |-> "torn"]
Foreign(d) == [of |-> d, form |-> "foreign"]

\* The claim that publish puts into a point.
ClaimOf(d) ==
    [x \in Dimensions |-> IF x = "objects" THEN 1 ELSE Size[d]]

\* FileCheckpointConfig::validate; maximum_checkpoint_bytes is one of the
\* bounds in Claim.
ValidConfig == MaxLeases \in 1..1024 /\ MaxClaim \in Claim

\* A lease identity is a digest that includes the point's, so it determines
\* the point.
ASSUME CheckpointAssumption ==
    /\ IsFiniteSet(Callers) /\ IsFiniteSet(Points)
    /\ Absent \notin Content
    /\ Services = {Service}
    /\ ValidConfig
    /\ \A d \in Points : ClaimOf(d) \in Claim
    /\ LeaseOf \in [Callers -> Reservations]
    /\ PointOf \in [Callers -> Points]
    /\ ExecutionOf \in [Callers -> Executions]
    /\ TargetOf \in [Callers -> Targets]
    /\ \A a, b \in Callers :
         LeaseOf[a] = LeaseOf[b] => PointOf[a] = PointOf[b]

VARIABLES
    open,        \* a process has the provider open and holds its lock file
    history,     \* the artifact of each point in the history directory
    issued,      \* the points that publish has returned
    publishing,  \* the step of each publisher and the point it publishes
    leases,      \* claim and service of each active lease
    targets,     \* execution_targets of each active lease
    workspace,   \* the content of each path in the workspace
    pc,          \* the step each caller takes next
    evidence,    \* evidence_digest of each caller's materialization
    deleting,    \* the targets that a caller's release has yet to delete
    faulty       \* a file operation in the workspace failed since the open

vars == <<open, history, issued, publishing, leases, targets, workspace, pc,
          evidence, deleting, faulty>>

Idle == [step |-> "idle"]
NoTargets == [x \in {} |-> Absent]

--------------------------------------------------------------------------------
(***************************************************************************)
(* publish.  The artifact exists before it is complete, and two publishers *)
(* may find it absent at the same time.                                    *)
(***************************************************************************)

\* Mutation of PublishExisting: the bytes that are there are not compared.
PublishExistingUnread(w, d) ==
    /\ open /\ publishing[w] = Idle
    /\ history[d] # Absent
    /\ issued' = issued \cup {d}
    /\ UNCHANGED <<open, history, publishing, leases, targets, workspace, pc,
                   evidence, deleting, faulty>>

\* publish finds the artifact.  If its bytes are the same ones the point is
\* returned, otherwise the call fails.
PublishExisting(w, d) ==
    /\ open /\ publishing[w] = Idle
    /\ history[d] = Whole(d)
    /\ issued' = issued \cup {d}
    /\ UNCHANGED <<open, history, publishing, leases, targets, workspace, pc,
                   evidence, deleting, faulty>>

PublishNew(w, d) ==
    /\ open /\ publishing[w] = Idle
    /\ history[d] = Absent
    /\ publishing' = [publishing EXCEPT ![w] = [step |-> "create", point |-> d]]
    /\ UNCHANGED <<open, history, issued, leases, targets, workspace, pc,
                   evidence, deleting, faulty>>

\* create_new fails if another publisher was first, or for want of space.
PublishCreate(w) ==
    LET d == publishing[w].point IN
    /\ publishing[w].step = "create"
    /\ \/ /\ history[d] = Absent
          /\ history' = [history EXCEPT ![d] = Torn(d)]
          /\ publishing' = [publishing EXCEPT ![w].step = "write"]
       \/ /\ publishing' = [publishing EXCEPT ![w] = Idle]
          /\ UNCHANGED history
    /\ UNCHANGED <<open, issued, leases, targets, workspace, pc, evidence,
                   deleting, faulty>>

\* write_all and sync_all.  The point is returned if both succeed; a failure
\* leaves what has been written, which may be all of it.
PublishWrite(w) ==
    LET d == publishing[w].point IN
    /\ publishing[w].step = "write"
    /\ \/ /\ history' = [history EXCEPT ![d] = Whole(d)]
          /\ issued' \in {issued, issued \cup {d}}
       \/ UNCHANGED <<history, issued>>
    /\ publishing' = [publishing EXCEPT ![w] = Idle]
    /\ UNCHANGED <<open, leases, targets, workspace, pc, evidence, deleting,
                   faulty>>

--------------------------------------------------------------------------------
(***************************************************************************)
(* with_verified_world: pin, materialize, verify, execute, release.        *)
(***************************************************************************)

\* Caller c leaves the step from for the step label.
Goto(c, from, label) ==
    /\ pc[c] = from
    /\ pc' = [pc EXCEPT ![c] = label]

\* Mutation of ReserveClaim: only the leases are counted.
ReserveLeasesOnly(claim) == Cardinality(ActiveIn(leases)) < MaxLeases

\* reserve_claim: a model with the one service, that has all of the capacity.
\* The leases that are active can be reserved again in it (RebuildAdmits of
\* ReservationModel), so only the new one may be refused.
ReserveClaim(claim) ==
    Available(Usage(leases, ActiveIn(leases)), claim,
              [leases |-> MaxLeases, claim |-> MaxClaim])

\* pin, up to the end of its first critical section.  A lease that is active
\* already is returned as it is; a refused one changes nothing.
Pin(c) ==
    LET lease == LeaseOf[c]
        claim == ClaimOf(PointOf[c]) IN
    /\ open /\ PointOf[c] \in issued
    /\ IF leases[lease] # Free
       THEN Goto(c, "idle", "materialize") /\ UNCHANGED <<leases, targets>>
       ELSE /\ ReserveClaim(claim)
            /\ Goto(c, "idle", "check")
            /\ leases' = [leases EXCEPT ![lease] =
                            [claim |-> claim, service |-> Service]]
            /\ targets' = [targets EXCEPT ![lease] = NoTargets]
    /\ UNCHANGED <<open, history, issued, publishing, workspace, evidence,
                   deleting, faulty>>

\* Mutation of PinCheck: a mismatch waits for the artifact to come right.
PinCheckWaits(c) ==
    /\ history[PointOf[c]] = Whole(PointOf[c])
    /\ Goto(c, "check", "materialize")
    /\ UNCHANGED <<open, history, issued, publishing, leases, targets,
                   workspace, evidence, deleting, faulty>>

\* pin reads the artifact without the lock, and compares its digest.
PinCheck(c) ==
    /\ \/ history[PointOf[c]] = Whole(PointOf[c])
          /\ Goto(c, "check", "materialize")
       \/ Goto(c, "check", "unpin")
    /\ UNCHANGED <<open, history, issued, publishing, leases, targets,
                   workspace, evidence, deleting, faulty>>

\* The second critical section of pin takes an unverified lease out again.
Unpin(c) ==
    /\ Goto(c, "unpin", "idle")
    /\ leases' = [leases EXCEPT ![LeaseOf[c]] = Free]
    /\ targets' = [targets EXCEPT ![LeaseOf[c]] = NoTargets]
    /\ UNCHANGED <<open, history, issued, publishing, workspace, evidence,
                   deleting, faulty>>

\* Mutation of Materializable: an existing target is overwritten.
MaterializableOver(c) ==
    /\ leases[LeaseOf[c]] # Free
    /\ ExecutionOf[c] \notin DOMAIN targets[LeaseOf[c]]
    /\ history[PointOf[c]] # Absent

\* What materialize checks before it creates the target.
Materializable(c) ==
    /\ leases[LeaseOf[c]] # Free
    /\ ExecutionOf[c] \notin DOMAIN targets[LeaseOf[c]]
    /\ history[PointOf[c]] # Absent
    /\ workspace[TargetOf[c]] = Absent

\* Mutation of Materialize: an incomplete write goes unnoticed, and the
\* evidence is the digest of what was written.
MaterializeUnchecked(c) ==
    LET lease == LeaseOf[c]
        target == TargetOf[c] IN
    /\ Goto(c, "materialize", "verify")
    /\ Materializable(c)
    /\ \E copy \in {history[PointOf[c]], Torn(PointOf[c])} :
         /\ workspace' = [workspace EXCEPT ![target] = copy]
         /\ evidence' = [evidence EXCEPT ![c] = copy]
    /\ targets' = [targets EXCEPT ![lease] =
                     [x \in DOMAIN @ \cup {ExecutionOf[c]} |->
                        IF x = ExecutionOf[c] THEN target ELSE @[x]]]
    /\ UNCHANGED <<open, history, issued, publishing, leases, deleting, faulty>>

\* materialize copies the artifact, whatever it holds now, to a new file.
Materialize(c) ==
    LET lease == LeaseOf[c]
        target == TargetOf[c]
        copy == history[PointOf[c]] IN
    /\ Goto(c, "materialize", "verify")
    /\ Materializable(c)
    /\ workspace' = [workspace EXCEPT ![target] = copy]
    /\ targets' = [targets EXCEPT ![lease] =
                     [x \in DOMAIN @ \cup {ExecutionOf[c]} |->
                        IF x = ExecutionOf[c] THEN target ELSE @[x]]]
    /\ evidence' = [evidence EXCEPT ![c] = copy]
    /\ UNCHANGED <<open, history, issued, publishing, leases, deleting, faulty>>

\* Mutation of MaterializeFails: the failure is returned without a release.
MaterializeFailsEarly(c) ==
    /\ Goto(c, "materialize", "idle")
    /\ UNCHANGED <<open, history, issued, publishing, leases, targets,
                   workspace, evidence, deleting, faulty>>

\* It fails for a target outside the workspace, without the lease, for a
\* second use of an execution, without the artifact or space for its bytes,
\* or at the existing target; a write that fails leaves a file that the lease
\* does not know of.
MaterializeFails(c) ==
    /\ Goto(c, "materialize", "release")
    /\ \/ UNCHANGED <<workspace, faulty>>
       \/ /\ Materializable(c)
          /\ workspace' = [workspace EXCEPT ![TargetOf[c]] = Torn(PointOf[c])]
          /\ faulty' = TRUE
    /\ UNCHANGED <<open, history, issued, publishing, leases, targets,
                   evidence, deleting>>

\* verify reads the file that the lease has for the execution.
Verify(c) ==
    LET known == targets[LeaseOf[c]] IN
    /\ \/ /\ leases[LeaseOf[c]] # Free
          /\ ExecutionOf[c] \in DOMAIN known
          /\ workspace[known[ExecutionOf[c]]] = evidence[c]
          /\ Goto(c, "verify", "execute")
       \/ Goto(c, "verify", "release")
    /\ UNCHANGED <<open, history, issued, publishing, leases, targets,
                   workspace, evidence, deleting, faulty>>

\* The execution ends, well or not.
Execute(c) ==
    /\ Goto(c, "execute", "release")
    /\ UNCHANGED <<open, history, issued, publishing, leases, targets,
                   workspace, evidence, deleting, faulty>>

\* release takes the lease out of the map and then deletes its targets
\* without the lock; without the lease it fails.
Release(c) ==
    LET lease == LeaseOf[c] IN
    /\ IF leases[lease] = Free
       THEN Goto(c, "release", "idle") /\ UNCHANGED deleting
       ELSE /\ Goto(c, "release", "delete")
            /\ deleting' = [deleting EXCEPT ![c] =
                 {targets[lease][x] : x \in DOMAIN targets[lease]}]
    /\ leases' = [leases EXCEPT ![lease] = Free]
    /\ targets' = [targets EXCEPT ![lease] = NoTargets]
    /\ evidence' = [evidence EXCEPT ![c] = Absent]
    /\ UNCHANGED <<open, history, issued, publishing, workspace, faulty>>

\* The first target that cannot be deleted ends the release.
DeleteTarget(c) ==
    /\ pc[c] = "delete"
    /\ \E target \in deleting[c] :
         \/ /\ workspace[target] # Absent
            /\ workspace' = [workspace EXCEPT ![target] = Absent]
            /\ deleting' = [deleting EXCEPT ![c] = @ \ {target}]
            /\ UNCHANGED <<pc, faulty>>
         \/ /\ Goto(c, "delete", "idle")
            /\ deleting' = [deleting EXCEPT ![c] = {}]
            /\ faulty' = (faulty \/ workspace[target] # Absent)
            /\ UNCHANGED workspace
    /\ UNCHANGED <<open, history, issued, publishing, leases, targets, evidence>>

Released(c) ==
    /\ deleting[c] = {}
    /\ Goto(c, "delete", "idle")
    /\ UNCHANGED <<open, history, issued, publishing, leases, targets,
                   workspace, evidence, deleting, faulty>>

--------------------------------------------------------------------------------
(***************************************************************************)
(* The process and the disk.                                               *)
(***************************************************************************)

\* The process ends, or drops the provider, at any moment.
Crash ==
    /\ open
    /\ open' = FALSE
    /\ publishing' = [w \in Publishers |-> Idle]
    /\ leases' = [r \in Reservations |-> Free]
    /\ targets' = [r \in Reservations |-> NoTargets]
    /\ pc' = [c \in Callers |-> "idle"]
    /\ evidence' = [c \in Callers |-> Absent]
    /\ deleting' = [c \in Callers |-> {}]
    /\ UNCHANGED <<history, issued, workspace, faulty>>

\* Mutation of Open: the workspace is left as it is.
OpenWithoutClearing(removed) ==
    /\ ~open
    /\ open' = TRUE
    /\ faulty' = FALSE
    /\ UNCHANGED <<history, issued, publishing, leases, targets, workspace, pc,
                   evidence, deleting>>

\* open takes the lock file, which a live process would hold, and clears the
\* workspace.  If a file cannot be removed the open fails halfway.
Open(removed) ==
    /\ ~open
    /\ workspace' = [t \in Targets |->
                       IF t \in removed THEN Absent ELSE workspace[t]]
    /\ open' = (removed = Targets)
    /\ faulty' = (removed # Targets)
    /\ UNCHANGED <<history, issued, publishing, leases, targets, pc, evidence,
                   deleting>>

\* Something outside the provider changes the bytes of an artifact.
Corrupt(d) ==
    /\ history[d] = Whole(d)
    /\ history' = [history EXCEPT ![d] = Foreign(d)]
    /\ UNCHANGED <<open, issued, publishing, leases, targets, workspace, pc,
                   evidence, deleting, faulty>>

--------------------------------------------------------------------------------
Init ==
    /\ open = TRUE
    /\ history = [d \in Points |-> Absent]
    /\ issued = {}
    /\ publishing = [w \in Publishers |-> Idle]
    /\ leases = [r \in Reservations |-> Free]
    /\ targets = [r \in Reservations |-> NoTargets]
    /\ workspace = [t \in Targets |-> Absent]
    /\ pc = [c \in Callers |-> "idle"]
    /\ evidence = [c \in Callers |-> Absent]
    /\ deleting = [c \in Callers |-> {}]
    /\ faulty = FALSE

\* What a caller does once its pin has started.
Proceed(c) ==
    \/ PinCheck(c) \/ Unpin(c)
    \/ Materialize(c) \/ MaterializeFails(c)
    \/ Verify(c) \/ Execute(c)
    \/ Release(c) \/ DeleteTarget(c) \/ Released(c)

Publish(w) ==
    \/ \E d \in Points : PublishExisting(w, d) \/ PublishNew(w, d)
    \/ PublishCreate(w) \/ PublishWrite(w)

Next ==
    \/ \E c \in Callers : Pin(c) \/ Proceed(c)
    \/ \E w \in Publishers : Publish(w)
    \/ Crash
    \/ \E removed \in SUBSET Targets : Open(removed)
    \/ \E d \in Points : Corrupt(d)

Spec == Init /\ [][Next]_vars

\* A caller that has started goes on to its end: the provider waits for its
\* mutex only, and the execution is bounded by the caller's own limits.
FairSpec == Spec /\ \A c \in Callers : WF_vars(Proceed(c))

--------------------------------------------------------------------------------
(***************************************************************************)
(* Properties.                                                             *)
(***************************************************************************)

\* A point that publish has returned can be restored from its artifact: a
\* crash or a failed write in the middle of publish, or a second publisher of
\* the same bytes, never leads to a point whose artifact is incomplete.
IssuedPointsComplete ==
    \A d \in issued : history[d] \in {Whole(d), Foreign(d)}

\* While a caller executes, its world is in place and is what it verified:
\* no other caller removes or replaces it.
ExecutingWorldPresent ==
    \A c \in Callers : pc[c] = "execute" =>
        /\ evidence[c] # Absent
        /\ workspace[TargetOf[c]] = evidence[c]

\* A caller executes in the bytes that were published unless the artifact has
\* been changed from outside.
ExecutesPublishedBytes ==
    \A c \in Callers :
        pc[c] = "execute" /\ history[PointOf[c]] # Foreign(PointOf[c])
            => workspace[TargetOf[c]] = Whole(PointOf[c])

\* Every lease belongs to a call that will release it: no failure after the
\* pin leaves a lease behind.
LeasesHaveOwners ==
    \A r \in ActiveIn(leases) : \E c \in Callers :
        LeaseOf[c] = r /\ pc[c] \notin {"idle", "delete"}

\* As long as no file operation fails, a file in the workspace is the target
\* of an active lease or is about to be deleted, or was left by a crash and is
\* gone before the provider is open again.
NothingLeftInWorkspace ==
    open /\ ~faulty => \A t \in Targets : workspace[t] # Absent =>
        \/ \E r \in ActiveIn(leases) : \E x \in DOMAIN targets[r] :
             targets[r][x] = t
        \/ \E c \in Callers : t \in deleting[c]

Model == INSTANCE ReservationModel
    WITH Claims <- {ClaimOf(d) : d \in Points},
         Environment <- [leases |-> MaxLeases, claim |-> MaxClaim],
         Shares <- [s \in {Service} |->
                      [leases |-> MaxLeases, claim |-> MaxClaim]],
         active <- leases

\* The lease map is a reservation model in which the one service has all of
\* the capacity: pins and releases, crashes included, are reserve and release.
ImplementsReservations == Model!Spec

\* A lease that is active is given back at some time, whatever fails in the
\* call that pinned it, so that the quota can be used again.
LeaseReturned ==
    \A r \in Reservations : leases[r] # Free ~> leases[r] = Free
================================================================================

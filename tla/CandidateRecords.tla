--------------------------- MODULE CandidateRecords ---------------------------
(***************************************************************************)
(* A candidate: the numbered event records of one failed operation         *)
(* (crates/reproit-core/src/failure.rs), and verify_automatic_capture, the *)
(* check of one whose observations an observation fence vouches for        *)
(* (crates/reproit-core/src/model/observation_fence.rs).                   *)
(***************************************************************************)
EXTENDS WorldClosures, FailureIdentities

CONSTANTS
    MaxRecords,       \* records of a candidate (1025)
    MaxObservations,  \* observations of an operation (1024)
    MaxInputs,        \* inputs of an operation (1024)
    NoContext,        \* an operation outside a fuzz campaign
    NoOwner,          \* an observation that no adapter owned
    NoParent,         \* an observation without a causal parent
    ALL               \* AutomaticObservationClass::ALL, in boundary order

AutomaticObservationClass == Range(ALL)

boundary_id(class) == CHOOSE i \in DOMAIN ALL : ALL[i] = class

closure_class(class) ==
    CASE class \in {"clock", "randomness"}           -> "clock-random-identity"
      [] class = "database"                          -> "state-service"
      [] class \in {"environment", "filesystem"}     -> "filesystem-environment"
      [] class \in {"outbound-http", "queue"}        -> "network-ipc-signal"

closure_mechanism(class) ==
    IF class \in {"environment", "filesystem"} THEN "immutable-object" ELSE "exact-transcript"

\* validate_ownership: one adapter for each class, in boundary order, an
\* adapter with one identity, and one receipt for each.
ValidOwnership(ownership, closure) ==
    /\ Len(ownership) >= Len(ALL)
    /\ StrictOrder(ownership)
    /\ \A i \in DOMAIN ownership :
         /\ ownership[i].boundary = boundary_id(ownership[i].class)
         /\ \A j \in DOMAIN ownership :
              ownership[i].adapter = ownership[j].adapter =>
                  ownership[i].identity = ownership[j].identity
    /\ {ownership[i].class : i \in DOMAIN ownership} = AutomaticObservationClass
    /\ Len(closure.receipts) = Len(ownership)
    /\ \A i \in DOMAIN ownership :
         /\ ownership[i].boundary = closure.receipts[i].boundary
         /\ closure_class(ownership[i].class) = closure.receipts[i].class

\* NativeObservationFenceReceipt::validate.
ValidFence(fence) ==
    /\ fence.count <= MaxObservations /\ fence.unowned <= MaxObservations
    /\ ValidClosure(fence.closure)
    /\ ValidOwnership(fence.ownership, fence.closure)

--------------------------------------------------------------------------------
(* Candidate::validate *)

Places(records, kind) == {i \in DOMAIN records : records[i].kind = kind}

OfKind(records, kind) == Selected(records, Places(records, kind))

\* validate_record: the payload of one record against its candidate.
ValidRecord(candidate, record) ==
    CASE record.kind = "begin"       -> TRUE
      [] record.kind = "input"       -> record.body.index < MaxInputs /\ record.body.intact
      [] record.kind = "dependency"  -> TRUE
      [] record.kind = "failure"     -> /\ ValidIdentity(record.body.identity)
                                        /\ ValidReference(record.body.reference)
                                        /\ record.body.reference = candidate.failure
                                        /\ record.body.identity = candidate.failure.identity
      [] record.kind = "observation" -> record.body.sequence < MaxObservations
      [] record.kind = "fence"       -> ValidFence(record.body)
      [] record.kind = "terminal"    -> /\ record.body.complete
                                        /\ record.body.count = Len(candidate.records) - 1

\* The campaign of the candidate is the one its begin record names.
ContextMatches(candidate) ==
    LET begin == Head(candidate.records).body IN
    /\ begin.campaign = candidate.context
    /\ candidate.context # NoContext =>
         /\ candidate.context.project = candidate.deployment.project
         /\ candidate.source # "production"

ValidCandidate(candidate) ==
    LET records == candidate.records IN
    /\ candidate.mode = candidate.deployment.mode
    /\ ValidReference(candidate.failure)
    /\ Len(records) \in 2..MaxRecords
    /\ \A i \in DOMAIN records : records[i].sequence = i - 1
    /\ Head(records).kind = "begin"
    /\ Last(records).kind = "terminal"
    /\ Len(OfKind(records, "failure")) = 1
    /\ Len(OfKind(records, "terminal")) = 1
    /\ \A i \in DOMAIN records : ValidRecord(candidate, records[i])
    /\ ContextMatches(candidate)

--------------------------------------------------------------------------------
(* verify_automatic_capture *)

\* The place of the first fence.
FenceIndex(records) == Nth(Places(records, "fence"), 1)

\* A mutant: the records after the fence are taken to be none.
FencePlacedBeforeTerminal(records) ==
    /\ Len(OfKind(records, "fence")) = 1
    /\ FenceIndex(records) + 1 = Len(records)

\* automatic_records: one fence, then the failure, then the terminal record.
FencePlaced(records) ==
    /\ Len(OfKind(records, "fence")) = 1
    /\ FenceIndex(records) + 2 = Len(records)
    /\ records[FenceIndex(records) + 1].kind = "failure"

\* The observations before the fence.
Observations(records) ==
    LET before == OfKind(SubSeq(records, 1, FenceIndex(records) - 1), "observation") IN
    [i \in DOMAIN before |-> before[i].body]

\* validate_scope.
ScopeHolds(candidate, observations) ==
    \A i \in DOMAIN observations :
      /\ observations[i].sequence = i - 1
      /\ observations[i].operation = candidate.operation
      /\ \/ observations[i].parent = NoParent
         \/ observations[i].parent \in Head(candidate.records).body.parents

\* validate_observation_owners.
Owned(observation, ownership) ==
    \E i \in DOMAIN ownership :
      /\ ownership[i].adapter = observation.owner
      /\ ownership[i].boundary = observation.boundary
      /\ ownership[i].class = observation.class

\* How many observations no adapter owned.
Unowned(observations) ==
    Cardinality({i \in DOMAIN observations : observations[i].owner = NoOwner})

\* A mutant: what the fence dropped is not looked at.
FenceBindsDespiteDrops(candidate, observations, fence) ==
    /\ ValidFence(fence)
    /\ fence.deployment = candidate.deployment
    /\ fence.operation = candidate.operation
    /\ fence.count = Len(observations)
    /\ fence.digest = observations
    /\ \A i \in DOMAIN observations : Owned(observations[i], fence.ownership)

\* validate_fence_binding.
FenceBinds(candidate, observations, fence) ==
    /\ ValidFence(fence)
    /\ fence.subject = candidate.deployment.subject
    /\ fence.deployment = candidate.deployment
    /\ fence.operation = candidate.operation
    /\ fence.count = Len(observations)
    /\ fence.unowned = Unowned(observations)
    /\ fence.digest = observations
    /\ ~fence.overflowed /\ fence.dropped = 0 /\ fence.unowned = 0
    /\ \A i \in DOMAIN observations : Owned(observations[i], fence.ownership)

\* A fence carries the key that signed it; its signature is over its fields,
\* so a signed fence is as its signer made it.
AutomaticCaptureVerified(candidate, rules, signer) ==
    /\ ValidCandidate(candidate)
    /\ FencePlaced(candidate.records)
    /\ LET observations == Observations(candidate.records)
           fence == candidate.records[FenceIndex(candidate.records)].body
       IN
       /\ ScopeHolds(candidate, observations)
       /\ FenceBinds(candidate, observations, fence)
       /\ ClosesWorld(rules, fence.closure)
       /\ fence.signer = signer

================================================================================

---------------------------- MODULE ManagedGrants ----------------------------
(***************************************************************************)
(* The signed documents of the managed path and what is verified of them:  *)
(* the capture grant (crates/reproit-core/src/model/managed_candidate.rs), *)
(* the workload key, worker and key grants (crates/reproit-cloud-api), and *)
(* the executor capability evidence and the execution grant                *)
(* (crates/reproit-core/src/model/executor.rs).                            *)
(*                                                                         *)
(* A document carries the key that signed it; its signature is over its    *)
(* fields, so a signed document is as its signer made it.  Its digest is   *)
(* the document.  A scope is an organization, a project and a service.  A  *)
(* time is a number, and a document holds from one time until before       *)
(* another.  A capability is a pair of its category and its name.          *)
(***************************************************************************)
EXTENDS Integers, FiniteSets

CONSTANTS
    MaxGrantCapabilities,  \* capabilities of a grant or of evidence (64)
    MinRequired,           \* capabilities a replay must require (4)
    MaxExecutionGrant      \* MAX_EXECUTION_GRANT_SECONDS

ASSUME GrantAssumption == {MaxGrantCapabilities, MinRequired, MaxExecutionGrant} \subseteq Nat

Holds(document, now) == document.from <= now /\ now < document.until

SignedBy(document, signer) == document.signer = signer

--------------------------------------------------------------------------------
(* The workload key and the capture grant *)

\* WorkloadKeyRegistration::validate.
ValidRegistration(registration) ==
    /\ registration.deployment.mode = "managed"
    /\ registration.deployment.scope.service = registration.service
    /\ SignedBy(registration.deployment, registration.key)

\* ManagedCandidateEncryptionGrantRequest::validate_for_registration.
RequestMatches(request, registration) ==
    /\ ValidRegistration(registration)
    /\ request.mode = "managed"
    /\ request.deployment = registration.deployment
    /\ request.scope = registration.deployment.scope
    /\ SignedBy(request, registration.key)

ValidCaptureGrant(grant) == grant.mode = "managed" /\ grant.from < grant.until

\* A mutant: the grant is not bound to the candidate identity.
GrantBindsCapture(grant, bound) ==
    /\ grant.reference = bound.reference
    /\ grant.capture = bound.capture
    /\ grant.scope = bound.scope

\* What verify_managed_candidate_capture_grant and
\* ManagedCandidateUploadRequest::validate both compare.
GrantBinds(grant, bound) ==
    /\ grant.identity = bound.identity
    /\ grant.reference = bound.reference
    /\ grant.capture = bound.capture
    /\ grant.scope = bound.scope

verify_managed_candidate_capture_grant(grant, expected, now, signer) ==
    /\ ValidCaptureGrant(grant)
    /\ GrantBinds(grant, expected)
    /\ Holds(grant, now)
    /\ SignedBy(grant, signer)

--------------------------------------------------------------------------------
(* The grants of a worker *)

\* validate_signed_grant.
ValidSignedGrant(grant) ==
    /\ grant.mode = "managed"
    /\ grant.from < grant.until
    /\ Cardinality(grant.capabilities) <= MaxGrantCapabilities

\* The fields that the key grant repeats of the worker grant.
GrantedFields ==
    {"identity", "reference", "capabilities", "capture", "encrypted", "lease", "operation",
     "scope", "mode", "worker", "release"}

KeyFollowsWorker(worker, key) ==
    /\ \A field \in GrantedFields : key[field] = worker[field]
    /\ key.workerGrant = worker

\* A mutant: only the key grant must still hold.
KeyGrantHolds(worker, key, now) == worker.from <= now /\ Holds(key, now)

GrantsHold(worker, key, now) ==
    /\ Holds(worker, now)
    /\ Holds(key, now)
    /\ key.until <= worker.until

verify_managed_worker_key_grants(worker, key, now, workerSigner, keySigner) ==
    /\ ValidSignedGrant(worker) /\ ValidSignedGrant(key)
    /\ GrantsHold(worker, key, now)
    /\ KeyFollowsWorker(worker, key)
    /\ SignedBy(worker, workerSigner)
    /\ SignedBy(key, keySigner)

--------------------------------------------------------------------------------
(* Executor evidence, capabilities and the execution grant *)

\* ExecutorCapabilityEvidence::validate.
ValidEvidence(evidence) ==
    /\ Cardinality(evidence.capabilities) \in 1..MaxGrantCapabilities
    /\ evidence.from < evidence.until

\* A mutant: evidence that was once active is good for ever.
EvidenceWasActive(evidence, scope, now) ==
    evidence.status = "active" /\ evidence.scope = scope /\ evidence.from <= now

EvidenceActive(evidence, scope, now) ==
    /\ evidence.status = "active"
    /\ evidence.scope = scope
    /\ Holds(evidence, now)

verify_executor_capability_evidence(evidence, scope, now, signer) ==
    /\ ValidEvidence(evidence)
    /\ EvidenceActive(evidence, scope, now)
    /\ SignedBy(evidence, signer)

required_capabilities_present(required, provided) ==
    /\ Cardinality(required) <= MaxGrantCapabilities
    /\ Cardinality(provided) <= MaxGrantCapabilities
    /\ required \subseteq provided

\* The bindings that name the reduction result of one capsule.
CapsuleBinding == {"processor.requirement", "processor.identity", "processor.reduction"}

Discrete(required) == {c \in required : c[1] \notin CapsuleBinding}

replay_capabilities_present(required, provided) ==
    /\ Cardinality(required) <= MaxGrantCapabilities
    /\ required_capabilities_present(Discrete(required), provided)

\* category_matches: exactly one capability of the category, the host's.
CategoryMatches(required, category, expected) ==
    {c \in required : c[1] = category} = {<<category, expected>>}

\* ReplayHostCapabilityContract; the category "executor-native" stands for the
\* executor capabilities that end in -native, of native_executor_matches.
HostCategory == {"architecture", "operating-system", "executor-native", "world", "abi"}

\* A processor capability of no recognized binding has the category
\* "processor" and is refused (valid_capability_binding).
verify_replay_capabilities(required, evidence, debugger, host) ==
    /\ Cardinality(required) \in MinRequired..MaxGrantCapabilities
    /\ replay_capabilities_present(required, evidence.capabilities)
    /\ \A c \in required : c[1] # "processor"
    /\ \A category \in HostCategory : CategoryMatches(required, category, host[category])
    /\ CategoryMatches(required, "debugger", debugger)

\* ExecutionGrant::validate.
ValidExecutionGrant(grant) ==
    /\ grant.from < grant.until
    /\ grant.until - grant.from <= MaxExecutionGrant

\* What an execution grant must say of the operation that is asked for.
ExpectedFields ==
    {"scope", "operation", "mode", "requester", "repro", "debugger", "workClass"}

verify_execution_grant(grant, evidence, expectation, now, signer) ==
    /\ ValidExecutionGrant(grant)
    /\ grant.executor = evidence.executor
    /\ \A field \in ExpectedFields : grant[field] = expectation[field]
    /\ Holds(grant, now)
    /\ SignedBy(grant, signer)

================================================================================

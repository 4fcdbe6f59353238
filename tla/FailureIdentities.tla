--------------------------- MODULE FailureIdentities ---------------------------
(***************************************************************************)
(* The identity of a failure, the reference a candidate carries to it, and *)
(* the summaries of it that may leave the service                          *)
(* (crates/reproit-core/src/failure.rs).  Names are opaque values; of a    *)
(* list only its length is kept.                                           *)
(***************************************************************************)
EXTENDS Integers

CONSTANTS
    MaxCauses,   \* cause types of an exception (32)
    MaxFrames,   \* frames of an exception (64)
    NoCode,      \* an exception without a stable code
    Withheld     \* the fixed text that managed mode shows in place of a name

ExceptionCategory == {"exception", "panic", "visible-error"}

ContractCategory == {"explicit", "postcondition", "response-contract"}

\* FailureCategory and its matcher, as FailureReference::validate pairs them.
Matcher(category) ==
    IF category \in ExceptionCategory THEN "exception-exact-v1" ELSE "contract-digest-v1"

\* validate_exception_identity and validate_contract_identity.  A frame's
\* source is relative when it is neither absolute nor climbs out of its root.
ValidIdentity(identity) ==
    IF identity.category \in ExceptionCategory
    THEN /\ identity.frames > 0 \/ identity.code # NoCode
         /\ identity.causes <= MaxCauses /\ identity.frames <= MaxFrames
         /\ identity.relative
    ELSE identity.category \in ContractCategory

\* FailureIdentity::grouping.
Grouping(identity) ==
    [category |-> identity.category, identity |-> identity,
     matcher |-> Matcher(identity.category)]

ValidReference(reference) == reference.matcher = Matcher(reference.category)

\* FailurePayload::validate: the reference is to the identity beside it.
ValidFailurePayload(payload) ==
    /\ ValidReference(payload.reference)
    /\ ValidIdentity(payload.identity)
    /\ payload.reference.identity = payload.identity

\* safe_summaries.  A contract is named by its contract identity.
SafeSummaries(identity, mode) ==
    [failure |->
       [category |-> identity.category,
        operation |-> IF mode = "managed" THEN Withheld ELSE identity.operation,
        code |-> IF mode = "private" /\ identity.category \in ExceptionCategory
                 THEN identity.code ELSE NoCode,
        type |-> IF mode = "managed" THEN identity.category ELSE identity.type],
     trigger |->
       [kind |-> identity.kind,
        operation |-> IF mode = "managed" THEN Withheld ELSE identity.operation]]

\* validate_for_mode of FailureSummary and of TriggerSummary.
SummariesValid(summaries, mode) ==
    mode = "managed" =>
        /\ summaries.failure.operation = Withheld
        /\ summaries.failure.code = NoCode
        /\ summaries.failure.type = summaries.failure.category
        /\ summaries.trigger.operation = Withheld

================================================================================

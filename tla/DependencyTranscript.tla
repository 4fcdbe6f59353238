-------------------------- MODULE DependencyTranscript --------------------------
(***************************************************************************)
(* The transcript of one operation's exchanges with its dependencies, and  *)
(* the two checks the backend makes of one: verify_dependency_transcript   *)
(* (crates/reproit-backend/src/world.rs), which the capture runs when it   *)
(* closes, and ClosedDependencyTranscript::validate (dependency.rs), which *)
(* a replay runs before it serves a transcript.                            *)
(***************************************************************************)
EXTENDS Integers, Sequences, FiniteSets

CONSTANTS
    Operations,   \* operation identities
    NoOperation,  \* an interaction without a causal parent
    Objects,      \* object identities of request and response bytes
    ObjectBytes,  \* the length of each object's bytes
    V1Limits      \* DependencyLimits::V1, the caps of every configuration

Positive == Nat \ {0}

\* DependencyLimits without cursor_lifetime_ms.
LimitsRecord ==
    [active_operations : Positive, candidate_bytes : Positive,
     concurrent_close_requests : Positive, durable_bytes : Positive,
     interactions_per_operation : Positive, memory_bytes : Positive,
     object_bytes : Positive, sessions : Positive]

ASSUME TranscriptAssumption ==
    /\ NoOperation \notin Operations
    /\ ObjectBytes \in [Objects -> Nat]
    /\ V1Limits \in LimitsRecord

\* A TranscriptInteraction.  Sequence and session position are checked
\* against the same index and are one field; intact says that the digests of
\* the interaction are those of the bytes stored for its objects.
Interaction ==
    [sequence : 0..V1Limits.interactions_per_operation,
     operation : Operations,
     parent : Operations \cup {NoOperation},
     request : Objects, response : Objects, intact : BOOLEAN]

Transcript == [interactions : Seq(Interaction), objects : SUBSET Objects]

EmptyTranscript == [interactions |-> <<>>, objects |-> {}]

\* verify_dependency_transcript: a non-empty run of consecutive interactions
\* of the operation or of its children, with their objects at hand.
Verified(operation, script) ==
    /\ Len(script.interactions) \in 1..V1Limits.interactions_per_operation
    /\ \A k \in 1..Len(script.interactions) :
         LET i == script.interactions[k] IN
         /\ i.sequence = k - 1
         /\ operation \in {i.operation, i.parent}
         /\ {i.request, i.response} \subseteq script.objects
         /\ i.intact

\* The object identities the interactions name.
NamedObjects(interactions) ==
    UNION {{interactions[k].request, interactions[k].response} :
             k \in 1..Len(interactions)}

\* Every byte of the objects, as the object and the byte's position in it,
\* so that the sum of the lengths is a cardinality.
BytesOf(objects) == UNION {{o} \X (1..ObjectBytes[o]) : o \in objects}
TotalBytes(objects) == Cardinality(BytesOf(objects))

\* ClosedDependencyTranscript::validate: beyond Verified, every interaction
\* has two objects of its own, no object is left over, and the bytes are
\* within the limits of an object and of a candidate.
Replayable(operation, script) ==
    /\ Verified(operation, script)
    /\ Cardinality(NamedObjects(script.interactions))
         = 2 * Len(script.interactions)
    /\ NamedObjects(script.interactions) = script.objects
    /\ \A o \in script.objects : ObjectBytes[o] <= V1Limits.object_bytes
    /\ TotalBytes(script.objects) <= V1Limits.candidate_bytes
================================================================================

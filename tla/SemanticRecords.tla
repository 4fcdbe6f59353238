---------------------------- MODULE SemanticRecords ----------------------------
(***************************************************************************)
(* The canonical request and response records of automatic observations    *)
(* (crates/reproit-core/src/model/semantic_observation.rs) and of          *)
(* dependencies (semantic_dependency.rs), and the checks made of a pair.   *)
(* The digest of a record is the record; of its bytes only their number is *)
(* kept, and of its optional fields only which of them are present.        *)
(***************************************************************************)
EXTENDS Integers, FiniteSets

CONSTANTS
    MaxValueBytes,    \* MAX_SEMANTIC_OBSERVATION_VALUE_BYTES
    MaxPayloadBytes,  \* MAX_SEMANTIC_DEPENDENCY_PAYLOAD_BYTES
    MaxRecordBytes,   \* MAX_SEMANTIC_DEPENDENCY_RECORD_BYTES
    ClockBytes,       \* the bytes of a wall time
    NoBytes           \* a record without a value

ASSUME SemanticAssumption ==
    /\ {MaxValueBytes, MaxPayloadBytes, MaxRecordBytes, ClockBytes} \subseteq Nat
    /\ NoBytes \notin Nat

\* SemanticObservationOperation, and the class that automatic_replay.rs
\* gives each operation.
observation_class ==
    [operation \in {"clock-wall-time", "environment-read", "filesystem-read",
                    "random-bytes"} |->
       CASE operation = "clock-wall-time"  -> "clock"
         [] operation = "environment-read" -> "environment"
         [] operation = "filesystem-read"  -> "filesystem"
         [] operation = "random-bytes"     -> "randomness"]

\* The operations of the three classes of dependencies.
ClassOperations ==
    [class \in {"database", "outbound-http", "queue"} |->
       CASE class = "database"      -> {"database-execute"}
         [] class = "outbound-http" -> {"outbound-http-request"}
         [] class = "queue"         -> {"queue-acknowledge", "queue-publish",
                                        "queue-receive", "queue-reject"}]

IsObservation(record) == record.operation \in DOMAIN observation_class

ClassMatches(record) ==
    /\ record.class \in DOMAIN ClassOperations
    /\ record.operation \in ClassOperations[record.class]

\* The optional parameters an operation must and may only have.
RequiredParameters(request) ==
    CASE request.operation = "clock-wall-time"  -> {}
      [] request.operation = "environment-read" -> {"target"}
      [] request.operation = "filesystem-read"  -> {"target", "offset", "length"}
      [] request.operation = "random-bytes"     -> {"length"}
      [] request.class = "outbound-http"        -> {"target", "method"}
      [] OTHER                                  -> {"target"}

\* validate of SemanticObservationRequest and SemanticDependencyRequest.
ValidRequest(request) ==
    /\ IsObservation(request) \/ ClassMatches(request)
    /\ request.parameters = RequiredParameters(request)
    /\ "length" \in request.parameters => request.length \in 1..MaxValueBytes
    /\ ~IsObservation(request) => request.bytes <= MaxRecordBytes

\* The class and size rules of the value of a successful observation.
ValidObservationValue(response) ==
    \/ response.operation = "environment-read" /\ response.bytes = NoBytes
    \/ /\ response.bytes # NoBytes
       /\ response.bytes <= MaxValueBytes
       /\ response.operation = "clock-wall-time" => response.bytes = ClockBytes
       /\ response.operation = "random-bytes" => response.bytes > 0

\* The payload of a dependency's answer, and the one kind of status that its
\* class has: HTTP has a code, a database and a queue may have a text.
ValidDependencyValue(response) ==
    /\ response.bytes # NoBytes /\ response.bytes <= MaxPayloadBytes
    /\ response.status \in IF response.class = "outbound-http"
                           THEN {"code"} ELSE {"none", "text"}

\* validate of SemanticObservationResponse and SemanticDependencyResponse.
ValidResponse(response) ==
    IF response.outcome = "error"
    THEN /\ response.error
         /\ IF IsObservation(response)
            THEN response.bytes = NoBytes
            ELSE /\ ClassMatches(response) /\ response.status = "none"
                 /\ response.bytes # NoBytes => response.bytes <= MaxPayloadBytes
    ELSE /\ ~response.error
         /\ IF IsObservation(response)
            THEN ValidObservationValue(response)
            ELSE ClassMatches(response) /\ ValidDependencyValue(response)

\* validate_semantic_observation_pair and validate_semantic_dependency_pair.
ValidPair(request, response) ==
    /\ ValidRequest(request) /\ ValidResponse(response)
    /\ response.operation = request.operation
    /\ response.answers = request
    /\ ~IsObservation(request) => response.class = request.class
    /\ response.outcome = "response" =>
         /\ request.operation = "filesystem-read" => response.bytes <= request.length
         /\ request.operation = "random-bytes" => response.bytes = request.length

\* The class a pair belongs to, as validate_pair returns it.
PairClass(request) ==
    IF IsObservation(request) THEN observation_class[request.operation]
                              ELSE request.class

================================================================================

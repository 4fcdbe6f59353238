---------------------------- MODULE AutomaticReplay ----------------------------
(***************************************************************************)
(* The observations of an automatic world: how a resolved capsule becomes  *)
(* the table a replay is served from, and how the replay takes from it     *)
(* (crates/reproit-backend/src/automatic_replay.rs).  A world artifact     *)
(* keeps the digest of a request and the response, an interaction keeps    *)
(* both.                                                                   *)
(***************************************************************************)
EXTENDS SemanticRecords, Sequences, SequencesExt

CONSTANT MaxReplayed  \* MAX_OBSERVATIONS

\* The raw requests of the two baselines, and the responses to them that
\* decode_environment and the timestamp parser accept.
EnvironmentRequest == [raw |-> "process-environment"]
ClockRequest == [raw |-> "wall-clock"]
EnvironmentImage == [raw |-> "environment"]
ClockImage == [raw |-> "timestamp"]

\* RecordedObservation under its key.
Entry(class, position, request, outcome, response) ==
    [class |-> class, position |-> position, request |-> request,
     outcome |-> outcome, response |-> response]

IsBaseline(artifact) == artifact.class = "environment" /\ artifact.position = 0

\* The checks of one state artifact, whose URI holds class, position, request
\* digest and outcome.
StateReadable(artifact) ==
    /\ artifact.class \in {"environment", "filesystem"}
    /\ artifact.position < MaxReplayed
    /\ ~IsBaseline(artifact) =>
         /\ "operation" \in DOMAIN artifact.response
         /\ ValidResponse(artifact.response)
         /\ IsObservation(artifact.response)
         /\ observation_class[artifact.response.operation] = artifact.class
         /\ artifact.response.answers = artifact.request
         /\ artifact.response.outcome = artifact.outcome

\* read_dependencies: the checks of one interaction, and the class it has.
InteractionReadable(interaction, operation) ==
    /\ interaction.operation = operation
    /\ IF interaction.request = ClockRequest
       THEN interaction.position = 0 /\ interaction.outcome = "response"
       ELSE /\ "operation" \in DOMAIN interaction.request
            /\ "operation" \in DOMAIN interaction.response
            /\ ValidPair(interaction.request, interaction.response)
            /\ PairClass(interaction.request) \notin {"environment", "filesystem"}
            /\ interaction.response.outcome = interaction.outcome

InteractionClass(interaction) ==
    IF interaction.request = ClockRequest THEN "clock" ELSE PairClass(interaction.request)

\* The entries of artifacts and interactions.
Table(capsule) ==
    {Entry(a.class, a.position, a.request, a.outcome, a.response) :
        a \in Range(capsule.artifacts)} \cup
    {Entry(InteractionClass(i), i.position, i.request, i.outcome, i.response) :
        i \in Range(capsule.interactions)}

Keys(table) == {<<e.class, e.position>> : e \in table}

\* A mutant: each class need only begin at zero.
ContiguousFromZero(table) ==
    \A key \in Keys(table) : <<key[1], 0>> \in Keys(table)

\* require_contiguous_positions.
Contiguous(table) ==
    \A key \in Keys(table) : \A p \in 0..key[2] : <<key[1], p>> \in Keys(table)

\* take_baseline: the entry at position zero of a class.
BaselineTaken(table, class, request) ==
    \E e \in table : /\ e.class = class /\ e.position = 0
                     /\ e.request = request /\ e.outcome = "response"

Baseline(table, class) == CHOOSE e \in table : e.class = class /\ e.position = 0

\* resolve_world (model/capsule.rs) finds the object of an artifact by its
\* media type, digest and size, and wants exactly one: two artifacts of the
\* same bytes have no capsule.
DistinctContent(artifacts) == IsInjective([i \in DOMAIN artifacts |-> artifacts[i].response])

\* resolve_automatic_replay succeeds.  insert refuses a second entry for a key.
Resolves(capsule) ==
    /\ DistinctContent(capsule.artifacts)
    /\ capsule.interactions # <<>>
    /\ Len(capsule.artifacts) + Len(capsule.interactions) <= MaxReplayed
    /\ \A a \in Range(capsule.artifacts) : StateReadable(a)
    /\ \A i \in Range(capsule.interactions) : InteractionReadable(i, capsule.operation)
    /\ LET table == Table(capsule) IN
       /\ Cardinality(Keys(table)) = Len(capsule.artifacts) + Len(capsule.interactions)
       /\ Contiguous(table)
       /\ BaselineTaken(table, "environment", EnvironmentRequest)
       /\ Baseline(table, "environment").response = EnvironmentImage
       /\ BaselineTaken(table, "clock", ClockRequest)
       /\ Baseline(table, "clock").response = ClockImage

\* What is left for the program once the baselines are taken.
Replayable(capsule) ==
    Table(capsule) \ {Baseline(Table(capsule), "environment"), Baseline(Table(capsule), "clock")}

first_position(class) == IF class \in {"clock", "environment"} THEN 1 ELSE 0

\* The entry take_response gives out for a request, if any.
Taken(table, class, position, request) ==
    {e \in table : /\ e.class = class /\ e.position = position
                   /\ e.request = request
                   /\ ValidPair(request, e.response)
                   /\ PairClass(request) = class
                   /\ e.response.outcome = e.outcome}

================================================================================

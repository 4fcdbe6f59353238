---------------------------- MODULE PrivateClosure ----------------------------
(***************************************************************************)
(* seal_private_candidate: the Runtime closes an accepted private          *)
(* candidate, and the bytes it resolves for it, into the one capsule       *)
(* (crates/reproit-backend/src/private_closure.rs).                        *)
(*                                                                         *)
(* An identity that derive_object_id mints is the triple of its tag, its   *)
(* content and its ordinal; the capture identity it also hashes is that of *)
(* the one candidate.                                                      *)
(***************************************************************************)
EXTENDS ReplayCapsules

CONSTANTS
    MaxExchangeBytes,  \* MAX_EXCHANGE_BYTES
    MaxArtifactBytes,  \* MAX_WORLD_ARTIFACT_BYTES
    SdkCapabilities,   \* the sdk.* capabilities, one for each runtime family
    MintedId           \* an object without an identity of its own yet

derive_object_id(tag, content, ordinal) == <<tag, content, ordinal>>

--------------------------------------------------------------------------------
(* decode_candidate_records *)

Bodies(candidate, kind) ==
    LET records == OfKind(candidate.records, kind) IN
    [i \in DOMAIN records |-> records[i].body]

RecordsDecode(candidate) ==
    LET inputs == Bodies(candidate, "input")
        failure == Bodies(candidate, "failure")[1]
    IN
    /\ Len(Bodies(candidate, "begin")) = 1
    /\ \A i \in DOMAIN inputs : inputs[i].intact /\ inputs[i].index = i - 1
    /\ \A record \in Range(candidate.records) : record.kind \notin {"observation", "fence"}
    /\ Len(Bodies(candidate, "failure")) = 1
    /\ ValidFailurePayload(failure)
    /\ failure.reference = candidate.failure
    /\ failure.identity = candidate.failure.identity
    /\ inputs # <<>>

\* runtime_family: exactly one SDK.
RuntimeFamily(candidate) == candidate.deployment.capabilities \cap SdkCapabilities

--------------------------------------------------------------------------------
(* What is derived from the records *)

\* derive_trigger.
DeriveTrigger(candidate) ==
    LET begin == Bodies(candidate, "begin")[1]
        inputs == Bodies(candidate, "input")
    IN [kind |-> "trigger", adapter |-> begin.adapter, parents |-> begin.parents,
        completion |-> CASE begin.operationKind = "delivered-work"   -> "task-end"
                         [] begin.operationKind = "request-response" -> "return"
                         [] begin.operationKind = "stream"           -> "stream-end",
        operation |-> candidate.operation, operationKind |-> begin.operationKind,
        name |-> begin.name, size |-> Len(inputs),
        inputs |-> [i \in DOMAIN inputs |->
            [channel |-> inputs[i].channel, digest |-> inputs[i].content, sequence |-> i - 1,
             object |-> derive_object_id("trigger-input", inputs[i].content, i - 1)]]]

Bounded(content) == content.size \in 1..MaxExchangeBytes

\* A mutant: the exchanges are counted, not compared with their cursors.
ExchangesCounted(cursors, exchanges) ==
    /\ Len(exchanges) = Len(cursors)
    /\ \A i \in DOMAIN cursors : Bounded(exchanges[i].request) /\ Bounded(exchanges[i].response)

\* The checks of derive_dependency_transcript: each exchange is that of the
\* cursor at its place, and one adapter recorded them all.
ExchangesBind(cursors, exchanges) ==
    /\ Len(exchanges) = Len(cursors)
    /\ \A i \in DOMAIN cursors :
         /\ exchanges[i].cursor = cursors[i]
         /\ cursors[i].adapter = cursors[1].adapter
         /\ Bounded(exchanges[i].request) /\ Bounded(exchanges[i].response)

DeriveTranscript(candidate, cursors, exchanges) ==
    [kind |-> "transcript", adapter |-> cursors[1].adapter, size |-> Len(exchanges),
     interactions |-> [i \in DOMAIN exchanges |->
       [operation |-> candidate.operation, outcome |-> "response", sequence |-> i - 1,
        parent |-> cursors[i].parent,
        request |-> exchanges[i].request, response |-> exchanges[i].response,
        requestObject |-> derive_object_id("dependency-request", exchanges[i].request, i - 1),
        responseObject |-> derive_object_id("dependency-response", exchanges[i].response, i - 1)]]]

\* world_artifact_entries: one entry for each artifact, in manifest order.
ArtifactsBind(world, artifacts) ==
    LET declared == WorldArtifacts(world) IN
    /\ Len(declared) = Len(artifacts)
    /\ \A i \in DOMAIN declared :
         /\ declared[i].size <= MaxArtifactBytes
         /\ artifacts[i].size = declared[i].size /\ artifacts[i] = declared[i].digest

--------------------------------------------------------------------------------
(* assemble_object_set *)

Push(role, media, content, fixed) ==
    [role |-> role, media |-> media, content |-> content, fixed |-> fixed]

\* What the builder is given, in the order it is given.
Pushes(sources, trigger, subject) ==
    LET candidate == sources.candidate
        inputs == Bodies(candidate, "input")
        failure == Bodies(candidate, "failure")[1]
        declared == WorldArtifacts(sources.world)
        cursors == Bodies(candidate, "dependency")
        transcript == DeriveTranscript(candidate, cursors, sources.exchanges)
        body(k) == LET x == transcript.interactions[(k + 1) \div 2] IN
            IF k % 2 = 1 THEN Push("dependency-transcript", "body", x.request, x.requestObject)
            ELSE Push("dependency-transcript", "body", x.response, x.responseObject)
    IN
    <<Push("subject", "subject-closure", subject, MintedId),
      Push("subject", "subject-file", sources.binary, MintedId),
      Push("subject", "dwarf", sources.debug, MintedId)>> \o
    [i \in DOMAIN inputs |->
        Push("trigger", inputs[i].media, inputs[i].content, trigger.inputs[i].object)] \o
    <<Push("failure", "failure", failure, failure.reference.object),
      Push("trigger", "trigger", trigger, MintedId),
      Push("world-manifest", "world", sources.world, MintedId)>> \o
    [i \in DOMAIN declared |->
        Push("world-state", declared[i].media, sources.artifacts[i], MintedId)] \o
    (IF cursors = <<>> THEN <<>>
     ELSE <<Push("dependency-transcript", "transcript", transcript, MintedId)>> \o
          [k \in 1..(2 * Len(cursors)) |-> body(k)])

\* ObjectSetBuilder::push: an object without a fixed identity takes the next
\* ordinal.
ObjectSet(pushes) ==
    [i \in DOMAIN pushes |->
       LET p == pushes[i]
           ordinal == Cardinality({j \in 1..(i - 1) : pushes[j].fixed = MintedId})
       IN LogicalObject(IF p.fixed = MintedId THEN derive_object_id(p.role, p.content, ordinal)
                                             ELSE p.fixed,
                        p.role, p.media, p.content)]

\* candidate_descriptor.
CandidateDescriptor(candidate) ==
    LET content == [kind |-> "candidate", records |-> candidate.records, size |-> 1] IN
    LogicalObject(derive_object_id("candidate", content, 0), "candidate", "candidate", content)

\* dependency_identity.
DependencyIdentity(objects) ==
    LET dependencies == SelectSeq(objects, LAMBDA o : o.role = "dependency-transcript") IN
    IF dependencies = <<>> THEN NoClosure ELSE dependencies

\* bind_initial_processor_requirement: the captured processor view in place
\* of the processor capabilities the capsule has.
BindProcessor(capsule, requirement) == [capsule EXCEPT !.processor = requirement]

--------------------------------------------------------------------------------
(* seal_private_candidate: [capsule, closure, stored], or NoCapsule *)

\* validate_backend_support_package; a bundle is for one closure policy, and
\* what else it lists is as its build made it.
ValidSupport(support) == ValidPolicy(support.rules) /\ support.bundle.policy = support.rules

SourcesBind(sources) ==
    LET candidate == sources.candidate
        cursors == Bodies(candidate, "dependency")
    IN
    /\ ValidCandidate(candidate)
    /\ ValidSupport(sources.support)
    /\ ValidWorld(sources.world) /\ candidate.world = sources.world
    /\ RecordsDecode(candidate)
    /\ Cardinality(RuntimeFamily(candidate)) = 1
    /\ SingleFileVerified(candidate.deployment.subject, sources.binary, sources.debug,
                          RuntimeFamily(candidate))
    /\ ValidTrigger(DeriveTrigger(candidate))
    /\ ExchangesBind(cursors, sources.exchanges)
    /\ cursors # <<>> =>
         ValidTranscript(DeriveTranscript(candidate, cursors, sources.exchanges))
    /\ ArtifactsBind(sources.world, sources.artifacts)

Evidence(sources, objects) ==
    [dependency |-> DependencyIdentity(objects), executor |-> sources.evidence.executor,
     isolation |-> sources.evidence.isolation,
     subject |-> sources.candidate.deployment.subject.artifact,
     world |-> sources.candidate.world]

SealPrivateCandidate(sources) ==
    IF ~SourcesBind(sources) THEN NoCapsule
    ELSE
    LET candidate == sources.candidate
        trigger == DeriveTrigger(candidate)
        subject == SingleFileClosure(candidate.deployment.subject, sources.binary,
                                     sources.debug, RuntimeFamily(candidate))
        objects == ObjectSet(Pushes(sources, trigger, subject))
        stored == [id \in {o.id : o \in Range(objects)} |->
                     (CHOOSE o \in Range(objects) : o.id = id).digest]
        closure == CloseManagedWorld(sources.support.rules, Evidence(sources, objects))
        request == [candidate |-> candidate, closure |-> closure, world |-> sources.world,
                    objects |-> Append(objects, CandidateDescriptor(candidate)),
                    failure |-> Bodies(candidate, "failure")[1], trigger |-> trigger,
                    support |-> sources.support]
    IN
    IF ~IsInjective([i \in DOMAIN objects |-> objects[i].id]) \/ closure = NoClosure
    THEN NoCapsule
    ELSE
    LET closed == CloseReplayCapsule(request)
        capsule == BindProcessor(closed, candidate.deployment.processor)
    IN
    IF closed # NoCapsule /\ ResolvesCapsule(capsule, stored)
    THEN [capsule |-> capsule, closure |-> closure, stored |-> stored]
    ELSE NoCapsule

================================================================================

---------------------------- MODULE ReplayCapsules ----------------------------
(***************************************************************************)
(* A replay capsule: what it must hold to be valid                         *)
(* (crates/reproit-core/src/model.rs), how close_replay_capsule closes a   *)
(* candidate into one (crates/reproit-backend/src/closure.rs) and how      *)
(* resolve_replay_capsule finds every object again                         *)
(* (crates/reproit-core/src/model/capsule.rs).                             *)
(*                                                                         *)
(* The digest of a content is the content, and each content has a size.    *)
(* The objects of a capsule are listed in strict order of their identity:  *)
(* here they are a set.                                                    *)
(***************************************************************************)
EXTENDS CandidateRecords, SubjectClosures

CONSTANTS
    MaxObjects,        \* objects of a capsule (32767)
    MaxManifestBytes,  \* MAX_MANIFEST_OBJECT_BYTES
    MaxCapabilities,   \* required capabilities of a capsule (64)
    MaxPoints,         \* recoverable points of a checkpoint (64)
    MaxParents,        \* causal parents of an operation (32)
    NoCapsule          \* a candidate that could not be closed

\* The roles that a capsule may hold; the others are of the capture batch.
ReplayRole ==
    {"subject", "trigger", "failure", "world-manifest", "world-state",
     "dependency-transcript"}

LogicalObject(id, role, media, content) ==
    [id |-> id, role |-> role, media |-> media, digest |-> content, size |-> content.size]

\* The objects of a role that have these fields.
Matching(objects, role, fields) ==
    {o \in objects : o.role = role /\ \A f \in DOMAIN fields : o[f] = fields[f]}

Single(objects) == Cardinality(objects) = 1

UniqueIds(objects) == Cardinality({o.id : o \in objects}) = Cardinality(objects)

\* validate_closure_shape.
ClosureShaped(capsule) ==
    LET count(role, fields) == Cardinality(Matching(capsule.objects, role, fields)) IN
    /\ count("subject", [media |-> "subject-closure", digest |-> capsule.subjectDigest]) = 1
    /\ count("trigger", [media |-> "trigger", digest |-> capsule.trigger]) = 1
    /\ count("failure", [media |-> "failure"]) = 1
    /\ count("world-manifest", [media |-> "world"]) = 1
    /\ count("dependency-transcript", [media |-> "transcript"]) <= 1

\* ReplayCapsule::validate.
ValidCapsule(capsule) ==
    /\ Cardinality(capsule.objects) \in 1..MaxObjects
    /\ \A o \in capsule.objects : o.role \in ReplayRole
    /\ ClosureShaped(capsule)
    /\ capsule.subject.artifact = capsule.subjectDigest
    /\ UniqueIds(capsule.objects)
    /\ Cardinality(capsule.capabilities \cup capsule.processor) <= MaxCapabilities

--------------------------------------------------------------------------------
(* The documents a capsule refers to *)

\* RecoverablePoint::validate: what the point holds is what it claimed.
ValidPoint(point) ==
    /\ point.published <= point.until
    /\ Len(point.artifacts) <= point.claim.objects
    /\ MapThenSumSet(LAMBDA i : point.artifacts[i].size, DOMAIN point.artifacts)
           <= point.claim.pinned

\* WorldCheckpoint::validate; its identity is its digest.
ValidWorld(world) ==
    /\ Len(world.points) <= MaxPoints
    /\ \A i \in DOMAIN world.points :
         /\ ValidPoint(world.points[i])
         /\ world.points[i].published <= world.created
    /\ IsInjective([i \in DOMAIN world.points |-> world.points[i].provider])

\* The artifacts of every point, in the order of the manifest.
WorldArtifacts(world) ==
    FoldLeft(LAMBDA all, point : all \o point.artifacts, <<>>, world.points)

Completions ==
    [kind \in {"request-response", "stream", "delivered-work"} |->
       CASE kind = "request-response" -> {"return"}
         [] kind = "stream"           -> {"stream-end"}
         [] kind = "delivered-work"   -> {"acknowledgment", "task-end"}]

\* Trigger::validate.
ValidTrigger(trigger) ==
    /\ Cardinality(trigger.parents) <= MaxParents
    /\ Len(trigger.inputs) \in 1..MaxInputs
    /\ trigger.completion \in Completions[trigger.operationKind]
    /\ \A i \in DOMAIN trigger.inputs : trigger.inputs[i].sequence = i - 1

\* DependencyTranscript::validate.
ValidTranscript(transcript) ==
    /\ Len(transcript.interactions) \in 1..MaxObservations
    /\ \A i \in DOMAIN transcript.interactions : transcript.interactions[i].sequence = i - 1

--------------------------------------------------------------------------------
(* close_replay_capsule *)

\* validate_inputs.
ClosureInputsValid(request) ==
    /\ ValidCandidate(request.candidate)
    /\ ValidIdentity(request.failure.identity)
    /\ ValidTrigger(request.trigger)
    /\ ValidWorld(request.world)
    /\ ClosesWorld(request.support.rules, request.closure)
    /\ request.candidate.failure = request.failure.reference
    /\ request.candidate.failure.identity = request.failure.identity
    /\ request.candidate.operation = request.trigger.operation
    /\ request.failure.identity.kind = request.trigger.operationKind
    /\ request.failure.identity.operation = request.trigger.name
    /\ request.world = request.candidate.world

\* replay_objects: all but the one candidate, each with its own identity.
ReplayObjects(descriptors) == {o \in Range(descriptors) : o.role # "candidate"}

ReplayObjectsValid(descriptors) ==
    /\ Len(descriptors) \in 1..MaxObjects
    /\ UniqueIds(ReplayObjects(descriptors))
    /\ Cardinality(ReplayObjects(descriptors)) + 1 = Len(descriptors)

\* require_manifest, for each of the four manifests.
ManifestsPresent(objects, request) ==
    LET one(role, media, digest) ==
            Single(Matching(objects, role, [media |-> media, digest |-> digest]))
    IN
    /\ one("failure", "failure", request.failure)
    /\ one("subject", "subject-closure", request.candidate.deployment.subject.artifact)
    /\ one("trigger", "trigger", request.trigger)
    /\ one("world-manifest", "world", request.world)

\* require_payload_closure.
PayloadsPresent(objects, request) ==
    /\ Matching(objects, "failure", [id |-> request.failure.reference.object,
                                     digest |-> request.failure]) # {}
    /\ \A input \in Range(request.trigger.inputs) :
         Matching(objects, "trigger", [id |-> input.object, digest |-> input.digest]) # {}
    /\ \A artifact \in Range(WorldArtifacts(request.world)) :
         Single(Matching(objects, "world-state", artifact))

\* replay_capability_union.
RequiredCapabilities(request) ==
    request.support.capabilities \cup request.candidate.deployment.capabilities

ClosedCapsule(request) ==
    [closure |-> request.closure, failure |-> request.failure.identity,
     objects |-> ReplayObjects(request.objects), mode |-> request.candidate.mode,
     capabilities |-> RequiredCapabilities(request), processor |-> {},
     subject |-> request.candidate.deployment.subject,
     subjectDigest |-> request.candidate.deployment.subject.artifact,
     support |-> request.support.bundle, trigger |-> request.trigger,
     world |-> request.candidate.world, kind |-> "capsule", size |-> 1]

CloseReplayCapsule(request) ==
    IF /\ ClosureInputsValid(request)
       /\ ReplayObjectsValid(request.objects)
       /\ ManifestsPresent(ReplayObjects(request.objects), request)
       /\ PayloadsPresent(ReplayObjects(request.objects), request)
       /\ Cardinality(RequiredCapabilities(request)) <= MaxCapabilities
       /\ ValidCapsule(ClosedCapsule(request))
    THEN ClosedCapsule(request)
    ELSE NoCapsule

--------------------------------------------------------------------------------
(* resolve_replay_capsule *)

\* The object of a manifest: it is small, and what is stored under its
\* identity is what it says (parse_manifest).
ManifestReads(found, stored) ==
    /\ Single(found)
    /\ \A o \in found : /\ o.size <= MaxManifestBytes
                        /\ o.id \in DOMAIN stored /\ stored[o.id] = o.digest

Manifest(found) == (CHOOSE o \in found : TRUE).digest

\* What resolve_subject, resolve_trigger, resolve_failure, resolve_world and
\* resolve_dependency look for beside the manifests, in their order.
References(objects, subject, trigger, world, transcripts) ==
    LET interactions == IF transcripts = {} THEN <<>> ELSE Manifest(transcripts).interactions
        artifacts == WorldArtifacts(world)
        members == SetToSeq(subject.objects)
    IN
    [i \in DOMAIN members |->
        Matching(objects, "subject", [media |-> members[i].media, digest |-> members[i].digest,
                                      size |-> members[i].size])] \o
    [i \in DOMAIN trigger.inputs |->
        Matching(objects, "trigger", [id |-> trigger.inputs[i].object,
                                      digest |-> trigger.inputs[i].digest])] \o
    [i \in DOMAIN artifacts |-> Matching(objects, "world-state", artifacts[i])] \o
    [i \in DOMAIN interactions |->
        Matching(objects, "dependency-transcript",
                 [id |-> interactions[i].requestObject, digest |-> interactions[i].request])] \o
    [i \in DOMAIN interactions |->
        Matching(objects, "dependency-transcript",
                 [id |-> interactions[i].responseObject, digest |-> interactions[i].response])]

\* ObjectConsumption: each reference has one object, and each object has one
\* reference.
EachConsumedOnce(objects, found) ==
    /\ \A i \in DOMAIN found : Single(found[i])
    /\ IsInjective(found)
    /\ UNION Range(found) = objects

ResolvesCapsule(capsule, stored) ==
    LET objects == capsule.objects
        subjects == Matching(objects, "subject",
                        [media |-> "subject-closure", digest |-> capsule.subjectDigest])
        triggers == Matching(objects, "trigger",
                        [media |-> "trigger", digest |-> capsule.trigger])
        failures == Matching(objects, "failure", [media |-> "failure"])
        worlds == Matching(objects, "world-manifest", [media |-> "world"])
        transcripts == Matching(objects, "dependency-transcript", [media |-> "transcript"])
    IN
    /\ ValidCapsule(capsule)
    /\ \A found \in {subjects, triggers, failures, worlds} : ManifestReads(found, stored)
    /\ transcripts # {} => ManifestReads(transcripts, stored)
    /\ ValidSubjectClosure(Manifest(subjects))
    /\ Manifest(subjects).launch = capsule.subject.launch
    /\ ValidTrigger(Manifest(triggers))
    /\ ValidFailurePayload(Manifest(failures))
    /\ \A o \in failures : o.id = Manifest(failures).reference.object
    /\ Manifest(failures).identity = capsule.failure
    /\ ValidWorld(Manifest(worlds)) /\ Manifest(worlds) = capsule.world
    /\ transcripts # {} => ValidTranscript(Manifest(transcripts))
    /\ EachConsumedOnce(objects,
         <<subjects, triggers, failures, worlds>> \o
         (IF transcripts = {} THEN <<>> ELSE <<transcripts>>) \o
         References(objects, Manifest(subjects), Manifest(triggers), Manifest(worlds),
                    transcripts))

================================================================================

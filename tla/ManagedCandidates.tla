--------------------------- MODULE ManagedCandidates ---------------------------
(***************************************************************************)
(* A managed candidate: staged in a mailbox                                *)
(* (crates/reproit-core/src/model/staging.rs), and as the identity, the    *)
(* manifest and the ciphertext that a worker opens                         *)
(* (crates/reproit-core/src/model/managed_candidate.rs and crypto.rs).     *)
(*                                                                         *)
(* The digest of a document is the document.  An authenticated record is   *)
(* the record of its key, its nonce, its plaintext and the data it was     *)
(* bound to: it opens under that key and that data only.                   *)
(***************************************************************************)
EXTENDS ReplayCapsules, Chunks

CONSTANTS
    MaxStagedBytes,     \* the largest candidate that is staged
    MaxManagedObjects,  \* MAX_CANDIDATE_OBJECTS
    MaxManagedChunks,   \* chunks of a managed candidate (32768)
    MaxManagedBytes,    \* MAX_TOTAL_CANDIDATE_CIPHERTEXT_BYTES
    NoCandidate         \* what could not be opened

--------------------------------------------------------------------------------
(* Staging *)

\* failure_storm_identity.
FailureStorm(candidate) ==
    LET payload == OfKind(candidate.records, "failure")[1].body IN
    [failure |-> candidate.failure.identity, kind |-> payload.identity.kind,
     operation |-> payload.identity.operation, service |-> candidate.deployment.scope.service,
     revision |-> candidate.deployment.revision,
     subject |-> candidate.deployment.subject.artifact]

\* CandidateStagingIdentity::for_candidate.
StagingIdentity(candidate, expires) ==
    [capture |-> candidate.capture, deployment |-> candidate.deployment, expires |-> expires,
     storm |-> FailureStorm(candidate), mode |-> candidate.mode,
     scope |-> candidate.deployment.scope, request |-> candidate, world |-> candidate.world,
     lease |-> [scope |-> candidate.deployment.scope, world |-> candidate.world]]

matches_candidate(identity, candidate) ==
    /\ ValidCandidate(candidate)
    /\ identity = StagingIdentity(candidate, identity.expires)

seal_authenticated_record(key, nonce, plain, data) ==
    [key |-> key, nonce |-> nonce, plain |-> plain, data |-> data]

Opens(key, stored, data) == stored.key = key /\ stored.data = data

\* CandidateStagingEnvelope: the identity beside the stored record.
Envelope(identity, stored) == [identity |-> identity, stored |-> stored]

Stageable(candidate, identity) ==
    matches_candidate(identity, candidate) /\ candidate.size <= MaxStagedBytes

seal_candidate_staging(key, nonce, candidate, identity) ==
    Envelope(identity, seal_authenticated_record(key, nonce, candidate, identity))

open_candidate_staging(key, envelope) ==
    LET candidate == envelope.stored.plain IN
    IF /\ Opens(key, envelope.stored, envelope.identity)
       /\ candidate.size <= MaxStagedBytes
       /\ matches_candidate(envelope.identity, candidate)
    THEN candidate
    ELSE NoCandidate

\* CandidateMailboxItem::object: the ciphertext is stored beside the item.
MailboxObject(envelope) == [identity |-> envelope.identity, digest |-> envelope.stored]

--------------------------------------------------------------------------------
(* ManagedCandidateIdentity and ManagedCandidateManifest *)

\* The manifests that a managed candidate must hold, each once; the media
\* types are those of LogicalObject in ReplayCapsules.
RequiredManifests ==
    {<<"candidate", "candidate">>, <<"failure", "failure">>, <<"subject", "subject-closure">>,
     <<"trigger", "trigger">>, <<"world-manifest", "world">>}

ManifestsOnce(objects) ==
    \A m \in RequiredManifests : Single(Matching(objects, m[1], [media |-> m[2]]))

ManagedIdentity(candidate, objects) ==
    [candidate |-> candidate, capture |-> candidate.capture, objects |-> objects,
     deployment |-> candidate.deployment, mode |-> candidate.mode,
     scope |-> candidate.deployment.scope, capabilities |-> candidate.deployment.capabilities,
     subject |-> candidate.deployment.subject.artifact,
     total |-> MapThenSumSet(LAMBDA o : o.size, objects)]

\* ManagedCandidateIdentity::validate.
ValidManagedIdentity(identity) ==
    /\ identity.mode = "managed"
    /\ Cardinality(identity.objects) \in 5..MaxManagedObjects
    /\ Cardinality(identity.capabilities) <= MaxCapabilities
    /\ UniqueIds(identity.objects)
    /\ ManifestsOnce(identity.objects)
    /\ Single(Matching(identity.objects, "candidate",
                       [media |-> "candidate", digest |-> identity.candidate]))
    /\ Single(Matching(identity.objects, "subject",
                       [media |-> "subject-closure", digest |-> identity.subject]))
    /\ \A o \in Matching(identity.objects, "candidate", [media |-> "candidate"]) :
         o.size <= MaxStagedBytes
    /\ identity.total = MapThenSumSet(LAMBDA o : o.size, identity.objects)
    /\ identity.total <= MaxManagedBytes

ManagedManifest(identity, reference) ==
    [kind |-> "managed-manifest", identity |-> identity, digest |-> identity,
     reference |-> reference, size |-> 1]

\* ManagedCandidateManifest::validate.
ValidManagedManifest(manifest) ==
    ValidManagedIdentity(manifest.identity) /\ manifest.digest = manifest.identity

--------------------------------------------------------------------------------
(* ManagedCandidateCiphertextIdentity *)

ManagedChunks(identity) ==
    UNION {{[digest |-> c.digest, size |-> c.size, nonce |-> c.nonce] : c \in Range(e.chunks)} :
           e \in identity.objects} \cup
    {[digest |-> identity.manifest.digest, size |-> identity.manifest.size,
      nonce |-> identity.manifest.nonce]}

ManagedChunkCount(identity) == 1 + MapThenSumSet(LAMBDA e : Len(e.chunks), identity.objects)

\* ManagedCandidateCiphertextIdentity::validate.
ValidCiphertextIdentity(identity) ==
    LET descriptors == {e.descriptor : e \in identity.objects} IN
    /\ identity.mode = "managed"
    /\ Cardinality(identity.objects) \in 5..MaxManagedObjects
    /\ Cardinality(identity.capabilities) \in 1..MaxCapabilities
    /\ UniqueIds(descriptors) /\ Cardinality(descriptors) = Cardinality(identity.objects)
    /\ \A e \in identity.objects :
         e.chunks # <<>> /\ \A i \in DOMAIN e.chunks : e.chunks[i].index = i - 1
    /\ Cardinality({c.nonce : c \in ManagedChunks(identity)}) = ManagedChunkCount(identity)
    /\ ManifestsOnce(descriptors)
    /\ ManagedChunkCount(identity) <= MaxManagedChunks
    /\ \A e \in identity.objects :
         e.descriptor.role = "candidate" /\ e.descriptor.media = "candidate" =>
           MapThenSumSet(LAMBDA i : e.chunks[i].size, DOMAIN e.chunks) <= MaxStagedBytes
    /\ identity.total = MapThenSumSet(LAMBDA c : c.size, ManagedChunks(identity))
    /\ identity.total <= MaxManagedBytes
    /\ \A d \in descriptors : d.id # identity.manifest.id

--------------------------------------------------------------------------------
(* open_managed_candidate: a store maps a digest to what it returned *)

\* managed_object_context.
ManagedContext(identity, id, role) ==
    ObjectContext([scope |-> [capture |-> identity.capture, scope |-> identity.scope]],
                  "managed", id, role)

\* validate_managed_ciphertext.
ManagedCiphertextClosed(identity, store) ==
    LET digests == {c.digest : c \in ManagedChunks(identity)} IN
    /\ Cardinality(digests) = ManagedChunkCount(identity)
    /\ DOMAIN store = digests
    /\ \A d \in digests : store[d] = d

ManagedManifestOpens(key, identity, store) ==
    Decrypts(key, store[identity.manifest.digest],
             ChunkContext(ManagedContext(identity, identity.manifest.id, "capture-batch-manifest"),
                          1, 0, identity.manifest.size))

OpenedManifest(identity, store) == store[identity.manifest.digest].plain.of

\* validate_managed_manifest_binding.
ManagedManifestBinds(manifest, identity) ==
    /\ ValidManagedManifest(manifest)
    /\ manifest.digest = identity.identity
    /\ manifest.reference = identity.reference
    /\ \A field \in {"capture", "scope", "mode", "capabilities"} :
         manifest.identity[field] = identity[field]
    /\ manifest.identity.objects = {e.descriptor : e \in identity.objects}

\* open_managed_object: the chunks are those of the descriptor, in order.
ManagedObjectOpens(key, identity, encrypted, store) ==
    LET context == ManagedContext(identity, encrypted.descriptor.id, encrypted.descriptor.role)
        count == Len(encrypted.chunks)
    IN
    /\ \A i \in 1..count :
         LET chunk == encrypted.chunks[i] IN
         Decrypts(key, store[chunk.digest], ChunkContext(context, count, chunk.index, chunk.size))
    /\ [i \in 1..count |-> store[encrypted.chunks[i].digest].plain]
         = Parts(encrypted.descriptor.digest)

open_managed_candidate(key, identity, store) ==
    IF /\ ValidCiphertextIdentity(identity)
       /\ ManagedCiphertextClosed(identity, store)
       /\ ManagedManifestOpens(key, identity, store)
       /\ ManagedManifestBinds(OpenedManifest(identity, store), identity)
       /\ \A e \in identity.objects : ManagedObjectOpens(key, identity, e, store)
    THEN OpenedManifest(identity, store).identity
    ELSE NoCandidate

================================================================================

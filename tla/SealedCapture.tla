----------------------------- MODULE SealedCapture -----------------------------
(***************************************************************************)
(* Sealing an admitted capture and opening it again                        *)
(* (crates/reproit-backend/src/seal.rs, crates/reproit-core/src/crypto.rs  *)
(* and the capture batch of model.rs).                                     *)
(*                                                                         *)
(* A signed envelope is as its signer made it.                             *)
(***************************************************************************)
EXTENDS Admission, Chunks

CONSTANTS
    MaxChunks,     \* chunks of a batch (32768)
    NoOperation,   \* an envelope outside a fuzz campaign names no operation
    NoUpload       \* a capture that could not be sealed

ASSUME SealAssumption == MaxChunks \in Nat

--------------------------------------------------------------------------------
(* seal_upload *)

\* A set in one order.
Listed(set) == FoldSet(LAMBDA element, list : Append(list, element), <<>>, set)

\* validate_sealing_ids: five identities, none of an object of the closure,
\* and the proofs' in order.
SealingIdsValid(request) ==
    LET ids == {request.ids.capsule, request.ids.manifest} \cup Range(request.ids.proofs) IN
    /\ Cardinality(ids) = 5
    /\ \A i \in 1..2 : request.ids.proofs[i][2] < request.ids.proofs[i + 1][2]
    /\ ids \cap DOMAIN request.input.stored = {}

\* add_capsule and add_proofs: the objects, the capsule, the three proofs.  The
\* bytes of the capsule object are those of the input, its digest is the one
\* that was admitted.
Contents(request) ==
    LET count == Cardinality(request.input.capsule.objects)
        objects == Listed(request.input.capsule.objects)
        capsule == [LogicalObject(request.ids.capsule, "replay-capsule-manifest", "capsule",
                                  request.input.capsule)
                    EXCEPT !.digest = request.admitted.capsule]
        proof(i) == request.admitted.proofs[i - 1]
    IN
    [i \in 1..(count + 4) |->
       CASE i <= count     -> [descriptor |-> objects[i],
                               bytes |-> request.input.stored[objects[i].id]]
         [] i = count + 1  -> [descriptor |-> capsule, bytes |-> request.input.capsule]
         [] i > count + 1  -> [descriptor |-> LogicalObject(request.ids.proofs[i - count - 1],
                                                "admission-proof", "proof", proof(i - count - 1)),
                               bytes |-> proof(i - count - 1)]]

\* encrypt_object refuses bytes that are not those of the descriptor.
ContentsMatch(contents) ==
    \A i \in DOMAIN contents :
      /\ contents[i].descriptor.digest = contents[i].bytes
      /\ contents[i].descriptor.size = contents[i].bytes.size

\* How many chunks come before an object.
ChunksBefore(contents, i) ==
    MapThenSumSet(LAMBDA j : ChunkCount(contents[j].bytes.size), 1..(i - 1))

\* How many nonces a seal draws: one for each chunk, the manifest's last.
NoncesNeeded(contents) == ChunksBefore(contents, Len(contents) + 1) + 1

\* NonceRegistry::register, before each encryption: the registry holds the
\* nonces before this one, and each seal begins with an empty one.
Registered(nonces, i) == \A j \in 1..(i - 1) : nonces[j] # nonces[i]

\* encrypt_object: the chunks of one object, from the nonces given.
EncryptObject(request, descriptor, bytes, nonces) ==
    LET object == ObjectContext(request.metadata, request.input.capsule.mode,
                                descriptor.id, descriptor.role)
        parts == Parts(bytes)
        stored(i) == encrypt_chunk(request.key, nonces[i], parts[i],
                         ChunkContext(object, Len(parts), i - 1, parts[i].size))
    IN [descriptor |-> descriptor,
        chunks |-> [i \in DOMAIN parts |-> [digest |-> stored(i), index |-> i - 1,
                                            size |-> parts[i].size, nonce |-> nonces[i]]]]

\* The uploads of a list of encrypted objects.
Uploads(encrypted) ==
    UNION {{[digest |-> c.digest, size |-> c.size, nonce |-> c.nonce] : c \in Range(e.chunks)} :
           e \in Range(encrypted)}

\* build_manifest.
BuildManifest(request, encrypted) ==
    [kind |-> "batch", metadata |-> request.metadata, mode |-> request.input.capsule.mode,
     objects |-> encrypted, proofs |-> [i \in 1..3 |-> request.admitted.proofs[i - 1]],
     capsule |-> request.admitted.capsule, capsuleObject |-> request.ids.capsule,
     capabilities |-> request.input.capsule.capabilities \cup request.input.capsule.processor,
     size |-> 1]

\* CaptureBatchManifest::validate.
ValidBatch(manifest) ==
    /\ Len(manifest.objects) \in 4..MaxObjects
    /\ Cardinality(Range(manifest.proofs)) = 3
    /\ Cardinality({e.descriptor.id : e \in Range(manifest.objects)}) = Len(manifest.objects)
    /\ Cardinality(manifest.capabilities) <= MaxCapabilities
    /\ \A e \in Range(manifest.objects) :
         e.chunks # <<>> /\ \A i \in DOMAIN e.chunks : e.chunks[i].index = i - 1
    /\ Cardinality(Uploads(manifest.objects)) < MaxChunks

\* CaptureBatchIdentity::validate: no nonce twice, the manifest's included.
ValidBatchIdentity(identity) ==
    /\ Cardinality(identity.objects) \in 4..(MaxChunks - 1)
    /\ Cardinality({u.nonce : u \in identity.objects} \cup {identity.manifest.nonce})
         = Cardinality(identity.objects) + 1

\* UploadEnvelope::validate.
ValidEnvelope(envelope) ==
    /\ Cardinality(Range(envelope.proofs)) = 3
    /\ Cardinality(envelope.capabilities) <= MaxCapabilities
    /\ SummariesValid(envelope.summaries, envelope.mode)
    /\ IF envelope.metadata.campaign = NoContext
       THEN envelope.metadata.operation = NoOperation /\ envelope.metadata.parents = {}
       ELSE /\ envelope.metadata.campaign.project = envelope.metadata.scope.project
            /\ envelope.metadata.operation # NoOperation
            /\ Cardinality(envelope.metadata.parents) <= MaxParents
            /\ envelope.metadata.source # "production"
    /\ ValidBatchIdentity(envelope.batch)
    /\ envelope.batch = [manifest |-> envelope.manifest, objects |-> envelope.objects,
                         mode |-> envelope.mode, capture |-> envelope.metadata.scope.capture]

\* validate_manifest_binding.
ManifestBinds(manifest, manifestObject, capsule) ==
    /\ ValidBatch(manifest)
    /\ manifest.capsule = capsule
    /\ \A e \in Range(manifest.objects) : e.descriptor.id # manifestObject.id

\* build_envelope.
BuildEnvelope(request, manifest, manifestObject) ==
    [proofs |-> manifest.proofs, signer |-> request.signer, metadata |-> request.metadata,
     batch |-> [manifest |-> manifestObject, objects |-> Uploads(manifest.objects),
                mode |-> manifest.mode, capture |-> request.metadata.scope.capture],
     fingerprint |-> <<request.groupingKey, Grouping(request.input.expected)>>,
     summaries |-> SafeSummaries(request.input.expected, manifest.mode),
     manifest |-> manifestObject, objects |-> Uploads(manifest.objects),
     mode |-> manifest.mode, capsule |-> manifest.capsule,
     capabilities |-> manifest.capabilities]

\* The upload that enough nonces make, or NoUpload.
SealUpload(request, nonces) ==
    LET contents == Contents(request)
        encrypted == [i \in DOMAIN contents |->
            EncryptObject(request, contents[i].descriptor, contents[i].bytes,
                [k \in 1..ChunkCount(contents[i].bytes.size) |->
                    nonces[ChunksBefore(contents, i) + k]])]
        manifest == BuildManifest(request, encrypted)
        sealedManifest == EncryptObject(request,
            LogicalObject(request.ids.manifest, "capture-batch-manifest", "batch", manifest),
            manifest, <<nonces[NoncesNeeded(contents)]>>).chunks[1]
        manifestObject == [digest |-> sealedManifest.digest, size |-> sealedManifest.size,
                           nonce |-> sealedManifest.nonce, id |-> request.ids.manifest]
        envelope == BuildEnvelope(request, manifest, manifestObject)
        chunks == {u.digest : u \in Uploads(encrypted)} \cup {sealedManifest.digest}
    IN
    IF /\ SealingIdsValid(request)
       /\ ContentsMatch(contents)
       /\ \A i \in 1..NoncesNeeded(contents) : Registered(nonces, i)
       /\ Cardinality(chunks) = NoncesNeeded(contents)
       /\ ValidBatch(manifest)
       /\ CaptureManifestBinds(manifest, request.admitted.capsule, request.admitted.proofs)
       /\ ManifestBinds(manifest, manifestObject, manifest.capsule)
       /\ ValidEnvelope(envelope)
    THEN [envelope |-> envelope, manifest |-> manifest, ciphertext |-> chunks]
    ELSE NoUpload

--------------------------------------------------------------------------------
(* Opening: a store maps the digests it was asked for to what it returned *)

\* validate_ciphertext_closure: every digest, and under each its own chunk.
CiphertextClosed(envelope, store) ==
    LET digests == {u.digest : u \in envelope.objects} \cup {envelope.manifest.digest} IN
    /\ ValidEnvelope(envelope)
    /\ Cardinality(digests) = Cardinality(envelope.objects) + 1
    /\ DOMAIN store = digests
    /\ \A d \in digests : store[d] = d

\* validate_envelope_manifest_binding and validate_payload_uploads.
EnvelopeBinds(envelope, manifest) ==
    /\ manifest.metadata.scope = envelope.metadata.scope
    /\ manifest.mode = envelope.mode
    /\ manifest.proofs = envelope.proofs
    /\ manifest.capsule = envelope.capsule
    /\ manifest.capabilities = envelope.capabilities
    /\ Uploads(manifest.objects) = envelope.objects

\* open_manifest.
ManifestOpens(envelope, signer, key, stored) ==
    LET context == ChunkContext(ObjectContext(envelope.metadata, envelope.mode,
                                              envelope.manifest.id, "capture-batch-manifest"),
                                1, 0, envelope.manifest.size)
    IN
    /\ ValidEnvelope(envelope) /\ envelope.signer = signer
    /\ stored = envelope.manifest.digest
    /\ Decrypts(key, stored, context)
    /\ LET manifest == stored.plain.of IN
       /\ ManifestBinds(manifest, envelope.manifest, envelope.capsule)
       /\ EnvelopeBinds(envelope, manifest)

\* A mutant: the size of what was decrypted is enough.
PlaintextSized(encrypted, parts) ==
    FoldLeft(LAMBDA total, p : total + p.size, 0, parts) = encrypted.descriptor.size

\* The last check of decrypt_object.
PlaintextMatches(encrypted, parts) == parts = Parts(encrypted.descriptor.digest)

\* What the chunks of an object decrypt to.
Decrypted(encrypted, store) ==
    [i \in DOMAIN encrypted.chunks |-> store[encrypted.chunks[i].digest].plain]

\* decrypt_object.
ObjectOpens(envelope, key, encrypted, store) ==
    LET object == ObjectContext(envelope.metadata, envelope.mode,
                                encrypted.descriptor.id, encrypted.descriptor.role)
        count == Len(encrypted.chunks)
    IN
    /\ \A c \in Range(encrypted.chunks) :
         /\ c.digest \in DOMAIN store
         /\ Decrypts(key, store[c.digest], ChunkContext(object, count, c.index, c.size))
    /\ PlaintextMatches(encrypted, Decrypted(encrypted, store))

\* open_capture.
CaptureOpens(envelope, signer, key, store) ==
    /\ CiphertextClosed(envelope, store)
    /\ ManifestOpens(envelope, signer, key, store[envelope.manifest.digest])
    /\ \A e \in Range(store[envelope.manifest.digest].plain.of.objects) :
         ObjectOpens(envelope, key, e, store)

\* What open_capture returns.
OpenedObjects(envelope, store) ==
    LET objects == store[envelope.manifest.digest].plain.of.objects IN
    [id \in {e.descriptor.id : e \in Range(objects)} |->
       Decrypted(CHOOSE e \in Range(objects) : e.descriptor.id = id, store)]

\* open_capture_object: the store must have the digests of the object's
\* chunks and no others.
CaptureObjectOpens(envelope, key, manifest, id, store) ==
    /\ EnvelopeBinds(envelope, manifest)
    /\ \E e \in Range(manifest.objects) :
         /\ e.descriptor.id = id
         /\ Cardinality({c.digest : c \in Range(e.chunks)}) = Len(e.chunks)
         /\ DOMAIN store = {c.digest : c \in Range(e.chunks)}
         /\ ObjectOpens(envelope, key, e, store)

================================================================================

--------------------------- MODULE CaptureAdmission ---------------------------
(***************************************************************************)
(* A private capture from its candidate to its kept copy.  The Runtime     *)
(* seals the candidate, and seals it again after a restart from whatever   *)
(* its sources then return.  A job admits the capsule: it runs it three    *)
(* times, and between two runs it may move to another executor or narrow   *)
(* the processor requirement.  The admitted capture is encrypted, perhaps  *)
(* more than once, stored, and opened from what the store returns.         *)
(*                                                                         *)
(* Each function of the repository that is called here is one step: none   *)
(* keeps state between its calls.  What calls them, in which order, is the *)
(* service around them, which is not part of this repository.              *)
(***************************************************************************)
EXTENDS PrivateClosure, SealedCapture

CONSTANTS
    Captures,        \* the sources of the candidates that may be captured
    Jobs,            \* the sources whose capsule is also admitted
    Rebuilt,         \* a content that was not captured
    Supports,        \* the support packages that may be installed at a restart
    Evidences,       \* the executor and isolation that may be configured then
    Executors,       \* the executors a job may run on
    Requirements,    \* processor requirements a capsule may be narrowed to
    OtherFailure, OtherSupport,
    SealingIds, Metadata, OccurrenceKey, GroupingKey, Signer,
    SealBound,       \* how many capsules of a capture are sealed before a job takes one
    MoveBound,       \* how often a job moves or narrows
    UploadBound,     \* how often an admitted capture is sealed
    None

ASSUME AdmissionAssumption ==
    \A sources \in Captures :
      sources = [field \in {"candidate", "binary", "debug", "exchanges", "support", "evidence",
                            "world", "artifacts"} |-> sources[field]]

\* What is captured is what its candidate names: the subject, the world with
\* its artifacts, and an exchange for each cursor.  Rebuilt is none of it.
ASSUME CapturedAssumption ==
    /\ Rebuilt.kind = "bytes"
    /\ \A sources \in Captures :
         LET candidate == sources.candidate
             exchanges == sources.exchanges
             declared == WorldArtifacts(sources.world)
         IN
         /\ \A list \in {candidate.records, exchanges, declared} : list \in Seq(Range(list))
         /\ candidate.deployment.subject.artifact =
              SingleFileClosure(candidate.deployment.subject, sources.binary, sources.debug,
                                RuntimeFamily(candidate))
         /\ Bodies(candidate, "dependency") = [i \in DOMAIN exchanges |-> exchanges[i].cursor]
         /\ candidate.world = sources.world
         /\ sources.artifacts = [i \in DOMAIN declared |-> declared[i].digest]
         /\ Rebuilt \notin {sources.binary, sources.debug, sources.world} \cup
                           Range(Bodies(candidate, "failure")) \cup Range(sources.artifacts)
         /\ \A x \in Range(Bodies(candidate, "input")) : Rebuilt # x.content

VARIABLES
    captured,  \* the sources as they were captured
    sealed,    \* what seal_private_candidate returned over all restarts, with
               \* the sources of each
    input,     \* AdmissionInput
    moves,     \* how often the job moved or narrowed
    proofs,    \* the proofs of the job
    ran,       \* history: what was executed for each of them
    admitted,  \* AdmittedCandidate, with that history
    uploads,   \* the uploads, each as what it was sealed from
    opened,    \* what was opened, and of which upload
    kept       \* KeptCapture

vars == <<captured, sealed, input, moves, proofs, ran, admitted, uploads,
          opened, kept>>

NoProofs == [run \in RunIndex |-> NoProof]
NoRuns == [run \in RunIndex |-> None]

Init ==
    /\ captured \in Captures
    /\ sealed = {} /\ input = None /\ moves = 0
    /\ proofs = NoProofs /\ ran = NoRuns /\ admitted = None
    /\ uploads = <<>> /\ opened = None /\ kept = None

--------------------------------------------------------------------------------
(* The Runtime *)

Swapped(list) ==
    {[list EXCEPT ![i] = list[i + 1], ![i + 1] = list[i]] : i \in 1..(Len(list) - 1)}

Without(list) == {RemoveAt(list, i) : i \in DOMAIN list}

Replaced(list) == {[list EXCEPT ![i] = Rebuilt] : i \in DOMAIN list}

\* Exchanges of the same cursors, one of them with other bytes.
Diverged(list) ==
    {[list EXCEPT ![i].request = Rebuilt] : i \in DOMAIN list} \cup
    {[list EXCEPT ![i].response = Rebuilt] : i \in DOMAIN list}

\* What the sources of a candidate may return after a restart: a dependency
\* exchange or an artifact is missing, out of place or has other bytes, the
\* subject or the world is no longer what it was, or the Runtime was upgraded.
Returned ==
    {captured} \cup
    {[captured EXCEPT !.exchanges = list] :
        list \in Swapped(captured.exchanges) \cup Without(captured.exchanges)
                    \cup Diverged(captured.exchanges)} \cup
    {[captured EXCEPT !.artifacts = list] :
        list \in Swapped(captured.artifacts) \cup Without(captured.artifacts)
                    \cup Replaced(captured.artifacts)} \cup
    {[captured EXCEPT !.binary = Rebuilt], [captured EXCEPT !.debug = Rebuilt],
     [captured EXCEPT !.world.created = captured.world.created + 1]} \cup
    {[captured EXCEPT !.support = support] : support \in Supports} \cup
    {[captured EXCEPT !.evidence = evidence] : evidence \in Evidences}

Seal(sources) ==
    /\ input = None /\ Cardinality(sealed) < SealBound[captured]
    /\ LET result == SealPrivateCandidate(sources) IN
       sealed' = IF result = NoCapsule THEN sealed
                 ELSE sealed \cup {[sources |-> sources, capsule |-> result.capsule,
                                    closure |-> result.closure, stored |-> result.stored]}
    /\ UNCHANGED <<captured, input, moves, proofs, ran, admitted, uploads, opened, kept>>

--------------------------------------------------------------------------------
(* The admission job *)

\* The job has the policy that was installed when the candidate was captured.
StartAdmission(result, executor) ==
    LET start == [capsule |-> result.capsule, closure |-> result.closure,
                  rules |-> captured.support.rules, stored |-> result.stored,
                  expected |-> captured.candidate.failure.identity,
                  perturbations |-> ManagedPerturbations(executor)]
    IN
    /\ input = None /\ result.sources \in Jobs
    /\ ObjectsClosed(result.capsule.objects, result.stored)
    /\ CandidateBinds(captured.candidate, start)
    /\ input' = start
    /\ UNCHANGED <<captured, sealed, moves, proofs, ran, admitted, uploads, opened, kept>>

\* The job is taken over by another executor, with the proofs it has.
MoveJob(executor) ==
    /\ input # None /\ moves < MoveBound /\ Len(uploads) < UploadBound
    /\ input.perturbations # ManagedPerturbations(executor)
    /\ input' = [input EXCEPT !.perturbations = ManagedPerturbations(executor)]
    /\ moves' = moves + 1
    /\ UNCHANGED <<captured, sealed, proofs, ran, admitted, uploads, opened, kept>>

\* The capsule is bound to a narrower requirement, which may change nothing
\* else of it.
Narrow(requirement) ==
    LET narrowed == BindRequirement(input, requirement) IN
    /\ input # None /\ moves < MoveBound /\ Len(uploads) < UploadBound
    /\ requirement \subseteq input.capsule.processor /\ requirement # input.capsule.processor
    /\ EqualExceptProcessor(input.capsule, narrowed.capsule)
    /\ input' = narrowed
    /\ moves' = moves + 1
    /\ UNCHANGED <<captured, sealed, proofs, ran, admitted, uploads, opened, kept>>

\* admit_run on an executor that cleans up or not, reproduces the failure,
\* another one or none, and is of the supported kind or not.  A run that
\* fails leaves the proof of an earlier one.
Run(run, observation) ==
    /\ input # None /\ Len(uploads) < UploadBound
    /\ LET proof == AdmitRun(input, run, observation) IN
       IF proof = NoProof THEN UNCHANGED <<proofs, ran>>
       ELSE /\ proofs' = [proofs EXCEPT ![run] = proof]
            /\ ran' = [ran EXCEPT ![run] =
                 [capsule |-> input.capsule, case |-> CaseOf[run],
                  executor |-> input.perturbations[run].executor,
                  failure |-> observation.failure, clean |-> observation.clean,
                  support |-> observation.executor]]
    /\ UNCHANGED <<captured, sealed, input, moves, admitted, uploads, opened, kept>>

Executions ==
    {[clean |-> clean, failure |-> failure, executor |-> executor] :
        clean \in BOOLEAN, executor \in {captured.support.bundle, OtherSupport},
        failure \in {captured.candidate.failure.identity, OtherFailure, None}}

Complete ==
    /\ input # None /\ \A run \in RunIndex : proofs[run] # NoProof
    /\ IF AdmissionComplete(input, proofs)
       THEN admitted' = [capsule |-> input.capsule, proofs |-> proofs, ran |-> ran,
                         perturbations |-> input.perturbations]
       ELSE UNCHANGED admitted
    /\ proofs' = NoProofs /\ ran' = NoRuns
    /\ UNCHANGED <<captured, sealed, input, moves, uploads, opened, kept>>

--------------------------------------------------------------------------------
(* Sealing and opening *)

Request ==
    [admitted |-> admitted, input |-> input, ids |-> SealingIds, metadata |-> Metadata,
     key |-> OccurrenceKey, groupingKey |-> GroupingKey, signer |-> Signer]

\* What the nonce source returns: nonces it never returned, with at most one
\* that repeats an earlier one of this seal; or, as a source that is made for
\* each seal, the same ones again.
NonceSequences ==
    LET needed == NoncesNeeded(Contents(Request))
        fresh == [i \in 1..needed |-> Len(uploads) * MaxChunks + i]
        again == [i \in 1..needed |-> i]
    IN {fresh, again} \cup {[fresh EXCEPT ![i] = fresh[j]] : i \in 2..needed, j \in {1}} \cup
       {[fresh EXCEPT ![i] = fresh[i - 1]] : i \in 2..needed}

Upload(nonces) ==
    /\ admitted # None /\ input # None /\ proofs = NoProofs /\ Len(uploads) < UploadBound
    /\ uploads' = IF SealUpload(Request, nonces) = NoUpload THEN uploads
                  ELSE Append(uploads, [request |-> Request, nonces |-> nonces])
    /\ UNCHANGED <<captured, sealed, input, moves, proofs, ran, admitted, opened, kept>>

\* What seal_upload returned for the upload.
Sealed(u) == SealUpload(uploads[u].request, uploads[u].nonces)

StoreOf(digests) == [d \in digests |-> d]

\* What a store returns for the digests of an upload or an object: all, all
\* but one, or in the place of one another chunk of the same object, from
\* this or from another upload.
Stores(digests, chunks) ==
    LET whole == StoreOf(digests) IN
    {whole} \cup
    {StoreOf(digests \ {d}) : d \in digests} \cup
    UNION {{[whole EXCEPT ![d] = c] :
              c \in {c \in chunks : c # d /\ c.context.object = d.context.object}} :
           d \in digests}

\* Opening changes nothing and is looked at once, after the last upload:
\* until then the store has fewer chunks to return.
MayOpen == opened = None /\ Len(uploads) = UploadBound

Open(u, upload, store) ==
    /\ CaptureOpens(upload.envelope, Signer, OccurrenceKey, store)
    /\ opened' = [upload |-> u, objects |-> OpenedObjects(upload.envelope, store)]
    /\ UNCHANGED <<captured, sealed, input, moves, proofs, ran, admitted, uploads, kept>>

\* One object, under the envelope of one upload and the manifest of another.
OpenObject(u, upload, manifest, e, store) ==
    /\ CaptureObjectOpens(upload.envelope, OccurrenceKey, manifest, e.descriptor.id, store)
    /\ opened' = [upload |-> u, objects |-> [id \in {e.descriptor.id} |-> Decrypted(e, store)]]
    /\ UNCHANGED <<captured, sealed, input, moves, proofs, ran, admitted, uploads, kept>>

\* KeptCapture::copy_verified.
Keep(u, upload, store) ==
    /\ kept = None
    /\ CaptureOpens(upload.envelope, Signer, OccurrenceKey, store)
    /\ kept' = [upload |-> u, envelope |-> upload.envelope, store |-> store]
    /\ UNCHANGED <<captured, sealed, input, moves, proofs, ran, admitted, uploads, opened>>

\* KeptCapture::open.
OpenKept ==
    /\ kept # None
    /\ CaptureOpens(kept.envelope, Signer, OccurrenceKey, kept.store)
    /\ opened' = [upload |-> kept.upload, objects |-> OpenedObjects(kept.envelope, kept.store)]
    /\ UNCHANGED <<captured, sealed, input, moves, proofs, ran, admitted, uploads, kept>>

OpenSome ==
    \E all \in {[u \in DOMAIN uploads |-> Sealed(u)]} :
    \E chunks \in {UNION {all[u].ciphertext : u \in DOMAIN uploads}} :
      \/ \E u \in DOMAIN uploads : \E store \in Stores(all[u].ciphertext, chunks) :
           Open(u, all[u], store) \/ Keep(u, all[u], store)
      \/ \E u, m \in DOMAIN uploads : \E e \in Range(all[m].manifest.objects) :
           \E store \in Stores({c.digest : c \in Range(e.chunks)}, chunks) :
             OpenObject(u, all[u], all[m].manifest, e, store)

Next ==
    \/ \E sources \in Returned : Seal(sources)
    \/ \E result \in sealed, executor \in Executors : StartAdmission(result, executor)
    \/ \E executor \in Executors : MoveJob(executor)
    \/ \E requirement \in Requirements : Narrow(requirement)
    \/ \E run \in RunIndex, observation \in Executions : Run(run, observation)
    \/ Complete
    \/ admitted # None /\ \E nonces \in NonceSequences : Upload(nonces)
    \/ MayOpen /\ kept = None /\ OpenSome
    \/ MayOpen /\ OpenKept

Spec == Init /\ [][Next]_vars

--------------------------------------------------------------------------------
(* Properties *)

\* What no document of the candidate fixes.
Uncommitted(sources) == <<sources.exchanges, sources.support, sources.evidence>>

\* What of a capsule the candidate fixes: all but the exchanges, the support
\* and the closure over them.
Committed(capsule) ==
    <<capsule.subject, capsule.trigger, capsule.failure, capsule.world, capsule.processor,
      {o \in capsule.objects : o.role # "dependency-transcript"}>>

\* The bytes of the exchanges in a capsule, in their order.
SealedExchanges(capsule) ==
    LET found == Matching(capsule.objects, "dependency-transcript", [media |-> "transcript"])
        steps == Manifest(found).interactions
    IN IF found = {} THEN <<>>
       ELSE [i \in DOMAIN steps |-> <<steps[i].request, steps[i].response>>]

\* Whatever the sources return after a restart, seal_private_candidate makes a
\* capsule with the captured subject, inputs, failure and world, or none.  Two
\* capsules differ only if the exchanges, the support package or the evidence
\* did.  A capsule holds for each cursor of the candidate, in their order, an
\* exchange that was returned for that cursor.
ResealIdentical ==
    \A seal \in sealed :
      /\ \A other \in sealed :
           /\ Committed(other.capsule) = Committed(seal.capsule)
           /\ Uncommitted(other.sources) = Uncommitted(seal.sources) =>
                other.capsule = seal.capsule
      /\ {o.digest : o \in Matching(seal.capsule.objects, "world-state", <<>>)}
           = {a.digest : a \in Range(WorldArtifacts(captured.candidate.world))}
      /\ \A o \in seal.capsule.objects : o.role # "dependency-transcript" => o.digest # Rebuilt
      /\ LET cursors == Bodies(captured.candidate, "dependency")
             exchanges == SealedExchanges(seal.capsule)
         IN
         /\ DOMAIN exchanges = DOMAIN cursors
         /\ \A i \in DOMAIN cursors : \E x \in Range(seal.sources.exchanges) :
              x.cursor = cursors[i] /\ exchanges[i] = <<x.request, x.response>>

\* Sealing "fails closed on every missing or divergent provider source"
\* (reproit-backend/tests/private_closure.rs:6): what is sealed has the
\* exchanges that were captured.  derive_dependency_transcript compares an
\* exchange with its cursor only, and the cursor does not fix the bytes.
DivergentExchangeRefused ==
    \A seal \in sealed : SealedExchanges(seal.capsule) =
        [i \in DOMAIN captured.exchanges |->
           <<captured.exchanges[i].request, captured.exchanges[i].response>>]

\* A candidate is admitted only when the very capsule that is admitted, with
\* the processor requirement it has, ran three times on one executor of the
\* kind it was sealed for, once under each perturbation, and each time was cleaned up
\* and failed the way the candidate did; and proof::admit accepts whatever was
\* uploaded.
AdmittedWasReproduced ==
    /\ admitted # None => \A run \in RunIndex :
         /\ admitted.ran[run].capsule = admitted.capsule
         /\ admitted.ran[run].case = CaseOf[run]
         /\ admitted.ran[run].executor = admitted.ran[0].executor
         /\ admitted.ran[run].failure = captured.candidate.failure.identity
         /\ admitted.ran[run].clean
         /\ admitted.ran[run].support = admitted.capsule.support
    /\ admitted # None => \E result \in sealed :
         EqualExceptProcessor(result.capsule, admitted.capsule)
    /\ \A u \in DOMAIN uploads :
         LET request == uploads[u].request IN
         CaptureAdmitted(request.input.capsule, request.input.rules, request.input.closure,
                         request.admitted.proofs, request.admitted.perturbations,
                         Sealed(u).manifest)

\* What open_capture, open_capture_object and a kept copy return for an
\* object is what was sealed under its identity in that upload, whatever
\* chunks of it or of an earlier upload the store returned.
OpenedIsSealed ==
    opened # None =>
        LET contents == Contents(uploads[opened.upload].request) IN
        \A id \in DOMAIN opened.objects :
          \E i \in DOMAIN contents :
            /\ contents[i].descriptor.id = id
            /\ opened.objects[id] = Parts(contents[i].bytes)

================================================================================

------------------------- MODULE CaptureAdmissionProofs -------------------------
(***************************************************************************)
(* Proofs about CaptureAdmission, for any captures, executors,             *)
(* requirements, keys and bounds, and for whatever the executors, the      *)
(* nonce source and the store return.                                      *)
(***************************************************************************)
EXTENDS CaptureAdmission, FiniteSetTheorems, SequenceTheorems, TLAPS

--------------------------------------------------------------------------------
(* Admission *)

SourceFields ==
    {"candidate", "binary", "debug", "exchanges", "support", "evidence", "world", "artifacts"}

\* What a capsule must have for a change of its processor requirement to leave
\* the rest of it alone.
CapsuleOk(capsule) ==
    /\ {"closure", "objects"} \subseteq DOMAIN capsule
    /\ Cardinality(capsule.objects) \in Nat

SealedInv ==
    /\ captured \in Captures
    /\ \A result \in sealed :
         CapsuleOk(result.capsule) /\ result.closure = result.capsule.closure

InputFields ==
    input = [capsule |-> input.capsule, closure |-> input.closure, rules |-> input.rules,
             stored |-> input.stored, expected |-> input.expected,
             perturbations |-> input.perturbations]

\* The input of a job is that of a sealed capsule, whatever became of its
\* processor requirement, on one executor.
InputInv ==
    input # None =>
      /\ InputFields
      /\ input.rules = captured.support.rules
      /\ input.expected = captured.candidate.failure.identity
      /\ input.closure = input.capsule.closure
      /\ CapsuleOk(input.capsule)
      /\ \E executor : input.perturbations = ManagedPerturbations(executor)
      /\ \E result \in sealed : EqualExceptProcessor(result.capsule, input.capsule)

\* A proof says what was executed for it.
ProofInv ==
    /\ DOMAIN proofs = RunIndex /\ DOMAIN ran = RunIndex
    /\ \A run \in RunIndex : proofs[run] # NoProof =>
         /\ ran[run].capsule = proofs[run].capsule
         /\ ran[run].case = CaseOf[run]
         /\ ran[run].executor = proofs[run].perturbation.executor
         /\ ran[run].failure = captured.candidate.failure.identity
         /\ ran[run].clean
         /\ ran[run].support = proofs[run].executor

RunsReproduced ==
    \A run \in RunIndex :
      /\ admitted.ran[run].capsule = admitted.capsule
      /\ admitted.ran[run].case = CaseOf[run]
      /\ admitted.ran[run].executor = admitted.ran[0].executor
      /\ admitted.ran[run].failure = captured.candidate.failure.identity
      /\ admitted.ran[run].clean
      /\ admitted.ran[run].support = admitted.capsule.support

AdmittedInv ==
    admitted # None =>
      /\ RunsReproduced
      /\ \E result \in sealed : EqualExceptProcessor(result.capsule, admitted.capsule)
      /\ ProofSetValid(admitted.capsule, admitted.proofs, admitted.perturbations)
      /\ ClosesWorld(captured.support.rules, admitted.capsule.closure)

\* A sealed capsule is closed by the closure beside it.
LEMMA SealedCapsule ==
    ASSUME NEW sources, SealPrivateCandidate(sources) # NoCapsule
    PROVE  LET result == SealPrivateCandidate(sources) IN
           CapsuleOk(result.capsule) /\ result.closure = result.capsule.closure
<1> DEFINE candidate == sources.candidate
           trigger == DeriveTrigger(candidate)
           subject == SingleFileClosure(candidate.deployment.subject, sources.binary,
                                        sources.debug, RuntimeFamily(candidate))
           objects == ObjectSet(Pushes(sources, trigger, subject))
           stored == [id \in {o.id : o \in Range(objects)} |->
                        (CHOOSE o \in Range(objects) : o.id = id).digest]
           closure == CloseManagedWorld(sources.support.rules, Evidence(sources, objects))
           request == [candidate |-> candidate, closure |-> closure, world |-> sources.world,
                       objects |-> Append(objects, CandidateDescriptor(candidate)),
                       failure |-> Bodies(candidate, "failure")[1], trigger |-> trigger,
                       support |-> sources.support]
           closed == CloseReplayCapsule(request)
           capsule == BindProcessor(closed, candidate.deployment.processor)
           result == [capsule |-> capsule, closure |-> closure, stored |-> stored]
<1>1. /\ SealPrivateCandidate(sources) = result
      /\ closed # NoCapsule /\ ResolvesCapsule(capsule, stored)
  BY DEF SealPrivateCandidate
<1>2. request.closure = closure
  OBVIOUS
<1> HIDE DEF request, closure, stored, objects
<1>3. closed = ClosedCapsule(request) /\ ValidCapsule(ClosedCapsule(request))
  BY <1>1 DEF CloseReplayCapsule
<1>4. /\ {"closure", "objects"} \subseteq DOMAIN closed
      /\ closed.closure = closure
      /\ Cardinality(closed.objects) \in Nat
  <2>1. closed.closure = closure
    BY <1>2, <1>3 DEF ClosedCapsule
  <2>2. {"closure", "objects"} \subseteq DOMAIN closed
    BY <1>3 DEF ClosedCapsule
  <2>3. Cardinality(closed.objects) \in Nat
    BY <1>3 DEF ValidCapsule
  <2> QED BY <2>1, <2>2, <2>3
<1> HIDE DEF closed
<1>5. capsule = [closed EXCEPT !.processor = candidate.deployment.processor]
  BY DEF BindProcessor
<1>6. /\ DOMAIN capsule = DOMAIN closed
      /\ capsule.closure = closed.closure /\ capsule.objects = closed.objects
  <2> HIDE DEF capsule, candidate
  <2> QED BY <1>4, <1>5
<1>7. CapsuleOk(capsule) /\ closure = capsule.closure
  <2> HIDE DEF capsule
  <2> QED BY <1>4, <1>6 DEF CapsuleOk
<1>8. result.capsule = capsule /\ result.closure = closure
  OBVIOUS
<1> HIDE DEF result, capsule
<1> QED BY <1>1, <1>7, <1>8

LEMMA SealedStep == ASSUME SealedInv, [Next]_vars PROVE SealedInv' /\ captured' = captured
<1>1. captured' = captured
  BY DEF Next, Seal, StartAdmission, MoveJob, Narrow, Run, Complete, Upload, OpenSome, Open,
     OpenObject, Keep, OpenKept, vars
<1>2. CASE sealed' = sealed
  BY <1>1, <1>2 DEF SealedInv, CapsuleOk
<1>3. ASSUME NEW sources \in Returned, Seal(sources), sealed' # sealed PROVE SealedInv'
  <2> DEFINE result == SealPrivateCandidate(sources)
             seal == [sources |-> sources, capsule |-> result.capsule,
                      closure |-> result.closure, stored |-> result.stored]
  <2>1. result # NoCapsule /\ sealed' = sealed \cup {seal}
    BY <1>3 DEF Seal
  <2>2. CapsuleOk(result.capsule) /\ result.closure = result.capsule.closure
    BY <2>1, SealedCapsule
  <2> HIDE DEF result
  <2>3. CapsuleOk(seal.capsule) /\ seal.closure = seal.capsule.closure
    BY <2>2
  <2> HIDE DEF seal
  <2> QED BY <1>1, <2>1, <2>3 DEF SealedInv, CapsuleOk
<1> QED
  BY <1>1, <1>2, <1>3 DEF Next, StartAdmission, MoveJob, Narrow, Run, Complete, Upload, OpenSome,
     Open, OpenObject, Keep, OpenKept, vars

\* The capsule of a job changes by its processor requirement only.
LEMMA InputStep == ASSUME SealedInv, InputInv, [Next]_vars PROVE InputInv'
<1>1. SealedInv' /\ captured' = captured
  BY SealedStep
<1>2. sealed \subseteq sealed'
  BY DEF Next, Seal, StartAdmission, MoveJob, Narrow, Run, Complete, Upload, OpenSome, Open,
     OpenObject, Keep, OpenKept, vars
<1>3. CASE input' = input
  BY <1>1, <1>2, <1>3 DEF InputInv, InputFields, CapsuleOk
<1>4. ASSUME NEW result \in sealed, NEW executor \in Executors, StartAdmission(result, executor)
      PROVE  InputInv'
  <2> DEFINE start == [capsule |-> result.capsule, closure |-> result.closure,
                       rules |-> captured.support.rules, stored |-> result.stored,
                       expected |-> captured.candidate.failure.identity,
                       perturbations |-> ManagedPerturbations(executor)]
  <2>1. input' = start
    BY <1>4 DEF StartAdmission
  <2>2. EqualExceptProcessor(result.capsule, result.capsule)
    BY DEF EqualExceptProcessor
  <2>3. CapsuleOk(result.capsule)' /\ result.closure = result.capsule.closure
    BY <1>1 DEF SealedInv, CapsuleOk
  <2>4. start = [capsule |-> start.capsule, closure |-> start.closure, rules |-> start.rules,
                 stored |-> start.stored, expected |-> start.expected,
                 perturbations |-> start.perturbations]
    OBVIOUS
  <2>5. /\ start.capsule = result.capsule /\ start.closure = result.closure
        /\ start.rules = captured.support.rules
        /\ start.expected = captured.candidate.failure.identity
        /\ start.perturbations = ManagedPerturbations(executor)
    OBVIOUS
  <2> HIDE DEF start
  <2> QED BY <1>1, <1>2, <2>1, <2>2, <2>3, <2>4, <2>5 DEF InputInv, InputFields, CapsuleOk
<1>5. ASSUME NEW executor \in Executors, MoveJob(executor) PROVE InputInv'
  <2>1. input # None /\ input' = [input EXCEPT !.perturbations = ManagedPerturbations(executor)]
    BY <1>5 DEF MoveJob
  <2>2. InputFields
    BY <2>1 DEF InputInv
  <2>3. /\ InputFields'
        /\ input'.perturbations = ManagedPerturbations(executor)
        /\ input'.capsule = input.capsule /\ input'.closure = input.closure
        /\ input'.rules = input.rules /\ input'.expected = input.expected
    <3> DEFINE moved == ManagedPerturbations(executor)
    <3> HIDE DEF moved
    <3>1. input' = [capsule |-> input.capsule, closure |-> input.closure, rules |-> input.rules,
                    stored |-> input.stored, expected |-> input.expected,
                    perturbations |-> moved]
      BY <2>1, <2>2 DEF InputFields, moved
    <3> QED BY <3>1 DEF InputFields, moved
  <2> QED BY <1>1, <1>2, <2>1, <2>3 DEF InputInv, CapsuleOk
<1>6. ASSUME NEW requirement \in Requirements, Narrow(requirement) PROVE InputInv'
  <2> DEFINE capsule == [input.capsule EXCEPT !.processor = requirement]
  <2>1. /\ input # None /\ input' = [input EXCEPT !.capsule = capsule]
        /\ EqualExceptProcessor(input.capsule, input'.capsule)
    BY <1>6 DEF Narrow, BindRequirement
  <2>2. InputFields /\ CapsuleOk(input.capsule)
    BY <2>1 DEF InputInv
  <2>3. CapsuleOk(capsule) /\ capsule.closure = input.capsule.closure
    BY <2>2 DEF CapsuleOk
  <2> HIDE DEF capsule
  <2>4. /\ InputFields' /\ input'.capsule = capsule /\ input'.closure = input.closure
        /\ input'.perturbations = input.perturbations
        /\ input'.rules = input.rules /\ input'.expected = input.expected
    <3>1. input' = [capsule |-> capsule, closure |-> input.closure, rules |-> input.rules,
                    stored |-> input.stored, expected |-> input.expected,
                    perturbations |-> input.perturbations]
      BY <2>1, <2>2 DEF InputFields
    <3> QED BY <3>1 DEF InputFields
  <2>5. \E result \in sealed : EqualExceptProcessor(result.capsule, input'.capsule)
    BY <2>1 DEF InputInv, EqualExceptProcessor
  <2> QED BY <1>1, <1>2, <2>1, <2>3, <2>4, <2>5 DEF InputInv, CapsuleOk
<1> QED
  BY <1>3, <1>4, <1>5, <1>6 DEF Next, Seal, Run, Complete, Upload, OpenSome, Open, OpenObject,
     Keep, OpenKept, vars

\* admit_run leaves a proof of what was executed, and only of the failure that
\* is expected, on an executor that was cleaned up.
LEMMA ProofStep == ASSUME SealedInv, InputInv, ProofInv, [Next]_vars PROVE ProofInv'
<1>1. captured' = captured
  BY SealedStep
<1>2. CASE UNCHANGED <<proofs, ran>>
  BY <1>1, <1>2 DEF ProofInv
<1>3. ASSUME NEW run \in RunIndex, NEW observation \in Executions, Run(run, observation)
      PROVE  ProofInv'
  <2> DEFINE proof == AdmitRun(input, run, observation)
             entry == [capsule |-> input.capsule, case |-> CaseOf[run],
                       executor |-> input.perturbations[run].executor,
                       failure |-> observation.failure, clean |-> observation.clean,
                       support |-> observation.executor]
  <2>1. CASE proof = NoProof
    BY <1>2, <1>3, <2>1 DEF Run
  <2>2. CASE proof # NoProof
    <3>1. /\ observation.clean /\ observation.failure = input.expected
          /\ proof.capsule = input.capsule /\ proof.executor = observation.executor
          /\ proof.perturbation = input.perturbations[run]
      BY <2>2 DEF AdmitRun
    <3>2. /\ proofs' = [proofs EXCEPT ![run] = proof] /\ ran' = [ran EXCEPT ![run] = entry]
          /\ input # None
      BY <1>3, <2>2 DEF Run
    <3>3. input.expected = captured.candidate.failure.identity
      BY <3>2 DEF InputInv
    <3>4. /\ entry.capsule = proof.capsule /\ entry.case = CaseOf[run]
          /\ entry.executor = proof.perturbation.executor
          /\ entry.failure = captured.candidate.failure.identity
          /\ entry.clean
          /\ entry.support = proof.executor
      <4> HIDE DEF proof
      <4> QED BY <3>1, <3>3
    <3> HIDE DEF proof, entry
    <3>5. DOMAIN proofs' = RunIndex /\ DOMAIN ran' = RunIndex
      BY <3>2 DEF ProofInv
    <3>6. proofs'[run] = proof /\ ran'[run] = entry
      BY <3>2 DEF ProofInv
    <3>7. \A other \in RunIndex \ {run} :
            proofs'[other] = proofs[other] /\ ran'[other] = ran[other]
      BY <3>2 DEF ProofInv
    <3>8. \A other \in RunIndex : proofs'[other] # NoProof =>
            /\ ran'[other].capsule = proofs'[other].capsule
            /\ ran'[other].case = CaseOf[other]
            /\ ran'[other].executor = proofs'[other].perturbation.executor
            /\ ran'[other].failure = captured.candidate.failure.identity
            /\ ran'[other].clean
            /\ ran'[other].support = proofs'[other].executor
      BY <3>4, <3>6, <3>7 DEF ProofInv
    <3> QED BY <1>1, <3>5, <3>8 DEF ProofInv
  <2> QED BY <2>1, <2>2
<1>4. CASE Complete
  BY <1>4 DEF Complete, ProofInv, NoProofs, NoRuns
<1> QED
  BY <1>2, <1>3, <1>4 DEF Next, Seal, StartAdmission, MoveJob, Narrow, Upload, OpenSome, Open,
     OpenObject, Keep, OpenKept, vars

\* complete_admission binds the three proofs to the capsule as it then is.
LEMMA AdmittedStep ==
    ASSUME SealedInv, InputInv, ProofInv, AdmittedInv, [Next]_vars
    PROVE  AdmittedInv'
<1>1. captured' = captured
  BY SealedStep
<1>2. sealed \subseteq sealed'
  BY DEF Next, Seal, StartAdmission, MoveJob, Narrow, Run, Complete, Upload, OpenSome, Open,
     OpenObject, Keep, OpenKept, vars
<1>3. CASE admitted' = admitted
  BY <1>1, <1>2, <1>3 DEF AdmittedInv, RunsReproduced
<1>4. ASSUME Complete, admitted' # admitted PROVE AdmittedInv'
  <2> DEFINE result == [capsule |-> input.capsule, proofs |-> proofs, ran |-> ran,
                        perturbations |-> input.perturbations]
  <2>1. /\ input # None /\ admitted' = result
        /\ AdmissionInputValid(input)
        /\ ProofSetValid(input.capsule, proofs, input.perturbations)
    BY <1>4 DEF Complete, AdmissionComplete
  <2>2. /\ result.capsule = input.capsule /\ result.proofs = proofs /\ result.ran = ran
        /\ result.perturbations = input.perturbations
    OBVIOUS
  <2> HIDE DEF result
  <2>3. PICK executor : input.perturbations = ManagedPerturbations(executor)
    BY <2>1 DEF InputInv
  <2>4. \A run \in RunIndex :
          /\ proofs[run] # NoProof /\ proofs[run].capsule = input.capsule
          /\ proofs[run].perturbation.executor = executor
          /\ proofs[run].executor = input.capsule.support
    <3> TAKE run \in RunIndex
    <3>1. proofs[run] # NoProof /\ RunBinds(input.capsule, proofs[run], input.perturbations[run], run)
      BY <2>1 DEF ProofSetValid
    <3>2. input.perturbations[run].executor = executor
      BY <2>3 DEF ManagedPerturbations
    <3> QED BY <2>1, <3>1, <3>2 DEF RunBinds, InputInv, CapsuleOk
  <2>5. \A run \in RunIndex :
          /\ ran[run].capsule = input.capsule
          /\ ran[run].case = CaseOf[run]
          /\ ran[run].executor = executor
          /\ ran[run].failure = captured.candidate.failure.identity
          /\ ran[run].clean
          /\ ran[run].support = input.capsule.support
    BY <2>4 DEF ProofInv
  <2>6. 0 \in RunIndex
    BY DEF RunIndex
  <2>7. RunsReproduced'
    BY <1>1, <2>1, <2>2, <2>5, <2>6 DEF RunsReproduced
  <2>8. ClosesWorld(captured.support.rules, input.capsule.closure)
    BY <2>1 DEF AdmissionInputValid, InputInv
  <2>9. \E other \in sealed : EqualExceptProcessor(other.capsule, input.capsule)
    BY <2>1 DEF InputInv
  <2> QED BY <1>1, <1>2, <2>1, <2>2, <2>7, <2>8, <2>9 DEF AdmittedInv
<1> QED
  BY <1>3, <1>4 DEF Next, Seal, StartAdmission, MoveJob, Narrow, Run, Upload, OpenSome, Open,
     OpenObject, Keep, OpenKept, vars

--------------------------------------------------------------------------------
(* Uploads *)

\* The parts of what seal_upload returns.
EncryptedObjects(request, nonces) ==
    LET contents == Contents(request) IN
    [i \in DOMAIN contents |->
       EncryptObject(request, contents[i].descriptor, contents[i].bytes,
           [k \in 1..ChunkCount(contents[i].bytes.size) |->
               nonces[ChunksBefore(contents, i) + k]])]

ManifestOf(request, nonces) == BuildManifest(request, EncryptedObjects(request, nonces))

SealedManifest(request, nonces) ==
    EncryptObject(request,
        LogicalObject(request.ids.manifest, "capture-batch-manifest", "batch",
                      ManifestOf(request, nonces)),
        ManifestOf(request, nonces), <<nonces[NoncesNeeded(Contents(request))]>>).chunks[1]

ManifestObject(request, nonces) ==
    [digest |-> SealedManifest(request, nonces).digest,
     size |-> SealedManifest(request, nonces).size,
     nonce |-> SealedManifest(request, nonces).nonce, id |-> request.ids.manifest]

EnvelopeOf(request, nonces) ==
    BuildEnvelope(request, ManifestOf(request, nonces), ManifestObject(request, nonces))

LEMMA SealParts ==
    ASSUME NEW request, NEW nonces, SealUpload(request, nonces) # NoUpload
    PROVE  /\ SealUpload(request, nonces).envelope = EnvelopeOf(request, nonces)
           /\ SealUpload(request, nonces).manifest = ManifestOf(request, nonces)
           /\ ContentsMatch(Contents(request))
           /\ ValidBatch(ManifestOf(request, nonces))
           /\ CaptureManifestBinds(ManifestOf(request, nonces), request.admitted.capsule,
                                   request.admitted.proofs)
BY DEF SealUpload, EnvelopeOf, ManifestOf, ManifestObject, SealedManifest, EncryptedObjects

\* The capsule object is refused unless the input still has the capsule that
\* was admitted.
LEMMA CapsuleAdmitted ==
    ASSUME NEW request, Cardinality(request.input.capsule.objects) \in Nat,
           ContentsMatch(Contents(request))
    PROVE  request.admitted.capsule = request.input.capsule
<1> DEFINE n == Cardinality(request.input.capsule.objects)
           capsule == [LogicalObject(request.ids.capsule, "replay-capsule-manifest", "capsule",
                                     request.input.capsule)
                       EXCEPT !.digest = request.admitted.capsule]
           entry == [descriptor |-> capsule, bytes |-> request.input.capsule]
           objects == Listed(request.input.capsule.objects)
           object(i) == [descriptor |-> objects[i],
                         bytes |-> request.input.stored[objects[i].id]]
           proof(i) == [descriptor |-> LogicalObject(request.ids.proofs[i - n - 1],
                                           "admission-proof", "proof",
                                           request.admitted.proofs[i - n - 1 - 1]),
                        bytes |-> request.admitted.proofs[i - n - 1 - 1]]
<1>1. n + 1 \in DOMAIN Contents(request) /\ Contents(request)[n + 1] = entry
  <2>1. Contents(request) = [i \in 1..(n + 4) |-> CASE i <= n     -> object(i)
                                                    [] i = n + 1 -> entry
                                                    [] i > n + 1 -> proof(i)]
    BY Zenon DEF Contents
  <2> HIDE DEF n, entry, object, proof
  <2>2. n \in Nat
    BY DEF n
  <2> QED BY <2>1, <2>2
<1>2. entry.descriptor.digest = request.admitted.capsule /\ entry.bytes = request.input.capsule
  BY DEF LogicalObject
<1> HIDE DEF entry
<1> QED BY <1>1, <1>2 DEF ContentsMatch

IsSequence(s) == s \in Seq({s[i] : i \in DOMAIN s})

\* What was in a sequence stays where it was.
LEMMA AppendKeeps ==
    ASSUME NEW s, IsSequence(s), NEW e
    PROVE  /\ IsSequence(Append(s, e))
           /\ DOMAIN Append(s, e) = DOMAIN s \cup {Len(s) + 1}
           /\ Len(s) + 1 \notin DOMAIN s
           /\ \A i \in DOMAIN s : Append(s, e)[i] = s[i]
           /\ Append(s, e)[Len(s) + 1] = e
<1> DEFINE S == {s[i] : i \in DOMAIN s}
           T == {Append(s, e)[i] : i \in DOMAIN Append(s, e)}
<1>1. s \in Seq(S) /\ s \in Seq(S \cup {e}) /\ e \in S \cup {e}
  BY DEF IsSequence
<1>2. /\ Append(s, e) \in Seq(S \cup {e})
      /\ Len(s) \in Nat /\ DOMAIN s = 1..Len(s)
      /\ Len(Append(s, e)) = Len(s) + 1
      /\ \A i \in 1..Len(s) : Append(s, e)[i] = s[i]
      /\ Append(s, e)[Len(s) + 1] = e
  <2> HIDE DEF S
  <2> QED BY <1>1
<1>3. DOMAIN Append(s, e) = 1..(Len(s) + 1)
  <2> HIDE DEF S
  <2> QED BY <1>2
<1>4. Append(s, e) \in Seq(T)
  <2> HIDE DEF S
  <2>1. \A i \in 1..Len(Append(s, e)) : Append(s, e)[i] \in T
    BY <1>2, <1>3
  <2> HIDE DEF T
  <2> QED BY <1>2, <2>1
<1> QED BY <1>2, <1>3, <1>4 DEF IsSequence

CaptureAccepted(u) ==
    LET request == uploads[u].request IN
    CaptureAdmitted(request.input.capsule, request.input.rules, request.input.closure,
                    request.admitted.proofs, request.admitted.perturbations,
                    Sealed(u).manifest)

UploadInv ==
    /\ IsSequence(uploads)
    /\ \A u \in DOMAIN uploads : Sealed(u) # NoUpload /\ CaptureAccepted(u)

\* What is sealed passes the check of a whole capture.
LEMMA SealedIsAdmitted ==
    ASSUME InputInv, AdmittedInv, input # None, admitted # None, NEW nonces,
           SealUpload(Request, nonces) # NoUpload
    PROVE  CaptureAdmitted(Request.input.capsule, Request.input.rules, Request.input.closure,
                           Request.admitted.proofs, Request.admitted.perturbations,
                           SealUpload(Request, nonces).manifest)
<1> DEFINE request == Request
           manifest == SealUpload(request, nonces).manifest
<1>1. request.input = input /\ request.admitted = admitted
  BY DEF Request
<1> HIDE DEF request
<1>2. /\ ContentsMatch(Contents(request))
      /\ manifest = ManifestOf(request, nonces)
      /\ CaptureManifestBinds(manifest, request.admitted.capsule, request.admitted.proofs)
  BY SealParts DEF request
<1>3. request.admitted.capsule = request.input.capsule
  BY <1>1, <1>2, CapsuleAdmitted DEF InputInv, CapsuleOk
<1>4. manifest.mode = input.capsule.mode
  BY <1>1, <1>2 DEF ManifestOf, BuildManifest
<1>5. /\ ClosesWorld(input.rules, input.closure) /\ input.capsule.closure = input.closure
      /\ ProofSetValid(input.capsule, admitted.proofs, admitted.perturbations)
  BY <1>1, <1>3 DEF InputInv, AdmittedInv
<1> HIDE DEF manifest
<1>6. CaptureAdmitted(request.input.capsule, request.input.rules, request.input.closure,
                      request.admitted.proofs, request.admitted.perturbations, manifest)
  BY <1>1, <1>2, <1>3, <1>4, <1>5 DEF CaptureAdmitted
<1> QED BY <1>6 DEF manifest, request

LEMMA UploadStep == ASSUME InputInv, AdmittedInv, UploadInv, [Next]_vars PROVE UploadInv'
<1>1. CASE uploads' = uploads
  BY <1>1 DEF UploadInv, Sealed, CaptureAccepted
<1>2. ASSUME NEW nonces \in NonceSequences, Upload(nonces), uploads' # uploads PROVE UploadInv'
  <2> DEFINE entry == [request |-> Request, nonces |-> nonces]
  <2> PICK n : n = Len(uploads) + 1
    OBVIOUS
  <2>1. /\ uploads' = Append(uploads, entry) /\ SealUpload(Request, nonces) # NoUpload
        /\ input # None /\ admitted # None
    BY <1>2 DEF Upload
  <2>2. entry.request = Request /\ entry.nonces = nonces
    OBVIOUS
  <2> HIDE DEF entry
  <2>3. /\ IsSequence(uploads') /\ DOMAIN uploads' = DOMAIN uploads \cup {n}
        /\ \A u \in DOMAIN uploads : uploads'[u] = uploads[u]
        /\ uploads'[n] = entry
    BY <2>1, AppendKeeps DEF UploadInv
  <2>4. \A u \in DOMAIN uploads : Sealed(u)' # NoUpload /\ CaptureAccepted(u)'
    BY <2>3 DEF UploadInv, Sealed, CaptureAccepted
  <2>5. Sealed(n)' # NoUpload /\ CaptureAccepted(n)'
    <3>1. Sealed(n)' = SealUpload(Request, nonces)
      BY <2>2, <2>3 DEF Sealed
    <3>2. CaptureAccepted(n)' <=>
            CaptureAdmitted(Request.input.capsule, Request.input.rules, Request.input.closure,
                            Request.admitted.proofs, Request.admitted.perturbations,
                            SealUpload(Request, nonces).manifest)
      BY <2>2, <2>3, <3>1 DEF CaptureAccepted
    <3> QED BY <2>1, <3>1, <3>2, SealedIsAdmitted
  <2> QED BY <2>3, <2>4, <2>5 DEF UploadInv
<1> QED
  BY <1>1, <1>2 DEF Next, Seal, StartAdmission, MoveJob, Narrow, Run, Complete, OpenSome, Open,
     OpenObject, Keep, OpenKept, vars

IInv == SealedInv /\ InputInv /\ ProofInv /\ AdmittedInv /\ UploadInv

LEMMA InitIInv == Init => IInv
<1> SUFFICES ASSUME Init PROVE IInv
  OBVIOUS
<1>1. SealedInv /\ InputInv /\ AdmittedInv
  BY DEF Init, SealedInv, InputInv, AdmittedInv
<1>2. ProofInv
  BY DEF Init, ProofInv, NoProofs, NoRuns
<1>3. UploadInv
  BY DEF Init, UploadInv, IsSequence
<1> QED BY <1>1, <1>2, <1>3 DEF IInv

LEMMA StepIInv == IInv /\ [Next]_vars => IInv'
BY SealedStep, InputStep, ProofStep, AdmittedStep, UploadStep DEF IInv

\* Whatever executors a job moves between, however its requirement is narrowed
\* between two runs and whatever the runs observe, what is admitted ran three
\* times as it is and failed each time the way the candidate did, and what is
\* uploaded is admitted (admit_run, complete_admission, seal_upload and
\* proof::admit).
THEOREM AdmittedHolds == Spec => []AdmittedWasReproduced
<1>1. IInv => AdmittedWasReproduced
  BY DEF IInv, AdmittedInv, UploadInv, RunsReproduced, CaptureAccepted, AdmittedWasReproduced
<1> QED BY <1>1, InitIInv, StepIInv, PTL DEF Spec

--------------------------------------------------------------------------------
(* Opening *)

LEMMA OneChunk == ChunkCount(1) = 1
<1>1. ChunkBytes \in Nat \ {0} /\ 1 + ChunkBytes - 1 = ChunkBytes
  BY ChunkAssumption
<1>2. ChunkBytes \div ChunkBytes = 1
  BY <1>1
<1> QED BY <1>1, <1>2 DEF ChunkCount

LEMMA PartsOf ==
    ASSUME NEW content
    PROVE  /\ DOMAIN Parts(content) = 1..ChunkCount(content.size)
           /\ \A k \in DOMAIN Parts(content) : Parts(content)[k].of = content
BY DEF Parts

\* A chunk that encrypt_object makes carries its content and the identity of
\* its object.
LEMMA ChunksOf ==
    ASSUME NEW request, NEW descriptor, NEW bytes, NEW nonces
    PROVE  LET encrypted == EncryptObject(request, descriptor, bytes, nonces) IN
           /\ encrypted.descriptor = descriptor
           /\ DOMAIN encrypted.chunks = DOMAIN Parts(bytes)
           /\ \A k \in DOMAIN encrypted.chunks :
                /\ encrypted.chunks[k].digest.plain.of = bytes
                /\ encrypted.chunks[k].digest.context.object.id = descriptor.id
<1> DEFINE encrypted == EncryptObject(request, descriptor, bytes, nonces)
           object == ObjectContext(request.metadata, request.input.capsule.mode,
                                   descriptor.id, descriptor.role)
           parts == Parts(bytes)
           stored(i) == encrypt_chunk(request.key, nonces[i], parts[i],
                            ChunkContext(object, Len(parts), i - 1, parts[i].size))
           chunks == [i \in DOMAIN parts |-> [digest |-> stored(i), index |-> i - 1,
                                              size |-> parts[i].size, nonce |-> nonces[i]]]
<1>1. encrypted = [descriptor |-> descriptor, chunks |-> chunks]
  BY DEF EncryptObject
<1>2. object.id = descriptor.id
  BY DEF ObjectContext
<1>3. \A k \in DOMAIN parts : parts[k].of = bytes
  BY PartsOf
<1> HIDE DEF object, parts
<1>4. \A k : stored(k).plain = parts[k] /\ stored(k).context.object = object
  BY DEF encrypt_chunk, ChunkContext
<1> HIDE DEF stored
<1>5. DOMAIN chunks = DOMAIN parts /\ \A k \in DOMAIN parts : chunks[k].digest = stored(k)
  OBVIOUS
<1>6. encrypted.descriptor = descriptor /\ encrypted.chunks = chunks
  BY <1>1
<1> HIDE DEF chunks, encrypted
<1>7. /\ encrypted.descriptor = descriptor /\ DOMAIN encrypted.chunks = DOMAIN Parts(bytes)
      /\ \A k \in DOMAIN encrypted.chunks :
           /\ encrypted.chunks[k].digest.plain.of = bytes
           /\ encrypted.chunks[k].digest.context.object.id = descriptor.id
  BY <1>2, <1>3, <1>4, <1>5, <1>6 DEF parts
<1> QED BY <1>7 DEF encrypted

\* The manifest is in the plaintext of its one chunk.
LEMMA ManifestSealed ==
    ASSUME NEW request, NEW nonces
    PROVE  SealedManifest(request, nonces).digest.plain.of = ManifestOf(request, nonces)
<1> DEFINE manifest == ManifestOf(request, nonces)
           descriptor == LogicalObject(request.ids.manifest, "capture-batch-manifest", "batch",
                                       manifest)
           last == <<nonces[NoncesNeeded(Contents(request))]>>
           encrypted == EncryptObject(request, descriptor, manifest, last)
<1>1. manifest.size = 1
  BY DEF ManifestOf, BuildManifest
<1>2. SealedManifest(request, nonces) = encrypted.chunks[1]
  BY DEF SealedManifest
<1> HIDE DEF manifest, descriptor, last
<1>3. 1 \in DOMAIN Parts(manifest)
  BY <1>1, OneChunk, PartsOf
<1>4. encrypted.chunks[1].digest.plain.of = manifest
  BY <1>3, ChunksOf
<1> HIDE DEF encrypted
<1> QED BY <1>2, <1>4 DEF manifest

\* The objects of a manifest are the contents in their order.
LEMMA EncryptedOf ==
    ASSUME NEW request, NEW nonces
    PROVE  LET contents == Contents(request)
               objects == ManifestOf(request, nonces).objects
           IN
           /\ DOMAIN objects = DOMAIN contents
           /\ \A i \in DOMAIN contents :
                /\ objects[i].descriptor = contents[i].descriptor
                /\ \A k \in DOMAIN objects[i].chunks :
                     /\ objects[i].chunks[k].digest.plain.of = contents[i].bytes
                     /\ objects[i].chunks[k].digest.context.object.id
                          = contents[i].descriptor.id
<1> DEFINE contents == Contents(request)
           objects == ManifestOf(request, nonces).objects
           from(i) == [k \in 1..ChunkCount(contents[i].bytes.size) |->
                         nonces[ChunksBefore(contents, i) + k]]
<1>1. objects = [i \in DOMAIN contents |->
                   EncryptObject(request, contents[i].descriptor, contents[i].bytes, from(i))]
  BY DEF ManifestOf, BuildManifest, EncryptedObjects
<1> HIDE DEF objects, contents, from
<1>2. DOMAIN objects = DOMAIN contents
  BY <1>1
<1>3. ASSUME NEW i \in DOMAIN contents
      PROVE  /\ objects[i].descriptor = contents[i].descriptor
             /\ \A k \in DOMAIN objects[i].chunks :
                  /\ objects[i].chunks[k].digest.plain.of = contents[i].bytes
                  /\ objects[i].chunks[k].digest.context.object.id = contents[i].descriptor.id
  <2>1. objects[i] = EncryptObject(request, contents[i].descriptor, contents[i].bytes, from(i))
    BY <1>1
  <2> QED BY <2>1, ChunksOf
<1>4. /\ DOMAIN objects = DOMAIN contents
      /\ \A i \in DOMAIN contents :
           /\ objects[i].descriptor = contents[i].descriptor
           /\ \A k \in DOMAIN objects[i].chunks :
                /\ objects[i].chunks[k].digest.plain.of = contents[i].bytes
                /\ objects[i].chunks[k].digest.context.object.id = contents[i].descriptor.id
  BY <1>2, <1>3
<1> QED BY <1>4 DEF objects, contents

IsListing(g) == g = [k \in DOMAIN g |-> g[k]]

\* They are listed in a function, and so are the chunks of each.
LEMMA EncryptedLists ==
    ASSUME NEW request, NEW nonces
    PROVE  IsListing(ManifestOf(request, nonces).objects)
<1>1. ManifestOf(request, nonces).objects = EncryptedObjects(request, nonces)
  BY DEF ManifestOf, BuildManifest
<1>2. EncryptedObjects(request, nonces)
        = [i \in DOMAIN Contents(request) |-> EncryptedObjects(request, nonces)[i]]
  BY DEF EncryptedObjects
<1>3. IsListing(EncryptedObjects(request, nonces))
  BY <1>2 DEF IsListing
<1> QED BY <1>1, <1>3

LEMMA ChunkLists ==
    ASSUME NEW request, NEW nonces, NEW i \in DOMAIN Contents(request)
    PROVE  IsListing(ManifestOf(request, nonces).objects[i].chunks)
<1> DEFINE contents == Contents(request)
           from == [k \in 1..ChunkCount(contents[i].bytes.size) |->
                      nonces[ChunksBefore(contents, i) + k]]
           descriptor == contents[i].descriptor
           parts == Parts(contents[i].bytes)
           object == ObjectContext(request.metadata, request.input.capsule.mode,
                                   descriptor.id, descriptor.role)
           stored(k) == encrypt_chunk(request.key, from[k], parts[k],
                            ChunkContext(object, Len(parts), k - 1, parts[k].size))
           chunks == [k \in DOMAIN parts |-> [digest |-> stored(k), index |-> k - 1,
                                              size |-> parts[k].size, nonce |-> from[k]]]
<1>1. ManifestOf(request, nonces).objects[i]
        = EncryptObject(request, descriptor, contents[i].bytes, from)
  BY DEF ManifestOf, BuildManifest, EncryptedObjects
<1>2. ManifestOf(request, nonces).objects[i] = [descriptor |-> descriptor, chunks |-> chunks]
  BY <1>1 DEF EncryptObject
<1>3. IsListing(chunks)
  BY DEF IsListing
<1> HIDE DEF chunks
<1> QED BY <1>2, <1>3

LEMMA EnvelopeParts ==
    ASSUME NEW request, NEW nonces
    PROVE  /\ EnvelopeOf(request, nonces).manifest.digest
                = SealedManifest(request, nonces).digest
           /\ EnvelopeOf(request, nonces).objects = Uploads(ManifestOf(request, nonces).objects)
<1> DEFINE object == ManifestObject(request, nonces)
           manifest == ManifestOf(request, nonces)
<1>1. object.digest = SealedManifest(request, nonces).digest
  BY DEF ManifestObject
<1> HIDE DEF object, manifest
<1>2. /\ BuildEnvelope(request, manifest, object).manifest = object
      /\ BuildEnvelope(request, manifest, object).objects = Uploads(manifest.objects)
  BY DEF BuildEnvelope
<1> QED BY <1>1, <1>2 DEF EnvelopeOf, object, manifest

\* What an object must decrypt to is the content that was sealed.
LEMMA ObjectIsSealed ==
    ASSUME NEW request, NEW nonces, SealUpload(request, nonces) # NoUpload,
           NEW i \in DOMAIN Contents(request), NEW envelope, NEW key, NEW store,
           ObjectOpens(envelope, key, ManifestOf(request, nonces).objects[i], store)
    PROVE  Decrypted(ManifestOf(request, nonces).objects[i], store)
             = Parts(Contents(request)[i].bytes)
<1> DEFINE e == ManifestOf(request, nonces).objects[i]
<1>1. e.descriptor = Contents(request)[i].descriptor
  BY EncryptedOf
<1>2. Contents(request)[i].descriptor.digest = Contents(request)[i].bytes
  BY SealParts DEF ContentsMatch
<1>3. Decrypted(e, store) = Parts(e.descriptor.digest)
  BY DEF ObjectOpens, PlaintextMatches
<1> HIDE DEF e
<1> QED BY <1>1, <1>2, <1>3 DEF e

SealedAs(request, id, parts) ==
    \E i \in DOMAIN Contents(request) :
      /\ Contents(request)[i].descriptor.id = id
      /\ parts = Parts(Contents(request)[i].bytes)

\* open_capture returns what was sealed.
LEMMA CaptureIsSealed ==
    ASSUME NEW request, NEW nonces, SealUpload(request, nonces) # NoUpload, NEW store,
           CaptureOpens(EnvelopeOf(request, nonces), Signer, OccurrenceKey, store)
    PROVE  LET objects == OpenedObjects(EnvelopeOf(request, nonces), store) IN
           \A id \in DOMAIN objects : SealedAs(request, id, objects[id])
<1> DEFINE envelope == EnvelopeOf(request, nonces)
           manifest == ManifestOf(request, nonces)
           opened_ == OpenedObjects(envelope, store)
           ids == {e.descriptor.id : e \in Range(manifest.objects)}
           pick(id) == CHOOSE e \in Range(manifest.objects) : e.descriptor.id = id
<1>1. store[envelope.manifest.digest].plain.of = manifest
  <2>1. CiphertextClosed(envelope, store)
    BY DEF CaptureOpens
  <2>2. store[envelope.manifest.digest] = envelope.manifest.digest
    <3> HIDE DEF envelope
    <3> QED BY <2>1 DEF CiphertextClosed
  <2> QED BY <2>2, EnvelopeParts, ManifestSealed
<1> HIDE DEF envelope
<1>2. opened_ = [id \in ids |-> Decrypted(pick(id), store)]
  BY <1>1 DEF OpenedObjects
<1>3. \A e \in Range(manifest.objects) : ObjectOpens(envelope, OccurrenceKey, e, store)
  BY <1>1 DEF CaptureOpens, envelope
<1>4. ASSUME NEW id \in ids PROVE SealedAs(request, id, Decrypted(pick(id), store))
  <2>1. pick(id) \in Range(manifest.objects) /\ pick(id).descriptor.id = id
    <3> HIDE DEF manifest
    <3> QED OBVIOUS
  <2> HIDE DEF pick
  <2>2. PICK i \in DOMAIN Contents(request) : pick(id) = manifest.objects[i]
    BY <2>1, EncryptedOf DEF Range
  <2>3. ObjectOpens(envelope, OccurrenceKey, manifest.objects[i], store)
    BY <1>3, <2>1, <2>2
  <2>4. Decrypted(manifest.objects[i], store) = Parts(Contents(request)[i].bytes)
    BY <2>3, ObjectIsSealed
  <2>5. Contents(request)[i].descriptor.id = id
    BY <2>1, <2>2, EncryptedOf
  <2> QED BY <2>2, <2>4, <2>5 DEF SealedAs
<1> HIDE DEF ids, pick
<1>5. \A id \in DOMAIN opened_ : SealedAs(request, id, opened_[id])
  <2> HIDE DEF opened_
  <2> QED BY <1>2, <1>4
<1> QED BY <1>5 DEF opened_, envelope

\* The identities of a batch tell its objects apart.
LEMMA ObjectsDiffer ==
    ASSUME NEW objects, NEW n \in Nat, DOMAIN objects = 1..n, objects = [i \in 1..n |-> objects[i]],
           Cardinality({e.descriptor.id : e \in Range(objects)}) = Len(objects),
           NEW i \in 1..n, NEW j \in 1..n, objects[i].descriptor.id = objects[j].descriptor.id
    PROVE  i = j
<1> DEFINE ids == {e.descriptor.id : e \in Range(objects)}
           f == [k \in 1..n |-> objects[k].descriptor.id]
<1>1. Len(objects) = n
  OBVIOUS
<1>2. f \in Surjection(1..n, ids)
  BY DEF Surjection, Range
<1>3. IsFiniteSet(1..n) /\ Cardinality(1..n) = n
  <2>1. IsFiniteSet(1..n) /\ Cardinality(1..n) = IF 1 > n THEN 0 ELSE n - 1 + 1
    BY FS_Interval, 1 \in Int, n \in Int
  <2> QED BY <2>1
<1>4. Cardinality(ids) = n
  BY <1>1
<1>5. f[i] = f[j]
  OBVIOUS
<1> HIDE DEF f, ids
<1>6. f \in Injection(1..n, ids)
  BY <1>2, <1>3, <1>4, FS_Surjection
<1> QED BY <1>5, <1>6 DEF Injection, IsInjective

LEMMA ContentPlaces ==
    ASSUME NEW request, Cardinality(request.input.capsule.objects) \in Nat
    PROVE  \E n \in Nat : DOMAIN Contents(request) = 1..n
<1>1. DOMAIN Contents(request) = 1..(Cardinality(request.input.capsule.objects) + 4)
  BY DEF Contents
<1> QED BY <1>1

\* open_capture_object returns what was sealed under the envelope, even with
\* the manifest of another upload: the two must have the same chunks.
LEMMA CaptureObjectIsSealed ==
    ASSUME NEW request, NEW nonces, SealUpload(request, nonces) # NoUpload,
           NEW other, NEW others, SealUpload(other, others) # NoUpload,
           Cardinality(other.input.capsule.objects) \in Nat,
           NEW e \in Range(ManifestOf(other, others).objects), NEW store,
           CaptureObjectOpens(EnvelopeOf(request, nonces), OccurrenceKey,
                              ManifestOf(other, others), e.descriptor.id, store)
    PROVE  SealedAs(request, e.descriptor.id, Decrypted(e, store))
<1> DEFINE envelope == EnvelopeOf(request, nonces)
           mine == ManifestOf(request, nonces).objects
           manifest == ManifestOf(other, others)
           id == e.descriptor.id
<1>1. PICK n \in Nat : DOMAIN Contents(other) = 1..n
  BY ContentPlaces
<1>2. DOMAIN manifest.objects = 1..n /\ manifest.objects = [i \in 1..n |-> manifest.objects[i]]
  <2>1. DOMAIN manifest.objects = 1..n
    BY <1>1, EncryptedOf
  <2>2. IsListing(manifest.objects)
    BY EncryptedLists
  <2> HIDE DEF manifest
  <2> QED BY <2>1, <2>2 DEF IsListing
<1>3. PICK i \in 1..n : e = manifest.objects[i]
  BY <1>2 DEF Range
<1>4. ValidBatch(manifest)
  BY SealParts
<1>5. ObjectOpens(envelope, OccurrenceKey, e, store)
  <2>1. PICK j \in 1..n : /\ manifest.objects[j].descriptor.id = id
                          /\ ObjectOpens(envelope, OccurrenceKey, manifest.objects[j], store)
    <3> HIDE DEF envelope, manifest, id
    <3> QED BY <1>2 DEF CaptureObjectOpens, Range, envelope, manifest, id
  <2>2. Cardinality({x.descriptor.id : x \in Range(manifest.objects)}) = Len(manifest.objects)
    BY <1>4 DEF ValidBatch
  <2>3. i = j
    <3> HIDE DEF manifest
    <3> QED BY <1>2, <1>3, <2>1, <2>2, ObjectsDiffer DEF id
  <2> QED BY <1>3, <2>1, <2>3
<1>6. Decrypted(e, store) = Parts(Contents(other)[i].bytes)
  BY <1>1, <1>3, <1>5, ObjectIsSealed
<1>7. PICK k \in DOMAIN e.chunks : TRUE
  <2>1. e.chunks # <<>>
    BY <1>4 DEF ValidBatch
  <2>2. IsListing(e.chunks)
    <3>1. i \in DOMAIN Contents(other)
      BY <1>1
    <3> QED BY <1>3, <3>1, ChunkLists
  <2>3. ASSUME DOMAIN e.chunks = {} PROVE e.chunks = <<>>
    BY <2>2, <2>3 DEF IsListing
  <2> QED BY <2>1, <2>3
<1> DEFINE digest == e.chunks[k].digest
<1>8. /\ digest.plain.of = Contents(other)[i].bytes
      /\ digest.context.object.id = Contents(other)[i].descriptor.id
      /\ Contents(other)[i].descriptor.id = id
  BY <1>1, <1>3, <1>7, EncryptedOf
<1>9. Uploads(manifest.objects) = Uploads(mine)
  BY EnvelopeParts DEF CaptureObjectOpens, EnvelopeBinds
<1>10. \E u \in Uploads(manifest.objects) : u.digest = digest
  <2> DEFINE c == e.chunks[k]
             u == [digest |-> c.digest, size |-> c.size, nonce |-> c.nonce]
  <2>1. c \in Range(e.chunks)
    BY <1>7 DEF Range
  <2>2. u \in Uploads(manifest.objects)
    <3> HIDE DEF manifest, c
    <3> QED BY <2>1 DEF Uploads, manifest
  <2>3. u.digest = digest
    OBVIOUS
  <2> HIDE DEF u
  <2> QED BY <2>2, <2>3
<1> HIDE DEF digest
<1>11. PICK j \in DOMAIN mine : \E c \in Range(mine[j].chunks) : c.digest = digest
  <2> HIDE DEF mine, manifest
  <2> QED BY <1>9, <1>10 DEF Uploads, Range
<1>12. /\ j \in DOMAIN Contents(request)
       /\ Contents(request)[j].descriptor.id = digest.context.object.id
       /\ Contents(request)[j].bytes = digest.plain.of
  BY <1>11, EncryptedOf DEF Range
<1> QED BY <1>6, <1>8, <1>12 DEF SealedAs

\* What was opened and what was kept is of an upload.
OpenInv ==
    /\ kept # None => /\ kept.upload \in DOMAIN uploads
                      /\ kept.envelope = Sealed(kept.upload).envelope
    /\ opened # None =>
         /\ opened.upload \in DOMAIN uploads
         /\ \A id \in DOMAIN opened.objects :
              SealedAs(uploads[opened.upload].request, id, opened.objects[id])

\* The upload of a place, in terms of what it was sealed from.
LEMMA UploadParts ==
    ASSUME UploadInv, NEW u \in DOMAIN uploads
    PROVE  LET request == uploads[u].request
               nonces == uploads[u].nonces
           IN /\ SealUpload(request, nonces) # NoUpload
              /\ Sealed(u).envelope = EnvelopeOf(request, nonces)
              /\ Sealed(u).manifest = ManifestOf(request, nonces)
              /\ Cardinality(request.input.capsule.objects) \in Nat
<1> DEFINE request == uploads[u].request
           nonces == uploads[u].nonces
<1>1. Sealed(u) = SealUpload(request, nonces) /\ Sealed(u) # NoUpload /\ CaptureAccepted(u)
  BY DEF Sealed, UploadInv
<1>2. ValidCapsule(request.input.capsule)
  BY <1>1 DEF CaptureAccepted, CaptureAdmitted, ProofSetValid
<1> HIDE DEF request, nonces
<1>3. Cardinality(request.input.capsule.objects) \in Nat
  BY <1>2 DEF ValidCapsule
<1>4. /\ SealUpload(request, nonces) # NoUpload
      /\ Sealed(u).envelope = EnvelopeOf(request, nonces)
      /\ Sealed(u).manifest = ManifestOf(request, nonces)
  BY <1>1, SealParts
<1> QED BY <1>3, <1>4 DEF request, nonces

\* A step that opens leaves the uploads and returns what was sealed.
LEMMA OpensSealed ==
    ASSUME UploadInv, NEW u \in DOMAIN uploads, NEW store,
           CaptureOpens(Sealed(u).envelope, Signer, OccurrenceKey, store),
           opened' = [upload |-> u, objects |-> OpenedObjects(Sealed(u).envelope, store)]
    PROVE  /\ opened'.upload = u
           /\ \A id \in DOMAIN opened'.objects :
                SealedAs(uploads[u].request, id, opened'.objects[id])
<1> DEFINE objects == OpenedObjects(Sealed(u).envelope, store)
<1>1. \A id \in DOMAIN objects : SealedAs(uploads[u].request, id, objects[id])
  BY UploadParts, CaptureIsSealed
<1> HIDE DEF objects
<1>2. opened' = [upload |-> u, objects |-> objects]
  BY DEF objects
<1> QED BY <1>1, <1>2

LEMMA OpenStep == ASSUME UploadInv, OpenInv, [Next]_vars PROVE OpenInv'
<1>1. CASE UNCHANGED <<uploads, opened, kept>>
  BY <1>1 DEF OpenInv, Sealed
<1>2. ASSUME NEW nonces \in NonceSequences, Upload(nonces), uploads' # uploads PROVE OpenInv'
  <2>1. PICK entry : uploads' = Append(uploads, entry) /\ UNCHANGED <<opened, kept>>
    BY <1>2 DEF Upload
  <2>2. /\ DOMAIN uploads \subseteq DOMAIN uploads'
        /\ \A u \in DOMAIN uploads : uploads'[u] = uploads[u]
    BY <2>1, AppendKeeps DEF UploadInv
  <2> QED BY <2>1, <2>2 DEF OpenInv, Sealed
<1>3. ASSUME NEW u \in DOMAIN uploads, NEW store, Open(u, Sealed(u), store) PROVE OpenInv'
  <2>1. UNCHANGED <<uploads, kept>>
    BY <1>3 DEF Open
  <2>2. /\ opened'.upload = u
        /\ \A id \in DOMAIN opened'.objects :
             SealedAs(uploads[u].request, id, opened'.objects[id])
    BY <1>3, OpensSealed DEF Open
  <2> QED BY <2>1, <2>2 DEF OpenInv, Sealed
<1>4. ASSUME NEW u \in DOMAIN uploads, NEW store, Keep(u, Sealed(u), store) PROVE OpenInv'
  <2>1. UNCHANGED <<uploads, opened>>
    BY <1>4 DEF Keep
  <2>2. kept'.upload = u /\ kept'.envelope = Sealed(u).envelope
    BY <1>4 DEF Keep
  <2> QED BY <2>1, <2>2 DEF OpenInv, Sealed
<1>5. CASE OpenKept
  <2> DEFINE u == kept.upload
  <2>1. UNCHANGED <<uploads, kept>> /\ u \in DOMAIN uploads /\ kept.envelope = Sealed(u).envelope
    BY <1>5 DEF OpenKept, OpenInv
  <2>2. /\ opened'.upload = u
        /\ \A id \in DOMAIN opened'.objects :
             SealedAs(uploads[u].request, id, opened'.objects[id])
    BY <1>5, <2>1, OpensSealed DEF OpenKept
  <2> QED BY <2>1, <2>2 DEF OpenInv, Sealed
<1>6. ASSUME NEW u \in DOMAIN uploads, NEW m \in DOMAIN uploads,
             NEW e \in Range(Sealed(m).manifest.objects), NEW store,
             OpenObject(u, Sealed(u), Sealed(m).manifest, e, store)
      PROVE  OpenInv'
  <2> DEFINE id == e.descriptor.id
             parts == Decrypted(e, store)
             objects == [x \in {id} |-> parts]
  <2>1. UNCHANGED <<uploads, kept>> /\ opened' = [upload |-> u, objects |-> objects]
    BY <1>6 DEF OpenObject
  <2>2. SealedAs(uploads[u].request, id, parts)
    BY <1>6, UploadParts, CaptureObjectIsSealed DEF OpenObject
  <2> HIDE DEF parts, id
  <2>3. \A x \in DOMAIN objects : SealedAs(uploads[u].request, x, objects[x])
    BY <2>2
  <2> HIDE DEF objects
  <2> QED BY <2>1, <2>3 DEF OpenInv, Sealed
<1>7. ASSUME OpenSome PROVE OpenInv'
  <2> DEFINE all == [u \in DOMAIN uploads |-> Sealed(u)]
             chunks == UNION {all[u].ciphertext : u \in DOMAIN uploads}
  <2>1. \/ \E u \in DOMAIN uploads : \E store :
             Open(u, all[u], store) \/ Keep(u, all[u], store)
        \/ \E u, m \in DOMAIN uploads : \E e \in Range(all[m].manifest.objects) : \E store :
             OpenObject(u, all[u], all[m].manifest, e, store)
    BY <1>7 DEF OpenSome
  <2>2. \A u \in DOMAIN uploads : all[u] = Sealed(u)
    OBVIOUS
  <2> HIDE DEF all
  <2> QED BY <1>3, <1>4, <1>6, <2>1, <2>2
<1> QED
  BY <1>1, <1>2, <1>5, <1>7 DEF Next, Seal, StartAdmission, MoveJob, Narrow, Run, Complete,
     Upload, vars

\* Whatever chunks the store returns in the place of others, of this upload or
\* of an earlier one, and whatever manifest an object is asked for with, what
\* is opened is what was sealed (open_capture, open_capture_object,
\* KeptCapture::copy_verified and KeptCapture::open).
THEOREM OpenedHolds == Spec => []OpenedIsSealed
<1>1. Init => OpenInv
  BY DEF Init, OpenInv
<1>2. IInv /\ OpenInv /\ [Next]_vars => OpenInv'
  BY OpenStep DEF IInv
<1>3. OpenInv => OpenedIsSealed
  BY DEF OpenInv, SealedAs, OpenedIsSealed
<1> QED BY <1>1, <1>2, <1>3, InitIInv, StepIInv, PTL DEF Spec

--------------------------------------------------------------------------------
(* Sealing again *)

IsList(s) == s \in Seq(Range(s))

LEMMA ListFacts ==
    ASSUME NEW s, IsList(s)
    PROVE  /\ Len(s) \in Nat /\ DOMAIN s = 1..Len(s)
           /\ s = [i \in DOMAIN s |-> s[i]]
           /\ \A i \in DOMAIN s : s[i] \in Range(s)
           /\ \A x \in Range(s) : \E i \in DOMAIN s : s[i] = x
  BY DEF IsList, Range

LEMMA ListOf ==
    ASSUME NEW n \in Nat, NEW f, f = [i \in 1..n |-> f[i]]
    PROVE  IsList(f) /\ Len(f) = n
<1>1. f \in [1..n -> Range(f)]
  BY DEF Range
<1>2. f \in Seq(Range(f))
  BY <1>1
<1> QED
  BY <1>1, <1>2 DEF IsList

LEMMA OneListed ==
    ASSUME NEW x
    PROVE  IsList(<<x>>) /\ \A y : y \in Range(<<x>>) <=> y = x
<1>1. PICK s : s = <<x>>
  OBVIOUS
<1>2. s = [i \in 1..1 |-> s[i]] /\ s[1] = x
  BY <1>1
<1>3. IsList(s)
  BY <1>2, ListOf
<1>4. \A y : y \in Range(s) <=> y = x
  BY <1>2 DEF Range
<1> QED
  BY <1>1, <1>3, <1>4

\* What a concatenation holds.
LEMMA ConcatHolds ==
    ASSUME NEW s, IsList(s), NEW t, IsList(t)
    PROVE  /\ IsList(s \o t)
           /\ \A x : x \in Range(s \o t) <=> x \in Range(s) \/ x \in Range(t)
<1>1. PICK S : S = Range(s) \cup Range(t)
  OBVIOUS
<1>2. PICK m \in Nat, n \in Nat : m = Len(s) /\ n = Len(t)
  BY ListFacts
<1>3. s \in Seq(S) /\ t \in Seq(S)
  <2>1. s \in [1..m -> S] /\ t \in [1..n -> S]
    BY <1>1, <1>2, ListFacts
  <2> QED
    BY <2>1
<1>4. PICK u : u = s \o t
  OBVIOUS
<1>5. /\ u \in Seq(S) /\ Len(u) = m + n
      /\ \A i \in 1..(m + n) : u[i] = IF i <= m THEN s[i] ELSE t[i - m]
  BY <1>2, <1>3, <1>4, ConcatProperties
<1>6. DOMAIN u = 1..(m + n) /\ DOMAIN s = 1..m /\ DOMAIN t = 1..n
  BY <1>2, <1>5, ListFacts
<1>7. \A i \in DOMAIN u : u[i] \in Range(s) \/ u[i] \in Range(t)
  <2>1. ASSUME NEW i \in 1..(m + n) PROVE u[i] \in Range(s) \/ u[i] \in Range(t)
    <3>1. CASE i <= m
      <4>1. i \in DOMAIN s /\ u[i] = s[i]
        BY <3>1, <1>5, <1>6
      <4> QED
        BY <4>1 DEF Range
    <3>2. CASE ~(i <= m)
      <4>1. i - m \in DOMAIN t /\ u[i] = t[i - m]
        BY <3>2, <1>5, <1>6
      <4> QED
        BY <4>1 DEF Range
    <3> QED
      BY <3>1, <3>2
  <2> QED
    BY <2>1, <1>6
<1>8. \A i \in DOMAIN s : s[i] \in Range(u)
  <2>1. ASSUME NEW i \in 1..m PROVE s[i] \in Range(u)
    <3>1. i \in 1..(m + n) /\ u[i] = s[i]
      BY <1>5
    <3> QED
      BY <3>1, <1>6 DEF Range
  <2> QED
    BY <2>1, <1>6
<1>9. \A i \in DOMAIN t : t[i] \in Range(u)
  <2>1. ASSUME NEW i \in 1..n PROVE t[i] \in Range(u)
    <3>1. i + m \in 1..(m + n) /\ u[i + m] = t[i]
      <4>1. i + m \in 1..(m + n) /\ ~(i + m <= m) /\ (i + m) - m = i
        OBVIOUS
      <4> QED
        BY <4>1, <1>5
    <3> QED
      BY <3>1, <1>6 DEF Range
  <2> QED
    BY <2>1, <1>6
<1>10. IsList(u)
  <2>1. u = [i \in 1..(m + n) |-> u[i]] /\ m + n \in Nat
    BY <1>5
  <2> QED
    BY <2>1, ListOf
<1>11. \A x : x \in Range(u) <=> x \in Range(s) \/ x \in Range(t)
  BY <1>7, <1>8, <1>9 DEF Range
<1> QED
  BY <1>4, <1>10, <1>11

\* The records of a kind make a list.
LEMMA BodiesListed ==
    ASSUME NEW candidate, IsList(candidate.records), NEW kind
    PROVE  IsList(Bodies(candidate, kind))
<1>1. PICK P : P = Places(candidate.records, kind)
  OBVIOUS
<1>2. PICK n \in Nat : n = Len(candidate.records) /\ DOMAIN candidate.records = 1..n
  BY ListFacts
<1>3. P \in SUBSET (1..n)
  BY <1>1, <1>2 DEF Places
<1>4. IsFiniteSet(1..n)
  BY FS_Interval
<1>5. IsFiniteSet(P)
  BY <1>3, <1>4, FS_Subset
<1>6. PICK k \in Nat : k = Cardinality(P)
  BY <1>5, FS_CardinalityType
<1>7. PICK b : b = Bodies(candidate, kind)
  OBVIOUS
<1>8. DOMAIN OfKind(candidate.records, kind) = 1..k
  BY <1>1, <1>6 DEF OfKind, Selected
<1>9. b = [i \in 1..k |-> b[i]]
  BY <1>7, <1>8 DEF Bodies
<1> QED
  BY <1>7, <1>9, ListOf

LEMMA SwappedPart ==
    ASSUME NEW s, IsList(s), NEW list \in Swapped(s)
    PROVE  list = [k \in DOMAIN s |-> list[k]] /\ \A k \in DOMAIN s : list[k] \in Range(s)
<1>1. PICK i \in 1..(Len(s) - 1) : list = [s EXCEPT ![i] = s[i + 1], ![i + 1] = s[i]]
  BY DEF Swapped
<1>2. i \in DOMAIN s /\ i + 1 \in DOMAIN s
  BY ListFacts
<1>3. \A k \in DOMAIN s : list[k] \in {s[i], s[i + 1], s[k]}
  BY <1>1
<1>4. list = [k \in DOMAIN s |-> list[k]]
  BY <1>1
<1> QED
  BY <1>2, <1>3, <1>4, ListFacts

LEMMA ReplacedPart ==
    ASSUME NEW s, NEW list \in Replaced(s)
    PROVE  list = [k \in DOMAIN s |-> list[k]]
  BY DEF Replaced

LEMMA WithoutShorter ==
    ASSUME NEW s, IsList(s), NEW list \in Without(s)
    PROVE  Len(list) # Len(s)
<1>1. PICK i \in DOMAIN s : list = RemoveAt(s, i)
  BY DEF Without
<1>2. PICK n \in Nat : n = Len(s) /\ DOMAIN s = 1..n
  BY ListFacts
<1>3. PICK a \in Int, b \in Int, c \in Int : a = 1 /\ b = i - 1 /\ c = i + 1
  BY <1>2
<1>4. \A k \in a..b : s[k] \in Range(s)
  BY <1>2, <1>3, ListFacts
<1>5. \A k \in c..n : s[k] \in Range(s)
  BY <1>2, <1>3, ListFacts
<1>6. PICK u, v : u = SubSeq(s, a, b) /\ v = SubSeq(s, c, n)
  OBVIOUS
<1>7. u \in Seq(Range(s)) /\ Len(u) = IF a <= b THEN b - a + 1 ELSE 0
  BY <1>3, <1>4, <1>6, SubSeqProperties
<1>8. v \in Seq(Range(s)) /\ Len(v) = IF c <= n THEN n - c + 1 ELSE 0
  BY <1>3, <1>5, <1>6, SubSeqProperties
<1>9. list = u \o v
  BY <1>1, <1>2, <1>3, <1>6 DEF RemoveAt
<1>10. Len(list) = Len(u) + Len(v)
  BY <1>7, <1>8, <1>9, ConcatProperties
<1> QED
  BY <1>2, <1>3, <1>7, <1>8, <1>10

(***************************************************************************)
(* Sources that bind to the candidate are the ones that were captured, up  *)
(* to the exchanges, the support package and the evidence.                 *)
(***************************************************************************)

\* What was captured, as the proofs use it.
Named(sources) ==
    LET candidate == sources.candidate
        declared == WorldArtifacts(sources.world)
    IN
    /\ IsList(candidate.records) /\ IsList(sources.exchanges) /\ IsList(declared)
    /\ candidate.deployment.subject.artifact =
         SingleFileClosure(candidate.deployment.subject, sources.binary, sources.debug,
                           RuntimeFamily(candidate))
    /\ Bodies(candidate, "dependency") =
         [i \in DOMAIN sources.exchanges |-> sources.exchanges[i].cursor]
    /\ candidate.world = sources.world
    /\ sources.artifacts = [i \in DOMAIN declared |-> declared[i].digest]
    /\ sources = [f \in SourceFields |-> sources[f]]

LEMMA CapturedNamed == ASSUME captured \in Captures PROVE Named(captured)
  BY CapturedAssumption, AdmissionAssumption DEF Named, IsList, SourceFields

LEMMA DivergedPart ==
    ASSUME NEW s, NEW list \in Diverged(s)
    PROVE  list = [k \in DOMAIN s |-> list[k]]
<1>1. \E i : \E x : list = [s EXCEPT ![i] = x]
  BY DEF Diverged
<1> QED
  BY <1>1

LEMMA ArtifactsSame ==
    ASSUME Named(captured), NEW list, list = [k \in DOMAIN captured.artifacts |-> list[k]],
           ArtifactsBind(captured.world, list)
    PROVE  list = captured.artifacts
<1>1. PICK declared : declared = WorldArtifacts(captured.world)
  OBVIOUS
<1>2. captured.artifacts = [i \in DOMAIN declared |-> declared[i].digest]
  BY <1>1 DEF Named
<1>3. \A i \in DOMAIN declared : list[i] = declared[i].digest
  BY <1>1 DEF ArtifactsBind
<1> QED
  BY <1>2, <1>3

LEMMA Replacing ==
    ASSUME Named(captured), NEW f \in SourceFields, NEW x, NEW sources,
           sources = [captured EXCEPT ![f] = x]
    PROVE  /\ sources[f] = x
           /\ \A g \in SourceFields : g # f => sources[g] = captured[g]
           /\ x = captured[f] => sources = captured
<1>1. captured = [g \in SourceFields |-> captured[g]]
  BY DEF Named
<1>2. DOMAIN captured = SourceFields
  BY <1>1
<1>3. sources = [g \in SourceFields |-> IF g = f THEN x ELSE captured[g]]
  BY <1>2
<1> QED
  BY <1>1, <1>3

\* What sources that bind have in common with the captured ones.
Bound(sources) ==
    /\ Named(sources) /\ SourcesBind(sources)
    /\ \A f \in SourceFields \ {"exchanges", "support", "evidence"} : sources[f] = captured[f]

LEMMA BoundIsCaptured ==
    ASSUME Named(captured), Rebuilt \notin {captured.binary, captured.debug},
           NEW sources \in Returned, SourcesBind(sources)
    PROVE  Bound(sources)
<1>1. SourceFields = {"candidate", "binary", "debug", "exchanges", "support", "evidence",
                      "world", "artifacts"}
  BY DEF SourceFields
<1>2. ASSUME NEW list \in Swapped(captured.exchanges) \cup Without(captured.exchanges)
                             \cup Diverged(captured.exchanges),
             sources = [captured EXCEPT !.exchanges = list]
      PROVE  Bound(sources)
  <2>1. "exchanges" \in SourceFields /\ "candidate" \in SourceFields
    BY <1>1
  <2>2. sources.exchanges = list /\ sources.candidate = captured.candidate
    BY <1>2, <2>1, Replacing
  <2>3. ExchangesBind(Bodies(captured.candidate, "dependency"), list)
    BY <2>2 DEF SourcesBind
  <2>4. PICK ex : ex = captured.exchanges
    OBVIOUS
  <2>5. IsList(ex)
    BY <2>4 DEF Named
  <2>6. PICK cursors : cursors = Bodies(captured.candidate, "dependency")
    OBVIOUS
  <2>7. PICK n \in Nat : n = Len(ex) /\ DOMAIN ex = 1..n
    BY <2>5, ListFacts
  <2>8. cursors = [i \in 1..n |-> ex[i].cursor]
    BY <2>4, <2>6, <2>7 DEF Named
  <2>9. cursors = [i \in 1..n |-> cursors[i]]
    BY <2>8
  <2>10. Len(cursors) = n
    BY <2>9, ListOf
  <2>11. Len(list) = Len(ex)
    BY <2>3, <2>6, <2>7, <2>10 DEF ExchangesBind
  <2>12. list \in Swapped(ex) \/ list \in Diverged(ex)
    BY <1>2, <2>4, <2>5, <2>11, WithoutShorter
  <2>13. list = [k \in 1..n |-> list[k]]
    BY <2>5, <2>7, <2>12, SwappedPart, DivergedPart
  <2>14. IsList(list)
    BY <2>13, ListOf
  <2>15. cursors = [i \in DOMAIN list |-> list[i].cursor]
    <3>1. DOMAIN list = 1..n /\ DOMAIN cursors = 1..n
      BY <2>9, <2>13
    <3>2. \A i \in 1..n : list[i].cursor = cursors[i]
      BY <2>3, <2>6, <3>1 DEF ExchangesBind
    <3> QED
      BY <2>9, <3>1, <3>2
  <2>16. \A f \in SourceFields \ {"exchanges"} : sources[f] = captured[f]
    BY <1>2, <2>1, Replacing
  <2>17. sources = [f \in SourceFields |-> sources[f]]
    BY <1>2 DEF Named
  <2>18. Named(sources)
    <3>1. /\ sources.candidate = captured.candidate /\ sources.world = captured.world
          /\ sources.binary = captured.binary /\ sources.debug = captured.debug
          /\ sources.artifacts = captured.artifacts
      BY <1>1, <2>16
    <3> QED
      BY <2>2, <2>6, <2>14, <2>15, <2>17, <3>1 DEF Named
  <2> QED
    BY <2>16, <2>18 DEF Bound
<1>3. ASSUME NEW list \in Swapped(captured.artifacts) \cup Without(captured.artifacts)
                             \cup Replaced(captured.artifacts),
             sources = [captured EXCEPT !.artifacts = list]
      PROVE  sources = captured
  <2>1. "artifacts" \in SourceFields /\ "world" \in SourceFields
    BY <1>1
  <2>2. sources.artifacts = list /\ sources.world = captured.world
    BY <1>3, <2>1, Replacing
  <2>3. ArtifactsBind(captured.world, list)
    BY <2>2 DEF SourcesBind
  <2>4. PICK declared : declared = WorldArtifacts(captured.world)
    OBVIOUS
  <2>5. PICK n \in Nat : n = Len(declared) /\ DOMAIN declared = 1..n
    BY <2>4, ListFacts DEF Named
  <2>6. PICK a : a = captured.artifacts
    OBVIOUS
  <2>7. a = [i \in 1..n |-> declared[i].digest]
    BY <2>4, <2>5, <2>6 DEF Named
  <2>8. a = [i \in 1..n |-> a[i]]
    BY <2>7
  <2>9. IsList(a) /\ Len(a) = n
    BY <2>8, ListOf
  <2>10. Len(list) = Len(a)
    BY <2>3, <2>4, <2>5, <2>9 DEF ArtifactsBind
  <2>11. list \notin Without(a)
    BY <2>9, <2>10, WithoutShorter
  <2>12. list = [k \in DOMAIN a |-> list[k]]
    BY <1>3, <2>6, <2>9, <2>11, SwappedPart, ReplacedPart
  <2>13. list = captured.artifacts
    BY <2>3, <2>6, <2>12, ArtifactsSame
  <2> QED
    BY <1>3, <2>1, <2>13, Replacing
<1>4. PICK subject : subject = captured.candidate.deployment.subject
  OBVIOUS
<1>5. PICK family : family = RuntimeFamily(captured.candidate)
  OBVIOUS
<1>6. subject.artifact = SingleFileClosure(subject, captured.binary, captured.debug, family)
  BY <1>4, <1>5 DEF Named
<1>7. ASSUME sources.candidate = captured.candidate
      PROVE  sources.binary = captured.binary /\ sources.debug = captured.debug
  <2>1. SingleFileVerified(subject, sources.binary, sources.debug, family)
    BY <1>4, <1>5, <1>7 DEF SourcesBind
  <2>2. SingleFileClosure(subject, sources.binary, sources.debug, family) =
        SingleFileClosure(subject, captured.binary, captured.debug, family)
    BY <1>6, <2>1 DEF SingleFileVerified
  <2>3. PICK x, y : /\ x = SingleFileClosure(subject, sources.binary, sources.debug, family)
                    /\ y = SingleFileClosure(subject, captured.binary, captured.debug, family)
    OBVIOUS
  <2>4. /\ x.modules = {SubjectModule("bin", sources.binary)}
        /\ x.debug = {DebugBinding("debug", sources.debug, "dwarf", sources.binary)}
        /\ y.modules = {SubjectModule("bin", captured.binary)}
        /\ y.debug = {DebugBinding("debug", captured.debug, "dwarf", captured.binary)}
    BY <2>3 DEF SingleFileClosure
  <2>5. /\ SubjectModule("bin", sources.binary) = SubjectModule("bin", captured.binary)
        /\ DebugBinding("debug", sources.debug, "dwarf", sources.binary) =
           DebugBinding("debug", captured.debug, "dwarf", captured.binary)
    BY <2>2, <2>3, <2>4
  <2>6. \A p, q : SubjectModule("bin", p).digest = p
                  /\ DebugBinding("debug", p, "dwarf", q).digest = p
    BY DEF SubjectModule, DebugBinding
  <2> QED
    BY <2>5, <2>6
<1>8. sources # [captured EXCEPT !.binary = Rebuilt]
  <2>1. "binary" \in SourceFields /\ "candidate" \in SourceFields
    BY <1>1
  <2> QED
    BY <1>7, <2>1, Replacing
<1>9. sources # [captured EXCEPT !.debug = Rebuilt]
  <2>1. "debug" \in SourceFields /\ "candidate" \in SourceFields
    BY <1>1
  <2> QED
    BY <1>7, <2>1, Replacing
<1>10. PICK created : created = captured.world.created + 1
  OBVIOUS
<1>11. PICK world : world = [captured.world EXCEPT !.created = created]
  OBVIOUS
<1>12. ASSUME sources = [captured EXCEPT !.world = world] PROVE sources = captured
  <2>1. "world" \in SourceFields /\ "candidate" \in SourceFields
    BY <1>1
  <2>2. sources.world = world /\ sources.candidate = captured.candidate
    BY <1>12, <2>1, Replacing
  <2>3. sources.candidate.world = sources.world /\ captured.candidate.world = captured.world
    BY DEF SourcesBind, Named
  <2> QED
    BY <1>12, <2>1, <2>2, <2>3, Replacing
<1>13. ASSUME NEW f \in {"support", "evidence"}, NEW x, sources = [captured EXCEPT ![f] = x]
       PROVE  Bound(sources)
  <2>1. f \in SourceFields
    BY <1>1
  <2>2. \A g \in SourceFields \ {f} : sources[g] = captured[g]
    BY <1>13, <2>1, Replacing
  <2>3. sources = [g \in SourceFields |-> sources[g]]
    BY <1>13 DEF Named
  <2>4. Named(sources)
    <3>1. /\ sources.candidate = captured.candidate /\ sources.world = captured.world
          /\ sources.binary = captured.binary /\ sources.debug = captured.debug
          /\ sources.artifacts = captured.artifacts /\ sources.exchanges = captured.exchanges
      BY <1>1, <2>2
    <3> QED
      BY <2>3, <3>1 DEF Named
  <2> QED
    BY <2>2, <2>4 DEF Bound
<1>14. sources = captured => Bound(sources)
  BY DEF Bound
<1>15. sources = [captured EXCEPT !.world.created = created] =>
         sources = [captured EXCEPT !.world = world]
  BY <1>11
<1> QED
  BY <1>2, <1>3, <1>8, <1>9, <1>10, <1>12, <1>13, <1>14, <1>15 DEF Returned

(***************************************************************************)
(* What the capsule of sources that bind holds.                            *)
(***************************************************************************)

Uncaptured(sources, content) ==
    /\ content.kind = "bytes"
    /\ content \notin {sources.binary, sources.debug, sources.world}
    /\ content \notin Range(Bodies(sources.candidate, "failure"))
    /\ content \notin Range(sources.artifacts)
    /\ \A x \in Range(Bodies(sources.candidate, "input")) : content # x.content

\* What assemble_object_set pushes before the exchanges: no exchange, support
\* package or evidence enters it.
CommonPushes(sources, trigger, subject) ==
    LET inputs == Bodies(sources.candidate, "input")
        failure == Bodies(sources.candidate, "failure")[1]
        declared == WorldArtifacts(sources.world)
    IN
    <<Push("subject", "subject-closure", subject, MintedId),
      Push("subject", "subject-file", sources.binary, MintedId),
      Push("subject", "dwarf", sources.debug, MintedId)>> \o
    [i \in DOMAIN inputs |->
        Push("trigger", inputs[i].media, inputs[i].content, trigger.inputs[i].object)] \o
    <<Push("failure", "failure", failure, failure.reference.object),
      Push("trigger", "trigger", trigger, MintedId),
      Push("world-manifest", "world", sources.world, MintedId)>> \o
    [i \in DOMAIN declared |->
        Push("world-state", declared[i].media, sources.artifacts[i], MintedId)]

\* The contents that assemble_object_set pushes: the artifacts of the world are
\* its only world state, the transcript is the only one, and all but the
\* exchanges were captured.
PushesHold(pushes, common, sources, transcript) ==
    /\ IsList(pushes) /\ IsList(common)
    /\ \A p \in Range(common) : p.role # "dependency-transcript"
    /\ \E rest : /\ pushes = common \o rest /\ IsList(rest)
                 /\ \A p \in Range(rest) : p.role = "dependency-transcript"
    /\ \A p \in Range(pushes) : p.role # "candidate"
    /\ \A p \in Range(pushes) : p.role = "world-state" => p.content \in Range(sources.artifacts)
    /\ \A a \in Range(sources.artifacts) :
         \E p \in Range(pushes) : p.role = "world-state" /\ p.content = a
    /\ \A p \in Range(pushes) :
         p.role = "dependency-transcript" /\ p.media = "transcript" => p.content = transcript
    /\ (\E p \in Range(pushes) : p.role = "dependency-transcript" /\ p.media = "transcript")
         <=> sources.exchanges # <<>>
    /\ \A p \in Range(common) : \A x : Uncaptured(sources, x) => p.content # x

LEMMA PushFields ==
    ASSUME NEW role, NEW media, NEW content, NEW fixed
    PROVE  /\ Push(role, media, content, fixed).role = role
           /\ Push(role, media, content, fixed).media = media
           /\ Push(role, media, content, fixed).content = content
  BY DEF Push

LEMMA PushesAre ==
    ASSUME NEW sources, Named(sources), SourcesBind(sources),
           NEW trigger, trigger.kind = "trigger", NEW subject, subject.kind = "subject-closure"
    PROVE  PushesHold(Pushes(sources, trigger, subject),
               CommonPushes(sources, trigger, subject), sources,
               DeriveTranscript(sources.candidate, Bodies(sources.candidate, "dependency"),
                                sources.exchanges))
<1>1. PICK candidate : candidate = sources.candidate
  OBVIOUS
<1>2. PICK inputs : inputs = Bodies(candidate, "input")
  OBVIOUS
<1>3. PICK failures : failures = Bodies(candidate, "failure")
  OBVIOUS
<1>4. PICK declared : declared = WorldArtifacts(sources.world)
  OBVIOUS
<1>5. PICK cursors : cursors = Bodies(candidate, "dependency")
  OBVIOUS
<1>6. PICK ex : ex = sources.exchanges
  OBVIOUS
<1>7. PICK transcript : transcript = DeriveTranscript(candidate, cursors, ex)
  OBVIOUS
<1>8. IsList(inputs) /\ IsList(failures) /\ IsList(cursors)
  BY <1>1, <1>2, <1>3, <1>5, BodiesListed DEF Named
<1>9. IsList(ex) /\ IsList(declared)
  BY <1>4, <1>6 DEF Named
<1>10. PICK L \in Nat : L = Len(ex) /\ DOMAIN ex = 1..L
  BY <1>9, ListFacts
<1>11. Len(cursors) = L /\ (cursors = <<>> <=> L = 0)
  <2>1. cursors = [i \in 1..L |-> ex[i].cursor]
    BY <1>1, <1>5, <1>6, <1>10 DEF Named
  <2>2. cursors = [i \in 1..L |-> cursors[i]]
    BY <2>1
  <2>3. Len(cursors) = L
    BY <2>2, ListOf
  <2> QED
    BY <2>3, <1>8 DEF IsList
<1>12. PICK body : body = [k \in 1..(2 * L) |->
          LET x == transcript.interactions[(k + 1) \div 2] IN
          IF k % 2 = 1 THEN Push("dependency-transcript", "body", x.request, x.requestObject)
          ELSE Push("dependency-transcript", "body", x.response, x.responseObject)]
  OBVIOUS
<1>13. PICK p1 : p1 = <<Push("subject", "subject-closure", subject, MintedId),
                        Push("subject", "subject-file", sources.binary, MintedId),
                        Push("subject", "dwarf", sources.debug, MintedId)>>
  OBVIOUS
<1>14. PICK p2 : p2 = [i \in DOMAIN inputs |->
          Push("trigger", inputs[i].media, inputs[i].content, trigger.inputs[i].object)]
  OBVIOUS
<1>15. PICK p3 : p3 = <<Push("failure", "failure", failures[1], failures[1].reference.object),
                        Push("trigger", "trigger", trigger, MintedId),
                        Push("world-manifest", "world", sources.world, MintedId)>>
  OBVIOUS
<1>16. PICK p4 : p4 = [i \in DOMAIN declared |->
          Push("world-state", declared[i].media, sources.artifacts[i], MintedId)]
  OBVIOUS
<1>17. PICK p5 : p5 = IF cursors = <<>> THEN <<>>
          ELSE <<Push("dependency-transcript", "transcript", transcript, MintedId)>> \o body
  OBVIOUS
<1>18. PICK pushes : pushes = Pushes(sources, trigger, subject)
  OBVIOUS
<1>19. pushes = p1 \o p2 \o p3 \o p4 \o p5
  BY <1>1, <1>2, <1>3, <1>4, <1>5, <1>6, <1>7, <1>11, <1>12, <1>13, <1>14, <1>15, <1>16, <1>17,
     <1>18 DEF Pushes
<1>20. \A a, b, c : /\ IsList(<<a, b, c>>)
                    /\ \A p : p \in Range(<<a, b, c>>) <=> p = a \/ p = b \/ p = c
  <2>1. ASSUME NEW a, NEW b, NEW c
        PROVE  /\ IsList(<<a, b, c>>)
               /\ \A p : p \in Range(<<a, b, c>>) <=> p = a \/ p = b \/ p = c
    <3>1. PICK s : s = <<a, b, c>>
      OBVIOUS
    <3>2. s = [i \in 1..3 |-> s[i]] /\ s[1] = a /\ s[2] = b /\ s[3] = c
      BY <3>1
    <3>3. IsList(s)
      BY <3>2, ListOf
    <3>4. \A i : i \in 1..3 <=> i = 1 \/ i = 2 \/ i = 3
      OBVIOUS
    <3>5. DOMAIN s = 1..3
      BY <3>2
    <3>6. \A p : p \in Range(s) <=> p = a \/ p = b \/ p = c
      BY <3>2, <3>4, <3>5 DEF Range
    <3> QED
      BY <3>1, <3>3, <3>6
  <2> QED
    BY <2>1
<1>21. IsList(p1) /\ IsList(p3)
  BY <1>13, <1>15, <1>20
<1>22. IsList(p2)
  <2>1. PICK n \in Nat : DOMAIN inputs = 1..n
    BY <1>8, ListFacts
  <2>2. p2 = [i \in 1..n |-> p2[i]]
    BY <1>14, <2>1
  <2> QED
    BY <2>2, ListOf
<1>23. IsList(p4)
  <2>1. PICK n \in Nat : DOMAIN declared = 1..n
    BY <1>9, ListFacts
  <2>2. p4 = [i \in 1..n |-> p4[i]]
    BY <1>16, <2>1
  <2> QED
    BY <2>2, ListOf
<1>24. IsList(body)
  <2>1. body = [k \in 1..(2 * L) |-> body[k]] /\ 2 * L \in Nat
    BY <1>12
  <2> QED
    BY <2>1, ListOf
<1>25. PICK head : head = Push("dependency-transcript", "transcript", transcript, MintedId)
  OBVIOUS
<1>26. IsList(<<head>>) /\ \A p : p \in Range(<<head>>) <=> p = head
  BY OneListed
<1>27. /\ IsList(p5)
       /\ \A p : p \in Range(p5) <=> L # 0 /\ (p = head \/ p \in Range(body))
  <2>1. CASE L = 0
    <3>1. p5 = <<>>
      BY <2>1, <1>11, <1>17
    <3>2. <<>> \in Seq({}) /\ Range(<<>>) = {}
      BY DEF Range
    <3> QED
      BY <2>1, <3>1, <3>2 DEF IsList
  <2>2. CASE L # 0
    <3>1. p5 = <<head>> \o body
      BY <2>2, <1>11, <1>17, <1>25
    <3>2. /\ IsList(<<head>> \o body)
          /\ \A p : p \in Range(<<head>> \o body) <=> p \in Range(<<head>>) \/ p \in Range(body)
      BY <1>24, <1>26, ConcatHolds
    <3> QED
      BY <2>2, <3>1, <3>2, <1>26
  <2> QED
    BY <2>1, <2>2
<1>28. PICK common :
         /\ common = CommonPushes(sources, trigger, subject) /\ IsList(common)
         /\ \A p : p \in Range(common) <=>
              p \in Range(p1) \/ p \in Range(p2) \/ p \in Range(p3) \/ p \in Range(p4)
         /\ pushes = common \o p5 /\ IsList(pushes)
         /\ \A p : p \in Range(pushes) <=> p \in Range(common) \/ p \in Range(p5)
  <2>1. PICK a : a = p1 \o p2
    OBVIOUS
  <2>2. IsList(a) /\ \A p : p \in Range(a) <=> p \in Range(p1) \/ p \in Range(p2)
    BY <2>1, <1>21, <1>22, ConcatHolds
  <2>3. PICK b : b = a \o p3
    OBVIOUS
  <2>4. IsList(b) /\ \A p : p \in Range(b) <=> p \in Range(a) \/ p \in Range(p3)
    BY <2>2, <2>3, <1>21, ConcatHolds
  <2>5. PICK c : c = b \o p4
    OBVIOUS
  <2>6. IsList(c) /\ \A p : p \in Range(c) <=> p \in Range(b) \/ p \in Range(p4)
    BY <2>4, <2>5, <1>23, ConcatHolds
  <2>7. PICK d : d = c \o p5
    OBVIOUS
  <2>8. IsList(d) /\ \A p : p \in Range(d) <=> p \in Range(c) \/ p \in Range(p5)
    BY <2>6, <2>7, <1>27, ConcatHolds
  <2>9. pushes = d
    BY <1>19, <2>1, <2>3, <2>5, <2>7
  <2>10. c = CommonPushes(sources, trigger, subject)
    BY <1>1, <1>2, <1>3, <1>4, <1>13, <1>14, <1>15, <1>16, <2>1, <2>3, <2>5 DEF CommonPushes
  <2>11. \A p : p \in Range(c) <=>
           p \in Range(p1) \/ p \in Range(p2) \/ p \in Range(p3) \/ p \in Range(p4)
    BY <2>2, <2>4, <2>6
  <2> QED
    BY <2>6, <2>7, <2>8, <2>9, <2>10, <2>11
<1>29. \A p \in Range(p1) :
         p.role = "subject" /\ p.content \in {subject, sources.binary, sources.debug}
  <2>1. \A p \in Range(p1) : \/ p = Push("subject", "subject-closure", subject, MintedId)
                             \/ p = Push("subject", "subject-file", sources.binary, MintedId)
                             \/ p = Push("subject", "dwarf", sources.debug, MintedId)
    BY <1>13, <1>20
  <2> QED
    BY <2>1, PushFields
<1>30. \A p \in Range(p2) : p.role = "trigger" /\ \E i \in DOMAIN inputs : p.content = inputs[i].content
  <2>1. ASSUME NEW p \in Range(p2)
        PROVE  p.role = "trigger" /\ \E i \in DOMAIN inputs : p.content = inputs[i].content
    <3>1. PICK i \in DOMAIN inputs :
            p = Push("trigger", inputs[i].media, inputs[i].content, trigger.inputs[i].object)
      BY <1>14, <2>1 DEF Range
    <3> QED
      BY <3>1, PushFields
  <2> QED
    BY <2>1
<1>31. \A p \in Range(p3) : p.role \in {"failure", "trigger", "world-manifest"}
                            /\ p.content \in {failures[1], trigger, sources.world}
  <2>1. \A p \in Range(p3) :
          \/ p = Push("failure", "failure", failures[1], failures[1].reference.object)
          \/ p = Push("trigger", "trigger", trigger, MintedId)
          \/ p = Push("world-manifest", "world", sources.world, MintedId)
    BY <1>15, <1>20
  <2> QED
    BY <2>1, PushFields
<1>32. sources.artifacts = [i \in DOMAIN declared |-> declared[i].digest]
  BY <1>4 DEF Named
<1>33. /\ \A p \in Range(p4) : p.role = "world-state" /\ p.content \in Range(sources.artifacts)
       /\ \A a \in Range(sources.artifacts) :
            \E p \in Range(p4) : p.role = "world-state" /\ p.content = a
  <2>1. DOMAIN sources.artifacts = DOMAIN declared /\ DOMAIN p4 = DOMAIN declared
    BY <1>16, <1>32
  <2>2. ASSUME NEW i \in DOMAIN declared
        PROVE  p4[i].role = "world-state" /\ p4[i].content = sources.artifacts[i]
    BY <1>16, PushFields
  <2> QED
    BY <2>1, <2>2 DEF Range
<1>34. \A p \in Range(body) :
         /\ p.role = "dependency-transcript" /\ p.media = "body"
         /\ \E x \in Range(ex) : p.content \in {x.request, x.response}
  <2>1. ASSUME NEW p \in Range(body)
        PROVE  /\ p.role = "dependency-transcript" /\ p.media = "body"
               /\ \E x \in Range(ex) : p.content \in {x.request, x.response}
    <3>1. PICK k \in 1..(2 * L) : p = body[k]
      BY <1>12, <2>1 DEF Range
    <3>2. PICK j : j = (k + 1) \div 2
      OBVIOUS
    <3>3. j \in 1..L
      BY <3>2
    <3>4. PICK x : x = transcript.interactions[j]
      OBVIOUS
    <3>5. \/ p = Push("dependency-transcript", "body", x.request, x.requestObject)
          \/ p = Push("dependency-transcript", "body", x.response, x.responseObject)
      BY <1>12, <3>1, <3>2, <3>4
    <3>6. x.request = ex[j].request /\ x.response = ex[j].response
      BY <1>7, <1>10, <3>3, <3>4 DEF DeriveTranscript
    <3>7. ex[j] \in Range(ex)
      BY <1>9, <1>10, <3>3, ListFacts
    <3> QED
      BY <3>5, <3>6, <3>7, PushFields
  <2> QED
    BY <2>1
<1>35. head.role = "dependency-transcript" /\ head.media = "transcript" /\ head.content = transcript
  BY <1>25, PushFields
<1>36. \A p \in Range(pushes) : p.role # "candidate"
  BY <1>27, <1>28, <1>29, <1>30, <1>31, <1>33, <1>34, <1>35
<1>37. \A p \in Range(pushes) : p.role = "world-state" => p.content \in Range(sources.artifacts)
  BY <1>27, <1>28, <1>29, <1>30, <1>31, <1>33, <1>34, <1>35
<1>38. \A a \in Range(sources.artifacts) :
         \E p \in Range(pushes) : p.role = "world-state" /\ p.content = a
  BY <1>28, <1>33
<1>39. \A p \in Range(pushes) :
         p.role = "dependency-transcript" /\ p.media = "transcript" => p.content = transcript
  BY <1>27, <1>28, <1>29, <1>30, <1>31, <1>33, <1>34, <1>35
<1>40. (\E p \in Range(pushes) : p.role = "dependency-transcript" /\ p.media = "transcript")
         <=> ex # <<>>
  <2>1. L = 0 <=> ex = <<>>
    BY <1>9, <1>10 DEF IsList
  <2>2. L # 0 => \E p \in Range(pushes) :
                   p.role = "dependency-transcript" /\ p.media = "transcript"
    BY <1>27, <1>28, <1>35
  <2>3. ASSUME NEW p \in Range(pushes), p.role = "dependency-transcript" PROVE L # 0
    BY <2>3, <1>27, <1>28, <1>29, <1>30, <1>31, <1>33
  <2> QED
    BY <2>1, <2>2, <2>3
<1>41. ASSUME NEW p \in Range(common), NEW x, Uncaptured(sources, x) PROVE p.content # x
  <2>1. failures[1] \in Range(failures)
    <3>1. Len(failures) = 1
      BY <1>1, <1>3 DEF SourcesBind, RecordsDecode
    <3>2. 1 \in DOMAIN failures
      BY <3>1, <1>8, ListFacts
    <3> QED
      BY <3>2 DEF Range
  <2>2. /\ x \notin {subject, trigger, sources.binary, sources.debug, sources.world,
                     failures[1]}
        /\ x \notin Range(sources.artifacts)
    BY <1>1, <1>3, <1>41, <2>1 DEF Uncaptured
  <2>3. \A i \in DOMAIN inputs : x # inputs[i].content
    BY <1>1, <1>2, <1>8, <1>41, ListFacts DEF Uncaptured
  <2>4. CASE p \in Range(p1)
    BY <2>2, <2>4, <1>29
  <2>5. CASE p \in Range(p2)
    BY <2>3, <2>5, <1>30
  <2>6. CASE p \in Range(p3)
    BY <2>2, <2>6, <1>31
  <2>7. CASE p \in Range(p4)
    BY <2>2, <2>7, <1>33
  <2> QED
    BY <2>4, <2>5, <2>6, <2>7, <1>28
<1>42. \A p \in Range(common) : p.role # "dependency-transcript"
  BY <1>28, <1>29, <1>30, <1>31, <1>33
<1>43. \A p \in Range(p5) : p.role = "dependency-transcript"
  BY <1>27, <1>34, <1>35
<1>44. PushesHold(pushes, common, sources, transcript)
  BY <1>6, <1>27, <1>28, <1>36, <1>37, <1>38, <1>39, <1>40, <1>41, <1>42, <1>43 DEF PushesHold
<1> QED
  BY <1>1, <1>5, <1>6, <1>7, <1>18, <1>28, <1>44

\* The objects of the capsule are those that were pushed, and the rest of it,
\* up to its closure, support and capabilities, is from the candidate.
LEMMA SealedObjects ==
    ASSUME NEW sources, SealPrivateCandidate(sources) # NoCapsule,
           NEW pushes, IsList(pushes), \A p \in Range(pushes) : p.role # "candidate",
           pushes = Pushes(sources, DeriveTrigger(sources.candidate),
                           SingleFileClosure(sources.candidate.deployment.subject,
                                             sources.binary, sources.debug,
                                             RuntimeFamily(sources.candidate)))
    PROVE  LET capsule == SealPrivateCandidate(sources).capsule
               candidate == sources.candidate
           IN
           /\ capsule.objects = Range(ObjectSet(pushes))
           /\ capsule.subject = candidate.deployment.subject
           /\ capsule.trigger = DeriveTrigger(candidate)
           /\ capsule.failure = Bodies(candidate, "failure")[1].identity
           /\ capsule.world = candidate.world
           /\ capsule.processor = candidate.deployment.processor
<1> DEFINE candidate == sources.candidate
           trigger == DeriveTrigger(candidate)
           subject == SingleFileClosure(candidate.deployment.subject, sources.binary,
                                        sources.debug, RuntimeFamily(candidate))
           objects == ObjectSet(Pushes(sources, trigger, subject))
           stored == [id \in {o.id : o \in Range(objects)} |->
                        (CHOOSE o \in Range(objects) : o.id = id).digest]
           closure == CloseManagedWorld(sources.support.rules, Evidence(sources, objects))
           request == [candidate |-> candidate, closure |-> closure, world |-> sources.world,
                       objects |-> Append(objects, CandidateDescriptor(candidate)),
                       failure |-> Bodies(candidate, "failure")[1], trigger |-> trigger,
                       support |-> sources.support]
           closed == CloseReplayCapsule(request)
           capsule == BindProcessor(closed, candidate.deployment.processor)
           result == [capsule |-> capsule, closure |-> closure, stored |-> stored]
<1>1. SealPrivateCandidate(sources) = result /\ closed # NoCapsule
  BY DEF SealPrivateCandidate
<1>2. /\ request.objects = Append(objects, CandidateDescriptor(candidate))
      /\ request.candidate = candidate /\ request.trigger = trigger
      /\ request.failure = Bodies(candidate, "failure")[1]
  OBVIOUS
<1>3. objects = ObjectSet(pushes)
  OBVIOUS
<1>4. result.capsule = capsule
  OBVIOUS
<1> HIDE DEF result, request, closure, stored, objects
<1>5. closed = ClosedCapsule(request)
  BY <1>1 DEF CloseReplayCapsule
<1>6. /\ {"objects", "subject", "trigger", "failure", "world", "processor"} \subseteq DOMAIN closed
      /\ closed.objects = ReplayObjects(request.objects)
      /\ closed.subject = candidate.deployment.subject
      /\ closed.trigger = trigger
      /\ closed.failure = Bodies(candidate, "failure")[1].identity
      /\ closed.world = candidate.world
  <2> HIDE DEF candidate, trigger
  <2> QED BY <1>2, <1>5 DEF ClosedCapsule
<1> HIDE DEF closed
<1>7. capsule = [closed EXCEPT !.processor = candidate.deployment.processor]
  BY DEF BindProcessor
<1>8. /\ capsule.objects = closed.objects /\ capsule.subject = closed.subject
      /\ capsule.trigger = closed.trigger /\ capsule.failure = closed.failure
      /\ capsule.world = closed.world /\ capsule.processor = candidate.deployment.processor
  <2> HIDE DEF capsule, candidate
  <2> QED BY <1>6, <1>7
<1> HIDE DEF capsule
<1>9. PICK last : last = CandidateDescriptor(candidate)
  OBVIOUS
<1>10. last.role = "candidate"
  BY <1>9 DEF CandidateDescriptor, LogicalObject
<1>11. PICK n \in Nat : DOMAIN pushes = 1..n
  BY ListFacts
<1>12. PICK s : s = ObjectSet(pushes)
  OBVIOUS
<1>13. /\ s = [i \in 1..n |-> s[i]]
       /\ \A i \in 1..n : s[i].role = pushes[i].role
  BY <1>11, <1>12 DEF ObjectSet, LogicalObject
<1>14. IsList(s) /\ Len(s) = n
  BY <1>13, ListOf
<1>15. \A x : x \in Range(Append(s, last)) <=> x \in Range(s) \/ x = last
  <2>2. PICK t : t = <<last>>
    OBVIOUS
  <2>4. IsList(t) /\ \A x : x \in Range(t) <=> x = last
    BY <2>2, OneListed
  <2>5. \A x : x \in Range(s \o t) <=> x \in Range(s) \/ x \in Range(t)
    BY <1>14, <2>4, ConcatHolds
  <2>6. Append(s, last) = s \o t
    <3>1. PICK S : S = Range(s) \cup {last}
      OBVIOUS
    <3>2. s \in Seq(S) /\ last \in S
      <4>1. s \in [1..n -> S]
        BY <1>13, <3>1 DEF Range
      <4> QED
        BY <3>1, <4>1
    <3> QED
      BY <2>2, <3>2, AppendIsConcat
  <2> QED
    BY <2>4, <2>5, <2>6
<1>16. \A o \in Range(s) : o.role # "candidate"
  <2>1. \A i \in 1..n : pushes[i] \in Range(pushes)
    BY <1>11 DEF Range
  <2> QED
    BY <2>1, <1>13 DEF Range
<1>17. ReplayObjects(Append(s, last)) = Range(s)
  BY <1>10, <1>15, <1>16 DEF ReplayObjects
<1>18. capsule.objects = Range(ObjectSet(pushes))
  BY <1>2, <1>3, <1>6, <1>8, <1>9, <1>12, <1>17
<1> QED
  BY <1>1, <1>4, <1>6, <1>8, <1>18

\* The objects of a capsule, by the contents they were pushed with.
LEMMA ObjectsArePushed ==
    ASSUME NEW pushes, IsList(pushes)
    PROVE  /\ \A o \in Range(ObjectSet(pushes)) : \E p \in Range(pushes) :
                o.role = p.role /\ o.media = p.media /\ o.digest = p.content
           /\ \A p \in Range(pushes) : \E o \in Range(ObjectSet(pushes)) :
                o.role = p.role /\ o.media = p.media /\ o.digest = p.content
<1>1. PICK s : s = ObjectSet(pushes)
  OBVIOUS
<1>2. /\ DOMAIN s = DOMAIN pushes
      /\ \A i \in DOMAIN pushes : /\ s[i].role = pushes[i].role /\ s[i].media = pushes[i].media
                                  /\ s[i].digest = pushes[i].content
  BY <1>1 DEF ObjectSet, LogicalObject
<1> QED
  BY <1>1, <1>2 DEF Range

\* An object that is pushed is the same whatever is pushed after it.
LEMMA PrefixObjects ==
    ASSUME NEW common, IsList(common), \A p \in Range(common) : p.role # "dependency-transcript",
           NEW rest, IsList(rest), \A p \in Range(rest) : p.role = "dependency-transcript"
    PROVE  {o \in Range(ObjectSet(common \o rest)) : o.role # "dependency-transcript"}
             = Range(ObjectSet(common))
<1>1. PICK m \in Nat, n \in Nat : /\ m = Len(common) /\ DOMAIN common = 1..m
                                  /\ n = Len(rest) /\ DOMAIN rest = 1..n
  BY ListFacts
<1>2. PICK all : all = common \o rest
  OBVIOUS
<1>3. /\ DOMAIN all = 1..(m + n)
      /\ \A i \in 1..m : all[i] = common[i]
      /\ \A i \in 1..(m + n) : i > m => all[i] \in Range(rest)
  <2>1. PICK S : S = Range(common) \cup Range(rest)
    OBVIOUS
  <2>2. common \in Seq(S) /\ rest \in Seq(S)
    <3>1. common \in [1..m -> S] /\ rest \in [1..n -> S]
      BY <1>1, <2>1, ListFacts
    <3> QED
      BY <3>1
  <2>3. /\ all \in Seq(S) /\ Len(all) = m + n
        /\ \A i \in 1..(m + n) : all[i] = IF i <= m THEN common[i] ELSE rest[i - m]
    BY <1>1, <1>2, <2>2, ConcatProperties
  <2>4. ASSUME NEW i \in 1..(m + n), i > m PROVE all[i] \in Range(rest)
    <3>1. i - m \in DOMAIN rest /\ all[i] = rest[i - m]
      BY <1>1, <2>3, <2>4
    <3> QED
      BY <3>1 DEF Range
  <2> QED
    BY <2>3, <2>4
<1>4. PICK s, t : s = ObjectSet(common) /\ t = ObjectSet(all)
  OBVIOUS
<1>5. DOMAIN s = 1..m /\ DOMAIN t = 1..(m + n)
  BY <1>1, <1>3, <1>4 DEF ObjectSet
<1>6. ASSUME NEW i \in 1..m PROVE t[i] = s[i]
  <2>1. {j \in 1..(i - 1) : all[j].fixed = MintedId} = {j \in 1..(i - 1) : common[j].fixed = MintedId}
    BY <1>3
  <2>2. i \in DOMAIN all /\ i \in DOMAIN common /\ all[i] = common[i]
    BY <1>1, <1>3
  <2> QED
    BY <1>4, <2>1, <2>2 DEF ObjectSet
<1>7. /\ \A i \in 1..m : s[i].role = common[i].role
      /\ \A i \in 1..(m + n) : t[i].role = all[i].role
  BY <1>1, <1>3, <1>4 DEF ObjectSet, LogicalObject
<1>8. \A i \in 1..m : s[i].role # "dependency-transcript"
  BY <1>1, <1>7, ListFacts
<1>9. \A i \in 1..(m + n) : i > m => t[i].role = "dependency-transcript"
  BY <1>3, <1>7
<1>10. \A i \in 1..m : i \in 1..(m + n)
  OBVIOUS
<1>11. \A i \in 1..(m + n) : i \in 1..m \/ i > m
  OBVIOUS
<1>12. {o \in Range(t) : o.role # "dependency-transcript"} = Range(s)
  BY <1>5, <1>6, <1>8, <1>9, <1>10, <1>11 DEF Range
<1> QED
  BY <1>2, <1>4, <1>12

\* What ResealIdentical says of one capsule.
HoldsReturned(sources, capsule) ==
    /\ {o.digest : o \in Matching(capsule.objects, "world-state", <<>>)}
         = {a.digest : a \in Range(WorldArtifacts(captured.candidate.world))}
    /\ \A o \in capsule.objects : o.role # "dependency-transcript" => o.digest # Rebuilt
    /\ LET cursors == Bodies(captured.candidate, "dependency")
           exchanges == SealedExchanges(capsule)
       IN
       /\ DOMAIN exchanges = DOMAIN cursors
       /\ \A i \in DOMAIN cursors : \E x \in Range(sources.exchanges) :
            x.cursor = cursors[i] /\ exchanges[i] = <<x.request, x.response>>

\* What is fixed by the candidate, from the captured sources.
CommonOf(sources) ==
    CommonPushes(sources, DeriveTrigger(sources.candidate),
                 SingleFileClosure(sources.candidate.deployment.subject, sources.binary,
                                   sources.debug, RuntimeFamily(sources.candidate)))

CommittedBy(sources) ==
    LET candidate == sources.candidate IN
    <<candidate.deployment.subject, DeriveTrigger(candidate),
      Bodies(candidate, "failure")[1].identity, candidate.world,
      candidate.deployment.processor, Range(ObjectSet(CommonOf(sources)))>>

LEMMA CapsuleHoldsReturned ==
    ASSUME captured \in Captures, NEW sources, Bound(sources),
           SealPrivateCandidate(sources) # NoCapsule, NEW capsule,
           capsule = SealPrivateCandidate(sources).capsule
    PROVE  HoldsReturned(sources, capsule) /\ Committed(capsule) = CommittedBy(captured)
<1>1. /\ Named(sources) /\ SourcesBind(sources)
      /\ sources.candidate = captured.candidate /\ sources.world = captured.world
      /\ sources.binary = captured.binary /\ sources.debug = captured.debug
      /\ sources.artifacts = captured.artifacts
  BY DEF Bound, SourceFields
<1>2. Uncaptured(sources, Rebuilt)
  BY <1>1, CapturedAssumption DEF Uncaptured
<1>3. PICK trigger : trigger = DeriveTrigger(sources.candidate)
  OBVIOUS
<1>4. PICK subject : subject = SingleFileClosure(sources.candidate.deployment.subject,
                                                sources.binary, sources.debug,
                                                RuntimeFamily(sources.candidate))
  OBVIOUS
<1>5. trigger.kind = "trigger" /\ subject.kind = "subject-closure"
  BY <1>3, <1>4 DEF DeriveTrigger, SingleFileClosure
<1>6. PICK pushes : pushes = Pushes(sources, trigger, subject)
  OBVIOUS
<1>7. PICK common : common = CommonPushes(sources, trigger, subject)
  OBVIOUS
<1>8. PICK t : t = DeriveTranscript(sources.candidate, Bodies(sources.candidate, "dependency"),
                                    sources.exchanges)
  OBVIOUS
<1>9. PushesHold(pushes, common, sources, t)
  BY <1>1, <1>5, <1>6, <1>7, <1>8, PushesAre
<1>10. PICK objects : objects = Range(ObjectSet(pushes))
  OBVIOUS
<1>11. /\ capsule.objects = objects
       /\ capsule.subject = sources.candidate.deployment.subject
       /\ capsule.trigger = trigger
       /\ capsule.failure = Bodies(sources.candidate, "failure")[1].identity
       /\ capsule.world = sources.candidate.world
       /\ capsule.processor = sources.candidate.deployment.processor
  <2>1. IsList(pushes) /\ \A p \in Range(pushes) : p.role # "candidate"
    BY <1>9 DEF PushesHold
  <2> QED
    BY <1>3, <1>4, <1>6, <1>10, <2>1, SealedObjects
<1>12. /\ \A o \in objects : \E p \in Range(pushes) :
            o.role = p.role /\ o.media = p.media /\ o.digest = p.content
       /\ \A p \in Range(pushes) : \E o \in objects :
            o.role = p.role /\ o.media = p.media /\ o.digest = p.content
  BY <1>9, <1>10, ObjectsArePushed DEF PushesHold
<1>13. {o \in objects : o.role # "dependency-transcript"} = Range(ObjectSet(common))
  BY <1>9, <1>10, PrefixObjects DEF PushesHold
<1>14. \A o \in objects : o.role # "dependency-transcript" => o.digest # Rebuilt
  <2>1. \A o \in Range(ObjectSet(common)) : \E p \in Range(common) : o.digest = p.content
    BY <1>9, ObjectsArePushed DEF PushesHold
  <2> QED
    BY <1>2, <1>9, <1>13, <2>1 DEF PushesHold
<1>15. Committed(capsule) = CommittedBy(captured)
  <2>1. common = CommonOf(captured)
    BY <1>1, <1>3, <1>4, <1>7 DEF CommonOf, CommonPushes
  <2> QED
    BY <1>1, <1>3, <1>11, <1>13, <2>1 DEF Committed, CommittedBy
<1>16. {o.digest : o \in Matching(objects, "world-state", <<>>)} = Range(sources.artifacts)
  <2>1. Matching(objects, "world-state", <<>>) = {o \in objects : o.role = "world-state"}
    BY DEF Matching
  <2>2. \A o \in objects : o.role = "world-state" => o.digest \in Range(sources.artifacts)
    BY <1>9, <1>12 DEF PushesHold
  <2>3. \A a \in Range(sources.artifacts) : \E o \in objects : o.role = "world-state" /\ o.digest = a
    BY <1>9, <1>12 DEF PushesHold
  <2> QED
    BY <2>1, <2>2, <2>3
<1>17. Range(sources.artifacts) =
         {a.digest : a \in Range(WorldArtifacts(captured.candidate.world))}
  <2>1. PICK declared : declared = WorldArtifacts(sources.world)
    OBVIOUS
  <2>2. captured.candidate.world = sources.world
    BY <1>1 DEF Named
  <2>3. sources.artifacts = [i \in DOMAIN declared |-> declared[i].digest]
    BY <1>1, <2>1 DEF Named
  <2>4. Range(sources.artifacts) = {a.digest : a \in Range(declared)}
    BY <2>3 DEF Range
  <2> QED
    BY <2>1, <2>2, <2>4
<1>18. PICK found : found = Matching(objects, "dependency-transcript", [media |-> "transcript"])
  OBVIOUS
<1>19. found = {o \in objects : o.role = "dependency-transcript" /\ o.media = "transcript"}
  <2>1. PICK fields : fields = [media |-> "transcript"]
    OBVIOUS
  <2>2. DOMAIN fields = {"media"} /\ fields["media"] = "transcript"
    BY <2>1
  <2> QED
    BY <1>18, <2>1, <2>2 DEF Matching
<1>20. PICK ex : ex = sources.exchanges
  OBVIOUS
<1>21. found = {} <=> ex = <<>>
  BY <1>9, <1>12, <1>19, <1>20 DEF PushesHold
<1>22. ASSUME found # {} PROVE Manifest(found) = t
  <2>1. \A o \in found : o.digest = t
    BY <1>9, <1>12, <1>19 DEF PushesHold
  <2>2. (CHOOSE o \in found : TRUE) \in found
    BY <1>22
  <2> QED
    BY <2>1, <2>2 DEF Manifest
<1>23. PICK cursors : cursors = Bodies(captured.candidate, "dependency")
  OBVIOUS
<1>24. cursors = [i \in DOMAIN ex |-> ex[i].cursor] /\ IsList(ex)
  BY <1>1, <1>20, <1>23 DEF Named
<1>25. PICK steps : steps = t.interactions
  OBVIOUS
<1>26. /\ DOMAIN steps = DOMAIN ex
       /\ \A i \in DOMAIN ex : steps[i].request = ex[i].request /\ steps[i].response = ex[i].response
  BY <1>8, <1>20, <1>25 DEF DeriveTranscript
<1>27. PICK sealing : sealing = SealedExchanges(capsule)
  OBVIOUS
<1>28. /\ DOMAIN sealing = DOMAIN ex
       /\ \A i \in DOMAIN ex : sealing[i] = <<ex[i].request, ex[i].response>>
  <2>1. CASE found = {}
    <3>1. sealing = <<>>
      BY <1>11, <1>18, <1>27, <2>1 DEF SealedExchanges
    <3>2. ex = <<>>
      BY <1>21, <2>1
    <3>3. DOMAIN ex = {}
      BY <3>2
    <3> QED
      BY <3>1, <3>2, <3>3
  <2>2. CASE found # {}
    <3>1. sealing = [i \in DOMAIN steps |-> <<steps[i].request, steps[i].response>>]
      BY <1>11, <1>18, <1>22, <1>25, <1>27, <2>2 DEF SealedExchanges
    <3> QED
      BY <1>26, <3>1
  <2> QED
    BY <2>1, <2>2
<1>29. /\ DOMAIN sealing = DOMAIN cursors
       /\ \A i \in DOMAIN cursors : \E x \in Range(ex) :
            x.cursor = cursors[i] /\ sealing[i] = <<x.request, x.response>>
  BY <1>24, <1>28, ListFacts
<1>30. HoldsReturned(sources, capsule)
  BY <1>11, <1>14, <1>16, <1>17, <1>20, <1>23, <1>27, <1>29 DEF HoldsReturned
<1> QED
  BY <1>15, <1>30

\* Each capsule was sealed from sources that bind to the candidate.
ResealInv ==
    /\ captured \in Captures
    /\ \A seal \in sealed :
         /\ Bound(seal.sources) /\ SealPrivateCandidate(seal.sources) # NoCapsule
         /\ seal.capsule = SealPrivateCandidate(seal.sources).capsule

LEMMA ResealStep == ASSUME ResealInv, [Next]_vars PROVE ResealInv'
<1>1. captured' = captured
  BY DEF Next, Seal, StartAdmission, MoveJob, Narrow, Run, Complete, Upload, OpenSome, Open,
     OpenObject, Keep, OpenKept, vars
<1>2. CASE sealed' = sealed
  BY <1>1, <1>2 DEF ResealInv, Bound
<1>3. ASSUME NEW sources \in Returned, Seal(sources), sealed' # sealed PROVE ResealInv'
  <2>1. PICK result : result = SealPrivateCandidate(sources)
    OBVIOUS
  <2>2. PICK seal : seal = [sources |-> sources, capsule |-> result.capsule,
                            closure |-> result.closure, stored |-> result.stored]
    OBVIOUS
  <2>3. result # NoCapsule /\ sealed' = sealed \cup {seal}
    BY <1>3, <2>1, <2>2 DEF Seal
  <2>4. SourcesBind(sources)
    BY <2>1, <2>3 DEF SealPrivateCandidate
  <2>5. Named(captured) /\ Rebuilt \notin {captured.binary, captured.debug}
    BY CapturedNamed, CapturedAssumption DEF ResealInv
  <2>6. Bound(sources)
    BY <2>4, <2>5, BoundIsCaptured
  <2>7. seal.sources = sources /\ seal.capsule = SealPrivateCandidate(sources).capsule
    BY <2>1, <2>2
  <2> QED
    BY <1>1, <2>1, <2>3, <2>6, <2>7 DEF ResealInv, Bound
<1> QED
  BY <1>1, <1>2, <1>3 DEF Next, StartAdmission, MoveJob, Narrow, Run, Complete, Upload, OpenSome,
     Open, OpenObject, Keep, OpenKept, vars

\* However often a candidate is sealed again, and whichever exchange, artifact,
\* subject, world, support package or evidence is then not the captured one,
\* seal_private_candidate makes a capsule with what the candidate fixes, or
\* none.  The bytes of the exchanges, the support and the evidence are the
\* returned ones, and nothing else of two capsules may differ.
THEOREM ResealHolds == Spec => []ResealIdentical
<1>1. Init => ResealInv
  BY DEF Init, ResealInv
<1>2. ResealInv => ResealIdentical
  <2>1. SUFFICES ASSUME ResealInv, NEW seal \in sealed
                 PROVE  /\ \A other \in sealed :
                             /\ Committed(other.capsule) = Committed(seal.capsule)
                             /\ Uncommitted(other.sources) = Uncommitted(seal.sources) =>
                                  other.capsule = seal.capsule
                        /\ HoldsReturned(seal.sources, seal.capsule)
    BY DEF ResealIdentical, HoldsReturned
  <2>2. \A other \in sealed : /\ HoldsReturned(other.sources, other.capsule)
                              /\ Committed(other.capsule) = CommittedBy(captured)
    BY <2>1, CapsuleHoldsReturned DEF ResealInv
  <2>3. ASSUME NEW other \in sealed, Uncommitted(other.sources) = Uncommitted(seal.sources)
        PROVE  other.capsule = seal.capsule
    <3>1. PICK a, b : a = other.sources /\ b = seal.sources
      OBVIOUS
    <3>2. Bound(a) /\ Bound(b)
      BY <2>1, <3>1 DEF ResealInv
    <3>3. a.exchanges = b.exchanges /\ a.support = b.support /\ a.evidence = b.evidence
      BY <2>3, <3>1 DEF Uncommitted
    <3>4. \A f \in SourceFields : a[f] = b[f]
      BY <3>2, <3>3 DEF Bound
    <3>5. a = [f \in SourceFields |-> a[f]] /\ b = [f \in SourceFields |-> b[f]]
      BY <3>2 DEF Bound, Named
    <3>6. a = b
      BY <3>4, <3>5
    <3> QED
      BY <2>1, <3>1, <3>6 DEF ResealInv
  <2> QED
    BY <2>2, <2>3
<1> QED BY <1>1, <1>2, ResealStep, PTL DEF Spec

================================================================================

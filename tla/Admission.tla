------------------------------- MODULE Admission -------------------------------
(***************************************************************************)
(* Admission: three runs of one capsule under three perturbations, the     *)
(* proof each leaves, and the checks that bind a proof set and a capture   *)
(* batch to the capsule (crates/reproit-backend/src/lib.rs and managed.rs, *)
(* crates/reproit-core/src/proof.rs).                                      *)
(***************************************************************************)
EXTENDS ReplayCapsules

CONSTANT NoProof  \* a run that left no proof

RunIndex == 0..2

\* PerturbationCase::run_index.
CaseOf == [run \in RunIndex |-> <<"baseline", "cold-ambient", "timing-ambient">>[run + 1]]

\* managed_perturbations: each case on one executor.
ManagedPerturbations(executor) ==
    [run \in RunIndex |-> [case |-> CaseOf[run], executor |-> executor, run |-> run]]

ValidPerturbation(perturbation) == CaseOf[perturbation.run] = perturbation.case

\* ObjectClosure::new: the stored objects are those the descriptors name.
ObjectsClosed(objects, stored) ==
    /\ UniqueIds(objects)
    /\ DOMAIN stored = {o.id : o \in objects}
    /\ \A o \in objects : stored[o.id] = o.digest /\ stored[o.id].size = o.size

\* validate_candidate_binding.
CandidateBinds(candidate, input) ==
    /\ ValidCandidate(candidate)
    /\ ValidIdentity(input.expected)
    /\ ValidCapsule(input.capsule)
    /\ input.expected = candidate.failure.identity
    /\ input.capsule.failure = candidate.failure.identity
    /\ input.capsule.subjectDigest = candidate.deployment.subject.artifact
    /\ input.capsule.world = candidate.world

\* validate_admission_input.
AdmissionInputValid(input) ==
    /\ ValidCapsule(input.capsule)
    /\ ValidIdentity(input.expected)
    /\ ClosesWorld(input.rules, input.closure)
    /\ input.closure = input.capsule.closure
    /\ \A run \in RunIndex :
         /\ ValidPerturbation(input.perturbations[run])
         /\ input.perturbations[run].run = run

\* admit_run, given what the executor observed.
AdmitRun(input, run, observation) ==
    IF /\ AdmissionInputValid(input)
       /\ observation.clean
       /\ observation.failure = input.expected
    THEN [kind |-> "proof", capsule |-> input.capsule, executor |-> observation.executor,
          failure |-> input.capsule.failure, perturbation |-> input.perturbations[run],
          mode |-> input.capsule.mode, run |-> run, subject |-> input.capsule.subjectDigest,
          trigger |-> input.capsule.trigger, world |-> input.capsule.world, size |-> 1]
    ELSE NoProof

\* A mutant: a proof of the capsule as it was before it was narrowed will do.
RunBindsButForProcessor(capsule, proof, perturbation, run) ==
    /\ proof.run = run /\ perturbation.run = run
    /\ proof.perturbation = perturbation
    /\ proof.mode = capsule.mode /\ proof.world = capsule.world
    /\ proof.trigger = capsule.trigger /\ proof.subject = capsule.subjectDigest
    /\ proof.failure = capsule.failure
    /\ proof.executor = capsule.support

\* validate_run_binding.
RunBinds(capsule, proof, perturbation, run) ==
    /\ proof.run = run /\ perturbation.run = run
    /\ proof.perturbation = perturbation
    /\ proof.capsule = capsule
    /\ proof.mode = capsule.mode /\ proof.world = capsule.world
    /\ proof.trigger = capsule.trigger /\ proof.subject = capsule.subjectDigest
    /\ proof.failure = capsule.failure
    /\ proof.executor = capsule.support

\* validate_proof_set.
ProofSetValid(capsule, proofs, perturbations) ==
    /\ ValidCapsule(capsule)
    /\ \A run \in RunIndex :
         /\ proofs[run] # NoProof
         /\ ValidPerturbation(perturbations[run])
         /\ RunBinds(capsule, proofs[run], perturbations[run], run)
    /\ Cardinality({proofs[run] : run \in RunIndex}) = 3

\* complete_admission.
AdmissionComplete(input, proofs) ==
    /\ AdmissionInputValid(input)
    /\ ProofSetValid(input.capsule, proofs, input.perturbations)

--------------------------------------------------------------------------------
(* The capture batch *)

\* The objects of a batch that have a role.
BatchObjects(manifest, role) ==
    SelectSeq(manifest.objects, LAMBDA e : e.descriptor.role = role)

\* validate_capture_manifest.
CaptureManifestBinds(manifest, capsule, proofs) ==
    LET capsules == BatchObjects(manifest, "replay-capsule-manifest")
        proofObjects == BatchObjects(manifest, "admission-proof")
    IN
    /\ manifest.capsule = capsule
    /\ \A run \in RunIndex : proofs[run].mode = manifest.mode
    /\ Len(capsules) = 1
    /\ capsules[1].descriptor.id = manifest.capsuleObject
    /\ capsules[1].descriptor.digest = capsule
    /\ Len(proofObjects) = 3
    /\ \A run \in RunIndex :
         /\ manifest.proofs[run + 1] = proofs[run]
         /\ proofObjects[run + 1].descriptor.digest = proofs[run]

\* proof::admit, the check of a whole capture.
CaptureAdmitted(capsule, rules, closure, proofs, perturbations, manifest) ==
    /\ ClosesWorld(rules, closure)
    /\ capsule.closure = closure /\ capsule.mode = manifest.mode
    /\ ProofSetValid(capsule, proofs, perturbations)
    /\ CaptureManifestBinds(manifest, capsule, proofs)

--------------------------------------------------------------------------------
(* After sealing *)

\* capsules_equal_except_processor_capabilities.
EqualExceptProcessor(sealed, admitted) ==
    [sealed EXCEPT !.processor = {}] = [admitted EXCEPT !.processor = {}]

\* bind_capsule_processor_requirement on the input of a running admission.
BindRequirement(input, requirement) == [input EXCEPT !.capsule.processor = requirement]

================================================================================

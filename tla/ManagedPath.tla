------------------------------ MODULE ManagedPath ------------------------------
(***************************************************************************)
(* The managed path of a capture: the deployed subject is frozen, failures *)
(* are captured and staged, each candidate is granted a key, encrypted and *)
(* uploaded, a worker that leases the upload is given the key and opens    *)
(* it; or the replay of a capture is run on executors, which has only the  *)
(* time and the capture in common with the way of its upload.              *)
(*                                                                         *)
(* What is verified of each document on the way is this repository's.  The *)
(* services that issue the documents, and the encryption of a candidate,   *)
(* are not: they are modelled as they must be for the documents to verify. *)
(***************************************************************************)
EXTENDS SubjectFreeze, ManagedGrants, ManagedCandidates

CONSTANTS
    CandidateOf(_, _),  \* the candidate of a capture, given the frozen subject
    ObjectsOf(_),       \* the objects of a candidate
    Rebuilt,            \* a content that was not captured
    Captures, Workers, Executors,
    Followed,           \* the runtime families whose captures are followed
    Capabilities,       \* the capabilities of each executor
    Replayed,           \* the capture that is replayed
    Required,           \* the capabilities that the replay requires
    Debugger, Host,     \* the debugger and the host contract of a replay
    WorkloadKey, CaptureService, WorkerService, KeyService, EvidenceService,
    Horizon,            \* the last time that is looked at
    GrantTime, LeaseTime, KeyTimes, EvidenceTime,  \* how long a document holds
    UploadBound, LeaseBound,
    Never, None

ASSUME PathAssumption ==
    /\ EvidenceTime \in Nat \ {0}
    /\ None \notin {"upload", "replay"}

VARIABLES
    now,         \* the time
    part,        \* what is followed after the capture: its upload or its replay
    candidates,  \* the captured candidates
    mailbox,     \* the captures that were staged
    collected,   \* the candidates opened from the mailbox
    grants,      \* the capture grants
    uploads,     \* the uploads: ciphertext identities
    leases,      \* the worker grants, one for each lease
    keyGrants,   \* the key grants, by lease
    released,    \* the last release of a key
    opened,      \* what was opened, and of which upload
    evidence,    \* the evidence that each executor presents
    revoked,     \* when an executor was revoked
    execution,   \* the execution grant
    executed     \* the last execution

captureVars == <<candidates, mailbox, collected, grants, uploads>>
workerVars == <<leases, keyGrants, released, opened>>
executorVars == <<evidence, revoked, execution, executed>>
vars == <<freezeVars, now, part, captureVars, workerVars, executorVars>>

Init ==
    /\ FreezeInit
    /\ now = 0 /\ part = None
    /\ candidates = None /\ mailbox = {}
    /\ collected = [c \in Captures |-> NoCandidate]
    /\ grants = [c \in Captures |-> None] /\ uploads = <<>>
    /\ leases = <<>> /\ keyGrants = <<>> /\ released = None /\ opened = None
    /\ evidence = [e \in Executors |-> None] /\ revoked = [e \in Executors |-> Never]
    /\ execution = None /\ executed = None

--------------------------------------------------------------------------------
(* Capture and staging *)

\* A program whose files were written meanwhile is frozen, and not followed.
Capture ==
    /\ frozen # NoSubject /\ frozen.family \in Followed /\ writes = 0 /\ part = None
    /\ candidates' = [c \in Captures |-> CandidateOf(frozen, c)]
    /\ part' \in {"upload", "replay"}
    /\ UNCHANGED <<freezeVars, now, mailbox, collected, grants, uploads, workerVars, executorVars>>

\* The envelope of a capture; each has its own staging key.
Staged(c) ==
    seal_candidate_staging(<<"staging", c>>, c, candidates[c],
                           StagingIdentity(candidates[c], Horizon))

Stage(c) ==
    /\ part = "upload" /\ c \notin mailbox
    /\ Stageable(candidates[c], StagingIdentity(candidates[c], Horizon))
    /\ mailbox' = mailbox \cup {c}
    /\ UNCHANGED <<freezeVars, now, part, candidates, collected, grants, uploads, workerVars,
                   executorVars>>

\* The ciphertext of an item is fetched, perhaps that of another, and opened
\* with the key of one of them.  All captures were staged before.
Collect(c, fetched, key) ==
    /\ mailbox = Captures /\ collected[c] = NoCandidate
    /\ \E candidate \in {open_candidate_staging(<<"staging", key>>,
                            Envelope(MailboxObject(Staged(c)).identity, Staged(fetched).stored))} :
         /\ candidate # NoCandidate
         /\ collected' = [collected EXCEPT ![c] = candidate]
    /\ UNCHANGED <<freezeVars, now, part, candidates, mailbox, grants, uploads, workerVars, executorVars>>

--------------------------------------------------------------------------------
(* The capture grant and the upload *)

\* The identity of a candidate; rebuilt after a restart, it may hold a World
\* that was not captured.
IdentityOf(c, rebuilt) ==
    ManagedIdentity(collected[c],
        {IF rebuilt /\ o.role = "world-state" THEN [o EXCEPT !.digest = Rebuilt] ELSE o :
           o \in ObjectsOf(collected[c])})

EncryptionRequest(c) ==
    [identity |-> IdentityOf(c, FALSE), capture |-> c, mode |-> "managed",
     deployment |-> collected[c].deployment, scope |-> collected[c].deployment.scope,
     signer |-> WorkloadKey]

Registration(c) ==
    [deployment |-> collected[c].deployment, key |-> WorkloadKey,
     service |-> collected[c].deployment.scope.service]

\* The service grants the key of one candidate identity.
GrantCapture(c) ==
    /\ collected[c] # NoCandidate /\ grants[c] = None
    /\ RequestMatches(EncryptionRequest(c), Registration(c))
    /\ grants' = [grants EXCEPT ![c] =
         [identity |-> IdentityOf(c, FALSE), reference |-> <<"key", c>>, capture |-> c,
          scope |-> collected[c].deployment.scope, mode |-> "managed",
          from |-> now, until |-> now + GrantTime, signer |-> CaptureService]]
    /\ UNCHANGED <<freezeVars, now, part, candidates, mailbox, collected, uploads, workerVars,
                   executorVars>>

\* One object under a key, every chunk with a nonce of its own.
EncryptManagedObject(upload, key, identity, descriptor) ==
    LET parts == Parts(descriptor.digest)
        context == ManagedContext(identity, descriptor.id, descriptor.role)
        stored(i) == encrypt_chunk(key, <<upload, descriptor.id, i>>, parts[i],
                         ChunkContext(context, Len(parts), i - 1, parts[i].size))
    IN [descriptor |-> descriptor,
        chunks |-> [i \in DOMAIN parts |->
          [digest |-> stored(i), index |-> i - 1, size |-> parts[i].size,
           nonce |-> stored(i).nonce]]]

\* The ciphertext identity of a candidate identity under a key reference.
EncryptManaged(upload, identity, reference) ==
    LET manifest == EncryptManagedObject(upload, reference, identity,
                        LogicalObject(<<"manifest">>, "capture-batch-manifest", "managed",
                                      ManagedManifest(identity, reference))).chunks[1]
        stored == [manifest |-> [id |-> <<"manifest">>, digest |-> manifest.digest,
                                 size |-> manifest.size, nonce |-> manifest.nonce],
                   objects |-> {EncryptManagedObject(upload, reference, identity, d) :
                                  d \in identity.objects}]
    IN [identity |-> identity, reference |-> reference, capture |-> identity.capture,
        scope |-> identity.scope, mode |-> "managed", capabilities |-> identity.capabilities,
        manifest |-> stored.manifest, objects |-> stored.objects,
        total |-> MapThenSumSet(LAMBDA c : c.size, ManagedChunks(stored))]

\* ManagedCandidateUploadRequest::validate.
UploadAccepted(grant, ciphertext) ==
    /\ ValidCaptureGrant(grant)
    /\ ValidCiphertextIdentity(ciphertext)
    /\ GrantBinds(grant, ciphertext)

\* A candidate is encrypted under a grant that was issued, perhaps to another
\* candidate or to what this one was before a restart, and uploaded.
Upload(c, granted, rebuilt) ==
    /\ collected[c] # NoCandidate /\ grants[granted] # None /\ Len(uploads) < UploadBound
    /\ leases = <<>>
    /\ LET grant == grants[granted]
           identity == IdentityOf(c, rebuilt)
           expected == [identity |-> identity, reference |-> grant.reference, capture |-> c,
                        scope |-> identity.scope]
       IN
       /\ ValidManagedIdentity(identity)
       /\ verify_managed_candidate_capture_grant(grant, expected, now, CaptureService)
       /\ \E ciphertext \in {EncryptManaged(Len(uploads), identity, grant.reference)} :
            /\ UploadAccepted(grant, ciphertext)
            /\ uploads' = Append(uploads, ciphertext)
    /\ UNCHANGED <<freezeVars, now, part, candidates, mailbox, collected, grants, workerVars,
                   executorVars>>

--------------------------------------------------------------------------------
(* Leases and keys *)

\* The service leases an upload to one worker at a time.
Lease(worker, u) ==
    /\ Len(leases) < LeaseBound /\ opened = None
    /\ \A l \in DOMAIN leases : leases[l].capture = uploads[u].capture => ~Holds(leases[l], now)
    /\ leases' = Append(leases,
         [identity |-> uploads[u].identity, reference |-> uploads[u].reference,
          capabilities |-> uploads[u].capabilities, capture |-> uploads[u].capture,
          encrypted |-> u, lease |-> Len(leases) + 1, operation |-> "admission",
          scope |-> uploads[u].scope, mode |-> "managed", worker |-> worker,
          release |-> "release", from |-> now, until |-> now + LeaseTime,
          signer |-> WorkerService])
    /\ keyGrants' = Append(keyGrants, None)
    /\ UNCHANGED <<freezeVars, now, part, captureVars, released, opened, executorVars>>

\* The key service grants the key for a lease that still holds.
GrantKey(l) ==
    /\ keyGrants[l] = None /\ opened = None /\ Holds(leases[l], now)
    /\ \E until \in {now + time : time \in KeyTimes} :
         keyGrants' = [keyGrants EXCEPT ![l] =
           [workerGrant |-> leases[l]] @@
           [leases[l] EXCEPT !.from = now, !.until = until, !.signer = KeyService]]
    /\ UNCHANGED <<freezeVars, now, part, captureVars, leases, released, opened, executorVars>>

\* A worker presents a worker grant and a key grant, and is given the key.
ReleaseKey(w, k) ==
    /\ keyGrants[k] # None /\ opened = None
    /\ verify_managed_worker_key_grants(leases[w], keyGrants[k], now, WorkerService, KeyService)
    /\ released' = [worker |-> leases[w].worker, capture |-> keyGrants[k].capture,
                    reference |-> keyGrants[k].reference, at |-> now]
    /\ UNCHANGED <<freezeVars, now, part, captureVars, leases, keyGrants, opened, executorVars>>

\* The worker opens an upload, from the ciphertext that is returned for it.
OpenUpload(u, returned) ==
    /\ released # None /\ opened = None
    /\ \E identity \in {open_managed_candidate(released.reference, uploads[u],
            [d \in {c.digest : c \in ManagedChunks(uploads[returned])} |-> d])} :
         /\ identity # NoCandidate
         /\ opened' = [upload |-> u, identity |-> identity]
    /\ UNCHANGED <<freezeVars, now, part, captureVars, leases, keyGrants, released, executorVars>>

--------------------------------------------------------------------------------
(* Executors *)

Scope(c) == candidates[c].deployment.scope

\* An executor is given evidence; once revoked, evidence that says so.
IssueEvidence(e) ==
    /\ part = "replay"
    /\ evidence' = [evidence EXCEPT ![e] =
         [capabilities |-> Capabilities[e], executor |-> e, from |-> now,
          until |-> now + EvidenceTime, scope |-> Scope(Replayed), signer |-> EvidenceService,
          status |-> IF revoked[e] = Never THEN "active" ELSE "revoked"]]
    /\ UNCHANGED <<freezeVars, now, part, captureVars, workerVars, revoked, execution, executed>>

Revoke(e) ==
    /\ part = "replay" /\ revoked[e] = Never
    /\ revoked' = [revoked EXCEPT ![e] = now]
    /\ UNCHANGED <<freezeVars, now, part, captureVars, workerVars, evidence, execution, executed>>

Expectation ==
    [scope |-> Scope(Replayed), operation |-> "replay", mode |-> "managed", requester |-> "requester",
     repro |-> candidates[Replayed], debugger |-> Debugger, workClass |-> "developer"]

GrantExecution(e) ==
    /\ part = "replay" /\ execution = None
    /\ execution' = [executor |-> e, from |-> now, until |-> now + MaxExecutionGrant,
                     signer |-> EvidenceService] @@ Expectation
    /\ UNCHANGED <<freezeVars, now, part, captureVars, workerVars, evidence, revoked, executed>>

\* A replay runs where the grant, the evidence and the host allow it.
Execute(e) ==
    /\ execution # None /\ evidence[e] # None
    /\ verify_executor_capability_evidence(evidence[e], Scope(Replayed), now, EvidenceService)
    /\ verify_execution_grant(execution, evidence[e], Expectation, now, EvidenceService)
    /\ verify_replay_capabilities(Required, evidence[e], Debugger, Host)
    /\ executed' = [executor |-> e, granted |-> execution.executor, at |-> now]
    /\ UNCHANGED <<freezeVars, now, part, captureVars, workerVars, evidence, revoked, execution>>

--------------------------------------------------------------------------------

Tick ==
    /\ uploads # <<>> \/ part = "replay"
    /\ now < Horizon
    /\ now' = now + 1
    /\ UNCHANGED <<freezeVars, part, captureVars, workerVars, executorVars>>

\* The subject is frozen before the first capture.
FreezeStep ==
    /\ candidates = None
    /\ FreezeNext \/ Writer
    /\ UNCHANGED <<now, part, captureVars, workerVars, executorVars>>

Next ==
    \/ FreezeStep
    \/ Capture
    \/ \E c \in Captures : Stage(c)
    \/ \E c, fetched, key \in Captures : Collect(c, fetched, key)
    \/ \E c \in Captures : GrantCapture(c)
    \/ \E c, granted \in Captures, rebuilt \in BOOLEAN : Upload(c, granted, rebuilt)
    \/ \E worker \in Workers, u \in DOMAIN uploads : Lease(worker, u)
    \/ \E l \in DOMAIN leases : GrantKey(l)
    \/ \E w, k \in DOMAIN leases : ReleaseKey(w, k)
    \/ \E u, returned \in DOMAIN uploads : OpenUpload(u, returned)
    \/ \E e \in Executors : IssueEvidence(e) \/ Revoke(e) \/ GrantExecution(e) \/ Execute(e)
    \/ Tick

Spec == Init /\ [][Next]_vars

--------------------------------------------------------------------------------
(* Properties *)

\* A candidate key is released only to the worker that at that time holds the
\* lease on its candidate: not to one whose lease ended, whatever grants of
\* earlier or later leases it combines and however long a key grant was made
\* to hold (verify_managed_worker_key_grants).
KeysWithinLease ==
    released # None =>
      \E l \in DOMAIN leases : /\ leases[l].worker = released.worker
                               /\ leases[l].capture = released.capture
                               /\ leases[l].reference = released.reference
                               /\ Holds(leases[l], released.at)

\* What leaves the mailbox is the candidate that was captured, and what a
\* worker opens is the candidate identity that its key was granted for, made
\* of that candidate and its objects: neither another candidate nor one that
\* was rebuilt after the grant (verify_managed_candidate_capture_grant,
\* ManagedCandidateUploadRequest::validate, open_managed_candidate).
OpenedAsGranted ==
    /\ \A c \in Captures : collected[c] # NoCandidate => collected[c] = candidates[c]
    /\ opened # None =>
         LET c == opened.identity.capture IN
         /\ opened.identity = grants[c].identity
         /\ opened.identity = ManagedIdentity(candidates[c], ObjectsOf(candidates[c]))
         /\ uploads[opened.upload].reference = grants[c].reference

\* A replay runs on the executor it was granted for, which has every discrete
\* capability the replay requires, and never EvidenceTime or longer after that
\* executor was revoked (verify_executor_capability_evidence,
\* verify_execution_grant and verify_replay_capabilities).
ExecutedUnderEvidence ==
    executed # None =>
      /\ executed.granted = executed.executor
      /\ Discrete(Required) \subseteq Capabilities[executed.executor]
      /\ \/ revoked[executed.executor] = Never
         \/ executed.at < revoked[executed.executor] + EvidenceTime

================================================================================

# A TLA+ model of reproit-core

reproit-core captures what a service did around a failure (the state of its
world before the trigger, the exchanges with its dependencies, the processor it
ran on), packs it into a capsule, and executes the capsule again until the
failure is proved to reproduce. This project models the parts of it that keep
state, share it between threads or have to survive failures, checks them with
TLC on small instances, and proves with TLAPS, for instances of any size, every
safety property that the passing runs check.

Paths below are relative to `crates/`.

## The system

| Component | State | Operations | What is hard about it |
|---|---|---|---|
| Dependency transcript capture, `reproit-backend/src/dependency.rs` | pool counters, one reservation and one transcript for each provider, behind three mutexes | `open`, `record`, `close`, `discard`, `Drop` | calls on one provider overlap; the reservation and the transcript have different mutexes; expiry; several paths release the same reservation |
| Dependency transcript replay, same file | cursor and failure latch | `new`, `exchange`, `finish` | exchanges that are missing, extra, changed or reordered |
| Provider reservations, `reproit-core/src/resource_model.rs` | map of active claims | `reserve`, `release` | two levels of capacity, four dimensions, shares that together exceed the environment |
| File checkpoints, `reproit-backend/src/checkpoint.rs` and `world.rs` | history and workspace directories, lease map | `publish`, `pin`, `materialize`, `verify`, `release`, `open`, `with_verified_world` | files written and deleted outside the mutex, crashes, partial writes, shared leases |
| Processor reduction, `reproit-backend/src/processor.rs` and `reproit-core/src/model/processor.rs` | what is left of a requirement, trials, budgets | the reduction loop, the binding of its receipt | order of trials, cascading removals, three budgets, agreement of reducer and binding check |
| Capture coverage and observation fences, `reproit-core/src/capture_coverage.rs` and `model/observation_fence.rs` | receipts, the poison flag | `record`, `mark_unowned`, `close`, `verify_automatic_capture` | records that a recorder drops and a spool loses, repeats or reorders; observations after the fence |
| Automatic replay, `reproit-backend/src/automatic_replay.rs` | the observations that have not been taken | `resolve_automatic_replay`, `take_response`, `require_complete` | gaps, repetitions, requests out of order |
| Capsule closure, `reproit-backend/src/private_closure.rs` and `closure.rs`, `reproit-core/src/model/capsule.rs` | none between calls | `seal_private_candidate`, `close_replay_capsule`, `resolve_replay_capsule` | a second seal after a restart from sources that have changed |
| Admission and proof, `reproit-backend/src/lib.rs` and `managed.rs`, `reproit-core/src/proof.rs` | none between calls | `admit`, `admit_run`, `complete_admission` | three runs whose proofs must bind one capsule and their own perturbation |
| Sealing and kept captures, `reproit-backend/src/seal.rs` and `keep.rs`, `reproit-core/src/crypto.rs` | nonce registry, kept ciphertext | `seal_upload`, `open_capture`, `open_capture_object`, `KeptCapture` | repeated nonces, chunks of another seal |
| Subject packaging, `reproit-backend/src/subject.rs` | staging directory | `freeze_running_subject`, `Drop` | files that are written while they are copied, failed removals, crashes |
| Managed candidates and staging, `reproit-core/src/model/managed_candidate.rs` and `staging.rs`, `crypto.rs` | documents and ciphertext that travel between services | `seal_candidate_staging`, `open_candidate_staging`, `verify_managed_candidate_capture_grant`, `open_managed_candidate` | candidates that are exchanged or rebuilt between a grant and its use |
| Worker and key grants, `reproit-cloud-api/src/lib.rs` | documents with validity intervals | `verify_managed_worker_key_grants` and the request validators | grants of different leases that are combined, leases that end |
| Executor evidence and execution grants, `reproit-core/src/model/executor.rs` | documents with validity intervals | `verify_executor_capability_evidence`, `verify_execution_grant`, `verify_replay_capabilities` | evidence that outlives a revocation |
| Failure identity, `reproit-core/src/failure.rs` | none | validators, grouping | which failures are the same |
| Fuzz campaigns, support tables, configuration, codecs, worker types, fixtures | none that is shared | parsing, formatting, field checks | nothing that a state machine shows |

`with_verified_world` calls a state provider (pin, materialize, verify,
execute, release). The file provider asks the reservation model whether a pin
fits. A capture records dependency exchanges in a provider of the pool; what
`close` hands out becomes part of the capsule and is served again by the
replay. `reduce_and_admit` runs the reduction, binds its receipt into the
capsule and admits the capsule.

A capture takes one of two ways. A private candidate is sealed into a capsule
where it was captured, admitted there and uploaded encrypted. A managed
candidate is staged, encrypted under a key that is granted for its identity,
and opened by a worker that holds a lease on it. The subject that a candidate
names was frozen when the program was deployed. An automatic candidate carries
a fence over the observations of its operation; they are what its replay is
served from.

What makes the components correct: quotas are neither exceeded nor lost;
a transcript that was closed can be replayed, and a replay accepts the recorded
exchanges and nothing else; an execution runs in the bytes that were published,
and nobody changes them under it; a reduced processor requirement has been
executed as it is, and its receipt says what was tested; a candidate that is
accepted is what happened; what is admitted was reproduced as it is; what is
opened is what was sealed or granted; a frozen file is one that was deployed;
a key is given to the holder of a lease only.

## Modules

`DependencyTranscript` has the transcript and the two checks the code makes of
one: `Verified` (`verify_dependency_transcript`) and the stronger `Replayable`
(`ClosedDependencyTranscript::validate`).

`DependencyPool` is the capture side. A method is a sequence of critical
sections; each section is an action, and `pc` says which one a task enters
next. `RequireActive` and `Record` are the two halves of `record`;
`ReserveClose`, `CloseExpiry`, `CloseTake`, `CloseDrop` and `Release` are
`close`; `Discard` (or `DiscardAfterClose`) and `Release` are `discard`.
`Expire` is the clock, `Drop` the last owner. Objects are names with a length,
digests are a Boolean (`intact`).

`QuotaLedger` says what a quota promises without counters. `DependencyPool`
implements it with `granted <- reservation`. `UnitCounting` writes a total as
the cardinality of a set of units, so that the library's facts about finite
sets apply to sums.

`TranscriptReplay` lets any program talk to `HttpTranscriptReplay`. Different
objects may have the same bytes, as in the code, which compares bytes.

`ProviderClaims` and `ReservationModel` are `resource_model.rs`. The checked
additions are additions of natural numbers: at most 1024 claims of at most
2^53 - 1 units never reach 2^64.

`FileCheckpoint` is the file provider with its callers. The content of a file
is whole, torn (a part was written) or foreign (changed from outside). Every
file operation may fail. `Crash` loses the lease map and all calls and keeps
the directories; `Open` clears the workspace and fails if it cannot. A lease
map is an instance of `ReservationModel` (`ImplementsReservations`).

`ProcessorReducer` is the loop of `reduce_processor_requirements`, one action
for each way through its body, then the binding check. The list that the code
sorts before the loop is a set and an order, `Before`: the loop takes the
constraint that is before all others (`IsNext`). The early exit for a
trial without any budget is left out because it cannot be taken:
`TrialsHaveLimits` shows that.

`SemanticRecords`, `WorldClosures`, `FailureIdentities` and `CandidateRecords`
are operators: the requests and responses of observations, closure policies,
receipts and `CaptureCoverage`, failure identities, and the records of a
candidate with the check of its fence (`AutomaticCaptureVerified`).
`Subsequences` is what a filter keeps of a sequence, by the places it keeps, so
that the proofs can count them.
`AutomaticReplay` has the resolution of a capsule into a table of observations
and the taking of one. `AutomaticWorld` composes them: a program observes, the
recorder keeps or counts what it observes, the coverage is recorded and closed
into a fence, a candidate is delivered over an unreliable spool, verified,
made into a capsule that may lose or repeat an object, resolved and replayed.
The recorder, the spool and the service that makes the capsule are not in this
repository; they do whatever their side of the formats allows.

`SubjectClosures`, `ReplayCapsules`, `PrivateClosure` and `Admission` are the
operators of sealing a private candidate and admitting it; `Chunks` and
`SealedCapture` those of encryption. The cipher is ideal: a stored chunk is the
record of its key, nonce, plaintext and context, and a digest of something is
that thing. `CaptureAdmission` composes them. Each public function of the
repository is one action, as none keeps state between its calls; the sources,
the executor, the nonce source and the chunk store are external and return
what is wrong as well as what is right.

`SubjectPackages` says which files belong to a program and what a manifest
lists of them; `SubjectFreeze` is `freeze_running_subject` read by read, with
others who write and replace the files, some of them behind the modification
time. `ManagedGrants` has the signed documents and what is verified of them,
`ManagedCandidates` the staging envelope, the candidate identity, its
ciphertext and its opening. `ManagedPath` composes the three: freeze, capture,
stage, collect, grant, upload, lease, release of the key, opening; and the
replay of a capture on executors. The services that sign documents are not in
this repository: they issue what the formats allow, for the times the
constants give, and one lease on a candidate at a time.

The `MC...` modules give the constants their values. Definitions marked
"Mutation of" or "A mutant" are plausible mistakes in the definition that follows them; each
property is known to fail for one of them.

## Runs

| Run | Module, configuration | Shows |
|---|---|---|
| `dependency_pool` | `MCDependencyPool`, `DependencyPool.cfg` | counters equal what is reserved after every section, limits hold, the ledger is implemented; every close gives back its reservation and close slots do not stay taken |
| `dependency_script` | `MCDependencyPool`, `DependencyScript.cfg` | exact byte counts; whatever `close` hands out can be replayed |
| `dependency_race` | `MCDependencyPool`, `DependencyRace.cfg` | violation: bytes are kept without a reservation |
| `reservation` | `MCReservationModel`, `ReservationModel.cfg` | capacities hold, active reservations can be made again in any order |
| `checkpoint` | `MCFileCheckpoint`, `FileCheckpoint.cfg` | worlds, leases and directories under failures, crashes and concurrency |
| `shared_lease` | `MCFileCheckpoint`, `SharedLease.cfg` | violation: one execution deletes the world of another |
| `transcript_replay` | `MCTranscriptReplay`, `TranscriptReplay.cfg` | a replay completes exactly for the recorded exchanges |
| `processor_reducer` | `MCProcessorReducer`, `ProcessorReducer.cfg` | budgets, prerequisites, an honest receipt and agreement with the binding check |
| `automatic_world` | `MCAutomaticWorld`, `AutomaticWorld.cfg` | an accepted capture, and a replay that completes, is what happened; a whole capture is accepted and resolved |
| `capture_admission` | `MCCaptureAdmission`, `CaptureAdmission.cfg` | a second seal has what the candidate fixes, or there is none, and its exchanges are in the places of their cursors; what is admitted was reproduced three times; what is opened was sealed |
| `divergent_exchange` | `MCCaptureAdmission`, `DivergentExchange.cfg` | violation: an exchange with other bytes under its cursor is sealed |
| `managed_path` | `MCManagedPath`, `ManagedPath.cfg` | frozen files were deployed as they are; staging is exact; keys stay within leases; what is opened was granted; executors have evidence |

### Bounds

- Dependency pool: two tasks, so that any two sections of any two methods
  interleave; two providers whose full reservations do not fit together and
  whose uneven ones do; one close slot. `dependency_script` has one provider,
  two interactions, and objects that are empty, ordinary and too large, so
  that repeated, shared and oversized objects are all tried.
- Reservations: four identities, three leases, four claims of which one is
  large in one dimension only, two services with shares that together exceed
  the environment and one service without a share.
- Checkpoints: three callers with three leases of which two fit, two of them
  on the same point and the same path, and two publishers. The claims allow
  two small points or one large one. `SharedLease.cfg` has two executions of
  one capture.
- Replay: every valid transcript of one or two interactions over four objects
  (two with equal bytes) and three exchanges, one more than the longest
  transcript has.
- Reducer: every subset of a chain of four features, two states and the
  identity; three trials; six usages (ordinary, slow, at the limits, beyond each);
  totals that are reached exactly by some sums and passed by others.
- Automatic world: three of the seven classes (a baseline that is state, a
  baseline that is an interaction, and a dependency), up to five observations
  of which the recorder keeps four, exchanges that repeat, fail and are
  malformed, one fault of the spool, a receipt whose mechanism the policy
  refuses and one of a boundary that it does not name.
- Capture and admission: six captures (two exchanges that differ or have
  the same bytes, one, none, two adapters, artifacts that differ or have the same
  bytes). Five are sealed twice (`SealBound`), every time from the captured
  sources or with one of them changed: exchanges or artifacts swapped,
  missing or with other bytes, another binary, debug file, world, support
  package or evidence. The sixth is sealed once and goes on to admission and
  upload (`Jobs`): two executors, one move or narrowing
  (`MoveBound`), two uploads (`UploadBound`) so that a store can return a chunk
  of the other one, and nonces that are new, repeat one of the same seal, or
  are those of the other seal.
- Managed path: four disks (native, interpreted, with a link, with a PDB), four
  requests, two writes of any kind (`WriteBound`): the exception of
  `FrozenWasHeld` needs two. Discovery is one step. Captures are followed for the
  native program (`Followed`) and when nothing was written; a capture is then
  followed to its upload or to its replay (`part`), which have nothing in
  common. Both captures are staged before one is collected, and uploaded before
  the first lease; two uploads, two leases, key grants shorter and longer than
  a lease (`KeyTimes`), four times (`Horizon`), of which evidence covers two.

`TranscriptReplay.cfg`, `ProcessorReducer.cfg` and the configurations of whole
paths allow deadlock: a replay is consumed by `finish`, a reduction ends,
and a capture that was replayed, opened or refused has no next step.

### What the properties leave open

`AcceptedIsWhatHappened` speaks of what was observed before the fence. An
observation between the fence and the failure refuses the candidate when its
record arrives; when the recorder was full or the record was lost, the fence
cannot tell.

`ResealIdentical` fixes what the candidate fixes. The bytes of an exchange, the
support package and the evidence are those of the last seal; `divergent_exchange`
shows the first of these.

`ExecutesPublishedBytes` exempts an artifact that was changed from outside, and
`NothingLeftInWorkspace` what a failed file operation left behind: the code
compares and clears neither before the provider is opened again.

`CompleteIsWhatHappened` allows that the last observations of a class are
missing when the capsule lost them: the positions that are left have no gap, so
nothing in the capsule shows it. The replayed program then asks for a position
that is not there.

`FrozenWasHeld` has one exception: a file that is written behind its
modification time while it is copied and written again while it is read for the
second time can be frozen as it never was. And each file is frozen by itself:
the manifest is not a snapshot of all files at one instant.

`ExecutedUnderEvidence` bounds how long an executor can go on after it was
revoked: until the evidence that it has expires.

No property says that the chunks of an occurrence have different nonces. Each
`seal_upload` makes a new `NonceRegistry`, which refuses a nonce that this seal
has used and knows nothing of an earlier seal under the same key; that two seals
differ rests on the nonce source. The source of the model may return the nonces
of the first seal again, and `OpenedIsSealed` holds then too.

### Fairness

`dependency_pool` assumes weak fairness of the sections of a call that has
started: a section waits for a mutex only, and mutexes are held for one
section. Nothing is assumed of the start of calls, of expiry or of `drop`.
`checkpoint` assumes weak fairness of the steps of `with_verified_world` after
the pin; the execution in the middle is bounded by its caller. A crash empties
the lease map, so it does not endanger `LeaseReturned`.

## Findings

`dependency_race`: `record` looks at the reservation in `require_active` and
stores the bytes later under another mutex. A `discard` or `close` in between
releases the reservation, and the bytes stay in the transcript while the pool
admits others against them.

`shared_lease`: the lease identity is a digest of capture, point and world, so
two executions of one capture share a lease. `pin` returns the active lease to
the second; `release` by the first removes it and deletes the targets of both.
Executions of one capture that do not overlap, as in the tests, are not
affected. In `FileCheckpoint.cfg` each caller has a lease of its own.

`divergent_exchange`: `derive_dependency_transcript` compares a resolved
exchange with its cursor and bounds its size, and nothing else binds its bytes
to the candidate. An exchange with the captured cursor and another request or
response is sealed, into a capsule with another digest. The header of
`reproit-backend/tests/private_closure.rs` says that sealing "fails closed on
every missing or divergent provider source"; its tests give a changed subject, a
changed world artifact and no exchange at all, never a changed one.

## Proofs

`DependencyPoolProofs` proves for any finite sets of providers and tasks, any
objects and any limits that `DependencyLimits::validate` accepts:

- `TypeCorrect`: the types. It needs that the tasks outside calls are those
  without a target.
- `Accounting`: the inductive invariant `IInv`. `PoolAccounting` alone is not
  inductive: `open` overwrites the reservation of the provider that it opens,
  so one needs to know that a provider that is not open has none
  (`ReservedWhileOpen`), and the saturating subtraction of a release is exact
  only because the counters are at least what is released, which follows from
  counting. `PoolAccountingHolds` and `QuotaHolds` follow from it.
- `Refinement`: every step is a grant, a revocation or a stutter of
  `QuotaLedger`.
- `TranscriptBytesHold` and `ClosedReplays`: `TranscriptBytesExact` and
  `ClosedTranscriptReplays`, from the inductive invariant `ScriptInv`
  (`Recording`). `close` verifies less than a replay validates, so the proof
  needs what `record` keeps of every transcript (`WellRecorded`): two objects
  for each interaction that no other has, none left over, none too large, and a
  count that is exact, so that the bounds of the provider limit the bytes
  handed out. The sum of lengths is the cardinality of a set of bytes
  (`BytesOf`), which `BytesGrow` extends by one object.

`ReservationModelProofs` proves for any finite set of reservations and any
services, claims and capacities that `ProviderCapacity::validate` accepts:
`TypeCorrect`, `CapacityHolds` (inductive with the types; one lemma says what a
new reservation adds to a usage, another that usage is monotonic) and
`RebuildHolds`. `reserve_claim` of the file provider depends on the last one:
it rebuilds a model from the active leases at each pin, and the model of the
provider takes the outcome of that rebuild for granted.

`ManagedPathProofs` proves about the whole managed path, for any captures,
workers, executors, disks, requests and bounds:

- `KeysHold`: `KeysWithinLease`. Besides it one needs only that the leases are
  a sequence that grows at its end (`LeaseInv`, `AppendKeeps`): the lease a key
  was released under stays in its place.
- `EvidenceHolds`: `ExecutedUnderEvidence`. The strengthening is
  `EvidenceTrue`: evidence that is still active ends at most `EvidenceTime`
  after its executor was revoked, since none is issued as active from then on.
- `OpeningHolds`: `OpenedAsGranted`. The argument follows the documents: what
  the mailbox gives away was captured and is not captured again
  (`CollectedInv`), a grant names a candidate that was collected (`GrantInv`),
  an upload carries the identity of its grant (`UploadInv`), and what was opened
  is the upload of the capture it was keyed for (`OpenedInv`).
- `StagingExactHolds`: `StagingIsExact`. `StagingInv` says for each step of a
  freeze what the staging directory is: the objects of the files done so far
  and at most the partial copy of the one in hand, while a guard is armed that
  removes it.
- `FrozenHeldHolds`: `FrozenWasHeld`. `HeldInv` relates a copy to the disk: as
  long as the modification time is the one of the first look, what was read is
  a prefix of a content that the file held since then (`CurrentOk`), unless the
  file was written behind its time; the second read must then agree with the
  copy up to its end.

`FileCheckpointProofs` proves for any finite sets of callers and points, any
publishers, targets and executions and any valid configuration:

- `IssuedHolds`: `IssuedPointsComplete`. It needs that an artifact that is
  being written has one writer, is incomplete and was not issued
  (`WritersAlone`); the code has this from creating the file exclusively.
- `OwnersHold`: `LeasesHaveOwners`, also where requests share a lease.
- `Refinement`: `ImplementsReservations`. A pin that is admitted is a
  reservation of `ReservationModel`, because a rebuild from the active leases
  admits what the model admits (`ReserveAdmits`, from `RebuildAdmits`).
- `WorldPresentHolds`, `PublishedBytesHold` and `WorkspaceHolds`:
  `ExecutingWorldPresent`, `ExecutesPublishedBytes` and
  `NothingLeftInWorkspace`. They assume `OwnLeases`, that no two requests have
  the same lease; the run `shared_lease` shows that the first of them fails
  without it. The inductive invariant `WorldInv` says that a target has one
  owner, a lease or the end of a release (`OwnedOnce`), what each caller's
  target contains at each of its steps (`Restored`), that it was copied from an
  issued point (`CopiedIssued`), and that every file in the workspace has an
  owner as long as no file operation failed (`AllPlaced`).

`TranscriptReplayProofs` proves `CompleteHolds` and `PrefixHolds` for any
transcript, bodies and calls. The strengthening is that a refused call is
remembered: without a failure as many calls were made as interactions were
taken, and after one there were more (`FailureKept`).

`ProcessorReducerProofs` proves all seven properties of the reducer for any
features, states, policies and usages: `BindsHolds`, `ReproducedHolds`,
`PrerequisitesHold`, `DependentsFirstHolds`, `LimitsHold`, `OverrunHolds` and
`ReasonHolds`. `ReceiptInv` relates the trials to what is left: each is about a
different captured constraint that was looked at, what a trial removed is gone,
and what is gone was removed by a trial or went with the feature of one.
`BudgetInv` says that a loop that goes on has not used up a total and has met no
reason to stop, which is what `OverrunRemovesNothing` needs. `Required` and `Depth` are recursive functions; on the table of prerequisites, whose
chains have at most two links, they are shown to be well defined and what the
code computes (`RequiredIs`, `DepthIs`). Besides the policy's validity the
proofs assume that a named feature is named with its prerequisites
(`NamesAssumption`), which captured views have.

`CaptureAdmissionProofs` proves for any captures, executors, requirements, keys
and bounds:

- `AdmittedHolds`: `AdmittedWasReproduced`. The invariant follows the capsule:
  a sealed one is closed by the closure beside it (`SealedInv`); the input of a job differs from a sealed one in its processor
  requirement only (`InputInv`); a proof names the capsule and the executor it
  ran with (`ProofInv`), so that proofs of an earlier requirement or another
  executor do not bind when the admission completes (`AdmittedInv`). A capsule
  that was narrowed after its admission is not sealed, because the capsule
  object would not have the admitted digest (`CapsuleAdmitted`).
- `OpenedHolds`: `OpenedIsSealed`. Of a chunk only its content and the identity
  in its context matter (`ChunksOf`). An envelope opens with the manifest of
  another upload only if the two have the same chunks, so the content is the
  one sealed under this envelope too (`CaptureObjectIsSealed`). The proof does
  not use which store a chunk came from, nor that nonces differ.
- `ResealHolds`: `ResealIdentical`. Returned sources that bind to the candidate
  are the captured ones up to the exchanges, the support package and the
  evidence, and their exchanges have the captured cursors in their order
  (`BoundIsCaptured`): the manifest of the subject determines its two files, the
  candidate the world, and the world the artifacts. `ResealInv` says that each
  capsule was sealed from such sources. What is pushed into the object set
  before the exchanges is the same for all of them (`CommonPushes`), and an
  object's identity does not depend on what is pushed after it
  (`PrefixObjects`), so the objects that the candidate fixes are the same; the
  transcript comes from the returned exchanges, one for each cursor
  (`PushesAre`, `CapsuleHoldsReturned`).

`AutomaticWorldProofs` proves all four properties of the automatic world, for
any exchanges, receipts, policy and adapters, any capacity of the recorder and
any one fault of the spool:

- `FencesCoverPolicy`: `FenceCoversPolicy`. `CoverageInv` relates the receipts
  that the coverage holds to the calls that were made, as long as it is not
  poisoned, and says that the stream has a fence only over a coverage that
  closed. One receipt for each boundary then follows from counting: the closure
  has as many receipts as the policy has rules.
- `AcceptedHappened`: `AcceptedIsWhatHappened`. The spool may move, repeat or
  replace records, so the stream says little; `RecorderInv` says that any fence
  record, wherever it is, digests what the program had observed when it was cut
  if it counts no drop (`FenceGood`): no fault of the spool changes a digest
  (`DamageGood`). A candidate that verifies has one fence and the observations
  of its digest, so it holds what was observed (`VerifiedAccepted`).
- `CompleteHappened`: `CompleteIsWhatHappened`. `ReplayInv` keeps that what was
  answered and what is left are together the entries of a capsule that
  resolved, each once. Its entries are those of what happened
  (`TableEntries`), two of them never at one position of a class
  (`PositionUnique`), and the resolution has refused gaps.
- `WholeReplays`: `WholeCaptureReplays`, the other direction: nothing that is
  whole is refused. `WroteInv` follows the stream record by record (begin, the
  observations in order, the fence, the failure) while nothing was dropped.
  From that shape each check of `verify_automatic_capture` (`WholeVerified`) and
  of `resolve_automatic_replay` (`WholeResolves`) is shown to pass; the latter
  needs that the positions of a class are the numbers below their count
  (`PositionsContiguous`).

The assumptions are the named ASSUMEs of the modules (`TranscriptAssumption`,
`PoolAssumption`, `ClaimsAssumption`, `CapacityAssumption`,
`CheckpointAssumption`, `ReplayAssumption`, `ReducerAssumption`,
`NamesAssumption`, `FreezeAssumption`, `PathAssumption`, `ChunkAssumption`,
`AdmissionAssumption`, which says what fields sources have,
`CapturedAssumption`, `WorldAssumption`, `CaptureAssumption`); TLC evaluates
them in the runs. `CapturedAssumption` says that a candidate names what was
captured with it, an exchange for each cursor, and that `Rebuilt` is none of it;
that the artifacts of a world make a sequence is part of it, because a fold over
sequences has no facts the provers can use. `WorldAssumption` says that receipts
have numbered boundaries and that exchanges have the fields of a semantic record
and the class of their request. `CaptureAssumption` says that the failure and
the adapters' ownership are valid and that what one operation observes fits the
limits of a candidate and of a replay; only `WholeReplays` needs it, since an
operation beyond the limits is refused. The cipher, the digests and the signatures are ideal in the models
and so in the theorems.

Model-checked only: liveness (`LeaseReturned`, `CloseReleasesReservation` and
`CloseSlotsFree`), which is out of the prover's reach, and the three violations.

## Not modelled

Power loss: a crash loses the process, not what it wrote. A panic in the closure
that `with_verified_world` executes, which would skip the release: executions end
with a result or with the process. The chunks that `open_managed_candidate` hands
to its consumer before the object's last digest check: the model has the result
that it returns in the end. The limit of 64 capabilities when the receipt of a
reduction is added to a capsule. What a support bundle lists besides its closure
policy. The path checks of
`materialize` and the fields of requests, which hold for the requests that the
model makes. The strings of capabilities and identity tokens, canonical JSON,
digests and identifiers: the models take them as injective names.
`transfer_file_subject`, which hands a single file on to another process. The
normalisation of stack frames. The wire types of the cloud interface that no
function of this repository compares with another document (onboarding,
releases, upload states, fuzz campaigns): the services that step through them
are elsewhere, so there is no transition to model. Support tables, configuration
and the detection of the host processor, which are tables and parsers. The
components that `PROJECT.json` lists as `not_modelled` or `partly` have the
reason with each.

## Plan

What could be added: `transfer_file_subject` beside `SubjectFreeze`.

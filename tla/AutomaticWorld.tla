---------------------------- MODULE AutomaticWorld ----------------------------
(***************************************************************************)
(* An automatic world from its capture to its replay.  A program makes     *)
(* observations while one operation runs.  The native recorder, which is   *)
(* not part of this repository, writes them to a stream of records, cuts a *)
(* signed fence, and numbers the records of the candidate it delivers;     *)
(* CaptureCoverage collects the receipts the fence carries.  The candidate *)
(* is verified, its observations become a capsule, the capsule is          *)
(* resolved, and a program is replayed against it.                         *)
(*                                                                         *)
(* The recorder counts what it cannot keep, but the stream is not          *)
(* reliable: a record may be lost, repeated or moved, may belong to        *)
(* another operation, and an observation may arrive after the fence.       *)
(***************************************************************************)
EXTENDS CandidateRecords, AutomaticReplay

CONSTANTS
    Operation, Foreign,  \* the captured operation and another one
    Exchanges,           \* [class, request, response] a program may observe
    Receipts,            \* the receipts a runtime may record
    Rules,               \* the closure policy
    Ownership,           \* the adapters of the fence
    Deployment, FailureRef, Signer, Other,
    ObservationBound,    \* bounds what one operation observes
    RecorderSlots,       \* observations the recorder can keep
    None

ASSUME WorldAssumption ==
    /\ Rules \in Seq(Range(Rules))
    /\ \A receipt \in Receipts : receipt.boundary \in Nat
    /\ NoOwner \notin Receipts
    /\ \A exchange \in Exchanges :
         /\ "operation" \in DOMAIN exchange.request
         /\ {"operation", "outcome"} \subseteq DOMAIN exchange.response
         /\ exchange.class = PairClass(exchange.request)

\* The failure and the adapters are valid, and what one operation may observe
\* fits the limits of a candidate and of a replay.
ASSUME CaptureAssumption ==
    /\ ValidReference(FailureRef) /\ ValidIdentity(FailureRef.identity)
    /\ Ownership \in Seq(Range(Ownership))
    /\ ValidOwnership(Ownership, [receipts |-> Rules])
    /\ {MaxRecords, MaxObservations, MaxReplayed} \subseteq Nat
    /\ ObservationBound \in Nat \ {0, 1}
    /\ ObservationBound + 4 <= MaxRecords
    /\ ObservationBound <= MaxObservations /\ ObservationBound <= MaxReplayed

VARIABLES
    seen,       \* history: what the program observed, baselines first
    stream,     \* the records written, not yet numbered
    cut,        \* what the recorder could not keep; history: what the fence saw
    coverage,   \* CaptureCoverage
    calls,      \* history: how often each receipt was recorded, and unowned
    candidate,  \* the delivered candidate
    damaged,    \* history: a record or an object was lost, repeated or moved
    verdict,    \* of verify_automatic_capture and of the resolution
    table,      \* the observations left to replay
    answers     \* history: what the replayed program was given

vars == <<seen, stream, cut, coverage, calls, candidate, damaged, verdict,
          table, answers>>

\* The records of a stream with the numbers that delivery gives them.
Numbered(bodies) ==
    [i \in DOMAIN bodies |-> [kind |-> bodies[i].kind, body |-> bodies[i].body,
                              sequence |-> i - 1]]

Rec(kind, body) == [kind |-> kind, body |-> body]

Baselines ==
    <<[class |-> "environment", request |-> EnvironmentRequest, response |-> EnvironmentImage],
      [class |-> "clock", request |-> ClockRequest, response |-> ClockImage]>>

\* AutomaticObservationPayload; the evidence digest is the exchange.
Payload(operation, sequence, exchange, owner) ==
    [boundary |-> boundary_id(exchange.class), class |-> exchange.class,
     evidence |-> exchange, operation |-> operation, owner |-> owner,
     parent |-> NoParent, sequence |-> sequence]

OwnerOf(class) ==
    LET owners == {i \in DOMAIN Ownership : Ownership[i].class = class} IN
    IF owners = {} THEN NoOwner ELSE Ownership[CHOOSE i \in owners : TRUE].adapter

Phase ==
    IF candidate # None THEN verdict
    ELSE IF stream # <<>> /\ Last(stream).kind = "failure" THEN "failed"
    ELSE IF Places(stream, "fence") # {} THEN "fenced"
    ELSE "running"

Init ==
    /\ seen = Baselines
    /\ stream = <<Rec("begin", [campaign |-> NoContext, parents |-> {}])>> \o
                [i \in 1..2 |-> Rec("observation",
                    Payload(Operation, i - 1, Baselines[i], OwnerOf(Baselines[i].class)))]
    /\ cut = [dropped |-> 0, overflowed |-> FALSE, fenced |-> 0]
    /\ coverage = NewCoverage
    /\ calls = [call \in Receipts \cup {NoOwner} |-> 0]
    /\ candidate = None /\ damaged = FALSE /\ verdict = "none"
    /\ table = {} /\ answers = <<>>

--------------------------------------------------------------------------------
(* The capture *)

\* The program observes; the recorder keeps it, with its owner if a semantic
\* adapter saw it, or is full and counts it.
Observe(exchange, owner) ==
    /\ candidate = None /\ Phase \in {"running", "fenced"}
    /\ Len(seen) < ObservationBound
    /\ seen' = Append(seen, exchange)
    /\ LET kept == OfKind(stream, "observation") IN
       IF Len(kept) < RecorderSlots
       THEN /\ stream' = Append(stream, Rec("observation",
                             Payload(Operation, Len(kept), exchange, owner)))
            /\ cut' = cut
       ELSE /\ stream' = stream
            /\ cut' = [cut EXCEPT !.dropped = @ + 1, !.overflowed = TRUE]
    /\ UNCHANGED <<coverage, calls, candidate, damaged, verdict, table, answers>>

RecordReceipt(receipt) ==
    /\ candidate = None /\ Phase = "running" /\ calls[receipt] < 2
    /\ coverage' = CoverageRecord(Rules, coverage, receipt)
    /\ calls' = [calls EXCEPT ![receipt] = @ + 1]
    /\ UNCHANGED <<seen, stream, cut, candidate, damaged, verdict, table, answers>>

MarkUnowned ==
    /\ candidate = None /\ Phase = "running" /\ calls[NoOwner] = 0
    /\ coverage' = CoverageUnowned(coverage)
    /\ calls' = [calls EXCEPT ![NoOwner] = 1]
    /\ UNCHANGED <<seen, stream, cut, candidate, damaged, verdict, table, answers>>

\* The recorder closes the coverage and signs the fence over the
\* observations it has kept.  Without a closure there is no fence: what was
\* captured stays where it is.
CutFence ==
    /\ candidate = None /\ Phase = "running"
    /\ CoverageClose(Rules, coverage) # NoClosure
    /\ LET kept == OfKind(stream, "observation")
           digest == [i \in DOMAIN kept |-> kept[i].body]
       IN stream' = Append(stream, Rec("fence",
            [closure |-> CoverageClose(Rules, coverage), count |-> Len(kept),
             deployment |-> Deployment, digest |-> digest, dropped |-> cut.dropped,
             operation |-> Operation, overflowed |-> cut.overflowed,
             ownership |-> Ownership, signer |-> Signer, subject |-> Deployment.subject,
             unowned |-> Unowned(digest)]))
    /\ cut' = [cut EXCEPT !.fenced = Len(seen)]
    /\ UNCHANGED <<seen, coverage, calls, candidate, damaged, verdict, table, answers>>

Fail ==
    /\ candidate = None /\ Phase = "fenced"
    /\ stream' = Append(stream, Rec("failure",
                     [identity |-> FailureRef.identity, reference |-> FailureRef]))
    /\ UNCHANGED <<seen, cut, coverage, calls, candidate, damaged, verdict, table, answers>>

\* What one fault of the spool makes of a stream: a record lost, repeated or
\* exchanged with the next, an observation of another operation in place of
\* one of ours, the fence of another operation, of an earlier deployment or
\* of another signer.
Damage(s) ==
    LET fence == FenceIndex(s) IN
    {RemoveAt(s, i) : i \in DOMAIN s} \cup
    {InsertAt(s, i, s[i]) : i \in DOMAIN s} \cup
    {[s EXCEPT ![i] = s[i + 1], ![i + 1] = s[i]] : i \in 1..(Len(s) - 1)} \cup
    {[s EXCEPT ![i].body.operation = Foreign] : i \in Places(s, "observation") \cup {fence}} \cup
    {[s EXCEPT ![fence].body.signer = Other], [s EXCEPT ![fence].body.deployment = Other]}

\* The terminal record counts the records of the delivered candidate.
Deliver(bodies) ==
    /\ candidate = None /\ Phase = "failed"
    /\ candidate' =
         [operation |-> Operation, mode |-> Deployment.mode, deployment |-> Deployment,
          failure |-> FailureRef, context |-> NoContext, source |-> "production",
          records |-> Numbered(Append(bodies, Rec("terminal",
                         [complete |-> TRUE, count |-> Len(bodies)])))]
    /\ damaged' = (bodies # stream)
    /\ UNCHANGED <<seen, stream, cut, coverage, calls, verdict, table, answers>>

Verify ==
    /\ candidate # None /\ verdict = "none"
    /\ verdict' = IF AutomaticCaptureVerified(candidate, Rules, Signer)
                  THEN "accepted" ELSE "rejected"
    /\ UNCHANGED <<seen, stream, cut, coverage, calls, candidate, damaged, table, answers>>

--------------------------------------------------------------------------------
(* The replay *)

\* The exchanges of observations, each with its position in its class.
Positioned(exchanges) ==
    [i \in DOMAIN exchanges |->
       [exchange |-> exchanges[i],
        position |-> Cardinality({j \in 1..(i - 1) : exchanges[j].class = exchanges[i].class})]]

OutcomeOf(response) == IF "outcome" \in DOMAIN response THEN response.outcome ELSE "response"

\* What sealing keeps of an observation.
Sealed(p) ==
    [class |-> p.exchange.class, position |-> p.position,
     request |-> p.exchange.request, response |-> p.exchange.response,
     outcome |-> OutcomeOf(p.exchange.response), operation |-> Operation]

\* The capsule of an accepted candidate: environment and filesystem
\* observations are state artifacts, the others transcript interactions.
Capsule(positioned) ==
    LET isState == {i \in DOMAIN positioned :
                      positioned[i].exchange.class \in {"environment", "filesystem"}}
        states == Selected(positioned, isState)
        others == Selected(positioned, DOMAIN positioned \ isState)
    IN [operation |-> Operation,
        artifacts |-> [i \in DOMAIN states |-> Sealed(states[i])],
        interactions |-> [i \in DOMAIN others |-> Sealed(others[i])]]

Captured ==
    LET observations == Observations(candidate.records) IN
    [i \in DOMAIN observations |-> observations[i].evidence]

\* Sealing may lose an observation's object or repeat it.
CapsuleInputs ==
    LET whole == Positioned(Captured) IN
    {whole} \cup {RemoveAt(whole, i) : i \in DOMAIN whole}
            \cup {InsertAt(whole, i, whole[i]) : i \in DOMAIN whole}

Resolve(positioned) ==
    /\ verdict = "accepted"
    /\ damaged' = (damaged \/ positioned # Positioned(Captured))
    /\ IF Resolves(Capsule(positioned))
       THEN verdict' = "replaying" /\ table' = Replayable(Capsule(positioned))
       ELSE verdict' = "unresolved" /\ table' = table
    /\ UNCHANGED <<seen, stream, cut, coverage, calls, candidate, answers>>

\* take_response, by any of the threads of the replayed program, at any
\* position.  A request that does not match changes nothing.
TakeResponse(class, position, request) ==
    /\ verdict = "replaying"
    /\ \E taken \in Taken(table, class, position, request) :
         /\ table' = table \ {taken}
         /\ answers' = Append(answers, taken)
    /\ UNCHANGED <<seen, stream, cut, coverage, calls, candidate, damaged, verdict>>

RequireComplete ==
    /\ verdict = "replaying"
    /\ verdict' = IF table = {} THEN "complete" ELSE "incomplete"
    /\ UNCHANGED <<seen, stream, cut, coverage, calls, candidate, damaged, table, answers>>

Next ==
    \/ \E exchange \in Exchanges :
         \E owner \in {OwnerOf(exchange.class), NoOwner} : Observe(exchange, owner)
    \/ \E receipt \in Receipts : RecordReceipt(receipt)
    \/ MarkUnowned
    \/ CutFence
    \/ Fail
    \/ \E bodies \in {stream} \cup (IF Phase = "failed" THEN Damage(stream) ELSE {}) :
         Deliver(bodies)
    \/ Verify
    \/ verdict = "accepted" /\ \E positioned \in CapsuleInputs : Resolve(positioned)
    \/ \E exchange \in Exchanges, position \in 0..ObservationBound :
         TakeResponse(exchange.class, position, exchange.request)
    \/ RequireComplete

Spec == Init /\ [][Next]_vars

--------------------------------------------------------------------------------
(* Properties *)

Verified == verdict \notin {"none", "rejected"}

\* What the program observed before the fence was cut.
Happened == SubSeq(seen, 1, cut.fenced)

\* A candidate that verify_automatic_capture accepts holds every observation
\* the program made before the fence, in the order it made them, each with
\* the adapter that owns its boundary; whatever the spool did to the records.
\* One observed after the fence was cut is missing only if its record was
\* never written or was lost: a record after the fence refuses the candidate.
AcceptedIsWhatHappened ==
    Verified =>
        /\ Captured = Happened
        /\ \A i \in DOMAIN Observations(candidate.records) :
             Observations(candidate.records)[i].owner = OwnerOf(seen[i].class)
        /\ Len(OfKind(candidate.records, "observation")) = cut.fenced

\* The entries a replay of what happened is served from.
Expected ==
    {Entry(p.exchange.class, p.position, p.exchange.request,
           OutcomeOf(p.exchange.response), p.exchange.response) :
        p \in Range(Positioned(Happened))} \ {Baseline(Table(Capsule(Positioned(Happened))), c) :
                                            c \in {"environment", "clock"}}

\* A replay that require_complete passes has given out, once each, recorded
\* answers at the positions they were recorded at, without a gap in a class;
\* all of them when sealing kept every observation.
CompleteIsWhatHappened ==
    verdict = "complete" =>
        /\ Range(answers) \subseteq Expected
        /\ IsInjective(answers)
        /\ \A e \in Range(answers) : \A p \in first_position(e.class)..e.position :
             \E other \in Range(answers) : other.class = e.class /\ other.position = p
        /\ ~damaged => Range(answers) = Expected

\* A fence is only cut over a coverage in which each boundary of the policy
\* was recorded once with a mechanism the policy allows, and no refused
\* receipt and no unowned observation came in between (CaptureCoverage).
FenceCoversPolicy ==
    Places(stream, "fence") # {} =>
        /\ calls[NoOwner] = 0
        /\ \A receipt \in Receipts : calls[receipt] > 0 =>
             /\ calls[receipt] = 1
             /\ \E i \in DOMAIN Rules : Satisfies(Rules[i], receipt)
        /\ \A i \in DOMAIN Rules :
             Cardinality({r \in Receipts : calls[r] > 0 /\ Satisfies(Rules[i], r)}) = 1

\* An operation whose observations were all owned, kept and before the fence,
\* well formed and of distinct content, and whose records arrived as written,
\* is neither rejected nor left without a replay.
WholeCaptureReplays ==
    /\ candidate # None /\ ~damaged
    /\ cut.dropped = 0
    /\ Len(Observations(Numbered(stream))) = Len(seen)
    /\ \A o \in Range(Observations(Numbered(stream))) : o.owner # NoOwner
    /\ \A i \in 3..Len(seen) : ValidPair(seen[i].request, seen[i].response)
    /\ DistinctContent(Capsule(Positioned(seen)).artifacts)
    => verdict \notin {"rejected", "unresolved"}

================================================================================

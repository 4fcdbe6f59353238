---------------------------- MODULE TranscriptReplay ----------------------------
(***************************************************************************)
(* HttpTranscriptReplay of crates/reproit-backend/src/dependency.rs: it    *)
(* answers the exchanges of a replayed operation from a closed transcript. *)
(* The replayed program makes any exchanges, in any order, and may finish  *)
(* at any time.                                                            *)
(***************************************************************************)
EXTENDS DependencyTranscript

CONSTANTS
    Bodies,    \* request and response bytes
    Body,      \* the bytes of each object; objects may have the same bytes
    Refused,   \* the answer to an exchange that does not match
    MaxCalls   \* bound on the exchanges of one replay

ASSUME ReplayAssumption ==
    /\ Body \in [Objects -> Bodies]
    /\ Refused \notin Bodies
    /\ MaxCalls \in Nat

VARIABLES
    transcript,        \* the transcript and the operation of the replay
    failed,
    next_interaction,
    calls,             \* the exchanges made so far, with their answers
    result             \* what finish returned, "running" before

vars == <<transcript, failed, next_interaction, calls, result>>

Script == transcript.script.interactions

\* Transcripts with the interactions of the bound, and the operations they
\* may be replayed for.
Offered ==
    [operation : Operations,
     script : [interactions : UNION {[1..n -> Interaction] :
                 n \in 0..V1Limits.interactions_per_operation},
               objects : SUBSET Objects]]

\* new refuses a transcript that does not validate.
Init ==
    /\ transcript \in {t \in Offered : Replayable(t.operation, t.script)}
    /\ failed = FALSE
    /\ next_interaction = 0
    /\ calls = <<>>
    /\ result = "running"

\* Mutation of Expected: a failed replay answers again.
ExpectedAfterFailure(operation, request) ==
    /\ operation = transcript.operation
    /\ next_interaction < Len(Script)
    /\ Body[Script[next_interaction + 1].request] = request

\* The exchange is the next one of the transcript.
Expected(operation, request) ==
    /\ ~failed
    /\ operation = transcript.operation
    /\ next_interaction < Len(Script)
    /\ Body[Script[next_interaction + 1].request] = request

Answered(operation, request, answer) ==
    calls' = Append(calls, [operation |-> operation, request |-> request,
                            answer |-> answer])

\* Mutation of Exchange: a mismatch is not remembered.
ExchangeForgets(operation, request) ==
    /\ result = "running" /\ Len(calls) < MaxCalls
    /\ IF Expected(operation, request)
       THEN /\ Answered(operation, request,
                        Body[Script[next_interaction + 1].response])
            /\ next_interaction' = next_interaction + 1
       ELSE /\ Answered(operation, request, Refused)
            /\ UNCHANGED next_interaction
    /\ UNCHANGED <<transcript, failed, result>>

\* exchange; a mismatch fails the whole replay (reject).
Exchange(operation, request) ==
    /\ result = "running" /\ Len(calls) < MaxCalls
    /\ IF Expected(operation, request)
       THEN /\ Answered(operation, request,
                        Body[Script[next_interaction + 1].response])
            /\ next_interaction' = next_interaction + 1
            /\ UNCHANGED failed
       ELSE /\ Answered(operation, request, Refused)
            /\ failed' = TRUE
            /\ UNCHANGED next_interaction
    /\ UNCHANGED <<transcript, result>>

\* finish consumes the replay.
Finish ==
    /\ result = "running"
    /\ result' = IF ~failed /\ next_interaction = Len(Script)
                 THEN "complete" ELSE "mismatch"
    /\ UNCHANGED <<transcript, failed, next_interaction, calls>>

Next ==
    \/ \E operation \in Operations, request \in Bodies :
         Exchange(operation, request)
    \/ Finish

Spec == Init /\ [][Next]_vars

--------------------------------------------------------------------------------
(***************************************************************************)
(* Properties.                                                             *)
(***************************************************************************)

\* The exchanges a faithful replay makes.
Recorded ==
    [k \in 1..Len(Script) |->
       [operation |-> transcript.operation,
        request |-> Body[Script[k].request],
        answer |-> Body[Script[k].response]]]

\* A replay completes exactly when the program made the recorded exchanges,
\* all of them, in their order and no other one: an early mismatch, an extra
\* exchange after the last one or a missing one is never forgotten.
CompleteMeansRecorded ==
    /\ result = "complete" => calls = Recorded
    /\ result = "mismatch" => calls # Recorded

\* What is answered at all is the recorded prefix, so that a program that has
\* left the recording gets no response of a later interaction.
AnswersArePrefix ==
    /\ next_interaction <= Len(calls) /\ next_interaction <= Len(Recorded)
    /\ \A k \in DOMAIN calls :
         IF k <= next_interaction THEN calls[k] = Recorded[k] ELSE calls[k].answer = Refused
================================================================================

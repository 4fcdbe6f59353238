------------------------- MODULE TranscriptReplayProofs -------------------------
(***************************************************************************)
(* Proofs about TranscriptReplay, for any transcript, bodies and calls.    *)
(***************************************************************************)
EXTENDS TranscriptReplay, TLAPS

Call == [operation : Operations, request : Bodies, answer : Bodies \cup {Refused}]

TypeInv ==
    /\ \E n \in Nat : Script \in [1..n -> Interaction]
    /\ next_interaction \in 0..Len(Script)
    /\ calls \in Seq(Call)

\* The next call that is refused is remembered, and until then there is none.
FailureKept ==
    /\ ~failed => Len(calls) = next_interaction
    /\ failed => next_interaction < Len(calls)

ResultTrue ==
    /\ result = "complete" => ~failed /\ next_interaction = Len(Script)
    /\ result = "mismatch" => failed \/ next_interaction # Len(Script)

IInv == TypeInv /\ AnswersArePrefix /\ FailureKept /\ ResultTrue

LEMMA ScriptLength ==
    ASSUME TypeInv
    PROVE  /\ Len(Script) \in Nat /\ Script \in [1..Len(Script) -> Interaction]
           /\ DOMAIN Recorded = 1..Len(Script) /\ Len(Recorded) = Len(Script)
           /\ Recorded \in Seq({Recorded[k] : k \in 1..Len(Script)})
           /\ \A k \in 1..Len(Script) :
                /\ Body[Script[k].response] \in Bodies
                /\ Recorded[k] = [operation |-> transcript.operation,
                                  request |-> Body[Script[k].request],
                                  answer |-> Body[Script[k].response]]
<1>1. PICK n \in Nat : Script \in [1..n -> Interaction]
  BY DEF TypeInv
<1>2. Len(Script) = n
  BY <1>1
<1>3. Recorded = [k \in 1..Len(Script) |-> Recorded[k]]
      /\ \A k \in 1..Len(Script) : Recorded[k] = [operation |-> transcript.operation,
                                                 request |-> Body[Script[k].request],
                                                 answer |-> Body[Script[k].response]]
  BY DEF Recorded
<1>4. \A k \in 1..Len(Script) : Body[Script[k].response] \in Bodies
  <2> TAKE k \in 1..Len(Script)
  <2>1. Script[k].response \in Objects
    BY <1>1, <1>2 DEF Interaction
  <2> QED BY <2>1, ReplayAssumption
<1>5. Len(Recorded) = Len(Script)
      /\ Recorded \in Seq({Recorded[k] : k \in 1..Len(Script)})
  BY <1>1, <1>2, <1>3
<1> QED BY <1>1, <1>2, <1>3, <1>4, <1>5

\* The exchanges are the recorded ones exactly if none was refused and none is
\* left.
LEMMA RecordedExactly ==
    ASSUME IInv
    PROVE  calls = Recorded <=> ~failed /\ next_interaction = Len(Script)
<1>1. /\ Len(calls) \in Nat /\ DOMAIN calls = 1..Len(calls)
      /\ calls = [k \in 1..Len(calls) |-> calls[k]] /\ next_interaction \in 0..Len(Script)
  BY DEF IInv, TypeInv
<1>2. /\ Len(Script) \in Nat /\ Len(Recorded) = Len(Script)
      /\ Recorded = [k \in 1..Len(Script) |-> Recorded[k]]
      /\ \A k \in 1..Len(Script) : Body[Script[k].response] \in Bodies
      /\ \A k \in 1..Len(Script) : Recorded[k].answer = Body[Script[k].response]
  BY ScriptLength DEF IInv, Recorded
<1>3. ASSUME ~failed, next_interaction = Len(Script) PROVE calls = Recorded
  <2>1. Len(calls) = Len(Script) /\ \A k \in 1..Len(Script) : calls[k] = Recorded[k]
    BY <1>1, <1>2, <1>3 DEF IInv, FailureKept, AnswersArePrefix
  <2> QED BY <1>1, <1>2, <2>1
<1>4. ASSUME calls = Recorded PROVE ~failed
  <2> SUFFICES ASSUME failed PROVE FALSE
    OBVIOUS
  <2>1. next_interaction < Len(calls) /\ Len(calls) = Len(Script)
    BY <1>2, <1>4 DEF IInv, FailureKept
  <2> DEFINE k == next_interaction + 1
  <2>2. k \in 1..Len(Script) /\ k \in DOMAIN calls /\ ~(k <= next_interaction)
    BY <1>1, <1>2, <2>1
  <2>3. calls[k].answer = Refused
    BY <2>2 DEF IInv, AnswersArePrefix
  <2>4. calls[k].answer \in Bodies
    BY <1>2, <1>4, <2>2
  <2> QED BY <2>3, <2>4, ReplayAssumption
<1>5. ASSUME calls = Recorded PROVE next_interaction = Len(Script)
  <2>1. Len(calls) = next_interaction
    BY <1>4, <1>5 DEF IInv, FailureKept
  <2> QED BY <1>2, <1>5, <2>1
<1> QED BY <1>3, <1>4, <1>5

LEMMA Invariants == IInv => CompleteMeansRecorded /\ AnswersArePrefix
BY RecordedExactly DEF IInv, ResultTrue, CompleteMeansRecorded

LEMMA InitIInv == Init => IInv
<1> SUFFICES ASSUME Init PROVE IInv
  OBVIOUS
<1>1. \E n \in Nat : Script \in [1..n -> Interaction]
  <2>1. transcript.script.interactions \in
          UNION {[1..n -> Interaction] : n \in 0..V1Limits.interactions_per_operation}
    BY DEF Init, Offered
  <2>2. V1Limits.interactions_per_operation \in Nat
    BY TranscriptAssumption DEF LimitsRecord, Positive
  <2> QED BY <2>1, <2>2 DEF Script
<1>2. Len(Script) \in Nat
  BY <1>1
<1>3. TypeInv
  BY <1>1, <1>2 DEF Init, TypeInv
<1>4. Len(Recorded) \in Nat
  BY <1>2, <1>3, ScriptLength
<1>5. AnswersArePrefix
  BY <1>4 DEF Init, AnswersArePrefix
<1> QED BY <1>3, <1>5 DEF IInv, Init, FailureKept, ResultTrue

LEMMA ExchangeIInv ==
    ASSUME IInv, NEW operation \in Operations, NEW request \in Bodies, Exchange(operation, request)
    PROVE  IInv'
<1> DEFINE k == next_interaction + 1
           call(answer) == [operation |-> operation, request |-> request, answer |-> answer]
<1>1. /\ UNCHANGED <<transcript, result>> /\ result = "running"
      /\ Script' = Script /\ Recorded' = Recorded
  BY DEF Exchange, Script, Recorded
<1>2. /\ Len(Script) \in Nat /\ Len(Recorded) = Len(Script)
      /\ \A j \in 1..Len(Script) :
           /\ Body[Script[j].response] \in Bodies
           /\ Recorded[j] = [operation |-> transcript.operation,
                             request |-> Body[Script[j].request],
                             answer |-> Body[Script[j].response]]
  BY ScriptLength DEF IInv
<1>3. /\ next_interaction \in 0..Len(Script) /\ calls \in Seq(Call) /\ Len(calls) \in Nat
      /\ DOMAIN calls = 1..Len(calls) /\ next_interaction <= Len(calls)
  BY DEF IInv, TypeInv, AnswersArePrefix
<1>4. ASSUME NEW answer \in Bodies \cup {Refused}, Answered(operation, request, answer)
      PROVE  /\ calls' \in Seq(Call) /\ Len(calls') = Len(calls) + 1
             /\ DOMAIN calls' = 1..(Len(calls) + 1)
             /\ \A j \in DOMAIN calls : calls'[j] = calls[j]
             /\ calls'[Len(calls) + 1] = call(answer)
  <2>1. call(answer) \in Call /\ calls' = Append(calls, call(answer))
    BY <1>4 DEF Call, Answered
  <2> HIDE DEF call
  <2> QED BY <1>3, <2>1
<1>5. CASE Expected(operation, request)
  <2> DEFINE answer == Body[Script[k].response]
  <2>1. ~failed /\ operation = transcript.operation /\ next_interaction < Len(Script)
        /\ Body[Script[k].request] = request
    BY <1>5 DEF Expected
  <2>2. k \in 1..Len(Script) /\ Len(calls) = next_interaction
    BY <1>2, <1>3, <2>1 DEF IInv, FailureKept
  <2>3. answer \in Bodies /\ Recorded[k] = call(answer)
    BY <1>2, <2>1, <2>2
  <2>4. Answered(operation, request, answer) /\ next_interaction' = k /\ failed' = failed
    BY <1>5 DEF Exchange
  <2> HIDE DEF answer
  <2>5. /\ calls' \in Seq(Call) /\ Len(calls') = k /\ DOMAIN calls' = 1..k
        /\ \A j \in DOMAIN calls : calls'[j] = calls[j]
        /\ calls'[k] = Recorded[k]
    BY <1>4, <2>2, <2>3, <2>4
  <2>6. TypeInv'
    BY <1>1, <1>2, <2>2, <2>4, <2>5 DEF IInv, TypeInv
  <2>7. AnswersArePrefix'
    <3>1. \A j \in 1..k : calls'[j] = Recorded[j]
      <4> TAKE j \in 1..k
      <4>1. CASE j = k
        BY <2>5, <4>1
      <4>2. CASE j # k
        <5>1. j \in DOMAIN calls /\ j <= next_interaction
          BY <1>3, <2>2, <4>2
        <5> QED BY <2>5, <5>1 DEF IInv, AnswersArePrefix
      <4> QED BY <4>1, <4>2
    <3> QED BY <1>1, <1>2, <2>2, <2>4, <2>5, <3>1 DEF AnswersArePrefix
  <2>8. FailureKept' /\ ResultTrue'
    BY <1>1, <2>1, <2>4, <2>5 DEF FailureKept, ResultTrue
  <2> QED BY <2>6, <2>7, <2>8 DEF IInv
<1>6. CASE ~Expected(operation, request)
  <2>1. Answered(operation, request, Refused) /\ next_interaction' = next_interaction
        /\ failed' = TRUE
    BY <1>6 DEF Exchange
  <2>2. /\ calls' \in Seq(Call) /\ Len(calls') = Len(calls) + 1
        /\ DOMAIN calls' = 1..(Len(calls) + 1)
        /\ \A j \in DOMAIN calls : calls'[j] = calls[j]
        /\ calls'[Len(calls) + 1].answer = Refused
    <3>1. call(Refused).answer = Refused
      OBVIOUS
    <3> HIDE DEF call
    <3>2. Refused \in Bodies \cup {Refused}
      OBVIOUS
    <3> QED BY <1>4, <2>1, <3>1, <3>2
  <2>3. TypeInv'
    <3>1. next_interaction' \in 0..Len(Script)
      BY <1>3, <2>1
    <3> QED BY <1>1, <2>2, <3>1 DEF IInv, TypeInv
  <2>4. AnswersArePrefix'
    <3>1. ASSUME NEW j \in DOMAIN calls'
          PROVE  IF j <= next_interaction THEN calls'[j] = Recorded[j]
                                          ELSE calls'[j].answer = Refused
      <4>1. CASE j = Len(calls) + 1
        BY <1>3, <2>2, <4>1
      <4>2. CASE j # Len(calls) + 1
        <5>1. j \in DOMAIN calls
          BY <1>3, <2>2, <4>2
        <5> QED BY <2>2, <5>1 DEF IInv, AnswersArePrefix
      <4> QED BY <4>1, <4>2
    <3> QED BY <1>1, <1>2, <1>3, <2>1, <2>2, <3>1 DEF AnswersArePrefix
  <2>5. FailureKept' /\ ResultTrue'
    BY <1>1, <1>3, <2>1, <2>2 DEF FailureKept, ResultTrue
  <2> QED BY <2>3, <2>4, <2>5 DEF IInv
<1> QED BY <1>5, <1>6

LEMMA StepIInv == ASSUME IInv, [Next]_vars PROVE IInv'
<1>1. CASE Finish
  <2>1. UNCHANGED <<transcript, failed, next_interaction, calls>>
        /\ result' = IF ~failed /\ next_interaction = Len(Script) THEN "complete" ELSE "mismatch"
    BY <1>1 DEF Finish
  <2>2. TypeInv' /\ AnswersArePrefix' /\ FailureKept'
    BY <2>1 DEF IInv, TypeInv, AnswersArePrefix, FailureKept, Script, Recorded
  <2>3. ResultTrue'
    BY <2>1 DEF ResultTrue, Script
  <2> QED BY <2>2, <2>3 DEF IInv
<1>2. CASE UNCHANGED vars
  BY <1>2 DEF vars, IInv, TypeInv, AnswersArePrefix, FailureKept, ResultTrue, Script, Recorded
<1> QED BY <1>1, <1>2, ExchangeIInv DEF Next

--------------------------------------------------------------------------------

\* Whatever exchanges the replayed program makes, finish accepts it exactly if
\* it made the recorded ones, in their order and no other
\* (HttpTranscriptReplay::exchange, reject and finish).
THEOREM CompleteHolds == Spec => []CompleteMeansRecorded
BY InitIInv, StepIInv, Invariants, PTL DEF Spec

\* A program that has left the recording gets no answer any more, even if it
\* comes back to it (HttpTranscriptReplay::exchange).
THEOREM PrefixHolds == Spec => []AnswersArePrefix
BY InitIInv, StepIInv, Invariants, PTL DEF Spec

================================================================================

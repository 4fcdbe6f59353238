--------------------------- MODULE MCTranscriptReplay ---------------------------
(***************************************************************************)
(* An instance of TranscriptReplay for TLC: every transcript of one or two *)
(* interactions over four objects, of which two have the same bytes.       *)
(***************************************************************************)
EXTENDS TranscriptReplay, TLC

CONSTANTS o1, o2, x1, x2, x3, x4, b1, b2, b3

MCV1Limits ==
    [active_operations |-> 1, candidate_bytes |-> 4,
     concurrent_close_requests |-> 1, durable_bytes |-> 4,
     interactions_per_operation |-> 2, memory_bytes |-> 4,
     object_bytes |-> 1, sessions |-> 1]

MCBody == x1 :> b1 @@ x2 :> b2 @@ x3 :> b1 @@ x4 :> b3
MCObjectBytes == [x \in Objects |-> 1]
================================================================================

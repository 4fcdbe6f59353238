---------------------------- MODULE MCDependencyPool ----------------------------
(***************************************************************************)
(* Instances of DependencyPool for TLC.                                    *)
(***************************************************************************)
EXTENDS DependencyPool, TLC

CONSTANTS p1, p2, t1, t2, o1, o2, x1, x2, x3, x4, x5

\* The V1 caps at the scale of the instances.
MCV1Limits ==
    [active_operations |-> 2, candidate_bytes |-> 2,
     concurrent_close_requests |-> 2, durable_bytes |-> 4,
     interactions_per_operation |-> 2, memory_bytes |-> 4,
     object_bytes |-> 1, sessions |-> 2]

\* A pool in which two full reservations do not fit, two uneven ones do, and
\* a second close finds no slot.
PoolLimits ==
    [MCV1Limits EXCEPT !.memory_bytes = 3, !.concurrent_close_requests = 1,
                       !.interactions_per_operation = 1]

\* A pool with room for one provider that records two interactions.
ScriptLimits ==
    [MCV1Limits EXCEPT !.sessions = 1, !.concurrent_close_requests = 1]

PairBytes == x1 :> 1 @@ x2 :> 1
\* Two objects of one byte, two empty ones and one beyond object_bytes.
MixedBytes == x1 :> 1 @@ x2 :> 0 @@ x3 :> 0 @@ x4 :> 1 @@ x5 :> 2

ScriptSymmetry == Permutations({t1, t2}) \cup Permutations({x2, x3})
                    \cup Permutations({x1, x4})
================================================================================

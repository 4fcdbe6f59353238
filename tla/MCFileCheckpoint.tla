---------------------------- MODULE MCFileCheckpoint ----------------------------
(***************************************************************************)
(* Instances of FileCheckpoint for TLC.                                    *)
(***************************************************************************)
EXTENDS FileCheckpoint, TLC

CONSTANTS c1, c2, c3, w1, w2, d1, d2, x1, x2, x3, f1, f2, l1, l2, l3, svc

\* Three requests for two points.  The small point is requested twice, by two
\* captures that name the same target; the third request has the large point.
MCSize == d1 :> 1 @@ d2 :> 2
MCPointOf == c1 :> d1 @@ c2 :> d1 @@ c3 :> d2
MCExecutionOf == c1 :> x1 @@ c2 :> x2 @@ c3 :> x3
MCTargetOf == c1 :> f1 @@ c2 :> f1 @@ c3 :> f2
OwnLease == c1 :> l1 @@ c2 :> l2 @@ c3 :> l3

\* Room for two small points, or for the large one alone.
MCMaxClaim ==
    [d \in Dimensions |-> IF d = "objects" THEN 3 ELSE 2]

\* Two executions of one capture, which share its lease.
PairPointOf == c1 :> d1 @@ c2 :> d1
PairExecutionOf == c1 :> x1 @@ c2 :> x2
PairTargetOf == c1 :> f1 @@ c2 :> f2
SharedLease == c1 :> l1 @@ c2 :> l1
PairSize == d1 :> 1
================================================================================

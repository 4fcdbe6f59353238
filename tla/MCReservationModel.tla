--------------------------- MODULE MCReservationModel ---------------------------
(***************************************************************************)
(* An instance of ReservationModel for TLC: three reservations, two        *)
(* services with a share each that together exceed the environment, and a  *)
(* service without a share.                                                *)
(***************************************************************************)
EXTENDS ReservationModel, TLC

CONSTANTS r1, r2, r3, r4, s1, s2, stranger

\* A claim with the same amount of bytes in three dimensions.
Bytes(n, objects) ==
    [d \in Dimensions |-> IF d = "objects" THEN objects ELSE n]

\* An empty claim, ordinary ones, one that is large in one dimension only.
MCClaims ==
    {Bytes(0, 0), Bytes(1, 1), Bytes(2, 1),
     [Bytes(1, 1) EXCEPT !["temporary_bytes"] = 3]}

MCEnvironment == [leases |-> 3, claim |-> Bytes(4, 3)]
MCShares ==
    s1 :> [leases |-> 2, claim |-> Bytes(3, 3)]
      @@ s2 :> [leases |-> 3, claim |-> Bytes(3, 2)]
================================================================================

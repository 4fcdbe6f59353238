----------------------------- MODULE ProviderClaims -----------------------------
(***************************************************************************)
(* Claims on provider resources and the arithmetic on them, from           *)
(* crates/reproit-core/src/resource_model.rs.  A claim has four dimensions *)
(* of at most MaxExact units.  A capacity admits at most 1024 leases, so   *)
(* no sum of claims reaches 2^64 and the checked additions never fail: the *)
(* sums are natural numbers here.                                          *)
(***************************************************************************)
EXTENDS UnitCounting

CONSTANTS
    Reservations,  \* reservation identities
    Services,      \* service identities
    Free,          \* a reservation that is not active
    MaxExact       \* MAX_EXACT_INTEGER, the cap of one dimension of a claim

Dimensions ==
    {"materialized_bytes", "objects", "pinned_bytes", "temporary_bytes"}

\* What ProviderResourceClaim::validate accepts.
Claim == [Dimensions -> 0..MaxExact]

\* A reservation in the map of active ones.
ActiveReservation == [claim : Claim, service : Services]

ASSUME ClaimsAssumption ==
    /\ IsFiniteSet(Reservations)
    /\ MaxExact \in Nat
    /\ Free \notin ActiveReservation

ActiveIn(active) == {r \in Reservations : active[r] # Free}

\* The active reservations of one service.
HeldBy(active, service) ==
    {r \in ActiveIn(active) : active[r].service = service}

\* How much of dimension d each of the reservations of S claims.
Amounts(active, S, d) ==
    [r \in Reservations |-> IF r \in S THEN active[r].claim[d] ELSE 0]

\* usage: the number of reservations of S and the sum of their claims.
Usage(active, S) ==
    [leases |-> Cardinality(S),
     claim |-> [d \in Dimensions |->
        Cardinality(UnitsOf(Reservations, MaxExact, Amounts(active, S, d)))]]

AddClaim(left, right) == [d \in Dimensions |-> left[d] + right[d]]

ClaimFits(claim, maximum) == \A d \in Dimensions : claim[d] <= maximum[d]

\* Mutation of Available: the lease count is off by one.
AvailableOneMore(usage, claim, capacity) ==
    /\ usage.leases <= capacity.leases
    /\ ClaimFits(AddClaim(usage.claim, claim), capacity.claim)

\* require_available: one more lease with this claim is within a capacity.
Available(usage, claim, capacity) ==
    /\ usage.leases < capacity.leases
    /\ ClaimFits(AddClaim(usage.claim, claim), capacity.claim)

\* The usage itself is within a capacity.
Within(usage, capacity) ==
    /\ usage.leases <= capacity.leases
    /\ ClaimFits(usage.claim, capacity.claim)
================================================================================

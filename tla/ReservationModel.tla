---------------------------- MODULE ReservationModel ----------------------------
(***************************************************************************)
(* ProviderReservationModel of crates/reproit-core/src/resource_model.rs:  *)
(* services reserve resources of one provider within an environment        *)
(* capacity that all share and within a share of their own.                *)
(***************************************************************************)
EXTENDS ProviderClaims

CONSTANTS
    Claims,       \* the claims that services make
    Environment,  \* maximum_active_leases and maximum_resource_claim
    Shares        \* service_shares, a capacity for each known service

\* validate_capacity, with the cap of 1024 leases.
Capacity == [leases : 1..1024, claim : Claim]

\* ProviderCapacity::validate: there is a share, and none is larger than the
\* environment.  Together the shares may well be larger.
ValidCapacity ==
    /\ DOMAIN Shares # {}
    /\ Environment \in Capacity
    /\ \A s \in DOMAIN Shares :
         /\ Shares[s] \in Capacity
         /\ Shares[s].leases <= Environment.leases
         /\ ClaimFits(Shares[s].claim, Environment.claim)

ASSUME CapacityAssumption ==
    /\ Claims \subseteq Claim
    /\ DOMAIN Shares \subseteq Services
    /\ ValidCapacity

VARIABLE active  \* the reservation of each identity, Free if there is none

Init == active = [r \in Reservations |-> Free]

\* Mutation of Admits: a service without a share has the environment's.
AdmitsAnyService(S, service, claim) ==
    Available(Usage(active, S), claim, Environment)

\* The checks of a new reservation, in the state with the reservations of S.
Admits(S, service, claim) ==
    /\ service \in DOMAIN Shares
    /\ Available(Usage(active, S), claim, Environment)
    /\ Available(Usage(active, S \cap HeldBy(active, service)), claim,
                 Shares[service])

\* Mutation of Reserve: the share of the service is not looked at.
ReserveIgnoringShare(r, service, claim) ==
    /\ active[r] = Free
    /\ service \in DOMAIN Shares
    /\ Available(Usage(active, ActiveIn(active)), claim, Environment)
    /\ active' = [active EXCEPT ![r] = [claim |-> claim, service |-> service]]

\* reserve.  An identity that is active answers AlreadyReserved or an error
\* and changes nothing, and so does a reservation that is not admitted.
Reserve(r, service, claim) ==
    /\ active[r] = Free
    /\ Admits(ActiveIn(active), service, claim)
    /\ active' = [active EXCEPT ![r] = [claim |-> claim, service |-> service]]

\* release; the service must be the one that reserved.
Release(r, service) ==
    /\ active[r] # Free /\ active[r].service = service
    /\ active' = [active EXCEPT ![r] = Free]

\* new: the owner of a model starts again with an empty one.
New == active' = [r \in Reservations |-> Free]

Next ==
    \/ New
    \/ \E r \in Reservations, service \in Services :
         \/ \E claim \in Claims : Reserve(r, service, claim)
         \/ Release(r, service)

Spec == Init /\ [][Next]_active

--------------------------------------------------------------------------------
(***************************************************************************)
(* Properties.                                                             *)
(***************************************************************************)

\* Every active reservation is a claim of a service that has a share.
TypeOK ==
    /\ active \in [Reservations -> ActiveReservation \cup {Free}]
    /\ \A r \in ActiveIn(active) : active[r].service \in DOMAIN Shares

\* After any sequence of reserve and release the environment and each service
\* are within their capacity in every dimension, also when the shares add up
\* to more than the environment has.
CapacityRespected ==
    /\ Within(Usage(active, ActiveIn(active)), Environment)
    /\ \A s \in DOMAIN Shares :
         Within(Usage(active, HeldBy(active, s)), Shares[s])

\* Whatever reservations are active, they can be made again from nothing in
\* any order.  reserve_claim of the file checkpoint provider depends on it:
\* it rebuilds a model from its leases at every pin, and a lease that could
\* not be reserved again would refuse the pin of another one.
RebuildAdmits ==
    \A r \in ActiveIn(active) : \A S \in SUBSET (ActiveIn(active) \ {r}) :
        Admits(S, active[r].service, active[r].claim)
================================================================================

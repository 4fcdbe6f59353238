------------------------------ MODULE QuotaLedger ------------------------------
(***************************************************************************)
(* What a quota promises its users, with no counters in it: holders are    *)
(* granted a number of units each, at most MaxHolders of them at a time    *)
(* and at most MaxUnits units between them.  A grant is whole, it is given *)
(* to a holder that has none, and it ends whole.                           *)
(***************************************************************************)
EXTENDS UnitCounting

CONSTANTS
    Holders,     \* who may hold a grant
    MaxHolders,  \* how many may hold one at the same time
    MaxUnits,    \* how many units all grants may add up to
    MaxGrant     \* the largest single grant

VARIABLE granted \* the units each holder has; 0 is no grant

\* The holders that have a grant in g.
Holding(g) == HoldersOf(Holders, g)

\* The units handed out in g; their number is the total.
Units(g) == UnitsOf(Holders, MaxGrant, g)

LedgerInit == granted = [h \in Holders |-> 0]

Grant(h, n) ==
    /\ granted[h] = 0
    /\ Cardinality(Holding(granted)) < MaxHolders
    /\ Cardinality(Units(granted)) + n <= MaxUnits
    /\ granted' = [granted EXCEPT ![h] = n]

Revoke(h) ==
    /\ granted[h] > 0
    /\ granted' = [granted EXCEPT ![h] = 0]

LedgerNext ==
    \E h \in Holders : Revoke(h) \/ \E n \in 1..MaxGrant : Grant(h, n)

LedgerSpec == LedgerInit /\ [][LedgerNext]_granted
================================================================================

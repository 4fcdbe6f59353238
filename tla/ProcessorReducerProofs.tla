------------------------- MODULE ProcessorReducerProofs -------------------------
(***************************************************************************)
(* Proofs about ProcessorReducer, for any features, states, policy and     *)
(* usages.                                                                 *)
(***************************************************************************)
EXTENDS ProcessorReducer, TLAPS

--------------------------------------------------------------------------------
(* The limits *)

Names == {"cpu", "elapsed", "output"}

LEMMA ResourceNames ==
    /\ ToSet(Resources) = Names
    /\ DOMAIN Resources = 1..3
    /\ Resources[1] = "cpu" /\ Resources[2] = "elapsed" /\ Resources[3] = "output"
BY DEF ToSet, Resources, Names

LimitReasons == {"cpu-limit", "elapsed-limit", "output-limit"}

\* There is a reason exactly if a resource is in the set.
LEMMA FirstReasons ==
    ASSUME NEW S
    PROVE  /\ FirstReason(S) \in LimitReasons \cup {NoReason}
           /\ FirstReason(S) = NoReason <=> \A x \in ToSet(Resources) : x \notin S
<1> DEFINE hit == {i \in DOMAIN Resources : Resources[i] \in S}
<1>1. hit \subseteq 1..3 /\ (hit = {} <=> \A x \in ToSet(Resources) : x \notin S)
  BY ResourceNames DEF Names
<1>2. FirstReason(S) = IF hit = {} THEN NoReason ELSE LimitReason[Resources[Min(hit)]]
  BY DEF FirstReason
<1> HIDE DEF hit
<1>3. ASSUME hit # {} PROVE Min(hit) \in 1..3
  <2>1. \E x \in hit : \A y \in hit : x <= y
    <3>1. CASE 1 \in hit
      BY <1>1, <3>1
    <3>2. CASE 1 \notin hit /\ 2 \in hit
      BY <1>1, <3>2
    <3>3. CASE 1 \notin hit /\ 2 \notin hit
      <4>1. \A x \in hit : x = 3
        BY <1>1, <3>3
      <4> QED BY <1>3, <4>1
    <3> QED BY <3>1, <3>2, <3>3
  <2>2. Min(hit) = CHOOSE x \in hit : \A y \in hit : x <= y
    BY DEF Min
  <2>3. Min(hit) \in hit
    BY <2>1, <2>2
  <2> QED BY <1>1, <2>3
<1>4. \A i \in 1..3 : LimitReason[Resources[i]] \in LimitReasons
  BY ResourceNames DEF LimitReason, LimitReasons
<1>5. NoReason \notin LimitReasons
  BY DEF NoReason, LimitReasons
<1> QED BY <1>1, <1>2, <1>3, <1>4, <1>5

LEMMA LimitNames == {LimitReason[x] : x \in ToSet(Resources)} = LimitReasons
<1>1. /\ LimitReason["cpu"] = "cpu-limit" /\ LimitReason["elapsed"] = "elapsed-limit"
      /\ LimitReason["output"] = "output-limit"
  BY DEF LimitReason
<1>2. ToSet(Resources) = {"cpu", "elapsed", "output"}
  BY ResourceNames DEF Names
<1> QED BY <1>1, <1>2 DEF LimitReasons

LEMMA MinOfTwo ==
    ASSUME NEW a \in Int, NEW b \in Int
    PROVE  Min({a, b}) \in {a, b} /\ Min({a, b}) <= a /\ Min({a, b}) <= b
<1>1. \E x \in {a, b} : \A y \in {a, b} : x <= y
  OBVIOUS
<1>2. Min({a, b}) = CHOOSE x \in {a, b} : \A y \in {a, b} : x <= y
  BY DEF Min
<1> QED BY <1>1, <1>2

TypeInv ==
    /\ sealed \subseteq Constraints /\ reduced \subseteq sealed /\ pending \subseteq sealed
    /\ trials \in Seq([constraint : Constraints, candidate : SUBSET Constraints,
                       outcome : {"target-reproduced", "target-absent"},
                       decision : {"removed", "retained"}])
    /\ used \in Amounts

\* The loop goes on only as long as each total is below that of the policy.
BudgetInv ==
    /\ status = "running" => \A x \in ToSet(Resources) : used[x] < Policy.total[x]
    /\ status = "running" => reason \in {"complete", "uncontrollable"}
    /\ OverrunRemovesNothing

PolicyAmounts == \A x \in ToSet(Resources) : Policy.total[x] \in Nat \ {0} /\ Policy.trial[x] \in Nat \ {0}

LEMMA PolicyPositive == PolicyAmounts
BY ReducerAssumption DEF PolicyAmounts, ValidPolicy, Amounts

\* A trial's limits are within what is left of the totals.
LEMMA LimitsLeft ==
    ASSUME TypeInv, BudgetInv, status = "running", NEW x \in ToSet(Resources)
    PROVE  /\ TrialLimits[x] \in Nat \ {0}
           /\ TrialLimits[x] <= Policy.total[x] - used[x]
<1>1. used[x] \in Nat /\ Policy.total[x] \in Nat /\ Policy.trial[x] \in Nat \ {0}
      /\ used[x] < Policy.total[x]
  BY PolicyPositive DEF PolicyAmounts, TypeInv, BudgetInv, Amounts
<1>2. TrialLimits[x] = Min({Policy.total[x] - used[x], Policy.trial[x]})
  BY DEF TrialLimits
<1> DEFINE a == Policy.total[x] - used[x]
           b == Policy.trial[x]
<1>3. a \in Int /\ b \in Int /\ a > 0 /\ b > 0
  BY <1>1
<1> HIDE DEF a, b
<1>4. Min({a, b}) \in {a, b} /\ Min({a, b}) <= a
  BY <1>3, MinOfTwo
<1>5. Min({a, b}) \in Nat \ {0} /\ Min({a, b}) <= a
  BY <1>3, <1>4
<1> QED BY <1>2, <1>5 DEF a, b

LEMMA BudgetImplies == TypeInv /\ BudgetInv => TrialsHaveLimits /\ OverrunRemovesNothing
<1>1. ASSUME TypeInv, BudgetInv, status = "running", NEW x \in ToSet(Resources)
      PROVE  TrialLimits[x] > 0
  BY <1>1, LimitsLeft
<1> QED BY <1>1 DEF TrialsHaveLimits, BudgetInv

LEMMA Candidates == ASSUME TypeInv, NEW c PROVE Without(reduced, c) \subseteq reduced
BY DEF Without

\* What a trial leaves.
LEMMA TrialLeaves ==
    ASSUME TypeInv, NEW c \in Constraints, NEW outcome \in {"target-reproduced", "target-absent"},
           NEW usage \in Usages, NEW ending \in {"ended", "timeout", "unstable"},
           Trial(c, outcome, usage, ending)
    PROVE  LET n == Len(trials) + 1
               removed == Removes(outcome, usage, ending)
           IN
           /\ Len(trials) \in Nat /\ DOMAIN trials = 1..Len(trials)
           /\ Len(trials') = n /\ DOMAIN trials' = 1..n
           /\ \A i \in 1..Len(trials) : trials'[i] = trials[i]
           /\ trials'[n].constraint = c /\ trials'[n].candidate = Without(reduced, c)
           /\ trials'[n].outcome = outcome
           /\ trials'[n].decision = IF removed THEN "removed" ELSE "retained"
           /\ reduced' = IF removed THEN Without(reduced, c) ELSE reduced
           /\ sealed' = sealed /\ pending' = pending \ {c}
           /\ \A x \in ToSet(Resources) : used'[x] = used[x] + usage[x]
           /\ TypeInv'
<1> DEFINE removed == Removes(outcome, usage, ending)
           record == [constraint |-> c, candidate |-> Without(reduced, c), outcome |-> outcome,
                      decision |-> IF removed THEN "removed" ELSE "retained"]
           records == [constraint : Constraints, candidate : SUBSET Constraints,
                       outcome : {"target-reproduced", "target-absent"},
                       decision : {"removed", "retained"}]
           total == [x \in ToSet(Resources) |-> used[x] + usage[x]]
<1>1. /\ trials' = Append(trials, record) /\ used' = total
      /\ reduced' = IF removed THEN Without(reduced, c) ELSE reduced
      /\ sealed' = sealed /\ pending' = pending \ {c}
  BY DEF Trial
<1>2. /\ record.constraint = c /\ record.candidate = Without(reduced, c)
      /\ record.outcome = outcome
      /\ record.decision = IF removed THEN "removed" ELSE "retained"
  OBVIOUS
<1>3. record \in records
  <2> DEFINE decision == IF removed THEN "removed" ELSE "retained"
  <2>1. Without(reduced, c) \in SUBSET Constraints
    BY Candidates DEF TypeInv
  <2>2. decision \in {"removed", "retained"}
    OBVIOUS
  <2> HIDE DEF decision, removed
  <2> SUFFICES [constraint |-> c, candidate |-> Without(reduced, c), outcome |-> outcome,
                decision |-> decision] \in records
    BY DEF decision
  <2> QED BY <2>1, <2>2
<1>4. trials \in Seq(records)
  BY DEF TypeInv
<1> HIDE DEF record, records, removed
<1>5. /\ trials' \in Seq(records) /\ Len(trials) \in Nat /\ DOMAIN trials = 1..Len(trials)
      /\ Len(trials') = Len(trials) + 1 /\ DOMAIN trials' = 1..(Len(trials) + 1)
      /\ \A i \in 1..Len(trials) : trials'[i] = trials[i]
      /\ trials'[Len(trials) + 1] = record
  BY <1>1, <1>3, <1>4
<1>6. total \in Amounts /\ \A x \in ToSet(Resources) : total[x] = used[x] + usage[x]
  <2>1. used \in [ToSet(Resources) -> Nat] /\ usage \in [ToSet(Resources) -> Nat]
    BY ReducerAssumption DEF TypeInv, Amounts
  <2> QED BY <2>1 DEF Amounts
<1> HIDE DEF total
<1>7. reduced' \subseteq sealed
  BY <1>1, Candidates DEF TypeInv
<1>8. TypeInv'
  BY <1>1, <1>5, <1>6, <1>7 DEF TypeInv, records
<1> QED BY <1>1, <1>2, <1>5, <1>6, <1>8 DEF removed

LEMMA TypeStep == ASSUME TypeInv, [Next]_vars PROVE TypeInv'
<1>1. ASSUME NEW c \in Constraints, Skip(c) \/ StopAtTrialLimit(c) \/ Uncontrollable(c) \/ TrialError(c)
      PROVE  TypeInv'
  BY <1>1 DEF Skip, StopAtTrialLimit, Uncontrollable, TrialError, TypeInv
<1>2. CASE AllLookedAt \/ Bind \/ UNCHANGED vars
  BY <1>2 DEF AllLookedAt, Bind, vars, TypeInv
<1> QED BY <1>1, <1>2, TrialLeaves DEF Next

\* A trial that ends the loop is over a limit, or over a total that it reaches.
LEMMA TrialBudget ==
    ASSUME TypeInv, BudgetInv, NEW c \in Constraints,
           NEW outcome \in {"target-reproduced", "target-absent"},
           NEW usage \in Usages, NEW ending \in {"ended", "timeout", "unstable"},
           Trial(c, outcome, usage, ending)
    PROVE  BudgetInv'
<1> DEFINE stop == ResultReason(usage, ending)
           total == [x \in ToSet(Resources) |-> used[x] + usage[x]]
           aggregate == AggregateReason(total)
<1>1. status = "running"
  BY DEF Trial, Testable, Looking
<1>2. \A x \in ToSet(Resources) : /\ used[x] \in Nat /\ usage[x] \in Nat
                                  /\ Policy.total[x] \in Nat /\ used'[x] = used[x] + usage[x]
                                  /\ total[x] = used[x] + usage[x]
                                  /\ TrialLimits[x] \in Nat
                                  /\ TrialLimits[x] <= Policy.total[x] - used[x]
  BY <1>1, TrialLeaves, LimitsLeft, PolicyPositive, ReducerAssumption
     DEF TypeInv, Amounts, PolicyAmounts
<1>3. /\ stop \in LimitReasons \cup {NoReason, "timeout", "unstable"}
      /\ stop = NoReason => \A x \in ToSet(Resources) : ~(usage[x] > TrialLimits[x])
  <2>1. CASE ending = "ended"
    BY <2>1, FirstReasons DEF ResultReason
  <2>2. CASE ending # "ended"
    BY <2>2 DEF ResultReason, NoReason
  <2> QED BY <2>1, <2>2
<1> DEFINE reached == {x \in ToSet(Resources) : total[x] >= Policy.total[x]}
<1>4. /\ aggregate \in LimitReasons \cup {NoReason}
      /\ aggregate = NoReason <=> \A x \in ToSet(Resources) : ~(total[x] >= Policy.total[x])
  <2>1. aggregate = FirstReason(reached)
    BY DEF AggregateReason
  <2>2. \A x \in ToSet(Resources) : x \in reached <=> total[x] >= Policy.total[x]
    OBVIOUS
  <2> HIDE DEF reached, aggregate, total
  <2> QED BY <2>1, <2>2, FirstReasons
<1>5. \/ stop = NoReason /\ aggregate = NoReason /\ UNCHANGED <<reason, status>>
      \/ /\ ~(stop = NoReason /\ aggregate = NoReason)
         /\ reason' = (IF stop # NoReason THEN stop ELSE aggregate) /\ status' = "reduced"
  BY DEF Trial
<1> HIDE DEF stop, aggregate, total, reached
<1>6. LimitReasons \cap {"complete", "uncontrollable", "trial-limit", "timeout", "unstable"} = {}
      /\ NoReason = "none"
  BY DEF LimitReasons, NoReason
<1>7. status' = "running" => \A x \in ToSet(Resources) : used'[x] < Policy.total[x]
  BY <1>2, <1>4, <1>5
<1>8. status' = "running" => reason' \in {"complete", "uncontrollable"}
  BY <1>1, <1>5 DEF BudgetInv
<1>9. OverrunRemovesNothing'
  <2> SUFFICES ASSUME \/ \E x \in ToSet(Resources) : used'[x] > Policy.total[x]
                      \/ reason' \in {"timeout", "unstable"}
                      \/ /\ reason' \in LimitReasons
                         /\ \A x \in ToSet(Resources) : used'[x] < Policy.total[x]
               PROVE  /\ status' # "running"
                      /\ reason' \notin {"complete", "uncontrollable", "trial-limit"}
                      /\ trials'[Len(trials')].decision = "retained"
    BY LimitNames DEF OverrunRemovesNothing
  <2>1. stop # NoReason
    <3>1. CASE \E x \in ToSet(Resources) : used'[x] > Policy.total[x]
      BY <3>1, <1>2, <1>3
    <3>2. CASE reason' \in {"timeout", "unstable"}
      <4>1. reason \notin {"timeout", "unstable"}
        BY <1>1 DEF BudgetInv
      <4>2. aggregate \notin {"timeout", "unstable"}
        BY <1>4, <1>6
      <4> QED BY <3>2, <4>1, <4>2, <1>5
    <3>3. CASE /\ reason' \in LimitReasons
               /\ \A x \in ToSet(Resources) : used'[x] < Policy.total[x]
      <4>1. reason \notin LimitReasons
        BY <1>1, <1>6 DEF BudgetInv
      <4>2. aggregate = NoReason
        BY <3>3, <1>2, <1>4
      <4> QED BY <3>3, <4>1, <4>2, <1>5
    <3> QED BY <3>1, <3>2, <3>3
  <2>2. stop \notin {"complete", "uncontrollable", "trial-limit"}
    BY <1>3, <1>6
  <2>3. status' = "reduced" /\ reason' = stop
    BY <1>5, <2>1
  <2>4. ~Removes(outcome, usage, ending)
    BY <2>1 DEF Removes, stop
  <2>5. trials'[Len(trials')].decision = "retained"
    BY <2>4, TrialLeaves
  <2> QED BY <2>2, <2>3, <2>5
<1> QED BY <1>7, <1>8, <1>9 DEF BudgetInv

LEMMA BudgetStep == ASSUME TypeInv, BudgetInv, [Next]_vars PROVE BudgetInv'
<1>1. ASSUME status = "running"
      PROVE  /\ \A x \in ToSet(Resources) : ~(used[x] > Policy.total[x])
             /\ {"complete", "uncontrollable", "trial-limit", reason} \cap
                  ({"timeout", "unstable"} \cup {LimitReason[x] : x \in ToSet(Resources)}) = {}
  <2>1. \A x \in ToSet(Resources) : ~(used[x] > Policy.total[x])
    BY <1>1, PolicyPositive DEF TypeInv, BudgetInv, Amounts, PolicyAmounts
  <2>2. reason \in {"complete", "uncontrollable"}
    BY <1>1 DEF BudgetInv
  <2> QED BY <2>1, <2>2, LimitNames DEF LimitReasons
<1>2. ASSUME NEW c \in Constraints, Skip(c) \/ StopAtTrialLimit(c) \/ Uncontrollable(c) \/ TrialError(c)
      PROVE  BudgetInv'
  BY <1>1, <1>2 DEF Skip, StopAtTrialLimit, Uncontrollable, TrialError, Testable, Looking,
     BudgetInv, OverrunRemovesNothing
<1>3. CASE AllLookedAt
  BY <1>1, <1>3 DEF AllLookedAt, BudgetInv, OverrunRemovesNothing
<1>4. CASE Bind \/ UNCHANGED vars
  BY <1>4 DEF Bind, vars, BudgetInv, OverrunRemovesNothing
<1> QED BY <1>2, <1>3, <1>4, TrialBudget DEF Next

--------------------------------------------------------------------------------
(* The receipt *)

\* A constraint that a trial removed; one that went with it.
RemovedBy(i, c) == trials[i].decision = "removed" /\ trials[i].constraint = c

\* Each constraint is tested once, features before states; what was removed
\* and what went with it is gone for good, and what was retained stays.
ReceiptInv ==
    /\ Len(trials) <= Policy.maximum_trials
    /\ \A i \in 1..Len(trials) :
         /\ trials[i].constraint \in sealed \ pending
         /\ trials[i].decision = "removed" => trials[i].outcome = "target-reproduced"
         /\ trials[i].constraint \in reduced <=> trials[i].decision = "retained"
         /\ trials[i].constraint \notin Features => pending \cap Features = {}
    /\ \A i, j \in 1..Len(trials) : trials[i].constraint = trials[j].constraint => i = j
    /\ \A c \in sealed \ reduced : \E i \in 1..Len(trials) :
         \/ RemovedBy(i, c)
         \/ trials[i].decision = "removed" /\ <<c, trials[i].constraint>> \in StateFeature
    /\ status # "rejected"

LEMMA NotFeatureLast ==
    ASSUME TypeInv, NEW c \in Constraints \ Features, IsNext(c)
    PROVE  pending \cap Features = {}
BY ReducerAssumption DEF IsNext, Before, Constraints, TypeInv

LEMMA TrialReceipt ==
    ASSUME TypeInv, ReceiptInv, NEW c \in Constraints,
           NEW outcome \in {"target-reproduced", "target-absent"},
           NEW usage \in Usages, NEW ending \in {"ended", "timeout", "unstable"},
           Trial(c, outcome, usage, ending)
    PROVE  ReceiptInv'
<1> DEFINE n == Len(trials) + 1
           removed == Removes(outcome, usage, ending)
           gone == {c} \cup {s \in States : <<s, c>> \in StateFeature}
<1>1. /\ c \in pending /\ c \in reduced /\ IsNext(c) /\ Len(trials) < Policy.maximum_trials
      /\ status = "running"
  BY DEF Trial, Testable, Looking, IsNext
<1>2. /\ Len(trials) \in Nat /\ Len(trials') = n
      /\ \A i \in 1..Len(trials) : trials'[i] = trials[i]
      /\ trials'[n].constraint = c /\ trials'[n].outcome = outcome
      /\ trials'[n].decision = IF removed THEN "removed" ELSE "retained"
      /\ reduced' = IF removed THEN reduced \ gone ELSE reduced
      /\ sealed' = sealed /\ pending' = pending \ {c}
  BY TrialLeaves DEF Without
<1>3. removed => outcome = "target-reproduced"
  BY DEF Removes
<1>4. Policy.maximum_trials \in Nat
  BY ReducerAssumption DEF ValidPolicy
<1>5. c \in sealed
  BY <1>1 DEF TypeInv
<1>6. status' # "rejected"
  BY <1>1 DEF Trial
<1>7. \A i \in 1..Len(trials) : trials[i].constraint # c
  BY <1>1 DEF ReceiptInv
<1>8. \A i \in 1..Len(trials) : trials[i].constraint \notin gone
  <2> SUFFICES ASSUME NEW i \in 1..Len(trials), NEW s \in States, <<s, c>> \in StateFeature,
                      trials[i].constraint = s
               PROVE  FALSE
    BY <1>7
  <2>1. s \notin Features
    BY ReducerAssumption
  <2>2. pending \cap Features = {}
    BY <2>1 DEF ReceiptInv
  <2>3. c \notin States /\ c # Identity
    BY NamesAssumption DEF StateFeature, Identity
  <2>4. c \in Features
    BY <2>3 DEF Constraints
  <2> QED BY <1>1, <2>2, <2>4
<1>9. c \notin Features => pending' \cap Features = {}
  BY <1>1, <1>2, NotFeatureLast
<1> HIDE DEF removed
<1>10. c \in gone
  OBVIOUS
<1>11. \A s \in gone : s = c \/ <<s, c>> \in StateFeature
  OBVIOUS
<1> HIDE DEF gone
<1>12. \A i \in 1..n : i \in 1..Len(trials) \/ i = n
  BY <1>2
<1>13. ASSUME NEW i \in 1..n
       PROVE  /\ trials'[i].constraint \in sealed \ pending'
              /\ trials'[i].decision = "removed" => trials'[i].outcome = "target-reproduced"
              /\ trials'[i].constraint \in reduced' <=> trials'[i].decision = "retained"
              /\ trials'[i].constraint \notin Features => pending' \cap Features = {}
  <2>1. CASE i = n
    BY <1>1, <1>2, <1>3, <1>5, <1>9, <1>10, <2>1
  <2>2. CASE i \in 1..Len(trials)
    <3>1. trials'[i] = trials[i] /\ trials[i].constraint \notin gone
      BY <1>2, <1>8, <2>2
    <3>2. trials[i].constraint \in reduced' <=> trials[i].constraint \in reduced
      BY <1>2, <3>1
    <3> QED BY <1>2, <2>2, <3>1, <3>2 DEF ReceiptInv
  <2> QED BY <1>12, <2>1, <2>2
<1>14. \A i, j \in 1..n : trials'[i].constraint = trials'[j].constraint => i = j
  BY <1>2, <1>7, <1>12 DEF ReceiptInv
<1>15. ASSUME NEW d \in sealed \ reduced'
       PROVE  \E i \in 1..n :
                \/ RemovedBy(i, d)'
                \/ trials'[i].decision = "removed" /\ <<d, trials'[i].constraint>> \in StateFeature
  <2>1. CASE d \notin reduced
    <3>1. PICK i \in 1..Len(trials) :
            \/ RemovedBy(i, d)
            \/ trials[i].decision = "removed" /\ <<d, trials[i].constraint>> \in StateFeature
      BY <2>1 DEF ReceiptInv
    <3>2. i \in 1..n /\ trials'[i] = trials[i]
      BY <1>2
    <3> QED BY <3>1, <3>2 DEF RemovedBy
  <2>2. CASE d \in reduced
    <3>1. d \in gone /\ trials'[n].decision = "removed"
      BY <1>2, <1>15, <2>2
    <3>2. n \in 1..n
      BY <1>2
    <3> QED BY <1>2, <1>11, <3>1, <3>2 DEF RemovedBy
  <2> QED BY <2>1, <2>2
<1>16. n <= Policy.maximum_trials
  BY <1>1, <1>2, <1>4
<1> QED BY <1>2, <1>6, <1>13, <1>14, <1>15, <1>16 DEF ReceiptInv

\* The check of the core accepts the receipt.
LEMMA ReceiptBinds == TypeInv /\ ReceiptInv => BindingValid
<1> SUFFICES ASSUME TypeInv, ReceiptInv PROVE BindingValid
  OBVIOUS
<1>1. Len(trials) \in Nat
  BY DEF TypeInv
<1>2. Len(trials) <= 16
  BY <1>1, ReducerAssumption DEF ReceiptInv, ValidPolicy
<1>3. \A i \in 1..Len(trials) : \A c : RemovedBy(i, c) => c \in RemovedConstraints
  BY DEF RemovedBy, RemovedConstraints
<1>4. \A i \in 1..Len(trials) :
        trials[i].decision = "removed" => trials[i].constraint \in RemovedConstraints
  BY <1>3 DEF RemovedBy
<1>5. \A c \in sealed \ reduced :
        \/ c \in RemovedConstraints
        \/ c = "xcr0.avx" /\ "AVX" \in RemovedConstraints
        \/ c = "xcr0.avx512" /\ "AVX512F" \in RemovedConstraints
  BY <1>3, <1>4 DEF ReceiptInv, StateFeature
<1>6. ReceiptValid
  BY <1>2 DEF ReceiptInv, ReceiptValid
<1> QED BY <1>5, <1>6 DEF BindingValid, ReceiptInv, TypeInv

LEMMA ReceiptStep == ASSUME TypeInv, ReceiptInv, [Next]_vars PROVE ReceiptInv'
<1>1. ASSUME NEW c \in Constraints, Skip(c) \/ Uncontrollable(c)
      PROVE  ReceiptInv'
  <2>1. /\ UNCHANGED <<sealed, reduced, trials, status>>
        /\ pending' \subseteq pending
    BY <1>1 DEF Skip, Uncontrollable
  <2> QED BY <2>1 DEF ReceiptInv, RemovedBy
<1>2. ASSUME NEW c \in Constraints, StopAtTrialLimit(c) \/ TrialError(c)
      PROVE  ReceiptInv'
  BY <1>2 DEF StopAtTrialLimit, TrialError, ReceiptInv, RemovedBy
<1>3. CASE AllLookedAt \/ UNCHANGED vars
  BY <1>3 DEF AllLookedAt, vars, ReceiptInv, RemovedBy
<1>4. CASE Bind
  BY <1>4, ReceiptBinds DEF Bind, ReceiptInv, RemovedBy
<1> QED BY <1>1, <1>2, <1>3, <1>4, TrialReceipt DEF Next

--------------------------------------------------------------------------------
(* What is left, and what the receipt says of it *)

LEMMA TrialReproduced ==
    ASSUME TypeInv, ReducedWasReproduced, NEW c \in Constraints,
           NEW outcome \in {"target-reproduced", "target-absent"},
           NEW usage \in Usages, NEW ending \in {"ended", "timeout", "unstable"},
           Trial(c, outcome, usage, ending)
    PROVE  ReducedWasReproduced'
<1> DEFINE n == Len(trials) + 1
           removed == Removes(outcome, usage, ending)
           before == {i \in DOMAIN trials : trials[i].decision = "removed"}
           after == {i \in DOMAIN trials' : trials'[i].decision = "removed"}
<1>1. /\ Len(trials) \in Nat /\ DOMAIN trials = 1..Len(trials) /\ DOMAIN trials' = 1..n
      /\ \A i \in 1..Len(trials) : trials'[i] = trials[i]
      /\ trials'[n].candidate = Without(reduced, c) /\ trials'[n].outcome = outcome
      /\ trials'[n].decision = IF removed THEN "removed" ELSE "retained"
      /\ reduced' = IF removed THEN Without(reduced, c) ELSE reduced
      /\ sealed' = sealed
  BY TrialLeaves
<1>2. removed => outcome = "target-reproduced"
  BY DEF Removes
<1>3. /\ before = {} => reduced = sealed
      /\ \A last \in before : (\A i \in before : i <= last) =>
           reduced = trials[last].candidate /\ trials[last].outcome = "target-reproduced"
  BY DEF ReducedWasReproduced
<1> HIDE DEF removed
<1>4. after = before \cup (IF removed THEN {n} ELSE {})
  BY <1>1
<1>5. n \in Nat /\ \A i \in before : i \in 1..Len(trials) /\ i < n /\ ~(n <= i)
  BY <1>1
<1> HIDE DEF before, after, n
<1> SUFFICES /\ after = {} => reduced' = sealed'
             /\ \A last \in after : (\A i \in after : i <= last) =>
                  /\ reduced' = trials'[last].candidate
                  /\ trials'[last].outcome = "target-reproduced"
  BY DEF ReducedWasReproduced, after
<1>6. CASE removed
  <2>1. n \in after
    BY <1>4, <1>6
  <2>2. \A last \in after : (\A i \in after : i <= last) => last = n
    BY <1>4, <1>5, <1>6, <2>1
  <2> QED BY <1>1, <1>2, <1>6, <2>1, <2>2
<1>7. CASE ~removed
  BY <1>1, <1>3, <1>4, <1>5, <1>7
<1> QED BY <1>6, <1>7

LEMMA ReproducedStep == ASSUME TypeInv, ReducedWasReproduced, [Next]_vars PROVE ReducedWasReproduced'
<1>1. ASSUME NEW c \in Constraints,
             Skip(c) \/ StopAtTrialLimit(c) \/ Uncontrollable(c) \/ TrialError(c)
      PROVE  UNCHANGED <<sealed, reduced, trials>>
  BY <1>1 DEF Skip, StopAtTrialLimit, Uncontrollable, TrialError
<1>2. CASE AllLookedAt \/ Bind \/ UNCHANGED vars
  BY <1>2 DEF AllLookedAt, Bind, vars, ReducedWasReproduced
<1>3. CASE UNCHANGED <<sealed, reduced, trials>>
  BY <1>3 DEF ReducedWasReproduced
<1> QED BY <1>1, <1>2, <1>3, TrialReproduced DEF Next

\* As long as the receipt would say complete, what is required and was not
\* tested is still to be looked at.
ReasonInv ==
    /\ reason = "complete" /\ status # "failed" =>
         \A c \in reduced : c \in pending \/ \E i \in 1..Len(trials) : trials[i].constraint = c
    /\ reason = "complete" /\ status \in {"reduced", "bound"} => pending = {}
    /\ reason = "trial-limit" => Len(trials) = Policy.maximum_trials /\ status # "running"

LEMMA ReasonImplies == ReasonInv => ReasonHonest
BY DEF ReasonInv, ReasonHonest

LEMMA TrialReason ==
    ASSUME TypeInv, BudgetInv, ReasonInv, NEW c \in Constraints,
           NEW outcome \in {"target-reproduced", "target-absent"},
           NEW usage \in Usages, NEW ending \in {"ended", "timeout", "unstable"},
           Trial(c, outcome, usage, ending)
    PROVE  ReasonInv'
<1> DEFINE n == Len(trials) + 1
           stop == ResultReason(usage, ending)
           aggregate == AggregateReason([x \in ToSet(Resources) |-> used[x] + usage[x]])
<1>1. status = "running" /\ reason \in {"complete", "uncontrollable"}
  BY DEF Trial, Testable, Looking, BudgetInv
<1>2. /\ Len(trials) \in Nat /\ Len(trials') = n
      /\ \A i \in 1..Len(trials) : trials'[i] = trials[i]
      /\ trials'[n].constraint = c /\ reduced' \subseteq reduced /\ pending' = pending \ {c}
  BY TrialLeaves, Candidates
<1>3. stop \in LimitReasons \cup {NoReason, "timeout", "unstable"}
      /\ aggregate \in LimitReasons \cup {NoReason}
  BY FirstReasons DEF ResultReason, AggregateReason
<1>4. \/ UNCHANGED <<reason, status>>
      \/ /\ ~(stop = NoReason /\ aggregate = NoReason)
         /\ reason' = (IF stop # NoReason THEN stop ELSE aggregate) /\ status' = "reduced"
  BY DEF Trial
<1> HIDE DEF stop, aggregate
<1>5. LimitReasons \cap {"complete", "trial-limit"} = {} /\ NoReason = "none"
  BY DEF LimitReasons, NoReason
<1>6. CASE UNCHANGED <<reason, status>>
  <2>1. ASSUME reason = "complete", NEW d \in reduced'
        PROVE  d \in pending' \/ \E i \in 1..n : trials'[i].constraint = d
    <3>1. CASE d = c
      BY <1>2, <3>1
    <3>2. CASE d \in pending /\ d # c
      BY <1>2, <3>2
    <3>3. CASE \E i \in 1..Len(trials) : trials[i].constraint = d
      BY <1>2, <3>3
    <3> QED BY <1>1, <1>2, <2>1, <3>1, <3>2, <3>3 DEF ReasonInv
  <2> QED BY <1>1, <1>2, <1>6, <2>1 DEF ReasonInv
<1>7. CASE reason' \notin {"complete", "trial-limit"}
  BY <1>7 DEF ReasonInv
<1> QED BY <1>3, <1>4, <1>5, <1>6, <1>7

LEMMA ReasonStep ==
    ASSUME TypeInv, BudgetInv, ReceiptInv, ReasonInv, [Next]_vars
    PROVE  ReasonInv'
<1>1. ASSUME NEW c \in Constraints, Skip(c) PROVE ReasonInv'
  BY <1>1 DEF Skip, Looking, ReasonInv
<1>2. ASSUME NEW c \in Constraints, StopAtTrialLimit(c) PROVE ReasonInv'
  <2>1. Len(trials) = Policy.maximum_trials
    BY <1>2, ReducerAssumption DEF StopAtTrialLimit, ReceiptInv, TypeInv, ValidPolicy
  <2> QED BY <1>2, <2>1 DEF StopAtTrialLimit, ReasonInv
<1>3. ASSUME NEW c \in Constraints, Uncontrollable(c) PROVE ReasonInv'
  BY <1>3 DEF Uncontrollable, ReasonInv
<1>4. ASSUME NEW c \in Constraints, TrialError(c) PROVE ReasonInv'
  BY <1>4 DEF TrialError, Testable, Looking, ReasonInv
<1>5. CASE AllLookedAt
  BY <1>5 DEF AllLookedAt, ReasonInv
<1>6. CASE Bind
  BY <1>6 DEF Bind, ReasonInv
<1>7. CASE UNCHANGED vars
  BY <1>7 DEF vars, ReasonInv
<1> QED BY <1>1, <1>2, <1>3, <1>4, <1>5, <1>6, <1>7, TrialReason DEF Next

--------------------------------------------------------------------------------
(* Prerequisites *)

\* In the table a feature has at most one prerequisite, and chains have at most
\* two links.
LEMMA Table ==
    /\ \A f : Direct(f) \subseteq Features
    /\ \A f : \A g, h \in Direct(f) : g = h
    /\ \A f : \A g \in Direct(f) : \A h \in Direct(g) : Direct(h) = {}
<1>1. \A f, g : <<f, g>> \in Prerequisites =>
        \/ f \in {"AVX2", "AVX512F", "FMA"} /\ g = "AVX"
        \/ f \in {"AVX512BW", "AVX512DQ", "AVX512VL"} /\ g = "AVX512F"
        \/ f = "SSE4_2" /\ g = "SSE4_1"
  BY DEF Prerequisites
<1>2. \A f : \A g \in Direct(f) : g \in Features /\ <<f, g>> \in Prerequisites
  BY DEF Direct
<1>3. ASSUME NEW f, NEW g \in Direct(f), NEW h \in Direct(f) PROVE g = h
  <2>1. <<f, g>> \in Prerequisites /\ <<f, h>> \in Prerequisites
    BY <1>2
  <2>2. \/ f \in {"AVX2", "AVX512F", "FMA"} /\ g = "AVX"
        \/ f \in {"AVX512BW", "AVX512DQ", "AVX512VL"} /\ g = "AVX512F"
        \/ f = "SSE4_2" /\ g = "SSE4_1"
    BY <1>1, <2>1
  <2>3. \/ f \in {"AVX2", "AVX512F", "FMA"} /\ h = "AVX"
        \/ f \in {"AVX512BW", "AVX512DQ", "AVX512VL"} /\ h = "AVX512F"
        \/ f = "SSE4_2" /\ h = "SSE4_1"
    BY <1>1, <2>1
  <2> QED BY <2>2, <2>3
<1>4. \A f : \A g \in Direct(f) : \A h \in Direct(g) : h = "AVX"
  BY <1>1, <1>2
<1>5. Direct("AVX") = {}
  <2>1. \A g : <<"AVX", g>> \notin Prerequisites
    BY <1>1
  <2> QED BY <1>2, <2>1
<1> QED BY <1>2, <1>3, <1>4, <1>5

\* The walk of feature_requires ends.
LEMMA RequiredIs ==
    ASSUME NEW f \in Features
    PROVE  Required[f] = Direct(f) \cup UNION {Direct(g) : g \in Direct(f)}
<1> DEFINE step(r) == [x \in Features |-> Direct(x) \cup UNION {r[g] : g \in Direct(x)}]
           walk == [x \in Features |-> Direct(x) \cup UNION {Direct(g) : g \in Direct(x)}]
<1>1. walk = step(walk)
  <2> SUFFICES ASSUME NEW x \in Features
               PROVE  UNION {Direct(g) : g \in Direct(x)} = UNION {walk[g] : g \in Direct(x)}
    OBVIOUS
  <2>1. \A g \in Direct(x) : walk[g] = Direct(g)
    <3> TAKE g \in Direct(x)
    <3>1. walk[g] = Direct(g) \cup UNION {Direct(h) : h \in Direct(g)}
      BY Table
    <3>2. UNION {Direct(h) : h \in Direct(g)} = {}
      BY Table
    <3> QED BY <3>1, <3>2
  <2> HIDE DEF walk
  <2> QED BY <2>1
<1>2. Required = CHOOSE r : r = step(r)
  BY DEF Required
<1>3. Required = step(Required)
  <2> HIDE DEF step, walk
  <2> QED BY <1>1, <1>2
<1>4. \A x \in Features : Required[x] = Direct(x) \cup UNION {Required[g] : g \in Direct(x)}
  BY <1>3
<1>5. \A g \in Direct(f) : \A h \in Direct(g) : Required[h] = {}
  <2> TAKE g \in Direct(f)
  <2> TAKE h \in Direct(g)
  <2>1. Direct(h) = {} /\ h \in Features
    BY Table
  <2> QED BY <1>4, <2>1
<1>6. \A g \in Direct(f) : Required[g] = Direct(g)
  <2> TAKE g \in Direct(f)
  <2>1. g \in Features
    BY Table
  <2>2. Required[g] = Direct(g) \cup UNION {Required[h] : h \in Direct(g)}
    BY <1>4, <2>1
  <2>3. UNION {Required[h] : h \in Direct(g)} = {}
    BY <1>5
  <2> QED BY <2>2, <2>3
<1> QED BY <1>4, <1>6

LEMMA DepthIs ==
    ASSUME NEW f \in Features
    PROVE  Depth[f] \in Nat /\ \A g \in Direct(f) : Depth[f] = 1 + Depth[g]
<1> DEFINE step(r) == [x \in Features |->
                         IF Direct(x) = {} THEN 0 ELSE 1 + Max({r[g] : g \in Direct(x)})]
           level(x) == IF Direct(x) = {} THEN 0
                       ELSE IF \E g \in Direct(x) : Direct(g) # {} THEN 2 ELSE 1
           levels == [x \in Features |-> level(x)]
<1>1. ASSUME NEW m \in Nat PROVE Max({m}) = m
  <2>1. Max({m}) = CHOOSE x \in {m} : \A y \in {m} : x >= y
    BY DEF Max
  <2>2. \E x \in {m} : \A y \in {m} : x >= y
    OBVIOUS
  <2> QED BY <2>1, <2>2
<1>2. ASSUME NEW r, NEW x \in Features, NEW g \in Direct(x), r[g] \in Nat
      PROVE  Max({r[h] : h \in Direct(x)}) = r[g]
  <2>1. Direct(x) = {g}
    BY Table
  <2>2. {r[h] : h \in Direct(x)} = {r[g]}
    BY <2>1
  <2> QED BY <1>1, <1>2, <2>2
<1>3. levels = step(levels)
  <2> SUFFICES ASSUME NEW x \in Features
               PROVE  level(x) = IF Direct(x) = {} THEN 0
                                 ELSE 1 + Max({levels[g] : g \in Direct(x)})
    OBVIOUS
  <2>1. CASE Direct(x) = {}
    BY <2>1
  <2>2. ASSUME NEW g \in Direct(x) PROVE level(x) = 1 + Max({levels[h] : h \in Direct(x)})
    <3>1. Direct(x) = {g} /\ g \in Features
      BY Table
    <3>2. levels[g] = level(g) /\ level(g) \in Nat
      BY <3>1
    <3>3. Max({levels[h] : h \in Direct(x)}) = level(g)
      <4> HIDE DEF levels, level
      <4> QED BY <1>2, <3>2
    <3>4. level(x) = 1 + level(g)
      <4>1. CASE Direct(g) = {}
        BY <3>1, <4>1
      <4>2. CASE Direct(g) # {}
        <5>1. \A h \in Direct(g) : Direct(h) = {}
          BY Table
        <5> QED BY <3>1, <4>2, <5>1
      <4> QED BY <4>1, <4>2
    <3> QED BY <3>3, <3>4
  <2> HIDE DEF level, levels
  <2> QED BY <2>1, <2>2 DEF level
<1>4. Depth = CHOOSE r : r = step(r)
  BY DEF Depth
<1>5. Depth = step(Depth)
  <2> HIDE DEF step, levels
  <2> QED BY <1>3, <1>4
<1>6. \A x \in Features : Depth[x] = IF Direct(x) = {} THEN 0
                                     ELSE 1 + Max({Depth[g] : g \in Direct(x)})
  BY <1>5
<1>7. ASSUME NEW x \in Features, NEW g \in Direct(x), Depth[g] \in Nat
      PROVE  Depth[x] = 1 + Depth[g] /\ Depth[x] \in Nat
  <2>1. Max({Depth[h] : h \in Direct(x)}) = Depth[g]
    BY <1>2, <1>7
  <2>2. Depth[x] = 1 + Max({Depth[h] : h \in Direct(x)})
    BY <1>6, <1>7
  <2> QED BY <1>7, <2>1, <2>2
<1>8. ASSUME NEW x \in Features, Direct(x) = {} PROVE Depth[x] \in Nat
  <2>1. Depth[x] = 0
    BY <1>6, <1>8
  <2> QED BY <2>1
<1>9. \A g \in Direct(f) : \A h \in Direct(g) : Depth[h] \in Nat
  BY <1>8, Table
<1>10. \A g \in Direct(f) : Depth[g] \in Nat
  <2> TAKE g \in Direct(f)
  <2>1. g \in Features
    BY Table
  <2>2. CASE Direct(g) = {}
    BY <1>8, <2>1, <2>2
  <2>3. CASE Direct(g) # {}
    BY <1>7, <1>9, <2>1, <2>3
  <2> QED BY <2>2, <2>3
<1> QED BY <1>7, <1>8, <1>10

\* What a feature requires is less deep.
LEMMA RequiredLessDeep ==
    ASSUME NEW f \in Features, NEW c \in Required[f]
    PROVE  c \in Features /\ Depth[c] \in Nat /\ Depth[f] \in Nat /\ Depth[c] < Depth[f]
<1>1. c \in Direct(f) \/ \E g \in Direct(f) : c \in Direct(g)
  BY RequiredIs
<1>2. CASE c \in Direct(f)
  <2>1. c \in Features
    BY <1>2, Table
  <2> QED BY <1>2, <2>1, DepthIs
<1>3. ASSUME NEW g \in Direct(f), c \in Direct(g)
      PROVE  c \in Features /\ Depth[c] \in Nat /\ Depth[f] \in Nat /\ Depth[c] < Depth[f]
  <2>1. g \in Features /\ c \in Features
    BY <1>3, Table
  <2>2. Depth[f] = 1 + Depth[g] /\ Depth[g] = 1 + Depth[c] /\ Depth[c] \in Nat
    BY <1>3, <2>1, DepthIs
  <2> QED BY <2>1, <2>2
<1> QED BY <1>1, <1>2, <1>3

LEMMA DeepFirst == DependentsDecidedFirst
<1> SUFFICES ASSUME NEW c \in pending, IsNext(c), NEW f \in (pending \ {c}) \cap Features,
                    c \in Required[f]
             PROVE  FALSE
  BY DEF DependentsDecidedFirst
<1>1. c \in Features /\ Depth[c] \in Nat /\ Depth[f] \in Nat /\ Depth[c] < Depth[f]
  BY RequiredLessDeep
<1>2. Depth[c] >= Depth[f]
  BY <1>1, ReducerAssumption DEF IsNext, Before
<1> QED BY <1>1, <1>2

LEMMA PrerequisitesStep ==
    ASSUME TypeInv, PrerequisitesKept, [Next]_vars
    PROVE  PrerequisitesKept'
<1>1. CASE UNCHANGED <<sealed, reduced>>
  BY <1>1 DEF PrerequisitesKept
<1>2. ASSUME NEW c \in Constraints, NEW outcome \in {"target-reproduced", "target-absent"},
             NEW usage \in Usages, NEW ending \in {"ended", "timeout", "unstable"},
             Trial(c, outcome, usage, ending)
      PROVE  PrerequisitesKept'
  <2> DEFINE gone == {c} \cup {s \in States : <<s, c>> \in StateFeature}
  <2>1. sealed' = sealed /\ (reduced' = reduced \/ reduced' = reduced \ gone)
        /\ ~DependentRemains(reduced, c)
    BY <1>2 DEF Trial, Without
  <2>2. CASE reduced' = reduced
    BY <1>1, <2>1, <2>2
  <2>3. CASE reduced' = reduced \ gone
    <3> SUFFICES ASSUME NEW d \in reduced \ gone
                 PROVE  /\ d \in Features => Required[d] \cap sealed \subseteq reduced \ gone
                        /\ \A f \in Features \cap sealed :
                             <<d, f>> \in StateFeature => f \in reduced \ gone
      BY <2>1, <2>3 DEF PrerequisitesKept
    <3>1. \A s \in gone : s = c \/ s \notin Features
      BY ReducerAssumption
    <3>2. ASSUME d \in Features, NEW r \in Required[d] \cap sealed PROVE r \in reduced \ gone
      <4>1. r \in reduced /\ r \in Features
        BY <3>2, RequiredLessDeep DEF PrerequisitesKept
      <4>2. r # c
        BY <2>1, <3>2 DEF DependentRemains
      <4> QED BY <3>1, <4>1, <4>2
    <3>3. ASSUME NEW f \in Features \cap sealed, <<d, f>> \in StateFeature
          PROVE  f \in reduced \ gone
      <4>1. f \in reduced
        BY <3>3 DEF PrerequisitesKept
      <4>2. d \notin Features /\ d # Identity
        BY <3>3, NamesAssumption DEF StateFeature, Identity
      <4>3. d \in States
        BY <4>2 DEF TypeInv, Constraints
      <4>4. f # c
        BY <3>3, <4>3
      <4> QED BY <3>1, <3>3, <4>1, <4>4
    <3> QED BY <3>2, <3>3
  <2> QED BY <2>1, <2>2, <2>3
<1>3. CASE UNCHANGED vars
  BY <1>1, <1>3 DEF vars
<1> QED BY <1>1, <1>2, <1>3 DEF Next, Skip, StopAtTrialLimit, Uncontrollable, TrialError,
           AllLookedAt, Bind

--------------------------------------------------------------------------------
(* Theorems *)

IInv ==
    TypeInv /\ BudgetInv /\ ReceiptInv /\ ReducedWasReproduced /\ ReasonInv /\ PrerequisitesKept

LEMMA InitIInv == Init => IInv
<1> SUFFICES ASSUME Init PROVE IInv
  OBVIOUS
<1>1. \A x \in ToSet(Resources) : used[x] = 0
  BY DEF Init
<1>2. TypeInv
  BY DEF Init, TypeInv, Amounts
<1>3. BudgetInv
  <2>1. reason \notin {"timeout", "unstable"} \cup {LimitReason[x] : x \in ToSet(Resources)}
    BY LimitNames DEF Init, LimitReasons
  <2> QED BY <1>1, <2>1, PolicyPositive DEF Init, BudgetInv, OverrunRemovesNothing, PolicyAmounts
<1>4. Len(trials) = 0 /\ DOMAIN trials = {} /\ Policy.maximum_trials \in Nat
  BY ReducerAssumption DEF Init, ValidPolicy
<1>5. ReceiptInv
  BY <1>4 DEF Init, ReceiptInv
<1>6. ReducedWasReproduced /\ ReasonInv /\ PrerequisitesKept
  <2>1. \A f \in Features : Required[f] \subseteq Features
    BY RequiredLessDeep
  <2> QED BY <1>4, <2>1 DEF Init, ReducedWasReproduced, ReasonInv, PrerequisitesKept
<1> QED BY <1>2, <1>3, <1>5, <1>6 DEF IInv

LEMMA StepIInv == IInv /\ [Next]_vars => IInv'
BY TypeStep, BudgetStep, ReceiptStep, ReproducedStep, ReasonStep, PrerequisitesStep DEF IInv

LEMMA Invariant == Spec => []IInv
BY InitIInv, StepIInv, PTL DEF Spec

\* However many trials there are and whatever they report, the capsule that a
\* reduction ends with passes the binding check of the core: the two agree on
\* what a trial removes, on the states that go with a feature and on what is
\* retained (bind_processor_reduction and
\* validate_processor_reduction_capsule_binding).
THEOREM BindsHolds == Spec => []ReductionBinds
<1>1. IInv => ReductionBinds
  BY DEF IInv, ReceiptInv, ReductionBinds
<1> QED BY <1>1, Invariant, PTL

\* What is left of the requirement was executed as it is and reproduced the
\* failure (reduce_processor_requirements).
THEOREM ReproducedHolds == Spec => []ReducedWasReproduced
<1>1. IInv => ReducedWasReproduced
  BY DEF IInv
<1> QED BY <1>1, Invariant, PTL

\* What is left is a view that a processor can have: a trial starts only if no
\* dependent feature remains, and takes the states of its feature along
\* (dependent_feature_remains and remove_from).
THEOREM PrerequisitesHold == Spec => []PrerequisitesKept
<1>1. IInv => PrerequisitesKept
  BY DEF IInv
<1> QED BY <1>1, Invariant, PTL

\* The order of constraints decides what requires a feature before the feature
\* (dependency_depth and constraints).
THEOREM DependentsFirstHolds == Spec => []DependentsDecidedFirst
BY DeepFirst, PTL

\* A loop that goes on has some of every budget left (aggregate_limit_reason
\* and remaining_trial_limits).
THEOREM LimitsHold == Spec => []TrialsHaveLimits
<1>1. IInv => TrialsHaveLimits
  BY BudgetImplies DEF IInv
<1> QED BY <1>1, Invariant, PTL

\* A trial that overran its limits, timed out or was unstable ends the loop and
\* removed nothing (ProcessorTrialResult::terminal_reason).
THEOREM OverrunHolds == Spec => []OverrunRemovesNothing
<1>1. IInv => OverrunRemovesNothing
  BY BudgetImplies DEF IInv
<1> QED BY <1>1, Invariant, PTL

\* The reason on a receipt is what happened (reduce_processor_requirements).
THEOREM ReasonHolds == Spec => []ReasonHonest
<1>1. IInv => ReasonHonest
  BY ReasonImplies DEF IInv
<1> QED BY <1>1, Invariant, PTL

================================================================================

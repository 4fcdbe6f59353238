---------------------------- MODULE ProcessorReducer ----------------------------
(***************************************************************************)
(* reduce_and_admit of crates/reproit-backend/src/processor.rs up to the   *)
(* admission: bounded trials remove processor constraints from a captured  *)
(* requirement, the receipt of the trials is bound into the capsule, and   *)
(* validate_processor_reduction_capsule_binding of crates/reproit-core     *)
(* (src/model/processor.rs) decides whether the capsule may be admitted.   *)
(*                                                                         *)
(* A requirement is the set of its constraints.  The names are those that  *)
(* observation_from_captured_capabilities can produce, on which the codec  *)
(* between constraints and capsule capabilities is one to one.             *)
(***************************************************************************)
EXTENDS Integers, Sequences, FiniteSets, FiniteSetsExt, SequencesExt

CONSTANTS
    FeatureNames,  \* instruction features in lexicographic order
    StateNames,    \* operating-system states in lexicographic order
    Usages,        \* what a trial may report that it has used
    Policy         \* ProcessorReductionPolicy

Identity == "processor-identity"
Features == ToSet(FeatureNames)
States == ToSet(StateNames)
Constraints == Features \cup States \cup {Identity}

\* The resources that a policy limits, in the order in which it is asked.
Resources == <<"cpu", "elapsed", "output">>
Amounts == [ToSet(Resources) -> Nat]
LimitReason == [cpu |-> "cpu-limit", elapsed |-> "elapsed-limit",
                output |-> "output-limit"]

\* ProcessorReductionPolicy::validate, without the absolute caps.
ValidPolicy ==
    /\ Policy.total \in Amounts /\ Policy.trial \in Amounts
    /\ Policy.maximum_trials \in 1..16
    /\ \A x \in ToSet(Resources) : Policy.total[x] > 0 /\ Policy.trial[x] > 0
    /\ Policy.trial.cpu <= Policy.trial.elapsed

ASSUME ReducerAssumption ==
    /\ Features \cap States = {} /\ Identity \notin Features \cup States
    /\ Usages \subseteq Amounts
    /\ ValidPolicy

VARIABLES
    sealed,    \* the requirement that was captured and sealed
    reduced,   \* what is left of it
    pending,   \* the constraints the loop has yet to look at
    trials,    \* the trials of the receipt
    used,      \* what the trials have used in total
    reason,    \* terminal_reason
    status     \* "running", "reduced", "failed", then "bound" or "rejected"

vars == <<sealed, reduced, pending, trials, used, reason, status>>

--------------------------------------------------------------------------------
(***************************************************************************)
(* What depends on what.                                                   *)
(***************************************************************************)

\* FEATURE_PREREQUISITES: a dependent feature and its prerequisite.
Prerequisites ==
    {<<"AVX2", "AVX">>, <<"AVX512BW", "AVX512F">>, <<"AVX512DQ", "AVX512F">>,
     <<"AVX512F", "AVX">>, <<"AVX512VL", "AVX512F">>, <<"FMA", "AVX">>,
     <<"SSE4_2", "SSE4_1">>}

\* Mutation of StateFeature: a wrong feature for the wide state.
StateFeatureWrong == {<<"xcr0.avx", "AVX">>, <<"xcr0.avx512", "AVX">>}

\* OS_STATE_REQUIRED_FEATURE: a state and the feature it is derived from.
StateFeature == {<<"xcr0.avx", "AVX">>, <<"xcr0.avx512", "AVX512F">>}

\* A feature is named together with what it requires, so that Required does
\* not lose a link of the table, and no name is of the other kind.
ASSUME NamesAssumption ==
    /\ \A link \in Prerequisites : link[1] \in Features => link[2] \in Features
    /\ \A link \in StateFeature : link[1] \notin Features /\ link[2] \notin States

Direct(f) == {g \in Features : <<f, g>> \in Prerequisites}

\* feature_requires: all features that f requires.
Required[f \in Features] == Direct(f) \cup UNION {Required[g] : g \in Direct(f)}

\* dependency_depth.
Depth[f \in Features] ==
    IF Direct(f) = {} THEN 0 ELSE 1 + Max({Depth[g] : g \in Direct(f)})

\* Where a name is in the lexicographic order.
Place(names, name) == CHOOSE i \in DOMAIN names : names[i] = name

\* Mutation of Before: lexicographic only.
BeforeByName(c, d) ==
    \/ c \in Features /\ d \in Features /\ Place(FeatureNames, c) < Place(FeatureNames, d)
    \/ c \in Features /\ d \notin Features
    \/ c \in States /\ d \in States /\ Place(StateNames, c) < Place(StateNames, d)
    \/ c \in States /\ d = Identity

\* The order of constraints: the deepest features first, those of one depth by
\* name; then the states, and the identity last.
Before(c, d) ==
    \/ c \in Features /\ d \in Features /\ Depth[c] > Depth[d]
    \/ /\ c \in Features /\ d \in Features /\ Depth[c] = Depth[d]
       /\ Place(FeatureNames, c) < Place(FeatureNames, d)
    \/ c \in Features /\ d \notin Features
    \/ c \in States /\ d \in States /\ Place(StateNames, c) < Place(StateNames, d)
    \/ c \in States /\ d = Identity

\* Mutation of DependentRemains: nothing blocks a prerequisite.
DependentIgnored(requirement, c) == FALSE

\* dependent_feature_remains.
DependentRemains(requirement, c) ==
    \E f \in requirement \cap Features : f # c /\ c \in Required[f]

\* remove_from: the states of a feature go with it.
Without(requirement, c) ==
    requirement \ ({c} \cup {s \in States : <<s, c>> \in StateFeature})

--------------------------------------------------------------------------------
(***************************************************************************)
(* The limits of a trial.                                                  *)
(***************************************************************************)

\* remaining_trial_limits.
TrialLimits ==
    [x \in ToSet(Resources) |->
       Min({Policy.total[x] - used[x], Policy.trial[x]})]

\* The reason for the first resource in a set, NoReason if it is empty.
NoReason == "none"
FirstReason(S) ==
    LET hit == {i \in DOMAIN Resources : Resources[i] \in S} IN
    IF hit = {} THEN NoReason ELSE LimitReason[Resources[Min(hit)]]

\* ProcessorTrialResult::terminal_reason.
ResultReason(usage, ending) ==
    IF ending # "ended" THEN ending
    ELSE FirstReason({x \in ToSet(Resources) : usage[x] > TrialLimits[x]})

\* Mutation of AggregateReason: a total at its limit goes on.
AggregateReasonLate(total) ==
    FirstReason({x \in ToSet(Resources) : total[x] > Policy.total[x]})

\* aggregate_limit_reason.
AggregateReason(total) ==
    FirstReason({x \in ToSet(Resources) : total[x] >= Policy.total[x]})

\* Mutations of Removes: one of the two conditions is not looked at.
RemovesAnyOutcome(outcome, usage, ending) ==
    ResultReason(usage, ending) = NoReason
RemovesBeyondLimits(outcome, usage, ending) == outcome = "target-reproduced"

\* A trial removes the constraint if it reproduced within its limits.
Removes(outcome, usage, ending) ==
    /\ ResultReason(usage, ending) = NoReason
    /\ outcome = "target-reproduced"

--------------------------------------------------------------------------------
(***************************************************************************)
(* reduce_processor_requirements, one action for each way through its loop.*)
(***************************************************************************)

\* The constraint whose turn it is.
IsNext(c) == c \in pending /\ \A d \in pending \ {c} : Before(c, d)

Looking(c) == status = "running" /\ IsNext(c)

\* An earlier removal took the constraint away.
Skip(c) ==
    /\ Looking(c) /\ c \notin reduced
    /\ pending' = pending \ {c}
    /\ UNCHANGED <<sealed, reduced, trials, used, reason, status>>

StopAtTrialLimit(c) ==
    /\ Looking(c) /\ c \in reduced
    /\ Len(trials) >= Policy.maximum_trials
    /\ reason' = "trial-limit"
    /\ status' = "reduced"
    /\ UNCHANGED <<sealed, reduced, pending, trials, used>>

Testable(c) ==
    Looking(c) /\ c \in reduced /\ Len(trials) < Policy.maximum_trials

\* Mutation of Uncontrollable: the reason is not recorded.
UncontrollableSilently(c) ==
    /\ Testable(c)
    /\ pending' = pending \ {c}
    /\ UNCHANGED <<sealed, reduced, trials, used, reason, status>>

\* The executor cannot hide the constraint, or a dependent feature remains.
Uncontrollable(c) ==
    /\ Testable(c)
    /\ reason' = "uncontrollable"
    /\ pending' = pending \ {c}
    /\ UNCHANGED <<sealed, reduced, trials, used, status>>

\* A trial with what the executor reports of it.  The limits of the trial are
\* positive, because a total that reaches the policy's ends the loop
\* (TrialsHaveLimits); the early exit for a trial without any is left out.
Trial(c, outcome, usage, ending) ==
    LET candidate == Without(reduced, c)
        total == [x \in ToSet(Resources) |-> used[x] + usage[x]]
        stop == ResultReason(usage, ending)
        removed == Removes(outcome, usage, ending) IN
    /\ Testable(c) /\ ~DependentRemains(reduced, c)
    /\ used' = total
    /\ reduced' = IF removed THEN candidate ELSE reduced
    /\ trials' = Append(trials,
         [constraint |-> c, candidate |-> candidate, outcome |-> outcome,
          decision |-> IF removed THEN "removed" ELSE "retained"])
    /\ pending' = pending \ {c}
    /\ IF stop = NoReason /\ AggregateReason(total) = NoReason
       THEN UNCHANGED <<reason, status>>
       ELSE /\ reason' = IF stop # NoReason THEN stop ELSE AggregateReason(total)
            /\ status' = "reduced"
    /\ UNCHANGED sealed

\* The executor fails, or reports a trial both timed out and unstable.
TrialError(c) ==
    /\ Testable(c) /\ ~DependentRemains(reduced, c)
    /\ status' = "failed"
    /\ UNCHANGED <<sealed, reduced, pending, trials, used, reason>>

AllLookedAt ==
    /\ status = "running" /\ pending = {}
    /\ status' = "reduced"
    /\ UNCHANGED <<sealed, reduced, pending, trials, used, reason>>

--------------------------------------------------------------------------------
(***************************************************************************)
(* The binding of the result into the capsule.                             *)
(***************************************************************************)

\* ProcessorReductionReceipt::validate.
ReceiptValid ==
    /\ Len(trials) <= 16
    /\ \A i, j \in 1..Len(trials) :
         trials[i].constraint = trials[j].constraint => i = j
    /\ \A i \in 1..Len(trials) : trials[i].decision = "removed"
         => trials[i].outcome = "target-reproduced"

\* The constraints that a removed trial accounts for.
RemovedConstraints ==
    {trials[i].constraint :
       i \in {j \in 1..Len(trials) : trials[j].decision = "removed"}}

\* validate_processor_reduction_capsule_binding.
BindingValid ==
    /\ ReceiptValid
    /\ reduced \subseteq sealed
    /\ \A c \in sealed \ reduced :
         \/ c \in RemovedConstraints
         \/ c = "xcr0.avx" /\ "AVX" \in RemovedConstraints
         \/ c = "xcr0.avx512" /\ "AVX512F" \in RemovedConstraints
    /\ \A i \in 1..Len(trials) :
         trials[i].constraint \in reduced <=> trials[i].decision = "retained"

\* bind_processor_reduction and the check of the capsule it makes.
Bind ==
    /\ status = "reduced"
    /\ status' = IF BindingValid THEN "bound" ELSE "rejected"
    /\ UNCHANGED <<sealed, reduced, pending, trials, used, reason>>

--------------------------------------------------------------------------------
Init ==
    /\ sealed \in SUBSET Constraints
    /\ reduced = sealed
    /\ pending = sealed
    /\ trials = <<>>
    /\ used = [x \in ToSet(Resources) |-> 0]
    /\ reason = "complete"
    /\ status = "running"

Next ==
    \/ \E c \in Constraints :
         \/ Skip(c) \/ StopAtTrialLimit(c) \/ Uncontrollable(c) \/ TrialError(c)
         \/ \E outcome \in {"target-reproduced", "target-absent"},
               usage \in Usages,
               ending \in {"ended", "timeout", "unstable"} :
              Trial(c, outcome, usage, ending)
    \/ AllLookedAt
    \/ Bind

Spec == Init /\ [][Next]_vars

--------------------------------------------------------------------------------
(***************************************************************************)
(* Properties.                                                             *)
(***************************************************************************)

\* Every reduction that ends, ends with a capsule that the binding check of
\* the core accepts: the two agree on which constraints a trial removes, on
\* the states that go with a feature and on what is retained.
ReductionBinds == status # "rejected"

\* What is left was executed as it is and reproduced the failure: it is the
\* captured requirement or the candidate of the last trial that removed.
ReducedWasReproduced ==
    LET removing == {i \in DOMAIN trials : trials[i].decision = "removed"} IN
    /\ removing = {} => reduced = sealed
    /\ \A last \in removing : (\A i \in removing : i <= last) =>
         reduced = trials[last].candidate /\ trials[last].outcome = "target-reproduced"

\* A feature stays required as long as a captured feature that requires it
\* does, and a state is never required without the feature it is derived
\* from: what is left is a view that a processor can have.
PrerequisitesKept ==
    \A c \in reduced :
        /\ c \in Features => Required[c] \cap sealed \subseteq reduced
        /\ \A f \in Features \cap sealed :
             <<c, f>> \in StateFeature => f \in reduced

\* When the loop comes to a feature, everything that requires it has been
\* decided, so that a prerequisite is not held back by a dependent that a
\* later trial removes.
DependentsDecidedFirst ==
    \A c \in pending : IsNext(c) =>
        \A f \in (pending \ {c}) \cap Features : c \notin Required[f]

\* Whenever a trial may start, each resource has some of the budget left.
TrialsHaveLimits ==
    status = "running" => \A x \in ToSet(Resources) : TrialLimits[x] > 0

\* A trial that overran its limits, timed out or was unstable is the last one
\* and removes nothing, even if it reproduced: the totals exceed the policy, or
\* the loop ended for a reason that the totals do not give.
OverrunRemovesNothing ==
    \/ \E x \in ToSet(Resources) : used[x] > Policy.total[x]
    \/ reason \in {"timeout", "unstable"}
    \/ /\ reason \in {LimitReason[x] : x \in ToSet(Resources)}
       /\ \A x \in ToSet(Resources) : used[x] < Policy.total[x]
    => /\ status # "running"
       /\ reason \notin {"complete", "uncontrollable", "trial-limit"}
       /\ trials[Len(trials)].decision = "retained"

\* A receipt that says complete tested every captured constraint that is still
\* required, and one that stops at the trial limit ran them all.
ReasonHonest ==
    status \in {"reduced", "bound"} =>
        /\ reason = "complete" => \A c \in reduced :
             \E i \in 1..Len(trials) : trials[i].constraint = c
        /\ reason = "trial-limit" => Len(trials) = Policy.maximum_trials
================================================================================

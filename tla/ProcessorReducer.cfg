CONSTANTS
    FeatureNames <- MCFeatureNames
    StateNames <- MCStateNames
    Usages <- MCUsages
    Policy <- MCPolicy
SPECIFICATION Spec
INVARIANTS ReductionBinds ReducedWasReproduced PrerequisitesKept DependentsDecidedFirst TrialsHaveLimits OverrunRemovesNothing ReasonHonest
CHECK_DEADLOCK FALSE

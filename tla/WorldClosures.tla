----------------------------- MODULE WorldClosures -----------------------------
(***************************************************************************)
(* Closure policies and the world closures that answer them                *)
(* (crates/reproit-core/src/model.rs, proof.rs), the CaptureCoverage that  *)
(* collects a closure while an operation runs (capture_coverage.rs), and   *)
(* the closure a managed worker builds from its evidence                   *)
(* (crates/reproit-backend/src/managed.rs).  A boundary identity is a      *)
(* natural number, in the order of the identities' text.                   *)
(***************************************************************************)
EXTENDS Subsequences, Sequences, SequencesExt

CONSTANTS
    MaxRules,  \* rules of a policy, receipts of a closure (256)
    NoClosure  \* no closure, no evidence

ClosureMechanism ==
    {"blocked", "exact-transcript", "fixed-executor-capability",
     "immutable-object", "verified-simulator"}

ObservationClass ==
    {"clock-random-identity", "device", "filesystem-environment",
     "network-ipc-signal", "operating-system-hardware",
     "ordering-concurrency", "state-service"}

\* require_strict_order over the boundaries of rules or of receipts.
StrictOrder(entries) ==
    \A i \in 1..(Len(entries) - 1) : entries[i].boundary < entries[i + 1].boundary

\* ClosurePolicy::validate.
ValidPolicy(rules) ==
    /\ Len(rules) \in 1..MaxRules
    /\ StrictOrder(rules)
    /\ \A i \in DOMAIN rules :
         /\ rules[i].allowed # <<>>
         /\ IsInjective(rules[i].allowed)

\* WorldClosure::validate.
ValidClosure(closure) ==
    /\ Len(closure.receipts) \in 1..MaxRules
    /\ StrictOrder(closure.receipts)
    /\ \A i \in DOMAIN closure.receipts : closure.receipts[i].version > 0

Satisfies(rule, receipt) ==
    /\ receipt.boundary = rule.boundary
    /\ receipt.class = rule.class
    /\ receipt.mechanism \in Range(rule.allowed)

\* proof::validate_world_closure: one receipt for each rule, in its order.
ClosesWorld(rules, closure) ==
    /\ ValidPolicy(rules) /\ ValidClosure(closure)
    /\ closure.policy = rules
    /\ Len(closure.receipts) = Len(rules)
    /\ \A i \in DOMAIN rules : Satisfies(rules[i], closure.receipts[i])

--------------------------------------------------------------------------------
(* CaptureCoverage *)

NewCoverage == [receipts |-> {}, invalid |-> FALSE]

CoverageAccepts(rules, coverage, receipt) ==
    /\ \E i \in DOMAIN rules : Satisfies(rules[i], receipt)
    /\ \A known \in coverage.receipts : known.boundary # receipt.boundary

\* A mutant: a refused receipt is only ignored.
CoverageRecordIgnores(rules, coverage, receipt) ==
    IF CoverageAccepts(rules, coverage, receipt)
    THEN [coverage EXCEPT !.receipts = @ \cup {receipt}]
    ELSE coverage

\* record: a refused receipt poisons the coverage for good.
CoverageRecord(rules, coverage, receipt) ==
    IF CoverageAccepts(rules, coverage, receipt)
    THEN [coverage EXCEPT !.receipts = @ \cup {receipt}]
    ELSE [coverage EXCEPT !.invalid = TRUE]

CoverageUnowned(coverage) == [coverage EXCEPT !.invalid = TRUE]

\* The receipts in the order of the map that keeps them by boundary.
InBoundaryOrder(receipts) ==
    LET boundaries == {r.boundary : r \in receipts} IN
    [k \in 1..Cardinality(boundaries) |->
       CHOOSE r \in receipts : r.boundary = Nth(boundaries, k)]

\* close: the closure, or none.
CoverageClose(rules, coverage) ==
    LET closure == [policy |-> rules, receipts |-> InBoundaryOrder(coverage.receipts)] IN
    IF /\ ~coverage.invalid
       /\ Cardinality(coverage.receipts) = Len(rules)
       /\ ClosesWorld(rules, closure)
    THEN closure
    ELSE NoClosure

--------------------------------------------------------------------------------
(* close_managed_world *)

\* What evidence a mechanism has for an observation class, if any.
EvidenceFor(mechanism, class, evidence) ==
    CASE mechanism = "blocked"                   -> evidence.isolation
      [] mechanism = "exact-transcript"          -> evidence.dependency
      [] mechanism = "fixed-executor-capability" -> evidence.executor
      [] mechanism = "immutable-object" /\ class = "filesystem-environment"
                                                 -> evidence.subject
      [] mechanism = "immutable-object" /\ class = "state-service"
                                                 -> evidence.world
      [] OTHER                                   -> NoClosure

\* select_evidence: the first allowed mechanism that has evidence.
SelectEvidence(rule, evidence) ==
    SelectInSeq(rule.allowed,
                LAMBDA m : EvidenceFor(m, rule.class, evidence) # NoClosure)

ManagedReceipt(rule, evidence) ==
    LET mechanism == rule.allowed[SelectEvidence(rule, evidence)] IN
    [boundary |-> rule.boundary, class |-> rule.class, mechanism |-> mechanism,
     evidence |-> EvidenceFor(mechanism, rule.class, evidence), version |-> 1]

CloseManagedWorld(rules, evidence) ==
    IF ValidPolicy(rules) /\ \A i \in DOMAIN rules : SelectEvidence(rules[i], evidence) # 0
    THEN [policy |-> rules,
          receipts |-> [i \in DOMAIN rules |-> ManagedReceipt(rules[i], evidence)]]
    ELSE NoClosure

================================================================================

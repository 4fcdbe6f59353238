CONSTANTS
    c1 = c1  c2 = c2  c3 = c3  w1 = w1  w2 = w2  d1 = d1  d2 = d2
    x1 = x1  x2 = x2  x3 = x3  f1 = f1  f2 = f2
    l1 = l1  l2 = l2  l3 = l3  svc = svc
    Reservations = {l1}
    Services = {svc}
    Service = svc
    Free = Free
    MaxExact = 4
    Callers = {c1, c2}
    Publishers = {w1}
    Points = {d1}
    Executions = {x1, x2}
    Targets = {f1, f2}
    Absent = Absent
    Size <- PairSize
    MaxLeases = 2
    MaxClaim <- MCMaxClaim
    LeaseOf <- SharedLease
    PointOf <- PairPointOf
    ExecutionOf <- PairExecutionOf
    TargetOf <- PairTargetOf
SPECIFICATION Spec
INVARIANT ExecutingWorldPresent

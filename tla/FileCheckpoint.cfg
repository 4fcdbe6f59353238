CONSTANTS
    c1 = c1  c2 = c2  c3 = c3  w1 = w1  w2 = w2  d1 = d1  d2 = d2
    x1 = x1  x2 = x2  x3 = x3  f1 = f1  f2 = f2
    l1 = l1  l2 = l2  l3 = l3  svc = svc
    Reservations = {l1, l2, l3}
    Services = {svc}
    Service = svc
    Free = Free
    MaxExact = 4
    Callers = {c1, c2, c3}
    Publishers = {w1, w2}
    Points = {d1, d2}
    Executions = {x1, x2, x3}
    Targets = {f1, f2}
    Absent = Absent
    Size <- MCSize
    MaxLeases = 2
    MaxClaim <- MCMaxClaim
    LeaseOf <- OwnLease
    PointOf <- MCPointOf
    ExecutionOf <- MCExecutionOf
    TargetOf <- MCTargetOf
SPECIFICATION FairSpec
INVARIANTS IssuedPointsComplete ExecutingWorldPresent ExecutesPublishedBytes LeasesHaveOwners NothingLeftInWorkspace
PROPERTIES ImplementsReservations LeaseReturned

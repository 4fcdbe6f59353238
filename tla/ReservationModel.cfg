CONSTANTS
    r1 = r1  r2 = r2  r3 = r3  r4 = r4
    s1 = s1  s2 = s2  stranger = stranger
    Reservations = {r1, r2, r3, r4}
    Services = {s1, s2, stranger}
    Free = Free
    MaxExact = 4
    Claims <- MCClaims
    Environment <- MCEnvironment
    Shares <- MCShares
SPECIFICATION Spec
INVARIANTS TypeOK CapacityRespected RebuildAdmits

CONSTANTS
    o1 = o1  o2 = o2  x1 = x1  x2 = x2  x3 = x3  x4 = x4
    b1 = b1  b2 = b2  b3 = b3
    Operations = {o1, o2}
    NoOperation = NoOperation
    Objects = {x1, x2, x3, x4}
    ObjectBytes <- MCObjectBytes
    V1Limits <- MCV1Limits
    Bodies = {b1, b2, b3}
    Body <- MCBody
    Refused = Refused
    MaxCalls = 3
SPECIFICATION Spec
INVARIANTS CompleteMeansRecorded AnswersArePrefix
CHECK_DEADLOCK FALSE

CONSTANTS
    p1 = p1  p2 = p2  t1 = t1  t2 = t2  o1 = o1  o2 = o2
    x1 = x1  x2 = x2  x3 = x3  x4 = x4  x5 = x5
    Providers = {p1}
    NoProvider = NoProvider
    Tasks = {t1, t2}
    Operations = {o1}
    NoOperation = NoOperation
    Objects = {x1, x2, x3, x4, x5}
    ObjectBytes <- MixedBytes
    V1Limits <- MCV1Limits
    Limits <- ScriptLimits
SYMMETRY ScriptSymmetry
SPECIFICATION Spec
INVARIANTS TranscriptBytesExact ClosedTranscriptReplays

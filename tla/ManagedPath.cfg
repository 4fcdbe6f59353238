\* A subject frozen while it is written, and the managed path of its captures.
CONSTANTS
    MaxSubjectEntries = 5
    MaxSubjectBytes = 10
    Disks <- MCDisks
    Requests <- MCRequests
    Written <- MCWritten
    Block = {"a", "c"}
    WriteBound = 2
    MaxGrantCapabilities = 8
    MinRequired = 4
    MaxExecutionGrant = 2
    MaxRules = 3
    NoClosure = NoClosure
    MaxCauses = 1
    MaxFrames = 1
    NoCode = NoCode
    Withheld = Withheld
    MaxRecords = 10
    MaxObservations = 5
    MaxInputs = 1
    NoContext = NoContext
    NoOwner = NoOwner
    NoParent = NoParent
    ALL <- MCALL
    MaxObjects = 20
    MaxManifestBytes = 3
    MaxCapabilities = 5
    MaxPoints = 2
    MaxParents = 1
    NoCapsule = NoCapsule
    ChunkBytes = 1
    MaxStagedBytes = 1
    MaxManagedObjects = 10
    MaxManagedChunks = 20
    MaxManagedBytes = 20
    NoCandidate = NoCandidate
    CandidateOf <- MCCandidateOf
    ObjectsOf <- MCObjectsOf
    Rebuilt <- MCRebuilt
    Captures = {"c1", "c2"}
    Workers = {w1, w2}
    Executors = {"e1", "e2"}
    Followed = {"rust"}
    Replayed = "c1"
    Capabilities <- MCCapabilities
    Required <- MCRequired
    Debugger = "gdb"
    Host <- MCHost
    WorkloadKey = WorkloadKey
    CaptureService = CaptureService
    WorkerService = WorkerService
    KeyService = KeyService
    EvidenceService = EvidenceService
    Horizon = 3
    GrantTime = 1
    LeaseTime = 2
    KeyTimes = {1, 3}
    EvidenceTime = 2
    UploadBound = 2
    LeaseBound = 2
    Never = Never
    None = None
SYMMETRY MCSymmetry
SPECIFICATION Spec
CHECK_DEADLOCK FALSE
INVARIANTS FrozenWasHeld StagingIsExact KeysWithinLease OpenedAsGranted ExecutedUnderEvidence

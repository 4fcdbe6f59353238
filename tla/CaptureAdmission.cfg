\* Sealing, admission, upload and opening of a private capture.
CONSTANTS
    MaxRules = 3
    NoClosure = NoClosure
    MaxCauses = 1
    MaxFrames = 1
    NoCode = NoCode
    Withheld = Withheld
    MaxRecords = 10
    MaxObservations = 5
    MaxInputs = 1
    NoContext = NoContext
    NoOwner = NoOwner
    NoParent = NoParent
    ALL <- MCALL
    MaxSubjectEntries = 3
    MaxSubjectBytes = 3
    MaxObjects = 20
    MaxManifestBytes = 3
    MaxCapabilities = 5
    MaxPoints = 2
    MaxParents = 1
    NoCapsule = NoCapsule
    MaxExchangeBytes = 1
    MaxArtifactBytes = 1
    SdkCapabilities = {"sdk.rust", "sdk.go"}
    MintedId = MintedId
    NoProof = NoProof
    ChunkBytes = 1
    MaxChunks = 30
    NoOperation = NoOperation
    NoUpload = NoUpload
    Captures <- MCCaptures
    Jobs <- MCJobs
    Rebuilt <- MCRebuilt
    Supports <- MCSupports
    Evidences <- MCEvidences
    Executors = {e1, e2}
    Requirements <- MCRequirements
    OtherFailure = OtherFailure
    OtherSupport <- MCOther
    SealingIds <- MCIds
    Metadata <- MCMetadata
    OccurrenceKey = OccurrenceKey
    GroupingKey = GroupingKey
    Signer = Signer
    SealBound <- MCSealBound
    MoveBound = 1
    UploadBound = 2
    None = None
SYMMETRY MCSymmetry
SPECIFICATION Spec
CHECK_DEADLOCK FALSE
INVARIANTS ResealIdentical AdmittedWasReproduced OpenedIsSealed

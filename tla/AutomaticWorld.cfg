\* Capture, verification and replay of one operation over an unreliable spool.
CONSTANTS
    MaxValueBytes = 1
    MaxPayloadBytes = 1
    MaxRecordBytes = 1
    ClockBytes = 1
    NoBytes = NoBytes
    MaxRules = 3
    NoClosure = NoClosure
    MaxCauses = 1
    MaxFrames = 1
    NoCode = NoCode
    Withheld = Withheld
    MaxRecords = 10
    MaxObservations = 5
    MaxInputs = 1
    NoContext = NoContext
    NoOwner = NoOwner
    NoParent = NoParent
    ALL <- MCALL
    MaxReplayed = 5
    Operation = Operation
    Foreign = Foreign
    Exchanges <- MCExchanges
    Receipts <- MCReceipts
    Rules <- MCRules
    Ownership <- MCOwnership
    Deployment <- MCDeployment
    FailureRef <- MCFailure
    Signer = Signer
    Other = Other
    ObservationBound = 5
    RecorderSlots = 4
    None = None
SPECIFICATION Spec
CHECK_DEADLOCK FALSE
INVARIANTS AcceptedIsWhatHappened CompleteIsWhatHappened FenceCoversPolicy WholeCaptureReplays

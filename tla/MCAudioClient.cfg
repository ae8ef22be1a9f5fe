CONSTANTS
    HalfRange = 4
    Samples <- MCSamples
    OpenThreshold <- MCOpenThreshold
    ReleaseSampleCount = 1
    ChunkSize = 4
    SizeModulus = 2
    MaxDatagrams = 6
    RingCapacity = 5
SPECIFICATION ShutdownFairSpec
INVARIANTS
    ClientTypeOK
    NoSampleStranded
    SamplesConserved
    Framed
    StreamPolledAgain
PROPERTIES
    ImplementsStream
    ImplementsContract
    InterruptEndsClient
CHECK_DEADLOCK FALSE

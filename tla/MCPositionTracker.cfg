SPECIFICATION StampSpec
CONSTANTS
    Axes = {0}
    Readings <- MCReadings
    Durations = {1, 2}
    Threshold = 2
    ReleaseCount = 1
    Noise2 = 3
    DownScale = 2
    SensorRange = 3
    SampleInterval = 2
    MaxTime = 12
    Dimensions = 1
    Second = 4
    NanosPerUnit = 100
    MinuteSeconds = 3
    StartTime = 22
    Secret = 5000
    ByteBase = 8
INVARIANT TrackerTypeOK
INVARIANT EventWhileOpen
INVARIANT EventsChain
INVARIANT MotionsPlausible
INVARIANT WireRoundTrip
INVARIANT StoredInTimeOrder
INVARIANT GapsKept
PROPERTY ImplementsContract
CHECK_DEADLOCK FALSE

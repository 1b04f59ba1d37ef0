CONSTANTS
    a = a
    b = b
    x = x
    y = y
    None = None
    Entries = {1, 2}
    Streams = {a, b}
    Keys <- MCKeys
    LabelSets = {x, y}
    Labels <- MCLabels
    KeyLabels <- MCKeyLabels
    Severity <- MCSeverity
    Size <- MCSize
    Processed <- Singles
    Pushed = {}
    MaxBufferEntries = 2
    MaxBufferBytes = 6
    MaxBatchEntries = 2
    MaxBatchBytes = 3
    MaxAttempts = 2
    RetryEnabled = TRUE
    DropDebugFirst = TRUE
    ProtectInfo = FALSE
    CanStop = TRUE
SPECIFICATION FairSpec
PROPERTIES
    HeldIsSettled
    StopReturns
CHECK_DEADLOCK FALSE

SPECIFICATION FairSpec
CONSTANTS
    UsbFds <- MCUsbFds
    DeviceFd = 4
    MaxSources = 8
    MaxTimers = 2
INVARIANTS TypeOK SourcesLive StdioKept
PROPERTY FailureEnds
CHECK_DEADLOCK FALSE

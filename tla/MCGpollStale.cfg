SPECIFICATION Spec
CONSTANTS
    UsbFds <- MCUsbFds
    DeviceFd = 4
    MaxSources = 8
    MaxTimers = 2
INVARIANT CallbackPresent
CHECK_DEADLOCK FALSE

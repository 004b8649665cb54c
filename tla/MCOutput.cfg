\* OUT packets: two endpoints, every size, a second SET_CONFIGURATION, a bus reset, a halt cleared.
SPECIFICATION Spec
CONSTANTS
    InEps <- None
    OutEps <- TwoOut
    U2S <- SwapOut
    OutTable <- SwapOutTable
    MaxEndpoints = 4
    NDescriptors = 1
    NIndex = 1
    MaxReports = 0
    Faults = {}
    ReadOutcomes = {}
    WriteOutcomes = {"done", "timeout"}
    ControlOutcomes = {}
    QualifierRequests = {}
    ControlIn = {}
    InRequests = {}
    OutRequests = {}
    BigRequests = {}
    ConfigRequests = {10, 11}
    HaltRequests = {}
    ClearRequests = {21}
    StatusRequests = {}
    OutSizes <- OneFull
    MaxOut = 2
    MaxBusResets = 1
    MaxSuspends = 0
    MaxAborts = 0
    MaxTimeouts = 0
INVARIANTS
    OutputsInOrder
    OutputsArrive
CHECK_DEADLOCK FALSE

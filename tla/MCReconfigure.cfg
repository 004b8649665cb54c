\* Each SET_CONFIGURATION adds the OUT endpoints again.
SPECIFICATION Spec
CONSTANTS
    InEps <- None
    OutEps <- TwoOut
    U2S <- SwapOut
    OutTable <- SwapOutTable
    MaxEndpoints = 6
    NDescriptors = 1
    NIndex = 1
    MaxReports = 0
    Faults = {}
    ReadOutcomes = {}
    WriteOutcomes = {}
    ControlOutcomes = {}
    QualifierRequests = {}
    ControlIn = {}
    InRequests = {}
    OutRequests = {}
    BigRequests = {}
    ConfigRequests = {10, 11, 12, 13}
    HaltRequests = {}
    ClearRequests = {}
    StatusRequests = {}
    OutSizes <- NoOutPackets
    MaxOut = 0
    MaxBusResets = 0
    MaxSuspends = 0
    MaxAborts = 0
    MaxTimeouts = 0
INVARIANTS
    OutEndpointsFit
CHECK_DEADLOCK FALSE

\* Control transfers: every outcome at the device, a timeout of the firmware, a bus reset, a suspension and an abandoned transfer.
SPECIFICATION Spec
CONSTANTS
    InEps <- None
    OutEps <- None
    U2S <- NoEps
    OutTable <- NoTable
    MaxEndpoints = 2
    NDescriptors = 1
    NIndex = 1
    MaxReports = 0
    Faults = {"send", "submit"}
    ReadOutcomes = {}
    WriteOutcomes = {}
    ControlOutcomes = {"done", "stall", "timeout", "error"}
    QualifierRequests = {2}
    ControlIn = {1, 2}
    InRequests = {1, 2}
    OutRequests = {3}
    BigRequests = {4}
    ConfigRequests = {10}
    HaltRequests = {}
    ClearRequests = {}
    StatusRequests = {30}
    OutSizes <- NoEps
    MaxOut = 0
    MaxBusResets = 1
    MaxSuspends = 1
    MaxAborts = 1
    MaxTimeouts = 1
INVARIANTS
    AnswersMatch
    OneControlUnderWay
CHECK_DEADLOCK FALSE

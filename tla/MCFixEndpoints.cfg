SPECIFICATION Spec
CONSTANTS
    Devices <- MCDevices
    MaxEndpoints = 2
    MaxPayloadSize = 64
INVARIANTS
    TypeOK
    EmulatedOnChip
    TableFits
    TablesInverse
    HostSeesTable
    AllProxied
CHECK_DEADLOCK FALSE

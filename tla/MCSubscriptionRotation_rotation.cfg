SPECIFICATION Spec
CONSTANTS
    Pairs = {{1, 2}, {3, 4}}
    Initial = {1, 2}
    MaxVersion = 2
    IngressCap = 1
    BufferCap = 3
    OutCap = 2
    MaxFaults = 1
CHECK_DEADLOCK FALSE
INVARIANTS
    UpdatesInOrder
    NoSilentSwitch
    ReadyIsSignalled

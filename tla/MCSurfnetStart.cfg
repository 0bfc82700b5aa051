SPECIFICATION Spec
CONSTANTS
    Ports <- MCPorts
    NumPorts = 2
    MaxStarts = 2
    MaxEvents = 2
INVARIANTS TypeOK HandleServes NoneLeftBehind
PROPERTIES CallsReturn
CHECK_DEADLOCK FALSE

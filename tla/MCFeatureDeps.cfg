SPECIFICATION Spec
CONSTANTS
    a = a
    b = b
    c = c
    Ids <- MCIds
    Keys <- MCIds
    Manifests <- MCManifests
INVARIANTS TypeOK CollectsExactlyDependencies OwnGateExcluded
PROPERTIES Termination
CHECK_DEADLOCK FALSE

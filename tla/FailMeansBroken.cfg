SPECIFICATION Spec
CONSTANTS
    Defects <- MCDefects
    MaxLag = 2
    MaxDrops = 1
INVARIANTS FailMeansBroken
CHECK_DEADLOCK FALSE

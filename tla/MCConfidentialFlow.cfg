SPECIFICATION Spec
CONSTANTS
    Defects <- MCDefects
    MaxLag = 2
    MaxDrops = 1
INVARIANTS TypeOK PassIsEarned ExactWhenQuiet RentReclaimed EvidenceKept
PROPERTIES Termination
CHECK_DEADLOCK FALSE

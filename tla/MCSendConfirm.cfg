SPECIFICATION Spec
CONSTANT MaxDrops = 2
INVARIANTS TypeOK VerdictIsTrue
CHECK_DEADLOCK FALSE

SPECIFICATION Spec
INVARIANTS TypeOK PassIsEarned ExactWhenQuiet
CHECK_DEADLOCK FALSE

SPECIFICATION Spec
CONSTANTS
    Named <- MCNamed
    Optional <- MCOptional
    Guarded <- MCGuarded
    Expected <- MCExpected
    ClassicCus <- MCClassicCus
    PTokenCus <- MCPTokenCus
INVARIANTS TypeOK PassIsEarned OneRuntime ExactWhenQuiet
CHECK_DEADLOCK FALSE

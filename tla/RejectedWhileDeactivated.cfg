SPECIFICATION Spec
CONSTANTS
    Named <- MCNamed
    Optional <- MCOptional
    Guarded <- MCGuarded
    Expected <- MCExpected
    ClassicCus <- MCClassicCus
    PTokenCus <- MCPTokenCus
INVARIANT RejectedWhileDeactivated
CHECK_DEADLOCK FALSE

SPECIFICATION Spec
CONSTANTS
    Named <- MCNamed
    Optional <- MCOptional
    Guarded <- MCGuarded
    Expected <- MCExpected
    ClassicCus <- MCClassicCus
    PTokenCus <- MCPTokenCus
INVARIANT RejectedWhileActivated
CHECK_DEADLOCK FALSE

SPECIFICATION Spec
CONSTANTS
    Gates <- MCGates
    Programs <- MCPrograms
    Hashes <- MCHashes
    Required <- MCRequired
    Expected <- MCExpected
    MaxChanges = 3
INVARIANTS TypeOK VerdictHasReason GatesStayMet ExactWhenQuiet
CHECK_DEADLOCK FALSE

SPECIFICATION Spec
CONSTANTS
    r1 = r1
    r2 = r2
    NoFile = NoFile
    Unreadable = Unreadable
    Empty = Empty
    Garbled = Garbled
    Short = Short
    Old = Old
    Pinned = Pinned
    NoKey = NoKey
    Runs <- MCRuns
    Passes = 2
    ChunkSize = 2
    Bytes <- MCBytes
    Images <- MCImages
SYMMETRY RunSymmetry
INVARIANTS TypeOK OneImage OneIdentity KeySaved
CHECK_DEADLOCK FALSE

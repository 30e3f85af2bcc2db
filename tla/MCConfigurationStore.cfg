SPECIFICATION Spec
CONSTANTS
    Requests <- ThreeRequests
    Names <- TwoNames
    Embedded <- OneEmbedded
    WorkDirIsStore = FALSE
    MaxBoots = 2
    None = None
    Builtin = Builtin
INVARIANTS  LiveIsPossible LiveKeepsItsFile NamesKnown
CHECK_DEADLOCK FALSE

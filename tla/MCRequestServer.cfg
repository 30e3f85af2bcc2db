SPECIFICATION Spec
CONSTANTS
    Slots = {s1, s2}
    Tids = {"t1"}
    Inputs <- MCInputs
    Embedded <- MCEmbedded
    Servers = 2
    MaxDocs = 1
SYMMETRY SlotSymmetry
INVARIANTS
    CommitPublishesAcknowledged
    ContextsWhole
PROPERTIES
    LostOnlyByError

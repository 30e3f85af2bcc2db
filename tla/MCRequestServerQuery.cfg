SPECIFICATION Spec
CONSTANTS
    Slots = {1}
    Tids = {"t1"}
    Inputs <- QueryInputs
    Embedded <- QueryEmbedded
    Servers = 2
    MaxDocs = 1
INVARIANTS
    MergedFromAll
PROPERTIES
    EveryRequestAnswered

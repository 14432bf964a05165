SPECIFICATION FairNoteSpec
CONSTANTS
    Keys = {k1, k2}
    Unreachable = {k2}
    Replicas = {d1, d2}
    Free = free
    MaxAttempts = 2
    MaxEmits = 3
    MaxRestarts = 1
    MaxFailures = 1
INVARIANTS
    NoteTypeOK
    ResentOnlyIfUnsaved
PROPERTIES
    OutcomesStick
    EveryDeliverySettles

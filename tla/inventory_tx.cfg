SPECIFICATION FairTxSpec
CONSTANTS
    NoRow = NoRow
    Products = {p1, p2}
    Branches = {b1}
    Quantities <- MCQuantities
    Deltas = {}
    Levels <- MCLevels
    CreateInputs <- MCCreateInputs
    MaxStock = 2
    Callers = {c1, c2}
    Creators = {c1}
    Sync = sync
    FeedBranches = {b1}
    Free = free
INVARIANTS
    TxTypeOK
    NoLostUpdate
    ReservedIsHeld
PROPERTIES
    KeepsInventoryPromise
    SoundStaysSound
    UnsoundOnlyRepaired
    EveryTransactionEnds


SPECIFICATION OrderSpec
CONSTANTS
    NoRow = NoRow
    o1 = o1
    o2 = o2
    p1 = p1
    p2 = p2
    b1 = b1
    Products = {p1, p2}
    Branches = {b1}
    Quantities <- MCQuantities
    Deltas <- MCDeltas
    Levels <- MCLevels
    CreateInputs = {}
    MaxStock = 2
    Orders = {o1, o2}
    Handlers = {h1, h2}
    Lines <- MCLines
    Branchless = {}
    Opening <- MCOpening
    CreateStatuses = {"draft", "confirmed", "preparing"}
    PatchStatuses = {}
    StaffCommands = {}
    MayFail = TRUE
    MaxRequests = 4
SYMMETRY AlikeHandlers
INVARIANTS
    OrderTypeOK
    AnnouncedIsCommitted
    TrailEndsAtStatus
    ConfirmedAfterReserving
CHECK_DEADLOCK FALSE

SPECIFICATION ShipSpec
CONSTANTS
    Handlers = {h1, h2}
    Reported = {"in_transit"}
    Unstated = "unstated"
    Envelope = FALSE
    MayFail = TRUE
    MaxLabels = 2
    MaxReports = 2
    MaxDeliveries = 2
    MaxRequests = 3
INVARIANTS
    ShipTypeOK
    CancelledIsReleased
    OneLiveLabel
    AppliedOnce
CHECK_DEADLOCK FALSE
SYMMETRY AlikeHandlers

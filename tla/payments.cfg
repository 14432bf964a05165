SPECIFICATION PaySpec
CONSTANTS
    Handlers = {h1, h2}
    Subtotal = 10
    Prices = {1, 2}
    Asked = {0, 1, 2}
    Unquoted = unquoted
    PolarEvents = {"order.paid", "checkout.updated", "checkout.expired"}
    MayFail = TRUE
    MaxCheckouts = 2
    MaxDeliveries = 2
    MaxRequests = 4
SYMMETRY AlikeHandlers
INVARIANTS
    PayTypeOK
    NoDuplicatePayment
    ChargedWithFreight
CHECK_DEADLOCK FALSE

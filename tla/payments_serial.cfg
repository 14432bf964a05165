SPECIFICATION FairPaySpec
CONSTANTS
    Handlers = {h1}
    Subtotal = 10
    Prices = {1, 2}
    Asked = {0, 1, 2}
    Unquoted = unquoted
    PolarEvents = {"order.paid", "order.refunded", "checkout.updated", "checkout.expired"}
    MayFail = FALSE
    MaxCheckouts = 2
    MaxDeliveries = 1
    MaxRequests = 6
INVARIANTS
    ChargeMatchesOrder
    OneLiveCheckout
PROPERTY
    PaidIsRecorded
CHECK_DEADLOCK FALSE

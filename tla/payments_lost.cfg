SPECIFICATION PaySpec
CONSTANTS
    Handlers = {h1}
    Subtotal = 10
    Prices = {1, 2}
    Asked = {0, 1, 2}
    Unquoted = unquoted
    PolarEvents = {"order.paid"}
    MayFail = TRUE
    MaxCheckouts = 2
    MaxDeliveries = 2
    MaxRequests = 4
INVARIANT AnsweredIsProcessed
CHECK_DEADLOCK FALSE

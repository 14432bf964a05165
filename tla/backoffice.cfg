SPECIFICATION Spec
CONSTANT
    b1 = b1
    b2 = b2
    b3 = b3
    r1 = r1
    r2 = r2
    r3 = r3
    BranchIds = {b1, b2, b3}
    BranchCalls = {r1, r2, r3}
    InvoiceCalls = {r1, r2, r3}
    MaxCalls = 6
    MaxInvoiceCalls = 6
    Lists = {"retail", "trade"}
    Prices = {9996, 12000}
    Quantities = {1000, 2333}
    TaxRate = 1600
    MaxDeals = 2
SYMMETRY Symmetry
INVARIANT
    OneMainPerCustomer
    StampedOnce
PROPERTY
    MainIsKept
    AgreedIsCharged
CHECK_DEADLOCK FALSE

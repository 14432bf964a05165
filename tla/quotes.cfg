SPECIFICATION QuoteSpec
CONSTANTS
    Handlers = {h1, h2}
    Quotes = {q1, q2}
    Accounts = {a1, a2}
    None = None
    Lines = {l1, l2}
    Overlap = FALSE
    MayFail = TRUE
    MaxTime = 1
    MaxRequests = 6
SYMMETRY Sym
INVARIANTS QuoteTypeOK OrderIsAsApproved ReaderFound
PROPERTY KeepsLifecycle
CHECK_DEADLOCK FALSE

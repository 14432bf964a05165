SPECIFICATION Spec
CONSTANT
    Neighbourhoods <- MCNeighbourhoods
INVARIANT
    NoReferenceLost
    PathsAgree
    NothingDangles
PROPERTY
    DocumentsKept
CHECK_DEADLOCK FALSE

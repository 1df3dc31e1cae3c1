SPECIFICATION Spec
CONSTANTS
    None = None
    Rows <- MCRows
    Attr <- MCAttr
    Substrings <- MCSubstrings
    Requests <- MCRequests
    MaxChanges = 2
INVARIANTS
    SeenOnce
PROPERTIES
    ListingEnds

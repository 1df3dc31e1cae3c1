\* Two launches at a time of one name or the other, with relaunches, recoveries
\* and an execution from before inputs were offloaded.
CONSTANTS
    n1 = n1
    n2 = n2
    u1 = u1
    u2 = u2
    h1 = h1
    h2 = h2
    None = None
    Names = {n1, n2}
    Clusters = {c1, c2}
    Handlers = {h1, h2}
    Args = {u1, u2}
    CreateRequests <- MCCreateRequests
    Relaunches <- MCRelaunches
    OldNames = {n1}
SPECIFICATION Spec
CONSTRAINT MCUnambiguous
SYMMETRY MCSymmetry
INVARIANTS
    RowsAreBacked
    RetriesAgree
    RelaunchKeepsInputs

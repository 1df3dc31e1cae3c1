\* A node, its task and a node of the task; two requests at a time.
CONSTANTS
    dyn = dyn
    sub = sub
    try = try
    h1 = h1
    h2 = h2
    None = None
    Nodes = {dyn, sub}
    Tasks = {try}
    Scenarios <- MCScenarios
    MaxSizeInBytes = 2
    DefaultProducerID = DefaultProducerID
    ParentNode <- MCParentNode
    ParentTask <- MCParentTask
    TaskNode <- MCTaskNode
    Handlers = {h1, h2}
    MaxFaults = 1
SYMMETRY Symmetry
CHECK_DEADLOCK FALSE
SPECIFICATION Spec
INVARIANTS
    EveryNodeIsListed
    StartTimesAgree
    DataIsServed
    Converges
PROPERTIES
    ProgressUnlessStale
    ReportedIsKept

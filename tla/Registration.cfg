SPECIFICATION Spec
CONSTANTS
    Tasks <- MCTasks
    UserWorkflows <- MCUserWorkflows
    Requires <- MCRequires
    RequiresPlans <- MCRequiresPlans
    Templates = {s1, s2, bad}
    Rejected = {bad}
    Orders = {1, 2}
    Handlers = {h1, h2}
    MaxRequests = 4
    MaxFaults = 1
    None = None
SYMMETRY Symmetry
INVARIANTS
    ClosureIsServed
    CompiledAgainstRegistered
    SkeletonsAreHidden
\* No requests are left once all of them have returned.
CHECK_DEADLOCK FALSE

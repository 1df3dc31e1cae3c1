SPECIFICATION SessionSpec
CONSTANTS
    None = None
    t1 = t1
    t2 = t2
    a = a
    b = b
    Users = {a, b}
    Tabs = {t1, t2}
    Plans <- MCPlans
    Pathless = {"nowhere"}
    MaxGrants = 3
    MaxFaults = 1
SYMMETRY Symmetric
INVARIANTS
    EndsAsAsked
    IdentityIsWhole
CHECK_DEADLOCK FALSE

SPECIFICATION ClusterSpec
CONSTANTS
    Nothing = Nothing
    Projects <- MCProjects
    Domains <- MCDomains
    Dirs = {"d1", "d2"}
    Files = {"f1"}
    Targets = {"t1", "t2"}
    MaxChanges = 2
    MaxFaults = 1
INVARIANTS
    CacheIsRight
PROPERTIES
    Converges

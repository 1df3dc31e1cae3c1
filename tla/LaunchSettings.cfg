SPECIFICATION Spec
CONSTANTS
    None = None
    h1 = h1
    h2 = h2
    l1 = l1
    l2 = l2
    Workflows = {"w1", "w2"}
    Workloads <- MCWorkloads
    TaskTypes = {"spark", "hive"}
    Plugins = {1, 2, 3, 4}
    Handlers = {h1, h2}
    MaxFaults = 1
    Launches = {l1, l2}
    DefaultResources <- MCDefaults
    LimitResources <- MCLimits
    MaxParallelism = 25
    ExecutionQueues <- MCQueues
    DomainTags <- MCDomainTags
    DefaultTags <- MCDefaultTags
    Clusters = {"c1", "c2"}
    Configurations <- MCConfigurations
    MaxLabels = 2
    ProjectLabels <- MCProjectLabels
    BuiltLabels <- MCBuiltLabels
    RoleNameKey = "role"
    GetWithSeed <- MCGetWithSeed
CHECK_DEADLOCK FALSE
INVARIANTS
    AcknowledgedIsServed
    OverridesApply
    InputsAreBound
    TasksFit
    OneCluster
    AbortStops

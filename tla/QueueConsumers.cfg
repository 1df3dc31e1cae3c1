SPECIFICATION Spec
CONSTANTS
    None = None
    Versions = {"v1", "v2", "v3"}
    Callers = {"c1", "c2"}
    MaxFaults = 1
    Workloads <- MCWorkloads
    Replicas = {"r1", "r2"}
    KickoffTimeArg <- MCKickoffTimeArg
    ExpectedInputs <- MCExpectedInputs
    Notifications <- MCNotifications
    EmailTemplate = {"name", "phase", "error"}
    ReconnectAttempts = 1
INVARIANTS
    ScheduleIsWhole
    HandledBeforeDone
    FiredOnce
    EmailIsRight
PROPERTIES
    Settles
CHECK_DEADLOCK FALSE

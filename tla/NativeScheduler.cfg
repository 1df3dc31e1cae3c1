\* A cron schedule and a fixed rate, one process, three times, three changes of one of them or one of each, two faults.
CONSTANTS
    cron = cron
    rate = rate
    r1 = r1
    None = None
    Schedules = {cron, rate}
    Cron = {cron}
    CronTimes <- MCCronTimes
    Rate <- MCRate
    Replicas = {r1}
    MaxTime = 2
    Horizon = 5
    MaxChanges = 3
    MaxFaults = 2
CHECK_DEADLOCK FALSE
SPECIFICATION FairSpec
INVARIANTS
    NoMissedTime
    SnapshotIsSafe
    AtMostOneAhead
PROPERTIES
    EveryTimeRuns

\* Three versions, two of them with a schedule and one with an
\* empty schedule, and two requests at a time.
CONSTANTS
    v1 = v1
    v2 = v2
    v3 = v3
    h1 = h1
    h2 = h2
    NoVersion = NoVersion
    Versions = {v1, v2, v3}
    Scheduled = {v1, v2}
    WithSchedule = {v1, v2, v3}
    Handlers = {h1, h2}
    Schedulers = {"native", "cloudwatch", "aws"}
SPECIFICATION PlanSpec
SYMMETRY MCSymmetry
INVARIANTS
    OneActiveUnlessStale
    SchedulesFollow

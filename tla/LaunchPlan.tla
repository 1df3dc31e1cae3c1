----------------------------- MODULE LaunchPlan -----------------------------
(***************************************************************************)
(* The versions of one launch plan and their schedules: CreateLaunchPlan   *)
(* and UpdateLaunchPlan (pkg/manager/impl/launch_plan_manager.go) over the *)
(* launch plan repository and a scheduler, either the native one, which    *)
(* keeps an entity per version in the database, or CloudWatch, where all   *)
(* versions of a launch plan share one rule.                               *)
(*                                                                         *)
(* UpdateLaunchPlan reads the launch plans, changes schedules and then the *)
(* launch plans, in database statements and calls of their own; only       *)
(* SetActive is a transaction.                                             *)
(***************************************************************************)
CONSTANTS Versions,     \* versions of the launch plan
          Scheduled,    \* those whose schedule is not empty (isScheduleEmpty)
          WithSchedule, \* those whose spec has a schedule, be it an empty one
          Handlers,     \* goroutines that serve requests
          Schedulers,   \* schedulers to consider: "native", "cloudwatch", and "aws",
                        \* CloudWatch with a prefix of its own in AWSSchedulerConfig
          NoVersion     \* none of them

ASSUME ScheduledAssumption ==
    Scheduled \subseteq WithSchedule /\ WithSchedule \subseteq Versions
ASSUME VersionAssumption == NoVersion \notin Versions
ASSUME SchedulersAssumption == Schedulers \subseteq {"native", "cloudwatch", "aws"}

VARIABLES scheduler,    \* the scheduler of the deployment, never changed
          state,        \* the launch_plans table, column State
          schedule,     \* the schedule kept under each key
          handler,      \* the request each goroutine is serving
          contested,    \* history: versions two requests in flight are about
          doubtful,     \* history: versions whose last request is under way, stopped
                        \* half way, or was contested
          tainted       \* history: SetActive went by a stale active version

planVars == <<scheduler, state, schedule, handler, contested, doubtful, tainted>>

States == {"NONE", "INACTIVE", "ACTIVE"}

\* LaunchPlanRepo.Get: a version without a row is not found.
GetLaunchPlanModel(v) == state[v]

\* The rows the filters of GetActiveLaunchPlanVersionFilters let through.
ActiveVersions == {v \in Versions : state[v] = "ACTIVE"}

\* The state goes to its column and not into the closure.
updateLaunchPlanModelState(v, s) == [state EXCEPT ![v] = s]

\* A schedule is empty without kickoff argument, cron expression and rate; that
\* of no version is.
isScheduleEmpty(v) == v \notin Scheduled

\* hashIdentifier leaves the version out of the name of a CloudWatch rule.  Its
\* prefix is that of EventSchedulerConfig, but a schedule is added with the one
\* of AWSSchedulerConfig where that is configured.
Rules == {"rule", "awsRule"}
Keys == Versions \cup Rules
CreateScheduleInput(v) ==
    IF scheduler = "native" THEN v ELSE IF scheduler = "aws" THEN "awsRule" ELSE "rule"
disableSchedule(v) == IF scheduler = "native" THEN v ELSE "rule"

\* A schedule does not exist, has been deactivated (an entity of the native
\* scheduler stays in its table), or runs for a version.
NoSchedule == [is |-> "none"]
Inactive   == [is |-> "inactive"]
Runs(v)    == [is |-> "active", version |-> v]

Running == {v \in Versions : \E k \in Keys : schedule[k] = Runs(v)}

Idle == [pc |-> "idle"]

\* The steps of an enable request.
Enabling == {"removeFormer", "add", "create", "setActive"}

\* "former" is the active version an enable request found; "stale" holds once
\* another enable request has changed the active version since.
Request == [pc: Enabling, version: Versions, former: Versions \cup {NoVersion},
            stale: BOOLEAN]
               \cup [pc: {"remove", "deactivate"}, version: Versions]

\* The versions a request is about, the one it replaces included.
Touched(request) ==
    IF request = Idle THEN {}
    ELSE IF request.pc \in Enabling THEN {request.version, request.former} \cap Versions
    ELSE {request.version}

PlanInit ==
    /\ scheduler \in Schedulers
    /\ state = [v \in Versions |-> "NONE"]
    /\ schedule = [k \in Keys |-> NoSchedule]
    /\ handler = [h \in Handlers |-> Idle]
    /\ contested = {}
    /\ doubtful = {}
    /\ tainted = FALSE

Goto(h, pc) == handler' = [handler EXCEPT ![h].pc = pc]

Start(h, request) ==
    /\ handler[h] = Idle
    /\ handler' = [handler EXCEPT ![h] = request]
    /\ contested' = contested \cup
          {v \in Touched(request) : \E g \in Handlers : v \in Touched(handler[g])}
    /\ doubtful' = doubtful \cup Touched(request)
    /\ UNCHANGED <<scheduler, state, schedule, tainted>>

\* The request of h is over; those it leaves may still contest a version.
Leaves(h) ==
    contested' = contested \cap UNION {Touched(handler[g]) : g \in Handlers \ {h}}
Succeeds(h) == Leaves(h) /\ doubtful' = doubtful \ (Touched(handler[h]) \ contested)
Stops(h) ==
    /\ handler' = [handler EXCEPT ![h] = Idle]
    /\ Leaves(h) /\ UNCHANGED doubtful

\* CreateLaunchPlan; the key of the table refuses a second version.
CreateLaunchPlan(v) ==
    /\ GetLaunchPlanModel(v) = "NONE"
    /\ state' = [state EXCEPT ![v] = "INACTIVE"]
    /\ UNCHANGED <<scheduler, schedule, handler, contested, doubtful, tainted>>

\* enableLaunchPlan reads the version to enable and lists at most one active
\* version: any of them, for the query has no order.
enableLaunchPlan(h, v, former) ==
    /\ GetLaunchPlanModel(v) # "NONE"
    /\ IF ActiveVersions = {} THEN former = NoVersion ELSE former \in ActiveVersions
    /\ Start(h, [pc |-> IF ~isScheduleEmpty(former) THEN "removeFormer"
                        ELSE IF ~isScheduleEmpty(v) THEN "add" ELSE "setActive",
                 version |-> v, former |-> former, stale |-> FALSE])

\* RemoveSchedule: activateOrDeactivate with no such row, and CloudWatch with
\* no such rule, change nothing.
RemoveSchedule(v) ==
    schedule' = [schedule EXCEPT ![disableSchedule(v)] =
                   IF scheduler # "native" \/ @ = NoSchedule THEN NoSchedule ELSE Inactive]

\* updateSchedules, the schedule of the formerly active version.
RemoveFormerSchedule(h) ==
    /\ handler[h].pc = "removeFormer"
    /\ RemoveSchedule(handler[h].former)
    /\ Goto(h, IF isScheduleEmpty(handler[h].version) THEN "setActive" ELSE "add")
    /\ UNCHANGED <<scheduler, state, contested, doubtful, tainted>>

\* updateSchedules, the schedule of the newly active version.  CloudWatch puts
\* the rule; Activate of the native scheduler sets an entity it has found
\* active, and goes on to create one it has not.
AddSchedule(h) ==
    LET v == handler[h].version
        k == CreateScheduleInput(v)
    IN  /\ handler[h].pc = "add"
        /\ IF scheduler # "native" \/ schedule[k] # NoSchedule
           THEN /\ schedule' = [schedule EXCEPT ![k] = Runs(v)]
                /\ Goto(h, "setActive")
           ELSE /\ Goto(h, "create")
                /\ UNCHANGED schedule
        /\ UNCHANGED <<scheduler, state, contested, doubtful, tainted>>

\* FirstOrCreate of the active entity: an inactive one of the same key, put
\* there since Activate looked, fails the insert and the request.
CreateSchedule(h) ==
    LET v == handler[h].version
    IN  /\ handler[h].pc = "create"
        /\ IF schedule[v] = Inactive
           THEN Stops(h) /\ UNCHANGED schedule
           ELSE /\ schedule' = [schedule EXCEPT ![v] = Runs(v)]
                /\ Goto(h, "setActive")
                /\ UNCHANGED <<contested, doubtful>>
        /\ UNCHANGED <<scheduler, state, tainted>>

\* Variant that forgets to disable the formerly active version.
SetActiveOnly(h) ==
    LET r == handler[h]
    IN  /\ r.pc = "setActive"
        /\ state' = [state EXCEPT ![r.version] = "ACTIVE"]
        /\ tainted' = (tainted \/ r.stale)
        /\ handler' = [handler EXCEPT ![h] = Idle]
        /\ Succeeds(h)
        /\ UNCHANGED <<scheduler, schedule>>

\* The transaction of LaunchPlanRepo.SetActive: the formerly active version is
\* disabled, then the new one is enabled (they may be the same).
SetActive(h) ==
    LET r == handler[h]
    IN  /\ r.pc = "setActive"
        /\ state' = [v \in Versions |-> IF v = r.version THEN "ACTIVE"
                                        ELSE IF v = r.former THEN "INACTIVE"
                                        ELSE state[v]]
        /\ tainted' = (tainted \/ r.stale)
        /\ handler' = [g \in Handlers |->
                         IF g = h THEN Idle
                         ELSE IF handler[g].pc \in Enabling
                         THEN [handler[g] EXCEPT !.stale = TRUE]
                         ELSE handler[g]]
        /\ Succeeds(h)
        /\ UNCHANGED <<scheduler, schedule>>

\* Variant that leaves the schedule of the version alone.
disableLaunchPlanOnly(h, v) ==
    /\ state[v] # "NONE"
    /\ Start(h, [pc |-> "deactivate", version |-> v])

\* disableLaunchPlan reads the version, whatever its state; an empty schedule
\* is reason enough to remove it.
disableLaunchPlan(h, v) ==
    /\ GetLaunchPlanModel(v) # "NONE"
    /\ Start(h, [pc |-> IF v \in WithSchedule THEN "remove" ELSE "deactivate",
                 version |-> v])

\* disableSchedule of the version to disable.
RemoveOwnSchedule(h) ==
    /\ handler[h].pc = "remove"
    /\ RemoveSchedule(handler[h].version)
    /\ Goto(h, "deactivate")
    /\ UNCHANGED <<scheduler, state, contested, doubtful, tainted>>

\* LaunchPlanRepo.Update with the state INACTIVE.
SetInactive(h) ==
    /\ handler[h].pc = "deactivate"
    /\ state' = updateLaunchPlanModelState(handler[h].version, "INACTIVE")
    /\ handler' = [handler EXCEPT ![h] = Idle]
    /\ Succeeds(h)
    /\ UNCHANGED <<scheduler, schedule, tainted>>

\* A statement or a call fails, or the process dies: what is done stays done.
Fail(h) ==
    /\ handler[h] # Idle
    /\ Stops(h)
    /\ UNCHANGED <<scheduler, state, schedule, tainted>>

PlanNext ==
    \/ \E v \in Versions : CreateLaunchPlan(v)
    \/ \E h \in Handlers :
          \/ \E v \in Versions :
                \/ \E former \in Versions \cup {NoVersion} : enableLaunchPlan(h, v, former)
                \/ disableLaunchPlan(h, v)
          \/ RemoveFormerSchedule(h) \/ AddSchedule(h) \/ CreateSchedule(h)
          \/ SetActive(h)
          \/ RemoveOwnSchedule(h) \/ SetInactive(h)
          \/ Fail(h)

PlanSpec == PlanInit /\ [][PlanNext]_planVars

-----------------------------------------------------------------------------

\* The types of the launch_plans rows, the schedules and the requests of
\* UpdateLaunchPlan.
PlanTypeOK ==
    /\ scheduler \in Schedulers
    /\ state \in [Versions -> States]
    /\ schedule \in [Keys -> {NoSchedule, Inactive} \cup {Runs(v) : v \in Versions}]
    /\ handler \in [Handlers -> Request \cup {Idle}]
    /\ contested \subseteq Versions
    /\ doubtful \subseteq Versions
    /\ tainted \in BOOLEAN

\* At most one version is active, whatever fails and whatever enable and
\* disable requests are in flight, until an enable request commits after
\* another one has changed the active version it found: SetActive is atomic,
\* and disables the version enableLaunchPlan listed.
OneActiveUnlessStale == ~tainted => \A v, w \in ActiveVersions : v = w

\* The schedule of a version runs exactly when the version is active, once the
\* last request about it has succeeded and no other about it was in flight
\* with it, whatever other requests are doing, and whatever failed requests and
\* races left behind before.  With CloudWatch, whose rule the versions share,
\* disabling another version stops the schedule of the active one; and where
\* AWSSchedulerConfig has a prefix of its own no schedule is ever removed.
SchedulesFollow ==
    \A v \in Versions \ doubtful :
        /\ scheduler # "aws" /\ v \in Running => v \in ActiveVersions \cap Scheduled
        /\ scheduler = "native" /\ v \in ActiveVersions \cap Scheduled => v \in Running

=============================================================================

------------------------- MODULE CloudWatchScheduler -------------------------
(***************************************************************************)
(* Schedules kept in AWS CloudWatch                                        *)
(* (pkg/async/schedule/aws/cloud_watch_scheduler.go) and the requests of   *)
(* UpdateLaunchPlan that add and remove them.  A schedule is a rule, which *)
(* says when, and a target of the rule, which says what to send; both have *)
(* the name of the launch plan, whatever its version, after a prefix, and  *)
(* are put and deleted by calls of their own, any of which may fail.       *)
(***************************************************************************)
EXTENDS Naturals

CONSTANTS Versions,      \* versions of the launch plan, all with a schedule
          Callers,       \* goroutines serving UpdateLaunchPlan
          MaxFaults,     \* bound: failed calls and crashes
          None

VARIABLES active,        \* the active version
          rule,          \* the version the rule was put for
          target,        \* the version the target was put for
          caller,        \* the request each goroutine serves
          requests,      \* bound: requests still to come
          faults,        \* bound: faults so far
          failed,        \* history: a request failed half way
          overlapped,    \* history: what requests were in flight at once
          ownPrefix      \* AWSSchedulerConfig has another prefix; never changed

schedules == <<active, rule, target, caller, requests, failed, overlapped, ownPrefix>>

Idle == [pc |-> "idle"]

Goto(c, pc) == caller' = [caller EXCEPT ![c].pc = pc]

\* A version may be active from before, with its schedule.
CWInit(version, toCome, prefix) ==
    /\ active = version /\ rule = version /\ target = version
    /\ caller = [c \in Callers |-> Idle]
    /\ requests = toCome
    /\ failed = FALSE /\ overlapped = {}
    /\ ownPrefix = prefix

Start(c, request) ==
    /\ caller[c] = Idle /\ requests > 0
    /\ requests' = requests - 1
    /\ caller' = [caller EXCEPT ![c] = request]
    /\ overlapped' = overlapped \cup
                       {{request.enable, caller[d].enable} : d \in {e \in Callers : caller[e] # Idle}}
    /\ UNCHANGED <<active, rule, target, failed, faults, ownPrefix>>

\* enableLaunchPlan removes the schedule of the active version, adds its own,
\* and makes the version active; disableLaunchPlan removes the schedule.
enableLaunchPlan(c, v) ==
    Start(c, [pc |-> IF active # None THEN "removeTargets" ELSE "putRule",
              version |-> v, enable |-> TRUE])

VariantKeepsSchedule(c, v) ==
    Start(c, [pc |-> "setInactive", version |-> v, enable |-> FALSE])
disableLaunchPlan(c, v) ==
    Start(c, [pc |-> "removeTargets", version |-> v, enable |-> FALSE])

-----------------------------------------------------------------------------
(* RemoveSchedule.  disableSchedule asks for the name with the prefix of   *)
(* the event scheduler, CreateScheduleInput has put the rule under that of *)
(* AWSSchedulerConfig where it has one.                                    *)

\* No such rule, and no such target, is fine.
RemoveTargets(c) ==
    /\ caller[c].pc = "removeTargets"
    /\ target' = IF ownPrefix THEN target ELSE None
    /\ Goto(c, "deleteRule")
    /\ UNCHANGED <<active, rule, requests, failed, overlapped, faults, ownPrefix>>

AfterRemoval(c) == IF caller[c].enable THEN "putRule" ELSE "setInactive"

\* CloudWatch does not delete a rule that has targets.
DeleteRule(c) ==
    /\ caller[c].pc = "deleteRule" /\ (ownPrefix \/ target = None)
    /\ rule' = IF ownPrefix THEN rule ELSE None
    /\ Goto(c, AfterRemoval(c))
    /\ UNCHANGED <<active, target, requests, failed, overlapped, faults, ownPrefix>>

Stop(c) ==
    /\ caller' = [caller EXCEPT ![c] = Idle]
    /\ failed' = TRUE
    /\ UNCHANGED <<active, rule, target, requests, overlapped, ownPrefix>>

DeleteRuleRefused(c) ==
    /\ caller[c].pc = "deleteRule" /\ ~ownPrefix /\ target # None
    /\ Stop(c) /\ UNCHANGED faults

-----------------------------------------------------------------------------
(* AddSchedule.                                                            *)

\* A rule that exists is overwritten, and keeps its target.
PutRule(c) ==
    /\ caller[c].pc = "putRule"
    /\ rule' = caller[c].version
    /\ Goto(c, "putTargets")
    /\ UNCHANGED <<active, target, requests, failed, overlapped, faults, ownPrefix>>

\* CloudWatch does not add targets to a rule that does not exist.
PutTargets(c) ==
    /\ caller[c].pc = "putTargets" /\ rule # None
    /\ target' = caller[c].version
    /\ Goto(c, "setActive")
    /\ UNCHANGED <<active, rule, requests, failed, overlapped, faults, ownPrefix>>

PutTargetsRefused(c) ==
    /\ caller[c].pc = "putTargets" /\ rule = None
    /\ Stop(c) /\ UNCHANGED faults

SetActive(c) ==
    /\ caller[c].pc = "setActive"
    /\ active' = caller[c].version
    /\ caller' = [caller EXCEPT ![c] = Idle]
    /\ UNCHANGED <<rule, target, requests, failed, overlapped, faults, ownPrefix>>

SetInactive(c) ==
    /\ caller[c].pc = "setInactive"
    /\ active' = IF active = caller[c].version THEN None ELSE active
    /\ caller' = [caller EXCEPT ![c] = Idle]
    /\ UNCHANGED <<rule, target, requests, failed, overlapped, faults, ownPrefix>>

\* A call fails, or has failed entries: the request ends there.
CallFails(c) ==
    /\ caller[c] # Idle /\ faults < MaxFaults
    /\ faults' = faults + 1
    /\ Stop(c)

CWNext ==
    \E c \in Callers :
        \/ \E v \in Versions : enableLaunchPlan(c, v) \/ disableLaunchPlan(c, v)
        \/ RemoveTargets(c) \/ DeleteRule(c) \/ DeleteRuleRefused(c)
        \/ PutRule(c) \/ PutTargets(c) \/ PutTargetsRefused(c)
        \/ SetActive(c) \/ SetInactive(c)
        \/ CallFails(c)

\* A schedule that fires, once no request is under way, is all of one version:
\* the times of one version never start the launch plan with the kickoff
\* argument of another.  It is so although requests to enable and to disable
\* versions interleave their calls, as long as all of them succeed and no two
\* requests to enable do; and it is the active version's when requests come
\* one after the other.  Where AWSSchedulerConfig has a prefix of its own, the
\* schedule of the last active version goes on when it is disabled.
ScheduleIsWhole ==
    /\ ~failed /\ \A c \in Callers : caller[c] = Idle
    /\ {TRUE} \notin overlapped
    /\ rule # None /\ target # None
    => /\ rule = target
       /\ overlapped = {} => rule = active \/ (ownPrefix /\ active = None)

=============================================================================

--------------------------- MODULE NativeScheduler ---------------------------
(***************************************************************************)
(* The native scheduler (scheduler/): processes that read the schedules    *)
(* the launch plan manager keeps in the database, run them with a cron     *)
(* library, catch up at boot on the times missed while down, and save a    *)
(* snapshot of the last time each schedule has run.                        *)
(*                                                                         *)
(* A schedule is a cron expression, due at the times it matches, or a      *)
(* fixed rate, due a period after the time it was added to cron, and so    *)
(* on.  Time is counted in units of the schedules' granularity.            *)
(***************************************************************************)
EXTENDS Integers, FiniteSets

CONSTANTS Schedules,
          Cron,         \* those with a cron expression
          CronTimes,    \* the times each cron expression matches
          Rate,         \* the period of each fixed rate
          Replicas,     \* scheduler processes ("two at the most")
          MaxTime,      \* the last time that comes
          Horizon,      \* a later time, matched by every cron expression
          MaxChanges,   \* bound on activations, deactivations and schedules together
          MaxFaults,    \* bound on crashes and on calls that fail for good
          None

ASSUME CronAssumption == Cron \subseteq Schedules
ASSUME TimeAssumption == MaxTime \in Nat /\ Horizon \in Nat /\ MaxTime < Horizon
ASSUME CronTimesAssumption ==
    /\ CronTimes \in [Cron -> SUBSET (1 .. Horizon)]
    /\ \A s \in Cron : Horizon \in CronTimes[s]
ASSUME RateAssumption == Rate \in [Schedules \ Cron -> Nat \ {0}]
ASSUME NoneAssumption ==
    /\ None \notin [active: BOOLEAN, updatedAt: Nat]
    /\ None \notin [from: Int, lastTime: Int]
    /\ None \notin [schedule: Schedules, time: Int]

VARIABLES now,
          entity,       \* the schedulable_entities table
          saved,        \* the last row of schedule_entities_snapshots
          proc,         \* the memory of each process
          executions,   \* the scheduled executions admin has, by their name
          excused,      \* history: times that no process has to run any more
          changes,      \* activations and deactivations so far
          faults        \* crashes and failed calls so far

vars == <<now, entity, saved, proc, executions, excused, changes, faults>>

\* A time that is not known.
Never == -1

Down == [phase |-> "down"]
Up(r) == proc[r].phase \in {"boot", "catchup", "running"}

NoTimes == [s \in Schedules |-> Never]

Init ==
    /\ now = 0
    /\ entity = [s \in Schedules |-> None]
    /\ saved = NoTimes
    /\ proc = [r \in Replicas |-> Down]
    /\ executions = {}
    /\ excused = {}
    /\ changes = 0
    /\ faults = 0

-----------------------------------------------------------------------------

\* The next time after t a schedule is due: cron.ParseStandard(...).Next and
\* ConstantDelaySchedule.Next.
GetScheduledTime(s, t) ==
    IF s \in Cron
    THEN CHOOSE u \in CronTimes[s] : u > t /\ \A v \in CronTimes[s] : v > t => u <= v
    ELSE t + Rate[s]

Rows == {s \in Schedules : entity[s] # None}

\* Activate creates the entity or sets it active; Deactivate changes nothing
\* where there is none.  Both statements set updated_at.
Activate(s) ==
    /\ changes + Cardinality({s} \cup Rows) <= MaxChanges
    /\ changes' = changes + 1
    /\ entity' = [entity EXCEPT ![s] = [active |-> TRUE, updatedAt |-> now]]
    /\ UNCHANGED <<now, saved, proc, executions, excused, faults>>

Deactivate(s) ==
    /\ s \in Rows
    /\ changes + Cardinality(Rows) <= MaxChanges
    /\ changes' = changes + 1
    /\ entity' = [entity EXCEPT ![s] = [active |-> FALSE, updatedAt |-> now]]
    /\ UNCHANGED <<now, saved, proc, executions, excused, faults>>

-----------------------------------------------------------------------------

\* ScheduleEntitiesSnapshotRepo: Read returns the last row, Write adds one.
SnapshotRepoRead == saved
SnapshotRepoWrite(times) == saved' = times

\* snapshoter.Read at the start of Run: no row, no times.
ReadSnapshot(r) ==
    /\ proc[r] = Down
    /\ proc' = [proc EXCEPT ![r] = [phase |-> "snapshot", last |-> SnapshotRepoRead]]
    /\ UNCHANGED <<now, entity, saved, executions, excused, changes, faults>>

\* ScheduleJob: the entry of cron, and whether its job is the one of the store.
ScheduleJob(s) == [schedule |-> s, next |-> GetScheduledTime(s, now), stored |-> TRUE]

Active == {s \in Schedules : entity[s] # None /\ entity[s].active}

\* Variant that starts each schedule afresh.
BootStrapFromNow(r) ==
    /\ proc[r].phase = "snapshot"
    /\ proc' = [proc EXCEPT ![r] =
         [phase   |-> "boot",
          job     |-> [s \in Schedules |->
                         IF s \in Active
                         THEN [from |-> now, lastTime |-> Never]
                         ELSE None],
          entries |-> {ScheduleJob(s) : s \in Active},
          calls   |-> {},
          todo    |-> {},
          at      |-> None,
          until   |-> Never]]
    /\ UNCHANGED <<now, entity, saved, executions, excused, changes, faults>>

\* UpdatedAt of the row GetAll returns last: the query has no order.
LastUpdatedAt == IF Rows = {} THEN {Never} ELSE {entity[s].updatedAt : s \in Rows}

\* GetAll, and a job in the store and in cron for each active schedule.  Cron is
\* running already.  The job is to be caught up from its last time of the
\* snapshot or, where its activation is later, from the UpdatedAt its pointer
\* into the loop's variable leads to: when the loop is over, that of the last
\* row.  The times since its own activation up to that one are given up.
BootStrapSchedulesFromSnapShot(r) ==
    /\ proc[r].phase = "snapshot"
    /\ \E lastUpdated \in LastUpdatedAt :
         /\ proc' = [proc EXCEPT ![r] =
              [phase   |-> "boot",
               job     |-> [s \in Schedules |->
                              IF s \in Active
                              THEN [from |-> IF proc[r].last[s] > entity[s].updatedAt
                                             THEN proc[r].last[s] ELSE lastUpdated,
                                    lastTime |-> Never]
                              ELSE None],
               entries |-> {ScheduleJob(s) : s \in Active},
               calls   |-> {},
               todo    |-> {},
               at      |-> None,
               until   |-> Never]]
         /\ excused' = excused \cup
              {st \in Active \X (0 .. lastUpdated) :
                 st[2] > entity[st[1]].updatedAt /\ proc[r].last[st[1]] <= entity[st[1]].updatedAt}
    /\ UNCHANGED <<now, entity, saved, executions, changes, faults>>

\* GetExecutionIdentifier: a hash of the launch plan and the scheduled time, so
\* that every attempt at a time, of any process, uses the same name.
GetExecutionIdentifier(s, t) == <<s, t>>

\* The outcomes of Execute: admin has the execution, made now or found to exist
\* already; or the retries are used up, and admin may have made it all the same.
Execute(s, t, ok) ==
    /\ \/ executions' = executions \cup {GetExecutionIdentifier(s, t)}
       \/ ~ok /\ executions' = executions
    /\ ok \/ faults < MaxFaults
    /\ faults' = IF ok THEN faults ELSE faults + 1

\* CatchupAll starts, until the current time.
CatchupAll(r) ==
    /\ proc[r].phase = "boot"
    /\ proc' = [proc EXCEPT ![r].phase = "catchup",
                            ![r].until = now,
                            ![r].todo  = {s \in Schedules : proc[r].job[s] # None}]
    /\ UNCHANGED <<now, entity, saved, executions, excused, changes, faults>>

\* Variant that looks at the end of the period, not at its start.
CatchUpPast(r, s, t) ==
    IF t <= proc[r].until + 1 THEN [schedule |-> s, time |-> t] ELSE None

\* GetCatchUpTimes goes on from time t.
CatchUpFrom(r, s, t) ==
    IF t < proc[r].until THEN [schedule |-> s, time |-> t] ELSE None

\* jobStore.Range comes to a schedule.  A job that has been removed since, or
\* that the updater has added, has nothing to catch up.
CatchupRange(r, s) ==
    /\ proc[r].phase = "catchup" /\ proc[r].at = None
    /\ s \in proc[r].todo
    /\ proc' = [proc EXCEPT
         ![r].todo = @ \ {s},
         ![r].at   = IF proc[r].job[s] # None /\ proc[r].job[s].from # Never
                     THEN CatchUpFrom(r, s, proc[r].job[s].from) ELSE None]
    /\ UNCHANGED <<now, entity, saved, executions, excused, changes, faults>>

\* Variant that stays where a time has failed.
CatchUpSingleScheduleHangs(r) ==
    /\ proc[r].phase = "catchup" /\ proc[r].at # None
    /\ LET s == proc[r].at.schedule
           t == GetScheduledTime(s, proc[r].at.time)
       IN  \E ok \in BOOLEAN :
             /\ Execute(s, t, ok)
             /\ proc' = [proc EXCEPT ![r] =
                           IF ok THEN [@ EXCEPT !.at = CatchUpFrom(r, s, t)]
                                 ELSE [phase |-> "failed"]]
    /\ UNCHANGED <<now, entity, saved, excused, changes>>

\* One time of CatchUpSingleSchedule: the next after the time before, as long
\* as that one is before the end.  Failing ends the process.
CatchUpSingleSchedule(r) ==
    /\ proc[r].phase = "catchup" /\ proc[r].at # None
    /\ LET s == proc[r].at.schedule
           t == GetScheduledTime(s, proc[r].at.time)
       IN  \E ok \in BOOLEAN :
             /\ Execute(s, t, ok)
             /\ proc' = [proc EXCEPT ![r] =
                           IF ok THEN [@ EXCEPT !.at = CatchUpFrom(r, s, t)]
                                 ELSE Down]
    /\ UNCHANGED <<now, entity, saved, excused, changes>>

CatchupDone(r) ==
    /\ proc[r].phase = "catchup" /\ proc[r].at = None /\ proc[r].todo = {}
    /\ proc' = [proc EXCEPT ![r].phase = "running"]
    /\ UNCHANGED <<now, entity, saved, executions, excused, changes, faults>>

-----------------------------------------------------------------------------

\* Only AddCronJob keeps the handle cron gives it.  That of a fixed rate entry
\* is dropped: cron.Remove finds nothing, and the entry stays.
Removable(e) == e.schedule \in Cron

\* An entry or a call of a job that is deleted from the store keeps the job.
LeftStore(x, removed) == [x EXCEPT !.stored = @ /\ x.schedule \notin removed]

\* DeScheduleJob deletes the job from the store and its entry from cron.
DeScheduleJob(entries, removed) ==
    {LeftStore(e, removed) :
       e \in {e \in entries : ~(e.schedule \in removed /\ Removable(e))}}

\* The updater: GetAll, and UpdateSchedules deschedules the inactive schedules
\* and schedules the active ones that have no job.
UpdateSchedules(r) ==
    LET removed == {s \in Schedules \ Active : proc[r].job[s] # None}
        added   == {s \in Active : proc[r].job[s] = None}
    IN  /\ Up(r)
        /\ removed \cup added # {}
        /\ proc' = [proc EXCEPT
             ![r].job     = [s \in Schedules |->
                               IF s \in removed THEN None
                               ELSE IF s \in added
                               THEN [from |-> Never, lastTime |-> Never]
                               ELSE @[s]],
             ![r].entries = DeScheduleJob(@, removed) \cup {ScheduleJob(s) : s \in added},
             ![r].calls   = {LeftStore(c, removed) : c \in @}]
        /\ excused' = excused \cup
             {st \in added \X (0 .. now) : st[2] > entity[st[1]].updatedAt}
        /\ UNCHANGED <<now, entity, saved, executions, changes, faults>>

\* cron starts the goroutine of an entry that is due, with the time it is for.
Fire(r, e) ==
    /\ e \in proc[r].entries
    /\ e.next <= now
    /\ proc' = [proc EXCEPT
         ![r].entries = (@ \ {e}) \cup {[e EXCEPT !.next = GetScheduledTime(e.schedule, now)]},
         ![r].calls   = @ \cup {[schedule |-> e.schedule, time |-> e.next,
                                 stored |-> e.stored, called |-> FALSE]}]
    /\ UNCHANGED <<now, entity, saved, executions, excused, changes, faults>>

\* Run of a job: Execute, and a look at lastTime, which is read and set without
\* a lock.  A job that has left the store is in no snapshot.
Run(r, c) ==
    /\ c \in proc[r].calls /\ ~c.called
    /\ \E ok \in BOOLEAN :
          /\ Execute(c.schedule, c.time, ok)
          /\ excused' = IF ok THEN excused ELSE excused \cup {<<c.schedule, c.time>>}
    /\ proc' = [proc EXCEPT ![r].calls = (@ \ {c}) \cup
         IF c.stored /\ proc[r].job[c.schedule].lastTime < c.time
         THEN {[c EXCEPT !.called = TRUE]} ELSE {}]
    /\ UNCHANGED <<now, entity, saved, changes>>

\* Run sets lastTime.  The calls of the schedule for earlier times that are
\* still in flight are overtaken: a restart does not catch up on them.
SetLastTime(r, c) ==
    /\ c \in proc[r].calls /\ c.called
    /\ proc' = [proc EXCEPT
         ![r].calls = @ \ {c},
         ![r].job   = [s \in Schedules |-> IF s = c.schedule /\ c.stored
                                           THEN [@[s] EXCEPT !.lastTime = c.time]
                                           ELSE @[s]]]
    /\ excused' = IF c.stored
                  THEN excused \cup {<<c.schedule, d.time>> : d \in
                         {d \in proc[r].calls : /\ d.schedule = c.schedule
                                                /\ d.time < c.time /\ ~d.called}}
                  ELSE excused
    /\ UNCHANGED <<now, entity, saved, executions, changes, faults>>

\* CalculateSnapshot: the last times of the jobs in the store.
CalculateSnapshot(r) ==
    [s \in Schedules |-> IF proc[r].job[s] = None THEN Never
                         ELSE proc[r].job[s].lastTime]

\* Save writes a new row, which Read finds first, unless there is nothing in it.
Save(times) ==
    /\ times # NoTimes
    /\ SnapshotRepoWrite(times)

\* Variant that also saves while the schedules are being caught up.
SnapshotAnyTime(r) ==
    /\ Up(r)
    /\ Save(CalculateSnapshot(r))
    /\ UNCHANGED <<now, entity, proc, executions, excused, changes, faults>>

\* Snapshotrunner.Run.  It starts once the schedules have been caught up.
Snapshot(r) ==
    /\ proc[r].phase = "running"
    /\ Save(CalculateSnapshot(r))
    /\ UNCHANGED <<now, entity, proc, executions, excused, changes, faults>>

\* The process dies, with the calls in flight.
Crash(r) ==
    /\ proc[r] # Down
    /\ faults < MaxFaults
    /\ faults' = faults + 1
    /\ proc' = [proc EXCEPT ![r] = Down]
    /\ UNCHANGED <<now, entity, saved, executions, excused, changes>>

\* Time passes; cron has started what is due.
Tick ==
    /\ now < MaxTime
    /\ \A r \in Replicas : Up(r) => \A e \in proc[r].entries : e.next > now
    /\ now' = now + 1
    /\ UNCHANGED <<entity, saved, proc, executions, excused, changes, faults>>

\* ScheduledExecutor.Run starts the steps of a process in this order; the updater,
\* cron and the snapshots then run side by side.
Step(r) ==
    \/ ReadSnapshot(r) \/ BootStrapSchedulesFromSnapShot(r)
    \/ CatchupAll(r) \/ \E s \in Schedules : CatchupRange(r, s)
    \/ CatchUpSingleSchedule(r) \/ CatchupDone(r)
    \/ UpdateSchedules(r) \/ Snapshot(r) \/ Crash(r)
    \/ Up(r) /\ \/ \E e \in proc[r].entries : Fire(r, e)
                \/ \E c \in proc[r].calls : Run(r, c) \/ SetLastTime(r, c)

Next ==
    \/ \E s \in Schedules : Activate(s) \/ Deactivate(s)
    \/ \E r \in Replicas : Step(r)
    \/ Tick

Spec == Init /\ [][Next]_vars

\* The processes are restarted and keep running their goroutines, cron starts
\* what is due and time goes on.  Nothing obliges users to change schedules, a
\* call to fail or a process to die.
Fairness ==
    /\ WF_vars(Tick)
    /\ \A r \in Replicas :
          /\ WF_vars(ReadSnapshot(r) \/ BootStrapSchedulesFromSnapShot(r)
                     \/ CatchupAll(r) \/ CatchupDone(r)
                     \/ CatchUpSingleSchedule(r)
                     \/ \E s \in Schedules : CatchupRange(r, s))
          /\ WF_vars(UpdateSchedules(r))
          /\ WF_vars(Up(r) /\ \E e \in proc[r].entries : Fire(r, e))
          /\ WF_vars(Up(r) /\ \E c \in proc[r].calls : Run(r, c) \/ SetLastTime(r, c))

FairSpec == Spec /\ Fairness

-----------------------------------------------------------------------------

\* A process that has caught up misses no time of a cron schedule since its
\* activation: the execution is there, or is being made, or one of four things
\* has happened.  All retries failed (Execute); a later time of the schedule was
\* recorded first (Run), and the process died; the updater added the schedule
\* only after the time (UpdateSchedules); or a process started for which the
\* snapshot had no time of the schedule since its activation, and the row it
\* read last was updated after the time (BootStrapSchedulesFromSnapShot).  No
\* crash, catch-up, old snapshot, second process or second schedule loses any
\* other.
NoMissedTime ==
    \A r \in Replicas, s \in Cron :
       proc[r].phase = "running" /\ proc[r].job[s] # None /\ s \in Active =>
          \A t \in CronTimes[s] : entity[s].updatedAt < t /\ t <= now =>
             \/ <<s, t>> \in executions \cup excused
             \/ \E c \in proc[r].calls : c.schedule = s /\ c.time = t
             \/ \E e \in proc[r].entries : e.schedule = s /\ e.next = t

\* The snapshot only moves the start of the next catch-up past times that are
\* done: whatever process saved it, and whenever.
SnapshotIsSafe ==
    \A s \in Cron \cap Active :
       \A t \in CronTimes[s] : entity[s].updatedAt < t /\ t <= saved[s] =>
          <<s, t>> \in executions \cup excused

\* Executions are for times that are due or, since GetCatchUpTimes goes on to
\* the first time past the end, for the next time of the schedule.
AtMostOneAhead ==
    \A st \in executions : st[2] <= GetScheduledTime(st[1], now)

\* Every time of a cron schedule that comes while it is active is run, late by
\* any number of crashes and failed calls, unless one of the four things above
\* has happened or the schedule has been changed since.
EveryTimeRuns ==
    \A s \in Cron : \A t \in {t \in CronTimes[s] : t <= MaxTime} :
       (t <= now /\ s \in Active /\ entity[s].updatedAt < t)
          ~> \/ <<s, t>> \in executions \cup excused
             \/ s \notin Active \/ entity[s].updatedAt >= t

=============================================================================

--------------------------- MODULE SchedulingProofs ---------------------------
(***************************************************************************)
(* The native scheduler loses no time of a cron schedule, for any number   *)
(* of schedules, processes, crashes and changes; and the schedules it has  *)
(* to run are those of the launch plan versions that are active.  The two  *)
(* components have their own constants, variables and specifications, Spec *)
(* of NativeScheduler and PlanSpec of LaunchPlan.                          *)
(***************************************************************************)
EXTENDS NativeScheduler, LaunchPlan, FiniteSetTheorems, TLAPS

Entity == [active: BOOLEAN, updatedAt: Nat]
Job == [from: Int, lastTime: Int]
Entry == [schedule: Schedules, next: Int, stored: BOOLEAN]
Call == [schedule: Schedules, time: Int, stored: BOOLEAN, called: BOOLEAN]
Place == [schedule: Schedules, time: Int]
Reading == [phase: {"snapshot"}, last: [Schedules -> Int]]
Working ==
    [phase: {"boot", "catchup", "running"}, job: [Schedules -> Job \cup {None}],
     entries: SUBSET Entry, calls: SUBSET Call, todo: SUBSET Schedules,
     at: Place \cup {None}, until: Int]

TypeOK ==
    /\ now \in 0 .. MaxTime
    /\ entity \in [Schedules -> Entity \cup {None}]
    /\ saved \in [Schedules -> Int]
    /\ proc \in [Replicas -> {Down} \cup Reading \cup Working]
    /\ executions \subseteq Schedules \X Int
    /\ excused \subseteq Schedules \X Int

\* What is recorded in the database has come already.
Past ==
    /\ \A s \in Schedules : saved[s] <= now
    /\ \A s \in Schedules : entity[s] # None => entity[s].updatedAt <= now

Done(s, t) == <<s, t>> \in executions \cup excused
Due(s, t) == s \in Active /\ entity[s].updatedAt < t

\* The memory p of a process: what has been read or started is past, what cron
\* waits for is not.
Timely(p) ==
    /\ p \in Reading => \A s \in Schedules : p.last[s] <= now
    /\ p \in Working =>
          /\ p.until <= now
          /\ p.at # None => p.at.time < p.until
          /\ \A s \in Schedules : p.job[s] # None => p.job[s].lastTime <= now
          /\ \A c \in p.calls : c.time <= now
          /\ \A e \in p.entries : now <= e.next

\* Calls and entries of the store have a job; a call that has returned has made
\* its execution, or failed for good.
Sound(p) ==
    p \in Working =>
       /\ \A c \in p.calls : c.stored => p.job[c.schedule] # None
       /\ \A e \in p.entries : e.stored => p.job[e.schedule] # None
       /\ \A c \in p.calls : c.called => Done(c.schedule, c.time)

\* Cron has an entry for the next time of each schedule.
Awaits(p) ==
    p \in Working =>
       \A s \in Cron : p.job[s] # None =>
          \E e \in p.entries :
             e.schedule = s /\ \A t \in CronTimes[s] : now < t => e.next <= t

\* The catch-up is still to come to time t of a schedule.
CatchingUp(p, s, t) ==
    \/ /\ p.phase = "boot"
       /\ p.job[s].from # Never /\ p.job[s].from < t
    \/ /\ p.phase = "catchup" /\ t <= p.until
       /\ \/ s \in p.todo /\ p.job[s].from # Never /\ p.job[s].from < t
          \/ p.at # None /\ p.at.schedule = s /\ p.at.time < t

Called(p, s, t) == \E c \in p.calls : c.schedule = s /\ c.time = t
Entered(p, s, t) == \E e \in p.entries : e.schedule = s /\ e.next = t

\* A time that has come is done, or a goroutine or the catch-up is to do it.
Covers(p) ==
    p \in Working =>
       \A s \in Cron : p.job[s] # None =>
          \A t \in CronTimes[s] : Due(s, t) /\ t <= now =>
             Done(s, t) \/ Called(p, s, t) \/ Entered(p, s, t) \/ CatchingUp(p, s, t)

\* What the next snapshot skips is done, or the catch-up is to do it first.
LastIsSafe(p) ==
    p \in Working =>
       \A s \in Cron : p.job[s] # None =>
          \A t \in CronTimes[s] : Due(s, t) /\ t <= p.job[s].lastTime =>
             Done(s, t) \/ CatchingUp(p, s, t)

\* What the snapshot that was read skips is done.
ReadIsSafe(p) ==
    p \in Reading =>
       \A s \in Cron : \A t \in CronTimes[s] : Due(s, t) /\ t <= p.last[s] => Done(s, t)

Fine(p) ==
    Timely(p) /\ Sound(p) /\ Awaits(p) /\ Covers(p) /\ LastIsSafe(p) /\ ReadIsSafe(p)

IInv == /\ TypeOK /\ Past /\ SnapshotIsSafe /\ AtMostOneAhead
        /\ \A r \in Replicas : Fine(proc[r])

-----------------------------------------------------------------------------

\* A set of times has a first one.
LEMMA Least ==
    ASSUME NEW h \in Nat, NEW S, S \subseteq 0 .. h, S # {}
    PROVE  \E u \in S : \A v \in S : u <= v
<1>. DEFINE T == {0 .. v : v \in S}
<1>1. IsWellFoundedOn(StrictSubsetOrdering(0 .. h), FiniteSubsetsOf(0 .. h))
  BY FS_StrictSubsetOrderingWellFounded, Zenon
<1>2. T \subseteq FiniteSubsetsOf(0 .. h)
  <2>1. ASSUME NEW v \in S PROVE 0 .. v \in FiniteSubsetsOf(0 .. h)
    <3>1. IsFiniteSet(0 .. v)
      BY FS_Interval
    <3>. QED  BY <3>1 DEF FiniteSubsetsOf
  <2>. QED  BY <2>1, Zenon
<1>3. T # {}
  BY Zenon
<1>. HIDE DEF T
<1>4. PICK x \in T : \A y \in T : ~ (<<y, x>> \in StrictSubsetOrdering(0 .. h))
  BY <1>1, <1>2, <1>3, WFMin, Zenon
<1>5. PICK u \in S : x = 0 .. u
  BY Zenon DEF T
<1>6. ASSUME NEW v \in S, v < u PROVE FALSE
  <2>1. 0 .. v \in T
    BY Zenon DEF T
  <2>2. 0 .. v \subseteq 0 .. u /\ 0 .. v # 0 .. u
    BY <1>6
  <2>3. 0 .. v \in SUBSET (0 .. h) /\ 0 .. u \in SUBSET (0 .. h)
    OBVIOUS
  <2>. QED  BY <1>4, <1>5, <2>1, <2>2, <2>3, Zenon DEF StrictSubsetOrdering
<1>. QED  BY <1>6

\* GetScheduledTime is later and, for a cron expression, the first that matches.
LEMMA ScheduledTime ==
    ASSUME NEW s \in Schedules, NEW t \in Int, t < Horizon
    PROVE  /\ GetScheduledTime(s, t) \in Int /\ t < GetScheduledTime(s, t)
           /\ s \in Cron =>
                 /\ GetScheduledTime(s, t) \in CronTimes[s]
                 /\ \A v \in CronTimes[s] : t < v => GetScheduledTime(s, t) <= v
<1>1. CASE s \notin Cron
  BY <1>1, RateAssumption DEF GetScheduledTime
<1>2. CASE s \in Cron
  <2>. DEFINE S == {v \in CronTimes[s] : v > t}
  <2>1. S \subseteq 0 .. Horizon /\ Horizon \in S /\ Horizon \in Nat
    BY <1>2, CronTimesAssumption, TimeAssumption
  <2>2. PICK u \in S : \A v \in S : u <= v
    BY <2>1, Least, Zenon
  <2>3. u \in CronTimes[s] /\ u > t /\ \A v \in CronTimes[s] : v > t => u <= v
    BY <2>2, Zenon
  <2>4. LET w == GetScheduledTime(s, t)
        IN  w \in CronTimes[s] /\ w > t /\ \A v \in CronTimes[s] : v > t => w <= v
    BY <1>2, <2>3, Zenon DEF GetScheduledTime
  <2>5. CronTimes[s] \subseteq Int
    BY <1>2, CronTimesAssumption
  <2>. QED  BY <1>2, <2>4, <2>5, Zenon
<1>. QED  BY <1>1, <1>2, Zenon

LEMMA ScheduledLater ==
    ASSUME NEW s \in Schedules, NEW t \in Int, NEW u \in Int, t <= u, u < Horizon
    PROVE  GetScheduledTime(s, t) <= GetScheduledTime(s, u)
<1>1. CASE s \notin Cron
  BY <1>1, RateAssumption DEF GetScheduledTime
<1>2. CASE s \in Cron
  <2>1. /\ GetScheduledTime(s, u) \in CronTimes[s]
        /\ u < GetScheduledTime(s, u) /\ GetScheduledTime(s, u) \in Int
    BY <1>2, ScheduledTime, Zenon
  <2>2. \A v \in CronTimes[s] : t < v => GetScheduledTime(s, t) <= v
    BY <1>2, ScheduledTime, TimeAssumption
  <2>. QED  BY <2>1, <2>2
<1>. QED  BY <1>1, <1>2, Zenon

-----------------------------------------------------------------------------

\* A process that does nothing is none the worse for the executions of others.
LEMMA Framed ==
    ASSUME NEW p, UNCHANGED <<now, entity>>, Fine(p),
           executions \subseteq executions', excused \subseteq excused'
    PROVE  Fine(p)'
<1>1. \A s, t : Done(s, t) => Done(s, t)'
  BY Zenon DEF Done
<1>2. \A s, t : Due(s, t)' <=> Due(s, t)
  BY Zenon DEF Due, Active
<1>3. Timely(p)' /\ Sound(p)' /\ Awaits(p)'
  BY <1>1, Zenon DEF Fine, Timely, Sound, Awaits
<1>4. Covers(p)'
  BY <1>1, <1>2, Zenon DEF Fine, Covers, Called, Entered, CatchingUp
<1>5. LastIsSafe(p)'
  BY <1>1, <1>2, Zenon DEF Fine, LastIsSafe, CatchingUp
<1>6. ReadIsSafe(p)'
  BY <1>1, <1>2, Zenon DEF Fine, ReadIsSafe
<1>. QED  BY <1>3, <1>4, <1>5, <1>6, Zenon DEF Fine

\* A step of process r that leaves its memory q.
LEMMA OneProcess ==
    ASSUME IInv, NEW r \in Replicas, NEW q \in {Down} \cup Reading \cup Working,
           proc' = [proc EXCEPT ![r] = q], UNCHANGED <<now, entity, saved>>,
           executions \subseteq executions', executions' \subseteq Schedules \X Int,
           excused \subseteq excused', excused' \subseteq Schedules \X Int,
           AtMostOneAhead', Fine(q)'
    PROVE  IInv'
<1>1. TypeOK' /\ Past'
  BY Zenon DEF IInv, TypeOK, Past
<1>2. SnapshotIsSafe'
  BY Zenon DEF IInv, SnapshotIsSafe, Active
<1>3. ASSUME NEW x \in Replicas PROVE Fine(proc[x])'
  <2>1. CASE x = r
    <3>1. proc'[x] = q
      BY <2>1, Zenon DEF IInv, TypeOK
    <3>. QED  BY <3>1 DEF Fine, Timely, Sound, Awaits, Covers, LastIsSafe, ReadIsSafe
  <2>2. CASE x # r
    <3>1. PICK p : p = proc[x]
      BY Zenon
    <3>2. Fine(p)'
      BY <3>1, Framed, Zenon DEF IInv
    <3>3. proc'[x] = p
      BY <2>2, <3>1, Zenon DEF IInv, TypeOK
    <3>. QED  BY <3>2, <3>3, Zenon
  <2>. QED  BY <2>1, <2>2, Zenon
<1>. QED  BY <1>1, <1>2, <1>3, Zenon DEF IInv

LEMMA FineDown == Fine(Down)'
<1>. Down \notin Reading /\ Down \notin Working
  BY Zenon DEF Down, Reading, Working
<1>. QED  BY Zenon DEF Fine, Timely, Sound, Awaits, Covers, LastIsSafe, ReadIsSafe

LEMMA InitIInv == Init => IInv
<1>. SUFFICES ASSUME Init PROVE IInv
  BY Zenon
<1>1. TypeOK /\ Past
  BY TimeAssumption DEF Init, TypeOK, Past, NoTimes, Never
<1>2. SnapshotIsSafe /\ AtMostOneAhead
  BY Zenon DEF Init, SnapshotIsSafe, AtMostOneAhead, Active
<1>3. ASSUME NEW r \in Replicas PROVE Fine(proc[r])
  <2>1. proc[r] = Down
    BY Zenon DEF Init
  <2>. Down \notin Reading /\ Down \notin Working
    BY Zenon DEF Down, Reading, Working
  <2>. QED
    BY <2>1, Zenon DEF Fine, Timely, Sound, Awaits, Covers, LastIsSafe, ReadIsSafe
<1>. QED  BY <1>1, <1>2, <1>3, Zenon DEF IInv

-----------------------------------------------------------------------------

LEMMA Kinds ==
    ASSUME IInv, NEW r \in Replicas
    PROVE  /\ proc[r].phase = "snapshot" => proc[r] \in Reading
           /\ Up(r) => proc[r] \in Working
<1>1. proc[r] \in {Down} \cup Reading \cup Working
  BY Zenon DEF IInv, TypeOK
<1>2. CASE proc[r] = Down
  BY <1>2 DEF Down, Up
<1>3. CASE proc[r] \in Reading
  BY <1>3, Zenon DEF Reading, Up
<1>4. CASE proc[r] \in Working
  BY <1>4, Zenon DEF Working, Up
<1>. QED  BY <1>1, <1>2, <1>3, <1>4, Zenon

LEMMA QuietStep ==
    ASSUME IInv, UNCHANGED <<now, executions>>
    PROVE  AtMostOneAhead' /\ executions \subseteq executions' /\ executions' \subseteq Schedules \X Int
BY Zenon DEF IInv, TypeOK, AtMostOneAhead

\* An execution for a time no later than the next one.
LEMMA Executed ==
    ASSUME IInv, NEW s \in Schedules, NEW t \in Int, NEW ok \in BOOLEAN,
           t <= GetScheduledTime(s, now), Execute(s, t, ok), now' = now
    PROVE  /\ AtMostOneAhead' /\ executions \subseteq executions'
           /\ executions' \subseteq Schedules \X Int
           /\ ok => <<s, t>> \in executions'
<1>1. executions' \subseteq executions \cup {<<s, t>>} /\ executions \subseteq executions'
  BY Zenon DEF Execute, GetExecutionIdentifier
<1>2. ok => <<s, t>> \in executions'
  BY Zenon DEF Execute, GetExecutionIdentifier
<1>3. AtMostOneAhead'
  BY <1>1 DEF IInv, AtMostOneAhead
<1>. QED  BY <1>1, <1>2, <1>3 DEF IInv, TypeOK

LEMMA ReadSnapshotStep ==
    ASSUME IInv, NEW r \in Replicas, ReadSnapshot(r) PROVE IInv'
<1>1. PICK q : q = [phase |-> "snapshot", last |-> saved]
  BY Zenon
<1>2. q \in Reading /\ q \notin Working
  BY <1>1, Zenon DEF IInv, TypeOK, Reading, Working
<1>3. UNCHANGED <<now, entity, saved, executions, excused>> /\ proc' = [proc EXCEPT ![r] = q]
  BY <1>1, Zenon DEF ReadSnapshot, SnapshotRepoRead
<1>4. Timely(q)'
  BY <1>1, <1>2, <1>3, Zenon DEF Timely, IInv, Past
<1>5. ReadIsSafe(q)'
  <2>. SUFFICES ASSUME NEW s \in Cron, NEW t \in CronTimes[s], Due(s, t), t <= saved[s]
                PROVE  Done(s, t)
    BY <1>1, <1>3, Zenon DEF ReadIsSafe, Due, Done, Active
  <2>. QED  BY Zenon DEF IInv, SnapshotIsSafe, Due, Done
<1>6. Fine(q)'
  BY <1>2, <1>4, <1>5, Zenon DEF Fine, Sound, Awaits, Covers, LastIsSafe
<1>. QED  BY <1>2, <1>3, <1>6, QuietStep, OneProcess, Zenon DEF IInv, TypeOK

LEMMA BootStrapStep ==
    ASSUME IInv, NEW r \in Replicas, BootStrapSchedulesFromSnapShot(r) PROVE IInv'
<1>. PICK lastUpdated \in LastUpdatedAt :
        /\ proc' = [proc EXCEPT ![r] =
             [phase   |-> "boot",
              job     |-> [s \in Schedules |->
                             IF s \in Active
                             THEN [from |-> IF proc[r].last[s] > entity[s].updatedAt
                                            THEN proc[r].last[s] ELSE lastUpdated,
                                   lastTime |-> Never]
                             ELSE None],
              entries |-> {ScheduleJob(s) : s \in Active},
              calls   |-> {}, todo |-> {}, at |-> None, until |-> Never]]
        /\ excused' = excused \cup
             {st \in Active \X (0 .. lastUpdated) :
                st[2] > entity[st[1]].updatedAt /\ proc[r].last[st[1]] <= entity[st[1]].updatedAt}
  BY Zenon DEF BootStrapSchedulesFromSnapShot
<1>. DEFINE from(s) == IF proc[r].last[s] > entity[s].updatedAt
                       THEN proc[r].last[s] ELSE lastUpdated
            new(s) == IF s \in Active THEN [from |-> from(s), lastTime |-> Never] ELSE None
<1>1. PICK q : q = [phase |-> "boot", job |-> [s \in Schedules |-> new(s)],
                    entries |-> {ScheduleJob(s) : s \in Active}, calls |-> {},
                    todo |-> {}, at |-> None, until |-> Never]
  BY Zenon
<1>2. UNCHANGED <<now, entity, saved, executions>> /\ proc' = [proc EXCEPT ![r] = q]
  BY <1>1, Zenon DEF BootStrapSchedulesFromSnapShot
<1>3. proc[r] \in Reading /\ Fine(proc[r]) /\ proc[r].last \in [Schedules -> Int]
  BY Kinds, Zenon DEF BootStrapSchedulesFromSnapShot, IInv, Reading
<1>4. now \in 0 .. MaxTime /\ now < Horizon /\ Cron \subseteq Schedules
  BY TimeAssumption, CronAssumption DEF IInv, TypeOK
<1>5. ASSUME NEW s \in Active
      PROVE  /\ entity[s].updatedAt \in Nat
             /\ lastUpdated \in Nat /\ from(s) \in Nat
             /\ from(s) = proc[r].last[s] \/ (from(s) = lastUpdated /\ proc[r].last[s] <= entity[s].updatedAt)
             /\ new(s) \in Job /\ new(s) # None
             /\ new(s).from = from(s) /\ new(s).lastTime = Never
  <2>1. entity[s].updatedAt \in Nat
    BY Zenon DEF Active, IInv, TypeOK, Entity
  <2>0. lastUpdated \in Nat
    <3>1. s \in Rows
      BY Zenon DEF Active, Rows
    <3>2. PICK x \in Rows : lastUpdated = entity[x].updatedAt
      BY <3>1, Zenon DEF LastUpdatedAt
    <3>. QED  BY <3>2, Zenon DEF Rows, IInv, TypeOK, Entity
  <2>2. /\ from(s) \in Nat
        /\ from(s) = proc[r].last[s] \/ (from(s) = lastUpdated /\ proc[r].last[s] <= entity[s].updatedAt)
    BY <1>3, <2>0, <2>1 DEF Active
  <2>3. new(s) = [from |-> from(s), lastTime |-> Never] /\ new(s) \in Job
    BY <2>2 DEF Job, Never
  <2>4. new(s) # None
    BY <2>3, NoneAssumption, Zenon DEF Job
  <2>. QED  BY <2>0, <2>1, <2>2, <2>3, <2>4, Zenon
<1>. HIDE DEF new, from
<1>6. \A s \in Schedules : s \notin Active => new(s) = None
  BY Zenon DEF new
<1>7. ASSUME NEW s \in Schedules
      PROVE  /\ ScheduleJob(s) \in Entry /\ ScheduleJob(s).next > now
             /\ ScheduleJob(s).schedule = s /\ ScheduleJob(s).next = GetScheduledTime(s, now)
  BY <1>4, ScheduledTime DEF ScheduleJob, Entry
<1>8. /\ q.phase = "boot" /\ q.job = [s \in Schedules |-> new(s)]
      /\ q.entries = {ScheduleJob(s) : s \in Active} /\ q.calls = {}
      /\ q.at = None /\ q.until = Never
  BY <1>1, Zenon
<1>9. q \in Working /\ q \notin Reading
  <2>1. [s \in Schedules |-> new(s)] \in [Schedules -> Job \cup {None}]
    BY <1>5, <1>6, Zenon
  <2>2. {ScheduleJob(s) : s \in Active} \subseteq Entry
    BY <1>7, Zenon DEF Active
  <2>. QED  BY <1>1, <2>1, <2>2 DEF Working, Reading, Never
<1>10. Timely(q)'
  <2>1. \A s \in Schedules : q.job[s] # None => q.job[s].lastTime <= now
    BY <1>4, <1>5, <1>6, <1>8 DEF Never
  <2>2. \A e \in q.entries : now <= e.next
    BY <1>4, <1>7, <1>8 DEF Active, Entry
  <2>. QED  BY <1>2, <1>4, <1>8, <1>9, <2>1, <2>2 DEF Timely, Never
<1>11. Sound(q)'
  BY <1>5, <1>7, <1>8 DEF Sound, Active
<1>12. Awaits(q)'
  <2>. SUFFICES ASSUME NEW s \in Cron, q.job[s] # None
                PROVE  \E e \in q.entries :
                          e.schedule = s /\ \A t \in CronTimes[s] : now < t => e.next <= t
    BY <1>2, Zenon DEF Awaits
  <2>1. s \in Active
    BY <1>4, <1>6, <1>8, Zenon
  <2>2. \A t \in CronTimes[s] : now < t => ScheduleJob(s).next <= t
    BY <1>4, <1>7, ScheduledTime
  <2>3. ScheduleJob(s) \in q.entries
    BY <1>8, <2>1, Zenon
  <2>. QED  BY <1>4, <1>7, <2>2, <2>3, Zenon
<1>13. Covers(q)'
  <2>. SUFFICES ASSUME NEW s \in Cron, q.job[s] # None, NEW t \in CronTimes[s], Due(s, t)
                PROVE  Done(s, t)' \/ CatchingUp(q, s, t)
    BY <1>2, Zenon DEF Covers, Due, Active
  <2>1. s \in Active /\ q.job[s].from = from(s) /\ t \in Int
    BY <1>4, <1>5, <1>6, <1>8, CronTimesAssumption
  <2>2. CASE from(s) < t
    BY <1>5, <1>8, <2>1, <2>2 DEF CatchingUp, Never
  <2>3. CASE t <= from(s) /\ from(s) = proc[r].last[s]
    <3>1. Done(s, t)
      BY <1>3, <2>3, Zenon DEF Fine, ReadIsSafe
    <3>. QED  BY <1>2, <3>1 DEF Done
  <2>4. CASE t <= from(s) /\ from(s) = lastUpdated /\ proc[r].last[s] <= entity[s].updatedAt
    <3>1. s \in Active /\ t \in 0 .. lastUpdated /\ t > entity[s].updatedAt
      BY <1>5, <2>1, <2>4 DEF Due
    <3>. QED  BY <2>4, <3>1 DEF Done
  <2>. QED  BY <1>5, <2>1, <2>2, <2>3, <2>4
<1>14. LastIsSafe(q)'
  <2>. SUFFICES ASSUME NEW s \in Cron, q.job[s] # None, NEW t \in CronTimes[s],
                       t <= q.job[s].lastTime
                PROVE  FALSE
    BY Zenon DEF LastIsSafe
  <2>. QED  BY <1>4, <1>5, <1>6, <1>8, CronTimesAssumption DEF Never
<1>15. Fine(q)'
  BY <1>9, <1>10, <1>11, <1>12, <1>13, <1>14, Zenon DEF Fine, ReadIsSafe
<1>16. excused \subseteq excused' /\ excused' \subseteq Schedules \X Int
  BY DEF Active, IInv, TypeOK
<1>. QED  BY <1>2, <1>9, <1>15, <1>16, QuietStep, OneProcess, Zenon

-----------------------------------------------------------------------------

\* A step of the catch-up of process r, from memory p to q.
LEMMA CatchUpStep ==
    ASSUME IInv, NEW r \in Replicas, NEW p \in Working, NEW q \in Working,
           p = proc[r], proc' = [proc EXCEPT ![r] = q], UNCHANGED <<now, entity, saved, excused>>,
           executions \subseteq executions', executions' \subseteq Schedules \X Int, AtMostOneAhead',
           q.job = p.job, q.calls = p.calls, q.entries = p.entries,
           q.until <= now, q.at # None => q.at.time < q.until,
           \A s \in Cron : p.job[s] # None => \A t \in CronTimes[s] :
              t <= now /\ CatchingUp(p, s, t) => Done(s, t)' \/ CatchingUp(q, s, t)
    PROVE  IInv'
<1>1. Fine(p)
  BY Zenon DEF IInv
<1>2. \A s, t : Done(s, t) => Done(s, t)'
  BY Zenon DEF Done
<1>3. \A s, t : Due(s, t)' <=> Due(s, t)
  BY Zenon DEF Due, Active
<1>4. now \in Int
  BY DEF IInv, TypeOK
<1>5. Timely(q)' /\ Sound(q)' /\ Awaits(q)'
  <2>1. q \notin Reading
    BY Zenon DEF Working, Reading
  <2>2. Timely(q)'
    BY <1>1, <2>1, Zenon DEF Fine, Timely
  <2>3. Sound(q)'
    BY <1>1, <1>2, Zenon DEF Fine, Sound
  <2>. QED  BY <1>1, <2>2, <2>3, Zenon DEF Fine, Awaits
<1>6. Covers(q)'
  BY <1>1, <1>2, <1>3, Zenon DEF Fine, Covers, Called, Entered
<1>7. LastIsSafe(q)'
  <2>. SUFFICES ASSUME NEW s \in Cron, p.job[s] # None, NEW t \in CronTimes[s],
                       Due(s, t), t <= p.job[s].lastTime
                PROVE  Done(s, t)' \/ CatchingUp(q, s, t)
    BY <1>3, Zenon DEF LastIsSafe, CatchingUp
  <2>1. s \in Schedules /\ t \in Int
    BY CronAssumption, CronTimesAssumption
  <2>2. p.job[s].lastTime \in Int
    BY <2>1, Zenon DEF Working, Job
  <2>3. p.job[s].lastTime <= now
    BY <1>1, <2>1, Zenon DEF Fine, Timely
  <2>4. t <= now
    BY <1>4, <2>1, <2>2, <2>3
  <2>5. Done(s, t) \/ CatchingUp(p, s, t)
    BY <1>1, Zenon DEF Fine, LastIsSafe
  <2>. QED  BY <1>2, <2>4, <2>5, Zenon
<1>8. ReadIsSafe(q)'
  BY Zenon DEF ReadIsSafe, Working, Reading
<1>9. Fine(q)'
  BY <1>5, <1>6, <1>7, <1>8, Zenon DEF Fine
<1>. QED  BY <1>9, OneProcess, Zenon DEF IInv, TypeOK

LEMMA CatchupAllStep ==
    ASSUME IInv, NEW r \in Replicas, CatchupAll(r) PROVE IInv'
<1>1. PICK p : p = proc[r]
  BY Zenon
<1>2. PICK q : q = [p EXCEPT !.phase = "catchup", !.until = now,
                             !.todo = {s \in Schedules : p.job[s] # None}]
  BY Zenon
<1>3. p \in Working /\ p.phase = "boot" /\ Fine(p) /\ now \in Int
  BY <1>1, Kinds DEF CatchupAll, IInv, Up, TypeOK
<1>4. UNCHANGED <<now, entity, saved, executions, excused>> /\ proc' = [proc EXCEPT ![r] = q]
  BY <1>1, <1>2, Zenon DEF CatchupAll, IInv, TypeOK
<1>5. /\ q \in Working /\ q.job = p.job /\ q.calls = p.calls /\ q.entries = p.entries
      /\ q.phase = "catchup" /\ q.until = now /\ q.at = p.at
      /\ q.todo = {s \in Schedules : p.job[s] # None}
  BY <1>2, <1>3, Zenon DEF Working
<1>6. q.at # None => q.at.time < q.until
  BY <1>3, <1>5 DEF Fine, Timely, Working, Place
<1>7. \A s \in Cron : p.job[s] # None => \A t \in CronTimes[s] :
         t <= now /\ CatchingUp(p, s, t) => CatchingUp(q, s, t)
  BY <1>3, <1>5, CronAssumption, Zenon DEF CatchingUp
<1>8. q.until <= now
  BY <1>3, <1>5
<1>9. AtMostOneAhead' /\ executions \subseteq executions' /\ executions' \subseteq Schedules \X Int
  BY <1>4, QuietStep, Zenon
<1>. QED  BY <1>1, <1>3, <1>4, <1>5, <1>6, <1>7, <1>8, <1>9, CatchUpStep, Zenon

LEMMA CatchupDoneStep ==
    ASSUME IInv, NEW r \in Replicas, CatchupDone(r) PROVE IInv'
<1>1. PICK p : p = proc[r]
  BY Zenon
<1>2. PICK q : q = [p EXCEPT !.phase = "running"]
  BY Zenon
<1>3. /\ p \in Working /\ p.phase = "catchup" /\ p.at = None /\ p.todo = {}
      /\ Fine(p) /\ now \in Int
  BY <1>1, Kinds DEF CatchupDone, IInv, Up, TypeOK
<1>4. UNCHANGED <<now, entity, saved, executions, excused>> /\ proc' = [proc EXCEPT ![r] = q]
  BY <1>1, <1>2, Zenon DEF CatchupDone, IInv, TypeOK
<1>5. /\ q \in Working /\ q.job = p.job /\ q.calls = p.calls /\ q.entries = p.entries
      /\ q.until = p.until /\ q.at = p.at
  BY <1>2, <1>3, Zenon DEF Working
<1>6. q.until <= now
  BY <1>3, <1>5, Zenon DEF Fine, Timely
<1>7. \A s, t : ~CatchingUp(p, s, t)
  BY <1>3, Zenon DEF CatchingUp
<1>. QED  BY <1>1, <1>3, <1>4, <1>5, <1>6, <1>7, QuietStep, CatchUpStep, Zenon

\* GetCatchUpTimes goes on while there are times to catch up.
LEMMA CatchUpFromFacts ==
    ASSUME NEW r \in Replicas, NEW s \in Schedules, NEW t \in Int
    PROVE  /\ CatchUpFrom(r, s, t) \in Place \cup {None}
           /\ CatchUpFrom(r, s, t) # None =>
                 t < proc[r].until /\ CatchUpFrom(r, s, t).time = t
           /\ t < proc[r].until =>
                 /\ CatchUpFrom(r, s, t) # None
                 /\ CatchUpFrom(r, s, t).schedule = s /\ CatchUpFrom(r, s, t).time = t
<1>. [schedule |-> s, time |-> t] \in Place /\ None \notin Place
  BY NoneAssumption, Zenon DEF Place
<1>. QED  BY Zenon DEF CatchUpFrom

LEMMA CatchupRangeStep ==
    ASSUME IInv, NEW r \in Replicas, NEW s \in Schedules, CatchupRange(r, s) PROVE IInv'
<1>1. PICK p : p = proc[r]
  BY Zenon
<1>2. PICK at : at = IF p.job[s] # None /\ p.job[s].from # Never
                     THEN CatchUpFrom(r, s, p.job[s].from) ELSE None
  BY Zenon
<1>3. PICK q : q = [p EXCEPT !.todo = p.todo \ {s}, !.at = at]
  BY Zenon
<1>4. p \in Working /\ p.phase = "catchup" /\ p.at = None /\ Fine(p) /\ now \in Int
  BY <1>1, Kinds DEF CatchupRange, IInv, Up, TypeOK
<1>5. UNCHANGED <<now, entity, saved, executions, excused>> /\ proc' = [proc EXCEPT ![r] = q]
  BY <1>1, <1>2, <1>3, Zenon DEF CatchupRange, IInv, TypeOK
<1>6. p.job[s] # None => p.job[s].from \in Int
  BY <1>4, Zenon DEF Working, Job
<1>7. at \in Place \cup {None} /\ (at # None => at.time < p.until)
  BY <1>1, <1>2, <1>6, CatchUpFromFacts, Zenon
<1>8. /\ q \in Working /\ q.job = p.job /\ q.calls = p.calls /\ q.entries = p.entries
      /\ q.until = p.until /\ q.at = at /\ q.todo = p.todo \ {s} /\ q.phase = "catchup"
  BY <1>3, <1>4, <1>7, Zenon DEF Working
<1>9. q.until <= now
  BY <1>4, <1>8, Zenon DEF Fine, Timely
<1>10. ASSUME NEW x \in Cron, p.job[x] # None, NEW t \in CronTimes[x], CatchingUp(p, x, t)
       PROVE  CatchingUp(q, x, t)
  <2>1. /\ t <= p.until /\ x \in p.todo /\ p.job[x].from # Never /\ p.job[x].from < t
    BY <1>4, <1>10, Zenon DEF CatchingUp
  <2>2. CASE x # s
    BY <1>8, <2>1, <2>2, Zenon DEF CatchingUp
  <2>3. CASE x = s
    <3>1. t \in Int /\ p.until \in Int
      BY <1>4, CronTimesAssumption DEF Working
    <3>2. p.job[s].from < p.until /\ at = CatchUpFrom(r, s, p.job[s].from)
      BY <1>2, <1>6, <1>10, <2>1, <2>3, <3>1
    <3>3. at # None /\ at.schedule = s /\ at.time = p.job[s].from
      BY <1>1, <1>6, <1>10, <2>3, <3>2, CatchUpFromFacts, Zenon
    <3>. QED  BY <1>8, <2>1, <2>3, <3>3, Zenon DEF CatchingUp
  <2>. QED  BY <2>2, <2>3, Zenon
<1>. QED  BY <1>1, <1>4, <1>5, <1>7, <1>8, <1>9, <1>10, QuietStep, CatchUpStep, Zenon

LEMMA CrashStep ==
    ASSUME IInv, NEW r \in Replicas, Crash(r) PROVE IInv'
BY QuietStep, FineDown, OneProcess, Zenon DEF Crash, IInv, TypeOK

\* The step goes to the first time after the one before: none is left out.
LEMMA CatchUpSingleScheduleStep ==
    ASSUME IInv, NEW r \in Replicas, CatchUpSingleSchedule(r) PROVE IInv'
<1>1. PICK p : p = proc[r]
  BY Zenon
<1>2. p \in Working /\ p.phase = "catchup" /\ p.at # None /\ Fine(p)
  BY <1>1, Kinds, Zenon DEF CatchUpSingleSchedule, IInv, Up
<1>3. p.at \in Place
  BY <1>2, Zenon DEF Working
<1>4. PICK s \in Schedules, b \in Int : s = p.at.schedule /\ b = p.at.time
  BY <1>3, Zenon DEF Place
<1>5. PICK t : t = GetScheduledTime(s, b)
  BY Zenon
<1>6. PICK ok \in BOOLEAN :
         /\ Execute(s, t, ok)
         /\ proc' = [proc EXCEPT ![r] = IF ok THEN [@ EXCEPT !.at = CatchUpFrom(r, s, t)]
                                              ELSE Down]
  BY <1>1, <1>4, <1>5, Zenon DEF CatchUpSingleSchedule
<1>7. UNCHANGED <<now, entity, saved, excused>>
  BY Zenon DEF CatchUpSingleSchedule
<1>8. /\ now \in Int /\ now < Horizon /\ Horizon \in Int
      /\ p.until \in Int /\ p.until <= now /\ b < p.until
  BY <1>2, <1>4, TimeAssumption DEF IInv, TypeOK, Fine, Timely, Working
<1>9. /\ t \in Int
      /\ s \in Cron => \A v \in CronTimes[s] : b < v => t <= v
  BY <1>5, <1>8, ScheduledTime
<1>10. t <= GetScheduledTime(s, now)
  BY <1>5, <1>8, ScheduledLater
<1>11. /\ AtMostOneAhead' /\ executions \subseteq executions'
       /\ executions' \subseteq Schedules \X Int
       /\ ok => <<s, t>> \in executions'
  BY <1>6, <1>7, <1>9, <1>10, Executed, Zenon
<1>12. CASE ~ok
  <2>1. proc' = [proc EXCEPT ![r] = Down]
    BY <1>6, <1>12, Zenon
  <2>. QED  BY <1>7, <1>11, <2>1, FineDown, OneProcess, Zenon DEF IInv, TypeOK
<1>13. CASE ok
  <2>1. PICK at : at = CatchUpFrom(r, s, t)
    BY Zenon
  <2>2. PICK q : q = [p EXCEPT !.at = at]
    BY Zenon
  <2>3. proc' = [proc EXCEPT ![r] = q]
    BY <1>1, <1>6, <1>13, <2>1, <2>2, Zenon DEF IInv, TypeOK
  <2>4. at \in Place \cup {None} /\ (at # None => at.time < p.until)
    BY <1>1, <1>9, <2>1, CatchUpFromFacts, Zenon
  <2>5. /\ q \in Working /\ q.job = p.job /\ q.calls = p.calls /\ q.entries = p.entries
        /\ q.until = p.until /\ q.at = at /\ q.todo = p.todo /\ q.phase = "catchup"
    BY <1>2, <2>2, <2>4, Zenon DEF Working
  <2>6. ASSUME NEW x \in Cron, p.job[x] # None, NEW v \in CronTimes[x], CatchingUp(p, x, v)
        PROVE  Done(x, v)' \/ CatchingUp(q, x, v)
    <3>1. v <= p.until /\ v \in Int
      BY <1>2, <2>6, CronTimesAssumption DEF CatchingUp
    <3>2. CASE x \in p.todo /\ p.job[x].from # Never /\ p.job[x].from < v
      BY <2>5, <3>1, <3>2, Zenon DEF CatchingUp
    <3>3. CASE p.at.schedule = x /\ p.at.time < v
      <4>1. x = s /\ t <= v
        BY <1>4, <1>9, <3>3, Zenon
      <4>2. CASE t = v
        BY <1>11, <1>13, <4>1, <4>2, Zenon DEF Done
      <4>3. CASE t < v
        <5>1. t < p.until
          BY <1>8, <1>9, <3>1, <4>3
        <5>2. at # None /\ at.schedule = s /\ at.time = t
          BY <1>1, <1>9, <2>1, <5>1, CatchUpFromFacts, Zenon
        <5>. QED  BY <2>5, <3>1, <4>1, <4>3, <5>2, Zenon DEF CatchingUp
      <4>. QED  BY <1>9, <3>1, <4>1, <4>2, <4>3
    <3>. QED  BY <1>2, <2>6, <3>2, <3>3, Zenon DEF CatchingUp
  <2>. QED  BY <1>1, <1>2, <1>7, <1>8, <1>11, <2>3, <2>4, <2>5, <2>6, CatchUpStep, Zenon
<1>. QED  BY <1>12, <1>13, Zenon

-----------------------------------------------------------------------------

\* A change of a schedule excuses the times up to now.
LEMMA Changed ==
    ASSUME IInv, NEW s \in Schedules, NEW b \in BOOLEAN,
           entity' = [entity EXCEPT ![s] = [active |-> b, updatedAt |-> now]],
           UNCHANGED <<now, saved, proc, executions, excused>>
    PROVE  IInv'
<1>1. now \in Nat /\ Cron \subseteq Schedules
  BY CronAssumption DEF IInv, TypeOK
<1>2. [active |-> b, updatedAt |-> now] \in Entity
  BY <1>1, Zenon DEF Entity
<1>3. TypeOK' /\ Past'
  <2>1. entity' \in [Schedules -> Entity \cup {None}]
    BY <1>2, Zenon DEF IInv, TypeOK
  <2>2. \A x \in Schedules : entity'[x] # None => entity'[x].updatedAt <= now
    BY <1>1 DEF IInv, TypeOK, Past
  <2>. QED  BY <2>1, <2>2, Zenon DEF IInv, TypeOK, Past
<1>4. \A x \in Cron : \A t \in CronTimes[x] : Due(x, t)' /\ t <= now => Due(x, t)
  <2>. SUFFICES ASSUME NEW x \in Cron, NEW t \in CronTimes[x], Due(x, t)', t <= now
                PROVE  Due(x, t)
    BY Zenon
  <2>1. CASE x # s
    BY <1>1, <2>1, Zenon DEF Due, Active, IInv, TypeOK
  <2>2. CASE x = s
    <3>1. entity'[s].updatedAt = now
      BY Zenon DEF IInv, TypeOK
    <3>. QED  BY <1>1, <2>2, <3>1, CronTimesAssumption DEF Due
  <2>. QED  BY <2>1, <2>2, Zenon
<1>5. SnapshotIsSafe'
  <2>. SUFFICES ASSUME NEW x \in Cron, NEW t \in CronTimes[x], Due(x, t)', t <= saved[x]
                PROVE  Done(x, t)
    BY Zenon DEF SnapshotIsSafe, Due, Done
  <2>1. t <= now
    BY <1>1, CronTimesAssumption DEF IInv, TypeOK, Past
  <2>. QED  BY <1>4, <2>1, Zenon DEF IInv, SnapshotIsSafe, Due, Done
<1>6. AtMostOneAhead'
  BY Zenon DEF IInv, AtMostOneAhead
<1>7. ASSUME NEW p \in {Down} \cup Reading \cup Working, Fine(p) PROVE Fine(p)'
  <2>1. Timely(p)' /\ Sound(p)' /\ Awaits(p)'
    BY <1>7, Zenon DEF Fine, Timely, Sound, Awaits, Done
  <2>2. Covers(p)'
    BY <1>4, <1>7, Zenon DEF Fine, Covers, Done, Called, Entered, CatchingUp
  <2>3. LastIsSafe(p)'
    <3>. SUFFICES ASSUME p \in Working, NEW x \in Cron, p.job[x] # None,
                         NEW t \in CronTimes[x], Due(x, t)', t <= p.job[x].lastTime
                  PROVE  Done(x, t) \/ CatchingUp(p, x, t)
      BY Zenon DEF LastIsSafe, Done, CatchingUp
    <3>1. p.job[x].lastTime \in Int /\ p.job[x].lastTime <= now
      BY <1>1, <1>7, Zenon DEF Fine, Timely, Working, Job
    <3>2. t <= now
      BY <1>1, <3>1, CronTimesAssumption
    <3>. QED  BY <1>4, <1>7, <3>2, Zenon DEF Fine, LastIsSafe
  <2>4. ReadIsSafe(p)'
    <3>. SUFFICES ASSUME p \in Reading, NEW x \in Cron, NEW t \in CronTimes[x],
                         Due(x, t)', t <= p.last[x]
                  PROVE  Done(x, t)
      BY Zenon DEF ReadIsSafe, Done
    <3>1. p.last[x] \in Int /\ p.last[x] <= now
      BY <1>1, <1>7, Zenon DEF Fine, Timely, Reading
    <3>2. t <= now
      BY <1>1, <3>1, CronTimesAssumption
    <3>. QED  BY <1>4, <1>7, <3>2, Zenon DEF Fine, ReadIsSafe
  <2>. QED  BY <2>1, <2>2, <2>3, <2>4, Zenon DEF Fine
<1>8. ASSUME NEW r \in Replicas PROVE Fine(proc[r])'
  <2>1. PICK p : p = proc[r]
    BY Zenon
  <2>2. Fine(p)'
    BY <1>7, <2>1, Zenon DEF IInv, TypeOK
  <2>. QED  BY <2>1, <2>2, Zenon
<1>. QED  BY <1>3, <1>5, <1>6, <1>8, Zenon DEF IInv

LEMMA TickStep ==
    ASSUME IInv, Tick PROVE IInv'
<1>1. /\ now \in Nat /\ now' = now + 1 /\ now' \in 0 .. MaxTime /\ now' < Horizon
      /\ UNCHANGED <<entity, saved, proc, executions, excused>>
  BY TimeAssumption DEF IInv, TypeOK, Tick
<1>2. TypeOK' /\ Past'
  BY <1>1 DEF IInv, TypeOK, Past, Entity
<1>3. SnapshotIsSafe'
  BY <1>1, Zenon DEF IInv, SnapshotIsSafe, Active
<1>4. AtMostOneAhead'
  <2>. SUFFICES ASSUME NEW st \in executions PROVE st[2] <= GetScheduledTime(st[1], now + 1)
    BY <1>1, Zenon DEF AtMostOneAhead
  <2>1. st[1] \in Schedules /\ st[2] \in Int /\ st[2] <= GetScheduledTime(st[1], now)
    BY Zenon DEF IInv, TypeOK, AtMostOneAhead
  <2>2. GetScheduledTime(st[1], now) <= GetScheduledTime(st[1], now + 1)
    BY <1>1, <2>1, ScheduledLater
  <2>3. GetScheduledTime(st[1], now) \in Int /\ GetScheduledTime(st[1], now + 1) \in Int
    BY <1>1, <2>1, ScheduledTime, TimeAssumption
  <2>. QED  BY <2>1, <2>2, <2>3
<1>5. ASSUME NEW r \in Replicas, NEW p, p = proc[r] PROVE Fine(p)'
  <2>1. p \in {Down} \cup Reading \cup Working /\ Fine(p)
    BY <1>5, Zenon DEF IInv, TypeOK
  <2>2. p \in Working => \A e \in p.entries : e.next \in Int /\ e.next > now
    BY <1>5, Zenon DEF Tick, Up, Working, Entry
  <2>3. \A s, t : (Done(s, t)' <=> Done(s, t)) /\ (Due(s, t)' <=> Due(s, t))
    BY <1>1, Zenon DEF Done, Due, Active
  <2>4. Timely(p)'
    <3>1. CASE p \in Reading
      BY <1>1, <2>1, <3>1 DEF Fine, Timely, Reading, Working
    <3>2. CASE p \in Working
      BY <1>1, <2>1, <2>2, <3>2 DEF Fine, Timely, Reading, Working, Job, Call
    <3>. QED  BY <3>1, <3>2, Zenon DEF Timely
  <2>5. Sound(p)' /\ ReadIsSafe(p)' /\ LastIsSafe(p)'
    BY <2>1, <2>3, Zenon DEF Fine, Sound, ReadIsSafe, LastIsSafe, CatchingUp
  <2>6. Awaits(p)'
    BY <1>1, <2>1, CronTimesAssumption DEF Fine, Awaits
  <2>7. Covers(p)'
    <3>. SUFFICES ASSUME p \in Working, NEW s \in Cron, p.job[s] # None,
                         NEW t \in CronTimes[s], Due(s, t), t <= now + 1
                  PROVE  \/ Done(s, t) \/ Called(p, s, t) \/ Entered(p, s, t)
                         \/ CatchingUp(p, s, t)
      BY <1>1, <2>3, Zenon DEF Covers, Called, Entered, CatchingUp
    <3>1. CASE t <= now
      BY <2>1, <3>1, Zenon DEF Fine, Covers
    <3>2. CASE ~(t <= now)
      <4>1. t \in Int /\ now < t
        BY <1>1, <3>2, CronTimesAssumption
      <4>2. PICK e \in p.entries : e.schedule = s /\ e.next <= t
        BY <2>1, <4>1, Zenon DEF Fine, Awaits
      <4>. QED  BY <1>1, <2>2, <4>1, <4>2 DEF Entered
    <3>. QED  BY <3>1, <3>2, Zenon
  <2>. QED  BY <2>4, <2>5, <2>6, <2>7, Zenon DEF Fine
<1>6. ASSUME NEW r \in Replicas PROVE Fine(proc[r])'
  <2>1. PICK p : p = proc[r]
    BY Zenon
  <2>2. Fine(p)'
    BY <1>5, <2>1, Zenon
  <2>. QED  BY <1>1, <2>1, <2>2, Zenon
<1>. QED  BY <1>2, <1>3, <1>4, <1>6, Zenon DEF IInv

LEMMA SnapshotStep ==
    ASSUME IInv, NEW r \in Replicas, Snapshot(r) PROVE IInv'
<1>1. PICK p : p = proc[r]
  BY Zenon
<1>2. p \in Working /\ p.phase = "running" /\ Fine(p) /\ now \in Nat
  BY <1>1, Kinds DEF Snapshot, IInv, Up, TypeOK
<1>3. /\ UNCHANGED <<now, entity, proc, executions, excused>>
      /\ saved' = [s \in Schedules |-> IF p.job[s] = None THEN Never ELSE p.job[s].lastTime]
  BY <1>1, Zenon DEF Snapshot, Save, SnapshotRepoWrite, CalculateSnapshot
<1>4. \A s \in Schedules : saved'[s] \in Int /\ saved'[s] <= now
  BY <1>2, <1>3 DEF Fine, Timely, Working, Job, Never
<1>5. TypeOK' /\ Past' /\ AtMostOneAhead'
  BY <1>3, <1>4, Zenon DEF IInv, TypeOK, Past, AtMostOneAhead
<1>6. SnapshotIsSafe'
  <2>. SUFFICES ASSUME NEW s \in Cron, NEW t \in CronTimes[s], Due(s, t), t <= saved'[s]
                PROVE  Done(s, t)
    BY <1>3, Zenon DEF SnapshotIsSafe, Due, Done, Active
  <2>1. t \in Nat /\ t > 0 /\ s \in Schedules
    BY CronAssumption, CronTimesAssumption
  <2>2. p.job[s] # None /\ t <= p.job[s].lastTime
    BY <1>3, <2>1 DEF Never
  <2>3. ~CatchingUp(p, s, t)
    BY <1>2, Zenon DEF CatchingUp
  <2>. QED  BY <1>2, <2>2, <2>3, Zenon DEF Fine, LastIsSafe
<1>7. ASSUME NEW x \in Replicas PROVE Fine(proc[x])'
  <2>1. PICK y : y = proc[x]
    BY Zenon
  <2>2. Fine(y)'
    BY <1>3, <2>1, Framed, Zenon DEF IInv
  <2>. QED  BY <1>3, <2>1, <2>2, Zenon
<1>. QED  BY <1>5, <1>6, <1>7, Zenon DEF IInv

-----------------------------------------------------------------------------

\* An entry that fires is due now: its call has the time, its next is later.
LEMMA FireStep ==
    ASSUME IInv, NEW r \in Replicas, Up(r), NEW e \in proc[r].entries, Fire(r, e) PROVE IInv'
<1>1. PICK p : p = proc[r]
  BY Zenon
<1>2. PICK f : f = [e EXCEPT !.next = GetScheduledTime(e.schedule, now)]
  BY Zenon
<1>3. PICK c : c = [schedule |-> e.schedule, time |-> e.next, stored |-> e.stored, called |-> FALSE]
  BY Zenon
<1>4. PICK q : q = [p EXCEPT !.entries = (p.entries \ {e}) \cup {f}, !.calls = p.calls \cup {c}]
  BY Zenon
<1>5. /\ p \in Working /\ Fine(p) /\ e \in p.entries /\ e \in Entry
      /\ now \in Nat /\ now < Horizon /\ Cron \subseteq Schedules
  BY <1>1, Kinds, TimeAssumption, CronAssumption DEF IInv, TypeOK, Working
<1>6. UNCHANGED <<now, entity, saved, executions, excused>> /\ proc' = [proc EXCEPT ![r] = q]
  BY <1>1, <1>2, <1>3, <1>4, Zenon DEF Fire, IInv, TypeOK
<1>7. e.next = now
  BY <1>5 DEF Fire, Fine, Timely, Entry
<1>8. /\ f \in Entry /\ f.schedule = e.schedule /\ f.stored = e.stored
      /\ f.next = GetScheduledTime(e.schedule, now)
      /\ f.next > now
      /\ e.schedule \in Cron => \A t \in CronTimes[e.schedule] : now < t => f.next <= t
  <2>1. e.schedule \in Schedules
    BY <1>5, Zenon DEF Entry
  <2>2. /\ GetScheduledTime(e.schedule, now) \in Int /\ GetScheduledTime(e.schedule, now) > now
        /\ e.schedule \in Cron =>
              \A t \in CronTimes[e.schedule] : now < t => GetScheduledTime(e.schedule, now) <= t
    BY <1>5, <2>1, ScheduledTime
  <2>3. /\ f \in Entry /\ f.schedule = e.schedule /\ f.stored = e.stored
        /\ f.next = GetScheduledTime(e.schedule, now)
    BY <1>2, <1>5, <2>2, Zenon DEF Entry
  <2>. QED  BY <2>2, <2>3, Zenon
<1>9. /\ c \in Call /\ c.schedule = e.schedule /\ c.time = now
      /\ c.stored = e.stored /\ c.called = FALSE
  BY <1>3, <1>5, <1>7, Zenon DEF Entry, Call
<1>10. /\ q \in Working /\ q \notin Reading
       /\ q.job = p.job /\ q.phase = p.phase /\ q.todo = p.todo /\ q.at = p.at
       /\ q.until = p.until /\ q.calls = p.calls \cup {c}
       /\ q.entries = (p.entries \ {e}) \cup {f}
  BY <1>4, <1>5, <1>8, <1>9, Zenon DEF Working, Reading
<1>11. Timely(q)'
  <2>1. Timely(p) /\ now' = now
    BY <1>5, <1>6, Zenon DEF Fine
  <2>2. \A d \in q.calls : d.time <= now
    BY <1>5, <1>9, <1>10, <2>1 DEF Timely
  <2>3. f.next \in Int /\ now <= f.next
    BY <1>5, <1>8 DEF Entry
  <2>4. \A d \in q.entries : now <= d.next
    BY <1>5, <1>10, <2>1, <2>3, Zenon DEF Timely
  <2>. QED  BY <1>5, <1>10, <2>1, <2>2, <2>4, Zenon DEF Timely
<1>12. Sound(q)'
  <2>1. \A d \in q.calls : d.stored => q.job[d.schedule] # None
    BY <1>5, <1>9, <1>10, Zenon DEF Fine, Sound
  <2>2. \A d \in q.entries : d.stored => q.job[d.schedule] # None
    BY <1>5, <1>8, <1>10, Zenon DEF Fine, Sound
  <2>3. \A d \in q.calls : d.called => Done(d.schedule, d.time)'
    BY <1>5, <1>6, <1>9, <1>10, Zenon DEF Fine, Sound, Done
  <2>. QED  BY <2>1, <2>2, <2>3, Zenon DEF Sound
<1>13. Awaits(q)'
  <2>. SUFFICES ASSUME NEW s \in Cron, p.job[s] # None
                PROVE  \E x \in q.entries :
                          x.schedule = s /\ \A t \in CronTimes[s] : now < t => x.next <= t
    BY <1>6, <1>10, Zenon DEF Awaits
  <2>1. PICK x \in p.entries : x.schedule = s /\ \A t \in CronTimes[s] : now < t => x.next <= t
    BY <1>5, Zenon DEF Fine, Awaits
  <2>2. CASE x = e
    BY <1>8, <1>10, <2>1, <2>2, Zenon
  <2>3. CASE x # e
    BY <1>10, <2>1, <2>3, Zenon
  <2>. QED  BY <2>2, <2>3, Zenon
<1>14. Covers(q)'
  <2>. SUFFICES ASSUME NEW s \in Cron, p.job[s] # None, NEW t \in CronTimes[s],
                       Due(s, t), t <= now
                PROVE  Done(s, t) \/ Called(q, s, t) \/ Entered(q, s, t) \/ CatchingUp(q, s, t)
    BY <1>6, <1>10 DEF Covers, Due, Active, Done, Called, Entered, CatchingUp
  <2>1. Done(s, t) \/ Called(p, s, t) \/ Entered(p, s, t) \/ CatchingUp(p, s, t)
    BY <1>5, Zenon DEF Fine, Covers
  <2>2. CASE Called(p, s, t)
    BY <1>10, <2>2, Zenon DEF Called
  <2>3. CASE Entered(p, s, t)
    BY <1>7, <1>9, <1>10, <2>3, Zenon DEF Called, Entered
  <2>4. CASE CatchingUp(p, s, t)
    BY <1>10, <2>4, Zenon DEF CatchingUp
  <2>. QED  BY <2>1, <2>2, <2>3, <2>4, Zenon
<1>15. LastIsSafe(q)'
  <2>1. \A s, t : CatchingUp(p, s, t) => CatchingUp(q, s, t)
    BY <1>10, Zenon DEF CatchingUp
  <2>. SUFFICES ASSUME NEW s \in Cron, p.job[s] # None, NEW t \in CronTimes[s],
                       Due(s, t), t <= p.job[s].lastTime
                PROVE  Done(s, t) \/ CatchingUp(q, s, t)
    BY <1>6, <1>10 DEF LastIsSafe, Due, Active, Done, CatchingUp
  <2>. QED  BY <1>5, <2>1, Zenon DEF Fine, LastIsSafe
<1>16. Fine(q)'
  BY <1>10, <1>11, <1>12, <1>13, <1>14, <1>15, Zenon DEF Fine, ReadIsSafe
<1>. QED  BY <1>6, <1>10, <1>16, QuietStep, OneProcess, Zenon DEF IInv, TypeOK

LEMMA RunStep ==
    ASSUME IInv, NEW r \in Replicas, Up(r), NEW c \in proc[r].calls, Run(r, c) PROVE IInv'
<1>1. PICK p : p = proc[r]
  BY Zenon
<1>2. PICK d : d = [c EXCEPT !.called = TRUE]
  BY Zenon
<1>3. PICK D \in SUBSET {d} :
         D = IF c.stored /\ p.job[c.schedule].lastTime < c.time THEN {d} ELSE {}
  BY Zenon
<1>4. PICK q : q = [p EXCEPT !.calls = (p.calls \ {c}) \cup D]
  BY Zenon
<1>5. /\ p \in Working /\ Fine(p) /\ c \in p.calls /\ c \in Call
      /\ now \in Nat /\ now < Horizon
  BY <1>1, Kinds, TimeAssumption DEF IInv, TypeOK, Working
<1>6. UNCHANGED <<now, entity, saved>> /\ proc' = [proc EXCEPT ![r] = q]
  BY <1>1, <1>2, <1>3, <1>4, Zenon DEF Run, IInv, TypeOK
<1>7. d \in Call /\ d.schedule = c.schedule /\ d.time = c.time /\ d.stored = c.stored
  BY <1>2, <1>5, Zenon DEF Call
<1>8. /\ AtMostOneAhead' /\ executions \subseteq executions'
      /\ executions' \subseteq Schedules \X Int
      /\ excused \subseteq excused' /\ excused' \subseteq Schedules \X Int
      /\ Done(c.schedule, c.time)'
  <2>1. c.schedule \in Schedules /\ c.time \in Int /\ c.time <= now
    BY <1>5, Zenon DEF Call, Fine, Timely
  <2>2. c.time <= GetScheduledTime(c.schedule, now)
    BY <1>5, <2>1, ScheduledTime
  <2>3. PICK ok \in BOOLEAN :
           /\ Execute(c.schedule, c.time, ok)
           /\ excused' = IF ok THEN excused ELSE excused \cup {<<c.schedule, c.time>>}
    BY Zenon DEF Run
  <2>4. /\ AtMostOneAhead' /\ executions \subseteq executions'
        /\ executions' \subseteq Schedules \X Int
        /\ ok => <<c.schedule, c.time>> \in executions'
    BY <1>6, <2>1, <2>2, <2>3, Executed, Zenon
  <2>5. excused \subseteq excused' /\ excused' \subseteq Schedules \X Int
    BY <2>1, <2>3 DEF IInv, TypeOK
  <2>. QED  BY <2>3, <2>4, <2>5, Zenon DEF Done
<1>9. /\ q \in Working /\ q \notin Reading
      /\ q.job = p.job /\ q.phase = p.phase /\ q.todo = p.todo /\ q.at = p.at
      /\ q.until = p.until /\ q.calls = (p.calls \ {c}) \cup D /\ q.entries = p.entries
  BY <1>4, <1>5, <1>7, Zenon DEF Working, Reading
<1>10. \A s, t : Done(s, t) => Done(s, t)'
  BY <1>8, Zenon DEF Done
<1>11. \A s, t : Due(s, t)' <=> Due(s, t)
  BY <1>6, Zenon DEF Due, Active
<1>12. Timely(q)' /\ Awaits(q)'
  BY <1>5, <1>6, <1>7, <1>9, Zenon DEF Fine, Timely, Awaits
<1>13. Sound(q)'
  <2>1. \A x \in q.calls : x.stored => q.job[x.schedule] # None
    BY <1>5, <1>7, <1>9, Zenon DEF Fine, Sound
  <2>2. \A x \in q.calls : x.called => Done(x.schedule, x.time)'
    BY <1>5, <1>7, <1>8, <1>9, <1>10, Zenon DEF Fine, Sound
  <2>. QED  BY <1>5, <1>9, <2>1, <2>2, Zenon DEF Fine, Sound
<1>14. Covers(q)'
  <2>. SUFFICES ASSUME NEW s \in Cron, p.job[s] # None, NEW t \in CronTimes[s],
                       Due(s, t), t <= now
                PROVE  Done(s, t)' \/ Called(q, s, t) \/ Entered(q, s, t) \/ CatchingUp(q, s, t)
    BY <1>6, <1>9, <1>11, Zenon DEF Covers, Called, Entered, CatchingUp
  <2>1. Done(s, t) \/ Called(p, s, t) \/ Entered(p, s, t) \/ CatchingUp(p, s, t)
    BY <1>5, Zenon DEF Fine, Covers
  <2>2. CASE Called(p, s, t)
    BY <1>8, <1>9, <2>2, Zenon DEF Called
  <2>3. CASE Entered(p, s, t) \/ CatchingUp(p, s, t)
    BY <1>9, <2>3, Zenon DEF Entered, CatchingUp
  <2>. QED  BY <1>10, <2>1, <2>2, <2>3, Zenon
<1>15. LastIsSafe(q)'
  <2>1. \A s, t : CatchingUp(p, s, t) => CatchingUp(q, s, t)
    BY <1>9, Zenon DEF CatchingUp
  <2>. SUFFICES ASSUME NEW s \in Cron, p.job[s] # None, NEW t \in CronTimes[s],
                       Due(s, t), t <= p.job[s].lastTime
                PROVE  Done(s, t)' \/ CatchingUp(q, s, t)
    BY <1>9, <1>11, Zenon DEF LastIsSafe, CatchingUp
  <2>. QED  BY <1>5, <1>10, <2>1, Zenon DEF Fine, LastIsSafe
<1>16. Fine(q)'
  BY <1>9, <1>12, <1>13, <1>14, <1>15, Zenon DEF Fine, ReadIsSafe
<1>. QED  BY <1>6, <1>8, <1>9, <1>16, OneProcess, Zenon

\* What lastTime moves past is done, overtaken, or the catch-up is to do it.
LEMMA SetLastTimeStep ==
    ASSUME IInv, NEW r \in Replicas, Up(r), NEW c \in proc[r].calls, SetLastTime(r, c)
    PROVE  IInv'
<1>1. PICK p : p = proc[r]
  BY Zenon
<1>2. PICK j : j = [s \in Schedules |-> IF s = c.schedule /\ c.stored
                                         THEN [p.job[s] EXCEPT !.lastTime = c.time]
                                         ELSE p.job[s]]
  BY Zenon
<1>3. PICK q : q = [p EXCEPT !.calls = p.calls \ {c}, !.job = j]
  BY Zenon
<1>4. /\ p \in Working /\ Fine(p) /\ c \in p.calls /\ c \in Call /\ c.called
      /\ now \in Nat /\ Cron \subseteq Schedules
  BY <1>1, Kinds, CronAssumption DEF IInv, TypeOK, Working, SetLastTime
<1>5. UNCHANGED <<now, entity, saved, executions>> /\ proc' = [proc EXCEPT ![r] = q]
  BY <1>1, <1>2, <1>3, Zenon DEF SetLastTime, IInv, TypeOK
<1>6. c.schedule \in Schedules /\ c.time \in Int /\ c.time <= now /\ Done(c.schedule, c.time)
  BY <1>4, Zenon DEF Call, Fine, Timely, Sound
<1>7. ASSUME NEW s \in Schedules
      PROVE  /\ j[s] \in Job \cup {None}
             /\ (j[s] # None) <=> (p.job[s] # None)
             /\ p.job[s] # None => j[s].from = p.job[s].from
             /\ s = c.schedule /\ c.stored => j[s].lastTime = c.time
             /\ ~(s = c.schedule /\ c.stored) => j[s] = p.job[s]
  <2>1. p.job[s] \in Job \cup {None} /\ None \notin Job
    BY <1>4, NoneAssumption, Zenon DEF Working, Job
  <2>2. CASE s = c.schedule /\ c.stored
    <3>1. p.job[s] \in Job
      BY <1>4, <2>1, <2>2, Zenon DEF Fine, Sound
    <3>2. j[s] = [p.job[s] EXCEPT !.lastTime = c.time]
      BY <1>2, <2>2, Zenon
    <3>3. j[s] \in Job /\ j[s].from = p.job[s].from /\ j[s].lastTime = c.time
      BY <1>6, <3>1, <3>2, Zenon DEF Job
    <3>. QED  BY <2>1, <2>2, <3>1, <3>3, Zenon
  <2>3. CASE ~(s = c.schedule /\ c.stored)
    BY <1>2, <2>1, <2>3, Zenon
  <2>. QED  BY <2>2, <2>3, Zenon
<1>8. /\ q \in Working /\ q \notin Reading
      /\ q.job = j /\ q.phase = p.phase /\ q.todo = p.todo /\ q.at = p.at
      /\ q.until = p.until /\ q.calls = p.calls \ {c} /\ q.entries = p.entries
  <2>1. j \in [Schedules -> Job \cup {None}]
    BY <1>2, <1>7, Zenon
  <2>. QED  BY <1>3, <1>4, <2>1, Zenon DEF Working, Reading
<1>9. /\ excused \subseteq excused' /\ excused' \subseteq Schedules \X Int
      /\ c.stored => \A d \in p.calls :
            d.schedule = c.schedule /\ d.time < c.time /\ ~d.called =>
               <<c.schedule, d.time>> \in excused'
  <2>1. \A d \in p.calls : d.time \in Int
    BY <1>4, Zenon DEF Working, Call
  <2>. QED  BY <1>1, <1>6, <2>1 DEF SetLastTime, IInv, TypeOK
<1>10. \A s, t : Done(s, t) => Done(s, t)'
  BY <1>5, <1>9, Zenon DEF Done
<1>11. \A s, t : Due(s, t)' <=> Due(s, t)
  BY <1>5, Zenon DEF Due, Active
<1>12. ASSUME NEW s \in Cron, j[s] # None, NEW t
       PROVE  (p.job[s] # None) /\ (CatchingUp(p, s, t) => CatchingUp(q, s, t))
  BY <1>4, <1>7, <1>8, <1>12, Zenon DEF CatchingUp
<1>13. Timely(q)'
  <2>1. \A s \in Schedules : q.job[s] # None => q.job[s].lastTime <= now
    BY <1>4, <1>6, <1>7, <1>8, Zenon DEF Fine, Timely
  <2>. QED  BY <1>4, <1>5, <1>8, <2>1, Zenon DEF Fine, Timely
<1>14. Sound(q)'
  <2>1. \A x \in p.calls : x.schedule \in Schedules
    BY <1>4, Zenon DEF Working, Call
  <2>2. \A x \in p.entries : x.schedule \in Schedules
    BY <1>4, Zenon DEF Working, Entry
  <2>. QED  BY <1>4, <1>7, <1>8, <1>10, <2>1, <2>2 DEF Fine, Sound
<1>15. Awaits(q)'
  <2>. SUFFICES ASSUME NEW s \in Cron, j[s] # None
                PROVE  \E e \in p.entries :
                          e.schedule = s /\ \A t \in CronTimes[s] : now < t => e.next <= t
    BY <1>5, <1>8, Zenon DEF Awaits
  <2>1. p.job[s] # None
    BY <1>4, <1>7, Zenon
  <2>. QED  BY <1>4, <2>1, Zenon DEF Fine, Awaits
<1>16. ASSUME NEW s \in Cron, j[s] # None, NEW t \in CronTimes[s], Due(s, t), t <= now
       PROVE  Done(s, t)' \/ Called(q, s, t) \/ Entered(q, s, t) \/ CatchingUp(q, s, t)
  <2>1. Done(s, t) \/ Called(p, s, t) \/ Entered(p, s, t) \/ CatchingUp(p, s, t)
    BY <1>4, <1>12, <1>16, Zenon DEF Fine, Covers
  <2>2. CASE Called(p, s, t)
    BY <1>6, <1>8, <1>10, <2>2, Zenon DEF Called
  <2>3. CASE Entered(p, s, t)
    BY <1>8, <2>3, Zenon DEF Entered
  <2>. QED  BY <1>10, <1>12, <1>16, <2>1, <2>2, <2>3, Zenon
<1>17. Covers(q)'
  BY <1>5, <1>8, <1>11, <1>16, Zenon DEF Covers, Called, Entered, CatchingUp
<1>18. LastIsSafe(q)'
  <2>. SUFFICES ASSUME NEW s \in Cron, j[s] # None, NEW t \in CronTimes[s],
                       Due(s, t), t <= j[s].lastTime
                PROVE  Done(s, t)' \/ CatchingUp(q, s, t)
    BY <1>8, <1>11, Zenon DEF LastIsSafe, CatchingUp
  <2>1. CASE ~(s = c.schedule /\ c.stored)
    BY <1>4, <1>7, <1>10, <1>12, <2>1, Zenon DEF Fine, LastIsSafe
  <2>2. CASE s = c.schedule /\ c.stored
    <3>1. t \in Int /\ t <= c.time /\ t <= now
      BY <1>4, <1>6, <1>7, <2>2, CronTimesAssumption
    <3>2. Done(s, t) \/ Called(p, s, t) \/ Entered(p, s, t) \/ CatchingUp(p, s, t)
      BY <1>4, <1>12, <3>1, Zenon DEF Fine, Covers
    <3>3. CASE Called(p, s, t)
      <4>1. PICK d \in p.calls : d.schedule = s /\ d.time = t
        BY <3>3, Zenon DEF Called
      <4>2. CASE d.called
        BY <1>4, <1>10, <4>1, <4>2, Zenon DEF Fine, Sound
      <4>3. CASE ~d.called /\ t < c.time
        BY <1>9, <2>2, <4>1, <4>3, Zenon DEF Done
      <4>4. CASE t = c.time
        BY <1>6, <1>10, <2>2, <4>4, Zenon
      <4>. QED  BY <1>6, <3>1, <4>2, <4>3, <4>4
    <3>4. CASE Entered(p, s, t)
      <4>1. PICK e \in p.entries : e.schedule = s /\ e.next = t
        BY <3>4, Zenon DEF Entered
      <4>2. now <= t
        BY <1>4, <4>1, Zenon DEF Fine, Timely
      <4>3. t = c.time
        BY <1>4, <1>6, <3>1, <4>2
      <4>. QED  BY <1>6, <1>10, <2>2, <4>3, Zenon
    <3>. QED  BY <1>10, <1>12, <3>2, <3>3, <3>4, Zenon
  <2>. QED  BY <2>1, <2>2, Zenon
<1>19. Fine(q)'
  BY <1>8, <1>13, <1>14, <1>15, <1>17, <1>18, Zenon DEF Fine, ReadIsSafe
<1>20. AtMostOneAhead' /\ executions \subseteq executions' /\ executions' \subseteq Schedules \X Int
  BY <1>5, QuietStep, Zenon
<1>. QED  BY <1>5, <1>8, <1>9, <1>19, <1>20, OneProcess, Zenon

\* DeScheduleJob keeps the schedule and the time of an entry, and every entry of
\* a cron schedule that is not removed.
LEMMA DeScheduleJobFacts ==
    ASSUME NEW E \in SUBSET Entry, NEW R \in SUBSET Schedules
    PROVE  /\ DeScheduleJob(E, R) \subseteq Entry
           /\ \A f \in DeScheduleJob(E, R) : \E e \in E :
                 /\ f.schedule = e.schedule /\ f.next = e.next
                 /\ f.stored => e.stored /\ e.schedule \notin R
           /\ \A e \in E : e.schedule \notin R => \E f \in DeScheduleJob(E, R) :
                 f.schedule = e.schedule /\ f.next = e.next
<1>. DEFINE left(e) == LeftStore(e, R)
            kept == {e \in E : ~(e.schedule \in R /\ Removable(e))}
<1>1. DeScheduleJob(E, R) = {left(e) : e \in kept}
  BY Zenon DEF DeScheduleJob
<1>2. ASSUME NEW e \in E
      PROVE  /\ left(e) \in Entry /\ left(e).schedule = e.schedule /\ left(e).next = e.next
             /\ left(e).stored => e.stored /\ e.schedule \notin R
  <2>1. e \in Entry /\ left(e).schedule = e.schedule /\ left(e).next = e.next
    BY Zenon DEF Entry, LeftStore
  <2>2. left(e).stored = (e.stored /\ e.schedule \notin R)
    BY Zenon DEF Entry, LeftStore
  <2>3. left(e).stored \in BOOLEAN
    BY <2>2, Zenon
  <2>4. left(e) = [schedule |-> e.schedule, next |-> e.next, stored |-> left(e).stored]
    BY <2>1, <2>2 DEF Entry, LeftStore
  <2>5. left(e) \in Entry
    BY <2>1, <2>3, <2>4, Zenon DEF Entry
  <2>. QED  BY <2>1, <2>2, <2>5, Zenon
<1>. HIDE DEF left
<1>3. DeScheduleJob(E, R) \subseteq Entry
  BY <1>1, <1>2, Zenon
<1>4. \A f \in DeScheduleJob(E, R) : \E e \in E :
         /\ f.schedule = e.schedule /\ f.next = e.next
         /\ f.stored => e.stored /\ e.schedule \notin R
  BY <1>1, <1>2
<1>5. \A e \in E : e.schedule \notin R => \E f \in DeScheduleJob(E, R) :
         f.schedule = e.schedule /\ f.next = e.next
  BY <1>1, <1>2, Zenon
<1>. QED  BY <1>3, <1>4, <1>5, Zenon

\* The calls of a schedule that is removed go on, and leave the store.
LEMMA CallLeftStore ==
    ASSUME NEW c \in Call, NEW R \in SUBSET Schedules
    PROVE  LET d == LeftStore(c, R)
           IN  /\ d \in Call
               /\ d.schedule = c.schedule /\ d.time = c.time /\ d.called = c.called
               /\ d.stored => c.stored /\ c.schedule \notin R
<1>. DEFINE d == LeftStore(c, R)
<1>1. d.schedule = c.schedule /\ d.time = c.time /\ d.called = c.called
  BY Zenon DEF Call, LeftStore
<1>2. d.stored = (c.stored /\ c.schedule \notin R)
  BY Zenon DEF Call, LeftStore
<1>3. d.stored \in BOOLEAN
  BY <1>2, Zenon
<1>4. d = [schedule |-> c.schedule, time |-> c.time, stored |-> d.stored, called |-> c.called]
  BY <1>1, <1>2 DEF Call, LeftStore
<1>5. d \in Call
  BY <1>1, <1>3, <1>4, Zenon DEF Call
<1>. QED  BY <1>1, <1>2, <1>5, Zenon

LEMMA UpdateSchedulesStep ==
    ASSUME IInv, NEW r \in Replicas, UpdateSchedules(r) PROVE IInv'
<1>. DEFINE gone == {s \in Schedules \ Active : proc[r].job[s] # None}
            new == {s \in Active : proc[r].job[s] = None}
            jobs == [s \in Schedules |-> IF s \in gone THEN None
                                         ELSE IF s \in new
                                         THEN [from |-> Never, lastTime |-> Never]
                                         ELSE proc[r].job[s]]
            entries == DeScheduleJob(proc[r].entries, gone) \cup {ScheduleJob(s) : s \in new}
            calls == {LeftStore(c, gone) : c \in proc[r].calls}
<1>1. /\ UNCHANGED <<now, entity, saved, executions>>
      /\ excused' = excused \cup {st \in new \X (0 .. now) : st[2] > entity[st[1]].updatedAt}
      /\ proc' = [proc EXCEPT ![r].job = jobs, ![r].entries = entries, ![r].calls = calls]
  BY Zenon DEF UpdateSchedules
<1>2. PICK p : p = proc[r]
  BY Zenon
<1>3. PICK removed \in SUBSET Schedules :
         removed = gone /\ removed = {s \in Schedules \ Active : p.job[s] # None}
  BY <1>2, Zenon
<1>4. PICK added \in SUBSET Schedules : added = new /\ added = {s \in Active : p.job[s] = None}
  BY <1>2, Zenon DEF Active
<1>. HIDE DEF gone, new
<1>5. PICK j : j = jobs /\ j = [s \in Schedules |-> IF s \in removed THEN None
                                                  ELSE IF s \in added
                                                  THEN [from |-> Never, lastTime |-> Never]
                                                  ELSE p.job[s]]
  BY <1>2, <1>3, <1>4, Zenon
<1>6. PICK E : /\ E = entries
               /\ E = DeScheduleJob(p.entries, removed) \cup {ScheduleJob(s) : s \in added}
  BY <1>2, <1>3, <1>4, Zenon
<1>7. PICK C : C = calls /\ C = {LeftStore(c, removed) : c \in p.calls}
  BY <1>2, <1>3, Zenon
<1>. HIDE DEF jobs, entries, calls
<1>8. PICK q : q = [p EXCEPT !.job = j, !.entries = E, !.calls = C]
  BY Zenon
<1>9. /\ p \in Working /\ Fine(p) /\ now \in Nat /\ now < Horizon /\ Cron \subseteq Schedules
      /\ p.entries \subseteq Entry /\ p.calls \subseteq Call
  <2>1. Up(r)
    BY Zenon DEF UpdateSchedules
  <2>2. p \in Working /\ Fine(p)
    BY <1>2, <2>1, Kinds, Zenon DEF IInv
  <2>. QED  BY <2>2, TimeAssumption, CronAssumption DEF IInv, TypeOK, Working
<1>10. /\ UNCHANGED <<now, entity, saved, executions>> /\ proc' = [proc EXCEPT ![r] = q]
      /\ excused' = excused \cup {st \in added \X (0 .. now) : st[2] > entity[st[1]].updatedAt}
  <2>1. proc' = [proc EXCEPT ![r].job = j, ![r].entries = E, ![r].calls = C]
    BY <1>1, <1>5, <1>6, <1>7, Zenon
  <2>2. proc' = [proc EXCEPT ![r] = q]
    BY <1>2, <1>8, <2>1, Zenon DEF IInv, TypeOK
  <2>. QED  BY <1>1, <1>4, <2>2, Zenon
<1>11. ASSUME NEW s \in Schedules
       PROVE  /\ j[s] \in Job \cup {None}
              /\ j[s] # None => s \notin removed
              /\ j[s] # None /\ s \notin added => p.job[s] # None /\ j[s] = p.job[s]
              /\ s \in added => j[s] # None /\ j[s].lastTime = Never
              /\ p.job[s] # None /\ s \notin removed => j[s] # None
  <2>1. p.job[s] \in Job \cup {None}
    BY <1>9, Zenon DEF Working
  <2>2. [from |-> Never, lastTime |-> Never] \in Job /\ None \notin Job
    BY NoneAssumption DEF Job, Never
  <2>3. CASE s \in removed
    BY <1>3, <1>4, <1>5, <2>3, Zenon
  <2>4. CASE s \in added
    <3>1. s \notin removed /\ p.job[s] = None
      BY <1>3, <1>4, <2>4, Zenon
    <3>2. j[s] = [from |-> Never, lastTime |-> Never]
      BY <1>5, <2>4, <3>1, Zenon
    <3>. QED  BY <2>2, <2>4, <3>1, <3>2
  <2>5. CASE s \notin removed /\ s \notin added
    <3>1. j[s] = p.job[s]
      BY <1>5, <2>5, Zenon
    <3>. QED  BY <2>1, <2>5, <3>1, Zenon
  <2>. QED  BY <2>3, <2>4, <2>5, Zenon
<1>12. ASSUME NEW s \in added
       PROVE  /\ ScheduleJob(s) \in Entry /\ ScheduleJob(s).next > now
              /\ ScheduleJob(s).schedule = s
              /\ s \in Cron => \A t \in CronTimes[s] : now < t => ScheduleJob(s).next <= t
  BY <1>9, ScheduledTime DEF ScheduleJob, Entry
<1>13. /\ E \subseteq Entry
       /\ \A f \in E : \/ f.schedule \in added /\ f.next > now
                       \/ \E e \in p.entries :
                             /\ f.schedule = e.schedule /\ f.next = e.next
                             /\ f.stored => e.stored /\ e.schedule \notin removed
       /\ \A e \in p.entries : e.schedule \notin removed => \E f \in E :
             f.schedule = e.schedule /\ f.next = e.next
  <2>1. /\ DeScheduleJob(p.entries, removed) \subseteq Entry
        /\ \A f \in DeScheduleJob(p.entries, removed) : \E e \in p.entries :
              /\ f.schedule = e.schedule /\ f.next = e.next
              /\ f.stored => e.stored /\ e.schedule \notin removed
        /\ \A e \in p.entries : e.schedule \notin removed =>
              \E f \in DeScheduleJob(p.entries, removed) :
                 f.schedule = e.schedule /\ f.next = e.next
    BY <1>9, DeScheduleJobFacts
  <2>. QED  BY <1>6, <1>12, <2>1
<1>14. /\ C \subseteq Call
       /\ \A d \in C : \E c \in p.calls :
             /\ d.schedule = c.schedule /\ d.time = c.time /\ d.called = c.called
             /\ d.stored => c.stored /\ c.schedule \notin removed
       /\ \A c \in p.calls : \E d \in C : d.schedule = c.schedule /\ d.time = c.time
  BY <1>7, <1>9, CallLeftStore
<1>15. /\ q \in Working /\ q \notin Reading
       /\ q.job = j /\ q.phase = p.phase /\ q.todo = p.todo /\ q.at = p.at
       /\ q.until = p.until /\ q.calls = C /\ q.entries = E
  <2>1. j \in [Schedules -> Job \cup {None}]
    BY <1>5, <1>11, Zenon
  <2>. QED  BY <1>8, <1>9, <1>13, <1>14, <2>1, Zenon DEF Working, Reading
<1>16. excused \subseteq excused' /\ excused' \subseteq Schedules \X Int
  BY <1>10 DEF IInv, TypeOK
<1>17. \A s, t : Done(s, t) => Done(s, t)'
  BY <1>10, Zenon DEF Done
<1>18. \A s, t : Due(s, t)' <=> Due(s, t)
  BY <1>10, Zenon DEF Due, Active
<1>19. Timely(q)'
  <2>1. \A s \in Schedules : q.job[s] # None => q.job[s].lastTime <= now
    <3>1. \A s \in Schedules : p.job[s] # None => p.job[s].lastTime <= now
      BY <1>9, Zenon DEF Fine, Timely
    <3>2. Never <= now
      BY <1>9 DEF Never
    <3>. QED  BY <1>11, <1>15, <3>1, <3>2, Zenon
  <2>2. \A c \in q.calls : c.time <= now
    BY <1>9, <1>14, <1>15, Zenon DEF Fine, Timely
  <2>3. \A e \in q.entries : now <= e.next
    <3>1. \A e \in p.entries : now <= e.next
      BY <1>9, Zenon DEF Fine, Timely
    <3>2. \A e \in E : e.next \in Int
      BY <1>13, Zenon DEF Entry
    <3>. QED  BY <1>9, <1>13, <1>15, <3>1, <3>2
  <2>. QED  BY <1>9, <1>10, <1>15, <2>1, <2>2, <2>3, Zenon DEF Fine, Timely
<1>20. Sound(q)'
  <2>1. \A c \in q.calls : c.stored => q.job[c.schedule] # None
    <3>1. \A c \in p.calls : c.schedule \in Schedules /\ (c.stored => p.job[c.schedule] # None)
      BY <1>9, Zenon DEF Fine, Sound, Call
    <3>. QED  BY <1>11, <1>14, <1>15, <3>1
  <2>2. \A e \in q.entries : e.stored => q.job[e.schedule] # None
    <3>1. \A e \in p.entries : e.schedule \in Schedules /\ (e.stored => p.job[e.schedule] # None)
      BY <1>9, Zenon DEF Fine, Sound, Entry
    <3>. QED  BY <1>11, <1>13, <1>15, <3>1
  <2>3. \A c \in q.calls : c.called => Done(c.schedule, c.time)'
    BY <1>9, <1>14, <1>15, <1>17, Zenon DEF Fine, Sound
  <2>. QED  BY <2>1, <2>2, <2>3, Zenon DEF Sound
<1>21. Awaits(q)'
  <2>. SUFFICES ASSUME NEW s \in Cron, j[s] # None
                PROVE  \E e \in E :
                          e.schedule = s /\ \A t \in CronTimes[s] : now < t => e.next <= t
    BY <1>10, <1>15, Zenon DEF Awaits
  <2>1. CASE s \in added
    BY <1>6, <1>12, <2>1
  <2>2. CASE s \notin added
    <3>1. PICK e \in p.entries : e.schedule = s /\ \A t \in CronTimes[s] : now < t => e.next <= t
      BY <1>9, <1>11, <2>2, Zenon DEF Fine, Awaits
    <3>. QED  BY <1>9, <1>11, <1>13, <3>1, Zenon
  <2>. QED  BY <2>1, <2>2, Zenon
<1>22. Covers(q)'
  <2>. SUFFICES ASSUME NEW s \in Cron, j[s] # None, NEW t \in CronTimes[s],
                       Due(s, t), t <= now
                PROVE  Done(s, t)' \/ Called(q, s, t) \/ Entered(q, s, t) \/ CatchingUp(q, s, t)
    BY <1>10, <1>15, <1>18, Zenon DEF Covers, Called, Entered, CatchingUp
  <2>1. CASE s \in added
    <3>1. entity[s].updatedAt \in Int
      BY DEF Due, Active, IInv, TypeOK, Entity
    <3>2. <<s, t>> \in added \X (0 .. now) /\ t > entity[s].updatedAt
      BY <1>9, <2>1, <3>1, CronTimesAssumption DEF Due
    <3>. QED  BY <1>10, <3>2, Zenon DEF Done
  <2>2. CASE s \notin added
    <3>1. s \in Schedules /\ s \notin removed /\ p.job[s] # None /\ j[s] = p.job[s]
      BY <1>9, <1>11, <2>2, Zenon
    <3>2. Done(s, t) \/ Called(p, s, t) \/ Entered(p, s, t) \/ CatchingUp(p, s, t)
      BY <1>9, <3>1, Zenon DEF Fine, Covers
    <3>3. CASE Called(p, s, t)
      BY <1>14, <1>15, <3>3 DEF Called
    <3>4. CASE Entered(p, s, t)
      BY <1>13, <1>15, <3>1, <3>4 DEF Entered
    <3>5. CASE CatchingUp(p, s, t)
      BY <1>15, <3>1, <3>5, Zenon DEF CatchingUp
    <3>. QED  BY <1>17, <3>2, <3>3, <3>4, <3>5, Zenon
  <2>. QED  BY <2>1, <2>2, Zenon
<1>23. LastIsSafe(q)'
  <2>. SUFFICES ASSUME NEW s \in Cron, j[s] # None, NEW t \in CronTimes[s],
                       Due(s, t), t <= j[s].lastTime
                PROVE  Done(s, t)' \/ CatchingUp(q, s, t)
    BY <1>15, <1>18, Zenon DEF LastIsSafe, CatchingUp
  <2>1. s \notin added
    BY <1>9, <1>11, CronTimesAssumption DEF Never
  <2>2. p.job[s] # None /\ j[s] = p.job[s]
    BY <1>9, <1>11, <2>1, Zenon
  <2>3. Done(s, t) \/ CatchingUp(p, s, t)
    BY <1>9, <2>2, Zenon DEF Fine, LastIsSafe
  <2>. QED  BY <1>15, <1>17, <2>2, <2>3, Zenon DEF CatchingUp
<1>24. Fine(q)'
  BY <1>15, <1>19, <1>20, <1>21, <1>22, <1>23, Zenon DEF Fine, ReadIsSafe
<1>25. AtMostOneAhead' /\ executions \subseteq executions' /\ executions' \subseteq Schedules \X Int
  BY <1>10, QuietStep, Zenon
<1>. QED  BY <1>10, <1>15, <1>16, <1>24, <1>25, OneProcess, Zenon

-----------------------------------------------------------------------------

LEMMA Stutters ==
    ASSUME IInv, UNCHANGED vars PROVE IInv'
<1>1. TypeOK' /\ Past' /\ SnapshotIsSafe' /\ AtMostOneAhead'
  BY Zenon DEF vars, IInv, TypeOK, Past, SnapshotIsSafe, AtMostOneAhead, Active
<1>2. ASSUME NEW r \in Replicas PROVE Fine(proc[r])'
  <2>1. PICK p : p = proc[r]
    BY Zenon
  <2>2. Fine(p)'
    BY <2>1, Framed, Zenon DEF IInv, vars
  <2>. QED  BY <2>1, <2>2, Zenon DEF vars
<1>. QED  BY <1>1, <1>2, Zenon DEF IInv

\* The inductive invariant: whatever a process remembers or has saved accounts
\* for every time that has come.
THEOREM Invariant == Spec => []IInv
<1>1. IInv /\ [Next]_vars => IInv'
  <2>. SUFFICES ASSUME IInv, [Next]_vars PROVE IInv'
    BY Zenon
  <2>1. ASSUME NEW s \in Schedules, Activate(s) \/ Deactivate(s) PROVE IInv'
    BY <2>1, Changed, Zenon DEF Activate, Deactivate
  <2>2. ASSUME NEW r \in Replicas, Step(r) PROVE IInv'
    BY <2>2, ReadSnapshotStep, BootStrapStep, CatchupAllStep, CatchupRangeStep,
       CatchUpSingleScheduleStep, CatchupDoneStep, UpdateSchedulesStep, SnapshotStep,
       CrashStep, FireStep, RunStep, SetLastTimeStep, Zenon DEF Step
  <2>. QED  BY <2>1, <2>2, TickStep, Stutters, Zenon DEF Next
<1>. QED  BY InitIInv, <1>1, PTL DEF Spec

\* What the variables of the native scheduler hold.
THEOREM TypeCorrect == Spec => []TypeOK
<1>1. IInv => TypeOK
  BY Zenon DEF IInv
<1>. QED  BY Invariant, <1>1, PTL

\* A process that has caught up (CatchupAll) misses no time of a cron schedule,
\* with any number of schedules, processes, crashes and changes.
THEOREM NoTimeMissed == Spec => []NoMissedTime
<1>1. IInv => NoMissedTime
  <2>. SUFFICES ASSUME IInv, NEW r \in Replicas, NEW s \in Cron, proc[r].phase = "running",
                       proc[r].job[s] # None, NEW t \in CronTimes[s], Due(s, t), t <= now
                PROVE  Done(s, t) \/ Called(proc[r], s, t) \/ Entered(proc[r], s, t)
    BY DEF NoMissedTime, Due, Done, Called, Entered
  <2>1. proc[r] \in Working /\ Covers(proc[r])
    BY Kinds, Zenon DEF IInv, Up, Fine
  <2>2. ~CatchingUp(proc[r], s, t)
    BY Zenon DEF CatchingUp
  <2>. QED  BY <2>1, <2>2, Zenon DEF Covers
<1>. QED  BY Invariant, <1>1, PTL

\* The snapshot that Snapshotrunner saves skips only times that are done.
THEOREM SnapshotAlwaysSafe == Spec => []SnapshotIsSafe
<1>1. IInv => SnapshotIsSafe
  BY Zenon DEF IInv
<1>. QED  BY Invariant, <1>1, PTL

\* GetCatchUpTimes goes no further than one time past the end.
THEOREM AlwaysAtMostOneAhead == Spec => []AtMostOneAhead
<1>1. IInv => AtMostOneAhead
  BY Zenon DEF IInv
<1>. QED  BY Invariant, <1>1, PTL

-----------------------------------------------------------------------------
(***************************************************************************)
(* Launch plans.  Of a launch plan at most one version is active, for any  *)
(* number of versions and of requests in flight, whatever fails, until an  *)
(* enable request goes by an active version that another one has replaced; *)
(* and the schedule of a version runs when it is active, after a request   *)
(* that no other about the version disturbed.                              *)
(***************************************************************************)
\* An enable request that is not stale knows every version that is active:
\* only another SetActive adds one, and makes the request stale.
FormerIsActive ==
    ~tainted => \A h \in Handlers :
        handler[h].pc \in Enabling /\ handler[h].stale = FALSE
            => \A v \in ActiveVersions : v = handler[h].former

PlanIInv == PlanTypeOK /\ FormerIsActive /\ OneActiveUnlessStale

\* A request is of one of two kinds, which its step tells.
LEMMA RequestKinds ==
    ASSUME PlanTypeOK, NEW h \in Handlers
    PROVE  /\ handler[h] # Idle => handler[h] \in Request
           /\ handler[h].pc \in Enabling =>
                handler[h] \in [pc: Enabling, version: Versions,
                                former: Versions \cup {NoVersion}, stale: BOOLEAN]
           /\ handler[h].pc \in {"remove", "deactivate"} =>
                handler[h] \in [pc: {"remove", "deactivate"}, version: Versions]
<1>1. handler[h] \in Request \cup {Idle}
  BY Zenon DEF PlanTypeOK
<1>2. Idle.pc \notin Enabling /\ Idle.pc \notin {"remove", "deactivate"}
  BY DEF Idle, Enabling
<1>3. \A x \in Request :
         /\ x.pc \in Enabling => x \in [pc: Enabling, version: Versions,
                                           former: Versions \cup {NoVersion}, stale: BOOLEAN]
         /\ x.pc \in {"remove", "deactivate"} => x \in [pc: {"remove", "deactivate"}, version: Versions]
  BY DEF Request, Enabling
<1>. QED  BY <1>1, <1>2, <1>3, Zenon

\* A request is about versions, one or two of them, and an idle handler about
\* none.
LEMMA TouchedFacts ==
    /\ Touched(Idle) = {}
    /\ \A r \in Request : Touched(r) \subseteq Versions /\ r.version \in Touched(r)
<1>1. Touched(Idle) = {}
  BY DEF Touched
<1>2. ASSUME NEW r \in Request PROVE r # Idle /\ r.version \in Versions
  BY DEF Request, Idle, Enabling
<1>. QED  BY <1>1, <1>2, Zenon DEF Touched

\* Nothing is active and nothing in flight.
LEMMA PlanInitInv == PlanInit => PlanIInv
BY Zenon DEF PlanInit, PlanIInv, PlanTypeOK, FormerIsActive, OneActiveUnlessStale, ActiveVersions,
       States, Idle, Enabling

\* A step that leaves the launch plans alone and, of the requests, changes
\* only where one of them stands.
LEMMA PlanGotoInv ==
    ASSUME PlanIInv, NEW h \in Handlers, NEW pc \in Enabling \cup {"deactivate"},
           handler[h].pc \in Enabling <=> pc \in Enabling,
           handler[h] # Idle, Goto(h, pc),
           schedule' \in [Keys -> {NoSchedule, Inactive}
                                    \cup {Runs(v) : v \in Versions}],
           UNCHANGED <<scheduler, state, contested, doubtful, tainted>>
    PROVE  PlanIInv'
<1>1. handler' \in [Handlers -> Request \cup {Idle}]
  <2>1. [handler[h] EXCEPT !.pc = pc] \in Request
    BY RequestKinds DEF PlanIInv, Request, Enabling
  <2>2. QED
    BY <2>1 DEF Goto, PlanIInv, PlanTypeOK
<1>2. PlanTypeOK'
  BY <1>1 DEF PlanIInv, PlanTypeOK, Keys
<1>3. FormerIsActive'
  <2>1. \A g \in Handlers : g # h => handler'[g] = handler[g]
    BY DEF Goto, PlanIInv, PlanTypeOK
  <2>2. pc \in Enabling => /\ handler'[h].stale = handler[h].stale
                           /\ handler'[h].former = handler[h].former
    BY RequestKinds DEF Goto, PlanIInv, PlanTypeOK
  <2>3. handler'[h].pc = pc
    BY RequestKinds DEF Goto, PlanIInv, PlanTypeOK, Request
  <2>4. ActiveVersions' = ActiveVersions
    BY DEF ActiveVersions
  <2>5. QED
    BY <2>1, <2>2, <2>3, <2>4, Zenon DEF FormerIsActive, PlanIInv
<1>4. OneActiveUnlessStale'
  BY DEF PlanIInv, OneActiveUnlessStale, ActiveVersions
<1>5. QED
  BY <1>2, <1>3, <1>4 DEF PlanIInv

\* A request starts; an enable request has just listed the active version.
LEMMA PlanStartInv ==
    ASSUME PlanIInv, NEW h \in Handlers, NEW request \in Request, Start(h, request),
           ~tainted /\ request.pc \in Enabling
               => \A v \in ActiveVersions : v = request.former
    PROVE  PlanIInv'
<1>1. handler' \in [Handlers -> Request \cup {Idle}]
  BY DEF Start, PlanIInv, PlanTypeOK
<1>2. PlanTypeOK'
  <2>1. contested' \subseteq Versions /\ doubtful' \subseteq Versions
    BY TouchedFacts DEF Start, PlanIInv, PlanTypeOK
  <2>. QED  BY <1>1, <2>1 DEF Start, PlanIInv, PlanTypeOK, Keys
<1>3. ActiveVersions' = ActiveVersions /\ tainted' = tainted
  BY DEF Start, ActiveVersions
<1>4. \A g \in Handlers : handler'[g] = IF g = h THEN request ELSE handler[g]
  BY DEF Start, PlanIInv, PlanTypeOK
<1>5. FormerIsActive' /\ OneActiveUnlessStale'
  BY <1>3, <1>4 DEF PlanIInv, FormerIsActive, OneActiveUnlessStale
<1>6. QED
  BY <1>2, <1>5 DEF PlanIInv

\* A request ends, and no version becomes active.
LEMMA PlanEndInv ==
    ASSUME PlanIInv, NEW h \in Handlers, handler' = [handler EXCEPT ![h] = Idle],
           state' \in [Versions -> States], ActiveVersions' \subseteq ActiveVersions,
           contested' \subseteq contested, doubtful' \subseteq doubtful,
           UNCHANGED <<scheduler, schedule, tainted>>
    PROVE  PlanIInv'
<1>1. PlanTypeOK'
  BY DEF PlanIInv, PlanTypeOK, Keys
<1>2. \A g \in Handlers : handler'[g] = IF g = h THEN Idle ELSE handler[g]
  BY DEF PlanIInv, PlanTypeOK
<1>3. FormerIsActive'
  BY <1>2 DEF PlanIInv, FormerIsActive, Idle, Enabling
<1>4. OneActiveUnlessStale'
  BY DEF PlanIInv, OneActiveUnlessStale
<1>5. QED
  BY <1>1, <1>3, <1>4 DEF PlanIInv

\* SetActive disables the one active version a request that is not stale
\* knows of, and makes every other enable request stale.
LEMMA SetActiveInv ==
    ASSUME PlanIInv, NEW h \in Handlers, SetActive(h)
    PROVE  PlanIInv'
<1> DEFINE r == handler[h]
           next(g) == IF g = h THEN Idle
                      ELSE IF handler[g].pc \in Enabling
                      THEN [handler[g] EXCEPT !.stale = TRUE] ELSE handler[g]
<1>1. /\ r.pc = "setActive" /\ r.pc \in Enabling
      /\ tainted' = (tainted \/ r.stale)
      /\ handler' = [g \in Handlers |-> next(g)]
      /\ contested' \subseteq contested /\ doubtful' \subseteq doubtful
      /\ UNCHANGED <<scheduler, schedule>>
      /\ state' = [v \in Versions |-> IF v = r.version THEN "ACTIVE"
                                      ELSE IF v = r.former THEN "INACTIVE"
                                      ELSE state[v]]
  BY DEF SetActive, Enabling, Succeeds, Leaves
<1>2. /\ r.version \in Versions /\ r.stale \in BOOLEAN
  BY <1>1, RequestKinds DEF PlanIInv
<1>3. \A g \in Handlers : next(g) \in Request \cup {Idle}
  <2>1. ASSUME NEW g \in Handlers, g # h, handler[g].pc \in Enabling
        PROVE  [handler[g] EXCEPT !.stale = TRUE] \in Request
    BY <2>1, RequestKinds, Zenon DEF PlanIInv, Request
  <2>2. QED
    BY <2>1 DEF PlanIInv, PlanTypeOK
<1>4. handler' \in [Handlers -> Request \cup {Idle}]
  BY <1>1, <1>3
<1>5. PlanTypeOK'
  <2>1. state' \in [Versions -> States]
    BY <1>1 DEF PlanIInv, PlanTypeOK, States
  <2>2. tainted' \in BOOLEAN
    BY <1>1, <1>2 DEF PlanIInv, PlanTypeOK
  <2>3. QED
    BY <1>1, <1>4, <2>1, <2>2 DEF PlanIInv, PlanTypeOK, Keys
<1>6. \A g \in Handlers : handler'[g].pc \in Enabling => handler'[g].stale = TRUE
  <2>1. ASSUME NEW g \in Handlers, g # h, handler[g].pc \in Enabling
        PROVE  [handler[g] EXCEPT !.stale = TRUE].stale = TRUE
    BY <2>1, RequestKinds DEF PlanIInv
  <2>2. QED
    BY <1>1, <2>1 DEF Idle, Enabling
<1>7. FormerIsActive'
  BY <1>6 DEF FormerIsActive
<1>8. OneActiveUnlessStale'
  <2>1. SUFFICES ASSUME ~tainted'
                 PROVE  \A v \in ActiveVersions' : v = r.version
    BY DEF OneActiveUnlessStale
  <2>2. r.stale = FALSE
    BY <1>1, <1>2, <2>1
  <2>3. \A v \in ActiveVersions : v = r.former
    BY <1>1, <1>2, <2>1, <2>2 DEF PlanIInv, PlanTypeOK, FormerIsActive
  <2>4. QED
    BY <1>1, <2>3 DEF ActiveVersions
<1>9. QED
  BY <1>5, <1>7, <1>8 DEF PlanIInv

\* One step per action.
LEMMA PlanStepInv == PlanIInv /\ [PlanNext]_planVars => PlanIInv'
<1> SUFFICES ASSUME PlanIInv, [PlanNext]_planVars PROVE PlanIInv'
  OBVIOUS
<1>1. CASE UNCHANGED planVars
  BY <1>1 DEF planVars, PlanIInv, PlanTypeOK, Keys, FormerIsActive, OneActiveUnlessStale,
              ActiveVersions
<1>2. ASSUME NEW v \in Versions, CreateLaunchPlan(v)
      PROVE  PlanIInv'
  <2>1. ActiveVersions' = ActiveVersions /\ tainted' = tainted /\ handler' = handler
    BY <1>2 DEF CreateLaunchPlan, GetLaunchPlanModel, ActiveVersions, PlanIInv, PlanTypeOK
  <2>2. PlanTypeOK'
    BY <1>2 DEF CreateLaunchPlan, PlanIInv, PlanTypeOK, Keys, States
  <2>3. QED
    BY <2>1, <2>2 DEF PlanIInv, FormerIsActive, OneActiveUnlessStale
<1>3. ASSUME NEW h \in Handlers, NEW v \in Versions,
             NEW former \in Versions \cup {NoVersion}, enableLaunchPlan(h, v, former)
      PROVE  PlanIInv'
  <2> DEFINE pc == IF ~isScheduleEmpty(former) THEN "removeFormer"
                   ELSE IF ~isScheduleEmpty(v) THEN "add" ELSE "setActive"
             request == [pc |-> pc, version |-> v, former |-> former,
                         stale |-> FALSE]
  <2>1. request \in Request /\ Start(h, request) /\ request.former = former
    BY <1>3 DEF enableLaunchPlan, Request, Enabling
  <2>2. ~tainted => \A w \in ActiveVersions : w = former
    BY <1>3 DEF enableLaunchPlan, PlanIInv, OneActiveUnlessStale
  <2>3. QED
    BY <2>1, <2>2, PlanStartInv
<1>4. ASSUME NEW h \in Handlers, NEW v \in Versions, disableLaunchPlan(h, v)
      PROVE  PlanIInv'
  <2> DEFINE pc == IF v \in WithSchedule THEN "remove" ELSE "deactivate"
             request == [pc |-> pc, version |-> v]
  <2>1. /\ request \in Request /\ Start(h, request)
        /\ request.pc \notin Enabling
    BY <1>4 DEF disableLaunchPlan, Request, Enabling
  <2>2. QED
    BY <2>1, PlanStartInv
<1>5. ASSUME NEW h \in Handlers, RemoveFormerSchedule(h)
      PROVE  PlanIInv'
  <2> DEFINE pc == IF isScheduleEmpty(handler[h].version) THEN "setActive" ELSE "add"
  <2>1. /\ handler[h].pc \in Enabling /\ handler[h] # Idle
        /\ pc \in Enabling /\ Goto(h, pc) /\ RemoveSchedule(handler[h].former)
    <3>1. handler[h].pc = "removeFormer" /\ Goto(h, pc) /\ RemoveSchedule(handler[h].former)
      BY <1>5, Zenon DEF RemoveFormerSchedule
    <3>2. pc \in {"setActive", "add"}
      BY Zenon
    <3>. HIDE DEF pc
    <3>. QED  BY <3>1, <3>2 DEF Enabling, Idle
  <2>2. schedule' \in [Keys -> {NoSchedule, Inactive}
                                 \cup {Runs(v) : v \in Versions}]
    BY <2>1, Zenon DEF PlanIInv, PlanTypeOK, RemoveSchedule
  <2> HIDE DEF pc
  <2>3. QED
    BY <1>5, <2>1, <2>2, PlanGotoInv, Zenon DEF RemoveFormerSchedule
<1>6. ASSUME NEW h \in Handlers, AddSchedule(h)
      PROVE  PlanIInv'
  <2>1. /\ handler[h].pc \in Enabling /\ handler[h] # Idle
        /\ "create" \in Enabling /\ "setActive" \in Enabling
    BY <1>6 DEF AddSchedule, Enabling, Idle
  <2>2. handler[h].version \in Versions
    BY <2>1, RequestKinds DEF PlanIInv
  <2>3. schedule' \in [Keys -> {NoSchedule, Inactive}
                                 \cup {Runs(v) : v \in Versions}]
    BY <1>6, <2>2 DEF AddSchedule, PlanIInv, PlanTypeOK
  <2>4. CASE Goto(h, "setActive")
    BY <1>6, <2>1, <2>3, <2>4, PlanGotoInv DEF AddSchedule
  <2>5. CASE Goto(h, "create")
    BY <1>6, <2>1, <2>3, <2>5, PlanGotoInv DEF AddSchedule
  <2>6. QED
    BY <1>6, <2>4, <2>5 DEF AddSchedule
<1>7. ASSUME NEW h \in Handlers, CreateSchedule(h)
      PROVE  PlanIInv'
  <2>1. /\ handler[h].pc \in Enabling /\ handler[h] # Idle
        /\ "setActive" \in Enabling
    BY <1>7 DEF CreateSchedule, Enabling, Idle
  <2>2. handler[h].version \in Versions
    BY <2>1, RequestKinds DEF PlanIInv
  <2>3. CASE schedule[handler[h].version] = Inactive
    BY <1>7, <2>3, PlanEndInv DEF CreateSchedule, Stops, Leaves, PlanIInv, PlanTypeOK, ActiveVersions
  <2>4. CASE schedule[handler[h].version] # Inactive
    <3>1. schedule' \in [Keys -> {NoSchedule, Inactive}
                                   \cup {Runs(v) : v \in Versions}]
      BY <1>7, <2>2, <2>4 DEF CreateSchedule, PlanIInv, PlanTypeOK
    <3>2. QED
      BY <1>7, <2>1, <2>4, <3>1, PlanGotoInv, Zenon DEF CreateSchedule
  <2>5. QED
    BY <2>3, <2>4
<1>8. ASSUME NEW h \in Handlers, RemoveOwnSchedule(h)
      PROVE  PlanIInv'
  <2>1. /\ handler[h].pc = "remove" /\ handler[h] # Idle
        /\ handler[h].pc \notin Enabling /\ "deactivate" \notin Enabling
        /\ Goto(h, "deactivate") /\ RemoveSchedule(handler[h].version)
    BY <1>8 DEF RemoveOwnSchedule, Enabling, Idle
  <2>2. schedule' \in [Keys -> {NoSchedule, Inactive}
                                 \cup {Runs(v) : v \in Versions}]
    BY <2>1, Zenon DEF PlanIInv, PlanTypeOK, RemoveSchedule
  <2>3. QED
    BY <1>8, <2>1, <2>2, PlanGotoInv DEF RemoveOwnSchedule
<1>9. ASSUME NEW h \in Handlers, SetInactive(h)
      PROVE  PlanIInv'
  <2>1. state' \in [Versions -> States] /\ ActiveVersions' \subseteq ActiveVersions
    BY <1>9, Zenon DEF SetInactive, updateLaunchPlanModelState, PlanIInv, PlanTypeOK, States, ActiveVersions
  <2>2. QED
    BY <1>9, <2>1, PlanEndInv, Zenon DEF SetInactive, Succeeds, Leaves
<1>10. ASSUME NEW h \in Handlers, Fail(h)
       PROVE  PlanIInv'
  BY <1>10, PlanEndInv, Zenon DEF Fail, Stops, Leaves, PlanIInv, PlanTypeOK, ActiveVersions
<1>11. QED
  BY <1>1, <1>2, <1>3, <1>4, <1>5, <1>6, <1>7, <1>8, <1>9, <1>10, SetActiveInv
     DEF PlanNext

\* The inductive invariant of UpdateLaunchPlan.
THEOREM PlanInvariance == PlanSpec => []PlanIInv
BY PlanInitInv, PlanStepInv, PTL DEF PlanSpec

\* UpdateLaunchPlan keeps the types of the rows, schedules and requests.
THEOREM PlanTypeCorrect == PlanSpec => []PlanTypeOK
BY PlanInvariance, PTL DEF PlanIInv

\* At most one version is active until SetActive goes by a stale version.
THEOREM AtMostOneActive == PlanSpec => []OneActiveUnlessStale
BY PlanInvariance, PTL DEF PlanIInv

-----------------------------------------------------------------------------

\* A native schedule is kept under its own version, and that of CloudWatch under
\* the one rule; only the native scheduler creates an entity, and only versions
\* with a schedule have one.
OneKey ==
    /\ scheduler = "native" =>
          \A k \in Keys, v \in Versions : schedule[k] = Runs(v) => k = v
    /\ scheduler = "cloudwatch" => \A k \in Keys : k # "rule" => schedule[k] = NoSchedule
    /\ Running \subseteq Scheduled

Purposeful ==
    \A h \in Handlers :
        /\ handler[h].pc = "create" => scheduler = "native"
        /\ handler[h].pc \in {"add", "create"} => handler[h].version \in Scheduled
        /\ handler[h].pc = "removeFormer" => handler[h].former \in Scheduled

\* What the history says of the requests in flight.
Noted ==
    /\ \A h \in Handlers : Touched(handler[h]) \subseteq doubtful
    /\ \A g, h \in Handlers : g # h => Touched(handler[g]) \cap Touched(handler[h]) \subseteq contested

\* The schedule of a version and its state agree.
Agrees(v) ==
    /\ scheduler # "aws" /\ v \in Running => v \in ActiveVersions
    /\ scheduler = "native" /\ v \in ActiveVersions \cap Scheduled => v \in Running

\* A request is past the removal of a schedule, or past the addition of it.
Removed(request, v) ==
    IF request.pc \in Enabling
    THEN v # request.version /\ request.pc \in {"add", "create", "setActive"}
    ELSE request.pc = "deactivate"
Added(request, v) == request.pc = "setActive" /\ v = request.version

\* How far a request has got with a version nobody else is about.
HalfWay(h) ==
    \A v \in Touched(handler[h]) \ contested :
        /\ scheduler # "aws" /\ Removed(handler[h], v) => v \notin Running
        /\ scheduler = "native" /\ Added(handler[h], v) /\ v \in Scheduled => v \in Running

Following ==
    /\ \A v \in Versions \ doubtful : Agrees(v)
    /\ \A h \in Handlers : HalfWay(h)

SInv == OneKey /\ Purposeful /\ Noted /\ Following

\* A step leaves the schedule of a version running or not, and the version
\* active or not; another version may take over the CloudWatch rule.
Steady(v) ==
    /\ v \in Running' => v \in Running
    /\ scheduler = "native" /\ v \in Running => v \in Running'
    /\ v \in ActiveVersions' <=> v \in ActiveVersions

\* A schedule that runs for a version is neither missing nor inactive, and runs
\* for no other.
LEMMA RunsFacts ==
    /\ \A v, w : Runs(v) = Runs(w) => v = w
    /\ \A v : Runs(v) # NoSchedule /\ Runs(v) # Inactive
<1>1. \A v : Runs(v).version = v /\ Runs(v).is = "active"
  BY DEF Runs
<1>2. NoSchedule.is = "none" /\ Inactive.is = "inactive"
  BY DEF NoSchedule, Inactive
<1>. QED  BY <1>1, <1>2

\* RemoveSchedule stops the schedule of its version, if it has its name, and
\* with CloudWatch whatever runs.
LEMMA Removes ==
    ASSUME PlanIInv, OneKey, NEW v \in Versions, RemoveSchedule(v), UNCHANGED scheduler
    PROVE  /\ OneKey'
           /\ Running' \subseteq Running
           /\ scheduler # "aws" => v \notin Running'
           /\ scheduler = "native" => Running' = Running \ {v}
<1>1. DOMAIN schedule = Keys
  BY DEF PlanIInv, PlanTypeOK
<1>2. CASE scheduler = "native"
  <2>1. \A k \in Keys : schedule'[k] = IF k # v THEN schedule[k]
                                       ELSE IF schedule[k] = NoSchedule THEN NoSchedule
                                       ELSE Inactive
    BY <1>1, <1>2 DEF RemoveSchedule, disableSchedule
  <2>2. \A k \in Keys, w \in Versions :
           schedule'[k] = Runs(w) <=> schedule[k] = Runs(w) /\ k # v
    BY <2>1, RunsFacts
  <2>3. \A k \in Keys, w \in Versions : schedule[k] = Runs(w) => k = w
    BY <1>2 DEF OneKey
  <2>4. \A w \in Versions : (\E k \in Keys : schedule'[k] = Runs(w)) <=>
                            (\E k \in Keys : schedule[k] = Runs(w)) /\ w # v
    BY <2>2, <2>3
  <2>5. Running' = Running \ {v}
    BY <2>4 DEF Running, Keys, Rules
  <2>. QED  BY <1>2, <2>2, <2>3, <2>5 DEF OneKey, Keys, Rules
<1>3. CASE scheduler # "native"
  <2>1. \A k \in Keys : schedule'[k] = IF k = "rule" THEN NoSchedule ELSE schedule[k]
    BY <1>1, <1>3 DEF RemoveSchedule, disableSchedule
  <2>2. Running' \subseteq Running
    BY <2>1, RunsFacts DEF Running, Keys, Rules
  <2>3. scheduler = "cloudwatch" => \A k \in Keys : schedule'[k] = NoSchedule
    BY <2>1 DEF OneKey
  <2>4. scheduler = "cloudwatch" => Running' = {}
    BY <2>3, RunsFacts DEF Running, Keys, Rules
  <2>5. scheduler \in {"native", "cloudwatch", "aws"}
    BY SchedulersAssumption DEF PlanIInv, PlanTypeOK
  <2>. QED  BY <1>3, <2>2, <2>3, <2>4, <2>5 DEF OneKey, Keys, Rules
<1>. QED  BY <1>2, <1>3

\* The schedule of a version is put under its key, in the place of another's
\* only with CloudWatch.
LEMMA Adds ==
    ASSUME PlanIInv, OneKey, NEW v \in Scheduled, UNCHANGED scheduler,
           schedule' = [schedule EXCEPT ![CreateScheduleInput(v)] = Runs(v)]
    PROVE  /\ OneKey'
           /\ v \in Running' /\ Running' \subseteq Running \cup {v}
           /\ scheduler = "native" => Running \subseteq Running'
<1>. DEFINE key == CreateScheduleInput(v)
<1>1. /\ v \in Versions /\ key \in Keys
      /\ scheduler = "native" => key = v
      /\ scheduler = "cloudwatch" => key = "rule"
  BY ScheduledAssumption DEF CreateScheduleInput, Keys, Rules
<1>2. \A k \in Keys : schedule'[k] = IF k = key THEN Runs(v) ELSE schedule[k]
  BY DEF PlanIInv, PlanTypeOK
<1>. HIDE DEF key
<1>3. v \in Running'
  BY <1>1, <1>2 DEF Running, Keys, Rules
<1>4. Running' \subseteq Running \cup {v}
  BY <1>2, RunsFacts DEF Running, Keys, Rules
<1>5. scheduler = "native" => Running \subseteq Running'
  <2>. SUFFICES ASSUME scheduler = "native", NEW w \in Running PROVE w \in Running'
    OBVIOUS
  <2>1. PICK k \in Keys : schedule[k] = Runs(w) /\ w \in Versions
    BY DEF Running
  <2>2. k = w
    BY <2>1 DEF OneKey
  <2>3. CASE w = v
    BY <2>3, <1>3
  <2>4. CASE w # v
    BY <1>1, <1>2, <2>1, <2>2, <2>4 DEF Running, Keys, Rules
  <2>. QED  BY <2>3, <2>4
<1>6. OneKey'
  BY <1>1, <1>2, <1>4, RunsFacts DEF OneKey, Keys, Rules
<1>. QED  BY <1>3, <1>4, <1>5, <1>6

LEMMA SInit == PlanInit => SInv
<1>. SUFFICES ASSUME PlanInit PROVE SInv
  OBVIOUS
<1>1. Running = {} /\ ActiveVersions = {}
  BY RunsFacts DEF PlanInit, Running, ActiveVersions
<1>2. OneKey
  BY <1>1, RunsFacts DEF PlanInit, OneKey
<1>3. \A h \in Handlers : handler[h] = Idle /\ handler[h].pc = "idle"
  BY DEF PlanInit, Idle
<1>4. Purposeful /\ Noted
  BY <1>3, TouchedFacts DEF Purposeful, Noted
<1>5. Following
  BY <1>1, <1>3, TouchedFacts DEF Following, HalfWay, Agrees
<1>. QED  BY <1>2, <1>4, <1>5 DEF SInv

\* A version the step leaves alone agrees as it did, and a request that the
\* step leaves alone is as far with it.
LEMMA Undisturbed ==
    ASSUME Following, UNCHANGED scheduler
    PROVE  /\ \A v \in Versions \ doubtful : Steady(v) => Agrees(v)'
           /\ \A h \in Handlers : \A v \in Touched(handler[h]) \ contested :
                 Steady(v) => /\ scheduler # "aws" /\ Removed(handler[h], v) => v \notin Running'
                              /\ scheduler = "native" /\ Added(handler[h], v) /\ v \in Scheduled
                                    => v \in Running'
BY Zenon DEF Following, Agrees, HalfWay, Steady

\* A request goes on to pc.
LEMMA GotoS ==
    ASSUME PlanIInv, SInv, NEW h \in Handlers, NEW pc \in {"add", "create", "setActive", "deactivate"},
           handler[h] # Idle, handler[h].pc \in Enabling <=> pc \in Enabling, Goto(h, pc),
           UNCHANGED <<scheduler, state, contested, doubtful, tainted>>,
           OneKey', pc = "create" => scheduler = "native",
           pc \in {"add", "create"} => handler[h].version \in Scheduled,
           \A v \in Versions \ Touched(handler[h]) : Steady(v),
           \A v \in Touched(handler[h]) \ contested :
              /\ scheduler # "aws" /\ (pc \in Enabling => v # handler[h].version) => v \notin Running'
              /\ scheduler = "native" /\ pc = "setActive" /\ v = handler[h].version /\ v \in Scheduled
                    => v \in Running'
    PROVE  SInv'
<1>1. handler[h] \in Request
  BY RequestKinds, Zenon DEF PlanIInv
<1>2. /\ \A g \in Handlers : g # h => handler'[g] = handler[g]
      /\ handler'[h].pc = pc /\ handler'[h].version = handler[h].version
      /\ pc \in Enabling => handler'[h].former = handler[h].former
      /\ handler'[h] # Idle
  <2>1. handler'[h] = [handler[h] EXCEPT !.pc = pc] /\ \A g \in Handlers : g # h => handler'[g] = handler[g]
    BY DEF Goto, PlanIInv, PlanTypeOK
  <2>2. handler'[h].pc = pc /\ handler'[h].version = handler[h].version
    BY <1>1, <2>1 DEF Request
  <2>3. pc \in Enabling => handler'[h].former = handler[h].former
    BY <2>1, RequestKinds DEF PlanIInv
  <2>. QED  BY <2>1, <2>2, <2>3 DEF Idle
<1>3. Touched(handler'[h]) = Touched(handler[h])
  BY <1>2, Zenon DEF Touched
<1>4. \A g \in Handlers : Touched(handler'[g]) = Touched(handler[g])
  BY <1>2, <1>3, Zenon
<1>5. Noted'
  BY <1>4 DEF SInv, Noted
<1>6. Purposeful'
  BY <1>2, Zenon DEF SInv, Purposeful
<1>7. Following'
  <2>1. ASSUME NEW v \in Versions \ doubtful PROVE Agrees(v)'
    <3>1. v \notin Touched(handler[h])
      BY Zenon DEF SInv, Noted
    <3>. QED  BY <3>1, Undisturbed, Zenon DEF SInv
  <2>2. ASSUME NEW g \in Handlers, g # h PROVE HalfWay(g)'
    <3>. SUFFICES ASSUME NEW v \in Touched(handler[g]) \ contested
                  PROVE  /\ scheduler # "aws" /\ Removed(handler[g], v) => v \notin Running'
                         /\ scheduler = "native" /\ Added(handler[g], v) /\ v \in Scheduled => v \in Running'
      BY <1>2, <2>2, Zenon DEF HalfWay, Removed, Added
    <3>1. v \in Versions \ Touched(handler[h])
      BY <2>2, RequestKinds, TouchedFacts, Zenon DEF SInv, Noted, PlanIInv
    <3>. QED  BY <3>1, Undisturbed, Zenon DEF SInv
  <2>3. HalfWay(h)'
    <3>1. \A v : Removed(handler'[h], v) => (pc \in Enabling => v # handler[h].version)
      BY <1>2, Zenon DEF Removed
    <3>2. \A v : Added(handler'[h], v) => pc = "setActive" /\ v = handler[h].version
      BY <1>2, Zenon DEF Added
    <3>. QED  BY <1>3, <3>1, <3>2, Zenon DEF HalfWay
  <2>. QED  BY <2>1, <2>2, <2>3, Zenon DEF Following
<1>. QED  BY <1>5, <1>6, <1>7 DEF SInv

\* What the end of a request means for the others.
LEMMA EndNoted ==
    ASSUME PlanIInv, SInv, NEW h \in Handlers, Leaves(h),
           handler'[h] = Idle,
           \A g \in Handlers : g # h => Touched(handler'[g]) = Touched(handler[g]),
           doubtful \ (Touched(handler[h]) \ contested) \subseteq doubtful'
    PROVE  /\ Noted'
           /\ \A g \in Handlers : \A v \in Touched(handler[g]) \ contested' :
                 g # h => v \in Versions /\ v \notin contested /\ v \notin Touched(handler[h])
<1>1. Touched(handler'[h]) = {}
  BY TouchedFacts
<1>2. \A g \in Handlers : Touched(handler[g]) \subseteq doubtful
  BY DEF SInv, Noted
<1>3. \A g, f \in Handlers : g # f => Touched(handler[g]) \cap Touched(handler[f]) \subseteq contested
  BY DEF SInv, Noted
<1>4. \A g \in Handlers : \A v \in Touched(handler[g]) : g # h => (v \in contested' <=> v \in contested)
  BY DEF Leaves
<1>5. ASSUME NEW g \in Handlers PROVE Touched(handler'[g]) \subseteq doubtful'
  <2>1. CASE g = h
    BY <2>1, <1>1
  <2>2. CASE g # h
    BY <2>2, <1>2, <1>3
  <2>. QED  BY <2>1, <2>2
<1>6. ASSUME NEW g \in Handlers, NEW f \in Handlers, g # f
      PROVE  Touched(handler'[g]) \cap Touched(handler'[f]) \subseteq contested'
  <2>1. CASE g = h \/ f = h
    BY <2>1, <1>1
  <2>2. CASE g # h /\ f # h
    BY <2>2, <1>3, <1>4, <1>6
  <2>. QED  BY <2>1, <2>2
<1>7. ASSUME NEW g \in Handlers, g # h, NEW v \in Touched(handler[g]) \ contested'
      PROVE  v \in Versions /\ v \notin contested /\ v \notin Touched(handler[h])
  <2>1. v \in Versions
    BY RequestKinds, TouchedFacts DEF PlanIInv
  <2>. QED  BY <1>3, <1>4, <1>7, <2>1
<1>. QED  BY <1>5, <1>6, <1>7, Zenon DEF Noted

\* A request ends, and the versions it is about agree if it has succeeded.
LEMMA EndS ==
    ASSUME PlanIInv, SInv, NEW h \in Handlers, handler[h] # Idle, handler'[h] = Idle, Leaves(h),
           \A g \in Handlers : g # h => /\ Touched(handler'[g]) = Touched(handler[g])
                                        /\ handler'[g].pc = handler[g].pc
                                        /\ handler'[g].version = handler[g].version
                                        /\ handler[g].pc \in Enabling => handler'[g].former = handler[g].former,
           UNCHANGED <<scheduler, schedule>>,
           \A v \in Versions \ Touched(handler[h]) : Steady(v),
           doubtful \ (Touched(handler[h]) \ contested) \subseteq doubtful',
           \A v \in Touched(handler[h]) \ contested : v \notin doubtful' => Agrees(v)'
    PROVE  SInv'
<1>1. Running' = Running
  BY Zenon DEF Running, Keys, Rules
<1>2. OneKey'
  BY <1>1 DEF SInv, OneKey, Keys, Rules
<1>3. Idle.pc \notin {"add", "create", "removeFormer"} /\ "removeFormer" \in Enabling
  BY Zenon DEF Idle, Enabling
<1>4. Purposeful'
  BY <1>3, Zenon DEF SInv, Purposeful
<1>5. /\ Noted'
      /\ \A g \in Handlers : \A v \in Touched(handler[g]) \ contested' :
            g # h => v \in Versions /\ v \notin contested /\ v \notin Touched(handler[h])
  BY EndNoted, Zenon
<1>6. Following'
  <2>1. ASSUME NEW v \in Versions \ doubtful' PROVE Agrees(v)'
    <3>1. CASE v \in Touched(handler[h]) \ contested
      BY <2>1, <3>1
    <3>2. CASE v \notin Touched(handler[h]) \ contested
      <4>1. v \notin doubtful /\ v \notin Touched(handler[h])
        BY <2>1, <3>2, Zenon DEF SInv, Noted
      <4>. QED  BY <4>1, Undisturbed, Zenon DEF SInv
    <3>. QED  BY <3>1, <3>2, Zenon
  <2>2. ASSUME NEW g \in Handlers, g # h PROVE HalfWay(g)'
    <3>. SUFFICES ASSUME NEW v \in Touched(handler[g]) \ contested'
                  PROVE  /\ scheduler # "aws" /\ Removed(handler'[g], v) => v \notin Running'
                         /\ scheduler = "native" /\ Added(handler'[g], v) /\ v \in Scheduled => v \in Running'
      BY <2>2, Zenon DEF HalfWay
    <3>1. handler[g] # Idle
      BY TouchedFacts
    <3>2. (Removed(handler'[g], v) <=> Removed(handler[g], v)) /\ (Added(handler'[g], v) <=> Added(handler[g], v))
      BY <2>2, <3>1, Zenon DEF Removed, Added
    <3>. QED  BY <1>5, <2>2, <3>2, Undisturbed, Zenon DEF SInv
  <2>3. HalfWay(h)'
    BY TouchedFacts, Zenon DEF HalfWay
  <2>. QED  BY <2>1, <2>2, <2>3, Zenon DEF Following
<1>. QED  BY <1>2, <1>4, <1>5, <1>6, Zenon DEF SInv

\* A request stops half way.
LEMMA StopsS ==
    ASSUME PlanIInv, SInv, NEW h \in Handlers, handler[h] # Idle, Stops(h),
           UNCHANGED <<scheduler, state, schedule>>
    PROVE  SInv'
<1>1. handler'[h] = Idle /\ \A g \in Handlers : g # h => handler'[g] = handler[g]
  BY DEF Stops, PlanIInv, PlanTypeOK
<1>2. Running' = Running /\ ActiveVersions' = ActiveVersions
  BY DEF Running, ActiveVersions, Keys, Rules
<1>3. \A v \in Versions : Steady(v)
  BY <1>2 DEF Steady
<1>4. Leaves(h) /\ doubtful' = doubtful
  BY DEF Stops
<1>5. \A v \in Touched(handler[h]) : v \in doubtful
  BY DEF SInv, Noted
<1>. QED  BY <1>1, <1>3, <1>4, <1>5, EndS, Zenon

\* A request starts.
LEMMA StartS ==
    ASSUME PlanIInv, SInv, NEW h \in Handlers, NEW r \in Request, Start(h, r),
           r.pc # "create", r.pc = "add" => r.version \in Scheduled,
           r.pc = "removeFormer" => r.former \in Scheduled,
           \A v \in Touched(r) : (Removed(r, v) \/ Added(r, v)) => v \notin Scheduled
    PROVE  SInv'
<1>1. /\ handler[h] = Idle /\ handler'[h] = r
      /\ \A g \in Handlers : g # h => handler'[g] = handler[g]
      /\ contested \subseteq contested' /\ doubtful' = doubtful \cup Touched(r)
      /\ UNCHANGED <<scheduler, state, schedule>>
  BY Zenon DEF Start, PlanIInv, PlanTypeOK
<1>2. \A g \in Handlers : Touched(r) \cap Touched(handler[g]) \subseteq contested'
  BY DEF Start
<1>3. Running' = Running /\ ActiveVersions' = ActiveVersions
  BY <1>1 DEF Running, ActiveVersions, Keys, Rules
<1>4. OneKey'
  BY <1>1, <1>3 DEF SInv, OneKey, Keys, Rules
<1>5. Purposeful'
  BY <1>1, Zenon DEF SInv, Purposeful
<1>6. Noted'
  <2>1. \A g \in Handlers : Touched(handler'[g]) \subseteq doubtful'
    BY <1>1, Zenon DEF SInv, Noted
  <2>2. ASSUME NEW g \in Handlers, NEW f \in Handlers, g # f
        PROVE  Touched(handler'[g]) \cap Touched(handler'[f]) \subseteq contested'
    <3>1. CASE g = h
      BY <1>1, <1>2, <2>2, <3>1, Zenon
    <3>2. CASE f = h
      BY <1>1, <1>2, <2>2, <3>2, Zenon
    <3>3. CASE g # h /\ f # h
      BY <1>1, <2>2, <3>3, Zenon DEF SInv, Noted
    <3>. QED  BY <3>1, <3>2, <3>3, Zenon
  <2>. QED  BY <2>1, <2>2 DEF Noted
<1>7. Following'
  <2>1. ASSUME NEW v \in Versions \ doubtful' PROVE Agrees(v)'
    <3>1. v \in Versions \ doubtful
      BY <1>1
    <3>. QED  BY <1>1, <1>3, <3>1, Zenon DEF SInv, Following, Agrees
  <2>2. ASSUME NEW g \in Handlers, g # h PROVE HalfWay(g)'
    <3>1. \A v \in Touched(handler[g]) \ contested' : v \in Touched(handler[g]) \ contested
      BY <1>1
    <3>. QED  BY <1>1, <1>3, <2>2, <3>1, Zenon DEF SInv, Following, HalfWay
  <2>3. HalfWay(h)'
    <3>1. \A v \in Touched(r) : Removed(r, v) => v \notin Running
      BY Zenon DEF SInv, OneKey
    <3>. QED  BY <1>1, <1>3, <3>1, Zenon DEF HalfWay
  <2>. QED  BY <2>1, <2>2, <2>3, Zenon DEF Following
<1>. QED  BY <1>4, <1>5, <1>6, <1>7 DEF SInv

LEMMA EnableS ==
    ASSUME PlanIInv, SInv, NEW h \in Handlers, NEW v \in Versions,
           NEW former \in Versions \cup {NoVersion}, enableLaunchPlan(h, v, former)
    PROVE  SInv'
<1>. DEFINE pc == IF ~isScheduleEmpty(former) THEN "removeFormer"
                  ELSE IF ~isScheduleEmpty(v) THEN "add" ELSE "setActive"
<1>1. PICK r : r = [pc |-> pc, version |-> v, former |-> former, stale |-> FALSE]
  BY Zenon
<1>2. /\ r \in Request /\ Start(h, r) /\ r.pc = pc /\ r.version = v /\ r.former = former
      /\ r.pc # "create"
  BY <1>1, Zenon DEF enableLaunchPlan, Request, Enabling
<1>3. pc \in Enabling /\ pc \in {"removeFormer", "add", "setActive"}
  BY DEF Enabling
<1>4. /\ pc \in {"add", "setActive"} => former \notin Scheduled
      /\ pc = "setActive" => v \notin Scheduled
      /\ pc = "add" => v \in Scheduled
      /\ pc = "removeFormer" => former \in Scheduled
  BY DEF isScheduleEmpty
<1>. HIDE DEF pc
<1>5. Touched(r) \subseteq {v, former}
  BY <1>2, <1>3, TouchedFacts, Zenon DEF Touched
<1>6. \A w \in Touched(r) : (Removed(r, w) \/ Added(r, w)) => w \notin Scheduled
  BY <1>2, <1>3, <1>4, <1>5 DEF Removed, Added
<1>. QED  BY <1>2, <1>4, <1>6, StartS, Zenon

LEMMA DisableS ==
    ASSUME PlanIInv, SInv, NEW h \in Handlers, NEW v \in Versions, disableLaunchPlan(h, v)
    PROVE  SInv'
<1>1. PICK r : r = [pc |-> IF v \in WithSchedule THEN "remove" ELSE "deactivate", version |-> v]
  BY Zenon
<1>2. r \in Request /\ Start(h, r) /\ r.pc \in {"remove", "deactivate"} /\ r.version = v
  BY <1>1, Zenon DEF disableLaunchPlan, Request
<1>3. r.pc = "deactivate" => v \notin Scheduled
  BY <1>1, ScheduledAssumption
<1>4. /\ r.pc \notin Enabling /\ r.pc # "create" /\ r.pc # "add" /\ r.pc # "setActive"
      /\ r.pc # "removeFormer"
  BY <1>2 DEF Enabling
<1>5. Touched(r) \subseteq {v}
  BY <1>2, <1>4, Zenon DEF Touched
<1>6. \A w \in Touched(r) : (Removed(r, w) \/ Added(r, w)) => w \notin Scheduled
  BY <1>3, <1>4, <1>5, Zenon DEF Removed, Added
<1>. QED  BY <1>2, <1>4, <1>6, StartS, Zenon

\* The versions a request under way is about.
LEMMA UnderWay ==
    ASSUME PlanIInv, NEW h \in Handlers
    PROVE  /\ handler[h].pc \in Enabling =>
                 /\ handler[h].version \in Versions /\ handler[h] # Idle
                 /\ Touched(handler[h]) = {handler[h].version, handler[h].former} \cap Versions
           /\ handler[h].pc \in {"remove", "deactivate"} =>
                 /\ handler[h].version \in Versions /\ handler[h] # Idle
                 /\ Touched(handler[h]) = {handler[h].version} /\ handler[h].pc \notin Enabling
<1>1. Idle.pc \notin Enabling /\ Idle.pc \notin {"remove", "deactivate"}
      /\ "remove" \notin Enabling /\ "deactivate" \notin Enabling
  BY DEF Idle, Enabling
<1>2. /\ handler[h].pc \in Enabling => handler[h].version \in Versions
      /\ handler[h].pc \in {"remove", "deactivate"} => handler[h].version \in Versions
  BY RequestKinds DEF PlanIInv
<1>. QED  BY <1>1, <1>2, Zenon DEF Touched

LEMMA RemoveFormerS ==
    ASSUME PlanIInv, SInv, NEW h \in Handlers, RemoveFormerSchedule(h)
    PROVE  SInv'
<1>. DEFINE v == handler[h].version
            f == handler[h].former
<1>1. PICK pc \in {"setActive", "add"} : pc = IF isScheduleEmpty(v) THEN "setActive" ELSE "add"
  OBVIOUS
<1>2. /\ handler[h].pc = "removeFormer" /\ Goto(h, pc) /\ RemoveSchedule(f)
      /\ UNCHANGED <<scheduler, state, contested, doubtful, tainted>>
  BY <1>1, Zenon DEF RemoveFormerSchedule
<1>3. /\ handler[h].pc \in Enabling /\ pc \in Enabling
      /\ handler[h] # Idle
      /\ Touched(handler[h]) = {v, f} \cap Versions
  <2>1. {"removeFormer", "setActive", "add"} \subseteq Enabling
    BY DEF Enabling
  <2>. QED  BY <1>1, <1>2, <2>1, UnderWay, Zenon
<1>4. f \in Scheduled /\ f \in Versions
  <2>1. f \in Scheduled
    BY <1>2, Zenon DEF SInv, Purposeful
  <2>. QED  BY <2>1, ScheduledAssumption
<1>5. /\ OneKey' /\ Running' \subseteq Running
      /\ scheduler # "aws" => f \notin Running'
      /\ scheduler = "native" => Running' = Running \ {f}
  BY <1>2, <1>4, Removes, Zenon DEF SInv
<1>6. ActiveVersions' = ActiveVersions
  BY <1>2 DEF ActiveVersions
<1>. HIDE DEF v, f
<1>7. \A w \in Versions \ Touched(handler[h]) : Steady(w)
  BY <1>3, <1>4, <1>5, <1>6 DEF Steady
<1>8. /\ pc = "add" => v \in Scheduled
      /\ pc = "setActive" => v \notin Scheduled
  BY <1>1 DEF isScheduleEmpty
<1>9. \A w \in Touched(handler[h]) \ contested :
         /\ scheduler # "aws" /\ (pc \in Enabling => w # handler[h].version) => w \notin Running'
         /\ scheduler = "native" /\ pc = "setActive" /\ w = handler[h].version /\ w \in Scheduled
               => w \in Running'
  BY <1>3, <1>5, <1>8 DEF v
<1>. QED  BY <1>1, <1>2, <1>3, <1>5, <1>7, <1>8, <1>9, GotoS, Zenon DEF v

\* The schedule of the request's version runs.
LEMMA AddedS ==
    ASSUME PlanIInv, SInv, NEW h \in Handlers, handler[h].pc \in {"add", "create"},
           schedule' = [schedule EXCEPT ![CreateScheduleInput(handler[h].version)] = Runs(handler[h].version)],
           Goto(h, "setActive"),
           UNCHANGED <<scheduler, state, contested, doubtful, tainted>>
    PROVE  SInv'
<1>. DEFINE v == handler[h].version
<1>1. {"add", "create", "setActive"} \subseteq Enabling
  BY DEF Enabling
<1>2. /\ handler[h] # Idle /\ handler[h].pc \in Enabling
      /\ Touched(handler[h]) = {v, handler[h].former} \cap Versions
  BY <1>1, UnderWay, Zenon
<1>3. v \in Scheduled
  BY Zenon DEF SInv, Purposeful
<1>4. /\ OneKey' /\ v \in Running' /\ Running' \subseteq Running \cup {v}
      /\ scheduler = "native" => Running \subseteq Running'
  BY <1>3, Adds, Zenon DEF SInv
<1>5. ActiveVersions' = ActiveVersions /\ v \in Versions
  BY <1>3, ScheduledAssumption DEF ActiveVersions
<1>6. \A w \in Touched(handler[h]) \ contested : scheduler # "aws" /\ w # v => w \notin Running
  <2>1. \A w : w # v => Removed(handler[h], w)
    BY <1>2, Zenon DEF Removed
  <2>. QED  BY <2>1, Zenon DEF SInv, Following, HalfWay
<1>. HIDE DEF v
<1>7. \A w \in Versions \ Touched(handler[h]) : Steady(w)
  BY <1>2, <1>4, <1>5 DEF Steady
<1>8. \A w \in Touched(handler[h]) \ contested :
         /\ scheduler # "aws" /\ ("setActive" \in Enabling => w # handler[h].version) => w \notin Running'
         /\ scheduler = "native" /\ w = handler[h].version /\ w \in Scheduled => w \in Running'
  BY <1>1, <1>4, <1>6 DEF v
<1>. QED  BY <1>1, <1>2, <1>4, <1>7, <1>8, GotoS, Zenon

LEMMA AddS ==
    ASSUME PlanIInv, SInv, NEW h \in Handlers, AddSchedule(h)
    PROVE  SInv'
<1>. DEFINE v == handler[h].version
<1>1. /\ handler[h].pc = "add"
      /\ UNCHANGED <<scheduler, state, contested, doubtful, tainted>>
      /\ \/ /\ schedule' = [schedule EXCEPT ![CreateScheduleInput(v)] = Runs(v)]
            /\ Goto(h, "setActive")
         \/ UNCHANGED schedule /\ Goto(h, "create") /\ scheduler = "native"
  BY Zenon DEF AddSchedule
<1>2. CASE UNCHANGED schedule /\ Goto(h, "create") /\ scheduler = "native"
  <2>1. {"add", "create"} \subseteq Enabling /\ "create" # "setActive"
    BY DEF Enabling
  <2>2. handler[h] # Idle
    BY <1>1, <2>1, UnderWay, Zenon
  <2>3. v \in Scheduled
    BY <1>1, Zenon DEF SInv, Purposeful
  <2>4. Running' = Running /\ ActiveVersions' = ActiveVersions /\ OneKey'
    BY <1>1, <1>2, Zenon DEF Running, ActiveVersions, Keys, Rules, SInv, OneKey
  <2>5. \A w \in Versions : Steady(w)
    BY <2>4 DEF Steady
  <2>6. \A w : w # v => Removed(handler[h], w)
    BY <1>1, <2>1, Zenon DEF Removed
  <2>7. \A w \in Touched(handler[h]) \ contested :
           scheduler # "aws" /\ ("create" \in Enabling => w # handler[h].version) => w \notin Running'
    BY <2>1, <2>4, <2>6, Zenon DEF SInv, Following, HalfWay
  <2>. QED  BY <1>1, <1>2, <2>1, <2>2, <2>3, <2>4, <2>5, <2>7, GotoS, Zenon
<1>. QED  BY <1>1, <1>2, AddedS, Zenon

LEMMA CreateS ==
    ASSUME PlanIInv, SInv, NEW h \in Handlers, CreateSchedule(h)
    PROVE  SInv'
<1>. DEFINE v == handler[h].version
<1>1. /\ handler[h].pc = "create" /\ scheduler = "native"
      /\ UNCHANGED <<scheduler, state, tainted>>
      /\ \/ Stops(h) /\ UNCHANGED schedule
         \/ /\ schedule' = [schedule EXCEPT ![v] = Runs(v)]
            /\ Goto(h, "setActive") /\ UNCHANGED <<contested, doubtful>>
  BY Zenon DEF CreateSchedule, SInv, Purposeful
<1>2. handler[h] # Idle
  <2>1. Idle.pc # "create"
    BY DEF Idle
  <2>. QED  BY <1>1, <2>1, Zenon
<1>3. CreateScheduleInput(v) = v
  BY <1>1 DEF CreateScheduleInput
<1>. QED  BY <1>1, <1>2, <1>3, AddedS, StopsS, Zenon

LEMMA RemoveOwnS ==
    ASSUME PlanIInv, SInv, NEW h \in Handlers, RemoveOwnSchedule(h)
    PROVE  SInv'
<1>. DEFINE v == handler[h].version
<1>1. /\ handler[h].pc = "remove"
      /\ Goto(h, "deactivate") /\ RemoveSchedule(v)
      /\ UNCHANGED <<scheduler, state, contested, doubtful, tainted>>
  BY Zenon DEF RemoveOwnSchedule
<1>2. /\ v \in Versions /\ handler[h] # Idle /\ Touched(handler[h]) = {v}
      /\ handler[h].pc \notin Enabling
  BY <1>1, UnderWay, Zenon
<1>3. /\ "deactivate" \notin Enabling
      /\ "deactivate" \notin {"add", "create"} /\ "deactivate" # "create" /\ "deactivate" # "setActive"
  BY DEF Enabling
<1>4. /\ OneKey' /\ Running' \subseteq Running
      /\ scheduler # "aws" => v \notin Running'
      /\ scheduler = "native" => Running' = Running \ {v}
  BY <1>1, <1>2, Removes, Zenon DEF SInv
<1>5. ActiveVersions' = ActiveVersions
  BY <1>1 DEF ActiveVersions
<1>. HIDE DEF v
<1>6. \A w \in Versions \ Touched(handler[h]) : Steady(w)
  BY <1>2, <1>4, <1>5 DEF Steady
<1>7. \A w \in Touched(handler[h]) : scheduler # "aws" => w \notin Running'
  BY <1>2, <1>4
<1>. QED  BY <1>1, <1>2, <1>3, <1>4, <1>6, <1>7, GotoS, Zenon DEF v

LEMMA SetActiveS ==
    ASSUME PlanIInv, SInv, NEW h \in Handlers, SetActive(h)
    PROVE  SInv'
<1>. DEFINE r == handler[h]
<1>1. r.pc = "setActive" /\ r.pc \in Enabling /\ Succeeds(h) /\ UNCHANGED <<scheduler, schedule>>
  BY DEF SetActive, Enabling
<1>2. r # Idle /\ r.version \in Versions /\ Touched(r) = {r.version, r.former} \cap Versions
  BY <1>1, UnderWay, Zenon
<1>3. /\ handler'[h] = Idle
      /\ \A g \in Handlers : g # h /\ handler[g].pc \notin Enabling => handler'[g] = handler[g]
      /\ \A g \in Handlers : g # h /\ handler[g].pc \in Enabling =>
                                 handler'[g] = [handler[g] EXCEPT !.stale = TRUE]
      /\ state' = [v \in Versions |-> IF v = r.version THEN "ACTIVE"
                                      ELSE IF v = r.former THEN "INACTIVE" ELSE state[v]]
  BY DEF SetActive
<1>4. ASSUME NEW g \in Handlers, g # h
      PROVE  /\ Touched(handler'[g]) = Touched(handler[g])
             /\ handler'[g].pc = handler[g].pc
             /\ handler'[g].version = handler[g].version
             /\ handler[g].pc \in Enabling => handler'[g].former = handler[g].former
  <2>1. CASE handler[g].pc \in Enabling
    <3>1. handler[g] \in [pc: Enabling, version: Versions,
                          former: Versions \cup {NoVersion}, stale: BOOLEAN]
      BY <2>1, RequestKinds DEF PlanIInv
    <3>2. handler'[g] = [handler[g] EXCEPT !.stale = TRUE]
      BY <1>3, <1>4, <2>1
    <3>3. /\ handler'[g].pc = handler[g].pc /\ handler'[g].version = handler[g].version
          /\ handler'[g].former = handler[g].former
      BY <3>1, <3>2, Zenon
    <3>4. handler'[g] # Idle /\ handler[g] # Idle
      BY <2>1, <3>3 DEF Idle, Enabling
    <3>. QED  BY <2>1, <3>3, <3>4, Zenon DEF Touched
  <2>2. CASE handler[g].pc \notin Enabling
    BY <1>3, <1>4, <2>2
  <2>. QED  BY <2>1, <2>2, Zenon
<1>5. \A v \in Versions : v \in ActiveVersions' <=>
         v = r.version \/ (v # r.former /\ v \in ActiveVersions)
  BY <1>2, <1>3 DEF ActiveVersions
<1>6. Running' = Running
  BY <1>1 DEF Running, Keys, Rules
<1>7. \A v \in Versions \ Touched(r) : Steady(v)
  BY <1>2, <1>5, <1>6 DEF Steady
<1>8. ASSUME NEW v \in Touched(r) \ contested PROVE Agrees(v)'
  <2>1. v \in Versions /\ (v = r.version \/ v = r.former)
    BY <1>2
  <2>2. CASE v = r.version
    <3>1. Added(r, v)
      BY <1>1, <2>2 DEF Added
    <3>2. scheduler = "native" /\ v \in Scheduled => v \in Running
      BY <3>1, Zenon DEF SInv, Following, HalfWay
    <3>. QED  BY <1>1, <1>5, <1>6, <2>1, <2>2, <3>2 DEF Agrees
  <2>3. CASE v # r.version
    <3>1. Removed(r, v)
      BY <1>1, <2>3, Zenon DEF Removed
    <3>2. scheduler # "aws" => v \notin Running
      BY <3>1, Zenon DEF SInv, Following, HalfWay
    <3>. QED  BY <1>1, <1>5, <1>6, <2>1, <2>3, <3>2 DEF Agrees
  <2>. QED  BY <2>2, <2>3
<1>9. Leaves(h) /\ doubtful' = doubtful \ (Touched(r) \ contested)
  BY <1>1 DEF Succeeds
<1>. QED  BY <1>1, <1>2, <1>3, <1>4, <1>7, <1>8, <1>9, EndS

LEMMA DeactivateS ==
    ASSUME PlanIInv, SInv, NEW h \in Handlers, SetInactive(h)
    PROVE  SInv'
<1>. DEFINE v == handler[h].version
<1>1. /\ handler[h].pc = "deactivate" /\ Succeeds(h)
      /\ UNCHANGED <<scheduler, schedule>>
  BY DEF SetInactive
<1>2. /\ v \in Versions /\ handler[h] # Idle /\ Touched(handler[h]) = {v}
      /\ handler[h].pc \notin Enabling
  BY <1>1, UnderWay, Zenon
<1>3. handler'[h] = Idle /\ \A g \in Handlers : g # h => handler'[g] = handler[g]
  BY DEF SetInactive, PlanIInv, PlanTypeOK
<1>4. ActiveVersions' = ActiveVersions \ {v}
  BY DEF SetInactive, updateLaunchPlanModelState, PlanIInv, PlanTypeOK, ActiveVersions
<1>5. Running' = Running
  BY <1>1 DEF Running, Keys, Rules
<1>6. v \notin contested /\ scheduler # "aws" => v \notin Running
  <2>1. Removed(handler[h], v)
    BY <1>1, <1>2, Zenon DEF Removed
  <2>2. v \in Touched(handler[h])
    BY <1>2
  <2>3. v \notin contested => v \in Touched(handler[h]) \ contested
    BY <2>2
  <2>. QED  BY <2>1, <2>3, Zenon DEF SInv, Following, HalfWay
<1>. HIDE DEF v
<1>7. \A w \in Versions \ Touched(handler[h]) : Steady(w)
  BY <1>2, <1>4, <1>5 DEF Steady
<1>8. \A w \in Touched(handler[h]) \ contested : Agrees(w)'
  BY <1>1, <1>2, <1>4, <1>5, <1>6 DEF Agrees
<1>9. Leaves(h) /\ doubtful' = doubtful \ (Touched(handler[h]) \ contested)
  BY <1>1 DEF Succeeds
<1>. QED  BY <1>1, <1>2, <1>3, <1>7, <1>8, <1>9, EndS, Zenon

\* One step per action.
LEMMA StepS == PlanIInv /\ SInv /\ [PlanNext]_planVars => SInv'
<1>. SUFFICES ASSUME PlanIInv, SInv, [PlanNext]_planVars PROVE SInv'
  OBVIOUS
<1>1. ASSUME ActiveVersions' = ActiveVersions, UNCHANGED <<scheduler, schedule, handler, contested, doubtful>>
      PROVE  SInv'
  <2>1. Running' = Running
    BY <1>1 DEF Running, Keys, Rules
  <2>2. OneKey' /\ Purposeful' /\ Noted'
    BY <1>1, <2>1, Zenon DEF SInv, OneKey, Purposeful, Noted, Keys, Rules
  <2>3. (\A h \in Handlers : HalfWay(h)') /\ \A v \in Versions \ doubtful : Agrees(v)'
    BY <1>1, <2>1, Zenon DEF SInv, Following, HalfWay, Agrees
  <2>. QED  BY <1>1, <2>2, <2>3 DEF SInv, Following
<1>2. CASE UNCHANGED planVars
  BY <1>1, <1>2 DEF planVars, ActiveVersions
<1>3. ASSUME NEW v \in Versions, CreateLaunchPlan(v) PROVE SInv'
  <2>1. ActiveVersions' = ActiveVersions
    BY <1>3 DEF CreateLaunchPlan, GetLaunchPlanModel, ActiveVersions, PlanIInv, PlanTypeOK
  <2>. QED  BY <1>1, <1>3, <2>1 DEF CreateLaunchPlan
<1>4. ASSUME NEW h \in Handlers, Fail(h) PROVE SInv'
  BY <1>4, StopsS DEF Fail
<1>. QED  BY <1>2, <1>3, <1>4, SetActiveS, EnableS, DisableS, RemoveFormerS, AddS, CreateS,
             RemoveOwnS, DeactivateS DEF PlanNext

\* The schedule of a version runs exactly when it is active once a request of
\* UpdateLaunchPlan about it has succeeded undisturbed, whatever was left behind
\* before, for any number of versions.
THEOREM SchedulesAlwaysFollow == PlanSpec => []SchedulesFollow
<1>1. SInv => SchedulesFollow
  BY Zenon DEF SInv, Following, OneKey, SchedulesFollow, Agrees
<1>. QED  BY SInit, StepS, PlanInvariance, <1>1, PTL DEF PlanSpec

=============================================================================

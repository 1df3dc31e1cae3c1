# Verification of flyteadmin

TLA+ models of the control plane of Flyte (this repository, paths below are
relative to `src/`), the TLC runs that check them on small instances, and TLAPS
proofs of the properties that matter most for every size.

    tlc -workers 2 -config WorkflowExecution.cfg MCWorkflowExecution
    tlapm RequestProofs.tla

`PROJECT.json` says for every definition which lines it models, and lists the
runs, the variants that break each property, the findings, the hazards and the
theorems.

## 1. The system

flyteadmin is a gRPC server over a Postgres database. It has no state of its own
but a few caches, channels and metrics; what makes it hard is that a request
touches several stores that share no transaction:

| store | written by | read by |
|---|---|---|
| database (gorm, one statement at a time) | every manager, the native scheduler's catalogue and snapshots | everyone |
| blob store (inputs, outputs, closures) | registration, launches, events | launches, relaunches, data requests |
| kubernetes (`FlyteWorkflow` and templated resources) | `K8sWorkflowExecutor`, the cluster resource controller | flytepropeller, which sends events back |
| queues (notifications, event bus, SQS/CloudWatch) | publishers, CloudWatch | processors, scheduled workflow executor |
| the cookies of a browser | the sign-in handlers | the same, one request later |

How the parts interact: a client signs in; it registers tasks, workflows and
launch plans; a launch plan version is enabled, which puts its schedule in the
scheduler; a client or a scheduler launches an execution, under a name it chooses;
the manager settles inputs, resources, queue, role and cluster, offloads the
inputs, creates the `FlyteWorkflow` and inserts the row; propeller runs it and
reports workflow, node and task events, which the event managers fold into rows;
terminal events are turned into notifications; the execution may be terminated,
relaunched or recovered. A request is served by a goroutine; there may be many, in
several processes, and no request locks what it has read.

### Inventory

| part | state | module |
|---|---|---|
| execution row, transformers, repository | modelled but for reading back | `ExecutionModel` |
| execution manager: events, termination, data | modelled | `WorkflowExecution`, `ExecutionLifecycle` |
| execution manager: launch, relaunch, recover | modelled | `ExecutionLaunch` |
| execution manager: inputs and settings of a launch; cluster selection | modelled | `LaunchSettings`, `LaunchInputs` |
| matchable resources | modelled | `MatchableResources` |
| launch plan manager and schedules, native and CloudWatch | modelled | `LaunchPlan`, `CloudWatchScheduler` |
| native scheduler process | modelled | `NativeScheduler` |
| node and task execution managers, remote data | modelled | `NodeTaskExecution` |
| workflow and task registration, single task launches, projects, named entities | modelled | `Registration` |
| filters, sorting, pagination | modelled | `Listing` |
| AWS scheduled workflow executor, notification processors and publishers | modelled | `QueueConsumers` |
| cluster resource controller | modelled | `ClusterResource` |
| authentication | cookies, tokens and codes of browsers | `Session` |
| queues, quality of service | queues | `LaunchSettings` |
| RPC layer, migrations, configuration, entry points | not modelled | see section 7 |

The hazards, at the line where each one bites, are in `PROJECT.json` under
`hazards`. Most are of one shape: a row is read, something is done, and a copy of
the row is written back.

## 2. Modules

The conventions are the same everywhere. A goroutine is a record with a program
counter and what it has read so far. One action is what happens between two points
where another goroutine can come in: a call of the database, of the blob store, of
a cluster, of a queue. History variables are named as such; no guard reads them,
they only say which races a property excuses. Definitions called "Variant ..." (and
a few others that `PROJECT.json` lists as mutants) are wrong on purpose: each is a
plausible bug of the definition that follows it, and breaks the property it is
paired with. Where every combination of requests would be too many, the constants
`Scenarios`, `Workloads` or `Plans` list what one behaviour is about, and Init
chooses among them; the interleavings are never restricted.

**ExecutionModel** (no variables) is the row of the `executions` table and the
functions that compute a new row: `UpdateExecutionModelState`,
`SetExecutionAborted`, `CreateExecutionModel`
(`pkg/repositories/transformers/execution.go`) and gorm's `Updates`, which writes
only the fields of the struct that are not zero. Times, URIs and error kinds are
"set or not". `IncompatibleCluster` tests the phase of the event because the
transformer has already stored that phase in the row when it gets to the test.

**WorkflowExecution** is `CreateWorkflowEvent`, `TerminateExecution` and
`GetExecutionData` of `pkg/manager/impl/execution_manager.go`, with the writer of
execution events behind its bounded channel:

| step | code |
|---|---|
| `CreateWorkflowEvent` | read, the three phase tests, the cluster test |
| `TerminateExecution`, `Abort` | read; `Executor.Abort` in the cluster of the copy |
| `GetExecutionData` | read of an old row, inputs offloaded |
| `Update` | `ExecutionRepo.Update` of the computed row |
| `Write` | send on the channel (blocks when it is full), metrics |
| `PublishNotifications`, `Publish` | the publishers |
| `Fail` | an error returned, or the process dies |
| `RunEventWriter` | one round of the writer's loop |

A copy is `stale` once another handler has written the row; an execution is
`tainted` once a stale copy has been written to it.

**ExecutionLifecycle** is the abstract specification of phases: terminal phases
are final and a running execution is not queued again. Its promise about an
execution ends with the first lost update. `WorkflowExecution` implements it under
`phase <- db[e].phase`, `lost <- tainted`.

**ExecutionLaunch** is `CreateExecution`, `RelaunchExecution`, `RecoverExecution`
down to `createExecutionModel`: two blobs whose location depends on the name only,
then the `FlyteWorkflow`, which is left alone if there is one of that name in the
cluster, then the row, whose key is the only thing that refuses a second launch.
`Fail` stops a launch between any two of them. `asked` is history: the launch
requested under a name, or `Several`. `offloaded` stands for the column
`UserInputsURI`, which rows from before offloading do not have (and never get:
`GetExecutionData` gives an old row its `InputsURI` only). Row, blob and workflow
keep what of the launch each of them stores, so that they can disagree.

**MatchableResources** is the resource manager over the `resources` table. An
update is up to four statements: the read of the row to merge with, the two of
gorm's `FirstOrCreate`, and `Save`. `want` is history, what the acknowledged
requests have set; `spoiled` the keys whose requests overlapped, were half done, or
reached the row of another key.

**LaunchInputs** (no variables) has the validators of launch plans and executions
and the merge of inputs, as operators, and what each scheduler binds when it launches
a plan: which kinds of schedules it takes (`isScheduleEmpty`, `getScheduleExpression`,
`AddSchedule`) and which input it gives the time to (`resolveKickoffTimeArg`,
`literalsInputMap`). A schedule is its kind of expression and its kickoff argument.
**LaunchSettings** extends both: a launch that merges its inputs, sets the resources
of its tasks, and looks up queue, parallelism, plugins, labels, role and cluster one
after the other, while the overrides change; then the workflow object in the chosen
cluster, the row, aborts, retries, and restarts with another configuration. A
configuration is the list of enabled clusters and one list for each label, an entry
of which has a place and a weight; a cluster is chosen by `GetWithSeed`, which is any
function of such a list and the execution's name (the weighted random choice of a
library). `wrong` collects every setting that is not the one the acknowledged
requests call for.

**LaunchPlan** is `CreateLaunchPlan` and `UpdateLaunchPlan` over the
`launch_plans` table and a scheduler. The schedulers differ in the key a schedule is
kept under: the native one has an entity per version, CloudWatch one rule for all
versions. The third scheduler, "aws", is CloudWatch with a prefix in
`AWSSchedulerConfig`: a schedule is added under that prefix (`CreateScheduleInput`)
and removed under the one of `EventSchedulerConfig` (`disableSchedule`). Each schedule
change is a step, `SetActive` is the transaction. History: `contested`, the versions
two requests in flight are about; `doubtful`, those whose last request is under way,
stopped half way or was contested, until one about them succeeds alone; and
`tainted`, an enable request that committed after the active version it found had
changed.

**CloudWatchScheduler** refines the schedule changes of one launch plan on AWS to
the calls they are made of: `RemoveTargets`, `DeleteRule`, `PutRule`, `PutTargets`,
each of which may fail or be refused. With `ownPrefix` the first two find no rule,
as in `LaunchPlan`.

**NativeScheduler** is the scheduler process (`scheduler/`): it reads the snapshot,
boots from it with cron already running, catches up on what was missed, and then
runs the updater's rounds, cron's entries and the snapshot writer until it dies.
`proc[r]` is the memory of a process: its job store, the entries of cron, the calls
to admin under way. An execution is `<<schedule, time>>`, which is what
`GetExecutionIdentifier` hashes. A job that has no time in the snapshot points into
the variable of the loop that boots the schedules, so that it starts from the update
time of whichever row the query returned last (`LastUpdatedAt`). `excused` is history:
a time all of whose retries failed, one that a later time was recorded before, one
that was over when the updater first saw the schedule, or one that lies before the
update time such a job was left with.

**NodeTaskExecution** is `CreateNodeEvent` and `CreateTaskExecutionEvent` with the
rows they keep and what `GetNodeExecutionData`, `GetTaskExecutionData` and the three
lists make of the rows. The engine is part of the model: it reports the phases of a
node or task in order, sends an event again when the answer is an error or late, so
that the request it gave up on is still at work, and may skip to a later phase.
Sizes of outputs are numbers on both sides of the limit.

**Registration** is `CreateTask`, `CreateWorkflow`, `CreateProject`,
`UpdateProject`, `UpdateNamedEntity` and the single task launch that generates a
skeleton workflow, hides its name and generates a launch plan. A workflow is a row
with a digest and a closure in the blob store, at a place that follows from the
identifier; it is compiled against the tasks and the launch plans it requires, which
have to be there. `contested` are the workflows two requests registered at once,
`exposed` the names a user or a fault took out of hiding.

**Listing** is every list request: the filters it builds, its order, the query
with limit and offset, and the token of the next page, while rows come, go and
change their state between two pages. Its data are columns and small values; the
text of filters and SQL is not modelled, what they select is.

**ClusterResource** is `Sync` of the cluster resource controller over projects,
domains, template files and clusters, with its cache of applied templates, while
files, directory, overrides, projects and configuration change, calls fail and the
process restarts. A namespace is its project and domain: the configured template of
its name is taken to tell them apart, which `{{ project }}-{{ domain }}` does unless
identifiers with hyphens collide.

**QueueConsumers** extends `CloudWatchScheduler` with what follows when a schedule
fires: a queue that delivers at least once, replicas of the AWS workflow executor,
which launch the version that is active at delivery, and the processors of
notifications (AWS and GCP) with their emailers. Replicas crash, lose their
connection, and fail to mark a message as done. The name of a scheduled execution is
drawn from the random generator of the process after it was seeded with the time and
the launch plan; a fault of the model is another goroutine that uses the generator in
between (`disturbed`).

**Session** is `/login`, `/callback`, `/logout`, the refresh of tokens, the identity
of a call from a browser and the `/authorize` pages. A request carries the cookies
of the moment it was sent; an answer sets cookies when it arrives; tabs share the
jar. Tokens are the number of the grant they come from. A user may ask to end at a
place without a path (`Pathless`), for which `NewRedirectCookie` makes no cookie. An
answer that fails on its way may have set some of its cookies already
(`SetSomeCookies`); `halfway` is history, the grants of such answers.

The `MC...` modules give the constants of the runs, and their symmetry.

## 3. Runs

| run | states | checks |
|---|---|---|
| `WorkflowExecution` | 429,924 | `StartTimesAgree`, `SideEffectsAgree`, `TerminatedOnce`, `ImplementsLifecycle`, `AbortReachedCluster` |
| `TerminalIsFinal` | violated | `TerminalIsFinal` |
| `ExecutionLaunch` | 97,969 | `RowsAreBacked`, `RetriesAgree`, `RelaunchKeepsInputs` |
| `LaunchSettings` | 273,282 | `AcknowledgedIsServed`, `OverridesApply`, `InputsAreBound`, `TasksFit`, `OneCluster`, `AbortStops` |
| `LaunchPlan` | 138,740 | `OneActiveUnlessStale`, `SchedulesFollow` |
| `NativeScheduler` | 244,951 | `NoMissedTime`, `SnapshotIsSafe`, `AtMostOneAhead`, `EveryTimeRuns` |
| `QueueConsumers` | 506,456 | `ScheduleIsWhole`, `HandledBeforeDone`, `FiredOnce`, `EmailIsRight`, `Settles` |
| `NodeTaskExecution` | 215,895 | `EveryNodeIsListed`, `StartTimesAgree`, `DataIsServed`, `Converges`, `ProgressUnlessStale`, `ReportedIsKept` |
| `Registration` | 159,245 | `ClosureIsServed`, `CompiledAgainstRegistered`, `SkeletonsAreHidden` |
| `Listing` | 97,374 | `SeenOnce`, `ListingEnds` |
| `ClusterResource` | 364,556 | `CacheIsRight`, `Converges` |
| `Session` | 3,480,756 | `EndsAsAsked`, `IdentityIsWhole` |

What they show:

- Every way in which the phase of an execution goes wrong involves a stale copy:
  until one is written, phases obey the lifecycle, the two start times agree, an
  execution is counted as ended once, and what is sent to the channel, the queue and
  the bus of a terminal phase names the phase the row is in. `TerminalIsFinal` is
  violated: a handler that read before the execution ended writes its copy back and
  revives it.
- Repeating a launch is harmless as far as stored data goes, a row never comes
  before what it refers to, relaunches of relaunches keep the inputs (recovery of an
  old row does not, and the property says so). A launch repeated after its workflow
  was collected does run the workflow again.
- A launch gets the settings the acknowledged requests call for and its inputs from
  the right place, and its retries stay on one cluster as long as the list it is
  chosen from is the same. The exceptions, each in a comment, are overlapping
  updates, a project-domain request that reaches a workflow's row, failed lookups
  that are only logged, and a change between two attempts of the label, of the
  clusters enabled for it or of their weights.
- A launch plan that was accepted can be launched by whoever binds what it leaves
  open. Its schedule launches it too, with two exceptions that `InputsAreBound` gives
  exactly: a cron schedule that leaves more than the time open, which
  `validateSchedule` does not look at, and a rate whose time is required, which the
  native scheduler does not bind.
- At most one version is active until two enables race in one particular way. The
  schedule of a version runs just when the version is active once a request about it
  has succeeded with no other about it in flight, whatever failures and races came
  before. With CloudWatch only half of that holds, what runs is active, for disabling
  any version removes the rule of the active one; with a prefix of its own in
  `AWSSchedulerConfig` nothing holds, for no schedule is ever removed. A rule and its
  target are never of two versions unless two enables overlap or a call fails.
- The native scheduler misses no time of a cron schedule but for the four reasons
  of `excused`, whatever crashes; it may run one time ahead after a restart.
- A message of a queue leads to one execution or to its email however often it is
  delivered, or was given up on for one of the reasons listed; a name drawn from a
  disturbed generator makes one execution more.
- Node and task rows converge to the last phase reported through repetition,
  delays and failures, unless a stale copy is written or a create request loses to
  another; the lists reach every node, and data can be read.
- A registered workflow can be read and is what was registered unless two requests
  registered it at once; a client that pages sees nothing twice unless something
  came in; the cache of the cluster resource controller is not ahead of the clusters
  but for the two exceptions found; sign-ins end where they were asked to if that
  place has a path, and a call is served in the name of one user unless it rests on
  tokens of an answer that failed half way.

`findings` in `PROJECT.json` quotes the comments and documents the code disagrees
with. Only one of them has a run of its own; the others are exceptions that a
passing property has to name, and vanish from it when the code is changed.

### Bounds and why they are enough

Two requests at a time, nearly everywhere: every race found is between one that
reads and one that writes in between. Faults (failed calls, crashes, late answers)
are bounded by `MaxFaults`, one or two: each exception above needs one fault, and
two let a retry fail as well. Bounded requests, changes or grants (`MaxRequests`,
`MaxChanges`, `MaxGrants`, workloads) are two to four: enough for a change, its
opposite and a third that meets the result.

- `WorkflowExecution`: one execution, since executions share only the channel, and a
  channel of capacity one, which fills up with the first event. The events take each
  branch of the transformers: a cluster takes over, both clusters run, success,
  failure and abort, a producer that does not say who it is.
- `ExecutionLaunch`: two names make a source and its relaunch; two clusters let
  repetitions go to different ones.
- `LaunchPlan`: three versions, two with a schedule and one with an empty schedule,
  make every combination of old and new version, with each of the three schedulers.
- `LaunchSettings`: every launch plan over two inputs, with fixed, default and
  required values of three types and every kind of schedule, launched by a caller or
  by either scheduler; quantities on both sides of each limit; tables with a row at
  each level, entered in either order; four configurations of two clusters, two of
  them with one cluster disabled and one with the weights of a label swapped.
- `NativeScheduler`: a cron expression that is due at every time and a fixed rate of
  two, which share the table and the loop that boots them, three times (0 to
  `MaxTime`), two faults, one process. `MaxChanges` allows three changes of one
  schedule, or fewer when both have a row. Theorems cover the rest.
- `NodeTaskExecution`: a dynamic node, its task, and a node of the task that launches
  an execution; outputs one below, at and one above the limit.
- `Registration`: a task, a workflow that uses it and one that uses the task's launch
  plan, a template that is refused, and two orders in which Go may walk through a map
  of variables.
- `Listing`: every list with pages of one or two of four rows, total and partial
  orders, filters of every function, two changes between the pages.
- `ClusterResource`: two directories, clusters and changes, and a failed call.
- `QueueConsumers`: two replicas, three versions, two firings; requests with one
  prefix and with two; three notifications, one of them malformed.
- `Session`: two tabs, two users, three grants, one failed call, and the pages that
  make flows overlap, one of which asks for a place without a path.

`MCUntainted` and `MCUnambiguous` stop exploration behind the first stale write,
and behind the second launch asked for under a name: most of the properties say
nothing from there on. The step into such a state is still checked. Those that do
go on, `RowsAreBacked` and the properties of the other name, are proved without any
constraint. Symmetry is over handlers, over versions with a schedule, or over tabs
and users, and never in a run with a liveness property.

Deadlock is checked where an idle handler can always take a request. It is not
(`CHECK_DEADLOCK FALSE`) where requests, events or time are bounded and run out:
`NativeScheduler`, `NodeTaskExecution`, `Registration`, `LaunchSettings`,
`QueueConsumers`, `Session`.

### Fairness

No fairness is assumed of users, of failures or of changes.

- `NativeScheduler` (`EveryTimeRuns`): time goes on; a process that is down is
  started again (it runs under a supervisor) and takes its boot steps; the updater's
  rounds, cron's due entries and the calls under way are taken up, each a goroutine
  the Go scheduler runs.
- `Listing` (`ListingEnds`): a client that has a token asks for the next page. It is
  weak fairness of `Page`, written over `pager`, which only `Page` changes.
- `ClusterResource` (`Converges`): `wait.Forever` calls `Sync` again and again, and a
  call `Sync` makes returns, with an error perhaps. Faults are bounded, so failing
  ends; in the code that is "the clusters can be reached from some point on".
- `QueueConsumers` (`Settles`): weak fairness of a replica's steps, for the same
  reason; weak fairness of redelivery, which is what the visibility timeout of a
  queue does; strong fairness of receiving some message that is not hopeless, since
  a replica that is busy with one message after the other is not always waiting.

## 4. Proofs

For any number of executions, names, versions, clusters, handlers and so on, any
set of events or requests and any bound. The assumptions are those the modules
state: "no value" is none of the values, the requests have their types, the channel
has a capacity of at least one. Two say something of the engine that reports nodes
and tasks, which is not part of this repository (`PlanAssumption`,
`StoreAssumption`): a terminal phase is the last one reported, a node or task that
reports several phases reports one, and what an event refers to has been stored
before the event is sent, elsewhere than where this program stores.

Every proof module extends the modules it is about. Three of them hold the proofs of
two components, whose constants, variables and specifications are apart:
`RequestProofs` those of `WorkflowExecution` and `Session`, `SchedulingProofs` those
of `NativeScheduler` and `LaunchPlan`, `ClusterProofs` those of `ExecutionLaunch` and
`ClusterResource`.

**RequestProofs**, first part: `WorkflowExecution`. The properties are not inductive:
that the phase obeys the lifecycle says nothing of the copies in flight. `IInv` adds
that a copy that is not stale is the row itself (`FreshCopies`), that an event on its
way to the database has passed the tests on that copy (`CheckedEvents`), that a
handler that has written a terminal phase still finds it on record
(`FinishingAgree`) and that the decrement it is about to make is the only one
(`DecrementsAgree`). An untainted `Update` then writes `Updates(row, Computed(row))`,
and the lemmas on the transformers do the rest: they never clear a column, so the
merge replaces the row (`UpdatesReplaces`). From `IInv`: `TypeCorrect`,
`StartTimesAlwaysAgree`, `SideEffectsAlwaysAgree`, `TerminatedAtMostOnce`; from it and
the step, `LifecycleImplemented` (the refinement), `ColumnsAlwaysKept` and
`AbortReaches`. `SerialTerminalIsFinal` is the other side of the finding: with a
single handler `TerminalIsFinal` does hold, so concurrency alone breaks it.

Second part: `Session`. The properties speak of flows that have ended, which rest on
cookies that any tab may have written since. `SessionInv` follows a flow through them:
as long as the jar, or the request a tab comes back with, holds the CSRF token of that
tab, it holds the place it asked for if that has a path (`Places`), because no two
tabs share a token (`Fresh`) and `/login` sets the two together; the jar holds the
request of the one client that is being authorized (`Requests`, `Exclusive`); unless
they come from a grant that was left half way, id token and user information are of
one user in the jar, in each request and in each answer (`Tokens`, `SetsTokens`). An
answer on its way promises what it sets (`Answered`), so that its arrival, which
overwrites the cookies of every tab, can be judged without the request it answers.
From it: `AlwaysEndsAsAsked`, `IdentityAlwaysWhole`. The pages a user opens are those
of the server, and a client that asks for a code has a name (`PlansAssumption`).

**ClusterProofs**, first part: `ExecutionLaunch`. `IInv` says that whatever is held
under a name (by a request, the row, a blob, a workflow) is the launch asked for or
that there were several (`HandlersAsk`, `RowsAsk`, `BlobsAsk`, `CrdsAsk`), what the
steps behind a request have left (`Progress`), that it is still there once the row is
(`Stored`), and that a launch with a source has its inputs already while it is in
flight (`Sources`). From it: `TypeCorrect`, `RowsAlwaysBacked`, `RetriesAlwaysAgree`,
`RelaunchAlwaysKeepsInputs`.

Second part: `ClusterResource`. `CacheIsRight` says nothing of a `Sync` at work.
`ClusterInv` adds what the cache may hold (`CacheOK`), what the clusters do
(`ObjectsOK`), that a template in the cache is held by every cluster that was not
passed over, whatever the directory is now (`CachedIsHeld`), and how far the `Sync`
has got: what it listed, the manifest it made of the file it read, and that each
cluster it is done with holds that manifest or is on record as missed (`SyncOK`).
From it: `CacheAlwaysRight`.

**RegistrationProofs.** `IInv` follows a closure from the compiler to the row: a
request that has compiled has a closure that names the tasks as their rows have
them, and the launch plans it requires are there with their workflows; such rows
never change (`ClosuresBuilt`); two requests that register
one workflow, or one that registers what is there, have marked it as contested
(`Contests`); before the insert the closure is at its place, and is the request's
own unless contested (`Uploaded`); and it follows the name of a skeleton from the
insert of the workflow to its state (`RowsFirst`, `UsersExpose`). From it:
`ClosureAlwaysServed`, `AlwaysCompiledAgainstRegistered`, `SkeletonsAlwaysHidden`;
and from the step `RegisteredFinal`.

**SchedulingProofs**, first part: `NativeScheduler`. `NoMissedTime` speaks of a
process that has caught up; `IInv` has to account for a time from the moment it comes,
through restarts. A time that is due and has come is run, excused, in a call under
way, at an entry cron is about to fire, or still ahead of the catch-up (`Covers`);
cron has an entry for the next time of each schedule (`Awaits`); whatever the next
snapshot would skip is done or ahead of the catch-up (`LastIsSafe`), and so is what
the saved snapshot and the one a booting process has read skip (`SnapshotIsSafe`,
`ReadIsSafe`); and nothing recorded lies in the future (`Past`, `Timely`). That a
schedule has a first time after a given one is the only fact about schedules used,
so the proof covers every set of times. From it: `TypeCorrect`, `NoTimeMissed`,
`SnapshotAlwaysSafe`, `AlwaysAtMostOneAhead`.

Second part: `LaunchPlan`. `OneActiveUnlessStale` needs to know that an enable request
that is not stale has found every version that is active (`FormerIsActive`): only
another `SetActive` adds one, and it marks the request stale. From it:
`PlanTypeCorrect`, `AtMostOneActive`. `SchedulesAlwaysFollow` needs a second invariant
(`SInv`): where each scheduler keeps a schedule (`OneKey`), which requests are at which
step (`Purposeful`), that the versions of a request are doubtful and those of two are
contested (`Noted`), and that a version agrees with its schedule if no request has
left it in doubt, or agrees as far as the steps of the one request that is about it
have got (`Following`, `HalfWay`).

**QueueConsumersProofs.** Two invariants. `SInv` is about the rule and the target of
CloudWatch: as long as no two enables overlap only one request adds, and the two may
differ only between its two calls (`OneEnables`); as long as no requests overlap a
request finds the schedule as it left it (`OneServes`), up to what a second prefix
leaves behind (`Aligned`). `CInv` is about the consumers: a replica about to mark a
message as done has handled it or given it up for a reason, and one about to send an
email still has that message in the variable all messages share (`Right`);
executions are named by the time that fired, and by nothing else unless the
generator was disturbed (`NamedByTime`). From them: `ScheduleAlwaysWhole`,
`AlwaysHandledBeforeDone`, `AlwaysFiredOnce`, `EmailAlwaysRight`.

**NodeTaskExecutionProofs.** `IInv` follows an event from the engine to the row:
the engine waits for a request that serves its next event (`Waits`); what a request
has read, is about to insert or to save is a row that could stand (`Good`:
start times that agree, a planned phase, references to what is stored), and it has
passed the tests for terminal and recorded phases on the row it read (`Carries`);
the blob store only grows, and what it holds under the outputs of a node or task is
what the last event carried (`Store`); rows come after their parents (`Ordered`);
and a request that is past its write, or an engine past its last event, finds the
last phase on the row, unless a stale copy was written (`Concluded`). From it:
`StartTimesAlwaysAgree`, `AlwaysConverges`, `DataIsAlwaysServed`; with the step,
`ProgressAlways`. `EveryNodeAlwaysListed` is an invariant of its own: any set of
nodes closed under what the lists return has every node. Each row is added below
rows that are there already, so a set closed after a step is closed before it, and
no induction over the tree of nodes is needed.

**MatchableResourcesProofs** and **LaunchSettingsProofs.** The first is about the
overrides alone, whatever else happens; the second extends it with the launches that
look them up. `ResourceInv` is the invariant of the table: one row of a key and one
of an id, ids that the sequence has handed out, rows whose attributes have their
type; what each request at work has read and what it is going to write, as long as
nobody else has touched its key; and for a key that is quiet (no request at work,
none that overlapped or ended half way), that its row is what the acknowledged
requests want. The lookup with its priorities is then shown to find the row of the
most specific quiet key (`ServedIsAcknowledged`), which needs that a set of numbers
that is not empty has a least one (`Least`, from the library's theorem on
well-founded relations). `IInv` adds to it that a launch under way has found no
setting wrong so far, has the inputs of an accepted request and tasks that passed
validation (`LaunchesOK`), that a cluster on record, in the object store or about to
be recorded is the seeded choice from a list the execution was routed by
(`ClustersOK`, `Chosen`), and `AbortStops`. The lemmas under it are about operators:
what `AdjustOrDefaultResource` gives for any quantities and platform limits
(`GivenFits`, `RequestIsGiven`), that the validators of a launch plan accept exactly
the inputs the property calls launchable, that what a scheduler binds is launchable
but for the two kinds of schedules (`ScheduledIsLaunchable`), that a later entry of
a map replaces an earlier one. From it: `ServedCorrectly`, `SettingsApply`,
`InputsBound`, `TasksAreGiven`, `OnOneCluster`, `AbortsStop`. The assumptions say
what the code's callers and protobuf types guarantee: a table has one row of a key
(its unique index), quantities are natural numbers, a variable has a name, a
parameter of a launch plan is required or has a default (they are alternatives of
one `oneof`), a scheduler launches only schedules it takes and binds what
`TimeInputs` says, the choice from a list that is not empty is a member of it, and
an execution does not have the name of a workflow of the model.

## 5. Only model-checked

Liveness under fairness, `ENABLED` and induction over data are out of the prover's
reach: `EveryTimeRuns`, `ListingEnds`, `Settles` and `Converges` of
`ClusterResource` stay with TLC. So do `ReportedIsKept` of `NodeTaskExecution`, which
is about what `mergeLogs` filters out of a sequence (`SelectSeq`), and `SeenOnce` of
`Listing`: that pages taken at growing offsets of changing sequences list a row once
is a statement about the positions of all rows in a sorted sequence, which takes an
induction over its length.

## 6. What the models leave out on purpose

- A request refused before it changes anything is an action only where a property
  is about the refusal.
- Error texts, metrics other than `ActiveExecutions`, logging, authorization.
- In `WorkflowExecution`, the loss of what the channel holds when a process dies is
  an insert that fails. In the code both lose the event without a trace.
- In `ExecutionLaunch`, `Execute` may pick any cluster; which one it picks is in
  `LaunchSettings`. The removal of a workflow by propeller or by termination is the
  external action `Collect`.
- In `LaunchPlan` a schedule change on AWS is one step; its calls are in
  `CloudWatchScheduler`.
- In `NativeScheduler` time has the granularity of the schedules, and the retries of
  one call to admin are one outcome.
- Compilers, validators of types and the identity provider are external: they are
  functions of their arguments, or answer as they like.

Behaviour met while modelling that contradicts no comment and is therefore not
among the findings, but that the models have:

- `ListProjects` with a limit of zero returns the token it was given when nothing
  matches, so that a client that follows it never ends (`ListingEnds` excepts it).
- The lists of named entities apply limit and offset before the filter on state: a
  page may be short, or empty, with more to come.
- A failed lookup of an override is logged and taken for "no override"
  (`getTaskResources`, queues); `getExecutionConfig` looks at the project and domain
  only; plugin overrides of a single task are looked up under the execution's name.
- A task's storage request is not passed on to its execution.
- A scheduled message that cannot be read is never marked as done and comes back
  until the queue drops it; one whose version lacks inputs, too. A kickoff argument
  is put into the payload without JSON escapes.
- `isScheduleEmpty` does not look at the cron schedule either: one without a kickoff
  argument is taken for no schedule, and enabling its version schedules nothing.
- An email that could not be sent is not sent again.
- `CreateNodeEvent` validates its request and goes on when it is invalid.
- Outputs of exactly the size limit are accepted and, stored inline, not served.

## 7. Not modelled

- The RPC layer delegates each call to its manager and has no state of its own.
- Migrations, connection and configuration are read once at start-up; the keys they
  declare are part of the modules that use the tables.
- Bearer tokens, metadata end points and the token store of the authorization
  server are the protocol of external libraries (fosite, oidc).
- Quality of service: nothing calls `GetQualityOfService`, and its attributes are
  refused by the update requests.
- The refresh of the queue configuration, and the maps of user metrics, which
  handlers write without a lock (`execution_manager.go:1094`): the race detector
  finds those.
- Descriptions, labels of projects and metadata that are stored and returned as
  they came.

What would be next: compositions of `LaunchPlan` with `NativeScheduler` and of
`NativeScheduler` with `ExecutionLaunch`.

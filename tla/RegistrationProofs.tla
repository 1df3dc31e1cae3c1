-------------------------- MODULE RegistrationProofs --------------------------
(***************************************************************************)
(* Registered workflows have the closure of their digest and the tasks they *)
(* were compiled against, skeletons are hidden, and nothing registered      *)
(* changes: for every set of tasks, workflows, templates and requests, and  *)
(* any number of failures.                                                  *)
(***************************************************************************)
EXTENDS Registration, TLAPS

TaskPcs == {"task", "findTask", "createTask"}
MarkPcs == {"getNamedEntity", "findMetadata", "insertMetadata", "updateMetadata"}
RegisterPcs == {"workflow", "compile", "findWorkflow", "write", "createWorkflow"}
PlanPcs == {"launch", "findSkeleton", "getSkeleton", "fetchClosure", "findLaunchPlan",
            "createLaunchPlan"}

TaskRequest ==
    [op: {"task"}, pc: TaskPcs, id: Tasks, task: {None}, template: Templates,
     closure: {None}, state: {None}]
WorkflowRequest ==
    [op: {"workflow"}, pc: RegisterPcs, id: UserWorkflows, task: {None},
     template: Templates, closure: Closures \cup {None}, state: {None}]
LaunchRequest ==
    [op: {"launch"}, pc: RegisterPcs \cup MarkPcs \cup PlanPcs, id: Skeletons, task: Tasks,
     template: Bindings \cup {None}, closure: Closures \cup {None},
     state: {"SYSTEM_GENERATED"}]
NameRequest ==
    [op: {"name"}, pc: MarkPcs, id: Workflows, task: {None}, template: {None},
     closure: {None}, state: {"ACTIVE", "ARCHIVED"}]
Requests == TaskRequest \cup WorkflowRequest \cup LaunchRequest \cup NameRequest

WorkflowRow == [digest: Closures, reference: References]

TypeOK ==
    /\ tasks \in [Tasks -> Compiled \cup {None}]
    /\ workflows \in [Workflows -> WorkflowRow \cup {None}]
    /\ blobs \in [References -> Closures \cup {None}]
    /\ launchPlans \in [Tasks -> Skeletons \cup {None}]
    /\ metadata \in [Names -> {"ACTIVE", "ARCHIVED", "SYSTEM_GENERATED", None}]
    /\ handler \in [Handlers -> Requests \cup {Idle}]
    /\ contested \subseteq Workflows
    /\ exposed \subseteq Names

\* The closure names the tasks the workflow refers to, as their rows have them, and
\* the launch plans it refers to have rows.
Built(w, closure, rows, plans) ==
    /\ DOMAIN closure.tasks = RequiredTasks(w)
    /\ \A t \in RequiredTasks(w) : rows[t] # None /\ closure.tasks[t] = rows[t]
    /\ \A t \in RequiredLaunchPlans(w) : plans[t] # None

\* A request that has compiled its workflow has such a closure, and so has a
\* row.
ClosuresBuilt ==
    /\ \A h \in Handlers : handler[h].pc \in {"findWorkflow", "write", "createWorkflow"} =>
          handler[h].closure \in Closures /\ Built(handler[h].id, handler[h].closure, tasks, launchPlans)
    /\ \A w \in Workflows : workflows[w] # None =>
          /\ Built(w, workflows[w].digest, tasks, launchPlans)
          /\ workflows[w].reference = createDataReference(w)

\* Several requests that register one workflow, or one that registers what is
\* there, contest it.
Contests ==
    /\ \A w \in Workflows : \A g, h \in Registering(w) : g # h => w \in contested
    /\ \A w \in Workflows : Registering(w) # {} /\ workflows[w] # None => w \in contested

\* The closure is in the blob store before the row is in the table.
Uploaded ==
    \A h \in Handlers : handler[h].pc = "createWorkflow" =>
        LET blob == blobs[createDataReference(handler[h].id)]
        IN  blob # None /\ (handler[h].id \in contested \/ blob = handler[h].closure)

\* Who marks a skeleton has registered it, who makes its plan too.
RowsFirst ==
    /\ \A h \in Handlers :
          /\ handler[h].pc \in MarkPcs \cup {"fetchClosure", "findLaunchPlan", "createLaunchPlan"}
          /\ handler[h].op = "launch"
          => workflows[handler[h].id] # None
    /\ \A t \in Tasks : launchPlans[t] # None => workflows[launchPlans[t]] # None

\* Only users give a name another state.
UsersExpose ==
    \A n \in Names : metadata[n] \in {"ACTIVE", "ARCHIVED"} => n \in exposed

IInv == /\ TypeOK /\ ClosuresBuilt /\ Contests /\ Uploaded /\ ClosureIsServed
        /\ RowsFirst /\ UsersExpose /\ SkeletonsAreHidden

-----------------------------------------------------------------------------

\* The place of a closure belongs to one workflow.
LEMMA ReferenceOfOne ==
    ASSUME NEW v \in Workflows, NEW w \in Workflows
    PROVE  /\ createDataReference(w) \in References
           /\ createDataReference(v) = createDataReference(w) => v = w
BY IdentifierAssumption DEF createDataReference, References

\* A workflow refers to tasks.
LEMMA RequiredAreTasks ==
    ASSUME NEW w \in Workflows
    PROVE  RequiredTasks(w) \subseteq Tasks /\ RequiredLaunchPlans(w) \subseteq Tasks
BY RequiresAssumption DEF RequiredTasks, RequiredLaunchPlans

\* A request that is not idle is one of the four kinds.
LEMMA RequestType ==
    ASSUME TypeOK, NEW h \in Handlers
    PROVE  /\ handler[h].pc # "idle" => handler[h] \in Requests
           /\ handler[h] # Idle => handler[h] \in Requests
           /\ handler[h] = Idle => handler[h].pc = "idle"
BY DEF TypeOK, Idle

\* What is known of a request by where it is.
LEMMA PcType ==
    ASSUME TypeOK, NEW h \in Handlers
    PROVE  /\ handler[h].pc \in TaskPcs => handler[h] \in TaskRequest
           /\ handler[h].pc \in RegisterPcs => handler[h] \in WorkflowRequest \cup LaunchRequest
           /\ handler[h].pc \in MarkPcs => handler[h] \in NameRequest \cup LaunchRequest
           /\ handler[h].pc \in PlanPcs => handler[h] \in LaunchRequest
BY RequestType DEF Requests, TaskRequest, WorkflowRequest, LaunchRequest, NameRequest,
                   TaskPcs, RegisterPcs, MarkPcs, PlanPcs

\* A request moves on.
LEMMA GotoEffect ==
    ASSUME TypeOK, NEW h \in Handlers, NEW q, handler[h] \in Requests, Goto(h, q)
    PROVE  /\ \A g \in Handlers : g # h => handler'[g] = handler[g]
           /\ handler'[h] = [handler[h] EXCEPT !.pc = q]
           /\ handler'[h].pc = q
           /\ handler'[h].op = handler[h].op
           /\ handler'[h].id = handler[h].id
           /\ handler'[h].task = handler[h].task
           /\ handler'[h].closure = handler[h].closure
           /\ handler' = [handler EXCEPT ![h] = handler'[h]]
<1>1. handler \in [Handlers -> Requests \cup {Idle}]
  BY DEF TypeOK
<1>2. handler' = [handler EXCEPT ![h] = [handler[h] EXCEPT !.pc = q]]
  BY DEF Goto
<1>3. /\ [handler[h] EXCEPT !.pc = q].pc = q
      /\ [handler[h] EXCEPT !.pc = q].op = handler[h].op
      /\ [handler[h] EXCEPT !.pc = q].id = handler[h].id
      /\ [handler[h] EXCEPT !.pc = q].task = handler[h].task
      /\ [handler[h] EXCEPT !.pc = q].closure = handler[h].closure
  BY DEF Requests, TaskRequest, WorkflowRequest, LaunchRequest, NameRequest
<1>4. QED
  BY <1>1, <1>2, <1>3

\* A request ends.
LEMMA ReturnEffect ==
    ASSUME TypeOK, NEW h \in Handlers, Return(h)
    PROVE  /\ \A g \in Handlers : g # h => handler'[g] = handler[g]
           /\ handler'[h] = Idle /\ handler'[h].pc = "idle"
           /\ handler' \in [Handlers -> Requests \cup {Idle}]
BY DEF TypeOK, Return, Idle

\* Nothing is registered at first.
LEMMA InitInv == Init => IInv
<1> SUFFICES ASSUME Init PROVE IInv
  OBVIOUS
<1>1. \A h \in Handlers : handler[h] = Idle /\ handler[h].pc = "idle"
  BY DEF Init, Idle
<1>2. TypeOK
  BY DEF Init, TypeOK
<1>3. ClosuresBuilt /\ Contests /\ Uploaded
  BY <1>1 DEF Init, ClosuresBuilt, Contests, Uploaded, Registering
<1>4. ClosureIsServed /\ RowsFirst
  BY <1>1 DEF Init, ClosureIsServed, RowsFirst, MarkPcs
<1>5. UsersExpose /\ SkeletonsAreHidden
  BY <1>1, NoneAssumption DEF Init, UsersExpose, SkeletonsAreHidden, ListedWorkflows,
                              NamedEntityExists
<1>6. QED
  BY <1>2, <1>3, <1>4, <1>5 DEF IInv

-----------------------------------------------------------------------------
(* The steps that register no workflow.                                    *)

\* Tasks and launch plans are only added, these for workflows that exist, and users
\* alone take a name out of hiding.
Modest ==
    /\ UNCHANGED <<workflows, blobs, contested>>
    /\ tasks' \in [Tasks -> Compiled \cup {None}]
    /\ \A t \in Tasks : tasks[t] # None => tasks'[t] = tasks[t]
    /\ launchPlans' \in [Tasks -> Skeletons \cup {None}]
    /\ \A t \in Tasks : launchPlans[t] # None => launchPlans'[t] = launchPlans[t]
    /\ \A t \in Tasks : launchPlans'[t] # None => workflows[launchPlans'[t]] # None
    /\ metadata' \in [Names -> {"ACTIVE", "ARCHIVED", "SYSTEM_GENERATED", None}]
    /\ exposed \subseteq exposed' /\ exposed' \subseteq Names
    /\ \A n \in Names : metadata'[n] = metadata[n] \/ n \in exposed'
                        \/ metadata'[n] = "SYSTEM_GENERATED"

\* A request may move to any place that asks nothing of the tables, and to one
\* that asks for a closure or a row when it is there.  A launch stops marking
\* its skeleton only when the name is marked or exposed.
LEMMA Move ==
    ASSUME IInv, Modest, NEW h \in Handlers, NEW r \in Requests \cup {Idle},
           handler' = [handler EXCEPT ![h] = r],
           r.pc \notin {"write", "createWorkflow"},
           r.pc = "findWorkflow" => r.closure \in Closures /\ Built(r.id, r.closure, tasks', launchPlans'),
           r.pc \in MarkPcs \cup {"fetchClosure", "findLaunchPlan", "createLaunchPlan"}
              /\ r.op = "launch" => workflows[r.id] # None,
           handler[h].pc \in MarkPcs /\ handler[h].op = "launch" =>
              \/ r.pc \in MarkPcs /\ r.op = "launch" /\ r.id = handler[h].id
              \/ handler[h].id.name \in exposed'
              \/ metadata'[handler[h].id.name] = "SYSTEM_GENERATED"
    PROVE  IInv'
<1>1. /\ \A g \in Handlers : g # h => handler'[g] = handler[g]
      /\ handler'[h] = r
      /\ handler' \in [Handlers -> Requests \cup {Idle}]
  BY DEF IInv, TypeOK
<1>2. TypeOK'
  BY <1>1 DEF IInv, TypeOK, Modest
<1>3. \A w \in Workflows : \A c : Built(w, c, tasks, launchPlans) => Built(w, c, tasks', launchPlans')
  BY RequiredAreTasks DEF Modest, Built
<1>4. ClosuresBuilt'
  <2>1. ASSUME NEW g \in Handlers, g # h,
               handler'[g].pc \in {"findWorkflow", "write", "createWorkflow"}
        PROVE  handler'[g].closure \in Closures /\ Built(handler'[g].id, handler'[g].closure, tasks', launchPlans')
    <3>1. handler'[g] = handler[g]
      BY <1>1, <2>1
    <3>2. handler[g].id \in Workflows
      BY <2>1, <3>1, PcType DEF IInv, RegisterPcs, WorkflowRequest, LaunchRequest, Workflows
    <3>3. handler[g].closure \in Closures /\ Built(handler[g].id, handler[g].closure, tasks, launchPlans)
      BY <2>1, <3>1 DEF IInv, ClosuresBuilt
    <3>4. QED
      BY <1>3, <3>1, <3>2, <3>3
  <2>2. \A w \in Workflows : workflows'[w] # None =>
           Built(w, workflows'[w].digest, tasks', launchPlans') /\ workflows'[w].reference = createDataReference(w)
    BY <1>3 DEF IInv, ClosuresBuilt, Modest
  <2>3. handler'[h].pc \in {"findWorkflow", "write", "createWorkflow"} =>
           handler'[h].closure \in Closures /\ Built(handler'[h].id, handler'[h].closure, tasks', launchPlans')
    BY <1>1
  <2>4. QED
    BY <2>1, <2>2, <2>3 DEF ClosuresBuilt
<1>5. \A w \in Workflows : Registering(w)' \subseteq Registering(w)
  BY <1>1 DEF Registering
<1>6. Contests'
  BY <1>5 DEF IInv, Contests, Modest
<1>7. Uploaded'
  BY <1>1 DEF IInv, Uploaded, Modest
<1>8. ClosureIsServed'
  BY DEF IInv, ClosureIsServed, Modest, GetWorkflow, WorkflowRepoGet,
         FetchAndGetWorkflowClosure, GetWorkflowDigest
<1>9. RowsFirst'
  BY <1>1 DEF IInv, RowsFirst, Modest
<1>10. UsersExpose'
  BY DEF IInv, UsersExpose, Modest
<1>11. SkeletonsAreHidden'
  <2> SUFFICES ASSUME NEW w \in Skeletons, w.name \in ListedWorkflows', w.name \notin exposed'
               PROVE  \E g \in Handlers :
                         /\ handler'[g] # Idle
                         /\ handler'[g].op = "launch" /\ handler'[g].id.name = w.name
                         /\ handler'[g].pc \in MarkPcs
    BY DEF SkeletonsAreHidden, MarkPcs
  <2>1. w.name \in ListedWorkflows
    BY DEF ListedWorkflows, NamedEntityExists, Modest
  <2>2. PICK g \in Handlers : /\ handler[g] # Idle
                              /\ handler[g].op = "launch" /\ handler[g].id.name = w.name
                              /\ handler[g].pc \in MarkPcs
    BY <2>1 DEF IInv, SkeletonsAreHidden, MarkPcs, Modest
  <2>3. CASE g # h
    BY <1>1, <2>2, <2>3
  <2>4. CASE g = h
    <3>1. metadata'[w.name] # "SYSTEM_GENERATED"
      BY DEF ListedWorkflows
    <3>2. r.pc \in MarkPcs /\ r.op = "launch" /\ r.id = handler[h].id
      BY <2>2, <2>4, <3>1
    <3>3. r # Idle
      BY <3>2 DEF Idle, MarkPcs
    <3>4. QED
      BY <1>1, <2>2, <2>4, <3>2, <3>3
  <2>5. QED
    BY <2>3, <2>4
<1>12. QED
  BY <1>2, <1>4, <1>6, <1>7, <1>8, <1>9, <1>10, <1>11 DEF IInv

Quiet == UNCHANGED <<tasks, workflows, blobs, launchPlans, metadata, contested>>

\* A step that writes no table is modest.
LEMMA QuietMove ==
    ASSUME IInv, Quiet, NEW h \in Handlers, NEW r \in Requests \cup {Idle},
           handler' = [handler EXCEPT ![h] = r],
           exposed \subseteq exposed', exposed' \subseteq Names,
           r.pc \notin {"findWorkflow", "write", "createWorkflow"},
           r.pc \in MarkPcs \cup {"fetchClosure", "findLaunchPlan", "createLaunchPlan"}
              /\ r.op = "launch" => workflows[r.id] # None,
           handler[h].pc \in MarkPcs /\ handler[h].op = "launch" =>
              \/ r.pc \in MarkPcs /\ r.op = "launch" /\ r.id = handler[h].id
              \/ handler[h].id.name \in exposed'
              \/ metadata[handler[h].id.name] = "SYSTEM_GENERATED"
    PROVE  IInv'
<1>1. Modest
  BY DEF Quiet, Modest, IInv, TypeOK, RowsFirst
<1>2. metadata' = metadata
  BY DEF Quiet
<1>3. QED
  BY <1>1, <1>2, Move, Zenon

\* A request that is not marking a skeleton may end anywhere.
LEMMA QuietReturn ==
    ASSUME IInv, Quiet, UNCHANGED exposed, NEW h \in Handlers, Return(h),
           handler[h].pc \in MarkPcs /\ handler[h].op = "launch" =>
              \/ handler[h].id.name \in exposed
              \/ metadata[handler[h].id.name] = "SYSTEM_GENERATED"
    PROVE  IInv'
<1>1. Idle.pc = "idle" /\ exposed \subseteq Names
  BY DEF Idle, IInv, TypeOK
<1>2. QED
  BY <1>1, QuietMove, Zenon DEF Return, MarkPcs

\* A request may go on to a place that asks nothing of the tables.
LEMMA QuietGoto ==
    ASSUME IInv, Quiet, UNCHANGED exposed, NEW h \in Handlers, NEW q, Goto(h, q),
           handler[h] \in Requests, [handler[h] EXCEPT !.pc = q] \in Requests,
           q \notin {"findWorkflow", "write", "createWorkflow"},
           q \in MarkPcs \cup {"fetchClosure", "findLaunchPlan", "createLaunchPlan"}
              /\ handler[h].op = "launch" => workflows[handler[h].id] # None,
           handler[h].pc \in MarkPcs => q \in MarkPcs
    PROVE  IInv'
<1>1. /\ [handler[h] EXCEPT !.pc = q].pc = q
      /\ [handler[h] EXCEPT !.pc = q].op = handler[h].op
      /\ [handler[h] EXCEPT !.pc = q].id = handler[h].id
      /\ handler' = [handler EXCEPT ![h] = [handler[h] EXCEPT !.pc = q]]
      /\ exposed \subseteq Names
  BY GotoEffect DEF Goto, IInv, TypeOK
<1>2. QED
  BY <1>1, QuietMove, Zenon

\* Each kind of request has its places.
LEMMA PlaceType ==
    ASSUME NEW r, NEW q
    PROVE  /\ r \in TaskRequest /\ q \in TaskPcs =>
                 [r EXCEPT !.pc = q] \in TaskRequest
           /\ r \in WorkflowRequest /\ q \in RegisterPcs =>
                 [r EXCEPT !.pc = q] \in WorkflowRequest
           /\ r \in LaunchRequest /\ q \in RegisterPcs \cup MarkPcs \cup PlanPcs =>
                 [r EXCEPT !.pc = q] \in LaunchRequest
           /\ r \in NameRequest /\ q \in MarkPcs =>
                 [r EXCEPT !.pc = q] \in NameRequest
BY DEF TaskRequest, WorkflowRequest, LaunchRequest, NameRequest

\* Validation and the search for a task write nothing.
LEMMA TaskStepsInv ==
    ASSUME IInv, NEW h \in Handlers, CreateTask(h) \/ GetTaskModel(h)
    PROVE  IInv'
<1>1. handler[h].pc \in {"task", "findTask"}
  BY DEF CreateTask, GetTaskModel, At
<1>2. handler[h] \in TaskRequest
  BY <1>1, PcType DEF IInv, TaskPcs
<1>3. Quiet /\ UNCHANGED exposed
  BY DEF CreateTask, GetTaskModel, Quiet, tables, history
<1>4. PICK q \in TaskPcs : Return(h) \/ Goto(h, q)
  BY DEF CreateTask, GetTaskModel, TaskPcs
<1>5. CASE Return(h)
  BY <1>1, <1>3, <1>5, QuietReturn DEF MarkPcs
<1>6. CASE Goto(h, q)
  <2>1. /\ q \notin {"findWorkflow", "write", "createWorkflow"}
        /\ q \notin MarkPcs \cup {"fetchClosure", "findLaunchPlan", "createLaunchPlan"}
        /\ handler[h].pc \notin MarkPcs
    BY <1>1, <1>4 DEF TaskPcs, MarkPcs
  <2>2. handler[h] \in Requests /\ [handler[h] EXCEPT !.pc = q] \in Requests
    BY <1>2, <1>4, PlaceType DEF Requests
  <2>3. QED
    BY <1>3, <1>6, <2>1, <2>2, QuietGoto
<1>7. QED
  BY <1>4, <1>5, <1>6

\* Nor does the validation of a workflow.
LEMMA CreateWorkflowInv ==
    ASSUME IInv, NEW h \in Handlers, CreateWorkflow(h)
    PROVE  IInv'
<1>1. handler[h].pc = "workflow"
  BY DEF CreateWorkflow, At
<1>2. handler[h] \in WorkflowRequest \cup LaunchRequest
  BY <1>1, PcType DEF IInv, RegisterPcs
<1>3. Quiet /\ UNCHANGED exposed
  BY DEF CreateWorkflow, Quiet, tables, history
<1>4. CASE Return(h)
  BY <1>1, <1>3, <1>4, QuietReturn DEF MarkPcs
<1>5. CASE Goto(h, "compile")
  <2>1. handler[h] \in Requests /\ [handler[h] EXCEPT !.pc = "compile"] \in Requests
    BY <1>2, PlaceType DEF Requests, RegisterPcs
  <2>2. QED
    BY <1>1, <1>3, <1>5, <2>1, QuietGoto DEF MarkPcs
<1>6. QED
  BY <1>4, <1>5 DEF CreateWorkflow

\* The workflow of a launch that marks its name has a row, so the entity exists.
LEMMA NameStepsInv ==
    ASSUME IInv, NEW h \in Handlers, UpdateNamedEntity(h) \/ FirstOrCreate(h)
    PROVE  IInv'
<1>1. handler[h].pc \in {"getNamedEntity", "findMetadata"}
  BY DEF UpdateNamedEntity, FirstOrCreate, At
<1>2. handler[h] \in NameRequest \cup LaunchRequest /\ handler[h].pc \in MarkPcs
  BY <1>1, PcType DEF IInv, MarkPcs
<1>3. Quiet /\ UNCHANGED exposed
  BY DEF UpdateNamedEntity, FirstOrCreate, Quiet, tables, history
<1>4. handler[h].op = "launch" => workflows[handler[h].id] # None
  BY <1>2 DEF IInv, RowsFirst
<1>5. handler[h].op = "launch" => NamedEntityExists(handler[h].id.name)
  BY <1>2, <1>4 DEF NamedEntityExists, LaunchRequest, NameRequest, Workflows
<1>6. PICK q \in MarkPcs : Goto(h, q) \/ (Return(h) /\ handler[h].op # "launch")
  BY <1>5 DEF UpdateNamedEntity, FirstOrCreate, MarkPcs
<1>7. CASE Return(h) /\ handler[h].op # "launch"
  BY <1>3, <1>7, QuietReturn
<1>8. CASE Goto(h, q)
  <2>1. q \notin {"findWorkflow", "write", "createWorkflow"}
    BY <1>6 DEF MarkPcs
  <2>2. handler[h] \in Requests /\ [handler[h] EXCEPT !.pc = q] \in Requests
    BY <1>2, <1>6, PlaceType DEF Requests
  <2>3. QED
    BY <1>3, <1>4, <1>6, <1>8, <2>1, <2>2, QuietGoto
<1>9. QED
  BY <1>6, <1>7, <1>8

\* Before its launch plan a launch only reads.
LEMMA PlanStepsInv ==
    ASSUME IInv, NEW h \in Handlers,
           LaunchSingleTask(h) \/ GetCreatedModel(h) \/ FetchClosure(h) \/ CreateOrGetLaunchPlan(h)
    PROVE  IInv'
<1>1. handler[h].pc \in PlanPcs
  BY DEF LaunchSingleTask, GetCreatedModel, FetchClosure, CreateOrGetLaunchPlan, At, PlanPcs
<1>2. handler[h] \in LaunchRequest /\ handler[h].pc \notin MarkPcs
  BY <1>1, PcType DEF IInv, PlanPcs, MarkPcs
<1>3. Quiet /\ UNCHANGED exposed
  BY DEF LaunchSingleTask, GetCreatedModel, FetchClosure, CreateOrGetLaunchPlan, Quiet, tables,
         history
<1> DEFINE Going(q) == Goto(h, q) /\ (q # "findSkeleton" => workflows[handler[h].id] # None)
<1>4. PICK q \in PlanPcs : Return(h) \/ Going(q)
  <2>1. CASE LaunchSingleTask(h)
    BY <2>1 DEF LaunchSingleTask, PlanPcs
  <2>2. CASE GetCreatedModel(h)
    BY <2>2 DEF GetCreatedModel, PlanPcs, WorkflowRepoGet
  <2>3. CASE FetchClosure(h)
    <3>1. handler[h].pc = "fetchClosure" /\ handler[h].op = "launch"
      BY <1>2, <2>3 DEF FetchClosure, At, LaunchRequest
    <3>2. workflows[handler[h].id] # None
      BY <3>1 DEF IInv, RowsFirst
    <3>3. QED
      BY <2>3, <3>2 DEF FetchClosure, PlanPcs
  <2>4. CASE CreateOrGetLaunchPlan(h)
    <3>1. handler[h].pc = "findLaunchPlan" /\ handler[h].op = "launch"
      BY <1>2, <2>4 DEF CreateOrGetLaunchPlan, At, LaunchRequest
    <3>2. workflows[handler[h].id] # None
      BY <3>1 DEF IInv, RowsFirst
    <3>3. QED
      BY <2>4, <3>2 DEF CreateOrGetLaunchPlan, PlanPcs
  <2>5. QED
    BY <2>1, <2>2, <2>3, <2>4
<1>5. CASE Return(h)
  BY <1>2, <1>3, <1>5, QuietReturn
<1>6. CASE Going(q)
  <2>1. /\ q \notin {"findWorkflow", "write", "createWorkflow"}
        /\ q \notin MarkPcs
    BY <1>4 DEF PlanPcs, MarkPcs
  <2>2. handler[h] \in Requests /\ [handler[h] EXCEPT !.pc = q] \in Requests
    BY <1>2, <1>4, PlaceType DEF Requests
  <2>3. QED
    BY <1>2, <1>3, <1>6, <2>1, <2>2, QuietGoto
<1>7. QED
  BY <1>4, <1>5, <1>6

\* A new request asks nothing of the tables.
LEMMA RequestInv ==
    ASSUME IInv, NEW h \in Handlers, Request(h)
    PROVE  IInv'
<1> DEFINE Fresh(r) == /\ r \in Requests /\ Start(h, r)
                       /\ r.pc \notin {"findWorkflow", "write", "createWorkflow"}
                       /\ r.pc \notin {"fetchClosure", "findLaunchPlan", "createLaunchPlan"}
                       /\ r.pc \in MarkPcs => r.op = "name"
<1>1. PICK r : Fresh(r)
  <2>1. ASSUME NEW t \in Tasks, NEW s \in Templates,
               Start(h, [NewRequest("task", "task", t) EXCEPT !.template = s])
        PROVE  Fresh([NewRequest("task", "task", t) EXCEPT !.template = s])
    BY <2>1 DEF NewRequest, Requests, TaskRequest, TaskPcs, MarkPcs
  <2>2. ASSUME NEW w \in UserWorkflows, NEW s \in Templates,
               Start(h, [NewRequest("workflow", "workflow", w) EXCEPT !.template = s])
        PROVE  Fresh([NewRequest("workflow", "workflow", w) EXCEPT !.template = s])
    BY <2>2 DEF NewRequest, Requests, WorkflowRequest, RegisterPcs, MarkPcs
  <2>3. ASSUME NEW t \in Tasks,
               Start(h, [NewRequest("launch", "launch", Skeleton(t)) EXCEPT
                            !.task = t, !.state = "SYSTEM_GENERATED"])
        PROVE  Fresh([NewRequest("launch", "launch", Skeleton(t)) EXCEPT
                            !.task = t, !.state = "SYSTEM_GENERATED"])
    <3>1. Skeleton(t) \in Skeletons
      BY DEF Skeletons
    <3>2. QED
      BY <2>3, <3>1, Zenon DEF NewRequest, Requests, LaunchRequest, PlanPcs, MarkPcs
  <2>4. ASSUME NEW w \in Workflows, NEW s \in {"ACTIVE", "ARCHIVED"},
               Start(h, [NewRequest("name", "getNamedEntity", w) EXCEPT !.state = s])
        PROVE  Fresh([NewRequest("name", "getNamedEntity", w) EXCEPT !.state = s])
    BY <2>4 DEF NewRequest, Requests, NameRequest, MarkPcs
  <2>5. QED
    BY <2>1, <2>2, <2>3, <2>4, Zenon DEF Request
<1>2. handler[h].pc \notin MarkPcs
  BY <1>1 DEF Start, Idle, MarkPcs
<1>3. Quiet /\ exposed' = exposed /\ exposed \subseteq Names
  BY <1>1 DEF Start, tables, history, Quiet, IInv, TypeOK
<1>4. handler' = [handler EXCEPT ![h] = r]
  BY <1>1 DEF Start
<1>5. QED
  BY <1>1, <1>2, <1>3, <1>4, QuietMove, Zenon

\* A launch takes the skeleton that is there or sets out to create one.
LEMMA CreateOrGetWorkflowModelInv ==
    ASSUME IInv, NEW h \in Handlers, CreateOrGetWorkflowModel(h)
    PROVE  IInv'
<1>1. handler[h].pc = "findSkeleton"
  BY DEF CreateOrGetWorkflowModel, At
<1>2. handler[h] \in LaunchRequest /\ handler[h].pc \notin MarkPcs
  BY <1>1, PcType DEF IInv, PlanPcs, MarkPcs
<1>3. Quiet /\ UNCHANGED exposed /\ exposed \subseteq Names
  BY DEF CreateOrGetWorkflowModel, Quiet, tables, history, IInv, TypeOK
<1>4. CASE workflows[handler[h].id] # None
  <2>1. Goto(h, "fetchClosure")
    BY <1>4 DEF CreateOrGetWorkflowModel, WorkflowRepoGet
  <2>2. handler[h] \in Requests /\ [handler[h] EXCEPT !.pc = "fetchClosure"] \in Requests
    BY <1>2, PlaceType DEF Requests, PlanPcs
  <2>3. QED
    BY <1>2, <1>3, <1>4, <2>1, <2>2, QuietGoto
<1>5. CASE workflows[handler[h].id] = None
  <2>1. PICK o \in Orders :
           handler' = [handler EXCEPT ![h].pc = "workflow", ![h].template = <<"bindings", o>>]
    BY <1>5 DEF CreateOrGetWorkflowModel, WorkflowRepoGet
  <2> DEFINE r == [handler[h] EXCEPT !.pc = "workflow", !.template = <<"bindings", o>>]
  <2>2. r \in Requests /\ r.pc = "workflow"
    BY <1>2, Zenon DEF Requests, LaunchRequest, RegisterPcs, Bindings
  <2>3. handler' = [handler EXCEPT ![h] = r]
    BY <2>1, Zenon DEF IInv, TypeOK
  <2>4. QED
    BY <1>2, <1>3, <2>2, <2>3, QuietMove, Zenon DEF MarkPcs
<1>6. QED
  BY <1>4, <1>5

\* A launch that fails while it marks its skeleton leaves the name exposed.
LEMMA FailInv ==
    ASSUME IInv, NEW h \in Handlers, Fail(h)
    PROVE  IInv'
<1>1. Quiet /\ handler' = [handler EXCEPT ![h] = Idle] /\ Idle.pc = "idle"
  BY DEF Fail, tables, Quiet, Return, Idle
<1>2. handler[h].pc \in MarkPcs => handler[h].id.name \in Names
  BY PcType DEF IInv, NameRequest, LaunchRequest, Workflows, Names
<1>3. /\ exposed \subseteq exposed' /\ exposed' \subseteq Names
      /\ handler[h].pc \in MarkPcs => handler[h].id.name \in exposed'
  BY <1>2 DEF Fail, IInv, TypeOK, MarkPcs
<1>4. QED
  BY <1>1, <1>3, QuietMove, Zenon DEF MarkPcs

\* The invariant says nothing of the project and of the counters.
LEMMA StutterInv ==
    ASSUME IInv, Quiet, UNCHANGED <<handler, exposed>>
    PROVE  IInv'
<1>1. TypeOK' /\ UsersExpose' /\ RowsFirst' /\ Uploaded'
  BY DEF IInv, Quiet, TypeOK, UsersExpose, RowsFirst, Uploaded
<1>2. ClosuresBuilt'
  BY DEF IInv, Quiet, ClosuresBuilt
<1>3. Contests'
  BY DEF IInv, Quiet, Contests, Registering
<1>4. ClosureIsServed'
  BY DEF IInv, Quiet, ClosureIsServed, GetWorkflow, WorkflowRepoGet,
         FetchAndGetWorkflowClosure, GetWorkflowDigest
<1>5. SkeletonsAreHidden'
  BY DEF IInv, Quiet, SkeletonsAreHidden, ListedWorkflows, NamedEntityExists
<1>6. QED
  BY <1>1, <1>2, <1>3, <1>4, <1>5 DEF IInv

-----------------------------------------------------------------------------
(* The steps that write tasks, launch plans, metadata and closures in hand. *)

\* What the compiler returns is what a row of tasks may hold.
LEMMA CompiledType ==
    ASSUME NEW template \in Templates
    PROVE  CreateTaskModel(template) \in Compiled
BY DEF Compiled

\* A task is added where there was none.
LEMMA TaskRepoCreateInv ==
    ASSUME IInv, NEW h \in Handlers, TaskRepoCreate(h)
    PROVE  IInv'
<1>1. handler[h].pc = "createTask"
  BY DEF TaskRepoCreate, At
<1>2. handler[h] \in TaskRequest
  BY <1>1, PcType DEF IInv, TaskPcs
<1>3. handler[h].id \in Tasks /\ CreateTaskModel(handler[h].template) \in Compiled
  BY <1>2, CompiledType DEF TaskRequest
<1>4. /\ tasks' \in [Tasks -> Compiled \cup {None}]
      /\ \A t \in Tasks : tasks[t] # None => tasks'[t] = tasks[t]
  BY <1>3 DEF TaskRepoCreate, IInv, TypeOK
<1>5. Modest
  BY <1>4 DEF TaskRepoCreate, history, Modest, IInv, TypeOK, RowsFirst
<1>6. handler' = [handler EXCEPT ![h] = Idle] /\ Idle.pc = "idle"
  BY DEF TaskRepoCreate, Return, Idle
<1>7. QED
  BY <1>1, <1>5, <1>6, Move, Zenon DEF MarkPcs

\* A launch plan is added for a workflow that has a row.
LEMMA LaunchPlanRepoCreateInv ==
    ASSUME IInv, NEW h \in Handlers, LaunchPlanRepoCreate(h)
    PROVE  IInv'
<1>1. handler[h].pc = "createLaunchPlan"
  BY DEF LaunchPlanRepoCreate, At
<1>2. handler[h] \in LaunchRequest
  BY <1>1, PcType DEF IInv, PlanPcs
<1>3. /\ handler[h].op = "launch" /\ handler[h].task \in Tasks /\ handler[h].id \in Skeletons
      /\ workflows[handler[h].id] # None
  BY <1>1, <1>2 DEF LaunchRequest, IInv, RowsFirst
<1>4. /\ launchPlans' \in [Tasks -> Skeletons \cup {None}]
      /\ \A t \in Tasks : launchPlans[t] # None => launchPlans'[t] = launchPlans[t]
      /\ \A t \in Tasks : launchPlans'[t] # None => workflows[launchPlans'[t]] # None
  BY <1>3 DEF LaunchPlanRepoCreate, IInv, TypeOK, RowsFirst
<1>5. Modest
  BY <1>4 DEF LaunchPlanRepoCreate, history, Modest, IInv, TypeOK
<1>6. handler' = [handler EXCEPT ![h] = Idle] /\ Idle.pc = "idle"
  BY Zenon DEF LaunchPlanRepoCreate, Return, Idle
<1>7. QED
  BY <1>1, <1>5, <1>6, Move, Zenon DEF MarkPcs

\* A name has a state because it was marked, or because a user gave it one.
LEMMA NamedEntityRepoUpdateInv ==
    ASSUME IInv, NEW h \in Handlers, NamedEntityRepoUpdate(h)
    PROVE  IInv'
<1> DEFINE n == handler[h].id.name
<1>1. handler[h].pc \in MarkPcs
  BY Zenon DEF NamedEntityRepoUpdate, MarkPcs
<1>2. handler[h] \in NameRequest \cup LaunchRequest
  BY <1>1, PcType DEF IInv
<1>3. n \in Names
  BY <1>2, Zenon DEF NameRequest, LaunchRequest, Workflows, Names
<1>4. CASE At(h, "insertMetadata") /\ metadata[n] # None
  <2>1. metadata[n] = "SYSTEM_GENERATED" \/ n \in exposed
    BY <1>3, <1>4 DEF IInv, TypeOK, UsersExpose
  <2>2. Return(h) /\ Quiet /\ UNCHANGED exposed
    BY <1>4 DEF NamedEntityRepoUpdate, Quiet
  <2>3. QED
    BY <2>1, <2>2, QuietReturn
<1>5. CASE /\ ~(At(h, "insertMetadata") /\ metadata[n] # None)
           /\ handler[h].op = "name"
  <2>1. handler[h].state \in {"ACTIVE", "ARCHIVED"}
    BY <1>2, <1>5 DEF NameRequest, LaunchRequest
  <2>2. /\ metadata' = [metadata EXCEPT ![n] = handler[h].state]
        /\ exposed' = exposed \cup {n}
        /\ handler' = [handler EXCEPT ![h] = Idle]
    BY <1>5 DEF NamedEntityRepoUpdate, Return
  <2>3. Modest
    BY <1>3, <2>1, <2>2 DEF NamedEntityRepoUpdate, Modest, IInv, TypeOK, RowsFirst
  <2>4. Idle.pc = "idle"
    BY DEF Idle
  <2>5. QED
    BY <1>5, <2>2, <2>3, <2>4, Move, Zenon DEF MarkPcs
<1>6. CASE /\ ~(At(h, "insertMetadata") /\ metadata[n] # None)
           /\ handler[h].op # "name"
  <2> DEFINE r == [handler[h] EXCEPT !.pc = "getSkeleton"]
  <2>1. handler[h] \in LaunchRequest /\ handler[h].state = "SYSTEM_GENERATED"
    BY <1>2, <1>6, Zenon DEF NameRequest, LaunchRequest
  <2>2. /\ metadata' = [metadata EXCEPT ![n] = "SYSTEM_GENERATED"]
        /\ exposed' = exposed
        /\ handler' = [handler EXCEPT ![h] = r]
    BY <1>6, <2>1 DEF NamedEntityRepoUpdate, Goto
  <2>3. Modest /\ metadata'[n] = "SYSTEM_GENERATED"
    BY <1>3, <2>2 DEF NamedEntityRepoUpdate, Modest, IInv, TypeOK, RowsFirst
  <2>4. r \in Requests /\ r.pc = "getSkeleton"
    BY <2>1, PlaceType DEF Requests, PlanPcs, LaunchRequest
  <2>5. QED
    BY <2>2, <2>3, <2>4, Move, Zenon DEF MarkPcs
<1>7. QED
  BY <1>4, <1>5, <1>6

\* The closure is made of tasks and launch plans that are registered.
LEMMA getCompiledWorkflowInv ==
    ASSUME IInv, NEW h \in Handlers, getCompiledWorkflow(h)
    PROVE  IInv'
<1> DEFINE w == handler[h].id
           c == CompileWorkflow(w, handler[h].template)
           r == [handler[h] EXCEPT !.pc = "findWorkflow", !.closure = c]
<1>1. handler[h].pc = "compile"
  BY DEF getCompiledWorkflow, At
<1>2. handler[h] \in WorkflowRequest \cup LaunchRequest
  BY <1>1, PcType DEF IInv, RegisterPcs
<1>3. Quiet /\ UNCHANGED exposed
  BY DEF getCompiledWorkflow, Quiet, tables, history
<1>4. CASE Return(h)
  BY <1>1, <1>3, <1>4, QuietReturn DEF MarkPcs
<1>5. CASE /\ \A t \in RequiredTasks(w) : tasks[t] # None
           /\ \A t \in RequiredLaunchPlans(w) : launchPlans[t] # None
           /\ handler' = [handler EXCEPT ![h].pc = "findWorkflow", ![h].closure = c]
  <2>1. w \in Workflows /\ handler[h].template \in Templates \cup Bindings \cup {None}
    BY <1>2 DEF WorkflowRequest, LaunchRequest, Workflows
  <2>2. [t \in RequiredTasks(w) |-> tasks[t]] \in [RequiredTasks(w) -> Compiled]
    BY <1>5, <2>1, RequiredAreTasks DEF IInv, TypeOK
  <2>3. c \in Closures
    BY <2>1, <2>2 DEF CompileWorkflow, Closures, TaskRepoGet
  <2>4. Built(w, c, tasks, launchPlans)
    BY <1>5 DEF Built, CompileWorkflow, TaskRepoGet
  <2>5. r \in Requests /\ r.pc = "findWorkflow" /\ r.closure = c /\ r.id = w
    BY <1>2, <2>3, Zenon DEF Requests, WorkflowRequest, LaunchRequest, RegisterPcs
  <2>6. handler' = [handler EXCEPT ![h] = r]
    BY <1>5, Zenon DEF IInv, TypeOK
  <2>7. Modest /\ tasks' = tasks /\ launchPlans' = launchPlans
    BY <1>3 DEF Quiet, Modest, IInv, TypeOK, RowsFirst
  <2>8. QED
    BY <1>1, <2>3, <2>4, <2>5, <2>6, <2>7, Move, Zenon DEF MarkPcs
<1>6. QED
  BY <1>4, <1>5 DEF getCompiledWorkflow, TaskRepoGet, LaunchPlanRepoGet

-----------------------------------------------------------------------------
(* The steps that register a workflow.                                     *)

\* Names of users' workflows are not names of skeletons.
LEMMA SkeletonOfName ==
    ASSUME NEW w \in Workflows, NEW s \in Skeletons, w.name = s.name
    PROVE  w \notin UserWorkflows
BY NameAssumption

\* A request that is not marking before or after leaves the hidden names hidden.
LEMMA StillHidden ==
    ASSUME IInv, NEW h \in Handlers, UNCHANGED <<workflows, metadata, exposed>>,
           \A g \in Handlers : g # h => handler'[g] = handler[g],
           handler[h].pc \notin MarkPcs
    PROVE  SkeletonsAreHidden'
BY DEF IInv, SkeletonsAreHidden, ListedWorkflows, NamedEntityExists, MarkPcs

\* A second request that finds no row contests the workflow.
LEMMA GetWorkflowModelInv ==
    ASSUME IInv, NEW h \in Handlers, GetWorkflowModel(h)
    PROVE  IInv'
<1> DEFINE w == handler[h].id
<1>1. handler[h].pc = "findWorkflow" /\ handler[h].pc \notin MarkPcs
  BY DEF GetWorkflowModel, At, MarkPcs
<1>2. handler[h] \in WorkflowRequest \cup LaunchRequest /\ handler[h] \in Requests
  BY <1>1, PcType DEF IInv, RegisterPcs, Requests
<1>3. w \in Workflows
  BY <1>2 DEF WorkflowRequest, LaunchRequest, Workflows
<1>4. CASE workflows[w] # None
  <2>1. Quiet /\ UNCHANGED exposed
    BY <1>4 DEF GetWorkflowModel, Quiet, tables, WorkflowRepoGet
  <2>2. CASE Return(h)
    BY <1>1, <2>1, <2>2, QuietReturn
  <2>3. CASE Goto(h, "getNamedEntity") /\ handler[h].op # "workflow"
    <3>1. [handler[h] EXCEPT !.pc = "getNamedEntity"] \in Requests
      BY <1>2, <2>3, PlaceType DEF WorkflowRequest, MarkPcs, Requests
    <3>2. QED
      BY <1>1, <1>2, <1>4, <2>1, <2>3, <3>1, QuietGoto
  <2>4. QED
    BY <1>4, <2>2, <2>3 DEF GetWorkflowModel, WorkflowRepoGet, Succeeds
<1>5. CASE workflows[w] = None
  <2>1. /\ Goto(h, "write") /\ UNCHANGED <<tables, exposed>>
        /\ contested' = IF Registering(w) = {} THEN contested ELSE contested \cup {w}
    BY <1>5 DEF GetWorkflowModel, WorkflowRepoGet
  <2>2. /\ \A g \in Handlers : g # h => handler'[g] = handler[g]
        /\ handler'[h].pc = "write" /\ handler'[h].id = w /\ handler'[h].op = handler[h].op
        /\ handler'[h].closure = handler[h].closure
        /\ handler'[h] = [handler[h] EXCEPT !.pc = "write"]
        /\ handler' = [handler EXCEPT ![h] = handler'[h]]
    BY <1>2, <2>1, GotoEffect DEF IInv
  <2>3. UNCHANGED <<tasks, workflows, blobs, launchPlans, metadata, exposed>>
    BY <2>1 DEF tables
  <2>4. contested \subseteq contested' /\ contested' \subseteq Workflows
    BY <1>3, <2>1 DEF IInv, TypeOK
  <2>5. TypeOK'
    <3>1. handler'[h] \in Requests
      BY <1>2, <2>2, PlaceType DEF Requests, RegisterPcs
    <3>2. QED
      BY <2>2, <2>3, <2>4, <3>1 DEF IInv, TypeOK
  <2>6. ClosuresBuilt'
    BY <1>1, <2>2, <2>3, Zenon DEF IInv, ClosuresBuilt
  <2>7. Contests'
    <3>1. \A v \in Workflows :
             Registering(v)' = IF v = w THEN Registering(w) \cup {h} ELSE Registering(v)
      <4>1. \A g \in Handlers : g # h => handler'[g].pc = handler[g].pc /\ handler'[g].id = handler[g].id
        BY <2>2
      <4>2. handler'[h].pc = "write" /\ handler'[h].id = w /\ handler[h].pc = "findWorkflow"
        BY <1>1, <2>2
      <4>3. QED
        BY <4>1, <4>2 DEF Registering
    <3>2. Registering(w) # {} => w \in contested'
      BY <2>1
    <3>3. ASSUME NEW v \in Workflows, NEW f \in Registering(v)', NEW g \in Registering(v)', f # g
          PROVE  v \in contested'
      <4>1. CASE v = w
        BY <3>1, <3>2, <3>3, <4>1
      <4>2. CASE v # w
        BY <2>4, <3>1, <3>3, <4>2 DEF IInv, Contests
      <4>3. QED
        BY <4>1, <4>2
    <3>4. ASSUME NEW v \in Workflows, Registering(v)' # {}, workflows[v] # None
          PROVE  v \in contested'
      BY <1>5, <2>4, <3>1, <3>4 DEF IInv, Contests
    <3>5. QED
      BY <2>3, <3>3, <3>4 DEF Contests
  <2>8. Uploaded'
    <3>1. \A g \in Handlers : handler'[g].pc = "createWorkflow" => handler'[g] = handler[g]
      BY <2>2, Zenon
    <3>2. QED
      BY <2>3, <2>4, <3>1 DEF IInv, Uploaded
  <2>9. ClosureIsServed'
    BY <2>3, <2>4 DEF IInv, ClosureIsServed, GetWorkflow, WorkflowRepoGet,
                      FetchAndGetWorkflowClosure, GetWorkflowDigest
  <2>10. RowsFirst' /\ UsersExpose'
    <3>1. \A g \in Handlers : handler'[g] = handler[g] \/ handler'[g].pc = "write"
      BY <2>2, Zenon
    <3>2. RowsFirst'
      BY <2>3, <3>1 DEF IInv, RowsFirst, MarkPcs
    <3>3. UsersExpose'
      BY <2>3 DEF IInv, UsersExpose
    <3>4. QED
      BY <3>2, <3>3
  <2>11. SkeletonsAreHidden'
    BY <1>1, <2>2, <2>3, StillHidden
  <2>12. QED
    BY <2>5, <2>6, <2>7, <2>8, <2>9, <2>10, <2>11 DEF IInv
<1>6. QED
  BY <1>4, <1>5

\* Who overwrites the closure of another request has contested its workflow.
LEMMA WriteProtobufInv ==
    ASSUME IInv, NEW h \in Handlers, WriteProtobuf(h)
    PROVE  IInv'
<1> DEFINE w == handler[h].id
           ref == createDataReference(w)
<1>1. handler[h].pc = "write" /\ handler[h].pc \notin MarkPcs
  BY DEF WriteProtobuf, At, MarkPcs
<1>2. handler[h] \in WorkflowRequest \cup LaunchRequest /\ handler[h] \in Requests
  BY <1>1, PcType DEF IInv, RegisterPcs, Requests
<1>3. w \in Workflows /\ h \in Registering(w)
  BY <1>1, <1>2 DEF WorkflowRequest, LaunchRequest, Workflows, Registering
<1>4. handler[h].closure \in Closures /\ handler[h].closure # None
  BY <1>1, NoneAssumption DEF IInv, ClosuresBuilt
<1>5. /\ \A g \in Handlers : g # h => handler'[g] = handler[g]
      /\ handler'[h].pc = "createWorkflow" /\ handler'[h].id = w
      /\ handler'[h].op = handler[h].op
      /\ handler'[h].closure = handler[h].closure
      /\ handler'[h] = [handler[h] EXCEPT !.pc = "createWorkflow"]
      /\ handler' = [handler EXCEPT ![h] = handler'[h]]
  BY <1>2, GotoEffect DEF WriteProtobuf, IInv
<1>6. UNCHANGED <<tasks, workflows, launchPlans, metadata, contested, exposed>>
  BY DEF WriteProtobuf, history
<1>7. /\ blobs'[ref] = handler[h].closure
      /\ blobs' \in [References -> Closures \cup {None}]
      /\ \A v \in Workflows : v # w =>
            blobs'[createDataReference(v)] = blobs[createDataReference(v)]
  BY <1>3, <1>4, ReferenceOfOne DEF WriteProtobuf, IInv, TypeOK
<1>8. TypeOK'
  <2>1. handler'[h] \in Requests
    BY <1>2, <1>5, PlaceType DEF Requests, RegisterPcs
  <2>2. QED
    BY <1>5, <1>6, <1>7, <2>1 DEF IInv, TypeOK
<1>9. ClosuresBuilt'
  BY <1>1, <1>5, <1>6, Zenon DEF IInv, ClosuresBuilt
<1>10. Contests'
  <2>1. \A g \in Handlers :
           /\ handler'[g].pc \in {"write", "createWorkflow"} <=>
                 handler[g].pc \in {"write", "createWorkflow"}
           /\ handler'[g].id = handler[g].id
    BY <1>1, <1>5, Zenon
  <2>2. \A v \in Workflows : Registering(v)' = Registering(v)
    BY <2>1 DEF Registering
  <2>3. QED
    BY <1>6, <2>2 DEF IInv, Contests
<1>11. Uploaded'
  <2> SUFFICES ASSUME NEW g \in Handlers, handler'[g].pc = "createWorkflow"
               PROVE  LET blob == blobs'[createDataReference(handler'[g].id)]
                      IN  /\ blob # None
                          /\ handler'[g].id \in contested' \/ blob = handler'[g].closure
    BY DEF Uploaded
  <2>1. CASE g = h
    BY <1>4, <1>5, <1>7, <2>1, Zenon
  <2>2. CASE g # h
    <3>1. handler'[g] = handler[g] /\ handler[g].pc = "createWorkflow"
      BY <1>5, <2>2
    <3>2. handler[g].id \in Workflows /\ g \in Registering(handler[g].id)
      BY <3>1, PcType DEF IInv, RegisterPcs, WorkflowRequest, LaunchRequest, Workflows, Registering
    <3>3. CASE handler[g].id = w
      <4>1. w \in contested
        BY <1>3, <2>2, <3>2, <3>3 DEF IInv, Contests
      <4>2. QED
        BY <1>4, <1>6, <1>7, <3>1, <3>3, <4>1
    <3>4. CASE handler[g].id # w
      BY <1>6, <1>7, <3>1, <3>2, <3>4 DEF IInv, Uploaded
    <3>5. QED
      BY <3>3, <3>4
  <2>3. QED
    BY <2>1, <2>2
<1>12. ClosureIsServed'
  <2> SUFFICES ASSUME NEW v \in Workflows, workflows[v] # None
               PROVE  LET blob == blobs'[workflows[v].reference]
                      IN  blob # None /\ (v \in contested \/ blob = workflows[v].digest)
    BY <1>6, Zenon DEF ClosureIsServed, GetWorkflow, WorkflowRepoGet, FetchAndGetWorkflowClosure,
                GetWorkflowDigest
  <2>1. workflows[v].reference = createDataReference(v)
    BY DEF IInv, ClosuresBuilt
  <2>2. CASE v = w
    <3>1. v \in contested
      BY <1>3, <2>2 DEF IInv, Contests
    <3>2. QED
      BY <1>4, <1>7, <2>1, <2>2, <3>1
  <2>3. CASE v # w
    BY <1>7, <2>1, <2>3 DEF IInv, ClosureIsServed, GetWorkflow, WorkflowRepoGet,
                            FetchAndGetWorkflowClosure, GetWorkflowDigest
  <2>4. QED
    BY <2>2, <2>3
<1>13. RowsFirst' /\ UsersExpose'
  <2>1. \A g \in Handlers : handler'[g] = handler[g] \/ handler'[g].pc = "createWorkflow"
    BY <1>5, Zenon
  <2>2. RowsFirst'
    BY <1>6, <2>1 DEF IInv, RowsFirst, MarkPcs
  <2>3. UsersExpose'
    BY <1>6 DEF IInv, UsersExpose
  <2>4. QED
    BY <2>2, <2>3
<1>14. SkeletonsAreHidden'
  BY <1>1, <1>5, <1>6, StillHidden
<1>15. QED
  BY <1>8, <1>9, <1>10, <1>11, <1>12, <1>13, <1>14 DEF IInv

\* The first row wins; it has the closure that was uploaded before it.
LEMMA WorkflowRepoCreateInv ==
    ASSUME IInv, NEW h \in Handlers, WorkflowRepoCreate(h)
    PROVE  IInv'
<1> DEFINE w == handler[h].id
           row == CreateWorkflowModel(w, handler[h].closure)
<1>1. handler[h].pc = "createWorkflow" /\ handler[h].pc \notin MarkPcs
  BY DEF WorkflowRepoCreate, At, MarkPcs
<1>2. handler[h] \in WorkflowRequest \cup LaunchRequest /\ handler[h] \in Requests
  BY <1>1, PcType DEF IInv, RegisterPcs, Requests
<1>3. w \in Workflows /\ h \in Registering(w)
  BY <1>1, <1>2 DEF WorkflowRequest, LaunchRequest, Workflows, Registering
<1>4. /\ handler[h].closure \in Closures /\ Built(w, handler[h].closure, tasks, launchPlans)
      /\ row # None
  BY <1>1, <1>3, NoneAssumption DEF IInv, ClosuresBuilt
<1>5. /\ row \in WorkflowRow /\ row.digest = handler[h].closure
      /\ row.reference = createDataReference(w)
  BY <1>3, <1>4, ReferenceOfOne DEF CreateWorkflowModel, WorkflowRow, GetWorkflowDigest
<1>6. UNCHANGED <<tasks, blobs, launchPlans, metadata, contested, exposed>>
  BY DEF WorkflowRepoCreate, history
<1>7. /\ workflows' \in [Workflows -> WorkflowRow \cup {None}]
      /\ workflows'[w] = IF workflows[w] = None THEN row ELSE workflows[w]
      /\ \A v \in Workflows : v # w => workflows'[v] = workflows[v]
      /\ \A v \in Workflows : workflows[v] # None => workflows'[v] = workflows[v]
  BY <1>3, <1>5, Zenon DEF WorkflowRepoCreate, IInv, TypeOK
<1>8. /\ \A g \in Handlers : g # h => handler'[g] = handler[g]
      /\ handler'[h].pc \in {"idle", "getNamedEntity"}
      /\ handler' \in [Handlers -> Requests \cup {Idle}]
      /\ handler[h] \in LaunchRequest =>
            /\ handler'[h] \in LaunchRequest /\ handler'[h].pc = "getNamedEntity"
            /\ handler'[h].op = "launch" /\ handler'[h].id = w
      /\ handler[h] \in WorkflowRequest => handler'[h].pc = "idle"
  <2>1. CASE handler[h].op = "workflow"
    <3>1. Return(h) /\ handler[h] \notin LaunchRequest
      BY <2>1, Zenon DEF WorkflowRepoCreate, Succeeds, LaunchRequest
    <3>2. QED
      BY <3>1, ReturnEffect DEF IInv
  <2>2. CASE handler[h].op # "workflow"
    <3>1. Goto(h, "getNamedEntity")
      BY <2>2, Zenon DEF WorkflowRepoCreate, Succeeds
    <3>2. handler[h] \in LaunchRequest /\ handler[h] \notin WorkflowRequest
      BY <1>2, <2>2, Zenon DEF WorkflowRequest
    <3>3. [handler[h] EXCEPT !.pc = "getNamedEntity"] \in LaunchRequest
      BY <3>2, PlaceType DEF MarkPcs
    <3>4. /\ \A g \in Handlers : g # h => handler'[g] = handler[g]
          /\ handler'[h] = [handler[h] EXCEPT !.pc = "getNamedEntity"]
          /\ handler'[h].pc = "getNamedEntity" /\ handler'[h].id = w
          /\ handler' = [handler EXCEPT ![h] = handler'[h]]
      BY <1>2, <3>1, GotoEffect DEF IInv
    <3>5. handler'[h].op = "launch" /\ handler'[h] \in Requests
      BY <3>3, <3>4 DEF LaunchRequest, Requests
    <3>6. QED
      BY <3>2, <3>3, <3>4, <3>5 DEF IInv, TypeOK
  <2>3. QED
    BY <2>1, <2>2
<1>9. TypeOK'
  BY <1>6, <1>7, <1>8 DEF IInv, TypeOK
<1>10. ClosuresBuilt'
  <2>1. \A v \in Workflows : workflows'[v] # None =>
           Built(v, workflows'[v].digest, tasks, launchPlans) /\ workflows'[v].reference = createDataReference(v)
    BY <1>4, <1>5, <1>7, Zenon DEF IInv, ClosuresBuilt
  <2>2. \A g \in Handlers : handler'[g].pc \in {"findWorkflow", "write", "createWorkflow"} =>
           handler'[g].closure \in Closures /\ Built(handler'[g].id, handler'[g].closure, tasks, launchPlans)
    BY <1>8, Zenon DEF IInv, ClosuresBuilt
  <2>3. QED
    BY <1>6, <2>1, <2>2, Zenon DEF ClosuresBuilt
<1>11. Contests'
  <2>1. \A v \in Workflows : Registering(v)' \subseteq Registering(v) \ {h}
    BY <1>8 DEF Registering
  <2>2. ASSUME NEW v \in Workflows, NEW g \in Registering(v)', workflows'[v] # None
        PROVE  v \in contested
    <3>1. CASE v = w
      <4>1. g \in Registering(w) /\ g # h
        BY <2>1, <2>2, <3>1
      <4>2. QED
        BY <1>3, <3>1, <4>1 DEF IInv, Contests
    <3>2. CASE v # w
      BY <1>7, <2>1, <2>2, <3>2 DEF IInv, Contests
    <3>3. QED
      BY <3>1, <3>2
  <2>3. \A v \in Workflows : \A f, g \in Registering(v)' : f # g => v \in contested
    BY <2>1 DEF IInv, Contests
  <2>4. QED
    BY <1>6, <2>2, <2>3 DEF Contests
<1>12. Uploaded'
  BY <1>6, <1>8 DEF IInv, Uploaded
<1>13. ClosureIsServed'
  <2> SUFFICES ASSUME NEW v \in Workflows, workflows'[v] # None
               PROVE  LET blob == blobs[workflows'[v].reference]
                      IN  blob # None /\ (v \in contested \/ blob = workflows'[v].digest)
    BY <1>6 DEF ClosureIsServed, GetWorkflow, WorkflowRepoGet, FetchAndGetWorkflowClosure,
                GetWorkflowDigest
  <2>1. CASE workflows[v] # None
    BY <1>7, <2>1 DEF IInv, ClosureIsServed, GetWorkflow, WorkflowRepoGet,
                      FetchAndGetWorkflowClosure, GetWorkflowDigest
  <2>2. CASE workflows[v] = None
    <3>1. v = w /\ workflows'[v] = row
      BY <1>7, <2>2
    <3>2. LET blob == blobs[createDataReference(w)]
          IN  blob # None /\ (w \in contested \/ blob = handler[h].closure)
      BY <1>1 DEF IInv, Uploaded
    <3>3. QED
      BY <1>5, <3>1, <3>2, Zenon
  <2>3. QED
    BY <2>1, <2>2
<1>14. RowsFirst'
  <2>1. workflows'[w] # None
    BY <1>4, <1>7
  <2>2. ASSUME NEW g \in Handlers, handler'[g].op = "launch",
               handler'[g].pc \in MarkPcs \cup {"fetchClosure", "findLaunchPlan", "createLaunchPlan"}
        PROVE  workflows'[handler'[g].id] # None
    <3>1. CASE g = h
      BY <1>2, <1>8, <2>1, <2>2, <3>1 DEF MarkPcs
    <3>2. CASE g # h
      <4>1. handler'[g] = handler[g]
        BY <1>8, <3>2
      <4>2. workflows[handler[g].id] # None
        BY <2>2, <4>1 DEF IInv, RowsFirst
      <4>3. handler[g].id \in Workflows
        BY <2>2, <4>1, PcType DEF IInv, MarkPcs, PlanPcs, NameRequest, LaunchRequest, Workflows
      <4>4. QED
        BY <1>7, <4>1, <4>2, <4>3
    <3>3. QED
      BY <3>1, <3>2
  <2>3. \A t \in Tasks : launchPlans[t] # None => workflows'[launchPlans[t]] # None
    BY <1>7, Zenon DEF IInv, RowsFirst, TypeOK, Workflows
  <2>4. QED
    BY <1>6, <2>2, <2>3 DEF RowsFirst
<1>15. UsersExpose'
  BY <1>6 DEF IInv, UsersExpose
<1>16. SkeletonsAreHidden'
  <2> SUFFICES ASSUME NEW s \in Skeletons, s.name \in ListedWorkflows', s.name \notin exposed
               PROVE  \E g \in Handlers :
                         /\ handler'[g] # Idle
                         /\ handler'[g].op = "launch" /\ handler'[g].id.name = s.name
                         /\ handler'[g].pc \in MarkPcs
    BY <1>6 DEF SkeletonsAreHidden, MarkPcs
  <2>1. CASE w.name = s.name
    <3>1. handler[h] \in LaunchRequest
      BY <1>2, <1>3, <2>1, SkeletonOfName DEF WorkflowRequest
    <3>2. handler'[h] # Idle
      BY <1>8, <3>1 DEF Idle
    <3>3. QED
      BY <1>8, <2>1, <3>1, <3>2 DEF MarkPcs
  <2>2. CASE w.name # s.name
    <3>1. s.name \in ListedWorkflows
      BY <1>6, <1>7, <2>2, Zenon DEF ListedWorkflows, NamedEntityExists
    <3>2. PICK g \in Handlers : /\ handler[g] # Idle
                                /\ handler[g].op = "launch" /\ handler[g].id.name = s.name
                                /\ handler[g].pc \in MarkPcs
      BY <3>1 DEF IInv, SkeletonsAreHidden, MarkPcs
    <3>3. QED
      BY <1>1, <1>8, <3>2
  <2>3. QED
    BY <2>1, <2>2, Zenon
<1>17. QED
  BY <1>9, <1>10, <1>11, <1>12, <1>13, <1>14, <1>15, <1>16 DEF IInv

-----------------------------------------------------------------------------
(* Theorems.                                                               *)

\* Every step preserves the invariant.
LEMMA NextInv == IInv /\ [Next]_vars => IInv'
<1> SUFFICES ASSUME IInv, [Next]_vars PROVE IInv'
  OBVIOUS
<1>1. ASSUME NEW h \in Handlers, Request(h) PROVE IInv'
  BY <1>1, RequestInv
<1>2. ASSUME NEW h \in Handlers, Step(h) PROVE IInv'
  <2>1. CASE CreateTask(h) \/ GetTaskModel(h)
    BY <2>1, TaskStepsInv
  <2>2. CASE TaskRepoCreate(h)
    BY <2>2, TaskRepoCreateInv
  <2>3. CASE CreateWorkflow(h)
    BY <2>3, CreateWorkflowInv
  <2>4. CASE getCompiledWorkflow(h)
    BY <2>4, getCompiledWorkflowInv
  <2>5. CASE GetWorkflowModel(h)
    BY <2>5, GetWorkflowModelInv
  <2>6. CASE WriteProtobuf(h)
    BY <2>6, WriteProtobufInv
  <2>7. CASE WorkflowRepoCreate(h)
    BY <2>7, WorkflowRepoCreateInv
  <2>8. CASE UpdateNamedEntity(h) \/ FirstOrCreate(h)
    BY <2>8, NameStepsInv
  <2>9. CASE NamedEntityRepoUpdate(h)
    BY <2>9, NamedEntityRepoUpdateInv
  <2>10. CASE CreateOrGetWorkflowModel(h)
    BY <2>10, CreateOrGetWorkflowModelInv
  <2>11. CASE \/ LaunchSingleTask(h) \/ GetCreatedModel(h) \/ FetchClosure(h)
              \/ CreateOrGetLaunchPlan(h)
    BY <2>11, PlanStepsInv
  <2>12. CASE LaunchPlanRepoCreate(h)
    BY <2>12, LaunchPlanRepoCreateInv
  <2>13. QED
    BY <1>2, <2>1, <2>2, <2>3, <2>4, <2>5, <2>6, <2>7, <2>8, <2>9, <2>10, <2>11, <2>12 DEF Step
<1>3. ASSUME NEW h \in Handlers, Fail(h) PROVE IInv'
  BY <1>3, FailInv
<1>4. ASSUME CreateProject PROVE IInv'
  BY <1>4, StutterInv DEF CreateProject, Quiet, history
<1>5. ASSUME NEW s \in {"ACTIVE", "ARCHIVED"}, UpdateProject(s) PROVE IInv'
  BY <1>5, StutterInv DEF UpdateProject, Quiet, history
<1>6. CASE UNCHANGED vars
  BY <1>6, StutterInv DEF vars, Quiet
<1>7. QED
  BY <1>1, <1>2, <1>3, <1>4, <1>5, <1>6 DEF Next

\* The inductive invariant holds in every reachable state.
LEMMA InvAlways == Spec => []IInv
BY InitInv, NextInv, PTL DEF Spec

\* The row of a workflow is never there without its closure, and the closure is
\* the one its digest was computed from unless two requests registered the
\* workflow at once (CreateWorkflow uploads before it inserts).
THEOREM ClosureAlwaysServed == Spec => []ClosureIsServed
<1>1. IInv => ClosureIsServed
  BY DEF IInv
<1>2. QED
  BY <1>1, InvAlways, PTL

\* The tasks of a registered workflow are registered, and are those it was
\* compiled against, and the launch plans it refers to launch what is there.
THEOREM AlwaysCompiledAgainstRegistered == Spec => []CompiledAgainstRegistered
<1>1. IInv => CompiledAgainstRegistered
  BY RequiredAreTasks DEF IInv, ClosuresBuilt, Built, RowsFirst, CompiledAgainstRegistered
<1>2. QED
  BY <1>1, InvAlways, PTL

\* No generated workflow is listed among the users', but for launches that are
\* marking it, launches that failed to and names users changed.
THEOREM SkeletonsAlwaysHidden == Spec => []SkeletonsAreHidden
<1>1. IInv => SkeletonsAreHidden
  BY DEF IInv
<1>2. QED
  BY <1>1, InvAlways, PTL

\* No step changes a registered task, workflow or launch plan, and a generated launch plan
\* has its workflow from the start.
THEOREM RegisteredFinal == Spec => RegisteredIsFinal
<1> DEFINE Kept == /\ \A t \in Tasks : tasks[t] # None => tasks'[t] = tasks[t]
                   /\ \A w \in Workflows : workflows[w] # None => workflows'[w] = workflows[w]
                   /\ \A t \in Tasks : launchPlans[t] # None => launchPlans'[t] = launchPlans[t]
                   /\ \A t \in Tasks : launchPlans'[t] # None => workflows[launchPlans'[t]] # None
<1>1. ASSUME IInv, UNCHANGED <<tasks, workflows, launchPlans>> PROVE Kept
  BY <1>1 DEF IInv, RowsFirst
<1>2. ASSUME IInv, NEW h \in Handlers, TaskRepoCreate(h) PROVE Kept
  BY <1>2 DEF TaskRepoCreate, IInv, TypeOK, RowsFirst
<1>3. ASSUME IInv, NEW h \in Handlers, WorkflowRepoCreate(h) PROVE Kept
  BY <1>3 DEF WorkflowRepoCreate, IInv, TypeOK, RowsFirst
<1>4. ASSUME IInv, NEW h \in Handlers, LaunchPlanRepoCreate(h) PROVE Kept
  <2>1. handler[h].pc = "createLaunchPlan"
    BY <1>4, Zenon DEF LaunchPlanRepoCreate, At
  <2>2. handler[h] \in LaunchRequest
    BY <1>4, <2>1, PcType DEF IInv, PlanPcs
  <2>3. workflows[handler[h].id] # None
    BY <1>4, <2>1, <2>2, Zenon DEF LaunchRequest, IInv, RowsFirst
  <2>4. \A t \in Tasks : /\ launchPlans'[t] \in {launchPlans[t], handler[h].id}
                         /\ launchPlans[t] # None => launchPlans'[t] = launchPlans[t]
    BY <1>4 DEF LaunchPlanRepoCreate, IInv, TypeOK
  <2>5. UNCHANGED <<tasks, workflows>>
    BY <1>4 DEF LaunchPlanRepoCreate
  <2>6. QED
    BY <1>4, <2>3, <2>4, <2>5, Zenon DEF IInv, RowsFirst
<1>5. ASSUME NEW h \in Handlers, Step(h), ~TaskRepoCreate(h), ~WorkflowRepoCreate(h),
             ~LaunchPlanRepoCreate(h)
      PROVE  UNCHANGED <<tasks, workflows, launchPlans>>
  BY <1>5, Zenon DEF Step, CreateTask, GetTaskModel, CreateWorkflow, getCompiledWorkflow,
              GetWorkflowModel, WriteProtobuf, UpdateNamedEntity, FirstOrCreate,
              NamedEntityRepoUpdate, LaunchSingleTask, CreateOrGetWorkflowModel, GetCreatedModel,
              FetchClosure, CreateOrGetLaunchPlan, tables
<1>6. ASSUME NEW h \in Handlers, Request(h) \/ Fail(h)
      PROVE  UNCHANGED <<tasks, workflows, launchPlans>>
  BY <1>6, Zenon DEF Request, Start, Fail, tables
<1>7. ASSUME CreateProject \/ (\E s \in {"ACTIVE", "ARCHIVED"} : UpdateProject(s))
      PROVE  UNCHANGED <<tasks, workflows, launchPlans>>
  BY <1>7 DEF CreateProject, UpdateProject
<1>8. IInv /\ [Next]_vars => [Kept]_vars
  BY <1>1, <1>2, <1>3, <1>4, <1>5, <1>6, <1>7, Zenon DEF Next
<1>9. QED
  BY <1>8, InvAlways, PTL DEF Spec, RegisteredIsFinal

=============================================================================

----------------------------- MODULE Registration -----------------------------
(***************************************************************************)
(* Registration of tasks and workflows, the workflow and launch plan that  *)
(* are generated for the execution of a single task, the metadata of named *)
(* entities, and the project they all belong to.                           *)
(*                                                                         *)
(* A workflow is two things that no transaction binds: a row with a digest *)
(* and the compiled closure in the blob store, at a place computed from    *)
(* the identifier.  A skeleton workflow has a third, the named entity that *)
(* hides it from users.  The model interleaves the requests at every call  *)
(* of the database and of the blob store.                                  *)
(***************************************************************************)
EXTENDS Integers, Sequences

CONSTANTS Tasks,          \* identifiers [name, version] of tasks
          UserWorkflows,  \* identifiers [name, version] of users' workflows
          Requires,       \* the tasks a user's workflow refers to
          RequiresPlans,  \* those whose generated launch plans it refers to
          Templates,      \* what users register
          Rejected,       \* templates that fail validation or compilation
          Orders,         \* orders a Go map with the task's variables is read in
          Handlers,
          MaxRequests,    \* bound on requests
          MaxFaults,      \* bound on failed calls and crashes
          None

\* A name is a sequence of words; the name of a skeleton workflow has a prefix.
generateWorkflowNameFromTask(name) == <<".flytegen">> \o name
Skeleton(t) == [name |-> generateWorkflowNameFromTask(t.name), version |-> t.version]

Skeletons == {Skeleton(t) : t \in Tasks}
Workflows == UserWorkflows \cup Skeletons

\* createDataReference: the place of a closure follows from the identifier.
createDataReference(w) == <<w.name, w.version>>
References == {createDataReference(w) : w \in Workflows}

Names == {w.name : w \in Workflows}

VARIABLES project,      \* the row of the project: its state, or None
          tasks,        \* the table tasks: the compiled task, or None
          workflows,    \* the table workflows: digest and reference, or None
          blobs,        \* the closures in the blob store
          launchPlans,  \* the table launch_plans: the generated plan of each task
          metadata,     \* the table named_entity_metadata: the state, or None
          handler,      \* the requests at work
          requests,     \* requests so far
          faults,       \* failed calls and crashes so far
          contested,    \* history: workflows two requests registered at once
          exposed       \* history: names a user or a fault took out of hiding

vars == <<project, tasks, workflows, blobs, launchPlans, metadata, handler,
          requests, faults, contested, exposed>>
tables == <<project, tasks, workflows, blobs, launchPlans, metadata>>
history == <<contested, exposed>>

Idle == [pc |-> "idle"]

Init ==
    /\ project = None
    /\ tasks = [t \in Tasks |-> None]
    /\ workflows = [w \in Workflows |-> None]
    /\ blobs = [ref \in References |-> None]
    /\ launchPlans = [t \in Tasks |-> None]
    /\ metadata = [n \in Names |-> None]
    /\ handler = [h \in Handlers |-> Idle]
    /\ requests = 0
    /\ faults = 0
    /\ contested = {}
    /\ exposed = {}

-----------------------------------------------------------------------------
(* A request starts, moves on and returns.                                 *)

Start(h, r) ==
    /\ handler[h] = Idle
    /\ requests < MaxRequests
    /\ handler' = [handler EXCEPT ![h] = r]
    /\ requests' = requests + 1
    /\ UNCHANGED <<tables, faults, history>>

At(h, pc) == handler[h].pc = pc
Goto(h, pc) == handler' = [handler EXCEPT ![h].pc = pc]
Return(h) == handler' = [handler EXCEPT ![h] = Idle]

\* The queries by primary key.
ProjectRepoGet == project
TaskRepoGet(t) == tasks[t]
WorkflowRepoGet(w) == workflows[w]
LaunchPlanRepoGet(t) == launchPlans[t]

\* The domain is one the configuration lists; the project has a row and is active.
ValidateProjectAndDomain == ProjectRepoGet = "ACTIVE"

-----------------------------------------------------------------------------
(* Tasks.                                                                  *)

\* The compiler is a function of what it compiles, and what it returns stands for
\* its digest.
CompileTask(template) == <<"compiled", template>>
GetTaskDigest(compiled) == compiled
CreateTaskModel(template) == GetTaskDigest(CompileTask(template))

ValidateTask(template) == ValidateProjectAndDomain /\ template \notin Rejected

\* CreateTask first validates the request, then compiles the task and looks for
\* the task that is registered already.
CreateTask(h) ==
    /\ At(h, "task")
    /\ IF ValidateTask(handler[h].template)
       THEN Goto(h, "findTask")
       ELSE Return(h)
    /\ UNCHANGED <<tables, requests, faults, history>>

\* A task that exists, identical or not, ends the request; an error of the
\* query is taken for a task that does not exist.
GetTaskModel(h) ==
    /\ At(h, "findTask")
    /\ \/ TaskRepoGet(handler[h].id) # None /\ Return(h) /\ UNCHANGED faults
       \/ TaskRepoGet(handler[h].id) = None /\ Goto(h, "createTask") /\ UNCHANGED faults
       \/ faults < MaxFaults /\ Goto(h, "createTask") /\ faults' = faults + 1
    /\ UNCHANGED <<tables, requests, history>>

\* The primary key lets one row in.
TaskRepoCreate(h) ==
    /\ At(h, "createTask")
    /\ tasks' = [tasks EXCEPT ![handler[h].id] =
                    IF @ = None THEN CreateTaskModel(handler[h].template) ELSE @]
    /\ Return(h)
    /\ UNCHANGED <<project, workflows, blobs, launchPlans, metadata, requests, faults, history>>

-----------------------------------------------------------------------------
(* Workflows.  CreateWorkflow serves users and CreateOrGetWorkflowModel,   *)
(* which takes an identical workflow that exists for success.              *)

RequiredTasks(w) == IF w \in UserWorkflows THEN Requires[w]
                    ELSE {t \in Tasks : Skeleton(t) = w}
RequiredLaunchPlans(w) == IF w \in UserWorkflows THEN RequiresPlans[w] ELSE {}

\* What the compiler makes of a template and of the registered tasks.  Of a launch
\* plan it uses the interface, which is its workflow's.
CompileWorkflow(w, template) ==
    [template |-> template, tasks |-> [t \in RequiredTasks(w) |-> TaskRepoGet(t)]]

\* What may be registered.
Bindings == {<<"bindings", o>> : o \in Orders}
Compiled == {CreateTaskModel(s) : s \in Templates}
Closures == UNION {[template: Templates \cup Bindings \cup {None},
                    tasks: [RequiredTasks(w) -> Compiled]] : w \in Workflows}

\* The size and the number of nodes are within the limits.
ValidateCompiledWorkflow(closure) == closure.template \notin Rejected

\* The digest is a hash of the closure; the closure itself stands for it.
GetWorkflowDigest(closure) == closure

CreateWorkflowModel(w, closure) ==
    [digest |-> GetWorkflowDigest(closure), reference |-> createDataReference(w)]

ASSUME RequiresAssumption ==
    Requires \in [UserWorkflows -> SUBSET Tasks] /\ RequiresPlans \in [UserWorkflows -> SUBSET Tasks]
\* Users do not take names with the prefix of the skeletons.
ASSUME NameAssumption == \A w \in UserWorkflows, s \in Skeletons : w.name # s.name
ASSUME IdentifierAssumption ==
    \A v, w \in Workflows : v.name = w.name /\ v.version = w.version => v = w
ASSUME NoneAssumption ==
    /\ None \notin Compiled \cup Closures \cup Skeletons
    /\ None \notin {"ACTIVE", "ARCHIVED", "SYSTEM_GENERATED"}
    /\ \A w \in Workflows, c \in Closures : CreateWorkflowModel(w, c) # None

Succeeds(h) == IF handler[h].op = "workflow" THEN Return(h) ELSE Goto(h, "getNamedEntity")

ValidateWorkflow == ValidateProjectAndDomain

CreateWorkflow(h) ==
    /\ At(h, "workflow")
    /\ IF ValidateWorkflow THEN Goto(h, "compile") ELSE Return(h)
    /\ UNCHANGED <<tables, requests, faults, history>>

\* Variant that compiles with whatever tasks there are.
getCompiledWorkflowAnyway(h) ==
    /\ At(h, "compile")
    /\ handler' = [handler EXCEPT ![h].pc = "findWorkflow",
                      ![h].closure = CompileWorkflow(handler[h].id, handler[h].template)]
    /\ UNCHANGED <<tables, requests, faults, history>>

\* The tasks and the launch plans a workflow refers to must be registered, the
\* template must compile, and the closure must be valid.
getCompiledWorkflow(h) ==
    /\ At(h, "compile")
    /\ IF /\ \A t \in RequiredTasks(handler[h].id) : TaskRepoGet(t) # None
          /\ \A t \in RequiredLaunchPlans(handler[h].id) : LaunchPlanRepoGet(t) # None
          /\ ValidateCompiledWorkflow(CompileWorkflow(handler[h].id, handler[h].template))
       THEN handler' = [handler EXCEPT ![h].pc = "findWorkflow",
                           ![h].closure = CompileWorkflow(handler[h].id, handler[h].template)]
       ELSE Return(h)
    /\ UNCHANGED <<tables, requests, faults, history>>

\* The requests that have found no workflow and have not created one yet.
Registering(w) == {g \in Handlers : handler[g].pc \in {"write", "createWorkflow"}
                                    /\ handler[g].id = w}

GetWorkflowModel(h) ==
    /\ At(h, "findWorkflow")
    /\ LET w == handler[h].id
           row == WorkflowRepoGet(w)
       IN  /\ IF row = None THEN Goto(h, "write")
              ELSE IF row.digest = GetWorkflowDigest(handler[h].closure) THEN Succeeds(h)
              ELSE Return(h)
           /\ contested' = IF row # None \/ Registering(w) = {} THEN contested
                           ELSE contested \cup {w}
    /\ UNCHANGED <<tables, requests, faults, exposed>>

\* Variant that leaves the closure to a later step.
WriteProtobufLater(h) ==
    /\ At(h, "write")
    /\ Goto(h, "createWorkflow")
    /\ UNCHANGED <<tables, requests, faults, history>>

\* The closure goes to the place the identifier determines, whatever is there.
WriteProtobuf(h) ==
    /\ At(h, "write")
    /\ blobs' = [blobs EXCEPT ![createDataReference(handler[h].id)] = handler[h].closure]
    /\ Goto(h, "createWorkflow")
    /\ UNCHANGED <<project, tasks, workflows, launchPlans, metadata, requests, faults, history>>

\* A row that exists answers AlreadyExists.
WorkflowRepoCreate(h) ==
    /\ At(h, "createWorkflow")
    /\ workflows' = [workflows EXCEPT ![handler[h].id] =
                        IF @ = None THEN CreateWorkflowModel(handler[h].id, handler[h].closure)
                        ELSE @]
    /\ Succeeds(h)
    /\ UNCHANGED <<project, tasks, blobs, launchPlans, metadata, requests, faults, history>>

\* GetWorkflow: the row, and the closure from the blob store.
FetchAndGetWorkflowClosure(ref) == blobs[ref]
GetWorkflow(w) == IF WorkflowRepoGet(w) = None THEN None
                  ELSE FetchAndGetWorkflowClosure(WorkflowRepoGet(w).reference)

-----------------------------------------------------------------------------
(* Named entities.                                                         *)

\* An entity exists as soon as a row of any version has its name.
NamedEntityExists(n) == \E w \in Workflows : w.name = n /\ workflows[w] # None

\* UpdateNamedEntity ensures that the entity exists.
UpdateNamedEntity(h) ==
    /\ At(h, "getNamedEntity")
    /\ IF NamedEntityExists(handler[h].id.name) THEN Goto(h, "findMetadata") ELSE Return(h)
    /\ UNCHANGED <<tables, requests, faults, history>>

\* FirstOrCreate is a query and then an update or an insert.
FirstOrCreate(h) ==
    /\ At(h, "findMetadata")
    /\ Goto(h, IF metadata[handler[h].id.name] = None THEN "insertMetadata" ELSE "updateMetadata")
    /\ UNCHANGED <<tables, requests, faults, history>>

\* Variant that never marks the skeleton.
NamedEntityRepoUpdateNothing(h) ==
    /\ handler[h].pc \in {"insertMetadata", "updateMetadata"}
    /\ IF handler[h].op = "name" THEN Return(h) ELSE Goto(h, "getSkeleton")
    /\ UNCHANGED <<tables, requests, faults, history>>

\* An insert fails when another request was first.
NamedEntityRepoUpdate(h) ==
    /\ handler[h].pc \in {"insertMetadata", "updateMetadata"}
    /\ LET n == handler[h].id.name
       IN  IF At(h, "insertMetadata") /\ metadata[n] # None
           THEN Return(h) /\ UNCHANGED <<metadata, exposed>>
           ELSE /\ metadata' = [metadata EXCEPT ![n] = handler[h].state]
                /\ exposed' = IF handler[h].op = "name" THEN exposed \cup {n} ELSE exposed
                /\ IF handler[h].op = "name" THEN Return(h) ELSE Goto(h, "getSkeleton")
    /\ UNCHANGED <<project, tasks, workflows, blobs, launchPlans, requests, faults, contested>>

\* The default filter of ListNamedEntities hides what the system generated; an
\* entity without metadata is taken for active.
ListedWorkflows == {n \in Names : NamedEntityExists(n) /\ metadata[n] # "SYSTEM_GENERATED"}

-----------------------------------------------------------------------------
(* The execution of a single task: launchSingleTaskExecution up to the     *)
(* point where workflow and launch plan are there.                         *)

\* The task must be registered.
LaunchSingleTask(h) ==
    /\ At(h, "launch")
    /\ IF TaskRepoGet(handler[h].task) # None THEN Goto(h, "findSkeleton") ELSE Return(h)
    /\ UNCHANGED <<tables, requests, faults, history>>

\* CreateOrGetWorkflowModel: the row of the skeleton workflow settles it; without
\* one the workflow is created and the entity is marked.  The variables of the
\* task come out of a Go map, in an order that differs from call to call.
CreateOrGetWorkflowModel(h) ==
    /\ At(h, "findSkeleton")
    /\ IF WorkflowRepoGet(handler[h].id) # None
       THEN Goto(h, "fetchClosure")
       ELSE \E o \in Orders :
                handler' = [handler EXCEPT ![h].pc = "workflow", ![h].template = <<"bindings", o>>]
    /\ UNCHANGED <<tables, requests, faults, history>>

\* The model is read again once it is created.
GetCreatedModel(h) ==
    /\ At(h, "getSkeleton")
    /\ IF WorkflowRepoGet(handler[h].id) # None THEN Goto(h, "fetchClosure") ELSE Return(h)
    /\ UNCHANGED <<tables, requests, faults, history>>

FetchClosure(h) ==
    /\ At(h, "fetchClosure")
    /\ IF GetWorkflow(handler[h].id) # None THEN Goto(h, "findLaunchPlan") ELSE Return(h)
    /\ UNCHANGED <<tables, requests, faults, history>>

\* CreateOrGetLaunchPlan: a plan that exists is taken, another one is validated.
CreateOrGetLaunchPlan(h) ==
    /\ At(h, "findLaunchPlan")
    /\ IF LaunchPlanRepoGet(handler[h].task) = None /\ ValidateProjectAndDomain
       THEN Goto(h, "createLaunchPlan")
       ELSE Return(h)
    /\ UNCHANGED <<tables, requests, faults, history>>

LaunchPlanRepoCreate(h) ==
    /\ At(h, "createLaunchPlan")
    /\ launchPlans' = [launchPlans EXCEPT ![handler[h].task] =
                          IF @ = None THEN handler[h].id ELSE @]
    /\ Return(h)
    /\ UNCHANGED <<project, tasks, workflows, blobs, metadata, requests, faults, history>>

-----------------------------------------------------------------------------
(* The project: UpdateProject archives it and makes it active again.       *)

CreateProject ==
    /\ project = None
    /\ project' = "ACTIVE"
    /\ UNCHANGED <<tasks, workflows, blobs, launchPlans, metadata, handler, requests, faults, history>>

UpdateProject(state) ==
    /\ project \notin {None, state}
    /\ requests < MaxRequests
    /\ project' = state
    /\ requests' = requests + 1
    /\ UNCHANGED <<tasks, workflows, blobs, launchPlans, metadata, handler, faults, history>>

-----------------------------------------------------------------------------
(* Faults: a call fails, or the process dies, and the request ends where   *)
(* it is.  A skeleton that was created and not marked stays visible.       *)

Fail(h) ==
    /\ handler[h] # Idle
    /\ faults < MaxFaults
    /\ faults' = faults + 1
    /\ exposed' = IF handler[h].pc \in {"getNamedEntity", "findMetadata",
                                        "insertMetadata", "updateMetadata"}
                  THEN exposed \cup {handler[h].id.name} ELSE exposed
    /\ Return(h)
    /\ UNCHANGED <<tables, requests, contested>>

-----------------------------------------------------------------------------

NewRequest(op, pc, id) ==
    [op |-> op, pc |-> pc, id |-> id, task |-> None, template |-> None,
     closure |-> None, state |-> None]

Request(h) ==
    \/ \E t \in Tasks, s \in Templates :
           Start(h, [NewRequest("task", "task", t) EXCEPT !.template = s])
    \/ \E w \in UserWorkflows, s \in Templates :
           Start(h, [NewRequest("workflow", "workflow", w) EXCEPT !.template = s])
    \/ \E t \in Tasks :
           Start(h, [NewRequest("launch", "launch", Skeleton(t)) EXCEPT
                        !.task = t, !.state = "SYSTEM_GENERATED"])
    \/ \E w \in Workflows, s \in {"ACTIVE", "ARCHIVED"} :
           Start(h, [NewRequest("name", "getNamedEntity", w) EXCEPT !.state = s])

Step(h) ==
    \/ CreateTask(h)
    \/ GetTaskModel(h)
    \/ TaskRepoCreate(h)
    \/ CreateWorkflow(h)
    \/ getCompiledWorkflow(h)
    \/ GetWorkflowModel(h)
    \/ WriteProtobuf(h)
    \/ WorkflowRepoCreate(h)
    \/ UpdateNamedEntity(h)
    \/ FirstOrCreate(h)
    \/ NamedEntityRepoUpdate(h)
    \/ LaunchSingleTask(h)
    \/ CreateOrGetWorkflowModel(h)
    \/ GetCreatedModel(h)
    \/ FetchClosure(h)
    \/ CreateOrGetLaunchPlan(h)
    \/ LaunchPlanRepoCreate(h)

Next ==
    \/ \E h \in Handlers : Request(h) \/ Step(h) \/ Fail(h)
    \/ CreateProject
    \/ \E s \in {"ACTIVE", "ARCHIVED"} : UpdateProject(s)

Spec == Init /\ [][Next]_vars

-----------------------------------------------------------------------------
(* Properties.                                                             *)

\* A workflow that is registered can be read: its closure is in the blob store
\* before its row is in the table, whatever fails in between, and it is the
\* closure the digest of the row was computed from, unless two requests found
\* the identifier free at the same time, in which case the one that loses the row
\* may have replaced the closure of the other.
ClosureIsServed ==
    \A w \in Workflows : workflows[w] # None =>
        /\ GetWorkflow(w) # None
        /\ w \in contested \/ GetWorkflowDigest(GetWorkflow(w)) = workflows[w].digest

\* A workflow was compiled against tasks and launch plans that are registered, and
\* those tasks are still what they were, and those launch plans launch a workflow
\* that is there: no request, late or failing, changes what another one built on.
CompiledAgainstRegistered ==
    \A w \in Workflows : workflows[w] # None =>
        /\ DOMAIN workflows[w].digest.tasks = RequiredTasks(w)
        /\ \A t \in RequiredTasks(w) : tasks[t] # None /\ workflows[w].digest.tasks[t] = tasks[t]
        /\ \A t \in RequiredLaunchPlans(w) :
              launchPlans[t] # None /\ workflows[launchPlans[t]] # None

\* A skeleton workflow is not listed among the users' workflows, once the launch
\* that generated it has gone on to its launch plan or has ended, unless that
\* launch failed between the two writes or a user changed the state of the name.
SkeletonsAreHidden ==
    \A w \in Skeletons : w.name \in ListedWorkflows =>
        \/ w.name \in exposed
        \/ \E h \in Handlers : /\ handler[h] # Idle
                              /\ handler[h].op = "launch" /\ handler[h].id.name = w.name
                              /\ handler[h].pc \in {"getNamedEntity", "findMetadata",
                                                   "insertMetadata", "updateMetadata"}

\* What is registered stays as it is: no step changes or removes a task, the
\* digest of a workflow or a generated launch plan, and a generated launch plan
\* is never there before its workflow.
RegisteredIsFinal ==
    [][/\ \A t \in Tasks : tasks[t] # None => tasks'[t] = tasks[t]
       /\ \A w \in Workflows : workflows[w] # None => workflows'[w] = workflows[w]
       /\ \A t \in Tasks : launchPlans[t] # None => launchPlans'[t] = launchPlans[t]
       /\ \A t \in Tasks : launchPlans'[t] # None => workflows[launchPlans'[t]] # None]_vars

=============================================================================

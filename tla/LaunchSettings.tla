--------------------------- MODULE LaunchSettings ---------------------------
(***************************************************************************)
(* How a launch settles what an execution runs with: its inputs, the       *)
(* resources of its tasks, its queue, its parallelism, its plugins, its    *)
(* labels, the role it runs as and the cluster it runs on                  *)
(* (pkg/manager/impl/execution_manager.go, pkg/manager/impl/executions/    *)
(* queues.go, pkg/workflowengine/impl and pkg/executioncluster/impl).      *)
(*                                                                         *)
(* Every setting is looked up in a statement of its own while the          *)
(* overrides of MatchableResources may be changing.  A launch that failed  *)
(* after its workflow was created in a cluster is retried under the same   *)
(* name, perhaps by a process restarted with another configuration of its  *)
(* clusters.                                                               *)
(***************************************************************************)
EXTENDS MatchableResources, LaunchInputs, Sequences, Functions

CONSTANTS Launches,        \* goroutines that launch executions
          DefaultResources, LimitResources, \* the platform's configuration
          MaxParallelism,
          ExecutionQueues, \* queue -> the tags it is configured with
          DomainTags, DefaultTags, \* tags of the domain, and of any domain
          Clusters,
          Configurations,  \* what a process may read about the clusters
          MaxLabels,       \* most labels allowed, 0 for any number
          ProjectLabels,
          BuiltLabels,     \* external: labels the compiler gives the object
          RoleNameKey,     \* the annotation that names the role
          GetWithSeed(_, _) \* the choice an execution's name seeds

\* launches  in a workload: what each goroutine may be asked to launch
\* config    the configuration of the first process
ASSUME LaunchesAssumption ==
    \A w \in Workloads : {"launches", "config"} \subseteq DOMAIN w /\ w.config \in Configurations

LaunchRequests == UNION {UNION {w.launches[l] : l \in Launches} : w \in Workloads}

\* A list to choose from has for each of its clusters an entry, that is its place
\* in the list and its weight.
\* all     the enabled clusters, which weigh the same
\* labels  label -> the clusters configured for it, enabled or not
ASSUME ClustersAssumption ==
    \A c \in Configurations : DOMAIN c.all \subseteq Clusters /\ DOMAIN c.all # {}

\* The list of a label: the clusters that are not enabled are left out.
getLabeledWeightedRandomForCluster(c, label) ==
    Restrict(c.labels[label], DOMAIN c.labels[label] \cap DOMAIN c.all)

\* The choice is one of the list.
ASSUME SeedAssumption ==
    \A e \in {q.execution : q \in LaunchRequests}, c \in Configurations :
       /\ GetWithSeed(c.all, e) \in DOMAIN c.all
       /\ \A label \in DOMAIN c.labels :
             LET list == getLabeledWeightedRandomForCluster(c, label)
             IN  DOMAIN list # {} => GetWithSeed(list, e) \in DOMAIN list

VARIABLES config,      \* the configuration the running process has read
          launch,      \* the launches
          crds,        \* the FlyteWorkflow objects: <<execution, cluster>>
          executions,  \* the rows of the executions
          aborted,     \* executions whose abort was acknowledged
          routed       \* history: the lists each execution was chosen from

vars == <<resourceVars, config, launch, crds, executions, aborted, routed>>
clusterVars == <<config, crds, executions, aborted, routed>>

enabled == DOMAIN config.all

\* execution    name of the execution to launch
\* kind         a launch of a launch plan, "plan", or of a single "task"
\* workflow     the workflow, a generated one for a single task
\* task         a task of the workflow
\* variables    the inputs of the workflow, with their types
\* inputs       those the caller binds
\* scheduler    "aws" or "native" if one launches it, else None
\* parent       the execution whose node launches this one, or None
\* user, nesting: of the request's metadata, for an execution without parent
\* parallelism, labels, annotations, notifications, securityCtx, authRole:
\*              of the request
\* plan         the launch plan's, its inputs, its deprecated auth and role
Executions == {q.execution : q \in LaunchRequests}

NotLaunched == [pc |-> "idle"]

-----------------------------------------------------------------------------
(* The resources of a task.  Quantities are in halves of the unit; a       *)
(* resource that is not configured has quantity 0.                         *)

Resources == {"cpu", "memory", "ephemeralStorage", "storage", "gpu"}

ASSUME ConfigurationAssumption ==
    /\ {DefaultResources, LimitResources} \subseteq [Resources -> Nat]
    /\ {DomainTags, DefaultTags} \subseteq Seq(STRING)

\* An override of the resources may leave out the defaults or the limits.
ASSUME OverridesAssumption ==
    \A a \in Requested :
       /\ a.type = "TASK_RESOURCE" =>
             a.value \in [defaults : [Resources -> Nat] \cup {None}, limits : [Resources -> Nat] \cup {None}]
       /\ a.type = "EXECUTION_QUEUE" => a.value \in Seq(STRING)

\* No execution has the name of a workflow.
ASSUME RequestsAssumption ==
    \A q \in LaunchRequests :
       /\ q.workflow \in Workflows /\ q.execution \notin Levels
       /\ q.parallelism \in Nat /\ q.plan.parallelism \in Nat
       /\ \A entries \in {q.task.requests, q.task.limits} :
             DOMAIN entries \subseteq Resources /\ entries \in [DOMAIN entries -> Nat]

\* A variable has a name.  A parameter is required or has a default.  A
\* scheduler launches what it takes, and binds the time or nothing.
ASSUME InputsAssumption ==
    \A q \in LaunchRequests :
       /\ "" \notin DOMAIN q.variables
       /\ \A name \in DOMAIN q.plan.defaultInputs :
             q.plan.defaultInputs[name].required => q.plan.defaultInputs[name].default.type = NoType
       /\ q.scheduler # None =>
             /\ Schedulable(q.scheduler, q.plan.schedule)
             /\ DOMAIN q.inputs = TimeInputs(q.scheduler, q.plan.schedule,
                   fetchExpectedInputs(q.variables, q.plan.fixedInputs, q.plan.defaultInputs))
             /\ \A name \in DOMAIN q.inputs : q.inputs[name].type = "datetime"

\* Quantity.Value rounds up.
Value(q) == (q + 1) \div 2
isWholeNumber(q) == q % 2 = 0

\* Entries of other names, the storage's among them, are passed over.
requestedResourcesToQuantity(entries) == Restrict(entries, DOMAIN entries \ {"storage"})

VariantNoPlatformLimit(task) ==
    \A r \in DOMAIN task.requests \cap DOMAIN task.limits :
        Value(task.requests[r]) <= Value(task.limits[r])
validateTaskResources(task) ==
    LET defaults == requestedResourcesToQuantity(task.requests)
        limits == requestedResourcesToQuantity(task.limits)
        fits(q, r) == LimitResources[r] # 0 => Value(q) <= Value(LimitResources[r])
    IN  /\ \A entries \in {defaults, limits} :
              "gpu" \in DOMAIN entries => isWholeNumber(entries["gpu"])
        /\ \A r \in DOMAIN defaults :
              /\ fits(defaults[r], r)
              /\ r \in DOMAIN limits =>
                    IF r = "gpu" THEN Value(defaults[r]) = Value(limits[r])
                    ELSE Value(defaults[r]) <= Value(limits[r]) /\ fits(limits[r], r)

\* A sidecar's container is not validated.
validateTaskTemplate(task) == task.sidecar \/ ~task.container \/ validateTaskResources(task)

getTaskResourcesAsSet(entries) ==
    [r \in Resources |-> IF r \in DOMAIN entries \ {"storage"} THEN entries[r] ELSE 0]

\* External: flyteplugins' AdjustOrDefaultResource.
AtMost(q, limit) == IF limit # 0 /\ q > limit THEN limit ELSE q
AdjustOrDefaultResource(request, limit, platformDefault, platformLimit) ==
    LET asked == IF request # 0 THEN request ELSE IF limit # 0 THEN limit ELSE platformDefault
        capped == AtMost(IF limit # 0 THEN limit ELSE asked, platformLimit)
    IN  [request |-> AtMost(AtMost(asked, platformLimit), capped), limit |-> capped]

setCompiledTaskDefaults(task, platform) ==
    LET defaults == getTaskResourcesAsSet(task.requests)
        limits == getTaskResourcesAsSet(task.limits)
        assigned == {"cpu", "memory"} \cup
            {r \in Resources : defaults[r] # 0 \/ limits[r] # 0 \/ platform.defaults[r] # 0}
    IN  IF ~task.container THEN None
        ELSE [r \in assigned |-> AdjustOrDefaultResource(defaults[r], limits[r],
                                    platform.defaults[r], platform.limits[r])]

\* The platform's configuration, or an override in place of all of it.
PlatformResources(attributes) ==
    IF attributes \in {None, Empty} THEN [defaults |-> DefaultResources, limits |-> LimitResources]
    ELSE attributes.value

-----------------------------------------------------------------------------
(* Queues.                                                                 *)

QueuesOf(tag) == {q \in DOMAIN ExecutionQueues : tag \in ExecutionQueues[q]}

\* The queues of the first tag that has any.
MatchingQueues(tags) ==
    LET known == {i \in DOMAIN tags : QueuesOf(tags[i]) # {}}
    IN  IF known = {} THEN {} ELSE QueuesOf(tags[CHOOSE i \in known : \A j \in known : i <= j])

GetQueue(attributes) ==
    LET override == IF attributes \in {None, Empty} THEN {} ELSE MatchingQueues(attributes.value)
    IN  IF override # {} THEN override
        ELSE MatchingQueues(IF DomainTags # <<>> THEN DomainTags ELSE DefaultTags)

-----------------------------------------------------------------------------
(* Settings of the request and of the launch plan.                         *)

\* 0 and None are unset.
getExecutionConfig(q, attributes) ==
    IF q.parallelism > 0 THEN q.parallelism
    ELSE IF q.kind = "plan" /\ q.plan.parallelism > 0 THEN q.plan.parallelism
    ELSE IF attributes \notin {None, Empty} THEN attributes.value
    ELSE MaxParallelism

\* The labels, or annotations, of the request or else of the launch plan; a
\* single task has none of the launch plan's.
resolveStringMap(kind, preferred, default) ==
    IF preferred # None THEN preferred
    ELSE IF kind = "plan" /\ default # None THEN default
    ELSE << >>

\* An execution that disables all notifications has an empty set of them.
notificationsSettings(q) ==
    IF q.notifications # None THEN q.notifications
    ELSE IF q.plan.notifications # None THEN q.plan.notifications ELSE {}

validateMapSize(labels) == MaxLabels # 0 => Cardinality(DOMAIN labels) <= MaxLabels

addProjectLabels(labels) == Over(labels, ProjectLabels)

resolveAuthRole(q) ==
    IF q.authRole # None THEN q.authRole
    ELSE IF q.plan.authRole # None THEN q.plan.authRole
    ELSE IF q.plan.auth # None THEN q.plan.auth
    ELSE [iamRole |-> q.plan.role, account |-> ""]

resolveSecurityCtx(q) ==
    IF q.securityCtx # None THEN q.securityCtx
    ELSE IF q.plan.securityCtx # None THEN q.plan.securityCtx
    ELSE resolveAuthRole(q)

-----------------------------------------------------------------------------
(* The FlyteWorkflow object.                                               *)

addMapValues(overrides, defaultValues) == Over(overrides, defaultValues)

\* A role that is not named is not given.
addPermissions(securityCtx, object) ==
    [object EXCEPT
        !.annotations = IF securityCtx.iamRole = "" THEN @
                        ELSE Over([k \in {RoleNameKey} |-> securityCtx.iamRole], @),
        !.serviceAccountName = securityCtx.account]

\* Resources that are not configured are not passed on.
addExecutionOverrides(plugins, parallelism, platform, object) ==
    LET Set(resources) == Restrict(resources, {r \in DOMAIN resources : resources[r] # 0})
    IN  [object EXCEPT
            !.taskPluginImpls = IF plugins \in {None, Empty} THEN << >> ELSE plugins.value,
            !.maxParallelism = parallelism,
            !.requests = Set(platform.defaults), !.limits = Set(platform.limits)]

\* The caller's annotations are written over the role's.
PrepareFlyteWorkflow(securityCtx, labels, annotations, plugins, parallelism, platform) ==
    LET built == [labels |-> BuiltLabels, annotations |-> << >>, serviceAccountName |-> "",
                  taskPluginImpls |-> << >>, maxParallelism |-> 0, requests |-> << >>, limits |-> << >>]
        permitted == addPermissions(securityCtx, built)
        labelled == [permitted EXCEPT !.labels = addMapValues(labels, @),
                                      !.annotations = addMapValues(annotations, @)]
    IN  addExecutionOverrides(plugins, parallelism, platform, labelled)

-----------------------------------------------------------------------------
(* What the settings are to be, from the requests that were acknowledged.  *)

Settled(workflow, type) == Quiet(Key(workflow, type)) /\ Quiet(Key(ProjectDomain, type))

FirstSet(layers, unset) ==
    LET set == {i \in DOMAIN layers : layers[i] # unset}
    IN  IF set = {} THEN unset ELSE layers[CHOOSE i \in set : \A j \in set : i <= j]

\* Those of the launch plan count when a launch plan is launched.
Layers(kind, own, plans) == IF kind = "plan" THEN <<own, plans>> ELSE <<own>>

TagsOf(workflow) ==
    LET override == Override(workflow, "EXECUTION_QUEUE")
    IN  (IF override = None THEN << >> ELSE override.value)
        \o (IF DomainTags # << >> THEN DomainTags ELSE DefaultTags)

\* No tag that comes before the queue's own has a queue.
IsQueueFor(queue, tags) ==
    \E i \in 1 .. Len(tags) + 1 :
        /\ \A j \in 1 .. i - 1 : QueuesOf(tags[j]) = {}
        /\ IF i > Len(tags) THEN queue = None ELSE queue \in QueuesOf(tags[i])

ExpectedLabels(q) ==
    LET own == FirstSet(Layers(q.kind, q.labels, q.plan.labels), None)
        labels == IF own = None THEN << >> ELSE own
    IN  [k \in DOMAIN labels \cup DOMAIN ProjectLabels |->
            IF k \in DOMAIN labels THEN labels[k] ELSE ProjectLabels[k]]

\* The object shows the caller's settings, and the role they run as unless
\* an annotation of the caller's has its key.
IsObjectFor(object, l) ==
    LET q == launch[l].request
        role == FirstSet(<<q.securityCtx, q.plan.securityCtx, q.authRole, q.plan.authRole, q.plan.auth>>, None)
        own == FirstSet(Layers(q.kind, q.annotations, q.plan.annotations), None)
        annotations == IF own = None THEN << >> ELSE own
        iamRole == IF role # None THEN role.iamRole ELSE q.plan.role
    IN  /\ \A k \in DOMAIN BuiltLabels \cup DOMAIN ExpectedLabels(q) :
              object.labels[k] = IF k \in DOMAIN ExpectedLabels(q) THEN ExpectedLabels(q)[k] ELSE BuiltLabels[k]
        /\ \A k \in DOMAIN annotations : object.annotations[k] = annotations[k]
        /\ iamRole # "" /\ RoleNameKey \notin DOMAIN annotations => object.annotations[RoleNameKey] = iamRole
        /\ role # None => object.serviceAccountName = role.account
        /\ object.maxParallelism = launch[l].parallelism
        /\ launch[l].plugins \notin {None, Empty} => object.taskPluginImpls = launch[l].plugins.value
        /\ \A r \in Resources : /\ r \in DOMAIN object.requests <=> launch[l].platform.defaults[r] # 0
                                /\ r \in DOMAIN object.limits => object.limits[r] = launch[l].platform.limits[r]

LabelledClusters(override) ==
    LET mine == IF override # None /\ override.value \in DOMAIN config.labels
                THEN DOMAIN config.labels[override.value] \cap enabled ELSE {}
    IN  IF mine # {} THEN mine ELSE enabled

-----------------------------------------------------------------------------
(* The steps of a launch.                                                  *)

Failures == IF faults < MaxFaults THEN BOOLEAN ELSE {FALSE}
Count(failed) == faults' = IF failed THEN faults + 1 ELSE faults

Ended == {"idle", "done", "refused", "unbuilt", "failed", "panicked"}

\* The launch goes on at pc, and the named setting is noted as wrong.
Goes(l, pc, setting, isWrong) ==
    launch' = [launch EXCEPT ![l] = [@ EXCEPT !.pc = pc,
                  !.wrong = launch[l].wrong \cup {s \in {setting} : isWrong}]]
Ends(l, how) == launch' = [launch EXCEPT ![l].pc = how]

\* The launch plan as its row gives it back.
LaunchPlanOf(q) ==
    FromLaunchPlanModel(CreateLaunchPlanModel(CreateLaunchPlan(q.plan, q.variables)))

\* The inputs of the execution: a single task's are the caller's, unchecked.
InputsOf(q) ==
    LET plan == LaunchPlanOf(q)
    IN  IF q.kind = "task" THEN q.inputs
        ELSE fetchInputsForExecution(q.inputs, plan.spec.fixedInputs, plan.expectedInputs)

Accepts(q) ==
    /\ ValidateExecutionRequest(q.inputs)
    /\ q.kind = "plan" =>
          LET plan == LaunchPlanOf(q)
          IN  checkInputsForExecution(q.inputs, plan.spec.fixedInputs, plan.expectedInputs)

\* The task and the launch plan were registered, so they were accepted then.
CreateExecution(l, q) ==
    /\ launch[l] = NotLaunched
    /\ validateTaskTemplate(q.task)
    /\ q.kind = "plan" => ValidateLaunchPlan(q.plan, q.variables)
    /\ launch' = [launch EXCEPT ![l] =
          [pc |-> IF ~Accepts(q) THEN "refused" ELSE IF q.parent = None THEN "resources" ELSE "metadata",
           request |-> q, wrong |-> {}, inputs |-> IF Accepts(q) THEN InputsOf(q) ELSE << >>,
           user |-> q.user, nesting |-> q.nesting, platform |-> None, given |-> None,
           parallelism |-> 0, plugins |-> None, cluster |-> None]]
    /\ UNCHANGED <<resourceVars, clusterVars>>

\* An execution launched by a node of another runs for the other's user, one
\* level below it.  The node's row is taken to be there with the execution's.
getInheritedExecMetadata(l) ==
    /\ launch[l].pc = "metadata"
    /\ LET source == executions[launch[l].request.parent]
       IN  IF source = None THEN Ends(l, "failed")
           ELSE launch' = [launch EXCEPT ![l] = [@ EXCEPT !.pc = "resources", !.user = source.user,
                                                          !.nesting = source.nesting + 1]]
    /\ UNCHANGED <<resourceVars, clusterVars>>

\* A failed lookup is logged and the configuration used.  An override without
\* defaults or without limits is a nil pointer, and the request panics.
getTaskResources(l) ==
    /\ launch[l].pc = "resources"
    /\ \E failed \in Failures :
         LET q == launch[l].request
             found == IF failed THEN None ELSE GetResource(q.workflow, "TASK_RESOURCE", "")
             platform == PlatformResources(found)
             wrong == /\ ~failed /\ Settled(q.workflow, "TASK_RESOURCE")
                      /\ platform # PlatformResources(Override(q.workflow, "TASK_RESOURCE"))
         IN  /\ Count(failed)
             /\ IF None \in {platform.defaults, platform.limits} THEN Ends(l, "panicked")
                ELSE launch' = [launch EXCEPT ![l] = [@ EXCEPT !.pc = "queue", !.platform = platform,
                        !.given = setCompiledTaskDefaults(q.task, platform),
                        !.wrong = {s \in {"resources"} : wrong}]]
    /\ UNCHANGED <<rows, lastId, handler, want, spoiled, workload, clusterVars>>

populateExecutionQueue(l) ==
    /\ launch[l].pc = "queue"
    /\ \E failed \in Failures :
         LET q == launch[l].request
             found == IF failed THEN None ELSE GetResource(q.workflow, "EXECUTION_QUEUE", "")
             queues == GetQueue(found)
         IN  /\ Count(failed)
             /\ \E queue \in IF queues = {} THEN {None} ELSE queues :
                   Goes(l, "config", "queue", ~failed /\ Settled(q.workflow, "EXECUTION_QUEUE")
                                              /\ ~IsQueueFor(queue, TagsOf(q.workflow)))
    /\ UNCHANGED <<rows, lastId, handler, want, spoiled, workload, clusterVars>>

\* Only the project and domain's own override is looked up.
resolveExecutionConfig(l) ==
    /\ launch[l].pc = "config"
    /\ LET q == launch[l].request
           found == GetResource(ProjectDomain, "WORKFLOW_EXECUTION_CONFIG", "")
           override == want[Key(ProjectDomain, "WORKFLOW_EXECUTION_CONFIG")]
           asked == FirstSet(Layers(q.kind, q.parallelism, q.plan.parallelism), 0)
           expected == IF asked # 0 THEN asked
                       ELSE IF override # None THEN override.value ELSE MaxParallelism
           wrong == /\ Quiet(Key(ProjectDomain, "WORKFLOW_EXECUTION_CONFIG"))
                    /\ getExecutionConfig(q, found) # expected
       IN  \/ /\ launch' = [launch EXCEPT ![l] = [@ EXCEPT !.pc = "labels",
                    !.parallelism = getExecutionConfig(q, found),
                    !.wrong = launch[l].wrong \cup {s \in {"parallelism"} : wrong}]]
              /\ UNCHANGED faults
           \/ /\ faults < MaxFaults /\ asked = 0
              /\ Ends(l, "failed") /\ faults' = faults + 1
    /\ UNCHANGED <<rows, lastId, handler, want, spoiled, workload, clusterVars>>

resolveLabels(l) ==
    /\ launch[l].pc = "labels"
    /\ LET q == launch[l].request
           labels == resolveStringMap(q.kind, q.labels, q.plan.labels)
           annotations == resolveStringMap(q.kind, q.annotations, q.plan.annotations)
       IN  IF q.kind = "plan" /\ ~(validateMapSize(labels) /\ validateMapSize(annotations))
           THEN Ends(l, "failed")
           ELSE Goes(l, "plugins", "labels", addProjectLabels(labels) # ExpectedLabels(q))
    /\ UNCHANGED <<resourceVars, clusterVars>>

\* A single task looks for the overrides of a workflow with the execution's
\* own name, so it finds the project and domain's only.
addPluginOverrides(l) ==
    /\ launch[l].pc = "plugins"
    /\ LET q == launch[l].request
           workflow == IF q.kind = "plan" THEN q.workflow ELSE q.execution
           found == GetResource(workflow, "PLUGIN_OVERRIDE", IF q.kind = "plan" THEN "plan" ELSE "")
           level == IF q.kind = "plan" THEN q.workflow ELSE ProjectDomain
           wrong == Settled(level, "PLUGIN_OVERRIDE") /\ found # Override(level, "PLUGIN_OVERRIDE")
       IN  \/ /\ launch' = [launch EXCEPT ![l] = [@ EXCEPT !.pc = "execute", !.plugins = found,
                    !.wrong = launch[l].wrong \cup {s \in {"plugins"} : wrong}]]
              /\ UNCHANGED faults
           \/ faults < MaxFaults /\ Ends(l, "failed") /\ faults' = faults + 1
    /\ UNCHANGED <<rows, lastId, handler, want, spoiled, workload, clusterVars>>

-----------------------------------------------------------------------------
(* Clusters.                                                               *)

\* The list GetTarget chooses from when it is not given a cluster: the label's,
\* unless there is none, the label is unknown or none of its clusters is enabled.
Targets(attributes) ==
    IF attributes \in {None, Empty} \/ attributes.value \notin DOMAIN config.labels THEN config.all
    ELSE LET list == getLabeledWeightedRandomForCluster(config, attributes.value)
         IN  IF DOMAIN list # {} THEN list ELSE config.all

VariantUnseeded(targets, execution, choice) == choice
Selected(targets, execution, choice) == GetWithSeed(targets, execution)

\* The target with this name, enabled or not.
VariantTargetOfAll(cluster) == GetWithSeed(config.all, "")
TargetOf(cluster) == cluster

\* The object a launch creates.
ObjectOf(l) ==
    LET q == launch[l].request
    IN  PrepareFlyteWorkflow(resolveSecurityCtx(q),
            addProjectLabels(resolveStringMap(q.kind, q.labels, q.plan.labels)),
            resolveStringMap(q.kind, q.annotations, q.plan.annotations),
            launch[l].plugins, launch[l].parallelism, launch[l].platform)

\* The compiler does not look at the inputs of a task that is given none.
Builds(l) ==
    LET q == launch[l].request
    IN  Build(q.variables, launch[l].inputs) \/ (q.kind = "task" /\ q.inputs = << >>)

\* K8sWorkflowExecutor.Execute; the workflow's name stands for the launch
\* plan's.  That the object exists already is no error.
Execute(l) ==
    /\ launch[l].pc = "execute"
    /\ Builds(l)
    /\ LET q == launch[l].request
           found == GetResource(q.workflow, "EXECUTION_CLUSTER_LABEL", q.workflow)
           targets == Targets(found)
       IN  \/ /\ \E choice \in DOMAIN targets :
                    LET cluster == Selected(targets, q.execution, choice)
                    IN  /\ crds' = crds \cup {<<q.execution, cluster>>}
                        /\ launch' = [launch EXCEPT ![l] = [@ EXCEPT !.pc = "record", !.cluster = cluster,
                              !.wrong = launch[l].wrong
                                \cup {s \in {"cluster"} :
                                   /\ Settled(q.workflow, "EXECUTION_CLUSTER_LABEL")
                                   /\ cluster \notin LabelledClusters(
                                        Override(q.workflow, "EXECUTION_CLUSTER_LABEL"))}
                                \cup {s \in {"object"} : ~IsObjectFor(ObjectOf(l), l)}]]
              /\ routed' = [routed EXCEPT ![q.execution] = @ \cup {targets}]
              /\ aborted' = aborted \ {q.execution}
              /\ UNCHANGED faults
           \/ /\ faults < MaxFaults /\ faults' = faults + 1
              /\ Ends(l, "failed")
              /\ UNCHANGED <<crds, aborted, routed>>
    /\ UNCHANGED <<rows, lastId, handler, want, spoiled, workload, config, executions>>

\* The error of the compiler is returned as it is.
BuildFails(l) ==
    /\ launch[l].pc = "execute"
    /\ ~Builds(l)
    /\ Ends(l, "unbuilt")
    /\ UNCHANGED <<resourceVars, clusterVars>>

CreateExecutionModel(l) ==
    LET q == launch[l].request
    IN  [cluster |-> launch[l].cluster, user |-> launch[l].user, nesting |-> launch[l].nesting,
         source |-> q.parent, notifications |-> notificationsSettings(q)]

\* createExecutionModel: a name that exists is refused.
Record(l) ==
    /\ launch[l].pc = "record"
    /\ LET e == launch[l].request.execution
       IN  \/ /\ executions[e] = None
              /\ executions' = [executions EXCEPT ![e] = CreateExecutionModel(l)]
              /\ Ends(l, "done")
              /\ UNCHANGED faults
           \/ executions[e] # None /\ Ends(l, "failed") /\ UNCHANGED <<executions, faults>>
           \/ /\ faults < MaxFaults /\ faults' = faults + 1
              /\ Ends(l, "failed") /\ UNCHANGED executions
    /\ UNCHANGED <<rows, lastId, handler, want, spoiled, workload, config, crds, aborted, routed>>

\* K8sWorkflowExecutor.Abort: an object that is gone already is no error.
Abort(e) ==
    /\ executions[e] # None /\ e \notin aborted
    /\ crds' = crds \ {<<e, TargetOf(executions[e].cluster)>>}
    /\ aborted' = aborted \cup {e}
    /\ UNCHANGED <<resourceVars, config, launch, executions, routed>>

\* The process ends with all it was serving, and the next one reads its own
\* configuration (getExecutionTargets): other clusters, other weights.
Restart(c) ==
    /\ faults < MaxFaults
    /\ faults' = faults + 1
    /\ config' = c
    /\ handler' = [h \in Handlers |-> Idle]
    /\ Spoil(UNION {HalfDone(h) : h \in {g \in Handlers : handler[g] # Idle}})
    /\ launch' = [l \in Launches |->
          IF launch[l].pc \in Ended THEN launch[l]
          ELSE [launch[l] EXCEPT !.pc = "failed"]]
    /\ UNCHANGED <<rows, lastId, want, workload, crds, executions, aborted, routed>>

-----------------------------------------------------------------------------
Init ==
    /\ ResourceInit
    /\ config = workload.config
    /\ launch = [l \in Launches |-> NotLaunched]
    /\ crds = {}
    /\ executions = [e \in Executions |-> None]
    /\ aborted = {}
    /\ routed = [e \in Executions |-> {}]

LaunchStep(l) ==
    \/ \E q \in workload.launches[l] : CreateExecution(l, q)
    \/ getInheritedExecMetadata(l)
    \/ getTaskResources(l)
    \/ populateExecutionQueue(l)
    \/ resolveExecutionConfig(l)
    \/ resolveLabels(l)
    \/ addPluginOverrides(l)
    \/ Execute(l)
    \/ BuildFails(l)
    \/ Record(l)

Next ==
    \/ ResourceNext /\ UNCHANGED <<launch, clusterVars>>
    \/ \E l \in Launches : LaunchStep(l)
    \/ \E e \in Executions : Abort(e)
    \/ \E c \in Configurations : Restart(c)

Spec == Init /\ [][Next]_vars

-----------------------------------------------------------------------------
\* An execution is launched with the settings the acknowledged requests call
\* for: the request's own, then its launch plan's, then the most specific
\* override, then the platform's configuration, whatever else is written in
\* between.  Not covered are an override whose own updates overlapped or
\* failed, a lookup that failed and is only logged, the workflow's own
\* override of the parallelism, and a single task's workflow overrides.
OverridesApply == \A l \in Launches : launch[l] # NotLaunched => launch[l].wrong = {}

\* A launch plan that was accepted can be launched: the caller who binds what
\* it leaves open, and the schedule that binds its time, are not refused, by
\* the platform or by the compiler, and every input has the fixed value, or
\* else the caller's, or else the default.  A launch plan that both fixes an
\* input and gives it a default is refused whoever launches it.  Two kinds of
\* schedule never launch what was accepted with them: a cronSchedule for which
\* more than the time is left open, as validateSchedule does not look at it, and
\* a rate of the native scheduler, which binds no time, when the time is required.
Unlaunchable(q) ==
    LET schedule == q.plan.schedule
        expected == fetchExpectedInputs(q.variables, q.plan.fixedInputs, q.plan.defaultInputs)
        arg      == schedule.kickoffTimeInputArg
    IN  \/ schedule.expression = "cronSchedule" /\ ~LeavesOnlyTheTime(schedule, expected)
        \/ /\ q.scheduler = "native" /\ schedule.expression = "rate"
           /\ arg \in DOMAIN expected /\ expected[arg].required
InputsAreBound ==
    \A l \in Launches : launch[l] # NotLaunched /\ launch[l].request.kind = "plan" =>
        LET q == launch[l].request
            launchable == Launchable(q.plan, q.variables, q.inputs)
        IN  /\ launch[l].pc # "unbuilt"
            /\ BoundTwice(q.plan) = {} =>
                  /\ launch[l].pc = "refused" <=> ~launchable
                  /\ q.scheduler # None => (launchable <=> ~Unlaunchable(q))
            /\ launch[l].pc # "refused" =>
                  /\ DOMAIN launch[l].inputs = DOMAIN q.variables
                  /\ \A name \in DOMAIN q.variables :
                        launch[l].inputs[name] = InputFor(name, q.plan, q.inputs)

\* What registration accepted is what the launch gives: under the platform's
\* own limits a task gets the whole quantities it requested, and under any
\* override requests stay within limits and limits within the platform's.
\* The task's storage is left out, which no launch passes on.
TasksFit ==
    \A l \in Launches : launch[l] # NotLaunched /\ launch[l].given # None =>
        LET task == launch[l].request.task
            given == launch[l].given
            platform == launch[l].platform
            whole(r) == /\ isWholeNumber(task.requests[r]) /\ isWholeNumber(LimitResources[r])
                        /\ r \in DOMAIN task.limits => isWholeNumber(task.limits[r])
        IN  /\ \A r \in DOMAIN given :
                  /\ given[r].request <= given[r].limit
                  /\ platform.limits[r] # 0 => given[r].limit <= platform.limits[r]
            /\ ~task.sidecar /\ platform.limits = LimitResources =>
                  \A r \in DOMAIN task.requests \ {"storage"} :
                      whole(r) /\ task.requests[r] # 0 => given[r].request = task.requests[r]

\* However often a launch is retried, an execution's workflow objects are on
\* one cluster, and on the one its row names: the execution's name seeds the
\* choice.  Not so once the list it is chosen from has changed in between: the
\* label, the clusters enabled for it, or their weights.
OneCluster ==
    \A e \in Executions : AtMostOne(routed[e]) =>
        LET on == {c \in Clusters : <<e, c>> \in crds}
        IN  /\ AtMostOne(on)
            /\ executions[e] # None => on \subseteq {executions[e].cluster}

\* An acknowledged abort leaves no object of the execution on any cluster,
\* though its cluster may have been disabled, or given another weight, since; an
\* object that a launch left elsewhere, when the list had changed, stays.
AbortStops ==
    \A e \in aborted : AtMostOne(routed[e]) => \A c \in Clusters : <<e, c>> \notin crds

=============================================================================

-------------------------- MODULE NodeTaskExecution --------------------------
(***************************************************************************)
(* The nodes and tasks of one workflow execution: CreateNodeEvent and      *)
(* CreateTaskExecutionEvent, which flytepropeller calls as a node or task  *)
(* goes through its phases, the rows they keep, and what the read requests *)
(* make of the rows.                                                       *)
(*                                                                         *)
(* The engine reports the phases of a node, and those of a task, in order, *)
(* and waits for each answer.  It sends an event again when the answer is  *)
(* an error or does not come in time, so that requests it has given up on  *)
(* may still be at work; and it may find the node in a later phase before  *)
(* it sends again, and report that one instead.                            *)
(***************************************************************************)
EXTENDS Integers, Sequences, Functions

CONSTANTS Nodes, Tasks,
          Scenarios,    \* what the engine is about to report, and the configuration
          MaxSizeInBytes,      \* the limit on data in requests and responses
          DefaultProducerID,   \* the producer that old engines name
          ParentNode,   \* the parent node of each node, or None
          ParentTask,   \* the parent task of each node, or None
          TaskNode,     \* the node of each task
          Handlers,
          MaxFaults,    \* bound on calls that fail and answers that are late
          None

Entities == Nodes \cup Tasks

\* An event: its phase, the version of the phase, when it occurred, the cluster
\* it comes from; whether it carries a dynamic workflow; its target, None, a
\* "workflow" execution it has launched or a "catalog" entry; the reference of
\* its inputs; its outputs, None, [uri] or [data], data being given by their
\* size; and, of a task, links to its logs, [uri, name], and custom information,
\* None or a function in which None is JSON's null.
\*
\* A scenario: the events of each node and task, in order; the cluster of the
\* execution; the size of each object the engine has stored; and three settings:
\* outputs are stored inline, URLs are signed, the blob store is local.

ASSUME DisjointAssumption == Nodes \cap Tasks = {}
ASSUME NoneAssumption == None \notin Entities \cup Handlers
ASSUME ParentAssumption ==
    /\ ParentNode \in [Nodes -> Nodes \cup {None}]
    /\ ParentTask \in [Nodes -> Tasks \cup {None}]
    /\ TaskNode \in [Tasks -> Nodes]
ASSUME SizeAssumption == MaxSizeInBytes \in Nat

IsTerminal(phase) == phase \in {"SUCCEEDED", "FAILED"}

\* The references of a row to the blob store.
ClosureReference(n) == <<"closure", n>>
OutputsReference(x) == <<"outputs", x>>

\* A terminal phase is the last to be reported, and where several phases are,
\* it is; the engine has stored what it refers to, and not where this program
\* stores.
ASSUME PlanAssumption ==
    \A s \in Scenarios : \A x \in Entities :
       LET events == s.events[x]
       IN  /\ events \in Seq(Range(events))
           /\ \A i \in DOMAIN events :
                 /\ events[i].phase \in {"QUEUED", "RUNNING", "SUCCEEDED", "FAILED"}
                 /\ events[i].version \in Nat /\ events[i].at \in Nat
                 /\ events[i].dynamic \in BOOLEAN
                 /\ events[i].target \in {None, "workflow", "catalog"}
                 /\ events[i].inputs \in DOMAIN s.stored \cup {None}
                 /\ events[i].outputs \in {None} \cup [uri: DOMAIN s.stored] \cup [data: Nat]
                 /\ IsTerminal(events[i].phase) => i = Len(events)
           /\ Len(events) > 1 => IsTerminal(events[Len(events)].phase)
ASSUME StoreAssumption ==
    \A s \in Scenarios :
       /\ s.stored \in [DOMAIN s.stored -> Nat]
       /\ \A x \in Entities :
             ClosureReference(x) \notin DOMAIN s.stored /\ OutputsReference(x) \notin DOMAIN s.stored
ASSUME OutputsAssumption ==
    \A s \in Scenarios :
       LET references == DOMAIN s.stored \cup {OutputsReference(x) : x \in Entities}
       IN  None \notin references \cup [uri: references] \cup [data: Nat]

VARIABLES scenario,   \* the scenario
          row,        \* the tables node_executions and task_executions: those that have one
          blobs,      \* the sizes of the objects in the blob store
          launched,   \* the nodes whose launched execution is in its table
          emitted,    \* the last event handed to the event writer and the publisher
          handler,    \* the requests at work
          client,     \* the engine: the next event and the request it waits for
          faults,     \* failed calls and late answers so far
          tainted     \* history: entities an event of which was lost in a race

vars == <<scenario, row, blobs, launched, emitted, handler, client, faults, tainted>>

Plan == scenario.events

Idle == [pc |-> "idle"]

Init ==
    /\ scenario \in Scenarios
    /\ row = <<>>
    /\ blobs = scenario.stored
    /\ launched = {}
    /\ emitted = [x \in Entities |-> None]
    /\ handler = [h \in Handlers |-> Idle]
    /\ client = [x \in Entities |-> [next |-> 1, waits |-> None, failed |-> FALSE]]
    /\ faults = 0
    /\ tainted = {}

-----------------------------------------------------------------------------
(* The rows and the functions that compute them.                           *)

\* Variant that leaves the start time of the column alone.
VariantStartOfClosure(e, r) == [r EXCEPT !.closure.startedAt = e.at]

\* The start is noted in the column and in the closure.
addNodeRunningState(e, r) == [r EXCEPT !.startedAt = e.at, !.closure.startedAt = e.at]

\* Outputs that come with the event are stored in the row, or in the blob store
\* where the row refers to them.
OutputsOf(x, e, outputs) ==
    IF e.outputs = None THEN outputs
    ELSE IF "uri" \in DOMAIN e.outputs \/ scenario.inline THEN e.outputs
    ELSE [uri |-> OutputsReference(x)]

addTerminalState(n, e, r) == [r EXCEPT !.closure.outputs = OutputsOf(n, e, @)]

\* The state of a node's phase.
NodeState(n, e, r) ==
    IF e.phase = "RUNNING" THEN addNodeRunningState(e, r)
    ELSE IF IsTerminal(e.phase) THEN addTerminalState(n, e, r) ELSE r

\* What a node row records: the columns phase, input_uri, started_at and
\* dynamic_workflow_remote_closure_reference, the parents and the closure.
CreateNodeExecutionModel(n, e) ==
    NodeState(n, e, [phase |-> e.phase, startedAt |-> None, inputs |-> e.inputs,
                     dynamic    |-> IF e.dynamic THEN ClosureReference(n) ELSE None,
                     parentNode |-> ParentNode[n], parentTask |-> ParentTask[n],
                     closure    |-> [startedAt |-> None, outputs |-> None, target |-> None]])

UpdateNodeExecutionModel(n, r, e) ==
    NodeState(n, e, [r EXCEPT !.phase = e.phase,
                              !.dynamic = IF e.dynamic THEN ClosureReference(n) ELSE None,
                              !.closure.target = IF e.target = None THEN @ ELSE e.target])

\* gorm's Updates leaves a column alone whose new value is zero.
Updates(old, new) ==
    [new EXCEPT !.startedAt = IF @ = None THEN old.startedAt ELSE @,
                !.dynamic   = IF @ = None THEN old.dynamic ELSE @]

\* A log is replaced by one of the same address or of the same name.
VariantLogsByName(existing, latest) ==
    latest \o SelectSeq(existing, LAMBDA log : \A new \in Range(latest) : new.name # log.name)
mergeLogs(existing, latest) ==
    latest \o SelectSeq(existing, LAMBDA log :
        \A new \in Range(latest) :
            new.uri # log.uri /\ (new.name = "" \/ new.name # log.name))

\* The latest information is merged as a JSON patch, whose nulls remove keys.
mergeCustom(existing, latest) ==
    IF existing = None THEN latest
    ELSE IF latest = None THEN existing
    ELSE [k \in {l \in DOMAIN existing \cup DOMAIN latest : l \in DOMAIN latest => latest[l] # None} |->
            IF k \in DOMAIN latest THEN latest[k] ELSE existing[k]]

\* The start is noted in the column and in the closure.
addTaskStartedState(e, r) == [r EXCEPT !.startedAt = e.at, !.closure.startedAt = e.at]

\* The closure takes the start from the column, and the outputs by reference.
addTaskTerminalState(t, e, r) ==
    [r EXCEPT !.closure.startedAt = IF r.startedAt = None THEN @ ELSE r.startedAt,
              !.closure.outputs = OutputsOf(t, e, @)]

CreateTaskExecutionModel(t, e) ==
    LET new == [phase |-> e.phase, version |-> e.version, startedAt |-> None,
                inputs |-> e.inputs,
                closure |-> [startedAt |-> None, outputs |-> None, logs |-> e.logs, custom |-> e.custom]]
    IN  IF e.phase = "RUNNING" THEN addTaskStartedState(e, new)
        ELSE IF IsTerminal(e.phase) THEN addTaskTerminalState(t, e, new) ELSE new

\* A task starts once: when it goes from queued to running.
UpdateTaskExecutionModel(t, r, e) ==
    LET new == [r EXCEPT !.phase = e.phase, !.version = e.version,
                         !.closure.logs = mergeLogs(@, e.logs),
                         !.closure.custom = mergeCustom(@, e.custom)]
    IN  IF r.phase = "QUEUED" /\ e.phase = "RUNNING" THEN addTaskStartedState(e, new)
        ELSE IF IsTerminal(e.phase) THEN addTaskTerminalState(t, e, new) ELSE new

-----------------------------------------------------------------------------
(* The engine.                                                             *)

Event(x) == Plan[x][client[x].next]

ValidateOutputData(e) ==
    e.outputs # None /\ "data" \in DOMAIN e.outputs => e.outputs.data <= MaxSizeInBytes

\* Identifiers and times are there in all events of the engine.
ValidateTaskExecutionRequest(e) == ValidateOutputData(e)

ValidateCluster(recordedCluster, cluster) ==
    cluster \in {None, DefaultProducerID, recordedCluster}

\* CreateNodeEvent validates its request as well, and goes on if it is invalid.
Validates(x, e) ==
    /\ x \in Tasks => ValidateTaskExecutionRequest(e)
    /\ ValidateCluster(scenario.cluster, e.producer)

\* A request: the entity and its event.
Send(x, h) ==
    /\ handler[h] = Idle
    /\ client[x].waits = None /\ client[x].next <= Len(Plan[x])
    /\ handler' = [handler EXCEPT ![h] =
         [pc |-> IF ~Validates(x, Event(x)) THEN "refuse"
                 ELSE IF Event(x).dynamic THEN "upload" ELSE "get", x |-> x, e |-> Event(x)]]
    /\ client' = [client EXCEPT ![x].waits = h]
    /\ UNCHANGED <<row, blobs, launched, emitted, faults, tainted>>

\* The engine stops waiting; the request goes on.
Timeout(x) ==
    /\ client[x].waits # None
    /\ faults < MaxFaults
    /\ faults' = faults + 1
    /\ client' = [client EXCEPT ![x].waits = None, ![x].failed = TRUE]
    /\ UNCHANGED <<row, blobs, launched, emitted, handler, tainted>>

\* The engine finds the node in a later phase than the one it has not been able
\* to report.
Skip(x) ==
    /\ client[x].waits = None /\ client[x].failed /\ client[x].next < Len(Plan[x])
    /\ client' = [client EXCEPT ![x] = [next |-> @.next + 1, waits |-> None, failed |-> FALSE]]
    /\ UNCHANGED <<row, blobs, launched, emitted, handler, faults, tainted>>

\* The launch a node makes, which succeeds at some time.
LaunchChild(n) ==
    /\ n \notin launched
    /\ \E i \in DOMAIN Plan[n] : Plan[n][i].target = "workflow"
    /\ launched' = launched \cup {n}
    /\ UNCHANGED <<row, blobs, emitted, handler, client, faults, tainted>>

\* A request returns.  The engine goes on to the next event when the event was
\* recorded or is said to have been.
Answer(h, answer) ==
    LET x == handler[h].x
    IN  /\ handler' = [handler EXCEPT ![h] = Idle]
        /\ client' = IF client[x].waits # h THEN client
                     ELSE IF answer = "error" THEN [client EXCEPT ![x].waits = None, ![x].failed = TRUE]
                     ELSE [client EXCEPT ![x] = [next |-> @.next + 1, waits |-> None,
                                                 failed |-> FALSE]]

-----------------------------------------------------------------------------
(* The handlers.                                                           *)

\* The request is not valid.
Refuse(h) ==
    /\ handler[h].pc = "refuse"
    /\ Answer(h, "error")
    /\ UNCHANGED <<row, blobs, launched, emitted, faults, tainted>>

\* The blob store after a write.
Written(reference, size) ==
    [o \in DOMAIN blobs \cup {reference} |-> IF o = reference THEN size ELSE blobs[o]]

\* The dynamic workflow is uploaded, to a place that depends on the node and the
\* workflow.
uploadDynamicWorkflowClosure(h) ==
    /\ handler[h].pc = "upload"
    /\ blobs' = Written(ClosureReference(handler[h].x), 1)
    /\ handler' = [handler EXCEPT ![h].pc = "get"]
    /\ UNCHANGED <<row, launched, emitted, client, faults, tainted>>

\* Variant that looks at the phases of nodes only.
RecordedNode(x, r, e) == x \in Nodes /\ r.phase = e.phase

\* The phase has been recorded already.
Recorded(x, r, e) ==
    r.phase = e.phase /\ (x \in Tasks => r.version >= e.version)

\* Variant that lets a terminal row go on.
RefusedNever(x, r, e) == FALSE

\* "Cannot go from a terminal state to anything else"
Refused(x, r, e) == IsTerminal(r.phase)

\* Get: without a row it is created, unless the event is refused it is updated.
Get(h) ==
    LET x == handler[h].x
        e == handler[h].e
        r == row[x]
    IN  /\ handler[h].pc = "get"
        /\ UNCHANGED <<row, blobs, launched, emitted, faults, tainted>>
        /\ \/ /\ x \notin DOMAIN row
              /\ handler' = [handler EXCEPT ![h].pc = "create"]
              /\ UNCHANGED client
           \/ /\ x \in DOMAIN row /\ Recorded(x, r, e)
              /\ Answer(h, "exists")
           \/ /\ x \in DOMAIN row /\ ~Recorded(x, r, e) /\ Refused(x, r, e)
              /\ Answer(h, "terminal")
           \/ /\ x \in DOMAIN row /\ ~Recorded(x, r, e) /\ ~Refused(x, r, e)
              /\ handler' = [handler EXCEPT ![h] = [pc |-> "update", x |-> x, e |-> e, read |-> r]]
              /\ UNCHANGED client

\* Variant that leaves the outputs to the client.
OffloadNothing(x, e) == blobs' = blobs

\* The outputs of a terminal event go to the blob store before the row does.
OffloadOutputs(x, e) ==
    blobs' = IF /\ IsTerminal(e.phase) /\ ~scenario.inline
                /\ e.outputs # None /\ "data" \in DOMAIN e.outputs
             THEN Written(OutputsReference(x), e.outputs.data) ELSE blobs

\* Variant that does not look for the parents of a node.
ParentsNotRead(n) == TRUE

\* The parent task and node of a node are read before it is created.
ParentsExist(n) ==
    /\ ParentTask[n] # None => ParentTask[n] \in DOMAIN row
    /\ ParentNode[n] # None => ParentNode[n] \in DOMAIN row

createNodeExecutionWithEvent(h) ==
    LET n == handler[h].x
        e == handler[h].e
    IN  /\ handler[h].pc = "create" /\ n \in Nodes
        /\ UNCHANGED <<row, launched, emitted, faults, tainted>>
        /\ \/ /\ ParentsExist(n)
              /\ OffloadOutputs(n, e)
              /\ handler' = [handler EXCEPT ![h] =
                   [pc |-> "insert", x |-> n, e |-> e, new |-> CreateNodeExecutionModel(n, e)]]
              /\ UNCHANGED client
           \/ /\ ~ParentsExist(n)
              /\ Answer(h, "error")
              /\ UNCHANGED blobs

\* The node of a task has to exist.
createTaskExecution(h) ==
    LET t == handler[h].x
        e == handler[h].e
    IN  /\ handler[h].pc = "create" /\ t \in Tasks
        /\ UNCHANGED <<row, launched, emitted, faults, tainted>>
        /\ \/ /\ TaskNode[t] \in DOMAIN row
              /\ OffloadOutputs(t, e)
              /\ handler' = [handler EXCEPT ![h] =
                   [pc |-> "insert", x |-> t, e |-> e, new |-> CreateTaskExecutionModel(t, e)]]
              /\ UNCHANGED client
           \/ /\ TaskNode[t] \notin DOMAIN row
              /\ Answer(h, "error")
              /\ UNCHANGED blobs

\* The insert fails where another request has been faster, with AlreadyExists
\* although the phase of the row may be another one.
Create(h) ==
    LET x == handler[h].x
        e == handler[h].e
    IN  /\ handler[h].pc = "insert"
        /\ UNCHANGED <<blobs, launched, emitted, faults>>
        /\ \/ /\ x \notin DOMAIN row
              /\ row' = [y \in DOMAIN row \cup {x} |-> IF y = x THEN handler[h].new ELSE row[y]]
              /\ handler' = [handler EXCEPT ![h] = [pc |-> "emit", x |-> x, e |-> e, new |-> TRUE]]
              /\ UNCHANGED <<client, tainted>>
           \/ /\ x \in DOMAIN row
              /\ Answer(h, "exists")
              /\ tainted' = IF row[x].phase = e.phase THEN tainted ELSE tainted \cup {x}
              /\ UNCHANGED row

\* An execution the node has launched has to exist.
updateNodeExecutionWithEvent(h) ==
    LET n == handler[h].x
        e == handler[h].e
    IN  /\ handler[h].pc = "update" /\ n \in Nodes
        /\ UNCHANGED <<row, launched, emitted, faults, tainted>>
        /\ \/ /\ e.target = "workflow" => n \in launched
              /\ OffloadOutputs(n, e)
              /\ handler' = [handler EXCEPT ![h] =
                   [pc |-> "save", x |-> n, e |-> e, read |-> @.read,
                    new |-> UpdateNodeExecutionModel(n, @.read, e)]]
              /\ UNCHANGED client
           \/ /\ e.target = "workflow" /\ n \notin launched
              /\ Answer(h, "error")
              /\ UNCHANGED blobs

updateTaskExecutionModelState(h) ==
    LET t == handler[h].x
        e == handler[h].e
    IN  /\ handler[h].pc = "update" /\ t \in Tasks
        /\ OffloadOutputs(t, e)
        /\ handler' = [handler EXCEPT ![h] =
             [pc |-> "save", x |-> t, e |-> e, read |-> @.read,
              new |-> UpdateTaskExecutionModel(t, @.read, e)]]
        /\ UNCHANGED <<row, launched, emitted, client, faults, tainted>>

\* The row is written without a look at what it is now: the columns of a node
\* that are not zero, all those of a task.
Update(h) ==
    LET x == handler[h].x
    IN  /\ handler[h].pc = "save"
        /\ row' = [row EXCEPT ![x] = IF x \in Nodes THEN Updates(@, handler[h].new)
                                     ELSE handler[h].new]
        /\ tainted' = IF row[x] = handler[h].read THEN tainted ELSE tainted \cup {x}
        /\ handler' = [handler EXCEPT ![h] =
             [pc |-> "emit", x |-> x, e |-> handler[h].e, new |-> FALSE]]
        /\ UNCHANGED <<blobs, launched, emitted, client, faults>>

\* The event is handed on, but for the first event of a task.
IsPublished(x, created) == ~(x \in Tasks /\ created)

Emit(h) ==
    LET x == handler[h].x
    IN  /\ handler[h].pc = "emit"
        /\ emitted' = IF IsPublished(x, handler[h].new)
                      THEN [emitted EXCEPT ![x] = handler[h].e] ELSE emitted
        /\ Answer(h, "ok")
        /\ UNCHANGED <<row, blobs, launched, faults, tainted>>

\* A call to the database or to the blob store fails, or the process dies.
Fail(h) ==
    /\ handler[h] # Idle
    /\ faults < MaxFaults
    /\ faults' = faults + 1
    /\ Answer(h, "error")
    /\ UNCHANGED <<row, blobs, launched, emitted, tainted>>

Step(h) ==
    \/ Refuse(h) \/ uploadDynamicWorkflowClosure(h) \/ Get(h)
    \/ createNodeExecutionWithEvent(h) \/ createTaskExecution(h) \/ Create(h)
    \/ updateNodeExecutionWithEvent(h) \/ updateTaskExecutionModelState(h)
    \/ Update(h) \/ Emit(h)

Next ==
    /\ \/ \E x \in Entities : Timeout(x) \/ Skip(x) \/ \E h \in Handlers : Send(x, h)
       \/ \E n \in Nodes : LaunchChild(n)
       \/ \E h \in Handlers : Step(h) \/ Fail(h)
    /\ UNCHANGED scenario

Spec == Init /\ [][Next]_vars

-----------------------------------------------------------------------------
(* The read requests.                                                      *)

NodeRows == Nodes \cap DOMAIN row
TaskRows == Tasks \cap DOMAIN row

\* A row is read with the nodes that have it as parent.
NodeModel(n) ==
    [id |-> n, inputs |-> row[n].inputs, closure |-> row[n].closure,
     children |-> {m \in NodeRows : row[m].parentNode = n}]
TaskModel(t) ==
    [id |-> t, inputs |-> row[t].inputs, closure |-> row[t].closure,
     children |-> {m \in NodeRows : row[m].parentTask = t}]

\* What is shown of it.
FromNodeExecutionModel(r) ==
    [id |-> r.id, inputs |-> r.inputs, closure |-> r.closure, isParentNode |-> r.children # {}]
FromTaskExecutionModel(r) ==
    [id |-> r.id, inputs |-> r.inputs, closure |-> r.closure, isParent |-> r.children # {}]

GetNodeExecution(n) == FromNodeExecutionModel(NodeModel(n))
GetTaskExecution(t) == FromTaskExecutionModel(TaskModel(t))

\* The children of a node or, without one, the nodes that have no parent.
ListNodeExecutions(parent) ==
    {GetNodeExecution(n) : n \in
        IF parent = None
        THEN {n \in NodeRows : row[n].parentNode = None /\ row[n].parentTask = None}
        ELSE {n \in NodeRows : row[n].parentNode = parent}}

ListNodeExecutionsForTask(t) ==
    {GetNodeExecution(n) : n \in {n \in NodeRows : row[n].parentTask = t}}

ListTaskExecutions(n) ==
    {GetTaskExecution(t) : t \in {t \in TaskRows : TaskNode[t] = n}}

Stored(reference) == reference \in DOMAIN blobs

\* The size of an object is known if its URL is signed.
Bytes(reference) == IF scenario.signed THEN blobs[reference] ELSE 0

shouldFetchData(bytes) == scenario.local \/ MaxSizeInBytes = 0 \/ bytes < MaxSizeInBytes

\* An object is read if it may be; a failure to sign its URL fails the request.
GetInputs(reference) ==
    IF reference = None THEN [ok |-> TRUE, full |-> 0]
    ELSE IF scenario.signed /\ ~Stored(reference) THEN [ok |-> FALSE]
    ELSE [ok |-> TRUE,
          full |-> IF shouldFetchData(Bytes(reference)) /\ Stored(reference)
                   THEN blobs[reference] ELSE 0]

GetOutputs(outputs) ==
    IF outputs # None /\ "data" \in DOMAIN outputs
    THEN [ok |-> TRUE, full |-> IF outputs.data < MaxSizeInBytes THEN outputs.data ELSE 0]
    ELSE GetInputs(IF outputs = None THEN None ELSE outputs.uri)

\* The dynamic workflow has to be read.
GetNodeExecutionData(n) ==
    LET inputs  == GetInputs(GetNodeExecution(n).inputs)
        outputs == GetOutputs(GetNodeExecution(n).closure.outputs)
    IN  IF ~inputs.ok \/ ~outputs.ok \/ (row[n].dynamic # None /\ ~Stored(row[n].dynamic))
        THEN [ok |-> FALSE]
        ELSE [ok |-> TRUE, fullInputs |-> inputs.full, fullOutputs |-> outputs.full]

GetTaskExecutionData(t) ==
    LET inputs  == GetInputs(GetTaskExecution(t).inputs)
        outputs == GetOutputs(GetTaskExecution(t).closure.outputs)
    IN  IF ~inputs.ok \/ ~outputs.ok THEN [ok |-> FALSE]
        ELSE [ok |-> TRUE, fullInputs |-> inputs.full, fullOutputs |-> outputs.full]

GetData(x) == IF x \in Nodes THEN GetNodeExecutionData(x) ELSE GetTaskExecutionData(x)

-----------------------------------------------------------------------------

Ids(executions) == {execution.id : execution \in executions}

\* Whoever starts from the nodes without a parent, and asks for the tasks of
\* each node found and for the children of the nodes and tasks that say they
\* have some, finds every node: ListNodeExecutions, ListTaskExecutions and
\* ListNodeExecutionsForTask leave none out, since a node is created after its
\* parents and a task after its node (no foreign key demands it).
EveryNodeIsListed ==
    \A found \in SUBSET NodeRows :
       /\ Ids(ListNodeExecutions(None)) \subseteq found
       /\ \A n \in found :
             /\ GetNodeExecution(n).isParentNode =>
                   Ids(ListNodeExecutions(n)) \subseteq found
             /\ \A t \in ListTaskExecutions(n) : t.isParent =>
                   Ids(ListNodeExecutionsForTask(t.id)) \subseteq found
       => found = NodeRows

\* Both places of the start time agree, or the closure has none (an event that
\* started before the node ran has been written after): addTerminalState finds
\* the column set when it computes a duration from it.
StartTimesAgree ==
    /\ \A n \in NodeRows : row[n].closure.startedAt \in {None, row[n].startedAt}
    /\ \A t \in TaskRows : row[t].closure.startedAt = row[t].startedAt

\* The size of the outputs that the event of the row's terminal phase carried.
Reported(x, i) ==
    LET outputs == Plan[x][i].outputs
    IN  IF outputs = None THEN 0
        ELSE IF "uri" \in DOMAIN outputs THEN scenario.stored[outputs.uri] ELSE outputs.data

\* What a row refers to is there: GetNodeExecutionData and GetTaskExecutionData
\* answer for every row, however the requests that uploaded its data and wrote
\* it interleave or fail, and serve the outputs that came with the last phase,
\* if they are smaller than the limit.  (Outputs of just the limit's size are
\* accepted by ValidateOutputData, and not served when they are stored inline.)
DataIsServed ==
    \A x \in DOMAIN row :
       /\ GetData(x).ok
       /\ IsTerminal(row[x].phase) => \E i \in DOMAIN Plan[x] :
             /\ Plan[x][i].phase = row[x].phase
             /\ \/ GetData(x).fullOutputs = Reported(x, i)
                \/ Reported(x, i) >= MaxSizeInBytes

\* Once the engine has reported the last phase of a node or task, and the
\* requests it gave up on are over, the row shows that phase: duplicates, late
\* events and failures do not matter.  Two races are the exceptions: a request
\* writes the row another has written since it read it, or its insert fails
\* because another event has created the row.
Converges ==
    \A x \in {y \in Entities \ tainted : Plan[y] # <<>>} :
       /\ client[x].next > Len(Plan[x])
       /\ \A h \in Handlers : handler[h] = Idle \/ handler[h].x # x
       => /\ x \in DOMAIN row
          /\ row[x].phase = Plan[x][Len(Plan[x])].phase

\* Within a phase of a task the version does not go back, and a terminal phase
\* stays, unless a request writes over another's row: the checks of
\* CreateTaskExecutionEvent and updateNodeExecutionWithEvent on a row just read.
ProgressUnlessStale ==
    [][\A x \in DOMAIN row : row'[x] # row[x] /\ x \notin tainted' =>
          /\ ~IsTerminal(row[x].phase)
          /\ x \in Tasks /\ row'[x].phase = row[x].phase =>
                row'[x].version > row[x].version]_vars

\* Updates accumulate what the events carry.  A node that has a dynamic workflow
\* keeps it, although UpdateNodeExecutionModel clears the reference with every
\* event that carries none.  The logs of a task have addresses of their own, and
\* a log or a key of the custom information that was there is there after an
\* update, replaced by the event's or as it was, unless the event removes the
\* key or a request writes over another's row.
ReportedIsKept ==
    [][/\ \A n \in NodeRows : row[n].dynamic # None =>
             row'[n].dynamic = row[n].dynamic
       /\ \A t \in TaskRows : row'[t] # row[t] /\ t \notin tainted' =>
             LET old == row[t].closure
                 new == row'[t].closure
             IN  /\ \A i, j \in DOMAIN new.logs : i # j => new.logs[i].uri # new.logs[j].uri
                 /\ \A log \in Range(old.logs) : \E link \in Range(new.logs) :
                       link.uri = log.uri \/ (log.name # "" /\ link.name = log.name)
                 /\ old.custom # None => new.custom # None
                 /\ old.custom # None => \A k \in DOMAIN old.custom :
                       \/ k \in DOMAIN new.custom
                       \/ \E i \in DOMAIN Plan[t] : LET custom == Plan[t][i].custom
                            IN custom # None /\ k \in DOMAIN custom /\ custom[k] = None]_vars

=============================================================================

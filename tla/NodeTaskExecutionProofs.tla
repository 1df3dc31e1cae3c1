----------------------- MODULE NodeTaskExecutionProofs -----------------------
(***************************************************************************)
(* What the rows of nodes and tasks show is right, for any number of       *)
(* nodes, tasks, requests and faults, and any events: the inductive        *)
(* invariant, what it rests on (the functions that compute rows, the       *)
(* growth of the blob store, what a request may do, what the read requests *)
(* make of a row), one lemma for each step, and the theorems.              *)
(***************************************************************************)
EXTENDS NodeTaskExecution, TLAPS

-----------------------------------------------------------------------------
(* The inductive invariant.                                                *)

Events == UNION {Range(Plan[x]) : x \in Entities}

Reading == [pc: {"refuse", "upload", "get", "create"}, x: Entities, e: Events]

\* The rows as records.
NodeRecord(phase, startedAt, inputs, dynamic, parentNode, parentTask, start, outputs, target) ==
    [phase |-> phase, startedAt |-> startedAt, inputs |-> inputs, dynamic |-> dynamic,
     parentNode |-> parentNode, parentTask |-> parentTask,
     closure |-> [startedAt |-> start, outputs |-> outputs, target |-> target]]
TaskRecord(phase, version, startedAt, inputs, start, outputs, logs, custom) ==
    [phase |-> phase, version |-> version, startedAt |-> startedAt, inputs |-> inputs,
     closure |-> [startedAt |-> start, outputs |-> outputs, logs |-> logs, custom |-> custom]]

NodeForm(r) ==
    r = NodeRecord(r.phase, r.startedAt, r.inputs, r.dynamic, r.parentNode, r.parentTask,
                   r.closure.startedAt, r.closure.outputs, r.closure.target)
TaskForm(r) ==
    r = TaskRecord(r.phase, r.version, r.startedAt, r.inputs, r.closure.startedAt,
                   r.closure.outputs, r.closure.logs, r.closure.custom)

TypeOK ==
    /\ scenario \in Scenarios
    /\ DOMAIN row \subseteq Entities /\ row = [x \in DOMAIN row |-> row[x]]
    /\ blobs = [o \in DOMAIN blobs |-> blobs[o]]
    /\ handler = [h \in Handlers |-> handler[h]]
    /\ client \in [Entities -> [next: Nat \ {0}, waits: Handlers \cup {None}, failed: BOOLEAN]]

\* A request is about an event of the plan, and is in one of the states of the
\* handlers.
States ==
    {"idle", "refuse", "upload", "get", "create", "insert", "update", "save", "emit"}
Serves(p) ==
    /\ p.pc \in States
    /\ p.pc = "idle" => p = Idle
    /\ p.pc \in {"refuse", "upload", "get", "create"} => p \in Reading
    /\ p.pc # "idle" => p.x \in Entities /\ \E i \in DOMAIN Plan[p.x] : p.e = Plan[p.x][i]

\* The engine waits for a request with the next event.
Waits ==
    \A x \in Entities : LET h == client[x].waits IN
       h # None =>
          /\ client[x].next \in DOMAIN Plan[x]
          /\ handler[h].pc # "idle" /\ handler[h].x = x /\ handler[h].e = Event(x)

LastEvent(x) == Plan[x][Len(Plan[x])]

\* A row of x: its start times agree, its phase and its parents are as planned.
StartsAgree(x, r) ==
    /\ x \in Nodes => NodeForm(r) /\ r.closure.startedAt \in {None, r.startedAt}
    /\ x \in Tasks => TaskForm(r) /\ r.closure.startedAt = r.startedAt
Planned(x, r) ==
    /\ \E i \in DOMAIN Plan[x] : r.phase = Plan[x][i].phase
    /\ x \in Nodes => r.parentNode = ParentNode[x] /\ r.parentTask = ParentTask[x]
    /\ x \in Tasks => r.version \in Nat

\* What it refers to is stored, and its outputs are those of the last phase.
Refers(x, r) ==
    /\ r.inputs \in DOMAIN scenario.stored \cup {None}
    /\ x \in Nodes => /\ r.dynamic \in {None, ClosureReference(x)}
                      /\ r.dynamic # None => Stored(r.dynamic)
    /\ IsTerminal(r.phase) => /\ r.closure.outputs = OutputsOf(x, LastEvent(x), None)
                              /\ r.closure.outputs = [uri |-> OutputsReference(x)] =>
                                    Stored(OutputsReference(x))
    /\ ~IsTerminal(r.phase) => r.closure.outputs = None

Good(x, r) == StartsAgree(x, r) /\ Planned(x, r) /\ Refers(x, r)

Rows == \A x \in DOMAIN row : Good(x, row[x])

\* What a request has read and what it is about to write.
Carries(p) ==
    /\ p.pc \in {"get", "create", "update"} /\ p.e.dynamic => Stored(ClosureReference(p.x))
    /\ p.pc \in {"update", "save"} =>
          /\ p.x \in DOMAIN row /\ Good(p.x, p.read)
          /\ ~IsTerminal(p.read.phase) /\ ~Recorded(p.x, p.read, p.e)
    /\ p.pc \in {"insert", "save"} => Good(p.x, p.new) /\ p.new.phase = p.e.phase
    /\ p.pc = "save" /\ p.x \in Tasks => p.new.version = p.e.version
    /\ p.pc = "emit" => p.x \in DOMAIN row

\* The blob store has what the engine has stored, and the outputs of last phases.
Store ==
    /\ \A o \in DOMAIN scenario.stored : Stored(o) /\ blobs[o] = scenario.stored[o]
    /\ \A x \in Entities : Stored(OutputsReference(x)) =>
          blobs[OutputsReference(x)] = LastEvent(x).outputs.data

\* A node is created after its parents, and a task after its node.
Placed(x) ==
    /\ x \in Nodes => ParentsExist(x)
    /\ x \in Tasks => TaskNode[x] \in DOMAIN row
Ordered ==
    /\ \A x \in DOMAIN row : Placed(x)
    /\ \A h \in Handlers : handler[h].pc = "insert" => Placed(handler[h].x)

\* The row shows the last phase, once that has been recorded or found recorded.
Final(x) == x \in DOMAIN row /\ row[x].phase = LastEvent(x).phase
Concluded ==
    \A x \in Entities \ tainted :
       /\ client[x].next > Len(Plan[x]) /\ Plan[x] # <<>> => Final(x)
       /\ \A h \in Handlers :
             handler[h].pc = "emit" /\ handler[h].x = x /\ handler[h].e = LastEvent(x) => Final(x)

IInv ==
    /\ TypeOK /\ Waits /\ Rows /\ Store /\ Ordered /\ Concluded
    /\ \A h \in Handlers : Serves(handler[h]) /\ Carries(handler[h])

-----------------------------------------------------------------------------
(* The plan and the functions that compute rows.                           *)

LEMMA PlanFacts ==
    ASSUME TypeOK, NEW x \in Entities
    PROVE  /\ Len(Plan[x]) \in Nat /\ DOMAIN Plan[x] = 1 .. Len(Plan[x])
           /\ \A i \in DOMAIN Plan[x] : LET e == Plan[x][i] IN
                 /\ e.phase \in {"QUEUED", "RUNNING", "SUCCEEDED", "FAILED"}
                 /\ e.version \in Nat
                 /\ e.inputs \in DOMAIN scenario.stored \cup {None}
                 /\ e.outputs \in {None} \cup [uri: DOMAIN scenario.stored] \cup [data: Nat]
                 /\ IsTerminal(e.phase) => e = LastEvent(x)
           /\ Len(Plan[x]) > 1 => IsTerminal(LastEvent(x).phase)
<1>. DEFINE events == scenario.events[x]
<1>1. /\ events \in Seq(Range(events))
      /\ \A i \in DOMAIN events :
            /\ events[i].phase \in {"QUEUED", "RUNNING", "SUCCEEDED", "FAILED"}
            /\ events[i].version \in Nat
            /\ events[i].inputs \in DOMAIN scenario.stored \cup {None}
            /\ events[i].outputs \in {None} \cup [uri: DOMAIN scenario.stored] \cup [data: Nat]
            /\ IsTerminal(events[i].phase) => i = Len(events)
      /\ Len(events) > 1 => IsTerminal(events[Len(events)].phase)
  BY PlanAssumption, Zenon DEF TypeOK
<1>2. Len(events) \in Nat /\ DOMAIN events = 1 .. Len(events)
  BY <1>1
<1>. QED  BY <1>1, <1>2, Zenon DEF Plan, LastEvent

LEMMA NodeFields ==
    ASSUME NEW a, NEW b, NEW c, NEW d, NEW f, NEW g, NEW i, NEW j, NEW k, NEW r,
           r = NodeRecord(a, b, c, d, f, g, i, j, k)
    PROVE  /\ NodeForm(r)
           /\ r.phase = a /\ r.startedAt = b /\ r.inputs = c /\ r.dynamic = d
           /\ r.parentNode = f /\ r.parentTask = g
           /\ r.closure.startedAt = i /\ r.closure.outputs = j /\ r.closure.target = k
<1>1. /\ r.phase = a /\ r.startedAt = b /\ r.inputs = c /\ r.dynamic = d
      /\ r.parentNode = f /\ r.parentTask = g
      /\ r.closure.startedAt = i /\ r.closure.outputs = j /\ r.closure.target = k
  BY Zenon DEF NodeRecord
<1>. QED  BY <1>1, Zenon DEF NodeForm

LEMMA TaskFields ==
    ASSUME NEW a, NEW b, NEW c, NEW d, NEW i, NEW j, NEW k, NEW l, NEW r,
           r = TaskRecord(a, b, c, d, i, j, k, l)
    PROVE  /\ TaskForm(r)
           /\ r.phase = a /\ r.version = b /\ r.startedAt = c /\ r.inputs = d
           /\ r.closure.startedAt = i /\ r.closure.outputs = j
           /\ r.closure.logs = k /\ r.closure.custom = l
<1>1. /\ r.phase = a /\ r.version = b /\ r.startedAt = c /\ r.inputs = d
      /\ r.closure.startedAt = i /\ r.closure.outputs = j
      /\ r.closure.logs = k /\ r.closure.custom = l
  BY Zenon DEF TaskRecord
<1>. QED  BY <1>1, Zenon DEF TaskForm

\* The state of a phase, for a row made of its fields.
LEMMA NodeStateOf ==
    ASSUME NEW n, NEW e, NEW b, NEW c, NEW d, NEW f, NEW g, NEW i, NEW j, NEW k,
           i \in {None, b},
           NEW m, m = NodeRecord(e.phase, b, c, d, f, g, i, j, k),
           NEW r, r = NodeState(n, e, m)
    PROVE  /\ NodeForm(r)
           /\ r.phase = e.phase /\ r.inputs = c /\ r.dynamic = d
           /\ r.parentNode = f /\ r.parentTask = g
           /\ r.closure.startedAt \in {None, r.startedAt}
           /\ r.closure.outputs = IF IsTerminal(e.phase) THEN OutputsOf(n, e, j) ELSE j
<1>1. CASE e.phase = "RUNNING"
  <2>1. r = NodeRecord(e.phase, e.at, c, d, f, g, e.at, j, k)
    BY <1>1, Zenon DEF NodeState, addNodeRunningState, NodeRecord
  <2>. QED  BY <1>1, <2>1, NodeFields DEF IsTerminal
<1>2. CASE IsTerminal(e.phase)
  <2>. PICK o : o = OutputsOf(n, e, j)
    BY Zenon
  <2>1. r = NodeRecord(e.phase, b, c, d, f, g, i, o, k)
    BY <1>2, Zenon DEF NodeState, IsTerminal, addTerminalState, NodeRecord
  <2>. QED  BY <1>2, <2>1, NodeFields
<1>3. CASE e.phase # "RUNNING" /\ ~IsTerminal(e.phase)
  <2>1. r = NodeRecord(e.phase, b, c, d, f, g, i, j, k)
    BY <1>3, Zenon DEF NodeState
  <2>. QED  BY <1>3, <2>1, NodeFields
<1>. QED  BY <1>1, <1>2, <1>3, Zenon

LEMMA NodeCreated ==
    ASSUME NEW n, NEW e, NEW r, r = CreateNodeExecutionModel(n, e)
    PROVE  /\ NodeForm(r)
           /\ r.phase = e.phase /\ r.inputs = e.inputs
           /\ r.parentNode = ParentNode[n] /\ r.parentTask = ParentTask[n]
           /\ r.dynamic = IF e.dynamic THEN ClosureReference(n) ELSE None
           /\ r.closure.startedAt \in {None, r.startedAt}
           /\ r.closure.outputs = IF IsTerminal(e.phase) THEN OutputsOf(n, e, None) ELSE None
<1>. PICK d : d = IF e.dynamic THEN ClosureReference(n) ELSE None
  BY Zenon
<1>. PICK m : m = NodeRecord(e.phase, None, e.inputs, d, ParentNode[n], ParentTask[n],
                             None, None, None)
  BY Zenon
<1>1. r = NodeState(n, e, m)
  BY Zenon DEF CreateNodeExecutionModel, NodeRecord
<1>. QED  BY <1>1, NodeStateOf

LEMMA NodeUpdated ==
    ASSUME NEW n, NEW e, NEW old, NodeForm(old), old.closure.startedAt \in {None, old.startedAt},
           NEW r, r = UpdateNodeExecutionModel(n, old, e)
    PROVE  /\ NodeForm(r)
           /\ r.phase = e.phase /\ r.inputs = old.inputs
           /\ r.parentNode = old.parentNode /\ r.parentTask = old.parentTask
           /\ r.dynamic = IF e.dynamic THEN ClosureReference(n) ELSE None
           /\ r.closure.startedAt \in {None, r.startedAt}
           /\ r.closure.outputs = IF IsTerminal(e.phase) THEN OutputsOf(n, e, old.closure.outputs)
                                  ELSE old.closure.outputs
<1>1. PICK a, b, c, l, f, g, i, j, k : old = NodeRecord(a, b, c, l, f, g, i, j, k)
  BY Zenon DEF NodeForm
<1>2. /\ old.startedAt = b /\ old.inputs = c /\ old.parentNode = f /\ old.parentTask = g
      /\ old.closure.startedAt = i /\ old.closure.outputs = j /\ old.closure.target = k
  BY <1>1, NodeFields
<1>. PICK d : d = IF e.dynamic THEN ClosureReference(n) ELSE None
  BY Zenon
<1>. PICK t : t = IF e.target = None THEN k ELSE e.target
  BY Zenon
<1>3. r = NodeState(n, e, NodeRecord(e.phase, b, c, d, f, g, i, j, t))
  <2>1. [old EXCEPT !.phase = e.phase, !.dynamic = d, !.closure.target = t]
        = NodeRecord(e.phase, b, c, d, f, g, i, j, t)
    <3>. PICK m : m = [old EXCEPT !.phase = e.phase, !.dynamic = d]
      BY Zenon
    <3>1. m = NodeRecord(e.phase, b, c, d, f, g, i, j, k)
      BY <1>1, Zenon DEF NodeRecord
    <3>2. [NodeRecord(e.phase, b, c, d, f, g, i, j, k) EXCEPT !.closure.target = t]
          = NodeRecord(e.phase, b, c, d, f, g, i, j, t)
      BY DEF NodeRecord
    <3>. QED  BY <3>1, <3>2, Zenon
  <2>2. r = NodeState(n, e, [old EXCEPT !.phase = e.phase, !.dynamic = d, !.closure.target = t])
    BY <1>2, Zenon DEF UpdateNodeExecutionModel
  <2>. QED  BY <2>1, <2>2, Zenon
<1>4. i \in {None, b}
  BY <1>2, Zenon
<1>5. /\ NodeForm(r)
      /\ r.phase = e.phase /\ r.inputs = c /\ r.dynamic = d
      /\ r.parentNode = f /\ r.parentTask = g
      /\ r.closure.startedAt \in {None, r.startedAt}
      /\ r.closure.outputs = IF IsTerminal(e.phase) THEN OutputsOf(n, e, j) ELSE j
  <2>. PICK m : m = NodeRecord(e.phase, b, c, d, f, g, i, j, t)
    BY Zenon
  <2>. QED  BY <1>3, <1>4, NodeStateOf
<1>. QED  BY <1>2, <1>5, Zenon

\* A row written over another keeps what it has, and the start and the dynamic
\* workflow of the other where it has none.
LEMMA NodeWritten ==
    ASSUME NEW old, NEW new, NodeForm(new), new.closure.startedAt \in {None, new.startedAt},
           NEW r, r = Updates(old, new)
    PROVE  /\ NodeForm(r)
           /\ r.phase = new.phase /\ r.inputs = new.inputs
           /\ r.parentNode = new.parentNode /\ r.parentTask = new.parentTask
           /\ r.dynamic = IF new.dynamic = None THEN old.dynamic ELSE new.dynamic
           /\ r.closure.startedAt \in {None, r.startedAt}
           /\ r.closure.outputs = new.closure.outputs
<1>1. PICK a, b, c, l, f, g, i, j, k : new = NodeRecord(a, b, c, l, f, g, i, j, k)
  BY Zenon DEF NodeForm
<1>2. /\ new.phase = a /\ new.startedAt = b /\ new.inputs = c /\ new.dynamic = l
      /\ new.parentNode = f /\ new.parentTask = g
      /\ new.closure.startedAt = i /\ new.closure.outputs = j
  BY <1>1, NodeFields
<1>. PICK d : d = IF l = None THEN old.dynamic ELSE l
  BY Zenon
<1>. PICK t : t = IF b = None THEN old.startedAt ELSE b
  BY Zenon
<1>3. r = NodeRecord(a, t, c, d, f, g, i, j, k)
  BY <1>1, <1>2, Zenon DEF Updates, NodeRecord
<1>. QED  BY <1>2, <1>3, NodeFields

\* The state of a task's phase, for a row made of its fields.
LEMMA TaskEnded ==
    ASSUME NEW t, NEW e, NEW a, NEW b, NEW c, NEW d, NEW j, NEW k, NEW l,
           NEW r, r = addTaskTerminalState(t, e, TaskRecord(a, b, c, d, c, j, k, l))
    PROVE  r = TaskRecord(a, b, c, d, c, OutputsOf(t, e, j), k, l)
<1>. PICK o : o = OutputsOf(t, e, j)
  BY Zenon
<1>. QED  BY Zenon DEF addTaskTerminalState, TaskRecord

LEMMA TaskStarted ==
    ASSUME NEW e, NEW a, NEW b, NEW c, NEW d, NEW i, NEW j, NEW k, NEW l,
           NEW r, r = addTaskStartedState(e, TaskRecord(a, b, c, d, i, j, k, l))
    PROVE  r = TaskRecord(a, b, e.at, d, e.at, j, k, l)
BY Zenon DEF addTaskStartedState, TaskRecord

LEMMA TaskCreated ==
    ASSUME NEW t, NEW e, NEW r, r = CreateTaskExecutionModel(t, e)
    PROVE  /\ TaskForm(r)
           /\ r.phase = e.phase /\ r.version = e.version /\ r.inputs = e.inputs
           /\ r.closure.startedAt = r.startedAt
           /\ r.closure.outputs = IF IsTerminal(e.phase) THEN OutputsOf(t, e, None) ELSE None
<1>. PICK new : new = TaskRecord(e.phase, e.version, None, e.inputs, None, None, e.logs, e.custom)
  BY Zenon
<1>1. r = IF e.phase = "RUNNING" THEN addTaskStartedState(e, new)
          ELSE IF IsTerminal(e.phase) THEN addTaskTerminalState(t, e, new) ELSE new
  BY Zenon DEF CreateTaskExecutionModel, TaskRecord
<1>2. CASE e.phase = "RUNNING"
  BY <1>1, <1>2, TaskStarted, TaskFields DEF IsTerminal
<1>3. CASE IsTerminal(e.phase)
  BY <1>1, <1>3, TaskEnded, TaskFields DEF IsTerminal
<1>4. CASE e.phase # "RUNNING" /\ ~IsTerminal(e.phase)
  BY <1>1, <1>4, TaskFields
<1>. QED  BY <1>2, <1>3, <1>4, Zenon

LEMMA TaskUpdated ==
    ASSUME NEW t, NEW e, NEW old, TaskForm(old), old.closure.startedAt = old.startedAt,
           NEW r, r = UpdateTaskExecutionModel(t, old, e)
    PROVE  /\ TaskForm(r)
           /\ r.phase = e.phase /\ r.version = e.version /\ r.inputs = old.inputs
           /\ r.closure.startedAt = r.startedAt
           /\ r.closure.outputs = IF IsTerminal(e.phase) THEN OutputsOf(t, e, old.closure.outputs)
                                  ELSE old.closure.outputs
<1>1. PICK a, b, c, d, i, j, k, l : old = TaskRecord(a, b, c, d, i, j, k, l)
  BY Zenon DEF TaskForm
<1>2. /\ old.phase = a /\ old.inputs = d /\ old.startedAt = c /\ i = c
      /\ old.closure.outputs = j /\ old.closure.logs = k /\ old.closure.custom = l
  BY <1>1, TaskFields
<1>. PICK m : m = mergeLogs(k, e.logs)
  BY Zenon
<1>. PICK q : q = mergeCustom(l, e.custom)
  BY Zenon
<1>. PICK new : new = TaskRecord(e.phase, e.version, c, d, c, j, m, q)
  BY Zenon
<1>3. [old EXCEPT !.phase = e.phase, !.version = e.version,
                  !.closure.logs = mergeLogs(@, e.logs),
                  !.closure.custom = mergeCustom(@, e.custom)] = new
  <2>1. [old EXCEPT !.phase = e.phase, !.version = e.version, !.closure.logs = m,
                    !.closure.custom = q] = new
    <3>. PICK x : x = [old EXCEPT !.phase = e.phase, !.version = e.version]
      BY Zenon
    <3>. PICK y : y = [x EXCEPT !.closure.logs = m]
      BY Zenon
    <3>1. x = TaskRecord(e.phase, e.version, c, d, i, j, k, l)
      BY <1>1, Zenon DEF TaskRecord
    <3>2. [TaskRecord(e.phase, e.version, c, d, i, j, k, l) EXCEPT !.closure.logs = m]
          = TaskRecord(e.phase, e.version, c, d, i, j, m, l)
      BY DEF TaskRecord
    <3>3. [TaskRecord(e.phase, e.version, c, d, i, j, m, l) EXCEPT !.closure.custom = q]
          = TaskRecord(e.phase, e.version, c, d, i, j, m, q)
      BY DEF TaskRecord
    <3>4. y = TaskRecord(e.phase, e.version, c, d, i, j, m, l)
      BY <3>1, <3>2, Zenon
    <3>5. [y EXCEPT !.closure.custom = q] = new
      BY <1>2, <3>3, <3>4, Zenon
    <3>. QED  BY <3>5, Zenon
  <2>. QED  BY <1>2, <2>1, Zenon
<1>4. r = IF a = "QUEUED" /\ e.phase = "RUNNING" THEN addTaskStartedState(e, new)
          ELSE IF IsTerminal(e.phase) THEN addTaskTerminalState(t, e, new) ELSE new
  BY <1>2, <1>3 DEF UpdateTaskExecutionModel
<1>5. CASE a = "QUEUED" /\ e.phase = "RUNNING"
  BY <1>2, <1>4, <1>5, TaskStarted, TaskFields DEF IsTerminal
<1>6. CASE IsTerminal(e.phase)
  BY <1>2, <1>4, <1>6, TaskEnded, TaskFields DEF IsTerminal
<1>7. CASE ~(a = "QUEUED" /\ e.phase = "RUNNING") /\ ~IsTerminal(e.phase)
  BY <1>2, <1>4, <1>7, TaskFields
<1>. QED  BY <1>5, <1>6, <1>7, Zenon

-----------------------------------------------------------------------------
(* What steps have in common.                                              *)

\* Nothing is deleted.
Steady ==
    /\ UNCHANGED scenario
    /\ DOMAIN blobs \subseteq DOMAIN blobs' /\ DOMAIN row \subseteq DOMAIN row'
    /\ tainted \subseteq tainted'

LEMMA GoodStays ==
    ASSUME Steady, NEW x, NEW r, Good(x, r)
    PROVE  Good(x, r)'
<1>1. StartsAgree(x, r)'
  BY Zenon DEF Good, StartsAgree
<1>2. Planned(x, r)'
  BY Zenon DEF Good, Planned, Steady, Plan
<1>3. Refers(x, r)'
  BY Zenon DEF Good, Refers, Steady, Plan, Stored, OutputsOf, LastEvent
<1>. QED  BY <1>1, <1>2, <1>3, Zenon DEF Good

LEMMA ServesStays ==
    ASSUME Steady, NEW p, Serves(p)
    PROVE  Serves(p)'
BY Zenon DEF Serves, Steady, Plan, Reading, Events

LEMMA CarriesStays ==
    ASSUME Steady, NEW p, Carries(p)
    PROVE  Carries(p)'
<1>1. \A x, r : Good(x, r) => Good(x, r)'
  BY GoodStays, Zenon
<1>. QED  BY <1>1, Zenon DEF Carries, Steady, Stored, Recorded

LEMMA PlacedStays ==
    ASSUME Steady, NEW x, Placed(x)
    PROVE  Placed(x)'
BY Zenon DEF Placed, ParentsExist, Steady

\* The request h becomes q.
Becomes(h, q) == handler' = [handler EXCEPT ![h] = q]

LEMMA BecomesFacts ==
    ASSUME TypeOK, NEW h \in Handlers, NEW q, Becomes(h, q)
    PROVE  /\ handler'[h] = q /\ \A g \in Handlers : g # h => handler'[g] = handler[g]
           /\ handler' = [g \in Handlers |-> handler'[g]]
BY Zenon DEF TypeOK, Becomes

LEMMA RequestsStay ==
    ASSUME IInv, Steady, NEW h \in Handlers, NEW q, Becomes(h, q), Serves(q)', Carries(q)'
    PROVE  \A g \in Handlers : Serves(handler[g])' /\ Carries(handler[g])'
<1>. SUFFICES ASSUME NEW g \in Handlers PROVE Serves(handler[g])' /\ Carries(handler[g])'
  BY Zenon
<1>. PICK p : p = handler[g]
  BY Zenon
<1>1. CASE g = h
  <2>1. handler'[g] = q
    BY <1>1, BecomesFacts, Zenon DEF IInv
  <2>. QED  BY <2>1, Zenon
<1>2. CASE g # h
  <2>1. handler'[g] = p
    BY <1>2, BecomesFacts, Zenon DEF IInv
  <2>2. Serves(p) /\ Carries(p)
    BY Zenon DEF IInv
  <2>3. Serves(p)' /\ Carries(p)'
    BY <2>2, ServesStays, CarriesStays, Zenon
  <2>. QED  BY <2>1, <2>3, Zenon
<1>. QED  BY <1>1, <1>2, Zenon

\* What the engine goes past has been recorded.
KeepsFinal == \A x \in Entities \ tainted' : Final(x) => Final(x)'
Advances ==
    \A x \in Entities \ tainted' :
       client'[x].next = client[x].next \/ client'[x].next <= Len(Plan[x]) \/ Final(x)'

LEMMA ConcludedStays ==
    ASSUME IInv, Steady, KeepsFinal, Advances, NEW h \in Handlers, NEW q, Becomes(h, q),
           TypeOK',
           q.pc = "emit" /\ q.e = LastEvent(q.x) /\ q.x \notin tainted' => Final(q.x)'
    PROVE  Concluded'
<1>1. /\ handler'[h] = q /\ \A g \in Handlers : g # h => handler'[g] = handler[g]
      /\ Plan' = Plan /\ \A x : LastEvent(x)' = LastEvent(x)
  BY BecomesFacts, Zenon DEF IInv, Steady, Plan, LastEvent
<1>. SUFFICES ASSUME NEW x \in Entities \ tainted'
              PROVE  /\ client'[x].next > Len(Plan[x]) /\ Plan[x] # <<>> => Final(x)'
                     /\ \A g \in Handlers :
                           handler'[g].pc = "emit" /\ handler'[g].x = x
                           /\ handler'[g].e = LastEvent(x) => Final(x)'
  BY <1>1, Zenon DEF Concluded
<1>2. x \in Entities \ tainted
  BY Zenon DEF Steady
<1>3. ASSUME client'[x].next > Len(Plan[x]), Plan[x] # <<>> PROVE Final(x)'
  <2>1. client'[x].next \in Nat /\ Len(Plan[x]) \in Nat
    BY PlanFacts, Zenon DEF IInv, TypeOK
  <2>2. CASE client'[x].next = client[x].next
    BY <1>2, <1>3, <2>2, Zenon DEF IInv, Concluded, KeepsFinal
  <2>. QED  BY <1>3, <2>1, <2>2 DEF Advances
<1>4. ASSUME NEW g \in Handlers, handler'[g].pc = "emit", handler'[g].x = x,
             handler'[g].e = LastEvent(x)
      PROVE  Final(x)'
  <2>1. CASE g = h
    BY <1>1, <1>4, <2>1, Zenon
  <2>2. CASE g # h
    BY <1>1, <1>2, <1>4, <2>2, Zenon DEF IInv, Concluded, KeepsFinal
  <2>. QED  BY <2>1, <2>2, Zenon
<1>. QED  BY <1>3, <1>4, Zenon

\* The rows stay as they are.
LEMMA SameRows ==
    ASSUME IInv, Steady, UNCHANGED row
    PROVE  Rows' /\ KeepsFinal
<1>1. ASSUME NEW x \in DOMAIN row' PROVE Good(x, row[x])'
  <2>. PICK r : r = row[x]
    BY Zenon
  <2>1. Good(x, r)
    BY <1>1, Zenon DEF IInv, Rows
  <2>2. Good(x, r)'
    BY <2>1, GoodStays, Zenon
  <2>. QED  BY <2>2, Zenon
<1>2. KeepsFinal
  BY Zenon DEF KeepsFinal, Final, Steady, LastEvent, Plan
<1>. QED  BY <1>1, <1>2, Zenon DEF Rows

LEMMA OrderedStays ==
    ASSUME IInv, Steady, NEW h \in Handlers, NEW q, Becomes(h, q),
           q.pc = "insert" => Placed(q.x),
           \A x \in DOMAIN row' : x \in DOMAIN row \/ Placed(x)
    PROVE  Ordered'
<1>1. \A x \in DOMAIN row' : Placed(x)'
  BY PlacedStays, Zenon DEF IInv, Ordered
<1>2. ASSUME NEW g \in Handlers, handler'[g].pc = "insert" PROVE Placed(handler[g].x)'
  <2>. PICK x : x = handler'[g].x
    BY Zenon
  <2>1. Placed(x)
    BY <1>2, BecomesFacts, Zenon DEF IInv, Ordered
  <2>2. Placed(x)'
    BY <2>1, PlacedStays, Zenon
  <2>. QED  BY <2>2, Zenon
<1>. QED  BY <1>1, <1>2, Zenon DEF Ordered

LEMMA SameStore ==
    ASSUME IInv, UNCHANGED <<scenario, blobs>>
    PROVE  Store'
BY Zenon DEF IInv, Store, Stored, LastEvent, Plan

-----------------------------------------------------------------------------
(* A request returns, goes on, or writes.                                  *)

LEMMA IdleIsRight == Serves(Idle)' /\ Carries(Idle)'
BY Zenon DEF Serves, Carries, Idle, States

\* A success is right for the last event only when the row shows its phase.
LEMMA AnswerRight ==
    ASSUME IInv, NEW h \in Handlers, NEW answer, handler[h].pc # "idle", Answer(h, answer),
           UNCHANGED scenario, NEW x, x = handler[h].x,
           answer = "error" \/ (handler[h].e = LastEvent(x) /\ x \notin tainted' => Final(x)')
    PROVE  /\ Becomes(h, Idle) /\ Waits' /\ Advances
           /\ client' \in [Entities -> [next: Nat \ {0}, waits: Handlers \cup {None},
                                        failed: BOOLEAN]]
<1>. PICK e : e = handler[h].e
  BY Zenon
<1>1. /\ x \in Entities /\ Plan' = Plan
      /\ client \in [Entities -> [next: Nat \ {0}, waits: Handlers \cup {None}, failed: BOOLEAN]]
  BY Zenon DEF IInv, Serves, Plan, TypeOK
<1>2. /\ handler' = [handler EXCEPT ![h] = Idle]
      /\ client' = IF client[x].waits # h THEN client
                   ELSE IF answer = "error" THEN [client EXCEPT ![x].waits = None, ![x].failed = TRUE]
                   ELSE [client EXCEPT ![x] = [next |-> @.next + 1, waits |-> None,
                                               failed |-> FALSE]]
  BY Zenon DEF Answer
<1>3. client' \in [Entities -> [next: Nat \ {0}, waits: Handlers \cup {None}, failed: BOOLEAN]]
  BY <1>1, <1>2
<1>4. /\ \A y \in Entities : y # x => client'[y] = client[y]
      /\ client[x].waits # h => client'[x] = client[x]
      /\ client[x].waits = h =>
            /\ client'[x].waits = None
            /\ client'[x].next = IF answer = "error" THEN client[x].next ELSE client[x].next + 1
  BY <1>1, <1>2, Zenon
<1>5. Becomes(h, Idle)
  BY <1>2, Zenon DEF Becomes
<1>6. \A g \in Handlers : g # h => handler'[g] = handler[g]
  BY <1>5, BecomesFacts, Zenon DEF IInv
<1>7. Waits'
  <2>. SUFFICES ASSUME NEW y \in Entities, NEW g \in Handlers, client'[y].waits = g, g # None
                PROVE  /\ client'[y].next \in DOMAIN Plan[y]
                       /\ handler'[g].pc # "idle" /\ handler'[g].x = y
                       /\ handler'[g].e = Plan[y][client'[y].next]
    BY <1>1, <1>3 DEF Waits, Event
  <2>1. client'[y] = client[y]
    BY <1>4, Zenon
  <2>2. /\ client[y].next \in DOMAIN Plan[y]
        /\ handler[g].pc # "idle" /\ handler[g].x = y /\ handler[g].e = Plan[y][client[y].next]
    BY <2>1, Zenon DEF IInv, Waits, Event
  <2>3. g # h
    BY <1>4, <2>1, <2>2, Zenon
  <2>. QED  BY <1>6, <2>1, <2>2, <2>3, Zenon
<1>8. Advances
  <2>. SUFFICES ASSUME NEW y \in Entities \ tainted', client'[y].next # client[y].next
                PROVE  client'[y].next <= Len(Plan[y]) \/ Final(y)'
    BY Zenon DEF Advances
  <2>1. y = x /\ client[x].waits = h /\ client'[x].next = client[x].next + 1 /\ answer # "error"
    BY <1>4, Zenon
  <2>2. client[x].next \in DOMAIN Plan[x] /\ e = Plan[x][client[x].next]
    BY <1>1, <2>1, NoneAssumption DEF IInv, Waits, Event
  <2>3. client[x].next = Len(Plan[x]) => e = LastEvent(x)
    BY <2>2, Zenon DEF LastEvent
  <2>4. client[x].next \in 1 .. Len(Plan[x]) /\ Len(Plan[x]) \in Nat
    BY <1>1, <2>2, PlanFacts, Zenon DEF IInv
  <2>. QED  BY <2>1, <2>3, <2>4
<1>. QED  BY <1>3, <1>5, <1>7, <1>8, Zenon

LEMMA Returns ==
    ASSUME IInv, NEW h \in Handlers, NEW answer, handler[h].pc # "idle", Answer(h, answer),
           UNCHANGED <<scenario, row, blobs>>, tainted \subseteq tainted',
           \/ answer = "error"
           \/ handler[h].e = LastEvent(handler[h].x) /\ handler[h].x \notin tainted' =>
                 Final(handler[h].x)
    PROVE  IInv'
<1>. PICK x : x = handler[h].x
  BY Zenon
<1>1. Steady
  BY Zenon DEF Steady
<1>2. answer = "error" \/ (handler[h].e = LastEvent(x) /\ x \notin tainted' => Final(x)')
  BY Zenon DEF Final, LastEvent, Plan
<1>3. /\ Becomes(h, Idle) /\ Waits' /\ Advances
      /\ client' \in [Entities -> [next: Nat \ {0}, waits: Handlers \cup {None}, failed: BOOLEAN]]
  BY <1>2, AnswerRight, Zenon
<1>4. Rows' /\ KeepsFinal /\ Store'
  BY <1>1, SameRows, SameStore, Zenon
<1>5. TypeOK'
  BY <1>3, BecomesFacts, Zenon DEF IInv, TypeOK
<1>6. Ordered'
  BY <1>1, <1>3, OrderedStays, Zenon DEF Idle
<1>7. Concluded'
  BY <1>1, <1>3, <1>4, <1>5, ConcludedStays, Zenon DEF Idle
<1>8. \A g \in Handlers : Serves(handler[g])' /\ Carries(handler[g])'
  BY <1>1, <1>3, IdleIsRight, RequestsStay, Zenon
<1>. QED  BY <1>3, <1>4, <1>5, <1>6, <1>7, <1>8, Zenon DEF IInv

LEMMA WaitsStay ==
    ASSUME IInv, NEW h \in Handlers, NEW q, Becomes(h, q), UNCHANGED <<client, scenario>>,
           q.pc # "idle", q.x = handler[h].x, q.e = handler[h].e
    PROVE  Waits'
<1>. SUFFICES ASSUME NEW y \in Entities, NEW g \in Handlers, client[y].waits = g, g # None
              PROVE  /\ client[y].next \in DOMAIN Plan[y]
                     /\ handler'[g].pc # "idle" /\ handler'[g].x = y
                     /\ handler'[g].e = Plan[y][client[y].next]
  BY DEF IInv, TypeOK, Waits, Event, Plan
<1>1. /\ client[y].next \in DOMAIN Plan[y]
      /\ handler[g].pc # "idle" /\ handler[g].x = y /\ handler[g].e = Plan[y][client[y].next]
  BY Zenon DEF IInv, Waits, Event
<1>2. handler'[h] = q /\ \A k \in Handlers : k # h => handler'[k] = handler[k]
  BY BecomesFacts, Zenon DEF IInv
<1>. QED  BY <1>1, <1>2, Zenon

LEMMA Continues ==
    ASSUME IInv, NEW h \in Handlers, NEW q, Becomes(h, q), UNCHANGED client, Steady,
           q.pc # "idle", q.x = handler[h].x, q.e = handler[h].e, Serves(q), Carries(q)',
           row' = [x \in DOMAIN row' |-> row'[x]], blobs' = [o \in DOMAIN blobs' |-> blobs'[o]],
           DOMAIN row' \subseteq Entities, Rows', Store', KeepsFinal,
           q.pc = "insert" => Placed(q.x),
           \A x \in DOMAIN row' : x \in DOMAIN row \/ Placed(x),
           q.pc = "emit" /\ q.e = LastEvent(q.x) /\ q.x \notin tainted' => Final(q.x)'
    PROVE  IInv'
<1>1. TypeOK'
  BY BecomesFacts, Zenon DEF IInv, TypeOK, Steady
<1>2. Waits'
  BY WaitsStay, Zenon DEF Steady
<1>3. Advances
  BY Zenon DEF Advances
<1>4. Concluded'
  BY <1>1, <1>3, ConcludedStays, Zenon
<1>5. Ordered'
  BY OrderedStays, Zenon
<1>6. Serves(q)'
  BY ServesStays, Zenon
<1>7. \A g \in Handlers : Serves(handler[g])' /\ Carries(handler[g])'
  BY <1>6, RequestsStay, Zenon
<1>. QED  BY <1>1, <1>2, <1>4, <1>5, <1>7, Zenon DEF IInv

\* The rows stay as they are, and the blob store may grow.
LEMMA Prepares ==
    ASSUME IInv, NEW h \in Handlers, NEW q, Becomes(h, q), UNCHANGED <<client, row, scenario, tainted>>,
           DOMAIN blobs \subseteq DOMAIN blobs', blobs' = [o \in DOMAIN blobs' |-> blobs'[o]], Store',
           q.pc \notin {"idle", "emit"}, q.x = handler[h].x, q.e = handler[h].e,
           Serves(q), Carries(q)', q.pc = "insert" => Placed(q.x)
    PROVE  IInv'
<1>1. Steady
  BY Zenon DEF Steady
<1>2. Rows' /\ KeepsFinal
  BY <1>1, SameRows, Zenon
<1>3. row' = [x \in DOMAIN row' |-> row'[x]] /\ DOMAIN row' \subseteq Entities
  BY Zenon DEF IInv, TypeOK
<1>. QED  BY <1>1, <1>2, <1>3, Continues, Zenon

LEMMA Sending ==
    ASSUME IInv, UNCHANGED scenario, NEW x \in Entities, NEW h \in Handlers, Send(x, h)
    PROVE  IInv'
<1>. PICK e : e = Event(x)
  BY Zenon
<1>. PICK q : q = [pc |-> IF ~Validates(x, e) THEN "refuse"
                          ELSE IF e.dynamic THEN "upload" ELSE "get", x |-> x, e |-> e]
  BY Zenon
<1>1. /\ Becomes(h, q) /\ handler[h] = Idle
      /\ client[x].waits = None /\ client[x].next <= Len(Plan[x])
      /\ client' = [client EXCEPT ![x].waits = h]
      /\ UNCHANGED <<row, blobs, tainted>>
  BY Zenon DEF Send, Becomes
<1>2. /\ client \in [Entities -> [next: Nat \ {0}, waits: Handlers \cup {None}, failed: BOOLEAN]]
      /\ client[x].next \in DOMAIN Plan[x] /\ Plan' = Plan
  BY <1>1, PlanFacts DEF IInv, TypeOK, Plan
<1>3. /\ client' \in [Entities -> [next: Nat \ {0}, waits: Handlers \cup {None}, failed: BOOLEAN]]
      /\ \A y \in Entities : client'[y].next = client[y].next
      /\ \A y \in Entities : y # x => client'[y] = client[y]
      /\ client'[x].waits = h
  BY <1>1, <1>2, Zenon
<1>4. /\ handler'[h] = q /\ \A g \in Handlers : g # h => handler'[g] = handler[g]
  BY <1>1, BecomesFacts, Zenon DEF IInv
<1>5. Steady
  BY <1>1, Zenon DEF Steady
<1>6. TypeOK'
  BY <1>1, <1>3, BecomesFacts DEF IInv, TypeOK
<1>7. Rows' /\ KeepsFinal /\ Store'
  BY <1>1, <1>5, SameRows, SameStore, Zenon
<1>8. Serves(q)'
  <2>1. q.pc \in {"refuse", "upload", "get"} /\ q.x = x /\ q.e = e
    BY Zenon
  <2>2. e = Plan[x][client[x].next]
    BY Zenon DEF Event
  <2>3. e \in Range(Plan[x])
    BY <1>2, <2>2, Zenon DEF Range
  <2>4. q \in Reading'
    BY <1>2, <2>1, <2>3, Zenon DEF Reading, Events
  <2>. QED  BY <1>2, <2>1, <2>2, <2>4, Zenon DEF Serves, States
<1>9. Carries(q)'
  <2>1. q.pc \in {"refuse", "upload", "get"} /\ q.e = e
    BY Zenon
  <2>2. q.pc = "get" => ~e.dynamic
    BY Zenon
  <2>. QED  BY <2>1, <2>2, Zenon DEF Carries
<1>10. \A g \in Handlers : Serves(handler[g])' /\ Carries(handler[g])'
  BY <1>1, <1>5, <1>8, <1>9, RequestsStay, Zenon
<1>11. q.pc \notin {"insert", "emit"}
  BY Zenon
<1>12. Advances
  BY <1>3, Zenon DEF Advances
<1>13. Concluded'
  BY <1>1, <1>5, <1>6, <1>7, <1>11, <1>12, ConcludedStays, Zenon
<1>14. Ordered'
  BY <1>1, <1>5, <1>11, OrderedStays, Zenon
<1>15. Waits'
  <2>. SUFFICES ASSUME NEW y \in Entities, NEW g \in Handlers, client'[y].waits = g, g # None
                PROVE  /\ client'[y].next \in DOMAIN Plan[y]
                       /\ handler'[g].pc # "idle" /\ handler'[g].x = y
                       /\ handler'[g].e = Plan[y][client'[y].next]
    BY <1>2, <1>3 DEF Waits, Event
  <2>1. CASE y = x
    <3>1. g = h /\ q.pc # "idle" /\ q.x = x /\ q.e = e
      BY <1>3, <2>1, Zenon
    <3>. QED  BY <1>2, <1>3, <1>4, <2>1, <3>1 DEF Event
  <2>2. CASE y # x
    <3>1. /\ client[y].next \in DOMAIN Plan[y]
          /\ handler[g].pc # "idle" /\ handler[g].x = y /\ handler[g].e = Plan[y][client[y].next]
      BY <1>3, <2>2, Zenon DEF IInv, Waits, Event
    <3>2. g # h
      BY <1>1, <3>1 DEF Idle
    <3>. QED  BY <1>3, <1>4, <2>2, <3>1, <3>2, Zenon
  <2>. QED  BY <2>1, <2>2, Zenon
<1>. QED  BY <1>6, <1>7, <1>10, <1>13, <1>14, <1>15, Zenon DEF IInv

-----------------------------------------------------------------------------
(* The engine's other steps.                                               *)

LEMMA EngineGoesOn ==
    ASSUME IInv, UNCHANGED <<scenario, row, blobs, handler, tainted>>,
           client' \in [Entities -> [next: Nat \ {0}, waits: Handlers \cup {None}, failed: BOOLEAN]],
           NEW x \in Entities, client'[x].waits = None,
           \A y \in Entities : y # x => client'[y] = client[y],
           client'[x].next = client[x].next \/ client'[x].next <= Len(Plan[x])
    PROVE  IInv'
<1>1. Steady /\ Plan' = Plan
  BY Zenon DEF Steady, Plan
<1>2. TypeOK'
  BY Zenon DEF IInv, TypeOK
<1>3. Rows' /\ Store'
  BY <1>1, SameRows, SameStore, Zenon
<1>4. Waits'
  BY <1>1, Zenon DEF IInv, Waits, Event
<1>5. Ordered'
  BY Zenon DEF IInv, Ordered, Placed, ParentsExist
<1>6. Concluded'
  <2>1. \A y \in Entities : client'[y].next > Len(Plan[y]) => client'[y].next = client[y].next
    <3>. SUFFICES ASSUME NEW y \in Entities, client'[y].next > Len(Plan[y])
                  PROVE  client'[y].next = client[y].next
      BY Zenon
    <3>1. client'[x].next \in Nat /\ Len(Plan[x]) \in Nat
      BY PlanFacts, Zenon DEF IInv
    <3>. QED  BY <3>1
  <2>2. /\ \A y \in Entities : Final(y)' = Final(y) /\ LastEvent(y)' = LastEvent(y)
    BY <1>1, Zenon DEF Final, LastEvent
  <2>. QED  BY <1>1, <2>1, <2>2, Zenon DEF IInv, Concluded
<1>7. ASSUME NEW g \in Handlers PROVE Serves(handler[g])' /\ Carries(handler[g])'
  <2>. PICK p : p = handler[g]
    BY Zenon
  <2>1. Serves(p)' /\ Carries(p)'
    BY <1>1, ServesStays, CarriesStays, Zenon DEF IInv
  <2>. QED  BY <2>1, Zenon
<1>. QED  BY <1>2, <1>3, <1>4, <1>5, <1>6, <1>7, Zenon DEF IInv

LEMMA TimingOut ==
    ASSUME IInv, UNCHANGED scenario, NEW x \in Entities, Timeout(x)
    PROVE  IInv'
<1>1. /\ client \in [Entities -> [next: Nat \ {0}, waits: Handlers \cup {None}, failed: BOOLEAN]]
      /\ client' = [client EXCEPT ![x].waits = None, ![x].failed = TRUE]
      /\ UNCHANGED <<row, blobs, handler, tainted>>
  BY Zenon DEF IInv, TypeOK, Timeout
<1>2. /\ client' \in [Entities -> [next: Nat \ {0}, waits: Handlers \cup {None}, failed: BOOLEAN]]
      /\ client'[x].waits = None /\ client'[x].next = client[x].next
      /\ \A y \in Entities : y # x => client'[y] = client[y]
  BY <1>1, Zenon
<1>. QED  BY <1>1, <1>2, EngineGoesOn, Zenon

LEMMA Skipping ==
    ASSUME IInv, UNCHANGED scenario, NEW x \in Entities, Skip(x)
    PROVE  IInv'
<1>1. /\ client \in [Entities -> [next: Nat \ {0}, waits: Handlers \cup {None}, failed: BOOLEAN]]
      /\ client[x].waits = None /\ client[x].next < Len(Plan[x])
      /\ client' = [client EXCEPT ![x] = [next |-> @.next + 1, waits |-> None, failed |-> FALSE]]
      /\ UNCHANGED <<row, blobs, handler, tainted>>
  BY Zenon DEF IInv, TypeOK, Skip
<1>2. /\ client' \in [Entities -> [next: Nat \ {0}, waits: Handlers \cup {None}, failed: BOOLEAN]]
      /\ client'[x].waits = None /\ client'[x].next = client[x].next + 1
      /\ \A y \in Entities : y # x => client'[y] = client[y]
  BY <1>1
<1>3. client[x].next + 1 <= Len(Plan[x])
  BY <1>1, PlanFacts DEF IInv
<1>. QED  BY <1>1, <1>2, <1>3, EngineGoesOn, Zenon

\* Nothing that the invariant is about changes.
LEMMA Standing ==
    ASSUME IInv, UNCHANGED <<scenario, row, blobs, handler, client, tainted>>
    PROVE  IInv'
<1>1. Steady /\ Plan' = Plan
  BY Zenon DEF Steady, Plan
<1>2. TypeOK' /\ Waits' /\ Ordered'
  BY <1>1 DEF IInv, TypeOK, Waits, Event, Ordered, Placed, ParentsExist
<1>3. Rows' /\ Store'
  BY <1>1, SameRows, SameStore, Zenon
<1>4. Concluded'
  BY <1>1, Zenon DEF IInv, Concluded, Final, LastEvent
<1>5. ASSUME NEW g \in Handlers PROVE Serves(handler[g])' /\ Carries(handler[g])'
  <2>. PICK p : p = handler[g]
    BY Zenon
  <2>1. Serves(p)' /\ Carries(p)'
    BY <1>1, ServesStays, CarriesStays, Zenon DEF IInv
  <2>. QED  BY <2>1, Zenon
<1>. QED  BY <1>2, <1>3, <1>4, <1>5, Zenon DEF IInv

-----------------------------------------------------------------------------
(* The blob store grows.                                                   *)

LEMMA StoreGrows ==
    ASSUME IInv, UNCHANGED scenario, NEW o, NEW size, blobs' = Written(o, size),
           o \notin DOMAIN scenario.stored,
           \A y \in Entities : o = OutputsReference(y) => size = LastEvent(y).outputs.data
    PROVE  /\ DOMAIN blobs \subseteq DOMAIN blobs' /\ o \in DOMAIN blobs' /\ Store'
           /\ blobs' = [k \in DOMAIN blobs' |-> blobs'[k]]
<1>1. /\ DOMAIN blobs' = DOMAIN blobs \cup {o} /\ blobs'[o] = size
      /\ \A k \in DOMAIN blobs : k # o => blobs'[k] = blobs[k]
      /\ blobs' = [k \in DOMAIN blobs' |-> blobs'[k]]
  BY Zenon DEF Written
<1>2. \A y : LastEvent(y)' = LastEvent(y)
  BY Zenon DEF LastEvent, Plan
<1>3. Store'
  BY <1>1, <1>2, Zenon DEF IInv, Store, Stored
<1>. QED  BY <1>1, <1>3, Zenon

LEMMA Offloaded ==
    ASSUME IInv, UNCHANGED scenario, NEW x \in Entities, NEW i \in DOMAIN Plan[x],
           NEW e, e = Plan[x][i], OffloadOutputs(x, e)
    PROVE  /\ DOMAIN blobs \subseteq DOMAIN blobs' /\ Store'
           /\ blobs' = [k \in DOMAIN blobs' |-> blobs'[k]]
           /\ IsTerminal(e.phase) => /\ e = LastEvent(x)
                                     /\ OutputsOf(x, e, None) = [uri |-> OutputsReference(x)] =>
                                           OutputsReference(x) \in DOMAIN blobs'
<1>. DEFINE offloaded == /\ IsTerminal(e.phase) /\ ~scenario.inline
                         /\ e.outputs # None /\ "data" \in DOMAIN e.outputs
<1>1. /\ IsTerminal(e.phase) => e = LastEvent(x)
      /\ e.outputs \in {None} \cup [uri: DOMAIN scenario.stored] \cup [data: Nat]
      /\ scenario \in Scenarios
  BY PlanFacts, Zenon DEF IInv, TypeOK
<1>2. /\ OutputsReference(x) \notin DOMAIN scenario.stored
      /\ None # [uri |-> OutputsReference(x)]
  BY <1>1, StoreAssumption, OutputsAssumption
<1>3. CASE offloaded
  <2>1. blobs' = Written(OutputsReference(x), e.outputs.data)
    BY <1>3, Zenon DEF OffloadOutputs
  <2>2. \A y \in Entities : OutputsReference(x) = OutputsReference(y) => y = x
    BY Zenon DEF OutputsReference
  <2>3. \A y \in Entities : OutputsReference(x) = OutputsReference(y) =>
           e.outputs.data = LastEvent(y).outputs.data
    BY <1>1, <1>3, <2>2, Zenon
  <2>. QED  BY <1>1, <1>2, <2>1, <2>3, StoreGrows, Zenon
<1>4. CASE ~offloaded
  <2>1. blobs' = blobs
    BY <1>4, Zenon DEF OffloadOutputs
  <2>2. Store' /\ blobs' = [k \in DOMAIN blobs' |-> blobs'[k]]
    BY <2>1, SameStore, Zenon DEF IInv, TypeOK
  <2>3. IsTerminal(e.phase) => OutputsOf(x, e, None) # [uri |-> OutputsReference(x)]
    <3>1. ASSUME e.outputs \in [uri: DOMAIN scenario.stored]
          PROVE  e.outputs # [uri |-> OutputsReference(x)]
      BY <1>2, <3>1
    <3>2. ASSUME e.outputs \in [data: Nat]
          PROVE  e.outputs # [uri |-> OutputsReference(x)] /\ "data" \in DOMAIN e.outputs
      BY <3>2, Zenon
    <3>3. CASE e.outputs = None
      BY <1>2, <3>3, Zenon DEF OutputsOf
    <3>4. CASE e.outputs \in [uri: DOMAIN scenario.stored] /\ e.outputs # None
      <4>1. "uri" \in DOMAIN e.outputs
        BY <3>4, Zenon
      <4>. QED  BY <3>1, <3>4, <4>1, Zenon DEF OutputsOf
    <3>5. CASE e.outputs \in [data: Nat] /\ e.outputs # None
      BY <1>4, <3>2, <3>5, Zenon DEF OutputsOf
    <3>. QED  BY <1>1, <3>3, <3>4, <3>5, Zenon
  <2>. QED  BY <1>1, <2>1, <2>2, <2>3, Zenon
<1>. QED  BY <1>3, <1>4, Zenon

-----------------------------------------------------------------------------
(* What handlers compute.                                                  *)

LEMMA RequestFacts ==
    ASSUME IInv, NEW h \in Handlers, handler[h].pc # "idle"
    PROVE  /\ handler[h].x \in Entities
           /\ \E i \in DOMAIN Plan[handler[h].x] : handler[h].e = Plan[handler[h].x][i]
           /\ Carries(handler[h])
           /\ handler[h].pc \in {"refuse", "upload", "get", "create"} => handler[h] \in Reading
BY Zenon DEF IInv, Serves

LEMMA ServesOn ==
    ASSUME IInv, NEW h \in Handlers, handler[h].pc # "idle",
           NEW q, q.pc \in {"insert", "update", "save", "emit"},
           q.x = handler[h].x, q.e = handler[h].e
    PROVE  Serves(q)
<1>1. /\ q.x \in Entities /\ \E i \in DOMAIN Plan[q.x] : q.e = Plan[q.x][i]
  BY RequestFacts, Zenon
<1>. QED  BY <1>1, Zenon DEF Serves, States

LEMMA ReadsOn ==
    ASSUME IInv, NEW h \in Handlers, handler[h].pc \in {"upload", "get"},
           NEW pc \in {"get", "create"}, handler' = [handler EXCEPT ![h].pc = pc]
    PROVE  \E q : /\ Becomes(h, q) /\ Serves(q)
                  /\ q.pc = pc /\ q.x = handler[h].x /\ q.e = handler[h].e
<1>. PICK p : p = handler[h]
  BY Zenon
<1>. PICK q : q = [pc |-> pc, x |-> p.x, e |-> p.e]
  BY Zenon
<1>1. /\ p \in Reading /\ p.x \in Entities /\ \E i \in DOMAIN Plan[p.x] : p.e = Plan[p.x][i]
  BY RequestFacts, Zenon
<1>2. q = [p EXCEPT !.pc = pc] /\ q \in Reading
  BY <1>1 DEF Reading
<1>3. handler' = [handler EXCEPT ![h] = [p EXCEPT !.pc = pc]]
  BY Zenon
<1>4. Becomes(h, q)
  BY <1>2, <1>3, Zenon DEF Becomes
<1>5. Serves(q)
  <2>1. q.pc = pc /\ q.x = p.x /\ q.e = p.e
    BY Zenon
  <2>. QED  BY <1>1, <1>2, <2>1, Zenon DEF Serves, States
<1>. QED  BY <1>4, <1>5

\* A row made from an event of the plan.
LEMMA RowRight ==
    ASSUME IInv, UNCHANGED scenario, NEW x \in Entities, NEW i \in DOMAIN Plan[x],
           NEW e, e = Plan[x][i], OffloadOutputs(x, e), NEW r, StartsAgree(x, r),
           r.phase = e.phase, r.inputs \in DOMAIN scenario.stored \cup {None},
           x \in Tasks => r.version \in Nat,
           x \in Nodes => /\ r.parentNode = ParentNode[x] /\ r.parentTask = ParentTask[x]
                          /\ r.dynamic \in {None, ClosureReference(x)}
                          /\ r.dynamic # None => Stored(r.dynamic),
           r.closure.outputs = IF IsTerminal(e.phase) THEN OutputsOf(x, e, None) ELSE None
    PROVE  Good(x, r)'
<1>1. /\ DOMAIN blobs \subseteq DOMAIN blobs'
      /\ IsTerminal(e.phase) => /\ e = LastEvent(x)
                                /\ OutputsOf(x, e, None) = [uri |-> OutputsReference(x)] =>
                                      OutputsReference(x) \in DOMAIN blobs'
  BY Offloaded, Zenon
<1>2. /\ Plan' = Plan /\ LastEvent(x)' = LastEvent(x)
      /\ OutputsOf(x, e, None)' = OutputsOf(x, e, None)
  BY Zenon DEF Plan, LastEvent, OutputsOf
<1>3. StartsAgree(x, r)'
  BY Zenon DEF StartsAgree
<1>4. Planned(x, r)'
  BY <1>2, Zenon DEF Planned
<1>5. IsTerminal(r.phase) =>
         /\ r.closure.outputs = OutputsOf(x, LastEvent(x), None)'
         /\ r.closure.outputs = [uri |-> OutputsReference(x)] => Stored(OutputsReference(x))'
  BY <1>1, <1>2, Zenon DEF Stored, OutputsOf
<1>6. Refers(x, r)'
  BY <1>1, <1>2, <1>5, Zenon DEF Refers, Stored
<1>. QED  BY <1>3, <1>4, <1>6, Zenon DEF Good

\* What a request is about, has uploaded and stores, and the row it may write over.
Offloads(x, e) == (\E i \in DOMAIN Plan[x] : e = Plan[x][i]) /\ OffloadOutputs(x, e)
Uploaded(n, e) == e.dynamic => Stored(ClosureReference(n))
Open(x, r) == Good(x, r) /\ ~IsTerminal(r.phase)

LEMMA NewNode ==
    ASSUME IInv, UNCHANGED scenario, NEW n \in Nodes,
           NEW e, Offloads(n, e), Uploaded(n, e),
           NEW r, r = CreateNodeExecutionModel(n, e)
    PROVE  Good(n, r)' /\ r.phase = e.phase
<1>1. n \in Entities /\ n \notin Tasks
  BY DisjointAssumption, Zenon DEF Entities
<1>. PICK i \in DOMAIN Plan[n] : e = Plan[n][i]
  BY Zenon DEF Offloads
<1>. OffloadOutputs(n, e)
  BY Zenon DEF Offloads
<1>2. /\ NodeForm(r)
      /\ r.phase = e.phase /\ r.inputs = e.inputs
      /\ r.parentNode = ParentNode[n] /\ r.parentTask = ParentTask[n]
      /\ r.dynamic = IF e.dynamic THEN ClosureReference(n) ELSE None
      /\ r.closure.startedAt \in {None, r.startedAt}
      /\ r.closure.outputs = IF IsTerminal(e.phase) THEN OutputsOf(n, e, None) ELSE None
  BY NodeCreated
<1>3. StartsAgree(n, r)
  BY <1>1, <1>2, Zenon DEF StartsAgree
<1>4. r.inputs \in DOMAIN scenario.stored \cup {None}
  BY <1>1, <1>2, PlanFacts, Zenon DEF IInv
<1>5. r.dynamic \in {None, ClosureReference(n)} /\ (r.dynamic # None => Stored(r.dynamic))
  BY <1>2, Zenon DEF Uploaded
<1>. QED  BY <1>1, <1>2, <1>3, <1>4, <1>5, RowRight, Zenon

LEMMA NewTask ==
    ASSUME IInv, UNCHANGED scenario, NEW t \in Tasks,
           NEW e, Offloads(t, e), NEW r, r = CreateTaskExecutionModel(t, e)
    PROVE  Good(t, r)' /\ r.phase = e.phase
<1>1. t \in Entities /\ t \notin Nodes
  BY DisjointAssumption, Zenon DEF Entities
<1>. PICK i \in DOMAIN Plan[t] : e = Plan[t][i]
  BY Zenon DEF Offloads
<1>. OffloadOutputs(t, e)
  BY Zenon DEF Offloads
<1>2. /\ TaskForm(r)
      /\ r.phase = e.phase /\ r.version = e.version /\ r.inputs = e.inputs
      /\ r.closure.startedAt = r.startedAt
      /\ r.closure.outputs = IF IsTerminal(e.phase) THEN OutputsOf(t, e, None) ELSE None
  BY TaskCreated
<1>3. StartsAgree(t, r)
  BY <1>1, <1>2, Zenon DEF StartsAgree
<1>4. r.inputs \in DOMAIN scenario.stored \cup {None} /\ r.version \in Nat
  BY <1>1, <1>2, PlanFacts, Zenon DEF IInv
<1>. QED  BY <1>1, <1>2, <1>3, <1>4, RowRight, Zenon

\* What the update of a row read earlier computes.
LEMMA NextNode ==
    ASSUME IInv, UNCHANGED scenario, NEW n \in Nodes,
           NEW e, Offloads(n, e), Uploaded(n, e),
           NEW old, Open(n, old),
           NEW r, r = UpdateNodeExecutionModel(n, old, e)
    PROVE  Good(n, r)' /\ r.phase = e.phase
<1>1. n \in Entities /\ n \notin Tasks
  BY DisjointAssumption, Zenon DEF Entities
<1>. PICK i \in DOMAIN Plan[n] : e = Plan[n][i]
  BY Zenon DEF Offloads
<1>. OffloadOutputs(n, e)
  BY Zenon DEF Offloads
<1>2. /\ NodeForm(old) /\ old.closure.startedAt \in {None, old.startedAt}
      /\ old.parentNode = ParentNode[n] /\ old.parentTask = ParentTask[n]
      /\ old.inputs \in DOMAIN scenario.stored \cup {None} /\ old.closure.outputs = None
  BY Zenon DEF Open, Good, StartsAgree, Planned, Refers
<1>3. /\ NodeForm(r)
      /\ r.phase = e.phase /\ r.inputs = old.inputs
      /\ r.parentNode = old.parentNode /\ r.parentTask = old.parentTask
      /\ r.dynamic = IF e.dynamic THEN ClosureReference(n) ELSE None
      /\ r.closure.startedAt \in {None, r.startedAt}
      /\ r.closure.outputs = IF IsTerminal(e.phase) THEN OutputsOf(n, e, old.closure.outputs)
                             ELSE old.closure.outputs
  BY <1>2, NodeUpdated
<1>4. StartsAgree(n, r)
  BY <1>1, <1>3, Zenon DEF StartsAgree
<1>5. r.dynamic \in {None, ClosureReference(n)} /\ (r.dynamic # None => Stored(r.dynamic))
  BY <1>3, Zenon DEF Uploaded
<1>. QED  BY <1>1, <1>2, <1>3, <1>4, <1>5, RowRight, Zenon

LEMMA NextTask ==
    ASSUME IInv, UNCHANGED scenario, NEW t \in Tasks,
           NEW e, Offloads(t, e), NEW old, Open(t, old),
           NEW r, r = UpdateTaskExecutionModel(t, old, e)
    PROVE  Good(t, r)' /\ r.phase = e.phase /\ r.version = e.version
<1>1. t \in Entities /\ t \notin Nodes
  BY DisjointAssumption, Zenon DEF Entities
<1>. PICK i \in DOMAIN Plan[t] : e = Plan[t][i]
  BY Zenon DEF Offloads
<1>. OffloadOutputs(t, e)
  BY Zenon DEF Offloads
<1>2. /\ TaskForm(old) /\ old.closure.startedAt = old.startedAt
      /\ old.inputs \in DOMAIN scenario.stored \cup {None} /\ old.closure.outputs = None
  BY Zenon DEF Open, Good, StartsAgree, Refers
<1>3. /\ TaskForm(r)
      /\ r.phase = e.phase /\ r.version = e.version /\ r.inputs = old.inputs
      /\ r.closure.startedAt = r.startedAt
      /\ r.closure.outputs = IF IsTerminal(e.phase) THEN OutputsOf(t, e, old.closure.outputs)
                             ELSE old.closure.outputs
  BY <1>2, TaskUpdated
<1>4. StartsAgree(t, r)
  BY <1>1, <1>3, Zenon DEF StartsAgree
<1>5. r.version \in Nat
  BY <1>1, <1>3, PlanFacts, Zenon DEF IInv
<1>. QED  BY <1>1, <1>2, <1>3, <1>4, <1>5, RowRight, Zenon

-----------------------------------------------------------------------------
(* Data is served.                                                         *)

\* An object that is stored is served, if it is smaller than the limit.
LEMMA ObjectServed ==
    ASSUME NEW o, o # None, Stored(o), NEW size \in Nat, blobs[o] = size,
           NEW got, got = GetInputs(o)
    PROVE  got.ok /\ (got.full = size \/ size >= MaxSizeInBytes)
<1>. PICK full : full = IF shouldFetchData(Bytes(o)) /\ Stored(o) THEN blobs[o] ELSE 0
  BY Zenon
<1>1. got = [ok |-> TRUE, full |-> full]
  BY Zenon DEF GetInputs
<1>2. ASSUME ~shouldFetchData(Bytes(o)) PROVE size >= MaxSizeInBytes
  <2>1. MaxSizeInBytes # 0 /\ ~(Bytes(o) < MaxSizeInBytes)
    BY <1>2, Zenon DEF shouldFetchData
  <2>2. CASE scenario.signed
    BY <2>1, <2>2, SizeAssumption DEF Bytes
  <2>3. CASE ~scenario.signed
    BY <2>1, <2>3, SizeAssumption DEF Bytes
  <2>. QED  BY <2>2, <2>3, Zenon
<1>. QED  BY <1>1, <1>2

LEMMA NothingServed ==
    ASSUME NEW got, got = GetInputs(None)
    PROVE  got.ok /\ got.full = 0
BY Zenon DEF GetInputs

\* The outputs of a row are served, those of a terminal one as reported.
LEMMA OutputsServed ==
    ASSUME IInv, NEW x \in DOMAIN row, NEW outputs, outputs = row[x].closure.outputs,
           NEW got, got = GetOutputs(outputs)
    PROVE  /\ got.ok
           /\ IsTerminal(row[x].phase) => \E i \in DOMAIN Plan[x] :
                 /\ Plan[x][i].phase = row[x].phase
                 /\ got.full = Reported(x, i) \/ Reported(x, i) >= MaxSizeInBytes
<1>. PICK e : e = LastEvent(x)
  BY Zenon
<1>1. x \in Entities /\ Good(x, row[x]) /\ scenario \in Scenarios
  BY Zenon DEF IInv, TypeOK, Rows
<1>2. CASE ~IsTerminal(row[x].phase)
  <2>1. outputs = None
    BY <1>1, <1>2, Zenon DEF Good, Refers
  <2>2. got = GetInputs(None)
    BY <2>1, Zenon DEF GetOutputs
  <2>. QED  BY <1>2, <2>2, NothingServed, Zenon
<1>3. CASE IsTerminal(row[x].phase)
  <2>1. PICK i \in DOMAIN Plan[x] : row[x].phase = Plan[x][i].phase
    BY <1>1, Zenon DEF Good, Planned
  <2>2. /\ Plan[x][i] = e
        /\ e.outputs \in {None} \cup [uri: DOMAIN scenario.stored] \cup [data: Nat]
    BY <1>1, <1>3, <2>1, PlanFacts, Zenon DEF IInv
  <2>3. /\ outputs = OutputsOf(x, e, None)
        /\ outputs = [uri |-> OutputsReference(x)] => Stored(OutputsReference(x))
    BY <1>1, <1>3, Zenon DEF Good, Refers
  <2>. SUFFICES got.ok /\ (got.full = Reported(x, i) \/ Reported(x, i) >= MaxSizeInBytes)
    BY <2>1, Zenon
  <2>. PICK reported : reported = Reported(x, i)
    BY Zenon
  <2>4. reported = IF e.outputs = None THEN 0
                   ELSE IF "uri" \in DOMAIN e.outputs THEN scenario.stored[e.outputs.uri]
                   ELSE e.outputs.data
    BY <2>2, Zenon DEF Reported
  <2>5. CASE e.outputs = None
    <3>1. outputs = None /\ reported = 0
      BY <2>3, <2>4, <2>5, Zenon DEF OutputsOf
    <3>2. got = GetInputs(None)
      BY <3>1, Zenon DEF GetOutputs
    <3>. QED  BY <3>1, <3>2, NothingServed, Zenon
  <2>6. CASE e.outputs # None /\ e.outputs \in [uri: DOMAIN scenario.stored]
    <3>1. PICK u \in DOMAIN scenario.stored : e.outputs = [uri |-> u]
      BY <2>6, Zenon
    <3>2. "uri" \in DOMAIN e.outputs /\ "data" \notin DOMAIN e.outputs /\ e.outputs.uri = u
      BY <3>1
    <3>3. outputs = e.outputs /\ reported = scenario.stored[u]
      BY <2>3, <2>4, <2>6, <3>2, Zenon DEF OutputsOf
    <3>4. got = GetInputs(u)
      BY <2>6, <3>2, <3>3, Zenon DEF GetOutputs
    <3>5. Stored(u) /\ blobs[u] = reported /\ reported \in Nat
      BY <1>1, <3>3, StoreAssumption, Zenon DEF IInv, Store
    <3>6. u # None
      BY <1>1, OutputsAssumption, Zenon
    <3>. QED  BY <3>4, <3>5, <3>6, ObjectServed, Zenon
  <2>7. CASE e.outputs # None /\ e.outputs \in [data: Nat]
    <3>1. PICK d \in Nat : e.outputs = [data |-> d]
      BY <2>7, Zenon
    <3>2. "uri" \notin DOMAIN e.outputs /\ "data" \in DOMAIN e.outputs /\ e.outputs.data = d
      BY <3>1
    <3>3. reported = d
      BY <2>4, <2>7, <3>2, Zenon
    <3>4. CASE scenario.inline
      <4>1. outputs = e.outputs
        BY <2>3, <2>7, <3>4, Zenon DEF OutputsOf
      <4>2. got = [ok |-> TRUE, full |-> IF d < MaxSizeInBytes THEN d ELSE 0]
        BY <2>7, <3>2, <4>1, Zenon DEF GetOutputs
      <4>. QED  BY <3>3, <4>2, SizeAssumption
    <3>5. CASE ~scenario.inline
      <4>. PICK o : o = OutputsReference(x)
        BY Zenon
      <4>1. outputs = [uri |-> o] /\ Stored(o)
        BY <2>3, <2>7, <3>2, <3>5, Zenon DEF OutputsOf
      <4>2. /\ outputs # None /\ o # None
            /\ "data" \notin DOMAIN outputs /\ outputs.uri = o
        BY <1>1, <4>1, OutputsAssumption
      <4>3. got = GetInputs(o)
        BY <4>2, Zenon DEF GetOutputs
      <4>4. blobs[o] = d
        BY <1>1, <3>2, <4>1, Zenon DEF IInv, Store
      <4>. QED  BY <3>3, <4>1, <4>2, <4>3, <4>4, ObjectServed
    <3>. QED  BY <3>4, <3>5, Zenon
  <2>. QED  BY <2>2, <2>5, <2>6, <2>7, Zenon
<1>. QED  BY <1>2, <1>3, Zenon

LEMMA InputsServed ==
    ASSUME IInv, NEW x \in DOMAIN row, NEW inputs, inputs = row[x].inputs,
           NEW got, got = GetInputs(inputs)
    PROVE  got.ok
<1>1. inputs \in DOMAIN scenario.stored \cup {None} /\ scenario \in Scenarios
  BY Zenon DEF IInv, TypeOK, Rows, Good, Refers
<1>2. CASE inputs = None
  BY <1>2, NothingServed, Zenon
<1>3. CASE inputs # None
  <2>1. Stored(inputs) /\ blobs[inputs] = scenario.stored[inputs]
    BY <1>1, <1>3, Zenon DEF IInv, Store
  <2>2. scenario.stored[inputs] \in Nat
    BY <1>1, <1>3, StoreAssumption, Zenon
  <2>. QED  BY <1>3, <2>1, <2>2, ObjectServed, Zenon
<1>. QED  BY <1>2, <1>3, Zenon

-----------------------------------------------------------------------------
(* The handlers.                                                           *)

LEMMA Uploading ==
    ASSUME IInv, UNCHANGED scenario, NEW h \in Handlers, uploadDynamicWorkflowClosure(h)
    PROVE  IInv'
<1>. PICK x : x = handler[h].x
  BY Zenon
<1>1. /\ handler[h].pc = "upload" /\ blobs' = Written(ClosureReference(x), 1)
      /\ handler' = [handler EXCEPT ![h].pc = "get"] /\ UNCHANGED <<row, client, tainted>>
  BY Zenon DEF uploadDynamicWorkflowClosure
<1>2. PICK q : /\ Becomes(h, q) /\ Serves(q)
               /\ q.pc = "get" /\ q.x = handler[h].x /\ q.e = handler[h].e
  BY <1>1, ReadsOn, Zenon
<1>3. x \in Entities /\ scenario \in Scenarios
  BY <1>1, RequestFacts, Zenon DEF IInv, TypeOK
<1>4. /\ ClosureReference(x) \notin DOMAIN scenario.stored
      /\ \A y \in Entities : ClosureReference(x) # OutputsReference(y)
  <2>1. ClosureReference(x) \notin DOMAIN scenario.stored
    BY <1>3, StoreAssumption, Zenon
  <2>. QED  BY <2>1, Zenon DEF ClosureReference, OutputsReference
<1>5. /\ DOMAIN blobs \subseteq DOMAIN blobs' /\ ClosureReference(x) \in DOMAIN blobs' /\ Store'
      /\ blobs' = [k \in DOMAIN blobs' |-> blobs'[k]]
  BY <1>1, <1>4, StoreGrows, Zenon
<1>6. Carries(q)'
  BY <1>2, <1>5, Zenon DEF Carries, Stored
<1>. QED  BY <1>1, <1>2, <1>5, <1>6, Prepares, Zenon

LEMMA Getting ==
    ASSUME IInv, UNCHANGED scenario, NEW h \in Handlers, Get(h)
    PROVE  IInv'
<1>. PICK x, e, r : x = handler[h].x /\ e = handler[h].e /\ r = row[x]
  BY Zenon
<1>1. /\ handler[h].pc = "get" /\ UNCHANGED <<row, blobs, tainted>>
      /\ \/ /\ x \notin DOMAIN row /\ handler' = [handler EXCEPT ![h].pc = "create"]
            /\ UNCHANGED client
         \/ x \in DOMAIN row /\ Recorded(x, r, e) /\ Answer(h, "exists")
         \/ /\ x \in DOMAIN row /\ ~Recorded(x, r, e) /\ Refused(x, r, e)
            /\ Answer(h, "terminal")
         \/ /\ x \in DOMAIN row /\ ~Recorded(x, r, e) /\ ~Refused(x, r, e)
            /\ handler' = [handler EXCEPT ![h] = [pc |-> "update", x |-> x, e |-> e, read |-> r]]
            /\ UNCHANGED client
  BY Zenon DEF Get
<1>2. /\ x \in Entities /\ Carries(handler[h])
      /\ x \in DOMAIN row => Good(x, r)
      /\ Store' /\ blobs' = [k \in DOMAIN blobs' |-> blobs'[k]] /\ DOMAIN blobs \subseteq DOMAIN blobs'
  BY <1>1, RequestFacts, SameStore DEF IInv, Rows, TypeOK
<1>3. CASE handler' = [handler EXCEPT ![h].pc = "create"] /\ UNCHANGED client
  <2>1. PICK q : /\ Becomes(h, q) /\ Serves(q)
                 /\ q.pc = "create" /\ q.x = handler[h].x /\ q.e = handler[h].e
    BY <1>1, <1>3, ReadsOn, Zenon
  <2>2. Carries(q)'
    BY <1>1, <1>2, <2>1, Zenon DEF Carries, Stored
  <2>. QED  BY <1>1, <1>2, <1>3, <2>1, <2>2, Prepares, Zenon
<1>4. CASE x \in DOMAIN row /\ Recorded(x, r, e) /\ Answer(h, "exists")
  <2>1. e = LastEvent(x) => Final(x)
    BY <1>4, Zenon DEF Final, Recorded
  <2>. QED  BY <1>1, <1>4, <2>1, Returns, Zenon
<1>5. CASE x \in DOMAIN row /\ Refused(x, r, e) /\ Answer(h, "terminal")
  <2>1. Final(x)
    <3>1. PICK i \in DOMAIN Plan[x] : r.phase = Plan[x][i].phase
      BY <1>2, <1>5, Zenon DEF Good, Planned
    <3>2. Plan[x][i] = LastEvent(x)
      BY <1>2, <1>5, <3>1, PlanFacts, Zenon DEF IInv, Refused
    <3>. QED  BY <1>5, <3>1, <3>2, Zenon DEF Final
  <2>. QED  BY <1>1, <1>5, <2>1, Returns, Zenon
<1>6. CASE /\ x \in DOMAIN row /\ ~Recorded(x, r, e) /\ ~Refused(x, r, e)
           /\ handler' = [handler EXCEPT ![h] = [pc |-> "update", x |-> x, e |-> e, read |-> r]]
           /\ UNCHANGED client
  <2>. PICK q : q = [pc |-> "update", x |-> x, e |-> e, read |-> r]
    BY Zenon
  <2>1. q.pc = "update" /\ q.x = x /\ q.e = e /\ q.read = r
    BY Zenon
  <2>2. Becomes(h, q)
    BY <1>6, Zenon DEF Becomes
  <2>3. Serves(q)
    BY <1>1, <2>1, ServesOn
  <2>4. Good(x, r)'
    BY <1>1, <1>2, <1>6, GoodStays, Zenon DEF Steady
  <2>5. e.dynamic => Stored(ClosureReference(x))
    BY <1>1, <1>2, Zenon DEF Carries
  <2>6. Carries(q)'
    BY <1>1, <1>6, <2>1, <2>4, <2>5, Zenon DEF Carries, Stored, Refused, Recorded
  <2>. QED  BY <1>1, <1>2, <1>6, <2>1, <2>2, <2>3, <2>6, Prepares, Zenon
<1>. QED  BY <1>1, <1>3, <1>4, <1>5, <1>6, Zenon

LEMMA CreatingNode ==
    ASSUME IInv, UNCHANGED scenario, NEW h \in Handlers, createNodeExecutionWithEvent(h)
    PROVE  IInv'
<1>. PICK n, e : n = handler[h].x /\ e = handler[h].e
  BY Zenon
<1>. PICK r : r = CreateNodeExecutionModel(n, e)
  BY Zenon
<1>. PICK q : q = [pc |-> "insert", x |-> n, e |-> e, new |-> r]
  BY Zenon
<1>1. /\ handler[h].pc = "create" /\ n \in Nodes /\ UNCHANGED <<row, tainted>>
      /\ \/ /\ ParentsExist(n) /\ OffloadOutputs(n, e) /\ Becomes(h, q) /\ UNCHANGED client
         \/ Answer(h, "error") /\ UNCHANGED blobs
  BY Zenon DEF createNodeExecutionWithEvent, Becomes
<1>2. CASE Answer(h, "error") /\ UNCHANGED blobs
  BY <1>1, <1>2, Returns, Zenon
<1>3. CASE ParentsExist(n) /\ OffloadOutputs(n, e) /\ Becomes(h, q) /\ UNCHANGED client
  <2>1. q.pc = "insert" /\ q.x = n /\ q.e = e /\ q.new = r
    BY Zenon
  <2>2. /\ n \in Entities /\ n \notin Tasks /\ (e.dynamic => Stored(ClosureReference(n)))
        /\ \E i \in DOMAIN Plan[n] : e = Plan[n][i]
    BY <1>1, RequestFacts, DisjointAssumption, Zenon DEF Carries
  <2>3. PICK i \in DOMAIN Plan[n] : e = Plan[n][i]
    BY <2>2, Zenon
  <2>4. Good(n, r)' /\ r.phase = e.phase
    <3>1. Offloads(n, e) /\ Uploaded(n, e) /\ n \in Nodes
      BY <1>1, <1>3, <2>2, Zenon DEF Offloads, Uploaded
    <3>. QED  BY <3>1, NewNode
  <2>5. /\ DOMAIN blobs \subseteq DOMAIN blobs' /\ Store'
        /\ blobs' = [k \in DOMAIN blobs' |-> blobs'[k]]
    BY <1>3, <2>2, <2>3, Offloaded, Zenon
  <2>6. Serves(q)
    BY <1>1, <2>1, ServesOn
  <2>7. Carries(q)'
    BY <2>1, <2>4, Zenon DEF Carries
  <2>8. Placed(n)
    BY <1>3, <2>2, Zenon DEF Placed
  <2>. QED  BY <1>1, <1>3, <2>1, <2>5, <2>6, <2>7, <2>8, Prepares, Zenon
<1>. QED  BY <1>1, <1>2, <1>3, Zenon

LEMMA CreatingTask ==
    ASSUME IInv, UNCHANGED scenario, NEW h \in Handlers, createTaskExecution(h)
    PROVE  IInv'
<1>. PICK t, e : t = handler[h].x /\ e = handler[h].e
  BY Zenon
<1>. PICK r : r = CreateTaskExecutionModel(t, e)
  BY Zenon
<1>. PICK q : q = [pc |-> "insert", x |-> t, e |-> e, new |-> r]
  BY Zenon
<1>1. /\ handler[h].pc = "create" /\ t \in Tasks /\ UNCHANGED <<row, tainted>>
      /\ \/ /\ TaskNode[t] \in DOMAIN row /\ OffloadOutputs(t, e) /\ Becomes(h, q)
            /\ UNCHANGED client
         \/ Answer(h, "error") /\ UNCHANGED blobs
  BY Zenon DEF createTaskExecution, Becomes
<1>2. CASE Answer(h, "error") /\ UNCHANGED blobs
  BY <1>1, <1>2, Returns, Zenon
<1>3. CASE TaskNode[t] \in DOMAIN row /\ OffloadOutputs(t, e) /\ Becomes(h, q) /\ UNCHANGED client
  <2>1. q.pc = "insert" /\ q.x = t /\ q.e = e /\ q.new = r
    BY Zenon
  <2>2. t \in Entities /\ t \notin Nodes /\ \E i \in DOMAIN Plan[t] : e = Plan[t][i]
    BY <1>1, RequestFacts, DisjointAssumption, Zenon
  <2>3. PICK i \in DOMAIN Plan[t] : e = Plan[t][i]
    BY <2>2, Zenon
  <2>4. Good(t, r)' /\ r.phase = e.phase
    <3>1. Offloads(t, e) /\ t \in Tasks
      BY <1>1, <1>3, <2>2, Zenon DEF Offloads
    <3>. QED  BY <3>1, NewTask
  <2>5. /\ DOMAIN blobs \subseteq DOMAIN blobs' /\ Store'
        /\ blobs' = [k \in DOMAIN blobs' |-> blobs'[k]]
    BY <1>3, <2>2, <2>3, Offloaded, Zenon
  <2>6. Serves(q)
    BY <1>1, <2>1, ServesOn
  <2>7. Carries(q)'
    BY <2>1, <2>4, Zenon DEF Carries
  <2>8. Placed(t)
    BY <1>3, <2>2, Zenon DEF Placed
  <2>. QED  BY <1>1, <1>3, <2>1, <2>5, <2>6, <2>7, <2>8, Prepares, Zenon
<1>. QED  BY <1>1, <1>2, <1>3, Zenon

LEMMA UpdatingNode ==
    ASSUME IInv, UNCHANGED scenario, NEW h \in Handlers, updateNodeExecutionWithEvent(h)
    PROVE  IInv'
<1>. PICK n, e, old : n = handler[h].x /\ e = handler[h].e /\ old = handler[h].read
  BY Zenon
<1>. PICK r : r = UpdateNodeExecutionModel(n, old, e)
  BY Zenon
<1>. PICK q : q = [pc |-> "save", x |-> n, e |-> e, read |-> old, new |-> r]
  BY Zenon
<1>1. /\ handler[h].pc = "update" /\ n \in Nodes /\ UNCHANGED <<row, tainted>>
      /\ \/ OffloadOutputs(n, e) /\ Becomes(h, q) /\ UNCHANGED client
         \/ Answer(h, "error") /\ UNCHANGED blobs
  BY Zenon DEF updateNodeExecutionWithEvent, Becomes
<1>2. CASE Answer(h, "error") /\ UNCHANGED blobs
  BY <1>1, <1>2, Returns, Zenon
<1>3. CASE OffloadOutputs(n, e) /\ Becomes(h, q) /\ UNCHANGED client
  <2>1. q.pc = "save" /\ q.x = n /\ q.e = e /\ q.read = old /\ q.new = r
    BY Zenon
  <2>2. /\ n \in Entities /\ n \notin Tasks /\ (e.dynamic => Stored(ClosureReference(n)))
        /\ \E i \in DOMAIN Plan[n] : e = Plan[n][i]
        /\ n \in DOMAIN row /\ Good(n, old) /\ ~IsTerminal(old.phase) /\ ~Recorded(n, old, e)
    BY <1>1, RequestFacts, DisjointAssumption, Zenon DEF Carries
  <2>3. PICK i \in DOMAIN Plan[n] : e = Plan[n][i]
    BY <2>2, Zenon
  <2>4. Good(n, r)' /\ r.phase = e.phase
    <3>1. Offloads(n, e) /\ Uploaded(n, e) /\ Open(n, old) /\ n \in Nodes
      BY <1>1, <1>3, <2>2, Zenon DEF Offloads, Uploaded, Open
    <3>. QED  BY <3>1, NextNode
  <2>5. /\ DOMAIN blobs \subseteq DOMAIN blobs' /\ Store'
        /\ blobs' = [k \in DOMAIN blobs' |-> blobs'[k]]
    BY <1>3, <2>2, <2>3, Offloaded, Zenon
  <2>6. Serves(q)
    BY <1>1, <2>1, ServesOn
  <2>7. Good(n, old)'
    BY <1>1, <2>2, <2>5, GoodStays, Zenon DEF Steady
  <2>8. Carries(q)'
    BY <1>1, <2>1, <2>2, <2>4, <2>7, Zenon DEF Carries, Recorded
  <2>. QED  BY <1>1, <1>3, <2>1, <2>5, <2>6, <2>8, Prepares, Zenon
<1>. QED  BY <1>1, <1>2, <1>3, Zenon

LEMMA UpdatingTask ==
    ASSUME IInv, UNCHANGED scenario, NEW h \in Handlers, updateTaskExecutionModelState(h)
    PROVE  IInv'
<1>. PICK t, e, old : t = handler[h].x /\ e = handler[h].e /\ old = handler[h].read
  BY Zenon
<1>. PICK r : r = UpdateTaskExecutionModel(t, old, e)
  BY Zenon
<1>. PICK q : q = [pc |-> "save", x |-> t, e |-> e, read |-> old, new |-> r]
  BY Zenon
<1>1. /\ handler[h].pc = "update" /\ t \in Tasks /\ UNCHANGED <<row, client, tainted>>
      /\ OffloadOutputs(t, e) /\ Becomes(h, q)
  BY Zenon DEF updateTaskExecutionModelState, Becomes
<1>2. q.pc = "save" /\ q.x = t /\ q.e = e /\ q.read = old /\ q.new = r
  BY Zenon
<1>3. /\ t \in Entities /\ \E i \in DOMAIN Plan[t] : e = Plan[t][i]
      /\ t \in DOMAIN row /\ Good(t, old) /\ ~IsTerminal(old.phase) /\ ~Recorded(t, old, e)
  BY <1>1, RequestFacts, Zenon DEF Carries
<1>4. PICK i \in DOMAIN Plan[t] : e = Plan[t][i]
  BY <1>3, Zenon
<1>5. Good(t, r)' /\ r.phase = e.phase /\ r.version = e.version
  <2>1. Offloads(t, e) /\ Open(t, old) /\ t \in Tasks
    BY <1>1, <1>3, Zenon DEF Offloads, Open
  <2>. QED  BY <2>1, NextTask
<1>6. /\ DOMAIN blobs \subseteq DOMAIN blobs' /\ Store'
      /\ blobs' = [k \in DOMAIN blobs' |-> blobs'[k]]
  BY <1>1, <1>3, <1>4, Offloaded, Zenon
<1>7. Serves(q)
  BY <1>1, <1>2, ServesOn
<1>8. Good(t, old)'
  BY <1>1, <1>3, <1>6, GoodStays, Zenon DEF Steady
<1>9. Carries(q)'
  BY <1>1, <1>2, <1>3, <1>5, <1>8, Zenon DEF Carries, Recorded
<1>. QED  BY <1>1, <1>2, <1>6, <1>7, <1>9, Prepares, Zenon

\* A row is written: the others stay, and are as right as before.
LEMMA RowsStay ==
    ASSUME IInv, Steady, NEW x, \A y \in DOMAIN row' : y # x => y \in DOMAIN row /\ row'[y] = row[y],
           x \in DOMAIN row' => Good(x, row[x])'
    PROVE  Rows'
<1>. SUFFICES ASSUME NEW y \in DOMAIN row', y # x PROVE Good(y, row[y])'
  BY Zenon DEF Rows
<1>. PICK r : r = row[y]
  BY Zenon
<1>1. Good(y, r) /\ row'[y] = r
  BY Zenon DEF IInv, Rows
<1>2. Good(y, r)'
  BY <1>1, GoodStays, Zenon
<1>. QED  BY <1>1, <1>2, Zenon

LEMMA Inserting ==
    ASSUME IInv, UNCHANGED scenario, NEW h \in Handlers, Create(h)
    PROVE  IInv'
<1>. PICK x, e, r : x = handler[h].x /\ e = handler[h].e /\ r = handler[h].new
  BY Zenon
<1>. PICK q : q = [pc |-> "emit", x |-> x, e |-> e, new |-> TRUE]
  BY Zenon
<1>1. /\ handler[h].pc = "insert" /\ UNCHANGED blobs
      /\ \/ /\ x \notin DOMAIN row
            /\ row' = [y \in DOMAIN row \cup {x} |-> IF y = x THEN r ELSE row[y]]
            /\ Becomes(h, q) /\ UNCHANGED <<client, tainted>>
         \/ /\ x \in DOMAIN row /\ Answer(h, "exists")
            /\ tainted' = (IF row[x].phase = e.phase THEN tainted ELSE tainted \cup {x})
            /\ UNCHANGED row
  BY Zenon DEF Create, Becomes
<1>2. /\ x \in Entities /\ Good(x, r) /\ r.phase = e.phase /\ Placed(x)
  BY <1>1, RequestFacts, Zenon DEF Carries, IInv, Ordered
<1>3. CASE /\ x \in DOMAIN row /\ Answer(h, "exists") /\ UNCHANGED row
           /\ tainted' = IF row[x].phase = e.phase THEN tainted ELSE tainted \cup {x}
  <2>1. tainted \subseteq tainted'
    BY <1>3, Zenon
  <2>2. e = LastEvent(x) /\ x \notin tainted' => Final(x)
    BY <1>3, Zenon DEF Final
  <2>. QED  BY <1>1, <1>3, <2>1, <2>2, Returns, Zenon
<1>4. CASE /\ x \notin DOMAIN row
           /\ row' = [y \in DOMAIN row \cup {x} |-> IF y = x THEN r ELSE row[y]]
           /\ Becomes(h, q) /\ UNCHANGED <<client, tainted>>
  <2>1. q.pc = "emit" /\ q.x = x /\ q.e = e
    BY Zenon
  <2>2. /\ DOMAIN row' = DOMAIN row \cup {x} /\ row'[x] = r
        /\ \A y \in DOMAIN row : row'[y] = row[y]
        /\ row' = [y \in DOMAIN row' |-> row'[y]]
    BY <1>4, Zenon
  <2>3. Steady
    BY <1>1, <1>4, <2>2, Zenon DEF Steady
  <2>4. Good(x, r)'
    BY <1>2, <2>3, GoodStays, Zenon
  <2>5. Rows'
    BY <2>2, <2>3, <2>4, RowsStay
  <2>6. LastEvent(x)' = LastEvent(x) /\ \A y : LastEvent(y)' = LastEvent(y)
    BY Zenon DEF LastEvent, Plan
  <2>7. KeepsFinal
    BY <1>4, <2>2, <2>6, Zenon DEF KeepsFinal, Final
  <2>8. e = LastEvent(x) => Final(x)'
    BY <1>2, <2>2, <2>6, Zenon DEF Final
  <2>9. Serves(q)
    BY <1>1, <2>1, ServesOn
  <2>10. Carries(q)'
    BY <2>1, <2>2, Zenon DEF Carries
  <2>11. Store' /\ blobs' = [k \in DOMAIN blobs' |-> blobs'[k]]
    BY <1>1, SameStore, Zenon DEF IInv, TypeOK
  <2>12. DOMAIN row' \subseteq Entities /\ \A y \in DOMAIN row' : y \in DOMAIN row \/ Placed(y)
    BY <1>2, <2>2, Zenon DEF IInv, TypeOK
  <2>. QED  BY <1>4, <2>1, <2>2, <2>3, <2>5, <2>7, <2>8, <2>9, <2>10, <2>11, <2>12, Continues
<1>. QED  BY <1>1, <1>3, <1>4, Zenon

\* The row a node gets when an update is written.
LEMMA WrittenRow ==
    ASSUME IInv, NEW x \in DOMAIN row, NEW new, Good(x, new),
           NEW r, r = IF x \in Nodes THEN Updates(row[x], new) ELSE new
    PROVE  Good(x, r) /\ r.phase = new.phase /\ (x \in Tasks => r = new)
<1>. PICK old : old = row[x]
  BY Zenon
<1>1. CASE x \in Nodes
  <2>1. x \notin Tasks /\ Good(x, old)
    BY <1>1, DisjointAssumption, Zenon DEF IInv, Rows
  <2>2. /\ NodeForm(new) /\ new.closure.startedAt \in {None, new.startedAt}
    BY <1>1, Zenon DEF Good, StartsAgree
  <2>3. r = Updates(old, new)
    BY <1>1, Zenon
  <2>4. /\ NodeForm(r)
        /\ r.phase = new.phase /\ r.inputs = new.inputs
        /\ r.parentNode = new.parentNode /\ r.parentTask = new.parentTask
        /\ r.dynamic = IF new.dynamic = None THEN old.dynamic ELSE new.dynamic
        /\ r.closure.startedAt \in {None, r.startedAt}
        /\ r.closure.outputs = new.closure.outputs
    BY <2>2, <2>3, NodeWritten
  <2>5. StartsAgree(x, r)
    BY <2>1, <2>4, Zenon DEF StartsAgree
  <2>6. Planned(x, r)
    BY <2>1, <2>4, Zenon DEF Good, Planned
  <2>7. Refers(x, r)
    BY <1>1, <2>1, <2>4, Zenon DEF Good, Refers
  <2>. QED  BY <2>1, <2>4, <2>5, <2>6, <2>7, Zenon DEF Good
<1>2. CASE x \notin Nodes
  BY <1>2, Zenon
<1>. QED  BY <1>1, <1>2, Zenon

\* What an update writes, and over what.
LEMMA UpdateFacts ==
    ASSUME IInv, UNCHANGED scenario, NEW h \in Handlers, Update(h), NEW x, x = handler[h].x
    PROVE  /\ x \in DOMAIN row /\ x \in Entities
           /\ DOMAIN row' = DOMAIN row /\ row' = [y \in DOMAIN row' |-> row'[y]]
           /\ \A y \in DOMAIN row : y # x => row'[y] = row[y]
           /\ Good(x, row'[x]) /\ row'[x].phase = handler[h].e.phase
           /\ x \in Tasks => row'[x].version = handler[h].e.version
           /\ tainted \subseteq tainted'
           /\ x \notin tainted' => /\ ~IsTerminal(row[x].phase)
                                   /\ ~Recorded(x, row[x], handler[h].e)
<1>. PICK new, read : new = handler[h].new /\ read = handler[h].read
  BY Zenon
<1>. PICK r : r = IF x \in Nodes THEN Updates(row[x], new) ELSE new
  BY Zenon
<1>1. /\ handler[h].pc = "save" /\ row' = [row EXCEPT ![x] = r]
      /\ tainted' = IF row[x] = read THEN tainted ELSE tainted \cup {x}
  BY Zenon DEF Update
<1>2. /\ x \in Entities /\ x \in DOMAIN row /\ Good(x, new) /\ new.phase = handler[h].e.phase
      /\ x \in Tasks => new.version = handler[h].e.version
      /\ ~IsTerminal(read.phase) /\ ~Recorded(x, read, handler[h].e)
  BY <1>1, RequestFacts, Zenon DEF Carries
<1>3. Good(x, r) /\ r.phase = new.phase /\ (x \in Tasks => r = new)
  BY <1>2, WrittenRow
<1>4. /\ DOMAIN row' = DOMAIN row /\ row' = [y \in DOMAIN row' |-> row'[y]] /\ row'[x] = r
      /\ \A y \in DOMAIN row : y # x => row'[y] = row[y]
  <2>1. row = [y \in DOMAIN row |-> row[y]]
    BY Zenon DEF IInv, TypeOK
  <2>. QED  BY <1>1, <1>2, <2>1, Zenon
<1>5. tainted \subseteq tainted' /\ (x \notin tainted' => row[x] = read)
  BY <1>1, Zenon
<1>. QED  BY <1>2, <1>3, <1>4, <1>5, Zenon

LEMMA Updating ==
    ASSUME IInv, UNCHANGED scenario, NEW h \in Handlers, Update(h)
    PROVE  IInv'
<1>. PICK x, e : x = handler[h].x /\ e = handler[h].e
  BY Zenon
<1>. PICK q : q = [pc |-> "emit", x |-> x, e |-> e, new |-> FALSE]
  BY Zenon
<1>1. handler[h].pc = "save" /\ Becomes(h, q) /\ UNCHANGED <<blobs, client>>
  BY Zenon DEF Update, Becomes
<1>2. q.pc = "emit" /\ q.x = x /\ q.e = e
  BY Zenon
<1>3. /\ x \in DOMAIN row /\ x \in Entities
      /\ DOMAIN row' = DOMAIN row /\ row' = [y \in DOMAIN row' |-> row'[y]]
      /\ \A y \in DOMAIN row : y # x => row'[y] = row[y]
      /\ Good(x, row'[x]) /\ row'[x].phase = e.phase
      /\ tainted \subseteq tainted' /\ (x \notin tainted' => ~IsTerminal(row[x].phase))
  BY UpdateFacts
<1>4. Steady
  BY <1>1, <1>3, Zenon DEF Steady
<1>5. Rows'
  <2>. PICK r : r = row'[x]
    BY Zenon
  <2>1. Good(x, r)'
    BY <1>3, <1>4, GoodStays, Zenon
  <2>. QED  BY <1>3, <1>4, <2>1, RowsStay, Zenon
<1>6. \A y : LastEvent(y)' = LastEvent(y)
  BY Zenon DEF LastEvent, Plan
<1>7. e = LastEvent(x) => Final(x)'
  BY <1>3, <1>6, Zenon DEF Final
<1>8. KeepsFinal
  <2>. SUFFICES ASSUME NEW y \in Entities \ tainted', Final(y) PROVE Final(y)'
    BY Zenon DEF KeepsFinal
  <2>1. CASE y # x
    BY <1>3, <1>6, <2>1, Zenon DEF Final
  <2>2. CASE y = x
    <3>1. ~IsTerminal(LastEvent(x).phase)
      BY <1>3, <2>2, Zenon DEF Final
    <3>2. Len(Plan[x]) \in Nat /\ DOMAIN Plan[x] = 1 .. Len(Plan[x]) /\ ~(Len(Plan[x]) > 1)
      BY <1>3, <3>1, PlanFacts, Zenon DEF IInv
    <3>3. PICK i \in DOMAIN Plan[x] : e = Plan[x][i]
      BY <1>1, RequestFacts, Zenon
    <3>4. i = Len(Plan[x])
      BY <3>2
    <3>. QED  BY <1>7, <2>2, <3>3, <3>4, Zenon DEF LastEvent
  <2>. QED  BY <2>1, <2>2, Zenon
<1>9. Serves(q)
  BY <1>1, <1>2, ServesOn
<1>10. Carries(q)'
  BY <1>2, <1>3, Zenon DEF Carries
<1>11. Store' /\ blobs' = [k \in DOMAIN blobs' |-> blobs'[k]]
  BY <1>1, SameStore, Zenon DEF IInv, TypeOK
<1>12. DOMAIN row' \subseteq Entities
  BY <1>3, Zenon DEF IInv, TypeOK
<1>. QED  BY <1>1, <1>2, <1>3, <1>4, <1>5, <1>7, <1>8, <1>9, <1>10, <1>11, <1>12, Continues, Zenon

LEMMA Ending ==
    ASSUME IInv, UNCHANGED scenario, NEW h \in Handlers, Refuse(h) \/ Emit(h) \/ Fail(h)
    PROVE  IInv'
<1>. PICK x : x = handler[h].x
  BY Zenon
<1>1. CASE Refuse(h)
  <2>1. handler[h].pc = "refuse" /\ Answer(h, "error") /\ UNCHANGED <<row, blobs, tainted>>
    BY <1>1, Zenon DEF Refuse
  <2>. QED  BY <2>1, Returns, Zenon
<1>2. CASE Fail(h)
  <2>1. handler[h] # Idle /\ Answer(h, "error") /\ UNCHANGED <<row, blobs, tainted>>
    BY <1>2, Zenon DEF Fail
  <2>2. handler[h].pc # "idle"
    BY <2>1, Zenon DEF IInv, Serves
  <2>. QED  BY <2>1, <2>2, Returns, Zenon
<1>3. CASE Emit(h)
  <2>1. handler[h].pc = "emit" /\ Answer(h, "ok") /\ UNCHANGED <<row, blobs, tainted>>
    BY <1>3, Zenon DEF Emit
  <2>2. handler[h].e = LastEvent(x) /\ x \notin tainted' => Final(x)
    BY <2>1, RequestFacts, Zenon DEF IInv, Concluded
  <2>. QED  BY <2>1, <2>2, Returns, Zenon
<1>. QED  BY <1>1, <1>2, <1>3, Zenon

-----------------------------------------------------------------------------
(* The invariant.                                                          *)

LEMMA Starting == Init => IInv
<1>. SUFFICES ASSUME Init PROVE IInv
  BY Zenon
<1>1. /\ scenario \in Scenarios /\ row = <<>> /\ blobs = scenario.stored /\ tainted = {}
      /\ handler = [h \in Handlers |-> Idle]
      /\ client = [x \in Entities |-> [next |-> 1, waits |-> None, failed |-> FALSE]]
  BY Zenon DEF Init
<1>2. DOMAIN row = {} /\ row = [x \in DOMAIN row |-> row[x]]
  BY <1>1
<1>3. TypeOK
  BY <1>1, <1>2, StoreAssumption DEF TypeOK
<1>4. Waits
  BY <1>1, Zenon DEF Waits
<1>5. Rows
  BY <1>2, Zenon DEF Rows
<1>6. Store
  BY <1>1, StoreAssumption, Zenon DEF Store, Stored
<1>7. Ordered
  BY <1>1, <1>2, Zenon DEF Ordered, Idle
<1>8. Concluded
  <2>1. ASSUME NEW x \in Entities, client[x].next > Len(Plan[x]) PROVE Plan[x] = <<>>
    <3>1. Plan[x] \in Seq(Range(Plan[x]))
      BY <1>1, PlanAssumption, Zenon DEF Plan
    <3>2. client[x].next = 1
      BY <1>1, Zenon
    <3>. QED  BY <2>1, <3>1, <3>2
  <2>. QED  BY <1>1, <2>1, Zenon DEF Concluded, Idle
<1>9. ASSUME NEW h \in Handlers PROVE Serves(handler[h]) /\ Carries(handler[h])
  BY <1>1, Zenon DEF Serves, Carries, Idle, States
<1>. QED  BY <1>3, <1>4, <1>5, <1>6, <1>7, <1>8, <1>9, Zenon DEF IInv

LEMMA Inductive == IInv /\ [Next]_vars => IInv'
<1>. SUFFICES ASSUME IInv, [Next]_vars PROVE IInv'
  BY Zenon
<1>1. CASE UNCHANGED vars
  BY <1>1, Standing, Zenon DEF vars
<1>2. CASE Next
  <2>1. UNCHANGED scenario
    BY <1>2, Zenon DEF Next
  <2>2. ASSUME NEW x \in Entities, Timeout(x) PROVE IInv'
    BY <2>1, <2>2, TimingOut, Zenon
  <2>3. ASSUME NEW x \in Entities, Skip(x) PROVE IInv'
    BY <2>1, <2>3, Skipping, Zenon
  <2>4. ASSUME NEW x \in Entities, NEW h \in Handlers, Send(x, h) PROVE IInv'
    BY <2>1, <2>4, Sending, Zenon
  <2>5. ASSUME NEW n \in Nodes, LaunchChild(n) PROVE IInv'
    BY <2>1, <2>5, Standing, Zenon DEF LaunchChild
  <2>6. ASSUME NEW h \in Handlers, Step(h) PROVE IInv'
    <3>1. CASE Refuse(h) \/ Emit(h)
      BY <2>1, <3>1, Ending, Zenon
    <3>2. CASE uploadDynamicWorkflowClosure(h)
      BY <2>1, <3>2, Uploading, Zenon
    <3>3. CASE Get(h)
      BY <2>1, <3>3, Getting, Zenon
    <3>4. CASE createNodeExecutionWithEvent(h)
      BY <2>1, <3>4, CreatingNode, Zenon
    <3>5. CASE createTaskExecution(h)
      BY <2>1, <3>5, CreatingTask, Zenon
    <3>6. CASE Create(h)
      BY <2>1, <3>6, Inserting, Zenon
    <3>7. CASE updateNodeExecutionWithEvent(h)
      BY <2>1, <3>7, UpdatingNode, Zenon
    <3>8. CASE updateTaskExecutionModelState(h)
      BY <2>1, <3>8, UpdatingTask, Zenon
    <3>9. CASE Update(h)
      BY <2>1, <3>9, Updating, Zenon
    <3>. QED  BY <2>6, <3>1, <3>2, <3>3, <3>4, <3>5, <3>6, <3>7, <3>8, <3>9, Zenon DEF Step
  <2>7. ASSUME NEW h \in Handlers, Fail(h) PROVE IInv'
    BY <2>1, <2>7, Ending, Zenon
  <2>. QED  BY <1>2, <2>2, <2>3, <2>4, <2>5, <2>6, <2>7, Zenon DEF Next
<1>. QED  BY <1>1, <1>2, Zenon

\* The requests in their places, the rows right, what they refer to stored, and
\* the last phase shown once the engine is past it: CreateNodeEvent and
\* CreateTaskExecutionEvent, however their requests interleave.
THEOREM Invariant == Spec => []IInv
BY Starting, Inductive, PTL DEF Spec

-----------------------------------------------------------------------------
(* The properties.                                                         *)

\* addTerminalState finds the column started_at set whenever the closure says
\* when the node started, and a task's are equal, whatever requests raced.
THEOREM StartTimesAlwaysAgree == Spec => []StartTimesAgree
<1>1. IInv => StartTimesAgree
  BY Zenon DEF IInv, Rows, Good, StartsAgree, StartTimesAgree, NodeRows, TaskRows
<1>. QED  BY <1>1, Invariant, PTL

\* Once the engine has gone past the last event of a node or task, the row shows
\* its phase, unless a request wrote over another's row or lost an insert:
\* duplicates, late events and failures at any point of CreateNodeEvent and
\* CreateTaskExecutionEvent do not matter.
THEOREM AlwaysConverges == Spec => []Converges
<1>1. IInv => Converges
  BY Zenon DEF IInv, Concluded, Converges, Final, LastEvent
<1>. QED  BY <1>1, Invariant, PTL

\* A terminal phase stays and the version of a task's phase grows, unless a
\* request writes over a row it has not read: what the checks of
\* CreateTaskExecutionEvent and updateNodeExecutionWithEvent achieve.
THEOREM ProgressAlways == Spec => ProgressUnlessStale
<1>. DEFINE Progress ==
       \A x \in DOMAIN row : row'[x] # row[x] /\ x \notin tainted' =>
          /\ ~IsTerminal(row[x].phase)
          /\ x \in Tasks /\ row'[x].phase = row[x].phase =>
                row'[x].version > row[x].version
<1>1. IInv /\ [Next]_vars => [Progress]_vars
  <2>. SUFFICES ASSUME IInv, Next PROVE Progress
    BY Zenon
  <2>1. CASE UNCHANGED row
    BY <2>1, Zenon
  <2>2. ASSUME NEW h \in Handlers, Create(h) PROVE Progress
    <3>1. \A x \in DOMAIN row : row'[x] = row[x]
      BY <2>2, Zenon DEF Create
    <3>. QED  BY <3>1, Zenon
  <2>3. ASSUME NEW h \in Handlers, Update(h) PROVE Progress
    <3>. SUFFICES ASSUME NEW x \in DOMAIN row, row'[x] # row[x], x \notin tainted'
                  PROVE  /\ ~IsTerminal(row[x].phase)
                         /\ x \in Tasks /\ row'[x].phase = row[x].phase =>
                               row'[x].version > row[x].version
      BY Zenon
    <3>. PICK y, e : y = handler[h].x /\ e = handler[h].e
      BY Zenon
    <3>1. /\ \A z \in DOMAIN row : z # y => row'[z] = row[z]
          /\ row'[y].phase = e.phase /\ (y \in Tasks => row'[y].version = e.version)
          /\ y \notin tainted' => ~IsTerminal(row[y].phase) /\ ~Recorded(y, row[y], e)
      BY <2>3, UpdateFacts DEF Next
    <3>2. y = x
      BY <3>1, Zenon
    <3>3. Good(x, row[x])
      BY Zenon DEF IInv, Rows
    <3>4. x \in Tasks => row[x].version \in Nat /\ e.version \in Nat
      <4>1. handler[h].pc = "save"
        BY <2>3, Zenon DEF Update
      <4>2. PICK i \in DOMAIN Plan[x] : e = Plan[x][i]
        BY <3>2, <4>1, RequestFacts, Zenon
      <4>3. x \in Entities
        BY Zenon DEF IInv, TypeOK
      <4>4. e.version \in Nat
        BY <4>2, <4>3, PlanFacts, Zenon DEF IInv
      <4>. QED  BY <3>3, <4>4, Zenon DEF Good, Planned
    <3>. QED  BY <3>1, <3>2, <3>4 DEF Recorded
  <2>. QED  BY <2>1, <2>2, <2>3, Zenon DEF Next, Timeout, Skip, Send, LaunchChild, Step, Fail,
                 Refuse, uploadDynamicWorkflowClosure, Get, createNodeExecutionWithEvent,
                 createTaskExecution, updateNodeExecutionWithEvent,
                 updateTaskExecutionModelState, Emit
<1>. QED  BY <1>1, Invariant, PTL DEF Spec, ProgressUnlessStale

-----------------------------------------------------------------------------
(* Every node is listed.                                                   *)

\* The nodes found are all those that whoever asks is told of next.
Closed(found) ==
    \A m \in NodeRows :
       \/ ParentNode[m] = None /\ ParentTask[m] = None
       \/ ParentNode[m] \in found
       \/ ParentTask[m] \in TaskRows /\ TaskNode[ParentTask[m]] \in found
       => m \in found
Listed == \A found \in SUBSET NodeRows : Closed(found) => found = NodeRows

LEMMA ListedMeans ==
    ASSUME IInv, Listed
    PROVE  EveryNodeIsListed
<1>. SUFFICES ASSUME NEW found \in SUBSET NodeRows,
                     Ids(ListNodeExecutions(None)) \subseteq found,
                     \A n \in found :
                        /\ GetNodeExecution(n).isParentNode =>
                              Ids(ListNodeExecutions(n)) \subseteq found
                        /\ \A t \in ListTaskExecutions(n) : t.isParent =>
                              Ids(ListNodeExecutionsForTask(t.id)) \subseteq found
              PROVE  found = NodeRows
  BY Zenon DEF EveryNodeIsListed
<1>1. /\ \A m \in NodeRows : /\ m \in Nodes /\ row[m].parentNode = ParentNode[m]
                             /\ row[m].parentTask = ParentTask[m]
      /\ None \notin Nodes
  BY NoneAssumption, Zenon DEF IInv, Rows, Good, Planned, NodeRows, Entities
<1>2. \A m : GetNodeExecution(m).id = m
  BY Zenon DEF GetNodeExecution, FromNodeExecutionModel, NodeModel
<1>3. ASSUME NEW m \in NodeRows, ParentNode[m] = None, ParentTask[m] = None PROVE m \in found
  <2>1. GetNodeExecution(m) \in ListNodeExecutions(None)
    BY <1>1, <1>3, Zenon DEF ListNodeExecutions
  <2>. QED  BY <1>2, <2>1, Zenon DEF Ids
<1>4. ASSUME NEW m \in NodeRows, ParentNode[m] \in found PROVE m \in found
  <2>. PICK n : n = ParentNode[m]
    BY Zenon
  <2>1. n \in found /\ n # None /\ row[m].parentNode = n
    BY <1>1, <1>4, Zenon DEF NodeRows
  <2>2. GetNodeExecution(n).isParentNode
    BY <2>1, Zenon DEF GetNodeExecution, FromNodeExecutionModel, NodeModel
  <2>3. GetNodeExecution(m) \in ListNodeExecutions(n)
    BY <2>1, Zenon DEF ListNodeExecutions
  <2>. QED  BY <1>2, <2>1, <2>2, <2>3, Zenon DEF Ids
<1>5. ASSUME NEW m \in NodeRows, ParentTask[m] \in TaskRows, TaskNode[ParentTask[m]] \in found
      PROVE  m \in found
  <2>. PICK t : t = ParentTask[m]
    BY Zenon
  <2>. PICK shown : shown = GetTaskExecution(t)
    BY Zenon
  <2>1. t \in TaskRows /\ TaskNode[t] \in found /\ row[m].parentTask = t
    BY <1>1, <1>5, Zenon
  <2>2. shown \in ListTaskExecutions(TaskNode[t])
    BY <2>1, Zenon DEF ListTaskExecutions
  <2>3. shown.id = t /\ shown.isParent
    BY <2>1, Zenon DEF GetTaskExecution, FromTaskExecutionModel, TaskModel
  <2>4. GetNodeExecution(m) \in ListNodeExecutionsForTask(t)
    BY <2>1, Zenon DEF ListNodeExecutionsForTask
  <2>. QED  BY <1>2, <2>1, <2>2, <2>3, <2>4, Zenon DEF Ids
<1>6. Closed(found)
  BY <1>3, <1>4, <1>5, Zenon DEF Closed
<1>. QED  BY <1>6, Zenon DEF Listed

\* A row is inserted when its parents have theirs.
LEMMA RowsComeInOrder ==
    ASSUME IInv, [Next]_vars
    PROVE  DOMAIN row \subseteq DOMAIN row' /\ \A x \in DOMAIN row' : x \in DOMAIN row \/ Placed(x)
<1>1. CASE UNCHANGED row
  BY <1>1, Zenon
<1>2. ASSUME NEW h \in Handlers, Create(h)
      PROVE  DOMAIN row \subseteq DOMAIN row' /\ \A x \in DOMAIN row' : x \in DOMAIN row \/ Placed(x)
  <2>1. handler[h].pc = "insert"
    BY <1>2, Zenon DEF Create
  <2>2. Placed(handler[h].x)
    BY <2>1, Zenon DEF IInv, Ordered
  <2>3. row' = row \/ DOMAIN row' = DOMAIN row \cup {handler[h].x}
    BY <1>2, Zenon DEF Create
  <2>. QED  BY <2>2, <2>3, Zenon
<1>3. ASSUME NEW h \in Handlers, Update(h) PROVE DOMAIN row' = DOMAIN row
  BY <1>3, Zenon DEF Update
<1>. QED  BY <1>1, <1>2, <1>3, Zenon DEF Next, vars, Timeout, Skip, Send, LaunchChild, Step, Fail,
               Refuse, uploadDynamicWorkflowClosure, Get, createNodeExecutionWithEvent,
               createTaskExecution, updateNodeExecutionWithEvent,
               updateTaskExecutionModelState, Emit

LEMMA ListedStays ==
    ASSUME IInv, Listed, [Next]_vars
    PROVE  Listed'
<1>1. DOMAIN row \subseteq DOMAIN row' /\ \A x \in DOMAIN row' : x \in DOMAIN row \/ Placed(x)
  BY RowsComeInOrder, Zenon
<1>2. NodeRows \subseteq NodeRows' /\ TaskRows \subseteq TaskRows'
  BY <1>1, Zenon DEF NodeRows, TaskRows
<1>. SUFFICES ASSUME NEW found \in SUBSET NodeRows', Closed(found)' PROVE found = NodeRows'
  BY Zenon DEF Listed
<1>. PICK before : before = found \cap NodeRows
  BY Zenon
<1>3. Closed(before)
  <2>. SUFFICES ASSUME NEW m \in NodeRows,
                       \/ ParentNode[m] = None /\ ParentTask[m] = None
                       \/ ParentNode[m] \in before
                       \/ ParentTask[m] \in TaskRows /\ TaskNode[ParentTask[m]] \in before
                PROVE  m \in found
    BY Zenon DEF Closed
  <2>. QED  BY <1>2, Zenon DEF Closed
<1>4. NodeRows \subseteq found
  BY <1>3, Zenon DEF Listed
<1>5. ASSUME NEW m \in NodeRows' PROVE m \in found
  <2>1. CASE m \in NodeRows
    BY <1>4, <2>1, Zenon
  <2>2. CASE m \notin NodeRows
    <3>1. m \in Nodes /\ ParentsExist(m)
      BY <1>1, <2>2, Zenon DEF NodeRows, Placed
    <3>2. CASE ParentNode[m] = None /\ ParentTask[m] = None
      BY <3>2, Zenon DEF Closed
    <3>3. CASE ParentNode[m] # None
      <4>1. ParentNode[m] \in NodeRows
        BY <3>1, <3>3, ParentAssumption, Zenon DEF ParentsExist, NodeRows
      <4>. QED  BY <1>4, <4>1, Zenon DEF Closed
    <3>4. CASE ParentTask[m] # None
      <4>. PICK t : t = ParentTask[m]
        BY Zenon
      <4>1. t \in TaskRows /\ t \in Tasks /\ t \in DOMAIN row
        BY <3>1, <3>4, ParentAssumption, Zenon DEF ParentsExist, TaskRows
      <4>2. TaskNode[t] \in NodeRows
        BY <4>1, ParentAssumption, Zenon DEF IInv, Ordered, Placed, NodeRows
      <4>. QED  BY <1>2, <1>4, <4>1, <4>2, Zenon DEF Closed
    <3>. QED  BY <3>2, <3>3, <3>4, Zenon
  <2>. QED  BY <2>1, <2>2, Zenon
<1>. QED  BY <1>5, Zenon

\* Whoever walks from the nodes without a parent over ListNodeExecutions,
\* ListTaskExecutions and ListNodeExecutionsForTask finds every node, in any
\* tree of nodes and tasks.
THEOREM EveryNodeAlwaysListed == Spec => []EveryNodeIsListed
<1>1. Init => Listed
  BY DEF Init, Listed, NodeRows
<1>2. IInv /\ Listed /\ [Next]_vars => Listed'
  BY ListedStays, Zenon
<1>3. IInv /\ Listed => EveryNodeIsListed
  BY ListedMeans, Zenon
<1>. QED  BY <1>1, <1>2, <1>3, Invariant, PTL DEF Spec

\* What a row refers to is stored before the row is, and stays: the requests
\* GetNodeExecutionData and GetTaskExecutionData answer for every row and serve
\* the outputs of its last phase, however the requests that wrote them raced.
THEOREM DataIsAlwaysServed == Spec => []DataIsServed
<1>1. ASSUME IInv PROVE DataIsServed
  <2>. SUFFICES ASSUME NEW x \in DOMAIN row
                PROVE  /\ GetData(x).ok
                       /\ IsTerminal(row[x].phase) => \E i \in DOMAIN Plan[x] :
                             /\ Plan[x][i].phase = row[x].phase
                             /\ \/ GetData(x).fullOutputs = Reported(x, i)
                                \/ Reported(x, i) >= MaxSizeInBytes
    BY Zenon DEF DataIsServed
  <2>. PICK inputs : inputs = GetInputs(row[x].inputs)
    BY Zenon
  <2>. PICK outputs : outputs = GetOutputs(row[x].closure.outputs)
    BY Zenon
  <2>1. inputs.ok
    BY <1>1, InputsServed, Zenon
  <2>2. /\ outputs.ok
        /\ IsTerminal(row[x].phase) => \E i \in DOMAIN Plan[x] :
              /\ Plan[x][i].phase = row[x].phase
              /\ outputs.full = Reported(x, i) \/ Reported(x, i) >= MaxSizeInBytes
    BY <1>1, OutputsServed, Zenon
  <2>3. GetData(x) = [ok |-> TRUE, fullInputs |-> inputs.full, fullOutputs |-> outputs.full]
    <3>1. CASE x \in Nodes
      <4>1. /\ GetNodeExecution(x).inputs = row[x].inputs
            /\ GetNodeExecution(x).closure = row[x].closure
        BY Zenon DEF GetNodeExecution, FromNodeExecutionModel, NodeModel
      <4>2. row[x].dynamic # None => Stored(row[x].dynamic)
        BY <1>1, <3>1, Zenon DEF IInv, Rows, Good, Refers
      <4>. QED  BY <2>1, <2>2, <3>1, <4>1, <4>2, Zenon DEF GetData, GetNodeExecutionData
    <3>2. CASE x \notin Nodes
      <4>1. /\ GetTaskExecution(x).inputs = row[x].inputs
            /\ GetTaskExecution(x).closure = row[x].closure
        BY Zenon DEF GetTaskExecution, FromTaskExecutionModel, TaskModel
      <4>. QED  BY <2>1, <2>2, <3>2, <4>1, Zenon DEF GetData, GetTaskExecutionData
    <3>. QED  BY <3>1, <3>2, Zenon
  <2>. QED  BY <2>2, <2>3
<1>. QED  BY <1>1, Invariant, PTL

=============================================================================

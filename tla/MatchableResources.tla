------------------------- MODULE MatchableResources -------------------------
(***************************************************************************)
(* The attributes that override the platform's configuration for one       *)
(* project and domain, or for one of its workflows: the resource manager   *)
(* (pkg/manager/impl/resources) over the resources table                   *)
(* (pkg/repositories/gormimpl/resource_repo.go).                           *)
(*                                                                         *)
(* An update is up to four database statements, none of them in one        *)
(* transaction with another: the read of the row to merge with, the two    *)
(* statements of gorm's FirstOrCreate, and gorm's Save.  The new row is    *)
(* inserted without attributes, and the table has no unique index.         *)
(***************************************************************************)
EXTENDS Naturals

CONSTANTS Workflows,     \* names of workflows
          Workloads,     \* what may be asked in one behaviour, see workload
          TaskTypes,     \* the types of tasks that plugins serve
          Plugins,       \* the plugins
          Handlers,      \* goroutines that serve requests
          MaxFaults,     \* bound: database errors and restarts
          None           \* no value

VARIABLES rows,          \* the resources table
          lastId,        \* its sequence
          handler,       \* the update each goroutine is serving
          want,          \* history: what the acknowledged requests have set
          spoiled,       \* history: the keys whose requests overlapped, were
                         \* half done, or reached another key's row
          workload,      \* bound: the requests still to come, each once
          faults         \* bound: faults so far

resourceVars == <<rows, lastId, handler, want, spoiled, workload, faults>>

\* A workload has the resources table to begin with (table) and its sequence
\* (lastId), update requests [workflow, attributes] (updates) and delete requests
\* [workflow, type] (deletes).

\* A project and domain's own attributes have no workflow.
ProjectDomain == ""
Levels == Workflows \cup {ProjectDomain}

Types == {"TASK_RESOURCE", "CLUSTER_RESOURCE", "EXECUTION_QUEUE",
          "EXECUTION_CLUSTER_LABEL", "PLUGIN_OVERRIDE",
          "WORKFLOW_EXECUTION_CONFIG"}

Key(workflow, type) == [workflow |-> workflow, type |-> type]
Keys == [workflow: Levels, type: Types]

\* Attributes have a type and a value; a plugin override's value names the
\* plugins of some task types.  The attributes of a row are those of a request,
\* or merged from several.
PluginOverrides ==
    [type : {"PLUGIN_OVERRIDE"}, value : UNION {[s -> Plugins] : s \in SUBSET TaskTypes}]
Requested == UNION {{r.attributes : r \in w.table} \cup {u.attributes : u \in w.updates} : w \in Workloads}
Attributes == {a \in Requested : a.type \in Types} \cup PluginOverrides

\* The attributes of a row that was inserted and not yet saved.
Empty == [type |-> None, value |-> None]

ASSUME LevelAssumption == ProjectDomain \notin Workflows

ASSUME NoneAssumption == None \notin Attributes \cup Types

ASSUME RequestedAssumption ==
    \A a \in Requested : a.type = "PLUGIN_OVERRIDE" => a \in PluginOverrides

\* A table to begin with has one row of a key, and ids of its sequence.
ASSUME WorkloadAssumption ==
    \A w \in Workloads :
       /\ {"table", "lastId", "updates", "deletes"} \subseteq DOMAIN w
       /\ w.lastId \in Nat
       /\ w.table \subseteq [id : Nat, workflow : Levels, type : Types, attributes : Attributes]
       /\ \A r \in w.table : r.id <= w.lastId /\ r.attributes.type = r.type
       /\ \A r, s \in w.table :
             r.id = s.id \/ (r.workflow = s.workflow /\ r.type = s.type) => r = s
       /\ \A u \in w.updates : u.workflow \in Levels
       /\ w.deletes \subseteq Keys

Idle == [pc |-> "idle"]

\* The entries of a map over those of another.
Over(f, g) == [x \in DOMAIN f \cup DOMAIN g |-> IF x \in DOMAIN f THEN f[x] ELSE g[x]]

-----------------------------------------------------------------------------
(* The repository.                                                         *)

Priority(workflow) == IF workflow = ProjectDomain THEN 10 ELSE 100

validateCreateOrUpdateResourceInput(workflow, launchPlan) ==
    workflow = ProjectDomain => launchPlan = ""

\* First orders by the primary key.
First(matching) == CHOOSE r \in matching : \A q \in matching : r.id <= q.id

\* Where(&struct) leaves out the columns that are empty in the struct.
WhereStruct(workflow, type) ==
    {r \in rows : r.type = type /\ (workflow # ProjectDomain => r.workflow = workflow)}

\* The rows GetRaw takes the first of.
GetRaw(k) == WhereStruct(k.workflow, k.type)

\* The rows FirstOrCreate looks for; the priority is one of its columns.
FirstOrCreateWhere(workflow, type) ==
    {r \in WhereStruct(workflow, type) : Priority(r.workflow) = Priority(workflow)}

\* What a lookup finds: the row of the highest priority, None when not found.
VariantLeastSpecific(workflow, type, launchPlan) ==
    LET found == {r \in rows : r.type = type /\ r.workflow \in {ProjectDomain, workflow}}
        least == {r \in found : \A q \in found : Priority(r.workflow) <= Priority(q.workflow)}
    IN  IF least = {} THEN None ELSE First(least).attributes
ResourceGet(workflow, type, launchPlan) ==
    LET found == {r \in rows : /\ validateCreateOrUpdateResourceInput(workflow, launchPlan)
                               /\ r.type = type
                               /\ r.workflow \in {ProjectDomain, workflow}}
        top == {r \in found : \A q \in found : Priority(r.workflow) >= Priority(q.workflow)}
    IN  IF top = {} THEN None ELSE First(top).attributes

\* ListAll: every row of the type.
RepoListAll(type) == {r \in rows : r.type = type}

-----------------------------------------------------------------------------
(* What the resource manager answers: attributes, or None when not found.  *)

GetResource(workflow, type, launchPlan) == ResourceGet(workflow, type, launchPlan)

GetWorkflowAttributes(workflow, type) ==
    IF workflow # ProjectDomain THEN ResourceGet(workflow, type, "") ELSE None

GetProjectDomainAttributes(type) == ResourceGet(ProjectDomain, type, "")

FromResourceModelToMatchableAttributes(r) == [workflow |-> r.workflow, attributes |-> r.attributes]

ListAll(type) == IF type \in Types
                 THEN {FromResourceModelToMatchableAttributes(r) : r \in RepoListAll(type)} ELSE {}

-----------------------------------------------------------------------------
(* The history the properties are about.                                   *)

KeyOf(r) == Key(r.workflow, r.type)

Updating(k) == \E g \in Handlers : handler[g].pc # "idle" /\ handler[g].key = k

Spoil(keys) == spoiled' = spoiled \cup keys

\* What a key is to have after an update: plugin overrides add up by task
\* type, everything else is replaced.
Merged(existing, new) ==
    IF existing = None \/ new.type # "PLUGIN_OVERRIDE" THEN new
    ELSE [new EXCEPT !.value = [t \in DOMAIN new.value \cup DOMAIN existing.value |->
            IF t \in DOMAIN new.value THEN new.value[t] ELSE existing.value[t]]]

-----------------------------------------------------------------------------
(* Updates.                                                                *)

\* validateMatchingAttributes knows these targets and refuses all others,
\* the quality of service among them.
validateMatchingAttributes(attributes) == attributes.type \in Types

ValidateWorkflowAttributesUpdateRequest(u) ==
    u.workflow # ProjectDomain /\ validateMatchingAttributes(u.attributes)

ValidateProjectDomainAttributesUpdateRequest(u) ==
    u.workflow = ProjectDomain /\ validateMatchingAttributes(u.attributes)

WorkflowAttributesToResourceModel(u) ==
    [workflow |-> u.workflow, type |-> u.attributes.type, attributes |-> u.attributes]

ProjectDomainAttributesToResourceModel(u) ==
    [workflow |-> ProjectDomain, type |-> u.attributes.type, attributes |-> u.attributes]

\* Both updates: plugin overrides are read first, to be merged.
Serve(h, u, model) ==
    /\ handler[h] = Idle
    /\ handler' = [handler EXCEPT ![h] =
          [pc |-> IF model.type = "PLUGIN_OVERRIDE" THEN "getRaw" ELSE "firstOrCreate",
           key |-> KeyOf(model), asked |-> u.attributes, model |-> model, record |-> None]]
    /\ Spoil({k \in {KeyOf(model)} : Updating(k)})
    /\ workload' = [workload EXCEPT !.updates = @ \ {u}]
    /\ UNCHANGED <<rows, lastId, want, faults>>

\* A refused request answers and changes nothing.
UpdateWorkflowAttributes(h, u) ==
    /\ ValidateWorkflowAttributesUpdateRequest(u)
    /\ Serve(h, u, WorkflowAttributesToResourceModel(u))

UpdateProjectDomainAttributes(h, u) ==
    /\ ValidateProjectDomainAttributesUpdateRequest(u)
    /\ Serve(h, u, ProjectDomainAttributesToResourceModel(u))

\* Overrides are merged by task type, the new ones first.
VariantMergeKeepsOld(existing, new) ==
    IF existing = None \/ existing = Empty THEN new
    ELSE [new EXCEPT !.value = Over(existing.value, new.value)]
mergeUpdatePluginOverrides(existing, new) ==
    IF existing = None \/ existing = Empty THEN new
    ELSE [new EXCEPT !.value = Over(new.value, existing.value)]

\* The model written is the row that was read, with the merged attributes.
MergeUpdateAttributes(existing, attributes) ==
    [workflow |-> existing.workflow, type |-> existing.type,
     attributes |-> mergeUpdatePluginOverrides(existing.attributes, attributes)]

MergeWith(h, found) ==
    /\ handler[h].pc = "getRaw"
    /\ LET m == handler[h].model
       IN  IF found = {}
           THEN handler' = [handler EXCEPT ![h].pc = "firstOrCreate"] /\ UNCHANGED spoiled
           ELSE /\ handler' = [handler EXCEPT ![h].pc = "firstOrCreate",
                      ![h].model = MergeUpdateAttributes(First(found), m.attributes)]
                /\ Spoil(IF First(found).workflow = m.workflow THEN {}
                         ELSE {KeyOf(First(found)), KeyOf(m)})
    /\ UNCHANGED <<rows, lastId, want, workload, faults>>

createOrMergeUpdateWorkflowAttributes(h) ==
    /\ handler[h].pc = "getRaw" /\ handler[h].key.workflow # ProjectDomain
    /\ MergeWith(h, GetRaw(handler[h].key))

createOrMergeUpdateProjectDomainAttributes(h) ==
    /\ handler[h].pc = "getRaw" /\ handler[h].key.workflow = ProjectDomain
    /\ MergeWith(h, GetRaw(handler[h].key))

\* The SELECT of FirstOrCreate.
FirstOrCreate(h) ==
    /\ handler[h].pc = "firstOrCreate"
    /\ LET found == FirstOrCreateWhere(handler[h].model.workflow, handler[h].model.type)
       IN  handler' = [handler EXCEPT ![h] =
             IF found = {} THEN [@ EXCEPT !.pc = "create"]
             ELSE [@ EXCEPT !.pc = "save", !.record = First(found)]]
    /\ UNCHANGED <<rows, lastId, want, spoiled, workload, faults>>

\* Its INSERT.
Create(h) ==
    /\ handler[h].pc = "create"
    /\ LET m == handler[h].model
           r == [id |-> lastId + 1, workflow |-> m.workflow, type |-> m.type, attributes |-> Empty]
       IN  /\ rows' = rows \cup {r}
           /\ handler' = [handler EXCEPT ![h].pc = "save", ![h].record = r]
    /\ lastId' = lastId + 1
    /\ UNCHANGED <<want, spoiled, workload, faults>>

\* Save updates the row by its id, and inserts it again when it is gone.
Save(h) ==
    /\ handler[h].pc = "save"
    /\ LET r == [handler[h].record EXCEPT !.attributes = handler[h].model.attributes]
       IN  rows' = {q \in rows : q.id # r.id} \cup {r}
    /\ want' = [want EXCEPT ![handler[h].key] = Merged(@, handler[h].asked)]
    /\ handler' = [handler EXCEPT ![h] = Idle]
    /\ UNCHANGED <<lastId, spoiled, workload, faults>>

\* A statement fails and the request with it: only one that has inserted its
\* row leaves something behind.
HalfDone(h) == {k \in {handler[h].key} : handler[h].pc = "save" /\ handler[h].record.attributes = Empty}
UpdateFails(h) ==
    /\ handler[h] # Idle /\ faults < MaxFaults
    /\ faults' = faults + 1
    /\ handler' = [handler EXCEPT ![h] = Idle]
    /\ Spoil(HalfDone(h))
    /\ UNCHANGED <<rows, lastId, want, workload>>

\* One statement, which deletes the rows of every workflow too when it is
\* given none.
Delete(d) ==
    /\ LET deleted == WhereStruct(d.workflow, d.type)
       IN  /\ rows' = rows \ deleted
           /\ Spoil({x \in {d} : Updating(d)} \cup ({KeyOf(r) : r \in deleted} \ {d}))
    /\ want' = [want EXCEPT ![d] = None]
    /\ workload' = [workload EXCEPT !.deletes = @ \ {d}]
    /\ UNCHANGED <<lastId, handler, faults>>

DeleteWorkflowAttributes(d) == d.workflow # ProjectDomain /\ Delete(d)

DeleteProjectDomainAttributes(d) == d.workflow = ProjectDomain /\ Delete(d)

-----------------------------------------------------------------------------
ResourceInit ==
    /\ workload \in Workloads
    /\ rows = workload.table
    /\ lastId = workload.lastId
    /\ handler = [h \in Handlers |-> Idle]
    /\ want = [k \in Keys |-> LET own == {r \in rows : KeyOf(r) = k}
                              IN  IF own = {} THEN None ELSE First(own).attributes]
    /\ spoiled = {}
    /\ faults = 0

ResourceNext ==
    \/ \E h \in Handlers :
          \/ \E u \in workload.updates : \/ UpdateWorkflowAttributes(h, u)
                                         \/ UpdateProjectDomainAttributes(h, u)
          \/ createOrMergeUpdateWorkflowAttributes(h)
          \/ createOrMergeUpdateProjectDomainAttributes(h)
          \/ FirstOrCreate(h) \/ Create(h) \/ Save(h)
          \/ UpdateFails(h)
    \/ \E d \in workload.deletes : DeleteWorkflowAttributes(d) \/ DeleteProjectDomainAttributes(d)

-----------------------------------------------------------------------------
\* Nothing is being written for the key, and its requests were served one
\* after the other, to the end and on its own row.
Quiet(k) == k \notin spoiled /\ ~Updating(k)

AtMostOne(S) == \A x, y \in S : x = y

\* The override that applies to a workflow: the most specific one.
Override(workflow, type) ==
    IF want[Key(workflow, type)] # None THEN want[Key(workflow, type)]
    ELSE want[Key(ProjectDomain, type)]

\* What the requests acknowledged so far have set is what is served: a
\* workflow's own attributes, or else those of its project and domain, and
\* each once in the list of all.  Of updates, merges and deletes at two levels
\* and of several types, none reaches the row of another key (see Spoil for
\* the requests that do).
AcknowledgedIsServed ==
    \A w \in Workflows, t \in Types :
        LET own == Key(w, t)
            shared == Key(ProjectDomain, t)
            listed(k) == {a \in ListAll(t) : a.workflow = k.workflow}
        IN  /\ Quiet(shared) => GetProjectDomainAttributes(t) = want[shared]
            /\ Quiet(own) /\ Quiet(shared) => GetWorkflowAttributes(w, t) = Override(w, t)
            /\ \A k \in {own, shared} : Quiet(k) =>
                  /\ listed(k) = {[workflow |-> k.workflow, attributes |-> a] : a \in {want[k]} \ {None}}
                  /\ AtMostOne({r \in rows : KeyOf(r) = k})

=============================================================================

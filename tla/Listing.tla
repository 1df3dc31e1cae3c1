------------------------------- MODULE Listing -------------------------------
(***************************************************************************)
(* The list requests: filters, order, and the offset tokens with which a   *)
(* client goes from page to page while other requests change the tables.   *)
(*                                                                         *)
(* Every list request validates its arguments, makes database filters of   *)
(* them, runs one query with a limit and an offset, and hands out a token  *)
(* for the next page when the page is full.  Nothing is kept on the server *)
(* between two pages.                                                      *)
(***************************************************************************)
EXTENDS Integers, Sequences, FiniteSets, SequencesExt

CONSTANTS Rows,        \* the primary keys, natural numbers
          Attr,        \* the columns of each row that never change
          Substrings,  \* the names that a name contains
          Requests,    \* the list requests of the client
          MaxChanges,  \* bound on changes of the table during a listing
          None         \* NULL

VARIABLES table,    \* the rows in the table
          state,    \* the state column of each row, of the metadata for a named entity
          pager,    \* the client: its request, the token it has, what it has seen
          changes,  \* changes since the first page
          history   \* history: what every page listed, and how the listing changed

vars == <<table, state, pager, changes, history>>

NamedEntityLists == {"workflowEntities", "taskEntities"}

-----------------------------------------------------------------------------
(* Filters.  A filter that cannot be built is an error.                    *)

singleValueFilters == {"contains", "gt", "gte", "lt", "lte", "eq", "ne"}
repeatedValueFilters == {"value_in"}

\* The metadata of a named entity are in a table of their own.
customizeEntity(field, entity) ==
    IF entity = "named_entity" /\ field = "state" THEN "named_entity_metadata" ELSE entity

NewSingleValueFilter(entity, fn, field, values) ==
    [entity |-> customizeEntity(field, entity), fn |-> fn, field |-> field, values |-> values,
     default |-> None]

NewRepeatedValueFilter(entity, fn, field, values) ==
    [entity |-> entity, fn |-> fn, field |-> field, values |-> values, default |-> None]

NewInlineFilter(entity, f) ==
    CASE f.fn \in singleValueFilters   -> NewSingleValueFilter(entity, f.fn, f.field, f.values)
      [] f.fn \in repeatedValueFilters -> NewRepeatedValueFilter(entity, f.fn, f.field, f.values)
      [] OTHER                         -> None

NewWithDefaultValueFilter(default, f) == [f EXCEPT !.default = default]

GetSingleValueEqualityFilter(entity, field, value) ==
    NewSingleValueFilter(entity, "eq", field, {value})

\* prepareValues: None stands for a text that is no time or duration.
prepareValues(f) == None \notin f.values

\* ParseFilters: every expression must be a filter.
ParseFilters(entity, exprs) ==
    LET fs == {IF prepareValues(f) THEN NewInlineFilter(entity, f) ELSE None : f \in exprs}
    IN  IF None \in fs THEN None ELSE fs

\* The scope stands for project and domain.
getIdentifierFilters(entity, r) ==
    {GetSingleValueEqualityFilter(entity, "scope", r.scope)}
    \cup (IF r.name = None THEN {} ELSE {GetSingleValueEqualityFilter(entity, "name", r.name)})

AddRequestFilters(entity, exprs, existing) ==
    IF ParseFilters(entity, exprs) = None THEN None
    ELSE existing \cup ParseFilters(entity, exprs)

GetDbFilters(entity, r) == AddRequestFilters(entity, r.filters, getIdentifierFilters(entity, r))

\* The scope stands for the execution, and for the node execution.
GetWorkflowExecutionIdentifierFilters(r) ==
    {GetSingleValueEqualityFilter("execution", "scope", r.scope)}
GetNodeExecutionIdentifierFilters(r) ==
    {GetSingleValueEqualityFilter("node_execution", "scope", r.scope)}

ListActiveLaunchPlanVersionsFilters(r) ==
    {GetSingleValueEqualityFilter("launch_plan", "scope", r.scope),
     GetSingleValueEqualityFilter("launch_plan", "state", "ACTIVE")}

\* getQueryFilters of the named entities: workflows the system generated are
\* hidden, and an entity without metadata has the default state.
getQueryFilters(r) ==
    LET parsed == ParseFilters("named_entity", r.filters)
        hidden == NewWithDefaultValueFilter("ACTIVE",
                      NewSingleValueFilter("named_entity_metadata", "ne", "state", {"SYSTEM_GENERATED"}))
    IN  IF parsed = None THEN None
        ELSE (IF r.list = "workflowEntities" THEN {hidden} ELSE {})
             \cup {IF f.field = "state" THEN NewWithDefaultValueFilter("ACTIVE", f) ELSE f :
                   f \in parsed}

\* The query of a filter, on the value of a column.  Nothing compares to NULL.
getGormQueryExpr(f, x) ==
    CASE x = None            -> FALSE
      [] f.fn = "value_in"   -> x \in f.values
      [] f.fn = "contains"   -> \E v \in f.values : v \in Substrings[x]
      [] f.fn = "gt"         -> \E v \in f.values : x > v
      [] f.fn = "gte"        -> \E v \in f.values : x >= v
      [] f.fn = "lt"         -> \E v \in f.values : x < v
      [] f.fn = "lte"        -> \E v \in f.values : x <= v
      [] f.fn = "eq"         -> x \in f.values
      [] f.fn = "ne"         -> x \notin f.values

\* The metadata of a named entity are shared by the rows of that name.
StateKey(r) ==
    IF pager.request.list \in NamedEntityLists
    THEN CHOOSE x \in Rows : /\ Attr[x].name = Attr[r].name
                             /\ \A y \in Rows : Attr[y].name = Attr[r].name => x <= y
    ELSE r

Column(r, field) == IF field = "state" THEN state[StateKey(r)] ELSE Attr[r][field]

Matches(f, r) ==
    LET x == Column(r, f.field)
    IN  getGormQueryExpr(f, IF x = None THEN f.default ELSE x)

\* applyFilters and applyScopedFilters.
applyFilters(fs) == {r \in table : \A f \in fs : Matches(f, r)}

-----------------------------------------------------------------------------
(* Order and pages.                                                        *)

\* NewSortParameter: one key and a direction.
NewSortParameter(sort) == sort = None \/ sort.direction \in {"ascending", "descending"}

\* Variant that starts one too far.
ValidateTokenPast(token) == IF token = None THEN 0 ELSE token + 1

\* ValidateToken: no token is the first page.
ValidateToken(token) == IF token = None THEN 0 ELSE token

ValidateLimit(limit) == limit # 0
ValidateResourceListRequest(r) == ValidateLimit(r.limit)
ValidateActiveLaunchPlanListRequest(r) == ValidateLimit(r.limit)
ValidateNamedEntityIdentifierListRequest(r) == ValidateLimit(r.limit)
ValidateNamedEntityListRequest(r) == ValidateLimit(r.limit)
ValidateNodeExecutionListRequest(r) == ValidateLimit(r.limit)
ValidateNodeExecutionForTaskListRequest(r) == ValidateLimit(r.limit)
ValidateTaskExecutionListRequest(r) == ValidateLimit(r.limit)

\* The database returns rows in an order that respects the sort parameter and is
\* otherwise anything, from one query to the next.
Before(a, b, key(_, _), sort) ==
    CASE sort = None                    -> TRUE
      [] sort.direction = "ascending"   -> key(a, sort.key) <= key(b, sort.key)
      [] sort.direction = "descending"  -> key(a, sort.key) >= key(b, sort.key)

Orderings(items, key(_, _), sort) ==
    {s \in SetToSeqs(items) : \A i, j \in DOMAIN s : i < j => Before(s[i], s[j], key, sort)}

\* Limit and Offset of a query.
LimitOffset(s, offset, limit) ==
    SubSeq(s, offset + 1, IF offset + limit < Len(s) THEN offset + limit ELSE Len(s))

RowKey(r, key) == IF key = "name" THEN Attr[r].name ELSE r
NameKey(n, key) == n

\* Variant that hands out a token with every page.
NextTokenAlways(page, offset, limit) == offset + Len(page)

\* A full page comes with the offset of the next one.
NextToken(page, offset, limit) == IF Len(page) = limit THEN offset + Len(page) ELSE None

-----------------------------------------------------------------------------
(* The queries of the repositories, as the set of pages they may return.   *)

ValidateListInput(r, fs) == r.limit # 0 /\ fs # {}

\* A query fails on a column that is not there, on a list for one value, and on an
\* order by a column that is not grouped by.
Executes(fs) ==
    \A f \in fs : /\ ~(f.entity = "named_entity" /\ f.field = "state")
                 /\ f.fn \in singleValueFilters => Cardinality(f.values) = 1

Grouped(r) == r.list \in NamedEntityLists \cup {"workflowIds", "taskIds", "launchPlanIds"}

OrderExecutes(r) == (Grouped(r) /\ r.sort # None) => r.sort.key = "name"

\* An error is no page at all.
Refused == {}

\* Limit, offset, filters and order of one query: `rows` is what the map filters leave.
Query(r, offset, fs, rows) ==
    IF ~(ValidateListInput(r, fs) /\ Executes(fs)) THEN Refused
    ELSE {LimitOffset(s, offset, r.limit) :
              s \in Orderings(applyFilters(fs) \cap rows, RowKey, r.sort)}

\* The joins of these queries keep every row: a workflow of a launch plan, and the
\* execution and node of a node or task execution, are never deleted.
WorkflowRepoList(r, offset, fs) == Query(r, offset, fs, Rows)
TaskRepoList(r, offset, fs) == Query(r, offset, fs, Rows)
LaunchPlanRepoList(r, offset, fs) == Query(r, offset, fs, Rows)
ExecutionRepoList(r, offset, fs) == Query(r, offset, fs, Rows)
NodeExecutionRepoList(r, offset, fs, rows) == Query(r, offset, fs, rows)
TaskExecutionRepoList(r, offset, fs) == Query(r, offset, fs, Rows)

\* A query that groups by name.
QueryNames(r, offset, fs) ==
    IF ~(ValidateListInput(r, fs) /\ Executes(fs) /\ OrderExecutes(r)) THEN Refused
    ELSE {LimitOffset(s, offset, r.limit) :
              s \in Orderings({Attr[x].name : x \in applyFilters(fs)}, NameKey, r.sort)}

WorkflowRepoListIdentifiers(r, offset, fs) == QueryNames(r, offset, fs)
ListTaskIdentifiers(r, offset, fs) == QueryNames(r, offset, fs)
ListLaunchPlanIdentifiers(r, offset, fs) == QueryNames(r, offset, fs)

NamesIn(scope) == {Attr[x].name : x \in {y \in table : Attr[y].scope = scope}}

\* The names of the entity's table, limited.
getSubQueryJoin(r, offset) ==
    {LimitOffset(s, offset, r.limit) : s \in Orderings(NamesIn(r.scope), NameKey, r.sort)}

NamedEntityMatches(r, n, fs) ==
    \E x \in table : /\ Attr[x].scope = r.scope
                     /\ Attr[x].name = n
                     /\ \A f \in fs : Matches(f, x)

\* The limited names are joined with the metadata, and only then filtered.
NamedEntityRepoList(r, offset, fs) ==
    IF ~(r.limit # 0 /\ Executes(fs) /\ OrderExecutes(r)) THEN Refused
    ELSE {SelectSeq(page, LAMBDA n : NamedEntityMatches(r, n, fs)) :
              page \in getSubQueryJoin(r, offset)}

\* Archived projects are left out unless the request filters, and without a limit
\* everything is returned.
ProjectRepoList(r, offset, fs, sort) ==
    LET projects == IF fs = {} THEN {x \in table : state[x] # "ARCHIVED"} ELSE applyFilters(fs)
    IN  IF ~Executes(fs) THEN Refused
        ELSE {LimitOffset(s, offset, IF r.limit = 0 THEN Len(s) ELSE r.limit) :
                  s \in Orderings(projects, RowKey, sort)}

-----------------------------------------------------------------------------
(* The list requests of the managers: what is refused, and the pages that  *)
(* may be returned.                                                        *)

Valid(r, fs) == fs # None /\ NewSortParameter(r.sort)

ListWorkflows(r, offset) ==
    LET fs == GetDbFilters("workflow", r)
    IN  IF ~(ValidateResourceListRequest(r) /\ Valid(r, fs)) THEN Refused
        ELSE WorkflowRepoList(r, offset, fs)

ListTasks(r, offset) ==
    LET fs == GetDbFilters("task", r)
    IN  IF ~(ValidateResourceListRequest(r) /\ Valid(r, fs)) THEN Refused
        ELSE TaskRepoList(r, offset, fs)

ListLaunchPlans(r, offset) ==
    LET fs == GetDbFilters("launch_plan", r)
    IN  IF ~(ValidateResourceListRequest(r) /\ Valid(r, fs)) THEN Refused
        ELSE LaunchPlanRepoList(r, offset, fs)

ListExecutions(r, offset) ==
    LET fs == GetDbFilters("execution", r)
    IN  IF ~(ValidateResourceListRequest(r) /\ Valid(r, fs)) THEN Refused
        ELSE ExecutionRepoList(r, offset, fs)

ListActiveLaunchPlans(r, offset) ==
    LET fs == ListActiveLaunchPlanVersionsFilters(r)
    IN  IF ~(ValidateActiveLaunchPlanListRequest(r) /\ Valid(r, fs)) THEN Refused
        ELSE LaunchPlanRepoList(r, offset, fs)

listNodeExecutions(r, offset, identifierFilters, rows) ==
    LET fs == AddRequestFilters("node_execution", r.filters, identifierFilters)
    IN  IF ~Valid(r, fs) THEN Refused ELSE NodeExecutionRepoList(r, offset, fs, rows)

isParent == {x \in Rows : Attr[x].parent = None /\ Attr[x].task = None}

\* The children of a node, or the nodes without a parent.
ListNodeExecutions(r, offset) ==
    CASE ~ValidateNodeExecutionListRequest(r) -> Refused
      [] r.parent = None -> listNodeExecutions(r, offset, GetWorkflowExecutionIdentifierFilters(r), isParent)
      [] r.parent # None /\ r.parent \notin table -> Refused
      [] OTHER -> listNodeExecutions(r, offset,
                      GetWorkflowExecutionIdentifierFilters(r)
                      \cup {NewSingleValueFilter("node_execution", "eq", "parent", {r.parent})}, Rows)

\* The nodes a task has made; the task is in another table, and is there.
ListNodeExecutionsForTask(r, offset) ==
    IF ~ValidateNodeExecutionForTaskListRequest(r) THEN Refused
    ELSE listNodeExecutions(r, offset,
             GetWorkflowExecutionIdentifierFilters(r)
             \cup {NewSingleValueFilter("node_execution", "eq", "task", {r.parent})}, Rows)

ListTaskExecutions(r, offset) ==
    LET fs == AddRequestFilters("task_execution", r.filters, GetNodeExecutionIdentifierFilters(r))
    IN  IF ~(ValidateTaskExecutionListRequest(r) /\ Valid(r, fs)) THEN Refused
        ELSE TaskExecutionRepoList(r, offset, fs)

ListWorkflowIdentifiers(r, offset) ==
    LET fs == GetDbFilters("workflow", [r EXCEPT !.filters = {}, !.name = None])
    IN  IF ~(ValidateNamedEntityIdentifierListRequest(r) /\ Valid(r, fs)) THEN Refused
        ELSE WorkflowRepoListIdentifiers(r, offset, fs)

ListUniqueTaskIdentifiers(r, offset) ==
    LET fs == GetDbFilters("task", [r EXCEPT !.filters = {}, !.name = None])
    IN  IF ~(ValidateNamedEntityIdentifierListRequest(r) /\ Valid(r, fs)) THEN Refused
        ELSE ListTaskIdentifiers(r, offset, fs)

\* The one list request that is not validated: the query refuses a limit of zero.
ListLaunchPlanIds(r, offset) ==
    LET fs == GetDbFilters("launch_plan", [r EXCEPT !.filters = {}, !.name = None])
    IN  IF ~Valid(r, fs) THEN Refused ELSE ListLaunchPlanIdentifiers(r, offset, fs)

ListNamedEntities(r, offset) ==
    LET fs == getQueryFilters(r)
    IN  IF ~(ValidateNamedEntityListRequest(r) /\ Valid(r, fs)) THEN Refused
        ELSE NamedEntityRepoList(r, offset, fs)

alphabeticalSortParam == [key |-> "identifier", direction |-> "ascending"]

ProjectSort(r) == IF r.sort = None THEN alphabeticalSortParam ELSE r.sort

ListProjects(r, offset) ==
    LET fs == AddRequestFilters("project", r.filters, {})
    IN  IF ~Valid(r, fs) THEN Refused ELSE ProjectRepoList(r, offset, fs, ProjectSort(r))

Response(r, offset) ==
    CASE r.list = "workflows"     -> ListWorkflows(r, offset)
      [] r.list = "tasks"         -> ListTasks(r, offset)
      [] r.list = "launchPlans"   -> ListLaunchPlans(r, offset)
      [] r.list = "executions"    -> ListExecutions(r, offset)
      [] r.list = "active"        -> ListActiveLaunchPlans(r, offset)
      [] r.list = "nodes"         -> ListNodeExecutions(r, offset)
      [] r.list = "nodesOfTask"   -> ListNodeExecutionsForTask(r, offset)
      [] r.list = "attempts"      -> ListTaskExecutions(r, offset)
      [] r.list = "workflowIds"   -> ListWorkflowIdentifiers(r, offset)
      [] r.list = "taskIds"       -> ListUniqueTaskIdentifiers(r, offset)
      [] r.list = "launchPlanIds" -> ListLaunchPlanIds(r, offset)
      [] r.list \in NamedEntityLists -> ListNamedEntities(r, offset)
      [] r.list = "projects"      -> ListProjects(r, offset)

-----------------------------------------------------------------------------
(* The client, and the requests of others.                                 *)

\* Everything the request lists: the page that a large enough limit would return.
Listed(r) ==
    LET pages == Response([r EXCEPT !.limit = Cardinality(Rows) + 1], 0)
    IN  IF pages = Refused THEN {} ELSE ToSet(CHOOSE p \in pages : TRUE)

\* What limit and offset count.
Counted(r) == IF r.list \in NamedEntityLists THEN NamesIn(r.scope) ELSE Listed(r)

InitialState(list) == IF list \in NamedEntityLists THEN None ELSE "ACTIVE"

OtherStates(list) ==
    CASE list = "workflowEntities" -> {"ARCHIVED", "SYSTEM_GENERATED"}
      [] list = "taskEntities" -> {"ACTIVE"}
      [] list = "projects" -> {"ACTIVE", "ARCHIVED"}
      [] OTHER -> {"ACTIVE", "INACTIVE"}

Init ==
    /\ table \in SUBSET Rows
    /\ \E r \in Requests :
          /\ pager = [request |-> r, token |-> None, begun |-> FALSE, turn |-> FALSE,
                      done |-> FALSE, refused |-> FALSE, seen |-> <<>>]
          /\ \E old \in SUBSET table, s \in OtherStates(r.list) :
                state = [x \in Rows |-> IF x \in old THEN s ELSE InitialState(r.list)]
    /\ changes = 0
    /\ history = [stable |-> {}, counted |-> {}, left |-> FALSE, entered |-> FALSE, thinned |-> FALSE]

\* One list request, with the token of the one before.
Page ==
    /\ ~pager.done
    /\ \E r \in {pager.request}, offset \in {ValidateToken(pager.token)} :
       \E pages \in {Response(r, offset)} :
           \/ /\ pages = Refused
              /\ pager' = [pager EXCEPT !.begun = TRUE, !.turn = ~@, !.done = TRUE,
                                     !.refused = TRUE]
           \/ \E page \in pages :
                pager' = [pager EXCEPT !.begun = TRUE, !.turn = ~@,
                                       !.token = NextToken(page, offset, r.limit),
                                       !.done = NextToken(page, offset, r.limit) = None,
                                       !.seen = @ \o page]
    /\ \E listed \in {Listed(pager.request)}, counted \in {Counted(pager.request)} :
          history' = IF pager.begun
                     THEN [stable |-> history.stable \cap listed,
                           counted |-> counted,
                           left |-> history.left \/ ~(history.counted \subseteq counted),
                           entered |-> history.entered \/ ~(counted \subseteq history.counted),
                           thinned |-> history.thinned \/ counted # listed]
                     ELSE [stable |-> listed, counted |-> counted, left |-> FALSE,
                           entered |-> FALSE, thinned |-> counted # listed]
    /\ UNCHANGED <<table, state, changes>>

Others ==
    /\ pager.begun
    /\ ~pager.done
    /\ changes < MaxChanges
    /\ changes' = changes + 1
    /\ UNCHANGED <<pager, history>>

\* A registration, an execution, an event or a project: rows are only added.
Insert ==
    /\ \E x \in Rows \ table : table' = table \cup {x}
    /\ UNCHANGED state
    /\ Others

\* An update of a state: of a launch plan, a named entity, an execution or a project.
SetState ==
    /\ \E x \in table, s \in OtherStates(pager.request.list) :
          /\ state[StateKey(x)] # s
          /\ state' = [state EXCEPT ![StateKey(x)] = s]
    /\ UNCHANGED table
    /\ Others

Done == pager.done /\ UNCHANGED vars

Next == Page \/ Insert \/ SetState \/ Done

\* A client goes on to the next page until it is told that there is none: this is
\* weak fairness of Page, which can be taken until the listing is done, which alone
\* changes the pager, and which always does.
Fairness == []<>pager.done \/ []<><<pager' # pager>>_vars

Spec == Init /\ [][Next]_vars /\ Fairness

-----------------------------------------------------------------------------
(* Properties.                                                             *)

\* The order of the listing leaves nothing to the database.
TotalOrder(r) ==
    \/ r.list = "projects"
    \/ r.sort # None /\ (Grouped(r) \/ r.sort.key = "id")

\* With a total order a client that follows the tokens sees nothing twice, unless
\* something came into the listing between two pages; and at the end it has seen
\* everything that was listed all along, as long as nothing left the listing and
\* (for named entities, where limit and offset are applied before the filters)
\* nothing was hidden.
SeenOnce ==
    TotalOrder(pager.request) =>
       /\ ~history.entered => IsInjective(pager.seen)
       /\ pager.done /\ ~pager.refused /\ ~history.left /\ ~history.thinned =>
             history.stable \subseteq ToSet(pager.seen)

\* Every listing comes to an end, except for a list of projects without a limit:
\* there an empty answer is a full page and comes with the token it was asked with.
ListingEnds == (pager.request.limit # 0) ~> pager.done

=============================================================================

-------------------------- MODULE MCLaunchSettings --------------------------
(***************************************************************************)
(* Two workflows, two updates and a delete at a time with two launches of  *)
(* one execution.  The tables to begin with hold overrides of each type at *)
(* both levels, entered in either order.                                   *)
(***************************************************************************)
EXTENDS LaunchSettings, TLC

Attr(type, value) == [type |-> type, value |-> value]
Row(id, workflow, attributes) ==
    [id |-> id, workflow |-> workflow, type |-> attributes.type, attributes |-> attributes]

MCResources(cpu, storage, gpu) ==
    [r \in Resources |-> CASE r = "cpu" -> cpu [] r = "storage" -> storage [] r = "gpu" -> gpu [] OTHER -> 0]

MCDefaults == MCResources(2, 0, 0)
MCLimits == MCResources(4, 4, 2)
Small == Attr("TASK_RESOURCE", [defaults |-> MCResources(1, 1, 0), limits |-> MCResources(3, 0, 0)])
LimitsOnly == Attr("TASK_RESOURCE", [defaults |-> None, limits |-> MCLimits])

MCQueues == ("q1" :> {"gold"}) @@ ("q2" :> {"gold", "any"}) @@ ("q3" :> {"any"})
Tags(tags) == Attr("EXECUTION_QUEUE", tags)
Label(l) == Attr("EXECUTION_CLUSTER_LABEL", l)
Plugin(f) == Attr("PLUGIN_OVERRIDE", f)
Parallel(n) == Attr("WORKFLOW_EXECUTION_CONFIG", n)

\* The heavier cluster is drawn, and of two that weigh the same the second.
MCGetWithSeed(list, execution) ==
    CHOOSE c \in DOMAIN list : \A d \in DOMAIN list \ {c} :
        \/ list[c].weight > list[d].weight
        \/ list[c].weight = list[d].weight /\ list[c].place > list[d].place

Entry(place, weight) == [place |-> place, weight |-> weight]
C1(w) == "c1" :> Entry(1, w)
C2(w) == "c2" :> Entry(2, w)
Configuration(all, red) ==
    [all |-> all, labels |-> ("red" :> red) @@ ("blue" :> C1(1)) @@ ("grey" :> << >>)]
Usual == Configuration(C1(0) @@ C2(0), C1(1) @@ C2(3))

\* One of the clusters is disabled, or the weights of a label change.
MCConfigurations ==
    {Usual, [Usual EXCEPT !.all = C1(0)], [Usual EXCEPT !.all = C2(0)],
     Configuration(C1(0) @@ C2(0), C1(3) @@ C2(1))}

MCDomainTags == << >>
MCDefaultTags == <<"unknown", "any">>
MCBuiltLabels == "execution-id" :> 0
MCProjectLabels == ("a" :> 5) @@ ("team" :> 6)

Task(requests, limits) ==
    [sidecar |-> FALSE, container |-> TRUE, requests |-> requests, limits |-> limits]
Plan == [parallelism |-> 0, labels |-> None, annotations |-> None, notifications |-> None,
         securityCtx |-> None, authRole |-> None, auth |-> None, role |-> "",
         fixedInputs |-> << >>, defaultInputs |-> << >>, schedule |-> NoSchedule]
Plain == [execution |-> "e1", kind |-> "plan", workflow |-> "w1", task |-> Task(<< >>, << >>),
          variables |-> << >>, inputs |-> << >>, scheduler |-> None, parent |-> None, user |-> "u1",
          nesting |-> 0, parallelism |-> 0, labels |-> None, annotations |-> None,
          notifications |-> None, securityCtx |-> None, authRole |-> None, plan |-> Plan]
RunAs(iamRole, account) == [iamRole |-> iamRole, account |-> account]

MCTasks ==
    {Task("cpu" :> n, << >>) : n \in {1, 4, 6}}
    \cup {Task("gpu" :> 2, "gpu" :> 2), Task("gpu" :> 3, << >>), Task("cpu" :> 2, "cpu" :> 3),
          Task("cpu" :> 4, "cpu" :> 2), Task(<< >>, "cpu" :> 6), Task("storage" :> 2, << >>),
          [Task("cpu" :> 6, << >>) EXCEPT !.sidecar = TRUE],
          [Task(<< >>, << >>) EXCEPT !.container = FALSE]}

AllRequests ==
    {Plain, [Plain EXCEPT !.kind = "task"], [Plain EXCEPT !.workflow = "w2"]}
    \cup {[Plain EXCEPT !.task = t] : t \in MCTasks}
    \cup {[Plain EXCEPT !.parallelism = 3, !.labels = "a" :> 1, !.authRole = RunAs("r1", "k1"),
                        !.annotations = "n" :> 1, !.plan.securityCtx = RunAs("", "k2")],
          [Plain EXCEPT !.plan.parallelism = 4, !.plan.labels = ("a" :> 1) @@ ("b" :> 2) @@ ("c" :> 3),
                        !.plan.authRole = RunAs("r2", "")],
          [Plain EXCEPT !.kind = "task", !.plan.parallelism = 4, !.plan.labels = "a" :> 1,
                        !.plan.auth = RunAs("r3", "k3"), !.notifications = {}],
          [Plain EXCEPT !.plan.labels = "p" :> 9, !.securityCtx = RunAs("s1", "k1"), !.plan.role = "r4"],
          [Plain EXCEPT !.plan.annotations = "role" :> "mine", !.plan.role = "r4",
                        !.plan.notifications = {"email"}]}

Literal(type, value) == [type |-> type, value |-> value]
Required(type) == [type |-> type, required |-> TRUE, default |-> NoLiteral]
Default(type, literal) == [type |-> type, required |-> FALSE, default |-> literal]
MapsOver(names, values) == UNION {[s -> values] : s \in SUBSET names}
Names == {"x", "t"}
MCLiterals == {Literal("string", 1), Literal("datetime", 2)}
MCParameters == {Required("string"), Required("datetime"), Default("enum", Literal("string", 3)),
                 Default("datetime", Literal("datetime", 4)), Default("datetime", Literal("string", 5))}
MCSchedules ==
    [expression : {"none", "cronExpression", "cronSchedule", "rate"}, kickoffTimeInputArg : {"", "t"}]

\* Launch plans of a workflow with a string, or an enumeration, and a time,
\* launched by a caller, by a schedule, or without a launch plan.
InputRequests ==
    LET plans == {p \in [fixedInputs : MapsOver(Names, MCLiterals), defaultInputs : MapsOver(Names, MCParameters),
                         schedule : MCSchedules] :
                    \E v \in {"string", "enum"} : ValidateLaunchPlan(p, ("x" :> v) @@ ("t" :> "datetime"))}
        launches == {[Plain EXCEPT !.variables = ("x" :> v) @@ ("t" :> "datetime"), !.inputs = i,
                        !.plan.fixedInputs = p.fixedInputs, !.plan.defaultInputs = p.defaultInputs,
                        !.plan.schedule = p.schedule] :
                      v \in {"string", "enum"}, p \in plans, i \in MapsOver(Names, MCLiterals)}
        calls == {q \in launches : q.plan.schedule.expression \in {"none", "cronExpression"}}
        times(q, scheduler) == TimeInputs(scheduler, q.plan.schedule,
            fetchExpectedInputs(q.variables, q.plan.fixedInputs, q.plan.defaultInputs))
        schedules == UNION {{[q EXCEPT !.scheduler = scheduler,
                               !.inputs = [name \in times(q, scheduler) |-> Literal("datetime", 2)]] :
                             q \in {r \in launches : r.inputs = << >> /\ Schedulable(scheduler, r.plan.schedule)}} :
                            scheduler \in {"aws", "native"}}
        tasks == {[Plain EXCEPT !.kind = "task", !.variables = "x" :> "string", !.inputs = i] :
                   i \in MapsOver(Names, MCLiterals \cup {NoLiteral})}
    IN  calls \cup schedules \cup tasks

CONSTANTS l1, l2
Launching(first, second) == (l1 :> first) @@ (l2 :> second)

PluginTables ==
    { {}, {Row(1, "w1", Plugin("spark" :> 1)), Row(2, "", Plugin("spark" :> 2))},
      {Row(1, "", Plugin("spark" :> 2)), Row(2, "w1", Plugin("spark" :> 1))} }
LabelTables ==
    { {}, {Row(1, "", Label("red"))},
      {Row(1, "", Label("red")), Row(2, "w1", Label("grey"))} }
SettingsTables ==
    { {Row(1, "w1", Small), Row(2, "", LimitsOnly), Row(3, "", Parallel(7)), Row(4, "", Tags(<<"none", "gold">>))},
      {Row(1, "w2", LimitsOnly), Row(2, "w1", Tags(<<"none">>)), Row(3, "", Tags(<<"gold">>))} }

Update(w, a) == [workflow |-> w, attributes |-> a]
Spark == Plugin("spark" :> 3)
Hive == Plugin("hive" :> 4)
PluginUpdates == {Update(w, a) : w \in {"", "w1"}, a \in {Spark, Hive}}
LabelUpdates == {Update(w, Label("blue")) : w \in {"", "w1"}}
Unknown == Update("w1", Attr("QUALITY_OF_SERVICE_SPECIFICATION", 1))

\* Updates that race with each other and with a delete; an update and a
\* delete during a launch; labels that change while a launch is retried; all
\* requests to launch, with all inputs; and an execution that launches another.
MCWorkloads ==
    {[table |-> t, lastId |-> Cardinality(t), config |-> Usual,
      updates |-> {u, v, Unknown}, deletes |-> {Key(w, "PLUGIN_OVERRIDE")},
      launches |-> Launching({}, {})] :
        t \in PluginTables, u \in PluginUpdates, v \in PluginUpdates, w \in {"", "w1"}}
    \cup
    {[table |-> t, lastId |-> Cardinality(t), config |-> Usual,
      updates |-> {u}, deletes |-> {Key(w, "PLUGIN_OVERRIDE")},
      launches |-> Launching({Plain, [Plain EXCEPT !.kind = "task"]}, {})] :
        t \in PluginTables, u \in PluginUpdates, w \in {"", "w1"}}
    \cup
    {[table |-> t, lastId |-> Cardinality(t), config |-> Usual,
      updates |-> {u}, deletes |-> {}, launches |-> Launching({Plain}, {Plain})] :
        t \in LabelTables, u \in LabelUpdates}
    \cup
    {[table |-> t, lastId |-> Cardinality(t), config |-> Usual,
      updates |-> {}, deletes |-> {}, launches |-> Launching(AllRequests, {})] :
        t \in LabelTables \cup SettingsTables}
    \cup
    {[table |-> {}, lastId |-> 0, config |-> Usual,
      updates |-> {}, deletes |-> {}, launches |-> Launching({q}, {})] :
        q \in InputRequests}
    \cup
    {[table |-> {}, lastId |-> 0, config |-> Usual,
      updates |-> {}, deletes |-> {}, launches |-> Launching({[Plain EXCEPT !.nesting = 2]},
        {[Plain EXCEPT !.execution = "e2", !.parent = "e1", !.user = "u2"]})]}

=============================================================================

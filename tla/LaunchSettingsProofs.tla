------------------------ MODULE LaunchSettingsProofs ------------------------
(***************************************************************************)
(* Proofs about LaunchSettings: the launches, and with them the overrides  *)
(* of MatchableResources that they look up.                                *)
(***************************************************************************)
EXTENDS LaunchSettings, MatchableResourcesProofs

-----------------------------------------------------------------------------
(* Launches: the inductive invariant.                                      *)

Steps == {"metadata", "resources", "queue", "config", "labels", "plugins", "execute", "record",
          "done", "refused", "unbuilt", "failed", "panicked"}

LaunchShape(x) ==
    DOMAIN x = {"pc", "request", "wrong", "inputs", "user", "nesting", "platform", "given",
                "parallelism", "plugins", "cluster"}

\* The inputs are those of the request that was accepted; a launch plan's
\* always build.
InputsOK(x) ==
    /\ x.request.kind = "plan" => ValidateLaunchPlan(x.request.plan, x.request.variables) /\ x.pc # "unbuilt"
    /\ x.pc = "refused" <=> ~Accepts(x.request)
    /\ x.pc # "refused" => x.inputs = InputsOf(x.request)

\* Platform resources have a default and a limit for each resource.
PlatformTyped(platform) ==
    platform.defaults \in [Resources -> Nat] /\ platform.limits \in [Resources -> Nat]

\* A task that was registered gets what the platform's resources leave it.
TaskOK(x) ==
    /\ validateTaskTemplate(x.request.task)
    /\ x.given # None => /\ PlatformTyped(x.platform)
                         /\ x.given = setCompiledTaskDefaults(x.request.task, x.platform)
    /\ x.pc \in {"queue", "config", "labels", "plugins", "execute"} => PlatformTyped(x.platform)

\* A cluster is the execution's choice from a list it was routed by.
Chosen(c, e, choices) == \E targets \in choices : c = GetWithSeed(targets, e)

LaunchOK(x, choices) ==
    /\ LaunchShape(x) /\ x.pc \in Steps
    /\ x.request \in LaunchRequests
    /\ x.wrong = {}
    /\ InputsOK(x) /\ TaskOK(x)
    /\ x.pc = "record" => Chosen(x.cluster, x.request.execution, choices[x.request.execution])

LaunchesOK ==
    /\ launch = [l \in Launches |-> launch[l]]
    /\ \A l \in Launches : launch[l] = NotLaunched \/ LaunchOK(launch[l], routed)

ClustersOK ==
    /\ config \in Configurations /\ aborted \subseteq Executions
    /\ routed = [e \in Executions |-> routed[e]]
    /\ executions = [e \in Executions |-> executions[e]]
    /\ \A o \in crds : o[1] \in Executions => Chosen(o[2], o[1], routed[o[1]])
    /\ \A e \in Executions : executions[e] # None => Chosen(executions[e].cluster, e, routed[e])

IInv == ResourceInv /\ LaunchesOK /\ ClustersOK /\ AbortStops

\* A restart ends the updates at work; their keys are spoiled.
LEMMA RestartKeeps ==
    ASSUME ResourceInv, NEW c, Restart(c)
    PROVE  ResourceInv'
<1>1. /\ handler' = [h \in Handlers |-> Idle]
      /\ spoiled' = spoiled \cup UNION {HalfDone(h) : h \in {g \in Handlers : handler[g] # Idle}}
      /\ UNCHANGED <<rows, lastId, want, workload>>
  BY Zenon DEF Restart, Spoil
<1>2. \A g \in Handlers : handler[g] # Idle => HalfDone(g) \subseteq spoiled'
  BY <1>1, Zenon
<1>3. \A g \in Handlers : handler'[g] = Idle
  BY <1>1
<1>4. handler' = [g \in Handlers |-> handler'[g]] /\ spoiled \subseteq spoiled'
  BY <1>1
<1>. QED  BY <1>1, <1>2, <1>3, <1>4, EndKeeps, Zenon

-----------------------------------------------------------------------------
(* What a launch settles, for any request.                                 *)

LEMMA CastableTransitive ==
    ASSUME NEW a, NEW b, NEW c, AreTypesCastable(a, b), AreTypesCastable(b, c)
    PROVE  AreTypesCastable(a, c)
  BY DEF AreTypesCastable

\* The inputs a launch plan leaves open, with its defaults.
LEMMA ExpectedInputs ==
    ASSUME NEW q
    PROVE  LET plan == LaunchPlanOf(q)
               expected == plan.expectedInputs
               defaults == q.plan.defaultInputs
           IN  /\ plan.spec = q.plan
               /\ DOMAIN expected = DOMAIN defaults \cup (DOMAIN q.variables \ DOMAIN q.plan.fixedInputs)
               /\ \A name \in DOMAIN expected :
                     IF name \in DOMAIN defaults THEN expected[name] = defaults[name]
                     ELSE /\ expected[name].type = q.variables[name]
                          /\ expected[name].required
                          /\ expected[name].default = NoLiteral
  BY Zenon DEF LaunchPlanOf, FromLaunchPlanModel, CreateLaunchPlanModel, CreateLaunchPlan, fetchExpectedInputs

\* What an accepted launch plan has: the part of ValidateLaunchPlan that is
\* about its inputs.
LEMMA PlanInputs ==
    ASSUME NEW q \in LaunchRequests, ValidateLaunchPlan(q.plan, q.variables)
    PROVE  LET fixed == q.plan.fixedInputs
               defaults == q.plan.defaultInputs
           IN  /\ DOMAIN fixed \subseteq DOMAIN q.variables /\ DOMAIN defaults \subseteq DOMAIN q.variables
               /\ \A name \in DOMAIN fixed : /\ fixed[name].type # NoType
                                             /\ AreTypesCastable(fixed[name].type, q.variables[name])
               /\ \A name \in DOMAIN defaults :
                     /\ AreTypesCastable(defaults[name].type, q.variables[name])
                     /\ defaults[name].required <=> defaults[name].default.type = NoType
                     /\ ~defaults[name].required =>
                           AreTypesCastable(defaults[name].default.type, defaults[name].type)
  BY InputsAssumption, Zenon DEF ValidateLaunchPlan, validateLiteralMap, validateParameterMap, checkExpectedInputs

\* An accepted launch binds every variable as it is to be bound, and builds.
LEMMA AcceptedIsBound ==
    ASSUME NEW q \in LaunchRequests, q.kind = "plan", ValidateLaunchPlan(q.plan, q.variables), Accepts(q)
    PROVE  /\ DOMAIN InputsOf(q) = DOMAIN q.variables
           /\ \A name \in DOMAIN q.variables : InputsOf(q)[name] = InputFor(name, q.plan, q.inputs)
           /\ Build(q.variables, InputsOf(q))
<1>. DEFINE vars0 == q.variables
            fixed == q.plan.fixedInputs
            defaults == q.plan.defaultInputs
            expected == LaunchPlanOf(q).expectedInputs
            user == q.inputs
            inputs == InputsOf(q)
<1>1. /\ LaunchPlanOf(q).spec = q.plan
      /\ DOMAIN expected = DOMAIN defaults \cup (DOMAIN vars0 \ DOMAIN fixed)
      /\ \A name \in DOMAIN expected :
            IF name \in DOMAIN defaults THEN expected[name] = defaults[name]
            ELSE /\ expected[name].type = vars0[name]
                 /\ expected[name].required
                 /\ expected[name].default = NoLiteral
  BY ExpectedInputs, Zenon
<1>2. checkInputsForExecution(user, fixed, expected)
  BY <1>1, Zenon DEF Accepts
<1>3. inputs = fetchInputsForExecution(user, fixed, expected)
  <2>1. q.kind # "task"
    OBVIOUS
  <2>. QED  BY <1>1, <2>1, Zenon DEF InputsOf
<1>4. /\ DOMAIN fixed \subseteq DOMAIN vars0 /\ DOMAIN defaults \subseteq DOMAIN vars0
      /\ \A name \in DOMAIN fixed : AreTypesCastable(fixed[name].type, vars0[name])
      /\ \A name \in DOMAIN defaults :
            /\ AreTypesCastable(defaults[name].type, vars0[name])
            /\ ~defaults[name].required => AreTypesCastable(defaults[name].default.type, defaults[name].type)
  BY PlanInputs, Zenon
<1>5. /\ DOMAIN user \subseteq DOMAIN expected
      /\ \A name \in DOMAIN expected :
            IF name \in DOMAIN user THEN AreTypesCastable(user[name].type, expected[name].type)
            ELSE ~expected[name].required
      /\ DOMAIN fixed \cap DOMAIN expected = {}
  BY <1>2, Zenon DEF checkInputsForExecution
<1>. HIDE DEF vars0, fixed, defaults, expected, user, inputs
<1>6. DOMAIN expected \cup DOMAIN fixed = DOMAIN vars0
  BY <1>1, <1>4, Zenon
<1>7. inputs = [name \in DOMAIN expected \cup DOMAIN fixed |->
                  IF name \in DOMAIN fixed THEN fixed[name]
                  ELSE IF name \in DOMAIN user THEN user[name] ELSE expected[name].default]
  BY <1>3, Zenon DEF fetchInputsForExecution
<1>8. DOMAIN inputs = DOMAIN vars0
  BY <1>6, <1>7
<1>9. \A name \in DOMAIN vars0 :
         inputs[name] = IF name \in DOMAIN fixed THEN fixed[name]
                        ELSE IF name \in DOMAIN user THEN user[name] ELSE expected[name].default
  BY <1>6, <1>7
<1>10. ASSUME NEW name \in DOMAIN vars0
       PROVE  inputs[name] = InputFor(name, q.plan, user)
  <2>1. name \in DOMAIN fixed \/ name \in DOMAIN expected
    BY <1>6, Zenon
  <2>2. name \notin DOMAIN fixed =>
           expected[name].default = IF name \in DOMAIN defaults THEN defaults[name].default ELSE NoLiteral
    BY <1>1, <2>1, Zenon
  <2>. QED  BY <1>9, <2>2, Zenon DEF InputFor, fixed, defaults
<1>11. ASSUME NEW name \in DOMAIN vars0
       PROVE  AreTypesCastable(inputs[name].type, vars0[name])
  <2>1. CASE name \in DOMAIN fixed
    BY <1>4, <1>9, <2>1, Zenon
  <2>2. CASE name \notin DOMAIN fixed
    <3>1. name \in DOMAIN expected
      BY <1>6, <2>2, Zenon
    <3>2. AreTypesCastable(expected[name].type, vars0[name])
      <4>1. AreTypesCastable(vars0[name], vars0[name])
        BY DEF AreTypesCastable
      <4>. QED  BY <1>1, <1>4, <3>1, <4>1, Zenon
    <3>3. CASE name \in DOMAIN user
      BY <1>5, <1>9, <2>2, <3>1, <3>2, <3>3, CastableTransitive, Zenon
    <3>4. CASE name \notin DOMAIN user
      <4>1. ~expected[name].required
        BY <1>5, <3>1, <3>4, Zenon
      <4>2. name \in DOMAIN defaults /\ expected[name] = defaults[name]
        BY <1>1, <3>1, <4>1, Zenon
      <4>3. AreTypesCastable(expected[name].default.type, vars0[name])
        BY <1>4, <4>1, <4>2, CastableTransitive, Zenon
      <4>. QED  BY <1>9, <2>2, <3>4, <4>3, Zenon
    <3>. QED  BY <3>3, <3>4, Zenon
  <2>. QED  BY <2>1, <2>2, Zenon
<1>. QED  BY <1>8, <1>10, <1>11, Zenon DEF Build, vars0, user, inputs

\* A launch plan that does not bind an input twice accepts just the callers
\* that bind what it leaves open.
LEMMA AcceptsLaunchable ==
    ASSUME NEW q \in LaunchRequests, q.kind = "plan", ValidateLaunchPlan(q.plan, q.variables),
           BoundTwice(q.plan) = {}
    PROVE  Accepts(q) <=> Launchable(q.plan, q.variables, q.inputs)
<1>. DEFINE vars0 == q.variables
            fixed == q.plan.fixedInputs
            defaults == q.plan.defaultInputs
            expected == LaunchPlanOf(q).expectedInputs
            user == q.inputs
<1>1. /\ LaunchPlanOf(q).spec = q.plan
      /\ DOMAIN expected = DOMAIN defaults \cup (DOMAIN vars0 \ DOMAIN fixed)
      /\ \A name \in DOMAIN expected :
            IF name \in DOMAIN defaults THEN expected[name] = defaults[name]
            ELSE /\ expected[name].type = vars0[name]
                 /\ expected[name].required
                 /\ expected[name].default = NoLiteral
  BY ExpectedInputs, Zenon
<1>2. Accepts(q) <=> validateLiteralMap(user) /\ checkInputsForExecution(user, fixed, expected)
  BY <1>1, Zenon DEF Accepts, ValidateExecutionRequest
<1>3. /\ DOMAIN fixed \subseteq DOMAIN vars0 /\ DOMAIN defaults \subseteq DOMAIN vars0
      /\ \A name \in DOMAIN fixed : fixed[name].type # NoType
      /\ \A name \in DOMAIN defaults : defaults[name].required <=> defaults[name].default.type = NoType
  BY PlanInputs, Zenon
<1>4. "" \notin DOMAIN vars0 /\ DOMAIN fixed \cap DOMAIN defaults = {}
  BY InputsAssumption, Zenon DEF BoundTwice
<1>5. NoLiteral.type = NoType
  BY DEF NoLiteral
<1>6. \A name : DeclaredType(name, q.plan, vars0) = IF name \in DOMAIN defaults THEN defaults[name].type ELSE vars0[name]
  BY Zenon DEF DeclaredType
<1>7. \A name : InputFor(name, q.plan, user) =
                   IF name \in DOMAIN fixed THEN fixed[name]
                   ELSE IF name \in DOMAIN user THEN user[name]
                   ELSE IF name \in DOMAIN defaults THEN defaults[name].default ELSE NoLiteral
  BY Zenon DEF InputFor
<1>8. Launchable(q.plan, vars0, user) <=>
         /\ DOMAIN user \subseteq DOMAIN vars0 \ DOMAIN fixed
         /\ \A name \in DOMAIN user :
               user[name].type # NoType /\ AreTypesCastable(user[name].type, DeclaredType(name, q.plan, vars0))
         /\ \A name \in DOMAIN vars0 : name \in DOMAIN user \/ InputFor(name, q.plan, user).type # NoType
  BY Zenon DEF Launchable
<1>. HIDE DEF vars0, fixed, defaults, expected, user
<1>9. DOMAIN expected = DOMAIN vars0 \ DOMAIN fixed
  BY <1>1, <1>3, <1>4, Zenon
<1>10. \A name \in DOMAIN expected : expected[name].type = DeclaredType(name, q.plan, vars0)
  BY <1>1, <1>6, Zenon
<1>11. \A name \in DOMAIN expected : name \notin DOMAIN user =>
          (~expected[name].required <=> InputFor(name, q.plan, user).type # NoType)
  <2>. SUFFICES ASSUME NEW name \in DOMAIN expected, name \notin DOMAIN user
                PROVE  ~expected[name].required <=> InputFor(name, q.plan, user).type # NoType
    BY Zenon
  <2>1. name \notin DOMAIN fixed
    BY <1>9, Zenon
  <2>2. CASE name \in DOMAIN defaults
    BY <1>1, <1>3, <1>7, <2>1, <2>2, Zenon
  <2>3. CASE name \notin DOMAIN defaults
    BY <1>1, <1>5, <1>7, <2>1, <2>3, Zenon
  <2>. QED  BY <2>2, <2>3, Zenon
<1>12. ASSUME Accepts(q) PROVE Launchable(q.plan, vars0, user)
  <2>1. /\ \A name \in DOMAIN user : user[name].type # NoType
        /\ DOMAIN user \subseteq DOMAIN expected
        /\ \A name \in DOMAIN expected :
              IF name \in DOMAIN user THEN AreTypesCastable(user[name].type, expected[name].type)
              ELSE ~expected[name].required
    BY <1>2, <1>12, Zenon DEF validateLiteralMap, checkInputsForExecution
  <2>2. \A name \in DOMAIN user : AreTypesCastable(user[name].type, DeclaredType(name, q.plan, vars0))
    BY <1>10, <2>1, Zenon
  <2>3. \A name \in DOMAIN vars0 : name \in DOMAIN user \/ InputFor(name, q.plan, user).type # NoType
    <3>. SUFFICES ASSUME NEW name \in DOMAIN vars0, name \notin DOMAIN user
                  PROVE  InputFor(name, q.plan, user).type # NoType
      BY Zenon
    <3>1. CASE name \in DOMAIN fixed
      BY <1>3, <1>7, <3>1, Zenon
    <3>2. CASE name \notin DOMAIN fixed
      BY <1>9, <1>11, <2>1, <3>2, Zenon
    <3>. QED  BY <3>1, <3>2, Zenon
  <2>. QED  BY <1>8, <1>9, <2>1, <2>2, <2>3, Zenon
<1>13. ASSUME Launchable(q.plan, vars0, user) PROVE Accepts(q)
  <2>1. validateLiteralMap(user)
    BY <1>4, <1>8, <1>13, Zenon DEF validateLiteralMap
  <2>2. \A name \in DOMAIN expected :
           IF name \in DOMAIN user THEN AreTypesCastable(user[name].type, expected[name].type)
           ELSE ~expected[name].required
    <3>. SUFFICES ASSUME NEW name \in DOMAIN expected
                  PROVE  IF name \in DOMAIN user THEN AreTypesCastable(user[name].type, expected[name].type)
                         ELSE ~expected[name].required
      BY Zenon
    <3>1. CASE name \in DOMAIN user
      BY <1>8, <1>10, <1>13, <3>1, Zenon
    <3>2. CASE name \notin DOMAIN user
      BY <1>8, <1>9, <1>11, <1>13, <3>2, Zenon
    <3>. QED  BY <3>1, <3>2, Zenon
  <2>3. DOMAIN user \subseteq DOMAIN expected /\ DOMAIN fixed \cap DOMAIN expected = {}
    BY <1>8, <1>9, <1>13, Zenon
  <2>. QED  BY <1>2, <2>1, <2>2, <2>3, Zenon DEF checkInputsForExecution
<1>. QED  BY <1>12, <1>13, Zenon DEF vars0, user

\* A time fits nothing but an input for a time.
LEMMA OnlyATime ==
    "datetime" # NoType /\ \A type : AreTypesCastable("datetime", type) <=> type = "datetime"
<1>1. "datetime" # NoType
  BY DEF NoType
<1>2. ASSUME NEW type PROVE AreTypesCastable("datetime", type) <=> type = "datetime"
  <2>1. "datetime" \notin {"string", "enum"}
    OBVIOUS
  <2>2. {"datetime", type} # {"string", "enum"}
    BY <2>1, Zenon
  <2>. QED  BY <2>2, Zenon DEF AreTypesCastable
<1>. QED  BY <1>1, <1>2, Zenon

\* The scheduler binds what a scheduled launch plan leaves open, but for the
\* two kinds of schedule that are not launchable.
LEMMA ScheduledIsLaunchable ==
    ASSUME NEW q \in LaunchRequests, q.kind = "plan", ValidateLaunchPlan(q.plan, q.variables),
           BoundTwice(q.plan) = {}, q.scheduler # None
    PROVE  Launchable(q.plan, q.variables, q.inputs) <=> ~Unlaunchable(q)
<1>. DEFINE expected == LaunchPlanOf(q).expectedInputs
            schedule == q.plan.schedule
            expression == q.plan.schedule.expression
            arg == q.plan.schedule.kickoffTimeInputArg
            bound == DOMAIN q.inputs
            Only == /\ \A name \in DOMAIN expected : expected[name].required => name = arg
                    /\ arg # "" => arg \in DOMAIN expected /\ expected[arg].type = "datetime"
            Required == arg \in DOMAIN expected /\ expected[arg].required
<1>1. /\ LaunchPlanOf(q).spec = q.plan
      /\ expected = fetchExpectedInputs(q.variables, q.plan.fixedInputs, q.plan.defaultInputs)
  BY Zenon DEF LaunchPlanOf, FromLaunchPlanModel, CreateLaunchPlanModel, CreateLaunchPlan
<1>2. /\ Schedulable(q.scheduler, schedule) /\ bound = TimeInputs(q.scheduler, schedule, expected)
      /\ \A name \in bound : q.inputs[name].type = "datetime"
  BY <1>1, InputsAssumption, Zenon
<1>3. /\ DOMAIN expected = DOMAIN q.plan.defaultInputs \cup (DOMAIN q.variables \ DOMAIN q.plan.fixedInputs)
      /\ DOMAIN q.plan.defaultInputs \subseteq DOMAIN q.variables
  BY ExpectedInputs, PlanInputs, Zenon
<1>4. DOMAIN q.plan.fixedInputs \cap DOMAIN expected = {} /\ "" \notin DOMAIN expected
  <2>1. DOMAIN q.plan.fixedInputs \cap DOMAIN q.plan.defaultInputs = {} /\ "" \notin DOMAIN q.variables
    BY InputsAssumption, Zenon DEF BoundTwice
  <2>. QED  BY <1>3, <2>1, Zenon
<1>5. LeavesOnlyTheTime(schedule, expected) <=> Only
  BY Zenon DEF LeavesOnlyTheTime
<1>6. Unlaunchable(q) <=> \/ expression = "cronSchedule" /\ ~Only
                          \/ q.scheduler = "native" /\ expression = "rate" /\ Required
  BY <1>1, <1>5, Zenon DEF Unlaunchable
<1>7. expression \in {"cronExpression", "rate"} => Only
  BY <1>1, <1>5, Zenon DEF ValidateLaunchPlan, validateSchedule
<1>8. Accepts(q) <=> /\ "" \notin bound /\ bound \subseteq DOMAIN expected
                     /\ \A name \in DOMAIN expected : IF name \in bound THEN expected[name].type = "datetime"
                                                      ELSE ~expected[name].required
  <2>1. validateLiteralMap(q.inputs) <=> "" \notin bound
    BY <1>2, OnlyATime, Zenon DEF validateLiteralMap
  <2>2. checkInputsForExecution(q.inputs, q.plan.fixedInputs, expected) <=>
           /\ bound \subseteq DOMAIN expected
           /\ \A name \in DOMAIN expected : IF name \in bound THEN expected[name].type = "datetime"
                                            ELSE ~expected[name].required
    BY <1>2, <1>4, OnlyATime, Zenon DEF checkInputsForExecution
  <2>. QED  BY <1>1, <2>1, <2>2, Zenon DEF Accepts, ValidateExecutionRequest
<1>9. \/ q.scheduler # "native" /\ expression \in {"cronExpression", "rate"}
      \/ q.scheduler = "native" /\ expression = "rate"
      \/ q.scheduler = "native" /\ expression = "cronSchedule" /\ arg # ""
  <2>1. "cronSchedule" \notin {"cronExpression", "rate"}
    OBVIOUS
  <2>. QED  BY <1>2, <2>1, Zenon DEF Schedulable, AddSchedule, getScheduleExpression, isScheduleEmpty
<1>10. "cronSchedule" \notin {"cronExpression", "rate"}
  OBVIOUS
<1>11. bound = IF q.scheduler = "native" THEN IF expression = "cronSchedule" THEN {arg} ELSE {}
               ELSE {arg} \cap (DOMAIN expected \ {""})
  BY <1>2, Zenon DEF TimeInputs, literalsInputMap, resolveKickoffTimeArg
<1>. HIDE DEF expected, schedule, expression, arg, bound
<1>12. CASE q.scheduler # "native" /\ expression \in {"cronExpression", "rate"}
  <2>1. Only /\ bound = {arg} \cap (DOMAIN expected \ {""}) /\ ~Unlaunchable(q)
    BY <1>6, <1>7, <1>10, <1>11, <1>12, Zenon
  <2>2. Accepts(q)
    BY <1>4, <1>8, <2>1, Zenon
  <2>. QED  BY <2>1, <2>2, AcceptsLaunchable, Zenon
<1>13. CASE q.scheduler = "native" /\ expression = "rate"
  <2>1. Only /\ bound = {} /\ (Unlaunchable(q) <=> Required)
    BY <1>6, <1>7, <1>10, <1>11, <1>13, Zenon
  <2>2. Accepts(q) <=> ~Required
    BY <1>8, <2>1, Zenon
  <2>. QED  BY <2>1, <2>2, AcceptsLaunchable, Zenon
<1>14. CASE q.scheduler = "native" /\ expression = "cronSchedule" /\ arg # ""
  <2>1. bound = {arg} /\ (Unlaunchable(q) <=> ~Only)
    BY <1>6, <1>10, <1>11, <1>14, Zenon
  <2>2. Accepts(q) <=> Only
    BY <1>8, <1>14, <2>1, Zenon
  <2>. QED  BY <2>1, <2>2, AcceptsLaunchable, Zenon
<1>. QED  BY <1>9, <1>12, <1>13, <1>14, Zenon

-----------------------------------------------------------------------------
(* The resources of a task.                                                *)

LEMMA AdjustFits ==
    ASSUME NEW request \in Nat, NEW limit \in Nat, NEW default \in Nat, NEW most \in Nat
    PROVE  LET given == AdjustOrDefaultResource(request, limit, default, most)
           IN  /\ given.request <= given.limit
               /\ most # 0 => given.limit <= most
  BY DEF AdjustOrDefaultResource, AtMost

LEMMA WholeValue ==
    ASSUME NEW a \in Nat, NEW b \in Nat, isWholeNumber(a), isWholeNumber(b), Value(a) <= Value(b)
    PROVE  a <= b
  BY DEF isWholeNumber, Value

LEMMA EntriesAsSet ==
    ASSUME NEW entries, DOMAIN entries \subseteq Resources, entries \in [DOMAIN entries -> Nat],
           NEW r \in Resources
    PROVE  /\ getTaskResourcesAsSet(entries)[r] \in Nat
           /\ r \in DOMAIN entries \ {"storage"} => getTaskResourcesAsSet(entries)[r] = entries[r]
           /\ r \notin DOMAIN entries => getTaskResourcesAsSet(entries)[r] = 0
<1>1. getTaskResourcesAsSet(entries)[r] = IF r \in DOMAIN entries \ {"storage"} THEN entries[r] ELSE 0
  BY Zenon DEF getTaskResourcesAsSet
<1>2. r \in DOMAIN entries => entries[r] \in Nat
  OBVIOUS
<1>. QED  BY <1>1, <1>2

\* What a task gets, resource by resource.
LEMMA GivenIs ==
    ASSUME NEW task, NEW platform, setCompiledTaskDefaults(task, platform) # None
    PROVE  LET given == setCompiledTaskDefaults(task, platform)
               defaults == getTaskResourcesAsSet(task.requests)
               limits == getTaskResourcesAsSet(task.limits)
           IN  /\ task.container
               /\ DOMAIN given \subseteq Resources
               /\ \A r \in Resources : defaults[r] # 0 => r \in DOMAIN given
               /\ \A r \in DOMAIN given :
                     given[r] = AdjustOrDefaultResource(defaults[r], limits[r], platform.defaults[r], platform.limits[r])
<1>. DEFINE defaults == getTaskResourcesAsSet(task.requests)
            limits == getTaskResourcesAsSet(task.limits)
            assigned == {"cpu", "memory"} \cup
               {r \in Resources : defaults[r] # 0 \/ limits[r] # 0 \/ platform.defaults[r] # 0}
            given == [r \in assigned |->
                        AdjustOrDefaultResource(defaults[r], limits[r], platform.defaults[r], platform.limits[r])]
<1>1. setCompiledTaskDefaults(task, platform) = IF ~task.container THEN None ELSE given
  BY DEF setCompiledTaskDefaults
<1>2. task.container /\ setCompiledTaskDefaults(task, platform) = given
  BY <1>1, Zenon
<1>3. "cpu" \in Resources /\ "memory" \in Resources
  BY DEF Resources
<1>. HIDE DEF defaults, limits
<1>4. assigned \subseteq Resources /\ \A r \in Resources : defaults[r] # 0 => r \in assigned
  BY <1>3, Zenon
<1>. HIDE DEF assigned
<1>5. DOMAIN given = assigned
  BY Zenon
<1>6. \A r \in assigned : given[r] =
         AdjustOrDefaultResource(defaults[r], limits[r], platform.defaults[r], platform.limits[r])
  BY Zenon
<1>. HIDE DEF given
<1>. QED  BY <1>2, <1>4, <1>5, <1>6, Zenon DEF defaults, limits

\* Requests stay within limits, and limits within the platform's.
LEMMA GivenFits ==
    ASSUME NEW q \in LaunchRequests, NEW platform, PlatformTyped(platform),
           setCompiledTaskDefaults(q.task, platform) # None,
           NEW r \in DOMAIN setCompiledTaskDefaults(q.task, platform)
    PROVE  LET given == setCompiledTaskDefaults(q.task, platform)
           IN  /\ given[r].request <= given[r].limit
               /\ platform.limits[r] # 0 => given[r].limit <= platform.limits[r]
<1>. DEFINE task == q.task
            given == setCompiledTaskDefaults(task, platform)
            request == getTaskResourcesAsSet(task.requests)[r]
            limit == getTaskResourcesAsSet(task.limits)[r]
<1>1. r \in Resources /\ given[r] = AdjustOrDefaultResource(request, limit, platform.defaults[r], platform.limits[r])
  <2>1. /\ DOMAIN given \subseteq Resources
        /\ \A s \in DOMAIN given :
              given[s] = AdjustOrDefaultResource(getTaskResourcesAsSet(task.requests)[s],
                            getTaskResourcesAsSet(task.limits)[s], platform.defaults[s], platform.limits[s])
    BY GivenIs, SMT
  <2>. QED  BY <2>1, Zenon
<1>2. \A entries \in {task.requests, task.limits} :
         DOMAIN entries \subseteq Resources /\ entries \in [DOMAIN entries -> Nat]
  BY RequestsAssumption, Zenon
<1>3. request \in Nat /\ limit \in Nat
  BY <1>1, <1>2, EntriesAsSet, Zenon
<1>4. platform.defaults[r] \in Nat /\ platform.limits[r] \in Nat
  BY <1>1 DEF PlatformTyped
<1>. HIDE DEF given, request, limit
<1>5. given[r].request <= given[r].limit /\ (platform.limits[r] # 0 => given[r].limit <= platform.limits[r])
  BY <1>1, <1>3, <1>4, AdjustFits, Zenon
<1>. QED  BY <1>5, Zenon DEF given

\* Under the platform's own limits a registered task gets what it requested.
LEMMA RequestIsGiven ==
    ASSUME NEW q \in LaunchRequests, NEW platform, PlatformTyped(platform),
           setCompiledTaskDefaults(q.task, platform) # None,
           validateTaskTemplate(q.task), ~q.task.sidecar, platform.limits = LimitResources,
           NEW r \in DOMAIN q.task.requests \ {"storage"},
           isWholeNumber(q.task.requests[r]), isWholeNumber(LimitResources[r]),
           r \in DOMAIN q.task.limits => isWholeNumber(q.task.limits[r]),
           q.task.requests[r] # 0
    PROVE  setCompiledTaskDefaults(q.task, platform)[r].request = q.task.requests[r]
<1>. DEFINE task == q.task
            given == setCompiledTaskDefaults(task, platform)
            request == getTaskResourcesAsSet(task.requests)[r]
            limit == getTaskResourcesAsSet(task.limits)[r]
<1>1. \A entries \in {task.requests, task.limits} :
         DOMAIN entries \subseteq Resources /\ entries \in [DOMAIN entries -> Nat]
  BY RequestsAssumption, Zenon
<1>2. r \in Resources
  BY <1>1, Zenon
<1>3. /\ request = task.requests[r] /\ request \in Nat /\ limit \in Nat
      /\ r \in DOMAIN task.limits => limit = task.limits[r]
      /\ r \notin DOMAIN task.limits => limit = 0
  <2>1. r # "storage"
    OBVIOUS
  <2>. QED  BY <1>1, <1>2, <2>1, EntriesAsSet, Zenon
<1>4. task.container /\ r \in DOMAIN given
      /\ given[r] = AdjustOrDefaultResource(request, limit, platform.defaults[r], platform.limits[r])
  <2>1. /\ task.container
        /\ \A s \in Resources : getTaskResourcesAsSet(task.requests)[s] # 0 => s \in DOMAIN given
        /\ \A s \in DOMAIN given :
              given[s] = AdjustOrDefaultResource(getTaskResourcesAsSet(task.requests)[s],
                            getTaskResourcesAsSet(task.limits)[s], platform.defaults[s], platform.limits[s])
    BY GivenIs, SMT
  <2>2. request # 0
    BY <1>3, Zenon
  <2>. QED  BY <1>2, <2>1, <2>2, Zenon
<1>5. platform.defaults[r] \in Nat /\ LimitResources[r] \in Nat
  BY <1>2, ConfigurationAssumption DEF PlatformTyped
<1>6. validateTaskResources(task)
  BY <1>4, Zenon DEF validateTaskTemplate
<1>7. /\ LimitResources[r] # 0 => Value(task.requests[r]) <= Value(LimitResources[r])
      /\ r \in DOMAIN task.limits => \/ Value(task.requests[r]) <= Value(task.limits[r])
                                     \/ Value(task.requests[r]) = Value(task.limits[r])
  <2>. DEFINE defaults == requestedResourcesToQuantity(task.requests)
              limits == requestedResourcesToQuantity(task.limits)
  <2>1. r \in DOMAIN defaults /\ defaults[r] = task.requests[r]
    BY DEF requestedResourcesToQuantity, Restrict
  <2>2. r \in DOMAIN task.limits => r \in DOMAIN limits /\ limits[r] = task.limits[r]
    BY DEF requestedResourcesToQuantity, Restrict
  <2>3. \A s \in DOMAIN defaults :
           /\ LimitResources[s] # 0 => Value(defaults[s]) <= Value(LimitResources[s])
           /\ s \in DOMAIN limits =>
                 IF s = "gpu" THEN Value(defaults[s]) = Value(limits[s]) ELSE Value(defaults[s]) <= Value(limits[s])
    BY <1>6, Zenon DEF validateTaskResources
  <2>. HIDE DEF defaults, limits
  <2>. QED  BY <2>1, <2>2, <2>3, Zenon
<1>8. LimitResources[r] # 0 => request <= LimitResources[r]
  BY <1>3, <1>5, <1>7, WholeValue, Zenon
<1>9. limit # 0 => request <= limit
  <2>1. ASSUME limit # 0 PROVE r \in DOMAIN task.limits /\ limit = task.limits[r]
    BY <1>3, <2>1, Zenon
  <2>2. Value(request) \in Nat /\ Value(limit) \in Nat
    BY <1>3 DEF Value
  <2>3. limit # 0 => Value(request) <= Value(limit)
    <3>1. limit # 0 => Value(request) <= Value(limit) \/ Value(request) = Value(limit)
      BY <1>3, <1>7, <2>1, Zenon
    <3>. HIDE DEF request, limit
    <3>. QED  BY <2>2, <3>1
  <2>4. limit # 0 => isWholeNumber(limit)
    BY <2>1, Zenon
  <2>. QED  BY <1>3, <2>3, <2>4, WholeValue, Zenon
<1>10. request # 0
  BY <1>3, Zenon
<1>11. AdjustOrDefaultResource(request, limit, platform.defaults[r], LimitResources[r]).request = request
  <2>. HIDE DEF request, limit
  <2>1. PICK default \in Nat, most \in Nat : default = platform.defaults[r] /\ most = LimitResources[r]
    BY <1>5, Zenon
  <2>2. request \in Nat /\ limit \in Nat /\ (most # 0 => request <= most)
    BY <1>3, <1>8, <2>1, Zenon
  <2>3. AdjustOrDefaultResource(request, limit, default, most).request = request
    BY <1>9, <1>10, <2>2 DEF AdjustOrDefaultResource, AtMost
  <2>. QED  BY <2>1, <2>3, Zenon
<1>12. given[r].request = AdjustOrDefaultResource(request, limit, platform.defaults[r], LimitResources[r]).request
  BY <1>4, Zenon
<1>. QED  BY <1>3, <1>11, <1>12, Zenon

-----------------------------------------------------------------------------
(* The first of several settings that is set.                              *)

LEMMA FirstSetIs ==
    ASSUME NEW layers, DOMAIN layers \subseteq Int, NEW unset, NEW i \in DOMAIN layers,
           layers[i] # unset, \A j \in DOMAIN layers : j < i => layers[j] = unset
    PROVE  FirstSet(layers, unset) = layers[i]
<1>. DEFINE set == {k \in DOMAIN layers : layers[k] # unset}
            first == CHOOSE k \in set : \A j \in set : k <= j
<1>1. i \in set /\ \A j \in set : i <= j
  OBVIOUS
<1>2. set \subseteq Int
  OBVIOUS
<1>3. FirstSet(layers, unset) = layers[first]
  BY <1>1, Zenon DEF FirstSet
<1>. HIDE DEF set
<1>4. first \in set /\ \A j \in set : first <= j
  BY <1>1, Zenon
<1>. HIDE DEF first
<1>5. first = i
  BY <1>1, <1>2, <1>4
<1>. QED  BY <1>3, <1>5, Zenon

LEMMA FirstSetNone ==
    ASSUME NEW layers, NEW unset, \A j \in DOMAIN layers : layers[j] = unset
    PROVE  FirstSet(layers, unset) = unset
  BY Zenon DEF FirstSet

LEMMA FirstSetOne ==
    ASSUME NEW a, NEW unset
    PROVE  FirstSet(<<a>>, unset) = a
<1>. DEFINE layers == <<a>>
<1>1. /\ DOMAIN layers = 1 .. 1
      /\ layers[1] = a
  OBVIOUS
<1>. HIDE DEF layers
<1>2. \A i \in DOMAIN layers : layers[i] # unset /\ (\A j \in DOMAIN layers : j < i => layers[j] = unset) =>
         FirstSet(layers, unset) = layers[i]
  <2>1. DOMAIN layers \subseteq Int
    BY <1>1
  <2>. QED  BY <2>1, FirstSetIs, Zenon
<1>3. CASE a # unset
  <2>1. 1 \in DOMAIN layers /\ \A j \in DOMAIN layers : j < 1 => layers[j] = unset
    BY <1>1, <1>3
  <2>2. FirstSet(layers, unset) = layers[1]
    BY <1>1, <1>2, <1>3, <2>1, Zenon
  <2>. QED  BY <1>1, <1>3, <2>2, Zenon DEF layers
<1>4. CASE a = unset
  <2>1. \A j \in DOMAIN layers : layers[j] = unset
    BY <1>1, <1>4
  <2>2. FirstSet(layers, unset) = unset
    BY <2>1, FirstSetNone, Zenon
  <2>. QED  BY <1>4, <2>2, Zenon DEF layers
<1>. QED  BY <1>3, <1>4, Zenon

LEMMA FirstSetTwo ==
    ASSUME NEW a, NEW b, NEW unset
    PROVE  FirstSet(<<a, b>>, unset) = IF a # unset THEN a ELSE b
<1>. DEFINE layers == <<a, b>>
<1>1. /\ DOMAIN layers = 1 .. 2
      /\ layers[1] = a /\ layers[2] = b
  OBVIOUS
<1>. HIDE DEF layers
<1>2. \A i \in DOMAIN layers : layers[i] # unset /\ (\A j \in DOMAIN layers : j < i => layers[j] = unset) =>
         FirstSet(layers, unset) = layers[i]
  <2>1. DOMAIN layers \subseteq Int
    BY <1>1
  <2>. QED  BY <2>1, FirstSetIs, Zenon
<1>3. CASE a # unset
  <2>1. 1 \in DOMAIN layers /\ \A j \in DOMAIN layers : j < 1 => layers[j] = unset
    BY <1>1, <1>3
  <2>2. FirstSet(layers, unset) = layers[1]
    BY <1>1, <1>2, <1>3, <2>1, Zenon
  <2>. QED  BY <1>1, <1>3, <2>2, Zenon DEF layers
<1>4. CASE a = unset /\ b # unset
  <2>1. 2 \in DOMAIN layers /\ \A j \in DOMAIN layers : j < 2 => layers[j] = unset
    BY <1>1, <1>4
  <2>2. FirstSet(layers, unset) = layers[2]
    BY <1>1, <1>2, <1>4, <2>1, Zenon
  <2>. QED  BY <1>1, <1>4, <2>2, Zenon DEF layers
<1>5. CASE a = unset /\ b = unset
  <2>1. \A j \in DOMAIN layers : layers[j] = unset
    BY <1>1, <1>5
  <2>2. FirstSet(layers, unset) = unset
    BY <2>1, FirstSetNone, Zenon
  <2>. QED  BY <1>5, <2>2, Zenon DEF layers
<1>. QED  BY <1>3, <1>4, <1>5, Zenon

LEMMA FirstSetFive ==
    ASSUME NEW a, NEW b, NEW c, NEW d, NEW e, NEW unset
    PROVE  FirstSet(<<a, b, c, d, e>>, unset) = 
              IF a # unset THEN a ELSE IF b # unset THEN b ELSE IF c # unset THEN c
              ELSE IF d # unset THEN d ELSE e
<1>. DEFINE layers == <<a, b, c, d, e>>
<1>1. /\ DOMAIN layers = 1 .. 5
      /\ layers[1] = a /\ layers[2] = b /\ layers[3] = c /\ layers[4] = d /\ layers[5] = e
  OBVIOUS
<1>. HIDE DEF layers
<1>2. \A i \in DOMAIN layers : layers[i] # unset /\ (\A j \in DOMAIN layers : j < i => layers[j] = unset) =>
         FirstSet(layers, unset) = layers[i]
  <2>1. DOMAIN layers \subseteq Int
    BY <1>1
  <2>. QED  BY <2>1, FirstSetIs, Zenon
<1>3. CASE a # unset
  <2>1. 1 \in DOMAIN layers /\ \A j \in DOMAIN layers : j < 1 => layers[j] = unset
    BY <1>1, <1>3
  <2>2. FirstSet(layers, unset) = layers[1]
    BY <1>1, <1>2, <1>3, <2>1, Zenon
  <2>. QED  BY <1>1, <1>3, <2>2, Zenon DEF layers
<1>4. CASE a = unset /\ b # unset
  <2>1. 2 \in DOMAIN layers /\ \A j \in DOMAIN layers : j < 2 => layers[j] = unset
    BY <1>1, <1>4
  <2>2. FirstSet(layers, unset) = layers[2]
    BY <1>1, <1>2, <1>4, <2>1, Zenon
  <2>. QED  BY <1>1, <1>4, <2>2, Zenon DEF layers
<1>5. CASE a = unset /\ b = unset /\ c # unset
  <2>1. 3 \in DOMAIN layers /\ \A j \in DOMAIN layers : j < 3 => layers[j] = unset
    BY <1>1, <1>5
  <2>2. FirstSet(layers, unset) = layers[3]
    BY <1>1, <1>2, <1>5, <2>1, Zenon
  <2>. QED  BY <1>1, <1>5, <2>2, Zenon DEF layers
<1>6. CASE a = unset /\ b = unset /\ c = unset /\ d # unset
  <2>1. 4 \in DOMAIN layers /\ \A j \in DOMAIN layers : j < 4 => layers[j] = unset
    BY <1>1, <1>6
  <2>2. FirstSet(layers, unset) = layers[4]
    BY <1>1, <1>2, <1>6, <2>1, Zenon
  <2>. QED  BY <1>1, <1>6, <2>2, Zenon DEF layers
<1>7. CASE a = unset /\ b = unset /\ c = unset /\ d = unset /\ e # unset
  <2>1. 5 \in DOMAIN layers /\ \A j \in DOMAIN layers : j < 5 => layers[j] = unset
    BY <1>1, <1>7
  <2>2. FirstSet(layers, unset) = layers[5]
    BY <1>1, <1>2, <1>7, <2>1, Zenon
  <2>. QED  BY <1>1, <1>7, <2>2, Zenon DEF layers
<1>8. CASE a = unset /\ b = unset /\ c = unset /\ d = unset /\ e = unset
  <2>1. \A j \in DOMAIN layers : layers[j] = unset
    BY <1>1, <1>8
  <2>2. FirstSet(layers, unset) = unset
    BY <2>1, FirstSetNone, Zenon
  <2>. QED  BY <1>8, <2>2, Zenon DEF layers
<1>. QED  BY <1>3, <1>4, <1>5, <1>6, <1>7, <1>8, Zenon

LEMMA LayersFirst ==
    ASSUME NEW kind, NEW own, NEW plans, NEW unset
    PROVE  FirstSet(Layers(kind, own, plans), unset) =
              IF own = unset /\ kind = "plan" THEN plans ELSE own
<1>1. CASE kind = "plan"
  <2>1. Layers(kind, own, plans) = <<own, plans>>
    BY <1>1, Zenon DEF Layers
  <2>2. FirstSet(<<own, plans>>, unset) = IF own # unset THEN own ELSE plans
    BY FirstSetTwo
  <2>. QED  BY <1>1, <2>1, <2>2
<1>2. CASE kind # "plan"
  <2>1. Layers(kind, own, plans) = <<own>>
    BY <1>2, Zenon DEF Layers
  <2>2. FirstSet(<<own>>, unset) = own
    BY FirstSetOne, Zenon
  <2>. QED  BY <1>2, <2>1, <2>2, Zenon
<1>. QED  BY <1>1, <1>2, Zenon

-----------------------------------------------------------------------------
(* Queues, labels and the object.                                          *)

LEMMA MatchingIsFirst ==
    ASSUME NEW tags \in Seq(STRING)
    PROVE  \/ /\ MatchingQueues(tags) = {}
              /\ \A i \in 1 .. Len(tags) : QueuesOf(tags[i]) = {}
           \/ /\ MatchingQueues(tags) # {}
              /\ \E i \in 1 .. Len(tags) : /\ MatchingQueues(tags) = QueuesOf(tags[i])
                                           /\ \A j \in 1 .. i - 1 : QueuesOf(tags[j]) = {}
<1>. DEFINE known == {i \in DOMAIN tags : QueuesOf(tags[i]) # {}}
            first == CHOOSE i \in known : \A j \in known : i <= j
<1>1. DOMAIN tags = 1 .. Len(tags) /\ Len(tags) \in Nat
  OBVIOUS
<1>2. MatchingQueues(tags) = IF known = {} THEN {} ELSE QueuesOf(tags[first])
  BY Zenon DEF MatchingQueues
<1>3. CASE known = {}
  BY <1>1, <1>2, <1>3, Zenon
<1>4. CASE known # {}
  <2>1. known \subseteq Nat
    BY <1>1
  <2>2. \E i \in known : \A j \in known : i <= j
    BY <1>4, <2>1, Least, Zenon
  <2>. HIDE DEF known
  <2>3. first \in known /\ \A j \in known : first <= j
    BY <2>2, Zenon
  <2>4. MatchingQueues(tags) = QueuesOf(tags[first])
    BY <1>2, <1>4, Zenon
  <2>. HIDE DEF first
  <2>5. first \in 1 .. Len(tags) /\ QueuesOf(tags[first]) # {}
    BY <1>1, <2>3, Zenon DEF known
  <2>6. ASSUME NEW j \in 1 .. first - 1, QueuesOf(tags[j]) # {}
        PROVE  FALSE
    <3>1. j \in known
      BY <1>1, <2>5, <2>6 DEF known
    <3>2. ~(first <= j)
      BY <2>5
    <3>. QED  BY <2>3, <3>1, <3>2, Zenon
  <2>. QED  BY <2>4, <2>5, <2>6, Zenon
<1>. QED  BY <1>3, <1>4, Zenon

\* The queues of an override's tags, or else of the configuration's, are
\* those of the first tag of the two lists that has any.
LEMMA QueueOfBoth ==
    ASSUME NEW own \in Seq(STRING), NEW rest \in Seq(STRING), NEW queue,
           LET queues == IF MatchingQueues(own) # {} THEN MatchingQueues(own) ELSE MatchingQueues(rest)
           IN  queue \in IF queues = {} THEN {None} ELSE queues
    PROVE  IsQueueFor(queue, own \o rest)
<1>. DEFINE tags == own \o rest
<1>1. /\ Len(tags) = Len(own) + Len(rest) /\ Len(own) \in Nat /\ Len(rest) \in Nat
      /\ \A i \in 1 .. Len(own) : tags[i] = own[i]
      /\ \A i \in 1 .. Len(rest) : tags[Len(own) + i] = rest[i]
  OBVIOUS
<1>. HIDE DEF tags
<1>2. SUFFICES \E i \in 1 .. Len(tags) + 1 :
                  /\ \A j \in 1 .. i - 1 : QueuesOf(tags[j]) = {}
                  /\ IF i > Len(tags) THEN queue = None ELSE queue \in QueuesOf(tags[i])
  BY Zenon DEF IsQueueFor, tags
<1>3. CASE MatchingQueues(own) # {}
  <2>1. PICK i \in 1 .. Len(own) : /\ MatchingQueues(own) = QueuesOf(own[i])
                                   /\ \A j \in 1 .. i - 1 : QueuesOf(own[j]) = {}
    BY <1>3, MatchingIsFirst, Zenon
  <2>2. queue \in QueuesOf(tags[i])
    BY <1>1, <1>3, <2>1, Zenon
  <2>3. i \in 1 .. Len(tags) + 1 /\ ~(i > Len(tags))
    BY <1>1
  <2>4. \A j \in 1 .. i - 1 : j \in 1 .. Len(own)
    BY <1>1
  <2>5. \A j \in 1 .. i - 1 : QueuesOf(tags[j]) = {}
    BY <1>1, <2>1, <2>4, Zenon
  <2>. QED  BY <2>2, <2>3, <2>5, Zenon
<1>4. CASE MatchingQueues(own) = {}
  <2>1. \A i \in 1 .. Len(own) : QueuesOf(tags[i]) = {}
    BY <1>1, <1>4, MatchingIsFirst, Zenon
  <2>2. CASE MatchingQueues(rest) # {}
    <3>1. PICK i \in 1 .. Len(rest) : /\ MatchingQueues(rest) = QueuesOf(rest[i])
                                      /\ \A j \in 1 .. i - 1 : QueuesOf(rest[j]) = {}
      BY <2>2, MatchingIsFirst, Zenon
    <3>2. queue \in QueuesOf(tags[Len(own) + i])
      BY <1>1, <1>4, <2>2, <3>1, Zenon
    <3>3. Len(own) + i \in 1 .. Len(tags) + 1 /\ ~(Len(own) + i > Len(tags))
      BY <1>1
    <3>4. ASSUME NEW j \in 1 .. (Len(own) + i) - 1
          PROVE  QueuesOf(tags[j]) = {}
      <4>1. CASE j \in 1 .. Len(own)
        BY <2>1, <4>1, Zenon
      <4>2. CASE j \notin 1 .. Len(own)
        <5>1. j - Len(own) \in 1 .. i - 1 /\ j - Len(own) \in 1 .. Len(rest) /\ Len(own) + (j - Len(own)) = j
          BY <1>1, <4>2
        <5>. QED  BY <1>1, <3>1, <5>1, Zenon
      <4>. QED  BY <4>1, <4>2, Zenon
    <3>. QED  BY <3>2, <3>3, <3>4, Zenon
  <2>3. CASE MatchingQueues(rest) = {}
    <3>1. queue = None
      BY <1>4, <2>3, Zenon
    <3>2. \A i \in 1 .. Len(rest) : QueuesOf(tags[Len(own) + i]) = {}
      BY <1>1, <2>3, MatchingIsFirst, Zenon
    <3>3. Len(tags) + 1 \in 1 .. Len(tags) + 1 /\ Len(tags) + 1 > Len(tags)
      BY <1>1
    <3>4. ASSUME NEW j \in 1 .. (Len(tags) + 1) - 1
          PROVE  QueuesOf(tags[j]) = {}
      <4>1. CASE j \in 1 .. Len(own)
        BY <2>1, <4>1, Zenon
      <4>2. CASE j \notin 1 .. Len(own)
        <5>1. j - Len(own) \in 1 .. Len(rest) /\ Len(own) + (j - Len(own)) = j
          BY <1>1, <4>2
        <5>. QED  BY <3>2, <5>1, Zenon
      <4>. QED  BY <4>1, <4>2, Zenon
    <3>. QED  BY <3>1, <3>3, <3>4, Zenon
  <2>. QED  BY <2>2, <2>3, Zenon
<1>. QED  BY <1>3, <1>4, Zenon

\* The request's own map, or else the launch plan's.
LEMMA StringMapIs ==
    ASSUME NEW kind, NEW own, NEW plans
    PROVE  LET first == FirstSet(Layers(kind, own, plans), None)
           IN  resolveStringMap(kind, own, plans) = IF first = None THEN << >> ELSE first
<1>1. FirstSet(Layers(kind, own, plans), None) = IF own = None /\ kind = "plan" THEN plans ELSE own
  BY LayersFirst
<1>2. resolveStringMap(kind, own, plans) =
         IF own # None THEN own ELSE IF kind = "plan" /\ plans # None THEN plans ELSE << >>
  BY DEF resolveStringMap
<1>. QED  BY <1>1, <1>2, SMT

LEMMA LabelsAreExpected ==
    ASSUME NEW q
    PROVE  addProjectLabels(resolveStringMap(q.kind, q.labels, q.plan.labels)) = ExpectedLabels(q)
<1>. DEFINE own == FirstSet(Layers(q.kind, q.labels, q.plan.labels), None)
            labels == IF own = None THEN << >> ELSE own
<1>1. resolveStringMap(q.kind, q.labels, q.plan.labels) = labels
  BY StringMapIs, Zenon
<1>2. ExpectedLabels(q) = [k \in DOMAIN labels \cup DOMAIN ProjectLabels |->
                             IF k \in DOMAIN labels THEN labels[k] ELSE ProjectLabels[k]]
  BY DEF ExpectedLabels
<1>3. addProjectLabels(labels) = [k \in DOMAIN labels \cup DOMAIN ProjectLabels |->
                                    IF k \in DOMAIN labels THEN labels[k] ELSE ProjectLabels[k]]
  BY DEF addProjectLabels, Over
<1>. HIDE DEF labels
<1>. QED  BY <1>1, <1>2, <1>3, Zenon

LEMMA OverIs ==
    ASSUME NEW f, NEW g
    PROVE  /\ DOMAIN Over(f, g) = DOMAIN f \cup DOMAIN g
           /\ \A x \in DOMAIN f : Over(f, g)[x] = f[x]
           /\ \A x \in DOMAIN g \ DOMAIN f : Over(f, g)[x] = g[x]
  BY DEF Over

\* What the object is made of.
ConfiguredOnly(resources) == Restrict(resources, {r \in DOMAIN resources : resources[r] # 0})
RoleAnnotation(securityCtx) ==
    IF securityCtx.iamRole = "" THEN << >> ELSE Over([k \in {RoleNameKey} |-> securityCtx.iamRole], << >>)
Shows(object, securityCtx, labels, annotations, plugins, parallelism, platform) ==
    /\ object.labels = Over(labels, BuiltLabels)
    /\ object.annotations = Over(annotations, RoleAnnotation(securityCtx))
    /\ object.serviceAccountName = securityCtx.account
    /\ object.taskPluginImpls = IF plugins \in {None, Empty} THEN << >> ELSE plugins.value
    /\ object.maxParallelism = parallelism
    /\ object.requests = ConfiguredOnly(platform.defaults)
    /\ object.limits = ConfiguredOnly(platform.limits)

LEMMA ObjectFields ==
    ASSUME NEW securityCtx, NEW labels, NEW annotations, NEW plugins, NEW parallelism, NEW platform
    PROVE  Shows(PrepareFlyteWorkflow(securityCtx, labels, annotations, plugins, parallelism, platform),
                 securityCtx, labels, annotations, plugins, parallelism, platform)
<1>. DEFINE given == RoleAnnotation(securityCtx)
            names == {"labels", "annotations", "serviceAccountName", "taskPluginImpls", "maxParallelism",
                      "requests", "limits"}
            built == [labels |-> BuiltLabels, annotations |-> << >>, serviceAccountName |-> "",
                      taskPluginImpls |-> << >>, maxParallelism |-> 0, requests |-> << >>, limits |-> << >>]
            permitted == addPermissions(securityCtx, built)
            labelled == [permitted EXCEPT !.labels = addMapValues(labels, @),
                                          !.annotations = addMapValues(annotations, @)]
            object == addExecutionOverrides(plugins, parallelism, platform, labelled)
<1>1. PrepareFlyteWorkflow(securityCtx, labels, annotations, plugins, parallelism, platform) = object
  BY DEF PrepareFlyteWorkflow
<1>2. DOMAIN built = names /\ built.labels = BuiltLabels /\ built.annotations = << >>
  OBVIOUS
<1>. HIDE DEF built
<1>3. /\ DOMAIN permitted = names
      /\ permitted.labels = BuiltLabels
      /\ permitted.annotations = given
      /\ permitted.serviceAccountName = securityCtx.account
  BY <1>2 DEF addPermissions, RoleAnnotation
<1>. HIDE DEF permitted, given
<1>4. /\ DOMAIN labelled = names
      /\ labelled.labels = Over(labels, BuiltLabels)
      /\ labelled.annotations = Over(annotations, given)
      /\ labelled.serviceAccountName = securityCtx.account
  BY <1>3 DEF addMapValues
<1>. HIDE DEF labelled
<1>5. /\ object.labels = labelled.labels
      /\ object.annotations = labelled.annotations
      /\ object.serviceAccountName = labelled.serviceAccountName
      /\ object.taskPluginImpls = IF plugins \in {None, Empty} THEN << >> ELSE plugins.value
      /\ object.maxParallelism = parallelism
      /\ object.requests = ConfiguredOnly(platform.defaults)
      /\ object.limits = ConfiguredOnly(platform.limits)
  BY <1>4 DEF addExecutionOverrides, ConfiguredOnly
<1>. HIDE DEF object
<1>. QED  BY <1>1, <1>4, <1>5, Zenon DEF given, Shows

\* The role an object is given.
LEMMA RoleIs ==
    ASSUME NEW q
    PROVE  LET role == FirstSet(<<q.securityCtx, q.plan.securityCtx, q.authRole, q.plan.authRole, q.plan.auth>>, None)
           IN  /\ role # None => resolveSecurityCtx(q) = role
               /\ role = None => resolveSecurityCtx(q).iamRole = q.plan.role
<1>. DEFINE a == q.securityCtx
            b == q.plan.securityCtx
            c == q.authRole
            d == q.plan.authRole
            e == q.plan.auth
            last == [iamRole |-> q.plan.role, account |-> ""]
            role == FirstSet(<<a, b, c, d, e>>, None)
            resolved == resolveSecurityCtx(q)
<1>1. last.iamRole = q.plan.role
  OBVIOUS
<1>2. resolved = IF a # None THEN a ELSE IF b # None THEN b ELSE IF c # None THEN c
                 ELSE IF d # None THEN d ELSE IF e # None THEN e ELSE last
  BY Zenon DEF resolveSecurityCtx, resolveAuthRole
<1>. HIDE DEF a, b, c, d, e, last, resolved
<1>3. role = IF a # None THEN a ELSE IF b # None THEN b ELSE IF c # None THEN c
             ELSE IF d # None THEN d ELSE e
  BY FirstSetFive
<1>. HIDE DEF role
<1>4. (role # None => resolved = role) /\ (role = None => resolved.iamRole = q.plan.role)
  BY <1>1, <1>2, <1>3
<1>. QED  BY <1>4, Zenon DEF a, b, c, d, e, role, resolved

\* The object shows what the launch settled.
LEMMA ObjectIsFor ==
    ASSUME NEW l, PlatformTyped(launch[l].platform)
    PROVE  IsObjectFor(ObjectOf(l), l)
<1>. DEFINE q == launch[l].request
            x == launch[l]
            object == ObjectOf(l)
            role == FirstSet(<<q.securityCtx, q.plan.securityCtx, q.authRole, q.plan.authRole, q.plan.auth>>, None)
            own == FirstSet(Layers(q.kind, q.annotations, q.plan.annotations), None)
            annotations == IF own = None THEN << >> ELSE own
            iamRole == IF role # None THEN role.iamRole ELSE q.plan.role
            ctx == resolveSecurityCtx(q)
            given == RoleAnnotation(ctx)
<1>1. resolveStringMap(q.kind, q.annotations, q.plan.annotations) = annotations
  BY StringMapIs, Zenon
<1>2. object = PrepareFlyteWorkflow(ctx, ExpectedLabels(q), annotations, x.plugins, x.parallelism, x.platform)
  BY <1>1, LabelsAreExpected, Zenon DEF ObjectOf
<1>3. /\ object.labels = Over(ExpectedLabels(q), BuiltLabels)
      /\ object.annotations = Over(annotations, given)
      /\ object.serviceAccountName = ctx.account
      /\ object.taskPluginImpls = IF x.plugins \in {None, Empty} THEN << >> ELSE x.plugins.value
      /\ object.maxParallelism = x.parallelism
      /\ object.requests = ConfiguredOnly(x.platform.defaults)
      /\ object.limits = ConfiguredOnly(x.platform.limits)
  <2>. HIDE DEF annotations, ctx
  <2>1. Shows(object, ctx, ExpectedLabels(q), annotations, x.plugins, x.parallelism, x.platform)
    BY <1>2, ObjectFields, Zenon
  <2>. QED  BY <2>1, Zenon DEF Shows
<1>4. /\ role # None => ctx = role
      /\ role = None => ctx.iamRole = q.plan.role
  BY RoleIs, Zenon
<1>5. ctx.iamRole = iamRole /\ (role # None => ctx.account = role.account)
  BY <1>4, Zenon
<1>. HIDE DEF object, role, annotations, ctx, iamRole
<1>6. \A k \in DOMAIN BuiltLabels \cup DOMAIN ExpectedLabels(q) :
         object.labels[k] = IF k \in DOMAIN ExpectedLabels(q) THEN ExpectedLabels(q)[k] ELSE BuiltLabels[k]
  BY <1>3 DEF Over
<1>7. \A k \in DOMAIN annotations : object.annotations[k] = annotations[k]
  <2>. HIDE DEF given
  <2>1. \A k \in DOMAIN annotations : Over(annotations, given)[k] = annotations[k]
    BY OverIs, Zenon
  <2>. QED  BY <1>3, <2>1, Zenon
<1>8. ASSUME iamRole # "", RoleNameKey \notin DOMAIN annotations
      PROVE  object.annotations[RoleNameKey] = iamRole
  <2>. DEFINE one == [k \in {RoleNameKey} |-> ctx.iamRole]
  <2>1. given = Over(one, << >>)
    BY <1>5, <1>8, Zenon DEF RoleAnnotation
  <2>2. RoleNameKey \in DOMAIN one /\ one[RoleNameKey] = iamRole
    BY <1>5
  <2>. HIDE DEF one, given
  <2>3. RoleNameKey \in DOMAIN given /\ given[RoleNameKey] = iamRole
    <3>1. DOMAIN Over(one, << >>) = DOMAIN one \cup DOMAIN << >> /\ \A k \in DOMAIN one : Over(one, << >>)[k] = one[k]
      BY OverIs, Zenon
    <3>. QED  BY <2>1, <2>2, <3>1, Zenon
  <2>4. \A k \in DOMAIN given \ DOMAIN annotations : Over(annotations, given)[k] = given[k]
    BY OverIs, Zenon
  <2>. QED  BY <1>3, <1>8, <2>3, <2>4, Zenon
<1>9. ASSUME NEW r \in Resources
      PROVE  /\ r \in DOMAIN object.requests <=> x.platform.defaults[r] # 0
             /\ r \in DOMAIN object.limits => object.limits[r] = x.platform.limits[r]
  <2>1. DOMAIN x.platform.defaults = Resources /\ DOMAIN x.platform.limits = Resources
    BY DEF PlatformTyped
  <2>. QED  BY <1>3, <2>1, Zenon DEF ConfiguredOnly, Restrict
<1>. QED  BY <1>3, <1>5, <1>6, <1>7, <1>8, <1>9, Zenon
          DEF IsObjectFor, object, role, annotations, iamRole

-----------------------------------------------------------------------------
(* What a launch finds.                                                    *)

LEMMA LookupTyped ==
    ASSUME RowsTyped, NEW w, NEW t, NEW launchPlan
    PROVE  LET found == GetResource(w, t, launchPlan)
           IN  found \in {None, Empty} \/ (found \in Attributes /\ found.type = t)
<1>. DEFINE matching == {r \in rows : /\ validateCreateOrUpdateResourceInput(w, launchPlan)
                                      /\ r.type = t
                                      /\ r.workflow \in {ProjectDomain, w}}
            top == {r \in matching : \A q \in matching : Priority(r.workflow) >= Priority(q.workflow)}
<1>1. GetResource(w, t, launchPlan) = IF top = {} THEN None ELSE First(top).attributes
  BY Zenon DEF GetResource, ResourceGet
<1>2. CASE top = {}
  BY <1>1, <1>2, Zenon
<1>3. CASE top # {}
  <2>1. \A r \in top : r \in rows /\ r.type = t
    BY Zenon
  <2>2. \A r \in rows : /\ r.id \in Nat /\ r.attributes \in Attributes \cup {Empty}
                        /\ r.attributes # Empty => r.attributes.type = r.type
    BY DEF RowsTyped, RowTyped, TableRow
  <2>. HIDE DEF top
  <2>3. First(top) \in top
    BY <1>3, <2>1, <2>2, FirstMatches, Zenon
  <2>4. PICK r \in top : GetResource(w, t, launchPlan) = r.attributes
    BY <1>1, <1>3, <2>3, Zenon
  <2>. QED  BY <2>1, <2>2, <2>4, Zenon
<1>. QED  BY <1>2, <1>3, Zenon

\* Attributes that cannot have been merged are those of a request.
LEMMA RequestedAttributes ==
    ASSUME NEW a \in Attributes, a.type # "PLUGIN_OVERRIDE"
    PROVE  a \in Requested
  BY DEF Attributes, PluginOverrides

\* The platform's resources, whatever override is found.
LEMMA PlatformIsTyped ==
    ASSUME NEW found, found \in {None, Empty} \/ (found \in Attributes /\ found.type = "TASK_RESOURCE"),
           None \notin {PlatformResources(found).defaults, PlatformResources(found).limits}
    PROVE  PlatformTyped(PlatformResources(found))
<1>1. CASE found \in {None, Empty}
  <2>1. PlatformResources(found) = [defaults |-> DefaultResources, limits |-> LimitResources]
    BY <1>1, Zenon DEF PlatformResources
  <2>. QED  BY <2>1, ConfigurationAssumption DEF PlatformTyped
<1>2. CASE found \notin {None, Empty}
  <2>1. found \in Requested /\ found.type = "TASK_RESOURCE"
    BY <1>2, RequestedAttributes
  <2>2. found.value \in [defaults : [Resources -> Nat] \cup {None}, limits : [Resources -> Nat] \cup {None}]
    BY <2>1, OverridesAssumption, Zenon
  <2>3. PlatformResources(found) = found.value
    BY <1>2, Zenon DEF PlatformResources
  <2>. QED  BY <2>2, <2>3 DEF PlatformTyped
<1>. QED  BY <1>1, <1>2, Zenon

\* An override that is settled is what the lookup finds.
LEMMA SettledLookup ==
    ASSUME ResourceInv, NEW q \in LaunchRequests, NEW t \in Types, NEW launchPlan, Settled(q.workflow, t)
    PROVE  GetResource(q.workflow, t, launchPlan) = Override(q.workflow, t)
<1>1. q.workflow \in Workflows
  BY RequestsAssumption, Zenon
<1>. QED  BY <1>1, WorkflowLookup, Zenon DEF Settled, GetResource

\* The override of a workflow is None or has its type.
LEMMA OverrideTyped ==
    ASSUME WantTyped, NEW w \in Levels, NEW t \in Types, Override(w, t) # None
    PROVE  Override(w, t) \in Attributes /\ Override(w, t).type = t
<1>1. /\ Key(w, t) \in Keys /\ Key(w, t).type = t
      /\ Key(ProjectDomain, t) \in Keys /\ Key(ProjectDomain, t).type = t
  BY DEF Key, Keys, Levels
<1>2. \A k \in Keys : want[k] # None => want[k] \in Attributes /\ want[k].type = k.type
  BY Zenon DEF WantTyped
<1>. QED  BY <1>1, <1>2, Zenon DEF Override

\* The queue of an override that is settled is one for its tags.
LEMMA QueueIsFor ==
    ASSUME ResourceInv, NEW q \in LaunchRequests, Settled(q.workflow, "EXECUTION_QUEUE"), NEW queue,
           NEW launchPlan,
           LET queues == GetQueue(GetResource(q.workflow, "EXECUTION_QUEUE", launchPlan))
           IN  queue \in IF queues = {} THEN {None} ELSE queues
    PROVE  IsQueueFor(queue, TagsOf(q.workflow))
<1>. DEFINE t == "EXECUTION_QUEUE"
            override == Override(q.workflow, t)
            own == IF override = None THEN << >> ELSE override.value
            rest == IF DomainTags # << >> THEN DomainTags ELSE DefaultTags
<1>1. GetResource(q.workflow, t, launchPlan) = override
  <2>1. t \in Types
    BY DEF Types
  <2>. QED  BY <2>1, SettledLookup, Zenon
<1>2. override # None => override # Empty /\ override.value \in Seq(STRING)
  <2>1. t \in Types /\ q.workflow \in Levels /\ t # "PLUGIN_OVERRIDE"
    BY RequestsAssumption DEF Types, Levels
  <2>2. override # None => override \in Attributes /\ override.type = t
    BY <2>1, OverrideTyped, Zenon DEF ResourceInv, ResourceTypeOK
  <2>3. override # None => override \in Requested /\ override # Empty
    BY <2>1, <2>2, AttributesFacts, RequestedAttributes, Zenon
  <2>. QED  BY <2>2, <2>3, OverridesAssumption, Zenon
<1>3. own \in Seq(STRING) /\ rest \in Seq(STRING)
  <2>1. << >> \in Seq(STRING) /\ DomainTags \in Seq(STRING) /\ DefaultTags \in Seq(STRING)
    BY ConfigurationAssumption
  <2>. QED  BY <1>2, <2>1, Zenon
<1>4. override = None => MatchingQueues(own) = {}
  <2>1. DOMAIN << >> = {}
    OBVIOUS
  <2>. QED  BY <2>1, Zenon DEF MatchingQueues
<1>5. GetQueue(override) = IF MatchingQueues(own) # {} THEN MatchingQueues(own) ELSE MatchingQueues(rest)
  <2>1. CASE override = None
    BY <1>4, <2>1, Zenon DEF GetQueue
  <2>2. CASE override # None
    BY <1>2, <2>2, Zenon DEF GetQueue
  <2>. QED  BY <2>1, <2>2, Zenon
<1>6. TagsOf(q.workflow) = own \o rest
  BY DEF TagsOf
<1>. HIDE DEF override, own, rest
<1>. QED  BY <1>1, <1>3, <1>5, <1>6, QueueOfBoth, Zenon

\* The parallelism of an override that is settled is the one to expect.
LEMMA ParallelismIsExpected ==
    ASSUME ResourceInv, NEW q \in LaunchRequests, Quiet(Key(ProjectDomain, "WORKFLOW_EXECUTION_CONFIG"))
    PROVE  LET override == want[Key(ProjectDomain, "WORKFLOW_EXECUTION_CONFIG")]
               asked == FirstSet(Layers(q.kind, q.parallelism, q.plan.parallelism), 0)
           IN  getExecutionConfig(q, GetResource(ProjectDomain, "WORKFLOW_EXECUTION_CONFIG", "")) =
                  IF asked # 0 THEN asked ELSE IF override # None THEN override.value ELSE MaxParallelism
<1>. DEFINE t == "WORKFLOW_EXECUTION_CONFIG"
            override == want[Key(ProjectDomain, t)]
            asked == FirstSet(Layers(q.kind, q.parallelism, q.plan.parallelism), 0)
<1>1. t \in Types
  BY DEF Types
<1>2. GetResource(ProjectDomain, t, "") = override
  BY <1>1, SharedLookup, Zenon DEF GetResource
<1>3. override # None => override # Empty
  <2>1. Key(ProjectDomain, t) \in Keys
    BY <1>1 DEF Key, Keys, Levels
  <2>2. override # None => override \in Attributes
    BY <2>1 DEF ResourceInv, ResourceTypeOK, WantTyped
  <2>. QED  BY <2>2, AttributesFacts, Zenon
<1>4. q.parallelism \in Nat /\ q.plan.parallelism \in Nat
  BY RequestsAssumption, Zenon
<1>5. asked = IF q.parallelism = 0 /\ q.kind = "plan" THEN q.plan.parallelism ELSE q.parallelism
  BY LayersFirst
<1>6. getExecutionConfig(q, override) =
         IF q.parallelism > 0 THEN q.parallelism
         ELSE IF q.kind = "plan" /\ q.plan.parallelism > 0 THEN q.plan.parallelism
         ELSE IF override \notin {None, Empty} THEN override.value ELSE MaxParallelism
  BY Zenon DEF getExecutionConfig
<1>. HIDE DEF override, asked
<1>7. getExecutionConfig(q, override) =
         IF asked # 0 THEN asked ELSE IF override # None THEN override.value ELSE MaxParallelism
  BY <1>3, <1>4, <1>5, <1>6
<1>. QED  BY <1>2, <1>7, Zenon DEF override, asked

\* The plugins of an override that is settled are the ones found.
LEMMA PluginsAreFound ==
    ASSUME ResourceInv, NEW q \in LaunchRequests
    PROVE  LET workflow == IF q.kind = "plan" THEN q.workflow ELSE q.execution
               level == IF q.kind = "plan" THEN q.workflow ELSE ProjectDomain
           IN  Settled(level, "PLUGIN_OVERRIDE") =>
                  GetResource(workflow, "PLUGIN_OVERRIDE", IF q.kind = "plan" THEN "plan" ELSE "") =
                     Override(level, "PLUGIN_OVERRIDE")
<1>. DEFINE t == "PLUGIN_OVERRIDE"
<1>1. t \in Types
  BY DEF Types
<1>2. CASE q.kind = "plan"
  <2>1. Settled(q.workflow, t) => GetResource(q.workflow, t, "plan") = Override(q.workflow, t)
    BY <1>1, SettledLookup, Zenon
  <2>. QED  BY <1>2, <2>1, Zenon
<1>3. CASE q.kind # "plan"
  <2>1. q.execution \notin Levels
    BY RequestsAssumption, Zenon
  <2>2. Settled(ProjectDomain, t) => GetResource(q.execution, t, "") = want[Key(ProjectDomain, t)]
    BY <1>1, <2>1, SharedLookup, Zenon DEF Settled, GetResource
  <2>3. Override(ProjectDomain, t) = want[Key(ProjectDomain, t)]
    BY Zenon DEF Override
  <2>. QED  BY <1>3, <2>2, <2>3, Zenon
<1>. QED  BY <1>2, <1>3, Zenon

-----------------------------------------------------------------------------
(* The steps of a launch.                                                  *)

LaunchGoesOn(x, y, pc) ==
    LaunchShape(y) /\ y.pc = pc /\ y.request = x.request /\ y.inputs = x.inputs
SameResources(x, y) == y.platform = x.platform /\ y.given = x.given

LEMMA EndFields ==
    ASSUME NEW x, LaunchShape(x), NEW pc
    PROVE  LET y == [x EXCEPT !.pc = pc]
           IN  LaunchGoesOn(x, y, pc) /\ SameResources(x, y) /\ y.wrong = x.wrong
  BY DEF LaunchShape, LaunchGoesOn, SameResources

\* A launch that has begun.
LEMMA Launched ==
    ASSUME LaunchesOK, NEW l \in Launches, launch[l].pc # "idle"
    PROVE  LaunchOK(launch[l], routed) /\ launch[l].request.execution \in Executions
<1>1. NotLaunched.pc = "idle"
  BY DEF NotLaunched
<1>2. LaunchOK(launch[l], routed)
  BY <1>1, Zenon DEF LaunchesOK
<1>. QED  BY <1>2, Zenon DEF LaunchOK, Executions

LEMMA ChosenMonotone ==
    ASSUME NEW c, NEW e, NEW few, NEW many, few \subseteq many, Chosen(c, e, few)
    PROVE  Chosen(c, e, many)
  BY Zenon DEF Chosen

\* One launch goes on, and executions are routed to more clusters at most.
LEMMA LaunchesStep ==
    ASSUME LaunchesOK, NEW l \in Launches, NEW y,
           launch' = [launch EXCEPT ![l] = y], LaunchOK(y, routed'),
           \A e \in Executions : routed[e] \subseteq routed'[e]
    PROVE  LaunchesOK'
<1>1. launch = [k \in Launches |-> launch[k]]
  BY Zenon DEF LaunchesOK
<1>2. launch' = [k \in Launches |-> launch'[k]]
  BY <1>1
<1>3. launch'[l] = y /\ \A k \in Launches : k # l => launch'[k] = launch[k]
  BY <1>1
<1>4. ASSUME NEW k \in Launches, launch'[k] # NotLaunched PROVE LaunchOK(launch'[k], routed')
  <2>1. CASE k = l
    BY <1>3, <2>1, Zenon
  <2>2. CASE k # l
    <3>1. LaunchOK(launch[k], routed) /\ launch'[k] = launch[k]
      BY <1>3, <1>4, <2>2, Zenon DEF LaunchesOK
    <3>2. launch[k].request.execution \in Executions
      BY <3>1, Zenon DEF LaunchOK, Executions
    <3>. QED  BY <3>1, <3>2, ChosenMonotone, Zenon DEF LaunchOK
  <2>. QED  BY <2>1, <2>2, Zenon
<1>. QED  BY <1>2, <1>4, Zenon DEF LaunchesOK

\* A launch that is not refused goes on with its request and its inputs.
LEMMA LaunchGoes ==
    ASSUME NEW x, NEW y, NEW pc, NEW few, NEW choices, LaunchOK(x, few), x.pc # "refused",
           LaunchGoesOn(x, y, pc), pc \in Steps \ {"refused", "unbuilt"}, y.wrong = {}, TaskOK(y),
           pc = "record" => Chosen(y.cluster, x.request.execution, choices[x.request.execution])
    PROVE  LaunchOK(y, choices)
<1>1. InputsOK(y)
  <2>1. pc # "refused" /\ pc # "unbuilt"
    OBVIOUS
  <2>. QED  BY <2>1, Zenon DEF LaunchOK, InputsOK, LaunchGoesOn
<1>2. pc \in Steps
  OBVIOUS
<1>. QED  BY <1>1, <1>2, Zenon DEF LaunchOK, LaunchGoesOn

Settling == {"queue", "config", "labels", "plugins", "execute"}
LEMMA TaskGoesOn ==
    ASSUME NEW x, NEW y, TaskOK(x), y.request = x.request, SameResources(x, y),
           y.pc \in Settling => x.pc \in Settling
    PROVE  TaskOK(y)
  BY Zenon DEF TaskOK, SameResources, Settling

\* The launch ends.
LEMMA EndsKeeps ==
    ASSUME LaunchesOK, NEW l \in Launches, launch[l].pc \notin {"idle", "refused"},
           NEW how \in {"done", "failed", "panicked"}, Ends(l, how), UNCHANGED routed
    PROVE  LaunchesOK'
<1>. DEFINE x == launch[l]
            y == [x EXCEPT !.pc = how]
<1>1. LaunchOK(x, routed) /\ x.pc # "refused"
  BY Launched, Zenon
<1>2. LaunchGoesOn(x, y, how) /\ SameResources(x, y) /\ y.wrong = {}
  BY <1>1, EndFields, Zenon DEF LaunchOK
<1>3. launch' = [launch EXCEPT ![l] = y]
  BY DEF Ends
<1>4. how \in Steps \ {"refused", "unbuilt"} /\ how \notin Settling /\ how # "record"
  BY DEF Steps, Settling
<1>. HIDE DEF y, x
<1>5. TaskOK(y)
  BY <1>1, <1>2, <1>4, TaskGoesOn, Zenon DEF LaunchOK, LaunchGoesOn
<1>6. LaunchOK(y, routed)
  BY <1>1, <1>2, <1>4, <1>5, LaunchGoes, Zenon
<1>7. routed' = routed
  OBVIOUS
<1>. QED  BY <1>3, <1>6, <1>7, LaunchesStep, Zenon

LEMMA RequestsAreKnown ==
    ASSUME WorkloadTyped, NEW l \in Launches, NEW q \in workload.launches[l]
    PROVE  q \in LaunchRequests
<1>1. PICK w \in Workloads : workload["launches"] = w["launches"]
  BY LaunchesAssumption DEF WorkloadTyped, IsLeft
<1>2. q \in w.launches[l]
  BY <1>1, Zenon
<1>. QED  BY <1>2, SMT DEF LaunchRequests

LEMMA CreateExecutionKeeps ==
    ASSUME LaunchesOK, WorkloadTyped, NEW l \in Launches, NEW q \in workload.launches[l], CreateExecution(l, q)
    PROVE  LaunchesOK'
<1>. DEFINE pc == IF ~Accepts(q) THEN "refused" ELSE IF q.parent = None THEN "resources" ELSE "metadata"
            inputs == IF Accepts(q) THEN InputsOf(q) ELSE << >>
            y == [pc |-> pc, request |-> q, wrong |-> {}, inputs |-> inputs,
                  user |-> q.user, nesting |-> q.nesting, platform |-> None, given |-> None,
                  parallelism |-> 0, plugins |-> None, cluster |-> None]
<1>1. /\ validateTaskTemplate(q.task)
      /\ q.kind = "plan" => ValidateLaunchPlan(q.plan, q.variables)
      /\ launch' = [launch EXCEPT ![l] = y] /\ routed' = routed
  BY Zenon DEF CreateExecution, clusterVars
<1>2. pc \in {"refused", "resources", "metadata"} /\ (pc = "refused" <=> ~Accepts(q))
  OBVIOUS
<1>3. pc # "refused" => inputs = InputsOf(q)
  BY <1>2, Zenon
<1>. HIDE DEF pc, inputs
<1>4. /\ LaunchShape(y)
      /\ y.pc = pc /\ y.request = q /\ y.wrong = {} /\ y.inputs = inputs /\ y.given = None
  BY Zenon DEF LaunchShape
<1>. HIDE DEF y
<1>5. pc \in Steps \ {"record", "unbuilt"} /\ pc \notin {"queue", "config", "labels", "plugins", "execute"}
  BY <1>2 DEF Steps
<1>6. InputsOK(y)
  <2>1. pc # "unbuilt"
    BY <1>5
  <2>. QED  BY <1>1, <1>2, <1>3, <1>4, <2>1, Zenon DEF InputsOK
<1>7. TaskOK(y)
  BY <1>1, <1>4, <1>5, Zenon DEF TaskOK
<1>8. q \in LaunchRequests
  BY RequestsAreKnown, Zenon
<1>9. LaunchOK(y, routed)
  <2>1. pc \in Steps /\ pc # "record"
    BY <1>5
  <2>. QED  BY <1>4, <1>6, <1>7, <1>8, <2>1, Zenon DEF LaunchOK
<1>. QED  BY <1>1, <1>9, LaunchesStep, Zenon

LEMMA MetadataKeeps ==
    ASSUME LaunchesOK, NEW l \in Launches, getInheritedExecMetadata(l)
    PROVE  LaunchesOK'
<1>. DEFINE x == launch[l]
            source == executions[launch[l].request.parent]
            user == source.user
            nesting == source.nesting + 1
            y == [x EXCEPT !.pc = "resources", !.user = user, !.nesting = nesting]
<1>1. /\ x.pc = "metadata" /\ routed' = routed
      /\ Ends(l, "failed") \/ launch' = [launch EXCEPT ![l] = y]
  BY Zenon DEF getInheritedExecMetadata, clusterVars
<1>2. x.pc \notin {"idle", "refused"}
  BY <1>1
<1>3. CASE Ends(l, "failed")
  BY <1>1, <1>2, <1>3, EndsKeeps, Zenon
<1>4. CASE launch' = [launch EXCEPT ![l] = y]
  <2>1. LaunchOK(x, routed)
    BY <1>2, Launched, Zenon
  <2>2. LaunchGoesOn(x, y, "resources") /\ SameResources(x, y) /\ y.wrong = {}
    <3>1. LaunchShape(x) /\ x.wrong = {}
      BY <2>1, Zenon DEF LaunchOK
    <3>. HIDE DEF x, user, nesting
    <3>2. LaunchGoesOn(x, y, "resources") /\ SameResources(x, y) /\ y.wrong = x.wrong
      BY <3>1 DEF LaunchShape, LaunchGoesOn, SameResources
    <3>. QED  BY <3>1, <3>2, Zenon
  <2>. HIDE DEF x, y
  <2>3. "resources" \in Steps \ {"refused", "unbuilt"} /\ "resources" \notin Settling /\ "resources" # "record"
    BY DEF Steps, Settling
  <2>4. TaskOK(y)
    BY <2>1, <2>2, <2>3, TaskGoesOn, Zenon DEF LaunchOK, LaunchGoesOn
  <2>5. LaunchOK(y, routed)
    BY <1>2, <2>1, <2>2, <2>3, <2>4, LaunchGoes, Zenon
  <2>. QED  BY <1>1, <1>4, <2>5, LaunchesStep, Zenon
<1>. QED  BY <1>1, <1>3, <1>4, Zenon

LEMMA ResourcesKeep ==
    ASSUME ResourceInv, LaunchesOK, NEW l \in Launches, getTaskResources(l)
    PROVE  LaunchesOK'
<1>. DEFINE x == launch[l]
            q == launch[l].request
            t == "TASK_RESOURCE"
<1>1. launch[l].pc = "resources" /\ routed' = routed /\ t \in Types
  BY Zenon DEF getTaskResources, clusterVars, Types
<1>2. launch[l].pc \notin {"idle", "refused"}
  BY <1>1
<1>3. LaunchOK(x, routed) /\ q \in LaunchRequests
  BY <1>2, Launched, Zenon DEF LaunchOK
<1>4. PICK failed \in Failures :
         LET found == IF failed THEN None ELSE GetResource(q.workflow, t, "")
             platform == PlatformResources(found)
             wrong == /\ ~failed /\ Settled(q.workflow, t)
                      /\ platform # PlatformResources(Override(q.workflow, t))
         IN  IF None \in {platform.defaults, platform.limits} THEN Ends(l, "panicked")
             ELSE launch' = [launch EXCEPT ![l] = [@ EXCEPT !.pc = "queue", !.platform = platform,
                     !.given = setCompiledTaskDefaults(q.task, platform),
                     !.wrong = {s \in {"resources"} : wrong}]]
  BY Zenon DEF getTaskResources
<1>. DEFINE found == IF failed THEN None ELSE GetResource(q.workflow, t, "")
            platform == PlatformResources(found)
            wrong == /\ ~failed /\ Settled(q.workflow, t)
                     /\ platform # PlatformResources(Override(q.workflow, t))
            given == setCompiledTaskDefaults(q.task, platform)
            w == {s \in {"resources"} : wrong}
            y == [x EXCEPT !.pc = "queue", !.platform = platform, !.given = given, !.wrong = w]
<1>5. found \in {None, Empty} \/ (found \in Attributes /\ found.type = t)
  <2>1. CASE failed
    BY <2>1, Zenon
  <2>2. CASE ~failed
    BY <2>2, LookupTyped, Zenon DEF ResourceInv, ResourceTypeOK
  <2>. QED  BY <2>1, <2>2, Zenon
<1>6. ~wrong
  <2>1. Settled(q.workflow, t) => GetResource(q.workflow, t, "") = Override(q.workflow, t)
    BY <1>1, <1>3, SettledLookup, Zenon
  <2>. QED  BY <2>1, Zenon
<1>7. w = {}
  BY <1>6, Zenon
<1>8. CASE None \in {platform.defaults, platform.limits}
  <2>1. Ends(l, "panicked")
    BY <1>4, <1>8, Zenon
  <2>. QED  BY <1>1, <1>2, <2>1, EndsKeeps, Zenon
<1>9. CASE None \notin {platform.defaults, platform.limits}
  <2>1. launch' = [launch EXCEPT ![l] = y]
    BY <1>4, <1>9, Zenon
  <2>2. PlatformTyped(platform)
    BY <1>5, <1>9, PlatformIsTyped, Zenon
  <2>. HIDE DEF found, wrong, w, platform
  <2>3. LaunchGoesOn(x, y, "queue") /\ y.platform = platform /\ y.given = given /\ y.wrong = {}
    <3>1. LaunchShape(x)
      BY <1>3, Zenon DEF LaunchOK
    <3>. HIDE DEF x, given
    <3>2. LaunchGoesOn(x, y, "queue") /\ y.platform = platform /\ y.given = given /\ y.wrong = w
      BY <3>1 DEF LaunchShape, LaunchGoesOn
    <3>. QED  BY <1>7, <3>2, Zenon
  <2>. HIDE DEF y
  <2>4. TaskOK(y)
    BY <1>3, <2>2, <2>3, Zenon DEF TaskOK, LaunchOK, LaunchGoesOn
  <2>5. "queue" \in Steps \ {"refused", "unbuilt"} /\ "queue" # "record"
    BY DEF Steps
  <2>. HIDE DEF x
  <2>6. LaunchOK(y, routed)
    BY <1>2, <1>3, <2>3, <2>4, <2>5, LaunchGoes, Zenon DEF x
  <2>. QED  BY <1>1, <2>1, <2>6, LaunchesStep, Zenon
<1>. QED  BY <1>8, <1>9, Zenon

\* A setting that is not wrong leaves the launch as it was.
LEMMA GoesKeeps ==
    ASSUME LaunchesOK, NEW l \in Launches, launch[l].pc \in Settling, NEW pc \in Settling, NEW y,
           LaunchGoesOn(launch[l], y, pc), SameResources(launch[l], y), y.wrong = {},
           launch' = [launch EXCEPT ![l] = y], UNCHANGED routed
    PROVE  LaunchesOK'
<1>. DEFINE x == launch[l]
<1>1. x.pc \notin {"idle", "refused"} /\ pc \in Steps \ {"refused", "unbuilt"} /\ pc # "record"
  BY DEF Steps, Settling
<1>2. LaunchOK(x, routed)
  BY <1>1, Launched, Zenon
<1>3. TaskOK(y)
  BY <1>2, TaskGoesOn, Zenon DEF LaunchOK, LaunchGoesOn
<1>4. LaunchOK(y, routed)
  BY <1>1, <1>2, <1>3, LaunchGoes, Zenon
<1>5. routed' = routed
  OBVIOUS
<1>. QED  BY <1>4, <1>5, LaunchesStep, Zenon

LEMMA QueueKeeps ==
    ASSUME ResourceInv, LaunchesOK, NEW l \in Launches, populateExecutionQueue(l)
    PROVE  LaunchesOK'
<1>. DEFINE x == launch[l]
            q == launch[l].request
            t == "EXECUTION_QUEUE"
<1>1. launch[l].pc = "queue" /\ routed' = routed
  BY Zenon DEF populateExecutionQueue, clusterVars
<1>2. launch[l].pc \in Settling /\ launch[l].pc # "idle" /\ "config" \in Settling
  BY <1>1 DEF Settling
<1>3. LaunchShape(x) /\ x.wrong = {} /\ q \in LaunchRequests
  BY <1>2, Launched, Zenon DEF LaunchOK
<1>4. PICK failed \in Failures :
         LET queues == GetQueue(IF failed THEN None ELSE GetResource(q.workflow, t, ""))
         IN  \E queue \in IF queues = {} THEN {None} ELSE queues :
                Goes(l, "config", "queue", ~failed /\ Settled(q.workflow, t) /\ ~IsQueueFor(queue, TagsOf(q.workflow)))
  BY Zenon DEF populateExecutionQueue
<1>. DEFINE queues == GetQueue(IF failed THEN None ELSE GetResource(q.workflow, t, ""))
<1>5. PICK queue \in IF queues = {} THEN {None} ELSE queues :
         Goes(l, "config", "queue", ~failed /\ Settled(q.workflow, t) /\ ~IsQueueFor(queue, TagsOf(q.workflow)))
  BY <1>4, Zenon
<1>. DEFINE wrong == ~failed /\ Settled(q.workflow, t) /\ ~IsQueueFor(queue, TagsOf(q.workflow))
            w == {s \in {"queue"} : wrong}
            y == [x EXCEPT !.pc = "config", !.wrong = launch[l].wrong \cup w]
<1>6. ~wrong
  <2>. SUFFICES ASSUME ~failed, Settled(q.workflow, t) PROVE IsQueueFor(queue, TagsOf(q.workflow))
    BY Zenon
  <2>1. queues = GetQueue(GetResource(q.workflow, t, ""))
    BY Zenon
  <2>. HIDE DEF queues
  <2>2. LET all == GetQueue(GetResource(q.workflow, t, "")) IN queue \in IF all = {} THEN {None} ELSE all
    BY <2>1, Zenon
  <2>. QED  BY <1>3, <2>2, QueueIsFor, Zenon
<1>7. launch' = [launch EXCEPT ![l] = y]
  BY <1>5, Zenon DEF Goes
<1>8. w = {}
  BY <1>3, <1>6, Zenon
<1>. HIDE DEF w, wrong
<1>9. LaunchGoesOn(x, y, "config") /\ SameResources(x, y) /\ y.wrong = {}
  BY <1>3, <1>8, Zenon DEF LaunchShape, LaunchGoesOn, SameResources
<1>. HIDE DEF y
<1>. QED  BY <1>1, <1>2, <1>7, <1>8, <1>9, GoesKeeps, Zenon

LEMMA ConfigKeeps ==
    ASSUME ResourceInv, LaunchesOK, NEW l \in Launches, resolveExecutionConfig(l)
    PROVE  LaunchesOK'
<1>. DEFINE x == launch[l]
            q == launch[l].request
            k == Key(ProjectDomain, "WORKFLOW_EXECUTION_CONFIG")
            found == GetResource(ProjectDomain, "WORKFLOW_EXECUTION_CONFIG", "")
            override == want[k]
            asked == FirstSet(Layers(q.kind, q.parallelism, q.plan.parallelism), 0)
            expected == IF asked # 0 THEN asked
                        ELSE IF override # None THEN override.value ELSE MaxParallelism
            parallelism == getExecutionConfig(q, found)
            wrong == Quiet(k) /\ parallelism # expected
            w == {s \in {"parallelism"} : wrong}
            y == [x EXCEPT !.pc = "labels", !.parallelism = parallelism, !.wrong = launch[l].wrong \cup w]
<1>1. /\ launch[l].pc = "config" /\ routed' = routed
      /\ launch' = [launch EXCEPT ![l] = y] \/ Ends(l, "failed")
  BY Zenon DEF resolveExecutionConfig, clusterVars
<1>2. launch[l].pc \in Settling /\ launch[l].pc \notin {"idle", "refused"} /\ "labels" \in Settling
  BY <1>1 DEF Settling
<1>3. LaunchShape(x) /\ x.wrong = {} /\ q \in LaunchRequests
  BY <1>2, Launched, Zenon DEF LaunchOK
<1>4. CASE Ends(l, "failed")
  BY <1>1, <1>2, <1>4, EndsKeeps, Zenon
<1>5. CASE launch' = [launch EXCEPT ![l] = y]
  <2>1. ~wrong
    BY <1>3, ParallelismIsExpected, Zenon
  <2>2. w = {}
    BY <1>3, <2>1, Zenon
  <2>. HIDE DEF w, wrong, parallelism
  <2>3. LaunchGoesOn(x, y, "labels") /\ SameResources(x, y) /\ y.wrong = {}
    <3>. QED  BY <1>3, <2>2 DEF LaunchShape, LaunchGoesOn, SameResources
  <2>. HIDE DEF y
  <2>. QED  BY <1>1, <1>2, <1>5, <2>2, <2>3, GoesKeeps, Zenon
<1>. QED  BY <1>1, <1>4, <1>5, Zenon

LEMMA LabelsKeep ==
    ASSUME LaunchesOK, NEW l \in Launches, resolveLabels(l)
    PROVE  LaunchesOK'
<1>. DEFINE x == launch[l]
            q == launch[l].request
            labels == resolveStringMap(q.kind, q.labels, q.plan.labels)
            wrong == addProjectLabels(labels) # ExpectedLabels(q)
            w == {s \in {"labels"} : wrong}
            y == [x EXCEPT !.pc = "plugins", !.wrong = launch[l].wrong \cup w]
<1>1. /\ launch[l].pc = "labels" /\ routed' = routed
      /\ launch' = [launch EXCEPT ![l] = y] \/ Ends(l, "failed")
  BY Zenon DEF resolveLabels, Goes, clusterVars
<1>2. launch[l].pc \in Settling /\ launch[l].pc \notin {"idle", "refused"} /\ "plugins" \in Settling
  BY <1>1 DEF Settling
<1>3. LaunchShape(x) /\ x.wrong = {}
  BY <1>2, Launched, Zenon DEF LaunchOK
<1>4. CASE Ends(l, "failed")
  BY <1>1, <1>2, <1>4, EndsKeeps, Zenon
<1>5. CASE launch' = [launch EXCEPT ![l] = y]
  <2>1. ~wrong
    BY LabelsAreExpected, Zenon
  <2>2. w = {}
    BY <1>3, <2>1, Zenon
  <2>. HIDE DEF w, wrong
  <2>3. LaunchGoesOn(x, y, "plugins") /\ SameResources(x, y) /\ y.wrong = {}
    <3>. QED  BY <1>3, <2>2 DEF LaunchShape, LaunchGoesOn, SameResources
  <2>. HIDE DEF y
  <2>. QED  BY <1>1, <1>2, <1>5, <2>2, <2>3, GoesKeeps, Zenon
<1>. QED  BY <1>1, <1>4, <1>5, Zenon

LEMMA PluginsKeep ==
    ASSUME ResourceInv, LaunchesOK, NEW l \in Launches, addPluginOverrides(l)
    PROVE  LaunchesOK'
<1>. DEFINE x == launch[l]
            q == launch[l].request
            workflow == IF q.kind = "plan" THEN q.workflow ELSE q.execution
            found == GetResource(workflow, "PLUGIN_OVERRIDE", IF q.kind = "plan" THEN "plan" ELSE "")
            level == IF q.kind = "plan" THEN q.workflow ELSE ProjectDomain
            wrong == Settled(level, "PLUGIN_OVERRIDE") /\ found # Override(level, "PLUGIN_OVERRIDE")
            w == {s \in {"plugins"} : wrong}
            y == [x EXCEPT !.pc = "execute", !.plugins = found, !.wrong = launch[l].wrong \cup w]
<1>1. /\ launch[l].pc = "plugins" /\ routed' = routed
      /\ launch' = [launch EXCEPT ![l] = y] \/ Ends(l, "failed")
  BY Zenon DEF addPluginOverrides, clusterVars
<1>2. launch[l].pc \in Settling /\ launch[l].pc \notin {"idle", "refused"} /\ "execute" \in Settling
  BY <1>1 DEF Settling
<1>3. LaunchShape(x) /\ x.wrong = {} /\ q \in LaunchRequests
  BY <1>2, Launched, Zenon DEF LaunchOK
<1>4. CASE Ends(l, "failed")
  BY <1>1, <1>2, <1>4, EndsKeeps, Zenon
<1>5. CASE launch' = [launch EXCEPT ![l] = y]
  <2>1. ~wrong
    BY <1>3, PluginsAreFound, Zenon
  <2>2. w = {}
    BY <1>3, <2>1, Zenon
  <2>. HIDE DEF w, wrong, found
  <2>3. LaunchGoesOn(x, y, "execute") /\ SameResources(x, y) /\ y.wrong = {}
    <3>. QED  BY <1>3, <2>2 DEF LaunchShape, LaunchGoesOn, SameResources
  <2>. HIDE DEF y
  <2>. QED  BY <1>1, <1>2, <1>5, <2>2, <2>3, GoesKeeps, Zenon
<1>. QED  BY <1>1, <1>4, <1>5, Zenon

\* Only a single task's launch fails to build.
LEMMA BuildFailsKeeps ==
    ASSUME LaunchesOK, NEW l \in Launches, BuildFails(l)
    PROVE  LaunchesOK'
<1>. DEFINE x == launch[l]
            q == launch[l].request
            y == [x EXCEPT !.pc = "unbuilt"]
<1>1. launch[l].pc = "execute" /\ ~Builds(l) /\ routed' = routed /\ Ends(l, "unbuilt")
  BY Zenon DEF BuildFails, clusterVars
<1>2. launch[l].pc \notin {"idle", "refused"}
  BY <1>1
<1>3. LaunchOK(x, routed) /\ x.pc # "refused" /\ q \in LaunchRequests
  BY <1>2, Launched, Zenon DEF LaunchOK
<1>4. launch' = [launch EXCEPT ![l] = y]
  BY <1>1 DEF Ends
<1>5. LaunchGoesOn(x, y, "unbuilt") /\ SameResources(x, y) /\ y.wrong = {}
  BY <1>3, EndFields, Zenon DEF LaunchOK
<1>6. q.kind # "plan"
  <2>. SUFFICES ASSUME q.kind = "plan" PROVE Build(q.variables, x.inputs)
    BY <1>1, Zenon DEF Builds
  <2>1. ValidateLaunchPlan(q.plan, q.variables) /\ Accepts(q) /\ x.inputs = InputsOf(q)
    BY <1>3, Zenon DEF LaunchOK, InputsOK
  <2>. QED  BY <1>3, <2>1, AcceptedIsBound, Zenon
<1>7. "unbuilt" \in Steps /\ "unbuilt" \notin Settling /\ "unbuilt" # "record" /\ "unbuilt" # "refused"
  BY DEF Steps, Settling
<1>. HIDE DEF y
<1>8. TaskOK(y)
  BY <1>3, <1>5, <1>7, TaskGoesOn, Zenon DEF LaunchOK, LaunchGoesOn
<1>9. InputsOK(y)
  BY <1>3, <1>5, <1>6, <1>7, Zenon DEF LaunchOK, InputsOK, LaunchGoesOn
<1>10. LaunchOK(y, routed)
  BY <1>3, <1>5, <1>7, <1>8, <1>9, Zenon DEF LaunchOK, LaunchGoesOn
<1>. QED  BY <1>1, <1>4, <1>10, LaunchesStep, Zenon

-----------------------------------------------------------------------------
(* Clusters.                                                               *)

\* Of executions that were routed once, all choices are the same.
LEMMA OneChoice ==
    ASSUME NEW e, NEW choices, AtMostOne(choices), NEW c, NEW d, Chosen(c, e, choices), Chosen(d, e, choices)
    PROVE  c = d
  BY Zenon DEF Chosen, AtMostOne

LEMMA RouteStep ==
    ASSUME ClustersOK, NEW e \in Executions, NEW targets,
           routed' = [routed EXCEPT ![e] = @ \cup {targets}]
    PROVE  /\ routed' = [d \in Executions |-> routed'[d]]
           /\ routed'[e] = routed[e] \cup {targets}
           /\ \A d \in Executions : d # e => routed'[d] = routed[d]
           /\ \A d \in Executions : routed[d] \subseteq routed'[d]
<1>1. routed = [d \in Executions |-> routed[d]]
  BY Zenon DEF ClustersOK
<1>2. /\ routed' = [d \in Executions |-> routed'[d]]
      /\ routed'[e] = routed[e] \cup {targets}
      /\ \A d \in Executions : d # e => routed'[d] = routed[d]
  BY <1>1
<1>. QED  BY <1>2, Zenon

\* A label's list has the clusters configured for it that are enabled.
LEMMA TargetsFacts ==
    ASSUME NEW attributes
    PROVE  \/ Targets(attributes) = config.all
           \/ \E label \in DOMAIN config.labels :
                 LET list == getLabeledWeightedRandomForCluster(config, label)
                 IN  DOMAIN list # {} /\ Targets(attributes) = list
  BY Zenon DEF Targets

LEMMA LabelledDomain ==
    ASSUME NEW label
    PROVE  DOMAIN getLabeledWeightedRandomForCluster(config, label) = DOMAIN config.labels[label] \cap enabled
  BY DEF getLabeledWeightedRandomForCluster, Restrict, enabled

\* The choice from a list is one of its clusters.
LEMMA ChoiceIsTarget ==
    ASSUME config \in Configurations, NEW q \in LaunchRequests, NEW attributes
    PROVE  GetWithSeed(Targets(attributes), q.execution) \in DOMAIN Targets(attributes)
<1>1. q.execution \in {r.execution : r \in LaunchRequests}
  BY Zenon
<1>2. CASE Targets(attributes) = config.all
  BY <1>1, <1>2, SeedAssumption, Zenon
<1>3. ASSUME NEW label \in DOMAIN config.labels,
             LET list == getLabeledWeightedRandomForCluster(config, label)
             IN  DOMAIN list # {} /\ Targets(attributes) = list
      PROVE  GetWithSeed(Targets(attributes), q.execution) \in DOMAIN Targets(attributes)
  BY <1>1, <1>3, SeedAssumption, Zenon
<1>. QED  BY <1>2, <1>3, TargetsFacts, Zenon

\* The clusters of an override that is settled are those of its label.
LEMMA TargetsAreLabelled ==
    ASSUME ResourceInv, NEW q \in LaunchRequests, NEW launchPlan,
           Settled(q.workflow, "EXECUTION_CLUSTER_LABEL")
    PROVE  DOMAIN Targets(GetResource(q.workflow, "EXECUTION_CLUSTER_LABEL", launchPlan)) =
              LabelledClusters(Override(q.workflow, "EXECUTION_CLUSTER_LABEL"))
<1>. DEFINE t == "EXECUTION_CLUSTER_LABEL"
            override == Override(q.workflow, t)
<1>1. t \in Types /\ q.workflow \in Levels
  BY RequestsAssumption DEF Types, Levels
<1>2. GetResource(q.workflow, t, launchPlan) = override
  BY <1>1, SettledLookup, Zenon
<1>3. override # None => override # Empty
  BY <1>1, OverrideTyped, AttributesFacts, Zenon DEF ResourceInv, ResourceTypeOK
<1>. HIDE DEF override
<1>4. DOMAIN Targets(override) = LabelledClusters(override)
  <2>1. CASE override = None \/ override.value \notin DOMAIN config.labels
    BY <2>1, Zenon DEF Targets, LabelledClusters, enabled
  <2>2. CASE override # None /\ override.value \in DOMAIN config.labels
    <3>1. CASE DOMAIN config.labels[override.value] \cap enabled = {}
      BY <1>3, <2>2, <3>1, LabelledDomain, Zenon DEF Targets, LabelledClusters, enabled
    <3>2. CASE DOMAIN config.labels[override.value] \cap enabled # {}
      BY <1>3, <2>2, <3>2, LabelledDomain, Zenon DEF Targets, LabelledClusters
    <3>. QED  BY <3>1, <3>2, Zenon
  <2>. QED  BY <2>1, <2>2, Zenon
<1>. QED  BY <1>2, <1>4, Zenon DEF override

\* What Execute does when it creates the object.
Created(l, targets, cluster, w) ==
    /\ w = {}
    /\ cluster = GetWithSeed(targets, launch[l].request.execution)
    /\ crds' = crds \cup {<<launch[l].request.execution, cluster>>}
    /\ launch' = [launch EXCEPT ![l] =
          [launch[l] EXCEPT !.pc = "record", !.cluster = cluster, !.wrong = launch[l].wrong \cup w]]
    /\ routed' = [routed EXCEPT ![launch[l].request.execution] = @ \cup {targets}]
    /\ aborted' = aborted \ {launch[l].request.execution}

LEMMA ExecuteCases ==
    ASSUME ResourceInv, LaunchesOK, ClustersOK, NEW l \in Launches, Execute(l)
    PROVE  /\ launch[l].pc = "execute" /\ UNCHANGED <<config, executions>>
           /\ UNCHANGED <<rows, lastId, handler, want, spoiled, workload>>
           /\ \/ \E targets, cluster, w : Created(l, targets, cluster, w)
              \/ Ends(l, "failed") /\ UNCHANGED <<crds, aborted, routed>>
<1>. DEFINE q == launch[l].request
            t == "EXECUTION_CLUSTER_LABEL"
            found == GetResource(q.workflow, t, q.workflow)
            targets == Targets(found)
            W(cluster) == {s \in {"cluster"} : /\ Settled(q.workflow, t)
                                               /\ cluster \notin LabelledClusters(Override(q.workflow, t))}
            O == {s \in {"object"} : ~IsObjectFor(ObjectOf(l), l)}
<1>1. /\ launch[l].pc = "execute" /\ UNCHANGED <<config, executions>>
      /\ UNCHANGED <<rows, lastId, handler, want, spoiled, workload>>
      /\ \/ \E choice \in DOMAIN targets :
               LET cluster == Selected(targets, q.execution, choice)
               IN  /\ crds' = crds \cup {<<q.execution, cluster>>}
                   /\ launch' = [launch EXCEPT ![l] = [@ EXCEPT !.pc = "record", !.cluster = cluster,
                         !.wrong = launch[l].wrong \cup W(cluster) \cup O]]
                   /\ routed' = [routed EXCEPT ![q.execution] = @ \cup {targets}]
                   /\ aborted' = aborted \ {q.execution}
         \/ Ends(l, "failed") /\ UNCHANGED <<crds, aborted, routed>>
  BY Zenon DEF Execute
<1>2. launch[l].pc # "idle" /\ launch[l].pc \in Settling
  BY <1>1, Zenon DEF Settling
<1>3. LaunchOK(launch[l], routed) /\ q \in LaunchRequests /\ q.execution \in Executions
  BY <1>2, Launched, Zenon DEF LaunchOK
<1>4. CASE Ends(l, "failed") /\ UNCHANGED <<crds, aborted, routed>>
  BY <1>1, <1>4, Zenon
<1>5. ASSUME NEW choice \in DOMAIN targets,
             LET cluster == Selected(targets, q.execution, choice)
             IN  /\ crds' = crds \cup {<<q.execution, cluster>>}
                 /\ launch' = [launch EXCEPT ![l] = [@ EXCEPT !.pc = "record", !.cluster = cluster,
                       !.wrong = launch[l].wrong \cup W(cluster) \cup O]]
                 /\ routed' = [routed EXCEPT ![q.execution] = @ \cup {targets}]
                 /\ aborted' = aborted \ {q.execution}
      PROVE  \E ts, cluster, w : Created(l, ts, cluster, w)
  <2>. DEFINE cluster == GetWithSeed(targets, q.execution)
              w == W(cluster) \cup O
  <2>1. Selected(targets, q.execution, choice) = cluster
    BY Zenon DEF Selected
  <2>3. cluster \in DOMAIN targets
    BY <1>3, ChoiceIsTarget, Zenon DEF ClustersOK
  <2>4. W(cluster) = {}
    <3>1. Settled(q.workflow, t) => cluster \in LabelledClusters(Override(q.workflow, t))
      BY <1>3, <2>3, TargetsAreLabelled, Zenon
    <3>. HIDE DEF cluster
    <3>. QED  BY <3>1, Zenon
  <2>5. O = {}
    <3>1. PlatformTyped(launch[l].platform)
      BY <1>2, <1>3, Zenon DEF LaunchOK, TaskOK, Settling
    <3>2. IsObjectFor(ObjectOf(l), l)
      BY <3>1, ObjectIsFor, Zenon
    <3>. QED  BY <3>2, Zenon
  <2>6. launch[l].wrong \cup W(cluster) \cup O = launch[l].wrong \cup w
    BY Zenon
  <2>7. w = {}
    BY <2>4, <2>5, Zenon
  <2>. HIDE DEF W, O, w, targets
  <2>8. Created(l, targets, cluster, w)
    BY <1>5, <2>1, <2>6, <2>7, Zenon DEF Created
  <2>. QED  BY <2>8, Zenon
<1>. HIDE DEF W, O, targets
<1>. QED  BY <1>1, <1>4, <1>5, Zenon

LEMMA QuietClusters ==
    ASSUME ClustersOK, AbortStops, UNCHANGED <<config, crds, executions, aborted, routed>>
    PROVE  ClustersOK' /\ AbortStops'
  BY DEF ClustersOK, AbortStops

LEMMA ExecuteKeeps ==
    ASSUME IInv, NEW l \in Launches, Execute(l)
    PROVE  LaunchesOK' /\ ClustersOK' /\ AbortStops'
<1>. DEFINE x == launch[l]
            e == launch[l].request.execution
<1>1. ResourceInv /\ LaunchesOK /\ ClustersOK /\ AbortStops
  BY Zenon DEF IInv
<1>2. /\ x.pc = "execute" /\ UNCHANGED <<config, executions>>
      /\ \/ \E targets, cluster, w : Created(l, targets, cluster, w)
         \/ Ends(l, "failed") /\ UNCHANGED <<crds, aborted, routed>>
  BY <1>1, ExecuteCases, Zenon
<1>3. x.pc \notin {"idle", "refused"}
  BY <1>2
<1>4. LaunchOK(x, routed) /\ e \in Executions
  BY <1>1, <1>3, Launched, Zenon
<1>5. CASE Ends(l, "failed") /\ UNCHANGED <<crds, aborted, routed>>
  <2>1. LaunchesOK'
    BY <1>1, <1>3, <1>5, EndsKeeps, Zenon
  <2>. QED  BY <1>1, <1>2, <1>5, <2>1, QuietClusters, Zenon
<1>6. ASSUME NEW targets, NEW cluster, NEW w, Created(l, targets, cluster, w)
      PROVE  LaunchesOK' /\ ClustersOK' /\ AbortStops'
  <2>. DEFINE y == [launch[l] EXCEPT !.pc = "record", !.cluster = cluster, !.wrong = launch[l].wrong \cup w]
  <2>1. /\ w = {} /\ cluster = GetWithSeed(targets, e)
        /\ crds' = crds \cup {<<e, cluster>>}
        /\ launch' = [launch EXCEPT ![l] = y]
        /\ routed' = [routed EXCEPT ![e] = @ \cup {targets}]
        /\ aborted' = aborted \ {e}
    BY <1>6, Zenon DEF Created
  <2>2. /\ routed' = [d \in Executions |-> routed'[d]]
        /\ routed'[e] = routed[e] \cup {targets}
        /\ \A d \in Executions : d # e => routed'[d] = routed[d]
        /\ \A d \in Executions : routed[d] \subseteq routed'[d]
    BY <1>1, <1>4, <2>1, RouteStep, Zenon
  <2>3. Chosen(cluster, e, routed'[e])
    <3>1. targets \in routed'[e]
      BY <2>2, Zenon
    <3>. QED  BY <2>1, <3>1, Zenon DEF Chosen
  <2>4. LaunchesOK'
    <3>1. LaunchShape(x) /\ x.wrong = {} /\ TaskOK(x)
      BY <1>4, Zenon DEF LaunchOK
    <3>2. LaunchGoesOn(x, y, "record") /\ SameResources(x, y) /\ y.wrong = {} /\ y.cluster = cluster
      BY <2>1, <3>1 DEF LaunchShape, LaunchGoesOn, SameResources
    <3>. HIDE DEF y
    <3>3. "record" \in Steps \ {"refused", "unbuilt"} /\ "record" \notin Settling /\ x.pc # "refused"
      BY <1>2 DEF Steps, Settling
    <3>4. TaskOK(y)
      BY <3>1, <3>2, <3>3, TaskGoesOn, Zenon DEF LaunchGoesOn
    <3>5. LaunchOK(y, routed')
      BY <1>4, <2>3, <3>2, <3>3, <3>4, LaunchGoes, Zenon
    <3>. QED  BY <1>1, <2>1, <2>2, <3>5, LaunchesStep, Zenon
  <2>5. ClustersOK'
    <3>1. ASSUME NEW o \in crds', o[1] \in Executions PROVE Chosen(o[2], o[1], routed'[o[1]])
      <4>1. CASE o \in crds
        BY <1>1, <2>2, <3>1, <4>1, ChosenMonotone, Zenon DEF ClustersOK
      <4>2. CASE o = <<e, cluster>>
        <5>1. o[1] = e /\ o[2] = cluster
          BY <4>2
        <5>. QED  BY <2>3, <5>1, Zenon
      <4>. QED  BY <2>1, <4>1, <4>2, Zenon
    <3>2. ASSUME NEW d \in Executions, executions'[d] # None PROVE Chosen(executions'[d].cluster, d, routed'[d])
      <4>1. executions' = executions
        BY <1>2, Zenon
      <4>. QED  BY <1>1, <2>2, <3>2, <4>1, ChosenMonotone, Zenon DEF ClustersOK
    <3>3. config' = config /\ executions' = executions /\ aborted' \subseteq aborted
      BY <1>2, <2>1, Zenon
    <3>. QED  BY <1>1, <2>2, <3>1, <3>2, <3>3, Zenon DEF ClustersOK
  <2>6. AbortStops'
    <3>. SUFFICES ASSUME NEW d \in aborted', AtMostOne(routed'[d]), NEW c \in Clusters
                  PROVE  <<d, c>> \notin crds'
      BY Zenon DEF AbortStops
    <3>1. d \in aborted /\ d # e
      BY <2>1, Zenon
    <3>2. routed'[d] = routed[d]
      BY <1>1, <2>2, <3>1, Zenon DEF ClustersOK
    <3>3. <<d, c>> \notin crds
      BY <1>1, <3>1, <3>2, Zenon DEF AbortStops
    <3>4. <<d, c>> # <<e, cluster>>
      BY <3>1
    <3>. QED  BY <2>1, <3>3, <3>4, Zenon
  <2>. QED  BY <2>4, <2>5, <2>6, Zenon
<1>. QED  BY <1>2, <1>5, <1>6, Zenon

LEMMA RecordKeeps ==
    ASSUME IInv, NEW l \in Launches, Record(l)
    PROVE  LaunchesOK' /\ ClustersOK' /\ AbortStops'
<1>. DEFINE x == launch[l]
            e == launch[l].request.execution
            row == CreateExecutionModel(l)
<1>1. ResourceInv /\ LaunchesOK /\ ClustersOK /\ AbortStops
  BY Zenon DEF IInv
<1>2. /\ x.pc = "record" /\ UNCHANGED <<config, crds, aborted, routed>>
      /\ \/ executions' = [executions EXCEPT ![e] = row] /\ Ends(l, "done")
         \/ executions' = executions /\ Ends(l, "failed")
  BY Zenon DEF Record
<1>3. x.pc \notin {"idle", "refused"}
  BY <1>2
<1>4. LaunchOK(x, routed) /\ e \in Executions
  BY <1>1, <1>3, Launched, Zenon
<1>5. LaunchesOK'
  <2>1. routed' = routed
    BY <1>2, Zenon
  <2>. QED  BY <1>1, <1>2, <1>3, <2>1, EndsKeeps, Zenon
<1>6. CASE executions' = executions
  BY <1>1, <1>2, <1>5, <1>6, QuietClusters, Zenon
<1>7. CASE executions' = [executions EXCEPT ![e] = row]
  <2>1. row.cluster = x.cluster
    BY DEF CreateExecutionModel
  <2>2. Chosen(row.cluster, e, routed[e])
    BY <1>2, <1>4, <2>1, Zenon DEF LaunchOK
  <2>3. executions = [d \in Executions |-> executions[d]]
    BY <1>1, Zenon DEF ClustersOK
  <2>. HIDE DEF row
  <2>4. /\ executions' = [d \in Executions |-> executions'[d]]
        /\ executions'[e] = row /\ \A d \in Executions : d # e => executions'[d] = executions[d]
    BY <1>4, <1>7, <2>3
  <2>5. \A d \in Executions : executions'[d] # None => Chosen(executions'[d].cluster, d, routed[d])
    <3>. SUFFICES ASSUME NEW d \in Executions, executions'[d] # None
                  PROVE  Chosen(executions'[d].cluster, d, routed[d])
      BY Zenon
    <3>1. CASE d = e
      BY <2>2, <2>4, <3>1, Zenon
    <3>2. CASE d # e
      BY <1>1, <2>4, <3>2, Zenon DEF ClustersOK
    <3>. QED  BY <3>1, <3>2, Zenon
  <2>6. routed' = routed /\ crds' = crds /\ config' = config /\ aborted' = aborted
    BY <1>2, Zenon
  <2>7. ClustersOK'
    BY <1>1, <2>4, <2>5, <2>6, Zenon DEF ClustersOK
  <2>8. AbortStops'
    BY <1>1, <2>6, Zenon DEF AbortStops
  <2>. QED  BY <1>5, <2>7, <2>8, Zenon
<1>. QED  BY <1>2, <1>6, <1>7, Zenon

LEMMA AbortKeeps ==
    ASSUME IInv, NEW e \in Executions, Abort(e)
    PROVE  LaunchesOK' /\ ClustersOK' /\ AbortStops'
<1>1. ResourceInv /\ LaunchesOK /\ ClustersOK /\ AbortStops
  BY Zenon DEF IInv
<1>2. /\ executions[e] # None
      /\ crds' = crds \ {<<e, executions[e].cluster>>} /\ aborted' = aborted \cup {e}
      /\ config' = config /\ launch' = launch /\ executions' = executions /\ routed' = routed
  BY Zenon DEF Abort, TargetOf
<1>3. LaunchesOK'
  BY <1>1, <1>2, Zenon DEF LaunchesOK
<1>4. ClustersOK'
  <2>1. \A o \in crds' : o \in crds
    BY <1>2, Zenon
  <2>. QED  BY <1>1, <1>2, <2>1, Zenon DEF ClustersOK
<1>5. AbortStops'
  <2>. SUFFICES ASSUME NEW d \in aborted', AtMostOne(routed'[d]), NEW c \in Clusters, <<d, c>> \in crds'
                PROVE  FALSE
    BY Zenon DEF AbortStops
  <2>1. <<d, c>> \in crds /\ <<d, c>> # <<e, executions[e].cluster>>
    BY <1>2, Zenon
  <2>2. CASE d \in aborted
    BY <1>1, <1>2, <2>1, <2>2, Zenon DEF AbortStops
  <2>3. CASE d = e
    <3>. DEFINE o == <<d, c>>
    <3>1. o[1] = d /\ o[2] = c
      OBVIOUS
    <3>2. Chosen(c, e, routed[e])
      <4>. HIDE DEF o
      <4>1. o \in crds
        BY <2>1, Zenon DEF o
      <4>2. Chosen(o[2], o[1], routed[o[1]])
        BY <1>1, <2>3, <3>1, <4>1, Zenon DEF ClustersOK
      <4>. QED  BY <2>3, <3>1, <4>2, Zenon
    <3>3. Chosen(executions[e].cluster, e, routed[e])
      BY <1>1, <1>2, Zenon DEF ClustersOK
    <3>4. AtMostOne(routed[e])
      BY <1>2, <2>3, Zenon
    <3>5. c = executions[e].cluster
      BY <3>2, <3>3, <3>4, OneChoice, Zenon
    <3>. QED  BY <2>1, <2>3, <3>5, Zenon
  <2>. QED  BY <1>2, <2>2, <2>3, Zenon
<1>. QED  BY <1>3, <1>4, <1>5, Zenon

\* A launch the process was serving ends with it.
LEMMA RestartEndsLaunches ==
    ASSUME IInv, NEW c \in Configurations, Restart(c)
    PROVE  LaunchesOK' /\ ClustersOK' /\ AbortStops'
<1>1. LaunchesOK /\ ClustersOK /\ AbortStops
  BY Zenon DEF IInv
<1>2. /\ config' = c /\ crds' = crds /\ executions' = executions
      /\ aborted' = aborted /\ routed' = routed
      /\ launch' = [l \in Launches |-> IF launch[l].pc \in Ended THEN launch[l]
                                       ELSE [launch[l] EXCEPT !.pc = "failed"]]
  BY Zenon DEF Restart
<1>3. ClustersOK' /\ AbortStops'
  <2>1. config' \in Configurations
    BY <1>2, Zenon
  <2>2. ClustersOK'
    BY <1>1, <1>2, <2>1, Zenon DEF ClustersOK
  <2>. QED  BY <1>1, <1>2, <2>2, Zenon DEF AbortStops
<1>4. launch' = [l \in Launches |-> launch'[l]]
  BY <1>2
<1>5. ASSUME NEW l \in Launches, launch'[l] # NotLaunched PROVE LaunchOK(launch'[l], routed)
  <2>. DEFINE x == launch[l]
              y == [x EXCEPT !.pc = "failed"]
  <2>1. launch'[l] = IF x.pc \in Ended THEN x ELSE y
    BY <1>2, Zenon
  <2>2. CASE x.pc \in Ended
    BY <1>1, <1>5, <2>1, <2>2, Zenon DEF LaunchesOK
  <2>3. CASE x.pc \notin Ended
    <3>1. x.pc \notin {"idle", "refused"}
      BY <2>3 DEF Ended
    <3>2. LaunchOK(x, routed) /\ x.pc # "refused"
      BY <1>1, <3>1, Launched, Zenon
    <3>3. LaunchGoesOn(x, y, "failed") /\ SameResources(x, y) /\ y.wrong = {}
      BY <3>2, EndFields, Zenon DEF LaunchOK
    <3>4. "failed" \in Steps \ {"refused", "unbuilt"} /\ "failed" \notin Settling /\ "failed" # "record"
      BY DEF Steps, Settling
    <3>. HIDE DEF x, y
    <3>5. TaskOK(y)
      BY <3>2, <3>3, <3>4, TaskGoesOn, Zenon DEF LaunchOK, LaunchGoesOn
    <3>6. LaunchOK(y, routed)
      BY <3>2, <3>3, <3>4, <3>5, LaunchGoes, Zenon
    <3>. QED  BY <2>1, <2>3, <3>6, Zenon
  <2>. QED  BY <2>2, <2>3, Zenon
<1>6. LaunchesOK'
  BY <1>2, <1>4, <1>5, Zenon DEF LaunchesOK
<1>. QED  BY <1>3, <1>6, Zenon

-----------------------------------------------------------------------------
(* The invariant, and what follows from it.                                *)

LEMMA InitInv == Init => IInv
<1>. SUFFICES ASSUME Init PROVE IInv
  OBVIOUS
<1>1. /\ ResourceInit /\ config \in Configurations /\ launch = [l \in Launches |-> NotLaunched]
      /\ crds = {} /\ executions = [e \in Executions |-> None] /\ aborted = {}
      /\ routed = [e \in Executions |-> {}]
  BY LaunchesAssumption, Zenon DEF Init, ResourceInit
<1>2. ResourceInv
  BY <1>1, ResourceInitInv, Zenon
<1>3. LaunchesOK
  BY <1>1 DEF LaunchesOK
<1>4. ClustersOK
  BY <1>1, Zenon DEF ClustersOK
<1>5. AbortStops
  BY <1>1, Zenon DEF AbortStops
<1>. QED  BY <1>2, <1>3, <1>4, <1>5, Zenon DEF IInv

LEMMA LaunchStepKeeps ==
    ASSUME IInv, NEW l \in Launches, LaunchStep(l)
    PROVE  IInv'
<1>1. ResourceInv /\ LaunchesOK /\ ClustersOK /\ AbortStops /\ WorkloadTyped
  BY Zenon DEF IInv, ResourceInv, ResourceTypeOK
<1>2. ASSUME NEW q \in workload.launches[l], CreateExecution(l, q) PROVE IInv'
  <2>1. LaunchesOK'
    BY <1>1, <1>2, CreateExecutionKeeps, Zenon
  <2>2. UNCHANGED <<rows, lastId, handler, want, spoiled, workload>> /\ UNCHANGED <<config, crds, executions, aborted, routed>>
    BY <1>2, Zenon DEF CreateExecution, resourceVars, clusterVars
  <2>. QED  BY <1>1, <2>1, <2>2, ResourceStutter, QuietClusters, Zenon DEF IInv
<1>3. ASSUME \/ getInheritedExecMetadata(l) \/ getTaskResources(l) \/ populateExecutionQueue(l)
             \/ resolveExecutionConfig(l) \/ resolveLabels(l) \/ addPluginOverrides(l) \/ BuildFails(l)
      PROVE  IInv'
  <2>1. LaunchesOK'
    BY <1>1, <1>3, MetadataKeeps, ResourcesKeep, QueueKeeps, ConfigKeeps, LabelsKeep, PluginsKeep,
       BuildFailsKeeps, Zenon
  <2>2. UNCHANGED <<rows, lastId, handler, want, spoiled, workload>> /\ UNCHANGED <<config, crds, executions, aborted, routed>>
    BY <1>3, Zenon DEF getInheritedExecMetadata, getTaskResources, populateExecutionQueue,
       resolveExecutionConfig, resolveLabels, addPluginOverrides, BuildFails, resourceVars, clusterVars
  <2>. QED  BY <1>1, <2>1, <2>2, ResourceStutter, QuietClusters, Zenon DEF IInv
<1>4. ASSUME Execute(l) PROVE IInv'
  <2>1. LaunchesOK' /\ ClustersOK' /\ AbortStops'
    BY <1>4, ExecuteKeeps, Zenon
  <2>2. UNCHANGED <<rows, lastId, handler, want, spoiled, workload>>
    BY <1>1, <1>4, ExecuteCases, Zenon
  <2>. QED  BY <1>1, <2>1, <2>2, ResourceStutter, Zenon DEF IInv
<1>5. ASSUME Record(l) PROVE IInv'
  <2>1. LaunchesOK' /\ ClustersOK' /\ AbortStops'
    BY <1>5, RecordKeeps, Zenon
  <2>2. UNCHANGED <<rows, lastId, handler, want, spoiled, workload>>
    BY <1>5, Zenon DEF Record
  <2>. QED  BY <1>1, <2>1, <2>2, ResourceStutter, Zenon DEF IInv
<1>. QED  BY <1>2, <1>3, <1>4, <1>5, Zenon DEF LaunchStep

LEMMA NextKeeps ==
    ASSUME IInv, [Next]_vars
    PROVE  IInv'
<1>1. ResourceInv /\ LaunchesOK /\ ClustersOK /\ AbortStops
  BY Zenon DEF IInv
<1>2. ASSUME ResourceNext, UNCHANGED <<launch, clusterVars>> PROVE IInv'
  <2>1. ResourceInv'
    BY <1>1, <1>2, ResourceStep, Zenon
  <2>2. launch' = launch /\ routed' = routed /\ UNCHANGED <<config, crds, executions, aborted, routed>>
    BY <1>2, Zenon DEF clusterVars
  <2>3. LaunchesOK'
    BY <1>1, <2>2, Zenon DEF LaunchesOK
  <2>. QED  BY <1>1, <2>1, <2>2, <2>3, QuietClusters, Zenon DEF IInv
<1>3. ASSUME NEW l \in Launches, LaunchStep(l) PROVE IInv'
  BY <1>3, LaunchStepKeeps, Zenon
<1>4. ASSUME NEW e \in Executions, Abort(e) PROVE IInv'
  <2>1. LaunchesOK' /\ ClustersOK' /\ AbortStops'
    BY <1>4, AbortKeeps, Zenon
  <2>2. UNCHANGED <<rows, lastId, handler, want, spoiled, workload>>
    BY <1>4, Zenon DEF Abort, resourceVars
  <2>. QED  BY <1>1, <2>1, <2>2, ResourceStutter, Zenon DEF IInv
<1>5. ASSUME NEW c \in Configurations, Restart(c) PROVE IInv'
  BY <1>1, <1>5, RestartKeeps, RestartEndsLaunches, Zenon DEF IInv
<1>6. CASE UNCHANGED vars
  <2>1. /\ UNCHANGED <<rows, lastId, handler, want, spoiled, workload>>
        /\ launch' = launch /\ routed' = routed /\ UNCHANGED <<config, crds, executions, aborted, routed>>
    BY <1>6, Zenon DEF vars, resourceVars
  <2>2. LaunchesOK'
    BY <1>1, <2>1, Zenon DEF LaunchesOK
  <2>. QED  BY <1>1, <2>1, <2>2, ResourceStutter, QuietClusters, Zenon DEF IInv
<1>. QED  BY <1>2, <1>3, <1>4, <1>5, <1>6, Zenon DEF Next

LEMMA BoundByInvariant == LaunchesOK => InputsAreBound
<1>. SUFFICES ASSUME LaunchesOK, NEW l \in Launches, launch[l] # NotLaunched, launch[l].request.kind = "plan"
              PROVE  LET q == launch[l].request
                         launchable == Launchable(q.plan, q.variables, q.inputs)
                     IN  /\ launch[l].pc # "unbuilt"
                         /\ BoundTwice(q.plan) = {} =>
                               /\ launch[l].pc = "refused" <=> ~launchable
                               /\ q.scheduler # None => (launchable <=> ~Unlaunchable(q))
                         /\ launch[l].pc # "refused" =>
                               /\ DOMAIN launch[l].inputs = DOMAIN q.variables
                               /\ \A name \in DOMAIN q.variables :
                                     launch[l].inputs[name] = InputFor(name, q.plan, q.inputs)
  BY Zenon DEF InputsAreBound
<1>. DEFINE q == launch[l].request
<1>1. q \in LaunchRequests /\ InputsOK(launch[l])
  BY Zenon DEF LaunchesOK, LaunchOK
<1>2. /\ ValidateLaunchPlan(q.plan, q.variables) /\ launch[l].pc # "unbuilt"
      /\ launch[l].pc = "refused" <=> ~Accepts(q)
      /\ launch[l].pc # "refused" => launch[l].inputs = InputsOf(q)
  BY <1>1, Zenon DEF InputsOK
<1>3. BoundTwice(q.plan) = {} => (Accepts(q) <=> Launchable(q.plan, q.variables, q.inputs))
  BY <1>1, <1>2, AcceptsLaunchable, Zenon
<1>4. BoundTwice(q.plan) = {} /\ q.scheduler # None =>
         (Launchable(q.plan, q.variables, q.inputs) <=> ~Unlaunchable(q))
  BY <1>1, <1>2, ScheduledIsLaunchable, Zenon
<1>5. Accepts(q) => /\ DOMAIN InputsOf(q) = DOMAIN q.variables
                    /\ \A name \in DOMAIN q.variables : InputsOf(q)[name] = InputFor(name, q.plan, q.inputs)
  BY <1>1, <1>2, AcceptedIsBound, Zenon
<1>. QED  BY <1>2, <1>3, <1>4, <1>5, Zenon

LEMMA FitsByInvariant == LaunchesOK => TasksFit
<1>. SUFFICES ASSUME LaunchesOK, NEW l \in Launches, launch[l] # NotLaunched, launch[l].given # None
              PROVE  LET task == launch[l].request.task
                         given == launch[l].given
                         platform == launch[l].platform
                         whole(r) == /\ isWholeNumber(task.requests[r]) /\ isWholeNumber(LimitResources[r])
                                     /\ r \in DOMAIN task.limits => isWholeNumber(task.limits[r])
                     IN  /\ \A r \in DOMAIN given :
                               /\ given[r].request <= given[r].limit
                               /\ platform.limits[r] # 0 => given[r].limit <= platform.limits[r]
                         /\ ~task.sidecar /\ platform.limits = LimitResources =>
                               \A r \in DOMAIN task.requests \ {"storage"} :
                                   whole(r) /\ task.requests[r] # 0 => given[r].request = task.requests[r]
  BY Zenon DEF TasksFit
<1>. DEFINE q == launch[l].request
            platform == launch[l].platform
            given == launch[l].given
<1>1. /\ q \in LaunchRequests /\ validateTaskTemplate(q.task)
      /\ PlatformTyped(platform) /\ given = setCompiledTaskDefaults(q.task, platform)
  BY Zenon DEF LaunchesOK, LaunchOK, TaskOK
<1>2. setCompiledTaskDefaults(q.task, platform) # None
  BY <1>1, Zenon
<1>3. \A r \in DOMAIN given :
         /\ given[r].request <= given[r].limit
         /\ platform.limits[r] # 0 => given[r].limit <= platform.limits[r]
  BY <1>1, <1>2, GivenFits, Zenon
<1>4. ASSUME ~q.task.sidecar, platform.limits = LimitResources, NEW r \in DOMAIN q.task.requests \ {"storage"},
             isWholeNumber(q.task.requests[r]), isWholeNumber(LimitResources[r]),
             r \in DOMAIN q.task.limits => isWholeNumber(q.task.limits[r]), q.task.requests[r] # 0
      PROVE  given[r].request = q.task.requests[r]
  <2>. HIDE DEF q, platform, given
  <2>1. setCompiledTaskDefaults(q.task, platform)[r].request = q.task.requests[r]
    BY <1>1, <1>2, <1>4, RequestIsGiven, Zenon
  <2>. QED  BY <1>1, <2>1, Zenon
<1>. QED  BY <1>3, <1>4, Zenon

LEMMA OneByInvariant == ClustersOK => OneCluster
<1>. SUFFICES ASSUME ClustersOK, NEW e \in Executions, AtMostOne(routed[e])
              PROVE  LET on == {c \in Clusters : <<e, c>> \in crds}
                     IN  /\ AtMostOne(on)
                         /\ executions[e] # None => on \subseteq {executions[e].cluster}
  BY Zenon DEF OneCluster
<1>. DEFINE on == {c \in Clusters : <<e, c>> \in crds}
<1>2. ASSUME NEW c \in on PROVE Chosen(c, e, routed[e])
  <2>. DEFINE o == <<e, c>>
  <2>1. o[1] = e /\ o[2] = c
    OBVIOUS
  <2>2. o \in crds
    BY <1>2, Zenon
  <2>. HIDE DEF o
  <2>3. Chosen(o[2], o[1], routed[o[1]])
    BY <2>1, <2>2, Zenon DEF ClustersOK
  <2>. QED  BY <2>1, <2>3, Zenon
<1>3. \A c, d \in on : c = d
  <2>. HIDE DEF on
  <2>. QED  BY <1>2, OneChoice, Zenon
<1>4. executions[e] # None => on \subseteq {executions[e].cluster}
  <2>. HIDE DEF on
  <2>1. executions[e] # None => Chosen(executions[e].cluster, e, routed[e])
    BY Zenon DEF ClustersOK
  <2>2. executions[e] # None => \A c \in on : c = executions[e].cluster
    BY <1>2, <2>1, OneChoice, Zenon
  <2>. QED  BY <2>2, Zenon
<1>5. AtMostOne(on)
  BY <1>3, Zenon DEF AtMostOne
<1>. QED  BY <1>4, <1>5, Zenon

\* The inductive invariant holds in every state: the overrides' tables and
\* the requests that are being served (ResourceInv), the launches, the
\* clusters that were chosen, and the aborts.
THEOREM Invariance == Spec => []IInv
<1>1. Init => IInv
  BY InitInv
<1>2. IInv /\ [Next]_vars => IInv'
  BY NextKeeps
<1>. QED  BY <1>1, <1>2, PTL DEF Spec

\* Every lookup and every list serves just what the acknowledged updates and
\* deletes have set, for any number of requests, handlers and workflows.
THEOREM ServedCorrectly == Spec => []AcknowledgedIsServed
<1>1. IInv => AcknowledgedIsServed
  BY ServedIsAcknowledged DEF IInv
<1>. QED  BY <1>1, Invariance, PTL

\* An execution is launched with the settings the acknowledged requests call
\* for, whatever is written while CreateExecution looks them up.
THEOREM SettingsApply == Spec => []OverridesApply
<1>1. IInv => OverridesApply
  BY Zenon DEF IInv, LaunchesOK, LaunchOK, OverridesApply
<1>. QED  BY <1>1, Invariance, PTL

\* A launch plan that CreateLaunchPlan accepted can be launched by a caller who
\* binds what it leaves open, and every input has the value it is to have; a
\* schedule launches it too, but for the two kinds that never do.
THEOREM InputsBound == Spec => []InputsAreBound
<1>1. IInv => InputsAreBound
  BY BoundByInvariant DEF IInv
<1>. QED  BY <1>1, Invariance, PTL

\* What CreateTask accepted is what a launch gives, for any quantities and
\* any override of the platform's resources.
THEOREM TasksAreGiven == Spec => []TasksFit
<1>1. IInv => TasksFit
  BY FitsByInvariant DEF IInv
<1>. QED  BY <1>1, Invariance, PTL

\* An execution whose cluster was always chosen from the same list, of clusters
\* and their weights, is on one cluster, the one its row names, however often
\* its launch was retried.
THEOREM OnOneCluster == Spec => []OneCluster
<1>1. IInv => OneCluster
  BY OneByInvariant DEF IInv
<1>. QED  BY <1>1, Invariance, PTL

\* An acknowledged TerminateExecution leaves no object of such an execution
\* on any cluster, whatever the configuration is by then.
THEOREM AbortsStop == Spec => []AbortStops
<1>1. IInv => AbortStops
  BY Zenon DEF IInv
<1>. QED  BY <1>1, Invariance, PTL

=============================================================================

---------------------------- MODULE LaunchInputs ----------------------------
(***************************************************************************)
(* The inputs of an execution: what a launch plan binds when it is         *)
(* created (pkg/manager/impl/validation/launch_plan_validator.go), what    *)
(* its caller binds (execution_validator.go), and what the compiler asks   *)
(* for when it builds the workflow object.                                 *)
(*                                                                         *)
(* A map of inputs is a function from their names.  A literal has a type   *)
(* and a value, a parameter a type and either a default or the mark that   *)
(* it is required, and the workflow's variables have types only.           *)
(***************************************************************************)
EXTENDS Naturals, FiniteSets

\* A field that is not set: a literal without value, a missing type.
NoType == "nil"
NoLiteral == [type |-> NoType, value |-> 0]
NoSchedule == [expression |-> "none", kickoffTimeInputArg |-> ""]

\* External: flytepropeller's validators.  An enumeration's values are
\* strings.
AreTypesCastable(upstream, downstream) ==
    upstream = downstream \/ {upstream, downstream} = {"string", "enum"}

-----------------------------------------------------------------------------
(* Creating a launch plan.                                                 *)

validateLiteralMap(inputs) ==
    \A name \in DOMAIN inputs : name # "" /\ inputs[name].type # NoType

validateParameterMap(parameters) ==
    \A name \in DOMAIN parameters :
        LET parameter == parameters[name]
        IN  /\ name # ""
            /\ parameter.type # NoType
            /\ parameter.required \/ parameter.default.type # NoType
            /\ parameter.default.type # NoType =>
                  AreTypesCastable(parameter.default.type, parameter.type)

\* Whatever the launch plan binds is a variable of the workflow, and fits it.
checkExpectedInputs(variables, fixedInputs, defaultInputs) ==
    /\ \A name \in DOMAIN defaultInputs :
          name \in DOMAIN variables /\ AreTypesCastable(defaultInputs[name].type, variables[name])
    /\ \A name \in DOMAIN fixedInputs :
          name \in DOMAIN variables /\ AreTypesCastable(fixedInputs[name].type, variables[name])

\* Variables the launch plan does not mention become required parameters.
fetchExpectedInputs(variables, fixedInputs, defaultInputs) ==
    [name \in DOMAIN defaultInputs \cup (DOMAIN variables \ DOMAIN fixedInputs) |->
        IF name \in DOMAIN defaultInputs THEN defaultInputs[name]
        ELSE [type |-> variables[name], required |-> TRUE, default |-> NoLiteral]]

\* Only the time may be left unbound, and it must be an input for one.
LeavesOnlyTheTime(schedule, expectedInputs) ==
    LET arg == schedule.kickoffTimeInputArg
    IN  /\ \A name \in DOMAIN expectedInputs : expectedInputs[name].required => name = arg
        /\ arg # "" => arg \in DOMAIN expectedInputs /\ expectedInputs[arg].type = "datetime"

\* The newer kind of cron schedule, "cronSchedule", is not looked at.
validateSchedule(schedule, expectedInputs) ==
    schedule.expression \in {"cronExpression", "rate"} => LeavesOnlyTheTime(schedule, expectedInputs)

ValidateLaunchPlan(spec, variables) ==
    /\ validateLiteralMap(spec.fixedInputs)
    /\ validateParameterMap(spec.defaultInputs)
    /\ checkExpectedInputs(variables, spec.fixedInputs, spec.defaultInputs)
    /\ validateSchedule(spec.schedule,
           fetchExpectedInputs(variables, spec.fixedInputs, spec.defaultInputs))

\* transformers.CreateLaunchPlan: the default inputs, to which the validation
\* has added the workflow's unbound ones, are the closure's expected inputs.
CreateLaunchPlan(spec, variables) ==
    [spec |-> spec,
     expectedInputs |-> fetchExpectedInputs(variables, spec.fixedInputs, spec.defaultInputs)]

CreateLaunchPlanModel(launchPlan) ==
    [spec |-> launchPlan.spec, closure |-> launchPlan.expectedInputs, state |-> "INACTIVE",
     scheduleType |-> IF launchPlan.spec.schedule.expression = "cronExpression" THEN "CRON"
                      ELSE IF launchPlan.spec.schedule.expression = "rate" THEN "RATE" ELSE "NONE"]

FromLaunchPlanModel(model) ==
    [spec |-> model.spec, expectedInputs |-> model.closure, state |-> model.state]

-----------------------------------------------------------------------------
(* Scheduling it.                                                          *)

\* A schedule that only names the input for the time is none the less one.
isScheduleEmpty(schedule) ==
    schedule.kickoffTimeInputArg = "" /\ schedule.expression \notin {"cronExpression", "rate"}

\* The kinds of schedule that AddSchedule takes, of CloudWatch and of the native
\* scheduler.
getScheduleExpression == {"cronExpression", "rate"}
AddSchedule == {"cronSchedule", "rate"}
Schedulable(scheduler, schedule) ==
    /\ ~isScheduleEmpty(schedule)
    /\ schedule.expression \in IF scheduler = "native" THEN AddSchedule ELSE getScheduleExpression

\* The inputs bound for a message of CloudWatch, and by the native scheduler,
\* which leaves the time out for a rate.
resolveKickoffTimeArg(schedule, expectedInputs) ==
    {schedule.kickoffTimeInputArg} \cap (DOMAIN expectedInputs \ {""})
literalsInputMap(schedule) ==
    IF schedule.expression = "cronSchedule" THEN {schedule.kickoffTimeInputArg} ELSE {}
TimeInputs(scheduler, schedule, expectedInputs) ==
    IF scheduler = "native" THEN literalsInputMap(schedule)
    ELSE resolveKickoffTimeArg(schedule, expectedInputs)

-----------------------------------------------------------------------------
(* Launching it.                                                           *)

\* Notifications and the identifiers of the request are well formed here.
ValidateExecutionRequest(inputs) == validateLiteralMap(inputs)

VariantRequiredIgnored(userInputs, fixedInputs, expectedInputs) ==
    /\ \A name \in DOMAIN userInputs :
          /\ name \in DOMAIN expectedInputs
          /\ AreTypesCastable(userInputs[name].type, expectedInputs[name].type)
    /\ DOMAIN fixedInputs \cap DOMAIN expectedInputs = {}
checkInputsForExecution(userInputs, fixedInputs, expectedInputs) ==
    /\ DOMAIN userInputs \subseteq DOMAIN expectedInputs
    /\ \A name \in DOMAIN expectedInputs :
          IF name \in DOMAIN userInputs
          THEN AreTypesCastable(userInputs[name].type, expectedInputs[name].type)
          ELSE ~expectedInputs[name].required
    /\ DOMAIN fixedInputs \cap DOMAIN expectedInputs = {}

fetchInputsForExecution(userInputs, fixedInputs, expectedInputs) ==
    [name \in DOMAIN expectedInputs \cup DOMAIN fixedInputs |->
        IF name \in DOMAIN fixedInputs THEN fixedInputs[name]
        ELSE IF name \in DOMAIN userInputs THEN userInputs[name]
        ELSE expectedInputs[name].default]

\* External: the compiler's BuildFlyteWorkflow takes exactly the workflow's
\* variables, each with a literal that fits.
Build(variables, inputs) ==
    /\ DOMAIN inputs = DOMAIN variables
    /\ \A name \in DOMAIN inputs : AreTypesCastable(inputs[name].type, variables[name])

-----------------------------------------------------------------------------
(* What the inputs are to be.                                              *)

\* Inputs the launch plan both fixes and gives a default.
BoundTwice(spec) == DOMAIN spec.fixedInputs \cap DOMAIN spec.defaultInputs

\* The value a variable is to have, NoLiteral if there is none: the launch
\* plan's own, or else the caller's, or else the launch plan's default.
InputFor(name, spec, userInputs) ==
    IF name \in DOMAIN spec.fixedInputs THEN spec.fixedInputs[name]
    ELSE IF name \in DOMAIN userInputs THEN userInputs[name]
    ELSE IF name \in DOMAIN spec.defaultInputs THEN spec.defaultInputs[name].default
    ELSE NoLiteral

\* The type a caller's literal is to fit.
DeclaredType(name, spec, variables) ==
    IF name \in DOMAIN spec.defaultInputs THEN spec.defaultInputs[name].type ELSE variables[name]

\* The caller leaves what is fixed alone, and nothing is left unbound.
Launchable(spec, variables, userInputs) ==
    /\ DOMAIN userInputs \subseteq DOMAIN variables \ DOMAIN spec.fixedInputs
    /\ \A name \in DOMAIN userInputs :
          /\ userInputs[name].type # NoType
          /\ AreTypesCastable(userInputs[name].type, DeclaredType(name, spec, variables))
    /\ \A name \in DOMAIN variables :
          name \in DOMAIN userInputs \/ InputFor(name, spec, userInputs).type # NoType

=============================================================================

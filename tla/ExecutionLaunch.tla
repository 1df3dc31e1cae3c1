-------------------------- MODULE ExecutionLaunch --------------------------
(***************************************************************************)
(* The launch of an execution: CreateExecution, RelaunchExecution and      *)
(* RecoverExecution (pkg/manager/impl/execution_manager.go).               *)
(*                                                                         *)
(* A launch goes through three stores that share no transaction: the       *)
(* inputs are offloaded to blobs whose location depends on nothing but the *)
(* name of the execution, the FlyteWorkflow is created in a cluster, and   *)
(* only then is the row inserted, which is where a second launch under the *)
(* same name is found out.  A launch may stop between any two of them, and *)
(* clients (the scheduler among them) send a launch again under its name.  *)
(***************************************************************************)
EXTENDS Naturals

CONSTANTS Names,            \* names of executions
          Clusters,
          Handlers,         \* goroutines that serve requests
          Args,             \* inputs a user may give
          CreateRequests,   \* the create requests clients send
          Relaunches,       \* the relaunch and recover requests they send
          OldNames,         \* executions from before inputs were offloaded
          None              \* no row, no blob, no workflow, no source, ...

Modes == {"MANUAL", "RELAUNCH", "RECOVERED"}

\* What a launch is asked to run: the spec and the inputs of the request.
Launch == [entity: {"LAUNCH_PLAN", "TASK"}, mode: Modes,
           source: Names \cup {None}, args: Args \cup {None}]

ASSUME RequestsAssumption ==
    CreateRequests \subseteq [name: Names, entity: {"LAUNCH_PLAN", "TASK"},
                              args: Args]
ASSUME RelaunchesAssumption ==
    Relaunches \subseteq [name: Names, source: Names]
ASSUME OldNamesAssumption == OldNames \subseteq Names

VARIABLES row,        \* the executions table
          blob,       \* the inputs and user inputs in the blob store
          crd,        \* the FlyteWorkflows in the clusters
          handler,    \* the request each goroutine is serving
          asked,      \* history: the launch requested under each name
          launched    \* history: clusters a name's FlyteWorkflow has been in

vars == <<row, blob, crd, handler, asked, launched>>

Idle == [pc |-> "idle"]

\* Stands for two launches or more under the same name.
Several == [mode |-> "SEVERAL"]

Request == [pc: {"inputs", "userInputs", "execute", "create"}, name: Names,
            launch: Launch, cluster: Clusters \cup {None}]

Row == [launch: Launch, cluster: Clusters, offloaded: BOOLEAN]

LiteralMap == [args: Args \cup {None}, resolved: BOOLEAN]

ASSUME NoneAssumption ==
    /\ None \notin Names \cup Clusters \cup Args
    /\ None \notin Launch /\ None \notin LiteralMap /\ None # Several

-----------------------------------------------------------------------------

\* CheckAndFetchInputsForExecution adds the defaults and the fixed inputs of
\* the launch plan; a task is launched with what the user gave.
executionInputs(launch) ==
    [args |-> launch.args, resolved |-> launch.entity = "LAUNCH_PLAN"]

\* What of a launch goes into its FlyteWorkflow.
FlyteWorkflow(launch) ==
    [inputs   |-> executionInputs(launch),
     recovers |-> IF launch.mode = "RECOVERED" THEN launch.source ELSE None]

\* An old execution has a row that holds its inputs, and is over.
OldRow(args, c) ==
    [launch    |-> [entity |-> "LAUNCH_PLAN", mode |-> "MANUAL",
                    source |-> None, args |-> args],
     cluster   |-> c,
     offloaded |-> FALSE]

Init ==
    /\ row \in [Names -> {None} \cup {OldRow(a, c) : a \in Args, c \in Clusters}]
    /\ \A n \in Names : row[n] # None => n \in OldNames
    /\ blob = [n \in Names |-> [inputs |-> None, userInputs |-> None]]
    /\ crd = [c \in Clusters |-> [n \in Names |-> None]]
    /\ handler = [h \in Handlers |-> Idle]
    /\ asked = [n \in Names |-> IF row[n] = None THEN None ELSE row[n].launch]
    /\ launched = [n \in Names |-> IF row[n] = None THEN {} ELSE {row[n].cluster}]

Start(h, n, launch) ==
    /\ handler[h] = Idle
    /\ handler' = [handler EXCEPT ![h] = [pc |-> "inputs", name |-> n,
                                          launch |-> launch, cluster |-> None]]
    /\ asked' = [asked EXCEPT ![n] = IF @ \in {None, launch} THEN launch
                                     ELSE Several]
    /\ UNCHANGED <<row, blob, crd, launched>>

\* CreateExecution, up to the first blob, finds the launch plan or the task,
\* checks the inputs and does not look for an execution of the same name.
CreateExecution(h, request) ==
    Start(h, request.name,
          [entity |-> request.entity, mode |-> "MANUAL", source |-> None,
           args |-> request.args])

\* Variant that does not look for the inputs of an old row in its spec.
RelaunchExecutionNotOld(h, n, source) ==
    /\ row[source] # None
    /\ Start(h, n, [row[source].launch EXCEPT
                      !.mode   = "RELAUNCH",
                      !.source = source,
                      !.args   = blob[source].userInputs])

\* The user inputs of the row, or those of the spec of an old one.
RelaunchExecution(h, n, source) ==
    /\ row[source] # None
    /\ Start(h, n, [row[source].launch EXCEPT
                      !.mode   = "RELAUNCH",
                      !.source = source,
                      !.args   = IF row[source].offloaded
                                 THEN blob[source].userInputs ELSE @])

\* As RelaunchExecution, but nothing is read from the spec of an old row.
RecoverExecution(h, n, source) ==
    /\ row[source] # None
    /\ Start(h, n, [row[source].launch EXCEPT
                      !.mode   = "RECOVERED",
                      !.source = source,
                      !.args   = IF row[source].offloaded
                                 THEN blob[source].userInputs ELSE None])

\* Variant that goes on when the blob could not be written.
OffloadInputsBestEffort(h) ==
    LET r == handler[h]
    IN  /\ r.pc = "inputs"
        /\ \/ blob' = [blob EXCEPT ![r.name].inputs = executionInputs(r.launch)]
           \/ blob' = blob
        /\ handler' = [handler EXCEPT ![h].pc = "userInputs"]
        /\ UNCHANGED <<row, crd, asked, launched>>

\* Variant that offloads the inputs without the defaults.
OffloadInputsUnresolved(h) ==
    LET r == handler[h]
    IN  /\ r.pc = "inputs"
        /\ blob' = [blob EXCEPT ![r.name].inputs =
                      [args |-> r.launch.args, resolved |-> FALSE]]
        /\ handler' = [handler EXCEPT ![h].pc = "userInputs"]
        /\ UNCHANGED <<row, crd, asked, launched>>

\* OffloadLiteralMap of the inputs the workflow runs with.
OffloadInputs(h) ==
    LET r == handler[h]
    IN  /\ r.pc = "inputs"
        /\ blob' = [blob EXCEPT ![r.name].inputs = executionInputs(r.launch)]
        /\ handler' = [handler EXCEPT ![h].pc = "userInputs"]
        /\ UNCHANGED <<row, crd, asked, launched>>

\* OffloadLiteralMap of the inputs the user gave.  No inputs are written as an
\* empty map, which reads back as no inputs: None stands for both.
OffloadUserInputs(h) ==
    LET r == handler[h]
    IN  /\ r.pc = "userInputs"
        /\ blob' = [blob EXCEPT ![r.name].userInputs = r.launch.args]
        /\ handler' = [handler EXCEPT ![h].pc = "execute"]
        /\ UNCHANGED <<row, crd, asked, launched>>

\* K8sWorkflowExecutor.Execute creates the FlyteWorkflow in cluster c, or finds
\* one of that name there and leaves it alone.  GetTarget picks the cluster from
\* the name, the execution cluster label and the enabled clusters; the last two
\* may have changed since the name was launched before.
Execute(h, c) ==
    LET r == handler[h]
    IN  /\ r.pc = "execute"
        /\ crd' = [crd EXCEPT ![c][r.name] =
                     IF @ = None THEN FlyteWorkflow(r.launch) ELSE @]
        /\ launched' = [launched EXCEPT ![r.name] = @ \cup {c}]
        /\ handler' = [handler EXCEPT ![h].pc = "create", ![h].cluster = c]
        /\ UNCHANGED <<row, blob, asked>>

\* createExecutionModel inserts the row, unless there is one of that name,
\* and ends the request.
Create(h) ==
    LET r == handler[h]
    IN  /\ r.pc = "create"
        /\ row' = [row EXCEPT ![r.name] =
                     IF @ = None THEN [launch    |-> r.launch,
                                       cluster   |-> r.cluster,
                                       offloaded |-> TRUE]
                     ELSE @]
        /\ handler' = [handler EXCEPT ![h] = Idle]
        /\ UNCHANGED <<blob, crd, asked, launched>>

\* Any of the steps may fail, and end the request with an error; or the
\* process dies.  Nothing done so far is undone.
Fail(h) ==
    /\ handler[h] # Idle
    /\ handler' = [handler EXCEPT ![h] = Idle]
    /\ UNCHANGED <<row, blob, crd, asked, launched>>

\* External: propeller collects a workflow that is over; TerminateExecution
\* deletes one that has a row.
Collect(c, n) ==
    /\ crd[c][n] # None
    /\ crd' = [crd EXCEPT ![c][n] = None]
    /\ UNCHANGED <<row, blob, handler, asked, launched>>

Next ==
    \/ \E h \in Handlers :
          \/ \E request \in CreateRequests : CreateExecution(h, request)
          \/ \E r \in Relaunches :
                \/ RelaunchExecution(h, r.name, r.source)
                \/ RecoverExecution(h, r.name, r.source)
          \/ OffloadInputs(h)
          \/ OffloadUserInputs(h)
          \/ \E c \in Clusters : Execute(h, c)
          \/ Create(h)
          \/ Fail(h)
    \/ \E n \in Names, c \in Clusters : Collect(c, n)

Spec == Init /\ [][Next]_vars

-----------------------------------------------------------------------------

\* The types of the rows, the blobs, the workflows and the requests of
\* launchExecutionAndPrepareModel.
TypeOK ==
    /\ row \in [Names -> Row \cup {None}]
    /\ blob \in [Names -> [inputs: LiteralMap \cup {None},
                           userInputs: Args \cup {None}]]
    /\ crd \in [Clusters -> [Names ->
                  [inputs: LiteralMap, recovers: Names \cup {None}] \cup {None}]]
    /\ handler \in [Handlers -> Request \cup {Idle}]
    /\ asked \in [Names -> Launch \cup {None, Several}]
    /\ launched \in [Names -> SUBSET Clusters]

\* Nobody has asked for two different launches under the name: there have
\* been only repetitions of one request.
Unambiguous(n) == asked[n] # Several

\* The row comes last in launchExecutionAndPrepareModel: a row that says its
\* inputs are offloaded has inputs in the blob store, and its FlyteWorkflow
\* has been in the cluster on record, whatever fails and wherever repetitions
\* of the launch are sent.
RowsAreBacked ==
    \A n \in Names :
        row[n] # None =>
            /\ row[n].cluster \in launched[n]
            /\ row[n].offloaded => blob[n].inputs # None

\* However often a launch is repeated, concurrently or after a failure, and
\* whichever repetition wins each of the three stores, row, blobs and
\* workflows all hold the one launch that was asked for.
RetriesAgree ==
    \A n \in Names :
        row[n] # None /\ row[n].offloaded /\ Unambiguous(n) =>
            /\ asked[n] = row[n].launch
            /\ blob[n].inputs = executionInputs(row[n].launch)
            /\ blob[n].userInputs = row[n].launch.args
            /\ \A c \in Clusters : crd[c][n] \in {None, FlyteWorkflow(row[n].launch)}

\* RelaunchExecution and RecoverExecution launch what the source was launched
\* with, through however many relaunches, as long as nothing else was asked
\* for under the name of the source; but recovering an old execution drops
\* the inputs its spec holds.
RelaunchKeepsInputs ==
    \A n \in Names :
        LET s == row[n].launch.source
        IN  row[n] # None /\ row[n].launch.mode # "MANUAL" =>
              /\ row[s] # None
              /\ Unambiguous(s) /\ (row[s].offloaded \/ row[n].launch.mode = "RELAUNCH")
                   => row[n].launch.args = row[s].launch.args

=============================================================================

--------------------------- MODULE ExecutionModel ---------------------------
(***************************************************************************)
(* The executions table row (models.Execution), the pure functions of      *)
(* pkg/repositories/transformers/execution.go that compute a new row from  *)
(* an old one, and the column-wise merge that gorm's Updates performs when *)
(* the row is written back.                                                *)
(*                                                                         *)
(* A row is abstracted to what the execution manager branches on: times,   *)
(* causes, URIs and error kinds are "set or not", outputs are the kind of  *)
(* result the closure holds.  The phase is stored twice (column and        *)
(* closure); both copies are assigned together in every transformer, so    *)
(* one field stands for both.                                              *)
(***************************************************************************)

CONSTANTS Clusters,    \* ids of the kubernetes clusters that run propeller
          NoProducer   \* an event whose producer id is empty or the default

ASSUME ProducerAssumption == NoProducer \notin Clusters

-----------------------------------------------------------------------------

TerminalPhases == {"SUCCEEDED", "FAILED", "TIMED_OUT", "ABORTED"}

\* The phases of flyteidl; no code singles out SUCCEEDING or FAILING.
Phases == {"UNDEFINED", "QUEUED", "RUNNING", "SUCCEEDING", "FAILING"}
              \cup TerminalPhases

IsExecutionTerminal(phase) == phase \in TerminalPhases

clusterReassignablePhases == {"UNDEFINED", "QUEUED"}

\* The oneof OutputResult of an ExecutionClosure, and the one of an event.
Results == {"none", "outputs", "error", "abortMetadata"}

Event == [phase: Phases, producer: Clusters \cup {NoProducer},
          result: {"none", "outputs", "error"}]

Closure == [startedAt: BOOLEAN, result: Results]

Execution == [phase: Phases, cluster: Clusters, startedAt: BOOLEAN,
              inputsURI: BOOLEAN, abortCause: BOOLEAN, errorKind: BOOLEAN,
              closure: Closure]

-----------------------------------------------------------------------------

\* The row that the launch of an execution on cluster c leaves behind.  Rows
\* written before inputs were offloaded have no InputsURI.
CreateExecutionModel(c, offloaded) ==
    [phase |-> "UNDEFINED", cluster |-> c, startedAt |-> FALSE,
     inputsURI |-> offloaded, abortCause |-> FALSE, errorKind |-> FALSE,
     closure |-> [startedAt |-> FALSE, result |-> "none"]]

\* An event of a phase that may not move the execution has to come from the
\* cluster on record.  The phase consulted is the one of the event: the
\* transformer has already stored it in the row.
IncompatibleCluster(execution, event) ==
    /\ event.producer # NoProducer
    /\ event.phase \notin clusterReassignablePhases
    /\ event.producer # execution.cluster

\* Variant that sets the start time in the column only.
UpdateExecutionModelStateColumnOnly(execution, event) ==
    [execution EXCEPT !.phase     = event.phase,
                      !.startedAt = @ \/ event.phase = "RUNNING"]

UpdateExecutionModelState(execution, event) ==
    LET started == event.phase = "RUNNING"
        moved   == /\ event.producer # NoProducer
                   /\ event.phase \in clusterReassignablePhases
    IN  [execution EXCEPT
           !.phase     = event.phase,
           !.startedAt = @ \/ started,
           !.cluster   = IF moved THEN event.producer ELSE @,
           !.errorKind = @ \/ event.result = "error",
           !.closure   = [startedAt |-> @.startedAt \/ started,
                          result    |-> IF event.result = "none"
                                        THEN @.result ELSE event.result]]

\* The cause is taken to be given; an empty one would be left out by Updates.
SetExecutionAborted(execution) ==
    [execution EXCEPT !.closure.result = "abortMetadata",
                      !.abortCause     = TRUE]

\* gorm's Model(&execution).Updates(execution): every field of the struct
\* that is not its zero value replaces the column, a zero field leaves the
\* column alone.  The phase, the cluster and the closure are never zero.
Updates(row, execution) ==
    [phase      |-> execution.phase,
     cluster    |-> execution.cluster,
     startedAt  |-> row.startedAt \/ execution.startedAt,
     inputsURI  |-> row.inputsURI \/ execution.inputsURI,
     abortCause |-> row.abortCause \/ execution.abortCause,
     errorKind  |-> row.errorKind \/ execution.errorKind,
     closure    |-> execution.closure]
=============================================================================

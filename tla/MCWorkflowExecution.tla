------------------------ MODULE MCWorkflowExecution ------------------------
(* WorkflowExecution for TLC: the event sets of the runs.                  *)
EXTENDS WorkflowExecution, TLC

CONSTANTS c1, c2, h1, h2, e1

MCEvent(phase, producer, result) ==
    [phase |-> phase, producer |-> producer, result |-> result]

\* A cluster takes the execution over, it runs, and it ends in one of the
\* ways whose results differ; the last event comes from a producer that does
\* not say who it is.
MCEvents ==
    {MCEvent("QUEUED", c2, "none"), MCEvent("RUNNING", c1, "none"),
     MCEvent("RUNNING", c2, "none"), MCEvent("SUCCEEDED", c1, "outputs"),
     MCEvent("ABORTED", c2, "none"), MCEvent("FAILED", NoProducer, "error")}

MCNotifying == {"SUCCEEDED", "FAILED"}

\* Behaviours are followed up to the first stale write of an execution.  The
\* step that makes it is checked; what comes after it is past every promise.
MCUntainted == tainted = {}

MCSymmetry == Permutations({h1, h2})
=============================================================================

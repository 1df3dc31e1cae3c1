------------------------ MODULE ExecutionLifecycle ------------------------
(***************************************************************************)
(* What the execution manager promises about the phase of an execution: it *)
(* moves forward one event at a time, a terminal phase is final, and a     *)
(* running execution is never queued again.  The promise about an          *)
(* execution ends with the first update that overwrites another one.       *)
(***************************************************************************)
EXTENDS ExecutionModel

CONSTANT Executions

VARIABLES phase,  \* the phase on record
          lost    \* executions of which an update has been lost

Init ==
    /\ phase = [e \in Executions |-> "UNDEFINED"]
    /\ lost = {}

Advance(e, p) ==
    /\ ~IsExecutionTerminal(phase[e])
    /\ ~(phase[e] = "RUNNING" /\ p = "QUEUED")
    /\ phase' = [phase EXCEPT ![e] = p]
    /\ lost' = lost

LoseUpdate(e, p) ==
    /\ phase' = [phase EXCEPT ![e] = p]
    /\ lost' = lost \cup {e}

\* Once an update is lost, so is what the phase said.
Wander(e, p) ==
    /\ e \in lost
    /\ phase' = [phase EXCEPT ![e] = p]
    /\ lost' = lost

Next == \E e \in Executions, p \in Phases :
            Advance(e, p) \/ LoseUpdate(e, p) \/ Wander(e, p)

Spec == Init /\ [][Next]_<<phase, lost>>
=============================================================================

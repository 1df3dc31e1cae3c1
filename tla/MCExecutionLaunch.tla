------------------------- MODULE MCExecutionLaunch -------------------------
(* ExecutionLaunch for TLC: the requests of the runs.                      *)
EXTENDS ExecutionLaunch, TLC

CONSTANTS n1, n2, u1, u2, h1, h2

\* n1 is launched in one of two ways, n2 is a relaunch or a recovery of n1.
MCCreateRequests ==
    {[name |-> n1, entity |-> "LAUNCH_PLAN", args |-> u1],
     [name |-> n1, entity |-> "TASK", args |-> u2]}

MCRelaunches == {[name |-> n2, source |-> n1]}

\* Behaviours are followed until a second launch is asked for under a name.
MCUnambiguous == \A n \in Names : Unambiguous(n)

MCSymmetry == Permutations({h1, h2})
=============================================================================

------------------------- MODULE MCNodeTaskExecution -------------------------
(* A dynamic node with one task attempt, and a node that task has yielded,  *)
(* which launches another execution.                                        *)
EXTENDS NodeTaskExecution, TLC

CONSTANTS dyn, sub, try, h1, h2

MCParentNode == dyn :> None @@ sub :> dyn
MCParentTask == dyn :> None @@ sub :> try
MCTaskNode == try :> dyn

Plain(phase, version, at) ==
    [phase |-> phase, version |-> version, at |-> at, producer |-> None,
     dynamic |-> FALSE, target |-> None, inputs |-> None, outputs |-> None,
     logs |-> <<>>, custom |-> None]
Log(uri, name) == [uri |-> uri, name |-> name]

InputsOf(x) == <<"inputs", x>>
Engines(x) == <<"engine", x>>

\* The dynamic node runs, and its outputs are as large as they may be.
DynamicEvents ==
    <<[Plain("QUEUED", 0, 1) EXCEPT !.inputs = InputsOf(dyn)],
      [Plain("RUNNING", 0, 2) EXCEPT !.dynamic = TRUE, !.producer = "east"],
      [Plain("SUCCEEDED", 0, 3) EXCEPT !.outputs = [data |-> MaxSizeInBytes],
                                       !.target = "catalog"]>>

\* The task fails, having replaced some of its logs.
TaskEvents ==
    <<[Plain("QUEUED", 0, 1) EXCEPT !.logs = <<Log("a", "queued"), Log("b", "")>>],
      [Plain("RUNNING", 1, 2) EXCEPT !.logs = <<Log("a", "user"), Log("c", "")>>,
                                     !.custom = "j" :> 1 @@ "k" :> 1],
      [Plain("RUNNING", 2, 3) EXCEPT !.logs = <<Log("d", "user")>>,
                                     !.custom = "j" :> None @@ "k" :> 2],
      [Plain("FAILED", 0, 4) EXCEPT !.custom = "l" :> 3]>>

\* The node the task has yielded launches another execution.
SubEvents ==
    <<[Plain("RUNNING", 0, 1) EXCEPT !.producer = DefaultProducerID],
      [Plain("SUCCEEDED", 0, 2) EXCEPT !.target = "workflow",
                                       !.outputs = [uri |-> Engines(sub)]]>>

Scenario(dynEvents, taskEvents, subEvents, inline, signed, local) ==
    [events |-> dyn :> dynEvents @@ try :> taskEvents @@ sub :> subEvents,
     cluster |-> "east", inline |-> inline, signed |-> signed, local |-> local,
     stored |-> InputsOf(dyn) :> 1 @@ Engines(sub) :> 1]

\* A task, or a node, that ends with outputs of a size.
Ends(version, size) ==
    <<Plain("RUNNING", version, 2),
      [Plain("SUCCEEDED", 0, 3) EXCEPT !.outputs = [data |-> size]]>>
\* A node of which another cluster reports.
Elsewhere == <<[Plain("QUEUED", 0, 1) EXCEPT !.producer = "west"]>>

MCScenarios ==
    {Scenario(DynamicEvents, <<Head(TaskEvents)>>, SubEvents, FALSE, TRUE, FALSE),
     Scenario(<<Head(DynamicEvents)>>, TaskEvents, SubEvents, FALSE, FALSE, FALSE)}
    \cup {Scenario(Ends(0, size), Ends(1, size), <<>>, inline, signed, local) :
             size \in {MaxSizeInBytes - 1, MaxSizeInBytes + 1},
             inline \in BOOLEAN, signed \in BOOLEAN, local \in BOOLEAN}
    \cup {Scenario(Elsewhere, TaskEvents, <<>>, FALSE, TRUE, TRUE)}

Symmetry == Permutations({h1, h2})
=============================================================================

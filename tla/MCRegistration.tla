---------------------------- MODULE MCRegistration ----------------------------
(***************************************************************************)
(* A task, a workflow that uses it and one that uses its launch plan,      *)
(* three templates of which one is refused, and two requests at a time.    *)
(***************************************************************************)
EXTENDS Registration, TLC

t1 == [name |-> <<"t">>, version |-> 1]
w1 == [name |-> <<"w">>, version |-> 1]
w2 == [name |-> <<"w">>, version |-> 2]

MCTasks == {t1}
MCUserWorkflows == {w1, w2}
MCRequires == (w1 :> {t1}) @@ (w2 :> {})
MCRequiresPlans == (w1 :> {}) @@ (w2 :> {t1})
Symmetry == Permutations(Handlers)

=============================================================================

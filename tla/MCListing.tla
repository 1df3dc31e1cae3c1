------------------------------ MODULE MCListing ------------------------------
(***************************************************************************)
(* Four rows of one project, two of them versions of one name, and one row *)
(* of another project.  Every list request is made with pages of one or    *)
(* two rows, in total and in partial orders, with filters of every kind,   *)
(* and once with a limit of zero.                                          *)
(***************************************************************************)
EXTENDS Listing

MCRows == 1 .. 4

MCAttr ==
    (1 :> [name |-> 1, scope |-> "p", parent |-> None, task |-> None]) @@
    (2 :> [name |-> 1, scope |-> "p", parent |-> 1,    task |-> 9]) @@
    (3 :> [name |-> 2, scope |-> "p", parent |-> 1,    task |-> 9]) @@
    (4 :> [name |-> 3, scope |-> "q", parent |-> None, task |-> None])

MCSubstrings == [n \in 1 .. 3 |-> {n, 1}]

ById == [key |-> "id", direction |-> "ascending"]
ByIdDown == [key |-> "id", direction |-> "descending"]
ByName == [key |-> "name", direction |-> "ascending"]
Sideways == [key |-> "id", direction |-> "sideways"]

Flt(fn, field, values) == [fn |-> fn, field |-> field, values |-> values]

Req(list, filters, sort, limit) ==
    [list |-> list, scope |-> "p", name |-> None, parent |-> None,
     filters |-> filters, sort |-> sort, limit |-> limit]

MCRequests ==
    {Req(l, {}, s, 1) : l \in {"workflows", "executions"}, s \in {ById, ByIdDown, ByName, None, Sideways}}
    \cup {Req(l, {}, ById, 2) : l \in {"tasks", "attempts", "active", "nodes"}}
    \cup {Req("launchPlans", {f}, ById, 1) :
             f \in {Flt("eq", "state", {"ACTIVE"}), Flt("ne", "state", {"ACTIVE"}),
                    Flt("value_in", "name", {1, 2}), Flt("eq", "name", {1, 2}),
                    Flt("contains", "name", {1}), Flt("like", "name", {1}),
                    Flt("gt", "name", {None})}}
    \cup {Req("executions", {Flt(a, "name", {1}), Flt(b, "name", {2})}, ByIdDown, 2) :
             a \in {"gt", "gte"}, b \in {"lt", "lte"}}
    \cup {[Req("tasks", {}, ByIdDown, 1) EXCEPT !.name = 1],
          [Req("nodes", {}, ById, 1) EXCEPT !.parent = 1],
          [Req("nodesOfTask", {}, ById, 1) EXCEPT !.parent = 9]}
    \cup {Req(l, {}, s, 1) : l \in {"workflowIds", "taskIds", "launchPlanIds"}, s \in {ByName, ById, None}}
    \cup {Req(l, fs, ByName, 1) : l \in NamedEntityLists,
             fs \in {{}, {Flt("eq", "state", {"ACTIVE"})}, {Flt("value_in", "state", {"ACTIVE"})}}}
    \cup {Req("projects", fs, s, k) : s \in {None, ByIdDown}, k \in 0 .. 2,
             fs \in {{}, {Flt("eq", "state", {"ARCHIVED"})}}}
    \cup {Req(l, {}, ById, 0) : l \in {"workflows", "launchPlanIds", "nodes"}}

=============================================================================

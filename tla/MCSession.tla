------------------------------ MODULE MCSession ------------------------------
(***************************************************************************)
(* Two users of one browser with two tabs.                                 *)
(***************************************************************************)
EXTENDS Session, TLC

CONSTANTS t1, t2, a, b

\* Two sign-ins, with a call or after a logout; two clients; a client and two
\* sign-ins, one of which asks for a place without a path.
MCPlans ==
    {{Login("x"), Login(None), Api}, {Logout, Login("x"), Api},
     {Authorize("k1"), Authorize("k2")}, {Authorize("k1"), Login("x"), Login("nowhere")}}

\* Tabs and users differ in nothing but their names.
Symmetric == Permutations({t1, t2}) \cup Permutations({a, b})

=============================================================================

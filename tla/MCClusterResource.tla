------------------------- MODULE MCClusterResource -------------------------
(***************************************************************************)
(* Two projects in one domain, one template in two directories, and two    *)
(* clusters.                                                               *)
(***************************************************************************)
EXTENDS ClusterResource

MCProjects == <<"p1", "p2">>
MCDomains == <<"d">>

=============================================================================

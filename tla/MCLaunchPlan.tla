---------------------------- MODULE MCLaunchPlan ----------------------------
(* LaunchPlan for TLC.                                                     *)
EXTENDS LaunchPlan, TLC

CONSTANTS v1, v2, v3, h1, h2

\* v1 and v2, the versions with a schedule, are interchangeable.
MCSymmetry == Permutations({h1, h2}) \cup Permutations({v1, v2})
=============================================================================

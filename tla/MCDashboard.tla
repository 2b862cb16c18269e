------------------------------ MODULE MCDashboard ------------------------------
(***************************************************************************)
(* Instances of Dashboard for TLC.                                         *)
(***************************************************************************)
EXTENDS Dashboard

CONSTANTS c1, c2, c3, s1, s2, u1, u2, v1, v2, r1, r2
==============================================================================

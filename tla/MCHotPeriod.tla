---------------------------- MODULE MCHotPeriod ----------------------------
(* Two leaders.                                                             *)
EXTENDS HotPeriod

CONSTANTS n1, n2

MCNodes == {n1, n2}
=============================================================================

--------------------------- MODULE MCControlPlane ---------------------------
(* Two tenants, one of them on two nodes.                                     *)
EXTENDS ControlPlane

CONSTANTS n1, n2, n3, ta, tb

MCNodes == {n1, n2, n3}
MCTenants == {ta, tb}
MCtenant == [n \in MCNodes |-> IF n = n3 THEN tb ELSE ta]
=============================================================================

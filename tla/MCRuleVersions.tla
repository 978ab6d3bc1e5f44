-------------------------- MODULE MCRuleVersions --------------------------
(***************************************************************************)
(* A small instance of RuleVersions.                                       *)
(***************************************************************************)
EXTENDS RuleVersions

CONSTANTS q1, q2, n1, n2
=============================================================================

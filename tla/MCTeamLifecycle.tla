-------------------------- MODULE MCTeamLifecycle ---------------------------
(* A team of one static member.                                            *)
EXTENDS TeamLifecycle

CONSTANT m1

OneStatic == <<m1>>
=============================================================================

-------------------------- MODULE MCSessionControl --------------------------
EXTENDS SessionControl

CONSTANTS p1

\* Every session is held by the first pod; a second one, if any, holds none.
FirstPod == [s \in Sessions |-> p1]
=============================================================================

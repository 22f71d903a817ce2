---------------------------- MODULE MCControlPlane ----------------------------
(* Every state of the program but two, which repeat what others show, and    *)
(* the artifacts of a round all named or all cleared.                        *)
EXTENDS ControlPlane

MCTarget == KNOWN_STATES \ {"reviewer_2_continue", "cancelled"}

NoArtifacts == [role \in Role |-> 0]

AllArtifacts == [role \in Role |-> 1]

MCPointers == {NoArtifacts, AllArtifacts}
=============================================================================

------------------------ MODULE MCControllerIdentity ------------------------
(* ControllerIdentity for TLC: the configuration gives the constants their    *)
(* values.                                                                    *)
EXTENDS ControllerIdentity

=============================================================================

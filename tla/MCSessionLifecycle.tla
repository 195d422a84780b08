------------------------- MODULE MCSessionLifecycle -------------------------
(* SessionLifecycle on small instances: values of its constants for TLC.   *)
EXTENDS SessionLifecycle

CONSTANTS c1

=============================================================================

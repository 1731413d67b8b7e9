-------------------------- MODULE MCExternalTraffic --------------------------
(* ExternalTraffic instantiated for TLC.                                    *)
EXTENDS ExternalTraffic

CONSTANTS web, canary   \* two workloads behind the same Service

\* The Service has no pod or one.
OneWorkload == {<<>>, <<web>>}

\* The Service selects the pods of two workloads.
TwoWorkloads == {<<web, canary>>}

=============================================================================

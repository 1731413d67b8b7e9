----------------------------- MODULE MCPodLabels -----------------------------
(* PodLabels instantiated for TLC.                                          *)
EXTENDS PodLabels

CONSTANTS pod1, pod2,       \* the client's pods
          server1, server2  \* what it may declare that it calls

=============================================================================

-------------------------- MODULE MCReconcilerGroup --------------------------
(* ReconcilerGroup instantiated for TLC.                                    *)
EXTENDS ReconcilerGroup

CONSTANTS ctrl,       \* the ClientIntents controller's worker
          podwatcher  \* PodWatcher's worker

=============================================================================

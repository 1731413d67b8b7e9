------------------------------ MODULE PodLabels ------------------------------
(***************************************************************************)
(* The labels of one client workload's pods.  Network policies admit a     *)
(* client by the access labels its pods carry, and two controllers write   *)
(* them:                                                                   *)
(*                                                                         *)
(*   PodLabelReconciler, on an event of the client's ClientIntents, labels *)
(*   every pod that already carries the service label, or removes the      *)
(*   labels when the object is being deleted, after which the group drops  *)
(*   its finalizer and the object goes;                                    *)
(*                                                                         *)
(*   PodWatcher, on an event of a pod, adds the service label and the      *)
(*   access labels of the ClientIntents it finds.                          *)
(*                                                                         *)
(* Both read informer caches that lag, hold what they read across calls,   *)
(* and write merge patches that carry no resourceVersion.                  *)
(***************************************************************************)
EXTENDS Naturals

CONSTANTS
    Pods,         \* names of the client's pods
    Targets,      \* what the ClientIntents may declare that it calls
    Kinded,       \* targets whose access label names their kind
    PodsStart,    \* whether pods start while the operator runs
    Edits,        \* whether users edit the ClientIntents
    NamesReused,  \* whether a deleted ClientIntents is created again
    MaxChanges,   \* bound: changes users make
    MaxFaults     \* bound: failed calls and crashes

\* What is assumed of the constants.
ConstantsAssumption ==
    /\ Pods # {}
    /\ Kinded \subseteq Targets
    /\ {PodsStart, Edits, NamesReused} \subseteq BOOLEAN
    /\ MaxChanges \in Nat
    /\ MaxFaults \in Nat

VARIABLES
    ci, ciCache,    \* the ClientIntents, and the informer's view of it
    pod, podCache,  \* the pods, and the informer's view of them
    podEvents,      \* pods with changes the informer has yet to deliver
    queued,         \* the ClientIntents workqueue holds a request
    podQueued,      \* pods that PodWatcher's workqueue holds
    pass,           \* the local state of PodLabelReconciler.Reconcile
    watch,          \* the local state of PodWatcher.Reconcile
    changes, faults

userVars == <<ci, changes>>
cacheVars == <<ciCache, podCache>>
queueVars == <<queued, podQueued>>
podVars == <<pod, podEvents>>
vars == <<userVars, cacheVars, podVars, queueVars, pass, watch, faults>>

Intents == [state : {"none", "live", "deleting"}, targets : SUBSET Targets]

NoIntents == [state |-> "none", targets |-> {}]

PodStates ==
    [exists  : BOOLEAN,
     served  : BOOLEAN,         \* has its service label
     access  : SUBSET Targets,  \* its access labels
     removed : BOOLEAN]         \* AllIntentsRemovedAnnotation

NoPod == [exists |-> FALSE, served |-> FALSE, access |-> {}, removed |-> FALSE]

NewPod == [NoPod EXCEPT !.exists = TRUE]

Passes == [pc   : {"idle", "list", "label", "unlabel"},
           seen : Intents,              \* the ClientIntents as read
           pods : [Pods -> PodStates],  \* the pods as listed
           todo : SUBSET Pods]

PassIdle == [pc |-> "idle", seen |-> NoIntents, pods |-> [p \in Pods |-> NoPod],
             todo |-> {}]

\* PodWatcher handles one pod at a time.
Watches == [pc   : {"idle", "list", "patch"},
            pod  : Pods,
            seen : PodStates,           \* the pod as read
            new  : PodStates]           \* what it is to become

WatchIdle == [pc |-> "idle", pod |-> CHOOSE p \in Pods : TRUE, seen |-> NoPod,
              new |-> NoPod]

TypeOK ==
    /\ ci \in Intents /\ ciCache \in Intents
    /\ pod \in [Pods -> PodStates] /\ podCache \in [Pods -> PodStates]
    /\ podEvents \subseteq Pods
    /\ queued \in BOOLEAN
    /\ podQueued \subseteq Pods
    /\ pass \in Passes
    /\ watch \in Watches
    /\ changes \in 0 .. MaxChanges
    /\ faults \in 0 .. MaxFaults

Fault == faults < MaxFaults /\ faults' = faults + 1

-----------------------------------------------------------------------------
(* Labels.                                                                 *)

\* Mutant: the labels are added to those the pod has.
RelabelledKeepingOld(p, targets) ==
    IF p.access = targets THEN p
    ELSE [p EXCEPT !.access = @ \cup targets, !.removed = FALSE]

\* UpdateOtterizeAccessLabels, where IsMissingOtterizeAccessLabels asks for it.
Relabelled(p, targets) ==
    IF p.access = targets THEN p
    ELSE [p EXCEPT !.access = targets, !.removed = FALSE]

\* removeLabelsFromPods deletes labels by the target's identity without its
\* kind, which is not the label of a target that names one.
Unlabelled(p, targets) ==
    [p EXCEPT !.access = @ \ (targets \ Kinded), !.removed = TRUE]

\* A patch carries the fields in which new differs from the copy it started from.
Patched(stored, base, new) ==
    [stored EXCEPT !.served = IF new.served = base.served THEN @ ELSE new.served,
                   !.removed = IF new.removed = base.removed
                               THEN @ ELSE new.removed,
                   !.access = (@ \ (base.access \ new.access))
                                \cup (new.access \ base.access)]

\* Every write that changes a pod makes an event, also one that restores what
\* the informer has.
Store(p, new) ==
    /\ pod' = [pod EXCEPT ![p] = new]
    /\ podEvents' = IF new = pod[p] THEN podEvents ELSE podEvents \cup {p}

-----------------------------------------------------------------------------
(* PodLabelReconciler.Reconcile                                            *)

EndPass(retry) ==
    /\ pass' = PassIdle
    /\ queued' = (queued \/ retry)

GetIntents ==
    /\ pass.pc = "idle"
    /\ queued
    /\ queued' = FALSE
    /\ pass' = IF ciCache.state = "none" THEN pass
               ELSE [pass EXCEPT !.pc = "list", !.seen = ciCache]
    /\ UNCHANGED <<userVars, cacheVars, podVars, podQueued, watch, faults>>

\* ResolveServiceIdentityToPodSlice: the pods that carry the service label.
ListPods ==
    /\ pass.pc = "list"
    /\ pass' = [pass EXCEPT
                  !.pc = IF pass.seen.state = "live" THEN "label" ELSE "unlabel",
                  !.pods = podCache,
                  !.todo = {p \in Pods : podCache[p].served}]
    /\ UNCHANGED <<userVars, cacheVars, podVars, queueVars, watch, faults>>

\* Patch the next pod into new; when it is gone the pass ends and is retried.
PassPatch(p, new) ==
    \/ /\ pod[p].exists
       /\ Store(p, Patched(pod[p], pass.pods[p], new))
       /\ pass' = [pass EXCEPT !.todo = @ \ {p}]
       /\ queued' = queued
    \/ /\ ~pod[p].exists
       /\ EndPass(TRUE)
       /\ UNCHANGED podVars

LabelPod ==
    /\ pass.pc = "label"
    /\ \E p \in pass.todo :
         LET old == pass.pods[p]
             new == Relabelled(old, pass.seen.targets) IN
         \/ new # old /\ PassPatch(p, new)
         \/ /\ new = old
            /\ pass' = [pass EXCEPT !.todo = @ \ {p}]
            /\ UNCHANGED <<podVars, queued>>
    /\ UNCHANGED <<userVars, cacheVars, podQueued, watch, faults>>

UnlabelPod ==
    /\ pass.pc = "unlabel"
    /\ \E p \in pass.todo :
         PassPatch(p, Unlabelled(pass.pods[p], pass.seen.targets))
    /\ UNCHANGED <<userVars, cacheVars, podQueued, watch, faults>>

LabelsDone ==
    /\ pass.pc = "label"
    /\ pass.todo = {}
    /\ EndPass(FALSE)
    /\ UNCHANGED <<userVars, cacheVars, podVars, podQueued, watch, faults>>

\* The pass over a deleted object went through: the group drops its finalizer.
LabelsRemoved ==
    /\ pass.pc = "unlabel"
    /\ pass.todo = {}
    /\ ci' = IF ci.state = "deleting" THEN NoIntents ELSE ci
    /\ EndPass(FALSE)
    /\ UNCHANGED <<changes, cacheVars, podVars, podQueued, watch, faults>>

\* A List or a Patch fails (or is forbidden): an error or Requeue, so a retry.
PassFault ==
    /\ pass.pc # "idle"
    /\ Fault
    /\ EndPass(TRUE)
    /\ UNCHANGED <<userVars, cacheVars, podVars, podQueued, watch>>

-----------------------------------------------------------------------------
(* PodWatcher.Reconcile: addOtterizePodLabels                              *)

EndWatch(retry) ==
    /\ watch' = WatchIdle
    /\ podQueued' = IF retry THEN podQueued \cup {watch.pod} ELSE podQueued

\* A pod whose labels PodLabelReconciler removed is left to it.
GetPod ==
    /\ watch.pc = "idle"
    /\ \E p \in podQueued :
         /\ podQueued' = podQueued \ {p}
         /\ watch' = IF ~podCache[p].exists \/ podCache[p].removed THEN watch
                     ELSE [watch EXCEPT !.pc = "list", !.pod = p,
                                        !.seen = podCache[p]]
    /\ UNCHANGED <<userVars, cacheVars, podVars, queued, pass, faults>>

\* Mutant: a pod that has its service label is taken to be done.
ListIntentsForNewPods ==
    /\ watch.pc = "list"
    /\ LET new == IF watch.seen.served \/ ciCache.state = "none"
                  THEN [watch.seen EXCEPT !.served = TRUE]
                  ELSE Relabelled([watch.seen EXCEPT !.served = TRUE],
                                  ciCache.targets) IN
       IF new = watch.seen THEN EndWatch(FALSE)
       ELSE /\ watch' = [watch EXCEPT !.pc = "patch", !.new = new]
            /\ UNCHANGED podQueued
    /\ UNCHANGED <<userVars, cacheVars, podVars, queued, pass, faults>>

\* ClientIntents that are being deleted count; without any the access labels
\* stay as they are.
ListIntents ==
    /\ watch.pc = "list"
    /\ LET served == [watch.seen EXCEPT !.served = TRUE]
           new == IF ciCache.state = "none" THEN served
                  ELSE Relabelled(served, ciCache.targets) IN
       IF new = watch.seen THEN EndWatch(FALSE)
       ELSE /\ watch' = [watch EXCEPT !.pc = "patch", !.new = new]
            /\ UNCHANGED podQueued
    /\ UNCHANGED <<userVars, cacheVars, podVars, queued, pass, faults>>

\* handleUpdateFailure gives a failed patch up when the cache no longer has the
\* pod, else the request is retried.
PatchPod ==
    /\ watch.pc = "patch"
    /\ LET p == watch.pod IN
       \/ /\ pod[p].exists
          /\ Store(p, Patched(pod[p], watch.seen, watch.new))
          /\ EndWatch(FALSE)
       \/ /\ ~pod[p].exists
          /\ EndWatch(podCache[p].exists)
          /\ UNCHANGED podVars
    /\ UNCHANGED <<userVars, cacheVars, queued, pass, faults>>

WatchFault ==
    /\ watch.pc # "idle"
    /\ Fault
    /\ EndWatch(TRUE)
    /\ UNCHANGED <<userVars, cacheVars, podVars, queued, pass>>

-----------------------------------------------------------------------------
(* Users, workloads, informers and the process.                            *)

Change == changes < MaxChanges /\ changes' = changes + 1

Declare ==
    /\ Change
    /\ \/ ci.state = "live" /\ Edits
       \/ ci.state = "none" /\ NamesReused
    /\ \E targets \in SUBSET Targets :
         /\ targets # ci.targets
         /\ ci' = [state |-> "live", targets |-> targets]
    /\ UNCHANGED <<cacheVars, podVars, queueVars, pass, watch, faults>>

\* The group's finalizer holds the object.
Delete ==
    /\ Change
    /\ ci.state = "live"
    /\ ci' = [ci EXCEPT !.state = "deleting"]
    /\ UNCHANGED <<cacheVars, podVars, queueVars, pass, watch, faults>>

StartPod ==
    /\ PodsStart
    /\ Change
    /\ \E p \in Pods : ~pod[p].exists /\ Store(p, NewPod)
    /\ UNCHANGED <<ci, cacheVars, queueVars, pass, watch, faults>>

StopPod ==
    /\ Change
    /\ \E p \in Pods : pod[p].exists /\ Store(p, NoPod)
    /\ UNCHANGED <<ci, cacheVars, queueVars, pass, watch, faults>>

SyncIntents ==
    /\ ciCache # ci
    /\ ciCache' = ci
    /\ queued' = TRUE
    /\ UNCHANGED <<userVars, podCache, podVars, podQueued, pass, watch, faults>>

\* A pod event reaches PodWatcher; nothing else reacts to it here.
SyncPod(p) ==
    /\ p \in podEvents
    /\ podEvents' = podEvents \ {p}
    /\ podCache' = [podCache EXCEPT ![p] = pod[p]]
    /\ podQueued' = podQueued \cup {p}
    /\ UNCHANGED <<userVars, ciCache, pod, queued, pass, watch, faults>>

Crash ==
    /\ Fault
    /\ ciCache' = ci /\ podCache' = pod
    /\ queued' = TRUE /\ podQueued' = Pods
    /\ podEvents' = {}
    /\ pass' = PassIdle /\ watch' = WatchIdle
    /\ UNCHANGED <<userVars, pod>>

-----------------------------------------------------------------------------
\* The operator starts on a cluster with the ClientIntents of the client, and
\* with its pods labelled accordingly or not at all.
Init ==
    /\ ci \in [state : {"live"}, targets : SUBSET Targets]
    /\ \/ pod = [p \in Pods |-> [NewPod EXCEPT !.served = TRUE,
                                               !.access = ci.targets]]
       \/ PodsStart /\ pod = [p \in Pods |-> NewPod]
    /\ ciCache = ci /\ podCache = pod /\ podEvents = {}
    /\ queued = TRUE /\ podQueued = Pods
    /\ pass = PassIdle /\ watch = WatchIdle
    /\ changes = 0 /\ faults = 0

PassStep ==
    GetIntents \/ ListPods \/ LabelPod \/ UnlabelPod \/ LabelsDone \/ LabelsRemoved

WatchStep == GetPod \/ ListIntents \/ PatchPod

Environment ==
    \/ Declare \/ Delete \/ StartPod \/ StopPod \/ Crash
    \/ SyncIntents \/ \E p \in Pods : SyncPod(p)

Next == PassStep \/ PassFault \/ WatchStep \/ WatchFault \/ Environment

Spec == Init /\ [][Next]_vars

\* Both controllers keep running and the informers keep up; each queued pod is
\* handled in the end, since the workqueue is first-in first-out.
FairSpec ==
    /\ Spec
    /\ WF_vars(PassStep)
    /\ WF_vars(WatchStep)
    /\ WF_vars(SyncIntents)
    /\ \A p \in Pods :
         /\ WF_vars(SyncPod(p))
         /\ SF_vars(GetPod /\ p \in podQueued /\ p \notin podQueued')

-----------------------------------------------------------------------------
(* Properties.                                                             *)

AtRest ==
    /\ ciCache = ci /\ podEvents = {}
    /\ ~queued /\ podQueued = {}
    /\ pass = PassIdle /\ watch = WatchIdle

Labelled(p) == pod[p].served /\ pod[p].access = ci.targets

\* Once both controllers have nothing left to do, every pod of a client whose
\* ClientIntents were never deleted has exactly the access labels they declare,
\* whichever of the two wrote last and however stale what it had read.
LiveLabelsMatch ==
    AtRest /\ ci.state = "live" => \A p \in Pods : pod[p].exists => Labelled(p)

\* Once both controllers have nothing left to do, no pod keeps an access label
\* of deleted ClientIntents (removeLabelsFromPods: "Remove the access label for
\* each intent, for every pod in the list").
RemovedWithIntents ==
    AtRest /\ ci.state = "none" => \A p \in Pods : pod[p].access = {}

\* When users and faults stop, deleted ClientIntents go, and the pods of live
\* ones come to have their labels and keep them.
LabelsServed ==
    /\ ci.state # "deleting"
    /\ ci.state = "live" => \A p \in Pods : pod[p].exists => Labelled(p)

Converges == <>[]LabelsServed

=============================================================================

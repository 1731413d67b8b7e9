---------------------------- MODULE Agents_proofs ----------------------------
(***************************************************************************)
(* Theorems about the parts of MCAgents, for every value of its constants. *)
(***************************************************************************)
EXTENDS MCAgents, TLAPS

-----------------------------------------------------------------------------
(* PodLabels: types.                                                       *)

\* The initial records are well typed.
LEMMA NoLabelsType ==
    /\ Labels!NoPod \in Labels!PodStates /\ Labels!NewPod \in Labels!PodStates
    /\ Labels!NoIntents \in Labels!Intents
    /\ Labels!PassIdle \in Labels!Passes
    /\ Labels!WatchIdle \in Labels!Watches
  <1>1. /\ Labels!NoPod \in Labels!PodStates /\ Labels!NewPod \in Labels!PodStates
        /\ Labels!NoIntents \in Labels!Intents
    BY DEF Labels!NoPod, Labels!NewPod, Labels!PodStates, Labels!NoIntents, Labels!Intents
  <1>2. Labels!PassIdle \in Labels!Passes
    BY <1>1 DEF Labels!PassIdle, Labels!Passes
  <1>3. (CHOOSE p \in Pods : TRUE) \in Pods
    BY ConstantsAssumption DEF Labels!ConstantsAssumption
  <1>4. Labels!WatchIdle \in Labels!Watches
    BY <1>1, <1>3 DEF Labels!WatchIdle, Labels!Watches
  <1> QED BY <1>1, <1>2, <1>4

\* What the operators on labels return.
LEMMA RelabelledFields ==
    ASSUME NEW p \in Labels!PodStates, NEW T \in SUBSET Targets
    PROVE  LET new == Labels!Relabelled(p, T) IN
           /\ new \in Labels!PodStates
           /\ new.exists = p.exists /\ new.served = p.served /\ new.access = T
           /\ ~p.removed => ~new.removed
  BY DEF Labels!Relabelled, Labels!PodStates

LEMMA UnlabelledType ==
    ASSUME NEW p \in Labels!PodStates, NEW T \in SUBSET Targets
    PROVE  Labels!Unlabelled(p, T) \in Labels!PodStates
  BY DEF Labels!Unlabelled, Labels!PodStates

LEMMA ServedType ==
    ASSUME NEW p \in Labels!PodStates
    PROVE  LET new == [p EXCEPT !.served = TRUE] IN
           /\ new \in Labels!PodStates
           /\ new.exists = p.exists /\ new.served /\ new.access = p.access
           /\ new.removed = p.removed
  BY DEF Labels!PodStates

LEMMA PatchedFields ==
    ASSUME NEW stored \in Labels!PodStates, NEW base \in Labels!PodStates,
           NEW new \in Labels!PodStates
    PROVE  LET p == Labels!Patched(stored, base, new) IN
           /\ p \in Labels!PodStates
           /\ p.exists = stored.exists
           /\ p.served = IF new.served = base.served THEN stored.served ELSE new.served
           /\ p.removed = IF new.removed = base.removed THEN stored.removed ELSE new.removed
           /\ p.access = (stored.access \ (base.access \ new.access))
                           \cup (new.access \ base.access)
  BY DEF Labels!Patched, Labels!PodStates

\* A write of one pod, and the event it makes.
LEMMA StoreType ==
    ASSUME Labels!TypeOK, NEW p \in Pods, NEW new \in Labels!PodStates, Labels!Store(p, new)
    PROVE  pod' \in [Pods -> Labels!PodStates] /\ podEvents' \subseteq Pods
  BY DEF Labels!TypeOK, Labels!Store

\* The end of a pass and of a call of PodWatcher.
LEMMA EndPassType ==
    ASSUME Labels!TypeOK, NEW retry \in BOOLEAN, Labels!EndPass(retry)
    PROVE  pass' \in Labels!Passes /\ queued' \in BOOLEAN
  BY NoLabelsType DEF Labels!TypeOK, Labels!EndPass

LEMMA EndWatchType ==
    ASSUME Labels!TypeOK, NEW retry \in BOOLEAN, Labels!EndWatch(retry)
    PROVE  watch' \in Labels!Watches /\ podQueued' \subseteq Pods
  <1>1. watch.pod \in Pods
    BY DEF Labels!TypeOK, Labels!Watches
  <1> QED BY <1>1, NoLabelsType DEF Labels!TypeOK, Labels!EndWatch

\* A failed call or a change keeps within its bound.
LEMMA CountersType ==
    ASSUME Labels!TypeOK
    PROVE  /\ Labels!Fault => faults' \in 0 .. MaxFaults
           /\ Labels!Change => changes' \in 0 .. MaxChanges.labels
  <1>1. Labels!Fault => faults' \in 0 .. MaxFaults
    BY ConstantsAssumption DEF Labels!TypeOK, Labels!Fault, Labels!ConstantsAssumption
  <1>2. Labels!Change => changes' \in 0 .. MaxChanges.labels
    BY ConstantsAssumption DEF Labels!TypeOK, Labels!Change, Labels!ConstantsAssumption
  <1> QED BY <1>1, <1>2

\* The steps of PodLabelReconciler keep the types.
LEMMA PassTypes ==
    ASSUME Labels!TypeOK, Labels!PassStep \/ Labels!PassFault
    PROVE  Labels!TypeOK'
  <1> USE DEF Labels!userVars, Labels!cacheVars, Labels!queueVars, Labels!podVars
  <1>1. CASE Labels!GetIntents
    BY <1>1 DEF Labels!GetIntents, Labels!TypeOK, Labels!Passes
  <1>2. CASE Labels!ListPods
    <2>1. pass' \in Labels!Passes
      BY <1>2 DEF Labels!ListPods, Labels!TypeOK, Labels!Passes
    <2> QED BY <1>2, <2>1 DEF Labels!ListPods, Labels!TypeOK
  <1>3. ASSUME NEW p \in Pods, NEW new \in Labels!PodStates, Labels!PassPatch(p, new)
        PROVE  /\ pass' \in Labels!Passes /\ queued' \in BOOLEAN
               /\ pod' \in [Pods -> Labels!PodStates] /\ podEvents' \subseteq Pods
    <2>1. pod[p] \in Labels!PodStates /\ pass.pods[p] \in Labels!PodStates
      BY DEF Labels!TypeOK, Labels!Passes
    <2>2. CASE pod[p].exists
      <3>1. Labels!Patched(pod[p], pass.pods[p], new) \in Labels!PodStates
        BY <2>1, PatchedFields
      <3>2. pod' \in [Pods -> Labels!PodStates] /\ podEvents' \subseteq Pods
        BY <1>3, <2>2, <3>1, StoreType DEF Labels!PassPatch
      <3>3. pass' \in Labels!Passes /\ queued' \in BOOLEAN
        BY <1>3, <2>2 DEF Labels!PassPatch, Labels!TypeOK, Labels!Passes
      <3> QED BY <3>2, <3>3
    <2>3. CASE ~pod[p].exists
      <3>1. Labels!EndPass(TRUE) /\ UNCHANGED <<pod, podEvents>>
        BY <1>3, <2>3 DEF Labels!PassPatch
      <3> QED BY <3>1, EndPassType DEF Labels!TypeOK
    <2> QED BY <2>2, <2>3
  <1>4. /\ pass.seen.targets \in SUBSET Targets
        /\ \A p \in pass.todo : p \in Pods /\ pass.pods[p] \in Labels!PodStates
    BY DEF Labels!TypeOK, Labels!Passes, Labels!Intents
  <1>5. CASE Labels!LabelPod
    <2>1. PICK p \in pass.todo :
            LET old == pass.pods[p]
                new == Labels!Relabelled(old, pass.seen.targets) IN
            \/ new # old /\ Labels!PassPatch(p, new)
            \/ /\ new = old
               /\ pass' = [pass EXCEPT !.todo = @ \ {p}]
               /\ UNCHANGED <<pod, podEvents, queued>>
      BY <1>5 DEF Labels!LabelPod
    <2>2. Labels!Relabelled(pass.pods[p], pass.seen.targets) \in Labels!PodStates
      BY <1>4, RelabelledFields
    <2>3. /\ pass' \in Labels!Passes /\ queued' \in BOOLEAN
          /\ pod' \in [Pods -> Labels!PodStates] /\ podEvents' \subseteq Pods
      <3>1. CASE Labels!PassPatch(p, Labels!Relabelled(pass.pods[p], pass.seen.targets))
        BY <1>3, <1>4, <2>2, <3>1
      <3>2. CASE /\ pass' = [pass EXCEPT !.todo = @ \ {p}]
                 /\ UNCHANGED <<pod, podEvents, queued>>
        BY <3>2 DEF Labels!TypeOK, Labels!Passes
      <3> QED BY <2>1, <3>1, <3>2
    <2> QED BY <1>5, <2>3 DEF Labels!LabelPod, Labels!TypeOK
  <1>6. CASE Labels!UnlabelPod
    <2>1. PICK p \in pass.todo :
            Labels!PassPatch(p, Labels!Unlabelled(pass.pods[p], pass.seen.targets))
      BY <1>6 DEF Labels!UnlabelPod
    <2>2. Labels!Unlabelled(pass.pods[p], pass.seen.targets) \in Labels!PodStates
      BY <1>4, UnlabelledType
    <2>3. /\ pass' \in Labels!Passes /\ queued' \in BOOLEAN
          /\ pod' \in [Pods -> Labels!PodStates] /\ podEvents' \subseteq Pods
      BY <1>3, <1>4, <2>1, <2>2
    <2> QED BY <1>6, <2>3 DEF Labels!UnlabelPod, Labels!TypeOK
  <1>7. CASE Labels!LabelsDone
    <2>1. pass' \in Labels!Passes /\ queued' \in BOOLEAN
      BY <1>7, EndPassType DEF Labels!LabelsDone
    <2> QED BY <1>7, <2>1 DEF Labels!LabelsDone, Labels!TypeOK
  <1>8. CASE Labels!LabelsRemoved
    <2>1. pass' \in Labels!Passes /\ queued' \in BOOLEAN
      BY <1>8, EndPassType DEF Labels!LabelsRemoved
    <2>2. intents' \in Labels!Intents
      BY <1>8, NoLabelsType DEF Labels!LabelsRemoved, Labels!TypeOK
    <2> QED BY <1>8, <2>1, <2>2 DEF Labels!LabelsRemoved, Labels!TypeOK
  <1>9. CASE Labels!PassFault
    <2>1. pass' \in Labels!Passes /\ queued' \in BOOLEAN
      BY <1>9, EndPassType DEF Labels!PassFault
    <2> QED BY <1>9, <2>1, CountersType DEF Labels!PassFault, Labels!TypeOK
  <1> QED
    BY <1>1, <1>2, <1>5, <1>6, <1>7, <1>8, <1>9 DEF Labels!PassStep

\* So do those of PodWatcher.
LEMMA WatchTypes ==
    ASSUME Labels!TypeOK, Labels!WatchStep \/ Labels!WatchFault
    PROVE  Labels!TypeOK'
  <1> USE DEF Labels!userVars, Labels!cacheVars, Labels!queueVars, Labels!podVars
  <1>1. CASE Labels!GetPod
    <2>1. watch' \in Labels!Watches
      BY <1>1 DEF Labels!GetPod, Labels!TypeOK, Labels!Watches
    <2> QED BY <1>1, <2>1 DEF Labels!GetPod, Labels!TypeOK
  <1>2. watch.seen \in Labels!PodStates /\ watch.new \in Labels!PodStates /\ watch.pod \in Pods
    BY DEF Labels!TypeOK, Labels!Watches
  <1>3. CASE Labels!ListIntents
    <2> DEFINE served == [watch.seen EXCEPT !.served = TRUE]
               new == IF intentsCache.state = "none" THEN served
                      ELSE Labels!Relabelled(served, intentsCache.targets)
    <2>1. new \in Labels!PodStates
      <3>1. served \in Labels!PodStates /\ intentsCache.targets \in SUBSET Targets
        BY <1>2, ServedType DEF Labels!TypeOK, Labels!Intents
      <3> HIDE DEF served
      <3> QED BY <3>1, RelabelledFields
    <2>2. CASE new = watch.seen
      <3>1. watch' \in Labels!Watches /\ podQueued' \subseteq Pods
        BY <1>3, <2>2, EndWatchType DEF Labels!ListIntents
      <3> QED BY <1>3, <3>1 DEF Labels!ListIntents, Labels!TypeOK
    <2>3. CASE new # watch.seen
      <3>1. watch' = [watch EXCEPT !.pc = "patch", !.new = new] /\ podQueued' = podQueued
        BY <1>3, <2>3 DEF Labels!ListIntents
      <3> HIDE DEF new
      <3>2. watch' \in Labels!Watches
        BY <2>1, <3>1 DEF Labels!TypeOK, Labels!Watches
      <3> QED BY <1>3, <3>1, <3>2 DEF Labels!ListIntents, Labels!TypeOK
    <2> QED BY <2>2, <2>3
  <1>4. CASE Labels!PatchPod
    <2>1. watch' \in Labels!Watches /\ podQueued' \subseteq Pods
      <3>1. podCache[watch.pod].exists \in BOOLEAN
        BY <1>2 DEF Labels!TypeOK, Labels!PodStates
      <3> QED BY <1>4, <3>1, EndWatchType DEF Labels!PatchPod
    <2>2. pod' \in [Pods -> Labels!PodStates] /\ podEvents' \subseteq Pods
      <3>1. Labels!Patched(pod[watch.pod], watch.seen, watch.new) \in Labels!PodStates
        BY <1>2, PatchedFields DEF Labels!TypeOK
      <3>2. CASE Labels!Store(watch.pod, Labels!Patched(pod[watch.pod], watch.seen, watch.new))
        BY <1>2, <3>1, <3>2, StoreType
      <3>3. CASE UNCHANGED <<pod, podEvents>>
        BY <3>3 DEF Labels!TypeOK
      <3> QED BY <1>4, <3>2, <3>3 DEF Labels!PatchPod
    <2> QED BY <1>4, <2>1, <2>2 DEF Labels!PatchPod, Labels!TypeOK
  <1>5. CASE Labels!WatchFault
    <2>1. watch' \in Labels!Watches /\ podQueued' \subseteq Pods
      BY <1>5, EndWatchType DEF Labels!WatchFault
    <2> QED BY <1>5, <2>1, CountersType DEF Labels!WatchFault, Labels!TypeOK
  <1> QED BY <1>1, <1>3, <1>4, <1>5 DEF Labels!WatchStep

\* So do users, workloads, informers and crashes.
LEMMA AroundTypes ==
    ASSUME Labels!TypeOK, Labels!Environment
    PROVE  Labels!TypeOK'
  <1> USE DEF Labels!userVars, Labels!cacheVars, Labels!queueVars, Labels!podVars
  <1>1. CASE Labels!Declare
    BY <1>1, CountersType DEF Labels!Declare, Labels!TypeOK, Labels!Intents
  <1>2. CASE Labels!Delete
    BY <1>2, CountersType DEF Labels!Delete, Labels!TypeOK, Labels!Intents
  <1>3. CASE Labels!StartPod
    <2>1. pod' \in [Pods -> Labels!PodStates] /\ podEvents' \subseteq Pods
      BY <1>3, NoLabelsType, StoreType DEF Labels!StartPod
    <2> QED BY <1>3, <2>1, CountersType DEF Labels!StartPod, Labels!TypeOK
  <1>4. CASE Labels!StopPod
    <2>1. pod' \in [Pods -> Labels!PodStates] /\ podEvents' \subseteq Pods
      BY <1>4, NoLabelsType, StoreType DEF Labels!StopPod
    <2> QED BY <1>4, <2>1, CountersType DEF Labels!StopPod, Labels!TypeOK
  <1>5. CASE Labels!Crash
    BY <1>5, NoLabelsType, CountersType DEF Labels!Crash, Labels!TypeOK
  <1>6. CASE Labels!SyncIntents
    BY <1>6 DEF Labels!SyncIntents, Labels!TypeOK
  <1>7. ASSUME NEW p \in Pods, Labels!SyncPod(p) PROVE Labels!TypeOK'
    BY <1>7 DEF Labels!SyncPod, Labels!TypeOK
  <1> QED
    BY <1>1, <1>2, <1>3, <1>4, <1>5, <1>6, <1>7 DEF Labels!Environment

\* The states of PodLabels are well typed.
LEMMA LabelsTypeInvariant == Labels!Spec => []Labels!TypeOK
  <1>1. Labels!Init => Labels!TypeOK
    <2> SUFFICES ASSUME Labels!Init PROVE Labels!TypeOK
      OBVIOUS
    <2>1. intents \in Labels!Intents
      BY DEF Labels!Init, Labels!Intents
    <2>2. pod \in [Pods -> Labels!PodStates]
      <3>1. intents.targets \in SUBSET Targets
        BY <2>1 DEF Labels!Intents
      <3> QED BY <3>1 DEF Labels!Init, Labels!NewPod, Labels!NoPod, Labels!PodStates
    <2>3. 0 \in 0 .. MaxChanges.labels /\ 0 \in 0 .. MaxFaults
      BY ConstantsAssumption DEF Labels!ConstantsAssumption
    <2> QED BY <2>1, <2>2, <2>3, NoLabelsType DEF Labels!Init, Labels!TypeOK
  <1>2. Labels!TypeOK /\ [Labels!Next]_Labels!vars => Labels!TypeOK'
    <2>1. ASSUME Labels!TypeOK, UNCHANGED Labels!vars PROVE Labels!TypeOK'
      BY <2>1 DEF Labels!vars, Labels!userVars, Labels!cacheVars, Labels!podVars,
                  Labels!queueVars, Labels!TypeOK
    <2> QED BY <2>1, PassTypes, WatchTypes, AroundTypes DEF Labels!Next
  <1> QED BY <1>1, <1>2, PTL DEF Labels!Spec

-----------------------------------------------------------------------------
(* LiveLabelsMatch.  A pod that PodWatcher neither has in its queue nor is *)
(* going to hear of has not changed since PodWatcher looked at it.  If it  *)
(* is not looking at it now, it left the pod with the labels of the intents *)
(* it had found, so that only later intents can make them wrong; but these *)
(* queue a pass, which lists the pod as it is and patches it, and a patch  *)
(* that changes the pod is an event for PodWatcher.  One that PodWatcher   *)
(* makes with intents that have become old is an event for it as well.     *)

Handled(p) == watch.pc # "idle" /\ watch.pod = p

\* What is still wrong with the labels of the pod p is left to a pass.
PassLabels(p) ==
    /\ pod[p].served
    /\ \/ pod[p].access = intentsCache.targets
       \/ queued
       \/ pass.pc = "list"
       \/ pass.pc = "label" /\ p \in pass.todo /\ pass.pods[p].access = pod[p].access

PodsKnown == \A p \in Pods \ podEvents : podCache[p] = pod[p]

\* Until the ClientIntents are deleted no pass is for a deleted object, and none
\* that is not going to be repeated is for other intents than the informer has.
RunsLive ==
    /\ intentsCache.state = "live"
    /\ pass.pc # "idle" =>
         /\ pass.pc \in {"list", "label"} /\ pass.seen.state = "live"
         /\ queued \/ pass.seen = intentsCache
    /\ watch.pc = "patch" => watch.new # watch.seen /\ watch.new.exists = watch.seen.exists

NeverRemoved ==
    /\ \A p \in Pods : ~pod[p].removed /\ ~podCache[p].removed /\ ~pass.pods[p].removed
    /\ ~watch.seen.removed /\ ~watch.new.removed

LookedAfter(p) ==
    p \notin podEvents /\ p \notin podQueued =>
        IF Handled(p) THEN watch.seen = pod[p] ELSE pod[p].exists => PassLabels(p)

LabelsInv ==
    /\ PodsKnown
    /\ intents.state = "live" => RunsLive /\ NeverRemoved /\ \A p \in Pods : LookedAfter(p)

\* A write that is no event has changed nothing; the others leave the other pods.
LEMMA StoreKnown ==
    ASSUME Labels!TypeOK, NEW q \in Pods, NEW new, Labels!Store(q, new)
    PROVE  /\ podEvents \subseteq podEvents'
           /\ \A p \in Pods \ podEvents' : pod'[p] = pod[p]
           /\ \A p \in Pods : p # q => pod'[p] = pod[p]
           /\ pod'[q] = new
           /\ q \notin podEvents' => new = pod[q]
  BY DEF Labels!TypeOK, Labels!Store

\* The steps of PodLabelReconciler keep the invariant.
LEMMA PassLabelsStep ==
    ASSUME ~NamesReused, Labels!TypeOK, LabelsInv, Labels!PassStep \/ Labels!PassFault
    PROVE  LabelsInv'
  <1> USE DEF Labels!userVars, Labels!cacheVars, Labels!queueVars, Labels!podVars
  <1>1. UNCHANGED <<intentsCache, podCache, podQueued, watch>>
    BY DEF Labels!PassStep, Labels!GetIntents, Labels!ListPods, Labels!LabelPod,
           Labels!UnlabelPod, Labels!LabelsDone, Labels!LabelsRemoved, Labels!PassFault
  \* What a patch by the pass does to the pods.
  <1>2. ASSUME NEW q \in pass.todo, NEW new \in Labels!PodStates, Labels!PassPatch(q, new)
        PROVE  /\ podEvents \subseteq podEvents'
               /\ \A p \in Pods \ podEvents' : pod'[p] = pod[p]
               /\ \A p \in Pods : p # q => pod'[p] = pod[p]
               /\ q \in Pods /\ pod[q] \in Labels!PodStates /\ pass.pods[q] \in Labels!PodStates
               /\ \/ pod'[q] = Labels!Patched(pod[q], pass.pods[q], new)
                     /\ pass' = [pass EXCEPT !.todo = @ \ {q}] /\ queued' = queued
                  \/ pod' = pod /\ pass' = Labels!PassIdle /\ queued'
    <2>1. q \in Pods /\ pod[q] \in Labels!PodStates /\ pass.pods[q] \in Labels!PodStates
      BY DEF Labels!TypeOK, Labels!Passes
    <2>2. CASE pod[q].exists
      <3>1. /\ Labels!Store(q, Labels!Patched(pod[q], pass.pods[q], new))
            /\ pass' = [pass EXCEPT !.todo = @ \ {q}] /\ queued' = queued
        BY <1>2, <2>2 DEF Labels!PassPatch
      <3> QED BY <2>1, <3>1, StoreKnown
    <2>3. CASE ~pod[q].exists
      <3>1. UNCHANGED <<pod, podEvents>> /\ pass' = Labels!PassIdle /\ queued'
        BY <1>2, <2>3 DEF Labels!PassPatch, Labels!EndPass
      <3> QED BY <2>1, <3>1
    <2> QED BY <2>2, <2>3
  <1>3. /\ podEvents \subseteq podEvents'
        /\ \A p \in Pods \ podEvents' : pod'[p] = pod[p]
    <2>1. CASE Labels!LabelPod
      <3>1. PICK q \in pass.todo :
              \/ Labels!PassPatch(q, Labels!Relabelled(pass.pods[q], pass.seen.targets))
              \/ UNCHANGED <<pod, podEvents>>
        BY <2>1 DEF Labels!LabelPod
      <3>2. Labels!Relabelled(pass.pods[q], pass.seen.targets) \in Labels!PodStates
        <4>1. pass.pods[q] \in Labels!PodStates /\ pass.seen.targets \in SUBSET Targets
          BY DEF Labels!TypeOK, Labels!Passes, Labels!Intents
        <4> QED BY <4>1, RelabelledFields
      <3> QED BY <1>2, <3>1, <3>2
    <2>2. CASE Labels!UnlabelPod
      <3>1. PICK q \in pass.todo :
              Labels!PassPatch(q, Labels!Unlabelled(pass.pods[q], pass.seen.targets))
        BY <2>2 DEF Labels!UnlabelPod
      <3>2. Labels!Unlabelled(pass.pods[q], pass.seen.targets) \in Labels!PodStates
        <4>1. pass.pods[q] \in Labels!PodStates /\ pass.seen.targets \in SUBSET Targets
          BY DEF Labels!TypeOK, Labels!Passes, Labels!Intents
        <4> QED BY <4>1, UnlabelledType
      <3> QED BY <1>2, <3>1, <3>2
    <2>3. CASE ~Labels!LabelPod /\ ~Labels!UnlabelPod
      BY <2>3 DEF Labels!PassStep, Labels!GetIntents, Labels!ListPods, Labels!LabelsDone,
                  Labels!LabelsRemoved, Labels!PassFault
    <2> QED BY <2>1, <2>2, <2>3
  <1>4. PodsKnown'
    BY <1>1, <1>3 DEF LabelsInv, PodsKnown
  <1>5. ASSUME intents'.state = "live"
        PROVE  RunsLive' /\ NeverRemoved' /\ \A p \in Pods : LookedAfter(p)'
    <2>1. intents.state = "live"
      <3>1. CASE Labels!LabelsRemoved
        BY <1>5, <3>1 DEF Labels!LabelsRemoved, Labels!NoIntents
      <3>2. CASE ~Labels!LabelsRemoved
        <4>1. UNCHANGED intents
          BY <3>2 DEF Labels!PassStep, Labels!GetIntents, Labels!ListPods, Labels!LabelPod,
                      Labels!UnlabelPod, Labels!LabelsDone, Labels!PassFault
        <4> QED BY <1>5, <4>1
      <3> QED BY <3>1, <3>2
    <2>2. RunsLive /\ NeverRemoved /\ \A p \in Pods : LookedAfter(p)
      BY <2>1 DEF LabelsInv
    \* It is enough that the pass does not lose what it has to do.
    <2>3. ASSUME RunsLive',
                 \A p \in Pods : ~pod'[p].removed /\ ~pass'.pods[p].removed,
                 \A p \in Pods \ podEvents' : podCache[p] = pod[p] /\ PassLabels(p) => PassLabels(p)'
          PROVE  RunsLive' /\ NeverRemoved' /\ \A p \in Pods : LookedAfter(p)'
      <3>1. NeverRemoved'
        BY <1>1, <2>2, <2>3 DEF NeverRemoved
      <3>2. ASSUME NEW p \in Pods, p \notin podEvents', p \notin podQueued'
            PROVE  IF Handled(p)' THEN watch'.seen = pod'[p] ELSE pod'[p].exists => PassLabels(p)'
        <4>1. p \notin podEvents /\ p \notin podQueued /\ pod'[p] = pod[p] /\ podCache[p] = pod[p]
          BY <1>1, <1>3, <3>2 DEF LabelsInv, PodsKnown
        <4>2. IF Handled(p) THEN watch.seen = pod[p] ELSE pod[p].exists => PassLabels(p)
          BY <2>2, <4>1 DEF LookedAfter
        <4>3. PassLabels(p) => PassLabels(p)'
          BY <2>3, <3>2, <4>1
        <4> QED BY <1>1, <4>1, <4>2, <4>3 DEF Handled
      <3> QED BY <2>3, <3>1, <3>2 DEF LookedAfter
    \* The pass ends, and is to be retried or had nothing to do any more.
    <2>4. ASSUME NEW retry \in BOOLEAN, Labels!EndPass(retry), UNCHANGED pod,
                 retry \/ (pass.pc = "label" /\ pass.todo = {})
          PROVE  RunsLive' /\ NeverRemoved' /\ \A p \in Pods : LookedAfter(p)'
      <3>1. pass' = Labels!PassIdle /\ (queued' <=> queued \/ retry)
        BY <2>4 DEF Labels!EndPass, Labels!TypeOK
      <3>2. pass'.pc = "idle" /\ \A p \in Pods : ~pass'.pods[p].removed
        BY <3>1 DEF Labels!PassIdle, Labels!NoPod
      <3>3. RunsLive'
        BY <1>1, <2>2, <3>2 DEF RunsLive
      <3>4. ASSUME NEW p \in Pods, PassLabels(p) PROVE PassLabels(p)'
        BY <1>1, <2>4, <3>1, <3>4 DEF PassLabels
      <3> QED BY <2>2, <2>3, <2>4, <3>2, <3>3, <3>4 DEF NeverRemoved
    <2>5. CASE Labels!GetIntents
      <3>1. /\ UNCHANGED pod /\ ~queued' /\ pass.pc = "idle"
            /\ pass' = [pass EXCEPT !.pc = "list", !.seen = intentsCache]
        BY <2>2, <2>5 DEF Labels!GetIntents, RunsLive
      <3>2. pass'.pc = "list" /\ pass'.seen = intentsCache /\ pass'.pods = pass.pods
        BY <3>1 DEF Labels!TypeOK, Labels!Passes
      <3>3. RunsLive'
        BY <1>1, <2>2, <3>2 DEF RunsLive
      <3> QED BY <2>2, <2>3, <3>1, <3>2, <3>3 DEF NeverRemoved, PassLabels
    <2>6. CASE Labels!ListPods
      <3>1. /\ UNCHANGED <<pod, queued>> /\ pass.pc = "list" /\ pass.seen.state = "live"
            /\ pass' = [pass EXCEPT !.pc = "label", !.pods = podCache,
                                    !.todo = {p \in Pods : podCache[p].served}]
        BY <2>2, <2>6 DEF Labels!ListPods, RunsLive
      <3>2. /\ pass'.pc = "label" /\ pass'.seen = pass.seen /\ pass'.pods = podCache
            /\ pass'.todo = {p \in Pods : podCache[p].served}
        BY <3>1 DEF Labels!TypeOK, Labels!Passes
      <3>3. RunsLive'
        BY <1>1, <2>2, <3>1, <3>2 DEF RunsLive
      <3> QED BY <2>2, <2>3, <3>1, <3>2, <3>3 DEF NeverRemoved, PassLabels
    <2>7. CASE Labels!LabelPod
      <3>1. PICK q \in pass.todo :
              LET old == pass.pods[q]
                  new == Labels!Relabelled(old, pass.seen.targets) IN
              \/ new # old /\ Labels!PassPatch(q, new)
              \/ /\ new = old
                 /\ pass' = [pass EXCEPT !.todo = @ \ {q}]
                 /\ UNCHANGED <<pod, podEvents, queued>>
        BY <2>7 DEF Labels!LabelPod
      <3>2. PICK new \in Labels!PodStates :
              /\ new = Labels!Relabelled(pass.pods[q], pass.seen.targets)
              /\ new.access = pass.seen.targets /\ ~new.removed
              /\ new.served = pass.pods[q].served
        <4>1. pass.pods[q] \in Labels!PodStates /\ pass.seen.targets \in SUBSET Targets
              /\ ~pass.pods[q].removed
          BY <2>2 DEF Labels!TypeOK, Labels!Passes, Labels!Intents, NeverRemoved
        <4> QED BY <4>1, RelabelledFields
      <3>3. pass.pc = "label" /\ q \in Pods /\ pass.todo \subseteq Pods
        BY <2>7 DEF Labels!LabelPod, Labels!TypeOK, Labels!Passes
      <3>4. ASSUME pass' = [pass EXCEPT !.todo = @ \ {q}], queued' = queued,
                   ~pod'[q].removed,
                   \A p \in Pods : p # q => pod'[p] = pod[p],
                   PassLabels(q) /\ q \notin podEvents' => PassLabels(q)'
            PROVE  RunsLive' /\ NeverRemoved' /\ \A p \in Pods : LookedAfter(p)'
        <4>1. /\ pass'.pc = pass.pc /\ pass'.seen = pass.seen /\ pass'.pods = pass.pods
              /\ pass'.todo = pass.todo \ {q}
          BY <3>4 DEF Labels!TypeOK, Labels!Passes
        <4>2. RunsLive'
          BY <1>1, <2>2, <3>4, <4>1 DEF RunsLive
        <4>3. ASSUME NEW p \in Pods \ podEvents', PassLabels(p) PROVE PassLabels(p)'
          BY <1>1, <3>4, <4>1, <4>3 DEF PassLabels
        <4> QED BY <2>2, <2>3, <3>4, <4>1, <4>2, <4>3 DEF NeverRemoved
      <3>5. CASE new = pass.pods[q] /\ pass' = [pass EXCEPT !.todo = @ \ {q}]
                 /\ UNCHANGED <<pod, podEvents, queued>>
        <4>1. ASSUME PassLabels(q) PROVE PassLabels(q)'
          <5>1. queued \/ pass.seen = intentsCache
            BY <2>2, <3>3 DEF RunsLive
          <5> QED BY <1>1, <3>2, <3>3, <3>5, <4>1, <5>1 DEF PassLabels
        <4> QED BY <2>2, <3>3, <3>4, <3>5, <4>1 DEF NeverRemoved
      <3>6. CASE Labels!PassPatch(q, new)
        <4>1. /\ \A p \in Pods \ podEvents' : pod'[p] = pod[p]
              /\ \A p \in Pods : p # q => pod'[p] = pod[p]
              /\ pod[q] \in Labels!PodStates /\ pass.pods[q] \in Labels!PodStates
              /\ \/ pod'[q] = Labels!Patched(pod[q], pass.pods[q], new)
                    /\ pass' = [pass EXCEPT !.todo = @ \ {q}] /\ queued' = queued
                 \/ pod' = pod /\ pass' = Labels!PassIdle /\ queued'
          BY <1>2, <3>6
        <4>2. CASE pod' = pod /\ pass' = Labels!PassIdle /\ queued'
          <5>1. Labels!EndPass(TRUE)
            BY <4>2 DEF Labels!EndPass, Labels!TypeOK
          <5> QED BY <2>4, <4>2, <5>1
        <4>3. CASE pod'[q] = Labels!Patched(pod[q], pass.pods[q], new)
                   /\ pass' = [pass EXCEPT !.todo = @ \ {q}] /\ queued' = queued
          <5>1. /\ pod'[q].removed = IF new.removed = pass.pods[q].removed
                                     THEN pod[q].removed ELSE new.removed
                /\ pod'[q].access = (pod[q].access \ (pass.pods[q].access \ new.access))
                                      \cup (new.access \ pass.pods[q].access)
            BY <4>1, <4>3, PatchedFields
          <5>2. ~pod'[q].removed
            BY <2>2, <3>2, <3>3, <5>1 DEF NeverRemoved
          <5>3. ASSUME PassLabels(q), q \notin podEvents' PROVE PassLabels(q)'
            <6>1. pod'[q] = pod[q]
              BY <3>3, <4>1, <5>3
            <6>2. queued \/ pass.seen = intentsCache
              BY <2>2, <3>3 DEF RunsLive
            <6>3. CASE pass.pods[q].access = pod[q].access
              <7>1. pod'[q].access = new.access
                BY <5>1, <6>3
              <7> QED BY <1>1, <3>2, <4>3, <5>3, <6>1, <6>2, <7>1 DEF PassLabels
            <6>4. CASE pass.pods[q].access # pod[q].access
              BY <1>1, <3>3, <4>3, <5>3, <6>1, <6>4 DEF PassLabels
            <6> QED BY <6>3, <6>4
          <5> QED BY <3>4, <4>1, <4>3, <5>2, <5>3
        <4> QED BY <4>1, <4>2, <4>3
      <3> QED BY <3>1, <3>2, <3>5, <3>6
    <2>8. CASE Labels!UnlabelPod \/ Labels!LabelsRemoved
      BY <2>2, <2>8 DEF RunsLive, Labels!UnlabelPod, Labels!LabelsRemoved
    <2>9. CASE Labels!LabelsDone
      BY <2>4, <2>9 DEF Labels!LabelsDone
    <2>10. CASE Labels!PassFault
      BY <2>4, <2>10 DEF Labels!PassFault
    <2> QED
      BY <2>5, <2>6, <2>7, <2>8, <2>9, <2>10 DEF Labels!PassStep
  <1> QED BY <1>4, <1>5 DEF LabelsInv

\* So do those of PodWatcher: what it leaves as it was has the labels of the
\* intents it found, and what it changes is an event.
LEMMA WatchLabelsStep ==
    ASSUME ~NamesReused, Labels!TypeOK, LabelsInv, Labels!WatchStep \/ Labels!WatchFault
    PROVE  LabelsInv'
  <1> USE DEF Labels!userVars, Labels!cacheVars, Labels!queueVars, Labels!podVars
  <1>1. UNCHANGED <<intents, intentsCache, podCache, queued, pass>>
    BY DEF Labels!WatchStep, Labels!GetPod, Labels!ListIntents, Labels!PatchPod,
           Labels!WatchFault
  <1>2. /\ watch.pod \in Pods /\ watch.seen \in Labels!PodStates /\ watch.new \in Labels!PodStates
        /\ watch.pc \in {"idle", "list", "patch"}
    BY DEF Labels!TypeOK, Labels!Watches
  <1>3. Labels!WatchIdle.pc = "idle" /\ ~Labels!WatchIdle.seen.removed /\ ~Labels!WatchIdle.new.removed
    BY DEF Labels!WatchIdle, Labels!NoPod
  \* PodWatcher finds a pod, or a fault ends its call: no pod is written.
  <1>4. ASSUME UNCHANGED <<pod, podEvents>>, intents.state = "live",
               watch'.pc # "patch", ~watch'.seen.removed, ~watch'.new.removed,
               \A p \in Pods : p \notin podEvents /\ p \notin podQueued' =>
                   IF Handled(p)' THEN watch'.seen = pod[p]
                   ELSE \/ p \notin podQueued /\ ~Handled(p)
                        \/ pod[p].exists => PassLabels(p)
        PROVE  RunsLive' /\ NeverRemoved' /\ \A p \in Pods : LookedAfter(p)'
    <2>1. RunsLive /\ NeverRemoved /\ \A p \in Pods : LookedAfter(p)
      BY <1>4 DEF LabelsInv
    <2>2. RunsLive' /\ NeverRemoved'
      BY <1>1, <1>4, <2>1 DEF RunsLive, NeverRemoved
    <2>3. \A p \in Pods : PassLabels(p) => PassLabels(p)'
      BY <1>1, <1>4 DEF PassLabels
    <2> QED BY <1>4, <2>1, <2>2, <2>3 DEF LookedAfter
  <1>5. CASE Labels!GetPod
    <2>1. PICK p \in podQueued :
            /\ podQueued' = podQueued \ {p}
            /\ watch' = IF ~podCache[p].exists \/ podCache[p].removed THEN watch
                        ELSE [watch EXCEPT !.pc = "list", !.pod = p, !.seen = podCache[p]]
      BY <1>5 DEF Labels!GetPod
    <2>2. UNCHANGED <<pod, podEvents>> /\ watch.pc = "idle" /\ p \in Pods
      BY <1>5 DEF Labels!GetPod, Labels!TypeOK
    <2>3. PodsKnown'
      BY <1>1, <2>2 DEF LabelsInv, PodsKnown
    <2>4. ASSUME intents.state = "live"
          PROVE  RunsLive' /\ NeverRemoved' /\ \A q \in Pods : LookedAfter(q)'
      <3>1. NeverRemoved /\ \A q \in Pods \ podEvents : podCache[q] = pod[q]
        BY <2>4 DEF LabelsInv, PodsKnown
      <3>2. CASE ~podCache[p].exists
        BY <1>4, <2>1, <2>2, <2>4, <3>1, <3>2 DEF NeverRemoved, Handled
      <3>3. CASE podCache[p].exists
        <4>1. watch' = [watch EXCEPT !.pc = "list", !.pod = p, !.seen = podCache[p]]
          BY <2>1, <2>2, <3>1, <3>3 DEF NeverRemoved
        <4>2. /\ watch'.pc = "list" /\ watch'.pod = p /\ watch'.seen = podCache[p]
              /\ watch'.new = watch.new
          BY <4>1 DEF Labels!TypeOK, Labels!Watches
        <4> QED BY <1>4, <2>1, <2>2, <2>4, <3>1, <4>2 DEF NeverRemoved, Handled
      <3> QED BY <3>2, <3>3
    <2> QED BY <1>1, <2>3, <2>4 DEF LabelsInv
  <1>6. CASE Labels!ListIntents
    <2>1. PICK new \in Labels!PodStates :
            /\ new.exists = watch.seen.exists
            /\ ~watch.seen.removed => ~new.removed
            /\ intentsCache.state = "live" => new.served /\ new.access = intentsCache.targets
            /\ IF new = watch.seen THEN Labels!EndWatch(FALSE)
               ELSE watch' = [watch EXCEPT !.pc = "patch", !.new = new] /\ UNCHANGED podQueued
      <3> DEFINE served == [watch.seen EXCEPT !.served = TRUE]
                 new == IF intentsCache.state = "none" THEN served
                        ELSE Labels!Relabelled(served, intentsCache.targets)
      <3>1. /\ served \in Labels!PodStates /\ served.exists = watch.seen.exists
            /\ served.served /\ served.removed = watch.seen.removed
            /\ intentsCache.targets \in SUBSET Targets
        BY <1>2, ServedType DEF Labels!TypeOK, Labels!Intents
      <3>2. IF new = watch.seen THEN Labels!EndWatch(FALSE)
            ELSE watch' = [watch EXCEPT !.pc = "patch", !.new = new] /\ UNCHANGED podQueued
        BY <1>6 DEF Labels!ListIntents
      <3>3. /\ new \in Labels!PodStates /\ new.exists = watch.seen.exists
            /\ ~watch.seen.removed => ~new.removed
            /\ intentsCache.state = "live" => new.served /\ new.access = intentsCache.targets
        <4> HIDE DEF served
        <4> QED BY <3>1, RelabelledFields
      <3> HIDE DEF new
      <3> QED BY <3>2, <3>3
    <2>2. UNCHANGED <<pod, podEvents>> /\ watch.pc = "list"
      BY <1>6 DEF Labels!ListIntents
    <2>3. PodsKnown'
      BY <1>1, <2>2 DEF LabelsInv, PodsKnown
    <2>4. ASSUME intents.state = "live"
          PROVE  RunsLive' /\ NeverRemoved' /\ \A q \in Pods : LookedAfter(q)'
      <3>1. RunsLive /\ NeverRemoved /\ \A q \in Pods : LookedAfter(q)
        BY <2>4 DEF LabelsInv
      <3>2. CASE new = watch.seen
        <4>1. watch' = Labels!WatchIdle /\ UNCHANGED podQueued
          BY <2>1, <3>2 DEF Labels!EndWatch
        <4>2. ASSUME NEW q \in Pods, q \notin podEvents, q \notin podQueued, Handled(q)
              PROVE  PassLabels(q)
          <5>1. watch.seen = pod[q]
            BY <3>1, <4>2 DEF LookedAfter
          <5> QED BY <2>1, <3>1, <3>2, <5>1 DEF RunsLive, PassLabels
        <4> QED BY <1>3, <1>4, <2>2, <2>4, <4>1, <4>2 DEF Handled
      <3>3. CASE new # watch.seen
        <4>1. watch' = [watch EXCEPT !.pc = "patch", !.new = new] /\ UNCHANGED podQueued
          BY <2>1, <3>3
        <4>2. /\ watch'.pc = "patch" /\ watch'.pod = watch.pod /\ watch'.seen = watch.seen
              /\ watch'.new = new
          BY <4>1 DEF Labels!TypeOK, Labels!Watches
        <4>3. RunsLive' /\ NeverRemoved'
          BY <1>1, <2>1, <2>2, <3>1, <3>3, <4>2 DEF RunsLive, NeverRemoved
        <4>4. ASSUME NEW q \in Pods PROVE LookedAfter(q)'
          <5>1. Handled(q)' <=> Handled(q)
            BY <2>2, <4>2 DEF Handled
          <5>2. PassLabels(q) => PassLabels(q)'
            BY <1>1, <2>2 DEF PassLabels
          <5>3. LookedAfter(q)
            BY <3>1
          <5> QED BY <2>2, <4>1, <4>2, <5>1, <5>2, <5>3 DEF LookedAfter
        <4> QED BY <4>3, <4>4
      <3> QED BY <3>2, <3>3
    <2> QED BY <1>1, <2>3, <2>4 DEF LabelsInv
  <1>7. CASE Labels!PatchPod
    <2> DEFINE patched == Labels!Patched(pod[watch.pod], watch.seen, watch.new)
    <2>1. /\ pod[watch.pod] \in Labels!PodStates
          /\ patched \in Labels!PodStates /\ patched.exists = pod[watch.pod].exists
          /\ patched.served = IF watch.new.served = watch.seen.served
                              THEN pod[watch.pod].served ELSE watch.new.served
          /\ patched.removed = IF watch.new.removed = watch.seen.removed
                               THEN pod[watch.pod].removed ELSE watch.new.removed
          /\ patched.access = (pod[watch.pod].access \ (watch.seen.access \ watch.new.access))
                                \cup (watch.new.access \ watch.seen.access)
      <3>1. pod[watch.pod] \in Labels!PodStates
        BY <1>2 DEF Labels!TypeOK
      <3> QED BY <1>2, <3>1, PatchedFields
    <2>2. /\ watch' = Labels!WatchIdle /\ watch.pc = "patch"
          /\ podQueued \subseteq podQueued'
      BY <1>7 DEF Labels!PatchPod, Labels!EndWatch
    <2>3. CASE pod[watch.pod].exists /\ Labels!Store(watch.pod, patched)
      <3> HIDE DEF patched
      <3>1. /\ podEvents \subseteq podEvents'
            /\ \A p \in Pods \ podEvents' : pod'[p] = pod[p]
            /\ \A p \in Pods : p # watch.pod => pod'[p] = pod[p]
            /\ pod'[watch.pod] = patched
            /\ watch.pod \notin podEvents' => patched = pod[watch.pod]
        BY <1>2, <2>3, StoreKnown
      <3>2. PodsKnown'
        BY <1>1, <3>1 DEF LabelsInv, PodsKnown
      <3>3. ASSUME intents.state = "live"
            PROVE  RunsLive' /\ NeverRemoved' /\ \A q \in Pods : LookedAfter(q)'
        <4>1. RunsLive /\ NeverRemoved /\ \A q \in Pods : LookedAfter(q)
          BY <3>3 DEF LabelsInv
        <4>2. RunsLive'
          BY <1>1, <1>3, <2>2, <4>1 DEF RunsLive
        <4>3. ~patched.removed
          BY <1>2, <2>1, <4>1 DEF NeverRemoved
        <4>4. NeverRemoved'
          BY <1>1, <1>3, <2>2, <3>1, <4>1, <4>3 DEF NeverRemoved
        <4>5. ASSUME NEW q \in Pods, q \notin podEvents', q \notin podQueued'
              PROVE  pod'[q].exists => PassLabels(q)'
          <5>1. q \notin podEvents /\ q \notin podQueued /\ pod'[q] = pod[q]
            BY <2>2, <3>1, <4>5
          <5>2. ~Handled(q)
            <6> SUFFICES ASSUME Handled(q) PROVE FALSE
              OBVIOUS
            <6>1. q = watch.pod /\ watch.seen = pod[q] /\ patched = pod[q]
              BY <3>1, <4>1, <4>5, <5>1 DEF Handled, LookedAfter
            <6>2. watch.new # watch.seen /\ watch.new.exists = watch.seen.exists
              BY <2>2, <4>1 DEF RunsLive
            <6>3. \/ watch.new.served # watch.seen.served
                  \/ watch.new.removed # watch.seen.removed
                  \/ watch.new.access # watch.seen.access
              BY <1>2, <6>2 DEF Labels!PodStates
            <6> QED BY <2>1, <6>1, <6>3
          <5>3. PassLabels(q) => PassLabels(q)'
            BY <1>1, <5>1 DEF PassLabels
          <5> QED BY <4>1, <5>1, <5>2, <5>3 DEF LookedAfter
        <4>6. \A q \in Pods : ~Handled(q)'
          BY <1>3, <2>2 DEF Handled
        <4> QED BY <4>2, <4>4, <4>5, <4>6 DEF LookedAfter
      <3> QED BY <1>1, <3>2, <3>3 DEF LabelsInv
    <2>4. CASE /\ ~pod[watch.pod].exists /\ UNCHANGED <<pod, podEvents>>
      <3>1. PodsKnown'
        BY <1>1, <2>4 DEF LabelsInv, PodsKnown
      <3>2. ASSUME intents.state = "live"
            PROVE  RunsLive' /\ NeverRemoved' /\ \A q \in Pods : LookedAfter(q)'
        <4>1. \A q \in Pods : Handled(q) => ~pod[q].exists
          BY <2>4 DEF Handled
        <4> QED BY <1>3, <1>4, <2>2, <2>4, <3>2, <4>1 DEF Handled
      <3> QED BY <1>1, <3>1, <3>2 DEF LabelsInv
    <2> QED BY <1>7, <2>3, <2>4 DEF Labels!PatchPod
  <1>8. CASE Labels!WatchFault
    <2>1. /\ watch' = Labels!WatchIdle /\ podQueued' = podQueued \cup {watch.pod}
          /\ UNCHANGED <<pod, podEvents>>
      BY <1>8 DEF Labels!WatchFault, Labels!EndWatch
    <2>2. PodsKnown'
      BY <1>1, <2>1 DEF LabelsInv, PodsKnown
    <2>3. ASSUME intents.state = "live"
          PROVE  RunsLive' /\ NeverRemoved' /\ \A q \in Pods : LookedAfter(q)'
      BY <1>3, <1>4, <2>1, <2>3 DEF Handled
    <2> QED BY <1>1, <2>2, <2>3 DEF LabelsInv
  <1> QED BY <1>5, <1>6, <1>7, <1>8 DEF Labels!WatchStep

\* So do users, workloads, informers and crashes.
LEMMA AroundLabelsStep ==
    ASSUME ~NamesReused, Labels!TypeOK, LabelsInv, Labels!Environment
    PROVE  LabelsInv'
  <1> USE DEF Labels!userVars, Labels!cacheVars, Labels!queueVars, Labels!podVars
  <1>1. CASE Labels!Declare \/ Labels!Delete
    <2>1. UNCHANGED <<intentsCache, pod, podCache, podEvents, queued, podQueued, pass, watch>>
          /\ (intents'.state = "live" => intents.state = "live")
      BY <1>1 DEF Labels!Declare, Labels!Delete, Labels!TypeOK, Labels!Intents
    <2> QED BY <2>1 DEF LabelsInv, PodsKnown, RunsLive, NeverRemoved, LookedAfter, Handled,
                         PassLabels
  <1>2. CASE Labels!StartPod \/ Labels!StopPod
    <2>1. UNCHANGED <<intents, intentsCache, podCache, queued, podQueued, pass, watch>>
      BY <1>2 DEF Labels!StartPod, Labels!StopPod
    <2>2. PICK q \in Pods, new \in {Labels!NewPod, Labels!NoPod} : Labels!Store(q, new)
      BY <1>2 DEF Labels!StartPod, Labels!StopPod
    <2>3. ~new.removed
      BY DEF Labels!NewPod, Labels!NoPod
    <2>4. /\ podEvents \subseteq podEvents' /\ pod'[q] = new
          /\ \A p \in Pods \ podEvents' : pod'[p] = pod[p]
          /\ \A p \in Pods : p # q => pod'[p] = pod[p]
      BY <2>2, StoreKnown
    <2>5. PodsKnown'
      BY <2>1, <2>4 DEF LabelsInv, PodsKnown
    <2>6. ASSUME intents.state = "live"
          PROVE  RunsLive' /\ NeverRemoved' /\ \A p \in Pods : LookedAfter(p)'
      <3>1. RunsLive /\ NeverRemoved /\ \A p \in Pods : LookedAfter(p)
        BY <2>6 DEF LabelsInv
      <3>2. RunsLive' /\ NeverRemoved'
        BY <2>1, <2>3, <2>4, <3>1 DEF RunsLive, NeverRemoved
      <3>3. ASSUME NEW p \in Pods, p \notin podEvents' PROVE LookedAfter(p)'
        <4>1. p \notin podEvents /\ pod'[p] = pod[p]
          BY <2>4, <3>3
        <4> QED BY <2>1, <3>1, <4>1 DEF LookedAfter, Handled, PassLabels
      <3> QED BY <3>2, <3>3 DEF LookedAfter
    <2> QED BY <2>1, <2>5, <2>6 DEF LabelsInv
  <1>3. CASE Labels!Crash
    <2>1. /\ podQueued' = Pods /\ UNCHANGED <<intents, pod>> /\ podCache' = pod
          /\ intentsCache' = intents /\ pass' = Labels!PassIdle /\ watch' = Labels!WatchIdle
      BY <1>3 DEF Labels!Crash
    <2>2. /\ pass'.pc = "idle" /\ watch'.pc = "idle"
          /\ \A p \in Pods : ~pass'.pods[p].removed
          /\ ~watch'.seen.removed /\ ~watch'.new.removed
      BY <2>1 DEF Labels!PassIdle, Labels!WatchIdle, Labels!NoPod
    <2> QED BY <2>1, <2>2 DEF LabelsInv, PodsKnown, RunsLive, NeverRemoved, LookedAfter
  <1>4. CASE Labels!SyncIntents
    <2>1. /\ UNCHANGED <<intents, podCache, pod, podEvents, podQueued, pass, watch>>
          /\ intentsCache' = intents /\ queued'
      BY <1>4 DEF Labels!SyncIntents
    <2> QED BY <2>1 DEF LabelsInv, PodsKnown, RunsLive, NeverRemoved, LookedAfter, Handled,
                         PassLabels
  <1>5. ASSUME NEW q \in Pods, Labels!SyncPod(q) PROVE LabelsInv'
    <2>1. /\ UNCHANGED <<intents, intentsCache, pod, queued, pass, watch>>
          /\ podEvents' = podEvents \ {q} /\ podQueued' = podQueued \cup {q}
          /\ podCache' = [podCache EXCEPT ![q] = pod[q]]
      BY <1>5 DEF Labels!SyncPod
    <2>2. podCache'[q] = pod[q] /\ \A p \in Pods : p # q => podCache'[p] = podCache[p]
      BY <2>1 DEF Labels!TypeOK
    <2>3. PodsKnown'
      BY <2>1, <2>2 DEF LabelsInv, PodsKnown
    <2>4. ASSUME intents.state = "live"
          PROVE  RunsLive' /\ NeverRemoved' /\ \A p \in Pods : LookedAfter(p)'
      <3>1. RunsLive /\ NeverRemoved /\ \A p \in Pods : LookedAfter(p)
        BY <2>4 DEF LabelsInv
      <3>2. RunsLive' /\ NeverRemoved'
        BY <2>1, <2>2, <3>1 DEF RunsLive, NeverRemoved
      <3>3. \A p \in Pods : LookedAfter(p)'
        BY <2>1, <3>1 DEF LookedAfter, Handled, PassLabels
      <3> QED BY <3>2, <3>3
    <2> QED BY <2>1, <2>3, <2>4 DEF LabelsInv
  <1> QED BY <1>1, <1>2, <1>3, <1>4, <1>5 DEF Labels!Environment

\* Nothing else is needed of the initial states but that every pod is looked at.
LEMMA LabelsInvariant ==
    ASSUME ~NamesReused
    PROVE  Labels!Spec => []LabelsInv
  <1>1. Labels!Init => LabelsInv
    <2> SUFFICES ASSUME Labels!Init PROVE LabelsInv
      OBVIOUS
    <2>1. /\ podQueued = Pods /\ podCache = pod /\ intentsCache = intents
          /\ pass.pc = "idle" /\ watch.pc = "idle"
          /\ \A p \in Pods : ~pass.pods[p].removed
          /\ ~watch.seen.removed /\ ~watch.new.removed
      BY DEF Labels!Init, Labels!PassIdle, Labels!WatchIdle, Labels!NoPod
    <2>2. \A p \in Pods : ~pod[p].removed
      BY DEF Labels!Init, Labels!NewPod, Labels!NoPod
    <2> QED BY <2>1, <2>2 DEF LabelsInv, PodsKnown, RunsLive, NeverRemoved, LookedAfter
  <1>2. Labels!TypeOK /\ LabelsInv /\ [Labels!Next]_Labels!vars => LabelsInv'
    <2>1. ASSUME LabelsInv, UNCHANGED Labels!vars PROVE LabelsInv'
      BY <2>1 DEF Labels!vars, Labels!userVars, Labels!cacheVars, Labels!podVars,
           Labels!queueVars, LabelsInv, PodsKnown, RunsLive, NeverRemoved, LookedAfter,
           Handled, PassLabels
    <2> QED BY <2>1, PassLabelsStep, WatchLabelsStep, AroundLabelsStep DEF Labels!Next
  <1> QED BY <1>1, <1>2, LabelsTypeInvariant, PTL DEF Labels!Spec

\* At rest the invariant leaves nothing to be done.
LEMMA LabelsAtRest ==
    ASSUME ~NamesReused
    PROVE  Labels!Spec => []Labels!LiveLabelsMatch
  <1>1. LabelsInv => Labels!LiveLabelsMatch
    <2> SUFFICES ASSUME LabelsInv, Labels!AtRest, intents.state = "live",
                        NEW p \in Pods, pod[p].exists
                 PROVE  Labels!Labelled(p)
      BY DEF Labels!LiveLabelsMatch
    <2>1. /\ intentsCache = intents /\ podEvents = {} /\ podQueued = {} /\ ~queued
          /\ pass.pc = "idle" /\ watch.pc = "idle"
      BY DEF Labels!AtRest, Labels!PassIdle, Labels!WatchIdle
    <2>2. PassLabels(p)
      BY <2>1 DEF LabelsInv, LookedAfter, Handled
    <2> QED BY <2>1, <2>2 DEF PassLabels, Labels!Labelled
  <1> QED BY <1>1, LabelsInvariant, PTL

-----------------------------------------------------------------------------
(* What holds of a part holds of MCAgents, whose behaviours are those of its *)
(* parts.                                                                  *)

\* A behaviour stays in its part.
LEMMA SamePart == [Next]_vars => part' = part
  BY DEF Next, vars, InLabels, InKafka, InDatabase, InAws, InAzure, InGcp, InGroup

\* Steps of the part of the labels are steps of PodLabels.
LEMMA LabelsPart ==
    /\ Init /\ part = "labels" => Labels!Init
    /\ [Next]_vars /\ part = "labels" => [Labels!Next]_Labels!vars
  <1>1. Init /\ part = "labels" => Labels!Init
    BY DEF Init
  <1>2. [Next]_vars /\ part = "labels" => [Labels!Next]_Labels!vars
    BY DEF Next, vars, InLabels, InKafka, InDatabase, InAws, InAzure, InGcp, InGroup,
           podVars, labelsOnly, Labels!vars, Labels!userVars, Labels!cacheVars,
           Labels!podVars, Labels!queueVars
  <1> QED BY <1>1, <1>2

\* For any pods, targets, edits, restarts and faults, unless a deleted ClientIntents
\* is created again under its name: with nothing left to do, every pod has exactly
\* the labels that live ClientIntents declare (PodLabelReconciler, PodWatcher).
THEOREM LabelsMatchAtRest ==
    ASSUME ~NamesReused
    PROVE  Spec => []LiveLabelsMatch
  <1>1. Labels!LiveLabelsMatch => LiveLabelsMatch
    BY DEF LiveLabelsMatch
  <1>2. ~(part = "labels") => LiveLabelsMatch
    BY DEF LiveLabelsMatch
  <1>3. [Next]_vars /\ part = "labels" => (part = "labels")'
    BY SamePart
  <1>4. [Next]_vars /\ ~(part = "labels") => ~(part = "labels")'
    BY SamePart
  <1> QED BY <1>1, <1>2, <1>3, <1>4, LabelsPart, LabelsAtRest, PTL DEF Spec, Labels!Spec

(* KafkaServers: its theorems are about the part of MCAgents.  The two       *)
(* instances have the same definitions.                                    *)

KafkaTheorems == INSTANCE KafkaServers_proofs WITH
    Specs <- KafkaSpecs, MaxChanges <- MaxChanges.kafka

\* Steps of the part of Kafka are steps of KafkaServers.
LEMMA KafkaPart ==
    /\ Init /\ part = "kafka" => Kafka!Init
    /\ [Next]_vars /\ part = "kafka" => Kafka!Next \/ UNCHANGED Kafka!vars
  <1>1. Init /\ part = "kafka" => Kafka!Init
    BY DEF Init
  <1>2. [Next]_vars /\ part = "kafka" => Kafka!Next \/ UNCHANGED Kafka!vars
    BY DEF Next, vars, InLabels, InKafka, InDatabase, InAws, InAzure, InGcp, InGroup,
           podVars, kafkaOnly, Kafka!objectVars, Kafka!vars
  <1> QED BY <1>1, <1>2

\* The definitions of the two instances are the same.
LEMMA SameKafka ==
    /\ Kafka!Init => KafkaTheorems!Init
    /\ Kafka!Next \/ UNCHANGED Kafka!vars => [KafkaTheorems!Next]_KafkaTheorems!vars
    /\ KafkaTheorems!ServersMatchAtRest => Kafka!ServersMatchAtRest
    /\ KafkaTheorems!ReleasesClean => Kafka!ReleasesClean
  <1>1. Kafka!Init => KafkaTheorems!Init
    BY Zenon
    DEF Kafka!None, KafkaTheorems!None, Kafka!NoIntents,
                 KafkaTheorems!NoIntents, Kafka!NoConfig,
                 KafkaTheorems!NoConfig, Kafka!Idle,
                 KafkaTheorems!Idle, Kafka!Acl, KafkaTheorems!Acl,
                 Kafka!Anonymous, KafkaTheorems!Anonymous,
                 Kafka!AnyUser, KafkaTheorems!AnyUser, Kafka!Group,
                 KafkaTheorems!Group, Kafka!Rules, KafkaTheorems!Rules,
                 Kafka!GroupRules, KafkaTheorems!GroupRules,
                 Kafka!Init, KafkaTheorems!Init
  <1>2. Kafka!Next => KafkaTheorems!Next
    BY Zenon
    DEF Kafka!objectVars, KafkaTheorems!objectVars, Kafka!None, KafkaTheorems!None,
        Kafka!NoIntents, KafkaTheorems!NoIntents, Kafka!NoConfig,
        KafkaTheorems!NoConfig, Kafka!Idle, KafkaTheorems!Idle, Kafka!Acl,
        KafkaTheorems!Acl, Kafka!Anonymous, KafkaTheorems!Anonymous,
        Kafka!AnyUser, KafkaTheorems!AnyUser, Kafka!Group, KafkaTheorems!Group,
        Kafka!Wanted, KafkaTheorems!Wanted, Kafka!Rules, KafkaTheorems!Rules,
        Kafka!GroupRules, KafkaTheorems!GroupRules, Kafka!OfClient,
        KafkaTheorems!OfClient, Kafka!OfTopics, KafkaTheorems!OfTopics,
        Kafka!Reconciled, KafkaTheorems!Reconciled, Kafka!Halfway,
        KafkaTheorems!Halfway, Kafka!Fault, KafkaTheorems!Fault, Kafka!Enforced,
        KafkaTheorems!Enforced, Kafka!Replace, KafkaTheorems!Replace,
        Kafka!Requeue, KafkaTheorems!Requeue, Kafka!Ahead, KafkaTheorems!Ahead,
        Kafka!Owed, KafkaTheorems!Owed, Kafka!BeginIntents,
        KafkaTheorems!BeginIntents, Kafka!ApplyAtBroker,
        KafkaTheorems!ApplyAtBroker, Kafka!EndIntents, KafkaTheorems!EndIntents,
        Kafka!BeginConfig, KafkaTheorems!BeginConfig, Kafka!FailConfig,
        KafkaTheorems!FailConfig, Kafka!DeclareOperator,
        KafkaTheorems!DeclareOperator, Kafka!AddServer, KafkaTheorems!AddServer,
        Kafka!RemoveServer, KafkaTheorems!RemoveServer, Kafka!WithdrawOperator,
        KafkaTheorems!WithdrawOperator, Kafka!Edited, KafkaTheorems!Edited,
        Kafka!Deleted, KafkaTheorems!Deleted, Kafka!Change,
        KafkaTheorems!Change, Kafka!ChangeIntents, KafkaTheorems!ChangeIntents,
        Kafka!ChangeConfig, KafkaTheorems!ChangeConfig, Kafka!Protect,
        KafkaTheorems!Protect, Kafka!SyncIntents, KafkaTheorems!SyncIntents,
        Kafka!SyncConfig, KafkaTheorems!SyncConfig, Kafka!SyncOperatorIntents,
        KafkaTheorems!SyncOperatorIntents, Kafka!Resync, KafkaTheorems!Resync,
        Kafka!Crash, KafkaTheorems!Crash, Kafka!IntentsStep,
        KafkaTheorems!IntentsStep, Kafka!ConfigStep, KafkaTheorems!ConfigStep,
        Kafka!Sync, KafkaTheorems!Sync, Kafka!Users, KafkaTheorems!Users,
        Kafka!Next, KafkaTheorems!Next
  <1>3. UNCHANGED Kafka!vars => UNCHANGED KafkaTheorems!vars
    BY Zenon DEF Kafka!objectVars, KafkaTheorems!objectVars, Kafka!vars,
                 KafkaTheorems!vars
  <1>4. KafkaTheorems!ServersMatchAtRest => Kafka!ServersMatchAtRest
    BY Zenon DEF Kafka!Idle, KafkaTheorems!Idle, Kafka!Acl, KafkaTheorems!Acl,
                 Kafka!Anonymous, KafkaTheorems!Anonymous,
                 Kafka!AnyUser, KafkaTheorems!AnyUser, Kafka!Group,
                 KafkaTheorems!Group, Kafka!Rules, KafkaTheorems!Rules,
                 Kafka!OfTopics, KafkaTheorems!OfTopics, Kafka!AtRest,
                 KafkaTheorems!AtRest, Kafka!ServersMatchAtRest,
                 KafkaTheorems!ServersMatchAtRest
  <1>5. KafkaTheorems!ReleasesClean => Kafka!ReleasesClean
    BY Zenon DEF Kafka!None, KafkaTheorems!None, Kafka!OfClient, KafkaTheorems!OfClient,
                 Kafka!ReleasesClean, KafkaTheorems!ReleasesClean
  <1> QED BY <1>1, <1>2, <1>3, <1>4, <1>5

\* For any clients, brokers, intents and configs, and any failed calls and restarts:
\* with nothing left to do, the store of servers is what the live
\* KafkaServerConfigs say, and their brokers have the rules of their topics
\* (KafkaServerConfigReconciler, KafkaIntentsAdmin).
THEOREM KafkaMatchesAtRest ==
    ASSUME KafkaTheorems!NamesApart
    PROVE  Spec => []ServersMatchAtRest
  <1>1. Kafka!ServersMatchAtRest => ServersMatchAtRest
    BY DEF ServersMatchAtRest
  <1>2. ~(part = "kafka") => ServersMatchAtRest
    BY DEF ServersMatchAtRest
  <1>3. [Next]_vars /\ part = "kafka" => (part = "kafka")'
    BY SamePart
  <1>4. [Next]_vars /\ ~(part = "kafka") => ~(part = "kafka")'
    BY SamePart
  <1>5. KafkaTheorems!Spec => []KafkaTheorems!ServersMatchAtRest
    BY KafkaTheorems!ServersAtRest
  <1> QED BY <1>1, <1>2, <1>3, <1>4, <1>5, KafkaPart, SameKafka, PTL
          DEF Spec, KafkaTheorems!Spec

\* For the same values: ClientIntents are released only when no broker their last
\* pass went over has ACLs of the client (removeAllTopicsForClientIntents).
THEOREM KafkaReleases ==
    ASSUME KafkaTheorems!NamesApart
    PROVE  Spec => KafkaReleasedClean
  <1>1. Kafka!ReleasesClean => (part = "kafka" => Kafka!ReleasesClean)
    OBVIOUS
  <1>2. [Next]_vars /\ part = "kafka" => (part = "kafka")'
    BY SamePart
  <1>3. [Next]_vars /\ ~(part = "kafka") => ~(part = "kafka")'
    BY SamePart
  <1>4. KafkaTheorems!Spec => [][KafkaTheorems!ReleasesClean]_(KafkaTheorems!vars)
    BY KafkaTheorems!ReleasedClean
  <1>5. UNCHANGED KafkaTheorems!vars => Kafka!ReleasesClean
    BY DEF KafkaTheorems!vars, KafkaTheorems!objectVars, Kafka!ReleasesClean, Kafka!None
  <1> QED BY <1>1, <1>2, <1>3, <1>4, <1>5, KafkaPart, SameKafka, PTL
          DEF Spec, KafkaTheorems!Spec, KafkaReleasedClean

-----------------------------------------------------------------------------

(* DatabaseGrants: types.                                                  *)

Objects == [stage : {"none", "new", "live", "deleting"}, spec : DatabaseSpecs \cup {<<>>}]

DatabasePasses ==
    {Database!Idle}
    \cup [pc : {"instance"}, copy : Objects, todo : SUBSET Database!Instances]
    \cup [pc : {"revoke", "drop", "annotate", "grant"}, copy : Objects,
          todo : SUBSET Database!Instances, instance : Database!Instances,
          databases : SUBSET Databases]

\* What may be granted at an instance.
Grantable(i) == [database : Databases,
                 table : Tables \cup (IF i \in MySQL THEN {Database!AllTables} ELSE {}),
                 operation : Operations]

\* What an instance has, and a pass about to grant there, is of configured instances.
OfConfigured ==
    /\ configs \subseteq Database!Instances /\ users \subseteq configs
    /\ \A i \in Database!Instances \ users : grants[i] = {}
    /\ pod.instances \subseteq configs /\ podCache.instances \subseteq configs
    /\ pass # Database!Idle => pass.todo \subseteq configs
    /\ pass.pc \in {"revoke", "drop", "annotate", "grant"} =>
         /\ pass.instance \in configs
         /\ pass.databases \subseteq Database!DatabasesOf(Database!At(pass.copy.spec, pass.instance))
    /\ pass.pc \in {"revoke", "drop"} =>
         pass.copy.stage = "deleting" \/ ~Database!Mentions(pass.copy.spec, pass.instance)
    /\ pass.pc = "annotate" /\ pass.copy.stage # "deleting"
       /\ Database!Mentions(pass.copy.spec, pass.instance) => pass.instance \in users
    /\ pass.pc = "grant" => pass.instance \in users

GrantsType ==
    /\ intents \in Objects /\ intentsCache \in Objects
    /\ pass \in DatabasePasses /\ queued \in BOOLEAN
    /\ grants = [i \in Database!Instances |-> grants[i]]
    /\ \A i \in Database!Instances : grants[i] \subseteq Grantable(i)
    /\ OfConfigured

-----------------------------------------------------------------------------
(* DatabaseGrants: at rest.                                                *)

\* Intents that PostgreSQL keeps exactly: every table once and none as a whole.
Exact(spec, i) ==
    LET entries == Database!At(spec, i) IN
    i \in MySQL \/ (/\ Database!AllTables \notin Database!TablesOf(entries)
                    /\ \A m, n \in DOMAIN entries :
                         entries[m].database = entries[n].database
                         /\ entries[m].table = entries[n].table => m = n)

\* What is declared of one database.
DeclaredIn(spec, i, d) ==
    {g \in Database!Declared(i, Database!At(spec, i)) : g.database = d}

\* A pass is done with an instance.
GrantsDone(i) ==
    IF ~Database!Mentions(intentsCache.spec, i) THEN i \notin users
    ELSE Exact(intentsCache.spec, i) =>
           grants[i] = Database!Declared(i, Database!At(intentsCache.spec, i))

\* A pass has an instance in hand, and granted on all but the databases to come.
InHand(i) ==
    /\ pass.pc \in {"revoke", "drop"} => ~Database!Mentions(intentsCache.spec, i)
    /\ pass.pc = "annotate" =>
         IF Database!Mentions(intentsCache.spec, i)
         THEN pass.databases = Database!DatabasesOf(Database!At(intentsCache.spec, i))
         ELSE i \notin users
    /\ pass.pc = "grant" =>
         /\ Database!Mentions(intentsCache.spec, i)
         /\ Exact(intentsCache.spec, i) =>
              \A d \in Database!DatabasesOf(Database!At(intentsCache.spec, i)) \ pass.databases :
                IF i \in Postgres
                THEN {g \in grants[i] : g.database = d} = DeclaredIn(intentsCache.spec, i, d)
                ELSE DeclaredIn(intentsCache.spec, i, d) \subseteq grants[i]

AtInstance(i) == pass.pc \in {"revoke", "drop", "annotate", "grant"} /\ pass.instance = i

\* What the cached intents ask for is done, in hand or to come.
GrantsInv ==
    ~queued =>
      /\ pass # Database!Idle => pass.copy = intentsCache
      /\ intentsCache.stage = "live" /\ intentsCache.spec # <<>> =>
           \A i \in configs :
             IF AtInstance(i) THEN InHand(i)
             ELSE GrantsDone(i) \/ (pass # Database!Idle /\ i \in pass.todo)

-----------------------------------------------------------------------------
(* DatabaseGrants: what the operators on privileges return.                *)

\* A spec has typed entries, and so have those of them that are taken.
EntriesTyped(entries, i) ==
    \A n \in DOMAIN entries : entries[n] \in Database!Entries /\ entries[n].instance = i

LEMMA SpecTyped ==
    ASSUME NEW spec \in DatabaseSpecs \cup {<<>>}, NEW i
    PROVE  /\ DOMAIN spec \subseteq Nat
           /\ EntriesTyped(Database!At(spec, i), i)
           /\ DOMAIN Database!At(spec, i) \subseteq Nat
           /\ Database!Mentions(spec, i) <=> DOMAIN Database!At(spec, i) # {}
  <1>1. DOMAIN spec \subseteq Nat /\ \A n \in DOMAIN spec : spec[n] \in Database!Entries
    <2>1. CASE spec = <<>>
      BY <2>1
    <2>2. CASE spec \in Seq(Database!Entries)
      BY <2>2
    <2> QED BY <2>1, <2>2, ConstantsAssumption DEF Database!ConstantsAssumption
  <1> QED BY <1>1 DEF Database!At, Database!Mentions, EntriesTyped

LEMMA InTyped ==
    ASSUME NEW entries, NEW i, EntriesTyped(entries, i), DOMAIN entries \subseteq Nat, NEW d
    PROVE  /\ EntriesTyped(Database!In(entries, d), i)
           /\ DOMAIN Database!In(entries, d) = {n \in DOMAIN entries : entries[n].database = d}
           /\ \A n \in DOMAIN Database!In(entries, d) :
                Database!In(entries, d)[n] = entries[n] /\ entries[n].database = d
           /\ \A last : /\ EntriesTyped(Database!First(entries, last), i)
                        /\ DOMAIN Database!First(entries, last) \subseteq DOMAIN entries
                        /\ \A n \in DOMAIN Database!First(entries, last) :
                             Database!First(entries, last)[n] = entries[n]
  BY DEF EntriesTyped, Database!In, Database!First

\* Operations that are granted are operations.
LEMMA OperationsGranted ==
    ASSUME NEW ops \in SUBSET (Operations \cup {"all"})
    PROVE  Database!GrantOperations(ops) \subseteq Operations
  BY DEF Database!GrantOperations

\* The grants of an entry, by their fields.
LEMMA OnFields ==
    ASSUME NEW d, NEW tables, NEW ops, NEW g
    PROVE  /\ g \in Database!On(d, tables, ops) =>
                g.database = d /\ g.table \in tables /\ g.operation \in ops
           /\ \A i : g \in Grantable(i) /\ g.database = d /\ g.table \in tables
                     /\ g.operation \in ops => g \in Database!On(d, tables, ops)
  BY DEF Database!On, Grantable

LEMMA OnGrantable ==
    ASSUME NEW i, NEW d \in Databases, NEW ops \in SUBSET Operations,
           NEW tables \in SUBSET (Tables \cup (IF i \in MySQL THEN {Database!AllTables} ELSE {}))
    PROVE  Database!On(d, tables, ops) \subseteq Grantable(i)
  BY DEF Database!On, Grantable

\* What the batches grant is of the instance.
LEMMA AppliedGrantable ==
    ASSUME NEW i \in Database!Instances, NEW entries, EntriesTyped(entries, i),
           NEW found \in SUBSET Grantable(i)
    PROVE  /\ i \in Postgres => Database!PostgresApplied(found, entries) \subseteq Grantable(i)
           /\ i \in MySQL => Database!MySQLApplied(found, entries) \subseteq Grantable(i)
  <1>1. ASSUME i \in Postgres, NEW n \in DOMAIN entries
        PROVE  Database!PostgresGranted(entries[n]) \subseteq Grantable(i)
    <2>1. /\ entries[n].database \in Databases
          /\ entries[n].table \in Tables \cup {Database!AllTables}
          /\ entries[n].operations \in SUBSET (Operations \cup {"all"})
      BY DEF EntriesTyped, Database!Entries
    <2>2. Database!GrantOperations(entries[n].operations) \in SUBSET Operations
      BY <2>1, OperationsGranted
    <2> DEFINE tables == IF entries[n].table = Database!AllTables THEN Tables ELSE {entries[n].table}
    <2>3. tables \in SUBSET (Tables \cup (IF i \in MySQL THEN {Database!AllTables} ELSE {}))
      BY <2>1
    <2> HIDE DEF tables
    <2>4. Database!On(entries[n].database, tables, Database!GrantOperations(entries[n].operations))
            \subseteq Grantable(i)
      BY <2>1, <2>2, <2>3, OnGrantable
    <2> QED BY <2>4 DEF Database!PostgresGranted, tables
  <1>2. ASSUME i \in MySQL, NEW n \in DOMAIN entries
        PROVE  Database!On(entries[n].database, {entries[n].table},
                           Database!GrantOperations(entries[n].operations)) \subseteq Grantable(i)
    <2>1. /\ entries[n].database \in Databases
          /\ entries[n].table \in Tables \cup {Database!AllTables}
          /\ entries[n].operations \in SUBSET (Operations \cup {"all"})
      BY DEF EntriesTyped, Database!Entries
    <2>2. Database!GrantOperations(entries[n].operations) \in SUBSET Operations
      BY <2>1, OperationsGranted
    <2>3. {entries[n].table} \in SUBSET (Tables \cup (IF i \in MySQL THEN {Database!AllTables} ELSE {}))
      BY <1>2, <2>1
    <2> QED BY <2>1, <2>2, <2>3, OnGrantable
  <1>3. ASSUME i \in Postgres
        PROVE  Database!PostgresApplied(found, entries) \subseteq Grantable(i)
    BY <1>1, <1>3 DEF Database!PostgresApplied
  <1>4. ASSUME i \in MySQL
        PROVE  Database!MySQLApplied(found, entries) \subseteq Grantable(i)
    BY <1>2, <1>4 DEF Database!MySQLApplied
  <1> QED BY <1>3, <1>4

\* PostgreSQL, one database of exact intents: it ends with what is declared of it,
\* and the others keep theirs.
LEMMA PostgresExact ==
    ASSUME NEW i \in Postgres, NEW spec \in DatabaseSpecs \cup {<<>>}, Exact(spec, i), NEW d,
           NEW found \in SUBSET Grantable(i)
    PROVE  LET here == Database!In(Database!At(spec, i), d)
               after == Database!PostgresKept(Database!PostgresApplied(found, here), d, here) IN
           /\ \A g : g \in DeclaredIn(spec, i, d) <=> g \in after /\ g.database = d
           /\ \A g : g.database # d => (g \in after <=> g \in found)
  <1> DEFINE entries == Database!At(spec, i)
             here == Database!In(entries, d)
             after == Database!PostgresKept(Database!PostgresApplied(found, here), d, here)
             ops(n) == Database!GrantOperations(entries[n].operations)
  <1>0. i \in Database!Instances /\ i \notin MySQL
    BY ConstantsAssumption DEF Database!ConstantsAssumption, Database!Instances
  <1>1. /\ EntriesTyped(entries, i) /\ DOMAIN entries \subseteq Nat
    BY SpecTyped
  <1>2. /\ EntriesTyped(here, i)
        /\ DOMAIN here = {n \in DOMAIN entries : entries[n].database = d}
        /\ \A n \in DOMAIN here : here[n] = entries[n] /\ entries[n].database = d
    BY <1>1, InTyped
  <1>3. /\ \A n \in DOMAIN entries : entries[n].table # Database!AllTables
        /\ \A m, n \in DOMAIN entries :
             entries[m].database = entries[n].database
             /\ entries[m].table = entries[n].table => m = n
    BY <1>0 DEF Exact, Database!TablesOf
  <1>4. after \subseteq Grantable(i)
    BY <1>0, <1>2, AppliedGrantable DEF Database!PostgresKept
  <1> HIDE DEF entries, here
  <1>5. \A n \in DOMAIN here :
           Database!PostgresGranted(here[n]) = Database!On(d, {entries[n].table}, ops(n))
    BY <1>2, <1>3 DEF Database!PostgresGranted
  <1>6. \A g : g \in Database!PostgresApplied(found, here) <=>
           \/ g \in found /\ ~ \E n \in DOMAIN here : d = g.database /\ entries[n].table = g.table
           \/ \E n \in DOMAIN here : g \in Database!On(d, {entries[n].table}, ops(n))
    <2>1. ASSUME NEW n \in DOMAIN here, NEW m \in {k \in DOMAIN here : k > n},
                 NEW g \in Database!On(d, {entries[n].table}, ops(n))
          PROVE  ~(here[m].database = g.database /\ here[m].table = g.table)
      <3>1. g.table = entries[n].table
        BY OnFields
      <3>2. m \in DOMAIN entries /\ n \in DOMAIN entries /\ m # n
        BY <1>1, <1>2
      <3> QED BY <1>2, <1>3, <3>1, <3>2
    <2> HIDE DEF ops
    <2>2. \A n \in DOMAIN here :
            {g \in Database!PostgresGranted(here[n]) :
               ~ \E m \in {k \in DOMAIN here : k > n} :
                    here[m].database = g.database /\ here[m].table = g.table}
              = Database!On(d, {entries[n].table}, ops(n))
      BY <1>5, <2>1
    <2>3. \A g \in found : (\E n \in DOMAIN here : here[n].database = g.database
                                                /\ here[n].table = g.table)
                          <=> \E n \in DOMAIN here : d = g.database
                                                 /\ entries[n].table = g.table
      BY <1>2
    <2>4. Database!PostgresApplied(found, here)
            = {g \in found : ~ \E n \in DOMAIN here : here[n].database = g.database
                                                  /\ here[n].table = g.table}
              \cup UNION {Database!On(d, {entries[n].table}, ops(n)) : n \in DOMAIN here}
      <3> DEFINE kept(n) ==
                   {g \in Database!PostgresGranted(here[n]) :
                      ~ \E m \in {k \in DOMAIN here : k > n} :
                           here[m].database = g.database /\ here[m].table = g.table}
      <3>1. Database!PostgresApplied(found, here)
              = {g \in found : ~ \E n \in DOMAIN here : here[n].database = g.database
                                                    /\ here[n].table = g.table}
                \cup UNION {kept(n) : n \in DOMAIN here}
        BY Zenon DEF Database!PostgresApplied
      <3> HIDE DEF kept
      <3>2. \A n \in DOMAIN here : kept(n) = Database!On(d, {entries[n].table}, ops(n))
        BY <2>2 DEF kept
      <3> QED BY <3>1, <3>2
    <2> QED BY <2>3, <2>4
  <1>7. \A g : g \in after <=>
           \/ g \in found /\ g.database # d
           \/ \E n \in DOMAIN here : g \in Database!On(d, {entries[n].table}, ops(n))
    <2>1. Database!TablesOf(here) = {entries[n].table : n \in DOMAIN here}
      BY <1>2 DEF Database!TablesOf
    <2>2. Database!AllTables \notin Database!TablesOf(here)
      BY <1>2, <1>3, <2>1
    <2>3. \A n \in DOMAIN here : \A g \in Database!On(d, {entries[n].table}, ops(n)) :
             g.table = entries[n].table
      BY OnFields
    <2> HIDE DEF ops
    <2> QED BY <1>6, <2>1, <2>2, <2>3 DEF Database!PostgresKept, Database!PostgresExcess
  <1>8. \A g : g \in DeclaredIn(spec, i, d) <=>
           \E n \in DOMAIN here : g \in Database!On(d, {entries[n].table}, ops(n))
    <2>1. \A g : g \in Database!Declared(i, entries) <=>
             \E n \in DOMAIN entries :
               g \in Database!On(entries[n].database, {entries[n].table}, ops(n))
      BY <1>3 DEF Database!Declared
    <2>2. \A n \in DOMAIN entries :
            \A g \in Database!On(entries[n].database, {entries[n].table}, ops(n)) :
              g.database = entries[n].database
      BY OnFields
    <2> HIDE DEF ops
    <2> QED BY <1>2, <2>1, <2>2 DEF DeclaredIn, entries
  <1>9. \A n \in DOMAIN here : \A g \in Database!On(d, {entries[n].table}, ops(n)) : g.database = d
    BY OnFields
  <1> HIDE DEF after, ops
  <1>10. \A g : g \in DeclaredIn(spec, i, d) <=> g \in after /\ g.database = d
    BY <1>7, <1>8, <1>9
  <1>11. \A g : g.database # d => (g \in after <=> g \in found)
    BY <1>7, <1>9
  <1> QED BY <1>10, <1>11 DEF after, here, entries

\* MySQL: a database has what is declared of it, and others keep theirs.
LEMMA MySQLAdds ==
    ASSUME NEW i \in MySQL, NEW spec \in DatabaseSpecs \cup {<<>>}, NEW d, NEW found
    PROVE  LET after == Database!MySQLApplied(found, Database!In(Database!At(spec, i), d)) IN
           found \subseteq after /\ DeclaredIn(spec, i, d) \subseteq after
  <1> DEFINE entries == Database!At(spec, i)
             here == Database!In(entries, d)
             ops(n) == Database!GrantOperations(entries[n].operations)
  <1>0. i \notin Postgres
    BY ConstantsAssumption DEF Database!ConstantsAssumption
  <1>1. /\ EntriesTyped(entries, i) /\ DOMAIN entries \subseteq Nat
    BY SpecTyped
  <1>2. /\ DOMAIN here = {n \in DOMAIN entries : entries[n].database = d}
        /\ \A n \in DOMAIN here : here[n] = entries[n] /\ entries[n].database = d
    BY <1>1, InTyped
  <1> HIDE DEF entries, here
  <1>3. \A g \in Database!Declared(i, entries) :
           \E n \in DOMAIN entries :
             g \in Database!On(entries[n].database, {entries[n].table}, ops(n))
    BY <1>0 DEF Database!Declared
  <1>4. \A n \in DOMAIN entries :
          \A g \in Database!On(entries[n].database, {entries[n].table}, ops(n)) :
            g.database = entries[n].database
    BY OnFields
  <1>5. \A n \in DOMAIN here :
          Database!On(entries[n].database, {entries[n].table}, ops(n))
            \subseteq Database!MySQLApplied(found, here)
    BY <1>2 DEF Database!MySQLApplied
  <1>6. DeclaredIn(spec, i, d) \subseteq Database!MySQLApplied(found, here)
    BY <1>2, <1>3, <1>4, <1>5 DEF DeclaredIn, entries
  <1>7. found \subseteq Database!MySQLApplied(found, here)
    BY DEF Database!MySQLApplied
  <1> QED BY <1>6, <1>7 DEF here, entries

\* Of what is declared at MySQL nothing is in excess, and of the rest everything.
LEMMA MySQLExact ==
    ASSUME NEW i \in MySQL, NEW spec \in DatabaseSpecs \cup {<<>>},
           NEW found \in SUBSET Grantable(i),
           Database!Declared(i, Database!At(spec, i)) \subseteq found
    PROVE  found \ Database!MySQLExcess(found, Database!At(spec, i))
             = Database!Declared(i, Database!At(spec, i))
  <1> DEFINE entries == Database!At(spec, i)
             ops(n) == Database!GrantOperations(entries[n].operations)
  <1>0. i \notin Postgres
    BY ConstantsAssumption DEF Database!ConstantsAssumption
  <1>1. \A g : g \in Database!Declared(i, entries) <=>
          \E n \in DOMAIN entries :
            g \in Database!On(entries[n].database, {entries[n].table}, ops(n))
    BY <1>0 DEF Database!Declared
  <1>2. \A n \in DOMAIN entries : \A g \in found :
          g \in Database!On(entries[n].database, {entries[n].table}, ops(n)) <=>
            /\ entries[n].database = g.database /\ entries[n].table = g.table
            /\ g.operation \in ops(n)
    BY OnFields
  <1> HIDE DEF entries
  <1>3. Database!MySQLExcess(found, entries) = found \ Database!Declared(i, entries)
    BY <1>1, <1>2 DEF Database!MySQLExcess
  <1> QED BY <1>3 DEF entries

-----------------------------------------------------------------------------
(* DatabaseGrants: every step keeps the types.                             *)

\* The passes, by where they are.
LEMMA PassesByStage ==
    ASSUME NEW p \in DatabasePasses
    PROVE  /\ p # Database!Idle => p.copy \in Objects /\ p.todo \in SUBSET Database!Instances
           /\ p.pc = "instance" =>
                p \in [pc : {"instance"}, copy : Objects, todo : SUBSET Database!Instances]
           /\ p.pc \in {"revoke", "drop", "annotate", "grant"} =>
                /\ p # Database!Idle
                /\ p \in [pc : {"revoke", "drop", "annotate", "grant"}, copy : Objects,
                          todo : SUBSET Database!Instances, instance : Database!Instances,
                          databases : SUBSET Databases]
           /\ p.pc = "instance" => p # Database!Idle
           /\ p # Database!Idle => p.pc \in {"instance", "revoke", "drop", "annotate", "grant"}
           /\ p = Database!Idle => p.pc = "idle"
  BY DEF DatabasePasses, Database!Idle

\* The databases that entries of a spec name are databases.
LEMMA AtDatabases ==
    ASSUME NEW spec \in DatabaseSpecs \cup {<<>>}, NEW i
    PROVE  Database!DatabasesOf(Database!At(spec, i)) \subseteq Databases
  <1>1. EntriesTyped(Database!At(spec, i), i)
    BY SpecTyped
  <1> QED BY <1>1 DEF EntriesTyped, Database!DatabasesOf, Database!Entries

\* Grants at one instance change, within what may be granted there.
LEMMA GrantedType ==
    ASSUME GrantsType, NEW i \in Database!Instances, NEW after \in SUBSET Grantable(i),
           Database!Grant(i, after)
    PROVE  /\ grants' = [j \in Database!Instances |-> grants'[j]]
           /\ \A j \in Database!Instances : grants'[j] \subseteq Grantable(j)
           /\ grants'[i] = after
           /\ \A j \in Database!Instances \ {i} : grants'[j] = grants[j]
  BY DEF GrantsType, Database!Grant

LEMMA InitGrantsType == Database!Init => GrantsType
  <1> SUFFICES ASSUME Database!Init PROVE GrantsType
    OBVIOUS
  <1>1. Database!NoIntents \in Objects /\ Database!Idle \in DatabasePasses
    BY DEF Database!NoIntents, Objects, Database!None, DatabasePasses
  <1>2. Configured \subseteq Database!Instances
    BY ConstantsAssumption DEF Database!ConstantsAssumption
  <1> QED BY <1>1, <1>2 DEF Database!Init, GrantsType, OfConfigured, Database!NoPod, Database!Idle

LEMMA BeginGrantsType == GrantsType /\ Database!Begin => GrantsType'
  <1> SUFFICES ASSUME GrantsType, Database!Begin PROVE GrantsType'
    OBVIOUS
  <1>1. intents' \in Objects
    BY DEF GrantsType, Database!Begin, Objects
  <1>2. /\ pass' \in DatabasePasses
        /\ pass' = Database!Idle \/ (pass'.pc = "instance" /\ pass'.todo \subseteq configs)
    <2>1. CASE pass' = pass
      BY <2>1 DEF Database!Begin, DatabasePasses
    <2>2. CASE ~(pass' = pass)
      <3>1. /\ pass' = [pc |-> "instance", copy |-> intentsCache,
                        todo |-> IF intentsCache.spec = <<>> THEN {} ELSE configs]
        BY <2>2 DEF Database!Begin
      <3>2. intentsCache \in Objects /\ configs \in SUBSET Database!Instances
        BY DEF GrantsType, OfConfigured
      <3> QED BY <3>1, <3>2 DEF DatabasePasses
    <2> QED BY <2>1, <2>2
  <1>3. pass'.pc \in {"idle", "instance"}
    BY <1>2 DEF Database!Idle
  <1>4. OfConfigured'
    BY <1>2, <1>3 DEF GrantsType, OfConfigured, Database!Begin
  <1> QED BY <1>1, <1>2, <1>4 DEF GrantsType, Database!Begin

LEMMA FailGrantsType ==
    ASSUME GrantsType, Database!Fail, UNCHANGED <<configs, users, intents, intentsCache, pod, podCache>>,
           grants' = [i \in Database!Instances |-> grants'[i]],
           \A i \in Database!Instances : grants'[i] \subseteq Grantable(i),
           \A i \in Database!Instances \ users : grants'[i] = {}
    PROVE  GrantsType'
  <1>1. pass' = Database!Idle /\ pass'.pc = "idle" /\ pass' \in DatabasePasses /\ queued' = TRUE
    BY DEF Database!Fail, Database!Idle, DatabasePasses
  <1> QED BY <1>1 DEF GrantsType, OfConfigured

LEMMA ConnectGrantsType ==
    ASSUME GrantsType, NEW i \in Database!Instances, Database!Connect(i)
    PROVE  GrantsType'
  <1> DEFINE deleted == pass.copy.stage = "deleting" \/ ~Database!Mentions(pass.copy.spec, i)
             at(pc) == [pc |-> pc, copy |-> pass.copy, todo |-> pass.todo \ {i}, instance |-> i,
                        databases |-> Database!DatabasesOf(Database!At(pass.copy.spec, i))]
  <1>0. /\ pass.pc = "instance" /\ i \in Database!Coming(pass.todo)
        /\ UNCHANGED <<intents, intentsCache, configs, grants, pod, podCache>>
    BY DEF Database!Connect
  <1>1. /\ pass \in [pc : {"instance"}, copy : Objects, todo : SUBSET Database!Instances]
        /\ pass # Database!Idle /\ pass.todo \subseteq configs /\ i \in pass.todo
    BY <1>0, PassesByStage DEF GrantsType, OfConfigured, Database!Coming
  <1>2. Database!DatabasesOf(Database!At(pass.copy.spec, i)) \subseteq Databases
    BY <1>1, AtDatabases DEF Objects
  <1>3. CASE deleted /\ i \notin users /\ pass' = [pass EXCEPT !.todo = @ \ {i}]
             /\ UNCHANGED <<users, queued>>
    <2>1. /\ pass' \in DatabasePasses /\ pass'.pc = "instance"
          /\ pass'.todo \subseteq configs
      BY <1>1, <1>3 DEF DatabasePasses
    <2> QED BY <1>0, <1>3, <2>1 DEF GrantsType, OfConfigured
  <1>4. ASSUME NEW pc \in {"revoke", "annotate"}, pass' = at(pc), UNCHANGED queued,
               pc = "revoke" => deleted /\ UNCHANGED users,
               pc = "annotate" => users' = users \cup {i}
        PROVE  GrantsType'
    <2>1. pass' \in DatabasePasses
      BY <1>1, <1>2, <1>4 DEF DatabasePasses
    <2>2. /\ pass'.pc = pc /\ pass'.copy = pass.copy /\ pass'.todo = pass.todo \ {i}
          /\ pass'.instance = i
          /\ pass'.databases = Database!DatabasesOf(Database!At(pass'.copy.spec, pass'.instance))
      BY <1>4
    <2>3. i \in configs /\ users' \subseteq configs /\ users \subseteq users'
          /\ (pc = "annotate" => i \in users')
          /\ (pc = "revoke" => pass'.copy.stage = "deleting"
                               \/ ~Database!Mentions(pass'.copy.spec, pass'.instance))
      BY <1>1, <1>4, <2>2 DEF GrantsType, OfConfigured
    <2> HIDE DEF at
    <2>4. OfConfigured'
      <3>1. \A j \in Database!Instances \ users' : grants'[j] = {}
        BY <1>0, <2>3 DEF GrantsType, OfConfigured
      <3>2. /\ configs' \subseteq Database!Instances
            /\ pod'.instances \subseteq configs' /\ podCache'.instances \subseteq configs'
            /\ pass'.todo \subseteq configs'
        BY <1>0, <1>1, <2>2 DEF GrantsType, OfConfigured
      <3> QED BY <1>0, <1>4, <2>2, <2>3, <3>1, <3>2 DEF OfConfigured
    <2> QED BY <1>0, <1>4, <2>1, <2>4 DEF GrantsType
  <1>5. CASE Database!Fail /\ UNCHANGED users
    BY <1>0, <1>5, FailGrantsType DEF GrantsType, OfConfigured
  <1> QED BY <1>3, <1>4, <1>5 DEF Database!Connect

LEMMA RevokeAllGrantsType == GrantsType /\ Database!RevokeAll => GrantsType'
  <1> SUFFICES ASSUME GrantsType, Database!RevokeAll PROVE GrantsType'
    OBVIOUS
  <1> DEFINE i == pass.instance
  <1>0. pass.pc = "revoke" /\ UNCHANGED <<intents, intentsCache, configs, users, pod, podCache>>
    BY DEF Database!RevokeAll
  <1>1. /\ pass \in [pc : {"revoke", "drop", "annotate", "grant"}, copy : Objects,
                     todo : SUBSET Database!Instances, instance : Database!Instances,
                     databases : SUBSET Databases]
        /\ i \in Database!Instances /\ pass # Database!Idle
    BY <1>0, PassesByStage DEF GrantsType
  <1>2. PICK after \in SUBSET grants[i] : Database!Grant(i, after)
    BY DEF Database!RevokeAll
  <1>3. after \in SUBSET Grantable(i)
    BY <1>1, <1>2 DEF GrantsType
  <1>4. /\ grants' = [j \in Database!Instances |-> grants'[j]]
        /\ \A j \in Database!Instances : grants'[j] \subseteq Grantable(j)
        /\ \A j \in Database!Instances : grants'[j] \subseteq grants[j]
    BY <1>1, <1>2, <1>3, GrantedType
  <1>5. \A j \in Database!Instances \ users : grants'[j] = {}
    BY <1>4 DEF GrantsType, OfConfigured
  <1>6. CASE pass' = [pass EXCEPT !.pc = "drop"] /\ UNCHANGED queued
    <2>1. /\ pass' \in DatabasePasses /\ pass'.pc = "drop" /\ pass'.todo = pass.todo
          /\ pass'.copy = pass.copy /\ pass'.instance = i /\ pass'.databases = pass.databases
      BY <1>1, <1>6 DEF DatabasePasses
    <2>2. OfConfigured'
      BY <1>0, <1>1, <1>5, <2>1 DEF GrantsType, OfConfigured
    <2> QED BY <1>0, <1>4, <1>6, <2>1, <2>2 DEF GrantsType
  <1>7. CASE Database!Fail
    BY <1>0, <1>4, <1>5, <1>7, FailGrantsType
  <1> QED BY <1>6, <1>7 DEF Database!RevokeAll

LEMMA DropUserGrantsType == GrantsType /\ Database!DropUser => GrantsType'
  <1> SUFFICES ASSUME GrantsType, Database!DropUser PROVE GrantsType'
    OBVIOUS
  <1> DEFINE i == pass.instance
  <1>0. pass.pc = "drop" /\ UNCHANGED <<intents, intentsCache, configs, pod, podCache>>
    BY DEF Database!DropUser
  <1>1. /\ pass \in [pc : {"revoke", "drop", "annotate", "grant"}, copy : Objects,
                     todo : SUBSET Database!Instances, instance : Database!Instances,
                     databases : SUBSET Databases]
        /\ i \in Database!Instances /\ pass # Database!Idle
    BY <1>0, PassesByStage DEF GrantsType
  <1>2. CASE /\ users' = users \ {i} /\ Database!Grant(i, {})
             /\ pass' = [pass EXCEPT !.pc = "annotate"] /\ UNCHANGED queued
    <2>1. /\ grants' = [j \in Database!Instances |-> grants'[j]]
          /\ \A j \in Database!Instances : grants'[j] \subseteq Grantable(j)
          /\ grants'[i] = {}
          /\ \A j \in Database!Instances \ {i} : grants'[j] = grants[j]
      BY <1>1, <1>2, GrantedType
    <2>2. /\ pass' \in DatabasePasses /\ pass'.pc = "annotate" /\ pass'.todo = pass.todo
          /\ pass'.copy = pass.copy /\ pass'.instance = i /\ pass'.databases = pass.databases
      BY <1>1, <1>2 DEF DatabasePasses
    <2>3. ~(pass.copy.stage # "deleting" /\ Database!Mentions(pass.copy.spec, i))
      BY <1>0 DEF GrantsType, OfConfigured
    <2>4. OfConfigured'
      BY <1>0, <1>1, <1>2, <2>1, <2>2, <2>3 DEF GrantsType, OfConfigured
    <2> QED BY <1>0, <1>2, <2>1, <2>2, <2>4 DEF GrantsType
  <1>3. CASE Database!Fail /\ UNCHANGED <<users, grants>>
    BY <1>0, <1>3, FailGrantsType DEF GrantsType, OfConfigured
  <1> QED BY <1>2, <1>3 DEF Database!DropUser

LEMMA AnnotateGrantsType == GrantsType /\ Database!Annotate => GrantsType'
  <1> SUFFICES ASSUME GrantsType, Database!Annotate PROVE GrantsType'
    OBVIOUS
  <1> DEFINE i == pass.instance
             grant == pass.copy.stage # "deleting" /\ Database!Mentions(pass.copy.spec, i)
  <1>0. pass.pc = "annotate" /\ UNCHANGED <<intents, intentsCache, configs, users, grants, podCache>>
    BY DEF Database!Annotate
  <1>1. /\ pass \in [pc : {"revoke", "drop", "annotate", "grant"}, copy : Objects,
                     todo : SUBSET Database!Instances, instance : Database!Instances,
                     databases : SUBSET Databases]
        /\ i \in Database!Instances /\ pass # Database!Idle
    BY <1>0, PassesByStage DEF GrantsType
  <1>2. pod'.instances \subseteq configs
    <2>1. i \in configs
      BY <1>0 DEF GrantsType, OfConfigured
    <2>2. pod' = pod \/ pod' = Database!Annotated({})
          \/ pod' = Database!Annotated(podCache.instances \cup {i})
      BY DEF Database!Annotate
    <2> QED BY <2>1, <2>2 DEF GrantsType, OfConfigured, Database!Annotated
  <1>3. CASE Database!Fail /\ UNCHANGED pod
    BY <1>0, <1>3, FailGrantsType DEF GrantsType, OfConfigured
  <1>4. CASE grant /\ pass' = [pass EXCEPT !.pc = "grant"] /\ UNCHANGED queued
    <2>1. /\ pass' \in DatabasePasses /\ pass'.pc = "grant" /\ pass'.todo = pass.todo
          /\ pass'.copy = pass.copy /\ pass'.instance = i /\ pass'.databases = pass.databases
      BY <1>1, <1>4 DEF DatabasePasses
    <2>2. i \in users
      BY <1>0, <1>4 DEF GrantsType, OfConfigured
    <2>3. OfConfigured'
      BY <1>0, <1>1, <1>2, <2>1, <2>2 DEF GrantsType, OfConfigured
    <2> QED BY <1>0, <1>4, <2>1, <2>3 DEF GrantsType
  <1>5. CASE /\ pass' = [pc |-> "instance", copy |-> pass.copy, todo |-> pass.todo]
             /\ UNCHANGED queued
    <2>1. pass' \in DatabasePasses /\ pass'.pc = "instance" /\ pass'.todo = pass.todo
      BY <1>1, <1>5 DEF DatabasePasses
    <2>2. OfConfigured'
      BY <1>0, <1>1, <1>2, <2>1 DEF GrantsType, OfConfigured
    <2> QED BY <1>0, <1>5, <2>1, <2>2 DEF GrantsType
  <1> QED BY <1>3, <1>4, <1>5 DEF Database!Annotate

\* A pass that grants at an instance leaves types as they are.
LEMMA GrantingType ==
    ASSUME GrantsType, pass.pc = "grant", NEW after \in SUBSET Grantable(pass.instance),
           Database!Grant(pass.instance, after),
           UNCHANGED <<intents, intentsCache, configs, users, pod, podCache>>,
           \/ Database!Fail
           \/ \E d : pass' = [pass EXCEPT !.databases = @ \ {d}] /\ UNCHANGED queued
           \/ /\ pass' = [pc |-> "instance", copy |-> pass.copy, todo |-> pass.todo]
              /\ UNCHANGED queued
    PROVE  GrantsType'
  <1>1. /\ pass \in [pc : {"revoke", "drop", "annotate", "grant"}, copy : Objects,
                     todo : SUBSET Database!Instances, instance : Database!Instances,
                     databases : SUBSET Databases]
        /\ pass.instance \in Database!Instances /\ pass # Database!Idle
        /\ pass.instance \in users
    BY PassesByStage DEF GrantsType, OfConfigured
  <1>2. /\ grants' = [j \in Database!Instances |-> grants'[j]]
        /\ \A j \in Database!Instances : grants'[j] \subseteq Grantable(j)
        /\ \A j \in Database!Instances \ {pass.instance} : grants'[j] = grants[j]
    BY <1>1, GrantedType
  <1>3. \A j \in Database!Instances \ users : grants'[j] = {}
    BY <1>1, <1>2 DEF GrantsType, OfConfigured
  <1>4. CASE Database!Fail
    BY <1>2, <1>3, <1>4, FailGrantsType
  <1>5. CASE \E d : pass' = [pass EXCEPT !.databases = @ \ {d}] /\ UNCHANGED queued
    <2>1. /\ pass' \in DatabasePasses /\ pass'.pc = "grant" /\ pass'.todo = pass.todo
          /\ pass'.copy = pass.copy /\ pass'.instance = pass.instance
          /\ pass'.databases \subseteq pass.databases
      BY <1>1, <1>5 DEF DatabasePasses
    <2>2. OfConfigured'
      BY <1>1, <1>3, <2>1 DEF GrantsType, OfConfigured
    <2> QED BY <1>2, <1>5, <2>1, <2>2 DEF GrantsType
  <1>6. CASE /\ pass' = [pc |-> "instance", copy |-> pass.copy, todo |-> pass.todo]
             /\ UNCHANGED queued
    <2>1. pass' \in DatabasePasses /\ pass'.pc = "instance" /\ pass'.todo = pass.todo
      BY <1>1, <1>6 DEF DatabasePasses
    <2>2. OfConfigured'
      BY <1>1, <1>3, <2>1 DEF GrantsType, OfConfigured
    <2> QED BY <1>2, <1>6, <2>1, <2>2 DEF GrantsType
  <1> QED BY <1>4, <1>5, <1>6

LEMMA GrantDatabaseGrantsType ==
    ASSUME GrantsType, NEW d, Database!GrantDatabase(d)
    PROVE  GrantsType'
  <1> DEFINE i == pass.instance
             entries == Database!In(Database!At(pass.copy.spec, i), d)
  <1>0. pass.pc = "grant"
    BY DEF Database!GrantDatabase
  <1>1. i \in Database!Instances /\ pass.copy.spec \in DatabaseSpecs \cup {<<>>}
    BY <1>0, PassesByStage DEF GrantsType, Objects
  <1>2. i \notin Postgres => i \in MySQL
    BY <1>1 DEF Database!Instances
  <1>3. EntriesTyped(entries, i) /\ \A n : EntriesTyped(Database!First(entries, n), i)
    <2> DEFINE all == Database!At(pass.copy.spec, i)
    <2>0. EntriesTyped(all, i) /\ DOMAIN all \subseteq Nat
      BY <1>1, SpecTyped
    <2> HIDE DEF all
    <2>1. EntriesTyped(entries, i) /\ DOMAIN entries \subseteq Nat
      BY <2>0, InTyped DEF all
    <2> HIDE DEF entries
    <2> QED BY <2>1, InTyped
  <1>4. grants[i] \in SUBSET Grantable(i)
    BY <1>1 DEF GrantsType
  <1> HIDE DEF entries
  <1>5. /\ i \in Postgres => Database!PostgresApplied(grants[i], entries) \subseteq Grantable(i)
        /\ i \notin Postgres =>
             /\ Database!MySQLApplied(grants[i], entries) \subseteq Grantable(i)
             /\ \A n : Database!MySQLApplied(grants[i], Database!First(entries, n)) \subseteq Grantable(i)
    BY <1>1, <1>2, <1>3, <1>4, AppliedGrantable
  <1>6. PICK after \in SUBSET Grantable(i) : Database!Grant(i, after)
    <2>1. CASE Database!Grant(i, IF i \in Postgres
                 THEN Database!PostgresKept(Database!PostgresApplied(grants[i], entries), d, entries)
                 ELSE Database!MySQLApplied(grants[i], entries))
      BY <1>5, <2>1 DEF Database!PostgresKept
    <2>2. CASE \E left \in IF i \in Postgres
                 THEN {grants[i], Database!PostgresApplied(grants[i], entries)}
                 ELSE {Database!MySQLApplied(grants[i], Database!First(entries, n)) :
                         n \in 0 .. Len(pass.copy.spec)} : Database!Grant(i, left)
      BY <1>4, <1>5, <2>2
    <2> QED BY <2>1, <2>2 DEF Database!GrantDatabase, entries
  <1>7. /\ UNCHANGED <<intents, intentsCache, configs, users, pod, podCache>>
        /\ \/ Database!Fail
           \/ pass' = [pass EXCEPT !.databases = @ \ {d}] /\ UNCHANGED queued
    BY DEF Database!GrantDatabase
  <1> QED BY <1>0, <1>6, <1>7, GrantingType

LEMMA RevokeExcessGrantsType == GrantsType /\ Database!RevokeExcess => GrantsType'
  <1> SUFFICES ASSUME GrantsType, Database!RevokeExcess PROVE GrantsType'
    OBVIOUS
  <1>0. pass.pc = "grant" /\ UNCHANGED <<intents, intentsCache, configs, users, pod, podCache>>
    BY DEF Database!RevokeExcess
  <1>1. pass.instance \in Database!Instances
    BY <1>0, PassesByStage DEF GrantsType
  <1>2. PICK after \in SUBSET grants[pass.instance] : Database!Grant(pass.instance, after)
    BY DEF Database!RevokeExcess
  <1>3. after \in SUBSET Grantable(pass.instance)
    BY <1>1, <1>2 DEF GrantsType
  <1>4. \/ Database!Fail
        \/ /\ pass' = [pc |-> "instance", copy |-> pass.copy, todo |-> pass.todo]
           /\ UNCHANGED queued
    BY DEF Database!RevokeExcess
  <1> QED BY <1>0, <1>2, <1>3, <1>4, GrantingType

LEMMA EndGrantsType == GrantsType /\ Database!End => GrantsType'
  <1> SUFFICES ASSUME GrantsType, Database!End PROVE GrantsType'
    OBVIOUS
  <1>1. pass' = Database!Idle /\ pass'.pc = "idle" /\ pass' \in DatabasePasses
    BY DEF Database!End, Database!Idle, DatabasePasses
  <1>2. intents' \in Objects
    BY DEF Database!End, GrantsType, Objects, Database!NoIntents, Database!None
  <1>4. queued' \in BOOLEAN
    BY Zenon DEF Database!End, GrantsType
  <1>3. UNCHANGED <<intentsCache, configs, users, grants, pod, podCache>>
    BY DEF Database!End
  <1> QED BY <1>1, <1>2, <1>3, <1>4 DEF GrantsType, OfConfigured

LEMMA AroundGrantsType ==
    GrantsType /\ (Database!Sync \/ Database!Users \/ UNCHANGED Database!vars) => GrantsType'
  <1> SUFFICES ASSUME GrantsType, Database!Sync \/ Database!Users \/ UNCHANGED Database!vars
               PROVE  GrantsType'
    OBVIOUS
  <1>1. CASE Database!ChangeIntents
    <2>1. intents' \in Objects
      BY <1>1 DEF Database!ChangeIntents, GrantsType, Objects, Database!None
    <2> QED BY <1>1, <2>1 DEF Database!ChangeIntents, GrantsType, OfConfigured
  <1>2. ASSUME NEW i \in Database!Instances, Database!Configure(i)
        PROVE  GrantsType'
    <2>1. queued' \in BOOLEAN
      BY <1>2 DEF Database!Configure, GrantsType
    <2> QED BY <1>2, <2>1 DEF Database!Configure, GrantsType, OfConfigured
  <1>3. CASE Database!StartPod
    BY <1>3 DEF Database!StartPod, GrantsType, OfConfigured, Database!BarePod, Database!Annotated
  <1>4. CASE Database!SyncIntents
    BY <1>4 DEF Database!SyncIntents, GrantsType, OfConfigured
  <1>5. CASE Database!SyncPod
    <2>1. queued' \in BOOLEAN
      BY <1>5 DEF Database!SyncPod, GrantsType
    <2> QED BY <1>5, <2>1 DEF Database!SyncPod, GrantsType, OfConfigured
  <1>6. CASE UNCHANGED Database!vars
    BY <1>6 DEF Database!vars, GrantsType, OfConfigured
  <1> QED BY <1>1, <1>2, <1>3, <1>4, <1>5, <1>6 DEF Database!Sync, Database!Users

LEMMA GrantsTypeInvariant == Database!Spec => []GrantsType
  <1>1. GrantsType /\ [Database!Next]_(Database!vars) => GrantsType'
    BY BeginGrantsType, ConnectGrantsType, RevokeAllGrantsType, DropUserGrantsType,
       AnnotateGrantsType, GrantDatabaseGrantsType, RevokeExcessGrantsType, EndGrantsType,
       AroundGrantsType
    DEF Database!Next, Database!Step
  <1> QED BY <1>1, InitGrantsType, PTL DEF Database!Spec

-----------------------------------------------------------------------------
(* DatabaseGrants: every step keeps what holds at rest.                    *)

\* A pass goes on with one instance and leaves the others alone.
LEMMA InstanceStep ==
    ASSUME GrantsType, GrantsInv, NEW i,
           pass # Database!Idle, pass.pc = "instance" \/ pass.instance = i,
           UNCHANGED <<intentsCache, configs, queued>>,
           pass' # Database!Idle, pass'.copy = pass.copy, pass.todo \ {i} \subseteq pass'.todo,
           pass'.pc = "instance" \/ pass'.instance = i,
           \A j \in Database!Instances \ {i} :
             grants'[j] = grants[j] /\ (j \in users' <=> j \in users),
           ~queued /\ pass.copy = intentsCache /\ intentsCache.stage = "live"
             /\ intentsCache.spec # <<>> =>
             IF AtInstance(i)' THEN InHand(i)' ELSE GrantsDone(i)'
    PROVE  GrantsInv'
  <1> SUFFICES ASSUME ~queued, intentsCache.stage = "live", intentsCache.spec # <<>>,
                      NEW j \in configs, j # i
               PROVE  ~AtInstance(j)' /\ (GrantsDone(j)' \/ j \in pass'.todo)
    BY DEF GrantsInv
  <1>1. ~AtInstance(j) /\ ~AtInstance(j)'
    BY DEF AtInstance
  <1>2. GrantsDone(j) \/ j \in pass'.todo
    BY <1>1 DEF GrantsInv
  <1>3. GrantsDone(j) => GrantsDone(j)'
    BY DEF GrantsDone, GrantsType, OfConfigured
  <1> QED BY <1>1, <1>2, <1>3

LEMMA BeginGrants == GrantsType /\ GrantsInv /\ Database!Begin => GrantsInv'
  <1> SUFFICES ASSUME GrantsType, GrantsInv, Database!Begin, ~queued',
                      UNCHANGED <<intentsCache, configs, users, grants>>
               PROVE  GrantsInv'
    BY DEF Database!Begin, GrantsInv
  <1>1. CASE intentsCache.stage = "none" /\ pass' = Database!Idle
    BY <1>1 DEF GrantsInv
  <1>2. CASE pass' = [pc |-> "instance", copy |-> intentsCache,
                      todo |-> IF intentsCache.spec = <<>> THEN {} ELSE configs]
    <2>1. pass'.copy = intentsCache /\ (intentsCache.spec # <<>> => pass'.todo = configs)
          /\ pass'.pc = "instance"
      BY <1>2
    <2>2. pass' # Database!Idle
      BY <2>1 DEF Database!Idle
    <2> QED BY <2>1, <2>2 DEF GrantsInv, AtInstance
  <1>3. \/ intentsCache.stage = "none" /\ pass' = Database!Idle
        \/ pass' = [pc |-> "instance", copy |-> intentsCache,
                    todo |-> IF intentsCache.spec = <<>> THEN {} ELSE configs]
    BY DEF Database!Begin, Database!None
  <1> QED BY <1>1, <1>2, <1>3

LEMMA FailGrants ==
    ASSUME Database!Fail
    PROVE  GrantsInv'
  BY DEF Database!Fail, GrantsInv

LEMMA ConnectGrants ==
    ASSUME GrantsType, GrantsInv, NEW i \in Database!Instances, Database!Connect(i)
    PROVE  GrantsInv'
  <1> DEFINE deleted == pass.copy.stage = "deleting" \/ ~Database!Mentions(pass.copy.spec, i)
             at(pc) == [pc |-> pc, copy |-> pass.copy, todo |-> pass.todo \ {i}, instance |-> i,
                        databases |-> Database!DatabasesOf(Database!At(pass.copy.spec, i))]
  <1>0. pass.pc = "instance" /\ UNCHANGED <<intentsCache, configs, grants>>
    BY DEF Database!Connect
  <1>1. /\ pass \in [pc : {"instance"}, copy : Objects, todo : SUBSET Database!Instances]
        /\ pass # Database!Idle
    BY <1>0, PassesByStage DEF GrantsType
  <1>2. CASE deleted /\ i \notin users /\ pass' = [pass EXCEPT !.todo = @ \ {i}]
             /\ UNCHANGED <<users, queued>>
    <2>1. /\ pass'.pc = "instance" /\ pass'.copy = pass.copy /\ pass'.todo = pass.todo \ {i}
          /\ pass' # Database!Idle
      BY <1>1, <1>2 DEF Database!Idle
    <2>2. pass.copy = intentsCache /\ intentsCache.stage = "live" =>
            ~AtInstance(i)' /\ GrantsDone(i)'
      BY <1>0, <1>2, <2>1 DEF AtInstance, GrantsDone
    <2> QED BY <1>0, <1>1, <1>2, <2>1, <2>2, InstanceStep
  <1>3. ASSUME NEW pc \in {"revoke", "annotate"}, pass' = at(pc), UNCHANGED queued,
               pc = "revoke" => deleted /\ UNCHANGED users,
               pc = "annotate" => ~deleted /\ users' = users \cup {i}
        PROVE  GrantsInv'
    <2>1. /\ pass'.pc = pc /\ pass'.copy = pass.copy /\ pass'.todo = pass.todo \ {i}
          /\ pass'.instance = i
          /\ pass'.databases = Database!DatabasesOf(Database!At(pass.copy.spec, i))
      BY <1>3
    <2>2. pass' # Database!Idle
      BY <2>1 DEF Database!Idle
    <2>3. pass.copy = intentsCache /\ intentsCache.stage = "live" => InHand(i)'
      <3> SUFFICES ASSUME pass.copy = intentsCache, intentsCache.stage = "live"
                   PROVE  InHand(i)'
        OBVIOUS
      <3>1. pc = "revoke" => ~Database!Mentions(intentsCache'.spec, i)
        BY <1>0, <1>3
      <3>2. pc = "annotate" => Database!Mentions(intentsCache'.spec, i)
        BY <1>0, <1>3
      <3> HIDE DEF at, deleted
      <3>3. pass'.databases = Database!DatabasesOf(Database!At(intentsCache'.spec, i))
        BY <1>0, <2>1
      <3> QED BY <2>1, <3>1, <3>2, <3>3 DEF InHand
    <2>4. AtInstance(i)'
      BY <2>1 DEF AtInstance
    <2>5. \A j \in Database!Instances \ {i} : j \in users' <=> j \in users
      BY <1>3
    <2> HIDE DEF at, deleted
    <2> QED BY <1>0, <1>1, <1>3, <2>1, <2>2, <2>3, <2>4, <2>5, InstanceStep
  <1> QED BY <1>2, <1>3, FailGrants DEF Database!Connect

\* The passes with an instance in hand, and what they know.
LEMMA InHandPass ==
    ASSUME GrantsType, GrantsInv, pass.pc \in {"revoke", "drop", "annotate", "grant"}
    PROVE  /\ pass \in [pc : {"revoke", "drop", "annotate", "grant"}, copy : Objects,
                        todo : SUBSET Database!Instances, instance : Database!Instances,
                        databases : SUBSET Databases]
           /\ pass.instance \in configs /\ pass # Database!Idle
           /\ ~queued /\ intentsCache.stage = "live" /\ intentsCache.spec # <<>> =>
                InHand(pass.instance)
  BY PassesByStage DEF GrantsType, OfConfigured, GrantsInv, AtInstance

LEMMA RevokeAllGrants == GrantsType /\ GrantsInv /\ Database!RevokeAll => GrantsInv'
  <1> SUFFICES ASSUME GrantsType, GrantsInv, Database!RevokeAll PROVE GrantsInv'
    OBVIOUS
  <1>i. PICK i : i = pass.instance
    OBVIOUS
  <1>0. pass.pc = "revoke" /\ UNCHANGED <<intentsCache, configs, users>>
    BY DEF Database!RevokeAll
  <1>1. /\ pass \in [pc : {"revoke", "drop", "annotate", "grant"}, copy : Objects,
                     todo : SUBSET Database!Instances, instance : Database!Instances,
                     databases : SUBSET Databases]
        /\ i \in configs /\ pass # Database!Idle
    BY <1>i, <1>0, InHandPass
  <1>2. CASE pass' = [pass EXCEPT !.pc = "drop"] /\ UNCHANGED queued
    <2>1. /\ pass'.pc = "drop" /\ pass'.todo = pass.todo /\ pass'.copy = pass.copy
          /\ pass'.instance = i /\ pass' # Database!Idle
      BY <1>i, <1>1, <1>2 DEF Database!Idle
    <2>2. \A j \in Database!Instances \ {i} : grants'[j] = grants[j]
      BY <1>i DEF Database!RevokeAll, Database!Grant, GrantsType
    <2>3. ~Database!Mentions(pass.copy.spec, i) \/ pass.copy.stage = "deleting"
      BY <1>i, <1>0 DEF GrantsType, OfConfigured
    <2>4. pass.copy = intentsCache /\ intentsCache.stage = "live" =>
            AtInstance(i)' /\ InHand(i)'
      BY <1>i, <1>0, <2>1, <2>3 DEF AtInstance, InHand
    <2> QED BY <1>i, <1>0, <1>1, <1>2, <2>1, <2>2, <2>4, InstanceStep
  <1> QED BY <1>2, <1>i, FailGrants DEF Database!RevokeAll

LEMMA DropUserGrants == GrantsType /\ GrantsInv /\ Database!DropUser => GrantsInv'
  <1> SUFFICES ASSUME GrantsType, GrantsInv, Database!DropUser PROVE GrantsInv'
    OBVIOUS
  <1>i. PICK i : i = pass.instance
    OBVIOUS
  <1>0. pass.pc = "drop" /\ UNCHANGED <<intentsCache, configs>>
    BY DEF Database!DropUser
  <1>1. /\ pass \in [pc : {"revoke", "drop", "annotate", "grant"}, copy : Objects,
                     todo : SUBSET Database!Instances, instance : Database!Instances,
                     databases : SUBSET Databases]
        /\ i \in configs /\ pass # Database!Idle
    BY <1>i, <1>0, InHandPass
  <1>2. CASE /\ users' = users \ {i} /\ Database!Grant(i, {})
             /\ pass' = [pass EXCEPT !.pc = "annotate"] /\ UNCHANGED queued
    <2>1. /\ pass'.pc = "annotate" /\ pass'.todo = pass.todo /\ pass'.copy = pass.copy
          /\ pass'.instance = i /\ pass' # Database!Idle
      BY <1>i, <1>1, <1>2 DEF Database!Idle
    <2>2. \A j \in Database!Instances \ {i} :
            grants'[j] = grants[j] /\ (j \in users' <=> j \in users)
      BY <1>2 DEF Database!Grant, GrantsType
    <2>3. ~Database!Mentions(pass.copy.spec, i) \/ pass.copy.stage = "deleting"
      BY <1>i, <1>0 DEF GrantsType, OfConfigured
    <2>4. pass.copy = intentsCache /\ intentsCache.stage = "live" =>
            AtInstance(i)' /\ InHand(i)'
      BY <1>i, <1>0, <1>2, <2>1, <2>3 DEF AtInstance, InHand
    <2> QED BY <1>i, <1>0, <1>1, <1>2, <2>1, <2>2, <2>4, InstanceStep
  <1> QED BY <1>2, <1>i, FailGrants DEF Database!DropUser

LEMMA AnnotateGrants == GrantsType /\ GrantsInv /\ Database!Annotate => GrantsInv'
  <1> SUFFICES ASSUME GrantsType, GrantsInv, Database!Annotate PROVE GrantsInv'
    OBVIOUS
  <1>i. PICK i : i = pass.instance
    OBVIOUS
  <1> DEFINE grant == pass.copy.stage # "deleting" /\ Database!Mentions(pass.copy.spec, i)
  <1>0. pass.pc = "annotate" /\ UNCHANGED <<intentsCache, configs, users, grants>>
    BY DEF Database!Annotate
  <1>1. /\ pass \in [pc : {"revoke", "drop", "annotate", "grant"}, copy : Objects,
                     todo : SUBSET Database!Instances, instance : Database!Instances,
                     databases : SUBSET Databases]
        /\ i \in configs /\ pass # Database!Idle
        /\ ~queued /\ intentsCache.stage = "live" /\ intentsCache.spec # <<>> => InHand(i)
    BY <1>i, <1>0, InHandPass
  <1>3. CASE grant /\ pass' = [pass EXCEPT !.pc = "grant"] /\ UNCHANGED queued
    <2>1. /\ pass'.pc = "grant" /\ pass'.todo = pass.todo /\ pass'.copy = pass.copy
          /\ pass'.instance = i /\ pass'.databases = pass.databases
          /\ pass' # Database!Idle
      BY <1>i, <1>1, <1>3 DEF Database!Idle
    <2>2. ~queued /\ pass.copy = intentsCache /\ intentsCache.stage = "live" =>
            AtInstance(i)' /\ InHand(i)'
      <3> SUFFICES ASSUME ~queued, pass.copy = intentsCache, intentsCache.stage = "live"
                   PROVE  AtInstance(i)' /\ InHand(i)'
        OBVIOUS
      <3>1. Database!Mentions(intentsCache.spec, i) /\ intentsCache.spec # <<>>
        BY <1>3 DEF Database!Mentions
      <3>2. pass'.databases = Database!DatabasesOf(Database!At(intentsCache.spec, i))
        BY <1>i, <1>0, <1>1, <2>1, <3>1 DEF InHand
      <3> QED BY <1>i, <1>0, <2>1, <3>1, <3>2 DEF AtInstance, InHand
    <2> QED BY <1>i, <1>0, <1>1, <1>3, <2>1, <2>2, InstanceStep
  <1>4. CASE /\ ~grant /\ UNCHANGED queued
             /\ pass' = [pc |-> "instance", copy |-> pass.copy, todo |-> pass.todo]
    <2>1. /\ pass'.pc = "instance" /\ pass'.todo = pass.todo /\ pass'.copy = pass.copy
          /\ pass' # Database!Idle
      BY <1>4 DEF Database!Idle
    <2>2. ~queued /\ pass.copy = intentsCache /\ intentsCache.stage = "live"
          /\ intentsCache.spec # <<>> =>
            ~AtInstance(i)' /\ GrantsDone(i)'
      <3> SUFFICES ASSUME ~queued, pass.copy = intentsCache, intentsCache.stage = "live",
                          intentsCache.spec # <<>>
                   PROVE  ~AtInstance(i)' /\ GrantsDone(i)'
        OBVIOUS
      <3>1. ~Database!Mentions(intentsCache.spec, i)
        BY <1>4
      <3>2. i \notin users
        BY <1>i, <1>0, <1>1, <3>1 DEF InHand
      <3> QED BY <1>i, <1>0, <2>1, <3>1, <3>2 DEF AtInstance, GrantsDone
    <2> HIDE DEF grant
    <2> QED BY <1>i, <1>0, <1>1, <1>4, <2>1, <2>2, InstanceStep
  <1> QED BY <1>3, <1>4, <1>i, FailGrants DEF Database!Annotate

LEMMA GrantDatabaseGrants ==
    ASSUME GrantsType, GrantsInv, NEW d, Database!GrantDatabase(d)
    PROVE  GrantsInv'
  <1>i. PICK i : i = pass.instance
    OBVIOUS
  <1> DEFINE spec == intentsCache.spec
             here == Database!In(Database!At(spec, i), d)
  <1>0. pass.pc = "grant" /\ UNCHANGED <<intentsCache, configs, users>>
    BY DEF Database!GrantDatabase
  <1>1. /\ pass \in [pc : {"revoke", "drop", "annotate", "grant"}, copy : Objects,
                     todo : SUBSET Database!Instances, instance : Database!Instances,
                     databases : SUBSET Databases]
        /\ i \in Database!Instances /\ pass # Database!Idle
        /\ ~queued /\ intentsCache.stage = "live" /\ spec # <<>> => InHand(i)
    BY <1>i, <1>0, InHandPass DEF GrantsType, OfConfigured
  <1>2. CASE /\ Database!Grant(i, IF i \in Postgres
                  THEN Database!PostgresKept(
                         Database!PostgresApplied(grants[i], Database!In(Database!At(pass.copy.spec, i), d)),
                         d, Database!In(Database!At(pass.copy.spec, i), d))
                  ELSE Database!MySQLApplied(grants[i], Database!In(Database!At(pass.copy.spec, i), d)))
             /\ pass' = [pass EXCEPT !.databases = @ \ {d}]
             /\ UNCHANGED queued
    <2>1. /\ pass'.pc = "grant" /\ pass'.todo = pass.todo /\ pass'.copy = pass.copy
          /\ pass'.instance = i /\ pass'.databases = pass.databases \ {d}
          /\ pass' # Database!Idle
      BY <1>i, <1>0, <1>1, <1>2 DEF Database!Idle
    <2>2. \A j \in Database!Instances \ {i} : grants'[j] = grants[j]
      BY <1>2 DEF Database!Grant, GrantsType
    <2>3. ~queued /\ pass.copy = intentsCache /\ intentsCache.stage = "live" /\ spec # <<>> =>
            AtInstance(i)' /\ InHand(i)'
      <3> SUFFICES ASSUME ~queued, pass.copy = intentsCache, intentsCache.stage = "live", spec # <<>>
                   PROVE  AtInstance(i)' /\ InHand(i)'
        OBVIOUS
      <3>1. spec \in DatabaseSpecs \cup {<<>>} /\ grants[i] \in SUBSET Grantable(i)
        BY <1>1 DEF GrantsType, Objects
      <3>2. PICK s : s = spec
        OBVIOUS
      <3>3. grants'[i] = IF i \in Postgres
                         THEN Database!PostgresKept(Database!PostgresApplied(grants[i], here), d, here)
                         ELSE Database!MySQLApplied(grants[i], here)
        BY <1>1, <1>2 DEF Database!Grant, GrantsType
      <3>4. Database!Mentions(s, i)
        BY <1>0, <1>1, <3>2 DEF InHand
      <3>5. ASSUME Exact(s, i), NEW e \in Database!DatabasesOf(Database!At(s, i)) \ pass'.databases
            PROVE  IF i \in Postgres
                   THEN {g \in grants'[i] : g.database = e} = DeclaredIn(s, i, e)
                   ELSE DeclaredIn(s, i, e) \subseteq grants'[i]
        <4>1. e = d \/ e \in Database!DatabasesOf(Database!At(s, i)) \ pass.databases
          BY <2>1
        <4>2. e # d => IF i \in Postgres
                       THEN {g \in grants[i] : g.database = e} = DeclaredIn(s, i, e)
                       ELSE DeclaredIn(s, i, e) \subseteq grants[i]
          BY <1>0, <1>1, <3>2, <3>5, <4>1 DEF InHand
        <4>3. CASE i \in Postgres
          <5>1. /\ \A g : g \in DeclaredIn(s, i, d) <=> g \in grants'[i] /\ g.database = d
                /\ \A g : g.database # d => (g \in grants'[i] <=> g \in grants[i])
            <6>1. PICK found \in SUBSET Grantable(i) : found = grants[i]
              BY <3>1
            <6> DEFINE in == Database!In(Database!At(s, i), d)
                       after == Database!PostgresKept(Database!PostgresApplied(found, in), d, in)
            <6>2. grants'[i] = after
              BY <3>2, <3>3, <4>3, <6>1
            <6>3. /\ \A g : g \in DeclaredIn(s, i, d) <=> g \in after /\ g.database = d
                  /\ \A g : g.database # d => (g \in after <=> g \in found)
              <7>1. Exact(s, i)
                BY <3>5
              <7>2. s \in DatabaseSpecs \cup {<<>>}
                BY <3>1, <3>2
              <7>3. i \in Postgres
                BY <4>3
              <7> HIDE DEF here
              <7> QED BY <7>1, <7>2, <7>3, PostgresExact
            <6> HIDE DEF after
            <6> QED BY <6>1, <6>2, <6>3
          <5> QED BY <4>2, <4>3, <5>1
        <4>4. CASE i \notin Postgres
          <5>1. i \in MySQL
            BY <1>1, <4>4 DEF Database!Instances
          <5>2. grants[i] \subseteq grants'[i] /\ DeclaredIn(s, i, d) \subseteq grants'[i]
            BY <3>1, <3>2, <3>3, <4>4, <5>1, MySQLAdds
          <5> QED BY <4>2, <4>4, <5>2
        <4> QED BY <4>3, <4>4
      <3>6. s = intentsCache'.spec
        BY <1>0, <3>2
      <3> HIDE DEF here
      <3> QED BY <2>1, <3>4, <3>5, <3>6 DEF AtInstance, InHand
    <2> HIDE DEF here
    <2> QED BY <1>i, <1>0, <1>1, <1>2, <2>1, <2>2, <2>3, InstanceStep
  <1> QED BY <1>i, <1>2, FailGrants DEF Database!GrantDatabase

LEMMA RevokeExcessGrants == GrantsType /\ GrantsInv /\ Database!RevokeExcess => GrantsInv'
  <1> SUFFICES ASSUME GrantsType, GrantsInv, Database!RevokeExcess PROVE GrantsInv'
    OBVIOUS
  <1>i. PICK i : i = pass.instance
    OBVIOUS
  <1>0. pass.pc = "grant" /\ pass.databases = {} /\ UNCHANGED <<intentsCache, configs, users>>
    BY DEF Database!RevokeExcess
  <1>1. /\ pass \in [pc : {"revoke", "drop", "annotate", "grant"}, copy : Objects,
                     todo : SUBSET Database!Instances, instance : Database!Instances,
                     databases : SUBSET Databases]
        /\ i \in Database!Instances /\ pass # Database!Idle
        /\ ~queued /\ intentsCache.stage = "live" /\ intentsCache.spec # <<>> => InHand(i)
    BY <1>i, <1>0, InHandPass DEF GrantsType, OfConfigured
  <1> DEFINE entries == Database!At(pass.copy.spec, i)
             excess == IF i \in Postgres
                       THEN {g \in grants[i] : g.database \notin Database!DatabasesOf(entries)}
                       ELSE Database!MySQLExcess(grants[i], entries)
  <1>2. CASE /\ Database!Grant(i, grants[i] \ excess) /\ UNCHANGED queued
             /\ pass' = [pc |-> "instance", copy |-> pass.copy, todo |-> pass.todo]
    <2>1. /\ pass'.pc = "instance" /\ pass'.todo = pass.todo /\ pass'.copy = pass.copy
          /\ pass' # Database!Idle
      BY <1>2 DEF Database!Idle
    <2>2. \A j \in Database!Instances \ {i} : grants'[j] = grants[j]
      BY <1>2 DEF Database!Grant, GrantsType
    <2>3. ~queued /\ pass.copy = intentsCache /\ intentsCache.stage = "live"
          /\ intentsCache.spec # <<>> => ~AtInstance(i)' /\ GrantsDone(i)'
      <3> SUFFICES ASSUME ~queued, pass.copy = intentsCache, intentsCache.stage = "live",
                          intentsCache.spec # <<>>
                   PROVE  ~AtInstance(i)' /\ GrantsDone(i)'
        OBVIOUS
      <3>1. PICK s \in DatabaseSpecs \cup {<<>>} : s = pass.copy.spec
        BY <1>1 DEF Objects
      <3>2. s = intentsCache.spec /\ grants[i] \in SUBSET Grantable(i)
        BY <1>1, <3>1 DEF GrantsType
      <3>3. grants'[i] = grants[i] \ excess
        BY <1>1, <1>2 DEF Database!Grant, GrantsType
      <3>4. /\ Database!Mentions(s, i)
            /\ Exact(s, i) =>
                 \A d \in Database!DatabasesOf(Database!At(s, i)) :
                   IF i \in Postgres
                   THEN {g \in grants[i] : g.database = d} = DeclaredIn(s, i, d)
                   ELSE DeclaredIn(s, i, d) \subseteq grants[i]
        BY <1>0, <1>1, <3>2 DEF InHand
      <3>5. \A g \in Database!Declared(i, Database!At(s, i)) :
              g.database \in Database!DatabasesOf(Database!At(s, i))
              /\ g \in DeclaredIn(s, i, g.database)
        <4> TAKE g \in Database!Declared(i, Database!At(s, i))
        <4>1. PICK n \in DOMAIN Database!At(s, i) : \E tables, ops :
                g \in Database!On(Database!At(s, i)[n].database, tables, ops)
          BY DEF Database!Declared
        <4>2. g.database = Database!At(s, i)[n].database
          BY <4>1, OnFields
        <4> QED BY <4>2 DEF DeclaredIn, Database!DatabasesOf
      <3>6. ASSUME Exact(s, i)
            PROVE  grants'[i] = Database!Declared(i, Database!At(s, i))
        <4>1. CASE i \in Postgres
          <5>1. grants'[i] = {g \in grants[i] : g.database \in Database!DatabasesOf(Database!At(s, i))}
            BY <3>1, <3>3, <4>1
          <5>2. \A g \in grants'[i] : g \in DeclaredIn(s, i, g.database)
            BY <3>4, <3>6, <4>1, <5>1
          <5>3. \A g \in Database!Declared(i, Database!At(s, i)) : g \in grants'[i]
            BY <3>4, <3>5, <3>6, <4>1, <5>1
          <5> QED BY <5>2, <5>3 DEF DeclaredIn
        <4>2. CASE i \notin Postgres
          <5>1. i \in MySQL
            BY <1>1, <4>2 DEF Database!Instances
          <5>2. Database!Declared(i, Database!At(s, i)) \subseteq grants[i]
            BY <3>4, <3>5, <3>6, <4>2
          <5> QED BY <3>1, <3>2, <3>3, <4>2, <5>1, <5>2, MySQLExact
        <4> QED BY <4>1, <4>2
      <3>7. s = intentsCache'.spec
        BY <1>0, <3>2
      <3> HIDE DEF excess
      <3> QED BY <2>1, <3>4, <3>6, <3>7 DEF AtInstance, GrantsDone
    <2> HIDE DEF excess
    <2> QED BY <1>i, <1>0, <1>1, <1>2, <2>1, <2>2, <2>3, InstanceStep
  <1> QED BY <1>i, <1>2, FailGrants DEF Database!RevokeExcess

LEMMA EndGrants == GrantsType /\ GrantsInv /\ Database!End => GrantsInv'
  <1> SUFFICES ASSUME GrantsType, GrantsInv, Database!End, ~queued' PROVE GrantsInv'
    BY DEF GrantsInv
  <1>1. /\ pass.pc = "instance" /\ pass.todo = {} /\ pass' = Database!Idle
        /\ UNCHANGED <<intentsCache, configs, users, grants>>
    BY DEF Database!End
  <1>2. ~queued
    <2>1. CASE pass.copy.stage = "deleting" /\ intents = pass.copy
      BY <2>1 DEF Database!End
    <2>2. CASE ~(pass.copy.stage = "deleting" /\ intents = pass.copy)
      BY <2>2 DEF Database!End
    <2> QED BY <2>1, <2>2
  <1>3. \A i : ~AtInstance(i) /\ ~AtInstance(i)'
    BY <1>1 DEF AtInstance, Database!Idle
  <1>4. \A i : GrantsDone(i)' <=> GrantsDone(i)
    BY <1>1 DEF GrantsDone
  <1> QED BY <1>1, <1>2, <1>3, <1>4 DEF GrantsInv

\* A new MySQLServerConfig is an event of no ClientIntents: those of MySQL are there
\* from the start.
LEMMA AroundGrants ==
    ASSUME MySQL \subseteq Configured
    PROVE  GrantsType /\ MySQL \subseteq configs /\ GrantsInv
           /\ (Database!Sync \/ Database!Users \/ UNCHANGED Database!vars) => GrantsInv'
  <1> SUFFICES ASSUME GrantsType, MySQL \subseteq configs, GrantsInv,
                      Database!Sync \/ Database!Users \/ UNCHANGED Database!vars
               PROVE  GrantsInv'
    OBVIOUS
  <1>1. CASE Database!SyncIntents
    BY <1>1 DEF Database!SyncIntents, GrantsInv
  <1>2. CASE UNCHANGED <<intentsCache, configs, users, grants, pass>> /\ (queued => queued')
    <2>1. \A i : /\ AtInstance(i)' <=> AtInstance(i)
                 /\ GrantsDone(i)' <=> GrantsDone(i)
                 /\ InHand(i)' <=> InHand(i)
      BY <1>2 DEF AtInstance, GrantsDone, InHand
    <2> QED BY <1>2, <2>1 DEF GrantsInv
  <1>3. ASSUME NEW i \in Database!Instances, Database!Configure(i)
        PROVE  GrantsInv'
    <2> SUFFICES ASSUME ~queued' PROVE GrantsInv'
      BY DEF GrantsInv
    <2>0. /\ UNCHANGED <<intentsCache, users, grants, pass>> /\ configs' = configs \cup {i}
          /\ i \notin configs /\ ~queued /\ ~(i \in Postgres /\ Database!Mentions(intentsCache.spec, i))
      BY <1>3 DEF Database!Configure
    <2>1. ~Database!Mentions(intentsCache.spec, i) /\ i \notin users
      BY <2>0 DEF GrantsType, OfConfigured, Database!Instances
    <2>2. ~AtInstance(i)
      BY <2>0 DEF AtInstance, GrantsType, OfConfigured
    <2>3. \A j : /\ AtInstance(j)' <=> AtInstance(j)
                 /\ GrantsDone(j)' <=> GrantsDone(j)
                 /\ InHand(j)' <=> InHand(j)
      BY <2>0 DEF AtInstance, GrantsDone, InHand
    <2>4. GrantsDone(i)
      BY <2>1 DEF GrantsDone
    <2> QED BY <2>0, <2>2, <2>3, <2>4 DEF GrantsInv
  <1>4. \/ Database!SyncIntents \/ \E i \in Database!Instances : Database!Configure(i)
        \/ UNCHANGED <<intentsCache, configs, users, grants, pass>> /\ (queued => queued')
    BY DEF Database!Sync, Database!Users, Database!SyncPod, Database!ChangeIntents, Database!StartPod,
           Database!vars
  <1> QED BY <1>1, <1>2, <1>3, <1>4

LEMMA GrantsAtRest ==
    ASSUME MySQL \subseteq Configured
    PROVE  Database!Spec => []Database!GrantsMatchAtRest
  <1> DEFINE Inv == MySQL \subseteq configs /\ GrantsInv
  <1>1. Database!Init => Inv
    BY DEF Database!Init, GrantsInv, Database!NoIntents, Database!None
  <1>2. configs \subseteq configs' \/ ~[Database!Next]_(Database!vars)
    BY DEF Database!Next, Database!vars, Database!Step, Database!Sync, Database!Users,
           Database!Begin, Database!Connect, Database!RevokeAll, Database!DropUser,
           Database!Annotate, Database!GrantDatabase, Database!RevokeExcess, Database!End,
           Database!SyncIntents, Database!SyncPod, Database!ChangeIntents, Database!StartPod,
           Database!Configure
  <1>3. GrantsType /\ Inv /\ [Database!Next]_(Database!vars) => Inv'
    <2>1. ASSUME GrantsType, Inv, Database!Next PROVE GrantsInv'
      BY <2>1, BeginGrants, ConnectGrants, RevokeAllGrants, DropUserGrants, AnnotateGrants,
         GrantDatabaseGrants, RevokeExcessGrants, EndGrants, AroundGrants
      DEF Database!Next, Database!Step
    <2>2. ASSUME GrantsType, Inv, UNCHANGED Database!vars PROVE GrantsInv'
      BY <2>2, AroundGrants
    <2> QED BY <1>2, <2>1, <2>2
  <1>4. GrantsType /\ Inv => Database!GrantsMatchAtRest
    <2> SUFFICES ASSUME GrantsType, Inv, Database!AtRest, intents.stage = "live",
                        intents.spec # <<>>, NEW i \in configs
                 PROVE  IF ~Database!Mentions(intents.spec, i) THEN i \notin users
                        ELSE Exact(intents.spec, i) =>
                               grants[i] = Database!Declared(i, Database!At(intents.spec, i))
      BY DEF Database!GrantsMatchAtRest, Exact
    <2>1. ~queued /\ pass = Database!Idle /\ intentsCache = intents
      BY DEF Database!AtRest
    <2>2. ~AtInstance(i)
      BY <2>1 DEF AtInstance, Database!Idle
    <2> QED BY <2>1, <2>2 DEF GrantsInv, GrantsDone
  <1> QED BY <1>1, <1>3, <1>4, GrantsTypeInvariant, PTL DEF Database!Spec

-----------------------------------------------------------------------------
\* Steps of the part of the database are steps of DatabaseGrants.
LEMMA DatabasePart ==
    /\ Init /\ part = "database" => Database!Init
    /\ [Next]_vars /\ part = "database" => [Database!Next]_Database!vars
  <1>1. Init /\ part = "database" => Database!Init
    BY DEF Init
  <1>2. [Next]_vars /\ part = "database" => [Database!Next]_Database!vars
    BY DEF Next, vars, InLabels, InKafka, InDatabase, InAws, InAzure, InGcp, InGroup,
           podVars, databaseOnly, Database!vars
  <1> QED BY <1>1, <1>2

\* For any instances, databases, intents and failed statements, if the
\* MySQLServerConfigs are there before the intents: with nothing left to do, what the
\* user of live ClientIntents may do at an instance is what they declare
\* (DatabaseReconciler.Reconcile).
THEOREM DatabaseMatchesAtRest ==
    ASSUME MySQL \subseteq Configured
    PROVE  Spec => []GrantsMatchAtRest
  <1>1. Database!GrantsMatchAtRest => GrantsMatchAtRest
    BY DEF GrantsMatchAtRest
  <1>2. ~(part = "database") => GrantsMatchAtRest
    BY DEF GrantsMatchAtRest
  <1>3. [Next]_vars /\ part = "database" => (part = "database")'
    BY SamePart
  <1>4. [Next]_vars /\ ~(part = "database") => ~(part = "database")'
    BY SamePart
  <1> QED BY <1>1, <1>2, <1>3, <1>4, DatabasePart, GrantsAtRest, PTL DEF Spec, Database!Spec

(* AwsPolicies: types, and what a pass that deletes a policy leaves.        *)

Contents == Aws!Allowing \cup {"none"}
AwsIntents == [stage : {"none", "new", "live", "deleting"}, document : Contents]
AwsRoles == [exists : BOOLEAN, soft : BOOLEAN, unused : BOOLEAN]
AwsPasses ==
    {Aws!Idle}
    \cup [pc : {"get", "tags", "version", "hash", "attach"}, client : Clients,
          copy : AwsIntents, account : Accounts, todo : SUBSET Accounts]
    \cup [pc : {"delete", "detach", "release"}, client : Clients, copy : AwsIntents,
          account : Accounts \cup {"none"}, todo : SUBSET Accounts]

\* A policy has one to five versions, or does not exist.
Policies ==
    {p \in [exists : BOOLEAN, versions : Seq(Contents), hash : Contents,
            attached : SUBSET Accounts, soft : BOOLEAN, unused : BOOLEAN] :
       /\ p.exists <=> p.versions # <<>>
       /\ Len(p.versions) <= Aws!MaxVersions
       /\ ~p.exists => p.attached = {}}

\* A policy is attached to roles there are.  A pass detaches it where it was attached
\* when the pass listed that, or it is gone; then it is attached nowhere or tagged.
AwsInv ==
    /\ intents \in [Clients -> AwsIntents] /\ intentsCache \in [Clients -> AwsIntents]
    /\ account \in [Clients -> Accounts \cup {"none"}]
    /\ role \in [Accounts -> AwsRoles]
    /\ policy \in [Clients -> Policies]
    /\ pass \in AwsPasses /\ queue \subseteq Clients
    /\ deletingRole \in Accounts \cup {"none"}
    /\ \A c \in Clients : \A a \in policy[c].attached : role[a].exists
    /\ pass.pc = "detach" => policy[pass.client].attached \in {{}, pass.todo}
    /\ pass.pc = "release" => policy[pass.client].attached = {} \/ policy[pass.client].unused

\* A record of a policy, by its fields.
LEMMA PolicyFields ==
    ASSUME NEW p
    PROVE  p \in Policies <=>
             /\ p = [exists |-> p.exists, versions |-> p.versions, hash |-> p.hash,
                     attached |-> p.attached, soft |-> p.soft, unused |-> p.unused]
             /\ p.exists \in BOOLEAN /\ p.versions \in Seq(Contents) /\ p.hash \in Contents
             /\ p.attached \in SUBSET Accounts /\ p.soft \in BOOLEAN /\ p.unused \in BOOLEAN
             /\ p.exists <=> p.versions # <<>>
             /\ Len(p.versions) <= Aws!MaxVersions
             /\ ~p.exists => p.attached = {}
  BY DEF Policies

\* A policy that is marked again.
LEMMA PolicyMarked ==
    ASSUME NEW p \in Policies, NEW x, NEW y, NEW q, q = [p EXCEPT !.unused = y, !.soft = x]
    PROVE  q = [exists |-> p.exists, versions |-> p.versions, hash |-> p.hash,
                attached |-> p.attached, soft |-> x, unused |-> y]
  BY DEF Policies

\* Policies with some of their fields changed.
LEMMA PolicyChanged ==
    ASSUME NEW p \in Policies, NEW x, NEW y
    PROVE  /\ [p EXCEPT !.unused = y, !.soft = x] =
                [exists |-> p.exists, versions |-> p.versions, hash |-> p.hash,
                 attached |-> p.attached, soft |-> x, unused |-> y]
           /\ [p EXCEPT !.unused = y] =
                [exists |-> p.exists, versions |-> p.versions, hash |-> p.hash,
                 attached |-> p.attached, soft |-> p.soft, unused |-> y]
           /\ [p EXCEPT !.soft = y] =
                [exists |-> p.exists, versions |-> p.versions, hash |-> p.hash,
                 attached |-> p.attached, soft |-> y, unused |-> p.unused]
           /\ [p EXCEPT !.versions = y] =
                [exists |-> p.exists, versions |-> y, hash |-> p.hash,
                 attached |-> p.attached, soft |-> p.soft, unused |-> p.unused]
           /\ [p EXCEPT !.attached = @ \cup {x}] =
                [exists |-> p.exists, versions |-> p.versions, hash |-> p.hash,
                 attached |-> p.attached \cup {x}, soft |-> p.soft, unused |-> p.unused]
           /\ [p EXCEPT !.attached = @ \ {x}] =
                [exists |-> p.exists, versions |-> p.versions, hash |-> p.hash,
                 attached |-> p.attached \ {x}, soft |-> p.soft, unused |-> p.unused]
  <1>0. p = [exists |-> p.exists, versions |-> p.versions, hash |-> p.hash,
              attached |-> p.attached, soft |-> p.soft, unused |-> p.unused]
    BY PolicyFields
  <1>1. [p EXCEPT !.unused = y, !.soft = x] =
          [exists |-> p.exists, versions |-> p.versions, hash |-> p.hash,
           attached |-> p.attached, soft |-> x, unused |-> y]
    <2> DEFINE q == [p EXCEPT !.unused = y]
    <2>1. q = [exists |-> p.exists, versions |-> p.versions, hash |-> p.hash,
               attached |-> p.attached, soft |-> p.soft, unused |-> y]
      BY <1>0
    <2>2. [p EXCEPT !.unused = y, !.soft = x] = [q EXCEPT !.soft = x]
      OBVIOUS
    <2> HIDE DEF q
    <2>3. [q EXCEPT !.soft = x] = [exists |-> p.exists, versions |-> p.versions, hash |-> p.hash,
                                   attached |-> p.attached, soft |-> x, unused |-> y]
      BY <2>1
    <2> QED BY <2>2, <2>3
  <1>2. [p EXCEPT !.attached = @ \cup {x}] =
          [exists |-> p.exists, versions |-> p.versions, hash |-> p.hash,
           attached |-> p.attached \cup {x}, soft |-> p.soft, unused |-> p.unused]
    BY <1>0
  <1>3. [p EXCEPT !.attached = @ \ {x}] =
          [exists |-> p.exists, versions |-> p.versions, hash |-> p.hash,
           attached |-> p.attached \ {x}, soft |-> p.soft, unused |-> p.unused]
    BY <1>0
  <1>4. [p EXCEPT !.unused = y] =
          [exists |-> p.exists, versions |-> p.versions, hash |-> p.hash,
           attached |-> p.attached, soft |-> p.soft, unused |-> y]
    BY <1>0
  <1>5. [p EXCEPT !.soft = y] =
          [exists |-> p.exists, versions |-> p.versions, hash |-> p.hash,
           attached |-> p.attached, soft |-> y, unused |-> p.unused]
    BY <1>0
  <1>6. [p EXCEPT !.versions = y] =
          [exists |-> p.exists, versions |-> y, hash |-> p.hash,
           attached |-> p.attached, soft |-> p.soft, unused |-> p.unused]
    BY <1>0
  <1> QED BY <1>1, <1>2, <1>3, <1>4, <1>5, <1>6

\* No policy is one that does not exist.
LEMMA NoPolicyType == Aws!NoPolicy \in Policies
  <1>1. <<>> \in Seq(Contents) /\ Len(<<>>) = 0
    OBVIOUS
  <1>2. "none" \in Contents
    BY DEF Contents
  <1> HIDE DEF Contents
  <1> QED BY <1>1, <1>2 DEF Policies, Aws!NoPolicy, Aws!None, Aws!MaxVersions

\* A step that changes one policy, or none, and no role.
LEMMA OnePolicy ==
    ASSUME AwsInv, NEW c \in Clients, NEW p \in Policies,
           policy' = [policy EXCEPT ![c] = p], role' = role,
           \A a \in p.attached : role[a].exists
    PROVE  /\ policy' \in [Clients -> Policies]
           /\ policy'[c] = p /\ \A d \in Clients \ {c} : policy'[d] = policy[d]
           /\ \A d \in Clients : \A a \in policy'[d].attached : role'[a].exists
  BY DEF AwsInv

\* The stages of a pass.
LEMMA AwsPassFields ==
    ASSUME AwsInv, pass # Aws!Idle
    PROVE  /\ pass.client \in Clients /\ pass.copy \in AwsIntents
           /\ pass.account \in Accounts \cup {"none"} /\ pass.todo \in SUBSET Accounts
           /\ pass.pc \in {"get", "tags", "version", "hash", "attach", "delete", "detach", "release"}
           /\ pass = [pc |-> pass.pc, client |-> pass.client, copy |-> pass.copy,
                      account |-> pass.account, todo |-> pass.todo]
           /\ pass.pc \in {"get", "tags", "version", "hash", "attach"} => pass.account \in Accounts
  BY DEF AwsInv, AwsPasses

LEMMA PassBegun ==
    ASSUME pass.pc # "idle"
    PROVE  pass # Aws!Idle
  BY DEF Aws!Idle

LEMMA IdlePass == Aws!Idle \in AwsPasses /\ Aws!Idle.pc = "idle"
  BY DEF AwsPasses, Aws!Idle

\* A pass goes on to grant, or is over: nothing is deleted then.
LEMMA GrantingOn ==
    ASSUME AwsInv, pass.pc \in {"get", "tags", "version", "hash", "attach"},
           UNCHANGED <<intents, intentsCache, account, role, deletingRole>>,
           NEW p \in Policies, policy' = [policy EXCEPT ![pass.client] = p],
           \A a \in p.attached : role[a].exists,
           \/ \E pc \in {"tags", "version", "hash", "attach"} : Aws!To(pc) /\ UNCHANGED queue
           \/ pass' = Aws!Idle /\ UNCHANGED queue
           \/ Aws!Fail
    PROVE  AwsInv'
  <1>0. pass # Aws!Idle
    BY PassBegun
  <1>1. pass.client \in Clients
    BY <1>0, AwsPassFields
  <1>2. /\ policy' \in [Clients -> Policies]
        /\ \A d \in Clients : \A a \in policy'[d].attached : role'[a].exists
    BY <1>1, OnePolicy
  <1>3. CASE \E pc \in {"tags", "version", "hash", "attach"} : Aws!To(pc) /\ UNCHANGED queue
    <2>1. PICK pc \in {"tags", "version", "hash", "attach"} :
            pass' = [pass EXCEPT !.pc = pc] /\ UNCHANGED queue
      BY <1>3 DEF Aws!To
    <2>2. pass' = [pc |-> pc, client |-> pass.client, copy |-> pass.copy,
                   account |-> pass.account, todo |-> pass.todo]
      BY <1>0, <2>1, AwsPassFields
    <2>3. pass' \in AwsPasses
      BY <1>0, <2>2, AwsPassFields DEF AwsPasses
    <2>4. pass'.pc = pc
      BY <2>2
    <2> QED BY <1>2, <2>1, <2>3, <2>4 DEF AwsInv
  <1>4. CASE pass' = Aws!Idle /\ queue' \subseteq Clients
    BY <1>2, <1>4, IdlePass DEF AwsInv
  <1>5. CASE Aws!Fail
    BY <1>1, <1>4, <1>5 DEF Aws!Fail, AwsInv
  <1> QED BY <1>3, <1>4, <1>5 DEF AwsInv

\* The policy of the client in hand as it is.
LEMMA SamePolicy ==
    ASSUME AwsInv, NEW c \in Clients, UNCHANGED policy
    PROVE  /\ policy[c] \in Policies /\ policy' = [policy EXCEPT ![c] = policy[c]]
           /\ \A a \in policy[c].attached : role[a].exists
  BY DEF AwsInv

LEMMA GetInv == AwsInv /\ Aws!Get => AwsInv'
  <1> SUFFICES ASSUME AwsInv, Aws!Get PROVE AwsInv'
    OBVIOUS
  <1>1. /\ pass.pc = "get" /\ pass # Aws!Idle
        /\ UNCHANGED <<intents, intentsCache, account, role, deletingRole>>
    BY PassBegun DEF Aws!Get
  <1>2. pass.client \in Clients /\ pass.copy.document \in Contents
    BY <1>1, AwsPassFields DEF AwsIntents
  <1>3. CASE UNCHANGED policy /\ Aws!Fail
    BY <1>1, <1>2, <1>3, GrantingOn, SamePolicy
  <1>5. CASE UNCHANGED policy /\ Aws!To("tags") /\ UNCHANGED queue
    BY <1>1, <1>2, <1>5, GrantingOn, SamePolicy
  <1>4. CASE /\ policy' = [policy EXCEPT ![pass.client] = 
                  [exists |-> TRUE, versions |-> <<pass.copy.document>>,
                   hash |-> pass.copy.document, attached |-> {},
                   soft |-> role[pass.account].soft, unused |-> FALSE]]
             /\ Aws!To("attach") /\ UNCHANGED queue
    <2> DEFINE p == 
                  [exists |-> TRUE, versions |-> <<pass.copy.document>>,
                   hash |-> pass.copy.document, attached |-> {},
                   soft |-> role[pass.account].soft, unused |-> FALSE]
    <2>1. role[pass.account].soft \in BOOLEAN
      BY <1>1, AwsPassFields DEF AwsInv, AwsRoles
    <2>2. /\ <<pass.copy.document>> \in Seq(Contents) /\ Len(<<pass.copy.document>>) = 1
          /\ <<pass.copy.document>> # <<>>
      BY <1>2
    <2>3. p \in Policies /\ p.attached = {}
      <3> HIDE DEF Contents
      <3>2. /\ p.exists = TRUE /\ p.versions = <<pass.copy.document>> /\ p.attached = {}
            /\ p.hash = pass.copy.document /\ p.soft = role[pass.account].soft /\ p.unused = FALSE
            /\ p = [exists |-> p.exists, versions |-> p.versions, hash |-> p.hash,
                    attached |-> p.attached, soft |-> p.soft, unused |-> p.unused]
        OBVIOUS
      <3>3. Len(p.versions) <= 5
        BY <2>2, <3>2
      <3> QED BY <1>2, <2>1, <2>2, <3>2, <3>3, PolicyFields DEF Aws!MaxVersions
    <2>4. policy' = [policy EXCEPT ![pass.client] = p]
      BY <1>4
    <2>5. \A a \in p.attached : role[a].exists
      BY <2>3
    <2> HIDE DEF p
    <2>6. \E pc \in {"tags", "version", "hash", "attach"} : Aws!To(pc) /\ UNCHANGED queue
      BY <1>4
    <2> QED BY <1>1, <2>3, <2>4, <2>5, <2>6, GrantingOn
  <1> QED BY <1>3, <1>4, <1>5 DEF Aws!Get

LEMMA TagsInv == AwsInv /\ Aws!Tags => AwsInv'
  <1> SUFFICES ASSUME AwsInv, Aws!Tags PROVE AwsInv'
    OBVIOUS
  <1>1. /\ pass.pc = "tags" /\ pass # Aws!Idle
        /\ UNCHANGED <<intents, intentsCache, account, role, deletingRole>>
    BY PassBegun DEF Aws!Tags
  <1>2. PICK c \in Clients : c = pass.client
    BY <1>1, AwsPassFields
  <1> DEFINE old == policy[c]
             soft == role[pass.account].soft
  <1>3. old \in Policies /\ soft \in BOOLEAN /\ \A a \in old.attached : role[a].exists
    BY <1>1, AwsPassFields DEF AwsInv, AwsRoles
  <1>4. CASE UNCHANGED policy /\ Aws!Fail
    BY <1>1, <1>2, <1>4, GrantingOn, SamePolicy
  <1>5. ASSUME NEW s \in BOOLEAN, policy' = [policy EXCEPT ![c] = [old EXCEPT !.unused = FALSE, !.soft = s]],
               \/ Aws!Fail
               \/ \E pc \in {"attach", "version"} : Aws!To(pc) /\ UNCHANGED queue
        PROVE  AwsInv'
    <2> DEFINE p == [old EXCEPT !.unused = FALSE, !.soft = s]
    <2>1. p = [exists |-> old.exists, versions |-> old.versions, hash |-> old.hash,
               attached |-> old.attached, soft |-> s, unused |-> FALSE]
      BY <1>3, PolicyMarked
    <2> HIDE DEF p, old
    <2>2. p \in Policies /\ p.attached = old.attached
      BY <1>3, <2>1, PolicyFields
    <2>3. policy' = [policy EXCEPT ![pass.client] = p]
      BY <1>2, <1>5 DEF p
    <2> QED BY <1>1, <1>3, <1>5, <2>2, <2>3, GrantingOn
  <1>6. CASE policy' = [policy EXCEPT ![pass.client].unused = FALSE, ![pass.client].soft = soft]
             /\ Aws!To(IF policy[pass.client].hash = pass.copy.document THEN "attach" ELSE "version")
             /\ UNCHANGED queue
    <2>1. policy' = [policy EXCEPT ![c] = [old EXCEPT !.unused = FALSE, !.soft = soft]]
      BY <1>2, <1>6 DEF AwsInv
    <2>2. \E pc \in {"attach", "version"} : Aws!To(pc) /\ UNCHANGED queue
      BY <1>6, Zenon
    <2> QED BY <1>3, <1>5, <2>1, <2>2
  <1>7. CASE policy' = [policy EXCEPT ![pass.client].unused = FALSE] /\ Aws!Fail
    <2>1. old = [exists |-> old.exists, versions |-> old.versions, hash |-> old.hash,
                 attached |-> old.attached, soft |-> old.soft, unused |-> old.unused]
          /\ old.soft \in BOOLEAN
      BY <1>3, PolicyFields
    <2>2. [old EXCEPT !.unused = FALSE] = [old EXCEPT !.unused = FALSE, !.soft = old.soft]
      BY <2>1
    <2>3. policy' = [policy EXCEPT ![c] = [old EXCEPT !.unused = FALSE, !.soft = old.soft]]
      BY <1>2, <1>7, <2>2 DEF AwsInv
    <2> QED BY <1>5, <1>7, <2>1, <2>3
  <1> QED BY <1>4, <1>6, <1>7 DEF Aws!Tags

LEMMA VersionInv == AwsInv /\ Aws!Version => AwsInv'
  <1> SUFFICES ASSUME AwsInv, Aws!Version PROVE AwsInv'
    OBVIOUS
  <1>1. /\ pass.pc = "version" /\ pass # Aws!Idle
        /\ UNCHANGED <<intents, intentsCache, account, role, deletingRole>>
    BY PassBegun DEF Aws!Version
  <1>2. PICK c \in Clients : c = pass.client
    BY <1>1, AwsPassFields
  <1>3. pass.copy.document \in Contents
    BY <1>1, AwsPassFields DEF AwsIntents
  <1> DEFINE old == policy[c]
             versions == Aws!Pruned(old.versions)
  <1>4. old \in Policies /\ \A a \in old.attached : role[a].exists
    BY DEF AwsInv
  <1>5. old.versions \in Seq(Contents) /\ Len(old.versions) <= 5
        /\ (old.exists <=> Len(old.versions) > 0)
    BY <1>4, PolicyFields DEF Aws!MaxVersions
  <1>6. versions \in Seq(Contents) /\ Len(versions) <= 4 /\ (old.exists => Len(versions) > 0)
    BY <1>5 DEF Aws!Pruned
  <1>7. CASE UNCHANGED policy /\ Aws!Fail
    BY <1>1, <1>2, <1>7, GrantingOn, SamePolicy
  <1>8. ASSUME NEW v \in Seq(Contents), v # <<>>, Len(v) <= 5, old.exists,
               policy' = [policy EXCEPT ![c].versions = v],
               Aws!Fail \/ (Aws!To("hash") /\ UNCHANGED queue)
        PROVE  AwsInv'
    <2> DEFINE p == [old EXCEPT !.versions = v]
    <2>1. p = [exists |-> old.exists, versions |-> v, hash |-> old.hash,
               attached |-> old.attached, soft |-> old.soft, unused |-> old.unused]
      BY <1>4, PolicyFields
    <2>2. policy' = [policy EXCEPT ![pass.client] = p]
      BY <1>2, <1>8 DEF AwsInv
    <2> HIDE DEF p, old
    <2>3. p \in Policies /\ p.attached = old.attached
      BY <1>4, <1>8, <2>1, PolicyFields DEF Aws!MaxVersions
    <2> QED BY <1>1, <1>4, <1>8, <2>2, <2>3, GrantingOn
  <1>9. CASE /\ old.exists /\ policy' = [policy EXCEPT ![c].versions = Append(versions, pass.copy.document)]
             /\ Aws!To("hash") /\ UNCHANGED queue
    <2>1. /\ Append(versions, pass.copy.document) \in Seq(Contents)
          /\ Len(Append(versions, pass.copy.document)) <= 5
          /\ Append(versions, pass.copy.document) # <<>>
      BY <1>3, <1>6
    <2> QED BY <1>8, <1>9, <2>1
  <1>10. CASE old.exists /\ policy' = [policy EXCEPT ![c].versions = versions] /\ Aws!Fail
    <2>1. versions # <<>> /\ Len(versions) <= 5
      BY <1>6, <1>10
    <2> QED BY <1>6, <1>8, <1>10, <2>1
  <1> QED BY <1>2, <1>7, <1>9, <1>10 DEF Aws!Version

LEMMA HashInv == AwsInv /\ Aws!Hash => AwsInv'
  <1> SUFFICES ASSUME AwsInv, Aws!Hash PROVE AwsInv'
    OBVIOUS
  <1>1. /\ pass.pc = "hash" /\ pass # Aws!Idle
        /\ UNCHANGED <<intents, intentsCache, account, role, deletingRole>>
    BY PassBegun DEF Aws!Hash
  <1>2. PICK c \in Clients : c = pass.client
    BY <1>1, AwsPassFields
  <1>3. pass.copy.document \in Contents
    BY <1>1, AwsPassFields DEF AwsIntents
  <1> DEFINE old == policy[c]
  <1>4. old \in Policies /\ \A a \in old.attached : role[a].exists
    BY DEF AwsInv
  <1>5. CASE UNCHANGED policy /\ Aws!Fail
    BY <1>1, <1>2, <1>5, GrantingOn, SamePolicy
  <1>6. CASE /\ policy' = [policy EXCEPT ![c].hash = pass.copy.document]
             /\ Aws!To("attach") /\ UNCHANGED queue
    <2> DEFINE p == [old EXCEPT !.hash = pass.copy.document]
    <2>1. p = [exists |-> old.exists, versions |-> old.versions, hash |-> pass.copy.document,
               attached |-> old.attached, soft |-> old.soft, unused |-> old.unused]
      BY <1>4, PolicyFields
    <2>2. policy' = [policy EXCEPT ![pass.client] = p]
      BY <1>2, <1>6 DEF AwsInv
    <2> HIDE DEF p, old
    <2>3. p \in Policies /\ p.attached = old.attached
      BY <1>3, <1>4, <2>1, PolicyFields
    <2> QED BY <1>1, <1>4, <1>6, <2>2, <2>3, GrantingOn
  <1> QED BY <1>2, <1>5, <1>6 DEF Aws!Hash

LEMMA AttachInv == AwsInv /\ Aws!Attach => AwsInv'
  <1> SUFFICES ASSUME AwsInv, Aws!Attach PROVE AwsInv'
    OBVIOUS
  <1>1. /\ pass.pc = "attach" /\ pass # Aws!Idle
        /\ UNCHANGED <<intents, intentsCache, account, role, deletingRole>>
    BY PassBegun DEF Aws!Attach
  <1>2. PICK c \in Clients : c = pass.client
    BY <1>1, AwsPassFields
  <1>3. pass.account \in Accounts
    BY <1>1, AwsPassFields
  <1> DEFINE old == policy[c]
  <1>4. old \in Policies /\ \A a \in old.attached : role[a].exists
    BY DEF AwsInv
  <1>5. CASE UNCHANGED policy /\ Aws!Fail
    BY <1>1, <1>2, <1>5, GrantingOn, SamePolicy
  <1>6. CASE /\ old.exists /\ role[pass.account].exists
             /\ policy' = [policy EXCEPT ![c].attached = @ \cup {pass.account}]
             /\ pass' = Aws!Idle /\ UNCHANGED queue
    <2> DEFINE p == [old EXCEPT !.attached = @ \cup {pass.account}]
    <2>1. p = [exists |-> old.exists, versions |-> old.versions, hash |-> old.hash,
               attached |-> old.attached \cup {pass.account}, soft |-> old.soft,
               unused |-> old.unused]
      BY <1>4, PolicyChanged
    <2>2. policy' = [policy EXCEPT ![pass.client] = p]
      BY <1>2, <1>6 DEF AwsInv
    <2>0. old.exists
      BY <1>6
    <2> HIDE DEF p, old
    <2>3. p \in Policies /\ p.attached = old.attached \cup {pass.account}
      BY <1>3, <1>4, <2>0, <2>1, PolicyFields
    <2> QED BY <1>1, <1>4, <1>6, <2>2, <2>3, GrantingOn
  <1> QED BY <1>2, <1>5, <1>6 DEF Aws!Attach

\* A policy with one field changed.
LEMMA PolicyTagged ==
    ASSUME NEW p \in Policies, NEW b \in BOOLEAN
    PROVE  /\ [p EXCEPT !.unused = b] \in Policies
           /\ [p EXCEPT !.unused = b].attached = p.attached
           /\ [p EXCEPT !.unused = b].unused = b
           /\ [p EXCEPT !.soft = b] \in Policies
           /\ [p EXCEPT !.soft = b].attached = p.attached
           /\ [p EXCEPT !.soft = b].unused = p.unused
  <1> DEFINE q == [p EXCEPT !.unused = b]
             r == [p EXCEPT !.soft = b]
  <1>1. q = [exists |-> p.exists, versions |-> p.versions, hash |-> p.hash,
             attached |-> p.attached, soft |-> p.soft, unused |-> b]
    BY PolicyChanged
  <1>2. r = [exists |-> p.exists, versions |-> p.versions, hash |-> p.hash,
             attached |-> p.attached, soft |-> b, unused |-> p.unused]
    BY PolicyChanged
  <1> HIDE DEF q, r
  <1>3. q \in Policies /\ q.attached = p.attached /\ q.unused = b
    BY <1>1, PolicyFields
  <1>4. r \in Policies /\ r.attached = p.attached /\ r.unused = p.unused
    BY <1>2, PolicyFields
  <1> QED BY <1>3, <1>4 DEF q, r

\* A pass over deleted intents goes on.
LEMMA DeletingOn ==
    ASSUME AwsInv, pass.pc \in {"delete", "detach"},
           UNCHANGED <<intents, intentsCache, account, role, deletingRole>>,
           NEW p \in Policies, policy' = [policy EXCEPT ![pass.client] = p],
           p.attached \subseteq policy[pass.client].attached,
           \/ Aws!Fail
           \/ Aws!To("release") /\ UNCHANGED queue /\ (p.attached = {} \/ p.unused)
           \/ /\ UNCHANGED queue
              /\ \E todo \in SUBSET Accounts :
                   /\ pass' = [pc |-> "detach", client |-> pass.client, copy |-> pass.copy,
                               account |-> pass.account, todo |-> todo]
                   /\ p.attached \in {{}, todo}
    PROVE  AwsInv'
  <1>0. pass # Aws!Idle
    BY PassBegun
  <1>1. pass.client \in Clients
    BY <1>0, AwsPassFields
  <1>2. /\ policy' \in [Clients -> Policies] /\ policy'[pass.client] = p
        /\ \A d \in Clients : \A a \in policy'[d].attached : role'[a].exists
    <2>1. \A a \in p.attached : role[a].exists
      BY <1>1 DEF AwsInv
    <2> QED BY <1>1, <2>1, OnePolicy
  <1>3. CASE Aws!To("release") /\ UNCHANGED queue /\ (p.attached = {} \/ p.unused)
    <2>1. pass' = [pc |-> "release", client |-> pass.client, copy |-> pass.copy,
                   account |-> pass.account, todo |-> pass.todo]
      BY <1>0, <1>3, AwsPassFields DEF Aws!To
    <2>2. pass' \in AwsPasses
      BY <1>0, <2>1, AwsPassFields DEF AwsPasses
    <2>3. pass'.pc = "release" /\ pass'.client = pass.client
      BY <2>1
    <2> QED BY <1>2, <1>3, <2>2, <2>3 DEF AwsInv
  <1>4. CASE /\ UNCHANGED queue
             /\ \E todo \in SUBSET Accounts :
                   /\ pass' = [pc |-> "detach", client |-> pass.client, copy |-> pass.copy,
                               account |-> pass.account, todo |-> todo]
                   /\ p.attached \in {{}, todo}
    <2>1. PICK todo \in SUBSET Accounts :
                   /\ pass' = [pc |-> "detach", client |-> pass.client, copy |-> pass.copy,
                               account |-> pass.account, todo |-> todo]
                   /\ p.attached \in {{}, todo}
      BY <1>4
    <2>2. pass' \in AwsPasses
      BY <1>0, <2>1, AwsPassFields DEF AwsPasses
    <2>3. pass'.pc = "detach" /\ pass'.client = pass.client /\ pass'.todo = todo
      BY <2>1
    <2> QED BY <1>2, <1>4, <2>1, <2>2, <2>3 DEF AwsInv
  <1>5. CASE Aws!Fail
    BY <1>1, <1>2, <1>5, IdlePass DEF Aws!Fail, AwsInv
  <1> QED BY <1>3, <1>4, <1>5

LEMMA DeleteInv == AwsInv /\ Aws!Delete => AwsInv'
  <1> SUFFICES ASSUME AwsInv, Aws!Delete PROVE AwsInv'
    OBVIOUS
  <1>1. /\ pass.pc = "delete" /\ pass # Aws!Idle
        /\ UNCHANGED <<intents, intentsCache, account, role, deletingRole>>
    BY PassBegun DEF Aws!Delete
  <1>2. PICK c \in Clients : c = pass.client
    BY <1>1, AwsPassFields
  <1>3. policy[c] \in Policies
    BY DEF AwsInv
  <1>4. CASE ~policy[c].exists /\ Aws!To("release") /\ UNCHANGED policy /\ UNCHANGED queue
    <2>1. policy[c].attached = {}
      BY <1>3, <1>4, PolicyFields
    <2> QED BY <1>1, <1>2, <1>4, <2>1, DeletingOn, SamePolicy
  <1>5. CASE policy' = [policy EXCEPT ![c].unused = TRUE] /\ Aws!To("release") /\ UNCHANGED queue
    <2> DEFINE p == [policy[c] EXCEPT !.unused = TRUE]
    <2>1. p \in Policies /\ p.attached = policy[c].attached /\ p.unused
      <3>1. TRUE \in BOOLEAN
        OBVIOUS
      <3> QED BY <1>3, <3>1, PolicyTagged
    <2>2. policy' = [policy EXCEPT ![pass.client] = p]
      BY <1>2, <1>5 DEF AwsInv
    <2> HIDE DEF p
    <2> QED BY <1>1, <1>2, <1>5, <2>1, <2>2, DeletingOn
  <1>6. CASE /\ pass' = [pass EXCEPT !.pc = "detach", !.todo = policy[c].attached]
             /\ UNCHANGED policy /\ UNCHANGED queue
    <2>1. pass' = [pc |-> "detach", client |-> pass.client, copy |-> pass.copy,
                   account |-> pass.account, todo |-> policy[c].attached]
      <3>1. PICK todo : todo = policy[c].attached
        OBVIOUS
      <3>2. PICK q : q = pass
        OBVIOUS
      <3>3. q = [pc |-> q.pc, client |-> q.client, copy |-> q.copy, account |-> q.account,
                 todo |-> q.todo]
        BY <1>1, <3>2, AwsPassFields
      <3>4. [q EXCEPT !.pc = "detach", !.todo = todo] = [[q EXCEPT !.pc = "detach"] EXCEPT !.todo = todo]
        OBVIOUS
      <3>5. [q EXCEPT !.pc = "detach"] = [pc |-> "detach", client |-> q.client, copy |-> q.copy,
                                          account |-> q.account, todo |-> q.todo]
        BY <3>3
      <3> QED BY <1>6, <3>1, <3>2, <3>4, <3>5
    <2>2. policy[c].attached \in SUBSET Accounts
      BY <1>3, PolicyFields
    <2> QED BY <1>1, <1>2, <1>6, <2>1, <2>2, DeletingOn, SamePolicy
  <1>7. CASE Aws!Fail /\ UNCHANGED policy
    BY <1>1, <1>2, <1>7, DeletingOn, SamePolicy
  <1> QED BY <1>2, <1>4, <1>5, <1>6, <1>7 DEF Aws!Delete

LEMMA DetachInv ==
    ASSUME AwsInv, NEW a, Aws!Detach(a)
    PROVE  AwsInv'
  <1>1. /\ pass.pc = "detach" /\ pass # Aws!Idle /\ a \in pass.todo
        /\ UNCHANGED <<intents, intentsCache, account, role, deletingRole>>
    BY PassBegun DEF Aws!Detach
  <1>2. PICK c \in Clients : c = pass.client
    BY <1>1, AwsPassFields
  <1> DEFINE old == policy[c]
  <1>3. old \in Policies /\ old.attached \in {{}, pass.todo}
    BY <1>1, <1>2 DEF AwsInv
  <1>4. CASE /\ a \in old.attached /\ policy' = [policy EXCEPT ![c].attached = @ \ {a}]
             /\ pass' = [pass EXCEPT !.todo = @ \ {a}] /\ UNCHANGED queue
    <2> DEFINE p == [old EXCEPT !.attached = @ \ {a}]
    <2>1. p = [exists |-> old.exists, versions |-> old.versions, hash |-> old.hash,
               attached |-> old.attached \ {a}, soft |-> old.soft, unused |-> old.unused]
      BY <1>3, PolicyChanged
    <2>2. policy' = [policy EXCEPT ![pass.client] = p]
      BY <1>2, <1>4 DEF AwsInv
    <2>3. pass' = [pc |-> "detach", client |-> pass.client, copy |-> pass.copy,
                   account |-> pass.account, todo |-> pass.todo \ {a}]
      BY <1>1, <1>4, AwsPassFields
    <2>4. old.attached \ {a} \in {{}, pass.todo \ {a}}
      BY <1>3
    <2>5. pass.todo \ {a} \in SUBSET Accounts
      BY <1>1, AwsPassFields
    <2> HIDE DEF p, old
    <2>6. p \in Policies /\ p.attached = old.attached \ {a}
      BY <1>3, <2>1, PolicyFields
    <2>7. p.attached \subseteq policy[pass.client].attached
      BY <1>2, <2>6 DEF old
    <2> QED BY <1>1, <1>4, <2>2, <2>3, <2>4, <2>5, <2>6, <2>7, DeletingOn
  <1>5. CASE a \notin old.attached /\ Aws!To("release") /\ UNCHANGED policy /\ UNCHANGED queue
    <2>1. old.attached = {}
      BY <1>1, <1>3, <1>5
    <2> QED BY <1>1, <1>2, <1>5, <2>1, DeletingOn, SamePolicy
  <1>6. CASE Aws!Fail /\ UNCHANGED policy
    BY <1>1, <1>2, <1>6, DeletingOn, SamePolicy
  <1> QED BY <1>2, <1>4, <1>5, <1>6 DEF Aws!Detach

LEMMA RemoveInv == AwsInv /\ Aws!Remove => AwsInv'
  <1> SUFFICES ASSUME AwsInv, Aws!Remove PROVE AwsInv'
    OBVIOUS
  <1>1. /\ pass.pc = "detach" /\ pass # Aws!Idle
        /\ UNCHANGED <<intents, intentsCache, account, role, deletingRole>>
    BY PassBegun DEF Aws!Remove
  <1>2. PICK c \in Clients : c = pass.client
    BY <1>1, AwsPassFields
  <1> DEFINE old == policy[c]
  <1>3. old \in Policies
    BY DEF AwsInv
  <1>4. CASE /\ policy' = [policy EXCEPT ![c] = Aws!NoPolicy]
             /\ Aws!To("release") /\ UNCHANGED queue
    <2>1. Aws!NoPolicy \in Policies /\ Aws!NoPolicy.attached = {}
      BY NoPolicyType DEF Aws!NoPolicy
    <2> QED BY <1>1, <1>2, <1>4, <2>1, DeletingOn
  <1>5. CASE old.exists /\ policy' = [policy EXCEPT ![c].versions = <<Aws!Default(old)>>] /\ Aws!Fail
    <2> DEFINE v == <<Aws!Default(old)>>
               p == [old EXCEPT !.versions = v]
    <2>1. old.versions \in Seq(Contents) /\ old.versions # <<>>
      BY <1>3, <1>5, PolicyFields
    <2>2. Aws!Default(old) \in Contents
      BY <2>1 DEF Aws!Default
    <2>3. v \in Seq(Contents) /\ v # <<>> /\ Len(v) = 1
      BY <2>2
    <2>4. p = [exists |-> old.exists, versions |-> v, hash |-> old.hash,
               attached |-> old.attached, soft |-> old.soft, unused |-> old.unused]
      BY <1>3, PolicyChanged
    <2>5. policy' = [policy EXCEPT ![pass.client] = p]
      BY <1>2, <1>5 DEF AwsInv
    <2>0. old.exists
      BY <1>5
    <2> HIDE DEF p, v, old
    <2>6. p \in Policies /\ p.attached = old.attached
      <3>1. Len(v) <= 5
        BY <2>3
      <3> QED BY <1>3, <2>0, <2>3, <2>4, <3>1, PolicyFields DEF Aws!MaxVersions
    <2>7. p.attached \subseteq policy[pass.client].attached
      BY <1>2, <2>6 DEF old
    <2> QED BY <1>1, <1>5, <2>5, <2>6, <2>7, DeletingOn
  <1> QED BY <1>2, <1>4, <1>5 DEF Aws!Remove

\* Policies as they are, with a pass that deletes nothing yet.
LEMMA PassOnly ==
    ASSUME AwsInv, UNCHANGED <<policy, role, deletingRole>>,
           intents' \in [Clients -> AwsIntents], intentsCache' \in [Clients -> AwsIntents],
           account' \in [Clients -> Accounts \cup {"none"}], queue' \subseteq Clients,
           UNCHANGED pass \/ (pass' \in AwsPasses /\ pass'.pc \notin {"detach", "release"})
    PROVE  AwsInv'
  BY DEF AwsInv

LEMMA BeginInv ==
    ASSUME AwsInv, NEW c \in Clients, Aws!Begin(c)
    PROVE  AwsInv'
  <1> DEFINE at(pc) == [pc |-> pc, client |-> c, copy |-> intentsCache[c],
                        account |-> account[c], todo |-> {}]
  <1>1. UNCHANGED <<intentsCache, account, role, policy, deletingRole>> /\ queue' \subseteq Clients
    BY DEF Aws!Begin, AwsInv
  <1>2. intents' \in [Clients -> AwsIntents]
    <2>1. UNCHANGED intents \/ intents' = [intents EXCEPT ![c].stage = "live"]
      BY Zenon DEF Aws!Begin
    <2>2. intents \in [Clients -> AwsIntents]
      BY DEF AwsInv
    <2> QED BY <2>1, <2>2 DEF AwsIntents
  <1>3. \/ pass' = Aws!Idle
        \/ pass' = at("delete")
        \/ pass' = at("get") /\ account[c] # Aws!None
    <2>1. CASE intentsCache[c].stage = Aws!None
      BY <2>1 DEF Aws!Begin
    <2>2. CASE intentsCache[c].stage = "deleting"
      BY <2>2 DEF Aws!Begin, Aws!None
    <2>3. CASE intentsCache[c].stage \notin {Aws!None, "deleting"}
      BY <2>3 DEF Aws!Begin
    <2> QED BY <2>1, <2>2, <2>3
  <1>4. intentsCache[c] \in AwsIntents /\ account[c] \in Accounts \cup {"none"}
    BY DEF AwsInv
  <1>5. at("delete") \in AwsPasses /\ at("delete").pc = "delete"
    BY <1>4 DEF AwsPasses
  <1>6. account[c] # Aws!None => at("get") \in AwsPasses /\ at("get").pc = "get"
    BY <1>4 DEF AwsPasses, Aws!None
  <1>7. pass' \in AwsPasses /\ pass'.pc \notin {"detach", "release"}
    BY <1>3, <1>5, <1>6, IdlePass
  <1>8. intentsCache' \in [Clients -> AwsIntents] /\ account' \in [Clients -> Accounts \cup {"none"}]
    BY <1>1 DEF AwsInv
  <1> QED BY <1>1, <1>2, <1>7, <1>8, PassOnly

LEMMA ReleaseInv == AwsInv /\ Aws!Release => AwsInv'
  <1> SUFFICES ASSUME AwsInv, Aws!Release PROVE AwsInv'
    OBVIOUS
  <1>1. /\ pass.pc = "release" /\ pass # Aws!Idle /\ pass' = Aws!Idle
        /\ UNCHANGED <<intentsCache, account, role, policy, deletingRole>>
    BY PassBegun DEF Aws!Release
  <1>2. PICK c \in Clients : c = pass.client
    BY <1>1, AwsPassFields
  <1>3. queue' \subseteq Clients
    <2>1. queue' = queue \/ queue' = queue \cup {c}
      BY <1>2 DEF Aws!Release
    <2> QED BY <2>1 DEF AwsInv
  <1>4. intents' \in [Clients -> AwsIntents]
    <2>1. UNCHANGED intents \/ intents' = [intents EXCEPT ![c] = Aws!NoIntents]
      BY <1>2 DEF Aws!Release
    <2>2. Aws!NoIntents \in AwsIntents
      BY DEF Aws!NoIntents, AwsIntents, Contents, Aws!None
    <2> QED BY <2>1, <2>2 DEF AwsInv
  <1>5. intentsCache' \in [Clients -> AwsIntents] /\ account' \in [Clients -> Accounts \cup {"none"}]
    BY <1>1 DEF AwsInv
  <1> QED BY <1>1, <1>3, <1>4, <1>5, IdlePass, PassOnly

LEMMA UsersInv == AwsInv /\ (Aws!Users \/ Aws!Synced \/ Aws!Resync) => AwsInv'
  <1> SUFFICES ASSUME AwsInv, Aws!Users \/ Aws!Synced \/ Aws!Resync PROVE AwsInv'
    OBVIOUS
  <1>0. intents \in [Clients -> AwsIntents] /\ intentsCache \in [Clients -> AwsIntents]
        /\ account \in [Clients -> Accounts \cup {"none"}] /\ queue \subseteq Clients
    BY DEF AwsInv
  <1>1. ASSUME NEW c \in Clients, Aws!ChangeIntents(c) PROVE AwsInv'
    <2>1. UNCHANGED <<intentsCache, account, role, policy, queue, pass, deletingRole>>
      BY <1>1 DEF Aws!ChangeIntents
    <2>2. intents' \in [Clients -> AwsIntents]
      <3>1. CASE intents' = [intents EXCEPT ![c].stage = "deleting"]
        BY <1>0, <3>1 DEF AwsIntents
      <3>2. ASSUME NEW d \in Aws!Allowing,
                   intents' = [intents EXCEPT ![c] =
                      [stage |-> IF @.stage = Aws!None THEN "new" ELSE @.stage, document |-> d]]
            PROVE  intents' \in [Clients -> AwsIntents]
        <4>1. d \in Contents
          BY DEF Contents
        <4> HIDE DEF Contents
        <4> QED BY <1>0, <3>2, <4>1 DEF AwsIntents
      <3> QED BY <1>1, <3>1, <3>2 DEF Aws!ChangeIntents
    <2> QED BY <1>0, <2>1, <2>2, PassOnly
  <1>2. ASSUME NEW c \in Clients, Aws!ChangePod(c) PROVE AwsInv'
    <2>1. UNCHANGED <<intents, intentsCache, role, policy, pass, deletingRole>>
          /\ queue' \subseteq Clients
      BY <1>0, <1>2 DEF Aws!ChangePod
    <2>2. account' \in [Clients -> Accounts \cup {"none"}]
      BY <1>0, <1>2 DEF Aws!ChangePod, Aws!None
    <2> QED BY <1>0, <2>1, <2>2, PassOnly
  <1>3. ASSUME NEW c \in Clients, Aws!Sync(c) PROVE AwsInv'
    <2>1. UNCHANGED <<intents, account, role, policy, pass, deletingRole>> /\ queue' \subseteq Clients
          /\ intentsCache' \in [Clients -> AwsIntents]
      BY <1>0, <1>3 DEF Aws!Sync
    <2> QED BY <1>0, <2>1, PassOnly
  <1>4. CASE Aws!Resync
    <2>1. UNCHANGED <<intents, intentsCache, account, role, policy, pass, deletingRole>>
          /\ queue' \subseteq Clients
      BY <1>0, <1>4 DEF Aws!Resync
    <2> QED BY <1>0, <2>1, PassOnly
  <1> QED BY <1>1, <1>2, <1>3, <1>4 DEF Aws!Users, Aws!Synced

\* The credentials operator changes policies only by emptying or tagging them.
LEMMA RolesOn ==
    ASSUME AwsInv, UNCHANGED <<intents, intentsCache, account, queue, pass>>,
           role' \in [Accounts -> AwsRoles], deletingRole' \in Accounts \cup {"none"},
           NEW f, policy' = [c \in Clients |-> f[c]],
           \A c \in Clients :
             /\ f[c] \in Policies
             /\ \/ f[c].attached = {}
                \/ /\ f[c].attached = policy[c].attached /\ (policy[c].unused => f[c].unused)
                   /\ \A a \in f[c].attached : role'[a].exists
    PROVE  AwsInv'
  <1>1. policy' \in [Clients -> Policies] /\ \A c \in Clients : policy'[c] = f[c]
    OBVIOUS
  <1>2. \A c \in Clients : \A a \in policy'[c].attached : role'[a].exists
    BY <1>1
  <1>3. pass.pc \in {"detach", "release"} => pass.client \in Clients
    BY PassBegun, AwsPassFields
  <1> QED BY <1>1, <1>2, <1>3 DEF AwsInv

LEMMA RolesInv == AwsInv /\ Aws!Roles => AwsInv'
  <1> SUFFICES ASSUME AwsInv, Aws!Roles PROVE AwsInv'
    OBVIOUS
  <1>0. /\ role \in [Accounts -> AwsRoles] /\ policy \in [Clients -> Policies]
        /\ deletingRole \in Accounts \cup {"none"}
        /\ \A c \in Clients : \A a \in policy[c].attached : role[a].exists
        /\ \A c \in Clients : policy[c].attached \subseteq Accounts
    BY DEF AwsInv, Policies
  <1>1. CASE Aws!DeleteRole
    <2>1. /\ UNCHANGED <<intents, intentsCache, account, policy, queue, pass>>
          /\ deletingRole' = "none"
          /\ \/ UNCHANGED role
             \/ /\ \A c \in Clients : deletingRole \notin policy[c].attached
                /\ role' = [role EXCEPT ![deletingRole] = Aws!NoRole]
      BY <1>1 DEF Aws!DeleteRole, Aws!None
    <2>2. role' \in [Accounts -> AwsRoles]
      <3>1. Aws!NoRole \in AwsRoles
        BY DEF AwsRoles, Aws!NoRole
      <3>2. role' = role \/ role' = [role EXCEPT ![deletingRole] = Aws!NoRole]
        BY <2>1
      <3> QED BY <1>0, <3>1, <3>2
    <2>3. \A c \in Clients : \A a \in policy[c].attached : role'[a].exists
      BY <1>0, <2>1
    <2>4. policy' = [c \in Clients |-> policy[c]]
      BY <1>0, <2>1
    <2> QED BY <1>0, <2>1, <2>2, <2>3, <2>4, RolesOn
  <1>2. ASSUME NEW a \in Accounts, Aws!CreateRole(a) PROVE AwsInv'
    <2>1. PICK soft \in BOOLEAN :
            /\ role' = [role EXCEPT ![a] = [exists |-> TRUE, soft |-> soft, unused |-> FALSE]]
            /\ policy' = [c \in Clients |-> IF role[a].exists /\ a \in policy[c].attached
                                             THEN [policy[c] EXCEPT !.soft = soft] ELSE policy[c]]
      BY <1>2 DEF Aws!CreateRole
    <2>2. /\ UNCHANGED <<intents, intentsCache, account, queue, pass>> /\ UNCHANGED deletingRole
      BY <1>2 DEF Aws!CreateRole
    <2> DEFINE f == [c \in Clients |-> IF role[a].exists /\ a \in policy[c].attached
                                        THEN [policy[c] EXCEPT !.soft = soft] ELSE policy[c]]
    <2>3. role' \in [Accounts -> AwsRoles] /\ role'[a].exists
          /\ \A b \in Accounts \ {a} : role'[b] = role[b]
      BY <1>0, <2>1 DEF AwsRoles
    <2>4. ASSUME NEW c \in Clients
          PROVE  /\ f[c] \in Policies /\ f[c].attached = policy[c].attached
                 /\ policy[c].unused => f[c].unused
                 /\ \A b \in f[c].attached : role'[b].exists
      <3>1. policy[c] \in Policies
        BY <1>0
      <3>2. f[c] = policy[c] \/ f[c] = [policy[c] EXCEPT !.soft = soft]
        OBVIOUS
      <3>4. /\ [policy[c] EXCEPT !.soft = soft] \in Policies
            /\ [policy[c] EXCEPT !.soft = soft].attached = policy[c].attached
            /\ [policy[c] EXCEPT !.soft = soft].unused = policy[c].unused
        BY <3>1, PolicyTagged
      <3> HIDE DEF f
      <3>3. f[c] \in Policies /\ f[c].attached = policy[c].attached /\ f[c].unused = policy[c].unused
        BY <3>1, <3>2, <3>4
      <3> QED BY <1>0, <2>3, <3>3
    <2>5. policy' = [c \in Clients |-> f[c]]
      BY <2>1
    <2> HIDE DEF f
    <2> QED BY <1>0, <2>2, <2>3, <2>4, <2>5, RolesOn
  <1>3. ASSUME NEW a \in Accounts, Aws!SoftDeleteRole(a) PROVE AwsInv'
    <2>1. /\ role' = [role EXCEPT ![a].unused = TRUE]
          /\ policy' = [c \in Clients |-> IF a \in policy[c].attached
                                           THEN [policy[c] EXCEPT !.unused = TRUE] ELSE policy[c]]
          /\ UNCHANGED <<intents, intentsCache, account, queue, pass>> /\ UNCHANGED deletingRole
      BY <1>3 DEF Aws!SoftDeleteRole
    <2> DEFINE f == [c \in Clients |-> IF a \in policy[c].attached
                                        THEN [policy[c] EXCEPT !.unused = TRUE] ELSE policy[c]]
    <2>3. role' \in [Accounts -> AwsRoles] /\ \A b \in Accounts : role'[b].exists = role[b].exists
      <3>1. role[a] = [exists |-> role[a].exists, soft |-> role[a].soft, unused |-> role[a].unused]
            /\ role[a] \in AwsRoles
        BY <1>0 DEF AwsRoles
      <3>2. ASSUME NEW y \in BOOLEAN
            PROVE  [role[a] EXCEPT !.unused = y] \in AwsRoles
                   /\ [role[a] EXCEPT !.unused = y].exists = role[a].exists
        BY <3>1 DEF AwsRoles
      <3>3. PICK r \in AwsRoles : r = [role[a] EXCEPT !.unused = TRUE] /\ r.exists = role[a].exists
        BY <3>2
      <3>4. role' = [role EXCEPT ![a] = r]
        BY <1>0, <2>1, <3>3
      <3> QED BY <1>0, <3>3, <3>4
    <2>4. ASSUME NEW c \in Clients
          PROVE  /\ f[c] \in Policies /\ f[c].attached = policy[c].attached
                 /\ policy[c].unused => f[c].unused
                 /\ \A b \in f[c].attached : role'[b].exists
      <3>1. policy[c] \in Policies
        BY <1>0
      <3>2. f[c] = policy[c] \/ f[c] = [policy[c] EXCEPT !.unused = TRUE]
        OBVIOUS
      <3>4. TRUE \in BOOLEAN
        OBVIOUS
      <3>5. /\ [policy[c] EXCEPT !.unused = TRUE] \in Policies
            /\ [policy[c] EXCEPT !.unused = TRUE].attached = policy[c].attached
            /\ [policy[c] EXCEPT !.unused = TRUE].unused
        BY <3>1, <3>4, PolicyTagged
      <3>3. f[c] \in Policies /\ f[c].attached = policy[c].attached /\ (policy[c].unused => f[c].unused)
        BY <3>1, <3>2, <3>5
      <3> HIDE DEF f
      <3> QED BY <1>0, <2>3, <3>3
    <2>5. policy' = [c \in Clients |-> f[c]]
      BY <2>1
    <2> HIDE DEF f
    <2> QED BY <1>0, <2>1, <2>3, <2>4, <2>5, RolesOn
  <1>4. ASSUME NEW a \in Accounts, Aws!DeleteRolePolicies(a) PROVE AwsInv'
    <2> DEFINE f == [c \in Clients |-> IF a \notin policy[c].attached THEN policy[c]
                                     ELSE IF policy[c].soft THEN [policy[c] EXCEPT !.unused = TRUE]
                                     ELSE Aws!NoPolicy]
    <2>1. /\ UNCHANGED role /\ deletingRole' \in Accounts \cup {"none"}
          /\ policy' = f
          /\ UNCHANGED <<intents, intentsCache, account, queue, pass>>
      BY <1>4 DEF Aws!DeleteRolePolicies
    <2>4. ASSUME NEW c \in Clients
          PROVE  /\ f[c] \in Policies
                 /\ \/ f[c].attached = {}
                    \/ f[c].attached = policy[c].attached /\ (policy[c].unused => f[c].unused)
      <3>1. policy[c] \in Policies
        BY <1>0
      <3>2. f[c] = policy[c] \/ f[c] = [policy[c] EXCEPT !.unused = TRUE] \/ f[c] = Aws!NoPolicy
        OBVIOUS
      <3>4. TRUE \in BOOLEAN
        OBVIOUS
      <3>5. /\ [policy[c] EXCEPT !.unused = TRUE] \in Policies
            /\ [policy[c] EXCEPT !.unused = TRUE].attached = policy[c].attached
            /\ [policy[c] EXCEPT !.unused = TRUE].unused
        BY <3>1, <3>4, PolicyTagged
      <3>6. Aws!NoPolicy.attached = {}
        BY DEF Aws!NoPolicy
      <3> QED BY <3>1, <3>2, <3>5, <3>6, NoPolicyType
    <2>5. policy' = [c \in Clients |-> f[c]]
      BY <2>1
    <2>6. role' \in [Accounts -> AwsRoles]
      BY <1>0, <2>1
    <2> HIDE DEF f
    <2> QED BY <1>0, <2>1, <2>4, <2>5, <2>6, RolesOn
  <1> QED BY <1>1, <1>2, <1>3, <1>4 DEF Aws!Roles

LEMMA AwsStep == AwsInv /\ [Aws!Next]_(Aws!vars) => AwsInv'
  <1>1. AwsInv /\ UNCHANGED Aws!vars => AwsInv'
    BY DEF AwsInv, Aws!vars
  <1>2. AwsInv /\ Aws!Step => AwsInv'
    BY GetInv, TagsInv, VersionInv, HashInv, AttachInv, DeleteInv, RemoveInv, ReleaseInv,
       BeginInv, DetachInv DEF Aws!Step
  <1> QED BY <1>1, <1>2, RolesInv, UsersInv DEF Aws!Next

LEMMA AwsStart == Aws!Init => AwsInv
  <1> SUFFICES ASSUME Aws!Init PROVE AwsInv
    OBVIOUS
  <1>1. "none" \in Contents /\ Aws!NoAws \in Contents /\ Aws!None = "none"
    BY DEF Contents, Aws!Allowing, Aws!None
  <1>2. intentsCache = intents /\ queue = {} /\ pass = Aws!Idle /\ deletingRole = "none"
    BY <1>1 DEF Aws!Init
  <1>3. Aws!NoIntents \in AwsIntents
    BY <1>1 DEF Aws!NoIntents, AwsIntents
  <1>4. Aws!NoRole \in AwsRoles
    BY DEF Aws!NoRole, AwsRoles
  <1>5. Aws!NoPolicy \in Policies /\ Aws!NoPolicy.attached = {}
    BY NoPolicyType DEF Aws!NoPolicy
  <1>6. CASE /\ intents = [c \in Clients |-> Aws!NoIntents]
             /\ account = [c \in Clients |-> Aws!None]
             /\ role = [a \in Accounts |-> Aws!NoRole]
             /\ policy = [c \in Clients |-> Aws!NoPolicy]
    BY <1>1, <1>2, <1>3, <1>4, <1>5, <1>6, IdlePass DEF AwsInv
  <1> DEFINE live == [stage |-> "live", document |-> Aws!NoAws]
  <1>7. ASSUME NEW seasoned \in Clients, NEW a \in Accounts,
               intents = [c \in Clients |-> IF c = seasoned THEN live ELSE Aws!NoIntents],
               account = [c \in Clients |-> IF c = seasoned THEN a ELSE Aws!None],
               role = [b \in Accounts |-> [Aws!NoRole EXCEPT !.exists = (b = a)]],
               policy = [c \in Clients |-> IF c = seasoned
                  THEN [Aws!NoPolicy EXCEPT !.exists = TRUE, !.versions = [n \in 1 .. 4 |-> Aws!NoAws],
                                            !.hash = Aws!NoAws, !.attached = {a}]
                  ELSE Aws!NoPolicy]
        PROVE  AwsInv
    <2> DEFINE four == [n \in 1 .. 4 |-> Aws!NoAws]
               p == [Aws!NoPolicy EXCEPT !.exists = TRUE, !.versions = four,
                                         !.hash = Aws!NoAws, !.attached = {a}]
    <2>1. intents \in [Clients -> AwsIntents]
      <3>1. live \in AwsIntents
        BY <1>1 DEF AwsIntents
      <3> QED BY <1>3, <1>7, <3>1
    <2>2. account \in [Clients -> Accounts \cup {"none"}]
      BY <1>1, <1>7
    <2>3. role \in [Accounts -> AwsRoles] /\ role[a].exists
      <3>1. ASSUME NEW y \in BOOLEAN
            PROVE  [Aws!NoRole EXCEPT !.exists = y] \in AwsRoles
                   /\ [Aws!NoRole EXCEPT !.exists = y].exists = y
        <4>1. PICK r \in AwsRoles : r = Aws!NoRole
          BY <1>4
        <4>2. r = [exists |-> r.exists, soft |-> r.soft, unused |-> r.unused]
              /\ r.soft \in BOOLEAN /\ r.unused \in BOOLEAN
          BY DEF AwsRoles
        <4>3. [r EXCEPT !.exists = y] = [exists |-> y, soft |-> r.soft, unused |-> r.unused]
          BY <4>2
        <4> QED BY <4>1, <4>2, <4>3 DEF AwsRoles
      <3>2. \A b \in Accounts : role[b] = [Aws!NoRole EXCEPT !.exists = (b = a)]
        BY <1>7
      <3>3. \A b \in Accounts : role[b] \in AwsRoles
        <4> SUFFICES ASSUME NEW b \in Accounts PROVE role[b] \in AwsRoles
          OBVIOUS
        <4>1. PICK y \in BOOLEAN : y = (b = a)
          OBVIOUS
        <4> QED BY <3>1, <3>2, <4>1
      <3>4. role[a].exists
        <4>1. PICK y \in BOOLEAN : y = (a = a)
          OBVIOUS
        <4>2. role[a] = [Aws!NoRole EXCEPT !.exists = y]
          BY <3>2, <4>1
        <4>3. role[a].exists = y
          BY <3>1, <4>2
        <4> QED BY <4>1, <4>3
      <3> QED BY <1>7, <3>3, <3>4
    <2>4. p \in Policies /\ p.attached = {a}
      <3>1. four \in Seq(Contents) /\ Len(four) = 4
        BY <1>1
      <3>2. PICK q \in Policies : q = Aws!NoPolicy
        BY <1>5
      <3>3. q = [exists |-> q.exists, versions |-> q.versions, hash |-> q.hash,
                 attached |-> q.attached, soft |-> q.soft, unused |-> q.unused]
            /\ q.soft \in BOOLEAN /\ q.unused \in BOOLEAN
        BY <3>2, PolicyFields
      <3> HIDE DEF four
      <3>4. ASSUME NEW y PROVE
              [q EXCEPT !.exists = y, !.versions = four, !.hash = Aws!NoAws, !.attached = {a}] =
              [exists |-> y, versions |-> four, hash |-> Aws!NoAws, attached |-> {a},
               soft |-> q.soft, unused |-> q.unused]
        <4> DEFINE q1 == [q EXCEPT !.exists = y]
                   q2 == [q1 EXCEPT !.versions = four]
                   q3 == [q2 EXCEPT !.hash = Aws!NoAws]
                   q4 == [q3 EXCEPT !.attached = {a}]
        <4>1. [q EXCEPT !.exists = y, !.versions = four, !.hash = Aws!NoAws, !.attached = {a}] = q4
          OBVIOUS
        <4>2. q1 = [exists |-> y, versions |-> q.versions, hash |-> q.hash,
                 attached |-> q.attached, soft |-> q.soft, unused |-> q.unused]
          BY <3>3
        <4> HIDE DEF q1
        <4>3. q2 = [exists |-> y, versions |-> four, hash |-> q.hash,
                 attached |-> q.attached, soft |-> q.soft, unused |-> q.unused]
          BY <4>2
        <4> HIDE DEF q2
        <4>4. q3 = [exists |-> y, versions |-> four, hash |-> Aws!NoAws,
                 attached |-> q.attached, soft |-> q.soft, unused |-> q.unused]
          BY <4>3
        <4> HIDE DEF q3
        <4>5. q4 = [exists |-> y, versions |-> four, hash |-> Aws!NoAws,
                 attached |-> {a}, soft |-> q.soft, unused |-> q.unused]
          BY <4>4
        <4> QED BY <4>1, <4>5
      <3>5. p = [exists |-> TRUE, versions |-> four, hash |-> Aws!NoAws, attached |-> {a},
                 soft |-> q.soft, unused |-> q.unused]
        BY <3>2, <3>4
      <3> HIDE DEF p
      <3>6. four # <<>> /\ Len(four) <= 5
        <4>1. ASSUME four = <<>> PROVE FALSE
          <5>1. Len(<<>>) = 0 /\ 0 # 4
            OBVIOUS
          <5>2. Len(four) = Len(<<>>)
            BY <4>1, Zenon
          <5> QED BY <3>1, <5>1, <5>2
        <4>2. Len(four) <= 5
          <5>1. 4 <= 5
            OBVIOUS
          <5> QED BY <3>1, <5>1
        <4> QED BY <4>1, <4>2
      <3>7. p.exists /\ p.exists \in BOOLEAN
        <4>1. PICK y : y = TRUE
          OBVIOUS
        <4>2. p.exists = y
          BY <3>5, <4>1
        <4> QED BY <4>1, <4>2
      <3> QED BY <1>1, <3>1, <3>3, <3>5, <3>6, <3>7, PolicyFields DEF Aws!MaxVersions
    <2>5. \A c \in Clients : policy[c] = IF c = seasoned THEN p ELSE Aws!NoPolicy
      BY <1>7
    <2> HIDE DEF p
    <2>6. policy \in [Clients -> Policies] /\ \A c \in Clients : \A b \in policy[c].attached : role[b].exists
      BY <1>5, <1>7, <2>3, <2>4, <2>5
    <2> QED BY <1>1, <1>2, <2>1, <2>2, <2>3, <2>6, IdlePass DEF AwsInv
  <1> QED BY <1>6, <1>7 DEF Aws!Init

\* Only the end of a pass over deleted intents lets them go.
LEMMA AwsLetGo ==
    AwsInv /\ [Aws!Next]_(Aws!vars) => Aws!ReleasesUnattached
  <1> SUFFICES ASSUME AwsInv, [Aws!Next]_(Aws!vars), NEW c \in Clients,
                      intents[c].stage = "deleting", intents'[c].stage = "none"
               PROVE  policy[c].attached = {} \/ policy[c].unused
    BY DEF Aws!ReleasesUnattached, Aws!None
  <1>0. intents \in [Clients -> AwsIntents]
    BY DEF AwsInv
  <1>1. ~UNCHANGED intents
    OBVIOUS
  <1>2. CASE Aws!Release
    <2>1. pass.pc = "release" /\ pass # Aws!Idle
      BY <1>2, PassBegun DEF Aws!Release
    <2>2. intents' = [intents EXCEPT ![pass.client] = Aws!NoIntents]
      BY <1>1, <1>2 DEF Aws!Release
    <2>3. c = pass.client
      BY <1>0, <2>2
    <2> QED BY <2>1, <2>3 DEF AwsInv
  <1>3. ASSUME NEW d \in Clients, Aws!Begin(d) PROVE FALSE
    <2>1. intents' = [intents EXCEPT ![d].stage = "live"]
      <3>1. UNCHANGED intents \/ intents' = [intents EXCEPT ![d].stage = "live"]
        BY <1>3, Zenon DEF Aws!Begin
      <3> QED BY <1>1, <3>1
    <2> QED BY <1>0, <2>1 DEF AwsIntents
  <1>4. ASSUME NEW d \in Clients, Aws!ChangeIntents(d) PROVE FALSE
    <2>1. CASE intents' = [intents EXCEPT ![d].stage = "deleting"]
      BY <1>0, <2>1 DEF AwsIntents
    <2>2. ASSUME NEW doc,
                 intents[d].stage # "deleting",
                 intents' = [intents EXCEPT ![d] =
                      [stage |-> IF @.stage = Aws!None THEN "new" ELSE @.stage, document |-> doc]]
          PROVE  FALSE
      BY <1>0, <2>2 DEF Aws!None
    <2> QED BY <1>4, <2>1, <2>2 DEF Aws!ChangeIntents
  <1>5. Aws!Next
    BY <1>1 DEF Aws!vars
  <1>6. CASE Aws!Step
    BY <1>1, <1>2, <1>3, <1>6 DEF Aws!Step, Aws!Get, Aws!Tags, Aws!Version, Aws!Hash, Aws!Attach,
       Aws!Delete, Aws!Detach, Aws!Remove
  <1>7. CASE Aws!Roles
    BY <1>1, <1>7 DEF Aws!Roles, Aws!DeleteRole, Aws!CreateRole, Aws!SoftDeleteRole,
       Aws!DeleteRolePolicies
  <1>8. CASE Aws!Users \/ Aws!Synced \/ Aws!Resync
    BY <1>1, <1>4, <1>8 DEF Aws!Users, Aws!Synced, Aws!Sync, Aws!ChangePod, Aws!Resync
  <1> QED BY <1>5, <1>6, <1>7, <1>8 DEF Aws!Next

\* The invariant of AwsPolicies gives the types its run checks.
LEMMA AwsTypes == Aws!Spec => []AwsInv /\ []Aws!TypeOK
  <1>1. AwsInv => Aws!TypeOK
    <2> SUFFICES ASSUME AwsInv PROVE Aws!TypeOK
      OBVIOUS
    <2>1. ASSUME NEW c \in Clients
          PROVE  /\ intents[c].stage \in {Aws!None, "new", "live", "deleting"}
                 /\ policy[c].exists <=> policy[c].versions # <<>>
                 /\ Len(policy[c].versions) <= Aws!MaxVersions
                 /\ \A a \in policy[c].attached : role[a].exists
      <3>1. policy[c] \in Policies /\ intents[c] \in AwsIntents
        BY DEF AwsInv
      <3> QED BY <3>1, PolicyFields DEF AwsInv, AwsIntents, Aws!None
    <2> QED BY <2>1 DEF Aws!TypeOK, AwsInv
  <1> QED BY <1>1, AwsStart, AwsStep, PTL DEF Aws!Spec

-----------------------------------------------------------------------------
\* Steps of the part of AWS are steps of AwsPolicies.
LEMMA AwsPart ==
    /\ Init /\ part = "aws" => Aws!Init
    /\ [Next]_vars /\ part = "aws" => [Aws!Next]_Aws!vars
  <1>1. Init /\ part = "aws" => Aws!Init
    BY DEF Init
  <1>2. [Next]_vars /\ part = "aws" => [Aws!Next]_Aws!vars
    BY DEF Next, vars, InLabels, InKafka, InDatabase, InAws, InAzure, InGcp, InGroup,
           awsOnly, Aws!vars
  <1> QED BY <1>1, <1>2

\* For any clients, service accounts, documents, failed calls and steps of the
\* credentials operator in between: ClientIntents lose their finalizer only when the
\* client's policy is attached to no role or is tagged as unused
\* (IAMIntentsReconciler, DeleteRolePolicyFromIAMPolicy).
THEOREM AwsReleases == Spec => ReleasedUnattached
  <1>1. AwsInv /\ [Next]_vars /\ part = "aws" => Aws!ReleasesUnattached
    BY AwsPart, AwsLetGo
  <1>2. AwsInv /\ [Next]_vars => (part = "aws" => Aws!ReleasesUnattached)
    BY <1>1
  <1>3. [Next]_vars /\ part = "aws" => (part = "aws")'
    BY SamePart
  <1>4. [Next]_vars /\ ~(part = "aws") => ~(part = "aws")'
    BY SamePart
  <1>5. ~(part = "aws") => (part = "aws" => Aws!ReleasesUnattached)
    OBVIOUS
  <1>6. Aws!Spec => []AwsInv
    BY AwsTypes, PTL
  <1> QED BY <1>1, <1>2, <1>3, <1>4, <1>5, <1>6, AwsPart, PTL DEF Spec, Aws!Spec, ReleasedUnattached


-----------------------------------------------------------------------------
(* AzureAccess: types.  A pass that works on roles or vaults has found the *)
(* identity, which is still there.                                         *)

AzureAccesses == SUBSET {"read", "write", "reader", "owner", "get"}

AzureTargets ==
    [kind : {"custom role"}, scope : {"s", "t"}, access : SUBSET {"read", "write"}]
    \cup [kind : {"named"}, scope : {"s", "t"}, access : AzureAccesses]
    \cup [kind : {"vault"}, scope : {"v"}, access : AzureAccesses]

IsAzureObject(o) ==
    /\ o.stage \in {"none", "new", "live", "deleting"}
    /\ o.targets \in Seq(AzureTargets)

IsAzureAssignment(a) == a.scope \in {"s", "t"} /\ a.kind \in {"custom role", "named"}

\* A pass that has begun goes on only while the identity it read is there, and what it
\* has left to do are targets of its copy.
AzureInv ==
    /\ IsAzureObject(intents) /\ IsAzureObject(intentsCache)
    /\ customRoles \in [{"s", "t"} -> SUBSET {"read", "write"}]
    /\ \A a \in assignments : IsAzureAssignment(a)
    /\ identity \in BOOLEAN
    /\ ~identity => assignments = {}
    /\ pass # AzureAgent!Idle =>
        /\ pass = [pc |-> pass.pc, copy |-> pass.copy, rest |-> pass.rest, seen |-> pass.seen]
        /\ pass.pc \in {"custom role", "named", "vaults", "delete", "release"}
        /\ pass.pc # "release" => identity
        /\ IsAzureObject(pass.copy)
        /\ pass.pc \in {"custom role", "named"} => 
              pass.rest \subseteq AzureAgent!OfKind(pass.copy.targets, pass.pc)

LEMMA AzureTargetFields ==
    ASSUME NEW t \in AzureTargets
    PROVE  /\ t.kind = "custom role" => t.scope \in {"s", "t"} /\ t.access \in SUBSET {"read", "write"}
           /\ t.kind = "named" => t.scope \in {"s", "t"}
  <1>1. CASE t \in [kind : {"custom role"}, scope : {"s", "t"}, access : SUBSET {"read", "write"}]
    BY <1>1
  <1>2. CASE t \in [kind : {"named"}, scope : {"s", "t"}, access : AzureAccesses]
    BY <1>2
  <1>3. CASE t \in [kind : {"vault"}, scope : {"v"}, access : AzureAccesses]
    BY <1>3
  <1> QED BY <1>1, <1>2, <1>3 DEF AzureTargets

LEMMA AzureIdle == AzureAgent!Idle.pc = "idle"
  BY DEF AzureAgent!Idle

\* Short sequences.
LEMMA ShortSequences ==
    ASSUME NEW S
    PROVE  /\ <<>> \in Seq(S)
           /\ \A a \in S : <<a>> \in Seq(S)
           /\ \A a, b \in S : <<a, b>> \in Seq(S)
  OBVIOUS

LEMMA ElementType ==
    ASSUME NEW S, NEW s \in Seq(S), NEW n \in DOMAIN s
    PROVE  s[n] \in S
  OBVIOUS

LEMMA AzureDeclared ==
    ASSUME NEW d \in {<<>>, <<Azure("custom role", "s", {"read"})>>,
        <<Azure("custom role", "s", {"write"}), Azure("named", "t", {"reader"})>>,
        <<Azure("named", "t", {"reader", "owner"}), Azure("vault", "v", {"get"})>>}
    PROVE  d \in Seq(AzureTargets)
  <1>1. /\ Azure("custom role", "s", {"read"}) \in AzureTargets
        /\ Azure("custom role", "s", {"write"}) \in AzureTargets
        /\ Azure("named", "t", {"reader"}) \in AzureTargets
        /\ Azure("named", "t", {"reader", "owner"}) \in AzureTargets
        /\ Azure("vault", "v", {"get"}) \in AzureTargets
    BY DEF Azure, AzureTargets, AzureAccesses
  <1> HIDE DEF Azure, AzureTargets
  <1>2. /\ <<>> \in Seq(AzureTargets)
        /\ \A a \in AzureTargets : <<a>> \in Seq(AzureTargets)
        /\ \A a, b \in AzureTargets : <<a, b>> \in Seq(AzureTargets)
    BY ShortSequences
  <1>3. CASE d = <<>>
    BY <1>2, <1>3
  <1>4. CASE d = <<Azure("custom role", "s", {"read"})>>
    BY <1>1, <1>2, <1>4
  <1>5. CASE d = <<Azure("custom role", "s", {"write"}), Azure("named", "t", {"reader"})>>
    BY <1>1, <1>2, <1>5
  <1>6. CASE d = <<Azure("named", "t", {"reader", "owner"}), Azure("vault", "v", {"get"})>>
    BY <1>1, <1>2, <1>6
  <1> QED BY <1>3, <1>4, <1>5, <1>6

LEMMA AzureInit == AzureAgent!Init => AzureInv
  <1> SUFFICES ASSUME AzureAgent!Init PROVE AzureInv
    OBVIOUS
  <1>1. IsAzureObject(AzureAgent!NoIntents)
    BY DEF IsAzureObject, AzureAgent!NoIntents, AzureAgent!None
  <1> QED BY <1>1 DEF AzureAgent!Init, AzureInv, AzureAgent!NoAccess

LEMMA AzureBegin == AzureInv /\ AzureAgent!Begin => AzureInv'
  <1> SUFFICES ASSUME AzureInv, AzureAgent!Begin PROVE AzureInv'
    OBVIOUS
  <1>1. IsAzureObject(intents')
    BY DEF AzureInv, IsAzureObject, AzureAgent!Begin
  <1>2. UNCHANGED <<intentsCache, labelled, identity, customRoles, assignments, vaults, changes, faults>>
    BY DEF AzureAgent!Begin
  <1>3. pass = AzureAgent!Idle
    BY DEF AzureAgent!Begin
  <1>4. \/ pass' = AzureAgent!Idle
        \/ identity /\ pass' = [pc |-> "delete", copy |-> intentsCache, rest |-> {}, seen |-> {}]
        \/ pass' = [pc |-> "release", copy |-> intentsCache, rest |-> {}, seen |-> {}]
        \/ identity /\ pass' = [pc |-> "custom role", copy |-> intentsCache,
                    rest |-> AzureAgent!OfKind(intentsCache.targets, "custom role"),
                    seen |-> AzureAgent!Listed("custom role")]
    BY DEF AzureAgent!Begin, AzureAgent!Custom
  <1>5. IsAzureObject(intentsCache') /\ IsAzureObject(intentsCache)
    BY <1>2 DEF AzureInv
  <1>6. ASSUME pass' # AzureAgent!Idle
        PROVE  /\ pass' = [pc |-> pass'.pc, copy |-> pass'.copy, rest |-> pass'.rest, seen |-> pass'.seen]
               /\ pass'.pc \in {"custom role", "named", "vaults", "delete", "release"}
               /\ pass'.pc # "release" => identity
               /\ pass'.copy = intentsCache
               /\ pass'.pc \in {"custom role", "named"} =>
                      pass'.rest = AzureAgent!OfKind(pass'.copy.targets, pass'.pc)
    <2>1. CASE identity /\ pass' = [pc |-> "delete", copy |-> intentsCache, rest |-> {}, seen |-> {}]
      BY <2>1
    <2>2. CASE pass' = [pc |-> "release", copy |-> intentsCache, rest |-> {}, seen |-> {}]
      BY <2>2
    <2>3. CASE identity /\ pass' = [pc |-> "custom role", copy |-> intentsCache,
                    rest |-> AzureAgent!OfKind(intentsCache.targets, "custom role"),
                    seen |-> AzureAgent!Listed("custom role")]
      BY <2>3
    <2> QED BY <1>4, <1>6, <2>1, <2>2, <2>3
  <1>7. (\A a \in assignments : IsAzureAssignment(a))'
    BY <1>2 DEF AzureInv, IsAzureAssignment
  <1>8. pass' # AzureAgent!Idle => IsAzureObject(pass'.copy)
    BY <1>5, <1>6
  <1> QED BY <1>1, <1>2, <1>5, <1>6, <1>7, <1>8 DEF AzureInv, IsAzureObject

LEMMA AzureFail ==
    ASSUME AzureAgent!Fail
    PROVE  pass' = AzureAgent!Idle
  BY DEF AzureAgent!Fail

LEMMA AzureCustomRole == AzureInv /\ AzureAgent!EnsureCustomRole => AzureInv'
  <1> SUFFICES ASSUME AzureInv, AzureAgent!EnsureCustomRole PROVE AzureInv'
    OBVIOUS
  <1>0. UNCHANGED <<intents, intentsCache, identity>>
    BY DEF AzureAgent!EnsureCustomRole
  <1>1. pass.pc = "custom role" /\ pass # AzureAgent!Idle
    BY AzureIdle DEF AzureAgent!EnsureCustomRole, AzureAgent!Custom
  <1>2. PICK n \in pass.rest :
           LET t == pass.copy.targets[n]
               written == [customRoles EXCEPT ![t.scope] = t.access]
               assigned == assignments \cup {AzureAgent!Assignment(t.scope, "custom role", t.scope)} IN
           /\ pass' = [pass EXCEPT !.rest = @ \ {n}] \/ AzureAgent!Fail
           /\ customRoles' \in {customRoles, written}
           /\ assignments' \in {assignments, assigned}
    BY Zenon DEF AzureAgent!EnsureCustomRole, AzureAgent!Custom
  <1> DEFINE t == pass.copy.targets[n]
  <1>3. t \in AzureTargets /\ t.kind = "custom role"
    <2>1. pass.copy.targets \in Seq(AzureTargets)
      BY <1>1 DEF AzureInv, IsAzureObject
    <2>2. n \in DOMAIN pass.copy.targets /\ t.kind = "custom role"
      BY <1>1 DEF AzureInv, AzureAgent!OfKind
    <2>3. pass.copy.targets[n] \in AzureTargets
      BY <2>1, <2>2, ElementType
    <2> QED BY <2>2, <2>3
  <1>4. t.scope \in {"s", "t"} /\ t.access \in SUBSET {"read", "write"}
    BY <1>3, AzureTargetFields
  <1>5. IsAzureAssignment(AzureAgent!Assignment(t.scope, "custom role", t.scope))
    BY <1>4 DEF AzureAgent!Assignment, IsAzureAssignment
  <1>6. /\ customRoles' \in [{"s", "t"} -> SUBSET {"read", "write"}]
        /\ \A a \in assignments' : IsAzureAssignment(a)
    BY <1>2, <1>4, <1>5 DEF AzureInv
  <1>7. /\ pass' # AzureAgent!Idle => pass' = [pass EXCEPT !.rest = @ \ {n}]
        /\ identity
    BY <1>1, <1>2, AzureFail DEF AzureInv
  <1>9. pass' # AzureAgent!Idle =>
          /\ pass' = [pc |-> pass.pc, copy |-> pass.copy, rest |-> pass.rest \ {n}, seen |-> pass.seen]
    BY <1>1, <1>7 DEF AzureInv
  <1> QED BY <1>0, <1>1, <1>6, <1>7, <1>9 DEF AzureInv, IsAzureObject, IsAzureAssignment

LEMMA AzureListed ==
    ASSUME AzureInv, NEW S \in SUBSET assignments, assignments' = S
    PROVE  (\A a \in assignments : IsAzureAssignment(a))' /\ (~identity => assignments' = {})
  BY DEF AzureInv, IsAzureAssignment

\* A step of a pass: it goes on with other targets, or the pass ends.
LEMMA AzureGoesOn ==
    ASSUME AzureInv, pass # AzureAgent!Idle,
           NEW pc \in {"custom role", "named", "vaults", "delete", "release"},
           pc # "release" => identity,
           NEW rest, NEW seen,
           pc \in {"custom role", "named"} =>
               rest \subseteq AzureAgent!OfKind(pass.copy.targets, pc),
           \/ pass' = [pass EXCEPT !.pc = pc, !.rest = rest, !.seen = seen]
           \/ pass' = AzureAgent!Idle,
           IsAzureObject(intents'), UNCHANGED <<intentsCache, identity>>,
           customRoles' \in [{"s", "t"} -> SUBSET {"read", "write"}],
           \A a \in assignments' : IsAzureAssignment(a),
           ~identity => assignments' = {}
    PROVE  AzureInv'
  <1>1. pass' # AzureAgent!Idle =>
          pass' = [pc |-> pc, copy |-> pass.copy, rest |-> rest, seen |-> seen]
    BY DEF AzureInv
  <1>2. CASE pass' = AzureAgent!Idle
    BY <1>2 DEF AzureInv, IsAzureObject, IsAzureAssignment
  <1>3. CASE pass' = [pc |-> pc, copy |-> pass.copy, rest |-> rest, seen |-> seen]
    BY <1>3 DEF AzureInv, IsAzureObject, IsAzureAssignment
  <1> QED BY <1>1, <1>2, <1>3

LEMMA AzureForget ==
    ASSUME NEW kind \in {"custom role", "named"}, AzureInv, AzureAgent!Forget(kind)
    PROVE  AzureInv'
  <1>1. /\ pass.pc = kind /\ pass # AzureAgent!Idle /\ identity
        /\ UNCHANGED <<intents, intentsCache, identity, customRoles>>
    BY AzureIdle DEF AzureAgent!Forget, AzureInv
  <1>2. assignments' \subseteq assignments
    BY DEF AzureAgent!Forget
  <1>3. /\ IsAzureObject(intents')
        /\ customRoles' \in [{"s", "t"} -> SUBSET {"read", "write"}]
        /\ \A a \in assignments' : IsAzureAssignment(a)
    BY <1>1, <1>2 DEF AzureInv
  <1>4. \/ pass' = [pass EXCEPT !.pc = "named", !.rest = AzureAgent!OfKind(pass.copy.targets, "named"),
                                 !.seen = AzureAgent!Listed("named")]
        \/ pass' = [pass EXCEPT !.pc = "vaults"]
        \/ pass' = AzureAgent!Idle
    BY DEF AzureAgent!Forget, AzureAgent!Fail, AzureAgent!Phase
  <1>5. pass' = [pass EXCEPT !.pc = "vaults"] =>
          pass' = [pass EXCEPT !.pc = "vaults", !.rest = pass.rest, !.seen = pass.seen]
    BY <1>1 DEF AzureInv
  <1>6. CASE \/ pass' = [pass EXCEPT !.pc = "vaults", !.rest = pass.rest, !.seen = pass.seen]
             \/ pass' = AzureAgent!Idle
    BY <1>1, <1>3, <1>6, AzureGoesOn
  <1>7. CASE pass' = [pass EXCEPT !.pc = "named",
                                  !.rest = AzureAgent!OfKind(pass.copy.targets, "named"),
                                  !.seen = AzureAgent!Listed("named")]
    BY <1>1, <1>3, <1>7, AzureGoesOn
  <1> QED BY <1>4, <1>5, <1>6, <1>7

LEMMA AzureNamedRoles == AzureInv /\ AzureAgent!EnsureNamedRoles => AzureInv'
  <1> SUFFICES ASSUME AzureInv, AzureAgent!EnsureNamedRoles PROVE AzureInv'
    OBVIOUS
  <1>1. /\ pass.pc = "named" /\ pass # AzureAgent!Idle /\ identity
        /\ UNCHANGED <<intents, intentsCache, identity, customRoles>>
    BY AzureIdle DEF AzureAgent!EnsureNamedRoles, AzureInv
  <1>2. PICK n \in pass.rest :
           LET t == pass.copy.targets[n]
               lacking == {AzureAgent!Assignment(t.scope, "named", r) : r \in t.access} IN
           /\ pass' = [pass EXCEPT !.rest = @ \ {n}] \/ AzureAgent!Fail
           /\ assignments' \subseteq assignments \cup lacking
    <2>1. PICK n \in pass.rest :
             LET t == pass.copy.targets[n]
                 seen == {a \in pass.seen : a.scope = t.scope}
                 lacking == {AzureAgent!Assignment(t.scope, "named", r) : r \in t.access} \ seen
                 extra == {a \in seen : a.role \notin t.access} IN
             \/ /\ assignments' = (assignments \cup lacking) \ extra
                /\ pass' = [pass EXCEPT !.rest = @ \ {n}]
             \/ /\ AzureAgent!Fail
                /\ \/ \E some \in SUBSET lacking : assignments' = assignments \cup some
                   \/ \E some \in SUBSET extra : assignments' = (assignments \cup lacking) \ some
      BY Zenon DEF AzureAgent!EnsureNamedRoles
    <2> WITNESS n \in pass.rest
    <2> QED BY <2>1
  <1> DEFINE t == pass.copy.targets[n]
  <1>3. t.scope \in {"s", "t"}
    <2>1. n \in DOMAIN pass.copy.targets /\ t.kind = "named"
      BY <1>1 DEF AzureInv, AzureAgent!OfKind
    <2>2. pass.copy.targets \in Seq(AzureTargets)
      BY <1>1 DEF AzureInv, IsAzureObject
    <2>3. pass.copy.targets[n] \in AzureTargets
      BY <2>1, <2>2, ElementType
    <2> QED BY <2>1, <2>3, AzureTargetFields
  <1>4. \A a \in assignments' : IsAzureAssignment(a)
    <2> SUFFICES ASSUME NEW a \in assignments' PROVE IsAzureAssignment(a)
      OBVIOUS
    <2>1. CASE a \in assignments
      BY <2>1 DEF AzureInv
    <2>2. ASSUME NEW r \in t.access, a = AzureAgent!Assignment(t.scope, "named", r)
          PROVE  IsAzureAssignment(a)
      <3>1. a.scope = t.scope /\ a.kind = "named"
        BY <2>2 DEF AzureAgent!Assignment
      <3> QED BY <1>3, <3>1 DEF IsAzureAssignment
    <2> QED BY <1>2, <2>1, <2>2
  <1>5. /\ IsAzureObject(intents')
        /\ customRoles' \in [{"s", "t"} -> SUBSET {"read", "write"}]
    BY <1>1 DEF AzureInv
  <1>0. PICK rest : rest = pass.rest \ {n}
    OBVIOUS
  <1>6. \/ pass' = [pass EXCEPT !.pc = "named", !.rest = rest, !.seen = pass.seen]
        \/ pass' = AzureAgent!Idle
    BY <1>0, <1>1, <1>2, AzureFail DEF AzureInv
  <1>7. rest \subseteq AzureAgent!OfKind(pass.copy.targets, "named")
    BY <1>0, <1>1 DEF AzureInv
  <1>8. /\ "named" \in {"custom role", "named", "vaults", "delete", "release"}
        /\ UNCHANGED <<intentsCache, identity>>
        /\ "named" # "release" => identity
        /\ ~identity => assignments' = {}
    BY <1>1
  <1> HIDE DEF t
  <1>9. CASE pass' = AzureAgent!Idle
    BY <1>1, <1>4, <1>5, <1>7, <1>8, <1>9, AzureGoesOn
  <1>10. CASE pass' = [pass EXCEPT !.pc = "named", !.rest = rest, !.seen = pass.seen]
    BY <1>1, <1>4, <1>5, <1>7, <1>8, <1>10, AzureGoesOn
  <1> QED BY <1>6, <1>9, <1>10

LEMMA AzureVaults == AzureInv /\ AzureAgent!EnsureVaults => AzureInv'
  <1> SUFFICES ASSUME AzureInv, AzureAgent!EnsureVaults PROVE AzureInv'
    OBVIOUS
  <1>1. /\ pass' = AzureAgent!Idle
        /\ UNCHANGED <<intents, intentsCache, identity, customRoles, assignments>>
    BY DEF AzureAgent!EnsureVaults, AzureAgent!Fail
  <1> QED BY <1>1 DEF AzureInv, IsAzureObject, IsAzureAssignment

LEMMA AzureDelete == AzureInv /\ AzureAgent!Delete => AzureInv'
  <1> SUFFICES ASSUME AzureInv, AzureAgent!Delete PROVE AzureInv'
    OBVIOUS
  <1>1. /\ pass.pc = "delete" /\ pass # AzureAgent!Idle /\ identity
        /\ UNCHANGED <<intents, intentsCache, identity>>
        /\ assignments' \subseteq assignments
    BY AzureIdle DEF AzureAgent!Delete, AzureInv
  <1>2. /\ IsAzureObject(intents') /\ \A a \in assignments' : IsAzureAssignment(a)
        /\ customRoles' \in [{"s", "t"} -> SUBSET {"read", "write"}]
    BY <1>1 DEF AzureInv, AzureAgent!Delete, AzureAgent!NoAccess
  <1>3. pass' = [pass EXCEPT !.pc = "release"] \/ pass' = AzureAgent!Idle
    BY DEF AzureAgent!Delete, AzureAgent!Fail
  <1>4. \/ pass' = [pass EXCEPT !.pc = "release", !.rest = pass.rest, !.seen = pass.seen]
        \/ pass' = AzureAgent!Idle
    BY <1>1, <1>3 DEF AzureInv
  <1> QED BY <1>1, <1>2, <1>4, AzureGoesOn

LEMMA AzureRelease == AzureInv /\ AzureAgent!Release => AzureInv'
  <1> SUFFICES ASSUME AzureInv, AzureAgent!Release PROVE AzureInv'
    OBVIOUS
  <1>1. IsAzureObject(AzureAgent!NoIntents)
    BY ShortSequences DEF IsAzureObject, AzureAgent!NoIntents, AzureAgent!None
  <1>2. /\ intents' \in {intents, AzureAgent!NoIntents} /\ pass' = AzureAgent!Idle
        /\ UNCHANGED <<intentsCache, identity, customRoles, assignments>>
    BY DEF AzureAgent!Release
  <1>3. IsAzureObject(intents')
    BY <1>1, <1>2 DEF AzureInv
  <1> QED BY <1>2, <1>3 DEF AzureInv, IsAzureObject, IsAzureAssignment

LEMMA AzureCredentials == AzureInv /\ AzureAgent!Credentials => AzureInv'
  <1> SUFFICES ASSUME AzureInv, AzureAgent!Credentials PROVE AzureInv'
    OBVIOUS
  <1>1. CASE AzureAgent!CreateIdentity
    BY <1>1 DEF AzureAgent!CreateIdentity, AzureInv, IsAzureObject, IsAzureAssignment
  <1>2. CASE AzureAgent!DeleteIdentity
    <2>1. /\ UNCHANGED <<intents, intentsCache, customRoles>>
          /\ assignments' = {} /\ identity' = FALSE
          /\ pass' = IF pass.pc \in {"idle", "release"} THEN pass ELSE AzureAgent!Idle
      BY <1>2 DEF AzureAgent!DeleteIdentity
    <2>2. pass' # AzureAgent!Idle => pass' = pass /\ pass.pc = "release"
      BY <2>1 DEF AzureInv
    <2> QED BY <2>1, <2>2 DEF AzureInv, IsAzureObject, IsAzureAssignment
  <1> QED BY <1>1, <1>2 DEF AzureAgent!Credentials

LEMMA AzureAround ==
    AzureInv /\ (AzureAgent!Users \/ AzureAgent!Sync \/ AzureAgent!Resync) => AzureInv'
  <1> SUFFICES ASSUME AzureInv, AzureAgent!Users \/ AzureAgent!Sync \/ AzureAgent!Resync
               PROVE  AzureInv'
    OBVIOUS
  <1>1. UNCHANGED <<identity, customRoles, assignments, pass>>
    BY DEF AzureAgent!Users, AzureAgent!ChangeIntents, AzureAgent!ChangePods,
           AzureAgent!Sync, AzureAgent!Resync
  <1>2. intentsCache' \in {intents, intentsCache}
    BY DEF AzureAgent!Users, AzureAgent!ChangeIntents, AzureAgent!ChangePods,
           AzureAgent!Sync, AzureAgent!Resync
  <1>3. IsAzureObject(intents')
    <2>1. CASE AzureAgent!ChangeIntents
      <3>1. ASSUME NEW d \in Seq(AzureTargets),
                   intents' = [stage |-> IF intents.stage = AzureAgent!None THEN "new" ELSE intents.stage,
                               targets |-> d]
            PROVE  IsAzureObject(intents')
        BY <3>1 DEF AzureInv, IsAzureObject
      <3>2. CASE intents' = [intents EXCEPT !.stage = "deleting"] /\ intents.stage = "live"
        <4>1. intents.targets \in Seq(AzureTargets)
          BY DEF AzureInv, IsAzureObject
        <4> QED BY <3>2, <4>1 DEF IsAzureObject
      <3> QED BY <2>1, <3>1, <3>2, AzureDeclared DEF AzureAgent!ChangeIntents
    <2> QED BY <2>1 DEF AzureInv, AzureAgent!Users, AzureAgent!ChangePods,
           AzureAgent!Sync, AzureAgent!Resync
  <1>4. IsAzureObject(intentsCache')
    BY <1>2 DEF AzureInv
  <1> QED BY <1>1, <1>3, <1>4 DEF AzureInv, IsAzureAssignment, IsAzureObject

LEMMA AzureStep == AzureInv /\ [AzureAgent!Next]_(AzureAgent!vars) => AzureInv'
  <1>1. AzureInv /\ UNCHANGED AzureAgent!vars => AzureInv'
    <2> SUFFICES ASSUME AzureInv, UNCHANGED AzureAgent!vars PROVE AzureInv'
      OBVIOUS
    <2>1. UNCHANGED <<intents, intentsCache, identity, customRoles, assignments, pass>>
      BY DEF AzureAgent!vars
    <2> QED BY <2>1 DEF AzureInv, IsAzureAssignment, IsAzureObject
  <1> QED BY <1>1, AzureBegin, AzureCustomRole, AzureForget, AzureNamedRoles, AzureVaults,
             AzureDelete, AzureRelease, AzureCredentials, AzureAround
          DEF AzureAgent!Next, AzureAgent!Step, AzureAgent!Custom

\* What the declarations of AzureAgent say.
AzureActions ==
    UNION {t.access : t \in UNION {AzureAgent!ToSet(d) : d \in
        {<<>>, <<Azure("custom role", "s", {"read"})>>,
        <<Azure("custom role", "s", {"write"}), Azure("named", "t", {"reader"})>>,
        <<Azure("named", "t", {"reader", "owner"}), Azure("vault", "v", {"get"})>>}}}

LEMMA FirstOfSequence ==
    ASSUME NEW a, NEW b
    PROVE  a \in AzureAgent!ToSet(<<a>>) /\ a \in AzureAgent!ToSet(<<a, b>>)
  BY DEF AzureAgent!ToSet

LEMMA AzureActionsDeclared == {"read", "write"} \subseteq AzureActions
  <1>1. /\ Azure("custom role", "s", {"read"}).access = {"read"}
        /\ Azure("custom role", "s", {"write"}).access = {"write"}
    BY DEF Azure
  <1>2. /\ Azure("custom role", "s", {"read"}) \in
             AzureAgent!ToSet(<<Azure("custom role", "s", {"read"})>>)
        /\ Azure("custom role", "s", {"write"}) \in
             AzureAgent!ToSet(<<Azure("custom role", "s", {"write"}), Azure("named", "t", {"reader"})>>)
    BY FirstOfSequence
  <1> QED BY <1>1, <1>2 DEF AzureActions

LEMMA AzureTyped == AzureInv => AzureAgent!TypeOK
  <1> SUFFICES ASSUME AzureInv PROVE AzureAgent!TypeOK
    OBVIOUS
  <1>1. /\ intents.stage \in {AzureAgent!None, "new", "live", "deleting"}
        /\ \A a \in assignments : a.scope \in {"s", "t"} /\ a.kind \in {AzureAgent!Custom, "named"}
        /\ ~identity => assignments = {}
    BY DEF AzureInv, IsAzureObject, IsAzureAssignment, AzureAgent!None, AzureAgent!Custom
  <1>2. ASSUME NEW s \in {"s", "t"}
        PROVE  customRoles[s] \in SUBSET AzureActions
    BY AzureActionsDeclared DEF AzureInv
  <1> QED BY <1>1, <1>2 DEF AzureAgent!TypeOK, AzureActions

-----------------------------------------------------------------------------
(* GcpPolicies: types.  Of a service account, the member is made after the *)
(* account and deleted before it.                                          *)

GcpIntents == [stage : {"none", "new", "live", "deleting"},
               bindings : {"x", "y", "*/z", "no GCP targets"}]
GcpPolicy == [bindings : {"x", "y", "*/z", "no GCP targets", "none"}, account : {"a", "b", "none"}]

MembersOfAccounts ==
    \A a \in {"a", "b"} : Gcp!Member(a) \in google => Gcp!Gsa(a) \in google

GcpInv ==
    /\ intents \in GcpIntents /\ intentsCache \in GcpIntents
    /\ account \in {"a", "b", "none"}
    /\ policy \in GcpPolicy /\ policyCache \in GcpPolicy
    /\ MembersOfAccounts

LEMMA GcpInit == Gcp!Init => GcpInv
  <1>1. Gcp!NoPolicy \in GcpPolicy /\ Gcp!NoIntents \in GcpIntents
    BY DEF GcpIntents, GcpPolicy, Gcp!NoPolicy, Gcp!NoIntents, Gcp!None, Gcp!Nothing
  <1> QED BY <1>1 DEF Gcp!Init, GcpInv, Gcp!None, MembersOfAccounts

\* A pass writes a policy of the declared bindings for the account, or none.
LEMMA GcpPassTypes == GcpInv /\ Gcp!Step => GcpInv'
  <1> SUFFICES ASSUME GcpInv, Gcp!Step PROVE GcpInv'
    OBVIOUS
  <1>1. UNCHANGED <<intentsCache, account, policyCache, google>>
    BY DEF Gcp!Step, Gcp!Apply, Gcp!Skip, Gcp!Delete
  <1>2. Gcp!NoPolicy \in GcpPolicy /\ Gcp!NoIntents \in GcpIntents
        /\ Gcp!PolicyOf(intentsCache.bindings, account) \in GcpPolicy
    BY DEF GcpInv, GcpIntents, GcpPolicy, Gcp!NoPolicy, Gcp!NoIntents, Gcp!PolicyOf,
           Gcp!None, Gcp!Nothing
  <1>3. policy' \in {policy, Gcp!NoPolicy, Gcp!PolicyOf(intentsCache.bindings, account)}
    BY DEF Gcp!Step, Gcp!Apply, Gcp!Skip, Gcp!Delete
  <1>4. intents' \in {intents, Gcp!NoIntents, [intents EXCEPT !.stage = "live"]}
    BY DEF Gcp!Step, Gcp!Apply, Gcp!Skip, Gcp!Delete
  <1>5. [intents EXCEPT !.stage = "live"] \in GcpIntents
    BY DEF GcpInv, GcpIntents
  <1> QED BY <1>1, <1>2, <1>3, <1>4, <1>5 DEF GcpInv, MembersOfAccounts

LEMMA GcpCredentials == GcpInv /\ Gcp!Credentials => GcpInv'
  <1> SUFFICES ASSUME GcpInv, NEW a \in {"a", "b"},
                      Gcp!CreateGsa(a) \/ Gcp!Connect(a) \/ Gcp!Disconnect(a) \/ Gcp!DeleteGsa(a)
               PROVE  GcpInv'
    BY DEF Gcp!Credentials
  <1>1. UNCHANGED <<intents, intentsCache, account, policy, policyCache>>
    BY DEF Gcp!CreateGsa, Gcp!Connect, Gcp!Disconnect, Gcp!DeleteGsa
  <1>2. \A b, c \in {"a", "b"} : /\ Gcp!Member(b) # Gcp!Gsa(c)
                                 /\ Gcp!Member(b) = Gcp!Member(c) => b = c
                                 /\ Gcp!Gsa(b) = Gcp!Gsa(c) => b = c
    BY DEF Gcp!Member, Gcp!Gsa
  <1>3. MembersOfAccounts'
    <2>1. CASE Gcp!CreateGsa(a)
      BY <1>2, <2>1 DEF Gcp!CreateGsa, GcpInv, MembersOfAccounts
    <2>2. CASE Gcp!Connect(a)
      BY <1>2, <2>2 DEF Gcp!Connect, GcpInv, MembersOfAccounts
    <2>3. CASE Gcp!Disconnect(a)
      BY <1>2, <2>3 DEF Gcp!Disconnect, GcpInv, MembersOfAccounts
    <2>4. CASE Gcp!DeleteGsa(a)
      BY <1>2, <2>4 DEF Gcp!DeleteGsa, GcpInv, MembersOfAccounts
    <2> QED BY <2>1, <2>2, <2>3, <2>4
  <1> QED BY <1>1, <1>3 DEF GcpInv

LEMMA GcpAround == GcpInv /\ (Gcp!Users \/ Gcp!Sync \/ Gcp!Resync) => GcpInv'
  <1> SUFFICES ASSUME GcpInv, Gcp!Users \/ Gcp!Sync \/ Gcp!Resync PROVE GcpInv'
    OBVIOUS
  <1>1. /\ UNCHANGED <<policy, google>> /\ policyCache' \in {policy, policyCache}
        /\ intentsCache' \in {intents, intentsCache}
    BY DEF Gcp!Users, Gcp!ChangeIntents, Gcp!ChangePods, Gcp!Sync, Gcp!Resync
  <1>2. account' \in {"a", "b", "none"}
    BY DEF GcpInv, Gcp!Users, Gcp!ChangeIntents, Gcp!ChangePods, Gcp!Sync, Gcp!Resync, Gcp!None
  <1>3. intents' \in GcpIntents
    <2>1. CASE Gcp!ChangeIntents
      <3>1. ASSUME NEW b \in {"x", "y", "*/z", "no GCP targets"},
                   intents' = [stage |-> IF intents.stage = Gcp!None THEN "new" ELSE intents.stage,
                               bindings |-> b]
            PROVE  intents' \in GcpIntents
        BY <3>1 DEF GcpInv, GcpIntents
      <3>2. CASE intents' = [intents EXCEPT !.stage = "deleting"]
        BY <3>2 DEF GcpInv, GcpIntents
      <3> QED BY <2>1, <3>1, <3>2 DEF Gcp!ChangeIntents, Gcp!Nothing
    <2> QED BY <2>1 DEF GcpInv, Gcp!Users, Gcp!ChangePods, Gcp!Sync, Gcp!Resync
  <1> QED BY <1>1, <1>2, <1>3 DEF GcpInv, MembersOfAccounts

LEMMA GcpStep == GcpInv /\ [Gcp!Next]_(Gcp!vars) => GcpInv'
  <1>1. GcpInv /\ UNCHANGED Gcp!vars => GcpInv'
    BY DEF Gcp!vars, GcpInv, MembersOfAccounts
  <1> QED BY <1>1, GcpPassTypes, GcpCredentials, GcpAround DEF Gcp!Next

LEMMA GcpTyped == GcpInv => Gcp!TypeOK
  BY DEF GcpInv, GcpIntents, GcpPolicy, MembersOfAccounts, Gcp!TypeOK, Gcp!None, Gcp!Nothing

-----------------------------------------------------------------------------
(* ReconcilerGroup: its theorem is about the part of MCAgents.             *)

GroupTheorems == INSTANCE ReconcilerGroup_proofs WITH
    Controller <- "controller", N <- 1, NamesReused <- FALSE, MaxSpecs <- 1, MaxFaults <- 0

\* The definitions of the two instances are the same.
LEMMA SameGroup ==
    /\ Group!Init => GroupTheorems!Init
    /\ [Group!Next]_(Group!vars) => [GroupTheorems!Next]_(GroupTheorems!vars)
    /\ GroupTheorems!TypeOK => Group!TypeOK
  <1>1. Group!Init => GroupTheorems!Init
    BY Zenon
    DEF Group!Subs, GroupTheorems!Subs, Group!NoSpec, GroupTheorems!NoSpec, Group!Gone,
        GroupTheorems!Gone, Group!Idle, GroupTheorems!Idle, Group!Init, GroupTheorems!Init
  <1>2. Group!Next => GroupTheorems!Next
    BY Zenon
    DEF Group!Subs, GroupTheorems!Subs, Group!NoSpec, GroupTheorems!NoSpec, Group!Objects,
        GroupTheorems!Objects, Group!Gone, GroupTheorems!Gone, Group!PCs, GroupTheorems!PCs,
        Group!Passes, GroupTheorems!Passes, Group!Idle, GroupTheorems!Idle, Group!Created,
        GroupTheorems!Created, Group!Store, GroupTheorems!Store, Group!Raced,
        GroupTheorems!Raced, Group!Invalid, GroupTheorems!Invalid, Group!End,
        GroupTheorems!End, Group!Fault, GroupTheorems!Fault, Group!Goto, GroupTheorems!Goto,
        Group!FailPass, GroupTheorems!FailPass, Group!Begin, GroupTheorems!Begin,
        Group!Demote, GroupTheorems!Demote, Group!GetObject, GroupTheorems!GetObject,
        Group!GroupUpdate, GroupTheorems!GroupUpdate, Group!EnsureFinalizer,
        GroupTheorems!EnsureFinalizer, Group!RemoveLegacyFinalizers,
        GroupTheorems!RemoveLegacyFinalizers, Group!SubRead, GroupTheorems!SubRead,
        Group!Wanted, GroupTheorems!Wanted, Group!NextSub, GroupTheorems!NextSub,
        Group!SubSucceeds, GroupTheorems!SubSucceeds, Group!SubFails, GroupTheorems!SubFails,
        Group!SubAct, GroupTheorems!SubAct, Group!FinishGroup, GroupTheorems!FinishGroup,
        Group!Marked, GroupTheorems!Marked, Group!MarkUpToDate, GroupTheorems!MarkUpToDate,
        Group!NewSpec, GroupTheorems!NewSpec, Group!Create, GroupTheorems!Create, Group!Edit,
        GroupTheorems!Edit, Group!Delete, GroupTheorems!Delete, Group!CacheSync,
        GroupTheorems!CacheSync, Group!PodEvent, GroupTheorems!PodEvent, Group!Crash,
        GroupTheorems!Crash, Group!Init, GroupTheorems!Init, Group!Step, GroupTheorems!Step,
        Group!Calls, GroupTheorems!Calls, Group!Fails, GroupTheorems!Fails, Group!Environment,
        GroupTheorems!Environment, Group!Next, GroupTheorems!Next
  <1>3. UNCHANGED Group!vars => UNCHANGED GroupTheorems!vars
    BY Zenon DEF Group!vars, GroupTheorems!vars
  <1>4. GroupTheorems!TypeOK => Group!TypeOK
    BY Zenon
    DEF Group!Subs, GroupTheorems!Subs, Group!Objects, GroupTheorems!Objects, Group!PCs,
        GroupTheorems!PCs, Group!Passes, GroupTheorems!Passes, Group!TypeOK,
        GroupTheorems!TypeOK
  <1> QED BY <1>1, <1>2, <1>3, <1>4

LEMMA GroupTypes == Group!Spec => []Group!TypeOK
  <1>1. GroupTheorems!ConstantsAssumption
    BY DEF GroupTheorems!ConstantsAssumption, Workers
  <1>2. GroupTheorems!Spec => []GroupTheorems!TypeOK
    BY <1>1, GroupTheorems!TypesForConstants
  <1> QED BY <1>2, SameGroup, PTL DEF Group!Spec, GroupTheorems!Spec

-----------------------------------------------------------------------------
(* The types of all parts.                                                 *)

LEMMA DatabaseTyped == GrantsType => Database!TypeOK
  <1> SUFFICES ASSUME GrantsType PROVE Database!TypeOK
    OBVIOUS
  <1>1. /\ intents.stage \in {Database!None, "new", "live", "deleting"} /\ queued \in BOOLEAN
        /\ configs \subseteq Database!Instances /\ users \subseteq configs
        /\ \A i \in Database!Instances \ users : grants[i] = {}
        /\ pod.instances \subseteq configs
    BY DEF GrantsType, Objects, OfConfigured, Database!None
  <1>2. ASSUME NEW i \in Database!Instances, NEW g \in grants[i]
        PROVE  /\ g.operation \in Operations
               /\ g.table \in Tables \cup (IF i \in MySQL THEN {Database!AllTables} ELSE {})
    BY <1>2 DEF GrantsType, Grantable
  <1> QED BY <1>1, <1>2 DEF Database!TypeOK

\* The definitions of the two instances of KafkaServers are the same.
LEMMA KafkaTypes ==
    ASSUME KafkaTheorems!NamesApart
    PROVE  KafkaTheorems!Spec => []Kafka!TypeOK
  <1>1. KafkaTheorems!TypeOK => Kafka!TypeOK
    BY Zenon DEF Kafka!None, KafkaTheorems!None, Kafka!NoIntents, KafkaTheorems!NoIntents, Kafka!NoConfig, KafkaTheorems!NoConfig, Kafka!Stages, KafkaTheorems!Stages, Kafka!Idle, KafkaTheorems!Idle, Kafka!Acl, KafkaTheorems!Acl, Kafka!Anonymous, KafkaTheorems!Anonymous, Kafka!AnyUser, KafkaTheorems!AnyUser, Kafka!TypeOK, KafkaTheorems!TypeOK
  <1>2. KafkaTheorems!Spec => []KafkaTheorems!TypeOK
    BY KafkaTheorems!TypeCorrect
  <1> QED BY <1>1, <1>2, PTL

\* Steps of the other parts are steps of their modules.
LEMMA OtherParts ==
    /\ Init /\ part = "azure" => AzureAgent!Init
    /\ [Next]_vars /\ part = "azure" => [AzureAgent!Next]_(AzureAgent!vars)
    /\ Init /\ part = "gcp" => Gcp!Init
    /\ [Next]_vars /\ part = "gcp" => [Gcp!Next]_(Gcp!vars)
    /\ Init /\ part = "group" => Group!Init
    /\ [Next]_vars /\ part = "group" => [Group!Next]_(Group!vars)
  <1>1. /\ Init /\ part = "azure" => AzureAgent!Init
        /\ Init /\ part = "gcp" => Gcp!Init
        /\ Init /\ part = "group" => Group!Init
    BY DEF Init
  <1>2. [Next]_vars /\ part = "azure" => [AzureAgent!Next]_(AzureAgent!vars)
    BY DEF Next, vars, InLabels, InKafka, InDatabase, InAws, InAzure, InGcp, InGroup,
           azureOnly, AzureAgent!vars
  <1>3. [Next]_vars /\ part = "gcp" => [Gcp!Next]_(Gcp!vars)
    BY DEF Next, vars, InLabels, InKafka, InDatabase, InAws, InAzure, InGcp, InGroup,
           gcpOnly, Gcp!vars
  <1>4. [Next]_vars /\ part = "group" => [Group!Next]_(Group!vars)
    BY DEF Next, vars, InLabels, InKafka, InDatabase, InAws, InAzure, InGcp, InGroup,
           groupOnly, Group!vars
  <1> QED BY <1>1, <1>2, <1>3, <1>4

\* Whatever the part: its variables keep their types, a database has no grants without
\* a user, a policy is attached to roles that exist, an Azure identity that is gone
\* has no assignments, and the member of a Google account has its account.
THEOREM TypeCorrect ==
    ASSUME KafkaTheorems!NamesApart
    PROVE  Spec => []TypeOK
  <1>1. /\ part = "labels" /\ Labels!TypeOK => TypeOK
        /\ part = "kafka" /\ Kafka!TypeOK => TypeOK
        /\ part = "database" /\ Database!TypeOK => TypeOK
        /\ part = "aws" /\ Aws!TypeOK => TypeOK
        /\ part = "azure" /\ AzureAgent!TypeOK => TypeOK
        /\ part = "gcp" /\ Gcp!TypeOK => TypeOK
        /\ part = "group" /\ Group!TypeOK => TypeOK
    BY DEF TypeOK
  <1>2. Init => \/ part = "labels" \/ part = "kafka" \/ part = "database" \/ part = "aws"
                \/ part = "azure" \/ part = "gcp" \/ part = "group"
    BY DEF Init
  <1>3. [Next]_vars => /\ part = "labels" => (part = "labels")'
                       /\ part = "kafka" => (part = "kafka")'
                       /\ part = "database" => (part = "database")'
                       /\ part = "aws" => (part = "aws")'
                       /\ part = "azure" => (part = "azure")'
                       /\ part = "gcp" => (part = "gcp")'
                       /\ part = "group" => (part = "group")'
    BY SamePart
  <1>4. Init /\ part = "labels" /\ [][Next]_vars => []TypeOK
    BY <1>1, <1>3, LabelsPart, LabelsTypeInvariant, PTL DEF Labels!Spec
  <1>5. Init /\ part = "kafka" /\ [][Next]_vars => []TypeOK
    BY <1>1, <1>3, KafkaPart, SameKafka, KafkaTypes, PTL DEF KafkaTheorems!Spec
  <1>6. Init /\ part = "database" /\ [][Next]_vars => []TypeOK
    BY <1>1, <1>3, DatabasePart, GrantsTypeInvariant, DatabaseTyped, PTL DEF Database!Spec
  <1>7. Init /\ part = "aws" /\ [][Next]_vars => []TypeOK
    BY <1>1, <1>3, AwsPart, AwsTypes, PTL DEF Aws!Spec
  <1>8. Init /\ part = "azure" /\ [][Next]_vars => []TypeOK
    BY <1>1, <1>3, OtherParts, AzureInit, AzureStep, AzureTyped, PTL
  <1>9. Init /\ part = "gcp" /\ [][Next]_vars => []TypeOK
    BY <1>1, <1>3, OtherParts, GcpInit, GcpStep, GcpTyped, PTL
  <1>10. Init /\ part = "group" /\ [][Next]_vars => []TypeOK
    BY <1>1, <1>3, OtherParts, GroupTypes, PTL DEF Group!Spec
  <1> QED BY <1>2, <1>4, <1>5, <1>6, <1>7, <1>8, <1>9, <1>10, PTL DEF Spec

=============================================================================

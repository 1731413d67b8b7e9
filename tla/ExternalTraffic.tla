--------------------------- MODULE ExternalTraffic ---------------------------
(***************************************************************************)
(* external_traffic.NetworkPolicyHandler for one Kubernetes Service: the   *)
(* policy that admits external traffic to the pods behind it, which the    *)
(* operator's own ingress policies would otherwise block.                  *)
(*                                                                         *)
(* Several controllers call HandleEndpoints concurrently: on events of the *)
(* Service, its Endpoints and Ingresses, on events of every NetworkPolicy, *)
(* and directly from the code that writes access policies.  They share     *)
(* nothing but the API server and informer caches that lag behind it.      *)
(***************************************************************************)
EXTENDS Naturals, Sequences

CONSTANTS
    Workloads,    \* owners of the pods behind the Service
    AddressLists, \* addresses the Endpoints may have, as their pods' owners
    Kinded,       \* workloads whose access policies are labelled with their kind
    Modes,        \* values of AutomateThirdPartyNetworkPolicy to consider
    MaxChanges,   \* bound: changes of the Service and of ingress policies
    MaxFaults     \* bound: failed calls and crashes

\* What is assumed of the constants.
ConstantsAssumption ==
    /\ AddressLists \subseteq Seq(Workloads)
    /\ Kinded \subseteq Workloads
    /\ "none" \notin Workloads   \* not a workload, see None
    /\ Modes \subseteq {"off", "always", "if-blocked-by-otterize"}
    /\ MaxChanges \in Nat
    /\ MaxFaults \in Nat

\* Goroutines that call HandleEndpoints: the Service's and Endpoints' own
\* controllers (and the Ingresses'), the NetworkPolicy controller, and the
\* reconciler that writes access policies.
Handlers == {"service", "netpol", "intents"}

VARIABLES
    mode,               \* the configured mode
    service,            \* the Service: whether it is exposed, its addresses
    ingress,            \* the operator's ingress policies, access and deny
    external,           \* the external-traffic policy
    serviceCache, ingressCache, externalCache,
    events,             \* policies with changes the informer has yet to deliver
    removing,           \* access policies whose removal has begun
    queued,             \* queued[h]: h is to handle the Service
    run,                \* run[h]: the local state of h's HandleEndpoints
    changes, faults

clusterVars == <<service, ingress, external>>
cacheVars == <<serviceCache, ingressCache, externalCache>>
vars == <<mode, clusterVars, cacheVars, events, removing, queued, run, changes,
          faults>>

ServiceStates == [exposed : BOOLEAN, addresses : AddressLists]

IngressPolicies == Workloads \X {"access", "deny"}

\* Selector and label of the policy; a policy for pods that no ingress policy
\* affects has the selector of the Service.
ExternalPolicies == [selector : Workloads \cup {"service"}, label : Workloads]

None == [selector |-> "none", label |-> "none"]   \* there is no policy

Runs == [pc       : {"idle", "next", "remove", "look", "write"},
         left     : Seq(Workloads),  \* addresses not handled yet
         affected : BOOLEAN,         \* hasIngressRules, of the first of these
         found    : BOOLEAN,         \* foundOtterizeNetpolsAffectingPods
         times    : Nat]             \* times to go over the Endpoints

Idle == [pc |-> "idle", left |-> <<>>, affected |-> FALSE, found |-> FALSE,
         times |-> 0]

TypeOK ==
    /\ mode \in Modes
    /\ service \in ServiceStates /\ serviceCache \in ServiceStates
    /\ ingress \subseteq IngressPolicies /\ ingressCache \subseteq IngressPolicies
    /\ external \in ExternalPolicies \cup {None}
    /\ externalCache \in ExternalPolicies \cup {None}
    /\ events \subseteq {"ingress", "external"}
    /\ removing \subseteq Workloads
    /\ queued \in [Handlers -> BOOLEAN]
    /\ run \in [Handlers -> Runs]
    /\ changes \in 0 .. MaxChanges
    /\ faults \in 0 .. MaxFaults

Affected(w, policies) == \E kind \in {"access", "deny"} : <<w, kind>> \in policies

Goto(h, r) ==
    /\ run' = [run EXCEPT ![h] = r]
    /\ queued' = queued

\* Mutant: an error is not returned to the workqueue.
EndWithoutRetry(h, retry) ==
    /\ run' = [run EXCEPT ![h] = Idle]
    /\ queued' = queued

\* The call returns.  An error makes a controller try again; the access policy
\* reconciler does not come back here, since it finds its policy in place.
End(h, retry) ==
    /\ run' = [run EXCEPT ![h] = Idle]
    /\ queued' = [queued EXCEPT ![h] = @ \/ (retry /\ h # "intents")]

Fault == faults < MaxFaults /\ faults' = faults + 1

\* A write of the external policy; the informer hears of it later.
Store(policy) ==
    /\ external' = policy
    /\ events' = IF policy = external THEN events ELSE events \cup {"external"}

-----------------------------------------------------------------------------
(* HandleEndpoints                                                         *)

\* HandleEndpoints once, or once for every pod behind the Service: the Service
\* and its Ingresses are looked at.
Begin(h) ==
    LET times == IF run[h].pc = "next" THEN run[h].times
                 ELSE IF h = "service" THEN 1
                 ELSE Len(serviceCache.addresses) IN
    /\ run[h].pc = "next" \/ (run[h].pc = "idle" /\ queued[h])
    /\ run' = [run EXCEPT ![h] =
                 IF times = 0 THEN Idle
                 ELSE IF serviceCache.exposed
                 THEN [Idle EXCEPT !.pc = "look", !.times = times,
                                   !.left = serviceCache.addresses]
                 ELSE [Idle EXCEPT !.pc = "remove", !.times = times]]
    /\ queued' = [queued EXCEPT ![h] = @ /\ run[h].pc = "next"]
    /\ UNCHANGED <<mode, clusterVars, cacheVars, events, removing, changes,
                   faults>>

\* HandleEndpoints is done; it may have to be called for another pod.
NextPod(h) ==
    IF run[h].times = 1 THEN End(h, FALSE)
    ELSE Goto(h, [Idle EXCEPT !.pc = "next", !.times = run[h].times - 1])

\* handlePolicyDelete: decided on the cached policy.
Delete == Store(IF externalCache = None THEN external ELSE None)

\* A Service that is not exposed needs no policy.
RemovePolicy(h) ==
    /\ run[h].pc = "remove"
    /\ Delete
    /\ NextPod(h)
    /\ UNCHANGED <<mode, service, ingress, cacheVars, removing, changes, faults>>

\* Mutant: an existing policy is replaced by one that lacks the label.
CreateOrUnlabel(h, policy, next) ==
    /\ Store(IF externalCache = None THEN policy
             ELSE [policy EXCEPT !.label = "none"])
    /\ Goto(h, next)

\* createOrUpdateNetworkPolicy: create, or patch what differs, or nothing.  A
\* policy that the cache misses fails to be created and to be read; one that is
\* gone fails to be patched.
CreateOrUpdate(h, policy, next) ==
    \/ /\ externalCache = None /\ external = None
       /\ Store(policy)
       /\ Goto(h, next)
    \/ /\ externalCache = policy
       /\ Goto(h, next)
       /\ UNCHANGED <<external, events>>
    \/ /\ externalCache \notin {None, policy} /\ external # None
       /\ Store([selector |-> IF externalCache.selector = policy.selector
                              THEN external.selector ELSE policy.selector,
                 label |-> IF externalCache.label = policy.label
                           THEN external.label ELSE policy.label])
       /\ Goto(h, next)
    \/ /\ \/ externalCache = None /\ external # None
          \/ externalCache \notin {None, policy} /\ external = None
       /\ End(h, TRUE)
       /\ UNCHANGED <<external, events>>

\* One address: is its pod affected by an ingress policy of the operator?
LookAtAddress(h) ==
    /\ run[h].pc = "look"
    /\ run[h].left # <<>>
    /\ LET affected == Affected(Head(run[h].left), ingressCache) IN
       Goto(h, [run[h] EXCEPT !.pc = "write", !.affected = affected,
                              !.found = @ \/ affected])
    /\ UNCHANGED <<mode, clusterVars, cacheVars, events, removing, changes,
                   faults>>

\* ... and what follows from that for the external policy.
HandleAddress(h) ==
    /\ run[h].pc = "write"
    /\ LET w == Head(run[h].left)
           rest == [run[h] EXCEPT !.pc = "look", !.left = Tail(@),
                                  !.affected = FALSE] IN
       \/ /\ IF run[h].affected THEN mode = "off" ELSE mode # "always"
          /\ Delete
          /\ Goto(h, rest)
       \/ /\ ~run[h].affected /\ mode = "always"
          /\ CreateOrUpdate(h, [selector |-> "service", label |-> w], rest)
       \/ /\ run[h].affected /\ mode # "off"
          /\ CreateOrUpdate(h, [selector |-> w, label |-> w], rest)
    /\ UNCHANGED <<mode, service, ingress, cacheVars, removing, changes, faults>>

AddressesDone(h) ==
    /\ run[h].pc = "look"
    /\ run[h].left = <<>>
    /\ IF ~run[h].found /\ mode # "always" THEN Delete
       ELSE UNCHANGED <<external, events>>
    /\ NextPod(h)
    /\ UNCHANGED <<mode, service, ingress, cacheVars, removing, changes, faults>>

RunFault(h) ==
    /\ run[h].pc # "idle"
    /\ Fault
    /\ End(h, TRUE)
    /\ UNCHANGED <<mode, clusterVars, cacheVars, events, removing, changes>>

-----------------------------------------------------------------------------
(* The code that writes access policies (see NetworkPolicies) and default  *)
(* deny policies.                                                          *)

Change == changes < MaxChanges /\ changes' = changes + 1

SetIngress(policies) ==
    /\ ingress' = policies
    /\ events' = events \cup {"ingress"}

\* createNetworkPolicy, then reconcileEndpointsForPolicy on the policy's pods.
ApplyAccess ==
    /\ Change
    /\ \E w \in Workloads :
         /\ <<w, "access">> \notin ingress
         /\ SetIngress(ingress \cup {<<w, "access">>})
    /\ queued' = [queued EXCEPT !["intents"] = TRUE]
    /\ UNCHANGED <<mode, service, external, cacheVars, removing, run, faults>>

\* HandleBeforeAccessPolicyRemoval, which deletes the external policy unless
\* another policy of the workload remains.  It looks for the label of the access
\* policy; an external policy has the label of the pods, which lacks the kind.
BeforeAccessRemoval ==
    /\ Change
    /\ \E w \in Workloads \ removing :
         /\ <<w, "access">> \in ingressCache
         /\ removing' = removing \cup {w}
         /\ IF /\ mode # "always"
               /\ w \notin Kinded
               /\ <<w, "deny">> \notin ingressCache
               /\ externalCache.label = w
            THEN Store(None)
            ELSE UNCHANGED <<external, events>>
    /\ UNCHANGED <<mode, service, ingress, cacheVars, queued, run, faults>>

\* ... and then the deletion of the access policy.
RemoveAccess ==
    /\ \E w \in removing :
         /\ removing' = removing \ {w}
         /\ SetIngress(ingress \ {<<w, "access">>})
    /\ UNCHANGED <<mode, service, external, cacheVars, queued, run, changes,
                   faults>>

\* DefaultDenyReconciler creates or deletes the policy of a workload.
ToggleDeny ==
    /\ Change
    /\ \E w \in Workloads :
         SetIngress(IF <<w, "deny">> \in ingress
                    THEN ingress \ {<<w, "deny">>}
                    ELSE ingress \cup {<<w, "deny">>})
    /\ UNCHANGED <<mode, service, external, cacheVars, removing, queued, run,
                   faults>>

-----------------------------------------------------------------------------
(* The Service, the informers and the process.                             *)

\* The Service's type, an Ingress that refers to it, or its pods change.
ChangeService ==
    /\ Change
    /\ \E s \in ServiceStates : s # service /\ service' = s
    /\ UNCHANGED <<mode, ingress, external, cacheVars, events, removing, queued,
                   run, faults>>

SyncService ==
    /\ serviceCache # service
    /\ serviceCache' = service
    /\ queued' = [queued EXCEPT !["service"] = TRUE]
    /\ UNCHANGED <<mode, clusterVars, ingressCache, externalCache, events,
                   removing, run, changes, faults>>

\* Mutant: the NetworkPolicy controller skips the operator's external policies.
SyncPolicyOfOthers(kind) ==
    /\ kind \in events
    /\ events' = events \ {kind}
    /\ ingressCache' = IF kind = "ingress" THEN ingress ELSE ingressCache
    /\ externalCache' = IF kind = "external" THEN external ELSE externalCache
    /\ queued' = [queued EXCEPT !["netpol"] = @ \/ kind = "ingress"]
    /\ UNCHANGED <<mode, clusterVars, serviceCache, removing, run, changes,
                   faults>>

\* An event of any NetworkPolicy, the external one included, makes the
\* NetworkPolicy controller handle the pods of its namespace.
SyncPolicy(kind) ==
    /\ kind \in events
    /\ events' = events \ {kind}
    /\ ingressCache' = IF kind = "ingress" THEN ingress ELSE ingressCache
    /\ externalCache' = IF kind = "external" THEN external ELSE externalCache
    /\ queued' = [queued EXCEPT !["netpol"] = TRUE]
    /\ UNCHANGED <<mode, clusterVars, serviceCache, removing, run, changes,
                   faults>>

\* On a restart the access policies are all gone through again.
Crash ==
    /\ Fault
    /\ serviceCache' = service /\ ingressCache' = ingress
    /\ externalCache' = external
    /\ events' = {} /\ removing' = {}
    /\ queued' = [h \in Handlers |-> h # "intents"]
    /\ run' = [h \in Handlers |-> Idle]
    /\ UNCHANGED <<mode, clusterVars, changes>>

-----------------------------------------------------------------------------
\* The operator starts, in a mode it may not have had before, on a cluster with
\* or without the policies of an earlier one.
Init ==
    /\ mode \in Modes
    /\ service \in ServiceStates
    /\ ingress \in SUBSET IngressPolicies
    /\ external \in {None} \cup {[selector |-> w, label |-> w] : w \in Workloads}
    /\ serviceCache = service /\ ingressCache = ingress
    /\ externalCache = external
    /\ events = {} /\ removing = {}
    /\ queued = [h \in Handlers |-> h # "intents"]
    /\ run = [h \in Handlers |-> Idle]
    /\ changes = 0 /\ faults = 0

Step(h) ==
    \/ Begin(h) \/ RemovePolicy(h)
    \/ LookAtAddress(h) \/ HandleAddress(h) \/ AddressesDone(h)

Next ==
    \/ \E h \in Handlers : Step(h) \/ RunFault(h)
    \/ ApplyAccess \/ BeforeAccessRemoval \/ RemoveAccess \/ ToggleDeny
    \/ ChangeService \/ SyncService \/ Crash
    \/ \E kind \in {"ingress", "external"} : SyncPolicy(kind)

Spec == Init /\ [][Next]_vars

FairSpec ==
    /\ Spec
    /\ \A h \in Handlers : WF_vars(Step(h))
    /\ WF_vars(RemoveAccess) /\ WF_vars(SyncService)
    /\ \A kind \in {"ingress", "external"} : WF_vars(SyncPolicy(kind))

-----------------------------------------------------------------------------
(* Properties.                                                             *)

Addressed == {service.addresses[i] : i \in DOMAIN service.addresses}

\* Whether the exposed Service needs a policy for external traffic.
Needed ==
    /\ service.exposed
    /\ \/ mode = "always"
       \/ /\ mode = "if-blocked-by-otterize"
          /\ \E w \in Addressed : Affected(w, ingress)

\* The policy selects the pods of a workload: those that the operator's ingress
\* policies select, or all of the Service's.
Admits(w) == external.selector \in {w, "service"}

\* External traffic is admitted to the pods that the operator's ingress policies
\* affect, or in mode "always" to the Service's, exactly when the Service is
\* exposed (HandleEndpoints' comment).  A Service without pods is left out:
\* nothing handles it again once another controller has written its policy.
ExternalAsNeeded ==
    \/ Addressed = {}
    \/ /\ external # None <=> Needed
       /\ Needed => \A w \in Addressed : Affected(w, ingress) => Admits(w)

AtRest ==
    /\ serviceCache = service /\ events = {} /\ removing = {}
    /\ \A h \in Handlers : run[h] = Idle /\ ~queued[h]

\* Once every controller has nothing left to do, the external policy is there
\* exactly when it is needed, whatever they read from lagging caches and in
\* whatever order they wrote.
ExternalMatchesAtRest == AtRest => ExternalAsNeeded

\* When the cluster stops changing, the controllers agree on the external policy
\* and leave it as it is.
Settles == <>[]ExternalAsNeeded

=============================================================================

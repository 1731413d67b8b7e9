--------------------------- MODULE NetworkPolicies ---------------------------
(***************************************************************************)
(* The effective-policy group: effectivepolicy.GroupReconciler.Reconcile   *)
(* lists all ClientIntents, builds one effective policy per service, and   *)
(* hands them to networkpolicy.Reconciler, which applies the policies they *)
(* call for and removes every other access policy.                         *)
(*                                                                         *)
(* Four controllers call it (intents, ProtectedServices, Services, pods),  *)
(* concurrently and each on its own snapshot.  All reads go to informer    *)
(* caches that lag behind the API server, all writes to the API server.    *)
(***************************************************************************)
EXTENDS Naturals, FiniteSets

CONSTANTS
    Services,            \* workloads, as clients and as servers
    Namespaces,
    NamespaceOf,         \* [Services -> Namespaces]
    Targets,             \* Targets[s]: what s may declare that it calls
    Callers,             \* goroutines calling GroupReconciler.Reconcile
    IntentsController,   \* the caller fed by ClientIntents and ProtectedServices
    SeparatePolicies,    \* CreateSeparateEgressIngressPolicies
    EgressEnabled,       \* egress rule builders are configured
    EnforcementDefault,  \* EnforcementDefaultState
    EnforcedNamespaces,  \* namespaces where enforcement is always on
    RestrictToNamespaces,\* namespaces the operator may act in; {} for all
    PolicyCacheLag,      \* whether the NetworkPolicy informer may lag
    MaxChanges,          \* bound: changes users make
    MaxFaults            \* bound: failed calls and crashes

ASSUME ConstantsAssumption ==
    /\ NamespaceOf \in [Services -> Namespaces]
    /\ Targets \in [Services -> SUBSET Services]
    /\ IntentsController \in Callers
    /\ {SeparatePolicies, EgressEnabled, EnforcementDefault, PolicyCacheLag}
         \subseteq BOOLEAN
    /\ EnforcedNamespaces \subseteq Namespaces
    /\ RestrictToNamespaces \subseteq Namespaces
    /\ MaxChanges \in Nat
    /\ MaxFaults \in Nat

VARIABLES
    declared,  \* declared[s]: the targets of s's ClientIntents
    protected, \* services with a ProtectedService
    netpol,    \* the access policies in the cluster, by name
    ciCache,   \* the informers' views of the three
    psCache,
    npCache,
    queued,    \* queued[c]: c's workqueue holds a request
    run,       \* run[c]: the local state of c's running Reconcile
    changes, faults

userVars == <<declared, protected, changes>>
cacheVars == <<ciCache, psCache>>
vars == <<userVars, netpol, cacheVars, npCache, queued, run, faults>>

-----------------------------------------------------------------------------
(* Effective policies and the network policies they call for.              *)

Declarations == [Services -> SUBSET Services]

EffectivePolicies == [calls : SUBSET Services, calledBy : SUBSET Services]

\* A policy is named after its direction and its service.
Directions == {"ingress", "egress", "single"}
Names == Directions \X Services

\* Ingress rules admit a namespace (whose pods carry the access label); egress
\* rules admit a service.
Specs == [ingress : SUBSET Namespaces, egress : SUBSET Services]

\* No policy of that name; a policy has at least one rule.
NoPolicy == [ingress |-> {}, egress |-> {}]

NoPolicies == [n \in Names |-> NoPolicy]

Allowed(s) ==
    RestrictToNamespaces = {} \/ NamespaceOf[s] \in RestrictToNamespaces

\* IsServerEnforcementEnabledDueToProtectionOrDefaultState
Enforced(s, prot) ==
    \/ EnforcementDefault
    \/ NamespaceOf[s] \in EnforcedNamespaces
    \/ s \in prot

\* Mutant: the rules admit the clients' names where they need namespaces.
IngressRulesByClient(s, ep, prot) ==
    IF Enforced(s, prot) /\ Allowed(s) THEN ep.calledBy ELSE {}

IngressRules(s, ep, prot) ==
    IF Enforced(s, prot) /\ Allowed(s)
    THEN {NamespaceOf[client] : client \in ep.calledBy}
    ELSE {}

EgressRules(s, ep) ==
    IF EgressEnabled /\ EnforcementDefault /\ Allowed(s) THEN ep.calls ELSE {}

\* The policies built for s, by name: one, or one per direction.
BuiltAs(separate, s, ep, prot) ==
    LET ing == IngressRules(s, ep, prot)
        eg  == EgressRules(s, ep)
    IN [n \in Names |->
          IF n[2] # s THEN NoPolicy
          ELSE IF n[1] = "single" /\ ~separate
          THEN [ingress |-> ing, egress |-> eg]
          ELSE IF n[1] = "ingress" /\ separate
          THEN [ingress |-> ing, egress |-> {}]
          ELSE IF n[1] = "egress" /\ separate
          THEN [ingress |-> {}, egress |-> eg]
          ELSE NoPolicy]

Built(s, ep, prot) == BuiltAs(SeparatePolicies, s, ep, prot)

Wants(policies) == {n \in Names : policies[n] # NoPolicy}

CalledBy(s, decl) == {client \in Services : s \in decl[client]}

\* What the declarations d and the protected services prot call for.
DesiredAs(separate, d, prot) ==
    [n \in Names |->
       BuiltAs(separate, n[2],
               [calls |-> d[n[2]], calledBy |-> CalledBy(n[2], d)], prot)[n]]

Desired(d, prot) == DesiredAs(SeparatePolicies, d, prot)

-----------------------------------------------------------------------------
(* Runs.                                                                   *)

PCs == {"idle", "build", "apply", "write", "retry", "delete"}

Runs ==
    [pc      : PCs,
     listed  : Declarations,        \* the List of all ClientIntents
     todo    : SUBSET Services,     \* services left in the current loop
     eps     : [Services -> EffectivePolicies],
     pending : [Names -> Specs],    \* policies of the service being applied
     current : SUBSET Names,        \* policies applied by this run
     wanted  : SUBSET Names,        \* ... and those it meant to apply
     failed  : BOOLEAN,             \* len(errorList) > 0
     doomed  : SUBSET Names]        \* listed policies that should not exist

NoCalls == [s \in Services |-> {}]

Idle == [pc |-> "idle", listed |-> NoCalls, todo |-> {},
         eps |-> [s \in Services |-> [calls |-> {}, calledBy |-> {}]],
         pending |-> NoPolicies, current |-> {}, wanted |-> {},
         failed |-> FALSE, doomed |-> {}]

TypeOK ==
    /\ declared \in Declarations /\ ciCache \in Declarations
    /\ protected \subseteq Services /\ psCache \subseteq Services
    /\ netpol \in [Names -> Specs] /\ npCache \in [Names -> Specs]
    /\ queued \in [Callers -> BOOLEAN]
    /\ run \in [Callers -> Runs]
    /\ changes \in 0 .. MaxChanges
    /\ faults \in 0 .. MaxFaults

\* The run of c goes on as r.
Goto(c, r) ==
    /\ run' = [run EXCEPT ![c] = r]
    /\ queued' = queued

\* Mutant: the error of a run is not returned, the request is not retried.
EndWithoutRetry(c, retry) ==
    /\ run' = [run EXCEPT ![c] = Idle]
    /\ queued' = queued

\* Reconcile returns, with an error (and then it is called again) or without.
End(c, retry) ==
    /\ run' = [run EXCEPT ![c] = Idle]
    /\ queued' = [queued EXCEPT ![c] = @ \/ retry]

Fault == faults < MaxFaults /\ faults' = faults + 1

\* A write to the API server; without lag the informer has it at once.
Write(policies) ==
    /\ netpol' = policies
    /\ npCache' = IF PolicyCacheLag THEN npCache ELSE netpol'

-----------------------------------------------------------------------------
(* getAllServiceEffectivePolicies                                          *)

List(c) ==
    /\ run[c].pc = "idle"
    /\ queued[c]
    /\ queued' = [queued EXCEPT ![c] = FALSE]
    /\ run' = [run EXCEPT ![c] =
                 [Idle EXCEPT !.pc = "build",
                              !.listed = ciCache,
                              !.todo = {s \in Services : ciCache[s] # {}}
                                         \cup UNION {ciCache[s] : s \in Services}]]
    /\ UNCHANGED <<userVars, cacheVars, netpol, npCache, faults>>

\* Mutant: the clients that have the service as a target are not looked up.
BuildWithoutCallers(c) ==
    /\ run[c].pc = "build"
    /\ \E s \in run[c].todo :
         Goto(c, [run[c] EXCEPT !.todo = @ \ {s},
                                !.eps[s] = [calls |-> run[c].listed[s],
                                            calledBy |-> {}]])
    /\ UNCHANGED <<userVars, cacheVars, netpol, npCache, faults>>

\* buildServiceEffectivePolicy: the calls come from the first List, the callers
\* from a new List by the server index.
Build(c) ==
    /\ run[c].pc = "build"
    /\ \E s \in run[c].todo :
         Goto(c, [run[c] EXCEPT !.todo = @ \ {s},
                                !.eps[s] = [calls |-> run[c].listed[s],
                                            calledBy |-> CalledBy(s, ciCache)]])
    /\ UNCHANGED <<userVars, cacheVars, netpol, npCache, faults>>

\* Every effective policy is built; they are applied one by one.
HandOver(c) ==
    /\ run[c].pc = "build"
    /\ run[c].todo = {}
    /\ Goto(c, [run[c] EXCEPT !.pc = "apply",
                              !.todo = {s \in Services :
                                  run[c].eps[s] # Idle.eps[s]}])
    /\ UNCHANGED <<userVars, cacheVars, netpol, npCache, faults>>

-----------------------------------------------------------------------------
(* ReconcileEffectivePolicies: apply the policies of each service.         *)

\* applyServiceEffectivePolicy: whether the server is protected is read now.
ApplyService(c) ==
    /\ run[c].pc = "apply"
    /\ \E s \in run[c].todo :
         LET policies == Built(s, run[c].eps[s], psCache) IN
         Goto(c, [run[c] EXCEPT !.pc = IF Wants(policies) = {} THEN "apply"
                                                               ELSE "write",
                                !.todo = @ \ {s},
                                !.pending = policies,
                                !.wanted = @ \cup Wants(policies)])
    /\ UNCHANGED <<userVars, cacheVars, netpol, npCache, faults>>

\* The ingress policy is applied before the egress policy.
NextPending(r) ==
    CHOOSE n \in Wants(r.pending) :
        n[1] = "egress" => \A m \in Wants(r.pending) : m[1] = "egress"

\* Policy n of the service is in place.
Applied(r, n) ==
    LET rest == [r.pending EXCEPT ![n] = NoPolicy]
    IN [r EXCEPT !.pending = rest,
                 !.current = @ \cup {n},
                 !.pc = IF Wants(rest) = {} THEN "apply" ELSE "write"]

\* The service failed: the rest of its policies is not applied, the loop goes on.
ServiceFailed(r) ==
    [r EXCEPT !.pending = NoPolicies, !.failed = TRUE, !.pc = "apply"]

\* A merge patch replaces the fields that differ from the cached policy.
Patched(n, new) ==
    [ingress |-> IF npCache[n].ingress = new.ingress
                 THEN netpol[n].ingress ELSE new.ingress,
     egress  |-> IF npCache[n].egress = new.egress
                 THEN netpol[n].egress ELSE new.egress]

\* updateExistingPolicy, with the policy found in the cache: nothing to do if
\* its spec is the new one, else a patch, which fails if the policy is gone.
UpdateExisting(c, n) ==
    LET new == run[c].pending[n] IN
    \/ /\ npCache[n] = new
       /\ Goto(c, Applied(run[c], n))
       /\ UNCHANGED <<netpol, npCache>>
    \/ /\ npCache[n] # new /\ netpol[n] # NoPolicy
       /\ Write([netpol EXCEPT ![n] = Patched(n, new)])
       /\ Goto(c, Applied(run[c], n))
    \/ /\ npCache[n] # new /\ netpol[n] = NoPolicy
       /\ Goto(c, ServiceFailed(run[c]))
       /\ UNCHANGED <<netpol, npCache>>

\* applyNetpol
ApplyNetpol(c) ==
    /\ run[c].pc = "write"
    /\ LET n == NextPending(run[c]) IN
       \/ /\ npCache[n] # NoPolicy
          /\ UpdateExisting(c, n)
       \/ /\ npCache[n] = NoPolicy /\ netpol[n] = NoPolicy
          /\ Write([netpol EXCEPT ![n] = run[c].pending[n]])
          /\ Goto(c, Applied(run[c], n))
       \/ /\ npCache[n] = NoPolicy /\ netpol[n] # NoPolicy   \* AlreadyExists
          /\ Goto(c, [run[c] EXCEPT !.pc = "retry"])
          /\ UNCHANGED <<netpol, npCache>>
    /\ UNCHANGED <<userVars, cacheVars, faults>>

\* handleExistingPolicyRetry
RetryExisting(c) ==
    /\ run[c].pc = "retry"
    /\ LET n == NextPending(run[c]) IN
       \/ /\ npCache[n] # NoPolicy
          /\ UpdateExisting(c, n)
       \/ /\ npCache[n] = NoPolicy
          /\ Goto(c, ServiceFailed(run[c]))
          /\ UNCHANGED <<netpol, npCache>>
    /\ UNCHANGED <<userVars, cacheVars, faults>>

\* A call on behalf of the service fails: the write itself, or, after it, the
\* external-traffic handler that runs on every created or changed policy.
ServiceFault(c) ==
    /\ run[c].pc \in {"write", "retry"}
    /\ Fault
    /\ Goto(c, ServiceFailed(run[c]))
    /\ LET n == NextPending(run[c]) IN
       \/ UNCHANGED <<netpol, npCache>>
       \/ /\ npCache[n] = NoPolicy /\ netpol[n] = NoPolicy
          /\ Write([netpol EXCEPT ![n] = run[c].pending[n]])
    /\ UNCHANGED <<userVars, cacheVars>>

-----------------------------------------------------------------------------
(* removeNetworkPoliciesThatShouldNotExist                                 *)

\* Mutant: the policies are collected although a service failed.
CollectDespiteErrors(c) ==
    /\ run[c].pc = "apply"
    /\ run[c].todo = {}
    /\ Goto(c, [run[c] EXCEPT !.pc = "delete",
                              !.doomed = Wants(npCache) \ run[c].current])
    /\ UNCHANGED <<userVars, cacheVars, netpol, npCache, faults>>

\* After the last service: with an error nothing is removed; else every access
\* policy this run did not apply is listed for removal.
Collect(c) ==
    /\ run[c].pc = "apply"
    /\ run[c].todo = {}
    /\ \/ /\ run[c].failed
          /\ End(c, TRUE)
       \/ /\ ~run[c].failed
          /\ Goto(c, [run[c] EXCEPT !.pc = "delete",
                                    !.doomed = Wants(npCache) \ run[c].current])
    /\ UNCHANGED <<userVars, cacheVars, netpol, npCache, faults>>

\* removeNetworkPolicy; a policy that is already gone is no error.
Remove(c) ==
    /\ run[c].pc = "delete"
    /\ \E n \in run[c].doomed :
         /\ Write([netpol EXCEPT ![n] = NoPolicy])
         /\ Goto(c, [run[c] EXCEPT !.doomed = @ \ {n}])
    /\ UNCHANGED <<userVars, cacheVars, faults>>

Finish(c) ==
    /\ run[c].pc = "delete"
    /\ run[c].doomed = {}
    /\ End(c, FALSE)
    /\ UNCHANGED <<userVars, cacheVars, netpol, npCache, faults>>

\* A List or a Delete fails: the run ends with an error.
RunFault(c) ==
    /\ run[c].pc \in {"build", "delete"}
    /\ Fault
    /\ End(c, TRUE)
    /\ UNCHANGED <<userVars, cacheVars, netpol, npCache>>

-----------------------------------------------------------------------------
(* Users, informers, other controllers' events, and the process.           *)

Change == changes < MaxChanges /\ changes' = changes + 1

\* A user creates, changes or deletes the ClientIntents of a client.
Declare ==
    /\ Change
    /\ \E s \in Services, targets \in SUBSET Services :
         /\ targets \subseteq Targets[s]
         /\ targets # declared[s]
         /\ declared' = [declared EXCEPT ![s] = targets]
    /\ UNCHANGED <<protected, netpol, cacheVars, npCache, queued, run, faults>>

\* A user protects a service or stops protecting it.
Protect ==
    /\ Change
    /\ ~EnforcementDefault
    /\ \E s \in Services :
         protected' = IF s \in protected THEN protected \ {s}
                                         ELSE protected \cup {s}
    /\ UNCHANGED <<declared, netpol, cacheVars, npCache, queued, run, faults>>

\* The ClientIntents informer catches up, and its event queues a request.
SyncIntents ==
    /\ ciCache # declared
    /\ ciCache' = declared
    /\ queued' = [queued EXCEPT ![IntentsController] = TRUE]
    /\ UNCHANGED <<userVars, netpol, psCache, npCache, run, faults>>

\* Mutant: the ClientIntents controller does not watch ProtectedServices.
SyncProtectedUnwatched ==
    /\ psCache # protected
    /\ psCache' = protected
    /\ UNCHANGED <<userVars, netpol, ciCache, npCache, queued, run, faults>>

\* The ProtectedService informer catches up; mapProtectedServiceToClientIntents
\* queues the ClientIntents that have the service as a target.
SyncProtected ==
    /\ psCache # protected
    /\ psCache' = protected
    /\ LET changed == (psCache \ protected) \cup (protected \ psCache) IN
       queued' = [queued EXCEPT ![IntentsController] =
                    @ \/ \E s \in changed : CalledBy(s, ciCache) # {}]
    /\ UNCHANGED <<userVars, netpol, ciCache, npCache, run, faults>>

\* The NetworkPolicy informer catches up; nothing watches it for this group.
SyncPolicies ==
    /\ npCache # netpol
    /\ npCache' = netpol
    /\ UNCHANGED <<userVars, netpol, cacheVars, queued, run, faults>>

\* A Service, an annotated pod or a ProtectedService changed, or is resynced.
Trigger(c) ==
    /\ c # IntentsController
    /\ ~queued[c]
    /\ queued' = [queued EXCEPT ![c] = TRUE]
    /\ UNCHANGED <<userVars, netpol, cacheVars, npCache, run, faults>>

\* The operator restarts: informers relist and every object is queued.
Crash ==
    /\ Fault
    /\ ciCache' = declared /\ psCache' = protected /\ npCache' = netpol
    /\ queued' = [c \in Callers |-> TRUE]
    /\ run' = [c \in Callers |-> Idle]
    /\ UNCHANGED <<userVars, netpol>>

-----------------------------------------------------------------------------
\* The operator starts on a cluster without policies, or with those of an
\* earlier operator, which may have used the other naming mode.
Init ==
    /\ declared \in Declarations
    /\ \A s \in Services : declared[s] \subseteq Targets[s]
    /\ protected = {}
    /\ netpol \in {NoPolicies} \cup
                  {DesiredAs(sep, declared, protected) : sep \in BOOLEAN}
    /\ ciCache = declared /\ psCache = protected /\ npCache = netpol
    /\ queued = [c \in Callers |-> TRUE]
    /\ run = [c \in Callers |-> Idle]
    /\ changes = 0 /\ faults = 0

Step(c) ==
    \/ List(c) \/ Build(c) \/ HandOver(c) \/ ApplyService(c) \/ ApplyNetpol(c)
    \/ RetryExisting(c) \/ Collect(c) \/ Remove(c) \/ Finish(c)

Environment ==
    \/ Declare \/ Protect \/ SyncIntents \/ SyncProtected \/ SyncPolicies
    \/ Crash \/ \E c \in Callers : Trigger(c)

Next ==
    \/ Environment
    \/ \E c \in Callers : Step(c) \/ ServiceFault(c) \/ RunFault(c)

Spec == Init /\ [][Next]_vars

\* Callers keep running and informers keep up; users and faults are not forced.
FairSpec ==
    /\ Spec
    /\ WF_vars(SyncIntents) /\ WF_vars(SyncProtected) /\ WF_vars(SyncPolicies)
    /\ \A c \in Callers : WF_vars(Step(c))

\* The other controllers are called again and again: at the latest when
\* controller-runtime resyncs their informers.
HealingSpec == FairSpec /\ \A c \in Callers : WF_vars(Trigger(c))

-----------------------------------------------------------------------------
(* Properties.                                                             *)

\* A run never removes a policy its own snapshot calls for, in particular not
\* that of a service whose policies it failed to apply (the early return of
\* ReconcileEffectivePolicies on errors).
NeverRemovesWanted ==
    \A c \in Callers :
        run[c].pc = "delete" => run[c].doomed \cap run[c].wanted = {}

AtRest ==
    /\ ciCache = declared /\ psCache = protected /\ npCache = netpol
    /\ \A c \in Callers : run[c] = Idle /\ ~queued[c]

\* When no run is under way or requested and the informers are up to date, the
\* access policies are exactly those the declarations call for (README: the
\* operator "creates, updates and deletes network policies [...] to match
\* declarations").
PoliciesMatchDeclarations ==
    AtRest => netpol = Desired(declared, protected)

\* Once users and faults stop the policies come to match, and stay so.
Converges == <>[](netpol = Desired(declared, protected))

=============================================================================

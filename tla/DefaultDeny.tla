----------------------------- MODULE DefaultDeny -----------------------------
(***************************************************************************)
(* protected_service_reconcilers.DefaultDenyReconciler: a deny-all ingress *)
(* policy for every ProtectedService of a namespace.                       *)
(*                                                                         *)
(* Each run goes over the whole namespace.  Runs are started by the        *)
(* ProtectedService controller, inside its reconciler group, and by the    *)
(* ServiceWatcher, concurrently, and both list from informer caches.       *)
(* Nothing watches the policies themselves.                                *)
(***************************************************************************)
EXTENDS Naturals

CONSTANTS
    Names, Kinds,      \* of the servers that may be protected
    ProtectedServices, \* the ProtectedServices there may be, as <<name, kind>>
    Recreate,          \* whether users declare again what they deleted
    MaxChanges,        \* bound: changes by users
    MaxFaults          \* bound: failed calls and crashes

Legacy == "OttrLegacy"   \* the kind of a ProtectedService that states none

ASSUME ConstantsAssumption ==
    /\ ProtectedServices \subseteq Names \X Kinds
    /\ Recreate \in BOOLEAN
    /\ MaxChanges \in Nat
    /\ MaxFaults \in Nat

Handlers == {"controller", "watcher"}

VARIABLES
    protected,        \* the ProtectedServices in the API server
    protectedCache,
    protectedEvents,  \* those with changes the informer has yet to deliver
    services,         \* names of the Kubernetes Services
    deny,             \* deny[s]: the policy named after s, as the one it selects
    denyCache, denyEvents,
    queue,            \* the ProtectedServices the controller is to reconcile
    watching,         \* the ServiceWatcher is to reconcile
    run,              \* run[h]: the local state of h's run
    declared,         \* history: the ProtectedServices declared so far
    changes, faults

protectedVars == <<protected, protectedCache, protectedEvents, services>>
denyVars == <<deny, denyCache, denyEvents>>
vars == <<protectedVars, denyVars, queue, watching, run, declared, changes, faults>>

\* "new" has no finalizer yet, "deleting" has one and a deletion timestamp.
Stages == {"none", "new", "live", "deleting"}

NoPolicy == <<"no", "policy">>

NoOne == <<"no", "one">>   \* the ServiceWatcher's runs are for no ProtectedService

Runs == [pc       : {"idle", "list", "existing", "create", "finish"},
         for      : ProtectedServices \cup {NoOne},
         finalize : BOOLEAN,                   \* it is being deleted
         wanted   : SUBSET ProtectedServices,  \* serversToProtect
         existing : SUBSET ProtectedServices,  \* listed policies to go over
         raced    : SUBSET ProtectedServices]  \* their copies are out of date

Idle == [pc |-> "idle", for |-> NoOne, finalize |-> FALSE, wanted |-> {},
         existing |-> {}, raced |-> {}]

TypeOK ==
    /\ protected \in [ProtectedServices -> Stages]
    /\ protectedCache \in [ProtectedServices -> Stages]
    /\ protectedEvents \subseteq ProtectedServices
    /\ services \subseteq Names
    /\ deny \in [ProtectedServices -> ProtectedServices \cup {NoPolicy}]
    /\ denyCache \in [ProtectedServices -> ProtectedServices \cup {NoPolicy}]
    /\ denyEvents \subseteq ProtectedServices
    /\ queue \subseteq ProtectedServices
    /\ watching \in BOOLEAN
    /\ run \in [Handlers -> Runs]
    /\ declared \subseteq ProtectedServices
    /\ changes \in 0 .. MaxChanges
    /\ faults \in 0 .. MaxFaults

\* Mutant: the policy is labelled as the map is keyed, with the kind spelt out.
LabelWithKind(s) == <<s[1], "Deployment">>

\* The label of s's policy is the identity without the kind: that of <<name,
\* Legacy>>.  The map of servers to protect is keyed by the identity with it.
Label(s) == <<s[1], Legacy>>

Fault == faults < MaxFaults /\ faults' = faults + 1

StoreProtected(s, stage) ==
    /\ protected' = [protected EXCEPT ![s] = stage]
    /\ protectedEvents' = IF protected[s] = stage THEN protectedEvents
                          ELSE protectedEvents \cup {s}

\* A write of the policy named after s by h, which then goes on as r: copies of
\* the policy listed before it are out of date.
WritePolicy(h, s, policy, r) ==
    /\ deny' = [deny EXCEPT ![s] = policy]
    /\ denyEvents' = IF deny[s] = policy THEN denyEvents ELSE denyEvents \cup {s}
    /\ run' = [g \in Handlers |->
                 LET next == IF g = h THEN r ELSE run[g] IN
                 IF deny[s] = policy \/ next.pc = "idle" THEN next
                 ELSE [next EXCEPT !.raced = @ \cup {s}]]

Goto(h, r) ==
    /\ run' = [run EXCEPT ![h] = r]
    /\ UNCHANGED denyVars

\* Mutant: an error ends the run as a success does.
RetryNot(h) ==
    /\ run' = [run EXCEPT ![h] = Idle]
    /\ UNCHANGED <<queue, watching>>

\* Mutant: the request of a failed run goes to the controller, whoever made it.
RetryInController(h) ==
    /\ run' = [run EXCEPT ![h] = Idle]
    /\ queue' = queue \cup {run[h].for}
    /\ UNCHANGED watching

\* The error goes to the workqueue; NotFound does too, since errors.Wrap hides
\* it from IgnoreNotFound.
Retry(h) ==
    /\ run' = [run EXCEPT ![h] = Idle]
    /\ queue' = IF h = "controller" THEN queue \cup {run[h].for} ELSE queue
    /\ watching' = (watching \/ h = "watcher")

-----------------------------------------------------------------------------
(* The ProtectedService controller's reconciler group around a run.        *)

\* The group fetches the object and adds its finalizer.
BeginGroup ==
    /\ run["controller"].pc = "idle"
    /\ \E s \in queue :
         LET stage == protectedCache[s]
             pass == [Idle EXCEPT !.pc = "list", !.for = s,
                                  !.finalize = stage = "deleting"] IN
         \/ /\ stage = "none"
            /\ queue' = queue \ {s}
            /\ UNCHANGED <<run, protected, protectedEvents>>
         \/ /\ stage \in {"live", "deleting"}
            /\ queue' = queue \ {s}
            /\ run' = [run EXCEPT !["controller"] = pass]
            /\ UNCHANGED <<protected, protectedEvents>>
         \/ /\ stage = "new" /\ s \notin protectedEvents
            /\ queue' = queue \ {s}
            /\ StoreProtected(s, "live")
            /\ run' = [run EXCEPT !["controller"] = pass]
         \/ /\ stage = "new" /\ s \in protectedEvents   \* a conflict: requeued
            /\ UNCHANGED <<queue, run, protected, protectedEvents>>
    /\ UNCHANGED <<protectedCache, services, denyVars, watching, declared,
                   changes, faults>>

\* After a clean run the finalizer of an object being deleted is removed.
FinishGroup ==
    LET r == run["controller"] IN
    /\ r.pc = "finish"
    /\ IF r.finalize /\ protected[r.for] = "deleting"
       THEN StoreProtected(r.for, "none")
       ELSE UNCHANGED <<protected, protectedEvents>>
    /\ run' = [run EXCEPT !["controller"] = Idle]
    /\ UNCHANGED <<protectedCache, services, denyVars, queue, watching, declared,
                   changes, faults>>

BeginWatcher ==
    /\ run["watcher"].pc = "idle"
    /\ watching
    /\ watching' = FALSE
    /\ run' = [run EXCEPT !["watcher"] = [Idle EXCEPT !.pc = "list"]]
    /\ UNCHANGED <<protectedVars, denyVars, queue, declared, changes, faults>>

-----------------------------------------------------------------------------
(* blockAccessToServices                                                   *)

\* The servers to protect; one of kind Service has no pods without its Service.
ListProtected(h) ==
    /\ run[h].pc = "list"
    /\ Goto(h, [run[h] EXCEPT
         !.pc = "existing",
         !.wanted = {s \in ProtectedServices :
                       /\ protectedCache[s] \in {"new", "live"}
                       /\ s[2] = "Service" => s[1] \in services},
         !.existing = {s \in ProtectedServices : denyCache[s] # NoPolicy},
         !.raced = denyEvents])
    /\ UNCHANGED <<protectedVars, queue, watching, declared, changes, faults>>

\* Mutant: a policy whose server is not to be protected is left alone.
HandleExistingKeeping(h) ==
    LET r == run[h] IN
    /\ r.pc = "existing"
    /\ \E p \in r.existing :
         Goto(h, [r EXCEPT !.existing = @ \ {p}, !.wanted = @ \ {Label(p)}])
    /\ UNCHANGED <<protectedVars, queue, watching, declared, changes, faults>>

\* One policy of the list: updated to that of the server its label names, if
\* that one is to be protected, or else deleted.  The update is sent even when
\* nothing differs: the empty list of rules reads back as nil, and DeepEqual
\* tells the two apart.  It carries the version listed, the deletion carries none.
HandleExisting(h) ==
    LET r == run[h] IN
    /\ r.pc = "existing"
    /\ \E p \in r.existing :
         LET rest == [r EXCEPT !.existing = @ \ {p}, !.wanted = @ \ {Label(p)}] IN
         \/ /\ Label(p) \in r.wanted
            /\ p \notin r.raced
            /\ WritePolicy(h, p, Label(p), rest)
            /\ UNCHANGED <<denyCache, queue, watching>>
         \/ /\ Label(p) \notin r.wanted
            /\ deny[p] # NoPolicy
            /\ WritePolicy(h, p, NoPolicy, rest)
            /\ UNCHANGED <<denyCache, queue, watching>>
         \/ /\ IF Label(p) \in r.wanted THEN p \in r.raced ELSE deny[p] = NoPolicy
            /\ Retry(h)
            /\ UNCHANGED denyVars
    /\ UNCHANGED <<protectedVars, declared, changes, faults>>

ExistingDone(h) ==
    /\ run[h].pc = "existing"
    /\ run[h].existing = {}
    /\ Goto(h, [run[h] EXCEPT !.pc = "create"])
    /\ UNCHANGED <<protectedVars, queue, watching, declared, changes, faults>>

\* The policies of the servers that are left are created.
CreatePolicy(h) ==
    LET r == run[h] IN
    /\ r.pc = "create"
    /\ \E s \in r.wanted :
         \/ /\ deny[s] = NoPolicy
            /\ WritePolicy(h, s, s, [r EXCEPT !.wanted = @ \ {s}])
            /\ UNCHANGED <<denyCache, queue, watching>>
         \/ /\ deny[s] # NoPolicy
            /\ Retry(h)
            /\ UNCHANGED denyVars
    /\ UNCHANGED <<protectedVars, declared, changes, faults>>

CreateDone(h) ==
    /\ run[h].pc = "create"
    /\ run[h].wanted = {}
    /\ Goto(h, IF h = "watcher" THEN Idle ELSE [run[h] EXCEPT !.pc = "finish"])
    /\ UNCHANGED <<protectedVars, queue, watching, declared, changes, faults>>

RunFault(h) ==
    /\ run[h].pc # "idle"
    /\ Fault
    /\ Retry(h)
    /\ UNCHANGED <<protectedVars, denyVars, declared, changes>>

-----------------------------------------------------------------------------
(* Users, the informers and the process.                                   *)

Change == changes < MaxChanges /\ changes' = changes + 1

Protect ==
    /\ Change
    /\ \E s \in ProtectedServices :
         /\ protected[s] = "none"
         /\ Recreate \/ s \notin declared
         /\ StoreProtected(s, "new")
         /\ declared' = declared \cup {s}
    /\ UNCHANGED <<protectedCache, services, denyVars, queue, watching, run, faults>>

Unprotect ==
    /\ Change
    /\ \E s \in ProtectedServices :
         \/ protected[s] = "new" /\ StoreProtected(s, "none")
         \/ protected[s] = "live" /\ StoreProtected(s, "deleting")
    /\ UNCHANGED <<protectedCache, services, denyVars, queue, watching, run,
                   declared, faults>>

\* A Service comes or goes; the event reaches the ServiceWatcher.
ToggleService ==
    /\ Change
    /\ \E n \in Names :
         services' = IF n \in services THEN services \ {n} ELSE services \cup {n}
    /\ watching' = TRUE
    /\ UNCHANGED <<protected, protectedCache, protectedEvents, denyVars, queue,
                   run, declared, faults>>

SyncProtected ==
    /\ \E s \in protectedEvents :
         /\ protectedCache' = [protectedCache EXCEPT ![s] = protected[s]]
         /\ protectedEvents' = protectedEvents \ {s}
         /\ queue' = queue \cup {s}
    /\ UNCHANGED <<protected, services, denyVars, watching, run, declared,
                   changes, faults>>

SyncPolicies ==
    /\ \E s \in denyEvents :
         /\ denyCache' = [denyCache EXCEPT ![s] = deny[s]]
         /\ denyEvents' = denyEvents \ {s}
    /\ UNCHANGED <<protectedVars, deny, queue, watching, run, declared, changes,
                   faults>>

\* The informers' resync: every object they hold is reconciled again.
Resync ==
    /\ queue' = queue \cup {s \in ProtectedServices : protectedCache[s] # "none"}
    /\ watching' = (watching \/ services # {})
    /\ UNCHANGED <<protectedVars, denyVars, run, declared, changes, faults>>

Crash ==
    /\ Fault
    /\ protectedCache' = protected /\ protectedEvents' = {}
    /\ denyCache' = deny /\ denyEvents' = {}
    /\ queue' = {s \in ProtectedServices : protected[s] # "none"}
    /\ watching' = (services # {})
    /\ run' = [h \in Handlers |-> Idle]
    /\ UNCHANGED <<protected, services, deny, declared, changes>>

-----------------------------------------------------------------------------
\* The operator starts on a cluster where some services are protected already.
Init ==
    \E live \in SUBSET ProtectedServices :
      /\ protected = [s \in ProtectedServices |->
                        IF s \in live THEN "live" ELSE "none"]
      /\ protectedCache = protected /\ protectedEvents = {}
      /\ services = Names
      /\ deny = [s \in ProtectedServices |-> IF s \in live THEN s ELSE NoPolicy]
      /\ denyCache = deny /\ denyEvents = {}
      /\ queue = live
      /\ watching = TRUE
      /\ run = [h \in Handlers |-> Idle]
      /\ declared = live
      /\ changes = 0 /\ faults = 0

Step(h) ==
    \/ h = "controller" /\ (BeginGroup \/ FinishGroup)
    \/ h = "watcher" /\ BeginWatcher
    \/ ListProtected(h) \/ HandleExisting(h) \/ ExistingDone(h)
    \/ CreatePolicy(h) \/ CreateDone(h)

Next ==
    \/ \E h \in Handlers : Step(h) \/ RunFault(h)
    \/ Protect \/ Unprotect \/ ToggleService
    \/ SyncProtected \/ SyncPolicies \/ Resync \/ Crash

Spec == Init /\ [][Next]_vars

FairSpec ==
    /\ Spec
    /\ \A h \in Handlers : WF_vars(Step(h))
    /\ WF_vars(SyncProtected) /\ WF_vars(SyncPolicies) /\ WF_vars(Resync)

-----------------------------------------------------------------------------
(* Properties.                                                             *)

Selectable(s) == s[2] = "Service" => s[1] \in services

\* A protected service that has its policy keeps it, through every run, retry
\* and restart, for as long as it is declared.
KeepsProtection ==
    [][\A s \in ProtectedServices :
         protected[s] = "live" /\ Selectable(s) /\ deny[s] = s
           => deny'[s] = s \/ protected'[s] # "live" \/ ~Selectable(s)']_vars

AtRest ==
    /\ protectedEvents = {} /\ denyEvents = {}
    /\ queue = {} /\ ~watching
    /\ \A h \in Handlers : run[h] = Idle

\* When no run is left to make, every declared service has its policy: no stale
\* list, conflict or failed call has made a run end without it.
ProtectedAtRest ==
    AtRest => \A s \in ProtectedServices :
                protected[s] = "live" /\ Selectable(s) => deny[s] = s

PoliciesMatch ==
    \A s \in ProtectedServices :
      deny[s] = IF protected[s] \in {"new", "live"} /\ Selectable(s)
                THEN s ELSE NoPolicy

\* The policies come to be those of the declared services, at the latest when
\* the informers' resync makes the reconciler go over the namespace again.
Heals == <>[](services # {} => PoliciesMatch)

=============================================================================

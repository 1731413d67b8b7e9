---------------------------- MODULE MetricsTraffic ----------------------------
(***************************************************************************)
(* Metrics collection: network policies that let Prometheus reach pods     *)
(* marked for scraping, in one namespace.  Pods are marked themselves or   *)
(* through a Service; each level has its own policies, named by workload.  *)
(***************************************************************************)
EXTENDS PolicySets

CONSTANTS
    Workloads, Services,  \* workloads with a pod; Services
    Marks,                \* ports a resource may be marked with, "bad" for one that is no port
    Mode                  \* "off", "always" or "if-blocked-by-otterize"

VARIABLES
    cluster, known   \* marks, the pods behind Services and who is blocked; the informers' copies

vars == <<setVars, cluster, known>>

Resource(level) == IF level = "pod" THEN Workloads ELSE Services
NamesOf(level) == {level} \X Workloads
Scope == UNION {NamesOf(level) : level \in {"pod", "service"}}
Unmarked == "no"

Behind(x, r) == IF r \in Workloads THEN {r} ELSE x.behind[r]

\* buildNetworkPolicyIfNeeded decides on the workload.
Admits(x, w) == Mode = "always" \/ (Mode = "if-blocked-by-otterize" /\ w \in x.blocked)

\* The marks that ask for a workload's policy at a level.
Asked(x, level, w) ==
    IF Admits(x, w) THEN {x.marks[r] : r \in {r \in Resource(level) : w \in Behind(x, r)}} \ {Unmarked}
    ELSE {}

\* One bad mark fails the handler for the namespace.
Bad(x, level) == \E w \in Workloads : "bad" \in Asked(x, level, w)

\* reducedNetworkPoliciesInNamespace: of two marks for one name the later stays.
Reduced(x, level) ==
    LET candidates(w) == [at : Places, ports : {{m} : m \in Asked(x, level, w)}] IN
    {f \in [NamesOf(level) -> UNION {candidates(w) \cup {NoPolicy} : w \in Workloads}] :
        \A w \in Workloads : f[<<level, w>>] \in
            IF candidates(w) = {} THEN {NoPolicy} ELSE candidates(w)}

\* HandleAllServicesInNamespace goes over the Services, then over the pods.
Begin(h) ==
    /\ pass[h] = Idle /\ h \in queued
    /\ queued' = queued \ {h}
    /\ pass' = [pass EXCEPT ![h] = [pc |-> "reduce", level |-> IF h = "policies" THEN "service" ELSE "pod",
                  wanted |-> Nothing, existing |-> Nothing, add |-> {}, delete |-> {}, update |-> {}]]
    /\ UNCHANGED <<policies, policiesCache, news, changes, faults, cluster, known>>

Reduce(h) ==
    LET level == pass[h].level IN
    /\ pass[h].pc = "reduce"
    /\ IF Bad(known, level) THEN Fail(h)
       ELSE /\ \E f \in Reduced(known, level) :
                 pass' = [pass EXCEPT ![h] = [@ EXCEPT !.pc = "list", !.wanted = f]]
            /\ UNCHANGED queued
    /\ UNCHANGED <<policies, policiesCache, news, changes, faults, cluster, known>>

ListLevel(h) == List(h, NamesOf(pass[h].level)) /\ UNCHANGED <<cluster, known>>

HandlePoliciesToAdd(h) == (\E n \in Scope : Add(h, n)) /\ UNCHANGED <<cluster, known>>
HandlePoliciesToDelete(h) == (\E n \in Scope : Delete(h, n)) /\ UNCHANGED <<cluster, known>>
HandlePoliciesToUpdate(h) == (\E n \in Scope : Update(h, n)) /\ UNCHANGED <<cluster, known>>

\* Mutant: the pods are left to their own controller.
EndOfServices(h) ==
    /\ Applied(h)
    /\ pass' = [pass EXCEPT ![h] = Idle]
    /\ UNCHANGED <<policies, policiesCache, news, queued, changes, faults, cluster, known>>

End(h) ==
    /\ Applied(h)
    /\ pass' = [pass EXCEPT ![h] = IF @.level = "pod" THEN Idle
                                   ELSE [@ EXCEPT !.level = "pod", !.pc = "reduce"]]
    /\ UNCHANGED <<policies, policiesCache, news, queued, changes, faults, cluster, known>>

-----------------------------------------------------------------------------
Change ==
    /\ changes < MaxChanges /\ changes' = changes + 1
    /\ \/ \E r \in Workloads \cup Services, m \in Marks \cup {Unmarked} :
            cluster.marks[r] # m /\ cluster' = [cluster EXCEPT !.marks[r] = m]
       \/ \E s \in Services, ws \in SUBSET Workloads :
            cluster.behind[s] # ws /\ cluster' = [cluster EXCEPT !.behind[s] = ws]
       \/ \E ws \in SUBSET Workloads :
            cluster.blocked # ws /\ cluster' = [cluster EXCEPT !.blocked = ws]
    /\ UNCHANGED <<policies, policiesCache, news, queued, pass, faults, known>>

\* The informers' news: of pods to their controller, of Services, Endpoints and
\* network policies to those that handle the Services.
SyncCluster ==
    /\ known # cluster
    /\ known' = cluster
    /\ queued' = queued \cup
         (IF \E w \in Workloads : known.marks[w] # cluster.marks[w] THEN {"resources"} ELSE {}) \cup
         (IF \/ \E s \in Services : known.marks[s] # cluster.marks[s]
             \/ known.behind # cluster.behind \/ known.blocked # cluster.blocked
          THEN {"policies"} ELSE {})
    /\ UNCHANGED <<policies, policiesCache, news, pass, changes, faults, cluster>>

Init ==
    /\ SetInit
    /\ \E b \in SUBSET Workloads : cluster = [marks |-> [r \in Workloads \cup Services |-> Unmarked],
                  behind |-> [s \in Services |-> Workloads], blocked |-> b]
    /\ known = cluster

Handle(h) == \/ Begin(h) \/ Reduce(h) \/ ListLevel(h) \/ End(h)
             \/ HandlePoliciesToAdd(h) \/ HandlePoliciesToDelete(h) \/ HandlePoliciesToUpdate(h)
Sync == SyncCluster \/ (SyncPolicies /\ UNCHANGED <<cluster, known>>)

Next == Change \/ Sync \/ \E h \in Controllers : Handle(h)

-----------------------------------------------------------------------------
TypeOK ==
    /\ cluster.blocked \subseteq Workloads /\ queued \subseteq Controllers
    /\ \A n \in Scope, q \in Places : policies[n][q] \subseteq Marks \ {"bad"}
    /\ \A h \in Controllers : pass[h].pc \in {"idle", "reduce", "list", "apply"}

\* At every level a marked workload has the policy one of its marks asks for, and
\* no other has one.  A bad mark on a Service holds up both levels.
PoliciesMatch ==
    \A level \in {"pod", "service"}, w \in Workloads, q \in Places :
        (\A l \in {level, "service"} : ~Bad(cluster, l)) =>
            LET asked == Asked(cluster, level, w) IN
            IF asked = {} THEN policies[<<level, w>>][q] = None
            ELSE \E m \in asked : policies[<<level, w>>][q] = {m}

=============================================================================

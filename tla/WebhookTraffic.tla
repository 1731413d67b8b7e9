---------------------------- MODULE WebhookTraffic ----------------------------
(***************************************************************************)
(* Webhook traffic: network policies that let the control plane reach the  *)
(* Services of validating, mutating and conversion webhooks.  One handler, *)
(* run by six controllers, computes the policies of the whole cluster.     *)
(***************************************************************************)
EXTENDS PolicySets

CONSTANTS
    Configurations,   \* webhook configurations and CRDs
    ServiceNames,     \* names of Services; a policy is named by configuration and Service
    References,       \* what a configuration may list: sets of [service, at, port]
    Ports,
    Mode              \* "off", "always" or "if-blocked-by-otterize"

VARIABLES
    cluster, known   \* webhooks, Services with their ports, who is blocked; the informers' copies

vars == <<setVars, cluster, known>>

Scope == Configurations \X ServiceNames

\* The webhooks whose Service exists and needs a policy.
Relevant(x, c) ==
    IF Mode = "off" THEN {}
    ELSE {r \in x.webhooks[c] :
            /\ x.ports[r.service][r.at] # {}
            /\ Mode = "always" \/ <<r.service, r.at>> \in x.blocked}

\* buildNetworkPolicy fails, and the handler with it, if the port is not the Service's.
Bad(x) == \E c \in Configurations : \E r \in Relevant(x, c) : r.port \notin x.ports[r.service][r.at]

\* Mutant: the ports of an earlier webhook are dropped.
PortsOfOne(asked) == {p \in {r.port : r \in asked} : \A r \in asked : p <= r.port}

\* Policies of one name are merged.
MergedPorts(asked) == {r.port : r \in asked}

\* reduceWebhooksNetpols: of several namespaces the last one stays.
Reduced(x) ==
    LET asked(n) == {r \in Relevant(x, n[1]) : r.service = n[2]} IN
    LET candidates(n) == [at : {r.at : r \in asked(n)}, ports : {MergedPorts(asked(n))}] IN
    {f \in [Scope -> UNION {candidates(n) \cup {NoPolicy} : n \in Scope}] :
        \A n \in Scope : f[n] \in IF candidates(n) = {} THEN {NoPolicy} ELSE candidates(n)}

HandleAll(h) ==
    /\ pass[h] = Idle /\ h \in queued
    /\ IF Bad(known) THEN UNCHANGED <<queued, pass>>
       ELSE /\ queued' = queued \ {h}
            /\ \E f \in Reduced(known) :
                 pass' = [pass EXCEPT ![h] = [pc |-> "list", wanted |-> f, existing |-> Nothing,
                                              add |-> {}, delete |-> {}, update |-> {}]]
    /\ UNCHANGED <<policies, policiesCache, news, changes, faults, cluster, known>>

ListAll(h) == List(h, Scope) /\ UNCHANGED <<cluster, known>>

HandlePoliciesToAdd(h) == (\E n \in Scope : Add(h, n)) /\ UNCHANGED <<cluster, known>>
HandlePoliciesToDelete(h) == (\E n \in Scope : Delete(h, n)) /\ UNCHANGED <<cluster, known>>
HandlePoliciesToUpdate(h) == (\E n \in Scope : Update(h, n)) /\ UNCHANGED <<cluster, known>>

End(h) ==
    /\ Applied(h)
    /\ pass' = [pass EXCEPT ![h] = Idle]
    /\ UNCHANGED <<policies, policiesCache, news, queued, changes, faults, cluster, known>>

-----------------------------------------------------------------------------
Change ==
    /\ changes < MaxChanges /\ changes' = changes + 1
    /\ \/ \E c \in Configurations, rs \in References :
            cluster.webhooks[c] # rs /\ cluster' = [cluster EXCEPT !.webhooks[c] = rs]
       \/ \E s \in ServiceNames, q \in Places, ps \in SUBSET Ports :
            cluster.ports[s][q] # ps /\ cluster' = [cluster EXCEPT !.ports[s][q] = ps]
       \/ \E b \in SUBSET (ServiceNames \X Places) :
            cluster.blocked # b /\ cluster' = [cluster EXCEPT !.blocked = b]
    /\ UNCHANGED <<policies, policiesCache, news, queued, pass, faults, known>>

SyncCluster ==
    /\ known # cluster
    /\ known' = cluster
    /\ queued' = queued \cup {IF known.blocked # cluster.blocked THEN "policies" ELSE "resources"}
    /\ UNCHANGED <<policies, policiesCache, news, pass, changes, faults, cluster>>

Init ==
    /\ SetInit
    /\ \E b \in SUBSET (ServiceNames \X Places) : cluster = [webhooks |-> [c \in Configurations |-> {}],
                  ports |-> [s \in ServiceNames |-> [q \in Places |-> Ports]], blocked |-> b]
    /\ known = cluster

Handle(h) == \/ HandleAll(h) \/ ListAll(h) \/ End(h)
             \/ HandlePoliciesToAdd(h) \/ HandlePoliciesToDelete(h) \/ HandlePoliciesToUpdate(h)
Sync == SyncCluster \/ (SyncPolicies /\ UNCHANGED <<cluster, known>>)

Next == Change \/ Sync \/ \E h \in Controllers : Handle(h)

-----------------------------------------------------------------------------
TypeOK ==
    /\ cluster.blocked \subseteq ServiceNames \X Places /\ queued \subseteq Controllers
    /\ \A n \in Scope, q \in Places : policies[n][q] \subseteq Ports
    /\ \A h \in Controllers : pass[h].pc \in {"idle", "list", "apply"}

\* When every webhook's port is its Service's, a policy admits the control plane to
\* each Service that needs it, on the ports of its webhooks, and a name without
\* webhooks has no policy.  That is for names used in one namespace; and a policy in
\* a namespace that its webhooks have left is not ruled out: the new one hides it.
WebhooksAdmitted ==
    ~Bad(cluster) =>
        \A n \in Scope :
            LET asked == {r \in Relevant(cluster, n[1]) : r.service = n[2]}
                used == {r.at : r \in asked} IN
            /\ Cardinality(used) = 1 => \A q \in used : policies[n][q] = {r.port : r \in asked}
            /\ used = {} => \A q \in Places : policies[n][q] = None
=============================================================================

--------------------------- MODULE LinkerdPolicies ---------------------------
(***************************************************************************)
(* Linkerd: LinkerdReconciler runs over all effective policies and keeps   *)
(* Servers, HTTPRoutes, AuthorizationPolicies and authentications.  What   *)
(* exists is looked up in the informers' copies; what no policy of the run *)
(* used is deleted at the end, for the workloads of the run and only if    *)
(* none of them failed.                                                    *)
(***************************************************************************)
EXTENDS Naturals, FiniteSets, FiniteSetsExt

CONSTANTS
    Clients, Servers,       \* workloads
    Paths,                  \* of HTTP resources
    Probe,                  \* the path of every server's liveness probe
    Apart,                  \* servers in a namespace that is not their clients'
    Calls,                  \* declarations: sets of [server, path]
    MaxChanges, MaxFaults, MaxIds   \* bounds: changes; failed calls; random names

VARIABLES
    declared,               \* calls of a client, {} without ClientIntents
    running, meshed,        \* workloads with a pod; those in the mesh
    resources, cache,       \* the Linkerd resources, and the informers' copy
    queued, pass,
    changes, faults

vars == <<declared, running, meshed, resources, cache, queued, pass, changes, faults>>

NoPath == "no HTTP"    \* a call without HTTP resources
Idle == [pc |-> "idle"]

-----------------------------------------------------------------------------
(* Resources.  A Server has the name of its workload, a route that of its   *)
(* path or, for a probe, a random one; so has a policy.                     *)

ServerOf(c, s) == [kind |-> "Server", server |-> s, owner |-> c]
Route(c, s, path, probe) ==
    [kind |-> "HTTPRoute", server |-> s, path |-> path, probe |-> probe, owner |-> c]
Policy(c, target, auth, id) ==
    [kind |-> "AuthorizationPolicy", target |-> target, auth |-> auth, owner |-> c, id |-> id]
MeshTLS(c) == [kind |-> "MeshTLSAuthentication", owner |-> c]
NetworkAuthentication == [kind |-> "NetworkAuthentication"]

Of(kind, found) == {r \in found : r.kind = kind}

\* What a policy refers to: a server, or a route by its name.
ToServer(s) == <<"Server", s>>
ToRoute(s, path, probe) == <<"HTTPRoute", s, path, probe>>

\* shouldCreateServer looks in the client's namespace.
FindServer(found, s) ==
    {r \in Of("Server", found) : r.server = s /\ s \notin Apart}

\* shouldCreateHTTPRoute: a route of that server with the path, whoever made it.
FindRoute(found, s, path) == {r \in Of("HTTPRoute", found) : r.server = s /\ r.path = path}

\* shouldCreateAuthPolicy
FindPolicy(found, target, auth) ==
    {r \in Of("AuthorizationPolicy", found) : r.target = target /\ r.auth = auth}

\* The next of the random names for one purpose; 0 when they run out.
NewPolicy(c, target, auth) ==
    LET unused == {i \in 1 .. MaxIds : Policy(c, target, auth, i) \notin resources} IN
    Policy(c, target, auth, IF unused = {} THEN 0 ELSE Min(unused))

\* A resource that is looked up: any that is found, else the one to create.
First(found, new) == IF found # {} THEN CHOOSE r \in found : TRUE ELSE new

\* handleLivenessProbResources: the route of the probe and a policy for everyone.
\* The new policy names the route that would be made, not the one found.
ForProbe(c, s, found) ==
    LET route == First(FindRoute(found, s, Probe), Route(c, s, Probe, TRUE))
        policies == FindPolicy(found, ToRoute(s, Probe, route.probe), "network") IN
    {route, First(policies, NewPolicy(c, ToRoute(s, Probe, TRUE), "network"))}

\* handleHTTPResource, in the same way for the client.
ForPath(c, s, path, found) ==
    LET route == First(FindRoute(found, s, path), Route(c, s, path, FALSE))
        policies == FindPolicy(found, ToRoute(s, path, route.probe), c) IN
    {route, First(policies, NewPolicy(c, ToRoute(s, path, FALSE), c))}

\* CreateResources, one call: the server and what lets the client reach it.
ForCall(c, call, found) ==
    {First(FindServer(found, call.server), ServerOf(c, call.server))} \cup
    (IF call.path = NoPath
     THEN {First(FindPolicy(found, ToServer(call.server), c),
                 NewPolicy(c, ToServer(call.server), c))}
     ELSE ForProbe(c, call.server, found)
          \cup ForPath(c, call.server, call.path, found))

\* createIntentPrimaryResources
Primary(c) == {NetworkAuthentication, MeshTLS(c)}

-----------------------------------------------------------------------------
Fault == faults < MaxFaults /\ faults' = faults + 1

\* The workloads with an effective policy: clients, and the servers they call.
EffectiveWorkloads ==
    {c \in Clients : declared[c] # {}}
    \cup {call.server : call \in UNION {declared[c] : c \in Clients}}

Begin ==
    /\ pass = Idle /\ queued
    /\ queued' = FALSE
    /\ pass' = [pc |-> "apply", todo |-> EffectiveWorkloads,
                workloads |-> EffectiveWorkloads,
                calls |-> declared, valid |-> {}, failed |-> FALSE]
    /\ UNCHANGED <<declared, running, meshed, resources, cache, changes, faults>>

CallsOf(w) == IF w \in Clients THEN pass.calls[w] ELSE {}

\* Creating fails if the name is taken; policies have random ones.
Taken(r) ==
    /\ r.kind # "AuthorizationPolicy"
    /\ r \notin cache
    /\ CASE r.kind = "Server" -> \E o \in Of("Server", resources) : o.server = r.server
         [] r.kind = "HTTPRoute" -> ~r.probe /\ \E o \in Of("HTTPRoute", resources) :
                                      o.server = r.server /\ o.path = r.path /\ ~o.probe
         [] OTHER -> r \in resources

\* applyLinkerdServiceEffectivePolicy, for a workload with a pod in the mesh.
Wanted(w) == IF CallsOf(w) = {} THEN {}
             ELSE Primary(w) \cup UNION {ForCall(w, call, cache) : call \in CallsOf(w)}

\* The bound on random names: a run waits for the informers when none is left.
Nameable(w) == \A r \in Of("AuthorizationPolicy", Wanted(w)) : r.id # 0

ApplyWorkload(w) ==
    /\ pass.pc = "apply" /\ w \in pass.todo
    /\ w \in running /\ w \in meshed
    /\ \A call \in CallsOf(w) : call.server \in running
    /\ Nameable(w)
    /\ \A r \in Wanted(w) : ~Taken(r)
    /\ resources' = resources \cup Wanted(w)
    /\ pass' = [pass EXCEPT !.todo = @ \ {w}, !.valid = @ \cup Wanted(w)]
    /\ UNCHANGED <<declared, running, meshed, cache, queued, changes, faults>>

\* handleApplyErrors: a workload out of the mesh is passed over.
SkipWorkload(w) ==
    /\ pass.pc = "apply" /\ w \in pass.todo
    /\ w \in running /\ w \notin meshed
    /\ pass' = [pass EXCEPT !.todo = @ \ {w}]
    /\ UNCHANGED <<declared, running, meshed, resources, cache, queued, changes, faults>>

\* No pod, of the workload or of one it calls, a name that is taken, or a call that
\* fails: what came before it is created.
FailWorkload(w) ==
    /\ pass.pc = "apply" /\ w \in pass.todo
    /\ \/ w \notin running /\ UNCHANGED <<resources, faults>>
       \/ /\ w \in running /\ w \in meshed /\ Nameable(w)
          /\ IF (\E call \in CallsOf(w) : call.server \notin running)
                \/ (\E r \in Wanted(w) : Taken(r))
             THEN UNCHANGED faults ELSE Fault
          /\ \E some \in SUBSET {call \in CallsOf(w) : call.server \in running} :
               resources' = resources \cup
                  {r \in UNION {ForCall(w, call, cache) : call \in some} : ~Taken(r)}
    /\ pass' = [pass EXCEPT !.todo = @ \ {w}, !.failed = TRUE]
    /\ UNCHANGED <<declared, running, meshed, cache, queued, changes>>

\* Mutant: the resources of a failed workload count as outdated.
DeletesAlways(p) == TRUE

\* With an error nothing is deleted.
Deletes(p) == ~p.failed

\* DeleteOutdatedResources, for the workloads of the run.  Authentications are
\* listed and left.
Outdated == {r \in cache : /\ r.kind \in {"Server", "HTTPRoute", "AuthorizationPolicy"}
                           /\ r.owner \in pass.workloads /\ r \notin pass.valid}

End ==
    /\ pass.pc = "apply" /\ pass.todo = {}
    /\ pass' = Idle
    /\ \/ /\ ~Deletes(pass)
          /\ queued' = TRUE /\ UNCHANGED <<resources, faults>>
       \/ /\ Deletes(pass)
          /\ resources' = resources \ Outdated
          /\ queued' = (queued \/ ~(Outdated \subseteq resources))
          /\ UNCHANGED faults
       \/ /\ Deletes(pass) /\ Outdated # {} /\ Fault
          /\ \E some \in SUBSET Outdated : resources' = resources \ some
          /\ queued' = TRUE
    /\ UNCHANGED <<declared, running, meshed, cache, changes>>

-----------------------------------------------------------------------------
(* Users, pods and informers.                                              *)

Change == changes < MaxChanges /\ changes' = changes + 1

ChangeIntents(c) ==
    /\ Change
    /\ \E calls \in Calls : calls # declared[c] /\ declared' = [declared EXCEPT ![c] = calls]
    /\ queued' = TRUE
    /\ UNCHANGED <<running, meshed, resources, cache, pass, faults>>

\* Pods start and go; that alone is no request.
ChangePods(w) ==
    /\ Change
    /\ \/ running' = running \ {w} /\ UNCHANGED meshed
       \/ running' = running \cup {w} /\ meshed' \in {meshed \cup {w}, meshed \ {w}}
    /\ <<running, meshed>>' # <<running, meshed>>
    /\ UNCHANGED <<declared, resources, cache, queued, pass, faults>>

Sync ==
    /\ cache # resources
    /\ cache' = resources
    /\ UNCHANGED <<declared, running, meshed, resources, queued, pass, changes, faults>>

Resync ==
    /\ ~queued /\ pass = Idle
    /\ queued' = TRUE
    /\ UNCHANGED <<declared, running, meshed, resources, cache, pass, changes, faults>>

-----------------------------------------------------------------------------
Init ==
    /\ declared = [c \in Clients |-> {}]
    /\ running = Clients \cup Servers /\ meshed = running
    /\ resources = {} /\ cache = {}
    /\ queued = FALSE /\ pass = Idle
    /\ changes = 0 /\ faults = 0

Step == \/ Begin \/ End
        \/ \E w \in Clients \cup Servers : ApplyWorkload(w) \/ SkipWorkload(w) \/ FailWorkload(w)
Users == (\E c \in Clients : ChangeIntents(c)) \/ (\E w \in Clients \cup Servers : ChangePods(w))

Next == Step \/ Sync \/ Resync \/ Users

-----------------------------------------------------------------------------
(* Properties.                                                             *)

TypeOK ==
    /\ \A c \in Clients : declared[c] \in Calls \cup {{}}
    /\ running \cup meshed \subseteq Clients \cup Servers
    /\ \A r \in resources : r.kind # "NetworkAuthentication" => r.owner \in Clients
    /\ queued \in BOOLEAN

Reachable(c, call) ==
    /\ \E r \in Of("Server", resources) : r.server = call.server
    /\ LET target == IF call.path = NoPath THEN ToServer(call.server)
                     ELSE ToRoute(call.server, call.path, FALSE) IN
       /\ call.path # NoPath => Route(c, call.server, call.path, FALSE) \in
             {[r EXCEPT !.owner = c] : r \in Of("HTTPRoute", resources)}
       /\ FindPolicy(resources, target, c) # {}

\* When every workload has a pod in the mesh, a client reaches what it declares and
\* has no policy for anything else.  That is for servers in its namespace, and for
\* paths other than the probe's: there the policy names a route nobody makes.
ClientsServed ==
    EffectiveWorkloads \subseteq running \cap meshed =>
        \A c \in Clients :
            /\ \A call \in declared[c] :
                 call.server \notin Apart /\ call.path # Probe => Reachable(c, call)
            /\ declared[c] # {} =>
                 \A r \in Of("AuthorizationPolicy", resources) :
                    r.owner = c /\ r.auth = c =>
                      \E call \in declared[c] :
                         r.target \in {ToServer(call.server), ToRoute(call.server, call.path, FALSE)}

=============================================================================

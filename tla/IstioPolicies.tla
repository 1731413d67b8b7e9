---------------------------- MODULE IstioPolicies ----------------------------
(***************************************************************************)
(* Istio authorization policies: one per client and server, written by the *)
(* same PolicyManager from two controllers, IstioPolicyReconciler for       *)
(* ClientIntents and PodWatcher for pods of the client.                    *)
(*                                                                         *)
(* A pass works on copies read before it: of the ClientIntents, of the     *)
(* service account of a pod, and of the list of the client's policies.     *)
(* Policies are no one's event.  The annotations that tell a user of a     *)
(* missing sidecar or a shared service account are left out.               *)
(***************************************************************************)
EXTENDS Naturals, Sequences, FiniteSets

CONSTANTS
    Clients, Servers,    \* workloads of one namespace
    Targets,             \* declarations: sequences of [server, methods]
    Accounts,            \* service accounts
    Enforced,            \* servers whose enforcement is on
    MaxChanges, MaxFaults   \* bounds: changes by users; failed calls

VARIABLES
    intents, intentsCache,   \* the ClientIntents of a client
    pods,                    \* per client, its pod
    policies, policiesCache, \* per client and server
    queue,                   \* requests of each controller: the ClientIntents or the pod of a client
    pass,                    \* the pass of each controller
    changes, faults

vars == <<intents, intentsCache, pods, policies, policiesCache, queue, pass, changes, faults>>

Controllers == {"intents", "pods"}
None == "none"

NoIntents == [stage |-> None, targets |-> <<>>]
NoPolicy == [account |-> None, methods |-> <<>>]

Idle == [pc |-> "idle"]

-----------------------------------------------------------------------------
Fault == faults < MaxFaults /\ faults' = faults + 1

To(w, pc) == pass' = [pass EXCEPT ![w].pc = pc]
Finish(w) == pass' = [pass EXCEPT ![w] = Idle]
Requeue(w) == queue' = [queue EXCEPT ![w] = @ \cup {pass[w].client}]
Fail(w) == Finish(w) /\ Requeue(w)

Started(w, c, pc) ==
    pass' = [pass EXCEPT ![w] = [pc |-> pc, client |-> c, copy |-> intentsCache[c],
                account |-> pods[c].account, targets |-> intentsCache[c].targets,
                existing |-> [s \in Servers |-> NoPolicy], updated |-> {}]]

\* IstioPolicyReconciler.Reconcile after the group made sure of the finalizer:
\* without a pod, or one in the mesh, nothing is done.
BeginIntents(c) ==
    LET copy == intentsCache[c] IN
    /\ pass["intents"] = Idle /\ c \in queue["intents"]
    /\ copy.stage = "new" => intents[c] = copy
    /\ queue' = [queue EXCEPT !["intents"] = @ \ {c}]
    /\ intents' = IF copy.stage = "new" THEN [intents EXCEPT ![c].stage = "live"] ELSE intents
    /\ CASE copy.stage = None -> UNCHANGED pass
         [] copy.stage = "deleting" -> Started("intents", c, "delete")
         [] OTHER -> IF pods[c].sidecar THEN Started("intents", c, "list") ELSE UNCHANGED pass
    /\ UNCHANGED <<intentsCache, pods, policies, policiesCache, changes, faults>>

\* PodWatcher.handleIstioPolicy and createIstioPolicies, for a pod in the mesh.
BeginPod(c) ==
    /\ pass["pods"] = Idle /\ c \in queue["pods"]
    /\ queue' = [queue EXCEPT !["pods"] = @ \ {c}]
    /\ IF pods[c].sidecar /\ intentsCache[c].stage \in {"new", "live"}
       THEN Started("pods", c, "list") ELSE UNCHANGED pass
    /\ UNCHANGED <<intents, intentsCache, pods, policies, policiesCache, changes, faults>>

-----------------------------------------------------------------------------
(* PolicyManagerImpl.Create.                                               *)

List(w) ==
    /\ pass[w].pc = "list"
    /\ pass' = [pass EXCEPT ![w].pc = "apply", ![w].existing = policiesCache[pass[w].client]]
    /\ UNCHANGED <<intents, intentsCache, pods, policies, policiesCache, queue, changes, faults>>

\* compareHTTPRules looks at the methods that exist: they may be fewer than the new
\* ones, and if they are more the program panics.
SameMethods(old, new) ==
    \/ old = <<>> /\ new = <<>>
    \/ old # <<>> /\ new # <<>> /\ \A i \in DOMAIN old : i <= Len(new) /\ old[i] = new[i]

Panics(old, new) ==
    /\ new # <<>> /\ Len(old) > Len(new)
    /\ \A i \in DOMAIN new : old[i] = new[i]

\* Mutant: the principal is not compared.
IsPolicyEqualByMethods(old, new) == SameMethods(old.methods, new.methods)

\* isPolicyEqual; the server is the same by the way the policy was found.
IsPolicyEqual(old, new) == old.account = new.account /\ SameMethods(old.methods, new.methods)

\* createOrUpdatePolicies, one target: a policy in the list is patched if it
\* differs there, otherwise one is created, under a name that is taken if the list
\* was out of date.
Apply(w) ==
    LET p == pass[w]
        t == Head(p.targets)
        c == p.client
        s == t.server
        new == [account |-> p.account, methods |-> t.methods]
        done == [p EXCEPT !.targets = Tail(@), !.updated = @ \cup {s}]
        write(after) == policies' = [policies EXCEPT ![c][s] = after] IN
    /\ p.pc = "apply" /\ p.targets # <<>>
    /\ \/ /\ s \notin Enforced
          /\ pass' = [pass EXCEPT ![w].targets = Tail(@)]
          /\ UNCHANGED <<policies, queue, faults>>
       \/ /\ s \in Enforced /\ p.existing[s] # NoPolicy
          /\ CASE Panics(p.existing[s].methods, new.methods) ->
                    Fail(w) /\ UNCHANGED policies
               [] IsPolicyEqual(p.existing[s], new) ->
                    pass' = [pass EXCEPT ![w] = done] /\ UNCHANGED <<policies, queue>>
               [] OTHER -> IF policies[c][s] = NoPolicy THEN Fail(w) /\ UNCHANGED policies
                           ELSE write(new) /\ pass' = [pass EXCEPT ![w] = done] /\ UNCHANGED queue
          /\ UNCHANGED faults
       \/ /\ s \in Enforced /\ p.existing[s] = NoPolicy
          /\ IF policies[c][s] # NoPolicy THEN Fail(w) /\ UNCHANGED policies
             ELSE write(new) /\ pass' = [pass EXCEPT ![w] = done] /\ UNCHANGED queue
          /\ UNCHANGED faults
       \/ s \in Enforced /\ Fault /\ Fail(w) /\ UNCHANGED policies
    /\ UNCHANGED <<intents, intentsCache, pods, policiesCache, changes>>

\* Mutant: what is there stays.
OutdatedNone(p) == {}

\* deleteOutdatedPolicies goes by the list; DeleteAll lists and deletes everything
\* of the client.
Outdated(p) ==
    IF p.pc = "apply" THEN {s \in Servers : p.existing[s] # NoPolicy /\ s \notin p.updated}
    ELSE {s \in Servers : policiesCache[p.client][s] # NoPolicy}

\* Deleting what is gone fails, and the pass with it; the ones before are deleted.
\* The group drops the finalizer of a deleted object if the copy is the current one.
Delete(w) ==
    LET p == pass[w]
        c == p.client
        gone == Outdated(p)
        without(some) == policies' = [policies EXCEPT ![c] =
                             [s \in Servers |-> IF s \in some THEN NoPolicy ELSE @[s]]]
        release == p.pc = "delete" IN
    /\ (p.pc = "apply" /\ p.targets = <<>>) \/ release
    /\ \/ /\ \A s \in gone : policies[c][s] # NoPolicy
          /\ without(gone)
          /\ Finish(w)
          /\ IF release /\ intents[c] = p.copy
             THEN intents' = [intents EXCEPT ![c] = NoIntents] /\ UNCHANGED queue
             ELSE /\ IF release THEN Requeue(w) ELSE UNCHANGED queue
                  /\ UNCHANGED intents
          /\ UNCHANGED faults
       \/ /\ \E s \in gone : policies[c][s] = NoPolicy
          /\ \E some \in SUBSET gone : without(some)
          /\ Fail(w) /\ UNCHANGED <<intents, faults>>
       \/ /\ gone # {} /\ Fault
          /\ \E some \in SUBSET gone : without(some)
          /\ Fail(w) /\ UNCHANGED intents
    /\ UNCHANGED <<intentsCache, pods, policiesCache, changes>>

-----------------------------------------------------------------------------
(* Users and informers.                                                    *)

Change == changes < MaxChanges /\ changes' = changes + 1

ChangeIntents(c) ==
    /\ Change
    /\ \/ \E targets \in Targets :
            /\ intents[c].stage # "deleting" /\ intents[c].targets # targets
            /\ intents' = [intents EXCEPT ![c] =
                  [stage |-> IF @.stage = None THEN "new" ELSE @.stage, targets |-> targets]]
       \/ intents[c].stage = "live" /\ intents' = [intents EXCEPT ![c].stage = "deleting"]
    /\ UNCHANGED <<intentsCache, pods, policies, policiesCache, queue, pass, faults>>

\* A pod of the client starts, in place of another under the same name.
ChangePod(c) ==
    /\ Change
    /\ \E a \in Accounts, sidecar \in BOOLEAN :
          /\ [account |-> a, sidecar |-> sidecar] # pods[c]
          /\ pods' = [pods EXCEPT ![c] = [account |-> a, sidecar |-> sidecar]]
    /\ queue' = [queue EXCEPT !["pods"] = @ \cup {c}]
    /\ UNCHANGED <<intents, intentsCache, policies, policiesCache, pass, faults>>

SyncIntents(c) ==
    /\ intentsCache[c] # intents[c]
    /\ intentsCache' = [intentsCache EXCEPT ![c] = intents[c]]
    /\ queue' = [queue EXCEPT !["intents"] = @ \cup {c}]
    /\ UNCHANGED <<intents, pods, policies, policiesCache, pass, changes, faults>>

SyncPolicies ==
    /\ policiesCache # policies
    /\ policiesCache' = policies
    /\ UNCHANGED <<intents, intentsCache, pods, policies, queue, pass, changes, faults>>

\* The informers' periodic resync, at a time when nothing else is going on.
Resync ==
    /\ \A w \in Controllers : queue[w] = {} /\ pass[w] = Idle
    /\ queue' = [w \in Controllers |->
          IF w = "pods" THEN Clients ELSE {c \in Clients : intentsCache[c].stage # None}]
    /\ UNCHANGED <<intents, intentsCache, pods, policies, policiesCache, pass, changes, faults>>

-----------------------------------------------------------------------------
Init ==
    /\ intents = [c \in Clients |-> NoIntents] /\ intentsCache = intents
    /\ \E a \in Accounts :
         pods = [c \in Clients |-> [account |-> a, sidecar |-> TRUE]]
    /\ policies = [c \in Clients |-> [s \in Servers |-> NoPolicy]] /\ policiesCache = policies
    /\ queue = [w \in Controllers |-> {}]
    /\ pass = [w \in Controllers |-> Idle]
    /\ changes = 0 /\ faults = 0

IntentsStep == (\E c \in Clients : BeginIntents(c))
               \/ List("intents") \/ Apply("intents") \/ Delete("intents")
PodStep == (\E c \in Clients : BeginPod(c)) \/ List("pods") \/ Apply("pods") \/ Delete("pods")
Sync == (\E c \in Clients : SyncIntents(c)) \/ SyncPolicies
Users == \E c \in Clients : ChangeIntents(c) \/ ChangePod(c)

Next == IntentsStep \/ PodStep \/ Sync \/ Resync \/ Users

-----------------------------------------------------------------------------
(* Properties.                                                             *)

TypeOK ==
    /\ \A c \in Clients : /\ intents[c].stage \in {None, "new", "live", "deleting"}
                          /\ pods[c].account \in Accounts
    /\ \A c \in Clients, s \in Servers : policies[c][s].account \in Accounts \cup {None}
    /\ queue["intents"] \cup queue["pods"] \subseteq Clients
    /\ \A w \in Controllers : pass[w].pc \in {"idle", "list", "apply", "delete"}

\* The policies of a client with live ClientIntents and a pod in the mesh are those
\* of its targets, for the pod's service account and the methods declared.
Served(c) ==
    intents[c].stage = "live" /\ pods[c].sidecar =>
        \A s \in Servers :
            LET wanted == {[account |-> pods[c].account, methods |-> intents[c].targets[i].methods] :
                             i \in {j \in DOMAIN intents[c].targets :
                                      s \in Enforced /\ intents[c].targets[j].server = s}} IN
            IF wanted = {} THEN policies[c][s] = NoPolicy ELSE policies[c][s] \in wanted

ClientsServed == \A c \in Clients : Served(c)

=============================================================================

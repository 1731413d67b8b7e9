------------------------------ MODULE PolicySets ------------------------------
(***************************************************************************)
(* How the handlers of metrics collection and of webhook traffic bring a   *)
(* set of network policies to what they computed: they list what exists,   *)
(* then add, delete and update by name.  Several controllers run the same  *)
(* handler at once; they share only the API server and the informers'      *)
(* copies.  The two handlers (MetricsTraffic, WebhookTraffic) extend this. *)
(***************************************************************************)
EXTENDS Naturals, FiniteSets

CONSTANTS
    Names, Places,         \* names of policies, and the namespaces they may be in
    MaxChanges, MaxFaults  \* bounds: changes in the cluster; failed calls

VARIABLES
    policies, policiesCache,  \* per name and place, the ports admitted
    news,                     \* a policy was written and the informer has yet to say so
    queued,                   \* the controllers with a request
    pass,                     \* per controller, its pass
    changes, faults

setVars == <<policies, policiesCache, news, queued, pass, changes, faults>>

None == {}                                 \* no ports: there is no policy
NoPolicy == [at |-> "nowhere", ports |-> None]
Controllers == {"resources", "policies"}   \* one for what is scraped or called; one for policies
Idle == [pc |-> "idle"]
Nothing == [n \in Names |-> NoPolicy]

Fault == faults < MaxFaults /\ faults' = faults + 1
Fail(h) == pass' = [pass EXCEPT ![h] = Idle] /\ queued' = queued \cup {h}

\* A place for each of the listed names, as the map keyed by names keeps one.
Listed(scope) ==
    LET found(n) == {q \in Places : policiesCache[n][q] # None} IN
    {f \in [scope -> Places \cup {"nowhere"}] :
        \A n \in scope : f[n] \in IF found(n) = {} THEN {"nowhere"} ELSE found(n)}

\* wanted[n] is NoPolicy, or the policy of that name: its place and its ports.
List(h, scope) ==
    /\ pass[h].pc = "list"
    /\ \E existing \in Listed(scope) :
         LET wanted == {n \in scope : pass[h].wanted[n] # NoPolicy}
             present == {n \in scope : existing[n] # "nowhere"} IN
         pass' = [pass EXCEPT ![h] = [@ EXCEPT !.pc = "apply", !.existing = existing,
                    !.add = wanted \ present, !.delete = present \ wanted,
                    !.update = wanted \cap present]]
    /\ UNCHANGED <<policies, policiesCache, news, queued, changes, faults>>

\* A patch of the copy: nothing is sent if the copy is right already.
Patch(n, q, ports) == /\ policies[n][q] # None
                      /\ policies' = IF policiesCache[n][q] = ports THEN policies
                                     ELSE [policies EXCEPT ![n][q] = ports]

\* One policy to add.  One that exists is looked up and patched, and then the
\* handler is done with adding: those it has not come to are left out.
Add(h, n) ==
    LET new == pass[h].wanted[n]
        q == new.at IN
    /\ pass[h].pc = "apply" /\ n \in pass[h].add
    /\ \/ /\ policies[n][q] = None
          /\ policies' = [policies EXCEPT ![n][q] = new.ports]
          /\ pass' = [pass EXCEPT ![h].add = @ \ {n}]
          /\ UNCHANGED <<queued, faults>>
       \/ /\ policies[n][q] # None /\ policiesCache[n][q] # None
          /\ Patch(n, q, new.ports)
          /\ pass' = [pass EXCEPT ![h].add = {}]
          /\ UNCHANGED <<queued, faults>>
       \/ /\ policies[n][q] # None /\ policiesCache[n][q] = None
          /\ Fail(h) /\ UNCHANGED <<policies, faults>>
       \/ Fault /\ Fail(h) /\ UNCHANGED policies
    /\ news' = (news \/ policies' # policies)
    /\ UNCHANGED <<policiesCache, changes>>

Delete(h, n) ==
    /\ pass[h].pc = "apply" /\ pass[h].add = {} /\ n \in pass[h].delete
    /\ \/ /\ policies' = [policies EXCEPT ![n][pass[h].existing[n]] = None]
          /\ pass' = [pass EXCEPT ![h].delete = @ \ {n}]
          /\ UNCHANGED <<queued, faults>>
       \/ Fault /\ Fail(h) /\ UNCHANGED policies
    /\ news' = (news \/ policies' # policies)
    /\ UNCHANGED <<policiesCache, changes>>

\* One policy to update, from the copy at hand by then: it is created if it is not
\* there, and patched if it differs.
Update(h, n) ==
    LET new == pass[h].wanted[n]
        q == new.at
        done == pass' = [pass EXCEPT ![h].update = @ \ {n}] /\ UNCHANGED queued
        write == \/ policiesCache[n][q] \notin {None, new.ports} /\ Patch(n, q, new.ports)
                 \/ /\ policiesCache[n][q] = None /\ policies[n][q] = None
                    /\ policies' = [policies EXCEPT ![n][q] = new.ports] IN
    /\ pass[h].pc = "apply" /\ pass[h].add = {} /\ pass[h].delete = {}
    /\ n \in pass[h].update
    /\ \/ policiesCache[n][q] = new.ports /\ done /\ UNCHANGED <<policies, faults>>
       \/ write /\ done /\ UNCHANGED faults
       \/ /\ policiesCache[n][q] # new.ports
          /\ (policies[n][q] = None) # (policiesCache[n][q] = None)
          /\ Fail(h) /\ UNCHANGED <<policies, faults>>
       \/ policiesCache[n][q] # new.ports /\ Fault /\ Fail(h) /\ UNCHANGED policies
    /\ news' = (news \/ policies' # policies)
    /\ UNCHANGED <<policiesCache, changes>>

Applied(h) == /\ pass[h].pc = "apply"
              /\ pass[h].add = {} /\ pass[h].delete = {} /\ pass[h].update = {}

\* The informer's news of policies; every change of one is a request.
SyncPolicies ==
    /\ news
    /\ news' = FALSE
    /\ policiesCache' = policies
    /\ queued' = queued \cup {"policies"}
    /\ UNCHANGED <<policies, pass, changes, faults>>

\* The operator starts, and the informers report what there is.
SetInit ==
    /\ policies = [n \in Names |-> [q \in Places |-> None]] /\ policiesCache = policies
    /\ news = FALSE /\ queued = Controllers /\ pass = [h \in Controllers |-> Idle]
    /\ changes = 0 /\ faults = 0

=============================================================================

----------------------------- MODULE GcpPolicies -----------------------------
(***************************************************************************)
(* Google Cloud access of one client: gcppolicyagent keeps an              *)
(* IAMPartialPolicy that binds what the GCP targets of its ClientIntents   *)
(* say to the Google account of the service account of its pods.  Config   *)
(* Connector, not modelled, carries the objects to the cloud.  The         *)
(* Google account and the policy by which the service account may use it   *)
(* are made and deleted by the credentials operator, with the same         *)
(* library.                                                                *)
(***************************************************************************)
EXTENDS Naturals

CONSTANTS
    Accounts,               \* service accounts
    Bindings,               \* what the GCP targets of ClientIntents may say
    Refused,                \* those with a wildcard in the middle of a name
    MaxChanges, MaxFaults   \* bounds: changes by users; failed calls

VARIABLES
    intents, intentsCache,  \* the ClientIntents: stage and bindings
    account,                \* service account of the client's labelled pods
    policy, policyCache,    \* the IAMPartialPolicy: bindings and account
    google,                 \* of the Google accounts' objects, those that exist
    queued, changes, faults

vars == <<intents, intentsCache, account, policy, policyCache, google, queued, changes, faults>>

None == "none"
Nothing == "no GCP targets"
NoIntents == [stage |-> None, bindings |-> Nothing]
NoPolicy == [bindings |-> None, account |-> None]
PolicyOf(bindings, a) == [bindings |-> bindings, account |-> IF bindings = Nothing THEN None ELSE a]

Fault == faults < MaxFaults /\ faults' = faults + 1

-----------------------------------------------------------------------------
(* IAMIntentsReconciler with the GCP agent.  A pass makes one write, so it *)
(* is one step.                                                            *)

\* Mutant: the policy of another service account is not taken for a difference.
ApplyByBindings ==
    LET wanted == PolicyOf(intentsCache.bindings, account) IN
    /\ queued /\ intentsCache.stage = "live" /\ account # None /\ wanted.bindings \notin Refused
    /\ queued' = FALSE
    /\ policy' = IF policyCache.bindings = wanted.bindings \/ (policyCache = NoPolicy /\ policy # NoPolicy)
                 THEN policy ELSE wanted
    /\ UNCHANGED <<intents, intentsCache, account, policyCache, google, changes, faults>>

\* ApplyIAMPartialPolicy: compared with the cached copy, a policy is created, or its
\* bindings are replaced.  Where the cache does not know of it yet, creation fails.
Apply ==
    LET wanted == PolicyOf(intentsCache.bindings, account)
        create == policyCache = NoPolicy IN
    /\ queued /\ intentsCache.stage = "live" /\ account # None
    /\ \/ /\ wanted.bindings \in Refused \/ (create /\ policy # NoPolicy /\ wanted.bindings # Nothing)
          /\ UNCHANGED <<policy, queued, faults>>
       \/ /\ wanted.bindings \notin Refused
          /\ \/ create /\ wanted.bindings = Nothing /\ UNCHANGED policy
             \/ create /\ wanted.bindings # Nothing /\ policy = NoPolicy /\ policy' = wanted
             \/ ~create /\ policyCache = wanted /\ UNCHANGED policy
             \/ ~create /\ policyCache # wanted /\ policy # NoPolicy /\ policy' = wanted
          /\ queued' = FALSE /\ UNCHANGED faults
       \/ Fault /\ UNCHANGED <<policy, queued>>
    /\ UNCHANGED <<intents, intentsCache, account, policyCache, google, changes>>

\* Nothing to do without ClientIntents or without a labelled pod; the group makes
\* sure of the finalizer of new ones first.
Skip ==
    /\ queued
    /\ \/ intentsCache.stage = None /\ queued' = FALSE /\ UNCHANGED intents
       \/ /\ intentsCache.stage = "new" /\ intents = intentsCache
          /\ intents' = [intents EXCEPT !.stage = "live"] /\ UNCHANGED queued
       \/ intentsCache.stage = "live" /\ account = None /\ queued' = FALSE /\ UNCHANGED intents
    /\ UNCHANGED <<intentsCache, account, policy, policyCache, google, changes, faults>>

\* DeleteIAMPartialPolicy and the finalizer: a policy the cache knows is deleted.
Delete ==
    /\ queued /\ intentsCache.stage = "deleting"
    /\ \/ /\ policy' = IF policyCache = NoPolicy THEN policy ELSE NoPolicy
          /\ queued' = FALSE
          /\ intents' = IF intents = intentsCache THEN NoIntents ELSE intents
          /\ UNCHANGED faults
       \/ Fault /\ UNCHANGED <<policy, queued, intents>>
    /\ UNCHANGED <<intentsCache, account, policyCache, google, changes>>

-----------------------------------------------------------------------------
(* The credentials operator: CreateAndConnectGSA and DeleteGSA.            *)

Member(a) == <<"member", a>>    \* the IAMPolicyMember of a service account
Gsa(a) == <<"account", a>>      \* its IAMServiceAccount

CreateGsa(a) ==
    /\ account = a /\ Gsa(a) \notin google
    /\ google' = google \cup {Gsa(a)}
    /\ UNCHANGED <<intents, intentsCache, account, policy, policyCache, queued, changes, faults>>

Connect(a) ==
    /\ account = a /\ Gsa(a) \in google /\ Member(a) \notin google
    /\ google' = google \cup {Member(a)}
    /\ UNCHANGED <<intents, intentsCache, account, policy, policyCache, queued, changes, faults>>

Disconnect(a) ==
    /\ account # a /\ Member(a) \in google
    /\ google' = google \ {Member(a)}
    /\ UNCHANGED <<intents, intentsCache, account, policy, policyCache, queued, changes, faults>>

\* Mutant: the account goes first.
DeleteGsaFirst(a) ==
    /\ account # a /\ Gsa(a) \in google
    /\ google' = google \ {Gsa(a)}
    /\ UNCHANGED <<intents, intentsCache, account, policy, policyCache, queued, changes, faults>>

DeleteGsa(a) ==
    /\ account # a /\ Gsa(a) \in google /\ Member(a) \notin google
    /\ google' = google \ {Gsa(a)}
    /\ UNCHANGED <<intents, intentsCache, account, policy, policyCache, queued, changes, faults>>

-----------------------------------------------------------------------------
(* Users and informers.                                                    *)

Change == changes < MaxChanges /\ changes' = changes + 1

ChangeIntents ==
    /\ Change
    /\ \/ \E b \in Bindings \cup {Nothing} :
            /\ intents.stage # "deleting" /\ intents.bindings # b
            /\ intents' = [stage |-> IF intents.stage = None THEN "new" ELSE intents.stage,
                           bindings |-> b]
       \/ intents.stage = "live" /\ intents' = [intents EXCEPT !.stage = "deleting"]
    /\ UNCHANGED <<intentsCache, account, policy, policyCache, google, queued, faults>>

ChangePods ==
    /\ Change
    /\ \E a \in Accounts \cup {None} : a # account /\ account' = a
    /\ queued' = (queued \/ intentsCache.stage # None)
    /\ UNCHANGED <<intents, intentsCache, policy, policyCache, google, faults>>

Sync ==
    /\ \/ intentsCache # intents /\ intentsCache' = intents /\ queued' = TRUE /\ UNCHANGED policyCache
       \/ policyCache # policy /\ policyCache' = policy /\ UNCHANGED <<intentsCache, queued>>
    /\ UNCHANGED <<intents, account, policy, google, changes, faults>>

Resync ==
    /\ intentsCache.stage # None /\ queued' = TRUE
    /\ UNCHANGED <<intents, intentsCache, account, policy, policyCache, google, changes, faults>>

-----------------------------------------------------------------------------
Init ==
    /\ intents = NoIntents /\ intentsCache = NoIntents /\ account = None
    /\ policy = NoPolicy /\ policyCache = NoPolicy /\ google = {}
    /\ queued = FALSE /\ changes = 0 /\ faults = 0

Step == Apply \/ Skip \/ Delete
Credentials == \E a \in Accounts : CreateGsa(a) \/ Connect(a) \/ Disconnect(a) \/ DeleteGsa(a)
Users == ChangeIntents \/ ChangePods

Next == Step \/ Credentials \/ Sync \/ Resync \/ Users

-----------------------------------------------------------------------------
(* Properties.                                                             *)

TypeOK ==
    /\ intents.stage \in {None, "new", "live", "deleting"}
    /\ policy.bindings \in Bindings \cup {None, Nothing}
    /\ policy.account \in Accounts \cup {None}
    /\ \A a \in Accounts : Member(a) \in google => Gsa(a) \in google

\* In the end the policy binds what the live ClientIntents say, and for the service
\* account their pods have now, though passes read policies from a cache that lags:
\* unless the library refuses them, and then the old policy stays.
PolicyBinds ==
    intents.stage = "live" /\ account # None /\ intents.bindings \notin Refused =>
        \/ policy = PolicyOf(intents.bindings, account)
        \/ policy = NoPolicy /\ intents.bindings = Nothing

=============================================================================

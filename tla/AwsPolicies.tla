----------------------------- MODULE AwsPolicies -----------------------------
(***************************************************************************)
(* AWS access: IAMIntentsReconciler keeps one IAM policy per client and    *)
(* attaches it to the role of the client's service account.  Roles are     *)
(* made and deleted by the credentials operator, with the same library.    *)
(*                                                                         *)
(* A policy has versions, the newest of which counts, and a tag with the   *)
(* hash of its document, which decides whether there is anything to do.    *)
(* Versions and tags are changed in calls of their own.                    *)
(***************************************************************************)
EXTENDS Naturals, Sequences, FiniteSets

CONSTANTS
    Clients,            \* workloads of one namespace, each with one ClientIntents
    Accounts,           \* service accounts
    Documents,          \* what the AWS targets of a ClientIntents may say
    DocumentsReused,    \* whether a client may declare a document a second time
    MaxChanges, MaxFaults   \* bounds: changes by users; failed calls

VARIABLES
    intents, intentsCache,  \* the ClientIntents of a client
    declared,               \* documents a client has declared before
    account,                \* service account of the client's labelled pod
    role,                   \* the role of an account
    policy,                 \* the policy of a client
    queue, pass,
    deletingRole,           \* the role the credentials operator is deleting
    changes, faults

vars == <<intents, intentsCache, declared, account, role, policy, queue, pass,
          deletingRole, changes, faults>>

None == "none"
NoIntents == [stage |-> None, document |-> None]
NoAws == "no AWS targets"    \* the document of intents for other things
Allowing == Documents \cup {NoAws}

NoRole == [exists |-> FALSE, soft |-> FALSE, unused |-> FALSE]
NoPolicy == [exists |-> FALSE, versions |-> <<>>, hash |-> None, attached |-> {},
             soft |-> FALSE, unused |-> FALSE]

Idle == [pc |-> "idle"]
MaxVersions == 5   \* AWS refuses a sixth version

-----------------------------------------------------------------------------
Fault == faults < MaxFaults /\ faults' = faults + 1

Fail == pass' = Idle /\ queue' = queue \cup {pass.client}

To(pc) == pass' = [pass EXCEPT !.pc = pc]

Default(p) == p.versions[Len(p.versions)]

\* hasMultipleClientsForServiceAccount: clients with AWS targets whose pod uses
\* the account.
Sharing(a) == {c \in Clients : /\ intentsCache[c].stage # None
                               /\ intentsCache[c].document \in Documents
                               /\ account[c] = a}

\* Reconcile, after the group made sure of the finalizer: without a labelled pod,
\* or if several clients use its account, nothing is done.
Begin(c) ==
    LET copy == intentsCache[c]
        served == account[c] # None /\ Cardinality(Sharing(account[c])) <= 1
        at(pc) == [pc |-> pc, client |-> c, copy |-> copy, account |-> account[c], todo |-> {}] IN
    /\ pass = Idle /\ c \in queue
    /\ copy.stage = "new" => intents[c] = copy
    /\ queue' = queue \ {c}
    /\ intents' = IF copy.stage = "new" THEN [intents EXCEPT ![c].stage = "live"] ELSE intents
    /\ pass' = CASE copy.stage = None -> Idle
                 [] copy.stage = "deleting" -> at("delete")
                 [] OTHER -> IF served THEN at("get") ELSE Idle
    /\ UNCHANGED <<intentsCache, declared, account, role, policy, deletingRole, changes, faults>>

-----------------------------------------------------------------------------
(* AddRolePolicy.                                                          *)

\* Without the role the request is queued again.  A policy that does not exist is
\* created, with its document, hash and strategy.
Get ==
    LET c == pass.client
        r == role[pass.account] IN
    /\ pass.pc = "get"
    /\ \/ ~r.exists /\ Fail /\ UNCHANGED <<policy, faults>>
       \/ /\ r.exists /\ policy[c].exists
          /\ To("tags") /\ UNCHANGED <<policy, queue, faults>>
       \/ /\ r.exists /\ ~policy[c].exists
          /\ policy' = [policy EXCEPT ![c] =
                [exists |-> TRUE, versions |-> <<pass.copy.document>>,
                 hash |-> pass.copy.document, attached |-> {}, soft |-> r.soft,
                 unused |-> FALSE]]
          /\ To("attach") /\ UNCHANGED <<queue, faults>>
       \/ Fault /\ Fail /\ UNCHANGED policy
    /\ UNCHANGED <<intents, intentsCache, declared, account, role, deletingRole, changes>>

\* updatePolicy: the tags of soft deletion follow the role; what comes after is
\* left out if the hash is that of the document.  Where the policy is gone, a call
\* fails.
Tags ==
    LET c == pass.client
        p == policy[c]
        soft == role[pass.account].soft IN
    /\ pass.pc = "tags"
    /\ \/ /\ p.exists
          /\ policy' = [policy EXCEPT ![c].unused = FALSE, ![c].soft = soft]
          /\ To(IF p.hash = pass.copy.document THEN "attach" ELSE "version")
          /\ UNCHANGED <<queue, faults>>
       \/ ~p.exists /\ Fail /\ UNCHANGED <<policy, faults>>
       \/ /\ p.exists /\ Fault /\ Fail
          /\ policy' \in {policy, [policy EXCEPT ![c].unused = FALSE]}
    /\ UNCHANGED <<intents, intentsCache, declared, account, role, deletingRole, changes>>

\* Mutant: the limit is thought to be that of AWS.
PrunedLate(versions) == IF Len(versions) <= MaxVersions THEN versions ELSE Tail(versions)

\* deleteOldestPolicyVersion from four versions on, then CreatePolicyVersion.
Pruned(versions) == IF Len(versions) < 4 THEN versions ELSE Tail(versions)

Version ==
    LET c == pass.client
        versions == Pruned(policy[c].versions) IN
    /\ pass.pc = "version"
    /\ \/ /\ policy[c].exists /\ Len(versions) < MaxVersions
          /\ policy' = [policy EXCEPT ![c].versions = Append(versions, pass.copy.document)]
          /\ To("hash") /\ UNCHANGED <<queue, faults>>
       \/ /\ ~policy[c].exists \/ Len(versions) >= MaxVersions
          /\ Fail /\ UNCHANGED <<policy, faults>>
       \/ /\ policy[c].exists /\ Fault /\ Fail
          /\ policy' \in {policy, [policy EXCEPT ![c].versions = versions]}
    /\ UNCHANGED <<intents, intentsCache, declared, account, role, deletingRole, changes>>

\* TagPolicy with the new hash.
Hash ==
    LET c == pass.client IN
    /\ pass.pc = "hash"
    /\ \/ /\ policy[c].exists
          /\ policy' = [policy EXCEPT ![c].hash = pass.copy.document]
          /\ To("attach") /\ UNCHANGED <<queue, faults>>
       \/ ~policy[c].exists /\ Fail /\ UNCHANGED <<policy, faults>>
       \/ Fault /\ Fail /\ UNCHANGED policy
    /\ UNCHANGED <<intents, intentsCache, declared, account, role, deletingRole, changes>>

Attach ==
    LET c == pass.client IN
    /\ pass.pc = "attach"
    /\ \/ /\ policy[c].exists /\ role[pass.account].exists
          /\ policy' = [policy EXCEPT ![c].attached = @ \cup {pass.account}]
          /\ pass' = Idle /\ UNCHANGED <<queue, faults>>
       \/ ~(policy[c].exists /\ role[pass.account].exists) /\ Fail /\ UNCHANGED <<policy, faults>>
       \/ Fault /\ Fail /\ UNCHANGED policy
    /\ UNCHANGED <<intents, intentsCache, declared, account, role, deletingRole, changes>>

-----------------------------------------------------------------------------
(* DeleteRolePolicy.                                                       *)

\* Mutant: a policy that is not to be deleted is left as it is.
DeleteUntagged ==
    LET c == pass.client IN
    /\ pass.pc = "delete"
    /\ pass' = [pass EXCEPT !.pc = IF policy[c].exists /\ ~policy[c].soft THEN "detach" ELSE "release",
                            !.todo = policy[c].attached]
    /\ UNCHANGED <<policy, queue, faults>>
    /\ UNCHANGED <<intents, intentsCache, declared, account, role, deletingRole, changes>>

\* A policy with the strategy of its role is only tagged; otherwise the roles it is
\* attached to are listed.
Delete ==
    LET c == pass.client IN
    /\ pass.pc = "delete"
    /\ \/ /\ ~policy[c].exists
          /\ To("release") /\ UNCHANGED <<policy, queue, faults>>
       \/ /\ policy[c].exists /\ policy[c].soft
          /\ policy' = [policy EXCEPT ![c].unused = TRUE]
          /\ To("release") /\ UNCHANGED <<queue, faults>>
       \/ /\ policy[c].exists /\ ~policy[c].soft
          /\ pass' = [pass EXCEPT !.pc = "detach", !.todo = policy[c].attached]
          /\ UNCHANGED <<policy, queue, faults>>
       \/ Fault /\ Fail /\ UNCHANGED policy
    /\ UNCHANGED <<intents, intentsCache, declared, account, role, deletingRole, changes>>

\* DetachRolePolicy: where role or policy is gone by now, the whole deletion
\* counts as done.
Detach(a) ==
    LET c == pass.client
        there == a \in policy[c].attached IN
    /\ pass.pc = "detach" /\ a \in pass.todo
    /\ \/ /\ there
          /\ policy' = [policy EXCEPT ![c].attached = @ \ {a}]
          /\ pass' = [pass EXCEPT !.todo = @ \ {a}]
          /\ UNCHANGED <<queue, faults>>
       \/ ~there /\ To("release") /\ UNCHANGED <<policy, queue, faults>>
       \/ Fault /\ Fail /\ UNCHANGED policy
    /\ UNCHANGED <<intents, intentsCache, declared, account, role, deletingRole, changes>>

\* The other versions, then the policy with its default version.
Remove ==
    LET c == pass.client IN
    /\ pass.pc = "detach" /\ pass.todo = {}
    /\ \/ /\ policy[c].attached = {}
          /\ policy' = [policy EXCEPT ![c] = NoPolicy]
          /\ To("release") /\ UNCHANGED <<queue, faults>>
       \/ /\ policy[c].exists /\ Fault /\ Fail
          /\ policy' = [policy EXCEPT ![c].versions = <<Default(policy[c])>>]
    /\ UNCHANGED <<intents, intentsCache, declared, account, role, deletingRole, changes>>

\* The group drops the finalizer.
Release ==
    LET c == pass.client IN
    /\ pass.pc = "release"
    /\ pass' = Idle
    /\ IF intents[c] = pass.copy
       THEN intents' = [intents EXCEPT ![c] = NoIntents] /\ UNCHANGED queue
       ELSE /\ queue' = IF intents[c].stage # None THEN queue \cup {c} ELSE queue
            /\ UNCHANGED intents
    /\ UNCHANGED <<intentsCache, declared, account, role, policy, deletingRole, changes, faults>>

-----------------------------------------------------------------------------
(* Roles: what the credentials operator does.                              *)

\* CreateOtterizeIAMRole, with or without the soft strategy: a role that exists is
\* no longer unused, and its policies follow its strategy.
CreateRole(a) ==
    /\ deletingRole = None
    /\ \E c \in Clients : account[c] = a
    /\ \E soft \in BOOLEAN :
         /\ IF role[a].exists THEN Fault ELSE UNCHANGED faults
         /\ role' = [role EXCEPT ![a] = [exists |-> TRUE, soft |-> soft, unused |-> FALSE]]
         /\ policy' = [c \in Clients |-> IF role[a].exists /\ a \in policy[c].attached
                                          THEN [policy[c] EXCEPT !.soft = soft] ELSE policy[c]]
    /\ role' # role
    /\ UNCHANGED <<intents, intentsCache, declared, account, queue, pass, deletingRole, changes>>

\* DeleteOtterizeIAMRole, once no labelled pod uses the account: a soft role and its
\* policies are tagged.
SoftDeleteRole(a) ==
    /\ deletingRole = None
    /\ role[a].exists /\ role[a].soft /\ ~role[a].unused
    /\ \A c \in Clients : account[c] # a
    /\ role' = [role EXCEPT ![a].unused = TRUE]
    /\ policy' = [c \in Clients |-> IF a \in policy[c].attached
                                     THEN [policy[c] EXCEPT !.unused = TRUE] ELSE policy[c]]
    /\ UNCHANGED <<intents, intentsCache, declared, account, queue, pass, deletingRole, changes, faults>>

\* Otherwise its policies go first, those with the strategy of another role apart.
DeleteRolePolicies(a) ==
    /\ deletingRole = None
    /\ role[a].exists /\ ~role[a].soft
    /\ \A c \in Clients : account[c] # a
    /\ deletingRole' = a
    /\ policy' = [c \in Clients |-> IF a \notin policy[c].attached THEN policy[c]
                                     ELSE IF policy[c].soft THEN [policy[c] EXCEPT !.unused = TRUE]
                                     ELSE NoPolicy]
    /\ UNCHANGED <<intents, intentsCache, declared, account, role, queue, pass, changes, faults>>

\* AWS refuses to delete a role with policies attached; it is tried again.
DeleteRole ==
    LET a == deletingRole IN
    /\ a # None
    /\ deletingRole' = None
    /\ role' = IF \E c \in Clients : a \in policy[c].attached THEN role
               ELSE [role EXCEPT ![a] = NoRole]
    /\ UNCHANGED <<intents, intentsCache, declared, account, policy, queue, pass, changes, faults>>

-----------------------------------------------------------------------------
(* Users and informers.                                                    *)

Change == changes < MaxChanges /\ changes' = changes + 1

ChangeIntents(c) ==
    /\ Change
    /\ \/ \E d \in Allowing :
            /\ intents[c].stage # "deleting" /\ intents[c].document # d
            /\ DocumentsReused \/ d \notin declared[c]
            /\ intents' = [intents EXCEPT ![c] =
                  [stage |-> IF @.stage = None THEN "new" ELSE @.stage, document |-> d]]
            /\ declared' = [declared EXCEPT ![c] = @ \cup {d}]
       \/ /\ intents[c].stage = "live"
          /\ intents' = [intents EXCEPT ![c].stage = "deleting"]
          /\ UNCHANGED declared
    /\ UNCHANGED <<intentsCache, account, role, policy, queue, pass, deletingRole, faults>>

\* A labelled pod starts, under a service account, or goes: IAMPodReconciler runs
\* the client's intents.
ChangePod(c) ==
    /\ Change
    /\ \E a \in Accounts \cup {None} : a # account[c] /\ account' = [account EXCEPT ![c] = a]
    /\ queue' = IF account'[c] # None /\ intentsCache[c].stage # None THEN queue \cup {c} ELSE queue
    /\ UNCHANGED <<intents, intentsCache, declared, role, policy, pass, deletingRole, faults>>

Sync(c) ==
    /\ intentsCache[c] # intents[c]
    /\ intentsCache' = [intentsCache EXCEPT ![c] = intents[c]]
    /\ queue' = queue \cup {c}
    /\ UNCHANGED <<intents, declared, account, role, policy, pass, deletingRole, changes, faults>>

Resync ==
    /\ queue' = queue \cup {c \in Clients : intentsCache[c].stage # None}
    /\ UNCHANGED <<intents, intentsCache, declared, account, role, policy, pass,
                   deletingRole, changes, faults>>

-----------------------------------------------------------------------------
\* Nothing declared yet, or a client whose policy has had four documents.
Init ==
    /\ \/ /\ intents = [c \in Clients |-> NoIntents]
          /\ account = [c \in Clients |-> None]
          /\ role = [a \in Accounts |-> NoRole]
          /\ policy = [c \in Clients |-> NoPolicy]
       \/ \E seasoned \in Clients, a \in Accounts :
          /\ intents = [c \in Clients |-> IF c = seasoned THEN [stage |-> "live", document |-> NoAws]
                                           ELSE NoIntents]
          /\ account = [c \in Clients |-> IF c = seasoned THEN a ELSE None]
          /\ role = [b \in Accounts |-> [NoRole EXCEPT !.exists = (b = a)]]
          /\ policy = [c \in Clients |-> IF c = seasoned
                THEN [NoPolicy EXCEPT !.exists = TRUE, !.versions = [n \in 1 .. 4 |-> NoAws],
                                      !.hash = NoAws, !.attached = {a}]
                ELSE NoPolicy]
    /\ intentsCache = intents
    /\ declared = [c \in Clients |-> {intents[c].document}]
    /\ queue = {} /\ pass = Idle /\ deletingRole = None
    /\ changes = 0 /\ faults = 0

Step == \/ Get \/ Tags \/ Version \/ Hash \/ Attach \/ Delete \/ Remove \/ Release
        \/ \E c \in Clients : Begin(c)
        \/ \E a \in Accounts : Detach(a)
Roles == DeleteRole \/ \E a \in Accounts : CreateRole(a) \/ SoftDeleteRole(a) \/ DeleteRolePolicies(a)
Synced == \E c \in Clients : Sync(c)
Users == \E c \in Clients : ChangeIntents(c) \/ ChangePod(c)

Next == Step \/ Roles \/ Synced \/ Resync \/ Users

\* Without fairness, which is stated where it is run.
Spec == Init /\ [][Next]_vars

-----------------------------------------------------------------------------
(* Properties.                                                             *)

TypeOK ==
    /\ \A c \in Clients :
         /\ intents[c].stage \in {None, "new", "live", "deleting"}
         /\ policy[c].exists <=> policy[c].versions # <<>>
         /\ Len(policy[c].versions) <= MaxVersions
         /\ \A a \in policy[c].attached : role[a].exists
    /\ queue \subseteq Clients

\* ClientIntents lose their finalizer only when the client's policy is attached to
\* no role, or is tagged as unused where roles are.
ReleasesUnattached ==
    \A c \in Clients :
        intents[c].stage = "deleting" /\ intents'[c].stage = None =>
          policy[c].attached = {} \/ policy[c].unused

\* In the end a client alone on its service account has exactly the access its live
\* intents say, whatever failed on the way: the policy is attached to the role and
\* its default version is the declared document.
PoliciesServed ==
    \A c \in Clients :
        LET a == account[c] IN
        intents[c].stage = "live" /\ a # None
        /\ (\A d \in Clients \ {c} : account[d] # a \/ intents[d].document \notin Documents) =>
            /\ a \in policy[c].attached /\ ~policy[c].unused
            /\ Default(policy[c]) = intents[c].document

=============================================================================

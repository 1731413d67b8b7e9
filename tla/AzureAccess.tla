----------------------------- MODULE AzureAccess -----------------------------
(***************************************************************************)
(* Azure access of one client: azurepolicyagent turns the Azure targets of *)
(* its ClientIntents into role assignments of the client's managed         *)
(* identity and into access policies of key vaults.  A target names roles, *)
(* or the actions of a custom role that is made for its scope.  Nothing is *)
(* shared between clients.  The credentials operator makes and deletes the *)
(* identity, with the same library.                                        *)
(***************************************************************************)
EXTENDS Naturals, Sequences, FiniteSets, SequencesExt

CONSTANTS
    Scopes, Vaults,         \* resources roles are assigned on; key vaults
    Declarations,           \* what ClientIntents may say: sequences of targets
    MaxChanges, MaxFaults   \* bounds: changes by users; failed calls

VARIABLES
    intents, intentsCache,  \* the ClientIntents: stage and targets
    labelled,               \* whether the client's pods ask for an identity
    identity,               \* whether there is one, with its credentials
    customRoles,            \* actions of the custom role of a scope
    assignments,            \* of the identity: scope, role and "custom" or "named"
    vaults,                 \* what the identity may do in a vault
    queued, pass,
    changes, faults

vars == <<intents, intentsCache, labelled, identity, customRoles, assignments, vaults,
          queued, pass, changes, faults>>

None == "none"
NoIntents == [stage |-> None, targets |-> <<>>]
NoAccess == {}
Idle == [pc |-> "idle"]
Custom == "custom role"

Target(kind, scope, access) == [kind |-> kind, scope |-> scope, access |-> access]
OfKind(targets, kind) == {n \in DOMAIN targets : targets[n].kind = kind}
ScopesOf(targets, kind) == {t.scope : t \in {u \in ToSet(targets) : u.kind = kind}}
Assignment(scope, kind, role) == [scope |-> scope, kind |-> kind, role |-> role]

Fault == faults < MaxFaults /\ faults' = faults + 1
Fail == pass' = Idle /\ queued' = TRUE
Listed(kind) == {a \in assignments : a.kind = kind}

\* The next phase of a pass lists the assignments of its kind first.
Phase(kind) == pass' = [pass EXCEPT !.pc = kind, !.rest = OfKind(pass.copy.targets, kind),
                                    !.seen = Listed(kind)]

\* Its targets are handled one by one, in their order.
IsNext(n) == n \in pass.rest /\ \A m \in pass.rest : n =< m

-----------------------------------------------------------------------------
(* AddRolePolicyFromIntents.                                               *)

\* Reconcile: with a missing identity a live request is queued again, and a deleted
\* one is done.
Begin ==
    LET copy == intentsCache
        to(pc) == [pc |-> pc, copy |-> copy, rest |-> {}, seen |-> {}] IN
    /\ pass = Idle /\ queued
    /\ copy.stage = "new" => intents = copy
    /\ intents' = IF copy.stage = "new" THEN [intents EXCEPT !.stage = "live"] ELSE intents
    /\ CASE copy.stage = None -> pass' = Idle /\ queued' = FALSE
         [] copy.stage = "deleting" ->
              pass' = to(IF identity THEN "delete" ELSE "release") /\ queued' = FALSE
         [] OTHER -> IF labelled /\ identity
                     THEN queued' = FALSE /\ pass' = [to(Custom) EXCEPT
                            !.rest = OfKind(copy.targets, Custom), !.seen = Listed(Custom)]
                     ELSE pass' = Idle /\ queued' = labelled
    /\ UNCHANGED <<intentsCache, labelled, identity, customRoles, assignments, vaults, changes, faults>>

\* ensureCustomRoleForIntent: only a role that is created now is also assigned.
EnsureCustomRole ==
    /\ pass.pc = Custom
    /\ \E n \in pass.rest :
         LET t == pass.copy.targets[n]
             found == customRoles[t.scope] # NoAccess
             written == [customRoles EXCEPT ![t.scope] = t.access]
             assigned == assignments \cup {Assignment(t.scope, Custom, t.scope)} IN
         /\ IsNext(n)
         /\ \/ /\ pass' = [pass EXCEPT !.rest = @ \ {n}]
               /\ customRoles' = written
               /\ assignments' = IF found THEN assignments ELSE assigned
               /\ UNCHANGED <<queued, faults>>
            \/ /\ Fault /\ Fail
               /\ customRoles' \in {customRoles} \cup (IF found THEN {} ELSE {written})
               /\ UNCHANGED assignments
    /\ UNCHANGED <<intents, intentsCache, labelled, identity, vaults, changes>>

\* Mutant: assignments of scopes that are no longer declared stay.
ForgetNothing(kind) ==
    /\ pass.pc = kind /\ pass.rest = {}
    /\ IF kind = Custom THEN Phase("named") ELSE pass' = [pass EXCEPT !.pc = "vaults"]
    /\ UNCHANGED <<intents, intentsCache, labelled, identity, customRoles, assignments, vaults,
                   queued, changes, faults>>

\* deleteRoleAssignmentsWithUnexpectedScopes: of the assignments listed at first.
Forget(kind) ==
    LET gone == {a \in pass.seen : a.scope \notin ScopesOf(pass.copy.targets, kind)} IN
    /\ pass.pc = kind /\ pass.rest = {}
    /\ \/ /\ assignments' = assignments \ gone
          /\ IF kind = Custom THEN Phase("named") ELSE pass' = [pass EXCEPT !.pc = "vaults"]
          /\ UNCHANGED <<queued, faults>>
       \/ /\ Fault /\ Fail
          /\ \E some \in SUBSET gone : assignments' = assignments \ some
    /\ UNCHANGED <<intents, intentsCache, labelled, identity, customRoles, vaults, changes>>

\* ensureRoleAssignmentsForIntent: the named roles that the listed assignments of the
\* scope lack are assigned, then the listed ones that are not named are deleted.
EnsureNamedRoles ==
    /\ pass.pc = "named"
    /\ \E n \in pass.rest :
         LET t == pass.copy.targets[n]
             seen == {a \in pass.seen : a.scope = t.scope}
             lacking == {Assignment(t.scope, "named", r) : r \in t.access} \ seen
             extra == {a \in seen : a.role \notin t.access} IN
         /\ IsNext(n)
         /\ \/ /\ assignments' = (assignments \cup lacking) \ extra
               /\ pass' = [pass EXCEPT !.rest = @ \ {n}]
               /\ UNCHANGED <<queued, faults>>
            \/ /\ Fault /\ Fail
               /\ \/ \E some \in SUBSET lacking : assignments' = assignments \cup some
                  \/ \E some \in SUBSET extra : assignments' = (assignments \cup lacking) \ some
    /\ UNCHANGED <<intents, intentsCache, labelled, identity, customRoles, vaults, changes>>

\* ensureKeyVaultPermissionsForIntents: a policy is added, replaced, or removed where
\* no target names the vault.
EnsureVaults ==
    LET wanted == [v \in Vaults |->
            LET ofVault == {t \in ToSet(pass.copy.targets) : t.kind = "vault" /\ t.scope = v} IN
            IF ofVault # {} THEN (CHOOSE t \in ofVault : TRUE).access ELSE NoAccess] IN
    /\ pass.pc = "vaults"
    /\ \/ vaults' = wanted /\ pass' = Idle /\ UNCHANGED <<queued, faults>>
       \/ /\ Fault /\ Fail
          /\ \E some \in SUBSET Vaults :
               vaults' = [v \in Vaults |-> IF v \in some THEN wanted[v] ELSE vaults[v]]
    /\ UNCHANGED <<intents, intentsCache, labelled, identity, customRoles, assignments, changes>>

-----------------------------------------------------------------------------
(* DeleteRolePolicyFromIntents, and the finalizer.                         *)

\* All assignments, then the custom roles of the scopes the ClientIntents name, then
\* the policies of the vaults.
Delete ==
    LET unassigned == [s \in Scopes |-> IF s \in ScopesOf(pass.copy.targets, Custom)
                                        THEN NoAccess ELSE customRoles[s]] IN
    /\ pass.pc = "delete"
    /\ \/ /\ assignments' = {} /\ customRoles' = unassigned
          /\ vaults' = [v \in Vaults |-> NoAccess]
          /\ pass' = [pass EXCEPT !.pc = "release"] /\ UNCHANGED <<queued, faults>>
       \/ /\ Fault /\ Fail /\ UNCHANGED vaults
          /\ \/ \E some \in SUBSET assignments : assignments' = some /\ UNCHANGED customRoles
             \/ assignments' = {} /\ customRoles' = unassigned
    /\ UNCHANGED <<intents, intentsCache, labelled, identity, changes>>

\* The group drops the finalizer.
Release ==
    /\ pass.pc = "release" /\ pass' = Idle
    /\ IF intents = pass.copy THEN intents' = NoIntents /\ UNCHANGED queued
       ELSE UNCHANGED intents /\ queued' = (intents.stage # None)
    /\ UNCHANGED <<intentsCache, labelled, identity, customRoles, assignments, vaults, changes, faults>>

-----------------------------------------------------------------------------
(* The credentials operator, users and informers.                          *)

\* GetOrCreateUserAssignedIdentity.
CreateIdentity ==
    /\ labelled /\ ~identity /\ identity' = TRUE
    /\ UNCHANGED <<intents, intentsCache, labelled, customRoles, assignments, vaults, queued, pass,
                   changes, faults>>

\* DeleteUserAssignedIdentity: another identity will have none of its assignments and
\* access policies.  A pass that found the identity fails at its next call.
DeleteIdentity ==
    /\ ~labelled /\ identity /\ identity' = FALSE
    /\ assignments' = {} /\ vaults' = [v \in Vaults |-> NoAccess]
    /\ pass' = IF pass.pc \in {"idle", "release"} THEN pass ELSE Idle
    /\ queued' = (queued \/ pass'# pass)
    /\ UNCHANGED <<intents, intentsCache, labelled, customRoles, changes, faults>>

Change == changes < MaxChanges /\ changes' = changes + 1

ChangeIntents ==
    /\ Change
    /\ \/ \E d \in Declarations :
            /\ intents.stage # "deleting" /\ intents.targets # d
            /\ intents' = [stage |-> IF intents.stage = None THEN "new" ELSE intents.stage,
                           targets |-> d]
       \/ intents.stage = "live" /\ intents' = [intents EXCEPT !.stage = "deleting"]
    /\ UNCHANGED <<intentsCache, labelled, identity, customRoles, assignments, vaults, queued, pass, faults>>

\* A pod with the label appears, which queues the client's intents, or goes.
ChangePods ==
    /\ Change
    /\ labelled' = ~labelled
    /\ queued' = (queued \/ (labelled' /\ intentsCache.stage # None))
    /\ UNCHANGED <<intents, intentsCache, identity, customRoles, assignments, vaults, pass, faults>>

Sync ==
    /\ intentsCache # intents /\ intentsCache' = intents /\ queued' = TRUE
    /\ UNCHANGED <<intents, labelled, identity, customRoles, assignments, vaults, pass, changes, faults>>

Resync ==
    /\ intentsCache.stage # None /\ queued' = TRUE
    /\ UNCHANGED <<intents, intentsCache, labelled, identity, customRoles, assignments, vaults,
                   pass, changes, faults>>

-----------------------------------------------------------------------------
Init ==
    /\ intents = NoIntents /\ intentsCache = NoIntents
    /\ labelled = FALSE /\ identity = FALSE
    /\ customRoles = [s \in Scopes |-> NoAccess]
    /\ assignments = {} /\ vaults = [v \in Vaults |-> NoAccess]
    /\ queued = FALSE /\ pass = Idle /\ changes = 0 /\ faults = 0

Step == \/ Begin \/ EnsureCustomRole \/ Forget(Custom) \/ EnsureNamedRoles \/ Forget("named")
        \/ EnsureVaults \/ Delete \/ Release
Credentials == CreateIdentity \/ DeleteIdentity
Users == ChangeIntents \/ ChangePods

Next == Step \/ Credentials \/ Sync \/ Resync \/ Users

-----------------------------------------------------------------------------
(* Properties.                                                             *)

TypeOK ==
    /\ intents.stage \in {None, "new", "live", "deleting"}
    /\ \A s \in Scopes : customRoles[s] \in SUBSET UNION {t.access : t \in UNION {ToSet(d) : d \in Declarations}}
    /\ \A a \in assignments : a.scope \in Scopes /\ a.kind \in {Custom, "named"}
    /\ ~identity => assignments = {}

Served == intents.stage = "live" /\ labelled /\ identity

\* In the end the identity of a client can do nothing that its ClientIntents do not
\* say: an assigned role is named for its scope, or is the custom role of a declared
\* scope with the declared actions, and vaults allow what is declared for them.
NothingElseAllowed ==
    Served =>
        LET targets == ToSet(intents.targets) IN
        /\ \A a \in assignments :
             \E t \in targets : /\ t.scope = a.scope /\ t.kind = a.kind
                                /\ IF a.kind = Custom THEN customRoles[a.scope] = t.access
                                   ELSE a.role \in t.access
        /\ \A v \in Vaults : vaults[v] = UNION {t.access : t \in {u \in targets : u.kind = "vault" /\ u.scope = v}}

=============================================================================

-------------------------- MODULE MCPolicyInstances --------------------------
(***************************************************************************)
(* Two operators on NetworkPolicies: in the exact one only the             *)
(* ClientIntents controller calls the group and it sees its own writes; in *)
(* the lagging one the Service controller calls it too, ingress and egress *)
(* are separate policies, and the NetworkPolicy informer lags.  Which one  *)
(* runs is chosen at the start.                                            *)
(***************************************************************************)
EXTENDS MCNetworkPolicies

VARIABLE exact

Lagging == INSTANCE NetworkPolicies
    WITH Callers <- {intents, services},
         Targets <- OneWay,
         SeparatePolicies <- TRUE,
         EnforcementDefault <- TRUE,
         EnforcedNamespaces <- {},
         PolicyCacheLag <- TRUE,
         MaxChanges <- 1,
         MaxFaults <- 0

ASSUME LaggingConstants ==
    OneWay \in [Services -> SUBSET Services] /\ IntentsController \in {intents, services}

either == <<exact, vars>>

EitherInit == exact \in BOOLEAN /\ IF exact THEN Init ELSE Lagging!Init

\* The step A of the exact operator (e) or of the lagging one.
By(e, A) == exact = e /\ A /\ UNCHANGED exact

EitherNext == By(TRUE, Next) \/ By(FALSE, Lagging!Next)

\* Callers keep running and informers keep up; the Service controller is called
\* again and again, at the latest when its informer resyncs.
EitherSpec ==
    /\ EitherInit /\ [][EitherNext]_either
    /\ WF_either(By(TRUE, SyncIntents))
    /\ WF_either(By(TRUE, SyncProtected))
    /\ WF_either(By(TRUE, SyncPolicies))
    /\ \A c \in Callers : WF_either(By(TRUE, Step(c)))
    /\ WF_either(By(FALSE, Lagging!SyncIntents))
    /\ WF_either(By(FALSE, Lagging!SyncProtected))
    /\ WF_either(By(FALSE, Lagging!SyncPolicies))
    /\ \A c \in {intents, services} :
          /\ WF_either(By(FALSE, Lagging!Step(c)))
          /\ WF_either(By(FALSE, Lagging!Trigger(c)))

-----------------------------------------------------------------------------
\* Both operators' states are well typed.
TypesOK == IF exact THEN TypeOK ELSE Lagging!TypeOK

\* PoliciesMatchDeclarations, which the lagging operator does not keep: two
\* callers may leave a policy that the next call heals.
MatchAtRest == exact => PoliciesMatchDeclarations

\* NeverRemovesWanted, in both: no run removes what its own snapshot calls for.
RemovalsUnwanted ==
    IF exact THEN NeverRemovesWanted ELSE Lagging!NeverRemovesWanted

\* Converges, in both: once users and faults stop, policies come to match.
PoliciesConverge == (exact => Converges) /\ (~exact => Lagging!Converges)

=============================================================================

------------------------ MODULE PolicyInstances_proofs ------------------------
(***************************************************************************)
(* What NetworkPolicies_proofs proves, of the two operators that            *)
(* MCPolicyInstances runs: the exact one, whose definitions these are, and  *)
(* the lagging one, an instance.                                           *)
(***************************************************************************)
EXTENDS MCPolicyInstances, NetworkPolicies_proofs

LaggingTheorems == INSTANCE NetworkPolicies_proofs
    WITH Callers <- {intents, services},
         Targets <- OneWay,
         SeparatePolicies <- TRUE,
         EnforcementDefault <- TRUE,
         EnforcedNamespaces <- {},
         PolicyCacheLag <- TRUE,
         MaxChanges <- 1,
         MaxFaults <- 0

-----------------------------------------------------------------------------
\* Which operator runs is never changed, and its steps are its own.
LEMMA EitherPart ==
    /\ EitherInit => (exact => Init) /\ (~exact => Lagging!Init)
    /\ [EitherNext]_either =>
         /\ (exact => exact') /\ (~exact => ~exact')
         /\ exact => [Next]_vars
         /\ ~exact => [Lagging!Next]_(Lagging!vars)
  <1>1. EitherInit => (exact => Init) /\ (~exact => Lagging!Init)
    BY DEF EitherInit
  <1>2. ASSUME EitherNext
        PROVE  /\ (exact => exact') /\ (~exact => ~exact')
               /\ exact => Next
               /\ ~exact => Lagging!Next
    BY <1>2 DEF EitherNext, By
  <1>3. ASSUME UNCHANGED either
        PROVE  UNCHANGED exact /\ UNCHANGED vars /\ UNCHANGED Lagging!vars
    BY <1>3 DEF either, vars, userVars, cacheVars, Lagging!vars, Lagging!userVars,
                Lagging!cacheVars
  <1> QED BY <1>1, <1>2, <1>3

\* The definitions of the two instances are the same.
LEMMA SameLagging ==
    /\ Lagging!Init => LaggingTheorems!Init
    /\ [Lagging!Next]_(Lagging!vars) => [LaggingTheorems!Next]_(LaggingTheorems!vars)
    /\ LaggingTheorems!TypeOK => Lagging!TypeOK
    /\ LaggingTheorems!NeverRemovesWanted => Lagging!NeverRemovesWanted
  <1>1. Lagging!Init => LaggingTheorems!Init
    BY Zenon
    DEF Lagging!Declarations, LaggingTheorems!Declarations, Lagging!Directions,
        LaggingTheorems!Directions, Lagging!Names, LaggingTheorems!Names,
        Lagging!NoPolicy, LaggingTheorems!NoPolicy, Lagging!NoPolicies,
        LaggingTheorems!NoPolicies, Lagging!Allowed, LaggingTheorems!Allowed,
        Lagging!Enforced, LaggingTheorems!Enforced, Lagging!IngressRules,
        LaggingTheorems!IngressRules, Lagging!EgressRules,
        LaggingTheorems!EgressRules, Lagging!BuiltAs, LaggingTheorems!BuiltAs,
        Lagging!CalledBy, LaggingTheorems!CalledBy, Lagging!DesiredAs,
        LaggingTheorems!DesiredAs, Lagging!NoCalls, LaggingTheorems!NoCalls,
        Lagging!Idle, LaggingTheorems!Idle, Lagging!Init, LaggingTheorems!Init
  <1>2. Lagging!Next => LaggingTheorems!Next
    BY Zenon
    DEF Lagging!userVars, LaggingTheorems!userVars, Lagging!cacheVars,
        LaggingTheorems!cacheVars, Lagging!Directions,
        LaggingTheorems!Directions, Lagging!Names, LaggingTheorems!Names,
        Lagging!NoPolicy, LaggingTheorems!NoPolicy, Lagging!NoPolicies,
        LaggingTheorems!NoPolicies, Lagging!Allowed, LaggingTheorems!Allowed,
        Lagging!Enforced, LaggingTheorems!Enforced, Lagging!IngressRules,
        LaggingTheorems!IngressRules, Lagging!EgressRules,
        LaggingTheorems!EgressRules, Lagging!BuiltAs, LaggingTheorems!BuiltAs,
        Lagging!Built, LaggingTheorems!Built, Lagging!Wants,
        LaggingTheorems!Wants, Lagging!CalledBy, LaggingTheorems!CalledBy,
        Lagging!NoCalls, LaggingTheorems!NoCalls, Lagging!Idle,
        LaggingTheorems!Idle, Lagging!Goto, LaggingTheorems!Goto, Lagging!End,
        LaggingTheorems!End, Lagging!Fault, LaggingTheorems!Fault,
        Lagging!Write, LaggingTheorems!Write, Lagging!List,
        LaggingTheorems!List, Lagging!Build, LaggingTheorems!Build,
        Lagging!HandOver, LaggingTheorems!HandOver, Lagging!ApplyService,
        LaggingTheorems!ApplyService, Lagging!NextPending,
        LaggingTheorems!NextPending, Lagging!Applied, LaggingTheorems!Applied,
        Lagging!ServiceFailed, LaggingTheorems!ServiceFailed, Lagging!Patched,
        LaggingTheorems!Patched, Lagging!UpdateExisting,
        LaggingTheorems!UpdateExisting, Lagging!ApplyNetpol,
        LaggingTheorems!ApplyNetpol, Lagging!RetryExisting,
        LaggingTheorems!RetryExisting, Lagging!ServiceFault,
        LaggingTheorems!ServiceFault, Lagging!Collect, LaggingTheorems!Collect,
        Lagging!Remove, LaggingTheorems!Remove, Lagging!Finish,
        LaggingTheorems!Finish, Lagging!RunFault, LaggingTheorems!RunFault,
        Lagging!Change, LaggingTheorems!Change, Lagging!Declare,
        LaggingTheorems!Declare, Lagging!Protect, LaggingTheorems!Protect,
        Lagging!SyncIntents, LaggingTheorems!SyncIntents, Lagging!SyncProtected,
        LaggingTheorems!SyncProtected, Lagging!SyncPolicies,
        LaggingTheorems!SyncPolicies, Lagging!Trigger, LaggingTheorems!Trigger,
        Lagging!Crash, LaggingTheorems!Crash, Lagging!Step,
        LaggingTheorems!Step, Lagging!Environment, LaggingTheorems!Environment,
        Lagging!Next, LaggingTheorems!Next
  <1>3. UNCHANGED Lagging!vars => UNCHANGED LaggingTheorems!vars
    BY Zenon DEF Lagging!userVars, LaggingTheorems!userVars, Lagging!cacheVars,
                 LaggingTheorems!cacheVars, Lagging!vars,
                 LaggingTheorems!vars
  <1>4. LaggingTheorems!TypeOK => Lagging!TypeOK
    BY Zenon DEF Lagging!Declarations, LaggingTheorems!Declarations,
                 Lagging!EffectivePolicies,
                 LaggingTheorems!EffectivePolicies, Lagging!Directions,
                 LaggingTheorems!Directions, Lagging!Names,
                 LaggingTheorems!Names, Lagging!Specs,
                 LaggingTheorems!Specs, Lagging!PCs,
                 LaggingTheorems!PCs, Lagging!Runs,
                 LaggingTheorems!Runs, Lagging!TypeOK,
                 LaggingTheorems!TypeOK
  <1>5. LaggingTheorems!NeverRemovesWanted => Lagging!NeverRemovesWanted
    BY Zenon DEF Lagging!NeverRemovesWanted, LaggingTheorems!NeverRemovesWanted
  <1> QED BY <1>1, <1>2, <1>3, <1>4, <1>5

LEMMA LaggingHolds ==
    Lagging!Init /\ [][Lagging!Next]_(Lagging!vars) =>
        []Lagging!TypeOK /\ []Lagging!NeverRemovesWanted
  <1>1. LaggingTheorems!ConstantsAssumption
    BY ConstantsAssumption, LaggingConstants DEF LaggingTheorems!ConstantsAssumption
  <1>2. LaggingTheorems!Spec =>
          []LaggingTheorems!TypeOK /\ []LaggingTheorems!NeverRemovesWanted
    BY <1>1, LaggingTheorems!HoldForConstants
  <1> QED BY <1>1, <1>2, SameLagging, PTL DEF LaggingTheorems!Spec

-----------------------------------------------------------------------------
\* Whichever operator runs, its state is well typed.
THEOREM EitherTypeCorrect == EitherSpec => []TypesOK
  <1>1. (exact => TypeOK) /\ (~exact => Lagging!TypeOK) => TypesOK
    BY DEF TypesOK
  <1> QED BY <1>1, EitherPart, LaggingHolds, TypeCorrect, PTL DEF EitherSpec, Spec

\* Whichever operator runs, with any failed calls and restarts of the exact one: no run
\* removes a policy that its own snapshot calls for (ReconcileEffectivePolicies).
THEOREM EitherRemovesUnwanted == EitherSpec => []RemovalsUnwanted
  <1>1. /\ exact => NeverRemovesWanted
        /\ ~exact => Lagging!NeverRemovesWanted
        => RemovalsUnwanted
    BY DEF RemovalsUnwanted
  <1> QED BY <1>1, EitherPart, LaggingHolds, WantedNotRemoved, PTL DEF EitherSpec, Spec

\* With nothing left to do, the exact operator has left the policies that the
\* declarations call for (GroupReconciler.Reconcile).
THEOREM ExactMatchesAtRest ==
    ASSUME Callers = {IntentsController}, ~PolicyCacheLag
    PROVE  EitherSpec => []MatchAtRest
  <1>1. (exact => PoliciesMatchDeclarations) => MatchAtRest
    BY DEF MatchAtRest
  <1>2. Spec => []PoliciesMatchDeclarations
    BY PoliciesMatchAtRest
  <1> QED BY <1>1, <1>2, EitherPart, PTL DEF EitherSpec, Spec

=============================================================================

------------------------ MODULE NetworkPolicies_proofs ------------------------
(***************************************************************************)
(* Theorems about NetworkPolicies, for any services, namespaces, naming    *)
(* mode and enforcement, and any number of changes, failed calls and       *)
(* crashes.                                                                *)
(*                                                                         *)
(* TypeCorrect and WantedNotRemoved are about any number of callers and    *)
(* informers that lag.  PoliciesMatchAtRest is about the ClientIntents     *)
(* controller alone, with an informer that has its own writes: a second    *)
(* caller, or a stale list of policies, does break it until the next run.  *)
(***************************************************************************)
EXTENDS NetworkPolicies, TLAPS

-----------------------------------------------------------------------------
(* What a run knows of its own: which policies it meant to apply, which it *)
(* has applied, and that it removes no other than those it did not apply.  *)

RunOK(r) ==
    /\ r.pc \in {"build", "apply"} => Wants(r.pending) = {}
    /\ r.pc \in {"write", "retry"} => Wants(r.pending) # {}
    /\ ~r.failed => r.wanted \subseteq r.current \cup Wants(r.pending)
    /\ r.pc = "delete" => ~r.failed /\ Wants(r.pending) = {}
                          /\ r.doomed \cap r.current = {}

RunInv == TypeOK /\ \A c \in Callers : RunOK(run[c])

-----------------------------------------------------------------------------
(* What a run that nothing calls again has done of what its caches call    *)
(* for.                                                                    *)

Meant == Desired(ciCache, psCache)

EffectivePolicy(s) ==
    [calls |-> ciCache[s], calledBy |-> CalledBy(s, ciCache)]

\* The effective policies of r, but for the services left to do, are up to date.
BuiltOK(r) ==
    /\ r.listed = ciCache /\ r.current = {}
    /\ \A s \in Services : s \notin r.todo => r.eps[s] = EffectivePolicy(s)

\* Of services that were handled, r has applied what is meant, or is to apply it.
AppliedOK(r) ==
    /\ \A s \in Services : r.eps[s] = EffectivePolicy(s)
    /\ ~r.failed =>
         \A n \in Names :
           IF n[2] \in r.todo
           THEN n \notin r.current /\ r.pending[n] = NoPolicy
           ELSE IF r.pending[n] # NoPolicy
           THEN n \notin r.current /\ r.pending[n] = Meant[n]
           ELSE /\ n \in r.current <=> Meant[n] # NoPolicy
                /\ n \in r.current => netpol[n] = Meant[n]

\* What r is about to remove is all that should not exist.
DoomedOK(r) ==
    \A n \in Names : IF n \in r.doomed THEN Meant[n] = NoPolicy
                                       ELSE netpol[n] = Meant[n]

DoneOK(r) ==
    /\ r.pc = "idle" => netpol = Meant
    /\ r.pc = "build" => BuiltOK(r)
    /\ r.pc \in {"apply", "write", "retry"} => AppliedOK(r)
    /\ r.pc = "delete" => DoomedOK(r)

MatchInv ==
    /\ npCache = netpol
    /\ queued[IntentsController] \/ DoneOK(run[IntentsController])
-----------------------------------------------------------------------------
(* The policies that effective policies call for.                          *)

\* A service's policies are well formed; those of other services are not built.
LEMMA BuiltPolicies ==
    ASSUME NEW separate \in BOOLEAN, NEW s \in Services,
           NEW ep \in EffectivePolicies, NEW prot \in SUBSET Services
    PROVE  /\ BuiltAs(separate, s, ep, prot) \in [Names -> Specs]
           /\ \A n \in Names :
                n[2] # s => BuiltAs(separate, s, ep, prot)[n] = NoPolicy
  <1>1. IngressRules(s, ep, prot) \in SUBSET Namespaces
    BY ConstantsAssumption DEF IngressRules, EffectivePolicies
  <1>2. EgressRules(s, ep) \in SUBSET Services
    BY DEF EgressRules, EffectivePolicies
  <1>3. /\ NoPolicy \in Specs
        /\ [ingress |-> IngressRules(s, ep, prot), egress |-> {}] \in Specs
        /\ [ingress |-> {}, egress |-> EgressRules(s, ep)] \in Specs
        /\ [ingress |-> IngressRules(s, ep, prot),
            egress |-> EgressRules(s, ep)] \in Specs
    BY <1>1, <1>2 DEF NoPolicy, Specs
  <1> QED BY <1>3 DEF BuiltAs

\* What declarations call for, name by name.
LEMMA DesiredPolicies ==
    ASSUME NEW separate \in BOOLEAN, NEW d \in Declarations,
           NEW prot \in SUBSET Services
    PROVE  DesiredAs(separate, d, prot) \in [Names -> Specs]
  <1>1. ASSUME NEW n \in Names
        PROVE  /\ n[2] \in Services
               /\ [calls |-> d[n[2]], calledBy |-> CalledBy(n[2], d)]
                    \in EffectivePolicies
    BY DEF Names, Declarations, CalledBy, EffectivePolicies
  <1> QED BY <1>1, BuiltPolicies DEF DesiredAs

\* No policies at all are policies too, and nobody wants them.
LEMMA NoPoliciesType == NoPolicies \in [Names -> Specs] /\ Wants(NoPolicies) = {}
  BY DEF NoPolicies, NoPolicy, Specs, Wants

-----------------------------------------------------------------------------
(* Steps of a run.                                                         *)

\* A reconciler at rest has found, built and postponed nothing.
LEMMA IdleRun ==
    /\ Idle \in Runs /\ RunOK(Idle)
    /\ Idle.pc = "idle" /\ Idle.pending = NoPolicies
    /\ Idle.wanted = {} /\ ~Idle.failed
  <1>1. /\ NoCalls \in Declarations
        /\ [s \in Services |-> [calls |-> {}, calledBy |-> {}]]
             \in [Services -> EffectivePolicies]
    BY DEF NoCalls, Declarations, EffectivePolicies
  <1>2. /\ Idle \in Runs /\ Idle.pc = "idle" /\ Idle.pending = NoPolicies
        /\ Idle.wanted = {} /\ ~Idle.failed
    BY <1>1, NoPoliciesType DEF Idle, Runs, PCs
  <1> QED BY <1>2 DEF RunOK

\* Of the policies of a service that are left to apply, one is next.
LEMMA NextIsPending ==
    ASSUME NEW r \in Runs, Wants(r.pending) # {}
    PROVE  NextPending(r) \in Wants(r.pending)
  <1>1. \E n \in Wants(r.pending) :
          n[1] = "egress" => \A m \in Wants(r.pending) : m[1] = "egress"
    OBVIOUS
  <1> QED BY <1>1 DEF NextPending

\* A policy that is in place is no longer pending, but current.
LEMMA AppliedRun ==
    ASSUME NEW r \in Runs, NEW n \in Names, RunOK(r),
           n \in Wants(r.pending), r.pc \in {"write", "retry"}
    PROVE  LET q == Applied(r, n) IN
           /\ q \in Runs /\ RunOK(q)
           /\ q.pc \in {"apply", "write"}
           /\ q.pending = [r.pending EXCEPT ![n] = NoPolicy]
           /\ q.current = r.current \cup {n}
           /\ q.eps = r.eps /\ q.todo = r.todo /\ q.failed = r.failed
  <1> DEFINE rest == [r.pending EXCEPT ![n] = NoPolicy]
             q == Applied(r, n)
  <1>1. rest \in [Names -> Specs] /\ r.pending \in [Names -> Specs]
    BY DEF Runs, NoPolicy, Specs
  <1>2. Wants(r.pending) \subseteq Wants(rest) \cup {n}
    BY <1>1 DEF Wants
  <1>3. /\ q \in Runs
        /\ q.pc = IF Wants(rest) = {} THEN "apply" ELSE "write"
        /\ q.pending = rest /\ q.current = r.current \cup {n}
        /\ q.eps = r.eps /\ q.todo = r.todo /\ q.failed = r.failed
        /\ q.wanted = r.wanted
    BY <1>1 DEF Applied, Runs, PCs
  <1>4. RunOK(q)
    BY <1>2, <1>3 DEF RunOK
  <1> QED BY <1>3, <1>4

\* A run whose service failed goes on with the next, and has failed.
LEMMA FailedRun ==
    ASSUME NEW r \in Runs
    PROVE  LET q == ServiceFailed(r) IN
           /\ q \in Runs /\ RunOK(q) /\ q.failed
           /\ q.pc = "apply" /\ q.eps = r.eps
  <1> DEFINE q == ServiceFailed(r)
  <1>1. q \in Runs /\ q.failed /\ q.pc = "apply" /\ q.pending = NoPolicies
        /\ q.eps = r.eps
    BY NoPoliciesType DEF ServiceFailed, Runs, PCs
  <1>2. RunOK(q)
    BY <1>1, NoPoliciesType DEF RunOK
  <1> QED BY <1>1, <1>2

\* A run goes on, or is over, and nothing else but the policies changes.
LEMMA RunGoesOn ==
    ASSUME RunInv, NEW c \in Callers, NEW q \in Runs, RunOK(q),
           run' = [run EXCEPT ![c] = q],
           queued' \in [Callers -> BOOLEAN],
           netpol' \in [Names -> Specs], npCache' \in [Names -> Specs],
           UNCHANGED <<userVars, cacheVars>>, faults' \in 0 .. MaxFaults
    PROVE  RunInv'
  <1>1. TypeOK'
    BY DEF RunInv, TypeOK, userVars, cacheVars
  <1>2. \A d \in Callers : RunOK(run'[d])
    BY DEF RunInv, TypeOK
  <1> QED BY <1>1, <1>2 DEF RunInv

\* The steps before a policy is written.
LEMMA BuildKept ==
    ASSUME RunInv, NEW c \in Callers,
           List(c) \/ Build(c) \/ HandOver(c) \/ ApplyService(c)
    PROVE  RunInv'
  <1> DEFINE r == run[c]
  <1>0. /\ TypeOK /\ r \in Runs /\ RunOK(r) /\ faults \in 0 .. MaxFaults
        /\ queued \in [Callers -> BOOLEAN]
        /\ netpol \in [Names -> Specs] /\ npCache \in [Names -> Specs]
        /\ ciCache \in Declarations /\ psCache \in SUBSET Services
    BY DEF RunInv, TypeOK
  <1>1. CASE List(c)
    <2> DEFINE q == [Idle EXCEPT
          !.pc = "build", !.listed = ciCache,
          !.todo = {s \in Services : ciCache[s] # {}}
                     \cup UNION {ciCache[s] : s \in Services}]
    <2>3. {s \in Services : ciCache[s] # {}}
            \cup UNION {ciCache[s] : s \in Services} \in SUBSET Services
      BY <1>0 DEF Declarations
    <2>1. /\ q \in Runs /\ q.pc = "build" /\ q.pending = NoPolicies
          /\ q.wanted = {}
      BY <1>0, <2>3, IdleRun DEF Runs, PCs
    <2>2. RunOK(q)
      BY <2>1, NoPoliciesType DEF RunOK
    <2> HIDE DEF q
    <2> QED BY <1>0, <1>1, <2>1, <2>2, RunGoesOn DEF List, q
  <1>2. CASE Build(c)
    <2>1. PICK s \in r.todo :
            Goto(c, [r EXCEPT !.todo = @ \ {s},
                              !.eps[s] = [calls |-> r.listed[s],
                                          calledBy |-> CalledBy(s, ciCache)]])
      BY <1>2 DEF Build
    <2> DEFINE q == [r EXCEPT
          !.todo = @ \ {s},
          !.eps[s] = [calls |-> r.listed[s], calledBy |-> CalledBy(s, ciCache)]]
    <2>2. /\ s \in Services /\ r.pc = "build"
          /\ [calls |-> r.listed[s], calledBy |-> CalledBy(s, ciCache)]
               \in EffectivePolicies
      BY <1>0, <1>2
         DEF Build, Runs, Declarations, EffectivePolicies, CalledBy
    <2>3. /\ q \in Runs /\ q.pc = r.pc /\ q.pending = r.pending
          /\ q.wanted = r.wanted /\ q.failed = r.failed /\ q.current = r.current
      BY <1>0, <2>2 DEF Runs
    <2>4. RunOK(q)
      BY <1>0, <2>2, <2>3 DEF RunOK
    <2> HIDE DEF q
    <2> QED BY <1>0, <1>2, <2>1, <2>3, <2>4, RunGoesOn DEF Build, Goto, q
  <1>3. CASE HandOver(c)
    <2> DEFINE q == [r EXCEPT !.pc = "apply",
                              !.todo = {s \in Services : r.eps[s] # Idle.eps[s]}]
    <2>1. /\ q \in Runs /\ q.pc = "apply" /\ q.pending = r.pending
          /\ q.wanted = r.wanted /\ q.failed = r.failed /\ q.current = r.current
      BY <1>0 DEF Runs, PCs
    <2>2. RunOK(q)
      BY <1>0, <1>3, <2>1 DEF RunOK, HandOver
    <2> HIDE DEF q
    <2> QED BY <1>0, <1>3, <2>1, <2>2, RunGoesOn DEF HandOver, Goto, q
  <1>4. CASE ApplyService(c)
    <2>1. PICK s \in r.todo :
            LET policies == Built(s, r.eps[s], psCache) IN
            Goto(c, [r EXCEPT
                       !.pc = IF Wants(policies) = {} THEN "apply" ELSE "write",
                       !.todo = @ \ {s}, !.pending = policies,
                       !.wanted = @ \cup Wants(policies)])
      BY <1>4 DEF ApplyService
    <2> DEFINE policies == Built(s, r.eps[s], psCache)
               q == [r EXCEPT
                       !.pc = IF Wants(policies) = {} THEN "apply" ELSE "write",
                       !.todo = r.todo \ {s}, !.pending = policies,
                       !.wanted = r.wanted \cup Wants(policies)]
    <2>2. /\ s \in Services /\ r.eps[s] \in EffectivePolicies /\ r.pc = "apply"
          /\ SeparatePolicies \in BOOLEAN
      BY <1>0, <1>4, ConstantsAssumption DEF Runs, ApplyService
    <2>3. policies \in [Names -> Specs] /\ Wants(policies) \subseteq Names
      BY <1>0, <2>2, BuiltPolicies DEF Built, Wants
    <2> HIDE DEF policies
    <2>4. /\ q \in Runs /\ q.pending = policies
          /\ q.pc = IF Wants(policies) = {} THEN "apply" ELSE "write"
          /\ q.wanted = r.wanted \cup Wants(policies)
          /\ q.failed = r.failed /\ q.current = r.current
      BY <1>0, <2>3 DEF Runs, PCs
    <2>5. RunOK(q)
      BY <1>0, <2>2, <2>4 DEF RunOK
    <2>6. Goto(c, q)
      BY <2>1 DEF policies
    <2> HIDE DEF q
    <2> QED BY <1>0, <1>4, <2>4, <2>5, <2>6, RunGoesOn DEF ApplyService, Goto
  <1> QED BY <1>1, <1>2, <1>3, <1>4

\* What is written is a well formed policy, whatever the caches hold.
LEMMA WriteType ==
    ASSUME RunInv, NEW c \in Callers, run[c].pc \in {"write", "retry"},
           NEW n, n = NextPending(run[c])
    PROVE  /\ n \in Wants(run[c].pending) /\ n \in Names
           /\ run[c].pending[n] \in Specs
           /\ Patched(n, run[c].pending[n]) \in Specs
  <1>1. run[c] \in Runs /\ RunOK(run[c])
    BY DEF RunInv, TypeOK
  <1>2. /\ n \in Wants(run[c].pending) /\ n \in Names
        /\ run[c].pending[n] \in Specs
    BY <1>1, NextIsPending DEF RunOK, Wants, Runs
  <1>3. netpol[n] \in Specs
    BY <1>2 DEF RunInv, TypeOK
  <1> QED BY <1>2, <1>3 DEF Patched, Specs

\* The steps that write the policies of a service.
LEMMA ApplyKept ==
    ASSUME RunInv, NEW c \in Callers,
           ApplyNetpol(c) \/ RetryExisting(c) \/ ServiceFault(c)
    PROVE  RunInv'
  <1> DEFINE r == run[c]
             n == NextPending(run[c])
  <1>0. /\ TypeOK /\ r \in Runs /\ RunOK(r) /\ r.pc \in {"write", "retry"}
        /\ queued \in [Callers -> BOOLEAN] /\ faults \in 0 .. MaxFaults
        /\ netpol \in [Names -> Specs] /\ npCache \in [Names -> Specs]
    BY DEF RunInv, TypeOK, ApplyNetpol, RetryExisting, ServiceFault
  <1>1. /\ n \in Wants(r.pending) /\ n \in Names
        /\ r.pending[n] \in Specs /\ Patched(n, r.pending[n]) \in Specs
    BY <1>0, WriteType
  <1>2. UNCHANGED <<userVars, cacheVars>>
    BY DEF ApplyNetpol, RetryExisting, ServiceFault
  <1>3. faults' \in 0 .. MaxFaults
    BY <1>0, ConstantsAssumption
       DEF ApplyNetpol, RetryExisting, ServiceFault, Fault
  <1>4. /\ netpol' \in [Names -> Specs] /\ npCache' \in [Names -> Specs]
    BY <1>0, <1>1
       DEF ApplyNetpol, RetryExisting, UpdateExisting, ServiceFault, Write
  <1>5. /\ Applied(r, n) \in Runs /\ RunOK(Applied(r, n))
        /\ ServiceFailed(r) \in Runs /\ RunOK(ServiceFailed(r))
    BY <1>0, <1>1, AppliedRun, FailedRun
  <1> DEFINE again == [r EXCEPT !.pc = "retry"]
  <1>6. again \in Runs /\ (r.pc = "write" => RunOK(again))
    BY <1>0 DEF Runs, PCs, RunOK
  <1>7. \E q \in Runs : RunOK(q) /\ Goto(c, q)
    <2>1. CASE UpdateExisting(c, n)
      BY <1>5, <2>1 DEF UpdateExisting
    <2>2. CASE Goto(c, Applied(r, n)) \/ Goto(c, ServiceFailed(r))
      BY <1>5, <2>2
    <2>3. CASE r.pc = "write" /\ Goto(c, again)
      BY <1>6, <2>3
    <2> QED
      BY <2>1, <2>2, <2>3 DEF ApplyNetpol, RetryExisting, ServiceFault
  <1> QED BY <1>0, <1>2, <1>3, <1>4, <1>7, RunGoesOn DEF Goto

\* The steps after the last service.
LEMMA RemoveKept ==
    ASSUME RunInv, NEW c \in Callers,
           Collect(c) \/ Remove(c) \/ Finish(c) \/ RunFault(c)
    PROVE  RunInv'
  <1> DEFINE r == run[c]
  <1>0. /\ TypeOK /\ r \in Runs /\ RunOK(r) /\ faults \in 0 .. MaxFaults
        /\ queued \in [Callers -> BOOLEAN]
        /\ netpol \in [Names -> Specs] /\ npCache \in [Names -> Specs]
    BY DEF RunInv, TypeOK
  <1>1. UNCHANGED <<userVars, cacheVars>> /\ faults' \in 0 .. MaxFaults
    <2>1. CASE Collect(c) \/ Remove(c) \/ Finish(c)
      BY <1>0, <2>1 DEF Collect, Remove, Finish
    <2>2. CASE RunFault(c)
      BY <1>0, <2>2, ConstantsAssumption DEF RunFault, Fault
    <2> QED BY <2>1, <2>2
  <1>2. ASSUME NEW retry \in BOOLEAN, End(c, retry), UNCHANGED <<netpol, npCache>>
        PROVE  RunInv'
    <2>1. queued' \in [Callers -> BOOLEAN]
      BY <1>0, <1>2 DEF End
    <2> QED BY <1>0, <1>1, <1>2, <2>1, IdleRun, RunGoesOn DEF End
  <1>3. CASE r.pc = "apply" /\ ~r.failed /\ Collect(c)
    <2> DEFINE q == [r EXCEPT !.pc = "delete",
                              !.doomed = Wants(npCache) \ r.current]
    <2>1. /\ q \in Runs /\ q.pc = "delete" /\ q.pending = r.pending
          /\ q.wanted = r.wanted /\ q.failed = r.failed /\ q.current = r.current
          /\ q.doomed = Wants(npCache) \ r.current
      BY <1>0 DEF Runs, PCs, Wants
    <2>2. RunOK(q)
      BY <1>0, <1>3, <2>1 DEF RunOK
    <2>3. Goto(c, q) /\ UNCHANGED <<netpol, npCache>>
      BY <1>3 DEF Collect
    <2> HIDE DEF q
    <2> QED BY <1>0, <1>1, <2>1, <2>2, <2>3, RunGoesOn DEF Goto
  <1>4. CASE Remove(c)
    <2>1. PICK n \in r.doomed :
            /\ Write([netpol EXCEPT ![n] = NoPolicy])
            /\ Goto(c, [r EXCEPT !.doomed = r.doomed \ {n}])
      BY <1>4 DEF Remove
    <2> DEFINE q == [r EXCEPT !.doomed = r.doomed \ {n}]
    <2>2. /\ q \in Runs /\ q.pc = r.pc /\ q.pending = r.pending
          /\ q.wanted = r.wanted /\ q.failed = r.failed /\ q.current = r.current
          /\ q.doomed = r.doomed \ {n}
      BY <1>0 DEF Runs
    <2>3. RunOK(q)
      BY <1>0, <2>2 DEF RunOK
    <2>4. netpol' \in [Names -> Specs] /\ npCache' \in [Names -> Specs]
      BY <1>0, <2>1 DEF Write, NoPolicy, Specs
    <2> HIDE DEF q
    <2> QED BY <1>0, <1>1, <2>1, <2>2, <2>3, <2>4, RunGoesOn DEF Goto, q
  <1> QED
    BY <1>2, <1>3, <1>4 DEF Collect, Finish, RunFault

\* The steps of users, the informers, other controllers and the process.
LEMMA EnvironmentKept ==
    ASSUME RunInv, Environment
    PROVE  RunInv'
  <1>0. TypeOK /\ IntentsController \in Callers
    BY ConstantsAssumption DEF RunInv
  <1>1. ASSUME UNCHANGED run, TypeOK'
        PROVE  RunInv'
    BY <1>1 DEF RunInv
  <1>2. CASE Declare
    <2>1. changes' \in 0 .. MaxChanges
      BY <1>0, <1>2, ConstantsAssumption DEF Declare, Change, TypeOK
    <2>2. declared' \in Declarations
      BY <1>0, <1>2, ConstantsAssumption DEF Declare, TypeOK, Declarations
    <2> QED BY <1>0, <1>1, <1>2, <2>1, <2>2 DEF Declare, TypeOK, cacheVars
  <1>3. CASE Protect
    <2>1. changes' \in 0 .. MaxChanges
      BY <1>0, <1>3, ConstantsAssumption DEF Protect, Change, TypeOK
    <2>2. protected' \subseteq Services
      BY <1>0, <1>3 DEF Protect, TypeOK
    <2> QED BY <1>0, <1>1, <1>3, <2>1, <2>2 DEF Protect, TypeOK, cacheVars
  <1>4. CASE SyncIntents
    BY <1>0, <1>1, <1>4 DEF SyncIntents, TypeOK, userVars
  <1>5. CASE SyncProtected
    <2>1. PICK yes \in BOOLEAN :
            queued' = [queued EXCEPT ![IntentsController] = @ \/ yes]
      BY <1>5 DEF SyncProtected
    <2>2. queued' \in [Callers -> BOOLEAN]
      BY <1>0, <2>1 DEF TypeOK
    <2> QED BY <1>0, <1>1, <1>5, <2>2 DEF SyncProtected, TypeOK, userVars
  <1>6. CASE SyncPolicies
    BY <1>0, <1>1, <1>6 DEF SyncPolicies, TypeOK, userVars, cacheVars
  <1>7. CASE \E c \in Callers : Trigger(c)
    BY <1>0, <1>1, <1>7 DEF Trigger, TypeOK, userVars, cacheVars
  <1>8. CASE Crash
    <2>1. faults' \in 0 .. MaxFaults
      BY <1>0, <1>8, ConstantsAssumption DEF Crash, Fault, TypeOK
    <2>2. /\ run' \in [Callers -> Runs]
          /\ \A c \in Callers : RunOK(run'[c])
      BY <1>8, IdleRun DEF Crash
    <2>3. TypeOK'
      BY <1>0, <1>8, <2>1, <2>2 DEF Crash, TypeOK, userVars
    <2> QED BY <2>2, <2>3 DEF RunInv
  <1> QED
    BY <1>2, <1>3, <1>4, <1>5, <1>6, <1>7, <1>8 DEF Environment

\* RunInv is inductive.
LEMMA RunInvariant == Spec => []RunInv
  <1>1. Init => RunInv
    <2> SUFFICES ASSUME Init PROVE RunInv
      OBVIOUS
    <2>1. PICK sep \in BOOLEAN :
            netpol = NoPolicies \/ netpol = DesiredAs(sep, declared, protected)
      BY DEF Init
    <2>2. netpol \in [Names -> Specs] /\ npCache \in [Names -> Specs]
      BY <2>1, NoPoliciesType, DesiredPolicies DEF Init
    <2>3. /\ run \in [Callers -> Runs]
          /\ \A c \in Callers : RunOK(run[c])
      BY IdleRun DEF Init
    <2>4. TypeOK
      BY <2>2, <2>3, ConstantsAssumption DEF Init, TypeOK
    <2> QED BY <2>3, <2>4 DEF RunInv
  <1>2. RunInv /\ [Next]_vars => RunInv'
    <2>1. CASE UNCHANGED vars
      BY <2>1 DEF vars, userVars, cacheVars, RunInv, TypeOK
    <2> QED
      BY <2>1, BuildKept, ApplyKept, RemoveKept, EnvironmentKept DEF Next, Step
  <1> QED BY <1>1, <1>2, PTL DEF Spec

\* Every reachable state is well typed; in particular a run that writes has a
\* policy left to write, which is the one it names next.
THEOREM TypeCorrect == Spec => []TypeOK
  <1>1. RunInv => TypeOK
    BY DEF RunInv
  <1> QED BY <1>1, RunInvariant, PTL

\* However its caches lag and whoever else runs: no run removes a policy that
\* its own snapshot calls for, not even of a service it could not handle.
THEOREM WantedNotRemoved == Spec => []NeverRemovesWanted
  <1>1. RunInv => NeverRemovesWanted
    BY DEF RunInv, RunOK, NeverRemovesWanted
  <1> QED BY <1>1, RunInvariant, PTL

\* Both, with what they take for granted, for other modules to cite.
LEMMA HoldForConstants ==
    ASSUME ConstantsAssumption
    PROVE  Spec => []TypeOK /\ []NeverRemovesWanted
  BY TypeCorrect, WantedNotRemoved, PTL

-----------------------------------------------------------------------------
(* PoliciesMatchDeclarations.  What MatchInv says of the run relates it to *)
(* the caches of declarations, not to the declarations: when a cache moves *)
(* on, so that another policy is meant, its event queues a request.        *)

\* What is meant for a service is built from its effective policy.
LEMMA MeantBuilt ==
    ASSUME TypeOK
    PROVE  /\ \A s \in Services : EffectivePolicy(s) \in EffectivePolicies
           /\ Meant \in [Names -> Specs]
           /\ \A n \in Names :
                /\ n[2] \in Services
                /\ Meant[n] = Built(n[2], EffectivePolicy(n[2]), psCache)[n]
  <1>1. SeparatePolicies \in BOOLEAN
    BY ConstantsAssumption
  <1>2. Meant \in [Names -> Specs]
    BY <1>1, DesiredPolicies DEF TypeOK, Meant, Desired
  <1>3. \A s \in Services : EffectivePolicy(s) \in EffectivePolicies
    BY DEF EffectivePolicy, EffectivePolicies, CalledBy, TypeOK, Declarations
  <1>4. \A n \in Names :
          /\ n[2] \in Services
          /\ Meant[n] = Built(n[2], EffectivePolicy(n[2]), psCache)[n]
    BY DEF Meant, Desired, DesiredAs, Built, EffectivePolicy, Names
  <1> QED BY <1>2, <1>3, <1>4

\* Of a service that neither calls nor is called, no policy is meant.
LEMMA NoneMeant ==
    ASSUME TypeOK, NEW n \in Names, EffectivePolicy(n[2]) = Idle.eps[n[2]]
    PROVE  Meant[n] = NoPolicy
  <1> DEFINE s == n[2]
             ep == EffectivePolicy(s)
  <1>1. s \in Services /\ Meant[n] = Built(s, ep, psCache)[n]
    BY MeantBuilt
  <1>2. ep.calls = {} /\ ep.calledBy = {}
    BY <1>1 DEF Idle
  <1> HIDE DEF ep
  <1>3. IngressRules(s, ep, psCache) = {} /\ EgressRules(s, ep) = {}
    BY <1>2 DEF IngressRules, EgressRules
  <1> QED BY <1>1, <1>3 DEF Built, BuiltAs, NoPolicy

\* Whom a service is protected from matters only if somebody calls it.
LEMMA UncalledAlike ==
    ASSUME NEW d \in Declarations, NEW p \in SUBSET Services,
           NEW q \in SUBSET Services,
           \A s \in (p \ q) \cup (q \ p) : CalledBy(s, d) = {}
    PROVE  Desired(d, p) = Desired(d, q)
  <1>1. ASSUME NEW s \in Services
        PROVE  LET ep == [calls |-> d[s], calledBy |-> CalledBy(s, d)] IN
               IngressRules(s, ep, p) = IngressRules(s, ep, q)
    <2> DEFINE ep == [calls |-> d[s], calledBy |-> CalledBy(s, d)]
    <2>1. CASE s \in p <=> s \in q
      BY <2>1 DEF IngressRules, Enforced
    <2>2. CASE CalledBy(s, d) = {}
      BY <2>2 DEF IngressRules
    <2> QED BY <2>1, <2>2
  <1>2. ASSUME NEW n \in Names
        PROVE  LET ep == [calls |-> d[n[2]], calledBy |-> CalledBy(n[2], d)] IN
               BuiltAs(SeparatePolicies, n[2], ep, p)
                 = BuiltAs(SeparatePolicies, n[2], ep, q)
    BY <1>1 DEF BuiltAs, Names
  <1> QED BY <1>2 DEF Desired, DesiredAs

\* The run goes on as q, with as much done as q knows of.
LEMMA DoneKept ==
    ASSUME TypeOK, NEW q, run' = [run EXCEPT ![IntentsController] = q],
           npCache' = netpol', DoneOK(q)'
    PROVE  MatchInv'
  <1>1. run'[IntentsController] = q
    BY ConstantsAssumption DEF TypeOK
  <1> QED BY <1>1 DEF MatchInv

\* What is left of a run's list keeps its meaning while the caches stay.
LEMMA SameMeaning ==
    ASSUME UNCHANGED cacheVars
    PROVE  /\ Meant' = Meant
           /\ \A s : EffectivePolicy(s)' = EffectivePolicy(s)
  BY DEF cacheVars, Meant, Desired, DesiredAs, BuiltAs, IngressRules, EgressRules,
         Enforced, Allowed, CalledBy, EffectivePolicy

\* The steps before a policy is written.
LEMMA BuildMatches ==
    ASSUME RunInv, MatchInv, NEW c, c = IntentsController,
           List(c) \/ Build(c) \/ HandOver(c) \/ ApplyService(c)
    PROVE  MatchInv'
  <1> DEFINE r == run[c]
  <1>0. /\ TypeOK /\ c \in Callers /\ r \in Runs /\ RunOK(r)
        /\ ciCache \in Declarations /\ queued \in [Callers -> BOOLEAN]
    BY ConstantsAssumption DEF RunInv, TypeOK
  <1>1. /\ UNCHANGED <<cacheVars, netpol, npCache>> /\ npCache' = netpol'
        /\ ciCache' = ciCache
    BY DEF List, Build, HandOver, ApplyService, MatchInv, cacheVars
  <1>2. Meant' = Meant /\ \A s : EffectivePolicy(s)' = EffectivePolicy(s)
    BY <1>1, SameMeaning
  <1>3. CASE List(c)
    <2>1. PICK q : q = [Idle EXCEPT
            !.pc = "build", !.listed = ciCache,
            !.todo = {s \in Services : ciCache[s] # {}}
                       \cup UNION {ciCache[s] : s \in Services}]
      OBVIOUS
    <2>2. /\ q.pc = "build" /\ q.listed = ciCache /\ q.eps = Idle.eps
          /\ q.current = {}
          /\ q.todo = {s \in Services : ciCache[s] # {}}
                        \cup UNION {ciCache[s] : s \in Services}
      BY <2>1 DEF Idle
    <2>3. ASSUME NEW s \in Services, s \notin q.todo
          PROVE  q.eps[s] = EffectivePolicy(s)
      BY <2>2, <2>3 DEF Idle, EffectivePolicy, CalledBy
    <2>4. DoneOK(q)'
      BY <1>1, <1>2, <2>2, <2>3 DEF DoneOK, BuiltOK
    <2> QED BY <1>0, <1>1, <1>3, <2>1, <2>4, DoneKept DEF List
  <1>4. ASSUME ~queued[c]
        PROVE  DoneOK(r)
    BY <1>4 DEF MatchInv
  <1>5. ASSUME queued[c], UNCHANGED queued
        PROVE  MatchInv'
    BY <1>1, <1>5 DEF MatchInv
  <1>6. CASE ~queued[c] /\ Build(c)
    <2>1. PICK s \in r.todo :
            Goto(c, [r EXCEPT !.todo = @ \ {s},
                              !.eps[s] = [calls |-> r.listed[s],
                                          calledBy |-> CalledBy(s, ciCache)]])
      BY <1>6 DEF Build
    <2>2. PICK q : q = [r EXCEPT
            !.todo = r.todo \ {s},
            !.eps = [r.eps EXCEPT ![s] =
                       [calls |-> r.listed[s],
                        calledBy |-> CalledBy(s, ciCache)]]]
      OBVIOUS
    <2>3. r.pc = "build" /\ BuiltOK(r)
      BY <1>4, <1>6 DEF Build, DoneOK
    <2>4. /\ q.pc = "build" /\ q.todo = r.todo \ {s} /\ q.listed = r.listed
          /\ q.current = r.current
          /\ q.eps = [r.eps EXCEPT ![s] = EffectivePolicy(s)]
      BY <1>0, <2>2, <2>3 DEF Runs, BuiltOK, EffectivePolicy
    <2>5. r.eps \in [Services -> EffectivePolicies] /\ s \in Services
      BY <1>0 DEF Runs
    <2>6. DoneOK(q)'
      BY <1>1, <1>2, <2>3, <2>4, <2>5 DEF DoneOK, BuiltOK
    <2>7. Goto(c, q)
      BY <2>1, <2>2
    <2> QED BY <1>0, <1>1, <2>6, <2>7, DoneKept DEF Goto
  <1>7. CASE ~queued[c] /\ HandOver(c)
    <2>1. PICK q : q = [r EXCEPT
            !.pc = "apply", !.todo = {s \in Services : r.eps[s] # Idle.eps[s]}]
      OBVIOUS
    <2>2. r.pc = "build" /\ r.todo = {} /\ BuiltOK(r) /\ Wants(r.pending) = {}
      BY <1>0, <1>4, <1>7 DEF HandOver, DoneOK, RunOK
    <2>3. /\ q.pc = "apply" /\ q.eps = r.eps /\ q.current = {}
          /\ q.pending = r.pending
          /\ q.todo = {s \in Services : r.eps[s] # Idle.eps[s]}
      BY <1>0, <2>1, <2>2 DEF Runs, BuiltOK
    <2>4. \A s \in Services : q.eps[s] = EffectivePolicy(s)
      BY <2>2, <2>3 DEF BuiltOK
    <2>5. ASSUME NEW n \in Names
          PROVE  /\ n \notin q.current /\ q.pending[n] = NoPolicy
                 /\ n[2] \notin q.todo => Meant[n] = NoPolicy
      BY <1>0, <2>2, <2>3, <2>4, <2>5, MeantBuilt, NoneMeant DEF Wants
    <2>6. DoneOK(q)'
      BY <1>1, <1>2, <2>3, <2>4, <2>5 DEF DoneOK, AppliedOK
    <2> QED BY <1>0, <1>1, <1>7, <2>1, <2>6, DoneKept DEF HandOver, Goto
  <1>8. CASE ~queued[c] /\ ApplyService(c)
    <2>1. PICK s \in r.todo :
            LET policies == Built(s, r.eps[s], psCache) IN
            Goto(c, [r EXCEPT
                       !.pc = IF Wants(policies) = {} THEN "apply" ELSE "write",
                       !.todo = @ \ {s}, !.pending = policies,
                       !.wanted = @ \cup Wants(policies)])
      BY <1>8 DEF ApplyService
    <2>2. PICK policies : policies = Built(s, r.eps[s], psCache)
      OBVIOUS
    <2>3. PICK q : q = [r EXCEPT
            !.pc = IF Wants(policies) = {} THEN "apply" ELSE "write",
            !.todo = r.todo \ {s}, !.pending = policies,
            !.wanted = r.wanted \cup Wants(policies)]
      OBVIOUS
    <2>4. /\ r.pc = "apply" /\ AppliedOK(r) /\ s \in Services
          /\ \A n \in Names : r.pending[n] = NoPolicy
      BY <1>0, <1>4, <1>8 DEF ApplyService, DoneOK, RunOK, Runs, Wants
    <2>5. ASSUME NEW n \in Names
          PROVE  policies[n] = IF n[2] = s THEN Meant[n] ELSE NoPolicy
      <3>1. r.eps[s] = EffectivePolicy(s)
        BY <2>4 DEF AppliedOK
      <3>2. psCache \in SUBSET Services /\ SeparatePolicies \in BOOLEAN
        BY <1>0, ConstantsAssumption DEF TypeOK
      <3> QED BY <1>0, <2>2, <2>4, <3>1, <3>2, BuiltPolicies, MeantBuilt DEF Built
    <2>6. /\ q.pc \in {"apply", "write"} /\ q.pending = policies
          /\ q.todo = r.todo \ {s} /\ q.eps = r.eps
          /\ q.current = r.current /\ q.failed = r.failed
      BY <1>0, <2>3 DEF Runs
    <2>7. AppliedOK(q)'
      BY <1>1, <1>2, <2>4, <2>5, <2>6 DEF AppliedOK
    <2>8. DoneOK(q)'
      BY <2>6, <2>7 DEF DoneOK
    <2>9. Goto(c, q)
      BY <2>1, <2>2, <2>3
    <2> QED BY <1>0, <1>1, <2>8, <2>9, DoneKept DEF Goto
  <1> QED
    BY <1>3, <1>5, <1>6, <1>7, <1>8 DEF Build, HandOver, ApplyService, Goto

\* The run puts policy n, as it is meant, in place.
LEMMA PutMatches ==
    ASSUME RunInv, MatchInv, NEW c, c = IntentsController, ~queued[c],
           NEW n, n = NextPending(run[c]), run[c].pc \in {"write", "retry"},
           netpol' \in {netpol, [netpol EXCEPT ![n] = run[c].pending[n]]},
           netpol'[n] = run[c].pending[n], npCache' = netpol',
           UNCHANGED cacheVars, Goto(c, Applied(run[c], n))
    PROVE  MatchInv'
  <1> DEFINE r == run[c]
  <1>0. /\ TypeOK /\ c \in Callers /\ r \in Runs /\ RunOK(r) /\ AppliedOK(r)
        /\ netpol \in [Names -> Specs]
    BY ConstantsAssumption DEF RunInv, TypeOK, MatchInv, DoneOK
  <1>1. n \in Names /\ n \in Wants(r.pending)
    BY <1>0, WriteType DEF RunInv, TypeOK
  <1>2. PICK q : q = Applied(r, n)
    OBVIOUS
  <1>3. /\ q.pc \in {"apply", "write"}
        /\ q.pending = [r.pending EXCEPT ![n] = NoPolicy]
        /\ q.current = r.current \cup {n}
        /\ q.eps = r.eps /\ q.todo = r.todo /\ q.failed = r.failed
    BY <1>0, <1>1, <1>2, AppliedRun
  <1>4. Meant' = Meant /\ \A s : EffectivePolicy(s)' = EffectivePolicy(s)
    BY SameMeaning
  <1>5. r.pending \in [Names -> Specs]
    BY <1>0 DEF Runs
  <1>6. ASSUME ~r.failed
        PROVE  \A m \in Names :
                 IF m[2] \in q.todo
                 THEN m \notin q.current /\ q.pending[m] = NoPolicy
                 ELSE IF q.pending[m] # NoPolicy
                 THEN m \notin q.current /\ q.pending[m] = Meant[m]
                 ELSE /\ m \in q.current <=> Meant[m] # NoPolicy
                      /\ m \in q.current => netpol'[m] = Meant[m]
    <2>1. n[2] \notin r.todo /\ r.pending[n] = Meant[n] /\ Meant[n] # NoPolicy
      BY <1>0, <1>1, <1>6 DEF AppliedOK, Wants
    <2> TAKE m \in Names
    <2>2. CASE m = n
      BY <1>1, <1>3, <1>5, <2>1, <2>2
    <2>3. CASE m # n
      <3>1. /\ netpol'[m] = netpol[m] /\ q.pending[m] = r.pending[m]
            /\ m \in q.current <=> m \in r.current
        BY <1>0, <1>3, <1>5, <2>3
      <3> QED BY <1>0, <1>3, <1>6, <3>1 DEF AppliedOK
    <2> QED BY <2>2, <2>3
  <1>7. DoneOK(q)'
    BY <1>0, <1>3, <1>4, <1>6 DEF DoneOK, AppliedOK
  <1> QED BY <1>0, <1>2, <1>7, DoneKept DEF Goto

\* The steps that write the policies of a service.
LEMMA ApplyMatches ==
    ASSUME ~PolicyCacheLag, RunInv, MatchInv, NEW c, c = IntentsController,
           ApplyNetpol(c) \/ RetryExisting(c) \/ ServiceFault(c)
    PROVE  MatchInv'
  <1> DEFINE r == run[c]
             n == NextPending(r)
  <1>0. /\ TypeOK /\ c \in Callers /\ r \in Runs /\ RunOK(r)
        /\ r.pc \in {"write", "retry"} /\ npCache = netpol
        /\ netpol \in [Names -> Specs]
    BY ConstantsAssumption
       DEF RunInv, TypeOK, MatchInv, ApplyNetpol, RetryExisting, ServiceFault
  <1>1. UNCHANGED cacheVars /\ npCache' = netpol'
    BY <1>0 DEF ApplyNetpol, RetryExisting, ServiceFault, UpdateExisting, Write
  <1>2. queued' = queued
    BY DEF ApplyNetpol, RetryExisting, ServiceFault, UpdateExisting, Goto
  <1>3. CASE queued[c]
    BY <1>1, <1>2, <1>3 DEF MatchInv
  <1>4. CASE ~queued[c]
    <2>1. AppliedOK(r)
      BY <1>0, <1>4 DEF MatchInv, DoneOK
    <2>2. Meant' = Meant /\ \A s : EffectivePolicy(s)' = EffectivePolicy(s)
      BY <1>1, SameMeaning
    <2>3. n \in Names /\ r.pending[n] \in Specs
      BY <1>0, WriteType
    <2>4. CASE Goto(c, ServiceFailed(r))
      <3>1. PICK q : q = ServiceFailed(r)
        OBVIOUS
      <3>2. q.failed /\ q.pc = "apply" /\ q.eps = r.eps
        BY <1>0, <3>1, FailedRun
      <3>3. DoneOK(q)'
        BY <2>1, <2>2, <3>2 DEF DoneOK, AppliedOK
      <3> QED BY <1>0, <1>1, <2>4, <3>1, <3>3, DoneKept DEF Goto
    <2>5. CASE /\ Goto(c, [r EXCEPT !.pc = "retry"])
               /\ UNCHANGED netpol
      <3>1. PICK q : q = [r EXCEPT !.pc = "retry"]
        OBVIOUS
      <3>2. /\ q.pc = "retry" /\ q.failed = r.failed /\ q.eps = r.eps
            /\ q.todo = r.todo /\ q.pending = r.pending /\ q.current = r.current
        BY <1>0, <3>1 DEF Runs
      <3>3. DoneOK(q)'
        BY <2>1, <2>2, <2>5, <3>2 DEF DoneOK, AppliedOK
      <3> QED BY <1>0, <1>1, <2>5, <3>1, <3>3, DoneKept DEF Goto
    <2>6. CASE Goto(c, Applied(r, n)) /\ UpdateExisting(c, n)
      <3>1. Patched(n, r.pending[n]) = r.pending[n]
        BY <1>0, <2>3 DEF Patched, Specs
      <3>2. CASE npCache[n] = r.pending[n] /\ UNCHANGED netpol
        BY <1>0, <1>1, <1>4, <2>6, <3>2, PutMatches
      <3>3. CASE Write([netpol EXCEPT ![n] = Patched(n, r.pending[n])])
        <4>1. netpol' = [netpol EXCEPT ![n] = r.pending[n]]
          BY <3>1, <3>3 DEF Write
        <4>2. netpol'[n] = r.pending[n]
          BY <1>0, <2>3, <4>1
        <4> QED BY <1>0, <1>1, <1>4, <2>6, <4>1, <4>2, PutMatches
      <3>4. CASE Goto(c, ServiceFailed(r))
        BY <2>4, <3>4
      <3> QED BY <2>6, <3>2, <3>3, <3>4 DEF UpdateExisting
    <2>7. CASE /\ Goto(c, Applied(r, n))
               /\ Write([netpol EXCEPT ![n] = r.pending[n]])
      <3>1. netpol' = [netpol EXCEPT ![n] = r.pending[n]]
        BY <2>7 DEF Write
      <3>2. netpol'[n] = r.pending[n]
        BY <1>0, <2>3, <3>1
      <3> QED BY <1>0, <1>1, <1>4, <2>7, <3>1, <3>2, PutMatches
    <2>8. UpdateExisting(c, n) =>
            \/ Goto(c, ServiceFailed(r))
            \/ Goto(c, Applied(r, n)) /\ UpdateExisting(c, n)
      BY DEF UpdateExisting
    <2> QED
      BY <2>4, <2>5, <2>6, <2>7, <2>8 DEF ApplyNetpol, RetryExisting, ServiceFault
  <1> QED BY <1>3, <1>4

\* The steps after the last service.
LEMMA RemoveMatches ==
    ASSUME ~PolicyCacheLag, RunInv, MatchInv, NEW c, c = IntentsController,
           Collect(c) \/ Remove(c) \/ Finish(c) \/ RunFault(c)
    PROVE  MatchInv'
  <1> DEFINE r == run[c]
  <1>0. /\ TypeOK /\ c \in Callers /\ r \in Runs /\ RunOK(r)
        /\ npCache = netpol /\ netpol \in [Names -> Specs]
        /\ queued \in [Callers -> BOOLEAN] /\ Meant \in [Names -> Specs]
    BY ConstantsAssumption, MeantBuilt DEF RunInv, TypeOK, MatchInv
  <1>1. UNCHANGED cacheVars /\ npCache' = netpol'
    BY <1>0 DEF Collect, Remove, Finish, RunFault, Write
  <1>2. Meant' = Meant
    BY <1>1, SameMeaning
  <1>3. CASE End(c, TRUE)
    <2>1. queued'[c] = TRUE
      BY <1>0, <1>3 DEF End
    <2> QED BY <1>1, <2>1 DEF MatchInv
  <1>4. CASE queued[c] /\ queued' = queued
    BY <1>1, <1>4 DEF MatchInv
  <1>5. CASE ~queued[c] /\ ~End(c, TRUE) /\ Collect(c)
    <2>1. PICK q : q = [r EXCEPT !.pc = "delete",
                                 !.doomed = Wants(npCache) \ r.current]
      OBVIOUS
    <2>2. /\ ~r.failed /\ r.todo = {} /\ Goto(c, q) /\ netpol' = netpol
          /\ AppliedOK(r) /\ \A n \in Names : r.pending[n] = NoPolicy
      BY <1>0, <1>5, <2>1 DEF Collect, MatchInv, DoneOK, RunOK, Wants
    <2>3. q.pc = "delete" /\ q.doomed = Wants(netpol) \ r.current
      BY <1>0, <2>1 DEF Runs
    <2>4. ASSUME NEW n \in Names
          PROVE  IF n \in q.doomed THEN Meant[n] = NoPolicy
                                   ELSE netpol[n] = Meant[n]
      BY <2>2, <2>3 DEF AppliedOK, Wants
    <2>5. DoneOK(q)'
      BY <1>2, <2>2, <2>3, <2>4 DEF DoneOK, DoomedOK
    <2> QED BY <1>0, <1>1, <2>2, <2>5, DoneKept DEF Goto
  <1>6. CASE ~queued[c] /\ Remove(c)
    <2>1. PICK n \in r.doomed :
            /\ Write([netpol EXCEPT ![n] = NoPolicy])
            /\ Goto(c, [r EXCEPT !.doomed = r.doomed \ {n}])
      BY <1>6 DEF Remove
    <2>2. PICK q : q = [r EXCEPT !.doomed = r.doomed \ {n}]
      OBVIOUS
    <2>3. /\ q.pc = "delete" /\ q.doomed = r.doomed \ {n} /\ n \in Names
          /\ DoomedOK(r)
      BY <1>0, <1>6, <2>2 DEF Remove, Runs, MatchInv, DoneOK
    <2>4. netpol' = [netpol EXCEPT ![n] = NoPolicy]
      BY <2>1 DEF Write
    <2>5. ASSUME NEW m \in Names
          PROVE  IF m \in q.doomed THEN Meant[m] = NoPolicy
                                   ELSE netpol'[m] = Meant[m]
      BY <1>0, <2>3, <2>4 DEF DoomedOK
    <2>6. DoneOK(q)'
      BY <1>2, <2>3, <2>5 DEF DoneOK, DoomedOK
    <2> QED BY <1>0, <1>1, <2>1, <2>2, <2>6, DoneKept DEF Goto
  <1>7. CASE ~queued[c] /\ Finish(c)
    <2>1. \A n \in Names : netpol[n] = Meant[n]
      BY <1>7 DEF Finish, MatchInv, DoneOK, DoomedOK
    <2>2. netpol' = netpol /\ netpol = Meant
      BY <1>0, <1>7, <2>1 DEF Finish
    <2>3. PICK q : q = Idle
      OBVIOUS
    <2>4. DoneOK(q)'
      BY <1>2, <2>2, <2>3, IdleRun DEF DoneOK
    <2> QED BY <1>0, <1>1, <1>7, <2>3, <2>4, DoneKept DEF Finish, End
  <1>8. CASE queued[c] /\ Finish(c)
    <2>1. queued'[c] = TRUE
      BY <1>0, <1>8 DEF Finish, End
    <2> QED BY <1>1, <2>1 DEF MatchInv
  <1> QED
    BY <1>3, <1>4, <1>5, <1>6, <1>7, <1>8 DEF Collect, Remove, RunFault, Goto

\* What others do: what changes the meaning of the caches queues a request.
LEMMA EnvironmentMatches ==
    ASSUME Callers = {IntentsController}, RunInv, MatchInv, Environment
    PROVE  MatchInv'
  <1> DEFINE c == IntentsController
  <1>0. /\ TypeOK /\ c \in Callers /\ npCache = netpol
        /\ queued \in [Callers -> BOOLEAN]
        /\ ciCache \in Declarations /\ psCache \in SUBSET Services
        /\ protected \in SUBSET Services
    BY ConstantsAssumption DEF RunInv, TypeOK, MatchInv
  <1>1. ASSUME npCache' = netpol', queued'[c]
        PROVE  MatchInv'
    BY <1>1 DEF MatchInv
  <1>2. ASSUME UNCHANGED <<netpol, npCache, run, ciCache>>, Meant' = Meant,
               queued[c] => queued'[c]
        PROVE  MatchInv'
    <2>1. \A s : EffectivePolicy(s)' = EffectivePolicy(s)
      BY <1>2 DEF EffectivePolicy, CalledBy
    <2>2. ASSUME DoneOK(run[c])
          PROVE  DoneOK(run[c])'
      BY <1>2, <2>1, <2>2 DEF DoneOK, BuiltOK, AppliedOK, DoomedOK
    <2> QED BY <1>2, <2>2 DEF MatchInv
  <1>3. CASE Declare \/ Protect
    <2>1. UNCHANGED cacheVars
      BY <1>3 DEF Declare, Protect
    <2>2. Meant' = Meant
      BY <2>1, SameMeaning
    <2> QED BY <1>2, <1>3, <2>1, <2>2 DEF Declare, Protect, cacheVars
  <1>4. CASE SyncIntents
    <2>1. queued'[c] = TRUE
      BY <1>0, <1>4 DEF SyncIntents
    <2> QED BY <1>0, <1>1, <1>4, <2>1 DEF SyncIntents
  <1>5. CASE SyncProtected
    <2> DEFINE changed == (psCache \ protected) \cup (protected \ psCache)
    <2>1. CASE \E s \in changed : CalledBy(s, ciCache) # {}
      <3>1. queued'[c] = TRUE
        BY <1>0, <1>5, <2>1 DEF SyncProtected
      <3> QED BY <1>0, <1>1, <1>5, <3>1 DEF SyncProtected
    <2>2. CASE ~\E s \in changed : CalledBy(s, ciCache) # {}
      <3>1. Desired(ciCache, psCache) = Desired(ciCache, protected)
        BY <1>0, <2>2, UncalledAlike
      <3>2. psCache' = protected /\ ciCache' = ciCache
        BY <1>5 DEF SyncProtected
      <3>3. Meant' = Desired(ciCache, protected)
        BY <3>2 DEF Meant, Desired, DesiredAs, BuiltAs, IngressRules,
                    EgressRules, Enforced, Allowed, CalledBy
      <3>4. queued[c] => queued'[c]
        BY <1>0, <1>5 DEF SyncProtected
      <3> QED BY <1>2, <1>5, <3>1, <3>3, <3>4 DEF SyncProtected, Meant
    <2> QED BY <2>1, <2>2
  <1>6. CASE SyncPolicies
    BY <1>0, <1>6 DEF SyncPolicies
  <1>7. CASE \E d \in Callers : Trigger(d)
    BY <1>7 DEF Trigger
  <1>8. CASE Crash
    <2>1. queued'[c] = TRUE /\ npCache' = netpol'
      BY <1>0, <1>8 DEF Crash
    <2> QED BY <1>1, <2>1
  <1> QED
    BY <1>3, <1>4, <1>5, <1>6, <1>7, <1>8 DEF Environment

\* With the ClientIntents controller alone, and an informer that has its own
\* writes: whatever failed or changed meanwhile, at rest the access policies are
\* those the declarations call for, and no other.
THEOREM PoliciesMatchAtRest ==
    ASSUME Callers = {IntentsController}, ~PolicyCacheLag
    PROVE  Spec => []PoliciesMatchDeclarations
  <1>1. Init => MatchInv
    BY ConstantsAssumption DEF Init, MatchInv
  <1>2. RunInv /\ MatchInv /\ [Next]_vars => MatchInv'
    <2>1. CASE UNCHANGED vars
      <3>1. UNCHANGED cacheVars
        BY <2>1 DEF vars
      <3>2. Meant' = Meant /\ \A s : EffectivePolicy(s)' = EffectivePolicy(s)
        BY <3>1, SameMeaning
      <3> QED
        BY <2>1, <3>2 DEF vars, cacheVars, MatchInv, DoneOK, BuiltOK, AppliedOK,
                          DoomedOK
    <2> QED
      BY <2>1, BuildMatches, ApplyMatches, RemoveMatches, EnvironmentMatches
         DEF Next, Step
  <1>3. MatchInv => PoliciesMatchDeclarations
    BY ConstantsAssumption, IdleRun
       DEF MatchInv, DoneOK, PoliciesMatchDeclarations, AtRest, Meant
  <1> QED BY <1>1, <1>2, <1>3, RunInvariant, PTL DEF Spec

=============================================================================

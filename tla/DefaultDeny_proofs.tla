-------------------------- MODULE DefaultDeny_proofs --------------------------
(***************************************************************************)
(* Theorems about DefaultDeny, for any ProtectedServices and any number of *)
(* changes, failed calls and restarts.                                     *)
(*                                                                         *)
(* What TypeCorrect states needs no assumption.  The other theorems are    *)
(* about servers declared by name alone, which is what makes the label of  *)
(* a policy that of its server, and users who do not declare again what    *)
(* they deleted: a deletion is then final, and a list that misses a server *)
(* it has a policy of is one the server was deleted before.                *)
(***************************************************************************)
EXTENDS DefaultDeny, TLAPS

-----------------------------------------------------------------------------
(* Types.                                                                  *)

\* A run of the controller is for a ProtectedService.
TypeInv ==
    /\ TypeOK
    /\ run["controller"].pc # "idle" => run["controller"].for \in ProtectedServices

PCs == {"idle", "list", "existing", "create", "finish"}

\* The run that is none is a run.
LEMMA IdleType == Idle \in Runs /\ Idle.pc = "idle"
  BY DEF Idle, Runs

\* What a run has found and what it wants are servers that may be protected.
LEMMA RunFields ==
    ASSUME NEW r \in Runs
    PROVE  /\ r.pc \in PCs /\ r.for \in ProtectedServices \cup {NoOne}
           /\ r.wanted \subseteq ProtectedServices
           /\ r.existing \subseteq ProtectedServices
           /\ r.raced \subseteq ProtectedServices
  BY DEF Runs, PCs

\* The runs q and r differ at most in the copies that are out of date.
Alike(q, r) ==
    /\ q.pc = r.pc /\ q.for = r.for /\ q.wanted = r.wanted
    /\ q.existing = r.existing /\ q.finalize = r.finalize

\* A write of a policy is seen by the other runs in their listed copies only.
LEMMA WriteRuns ==
    ASSUME run \in [Handlers -> Runs], NEW h \in Handlers,
           NEW s \in ProtectedServices, NEW policy, NEW r \in Runs,
           WritePolicy(h, s, policy, r)
    PROVE  /\ run' \in [Handlers -> Runs]
           /\ Alike(run'[h], r)
           /\ \A g \in Handlers \ {h} : Alike(run'[g], run[g])
  <1>1. ASSUME NEW g \in Handlers
        PROVE  /\ run'[g] \in Runs
               /\ Alike(run'[g], IF g = h THEN r ELSE run[g])
    <2> DEFINE next == IF g = h THEN r ELSE run[g]
    <2>1. next \in Runs
      OBVIOUS
    <2>2. [next EXCEPT !.raced = next.raced \cup {s}] \in Runs
      BY <2>1 DEF Runs
    <2>3. Alike([next EXCEPT !.raced = next.raced \cup {s}], next)
      BY <2>1 DEF Runs, Alike
    <2>4. run'[g] = next \/ run'[g] = [next EXCEPT !.raced = next.raced \cup {s}]
      BY DEF WritePolicy
    <2> QED BY <2>1, <2>2, <2>3, <2>4 DEF Alike
  <1>2. run' \in [Handlers -> Runs]
    BY <1>1 DEF WritePolicy
  <1> QED BY <1>1, <1>2

\* A failed run leaves well typed requests behind.
LEMMA RetryType ==
    ASSUME TypeInv, NEW h \in Handlers, run[h].pc # "idle", Retry(h)
    PROVE  /\ run' \in [Handlers -> Runs] /\ run'[h] = Idle
           /\ \A g \in Handlers \ {h} : run'[g] = run[g]
           /\ queue' \subseteq ProtectedServices /\ watching' \in BOOLEAN
           /\ queue \subseteq queue'
           /\ h = "controller" => run[h].for \in queue'
  BY IdleType DEF Retry, TypeInv, TypeOK, Handlers

\* The stored ProtectedServices stay well typed.
LEMMA StoreProtectedType ==
    ASSUME TypeOK, NEW s \in ProtectedServices, NEW stage \in Stages,
           StoreProtected(s, stage)
    PROVE  /\ protected' \in [ProtectedServices -> Stages]
           /\ protectedEvents' \subseteq ProtectedServices
           /\ protected'[s] = stage
           /\ \A t \in ProtectedServices \ {s} : protected'[t] = protected[t]
           /\ protectedEvents \subseteq protectedEvents'
           /\ protected[s] # stage => s \in protectedEvents'
  BY DEF StoreProtected, TypeOK

\* What starting a run of the group does.
LEMMA BeginGroupType ==
    ASSUME TypeInv, BeginGroup
    PROVE  TypeInv'
  <1>1. PICK s \in queue :
          /\ queue' \in {queue, queue \ {s}}
          /\ \/ run' = run
             \/ run' = [run EXCEPT !["controller"] =
                          [Idle EXCEPT !.pc = "list", !.for = s,
                              !.finalize = protectedCache[s] = "deleting"]]
          /\ \/ UNCHANGED <<protected, protectedEvents>>
             \/ StoreProtected(s, "live")
    BY DEF BeginGroup
  <1>2. s \in ProtectedServices /\ queue' \subseteq ProtectedServices
    BY <1>1 DEF TypeInv, TypeOK
  <1> DEFINE r == [Idle EXCEPT !.pc = "list", !.for = s,
                               !.finalize = protectedCache[s] = "deleting"]
  <1>3. r \in Runs /\ r.for = s
    BY <1>2 DEF Idle, Runs
  <1>4. /\ run' \in [Handlers -> Runs]
        /\ run'["controller"].pc # "idle"
             => run'["controller"].for \in ProtectedServices
    BY <1>1, <1>2, <1>3 DEF TypeInv, TypeOK, Handlers
  <1>5. /\ protected' \in [ProtectedServices -> Stages]
        /\ protectedEvents' \subseteq ProtectedServices
    BY <1>1, <1>2, StoreProtectedType DEF TypeInv, TypeOK, Stages
  <1>6. UNCHANGED <<protectedCache, services, deny, denyCache, denyEvents,
                    watching, declared, changes, faults>>
    BY DEF BeginGroup, denyVars
  <1> QED BY <1>2, <1>4, <1>5, <1>6 DEF TypeInv, TypeOK

\* Every step of a run keeps the state well typed.
LEMMA RunType ==
    ASSUME TypeInv, NEW h \in Handlers, Step(h) \/ RunFault(h)
    PROVE  TypeInv'
  <1> DEFINE r == run[h]
  <1>0. /\ TypeOK /\ r \in Runs /\ "controller" \in Handlers
        /\ run \in [Handlers -> Runs]
    BY DEF TypeInv, TypeOK, Handlers
  <1>1. CASE BeginGroup
    BY <1>1, BeginGroupType
  <1>2. CASE FinishGroup
    <2> DEFINE c == run["controller"]
    <2>1. c.for \in ProtectedServices
      BY <1>2 DEF FinishGroup, TypeInv
    <2>2. /\ protected' \in [ProtectedServices -> Stages]
          /\ protectedEvents' \subseteq ProtectedServices
      BY <1>0, <1>2, <2>1, StoreProtectedType DEF FinishGroup, TypeOK, Stages
    <2>3. run' \in [Handlers -> Runs] /\ run'["controller"] = Idle
      BY <1>0, <1>2, IdleType DEF FinishGroup
    <2>4. UNCHANGED <<protectedCache, services, deny, denyCache, denyEvents,
                      queue, watching, declared, changes, faults>>
      BY <1>2 DEF FinishGroup, denyVars
    <2> QED BY <2>2, <2>3, <2>4, IdleType DEF TypeInv, TypeOK
  <1>3. ASSUME NEW q \in Runs, Goto(h, q),
               h = "controller" /\ q.pc # "idle" => q.for \in ProtectedServices,
               UNCHANGED <<protectedVars, queue, declared, changes, faults>>,
               watching' \in BOOLEAN
        PROVE  TypeInv'
    <2>1. run' \in [Handlers -> Runs] /\ run'[h] = q
          /\ \A g \in Handlers \ {h} : run'[g] = run[g]
      BY <1>0, <1>3 DEF Goto
    <2>2. UNCHANGED <<protected, protectedCache, protectedEvents, services, deny,
                      denyCache, denyEvents, queue, declared, changes, faults>>
      BY <1>3 DEF Goto, protectedVars, denyVars
    <2> QED BY <1>0, <1>3, <2>1, <2>2 DEF TypeInv, TypeOK
  <1>4. CASE BeginWatcher /\ h = "watcher"
    <2> DEFINE q == [Idle EXCEPT !.pc = "list"]
    <2>1. q \in Runs
      BY DEF Idle, Runs
    <2> QED BY <1>3, <1>4, <2>1 DEF BeginWatcher, Goto
  <1>5. CASE ListProtected(h)
    <2> DEFINE q == [r EXCEPT
         !.pc = "existing",
         !.wanted = {s \in ProtectedServices :
                       /\ protectedCache[s] \in {"new", "live"}
                       /\ s[2] = "Service" => s[1] \in services},
         !.existing = {s \in ProtectedServices : denyCache[s] # NoPolicy},
         !.raced = denyEvents]
    <2>1. q \in Runs /\ q.for = r.for
      BY <1>0 DEF Runs, TypeOK
    <2>2. r.pc = "list" /\ watching' = watching
      BY <1>5 DEF ListProtected
    <2> QED BY <1>0, <1>3, <1>5, <2>1, <2>2 DEF ListProtected, TypeInv, TypeOK
  <1>6. CASE ExistingDone(h)
    <2> DEFINE q == [r EXCEPT !.pc = "create"]
    <2>1. q \in Runs /\ q.for = r.for
      BY <1>0 DEF Runs
    <2>2. r.pc = "existing" /\ watching' = watching
      BY <1>6 DEF ExistingDone
    <2> QED BY <1>0, <1>3, <1>6, <2>1, <2>2 DEF ExistingDone, TypeInv, TypeOK
  <1>7. CASE CreateDone(h)
    <2> DEFINE q == [r EXCEPT !.pc = "finish"]
    <2>1. q \in Runs /\ q.for = r.for
      BY <1>0 DEF Runs
    <2>2. r.pc = "create" /\ watching' = watching
      BY <1>7 DEF CreateDone
    <2> QED
      BY <1>0, <1>3, <1>7, <2>1, <2>2, IdleType DEF CreateDone, TypeInv, TypeOK
  <1>8. ASSUME NEW s \in ProtectedServices,
               NEW policy \in ProtectedServices \cup {NoPolicy}, NEW q \in Runs,
               WritePolicy(h, s, policy, q), q.for = r.for, r.pc # "idle",
               UNCHANGED <<protectedVars, denyCache, queue, watching, declared,
                           changes, faults>>
        PROVE  TypeInv'
    <2>1. /\ run' \in [Handlers -> Runs] /\ Alike(run'[h], q)
          /\ \A g \in Handlers \ {h} : Alike(run'[g], run[g])
      BY <1>0, <1>8, WriteRuns
    <2>2. /\ deny' \in [ProtectedServices -> ProtectedServices \cup {NoPolicy}]
          /\ denyEvents' \subseteq ProtectedServices
      BY <1>0, <1>8 DEF WritePolicy, TypeOK
    <2>3. run'["controller"].pc # "idle"
            => run'["controller"].for \in ProtectedServices
      BY <1>0, <1>8, <2>1 DEF TypeInv, Alike
    <2>4. UNCHANGED <<protected, protectedCache, protectedEvents, services,
                      denyCache, queue, watching, declared, changes, faults>>
      BY <1>8 DEF protectedVars
    <2> QED BY <1>0, <2>1, <2>2, <2>3, <2>4 DEF TypeInv, TypeOK
  <1>9. ASSUME Retry(h), r.pc # "idle", faults' \in 0 .. MaxFaults,
               UNCHANGED <<protectedVars, denyVars, declared, changes>>
        PROVE  TypeInv'
    <2>1. /\ run' \in [Handlers -> Runs] /\ run'[h] = Idle
          /\ \A g \in Handlers \ {h} : run'[g] = run[g]
          /\ queue' \subseteq ProtectedServices /\ watching' \in BOOLEAN
      BY <1>9, RetryType
    <2>2. UNCHANGED <<protected, protectedCache, protectedEvents, services, deny,
                      denyCache, denyEvents, declared, changes>>
      BY <1>9 DEF protectedVars, denyVars
    <2> QED BY <1>0, <1>9, <2>1, <2>2, IdleType DEF TypeInv, TypeOK
  <1>10. CASE HandleExisting(h)
    <2>1. PICK p \in r.existing :
            LET rest == [r EXCEPT !.existing = @ \ {p}, !.wanted = @ \ {Label(p)}]
            IN  \/ /\ Label(p) \in r.wanted
                   /\ WritePolicy(h, p, Label(p), rest)
                   /\ UNCHANGED <<denyCache, queue, watching>>
                \/ /\ WritePolicy(h, p, NoPolicy, rest)
                   /\ UNCHANGED <<denyCache, queue, watching>>
                \/ Retry(h) /\ UNCHANGED denyVars
      BY <1>10 DEF HandleExisting
    <2> DEFINE rest == [r EXCEPT !.existing = @ \ {p}, !.wanted = @ \ {Label(p)}]
    <2>2. /\ rest \in Runs /\ rest.for = r.for /\ p \in ProtectedServices
          /\ r.pc # "idle"
          /\ Label(p) \in r.wanted => Label(p) \in ProtectedServices
      BY <1>0, <1>10 DEF Runs, HandleExisting
    <2>3. UNCHANGED <<protectedVars, declared, changes, faults>>
      BY <1>10 DEF HandleExisting
    <2>4. faults \in 0 .. MaxFaults
      BY <1>0 DEF TypeOK
    <2> QED BY <1>8, <1>9, <2>1, <2>2, <2>3, <2>4
  <1>11. CASE CreatePolicy(h)
    <2>1. PICK s \in r.wanted :
            \/ /\ WritePolicy(h, s, s, [r EXCEPT !.wanted = @ \ {s}])
               /\ UNCHANGED <<denyCache, queue, watching>>
            \/ Retry(h) /\ UNCHANGED denyVars
      BY <1>11 DEF CreatePolicy
    <2> DEFINE rest == [r EXCEPT !.wanted = @ \ {s}]
    <2>2. /\ rest \in Runs /\ rest.for = r.for /\ s \in ProtectedServices
          /\ r.pc # "idle"
      BY <1>0, <1>11 DEF Runs, CreatePolicy
    <2>3. UNCHANGED <<protectedVars, declared, changes, faults>>
      BY <1>11 DEF CreatePolicy
    <2>4. faults \in 0 .. MaxFaults
      BY <1>0 DEF TypeOK
    <2> QED BY <1>8, <1>9, <2>1, <2>2, <2>3, <2>4
  <1>12. CASE RunFault(h)
    <2>1. faults' \in 0 .. MaxFaults
      BY <1>0, <1>12, ConstantsAssumption DEF RunFault, Fault, TypeOK
    <2> QED BY <1>9, <1>12, <2>1 DEF RunFault
  <1> QED
    BY <1>1, <1>2, <1>4, <1>5, <1>6, <1>7, <1>10, <1>11, <1>12 DEF Step

Environment ==
    Protect \/ Unprotect \/ ToggleService \/ SyncProtected \/ SyncPolicies
      \/ Resync \/ Crash

\* Every step of users, the informers and the process keeps the state well typed.
LEMMA EnvironmentType ==
    ASSUME TypeInv, Environment
    PROVE  TypeInv'
  <1>0. /\ TypeOK /\ "new" \in Stages /\ "none" \in Stages /\ "deleting" \in Stages
    BY DEF TypeInv, Stages
  <1>1. ASSUME Change
        PROVE  changes' \in 0 .. MaxChanges
    BY <1>0, <1>1, ConstantsAssumption DEF Change, TypeOK
  <1>2. CASE Protect
    <2>1. PICK s \in ProtectedServices :
            StoreProtected(s, "new") /\ declared' = declared \cup {s}
      BY <1>2 DEF Protect
    <2>2. /\ protected' \in [ProtectedServices -> Stages]
          /\ protectedEvents' \subseteq ProtectedServices
      BY <1>0, <2>1, StoreProtectedType
    <2>3. UNCHANGED <<protectedCache, services, deny, denyCache, denyEvents,
                      queue, watching, run, faults>>
      BY <1>2 DEF Protect, denyVars
    <2>4. changes' \in 0 .. MaxChanges
      BY <1>1, <1>2 DEF Protect
    <2> QED BY <2>1, <2>2, <2>3, <2>4 DEF TypeInv, TypeOK
  <1>3. CASE Unprotect
    <2>1. PICK s \in ProtectedServices :
            StoreProtected(s, "none") \/ StoreProtected(s, "deleting")
      BY <1>3 DEF Unprotect
    <2>2. /\ protected' \in [ProtectedServices -> Stages]
          /\ protectedEvents' \subseteq ProtectedServices
      BY <1>0, <2>1, StoreProtectedType
    <2>3. UNCHANGED <<protectedCache, services, deny, denyCache, denyEvents,
                      queue, watching, run, declared, faults>>
      BY <1>3 DEF Unprotect, denyVars
    <2>4. changes' \in 0 .. MaxChanges
      BY <1>1, <1>3 DEF Unprotect
    <2> QED BY <2>2, <2>3, <2>4 DEF TypeInv, TypeOK
  <1>4. CASE ToggleService
    <2>1. services' \subseteq Names /\ watching' \in BOOLEAN
      BY <1>0, <1>4 DEF ToggleService, TypeOK
    <2>2. UNCHANGED <<protected, protectedCache, protectedEvents, deny, denyCache,
                      denyEvents, queue, run, declared, faults>>
      BY <1>4 DEF ToggleService, denyVars
    <2>3. changes' \in 0 .. MaxChanges
      BY <1>1, <1>4 DEF ToggleService
    <2> QED BY <2>1, <2>2, <2>3 DEF TypeInv, TypeOK
  <1>5. CASE SyncProtected
    BY <1>5 DEF SyncProtected, denyVars, TypeInv, TypeOK
  <1>6. CASE SyncPolicies
    BY <1>6 DEF SyncPolicies, protectedVars, TypeInv, TypeOK
  <1>7. CASE Resync
    BY <1>7 DEF Resync, protectedVars, denyVars, TypeInv, TypeOK
  <1>8. CASE Crash
    <2>1. faults' \in 0 .. MaxFaults
      BY <1>0, <1>8, ConstantsAssumption DEF Crash, Fault, TypeOK
    <2>2. /\ run' \in [Handlers -> Runs]
          /\ run'["controller"].pc = "idle"
      BY <1>8, IdleType DEF Crash, Handlers
    <2> QED BY <1>8, <2>1, <2>2 DEF Crash, TypeInv, TypeOK
  <1> QED
    BY <1>2, <1>3, <1>4, <1>5, <1>6, <1>7, <1>8 DEF Environment

\* Stores, caches, events and runs keep their types, whatever is declared.
LEMMA TypeInvariant == Spec => []TypeInv
  <1>1. Init => TypeInv
    <2> SUFFICES ASSUME Init
                 PROVE  TypeInv
      OBVIOUS
    <2>1. PICK live \in SUBSET ProtectedServices :
            /\ protected = [s \in ProtectedServices |->
                              IF s \in live THEN "live" ELSE "none"]
            /\ protectedCache = protected /\ protectedEvents = {}
            /\ services = Names
            /\ deny = [s \in ProtectedServices |->
                         IF s \in live THEN s ELSE NoPolicy]
            /\ denyCache = deny /\ denyEvents = {}
            /\ queue = live
            /\ watching = TRUE
            /\ run = [h \in Handlers |-> Idle]
            /\ declared = live
            /\ changes = 0 /\ faults = 0
      BY DEF Init
    <2>2. run \in [Handlers -> Runs] /\ run["controller"].pc = "idle"
      BY <2>1, IdleType DEF Handlers
    <2>3. protected \in [ProtectedServices -> Stages]
      BY <2>1 DEF Stages
    <2>4. deny \in [ProtectedServices -> ProtectedServices \cup {NoPolicy}]
      BY <2>1
    <2>5. changes \in 0 .. MaxChanges /\ faults \in 0 .. MaxFaults
      BY <2>1, ConstantsAssumption
    <2> QED BY <2>1, <2>2, <2>3, <2>4, <2>5 DEF TypeInv, TypeOK
  <1>2. TypeInv /\ [Next]_vars => TypeInv'
    <2> SUFFICES ASSUME TypeInv, [Next]_vars
                 PROVE  TypeInv'
      OBVIOUS
    <2>1. CASE UNCHANGED vars
      BY <2>1 DEF vars, protectedVars, denyVars, TypeInv, TypeOK
    <2> QED BY <2>1, RunType, EnvironmentType DEF Next, Environment
  <1> QED BY <1>1, <1>2, PTL DEF Spec

\* The state is always well typed.
THEOREM TypeCorrect == Spec => []TypeOK
  <1>1. TypeInv => TypeOK
    BY DEF TypeInv
  <1> QED BY <1>1, TypeInvariant, PTL

-----------------------------------------------------------------------------
(* What a step does to the runs and to the policies.                       *)

\* The run r goes on to q with fewer servers left to protect, and drops a listed
\* policy together with the server it is of.
Proceeds(r, q) ==
    /\ q.wanted \subseteq r.wanted
    /\ q.pc = "existing"
         => /\ r.pc = "existing"
            /\ \A s \in q.existing : s \in r.existing /\ (s \in r.wanted => s \in q.wanted)

\* The run q starts from the two lists.
Lists(q) ==
    /\ \A s \in q.wanted : protectedCache[s] \in {"new", "live"}
    /\ \A s \in q.existing : /\ denyCache[s] # NoPolicy
                             /\ protectedCache[s] \in {"new", "live"} => s \in q.wanted

\* The policy named after s is written by a run that is to protect s, or deleted
\* by one that has listed it and is not.
Writes(s) ==
    \/ deny'[s] = s /\ \E h \in Handlers : s \in run[h].wanted
    \/ /\ deny'[s] = NoPolicy
       /\ \E h \in Handlers : /\ run[h].pc = "existing"
                              /\ s \in run[h].existing \ run[h].wanted

\* Servers declared by name alone.
NamesOnly == \A s \in ProtectedServices : s[2] = Legacy

\* A server declared by name alone has a label of its own, and pods to select.
LEMMA ByNameAlone ==
    ASSUME NamesOnly, NEW s \in ProtectedServices
    PROVE  Label(s) = s /\ s # NoPolicy /\ s[2] # "Service" /\ Selectable(s)
  <1>1. s \in Names \X Kinds /\ s[2] = Legacy
    BY ConstantsAssumption DEF NamesOnly
  <1>2. Legacy # "Service" /\ NoPolicy[2] # Legacy
    BY DEF Legacy, NoPolicy
  <1> QED BY <1>1, <1>2 DEF Label, Selectable

\* An idle run proceeds from anything.
LEMMA IdleProceeds ==
    ASSUME NEW r \in Runs
    PROVE  Proceeds(r, Idle) /\ Proceeds(r, r)
  BY DEF Idle, Proceeds

\* A run like one that proceeds does.
LEMMA AlikeProceeds ==
    ASSUME NEW r, NEW q, NEW x, Alike(x, q)
    PROVE  /\ Proceeds(r, q) => Proceeds(r, x)
           /\ Lists(q) => Lists(x)
  BY DEF Alike, Proceeds, Lists

\* Every step of h's run.
LEMMA StepProceeds ==
    ASSUME NamesOnly, TypeInv, NEW h \in Handlers, Step(h) \/ RunFault(h)
    PROVE  /\ \A g \in Handlers : Proceeds(run[g], run'[g]) \/ Lists(run'[g])
           /\ \A s \in ProtectedServices : deny'[s] = deny[s] \/ Writes(s)
           /\ denyCache' = denyCache
  <1> DEFINE r == run[h]
  <1>0. /\ TypeOK /\ r \in Runs /\ "controller" \in Handlers
        /\ run \in [Handlers -> Runs]
        /\ \A g \in Handlers : run[g] \in Runs
    BY DEF TypeInv, TypeOK, Handlers
  <1>1. ASSUME NEW g \in Handlers, NEW q, run' = [run EXCEPT ![g] = q],
               Proceeds(run[g], q) \/ Lists(q), UNCHANGED denyVars
        PROVE  /\ \A k \in Handlers : Proceeds(run[k], run'[k]) \/ Lists(run'[k])
               /\ \A s \in ProtectedServices : deny'[s] = deny[s] \/ Writes(s)
               /\ denyCache' = denyCache
    BY <1>0, <1>1, IdleProceeds DEF denyVars
  <1>2. CASE BeginGroup
    <2>1. UNCHANGED denyVars /\ run["controller"].pc = "idle"
      BY <1>2 DEF BeginGroup
    <2>2. CASE run' = run
      BY <1>0, <2>1, <2>2, IdleProceeds DEF denyVars
    <2>3. CASE run' # run
      <3>1. PICK s \in queue :
              run' = [run EXCEPT !["controller"] =
                        [Idle EXCEPT !.pc = "list", !.for = s,
                            !.finalize = protectedCache[s] = "deleting"]]
        BY <1>2, <2>3 DEF BeginGroup
      <3>2. Proceeds(run["controller"],
                     [Idle EXCEPT !.pc = "list", !.for = s,
                         !.finalize = protectedCache[s] = "deleting"])
        BY DEF Proceeds, Idle
      <3> QED BY <1>0, <1>1, <2>1, <3>1, <3>2
    <2> QED BY <2>2, <2>3
  <1>3. CASE FinishGroup
    BY <1>0, <1>1, <1>3, IdleProceeds DEF FinishGroup
  <1>4. CASE BeginWatcher /\ h = "watcher"
    <2>1. Proceeds(r, [Idle EXCEPT !.pc = "list"])
      BY DEF Proceeds, Idle
    <2> QED BY <1>1, <1>4, <2>1 DEF BeginWatcher
  <1>5. CASE ListProtected(h)
    <2> DEFINE q == [r EXCEPT
         !.pc = "existing",
         !.wanted = {s \in ProtectedServices :
                       /\ protectedCache[s] \in {"new", "live"}
                       /\ s[2] = "Service" => s[1] \in services},
         !.existing = {s \in ProtectedServices : denyCache[s] # NoPolicy},
         !.raced = denyEvents]
    <2>1. /\ q.wanted = {s \in ProtectedServices :
                           /\ protectedCache[s] \in {"new", "live"}
                           /\ s[2] = "Service" => s[1] \in services}
          /\ q.existing = {s \in ProtectedServices : denyCache[s] # NoPolicy}
      BY <1>0 DEF Runs
    <2>2. Lists(q)
      BY <2>1, ByNameAlone DEF Lists
    <2>3. Goto(h, q)
      BY <1>5 DEF ListProtected
    <2> QED BY <1>1, <2>2, <2>3 DEF Goto
  <1>6. CASE ExistingDone(h)
    <2>1. Proceeds(r, [r EXCEPT !.pc = "create"])
      BY <1>0 DEF Proceeds, Runs
    <2> QED BY <1>1, <1>6, <2>1 DEF ExistingDone, Goto
  <1>7. CASE CreateDone(h)
    <2>1. Proceeds(r, [r EXCEPT !.pc = "finish"])
      BY <1>0 DEF Proceeds, Runs
    <2> QED BY <1>0, <1>1, <1>7, <2>1, IdleProceeds DEF CreateDone, Goto
  <1>8. ASSUME NEW s \in ProtectedServices, NEW policy, NEW q \in Runs,
               WritePolicy(h, s, policy, q), Proceeds(r, q),
               denyCache' = denyCache, deny'[s] = policy => Writes(s)
        PROVE  /\ \A k \in Handlers : Proceeds(run[k], run'[k]) \/ Lists(run'[k])
               /\ \A t \in ProtectedServices : deny'[t] = deny[t] \/ Writes(t)
               /\ denyCache' = denyCache
    <2>1. /\ Alike(run'[h], q)
          /\ \A g \in Handlers \ {h} : Alike(run'[g], run[g])
      BY <1>0, <1>8, WriteRuns
    <2>2. \A g \in Handlers : Proceeds(run[g], run'[g])
      BY <1>0, <1>8, <2>1, AlikeProceeds, IdleProceeds
    <2>3. deny' = [deny EXCEPT ![s] = policy]
      BY <1>8 DEF WritePolicy
    <2> QED BY <1>0, <1>8, <2>2, <2>3 DEF TypeOK
  <1>9. CASE HandleExisting(h)
    <2>1. PICK p \in r.existing :
            LET rest == [r EXCEPT !.existing = @ \ {p}, !.wanted = @ \ {Label(p)}]
            IN  \/ /\ Label(p) \in r.wanted
                   /\ WritePolicy(h, p, Label(p), rest)
                   /\ denyCache' = denyCache
                \/ /\ Label(p) \notin r.wanted
                   /\ WritePolicy(h, p, NoPolicy, rest)
                   /\ denyCache' = denyCache
                \/ Retry(h) /\ UNCHANGED denyVars
      BY <1>9 DEF HandleExisting
    <2>2. p \in ProtectedServices /\ Label(p) = p /\ r.pc = "existing"
      BY <1>0, <1>9, <2>1, ByNameAlone DEF Runs, HandleExisting
    <2> DEFINE rest == [r EXCEPT !.existing = r.existing \ {p},
                                 !.wanted = r.wanted \ {p}]
    <2>3. rest \in Runs /\ Proceeds(r, rest)
      BY <1>0, <2>2 DEF Runs, Proceeds
    <2>4. CASE p \in r.wanted /\ WritePolicy(h, p, p, rest)
                 /\ denyCache' = denyCache
      BY <1>8, <2>2, <2>3, <2>4 DEF Writes
    <2>5. CASE p \notin r.wanted /\ WritePolicy(h, p, NoPolicy, rest)
                 /\ denyCache' = denyCache
      BY <1>8, <2>1, <2>2, <2>3, <2>5 DEF Writes
    <2>6. CASE Retry(h) /\ UNCHANGED denyVars
      BY <1>0, <1>1, <2>6, IdleProceeds DEF Retry
    <2> QED BY <2>1, <2>2, <2>4, <2>5, <2>6
  <1>10. CASE CreatePolicy(h)
    <2>1. PICK s \in r.wanted :
            \/ /\ WritePolicy(h, s, s, [r EXCEPT !.wanted = @ \ {s}])
               /\ denyCache' = denyCache
            \/ Retry(h) /\ UNCHANGED denyVars
      BY <1>10 DEF CreatePolicy
    <2> DEFINE rest == [r EXCEPT !.wanted = r.wanted \ {s}]
    <2>2. r.pc = "create" /\ s \in ProtectedServices
      BY <1>0, <1>10 DEF CreatePolicy, Runs
    <2>3. rest \in Runs /\ Proceeds(r, rest)
      BY <1>0, <2>2 DEF Runs, Proceeds
    <2>4. CASE WritePolicy(h, s, s, rest) /\ denyCache' = denyCache
      BY <1>8, <2>1, <2>2, <2>3, <2>4 DEF Writes
    <2>5. CASE Retry(h) /\ UNCHANGED denyVars
      BY <1>0, <1>1, <2>5, IdleProceeds DEF Retry
    <2> QED BY <2>1, <2>4, <2>5
  <1>11. CASE RunFault(h)
    BY <1>0, <1>1, <1>11, IdleProceeds DEF RunFault, Retry
  <1> QED
    BY <1>2, <1>3, <1>4, <1>5, <1>6, <1>7, <1>9, <1>10, <1>11 DEF Step

-----------------------------------------------------------------------------
(* KeepsProtection.  A policy is only ever written for a server that the   *)
(* informer has noticed; if a list then misses the server, it is because   *)
(* the informer has noticed its deletion, which nothing undoes.            *)

\* The server was declared and is so no more.
Ended(s) == s \in declared /\ protected[s] \in {"deleting", "none"}

\* The informer knows it is declared, or it has ended.
Noticed(s) == protectedCache[s] \in {"new", "live"} \/ Ended(s)

ProtectedInv ==
    \A s \in ProtectedServices :
      /\ s \notin protectedEvents => protectedCache[s] = protected[s]
      /\ protected[s] # "none" \/ protectedCache[s] # "none" => s \in declared
      /\ protectedCache[s] = "deleting" => Ended(s)

PolicyInv ==
    \A s \in ProtectedServices :
      /\ \/ deny[s] # NoPolicy
         \/ denyCache[s] # NoPolicy
         \/ \E h \in Handlers : s \in run[h].wanted
         => Noticed(s)
      /\ deny[s] \in {s, NoPolicy}
      /\ \A h \in Handlers :
           run[h].pc = "existing" /\ s \in run[h].existing
             => s \in run[h].wanted \/ Ended(s)

DenyInv == TypeInv /\ ProtectedInv /\ PolicyInv

\* One stored ProtectedService changes: how its deletion and what the informer
\* knows of it fare.
LEMMA StoreNotices ==
    ASSUME TypeInv, ProtectedInv, NEW s \in ProtectedServices,
           NEW stage \in Stages, StoreProtected(s, stage),
           protectedCache' = protectedCache,
           declared \subseteq declared', stage # "none" => s \in declared',
           Ended(s) => stage \in {"deleting", "none"}
    PROVE  /\ ProtectedInv'
           /\ \A t \in ProtectedServices : /\ Ended(t) => Ended(t)'
                                           /\ Noticed(t) => Noticed(t)'
  <1>1. /\ protected'[s] = stage
        /\ \A t \in ProtectedServices \ {s} : protected'[t] = protected[t]
        /\ protectedEvents \subseteq protectedEvents'
        /\ protected[s] # stage => s \in protectedEvents'
    BY StoreProtectedType DEF TypeInv
  <1>2. ASSUME NEW t \in ProtectedServices
        PROVE  /\ Ended(t) => Ended(t)'
               /\ Noticed(t) => Noticed(t)'
    BY <1>1 DEF Ended, Noticed
  <1>3. ASSUME NEW t \in ProtectedServices
        PROVE  /\ t \notin protectedEvents' => protectedCache'[t] = protected'[t]
               /\ protected'[t] # "none" \/ protectedCache'[t] # "none"
                    => t \in declared'
               /\ protectedCache'[t] = "deleting" => Ended(t)'
    BY <1>1, <1>2 DEF ProtectedInv
  <1> QED BY <1>2, <1>3 DEF ProtectedInv

\* Nothing stored or known of ProtectedServices changes.
LEMMA SameNotices ==
    ASSUME ProtectedInv,
           UNCHANGED <<protected, protectedCache, protectedEvents, declared>>
    PROVE  /\ ProtectedInv'
           /\ \A t \in ProtectedServices : /\ Ended(t) => Ended(t)'
                                           /\ Noticed(t) => Noticed(t)'
  BY DEF ProtectedInv, Ended, Noticed

\* A deletion is final, and what the informer has noticed it does not forget.
LEMMA ProtectedKept ==
    ASSUME TypeInv, ProtectedInv, ~Recreate, [Next]_vars
    PROVE  /\ ProtectedInv'
           /\ \A t \in ProtectedServices : /\ Ended(t) => Ended(t)'
                                           /\ Noticed(t) => Noticed(t)'
  <1>0. TypeOK /\ Stages = {"none", "new", "live", "deleting"}
    BY DEF TypeInv, Stages
  <1>1. CASE \/ UNCHANGED vars \/ ToggleService \/ SyncPolicies \/ Resync
             \/ BeginWatcher
             \/ \E h \in Handlers : \/ ListProtected(h) \/ HandleExisting(h)
                                    \/ ExistingDone(h) \/ CreatePolicy(h)
                                    \/ CreateDone(h) \/ RunFault(h)
    <2>1. UNCHANGED <<protected, protectedCache, protectedEvents, declared>>
      BY <1>1
      DEF vars, protectedVars, ToggleService, SyncPolicies, Resync, BeginWatcher,
          ListProtected, HandleExisting, ExistingDone, CreatePolicy, CreateDone,
          RunFault
    <2> QED BY <2>1, SameNotices
  <1>2. CASE BeginGroup
    <2>1. UNCHANGED <<protectedCache, declared>>
      BY <1>2 DEF BeginGroup
    <2>2. CASE UNCHANGED <<protected, protectedEvents>>
      BY <2>1, <2>2, SameNotices
    <2>3. CASE \E s \in queue : /\ protectedCache[s] = "new"
                                /\ s \notin protectedEvents
                                /\ StoreProtected(s, "live")
      <3>1. PICK s \in queue : /\ protectedCache[s] = "new"
                               /\ s \notin protectedEvents
                               /\ StoreProtected(s, "live")
        BY <2>3
      <3>2. s \in ProtectedServices /\ protected[s] = "new" /\ s \in declared
        BY <1>0, <3>1 DEF ProtectedInv, TypeOK
      <3>3. ~Ended(s)
        BY <3>2 DEF Ended
      <3> QED BY <1>0, <2>1, <3>1, <3>2, <3>3, StoreNotices
    <2> QED BY <1>2, <2>2, <2>3 DEF BeginGroup
  <1>3. CASE FinishGroup
    <2>1. UNCHANGED <<protectedCache, declared>>
          /\ run["controller"].for \in ProtectedServices
      BY <1>3 DEF FinishGroup, TypeInv
    <2>2. CASE UNCHANGED <<protected, protectedEvents>>
      BY <2>1, <2>2, SameNotices
    <2>3. CASE StoreProtected(run["controller"].for, "none")
      BY <1>0, <2>1, <2>3, StoreNotices
    <2> QED BY <1>3, <2>2, <2>3 DEF FinishGroup
  <1>4. CASE Protect
    <2>1. PICK s \in ProtectedServices :
            /\ s \notin declared /\ StoreProtected(s, "new")
            /\ declared' = declared \cup {s}
      BY <1>4 DEF Protect
    <2>2. protectedCache' = protectedCache /\ ~Ended(s)
      BY <1>4, <2>1 DEF Protect, Ended
    <2> QED BY <1>0, <2>1, <2>2, StoreNotices
  <1>5. CASE Unprotect
    <2>1. UNCHANGED <<protectedCache, declared>>
      BY <1>5 DEF Unprotect
    <2>2. PICK s \in ProtectedServices :
            \/ protected[s] = "new" /\ StoreProtected(s, "none")
            \/ protected[s] = "live" /\ StoreProtected(s, "deleting")
      BY <1>5 DEF Unprotect
    <2>3. s \in declared
      BY <2>2 DEF ProtectedInv
    <2> QED BY <1>0, <2>1, <2>2, <2>3, StoreNotices
  <1>6. CASE SyncProtected
    <2>1. PICK s \in protectedEvents :
            /\ protectedCache' = [protectedCache EXCEPT ![s] = protected[s]]
            /\ protectedEvents' = protectedEvents \ {s}
      BY <1>6 DEF SyncProtected
    <2>2. UNCHANGED <<protected, declared>>
      BY <1>6 DEF SyncProtected
    <2>3. ASSUME NEW t \in ProtectedServices
          PROVE  /\ Ended(t) => Ended(t)'
                 /\ Noticed(t) => Noticed(t)'
                 /\ t \notin protectedEvents' => protectedCache'[t] = protected'[t]
                 /\ protected'[t] # "none" \/ protectedCache'[t] # "none"
                      => t \in declared'
                 /\ protectedCache'[t] = "deleting" => Ended(t)'
      <3>1. Ended(t) => Ended(t)'
        BY <2>2 DEF Ended
      <3>2. CASE t = s
        <4>1. protectedCache'[t] = protected[t] /\ protected[t] \in Stages
          BY <1>0, <2>1, <3>2 DEF TypeOK
        <4>2. Noticed(t) => t \in declared
          BY DEF Noticed, Ended, ProtectedInv
        <4> QED
          BY <1>0, <2>2, <3>1, <4>1, <4>2 DEF Noticed, Ended, ProtectedInv
      <3>3. CASE t # s
        <4>1. /\ protectedCache'[t] = protectedCache[t]
              /\ t \notin protectedEvents' => t \notin protectedEvents
          BY <1>0, <2>1, <3>3 DEF TypeOK
        <4> QED BY <2>2, <3>1, <4>1 DEF Noticed, ProtectedInv
      <3> QED BY <3>2, <3>3
    <2> QED BY <2>3 DEF ProtectedInv
  <1>7. CASE Crash
    <2>1. /\ protectedCache' = protected /\ protectedEvents' = {}
          /\ UNCHANGED <<protected, declared>>
      BY <1>7 DEF Crash
    <2>2. ASSUME NEW t \in ProtectedServices
          PROVE  /\ Ended(t) => Ended(t)'
                 /\ Noticed(t) => Noticed(t)'
                 /\ protected[t] # "none" => t \in declared
                 /\ protected[t] = "deleting" => Ended(t)'
      BY <1>0, <2>1 DEF Ended, Noticed, ProtectedInv, TypeOK
    <2> QED BY <2>1, <2>2 DEF ProtectedInv
  <1> QED
    BY <1>1, <1>2, <1>3, <1>4, <1>5, <1>6, <1>7 DEF Next, Step

\* Every step's effect on runs and policies, those of the environment included.
LEMMA NextProceeds ==
    ASSUME NamesOnly, TypeInv, [Next]_vars
    PROVE  /\ \A g \in Handlers : Proceeds(run[g], run'[g]) \/ Lists(run'[g])
           /\ \A s \in ProtectedServices :
                /\ deny'[s] = deny[s] \/ Writes(s)
                /\ denyCache'[s] \in {denyCache[s], deny[s]}
  <1>0. TypeOK /\ \A g \in Handlers : Proceeds(run[g], run[g])
                                      /\ Proceeds(run[g], Idle)
    BY IdleProceeds DEF TypeInv, TypeOK
  <1>1. CASE \E h \in Handlers : Step(h) \/ RunFault(h)
    BY <1>1, StepProceeds
  <1>2. CASE Crash
    <2>1. /\ \A h \in Handlers : run'[h] = Idle
          /\ deny' = deny /\ denyCache' = deny
      BY <1>2 DEF Crash
    <2> QED BY <1>0, <2>1
  <1>3. CASE SyncPolicies
    <2>1. PICK s \in denyEvents : denyCache' = [denyCache EXCEPT ![s] = deny[s]]
      BY <1>3 DEF SyncPolicies
    <2>2. UNCHANGED <<deny, run>>
      BY <1>3 DEF SyncPolicies
    <2> QED BY <1>0, <2>1, <2>2 DEF TypeOK
  <1>4. CASE \/ Protect \/ Unprotect \/ ToggleService \/ SyncProtected \/ Resync
             \/ UNCHANGED vars
    <2>1. UNCHANGED <<run, deny, denyCache>>
      BY <1>4 DEF Protect, Unprotect, ToggleService, SyncProtected, Resync, vars,
                  denyVars
    <2> QED BY <1>0, <2>1
  <1> QED BY <1>1, <1>2, <1>3, <1>4 DEF Next

\* No policy is written for a server nobody has noticed, and none is left to be
\* deleted whose server has not ended.
LEMMA DenyKept ==
    ASSUME NamesOnly, ~Recreate, DenyInv, TypeInv', [Next]_vars
    PROVE  DenyInv'
  <1>1. /\ ProtectedInv'
        /\ \A t \in ProtectedServices : /\ Ended(t) => Ended(t)'
                                        /\ Noticed(t) => Noticed(t)'
    BY ProtectedKept DEF DenyInv
  <1>2. TypeOK /\ \A h \in Handlers : run[h] \in Runs
    BY DEF DenyInv, TypeInv, TypeOK
  <1>3. /\ \A g \in Handlers : Proceeds(run[g], run'[g]) \/ Lists(run'[g])
        /\ \A s \in ProtectedServices :
             /\ deny'[s] = deny[s] \/ Writes(s)
             /\ denyCache'[s] \in {denyCache[s], deny[s]}
    BY NextProceeds DEF DenyInv
  <1>4. ASSUME NEW s \in ProtectedServices
        PROVE  /\ deny'[s] # NoPolicy => Noticed(s)
               /\ deny'[s] \in {s, NoPolicy}
               /\ denyCache'[s] # NoPolicy => Noticed(s)
    BY <1>3 DEF DenyInv, PolicyInv, Writes
  <1>5. ASSUME NEW s \in ProtectedServices, NEW h \in Handlers
        PROVE  /\ s \in run'[h].wanted => Noticed(s)
               /\ run'[h].pc = "existing" /\ s \in run'[h].existing
                    => s \in run'[h].wanted \/ Ended(s)
    <2>1. CASE Proceeds(run[h], run'[h])
      BY <2>1 DEF Proceeds, DenyInv, PolicyInv
    <2>2. CASE Lists(run'[h])
      BY <2>2 DEF Lists, Noticed, DenyInv, PolicyInv
    <2> QED BY <1>3, <2>1, <2>2
  <1>6. PolicyInv'
    BY <1>1, <1>4, <1>5 DEF PolicyInv
  <1> QED BY <1>1, <1>6 DEF DenyInv

\* The policies of declared servers are there when the operator starts.
LEMMA InitDeny == ASSUME NamesOnly, Init, TypeInv PROVE DenyInv
  <1>1. PICK live \in SUBSET ProtectedServices :
          /\ protected = [s \in ProtectedServices |->
                            IF s \in live THEN "live" ELSE "none"]
          /\ protectedCache = protected /\ protectedEvents = {}
          /\ deny = [s \in ProtectedServices |->
                       IF s \in live THEN s ELSE NoPolicy]
          /\ denyCache = deny
          /\ run = [h \in Handlers |-> Idle]
          /\ declared = live
    BY DEF Init
  <1>2. ProtectedInv
    BY <1>1 DEF ProtectedInv
  <1>3. \A h \in Handlers : run[h].wanted = {} /\ run[h].pc = "idle"
    BY <1>1 DEF Idle
  <1>4. PolicyInv
    BY <1>1, <1>3 DEF PolicyInv, Noticed
  <1> QED BY <1>2, <1>4 DEF DenyInv

\* In every state reached, a server that has a policy or is to get one is known to
\* the informer as declared, or is declared no more.
LEMMA DenyInvariant ==
    ASSUME NamesOnly, ~Recreate
    PROVE  Spec => []DenyInv
  <1>1. Init /\ TypeInv => DenyInv
    BY InitDeny
  <1>2. DenyInv /\ TypeInv' /\ [Next]_vars => DenyInv'
    BY DenyKept
  <1> QED BY <1>1, <1>2, TypeInvariant, PTL DEF Spec

\* A declared server keeps its policy in every step.
LEMMA ProtectionKept ==
    ASSUME NamesOnly, DenyInv, [Next]_vars, NEW s \in ProtectedServices,
           protected[s] = "live", deny[s] = s
    PROVE  deny'[s] = s
  <1>1. deny'[s] = deny[s] \/ Writes(s)
    BY NextProceeds DEF DenyInv
  <1>2. ~Ended(s)
    BY DEF Ended
  <1> QED BY <1>1, <1>2 DEF Writes, DenyInv, PolicyInv

\* Of the two handlers that go over the namespace at once, from lists that lag:
\* neither takes the policy of a declared server away, nor does a retry or restart.
THEOREM ProtectionHolds ==
    ASSUME NamesOnly, ~Recreate
    PROVE  Spec => KeepsProtection
  <1>1. DenyInv /\ [Next]_vars =>
          \A s \in ProtectedServices :
            protected[s] = "live" /\ Selectable(s) /\ deny[s] = s
              => deny'[s] = s \/ protected'[s] # "live" \/ ~Selectable(s)'
    BY ProtectionKept
  <1> QED
    BY <1>1, DenyInvariant, PTL DEF Spec, KeepsProtection

-----------------------------------------------------------------------------
(* ProtectedAtRest.  A declared server without its policy is about to be   *)
(* noticed, is queued, or is the one the controller's run is for and still *)
(* among those it is to protect.                                           *)

\* The controller's run r is for s and has yet to give it its policy.
Protecting(r, s) ==
    /\ r.for = s
    /\ r.pc = "list" \/ (r.pc \in {"existing", "create"} /\ s \in r.wanted)

Pending(s) ==
    \/ s \in protectedEvents
    \/ s \in queue
    \/ Protecting(run["controller"], s)

RestInv ==
    \A s \in ProtectedServices :
      protected[s] = "live" => deny[s] = s \/ Pending(s)

\* The steps of h's run: what the controller's run leaves undone it retries.
LEMMA RunPending ==
    ASSUME NamesOnly, DenyInv, NEW h \in Handlers, NEW s \in ProtectedServices,
           \/ ListProtected(h) \/ HandleExisting(h) \/ ExistingDone(h)
           \/ CreatePolicy(h) \/ CreateDone(h) \/ RunFault(h),
           protected[s] = "live", Pending(s)
    PROVE  Pending(s)' \/ deny'[s] = s
  <1> DEFINE r == run[h]
             c == run["controller"]
  <1>0. /\ TypeOK /\ r \in Runs /\ "controller" \in Handlers /\ c \in Runs
        /\ run \in [Handlers -> Runs]
    BY DEF DenyInv, TypeInv, TypeOK, Handlers
  <1>1. protectedEvents' = protectedEvents /\ queue \subseteq queue'
    BY DEF ListProtected, HandleExisting, ExistingDone, CreatePolicy, CreateDone,
           RunFault, Retry, protectedVars
  <1>2. CASE s \in protectedEvents \/ s \in queue
    BY <1>1, <1>2 DEF Pending
  <1>3. CASE s \notin protectedEvents /\ Protecting(c, s)
    <2>0. /\ c.for = s /\ c.pc # "idle" /\ protectedCache[s] = "live"
          /\ Label(s) = s
      BY <1>3, ByNameAlone DEF Protecting, DenyInv, ProtectedInv
    <2>1. ASSUME Retry(h), r.pc # "idle"
          PROVE  Pending(s)'
      <3>1. CASE h = "controller"
        BY <2>0, <2>1, <3>1 DEF Retry, Pending
      <3>2. CASE h # "controller"
        <4>1. run'["controller"] = c
          BY <1>0, <2>1, <3>2 DEF Retry
        <4> QED BY <1>3, <4>1 DEF Pending
      <3> QED BY <3>1, <3>2
    <2>2. ASSUME NEW q, Goto(h, q), h = "controller" => Protecting(q, s)
          PROVE  Pending(s)'
      <3>1. run'["controller"] = IF h = "controller" THEN q ELSE c
        BY <1>0, <2>2 DEF Goto
      <3> QED BY <1>3, <2>2, <3>1 DEF Pending
    <2>3. ASSUME NEW t \in ProtectedServices, NEW policy, NEW q \in Runs,
                 WritePolicy(h, t, policy, q), h = "controller" => Protecting(q, s)
          PROVE  Pending(s)'
      <3>1. IF h = "controller" THEN Alike(run'["controller"], q)
                                ELSE Alike(run'["controller"], c)
        BY <1>0, <2>3, WriteRuns
      <3> QED BY <1>3, <2>3, <3>1 DEF Alike, Protecting, Pending
    <2>4. CASE ListProtected(h)
      <3> DEFINE q == [r EXCEPT
           !.pc = "existing",
           !.wanted = {t \in ProtectedServices :
                         /\ protectedCache[t] \in {"new", "live"}
                         /\ t[2] = "Service" => t[1] \in services},
           !.existing = {t \in ProtectedServices : denyCache[t] # NoPolicy},
           !.raced = denyEvents]
      <3>1. /\ q.pc = "existing" /\ q.for = r.for
            /\ q.wanted = {t \in ProtectedServices :
                             /\ protectedCache[t] \in {"new", "live"}
                             /\ t[2] = "Service" => t[1] \in services}
        BY <1>0 DEF Runs
      <3>2. s \in q.wanted
        BY <2>0, <3>1, ByNameAlone
      <3>3. Goto(h, q)
        BY <2>4 DEF ListProtected
      <3>4. h = "controller" => Protecting(q, s)
        BY <2>0, <3>1, <3>2 DEF Protecting
      <3> HIDE DEF q
      <3> QED BY <2>2, <3>3, <3>4
    <2>5. CASE ExistingDone(h)
      <3> DEFINE q == [r EXCEPT !.pc = "create"]
      <3>1. q.pc = "create" /\ q.for = r.for /\ q.wanted = r.wanted
        BY <1>0 DEF Runs
      <3>2. Goto(h, q) /\ r.pc = "existing"
        BY <2>5 DEF ExistingDone
      <3>3. h = "controller" => Protecting(q, s)
        BY <1>3, <3>1, <3>2 DEF Protecting
      <3> QED BY <2>2, <3>2, <3>3
    <2>6. CASE CreateDone(h)
      <3>1. h # "controller"
        BY <1>3, <2>6 DEF CreateDone, Protecting
      <3>2. \E q : Goto(h, q)
        BY <2>6 DEF CreateDone
      <3> QED BY <2>2, <3>1, <3>2
    <2>7. CASE HandleExisting(h)
      <3>1. PICK p \in r.existing :
              LET rest == [r EXCEPT !.existing = @ \ {p},
                                    !.wanted = @ \ {Label(p)}]
              IN  \/ WritePolicy(h, p, Label(p), rest) /\ Label(p) \in r.wanted
                  \/ WritePolicy(h, p, NoPolicy, rest) /\ Label(p) \notin r.wanted
                  \/ Retry(h)
        BY <2>7 DEF HandleExisting
      <3>2. p \in ProtectedServices /\ Label(p) = p /\ r.pc = "existing"
        BY <1>0, <2>7, <3>1, ByNameAlone DEF Runs, HandleExisting
      <3> DEFINE rest == [r EXCEPT !.existing = r.existing \ {p},
                                   !.wanted = r.wanted \ {p}]
      <3>3. /\ rest \in Runs /\ rest.pc = r.pc /\ rest.for = r.for
            /\ rest.wanted = r.wanted \ {p}
        BY <1>0, <3>2 DEF Runs
      <3>4. CASE p # s \/ h # "controller"
        <4>1. h = "controller" => Protecting(rest, s)
          BY <1>3, <3>2, <3>3, <3>4 DEF Protecting
        <4>2. (\E policy : WritePolicy(h, p, policy, rest)) \/ Retry(h)
          BY <3>1, <3>2
        <4> HIDE DEF rest
        <4> QED BY <2>1, <2>3, <3>2, <3>3, <4>1, <4>2
      <3>5. CASE p = s /\ h = "controller"
        <4>1. s \in r.wanted
          BY <1>3, <3>2, <3>5 DEF Protecting
        <4>2. CASE WritePolicy(h, s, s, rest)
          BY <1>0, <4>2 DEF WritePolicy, TypeOK
        <4> QED BY <2>1, <3>1, <3>2, <3>5, <4>1, <4>2
      <3> QED BY <3>4, <3>5
    <2>8. CASE CreatePolicy(h)
      <3>1. PICK t \in r.wanted :
              \/ WritePolicy(h, t, t, [r EXCEPT !.wanted = @ \ {t}])
              \/ Retry(h)
        BY <2>8 DEF CreatePolicy
      <3> DEFINE rest == [r EXCEPT !.wanted = r.wanted \ {t}]
      <3>2. r.pc = "create" /\ t \in ProtectedServices
        BY <1>0, <2>8 DEF CreatePolicy, Runs
      <3>3. /\ rest \in Runs /\ rest.pc = r.pc /\ rest.for = r.for
            /\ rest.wanted = r.wanted \ {t}
        BY <1>0, <3>2 DEF Runs
      <3>4. CASE t # s
        <4>1. h = "controller" => Protecting(rest, s)
          BY <1>3, <3>2, <3>3, <3>4 DEF Protecting
        <4>2. (\E policy : WritePolicy(h, t, policy, rest)) \/ Retry(h)
          BY <3>1
        <4> HIDE DEF rest
        <4> QED BY <2>1, <2>3, <3>2, <3>3, <4>1, <4>2
      <3>5. CASE t = s
        <4>1. CASE WritePolicy(h, s, s, rest)
          BY <1>0, <4>1 DEF WritePolicy, TypeOK
        <4> QED BY <2>1, <3>1, <3>2, <3>5, <4>1
      <3> QED BY <3>4, <3>5
    <2>9. CASE RunFault(h)
      BY <2>1, <2>9 DEF RunFault
    <2> QED BY <2>4, <2>5, <2>6, <2>7, <2>8, <2>9
  <1> QED BY <1>2, <1>3 DEF Pending

\* Every step, those of the environment included.
LEMMA RestKept ==
    ASSUME NamesOnly, DenyInv, TypeInv', RestInv, [Next]_vars
    PROVE  RestInv'
  <1> SUFFICES ASSUME NEW s \in ProtectedServices
               PROVE  protected'[s] = "live" => deny'[s] = s \/ Pending(s)'
    BY DEF RestInv
  <1>0. TypeOK /\ "controller" \in Handlers
    BY DEF DenyInv, TypeInv, Handlers
  <1>1. ASSUME protected'[s] = protected[s],
               protected[s] = "live" => (Pending(s) => Pending(s)' \/ deny'[s] = s)
        PROVE  protected'[s] = "live" => deny'[s] = s \/ Pending(s)'
    BY <1>1, ProtectionKept DEF RestInv
  <1>2. CASE \E h \in Handlers : \/ ListProtected(h) \/ HandleExisting(h)
                                 \/ ExistingDone(h) \/ CreatePolicy(h)
                                 \/ CreateDone(h) \/ RunFault(h)
    <2>1. protected' = protected
      BY <1>2 DEF ListProtected, HandleExisting, ExistingDone, CreatePolicy,
                  CreateDone, RunFault, protectedVars
    <2> QED BY <1>1, <1>2, <2>1, RunPending
  <1>3. CASE BeginGroup
    <2>0. /\ run["controller"].pc = "idle" /\ deny' = deny
          /\ run["controller"] \in Runs /\ run \in [Handlers -> Runs]
      BY <1>0, <1>3 DEF BeginGroup, denyVars, TypeOK
    <2>1. PICK t \in queue :
            LET pass == [Idle EXCEPT !.pc = "list", !.for = t,
                             !.finalize = protectedCache[t] = "deleting"] IN
            \/ /\ protectedCache[t] = "none" /\ queue' = queue \ {t}
               /\ UNCHANGED <<run, protected, protectedEvents>>
            \/ /\ queue' = queue \ {t}
               /\ run' = [run EXCEPT !["controller"] = pass]
               /\ \/ UNCHANGED <<protected, protectedEvents>>
                  \/ StoreProtected(t, "live")
            \/ UNCHANGED <<queue, run, protected, protectedEvents>>
      BY <1>3 DEF BeginGroup
    <2>2. t \in ProtectedServices
      BY <1>0 DEF TypeOK
    <2> DEFINE pass == [Idle EXCEPT !.pc = "list", !.for = t,
                            !.finalize = protectedCache[t] = "deleting"]
    <2>3. pass.for = t /\ pass.pc = "list"
      BY DEF Idle
    <2>4. ~Protecting(run["controller"], s)
      BY <2>0 DEF Protecting
    <2>5. CASE /\ protectedCache[t] = "none" /\ queue' = queue \ {t}
               /\ UNCHANGED <<run, protected, protectedEvents>>
      <3>1. protected[s] = "live" /\ s = t => s \in protectedEvents
        BY <2>5 DEF DenyInv, ProtectedInv
      <3> QED BY <1>1, <2>4, <2>5, <3>1 DEF Pending
    <2>6. CASE /\ queue' = queue \ {t}
               /\ run' = [run EXCEPT !["controller"] = pass]
               /\ \/ UNCHANGED <<protected, protectedEvents>>
                  \/ StoreProtected(t, "live")
      <3>1. run'["controller"] = pass
        BY <1>0, <2>0, <2>6
      <3>2. CASE s = t
        BY <2>3, <3>1, <3>2 DEF Pending, Protecting
      <3>3. CASE s # t
        <4>1. /\ protected'[s] = protected[s]
              /\ protectedEvents \subseteq protectedEvents'
          <5>1. "live" \in Stages
            BY DEF Stages
          <5> QED BY <1>0, <2>2, <2>6, <3>3, <5>1, StoreProtectedType
        <4>2. Pending(s) => Pending(s)'
          BY <2>4, <2>6, <3>3, <4>1 DEF Pending
        <4> QED BY <1>1, <4>1, <4>2
      <3> QED BY <3>2, <3>3
    <2>7. CASE UNCHANGED <<queue, run, protected, protectedEvents>>
      BY <1>1, <2>7 DEF Pending
    <2> QED BY <2>1, <2>5, <2>6, <2>7
  <1>4. CASE FinishGroup
    <2>0. /\ run["controller"].pc = "finish" /\ queue' = queue
          /\ run["controller"].for \in ProtectedServices
      BY <1>4 DEF FinishGroup, DenyInv, TypeInv
    <2>1. /\ protected'[s] \in {protected[s], "none"}
          /\ protectedEvents \subseteq protectedEvents'
      <3>1. "none" \in Stages
        BY DEF Stages
      <3> QED BY <1>0, <1>4, <2>0, <3>1, StoreProtectedType DEF FinishGroup
    <2>2. Pending(s) => Pending(s)'
      BY <2>0, <2>1 DEF Pending, Protecting
    <2> QED BY <1>1, <2>1, <2>2
  <1>5. CASE BeginWatcher
    <2>1. UNCHANGED <<protected, protectedEvents, queue>>
          /\ run'["controller"] = run["controller"]
      BY <1>0, <1>5 DEF BeginWatcher, protectedVars, TypeOK
    <2> QED BY <1>1, <2>1 DEF Pending
  <1>6. CASE Protect \/ Unprotect
    <2>0. UNCHANGED <<queue, run>>
      BY <1>6 DEF Protect, Unprotect
    <2>1. PICK t \in ProtectedServices :
            \E stage \in {"new", "none", "deleting"} : StoreProtected(t, stage)
      BY <1>6 DEF Protect, Unprotect
    <2>2. /\ protected'[s] = "live" => protected'[s] = protected[s]
          /\ protectedEvents \subseteq protectedEvents'
      <3>1. {"new", "none", "deleting"} \subseteq Stages
        BY DEF Stages
      <3> QED BY <1>0, <2>1, <3>1, StoreProtectedType
    <2>3. Pending(s) => Pending(s)'
      BY <2>0, <2>2 DEF Pending
    <2> QED BY <1>1, <2>2, <2>3
  <1>7. CASE SyncProtected
    <2>1. PICK t \in protectedEvents : /\ protectedEvents' = protectedEvents \ {t}
                                       /\ queue' = queue \cup {t}
      BY <1>7 DEF SyncProtected
    <2>2. UNCHANGED <<protected, run>>
      BY <1>7 DEF SyncProtected
    <2> QED BY <1>1, <2>1, <2>2 DEF Pending
  <1>8. CASE Crash
    <2>1. /\ protected' = protected
          /\ queue' = {t \in ProtectedServices : protected[t] # "none"}
      BY <1>8 DEF Crash
    <2> QED BY <2>1 DEF Pending
  <1>9. CASE ToggleService \/ SyncPolicies \/ Resync \/ UNCHANGED vars
    <2>1. /\ UNCHANGED <<protected, protectedEvents, run>>
          /\ queue \subseteq queue'
      BY <1>9 DEF ToggleService, SyncPolicies, Resync, vars, protectedVars
    <2> QED BY <1>1, <2>1 DEF Pending
  <1> QED
    BY <1>2, <1>3, <1>4, <1>5, <1>6, <1>7, <1>8, <1>9 DEF Next, Step

\* Of stale lists, conflicts and failed calls: none of them makes the controller
\* come to rest with a declared server that has no policy.
THEOREM ProtectedWhenAtRest ==
    ASSUME NamesOnly, ~Recreate
    PROVE  Spec => []ProtectedAtRest
  <1>1. Init => RestInv
    <2> SUFFICES ASSUME Init, NEW s \in ProtectedServices, protected[s] = "live"
                 PROVE  deny[s] = s
      BY DEF RestInv
    <2>1. PICK live \in SUBSET ProtectedServices :
            /\ protected = [t \in ProtectedServices |->
                              IF t \in live THEN "live" ELSE "none"]
            /\ deny = [t \in ProtectedServices |->
                         IF t \in live THEN t ELSE NoPolicy]
      BY DEF Init
    <2> QED BY <2>1
  <1>2. DenyInv /\ TypeInv' /\ RestInv /\ [Next]_vars => RestInv'
    BY RestKept
  <1>3. RestInv => ProtectedAtRest
    <2> SUFFICES ASSUME RestInv, AtRest, NEW s \in ProtectedServices,
                        protected[s] = "live"
                 PROVE  deny[s] = s
      BY DEF ProtectedAtRest
    <2>1. /\ protectedEvents = {} /\ queue = {}
          /\ run["controller"].pc = "idle"
      BY IdleType DEF AtRest, Handlers
    <2> QED BY <2>1 DEF RestInv, Pending, Protecting
  <1> QED
    BY <1>1, <1>2, <1>3, DenyInvariant, TypeInvariant, PTL DEF Spec

=============================================================================

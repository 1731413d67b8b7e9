---------------------------- MODULE Traffic_proofs ----------------------------
(***************************************************************************)
(* Theorems about MCTraffic.  At rest the external policy is there exactly *)
(* when it is needed, for any Workloads and AddressLists of the Service,   *)
(* any modes, and any number of changes and of failed calls and crashes.   *)
(* The types of every part, which for Istio, Linkerd, metrics collection   *)
(* and webhooks are those of the instances in MCTraffic.                   *)
(***************************************************************************)
EXTENDS MCTraffic, TLAPS

\* A run has a time left to go over the Endpoints, and one that is to write has an
\* address to write for.
RunOK(r) ==
    /\ r.pc # "idle" => r.times > 0
    /\ r.pc = "write" => r.left # <<>>

TypeInv == External!TypeOK /\ \A h \in External!Handlers : RunOK(run[h])

\* A run, by its fields.
LEMMA RunFields ==
    ASSUME NEW r \in External!Runs
    PROVE  /\ r = [pc |-> r.pc, left |-> r.left, affected |-> r.affected,
                   found |-> r.found, times |-> r.times]
           /\ r.pc \in {"idle", "next", "remove", "look", "write"}
           /\ r.left \in Seq(Workloads) /\ r.affected \in BOOLEAN
           /\ r.found \in BOOLEAN /\ r.times \in Nat
  BY DEF External!Runs

LEMMA IdleRun == External!Idle \in External!Runs /\ RunOK(External!Idle)
  /\ External!Idle.pc = "idle"
  <1>1. External!Idle \in External!Runs
    <2>1. <<>> \in Seq(Workloads)
      OBVIOUS
    <2> QED BY <2>1 DEF External!Idle, External!Runs
  <1> QED BY <1>1 DEF External!Idle, RunOK

\* A run that begins to go over the Service.
LEMMA NewRun ==
    ASSUME NEW times \in Nat, times > 0, NEW left \in Seq(Workloads),
           NEW pc \in {"next", "remove", "look"}
    PROVE  /\ [External!Idle EXCEPT !.pc = pc, !.times = times, !.left = left] =
                [pc |-> pc, left |-> left, affected |-> FALSE, found |-> FALSE, times |-> times]
           /\ [External!Idle EXCEPT !.pc = pc, !.times = times] =
                [pc |-> pc, left |-> <<>>, affected |-> FALSE, found |-> FALSE, times |-> times]
           /\ [External!Idle EXCEPT !.pc = pc, !.times = times, !.left = left] \in External!Runs
           /\ RunOK([External!Idle EXCEPT !.pc = pc, !.times = times, !.left = left])
           /\ [External!Idle EXCEPT !.pc = pc, !.times = times] \in External!Runs
           /\ RunOK([External!Idle EXCEPT !.pc = pc, !.times = times])
  <1>1. PICK i \in External!Runs : i = External!Idle
    BY IdleRun
  <1>2. i = [pc |-> i.pc, left |-> i.left, affected |-> i.affected,
             found |-> i.found, times |-> i.times]
        /\ i.affected = FALSE /\ i.found = FALSE /\ i.left = <<>> /\ i.left \in Seq(Workloads)
    BY <1>1 DEF External!Idle, External!Runs
  <1> DEFINE i1 == [i EXCEPT !.pc = pc]
             i2 == [i1 EXCEPT !.times = times]
             i3 == [i2 EXCEPT !.left = left]
  <1>3. /\ [External!Idle EXCEPT !.pc = pc, !.times = times] = i2
        /\ [External!Idle EXCEPT !.pc = pc, !.times = times, !.left = left] = i3
    BY <1>1
  <1>4. i1 = [pc |-> pc, left |-> i.left, affected |-> i.affected,
              found |-> i.found, times |-> i.times]
    BY <1>2
  <1> HIDE DEF i1
  <1>5. i2 = [pc |-> pc, left |-> i.left, affected |-> i.affected,
              found |-> i.found, times |-> times]
    BY <1>4
  <1> HIDE DEF i2
  <1>6. i3 = [pc |-> pc, left |-> left, affected |-> i.affected,
              found |-> i.found, times |-> times]
    BY <1>5
  <1> HIDE DEF i3
  <1>7. i2 \in External!Runs /\ i3 \in External!Runs
    BY <1>2, <1>5, <1>6 DEF External!Runs
  <1>8. RunOK(i2) /\ RunOK(i3)
    BY <1>5, <1>6 DEF RunOK
  <1> QED BY <1>2, <1>3, <1>5, <1>6, <1>7, <1>8

\* A step of a handler.
LEMMA HandlerTypes ==
    ASSUME TypeInv, NEW h \in External!Handlers, NEW r \in External!Runs, RunOK(r),
           run' = [run EXCEPT ![h] = r],
           NEW q \in BOOLEAN, queued' = queued \/ queued' = [queued EXCEPT ![h] = q],
           UNCHANGED <<mode, service, ingress, External!cacheVars, removing, changes>>,
           faults' \in 0 .. MaxFaults,
           external' \in External!ExternalPolicies \cup {External!None},
             events' \subseteq {"ingress", "external"}
    PROVE  TypeInv'
  <1>1. run' \in [External!Handlers -> External!Runs]
          /\ \A g \in External!Handlers : RunOK(run'[g])
    BY DEF TypeInv, External!TypeOK
  <1>2. queued' \in [External!Handlers -> BOOLEAN]
    BY DEF TypeInv, External!TypeOK
  <1> QED BY <1>1, <1>2 DEF TypeInv, External!TypeOK, External!cacheVars

\* The end of a run.
LEMMA EndRun ==
    ASSUME TypeInv, NEW h \in External!Handlers, NEW retry \in BOOLEAN, External!End(h, retry)
    PROVE  \E q \in BOOLEAN : /\ run' = [run EXCEPT ![h] = External!Idle]
                              /\ queued' = [queued EXCEPT ![h] = q]
                              /\ retry /\ h # "intents" => q
                              /\ ~retry \/ h = "intents" => queued' = queued
  BY DEF External!End, TypeInv, External!TypeOK

\* Whether the run is over or begins again.
LEMMA NextRun ==
    ASSUME TypeInv, NEW h \in External!Handlers, run[h].pc # "idle", External!NextPod(h)
    PROVE  \E r \in External!Runs : /\ RunOK(r) /\ r.pc \in {"idle", "next"}
                           /\ run' = [run EXCEPT ![h] = r]
                           /\ queued' = queued
  <1>1. run[h] \in External!Runs /\ RunOK(run[h])
    BY DEF TypeInv, External!TypeOK
  <1>2. run[h].times \in Nat /\ run[h].times > 0
    BY <1>1, RunFields DEF RunOK
  <1>3. CASE run[h].times = 1
    <2>1. External!End(h, FALSE)
      BY <1>3 DEF External!NextPod
    <2> QED BY <2>1, EndRun, IdleRun
  <1>4. CASE run[h].times # 1
    <2> DEFINE r == [External!Idle EXCEPT !.pc = "next", !.times = run[h].times - 1]
    <2>1. run[h].times - 1 \in Nat /\ run[h].times - 1 > 0
      BY <1>2, <1>4
    <2>2. <<>> \in Seq(Workloads)
      OBVIOUS
    <2>3. r = [pc |-> "next", left |-> <<>>, affected |-> FALSE, found |-> FALSE,
               times |-> run[h].times - 1]
          /\ r \in External!Runs /\ RunOK(r)
      BY <2>1, <2>2, NewRun
    <2>4. run' = [run EXCEPT ![h] = r] /\ queued' = queued
      BY <1>4 DEF External!NextPod, External!Goto
    <2> HIDE DEF r
    <2>5. r.pc = "next"
      BY <2>3
    <2> QED BY <2>3, <2>4, <2>5
  <1> QED BY <1>3, <1>4

\* What a handler writes is a policy or none.
LEMMA StoreTypes ==
    ASSUME TypeInv, NEW p, External!Store(p)
    PROVE  /\ external' = p /\ events' \subseteq {"ingress", "external"}
           /\ events' = {} => events = {} /\ external' = external
  BY DEF External!Store, TypeInv, External!TypeOK

LEMMA DeleteTypes ==
    ASSUME TypeInv, External!Delete
    PROVE  /\ external' \in External!ExternalPolicies \cup {External!None}
           /\ events' \subseteq {"ingress", "external"}
           /\ events' = {} => events = {} /\ external' = external
           /\ externalCache # External!None => external' = External!None
  <1> DEFINE p == IF externalCache = External!None THEN external ELSE External!None
  <1>1. External!Store(p)
    BY DEF External!Delete
  <1>2. p \in External!ExternalPolicies \cup {External!None} /\ (externalCache # External!None
          => p = External!None)
    BY DEF TypeInv, External!TypeOK
  <1> HIDE DEF p
  <1> QED BY <1>1, <1>2, StoreTypes

\* What CreateOrUpdate does, in types, and if it leaves everything as it was.
LEMMA UpdateTypes ==
    ASSUME TypeInv, NEW h \in External!Handlers, NEW w \in Workloads,
           NEW s \in Workloads \cup {"service"},
           NEW next \in External!Runs, RunOK(next),
           External!CreateOrUpdate(h, [selector |-> s, label |-> w], next)
    PROVE  /\ external' \in External!ExternalPolicies \cup {External!None}
           /\ events' \subseteq {"ingress", "external"}
           /\ events' = {} => events = {} /\ external' = external
           /\ \/ run' = [run EXCEPT ![h] = next] /\ queued' = queued
                 /\ (externalCache = external /\ external' = external =>
                       external = [selector |-> s, label |-> w])
              \/ /\ externalCache # external
                 /\ \E q \in BOOLEAN : /\ run' = [run EXCEPT ![h] = External!Idle]
                                       /\ queued' = [queued EXCEPT ![h] = q]
                                       /\ h # "intents" => q
  <1> DEFINE p == [selector |-> s, label |-> w]
             patch == [selector |-> IF externalCache.selector = p.selector
                              THEN external.selector ELSE p.selector,
                       label |-> IF externalCache.label = p.label
                           THEN external.label ELSE p.label]
  <1>1. p \in External!ExternalPolicies /\ p.selector = s /\ p.label = w
    BY DEF External!ExternalPolicies
  <1>2. external \in External!ExternalPolicies \cup {External!None}
          /\ externalCache \in External!ExternalPolicies \cup {External!None}
        /\ events \subseteq {"ingress", "external"}
    BY DEF TypeInv, External!TypeOK
  <1> HIDE DEF p
  <1>3. CASE externalCache = External!None /\ external = External!None /\ External!Store(p)
               /\ External!Goto(h, next)
    <2>1. external' = p
      BY <1>3, StoreTypes
    <2>2. p = external => externalCache = external /\ external = p
      BY <1>3
    <2> QED BY <1>1, <1>3, <2>1, StoreTypes DEF External!Goto, p
  <1>4. CASE externalCache = p /\ External!Goto(h, next) /\ UNCHANGED <<external, events>>
    BY <1>2, <1>4 DEF External!Goto, p
  <1>5. CASE externalCache \notin {External!None, p} /\ external # External!None
               /\ External!Store(patch) /\ External!Goto(h, next)
    <2>1. external \in External!ExternalPolicies
      BY <1>2, <1>5
    <2>2. external = [selector |-> external.selector, label |-> external.label]
          /\ external.selector \in Workloads \cup {"service"} /\ external.label \in Workloads
      BY <2>1 DEF External!ExternalPolicies
    <2>3. patch \in External!ExternalPolicies
      BY <1>1, <2>2 DEF External!ExternalPolicies
    <2>4. externalCache = external => patch = p
      BY <1>1, <2>2 DEF p
    <2> HIDE DEF patch
    <2>5. external' = patch
      BY <1>5, StoreTypes
    <2> QED BY <1>5, <2>3, <2>4, <2>5, StoreTypes DEF External!Goto, p
  <1>6. CASE /\ \/ externalCache = External!None /\ external # External!None
                \/ externalCache \notin {External!None, p} /\ external = External!None
             /\ External!End(h, TRUE) /\ UNCHANGED <<external, events>>
    <2>1. externalCache # external
      BY <1>6
    <2> QED BY <1>2, <1>6, <2>1, EndRun
  <1>7. External!CreateOrUpdate(h, p, next)
    BY DEF p
  <1> QED BY <1>3, <1>4, <1>5, <1>6, <1>7 DEF External!CreateOrUpdate

-----------------------------------------------------------------------------
(* What the handlers that see everything and have nothing to do again have found. *)

Known == serviceCache.addresses

\* The policy that an address of w calls for.
Expected(w) ==
    IF mode # "off" /\ External!Affected(w, ingressCache) THEN [selector |-> w, label |-> w]
    ELSE IF mode = "always" THEN [selector |-> "service", label |-> w]
    ELSE External!None

\* The policy is the one that every address calls for.
Matching ==
    IF serviceCache.exposed THEN \A i \in 1 .. Len(Known) : external = Expected(Known[i])
    ELSE external = External!None

\* So far h has found the policy as it should be.
Agreeing(h) ==
    LET r == run[h]
        n == Len(Known) - Len(r.left) IN
    \/ r.pc = "remove" /\ ~serviceCache.exposed
    \/ /\ r.pc \in {"look", "write"} /\ serviceCache.exposed
       /\ Len(r.left) <= Len(Known)
       /\ \A j \in 1 .. Len(r.left) : r.left[j] = Known[n + j]
       /\ \A i \in 1 .. n : external = Expected(Known[i])
       /\ r.pc = "write" => (r.affected <=> External!Affected(Head(r.left), ingressCache))

\* The caches have what no event is to tell of.  When no event is left and no
\* controller is to handle the Service, the policy is as it should be, or a
\* controller that is handling it has found no other so far.
Quiet == events = {} /\ ~queued["service"] /\ ~queued["netpol"]

AgreeInv ==
    /\ "ingress" \notin events => ingressCache = ingress
    /\ "external" \notin events => externalCache = external
    /\ Quiet => Known = <<>> \/ Matching \/ Agreeing("service") \/ Agreeing("netpol")

\* A step of h that leaves nothing to be done again changes no policy.
LEMMA HandlerAgrees ==
    ASSUME TypeInv, AgreeInv, NEW h \in External!Handlers, NEW r,
           run' = [run EXCEPT ![h] = r],
           UNCHANGED <<mode, ingress, External!cacheVars>>,
           events' = events \/ "external" \in events',
           "ingress" \in events => "ingress" \in events',
           events' = {} => external' = external,
           "external" \notin events' => external' = external,
           Quiet' => \/ Quiet /\ (h # "intents" /\ Agreeing(h) => Matching \/ Agreeing(h)')
                     \/ h # "intents" /\ Agreeing(h)'
                     \/ Known = <<>>
    PROVE  AgreeInv'
  <1>0. UNCHANGED <<serviceCache, ingressCache, externalCache>>
    BY DEF External!cacheVars
  <1>1. ("ingress" \notin events => ingressCache = ingress)'
    BY <1>0 DEF AgreeInv
  <1>2. ("external" \notin events => externalCache = external)'
    BY <1>0 DEF AgreeInv
  <1>3. ASSUME Quiet'
        PROVE  (Known = <<>> \/ Matching \/ Agreeing("service") \/ Agreeing("netpol"))'
    <2>0. external' = external /\ Known' = Known
      BY <1>0, <1>3 DEF Quiet, Known
    <2>1. Matching => Matching'
      BY <1>0, <2>0 DEF Matching, Known, Expected
    <2>2. ASSUME NEW g \in External!Handlers, g # h, Agreeing(g) PROVE Agreeing(g)'
      <3>1. run'[g] = run[g]
        BY <2>2 DEF TypeInv, External!TypeOK
      <3> QED BY <1>0, <2>0, <2>2, <3>1 DEF Agreeing, Known, Expected
    <2>3. "service" \in External!Handlers /\ "netpol" \in External!Handlers
      BY DEF External!Handlers
    <2>4. CASE Known = <<>>
      BY <2>0, <2>4
    <2>5. CASE h # "intents" /\ Agreeing(h)'
      BY <2>5 DEF External!Handlers
    <2>6. CASE Quiet /\ (h # "intents" /\ Agreeing(h) => Matching \/ Agreeing(h)')
      <3>1. Matching \/ Agreeing("service") \/ Agreeing("netpol") \/ Known = <<>>
        BY <2>6 DEF AgreeInv
      <3>2. ASSUME NEW g \in {"service", "netpol"}, Agreeing(g)
            PROVE  Matching' \/ Agreeing(g)'
        <4>1. CASE g = h
          BY <2>1, <2>6, <3>2, <4>1
        <4>2. CASE g # h
          BY <2>2, <2>3, <3>2, <4>2
        <4> QED BY <4>1, <4>2
      <3> QED BY <2>0, <2>1, <3>1, <3>2
    <2> QED BY <1>3, <2>4, <2>5, <2>6
  <1> QED BY <1>1, <1>2, <1>3 DEF AgreeInv

LEMMA BeginInv ==
    ASSUME TypeInv, AgreeInv, NEW h \in External!Handlers, External!Begin(h)
    PROVE  TypeInv' /\ AgreeInv'
  <1> DEFINE times == IF run[h].pc = "next" THEN run[h].times
                      ELSE IF h = "service" THEN 1 ELSE Len(serviceCache.addresses)
             r == IF times = 0 THEN External!Idle
                  ELSE IF serviceCache.exposed
                  THEN [External!Idle EXCEPT !.pc = "look", !.times = times,
                    !.left = serviceCache.addresses]
                  ELSE [External!Idle EXCEPT !.pc = "remove", !.times = times]
  <1>1. /\ run' = [run EXCEPT ![h] = r] /\ queued' = [queued EXCEPT ![h] = @
             /\ run[h].pc = "next"]
        /\ UNCHANGED <<mode, External!clusterVars, External!cacheVars, events, removing,
             changes, faults>>
        /\ run[h].pc \in {"next", "idle"}
    BY DEF External!Begin
  <1>2. /\ run[h] \in External!Runs /\ RunOK(run[h])
             /\ serviceCache.addresses \in Seq(Workloads)
        /\ serviceCache.exposed \in BOOLEAN
    BY ConstantsAssumption DEF TypeInv, External!TypeOK, External!ServiceStates,
       External!ConstantsAssumption
  <1>3. times \in Nat
    BY <1>2, RunFields
  <1>4. /\ r \in External!Runs /\ RunOK(r)
        /\ times # 0 /\ serviceCache.exposed => r.pc = "look" /\ r.left = serviceCache.addresses
        /\ times # 0 /\ ~serviceCache.exposed => r.pc = "remove"
    <2>1. CASE times = 0
      BY <2>1, IdleRun
    <2>2. CASE times # 0 /\ serviceCache.exposed
      <3> DEFINE s == [External!Idle EXCEPT !.pc = "look", !.times = times,
        !.left = serviceCache.addresses]
      <3>1. r = s
        BY <2>2
      <3>2. s \in External!Runs /\ RunOK(s)
            /\ s = [pc |-> "look", left |-> serviceCache.addresses, affected |-> FALSE,
                    found |-> FALSE, times |-> times]
        <4>1. times > 0
          BY <1>3, <2>2
        <4> HIDE DEF times
        <4> QED BY <1>2, <1>3, <4>1, NewRun
      <3> HIDE DEF s, r, times
      <3> QED BY <2>2, <3>1, <3>2
    <2>3. CASE times # 0 /\ ~serviceCache.exposed
      <3> DEFINE s == [External!Idle EXCEPT !.pc = "remove", !.times = times]
      <3>1. r = s
        BY <2>3
      <3>2. s \in External!Runs /\ RunOK(s)
            /\ s = [pc |-> "remove", left |-> <<>>, affected |-> FALSE,
                    found |-> FALSE, times |-> times]
        <4>1. times > 0
          BY <1>3, <2>3
        <4> HIDE DEF times
        <4> QED BY <1>2, <1>3, <4>1, NewRun
      <3> HIDE DEF s, r, times
      <3> QED BY <2>3, <3>1, <3>2
    <2> QED BY <1>2, <2>1, <2>2, <2>3
  <1> HIDE DEF r
  <1>5. TypeInv'
    <2>1. PICK q \in BOOLEAN : q = (queued[h] /\ run[h].pc = "next")
      BY DEF TypeInv, External!TypeOK
    <2>2. queued' = [queued EXCEPT ![h] = q]
      BY <1>1, <2>1 DEF TypeInv, External!TypeOK
    <2>3. /\ external' \in External!ExternalPolicies \cup {External!None}
               /\ events' \subseteq {"ingress", "external"}
          /\ faults' \in 0 .. MaxFaults
      BY <1>1 DEF TypeInv, External!TypeOK, External!clusterVars
    <2> HIDE DEF times
    <2> QED BY <1>1, <1>4, <2>2, <2>3, HandlerTypes DEF External!clusterVars
  <1>6. ASSUME Quiet'
        PROVE  \/ Quiet /\ (h # "intents" /\ Agreeing(h) => Matching \/ Agreeing(h)')
               \/ h # "intents" /\ Agreeing(h)'
               \/ Known = <<>>
    <2>1. ~Agreeing(h)
      BY <1>1 DEF Agreeing
    <2>2. CASE run[h].pc = "next" \/ h = "intents"
      <3>1. queued'["service"] = queued["service"] /\ queued'["netpol"] = queued["netpol"]
        BY <1>1, <2>2 DEF TypeInv, External!TypeOK, External!Handlers
      <3> QED BY <1>1, <1>6, <2>1, <3>1 DEF Quiet
    <2>3. CASE run[h].pc # "next" /\ h # "intents" /\ times = 0
      BY <1>2, <2>3 DEF Known
    <2>4. CASE times # 0 /\ h # "intents"
      <3>1. run'[h] = r /\ serviceCache' = serviceCache
        BY <1>1 DEF TypeInv, External!TypeOK, External!cacheVars
      <3> HIDE DEF times
      <3>2. Len(serviceCache.addresses) \in Nat
        BY <1>2
      <3>3. CASE serviceCache.exposed
        <4>1. r.pc = "look" /\ r.left = serviceCache.addresses
          BY <1>4, <2>4, <3>3
        <4>2. Agreeing(h)'
          BY <3>1, <3>2, <3>3, <4>1 DEF Agreeing, Known
        <4> QED BY <2>4, <4>2
      <3>4. CASE ~serviceCache.exposed
        <4>1. Agreeing(h)'
          BY <1>4, <2>4, <3>1, <3>4 DEF Agreeing
        <4> QED BY <2>4, <4>1
      <3> QED BY <3>3, <3>4
    <2> QED BY <2>2, <2>3, <2>4
  <1>7. AgreeInv'
    <2> HIDE DEF times
    <2> QED BY <1>1, <1>6, HandlerAgrees DEF External!clusterVars
  <1> QED BY <1>5, <1>7

\* While no event is left the policy is the one in the cache.
LEMMA CachedWhenQuiet ==
    ASSUME AgreeInv, events = {}
    PROVE  externalCache = external /\ ingressCache = ingress
  BY DEF AgreeInv

LEMMA RemovePolicyInv ==
    ASSUME TypeInv, AgreeInv, NEW h \in External!Handlers, External!RemovePolicy(h)
    PROVE  TypeInv' /\ AgreeInv'
  <1>1. run[h].pc = "remove" /\ External!Delete /\ External!NextPod(h)
        /\ UNCHANGED <<mode, service, ingress, External!cacheVars, removing, changes, faults>>
    BY DEF External!RemovePolicy
  <1>2. PICK r \in External!Runs : /\ RunOK(r) /\ r.pc \in {"idle", "next"}
                          /\ run' = [run EXCEPT ![h] = r] /\ queued' = queued
    BY <1>1, NextRun
  <1>3. /\ external' \in External!ExternalPolicies \cup {External!None}
             /\ events' \subseteq {"ingress", "external"}
        /\ events' = {} => events = {} /\ external' = external
        /\ externalCache # External!None => external' = External!None
    BY <1>1, DeleteTypes
  <1>4. TypeInv'
    <2>1. faults' \in 0 .. MaxFaults /\ UNCHANGED <<mode, service, ingress, External!cacheVars,
            removing, changes>>
      BY <1>1 DEF TypeInv, External!TypeOK
    <2> QED BY <1>2, <1>3, <2>1, HandlerTypes
  <1>5. /\ events' = events \/ "external" \in events'
        /\ "ingress" \in events => "ingress" \in events'
        /\ "external" \notin events' => external' = external
    BY <1>1 DEF External!Delete, External!Store
  <1>6. ASSUME Quiet'
        PROVE  Quiet /\ (h # "intents" /\ Agreeing(h) => Matching \/ Agreeing(h)')
    <2>1. Quiet /\ external' = external /\ externalCache = external
      BY <1>2, <1>3, <1>6, CachedWhenQuiet DEF Quiet
    <2>2. external = External!None
      BY <1>3, <2>1
    <2>3. Agreeing(h) => Matching
      BY <1>1, <2>2 DEF Agreeing, Matching
    <2> QED BY <2>1, <2>3
  <1>7. AgreeInv'
    BY <1>1, <1>2, <1>3, <1>5, <1>6, HandlerAgrees
  <1> QED BY <1>4, <1>7

LEMMA LookAtAddressInv ==
    ASSUME TypeInv, AgreeInv, NEW h \in External!Handlers, External!LookAtAddress(h)
    PROVE  TypeInv' /\ AgreeInv'
  <1> DEFINE affected == External!Affected(Head(run[h].left), ingressCache)
             r == [run[h] EXCEPT !.pc = "write", !.affected = affected, !.found = @ \/ affected]
  <1>1. /\ run[h].pc = "look" /\ run[h].left # <<>>
        /\ run' = [run EXCEPT ![h] = r] /\ queued' = queued
        /\ UNCHANGED <<mode, External!clusterVars, External!cacheVars, events, removing,
             changes, faults>>
    BY DEF External!LookAtAddress, External!Goto
  <1>2. run[h] \in External!Runs /\ RunOK(run[h])
    BY DEF TypeInv, External!TypeOK
  <1>3. PICK b \in BOOLEAN, f \in BOOLEAN : b = affected /\ f = (run[h].found \/ affected)
    BY DEF External!Affected
  <1>4. r = [pc |-> "write", left |-> run[h].left, affected |-> b, found |-> f,
          times |-> run[h].times]
    <2>1. PICK o \in External!Runs : o = run[h]
      BY <1>2
    <2> DEFINE o1 == [o EXCEPT !.pc = "write"]
               o2 == [o1 EXCEPT !.affected = b]
               o3 == [o2 EXCEPT !.found = f]
    <2>2. r = o3
      BY <1>3, <2>1
    <2>3. o1 = [pc |-> "write", left |-> o.left, affected |-> o.affected, found |-> o.found,
            times |-> o.times]
      BY RunFields
    <2> HIDE DEF o1
    <2>4. o2 = [pc |-> "write", left |-> o.left, affected |-> b, found |-> o.found,
            times |-> o.times]
      BY <2>3
    <2> HIDE DEF o2
    <2>5. o3 = [pc |-> "write", left |-> o.left, affected |-> b, found |-> f, times |-> o.times]
      BY <2>4
    <2> HIDE DEF o3, r
    <2> QED BY <2>1, <2>2, <2>5
  <1> HIDE DEF r
  <1>5. r \in External!Runs /\ RunOK(r)
    BY <1>1, <1>2, <1>4, RunFields DEF External!Runs, RunOK
  <1>6. TypeInv'
    <2>1. /\ faults' \in 0 .. MaxFaults /\ UNCHANGED <<mode, service, ingress,
               External!cacheVars, removing, changes>>
          /\ external' \in External!ExternalPolicies \cup {External!None}
               /\ events' \subseteq {"ingress", "external"}
      BY <1>1 DEF TypeInv, External!TypeOK, External!clusterVars
    <2> QED BY <1>1, <1>5, <2>1, HandlerTypes
  <1>7. Agreeing(h) => Agreeing(h)'
    <2>1. run'[h] = r /\ UNCHANGED <<serviceCache, ingressCache, external, mode>>
      BY <1>1 DEF TypeInv, External!TypeOK, External!clusterVars, External!cacheVars
    <2>2. r.pc = "write" /\ r.left = run[h].left /\ (r.affected <=> affected)
      BY <1>3, <1>4
    <2> HIDE DEF affected
    <2>3. Agreeing(h) =>
            LET n == Len(Known) - Len(run[h].left) IN
            /\ serviceCache.exposed /\ Len(run[h].left) <= Len(Known)
            /\ \A j \in 1 .. Len(run[h].left) : run[h].left[j] = Known[n + j]
            /\ \A i \in 1 .. n : external = Expected(Known[i])
      BY <1>1 DEF Agreeing
    <2> QED BY <2>1, <2>2, <2>3 DEF Agreeing, Known, Expected, affected
  <1>8. Quiet' => Quiet
    BY <1>1 DEF Quiet
  <1>9. AgreeInv'
    <2>1. UNCHANGED <<mode, service, ingress, External!cacheVars>> /\ events' = events
            /\ external' = external
      BY <1>1 DEF External!clusterVars
    <2> HIDE DEF affected
    <2> QED BY <1>1, <1>7, <1>8, <2>1, HandlerAgrees
  <1> QED BY <1>6, <1>9

\* A removal that leaves no event was of a policy that was not there.
LEMMA DeleteQuiet ==
    ASSUME TypeInv, AgreeInv, External!Delete, events' = {}
    PROVE  external = External!None /\ external' = External!None /\ externalCache = external
           /\ ingressCache = ingress
  <1>1. events = {} /\ external' = external /\ (externalCache # External!None
          => external' = External!None)
    BY DeleteTypes
  <1>2. externalCache = external /\ ingressCache = ingress
    BY <1>1, CachedWhenQuiet
  <1> QED BY <1>1, <1>2

\* A write or removal tells the informer of what it changes.
LEMMA StoreEvents ==
    ASSUME NEW p, External!Store(p)
    PROVE  /\ events' = events \/ "external" \in events'
           /\ "ingress" \in events => "ingress" \in events'
           /\ "external" \notin events' => external' = external
  BY DEF External!Store

LEMMA UpdateEvents ==
    ASSUME NEW h, NEW p, NEW next, External!CreateOrUpdate(h, p, next)
    PROVE  /\ events' = events \/ "external" \in events'
           /\ "ingress" \in events => "ingress" \in events'
           /\ "external" \notin events' => external' = external
  <1>1. CASE UNCHANGED <<external, events>>
    BY <1>1
  <1>2. CASE \E q : External!Store(q)
    BY <1>2, StoreEvents
  <1> QED BY <1>1, <1>2 DEF External!CreateOrUpdate

\* The run of a handler that is done with the first address.
LEMMA RestRun ==
    ASSUME NEW o \in External!Runs, RunOK(o), o.left # <<>>
    PROVE  LET r == [o EXCEPT !.pc = "look", !.left = Tail(@), !.affected = FALSE] IN
           /\ r = [pc |-> "look", left |-> Tail(o.left), affected |-> FALSE,
                   found |-> o.found, times |-> o.times]
           /\ o.pc # "idle" => r \in External!Runs /\ RunOK(r)
  <1> DEFINE r == [o EXCEPT !.pc = "look", !.left = Tail(@), !.affected = FALSE]
             o1 == [o EXCEPT !.pc = "look"]
             o2 == [o1 EXCEPT !.left = Tail(o.left)]
  <1>1. PICK b \in BOOLEAN : b = FALSE
    OBVIOUS
  <1> DEFINE o3 == [o2 EXCEPT !.affected = b]
  <1>2. r = o3
    BY <1>1
  <1>3. o1 = [pc |-> "look", left |-> o.left, affected |-> o.affected, found |-> o.found,
              times |-> o.times]
    BY RunFields
  <1> HIDE DEF o1
  <1>4. o2 = [pc |-> "look", left |-> Tail(o.left), affected |-> o.affected,
              found |-> o.found, times |-> o.times]
    BY <1>3
  <1> HIDE DEF o2
  <1>5. o3 = [pc |-> "look", left |-> Tail(o.left), affected |-> b, found |-> o.found,
              times |-> o.times]
    BY <1>4
  <1> HIDE DEF o3, r
  <1>6. Tail(o.left) \in Seq(Workloads)
    BY RunFields
  <1>7. o.pc # "idle" => r \in External!Runs /\ RunOK(r)
    BY <1>2, <1>5, <1>6, RunFields DEF External!Runs, RunOK
  <1>8. r = [pc |-> "look", left |-> Tail(o.left), affected |-> FALSE,
             found |-> o.found, times |-> o.times]
    BY <1>1, <1>2, <1>5
  <1> QED BY <1>7, <1>8 DEF r

\* A handler that has found the policy to be the one that its address calls for
\* agrees on the address too.
LEMMA AgreesOnAddress ==
    ASSUME TypeInv, NEW h \in External!Handlers, run[h].pc = "write", Agreeing(h),
           run'[h].pc = "look", run'[h].left = Tail(run[h].left),
           external' = external,
           UNCHANGED <<mode, External!cacheVars>>,
           external = Expected(Head(run[h].left))
    PROVE  Agreeing(h)'
  <1> DEFINE left == run[h].left
             m == Len(left)
             k == Len(Known)
  <1>1. left \in Seq(Workloads) /\ left # <<>> /\ Known \in Seq(Workloads)
    BY ConstantsAssumption, RunFields DEF TypeInv, External!TypeOK, RunOK,
       External!ServiceStates, External!ConstantsAssumption, Known
  <1>2. /\ serviceCache.exposed /\ m <= k
        /\ \A j \in 1 .. m : left[j] = Known[k - m + j]
        /\ \A i \in 1 .. (k - m) : external = Expected(Known[i])
    BY DEF Agreeing
  <1>3. m \in Nat /\ m > 0 /\ k \in Nat /\ Head(left) = left[1]
        /\ Len(Tail(left)) = m - 1 /\ \A j \in 1 .. (m - 1) : Tail(left)[j] = left[j + 1]
    BY <1>1
  <1>4. UNCHANGED <<serviceCache, ingressCache>> /\ Known' = Known
    BY DEF External!cacheVars, Known
  <1>5. \A w : Expected(w)' = Expected(w)
    BY <1>4 DEF Expected
  <1> HIDE DEF left, m, k
  <1>6. \A j \in 1 .. (m - 1) : Tail(left)[j] = Known[k - (m - 1) + j]
    BY <1>2, <1>3
  <1>7. external = Expected(Known[k - m + 1])
    BY <1>2, <1>3 DEF left
  <1>8. \A i \in 1 .. (k - (m - 1)) : external = Expected(Known[i])
    <2>1. \A i \in 1 .. (k - (m - 1)) : i \in 1 .. (k - m) \/ i = k - m + 1
      BY <1>2, <1>3
    <2> QED BY <1>2, <1>7, <2>1
  <1>9. run'[h].left = Tail(left) /\ Len(Known') = k
    BY <1>4 DEF left, k
  <1>10. Len(run'[h].left) = m - 1 /\ run'[h].pc = "look" /\ serviceCache'.exposed
    BY <1>2, <1>3, <1>4, <1>9
  <1>11. \A j \in 1 .. Len(run'[h].left) :
           run'[h].left[j] = Known'[Len(Known') - Len(run'[h].left) + j]
    BY <1>4, <1>6, <1>9, <1>10
  <1>12. \A i \in 1 .. (Len(Known') - Len(run'[h].left)) : external' = Expected(Known[i])'
    BY <1>4, <1>5, <1>8, <1>9, <1>10
  <1>13. Len(run'[h].left) <= Len(Known') /\ run'[h].pc # "write"
    BY <1>2, <1>3, <1>9, <1>10
  <1> QED BY <1>10, <1>11, <1>12, <1>13 DEF Agreeing

\* What an address calls for, when it is known whether it is affected.
LEMMA ExpectedCases ==
    ASSUME NEW w, NEW b \in BOOLEAN, b <=> External!Affected(w, ingressCache)
    PROVE  /\ (IF b THEN mode = "off" ELSE mode # "always") => Expected(w) = External!None
           /\ ~b /\ mode = "always" => Expected(w) = [selector |-> "service", label |-> w]
           /\ b /\ mode # "off" => Expected(w) = [selector |-> w, label |-> w]
  BY Zenon DEF Expected

LEMMA HandleAddressInv ==
    ASSUME TypeInv, AgreeInv, NEW h \in External!Handlers, External!HandleAddress(h)
    PROVE  TypeInv' /\ AgreeInv'
  <1> DEFINE w == Head(run[h].left)
             rest == [run[h] EXCEPT !.pc = "look", !.left = Tail(@), !.affected = FALSE]
             deleted == /\ IF run[h].affected THEN mode = "off" ELSE mode # "always"
                        /\ External!Delete /\ External!Goto(h, rest)
             updated(s) == External!CreateOrUpdate(h, [selector |-> s, label |-> w], rest)
  <1>1. /\ run[h].pc = "write"
        /\ UNCHANGED <<mode, service, ingress, External!cacheVars, removing, changes, faults>>
        /\ \/ deleted
           \/ ~run[h].affected /\ mode = "always" /\ updated("service")
           \/ run[h].affected /\ mode # "off" /\ updated(w)
    BY DEF External!HandleAddress
  <1>2. /\ run[h] \in External!Runs /\ RunOK(run[h]) /\ run[h].left # <<>>
             /\ run[h].affected \in BOOLEAN
        /\ run[h].left \in Seq(Workloads)
    BY <1>1, RunFields DEF TypeInv, External!TypeOK, RunOK
  <1>3. w \in Workloads
    BY <1>2
  <1>4. /\ rest = [pc |-> "look", left |-> Tail(run[h].left), affected |-> FALSE,
                   found |-> run[h].found, times |-> run[h].times]
        /\ rest \in External!Runs /\ RunOK(rest)
    BY <1>1, <1>2, RestRun
  <1>5. rest.pc = "look" /\ rest.left = Tail(run[h].left)
    BY <1>4
  <1> HIDE DEF rest, w
  <1>6. UNCHANGED <<mode, service, ingress, External!cacheVars, removing, changes>>
          /\ faults' \in 0 .. MaxFaults
    BY <1>1 DEF TypeInv, External!TypeOK
  <1>7. Agreeing(h) => (run[h].affected <=> External!Affected(w, ingressCache))
    BY <1>1 DEF Agreeing, w
  <1>8. ASSUME run' = [run EXCEPT ![h] = rest], queued' = queued,
               external' \in External!ExternalPolicies \cup {External!None},
               events' \subseteq {"ingress", "external"},
               events' = {} => events = {} /\ external' = external,
               events' = events \/ "external" \in events',
               "ingress" \in events => "ingress" \in events',
               "external" \notin events' => external' = external,
               Quiet' /\ Agreeing(h) => external = Expected(w)
        PROVE  TypeInv' /\ AgreeInv'
    <2>1. TypeInv'
      BY <1>4, <1>6, <1>8, HandlerTypes
    <2>2. run'[h] = rest
      BY <1>8 DEF TypeInv, External!TypeOK
    <2>3. ASSUME Quiet' PROVE Quiet /\ (Agreeing(h) => Agreeing(h)')
      <3>1. Quiet /\ external' = external
        BY <1>8, <2>3 DEF Quiet
      <3>2. Agreeing(h) => Agreeing(h)'
        BY <1>1, <1>5, <1>6, <1>8, <2>2, <2>3, <3>1, AgreesOnAddress DEF w
      <3> QED BY <3>1, <3>2
    <2>4. AgreeInv'
      BY <1>6, <1>8, <2>3, HandlerAgrees
    <2> QED BY <2>1, <2>4
  <1>9. CASE deleted
    <2>1. /\ events' = events \/ "external" \in events'
          /\ "ingress" \in events => "ingress" \in events'
          /\ "external" \notin events' => external' = external
      BY <1>9, StoreEvents DEF External!Delete
    <2>2. Quiet' /\ Agreeing(h) => external = Expected(w)
      BY <1>2, <1>7, <1>9, DeleteQuiet, ExpectedCases DEF Quiet
    <2> QED BY <1>8, <1>9, <2>1, <2>2, DeleteTypes DEF External!Goto
  <1>10. ASSUME NEW s \in Workloads \cup {"service"}, updated(s),
                Agreeing(h) => Expected(w) = [selector |-> s, label |-> w]
         PROVE  TypeInv' /\ AgreeInv'
    <2> DEFINE policy == [selector |-> s, label |-> w]
    <2>1. /\ events' = events \/ "external" \in events'
          /\ "ingress" \in events => "ingress" \in events'
          /\ "external" \notin events' => external' = external
      BY <1>10, UpdateEvents
    <2>2. /\ external' \in External!ExternalPolicies \cup {External!None}
          /\ events' \subseteq {"ingress", "external"}
          /\ events' = {} => events = {} /\ external' = external
          /\ \/ run' = [run EXCEPT ![h] = rest] /\ queued' = queued
                /\ (externalCache = external /\ external' = external => external = policy)
             \/ /\ externalCache # external
                /\ \E q \in BOOLEAN : /\ run' = [run EXCEPT ![h] = External!Idle]
                                      /\ queued' = [queued EXCEPT ![h] = q]
                                      /\ h # "intents" => q
      BY <1>3, <1>4, <1>10, UpdateTypes
    <2>3. CASE run' = [run EXCEPT ![h] = rest] /\ queued' = queued
               /\ (externalCache = external /\ external' = external => external = policy)
      <3>1. ASSUME Quiet', Agreeing(h) PROVE external = Expected(w)
        <4>1. events = {} /\ external' = external
          BY <2>2, <3>1 DEF Quiet
        <4>2. externalCache = external
          BY <4>1, CachedWhenQuiet
        <4> QED BY <1>10, <2>3, <3>1, <4>1, <4>2
      <3> HIDE DEF policy
      <3> QED BY <1>8, <2>1, <2>2, <2>3, <3>1
    <2>4. CASE /\ externalCache # external
               /\ \E q \in BOOLEAN : /\ run' = [run EXCEPT ![h] = External!Idle]
                                     /\ queued' = [queued EXCEPT ![h] = q]
                                     /\ h # "intents" => q
      <3>1. PICK q \in BOOLEAN : /\ run' = [run EXCEPT ![h] = External!Idle]
                                 /\ queued' = [queued EXCEPT ![h] = q]
                                 /\ h # "intents" => q
        BY <2>4
      <3>2. TypeInv'
        BY <1>6, <2>2, <3>1, IdleRun, HandlerTypes
      <3>3. ~Quiet'
        BY <2>2, <2>4, CachedWhenQuiet DEF Quiet
      <3>4. AgreeInv'
        BY <1>6, <2>1, <2>2, <3>1, <3>3, HandlerAgrees
      <3> QED BY <3>2, <3>4
    <2> HIDE DEF policy
    <2> QED BY <2>2, <2>3, <2>4
  <1>11. CASE ~run[h].affected /\ mode = "always" /\ updated("service")
    BY <1>2, <1>7, <1>10, <1>11, ExpectedCases
  <1>12. CASE run[h].affected /\ mode # "off" /\ updated(w)
    BY <1>2, <1>3, <1>7, <1>10, <1>12, ExpectedCases
  <1> HIDE DEF deleted, updated
  <1> QED BY <1>1, <1>9, <1>11, <1>12

LEMMA AddressesDoneInv ==
    ASSUME TypeInv, AgreeInv, NEW h \in External!Handlers, External!AddressesDone(h)
    PROVE  TypeInv' /\ AgreeInv'
  <1>1. /\ run[h].pc = "look" /\ run[h].left = <<>> /\ External!NextPod(h)
        /\ External!Delete \/ UNCHANGED <<external, events>>
        /\ UNCHANGED <<mode, service, ingress, External!cacheVars, removing, changes, faults>>
    BY DEF External!AddressesDone
  <1>2. PICK r \in External!Runs : /\ RunOK(r) /\ r.pc \in {"idle", "next"}
                          /\ run' = [run EXCEPT ![h] = r] /\ queued' = queued
    BY <1>1, NextRun
  <1>3. /\ external' \in External!ExternalPolicies \cup {External!None}
             /\ events' \subseteq {"ingress", "external"}
        /\ events' = {} => events = {} /\ external' = external
    BY <1>1, DeleteTypes DEF TypeInv, External!TypeOK
  <1>4. TypeInv'
    <2>1. faults' \in 0 .. MaxFaults /\ UNCHANGED <<mode, service, ingress, External!cacheVars,
            removing, changes>>
      BY <1>1 DEF TypeInv, External!TypeOK
    <2> QED BY <1>2, <1>3, <2>1, HandlerTypes
  <1>5. /\ events' = events \/ "external" \in events'
        /\ "ingress" \in events => "ingress" \in events'
        /\ "external" \notin events' => external' = external
    BY <1>1, StoreEvents DEF External!Delete
  <1>6. Agreeing(h) => Matching
    <2>1. Known \in Seq(Workloads)
      BY ConstantsAssumption DEF TypeInv, External!TypeOK, External!ServiceStates,
         External!ConstantsAssumption, Known
    <2>2. Len(run[h].left) = 0 /\ Len(Known) \in Nat /\ Len(Known) - 0 = Len(Known)
      BY <1>1, <2>1
    <2> QED BY <1>1, <2>2 DEF Agreeing, Matching
  <1>7. Quiet' => Quiet
    BY <1>2, <1>3 DEF Quiet
  <1>8. AgreeInv'
    BY <1>1, <1>2, <1>3, <1>5, <1>6, <1>7, HandlerAgrees
  <1> QED BY <1>4, <1>8

LEMMA RunFaultInv ==
    ASSUME TypeInv, AgreeInv, NEW h \in External!Handlers, External!RunFault(h)
    PROVE  TypeInv' /\ AgreeInv'
  <1>1. /\ faults < MaxFaults /\ faults' = faults + 1 /\ External!End(h, TRUE)
        /\ UNCHANGED <<mode, External!clusterVars, External!cacheVars, events, removing,
             changes>>
    BY DEF External!RunFault, External!Fault
  <1>2. PICK q \in BOOLEAN : /\ run' = [run EXCEPT ![h] = External!Idle]
                             /\ queued' = [queued EXCEPT ![h] = q]
                             /\ h # "intents" => q
                             /\ h = "intents" => queued' = queued
    BY <1>1, EndRun
  <1>3. faults' \in 0 .. MaxFaults
    BY <1>1, ConstantsAssumption DEF TypeInv, External!TypeOK, External!ConstantsAssumption
  <1>4. UNCHANGED <<mode, service, ingress, external, External!cacheVars, removing, changes,
          events>>
    BY <1>1 DEF External!clusterVars
  <1>5. TypeInv'
    <2>1. /\ external' \in External!ExternalPolicies \cup {External!None}
          /\ events' \subseteq {"ingress", "external"}
      BY <1>4 DEF TypeInv, External!TypeOK
    <2> QED BY <1>2, <1>3, <1>4, <2>1, IdleRun, HandlerTypes
  <1>6. Quiet' => Quiet /\ h = "intents"
    BY <1>2, <1>4 DEF Quiet, External!Handlers, TypeInv, External!TypeOK
  <1>7. AgreeInv'
    BY <1>2, <1>4, <1>6, HandlerAgrees
  <1> QED BY <1>5, <1>7

-----------------------------------------------------------------------------
(* The steps of the cluster, the informers and the process. *)

\* A step that leaves the handlers alone.
LEMMA OthersTypes ==
    ASSUME TypeInv, run' = run,
           mode' = mode, service' \in External!ServiceStates,
             serviceCache' \in External!ServiceStates,
           ingress' \subseteq External!IngressPolicies,
             ingressCache' \subseteq External!IngressPolicies,
           external' \in External!ExternalPolicies \cup {External!None},
           externalCache' \in External!ExternalPolicies \cup {External!None},
           events' \subseteq {"ingress", "external"}, removing' \subseteq Workloads,
           NEW g \in External!Handlers, NEW q \in BOOLEAN,
           queued' = queued \/ queued' = [queued EXCEPT ![g] = q],
           changes' \in 0 .. MaxChanges, faults' \in 0 .. MaxFaults
    PROVE  TypeInv'
  <1>1. run' \in [External!Handlers -> External!Runs]
          /\ \A h \in External!Handlers : RunOK(run'[h])
    BY DEF TypeInv, External!TypeOK
  <1>2. queued' \in [External!Handlers -> BOOLEAN]
    BY DEF TypeInv, External!TypeOK
  <1> QED BY <1>1, <1>2 DEF TypeInv, External!TypeOK

\* A change counts towards its bound.
LEMMA ChangeTypes ==
    ASSUME TypeInv, External!Change
    PROVE  changes' \in 0 .. MaxChanges
  BY ConstantsAssumption DEF External!Change, TypeInv, External!TypeOK,
     External!ConstantsAssumption

\* A change of the ingress policies is one that the informer has yet to tell of.
LEMMA IngressChanges ==
    ASSUME TypeInv, AgreeInv, NEW p, External!SetIngress(p), UNCHANGED <<external,
           External!cacheVars>>
    PROVE  AgreeInv' /\ events' \subseteq {"ingress", "external"}
  <1>1. "ingress" \in events' /\ events' # {} /\ ("external" \notin events'
          => "external" \notin events)
    BY DEF External!SetIngress
  <1>2. events' \subseteq {"ingress", "external"}
    BY DEF External!SetIngress, TypeInv, External!TypeOK
  <1>3. ("external" \notin events => externalCache = external)'
    BY <1>1 DEF AgreeInv, External!cacheVars
  <1> QED BY <1>1, <1>2, <1>3 DEF AgreeInv, Quiet

LEMMA ApplyAccessInv ==
    ASSUME TypeInv, AgreeInv, External!ApplyAccess
    PROVE  TypeInv' /\ AgreeInv'
  <1>1. PICK w \in Workloads : External!SetIngress(ingress \cup {<<w, "access">>})
    BY DEF External!ApplyAccess
  <1>2. /\ External!Change /\ queued' = [queued EXCEPT !["intents"] = TRUE]
        /\ UNCHANGED <<mode, service, external, External!cacheVars, removing, run, faults>>
    BY DEF External!ApplyAccess
  <1>3. AgreeInv' /\ events' \subseteq {"ingress", "external"}
    BY <1>1, <1>2, IngressChanges
  <1>4. changes' \in 0 .. MaxChanges
    BY <1>2, ChangeTypes
  <1>5. ingress' \subseteq External!IngressPolicies
    BY <1>1 DEF External!SetIngress, External!IngressPolicies, TypeInv, External!TypeOK
  <1>6. /\ service' \in External!ServiceStates /\ serviceCache' \in External!ServiceStates
        /\ ingressCache' \subseteq External!IngressPolicies
        /\ external' \in External!ExternalPolicies \cup {External!None}
             /\ externalCache' \in External!ExternalPolicies \cup {External!None}
        /\ removing' \subseteq Workloads /\ faults' \in 0 .. MaxFaults
    BY <1>2 DEF TypeInv, External!TypeOK, External!cacheVars
  <1>7. "intents" \in External!Handlers
    BY DEF External!Handlers
  <1> QED BY <1>2, <1>3, <1>4, <1>5, <1>6, <1>7, OthersTypes

LEMMA BeforeAccessRemovalInv ==
    ASSUME TypeInv, AgreeInv, External!BeforeAccessRemoval
    PROVE  TypeInv' /\ AgreeInv'
  <1>1. PICK w \in Workloads : removing' = removing \cup {w}
    BY DEF External!BeforeAccessRemoval
  <1>2. /\ External!Change
        /\ External!Store(External!None) \/ UNCHANGED <<external, events>>
        /\ UNCHANGED <<mode, service, ingress, External!cacheVars, queued, run, faults>>
    BY DEF External!BeforeAccessRemoval
  <1>3. /\ external' \in External!ExternalPolicies \cup {External!None}
             /\ events' \subseteq {"ingress", "external"}
        /\ events' = {} => events = {} /\ external' = external
    BY <1>2, StoreTypes DEF TypeInv, External!TypeOK
  <1>4. /\ events' = events \/ "external" \in events'
        /\ "ingress" \in events => "ingress" \in events'
        /\ "external" \notin events' => external' = external
    BY <1>2, StoreEvents
  <1>5. changes' \in 0 .. MaxChanges
    BY <1>2, ChangeTypes
  <1>6. /\ service' \in External!ServiceStates /\ serviceCache' \in External!ServiceStates
        /\ ingress' \subseteq External!IngressPolicies
             /\ ingressCache' \subseteq External!IngressPolicies
        /\ externalCache' \in External!ExternalPolicies \cup {External!None}
        /\ removing' \subseteq Workloads /\ faults' \in 0 .. MaxFaults
    BY <1>1, <1>2 DEF TypeInv, External!TypeOK, External!cacheVars
  <1>7. "intents" \in External!Handlers /\ TRUE \in BOOLEAN
    BY DEF External!Handlers
  <1>8. TypeInv'
    BY <1>2, <1>3, <1>5, <1>6, <1>7, OthersTypes
  <1>9. run' = [run EXCEPT !["intents"] = run["intents"]]
    BY <1>2, <1>7 DEF TypeInv, External!TypeOK
  <1>10. Quiet' => Quiet
    BY <1>2, <1>3 DEF Quiet
  <1>11. AgreeInv'
    BY <1>2, <1>3, <1>4, <1>7, <1>9, <1>10, HandlerAgrees
  <1> QED BY <1>8, <1>11

LEMMA RemoveAccessInv ==
    ASSUME TypeInv, AgreeInv, External!RemoveAccess
    PROVE  TypeInv' /\ AgreeInv'
  <1>1. PICK w \in removing : removing' = removing \ {w} /\ External!SetIngress(ingress \ {<<w,
          "access">>})
    BY DEF External!RemoveAccess
  <1>2. UNCHANGED <<mode, service, external, External!cacheVars, queued, run, changes, faults>>
    BY DEF External!RemoveAccess
  <1>3. AgreeInv' /\ events' \subseteq {"ingress", "external"}
    BY <1>1, <1>2, IngressChanges
  <1>4. ingress' \subseteq External!IngressPolicies /\ removing' \subseteq Workloads
    BY <1>1 DEF External!SetIngress, TypeInv, External!TypeOK
  <1>5. /\ service' \in External!ServiceStates /\ serviceCache' \in External!ServiceStates
        /\ ingressCache' \subseteq External!IngressPolicies
        /\ external' \in External!ExternalPolicies \cup {External!None}
             /\ externalCache' \in External!ExternalPolicies \cup {External!None}
        /\ changes' \in 0 .. MaxChanges /\ faults' \in 0 .. MaxFaults
    BY <1>2 DEF TypeInv, External!TypeOK, External!cacheVars
  <1>6. "intents" \in External!Handlers /\ TRUE \in BOOLEAN
    BY DEF External!Handlers
  <1> QED BY <1>2, <1>3, <1>4, <1>5, <1>6, OthersTypes

LEMMA ToggleDenyInv ==
    ASSUME TypeInv, AgreeInv, External!ToggleDeny
    PROVE  TypeInv' /\ AgreeInv'
  <1>1. PICK w \in Workloads :
          External!SetIngress(IF <<w, "deny">> \in ingress THEN ingress \ {<<w, "deny">>}
                     ELSE ingress \cup {<<w, "deny">>})
    BY DEF External!ToggleDeny
  <1>2. External!Change /\ UNCHANGED <<mode, service, external, External!cacheVars, removing,
          queued, run, faults>>
    BY DEF External!ToggleDeny
  <1>3. AgreeInv' /\ events' \subseteq {"ingress", "external"}
    BY <1>1, <1>2, IngressChanges
  <1>4. ingress' \subseteq External!IngressPolicies
    <2>1. <<w, "deny">> \in External!IngressPolicies
      BY DEF External!IngressPolicies
    <2> QED BY <1>1, <2>1 DEF External!SetIngress, TypeInv, External!TypeOK
  <1>5. changes' \in 0 .. MaxChanges
    BY <1>2, ChangeTypes
  <1>6. /\ service' \in External!ServiceStates /\ serviceCache' \in External!ServiceStates
        /\ ingressCache' \subseteq External!IngressPolicies
        /\ external' \in External!ExternalPolicies \cup {External!None}
             /\ externalCache' \in External!ExternalPolicies \cup {External!None}
        /\ removing' \subseteq Workloads /\ faults' \in 0 .. MaxFaults
    BY <1>2 DEF TypeInv, External!TypeOK, External!cacheVars
  <1>7. "intents" \in External!Handlers /\ TRUE \in BOOLEAN
    BY DEF External!Handlers
  <1> QED BY <1>2, <1>3, <1>4, <1>5, <1>6, <1>7, OthersTypes

\* The handlers do not see a change of the Service before the informer has told of it.
LEMMA ChangeServiceInv ==
    ASSUME TypeInv, AgreeInv, External!ChangeService
    PROVE  TypeInv' /\ AgreeInv'
  <1>1. /\ External!Change /\ service' \in External!ServiceStates
        /\ UNCHANGED <<mode, ingress, external, External!cacheVars, events, removing, queued,
             run, faults>>
    BY DEF External!ChangeService
  <1>2. changes' \in 0 .. MaxChanges
    BY <1>1, ChangeTypes
  <1>3. /\ serviceCache' \in External!ServiceStates
             /\ ingress' \subseteq External!IngressPolicies
        /\ ingressCache' \subseteq External!IngressPolicies
        /\ external' \in External!ExternalPolicies \cup {External!None}
             /\ externalCache' \in External!ExternalPolicies \cup {External!None}
        /\ events' \subseteq {"ingress", "external"}
        /\ removing' \subseteq Workloads /\ faults' \in 0 .. MaxFaults
    BY <1>1 DEF TypeInv, External!TypeOK, External!cacheVars
  <1>4. "intents" \in External!Handlers /\ TRUE \in BOOLEAN
    BY DEF External!Handlers
  <1>5. TypeInv'
    BY <1>1, <1>2, <1>3, <1>4, OthersTypes
  <1>6. run' = [run EXCEPT !["intents"] = run["intents"]]
    BY <1>1, <1>4 DEF TypeInv, External!TypeOK
  <1>7. Quiet' => Quiet
    BY <1>1 DEF Quiet
  <1>8. AgreeInv'
    BY <1>1, <1>4, <1>6, <1>7, HandlerAgrees
  <1> QED BY <1>5, <1>8

LEMMA SyncServiceInv ==
    ASSUME TypeInv, AgreeInv, External!SyncService
    PROVE  TypeInv' /\ AgreeInv'
  <1>1. /\ serviceCache' = service /\ queued' = [queued EXCEPT !["service"] = TRUE]
        /\ UNCHANGED <<mode, External!clusterVars, ingressCache, externalCache, events,
             removing, run,
                       changes, faults>>
    BY DEF External!SyncService
  <1>2. "service" \in External!Handlers
    BY DEF External!Handlers
  <1>3. TypeInv'
    <2>1. /\ service' \in External!ServiceStates /\ serviceCache' \in External!ServiceStates
          /\ ingress' \subseteq External!IngressPolicies
               /\ ingressCache' \subseteq External!IngressPolicies
          /\ external' \in External!ExternalPolicies \cup {External!None}
               /\ externalCache' \in External!ExternalPolicies \cup {External!None}
          /\ events' \subseteq {"ingress", "external"} /\ removing' \subseteq Workloads
          /\ changes' \in 0 .. MaxChanges /\ faults' \in 0 .. MaxFaults
      BY <1>1 DEF TypeInv, External!TypeOK, External!clusterVars
    <2> QED BY <1>1, <1>2, <2>1, OthersTypes
  <1>4. ~Quiet'
    BY <1>1, <1>2 DEF Quiet, TypeInv, External!TypeOK
  <1> QED BY <1>1, <1>3, <1>4 DEF AgreeInv, External!clusterVars

LEMMA SyncPolicyInv ==
    ASSUME TypeInv, AgreeInv, NEW kind \in {"ingress", "external"}, External!SyncPolicy(kind)
    PROVE  TypeInv' /\ AgreeInv'
  <1>1. /\ events' = events \ {kind}
        /\ ingressCache' = IF kind = "ingress" THEN ingress ELSE ingressCache
        /\ externalCache' = IF kind = "external" THEN external ELSE externalCache
        /\ queued' = [queued EXCEPT !["netpol"] = TRUE]
        /\ UNCHANGED <<mode, External!clusterVars, serviceCache, removing, run, changes,
             faults>>
    BY DEF External!SyncPolicy
  <1>2. "netpol" \in External!Handlers
    BY DEF External!Handlers
  <1>3. TypeInv'
    <2>1. /\ service' \in External!ServiceStates /\ serviceCache' \in External!ServiceStates
          /\ ingress' \subseteq External!IngressPolicies
               /\ ingressCache' \subseteq External!IngressPolicies
          /\ external' \in External!ExternalPolicies \cup {External!None}
               /\ externalCache' \in External!ExternalPolicies \cup {External!None}
          /\ events' \subseteq {"ingress", "external"} /\ removing' \subseteq Workloads
          /\ changes' \in 0 .. MaxChanges /\ faults' \in 0 .. MaxFaults
      BY <1>1 DEF TypeInv, External!TypeOK, External!clusterVars
    <2> QED BY <1>1, <1>2, <2>1, OthersTypes
  <1>4. ~Quiet'
    BY <1>1, <1>2 DEF Quiet, TypeInv, External!TypeOK
  <1> QED BY <1>1, <1>3, <1>4 DEF AgreeInv, External!clusterVars

LEMMA CrashInv ==
    ASSUME TypeInv, AgreeInv, External!Crash
    PROVE  TypeInv' /\ AgreeInv'
  <1>1. /\ faults < MaxFaults /\ faults' = faults + 1
        /\ serviceCache' = service /\ ingressCache' = ingress /\ externalCache' = external
        /\ events' = {} /\ removing' = {}
        /\ queued' = [h \in External!Handlers |-> h # "intents"]
        /\ run' = [h \in External!Handlers |-> External!Idle]
        /\ UNCHANGED <<mode, External!clusterVars, changes>>
    BY DEF External!Crash, External!Fault
  <1>2. faults' \in 0 .. MaxFaults
    BY <1>1, ConstantsAssumption DEF TypeInv, External!TypeOK, External!ConstantsAssumption
  <1>3. run' \in [External!Handlers -> External!Runs]
          /\ \A h \in External!Handlers : RunOK(run'[h])
    BY <1>1, IdleRun
  <1>4. TypeInv'
    BY <1>1, <1>2, <1>3 DEF TypeInv, External!TypeOK, External!clusterVars
  <1>5. ~Quiet'
    BY <1>1 DEF Quiet, External!Handlers
  <1> QED BY <1>1, <1>4, <1>5 DEF AgreeInv, External!clusterVars

-----------------------------------------------------------------------------
LEMMA InitInv ==
    ASSUME External!Init
    PROVE  TypeInv /\ AgreeInv
  <1>1. /\ mode \in Modes /\ service \in External!ServiceStates
             /\ ingress \subseteq External!IngressPolicies
        /\ serviceCache = service /\ ingressCache = ingress /\ externalCache = external
        /\ events = {} /\ removing = {} /\ queued = [h \in External!Handlers |-> h # "intents"]
        /\ run = [h \in External!Handlers |-> External!Idle] /\ changes = 0 /\ faults = 0
        /\ external \in {External!None} \cup {[selector |-> w, label |-> w] : w \in Workloads}
    BY DEF External!Init
  <1>2. external \in External!ExternalPolicies \cup {External!None}
    BY <1>1 DEF External!ExternalPolicies
  <1>3. run \in [External!Handlers -> External!Runs]
          /\ \A h \in External!Handlers : RunOK(run[h])
    BY <1>1, IdleRun
  <1>4. TypeInv
    BY <1>1, <1>2, <1>3, ConstantsAssumption DEF TypeInv, External!TypeOK,
       External!ConstantsAssumption
  <1>5. ~Quiet
    BY <1>1 DEF Quiet, External!Handlers
  <1> QED BY <1>1, <1>4, <1>5 DEF AgreeInv

LEMMA NextInv ==
    ASSUME TypeInv, AgreeInv, [External!Next]_(External!vars)
    PROVE  TypeInv' /\ AgreeInv'
  <1>1. CASE UNCHANGED External!vars
    <2>1. UNCHANGED <<mode, service, ingress, external, serviceCache, ingressCache,
            externalCache,
                      events, removing, queued, run, changes, faults>>
      BY <1>1 DEF External!vars, External!clusterVars, External!cacheVars
    <2>2. TypeInv'
      BY <2>1 DEF TypeInv, External!TypeOK
    <2> QED BY <2>1, <2>2 DEF AgreeInv, Quiet, Matching, Agreeing, Known, Expected
  <1>2. ASSUME NEW h \in External!Handlers, External!Step(h) PROVE TypeInv' /\ AgreeInv'
    BY <1>2, BeginInv, RemovePolicyInv, LookAtAddressInv, HandleAddressInv, AddressesDoneInv
       DEF External!Step
  <1>3. ASSUME NEW h \in External!Handlers, External!RunFault(h) PROVE TypeInv' /\ AgreeInv'
    BY <1>3, RunFaultInv
  <1>4. CASE \/ External!ApplyAccess \/ External!BeforeAccessRemoval
             \/ External!RemoveAccess \/ External!ToggleDeny
    BY <1>4, ApplyAccessInv, BeforeAccessRemovalInv, RemoveAccessInv, ToggleDenyInv
  <1>5. CASE External!ChangeService \/ External!SyncService \/ External!Crash
    BY <1>5, ChangeServiceInv, SyncServiceInv, CrashInv
  <1>6. ASSUME NEW kind \in {"ingress", "external"}, External!SyncPolicy(kind) PROVE TypeInv'
               /\ AgreeInv'
    BY <1>6, SyncPolicyInv
  <1> QED BY <1>1, <1>2, <1>3, <1>4, <1>5, <1>6 DEF External!Next

LEMMA AtRestAsNeeded ==
    ASSUME TypeInv, AgreeInv
    PROVE  External!ExternalMatchesAtRest
  <1> SUFFICES ASSUME External!AtRest, External!Addressed # {}
               PROVE  /\ external # External!None <=> External!Needed
                      /\ External!Needed => \A w \in External!Addressed : External!Affected(w,
                           ingress) => External!Admits(w)
    BY DEF External!ExternalMatchesAtRest, External!ExternalAsNeeded
  <1>1. /\ serviceCache = service /\ events = {}
        /\ \A h \in External!Handlers : run[h] = External!Idle /\ ~queued[h]
    BY DEF External!AtRest
  <1>2. Quiet /\ ingressCache = ingress
    BY <1>1, CachedWhenQuiet DEF Quiet, External!Handlers
  <1>3. ~Agreeing("service") /\ ~Agreeing("netpol")
    BY <1>1, IdleRun DEF Agreeing, External!Handlers
  <1>4. Known = service.addresses /\ Known \in Seq(Workloads)
    BY <1>1, ConstantsAssumption DEF Known, TypeInv, External!TypeOK, External!ServiceStates,
       External!ConstantsAssumption
  <1>5. External!Addressed = {Known[i] : i \in 1 .. Len(Known)} /\ Known # <<>>
    BY <1>4 DEF External!Addressed
  <1>6. Matching
    BY <1>2, <1>3, <1>5 DEF AgreeInv
  <1>7. mode \in {"off", "always", "if-blocked-by-otterize"}
    BY ConstantsAssumption DEF TypeInv, External!TypeOK, External!ConstantsAssumption
  <1>8. CASE ~service.exposed
    BY <1>1, <1>6, <1>8 DEF Matching, External!Needed
  <1>9. CASE service.exposed
    <2>1. \A w \in External!Addressed : external = Expected(w)
      BY <1>1, <1>5, <1>6, <1>9 DEF Matching
    <2>2. \A w : /\ mode # "off" /\ External!Affected(w, ingress)
                      => Expected(w) = [selector |-> w, label |-> w]
                 /\ ~External!Affected(w, ingress) /\ mode = "always" =>
                        Expected(w) = [selector |-> "service", label |-> w]
                 /\ mode = "off" => Expected(w) = External!None
                 /\ mode # "always" /\ ~External!Affected(w, ingress)
                      => Expected(w) = External!None
      BY <1>2, Zenon DEF Expected
    <2>3. ASSUME NEW w \in Workloads, NEW s PROVE [selector |-> s, label |-> w] # External!None
      <3>1. External!None.label = "none" /\ w # "none"
        BY ConstantsAssumption DEF External!None, External!ConstantsAssumption
      <3>2. [selector |-> s, label |-> w].label = w
        OBVIOUS
      <3> QED BY <3>1, <3>2
    <2>4. External!Addressed \subseteq Workloads
      BY <1>4, <1>5
    <2>5. PICK v \in External!Addressed : TRUE
      OBVIOUS
    <2>6. mode = "off" => external = External!None
      BY <2>1, <2>2, <2>5
    <2>7. ASSUME mode # "off", NEW w \in External!Addressed, External!Affected(w, ingress)
          PROVE  external # External!None /\ External!Admits(w)
      <3>1. external = [selector |-> w, label |-> w]
        BY <2>1, <2>2, <2>7
      <3>2. external # External!None
        BY <2>3, <2>4, <2>7, <3>1
      <3> QED BY <3>1, <3>2 DEF External!Admits
    <2>8. ASSUME mode # "off", \A w \in External!Addressed : ~External!Affected(w, ingress)
          PROVE  external # External!None <=> mode = "always"
      <3>1. CASE mode = "always"
        <4>1. external = [selector |-> "service", label |-> v]
          BY <2>1, <2>2, <2>5, <2>8, <3>1
        <4> QED BY <2>3, <2>4, <2>5, <3>1, <4>1
      <3>2. CASE mode # "always"
        BY <2>1, <2>2, <2>5, <2>8, <3>2
      <3> QED BY <3>1, <3>2
    <2>9. CASE mode = "off"
      BY <1>9, <2>6, <2>9 DEF External!Needed
    <2>10. CASE mode # "off" /\ \E w \in External!Addressed : External!Affected(w, ingress)
      <3>1. External!Needed
        BY <1>7, <1>9, <2>10 DEF External!Needed
      <3>2. external # External!None
        BY <2>7, <2>10
      <3> QED BY <2>7, <2>10, <3>1, <3>2
    <2>11. CASE mode # "off" /\ \A w \in External!Addressed : ~External!Affected(w, ingress)
      <3>1. External!Needed <=> mode = "always"
        BY <1>9, <2>11 DEF External!Needed
      <3> QED BY <2>8, <2>11, <3>1
    <2> QED BY <2>9, <2>10, <2>11
  <1> QED BY <1>8, <1>9

-----------------------------------------------------------------------------
(* What holds of a part holds of MCTraffic, whose behaviours are those of  *)
(* its parts.                                                              *)

\* A behaviour stays in its part.
LEMMA SamePart == [Next]_vars => part' = part
  BY DEF Next, vars, InExternal, InIstio, InLinkerd, InMetrics, InWebhooks, HandlerOfPolicies

\* The external-traffic part of a behaviour is one of ExternalTraffic.
LEMMA ExternalPart ==
    /\ Init /\ part = "external" => External!Init
    /\ [Next]_vars /\ part = "external" => [External!Next]_(External!vars)
  <1>1. Init /\ part = "external" => External!Init
    BY DEF Init
  <1>2. [Next]_vars /\ part = "external" => [External!Next]_(External!vars)
    BY DEF Next, vars, InExternal, InIstio, InLinkerd, InMetrics, InWebhooks, HandlerOfPolicies,
           policyVars, resourceVars, serviceVars, handlerVars,
           External!vars, External!clusterVars, External!cacheVars
  <1> QED BY <1>1, <1>2

\* Once the Service's, the NetworkPolicies' and the intents' controllers have nothing
\* left to do, the external policy is there exactly when it is needed, whatever they
\* read from lagging caches, in whatever order they wrote, and whatever calls failed
\* (NetworkPolicyHandler.HandleEndpoints).
THEOREM ExternalMatches == Spec => []ExternalMatchesAtRest
  <1> DEFINE Inv == TypeInv /\ AgreeInv
  <1>1. Init /\ part = "external" => Inv
    BY ExternalPart, InitInv
  <1>2. Inv /\ [Next]_vars /\ part = "external" => Inv'
    BY ExternalPart, NextInv
  <1>3. Inv => ExternalMatchesAtRest
    BY AtRestAsNeeded DEF ExternalMatchesAtRest
  <1>4. ~(part = "external") => ExternalMatchesAtRest
    BY DEF ExternalMatchesAtRest
  <1>5. [Next]_vars /\ part = "external" => (part = "external")'
    BY SamePart
  <1>6. [Next]_vars /\ ~(part = "external") => ~(part = "external")'
    BY SamePart
  <1> HIDE DEF Inv
  <1> QED BY <1>1, <1>2, <1>3, <1>4, <1>5, <1>6, PTL DEF Spec

-----------------------------------------------------------------------------
(* IstioPolicies: types.  A policy is of an account that a pod had.        *)

IstioClients == {"c"}
IstioServers == {"s", "t"}
IstioStages == {"none", "new", "live", "deleting"}
IstioPCs == {"idle", "list", "apply", "delete"}

IsIstioPass(p) ==
    /\ p.pc \in IstioPCs
    /\ p # Istio!Idle =>
        /\ p = [pc |-> p.pc, client |-> p.client, copy |-> p.copy, account |-> p.account,
                targets |-> p.targets, existing |-> p.existing, updated |-> p.updated]
        /\ p.client \in IstioClients /\ p.account \in {"a", "b"}

\* Policies, whatever their methods.
IsRow(r) ==
    /\ r = [s \in IstioServers |-> r[s]]
    /\ \A s \in IstioServers : r[s].account \in {"a", "b", "none"}

IsPolicies(f) == f = [c \in IstioClients |-> f[c]] /\ \A c \in IstioClients : IsRow(f[c])

\* ClientIntents, whatever their targets.
IsIstioObject(o) ==
    o = [stage |-> o.stage, targets |-> o.targets] /\ o.stage \in IstioStages

IsIstioObjects(f) ==
    f = [c \in IstioClients |-> f[c]] /\ \A c \in IstioClients : IsIstioObject(f[c])

LEMMA IstioObjectChanged ==
    ASSUME NEW f, IsIstioObjects(f), NEW c \in IstioClients, NEW o, IsIstioObject(o)
    PROVE  IsIstioObjects([f EXCEPT ![c] = o])
  BY DEF IsIstioObjects

LEMMA IstioStaged ==
    ASSUME NEW f, IsIstioObjects(f), NEW c \in IstioClients, NEW stage \in IstioStages
    PROVE  IsIstioObjects([f EXCEPT ![c].stage = stage])
  <1>1. PICK o : o = f[c]
    OBVIOUS
  <1>2. IsIstioObject(o)
    BY <1>1 DEF IsIstioObjects
  <1>3. IsIstioObject([o EXCEPT !.stage = stage])
    BY <1>2 DEF IsIstioObject
  <1>4. [f EXCEPT ![c].stage = stage] = [f EXCEPT ![c] = [o EXCEPT !.stage = stage]]
    BY <1>1
  <1> QED BY <1>3, <1>4, IstioObjectChanged

LEMMA RowChanged ==
    ASSUME NEW f, IsPolicies(f), NEW c \in IstioClients, NEW r, IsRow(r)
    PROVE  IsPolicies([f EXCEPT ![c] = r])
  BY DEF IsPolicies

LEMMA PolicyChanged ==
    ASSUME NEW r, IsRow(r), NEW s, NEW p, p.account \in {"a", "b"}
    PROVE  IsRow([r EXCEPT ![s] = p])
  BY DEF IsRow

LEMMA PoliciesGone ==
    ASSUME NEW f, IsPolicies(f), NEW c \in IstioClients, NEW some, NEW g,
           g = [f EXCEPT ![c] =
                   [s \in IstioServers |-> IF s \in some THEN Istio!NoPolicy ELSE @[s]]]
    PROVE  IsPolicies(g)
  <1>1. PICK r : r = [s \in IstioServers |-> IF s \in some THEN Istio!NoPolicy ELSE f[c][s]]
    OBVIOUS
  <1>2. IsRow(r)
    BY <1>1 DEF IsPolicies, IsRow, Istio!NoPolicy, Istio!None
  <1>3. [f EXCEPT ![c] = [s \in IstioServers |-> IF s \in some THEN Istio!NoPolicy ELSE @[s]]]
        = [f EXCEPT ![c] = r]
    BY <1>1
  <1> QED BY <1>2, <1>3, RowChanged

\* A pass takes its account from a pod, and writes it.
IstioInv ==
    /\ IsIstioObjects(ci) /\ IsIstioObjects(ciCache)
    /\ pod \in [IstioClients -> [account : {"a", "b"}, sidecar : BOOLEAN]]
    /\ IsPolicies(ingress)
    /\ queued \in [{"intents", "pods"} -> SUBSET IstioClients]
    /\ pass = [w \in {"intents", "pods"} |-> pass[w]]
    /\ \A w \in {"intents", "pods"} : IsIstioPass(pass[w])

LEMMA IstioIdle == IsIstioPass(Istio!Idle) /\ Istio!Idle.pc = "idle"
  BY DEF IsIstioPass, Istio!Idle, IstioPCs

\* A pass that starts, goes on or ends.
LEMMA IstioPasses ==
    ASSUME IstioInv, NEW w \in {"intents", "pods"}, NEW p, IsIstioPass(p),
           pass' = [pass EXCEPT ![w] = p]
    PROVE  /\ pass' = [v \in {"intents", "pods"} |-> pass'[v]]
           /\ \A v \in {"intents", "pods"} : IsIstioPass(pass'[v])
  BY DEF IstioInv

LEMMA IstioStarted ==
    ASSUME IstioInv, NEW w \in {"intents", "pods"}, NEW c \in IstioClients,
           NEW pc \in {"list", "delete"}, Istio!Started(w, c, pc)
    PROVE  /\ pass' = [v \in {"intents", "pods"} |-> pass'[v]]
           /\ \A v \in {"intents", "pods"} : IsIstioPass(pass'[v])
  <1> DEFINE p == [pc |-> pc, client |-> c, copy |-> ciCache[c],
                account |-> pod[c].account, targets |-> ciCache[c].targets,
                existing |-> [s \in IstioServers |-> Istio!NoPolicy], updated |-> {}]
  <1>1. pass' = [pass EXCEPT ![w] = p]
    BY DEF Istio!Started, IstioServers
  <1>2. IsIstioPass(p)
    BY DEF IsIstioPass, IstioPCs, IstioInv
  <1> HIDE DEF p
  <1> QED BY <1>1, <1>2, IstioPasses

LEMMA IstioFinish ==
    ASSUME IstioInv, NEW w \in {"intents", "pods"}, Istio!Finish(w)
    PROVE  /\ pass' = [v \in {"intents", "pods"} |-> pass'[v]]
           /\ \A v \in {"intents", "pods"} : IsIstioPass(pass'[v])
  BY IstioIdle, IstioPasses DEF Istio!Finish

LEMMA IstioRequeue ==
    ASSUME IstioInv, NEW w \in {"intents", "pods"}, pass[w] # Istio!Idle, Istio!Requeue(w)
    PROVE  queued' \in [{"intents", "pods"} -> SUBSET IstioClients]
  <1>1. pass[w].client \in IstioClients
    BY DEF IstioInv, IsIstioPass
  <1> QED BY <1>1 DEF IstioInv, Istio!Requeue

LEMMA IstioBegin ==
    ASSUME IstioInv, NEW c \in IstioClients, Istio!BeginIntents(c) \/ Istio!BeginPod(c)
    PROVE  IstioInv'
  <1>1. UNCHANGED <<ciCache, pod, ingress>>
    BY DEF Istio!BeginIntents, Istio!BeginPod
  <1>2. queued' \in [{"intents", "pods"} -> SUBSET IstioClients]
    BY DEF Istio!BeginIntents, Istio!BeginPod, IstioInv
  <1>3. IsIstioObjects(ci')
    <2>1. ci' \in {ci, [ci EXCEPT ![c].stage = "live"]}
      BY DEF Istio!BeginIntents, Istio!BeginPod
    <2>2. CASE ci' = [ci EXCEPT ![c].stage = "live"]
      BY <2>2, IstioStaged DEF IstioInv, IstioStages
    <2> QED BY <2>1, <2>2 DEF IstioInv
  <1>4. \/ UNCHANGED pass
        \/ Istio!Started("intents", c, "delete") \/ Istio!Started("intents", c, "list")
        \/ Istio!Started("pods", c, "list")
    BY DEF Istio!BeginIntents, Istio!BeginPod
  <1>5. /\ pass' = [v \in {"intents", "pods"} |-> pass'[v]]
        /\ \A v \in {"intents", "pods"} : IsIstioPass(pass'[v])
    BY <1>4, IstioStarted DEF IstioInv
  <1> QED BY <1>1, <1>2, <1>3, <1>5 DEF IstioInv, IsIstioPass, IsPolicies, IsIstioObjects

\* A step of a pass goes on with it or ends it.
LEMMA IstioGoesOn ==
    ASSUME IstioInv, NEW w \in {"intents", "pods"}, pass[w] # Istio!Idle, NEW p,
           \/ pass' = [pass EXCEPT ![w] = p] /\ UNCHANGED queued
           \/ Istio!Finish(w) /\ (Istio!Requeue(w) \/ UNCHANGED queued),
           p.pc \in IstioPCs, p.account = pass[w].account, p.client = pass[w].client,
           p = [pc |-> p.pc, client |-> p.client, copy |-> p.copy, account |-> p.account,
                targets |-> p.targets, existing |-> p.existing, updated |-> p.updated],
           UNCHANGED <<ciCache, pod>>, IsIstioObjects(ci'), IsPolicies(ingress')
    PROVE  IstioInv'
  <1>1. IsIstioPass(p)
    BY DEF IsIstioPass, IstioInv
  <1>2. /\ pass' = [v \in {"intents", "pods"} |-> pass'[v]]
        /\ \A v \in {"intents", "pods"} : IsIstioPass(pass'[v])
    BY <1>1, IstioPasses, IstioFinish
  <1>3. queued' \in [{"intents", "pods"} -> SUBSET IstioClients]
    BY IstioRequeue DEF IstioInv
  <1> QED BY <1>2, <1>3 DEF IstioInv, IsIstioPass, IsPolicies, IsIstioObjects

LEMMA IstioList ==
    ASSUME IstioInv, NEW w \in {"intents", "pods"}, Istio!List(w)
    PROVE  IstioInv'
  <1>1. pass[w] # Istio!Idle /\ IsIstioPass(pass[w])
    BY IstioIdle DEF Istio!List, IstioInv
  <1> DEFINE p == [pass[w] EXCEPT !.pc = "apply", !.existing = ingressCache[pass[w].client]]
  <1>2. pass' = [pass EXCEPT ![w] = p]
    BY DEF Istio!List, IstioInv
  <1>3. /\ p.pc \in IstioPCs /\ p.account = pass[w].account /\ p.client = pass[w].client
        /\ p = [pc |-> p.pc, client |-> p.client, copy |-> p.copy, account |-> p.account,
                targets |-> p.targets, existing |-> p.existing, updated |-> p.updated]
    <2>1. PICK q, e : q = pass[w] /\ e = ingressCache[pass[w].client]
      OBVIOUS
    <2>2. q = [pc |-> q.pc, client |-> q.client, copy |-> q.copy, account |-> q.account,
               targets |-> q.targets, existing |-> q.existing, updated |-> q.updated]
      BY <1>1, <2>1 DEF IsIstioPass
    <2>3. p = [q EXCEPT !.pc = "apply", !.existing = e]
      BY <2>1
    <2> HIDE DEF p
    <2> QED BY <2>1, <2>2, <2>3 DEF IstioPCs
  <1>4. /\ UNCHANGED <<ciCache, pod, queued>>
        /\ IsIstioObjects(ci') /\ IsPolicies(ingress')
    BY DEF Istio!List, IstioInv, IsIstioObjects, IsPolicies
  <1> HIDE DEF p
  <1> QED BY <1>1, <1>2, <1>3, <1>4, IstioGoesOn

LEMMA IstioApply ==
    ASSUME IstioInv, NEW w \in {"intents", "pods"}, Istio!Apply(w)
    PROVE  IstioInv'
  <1>1. pass[w] # Istio!Idle /\ IsIstioPass(pass[w])
    BY IstioIdle DEF Istio!Apply, IstioInv
  <1> DEFINE t == Head(pass[w].targets)
             c == pass[w].client
             new == [account |-> pass[w].account, methods |-> t.methods]
             skipped == [pass[w] EXCEPT !.targets = Tail(@)]
             done == [pass[w] EXCEPT !.targets = Tail(@), !.updated = @ \cup {t.server}]
  <1>2. /\ UNCHANGED <<ciCache, pod, ci>>
        /\ ingress' \in {ingress, [ingress EXCEPT ![c][t.server] = new]}
        /\ \/ pass' = [pass EXCEPT ![w] = skipped] /\ UNCHANGED queued
           \/ pass' = [pass EXCEPT ![w] = done] /\ UNCHANGED queued
           \/ Istio!Fail(w)
    <2>1. pass' = [pass EXCEPT ![w].targets = Tail(@)] => pass' = [pass EXCEPT ![w] = skipped]
      BY DEF IstioInv
    <2> QED BY <2>1 DEF Istio!Apply
  <1>3. IsPolicies(ingress')
    <2>1. c \in IstioClients /\ new.account \in {"a", "b"}
      BY <1>1 DEF IsIstioPass
    <2>2. CASE ingress' = [ingress EXCEPT ![c][t.server] = new]
      <3>1. IsPolicies(ingress)
        BY DEF IstioInv
      <3>2. PICK r, k, s, n : r = ingress[k] /\ k = c /\ s = t.server /\ n = new
        OBVIOUS
      <3> HIDE DEF t, new, c
      <3>3. ingress' = [ingress EXCEPT ![k] = [r EXCEPT ![s] = n]]
        BY <2>2, <3>2
      <3>4. k \in IstioClients /\ IsRow(r)
        BY <2>1, <3>1, <3>2 DEF IsPolicies
      <3>5. IsRow([r EXCEPT ![s] = n])
        BY <2>1, <3>2, <3>4, PolicyChanged
      <3> QED BY <3>1, <3>3, <3>4, <3>5, RowChanged
    <2> QED BY <1>2, <2>2 DEF IstioInv
  <1>4. IsIstioObjects(ci')
    BY <1>2 DEF IstioInv
  <1>5. ASSUME NEW p \in {skipped, done}
        PROVE  /\ p.pc \in IstioPCs /\ p.account = pass[w].account /\ p.client = pass[w].client
               /\ p = [pc |-> p.pc, client |-> p.client, copy |-> p.copy, account |-> p.account,
                       targets |-> p.targets, existing |-> p.existing, updated |-> p.updated]
    BY <1>1 DEF IsIstioPass
  <1> HIDE DEF skipped, done
  <1>6. CASE pass' = [pass EXCEPT ![w] = skipped] /\ UNCHANGED queued
    BY <1>1, <1>2, <1>3, <1>4, <1>5, <1>6, IstioGoesOn
  <1>7. CASE (pass' = [pass EXCEPT ![w] = done] /\ UNCHANGED queued) \/ Istio!Fail(w)
    BY <1>1, <1>2, <1>3, <1>4, <1>5, <1>7, IstioGoesOn DEF Istio!Fail
  <1> QED BY <1>2, <1>6, <1>7

LEMMA IstioDelete ==
    ASSUME IstioInv, NEW w \in {"intents", "pods"}, Istio!Delete(w)
    PROVE  IstioInv'
  <1>1. pass[w] # Istio!Idle /\ IsIstioPass(pass[w])
    BY IstioIdle DEF Istio!Delete, IstioInv
  <1> DEFINE c == pass[w].client
  <1>2. /\ UNCHANGED <<ciCache, pod>>
        /\ ci' \in {ci, [ci EXCEPT ![c] = Istio!NoIntents]}
        /\ Istio!Finish(w) /\ (Istio!Requeue(w) \/ UNCHANGED queued)
    BY DEF Istio!Delete, Istio!Fail
  <1>3. PICK some : ingress' = [ingress EXCEPT ![c] =
                        [s \in IstioServers |-> IF s \in some THEN Istio!NoPolicy ELSE @[s]]]
    BY DEF Istio!Delete, IstioServers
  <1>4. c \in IstioClients
    BY <1>1 DEF IsIstioPass
  <1>5. IsPolicies(ingress')
    <2>1. IsPolicies(ingress)
      BY DEF IstioInv
    <2>2. PICK k : k = c
      OBVIOUS
    <2> HIDE DEF c
    <2>3. k \in IstioClients /\ ingress' = [ingress EXCEPT ![k] =
                        [s \in IstioServers |-> IF s \in some THEN Istio!NoPolicy ELSE @[s]]]
      BY <1>3, <1>4, <2>2
    <2> QED BY ONLY <2>1, <2>3, PoliciesGone
  <1>6. IsIstioObjects(ci')
    <2>1. IsIstioObject(Istio!NoIntents)
      BY DEF IsIstioObject, Istio!NoIntents, Istio!None, IstioStages
    <2> HIDE DEF c
    <2> QED BY <1>2, <1>4, <2>1, IstioObjectChanged DEF IstioInv
  <1>7. /\ pass' = [v \in {"intents", "pods"} |-> pass'[v]]
        /\ \A v \in {"intents", "pods"} : IsIstioPass(pass'[v])
    BY <1>2, IstioFinish
  <1>8. queued' \in [{"intents", "pods"} -> SUBSET IstioClients]
    BY <1>1, <1>2, IstioRequeue DEF IstioInv
  <1> QED BY <1>2, <1>5, <1>6, <1>7, <1>8 DEF IstioInv, IsIstioPass, IsPolicies, IsIstioObjects

LEMMA IstioAround == IstioInv /\ (Istio!Users \/ Istio!Sync \/ Istio!Resync) => IstioInv'
  <1> SUFFICES ASSUME IstioInv, Istio!Users \/ Istio!Sync \/ Istio!Resync PROVE IstioInv'
    OBVIOUS
  <1>0. UNCHANGED <<ingress, pass>>
    BY DEF Istio!Users, Istio!ChangeIntents, Istio!ChangePod, Istio!Sync, Istio!SyncIntents,
           Istio!SyncPolicies, Istio!Resync
  <1>1. ASSUME NEW c \in IstioClients, Istio!ChangeIntents(c) PROVE IstioInv'
    <2>1. IsIstioObjects(ci')
      <3>1. CASE ci' = [ci EXCEPT ![c].stage = "deleting"]
        BY <3>1, IstioStaged DEF IstioInv, IstioStages
      <3>2. ASSUME NEW targets,
                   ci' = [ci EXCEPT ![c] = [stage |-> IF @.stage = Istio!None THEN "new" ELSE @.stage,
                                            targets |-> targets]]
            PROVE  IsIstioObjects(ci')
        <4>1. IsIstioObject(ci[c])
          BY DEF IstioInv, IsIstioObjects
        <4>2. PICK o : o = [stage |-> IF ci[c].stage = Istio!None THEN "new" ELSE ci[c].stage,
                            targets |-> targets]
          OBVIOUS
        <4>3. IsIstioObject(o)
          BY <4>1, <4>2 DEF IsIstioObject, IstioStages
        <4>4. ci' = [ci EXCEPT ![c] = o]
          BY <3>2, <4>2
        <4> QED BY <4>3, <4>4, IstioObjectChanged DEF IstioInv
      <3> QED BY <1>1, <3>1, <3>2 DEF Istio!ChangeIntents
    <2> QED BY <1>0, <1>1, <2>1 DEF Istio!ChangeIntents, IstioInv, IsIstioPass, IsPolicies, IsIstioObjects
  <1>2. ASSUME NEW c \in IstioClients, Istio!ChangePod(c) PROVE IstioInv'
    <2>1. pod' \in [IstioClients -> [account : {"a", "b"}, sidecar : BOOLEAN]]
      BY <1>2 DEF Istio!ChangePod, IstioInv
    <2>2. queued' \in [{"intents", "pods"} -> SUBSET IstioClients]
      BY <1>2 DEF Istio!ChangePod, IstioInv
    <2> QED BY <1>0, <1>2, <2>1, <2>2 DEF Istio!ChangePod, IstioInv, IsIstioPass, IsPolicies, IsIstioObjects
  <1>3. ASSUME NEW c \in IstioClients, Istio!SyncIntents(c) PROVE IstioInv'
    <2>1. IsIstioObjects(ciCache')
      BY <1>3, IstioObjectChanged DEF Istio!SyncIntents, IstioInv, IsIstioObjects
    <2>2. queued' \in [{"intents", "pods"} -> SUBSET IstioClients]
      BY <1>3 DEF Istio!SyncIntents, IstioInv
    <2> QED BY <1>0, <1>3, <2>1, <2>2 DEF Istio!SyncIntents, IstioInv, IsIstioPass, IsPolicies, IsIstioObjects
  <1>4. CASE Istio!SyncPolicies
    BY <1>0, <1>4 DEF Istio!SyncPolicies, IstioInv, IsIstioPass, IsPolicies, IsIstioObjects
  <1>5. CASE Istio!Resync
    <2>1. queued' \in [{"intents", "pods"} -> SUBSET IstioClients]
      BY <1>5 DEF Istio!Resync, IstioInv, Istio!Controllers, IstioClients
    <2> QED BY <1>0, <1>5, <2>1 DEF Istio!Resync, IstioInv, IsIstioPass, IsPolicies, IsIstioObjects
  <1> QED BY <1>1, <1>2, <1>3, <1>4, <1>5 DEF Istio!Users, Istio!Sync, IstioClients

LEMMA IstioInit == Istio!Init => IstioInv
  <1> SUFFICES ASSUME Istio!Init PROVE IstioInv
    OBVIOUS
  <1>1. IsIstioObjects(ci) /\ ciCache = ci
    BY DEF Istio!Init, IsIstioObjects, IsIstioObject, Istio!NoIntents, Istio!None, IstioClients, IstioStages
  <1>2. IsPolicies(ingress)
    BY DEF Istio!Init, IsPolicies, IsRow, Istio!NoPolicy, Istio!None, IstioClients, IstioServers
  <1>3. pod \in [IstioClients -> [account : {"a", "b"}, sidecar : BOOLEAN]]
    BY DEF Istio!Init, IstioClients
  <1>4. /\ queued \in [{"intents", "pods"} -> SUBSET IstioClients]
        /\ pass = [w \in {"intents", "pods"} |-> pass[w]]
        /\ \A w \in {"intents", "pods"} : IsIstioPass(pass[w])
    BY IstioIdle DEF Istio!Init, Istio!Controllers
  <1> QED BY <1>1, <1>2, <1>3, <1>4 DEF IstioInv

LEMMA IstioStep == IstioInv /\ [Istio!Next]_(Istio!vars) => IstioInv'
  <1>1. ASSUME IstioInv, UNCHANGED Istio!vars PROVE IstioInv'
    BY <1>1 DEF Istio!vars, IstioInv, IsIstioPass, IsPolicies, IsIstioObjects
  <1> QED BY <1>1, IstioBegin, IstioList, IstioApply, IstioDelete, IstioAround
          DEF Istio!Next, Istio!IntentsStep, Istio!PodStep, IstioClients

LEMMA IstioTyped == IstioInv => Istio!TypeOK
  <1> SUFFICES ASSUME IstioInv PROVE Istio!TypeOK
    OBVIOUS
  <1>1. \A c \in IstioClients : ci[c].stage \in IstioStages /\ pod[c].account \in {"a", "b"}
    BY DEF IstioInv, IsIstioObjects, IsIstioObject
  <1>2. queued["intents"] \cup queued["pods"] \subseteq IstioClients
    BY DEF IstioInv
  <1> QED BY <1>1, <1>2 DEF IstioInv, IsIstioPass, IsPolicies, IsRow, Istio!TypeOK, IstioClients,
             IstioServers, IstioStages, IstioPCs, Istio!None, Istio!Controllers

-----------------------------------------------------------------------------
(* LinkerdPolicies: types.  What a run makes for a call has the client for *)
(* its owner, or was found.                                                *)

LinkerdClients == {"c", "d"}

Owned(r) == r.kind # "NetworkAuthentication" => r.owner \in LinkerdClients

LinkerdInv ==
    /\ ci \in [LinkerdClients -> {{}, {Call("s", "no HTTP")}, {Call("s", "/a")}}]
    /\ pod \cup ciCache \subseteq LinkerdClients \cup {"s"}
    /\ \A r \in external : Owned(r)
    /\ \A r \in externalCache : Owned(r)
    /\ queued \in BOOLEAN

LEMMA OwnedFirst ==
    ASSUME NEW found, NEW new, \A r \in found : Owned(r), Owned(new)
    PROVE  Owned(Linkerd!First(found, new))
  BY DEF Linkerd!First

\* Resources that are made for a client are its own.
LEMMA OwnedNew ==
    ASSUME NEW c \in LinkerdClients, NEW s, NEW path, NEW probe \in BOOLEAN, NEW target, NEW auth
    PROVE  /\ Owned(Linkerd!ServerOf(c, s)) /\ Owned(Linkerd!Route(c, s, path, probe))
           /\ Owned(Linkerd!NewPolicy(c, target, auth)) /\ Owned(Linkerd!MeshTLS(c))
           /\ Owned(Linkerd!NetworkAuthentication)
  BY DEF Owned, Linkerd!ServerOf, Linkerd!Route, Linkerd!NewPolicy, Linkerd!Policy,
         Linkerd!MeshTLS, Linkerd!NetworkAuthentication

LEMMA OwnedForCall ==
    ASSUME NEW c \in LinkerdClients, NEW call, NEW found, \A r \in found : Owned(r),
           NEW r \in Linkerd!ForCall(c, call, found)
    PROVE  Owned(r)
  <1> DEFINE s == call.server
  <1>1. CASE r = Linkerd!First(Linkerd!FindServer(found, s), Linkerd!ServerOf(c, s))
    <2>1. \A o \in Linkerd!FindServer(found, s) : Owned(o)
      BY DEF Linkerd!FindServer, Linkerd!Of
    <2> QED BY <1>1, <2>1, OwnedFirst, OwnedNew
  <1>2. ASSUME NEW target, NEW auth, NEW made,
               r = Linkerd!First(Linkerd!FindPolicy(found, target, auth),
                                 Linkerd!NewPolicy(c, made, auth))
        PROVE  Owned(r)
    <2>1. \A o \in Linkerd!FindPolicy(found, target, auth) : Owned(o)
      BY DEF Linkerd!FindPolicy, Linkerd!Of
    <2> QED BY <1>2, <2>1, OwnedFirst, OwnedNew
  <1>3. ASSUME NEW path, NEW probe \in BOOLEAN,
               r = Linkerd!First(Linkerd!FindRoute(found, s, path),
                                 Linkerd!Route(c, s, path, probe))
        PROVE  Owned(r)
    <2>1. \A o \in Linkerd!FindRoute(found, s, path) : Owned(o)
      BY DEF Linkerd!FindRoute, Linkerd!Of
    <2> QED BY <1>3, <2>1, OwnedFirst, OwnedNew
  <1>4. r \in Linkerd!ForProbe(c, s, found) => Owned(r)
    BY <1>2, <1>3 DEF Linkerd!ForProbe
  <1>5. r \in Linkerd!ForPath(c, s, call.path, found) => Owned(r)
    BY <1>2, <1>3 DEF Linkerd!ForPath
  <1>6. CASE r \in {Linkerd!First(Linkerd!FindPolicy(found, Linkerd!ToServer(s), c),
                                  Linkerd!NewPolicy(c, Linkerd!ToServer(s), c))}
    BY <1>2, <1>6
  <1> QED BY <1>1, <1>4, <1>5, <1>6 DEF Linkerd!ForCall

LEMMA OwnedWanted ==
    ASSUME LinkerdInv, NEW w,
           NEW r \in Linkerd!Wanted(w) \cup
                     UNION {Linkerd!ForCall(w, call, externalCache) : call \in Linkerd!CallsOf(w)}
    PROVE  Owned(r)
  <1>1. Linkerd!CallsOf(w) # {} => w \in LinkerdClients
    BY DEF Linkerd!CallsOf, LinkerdClients
  <1>2. Linkerd!CallsOf(w) # {}
    BY DEF Linkerd!Wanted
  <1>3. w \in LinkerdClients
    BY <1>1, <1>2
  <1>4. ASSUME NEW call \in Linkerd!CallsOf(w), r \in Linkerd!ForCall(w, call, externalCache)
        PROVE  Owned(r)
    BY <1>3, <1>4, OwnedForCall DEF LinkerdInv
  <1>5. r \in Linkerd!Primary(w) => Owned(r)
    BY <1>3, OwnedNew DEF Linkerd!Primary
  <1> QED BY <1>4, <1>5 DEF Linkerd!Wanted

LEMMA LinkerdInit == Linkerd!Init => LinkerdInv
  BY DEF Linkerd!Init, LinkerdInv, LinkerdClients

LEMMA LinkerdPassTypes == LinkerdInv /\ Linkerd!Step => LinkerdInv'
  <1> SUFFICES ASSUME LinkerdInv, Linkerd!Step PROVE LinkerdInv'
    OBVIOUS
  <1>1. UNCHANGED <<ci, pod, ciCache, externalCache>>
    BY DEF Linkerd!Step, Linkerd!Begin, Linkerd!End, Linkerd!ApplyWorkload,
           Linkerd!SkipWorkload, Linkerd!FailWorkload
  <1>2. queued' \in BOOLEAN
    BY DEF LinkerdInv, Linkerd!Step, Linkerd!Begin, Linkerd!End, Linkerd!ApplyWorkload,
           Linkerd!SkipWorkload, Linkerd!FailWorkload
  <1>3. \A r \in external' : Owned(r)
    <2>1. CASE Linkerd!Begin
      BY <2>1 DEF Linkerd!Begin, LinkerdInv
    <2>2. CASE Linkerd!End
      <3>1. external' \subseteq external
        BY <2>2 DEF Linkerd!End
      <3> QED BY <3>1 DEF LinkerdInv
    <2>3. ASSUME NEW w, Linkerd!ApplyWorkload(w) PROVE \A r \in external' : Owned(r)
      <3>1. external' = external \cup Linkerd!Wanted(w)
        BY <2>3 DEF Linkerd!ApplyWorkload
      <3> QED BY <3>1, OwnedWanted DEF LinkerdInv
    <2>4. ASSUME NEW w, Linkerd!SkipWorkload(w) PROVE \A r \in external' : Owned(r)
      BY <2>4 DEF Linkerd!SkipWorkload, LinkerdInv
    <2>5. ASSUME NEW w, Linkerd!FailWorkload(w) PROVE \A r \in external' : Owned(r)
      <3>1. external' \subseteq external \cup
               UNION {Linkerd!ForCall(w, call, externalCache) : call \in Linkerd!CallsOf(w)}
        BY <2>5 DEF Linkerd!FailWorkload
      <3> QED BY <3>1, OwnedWanted DEF LinkerdInv
    <2> QED BY <2>1, <2>2, <2>3, <2>4, <2>5 DEF Linkerd!Step
  <1> QED BY <1>1, <1>2, <1>3 DEF LinkerdInv, Owned

LEMMA LinkerdAround == LinkerdInv /\ (Linkerd!Users \/ Linkerd!Sync \/ Linkerd!Resync) => LinkerdInv'
  <1> SUFFICES ASSUME LinkerdInv, Linkerd!Users \/ Linkerd!Sync \/ Linkerd!Resync
               PROVE  LinkerdInv'
    OBVIOUS
  <1>1. /\ UNCHANGED external /\ externalCache' \in {external, externalCache}
        /\ queued' \in BOOLEAN
    BY DEF LinkerdInv, Linkerd!Users, Linkerd!ChangeIntents, Linkerd!ChangePods, Linkerd!Sync, Linkerd!Resync
  <1>2. ci' \in [LinkerdClients -> {{}, {Call("s", "no HTTP")}, {Call("s", "/a")}}]
    BY DEF LinkerdInv, Linkerd!Users, Linkerd!ChangeIntents, Linkerd!ChangePods, Linkerd!Sync, Linkerd!Resync
  <1>3. (pod \cup ciCache \subseteq LinkerdClients \cup {"s"})'
    BY DEF LinkerdInv, LinkerdClients, Linkerd!Users, Linkerd!ChangeIntents, Linkerd!ChangePods,
           Linkerd!Sync, Linkerd!Resync
  <1> QED BY <1>1, <1>2, <1>3 DEF LinkerdInv, Owned

LEMMA LinkerdStep == LinkerdInv /\ [Linkerd!Next]_(Linkerd!vars) => LinkerdInv'
  <1>1. LinkerdInv /\ UNCHANGED Linkerd!vars => LinkerdInv'
    BY DEF Linkerd!vars, LinkerdInv, Owned
  <1> QED BY <1>1, LinkerdPassTypes, LinkerdAround DEF Linkerd!Next

LEMMA LinkerdTyped == LinkerdInv => Linkerd!TypeOK
  BY DEF LinkerdInv, Owned, LinkerdClients, Linkerd!TypeOK

-----------------------------------------------------------------------------
(* The handlers of policies (PolicySets): types.  Policies admit ports of  *)
(* their kind, because what a pass wants and has not gone over yet does.   *)

LEMMA PortsWritten ==
    ASSUME NEW N, NEW Q, NEW S, NEW f \in [N -> [Q -> S]], NEW n, NEW q, NEW v \in S
    PROVE  [f EXCEPT ![n][q] = v] \in [N -> [Q -> S]]
  OBVIOUS

-----------------------------------------------------------------------------
(* MetricsTraffic.                                                         *)

MetricsCluster(x) ==
    /\ x = [marks |-> x.marks, behind |-> x.behind, blocked |-> x.blocked]
    /\ x.marks \in [{"w", "s", "t"} -> {"8080", "9090", "bad", "no"}]
    /\ x.blocked \subseteq {"w"}

MetricsNames == {"pod", "service"} \X {"w"}
MetricsPlaces == {"ns"}
MetricsPorts == {"8080", "9090"}

\* Once it has computed them, a pass wants policies with ports of its level.
MetricsPass(p) ==
    p # Metrics!Idle =>
        /\ p = [pc |-> p.pc, level |-> p.level, wanted |-> p.wanted, existing |-> p.existing,
                add |-> p.add, delete |-> p.delete, update |-> p.update]
        /\ p.pc \in {"reduce", "list", "apply"} /\ p.level \in {"pod", "service"}
        /\ p.pc # "reduce" => \A n \in Metrics!NamesOf(p.level) : p.wanted[n].ports \in SUBSET MetricsPorts
        /\ p.pc = "apply" => p.add \subseteq Metrics!NamesOf(p.level) /\ p.update \subseteq Metrics!NamesOf(p.level)

\* What keeps the types: policies and their copies have them, and so has each pass.
MetricsInv ==
    /\ ingress \in [MetricsNames -> [MetricsPlaces -> SUBSET MetricsPorts]]
    /\ ingressCache \in [MetricsNames -> [MetricsPlaces -> SUBSET MetricsPorts]]
    /\ MetricsCluster(service) /\ MetricsCluster(serviceCache)
    /\ queued \subseteq {"resources", "policies"}
    /\ pass = [h \in {"resources", "policies"} |-> pass[h]]
    /\ \A h \in {"resources", "policies"} : MetricsPass(pass[h])

LEMMA MetricsIdle == MetricsPass(Metrics!Idle) /\ Metrics!Idle.pc = "idle"
  BY DEF MetricsPass, Metrics!Idle

\* A pass that starts, goes on or ends.
LEMMA MetricsPasses ==
    ASSUME MetricsInv, NEW h \in {"resources", "policies"}, NEW p, MetricsPass(p),
           pass' = [pass EXCEPT ![h] = p]
    PROVE  /\ pass' = [g \in {"resources", "policies"} |-> pass'[g]]
           /\ \A g \in {"resources", "policies"} : MetricsPass(pass'[g])
  BY DEF MetricsInv

LEMMA MetricsFail ==
    ASSUME MetricsInv, NEW h \in {"resources", "policies"}, Metrics!Fail(h)
    PROVE  /\ pass' = [g \in {"resources", "policies"} |-> pass'[g]]
           /\ \A g \in {"resources", "policies"} : MetricsPass(pass'[g])
           /\ queued' \subseteq {"resources", "policies"}
  <1>1. pass' = [pass EXCEPT ![h] = Metrics!Idle] /\ queued' = queued \cup {h}
    BY DEF Metrics!Fail
  <1>2. queued' \subseteq {"resources", "policies"}
    BY <1>1 DEF MetricsInv
  <1> QED BY <1>1, <1>2, MetricsIdle, MetricsPasses

\* A handler goes over a policy: it is written as wanted, or removed, or not.
LEMMA MetricsWritten ==
    ASSUME MetricsInv, NEW h \in {"resources", "policies"}, pass[h] # Metrics!Idle,
           NEW a, a \subseteq pass[h].add, NEW d, NEW u, u \subseteq pass[h].update,
           pass[h].pc = "apply",
           \/ pass' = [pass EXCEPT ![h].add = a] /\ UNCHANGED queued
           \/ pass' = [pass EXCEPT ![h].delete = d] /\ UNCHANGED queued
           \/ pass' = [pass EXCEPT ![h].update = u] /\ UNCHANGED queued
           \/ Metrics!Fail(h),
           NEW n, NEW q, NEW ports \in SUBSET MetricsPorts,
           ingress' = ingress \/ ingress' = [ingress EXCEPT ![n][q] = ports],
           UNCHANGED <<ingressCache, service, serviceCache>>
    PROVE  MetricsInv'
  <1>1. ingress' \in [MetricsNames -> [MetricsPlaces -> SUBSET MetricsPorts]]
    <2>1. ingress \in [MetricsNames -> [MetricsPlaces -> SUBSET MetricsPorts]]
      BY DEF MetricsInv
    <2>2. CASE ingress' = [ingress EXCEPT ![n][q] = ports]
      BY ONLY <2>1, <2>2, ports \in SUBSET MetricsPorts
    <2> QED BY <2>1, <2>2
  <1>2. PICK p : p = pass[h]
    OBVIOUS
  <1>3. MetricsPass(p) /\ p # Metrics!Idle /\ p.pc = "apply"
    BY <1>2 DEF MetricsInv
  <1>4. /\ a \subseteq Metrics!NamesOf(p.level) /\ u \subseteq Metrics!NamesOf(p.level)
        /\ p.add \subseteq Metrics!NamesOf(p.level) /\ p.update \subseteq Metrics!NamesOf(p.level)
    BY <1>2, <1>3 DEF MetricsPass
  <1>5. MetricsPass([p EXCEPT !.add = a]) /\ MetricsPass([p EXCEPT !.delete = d]) /\ MetricsPass([p EXCEPT !.update = u])
    BY <1>3, <1>4 DEF MetricsPass
  <1>6. \/ pass' = [pass EXCEPT ![h] = [p EXCEPT !.add = a]] /\ UNCHANGED queued
        \/ pass' = [pass EXCEPT ![h] = [p EXCEPT !.delete = d]] /\ UNCHANGED queued
        \/ pass' = [pass EXCEPT ![h] = [p EXCEPT !.update = u]] /\ UNCHANGED queued
        \/ Metrics!Fail(h)
    BY <1>2
  <1>7. /\ pass' = [g \in {"resources", "policies"} |-> pass'[g]]
        /\ \A g \in {"resources", "policies"} : MetricsPass(pass'[g])
        /\ queued' \subseteq {"resources", "policies"}
    <2>1. CASE Metrics!Fail(h)
      BY <2>1, MetricsFail
    <2>2. CASE ~Metrics!Fail(h)
      <3>1. UNCHANGED queued
        BY <1>6, <2>2
      <3> QED BY <1>5, <1>6, <2>2, <3>1, MetricsPasses DEF MetricsInv
    <2> QED BY <2>1, <2>2
  <1> QED BY <1>1, <1>7 DEF MetricsInv, MetricsPass, MetricsCluster

\* What a pass wants of a name, it wants with ports of the kind.
LEMMA MetricsWanted ==
    ASSUME MetricsInv, NEW h \in {"resources", "policies"}, pass[h] # Metrics!Idle,
           pass[h].pc = "apply", NEW n, n \in pass[h].add \/ n \in pass[h].update
    PROVE  pass[h].wanted[n].ports \in SUBSET MetricsPorts
  BY DEF MetricsInv, MetricsPass

LEMMA MetricsAdd ==
    ASSUME MetricsInv, NEW h \in {"resources", "policies"}, Metrics!HandlePoliciesToAdd(h)
    PROVE  MetricsInv'
  <1>1. PICK n \in Metrics!Scope : Metrics!Add(h, n)
    BY DEF Metrics!HandlePoliciesToAdd
  <1>2. UNCHANGED <<ingressCache, service, serviceCache>>
    BY DEF Metrics!HandlePoliciesToAdd, Metrics!Add
  <1>3. pass[h].pc = "apply" /\ n \in pass[h].add
    BY <1>1 DEF Metrics!Add
  <1>4. pass[h] # Metrics!Idle
    BY <1>3, MetricsIdle
  <1>5. PICK q, ports : q = pass[h].wanted[n].at /\ ports = pass[h].wanted[n].ports
    OBVIOUS
  <1>6. ports \in SUBSET MetricsPorts
    BY <1>3, <1>4, <1>5, MetricsWanted
  <1>7. ingress' = ingress \/ ingress' = [ingress EXCEPT ![n][q] = ports]
    BY <1>1, <1>5 DEF Metrics!Add, Metrics!Patch
  <1>8. \/ pass' = [pass EXCEPT ![h].add = pass[h].add \ {n}] /\ UNCHANGED queued
        \/ pass' = [pass EXCEPT ![h].add = {}] /\ UNCHANGED queued
        \/ Metrics!Fail(h)
    BY <1>1 DEF Metrics!Add
  <1>9. PICK a : /\ a \subseteq pass[h].add
                 /\ (pass' = [pass EXCEPT ![h].add = a] /\ UNCHANGED queued) \/ Metrics!Fail(h)
    BY <1>8
  <1> QED BY <1>2, <1>3, <1>4, <1>6, <1>7, <1>9, MetricsWritten

LEMMA MetricsDelete ==
    ASSUME MetricsInv, NEW h \in {"resources", "policies"}, Metrics!HandlePoliciesToDelete(h)
    PROVE  MetricsInv'
  <1>1. PICK n \in Metrics!Scope : Metrics!Delete(h, n)
    BY DEF Metrics!HandlePoliciesToDelete
  <1>2. UNCHANGED <<ingressCache, service, serviceCache>>
    BY DEF Metrics!HandlePoliciesToDelete, Metrics!Delete
  <1>3. pass[h].pc = "apply"
    BY <1>1 DEF Metrics!Delete
  <1>4. pass[h] # Metrics!Idle
    BY <1>3, MetricsIdle
  <1>5. PICK q : q = pass[h].existing[n]
    OBVIOUS
  <1>6. ingress' = ingress \/ ingress' = [ingress EXCEPT ![n][q] = {}]
    BY <1>1, <1>5 DEF Metrics!Delete, Metrics!None
  <1>7. PICK d : (pass' = [pass EXCEPT ![h].delete = d] /\ UNCHANGED queued) \/ Metrics!Fail(h)
    BY <1>1 DEF Metrics!Delete
  <1>8. PICK a, u, ports : a = pass[h].add /\ u = pass[h].update /\ ports = {}
    OBVIOUS
  <1>9. /\ a \subseteq pass[h].add /\ u \subseteq pass[h].update /\ ports \in SUBSET MetricsPorts
        /\ ingress' = ingress \/ ingress' = [ingress EXCEPT ![n][q] = ports]
    BY <1>6, <1>8
  <1> QED BY <1>2, <1>3, <1>4, <1>7, <1>9, MetricsWritten

LEMMA MetricsUpdate ==
    ASSUME MetricsInv, NEW h \in {"resources", "policies"}, Metrics!HandlePoliciesToUpdate(h)
    PROVE  MetricsInv'
  <1>1. PICK n \in Metrics!Scope : Metrics!Update(h, n)
    BY DEF Metrics!HandlePoliciesToUpdate
  <1>2. UNCHANGED <<ingressCache, service, serviceCache>>
    BY DEF Metrics!HandlePoliciesToUpdate, Metrics!Update
  <1>3. pass[h].pc = "apply" /\ n \in pass[h].update
    BY <1>1 DEF Metrics!Update
  <1>4. pass[h] # Metrics!Idle
    BY <1>3, MetricsIdle
  <1>5. PICK q, ports : q = pass[h].wanted[n].at /\ ports = pass[h].wanted[n].ports
    OBVIOUS
  <1>6. ports \in SUBSET MetricsPorts
    BY <1>3, <1>4, <1>5, MetricsWanted
  <1>7. ingress' = ingress \/ ingress' = [ingress EXCEPT ![n][q] = ports]
    BY <1>1, <1>5 DEF Metrics!Update, Metrics!Patch
  <1>8. \/ pass' = [pass EXCEPT ![h].update = pass[h].update \ {n}] /\ UNCHANGED queued
        \/ Metrics!Fail(h)
    BY <1>1 DEF Metrics!Update
  <1>9. PICK u : /\ u \subseteq pass[h].update
                 /\ (pass' = [pass EXCEPT ![h].update = u] /\ UNCHANGED queued) \/ Metrics!Fail(h)
    BY <1>8
  <1> QED BY <1>2, <1>3, <1>4, <1>6, <1>7, <1>9, MetricsWritten

\* The steps of a pass that write nothing.
LEMMA MetricsQuiet ==
    ASSUME MetricsInv, NEW h \in {"resources", "policies"}, NEW p, MetricsPass(p),
           pass' = [pass EXCEPT ![h] = p], queued' \subseteq queued,
           UNCHANGED <<ingress, ingressCache, service, serviceCache>>
    PROVE  MetricsInv'
  <1>1. /\ pass' = [g \in {"resources", "policies"} |-> pass'[g]]
        /\ \A g \in {"resources", "policies"} : MetricsPass(pass'[g])
    BY MetricsPasses
  <1> QED BY <1>1 DEF MetricsInv, MetricsPass, MetricsCluster

LEMMA MetricsList ==
    ASSUME MetricsInv, NEW h \in {"resources", "policies"}, Metrics!ListLevel(h)
    PROVE  MetricsInv'
  <1>1. pass[h].pc = "list" /\ UNCHANGED <<ingress, ingressCache, service, serviceCache, queued>>
    BY DEF Metrics!ListLevel, Metrics!List
  <1>2. PICK p : p = pass[h]
    OBVIOUS
  <1>3. MetricsPass(p) /\ p # Metrics!Idle
    BY <1>1, <1>2, MetricsIdle DEF MetricsInv
  <1>4. PICK e, a, d, u :
            /\ a \subseteq Metrics!NamesOf(p.level) /\ u \subseteq Metrics!NamesOf(p.level)
            /\ pass' = [pass EXCEPT ![h] = [pass[h] EXCEPT !.pc = "apply", !.existing = e,
                                                           !.add = a, !.delete = d, !.update = u]]
    <2>1. PICK e \in Metrics!Listed(Metrics!NamesOf(p.level)) :
            LET wanted == {n \in Metrics!NamesOf(p.level) : pass[h].wanted[n] # Metrics!NoPolicy}
                present == {n \in Metrics!NamesOf(p.level) : e[n] # "nowhere"} IN
            pass' = [pass EXCEPT ![h] = [@ EXCEPT !.pc = "apply", !.existing = e,
                      !.add = wanted \ present, !.delete = present \ wanted,
                      !.update = wanted \cap present]]
      BY <1>2 DEF Metrics!ListLevel, Metrics!List
    <2> DEFINE wanted == {n \in Metrics!NamesOf(p.level) : pass[h].wanted[n] # Metrics!NoPolicy}
               present == {n \in Metrics!NamesOf(p.level) : e[n] # "nowhere"}
    <2>2. wanted \subseteq Metrics!NamesOf(p.level)
      OBVIOUS
    <2>3. pass' = [pass EXCEPT ![h] = [pass[h] EXCEPT !.pc = "apply", !.existing = e,
                      !.add = wanted \ present, !.delete = present \ wanted,
                      !.update = wanted \cap present]]
      BY <2>1
    <2> HIDE DEF wanted, present
    <2> QED BY <2>2, <2>3
  <1> DEFINE p1 == [p EXCEPT !.pc = "apply"]
             p2 == [p1 EXCEPT !.existing = e]
             p3 == [p2 EXCEPT !.add = a]
             p4 == [p3 EXCEPT !.delete = d]
             p5 == [p4 EXCEPT !.update = u]
  <1>5. pass' = [pass EXCEPT ![h] = p5]
    BY <1>2, <1>4
  <1>6. p1 = [pc |-> "apply", level |-> p.level, wanted |-> p.wanted, existing |-> p.existing,
              add |-> p.add, delete |-> p.delete, update |-> p.update]
    BY <1>3 DEF MetricsPass
  <1> HIDE DEF p1
  <1>7. p2 = [pc |-> "apply", level |-> p.level, wanted |-> p.wanted, existing |-> e,
              add |-> p.add, delete |-> p.delete, update |-> p.update]
    BY <1>6
  <1> HIDE DEF p2
  <1>8. p3 = [pc |-> "apply", level |-> p.level, wanted |-> p.wanted, existing |-> e,
              add |-> a, delete |-> p.delete, update |-> p.update]
    BY <1>7
  <1> HIDE DEF p3
  <1>9. p4 = [pc |-> "apply", level |-> p.level, wanted |-> p.wanted, existing |-> e,
              add |-> a, delete |-> d, update |-> p.update]
    BY <1>8
  <1> HIDE DEF p4
  <1>10. p5 = [pc |-> "apply", level |-> p.level, wanted |-> p.wanted, existing |-> e,
               add |-> a, delete |-> d, update |-> u]
    BY <1>9
  <1> HIDE DEF p5
  <1>11. MetricsPass(p5)
    <2>1. p.level \in {"pod", "service"} /\ \A n \in Metrics!NamesOf(p.level) : p.wanted[n].ports \in SUBSET MetricsPorts
      BY <1>1, <1>2, <1>3 DEF MetricsPass
    <2>2. p5.level = p.level /\ p5.wanted = p.wanted /\ p5.pc = "apply" /\ p5.add = a /\ p5.update = u
      BY <1>10
    <2> QED BY <1>4, <1>10, <2>1, <2>2 DEF MetricsPass
  <1> QED BY <1>1, <1>5, <1>11, MetricsQuiet

\* Without a bad mark, the marks are ports.
LEMMA MetricsMarks ==
    ASSUME NEW x, MetricsCluster(x), NEW level \in {"pod", "service"}, ~Metrics!Bad(x, level),
           NEW f \in Metrics!Reduced(x, level)
    PROVE  \A n \in Metrics!NamesOf(level) : f[n].ports \in SUBSET MetricsPorts
  <1>1. Metrics!Asked(x, level, "w") \subseteq MetricsPorts
    <2>1. Metrics!Asked(x, level, "w") \subseteq {"8080", "9090", "bad"}
      BY DEF Metrics!Asked, Metrics!Resource, Metrics!Unmarked, MetricsCluster
    <2>2. "bad" \notin Metrics!Asked(x, level, "w")
      BY DEF Metrics!Bad
    <2> QED BY <2>1, <2>2 DEF MetricsPorts
  <1>2. f[<<level, "w">>] \in
            IF [at : {"ns"}, ports : {{m} : m \in Metrics!Asked(x, level, "w")}] = {}
            THEN {Metrics!NoPolicy}
            ELSE [at : {"ns"}, ports : {{m} : m \in Metrics!Asked(x, level, "w")}]
    BY DEF Metrics!Reduced
  <1>3. f[<<level, "w">>].ports \in {{m} : m \in Metrics!Asked(x, level, "w")} \cup {{}}
    <2>1. CASE f[<<level, "w">>] = Metrics!NoPolicy
      BY <2>1 DEF Metrics!NoPolicy, Metrics!None
    <2>2. CASE f[<<level, "w">>] # Metrics!NoPolicy
      <3>1. f[<<level, "w">>] \in [at : {"ns"}, ports : {{m} : m \in Metrics!Asked(x, level, "w")}]
        BY <1>2, <2>2
      <3> QED BY <3>1
    <2> QED BY <2>1, <2>2
  <1> QED BY <1>1, <1>3 DEF Metrics!NamesOf

LEMMA MetricsBegin ==
    ASSUME MetricsInv, NEW h \in {"resources", "policies"}, Metrics!Begin(h)
    PROVE  MetricsInv'
  <1> DEFINE p == [pc |-> "reduce", level |-> IF h = "policies" THEN "service" ELSE "pod",
                   wanted |-> Metrics!Nothing, existing |-> Metrics!Nothing,
                   add |-> {}, delete |-> {}, update |-> {}]
  <1>1. pass' = [pass EXCEPT ![h] = p]
    BY DEF Metrics!Begin
  <1>2. MetricsPass(p)
    BY DEF MetricsPass
  <1> HIDE DEF p
  <1>3. queued' \subseteq queued /\ UNCHANGED <<ingress, ingressCache, service, serviceCache>>
    BY DEF Metrics!Begin
  <1> QED BY <1>1, <1>2, <1>3, MetricsQuiet

LEMMA MetricsReduce ==
    ASSUME MetricsInv, NEW h \in {"resources", "policies"}, Metrics!Reduce(h)
    PROVE  MetricsInv'
  <1>1. pass[h].pc = "reduce" /\ UNCHANGED <<ingress, ingressCache, service, serviceCache>>
    BY DEF Metrics!Reduce
  <1>2. CASE Metrics!Fail(h)
    BY <1>1, <1>2, MetricsFail DEF MetricsInv, MetricsPass, MetricsCluster
  <1>3. CASE ~Metrics!Fail(h)
    <2>1. PICK p : p = pass[h]
      OBVIOUS
    <2>2. MetricsPass(p) /\ p # Metrics!Idle
      BY <1>1, <2>1, MetricsIdle DEF MetricsInv
    <2>3. p.level \in {"pod", "service"}
      BY <2>2 DEF MetricsPass
    <2>4. /\ ~Metrics!Bad(serviceCache, p.level) /\ UNCHANGED queued
          /\ \E f \in Metrics!Reduced(serviceCache, p.level) :
                 pass' = [pass EXCEPT ![h] = [p EXCEPT !.pc = "list", !.wanted = f]]
      BY <1>3, <2>1 DEF Metrics!Reduce
    <2>5. PICK f \in Metrics!Reduced(serviceCache, p.level) :
                 pass' = [pass EXCEPT ![h] = [p EXCEPT !.pc = "list", !.wanted = f]]
      BY <2>4
    <2>6. \A n \in Metrics!NamesOf(p.level) : f[n].ports \in SUBSET MetricsPorts
      BY <2>3, <2>4, MetricsMarks DEF MetricsInv
    <2> DEFINE p1 == [p EXCEPT !.pc = "list"]
               p2 == [p1 EXCEPT !.wanted = f]
    <2>7. pass' = [pass EXCEPT ![h] = p2]
      BY <2>5
    <2>8. p1 = [pc |-> "list", level |-> p.level, wanted |-> p.wanted, existing |-> p.existing,
                add |-> p.add, delete |-> p.delete, update |-> p.update]
      BY <2>2 DEF MetricsPass
    <2> HIDE DEF p1
    <2>9. p2 = [pc |-> "list", level |-> p.level, wanted |-> f, existing |-> p.existing,
                add |-> p.add, delete |-> p.delete, update |-> p.update]
      BY <2>8
    <2> HIDE DEF p2
    <2>10. MetricsPass(p2)
      <3>1. p2.level = p.level /\ p2.wanted = f /\ p2.pc = "list"
        BY <2>9
      <3> QED BY <2>3, <2>6, <2>9, <3>1 DEF MetricsPass
    <2> QED BY <1>1, <2>4, <2>7, <2>10, MetricsQuiet
  <1> QED BY <1>2, <1>3

LEMMA MetricsEnd ==
    ASSUME MetricsInv, NEW h \in {"resources", "policies"}, Metrics!End(h)
    PROVE  MetricsInv'
  <1>1. /\ pass[h].pc = "apply"
        /\ UNCHANGED <<ingress, ingressCache, service, serviceCache, queued>>
    BY DEF Metrics!End, Metrics!Applied
  <1>2. PICK p : p = pass[h]
    OBVIOUS
  <1>3. MetricsPass(p) /\ p # Metrics!Idle
    BY <1>1, <1>2, MetricsIdle DEF MetricsInv
  <1> DEFINE p1 == [p EXCEPT !.level = "pod"]
             p2 == [p1 EXCEPT !.pc = "reduce"]
  <1>4. pass' = [pass EXCEPT ![h] = Metrics!Idle] \/ pass' = [pass EXCEPT ![h] = p2]
    BY <1>2 DEF Metrics!End
  <1>5. p1 = [pc |-> p.pc, level |-> "pod", wanted |-> p.wanted, existing |-> p.existing,
              add |-> p.add, delete |-> p.delete, update |-> p.update]
    BY <1>3 DEF MetricsPass
  <1> HIDE DEF p1
  <1>6. p2 = [pc |-> "reduce", level |-> "pod", wanted |-> p.wanted, existing |-> p.existing,
              add |-> p.add, delete |-> p.delete, update |-> p.update]
    BY <1>5
  <1> HIDE DEF p2
  <1>7. MetricsPass(p2)
    BY <1>6 DEF MetricsPass
  <1> QED BY <1>1, <1>4, <1>7, MetricsIdle, MetricsQuiet

LEMMA MetricsChanged ==
    ASSUME NEW x, MetricsCluster(x), NEW y,
           \/ \E r \in {"w"} \cup {"s", "t"}, m \in {"8080", "9090", "bad"} \cup {Metrics!Unmarked} :
                 x.marks[r] # m /\ y = [x EXCEPT !.marks[r] = m]
           \/ \E s \in {"s", "t"}, ws \in SUBSET {"w"} :
                 x.behind[s] # ws /\ y = [x EXCEPT !.behind[s] = ws]
           \/ \E ws \in SUBSET {"w"} : x.blocked # ws /\ y = [x EXCEPT !.blocked = ws]
    PROVE  MetricsCluster(y)
  <1>1. ASSUME NEW r \in {"w", "s", "t"}, NEW m \in {"8080", "9090", "bad", "no"},
               y = [x EXCEPT !.marks[r] = m]
        PROVE  MetricsCluster(y)
    <2>1. PICK marks : marks = [x.marks EXCEPT ![r] = m]
      OBVIOUS
    <2>2. marks \in [{"w", "s", "t"} -> {"8080", "9090", "bad", "no"}]
      BY <2>1 DEF MetricsCluster
    <2>3. y = [x EXCEPT !.marks = marks]
      BY <1>1, <2>1
    <2> QED BY <2>2, <2>3 DEF MetricsCluster
  <1>2. ASSUME NEW b, y = [x EXCEPT !.behind = b] PROVE MetricsCluster(y)
    BY <1>2 DEF MetricsCluster
  <1>3. ASSUME NEW ws \in SUBSET {"w"}, y = [x EXCEPT !.blocked = ws] PROVE MetricsCluster(y)
    BY <1>3 DEF MetricsCluster
  <1> QED BY <1>1, <1>2, <1>3 DEF Metrics!Unmarked

LEMMA MetricsAround == MetricsInv /\ (Metrics!Change \/ Metrics!Sync) => MetricsInv'
  <1>1. ASSUME MetricsInv, Metrics!Change PROVE MetricsInv'
    <2>1. MetricsCluster(service')
      BY <1>1, MetricsChanged DEF MetricsInv, Metrics!Change
    <2> QED BY <1>1, <2>1 DEF Metrics!Change, MetricsInv, MetricsPass, MetricsCluster
  <1>2. ASSUME MetricsInv, Metrics!Sync PROVE MetricsInv'
    <2>1. UNCHANGED <<ingress, pass, service>>
      BY <1>2 DEF Metrics!Sync, Metrics!SyncCluster, Metrics!SyncPolicies
    <2>2. /\ queued' \subseteq {"resources", "policies"}
          /\ ingressCache' \in {ingress, ingressCache} /\ serviceCache' \in {service, serviceCache}
      BY <1>2 DEF Metrics!Sync, Metrics!SyncCluster, Metrics!SyncPolicies, MetricsInv
    <2> QED BY <1>2, <2>1, <2>2 DEF MetricsInv, MetricsPass, MetricsCluster
  <1> QED BY <1>1, <1>2

LEMMA MetricsInit == Metrics!Init => MetricsInv
  <1> SUFFICES ASSUME Metrics!Init PROVE MetricsInv
    OBVIOUS
  <1>1. ingress \in [MetricsNames -> [MetricsPlaces -> SUBSET MetricsPorts]] /\ ingressCache = ingress
    BY DEF Metrics!Init, Metrics!SetInit, Metrics!None, MetricsNames, MetricsPlaces
  <1>2. /\ queued \subseteq {"resources", "policies"}
        /\ pass = [h \in {"resources", "policies"} |-> pass[h]]
        /\ \A h \in {"resources", "policies"} : MetricsPass(pass[h])
    BY MetricsIdle DEF Metrics!Init, Metrics!SetInit, Metrics!Controllers
  <1>3. MetricsCluster(service) /\ serviceCache = service
    BY DEF Metrics!Init, MetricsCluster, Metrics!Unmarked
  <1> QED BY <1>1, <1>2, <1>3 DEF MetricsInv

LEMMA MetricsStep == MetricsInv /\ [Metrics!Next]_(Metrics!vars) => MetricsInv'
  <1>1. ASSUME MetricsInv, UNCHANGED Metrics!vars PROVE MetricsInv'
    BY <1>1 DEF Metrics!vars, Metrics!setVars, MetricsInv, MetricsPass, MetricsCluster
  <1>2. ASSUME MetricsInv, NEW h \in {"resources", "policies"}, Metrics!Handle(h) PROVE MetricsInv'
    BY <1>2, MetricsBegin, MetricsReduce, MetricsList, MetricsEnd, MetricsAdd, MetricsDelete, MetricsUpdate DEF Metrics!Handle
  <1> QED BY <1>1, <1>2, MetricsAround DEF Metrics!Next, Metrics!Controllers

LEMMA MetricsTyped == MetricsInv => Metrics!TypeOK
  <1> SUFFICES ASSUME MetricsInv PROVE Metrics!TypeOK
    OBVIOUS
  <1>1. service.blocked \subseteq {"w"}
    BY DEF MetricsInv, MetricsCluster
  <1>2. \A h \in {"resources", "policies"} : pass[h].pc \in {"idle", "reduce", "list", "apply"}
    BY MetricsIdle DEF MetricsInv, MetricsPass
  <1>3. \A n \in Metrics!Scope, q \in MetricsPlaces : ingress[n][q] \subseteq MetricsPorts
    BY DEF MetricsInv, Metrics!Scope, MetricsNames, Metrics!NamesOf
  <1> QED BY <1>1, <1>2, <1>3 DEF Metrics!TypeOK, Metrics!Controllers, MetricsInv, MetricsPlaces, MetricsPorts

-----------------------------------------------------------------------------
(* WebhookTraffic.                                                         *)

WebhooksCluster(x) ==
    /\ x = [webhooks |-> x.webhooks, ports |-> x.ports, blocked |-> x.blocked]
    /\ x.webhooks \in [{"c"} -> SUBSET [service : {"s"}, at : {"m", "n"}, port : Nat]]
    /\ x.ports \in [{"s"} -> [{"m", "n"} -> SUBSET {443, 9443}]]
    /\ x.blocked \subseteq {"s"} \X {"m", "n"}

WebhooksNames == {"c"} \X {"s"}
WebhooksPlaces == {"m", "n"}
WebhooksPorts == {443, 9443}

\* Once it has computed them, a pass wants policies with ports of Services.
WebhooksPass(p) ==
    p # Webhooks!Idle =>
        /\ p = [pc |-> p.pc, wanted |-> p.wanted, existing |-> p.existing,
                add |-> p.add, delete |-> p.delete, update |-> p.update]
        /\ p.pc \in {"list", "apply"}
        /\ \A n \in Webhooks!Scope : p.wanted[n].ports \in SUBSET WebhooksPorts
        /\ p.pc = "apply" => p.add \subseteq Webhooks!Scope /\ p.update \subseteq Webhooks!Scope

\* What keeps the types: policies and their copies have them, and so has each pass.
WebhooksInv ==
    /\ ingress \in [WebhooksNames -> [WebhooksPlaces -> SUBSET WebhooksPorts]]
    /\ ingressCache \in [WebhooksNames -> [WebhooksPlaces -> SUBSET WebhooksPorts]]
    /\ WebhooksCluster(service) /\ WebhooksCluster(serviceCache)
    /\ queued \subseteq {"resources", "policies"}
    /\ pass = [h \in {"resources", "policies"} |-> pass[h]]
    /\ \A h \in {"resources", "policies"} : WebhooksPass(pass[h])

LEMMA WebhooksIdle == WebhooksPass(Webhooks!Idle) /\ Webhooks!Idle.pc = "idle"
  BY DEF WebhooksPass, Webhooks!Idle

\* A pass that starts, goes on or ends.
LEMMA WebhooksPasses ==
    ASSUME WebhooksInv, NEW h \in {"resources", "policies"}, NEW p, WebhooksPass(p),
           pass' = [pass EXCEPT ![h] = p]
    PROVE  /\ pass' = [g \in {"resources", "policies"} |-> pass'[g]]
           /\ \A g \in {"resources", "policies"} : WebhooksPass(pass'[g])
  BY DEF WebhooksInv

LEMMA WebhooksFail ==
    ASSUME WebhooksInv, NEW h \in {"resources", "policies"}, Webhooks!Fail(h)
    PROVE  /\ pass' = [g \in {"resources", "policies"} |-> pass'[g]]
           /\ \A g \in {"resources", "policies"} : WebhooksPass(pass'[g])
           /\ queued' \subseteq {"resources", "policies"}
  <1>1. pass' = [pass EXCEPT ![h] = Webhooks!Idle] /\ queued' = queued \cup {h}
    BY DEF Webhooks!Fail
  <1>2. queued' \subseteq {"resources", "policies"}
    BY <1>1 DEF WebhooksInv
  <1> QED BY <1>1, <1>2, WebhooksIdle, WebhooksPasses

\* A handler goes over a policy: it is written as wanted, or removed, or not.
LEMMA WebhooksWritten ==
    ASSUME WebhooksInv, NEW h \in {"resources", "policies"}, pass[h] # Webhooks!Idle,
           NEW a, a \subseteq pass[h].add, NEW d, NEW u, u \subseteq pass[h].update,
           pass[h].pc = "apply",
           \/ pass' = [pass EXCEPT ![h].add = a] /\ UNCHANGED queued
           \/ pass' = [pass EXCEPT ![h].delete = d] /\ UNCHANGED queued
           \/ pass' = [pass EXCEPT ![h].update = u] /\ UNCHANGED queued
           \/ Webhooks!Fail(h),
           NEW n, NEW q, NEW ports \in SUBSET WebhooksPorts,
           ingress' = ingress \/ ingress' = [ingress EXCEPT ![n][q] = ports],
           UNCHANGED <<ingressCache, service, serviceCache>>
    PROVE  WebhooksInv'
  <1>1. ingress' \in [WebhooksNames -> [WebhooksPlaces -> SUBSET WebhooksPorts]]
    <2>1. ingress \in [WebhooksNames -> [WebhooksPlaces -> SUBSET WebhooksPorts]]
      BY DEF WebhooksInv
    <2>2. CASE ingress' = [ingress EXCEPT ![n][q] = ports]
      BY ONLY <2>1, <2>2, ports \in SUBSET WebhooksPorts
    <2> QED BY <2>1, <2>2
  <1>2. PICK p : p = pass[h]
    OBVIOUS
  <1>3. WebhooksPass(p) /\ p # Webhooks!Idle /\ p.pc = "apply"
    BY <1>2 DEF WebhooksInv
  <1>4. /\ a \subseteq Webhooks!Scope /\ u \subseteq Webhooks!Scope
        /\ p.add \subseteq Webhooks!Scope /\ p.update \subseteq Webhooks!Scope
    BY <1>2, <1>3 DEF WebhooksPass
  <1>5. WebhooksPass([p EXCEPT !.add = a]) /\ WebhooksPass([p EXCEPT !.delete = d]) /\ WebhooksPass([p EXCEPT !.update = u])
    BY <1>3, <1>4 DEF WebhooksPass
  <1>6. \/ pass' = [pass EXCEPT ![h] = [p EXCEPT !.add = a]] /\ UNCHANGED queued
        \/ pass' = [pass EXCEPT ![h] = [p EXCEPT !.delete = d]] /\ UNCHANGED queued
        \/ pass' = [pass EXCEPT ![h] = [p EXCEPT !.update = u]] /\ UNCHANGED queued
        \/ Webhooks!Fail(h)
    BY <1>2
  <1>7. /\ pass' = [g \in {"resources", "policies"} |-> pass'[g]]
        /\ \A g \in {"resources", "policies"} : WebhooksPass(pass'[g])
        /\ queued' \subseteq {"resources", "policies"}
    <2>1. CASE Webhooks!Fail(h)
      BY <2>1, WebhooksFail
    <2>2. CASE ~Webhooks!Fail(h)
      <3>1. UNCHANGED queued
        BY <1>6, <2>2
      <3> QED BY <1>5, <1>6, <2>2, <3>1, WebhooksPasses DEF WebhooksInv
    <2> QED BY <2>1, <2>2
  <1> QED BY <1>1, <1>7 DEF WebhooksInv, WebhooksPass, WebhooksCluster

\* What a pass wants of a name, it wants with ports of the kind.
LEMMA WebhooksWanted ==
    ASSUME WebhooksInv, NEW h \in {"resources", "policies"}, pass[h] # Webhooks!Idle,
           pass[h].pc = "apply", NEW n, n \in pass[h].add \/ n \in pass[h].update
    PROVE  pass[h].wanted[n].ports \in SUBSET WebhooksPorts
  BY DEF WebhooksInv, WebhooksPass

LEMMA WebhooksAdd ==
    ASSUME WebhooksInv, NEW h \in {"resources", "policies"}, Webhooks!HandlePoliciesToAdd(h)
    PROVE  WebhooksInv'
  <1>1. PICK n \in Webhooks!Scope : Webhooks!Add(h, n)
    BY DEF Webhooks!HandlePoliciesToAdd
  <1>2. UNCHANGED <<ingressCache, service, serviceCache>>
    BY DEF Webhooks!HandlePoliciesToAdd, Webhooks!Add
  <1>3. pass[h].pc = "apply" /\ n \in pass[h].add
    BY <1>1 DEF Webhooks!Add
  <1>4. pass[h] # Webhooks!Idle
    BY <1>3, WebhooksIdle
  <1>5. PICK q, ports : q = pass[h].wanted[n].at /\ ports = pass[h].wanted[n].ports
    OBVIOUS
  <1>6. ports \in SUBSET WebhooksPorts
    BY <1>3, <1>4, <1>5, WebhooksWanted
  <1>7. ingress' = ingress \/ ingress' = [ingress EXCEPT ![n][q] = ports]
    BY <1>1, <1>5 DEF Webhooks!Add, Webhooks!Patch
  <1>8. \/ pass' = [pass EXCEPT ![h].add = pass[h].add \ {n}] /\ UNCHANGED queued
        \/ pass' = [pass EXCEPT ![h].add = {}] /\ UNCHANGED queued
        \/ Webhooks!Fail(h)
    BY <1>1 DEF Webhooks!Add
  <1>9. PICK a : /\ a \subseteq pass[h].add
                 /\ (pass' = [pass EXCEPT ![h].add = a] /\ UNCHANGED queued) \/ Webhooks!Fail(h)
    BY <1>8
  <1> QED BY <1>2, <1>3, <1>4, <1>6, <1>7, <1>9, WebhooksWritten

LEMMA WebhooksDelete ==
    ASSUME WebhooksInv, NEW h \in {"resources", "policies"}, Webhooks!HandlePoliciesToDelete(h)
    PROVE  WebhooksInv'
  <1>1. PICK n \in Webhooks!Scope : Webhooks!Delete(h, n)
    BY DEF Webhooks!HandlePoliciesToDelete
  <1>2. UNCHANGED <<ingressCache, service, serviceCache>>
    BY DEF Webhooks!HandlePoliciesToDelete, Webhooks!Delete
  <1>3. pass[h].pc = "apply"
    BY <1>1 DEF Webhooks!Delete
  <1>4. pass[h] # Webhooks!Idle
    BY <1>3, WebhooksIdle
  <1>5. PICK q : q = pass[h].existing[n]
    OBVIOUS
  <1>6. ingress' = ingress \/ ingress' = [ingress EXCEPT ![n][q] = {}]
    BY <1>1, <1>5 DEF Webhooks!Delete, Webhooks!None
  <1>7. PICK d : (pass' = [pass EXCEPT ![h].delete = d] /\ UNCHANGED queued) \/ Webhooks!Fail(h)
    BY <1>1 DEF Webhooks!Delete
  <1>8. PICK a, u, ports : a = pass[h].add /\ u = pass[h].update /\ ports = {}
    OBVIOUS
  <1>9. /\ a \subseteq pass[h].add /\ u \subseteq pass[h].update /\ ports \in SUBSET WebhooksPorts
        /\ ingress' = ingress \/ ingress' = [ingress EXCEPT ![n][q] = ports]
    BY <1>6, <1>8
  <1> QED BY <1>2, <1>3, <1>4, <1>7, <1>9, WebhooksWritten

LEMMA WebhooksUpdate ==
    ASSUME WebhooksInv, NEW h \in {"resources", "policies"}, Webhooks!HandlePoliciesToUpdate(h)
    PROVE  WebhooksInv'
  <1>1. PICK n \in Webhooks!Scope : Webhooks!Update(h, n)
    BY DEF Webhooks!HandlePoliciesToUpdate
  <1>2. UNCHANGED <<ingressCache, service, serviceCache>>
    BY DEF Webhooks!HandlePoliciesToUpdate, Webhooks!Update
  <1>3. pass[h].pc = "apply" /\ n \in pass[h].update
    BY <1>1 DEF Webhooks!Update
  <1>4. pass[h] # Webhooks!Idle
    BY <1>3, WebhooksIdle
  <1>5. PICK q, ports : q = pass[h].wanted[n].at /\ ports = pass[h].wanted[n].ports
    OBVIOUS
  <1>6. ports \in SUBSET WebhooksPorts
    BY <1>3, <1>4, <1>5, WebhooksWanted
  <1>7. ingress' = ingress \/ ingress' = [ingress EXCEPT ![n][q] = ports]
    BY <1>1, <1>5 DEF Webhooks!Update, Webhooks!Patch
  <1>8. \/ pass' = [pass EXCEPT ![h].update = pass[h].update \ {n}] /\ UNCHANGED queued
        \/ Webhooks!Fail(h)
    BY <1>1 DEF Webhooks!Update
  <1>9. PICK u : /\ u \subseteq pass[h].update
                 /\ (pass' = [pass EXCEPT ![h].update = u] /\ UNCHANGED queued) \/ Webhooks!Fail(h)
    BY <1>8
  <1> QED BY <1>2, <1>3, <1>4, <1>6, <1>7, <1>9, WebhooksWritten

\* The steps of a pass that write nothing.
LEMMA WebhooksQuiet ==
    ASSUME WebhooksInv, NEW h \in {"resources", "policies"}, NEW p, WebhooksPass(p),
           pass' = [pass EXCEPT ![h] = p], queued' \subseteq queued,
           UNCHANGED <<ingress, ingressCache, service, serviceCache>>
    PROVE  WebhooksInv'
  <1>1. /\ pass' = [g \in {"resources", "policies"} |-> pass'[g]]
        /\ \A g \in {"resources", "policies"} : WebhooksPass(pass'[g])
    BY WebhooksPasses
  <1> QED BY <1>1 DEF WebhooksInv, WebhooksPass, WebhooksCluster

LEMMA WebhooksList ==
    ASSUME WebhooksInv, NEW h \in {"resources", "policies"}, Webhooks!ListAll(h)
    PROVE  WebhooksInv'
  <1>1. pass[h].pc = "list" /\ UNCHANGED <<ingress, ingressCache, service, serviceCache, queued>>
    BY DEF Webhooks!ListAll, Webhooks!List
  <1>2. PICK p : p = pass[h]
    OBVIOUS
  <1>3. WebhooksPass(p) /\ p # Webhooks!Idle
    BY <1>1, <1>2, WebhooksIdle DEF WebhooksInv
  <1>4. PICK e, a, d, u :
            /\ a \subseteq Webhooks!Scope /\ u \subseteq Webhooks!Scope
            /\ pass' = [pass EXCEPT ![h] = [pass[h] EXCEPT !.pc = "apply", !.existing = e,
                                                           !.add = a, !.delete = d, !.update = u]]
    <2>1. PICK e \in Webhooks!Listed(Webhooks!Scope) :
            LET wanted == {n \in Webhooks!Scope : pass[h].wanted[n] # Webhooks!NoPolicy}
                present == {n \in Webhooks!Scope : e[n] # "nowhere"} IN
            pass' = [pass EXCEPT ![h] = [@ EXCEPT !.pc = "apply", !.existing = e,
                      !.add = wanted \ present, !.delete = present \ wanted,
                      !.update = wanted \cap present]]
      BY <1>2 DEF Webhooks!ListAll, Webhooks!List
    <2> DEFINE wanted == {n \in Webhooks!Scope : pass[h].wanted[n] # Webhooks!NoPolicy}
               present == {n \in Webhooks!Scope : e[n] # "nowhere"}
    <2>2. wanted \subseteq Webhooks!Scope
      OBVIOUS
    <2>3. pass' = [pass EXCEPT ![h] = [pass[h] EXCEPT !.pc = "apply", !.existing = e,
                      !.add = wanted \ present, !.delete = present \ wanted,
                      !.update = wanted \cap present]]
      BY <2>1
    <2> HIDE DEF wanted, present
    <2> QED BY <2>2, <2>3
  <1> DEFINE p1 == [p EXCEPT !.pc = "apply"]
             p2 == [p1 EXCEPT !.existing = e]
             p3 == [p2 EXCEPT !.add = a]
             p4 == [p3 EXCEPT !.delete = d]
             p5 == [p4 EXCEPT !.update = u]
  <1>5. pass' = [pass EXCEPT ![h] = p5]
    BY <1>2, <1>4
  <1>6. p1 = [pc |-> "apply", wanted |-> p.wanted, existing |-> p.existing,
              add |-> p.add, delete |-> p.delete, update |-> p.update]
    BY <1>3 DEF WebhooksPass
  <1> HIDE DEF p1
  <1>7. p2 = [pc |-> "apply", wanted |-> p.wanted, existing |-> e,
              add |-> p.add, delete |-> p.delete, update |-> p.update]
    BY <1>6
  <1> HIDE DEF p2
  <1>8. p3 = [pc |-> "apply", wanted |-> p.wanted, existing |-> e,
              add |-> a, delete |-> p.delete, update |-> p.update]
    BY <1>7
  <1> HIDE DEF p3
  <1>9. p4 = [pc |-> "apply", wanted |-> p.wanted, existing |-> e,
              add |-> a, delete |-> d, update |-> p.update]
    BY <1>8
  <1> HIDE DEF p4
  <1>10. p5 = [pc |-> "apply", wanted |-> p.wanted, existing |-> e,
               add |-> a, delete |-> d, update |-> u]
    BY <1>9
  <1> HIDE DEF p5
  <1>11. WebhooksPass(p5)
    <2>1. \A n \in Webhooks!Scope : p.wanted[n].ports \in SUBSET WebhooksPorts
      BY <1>1, <1>2, <1>3 DEF WebhooksPass
    <2>2. p5.wanted = p.wanted /\ p5.pc = "apply" /\ p5.add = a /\ p5.update = u
      BY <1>10
    <2> QED BY <1>4, <1>10, <2>1, <2>2 DEF WebhooksPass
  <1> QED BY <1>1, <1>5, <1>11, WebhooksQuiet

\* Every webhook's port is its Service's, or the handler fails.
LEMMA WebhooksReduced ==
    ASSUME NEW x, WebhooksCluster(x), ~Webhooks!Bad(x), NEW f \in Webhooks!Reduced(x)
    PROVE  \A n \in Webhooks!Scope : f[n].ports \in SUBSET WebhooksPorts
  <1> SUFFICES ASSUME NEW n \in Webhooks!Scope PROVE f[n].ports \in SUBSET WebhooksPorts
    OBVIOUS
  <1> DEFINE asked == {r \in Webhooks!Relevant(x, n[1]) : r.service = n[2]}
  <1>1. n[1] = "c"
    BY DEF Webhooks!Scope
  <1>2. Webhooks!MergedPorts(asked) \subseteq WebhooksPorts
    <2> SUFFICES ASSUME NEW r \in Webhooks!Relevant(x, "c") PROVE r.port \in WebhooksPorts
      BY <1>1 DEF Webhooks!MergedPorts
    <2>1. r.port \in x.ports[r.service][r.at]
      BY DEF Webhooks!Bad
    <2>2. r \in x.webhooks["c"]
      BY DEF Webhooks!Relevant
    <2>3. r.service \in {"s"} /\ r.at \in {"m", "n"}
      BY <2>2 DEF WebhooksCluster
    <2> QED BY <2>1, <2>3 DEF WebhooksCluster, WebhooksPorts
  <1>3. f[n] = Webhooks!NoPolicy
        \/ f[n] \in [at : {r.at : r \in asked}, ports : {Webhooks!MergedPorts(asked)}]
    BY DEF Webhooks!Reduced
  <1> HIDE DEF asked
  <1>4. f[n].ports \in {Webhooks!MergedPorts(asked), {}}
    BY <1>3 DEF Webhooks!NoPolicy, Webhooks!None
  <1> QED BY <1>2, <1>4

LEMMA WebhooksHandleAll ==
    ASSUME WebhooksInv, NEW h \in {"resources", "policies"}, Webhooks!HandleAll(h)
    PROVE  WebhooksInv'
  <1>1. queued' \subseteq queued /\ UNCHANGED <<ingress, ingressCache, service, serviceCache>>
    BY DEF Webhooks!HandleAll
  <1>2. CASE Webhooks!Bad(serviceCache)
    BY <1>1, <1>2 DEF Webhooks!HandleAll, WebhooksInv, WebhooksPass, WebhooksCluster
  <1>3. CASE ~Webhooks!Bad(serviceCache)
    <2>1. PICK f \in Webhooks!Reduced(serviceCache) :
             pass' = [pass EXCEPT ![h] = [pc |-> "list", wanted |-> f, existing |-> Webhooks!Nothing,
                                          add |-> {}, delete |-> {}, update |-> {}]]
      BY <1>3 DEF Webhooks!HandleAll
    <2>2. \A n \in Webhooks!Scope : f[n].ports \in SUBSET WebhooksPorts
      BY <1>3, WebhooksReduced DEF WebhooksInv
    <2>3. WebhooksPass([pc |-> "list", wanted |-> f, existing |-> Webhooks!Nothing,
                        add |-> {}, delete |-> {}, update |-> {}])
      BY <2>2 DEF WebhooksPass
    <2> QED BY <1>1, <2>1, <2>3, WebhooksQuiet
  <1> QED BY <1>2, <1>3

LEMMA WebhooksEnd ==
    ASSUME WebhooksInv, NEW h \in {"resources", "policies"}, Webhooks!End(h)
    PROVE  WebhooksInv'
  BY WebhooksIdle, WebhooksQuiet DEF Webhooks!End

LEMMA WebhooksChanged ==
    ASSUME WebhooksCluster(service), Webhooks!Change
    PROVE  WebhooksCluster(service')
  <1>1. ASSUME NEW rs, rs \in {{}, {Ref("m", 443)}, {Ref("m", 443), Ref("m", 9443)},
                               {Ref("n", 443)}, {Ref("m", 1)}},
               service' = [service EXCEPT !.webhooks["c"] = rs]
        PROVE  WebhooksCluster(service')
    <2> DEFINE w == [service.webhooks EXCEPT !["c"] = rs]
    <2>1. rs \in SUBSET [service : {"s"}, at : {"m", "n"}, port : Nat]
      BY <1>1 DEF Ref
    <2>2. w \in [{"c"} -> SUBSET [service : {"s"}, at : {"m", "n"}, port : Nat]]
      BY <2>1 DEF WebhooksCluster
    <2>3. service' = [service EXCEPT !.webhooks = w]
      BY <1>1
    <2> HIDE DEF w
    <2> QED BY <2>2, <2>3 DEF WebhooksCluster
  <1>2. ASSUME NEW s \in {"s"}, NEW q \in {"m", "n"}, NEW ps \in SUBSET {443, 9443},
               service' = [service EXCEPT !.ports[s][q] = ps]
        PROVE  WebhooksCluster(service')
    <2> DEFINE ports == [service.ports EXCEPT ![s][q] = ps]
    <2>1. service.ports \in [{"s"} -> [{"m", "n"} -> SUBSET {443, 9443}]]
      BY DEF WebhooksCluster
    <2>2. ports \in [{"s"} -> [{"m", "n"} -> SUBSET {443, 9443}]]
      BY ONLY <2>1, ps \in SUBSET {443, 9443}
    <2>3. service' = [service EXCEPT !.ports = ports]
      BY <1>2
    <2> HIDE DEF ports
    <2> QED BY <2>2, <2>3 DEF WebhooksCluster
  <1>3. ASSUME NEW b \in SUBSET ({"s"} \X {"m", "n"}), service' = [service EXCEPT !.blocked = b]
        PROVE  WebhooksCluster(service')
    BY <1>3 DEF WebhooksCluster
  <1>4. \/ \E c \in {"c"}, rs \in {{}, {Ref("m", 443)}, {Ref("m", 443), Ref("m", 9443)},
                                   {Ref("n", 443)}, {Ref("m", 1)}} :
              service' = [service EXCEPT !.webhooks[c] = rs]
        \/ \E s \in {"s"}, q \in {"m", "n"}, ps \in SUBSET {443, 9443} :
              service' = [service EXCEPT !.ports[s][q] = ps]
        \/ \E b \in SUBSET ({"s"} \X {"m", "n"}) : service' = [service EXCEPT !.blocked = b]
    BY DEF Webhooks!Change
  <1>5. CASE \E c \in {"c"}, rs \in {{}, {Ref("m", 443)}, {Ref("m", 443), Ref("m", 9443)},
                                     {Ref("n", 443)}, {Ref("m", 1)}} :
                service' = [service EXCEPT !.webhooks[c] = rs]
    <2>1. PICK c \in {"c"}, rs \in {{}, {Ref("m", 443)}, {Ref("m", 443), Ref("m", 9443)},
                                     {Ref("n", 443)}, {Ref("m", 1)}} :
                service' = [service EXCEPT !.webhooks[c] = rs]
      BY <1>5
    <2>2. service' = [service EXCEPT !.webhooks["c"] = rs]
      BY <2>1
    <2> QED BY <1>1, <2>1, <2>2
  <1> QED BY <1>2, <1>3, <1>4, <1>5

LEMMA WebhooksAround == WebhooksInv /\ (Webhooks!Change \/ Webhooks!Sync) => WebhooksInv'
  <1>1. ASSUME WebhooksInv, Webhooks!Change PROVE WebhooksInv'
    <2>1. WebhooksCluster(service')
      BY <1>1, WebhooksChanged DEF WebhooksInv
    <2> QED BY <1>1, <2>1 DEF Webhooks!Change, WebhooksInv, WebhooksPass, WebhooksCluster
  <1>2. ASSUME WebhooksInv, Webhooks!Sync PROVE WebhooksInv'
    <2>1. UNCHANGED <<ingress, pass, service>>
      BY <1>2 DEF Webhooks!Sync, Webhooks!SyncCluster, Webhooks!SyncPolicies
    <2>2. /\ queued' \subseteq {"resources", "policies"}
          /\ ingressCache' \in {ingress, ingressCache} /\ serviceCache' \in {service, serviceCache}
      BY <1>2 DEF Webhooks!Sync, Webhooks!SyncCluster, Webhooks!SyncPolicies, WebhooksInv
    <2> QED BY <1>2, <2>1, <2>2 DEF WebhooksInv, WebhooksPass, WebhooksCluster
  <1> QED BY <1>1, <1>2

LEMMA WebhooksInit == Webhooks!Init => WebhooksInv
  <1> SUFFICES ASSUME Webhooks!Init PROVE WebhooksInv
    OBVIOUS
  <1>1. ingress \in [WebhooksNames -> [WebhooksPlaces -> SUBSET WebhooksPorts]] /\ ingressCache = ingress
    BY DEF Webhooks!Init, Webhooks!SetInit, Webhooks!None, WebhooksNames, WebhooksPlaces
  <1>2. /\ queued \subseteq {"resources", "policies"}
        /\ pass = [h \in {"resources", "policies"} |-> pass[h]]
        /\ \A h \in {"resources", "policies"} : WebhooksPass(pass[h])
    BY WebhooksIdle DEF Webhooks!Init, Webhooks!SetInit, Webhooks!Controllers
  <1>3. WebhooksCluster(service) /\ serviceCache = service
    BY DEF Webhooks!Init, WebhooksCluster
  <1> QED BY <1>1, <1>2, <1>3 DEF WebhooksInv

LEMMA WebhooksStep == WebhooksInv /\ [Webhooks!Next]_(Webhooks!vars) => WebhooksInv'
  <1>1. ASSUME WebhooksInv, UNCHANGED Webhooks!vars PROVE WebhooksInv'
    BY <1>1 DEF Webhooks!vars, Webhooks!setVars, WebhooksInv, WebhooksPass, WebhooksCluster
  <1>2. ASSUME WebhooksInv, NEW h \in {"resources", "policies"}, Webhooks!Handle(h) PROVE WebhooksInv'
    BY <1>2, WebhooksHandleAll, WebhooksList, WebhooksEnd, WebhooksAdd, WebhooksDelete, WebhooksUpdate DEF Webhooks!Handle
  <1> QED BY <1>1, <1>2, WebhooksAround DEF Webhooks!Next, Webhooks!Controllers

LEMMA WebhooksTyped == WebhooksInv => Webhooks!TypeOK
  <1> SUFFICES ASSUME WebhooksInv PROVE Webhooks!TypeOK
    OBVIOUS
  <1>1. service.blocked \subseteq {"s"} \X {"m", "n"}
    BY DEF WebhooksInv, WebhooksCluster
  <1>2. \A h \in {"resources", "policies"} : pass[h].pc \in {"idle", "list", "apply"}
    BY WebhooksIdle DEF WebhooksInv, WebhooksPass
  <1>3. \A n \in Webhooks!Scope, q \in WebhooksPlaces : ingress[n][q] \subseteq WebhooksPorts
    BY DEF WebhooksInv, Webhooks!Scope, WebhooksNames
  <1> QED BY <1>1, <1>2, <1>3 DEF Webhooks!TypeOK, Webhooks!Controllers, WebhooksInv, WebhooksPlaces, WebhooksPorts

-----------------------------------------------------------------------------
(* The types of MCTraffic, whatever the part.                              *)

LEMMA IstioPart ==
    /\ Init /\ part = "istio" => Istio!Init
    /\ [Next]_vars /\ part = "istio" => [Istio!Next]_(Istio!vars)
  <1>1. Init /\ part = "istio" => Istio!Init
    BY DEF Init
  <1>2. [Next]_vars /\ part = "istio" => [Istio!Next]_(Istio!vars)
    BY DEF Next, vars, InExternal, InIstio, InLinkerd, InMetrics, InWebhooks, HandlerOfPolicies,
           clientVars, policyVars, Istio!vars
  <1> QED BY <1>1, <1>2

LEMMA LinkerdPart ==
    /\ Init /\ part = "linkerd" => Linkerd!Init
    /\ [Next]_vars /\ part = "linkerd" => [Linkerd!Next]_(Linkerd!vars)
  <1>1. Init /\ part = "linkerd" => Linkerd!Init
    BY DEF Init
  <1>2. [Next]_vars /\ part = "linkerd" => [Linkerd!Next]_(Linkerd!vars)
    BY DEF Next, vars, InExternal, InIstio, InLinkerd, InMetrics, InWebhooks, HandlerOfPolicies,
           clientVars, resourceVars, Linkerd!vars
  <1> QED BY <1>1, <1>2

LEMMA MetricsPart ==
    /\ Init /\ part = "metrics" => Metrics!Init
    /\ [Next]_vars /\ part = "metrics" => [Metrics!Next]_(Metrics!vars)
  <1>1. Init /\ part = "metrics" => Metrics!Init
    BY DEF Init
  <1>2. [Next]_vars /\ part = "metrics" => [Metrics!Next]_(Metrics!vars)
    BY DEF Next, vars, InExternal, InIstio, InLinkerd, InMetrics, InWebhooks, HandlerOfPolicies,
           policyVars, serviceVars, Metrics!vars, Metrics!setVars
  <1> QED BY <1>1, <1>2

LEMMA WebhooksPart ==
    /\ Init /\ part = "webhooks" => Webhooks!Init
    /\ [Next]_vars /\ part = "webhooks" => [Webhooks!Next]_(Webhooks!vars)
  <1>1. Init /\ part = "webhooks" => Webhooks!Init
    BY DEF Init
  <1>2. [Next]_vars /\ part = "webhooks" => [Webhooks!Next]_(Webhooks!vars)
    BY DEF Next, vars, InExternal, InIstio, InLinkerd, InMetrics, InWebhooks, HandlerOfPolicies,
           policyVars, serviceVars, Webhooks!vars, Webhooks!setVars
  <1> QED BY <1>1, <1>2

\* Whatever the part, its variables keep their types; a policy of Istio is for an
\* account that a pod had, and one of metrics or webhooks admits only ports that a
\* well-formed mark or a port of a webhook's Service asked for, never a bad mark.
THEOREM TypeCorrect == Spec => []TypeOK
  <1>1. /\ part = "external" /\ External!TypeOK => TypeOK
        /\ part = "istio" /\ Istio!TypeOK => TypeOK
        /\ part = "linkerd" /\ Linkerd!TypeOK => TypeOK
        /\ part = "metrics" /\ Metrics!TypeOK => TypeOK
        /\ part = "webhooks" /\ Webhooks!TypeOK => TypeOK
    BY DEF TypeOK
  <1>2. Init => \/ part = "external" \/ part = "istio" \/ part = "linkerd"
                \/ part = "metrics" \/ part = "webhooks"
    BY DEF Init
  <1>3. [Next]_vars => /\ part = "external" => (part = "external")'
                       /\ part = "istio" => (part = "istio")'
                       /\ part = "linkerd" => (part = "linkerd")'
                       /\ part = "metrics" => (part = "metrics")'
                       /\ part = "webhooks" => (part = "webhooks")'
    BY SamePart
  <1>4. Init /\ part = "external" /\ [][Next]_vars => []TypeOK
    <2> DEFINE Inv == TypeInv /\ AgreeInv
    <2>1. Init /\ part = "external" => Inv
      BY ExternalPart, InitInv
    <2>2. Inv /\ [Next]_vars /\ part = "external" => Inv'
      BY ExternalPart, NextInv
    <2>3. Inv => External!TypeOK
      BY DEF TypeInv
    <2> HIDE DEF Inv
    <2> QED BY <1>1, <1>3, <2>1, <2>2, <2>3, PTL
  <1>5. Init /\ part = "istio" /\ [][Next]_vars => []TypeOK
    BY <1>1, <1>3, IstioPart, IstioInit, IstioStep, IstioTyped, PTL
  <1>6. Init /\ part = "linkerd" /\ [][Next]_vars => []TypeOK
    BY <1>1, <1>3, LinkerdPart, LinkerdInit, LinkerdStep, LinkerdTyped, PTL
  <1>7. Init /\ part = "metrics" /\ [][Next]_vars => []TypeOK
    BY <1>1, <1>3, MetricsPart, MetricsInit, MetricsStep, MetricsTyped, PTL
  <1>8. Init /\ part = "webhooks" /\ [][Next]_vars => []TypeOK
    BY <1>1, <1>3, WebhooksPart, WebhooksInit, WebhooksStep, WebhooksTyped, PTL
  <1> QED BY <1>2, <1>4, <1>5, <1>6, <1>7, <1>8, PTL DEF Spec

=============================================================================

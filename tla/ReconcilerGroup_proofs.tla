------------------------ MODULE ReconcilerGroup_proofs ------------------------
(***************************************************************************)
(* Theorems about ReconcilerGroup, for any number of sub-reconcilers,      *)
(* specs, faults and crashes.  In the order of the text:                   *)
(*                                                                         *)
(*   - TypeOK and LegacyHandedOver, with any number of goroutines on the   *)
(*     object and names used twice or not;                                 *)
(*   - NoOrphanedEffects, when the controller alone reconciles the object  *)
(*     and no name is used twice: without either it is false;              *)
(*   - CleanedOnlyWhenDeleting, with any number of goroutines;             *)
(*   - AtRestMatchesDeclaration: the operator does not come to rest with   *)
(*     anything applied that is not what is declared; and HoldsEffects,    *)
(*     every step of the protocol is one HeldEffects allows.  Both under   *)
(*     the assumptions of NoOrphanedEffects.                               *)
(***************************************************************************)
EXTENDS ReconcilerGroup, TLAPS

\* The initial records are well typed.
LEMMA NothingType == Gone \in Objects /\ Idle \in Passes
  <1>1. Gone \in Objects
    BY DEF Gone, Objects, NoSpec
  <1>2. 1 \in Subs
    BY ConstantsAssumption DEF Subs
  <1> QED
    BY <1>1, <1>2 DEF Idle, Passes, PCs

\* Changing a field of an object within its type keeps it an object.
LEMMA ObjectUpdate ==
    ASSUME NEW o \in Objects, NEW n \in Nat, NEW m \in Nat, NEW b \in BOOLEAN
    PROVE  /\ [o EXCEPT !.rv = n] \in Objects
           /\ [o EXCEPT !.fin = b] \in Objects
           /\ [o EXCEPT !.legacy = b] \in Objects
           /\ [o EXCEPT !.upToDate = b] \in Objects
           /\ [o EXCEPT !.upToDate = b, !.obsGen = n] \in Objects
           /\ [o EXCEPT !.spec = m, !.gen = n] \in Objects
           /\ [o EXCEPT !.deleting = b, !.gen = n] \in Objects
  BY DEF Objects

\* Moving a pass on keeps it well typed.
LEMMA PassUpdate ==
    ASSUME NEW p \in Passes, NEW c \in PCs, NEW o \in Objects
    PROVE  /\ [p EXCEPT !.pc = c] \in Passes
           /\ [p EXCEPT !.pc = c, !.first = o] \in Passes
           /\ [p EXCEPT !.pc = c, !.obj = o] \in Passes
           /\ [p EXCEPT !.obj = o, !.pc = c] \in Passes
           /\ [p EXCEPT !.pc = c, !.seen = o] \in Passes
           /\ [p EXCEPT !.pc = c, !.requeue = TRUE] \in Passes
           /\ [p EXCEPT !.err = TRUE] \in Passes
           /\ [p EXCEPT !.requeue = TRUE] \in Passes
  BY DEF Passes

\* The fields of a pass and of an object have their types.
LEMMA Fields ==
    ASSUME NEW p \in Passes
    PROVE  /\ p.first \in Objects /\ p.obj \in Objects /\ p.seen \in Objects
           /\ p.i \in Subs /\ p.pc \in PCs
           /\ p.err \in BOOLEAN /\ p.requeue \in BOOLEAN
  BY DEF Passes

\* A write of the API server keeps the object and the clock well typed
\* (Store, the server's side of every Update and Patch).
LEMMA StoreType ==
    ASSUME TypeOK, NEW o \in Objects, Store(o)
    PROVE  api' \in Objects /\ clock' \in Nat
  <1>1. api \in Objects /\ clock \in Nat /\ clock + 1 \in Nat
    BY DEF TypeOK
  <1> QED
    BY <1>1, NothingType, ObjectUpdate DEF Store

\* The status patch changes nothing but the status.
LEMMA MarkedFields ==
    ASSUME api \in Objects, NEW first \in Objects
    PROVE  /\ Marked(first) \in Objects
           /\ Marked(first).exists = api.exists
           /\ Marked(first).spec = api.spec
           /\ Marked(first).deleting = api.deleting
           /\ Marked(first).fin = api.fin
           /\ Marked(first).legacy = api.legacy
  <1> DEFINE up == api.upToDate \/ ~first.upToDate
             gen == IF first.obsGen = first.gen THEN api.obsGen ELSE first.gen
  <1>1. up \in BOOLEAN /\ gen \in Nat
    BY DEF Objects
  <1>2. Marked(first) = [api EXCEPT !.upToDate = up, !.obsGen = gen]
    BY DEF Marked
  <1> QED BY <1>1, <1>2 DEF Objects

\* The loop over the sub-reconcilers stays within the group (runGroup's range).
LEMMA NextSubType ==
    ASSUME NEW p \in Passes
    PROVE  NextSub(p) \in Passes
  <1>1. CASE p.i < N
    <2>1. p.i + 1 \in Subs
      BY <1>1, ConstantsAssumption DEF Passes, Subs
    <2>2. NextSub(p) = [p EXCEPT !.pc = "read", !.i = p.i + 1, !.seen = Gone]
      BY <1>1 DEF NextSub
    <2> QED BY <2>1, <2>2, NothingType DEF Passes, PCs
  <1>2. CASE ~(p.i < N)
    <2>1. 1 \in Subs
      BY ConstantsAssumption DEF Subs
    <2>2. NextSub(p) = [p EXCEPT !.pc = "finish", !.i = 1, !.seen = Gone]
      BY <1>2 DEF NextSub
    <2> QED BY <2>1, <2>2, NothingType DEF Passes, PCs
  <1> QED BY <1>1, <1>2

\* An Update by the group keeps everything it touches well typed.
LEMMA GroupUpdateType ==
    ASSUME TypeOK, NEW w \in Workers, NEW o \in Objects, NEW next \in PCs,
           GroupUpdate(w, o, next)
    PROVE  /\ api' \in Objects /\ clock' \in Nat
           /\ pass' \in [Workers -> Passes]
           /\ queued' = queued /\ faults' = faults
  <1>1. pass[w] \in Passes /\ "status" \in PCs
    BY DEF TypeOK, PCs
  <1>2. CASE Raced(o)
    BY <1>1, <1>2, PassUpdate DEF GroupUpdate, Goto, TypeOK
  <1>3. CASE ~Raced(o)
    <2>1. api' \in Objects /\ clock' \in Nat
      BY <1>3, StoreType DEF GroupUpdate
    <2>2. [pass[w] EXCEPT !.pc = next, !.obj = api'] \in Passes
      BY <1>1, <2>1, PassUpdate
    <2> QED BY <1>3, <2>1, <2>2 DEF GroupUpdate, Goto, TypeOK
  <1> QED BY <1>2, <1>3

\* Every step of a pass of w keeps the state well typed.
LEMMA StepType ==
    ASSUME TypeOK, NEW w \in Workers, Step(w) \/ Fails(w)
    PROVE  TypeOK'
  <1>0. /\ pass[w] \in Passes
        /\ "demote" \in PCs /\ "get" \in PCs /\ "ensure" \in PCs
        /\ "legacy" \in PCs /\ "read" \in PCs /\ "act" \in PCs
        /\ "finish" \in PCs /\ "status" \in PCs
        /\ api \in Objects /\ cache \in Objects
    BY DEF TypeOK, PCs
  <1>1. CASE Begin(w)
    <2>1. /\ [Idle EXCEPT !.pc = "demote", !.first = cache] \in Passes
          /\ [Idle EXCEPT !.pc = "get", !.first = cache] \in Passes
      BY <1>0, NothingType, PassUpdate
    <2>2. pass' \in [Workers -> Passes] /\ queued' \in [Workers -> BOOLEAN]
      BY <1>1, <2>1, NothingType DEF Begin, TypeOK
    <2> QED BY <1>1, <2>2 DEF Begin, TypeOK
  <1>2. ASSUME NEW retry \in BOOLEAN, End(w, retry)
        PROVE  pass' \in [Workers -> Passes] /\ queued' \in [Workers -> BOOLEAN]
    BY <1>2, NothingType DEF End, TypeOK
  <1>3. CASE Demote(w)
    <2>1. [api EXCEPT !.upToDate = FALSE] \in Objects
      BY <1>0, ObjectUpdate
    <2>2. api' \in Objects /\ clock' \in Nat
      BY <1>3, <2>1, StoreType DEF Demote, TypeOK
    <2> QED BY <1>2, <1>3, <2>2 DEF Demote, TypeOK
  <1>4. CASE GetObject(w)
    <2>1. [pass[w] EXCEPT !.obj = cache,
                          !.pc = IF cache.exists THEN "ensure"
                                                 ELSE "status"] \in Passes
      BY <1>0, PassUpdate
    <2> QED BY <1>4, <2>1 DEF GetObject, Goto, TypeOK
  <1>5. CASE EnsureFinalizer(w)
    <2>1. [pass[w].obj EXCEPT !.fin = TRUE] \in Objects
      BY <1>0, Fields, ObjectUpdate
    <2>2. CASE GroupUpdate(w, [pass[w].obj EXCEPT !.fin = TRUE], "legacy")
      BY <1>0, <1>5, <2>1, <2>2, GroupUpdateType DEF EnsureFinalizer, TypeOK
    <2>3. CASE Goto(w, [pass[w] EXCEPT !.pc = "legacy"])
                 /\ UNCHANGED <<api, clock>>
      BY <1>0, <1>5, <2>3, PassUpdate DEF EnsureFinalizer, Goto, TypeOK
    <2>4. CASE End(w, TRUE) /\ UNCHANGED <<api, clock, faults>>
      BY <1>2, <1>5, <2>4 DEF EnsureFinalizer, TypeOK
    <2> QED BY <1>5, <2>2, <2>3, <2>4 DEF EnsureFinalizer
  <1>6. CASE RemoveLegacyFinalizers(w)
    <2>1. [pass[w].obj EXCEPT !.legacy = FALSE] \in Objects
      BY <1>0, Fields, ObjectUpdate
    <2>2. CASE pass[w].obj.legacy
      BY <1>0, <1>6, <2>1, <2>2, GroupUpdateType
      DEF RemoveLegacyFinalizers, TypeOK
    <2>3. CASE ~pass[w].obj.legacy
      BY <1>0, <1>6, <2>3, PassUpdate DEF RemoveLegacyFinalizers, Goto, TypeOK
    <2> QED BY <2>2, <2>3
  <1>7. CASE SubRead(w)
    BY <1>0, <1>7, PassUpdate DEF SubRead, Goto, TypeOK
  <1>8. CASE SubAct(w)
    <2>1. NextSub(pass[w]) \in Passes
      BY <1>0, NextSubType
    <2>2. CASE SubSucceeds(w)
      <3>1. Wanted(pass[w].seen) \in Nat /\ pass[w].i \in Subs
        BY <1>0, Fields DEF Wanted, NoSpec, Objects
      <3>2. effect' \in [Subs -> Nat]
        BY <2>2, <3>1 DEF SubSucceeds, TypeOK
      <3> QED
        BY <1>8, <2>1, <2>2, <3>2 DEF SubAct, SubSucceeds, TypeOK
    <2>3. CASE SubFails(w)
      <3>1. /\ [NextSub(pass[w]) EXCEPT !.err = TRUE] \in Passes
            /\ [NextSub(pass[w]) EXCEPT !.requeue = TRUE] \in Passes
        BY <1>0, <2>1, PassUpdate
      <3>2. faults' \in 0 .. MaxFaults
        BY <2>3, ConstantsAssumption DEF SubFails, Fault, TypeOK
      <3>3. pass' \in [Workers -> Passes]
        BY <2>3, <3>1 DEF SubFails, TypeOK
      <3> QED
        BY <1>8, <2>3, <3>2, <3>3 DEF SubAct, SubFails, TypeOK
    <2> QED BY <1>8, <2>2, <2>3 DEF SubAct
  <1>9. CASE FinishGroup(w)
    <2>1. [pass[w].obj EXCEPT !.fin = FALSE] \in Objects
      BY <1>0, Fields, ObjectUpdate
    <2>2. CASE GroupUpdate(w, [pass[w].obj EXCEPT !.fin = FALSE], "status")
      BY <1>0, <1>9, <2>1, <2>2, GroupUpdateType DEF FinishGroup, TypeOK
    <2>3. CASE Goto(w, [pass[w] EXCEPT !.pc = "status"])
                 /\ UNCHANGED <<api, clock>>
      BY <1>0, <1>9, <2>3, PassUpdate DEF FinishGroup, Goto, TypeOK
    <2>4. CASE End(w, TRUE) /\ UNCHANGED <<api, clock, faults>>
      BY <1>2, <1>9, <2>4 DEF FinishGroup, TypeOK
    <2> QED BY <1>9, <2>2, <2>3, <2>4 DEF FinishGroup
  <1>10. CASE MarkUpToDate(w)
    <2>1. Marked(pass[w].first) \in Objects
      BY <1>0, Fields, MarkedFields
    <2>2. pass[w].requeue \in BOOLEAN
      BY <1>0, Fields
    <2>3. api' \in Objects /\ clock' \in Nat
      <3>1. CASE Store(Marked(pass[w].first))
        BY <2>1, <3>1, StoreType
      <3>2. CASE UNCHANGED <<api, clock>>
        BY <3>2 DEF TypeOK
      <3> QED BY <1>10, <3>1, <3>2 DEF MarkUpToDate
    <2>4. pass' \in [Workers -> Passes] /\ queued' \in [Workers -> BOOLEAN]
      BY <1>2, <1>10, <2>2 DEF MarkUpToDate
    <2>5. UNCHANGED <<cache, specs, effect, faults>>
      BY <1>10 DEF MarkUpToDate
    <2> QED
      BY <2>3, <2>4, <2>5 DEF TypeOK
  <1>11. CASE Fails(w)
    <2>1. faults' \in 0 .. MaxFaults
      BY <1>11, ConstantsAssumption DEF Fails, FailPass, Fault, TypeOK
    <2> QED BY <1>2, <1>11, <2>1 DEF Fails, FailPass, TypeOK
  <1> QED
    BY <1>1, <1>3, <1>4, <1>5, <1>6, <1>7, <1>8, <1>9, <1>10, <1>11 DEF Step

\* Every step of the environment keeps the state well typed.
LEMMA EnvironmentType ==
    ASSUME TypeOK, Environment
    PROVE  TypeOK'
  <1>0. /\ api \in Objects /\ cache \in Objects
        /\ api.gen + 1 \in Nat /\ clock + 1 \in Nat
    BY DEF TypeOK, Objects
  <1>1. ASSUME NewSpec
        PROVE  specs' \in Nat /\ specs' \in 0 .. MaxSpecs
    BY <1>1, ConstantsAssumption DEF NewSpec, TypeOK
  <1>2. CASE Create
    <2>1. Created(specs') \in Objects
      BY <1>0, <1>1, <1>2 DEF Create, Created, Objects, Gone, NoSpec
    <2> QED BY <1>0, <1>1, <1>2, <2>1 DEF Create, TypeOK
  <1>3. CASE Edit
    <2>1. [api EXCEPT !.spec = specs', !.gen = api.gen + 1] \in Objects
      BY <1>0, <1>1, <1>3, ObjectUpdate DEF Edit
    <2>2. api' \in Objects /\ clock' \in Nat
      BY <1>3, <2>1, StoreType DEF Edit
    <2> QED BY <1>1, <1>3, <2>2 DEF Edit, TypeOK
  <1>4. CASE Delete
    <2>1. [api EXCEPT !.deleting = TRUE, !.gen = api.gen + 1] \in Objects
      BY <1>0, ObjectUpdate
    <2>2. api' \in Objects /\ clock' \in Nat
      BY <1>4, <2>1, StoreType DEF Delete
    <2> QED BY <1>4, <2>2 DEF Delete, TypeOK
  <1>5. CASE CacheSync
    BY <1>5 DEF CacheSync, TypeOK
  <1>6. CASE Crash
    <2>1. faults' \in 0 .. MaxFaults
      BY <1>6, ConstantsAssumption DEF Crash, Fault, TypeOK
    <2> QED BY <1>0, <1>6, <2>1, NothingType DEF Crash, TypeOK
  <1>7. CASE \E w \in Workers \ {Controller} : PodEvent(w)
    BY <1>7 DEF PodEvent, TypeOK
  <1> QED
    BY <1>2, <1>3, <1>4, <1>5, <1>6, <1>7 DEF Environment

\* The state is always well typed.
THEOREM TypeCorrect == Spec => []TypeOK
  <1>1. Init => TypeOK
    <2> SUFFICES ASSUME Init
                 PROVE  TypeOK
      OBVIOUS
    <2>1. api \in Objects
      <3>1. CASE api = Gone
        BY <3>1, NothingType
      <3>2. CASE api # Gone
        <4>1. PICK d, f, l, u \in BOOLEAN :
                api = [exists |-> TRUE, rv |-> 1, gen |-> 1, spec |-> 1,
                       deleting |-> d, fin |-> f, legacy |-> l,
                       upToDate |-> u, obsGen |-> IF u THEN 1 ELSE 0]
          BY <3>2 DEF Init
        <4> QED BY <4>1 DEF Objects
      <3> QED BY <3>1, <3>2
    <2>2. /\ effect \in [Subs -> Nat] /\ specs \in 0 .. MaxSpecs
          /\ clock \in Nat /\ faults \in 0 .. MaxFaults
      BY ConstantsAssumption DEF Init, NoSpec
    <2>3. queued \in [Workers -> BOOLEAN] /\ pass \in [Workers -> Passes]
      BY <2>1, NothingType DEF Init, Objects
    <2>4. cache \in Objects
      BY <2>1 DEF Init
    <2> QED BY <2>1, <2>2, <2>3, <2>4 DEF TypeOK
  <1>2. TypeOK /\ [Next]_vars => TypeOK'
    <2> SUFFICES ASSUME TypeOK, [Next]_vars
                 PROVE  TypeOK'
      OBVIOUS
    <2>1. CASE UNCHANGED vars
      BY <2>1 DEF vars, TypeOK
    <2> QED
      BY <2>1, StepType, EnvironmentType DEF Next
  <1> QED
    BY <1>1, <1>2, PTL DEF Spec

\* The same, with what it takes for granted, for other modules to cite.
LEMMA TypesForConstants ==
    ASSUME ConstantsAssumption
    PROVE  Spec => []TypeOK
  BY TypeCorrect, PTL

-----------------------------------------------------------------------------
(***************************************************************************)
(* LegacyHandedOver for any number of workers, sub-reconcilers, specs and  *)
(* faults, and whether or not names are reused.                            *)
(*                                                                         *)
(* It rests on optimistic concurrency: a copy with the resourceVersion of  *)
(* the stored object is the stored object, so that an Update built from a  *)
(* copy that has the finalizer never takes it from the object.             *)
(***************************************************************************)

\* The copy o is no newer than the clock c, and is the object a if it has the
\* resourceVersion of a.
Version(o, a, c) ==
    o.exists => o.rv =< c /\ (a.exists /\ o.rv = a.rv => o = a)

\* Past ensureFinalizer the group's copy has the finalizer; past
\* removeLegacyFinalizers it has no other.
Held(p) ==
    /\ p.pc \in {"ensure", "legacy", "read", "act", "finish"} => p.obj.exists
    /\ p.pc \in {"legacy", "read", "act", "finish"} => p.obj.fin
    /\ p.pc \in {"read", "act", "finish"} => ~p.obj.legacy

HandoverInv ==
    /\ TypeOK
    /\ Version(api, api, clock)
    /\ Version(cache, api, clock)
    /\ \A w \in Workers : Version(pass[w].obj, api, clock) /\ Held(pass[w])
    /\ api.legacy => api.exists

\* The fields of an object of which one was changed.
LEMMA ObjectFields ==
    ASSUME NEW o \in Objects, NEW b \in BOOLEAN
    PROVE  /\ LET x == [o EXCEPT !.upToDate = b]
              IN  x.legacy = o.legacy /\ x.exists = o.exists
           /\ LET x == [o EXCEPT !.fin = b]
              IN  /\ x.rv = o.rv /\ x.exists = o.exists
                  /\ x.fin = b /\ x.legacy = o.legacy
           /\ LET x == [o EXCEPT !.legacy = b]
              IN  /\ x.rv = o.rv /\ x.exists = o.exists
                  /\ x.fin = o.fin /\ x.legacy = b
  BY DEF Objects

\* A pass that is not in the group holds nothing.
LEMMA IdleInv ==
    ASSUME NEW a, NEW c
    PROVE  Version(Idle.obj, a, c) /\ Held(Idle)
  BY DEF Idle, Gone, Version, Held

\* Store gives a changed object a resourceVersion no copy has.
LEMMA StoreVersion ==
    ASSUME TypeOK, NEW x \in Objects, Store(x), Version(api, api, clock),
           NEW o \in Objects, Version(o, api, clock)
    PROVE  Version(o, api', clock') /\ Version(api', api', clock')
  <1>1. /\ api \in Objects /\ clock \in Nat
        /\ o.rv \in Nat /\ o.exists \in BOOLEAN
        /\ api.rv \in Nat /\ api.exists \in BOOLEAN
    BY DEF TypeOK, Objects
  <1>2. CASE api' = Gone /\ clock' = clock
    <2>1. ~Gone.exists
      BY DEF Gone
    <2> QED BY <1>1, <1>2, <2>1 DEF Version
  <1>3. CASE api' = api /\ clock' = clock
    BY <1>3
  <1>4. CASE api' = [x EXCEPT !.rv = clock + 1] /\ clock' = clock + 1
    <2>1. api'.rv = clock + 1
      BY <1>4 DEF Objects
    <2> QED BY <1>1, <1>4, <2>1 DEF Version
  <1> QED BY <1>2, <1>3, <1>4 DEF Store

\* What Store keeps of the object it is given.
LEMMA StoreFields ==
    ASSUME TypeOK, NEW x \in Objects, Store(x)
    PROVE  /\ x.fin \/ x.legacy => /\ api'.exists = x.exists
                                   /\ api'.fin = x.fin
                                   /\ api'.legacy = x.legacy
           /\ api'.legacy => x.legacy
  <1>1. CASE x.deleting /\ ~x.fin /\ ~x.legacy
    BY <1>1 DEF Store, Gone
  <1>2. CASE ~(x.deleting /\ ~x.fin /\ ~x.legacy) /\ x = api
    BY <1>2 DEF Store
  <1>3. CASE ~(x.deleting /\ ~x.fin /\ ~x.legacy) /\ x # api
    <2>1. api' = [x EXCEPT !.rv = clock + 1]
      BY <1>3 DEF Store
    <2> QED BY <2>1 DEF Objects
  <1> QED BY <1>1, <1>2, <1>3

\* The step of the pass of w to q that writes at most x, a version of an object
\* that exists, keeps the invariant.
LEMMA PassStep ==
    ASSUME HandoverInv, TypeOK', NEW w \in Workers, NEW q \in Passes,
           pass' = [pass EXCEPT ![w] = q], cache' = cache,
           Held(q), Version(q.obj, api', clock'),
           \/ UNCHANGED <<api, clock>>
           \/ \E x \in Objects : Store(x) /\ (x.legacy => x.exists)
    PROVE  HandoverInv'
  <1>1. \A o \in Objects : Version(o, api, clock) => Version(o, api', clock')
    <2>1. CASE UNCHANGED <<api, clock>>
      BY <2>1
    <2>2. CASE \E x \in Objects : Store(x)
      BY <2>2, StoreVersion DEF HandoverInv
    <2> QED BY <2>1, <2>2
  <1>2. Version(api', api', clock') /\ (api'.legacy => api'.exists)
    <2>1. CASE UNCHANGED <<api, clock>>
      BY <2>1 DEF HandoverInv
    <2>2. CASE \E x \in Objects : Store(x) /\ (x.legacy => x.exists)
      <3>1. PICK x \in Objects : Store(x) /\ (x.legacy => x.exists)
        BY <2>2
      <3>2. Version(api', api', clock')
        BY <3>1, StoreVersion DEF HandoverInv, TypeOK
      <3>3. api'.legacy => api'.exists
        <4>1. x.legacy \in BOOLEAN /\ x.fin \in BOOLEAN
          BY DEF Objects
        <4>2. CASE x.fin \/ x.legacy
          BY <3>1, <4>1, <4>2, StoreFields DEF HandoverInv
        <4>3. CASE ~x.fin /\ ~x.legacy
          BY <3>1, <4>3, StoreFields DEF HandoverInv
        <4> QED BY <4>2, <4>3
      <3> QED BY <3>2, <3>3
    <2> QED BY <2>1, <2>2
  <1>3. ASSUME NEW v \in Workers
        PROVE  Version(pass'[v].obj, api', clock') /\ Held(pass'[v])
    <2>1. CASE v = w
      BY <2>1 DEF HandoverInv, TypeOK
    <2>2. CASE v # w
      <3>1. pass'[v] = pass[v] /\ pass[v].obj \in Objects
        BY <2>2, Fields DEF HandoverInv, TypeOK
      <3> QED BY <1>1, <3>1 DEF HandoverInv
    <2> QED BY <2>1, <2>2
  <1>4. Version(cache, api', clock')
    BY <1>1 DEF HandoverInv, TypeOK
  <1> QED BY <1>2, <1>3, <1>4 DEF HandoverInv

\* A legacy finalizer goes from an object that has the group's own.
HandsOver == api.legacy /\ ~api'.legacy => api'.fin

\* The group's Update with o, made from its copy: the invariant stays, and the
\* legacy finalizer goes only in favour of the group's.
LEMMA GroupUpdateStep ==
    ASSUME HandoverInv, TypeOK', NEW w \in Workers, NEW o \in Objects,
           NEW next \in {"legacy", "read", "status"},
           GroupUpdate(w, o, next), cache' = cache,
           o.rv = pass[w].obj.rv, o.exists, pass[w].obj.exists,
           next # "status" => o.fin,
           next = "read" => ~o.legacy,
           pass[w].obj.legacy => o.legacy \/ o.fin
    PROVE  HandoverInv' /\ HandsOver
  <1>1. /\ pass[w] \in Passes /\ pass[w].obj \in Objects
        /\ o.fin \in BOOLEAN /\ o.legacy \in BOOLEAN
        /\ api \in Objects /\ api' \in Objects
    BY Fields DEF HandoverInv, TypeOK, Objects
  <1>2. CASE Raced(o)
    <2> DEFINE q == [pass[w] EXCEPT !.pc = "status", !.requeue = TRUE]
    <2>1. pass' = [pass EXCEPT ![w] = q] /\ UNCHANGED <<api, clock>>
      BY <1>2 DEF GroupUpdate, Goto
    <2>2. q \in Passes
      BY <1>1, PassUpdate DEF PCs
    <2>3. q.pc = "status" /\ q.obj = pass[w].obj
      BY <1>1 DEF Passes
    <2>4. Held(q)
      BY <2>3 DEF Held
    <2>5. Version(q.obj, api', clock')
      BY <2>1, <2>3 DEF HandoverInv
    <2>6. HandoverInv'
      BY <2>1, <2>2, <2>4, <2>5, PassStep
    <2> QED BY <2>1, <2>6 DEF HandsOver
  <1>3. CASE ~Raced(o)
    <2> DEFINE q == [pass[w] EXCEPT !.pc = next, !.obj = api']
    <2>1. pass' = [pass EXCEPT ![w] = q] /\ Store(o)
      BY <1>3 DEF GroupUpdate, Goto
    <2>2. q \in Passes
      BY <1>1, PassUpdate DEF PCs
    <2>3. q.pc = next /\ q.obj = api'
      BY <1>1 DEF Passes
    <2>4. Version(q.obj, api', clock')
      BY <2>1, <2>3, <1>1, StoreVersion DEF HandoverInv
    <2>5. o.fin \/ o.legacy => /\ api'.exists
                              /\ api'.fin = o.fin
                              /\ api'.legacy = o.legacy
      BY <2>1, StoreFields DEF HandoverInv
    <2>6. Held(q)
      BY <2>3, <2>5 DEF Held
    <2>7. HandoverInv'
      BY <2>1, <2>2, <2>4, <2>6, PassStep
    <2>8. api = pass[w].obj
      BY <1>3 DEF Raced, HandoverInv, Version
    <2> QED BY <2>5, <2>7, <2>8 DEF HandsOver
  <1> QED BY <1>2, <1>3

\* A step that leaves the stored object alone, to a pass with the same copy or
\* none.
LEMMA LocalStep ==
    ASSUME HandoverInv, TypeOK', NEW w \in Workers, NEW q \in Passes,
           pass' = [pass EXCEPT ![w] = q], UNCHANGED <<api, clock, cache>>,
           q.obj \in {pass[w].obj, cache, Gone}, Held(q)
    PROVE  HandoverInv' /\ HandsOver
  <1>1. Version(q.obj, api', clock')
    BY DEF HandoverInv, Version, Gone
  <1>2. HandoverInv'
    BY <1>1, PassStep
  <1> QED BY <1>2 DEF HandsOver

\* Likewise when the pass ends, and the stored object changes at most in fields
\* other than its finalizers.
LEMMA EndStep ==
    ASSUME HandoverInv, TypeOK', NEW w \in Workers, NEW retry, End(w, retry),
           cache' = cache,
           \/ UNCHANGED <<api, clock>>
           \/ \E x \in Objects : /\ Store(x)
                                 /\ x.legacy = api.legacy
                                 /\ x.exists = api.exists
    PROVE  HandoverInv' /\ HandsOver
  <1>1. pass' = [pass EXCEPT ![w] = Idle] /\ Idle \in Passes
    BY NothingType DEF End
  <1>2. Held(Idle) /\ Version(Idle.obj, api', clock')
    BY IdleInv
  <1>3. \/ UNCHANGED <<api, clock>>
        \/ \E x \in Objects : Store(x) /\ (x.legacy => x.exists)
    BY DEF HandoverInv
  <1>4. HandoverInv'
    BY <1>1, <1>2, <1>3, PassStep
  <1>5. HandsOver
    <2>1. CASE UNCHANGED <<api, clock>>
      BY <2>1 DEF HandsOver
    <2>2. CASE \E x \in Objects : Store(x) /\ x.legacy = api.legacy
      BY <2>2, StoreFields DEF HandsOver, HandoverInv, Objects
    <2> QED BY <2>1, <2>2
  <1> QED BY <1>4, <1>5

\* Every step of a pass of w.
LEMMA StepHandsOver ==
    ASSUME HandoverInv, TypeOK', NEW w \in Workers, Step(w) \/ Fails(w)
    PROVE  HandoverInv' /\ HandsOver
  <1> DEFINE p == pass[w]
  <1>0. /\ p \in Passes /\ p.obj \in Objects /\ p.first \in Objects
        /\ api \in Objects /\ cache \in Objects
        /\ Held(p) /\ Version(p.obj, api, clock)
    BY Fields DEF HandoverInv, TypeOK
  <1>00. pass'[w] \in Passes
    BY DEF TypeOK
  <1>1. CASE Begin(w)
    <2> DEFINE q == pass'[w]
    <2>1. /\ pass' = [pass EXCEPT ![w] = q] /\ UNCHANGED <<api, clock, cache>>
      BY <1>1 DEF Begin, HandoverInv, TypeOK
    <2>2. q.obj = Gone /\ q.pc \in {"idle", "demote", "get"}
      <3>1. \/ q = Idle
            \/ q = [Idle EXCEPT !.pc = "demote", !.first = cache]
            \/ q = [Idle EXCEPT !.pc = "get", !.first = cache]
        BY <1>1 DEF Begin, HandoverInv, TypeOK
      <3>2. /\ Idle \in Passes /\ Idle.obj = Gone /\ Idle.pc = "idle"
        BY NothingType DEF Idle
      <3> QED BY <3>1, <3>2 DEF Passes
    <2>3. Held(q)
      BY <2>2 DEF Held
    <2> QED BY <1>00, <2>1, <2>2, <2>3, LocalStep
  <1>2. CASE Demote(w)
    <2>1. CASE api.exists
      <3> DEFINE x == [api EXCEPT !.upToDate = FALSE]
      <3>1. x \in Objects /\ x.legacy = api.legacy /\ x.exists = api.exists
        BY <1>0, ObjectUpdate, ObjectFields
      <3>2. Store(x) /\ End(w, FALSE) /\ cache' = cache
        BY <1>2, <2>1 DEF Demote
      <3> QED BY <3>1, <3>2, EndStep
    <2>2. CASE ~api.exists
      BY <1>2, <2>2, EndStep DEF Demote
    <2> QED BY <2>1, <2>2
  <1>3. CASE GetObject(w)
    <2> DEFINE next == IF cache.exists THEN "ensure" ELSE "status"
               q == [p EXCEPT !.obj = cache, !.pc = next]
    <2>1. pass' = [pass EXCEPT ![w] = q] /\ UNCHANGED <<api, clock, cache>>
      BY <1>3 DEF GetObject, Goto
    <2>2. q \in Passes
      BY <1>0, PassUpdate DEF PCs
    <2>3. q.obj = cache /\ q.pc = next
      BY <1>0 DEF Passes
    <2>4. Held(q)
      BY <2>3 DEF Held
    <2> QED BY <2>1, <2>2, <2>3, <2>4, LocalStep
  <1>4. CASE EnsureFinalizer(w)
    <2>0. p.pc = "ensure" /\ p.obj.exists
      BY <1>0, <1>4 DEF EnsureFinalizer, Held
    <2>1. CASE p.obj.fin /\ Goto(w, [p EXCEPT !.pc = "legacy"])
                 /\ UNCHANGED <<api, clock>>
      <3> DEFINE q == [p EXCEPT !.pc = "legacy"]
      <3>1. pass' = [pass EXCEPT ![w] = q] /\ UNCHANGED <<api, clock, cache>>
        BY <1>4, <2>1 DEF EnsureFinalizer, Goto
      <3>2. q \in Passes
        BY <1>0, PassUpdate DEF PCs
      <3>3. q.obj = p.obj /\ q.pc = "legacy"
        BY <1>0 DEF Passes
      <3>4. Held(q)
        BY <2>0, <2>1, <3>3 DEF Held
      <3> QED BY <3>1, <3>2, <3>3, <3>4, LocalStep
    <2>2. CASE GroupUpdate(w, [p.obj EXCEPT !.fin = TRUE], "legacy")
      <3> DEFINE o == [p.obj EXCEPT !.fin = TRUE]
      <3>1. /\ o \in Objects /\ o.rv = p.obj.rv /\ o.exists = p.obj.exists
            /\ o.fin
        BY <1>0, ObjectUpdate, ObjectFields
      <3>2. cache' = cache /\ GroupUpdate(w, o, "legacy")
        BY <1>4, <2>2 DEF EnsureFinalizer
      <3> QED BY <2>0, <3>1, <3>2, GroupUpdateStep
    <2>3. CASE End(w, TRUE) /\ UNCHANGED <<api, clock>>
      BY <1>4, <2>3, EndStep DEF EnsureFinalizer
    <2> QED BY <1>4, <2>1, <2>2, <2>3 DEF EnsureFinalizer
  <1>5. CASE RemoveLegacyFinalizers(w)
    <2>0. p.pc = "legacy" /\ p.obj.exists /\ p.obj.fin
      BY <1>0, <1>5 DEF RemoveLegacyFinalizers, Held
    <2>1. CASE p.obj.legacy
      <3> DEFINE o == [p.obj EXCEPT !.legacy = FALSE]
      <3>1. /\ o \in Objects /\ o.rv = p.obj.rv /\ o.exists = p.obj.exists
            /\ o.fin = p.obj.fin /\ ~o.legacy
        BY <1>0, ObjectUpdate, ObjectFields
      <3>2. cache' = cache /\ GroupUpdate(w, o, "read")
        BY <1>5, <2>1 DEF RemoveLegacyFinalizers
      <3> QED BY <2>0, <3>1, <3>2, GroupUpdateStep
    <2>2. CASE ~p.obj.legacy
      <3> DEFINE q == [p EXCEPT !.pc = "read"]
      <3>1. pass' = [pass EXCEPT ![w] = q] /\ UNCHANGED <<api, clock, cache>>
        BY <1>5, <2>2 DEF RemoveLegacyFinalizers, Goto
      <3>2. q \in Passes
        BY <1>0, PassUpdate DEF PCs
      <3>3. q.obj = p.obj /\ q.pc = "read"
        BY <1>0 DEF Passes
      <3>4. Held(q)
        BY <2>0, <2>2, <3>3 DEF Held
      <3> QED BY <3>1, <3>2, <3>3, <3>4, LocalStep
    <2> QED BY <2>1, <2>2
  <1>6. CASE SubRead(w)
    <2> DEFINE q == [p EXCEPT !.pc = "act", !.seen = cache]
    <2>1. pass' = [pass EXCEPT ![w] = q] /\ UNCHANGED <<api, clock, cache>>
      BY <1>6 DEF SubRead, Goto
    <2>2. q \in Passes
      BY <1>0, PassUpdate DEF PCs
    <2>3. q.obj = p.obj /\ q.pc = "act"
      BY <1>0 DEF Passes
    <2>4. Held(q)
      BY <1>0, <1>6, <2>3 DEF Held, SubRead
    <2> QED BY <2>1, <2>2, <2>3, <2>4, LocalStep
  <1>7. CASE SubAct(w)
    <2> DEFINE q == pass'[w]
    <2>1. pass' = [pass EXCEPT ![w] = q] /\ UNCHANGED <<api, clock, cache>>
      BY <1>7 DEF SubAct, SubSucceeds, SubFails, HandoverInv, TypeOK
    <2>2. q.obj = p.obj /\ q.pc \in {"read", "finish"}
      <3>1. \/ q = NextSub(p)
            \/ q = [NextSub(p) EXCEPT !.err = TRUE]
            \/ q = [NextSub(p) EXCEPT !.requeue = TRUE]
        BY <1>7 DEF SubAct, SubSucceeds, SubFails, HandoverInv, TypeOK
      <3>2. /\ NextSub(p) \in Passes /\ NextSub(p).obj = p.obj
            /\ NextSub(p).pc \in {"read", "finish"}
        BY <1>0, NextSubType DEF NextSub, Passes
      <3> QED BY <3>1, <3>2 DEF Passes
    <2>3. Held(q)
      BY <1>0, <1>7, <2>2 DEF Held, SubAct
    <2> QED BY <1>00, <2>1, <2>2, <2>3, LocalStep
  <1>8. CASE FinishGroup(w)
    <2>0. p.pc = "finish" /\ p.obj.exists /\ p.obj.fin /\ ~p.obj.legacy
      BY <1>0, <1>8 DEF FinishGroup, Held
    <2>1. CASE GroupUpdate(w, [p.obj EXCEPT !.fin = FALSE], "status")
      <3> DEFINE o == [p.obj EXCEPT !.fin = FALSE]
      <3>1. o \in Objects /\ o.rv = p.obj.rv /\ o.exists = p.obj.exists
        BY <1>0, ObjectUpdate, ObjectFields
      <3>2. cache' = cache /\ GroupUpdate(w, o, "status")
        BY <1>8, <2>1 DEF FinishGroup
      <3> QED BY <2>0, <3>1, <3>2, GroupUpdateStep
    <2>2. CASE Goto(w, [p EXCEPT !.pc = "status"]) /\ UNCHANGED <<api, clock>>
      <3> DEFINE q == [p EXCEPT !.pc = "status"]
      <3>1. pass' = [pass EXCEPT ![w] = q] /\ UNCHANGED <<api, clock, cache>>
        BY <1>8, <2>2 DEF FinishGroup, Goto
      <3>2. q \in Passes
        BY <1>0, PassUpdate DEF PCs
      <3>3. q.obj = p.obj /\ q.pc = "status"
        BY <1>0 DEF Passes
      <3>4. Held(q)
        BY <3>3 DEF Held
      <3> QED BY <3>1, <3>2, <3>3, <3>4, LocalStep
    <2>3. CASE End(w, TRUE) /\ UNCHANGED <<api, clock>>
      BY <1>8, <2>3, EndStep DEF FinishGroup
    <2> QED BY <1>8, <2>1, <2>2, <2>3 DEF FinishGroup
  <1>9. CASE MarkUpToDate(w)
    <2> DEFINE x == Marked(p.first)
    <2>1. x \in Objects /\ x.legacy = api.legacy /\ x.exists = api.exists
      BY <1>0, MarkedFields
    <2>2. /\ cache' = cache
          /\ \E retry : End(w, retry)
          /\ UNCHANGED <<api, clock>> \/ Store(x)
      BY <1>9 DEF MarkUpToDate
    <2> QED BY <2>1, <2>2, EndStep
  <1>10. CASE Fails(w)
    BY <1>10, EndStep DEF Fails, FailPass
  <1> QED
    BY <1>1, <1>2, <1>3, <1>4, <1>5, <1>6, <1>7, <1>8, <1>9, <1>10 DEF Step

\* A write by a user that leaves the finalizers alone.
LEMMA UserStoreStep ==
    ASSUME HandoverInv, TypeOK', UNCHANGED <<cache, pass>>,
           NEW x \in Objects, Store(x),
           x.legacy = api.legacy, x.exists = api.exists
    PROVE  HandoverInv' /\ HandsOver
  <1>0. /\ TypeOK /\ api \in Objects /\ cache \in Objects
        /\ \A w \in Workers : pass[w].obj \in Objects
        /\ x.legacy \in BOOLEAN
    BY Fields DEF HandoverInv, TypeOK, Objects
  <1>1. \A o \in Objects : Version(o, api, clock) => Version(o, api', clock')
    BY <1>0, StoreVersion DEF HandoverInv
  <1>2. Version(api', api', clock')
    BY <1>0, StoreVersion DEF HandoverInv
  <1>3. x.legacy => api'.exists = x.exists /\ api'.legacy = x.legacy
    BY <1>0, StoreFields
  <1>4. api'.legacy => x.legacy
    BY <1>0, StoreFields
  <1>5. HandoverInv'
    BY <1>0, <1>1, <1>2, <1>3, <1>4 DEF HandoverInv
  <1> QED BY <1>3, <1>5 DEF HandsOver

\* Every step of the environment: users, informer, pod events and crashes.
LEMMA EnvironmentHandsOver ==
    ASSUME HandoverInv, TypeOK', Environment
    PROVE  HandoverInv' /\ HandsOver
  <1>0. /\ api \in Objects /\ cache \in Objects /\ clock \in Nat
        /\ \A w \in Workers : pass[w].obj \in Objects
    BY Fields DEF HandoverInv, TypeOK
  <1>1. CASE Create
    <2>1. /\ api'.exists /\ api'.rv = clock + 1 /\ ~api'.legacy
          /\ clock' = clock + 1
      BY <1>1 DEF Create, Created, Gone
    <2>2. ~api.legacy
      BY <1>1 DEF Create, HandoverInv
    <2>3. \A o \in Objects : Version(o, api, clock) => Version(o, api', clock')
      <3> SUFFICES ASSUME NEW o \in Objects, Version(o, api, clock)
                   PROVE  Version(o, api', clock')
        OBVIOUS
      <3>1. o.rv \in Nat
        BY DEF Objects
      <3> QED BY <1>0, <2>1, <3>1 DEF Version
    <2>4. Version(api', api', clock')
      BY <1>0, <2>1 DEF Version
    <2>5. UNCHANGED <<cache, pass>>
      BY <1>1 DEF Create
    <2>6. HandoverInv'
      BY <1>0, <2>1, <2>3, <2>4, <2>5 DEF HandoverInv
    <2> QED BY <2>2, <2>6 DEF HandsOver
  <1>2. CASE Edit
    <2> DEFINE x == [api EXCEPT !.spec = specs', !.gen = api.gen + 1]
    <2>1. Store(x) /\ UNCHANGED <<cache, pass>>
      BY <1>2 DEF Edit
    <2>2. specs' \in Nat /\ api.gen + 1 \in Nat
      BY <1>0, ConstantsAssumption DEF TypeOK, Objects
    <2>3. x \in Objects /\ x.legacy = api.legacy /\ x.exists = api.exists
      BY <1>0, <2>2 DEF Objects
    <2> QED BY <2>1, <2>3, UserStoreStep
  <1>3. CASE Delete
    <2> DEFINE x == [api EXCEPT !.deleting = TRUE, !.gen = api.gen + 1]
    <2>1. Store(x) /\ UNCHANGED <<cache, pass>>
      BY <1>3 DEF Delete
    <2>2. api.gen + 1 \in Nat
      BY <1>0 DEF Objects
    <2>3. x \in Objects /\ x.legacy = api.legacy /\ x.exists = api.exists
      BY <1>0, <2>2 DEF Objects
    <2> QED BY <2>1, <2>3, UserStoreStep
  <1>4. CASE CacheSync
    BY <1>4 DEF CacheSync, HandoverInv, HandsOver
  <1>5. CASE Crash
    <2>1. /\ UNCHANGED <<api, clock>> /\ cache' = api
          /\ \A w \in Workers : pass'[w] = Idle
      BY <1>5 DEF Crash
    <2>2. \A w \in Workers : /\ Version(pass'[w].obj, api', clock')
                             /\ Held(pass'[w])
      BY <2>1, IdleInv
    <2> QED BY <2>1, <2>2 DEF HandoverInv, HandsOver
  <1>6. CASE \E w \in Workers \ {Controller} : PodEvent(w)
    BY <1>6 DEF PodEvent, HandoverInv, HandsOver
  <1> QED
    BY <1>1, <1>2, <1>3, <1>4, <1>5, <1>6 DEF Environment

\* The operator starts without copies that could mislead it.
LEMMA InitHandover == Init /\ TypeOK => HandoverInv
  <1> SUFFICES ASSUME Init, TypeOK
               PROVE  HandoverInv
    OBVIOUS
  <1>1. /\ cache = api /\ clock = 1
        /\ \A w \in Workers : pass[w] = Idle
    BY DEF Init
  <1>2. (api.legacy => api.exists) /\ (api.exists => api.rv = 1)
    <2>1. CASE api = Gone
      BY <2>1 DEF Gone
    <2>2. CASE api # Gone
      <3>1. PICK d, f, l, u \in BOOLEAN :
              api = [exists |-> TRUE, rv |-> 1, gen |-> 1, spec |-> 1,
                     deleting |-> d, fin |-> f, legacy |-> l,
                     upToDate |-> u, obsGen |-> IF u THEN 1 ELSE 0]
        BY <2>2 DEF Init
      <3> QED BY <3>1
    <2> QED BY <2>1, <2>2
  <1>3. Version(api, api, clock)
    BY <1>1, <1>2 DEF Version
  <1> QED BY <1>1, <1>2, <1>3, IdleInv DEF HandoverInv

\* Every step keeps the invariant and hands the finalizer over.
LEMMA HandoverKept ==
    HandoverInv /\ TypeOK' /\ [Next]_vars => HandoverInv' /\ HandsOver
  <1> SUFFICES ASSUME HandoverInv, TypeOK', [Next]_vars
               PROVE  HandoverInv' /\ HandsOver
    OBVIOUS
  <1>1. CASE UNCHANGED vars
    <2>1. UNCHANGED <<api, cache, clock, pass>>
      BY <1>1 DEF vars
    <2> QED BY <2>1 DEF HandoverInv, HandsOver
  <1> QED
    BY <1>1, StepHandsOver, EnvironmentHandsOver DEF Next

\* Of the operator's upgrade: in no step does an object lose a legacy finalizer
\* without carrying the group's own, whatever copies the passes act on.
THEOREM LegacyHandover == Spec => LegacyHandedOver
  <1>1. HandsOver => (api.legacy /\ ~api'.legacy => api'.fin)
    BY DEF HandsOver
  <1> QED
    BY <1>1, InitHandover, HandoverKept, TypeCorrect, PTL
    DEF Spec, LegacyHandedOver

-----------------------------------------------------------------------------
(* Orphaned effects.  A pass cleans up what it is going to release.  The   *)
(* copies of the group and of its sub-reconcilers may differ, but all are  *)
(* later than the event that made the group's copy one of a deleted        *)
(* object, and a deletion is final.                                        *)

\* The object is gone or on its way.
Ended(o) == ~o.exists \/ o.deleting

\* The stored object: what does not exist has no finalizer, and what is being
\* deleted exists by a finalizer.
ApiInv(a) ==
    /\ a.fin \/ a.legacy => a.exists
    /\ a.exists /\ a.deleting => a.fin \/ a.legacy

\* The informer's copy c, the stored object being a: a deletion is final, and an
\* object goes from under its finalizer only when the informer knows it is being
\* deleted.
CacheInv(a, c) ==
    c.exists => /\ c.deleting => Ended(a)
                /\ c.fin => a.fin \/ (~a.exists /\ c.deleting)

\* The same of the group's copy o, once the group has it.
GroupInv(o, a, c) ==
    /\ o.deleting => Ended(a) /\ Ended(c)
    /\ o.fin => a.fin \/ (~a.exists /\ Ended(c))

\* A sub-reconciler applies its copy only while the finalizer is there, cleans up
\* if the group's copy is being deleted, and finds no object only if there is none.
SeenInv(p, a) ==
    /\ Ended(p.seen) \/ a.fin
    /\ p.obj.deleting => Ended(p.seen)
    /\ p.seen.exists \/ ~a.exists

\* What the pass has cleaned up is clean.
CleanInv(p, a, e) ==
    p.obj.deleting /\ ~p.err /\ ~p.requeue /\ a.exists
      => \A j \in Subs : p.pc = "finish" \/ j < p.i => e[j] = NoSpec

PassInv(p, a, c, e) ==
    /\ p.pc # "idle" => c.exists \/ ~a.exists
    /\ p.pc \in {"get", "ensure", "legacy"} => p.i = 1
    /\ p.pc \in {"ensure", "legacy", "read", "act", "finish"}
         => GroupInv(p.obj, a, c)
    /\ p.pc = "act" => SeenInv(p, a)
    /\ p.pc \in {"read", "act", "finish"} => CleanInv(p, a, e)

OrphanInv ==
    /\ HandoverInv
    /\ NoOrphanedEffects
    /\ ApiInv(api)
    /\ CacheInv(api, cache)
    /\ PassInv(pass[Controller], api, cache, effect)
    /\ specs = 0 => /\ ~api.exists /\ ~cache.exists
                    /\ pass[Controller].pc = "idle"

-----------------------------------------------------------------------------
(* Changes of the stored object that keep what the copies rest on.         *)

\* From a to b no finalizer is lost, none exists anew, and a deletion stays one.
Keeps(a, b) ==
    /\ a.fin => b.fin
    /\ a.fin \/ a.legacy => b.fin \/ b.legacy
    /\ b.exists => a.exists
    /\ a.deleting => Ended(b)
    /\ ApiInv(b)

\* What holds of the copies holds after a change that Keeps.
LEMMA KeepsInv ==
    ASSUME NEW a \in Objects, NEW b \in Objects, NEW c \in Objects, NEW e,
           NEW p \in Passes, Keeps(a, b)
    PROVE  /\ CacheInv(a, c) => CacheInv(b, c)
           /\ PassInv(p, a, c, e) => PassInv(p, b, c, e)
  <1>0. p.obj \in Objects /\ p.seen \in Objects
    BY Fields
  <1>1. Ended(a) => Ended(b)
    BY DEF Keeps, Ended
  <1>2. CacheInv(a, c) => CacheInv(b, c)
    BY <1>1 DEF Keeps, CacheInv
  <1>3. GroupInv(p.obj, a, c) => GroupInv(p.obj, b, c)
    BY <1>1 DEF Keeps, GroupInv
  <1>4. SeenInv(p, a) => SeenInv(p, b)
    BY DEF Keeps, SeenInv
  <1>5. CleanInv(p, a, e) => CleanInv(p, b, e)
    BY DEF Keeps, CleanInv
  <1>6. (c.exists \/ ~a.exists) => (c.exists \/ ~b.exists)
    BY DEF Keeps
  <1> QED BY <1>2, <1>3, <1>4, <1>5, <1>6 DEF PassInv

\* What Store keeps of an object that has a finalizer.
LEMMA StoreDeleting ==
    ASSUME NEW x \in Objects, Store(x), x.fin \/ x.legacy
    PROVE  api'.deleting = x.deleting
  <1>1. CASE x = api
    BY <1>1 DEF Store
  <1>2. CASE x # api
    <2>1. api' = [x EXCEPT !.rv = clock + 1]
      BY <1>2 DEF Store
    <2> QED BY <2>1 DEF Objects
  <1> QED BY <1>1, <1>2

\* A write that takes no finalizer and undoes no deletion Keeps.
LEMMA StoreKeeps ==
    ASSUME TypeOK, ApiInv(api), NEW x \in Objects, Store(x),
           x.exists, api.exists,
           api.fin => x.fin, api.legacy => x.fin \/ x.legacy,
           api.deleting => x.deleting
    PROVE  Keeps(api, api')
  <1>0. /\ api \in Objects
        /\ x.fin \in BOOLEAN /\ x.legacy \in BOOLEAN /\ x.deleting \in BOOLEAN
    BY DEF TypeOK, Objects
  <1>1. CASE x.deleting /\ ~x.fin /\ ~x.legacy
    <2>1. /\ ~api'.exists /\ ~api'.fin /\ ~api'.legacy
      BY <1>1 DEF Store, Gone
    <2> QED BY <1>1, <2>1 DEF Keeps, ApiInv, Ended
  <1>2. CASE ~(x.deleting /\ ~x.fin /\ ~x.legacy) /\ x = api
    <2>1. api' = api
      BY <1>2 DEF Store
    <2> QED BY <2>1 DEF Keeps, Ended
  <1>3. CASE ~(x.deleting /\ ~x.fin /\ ~x.legacy) /\ x # api
    <2>1. api' = [x EXCEPT !.rv = clock + 1]
      BY <1>3 DEF Store
    <2>2. /\ api'.exists = x.exists /\ api'.deleting = x.deleting
          /\ api'.fin = x.fin /\ api'.legacy = x.legacy
      BY <2>1 DEF Objects
    <2> QED BY <1>0, <1>3, <2>2 DEF Keeps, ApiInv, Ended
  <1> QED BY <1>1, <1>2, <1>3

\* A write of fields other than the finalizers and the deletion Keeps.
LEMMA FieldsKeep ==
    ASSUME TypeOK, ApiInv(api), NEW x \in Objects, Store(x), api.exists,
           x.exists = api.exists, x.fin = api.fin, x.legacy = api.legacy,
           api.deleting => x.deleting
    PROVE  Keeps(api, api')
  BY StoreKeeps DEF Objects, TypeOK

\* No change Keeps.
LEMMA SameKeeps ==
    ASSUME OrphanInv, api' = api
    PROVE  Keeps(api, api')
  BY DEF OrphanInv, Keeps, Ended

\* A pass that is over holds nothing to keep.
LEMMA IdlePass ==
    ASSUME NEW a, NEW c, NEW e
    PROVE  PassInv(Idle, a, c, e)
  BY DEF Idle, PassInv

-----------------------------------------------------------------------------
(* The controller's pass.                                                  *)

\* A step of the pass to q that changes no effect.
LEMMA MoveStep ==
    ASSUME OrphanInv, HandoverInv', NEW q,
           pass'[Controller] = q, UNCHANGED <<cache, specs, effect>>,
           Keeps(api, api'), PassInv(q, api', cache, effect),
           pass[Controller].pc # "idle" \/ cache.exists \/ q.pc = "idle"
    PROVE  OrphanInv'
  <1>0. /\ api \in Objects /\ api' \in Objects /\ cache \in Objects
        /\ pass[Controller] \in Passes
    BY ConstantsAssumption DEF OrphanInv, HandoverInv, TypeOK
  <1>1. CacheInv(api', cache')
    BY <1>0, KeepsInv DEF OrphanInv
  <1>2. NoOrphanedEffects'
    BY DEF OrphanInv, NoOrphanedEffects, Keeps
  <1>3. ApiInv(api')
    BY DEF Keeps
  <1>4. specs' = 0 => /\ ~api'.exists /\ ~cache'.exists
                      /\ pass'[Controller].pc = "idle"
    BY DEF OrphanInv, Keeps
  <1> QED BY <1>1, <1>2, <1>3, <1>4 DEF OrphanInv

\* The pass ends.
LEMMA EndMove ==
    ASSUME OrphanInv, HandoverInv', NEW retry, End(Controller, retry),
           UNCHANGED <<cache, specs, effect>>, Keeps(api, api')
    PROVE  OrphanInv'
  <1>1. pass'[Controller] = Idle
    BY ConstantsAssumption DEF End, OrphanInv, HandoverInv, TypeOK
  <1>2. Idle.pc = "idle"
    BY DEF Idle
  <1> QED BY <1>1, <1>2, IdlePass, MoveStep

\* The group gives up its run after a race, or is done with it.
LEMMA StatusMove ==
    ASSUME OrphanInv, HandoverInv', pass[Controller].pc # "idle",
           pass'[Controller].pc = "status",
           UNCHANGED <<cache, specs, effect>>, api' = api
    PROVE  OrphanInv'
  <1>1. PassInv(pass'[Controller], api', cache, effect)
    BY DEF OrphanInv, PassInv
  <1> QED BY <1>1, SameKeeps, MoveStep

\* An Update of the group that is not refused finds its copy stored.
LEMMA NotRaced ==
    ASSUME OrphanInv, NEW o, ~Raced(o), o.rv = pass[Controller].obj.rv,
           pass[Controller].obj.exists
    PROVE  api.exists /\ api = pass[Controller].obj
  BY ConstantsAssumption DEF Raced, OrphanInv, HandoverInv, Version

\* A step of the controller's pass that leaves what is applied alone.
LEMMA StepKeepsEffects ==
    ASSUME OrphanInv, TypeOK', HandoverInv',
           \/ Begin(Controller) \/ Demote(Controller) \/ GetObject(Controller)
           \/ EnsureFinalizer(Controller) \/ RemoveLegacyFinalizers(Controller)
           \/ SubRead(Controller) \/ MarkUpToDate(Controller)
           \/ Fails(Controller)
    PROVE  OrphanInv'
  <1> DEFINE p == pass[Controller]
             q == pass'[Controller]
  <1>0. /\ Controller \in Workers /\ p \in Passes /\ p.obj \in Objects
        /\ p.first \in Objects /\ api \in Objects /\ cache \in Objects
        /\ TypeOK /\ ApiInv(api) /\ CacheInv(api, cache) /\ Held(p)
        /\ PassInv(p, api, cache, effect)
    BY ConstantsAssumption, Fields DEF OrphanInv, HandoverInv, TypeOK
  <1>00. ASSUME NEW r, Goto(Controller, r)
         PROVE  q = r
    BY <1>0, <1>00 DEF Goto, TypeOK
  <1>1. CASE Begin(Controller)
    <2>1. UNCHANGED <<api, cache, specs, effect>>
      BY <1>1 DEF Begin
    <2>2. \/ q = Idle
          \/ q = [Idle EXCEPT !.pc = "demote", !.first = cache] /\ cache.exists
          \/ q = [Idle EXCEPT !.pc = "get", !.first = cache] /\ cache.exists
      BY <1>0, <1>1 DEF Begin, TypeOK
    <2>3. Idle \in Passes /\ Idle.i = 1 /\ Idle.pc = "idle"
      BY NothingType DEF Idle
    <2>4. /\ q.pc \in {"idle", "demote", "get"} /\ q.i = 1
          /\ q.pc # "idle" => cache.exists
      BY <2>2, <2>3 DEF Passes
    <2>5. PassInv(q, api', cache, effect)
      BY <2>4 DEF PassInv
    <2> QED BY <2>1, <2>4, <2>5, SameKeeps, MoveStep
  <1>2. CASE Demote(Controller)
    <2>1. UNCHANGED <<cache, specs, effect>> /\ \E retry : End(Controller, retry)
      BY <1>2 DEF Demote
    <2>2. CASE api.exists
      <3> DEFINE x == [api EXCEPT !.upToDate = FALSE]
      <3>1. Store(x)
        BY <1>2, <2>2 DEF Demote
      <3>2. /\ x \in Objects /\ x.exists = api.exists /\ x.fin = api.fin
            /\ x.legacy = api.legacy /\ x.deleting = api.deleting
        BY <1>0 DEF Objects
      <3>3. Keeps(api, api')
        BY <1>0, <2>2, <3>1, <3>2, FieldsKeep
      <3> QED BY <2>1, <3>3, EndMove
    <2>3. CASE ~api.exists
      <3>1. api' = api
        BY <1>2, <2>3 DEF Demote
      <3> QED BY <2>1, <3>1, SameKeeps, EndMove
    <2> QED BY <2>2, <2>3
  <1>3. CASE GetObject(Controller)
    <2> DEFINE next == IF cache.exists THEN "ensure" ELSE "status"
    <2>1. /\ UNCHANGED <<api, cache, specs, effect>> /\ p.pc = "get"
          /\ q = [p EXCEPT !.obj = cache, !.pc = next]
      BY <1>3, <1>00 DEF GetObject
    <2>2. q.obj = cache /\ q.pc = next /\ q.i = 1
      BY <1>0, <2>1 DEF Passes, PassInv
    <2>3. cache.exists => GroupInv(cache, api, cache)
      BY <1>0 DEF CacheInv, GroupInv, Ended
    <2>4. PassInv(q, api', cache, effect)
      BY <1>0, <2>1, <2>2, <2>3 DEF PassInv
    <2> QED BY <2>1, <2>4, SameKeeps, MoveStep
  <1>4. CASE EnsureFinalizer(Controller)
    <2>0. /\ p.pc = "ensure" /\ p.obj.exists /\ p.i = 1
          /\ UNCHANGED <<cache, specs, effect>>
      BY <1>0, <1>4 DEF EnsureFinalizer, Held, PassInv
    <2>1. CASE Goto(Controller, [p EXCEPT !.pc = "legacy"]) /\ api' = api
      <3>1. q.pc = "legacy" /\ q.obj = p.obj /\ q.i = p.i
        BY <1>0, <1>00, <2>1 DEF Passes
      <3>2. PassInv(q, api', cache, effect)
        BY <1>0, <2>0, <2>1, <3>1 DEF PassInv
      <3> QED BY <2>0, <2>1, <3>2, SameKeeps, MoveStep
    <2>2. CASE /\ Raced(p.obj) \/ ~Invalid(p.obj)
               /\ GroupUpdate(Controller, [p.obj EXCEPT !.fin = TRUE], "legacy")
      <3> DEFINE o == [p.obj EXCEPT !.fin = TRUE]
      <3>0. /\ o \in Objects /\ o.fin /\ o.rv = p.obj.rv /\ o.exists
            /\ o.deleting = p.obj.deleting /\ o.legacy = p.obj.legacy
        BY <1>0, <2>0 DEF Objects
      <3>1. Raced(o) <=> Raced(p.obj)
        BY <3>0 DEF Raced
      <3>2. CASE Raced(o)
        <4>1. q = [p EXCEPT !.pc = "status", !.requeue = TRUE] /\ api' = api
          BY <1>00, <2>2, <3>2 DEF GroupUpdate
        <4>2. q.pc = "status"
          BY <1>0, <4>1 DEF Passes
        <4> QED BY <2>0, <4>1, <4>2, StatusMove
      <3>3. CASE ~Raced(o)
        <4>1. /\ Store(o) /\ q = [p EXCEPT !.pc = "legacy", !.obj = api']
          BY <1>00, <2>2, <3>3 DEF GroupUpdate
        <4>2. q.pc = "legacy" /\ q.obj = api' /\ q.i = 1
          BY <1>0, <2>0, <4>1 DEF Passes
        <4>3. api.exists /\ api = p.obj
          BY <2>0, <3>0, <3>3, NotRaced
        <4>4. ~o.deleting
          BY <2>2, <3>0, <3>1, <3>3 DEF Invalid
        <4>5. Keeps(api, api')
          BY <1>0, <3>0, <4>1, <4>3, StoreKeeps
        <4>6. api'.fin /\ ~api'.deleting
          BY <1>0, <3>0, <4>1, <4>4, StoreFields, StoreDeleting
        <4>7. cache.exists \/ ~api'.exists
          BY <1>0, <2>0, <4>5 DEF PassInv, Keeps
        <4>8. PassInv(q, api', cache, effect)
          BY <4>2, <4>6, <4>7 DEF PassInv, GroupInv
        <4> QED BY <2>0, <4>5, <4>8, MoveStep
      <3> QED BY <3>2, <3>3
    <2>3. CASE End(Controller, TRUE) /\ api' = api
      BY <2>0, <2>3, SameKeeps, EndMove
    <2> QED BY <1>4, <2>1, <2>2, <2>3 DEF EnsureFinalizer
  <1>5. CASE RemoveLegacyFinalizers(Controller)
    <2>0. /\ p.pc = "legacy" /\ p.obj.exists /\ p.obj.fin /\ p.i = 1
          /\ UNCHANGED <<cache, specs, effect>> /\ GroupInv(p.obj, api, cache)
      BY <1>0, <1>5 DEF RemoveLegacyFinalizers, Held, PassInv
    <2>1. CASE p.obj.legacy
      <3> DEFINE o == [p.obj EXCEPT !.legacy = FALSE]
      <3>0. /\ o \in Objects /\ o.fin /\ o.rv = p.obj.rv /\ o.exists
            /\ o.deleting = p.obj.deleting
        BY <1>0, <2>0 DEF Objects
      <3>1. GroupUpdate(Controller, o, "read")
        BY <1>5, <2>1 DEF RemoveLegacyFinalizers
      <3>2. CASE Raced(o)
        <4>1. q = [p EXCEPT !.pc = "status", !.requeue = TRUE] /\ api' = api
          BY <1>00, <3>1, <3>2 DEF GroupUpdate
        <4>2. q.pc = "status"
          BY <1>0, <4>1 DEF Passes
        <4> QED BY <2>0, <4>1, <4>2, StatusMove
      <3>3. CASE ~Raced(o)
        <4>1. /\ Store(o) /\ q = [p EXCEPT !.pc = "read", !.obj = api']
          BY <1>00, <3>1, <3>3 DEF GroupUpdate
        <4>2. q.pc = "read" /\ q.obj = api' /\ q.i = 1
          BY <1>0, <2>0, <4>1 DEF Passes
        <4>3. api.exists /\ api = p.obj
          BY <2>0, <3>0, <3>3, NotRaced
        <4>5. Keeps(api, api')
          BY <1>0, <3>0, <4>1, <4>3, StoreKeeps
        <4>6. api'.fin /\ api'.deleting = p.obj.deleting
          BY <1>0, <3>0, <4>1, StoreFields, StoreDeleting
        <4>7. cache.exists \/ ~api'.exists
          BY <1>0, <2>0, <4>5 DEF PassInv, Keeps
        <4>8. GroupInv(api', api', cache)
          BY <2>0, <4>6 DEF GroupInv, Ended
        <4>9. CleanInv(q, api', effect)
          <5>1. \A j \in Subs : ~(j < 1)
            BY DEF Subs
          <5> QED BY <4>2, <5>1 DEF CleanInv
        <4>10. PassInv(q, api', cache, effect)
          BY <4>2, <4>7, <4>8, <4>9 DEF PassInv
        <4> QED BY <2>0, <4>5, <4>10, MoveStep
      <3> QED BY <3>2, <3>3
    <2>2. CASE ~p.obj.legacy
      <3>1. q = [p EXCEPT !.pc = "read"] /\ api' = api
        BY <1>5, <1>00, <2>2 DEF RemoveLegacyFinalizers
      <3>2. q.pc = "read" /\ q.obj = p.obj /\ q.i = 1
        BY <1>0, <2>0, <3>1 DEF Passes
      <3>3. CleanInv(q, api', effect)
        <4>1. \A j \in Subs : ~(j < 1)
          BY DEF Subs
        <4> QED BY <3>2, <4>1 DEF CleanInv
      <3>4. PassInv(q, api', cache, effect)
        BY <1>0, <2>0, <3>1, <3>2, <3>3 DEF PassInv
      <3> QED BY <2>0, <3>1, <3>4, SameKeeps, MoveStep
    <2> QED BY <2>1, <2>2
  <1>6. CASE SubRead(Controller)
    <2>0. /\ p.pc = "read" /\ p.obj.fin /\ GroupInv(p.obj, api, cache)
          /\ CleanInv(p, api, effect) /\ (cache.exists \/ ~api.exists)
          /\ UNCHANGED <<api, cache, specs, effect>>
      BY <1>0, <1>6 DEF SubRead, Held, PassInv
    <2>1. q = [p EXCEPT !.pc = "act", !.seen = cache]
      BY <1>6, <1>00 DEF SubRead
    <2>2. /\ q.pc = "act" /\ q.seen = cache /\ q.obj = p.obj /\ q.i = p.i
          /\ q.err = p.err /\ q.requeue = p.requeue
      BY <1>0, <2>1 DEF Passes
    <2>3. SeenInv(q, api)
      BY <2>0, <2>2 DEF SeenInv, GroupInv
    <2>4. CleanInv(q, api, effect)
      BY <2>0, <2>2 DEF CleanInv
    <2>5. PassInv(q, api', cache, effect)
      BY <2>0, <2>2, <2>3, <2>4 DEF PassInv
    <2> QED BY <2>0, <2>5, SameKeeps, MoveStep
  <1>7. CASE MarkUpToDate(Controller)
    <2>1. UNCHANGED <<cache, specs, effect>> /\ \E retry : End(Controller, retry)
      BY <1>7 DEF MarkUpToDate
    <2>2. CASE api.exists /\ Store(Marked(p.first))
      <3>1. Keeps(api, api')
        BY <1>0, <2>2, MarkedFields, FieldsKeep
      <3> QED BY <2>1, <3>1, EndMove
    <2>3. CASE api' = api
      BY <2>1, <2>3, SameKeeps, EndMove
    <2> QED BY <1>7, <2>2, <2>3 DEF MarkUpToDate
  <1>8. CASE Fails(Controller)
    BY <1>8, SameKeeps, EndMove DEF Fails, FailPass
  <1> QED BY <1>1, <1>2, <1>3, <1>4, <1>5, <1>6, <1>7, <1>8

\* A sub-reconciler acts: what it applies is held, and what it cleaned up counts.
LEMMA SubActKeeps ==
    ASSUME OrphanInv, TypeOK', HandoverInv', SubAct(Controller)
    PROVE  OrphanInv'
  <1> DEFINE p == pass[Controller]
             q == pass'[Controller]
             n == NextSub(p)
  <1>0. /\ Controller \in Workers /\ p \in Passes /\ p.obj \in Objects
        /\ p.seen \in Objects /\ p.i \in Subs /\ p.pc = "act"
        /\ effect \in [Subs -> Nat] /\ NoOrphanedEffects
        /\ UNCHANGED <<api, cache, specs>>
        /\ GroupInv(p.obj, api, cache) /\ SeenInv(p, api)
        /\ CleanInv(p, api, effect) /\ (cache.exists \/ ~api.exists)
    BY ConstantsAssumption, Fields
    DEF OrphanInv, HandoverInv, TypeOK, PassInv, SubAct
  <1>1. /\ n \in Passes /\ n.obj = p.obj /\ n.err = p.err
        /\ n.requeue = p.requeue /\ n.pc \in {"read", "finish"}
        /\ n.pc = "read" => n.i = p.i + 1
        /\ n.pc = "finish" => ~(p.i < N)
    BY <1>0, NextSubType DEF NextSub, Passes
  <1>2. ASSUME q.obj = p.obj, q.pc \in {"read", "finish"},
               NoOrphanedEffects', CleanInv(q, api, effect')
        PROVE  OrphanInv'
    <2>1. PassInv(q, api', cache', effect')
      BY <1>0, <1>2 DEF PassInv
    <2>2. /\ ApiInv(api') /\ CacheInv(api', cache') /\ specs' # 0
      BY <1>0 DEF OrphanInv
    <2> QED BY <1>2, <2>1, <2>2 DEF OrphanInv
  <1>3. CASE SubSucceeds(Controller)
    <2>1. q = n
      BY <1>0, <1>3 DEF SubSucceeds, HandoverInv, TypeOK, OrphanInv
    <2>2. CASE p.seen.exists
      <3>1. effect' = [effect EXCEPT ![p.i] = Wanted(p.seen)]
        BY <1>3, <2>2 DEF SubSucceeds
      <3>2. p.seen.deleting => Wanted(p.seen) = NoSpec
        BY DEF Wanted
      <3>3. NoOrphanedEffects'
        BY <1>0, <2>2, <3>1, <3>2 DEF NoOrphanedEffects, SeenInv, Ended
      <3>4. CleanInv(q, api, effect')
        <4> SUFFICES ASSUME q.obj.deleting, ~q.err, ~q.requeue, api.exists,
                            NEW j \in Subs, q.pc = "finish" \/ j < q.i
                     PROVE  effect'[j] = NoSpec
          BY DEF CleanInv
        <4>1. Wanted(p.seen) = NoSpec
          BY <1>0, <1>1, <2>1, <2>2, <3>2 DEF SeenInv, Ended
        <4>2. CASE j = p.i
          BY <1>0, <3>1, <4>1, <4>2
        <4>3. CASE j # p.i
          <5>1. j < p.i
            BY <1>0, <1>1, <2>1, <4>3, ConstantsAssumption DEF Subs
          <5>2. effect[j] = NoSpec
            BY <1>0, <1>1, <2>1, <5>1 DEF CleanInv
          <5> QED BY <1>0, <3>1, <4>3, <5>2
        <4> QED BY <4>2, <4>3
      <3> QED BY <1>1, <1>2, <2>1, <3>3, <3>4
    <2>3. CASE ~p.seen.exists
      <3>1. effect' = effect /\ ~api.exists
        BY <1>0, <1>3, <2>3 DEF SubSucceeds, SeenInv
      <3>2. NoOrphanedEffects'
        BY <1>0, <3>1 DEF NoOrphanedEffects
      <3>3. CleanInv(q, api, effect')
        BY <3>1 DEF CleanInv
      <3> QED BY <1>1, <1>2, <2>1, <3>2, <3>3
    <2> QED BY <2>2, <2>3
  <1>4. CASE SubFails(Controller)
    <2>1. q = [n EXCEPT !.err = TRUE] \/ q = [n EXCEPT !.requeue = TRUE]
      BY <1>0, <1>4 DEF SubFails, HandoverInv, TypeOK, OrphanInv
    <2>2. q.obj = p.obj /\ q.pc = n.pc /\ (q.err \/ q.requeue)
      BY <1>1, <2>1 DEF Passes
    <2>3. CleanInv(q, api, effect')
      BY <2>2 DEF CleanInv
    <2>4. NoOrphanedEffects'
      BY <1>0, <1>4 DEF SubFails, NoOrphanedEffects
    <2> QED BY <1>1, <1>2, <2>2, <2>3, <2>4
  <1> QED BY <1>3, <1>4 DEF SubAct

\* The group is done: the finalizer goes only after everything was cleaned up.
LEMMA FinishGroupKeeps ==
    ASSUME OrphanInv, TypeOK', HandoverInv', FinishGroup(Controller)
    PROVE  OrphanInv'
  <1> DEFINE p == pass[Controller]
             q == pass'[Controller]
             o == [p.obj EXCEPT !.fin = FALSE]
  <1>0. /\ Controller \in Workers /\ p \in Passes /\ p.obj \in Objects
        /\ p.pc = "finish" /\ p.obj.exists /\ ~p.obj.legacy /\ p.obj.fin
        /\ UNCHANGED <<cache, specs, effect>>
        /\ GroupInv(p.obj, api, cache) /\ CleanInv(p, api, effect)
    BY ConstantsAssumption, Fields
    DEF OrphanInv, HandoverInv, TypeOK, PassInv, FinishGroup, Held
  <1>1. ASSUME NEW r, Goto(Controller, r)
        PROVE  q = r
    BY <1>1, ConstantsAssumption DEF Goto, OrphanInv, HandoverInv, TypeOK
  <1>2. CASE /\ p.obj.deleting /\ ~p.err /\ ~p.requeue
             /\ GroupUpdate(Controller, o, "status")
    <2>0. /\ o.rv = p.obj.rv /\ o.deleting /\ ~o.fin /\ ~o.legacy
      BY <1>0, <1>2 DEF Objects
    <2>1. CASE Raced(o)
      <3>1. q = [p EXCEPT !.pc = "status", !.requeue = TRUE] /\ api' = api
        BY <1>1, <1>2, <2>1 DEF GroupUpdate
      <3>2. q.pc = "status"
        BY <1>0, <3>1 DEF Passes
      <3> QED BY <1>0, <3>1, <3>2, StatusMove
    <2>2. CASE ~Raced(o)
      <3>1. Store(o) /\ q = [p EXCEPT !.pc = "status", !.obj = api']
        BY <1>1, <1>2, <2>2 DEF GroupUpdate
      <3>2. /\ ~api'.exists /\ ~api'.fin /\ ~api'.legacy
        BY <2>0, <3>1 DEF Store, Gone
      <3>3. q.pc = "status"
        BY <1>0, <3>1 DEF Passes
      <3>4. api.exists
        BY <1>0, <2>0, <2>2, NotRaced
      <3>5. \A j \in Subs : effect'[j] = NoSpec
        BY <1>0, <1>2, <3>4 DEF CleanInv
      <3>6. NoOrphanedEffects'
        BY <3>5 DEF NoOrphanedEffects
      <3>7. CacheInv(api', cache')
        BY <1>0, <1>2, <3>2 DEF CacheInv, GroupInv, Ended
      <3>8. ApiInv(api') /\ PassInv(q, api', cache', effect')
        BY <3>2, <3>3 DEF ApiInv, PassInv
      <3>9. specs' # 0
        BY <1>0 DEF OrphanInv
      <3> QED BY <3>6, <3>7, <3>8, <3>9 DEF OrphanInv
    <2> QED BY <2>1, <2>2
  <1>3. CASE End(Controller, TRUE) /\ api' = api
    BY <1>0, <1>3, SameKeeps, EndMove
  <1>4. CASE Goto(Controller, [p EXCEPT !.pc = "status"]) /\ api' = api
    <2>1. q.pc = "status"
      BY <1>0, <1>1, <1>4 DEF Passes
    <2> QED BY <1>0, <1>4, <2>1, StatusMove
  <1> QED BY <1>2, <1>3, <1>4 DEF FinishGroup

-----------------------------------------------------------------------------
(* The environment, and the theorem.                                       *)

\* Every step of the environment, when names are not reused.
LEMMA EnvironmentKeeps ==
    ASSUME OrphanInv, TypeOK', HandoverInv', Environment, ~NamesReused
    PROVE  OrphanInv'
  <1> DEFINE p == pass[Controller]
  <1>0. /\ Controller \in Workers /\ p \in Passes /\ p.obj \in Objects
        /\ api \in Objects /\ api' \in Objects /\ cache \in Objects
        /\ TypeOK /\ ApiInv(api) /\ specs \in Nat
        /\ PassInv(p, api, cache, effect)
    BY ConstantsAssumption, Fields DEF OrphanInv, HandoverInv, TypeOK
  <1>1. ASSUME Keeps(api, api'), UNCHANGED <<cache, effect, pass>>,
               api.exists, specs' \in {specs, specs + 1}
        PROVE  OrphanInv'
    <2>1. CacheInv(api', cache') /\ PassInv(p, api', cache, effect)
      BY <1>0, <1>1, KeepsInv DEF OrphanInv
    <2>2. NoOrphanedEffects' /\ ApiInv(api')
      BY <1>1 DEF OrphanInv, NoOrphanedEffects, Keeps
    <2>3. specs' # 0
      BY <1>0, <1>1 DEF OrphanInv
    <2> QED BY <1>1, <2>1, <2>2, <2>3 DEF OrphanInv
  <1>2. CASE Create
    <2>1. /\ specs = 0 /\ specs' = 1 /\ ~api.exists
          /\ UNCHANGED <<cache, effect, pass>>
      BY <1>2 DEF Create, NewSpec
    <2>2. p.pc = "idle" /\ ~cache.exists
      BY <2>1 DEF OrphanInv
    <2>3. ~api.fin /\ ~api.legacy
      BY <1>0, <2>1 DEF ApiInv
    <2>4. NoOrphanedEffects'
      BY <2>1, <2>3 DEF OrphanInv, NoOrphanedEffects
    <2>5. ~api'.fin /\ ~api'.legacy /\ ~api'.deleting
      BY <1>2 DEF Create, Created, Gone
    <2>6. ApiInv(api') /\ CacheInv(api', cache')
      BY <2>1, <2>2, <2>5 DEF ApiInv, CacheInv
    <2>7. PassInv(p, api', cache, effect)
      BY <2>2 DEF PassInv
    <2> QED BY <2>1, <2>4, <2>6, <2>7 DEF OrphanInv
  <1>3. CASE Edit
    <2> DEFINE x == [api EXCEPT !.spec = specs', !.gen = api.gen + 1]
    <2>1. /\ Store(x) /\ api.exists /\ UNCHANGED <<cache, effect, pass>>
          /\ specs' = specs + 1
      BY <1>3 DEF Edit, NewSpec
    <2>2. /\ x \in Objects /\ x.exists = api.exists /\ x.fin = api.fin
          /\ x.legacy = api.legacy /\ x.deleting = api.deleting
      <3>1. specs' \in Nat /\ api.gen + 1 \in Nat
        BY <1>0, <2>1 DEF Objects
      <3> QED BY <1>0, <3>1 DEF Objects
    <2>3. Keeps(api, api')
      BY <1>0, <2>1, <2>2, FieldsKeep
    <2> QED BY <1>1, <2>1, <2>3
  <1>4. CASE Delete
    <2> DEFINE x == [api EXCEPT !.deleting = TRUE, !.gen = api.gen + 1]
    <2>1. /\ Store(x) /\ api.exists /\ UNCHANGED <<cache, effect, pass, specs>>
      BY <1>4 DEF Delete
    <2>2. /\ x \in Objects /\ x.exists = api.exists /\ x.fin = api.fin
          /\ x.legacy = api.legacy /\ x.deleting
      <3>1. api.gen + 1 \in Nat
        BY <1>0 DEF Objects
      <3> QED BY <1>0, <3>1 DEF Objects
    <2>3. Keeps(api, api')
      BY <1>0, <2>1, <2>2, FieldsKeep
    <2> QED BY <1>1, <2>1, <2>3
  <1>5. CASE CacheSync
    <2>1. cache' = api /\ UNCHANGED <<api, specs, effect, pass>>
      BY <1>5 DEF CacheSync
    <2>2. CacheInv(api, api)
      BY DEF CacheInv, Ended
    <2>3. GroupInv(p.obj, api, cache) => GroupInv(p.obj, api, api)
      BY DEF GroupInv, Ended
    <2>4. PassInv(p, api, api, effect)
      BY <1>0, <2>3 DEF PassInv
    <2> QED BY <2>1, <2>2, <2>4 DEF OrphanInv, NoOrphanedEffects
  <1>6. CASE Crash
    <2>1. /\ cache' = api /\ UNCHANGED <<api, specs, effect>>
          /\ pass'[Controller] = Idle
      BY <1>0, <1>6 DEF Crash
    <2>2. CacheInv(api, api)
      BY DEF CacheInv, Ended
    <2>3. Idle.pc = "idle"
      BY DEF Idle
    <2> QED BY <2>1, <2>2, <2>3, IdlePass DEF OrphanInv, NoOrphanedEffects
  <1>7. CASE \E w \in Workers \ {Controller} : PodEvent(w)
    <2>1. UNCHANGED <<api, cache, specs, effect, pass>>
      BY <1>7 DEF PodEvent
    <2> QED BY <2>1 DEF OrphanInv, NoOrphanedEffects
  <1> QED
    BY <1>2, <1>3, <1>4, <1>5, <1>6, <1>7 DEF Environment

\* The inductive invariant holds of every reachable state: what the other
\* theorems about a single goroutine rest on.
LEMMA OrphanInvariant ==
    ASSUME Workers = {Controller}, ~NamesReused
    PROVE  Spec => []OrphanInv
  <1>1. Init /\ HandoverInv => OrphanInv
    <2> SUFFICES ASSUME Init, HandoverInv
                 PROVE  OrphanInv
      OBVIOUS
    <2>1. cache = api /\ pass[Controller] = Idle
      BY ConstantsAssumption DEF Init
    <2>2. CacheInv(api, cache) /\ PassInv(pass[Controller], api, cache, effect)
      BY <2>1, IdlePass DEF CacheInv, Ended
    <2>3. CASE api = Gone /\ effect = [i \in Subs |-> NoSpec]
      <3>1. ApiInv(api) /\ ~api.exists
        BY <2>3 DEF ApiInv, Gone
      <3>2. NoOrphanedEffects /\ Idle.pc = "idle"
        BY <2>3 DEF NoOrphanedEffects, Idle
      <3> QED BY <2>1, <2>2, <3>1, <3>2 DEF OrphanInv
    <2>4. CASE ~(api = Gone /\ effect = [i \in Subs |-> NoSpec])
      <3>1. PICK d, f, l, u \in BOOLEAN :
              api = [exists |-> TRUE, rv |-> 1, gen |-> 1, spec |-> 1,
                     deleting |-> d, fin |-> f, legacy |-> l,
                     upToDate |-> u, obsGen |-> IF u THEN 1 ELSE 0]
        BY <2>4 DEF Init
      <3>2. api.exists /\ (api.fin \/ api.legacy) /\ specs = 1
        BY <2>4, <3>1 DEF Init
      <3>3. ApiInv(api) /\ NoOrphanedEffects
        BY <3>2 DEF ApiInv, NoOrphanedEffects
      <3> QED BY <2>1, <2>2, <3>2, <3>3 DEF OrphanInv
    <2> QED BY <2>3, <2>4
  <1>2. OrphanInv /\ TypeOK' /\ [Next]_vars => OrphanInv'
    <2> SUFFICES ASSUME OrphanInv, TypeOK', [Next]_vars
                 PROVE  OrphanInv'
      OBVIOUS
    <2>0. HandoverInv'
      BY HandoverKept DEF OrphanInv
    <2>1. CASE UNCHANGED vars
      <3>1. UNCHANGED <<api, cache, specs, effect, pass>>
        BY <2>1 DEF vars
      <3> QED BY <2>0, <3>1 DEF OrphanInv, NoOrphanedEffects
    <2>2. CASE Environment
      BY <2>0, <2>2, EnvironmentKeeps
    <2>3. CASE Step(Controller) \/ Fails(Controller)
      BY <2>0, <2>3, StepKeepsEffects, SubActKeeps, FinishGroupKeeps DEF Step
    <2> QED BY <2>1, <2>2, <2>3 DEF Next
  <1>3. Init /\ TypeOK => HandoverInv
    BY InitHandover
  <1> QED
    BY <1>1, <1>2, <1>3, TypeCorrect, PTL DEF Spec

\* Of deletion: as long as any sub-reconciler has something applied, the object
\* exists and one of the operator's finalizers holds it, whatever fails and
\* whenever the operator restarts.
THEOREM EffectsHeld ==
    ASSUME Workers = {Controller}, ~NamesReused
    PROVE  Spec => []NoOrphanedEffects
  <1>1. OrphanInv => NoOrphanedEffects
    BY DEF OrphanInv
  <1> QED
    BY <1>1, OrphanInvariant, PTL

-----------------------------------------------------------------------------
(***************************************************************************)
(* CleanedOnlyWhenDeleting for any number of workers, sub-reconcilers,     *)
(* specs and faults, when no name is used twice: a sub-reconciler cleans   *)
(* up when the copy it reads is being deleted, and a copy of an object     *)
(* that is being deleted is never wrong about that, however old it is.     *)
(***************************************************************************)

\* The copy o of the stored object a carries a spec, and tells of a deletion only
\* if there is one.
Truthful(o, a) == o.exists => o.spec # NoSpec /\ (o.deleting => Ended(a))

DeletionInv ==
    /\ HandoverInv
    /\ Truthful(api, api)
    /\ Truthful(cache, api)
    /\ \A w \in Workers : Truthful(pass[w].seen, api)
    /\ specs = 0 => /\ ~api.exists /\ ~cache.exists
                    /\ \A w \in Workers : ~pass[w].seen.exists

\* From a to b the object does not come into being, and a deletion stays one.
Ages(a, b) ==
    /\ b.exists => a.exists /\ b.spec # NoSpec
    /\ Ended(a) => Ended(b)

\* What sub-reconcilers have applied is taken down only for a deleted object.
CleansDeleted ==
    \A i \in Subs : effect[i] # NoSpec /\ effect'[i] = NoSpec => Ended(api)

\* A write that undoes no deletion lets the object age.
LEMMA StoreAges ==
    ASSUME NEW x \in Objects, Store(x), api \in Objects,
           x.spec # NoSpec, api.exists, api.deleting => x.deleting
    PROVE  Ages(api, api')
  <1>1. CASE x.deleting /\ ~x.fin /\ ~x.legacy
    BY <1>1 DEF Store, Gone, Ages, Ended
  <1>2. CASE ~(x.deleting /\ ~x.fin /\ ~x.legacy) /\ x = api
    BY <1>2 DEF Store, Ages, Ended
  <1>3. CASE ~(x.deleting /\ ~x.fin /\ ~x.legacy) /\ x # api
    <2>1. api' = [x EXCEPT !.rv = clock + 1]
      BY <1>3 DEF Store
    <2>2. api'.deleting = x.deleting /\ api'.spec = x.spec
      BY <2>1 DEF Objects
    <2> QED BY <2>2 DEF Ages, Ended
  <1> QED BY <1>1, <1>2, <1>3

\* The object stays as it is.
LEMMA SameAges ==
    ASSUME DeletionInv, api' = api
    PROVE  Ages(api, api')
  BY DEF DeletionInv, Truthful, Ages

\* A step of the pass of w to q, during which the object ages.
LEMMA AgingStep ==
    ASSUME DeletionInv, HandoverInv', NEW w \in Workers, NEW q,
           pass' = [pass EXCEPT ![w] = q], UNCHANGED <<cache, specs>>,
           q.seen \in {pass[w].seen, cache, Gone}, Ages(api, api')
    PROVE  DeletionInv'
  <1>1. ASSUME NEW o, Truthful(o, api)
        PROVE  Truthful(o, api')
    BY <1>1 DEF Truthful, Ages
  <1>2. ~Gone.exists
    BY DEF Gone
  <1>3. Truthful(api', api') /\ Truthful(cache, api')
    BY <1>1 DEF DeletionInv, Truthful, Ages, Ended
  <1>4. ASSUME NEW v \in Workers
        PROVE  /\ Truthful(pass'[v].seen, api')
               /\ specs = 0 => ~pass'[v].seen.exists
    <2>1. pass'[v].seen \in {pass[v].seen, cache, Gone}
      BY DEF DeletionInv, HandoverInv, TypeOK
    <2>2. Truthful(Gone, api')
      BY <1>2 DEF Truthful
    <2> QED BY <1>1, <1>2, <2>1, <2>2 DEF DeletionInv
  <1> QED BY <1>3, <1>4 DEF DeletionInv, Ages

\* Likewise when the pass ends.
LEMMA AgingEnd ==
    ASSUME DeletionInv, HandoverInv', NEW w \in Workers, NEW retry,
           End(w, retry), UNCHANGED <<cache, specs>>, Ages(api, api')
    PROVE  DeletionInv'
  <1>1. pass' = [pass EXCEPT ![w] = Idle] /\ Idle.seen = Gone
    BY DEF End, Idle
  <1> QED BY <1>1, AgingStep

\* ... and when the group writes its copy, turned into o.
LEMMA AgingUpdate ==
    ASSUME DeletionInv, HandoverInv', NEW w \in Workers, NEW o \in Objects,
           NEW next \in PCs, GroupUpdate(w, o, next), UNCHANGED <<cache, specs>>,
           pass[w].obj.exists, o.rv = pass[w].obj.rv,
           o.spec = pass[w].obj.spec, o.deleting = pass[w].obj.deleting
    PROVE  DeletionInv'
  <1>0. pass[w] \in Passes /\ api \in Objects /\ Version(pass[w].obj, api, clock)
    BY DEF DeletionInv, HandoverInv, TypeOK
  <1>1. CASE Raced(o)
    <2> DEFINE q == [pass[w] EXCEPT !.pc = "status", !.requeue = TRUE]
    <2>1. pass' = [pass EXCEPT ![w] = q] /\ api' = api
      BY <1>1 DEF GroupUpdate, Goto
    <2>2. q.seen = pass[w].seen
      BY <1>0 DEF Passes
    <2> QED BY <2>1, <2>2, SameAges, AgingStep
  <1>2. CASE ~Raced(o)
    <2> DEFINE q == [pass[w] EXCEPT !.pc = next, !.obj = api']
    <2>1. pass' = [pass EXCEPT ![w] = q] /\ Store(o)
      BY <1>2 DEF GroupUpdate, Goto
    <2>2. q.seen = pass[w].seen
      BY <1>0 DEF Passes
    <2>3. api.exists /\ api = pass[w].obj
      BY <1>0, <1>2 DEF Raced, Version
    <2>4. Ages(api, api')
      BY <1>0, <2>1, <2>3, StoreAges DEF DeletionInv, Truthful
    <2> QED BY <2>1, <2>2, <2>4, AgingStep
  <1> QED BY <1>1, <1>2

\* Every step of a pass of w lets the object age at most.
LEMMA StepAges ==
    ASSUME DeletionInv, TypeOK', HandoverInv', NEW w \in Workers,
           Step(w) \/ Fails(w)
    PROVE  DeletionInv'
  <1> DEFINE p == pass[w]
             q == pass'[w]
  <1>0. /\ p \in Passes /\ p.obj \in Objects /\ p.first \in Objects
        /\ api \in Objects /\ cache \in Objects /\ Held(p)
        /\ api.exists => api.spec # NoSpec
    BY Fields DEF DeletionInv, HandoverInv, TypeOK, Truthful
  <1>00. ASSUME NEW r, Goto(w, r), r.seen \in {p.seen, cache, Gone},
                UNCHANGED <<api, cache, specs>>
         PROVE  DeletionInv'
    BY <1>00, SameAges, AgingStep DEF Goto
  <1>1. CASE Begin(w)
    <2>1. pass' = [pass EXCEPT ![w] = q] /\ UNCHANGED <<api, cache, specs>>
      BY <1>1 DEF Begin, DeletionInv, HandoverInv, TypeOK
    <2>2. q.seen = Gone
      <3>1. \/ q = Idle
            \/ q = [Idle EXCEPT !.pc = "demote", !.first = cache]
            \/ q = [Idle EXCEPT !.pc = "get", !.first = cache]
        BY <1>1 DEF Begin, DeletionInv, HandoverInv, TypeOK
      <3>2. Idle \in Passes /\ Idle.seen = Gone
        BY NothingType DEF Idle
      <3> QED BY <3>1, <3>2 DEF Passes
    <2> QED BY <2>1, <2>2, SameAges, AgingStep
  <1>2. CASE Demote(w)
    <2>1. UNCHANGED <<cache, specs>> /\ \E retry : End(w, retry)
      BY <1>2 DEF Demote
    <2>2. CASE api.exists
      <3> DEFINE x == [api EXCEPT !.upToDate = FALSE]
      <3>1. Store(x)
        BY <1>2, <2>2 DEF Demote
      <3>2. x \in Objects /\ x.spec = api.spec /\ x.deleting = api.deleting
        BY <1>0 DEF Objects
      <3>3. Ages(api, api')
        BY <1>0, <2>2, <3>1, <3>2, StoreAges
      <3> QED BY <2>1, <3>3, AgingEnd
    <2>3. CASE ~api.exists
      <3>1. api' = api
        BY <1>2, <2>3 DEF Demote
      <3> QED BY <2>1, <3>1, SameAges, AgingEnd
    <2> QED BY <2>2, <2>3
  <1>3. CASE GetObject(w)
    <2> DEFINE next == IF cache.exists THEN "ensure" ELSE "status"
               r == [p EXCEPT !.obj = cache, !.pc = next]
    <2>1. Goto(w, r) /\ UNCHANGED <<api, cache, specs>>
      BY <1>3 DEF GetObject
    <2>2. r.seen = p.seen
      BY <1>0 DEF Passes
    <2> QED BY <1>00, <2>1, <2>2
  <1>4. CASE EnsureFinalizer(w)
    <2>0. p.obj.exists /\ UNCHANGED <<cache, specs>>
      BY <1>0, <1>4 DEF EnsureFinalizer, Held
    <2>1. CASE Goto(w, [p EXCEPT !.pc = "legacy"]) /\ api' = api
      <3>1. [p EXCEPT !.pc = "legacy"].seen = p.seen
        BY <1>0 DEF Passes
      <3> QED BY <1>00, <2>0, <2>1, <3>1
    <2>2. CASE GroupUpdate(w, [p.obj EXCEPT !.fin = TRUE], "legacy")
      <3> DEFINE o == [p.obj EXCEPT !.fin = TRUE]
      <3>1. /\ o \in Objects /\ o.rv = p.obj.rv /\ o.spec = p.obj.spec
            /\ o.deleting = p.obj.deleting
        BY <1>0 DEF Objects
      <3> QED BY <2>0, <2>2, <3>1, AgingUpdate DEF PCs
    <2>3. CASE End(w, TRUE) /\ api' = api
      BY <2>0, <2>3, SameAges, AgingEnd
    <2> QED BY <1>4, <2>1, <2>2, <2>3 DEF EnsureFinalizer
  <1>5. CASE RemoveLegacyFinalizers(w)
    <2>0. p.obj.exists /\ UNCHANGED <<cache, specs>>
      BY <1>0, <1>5 DEF RemoveLegacyFinalizers, Held
    <2>1. CASE p.obj.legacy
      <3> DEFINE o == [p.obj EXCEPT !.legacy = FALSE]
      <3>1. /\ o \in Objects /\ o.rv = p.obj.rv /\ o.spec = p.obj.spec
            /\ o.deleting = p.obj.deleting
        BY <1>0 DEF Objects
      <3>2. GroupUpdate(w, o, "read")
        BY <1>5, <2>1 DEF RemoveLegacyFinalizers
      <3> QED BY <2>0, <3>1, <3>2, AgingUpdate DEF PCs
    <2>2. CASE ~p.obj.legacy
      <3>1. [p EXCEPT !.pc = "read"].seen = p.seen
        BY <1>0 DEF Passes
      <3>2. Goto(w, [p EXCEPT !.pc = "read"]) /\ api' = api
        BY <1>5, <2>2 DEF RemoveLegacyFinalizers
      <3> QED BY <1>00, <2>0, <3>1, <3>2
    <2> QED BY <2>1, <2>2
  <1>6. CASE SubRead(w)
    <2> DEFINE r == [p EXCEPT !.pc = "act", !.seen = cache]
    <2>1. Goto(w, r) /\ UNCHANGED <<api, cache, specs>>
      BY <1>6 DEF SubRead
    <2>2. r.seen = cache
      BY <1>0 DEF Passes
    <2> QED BY <1>00, <2>1, <2>2
  <1>7. CASE SubAct(w)
    <2>1. pass' = [pass EXCEPT ![w] = q] /\ UNCHANGED <<api, cache, specs>>
      BY <1>7 DEF SubAct, SubSucceeds, SubFails, DeletionInv, HandoverInv, TypeOK
    <2>2. q.seen = Gone
      <3>1. \/ q = NextSub(p)
            \/ q = [NextSub(p) EXCEPT !.err = TRUE]
            \/ q = [NextSub(p) EXCEPT !.requeue = TRUE]
        BY <1>7
        DEF SubAct, SubSucceeds, SubFails, DeletionInv, HandoverInv, TypeOK
      <3>2. NextSub(p) \in Passes /\ NextSub(p).seen = Gone
        BY <1>0, NextSubType DEF NextSub, Passes
      <3> QED BY <3>1, <3>2 DEF Passes
    <2> QED BY <2>1, <2>2, SameAges, AgingStep
  <1>8. CASE FinishGroup(w)
    <2>0. p.obj.exists /\ UNCHANGED <<cache, specs>>
      BY <1>0, <1>8 DEF FinishGroup, Held
    <2>1. CASE GroupUpdate(w, [p.obj EXCEPT !.fin = FALSE], "status")
      <3> DEFINE o == [p.obj EXCEPT !.fin = FALSE]
      <3>1. /\ o \in Objects /\ o.rv = p.obj.rv /\ o.spec = p.obj.spec
            /\ o.deleting = p.obj.deleting
        BY <1>0 DEF Objects
      <3> QED BY <2>0, <2>1, <3>1, AgingUpdate DEF PCs
    <2>2. CASE Goto(w, [p EXCEPT !.pc = "status"]) /\ api' = api
      <3>1. [p EXCEPT !.pc = "status"].seen = p.seen
        BY <1>0 DEF Passes
      <3> QED BY <1>00, <2>0, <2>2, <3>1
    <2>3. CASE End(w, TRUE) /\ api' = api
      BY <2>0, <2>3, SameAges, AgingEnd
    <2> QED BY <1>8, <2>1, <2>2, <2>3 DEF FinishGroup
  <1>9. CASE MarkUpToDate(w)
    <2>1. UNCHANGED <<cache, specs>> /\ \E retry : End(w, retry)
      BY <1>9 DEF MarkUpToDate
    <2>2. CASE api.exists /\ Store(Marked(p.first))
      <3>1. Ages(api, api')
        BY <1>0, <2>2, MarkedFields, StoreAges
      <3> QED BY <2>1, <3>1, AgingEnd
    <2>3. CASE api' = api
      BY <2>1, <2>3, SameAges, AgingEnd
    <2> QED BY <1>9, <2>2, <2>3 DEF MarkUpToDate
  <1>10. CASE Fails(w)
    BY <1>10, SameAges, AgingEnd DEF Fails, FailPass
  <1> QED
    BY <1>1, <1>2, <1>3, <1>4, <1>5, <1>6, <1>7, <1>8, <1>9, <1>10 DEF Step

\* Every step of the environment, when names are not reused.
LEMMA EnvironmentAges ==
    ASSUME DeletionInv, TypeOK', HandoverInv', Environment, ~NamesReused
    PROVE  DeletionInv'
  <1>0. /\ api \in Objects /\ specs \in Nat
        /\ api.exists => api.spec # NoSpec /\ specs # 0
    BY DEF DeletionInv, HandoverInv, TypeOK, Truthful
  <1>1. ASSUME Ages(api, api'), UNCHANGED <<cache, pass>>, specs' # 0
        PROVE  DeletionInv'
    <2>1. \A o : Truthful(o, api) => Truthful(o, api')
      BY <1>1 DEF Truthful, Ages
    <2>2. Truthful(api', api')
      BY <1>1 DEF Truthful, Ages, Ended
    <2> QED BY <1>1, <2>1, <2>2 DEF DeletionInv
  <1>2. CASE Create
    <2>1. /\ specs = 0 /\ specs' = 1 /\ UNCHANGED <<cache, pass>>
      BY <1>2 DEF Create, NewSpec
    <2>2. ~api'.deleting /\ api'.spec = 1
      BY <1>2, <2>1 DEF Create, Created, Gone
    <2>3. Truthful(api', api')
      BY <2>2 DEF Truthful, NoSpec
    <2>4. Truthful(cache, api') /\ \A w \in Workers : Truthful(pass[w].seen, api')
      BY <2>1 DEF DeletionInv, Truthful
    <2> QED BY <2>1, <2>3, <2>4 DEF DeletionInv
  <1>3. CASE Edit
    <2> DEFINE x == [api EXCEPT !.spec = specs', !.gen = api.gen + 1]
    <2>1. /\ Store(x) /\ api.exists /\ UNCHANGED <<cache, pass>>
          /\ specs' = specs + 1
      BY <1>3 DEF Edit, NewSpec
    <2>2. x \in Objects /\ x.spec = specs' /\ x.deleting = api.deleting
      <3>1. specs' \in Nat /\ api.gen + 1 \in Nat
        BY <1>0, <2>1 DEF Objects
      <3> QED BY <1>0, <3>1 DEF Objects
    <2>3. specs' # 0 /\ x.spec # NoSpec
      BY <1>0, <2>1, <2>2 DEF NoSpec
    <2>4. Ages(api, api')
      BY <1>0, <2>1, <2>2, <2>3, StoreAges
    <2> QED BY <1>1, <2>1, <2>3, <2>4
  <1>4. CASE Delete
    <2> DEFINE x == [api EXCEPT !.deleting = TRUE, !.gen = api.gen + 1]
    <2>1. Store(x) /\ api.exists /\ UNCHANGED <<cache, pass, specs>>
      BY <1>4 DEF Delete
    <2>2. x \in Objects /\ x.spec = api.spec /\ x.deleting
      <3>1. api.gen + 1 \in Nat
        BY <1>0 DEF Objects
      <3> QED BY <1>0, <3>1 DEF Objects
    <2>3. Ages(api, api')
      BY <1>0, <2>1, <2>2, StoreAges
    <2> QED BY <1>0, <1>1, <2>1, <2>3
  <1>5. CASE CacheSync
    BY <1>5 DEF CacheSync, DeletionInv
  <1>6. CASE Crash
    <2>1. /\ cache' = api /\ UNCHANGED <<api, specs>>
          /\ \A w \in Workers : pass'[w].seen = Gone
      BY <1>6 DEF Crash, Idle
    <2>2. ~Gone.exists
      BY DEF Gone
    <2>3. \A w \in Workers : Truthful(pass'[w].seen, api)
      BY <2>1, <2>2 DEF Truthful
    <2> QED BY <2>1, <2>2, <2>3 DEF DeletionInv
  <1>7. CASE \E w \in Workers \ {Controller} : PodEvent(w)
    BY <1>7 DEF PodEvent, DeletionInv
  <1> QED
    BY <1>2, <1>3, <1>4, <1>5, <1>6, <1>7 DEF Environment

\* Only a sub-reconciler whose copy is being deleted takes anything down.
LEMMA StepCleansDeleted ==
    ASSUME DeletionInv, [Next]_vars
    PROVE  CleansDeleted
  <1>1. CASE effect' = effect
    BY <1>1 DEF CleansDeleted
  <1>2. CASE \E w \in Workers : SubAct(w) /\ SubSucceeds(w)
    <2>1. PICK w \in Workers : SubSucceeds(w)
      BY <1>2
    <2> DEFINE seen == pass[w].seen
    <2>2. /\ effect \in [Subs -> Nat] /\ Truthful(seen, api)
      BY DEF DeletionInv, HandoverInv, TypeOK
    <2>3. CASE seen.exists
      <3>1. effect' = [effect EXCEPT ![pass[w].i] = Wanted(seen)]
        BY <2>1, <2>3 DEF SubSucceeds
      <3>2. Wanted(seen) = NoSpec => Ended(api)
        BY <2>2, <2>3 DEF Wanted, Truthful
      <3> QED BY <2>2, <3>1, <3>2 DEF CleansDeleted
    <2>4. CASE ~seen.exists
      BY <1>1, <2>1, <2>4 DEF SubSucceeds
    <2> QED BY <2>3, <2>4
  <1>3. effect' = effect \/ \E w \in Workers : SubAct(w) /\ SubSucceeds(w)
    BY DEF Next, vars, Environment, Create, Edit, Delete, CacheSync, Crash,
           PodEvent, Step, Begin, Demote, GetObject, EnsureFinalizer,
           RemoveLegacyFinalizers, SubRead, SubAct, SubFails, FinishGroup,
           MarkUpToDate, Fails, FailPass
  <1> QED BY <1>1, <1>2, <1>3

\* The inductive invariant holds of every reachable state.
LEMMA DeletionInvariant ==
    ASSUME ~NamesReused
    PROVE  Spec => []DeletionInv
  <1>1. Init /\ HandoverInv => DeletionInv
    <2> SUFFICES ASSUME Init, HandoverInv
                 PROVE  DeletionInv
      OBVIOUS
    <2>1. cache = api /\ \A w \in Workers : pass[w].seen = Gone
      BY DEF Init, Idle
    <2>2. ~Gone.exists
      BY DEF Gone
    <2>3. api.exists => api.spec # NoSpec /\ specs # 0
      <3>1. CASE ~api.exists
        BY <3>1
      <3>2. CASE api.exists
        BY <2>2, <3>2 DEF Init, NoSpec
      <3> QED BY <3>1, <3>2
    <2> QED BY <2>1, <2>2, <2>3 DEF DeletionInv, Truthful, Ended
  <1>2. DeletionInv /\ TypeOK' /\ [Next]_vars => DeletionInv'
    <2> SUFFICES ASSUME DeletionInv, TypeOK', [Next]_vars
                 PROVE  DeletionInv'
      OBVIOUS
    <2>0. HandoverInv'
      BY HandoverKept DEF DeletionInv
    <2>1. CASE UNCHANGED vars
      <3>1. UNCHANGED <<api, cache, specs, pass>>
        BY <2>1 DEF vars
      <3> QED BY <2>0, <3>1 DEF DeletionInv
    <2> QED
      BY <2>0, <2>1, StepAges, EnvironmentAges DEF Next
  <1> QED
    BY <1>1, <1>2, InitHandover, TypeCorrect, PTL DEF Spec

\* Of concurrent passes: whatever two goroutines do on the same object, and
\* however stale their copies, what is applied for a live object stays.
THEOREM CleanUpOnlyOfDeleted ==
    ASSUME ~NamesReused
    PROVE  Spec => CleanedOnlyWhenDeleting
  <1>1. DeletionInv /\ [Next]_vars =>
          \A i \in Subs : effect[i] # NoSpec /\ effect'[i] = NoSpec
                            => ~api.exists \/ api.deleting
    BY StepCleansDeleted DEF CleansDeleted, Ended
  <1> QED
    BY <1>1, DeletionInvariant, PTL DEF Spec, CleanedOnlyWhenDeleting

-----------------------------------------------------------------------------
(* At rest.  A pass for which nothing is queued has read nothing but the   *)
(* copy the informer still has: an event in between would have queued      *)
(* another.  If that copy is the object, what the pass has done is what is *)
(* declared; if it is not, the event that says so is still to come, since  *)
(* no write turns the stored object back into an earlier copy.             *)

\* The first sub-reconcilers, all before i, have applied the stored object.
Matches(a, e, i) == \A j \in Subs : j < i => e[j] = Wanted(a)

\* What the pass p has done of the stored object a.
Progress(p, a, e) ==
    /\ p.pc = "idle" => Matches(a, e, N + 1)
    /\ p.pc \in {"read", "act"} /\ ~p.err /\ ~p.requeue => Matches(a, e, p.i)
    /\ p.pc = "finish" /\ ~p.err /\ ~p.requeue => Matches(a, e, N + 1)
    /\ p.pc = "status" /\ ~p.requeue => Matches(a, e, N + 1)

\* The pass p runs on the copy c.
RunsOn(p, c) ==
    /\ p.pc # "idle" => c.exists
    /\ p.pc = "demote" => p.first = c /\ p.first.upToDate
    /\ p.pc = "act" => p.seen = c

RestInv ==
    ~queued[Controller]
      => /\ RunsOn(pass[Controller], cache)
         /\ cache = api /\ api.exists => Progress(pass[Controller], api, effect)

\* A write that leaves the copy fresh has left the object alone.
LEMMA Unread ==
    ASSUME TypeOK, Version(cache, api, clock), NEW x \in Objects, Store(x),
           cache = api', api'.exists
    PROVE  api' = api
  <1>1. /\ clock \in Nat /\ cache.rv \in Nat
        /\ cache.exists => cache.rv =< clock
    BY DEF TypeOK, Objects, Version
  <1>2. api' # Gone
    BY DEF Gone
  <1>3. ASSUME api' = [x EXCEPT !.rv = clock + 1]
        PROVE  FALSE
    <2>1. api'.rv = clock + 1
      BY <1>3 DEF Objects
    <2> QED BY <1>1, <2>1
  <1> QED BY <1>2, <1>3 DEF Store

\* A request is queued when the step is done.
LEMMA QueuedRest ==
    ASSUME queued'[Controller]
    PROVE  RestInv'
  BY DEF RestInv

\* The pass moves on to q, and the object stays as it is.
LEMMA RestMove ==
    ASSUME UNCHANGED <<api, cache>>,
           queued'[Controller] \/
             (/\ RunsOn(pass'[Controller], cache)
              /\ cache = api /\ api.exists
                   => Progress(pass'[Controller], api, effect'))
    PROVE  RestInv'
  BY DEF RestInv

\* A pass that ends with something to retry leaves a request.
LEMMA EndQueues ==
    ASSUME TypeOK, NEW retry \in BOOLEAN, End(Controller, retry)
    PROVE  /\ pass'[Controller] = Idle
           /\ queued'[Controller] = (queued[Controller] \/ retry)
  BY ConstantsAssumption DEF End, TypeOK

\* The group writes its copy, turned into another object.
LEMMA RestUpdate ==
    ASSUME OrphanInv, RestInv, NEW o \in Objects, NEW next \in PCs,
           GroupUpdate(Controller, o, next), cache' = cache, effect' = effect,
           pass[Controller].pc \notin {"idle", "demote", "act"},
           next \in {"legacy", "read", "status"},
           pass[Controller].obj.exists,
           o.rv = pass[Controller].obj.rv, o # pass[Controller].obj
    PROVE  RestInv'
  <1> DEFINE p == pass[Controller]
  <1>0. /\ Controller \in Workers /\ p \in Passes /\ TypeOK
        /\ Version(cache, api, clock) /\ api \in Objects /\ cache \in Objects
        /\ pass \in [Workers -> Passes]
    BY ConstantsAssumption DEF OrphanInv, HandoverInv, TypeOK
  <1>1. queued' = queued
    BY DEF GroupUpdate, Goto
  <1>2. CASE Raced(o)
    <2>1. pass'[Controller] = [p EXCEPT !.pc = "status", !.requeue = TRUE]
          /\ api' = api
      BY <1>0, <1>2 DEF GroupUpdate, Goto
    <2>2. pass'[Controller].pc = "status" /\ pass'[Controller].requeue
      BY <1>0, <2>1 DEF Passes
    <2> QED BY <1>1, <2>1, <2>2, RestMove DEF RestInv, RunsOn, Progress
  <1>3. CASE ~Raced(o)
    <2>1. Store(o) /\ pass'[Controller] = [p EXCEPT !.pc = next, !.obj = api']
      BY <1>0, <1>3 DEF GroupUpdate, Goto
    <2>2. pass'[Controller].pc = next
      BY <1>0, <2>1 DEF Passes
    <2>3. api.exists /\ api = p.obj
      BY <1>3, NotRaced
    <2>4. ~(cache = api' /\ api'.exists)
      <3> SUFFICES ASSUME cache = api', api'.exists
                   PROVE  FALSE
        OBVIOUS
      <3>1. api' = api
        BY <1>0, <2>1, Unread
      <3>2. api' # Gone /\ api.rv \in Nat /\ api.rv =< clock /\ clock \in Nat
        BY <1>0, <2>3, <3>1 DEF Gone, OrphanInv, HandoverInv, Version, TypeOK, Objects
      <3>3. api' = [o EXCEPT !.rv = clock + 1]
        BY <2>1, <2>3, <3>2 DEF Store
      <3>4. api'.rv = clock + 1
        BY <3>3 DEF Objects
      <3> QED BY <3>1, <3>2, <3>4
    <2> QED BY <1>1, <2>2, <2>4 DEF RestInv, RunsOn
  <1> QED BY <1>2, <1>3

\* The pass ends after a write of the stored object.
LEMMA RestEnd ==
    ASSUME OrphanInv, RestInv, NEW retry \in BOOLEAN, End(Controller, retry),
           NEW x \in Objects, Store(x), cache' = cache, effect' = effect,
           ~queued[Controller] /\ ~retry /\ cache = api /\ api.exists /\ x = api
             => Matches(api, effect, N + 1)
    PROVE  RestInv'
  <1>0. /\ TypeOK /\ Version(cache, api, clock) /\ Version(api, api, clock)
        /\ api \in Objects /\ clock \in Nat
    BY DEF OrphanInv, HandoverInv, TypeOK
  <1>1. /\ pass'[Controller] = Idle /\ Idle.pc = "idle"
        /\ queued'[Controller] = (queued[Controller] \/ retry)
    BY <1>0, EndQueues DEF Idle
  <1>2. CASE cache = api' /\ api'.exists
    <2>1. api' = api
      BY <1>0, <1>2, Unread
    <2>2. x = api
      <3>1. api' # Gone /\ api.rv \in Nat /\ api.rv =< clock
        BY <1>0, <1>2, <2>1 DEF Gone, Version, Objects
      <3>2. ASSUME api' = [x EXCEPT !.rv = clock + 1]
            PROVE  FALSE
        <4>1. api'.rv = clock + 1
          BY <3>2 DEF Objects
        <4> QED BY <1>0, <2>1, <3>1, <4>1
      <3> QED BY <3>1, <3>2 DEF Store
    <2> QED BY <1>1, <1>2, <2>1, <2>2 DEF RestInv, RunsOn, Progress
  <1>3. CASE ~(cache = api' /\ api'.exists)
    BY <1>1, <1>3 DEF RestInv, RunsOn
  <1> QED BY <1>2, <1>3

\* The passes of the controller up to the group's first sub-reconciler.
LEMMA RestBefore ==
    ASSUME OrphanInv, RestInv, TypeOK',
           \/ Begin(Controller) \/ Demote(Controller) \/ GetObject(Controller)
           \/ EnsureFinalizer(Controller) \/ RemoveLegacyFinalizers(Controller)
    PROVE  RestInv'
  <1> DEFINE p == pass[Controller]
             q == pass'[Controller]
  <1>0. /\ Controller \in Workers /\ p \in Passes /\ p.obj \in Objects
        /\ api \in Objects /\ cache \in Objects /\ TypeOK /\ Held(p)
        /\ pass \in [Workers -> Passes] /\ queued \in [Workers -> BOOLEAN]
        /\ N \in Nat
    BY ConstantsAssumption, Fields DEF OrphanInv, HandoverInv, TypeOK
  <1>1. CASE Begin(Controller)
    <2>1. UNCHANGED <<api, cache, effect>> /\ p.pc = "idle"
      BY <1>1 DEF Begin
    <2>2. CASE ~cache.exists
      <3>1. q = Idle /\ Idle.pc = "idle"
        BY <1>0, <1>1, <2>2 DEF Begin, Idle
      <3> QED BY <2>1, <2>2, <3>1, RestMove DEF RunsOn
    <2>3. CASE cache.exists /\ cache.upToDate /\ cache.obsGen # cache.gen
      <3>1. q = [Idle EXCEPT !.pc = "demote", !.first = cache]
        BY <1>0, <1>1, <2>3 DEF Begin
      <3>2. q.pc = "demote" /\ q.first = cache
        BY <3>1, NothingType DEF Passes
      <3> QED BY <2>1, <2>3, <3>2, RestMove DEF RunsOn, Progress
    <2>4. CASE cache.exists /\ ~(cache.upToDate /\ cache.obsGen # cache.gen)
      <3>1. q = [Idle EXCEPT !.pc = "get", !.first = cache]
        BY <1>0, <1>1, <2>4 DEF Begin
      <3>2. q.pc = "get"
        BY <3>1, NothingType DEF Passes
      <3> QED BY <2>1, <2>4, <3>2, RestMove DEF RunsOn, Progress
    <2> QED BY <2>2, <2>3, <2>4
  <1>2. CASE Demote(Controller)
    <2>0. p.pc = "demote" /\ UNCHANGED <<cache, effect>>
      BY <1>2 DEF Demote
    <2>1. CASE api.exists
      <3> DEFINE x == [api EXCEPT !.upToDate = FALSE]
      <3>1. Store(x) /\ End(Controller, FALSE) /\ x \in Objects /\ ~x.upToDate
        BY <1>0, <1>2, <2>1 DEF Demote, Objects
      <3>2. ~queued[Controller] /\ cache = api => api.upToDate
        BY <2>0 DEF RestInv, RunsOn
      <3> QED BY <2>0, <3>1, <3>2, RestEnd
    <2>2. CASE ~api.exists
      BY <1>0, <1>2, <2>2, EndQueues, QueuedRest DEF Demote
    <2> QED BY <2>1, <2>2
  <1>3. CASE GetObject(Controller)
    <2>0. p.pc = "get" /\ UNCHANGED <<api, cache, effect, queued>>
      BY <1>3 DEF GetObject, Goto
    <2>1. CASE ~cache.exists
      BY <2>0, <2>1, QueuedRest DEF RestInv, RunsOn
    <2>2. CASE cache.exists
      <3>1. q = [p EXCEPT !.obj = cache, !.pc = "ensure"]
        BY <1>0, <1>3, <2>2 DEF GetObject, Goto
      <3>2. q.pc = "ensure"
        BY <1>0, <3>1 DEF Passes
      <3> QED BY <2>0, <2>2, <3>2, RestMove DEF RunsOn, Progress
    <2> QED BY <2>1, <2>2
  <1>4. CASE EnsureFinalizer(Controller)
    <2>0. /\ p.pc = "ensure" /\ p.obj.exists /\ UNCHANGED <<cache, effect>>
      BY <1>0, <1>4 DEF EnsureFinalizer, Held
    <2>1. CASE Goto(Controller, [p EXCEPT !.pc = "legacy"]) /\ api' = api
      <3>1. q = [p EXCEPT !.pc = "legacy"] /\ queued' = queued
        BY <1>0, <2>1 DEF Goto
      <3>2. q.pc = "legacy"
        BY <1>0, <3>1 DEF Passes
      <3> QED BY <2>0, <2>1, <3>1, <3>2, RestMove DEF RestInv, RunsOn, Progress
    <2>2. CASE /\ ~p.obj.fin
               /\ GroupUpdate(Controller, [p.obj EXCEPT !.fin = TRUE], "legacy")
      <3> DEFINE o == [p.obj EXCEPT !.fin = TRUE]
      <3>1. o \in Objects /\ o.rv = p.obj.rv /\ o # p.obj
        BY <1>0, <2>2 DEF Objects
      <3> QED BY <2>0, <2>2, <3>1, RestUpdate DEF PCs
    <2>3. CASE End(Controller, TRUE)
      BY <1>0, <2>3, EndQueues, QueuedRest
    <2> QED BY <1>4, <2>1, <2>2, <2>3 DEF EnsureFinalizer
  <1>5. CASE RemoveLegacyFinalizers(Controller)
    <2>0. /\ p.pc = "legacy" /\ p.obj.exists /\ UNCHANGED <<cache, effect>>
          /\ p.i = 1
      BY <1>0, <1>5 DEF RemoveLegacyFinalizers, Held, OrphanInv, PassInv
    <2>1. CASE p.obj.legacy
      <3> DEFINE o == [p.obj EXCEPT !.legacy = FALSE]
      <3>1. o \in Objects /\ o.rv = p.obj.rv /\ o # p.obj
        BY <1>0, <2>1 DEF Objects
      <3>2. GroupUpdate(Controller, o, "read")
        BY <1>5, <2>1 DEF RemoveLegacyFinalizers
      <3> QED BY <2>0, <3>1, <3>2, RestUpdate DEF PCs
    <2>2. CASE ~p.obj.legacy
      <3>1. q = [p EXCEPT !.pc = "read"] /\ queued' = queued /\ api' = api
        BY <1>0, <1>5, <2>2 DEF RemoveLegacyFinalizers, Goto
      <3>2. q.pc = "read" /\ q.i = 1
        BY <1>0, <2>0, <3>1 DEF Passes
      <3>3. Matches(api, effect, 1)
        BY DEF Matches, Subs
      <3> QED BY <2>0, <3>1, <3>2, <3>3, RestMove DEF RestInv, RunsOn, Progress
    <2> QED BY <2>1, <2>2
  <1> QED BY <1>1, <1>2, <1>3, <1>4, <1>5

\* A sub-reconciler reads and acts: the stored object is applied once more, if
\* the copy is it.
LEMMA RestSub ==
    ASSUME OrphanInv, RestInv, TypeOK',
           SubRead(Controller) \/ SubAct(Controller)
    PROVE  RestInv'
  <1> DEFINE p == pass[Controller]
             q == pass'[Controller]
             n == NextSub(p)
  <1>0. /\ Controller \in Workers /\ p \in Passes /\ p.i \in Subs /\ N \in Nat
        /\ pass \in [Workers -> Passes] /\ effect \in [Subs -> Nat]
    BY ConstantsAssumption, Fields DEF OrphanInv, HandoverInv, TypeOK
  <1>1. CASE SubRead(Controller)
    <2>1. /\ p.pc = "read" /\ q = [p EXCEPT !.pc = "act", !.seen = cache]
          /\ UNCHANGED <<api, cache, effect, queued>>
      BY <1>0, <1>1 DEF SubRead, Goto
    <2>2. /\ q.pc = "act" /\ q.seen = cache /\ q.i = p.i
          /\ q.err = p.err /\ q.requeue = p.requeue
      BY <1>0, <2>1 DEF Passes
    <2> QED BY <2>1, <2>2, RestMove DEF RestInv, RunsOn, Progress
  <1>2. CASE SubAct(Controller)
    <2>0. p.pc = "act" /\ UNCHANGED <<api, cache, queued>>
      BY <1>2 DEF SubAct
    <2>1. /\ n \in Passes /\ n.err = p.err /\ n.requeue = p.requeue
          /\ n.pc \in {"read", "finish"}
          /\ n.pc = "read" => n.i = p.i + 1
          /\ n.pc = "finish" => ~(p.i < N)
      BY <1>0, NextSubType DEF NextSub, Passes
    <2>2. CASE SubFails(Controller)
      <3>1. q = [n EXCEPT !.err = TRUE] \/ q = [n EXCEPT !.requeue = TRUE]
        BY <1>0, <2>2 DEF SubFails
      <3>2. q.pc = n.pc /\ (q.err \/ q.requeue)
        BY <2>1, <3>1 DEF Passes
      <3> QED
        BY <2>0, <2>1, <3>2, RestMove DEF RestInv, RunsOn, Progress
    <2>3. CASE SubSucceeds(Controller) /\ ~queued[Controller]
      <3>1. p.seen = cache /\ cache.exists /\ q = n
        BY <1>0, <2>0, <2>3 DEF SubSucceeds, RestInv, RunsOn
      <3>2. effect' = [effect EXCEPT ![p.i] = Wanted(cache)]
        BY <2>3, <3>1 DEF SubSucceeds
      <3>3. ASSUME cache = api, api.exists, ~q.err, ~q.requeue
            PROVE  Matches(api, effect', IF q.pc = "read" THEN q.i ELSE N + 1)
        <4> SUFFICES ASSUME NEW j \in Subs,
                            j < IF q.pc = "read" THEN q.i ELSE N + 1
                     PROVE  effect'[j] = Wanted(api)
          BY DEF Matches
        <4>1. CASE j = p.i
          BY <1>0, <3>2, <3>3, <4>1
        <4>2. CASE j # p.i
          <5>1. j < p.i
            BY <1>0, <2>1, <3>1, <4>2 DEF Subs
          <5>2. effect[j] = Wanted(api)
            BY <2>0, <2>1, <2>3, <3>1, <3>3, <5>1
            DEF RestInv, Progress, Matches
          <5> QED BY <1>0, <3>2, <4>2, <5>2
        <4> QED BY <4>1, <4>2
      <3> QED BY <2>0, <2>1, <3>1, <3>3, RestMove DEF RunsOn, Progress
    <2>4. CASE queued[Controller]
      BY <2>0, <2>4, QueuedRest
    <2> QED BY <1>2, <2>2, <2>3, <2>4 DEF SubAct
  <1> QED BY <1>1, <1>2

\* The end of a pass: with nothing to retry, all has been done.
LEMMA RestAfter ==
    ASSUME OrphanInv, RestInv, TypeOK',
           \/ FinishGroup(Controller) \/ MarkUpToDate(Controller)
           \/ Fails(Controller)
    PROVE  RestInv'
  <1> DEFINE p == pass[Controller]
             q == pass'[Controller]
  <1>0. /\ Controller \in Workers /\ p \in Passes /\ p.obj \in Objects
        /\ p.first \in Objects /\ p.requeue \in BOOLEAN
        /\ api \in Objects /\ TypeOK /\ Held(p)
        /\ pass \in [Workers -> Passes]
    BY ConstantsAssumption, Fields DEF OrphanInv, HandoverInv, TypeOK
  <1>1. CASE FinishGroup(Controller)
    <2>0. /\ p.pc = "finish" /\ p.obj.exists /\ p.obj.fin
          /\ UNCHANGED <<cache, effect>>
      BY <1>0, <1>1 DEF FinishGroup, Held
    <2>1. CASE GroupUpdate(Controller, [p.obj EXCEPT !.fin = FALSE], "status")
      <3> DEFINE o == [p.obj EXCEPT !.fin = FALSE]
      <3>1. o \in Objects /\ o.rv = p.obj.rv /\ o # p.obj
        BY <1>0, <2>0 DEF Objects
      <3> QED BY <2>0, <2>1, <3>1, RestUpdate DEF PCs
    <2>2. CASE End(Controller, TRUE)
      BY <1>0, <2>2, EndQueues, QueuedRest
    <2>3. CASE /\ ~p.err /\ Goto(Controller, [p EXCEPT !.pc = "status"])
               /\ api' = api
      <3>1. q = [p EXCEPT !.pc = "status"] /\ queued' = queued
        BY <1>0, <2>3 DEF Goto
      <3>2. q.pc = "status" /\ q.err = p.err /\ q.requeue = p.requeue
        BY <1>0, <3>1 DEF Passes
      <3> QED BY <2>0, <2>3, <3>1, <3>2, RestMove DEF RestInv, RunsOn, Progress
    <2> QED BY <1>1, <2>1, <2>2, <2>3 DEF FinishGroup
  <1>2. CASE MarkUpToDate(Controller)
    <2>0. p.pc = "status" /\ UNCHANGED <<cache, effect>>
      BY <1>2 DEF MarkUpToDate
    <2>1. CASE End(Controller, TRUE)
      BY <1>0, <2>1, EndQueues, QueuedRest
    <2>2. ~queued[Controller] /\ ~p.requeue /\ cache = api /\ api.exists
            => Matches(api, effect, N + 1)
      BY <2>0 DEF RestInv, Progress
    <2>3. CASE End(Controller, p.requeue) /\ api' = api
      <3>1. /\ q = Idle /\ Idle.pc = "idle"
            /\ queued'[Controller] = (queued[Controller] \/ p.requeue)
        BY <1>0, <2>3, EndQueues DEF Idle
      <3> QED BY <2>0, <2>2, <2>3, <3>1, RestMove DEF RunsOn, Progress
    <2>4. CASE End(Controller, p.requeue) /\ Store(Marked(p.first))
      <3>1. Marked(p.first) \in Objects
        BY <1>0, MarkedFields
      <3> QED BY <1>0, <2>0, <2>2, <2>4, <3>1, RestEnd
    <2> QED BY <1>2, <2>1, <2>3, <2>4 DEF MarkUpToDate
  <1>3. CASE Fails(Controller)
    BY <1>0, <1>3, EndQueues, QueuedRest DEF Fails, FailPass
  <1> QED BY <1>1, <1>2, <1>3

\* Users, the informer and the process: what changes the object behind the
\* informer's copy makes the copy stale, what renews the copy queues a request.
LEMMA RestEnvironment ==
    ASSUME Workers = {Controller}, ~NamesReused, OrphanInv, RestInv, Environment
    PROVE  RestInv'
  <1>0. /\ Controller \in Workers /\ TypeOK /\ api \in Objects
        /\ queued \in [Workers -> BOOLEAN]
        /\ Version(cache, api, clock) /\ specs \in Nat /\ clock \in Nat
    BY ConstantsAssumption DEF OrphanInv, HandoverInv, TypeOK
  <1>1. ASSUME UNCHANGED <<cache, effect, queued, pass>>,
               cache = api' /\ api'.exists => api' = api
        PROVE  RestInv'
    BY <1>1 DEF RestInv
  <1>2. CASE Create
    <2>1. ~cache.exists /\ UNCHANGED <<cache, effect, queued, pass>>
      BY <1>2 DEF Create, OrphanInv
    <2> QED BY <1>1, <2>1
  <1>3. CASE Edit
    <2> DEFINE x == [api EXCEPT !.spec = specs', !.gen = api.gen + 1]
    <2>1. Store(x) /\ UNCHANGED <<cache, effect, queued, pass>>
      BY <1>3 DEF Edit
    <2>2. x \in Objects
      <3>1. specs' \in Nat /\ api.gen + 1 \in Nat
        BY <1>0, <1>3 DEF Edit, NewSpec, Objects
      <3> QED BY <1>0, <3>1 DEF Objects
    <2> QED BY <1>0, <1>1, <2>1, <2>2, Unread
  <1>4. CASE Delete
    <2> DEFINE x == [api EXCEPT !.deleting = TRUE, !.gen = api.gen + 1]
    <2>1. Store(x) /\ UNCHANGED <<cache, effect, queued, pass>>
      BY <1>4 DEF Delete
    <2>2. x \in Objects
      <3>1. api.gen + 1 \in Nat
        BY <1>0 DEF Objects
      <3> QED BY <1>0, <3>1 DEF Objects
    <2> QED BY <1>0, <1>1, <2>1, <2>2, Unread
  <1>5. CASE CacheSync \/ Crash
    BY <1>0, <1>5, QueuedRest DEF CacheSync, Crash
  <1>6. CASE \E w \in Workers \ {Controller} : PodEvent(w)
    BY <1>6
  <1> QED
    BY <1>2, <1>3, <1>4, <1>5, <1>6 DEF Environment

\* Of convergence: once nothing is running, queued or still to be delivered, every
\* sub-reconciler has applied the spec the object has now, or nothing if the
\* object is gone, whatever was raced, refused, retried or cut short before.
THEOREM AtRestDeclared ==
    ASSUME Workers = {Controller}, ~NamesReused
    PROVE  Spec => []AtRestMatchesDeclaration
  <1>1. Init => RestInv
    <2> SUFFICES ASSUME Init
                 PROVE  RestInv
      OBVIOUS
    <2>1. queued[Controller] = api.exists /\ pass[Controller] = Idle
          /\ cache = api
      BY ConstantsAssumption DEF Init
    <2>2. Idle.pc = "idle"
      BY DEF Idle
    <2> QED BY <2>1, <2>2 DEF RestInv, RunsOn
  <1>2. OrphanInv /\ OrphanInv' /\ RestInv /\ [Next]_vars => RestInv'
    <2> SUFFICES ASSUME OrphanInv, OrphanInv', RestInv, [Next]_vars
                 PROVE  RestInv'
      OBVIOUS
    <2>0. TypeOK'
      BY DEF OrphanInv, HandoverInv
    <2>1. CASE UNCHANGED vars
      BY <2>1 DEF vars, RestInv
    <2>2. CASE Environment
      BY <2>2, RestEnvironment
    <2>3. CASE Step(Controller) \/ Fails(Controller)
      BY <2>0, <2>3, RestBefore, RestSub, RestAfter DEF Step
    <2> QED BY <2>1, <2>2, <2>3 DEF Next
  <1>3. OrphanInv /\ RestInv => AtRestMatchesDeclaration
    <2> SUFFICES ASSUME OrphanInv, RestInv, AtRest, NEW i \in Subs
                 PROVE  effect[i] = IF api.exists THEN Wanted(api) ELSE NoSpec
      BY DEF AtRestMatchesDeclaration
    <2>1. /\ cache = api /\ ~queued[Controller]
          /\ pass[Controller].pc = "idle"
      BY ConstantsAssumption DEF AtRest, Idle
    <2>2. CASE api.exists
      <3>1. Matches(api, effect, N + 1)
        BY <2>1, <2>2 DEF RestInv, Progress
      <3>2. i < N + 1
        BY ConstantsAssumption DEF Subs
      <3> QED BY <2>2, <3>1, <3>2 DEF Matches
    <2>3. CASE ~api.exists
      BY <2>3 DEF OrphanInv, NoOrphanedEffects, ApiInv
    <2> QED BY <2>2, <2>3
  <1> QED
    BY <1>1, <1>2, <1>3, OrphanInvariant, PTL DEF Spec

-----------------------------------------------------------------------------
(* The refinement of HeldEffects.  The stored object is the declaration; a *)
(* write of the operator is a Hold, a Release or no step of it at all, and *)
(* a sub-reconciler applies a spec no newer than the declared one.         *)

\* The copy o carries a spec no newer than that of the stored object a.
Known(o, a) == o.exists /\ a.exists => o.spec =< a.spec

SpecInv ==
    /\ ~api.exists => api = Gone
    /\ api.spec =< specs
    /\ Known(cache, api)
    /\ Known(pass[Controller].seen, api)

\* From a to b the declaration stays as it is, but may have come to be held.
Holding(a, b) ==
    /\ b.spec = a.spec /\ b.exists = a.exists /\ b.deleting = a.deleting
    /\ a.fin \/ a.legacy => b.fin \/ b.legacy

\* A write that leaves the spec alone and takes no finalizer.
LEMMA StoreHolds ==
    ASSUME TypeOK, ApiInv(api), NEW x \in Objects, Store(x), api.exists,
           Holding(api, x)
    PROVE  Holding(api, api') /\ (x.fin \/ x.legacy => api'.fin \/ api'.legacy)
           /\ (~x.fin /\ ~x.legacy => ~api'.fin /\ ~api'.legacy)
  <1>0. /\ api \in Objects
        /\ api.deleting => api.fin \/ api.legacy
    BY DEF TypeOK, ApiInv
  <1>1. ~(x.deleting /\ ~x.fin /\ ~x.legacy)
    BY <1>0 DEF Holding
  <1>2. CASE x = api
    BY <1>1, <1>2 DEF Store, Holding
  <1>3. CASE x # api
    <2>1. api' = [x EXCEPT !.rv = clock + 1]
      BY <1>1, <1>3 DEF Store
    <2>2. /\ api'.exists = x.exists /\ api'.deleting = x.deleting
          /\ api'.spec = x.spec
          /\ api'.fin = x.fin /\ api'.legacy = x.legacy
      BY <2>1 DEF Objects
    <2> QED BY <2>2 DEF Holding
  <1> QED BY <1>2, <1>3

\* What a step does to the declaration.
Holds ==
    \/ api' = api
    \/ /\ api.exists /\ Holding(api, api')
       /\ (api'.fin \/ api'.legacy) = (api.fin \/ api.legacy) \/ ~api.deleting

\* The steps of a pass that write the object write no declaration, and take it
\* from being held only when nothing of it is left in effect.
LEMMA PassHolds ==
    ASSUME Workers = {Controller}, OrphanInv, Step(Controller) \/ Fails(Controller)
    PROVE  \/ Holds
           \/ /\ FinishGroup(Controller) /\ api' = Gone
              /\ api.deleting /\ \A i \in Subs : effect[i] = NoSpec
  <1> DEFINE p == pass[Controller]
  <1>0. /\ Controller \in Workers /\ p \in Passes /\ p.obj \in Objects
        /\ p.first \in Objects /\ api \in Objects /\ TypeOK /\ ApiInv(api)
        /\ Held(p) /\ PassInv(p, api, cache, effect)
    BY ConstantsAssumption, Fields DEF OrphanInv, HandoverInv, TypeOK
  <1>1. ASSUME NEW x \in Objects, Store(x), api.exists, Holding(api, x),
               (x.fin \/ x.legacy) = (api.fin \/ api.legacy) \/ ~api.deleting
        PROVE  Holds
    BY <1>0, <1>1, StoreHolds DEF Holds, Holding, Objects
  <1>2. CASE Demote(Controller)
    <2>1. CASE api.exists
      <3> DEFINE x == [api EXCEPT !.upToDate = FALSE]
      <3>1. Store(x) /\ x \in Objects /\ Holding(api, x)
            /\ x.fin = api.fin /\ x.legacy = api.legacy
        BY <1>0, <1>2, <2>1 DEF Demote, Objects, Holding
      <3> QED BY <1>1, <2>1, <3>1
    <2>2. CASE ~api.exists
      BY <1>2, <2>2 DEF Demote, Holds
    <2> QED BY <2>1, <2>2
  <1>3. CASE EnsureFinalizer(Controller)
    <2>1. CASE api' = api
      BY <2>1 DEF Holds
    <2>2. CASE api' # api
      <3> DEFINE o == [p.obj EXCEPT !.fin = TRUE]
      <3>1. /\ Raced(p.obj) \/ ~Invalid(p.obj)
            /\ GroupUpdate(Controller, o, "legacy") /\ p.obj.exists
        BY <1>0, <1>3, <2>2 DEF EnsureFinalizer, Held
      <3>2. o \in Objects /\ o.rv = p.obj.rv
        BY <1>0 DEF Objects
      <3>3. Store(o) /\ ~Raced(o) /\ ~Raced(p.obj)
        BY <2>2, <3>1, <3>2 DEF GroupUpdate, Raced
      <3>4. api.exists /\ api = p.obj
        BY <3>1, <3>3, NotRaced
      <3>5. Holding(api, o) /\ ~api.deleting
        BY <1>0, <3>1, <3>3, <3>4 DEF Holding, Objects, Invalid
      <3> QED BY <1>1, <3>2, <3>3, <3>4, <3>5
    <2> QED BY <2>1, <2>2
  <1>4. CASE RemoveLegacyFinalizers(Controller)
    <2>1. CASE api' = api
      BY <2>1 DEF Holds
    <2>2. CASE api' # api
      <3> DEFINE o == [p.obj EXCEPT !.legacy = FALSE]
      <3>1. ~Raced(o) /\ Store(o) /\ p.obj.exists /\ p.obj.fin
        BY <1>0, <1>4, <2>2 DEF RemoveLegacyFinalizers, GroupUpdate, Goto, Held
      <3>2. o \in Objects /\ o.rv = p.obj.rv
        BY <1>0 DEF Objects
      <3>3. api.exists /\ api = p.obj
        BY <3>1, <3>2, NotRaced
      <3>4. Holding(api, o) /\ o.fin
        BY <1>0, <3>1, <3>3 DEF Holding, Objects
      <3> QED BY <1>1, <3>1, <3>2, <3>3, <3>4
    <2> QED BY <2>1, <2>2
  <1>5. CASE FinishGroup(Controller)
    <2>1. CASE api' = api
      BY <2>1 DEF Holds
    <2>2. CASE api' # api
      <3> DEFINE o == [p.obj EXCEPT !.fin = FALSE]
      <3>1. /\ ~Raced(o) /\ Store(o) /\ p.obj.exists /\ ~p.obj.legacy
            /\ p.pc = "finish" /\ p.obj.deleting /\ ~p.err /\ ~p.requeue
        BY <1>0, <1>5, <2>2 DEF FinishGroup, GroupUpdate, Goto, Held
      <3>2. o \in Objects /\ o.rv = p.obj.rv
        BY <1>0 DEF Objects
      <3>3. api.exists /\ api = p.obj
        BY <3>1, <3>2, NotRaced
      <3>4. o.deleting /\ ~o.fin /\ ~o.legacy
        BY <1>0, <3>1 DEF Objects
      <3>5. api' = Gone
        BY <3>1, <3>4 DEF Store
      <3>6. \A i \in Subs : effect[i] = NoSpec
        BY <1>0, <3>1, <3>3 DEF PassInv, CleanInv
      <3> QED BY <1>5, <3>1, <3>3, <3>5, <3>6
    <2> QED BY <2>1, <2>2
  <1>6. CASE MarkUpToDate(Controller)
    <2>1. CASE api' = api
      BY <2>1 DEF Holds
    <2>2. CASE api' # api
      <3>1. Store(Marked(p.first)) /\ api.exists
        BY <1>6, <2>2 DEF MarkUpToDate
      <3>2. /\ Marked(p.first) \in Objects /\ Holding(api, Marked(p.first))
            /\ Marked(p.first).fin = api.fin
            /\ Marked(p.first).legacy = api.legacy
        BY <1>0, MarkedFields DEF Holding
      <3> QED BY <1>1, <3>1, <3>2
    <2> QED BY <2>1, <2>2
  <1>7. CASE \/ Begin(Controller) \/ GetObject(Controller) \/ SubRead(Controller)
             \/ SubAct(Controller) \/ Fails(Controller)
    BY <1>7 DEF Begin, GetObject, SubRead, SubAct, Fails, FailPass, Holds
  <1> QED BY <1>2, <1>3, <1>4, <1>5, <1>6, <1>7 DEF Step

\* What a sub-reconciler may act on is the informer's copy.
LEMMA PassSeen ==
    ASSUME TypeOK, Step(Controller) \/ Fails(Controller)
    PROVE  pass'[Controller].seen \in {pass[Controller].seen, cache, Gone}
  <1> DEFINE p == pass[Controller]
             q == pass'[Controller]
  <1>0. /\ Controller \in Workers /\ p \in Passes /\ pass \in [Workers -> Passes]
        /\ Idle \in Passes /\ Idle.seen = Gone
    BY ConstantsAssumption, NothingType DEF TypeOK, Idle
  <1>1. CASE Begin(Controller)
    <2>1. \/ q = Idle
          \/ q = [Idle EXCEPT !.pc = "demote", !.first = cache]
          \/ q = [Idle EXCEPT !.pc = "get", !.first = cache]
      BY <1>0, <1>1 DEF Begin
    <2> QED BY <1>0, <2>1 DEF Passes
  <1>2. CASE SubAct(Controller)
    <2>1. \/ q = NextSub(p)
          \/ q = [NextSub(p) EXCEPT !.err = TRUE]
          \/ q = [NextSub(p) EXCEPT !.requeue = TRUE]
      BY <1>0, <1>2 DEF SubAct, SubSucceeds, SubFails
    <2>2. NextSub(p) \in Passes /\ NextSub(p).seen = Gone
      BY <1>0, NextSubType DEF NextSub, Passes
    <2> QED BY <2>1, <2>2 DEF Passes
  <1>3. CASE \/ Demote(Controller) \/ MarkUpToDate(Controller)
             \/ Fails(Controller)
    <2>1. \E retry : End(Controller, retry)
      BY <1>3 DEF Demote, MarkUpToDate, Fails, FailPass
    <2> QED BY <1>0, <2>1 DEF End
  <1>4. ASSUME NEW r, Goto(Controller, r), r.seen \in {p.seen, cache, Gone}
        PROVE  q.seen \in {p.seen, cache, Gone}
    BY <1>0, <1>4 DEF Goto
  <1>5. ASSUME NEW o, NEW next, GroupUpdate(Controller, o, next)
        PROVE  q.seen = p.seen
    BY <1>0, <1>5 DEF GroupUpdate, Goto, Passes
  <1>6. CASE GetObject(Controller)
    <2>1. q = [p EXCEPT !.obj = cache,
                        !.pc = IF cache.exists THEN "ensure" ELSE "status"]
      BY <1>0, <1>6 DEF GetObject, Goto
    <2> QED BY <1>0, <2>1 DEF Passes
  <1>7. CASE SubRead(Controller)
    <2>1. q = [p EXCEPT !.pc = "act", !.seen = cache]
      BY <1>0, <1>7 DEF SubRead, Goto
    <2> QED BY <1>0, <2>1 DEF Passes
  <1>8. CASE \/ EnsureFinalizer(Controller) \/ RemoveLegacyFinalizers(Controller)
             \/ FinishGroup(Controller)
    <2>1. \/ End(Controller, TRUE)
          \/ \E o, next : GroupUpdate(Controller, o, next)
          \/ \E c : Goto(Controller, [p EXCEPT !.pc = c])
      BY <1>8 DEF EnsureFinalizer, RemoveLegacyFinalizers, FinishGroup
    <2>2. CASE \E c : Goto(Controller, [p EXCEPT !.pc = c])
      <3>1. PICK c : Goto(Controller, [p EXCEPT !.pc = c])
        BY <2>2
      <3>2. q = [p EXCEPT !.pc = c]
        BY <1>0, <3>1 DEF Goto
      <3> QED BY <1>0, <3>2 DEF Passes
    <2> QED BY <1>0, <1>5, <2>1, <2>2 DEF End
  <1> QED BY <1>1, <1>2, <1>3, <1>6, <1>7, <1>8 DEF Step

\* What users and the informer do to the declaration.
LEMMA EditWrites ==
    ASSUME OrphanInv, Edit
    PROVE  /\ api'.spec = specs + 1 /\ specs' = specs + 1
           /\ api.exists /\ api'.exists /\ api'.deleting = api.deleting
           /\ api'.fin = api.fin /\ api'.legacy = api.legacy
  <1> DEFINE x == [api EXCEPT !.spec = specs', !.gen = api.gen + 1]
  <1>1. /\ api \in Objects /\ ApiInv(api) /\ specs \in Nat /\ clock \in Nat
    BY DEF OrphanInv, HandoverInv, TypeOK
  <1>2. Store(x) /\ api.exists /\ specs' = specs + 1
    BY DEF Edit, NewSpec
  <1>3. /\ x \in Objects /\ x # api /\ x.spec = specs + 1 /\ x.exists
        /\ x.deleting = api.deleting
        /\ x.fin = api.fin /\ x.legacy = api.legacy
    <2>1. specs' \in Nat /\ api.gen + 1 \in Nat /\ api.gen + 1 # api.gen
      BY <1>1, <1>2 DEF Objects
    <2> QED BY <1>1, <1>2, <2>1 DEF Objects
  <1>4. api' = [x EXCEPT !.rv = clock + 1]
    BY <1>1, <1>2, <1>3 DEF Store, ApiInv
  <1> QED BY <1>2, <1>3, <1>4 DEF Objects

\* A deletion is recorded while the object is held, or is done at once.
LEMMA DeleteWrites ==
    ASSUME OrphanInv, Delete
    PROVE  /\ api.exists /\ ~api.deleting
           /\ IF api.fin \/ api.legacy
              THEN /\ api'.exists /\ api'.deleting /\ api'.spec = api.spec
                   /\ api'.fin = api.fin /\ api'.legacy = api.legacy
              ELSE api' = Gone
  <1> DEFINE x == [api EXCEPT !.deleting = TRUE, !.gen = api.gen + 1]
  <1>1. /\ api \in Objects /\ clock \in Nat
    BY DEF OrphanInv, HandoverInv, TypeOK
  <1>2. Store(x) /\ api.exists /\ ~api.deleting
    BY DEF Delete
  <1>3. /\ x \in Objects /\ x # api /\ x.exists /\ x.deleting
        /\ x.spec = api.spec /\ x.fin = api.fin /\ x.legacy = api.legacy
    <2>1. api.gen + 1 \in Nat
      BY <1>1 DEF Objects
    <2> QED BY <1>1, <1>2, <2>1 DEF Objects
  <1>4. CASE api.fin \/ api.legacy
    <2>1. api' = [x EXCEPT !.rv = clock + 1]
      BY <1>2, <1>3, <1>4 DEF Store
    <2> QED BY <1>2, <1>3, <1>4, <2>1 DEF Objects
  <1>5. CASE ~(api.fin \/ api.legacy)
    BY <1>2, <1>3, <1>5 DEF Store
  <1> QED BY <1>4, <1>5

\* Every step keeps the specs in order: a copy is never ahead of the object.
LEMMA SpecKept ==
    ASSUME Workers = {Controller}, ~NamesReused,
           OrphanInv, OrphanInv', DeletionInv, SpecInv, [Next]_vars
    PROVE  SpecInv'
  <1>0. /\ Controller \in Workers /\ TypeOK /\ specs \in Nat
        /\ api \in Objects /\ cache \in Objects
        /\ pass[Controller].seen \in Objects
        /\ api.spec \in Nat /\ api'.spec \in Nat /\ cache.spec \in Nat
        /\ pass[Controller].seen.spec \in Nat
    BY ConstantsAssumption, Fields DEF OrphanInv, HandoverInv, TypeOK, Objects
  <1>00. ~Gone.exists /\ Gone.spec = 0 /\ Idle.seen = Gone
    BY DEF Gone, NoSpec, Idle
  <1>1. CASE UNCHANGED vars
    BY <1>1 DEF vars, SpecInv, Known
  <1>2. CASE Step(Controller) \/ Fails(Controller)
    <2>1. UNCHANGED <<cache, specs>>
      BY <1>2
      DEF Step, Begin, Demote, GetObject, EnsureFinalizer,
          RemoveLegacyFinalizers, SubRead, SubAct, FinishGroup, MarkUpToDate,
          Fails, FailPass
    <2>2. \/ api' = Gone
          \/ api' = api
          \/ api'.spec = api.spec /\ api.exists /\ api'.exists
      BY <1>2, PassHolds DEF Holds, Holding
    <2>3. pass'[Controller].seen \in {pass[Controller].seen, cache, Gone}
      BY <1>0, <1>2, PassSeen
    <2> QED BY <1>0, <1>00, <2>1, <2>2, <2>3 DEF SpecInv, Known
  <1>3. CASE Create
    <2>1. /\ specs = 0 /\ specs' = 1 /\ UNCHANGED <<cache, pass>>
          /\ api'.spec = specs' /\ api'.exists
      BY <1>3 DEF Create, NewSpec, Created, Gone
    <2> QED BY <1>0, <2>1 DEF SpecInv, Known, DeletionInv
  <1>4. CASE Edit
    <2>1. UNCHANGED <<cache, pass>>
      BY <1>4 DEF Edit
    <2> QED BY <1>0, <1>4, <2>1, EditWrites DEF SpecInv, Known
  <1>5. CASE Delete
    <2>1. UNCHANGED <<cache, pass, specs>>
      BY <1>5 DEF Delete
    <2> QED BY <1>0, <1>00, <1>5, <2>1, DeleteWrites DEF SpecInv, Known
  <1>6. CASE CacheSync
    BY <1>0, <1>6 DEF CacheSync, SpecInv, Known
  <1>7. CASE Crash
    BY <1>0, <1>00, <1>7 DEF Crash, SpecInv, Known
  <1> QED
    BY <1>1, <1>2, <1>3, <1>4, <1>5, <1>6, <1>7 DEF Next, Environment

\* Every step of the protocol is a step of the promise, or none.
LEMMA StepRefines ==
    ASSUME Workers = {Controller}, ~NamesReused,
           OrphanInv, OrphanInv', DeletionInv, SpecInv, SpecInv', [Next]_vars
    PROVE  [Promise!Next]_(Promise!vars)
  <1> DEFINE p == pass[Controller]
             held == api.fin \/ api.legacy
  <1>0. /\ Controller \in Workers /\ p \in Passes /\ p.seen \in Objects
        /\ p.i \in Subs /\ api \in Objects /\ api' \in Objects
        /\ specs \in Nat /\ effect \in [Subs -> Nat]
        /\ api.exists => api.spec # NoSpec
        /\ held => api.exists
    BY ConstantsAssumption, Fields
    DEF OrphanInv, HandoverInv, TypeOK, DeletionInv, Truthful, ApiInv
  <1>00. /\ Gone.spec = NoSpec /\ ~Gone.deleting /\ ~Gone.fin /\ ~Gone.legacy
         /\ ~Gone.exists
    BY DEF Gone
  <1>1. CASE api' = api /\ effect' = effect
    BY <1>1 DEF Promise!vars
  <1>2. CASE SubAct(Controller) /\ SubSucceeds(Controller) /\ p.seen.exists
    <2>1. api' = api /\ effect' = [effect EXCEPT ![p.i] = Wanted(p.seen)]
      BY <1>2 DEF SubAct, SubSucceeds
    <2>2. /\ SeenInv(p, api) /\ Known(p.seen, api) /\ Truthful(p.seen, api)
      BY <1>0, <1>2 DEF SubAct, OrphanInv, PassInv, SpecInv, DeletionInv
    <2>3. CASE ~p.seen.deleting
      <3>1. held /\ Wanted(p.seen) \in 1 .. api.spec
        BY <1>0, <1>2, <2>2, <2>3
        DEF SeenInv, Ended, Wanted, Known, Truthful, NoSpec, Objects
      <3>2. Promise!Apply(p.i)
        BY <2>1, <3>1 DEF Promise!Apply
      <3> QED BY <1>0, <3>2 DEF Promise!Next
    <2>4. CASE p.seen.deleting /\ api.exists
      <3>1. api.deleting /\ Wanted(p.seen) = NoSpec
        BY <1>2, <2>2, <2>4 DEF Truthful, Ended, Wanted
      <3>2. Promise!Clear(p.i)
        BY <2>1, <3>1 DEF Promise!Clear
      <3> QED BY <1>0, <3>2 DEF Promise!Next
    <2>5. CASE p.seen.deleting /\ ~api.exists
      <3>1. effect[p.i] = NoSpec /\ Wanted(p.seen) = NoSpec
        BY <1>0, <2>5 DEF OrphanInv, NoOrphanedEffects, Wanted
      <3>2. effect' = effect
        BY <1>0, <2>1, <3>1
      <3> QED BY <1>1, <2>1, <3>2
    <2> QED BY <2>3, <2>4, <2>5
  <1>3. CASE (Step(Controller) \/ Fails(Controller)) /\ ~SubAct(Controller)
    <2>1. effect' = effect
      BY <1>3
      DEF Step, Begin, Demote, GetObject, EnsureFinalizer,
          RemoveLegacyFinalizers, SubRead, FinishGroup, MarkUpToDate,
          Fails, FailPass
    <2>2. CASE /\ api' = Gone /\ api.deleting
               /\ \A i \in Subs : effect[i] = NoSpec
      <3>1. Promise!Release
        BY <1>00, <2>1, <2>2 DEF Promise!Release, Promise!Clean
      <3> QED BY <3>1 DEF Promise!Next
    <2>3. CASE Holds
      <3>1. CASE (api'.fin \/ api'.legacy) = held \/ api' = api
        BY <2>1, <2>3, <3>1 DEF Holds, Holding, Promise!vars
      <3>2. CASE (api'.fin \/ api'.legacy) # held /\ api' # api
        <4>1. Promise!Hold
          BY <1>0, <2>1, <2>3, <3>2
          DEF Holds, Holding, Promise!Hold, Objects
        <4> QED BY <4>1 DEF Promise!Next
      <3> QED BY <3>1, <3>2
    <2> QED BY <1>3, <2>2, <2>3, PassHolds
  <1>4. CASE Create
    <2>1. /\ api.spec = NoSpec /\ specs = 0 /\ specs' = 1
          /\ UNCHANGED effect
      BY <1>00, <1>4 DEF Create, NewSpec, SpecInv
    <2>2. api'.spec = 1 /\ ~api'.deleting /\ ~api'.fin /\ ~api'.legacy
      BY <1>4, <2>1 DEF Create, Created, Gone
    <2>3. Promise!Declare
      BY <2>1, <2>2 DEF Promise!Declare, NoSpec
    <2> QED BY <2>3 DEF Promise!Next
  <1>5. CASE Edit
    <2>1. UNCHANGED effect
      BY <1>5 DEF Edit
    <2>2. api'.spec > api.spec
      BY <1>0, <1>5, EditWrites DEF SpecInv, Objects
    <2>3. Promise!Declare
      BY <1>0, <1>5, <2>1, <2>2, EditWrites DEF Promise!Declare
    <2> QED BY <2>3 DEF Promise!Next
  <1>6. CASE Delete
    <2>1. UNCHANGED effect
      BY <1>6 DEF Delete
    <2>2. /\ api.fin \in BOOLEAN /\ api.legacy \in BOOLEAN
          /\ api.deleting \in BOOLEAN /\ Gone.deleting = FALSE
      BY <1>0 DEF Objects, Gone
    <2>3. CASE held
      BY <1>0, <1>6, <2>1, <2>2, <2>3, DeleteWrites
      DEF Promise!Withdraw, Promise!Next, Objects
    <2>4. CASE ~held
      <3>1. ~Gone.fin /\ ~Gone.legacy
        BY DEF Gone
      <3> QED
        BY <1>0, <1>00, <1>6, <2>1, <2>2, <2>4, <3>1, DeleteWrites
        DEF Promise!Withdraw, Promise!Next
    <2> QED BY <2>3, <2>4 DEF Promise!Next
  <1>7. CASE CacheSync \/ Crash \/ UNCHANGED vars
    BY <1>1, <1>7 DEF CacheSync, Crash, vars
  <1>8. CASE SubAct(Controller) /\ ~(SubSucceeds(Controller) /\ p.seen.exists)
    BY <1>1, <1>8 DEF SubAct, SubSucceeds, SubFails
  <1> QED
    BY <1>2, <1>3, <1>4, <1>5, <1>6, <1>7, <1>8 DEF Next, Environment

\* Of the finalizer protocol as a whole: with one goroutine on the object, it
\* implements HeldEffects.  Effects are held, come from specs users declared, are
\* taken back only from a withdrawn declaration, which goes only after them.
THEOREM ProtocolHoldsEffects ==
    ASSUME Workers = {Controller}, ~NamesReused
    PROVE  Spec => HoldsEffects
  <1>1. Init /\ OrphanInv => SpecInv /\ Promise!Init
    <2> SUFFICES ASSUME Init, OrphanInv
                 PROVE  SpecInv /\ Promise!Init
      OBVIOUS
    <2>1. /\ cache = api /\ pass[Controller].seen = Gone
          /\ api \in Objects /\ effect \in [Subs -> Nat] /\ NoOrphanedEffects
      BY ConstantsAssumption DEF Init, Idle, OrphanInv, HandoverInv, TypeOK
    <2>2. (~api.exists => api = Gone) /\ api.spec =< specs
      BY DEF Init, Gone, NoSpec
    <2>3. SpecInv
      BY <2>1, <2>2 DEF SpecInv, Known, Gone, Objects
    <2>4. Promise!Init
      BY <2>1 DEF Promise!Init, Promise!Clean, NoOrphanedEffects, Objects
    <2> QED BY <2>3, <2>4
  <1>2. /\ OrphanInv /\ OrphanInv' /\ DeletionInv /\ SpecInv /\ [Next]_vars
          => SpecInv' /\ [Promise!Next]_(Promise!vars)
    BY SpecKept, StepRefines
  <1> QED
    BY <1>1, <1>2, OrphanInvariant, DeletionInvariant, PTL
    DEF Spec, HoldsEffects, Promise!Spec

=============================================================================

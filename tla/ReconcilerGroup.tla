--------------------------- MODULE ReconcilerGroup ---------------------------
(***************************************************************************)
(* One ClientIntents object, the API server's copy of it, the operator's   *)
(* lagging informer copy, and the goroutines that reconcile it:            *)
(* IntentsReconciler.Reconcile (the status protocol) around                *)
(* reconcilergroup.Group.Reconcile (the finalizer protocol) around the     *)
(* group's N sub-reconcilers.                                              *)
(*                                                                         *)
(* What a sub-reconciler does to the cluster (pod labels, Kafka ACLs,      *)
(* Istio policies, cloud roles, database users...) is abstracted to one    *)
(* cell: the spec it last applied, or NoSpec when it has nothing applied.  *)
(***************************************************************************)
EXTENDS Integers

CONSTANTS
    Workers,    \* goroutines calling IntentsReconciler.Reconcile
    Controller, \* the worker fed by the ClientIntents watch; others: PodWatcher
    N,          \* number of sub-reconcilers in the group
    NamesReused,\* whether users recreate an object under a deleted one's name
    MaxSpecs,   \* bound: specs a user ever writes (creations and edits)
    MaxFaults   \* bound: failed calls, requeueing sub-reconcilers and crashes

ASSUME ConstantsAssumption ==
    /\ Controller \in Workers
    /\ N \in Nat \ {0}
    /\ NamesReused \in BOOLEAN
    /\ MaxSpecs \in Nat \ {0}
    /\ MaxFaults \in Nat

VARIABLES
    api,     \* the object as the API server stores it
    cache,   \* the informer's copy, which client.Get reads
    clock,   \* the last resourceVersion the API server handed out
    specs,   \* how many specs users have written so far
    effect,  \* effect[i]: the spec sub-reconciler i has applied in the cluster
    queued,  \* queued[w]: w's workqueue holds a request for the object
    pass,    \* pass[w]: the local state of w's running Reconcile
    faults   \* faults that have happened

vars == <<api, cache, clock, specs, effect, queued, pass, faults>>

Subs == 1 .. N

NoSpec == 0

Objects ==
    [exists   : BOOLEAN,
     rv       : Nat,       \* resourceVersion
     gen      : Nat,       \* metadata.generation
     spec     : Nat,       \* which of the users' specs it carries
     deleting : BOOLEAN,   \* deletionTimestamp is set
     fin      : BOOLEAN,   \* carries the group's finalizer
     legacy   : BOOLEAN,   \* carries a finalizer of an older operator
     upToDate : BOOLEAN,   \* status.upToDate
     obsGen   : Nat]       \* status.observedGeneration

Gone == [exists |-> FALSE, rv |-> 0, gen |-> 0, spec |-> NoSpec,
         deleting |-> FALSE, fin |-> FALSE, legacy |-> FALSE,
         upToDate |-> FALSE, obsGen |-> 0]

PCs == {"idle", "demote", "get", "ensure", "legacy", "read", "act",
        "finish", "status"}

Passes ==
    [pc      : PCs,
     first   : Objects,   \* IntentsReconciler's copy
     obj     : Objects,   \* Group's copy
     seen    : Objects,   \* the running sub-reconciler's copy
     i       : Subs,
     err     : BOOLEAN,   \* finalErr # nil
     requeue : BOOLEAN]   \* ~finalRes.IsZero()

Idle == [pc |-> "idle", first |-> Gone, obj |-> Gone, seen |-> Gone, i |-> 1,
         err |-> FALSE, requeue |-> FALSE]

TypeOK ==
    /\ api \in Objects
    /\ cache \in Objects
    /\ clock \in Nat
    /\ specs \in 0 .. MaxSpecs
    /\ effect \in [Subs -> Nat]
    /\ queued \in [Workers -> BOOLEAN]
    /\ pass \in [Workers -> Passes]
    /\ faults \in 0 .. MaxFaults

-----------------------------------------------------------------------------
(* The API server (external).                                              *)

Created(s) == [Gone EXCEPT !.exists = TRUE, !.rv = clock + 1, !.gen = 1,
                           !.spec = s]

\* A write that changes the object gives it a new resourceVersion; an object
\* being deleted goes away with its last finalizer.
Store(o) ==
    IF o.deleting /\ ~o.fin /\ ~o.legacy
    THEN api' = Gone /\ clock' = clock
    ELSE IF o = api
    THEN api' = api /\ clock' = clock
    ELSE api' = [o EXCEPT !.rv = clock + 1] /\ clock' = clock + 1

\* Update with resourceVersion o.rv is refused with Conflict or NotFound.
Raced(o) == ~api.exists \/ api.rv # o.rv

\* The API server refuses (422 Invalid) to add a finalizer to an object that is
\* being deleted.
Invalid(o) == o.deleting

-----------------------------------------------------------------------------
(* The end of a pass, and a failed call inside one.                        *)

\* Mutant: the result of the pass is dropped, the request is not retried.
EndWithoutRetry(w, retry) ==
    /\ pass' = [pass EXCEPT ![w] = Idle]
    /\ queued' = queued

End(w, retry) ==
    /\ pass' = [pass EXCEPT ![w] = Idle]
    /\ queued' = [queued EXCEPT ![w] = @ \/ retry]

Fault == faults < MaxFaults /\ faults' = faults + 1

\* w's pass moves on as p, with no effect outside the pass.
Goto(w, p) ==
    /\ pass' = [pass EXCEPT ![w] = p]
    /\ UNCHANGED <<queued, faults>>

\* Reconcile returns an error: controller-runtime retries the request.
FailPass(w) ==
    /\ Fault
    /\ End(w, TRUE)
    /\ UNCHANGED <<api, cache, clock, specs, effect>>

-----------------------------------------------------------------------------
(* IntentsReconciler.Reconcile, up to the call of the group.               *)

Begin(w) ==
    /\ pass[w].pc = "idle"
    /\ queued[w]
    /\ queued' = [queued EXCEPT ![w] = FALSE]
    /\ pass' = [pass EXCEPT ![w] =
                  IF ~cache.exists THEN Idle
                  ELSE IF cache.upToDate /\ cache.obsGen # cache.gen
                  THEN [Idle EXCEPT !.pc = "demote", !.first = cache]
                  ELSE [Idle EXCEPT !.pc = "get", !.first = cache]]
    /\ UNCHANGED <<api, cache, clock, specs, effect, faults>>

\* Mutant: the early return forgets the patch whose event starts the next pass.
DemoteWithoutPatch(w) ==
    /\ pass[w].pc = "demote"
    /\ End(w, FALSE)
    /\ UNCHANGED <<api, cache, clock, specs, effect, faults>>

\* The status patch carries no resourceVersion: it lands on whatever object
\* now has the name, and fails only when there is none.
Demote(w) ==
    /\ pass[w].pc = "demote"
    /\ IF api.exists
       THEN /\ Store([api EXCEPT !.upToDate = FALSE])
            /\ End(w, FALSE)
       ELSE /\ End(w, TRUE)
            /\ UNCHANGED <<api, clock>>
    /\ UNCHANGED <<cache, specs, effect, faults>>

-----------------------------------------------------------------------------
(* Group.Reconcile.                                                        *)

GetObject(w) ==
    /\ pass[w].pc = "get"
    /\ Goto(w, [pass[w] EXCEPT !.obj = cache,
                               !.pc = IF cache.exists THEN "ensure"
                                                      ELSE "status"])
    /\ UNCHANGED <<api, cache, clock, specs, effect>>

\* Update the object with the group's copy turned into o: a race ends the group
\* with Requeue, a success continues at next with the stored object.
GroupUpdate(w, o, next) ==
    IF Raced(o)
    THEN /\ Goto(w, [pass[w] EXCEPT !.pc = "status", !.requeue = TRUE])
         /\ UNCHANGED <<api, clock>>
    ELSE /\ Store(o)
         /\ Goto(w, [pass[w] EXCEPT !.pc = next, !.obj = api'])

\* Mutant: a legacy finalizer is taken for the group's own.
EnsureAnyFinalizer(w) ==
    /\ pass[w].pc = "ensure"
    /\ LET o == pass[w].obj IN
       \/ /\ o.fin \/ o.legacy
          /\ Goto(w, [pass[w] EXCEPT !.pc = "legacy"])
          /\ UNCHANGED <<api, clock>>
       \/ /\ ~o.fin /\ ~o.legacy
          /\ GroupUpdate(w, [o EXCEPT !.fin = TRUE], "legacy")
    /\ UNCHANGED <<cache, specs, effect>>

EnsureFinalizer(w) ==
    /\ pass[w].pc = "ensure"
    /\ LET o == pass[w].obj IN
       \/ /\ o.fin
          /\ Goto(w, [pass[w] EXCEPT !.pc = "legacy"])
          /\ UNCHANGED <<api, clock>>
       \/ /\ ~o.fin
          /\ Raced(o) \/ ~Invalid(o)
          /\ GroupUpdate(w, [o EXCEPT !.fin = TRUE], "legacy")
       \/ /\ ~o.fin
          /\ ~Raced(o) /\ Invalid(o)
          /\ End(w, TRUE)
          /\ UNCHANGED <<api, clock, faults>>
    /\ UNCHANGED <<cache, specs, effect>>

RemoveLegacyFinalizers(w) ==
    /\ pass[w].pc = "legacy"
    /\ LET o == pass[w].obj IN
       IF o.legacy
       THEN GroupUpdate(w, [o EXCEPT !.legacy = FALSE], "read")
       ELSE /\ Goto(w, [pass[w] EXCEPT !.pc = "read"])
            /\ UNCHANGED <<api, clock>>
    /\ UNCHANGED <<cache, specs, effect>>

-----------------------------------------------------------------------------
(* runGroup: every sub-reconciler in order, whatever the earlier ones      *)
(* returned.  Each reads the object again, then acts on what it read.      *)

SubRead(w) ==
    /\ pass[w].pc = "read"
    /\ Goto(w, [pass[w] EXCEPT !.pc = "act", !.seen = cache])
    /\ UNCHANGED <<api, cache, clock, specs, effect>>

Wanted(o) == IF o.deleting THEN NoSpec ELSE o.spec

\* Mutant: the loop over the sub-reconcilers runs one too far.
NextSubOffByOne(p) ==
    [p EXCEPT !.pc = IF p.i <= N THEN "read" ELSE "finish",
              !.i = IF p.i <= N THEN p.i + 1 ELSE 1,
              !.seen = Gone]

\* The pass after sub-reconciler i returned: on to the next one, if any.
NextSub(p) ==
    [p EXCEPT !.pc = IF p.i < N THEN "read" ELSE "finish",
              !.i = IF p.i < N THEN p.i + 1 ELSE 1,
              !.seen = Gone]

SubSucceeds(w) ==
    /\ effect' = IF pass[w].seen.exists
                 THEN [effect EXCEPT ![pass[w].i] = Wanted(pass[w].seen)]
                 ELSE effect
    /\ pass' = [pass EXCEPT ![w] = NextSub(@)]
    /\ faults' = faults

\* Mutant: it deletes before it re-creates, and fails in between.
SubFailsHalfway(w) ==
    /\ pass[w].seen.exists
    /\ Fault
    /\ pass' = [pass EXCEPT ![w] = [NextSub(@) EXCEPT !.err = TRUE]]
    /\ effect' = [effect EXCEPT ![pass[w].i] = NoSpec]

\* It fails, or returns Requeue on a conflict of its own, and leaves what it
\* manages as it was.
SubFails(w) ==
    /\ pass[w].seen.exists
    /\ Fault
    /\ \/ pass' = [pass EXCEPT ![w] = [NextSub(@) EXCEPT !.err = TRUE]]
       \/ pass' = [pass EXCEPT ![w] = [NextSub(@) EXCEPT !.requeue = TRUE]]
    /\ effect' = effect

SubAct(w) ==
    /\ pass[w].pc = "act"
    /\ SubSucceeds(w) \/ SubFails(w)
    /\ UNCHANGED <<api, cache, clock, specs, queued>>

\* Mutant: the finalizer goes although a sub-reconciler asked to be called again.
FinishDespiteRequeue(w) ==
    /\ pass[w].pc = "finish"
    /\ LET p == pass[w] IN
       \/ /\ p.obj.deleting /\ ~p.err
          /\ GroupUpdate(w, [p.obj EXCEPT !.fin = FALSE], "status")
       \/ /\ p.err
          /\ End(w, TRUE)
          /\ UNCHANGED <<api, clock, faults>>
       \/ /\ ~p.err /\ ~p.obj.deleting
          /\ Goto(w, [p EXCEPT !.pc = "status"])
          /\ UNCHANGED <<api, clock>>
    /\ UNCHANGED <<cache, specs, effect>>

\* The group's finalizer goes only when this pass saw the object being deleted
\* and no sub-reconciler failed or asked to be called again.
FinishGroup(w) ==
    /\ pass[w].pc = "finish"
    /\ LET p == pass[w] IN
       \/ /\ p.obj.deleting /\ ~p.err /\ ~p.requeue
          /\ GroupUpdate(w, [p.obj EXCEPT !.fin = FALSE], "status")
       \/ /\ p.err
          /\ End(w, TRUE)
          /\ UNCHANGED <<api, clock, faults>>
       \/ /\ ~p.err /\ (~p.obj.deleting \/ p.requeue)
          /\ Goto(w, [p EXCEPT !.pc = "status"])
          /\ UNCHANGED <<api, clock>>
    /\ UNCHANGED <<cache, specs, effect>>

-----------------------------------------------------------------------------
(* IntentsReconciler.Reconcile, after the group returned without an error. *)

\* The merge patch holds the fields that differ from the copy it started from.
Marked(first) ==
    [api EXCEPT !.upToDate = @ \/ ~first.upToDate,
                !.obsGen = IF first.obsGen = first.gen THEN @ ELSE first.gen]

MarkUpToDate(w) ==
    /\ pass[w].pc = "status"
    /\ LET first == pass[w].first IN
       \/ /\ first.deleting
          /\ End(w, pass[w].requeue)
          /\ UNCHANGED <<api, clock>>
       \/ /\ ~first.deleting /\ api.exists
          /\ Store(Marked(first))
          /\ End(w, pass[w].requeue)
       \/ /\ ~first.deleting /\ ~api.exists
          /\ End(w, TRUE)
          /\ UNCHANGED <<api, clock>>
    /\ UNCHANGED <<cache, specs, effect, faults>>

-----------------------------------------------------------------------------
(* The users, the informer, PodWatcher's pod events, and the process.      *)

NewSpec == specs < MaxSpecs /\ specs' = specs + 1

Create ==
    /\ ~api.exists
    /\ specs = 0 \/ NamesReused
    /\ NewSpec
    /\ api' = Created(specs')
    /\ clock' = clock + 1
    /\ UNCHANGED <<cache, effect, queued, pass, faults>>

Edit ==
    /\ api.exists
    /\ NewSpec
    /\ Store([api EXCEPT !.spec = specs', !.gen = @ + 1])
    /\ UNCHANGED <<cache, effect, queued, pass, faults>>

Delete ==
    /\ api.exists
    /\ ~api.deleting
    /\ Store([api EXCEPT !.deleting = TRUE, !.gen = @ + 1])
    /\ UNCHANGED <<cache, specs, effect, queued, pass, faults>>

\* The informer catches up; the watch enqueues a request for the controller.
CacheSync ==
    /\ cache # api
    /\ cache' = api
    /\ queued' = [queued EXCEPT ![Controller] = TRUE]
    /\ UNCHANGED <<api, clock, specs, effect, pass, faults>>

\* A pod of the client changed and PodWatcher reconciles its ClientIntents.
PodEvent(w) ==
    /\ ~queued[w]
    /\ queued' = [queued EXCEPT ![w] = TRUE]
    /\ UNCHANGED <<api, cache, clock, specs, effect, pass, faults>>

\* The operator dies and starts again: informers relist, every object is queued.
Crash ==
    /\ Fault
    /\ cache' = api
    /\ queued' = [w \in Workers |-> TRUE]
    /\ pass' = [w \in Workers |-> Idle]
    /\ UNCHANGED <<api, clock, specs, effect>>

-----------------------------------------------------------------------------
\* The operator starts on a cluster where the object does not exist, or was
\* left by an earlier operator: under its finalizer or a legacy one, applied.
Init ==
    /\ clock = 1
    /\ \/ /\ api = Gone
          /\ specs = 0
          /\ effect = [i \in Subs |-> NoSpec]
       \/ /\ \E d, f, l, u \in BOOLEAN :
               api = [exists |-> TRUE, rv |-> 1, gen |-> 1, spec |-> 1,
                      deleting |-> d, fin |-> f, legacy |-> l,
                      upToDate |-> u, obsGen |-> IF u THEN 1 ELSE 0]
          /\ api.fin \/ api.legacy
          /\ specs = 1
          /\ effect = [i \in Subs |-> 1]
    /\ cache = api
    /\ queued = [w \in Workers |-> api.exists]
    /\ pass = [w \in Workers |-> Idle]
    /\ faults = 0

Step(w) ==
    \/ Begin(w) \/ Demote(w) \/ GetObject(w) \/ EnsureFinalizer(w)
    \/ RemoveLegacyFinalizers(w) \/ SubRead(w) \/ SubAct(w) \/ FinishGroup(w)
    \/ MarkUpToDate(w)

\* The next step of the pass calls the API server (or reads for the group).
Calls(p) ==
    \/ p.pc \in {"demote", "get"}
    \/ p.pc = "ensure" /\ ~p.obj.fin
    \/ p.pc = "legacy" /\ p.obj.legacy
    \/ p.pc = "finish" /\ p.obj.deleting /\ ~p.err /\ ~p.requeue
    \/ p.pc = "status" /\ ~p.first.deleting

Fails(w) == Calls(pass[w]) /\ FailPass(w)

Environment ==
    \/ Create \/ Edit \/ Delete \/ CacheSync \/ Crash
    \/ \E w \in Workers \ {Controller} : PodEvent(w)

Next == Environment \/ \E w \in Workers : Step(w) \/ Fails(w)

Spec == Init /\ [][Next]_vars

\* The workers keep running and watch events keep arriving.  Users and faults
\* are never forced.
FairSpec ==
    /\ Spec
    /\ WF_vars(CacheSync)
    /\ \A w \in Workers : WF_vars(Step(w))

-----------------------------------------------------------------------------
(* Properties.                                                             *)

\* What a sub-reconciler applied is never left behind: as long as something is
\* applied the object exists and one of the operator's finalizers holds it
\* (ensureFinalizer before runGroup, removeFinalizer after a clean pass).
NoOrphanedEffects ==
    \A i \in Subs : effect[i] # NoSpec => api.fin \/ api.legacy

\* What is applied for a live object is never taken down, however stale the copy
\* a sub-reconciler acts on.
CleanedOnlyWhenDeleting ==
    [][\A i \in Subs : effect[i] # NoSpec /\ effect'[i] = NoSpec
                          => ~api.exists \/ api.deleting]_vars

\* A legacy finalizer is dropped only from an object that already carries the
\* group's own: an upgrade leaves no window in which a deletion is not held.
LegacyHandedOver == [][api.legacy /\ ~api'.legacy => api'.fin]_vars

\* Nothing is running, queued or still to be delivered by the watch.
AtRest ==
    /\ cache = api
    /\ \A w \in Workers : pass[w] = Idle /\ ~queued[w]

\* Once the operator has nothing left to do, what is applied is what is declared:
\* the current spec of a live object, nothing for a deleted one.
AtRestMatchesDeclaration ==
    AtRest => \A i \in Subs :
                 effect[i] = IF api.exists THEN Wanted(api) ELSE NoSpec

\* When users and faults stop, a live object ends up applied by every
\* sub-reconciler and reported so, and one that is deleted is let go.
Settled ==
    /\ api.upToDate
    /\ api.obsGen = api.gen
    /\ \A i \in Subs : effect[i] = api.spec

Converges == <>[](api.exists => IF api.deleting THEN ~api.fin ELSE Settled)

\* The object as its declaration, the finalizers as what holds it: with one
\* goroutine on the object the whole protocol (lagging copies, failed calls,
\* crashes, users' writes in between) does nothing HeldEffects does not allow.
Promise == INSTANCE HeldEffects
    WITH Effects <- Subs,
         declared <- api.spec,
         withdrawn <- api.deleting,
         held <- api.fin \/ api.legacy

HoldsEffects == Promise!Spec

=============================================================================

----------------------------- MODULE HeldEffects -----------------------------
(***************************************************************************)
(* What the finalizer protocol promises, whatever the operator's caches,   *)
(* retries and restarts do: a declaration that has an effect anywhere in   *)
(* the cluster is held, effects follow declarations users made, they are   *)
(* taken back only once the declaration is withdrawn, and the declaration  *)
(* goes away only after the last of them.                                  *)
(***************************************************************************)
EXTENDS Integers

CONSTANTS Effects,  \* the places a declaration takes effect in
          NoSpec    \* no effect

VARIABLES
    declared,   \* the spec users last declared, NoSpec when there is none
    withdrawn,  \* the declaration is being withdrawn
    held,       \* the operator holds it: it cannot go away yet
    effect      \* effect[i]: the spec in effect at i

vars == <<declared, withdrawn, held, effect>>

Clean == \A i \in Effects : effect[i] = NoSpec

Init ==
    /\ declared \in Nat
    /\ withdrawn \in BOOLEAN
    /\ held \in BOOLEAN
    /\ effect \in [Effects -> Nat]
    /\ ~Clean => held

\* Users declare a new spec, or change one.
Declare ==
    /\ declared' > declared
    /\ IF declared = NoSpec THEN ~withdrawn' /\ ~held'
                            ELSE UNCHANGED <<withdrawn, held>>
    /\ UNCHANGED effect

\* Users withdraw the declaration; if it is not held it goes away at once.
Withdraw ==
    /\ declared # NoSpec /\ ~withdrawn
    /\ IF held THEN withdrawn' = TRUE /\ UNCHANGED <<declared, held>>
               ELSE declared' = NoSpec /\ UNCHANGED <<withdrawn, held>>
    /\ UNCHANGED effect

Hold ==
    /\ declared # NoSpec /\ ~withdrawn /\ ~held
    /\ held' = TRUE
    /\ UNCHANGED <<declared, withdrawn, effect>>

\* A spec takes effect, possibly one that is no longer the current one.
Apply(i) ==
    /\ held
    /\ effect' \in {[effect EXCEPT ![i] = s] : s \in 1 .. declared}
    /\ UNCHANGED <<declared, withdrawn, held>>

Clear(i) ==
    /\ withdrawn
    /\ effect' = [effect EXCEPT ![i] = NoSpec]
    /\ UNCHANGED <<declared, withdrawn, held>>

\* The declaration goes away, nothing of it left behind.
Release ==
    /\ withdrawn /\ Clean
    /\ declared' = NoSpec /\ ~withdrawn' /\ ~held'
    /\ UNCHANGED effect

Next ==
    \/ Declare \/ Withdraw \/ Hold \/ Release
    \/ \E i \in Effects : Apply(i) \/ Clear(i)

Spec == Init /\ [][Next]_vars

=============================================================================

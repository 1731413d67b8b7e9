------------------------------ MODULE Admission ------------------------------
(***************************************************************************)
(* ClientIntents on their way through the API server: written in any       *)
(* served version, validated by that version's webhook against the list in *)
(* the webhook server's cache, converted to the stored version, and then   *)
(* updated by the operator, which puts and removes its finalizer through   *)
(* the webhook of v2alpha1 like anyone else.                               *)
(*                                                                         *)
(* The API server is external: between admission and storing others may    *)
(* store, an update of an outdated copy is a conflict, an object that is   *)
(* being deleted goes with its last finalizer.  A resource has one target: *)
(* the code treats the targets of a list one by one.                       *)
(***************************************************************************)
EXTENDS ApiVersions, Naturals

CONSTANTS
    Resources,        \* names of ClientIntents, all in the namespace
    Here,
    Clients,          \* workloads they are about, among them
    DottedClients,    \* with a dot in the name and
    LowercaseClients, \* with a kind in lower case
    Users,
    Served,           \* the versions users write
    WrittenCalls,     \* what they write in v1
    WrittenTargets,   \* and in v2
    StrictMode,
    MaxWrites         \* bounds what the users do

ConstantsAssumption ==
    /\ WrittenCalls \subseteq Calls /\ WrittenTargets \subseteq Targets
    /\ Served \subseteq V1 \cup V2
    /\ Here \in Namespaces \cup {Default}

None == [none |-> TRUE]
NoClient == "none"

VARIABLES
    stored,  \* [Resources -> object or None], as v2alpha1
    meant,   \* what its writer meant by the target of each; a history
    request, \* a user's or, for a resource, the operator's, admitted and to be stored
    listed,  \* [Versions -> [Resources -> client or NoClient]]: the caches
    writes

vars == <<stored, meant, request, listed, writes>>

Versions == Served \cup {"v2alpha1"}
Actors == Users \cup Resources

\* Where the versions cannot say the same, the meaning is not followed.
Anything == [any |-> TRUE]

\* Azure actions are nothing to v1alpha3; "svc:" says Service only of a
\* workload; of other things v1 has a kind and v2 has not.
Expressible(v, s) ==
    IF v \in V1
    THEN /\ ToHub(v, Here, s) # NoTarget
         /\ s.type \notin {"", "http"} => s.kind = "" /\ ~s.name.svc
         /\ s.name.svc => s.kind \in {"", "Service"}
         /\ v = "v1alpha3" => {"actions", "dataActions"} \cap s.parts = {}
    ELSE s # NoTarget /\ ~s.name.svc

\* The same of a target that goes back to a client of v1 and returns.
Returns(v, t) == v \in V1 => Expressible(v, FromHub(v, Here, t)) /\
    (v = "v1alpha3" => {"actions", "dataActions"} \cap t.parts = {})

Specs(v) == IF v \in V1 THEN WrittenCalls ELSE WrittenTargets

Init ==
    /\ stored = [n \in Resources |-> None]
    /\ meant = [n \in Resources |-> Anything]
    /\ request = [a \in Actors |-> None]
    /\ listed = [v \in Versions |-> [n \in Resources |-> NoClient]]
    /\ writes = 0

-----------------------------------------------------------------------------
(* The validators.                                                         *)

\* A bug it could have: the object being updated is a duplicate of itself.
validateNoClients(r) == \A n \in Resources : listed[r.version][n] # r.client

\* Deny admission if intents already exist for this client, and it's not the
\* same object being updated.
validateNoDuplicateClients(r) ==
    \A n \in Resources \ {r.name} : listed[r.version][n] # r.client

validateSpecV2(client, target) ==
    /\ client \notin LowercaseClients /\ client \notin DottedClients
    /\ validateIntentTarget(target)

validateSpecV1(client, call) ==
    client \notin LowercaseClients /\ validateCall(call)

ValidateV2beta1(r) ==
    /\ StrictMode => enforceIntentsAbideStrictMode(r.spec)
    /\ validateNoDuplicateClients(r)
    /\ validateSpecV2(r.client, r.spec)

ValidateV2alpha1(r) ==
    /\ StrictMode => enforceIntentsAbideStrictMode(r.spec)
    /\ validateNoDuplicateClients(r)
    /\ validateSpecV2(r.client, r.spec)

ValidateV1beta1(r) ==
    validateNoDuplicateClients(r) /\ validateSpecV1(r.client, r.spec)

ValidateV1alpha3(r) ==
    validateNoDuplicateClients(r) /\ validateSpecV1(r.client, r.spec)

Admits(r) ==
    CASE r.version = "v2beta1" -> ValidateV2beta1(r)
      [] r.version = "v2alpha1" -> ValidateV2alpha1(r)
      [] r.version = "v1beta1" -> ValidateV1beta1(r)
      [] r.version = "v1alpha3" -> ValidateV1alpha3(r)

-----------------------------------------------------------------------------
(* Users.                                                                  *)

\* A request is read for, sent and validated in one step: what happens to the
\* object between the first and the last makes it a conflict in the end all
\* the same.  One that is not admitted changes nothing.
Send(a, r) ==
    request[a] = None /\ Admits(r) /\ request' = [request EXCEPT ![a] = r]

Create(u, n, v, c, s) ==
    /\ writes < MaxWrites /\ writes' = writes + 1
    /\ stored[n] = None
    /\ Send(u, [name |-> n, version |-> v, client |-> c, spec |-> s,
                new |-> TRUE, finalizer |-> FALSE, current |-> TRUE,
                means |-> IF Expressible(v, s) THEN MeaningIn(v, Here, s)
                          ELSE Anything])
    /\ UNCHANGED <<stored, meant, listed>>

\* An edit through one version of what was written through another: the
\* target is replaced, or goes back as it was read.
Edit(u, n, v, c, s) ==
    /\ writes < MaxWrites /\ writes' = writes + 1
    /\ stored[n] # None /\ Convertible(v, stored[n].target)
    /\ LET read == FromHub(v, Here, stored[n].target) IN
       /\ s \in Specs(v) \cup {read}
       /\ Send(u, [name |-> n, version |-> v, client |-> c, spec |-> s,
                   new |-> FALSE, finalizer |-> stored[n].finalizer,
                   current |-> TRUE,
                   means |-> IF s = read /\ Returns(v, stored[n].target) THEN meant[n]
                             ELSE IF Expressible(v, s) THEN MeaningIn(v, Here, s)
                             ELSE Anything])
    /\ UNCHANGED <<stored, meant, listed>>

\* Others' copies of n are outdated with it.
Outdated(n) ==
    [a \in Actors |->
        IF request[a] # None /\ request[a].name = n
        THEN [request[a] EXCEPT !.current = FALSE] ELSE request[a]]

Delete(n) ==
    /\ writes < MaxWrites /\ writes' = writes + 1
    /\ stored[n] # None /\ ~stored[n].deleting
    /\ stored' = [stored EXCEPT ![n] =
            IF @.finalizer THEN [@ EXCEPT !.deleting = TRUE] ELSE None]
    /\ meant' = IF stored[n].finalizer THEN meant
                ELSE [meant EXCEPT ![n] = Anything]
    /\ request' = Outdated(n)
    /\ UNCHANGED listed

-----------------------------------------------------------------------------
(* The operator, whose group puts the finalizer on and takes it off.       *)

SetFinalizer(n) ==
    /\ stored[n] # None /\ stored[n].finalizer = stored[n].deleting
    /\ Send(n, [name |-> n, version |-> "v2alpha1", client |-> stored[n].client,
                spec |-> stored[n].target, new |-> FALSE,
                finalizer |-> ~stored[n].finalizer, current |-> TRUE,
                means |-> meant[n]])
    /\ UNCHANGED <<stored, meant, listed, writes>>

-----------------------------------------------------------------------------
(* The API server and the webhook server.                                  *)

Conflicts(r) ==
    IF r.new THEN stored[r.name] # None
    ELSE stored[r.name] = None \/ ~r.current

Object(r) ==
    [client |-> r.client, target |-> ToHub(r.version, Here, r.spec),
     finalizer |-> r.finalizer,
     deleting |-> ~r.new /\ stored[r.name].deleting]

Store(a) ==
    /\ request[a] # None
    /\ LET r == request[a]
           n == r.name IN
       IF Conflicts(r)
       THEN /\ request' = [request EXCEPT ![a] = None]
            /\ UNCHANGED <<stored, meant>>
       ELSE LET gone == Object(r).deleting /\ ~r.finalizer IN
            /\ request' = [Outdated(n) EXCEPT ![a] = None]
            /\ stored' = [stored EXCEPT ![n] = IF gone THEN None ELSE Object(r)]
            /\ meant' = [meant EXCEPT ![n] = IF gone THEN Anything ELSE r.means]
    /\ UNCHANGED <<listed, writes>>

StoredClients ==
    [n \in Resources |-> IF stored[n] = None THEN NoClient ELSE stored[n].client]

\* A list of a version that one object cannot be converted to fails.
Sync(v) ==
    /\ \A n \in Resources :
            stored[n] # None => Convertible(v, stored[n].target)
    /\ listed[v] # StoredClients
    /\ listed' = [listed EXCEPT ![v] = StoredClients]
    /\ UNCHANGED <<stored, meant, request, writes>>

-----------------------------------------------------------------------------
Next ==
    \/ \E n \in Resources :
        \/ \E u \in Users, v \in Served, c \in Clients :
              \/ \E s \in Specs(v) : Create(u, n, v, c, s)
              \/ /\ stored[n] # None /\ Convertible(v, stored[n].target)
                 /\ \E s \in Specs(v) \cup {FromHub(v, Here, stored[n].target)} :
                        Edit(u, n, v, c, s)
        \/ Delete(n)
        \/ SetFinalizer(n)
    \/ \E a \in Actors : Store(a)
    \/ \E v \in Versions : Sync(v)

\* Requests are answered, caches are kept and the operator tries again.
Fairness ==
    /\ \A n \in Resources : WF_vars(SetFinalizer(n))
    /\ \A a \in Actors : WF_vars(Store(a))
    /\ \A v \in Versions : WF_vars(Sync(v))

Spec == Init /\ [][Next]_vars /\ Fairness

-----------------------------------------------------------------------------
(* Properties.                                                             *)

\* What was written through any version is stored with the meaning it had
\* there, and keeps it when a client of another version reads it and writes
\* it back: a name is still of the same workload or Service, in the same
\* namespace, for the same thing.
DeclaredMeaningKept ==
    \A n \in Resources :
        stored[n] # None /\ meant[n] # Anything =>
            Meaning(stored[n].target, Here) = meant[n]

\* The webhook of v2alpha1 would not have the stored object as it is.
Blocked(n) ==
    LET o == stored[n] IN
    \/ ~validateSpecV2(o.client, o.target)
    \/ StrictMode /\ ~enforceIntentsAbideStrictMode(o.target)
    \/ \E m \in Resources \ {n} : stored[m] # None /\ stored[m].client = o.client

GetsThrough(n) ==
    stored[n] # None => Blocked(n) \/ (stored[n].finalizer /\ ~stored[n].deleting)

\* The operator's own updates pass the webhook: once the users leave it alone
\* a ClientIntents has its finalizer, or is gone if it was deleted, unless it
\* is one the webhook of v2alpha1 refuses for itself or for another object.
\* A cache behind, an outdated copy or the object's own entry in the list do
\* not hold it up for ever.
OperatorGetsThrough == <>[](\A n \in Resources : GetsThrough(n))

\* The code's own assertion, "target server name not found" (a panic): every
\* target that is stored has a field that names it.
StoredTargetsNamed ==
    \A n \in Resources : stored[n] # None => stored[n].target.field # "none"

=============================================================================

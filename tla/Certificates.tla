----------------------------- MODULE Certificates -----------------------------
(***************************************************************************)
(* The certificate of the webhook server: read from its Secret or made     *)
(* anew and kept there, given to the CRDs as the server starts, and put    *)
(* back by two controllers into the CRDs and webhook configurations        *)
(* whenever someone changes these.  A server may crash at any step, and a  *)
(* rollout has the old server and the new one next to each other.          *)
(***************************************************************************)
EXTENDS Naturals, FiniteSets

CONSTANTS
    Servers,       \* pods of the webhook server, one of them from the start
    First,
    CRDs,          \* with a conversion webhook each
    Configs,       \* webhook configurations, with several webhooks
    Unusable,      \* what else the Secret may hold: nothing yet, ...
    MaxMade,       \* bounds the certificates made,
    MaxFaults,     \* errors and crashes,
    MaxChanges     \* and what others do to the bundles

NoCert == 0
Certs == 1..MaxMade
Bundled == CRDs \cup Configs

VARIABLES
    secret,    \* a certificate of Certs, or one of Unusable
    made,      \* how many there have been
    server,    \* [Servers -> [at, cert, crds, current]]
    bundles,   \* [Bundled -> SUBSET (Certs \cup {NoCert})]: the CAs it trusts
    seen,      \* [Servers -> [Bundled -> ...]]: the cache
    behind,    \* [Servers -> SUBSET Bundled]: what the cache is behind with
    queue,     \* [Servers -> SUBSET Bundled]
    old,       \* the server that a rollout replaces
    faults, changes

vars == <<secret, made, server, bundles, seen, behind, queue, old, faults, changes>>

Off == [at |-> "off", cert |-> NoCert, crds |-> {}, current |-> TRUE]

Init ==
    /\ secret \in Unusable
    /\ made = 0
    /\ server = [s \in Servers |-> IF s = First THEN [Off EXCEPT !.at = "read"] ELSE Off]
    /\ bundles = [o \in Bundled |-> {NoCert}]
    /\ seen = [s \in Servers |-> bundles]
    /\ behind = [s \in Servers |-> {}]
    /\ queue = [s \in Servers |-> {}]
    /\ old = {}
    /\ faults = 0 /\ changes = 0

\* A write to o is news to every cache, its writer's too.
Write(o, cas) ==
    /\ bundles' = [bundles EXCEPT ![o] = cas]
    /\ behind' = [s \in Servers |-> behind[s] \cup {o}]

Fault == faults < MaxFaults /\ faults' = faults + 1

-----------------------------------------------------------------------------
(* A server starts.                                                        *)

\* A placeholder, a certificate that has expired or does not parse, and an
\* error of the read are all answered with a new certificate.
ReadCertBundleFromSecret(s) ==
    /\ server[s].at = "read"
    /\ \/ /\ secret \in Certs
          /\ server' = [server EXCEPT ![s] =
                [@ EXCEPT !.at = "ensure", !.cert = secret, !.crds = CRDs]]
          /\ UNCHANGED faults
       \/ /\ \/ secret \notin Certs /\ UNCHANGED faults
             \/ secret \in Certs /\ Fault
          /\ server' = [server EXCEPT ![s].at = "generate"]
    /\ UNCHANGED <<secret, made, bundles, seen, behind, queue, old, changes>>

\* The Secret is read again to be updated.
GenerateSelfSignedCertificate(s) ==
    /\ server[s].at = "generate"
    /\ made < MaxMade /\ made' = made + 1
    /\ server' = [server EXCEPT ![s] =
            [@ EXCEPT !.at = "persist", !.cert = made', !.current = TRUE]]
    /\ UNCHANGED <<secret, bundles, seen, behind, queue, old, faults, changes>>

\* A conflict is a panic, and a new start.
PersistCertBundleToSecret(s) ==
    /\ server[s].at = "persist"
    /\ IF server[s].current
       THEN /\ secret' = server[s].cert
            /\ server' = [t \in Servers |->
                IF t = s THEN [server[s] EXCEPT !.at = "ensure", !.crds = CRDs]
                ELSE [server[t] EXCEPT !.current = FALSE]]
       ELSE /\ server' = [server EXCEPT ![s] = [Off EXCEPT !.at = "read"]]
            /\ UNCHANGED secret
    /\ UNCHANGED <<made, bundles, seen, behind, queue, old, faults, changes>>

\* Written over whatever is there; no lock, and one CRD after another.
ensureCRD(s, o) ==
    /\ server[s].at = "ensure" /\ o \in server[s].crds
    /\ Write(o, {server[s].cert})
    /\ server' = [server EXCEPT ![s].crds = @ \ {o}]
    /\ UNCHANGED <<secret, made, seen, queue, old, faults, changes>>

\* The controllers start with everything in their caches and queues.
Serve(s) ==
    /\ server[s].at = "ensure" /\ server[s].crds = {}
    /\ server' = [server EXCEPT ![s].at = "serve"]
    /\ seen' = [seen EXCEPT ![s] = bundles]
    /\ behind' = [behind EXCEPT ![s] = {}]
    /\ queue' = [queue EXCEPT ![s] = Bundled]
    /\ UNCHANGED <<secret, made, bundles, old, faults, changes>>

-----------------------------------------------------------------------------
(* The controllers.                                                        *)

\* A bug they could have: one webhook with the certificate will do.
SomeMatch(cas, cert) == cert \in cas

EveryMatch(cas, cert) == cas = {cert}

\* A conflict asks to be called again.
ReconcileBundle(s, o) ==
    /\ server[s].at = "serve" /\ o \in queue[s]
    /\ IF EveryMatch(seen[s][o], server[s].cert)
       THEN queue' = [queue EXCEPT ![s] = @ \ {o}] /\ UNCHANGED <<bundles, behind>>
       ELSE IF o \in behind[s] THEN UNCHANGED <<queue, bundles, behind>>
       ELSE /\ queue' = [queue EXCEPT ![s] = @ \ {o}]
            /\ Write(o, {server[s].cert})
    /\ UNCHANGED <<secret, made, server, seen, old, faults, changes>>

ReconcileCRD(s, o) == o \in CRDs /\ ReconcileBundle(s, o)
ReconcileConfig(s, o) == o \in Configs /\ ReconcileBundle(s, o)

Sync(s, o) ==
    /\ server[s].at = "serve" /\ o \in behind[s]
    /\ seen' = [seen EXCEPT ![s][o] = bundles[o]]
    /\ behind' = [behind EXCEPT ![s] = @ \ {o}]
    /\ queue' = [queue EXCEPT ![s] = @ \cup {o}]
    /\ UNCHANGED <<secret, made, server, bundles, old, faults, changes>>

-----------------------------------------------------------------------------
(* What happens to them.                                                   *)

Crash(s) ==
    /\ server[s].at # "off"
    /\ Fault
    /\ server' = [server EXCEPT ![s] = [Off EXCEPT !.at = "read"]]
    /\ UNCHANGED <<secret, made, bundles, seen, behind, queue, old, changes>>

\* A chart is applied: a webhook is new, or none has its certificate any more.
ChangeBundle(o) ==
    /\ changes < MaxChanges /\ changes' = changes + 1
    /\ Write(o, IF o \in CRDs THEN {NoCert} ELSE bundles[o] \cup {NoCert})
    /\ UNCHANGED <<secret, made, server, seen, queue, old, faults>>

RollOut(s, t) ==
    /\ changes < MaxChanges /\ changes' = changes + 1
    /\ old = {} /\ server[s].at = "serve" /\ server[t].at = "off"
    /\ old' = {s}
    /\ server' = [server EXCEPT ![t].at = "read"]
    /\ UNCHANGED <<secret, made, bundles, seen, behind, queue, faults>>

\* The old pod goes once the new one serves.
Stop(s) ==
    /\ s \in old /\ \E t \in Servers \ {s} : server[t].at = "serve"
    /\ old' = {}
    /\ server' = [server EXCEPT ![s] = Off]
    /\ UNCHANGED <<secret, made, bundles, seen, behind, queue, faults, changes>>

-----------------------------------------------------------------------------
Step(s) ==
    \/ ReadCertBundleFromSecret(s) \/ GenerateSelfSignedCertificate(s)
    \/ PersistCertBundleToSecret(s) \/ Serve(s) \/ Stop(s)
    \/ \E o \in CRDs : ensureCRD(s, o)

Next ==
    \/ \E s \in Servers :
        \/ Step(s) \/ Crash(s)
        \/ \E o \in Bundled : ReconcileCRD(s, o) \/ ReconcileConfig(s, o) \/ Sync(s, o)
        \/ \E t \in Servers : RollOut(s, t)
    \/ \E o \in Bundled : ChangeBundle(o)

\* A pod is started again, a queue is worked off, a watch delivers.
Fairness ==
    \A s \in Servers :
        /\ WF_vars(Step(s))
        /\ \A o \in Bundled :
            WF_vars(ReconcileCRD(s, o)) /\ WF_vars(ReconcileConfig(s, o)) /\ WF_vars(Sync(s, o))

Spec == Init /\ [][Next]_vars /\ Fairness

-----------------------------------------------------------------------------
Trusted ==
    \E s \in Servers :
        /\ server[s].at = "serve"
        /\ \A t \in Servers \ {s} : server[t].at = "off"
        /\ \A o \in Bundled : bundles[o] = {server[s].cert}

\* In the end the API server trusts the webhook server: every CRD and every
\* webhook has the certificate of the server that runs, whatever crashed, was
\* rolled out or was applied in between and whichever reads failed.  (It need
\* not be the one in the Secret: a server that is replaced may have crashed and
\* replaced that before it went.)
ServerTrusted == <>[]Trusted

=============================================================================

----------------------------- MODULE MCServices -----------------------------
(* What stands around the reconcilers, next to each other: a behaviour is one  *)
(* of the admission of ClientIntents (twice: what becomes of their targets, and *)
(* who may have one), of database configs, the webhook server's certificate,   *)
(* the reports to the cloud and the batchers of telemetry.                      *)
EXTENDS Naturals, Sequences, FiniteSets

CONSTANTS
    Strings, Namespaces, Resources, Here, Clients, DottedClients, LowercaseClients, Users,
    Served, WrittenCalls, WrittenTargets, StrictMode, MaxWrites,    \* Admission
    Names, MaxConfigs,                  \* DatabaseConfigs, with Namespaces
    Keys, Buffer, MaxBatch, MaxItems    \* Telemetry

VARIABLES part, changes, faults, writes, listed, told,
    stored, meant, request,                              \* Admission
    configs, admitted, raced,                            \* DatabaseConfigs
    secret, made, server, bundles, seen, behind, queue, old,           \* Certificates
    intents, intentsSeen, events, eventCache, statusCache, pass, istio, uids,  \* CloudReports
    items, batch, at, counters, accepted, produced       \* Telemetry

limitVars == <<changes, faults>>
writeVars == <<writes, listed>>
intentsOnly == <<stored, meant, request>>
configsOnly == <<configs, admitted, raced>>
certOnly == <<secret, made, server, bundles, seen, behind, queue, old>>
cloudOnly == <<intents, intentsSeen, events, eventCache, statusCache, pass, istio, uids>>
telemetryOnly == <<items, batch, at, counters, accepted, produced>>
vars == <<part, limitVars, writeVars, told, intentsOnly, configsOnly, certOnly, cloudOnly,
          telemetryOnly>>

-----------------------------------------------------------------------------
(* What users write: the calls of v1 and the targets of v2.                *)

ApiServer == "kubernetes"
NoName == ""
Default == "default"
Unqualified == ""
Dotted == "dots"

Name(svc, name, ns) == [svc |-> svc, name |-> name, ns |-> ns]
Plain == Name(FALSE, "server", "")
There == Name(FALSE, "server", "there")
Nothing == Name(FALSE, "", "")
Call(type, name, kind, parts) == [type |-> type, name |-> name, kind |-> kind, parts |-> parts]
Target(field, name, kind, parts) ==
    [field |-> field, name |-> name, kind |-> kind, parts |-> parts]

Calls ==
    { Call("", Plain, "", {}), Call("", There, "Deployment", {}), Call("http", There, "", {"http"}),
      Call("", Plain, "deployment", {}),
      Call("http", Name(TRUE, "server", "there"), "", {"http"}),
      Call("", Name(TRUE, "kubernetes", "default"), "", {}),
      Call("http", Plain, "Service", {"pathless"}),
      Call("kafka", There, "", {"topics"}),
      Call("database", Plain, "", {"privileges"}), Call("aws", Plain, "", {"aws actions"}),
      Call("aws", Name(FALSE, "server", "dots"), "", {"aws actions"}),
      Call("azure", Plain, "", {"actions", "roles"}), Call("azure", Plain, "", {"roles"}),
      Call("internet", Nothing, "", {"domains", "wildcard"}),
      Call("internet", Nothing, "", {"ips", "bad ip"}) }

Targets ==
    { Target("kubernetes", There, "Deployment", {"http"}),
      Target("kubernetes", Name(FALSE, "kubernetes", "default"), "Service", {"http"}),
      Target("kubernetes", Plain, "deployment", {}),
      Target("service", There, "", {"http"}),
      Target("kafka", Plain, "", {}), Target("sql", Plain, "", {}),
      Target("aws", Name(FALSE, "server", "dots"), "", {"aws actions"}),
      Target("azure", Plain, "", {"actions"}), Target("azure", Plain, "", {"roles", "keyVaultPolicy"}),
      Target("internet", Nothing, "", {"domains", "ports"}), Target("none", Nothing, "", {}) }

\* ClientIntents: one, one writer, all versions and all sorts of targets.
CI == INSTANCE Admission

ASSUME ConversionConstants == CI!ConstantsAssumption

\* Two ClientIntents, two writers at once, two clients of which v2 has only one.
Rivals == INSTANCE Admission WITH
    Strings <- {"server"}, Namespaces <- {"here", "there"}, Resources <- {"x", "y"},
    Here <- "here", Clients <- {"a", "b.c"}, DottedClients <- {"b.c"}, LowercaseClients <- {},
    Users <- {"u", "v"}, Served <- {"v1beta1", "v2alpha1"},
    WrittenCalls <- {Call("", Plain, "", {})},
    WrittenTargets <- {Target("service", Plain, "", {})}, StrictMode <- TRUE, MaxWrites <- 3

Databases == INSTANCE DatabaseConfigs WITH MaxWrites <- MaxConfigs

Certs == INSTANCE Certificates WITH
    Servers <- {"s", "t"}, First <- "s", CRDs <- {"intents"}, Configs <- {"config"},
    Unusable <- {100}, MaxMade <- 3, MaxFaults <- 1, MaxChanges <- 2

Cloud == INSTANCE CloudReports WITH
    Intents <- {"a"}, Events <- {"e", "f"}, Statuses <- {"applied", "pending"},
    MaxChunk <- 1, MaxCached <- 1, MaxChanges <- 3, MaxFaults <- 1

Batching == INSTANCE Telemetry

-----------------------------------------------------------------------------
Off == "off"
LimitsOff == changes = Off /\ faults = Off
WritesOff == writes = Off /\ listed = Off
IntentsOff == stored = Off /\ meant = Off /\ request = Off
ConfigsOff == configs = Off /\ admitted = Off /\ raced = Off
CertOff == /\ secret = Off /\ made = Off /\ server = Off /\ bundles = Off
           /\ seen = Off /\ behind = Off /\ queue = Off /\ old = Off
CloudOff == /\ intents = Off /\ intentsSeen = Off /\ events = Off /\ eventCache = Off
            /\ statusCache = Off /\ pass = Off /\ istio = Off /\ uids = Off
TelemetryOff == /\ items = Off /\ batch = Off /\ at = Off
                /\ counters = Off /\ accepted = Off /\ produced = Off

Init ==
    \/ /\ \/ part = "conversion" /\ CI!Init
          \/ part = "rivals" /\ Rivals!Init
       /\ LimitsOff /\ told = Off /\ ConfigsOff /\ CertOff /\ CloudOff /\ TelemetryOff
    \/ /\ part = "databases" /\ Databases!Init
       /\ LimitsOff /\ told = Off /\ IntentsOff /\ CertOff /\ CloudOff /\ TelemetryOff
    \/ /\ part = "certificates" /\ Certs!Init
       /\ WritesOff /\ told = Off /\ IntentsOff /\ ConfigsOff /\ CloudOff /\ TelemetryOff
    \/ /\ part = "cloud" /\ Cloud!Init
       /\ WritesOff /\ IntentsOff /\ ConfigsOff /\ CertOff /\ TelemetryOff
    \/ /\ part = "telemetry" /\ Batching!Init
       /\ LimitsOff /\ WritesOff /\ IntentsOff /\ ConfigsOff /\ CertOff /\ CloudOff

OfIntents(A) ==
    A /\ UNCHANGED <<part, limitVars, told, configsOnly, certOnly, cloudOnly, telemetryOnly>>
InConversion(A) == part = "conversion" /\ OfIntents(A)
InRivals(A) == part = "rivals" /\ OfIntents(A)
InDatabases(A) ==
    part = "databases" /\ A
    /\ UNCHANGED <<part, limitVars, told, intentsOnly, certOnly, cloudOnly, telemetryOnly>>
InCerts(A) ==
    part = "certificates" /\ A
    /\ UNCHANGED <<part, writeVars, told, intentsOnly, configsOnly, cloudOnly, telemetryOnly>>
InCloud(A) ==
    part = "cloud" /\ A
    /\ UNCHANGED <<part, writeVars, intentsOnly, configsOnly, certOnly, telemetryOnly>>
InTelemetry(A) ==
    part = "telemetry" /\ A
    /\ UNCHANGED <<part, limitVars, writeVars, intentsOnly, configsOnly, certOnly, cloudOnly>>

Next ==
    \/ InConversion(CI!Next) \/ InRivals(Rivals!Next) \/ InDatabases(Databases!Next)
    \/ InCerts(Certs!Next) \/ InCloud(Cloud!Next) \/ InTelemetry(Batching!Next)

-----------------------------------------------------------------------------
\* The fairness of each part (Admission!Fairness and the like), its conditions
\* paired with those of the others, for the Resources, Users and versions of
\* Services.cfg.
Fair1 == \/ InConversion(CI!SetFinalizer("x")) \/ InRivals(Rivals!SetFinalizer("x"))
         \/ InCerts(Certs!Step("s")) \/ InCloud(Cloud!doReport)
         \/ InTelemetry(Batching!HandleCounters)
Fair2 == \/ InRivals(Rivals!SetFinalizer("y")) \/ InCerts(Certs!Step("t"))
         \/ InCloud(Cloud!cacheReported) \/ InTelemetry(Batching!SendSync)
Fair3 == \/ InConversion(CI!Store("u")) \/ InRivals(Rivals!Store("u"))
         \/ InCerts(Certs!Sync("s", "intents")) \/ InCloud(Cloud!uploadConfiguration)
         \/ InTelemetry(Batching!Fire("counts"))
Fair4 == \/ InConversion(CI!Store("x")) \/ InRivals(Rivals!Store("x"))
         \/ InCerts(Certs!Sync("s", "config")) \/ InCloud(Cloud!Expire)
         \/ InTelemetry(Batching!Fire("errors"))
Fair5 == \/ InConversion(CI!Sync("v2alpha1")) \/ InRivals(Rivals!Sync("v2alpha1"))
         \/ InCerts(Certs!Sync("t", "intents")) \/ InCloud(Cloud!Sync("a"))
         \/ InTelemetry(Batching!getBatch("counts"))
Fair6 == \/ InConversion(CI!Sync("v1beta1")) \/ InRivals(Rivals!Sync("v1beta1"))
         \/ InCerts(Certs!Sync("t", "config")) \/ InTelemetry(Batching!getBatch("errors"))
Fair7 == \/ InConversion(CI!Sync("v1alpha3")) \/ InRivals(Rivals!Store("v"))
         \/ InCerts(Certs!ReconcileCRD("s", "intents"))
Fair8 == \/ InConversion(CI!Sync("v2beta1")) \/ InRivals(Rivals!Store("y"))
         \/ InCerts(Certs!ReconcileCRD("t", "intents"))
Fair9 == InCerts(Certs!ReconcileConfig("s", "config"))
Fair10 == InCerts(Certs!ReconcileConfig("t", "config"))

Spec ==
    /\ Init /\ [][Next]_vars
    /\ WF_vars(Fair1) /\ WF_vars(Fair2) /\ WF_vars(Fair3) /\ WF_vars(Fair4) /\ WF_vars(Fair5)
    /\ WF_vars(Fair6) /\ WF_vars(Fair7) /\ WF_vars(Fair8) /\ WF_vars(Fair9) /\ WF_vars(Fair10)
    /\ SF_vars(InCloud(Cloud!reportIntentEvents)) /\ SF_vars(InCloud(Cloud!reportIntentStatuses))

-----------------------------------------------------------------------------
\* A target keeps the meaning it was written with, through all versions (Admission).
DeclaredMeaningKept == part = "conversion" => CI!DeclaredMeaningKept

\* Every target that is stored has a field that names it (Admission).
StoredTargetsNamed == part = "conversion" => CI!StoredTargetsNamed

\* The operator's updates of finalizers pass the webhook in the end (Admission).
OperatorGetsThrough ==
    <>[](/\ part = "conversion" => CI!GetsThrough("x")
         /\ part = "rivals" => Rivals!GetsThrough("x") /\ Rivals!GetsThrough("y"))

\* Database configs share a name only if their requests crossed (DatabaseConfigs).
UniqueUnlessRaced == part = "databases" => Databases!UniqueUnlessRaced

\* In the end the API server trusts the webhook server that runs (Certificates).
ServerTrusted == <>[](part = "certificates" => Certs!Trusted)

\* The cloud gets the latest statuses, events and configuration (CloudReports).
CloudCaughtUp == <>[](part = "cloud" => Cloud!CaughtUp)

\* No failed call loses a count that was accepted (Telemetry).
NoCountLost == part = "telemetry" => Batching!NoCountLost

\* No batcher waits for ever (Telemetry).
BatchersGoOn == []<>(part = "telemetry" => Batching!GoneOn)

=============================================================================

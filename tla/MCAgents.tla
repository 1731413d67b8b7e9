------------------------------ MODULE MCAgents ------------------------------
(* What carries ClientIntents elsewhere, next to each other: a behaviour is one *)
(* of the reconciler group with PodWatcher next to the controller, the labels of *)
(* the client's pods, Kafka, a database, AWS, Azure or Google Cloud.  The        *)
(* variables of the others are "off".                                            *)
EXTENDS Naturals, Sequences

CONSTANTS
    Pods, Targets, Kinded, PodsStart, Edits, NamesReused,             \* PodLabels
    Clients, Brokers, DefaultEnforced, KafkaSpecs, TopicsConfs,       \* KafkaServers
    Postgres, MySQL, Databases, Tables, Operations, Configured, DatabaseSpecs,  \* DatabaseGrants
    Accounts, Documents, DocumentsReused,             \* AwsPolicies, with the Clients
    MaxChanges,     \* bound: changes by users, in each part
    MaxFaults       \* bound: failed calls and crashes, in each part but the group

VARIABLES part, intents, intentsCache, pass, queue, queued, changes, faults,
    podEvents, podQueued, watch,
    config, configCache, operatorIntents, operatorIntentsCache, protected, store, acl,
    intentsPass, configPass, configs, users, grants, pod, podCache,
    declared, account, role, policy, deletingRole,
    labelled, identity, customRoles, assignments, vaults, policyCache, google,
    api, cache, clock, specs, effect

labelsOnly == <<podEvents, podQueued, watch>>
kafkaOnly == <<config, configCache, operatorIntents, operatorIntentsCache, protected,
               store, acl, intentsPass, configPass>>
podVars == <<pod, podCache>>
databaseOnly == <<configs, users, grants>>
awsOnly == <<declared, role, deletingRole>>
azureOnly == <<labelled, identity, customRoles, assignments, vaults>>
gcpOnly == <<policyCache, google>>
groupOnly == <<api, cache, clock, specs, effect>>
vars == <<part, intents, intentsCache, pass, queue, queued, changes, faults, account, policy,
          podVars, labelsOnly, kafkaOnly, databaseOnly, awsOnly, azureOnly, gcpOnly, groupOnly>>

-----------------------------------------------------------------------------
(* The values of the constants.                                               *)

Topic(t, ops) == [topic |-> t, broker |-> "broker", operations |-> ops]
SmallKafkaSpecs ==
    {<<Topic("t", {"consume"})>>,
     <<Topic("t", {"consume"}), Topic("t", {"produce"})>>, <<Topic("u", {"produce"})>>}
SmallTopicsConfs ==
    {{}, {[topic |-> "t", identityRequired |-> FALSE, intentsRequired |-> FALSE]}}

Entry(i, d, t, ops) == [instance |-> i, database |-> d, table |-> t, operations |-> ops]
SmallDatabaseSpecs ==
    {<<>>, <<Entry("pg", "d", "t", {"select"})>>,
     <<Entry("pg", "d", "t", {}), Entry("pg", "e", "t", {}), Entry("my", "d", "t", {"select"}),
       Entry("my", "d", "t", {"all"})>>,
     <<Entry("my", "d", "*", {"select"}), Entry("my", "d", "t", {"insert"})>>}

FewChanges == [labels |-> 2, kafka |-> 2, database |-> 3, aws |-> 3, azure |-> 4, gcp |-> 4]

-----------------------------------------------------------------------------
(* The parts.                                                                 *)

Workers == {"controller", "podwatcher"}
Group == INSTANCE ReconcilerGroup WITH
    Controller <- "controller", N <- 1, NamesReused <- FALSE, MaxSpecs <- 1, MaxFaults <- 0

Labels == INSTANCE PodLabels WITH
    MaxChanges <- MaxChanges.labels, ci <- intents, ciCache <- intentsCache

Kafka == INSTANCE KafkaServers WITH
    Specs <- KafkaSpecs, MaxChanges <- MaxChanges.kafka

Database == INSTANCE DatabaseGrants WITH
    Specs <- DatabaseSpecs, MaxChanges <- MaxChanges.database

ASSUME ConstantsAssumption == Labels!ConstantsAssumption /\ Database!ConstantsAssumption

Aws == INSTANCE AwsPolicies WITH MaxChanges <- MaxChanges.aws

Azure(kind, scope, access) == [kind |-> kind, scope |-> scope, access |-> access]
AzureAgent == INSTANCE AzureAccess WITH
    Scopes <- {"s", "t"}, Vaults <- {"v"},
    Declarations <- {<<>>, <<Azure("custom role", "s", {"read"})>>,
        <<Azure("custom role", "s", {"write"}), Azure("named", "t", {"reader"})>>,
        <<Azure("named", "t", {"reader", "owner"}), Azure("vault", "v", {"get"})>>},
    MaxChanges <- MaxChanges.azure

Gcp == INSTANCE GcpPolicies WITH
    Accounts <- {"a", "b"}, Bindings <- {"x", "y", "*/z"}, Refused <- {"*/z"},
    MaxChanges <- MaxChanges.gcp

-----------------------------------------------------------------------------
Off == "off"
LabelsOff == podEvents = Off /\ podQueued = Off /\ watch = Off
PodOff == pod = Off /\ podCache = Off
KafkaOff == /\ config = Off /\ configCache = Off /\ operatorIntents = Off
            /\ operatorIntentsCache = Off /\ protected = Off /\ store = Off /\ acl = Off
            /\ intentsPass = Off /\ configPass = Off
DatabaseOff == configs = Off /\ users = Off /\ grants = Off
AwsOff == declared = Off /\ role = Off /\ deletingRole = Off
AzureOff == /\ labelled = Off /\ identity = Off /\ customRoles = Off
            /\ assignments = Off /\ vaults = Off
GcpOff == policyCache = Off /\ google = Off
GroupOff == /\ api = Off /\ cache = Off /\ clock = Off /\ specs = Off /\ effect = Off
IntentsOff == intents = Off /\ intentsCache = Off /\ changes = Off

Init ==
    \/ /\ part = "labels" /\ Labels!Init
       /\ queue = Off /\ account = Off /\ policy = Off
       /\ KafkaOff /\ DatabaseOff /\ AwsOff /\ AzureOff /\ GcpOff /\ GroupOff
    \/ /\ part = "kafka" /\ Kafka!Init
       /\ pass = Off /\ queued = Off /\ account = Off /\ policy = Off
       /\ PodOff /\ LabelsOff /\ DatabaseOff /\ AwsOff /\ AzureOff /\ GcpOff /\ GroupOff
    \/ /\ part = "database" /\ Database!Init
       /\ queue = Off /\ account = Off /\ policy = Off
       /\ LabelsOff /\ KafkaOff /\ AwsOff /\ AzureOff /\ GcpOff /\ GroupOff
    \/ /\ part = "aws" /\ Aws!Init /\ queued = Off
       /\ PodOff /\ LabelsOff /\ KafkaOff /\ DatabaseOff /\ AzureOff /\ GcpOff /\ GroupOff
    \/ /\ part = "azure" /\ AzureAgent!Init
       /\ queue = Off /\ account = Off /\ policy = Off
       /\ PodOff /\ LabelsOff /\ KafkaOff /\ DatabaseOff /\ AwsOff /\ GcpOff /\ GroupOff
    \/ /\ part = "gcp" /\ Gcp!Init /\ pass = Off /\ queue = Off
       /\ PodOff /\ LabelsOff /\ KafkaOff /\ DatabaseOff /\ AwsOff /\ AzureOff /\ GroupOff
    \/ /\ part = "group" /\ Group!Init /\ api.legacy /\ ~api.fin /\ ~api.upToDate
       /\ IntentsOff /\ queue = Off /\ account = Off /\ policy = Off
       /\ PodOff /\ LabelsOff /\ KafkaOff /\ DatabaseOff /\ AwsOff /\ AzureOff /\ GcpOff

othersOnly == <<awsOnly, azureOnly, gcpOnly, groupOnly>>
InLabels(A) == part = "labels" /\ A
               /\ UNCHANGED <<part, queue, account, policy, kafkaOnly, databaseOnly, othersOnly>>
InKafka(A) == part = "kafka" /\ A
              /\ UNCHANGED <<part, pass, queued, account, policy, podVars, labelsOnly,
                             databaseOnly, othersOnly>>
InDatabase(A) == part = "database" /\ A
                 /\ UNCHANGED <<part, queue, account, policy, labelsOnly, kafkaOnly, othersOnly>>
InAws(A) == part = "aws" /\ A
            /\ UNCHANGED <<part, queued, podVars, labelsOnly, kafkaOnly, databaseOnly, azureOnly, gcpOnly,
                           groupOnly>>
InAzure(A) == part = "azure" /\ A
              /\ UNCHANGED <<part, queue, account, policy, podVars, labelsOnly, kafkaOnly,
                             databaseOnly, awsOnly, gcpOnly, groupOnly>>
InGcp(A) == part = "gcp" /\ A
            /\ UNCHANGED <<part, pass, queue, podVars, labelsOnly, kafkaOnly, databaseOnly,
                           awsOnly, azureOnly, groupOnly>>
InGroup(A) == part = "group" /\ A
              /\ UNCHANGED <<part, intents, intentsCache, queue, changes, account, policy, podVars,
                             labelsOnly, kafkaOnly, databaseOnly, awsOnly, azureOnly, gcpOnly>>

\* The operator's own passes, those of a second controller, the informers' news and
\* the periodic resync, of whichever part the behaviour is.
Step == \/ InLabels(Labels!PassStep) \/ InKafka(Kafka!IntentsStep) \/ InDatabase(Database!Step) \/ InAws(Aws!Step)
        \/ InAzure(AzureAgent!Step) \/ InGcp(Gcp!Step)
Other == \/ InLabels(Labels!WatchStep) \/ InKafka(Kafka!ConfigStep) \/ InAws(Aws!Roles) \/ InAzure(AzureAgent!Credentials)
         \/ InGcp(Gcp!Credentials)
Sync == \/ InLabels(Labels!SyncIntents) \/ InKafka(Kafka!Sync) \/ InDatabase(Database!Sync) \/ InAws(Aws!Synced)
        \/ InAzure(AzureAgent!Sync) \/ InGcp(Gcp!Sync)
Resync == \/ InKafka(Kafka!Resync) \/ InAws(Aws!Resync) \/ InAzure(AzureAgent!Resync)
          \/ InGcp(Gcp!Resync)

\* Each pod's news arrives, and each queued pod is handled in its turn.
PodSync(p) == InLabels(Labels!SyncPod(p))
PodHandled(p) == InLabels(Labels!GetPod /\ p \in podQueued /\ p \notin podQueued')

Next == \/ InLabels(Labels!Next) \/ InKafka(Kafka!Next) \/ InDatabase(Database!Next) \/ InAws(Aws!Next)
        \/ InAzure(AzureAgent!Next) \/ InGcp(Gcp!Next) \/ InGroup(Group!Next)

Spec == Init /\ [][Next]_vars
        /\ WF_vars(Step) /\ WF_vars(Other) /\ WF_vars(Sync) /\ WF_vars(Resync)
        /\ \A p \in Pods : WF_vars(PodSync(p)) /\ SF_vars(PodHandled(p))

-----------------------------------------------------------------------------
TypeOK ==
    CASE part = "group" -> Group!TypeOK
      [] part = "labels" -> Labels!TypeOK
      [] part = "kafka" -> Kafka!TypeOK
      [] part = "database" -> Database!TypeOK
      [] part = "aws" -> Aws!TypeOK
      [] part = "azure" -> AzureAgent!TypeOK
      [] part = "gcp" -> Gcp!TypeOK

\* With nothing left to do, pods have the labels that live ClientIntents declare
\* (PodLabels).
LiveLabelsMatch == part = "labels" => Labels!LiveLabelsMatch

\* In the end deleted ClientIntents are gone and pods have the labels of live ones
\* (PodLabels).
LabelsServed == <>[](part = "labels" => Labels!LabelsServed)

\* With nothing left to do, the Kafka operator's store is what the live configs say
\* and a configured broker has the rules of its topics (KafkaServers).
ServersMatchAtRest == part = "kafka" => Kafka!ServersMatchAtRest

\* ClientIntents of Kafka topics are released only without ACLs (KafkaServers).
KafkaReleasedClean ==
    [][part = "kafka" => Kafka!ReleasesClean]_vars

\* In the end every client has the ACLs its live intents ask for (KafkaServers).
KafkaClientsServed == <>[](part = "kafka" => Kafka!ClientsServed)

\* With nothing left to do, grants are what the live intents say (DatabaseGrants).
GrantsMatchAtRest == part = "database" => Database!GrantsMatchAtRest

\* ClientIntents with AWS targets are released only with their policy detached, or
\* tagged as unused (AwsPolicies).
ReleasedUnattached ==
    [][part = "aws" => Aws!ReleasesUnattached]_vars

\* In the end a client has exactly the AWS access it declares (AwsPolicies).
AwsPoliciesServed == <>[](part = "aws" => Aws!PoliciesServed)

\* In the end an identity can do nothing that is not declared (AzureAccess).
AzureNothingElseAllowed == <>[](part = "azure" => AzureAgent!NothingElseAllowed)

\* In the end the Google policy binds what is declared (GcpPolicies).
GcpPolicyBinds == <>[](part = "gcp" => Gcp!PolicyBinds)

=============================================================================

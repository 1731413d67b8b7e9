---------------------------- MODULE KafkaServers ----------------------------
(***************************************************************************)
(* Kafka ACLs: KafkaACLReconciler applies the topics of ClientIntents to   *)
(* every broker in the ServersStore, KafkaServerConfigReconciler fills the *)
(* store and applies the rules of the topics themselves.                   *)
(*                                                                         *)
(* The store is a map in memory that both controllers use: it is empty     *)
(* after a restart, and filling it is no event for ClientIntents.  Both    *)
(* reconcilers run in a reconciler group; of the group a pass here has its *)
(* one object, the finalizer and the retry.                                *)
(***************************************************************************)
EXTENDS Naturals, Sequences, SequencesExt

CONSTANTS
    Clients,          \* ClientIntents, one per client workload
    Brokers,          \* Kafka servers; each has at most one KafkaServerConfig
    Specs,            \* what users may declare: sequences of topics at brokers
    TopicsConfs,      \* what a KafkaServerConfig may say about its topics
    DefaultEnforced,  \* enforcementDefaultState
    MaxChanges, MaxFaults   \* bounds: changes by users; failed calls and crashes

VARIABLES
    intents, intentsCache,    \* the ClientIntents of a client
    config, configCache,      \* the KafkaServerConfig of a broker
    operatorIntents, operatorIntentsCache,  \* brokers the operator declares itself a client of
    protected,                \* brokers that have a ProtectedService
    store,                    \* ServersStore: {} or one entry, the topics of the broker
    acl,                      \* the ACLs at each broker
    queue,                    \* requests: clients and brokers
    intentsPass, configPass,  \* the pass of each controller
    changes, faults

objectVars == <<intents, intentsCache, config, configCache,
                operatorIntents, operatorIntentsCache, protected>>
vars == <<objectVars, store, acl, queue, intentsPass, configPass, changes, faults>>

None == "none"   \* no object

\* "new" has no finalizer yet, "deleting" has one and a deletion timestamp.
Stages == {None, "new", "live", "deleting"}
NoIntents == [stage |-> None, spec |-> <<>>]
NoConfig == [stage |-> None, topics |-> {}]

Idle == [pc |-> "idle"]

-----------------------------------------------------------------------------
(* The rules at a broker.                                                  *)

Acl(resource, principal, operation, permission) ==
    [resource |-> resource, principal |-> principal,
     operation |-> operation, permission |-> permission]

Anonymous == "User:ANONYMOUS"
AnyUser == "User:*"
Group == "group"    \* the resource that stands for all consumer groups

\* collectTopicsToACLList: a map from topics, so of two with one name the last
\* counts.
Wanted(c, b, spec) ==
    LET topics == SelectSeq(spec, LAMBDA t : t.broker = b) IN
    UNION {{Acl(topics[i].topic, c, op, "allow") : op \in topics[i].operations} :
             i \in {j \in DOMAIN topics :
                      \A later \in j + 1 .. Len(topics) : topics[later].topic # topics[j].topic}}

\* getExpectedTopicsConfAcls: without topics, all of them require an identity
\* and intents.
Rules(topics) ==
    LET confs == IF topics # {} THEN topics
                 ELSE {[topic |-> "*", identityRequired |-> TRUE, intentsRequired |-> TRUE]} IN
    UNION {{Acl(t.topic, Anonymous, "all", IF t.identityRequired THEN "deny" ELSE "allow")}
             \cup (IF t.intentsRequired THEN {} ELSE {Acl(t.topic, AnyUser, "all", "allow")}) :
             t \in confs}

GroupRules == {Acl(Group, AnyUser, op, "allow") : op \in {"describe", "read"}}

OfClient(c, acls) == {a \in acls : a.principal = c}
OfTopics(acls) == {a \in acls : a.principal \in {Anonymous, AnyUser} /\ a.resource # Group}

\* Mutant: what is there and no longer wanted stays.
ReconciledKeeping(found, wanted, create) == found \cup (IF create THEN wanted ELSE {})

\* kafkaResourceAclsDiff and what is done with it: what is missing is created if
\* that is enabled, what is not wanted is deleted in any case.
Reconciled(found, wanted, create) ==
    (found \cap wanted) \cup (IF create THEN wanted ELSE {})

\* The calls that get there are made one after another: the creation, then one
\* deletion per ACL in an order of maps.  One that fails leaves these.
Halfway(found, wanted, create) ==
    {found} \cup {(found \cup (IF create THEN wanted ELSE {})) \ gone :
                    gone \in SUBSET (found \ wanted)}

-----------------------------------------------------------------------------
Fault == faults < MaxFaults /\ faults' = faults + 1

\* IsServerEnforcementEnabledDueToProtectionOrDefaultState, no active namespaces.
Enforced(b) == DefaultEnforced \/ b \in protected

Replace(b, before, after) == acl' = [acl EXCEPT ![b] = (@ \ before) \cup after]

\* A pass that failed: the request is queued again.
Requeue(request) == queue' = queue \cup {request}

\* Brokers the range over the store may still come to, and those it must: Go
\* leaves open whether it visits entries added meanwhile.
Ahead(p) == {b \in Brokers \ p.visited : store[b] # {}}
Owed(p) == Ahead(p) \cap p.started

\* KafkaACLReconciler within its group.  The group's Update of the finalizer
\* fails if the copy is out of date.
BeginIntents(c) ==
    /\ intentsPass = Idle /\ c \in queue
    /\ LET copy == intentsCache[c]
           pass == [pc |-> "store", client |-> c, copy |-> copy, visited |-> {},
                    started |-> {b \in Brokers : store[b] # {}}] IN
       CASE copy.stage = None ->
              queue' = queue \ {c} /\ UNCHANGED <<intents, intentsPass>>
         [] copy.stage = "new" /\ intents[c] # copy ->
              UNCHANGED <<queue, intents, intentsPass>>
         [] OTHER ->
              /\ queue' = queue \ {c}
              /\ intents' = IF copy.stage = "new" THEN [intents EXCEPT ![c].stage = "live"]
                            ELSE intents
              /\ intentsPass' = pass
    /\ UNCHANGED <<intentsCache, config, configCache, operatorIntents, operatorIntentsCache,
                   protected, store, acl, configPass, changes, faults>>

\* Mutant: a broker that fails is passed over.
ApplyAtBrokerOrSkip(b) ==
    LET p == intentsPass
        found == OfClient(p.client, acl[b])
        wanted == IF p.copy.stage = "deleting" THEN {} ELSE Wanted(p.client, b, p.copy.spec) IN
    /\ p.pc = "store" /\ b \in Ahead(p)
    /\ intentsPass' = [p EXCEPT !.visited = @ \cup {b}]
    /\ \/ /\ Replace(b, found, Reconciled(found, wanted, Enforced(b)))
          /\ UNCHANGED faults
       \/ Fault /\ UNCHANGED acl
    /\ UNCHANGED <<objectVars, store, queue, configPass, changes>>

\* MapErr's function for one broker: ApplyClientIntents, or RemoveClientIntents
\* if the object is being deleted.
ApplyAtBroker(b) ==
    LET p == intentsPass
        found == OfClient(p.client, acl[b])
        wanted == IF p.copy.stage = "deleting" THEN {} ELSE Wanted(p.client, b, p.copy.spec) IN
    /\ p.pc = "store" /\ b \in Ahead(p)
    /\ \/ /\ Replace(b, found, Reconciled(found, wanted, Enforced(b)))
          /\ intentsPass' = [p EXCEPT !.visited = @ \cup {b}]
          /\ UNCHANGED <<queue, faults>>
       \/ /\ Fault
          /\ \E left \in Halfway(found, wanted, Enforced(b)) : Replace(b, found, left)
          /\ intentsPass' = Idle
          /\ Requeue(p.client)
    /\ UNCHANGED <<objectVars, store, configPass, changes>>

\* The range over the store ends; the group drops the finalizer of an object
\* being deleted, if the copy is the current one.
EndIntents ==
    LET p == intentsPass
        release == p.copy.stage = "deleting" IN
    /\ p.pc = "store" /\ Owed(p) = {}
    /\ intentsPass' = Idle
    /\ IF release /\ intents[p.client] = p.copy
       THEN intents' = [intents EXCEPT ![p.client] = NoIntents] /\ UNCHANGED queue
       ELSE /\ IF release /\ intents[p.client].stage # None
               THEN Requeue(p.client) ELSE UNCHANGED queue
            /\ UNCHANGED intents
    /\ UNCHANGED <<intentsCache, config, configCache, operatorIntents, operatorIntentsCache,
                   protected, store, acl, configPass, changes, faults>>

-----------------------------------------------------------------------------
(* KafkaServerConfigReconciler.                                            *)

BeginConfig(b) ==
    /\ configPass = Idle /\ b \in queue
    /\ LET copy == configCache[b] IN
       CASE copy.stage = None ->
              queue' = queue \ {b} /\ UNCHANGED <<config, configPass>>
         [] copy.stage = "new" /\ config[b] # copy ->
              UNCHANGED <<queue, config, configPass>>
         [] OTHER ->
              /\ queue' = queue \ {b}
              /\ config' = IF copy.stage = "new" THEN [config EXCEPT ![b].stage = "live"]
                           ELSE config
              /\ configPass' = [pc |-> "declare", broker |-> b, copy |-> copy]
    /\ UNCHANGED <<intents, intentsCache, configCache, operatorIntents, operatorIntentsCache,
                   protected, store, acl, intentsPass, changes, faults>>

FailConfig == configPass' = Idle /\ Requeue(configPass.broker)

\* createIntentsFromOperatorToKafkaServer, also for an object being deleted:
\* Create what the cache does not have, else Patch it.  Creating what is there or
\* patching what is not fails.
DeclareOperator ==
    LET p == configPass
        cached == p.broker \in operatorIntentsCache
        stored == p.broker \in operatorIntents IN
    /\ p.pc = "declare"
    /\ \/ /\ cached = stored
          /\ operatorIntents' = operatorIntents \cup {p.broker}
          /\ configPass' = [p EXCEPT !.pc = IF p.copy.stage = "deleting" THEN "remove" ELSE "apply"]
          /\ UNCHANGED <<queue, faults>>
       \/ /\ IF cached = stored THEN Fault ELSE UNCHANGED faults
          /\ FailConfig
          /\ UNCHANGED operatorIntents
    /\ UNCHANGED <<intents, intentsCache, config, configCache, operatorIntentsCache,
                   protected, store, acl, intentsPass, changes>>

\* ServersStore.Add, then ApplyServerTopicsConf.  The admin client is made with
\* the default state: protection does not count here.  A failure to create the
\* consumer group's rules is only logged.
AddServer ==
    LET p == configPass
        found == OfTopics(acl[p.broker])
        wanted == Rules(p.copy.topics) IN
    /\ p.pc = "apply"
    /\ store' = [store EXCEPT ![p.broker] = {p.copy.topics}]
    /\ \/ /\ Replace(p.broker, found, Reconciled(found, wanted, DefaultEnforced) \cup GroupRules)
          /\ configPass' = Idle
          /\ UNCHANGED <<queue, faults>>
       \/ /\ Fault
          /\ \E left \in Halfway(found, wanted, DefaultEnforced) : Replace(p.broker, found, left)
          /\ FailConfig
    /\ UNCHANGED <<objectVars, intentsPass, changes>>

\* removeKafkaServerFromStore: the rules that go are those of the topics the
\* deleted object has now.
RemoveServer ==
    LET p == configPass
        gone == Rules(p.copy.topics) \cup GroupRules IN
    /\ p.pc = "remove"
    /\ \/ /\ store[p.broker] = {}
          /\ configPass' = [p EXCEPT !.pc = "withdraw"]
          /\ UNCHANGED <<store, acl, queue, faults>>
       \/ /\ store[p.broker] # {}
          /\ Replace(p.broker, gone, {})
          /\ store' = [store EXCEPT ![p.broker] = {}]
          /\ configPass' = [p EXCEPT !.pc = "withdraw"]
          /\ UNCHANGED <<queue, faults>>
       \/ /\ store[p.broker] # {}
          /\ Fault
          /\ \E part \in SUBSET gone : Replace(p.broker, part, {})
          /\ FailConfig
          /\ UNCHANGED store
    /\ UNCHANGED <<objectVars, intentsPass, changes>>

\* removeIntentsFromOperatorToKafkaServer deletes what the cache has; then the
\* group drops the finalizer.
WithdrawOperator ==
    LET p == configPass
        cached == p.broker \in operatorIntentsCache
        stored == p.broker \in operatorIntents IN
    /\ p.pc = "withdraw"
    /\ IF cached /\ ~stored   \* Delete finds nothing
       THEN FailConfig /\ UNCHANGED <<operatorIntents, config>>
       ELSE /\ operatorIntents' = IF cached THEN operatorIntents \ {p.broker} ELSE operatorIntents
            /\ IF config[p.broker] = p.copy
               THEN /\ config' = [config EXCEPT ![p.broker] = NoConfig]
                    /\ configPass' = Idle
                    /\ UNCHANGED queue
               ELSE FailConfig /\ UNCHANGED config
    /\ UNCHANGED <<intents, intentsCache, configCache, operatorIntentsCache, protected,
                   store, acl, intentsPass, changes, faults>>

-----------------------------------------------------------------------------
(* Users, informers and the process.                                       *)

\* Declare an object, edit it, or delete it: one without a finalizer is gone.
Edited(object, key, field, value) ==
    IF object[key].stage = None THEN [object EXCEPT ![key] = [@ EXCEPT !.stage = "new", ![field] = value]]
    ELSE [object EXCEPT ![key] = [@ EXCEPT ![field] = value]]

Deleted(object, key, gone) ==
    [object EXCEPT ![key] = IF @.stage = "new" THEN gone ELSE [@ EXCEPT !.stage = "deleting"]]

Change == changes < MaxChanges /\ changes' = changes + 1

ChangeIntents(c) ==
    /\ Change
    /\ \/ \E spec \in Specs : /\ intents[c].spec # spec
                              /\ intents[c].stage # "deleting"
                              /\ intents' = Edited(intents, c, "spec", spec)
       \/ intents[c].stage \in {"new", "live"} /\ intents' = Deleted(intents, c, NoIntents)
    /\ UNCHANGED <<intentsCache, config, configCache, operatorIntents, operatorIntentsCache,
                   protected, store, acl, queue, intentsPass, configPass, faults>>

ChangeConfig(b) ==
    /\ Change
    /\ \/ \E topics \in TopicsConfs : /\ config[b].stage # "deleting"
                                      /\ config[b].stage = None \/ config[b].topics # topics
                                      /\ config' = Edited(config, b, "topics", topics)
       \/ config[b].stage \in {"new", "live"} /\ config' = Deleted(config, b, NoConfig)
    /\ UNCHANGED <<intents, intentsCache, configCache, operatorIntents, operatorIntentsCache,
                   protected, store, acl, queue, intentsPass, configPass, faults>>

\* A ProtectedService is declared: both controllers watch them, one through the
\* targets of ClientIntents, one through the servers of KafkaServerConfigs.
Protect(b) ==
    /\ Change /\ b \notin protected
    /\ protected' = protected \cup {b}
    /\ queue' = queue \cup {b} \cup
                {c \in Clients : \E i \in DOMAIN intentsCache[c].spec : intentsCache[c].spec[i].broker = b}
    /\ UNCHANGED <<intents, intentsCache, config, configCache, operatorIntents,
                   operatorIntentsCache, store, acl, intentsPass, configPass, faults>>

\* The informers catch up; a change is a request of the object's controller.
SyncIntents(c) ==
    /\ intentsCache[c] # intents[c]
    /\ intentsCache' = [intentsCache EXCEPT ![c] = intents[c]]
    /\ queue' = queue \cup {c}
    /\ UNCHANGED <<intents, config, configCache, operatorIntents, operatorIntentsCache,
                   protected, store, acl, intentsPass, configPass, changes, faults>>

SyncConfig(b) ==
    /\ configCache[b] # config[b]
    /\ configCache' = [configCache EXCEPT ![b] = config[b]]
    /\ queue' = queue \cup {b}
    /\ UNCHANGED <<intents, intentsCache, config, operatorIntents, operatorIntentsCache,
                   protected, store, acl, intentsPass, configPass, changes, faults>>

SyncOperatorIntents ==
    /\ operatorIntentsCache # operatorIntents
    /\ operatorIntentsCache' = operatorIntents
    /\ UNCHANGED <<intents, intentsCache, config, configCache, operatorIntents, protected,
                   store, acl, queue, intentsPass, configPass, changes, faults>>

\* The informers' periodic resync hands every object to its controller.
Resync ==
    /\ queue' = queue \cup {c \in Clients : intentsCache[c].stage # None}
                      \cup {b \in Brokers : configCache[b].stage # None}
    /\ UNCHANGED <<objectVars, store, acl, intentsPass, configPass, changes, faults>>

\* A restart: the store is empty, and all objects are listed.
Crash ==
    /\ Fault
    /\ store' = [b \in Brokers |-> {}]
    /\ intentsPass' = Idle /\ configPass' = Idle
    /\ intentsCache' = intents /\ configCache' = config
    /\ operatorIntentsCache' = operatorIntents
    /\ queue' = {c \in Clients : intents[c].stage # None} \cup {b \in Brokers : config[b].stage # None}
    /\ UNCHANGED <<intents, config, operatorIntents, protected, acl, changes>>

-----------------------------------------------------------------------------
\* Some brokers are configured from the start, and their topics have their rules.
Init ==
    /\ intents = [c \in Clients |-> NoIntents] /\ intentsCache = intents
    /\ \E configured \in SUBSET Brokers, topics \in TopicsConfs :
         /\ config = [b \in Brokers |-> IF b \in configured THEN [stage |-> "live", topics |-> topics]
                                        ELSE NoConfig]
         /\ operatorIntents = configured
         /\ store = [b \in Brokers |-> IF b \in configured THEN {topics} ELSE {}]
         /\ acl = [b \in Brokers |-> IF b \notin configured THEN {}
                                     ELSE GroupRules \cup (IF DefaultEnforced THEN Rules(topics) ELSE {})]
    /\ configCache = config /\ operatorIntentsCache = operatorIntents
    /\ protected = {}
    /\ queue = {}
    /\ intentsPass = Idle /\ configPass = Idle
    /\ changes = 0 /\ faults = 0

IntentsStep == (\E c \in Clients : BeginIntents(c)) \/ (\E b \in Brokers : ApplyAtBroker(b)) \/ EndIntents
ConfigStep == (\E b \in Brokers : BeginConfig(b)) \/ DeclareOperator \/ AddServer
              \/ RemoveServer \/ WithdrawOperator
Sync == (\E c \in Clients : SyncIntents(c)) \/ (\E b \in Brokers : SyncConfig(b)) \/ SyncOperatorIntents
Users == (\E c \in Clients : ChangeIntents(c)) \/ (\E b \in Brokers : ChangeConfig(b) \/ Protect(b))

Next == IntentsStep \/ ConfigStep \/ Sync \/ Resync \/ Users \/ Crash

\* Without fairness, which is stated where it is run.
Spec == Init /\ [][Next]_vars

-----------------------------------------------------------------------------
(* Properties.                                                             *)

TypeOK ==
    /\ \A c \in Clients : intents[c].stage \in Stages /\ intentsCache[c].stage \in Stages
    /\ \A b \in Brokers : config[b].stage \in Stages /\ configCache[b].stage \in Stages
    /\ operatorIntents \subseteq Brokers /\ operatorIntentsCache \subseteq Brokers
    /\ protected \subseteq Brokers
    /\ \A b \in Brokers : store[b] \subseteq TopicsConfs
    /\ \A b \in Brokers : \A a \in acl[b] : a.principal \in Clients \cup {Anonymous, AnyUser}
    /\ queue \subseteq Clients \cup Brokers
    /\ intentsPass.pc \in {"idle", "store"}
    /\ configPass.pc \in {"idle", "declare", "apply", "remove", "withdraw"}

\* Nothing is queued or running, and the caches are current.
AtRest ==
    /\ queue = {} /\ intentsPass = Idle /\ configPass = Idle
    /\ intents = intentsCache /\ config = configCache

\* With nothing left to do, the store is what the live configs say, and a
\* configured broker has the rules of its topics, whatever earlier configs,
\* failed attempts and restarts left.
ServersMatchAtRest ==
    AtRest => \A b \in Brokers :
        /\ store[b] = IF config[b].stage = "live" THEN {config[b].topics} ELSE {}
        /\ config[b].stage = "live" =>
             OfTopics(acl[b]) = IF DefaultEnforced THEN Rules(config[b].topics) ELSE {}

\* ClientIntents lose their finalizer only when no broker that was in the store
\* throughout the pass has an ACL of the client left.
ReleasesClean ==
    \A c \in Clients :
        intents[c].stage = "deleting" /\ intents'[c].stage = None =>
          \A b \in intentsPass.started : store[b] # {} => OfClient(c, acl[b]) = {}

\* In the end the ACLs of every client at a configured broker are those its live
\* ClientIntents ask for, if the server is enforced, and no others in any case.
\* That is for intents that name a topic once: of two entries one is lost.
ClientsServed ==
    \A c \in Clients, b \in Brokers :
        LET spec == intents[c].spec
            here == {i \in DOMAIN spec : spec[i].broker = b}
            found == OfClient(c, acl[b])
            wanted == UNION {{Acl(spec[i].topic, c, op, "allow") : op \in spec[i].operations} : i \in here} IN
        /\ intents[c].stage = "live" /\ config[b].stage = "live"
        /\ \A i, j \in here : spec[i].topic = spec[j].topic => i = j
        => found \subseteq wanted /\ (Enforced(b) => found = wanted)

=============================================================================

------------------------- MODULE KafkaServers_proofs -------------------------
(***************************************************************************)
(* Theorems about KafkaServers, for any clients, brokers, specs and        *)
(* configs, and any number of changes, failed calls and restarts.          *)
(***************************************************************************)
EXTENDS KafkaServers, TLAPS

-----------------------------------------------------------------------------
\* Principals and resources are told apart: no client is named like the users
\* that the rules of topics are for, no topic like the groups.
NamesApart ==
    /\ Clients \cap {Anonymous, AnyUser} = {}
    /\ \A topics \in TopicsConfs : \A t \in topics : t.topic # Group
    /\ Clients \cap Brokers = {}

-----------------------------------------------------------------------------
(* Types.  What TypeOK leaves open is the shape of objects and passes.      *)

IntentsObjects == [stage : Stages, spec : Specs \cup {<<>>}]
ConfigObjects == [stage : Stages \ {None}, topics : TopicsConfs] \cup {NoConfig}

IntentsPasses ==
    [pc : {"store"}, client : Clients, copy : IntentsObjects,
     visited : SUBSET Brokers, started : SUBSET Brokers]

ConfigPasses ==
    [pc : {"declare", "apply", "remove", "withdraw"}, broker : Brokers,
     copy : ConfigObjects]

AclType(acls) ==
    \A b \in Brokers : \A a \in acls[b] :
      a.principal \in Clients \cup {Anonymous, AnyUser}

TypeInv ==
    /\ intents \in [Clients -> IntentsObjects]
    /\ intentsCache \in [Clients -> IntentsObjects]
    /\ config \in [Brokers -> ConfigObjects]
    /\ configCache \in [Brokers -> ConfigObjects]
    /\ operatorIntents \subseteq Brokers /\ operatorIntentsCache \subseteq Brokers
    /\ protected \subseteq Brokers
    /\ store \in [Brokers -> SUBSET TopicsConfs]
    /\ acl = [b \in Brokers |-> acl[b]] /\ AclType(acl)
    /\ queue \subseteq Clients \cup Brokers
    /\ intentsPass \in IntentsPasses \cup {Idle}
    /\ configPass \in ConfigPasses \cup {Idle}
    /\ configPass # Idle => configPass.copy.stage # None

-----------------------------------------------------------------------------
(* The rules at a broker, by whom they are of.                             *)

TopicUsers == {Anonymous, AnyUser}

\* What a client is to be allowed is of that client.
LEMMA WantedOfClient ==
    ASSUME NEW c, NEW b, NEW spec, NEW a \in Wanted(c, b, spec)
    PROVE  a.principal = c
  <1> DEFINE topics == SelectSeq(spec, LAMBDA t : t.broker = b)
             last == {j \in DOMAIN topics :
                        \A later \in j + 1 .. Len(topics) :
                          topics[later].topic # topics[j].topic}
  <1>1. Wanted(c, b, spec) =
          UNION {{Acl(topics[i].topic, c, op, "allow") :
                    op \in topics[i].operations} : i \in last}
    BY DEF Wanted
  <1> HIDE DEF topics, last
  <1>2. PICK i \in last : \E op \in topics[i].operations :
          a = Acl(topics[i].topic, c, op, "allow")
    BY <1>1
  <1> QED BY <1>2 DEF Acl

\* The rules of topics are of the users that stand for the identities asked for,
\* and the rules of groups are no rules of topics.
LEMMA RulesOfTopics ==
    ASSUME NamesApart, NEW topics \in TopicsConfs
    PROVE  OfTopics(Rules(topics)) = Rules(topics)
           /\ \A a \in Rules(topics) : a.principal \in TopicUsers
  <1> DEFINE confs == IF topics # {} THEN topics
                      ELSE {[topic |-> "*", identityRequired |-> TRUE,
                             intentsRequired |-> TRUE]}
             rules(t) ==
               {Acl(t.topic, Anonymous, "all",
                    IF t.identityRequired THEN "deny" ELSE "allow")}
                 \cup (IF t.intentsRequired THEN {}
                       ELSE {Acl(t.topic, AnyUser, "all", "allow")})
  <1>1. Rules(topics) = UNION {rules(t) : t \in confs}
    BY DEF Rules
  <1>2. \A t \in confs : t.topic # Group
    BY DEF NamesApart, Group
  <1>3. \A t : \A a \in rules(t) : a.resource = t.topic /\ a.principal \in TopicUsers
    BY DEF Acl, TopicUsers
  <1> HIDE DEF confs, rules
  <1>4. \A a \in Rules(topics) : a.resource # Group /\ a.principal \in TopicUsers
    BY <1>1, <1>2, <1>3
  <1> QED BY <1>4 DEF OfTopics, TopicUsers

\* The rules of the consumer groups are of those users, and of no topic.
LEMMA RulesOfGroups ==
    \A a \in GroupRules : a.resource = Group /\ a.principal \in TopicUsers
  BY DEF GroupRules, Acl, TopicUsers

\* Whether the calls get there or not, nothing appears that is not wanted.
LEMMA NothingElse ==
    ASSUME NEW found, NEW wanted, NEW create,
           NEW left \in Halfway(found, wanted, create)
                          \cup {Reconciled(found, wanted, create)}
    PROVE  left \subseteq found \cup (IF create THEN wanted ELSE {})
  BY DEF Halfway, Reconciled

\* Replacing rules at b.
LEMMA AclReplaced ==
    ASSUME TypeInv, NEW b \in Brokers, NEW before, NEW after,
           Replace(b, before, after)
    PROVE  /\ acl' = [d \in Brokers |-> acl'[d]]
           /\ acl'[b] = (acl[b] \ before) \cup after
           /\ \A d \in Brokers \ {b} : acl'[d] = acl[d]
           /\ (\A a \in after : a.principal \in Clients \cup TopicUsers)
                => AclType(acl')
  <1>1. acl = [d \in Brokers |-> acl[d]] /\ AclType(acl)
    BY DEF TypeInv
  <1>2. acl' = [acl EXCEPT ![b] = (acl[b] \ before) \cup after]
    BY DEF Replace
  <1>3. acl' = [d \in Brokers |-> IF d = b THEN (acl[b] \ before) \cup after
                                  ELSE acl[d]]
    BY <1>1, <1>2
  <1>4. /\ acl' = [d \in Brokers |-> acl'[d]]
        /\ acl'[b] = (acl[b] \ before) \cup after
        /\ \A d \in Brokers \ {b} : acl'[d] = acl[d]
    BY <1>3
  <1>5. ASSUME \A a \in after : a.principal \in Clients \cup TopicUsers
        PROVE  AclType(acl')
    <2>1. \A d \in Brokers : \A a \in acl'[d] : a \in acl[d] \/ a \in after
      BY <1>4
    <2> QED BY <1>1, <1>5, <2>1 DEF AclType, TopicUsers
  <1> QED BY <1>4, <1>5

-----------------------------------------------------------------------------
(* What the steps of the passes do to the rules of others.                 *)

\* The rules of topics stay as they are.
TopicsKept == \A b \in Brokers : OfTopics(acl'[b]) = OfTopics(acl[b])

\* No client has a rule that it did not have.
ClientsKept ==
    \A b \in Brokers, c \in Clients : OfClient(c, acl'[b]) \subseteq OfClient(c, acl[b])

AclKept ==
    acl' = [b \in Brokers |-> acl'[b]] /\ AclType(acl')

\* A pass over the rules of one client at one broker.
LEMMA ReplaceClient ==
    ASSUME NamesApart, TypeInv, NEW b \in Brokers, NEW c \in Clients, NEW left,
           Replace(b, OfClient(c, acl[b]), left),
           \A a \in left : a.principal = c
    PROVE  /\ AclKept /\ TopicsKept
           /\ OfClient(c, acl'[b]) = left
           /\ \A d \in Brokers \ {b} : acl'[d] = acl[d]
  <1>1. /\ AclKept
        /\ acl'[b] = (acl[b] \ OfClient(c, acl[b])) \cup left
        /\ \A d \in Brokers \ {b} : acl'[d] = acl[d]
    <2> DEFINE before == OfClient(c, acl[b])
    <2> HIDE DEF before
    <2>1. Replace(b, before, left)
      BY DEF before
    <2>2. \A a \in left : a.principal \in Clients \cup TopicUsers
      OBVIOUS
    <2> QED BY <2>1, <2>2, AclReplaced DEF AclKept, before
  <1>2. c \notin TopicUsers
    BY DEF NamesApart, TopicUsers
  <1>3. OfTopics(acl'[b]) = OfTopics(acl[b])
    BY <1>1, <1>2 DEF OfTopics, OfClient, TopicUsers
  <1>4. OfClient(c, acl'[b]) = left
    BY <1>1 DEF OfClient
  <1> QED BY <1>1, <1>3, <1>4 DEF TopicsKept

\* A pass over the rules of topics and groups at one broker.
LEMMA ReplaceTopics ==
    ASSUME NamesApart, TypeInv, NEW b \in Brokers, NEW before, NEW after,
           Replace(b, before, after),
           \A a \in after : a.principal \in TopicUsers
    PROVE  /\ AclKept /\ ClientsKept
           /\ acl'[b] = (acl[b] \ before) \cup after
           /\ \A d \in Brokers \ {b} : acl'[d] = acl[d]
  <1>1. /\ AclKept
        /\ acl'[b] = (acl[b] \ before) \cup after
        /\ \A d \in Brokers \ {b} : acl'[d] = acl[d]
    <2>1. \A a \in after : a.principal \in Clients \cup TopicUsers
      OBVIOUS
    <2> QED BY <2>1, AclReplaced DEF AclKept
  <1>2. \A c \in Clients : c \notin TopicUsers
    BY DEF NamesApart, TopicUsers
  <1>3. \A c \in Clients : OfClient(c, acl'[b]) \subseteq OfClient(c, acl[b])
    BY <1>1, <1>2 DEF OfClient
  <1> QED BY <1>1, <1>3 DEF ClientsKept

-----------------------------------------------------------------------------
(* What users do to an object.                                             *)

\* An edit gives a ClientIntents another spec, and declares one that is not there.
LEMMA IntentsEdited ==
    ASSUME TypeInv, NEW c \in Clients, NEW spec \in Specs
    PROVE  \E object \in IntentsObjects :
             Edited(intents, c, "spec", spec) = [intents EXCEPT ![c] = object]
  <1> DEFINE stage == IF intents[c].stage = None THEN "new" ELSE intents[c].stage
             object == [stage |-> stage, spec |-> spec]
  <1>1. intents \in [Clients -> IntentsObjects]
    BY DEF TypeInv
  <1>2. intents[c] = [stage |-> intents[c].stage, spec |-> intents[c].spec]
        /\ intents[c].stage \in Stages
    BY <1>1 DEF IntentsObjects
  <1>3. object \in IntentsObjects
    BY <1>2 DEF IntentsObjects, Stages
  <1>4. [intents[c] EXCEPT !["spec"] = spec] =
          [stage |-> intents[c].stage, spec |-> spec]
    BY <1>2
  <1>5. [intents[c] EXCEPT !.stage = "new", !["spec"] = spec] =
          [stage |-> "new", spec |-> spec]
    <2> DEFINE fresh == [intents[c] EXCEPT !.stage = "new", !["spec"] = spec]
    <2>1. DOMAIN fresh = {"stage", "spec"}
      BY <1>2
    <2>2. fresh = [field \in {"stage", "spec"} |-> fresh[field]]
      BY <1>2
    <2>3. fresh.stage = "new" /\ fresh.spec = spec
      BY <1>2
    <2> QED BY <2>1, <2>2, <2>3
  <1>6. Edited(intents, c, "spec", spec) = [intents EXCEPT ![c] = object]
    <2>1. CASE intents[c].stage = None
      BY <1>1, <1>5, <2>1 DEF Edited
    <2>2. CASE intents[c].stage # None
      BY <1>1, <1>4, <2>2 DEF Edited
    <2> QED BY <2>1, <2>2
  <1> QED BY <1>3, <1>6

\* A KafkaServerConfig is edited in the same way.
LEMMA ConfigEdited ==
    ASSUME TypeInv, NEW b \in Brokers, NEW topics \in TopicsConfs
    PROVE  \E object \in ConfigObjects :
             /\ Edited(config, b, "topics", topics) = [config EXCEPT ![b] = object]
             /\ object.stage = IF config[b].stage = None THEN "new" ELSE config[b].stage
  <1> DEFINE stage == IF config[b].stage = None THEN "new" ELSE config[b].stage
             object == [stage |-> stage, topics |-> topics]
  <1>1. config \in [Brokers -> ConfigObjects]
    BY DEF TypeInv
  <1>2. config[b] = [stage |-> config[b].stage, topics |-> config[b].topics]
        /\ config[b].stage \in Stages
    BY <1>1 DEF ConfigObjects, NoConfig, Stages
  <1>3. object \in ConfigObjects
    BY <1>2 DEF ConfigObjects, Stages, None
  <1>4. [config[b] EXCEPT !["topics"] = topics] =
          [stage |-> config[b].stage, topics |-> topics]
    BY <1>2
  <1>5. [config[b] EXCEPT !.stage = "new", !["topics"] = topics] =
          [stage |-> "new", topics |-> topics]
    <2> DEFINE fresh == [config[b] EXCEPT !.stage = "new", !["topics"] = topics]
    <2>1. DOMAIN fresh = {"stage", "topics"}
      BY <1>2
    <2>2. fresh = [field \in {"stage", "topics"} |-> fresh[field]]
      BY <1>2
    <2>3. fresh.stage = "new" /\ fresh.topics = topics
      BY <1>2
    <2> QED BY <2>1, <2>2, <2>3
  <1>6. Edited(config, b, "topics", topics) = [config EXCEPT ![b] = object]
    <2>1. CASE config[b].stage = None
      BY <1>1, <1>5, <2>1 DEF Edited
    <2>2. CASE config[b].stage # None
      BY <1>1, <1>4, <2>2 DEF Edited
    <2> QED BY <2>1, <2>2
  <1> QED BY <1>3, <1>6

\* A step of a user on a ClientIntents touches no other, and none that is being
\* deleted.
LEMMA IntentsChanged ==
    ASSUME TypeInv, NEW c \in Clients, ChangeIntents(c)
    PROVE  /\ intents[c].stage # "deleting"
           /\ \E object \in IntentsObjects : intents' = [intents EXCEPT ![c] = object]
  <1>1. CASE \E spec \in Specs : /\ intents[c].spec # spec
                                 /\ intents[c].stage # "deleting"
                                 /\ intents' = Edited(intents, c, "spec", spec)
    BY <1>1, IntentsEdited
  <1>2. CASE intents[c].stage \in {"new", "live"}
             /\ intents' = Deleted(intents, c, NoIntents)
    <2>1. intents[c] \in IntentsObjects
      BY DEF TypeInv
    <2> DEFINE object == IF intents[c].stage = "new" THEN NoIntents
                         ELSE [intents[c] EXCEPT !.stage = "deleting"]
    <2>2. object \in IntentsObjects
      BY <2>1 DEF IntentsObjects, NoIntents, Stages, None
    <2>3. intents' = [intents EXCEPT ![c] = object]
      BY <1>2 DEF Deleted
    <2> QED BY <1>2, <2>2, <2>3
  <1> QED BY <1>1, <1>2 DEF ChangeIntents

\* A step of a user on a KafkaServerConfig takes it to these stages.
LEMMA ConfigChanged ==
    ASSUME TypeInv, NEW b \in Brokers, ChangeConfig(b)
    PROVE  \E object \in ConfigObjects :
             /\ config' = [config EXCEPT ![b] = object]
             /\ config[b].stage \in {None, "new"} => object.stage \in {None, "new"}
             /\ config[b].stage \notin {None, "new"} =>
                  config[b].stage = "live" /\ object.stage \in {"live", "deleting"}
  <1>1. config[b] \in ConfigObjects /\ config[b].stage \in Stages
    BY DEF TypeInv, ConfigObjects, NoConfig, Stages
  <1>2. CASE \E topics \in TopicsConfs : /\ config[b].stage # "deleting"
                                         /\ config[b].stage = None \/ config[b].topics # topics
                                         /\ config' = Edited(config, b, "topics", topics)
    BY <1>1, <1>2, ConfigEdited DEF Stages, None
  <1>3. CASE config[b].stage \in {"new", "live"}
             /\ config' = Deleted(config, b, NoConfig)
    <2> DEFINE object == IF config[b].stage = "new" THEN NoConfig
                         ELSE [config[b] EXCEPT !.stage = "deleting"]
    <2>1. object \in ConfigObjects
          /\ object.stage = IF config[b].stage = "new" THEN None ELSE "deleting"
      BY <1>1, <1>3 DEF ConfigObjects, NoConfig, Stages, None
    <2>2. config' = [config EXCEPT ![b] = object]
      BY <1>3 DEF Deleted
    <2> QED BY <1>3, <2>1, <2>2 DEF None
  <1> QED BY <1>2, <1>3 DEF ChangeConfig

-----------------------------------------------------------------------------
(* What the steps of the passes do to the rules.                           *)

\* A step of an intents pass that came through leaves the client what it asks
\* for; one that failed ends the pass.
LEMMA ApplyRules ==
    ASSUME NamesApart, TypeInv, NEW b \in Brokers, ApplyAtBroker(b)
    PROVE  /\ AclKept /\ TopicsKept
           /\ \A d \in Brokers \ {b} : acl'[d] = acl[d]
           /\ intentsPass # Idle
           /\ \/ intentsPass' = Idle
              \/ /\ intentsPass' = [intentsPass EXCEPT !.visited = @ \cup {b}]
                 /\ intentsPass.copy.stage = "deleting" =>
                      OfClient(intentsPass.client, acl'[b]) = {}
  <1> DEFINE p == intentsPass
             c == p.client
             found == OfClient(c, acl[b])
             wanted == IF p.copy.stage = "deleting" THEN {}
                       ELSE Wanted(c, b, p.copy.spec)
  <1>1. p # Idle /\ c \in Clients
    BY DEF ApplyAtBroker, TypeInv, IntentsPasses, Idle
  <1>2. PICK left \in Halfway(found, wanted, Enforced(b))
                        \cup {Reconciled(found, wanted, Enforced(b))} :
          /\ Replace(b, found, left)
          /\ \/ intentsPass' = Idle
             \/ /\ intentsPass' = [p EXCEPT !.visited = @ \cup {b}]
                /\ left = Reconciled(found, wanted, Enforced(b))
    BY DEF ApplyAtBroker
  <1>3. \A a \in wanted : a.principal = c
    BY WantedOfClient
  <1> HIDE DEF wanted
  <1>4. \A a \in left : a.principal = c
    <2>1. left \subseteq found \cup (IF Enforced(b) THEN wanted ELSE {})
      BY NothingElse
    <2> QED BY <1>3, <2>1 DEF OfClient
  <1>5. /\ AclKept /\ TopicsKept
        /\ OfClient(c, acl'[b]) = left
        /\ \A d \in Brokers \ {b} : acl'[d] = acl[d]
    BY <1>1, <1>2, <1>4, ReplaceClient
  <1>6. p.copy.stage = "deleting" => Reconciled(found, wanted, Enforced(b)) = {}
    BY DEF Reconciled, wanted
  <1> QED BY <1>1, <1>2, <1>5, <1>6

\* Adding a server to the store applies the rules of its topics, or leaves the
\* pass to be retried.  Without enforcement no rules of topics come about.
LEMMA AddRules ==
    ASSUME NamesApart, TypeInv, AddServer
    PROVE  /\ AclKept /\ ClientsKept
           /\ \A d \in Brokers \ {configPass.broker} : acl'[d] = acl[d]
           /\ ~DefaultEnforced /\ OfTopics(acl[configPass.broker]) = {} =>
                OfTopics(acl'[configPass.broker]) = {}
           /\ \/ configPass' = Idle /\ Requeue(configPass.broker)
              \/ /\ configPass' = Idle /\ UNCHANGED queue
                 /\ DefaultEnforced \/ OfTopics(acl[configPass.broker]) = {} =>
                      OfTopics(acl'[configPass.broker]) =
                        IF DefaultEnforced THEN Rules(configPass.copy.topics) ELSE {}
  <1> DEFINE p == configPass
             b == p.broker
             found == OfTopics(acl[b])
             wanted == Rules(p.copy.topics)
             asked == IF DefaultEnforced THEN wanted ELSE {}
  <1>1. b \in Brokers /\ p.copy.topics \in TopicsConfs
    BY DEF AddServer, TypeInv, ConfigPasses, ConfigObjects, NoConfig, Idle, None
  <1>2. OfTopics(wanted) = wanted /\ \A a \in wanted : a.principal \in TopicUsers
    BY <1>1, RulesOfTopics
  <1>3. OfTopics(GroupRules) = {} /\ \A a \in GroupRules : a.principal \in TopicUsers
    BY RulesOfGroups DEF OfTopics
  <1>4. OfTopics(asked) = asked /\ \A a \in asked : a.principal \in TopicUsers
    BY <1>2 DEF OfTopics
  <1> HIDE DEF wanted
  <1>5. CASE /\ Replace(b, found, Reconciled(found, wanted, DefaultEnforced) \cup GroupRules)
             /\ configPass' = Idle
             /\ UNCHANGED <<queue, faults>>
    <2> DEFINE after == Reconciled(found, wanted, DefaultEnforced) \cup GroupRules
    <2>1. \A a \in after : a.principal \in TopicUsers
      BY <1>2, <1>3 DEF Reconciled
    <2>2. /\ AclKept /\ ClientsKept
          /\ acl'[b] = (acl[b] \ found) \cup after
          /\ \A d \in Brokers \ {b} : acl'[d] = acl[d]
      <3> HIDE DEF after, found, b
      <3> QED BY <1>1, <1>5, <2>1, ReplaceTopics DEF after
    <2>3. DefaultEnforced \/ found = {} =>
            Reconciled(found, wanted, DefaultEnforced) = asked
      BY DEF Reconciled
    <2>4. DefaultEnforced \/ found = {} => OfTopics(acl'[b]) = asked
      BY <1>3, <1>4, <2>2, <2>3 DEF OfTopics
    <2> QED BY <1>5, <2>2, <2>4 DEF wanted
  <1>6. CASE /\ \E left \in Halfway(found, wanted, DefaultEnforced) : Replace(b, found, left)
             /\ FailConfig
    <2>1. PICK left \in Halfway(found, wanted, DefaultEnforced) : Replace(b, found, left)
      BY <1>6
    <2>2. left \subseteq found \cup asked
      BY NothingElse
    <2>3. \A a \in left : a.principal \in TopicUsers
      BY <1>4, <2>2 DEF OfTopics, TopicUsers
    <2>4. /\ AclKept /\ ClientsKept
          /\ acl'[b] = (acl[b] \ found) \cup left
          /\ \A d \in Brokers \ {b} : acl'[d] = acl[d]
      <3> HIDE DEF found, b
      <3> QED BY <1>1, <2>1, <2>3, ReplaceTopics
    <2>5. ~DefaultEnforced /\ found = {} => OfTopics(acl'[b]) = {}
      BY <2>2, <2>4 DEF OfTopics
    <2> QED BY <1>6, <2>4, <2>5 DEF FailConfig
  <1> QED BY <1>5, <1>6 DEF AddServer, wanted

\* Removing a server from the store takes rules away and adds none.
LEMMA RemoveRules ==
    ASSUME NamesApart, TypeInv, RemoveServer
    PROVE  /\ AclKept /\ ClientsKept
           /\ \A d \in Brokers \ {configPass.broker} : acl'[d] = acl[d]
           /\ OfTopics(acl[configPass.broker]) = {} =>
                OfTopics(acl'[configPass.broker]) = {}
  <1> DEFINE b == configPass.broker
  <1>1. b \in Brokers
    BY DEF RemoveServer, TypeInv, ConfigPasses, Idle
  <1>2. CASE acl' = acl
    BY <1>2 DEF TypeInv, AclKept, ClientsKept
  <1>3. CASE \E part : Replace(b, part, {})
    <2>1. PICK part : Replace(b, part, {})
      BY <1>3
    <2>2. /\ AclKept /\ ClientsKept
          /\ acl'[b] = (acl[b] \ part) \cup {}
          /\ \A d \in Brokers \ {b} : acl'[d] = acl[d]
      <3> HIDE DEF b
      <3> QED BY <1>1, <2>1, ReplaceTopics
    <2> QED BY <2>2 DEF OfTopics
  <1> QED BY <1>2, <1>3 DEF RemoveServer

-----------------------------------------------------------------------------
(* Types.                                                                  *)

\* A user's step changes one kind of object and nothing of the passes, the store
\* or the rules; every pass is of an object that is there, and ends or goes on.
LEMMA TypeInvariant ==
    ASSUME NamesApart
    PROVE  Spec => []TypeInv
  <1>1. Init => TypeInv
    <2> SUFFICES ASSUME Init PROVE TypeInv
      OBVIOUS
    <2>1. PICK configured \in SUBSET Brokers, topics \in TopicsConfs :
         /\ config = [b \in Brokers |-> IF b \in configured THEN [stage |-> "live", topics |-> topics]
                                        ELSE NoConfig]
         /\ operatorIntents = configured
         /\ store = [b \in Brokers |-> IF b \in configured THEN {topics} ELSE {}]
         /\ acl = [b \in Brokers |-> IF b \notin configured THEN {}
                                     ELSE GroupRules \cup (IF DefaultEnforced THEN Rules(topics) ELSE {})]
      BY DEF Init
    <2>2. intents \in [Clients -> IntentsObjects]
      BY DEF Init, IntentsObjects, NoIntents, Stages
    <2>3. config \in [Brokers -> ConfigObjects]
      BY <2>1 DEF ConfigObjects, Stages, None
    <2>4. acl = [b \in Brokers |-> acl[b]]
      BY <2>1
    <2>5. AclType(acl)
      <3>1. \A b \in Brokers : acl[b] \subseteq GroupRules \cup Rules(topics)
        BY <2>1
      <3> QED BY <3>1, RulesOfGroups, RulesOfTopics DEF AclType, TopicUsers
    <2>6. store \in [Brokers -> SUBSET TopicsConfs]
      BY <2>1
    <2> QED BY <2>1, <2>2, <2>3, <2>4, <2>5, <2>6 DEF Init, TypeInv
  <1>2. TypeInv /\ [Next]_vars => TypeInv'
    <2> SUFFICES ASSUME TypeInv, [Next]_vars PROVE TypeInv'
      OBVIOUS
    <2>1. ASSUME NEW c \in Clients, BeginIntents(c) PROVE TypeInv'
      <3>1. intentsCache[c] \in IntentsObjects
        BY DEF TypeInv
      <3>2. intents' \in [Clients -> IntentsObjects]
        <4>1. [intents[c] EXCEPT !.stage = "live"] \in IntentsObjects
          BY DEF TypeInv, IntentsObjects, Stages
        <4> QED BY <2>1, <4>1 DEF BeginIntents, TypeInv
      <3>3. intentsPass' \in IntentsPasses \cup {Idle}
        BY <2>1, <3>1 DEF BeginIntents, TypeInv, IntentsPasses
      <3>4. queue' \subseteq Clients \cup Brokers
        BY <2>1 DEF BeginIntents, TypeInv
      <3> QED BY <2>1, <3>2, <3>3, <3>4 DEF BeginIntents, TypeInv
    <2>2. ASSUME NEW b \in Brokers, ApplyAtBroker(b) PROVE TypeInv'
      <3>1. AclKept
        BY <2>2, ApplyRules
      <3>2. intentsPass' \in IntentsPasses \cup {Idle}
        BY <2>2 DEF ApplyAtBroker, TypeInv, IntentsPasses, Idle
      <3>3. queue' \subseteq Clients \cup Brokers
        BY <2>2 DEF ApplyAtBroker, TypeInv, IntentsPasses, Idle, Requeue
      <3> QED BY <2>2, <3>1, <3>2, <3>3 DEF ApplyAtBroker, objectVars, TypeInv, AclKept
    <2>3. CASE EndIntents
      <3>1. intents' \in [Clients -> IntentsObjects]
        BY <2>3 DEF EndIntents, TypeInv, IntentsObjects, NoIntents, Stages
      <3>2. intentsPass' = Idle /\ queue' \subseteq Clients \cup Brokers
        BY <2>3 DEF EndIntents, TypeInv, IntentsPasses, Idle, Requeue
      <3> QED BY <2>3, <3>1, <3>2 DEF EndIntents, TypeInv
    <2>4. ASSUME NEW b \in Brokers, BeginConfig(b) PROVE TypeInv'
      <3>1. configCache[b] \in ConfigObjects
        BY DEF TypeInv
      <3>2. config' \in [Brokers -> ConfigObjects]
        <4>1. CASE configCache[b].stage = "new" /\ config[b] = configCache[b]
          <5>1. [config[b] EXCEPT !.stage = "live"] \in ConfigObjects
            BY <3>1, <4>1 DEF ConfigObjects, NoConfig, Stages, None
          <5> QED BY <2>4, <5>1 DEF BeginConfig, TypeInv
        <4>2. CASE ~(configCache[b].stage = "new" /\ config[b] = configCache[b])
          BY <2>4, <4>2 DEF BeginConfig, TypeInv
        <4> QED BY <4>1, <4>2
      <3>3. configPass' \in ConfigPasses \cup {Idle}
            /\ (configPass' # Idle => configPass'.copy.stage # None)
        BY <2>4, <3>1 DEF BeginConfig, TypeInv, ConfigPasses
      <3>4. queue' \subseteq Clients \cup Brokers
        BY <2>4 DEF BeginConfig, TypeInv
      <3> QED BY <2>4, <3>2, <3>3, <3>4 DEF BeginConfig, TypeInv
    <2>5. CASE DeclareOperator
      <3>1. configPass \in ConfigPasses /\ configPass.copy.stage # None
        BY <2>5 DEF DeclareOperator, TypeInv, Idle
      <3>2. operatorIntents' \subseteq Brokers /\ queue' \subseteq Clients \cup Brokers
        BY <2>5, <3>1 DEF DeclareOperator, FailConfig, Requeue, TypeInv, ConfigPasses
      <3>3. configPass' \in ConfigPasses \cup {Idle}
            /\ (configPass' # Idle => configPass'.copy.stage # None)
        BY <2>5, <3>1 DEF DeclareOperator, FailConfig, ConfigPasses
      <3> QED BY <2>5, <3>2, <3>3 DEF DeclareOperator, TypeInv
    <2>6. CASE AddServer
      <3>1. configPass \in ConfigPasses /\ configPass.copy.stage # None
        BY <2>6 DEF AddServer, TypeInv, Idle
      <3>2. configPass.copy.topics \in TopicsConfs
        BY <3>1 DEF ConfigPasses, ConfigObjects, NoConfig
      <3>3. store' \in [Brokers -> SUBSET TopicsConfs]
        BY <2>6, <3>2 DEF AddServer, TypeInv
      <3>4. AclKept
        BY <2>6, AddRules
      <3>5. configPass' = Idle /\ queue' \subseteq Clients \cup Brokers
        BY <2>6, <3>1 DEF AddServer, FailConfig, Requeue, TypeInv, ConfigPasses
      <3> QED BY <2>6, <3>3, <3>4, <3>5 DEF AddServer, objectVars, TypeInv, AclKept
    <2>7. CASE RemoveServer
      <3>1. configPass \in ConfigPasses /\ configPass.copy.stage # None
        BY <2>7 DEF RemoveServer, TypeInv, Idle
      <3>2. AclKept
        BY <2>7, RemoveRules
      <3>3. store' \in [Brokers -> SUBSET TopicsConfs]
            /\ queue' \subseteq Clients \cup Brokers
        BY <2>7, <3>1 DEF RemoveServer, FailConfig, Requeue, TypeInv, ConfigPasses
      <3>4. configPass' \in ConfigPasses \cup {Idle}
            /\ (configPass' # Idle => configPass'.copy.stage # None)
        BY <2>7, <3>1 DEF RemoveServer, FailConfig, ConfigPasses
      <3> QED BY <2>7, <3>2, <3>3, <3>4 DEF RemoveServer, objectVars, TypeInv, AclKept
    <2>8. CASE WithdrawOperator
      <3>1. configPass \in ConfigPasses
        BY <2>8 DEF WithdrawOperator, TypeInv, Idle
      <3>2. config' \in [Brokers -> ConfigObjects]
        BY <2>8, <3>1 DEF WithdrawOperator, TypeInv, ConfigObjects
      <3>3. /\ operatorIntents' \subseteq Brokers
            /\ queue' \subseteq Clients \cup Brokers
            /\ configPass' = Idle
        BY <2>8, <3>1 DEF WithdrawOperator, FailConfig, Requeue, TypeInv, ConfigPasses
      <3> QED BY <2>8, <3>2, <3>3 DEF WithdrawOperator, TypeInv
    <2>9. ASSUME NEW c \in Clients, ChangeIntents(c) PROVE TypeInv'
      <3>1. intents' \in [Clients -> IntentsObjects]
        BY <2>9, IntentsChanged DEF TypeInv
      <3> QED BY <2>9, <3>1 DEF ChangeIntents, TypeInv
    <2>10. ASSUME NEW b \in Brokers, ChangeConfig(b) PROVE TypeInv'
      <3>1. config' \in [Brokers -> ConfigObjects]
        BY <2>10, ConfigChanged DEF TypeInv
      <3> QED BY <2>10, <3>1 DEF ChangeConfig, TypeInv
    <2>11. ASSUME NEW b \in Brokers, Protect(b) PROVE TypeInv'
      BY <2>11 DEF Protect, TypeInv
    <2>12. ASSUME NEW c \in Clients, SyncIntents(c) PROVE TypeInv'
      BY <2>12 DEF SyncIntents, TypeInv
    <2>13. ASSUME NEW b \in Brokers, SyncConfig(b) PROVE TypeInv'
      BY <2>13 DEF SyncConfig, TypeInv
    <2>14. CASE SyncOperatorIntents
      BY <2>14 DEF SyncOperatorIntents, TypeInv
    <2>15. CASE Resync
      BY <2>15 DEF Resync, objectVars, TypeInv
    <2>16. CASE Crash
      BY <2>16 DEF Crash, TypeInv
    <2>17. CASE UNCHANGED vars
      BY <2>17 DEF vars, objectVars, TypeInv
    <2> QED
      BY <2>1, <2>2, <2>3, <2>4, <2>5, <2>6, <2>7, <2>8, <2>9, <2>10, <2>11, <2>12,
         <2>13, <2>14, <2>15, <2>16, <2>17
      DEF Next, IntentsStep, ConfigStep, Sync, Users
  <1> QED BY <1>1, <1>2, PTL DEF Spec

\* Whatever fails and whenever the process restarts, every variable keeps its type.
THEOREM TypeCorrect ==
    ASSUME NamesApart
    PROVE  Spec => []TypeOK
  <1>1. TypeInv => TypeOK
    BY DEF TypeInv, TypeOK, IntentsObjects, ConfigObjects, NoConfig, Stages, AclType,
           IntentsPasses, ConfigPasses, Idle
  <1> QED BY <1>1, TypeInvariant, PTL

-----------------------------------------------------------------------------
\* Of a client that is being deleted nothing is left where its pass has been.
CleanInv ==
    intentsPass # Idle /\ intentsPass.copy.stage = "deleting" =>
      \A b \in intentsPass.visited : OfClient(intentsPass.client, acl[b]) = {}

\* Only a pass over the client's own rules adds to them, and it leaves none where
\* it has been for a client that is being deleted.
LEMMA CleanInvariant ==
    ASSUME NamesApart
    PROVE  Spec => []CleanInv
  <1>1. Init => CleanInv
    BY DEF Init, CleanInv
  <1>2. TypeInv /\ CleanInv /\ [Next]_vars => CleanInv'
    <2> SUFFICES ASSUME TypeInv, CleanInv, [Next]_vars PROVE CleanInv'
      OBVIOUS
    <2>1. ASSUME NEW c \in Clients, BeginIntents(c) PROVE CleanInv'
      BY <2>1 DEF BeginIntents, CleanInv
    <2>2. ASSUME NEW b \in Brokers, ApplyAtBroker(b) PROVE CleanInv'
      <3>1. CASE intentsPass' = Idle
        BY <3>1 DEF CleanInv
      <3>2. CASE /\ intentsPass' = [intentsPass EXCEPT !.visited = @ \cup {b}]
                 /\ intentsPass.copy.stage = "deleting" =>
                      OfClient(intentsPass.client, acl'[b]) = {}
        <4>1. intentsPass \in IntentsPasses /\ intentsPass # Idle
          BY <2>2 DEF ApplyAtBroker, TypeInv, Idle
        <4>2. /\ intentsPass'.copy = intentsPass.copy
              /\ intentsPass'.client = intentsPass.client
              /\ intentsPass'.visited = intentsPass.visited \cup {b}
              /\ intentsPass.visited \subseteq Brokers
          BY <3>2, <4>1 DEF IntentsPasses
        <4>3. \A d \in Brokers \ {b} : acl'[d] = acl[d]
          BY <2>2, ApplyRules
        <4> QED BY <3>2, <4>1, <4>2, <4>3 DEF CleanInv
      <3> QED BY <2>2, <3>1, <3>2, ApplyRules
    <2>3. CASE EndIntents \/ Crash
      BY <2>3 DEF EndIntents, Crash, CleanInv
    <2>4. CASE AddServer \/ RemoveServer
      <3>1. ClientsKept /\ UNCHANGED intentsPass
        BY <2>4, AddRules, RemoveRules DEF AddServer, RemoveServer
      <3>2. intentsPass # Idle =>
              intentsPass.client \in Clients /\ intentsPass.visited \subseteq Brokers
        BY DEF TypeInv, IntentsPasses
      <3> QED BY <3>1, <3>2 DEF CleanInv, ClientsKept
    <2>5. CASE UNCHANGED <<acl, intentsPass>>
      BY <2>5 DEF CleanInv
    <2> QED
      BY <2>1, <2>2, <2>3, <2>4, <2>5
      DEF Next, IntentsStep, ConfigStep, Sync, Users, BeginConfig, DeclareOperator,
          WithdrawOperator, ChangeIntents, ChangeConfig, Protect, SyncIntents, SyncConfig,
          SyncOperatorIntents, Resync, objectVars, vars
  <1> QED BY <1>1, <1>2, TypeInvariant, PTL DEF Spec

\* A finalizer is dropped at the end of a pass that has been everywhere it owed,
\* and what such a pass left clean is clean.
THEOREM ReleasedClean ==
    ASSUME NamesApart
    PROVE  Spec => [][ReleasesClean]_vars
  <1>1. TypeInv /\ CleanInv /\ Next => ReleasesClean
    <2> SUFFICES ASSUME TypeInv, CleanInv, Next,
                        NEW c \in Clients,
                        intents[c].stage = "deleting", intents'[c].stage = None
                 PROVE  \A b \in intentsPass.started :
                          store[b] # {} => OfClient(c, acl[b]) = {}
      BY DEF ReleasesClean
    <2>1. ASSUME NEW d \in Clients, BeginIntents(d) PROVE FALSE
      BY <2>1 DEF BeginIntents, TypeInv, IntentsObjects, None
    <2>2. ASSUME NEW d \in Clients, ChangeIntents(d) PROVE FALSE
      BY <2>2, IntentsChanged DEF TypeInv, None
    <2>3. intents' # intents
      BY DEF None
    <2>4. EndIntents
      BY <2>1, <2>2, <2>3
      DEF Next, IntentsStep, ConfigStep, Sync, Users, ApplyAtBroker, BeginConfig,
          DeclareOperator, AddServer, RemoveServer, WithdrawOperator, ChangeConfig, Protect,
          SyncIntents, SyncConfig, SyncOperatorIntents, Resync, Crash, objectVars
    <2>5. intentsPass \in IntentsPasses /\ intentsPass # Idle
      BY <2>4 DEF EndIntents, TypeInv, Idle
    <2>6. intentsPass.client = c /\ intentsPass.copy.stage = "deleting"
      BY <2>4, <2>5 DEF EndIntents, TypeInv, IntentsPasses, None
    <2>7. \A b \in intentsPass.started : store[b] # {} => b \in intentsPass.visited
      BY <2>4, <2>5 DEF EndIntents, Owed, Ahead, IntentsPasses
    <2> QED BY <2>5, <2>6, <2>7 DEF CleanInv
  <1>2. TypeInv /\ CleanInv /\ [Next]_vars => [ReleasesClean]_vars
    BY <1>1
  <1> QED BY <1>2, TypeInvariant, CleanInvariant, PTL DEF Spec

-----------------------------------------------------------------------------
Under(b) == configPass # Idle /\ configPass.broker = b

\* The broker is in the store, and its topics have their rules.
Applied(b, topics) ==
    /\ store[b] = {topics}
    /\ OfTopics(acl[b]) = IF DefaultEnforced THEN Rules(topics) ELSE {}

\* What the config in the cache asks for is done.
Handled(b) ==
    /\ configCache[b].stage = "live" => Applied(b, configCache[b].topics)
    /\ configCache[b].stage = "deleting" => config[b].stage # "deleting"

\* How far the config of a broker may be ahead of the cache.
Follows(b) ==
    /\ configCache[b].stage = None => config[b].stage \in {None, "new"}
    /\ configCache[b].stage = "new" =>
         b \in queue \/ config[b].stage \in {"live", "deleting"}
    /\ configCache[b].stage = "live" => config[b].stage \in {"live", "deleting"}
    /\ configCache[b].stage = "deleting" => config[b].stage # "live"

\* The pass p is of the config in the cache, or its broker is called again; no
\* other pass can have finished what p has begun.
PassInv(p) ==
    /\ p.broker \in queue \/ p.copy = configCache[p.broker]
    /\ p.pc = "apply" => p.copy.stage \in {"new", "live"}
    /\ p.pc \in {"remove", "withdraw"} => p.copy.stage = "deleting"
    /\ p.pc = "withdraw" => store[p.broker] = {}
    /\ p.copy.stage \in {"new", "live"} =>
         config[p.broker].stage \in {"live", "deleting"}
    /\ p.copy.stage = "deleting" =>
         /\ config[p.broker].stage # "live"
         /\ config[p.broker].stage = "deleting" =>
              configCache[p.broker].stage = "deleting"

BrokerInv(b) ==
    /\ b \in queue \/ Under(b) \/ Handled(b)
    /\ Follows(b)
    /\ store[b] # {} => config[b].stage \in {"live", "deleting"}
    /\ ~DefaultEnforced => OfTopics(acl[b]) = {}

ServerInv ==
    /\ configPass # Idle => PassInv(configPass)
    /\ \A b \in Brokers : BrokerInv(b)

\* While the store is behind a config, its broker is called or under way; a retry
\* is a call, and a restart calls every broker that has a config.
LEMMA ServerInvariant ==
    ASSUME NamesApart
    PROVE  Spec => []ServerInv
  <1>1. Init => ServerInv
    <2> SUFFICES ASSUME Init PROVE ServerInv
      OBVIOUS
    <2>1. PICK configured \in SUBSET Brokers, topics \in TopicsConfs :
         /\ config = [b \in Brokers |-> IF b \in configured THEN [stage |-> "live", topics |-> topics]
                                        ELSE NoConfig]
         /\ operatorIntents = configured
         /\ store = [b \in Brokers |-> IF b \in configured THEN {topics} ELSE {}]
         /\ acl = [b \in Brokers |-> IF b \notin configured THEN {}
                                     ELSE GroupRules \cup (IF DefaultEnforced THEN Rules(topics) ELSE {})]
      BY DEF Init
    <2> DEFINE rules == IF DefaultEnforced THEN Rules(topics) ELSE {}
    <2>2. OfTopics(GroupRules) = {}
      BY RulesOfGroups DEF OfTopics
    <2>3. OfTopics(rules) = rules
      BY RulesOfTopics DEF OfTopics
    <2>4. OfTopics(GroupRules \cup rules) = rules
      BY <2>2, <2>3 DEF OfTopics
    <2>5. OfTopics({}) = {}
      BY DEF OfTopics
    <2> HIDE DEF rules
    <2>6. \A b \in Brokers : b \in configured => acl[b] = GroupRules \cup rules
      BY <2>1 DEF rules
    <2>7. ASSUME NEW b \in Brokers PROVE BrokerInv(b)
      <3>1. CASE b \in configured
        <4>1. config[b] = [stage |-> "live", topics |-> topics] /\ configCache = config
              /\ store[b] = {topics} /\ OfTopics(acl[b]) = rules
          BY <2>1, <2>4, <2>6, <3>1 DEF Init
        <4>2. Applied(b, configCache[b].topics)
          BY <4>1 DEF Applied, rules
        <4> QED BY <4>1, <4>2 DEF BrokerInv, Handled, Follows, None, rules
      <3>2. CASE b \notin configured
        <4>1. config[b] = NoConfig /\ configCache = config /\ store[b] = {} /\ acl[b] = {}
          BY <2>1, <3>2 DEF Init
        <4> QED BY <4>1, <2>5 DEF BrokerInv, Handled, Follows, None, NoConfig
      <3> QED BY <3>1, <3>2
    <2> QED BY <2>7 DEF ServerInv, Init
  <1>2. TypeInv /\ ServerInv /\ [Next]_vars => ServerInv'
    <2> SUFFICES ASSUME TypeInv, ServerInv, [Next]_vars PROVE ServerInv'
      OBVIOUS
    <2>0. /\ \A b \in Brokers : BrokerInv(b)
          /\ configPass # Idle => PassInv(configPass)
          /\ configPass # Idle => configPass \in ConfigPasses /\ configPass.copy.stage # None
      BY DEF ServerInv, TypeInv
    <2>1. ASSUME UNCHANGED <<config, configCache, store, configPass>>,
                 queue \cap Brokers \subseteq queue',
                 TopicsKept
          PROVE  ServerInv'
      <3>1. \A b \in Brokers : b \in queue => b \in queue'
        BY <2>1
      <3>2. configPass # Idle => PassInv(configPass)'
        BY <2>0, <2>1, <3>1 DEF PassInv, ConfigPasses
      <3>3. \A b \in Brokers : BrokerInv(b)'
        BY <2>0, <2>1, <3>1 DEF BrokerInv, Under, Handled, Applied, Follows, TopicsKept
      <3> QED BY <2>1, <3>2, <3>3 DEF ServerInv
    <2>2. ASSUME NEW c \in Clients, BeginIntents(c) PROVE ServerInv'
      <3>1. queue \cap Brokers \subseteq queue'
        BY <2>2 DEF BeginIntents, NamesApart
      <3> QED BY <2>1, <2>2, <3>1 DEF BeginIntents, TopicsKept
    <2>3. ASSUME NEW b \in Brokers, ApplyAtBroker(b) PROVE ServerInv'
      <3>1. UNCHANGED <<config, configCache, store, configPass>> /\ queue \subseteq queue'
        BY <2>3 DEF ApplyAtBroker, objectVars, Requeue
      <3>2. TopicsKept
        BY <2>3, ApplyRules
      <3> QED BY <2>1, <3>1, <3>2
    <2>4. ASSUME UNCHANGED <<config, configCache, store, configPass, acl>>,
                 queue \subseteq queue'
          PROVE  ServerInv'
      BY <2>1, <2>4 DEF TopicsKept
    <2>5. CASE EndIntents
      BY <2>4, <2>5 DEF EndIntents, Requeue
    <2>6. ASSUME NEW b \in Brokers, BeginConfig(b) PROVE ServerInv'
      <3> DEFINE copy == configCache[b]
      <3>1. BrokerInv(b) /\ copy \in ConfigObjects
        BY <2>0 DEF TypeInv
      <3>2. CASE copy.stage = None
        <4>1. Handled(b)
          BY <3>2 DEF Handled, None
        <4>2. UNCHANGED <<config, configCache, store, configPass, acl>> /\ queue' = queue \ {b}
              /\ configPass = Idle
          BY <2>6, <3>2 DEF BeginConfig, None
        <4>3. BrokerInv(b)'
          BY <3>1, <3>2, <4>1, <4>2 DEF BrokerInv, Under, Handled, Applied, Follows, None
        <4>4. \A d \in Brokers \ {b} : BrokerInv(d)'
          BY <2>0, <4>2 DEF BrokerInv, Under, Handled, Applied, Follows
        <4> QED BY <4>2, <4>3, <4>4 DEF ServerInv
      <3>3. CASE copy.stage = "new" /\ config[b] # copy
        BY <2>4, <2>6, <3>3 DEF BeginConfig, None
      <3>4. CASE copy.stage # None /\ ~(copy.stage = "new" /\ config[b] # copy)
        <4>1. /\ UNCHANGED <<configCache, store, acl>> /\ queue' = queue \ {b}
              /\ configPass = Idle
              /\ configPass' = [pc |-> "declare", broker |-> b, copy |-> copy]
              /\ config' = IF copy.stage = "new" THEN [config EXCEPT ![b].stage = "live"]
                           ELSE config
          <5>1. UNCHANGED <<configCache, store, acl>> /\ configPass = Idle
            BY <2>6 DEF BeginConfig
          <5>2. queue' = queue \ {b}
            BY <2>6, <3>4 DEF BeginConfig
          <5>3. configPass' = [pc |-> "declare", broker |-> b, copy |-> copy]
            BY <2>6, <3>4 DEF BeginConfig
          <5>4. config' = IF copy.stage = "new" THEN [config EXCEPT ![b].stage = "live"]
                          ELSE config
            BY <2>6, <3>4 DEF BeginConfig
          <5> QED BY <5>1, <5>2, <5>3, <5>4
        <4>2. /\ \A d \in Brokers \ {b} : config'[d] = config[d]
              /\ config'[b].stage = IF copy.stage = "new" THEN "live" ELSE config[b].stage
          BY <4>1 DEF TypeInv, ConfigObjects, NoConfig
        <4>3. copy.stage \in {"new", "live", "deleting"}
          BY <3>1, <3>4 DEF ConfigObjects, NoConfig, Stages, None
        <4>4. copy.stage = "new" => config[b].stage = "new"
          BY <3>4
        <4>5. configPass'.pc = "declare" /\ configPass'.broker = b /\ configPass'.copy = copy
          BY <4>1
        <4>6. PassInv(configPass)'
          BY <3>1, <4>1, <4>2, <4>3, <4>5 DEF PassInv, BrokerInv, Follows, None
        <4>7. Under(b)'
          BY <4>1, <4>5 DEF Under, Idle
        <4>8. BrokerInv(b)'
          BY <3>1, <4>1, <4>2, <4>3, <4>4, <4>7 DEF BrokerInv, Follows, None
        <4>9. \A d \in Brokers \ {b} : BrokerInv(d)'
          BY <2>0, <4>1, <4>2 DEF BrokerInv, Under, Handled, Applied, Follows
        <4> QED BY <4>6, <4>8, <4>9 DEF ServerInv
      <3> QED BY <3>2, <3>3, <3>4
    \* What a step of a pass does to other brokers is nothing.
    <2>7. ASSUME NEW b \in Brokers, configPass # Idle, configPass.broker = b,
                 \A d \in Brokers \ {b} :
                   /\ config'[d] = config[d] /\ store'[d] = store[d] /\ acl'[d] = acl[d],
                 UNCHANGED configCache, queue \subseteq queue',
                 configPass' # Idle => configPass'.broker = b,
                 BrokerInv(b)',
                 configPass' # Idle => PassInv(configPass)'
          PROVE  ServerInv'
      <3>1. \A d \in Brokers \ {b} : BrokerInv(d)'
        BY <2>0, <2>7 DEF BrokerInv, Under, Handled, Applied, Follows
      <3> QED BY <2>7, <3>1 DEF ServerInv
    <2> DEFINE p == configPass
    <2>8. PICK b :
            configPass # Idle =>
            /\ b = p.broker /\ b \in Brokers /\ BrokerInv(b) /\ PassInv(p)
            /\ p \in ConfigPasses /\ p.copy \in ConfigObjects /\ p.copy.stage # None
      BY <2>0 DEF ConfigPasses
    <2>9. CASE DeclareOperator
      <3>1. p # Idle /\ UNCHANGED <<config, configCache, store, acl>> /\ queue \subseteq queue'
        BY <2>9 DEF DeclareOperator, Idle, FailConfig, Requeue
      <3>2. CASE FailConfig
        <4>1. BrokerInv(b)'
          BY <2>8, <3>1, <3>2 DEF FailConfig, Requeue, BrokerInv, Follows
        <4> QED BY <2>7, <2>8, <3>1, <3>2, <4>1 DEF FailConfig
      <3>3. CASE /\ p' = [p EXCEPT !.pc = IF p.copy.stage = "deleting" THEN "remove" ELSE "apply"]
                 /\ UNCHANGED queue
        <4>1. /\ p'.pc = IF p.copy.stage = "deleting" THEN "remove" ELSE "apply"
              /\ p'.broker = b /\ p'.copy = p.copy
          BY <2>8, <3>1, <3>3 DEF ConfigPasses
        <4>2. p' # Idle
          BY <4>1 DEF Idle
        <4>3. p.copy.stage \in {"new", "live", "deleting"}
          BY <2>8, <3>1 DEF ConfigObjects, NoConfig, Stages, None
        <4>4. PassInv(p)'
          BY <2>8, <3>1, <3>3, <4>1, <4>3 DEF PassInv
        <4>5. BrokerInv(b)'
          BY <2>8, <3>1, <3>3, <4>1, <4>2 DEF BrokerInv, Under, Follows
        <4> QED BY <2>7, <2>8, <3>1, <4>1, <4>2, <4>4, <4>5
      <3> QED BY <2>9, <3>2, <3>3 DEF DeclareOperator
    <2>10. CASE AddServer
      <3>1. /\ p # Idle /\ p.pc = "apply"
            /\ UNCHANGED <<config, configCache>> /\ queue \subseteq queue' /\ p' = Idle
            /\ store' = [store EXCEPT ![p.broker] = {p.copy.topics}]
        BY <2>10 DEF AddServer, Idle, FailConfig, Requeue, objectVars
      <3>2. /\ store'[b] = {p.copy.topics}
            /\ \A d \in Brokers \ {b} : store'[d] = store[d]
        BY <2>8, <3>1 DEF TypeInv
      <3>3. /\ \A d \in Brokers \ {b} : acl'[d] = acl[d]
            /\ ~DefaultEnforced => OfTopics(acl'[b]) = {}
        BY <2>8, <2>10, <3>1, AddRules DEF BrokerInv
      <3>4. \/ b \in queue'
            \/ /\ UNCHANGED queue
               /\ OfTopics(acl'[b]) = IF DefaultEnforced THEN Rules(p.copy.topics) ELSE {}
        BY <2>8, <2>10, <3>1, AddRules DEF BrokerInv, Requeue
      <3>5. p.copy.stage \in {"new", "live"} /\ config[b].stage \in {"live", "deleting"}
        BY <2>8, <3>1 DEF PassInv
      <3>6. b \in queue' \/ Handled(b)'
        BY <2>8, <3>1, <3>2, <3>4, <3>5 DEF Handled, Applied, PassInv
      <3>7. BrokerInv(b)'
        BY <2>8, <3>1, <3>3, <3>5, <3>6 DEF BrokerInv, Follows
      <3> QED BY <2>7, <2>8, <3>1, <3>2, <3>3, <3>7
    <2>11. CASE RemoveServer
      <3>1. /\ p # Idle /\ p.pc = "remove"
            /\ UNCHANGED <<config, configCache>> /\ queue \subseteq queue'
        BY <2>11 DEF RemoveServer, Idle, FailConfig, Requeue, objectVars
      <3>2. /\ \A d \in Brokers \ {b} : acl'[d] = acl[d]
            /\ ~DefaultEnforced => OfTopics(acl'[b]) = {}
        BY <2>8, <2>11, <3>1, RemoveRules DEF BrokerInv
      <3>3. CASE FailConfig /\ UNCHANGED store
        <4>1. BrokerInv(b)'
          BY <2>8, <3>1, <3>2, <3>3 DEF FailConfig, Requeue, BrokerInv, Follows
        <4> QED BY <2>7, <2>8, <3>1, <3>2, <3>3, <4>1 DEF FailConfig
      <3>4. CASE /\ p' = [p EXCEPT !.pc = "withdraw"] /\ UNCHANGED queue
                 /\ \/ store' = [store EXCEPT ![p.broker] = {}]
                    \/ store[p.broker] = {} /\ UNCHANGED store
        <4>1. p'.pc = "withdraw" /\ p'.broker = b /\ p'.copy = p.copy /\ p' # Idle
          BY <2>8, <3>1, <3>4 DEF ConfigPasses, Idle
        <4>2. /\ store'[b] = {}
              /\ \A d \in Brokers \ {b} : store'[d] = store[d]
          BY <2>8, <3>1, <3>4 DEF TypeInv
        <4>3. PassInv(p)'
          BY <2>8, <3>1, <3>4, <4>1, <4>2 DEF PassInv
        <4>4. BrokerInv(b)'
          BY <2>8, <3>1, <3>2, <3>4, <4>1, <4>2 DEF BrokerInv, Under, Follows
        <4> QED BY <2>7, <2>8, <3>1, <3>2, <3>4, <4>1, <4>2, <4>3, <4>4
      <3> QED BY <2>11, <3>3, <3>4 DEF RemoveServer
    <2>12. CASE WithdrawOperator
      <3>1. /\ p # Idle /\ p.pc = "withdraw" /\ p' = Idle
            /\ UNCHANGED <<configCache, store, acl>> /\ queue \subseteq queue'
        BY <2>12 DEF WithdrawOperator, Idle, FailConfig, Requeue
      <3>2. CASE FailConfig /\ UNCHANGED config
        <4>1. BrokerInv(b)'
          BY <2>8, <3>1, <3>2 DEF FailConfig, Requeue, BrokerInv, Follows
        <4> QED BY <2>7, <2>8, <3>1, <3>2, <4>1
      <3>3. CASE /\ config[b] = p.copy /\ UNCHANGED queue
                 /\ config' = [config EXCEPT ![b] = NoConfig]
        <4>1. config'[b].stage = None /\ \A d \in Brokers \ {b} : config'[d] = config[d]
          BY <2>8, <3>1, <3>3 DEF TypeInv, NoConfig
        <4>2. configCache[b].stage = "deleting" /\ store[b] = {}
          BY <2>8, <3>1, <3>3 DEF PassInv
        <4>3. Handled(b)'
          BY <3>1, <4>1, <4>2 DEF Handled, None
        <4>4. BrokerInv(b)'
          BY <2>8, <3>1, <4>1, <4>2, <4>3 DEF BrokerInv, Follows, None
        <4> QED BY <2>7, <2>8, <3>1, <4>1, <4>4
      <3> QED BY <2>8, <2>12, <3>1, <3>2, <3>3 DEF WithdrawOperator
    <2>13. ASSUME NEW e \in Brokers, ChangeConfig(e) PROVE ServerInv'
      <3>1. PICK object \in ConfigObjects :
             /\ config' = [config EXCEPT ![e] = object]
             /\ config[e].stage \in {None, "new"} => object.stage \in {None, "new"}
             /\ config[e].stage \notin {None, "new"} =>
                  config[e].stage = "live" /\ object.stage \in {"live", "deleting"}
        BY <2>13, ConfigChanged
      <3>2. config'[e] = object /\ \A d \in Brokers \ {e} : config'[d] = config[d]
        BY <3>1 DEF TypeInv
      <3>3. UNCHANGED <<configCache, store, acl, queue, configPass>>
        BY <2>13 DEF ChangeConfig
      <3>4. p # Idle => PassInv(p)'
        <4>1. CASE p # Idle /\ b = e
          BY <2>0, <2>8, <3>1, <3>2, <3>3, <4>1 DEF PassInv, BrokerInv, Follows, None
        <4>2. CASE p # Idle /\ b # e
          BY <2>8, <3>2, <3>3, <4>2 DEF PassInv
        <4> QED BY <4>1, <4>2
      <3>5. BrokerInv(e)'
        BY <2>0, <3>1, <3>2, <3>3 DEF BrokerInv, Under, Handled, Applied, Follows, None
      <3>6. \A d \in Brokers \ {e} : BrokerInv(d)'
        BY <2>0, <3>2, <3>3 DEF BrokerInv, Under, Handled, Applied, Follows
      <3> QED BY <3>3, <3>4, <3>5, <3>6 DEF ServerInv
    <2>14. ASSUME NEW e \in Brokers, SyncConfig(e) PROVE ServerInv'
      <3>1. /\ UNCHANGED <<config, store, acl, configPass>> /\ queue' = queue \cup {e}
            /\ configCache' = [configCache EXCEPT ![e] = config[e]]
        BY <2>14 DEF SyncConfig
      <3>2. configCache'[e] = config[e]
            /\ \A d \in Brokers \ {e} : configCache'[d] = configCache[d]
        BY <3>1 DEF TypeInv
      <3>3. p # Idle => PassInv(p)'
        <4>1. CASE p # Idle /\ b = e
          BY <2>8, <3>1, <3>2, <4>1 DEF PassInv
        <4>2. CASE p # Idle /\ b # e
          BY <2>8, <3>1, <3>2, <4>2 DEF PassInv
        <4> QED BY <4>1, <4>2
      <3>4. BrokerInv(e)'
        BY <2>0, <3>1, <3>2 DEF BrokerInv, Follows, None
      <3>5. \A d \in Brokers \ {e} : BrokerInv(d)'
        BY <2>0, <3>1, <3>2 DEF BrokerInv, Under, Handled, Applied, Follows
      <3> QED BY <3>1, <3>3, <3>4, <3>5 DEF ServerInv
    <2>15. CASE Crash
      <3>1. /\ configPass' = Idle /\ configCache' = config /\ UNCHANGED <<config, acl>>
            /\ store' = [e \in Brokers |-> {}]
            /\ \A e \in Brokers : config[e].stage # None => e \in queue'
        BY <2>15 DEF Crash
      <3>2. ASSUME NEW e \in Brokers PROVE BrokerInv(e)'
        BY <2>0, <3>1 DEF BrokerInv, Handled, Follows, None
      <3> QED BY <3>1, <3>2 DEF ServerInv
    <2>16. ASSUME NEW c \in Clients, ChangeIntents(c) PROVE ServerInv'
      BY <2>4, <2>16 DEF ChangeIntents
    <2>17. ASSUME NEW e \in Brokers, Protect(e) PROVE ServerInv'
      BY <2>4, <2>17 DEF Protect
    <2>18. ASSUME NEW c \in Clients, SyncIntents(c) PROVE ServerInv'
      BY <2>4, <2>18 DEF SyncIntents
    <2>19. CASE SyncOperatorIntents \/ Resync
      BY <2>4, <2>19 DEF SyncOperatorIntents, Resync, objectVars
    <2>20. CASE UNCHANGED vars
      BY <2>4, <2>20 DEF vars, objectVars
    <2> QED
      BY <2>2, <2>3, <2>5, <2>6, <2>9, <2>10, <2>11, <2>12, <2>13, <2>14, <2>15, <2>16,
         <2>17, <2>18, <2>19, <2>20
      DEF Next, IntentsStep, ConfigStep, Sync, Users
  <1> QED BY <1>1, <1>2, TypeInvariant, PTL DEF Spec

\* With nothing left to do, the store is what the live configs say, and their
\* brokers have the rules of their topics and no others, whatever failed before.
THEOREM ServersAtRest ==
    ASSUME NamesApart
    PROVE  Spec => []ServersMatchAtRest
  <1>1. TypeInv /\ ServerInv => ServersMatchAtRest
    <2> SUFFICES ASSUME TypeInv, ServerInv, AtRest, NEW b \in Brokers
                 PROVE  /\ store[b] = IF config[b].stage = "live" THEN {config[b].topics} ELSE {}
                        /\ config[b].stage = "live" =>
                             OfTopics(acl[b]) =
                               IF DefaultEnforced THEN Rules(config[b].topics) ELSE {}
      BY DEF ServersMatchAtRest
    <2>1. BrokerInv(b) /\ Handled(b) /\ configCache[b] = config[b]
      BY DEF AtRest, ServerInv, BrokerInv, Under
    <2> QED BY <2>1 DEF BrokerInv, Handled, Applied
  <1> QED BY <1>1, TypeInvariant, ServerInvariant, PTL

=============================================================================

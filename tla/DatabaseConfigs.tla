--------------------------- MODULE DatabaseConfigs ---------------------------
(***************************************************************************)
(* MySQLServerConfigs and PostgreSQLServerConfigs on their way through     *)
(* their webhooks.  A database is found by the name of its config alone,   *)
(* whatever its type and namespace, so a name is to be given once.  The    *)
(* webhooks look for it in two caches, one for each type.                  *)
(***************************************************************************)
EXTENDS Naturals, FiniteSets

CONSTANTS
    Names, Namespaces,
    MaxWrites  \* bounds what the users do

Types == {"mysql", "postgres"}
Configs == [name : Names, namespace : Namespaces, type : Types]

VARIABLES
    configs,  \* what is stored: configs, with credentials or without
    listed,   \* [Types -> SUBSET Configs]: the caches
    admitted, \* requests to be stored
    raced,    \* one was admitted before the caches had all there was; a history
    writes

vars == <<configs, listed, admitted, raced, writes>>

Init ==
    /\ configs = {}
    /\ listed = [t \in Types |-> {}]
    /\ admitted = {}
    /\ raced = FALSE
    /\ writes = 0

OfType(t) == {c \in configs : c.type = t}

-----------------------------------------------------------------------------
(* The validators, alike in every version.                                 *)

buildAllConfigsList == listed["postgres"] \cup listed["mysql"]

\* A bug it could have: names are looked for among configs of the type only.
validateNoDuplicateOfType(config) ==
    \A c \in listed[config.type] : c.name # config.name

validateNoDuplicateForCreate(config) ==
    \A c \in buildAllConfigsList : c.name # config.name

validateNoDuplicateForUpdate(config) ==
    \A c \in buildAllConfigsList :
        c.name = config.name =>
            c.namespace = config.namespace /\ c.type = config.type

validateCredentialsNotEmpty(credentials) == credentials # "empty"

ValidateMySQL(new, config, credentials) ==
    /\ config.type = "mysql"
    /\ validateCredentialsNotEmpty(credentials)
    /\ IF new THEN validateNoDuplicateForCreate(config)
       ELSE validateNoDuplicateForUpdate(config)

ValidatePostgreSQL(new, config, credentials) ==
    /\ config.type = "postgres"
    /\ validateCredentialsNotEmpty(credentials)
    /\ IF new THEN validateNoDuplicateForCreate(config)
       ELSE validateNoDuplicateForUpdate(config)

-----------------------------------------------------------------------------
\* A config is created, or applied again with other credentials.
Write(config) ==
    /\ writes < MaxWrites /\ writes' = writes + 1
    /\ \E credentials \in {"empty", "given"} :
        LET new == config \notin configs IN
        \/ ValidateMySQL(new, config, credentials)
        \/ ValidatePostgreSQL(new, config, credentials)
    /\ admitted' = admitted \cup {config}
    /\ raced' = (raced \/ admitted # {} \/ buildAllConfigsList # configs)
    /\ UNCHANGED <<configs, listed>>

Store(config) ==
    /\ config \in admitted
    /\ configs' = configs \cup {config}
    /\ admitted' = admitted \ {config}
    /\ UNCHANGED <<listed, raced, writes>>

Delete(config) ==
    /\ writes < MaxWrites /\ writes' = writes + 1
    /\ config \in configs
    /\ configs' = configs \ {config}
    /\ UNCHANGED <<listed, admitted, raced>>

Sync(t) ==
    /\ listed[t] # OfType(t)
    /\ listed' = [listed EXCEPT ![t] = OfType(t)]
    /\ UNCHANGED <<configs, admitted, raced, writes>>

-----------------------------------------------------------------------------
Next ==
    \/ \E config \in Configs : Write(config) \/ Store(config) \/ Delete(config)
    \/ \E t \in Types : Sync(t)

Spec == Init /\ [][Next]_vars

-----------------------------------------------------------------------------
Unique == \A c, d \in configs : c.name = d.name => c = d

\* Two configs of one name are stored only if one was admitted while another
\* was still on its way: a name that the caches have is not given again, be it
\* to the other type, in another namespace or after a deletion.
UniqueUnlessRaced == Unique \/ raced

=============================================================================

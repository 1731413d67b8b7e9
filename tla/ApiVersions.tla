----------------------------- MODULE ApiVersions -----------------------------
(***************************************************************************)
(* The served versions of ClientIntents: what the targets of each version  *)
(* mean to the code, how the conversion webhook turns one version into     *)
(* another by way of the hub, v2beta1, and what the validating webhook of  *)
(* each version accepts.  v1alpha2 is left out.                            *)
(*                                                                         *)
(* A call of v1alpha3 and v1beta1 has a type; a target of v2alpha1 and     *)
(* v2beta1 has one field set instead.  What hangs off either is abstracted *)
(* to the set of its parts: which lists are there, not what is in them.    *)
(***************************************************************************)
EXTENDS FiniteSets, Sequences

CONSTANTS
    Strings,     \* workload, server and resource names, but for:
    ApiServer,   \* "kubernetes", the name of the API server's Service
    NoName,      \* a name left out
    Namespaces,  \* namespaces a name may spell out after a dot, but for:
    Default,     \* "default", the API server's namespace
    Unqualified, \* no namespace is spelled out
    Dotted       \* the name goes on after a second dot

V1 == {"v1alpha3", "v1beta1"}
V2 == {"v2alpha1", "v2beta1"}

\* A name as written: "svc:"? name ("." namespace)?
WrittenNames ==
    [svc : BOOLEAN, name : Strings \cup {ApiServer, NoName},
     ns : Namespaces \cup {Default, Unqualified, Dotted}]

Unnamed == [svc |-> FALSE, name |-> NoName, ns |-> Unqualified]

Kinds == {"", "Service", "Deployment", "deployment"}

InternetParts == {"domains", "wildcard", "bad domain", "ips", "bad ip", "ports"}

PartsOf ==
    [kubernetes |-> {"http", "pathless"}, service |-> {"http", "pathless"},
     kafka |-> {"topics"}, sql |-> {"privileges"}, aws |-> {"aws actions"},
     gcp |-> {"permissions"},
     azure |-> {"roles", "actions", "dataActions", "keyVaultPolicy"},
     internet |-> InternetParts]

NoTarget == [field |-> "none", name |-> Unnamed, kind |-> "", parts |-> {}]

\* Only a Kubernetes target has a kind, and the internet has no name.
Targets ==
    {NoTarget} \cup
    {t \in [field : DOMAIN PartsOf, name : WrittenNames, kind : Kinds,
            parts : SUBSET UNION {PartsOf[f] : f \in DOMAIN PartsOf}] :
        /\ t.parts \subseteq PartsOf[t.field]
        /\ t.field # "kubernetes" => t.kind = ""
        /\ t.field = "internet" => t.name = Unnamed}

Calls ==
    [type : {"", "http", "kafka", "database", "aws", "gcp", "azure", "internet"},
     name : WrittenNames, kind : Kinds,
     parts : SUBSET UNION {PartsOf[f] : f \in DOMAIN PartsOf}]

FieldOf ==
    [kafka |-> "kafka", database |-> "sql", aws |-> "aws", gcp |-> "gcp",
     azure |-> "azure", internet |-> "internet"]

-----------------------------------------------------------------------------
(* What a target of v2 means: which server, of which kind, for what.       *)

IsTargetServerKubernetesService(t) ==
    t.field = "service" \/ (t.field = "kubernetes" /\ t.kind = "Service")

IsTargetInCluster(t) == t.field \in {"service", "kubernetes", "kafka"}

\* Out of the cluster the name is taken as written, dots and all.
GetTargetServerName(t) ==
    IF t.field = "internet" THEN Unnamed
    ELSE IF IsTargetInCluster(t) THEN [t.name EXCEPT !.ns = Unqualified]
    ELSE t.name

GetTargetServerNamespace(t, here) ==
    IF t.field = "internet" \/ t.name.ns = Unqualified THEN here ELSE t.name.ns

IsTargetTheKubernetesAPIServer(t, here) ==
    /\ GetTargetServerName(t) = [Unnamed EXCEPT !.name = ApiServer]
    /\ GetTargetServerNamespace(t, here) = Default

GetTargetServerKind(t) ==
    IF t.field = "kubernetes" /\ t.kind # "" THEN t.kind
    ELSE IF t.field = "service" THEN "Service"
    ELSE "OtterizeLegacy"

GetIntentType(t) ==
    IF t.field \in {"kubernetes", "service"}
    THEN IF t.parts # {} THEN "http" ELSE ""
    ELSE CHOOSE type \in DOMAIN FieldOf : FieldOf[type] = t.field

\* The API server is recognised as such whatever else a target says of it.
Meaning(t, here) ==
    IF IsTargetTheKubernetesAPIServer(t, here) THEN [apiServer |-> TRUE]
    ELSE [apiServer |-> FALSE,
          name |-> GetTargetServerName(t),
          namespace |-> GetTargetServerNamespace(t, here),
          service |-> IsTargetServerKubernetesService(t),
          kind |-> GetTargetServerKind(t),
          type |-> GetIntentType(t),
          parts |-> t.parts]

-----------------------------------------------------------------------------
(* What a call of v1 means.                                                *)

IsCallKubernetesService(c) == c.name.svc \/ c.kind = "Service"

IsCallInCluster(c) == c.type \in {"", "http", "kafka"}

\* Only a Service's name has its "svc:" taken away.
GetCallServerName(c) ==
    IF c.type = "internet" THEN Unnamed
    ELSE IF ~IsCallInCluster(c) THEN c.name
    ELSE [c.name EXCEPT !.svc = FALSE, !.ns = Unqualified]

GetCallServerNamespace(c, here) ==
    IF c.type = "internet" \/ c.name.ns = Unqualified THEN here ELSE c.name.ns

GetCallServerKind(c) ==
    IF c.kind # "" THEN c.kind
    ELSE IF IsCallKubernetesService(c) THEN "Service"
    ELSE "OtterizeLegacy"

IsCallTheKubernetesAPIServer(c, here) ==
    /\ GetCallServerName(c) = [Unnamed EXCEPT !.name = ApiServer]
    /\ GetCallServerNamespace(c, here) = Default

\* A call may have the lists of any type.  Those of its own count; a call of type
\* http need not have any.
PartsFor(type) ==
    IF type = "" THEN {}
    ELSE PartsOf[IF type = "http" THEN "kubernetes" ELSE FieldOf[type]]

CallMeaning(c, here) ==
    LET parts == c.parts \cap PartsFor(c.type) IN
    IF IsCallTheKubernetesAPIServer(c, here) THEN [apiServer |-> TRUE]
    ELSE [apiServer |-> FALSE,
          name |-> GetCallServerName(c),
          namespace |-> GetCallServerNamespace(c, here),
          service |-> IsCallInCluster(c) /\ IsCallKubernetesService(c),
          kind |-> GetCallServerKind(c),
          type |-> IF c.type = "http" /\ parts = {} THEN "" ELSE c.type,
          parts |-> parts]

-----------------------------------------------------------------------------
(* The conversion webhook: each version to the hub and back.  The other    *)
(* versions of v2 are copied field by field.                               *)

\* A bug it could have: the namespace is dropped with the prefix.
KubernetesTargetHere(c, here) ==
    [field |-> "kubernetes", name |-> GetCallServerName(c),
     kind |-> IF GetCallServerKind(c) = "OtterizeLegacy" THEN ""
              ELSE GetCallServerKind(c),
     parts |-> IF c.type = "http" THEN c.parts \cap PartsOf.kubernetes ELSE {}]

KubernetesTarget(c, here) ==
    [field |-> "kubernetes",
     name |-> IF c.name = GetCallServerName(c) THEN c.name
              ELSE [GetCallServerName(c) EXCEPT
                        !.ns = GetCallServerNamespace(c, here)],
     kind |-> IF GetCallServerKind(c) = "OtterizeLegacy" THEN ""
              ELSE GetCallServerKind(c),
     parts |-> IF c.type = "http" THEN c.parts \cap PartsOf.kubernetes ELSE {}]

\* A call of Kafka or of a database for nothing in particular has no target.
OtherTarget(c, parts) ==
    IF \/ c.type = "kafka" /\ "topics" \notin parts
       \/ c.type = "database" /\ "privileges" \notin parts
    THEN NoTarget
    ELSE [field |-> FieldOf[c.type], kind |-> "",
          name |-> IF c.type = "internet" THEN Unnamed ELSE c.name,
          parts |-> parts \cap PartsOf[FieldOf[c.type]]]

CallsToHubV1beta1(c, here) ==
    IF c.type \in {"", "http"} THEN KubernetesTarget(c, here)
    ELSE OtherTarget(c, c.parts)

\* v1alpha3 has no actions of Azure.
CallsToHubV1alpha3(c, here) ==
    IF c.type \in {"", "http"} THEN KubernetesTarget(c, here)
    ELSE OtherTarget(c, c.parts \ {"actions", "dataActions"})

ToHub(v, here, spec) ==
    CASE v = "v1alpha3" -> CallsToHubV1alpha3(spec, here)
      [] v = "v1beta1" -> CallsToHubV1beta1(spec, here)
      [] v \in V2 -> spec

\* A target with no field has no name: the conversion to v1 panics.
Convertible(v, t) == v \in V2 \/ t.field # "none"

CallsFromHub(t, here) ==
    IF IsTargetTheKubernetesAPIServer(t, here)
    THEN [type |-> "", name |-> [t.name EXCEPT !.svc = TRUE], kind |-> "",
          parts |-> {}]
    ELSE IF t.field \in {"kubernetes", "service"}
    THEN [type |-> IF t.parts # {} THEN "http" ELSE "", name |-> t.name,
          kind |-> IF t.field = "service" THEN "Service" ELSE t.kind,
          parts |-> t.parts]
    ELSE [type |-> GetIntentType(t), name |-> t.name, kind |-> "",
          parts |-> t.parts]

CallsFromHubV1alpha3(t, here) ==
    [CallsFromHub(t, here) EXCEPT !.parts = @ \ {"actions", "dataActions"}]

FromHub(v, here, t) ==
    CASE v = "v1alpha3" -> CallsFromHubV1alpha3(t, here)
      [] v = "v1beta1" -> CallsFromHub(t, here)
      [] v \in V2 -> t

MeaningIn(v, here, spec) ==
    IF v \in V1 THEN CallMeaning(spec, here) ELSE Meaning(spec, here)

-----------------------------------------------------------------------------
(* The validators of v2: exactly one field, and what each of them needs.   *)

validateKubernetesKind(kind) == kind # "deployment"

validateOnlyOneTargetFieldSet(t) == t.field # "none"

named(t) == t.name.name # NoName

validateHTTP(t) == "pathless" \notin t.parts

validateKubernetesTarget(t) ==
    t.field = "kubernetes" =>
        /\ validateKubernetesKind(t.kind)
        /\ named(t) /\ t.name.ns # Dotted
        /\ validateHTTP(t)

validateServiceTarget(t) ==
    t.field = "service" => named(t) /\ t.name.ns # Dotted /\ validateHTTP(t)

validateResourceTargets(t) ==
    t.field \in {"kafka", "sql", "aws", "gcp"} => named(t)

validateAzureTarget(t) ==
    t.field = "azure" =>
        /\ named(t)
        /\ t.parts # {}
        /\ "roles" \in t.parts => {"actions", "dataActions"} \cap t.parts = {}

\* A domain that begins with "*" is not looked at further.
internetParts(parts) ==
    /\ parts \ {"ports"} # {}
    /\ {"bad domain", "bad ip"} \cap parts = {}

validateInternetTarget(t) == t.field = "internet" => internetParts(t.parts)

validateIntentTarget(t) ==
    /\ validateOnlyOneTargetFieldSet(t)
    /\ validateKubernetesTarget(t)
    /\ validateServiceTarget(t)
    /\ validateResourceTargets(t)
    /\ validateAzureTarget(t)
    /\ validateInternetTarget(t)

\* Strict mode: Services only, and the internet by full name and port.
enforceIntentsAbideStrictMode(t) ==
    /\ t.field = "internet" => "wildcard" \notin t.parts /\ "ports" \in t.parts
    /\ t.field \in {"kubernetes", "none"} => IsTargetServerKubernetesService(t)

(* The validators of v1, which know no strict mode and look at less.       *)

validateCall(c) ==
    /\ c.type # "internet" => c.name.name # NoName
    /\ c.type = "http" => "topics" \notin c.parts
    /\ c.type = "internet" => internetParts(c.parts)
    /\ c.name.ns # Dotted

=============================================================================

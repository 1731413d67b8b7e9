---------------------------- MODULE Services_proofs ----------------------------
(***************************************************************************)
(* Theorems about parts of MCServices.  No count that a channel took is    *)
(* lost, for any Keys, any capacity of the channels and size of the        *)
(* batches, and any number of failed calls.  Two configs of one name are   *)
(* stored only if their requests crossed, for any Names, any Namespaces    *)
(* and any number of writes.  A target keeps its meaning through the       *)
(* versions, for any calls and targets written, any resources, users and   *)
(* names.                                                                  *)
(***************************************************************************)
EXTENDS MCServices, TLAPS

-----------------------------------------------------------------------------
(* What holds of a part holds of MCServices, whose behaviours are those of *)
(* its parts.                                                              *)

\* A behaviour stays in its part.
LEMMA SamePart == [Next]_vars => part' = part
  BY DEF Next, vars, OfIntents, InConversion, InRivals, InDatabases, InCerts, InCloud, InTelemetry

-----------------------------------------------------------------------------
(* Telemetry.                                                              *)

(* What a sequence holds.                                                  *)

\* A sequence with one more element holds that element besides.
LEMMA ToSetAppend ==
    ASSUME NEW S, NEW s \in Seq(S), NEW e \in S
    PROVE  Batching!ToSet(Append(s, e)) = Batching!ToSet(s) \cup {e}
  <1>1. /\ DOMAIN s = 1 .. Len(s) /\ Len(s) \in Nat
        /\ DOMAIN Append(s, e) = 1 .. Len(s) + 1
        /\ Append(s, e)[Len(s) + 1] = e
        /\ \A i \in 1 .. Len(s) : Append(s, e)[i] = s[i]
    OBVIOUS
  <1>2. 1 .. Len(s) + 1 = (1 .. Len(s)) \cup {Len(s) + 1}
    BY <1>1
  <1> QED BY <1>1, <1>2 DEF Batching!ToSet

\* Both parts of a sequence together hold what the whole holds.
LEMMA ToSetSplit ==
    ASSUME NEW S, NEW s \in Seq(S), NEW n \in Nat, n <= Len(s)
    PROVE  Batching!ToSet(s) \subseteq Batching!ToSet(SubSeq(s, 1, n))
                                \cup Batching!ToSet(SubSeq(s, n + 1, Len(s)))
  <1> DEFINE front == SubSeq(s, 1, n)
             rest == SubSeq(s, n + 1, Len(s))
  <1>1. SUFFICES ASSUME NEW i \in 1 .. Len(s)
                 PROVE  s[i] \in Batching!ToSet(front) \cup Batching!ToSet(rest)
    BY DEF Batching!ToSet
  <1>2. CASE i <= n
    <2>1. i \in DOMAIN front /\ front[i] = s[i]
      BY <1>2
    <2> QED BY <2>1 DEF Batching!ToSet
  <1>3. CASE i > n
    <2>1. i - n \in DOMAIN rest /\ rest[i - n] = s[i]
      BY <1>3
    <2> QED BY <2>1 DEF Batching!ToSet
  <1> QED BY <1>2, <1>3

-----------------------------------------------------------------------------
Items == Keys \cup {"error"}

BatchTypes ==
    /\ items \in [Batching!Batchers -> Seq(Items)]
    /\ batch \in [Batching!Batchers -> Seq(Items)]
    /\ at \in [Batching!Batchers -> {"getBatch", "handleBatch", "log", "log again"}]

\* A batch that getBatch overwrites has nothing left to be handled.
BatchInv == at["counts"] # "handleBatch" => batch["counts"] = <<>>

CountInv == BatchTypes /\ BatchInv /\ Batching!NoCountLost

\* An item is put into a channel, behind those that are there, or dropped.
LEMMA AddType ==
    ASSUME BatchTypes, NEW b \in Batching!Batchers, NEW item \in Items, Batching!AddNoWait(b, item)
    PROVE  /\ items' \in [Batching!Batchers -> Seq(Items)]
           /\ \A c \in Batching!Batchers :
                Batching!ToSet(items[c]) \subseteq Batching!ToSet(items'[c])
           /\ items' # items => item \in Batching!ToSet(items'[b])
  <1>1. items[b] \in Seq(Items)
    BY DEF BatchTypes
  <1>2. Append(items[b], item) \in Seq(Items)
    BY <1>1
  <1>3. \/ items' = items
        \/ items' = [items EXCEPT ![b] = Append(items[b], item)]
    BY DEF Batching!AddNoWait, BatchTypes
  <1>4. Batching!ToSet(Append(items[b], item)) = Batching!ToSet(items[b]) \cup {item}
    BY <1>1, ToSetAppend
  <1> QED BY <1>2, <1>1, <1>3, <1>4 DEF BatchTypes

\* A batch taken from a channel is of what was in it; the rest stays.
LEMMA GetKept ==
    ASSUME MaxBatch \in Nat, CountInv, NEW b \in Batching!Batchers, Batching!getBatch(b)
    PROVE  CountInv'
  <1>1. PICK n \in 1 .. MaxBatch :
          /\ n <= Len(items[b])
          /\ batch' = [batch EXCEPT ![b] = SubSeq(items[b], 1, n)]
          /\ items' = [items EXCEPT ![b] = SubSeq(items[b], n + 1, Len(items[b]))]
    BY DEF Batching!getBatch
  <1>2. items[b] \in Seq(Items)
    BY DEF CountInv, BatchTypes
  <1>3. items[b] \in Seq(Items) /\ n \in Nat /\ Len(items[b]) \in Nat
    BY <1>2
  <1>4. /\ SubSeq(items[b], 1, n) \in Seq(Items)
        /\ SubSeq(items[b], n + 1, Len(items[b])) \in Seq(Items)
    BY <1>1, <1>3
  <1>5. BatchTypes'
    BY <1>1, <1>4 DEF CountInv, BatchTypes, Batching!getBatch
  <1>6. BatchInv'
    BY <1>1 DEF CountInv, BatchTypes, BatchInv, Batching!getBatch, Batching!Batchers
  <1>7. CASE b = "counts"
    <2>1. Batching!ToSet(batch["counts"]) = {}
      BY <1>7 DEF CountInv, BatchInv, Batching!getBatch, Batching!ToSet
    <2>2. /\ batch'["counts"] = SubSeq(items["counts"], 1, n)
          /\ items'["counts"] =
               SubSeq(items["counts"], n + 1, Len(items["counts"]))
      BY <1>1, <1>7 DEF CountInv, BatchTypes
    <2>3. Batching!ToSet(items["counts"])
            \subseteq Batching!ToSet(batch'["counts"]) \cup Batching!ToSet(items'["counts"])
      BY <1>1, <1>3, <1>7, <2>2, ToSetSplit
    <2> QED
      BY <1>5, <1>6, <2>1, <2>3 DEF CountInv, Batching!NoCountLost, Batching!getBatch
  <1>8. CASE b # "counts"
    <2>1. /\ batch'["counts"] = batch["counts"]
          /\ items'["counts"] = items["counts"]
      BY <1>1, <1>8 DEF CountInv, BatchTypes, Batching!Batchers
    <2> QED BY <1>5, <1>6, <2>1 DEF CountInv, Batching!NoCountLost, Batching!getBatch
  <1> QED BY <1>7, <1>8

\* A batch of counts that is over is counted, and sent or kept with the rest.
LEMMA HandleKept ==
    ASSUME CountInv, Batching!HandleCounters
    PROVE  CountInv'
  <1>1. PICK sent \in BOOLEAN :
          LET counted == counters \cup Batching!ToSet(batch["counts"]) IN
          /\ told' = IF sent THEN told \cup counted ELSE told
          /\ counters' \in Batching!AfterSend(counted, sent)
          /\ Batching!Handled("counts", sent)
    BY DEF Batching!HandleCounters
  <1>2. /\ batch' = [batch EXCEPT !["counts"] = <<>>]
        /\ at' = [at EXCEPT !["counts"] = IF sent THEN "getBatch" ELSE "log"]
    BY <1>1 DEF Batching!Handled
  <1> DEFINE none == <<>>
  <1>3. none \in Seq(Items)
    OBVIOUS
  <1>4. /\ batch' = [batch EXCEPT !["counts"] = none]
        /\ at' = [at EXCEPT !["counts"] = IF sent THEN "getBatch" ELSE "log"]
        /\ items' = items
    BY <1>2 DEF Batching!HandleCounters
  <1> HIDE DEF none
  <1>5. BatchTypes'
    BY <1>3, <1>4 DEF CountInv, BatchTypes, Batching!Batchers
  <1>6. BatchInv'
    BY <1>2 DEF CountInv, BatchTypes, BatchInv, Batching!HandleCounters, Batching!Batchers
  <1>7. counters \cup Batching!ToSet(batch["counts"]) \subseteq counters' \cup told'
    BY <1>1 DEF Batching!AfterSend
  <1>8. told \subseteq told' /\ UNCHANGED <<items, accepted>>
    BY <1>1 DEF Batching!HandleCounters
  <1> QED BY <1>6, <1>7, <1>8, <1>5 DEF CountInv, Batching!NoCountLost

\* The steps that put an item into a channel.
LEMMA AddKept ==
    ASSUME CountInv, NEW b \in Batching!Batchers, NEW item \in Items, Batching!AddNoWait(b, item),
           UNCHANGED <<batch, counters, told>>,
           accepted' \subseteq accepted \cup
             (IF items' # items /\ b = "counts" THEN {item} ELSE {}),
           at' \in [Batching!Batchers -> {"getBatch", "handleBatch", "log", "log again"}],
           at["counts"] = "handleBatch" => at'["counts"] = "handleBatch"
    PROVE  CountInv'
  <1>1. /\ items' \in [Batching!Batchers -> Seq(Items)]
        /\ Batching!ToSet(items["counts"]) \subseteq Batching!ToSet(items'["counts"])
        /\ items' # items => item \in Batching!ToSet(items'[b])
    BY AddType DEF CountInv, Batching!Batchers
  <1>2. BatchTypes'
    BY <1>1 DEF CountInv, BatchTypes
  <1>3. BatchInv'
    BY DEF CountInv, BatchInv
  <1>4. Batching!NoCountLost'
    BY <1>1 DEF CountInv, Batching!NoCountLost
  <1> QED BY <1>2, <1>3, <1>4 DEF CountInv

\* A count that was accepted stays in the channel, the batch or the counters
\* until the cloud has been told of it.
LEMMA CountsKept ==
    ASSUME MaxBatch \in Nat
    PROVE  Batching!Init /\ [][Batching!Next]_(Batching!vars) => []Batching!NoCountLost
  <1>1. Batching!Init => CountInv
    <2> SUFFICES ASSUME Batching!Init PROVE CountInv
      OBVIOUS
    <2> DEFINE none == <<>>
    <2>1. none \in Seq(Items)
      OBVIOUS
    <2>2. /\ items = [b \in Batching!Batchers |-> none]
          /\ batch = [b \in Batching!Batchers |-> none]
      BY DEF Batching!Init
    <2>3. batch["counts"] = <<>> /\ accepted = {}
      BY DEF Batching!Init, Batching!Batchers
    <2> HIDE DEF none
    <2>4. BatchTypes
      BY <2>1, <2>2 DEF Batching!Init, BatchTypes
    <2> QED BY <2>3, <2>4 DEF Batching!Init, CountInv, BatchTypes, BatchInv, Batching!NoCountLost
  <1>2. ASSUME CountInv, [Batching!Next]_(Batching!vars)
        PROVE  CountInv'
    <2>1. ASSUME NEW key \in Keys, Batching!IncrementCounter(key)
          PROVE  CountInv'
      BY <1>2, <2>1, AddKept
         DEF Batching!IncrementCounter, Items, Batching!Batchers, CountInv, BatchTypes
    <2>2. CASE Batching!LogError
      BY <1>2, <2>2, AddKept DEF Batching!LogError, Items, Batching!Batchers, CountInv, BatchTypes
    <2>3. ASSUME NEW b \in Batching!Batchers, Batching!Fire(b)
          PROVE  CountInv'
      <3>1. /\ at' \in [Batching!Batchers -> {"getBatch", "handleBatch", "log", "log again"}]
            /\ at["counts"] = "handleBatch" => at'["counts"] = "handleBatch"
        BY <1>2, <2>3 DEF Batching!Fire, CountInv, BatchTypes, Batching!Batchers
      <3> QED BY <1>2, <2>3, <3>1, AddKept DEF Batching!Fire, Items, Batching!Batchers
    <2>4. CASE Batching!SendSync
      <3> DEFINE none == <<>>
      <3>1. none \in Seq(Items)
        OBVIOUS
      <3>2. PICK sent \in BOOLEAN :
              /\ batch' = [batch EXCEPT !["errors"] = none]
              /\ at' = [at EXCEPT !["errors"] = IF sent THEN "getBatch" ELSE "log"]
              /\ items' = items
        BY <2>4 DEF Batching!SendSync, Batching!Handled
      <3> HIDE DEF none
      <3>3. /\ BatchTypes' /\ at'["counts"] = at["counts"]
            /\ batch'["counts"] = batch["counts"]
        BY <1>2, <3>1, <3>2 DEF CountInv, BatchTypes, Batching!Batchers
      <3> QED
        BY <1>2, <2>4, <3>3 DEF Batching!SendSync, CountInv, BatchInv, Batching!NoCountLost
    <2>5. CASE UNCHANGED Batching!vars
      BY <1>2, <2>5 DEF Batching!vars, CountInv, BatchTypes, BatchInv, Batching!NoCountLost
    <2> QED
      BY <1>2, <2>1, <2>2, <2>3, <2>4, <2>5, GetKept, HandleKept DEF Batching!Next
  <1>3. CountInv => Batching!NoCountLost
    BY DEF CountInv
  <1> QED BY <1>1, <1>2, <1>3, PTL

\* Steps of the part of telemetry are steps of Telemetry.
LEMMA TelemetryPart ==
    /\ Init /\ part = "telemetry" => Batching!Init
    /\ [Next]_vars /\ part = "telemetry" => [Batching!Next]_(Batching!vars)
  <1>1. Init /\ part = "telemetry" => Batching!Init
    BY DEF Init
  <1>2. [Next]_vars /\ part = "telemetry" => [Batching!Next]_(Batching!vars)
    BY DEF Next, vars, OfIntents, InConversion, InRivals, InDatabases, InCerts, InCloud,
           InTelemetry, telemetryOnly, Batching!vars
  <1> QED BY <1>1, <1>2

\* A count that was accepted stays in the channel, the batch or the counters until
\* the cloud has been told of it, whatever calls fail (Batcher, HandleCounters).
THEOREM CountsNotLost ==
    ASSUME MaxBatch \in Nat
    PROVE  Spec => []NoCountLost
  <1>1. Batching!NoCountLost => NoCountLost
    BY DEF NoCountLost
  <1>2. ~(part = "telemetry") => NoCountLost
    BY DEF NoCountLost
  <1>3. [Next]_vars /\ part = "telemetry" => (part = "telemetry")'
    BY SamePart
  <1>4. [Next]_vars /\ ~(part = "telemetry") => ~(part = "telemetry")'
    BY SamePart
  <1> QED BY <1>1, <1>2, <1>3, <1>4, TelemetryPart, CountsKept, PTL DEF Spec

-----------------------------------------------------------------------------
(* Database configs.                                                       *)

ConfigTypes ==
    /\ configs \subseteq Databases!Configs /\ admitted \subseteq Databases!Configs
    /\ raced \in BOOLEAN

\* Not only what is stored has names of its own: so has what is on its way, as
\* compared with what it may be stored next to.
Pairwise(S) == \A c, d \in S : c.name = d.name => c = d

NamesInv == ConfigTypes /\ (raced \/ Pairwise(configs \cup admitted))

\* Configs of one name, namespace and type are one config.
LEMMA SameConfig ==
    ASSUME NEW c \in Databases!Configs, NEW d \in Databases!Configs,
           c.name = d.name, c.namespace = d.namespace, c.type = d.type
    PROVE  c = d
  BY DEF Databases!Configs

\* What the webhooks let through, with caches that have all there is, has a name
\* that no other config has.
LEMMA ValidatedName ==
    ASSUME ConfigTypes, NEW config \in Databases!Configs, NEW credentials,
           Databases!buildAllConfigsList = configs,
           \/ Databases!ValidateMySQL(config \notin configs, config, credentials)
           \/ Databases!ValidatePostgreSQL(config \notin configs, config, credentials),
           NEW c \in configs, c.name = config.name
    PROVE  c = config
  <1>1. CASE config \notin configs
    BY <1>1
       DEF Databases!ValidateMySQL, Databases!ValidatePostgreSQL,
           Databases!validateNoDuplicateForCreate
  <1>2. CASE config \in configs
    <2>1. c.namespace = config.namespace /\ c.type = config.type
      BY <1>2
         DEF Databases!ValidateMySQL, Databases!ValidatePostgreSQL,
             Databases!validateNoDuplicateForUpdate
    <2> QED BY <2>1, SameConfig DEF ConfigTypes
  <1> QED BY <1>1, <1>2

\* Of writes that do not cross, none gives a name a second time: whatever is
\* deleted, applied again or listed late between admission and store.
LEMMA NamesUnique == Databases!Spec => []Databases!UniqueUnlessRaced
  <1>1. Databases!Init => NamesInv
    BY DEF Databases!Init, NamesInv, ConfigTypes, Pairwise
  <1>2. ASSUME NamesInv, [Databases!Next]_(Databases!vars)
        PROVE  NamesInv'
    <2>1. ASSUME NEW config \in Databases!Configs, Databases!Write(config)
          PROVE  NamesInv'
      <3>1. ConfigTypes'
        BY <1>2, <2>1 DEF Databases!Write, NamesInv, ConfigTypes
      <3>2. CASE admitted = {} /\ Databases!buildAllConfigsList = configs
        <4>1. /\ configs' = configs /\ admitted' = {config}
              /\ raced' = raced
          BY <1>2, <2>1, <3>2 DEF Databases!Write, NamesInv, ConfigTypes
        <4>2. ASSUME NEW c \in configs, c.name = config.name
              PROVE  c = config
          BY <1>2, <2>1, <3>2, <4>2, ValidatedName DEF Databases!Write, NamesInv
        <4> QED BY <1>2, <3>1, <4>1, <4>2 DEF NamesInv, Pairwise
      <3>3. CASE ~(admitted = {} /\ Databases!buildAllConfigsList = configs)
        BY <2>1, <3>1, <3>3 DEF Databases!Write, NamesInv
      <3> QED BY <3>2, <3>3
    <2>2. ASSUME NEW config \in Databases!Configs,
                 Databases!Store(config) \/ Databases!Delete(config)
          PROVE  NamesInv'
      <3>1. /\ configs' \cup admitted' \subseteq configs \cup admitted
            /\ raced' = raced
        BY <2>2 DEF Databases!Store, Databases!Delete
      <3> QED BY <1>2, <3>1 DEF NamesInv, ConfigTypes, Pairwise
    <2>3. CASE (\E t \in Databases!Types : Databases!Sync(t)) \/ UNCHANGED Databases!vars
      BY <1>2, <2>3 DEF Databases!Sync, Databases!vars, NamesInv, ConfigTypes, Pairwise
    <2> QED BY <1>2, <2>1, <2>2, <2>3 DEF Databases!Next
  <1>3. NamesInv => Databases!UniqueUnlessRaced
    BY DEF NamesInv, Pairwise, Databases!UniqueUnlessRaced, Databases!Unique
  <1> QED BY <1>1, <1>2, <1>3, PTL DEF Databases!Spec

\* Steps of the part of database configs are steps of DatabaseConfigs.
LEMMA DatabasesPart ==
    /\ Init /\ part = "databases" => Databases!Init
    /\ [Next]_vars /\ part = "databases" => [Databases!Next]_(Databases!vars)
  <1>1. Init /\ part = "databases" => Databases!Init
    BY DEF Init
  <1>2. [Next]_vars /\ part = "databases" => [Databases!Next]_(Databases!vars)
    BY DEF Next, vars, OfIntents, InConversion, InRivals, InDatabases, InCerts, InCloud,
           InTelemetry, writeVars, configsOnly, Databases!vars
  <1> QED BY <1>1, <1>2

\* Of writes that do not cross, none gives a name a second time, whatever is deleted,
\* applied again or listed late between admission and store (the validators of
\* MySQLServerConfigs and PostgreSQLServerConfigs).
THEOREM ConfigNamesUnique == Spec => []UniqueUnlessRaced
  <1>1. Databases!UniqueUnlessRaced => UniqueUnlessRaced
    BY DEF UniqueUnlessRaced
  <1>2. ~(part = "databases") => UniqueUnlessRaced
    BY DEF UniqueUnlessRaced
  <1>3. [Next]_vars /\ part = "databases" => (part = "databases")'
    BY SamePart
  <1>4. [Next]_vars /\ ~(part = "databases") => ~(part = "databases")'
    BY SamePart
  <1> QED BY <1>1, <1>2, <1>3, <1>4, DatabasesPart, NamesUnique, PTL DEF Spec, Databases!Spec

-----------------------------------------------------------------------------
(* ClientIntents through the versions.                                     *)

\* What the constants are assumed to be.
LEMMA ConversionAssumption ==
    /\ WrittenCalls \subseteq CI!Calls /\ WrittenTargets \subseteq CI!Targets
    /\ Served \subseteq CI!V1 \cup CI!V2
    /\ Here \in Namespaces \cup {Default}
  BY ConversionConstants DEF CI!ConstantsAssumption

\* What a call or a target may be of, besides a Kubernetes workload or Service.
Types == {"kafka", "database", "aws", "gcp", "azure", "internet"}
Fields == {"kafka", "sql", "aws", "gcp", "azure", "internet"}

\* Each type has a field of its own.
LEMMA FieldsOfTypes ==
    /\ DOMAIN CI!FieldOf = Types
    /\ \A type \in Types : CI!FieldOf[type] \in Fields
    /\ \A type, other \in Types : CI!FieldOf[type] = CI!FieldOf[other] => type = other
    /\ CI!FieldOf["internet"] = "internet"
    /\ CI!FieldOf["kafka"] = "kafka"
    /\ \A type \in Types : CI!FieldOf[type] = "internet" => type = "internet"
    /\ \A type \in Types : CI!FieldOf[type] = "kafka" => type = "kafka"
    /\ \A field \in Fields : \E type \in Types : CI!FieldOf[type] = field
  BY DEF CI!FieldOf, Types, Fields

\* A Kubernetes target and a service target may have the same parts.
LEMMA FieldsOfParts ==
    /\ DOMAIN CI!PartsOf = Fields \cup {"kubernetes", "service"}
    /\ CI!PartsOf["kubernetes"] = CI!PartsOf["service"]
  BY DEF CI!PartsOf, Fields

\* All parts there are.
AllParts == UNION {CI!PartsOf[f] : f \in DOMAIN CI!PartsOf}

\* The type that a field stands for.
LEMMA TypeOfField ==
    ASSUME NEW t, NEW type \in Types, t.field = CI!FieldOf[type]
    PROVE  CI!GetIntentType(t) = type
  <1>1. t.field \notin {"kubernetes", "service"}
    BY FieldsOfTypes DEF Fields
  <1>2. (CHOOSE x \in DOMAIN CI!FieldOf : CI!FieldOf[x] = t.field) = type
    BY FieldsOfTypes
  <1> QED BY <1>1, <1>2 DEF CI!GetIntentType

\* A written name, a call and a target, by their fields.
LEMMA NameFields ==
    ASSUME NEW n \in CI!WrittenNames
    PROVE  n = [svc |-> n.svc, name |-> n.name, ns |-> n.ns] /\ n.svc \in BOOLEAN
  BY DEF CI!WrittenNames

\* A call, by its fields.
LEMMA CallFields ==
    ASSUME NEW c \in CI!Calls
    PROVE  /\ c.type \in Types \cup {"", "http"} /\ c.name \in CI!WrittenNames /\ c.kind \in CI!Kinds
           /\ c.parts \subseteq AllParts
           /\ c = [type |-> c.type, name |-> c.name, kind |-> c.kind, parts |-> c.parts]
  BY DEF CI!Calls, Types, AllParts

\* A target, by its fields.
LEMMA TargetFields ==
    ASSUME NEW t \in CI!Targets, t.field # "none"
    PROVE  /\ t.field \in Fields \cup {"kubernetes", "service"} /\ t.name \in CI!WrittenNames
           /\ t.kind \in CI!Kinds /\ t.parts \subseteq AllParts
           /\ t.parts \subseteq CI!PartsOf[t.field]
           /\ t.field # "kubernetes" => t.kind = ""
           /\ t.field = "internet" => t.name = CI!Unnamed
           /\ t = [field |-> t.field, name |-> t.name, kind |-> t.kind, parts |-> t.parts]
  <1>0. CI!NoTarget.field = "none"
    BY DEF CI!NoTarget
  <1>1. t # CI!NoTarget
    BY <1>0
  <1>2. DOMAIN CI!PartsOf = Fields \cup {"kubernetes", "service"}
    BY FieldsOfParts
  <1> QED BY <1>1, <1>2 DEF CI!Targets, AllParts

\* A target is one if its fields are.
LEMMA MakeTarget ==
    ASSUME NEW f \in Fields \cup {"kubernetes", "service"}, NEW n \in CI!WrittenNames,
           NEW k \in CI!Kinds,
           NEW p, p \subseteq CI!PartsOf[f], f # "kubernetes" => k = "", f = "internet"
             => n = CI!Unnamed
    PROVE  /\ [field |-> f, name |-> n, kind |-> k, parts |-> p] \in CI!Targets
           /\ [field |-> f, name |-> n, kind |-> k, parts |-> p] # CI!NoTarget
  <1> DEFINE t == [field |-> f, name |-> n, kind |-> k, parts |-> p]
  <1>1. f \in DOMAIN CI!PartsOf
    BY FieldsOfParts
  <1>2. p \subseteq AllParts
    BY <1>1 DEF AllParts
  <1>3. t.field = f /\ f # "none"
    BY DEF Fields
  <1>4. t # CI!NoTarget
    BY <1>3 DEF CI!NoTarget
  <1> QED BY <1>1, <1>2, <1>4 DEF CI!Targets, AllParts

\* How names change: the namespace is taken off, and "svc:" taken off or put on.
LEMMA NamesWritten ==
    /\ CI!Unnamed \in CI!WrittenNames
    /\ CI!Unnamed = [svc |-> FALSE, name |-> NoName, ns |-> Unqualified]
    /\ [CI!Unnamed EXCEPT !.name = ApiServer] = [svc |-> FALSE, name |-> ApiServer, ns |-> Unqualified]
    /\ \A n \in CI!WrittenNames :
         [n EXCEPT !.ns = Unqualified] = [svc |-> n.svc, name |-> n.name, ns |-> Unqualified]
    /\ \A n \in CI!WrittenNames :
         [n EXCEPT !.svc = FALSE, !.ns = Unqualified] =
            [svc |-> FALSE, name |-> n.name, ns |-> Unqualified]
    /\ \A n \in CI!WrittenNames :
         [n EXCEPT !.svc = TRUE] = [svc |-> TRUE, name |-> n.name, ns |-> n.ns]
  <1>1. CI!Unnamed \in CI!WrittenNames /\ CI!Unnamed = [svc |-> FALSE, name |-> NoName, ns |-> Unqualified]
    BY DEF CI!Unnamed, CI!WrittenNames
  <1>2. [CI!Unnamed EXCEPT !.name = ApiServer] = [svc |-> FALSE, name |-> ApiServer, ns |-> Unqualified]
    <2>1. ASSUME NEW b, NEW n, NEW m, n = [svc |-> b, name |-> NoName, ns |-> Unqualified]
          PROVE  [n EXCEPT !.name = m] = [svc |-> b, name |-> m, ns |-> Unqualified]
      BY <2>1
    <2> QED BY <1>1, <2>1
  <1>3. ASSUME NEW n \in CI!WrittenNames, NEW x
        PROVE  /\ [n EXCEPT !.ns = x] = [svc |-> n.svc, name |-> n.name, ns |-> x]
               /\ [n EXCEPT !.svc = x] = [svc |-> x, name |-> n.name, ns |-> n.ns]
    BY NameFields
  <1>4. ASSUME NEW n \in CI!WrittenNames, NEW x, NEW y
        PROVE  [n EXCEPT !.svc = x, !.ns = y] = [svc |-> x, name |-> n.name, ns |-> y]
    <2> DEFINE m == [n EXCEPT !.svc = x]
    <2>1. m = [svc |-> x, name |-> n.name, ns |-> n.ns]
      BY <1>3
    <2> HIDE DEF m
    <2>2. [m EXCEPT !.ns = y] = [svc |-> x, name |-> n.name, ns |-> y]
      BY <2>1
    <2> QED BY <2>2 DEF m
  <1>5. \A n \in CI!WrittenNames :
          [n EXCEPT !.svc = FALSE, !.ns = Unqualified] =
            [svc |-> FALSE, name |-> n.name, ns |-> Unqualified]
    BY ONLY <1>4, Zenon
  <1>6. \A n \in CI!WrittenNames
          : [n EXCEPT !.svc = TRUE] = [svc |-> TRUE, name |-> n.name, ns |-> n.ns]
    BY <1>3, Zenon
  <1>7. \A n \in CI!WrittenNames :
          [n EXCEPT !.ns = Unqualified] = [svc |-> n.svc, name |-> n.name, ns |-> Unqualified]
    BY <1>3, Zenon
  <1> QED BY <1>1, <1>2, <1>5, <1>6, <1>7, Zenon

\* A target as the conversion makes them: there, and without "svc:".
Good(t) == t \in CI!Targets /\ t # CI!NoTarget /\ ~t.name.svc

-----------------------------------------------------------------------------
(* Calls to targets.                                                       *)

\* A call of a workload or Service becomes a target that is about the same.
LEMMA KubernetesKept ==
    ASSUME NEW c \in CI!Calls, c.type \in {"", "http"}
    PROVE  /\ Good(CI!KubernetesTarget(c, Here))
           /\ (c.name.svc => c.kind \in {"", "Service"}) =>
                CI!Meaning(CI!KubernetesTarget(c, Here), Here) = CI!CallMeaning(c, Here)
  <1>0. PICK n, sn, ns : /\ n = c.name /\ sn = CI!GetCallServerName(c)
                         /\ ns = CI!GetCallServerNamespace(c, Here)
    OBVIOUS
  <1> DEFINE gk == CI!GetCallServerKind(c)
             u == CI!KubernetesTarget(c, Here)
             kind == IF gk = "OtterizeLegacy" THEN "" ELSE gk
             parts == IF c.type = "http" THEN c.parts \cap CI!PartsOf.kubernetes ELSE {}
             name == IF n = sn THEN n ELSE [sn EXCEPT !.ns = ns]
  <1>1. n \in CI!WrittenNames /\ c.kind \in CI!Kinds /\ n = [svc |-> n.svc, name |-> n.name, ns |-> n.ns]
        /\ n.svc \in BOOLEAN
    BY <1>0, CallFields, NameFields
  <1>2. PICK b : b = FALSE
    OBVIOUS
  <1>3. sn = [svc |-> b, name |-> n.name, ns |-> Unqualified]
    <2>1. sn = [n EXCEPT !.svc = FALSE, !.ns = Unqualified]
      BY <1>0 DEF CI!GetCallServerName, CI!IsCallInCluster
    <2> QED BY <1>1, <1>2, <2>1, NamesWritten
  <1>4. ns = IF n.ns = Unqualified THEN Here ELSE n.ns
    BY <1>0 DEF CI!GetCallServerNamespace
  <1>5. u = [field |-> "kubernetes", name |-> name, kind |-> kind, parts |-> parts]
    BY <1>0 DEF CI!KubernetesTarget, u
  <1> HIDE DEF u
  <1>6. PICK m : /\ name = [svc |-> b, name |-> n.name, ns |-> m]
                 /\ m = Unqualified => ns = Here
                 /\ m # Unqualified => ns = m
                 /\ m \in {Unqualified, ns}
    <2>1. CASE n = sn
      <3>1. n.ns = Unqualified
        BY ONLY <1>3, <2>1
      <3> QED BY <1>3, <1>4, <2>1, <3>1
    <2>2. CASE n # sn
      <3>1. [sn EXCEPT !.ns = ns] = [svc |-> b, name |-> n.name, ns |-> ns]
        BY ONLY <1>3
      <3> QED BY <1>4, <2>2, <3>1
    <2> QED BY <2>1, <2>2
  <1> HIDE DEF name
  <1>7. name \in CI!WrittenNames /\ name.svc = b /\ name.name = n.name /\ name.ns = m
        /\ [name EXCEPT !.ns = Unqualified] = sn
    <2>1. n.name \in Strings \cup {ApiServer, NoName}
          /\ ns \in Namespaces \cup {Default, Unqualified, Dotted}
      BY <1>1, <1>4, ConversionAssumption DEF CI!WrittenNames
    <2>2. name \in CI!WrittenNames
      BY <1>2, <1>6, <2>1 DEF CI!WrittenNames
    <2>3. name.svc = b /\ name.name = n.name /\ name.ns = m
      BY ONLY <1>6
    <2>4. [name EXCEPT !.ns = Unqualified] = sn
      BY ONLY <1>3, <1>6
    <2> QED BY <2>2, <2>3, <2>4
  <1>8. kind \in CI!Kinds /\ gk \in CI!Kinds \cup {"OtterizeLegacy"} /\ gk # ""
        /\ (gk = "Service" <=> c.kind = "Service" \/ (c.kind = "" /\ n.svc))
    BY <1>0, <1>1 DEF CI!GetCallServerKind, CI!IsCallKubernetesService, CI!Kinds
  <1>9. parts \subseteq CI!PartsOf["kubernetes"]
    OBVIOUS
  <1>10. Good(u)
    <2> HIDE DEF kind, parts
    <2>1. u \in CI!Targets /\ u # CI!NoTarget
      BY <1>5, <1>7, <1>8, <1>9, MakeTarget
    <2>2. u.name = name
      BY <1>5
    <2> QED BY <1>2, <1>7, <2>1, <2>2 DEF Good
  <1>11. ASSUME n.svc => c.kind \in {"", "Service"}
         PROVE  CI!Meaning(u, Here) = CI!CallMeaning(c, Here)
    <2>0. u.field = "kubernetes" /\ u.name = name /\ u.kind = kind /\ u.parts = parts
      BY <1>5
    <2>1. CI!GetTargetServerName(u) = sn
      BY <1>7, <2>0 DEF CI!GetTargetServerName, CI!IsTargetInCluster
    <2>2. CI!GetTargetServerNamespace(u, Here) = ns
      BY <1>6, <1>7, <2>0 DEF CI!GetTargetServerNamespace
    <2>3. CI!GetTargetServerKind(u) = gk
      BY <1>8, <2>0 DEF CI!GetTargetServerKind
    <2>4. CI!IsTargetServerKubernetesService(u) = (CI!IsCallInCluster(c) /\ CI!IsCallKubernetesService(c))
      BY <1>0, <1>1, <1>8, <1>11, <2>0
         DEF CI!IsTargetServerKubernetesService, CI!IsCallInCluster, CI!IsCallKubernetesService
    <2>5. parts = c.parts \cap CI!PartsFor(c.type)
      BY DEF CI!PartsFor
    <2>6. CI!GetIntentType(u) = IF c.type = "http" /\ parts = {} THEN "" ELSE c.type
      BY <2>0 DEF CI!GetIntentType
    <2>7. CI!IsTargetTheKubernetesAPIServer(u, Here) <=> CI!IsCallTheKubernetesAPIServer(c, Here)
      BY <1>0, <2>1, <2>2 DEF CI!IsTargetTheKubernetesAPIServer, CI!IsCallTheKubernetesAPIServer
    <2> HIDE DEF parts, kind, gk
    <2> QED BY Zenon, <1>0, <2>0, <2>1, <2>2, <2>3, <2>4, <2>5, <2>6, <2>7
            DEF CI!Meaning, CI!CallMeaning, gk
  <1> QED BY <1>0, <1>10, <1>11 DEF u

\* A call of something else becomes a target of the field of its type, or none.
LEMMA OtherFields ==
    ASSUME NEW c \in CI!Calls, c.type \in Types, NEW p
    PROVE  /\ CI!OtherTarget(c, p) \in CI!Targets
           /\ CI!OtherTarget(c, p) # CI!NoTarget =>
                LET name == IF c.type = "internet" THEN CI!Unnamed ELSE c.name IN
                /\ CI!OtherTarget(c, p) =
                     [field |-> CI!FieldOf[c.type], name |-> name, kind |-> "",
                      parts |-> p \cap CI!PartsOf[CI!FieldOf[c.type]]]
                /\ name \in CI!WrittenNames
  <1> DEFINE name == IF c.type = "internet" THEN CI!Unnamed ELSE c.name
             f == CI!FieldOf[c.type]
             q == p \cap CI!PartsOf[f]
             t == [field |-> f, name |-> name, kind |-> "", parts |-> q]
             none == \/ c.type = "kafka" /\ "topics" \notin p
                     \/ c.type = "database" /\ "privileges" \notin p
  <1>1. name \in CI!WrittenNames /\ f \in Fields /\ f # "kubernetes"
        /\ (f = "internet" => name = CI!Unnamed)
    BY CallFields, NamesWritten, FieldsOfTypes DEF Fields
  <1>2. q \subseteq CI!PartsOf[f]
    OBVIOUS
  <1>3. "" \in CI!Kinds
    BY DEF CI!Kinds
  <1>4. CI!OtherTarget(c, p) = IF none THEN CI!NoTarget ELSE t
    BY DEF CI!OtherTarget
  <1>5. CI!NoTarget \in CI!Targets
    BY DEF CI!Targets
  <1> HIDE DEF name, f, q, none
  <1>6. t \in CI!Targets
    BY <1>1, <1>2, <1>3, MakeTarget
  <1>7. CASE none
    BY <1>4, <1>5, <1>7
  <1>8. CASE ~none
    <2>1. CI!OtherTarget(c, p) = t
      BY <1>4, <1>8
    <2> QED BY <1>1, <1>6, <2>1 DEF name, f, q
  <1> QED BY <1>7, <1>8

\* ... and one that means the same, of those parts that count.
LEMMA OtherKept ==
    ASSUME NEW c \in CI!Calls, c.type \in Types, c.kind = "", ~c.name.svc,
           NEW p, p \cap CI!PartsFor(c.type) = c.parts \cap CI!PartsFor(c.type),
           CI!OtherTarget(c, p) # CI!NoTarget
    PROVE  /\ Good(CI!OtherTarget(c, p))
           /\ CI!Meaning(CI!OtherTarget(c, p), Here) = CI!CallMeaning(c, Here)
  <1>0. PICK u, n, name, type :
          /\ u = CI!OtherTarget(c, p) /\ n = c.name /\ type = c.type
          /\ name = IF c.type = "internet" THEN CI!Unnamed ELSE c.name
    OBVIOUS
  <1>1. /\ u = [field |-> CI!FieldOf[type], name |-> name, kind |-> "",
                parts |-> p \cap CI!PartsOf[CI!FieldOf[type]]]
        /\ u \in CI!Targets /\ name \in CI!WrittenNames /\ type \in Types
    BY <1>0, OtherFields
  <1>2. /\ u.field = CI!FieldOf[type] /\ u.name = name /\ u.kind = ""
        /\ u.parts = p \cap CI!PartsOf[CI!FieldOf[type]]
    BY <1>1
  <1>3. u.field \in Fields
    BY <1>1, <1>2, FieldsOfTypes
  <1>4. ~name.svc
    BY <1>0, NamesWritten
  <1>5. Good(u)
    BY <1>0, <1>1, <1>2, <1>4 DEF Good
  <1>6. /\ u.field = "internet" <=> type = "internet"
        /\ u.field = "kafka" <=> type = "kafka"
        /\ u.field \notin {"kubernetes", "service"} /\ type \notin {"", "http"}
    BY <1>1, <1>2, FieldsOfTypes DEF Fields, Types
  <1>7. CI!IsTargetInCluster(u) <=> CI!IsCallInCluster(c)
    BY <1>0, <1>6 DEF CI!IsTargetInCluster, CI!IsCallInCluster
  <1>8. CI!GetTargetServerName(u) = CI!GetCallServerName(c)
    <2>1. n \in CI!WrittenNames /\ n.svc = FALSE
      BY <1>0, CallFields, NameFields
    <2>2. [n EXCEPT !.svc = FALSE, !.ns = Unqualified] = [n EXCEPT !.ns = Unqualified]
      <3>1. [n EXCEPT !.svc = FALSE, !.ns = Unqualified] =
               [svc |-> FALSE, name |-> n.name, ns |-> Unqualified]
        BY <2>1, NamesWritten, Zenon
      <3>2. [n EXCEPT !.ns = Unqualified] = [svc |-> n.svc, name |-> n.name, ns |-> Unqualified]
        BY <2>1, NamesWritten, Zenon
      <3> QED BY <2>1, <3>1, <3>2, Zenon
    <2> QED BY <1>0, <1>2, <1>6, <1>7, <2>2 DEF CI!GetTargetServerName, CI!GetCallServerName
  <1>9. CI!GetTargetServerNamespace(u, Here) = CI!GetCallServerNamespace(c, Here)
    BY <1>0, <1>2, <1>6 DEF CI!GetTargetServerNamespace, CI!GetCallServerNamespace
  <1>10. CI!GetTargetServerKind(u) = CI!GetCallServerKind(c)
    BY <1>6 DEF CI!GetTargetServerKind, CI!GetCallServerKind, CI!IsCallKubernetesService
  <1>11. CI!IsTargetServerKubernetesService(u) = (CI!IsCallInCluster(c) /\ CI!IsCallKubernetesService(c))
    BY <1>6 DEF CI!IsTargetServerKubernetesService, CI!IsCallKubernetesService
  <1>12. u.parts = c.parts \cap CI!PartsFor(c.type)
    <2>1. CI!PartsFor(c.type) = CI!PartsOf[CI!FieldOf[type]]
      BY <1>0, <1>6 DEF CI!PartsFor
    <2> QED BY <1>2, <2>1
  <1>13. CI!GetIntentType(u) = c.type /\ c.type # "http"
    BY <1>0, <1>1, <1>2, <1>6, TypeOfField
  <1>14. CI!IsTargetTheKubernetesAPIServer(u, Here) <=> CI!IsCallTheKubernetesAPIServer(c, Here)
    BY <1>8, <1>9 DEF CI!IsTargetTheKubernetesAPIServer, CI!IsCallTheKubernetesAPIServer
  <1>15. CI!Meaning(u, Here) = CI!CallMeaning(c, Here)
    BY Zenon, <1>8, <1>9, <1>10, <1>11, <1>12, <1>13, <1>14 DEF CI!Meaning, CI!CallMeaning
  <1> QED BY <1>0, <1>5, <1>15

\* Every call becomes a target or none ...
LEMMA CallTyped ==
    ASSUME NEW v \in CI!V1, NEW c \in CI!Calls
    PROVE  CI!ToHub(v, Here, c) \in CI!Targets
  <1>1. c.type \in Types \cup {"", "http"}
    BY CallFields
  <1>2. CASE c.type \in {"", "http"}
    BY <1>2, KubernetesKept DEF Good, CI!ToHub, CI!V1, CI!V2, CI!CallsToHubV1beta1,
       CI!CallsToHubV1alpha3
  <1>3. CASE c.type \in Types
    <2>1. c.type \notin {"", "http"}
      BY <1>3 DEF Types
    <2> QED BY <1>3, <2>1, OtherFields DEF CI!ToHub, CI!V1, CI!V2, CI!CallsToHubV1beta1,
      CI!CallsToHubV1alpha3
  <1> QED BY <1>1, <1>2, <1>3

\* ... and what v2 can say as well as v1 a target that means the same.
LEMMA CallKept ==
    ASSUME NEW v \in CI!V1, NEW c \in CI!Calls, CI!Expressible(v, c)
    PROVE  Good(CI!ToHub(v, Here, c)) /\ CI!Meaning(CI!ToHub(v, Here, c), Here) = CI!CallMeaning(c, Here)
  <1>1. /\ c.type \in Types \cup {"", "http"} /\ CI!ToHub(v, Here, c) # CI!NoTarget
        /\ c.type \notin {"", "http"} => c.kind = "" /\ ~c.name.svc
        /\ c.name.svc => c.kind \in {"", "Service"}
        /\ v = "v1alpha3" => {"actions", "dataActions"} \cap c.parts = {}
    BY CallFields DEF CI!Expressible
  <1>2. CASE c.type \in {"", "http"}
    <2>1. CI!ToHub(v, Here, c) = CI!KubernetesTarget(c, Here)
      BY <1>2 DEF CI!ToHub, CI!V1, CI!V2, CI!CallsToHubV1beta1, CI!CallsToHubV1alpha3
    <2> QED BY <1>1, <1>2, <2>1, KubernetesKept
  <1>3. CASE c.type \in Types
    <2>1. c.type \notin {"", "http"}
      BY <1>3 DEF Types
    <2>2. PICK p : CI!ToHub(v, Here, c) = CI!OtherTarget(c, p) /\ p = c.parts
      <3>1. v = "v1alpha3" => c.parts \ {"actions", "dataActions"} = c.parts
        BY <1>1
      <3> QED BY <2>1, <3>1 DEF CI!ToHub, CI!V1, CI!V2, CI!CallsToHubV1beta1,
        CI!CallsToHubV1alpha3
    <2> QED BY <1>1, <1>3, <2>1, <2>2, OtherKept
  <1> QED BY <1>1, <1>2, <1>3

-----------------------------------------------------------------------------
(* Targets to calls and back.                                              *)

\* A target of v1 is a call, and one that means the same.
LEMMA BackHub ==
    ASSUME NEW t \in CI!Targets, t.field # "none"
    PROVE  /\ CI!CallsFromHub(t, Here) \in CI!Calls
           /\ ~t.name.svc => CI!CallMeaning(CI!CallsFromHub(t, Here), Here) = CI!Meaning(t, Here)
           /\ CI!CallsFromHub(t, Here).parts \subseteq t.parts
  <1>0. PICK c, n : c = CI!CallsFromHub(t, Here) /\ n = t.name
    OBVIOUS
  <1>1. /\ t.field \in Fields \cup {"kubernetes", "service"} /\ n \in CI!WrittenNames
        /\ t.kind \in CI!Kinds /\ t.parts \subseteq AllParts
        /\ t.parts \subseteq CI!PartsOf[t.field]
        /\ t.field = "internet" => n = CI!Unnamed
        /\ n = [svc |-> n.svc, name |-> n.name, ns |-> n.ns]
    BY <1>0, TargetFields, NameFields
  <1>2. PICK yes, no : yes = TRUE /\ no = FALSE
    OBVIOUS
  <1>3. [n EXCEPT !.svc = FALSE, !.ns = Unqualified] = [svc |-> no, name |-> n.name, ns |-> Unqualified]
        /\ [n EXCEPT !.ns = Unqualified] = [svc |-> n.svc, name |-> n.name, ns |-> Unqualified]
        /\ [n EXCEPT !.svc = TRUE] = [svc |-> yes, name |-> n.name, ns |-> n.ns]
        /\ [CI!Unnamed EXCEPT !.name = ApiServer] = [svc |-> no, name |-> ApiServer, ns |-> Unqualified]
        /\ CI!Unnamed = [svc |-> no, name |-> NoName, ns |-> Unqualified]
    BY <1>1, <1>2, NamesWritten, Zenon
  <1>4. CASE CI!IsTargetTheKubernetesAPIServer(t, Here)
    <2>1. PICK m : m = [n EXCEPT !.svc = TRUE]
      OBVIOUS
    <2>2. c = [type |-> "", name |-> m, kind |-> "", parts |-> {}]
      BY <1>0, <1>4, <2>1 DEF CI!CallsFromHub
    <2>3. m = [svc |-> yes, name |-> n.name, ns |-> n.ns]
      BY <1>3, <2>1
    <2>4. m \in CI!WrittenNames
      <3>1. n.name \in Strings \cup {ApiServer, NoName}
            /\ n.ns \in Namespaces \cup {Default, Unqualified, Dotted}
        BY <1>1 DEF CI!WrittenNames
      <3> QED BY <1>2, <2>3, <3>1 DEF CI!WrittenNames
    <2>5. c \in CI!Calls
      <3>1. "" \in CI!Kinds
        BY DEF CI!Kinds
      <3> QED BY <2>2, <2>4, <3>1 DEF CI!Calls
    <2>6. CI!GetTargetServerName(t) = [svc |-> no, name |-> ApiServer, ns |-> Unqualified]
          /\ CI!GetTargetServerNamespace(t, Here) = Default
      BY <1>3, <1>4 DEF CI!IsTargetTheKubernetesAPIServer
    <2>7. n.name = ApiServer
      <3>1. CASE t.field = "internet"
        <4>1. CI!Unnamed = [svc |-> no, name |-> ApiServer, ns |-> Unqualified]
          BY <2>6, <3>1 DEF CI!GetTargetServerName
        <4>2. n = CI!Unnamed
          BY <1>1, <3>1
        <4> QED BY ONLY <4>1, <4>2
      <3>2. CASE t.field # "internet" /\ CI!IsTargetInCluster(t)
        <4>1. [n EXCEPT !.ns = Unqualified] = [svc |-> no, name |-> ApiServer, ns |-> Unqualified]
          BY <1>0, <2>6, <3>2 DEF CI!GetTargetServerName
        <4> QED BY ONLY <1>3, <4>1
      <3>3. CASE t.field # "internet" /\ ~CI!IsTargetInCluster(t)
        <4>1. n = [svc |-> no, name |-> ApiServer, ns |-> Unqualified]
          BY <1>0, <2>6, <3>3 DEF CI!GetTargetServerName
        <4> QED BY ONLY <4>1
      <3> QED BY <3>1, <3>2, <3>3
    <2>8. m.name = n.name /\ m.ns = n.ns
      BY ONLY <2>3
    <2>9. [m EXCEPT !.svc = FALSE, !.ns = Unqualified] = [svc |-> no, name |-> ApiServer, ns |-> Unqualified]
      BY <1>2, <2>4, <2>7, <2>8, NamesWritten, Zenon
    <2>10. c.type = "" /\ c.name = m
      BY <2>2
    <2>11. CI!GetCallServerName(c) = [svc |-> no, name |-> ApiServer, ns |-> Unqualified]
      BY <2>9, <2>10 DEF CI!GetCallServerName, CI!IsCallInCluster
    <2>12. t.field = "internet" => n.ns = Unqualified
      BY <1>1, <1>3
    <2>13. CI!GetCallServerNamespace(c, Here) = Default
      BY <1>0, <2>6, <2>8, <2>10, <2>12 DEF CI!GetCallServerNamespace, CI!GetTargetServerNamespace
    <2>14. CI!IsCallTheKubernetesAPIServer(c, Here)
      BY <1>3, <2>11, <2>13 DEF CI!IsCallTheKubernetesAPIServer
    <2>15. CI!CallMeaning(c, Here) = CI!Meaning(t, Here)
      BY <1>4, <2>14, Zenon DEF CI!CallMeaning, CI!Meaning
    <2>16. c.parts \subseteq t.parts
      BY <2>2
    <2> QED BY <1>0, <2>5, <2>15, <2>16
  <1>5. ASSUME ~CI!IsTargetTheKubernetesAPIServer(t, Here),
               NEW type \in Types \cup {"", "http"}, NEW kind \in CI!Kinds,
               c = [type |-> type, name |-> n, kind |-> kind, parts |-> t.parts],
               CI!GetIntentType(t) = type, type = "http" => t.parts # {},
               t.parts = t.parts \cap CI!PartsFor(type),
               type = "internet" <=> t.field = "internet",
               type \in {"", "http", "kafka"} <=> CI!IsTargetInCluster(t),
               ~n.svc => CI!GetTargetServerKind(t) = (IF kind # "" THEN kind ELSE "OtterizeLegacy"),
               CI!IsTargetInCluster(t)
                 => (CI!IsTargetServerKubernetesService(t) <=> kind = "Service"),
               ~CI!IsTargetInCluster(t) => ~CI!IsTargetServerKubernetesService(t)
        PROVE  /\ c \in CI!Calls /\ c.parts \subseteq t.parts
               /\ ~n.svc => CI!CallMeaning(c, Here) = CI!Meaning(t, Here)
    <2>1. c.type = type /\ c.name = n /\ c.kind = kind /\ c.parts = t.parts
      BY <1>5
    <2>2. c \in CI!Calls
      BY <1>1, <1>5 DEF CI!Calls, Types, AllParts
    <2> SUFFICES ASSUME ~n.svc PROVE CI!CallMeaning(c, Here) = CI!Meaning(t, Here)
      BY <2>1, <2>2
    <2>3. CI!GetCallServerName(c) = CI!GetTargetServerName(t)
      <3>1. n.svc = FALSE
        BY <1>1 DEF CI!WrittenNames
      <3>2. [n EXCEPT !.svc = FALSE, !.ns = Unqualified] = [n EXCEPT !.ns = Unqualified]
        BY <1>2, <1>3, <3>1, Zenon
      <3>3. CI!IsCallInCluster(c) <=> CI!IsTargetInCluster(t)
        BY <1>5, <2>1 DEF CI!IsCallInCluster
      <3> QED BY <1>0, <1>5, <2>1, <3>2, <3>3 DEF CI!GetCallServerName, CI!GetTargetServerName
    <2>4. CI!GetCallServerNamespace(c, Here) = CI!GetTargetServerNamespace(t, Here)
      BY <1>0, <1>5, <2>1 DEF CI!GetCallServerNamespace, CI!GetTargetServerNamespace
    <2>5. CI!GetCallServerKind(c) = CI!GetTargetServerKind(t)
      BY <1>5, <2>1 DEF CI!GetCallServerKind, CI!IsCallKubernetesService
    <2>6. (CI!IsCallInCluster(c) /\ CI!IsCallKubernetesService(c)) = CI!IsTargetServerKubernetesService(t)
      BY <1>5, <2>1
         DEF CI!IsCallInCluster, CI!IsCallKubernetesService, CI!IsTargetServerKubernetesService
    <2>7. ~CI!IsCallTheKubernetesAPIServer(c, Here)
      BY <1>5, <2>3, <2>4 DEF CI!IsTargetTheKubernetesAPIServer, CI!IsCallTheKubernetesAPIServer
    <2>8. c.parts \cap CI!PartsFor(c.type) = t.parts
      BY <1>5, <2>1
    <2>9. ~(c.type = "http" /\ t.parts = {}) /\ c.type = CI!GetIntentType(t)
      BY <1>5, <2>1
    <2> QED BY Zenon, <1>5, <2>3, <2>4, <2>5, <2>6, <2>7, <2>8, <2>9 DEF CI!CallMeaning,
      CI!Meaning
  <1>6. CASE ~CI!IsTargetTheKubernetesAPIServer(t, Here) /\ t.field \in {"kubernetes", "service"}
    <2>1. PICK type, kind : /\ type = IF t.parts # {} THEN "http" ELSE ""
                            /\ kind = IF t.field = "service" THEN "Service" ELSE t.kind
      OBVIOUS
    <2>2. c = [type |-> type, name |-> n, kind |-> kind, parts |-> t.parts]
      BY <1>0, <1>6, <2>1 DEF CI!CallsFromHub
    <2>3. type \in Types \cup {"", "http"} /\ kind \in CI!Kinds
      BY <1>1, <2>1 DEF CI!Kinds
    <2>4. CI!GetIntentType(t) = type /\ (type = "http" => t.parts # {})
      BY <1>6, <2>1 DEF CI!GetIntentType
    <2>5. t.parts \subseteq CI!PartsOf["kubernetes"]
      BY <1>1, <1>6, FieldsOfParts
    <2>6. t.parts = t.parts \cap CI!PartsFor(type)
      BY <2>1, <2>5 DEF CI!PartsFor
    <2>7. /\ type = "internet" <=> t.field = "internet"
          /\ type \in {"", "http", "kafka"} <=> CI!IsTargetInCluster(t)
          /\ CI!IsTargetInCluster(t)
      BY <1>6, <2>1 DEF CI!IsTargetInCluster
    <2>8. CI!GetTargetServerKind(t) = (IF kind # "" THEN kind ELSE "OtterizeLegacy")
      BY <1>6, <2>1 DEF CI!GetTargetServerKind
    <2>9. CI!IsTargetServerKubernetesService(t) <=> kind = "Service"
      BY <1>6, <2>1 DEF CI!IsTargetServerKubernetesService
    <2> QED BY <1>0, <1>5, <1>6, <2>2, <2>3, <2>4, <2>6, <2>7, <2>8, <2>9
  <1>7. CASE ~CI!IsTargetTheKubernetesAPIServer(t, Here) /\ t.field \in Fields
    <2>1. PICK type \in Types : CI!FieldOf[type] = t.field
      BY <1>7, FieldsOfTypes
    <2>2. CI!GetIntentType(t) = type
      BY <2>1, TypeOfField
    <2>3. t.field \notin {"kubernetes", "service"} /\ type \notin {"", "http"}
      BY <1>7, <2>1 DEF Fields, Types
    <2>4. c = [type |-> type, name |-> n, kind |-> "", parts |-> t.parts]
      BY <1>0, <1>7, <2>2, <2>3 DEF CI!CallsFromHub
    <2>5. "" \in CI!Kinds
      BY DEF CI!Kinds
    <2>6. t.parts = t.parts \cap CI!PartsFor(type)
      BY <1>1, <2>1, <2>3 DEF CI!PartsFor
    <2>7. /\ type = "internet" <=> t.field = "internet"
          /\ type = "kafka" <=> t.field = "kafka"
      BY <2>1, FieldsOfTypes
    <2>8. type \in {"", "http", "kafka"} <=> CI!IsTargetInCluster(t)
      BY <2>3, <2>7 DEF CI!IsTargetInCluster
    <2>9. CI!GetTargetServerKind(t) = "OtterizeLegacy" /\ ~CI!IsTargetServerKubernetesService(t)
      BY <2>3 DEF CI!GetTargetServerKind, CI!IsTargetServerKubernetesService
    <2> QED BY <1>0, <1>5, <1>7, <2>1, <2>2, <2>3, <2>4, <2>5, <2>6, <2>7, <2>8, <2>9
  <1> QED BY <1>1, <1>4, <1>6, <1>7

\* ... and so in either version.
LEMMA BackTyped ==
    ASSUME NEW v \in CI!V1, NEW t \in CI!Targets, t.field # "none"
    PROVE  /\ CI!FromHub(v, Here, t) \in CI!Calls
           /\ (v = "v1alpha3" => {"actions", "dataActions"} \cap t.parts = {}) =>
                CI!FromHub(v, Here, t) = CI!CallsFromHub(t, Here)
  <1>0. PICK c \in CI!Calls : c = CI!CallsFromHub(t, Here) /\ c.parts \subseteq t.parts
    BY BackHub
  <1>1. c = [type |-> c.type, name |-> c.name, kind |-> c.kind, parts |-> c.parts]
    BY CallFields
  <1> DEFINE p == c.parts \ {"actions", "dataActions"}
  <1>2. [c EXCEPT !.parts = p] = [type |-> c.type, name |-> c.name, kind |-> c.kind, parts |-> p]
    BY <1>1
  <1>3. [c EXCEPT !.parts = p] \in CI!Calls
    BY <1>2, CallFields DEF CI!Calls, Types, AllParts
  <1>4. {"actions", "dataActions"} \cap t.parts = {} => p = c.parts
    BY <1>0
  <1>5. CI!CallsFromHubV1alpha3(t, Here) = [c EXCEPT !.parts = p]
    BY <1>0 DEF CI!CallsFromHubV1alpha3
  <1> HIDE DEF p
  <1>6. CI!FromHub(v, Here, t) = IF v = "v1alpha3" THEN [c EXCEPT !.parts = p] ELSE c
    BY <1>0, <1>5 DEF CI!FromHub, CI!V1, CI!V2
  <1> QED BY <1>0, <1>1, <1>2, <1>3, <1>4, <1>6

\* A target that goes to a client of any version and returns means what it meant.
LEMMA TargetKept ==
    ASSUME NEW v \in CI!V1 \cup CI!V2, NEW t, Good(t), t.field # "none", CI!Returns(v, t)
    PROVE  LET u == CI!ToHub(v, Here, CI!FromHub(v, Here, t)) IN
           Good(u) /\ CI!Meaning(u, Here) = CI!Meaning(t, Here)
  <1>1. CASE v \in CI!V1
    <2>1. PICK c \in CI!Calls : /\ c = CI!FromHub(v, Here, t) /\ c = CI!CallsFromHub(t, Here)
                                /\ CI!Expressible(v, c)
      BY <1>1, BackTyped DEF CI!Returns, Good
    <2>2. CI!CallMeaning(c, Here) = CI!Meaning(t, Here)
      BY <2>1, BackHub DEF Good
    <2> QED BY <1>1, <2>1, <2>2, CallKept
  <1>2. CASE v \in CI!V2
    <2>1. CI!ToHub(v, Here, CI!FromHub(v, Here, t)) = t
      BY <1>2 DEF CI!ToHub, CI!FromHub, CI!V1, CI!V2
    <2> QED BY <2>1
  <1> QED BY <1>1, <1>2

-----------------------------------------------------------------------------
(* Objects and requests.                                                   *)

\* An object that is stored and a request, as what the meaning depends on.
Objects == [client : Clients, target : CI!Targets, finalizer : BOOLEAN, deleting : BOOLEAN]

RequestOK(r) ==
    /\ r = [name |-> r.name, version |-> r.version, client |-> r.client, spec |-> r.spec,
            new |-> r.new, finalizer |-> r.finalizer, current |-> r.current, means |-> r.means]
    /\ r.name \in Resources /\ r.client \in Clients
    /\ r.finalizer \in BOOLEAN /\ r.new \in BOOLEAN
    /\ CI!ToHub(r.version, Here, r.spec) \in CI!Targets
    /\ r.means # CI!Anything =>
         /\ Good(CI!ToHub(r.version, Here, r.spec))
         /\ CI!Meaning(CI!ToHub(r.version, Here, r.spec), Here) = r.means

\* What is stored means what its writer meant, and so will what is on its way.
MeaningInv ==
    /\ stored \in [Resources -> Objects \cup {CI!None}]
    /\ meant = [n \in Resources |-> meant[n]]
    /\ request = [a \in CI!Actors |-> request[a]]
    /\ \A n \in Resources :
         stored[n] # CI!None /\ meant[n] # CI!Anything =>
            Good(stored[n].target) /\ CI!Meaning(stored[n].target, Here) = meant[n]
    /\ \A a \in CI!Actors : request[a] # CI!None => RequestOK(request[a])

\* Nothing is stored or on its way in the beginning.
LEMMA InitMeaning == CI!Init => MeaningInv
  BY DEF CI!Init, MeaningInv

\* A request that is sent is one more.
LEMMA SendMeaning ==
    ASSUME MeaningInv, NEW a \in CI!Actors, NEW r, RequestOK(r), CI!Send(a, r),
           UNCHANGED <<stored, meant>>
    PROVE  MeaningInv'
  <1>1. request' = [request EXCEPT ![a] = r]
    BY DEF CI!Send
  <1>2. request' = [b \in CI!Actors |-> request'[b]]
        /\ \A b \in CI!Actors : request'[b] = IF b = a THEN r ELSE request[b]
    BY <1>1 DEF MeaningInv
  <1>3. \A b \in CI!Actors : request'[b] # CI!None => RequestOK(request'[b])
    BY <1>2 DEF MeaningInv
  <1> QED BY <1>2, <1>3 DEF MeaningInv

\* A request of certain fields.
LEMMA MakeRequest ==
    ASSUME NEW n \in Resources, NEW v, NEW c \in Clients, NEW s, NEW new \in BOOLEAN,
           NEW f \in BOOLEAN, NEW current, NEW m,
           CI!ToHub(v, Here, s) \in CI!Targets,
           m # CI!Anything => /\ Good(CI!ToHub(v, Here, s))
                              /\ CI!Meaning(CI!ToHub(v, Here, s), Here) = m
    PROVE  RequestOK([name |-> n, version |-> v, client |-> c, spec |-> s, new |-> new,
                      finalizer |-> f, current |-> current, means |-> m])
  <1> DEFINE r == [name |-> n, version |-> v, client |-> c, spec |-> s, new |-> new,
                   finalizer |-> f, current |-> current, means |-> m]
  <1>1. /\ r.name = n /\ r.version = v /\ r.client = c /\ r.spec = s /\ r.new = new
        /\ r.finalizer = f /\ r.current = current /\ r.means = m
    OBVIOUS
  <1>2. r = [name |-> r.name, version |-> r.version, client |-> r.client, spec |-> r.spec,
            new |-> r.new, finalizer |-> r.finalizer, current |-> r.current, means |-> r.means]
    BY <1>1
  <1> HIDE DEF r
  <1>3. RequestOK(r)
    BY <1>1, <1>2 DEF RequestOK
  <1> QED BY <1>3 DEF r

\* What users write is a call or a target, and means what it says.
LEMMA WrittenMeans ==
    ASSUME NEW v \in CI!V1 \cup CI!V2, NEW s, IF v \in CI!V1 THEN s \in CI!Calls
           ELSE s \in CI!Targets
    PROVE  /\ CI!ToHub(v, Here, s) \in CI!Targets
           /\ CI!Expressible(v, s) => /\ Good(CI!ToHub(v, Here, s))
                                      /\ CI!Meaning(CI!ToHub(v, Here, s), Here) = CI!MeaningIn(v, Here, s)
  <1>1. CASE v \in CI!V1
    BY <1>1, CallTyped, CallKept DEF CI!MeaningIn
  <1>2. CASE v \in CI!V2
    <2>1. v \notin CI!V1
      BY <1>2 DEF CI!V1, CI!V2
    <2>2. CI!ToHub(v, Here, s) = s
      BY <1>2 DEF CI!ToHub, CI!V1, CI!V2
    <2> QED BY <2>1, <2>2 DEF Good, CI!Expressible, CI!MeaningIn
  <1> QED BY <1>1, <1>2

\* A new object means what its writer wrote.
LEMMA CreateMeaning ==
    ASSUME MeaningInv, NEW u \in Users, NEW n \in Resources, NEW v \in Served, NEW c \in Clients,
           NEW s \in CI!Specs(v), CI!Create(u, n, v, c, s)
    PROVE  MeaningInv'
  <1> DEFINE m == IF CI!Expressible(v, s) THEN CI!MeaningIn(v, Here, s) ELSE CI!Anything
             r(yes, no) == [name |-> n, version |-> v, client |-> c, spec |-> s, new |-> yes,
                            finalizer |-> no, current |-> yes, means |-> m]
  <1>1. /\ CI!Send(u, r(TRUE, FALSE))
        /\ UNCHANGED <<stored, meant>>
    BY DEF CI!Create
  <1>2. v \in CI!V1 \cup CI!V2 /\ IF v \in CI!V1 THEN s \in CI!Calls ELSE s \in CI!Targets
    BY ConversionAssumption DEF CI!Specs
  <1>3. CI!ToHub(v, Here, s) \in CI!Targets
        /\ (m # CI!Anything => /\ Good(CI!ToHub(v, Here, s))
                               /\ CI!Meaning(CI!ToHub(v, Here, s), Here) = m)
    BY <1>2, WrittenMeans
  <1> HIDE DEF m
  <1>4. \A yes, no \in BOOLEAN : RequestOK(r(yes, no))
    BY <1>3, MakeRequest
  <1> HIDE DEF r
  <1> QED BY <1>1, <1>4, SendMeaning DEF CI!Actors

\* An edit writes what was read, with the meaning it had, or something new.
LEMMA EditMeaning ==
    ASSUME MeaningInv, NEW u \in Users, NEW n \in Resources, NEW v \in Served, NEW c \in Clients,
           NEW s, CI!Edit(u, n, v, c, s)
    PROVE  MeaningInv'
  <1> DEFINE t == stored[n].target
             read == CI!FromHub(v, Here, t)
             m == IF s = read /\ CI!Returns(v, t) THEN meant[n]
                  ELSE IF CI!Expressible(v, s) THEN CI!MeaningIn(v, Here, s) ELSE CI!Anything
             f == stored[n].finalizer
             r(yes, no) == [name |-> n, version |-> v, client |-> c, spec |-> s, new |-> no,
                            finalizer |-> f, current |-> yes, means |-> m]
  <1>1. /\ CI!Send(u, r(TRUE, FALSE))
        /\ UNCHANGED <<stored, meant>>
        /\ stored[n] # CI!None /\ CI!Convertible(v, t) /\ s \in CI!Specs(v) \cup {read}
    BY DEF CI!Edit
  <1>2. v \in CI!V1 \cup CI!V2 /\ (s \in CI!Specs(v) => IF v \in CI!V1 THEN s \in CI!Calls ELSE s \in CI!Targets)
    BY ConversionAssumption DEF CI!Specs
  <1>3. stored[n] \in Objects /\ t \in CI!Targets /\ f \in BOOLEAN
        /\ (meant[n] # CI!Anything => Good(t) /\ CI!Meaning(t, Here) = meant[n])
    BY <1>1 DEF MeaningInv, Objects
  <1>4. IF v \in CI!V1 THEN read \in CI!Calls ELSE read = t
    BY <1>1, <1>2, <1>3, BackTyped DEF CI!Convertible, CI!FromHub, CI!V1, CI!V2
  <1>5. CI!ToHub(v, Here, s) \in CI!Targets
        /\ (CI!Expressible(v, s) => /\ Good(CI!ToHub(v, Here, s))
                                    /\ CI!Meaning(CI!ToHub(v, Here, s), Here) = CI!MeaningIn(v, Here, s))
    BY <1>1, <1>2, <1>3, <1>4, WrittenMeans
  <1>6. ASSUME s = read, CI!Returns(v, t), meant[n] # CI!Anything
        PROVE  Good(CI!ToHub(v, Here, s)) /\ CI!Meaning(CI!ToHub(v, Here, s), Here) = meant[n]
    <2>1. CASE v \in CI!V1
      <3>1. t.field # "none"
        BY <1>1, <2>1 DEF CI!Convertible, CI!V1, CI!V2
      <3> QED BY <1>2, <1>3, <1>6, <3>1, TargetKept
    <2>2. CASE v \in CI!V2
      <3>1. CI!ToHub(v, Here, s) = t
        BY <1>4, <1>6, <2>2 DEF CI!ToHub, CI!V1, CI!V2
      <3> QED BY <1>3, <1>6, <3>1
    <2> QED BY <1>2, <2>1, <2>2
  <1>7. m # CI!Anything => /\ Good(CI!ToHub(v, Here, s))
                           /\ CI!Meaning(CI!ToHub(v, Here, s), Here) = m
    BY <1>5, <1>6
  <1> HIDE DEF m, f
  <1>8. \A yes, no \in BOOLEAN : RequestOK(r(yes, no))
    BY <1>3, <1>5, <1>7, MakeRequest
  <1> HIDE DEF r
  <1> QED BY <1>1, <1>8, SendMeaning DEF CI!Actors

\* The operator writes the target it has read.
LEMMA FinalizerMeaning ==
    ASSUME MeaningInv, NEW n \in Resources, CI!SetFinalizer(n)
    PROVE  MeaningInv'
  <1> DEFINE o == stored[n]
             f == ~o.finalizer
             r(yes, no) == [name |-> n, version |-> "v2alpha1", client |-> o.client,
                            spec |-> o.target, new |-> no, finalizer |-> f, current |-> yes,
                            means |-> meant[n]]
  <1>1. CI!Send(n, r(TRUE, FALSE)) /\ UNCHANGED <<stored, meant>> /\ o # CI!None
    BY DEF CI!SetFinalizer
  <1>2. /\ o \in Objects /\ o.target \in CI!Targets /\ o.client \in Clients /\ f \in BOOLEAN
        /\ meant[n] # CI!Anything => Good(o.target) /\ CI!Meaning(o.target, Here) = meant[n]
    BY <1>1 DEF MeaningInv, Objects
  <1>3. CI!ToHub("v2alpha1", Here, o.target) = o.target
    BY DEF CI!ToHub, CI!V2
  <1> HIDE DEF f
  <1>4. \A yes, no \in BOOLEAN : RequestOK(r(yes, no))
    BY <1>2, <1>3, MakeRequest
  <1> HIDE DEF r
  <1> QED BY <1>1, <1>4, SendMeaning DEF CI!Actors

\* What is outdated is still the request that it was.
LEMMA OutdatedRequests ==
    ASSUME MeaningInv, NEW n
    PROVE  /\ CI!Outdated(n) = [a \in CI!Actors |-> CI!Outdated(n)[a]]
           /\ \A a \in CI!Actors : CI!Outdated(n)[a] # CI!None => RequestOK(CI!Outdated(n)[a])
  <1>1. ASSUME NEW r, RequestOK(r), NEW b PROVE RequestOK([r EXCEPT !.current = b])
    <2> DEFINE q == [r EXCEPT !.current = b]
    <2>1. q = [name |-> r.name, version |-> r.version, client |-> r.client, spec |-> r.spec,
            new |-> r.new, finalizer |-> r.finalizer, current |-> b, means |-> r.means]
      BY <1>1 DEF RequestOK
    <2>2. RequestOK([name |-> r.name, version |-> r.version, client |-> r.client, spec |-> r.spec,
            new |-> r.new, finalizer |-> r.finalizer, current |-> b, means |-> r.means])
      BY <1>1, MakeRequest DEF RequestOK
    <2> HIDE DEF q
    <2>3. RequestOK(q)
      BY <2>1, <2>2
    <2> QED BY <2>3 DEF q
  <1>2. ASSUME NEW a \in CI!Actors, CI!Outdated(n)[a] # CI!None PROVE RequestOK(CI!Outdated(n)[a])
    <2>1. CI!Outdated(n)[a] = IF request[a] # CI!None /\ request[a].name = n
                           THEN [request[a] EXCEPT !.current = FALSE] ELSE request[a]
      BY DEF CI!Outdated
    <2>2. request[a] # CI!None => RequestOK(request[a])
      BY DEF MeaningInv
    <2>3. CASE request[a] # CI!None /\ request[a].name = n
      <3>1. RequestOK(request[a])
        BY <2>2, <2>3
      <3>2. PICK r : r = request[a]
        OBVIOUS
      <3>3. RequestOK([r EXCEPT !.current = FALSE])
        BY <1>1, <3>1, <3>2
      <3>4. [r EXCEPT !.current = FALSE] = CI!Outdated(n)[a]
        BY ONLY <2>1, <2>3, <3>2, Zenon
      <3> QED BY <3>3, <3>4
    <2>4. CASE ~(request[a] # CI!None /\ request[a].name = n)
      BY <1>2, <2>1, <2>2, <2>4
    <2> QED BY <2>3, <2>4
  <1> QED BY <1>2 DEF CI!Outdated

\* An object that is deleted keeps its target until it is gone.
LEMMA DeleteMeaning ==
    ASSUME MeaningInv, NEW n \in Resources, CI!Delete(n)
    PROVE  MeaningInv'
  <1>1. /\ stored[n] # CI!None
        /\ stored' = [stored EXCEPT ![n] = IF @.finalizer THEN [@ EXCEPT !.deleting = TRUE] ELSE CI!None]
        /\ meant' = IF stored[n].finalizer THEN meant ELSE [meant EXCEPT ![n] = CI!Anything]
        /\ request' = CI!Outdated(n)
    BY DEF CI!Delete
  <1>2. stored[n] \in Objects
    BY <1>1 DEF MeaningInv
  <1>3. ASSUME NEW o \in Objects, NEW b \in BOOLEAN
        PROVE  [o EXCEPT !.deleting = b] \in Objects /\ [o EXCEPT !.deleting = b].target = o.target
    BY DEF Objects
  <1>4. PICK o \in Objects
               : o = [stored[n] EXCEPT !.deleting = TRUE] /\ o.target = stored[n].target
    BY <1>2, <1>3
  <1>5. stored' = [stored EXCEPT ![n] = IF stored[n].finalizer THEN o ELSE CI!None]
    BY <1>1, <1>4
  <1>6. /\ stored' \in [Resources -> Objects \cup {CI!None}]
        /\ \A m \in Resources :
             stored'[m] = IF m # n THEN stored[m] ELSE IF stored[n].finalizer THEN o ELSE CI!None
    BY <1>5 DEF MeaningInv
  <1>7. /\ meant' = [m \in Resources |-> meant'[m]]
        /\ \A m \in Resources :
             meant'[m] = IF m = n /\ ~stored[n].finalizer THEN CI!Anything ELSE meant[m]
    BY <1>1 DEF MeaningInv
  <1>8. \A m \in Resources :
          stored'[m] # CI!None /\ meant'[m] # CI!Anything =>
            Good(stored'[m].target) /\ CI!Meaning(stored'[m].target, Here) = meant'[m]
    BY <1>1, <1>4, <1>6, <1>7 DEF MeaningInv
  <1> QED BY <1>1, <1>6, <1>7, <1>8, OutdatedRequests DEF MeaningInv

\* What is stored is the target that the request becomes.
LEMMA StoreMeaning ==
    ASSUME MeaningInv, NEW a \in CI!Actors, CI!Store(a)
    PROVE  MeaningInv'
  <1> DEFINE r == request[a]
             n == r.name
             gone == CI!Object(r).deleting /\ ~r.finalizer
  <1>1. r # CI!None /\ RequestOK(r)
    BY DEF CI!Store, MeaningInv
  <1>2. CASE CI!Conflicts(r)
    <2>1. request' = [request EXCEPT ![a] = CI!None] /\ UNCHANGED <<stored, meant>>
      BY <1>2 DEF CI!Store
    <2>2. /\ request' = [b \in CI!Actors |-> request'[b]]
          /\ \A b \in CI!Actors : request'[b] # CI!None => request'[b] = request[b]
      BY <2>1 DEF MeaningInv
    <2> QED BY <2>1, <2>2 DEF MeaningInv
  <1>3. CASE ~CI!Conflicts(r)
    <2>1. /\ request' = [CI!Outdated(n) EXCEPT ![a] = CI!None]
          /\ stored' = [stored EXCEPT ![n] = IF gone THEN CI!None ELSE CI!Object(r)]
          /\ meant' = [meant EXCEPT ![n] = IF gone THEN CI!Anything ELSE r.means]
      BY <1>3 DEF CI!Store
    <2>2. n \in Resources /\ r.client \in Clients /\ r.finalizer \in BOOLEAN
          /\ CI!ToHub(r.version, Here, r.spec) \in CI!Targets
          /\ (r.means # CI!Anything => /\ Good(CI!ToHub(r.version, Here, r.spec))
                                       /\ CI!Meaning(CI!ToHub(r.version, Here, r.spec), Here) = r.means)
      BY <1>1 DEF RequestOK
    <2>3. PICK d \in BOOLEAN : d = (~r.new /\ stored[n].deleting)
      OBVIOUS
    <2>4. CI!Object(r) \in Objects /\ CI!Object(r).target = CI!ToHub(r.version, Here, r.spec)
      <3>1. CI!Object(r) = [client |-> r.client, target |-> CI!ToHub(r.version, Here, r.spec),
                         finalizer |-> r.finalizer, deleting |-> d]
        BY <2>3 DEF CI!Object
      <3> QED BY <2>2, <3>1 DEF Objects
    <2> HIDE DEF gone
    <2>5. /\ stored' \in [Resources -> Objects \cup {CI!None}]
          /\ \A m \in Resources :
               stored'[m] = IF m # n THEN stored[m] ELSE IF gone THEN CI!None ELSE CI!Object(r)
      BY <2>1, <2>4 DEF MeaningInv
    <2>6. /\ meant' = [m \in Resources |-> meant'[m]]
          /\ \A m \in Resources :
               meant'[m] = IF m # n THEN meant[m] ELSE IF gone THEN CI!Anything ELSE r.means
      BY <2>1 DEF MeaningInv
    <2>7. \A m \in Resources :
            stored'[m] # CI!None /\ meant'[m] # CI!Anything =>
              Good(stored'[m].target) /\ CI!Meaning(stored'[m].target, Here) = meant'[m]
      <3> SUFFICES ASSUME NEW m \in Resources, stored'[m] # CI!None, meant'[m] # CI!Anything
                   PROVE  Good(stored'[m].target) /\ CI!Meaning(stored'[m].target, Here) = meant'[m]
        OBVIOUS
      <3>1. CASE m # n
        BY <2>5, <2>6, <3>1 DEF MeaningInv
      <3>2. CASE m = n
        <4>1. stored'[m] = CI!Object(r) /\ meant'[m] = r.means
          BY <2>5, <2>6, <3>2
        <4> QED BY <2>2, <2>4, <4>1
      <3> QED BY <3>1, <3>2
    <2>8. /\ request' = [b \in CI!Actors |-> request'[b]]
          /\ \A b \in CI!Actors : request'[b] # CI!None => request'[b] = CI!Outdated(n)[b]
      BY <2>1, OutdatedRequests
    <2>9. \A b \in CI!Actors : request'[b] # CI!None => RequestOK(request'[b])
      BY <2>8, OutdatedRequests
    <2> QED BY <2>5, <2>6, <2>7, <2>8, <2>9 DEF MeaningInv
  <1> QED BY <1>2, <1>3

\* Each step keeps the meaning.
LEMMA NextMeaning ==
    ASSUME MeaningInv, [CI!Next]_(CI!vars)
    PROVE  MeaningInv'
  <1>1. CASE UNCHANGED CI!vars
    BY <1>1 DEF CI!vars, MeaningInv
  <1>2. ASSUME NEW n \in Resources, NEW u \in Users, NEW v \in Served, NEW c \in Clients,
               NEW s, (s \in CI!Specs(v) /\ CI!Create(u, n, v, c, s)) \/ CI!Edit(u, n, v, c, s)
        PROVE  MeaningInv'
    BY <1>2, CreateMeaning, EditMeaning
  <1>3. ASSUME NEW n \in Resources, CI!Delete(n) \/ CI!SetFinalizer(n) PROVE MeaningInv'
    BY <1>3, DeleteMeaning, FinalizerMeaning
  <1>4. ASSUME NEW a \in CI!Actors, CI!Store(a) PROVE MeaningInv'
    BY <1>4, StoreMeaning
  <1>5. ASSUME NEW v \in CI!Versions, CI!Sync(v) PROVE MeaningInv'
    BY <1>5 DEF CI!Sync, MeaningInv
  <1> QED BY <1>1, <1>2, <1>3, <1>4, <1>5 DEF CI!Next

\* The invariant says it.
LEMMA MeaningKept == MeaningInv => CI!DeclaredMeaningKept
  BY DEF MeaningInv, CI!DeclaredMeaningKept

\* The conversion part of a behaviour is one of Admission.
LEMMA ConversionPart ==
    /\ Init /\ part = "conversion" => CI!Init
    /\ [Next]_vars /\ part = "conversion" => [CI!Next]_(CI!vars)
  <1>1. Init /\ part = "conversion" => CI!Init
    BY DEF Init
  <1>2. [Next]_vars /\ part = "conversion" => [CI!Next]_(CI!vars)
    BY DEF Next, vars, OfIntents, InConversion, InRivals, InDatabases, InCerts, InCloud,
           InTelemetry, writeVars, intentsOnly, CI!vars
  <1> QED BY <1>1, <1>2

\* A target written through any version means as stored what it meant to its writer, and
\* still does after clients of other versions read it and write it back, whatever else
\* is written, deleted or refused meanwhile (ConvertTo and ConvertFrom of the versions).
THEOREM MeaningsKept == Spec => []DeclaredMeaningKept
  <1>1. Init /\ part = "conversion" => MeaningInv
    BY ConversionPart, InitMeaning
  <1>2. MeaningInv /\ [Next]_vars /\ part = "conversion" => MeaningInv'
    BY ConversionPart, NextMeaning
  <1>3. MeaningInv => DeclaredMeaningKept
    BY MeaningKept DEF DeclaredMeaningKept
  <1>4. ~(part = "conversion") => DeclaredMeaningKept
    BY DEF DeclaredMeaningKept
  <1>5. [Next]_vars /\ part = "conversion" => (part = "conversion")'
    BY SamePart
  <1>6. [Next]_vars /\ ~(part = "conversion") => ~(part = "conversion")'
    BY SamePart
  <1> QED BY <1>1, <1>2, <1>3, <1>4, <1>5, <1>6, PTL DEF Spec

=============================================================================
